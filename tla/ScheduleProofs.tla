--------------------------- MODULE ScheduleProofs ---------------------------
(***************************************************************************)
(* The engine of the schedules neither loses the token of a task that goes *)
(* on posting nor posts twice for a slot, whatever is edited and however   *)
(* the threads interleave.  NoOrphans is inductive over the types.         *)
(* FiresOncePerSlot also needs that a name and a number tell a task        *)
(* (Numbered), that a sleeping task waits for a slot of the future which   *)
(* its name has not posted for (Fresh), and that nothing was posted ahead  *)
(* of time (FiredInThePast).                                               *)
(*                                                                         *)
(* The counts that the engine keeps (ScheduleTelemetry) are those of its   *)
(* posts, and the file they are saved in (AtomicFile) is a snapshot of     *)
(* them.                                                                   *)
(***************************************************************************)
EXTENDS ScheduleRunner, ScheduleTelemetry, FiniteSetTheorems, SequenceTheorems,
        WellFoundedInduction, TLAPS

-----------------------------------------------------------------------------
(* The tasks of the schedules *)

\* The number of a task is below the counter of its name, and tells it.
Numbered ==
  /\ \A t \in tasks : t.gen < gen[t.name]
  /\ \A t, u \in tasks : t.name = u.name /\ t.gen = u.gen => t = u

\* No name has posted for an instant to come.
FiredInThePast == \A f \in fired : f[2] <= now

\* A task that has woken up is due.
DueWhenAwake == \A t \in tasks : t.st = "check" => t.at <= now

\* The task of a name that is still wanted waits for a slot not posted for.
Fresh ==
  \A t \in tasks :
    t.st \in {"sleep", "check"} /\ ~t.cancelled => <<t.name, t.at>> \notin fired

RInv == TypeOK /\ NoOrphans /\ Numbered /\ FiredInThePast /\ DueWhenAwake /\ Fresh

-----------------------------------------------------------------------------
\* A set of numbers that is not empty has a least element.
LEMMA LeastOf ==
  ASSUME NEW S, S \subseteq Nat, S # {}
  PROVE  \E m \in S : \A r \in S : m <= r
<1> DEFINE R == {ss \in Nat \X Nat : ss[1] < ss[2]}
<1>1. IsWellFoundedOn(R, Nat)
  BY NatLessThanWellFounded DEF OpToRel
<1> HIDE DEF R
<1>2. PICK m \in S : \A r \in S : ~(<<r, m>> \in R)
  BY <1>1, WFMin
<1>3. ASSUME NEW r \in S PROVE m <= r
  <2>1. m \in Nat /\ r \in Nat /\ <<r, m>> \notin R
    BY <1>2
  <2>2. \A ss \in Nat \X Nat : ss[1] < ss[2] => ss \in R
    BY DEF R
  <2>3. <<r, m>> \in Nat \X Nat
    BY <2>1
  <2>4. ~(r < m)
    BY <2>1, <2>2, <2>3, <<r, m>>[1] = r, <<r, m>>[2] = m
  <2> QED
    BY <2>1, <2>4
<1> QED
  BY <1>3

\* The next fire time is in the future.
LEMMA SlotIsAhead ==
  ASSUME NEW c \in Contents, now \in Nat, first_slot(c) # None
  PROVE  first_slot(c) \in Nat /\ first_slot(c) > now
<1> DEFINE later == {s \in Slots[c] : s > now}
<1>1. later # {}
  BY DEF first_slot
<1>2. later \subseteq Nat
  BY RunnerAssumption
<1>3. \E m \in later : \A r \in later : m <= r
  BY <1>1, <1>2, LeastOf
<1>4. first_slot(c) = CHOOSE s \in later : \A r \in later : s <= r
  BY <1>1 DEF first_slot
<1>5. first_slot(c) \in later
  BY <1>3, <1>4
<1> QED
  BY <1>2, <1>5

-----------------------------------------------------------------------------
LEMMA InitHolds == Init => RInv
<1> SUFFICES ASSUME Init PROVE RInv
  OBVIOUS
<1>1. running \in [Names -> Opt([gen : Nat, content : Contents])] /\ gen \in [Names -> Nat]
  BY DEF Init, Opt
<1>2. TypeOK
  <2>1. edits \in 0 .. MaxEdits /\ now \in 0 .. MaxNow
    BY RunnerAssumption DEF Init
  <2>2. settings \in [Names -> Opt(Contents)] /\ writer = "idle" /\ orch = "boot"
    BY DEF Init
  <2>3. armed \in BOOLEAN /\ woken \in BOOLEAN /\ stopping \in BOOLEAN /\ shutting \in BOOLEAN
    BY DEF Init
  <2>4. tasks \subseteq Task /\ fired \subseteq Names \X Nat
    BY DEF Init
  <2> QED
    BY <1>1, <2>1, <2>2, <2>3, <2>4 DEF TypeOK
<1>3. tasks = {} /\ fired = {}
  BY DEF Init
<1> QED
  BY <1>2, <1>3 DEF RInv, NoOrphans, Numbered, FiredInThePast, DueWhenAwake, Fresh

\* A task that is not cancelled has its entry in the running map.
LEMMA EntriesAreTasks ==
  ASSUME RInv, NEW t \in tasks, ~t.cancelled
  PROVE  /\ running[t.name] = [gen |-> t.gen, content |-> t.content]
         /\ running[t.name] # None /\ running[t.name].gen = t.gen
<1>1. t \in Task
  BY DEF RInv, TypeOK
<1>2. running[t.name] = [gen |-> t.gen, content |-> t.content]
  BY DEF RInv, NoOrphans
<1>3. [gen |-> t.gen, content |-> t.content] \in [gen : Nat, content : Contents]
  BY <1>1 DEF Task
<1> QED
  BY <1>2, <1>3, RunnerAssumption

\* A task that reconcile leaves alone runs what the settings want.
LEMMA LeftAlone ==
  ASSUME RInv, NEW t \in tasks, ~Stopped(t).cancelled
  PROVE  ~t.cancelled /\ kept(t.name)
<1>1. t \in Task
  BY DEF RInv, TypeOK
<1>2. ~t.cancelled
  BY <1>1 DEF Stopped, Task
<1>3. running[t.name] # None /\ running[t.name].gen = t.gen
  BY <1>2, EntriesAreTasks
<1> QED
  BY <1>1, <1>2, <1>3 DEF Stopped, Task

\* What reconcile does to a task is to cancel it at most.
LEMMA StoppedIsTask ==
  ASSUME NEW t \in Task
  PROVE  /\ Stopped(t) \in Task
         /\ Stopped(t).name = t.name /\ Stopped(t).gen = t.gen
         /\ Stopped(t).content = t.content /\ Stopped(t).st = t.st /\ Stopped(t).at = t.at
         /\ t.cancelled => Stopped(t).cancelled
BY DEF Stopped, Task, kept

LEMMA SpawnedIsTask ==
  ASSUME TypeOK, NEW n \in Wanted
  PROVE  /\ Spawned(n) \in Task /\ n \in Names /\ settings[n] \in Contents
         /\ Spawned(n).name = n /\ Spawned(n).gen = gen[n]
         /\ Spawned(n).content = settings[n] /\ Spawned(n).st = "plan"
         /\ ~kept(n)
BY DEF TypeOK, Spawned, Task, Wanted, Opt, TaskSteps

\* The invariant survives reconcile.
LEMMA ReconcileKeeps ==
  ASSUME RInv, reconcile, UNCHANGED <<settings, now, fired>>
  PROVE  /\ running' \in [Names -> Opt([gen : Nat, content : Contents])]
         /\ gen' \in [Names -> Nat] /\ tasks' \subseteq Task
         /\ NoOrphans' /\ Numbered' /\ FiredInThePast' /\ DueWhenAwake' /\ Fresh'
<1> USE DEF RInv
<1>1. \A t \in tasks : t \in Task
  BY DEF TypeOK
<1>2. \A u \in tasks' : \/ \E t \in tasks : u = Stopped(t)
                        \/ \E n \in Wanted : u = Spawned(n)
  BY DEF reconcile
<1>3. gen' \in [Names -> Nat]
  BY DEF reconcile, TypeOK
<1>4. tasks' \subseteq Task
  BY <1>1, <1>2, StoppedIsTask, SpawnedIsTask
<1>5. running' \in [Names -> Opt([gen : Nat, content : Contents])]
  <2>1. \A n \in Wanted : [gen |-> gen[n], content |-> settings[n]]
                            \in [gen : Nat, content : Contents]
    BY SpawnedIsTask DEF TypeOK
  <2> QED
    BY <2>1 DEF reconcile, TypeOK, Opt
<1>6. NoOrphans'
  <2> SUFFICES ASSUME NEW u \in tasks', ~u.cancelled
               PROVE  running'[u.name] = [gen |-> u.gen, content |-> u.content]
    BY DEF NoOrphans
  <2>1. CASE \E t \in tasks : u = Stopped(t)
    <3>1. PICK t \in tasks : u = Stopped(t)
      BY <2>1
    <3>2. ~t.cancelled /\ kept(t.name)
      BY <3>1, LeftAlone
    <3>3. running[t.name] = [gen |-> t.gen, content |-> t.content]
      BY <3>2, EntriesAreTasks
    <3>4. t.name \in Names /\ t.content \in Contents
      BY <1>1 DEF Task
    <3>5. t.name \notin Wanted /\ settings[t.name] # None
      BY <3>2, <3>3, <3>4, RunnerAssumption DEF Wanted, kept
    <3>6. running'[t.name] = running[t.name]
      BY <3>4, <3>5 DEF reconcile
    <3> QED
      BY <1>1, <3>1, <3>3, <3>6, StoppedIsTask
  <2>2. CASE \E n \in Wanted : u = Spawned(n)
    <3>1. PICK n \in Wanted : u = Spawned(n)
      BY <2>2
    <3>2. running'[n] = [gen |-> gen[n], content |-> settings[n]]
      BY SpawnedIsTask DEF reconcile
    <3> QED
      BY <3>1, <3>2, SpawnedIsTask
  <2> QED
    BY <1>2, <2>1, <2>2
<1>7. Numbered'
  <2>1. \A t \in tasks : t.gen < gen[t.name] /\ t.name \in Names /\ t.gen \in Nat
    BY <1>1 DEF Numbered, Task
  <2>2. \A n \in Names : gen[n] <= gen'[n] /\ (n \in Wanted => gen[n] < gen'[n])
                         /\ gen[n] \in Nat /\ gen'[n] \in Nat
    BY DEF reconcile, TypeOK
  <2>3. \A u \in tasks' : u.gen < gen'[u.name]
    <3> TAKE u \in tasks'
    <3>1. CASE \E t \in tasks : u = Stopped(t)
      BY <3>1, <1>1, <2>1, <2>2, StoppedIsTask
    <3>2. CASE \E n \in Wanted : u = Spawned(n)
      BY <3>2, <2>2, SpawnedIsTask
    <3> QED
      BY <1>2, <3>1, <3>2
  <2>4. \A u, v \in tasks' : u.name = v.name /\ u.gen = v.gen => u = v
    <3> SUFFICES ASSUME NEW u \in tasks', NEW v \in tasks', u.name = v.name, u.gen = v.gen
                 PROVE  u = v
      OBVIOUS
    <3>1. CASE /\ \E t \in tasks : u = Stopped(t)
               /\ \E t \in tasks : v = Stopped(t)
      BY <3>1, <1>1, StoppedIsTask DEF Numbered
    <3>2. CASE /\ \E t \in tasks : u = Stopped(t)
               /\ \E n \in Wanted : v = Spawned(n)
      BY <3>2, <1>1, <2>1, <2>2, StoppedIsTask, SpawnedIsTask
    <3>3. CASE /\ \E n \in Wanted : u = Spawned(n)
               /\ \E t \in tasks : v = Stopped(t)
      BY <3>3, <1>1, <2>1, <2>2, StoppedIsTask, SpawnedIsTask
    <3>4. CASE /\ \E n \in Wanted : u = Spawned(n)
               /\ \E n \in Wanted : v = Spawned(n)
      BY <3>4, SpawnedIsTask
    <3> QED
      BY <1>2, <3>1, <3>2, <3>3, <3>4
  <2> QED
    BY <2>3, <2>4 DEF Numbered
<1>8. FiredInThePast'
  BY DEF FiredInThePast
<1>9. \A u \in tasks' : u.st \in {"sleep", "check"} =>
        \E t \in tasks : /\ t.name = u.name /\ t.st = u.st /\ t.at = u.at
                         /\ ~u.cancelled => ~t.cancelled
  BY <1>1, <1>2, StoppedIsTask, SpawnedIsTask
<1>10. DueWhenAwake'
  BY <1>9 DEF DueWhenAwake
<1>11. Fresh'
  BY <1>9 DEF Fresh
<1> QED
  BY <1>3, <1>4, <1>5, <1>6, <1>7, <1>8, <1>10, <1>11

-----------------------------------------------------------------------------
\* A step of task t leaves the others alone; u is what becomes of t.
LEMMA TaskMoves ==
  ASSUME RInv, NEW t \in tasks, NEW u \in Task,
         tasks' = (tasks \ {t}) \cup {u},
         u.name = t.name, u.gen = t.gen, u.content = t.content, u.cancelled = t.cancelled,
         UNCHANGED <<running, gen, now>>,
         fired' \subseteq Names \X Nat,
         \A f \in fired' : f[2] <= now /\ (f \in fired \/ f[1] = t.name),
         fired' # fired => ~t.cancelled,
         u.st = "check" => u.at <= now,
         u.st \in {"sleep", "check"} => fired' = fired /\ (~u.cancelled => <<u.name, u.at>> \notin fired)
  PROVE  /\ tasks' \subseteq Task
         /\ NoOrphans' /\ Numbered' /\ FiredInThePast' /\ DueWhenAwake' /\ Fresh'
<1> USE DEF RInv
<1>1. tasks' \subseteq Task
  BY DEF TypeOK
<1>2. NoOrphans'
  BY DEF NoOrphans
<1>3. Numbered'
  BY DEF Numbered
<1>4. FiredInThePast' /\ DueWhenAwake'
  BY DEF FiredInThePast, DueWhenAwake
<1>5. Fresh'
  <2> SUFFICES ASSUME NEW v \in tasks', v.st \in {"sleep", "check"}, ~v.cancelled
               PROVE  <<v.name, v.at>> \notin fired'
    BY DEF Fresh
  <2>1. CASE v = u
    BY <2>1
  <2>2. CASE v # u
    <3>1. v \in tasks /\ v # t
      BY <2>2
    <3>2. <<v.name, v.at>> \notin fired
      BY <3>1 DEF Fresh
    <3>3. CASE fired' = fired
      BY <3>2, <3>3
    <3>4. CASE fired' # fired
      <4>1. running[t.name].gen = t.gen /\ running[v.name].gen = v.gen
        BY <3>1, <3>4, EntriesAreTasks
      <4>2. v.name # t.name
        BY <3>1, <4>1 DEF Numbered
      <4>3. \A f \in fired' : f \notin fired => f[1] = t.name
        OBVIOUS
      <4> QED
        BY <3>2, <4>2, <4>3
    <3> QED
      BY <3>3, <3>4
  <2> QED
    BY <2>1, <2>2
<1> QED
  BY <1>1, <1>2, <1>3, <1>4, <1>5

\* A task that exits takes nothing with it.
LEMMA TaskExits ==
  ASSUME RInv, tasks' \subseteq tasks, UNCHANGED <<running, gen, now, fired>>
  PROVE  /\ tasks' \subseteq Task
         /\ NoOrphans' /\ Numbered' /\ FiredInThePast' /\ DueWhenAwake' /\ Fresh'
BY DEF RInv, TypeOK, NoOrphans, Numbered, FiredInThePast, DueWhenAwake, Fresh

LEMMA TaskStepKeeps ==
  ASSUME RInv, NEW t \in tasks, TaskStep(t)
  PROVE  RInv'
<1> USE DEF RInv
<1>1. t \in Task /\ now \in Nat /\ fired \subseteq Names \X Nat
  BY RunnerAssumption DEF TypeOK
<1>2. UNCHANGED <<settings, writer, edits, orch, armed, woken, running, gen, now, stopping,
                  shutting>>
  BY DEF TaskStep, Plan, WakeUp, Cancelled, Fire, Said, Recorded, TaskUnchanged
<1>3. SUFFICES /\ fired' \subseteq Names \X Nat /\ tasks' \subseteq Task
               /\ NoOrphans' /\ Numbered' /\ FiredInThePast' /\ DueWhenAwake' /\ Fresh'
  BY <1>2 DEF TypeOK
<1>4. CASE fired' = fired /\ Exit(t)
  BY <1>1, <1>2, <1>4, TaskExits DEF Exit
<1>5. ASSUME NEW st \in {"say", "record", "plan"}, Step(t, st), UNCHANGED fired
      PROVE  /\ tasks' \subseteq Task
             /\ NoOrphans' /\ Numbered' /\ FiredInThePast' /\ DueWhenAwake' /\ Fresh'
  <2> DEFINE u == [t EXCEPT !.st = st]
  <2>1. /\ u \in Task /\ u.st = st /\ u.name = t.name /\ u.gen = t.gen
        /\ u.content = t.content /\ u.cancelled = t.cancelled
    BY <1>1 DEF Task, TaskSteps
  <2>2. tasks' = (tasks \ {t}) \cup {u}
    BY <1>5 DEF Step
  <2> HIDE DEF u
  <2> QED
    BY <1>1, <1>2, <1>5, <2>1, <2>2, TaskMoves DEF FiredInThePast
<1>6. CASE Plan(t)
  <2>1. CASE first_slot(t.content) = None
    BY <1>1, <1>4, <1>6, <2>1 DEF Plan
  <2>2. CASE first_slot(t.content) # None
    <3> DEFINE u == [t EXCEPT !.st = "sleep", !.at = first_slot(t.content)]
    <3>1. first_slot(t.content) \in Nat /\ first_slot(t.content) > now
      BY <1>1, <2>2, SlotIsAhead DEF Task
    <3>2. /\ u \in Task /\ u.st = "sleep" /\ u.name = t.name /\ u.gen = t.gen
          /\ u.content = t.content /\ u.cancelled = t.cancelled /\ u.at = first_slot(t.content)
      BY <1>1, <3>1 DEF Task, TaskSteps
    <3>3. tasks' = (tasks \ {t}) \cup {u} /\ fired' = fired
      BY <1>6, <2>2 DEF Plan
    <3> HIDE DEF u
    <3>4. <<u.name, u.at>> \notin fired
      BY <1>1, <3>1, <3>2 DEF FiredInThePast
    <3> QED
      BY <1>1, <1>2, <3>2, <3>3, <3>4, TaskMoves DEF FiredInThePast
  <2> QED
    BY <2>1, <2>2
<1>7. CASE WakeUp(t)
  <2> DEFINE u == [t EXCEPT !.st = "check"]
  <2>1. /\ u \in Task /\ u.st = "check" /\ u.name = t.name /\ u.gen = t.gen
        /\ u.content = t.content /\ u.cancelled = t.cancelled /\ u.at = t.at
    BY <1>1 DEF Task, TaskSteps
  <2>2. tasks' = (tasks \ {t}) \cup {u} /\ fired' = fired /\ t.st = "sleep" /\ t.at <= now
    BY <1>1, <1>7 DEF WakeUp, Step, Task
  <2> HIDE DEF u
  <2>3. ~u.cancelled => <<u.name, u.at>> \notin fired
    BY <2>1, <2>2 DEF Fresh
  <2> QED
    BY <1>1, <1>2, <2>1, <2>2, <2>3, TaskMoves DEF FiredInThePast
<1>8. CASE Cancelled(t)
  BY <1>1, <1>4, <1>8 DEF Cancelled
<1>9. CASE Fire(t)
  <2>1. CASE t.cancelled
    BY <1>1, <1>4, <1>9, <2>1 DEF Fire
  <2>2. CASE ~t.cancelled
    <3> DEFINE u == [t EXCEPT !.st = "say"]
    <3>1. /\ u \in Task /\ u.st = "say" /\ u.name = t.name /\ u.gen = t.gen
          /\ u.content = t.content /\ u.cancelled = t.cancelled
      BY <1>1 DEF Task, TaskSteps
    <3>2. tasks' = (tasks \ {t}) \cup {u} /\ fired' = fired \cup {<<t.name, t.at>>}
          /\ t.st = "check"
      BY <1>9, <2>2 DEF Fire, Step
    <3> HIDE DEF u
    <3>3. t.at <= now /\ t.at \in Nat /\ t.name \in Names
      BY <1>1, <3>2 DEF DueWhenAwake, Task
    <3>4. fired' \subseteq Names \X Nat
      BY <1>1, <3>2, <3>3
    <3>5. \A f \in fired' : f[2] <= now /\ (f \in fired \/ f[1] = t.name)
      BY <3>2, <3>3 DEF FiredInThePast
    <3> QED
      BY <1>1, <1>2, <2>2, <3>1, <3>2, <3>4, <3>5, TaskMoves
  <2> QED
    BY <2>1, <2>2
<1>10. CASE Said(t)
  BY <1>1, <1>5, <1>10 DEF Said
<1>11. CASE Recorded(t)
  BY <1>1, <1>5, <1>11 DEF Recorded
<1> QED
  BY <1>6, <1>7, <1>8, <1>9, <1>10, <1>11 DEF TaskStep

-----------------------------------------------------------------------------
\* When the orchestrator shuts down every task is cancelled.
LEMMA ShutdownKeeps ==
  ASSUME RInv, Shutdown
  PROVE  RInv'
<1> USE DEF RInv
<1> DEFINE cancel(t) == [t EXCEPT !.cancelled = @ \/ (/\ running[t.name] # None
                                                      /\ running[t.name].gen = t.gen)]
<1>1. \A t \in tasks : t \in Task
  BY DEF TypeOK
<1>2. \A t \in tasks :
        /\ cancel(t) \in Task /\ cancel(t).name = t.name /\ cancel(t).gen = t.gen
        /\ cancel(t).st = t.st /\ cancel(t).at = t.at
        /\ cancel(t).cancelled = (t.cancelled \/ (/\ running[t.name] # None
                                                  /\ running[t.name].gen = t.gen))
  BY <1>1 DEF Task
<1>3. tasks' = {cancel(t) : t \in tasks}
  BY DEF Shutdown
<1>4. \A t \in tasks : cancel(t).cancelled
  <2> TAKE t \in tasks
  <2>1. ~t.cancelled => running[t.name] # None /\ running[t.name].gen = t.gen
    BY EntriesAreTasks
  <2> QED
    BY <1>2, <2>1
<1> HIDE DEF cancel
<1>5. NoOrphans' /\ Fresh'
  BY <1>3, <1>4 DEF NoOrphans, Fresh
<1>6. Numbered'
  BY <1>2, <1>3 DEF Numbered, Shutdown
<1>7. FiredInThePast' /\ DueWhenAwake'
  BY <1>2, <1>3 DEF FiredInThePast, DueWhenAwake, Shutdown
<1>8. running' \in [Names -> Opt([gen : Nat, content : Contents])] /\ tasks' \subseteq Task
  BY <1>2, <1>3 DEF Shutdown, Opt
<1>9. TypeOK'
  BY <1>8 DEF TypeOK, Shutdown
<1> QED
  BY <1>5, <1>6, <1>7, <1>9

LEMMA StepKeeps ==
  ASSUME RInv, [Next]_vars
  PROVE  RInv'
<1> USE DEF RInv
<1>1. ASSUME UNCHANGED <<running, gen, tasks, fired>>, now <= now', now \in Int, now' \in Int,
             TypeOK'
      PROVE  RInv'
  <2>1. NoOrphans' /\ Numbered' /\ Fresh'
    BY <1>1 DEF NoOrphans, Numbered, Fresh
  <2>2. FiredInThePast'
    BY <1>1 DEF FiredInThePast, TypeOK
  <2>3. DueWhenAwake'
    BY <1>1 DEF DueWhenAwake, TypeOK, Task
  <2> QED
    BY <1>1, <2>1, <2>2, <2>3
<1>2. now \in Nat /\ MaxNow \in Nat /\ edits \in Nat /\ MaxEdits \in Nat
  BY RunnerAssumption DEF TypeOK
<1>3. ASSUME NEW n \in Names, NEW c \in Opt(Contents), Swap(n, c)
      PROVE  RInv'
  <2>1. settings' \in [Names -> Opt(Contents)] /\ edits' \in 0 .. MaxEdits
    BY <1>2, <1>3 DEF Swap, TypeOK
  <2>2. TypeOK'
    BY <1>3, <2>1 DEF Swap, TypeOK
  <2> QED
    BY <1>1, <1>2, <1>3, <2>2 DEF Swap
<1>4. CASE notify_waiters
  <2>1. woken' \in BOOLEAN
    BY <1>4 DEF notify_waiters, TypeOK
  <2>2. TypeOK'
    BY <1>4, <2>1 DEF notify_waiters, TypeOK
  <2> QED
    BY <1>1, <1>2, <1>4, <2>2 DEF notify_waiters
<1>5. CASE Boot \/ Changed \/ Rearm
  <2>1. TypeOK'
    BY <1>5 DEF Boot, Changed, Rearm, TypeOK
  <2> QED
    BY <1>1, <1>2, <1>5, <2>1 DEF Boot, Changed, Rearm
<1>6. CASE FirstReconcile \/ Reconcile
  <2>1. /\ reconcile /\ orch' \in {"select", "rearm"}
        /\ UNCHANGED <<settings, writer, edits, armed, woken, now, stopping, shutting, fired>>
    BY <1>6 DEF FirstReconcile, Reconcile
  <2>2. /\ running' \in [Names -> Opt([gen : Nat, content : Contents])]
        /\ gen' \in [Names -> Nat] /\ tasks' \subseteq Task
        /\ NoOrphans' /\ Numbered' /\ FiredInThePast' /\ DueWhenAwake' /\ Fresh'
    BY <2>1, ReconcileKeeps
  <2>3. TypeOK'
    BY <2>1, <2>2 DEF TypeOK
  <2> QED
    BY <2>2, <2>3
<1>7. CASE Shutdown
  BY <1>7, ShutdownKeeps
<1>8. CASE Signal
  <2>1. shutting' \in BOOLEAN /\ stopping' \in BOOLEAN
    BY <1>8 DEF Signal
  <2>2. TypeOK'
    BY <1>8, <2>1 DEF Signal, TypeOK
  <2> QED
    BY <1>1, <1>2, <1>8, <2>2 DEF Signal
<1>9. ASSUME NEW t \in tasks, TaskStep(t)
      PROVE  RInv'
  BY <1>9, TaskStepKeeps
<1>10. CASE Tick
  <2>1. now' \in 0 .. MaxNow
    BY <1>2, <1>10 DEF Tick
  <2>2. TypeOK'
    BY <1>10, <2>1 DEF Tick, TypeOK
  <2> QED
    BY <1>1, <1>2, <1>10, <2>2 DEF Tick
<1>11. CASE UNCHANGED vars
  <2>1. TypeOK'
    BY <1>11 DEF vars, TypeOK
  <2> QED
    BY <1>1, <1>2, <1>11, <2>1 DEF vars
<1> QED
  BY <1>3, <1>4, <1>5, <1>6, <1>7, <1>8, <1>9, <1>10, <1>11 DEF Next, Orchestrator

LEMMA Always == Spec => []RInv
BY InitHolds, StepKeeps, PTL DEF Spec

\* The variables of the engine stay in their sets.
THEOREM RunnerTyped == Spec => []TypeOK
<1>1. RInv => TypeOK
  BY DEF RInv
<1> QED
  BY Always, <1>1, PTL

\* However the settings change, reconcile never loses the token of a task that goes on
\* posting: a task that is not cancelled is the entry of its name in the running map.
THEOREM NoTaskIsLost == Spec => []NoOrphans
<1>1. RInv => NoOrphans
  BY DEF RInv
<1> QED
  BY Always, <1>1, PTL

\* A name posts at most once for a slot, although an edit replaces its task while the old
\* one may just be waking up (run_schedule_task looks at its token again after the sleep).
THEOREM PostsOncePerSlot == Spec => FiresOncePerSlot
<1> DEFINE Once == \A t \in tasks : \A u \in tasks' :
                     (/\ u.name = t.name /\ u.gen = t.gen /\ t.st # "say" /\ u.st = "say")
                     => <<u.name, u.at>> \notin fired
<1>1. RInv /\ [Next]_vars => [Once]_vars
  <2> SUFFICES ASSUME RInv, [Next]_vars, NEW t \in tasks, NEW u \in tasks',
                      u.name = t.name, u.gen = t.gen, t.st # "say", u.st = "say"
               PROVE  <<u.name, u.at>> \notin fired
    OBVIOUS
  <2> USE DEF RInv
  <2>1. \A v \in tasks : v \in Task
    BY DEF TypeOK
  <2>2. ASSUME NEW v \in tasks, v.name = u.name, v.gen = u.gen, v.st = "say"
        PROVE  FALSE
    BY <2>2 DEF Numbered
  <2>3. CASE UNCHANGED tasks
    BY <2>2, <2>3
  <2>4. CASE reconcile
    <3>1. \/ \E v \in tasks : u = Stopped(v)
          \/ \E n \in Wanted : u = Spawned(n)
      BY <2>4 DEF reconcile
    <3> QED
      BY <2>1, <2>2, <3>1, StoppedIsTask, SpawnedIsTask
  <2>5. CASE Shutdown
    <3>1. PICK v \in tasks : u = [v EXCEPT !.cancelled = @ \/ (/\ running[v.name] # None
                                                               /\ running[v.name].gen = v.gen)]
      BY <2>5 DEF Shutdown
    <3>2. v.name = u.name /\ v.gen = u.gen /\ v.st = "say"
      BY <2>1, <3>1 DEF Task
    <3> QED
      BY <2>2, <3>2
  <2>6. ASSUME NEW v \in tasks, TaskStep(v)
        PROVE  <<u.name, u.at>> \notin fired
    <3>1. u \notin tasks
      BY <2>2
    <3>2. CASE Fire(v)
      <4>1. ~v.cancelled /\ v.st = "check" /\ u = [v EXCEPT !.st = "say"]
        BY <3>1, <3>2 DEF Fire, Exit, Step
      <4>2. u.name = v.name /\ u.at = v.at
        BY <2>1, <4>1 DEF Task
      <4> QED
        BY <4>1, <4>2 DEF Fresh
    <3>3. CASE Plan(v)
      <4>1. u = [v EXCEPT !.st = "sleep", !.at = first_slot(v.content)]
        BY <3>1, <3>3 DEF Plan, Exit
      <4> QED
        BY <2>1, <4>1 DEF Task
    <3>4. CASE WakeUp(v) \/ Cancelled(v) \/ Said(v) \/ Recorded(v)
      <4>1. \E st \in {"check", "record", "plan"} : u = [v EXCEPT !.st = st]
        BY <3>1, <3>4 DEF WakeUp, Cancelled, Said, Recorded, Exit, Step
      <4> QED
        BY <2>1, <4>1 DEF Task
    <3> QED
      BY <2>6, <3>2, <3>3, <3>4 DEF TaskStep
  <2>7. \/ UNCHANGED tasks \/ reconcile \/ Shutdown
        \/ \E v \in tasks : TaskStep(v)
    BY DEF Next, vars, Orchestrator, Swap, notify_waiters, Boot, FirstReconcile, Changed,
       Reconcile, Rearm, Signal, Tick
  <2> QED
    BY <2>3, <2>4, <2>5, <2>6, <2>7
<1> QED
  BY Always, <1>1, PTL DEF Spec, FiresOncePerSlot

-----------------------------------------------------------------------------
(* The telemetry of the schedules *)

Stages == {"idle", "open", "fill", "rename", "saved"}
Handles == Inodes \cup {NoRuntime}

\* What is in memory, in a snapshot or in a file was held by the store, or is
\* a text that no reader takes for a map.
TelemetryTyped ==
  /\ held \subseteq Maps /\ map \in held
  /\ today \in 0 .. MaxDay /\ restarts \in Nat
  /\ posted \in [ScheduleNames -> [0 .. MaxDay -> Nat]]
  /\ saving \in [Actors -> [st : Stages, snap : held \cup {NoRuntime}, ino : Handles]]
  /\ \A x \in Actors : saving[x].st # "idle" => saving[x].snap \in held
  /\ \A x \in Actors : saving[x].st = "fill" => saving[x].ino \in Inodes
  /\ fs \in [tmp : Handles, file : Handles, data : [Inodes -> held \cup {Empty, Mixed}]]

\* No map that was ever held counts more than was posted.
Counted ==
  \A m \in held, n \in ScheduleNames :
    m[n] # NoRuntime => m[n].fires <= posted[n][m[n].day]

\* Before the first restart the counter of a schedule is that of the last day
\* on which it posted.
Exact ==
  restarts = 0 =>
    \A n \in ScheduleNames :
      /\ map[n] # NoRuntime =>
           map[n].fires = posted[n][map[n].day] /\ map[n].day <= today
      /\ \A d \in 0 .. MaxDay : posted[n][d] # 0 => map[n] # NoRuntime /\ d <= map[n].day

\* While the saves have not overlapped, one call at a time is past its
\* snapshot, which is the map; and the sibling it writes is not the target.
OneSaver ==
  /\ \A x, y \in Actors : saving[x].st # "idle" /\ saving[y].st # "idle" => x = y
  /\ \A x \in Actors : saving[x].st # "idle" => saving[x].snap = map

SiblingIsApart ==
  /\ fs.tmp # NoRuntime => fs.tmp # fs.file
  /\ \A x \in Actors :
       /\ saving[x].st = "fill" => saving[x].ino = fs.tmp /\ fs.data[fs.tmp] = Empty
       /\ saving[x].st = "rename" => fs.tmp # NoRuntime /\ fs.data[fs.tmp] = map
       /\ saving[x].st = "saved" => Disk!Content(fs) = map

TInv ==
  /\ TelemetryTyped /\ Counted /\ Exact
  /\ ~overlap => OneSaver /\ SiblingIsApart /\ FileIsASnapshot /\ CleanMeansSaved

LEMMA EmptyMapIsOne == EmptyMap \in Maps
  BY DEF EmptyMap, Maps

LEMMA TelemetryStarts == TelemetryInit => TInv
<1> SUFFICES ASSUME TelemetryInit
             PROVE  TInv
  OBVIOUS
<1>1. Disk!Content(fs) = NoRuntime /\ fs.tmp = NoRuntime /\ fs.file = NoRuntime
      /\ fs.data = [i \in Inodes |-> Empty]
  BY DEF TelemetryInit, Disk!Content, Disk!FileWith
<1>2. map = EmptyMap /\ open(Disk!Content(fs)) = map
  BY <1>1, TelemetryAssumption DEF TelemetryInit, open
<1>3. fs \in [tmp : Handles, file : Handles, data : [Inodes -> held \cup {Empty, Mixed}]]
  BY <1>1 DEF TelemetryInit, Disk!FileWith, Handles
<1>4. TelemetryTyped
  BY <1>2, <1>3, EmptyMapIsOne, TelemetryAssumption
  DEF TelemetryInit, TelemetryTyped, Stages, Handles, Idle
<1>5. Counted /\ Exact
  BY <1>2 DEF TelemetryInit, Counted, Exact, EmptyMap
<1>6. OneSaver /\ SiblingIsApart /\ FileIsASnapshot /\ CleanMeansSaved
  BY <1>1, <1>2
  DEF TelemetryInit, OneSaver, SiblingIsApart, FileIsASnapshot, CleanMeansSaved, Idle
<1> QED  BY <1>4, <1>5, <1>6 DEF TInv

\* The target holds a map the store has held, unless it was torn.
LEMMA ContentIsHeld ==
  ASSUME TelemetryTyped
  PROVE  Disk!Content(fs) \in held \cup {Empty, Mixed, NoRuntime}
  BY DEF TelemetryTyped, Handles, Disk!Content

\* With more inodes than writers there is always one to create the sibling as.
LEMMA OpenedIsAnInode ==
  ASSUME TelemetryTyped, NEW x \in Actors
  PROVE  LET others == {saving[y].ino : y \in Actors \ {x}} IN
         /\ Disk!Opened(fs, others) \in Inodes
         /\ fs.tmp # NoRuntime => Disk!Opened(fs, others) = fs.tmp
         /\ fs.tmp = NoRuntime => Disk!Opened(fs, others) # fs.file
<1> DEFINE others == {saving[y].ino : y \in Actors \ {x}}
           f == [y \in Actors \ {x} |-> saving[y].ino]
           n == Cardinality(Actors)
<1>1. IsFiniteSet(Actors) /\ n \in Nat
  BY TelemetryAssumption, FS_AddElement, FS_CardinalityType DEF Actors
<1>2. IsFiniteSet(Actors \ {x}) /\ Cardinality(Actors \ {x}) = n - 1
  BY <1>1, FS_RemoveElement
<1>3. f \in Surjection(Actors \ {x}, others)
  BY DEF Surjection
<1>4. IsFiniteSet(others) /\ Cardinality(others) <= n - 1
  BY <1>2, <1>3, FS_Surjection
<1> HIDE DEF others, f
<1>5. IsFiniteSet(others \cup {fs.file}) /\ Cardinality(others \cup {fs.file}) <= n
  BY <1>1, <1>4, FS_AddElement, FS_CardinalityType
<1>6. IsFiniteSet(Inodes) /\ Cardinality(Inodes) = n + 2
  <2>1. Inodes = 1 .. (n + 2)
    BY DEF Inodes
  <2>2. n \in Nat
    BY <1>1
  <2> HIDE DEF n
  <2>3. 1 \in Int /\ n + 2 \in Int /\ ~(1 > n + 2) /\ (n + 2) - 1 + 1 = n + 2
    BY <2>2
  <2> QED  BY <2>1, <2>3, FS_Interval
<1>7. Inodes \ (others \cup {fs.file}) # {}
  <2>1. SUFFICES ASSUME Inodes \subseteq others \cup {fs.file}
                 PROVE  FALSE
    OBVIOUS
  <2>2. Cardinality(Inodes) <= Cardinality(others \cup {fs.file})
    BY <1>5, <2>1, FS_Subset
  <2> QED  BY <1>1, <1>5, <1>6, <2>2, FS_CardinalityType
<1>8. /\ Disk!Opened(fs, others) \in Inodes
      /\ fs.tmp # NoRuntime => Disk!Opened(fs, others) = fs.tmp
      /\ fs.tmp = NoRuntime => Disk!Opened(fs, others) # fs.file
  <2> DEFINE free == Inodes \ (others \cup {fs.file})
  <2>1. (CHOOSE i \in free : TRUE) \in free
    BY <1>7
  <2>2. Disk!Opened(fs, others) = IF fs.tmp # NoRuntime THEN fs.tmp ELSE CHOOSE i \in free : TRUE
    BY DEF Disk!Opened
  <2>3. fs.tmp \in Handles
    BY DEF TelemetryTyped
  <2> HIDE DEF free
  <2>4. CASE fs.tmp # NoRuntime
    BY <2>2, <2>3, <2>4 DEF Handles
  <2>5. CASE fs.tmp = NoRuntime
    BY <2>1, <2>2, <2>5 DEF free
  <2> QED  BY <2>4, <2>5
<1> QED  BY <1>8 DEF others

\* A step of the file or of a save that leaves the counters alone.
LEMMA CountsStand ==
  ASSUME TInv, UNCHANGED <<map, today, posted, restarts, held>>
  PROVE  Counted' /\ Exact'
  BY DEF TInv, Counted, Exact

LEMMA CountsTellPosts == TInv => CountsOfTheDay
  BY DEF TInv, TelemetryTyped, Counted, Exact, CountsOfTheDay

\* What a call that changes one save must leave.
LEMMA OneSaveMoves ==
  ASSUME TInv, NEW x \in Actors, NEW v, saving' = [saving EXCEPT ![x] = v],
         v \in [st : Stages, snap : held \cup {NoRuntime}, ino : Handles],
         v.st # "idle" => v.snap \in held,
         v.st = "fill" => v.ino \in Inodes
  PROVE  /\ saving' \in [Actors -> [st : Stages, snap : held \cup {NoRuntime}, ino : Handles]]
         /\ \A y \in Actors : saving'[y].st # "idle" => saving'[y].snap \in held
         /\ \A y \in Actors : saving'[y].st = "fill" => saving'[y].ino \in Inodes
         /\ \A y \in Actors : saving'[y] = IF y = x THEN v ELSE saving[y]
<1>1. saving \in [Actors -> [st : Stages, snap : held \cup {NoRuntime}, ino : Handles]]
  BY DEF TInv, TelemetryTyped
<1>2. /\ saving' \in [Actors -> [st : Stages, snap : held \cup {NoRuntime}, ino : Handles]]
      /\ \A y \in Actors : saving'[y] = IF y = x THEN v ELSE saving[y]
  BY <1>1
<1> QED  BY <1>2 DEF TInv, TelemetryTyped

\* One save at a time, and it goes on with the snapshot it has.
LEMMA OneSaverStays ==
  ASSUME TInv, ~overlap, NEW x \in Actors, NEW v,
         \A y \in Actors : saving'[y] = IF y = x THEN v ELSE saving[y],
         saving[x].st # "idle", v.st # "idle" => v.snap = saving[x].snap, UNCHANGED map
  PROVE  OneSaver' /\ \A y \in Actors : y # x => saving'[y].st = "idle"
<1>1. \A y \in Actors : y # x => saving[y].st = "idle"
  BY DEF TInv, OneSaver
<1>2. saving[x].snap = map
  BY DEF TInv, OneSaver
<1>3. \A y \in Actors : y # x => saving'[y].st = "idle"
  BY <1>1
<1>4. v.st # "idle" => v.snap = map'
  BY <1>2
<1>5. \A y, z \in Actors : saving'[y].st # "idle" /\ saving'[z].st # "idle" => y = z
  BY <1>3
<1>6. \A y \in Actors : saving'[y].st # "idle" => saving'[y].snap = map'
  BY <1>3, <1>4
<1> QED  BY <1>3, <1>5, <1>6 DEF OneSaver

LEMMA OpenKeeps ==
  ASSUME TInv, NEW x \in Actors, SaveOpen(x)
  PROVE  TInv'
<1> DEFINE others == {saving[y].ino : y \in Actors \ {x}}
           i == Disk!Opened(fs, others)
           v == [saving[x] EXCEPT !.st = "fill", !.ino = i]
<1>1. /\ saving[x].st = "open" /\ UNCHANGED <<map, today, posted, restarts, overlap, held, dirty>>
      /\ fs' = [fs EXCEPT !.tmp = i, !.data[i] = Empty]
      /\ saving' = [saving EXCEPT ![x] = v]
  BY DEF SaveOpen, SaveUnchanged, Disk!OpenTmp
<1>2. i \in Inodes /\ (fs.tmp # NoRuntime => i = fs.tmp) /\ (fs.tmp = NoRuntime => i # fs.file)
  BY OpenedIsAnInode DEF TInv
<1> HIDE DEF i
<1>3. saving[x] \in [st : Stages, snap : held \cup {NoRuntime}, ino : Handles]
      /\ saving[x].snap \in held
  BY <1>1 DEF TInv, TelemetryTyped
<1>4. /\ v \in [st : Stages, snap : held \cup {NoRuntime}, ino : Handles]
      /\ v.st = "fill" /\ v.ino = i /\ v.snap = saving[x].snap
  BY <1>2, <1>3 DEF Stages, Handles
<1> HIDE DEF v
<1>5. /\ saving' \in [Actors -> [st : Stages, snap : held \cup {NoRuntime}, ino : Handles]]
      /\ \A y \in Actors : saving'[y].st # "idle" => saving'[y].snap \in held
      /\ \A y \in Actors : saving'[y].st = "fill" => saving'[y].ino \in Inodes
      /\ \A y \in Actors : saving'[y] = IF y = x THEN v ELSE saving[y]
  BY <1>1, <1>2, <1>3, <1>4, OneSaveMoves
<1>6. fs \in [tmp : Handles, file : Handles, data : [Inodes -> held \cup {Empty, Mixed}]]
  BY DEF TInv, TelemetryTyped
<1>7. /\ fs' \in [tmp : Handles, file : Handles, data : [Inodes -> held \cup {Empty, Mixed}]]
      /\ fs'.tmp = i /\ fs'.file = fs.file /\ fs'.data[i] = Empty
      /\ \A j \in Inodes : j # i => fs'.data[j] = fs.data[j]
  BY <1>1, <1>2, <1>6 DEF Handles
<1>8. TelemetryTyped'
  BY <1>1, <1>5, <1>7 DEF TInv, TelemetryTyped
<1>9. ASSUME ~overlap
      PROVE  OneSaver' /\ SiblingIsApart' /\ FileIsASnapshot' /\ CleanMeansSaved'
  <2>1. i # fs.file
    BY <1>2, <1>9, TelemetryAssumption DEF TInv, SiblingIsApart
  <2>2. Disk!Content(fs)' = Disk!Content(fs)
    BY <1>6, <1>7, <2>1 DEF Disk!Content, Handles
  <2>3. OneSaver' /\ \A y \in Actors : y # x => saving'[y].st = "idle"
    BY <1>1, <1>4, <1>5, <1>9, OneSaverStays
  <2>4. SiblingIsApart'
    BY <1>4, <1>5, <1>7, <2>1, <2>3 DEF SiblingIsApart
  <2>5. FileIsASnapshot' /\ CleanMeansSaved'
    BY <1>1, <1>9, <2>2 DEF TInv, FileIsASnapshot, CleanMeansSaved, open
  <2> QED  BY <2>3, <2>4, <2>5
<1> QED  BY <1>1, <1>8, <1>9, CountsStand DEF TInv

LEMMA FillKeeps ==
  ASSUME TInv, NEW x \in Actors, SaveFill(x)
  PROVE  TInv'
<1> DEFINE i == saving[x].ino
           v == [saving[x] EXCEPT !.st = "rename", !.ino = NoRuntime]
<1>1. /\ saving[x].st = "fill" /\ UNCHANGED <<map, today, posted, restarts, overlap, held, dirty>>
      /\ saving' = [saving EXCEPT ![x] = v]
  BY DEF SaveFill, SaveUnchanged
<1>2. saving[x] \in [st : Stages, snap : held \cup {NoRuntime}, ino : Handles]
      /\ saving[x].snap \in held /\ i \in Inodes
  BY <1>1 DEF TInv, TelemetryTyped
<1>3. PICK r : /\ fs' = [fs EXCEPT !.data[i] = r] /\ r \in {saving[x].snap, Mixed}
               /\ fs.data[i] = Empty => r = saving[x].snap
  BY DEF SaveFill, Disk!FillOutcomes
<1>4. fs \in [tmp : Handles, file : Handles, data : [Inodes -> held \cup {Empty, Mixed}]]
  BY DEF TInv, TelemetryTyped
<1>5. /\ v \in [st : Stages, snap : held \cup {NoRuntime}, ino : Handles]
      /\ v.st = "rename" /\ v.snap = saving[x].snap
  BY <1>2 DEF Stages, Handles
<1> HIDE DEF v, i
<1>6. /\ saving' \in [Actors -> [st : Stages, snap : held \cup {NoRuntime}, ino : Handles]]
      /\ \A y \in Actors : saving'[y].st # "idle" => saving'[y].snap \in held
      /\ \A y \in Actors : saving'[y].st = "fill" => saving'[y].ino \in Inodes
      /\ \A y \in Actors : saving'[y] = IF y = x THEN v ELSE saving[y]
  BY <1>1, <1>2, <1>5, OneSaveMoves
<1>7. /\ fs' \in [tmp : Handles, file : Handles, data : [Inodes -> held \cup {Empty, Mixed}]]
      /\ fs'.tmp = fs.tmp /\ fs'.file = fs.file /\ fs'.data[i] = r
      /\ \A j \in Inodes : j # i => fs'.data[j] = fs.data[j]
  BY <1>2, <1>3, <1>4
<1>8. TelemetryTyped'
  BY <1>1, <1>6, <1>7 DEF TInv, TelemetryTyped
<1>9. ASSUME ~overlap
      PROVE  OneSaver' /\ SiblingIsApart' /\ FileIsASnapshot' /\ CleanMeansSaved'
  <2>1. i = fs.tmp /\ fs.data[i] = Empty /\ saving[x].snap = map
    BY <1>1, <1>9 DEF TInv, OneSaver, SiblingIsApart, i
  <2>2. i # NoRuntime /\ i # fs.file
    BY <1>2, <1>9, <2>1, TelemetryAssumption DEF TInv, SiblingIsApart, Inodes
  <2>3. Disk!Content(fs)' = Disk!Content(fs)
    BY <1>4, <1>7, <2>2 DEF Disk!Content, Handles
  <2>4. OneSaver' /\ \A y \in Actors : y # x => saving'[y].st = "idle"
    BY <1>1, <1>5, <1>6, <1>9, OneSaverStays
  <2>5. fs'.data[fs'.tmp] = map' /\ fs'.tmp # NoRuntime /\ fs'.tmp # fs'.file
    BY <1>1, <1>3, <1>7, <2>1, <2>2
  <2>6. SiblingIsApart'
    BY <1>5, <1>6, <2>4, <2>5 DEF SiblingIsApart
  <2>7. FileIsASnapshot' /\ CleanMeansSaved'
    BY <1>1, <1>9, <2>3 DEF TInv, FileIsASnapshot, CleanMeansSaved, open
  <2> QED  BY <2>4, <2>6, <2>7
<1> QED  BY <1>1, <1>8, <1>9, CountsStand DEF TInv

LEMMA RenameKeeps ==
  ASSUME TInv, NEW x \in Actors, SaveRename(x)
  PROVE  TInv'
<1>1. saving[x].st = "rename" /\ UNCHANGED <<map, today, posted, restarts, overlap, held, dirty>>
  BY DEF SaveRename, SaveUnchanged
<1>2. saving[x] \in [st : Stages, snap : held \cup {NoRuntime}, ino : Handles]
      /\ saving[x].snap \in held
  BY <1>1 DEF TInv, TelemetryTyped
<1>3. fs \in [tmp : Handles, file : Handles, data : [Inodes -> held \cup {Empty, Mixed}]]
  BY DEF TInv, TelemetryTyped
<1>4. PICK v : /\ saving' = [saving EXCEPT ![x] = v]
               /\ \/ v = Idle /\ fs.tmp = NoRuntime /\ fs' = fs
                  \/ /\ v = [saving[x] EXCEPT !.st = "saved"] /\ fs.tmp # NoRuntime
                     /\ fs' = [fs EXCEPT !.file = fs.tmp, !.tmp = NoRuntime]
  BY DEF SaveRename, Disk!RenameFails, Disk!Renamed
<1>5. /\ v \in [st : Stages, snap : held \cup {NoRuntime}, ino : Handles]
      /\ v.st \in {"idle", "saved"} /\ (v.st # "idle" => v.snap = saving[x].snap)
  BY <1>2, <1>4 DEF Stages, Handles, Idle
<1>6. /\ saving' \in [Actors -> [st : Stages, snap : held \cup {NoRuntime}, ino : Handles]]
      /\ \A y \in Actors : saving'[y].st # "idle" => saving'[y].snap \in held
      /\ \A y \in Actors : saving'[y].st = "fill" => saving'[y].ino \in Inodes
      /\ \A y \in Actors : saving'[y] = IF y = x THEN v ELSE saving[y]
  BY <1>2, <1>4, <1>5, OneSaveMoves
<1>7. fs' \in [tmp : Handles, file : Handles, data : [Inodes -> held \cup {Empty, Mixed}]]
  BY <1>3, <1>4 DEF Handles
<1>8. TelemetryTyped'
  BY <1>1, <1>6, <1>7 DEF TInv, TelemetryTyped
<1>9. ASSUME ~overlap
      PROVE  OneSaver' /\ SiblingIsApart' /\ FileIsASnapshot' /\ CleanMeansSaved'
  <2>1. fs.tmp # NoRuntime /\ fs.data[fs.tmp] = map
    BY <1>1, <1>9 DEF TInv, SiblingIsApart
  <2>2. fs'.tmp = NoRuntime /\ fs'.file = fs.tmp /\ fs'.data = fs.data
    BY <1>3, <1>4, <2>1
  <2>3. Disk!Content(fs)' = map
    BY <2>1, <2>2 DEF Disk!Content
  <2>4. OneSaver' /\ \A y \in Actors : y # x => saving'[y].st = "idle"
    BY <1>1, <1>5, <1>6, <1>9, OneSaverStays
  <2>5. SiblingIsApart'
    BY <1>1, <1>5, <1>6, <2>2, <2>3, <2>4 DEF SiblingIsApart
  <2>6. map \in held /\ map \in Maps
    BY DEF TInv, TelemetryTyped
  <2>7. FileIsASnapshot' /\ CleanMeansSaved'
    BY <1>1, <2>3, <2>6 DEF FileIsASnapshot, CleanMeansSaved, open
  <2> QED  BY <2>4, <2>5, <2>7
<1> QED  BY <1>1, <1>8, <1>9, CountsStand DEF TInv

\* The end of a save, with the flag cleared only for what was written.
LEMMA EndKeeps ==
  ASSUME TInv, NEW x \in Actors, SaveFails(x) \/ SaveDone(x)
  PROVE  TInv'
<1>1. /\ UNCHANGED <<map, today, posted, restarts, overlap, held, fs>>
      /\ saving' = [saving EXCEPT ![x] = Idle] /\ saving[x].st # "idle"
      /\ dirty' = dirty \/ saving[x].st = "saved"
  BY DEF SaveFails, SaveDone, SaveUnchanged
<1>2. Idle \in [st : Stages, snap : held \cup {NoRuntime}, ino : Handles] /\ Idle.st = "idle"
  BY DEF Stages, Handles, Idle
<1>3. /\ saving' \in [Actors -> [st : Stages, snap : held \cup {NoRuntime}, ino : Handles]]
      /\ \A y \in Actors : saving'[y].st # "idle" => saving'[y].snap \in held
      /\ \A y \in Actors : saving'[y].st = "fill" => saving'[y].ino \in Inodes
      /\ \A y \in Actors : saving'[y] = IF y = x THEN Idle ELSE saving[y]
  BY <1>1, <1>2, OneSaveMoves
<1>4. TelemetryTyped'
  BY <1>1, <1>3 DEF TInv, TelemetryTyped
<1>5. ASSUME ~overlap
      PROVE  OneSaver' /\ SiblingIsApart' /\ FileIsASnapshot' /\ CleanMeansSaved'
  <2>1. OneSaver' /\ \A y \in Actors : y # x => saving'[y].st = "idle"
    BY <1>1, <1>2, <1>3, <1>5, OneSaverStays
  <2>2. SiblingIsApart'
    BY <1>1, <1>2, <1>3, <1>5, <2>1 DEF TInv, SiblingIsApart
  <2>3. FileIsASnapshot'
    BY <1>1, <1>5 DEF TInv, FileIsASnapshot
  <2>4. saving[x].st = "saved" => Disk!Content(fs) = map /\ map \in Maps
    BY <1>5 DEF TInv, SiblingIsApart, TelemetryTyped
  <2>5. CleanMeansSaved'
    BY <1>1, <1>5, <2>4 DEF TInv, CleanMeansSaved, open
  <2> QED  BY <2>1, <2>2, <2>3, <2>5
<1> QED  BY <1>1, <1>4, <1>5, CountsStand DEF TInv

\* The snapshot a call saves is the map of its critical section.
LEMMA StartMoves ==
  ASSUME TInv, NEW x \in Actors, NEW m \in held', StartSave(x, m), held \subseteq held'
  PROVE  /\ saving' \in [Actors -> [st : Stages, snap : held' \cup {NoRuntime}, ino : Handles]]
         /\ \A y \in Actors : saving'[y].st # "idle" => saving'[y].snap \in held'
         /\ \A y \in Actors : saving'[y].st = "fill" => saving'[y].ino \in Inodes
         /\ saving'[x].st = "open" /\ saving'[x].snap = m
         /\ \A y \in Actors : y # x => saving'[y] = saving[y]
<1> DEFINE v == [st |-> "open", snap |-> m, ino |-> NoRuntime]
           Savers(h) == [st : Stages, snap : h \cup {NoRuntime}, ino : Handles]
<1>1. saving' = [saving EXCEPT ![x] = v]
  BY DEF StartSave
<1>2. saving \in [Actors -> Savers(held)]
  BY DEF TInv, TelemetryTyped
<1>3. \A w \in Savers(held) : w \in Savers(held')
  OBVIOUS
<1>4. saving \in [Actors -> Savers(held')]
  BY <1>2, <1>3
<1>5. v \in Savers(held') /\ v.st = "open" /\ v.snap = m
  BY DEF Stages, Handles
<1> HIDE DEF v
<1>6. /\ saving' \in [Actors -> Savers(held')]
      /\ \A y \in Actors : saving'[y] = IF y = x THEN v ELSE saving[y]
  BY <1>1, <1>4, <1>5
<1> QED  BY <1>5, <1>6 DEF TInv, TelemetryTyped

\* No call is past its snapshot.
LEMMA NobodyBusy ==
  ASSUME ~Busy
  PROVE  \A y \in Actors : saving[y].st = "idle"
  BY DEF Busy

LEMMA FireCounts ==
  ASSUME TInv, NEW n \in ScheduleNames, NEW x, record_fire(x, n)
  PROVE  /\ map' \in Maps /\ Counted' /\ Exact'
         /\ posted' \in [ScheduleNames -> [0 .. MaxDay -> Nat]]
<1> DEFINE e == map[n]
<1>1. /\ map' = [map EXCEPT ![n] = Fired(e)] /\ held' = held \cup {map'}
      /\ posted' = [posted EXCEPT ![n][today] = @ + 1] /\ UNCHANGED <<today, restarts>>
  BY DEF record_fire
<1>2. /\ map \in [ScheduleNames -> Runtime \cup {NoRuntime}] /\ today \in 0 .. MaxDay
      /\ posted \in [ScheduleNames -> [0 .. MaxDay -> Nat]] /\ today \in Int
  BY DEF TInv, TelemetryTyped, Maps
<1>3. /\ posted' \in [ScheduleNames -> [0 .. MaxDay -> Nat]]
      /\ posted'[n][today] = posted[n][today] + 1
      /\ \A k \in ScheduleNames, d \in 0 .. MaxDay :
           k # n \/ d # today => posted'[k][d] = posted[k][d]
  <2> DEFINE row == [posted[n] EXCEPT ![today] = posted[n][today] + 1]
  <2>0. posted[n] \in [0 .. MaxDay -> Nat]
    BY <1>2
  <2>1. posted[n][today] + 1 \in Nat
    BY <1>2, <2>0
  <2>2. /\ row \in [0 .. MaxDay -> Nat] /\ row[today] = posted[n][today] + 1
        /\ \A d \in 0 .. MaxDay : d # today => row[d] = posted[n][d]
    BY <1>2, <2>0, <2>1
  <2>3. posted' = [posted EXCEPT ![n] = row]
    BY <1>1
  <2> HIDE DEF row
  <2> QED  BY <1>2, <2>2, <2>3
<1>4. Fired(e) \in Runtime /\ Fired(e).day = today
      /\ Fired(e).fires = IF e # NoRuntime /\ e.day = today THEN e.fires + 1 ELSE 1
  <2>1. CASE e # NoRuntime /\ e.day = today
    <3>1. e \in Runtime
      BY <1>2, <2>1
    <3> QED  BY <2>1, <3>1 DEF Fired, Runtime
  <2>2. CASE ~(e # NoRuntime /\ e.day = today)
    BY <1>2, <2>2 DEF Fired, Runtime
  <2> QED  BY <2>1, <2>2
<1>5. /\ map' \in Maps /\ map'[n] = Fired(e)
      /\ \A k \in ScheduleNames : k # n => map'[k] = map[k]
  BY <1>1, <1>2, <1>4 DEF Maps
<1>6. \A m \in held, k \in ScheduleNames :
        m[k] # NoRuntime => m[k] \in Runtime /\ m[k].fires <= posted[k][m[k].day]
  BY DEF TInv, TelemetryTyped, Maps, Counted
<1>7. \A k \in ScheduleNames, d \in 0 .. MaxDay : posted[k][d] <= posted'[k][d]
  <2>1. \A k \in ScheduleNames, d \in 0 .. MaxDay : posted[k][d] \in Nat
    BY <1>2
  <2> QED  BY <1>2, <1>3, <2>1
<1>8. ASSUME NEW m \in held, NEW k \in ScheduleNames, m[k] # NoRuntime
      PROVE  m[k].fires <= posted'[k][m[k].day]
  <2>1. m[k].day \in 0 .. MaxDay /\ m[k].fires \in Nat
    BY <1>6, <1>8 DEF Runtime
  <2>2. posted[k][m[k].day] \in Nat /\ posted'[k][m[k].day] \in Nat
    BY <1>2, <1>3, <2>1
  <2> QED  BY <1>6, <1>7, <1>8, <2>1, <2>2
<1>9. Fired(e).fires <= posted'[n][today]
  <2>1. CASE e # NoRuntime /\ e.day = today
    <3>1. map \in held
      BY DEF TInv, TelemetryTyped
    <3>2. e.fires <= posted[n][today] /\ e.fires \in Nat /\ posted[n][today] \in Nat
      BY <1>2, <1>6, <2>1, <3>1 DEF Runtime
    <3> QED  BY <1>3, <1>4, <2>1, <3>2
  <2>2. CASE ~(e # NoRuntime /\ e.day = today)
    <3>1. posted[n][today] \in Nat
      BY <1>2
    <3> QED  BY <1>3, <1>4, <2>2, <3>1
  <2> QED  BY <2>1, <2>2
<1>10. map \in held
  BY DEF TInv, TelemetryTyped
<1>11. Counted'
  <2>1. ASSUME NEW k \in ScheduleNames, map'[k] # NoRuntime
        PROVE  map'[k].fires <= posted'[k][map'[k].day]
    BY <1>4, <1>5, <1>8, <1>9, <1>10, <2>1
  <2> QED  BY <1>1, <1>8, <2>1 DEF Counted
<1>12. ASSUME restarts = 0, NEW k \in ScheduleNames
       PROVE  /\ map'[k] # NoRuntime =>
                   map'[k].fires = posted'[k][map'[k].day] /\ map'[k].day <= today
              /\ \A d \in 0 .. MaxDay : posted'[k][d] # 0 => map'[k] # NoRuntime /\ d <= map'[k].day
  <2>1. /\ map[k] # NoRuntime => map[k].fires = posted[k][map[k].day] /\ map[k].day <= today
        /\ \A d \in 0 .. MaxDay : posted[k][d] # 0 => map[k] # NoRuntime /\ d <= map[k].day
    BY <1>12 DEF TInv, Exact
  <2>2. map[k] # NoRuntime => map[k].day \in 0 .. MaxDay
    BY <1>2 DEF Runtime
  <2>3. CASE k # n
    BY <1>3, <1>5, <2>1, <2>2, <2>3
  <2>4. CASE k = n
    <3>1. ~(e # NoRuntime /\ e.day = today) => posted[n][today] = 0
      BY <1>2, <2>1, <2>2, <2>4
    <3>2. Fired(e).fires = posted'[n][today]
      BY <1>2, <1>3, <1>4, <2>1, <2>4, <3>1
    <3>3. map'[n] # NoRuntime
      BY <1>4, <1>5, TelemetryAssumption
    <3>4. ASSUME NEW d \in 0 .. MaxDay, posted'[n][d] # 0
          PROVE  d <= today
      BY <1>2, <1>3, <2>1, <2>2, <2>4, <3>4
    <3> QED  BY <1>2, <1>4, <1>5, <2>4, <3>2, <3>3, <3>4
  <2> QED  BY <2>3, <2>4
<1>13. Exact'
  BY <1>1, <1>12 DEF Exact
<1> QED  BY <1>3, <1>5, <1>11, <1>13

LEMMA FireKeeps ==
  ASSUME TInv, NEW x \in Tasks, NEW n \in ScheduleNames, record_fire(x, n)
  PROVE  TInv'
<1>1. /\ held' = held \cup {map'} /\ dirty' = TRUE /\ overlap' = (overlap \/ Busy)
      /\ UNCHANGED <<fs, today, restarts>> /\ x \in Actors
      /\ saving' = saving \/ StartSave(x, map')
  BY DEF record_fire, Actors
<1>2. /\ map' \in Maps /\ Counted' /\ Exact'
      /\ posted' \in [ScheduleNames -> [0 .. MaxDay -> Nat]]
  BY FireCounts
<1>3. held \subseteq held' /\ held' \subseteq Maps /\ map' \in held'
  BY <1>1, <1>2 DEF TInv, TelemetryTyped
<1>4. /\ saving' \in [Actors -> [st : Stages, snap : held' \cup {NoRuntime}, ino : Handles]]
      /\ \A y \in Actors : saving'[y].st # "idle" => saving'[y].snap \in held'
      /\ \A y \in Actors : saving'[y].st = "fill" => saving'[y].ino \in Inodes
      /\ ~Busy => \A y \in Actors : saving'[y].st = "idle"
                    \/ (y = x /\ saving'[y].st = "open" /\ saving'[y].snap = map')
  <2>1. CASE saving' = saving
    <3> DEFINE Savers(h) == [st : Stages, snap : h \cup {NoRuntime}, ino : Handles]
    <3>1. saving \in [Actors -> Savers(held)]
      BY DEF TInv, TelemetryTyped
    <3>2. \A w \in Savers(held) : w \in Savers(held')
      BY <1>3
    <3>3. saving' \in [Actors -> Savers(held')]
      BY <2>1, <3>1, <3>2
    <3> QED  BY <1>3, <2>1, <3>3, NobodyBusy DEF TInv, TelemetryTyped
  <2>2. CASE StartSave(x, map')
    <3>1. /\ saving' \in [Actors -> [st : Stages, snap : held' \cup {NoRuntime}, ino : Handles]]
          /\ \A y \in Actors : saving'[y].st # "idle" => saving'[y].snap \in held'
          /\ \A y \in Actors : saving'[y].st = "fill" => saving'[y].ino \in Inodes
          /\ saving'[x].st = "open" /\ saving'[x].snap = map'
          /\ \A y \in Actors : y # x => saving'[y] = saving[y]
      BY <1>1, <1>3, <2>2, StartMoves
    <3> QED  BY <3>1, NobodyBusy
  <2> QED  BY <1>1, <2>1, <2>2
<1>5. fs' \in [tmp : Handles, file : Handles, data : [Inodes -> held' \cup {Empty, Mixed}]]
  <2>1. fs \in [tmp : Handles, file : Handles, data : [Inodes -> held \cup {Empty, Mixed}]]
    BY DEF TInv, TelemetryTyped
  <2>2. fs.data \in [Inodes -> held' \cup {Empty, Mixed}]
    BY <1>3, <2>1
  <2> QED  BY <1>1, <2>1, <2>2
<1>6. TelemetryTyped'
  BY <1>1, <1>2, <1>3, <1>4, <1>5 DEF TInv, TelemetryTyped
<1>7. ASSUME ~overlap'
      PROVE  OneSaver' /\ SiblingIsApart' /\ FileIsASnapshot' /\ CleanMeansSaved'
  <2>1. ~overlap /\ ~Busy
    BY <1>1, <1>7
  <2>2. OneSaver'
    BY <1>4, <2>1 DEF OneSaver
  <2>3. SiblingIsApart'
    BY <1>1, <1>4, <2>1 DEF TInv, SiblingIsApart
  <2>4. FileIsASnapshot' /\ CleanMeansSaved'
    BY <1>1, <1>3, <2>1 DEF TInv, FileIsASnapshot, CleanMeansSaved
  <2> QED  BY <2>2, <2>3, <2>4
<1> QED  BY <1>2, <1>6, <1>7 DEF TInv

LEMMA FlushKeeps ==
  ASSUME TInv, flush
  PROVE  TInv'
<1>1. /\ UNCHANGED <<map, dirty, fs, today, posted, restarts, held>>
      /\ overlap' = (overlap \/ Busy) /\ flusher \in Actors
      /\ saving' = saving \/ StartSave(flusher, map)
  BY DEF flush, Actors
<1>2. map \in held' /\ held \subseteq held'
  BY <1>1 DEF TInv, TelemetryTyped
<1>3. /\ saving' \in [Actors -> [st : Stages, snap : held \cup {NoRuntime}, ino : Handles]]
      /\ \A y \in Actors : saving'[y].st # "idle" => saving'[y].snap \in held
      /\ \A y \in Actors : saving'[y].st = "fill" => saving'[y].ino \in Inodes
      /\ ~Busy => \A y \in Actors : saving'[y].st = "idle"
                    \/ (y = flusher /\ saving'[y].st = "open" /\ saving'[y].snap = map)
  <2>1. CASE saving' = saving
    BY <2>1, NobodyBusy DEF TInv, TelemetryTyped
  <2>2. CASE StartSave(flusher, map)
    <3>1. /\ saving' \in [Actors -> [st : Stages, snap : held' \cup {NoRuntime}, ino : Handles]]
          /\ \A y \in Actors : saving'[y].st # "idle" => saving'[y].snap \in held'
          /\ \A y \in Actors : saving'[y].st = "fill" => saving'[y].ino \in Inodes
          /\ saving'[flusher].st = "open" /\ saving'[flusher].snap = map
          /\ \A y \in Actors : y # flusher => saving'[y] = saving[y]
      BY <1>1, <1>2, <2>2, StartMoves
    <3> QED  BY <1>1, <3>1, NobodyBusy
  <2> QED  BY <1>1, <2>1, <2>2
<1>4. TelemetryTyped'
  BY <1>1, <1>3 DEF TInv, TelemetryTyped
<1>5. ASSUME ~overlap'
      PROVE  OneSaver' /\ SiblingIsApart' /\ FileIsASnapshot' /\ CleanMeansSaved'
  <2>1. ~overlap /\ ~Busy
    BY <1>1, <1>5
  <2>2. OneSaver'
    BY <1>1, <1>3, <2>1 DEF OneSaver
  <2>3. SiblingIsApart'
    BY <1>1, <1>3, <2>1 DEF TInv, SiblingIsApart
  <2>4. FileIsASnapshot' /\ CleanMeansSaved'
    BY <1>1, <2>1 DEF TInv, FileIsASnapshot, CleanMeansSaved, open
  <2> QED  BY <2>2, <2>3, <2>4
<1> QED  BY <1>1, <1>4, <1>5, CountsStand DEF TInv

\* A restart opens what is on disk, and nothing is dirty or under way.
LEMMA RestartKeeps ==
  ASSUME TInv, TelemetryRestart
  PROVE  TInv'
<1>1. /\ map' = open(Disk!Content(fs)) /\ held' = held \cup {map'} /\ dirty' = FALSE
      /\ saving' = [x \in Actors |-> Idle] /\ restarts' = restarts + 1
      /\ UNCHANGED <<fs, today, posted, overlap>>
  BY DEF TelemetryRestart
<1>2. map' \in Maps /\ (map' \in held \/ map' = EmptyMap)
  <2>1. Disk!Content(fs) \in Maps => Disk!Content(fs) \in held
    BY ContentIsHeld, TelemetryAssumption DEF TInv
  <2> QED  BY <1>1, <2>1, EmptyMapIsOne DEF open
<1>3. Counted'
  BY <1>1, <1>2 DEF TInv, Counted, EmptyMap
<1>4. Exact'
  BY <1>1 DEF TInv, TelemetryTyped, Exact
<1>5. fs' \in [tmp : Handles, file : Handles, data : [Inodes -> held' \cup {Empty, Mixed}]]
  <2>1. fs \in [tmp : Handles, file : Handles, data : [Inodes -> held \cup {Empty, Mixed}]]
    BY DEF TInv, TelemetryTyped
  <2>2. fs.data \in [Inodes -> held' \cup {Empty, Mixed}]
    BY <1>1, <2>1
  <2> QED  BY <1>1, <2>1, <2>2
<1>6. /\ saving' \in [Actors -> [st : Stages, snap : held' \cup {NoRuntime}, ino : Handles]]
      /\ \A x \in Actors : saving'[x].st = "idle"
  BY <1>1 DEF Idle, Stages, Handles
<1>7. TelemetryTyped'
  BY <1>1, <1>2, <1>5, <1>6 DEF TInv, TelemetryTyped
<1>8. ASSUME ~overlap
      PROVE  OneSaver' /\ SiblingIsApart' /\ FileIsASnapshot' /\ CleanMeansSaved'
  BY <1>1, <1>6, <1>8
  DEF TInv, OneSaver, SiblingIsApart, FileIsASnapshot, CleanMeansSaved, open
<1> QED  BY <1>1, <1>3, <1>4, <1>7, <1>8 DEF TInv

LEMMA TimePasses ==
  ASSUME TInv, FlushDue \/ Midnight \/ UNCHANGED telemetryVars
  PROVE  TInv'
<1>1. /\ UNCHANGED <<map, dirty, saving, fs, posted, restarts, overlap, held>>
      /\ today' \in 0 .. MaxDay /\ today <= today'
  BY TelemetryAssumption DEF FlushDue, Midnight, telemetryVars, TInv, TelemetryTyped
<1>2. TelemetryTyped' /\ Counted'
  BY <1>1 DEF TInv, TelemetryTyped, Counted
<1>3. Exact'
  <2>1. ASSUME NEW n \in ScheduleNames, map[n] # NoRuntime
        PROVE  map[n].day \in Int
    BY <2>1 DEF TInv, TelemetryTyped, Maps, Runtime
  <2> QED  BY <1>1, <2>1 DEF TInv, TelemetryTyped, Exact
<1>4. ~overlap => OneSaver' /\ SiblingIsApart' /\ FileIsASnapshot' /\ CleanMeansSaved'
  BY <1>1 DEF TInv, OneSaver, SiblingIsApart, FileIsASnapshot, CleanMeansSaved, open
<1> QED  BY <1>1, <1>2, <1>3, <1>4 DEF TInv

LEMMA TelemetryKeeps == TInv /\ [TelemetryNext]_telemetryVars => TInv'
  BY FireKeeps, FlushKeeps, OpenKeeps, FillKeeps, RenameKeeps, EndKeeps, RestartKeeps, TimePasses
  DEF TelemetryNext, SaveStep

\* The counts are those of the posts; and unless a save overlapped with another
\* call, schedule_runtime.ron is a snapshot of them, over refused writes,
\* leftovers of the sibling and restarts at any moment, and the dirty flag says
\* whether it is the newest.
THEOREM CountsAreSaved == TelemetrySpec => []FileFollowsMap
<1>1. TelemetryInit => TInv
  BY TelemetryStarts
<1>2. TInv /\ [TelemetryNext]_telemetryVars => TInv'
  BY TelemetryKeeps
<1>3. TInv => FileFollowsMap
  BY CountsTellPosts DEF TInv, FileFollowsMap
<1> QED  BY <1>1, <1>2, <1>3, PTL DEF TelemetrySpec

=============================================================================
