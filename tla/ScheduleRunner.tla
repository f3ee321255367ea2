--------------------------- MODULE ScheduleRunner ---------------------------
(***************************************************************************)
(* The schedules engine (twitch/handlers/schedule_runner.rs): an           *)
(* orchestrator that keeps one task per enabled schedule in step with the  *)
(* settings, and the tasks, which sleep until their next fire time, post   *)
(* and repeat.  The settings change under it (settings/store/mod.rs,       *)
(* commit), the runtime has several threads, and the process may be told   *)
(* to stop (twitch/handlers/spawn.rs, await_shutdown).                     *)
(*                                                                         *)
(* A schedule is its name and a content; Slots[c] are the instants at      *)
(* which content c fires.  A disabled or deleted schedule is None.         *)
(***************************************************************************)
EXTENDS Integers, FiniteSets

CONSTANTS
  Names,      \* schedule names, the keys of the running map
  Contents,   \* everything else in a Schedule: message, trigger, dates
  Slots,      \* [Contents -> SUBSET Nat]
  None,
  MaxEdits,   \* bound on the settings changes
  MaxNow,     \* bound on the clock
  MayStop     \* the shutdown signal may come

ASSUME RunnerAssumption ==
  /\ None \notin Contents /\ None \notin [gen : Nat, content : Contents]
  /\ Slots \in [Contents -> SUBSET Nat]
  /\ MaxEdits \in Nat /\ MaxNow \in Nat /\ MayStop \in BOOLEAN

VARIABLES
  settings,   \* the schedules in the live SettingsHandle
  writer,     \* SettingsStore::commit: "idle", or "notify" after the swap
  edits,      \* number of settings changes
  orch,       \* where run_orchestrator is
  armed,      \* a Notified future for change_notify exists
  woken,      \* ... and has been notified
  running,    \* the running map: per name the task and its captured schedule
  gen,        \* per name the number of tasks spawned so far
  tasks,      \* the run_schedule_task tasks that have not exited
  now,        \* the clock
  stopping,   \* the shutdown signal has come
  shutting,   \* the shutdown future of the current select is notified
  fired       \* history: the slots for which a name has posted

vars == <<settings, writer, edits, orch, armed, woken, running, gen, tasks, now,
          stopping, shutting, fired>>

Opt(S) == S \cup {None}
TaskSteps == {"plan", "sleep", "check", "say", "record"}
Task == [name : Names, gen : Nat, content : Contents, st : TaskSteps, at : Nat,
         cancelled : BOOLEAN]

Init ==
  /\ settings \in [Names -> Opt(Contents)]
  /\ writer = "idle" /\ edits = 0
  /\ orch = "boot" /\ armed = FALSE /\ woken = FALSE
  /\ running = [n \in Names |-> None]
  /\ gen = [n \in Names |-> 0]
  /\ tasks = {}
  /\ now = 0
  /\ stopping = FALSE /\ shutting = FALSE
  /\ fired = {}

-----------------------------------------------------------------------------
(***************************************************************************)
(* SettingsStore::commit, under its write lock: swap the handle, then      *)
(* notify the waiters.  A Notified future that does not exist yet misses   *)
(* the notification.                                                       *)
(***************************************************************************)
Swap(n, c) ==
  /\ writer = "idle" /\ edits < MaxEdits
  /\ settings' = [settings EXCEPT ![n] = c]
  /\ writer' = "notify" /\ edits' = edits + 1
  /\ UNCHANGED <<orch, armed, woken, running, gen, tasks, now, stopping, shutting, fired>>

notify_waiters ==
  /\ writer = "notify"
  /\ writer' = "idle"
  /\ woken' = (woken \/ armed)
  /\ UNCHANGED <<settings, edits, orch, armed, running, gen, tasks, now, stopping,
                 shutting, fired>>

-----------------------------------------------------------------------------
(***************************************************************************)
(* The orchestrator.                                                       *)
(***************************************************************************)
\* The task of name n runs what the settings want.
kept(n) == running[n] # None /\ running[n].content = settings[n]

\* reconcile stops the tasks that are not wanted as they are and spawns the
\* missing ones; it reads the settings once.
Stopped(t) == [t EXCEPT !.cancelled = @ \/ (/\ running[t.name] # None
                                            /\ running[t.name].gen = t.gen
                                            /\ ~kept(t.name))]

Spawned(n) == [name |-> n, gen |-> gen[n], content |-> settings[n], st |-> "plan",
               at |-> 0, cancelled |-> FALSE]

Wanted == {n \in Names : settings[n] # None /\ ~kept(n)}

\* Mutant: a changed schedule is spawned again without stopping the old task.
reconcile_additions ==
  /\ tasks' = tasks \cup {Spawned(n) : n \in Wanted}
  /\ gen' = [n \in Names |-> IF n \in Wanted THEN gen[n] + 1 ELSE gen[n]]
  /\ running' = [n \in Names |->
                   IF n \in Wanted THEN [gen |-> gen[n], content |-> settings[n]]
                   ELSE IF settings[n] = None THEN None ELSE running[n]]

reconcile ==
  /\ tasks' = {Stopped(t) : t \in tasks} \cup {Spawned(n) : n \in Wanted}
  /\ gen' = [n \in Names |-> IF n \in Wanted THEN gen[n] + 1 ELSE gen[n]]
  /\ running' = [n \in Names |->
                   IF n \in Wanted THEN [gen |-> gen[n], content |-> settings[n]]
                   ELSE IF settings[n] = None THEN None ELSE running[n]]

\* The first notification future is enabled before the first reconcile.
Boot ==
  /\ orch = "boot"
  /\ orch' = "first" /\ armed' = TRUE
  /\ UNCHANGED <<settings, writer, edits, woken, running, gen, tasks, now, stopping,
                 shutting, fired>>

FirstReconcile ==
  /\ orch = "first"
  /\ reconcile
  /\ orch' = "select"
  /\ UNCHANGED <<settings, writer, edits, armed, woken, now, stopping, shutting, fired>>

\* The select picks the change notification; the shutdown future of this
\* iteration is dropped with whatever it was told.
Changed ==
  /\ orch = "select" /\ woken
  /\ orch' = "reconcile" /\ armed' = FALSE /\ woken' = FALSE /\ shutting' = FALSE
  /\ UNCHANGED <<settings, writer, edits, running, gen, tasks, now, stopping, fired>>

Reconcile ==
  /\ orch = "reconcile"
  /\ reconcile
  /\ orch' = "rearm"
  /\ UNCHANGED <<settings, writer, edits, armed, woken, now, stopping, shutting, fired>>

Rearm ==
  /\ orch = "rearm"
  /\ orch' = "select" /\ armed' = TRUE
  /\ UNCHANGED <<settings, writer, edits, woken, running, gen, tasks, now, stopping,
                 shutting, fired>>

\* The select picks the shutdown: every task is cancelled, none is awaited,
\* the telemetry is flushed and the orchestrator returns.
Shutdown ==
  /\ orch = "select" /\ shutting
  /\ orch' = "done"
  /\ tasks' = {[t EXCEPT !.cancelled = @ \/ (/\ running[t.name] # None
                                             /\ running[t.name].gen = t.gen)] : t \in tasks}
  /\ running' = [n \in Names |-> None]
  /\ UNCHANGED <<settings, writer, edits, armed, woken, gen, now, stopping, shutting, fired>>

\* await_shutdown notifies the waiters of this moment.
Signal ==
  /\ MayStop /\ ~stopping
  /\ stopping' = TRUE
  /\ shutting' = (orch = "select")
  /\ UNCHANGED <<settings, writer, edits, orch, armed, woken, running, gen, tasks, now, fired>>

-----------------------------------------------------------------------------
(***************************************************************************)
(* run_schedule_task.                                                      *)
(***************************************************************************)
\* next_active_fire (ScheduleTrigger): the first slot strictly after now, None past the last.
first_slot(c) ==
  LET later == {s \in Slots[c] : s > now}
  IN IF later = {} THEN None ELSE CHOOSE s \in later : \A r \in later : s <= r

Step(t, st) == tasks' = (tasks \ {t}) \cup {[t EXCEPT !.st = st]}
Exit(t) == tasks' = tasks \ {t}

TaskUnchanged == UNCHANGED <<settings, writer, edits, orch, armed, woken, running, gen, now,
                             stopping, shutting>>

Plan(t) ==
  /\ t.st = "plan"
  /\ IF first_slot(t.content) = None THEN Exit(t)
     ELSE tasks' = (tasks \ {t})
                     \cup {[t EXCEPT !.st = "sleep", !.at = first_slot(t.content)]}
  /\ UNCHANGED fired /\ TaskUnchanged

\* The select of the task picks either branch when both are ready.
WakeUp(t) ==
  /\ t.st = "sleep" /\ now >= t.at
  /\ Step(t, "check")
  /\ UNCHANGED fired /\ TaskUnchanged

Cancelled(t) ==
  /\ t.st = "sleep" /\ t.cancelled
  /\ Exit(t)
  /\ UNCHANGED fired /\ TaskUnchanged

\* Mutant: no second look at the cancellation.
FireAnyway(t) ==
  /\ t.st = "check"
  /\ Step(t, "say")
  /\ fired' = fired \cup {<<t.name, t.at>>}
  /\ TaskUnchanged

\* The cancellation is looked at again after the sleep.
Fire(t) ==
  /\ t.st = "check"
  /\ IF t.cancelled THEN Exit(t) /\ UNCHANGED fired
     ELSE Step(t, "say") /\ fired' = fired \cup {<<t.name, t.at>>}
  /\ TaskUnchanged

Said(t) ==
  /\ t.st = "say"
  /\ Step(t, "record")
  /\ UNCHANGED fired /\ TaskUnchanged

Recorded(t) ==
  /\ t.st = "record"
  /\ Step(t, "plan")
  /\ UNCHANGED fired /\ TaskUnchanged

TaskStep(t) == Plan(t) \/ WakeUp(t) \/ Cancelled(t) \/ Fire(t) \/ Said(t) \/ Recorded(t)

Tick ==
  /\ now < MaxNow
  /\ now' = now + 1
  /\ UNCHANGED <<settings, writer, edits, orch, armed, woken, running, gen, tasks,
                 stopping, shutting, fired>>

Orchestrator == Boot \/ FirstReconcile \/ Changed \/ Reconcile \/ Rearm \/ Shutdown

Next ==
  \/ \E n \in Names, c \in Opt(Contents) : Swap(n, c)
  \/ notify_waiters
  \/ Orchestrator
  \/ Signal
  \/ \E t \in tasks : TaskStep(t)
  \/ Tick

Spec == Init /\ [][Next]_vars

\* The runtime schedules every ready task; a commit that swapped the handle
\* reaches its notification without awaiting; time passes.
FairSpec ==
  /\ Spec
  /\ WF_vars(notify_waiters) /\ WF_vars(Orchestrator) /\ WF_vars(Tick)
  /\ \A n \in Names : \A g \in 0 .. MaxEdits :
       WF_vars(\E t \in tasks : t.name = n /\ t.gen = g /\ TaskStep(t))

-----------------------------------------------------------------------------
(***************************************************************************)
(* Properties.                                                             *)
(***************************************************************************)
\* Every variable stays in its set.
TypeOK ==
  /\ settings \in [Names -> Opt(Contents)]
  /\ writer \in {"idle", "notify"}
  /\ edits \in 0 .. MaxEdits
  /\ orch \in {"boot", "first", "select", "reconcile", "rearm", "done"}
  /\ armed \in BOOLEAN /\ woken \in BOOLEAN
  /\ running \in [Names -> Opt([gen : Nat, content : Contents])]
  /\ gen \in [Names -> Nat]
  /\ tasks \subseteq Task
  /\ now \in 0 .. MaxNow
  /\ stopping \in BOOLEAN /\ shutting \in BOOLEAN
  /\ fired \subseteq Names \X Nat

\* Every task that is not cancelled is the one the running map has for its
\* name, with the schedule it was spawned with: reconcile never loses the
\* token of a task that goes on posting.
NoOrphans ==
  \A t \in tasks : ~t.cancelled => running[t.name] = [gen |-> t.gen, content |-> t.content]

\* A name posts at most once for a slot, although an edit replaces its task by
\* another one while the old one may just be waking up.
FiresOncePerSlot ==
  [][\A t \in tasks : \A u \in tasks' :
       (/\ u.name = t.name /\ u.gen = t.gen /\ t.st # "say" /\ u.st = "say")
       => <<u.name, u.at>> \notin fired]_vars

\* schedule_runner.rs:3 says that the orchestrator "watches
\* `SettingsStore::change_notify` and reconciles", and the comment at line 38
\* arms the first notification early so that a notify_waiters() "is not lost":
\* once the edits are over, the tasks that run are the ones the settings want.
EditsTakeEffect == <>[](\A n \in Names :
                          IF settings[n] = None THEN running[n] = None ELSE kept(n))

=============================================================================
