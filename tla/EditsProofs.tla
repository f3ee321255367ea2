----------------------------- MODULE EditsProofs -----------------------------
(***************************************************************************)
(* What concurrent edits may not do to the files that chat, the model and  *)
(* the dashboard share: the memory files and settings.ron.                 *)
(*                                                                         *)
(* The memory store never has more state files than the largest cap there  *)
(* has been, its mutexes never wait for each other, and no write takes     *)
(* away what it has not shown, for any number of dashboard handlers,       *)
(* users, slugs and caps.  The invariant of the first two (IInv) ties the  *)
(* mutexes and the lock on creations to the calls that hold them.  The     *)
(* third is about steps: its invariant (KInv) adds what a call knows of    *)
(* the file it is about to write, which stays true because the mutex is    *)
(* held from the reading on.                                               *)
(*                                                                         *)
(* settings.ron never holds overrides that the next start would put aside. *)
(* Loadable is not inductive: a writer saves overrides that it has         *)
(* computed earlier.  Those were validated, or they are a reset of a valid *)
(* file (ResetKeepsValid); the boot channel does not change meanwhile      *)
(* (LInv).                                                                 *)
(***************************************************************************)
EXTENDS MemoryStore, SettingsStore, FiniteSetTheorems, TLAPS

-----------------------------------------------------------------------------
(* The memory store *)


\* The mutex of a path is held by exactly the calls between reading the prior
\* content and the end of the write.
Writing(p, f) == call[p] # None /\ call[p].step \in {"create", "commit"} /\ call[p].file = f

HolderInv == \A f \in Files, p \in Procs : holder[f] = p <=> Writing(p, f)

\* Only new state files wait for the lock on creations; its holder writes next,
\* and a write that will make a new state file has it.
CreateInv ==
  /\ \A p \in Procs : At(p, "create") => call[p].file \in Slugs
  /\ creating # None => At(creating, "commit") /\ call[creating].file \in Slugs
  /\ \A p \in Procs :
       (At(p, "commit") /\ call[p].file \in Slugs /\ disk[call[p].file] = None) => creating = p

\* Whoever is to create a file has counted fewer than the cap, and only
\* deletions may have come since.
CapInv ==
  /\ cap <= peak
  /\ Cardinality(StateFiles) <= peak
  /\ creating # None => Cardinality(StateFiles) < peak

IInv == TypeOK /\ HolderInv /\ CreateInv /\ CapInv

-----------------------------------------------------------------------------
\* The records of a call are typed whatever it is about to do.
LEMMA NewCallTyped ==
  ASSUME TypeOK, NEW step \in Steps, NEW f \in Files
  PROVE  NewCall(step, f) \in CallRecords
  BY SMT DEF NewCall, CallRecords, Names, Frontmatters

\* What is preserved of a typed file and a typed call is typed.
LEMMA FrontmatterTyped ==
  ASSUME TypeOK, NEW c \in CallRecords, NEW f \in Files
  PROVE  Frontmatter(c, Ident(f), CreatedBy(f)) \in Frontmatters
<1>1. Ident(f) \in Names /\ CreatedBy(f) \in Names
  BY SMT DEF Ident, CreatedBy, TypeOK, Contents, Names
<1>2. c.ident \in Names /\ c.by \in Names /\ c.over \in Names /\ None \in Names
  BY SMT DEF CallRecords, Names
<1>. QED
  BY <1>1, <1>2, SMT DEF Frontmatter, OrElse, Frontmatters

\* The modification time of a typed disk is a number.
LEMMA MtimeTyped ==
  ASSUME TypeOK, NEW f \in Files
  PROVE  current_mtime(f) \in Nat
  BY SMT DEF TypeOK, current_mtime, Contents

LEMMA ReleaseTyped ==
  ASSUME TypeOK, NEW p \in Procs, Release(p)
  PROVE  holder' \in [Files -> Procs \cup {None}] /\ creating' \in Procs \cup {None}
  BY SMT DEF TypeOK, Release

LEMMA EndTyped ==
  ASSUME TypeOK, NEW p \in Procs, End(p)
  PROVE  /\ call' \in [Procs -> CallRecords \cup {None}]
         /\ holder' \in [Files -> Procs \cup {None}] /\ creating' \in Procs \cup {None}
<1>1. call' \in [Procs -> CallRecords \cup {None}]
  BY SMT DEF TypeOK, End
<1>. QED
  BY <1>1, ReleaseTyped DEF End

LEMMA StartTyped ==
  ASSUME TypeOK, NEW p \in Procs, NEW c \in CallRecords, Start(p, c)
  PROVE  call' \in [Procs -> CallRecords \cup {None}] /\ calls' \in Nat
  BY SMT DEF TypeOK, Start

\* What the steps of a call do to its record.
LEMMA CallUpdates ==
  ASSUME NEW c \in CallRecords, NEW step \in Steps, NEW fm \in Frontmatters
  PROVE  /\ [c EXCEPT !.step = step] \in CallRecords
         /\ [c EXCEPT !.step = step, !.intact = TRUE] \in CallRecords
         /\ [c EXCEPT !.step = step, !.new = fm] \in CallRecords
         /\ [c EXCEPT !.intact = FALSE] \in CallRecords
<1>1. [c EXCEPT !.step = step] \in CallRecords
  BY Zenon DEF CallRecords
<1>2. [c EXCEPT !.step = step, !.intact = TRUE] \in CallRecords
  BY Zenon DEF CallRecords
<1>3. [c EXCEPT !.step = step, !.new = fm] \in CallRecords
  BY Zenon DEF CallRecords
<1>4. [c EXCEPT !.intact = FALSE] \in CallRecords
  BY Zenon DEF CallRecords
<1>. QED
  BY <1>1, <1>2, <1>3, <1>4

LEMMA CallTyped ==
  ASSUME TypeOK, NEW p \in Procs, NEW c \in CallRecords \cup {None},
         call' = [call EXCEPT ![p] = c]
  PROVE  call' \in [Procs -> CallRecords \cup {None}]
  BY SMT DEF TypeOK

LEMMA ExceptTyped ==
  ASSUME NEW S, NEW T, NEW g \in [S -> T], NEW x, NEW v \in T
  PROVE  [g EXCEPT ![x] = v] \in [S -> T]
<1>1. CASE x \in S
  BY <1>1, SMT
<1>2. CASE x \notin S
  <2>1. [g EXCEPT ![x] = v] = [y \in S |-> IF y = x THEN v ELSE g[y]]
    BY Zenon
  <2>2. \A y \in S : (IF y = x THEN v ELSE g[y]) \in T
    OBVIOUS
  <2>. QED
    BY <2>1, <2>2, Zenon
<1>. QED
  BY <1>1, <1>2

LEMMA FormTyped ==
  ASSUME TypeOK, NEW w, NEW page \in Pages \cup {None}, form' = [form EXCEPT ![w] = page]
  PROVE  form' \in [Web -> Pages \cup {None}]
<1>1. form \in [Web -> Pages \cup {None}]
  BY DEF TypeOK
<1>2. [form EXCEPT ![w] = page] \in [Web -> Pages \cup {None}]
  BY <1>1, ExceptTyped
<1>. QED
  BY <1>2

\* A call in progress is a typed record.
LEMMA AtTyped ==
  ASSUME TypeOK, NEW p \in Procs, NEW step, At(p, step)
  PROVE  call[p] \in CallRecords /\ call[p].file \in Files
  BY SMT DEF At, TypeOK, CallRecords

\* The page that comes back with the draft is typed.
LEMMA RefuseTyped ==
  ASSUME TypeOK, NEW p \in Procs, NEW step, At(p, step), Refuse(p),
         UNCHANGED <<disk, turn, cap, now, calls, peak>>
  PROVE  TypeOK'
<1>. DEFINE c == call[p]
<1>1. c \in CallRecords
  BY AtTyped
<1>2. form' \in [Web -> Pages \cup {None}]
  <2>1. CASE c.token = None
    BY <2>1 DEF Refuse, TypeOK
  <2>2. CASE c.token # None
    <3>1. Page(c.file, c.token, c.ident, c.over) \in Pages
      BY <1>1, <2>2, SMT DEF Page, Pages, CallRecords
    <3>. QED
      BY <3>1, <2>2, FormTyped DEF Refuse
  <2>. QED
    BY <2>1, <2>2
<1>. QED
  BY <1>2, EndTyped DEF Refuse, TypeOK

\* A content that is put in the place of a file.
LEMMA ReplaceTyped ==
  ASSUME TypeOK, NEW p \in Procs, NEW x \in Contents \cup {None}, NEW step, At(p, step),
         Replace(p, x)
  PROVE  /\ disk' \in [Files -> Contents \cup {None}]
         /\ call' \in [Procs -> CallRecords \cup {None}]
         /\ holder' \in [Files -> Procs \cup {None}] /\ creating' \in Procs \cup {None}
<1>1. disk' \in [Files -> Contents \cup {None}]
  BY AtTyped, SMT DEF Replace, TypeOK
<1>2. call' \in [Procs -> CallRecords \cup {None}]
  <2>. DEFINE next(q) == IF q = p THEN None
                         ELSE IF call[q] # None /\ call[q].file = call[p].file
                         THEN [call[q] EXCEPT !.intact = FALSE] ELSE call[q]
  <2>1. ASSUME NEW q \in Procs
        PROVE  next(q) \in CallRecords \cup {None}
    <3>1. call[q] \in CallRecords \cup {None}
      BY SMT DEF TypeOK
    <3>2. call[q] \in CallRecords => [call[q] EXCEPT !.intact = FALSE] \in CallRecords
      BY Zenon DEF CallRecords
    <3>. QED
      BY <3>1, <3>2
  <2>2. call' = [q \in Procs |-> next(q)]
    BY DEF Replace
  <2>. HIDE DEF next
  <2>. QED
    BY <2>1, <2>2, SMT
<1>. QED
  BY <1>1, <1>2, ReleaseTyped DEF Replace

\* Every step of the store keeps the types.
LEMMA StoreTyped ==
  ASSUME TypeOK, NEW p \in Procs, Store(p)
  PROVE  TypeOK'
<1>. DEFINE c == call[p]
<1>. USE DEF Steps
<1>1. CASE CheckOk(p)
  <2>1. [c EXCEPT !.step = "enter", !.intact = TRUE] \in CallRecords
    <3>1. c \in CallRecords
      BY <1>1, AtTyped DEF CheckOk
    <3>. QED
      BY <3>1, Zenon DEF CallRecords
  <2>. QED
    BY <2>1, <1>1, CallTyped DEF CheckOk, TypeOK
<1>2. CASE Conflict(p)
  <2>1. Page(c.file, current_mtime(c.file), None, None) \in Pages
    <3>1. current_mtime(c.file) \in Nat /\ c.file \in Files
      BY <1>2, AtTyped, MtimeTyped DEF Conflict
    <3>. QED
      BY <3>1, SMT DEF Page, Pages, Names
  <2>2. form' \in [Web -> Pages \cup {None}]
    BY <2>1, <1>2, FormTyped DEF Conflict
  <2>. QED
    BY <2>2, <1>2, CallTyped DEF Conflict, TypeOK
<1>3. CASE Enter(p)
  <2>1. c \in CallRecords /\ c.file \in Files
    BY <1>3, AtTyped DEF Enter
  <2>2. PICK fm \in Frontmatters, step \in Steps :
          call' = [call EXCEPT ![p] = [@ EXCEPT !.step = step, !.new = fm]]
    BY <2>1, <1>3, FrontmatterTyped DEF Enter
  <2>3. [c EXCEPT !.step = step, !.new = fm] \in CallRecords
    BY <2>1, Zenon DEF CallRecords
  <2>4. holder' \in [Files -> Procs \cup {None}]
    BY <2>1, <1>3, SMT DEF Enter, TypeOK
  <2>. QED
    BY <2>2, <2>3, <2>4, <1>3, CallTyped DEF Enter, TypeOK
<1>4. CASE Full(p)
  BY <1>4, RefuseTyped DEF Full
<1>5. CASE CountFiles(p)
  <2>1. [c EXCEPT !.step = "commit"] \in CallRecords
    BY <1>5, AtTyped, SMT DEF CountFiles, CallRecords
  <2>. QED
    BY <2>1, <1>5, CallTyped DEF CountFiles, TypeOK
<1>6. CASE StateFull(p)
  BY <1>6, RefuseTyped DEF StateFull
<1>7. CASE Commit(p)
  <2>. DEFINE x == [at |-> now, ident |-> c.new.ident, by |-> c.new.by]
  <2>1. x \in Contents
    <3>1. c.new \in Frontmatters
      BY <1>7, AtTyped DEF Commit, CallRecords
    <3>2. now \in Nat
      BY DEF TypeOK
    <3>. QED
      BY <3>1, <3>2, SMT DEF Frontmatters, Contents
  <2>. QED
    BY <2>1, <1>7, ReplaceTyped DEF Commit, TypeOK
<1>8. CASE Remove(p)
  BY <1>8, ReplaceTyped DEF Remove, TypeOK
<1>9. CASE IoError(p)
  BY <1>9, EndTyped DEF IoError, TypeOK
<1>. QED
  BY <1>1, <1>2, <1>3, <1>4, <1>5, <1>6, <1>7, <1>8, <1>9 DEF Store

\* The tools keep the types.
LEMMA ToolsTyped ==
  ASSUME TypeOK, NEW p \in {Turn, Dreamer}, Tools(p)
  PROVE  TypeOK'
<1>. USE DEF Steps
<1>p. p \in Procs
  BY DEF Procs
<1>1. CASE EndTurn(p)
  BY <1>1, SMT DEF EndTurn, TypeOK
<1>2. ASSUME ConsumeQuota(p)
      PROVE  turn' \in [{Turn, Dreamer} -> TurnRecords \cup {None}]
  <2>1. turn[p] \in TurnRecords
    BY <1>2, SMT DEF ConsumeQuota, TypeOK
  <2>2. [turn[p] EXCEPT !.writes = @ + 1] \in TurnRecords
    BY <2>1, SMT DEF TurnRecords
  <2>. QED
    BY <2>2, <1>2, SMT DEF ConsumeQuota, TypeOK
<1>3. ASSUME ConsumeQuota(p), NEW c \in CallRecords, Start(p, c)
      PROVE  TypeOK'
  BY <1>p, <1>2, <1>3, StartTyped DEF ConsumeQuota, TypeOK
<1>4. ASSUME NEW f \in Files \ Slugs, WriteFile(p, f)
      PROVE  TypeOK'
  <2>1. (IF f = turn[p].speaker THEN f ELSE None) \in Names
    <3>1. turn[p] \in TurnRecords
      BY <1>4, SMT DEF WriteFile, ConsumeQuota, TypeOK
    <3>. QED
      BY <3>1, SMT DEF TurnRecords, Names
  <2>2. NewCall("enter", f) \in CallRecords
    BY NewCallTyped
  <2>3. [NewCall("enter", f) EXCEPT !.ident = IF f = turn[p].speaker THEN f ELSE None]
          \in CallRecords
    BY <2>1, <2>2, Zenon DEF CallRecords
  <2>. QED
    BY <2>3, <1>3, <1>4 DEF WriteFile
<1>5. ASSUME NEW s \in Slugs, WriteState(p, s)
      PROVE  TypeOK'
  <2>1. turn[p].speaker \in Names
    <3>1. turn[p] \in TurnRecords
      BY <1>5, SMT DEF WriteState, ConsumeQuota, TypeOK
    <3>. QED
      BY <3>1, SMT DEF TurnRecords, Names
  <2>2. NewCall("enter", s) \in CallRecords
    BY NewCallTyped DEF Files
  <2>3. [NewCall("enter", s) EXCEPT !.by = turn[p].speaker] \in CallRecords
    BY <2>1, <2>2, Zenon DEF CallRecords
  <2>. QED
    BY <2>3, <1>3, <1>5 DEF WriteState
<1>6. ASSUME NEW s \in Slugs, AskDelete(p, s)
      PROVE  TypeOK'
  BY <1>3, <1>6, NewCallTyped DEF AskDelete, Files
<1>. QED
  BY <1>1, <1>4, <1>5, <1>6 DEF Tools

\* The dashboard keeps the types.
LEMMA DashboardTyped ==
  ASSUME TypeOK, NEW w \in Web, Dashboard(w)
  PROVE  TypeOK'
<1>. USE DEF Steps
<1>p. w \in Procs
  BY DEF Procs
<1>1. ASSUME NEW f \in Files, View(w, f)
      PROVE  TypeOK'
  <2>1. Ident(f) \in Names /\ CreatedBy(f) \in Names
    BY SMT DEF Ident, CreatedBy, TypeOK, Contents, Names
  <2>2. NewCall("token", f) \in CallRecords
    BY NewCallTyped
  <2>3. [NewCall("token", f) EXCEPT !.ident = Ident(f), !.over = CreatedBy(f)] \in CallRecords
    BY <2>1, <2>2, Zenon DEF CallRecords
  <2>. QED
    BY <2>3, <1>p, <1>1, StartTyped DEF View, TypeOK
<1>2. CASE Token(w)
  <2>1. call[w] \in CallRecords /\ call[w].file \in Files
    BY <1>2, <1>p, AtTyped DEF Token
  <2>2. current_mtime(call[w].file) \in Nat
    BY <2>1, MtimeTyped
  <2>3. Page(call[w].file, current_mtime(call[w].file), call[w].ident, call[w].over) \in Pages
    BY <2>1, <2>2, SMT DEF Page, Pages, CallRecords
  <2>4. form' \in [Web -> Pages \cup {None}]
    BY <2>3, <1>2, FormTyped DEF Token
  <2>. QED
    BY <2>4, <1>2, <1>p, CallTyped DEF Token, TypeOK
<1>3. CASE Drop(w)
  BY <1>3, <1>p, EndTyped DEF Drop, TypeOK
<1>4. ASSUME NEW ident \in Names, NEW by \in Names, Save(w, ident, by)
      PROVE  TypeOK'
  <2>1. form[w] \in Pages
    BY <1>4, SMT DEF Save, TypeOK
  <2>2. form[w].file \in Files /\ form[w].token \in Nat \cup {None}
    BY <2>1 DEF Pages
  <2>3. NewCall("check", form[w].file) \in CallRecords
    BY <2>2, NewCallTyped
  <2>4. [NewCall("check", form[w].file) EXCEPT !.token = form[w].token,
           !.ident = ident, !.over = by] \in CallRecords
    BY <2>2, <2>3, Zenon DEF CallRecords
  <2>5. form' \in [Web -> Pages \cup {None}]
    BY <1>4, FormTyped DEF Save
  <2>. QED
    BY <2>4, <2>5, <1>p, <1>4, StartTyped DEF Save, TypeOK
<1>5. ASSUME NEW s \in Slugs, CreateState(w, s)
      PROVE  TypeOK'
  <2>1. NewCall("enter", s) \in CallRecords
    BY NewCallTyped DEF Files
  <2>2. w \in Names
    BY DEF Names
  <2>3. [NewCall("enter", s) EXCEPT !.by = w] \in CallRecords
    BY <2>1, <2>2, Zenon DEF CallRecords
  <2>. QED
    BY <2>3, <1>p, <1>5, StartTyped DEF CreateState, TypeOK
<1>6. ASSUME NEW s \in Slugs, DeleteState(w, s)
      PROVE  TypeOK'
  <2>1. NewCall("remove", s) \in CallRecords
    BY NewCallTyped DEF Files
  <2>. QED
    BY <2>1, <1>p, <1>6, StartTyped DEF DeleteState, TypeOK
<1>. QED
  BY <1>1, <1>2, <1>3, <1>4, <1>5, <1>6 DEF Dashboard

LEMMA InitTyped == Init => TypeOK
<1>. SUFFICES ASSUME Init PROVE TypeOK
  OBVIOUS
<1>1. PICK left \in SUBSET Slugs, by \in Users :
        disk = [f \in Files |->
                  IF f \in left THEN [at |-> 1, ident |-> None, by |-> by]
                  ELSE IF f \in {Soul, Lore} THEN [at |-> 1, ident |-> None, by |-> None]
                  ELSE None]
  BY DEF Init
<1>2. [at |-> 1, ident |-> None, by |-> by] \in Contents
      /\ [at |-> 1, ident |-> None, by |-> None] \in Contents
  BY SMT DEF Contents, Names
<1>3. disk \in [Files -> Contents \cup {None}]
  BY <1>1, <1>2, SMT
<1>. QED
  BY <1>3, SMT DEF Init, TypeOK

LEMMA NextTyped ==
  ASSUME TypeOK, [Next]_vars
  PROVE  TypeOK'
<1>1. ASSUME NEW p \in {Turn, Dreamer}, NEW speaker \in Users \cup {Dreamer}, NEW role \in Roles,
             BeginTurn(p, speaker, role)
      PROVE  TypeOK'
  <2>1. [speaker |-> speaker, role |-> role, writes |-> 0] \in TurnRecords
    BY SMT DEF TurnRecords
  <2>. QED
    BY <2>1, <1>1, SMT DEF BeginTurn, TypeOK
<1>2. CASE Restart
  BY <1>2, SMT DEF Restart, TypeOK
<1>3. ASSUME NEW c \in CapChoices, EditCap(c)
      PROVE  TypeOK'
  BY <1>3 DEF EditCap, TypeOK
<1>4. CASE Tick
  BY <1>4, SMT DEF Tick, TypeOK
<1>5. CASE UNCHANGED vars
  BY <1>5 DEF vars, TypeOK
<1>. QED
  BY <1>1, <1>2, <1>3, <1>4, <1>5, StoreTyped, ToolsTyped, DashboardTyped DEF Next, Roles

\* The store, the turns and the pages keep their types.
THEOREM TypeCorrect == Spec => []TypeOK
BY InitTyped, NextTyped, PTL DEF Spec

-----------------------------------------------------------------------------
\* The call of q goes on as it is.
SameCall(q) ==
  /\ call'[q] = None <=> call[q] = None
  /\ call[q] # None => call'[q].step = call[q].step /\ call'[q].file = call[q].file

\* p is between reading the prior content and the end of its write.
InWrite(p) == call[p] # None /\ call[p].step \in {"create", "commit"}

LEMMA NoneIsNobody == None \notin Procs /\ None \notin Contents /\ Slugs \subseteq Files
BY MemoryAssumption DEF Files

\* The state files are finitely many.
LEMMA FiniteStateFiles ==
  /\ IsFiniteSet(StateFiles) /\ Cardinality(StateFiles) \in Nat
  /\ IsFiniteSet(StateFiles)' /\ Cardinality(StateFiles)' \in Nat
<1>1. StateFiles \subseteq Slugs /\ StateFiles' \subseteq Slugs
  BY DEF StateFiles
<1>2. IsFiniteSet(StateFiles) /\ IsFiniteSet(StateFiles')
  BY <1>1, MemoryAssumption, FS_Subset
<1>. QED
  BY <1>2, FS_CardinalityType

\* What happens outside the writes concerns none of the locks.
LEMMA OutsideKeeps ==
  ASSUME IInv, NEW p \in Procs, UNCHANGED <<disk, holder, creating, cap, peak>>,
         \A q \in Procs \ {p} : SameCall(q), ~InWrite(p), ~InWrite(p)'
  PROVE  (HolderInv /\ CreateInv /\ CapInv)'
<1>1. HolderInv'
  BY DEF IInv, HolderInv, Writing, InWrite, SameCall
<1>2. CreateInv'
  <2>1. creating # None => creating \in Procs \ {p}
    BY DEF IInv, CreateInv, At, InWrite, TypeOK
  <2>. QED
    BY <2>1 DEF IInv, CreateInv, At, InWrite, SameCall
<1>3. CapInv'
  BY DEF IInv, CapInv, StateFiles
<1>. QED
  BY <1>1, <1>2, <1>3

\* The end of a call gives back the mutexes of that call and no others.
LEMMA ReleaseHolder ==
  ASSUME IInv, NEW p \in Procs, Release(p), call'[p] = None, \A q \in Procs \ {p} : SameCall(q)
  PROVE  HolderInv'
<1>. SUFFICES ASSUME NEW f \in Files, NEW q \in Procs
              PROVE  holder'[f] = q <=> Writing(q, f)'
  BY DEF HolderInv
<1>1. holder'[f] = IF holder[f] = p THEN None ELSE holder[f]
  BY DEF Release
<1>2. holder[f] = q <=> Writing(q, f)
  BY DEF IInv, HolderInv
<1>3. CASE q = p
  BY <1>1, <1>3, NoneIsNobody DEF Writing
<1>4. CASE q # p
  <2>1. holder'[f] = q <=> holder[f] = q
    BY <1>1, <1>4, NoneIsNobody
  <2>. QED
    BY <2>1, <1>2, <1>4 DEF SameCall, Writing
<1>. QED
  BY <1>3, <1>4

\* A file whose mutex is held does not disappear under the holder.
LEMMA ReleaseCreate ==
  ASSUME IInv, NEW p \in Procs, Release(p), call'[p] = None, \A q \in Procs \ {p} : SameCall(q),
         \A s \in Slugs : (disk[s] # None /\ disk'[s] = None) => holder[s] = None
  PROVE  CreateInv'
<1>1. \A q \in Procs : At(q, "create")' => call'[q].file \in Slugs
  BY DEF IInv, CreateInv, At, SameCall
<1>2. creating' # None => At(creating, "commit")' /\ call'[creating'].file \in Slugs
  <2>1. creating' # None => creating' = creating /\ creating \in Procs \ {p}
    BY DEF Release, IInv, TypeOK
  <2>. QED
    BY <2>1 DEF IInv, CreateInv, At, SameCall
<1>3. ASSUME NEW q \in Procs, At(q, "commit")', call'[q].file \in Slugs, disk'[call'[q].file] = None
      PROVE  creating' = q
  <2>1. q # p /\ At(q, "commit") /\ call[q].file = call'[q].file
    BY <1>3 DEF At, SameCall
  <2>2. holder[call[q].file] = q
    BY <2>1, <1>3, NoneIsNobody DEF IInv, HolderInv, Writing, At
  <2>3. disk[call[q].file] = None
    BY <2>1, <2>2, <1>3, NoneIsNobody
  <2>4. creating = q
    BY <2>1, <2>3, <1>3 DEF IInv, CreateInv
  <2>. QED
    BY <2>1, <2>4 DEF Release
<1>. QED
  BY <1>1, <1>2, <1>3 DEF CreateInv

\* A call that ends has added a state file only if it held the lock on creations.
LEMMA ReleaseCap ==
  ASSUME IInv, NEW p \in Procs, Release(p), UNCHANGED <<cap, peak>>,
         \/ StateFiles' \subseteq StateFiles
         \/ creating = p /\ \E s \in Slugs : StateFiles' \subseteq StateFiles \cup {s}
  PROVE  CapInv'
<1>. USE FiniteStateFiles
<1>p. peak \in Nat /\ cap <= peak /\ Cardinality(StateFiles) <= peak
  BY MemoryAssumption DEF IInv, TypeOK, CapInv
<1>1. CASE StateFiles' \subseteq StateFiles
  <2>1. Cardinality(StateFiles') <= Cardinality(StateFiles)
    BY <1>1, FS_Subset
  <2>2. creating' # None => creating # None
    BY DEF Release
  <2>. QED
    BY <1>p, <2>1, <2>2, SMT DEF IInv, CapInv
<1>2. CASE creating = p /\ \E s \in Slugs : StateFiles' \subseteq StateFiles \cup {s}
  <2>1. PICK s \in Slugs : StateFiles' \subseteq StateFiles \cup {s}
    BY <1>2
  <2>2. /\ IsFiniteSet(StateFiles \cup {s})
        /\ Cardinality(StateFiles \cup {s}) \in Nat
        /\ Cardinality(StateFiles \cup {s}) <= Cardinality(StateFiles) + 1
    <3>1. /\ IsFiniteSet(StateFiles \cup {s})
          /\ \/ Cardinality(StateFiles \cup {s}) = Cardinality(StateFiles)
             \/ Cardinality(StateFiles \cup {s}) = Cardinality(StateFiles) + 1
      BY FS_AddElement
    <3>. QED
      BY <3>1, SMT
  <2>3. Cardinality(StateFiles') <= Cardinality(StateFiles \cup {s})
    BY <2>1, <2>2, FS_Subset
  <2>4. Cardinality(StateFiles) < peak
    BY <1>2, NoneIsNobody DEF IInv, CapInv
  <2>5. creating' = None
    BY <1>2 DEF Release
  <2>. QED
    BY <1>p, <2>2, <2>3, <2>4, <2>5, SMT DEF CapInv
<1>. QED
  BY <1>1, <1>2

\* A call that ends and leaves the disk alone.
LEMMA EndKeeps ==
  ASSUME IInv, NEW p \in Procs, End(p), UNCHANGED <<disk, cap, peak>>
  PROVE  (HolderInv /\ CreateInv /\ CapInv)'
<1>1. Release(p) /\ call'[p] = None /\ \A q \in Procs \ {p} : SameCall(q)
  BY DEF End, SameCall, IInv, TypeOK
<1>2. StateFiles' = StateFiles
  BY DEF StateFiles
<1>. QED
  BY <1>1, <1>2, ReleaseHolder, ReleaseCreate, ReleaseCap

\* Replacing a file by a new content, or by none, under its mutex.
LEMMA ReplaceKeeps ==
  ASSUME IInv, NEW p \in Procs, NEW x \in Contents \cup {None}, Replace(p, x),
         UNCHANGED <<cap, peak>>,
         \/ x # None /\ At(p, "commit")
         \/ x = None /\ At(p, "remove") /\ holder[call[p].file] = None
  PROVE  (HolderInv /\ CreateInv /\ CapInv)'
<1>. DEFINE f == call[p].file
<1>f. f \in Files
  BY AtTyped DEF IInv
<1>1. Release(p) /\ call'[p] = None
  BY DEF Replace
<1>2. ASSUME NEW q \in Procs \ {p} PROVE SameCall(q)
  <2>1. CASE call[q] # None /\ call[q].file = call[p].file
    <3>1. call'[q] = [call[q] EXCEPT !.intact = FALSE]
      BY <2>1 DEF Replace
    <3>2. call[q] \in CallRecords
      BY <2>1 DEF IInv, TypeOK
    <3>3. [call[q] EXCEPT !.intact = FALSE] \in CallRecords
      BY <3>2, Zenon DEF CallRecords
    <3>4. call'[q] # None
      BY <3>1, <3>3, MemoryAssumption
    <3>5. call'[q].step = call[q].step /\ call'[q].file = call[q].file
      BY <3>1, <3>2, Zenon DEF CallRecords
    <3>. QED
      BY <2>1, <3>4, <3>5 DEF SameCall
  <2>2. CASE ~(call[q] # None /\ call[q].file = call[p].file)
    BY <2>2 DEF SameCall, Replace
  <2>. QED
    BY <2>1, <2>2
<1>3. /\ disk' = [disk EXCEPT ![f] = x]
      /\ \A g \in Files : disk'[g] = IF g = f THEN x ELSE disk[g]
  BY <1>f DEF Replace, IInv, TypeOK
<1>4. \A s \in Slugs : (disk[s] # None /\ disk'[s] = None) => holder[s] = None
  BY <1>3, NoneIsNobody
<1>5. \/ StateFiles' \subseteq StateFiles
      \/ creating = p /\ \E s \in Slugs : StateFiles' \subseteq StateFiles \cup {s}
  <2>1. CASE x = None
    BY <2>1, <1>3, NoneIsNobody DEF StateFiles
  <2>2. CASE x # None /\ f \in Slugs /\ disk[f] = None
    <3>1. creating = p
      BY <2>2 DEF IInv, CreateInv
    <3>2. StateFiles' \subseteq StateFiles \cup {f}
      BY <1>3, NoneIsNobody DEF StateFiles
    <3>. QED
      BY <2>2, <3>1, <3>2
  <2>3. CASE x # None /\ ~(f \in Slugs /\ disk[f] = None)
    BY <2>3, <1>3, NoneIsNobody DEF StateFiles
  <2>. QED
    BY <2>1, <2>2, <2>3
<1>. QED
  BY <1>1, <1>2, <1>4, <1>5, ReleaseHolder, ReleaseCreate, ReleaseCap

\* Every step of the store keeps the locks in order.
LEMMA StoreKeeps ==
  ASSUME IInv, NEW p \in Procs, Store(p)
  PROVE  (HolderInv /\ CreateInv /\ CapInv)'
<1>t. call \in [Procs -> CallRecords \cup {None}]
  BY DEF IInv, TypeOK
<1>1. CASE CheckOk(p)
  <2>1. call[p] \in CallRecords
    BY <1>1, AtTyped DEF CheckOk, IInv
  <2>2. [call[p] EXCEPT !.step = "enter", !.intact = TRUE].step = "enter"
    BY <2>1, Zenon DEF CallRecords
  <2>3. ~InWrite(p) /\ ~InWrite(p)'
    BY <2>2, <1>1, <1>t DEF CheckOk, At, InWrite
  <2>4. \A q \in Procs \ {p} : SameCall(q)
    BY <1>1, <1>t DEF CheckOk, SameCall
  <2>. QED
    BY <2>3, <2>4, <1>1, OutsideKeeps DEF CheckOk
<1>2. CASE Conflict(p)
  <2>1. ~InWrite(p) /\ ~InWrite(p)' /\ \A q \in Procs \ {p} : SameCall(q)
    BY <1>2, <1>t DEF Conflict, At, InWrite, SameCall
  <2>. QED
    BY <2>1, <1>2, OutsideKeeps DEF Conflict
<1>3. CASE Full(p)
  BY <1>3, EndKeeps DEF Full, Refuse
<1>4. CASE StateFull(p)
  BY <1>4, EndKeeps DEF StateFull, Refuse
<1>5. CASE IoError(p)
  BY <1>5, EndKeeps DEF IoError
<1>6. CASE Remove(p)
  BY <1>6, ReplaceKeeps DEF Remove
<1>7. CASE Commit(p)
  <2>. DEFINE x == [at |-> now, ident |-> call[p].new.ident, by |-> call[p].new.by]
  <2>1. x \in Contents
    <3>1. call[p].new \in Frontmatters
      BY <1>7, AtTyped DEF Commit, CallRecords, IInv
    <3>2. now \in Nat
      BY DEF IInv, TypeOK
    <3>. QED
      BY <3>1, <3>2, SMT DEF Frontmatters, Contents
  <2>2. x # None
    BY <2>1, MemoryAssumption
  <2>. QED
    BY <2>1, <2>2, <1>7, ReplaceKeeps DEF Commit
<1>8. CASE Enter(p)
  <2>. DEFINE f == call[p].file
              next == IF f \in Slugs \ StateFiles THEN "create" ELSE "commit"
              c == [call[p] EXCEPT !.step = next,
                                   !.new = Frontmatter(call[p], Ident(f), CreatedBy(f))]
  <2>1. call[p] \in CallRecords /\ f \in Files
    BY <1>8, AtTyped DEF Enter, IInv
  <2>2. c \in CallRecords /\ c.step = next /\ c.file = f
    <3>1. Frontmatter(call[p], Ident(f), CreatedBy(f)) \in Frontmatters
      BY <2>1, FrontmatterTyped DEF IInv
    <3>2. next \in Steps
      BY DEF Steps
    <3>. HIDE DEF next
    <3>. QED
      BY <2>1, <3>1, <3>2, CallUpdates, Zenon DEF CallRecords
  <2>3. call' = [call EXCEPT ![p] = c] /\ call'[p] = c /\ c # None
    BY <1>8, <1>t, <2>2, MemoryAssumption DEF Enter
  <2>4. \A q \in Procs \ {p} : call'[q] = call[q]
    BY <2>3, <1>t
  <2>5. /\ holder[f] = None
        /\ \A g \in Files : holder'[g] = IF g = f THEN p ELSE holder[g]
    BY <1>8, <2>1 DEF Enter, IInv, TypeOK
  <2>6. ~InWrite(p)
    BY <1>8 DEF Enter, At, InWrite
  <2>. HIDE DEF c
  <2>7. HolderInv'
    BY <2>2, <2>3, <2>4, <2>5, <2>6, NoneIsNobody DEF IInv, HolderInv, Writing, InWrite
  <2>8. CreateInv'
    <3>1. UNCHANGED <<disk, creating>>
      BY <1>8 DEF Enter
    <3>2. creating # p
      BY <2>6, NoneIsNobody DEF IInv, CreateInv, At, InWrite
    <3>3. creating # None => creating \in Procs
      BY DEF IInv, TypeOK
    <3>4. At(p, "create")' => f \in Slugs
      BY <2>2, <2>3 DEF At
    <3>5. At(p, "commit")' /\ f \in Slugs => disk[f] # None
      BY <2>2, <2>3 DEF At, StateFiles
    <3>. QED
      BY <3>1, <3>2, <3>3, <3>4, <3>5, <2>2, <2>3, <2>4 DEF IInv, CreateInv, At
  <2>9. CapInv'
    BY <1>8 DEF Enter, IInv, CapInv, StateFiles
  <2>. QED
    BY <2>7, <2>8, <2>9
<1>9. CASE CountFiles(p)
  <2>. DEFINE c == [call[p] EXCEPT !.step = "commit"]
  <2>1. call[p] \in CallRecords
    BY <1>9, AtTyped DEF CountFiles, IInv
  <2>2. c \in CallRecords /\ c.step = "commit" /\ c.file = call[p].file
    BY <2>1, Zenon DEF CallRecords, Steps
  <2>3. call' = [call EXCEPT ![p] = c] /\ call'[p] = c /\ c # None
    BY <1>9, <1>t, <2>2, MemoryAssumption DEF CountFiles
  <2>4. \A q \in Procs \ {p} : call'[q] = call[q]
    BY <2>3, <1>t
  <2>. HIDE DEF c
  <2>5. HolderInv'
    BY <1>9, <2>2, <2>3, <2>4 DEF CountFiles, IInv, HolderInv, Writing, At
  <2>6. CreateInv'
    BY <1>9, <2>2, <2>3, <2>4, NoneIsNobody DEF CountFiles, IInv, CreateInv, At
  <2>7. CapInv'
    BY <1>9, FiniteStateFiles, MemoryAssumption, SMT DEF CountFiles, IInv, TypeOK, CapInv, StateFiles
  <2>. QED
    BY <2>5, <2>6, <2>7
<1>. QED
  BY <1>1, <1>2, <1>3, <1>4, <1>5, <1>6, <1>7, <1>8, <1>9 DEF Store

\* A call that starts anywhere before its write.
LEMMA StartKeeps ==
  ASSUME IInv, NEW p \in Procs, NEW c \in CallRecords, Start(p, c),
         c.step \notin {"create", "commit"}, UNCHANGED <<disk, holder, creating, cap, peak>>
  PROVE  (HolderInv /\ CreateInv /\ CapInv)'
<1>1. call[p] = None /\ call'[p] = c /\ \A q \in Procs \ {p} : call'[q] = call[q]
  BY DEF Start, IInv, TypeOK
<1>2. ~InWrite(p) /\ ~InWrite(p)' /\ \A q \in Procs \ {p} : SameCall(q)
  BY <1>1 DEF InWrite, SameCall
<1>. QED
  BY <1>2, OutsideKeeps

\* The calls that the tools and the dashboard start.
LEMMA NewCallStep ==
  ASSUME TypeOK, NEW f \in Files, NEW step \in Steps
  PROVE  NewCall(step, f) \in CallRecords /\ NewCall(step, f).step = step
BY NewCallTyped DEF NewCall

LEMMA ToolsKeep ==
  ASSUME IInv, NEW p \in {Turn, Dreamer}, Tools(p)
  PROVE  (HolderInv /\ CreateInv /\ CapInv)'
<1>. USE DEF Steps
<1>p. p \in Procs
  BY DEF Procs
<1>s. TypeOK /\ Slugs \subseteq Files /\ None \in Names
  BY NoneIsNobody DEF IInv, Names
<1>1. CASE EndTurn(p)
  BY <1>1 DEF EndTurn, IInv, HolderInv, Writing, CreateInv, At, CapInv, StateFiles
<1>2. ASSUME ConsumeQuota(p) PROVE turn[p].speaker \in Names
  <2>1. turn[p] \in TurnRecords
    BY <1>2, <1>s DEF ConsumeQuota, TypeOK
  <2>. QED
    BY <2>1 DEF TurnRecords, Names
<1>3. ASSUME NEW f \in Files \ Slugs, WriteFile(p, f)
      PROVE  (HolderInv /\ CreateInv /\ CapInv)'
  <2>. DEFINE n == IF f = turn[p].speaker THEN f ELSE None
  <2>1. n \in Names
    BY <1>2, <1>3, <1>s DEF WriteFile
  <2>. HIDE DEF n
  <2>2. /\ [NewCall("enter", f) EXCEPT !.ident = n] \in CallRecords
        /\ [NewCall("enter", f) EXCEPT !.ident = n].step = "enter"
    <3>1. NewCall("enter", f) \in CallRecords /\ NewCall("enter", f).step = "enter"
      BY <1>s, NewCallStep
    <3>. QED
      BY <2>1, <3>1, Zenon DEF CallRecords
  <2>3. Start(p, [NewCall("enter", f) EXCEPT !.ident = n])
        /\ UNCHANGED <<disk, holder, creating, cap, peak>>
    BY <1>3 DEF WriteFile, ConsumeQuota, n
  <2>. QED
    BY <2>2, <2>3, <1>p, StartKeeps
<1>4. ASSUME NEW s \in Slugs, WriteState(p, s)
      PROVE  (HolderInv /\ CreateInv /\ CapInv)'
  <2>. DEFINE c == [NewCall("enter", s) EXCEPT !.by = turn[p].speaker]
  <2>1. c \in CallRecords /\ c.step = "enter"
    <3>1. NewCall("enter", s) \in CallRecords /\ NewCall("enter", s).step = "enter"
      BY <1>s, NewCallStep
    <3>2. turn[p].speaker \in Names
      BY <1>2, <1>4 DEF WriteState
    <3>. QED
      BY <3>1, <3>2, Zenon DEF CallRecords
  <2>2. Start(p, c) /\ UNCHANGED <<disk, holder, creating, cap, peak>>
    BY <1>4 DEF WriteState, ConsumeQuota
  <2>. HIDE DEF c
  <2>. QED
    BY <2>1, <2>2, <1>p, StartKeeps
<1>5. ASSUME NEW s \in Slugs, AskDelete(p, s)
      PROVE  (HolderInv /\ CreateInv /\ CapInv)'
  <2>1. NewCall("remove", s) \in CallRecords /\ NewCall("remove", s).step = "remove"
    BY <1>s, NewCallStep
  <2>2. Start(p, NewCall("remove", s)) /\ UNCHANGED <<disk, holder, creating, cap, peak>>
    BY <1>5 DEF AskDelete, ConsumeQuota
  <2>. QED
    BY <2>1, <2>2, <1>p, StartKeeps
<1>. QED
  BY <1>1, <1>3, <1>4, <1>5 DEF Tools

LEMMA DashboardKeeps ==
  ASSUME IInv, NEW w \in Web, Dashboard(w)
  PROVE  (HolderInv /\ CreateInv /\ CapInv)'
<1>. USE DEF Steps
<1>p. w \in Procs /\ w \in Names
  BY DEF Procs, Names
<1>s. TypeOK /\ Slugs \subseteq Files
  BY NoneIsNobody DEF IInv
<1>1. ASSUME NEW f \in Files, View(w, f)
      PROVE  (HolderInv /\ CreateInv /\ CapInv)'
  <2>. DEFINE c == [NewCall("token", f) EXCEPT !.ident = Ident(f), !.over = CreatedBy(f)]
  <2>1. Ident(f) \in Names /\ CreatedBy(f) \in Names
    BY <1>s, SMT DEF Ident, CreatedBy, TypeOK, Contents, Names
  <2>2. c \in CallRecords /\ c.step = "token"
    <3>1. NewCall("token", f) \in CallRecords /\ NewCall("token", f).step = "token"
      BY <1>s, NewCallStep
    <3>. QED
      BY <2>1, <3>1, Zenon DEF CallRecords
  <2>3. Start(w, c) /\ UNCHANGED <<disk, holder, creating, cap, peak>>
    BY <1>1 DEF View
  <2>. HIDE DEF c
  <2>. QED
    BY <2>2, <2>3, <1>p, StartKeeps
<1>2. CASE Token(w)
  <2>1. ~InWrite(w) /\ ~InWrite(w)' /\ \A q \in Procs \ {w} : SameCall(q)
    BY <1>2, <1>s, <1>p DEF Token, TypeOK, At, InWrite, SameCall
  <2>. QED
    BY <2>1, <1>2, <1>p, OutsideKeeps DEF Token
<1>3. CASE Drop(w)
  BY <1>3, <1>p, EndKeeps DEF Drop
<1>4. ASSUME NEW ident \in Names, NEW by \in Names, Save(w, ident, by)
      PROVE  (HolderInv /\ CreateInv /\ CapInv)'
  <2>. DEFINE c == [NewCall("check", form[w].file) EXCEPT !.token = form[w].token,
                                                         !.ident = ident, !.over = by]
  <2>1. form[w].file \in Files /\ form[w].token \in Nat \cup {None}
    BY <1>4, <1>s, SMT DEF Save, TypeOK, Pages
  <2>2. c \in CallRecords /\ c.step = "check"
    <3>1. /\ NewCall("check", form[w].file) \in CallRecords
          /\ NewCall("check", form[w].file).step = "check"
      BY <2>1, <1>s, NewCallStep
    <3>. QED
      BY <2>1, <3>1, Zenon DEF CallRecords
  <2>3. Start(w, c) /\ UNCHANGED <<disk, holder, creating, cap, peak>>
    BY <1>4 DEF Save
  <2>. HIDE DEF c
  <2>. QED
    BY <2>2, <2>3, <1>p, StartKeeps
<1>5. ASSUME NEW s \in Slugs, CreateState(w, s)
      PROVE  (HolderInv /\ CreateInv /\ CapInv)'
  <2>. DEFINE c == [NewCall("enter", s) EXCEPT !.by = w]
  <2>1. c \in CallRecords /\ c.step = "enter"
    <3>1. NewCall("enter", s) \in CallRecords /\ NewCall("enter", s).step = "enter"
      BY <1>s, NewCallStep
    <3>. QED
      BY <1>p, <3>1, Zenon DEF CallRecords
  <2>2. Start(w, c) /\ UNCHANGED <<disk, holder, creating, cap, peak>>
    BY <1>5 DEF CreateState
  <2>. HIDE DEF c
  <2>. QED
    BY <2>1, <2>2, <1>p, StartKeeps
<1>6. ASSUME NEW s \in Slugs, DeleteState(w, s)
      PROVE  (HolderInv /\ CreateInv /\ CapInv)'
  <2>1. NewCall("remove", s) \in CallRecords /\ NewCall("remove", s).step = "remove"
    BY <1>s, NewCallStep
  <2>2. Start(w, NewCall("remove", s)) /\ UNCHANGED <<disk, holder, creating, cap, peak>>
    BY <1>6 DEF DeleteState
  <2>. QED
    BY <2>1, <2>2, <1>p, StartKeeps
<1>. QED
  BY <1>1, <1>2, <1>3, <1>4, <1>5, <1>6 DEF Dashboard

-----------------------------------------------------------------------------
LEMMA InitKeeps == Init => IInv
<1>. SUFFICES ASSUME Init PROVE IInv
  OBVIOUS
<1>1. TypeOK
  BY InitTyped
<1>2. HolderInv
  BY NoneIsNobody DEF Init, HolderInv, Writing
<1>3. CreateInv
  BY DEF Init, CreateInv, At
<1>4. PICK left \in SUBSET Slugs :
        /\ \A f \in Files : f \in left \cup {Soul, Lore} \/ disk[f] = None
        /\ cap <= peak /\ Cardinality(left) <= peak
  BY DEF Init
<1>5. Cardinality(StateFiles) <= peak
  <2>1. StateFiles \subseteq left
    BY <1>4, MemoryAssumption DEF StateFiles, Files
  <2>2. Cardinality(StateFiles) <= Cardinality(left) /\ Cardinality(left) \in Nat
    BY <2>1, MemoryAssumption, FS_Subset, FS_CardinalityType
  <2>3. peak \in Nat
    BY MemoryAssumption DEF Init
  <2>. QED
    BY <1>4, <2>2, <2>3, FiniteStateFiles, SMT
<1>. QED
  BY <1>1, <1>2, <1>3, <1>4, <1>5 DEF IInv, CapInv, Init

LEMMA NextKeeps == IInv /\ [Next]_vars => IInv'
<1>. SUFFICES ASSUME IInv, [Next]_vars PROVE IInv'
  OBVIOUS
<1>1. TypeOK'
  BY NextTyped DEF IInv
<1>. SUFFICES (HolderInv /\ CreateInv /\ CapInv)'
  BY <1>1 DEF IInv
<1>2. ASSUME NEW p, NEW speaker, NEW role, BeginTurn(p, speaker, role)
      PROVE  (HolderInv /\ CreateInv /\ CapInv)'
  BY <1>2 DEF BeginTurn, IInv, HolderInv, Writing, CreateInv, At, CapInv, StateFiles
<1>3. CASE Restart
  <2>1. HolderInv' /\ CreateInv'
    BY <1>3, NoneIsNobody DEF Restart, HolderInv, Writing, CreateInv, At
  <2>. QED
    BY <2>1, <1>3 DEF Restart, IInv, CapInv, StateFiles
<1>4. ASSUME NEW c \in CapChoices, EditCap(c)
      PROVE  (HolderInv /\ CreateInv /\ CapInv)'
  <2>1. HolderInv' /\ CreateInv'
    BY <1>4 DEF EditCap, IInv, HolderInv, Writing, CreateInv, At
  <2>2. CapInv'
    <3>1. StateFiles' = StateFiles /\ creating' = creating
      BY <1>4 DEF EditCap, StateFiles
    <3>2. c \in Nat /\ peak \in Nat /\ cap' = c /\ peak' = IF c > peak THEN c ELSE peak
      BY <1>4, MemoryAssumption DEF EditCap, IInv, TypeOK
    <3>. QED
      BY <3>1, <3>2, FiniteStateFiles, SMT DEF IInv, CapInv
  <2>. QED
    BY <2>1, <2>2
<1>5. CASE Tick
  BY <1>5 DEF Tick, IInv, HolderInv, Writing, CreateInv, At, CapInv, StateFiles
<1>6. CASE UNCHANGED vars
  BY <1>6 DEF vars, IInv, HolderInv, Writing, CreateInv, At, CapInv, StateFiles
<1>. QED
  BY <1>2, <1>3, <1>4, <1>5, <1>6, StoreKeeps, ToolsKeep, DashboardKeeps DEF Next

\* Of the calls in progress, at least one can go on: a call that waits for a
\* mutex waits for a writer, a writer that waits for the lock on creations waits
\* for one that is about to write.
LEMMA SomeoneMoves == IInv => NobodyIsStuck
<1>. SUFFICES ASSUME IInv, NEW p \in Procs, call[p] # None
              PROVE  \E q \in Procs : call[q] # None /\ CanMove(q)
  BY DEF NobodyIsStuck
<1>1. ASSUME creating # None PROVE call[creating] # None /\ creating \in Procs /\ CanMove(creating)
  BY <1>1 DEF IInv, TypeOK, CreateInv, CanMove, At
<1>2. ASSUME NEW q \in Procs, InWrite(q), creating = None PROVE CanMove(q)
  BY <1>2 DEF InWrite, CanMove, At
<1>3. CASE creating # None
  BY <1>1, <1>3
<1>4. CASE creating = None /\ ~CanMove(p)
  <2>1. call[p] \in CallRecords /\ call[p].file \in Files
    BY DEF IInv, TypeOK, CallRecords
  <2>2. holder[call[p].file] # None
    BY <1>4, <1>2 DEF CanMove, At
  <2>3. PICK q \in Procs : holder[call[p].file] = q
    BY <2>1, <2>2 DEF IInv, TypeOK
  <2>4. InWrite(q)
    BY <2>1, <2>3 DEF IInv, HolderInv, Writing, InWrite
  <2>. QED
    BY <2>4, <1>4, <1>2 DEF InWrite
<1>. QED
  BY <1>3, <1>4

\* The number of state files never passes the largest cap there has been, for
\* any number of turns and dashboard handlers that create them.
THEOREM FilesCapped == Spec => []StateFilesCapped
<1>1. IInv => StateFilesCapped
  BY DEF IInv, CapInv, StateFilesCapped
<1>. QED
  BY <1>1, InitKeeps, NextKeeps, PTL DEF Spec

\* The mutexes of the paths and the lock on creations cannot deadlock.
THEOREM NoDeadlock == Spec => []NobodyIsStuck
BY SomeoneMoves, InitKeeps, NextKeeps, PTL DEF Spec

-----------------------------------------------------------------------------
(* Nothing is lost silently.  What a write preserves it has read under the *)
(* mutex it still holds; what a page was opened with is compared before.   *)

\* What a call knows of its file.  The token it has checked is the time of the file as long
\* as the file is intact; what it will write keeps an identity and a creator that are there,
\* unless the form of a dashboard user names another creator; only state files are removed.
KnowsOf(p) ==
  LET c == call[p] IN
  /\ c.token # None /\ c.step \in {"enter", "create", "commit"} /\ c.intact
       => current_mtime(c.file) = c.token
  /\ c.step \in {"create", "commit"} =>
       /\ c.file \in Users /\ Ident(c.file) # None => c.new.ident # None
       /\ c.file \in Slugs /\ CreatedBy(c.file) # None
            => c.new.by = OrElse(c.over, CreatedBy(c.file))
  /\ c.over # None => p \in Web
  /\ c.step = "remove" => c.file \in Slugs

Knowledge == \A p \in Procs : call[p] # None => KnowsOf(p)

KInv == IInv /\ Knowledge

\* A step of p that leaves the disk alone.
LEMMA OthersKnow ==
  ASSUME KInv, NEW p \in Procs, disk' = disk, \A q \in Procs \ {p} : call'[q] = call[q],
         call'[p] # None => KnowsOf(p)'
  PROVE  Knowledge'
<1>. SUFFICES ASSUME NEW q \in Procs \ {p}, call'[q] # None PROVE KnowsOf(q)'
  BY DEF Knowledge
<1>1. KnowsOf(q) /\ call'[q] = call[q]
  BY DEF KInv, Knowledge
<1>. QED
  BY <1>1 DEF KnowsOf, current_mtime, Ident, CreatedBy

\* A call that starts has read nothing yet.
LEMMA StartKnows ==
  ASSUME KInv, NEW p \in Procs, NEW c, Start(p, c), disk' = disk,
         c.step \notin {"create", "commit"}, c.step = "enter" => c.token = None,
         c.over # None => p \in Web, c.step = "remove" => c.file \in Slugs
  PROVE  Knowledge'
<1>1. call'[p] = c /\ \A q \in Procs \ {p} : call'[q] = call[q]
  BY DEF Start, KInv, IInv, TypeOK
<1>2. KnowsOf(p)'
  BY <1>1 DEF KnowsOf
<1>. QED
  BY <1>1, <1>2, OthersKnow

\* A call that ends without a change of the disk.
LEMMA EndKnows ==
  ASSUME KInv, NEW p \in Procs, call' = [call EXCEPT ![p] = None], disk' = disk
  PROVE  Knowledge'
<1>1. call'[p] = None /\ \A q \in Procs \ {p} : call'[q] = call[q]
  BY DEF KInv, IInv, TypeOK
<1>. QED
  BY <1>1, OthersKnow

\* A new content makes the calls that are to come to this file no longer intact; none of
\* them has read it, since a writer holds its mutex and a removal waits for it.
LEMMA ReplaceKnows ==
  ASSUME KInv, NEW p \in Procs, NEW x, Replace(p, x),
         At(p, "commit") \/ (At(p, "remove") /\ holder[call[p].file] = None)
  PROVE  Knowledge'
<1>. USE DEF KInv
<1>. DEFINE f == call[p].file
<1>1. call[p] \in CallRecords /\ f \in Files
  BY AtTyped DEF IInv
<1>2. \A g \in Files : disk'[g] = IF g = f THEN x ELSE disk[g]
  BY <1>1 DEF Replace, IInv, TypeOK
<1>3. \A q \in Procs :
        call'[q] = IF q = p THEN None
                   ELSE IF call[q] # None /\ call[q].file = f
                   THEN [call[q] EXCEPT !.intact = FALSE] ELSE call[q]
  BY DEF Replace
<1>4. \A q \in Procs \ {p} : InWrite(q) => call[q].file # f
  BY <1>1, NoneIsNobody DEF IInv, HolderInv, Writing, InWrite, At
<1>. SUFFICES ASSUME NEW q \in Procs, call'[q] # None PROVE KnowsOf(q)'
  BY DEF Knowledge
<1>5. q # p /\ call[q] # None /\ KnowsOf(q)
  BY <1>3 DEF Knowledge
<1>6. call[q] \in CallRecords /\ call[q].file \in Files
  BY <1>5 DEF IInv, TypeOK, CallRecords
<1>. HIDE DEF f
<1>7. CASE call[q].file # f
  <2>1. call'[q] = call[q] /\ disk'[call[q].file] = disk[call[q].file]
    BY <1>2, <1>3, <1>5, <1>6, <1>7
  <2>. QED
    BY <1>5, <2>1 DEF KnowsOf, current_mtime, Ident, CreatedBy
<1>8. CASE call[q].file = f
  <2>1. call'[q] = [call[q] EXCEPT !.intact = FALSE]
    BY <1>3, <1>5, <1>8
  <2>2. /\ call'[q].intact = FALSE /\ call'[q].step = call[q].step
        /\ call'[q].over = call[q].over /\ call'[q].file = call[q].file
    BY <1>6, <2>1, Zenon DEF CallRecords
  <2>3. call[q].step \notin {"create", "commit"}
    BY <1>4, <1>5, <1>8 DEF InWrite
  <2>. QED
    BY <1>5, <2>2, <2>3 DEF KnowsOf
<1>. QED
  BY <1>7, <1>8

LEMMA StoreKnows ==
  ASSUME KInv, NEW p \in Procs, Store(p)
  PROVE  Knowledge'
<1>t. call \in [Procs -> CallRecords \cup {None}] /\ TypeOK
  BY DEF KInv, IInv, TypeOK
<1>1. CASE CheckOk(p)
  <2>. DEFINE c == [call[p] EXCEPT !.step = "enter", !.intact = TRUE]
  <2>1. call[p] \in CallRecords /\ call[p] # None
    BY <1>1, <1>t, AtTyped DEF CheckOk, At
  <2>2. /\ c.step = "enter" /\ c.token = call[p].token /\ c.file = call[p].file
        /\ c.over = call[p].over
    BY <2>1, Zenon DEF CallRecords
  <2>3. call'[p] = c /\ \A q \in Procs \ {p} : call'[q] = call[q]
    BY <1>1, <1>t DEF CheckOk
  <2>. HIDE DEF c
  <2>4. current_mtime(call[p].file) = call[p].token /\ disk' = disk
    BY <1>1 DEF CheckOk, Matches
  <2>5. call[p].over # None => p \in Web
    BY <2>1 DEF KInv, Knowledge, KnowsOf
  <2>6. KnowsOf(p)'
    BY <2>2, <2>3, <2>4, <2>5 DEF KnowsOf, current_mtime
  <2>. QED
    BY <2>3, <2>4, <2>6, OthersKnow
<1>2. CASE Conflict(p) \/ Full(p) \/ StateFull(p) \/ IoError(p)
  <2>1. call' = [call EXCEPT ![p] = None] /\ disk' = disk
    BY <1>2 DEF Conflict, Full, StateFull, IoError, Refuse, End
  <2>. QED
    BY <2>1, EndKnows
<1>3. CASE Commit(p) \/ Remove(p)
  BY <1>3, ReplaceKnows DEF Commit, Remove
<1>4. CASE Enter(p)
  <2>. DEFINE f == call[p].file
              next == IF f \in Slugs \ StateFiles THEN "create" ELSE "commit"
              fm == Frontmatter(call[p], Ident(f), CreatedBy(f))
              c == [call[p] EXCEPT !.step = next, !.new = fm]
  <2>1. call[p] \in CallRecords /\ f \in Files /\ call[p] # None /\ call[p].step = "enter"
    BY <1>4, <1>t, AtTyped DEF Enter, At
  <2>2. call'[p] = c /\ (\A q \in Procs \ {p} : call'[q] = call[q]) /\ disk' = disk
    BY <1>4, <1>t DEF Enter
  <2>3. /\ f \in Users /\ Ident(f) # None => fm.ident # None
        /\ f \in Slugs /\ CreatedBy(f) # None => fm.by = OrElse(call[p].over, CreatedBy(f))
    BY DEF Frontmatter, OrElse
  <2>4. next \in {"create", "commit"}
    OBVIOUS
  <2>. HIDE DEF fm, next
  <2>5. /\ c.step = next /\ c.new = fm /\ c.file = f /\ c.token = call[p].token
        /\ c.over = call[p].over /\ c.intact = call[p].intact
    BY <2>1, Zenon DEF CallRecords
  <2>. HIDE DEF c, f
  <2>6. /\ call[p].over # None => p \in Web
        /\ call[p].token # None /\ call[p].intact => current_mtime(f) = call[p].token
    BY <2>1 DEF KInv, Knowledge, KnowsOf, f
  <2>7. KnowsOf(p)'
    BY <2>2, <2>3, <2>4, <2>5, <2>6 DEF KnowsOf, current_mtime, Ident, CreatedBy
  <2>. QED
    BY <2>2, <2>7, OthersKnow
<1>5. CASE CountFiles(p)
  <2>. DEFINE c == [call[p] EXCEPT !.step = "commit"]
  <2>1. call[p] \in CallRecords /\ call[p] # None /\ call[p].step = "create"
    BY <1>5, <1>t, AtTyped DEF CountFiles, At
  <2>2. call'[p] = c /\ (\A q \in Procs \ {p} : call'[q] = call[q]) /\ disk' = disk
    BY <1>5, <1>t DEF CountFiles
  <2>3. /\ c.step = "commit" /\ c.new = call[p].new /\ c.file = call[p].file
        /\ c.token = call[p].token /\ c.over = call[p].over /\ c.intact = call[p].intact
    BY <2>1, Zenon DEF CallRecords
  <2>. HIDE DEF c
  <2>4. KnowsOf(p)
    BY <2>1 DEF KInv, Knowledge
  <2>5. KnowsOf(p)'
    BY <2>1, <2>2, <2>3, <2>4 DEF KnowsOf, current_mtime, Ident, CreatedBy
  <2>. QED
    BY <2>2, <2>5, OthersKnow
<1>. QED
  BY <1>1, <1>2, <1>3, <1>4, <1>5 DEF Store

\* The tools know nothing but the identity of the speaker.
LEMMA ToolsKnow ==
  ASSUME KInv, NEW p \in {Turn, Dreamer}, Tools(p)
  PROVE  Knowledge'
<1>p. p \in Procs
  BY DEF Procs
<1>1. CASE EndTurn(p)
  BY <1>1 DEF EndTurn, KInv, Knowledge, KnowsOf, current_mtime, Ident, CreatedBy
<1>2. ASSUME NEW c, Start(p, c), disk' = disk, c.token = None, c.over = None,
             \/ c.step = "enter"
             \/ c.step = "remove" /\ c.file \in Slugs
      PROVE  Knowledge'
  BY <1>p, <1>2, StartKnows
<1>3. ASSUME NEW f \in Files \ Slugs, WriteFile(p, f) PROVE Knowledge'
  <2>. DEFINE c == [NewCall("enter", f) EXCEPT !.ident = IF f = turn[p].speaker THEN f ELSE None]
  <2>1. Start(p, c) /\ disk' = disk
    BY <1>3 DEF WriteFile, ConsumeQuota
  <2>2. c.step = "enter" /\ c.token = None /\ c.over = None
    BY DEF NewCall
  <2>. HIDE DEF c
  <2>. QED
    BY <1>2, <2>1, <2>2
<1>4. ASSUME NEW s \in Slugs, WriteState(p, s) PROVE Knowledge'
  <2>. DEFINE c == [NewCall("enter", s) EXCEPT !.by = turn[p].speaker]
  <2>1. Start(p, c) /\ disk' = disk
    BY <1>4 DEF WriteState, ConsumeQuota
  <2>2. c.step = "enter" /\ c.token = None /\ c.over = None
    BY DEF NewCall
  <2>. HIDE DEF c
  <2>. QED
    BY <1>2, <2>1, <2>2
<1>5. ASSUME NEW s \in Slugs, AskDelete(p, s) PROVE Knowledge'
  <2>. DEFINE c == NewCall("remove", s)
  <2>1. Start(p, c) /\ disk' = disk
    BY <1>5 DEF AskDelete, ConsumeQuota
  <2>2. c.step = "remove" /\ c.file = s /\ c.token = None /\ c.over = None
    BY DEF NewCall
  <2>. HIDE DEF c
  <2>. QED
    BY <1>2, <2>1, <2>2
<1>. QED
  BY <1>1, <1>3, <1>4, <1>5 DEF Tools

LEMMA DashboardKnows ==
  ASSUME KInv, NEW w \in Web, Dashboard(w)
  PROVE  Knowledge'
<1>p. w \in Procs
  BY DEF Procs
<1>1. CASE Token(w) \/ Drop(w)
  <2>1. call' = [call EXCEPT ![w] = None] /\ disk' = disk
    BY <1>1 DEF Token, Drop, End
  <2>. QED
    BY <1>p, <2>1, EndKnows
<1>2. ASSUME NEW c, Start(w, c), disk' = disk, c.step \notin {"create", "commit"},
             c.step = "enter" => c.token = None, c.step = "remove" => c.file \in Slugs
      PROVE  Knowledge'
  BY <1>p, <1>2, StartKnows
<1>3. ASSUME NEW f \in Files, View(w, f) PROVE Knowledge'
  <2>. DEFINE c == [NewCall("token", f) EXCEPT !.ident = Ident(f), !.over = CreatedBy(f)]
  <2>1. Start(w, c) /\ disk' = disk
    BY <1>3 DEF View
  <2>2. c.step = "token"
    BY DEF NewCall
  <2>. HIDE DEF c
  <2>. QED
    BY <1>2, <2>1, <2>2
<1>4. ASSUME NEW ident \in Names, NEW by \in Names, Save(w, ident, by) PROVE Knowledge'
  <2>. DEFINE c == [NewCall("check", form[w].file) EXCEPT !.token = form[w].token,
                                                         !.ident = ident, !.over = by]
  <2>1. Start(w, c) /\ disk' = disk
    BY <1>4 DEF Save
  <2>2. c.step = "check"
    BY DEF NewCall
  <2>. HIDE DEF c
  <2>. QED
    BY <1>2, <2>1, <2>2
<1>5. ASSUME NEW s \in Slugs, CreateState(w, s) PROVE Knowledge'
  <2>. DEFINE c == [NewCall("enter", s) EXCEPT !.by = w]
  <2>1. Start(w, c) /\ disk' = disk
    BY <1>5 DEF CreateState
  <2>2. c.step = "enter" /\ c.token = None
    BY DEF NewCall
  <2>. HIDE DEF c
  <2>. QED
    BY <1>2, <2>1, <2>2
<1>6. ASSUME NEW s \in Slugs, DeleteState(w, s) PROVE Knowledge'
  <2>. DEFINE c == NewCall("remove", s)
  <2>1. Start(w, c) /\ disk' = disk
    BY <1>6 DEF DeleteState
  <2>2. c.step = "remove" /\ c.file = s /\ c.token = None /\ c.over = None
    BY DEF NewCall
  <2>. HIDE DEF c
  <2>. QED
    BY <1>2, <2>1, <2>2
<1>. QED
  BY <1>1, <1>3, <1>4, <1>5, <1>6 DEF Dashboard

LEMMA InitKnows == Init => KInv
<1>1. Init => Knowledge
  BY DEF Init, Knowledge
<1>. QED
  BY <1>1, InitKeeps DEF KInv

LEMMA NextKnows == KInv /\ [Next]_vars => KInv'
<1>. SUFFICES ASSUME KInv, [Next]_vars PROVE Knowledge'
  BY NextKeeps DEF KInv
<1>1. ASSUME UNCHANGED <<disk, call>> PROVE Knowledge'
  BY <1>1 DEF KInv, Knowledge, KnowsOf, current_mtime, Ident, CreatedBy
<1>2. ASSUME NEW p, NEW speaker, NEW role, BeginTurn(p, speaker, role) PROVE Knowledge'
  BY <1>1, <1>2 DEF BeginTurn
<1>3. CASE Restart
  BY <1>3 DEF Restart, Knowledge
<1>4. ASSUME NEW c \in CapChoices, EditCap(c) PROVE Knowledge'
  BY <1>1, <1>4 DEF EditCap
<1>5. CASE Tick \/ UNCHANGED vars
  BY <1>1, <1>5 DEF Tick, vars
<1>. QED
  BY <1>2, <1>3, <1>4, <1>5, StoreKnows, ToolsKnow, DashboardKnows DEF Next

\* Only the end of a write or of a removal changes a file, and that file only.
LEMMA WhoWrites ==
  ASSUME KInv, Next, disk' # disk
  PROVE  \E p \in Procs :
           /\ call[p] \in CallRecords /\ call[p].file \in Files /\ KnowsOf(p)
           /\ \A q \in Procs \ {p} : call[q] # None => call'[q] # None
           /\ \A g \in Files \ {call[p].file} : disk'[g] = disk[g]
           /\ \/ /\ call[p].step = "commit" /\ disk'[call[p].file].ident = call[p].new.ident
                 /\ disk'[call[p].file].by = call[p].new.by /\ disk'[call[p].file] # None
              \/ /\ call[p].step = "remove" /\ disk'[call[p].file] = None
<1>1. PICK p \in Procs : Commit(p) \/ Remove(p)
  BY DEF Next, Store, Tools, Dashboard, CheckOk, Conflict, Enter, Full, CountFiles, StateFull,
         IoError, BeginTurn, EndTurn, WriteFile, WriteState, AskDelete, ConsumeQuota, View, Token,
         Save, CreateState, DeleteState, Drop, Restart, EditCap, Tick
<1>2. call[p] # None /\ call[p] \in CallRecords /\ call[p].file \in Files /\ KnowsOf(p)
  BY <1>1, AtTyped DEF Commit, Remove, At, KInv, IInv, Knowledge
<1>3. PICK x : /\ Replace(p, x)
               /\ \/ /\ call[p].step = "commit"
                     /\ x = [at |-> now, ident |-> call[p].new.ident, by |-> call[p].new.by]
                  \/ call[p].step = "remove" /\ x = None
  BY <1>1 DEF Commit, Remove, At
<1>4. \A g \in Files : disk'[g] = IF g = call[p].file THEN x ELSE disk[g]
  BY <1>2, <1>3 DEF Replace, KInv, IInv, TypeOK
<1>5. \A q \in Procs \ {p} : call[q] # None => call'[q] # None
  <2>. SUFFICES ASSUME NEW q \in Procs \ {p}, call[q] # None PROVE call'[q] # None
    OBVIOUS
  <2>1. call'[q] \in {call[q], [call[q] EXCEPT !.intact = FALSE]}
    BY <1>3 DEF Replace
  <2>2. call[q] \in CallRecords
    BY DEF KInv, IInv, TypeOK
  <2>3. [call[q] EXCEPT !.intact = FALSE] \in CallRecords
    BY <2>2, Zenon DEF CallRecords
  <2>. QED
    BY <2>1, <2>2, <2>3, MemoryAssumption
<1>6. call[p].step = "commit" => x \in Contents
  <2>1. call[p].new \in Frontmatters /\ now \in Nat
    BY <1>2 DEF CallRecords, KInv, IInv, TypeOK
  <2>. QED
    BY <1>3, <2>1 DEF Frontmatters, Contents
<1>7. \/ /\ call[p].step = "commit" /\ disk'[call[p].file].ident = call[p].new.ident
         /\ disk'[call[p].file].by = call[p].new.by /\ disk'[call[p].file] # None
      \/ /\ call[p].step = "remove" /\ disk'[call[p].file] = None
  BY <1>2, <1>3, <1>4, <1>6, MemoryAssumption
<1>. QED
  BY <1>2, <1>4, <1>5, <1>7

\* A change of the disk takes nothing away that nobody has seen.
LEMMA StepLosesNothing ==
  ASSUME KInv, Next, disk' # disk
  PROVE  /\ \A w \in Web :
              (At(w, "commit") /\ call[w].token # None /\ call'[w] = None)
              => current_mtime(call[w].file) = call[w].token \/ ~call[w].intact
         /\ \A u \in Users : Ident(u) # None => Ident(u)' # None
         /\ \A s \in Slugs :
              (CreatedBy(s) # None /\ disk'[s] # None /\ CreatedBy(s)' # CreatedBy(s))
                => CreatedBy(s)' # None
                   /\ \E w \in Web : call[w] # None /\ call[w].over = CreatedBy(s)'
<1>1. PICK p \in Procs :
        /\ call[p] \in CallRecords /\ call[p].file \in Files /\ KnowsOf(p)
        /\ \A q \in Procs \ {p} : call[q] # None => call'[q] # None
        /\ \A g \in Files \ {call[p].file} : disk'[g] = disk[g]
        /\ \/ /\ call[p].step = "commit" /\ disk'[call[p].file].ident = call[p].new.ident
              /\ disk'[call[p].file].by = call[p].new.by /\ disk'[call[p].file] # None
           \/ /\ call[p].step = "remove" /\ disk'[call[p].file] = None
  BY WhoWrites
<1>2. ASSUME NEW w \in Web, At(w, "commit"), call[w].token # None, call'[w] = None
      PROVE  current_mtime(call[w].file) = call[w].token \/ ~call[w].intact
  <2>1. w = p
    BY <1>1, <1>2 DEF At, Procs
  <2>. QED
    BY <1>1, <1>2, <2>1 DEF KnowsOf, At
<1>3. ASSUME NEW u \in Users, Ident(u) # None
      PROVE  Ident(u)' # None
  <2>1. u \in Files /\ u \notin Slugs
    BY MemoryAssumption DEF Files
  <2>2. CASE u # call[p].file
    BY <1>1, <1>3, <2>1, <2>2 DEF Ident
  <2>3. CASE u = call[p].file
    <3>1. call[p].step = "commit" /\ call[p].new.ident # None
      BY <1>1, <1>3, <2>1, <2>3 DEF KnowsOf
    <3>. QED
      BY <1>1, <2>3, <3>1 DEF Ident
  <2>. QED
    BY <2>2, <2>3
<1>4. ASSUME NEW s \in Slugs, CreatedBy(s) # None, disk'[s] # None, CreatedBy(s)' # CreatedBy(s)
      PROVE  CreatedBy(s)' # None
             /\ \E w \in Web : call[w] # None /\ call[w].over = CreatedBy(s)'
  <2>1. s \in Files
    BY DEF Files
  <2>2. s = call[p].file
    BY <1>1, <1>4, <2>1 DEF CreatedBy
  <2>3. call[p].step = "commit" /\ CreatedBy(s)' = call[p].new.by
    BY <1>1, <1>4, <2>2 DEF CreatedBy
  <2>4. call[p].new.by = OrElse(call[p].over, CreatedBy(s))
    BY <1>1, <1>4, <2>2, <2>3 DEF KnowsOf
  <2>5. call[p].over # None /\ CreatedBy(s)' = call[p].over
    BY <1>4, <2>3, <2>4 DEF OrElse
  <2>6. p \in Web /\ call[p] # None
    BY <1>1, <2>5, MemoryAssumption DEF KnowsOf
  <2>. QED
    BY <2>5, <2>6
<1>. QED
  BY <1>2, <1>3, <1>4

\* A save of the editor never replaces a content that was there when its token was checked
\* and is newer than its page; no write, of a tool or of the dashboard, takes the identity
\* out of a user file or gives a state file a creator that nobody has put into a form.
THEOREM NothingLost == Spec => NoSilentLoss
<1>1. KInv /\ [Next]_vars =>
        [disk' # disk =>
           /\ \A w \in Web :
                (At(w, "commit") /\ call[w].token # None /\ call'[w] = None)
                => current_mtime(call[w].file) = call[w].token \/ ~call[w].intact
           /\ \A u \in Users : Ident(u) # None => Ident(u)' # None
           /\ \A s \in Slugs :
                (CreatedBy(s) # None /\ disk'[s] # None /\ CreatedBy(s)' # CreatedBy(s))
                  => CreatedBy(s)' # None
                     /\ \E w \in Web : call[w] # None /\ call[w].over = CreatedBy(s)']_vars
  BY StepLosesNothing
<1>. QED
  BY <1>1, InitKnows, NextKnows, PTL DEF Spec, NoSilentLoss

-----------------------------------------------------------------------------
(* The settings store *)


\* What a writer is about to save, or has saved, is valid.
NextValid ==
  \A w \in Writers : writer[w].st \in {"saving", "saved"} =>
    phase = "up" /\ validate(Resolve(writer[w].next), channel)

\* Requests are what the dashboard can send.
Requested ==
  \A w \in Writers : writer[w].st = "waiting" => writer[w].req \in Requests

LInv == Loadable /\ NextValid /\ Requested /\ DOMAIN writer = Writers

-----------------------------------------------------------------------------
\* The compiled defaults are valid under every boot channel.
LEMMA DefaultsValid ==
  ASSUME NEW c \in Channels
  PROVE  validate(Defaults, c)
BY SettingsAssumption DEF validate, validate_ai, ValidChannels, ValidSchedules, Defaults

\* Without overrides the defaults are in force.
LEMMA NothingOverridden == Resolve(NoOverrides) = Defaults
BY DEF Resolve, NoOverrides, Defaults, Keys

\* Valid settings stay valid when keys go back to their defaults, the two channels
\* together.
LEMMA DefaultedIsValid ==
  ASSUME NEW r, NEW n, NEW c \in Channels, validate(r, c),
         n["cooldown"] = r["cooldown"] \/ n["cooldown"] = DefaultCooldown,
         n["latency"] = r["latency"],
         n["length"] = r["length"] \/ n["length"] = DEFAULT_HISTORY_LENGTH,
         n["prefill"] = r["prefill"] \/ n["prefill"] = "none",
         n["schedules"] = r["schedules"] \/ n["schedules"] = << >>,
         (n["admin"] = r["admin"] /\ n["ai"] = r["ai"]) \/ (n["admin"] = Clear /\ n["ai"] = Clear)
  PROVE  validate(n, c)
<1>1. ValidSchedules(n["schedules"])
  <2>1. ValidSchedules(<< >>)
    BY DEF ValidSchedules
  <2> QED
    BY <2>1 DEF validate
<1>2. ValidChannels(n, c)
  <2>1. ValidChannels(r, c)
    BY DEF validate
  <2> QED
    BY <2>1, SettingsAssumption DEF ValidChannels
<1>3. n["cooldown"] \in 1 .. MaxCooldown /\ n["latency"] <= MaxLatency
  BY SettingsAssumption DEF validate
<1>4. n["length"] <= MAX_HISTORY_LENGTH
  BY SettingsAssumption DEF validate, validate_ai
<1>5. n["prefill"] = "some" => n["length"] > 0
  BY SettingsAssumption DEF validate, validate_ai
<1> QED
  BY <1>1, <1>2, <1>3, <1>4, <1>5 DEF validate, validate_ai

\* Clearing the overrides of one section of valid settings leaves valid settings,
\* for every section: each rule about two keys has both in one section, or holds
\* for the default of either.  This is why reset may do without validation.
LEMMA ResetKeepsValid ==
  ASSUME NEW o, NEW c \in Channels, NEW section \in DOMAIN SectionKeys,
         validate(Resolve(o), c)
  PROVE  validate(Resolve(cleared(o, section)), c)
<1>1. ASSUME NEW k \in Keys
      PROVE  Resolve(cleared(o, section))[k] =
               IF k \in SectionKeys[section] THEN Defaults[k] ELSE Resolve(o)[k]
  BY DEF Resolve, cleared
<1>2. \/ SectionKeys[section] = {"cooldown"} \/ SectionKeys[section] = {"length"}
      \/ SectionKeys[section] = {"prefill"} \/ SectionKeys[section] = {"schedules"}
      \/ SectionKeys[section] = {"admin", "ai"}
  BY DEF SectionKeys
<1>3. /\ Defaults["cooldown"] = DefaultCooldown /\ Defaults["length"] = DEFAULT_HISTORY_LENGTH
      /\ Defaults["prefill"] = "none" /\ Defaults["schedules"] = << >>
      /\ Defaults["admin"] = Clear /\ Defaults["ai"] = Clear
  BY DEF Defaults
<1> DEFINE r == Resolve(o)
           n == Resolve(cleared(o, section))
<1>4. \A k \in Keys : n[k] = IF k \in SectionKeys[section] THEN Defaults[k] ELSE r[k]
  BY <1>1
<1> HIDE DEF r, n
<1>5. /\ n["cooldown"] = r["cooldown"] \/ n["cooldown"] = DefaultCooldown
      /\ n["latency"] = r["latency"]
      /\ n["length"] = r["length"] \/ n["length"] = DEFAULT_HISTORY_LENGTH
  BY <1>2, <1>3, <1>4 DEF Keys
<1>6. /\ n["prefill"] = r["prefill"] \/ n["prefill"] = "none"
      /\ n["schedules"] = r["schedules"] \/ n["schedules"] = << >>
      /\ \/ n["admin"] = r["admin"] /\ n["ai"] = r["ai"]
         \/ n["admin"] = Clear /\ n["ai"] = Clear
  BY <1>2, <1>3, <1>4 DEF Keys
<1> USE DEF r, n
<1> QED
  BY <1>5, <1>6, DefaultedIsValid

\* What the store accepts from a file that is valid is valid.
LEMMA AcceptedIsValid ==
  ASSUME Loadable, phase # "down", channel \in Channels,
         NEW req \in Requests, Accepts(req, Mutated(req, file))
  PROVE  validate(Resolve(Mutated(req, file)), channel)
<1>1. CASE req.op = "reset"
  <2>1. req.section \in DOMAIN SectionKeys
    BY <1>1 DEF Requests, DashboardSections, SectionKeys
  <2>2. Mutated(req, file) = cleared(file, req.section)
    BY <1>1 DEF Mutated
  <2> QED
    BY <2>1, <2>2, ResetKeepsValid DEF Loadable
<1>2. CASE req.op # "reset"
  BY <1>2 DEF Accepts
<1> QED
  BY <1>1, <1>2

-----------------------------------------------------------------------------
\* The invariant holds when the bot is started for the first time.
LEMMA InitInvariant == SettingsInit => LInv
BY DEF SettingsInit, LInv, Loadable, NextValid, Requested, Idle, InStep

\* One step per action of the store; only Open, Load and Save touch what the
\* conjuncts are about.
LEMMA InvariantKept ==
  channel \in Channels /\ LInv /\ [SettingsNext]_settingsVars => LInv' /\ channel' \in Channels
<1> SUFFICES ASSUME channel \in Channels, LInv, [SettingsNext]_settingsVars
             PROVE  LInv' /\ channel' \in Channels
  OBVIOUS
<1> USE DEF LInv
<1>1. CASE UNCHANGED settingsVars
  BY <1>1 DEF settingsVars, boot, Loadable, NextValid, Requested
<1>2. CASE Open
  <2>1. (Loadable /\ channel \in Channels)'
    <3>1. channel' \in Channels
      BY <1>2 DEF Open
    <3>2. CASE validate(Resolve(file), channel')
      BY <1>2, <3>1, <3>2 DEF Open, Loadable
    <3>3. CASE ~validate(Resolve(file), channel')
      <4>1. file' = NoOverrides
        BY <1>2, <3>3 DEF Open
      <4> QED
        BY <3>1, <4>1, DefaultsValid, NothingOverridden DEF Loadable
    <3> QED
      BY <3>2, <3>3
  <2>2. (NextValid /\ Requested /\ DOMAIN writer = Writers)'
    BY <1>2 DEF Open, NextValid, Requested
  <2> QED
    BY <2>1, <2>2
<1>3. CASE Crash
  BY <1>3 DEF Crash, Loadable, NextValid, Requested, Idle, InStep
<1>4. ASSUME NEW m \in {"ai", "config"}, Migrate(m) \/ Mark(m) \/ Skip(m)
      PROVE  LInv' /\ channel' \in Channels
  <2>1. phase \notin {"down", "up"} /\ phase # "down"
    BY <1>4 DEF Migrate, Mark, Skip, Applied
  <2>2. UNCHANGED <<channel, writer>>
    BY <1>4 DEF Migrate, Mark, Skip
  <2>3. Loadable'
    <3>1. CASE Migrate(m)
      <4>1. UNCHANGED file \/ validate(Resolve(file'), channel)
        BY <3>1 DEF Migrate
      <4> QED
        BY <2>1, <2>2, <4>1 DEF Loadable
    <3>2. CASE Mark(m) \/ Skip(m)
      BY <2>1, <3>2 DEF Mark, Skip, Loadable
    <3> QED
      BY <1>4, <3>1, <3>2
  <2>4. (NextValid /\ Requested)'
    BY <2>1, <2>2 DEF NextValid, Requested
  <2> QED
    BY <2>2, <2>3, <2>4
<1>5. ASSUME NEW w \in Writers, RequestStep(w)
      PROVE  LInv' /\ channel' \in Channels
  <2>1. phase = "up" /\ UNCHANGED <<channel, phase>>
    BY <1>5 DEF RequestStep, Request, Load, Loaded, SaveFile, SaveFails, Swap, Cancel, Step, boot
  <2>2. CASE Request(w)
    BY <2>1, <2>2 DEF Request, Loadable, NextValid, Requested, InStep
  <2>3. CASE Load(w)
    <3>1. writer[w].req \in Requests
      BY <2>3 DEF Load, Step, Requested
    <3>2. Accepts(writer[w].req, Mutated(writer[w].req, file))
            => validate(Resolve(Mutated(writer[w].req, file)), channel)
      BY <2>1, <3>1, AcceptedIsValid
    <3>3. \/ /\ Accepts(writer[w].req, Mutated(writer[w].req, file))
             /\ writer' = [writer EXCEPT ![w] = InStep("saving", writer[w].req, Resolve(file),
                                                   Mutated(writer[w].req, file))]
          \/ writer' = [writer EXCEPT ![w] = Idle]
      BY <2>3 DEF Load, Loaded
    <3>4. (NextValid /\ Requested /\ DOMAIN writer = Writers)'
      BY <2>1, <3>2, <3>3 DEF NextValid, Requested, Idle, InStep
    <3> QED
      BY <2>1, <2>3, <3>4 DEF Load, Loaded, Loadable
  <2>4. CASE SaveFile(w)
    <3>1. validate(Resolve(writer[w].next), channel)
      BY <2>4 DEF SaveFile, Step, NextValid
    <3>2. (Loadable /\ channel \in Channels)'
      <4>1. file' = writer[w].next
        BY <2>4 DEF SaveFile
      <4> QED
        BY <2>1, <3>1, <4>1 DEF Loadable
    <3>3. (NextValid /\ Requested /\ DOMAIN writer = Writers)'
      BY <2>1, <2>4, <3>1 DEF SaveFile, NextValid, Requested, InStep
    <3> QED
      BY <3>2, <3>3
  <2>5. CASE SaveFails(w) \/ Swap(w) \/ Cancel(w)
    <3>1. (NextValid /\ Requested /\ DOMAIN writer = Writers)'
      BY <2>1, <2>5 DEF SaveFails, Swap, Cancel, NextValid, Requested, Idle, InStep
    <3> QED
      BY <2>1, <2>5, <3>1 DEF SaveFails, Swap, Cancel, Loadable
  <2> QED
    BY <1>5, <2>2, <2>3, <2>4, <2>5 DEF RequestStep
<1> QED
  BY <1>1, <1>2, <1>3, <1>4, <1>5 DEF SettingsNext

\* The file in the data directory is always one that the next start accepts,
\* unless the operator makes the boot channel one of the other channels.
THEOREM FileStaysLoadable == SettingsSpec => []Loadable
<1>1. SettingsInit => LInv /\ channel \in Channels
  BY InitInvariant DEF SettingsInit
<1>2. LInv /\ channel \in Channels /\ [SettingsNext]_settingsVars => (LInv /\ channel \in Channels)'
  BY InvariantKept
<1>3. LInv => Loadable
  BY DEF LInv
<1> QED
  BY <1>1, <1>2, <1>3, PTL DEF SettingsSpec

-----------------------------------------------------------------------------
(***************************************************************************)
(* One request at a time, and an audit log that tells what is live.  The   *)
(* lock is held from the load to the swap, so that what a writer computed  *)
(* is still what its request makes of the file when it saves; and no       *)
(* request runs before both migrations are marked as done.                 *)
(***************************************************************************)
OneCommits ==
  \A w \in Writers : writer[w].st \in {"saving", "saved"} => lock = w

NobodySaved == \A w \in Writers : writer[w].st # "saved"

\* What the writer in its commit knows is still so.
Current ==
  \A w \in Writers :
    /\ writer[w].st = "saving" =>
         /\ writer[w].req \in Requests
         /\ writer[w].next = Mutated(writer[w].req, file)
         /\ writer[w].prior = Resolve(file)
    /\ writer[w].st = "saved" =>
         /\ writer[w].next = file
         /\ \A k \in Keys \ lost : told[k] = writer[w].prior[k] /\ live[k] = writer[w].prior[k]

\* Between two commits the log and the live settings follow the file: the log in every
\* key that has lost no entry, the live settings in those keys even after a commit that
\* was cut off, and in all of them after the next one.
Follow ==
  NobodySaved =>
    /\ \A k \in Keys \ lost : told[k] = Resolve(file)[k]
    /\ phase # "down" => \A k \in Keys \ lost : live[k] = Resolve(file)[k]
    /\ phase # "down" /\ ~apart => live = Resolve(file)


\* The migrations are over when the dashboard opens.
MigratedFirst ==
  /\ markers \subseteq {"ai", "config"}
  /\ phase \in {"config", "config applied"} => "ai" \in markers
  /\ phase = "up" \/ edited # {} => markers = {"ai", "config"}

CommitInv == OneCommits /\ Current /\ Follow /\ MigratedFirst

\* The entry of a commit carries the log from the settings before to those after, in
\* every key that has lost no entry then.
LEMMA AuditKeeps ==
  ASSUME NEW prior, NEW new, Audit(prior, new), \A k \in Keys \ lost : told[k] = prior[k]
  PROVE  \A k \in Keys \ lost' : told'[k] = new[k]
<1>1. CASE told' = Logged(prior, new) /\ lost' = lost \ Differ(prior, new)
  BY <1>1 DEF Logged, Differ
<1>2. CASE UNCHANGED told /\ lost' = lost \cup Differ(prior, new)
  BY <1>2 DEF Differ
<1> QED
  BY <1>1, <1>2 DEF Audit

\* The steps of the boot and its end: no writer is at work.
LEMMA BootKeepsCommits ==
  ASSUME LInv, CommitInv,
         Open \/ Crash \/ \E m \in {"ai", "config"} : Migrate(m) \/ Mark(m) \/ Skip(m)
  PROVE  CommitInv'
<1> USE DEF CommitInv
<1>1. CASE Open
  <2>1. NobodySaved /\ \A w \in Writers : writer[w].st # "saving"
    BY <1>1 DEF Open, LInv, NextValid, NobodySaved
  <2>2. UNCHANGED <<writer, lock, told, apart, markers>> /\ phase' = "ai"
    BY <1>1 DEF Open
  <2>3. \/ UNCHANGED <<file, lost, edited>> /\ live' = Resolve(file)
        \/ /\ file' = NoOverrides /\ live' = Resolve(NoOverrides) /\ edited' = {}
           /\ lost' = lost \cup Differ(Resolve(file), Resolve(NoOverrides))
    BY <1>1, NothingOverridden DEF Open
  <2>4. Follow'
    <3>1. \A k \in Keys \ lost : told[k] = Resolve(file)[k]
      BY <2>1 DEF Follow
    <3>2. \A k \in Keys \ lost' : told[k] = Resolve(file')[k]
      BY <2>3, <3>1 DEF Differ
    <3>3. live' = Resolve(file')
      BY <2>3
    <3> HIDE DEF Resolve
    <3> QED
      BY <2>2, <3>2, <3>3 DEF Follow
  <2>5. OneCommits' /\ Current'
    BY <2>1, <2>2 DEF OneCommits, Current, NobodySaved
  <2>6. MigratedFirst'
    BY <2>2, <2>3 DEF MigratedFirst
  <2> QED
    BY <2>4, <2>5, <2>6
<1>2. CASE Crash
  <2>1. /\ phase' = "down" /\ UNCHANGED <<file, live, markers, told, edited>>
        /\ writer' = [w \in Writers |-> Idle]
        /\ lost' = lost \cup UNION {CutOff(w) : w \in Writers}
    BY <1>2 DEF Crash
  <2>2. \A k \in Keys \ lost' : told[k] = Resolve(file)[k]
    <3>1. CASE NobodySaved
      BY <2>1, <3>1 DEF Follow
    <3>2. ASSUME NEW w \in Writers, writer[w].st = "saved"
          PROVE  \A k \in Keys \ lost' : told[k] = Resolve(file)[k]
      <4>1. writer[w].next = file /\ \A k \in Keys \ lost : told[k] = writer[w].prior[k]
        BY <3>2 DEF Current
      <4>2. CutOff(w) = Differ(writer[w].prior, Resolve(file)) /\ CutOff(w) \subseteq lost'
        BY <2>1, <3>2, <4>1 DEF CutOff
      <4> QED
        BY <2>1, <4>1, <4>2 DEF Differ
    <3> QED
      BY <3>1, <3>2 DEF NobodySaved
  <2>3. Follow'
    BY <2>1, <2>2 DEF Follow
  <2>4. OneCommits' /\ Current'
    BY <2>1 DEF OneCommits, Current, Idle, InStep
  <2>5. MigratedFirst'
    BY <2>1 DEF MigratedFirst
  <2> QED
    BY <2>3, <2>4, <2>5
<1>3. ASSUME NEW m \in {"ai", "config"}, Migrate(m) \/ Mark(m) \/ Skip(m)
      PROVE  CommitInv'
  <2>1. phase # "down" /\ phase # "up" /\ UNCHANGED <<writer, lock, apart, edited>>
    BY <1>3 DEF Migrate, Mark, Skip, Applied
  <2>2. NobodySaved /\ \A w \in Writers : writer[w].st # "saving"
    BY <2>1 DEF LInv, NextValid, NobodySaved
  <2>3. \/ UNCHANGED <<file, live, told, lost>>
        \/ live' = Resolve(file') /\ Audit(Resolve(file), Resolve(file'))
    BY <1>3 DEF Migrate, Mark, Skip
  <2>4. Follow'
    <3>1. CASE UNCHANGED <<file, live, told, lost>>
      BY <2>1, <2>2, <3>1 DEF Follow, NobodySaved
    <3>2. CASE live' = Resolve(file') /\ Audit(Resolve(file), Resolve(file'))
      <4>1. \A k \in Keys \ lost' : told'[k] = Resolve(file')[k]
        BY <2>2, <3>2, AuditKeeps DEF Follow
      <4> QED
        BY <3>2, <4>1 DEF Follow
    <3> QED
      BY <2>3, <3>1, <3>2
  <2>5. OneCommits' /\ Current'
    BY <2>1, <2>2 DEF OneCommits, Current, NobodySaved
  <2>6. MigratedFirst'
    <3>1. CASE Migrate(m)
      BY <2>1, <3>1 DEF Migrate, MigratedFirst, Applied
    <3>2. CASE Mark(m)
      BY <2>1, <3>2 DEF Mark, MigratedFirst, Applied, After
    <3>3. CASE Skip(m)
      BY <2>1, <3>3 DEF Skip, MigratedFirst, After
    <3> QED
      BY <1>3, <3>1, <3>2, <3>3
  <2> QED
    BY <2>4, <2>5, <2>6
<1> QED
  BY <1>1, <1>2, <1>3

\* The steps of a request.
LEMMA RequestKeepsCommits ==
  ASSUME LInv, CommitInv, NEW w \in Writers, RequestStep(w)
  PROVE  CommitInv'
<1> USE DEF CommitInv
<1>1. phase = "up" /\ UNCHANGED <<phase, markers>> /\ DOMAIN writer = Writers
  BY DEF RequestStep, Request, Load, Loaded, SaveFile, SaveFails, Swap, Cancel, Step, boot, LInv
<1>2. MigratedFirst'
  BY <1>1 DEF MigratedFirst
<1>3. CASE Request(w)
  <2>1. writer[w].st = "idle" /\ UNCHANGED <<file, live, lock, told, lost, apart>>
    BY <1>3 DEF Request, Step
  <2>2. PICK req \in Requests :
          writer' = [writer EXCEPT ![w] = InStep("waiting", req, Nothing, Nothing)]
    BY <1>3 DEF Request
  <2>3. OneCommits' /\ Current'
    BY <1>1, <2>1, <2>2 DEF OneCommits, Current, InStep
  <2>4. Follow'
    BY <1>1, <2>1, <2>2 DEF Follow, NobodySaved, InStep
  <2> QED
    BY <1>2, <2>3, <2>4
<1>4. CASE Load(w)
  <2>1. writer[w].st = "waiting" /\ writer[w].req \in Requests /\ lock = Nothing
    BY <1>4 DEF Load, Step, LInv, Requested
  <2>2. UNCHANGED <<file, live, told, lost, apart>>
    BY <1>4 DEF Load, Loaded
  <2>3. \A v \in Writers : writer[v].st \notin {"saving", "saved"}
    BY <2>1, SettingsAssumption DEF OneCommits
  <2>4. \/ /\ lock' = w
           /\ writer' = [writer EXCEPT ![w] = InStep("saving", writer[w].req, Resolve(file),
                                                 Mutated(writer[w].req, file))]
        \/ writer' = [writer EXCEPT ![w] = Idle] /\ UNCHANGED lock
    BY <1>4 DEF Load, Loaded
  <2>5. OneCommits' /\ Current'
    BY <1>1, <2>1, <2>2, <2>3, <2>4 DEF OneCommits, Current, Idle, InStep
  <2>6. Follow'
    BY <1>1, <2>1, <2>2, <2>3 DEF Follow, NobodySaved
  <2> QED
    BY <1>2, <2>5, <2>6
<1>5. CASE SaveFile(w)
  <2>1. writer[w].st = "saving" /\ UNCHANGED <<live, lock, told, lost, apart>>
    BY <1>5 DEF SaveFile, Step
  <2>2. /\ file' = writer[w].next
        /\ writer' = [writer EXCEPT ![w] = InStep("saved", @.req, @.prior, @.next)]
    BY <1>5 DEF SaveFile
  <2>3. \A v \in Writers : v # w => writer[v].st \notin {"saving", "saved"}
    BY <2>1 DEF OneCommits
  <2>4. NobodySaved
    BY <2>1, <2>3 DEF NobodySaved
  <2>5. \A k \in Keys \ lost : told[k] = writer[w].prior[k] /\ live[k] = writer[w].prior[k]
    BY <1>1, <2>1, <2>4 DEF Follow, Current
  <2>6. OneCommits' /\ Current'
    BY <1>1, <2>1, <2>2, <2>3, <2>5 DEF OneCommits, Current, InStep
  <2>7. Follow'
    BY <1>1, <2>2 DEF Follow, NobodySaved, InStep
  <2> QED
    BY <1>2, <2>6, <2>7
<1>6. CASE SaveFails(w)
  <2>1. writer[w].st = "saving" /\ UNCHANGED <<file, live, told, lost, apart>>
    BY <1>6 DEF SaveFails, Step
  <2>2. writer' = [writer EXCEPT ![w] = Idle]
    BY <1>6 DEF SaveFails
  <2>3. \A v \in Writers : v # w => writer[v].st \notin {"saving", "saved"}
    BY <2>1 DEF OneCommits
  <2>4. OneCommits' /\ Current'
    BY <1>1, <2>1, <2>2, <2>3 DEF OneCommits, Current, Idle, InStep
  <2>5. Follow'
    BY <1>1, <2>1, <2>2, <2>3 DEF Follow, NobodySaved, Idle, InStep
  <2> QED
    BY <1>2, <2>4, <2>5
<1>7. CASE Swap(w)
  <2>1. writer[w].st = "saved" /\ UNCHANGED file
    BY <1>7 DEF Swap, Step
  <2>2. writer' = [writer EXCEPT ![w] = Idle]
    BY <1>7 DEF Swap
  <2>3. \A v \in Writers : v # w => writer[v].st \notin {"saving", "saved"}
    BY <2>1 DEF OneCommits
  <2>4. live' = Resolve(file)
    BY <1>7, <2>1 DEF Swap, Current
  <2>5. \A k \in Keys \ lost' : told'[k] = Resolve(file)[k]
    <3>1. Audit(writer[w].prior, Resolve(file))
      BY <1>7, <2>4 DEF Swap
    <3>2. \A k \in Keys \ lost : told[k] = writer[w].prior[k]
      BY <2>1 DEF Current
    <3> QED
      BY <3>1, <3>2, AuditKeeps
  <2>6. OneCommits' /\ Current'
    BY <1>1, <2>2, <2>3 DEF OneCommits, Current, Idle, InStep
  <2>7. Follow'
    BY <2>1, <2>4, <2>5 DEF Follow
  <2> QED
    BY <1>2, <2>6, <2>7
<1>8. CASE Cancel(w)
  <2>1. writer' = [writer EXCEPT ![w] = Idle] /\ UNCHANGED <<file, live, told>>
    BY <1>8 DEF Cancel
  <2>2. /\ apart' = (apart \/ writer[w].st = "saved")
        /\ lost' = lost \cup CutOff(w)
        /\ lock' = IF lock = w THEN Nothing ELSE lock
    BY <1>8 DEF Cancel
  <2>3. OneCommits' /\ Current'
    BY <1>1, <2>1, <2>2 DEF OneCommits, Current, Idle, InStep
  <2>4. Follow'
    <3>1. CASE writer[w].st # "saved"
      <4>1. NobodySaved' => NobodySaved
        BY <1>1, <2>1, <3>1 DEF NobodySaved
      <4>2. UNCHANGED <<file, live, told, phase>> /\ lost' = lost
        BY <1>1, <2>1, <2>2, <3>1 DEF CutOff
      <4> QED
        BY <2>2, <3>1, <4>1, <4>2 DEF Follow
    <3>2. CASE writer[w].st = "saved"
      <4>1. /\ writer[w].next = file
            /\ \A k \in Keys \ lost : told[k] = writer[w].prior[k] /\ live[k] = writer[w].prior[k]
        BY <3>2 DEF Current
      <4>2. lost' = lost \cup Differ(writer[w].prior, Resolve(file)) /\ apart'
        BY <2>2, <3>2, <4>1 DEF CutOff
      <4>3. \A k \in Keys \ lost' : told[k] = Resolve(file)[k] /\ live[k] = Resolve(file)[k]
        BY <4>1, <4>2 DEF Differ
      <4> QED
        BY <2>1, <4>2, <4>3 DEF Follow
    <3> QED
      BY <3>1, <3>2
  <2> QED
    BY <1>2, <2>3, <2>4
<1> QED
  BY <1>3, <1>4, <1>5, <1>6, <1>7, <1>8 DEF RequestStep

\* The whole invariant.
SInv == LInv /\ channel \in Channels /\ CommitInv

LEMMA WholeInvariant == SettingsSpec => []SInv
<1>1. SettingsInit => SInv
  <2>1. SettingsInit => CommitInv
    BY NothingOverridden DEF SettingsInit, CommitInv, OneCommits, Current, Follow, MigratedFirst,
       NobodySaved, Idle, InStep
  <2> QED
    BY <2>1, InitInvariant DEF SettingsInit, SInv
<1>2. SInv /\ [SettingsNext]_settingsVars => SInv'
  <2> SUFFICES ASSUME SInv, [SettingsNext]_settingsVars
               PROVE  SInv'
    OBVIOUS
  <2>1. LInv' /\ channel' \in Channels
    BY InvariantKept DEF SInv
  <2>2. CASE UNCHANGED settingsVars
    <3>1. CommitInv'
      BY <2>2 DEF settingsVars, boot, SInv, CommitInv, OneCommits, Current, Follow, MigratedFirst,
         NobodySaved
    <3> QED
      BY <2>1, <3>1 DEF SInv
  <2>3. CASE SettingsNext
    BY <2>1, <2>3, BootKeepsCommits, RequestKeepsCommits DEF SettingsNext, SInv
  <2> QED
    BY <2>2, <2>3
<1> QED
  BY <1>1, <1>2, PTL DEF SettingsSpec

\* While nothing is being saved the live settings are those of the file, and the last entry
\* for a key tells its value, unless the entry of its last change was lost, for any number of
\* requests, dropped requests, failing appends and restarts.
THEOREM LogTellsLive == SettingsSpec => []AuditTellsLive
<1>1. SInv => AuditTellsLive
  <2> SUFFICES ASSUME SInv
               PROVE  AuditTellsLive
    OBVIOUS
  <2> USE DEF SInv, CommitInv
  <2>1. lock = Nothing => NobodySaved
    BY SettingsAssumption DEF OneCommits, NobodySaved
  <2>2. phase = "up" => \A k \in Keys \ lost : told[k] = live[k]
    <3>1. CASE NobodySaved
      BY <3>1 DEF Follow
    <3>2. CASE ~NobodySaved
      BY <3>2 DEF Current, NobodySaved
    <3> QED
      BY <3>1, <3>2
  <2> QED
    BY <2>1, <2>2 DEF Follow, AuditTellsLive
<1> QED
  BY <1>1, WholeInvariant, PTL

\* Every step of the store is a step of the service it promises, or none that shows.
LEMMA StepIsServed ==
  ASSUME SInv, [SettingsNext]_settingsVars
  PROVE  [Service!ServiceNext]_(Service!serviceVars)
<1> USE DEF SInv, CommitInv
<1>1. CASE UNCHANGED <<file, channel, edited>>
  BY <1>1 DEF Service!serviceVars
<1>2. CASE ~UNCHANGED <<file, channel, edited>>
  <2>1. CASE Open
    <3>1. Service!Start
      BY <2>1 DEF Open, Service!Start
    <3> QED
      BY <1>2, <3>1 DEF Service!ServiceNext, Service!serviceVars
  <2>2. ASSUME NEW m \in {"ai", "config"}, Migrate(m)
        PROVE  Service!MigrateKeys
    <3>1. edited = {} /\ UNCHANGED <<channel, edited>>
      BY <2>2 DEF Migrate, MigratedFirst
    <3>2. validate(Resolve(file'), channel)
      BY <1>2, <2>2 DEF Migrate
    <3> QED
      BY <3>1, <3>2 DEF Service!MigrateKeys
  <2>3. ASSUME NEW w \in Writers, SaveFile(w)
        PROVE  Service!Apply
    <3>1. writer[w].st = "saving" /\ file' = writer[w].next /\ UNCHANGED channel
      BY <2>3 DEF SaveFile, Step, boot
    <3>2. writer[w].req \in Requests /\ file' = Mutated(writer[w].req, file)
      BY <3>1 DEF Current
    <3>3. validate(Resolve(file'), channel)
      BY <3>1 DEF LInv, NextValid
    <3>4. edited' = edited \cup {k \in Keys : Resolve(file')[k] # Resolve(file)[k]}
      BY <2>3 DEF SaveFile
    <3> QED
      BY <3>1, <3>2, <3>3, <3>4 DEF Service!Apply
  <2>4. SettingsNext => \/ Open
                        \/ \E m \in {"ai", "config"} : Migrate(m)
                        \/ \E w \in Writers : SaveFile(w)
    BY <1>2 DEF SettingsNext, Crash, Mark, Skip, RequestStep, Request, Load, Loaded, SaveFails,
       Swap, Cancel, boot
  <2>5. SettingsNext
    BY <1>2 DEF settingsVars, boot
  <2> QED
    BY <1>2, <2>1, <2>2, <2>3, <2>4, <2>5 DEF Service!ServiceNext, Service!serviceVars
<1> QED
  BY <1>1, <1>2

\* Although requests wait for the disk between reading the file and replacing it, the
\* store is one whose requests are applied one at a time to what is there.
THEOREM RequestsAreAtomic == SettingsSpec => IsAtomic
<1>1. SettingsInit => Service!ServiceInit
  BY DEF SettingsInit, Service!ServiceInit
<1>2. SInv /\ [SettingsNext]_settingsVars => [Service!ServiceNext]_(Service!serviceVars)
  BY StepIsServed
<1> QED
  BY <1>1, <1>2, WholeInvariant, PTL DEF SettingsSpec, IsAtomic, Service!ServiceSpec

=============================================================================
