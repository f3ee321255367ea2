----------------------------- MODULE MemoryStore -----------------------------
(***************************************************************************)
(* The memory files of the AI (ai/memory/store.rs) and those who change    *)
(* them at the same time: the chat turn of `!ai` and the nightly ritual,   *)
(* whose tools (ai/memory/tools.rs) write and delete for a role and within *)
(* a quota, and the dashboard (web/routes/memory.rs), whose editor saves   *)
(* with the modification time it was opened with.                          *)
(*                                                                         *)
(* Every path has a mutex.  A write holds it from the reading of the       *)
(* frontmatter to the rename, and the write of a new state file also holds *)
(* the global lock on creations from the count of the files on.  Bodies    *)
(* are left out; login and display name of a user file are treated alike   *)
(* and stand as one `ident`.                                               *)
(***************************************************************************)
EXTENDS Integers, FiniteSets

CONSTANTS
  Soul, Lore,       \* SOUL.md and LORE.md
  Users,            \* Twitch users; users/<u>.md is called u, and so is its ident
  Slugs,            \* state/<slug>.md, valid slugs
  Web,              \* dashboard handlers, each with the page of its browser
  Turn, Dreamer,    \* the chat turn (the dispatcher runs one) and the ritual
  None,
  CapChoices,       \* what the settings may say of ai.memory.max_state_files
  MaxWritesPerTurn, \* ai.max_writes_per_turn
  MaxCalls, MaxNow  \* bounds

Files == {Soul, Lore} \cup Users \cup Slugs
Procs == Web \cup {Turn, Dreamer}
Roles == {"regular", "moderator", "dreamer"}

\* Who may stand in the frontmatter of a file.
Names == Users \cup Web \cup {Dreamer, None}

Frontmatters == [ident : Names, by : Names]
Contents == [at : Nat, ident : Names, by : Names]
Steps == {"check", "token", "enter", "create", "commit", "remove"}
CallRecords ==
  [step : Steps, file : Files, ident : Names, by : Names, over : Names,
   token : Nat \cup {None}, new : Frontmatters, intact : BOOLEAN]
Pages == [file : Files, token : Nat, ident : Names, by : Names]
TurnRecords == [speaker : Users \cup {Dreamer}, role : Roles, writes : Nat]

ASSUME MemoryAssumption ==
  /\ IsFiniteSet(Slugs) /\ Slugs \cap ({Soul, Lore} \cup Users) = {}
  /\ None \notin Files \cup Procs
  /\ None \notin Contents /\ None \notin CallRecords /\ None \notin Pages
  /\ None \notin TurnRecords /\ None \notin Nat
  /\ CapChoices \subseteq Nat

VARIABLES
  disk,      \* the content of every file, None if there is none
  holder,    \* who holds the mutex of a path
  creating,  \* who holds state_create_lock
  call,      \* what a process is doing in the store
  turn,      \* speaker, role and writes used of the chat turn and the ritual
  form,      \* the editor page a browser shows
  cap,       \* max_state_files, read live
  now,       \* the clock, in milliseconds
  calls,     \* counted against its bound
  peak       \* history: the largest cap there has been

vars == <<disk, holder, creating, call, turn, form, cap, now, calls, peak>>

\* The modification time of a missing file is 0.
current_mtime(f) == IF disk[f] = None THEN 0 ELSE disk[f].at

Ident(f) == IF disk[f] = None THEN None ELSE disk[f].ident
CreatedBy(f) == IF disk[f] = None THEN None ELSE disk[f].by
Page(f, token, ident, by) == [file |-> f, token |-> token, ident |-> ident, by |-> by]
StateFiles == {s \in Slugs : disk[s] # None}

\* Some(s) of the first that is not empty.
OrElse(a, b) == IF a # None THEN a ELSE b

\* A call of the store: what it is about to do to which file, what the caller
\* knows of the frontmatter (ident, the creator `by` of a new file, `over` that
\* replaces the creator), the token of a guarded write, what it will write, and
\* whether the file is still the one whose creator or token was checked.
NewCall(step, f) ==
  [step |-> step, file |-> f, ident |-> None, by |-> None, over |-> None, token |-> None,
   new |-> [ident |-> None, by |-> None], intact |-> TRUE]

Start(p, c) ==
  /\ call[p] = None /\ calls < MaxCalls
  /\ calls' = calls + 1
  /\ call' = [call EXCEPT ![p] = c]

At(p, step) == call[p] # None /\ call[p].step = step

\* The end of a call drops its guards.
Release(p) ==
  /\ holder' = [f \in Files |-> IF holder[f] = p THEN None ELSE holder[f]]
  /\ creating' = IF creating = p THEN None ELSE creating

End(p) == call' = [call EXCEPT ![p] = None] /\ Release(p)

\* The end of a call that puts c in the place of its file.
Replace(p, c) ==
  /\ disk' = [disk EXCEPT ![call[p].file] = c]
  /\ call' = [q \in Procs |->
                IF q = p THEN None
                ELSE IF call[q] # None /\ call[q].file = call[p].file
                THEN [call[q] EXCEPT !.intact = FALSE] ELSE call[q]]
  /\ Release(p)

\* The state files that an earlier process has left; open seeds SOUL and LORE.
Init ==
  /\ \E left \in SUBSET Slugs, by \in Users :
       /\ disk = [f \in Files |->
                   IF f \in left THEN [at |-> 1, ident |-> None, by |-> by]
                   ELSE IF f \in {Soul, Lore} THEN [at |-> 1, ident |-> None, by |-> None]
                   ELSE None]
       /\ cap \in CapChoices /\ peak \in CapChoices
       /\ cap <= peak /\ Cardinality(left) <= peak
  /\ holder = [f \in Files |-> None] /\ creating = None
  /\ call = [p \in Procs |-> None]
  /\ turn = [p \in {Turn, Dreamer} |-> None]
  /\ form = [w \in Web |-> None]
  /\ now = 1 /\ calls = 0

-----------------------------------------------------------------------------
(***************************************************************************)
(* The store.                                                              *)
(***************************************************************************)

\* The frontmatter that is written over `prior`: a user file keeps the identity
\* that the caller does not know, a state file its creator.
Frontmatter(c, prior_ident, prior_by) ==
  [ident |-> IF c.file \in Users THEN OrElse(c.ident, prior_ident) ELSE None,
   by    |-> IF c.file \in Slugs THEN OrElse(c.over, OrElse(prior_by, c.by)) ELSE None]

\* Mutant: a file that is gone conflicts with nothing.
MatchesMissing(f, token) == current_mtime(f) \in {0, token}

Matches(f, token) == current_mtime(f) = token

\* Mutant: the guard is held on to, so that nothing can come in between.
CheckHeld(p) ==
  /\ At(p, "check") /\ holder[call[p].file] = None
  /\ Matches(call[p].file, call[p].token)
  /\ call' = [call EXCEPT ![p] = [@ EXCEPT !.step = "enter", !.intact = TRUE]]
  /\ holder' = [holder EXCEPT ![call[p].file] = p]
  /\ UNCHANGED <<disk, creating, turn, form, cap, now, calls, peak>>

\* write_with_guard: the token is compared under the mutex, which is released
\* before the write takes it again.
CheckOk(p) ==
  /\ At(p, "check") /\ holder[call[p].file] = None
  /\ Matches(call[p].file, call[p].token)
  /\ call' = [call EXCEPT ![p] = [@ EXCEPT !.step = "enter", !.intact = TRUE]]
  /\ UNCHANGED <<disk, holder, creating, turn, form, cap, now, calls, peak>>

\* The conflict page has the body and the time that are on disk now; the form
\* on it has no fields for the frontmatter.
Conflict(p) ==
  /\ At(p, "check") /\ holder[call[p].file] = None
  /\ ~Matches(call[p].file, call[p].token)
  /\ form' = [form EXCEPT ![p] = Page(call[p].file, current_mtime(call[p].file), None, None)]
  /\ call' = [call EXCEPT ![p] = None]
  /\ UNCHANGED <<disk, holder, creating, turn, cap, now, calls, peak>>

\* write and write_state_inner take the mutex and read what they preserve.
Enter(p) ==
  /\ At(p, "enter")
  /\ LET f == call[p].file IN
       /\ holder[f] = None
       /\ holder' = [holder EXCEPT ![f] = p]
       /\ call' = [call EXCEPT ![p] =
                     [@ EXCEPT !.step = IF f \in Slugs \ StateFiles THEN "create" ELSE "commit",
                               !.new = Frontmatter(call[p], Ident(f), CreatedBy(f))]]
  /\ UNCHANGED <<disk, creating, turn, form, cap, now, calls, peak>>

\* A write is refused; the editor comes back with the draft and the old token.
Refuse(p) ==
  /\ form' = IF call[p].token = None THEN form
             ELSE [form EXCEPT ![p] = Page(call[p].file, call[p].token, call[p].ident,
                                           call[p].over)]
  /\ End(p)

\* The whole file, frontmatter and body, is longer than its byte cap.
Full(p) ==
  /\ At(p, "enter") /\ holder[call[p].file] = None
  /\ Refuse(p)
  /\ UNCHANGED <<disk, turn, cap, now, calls, peak>>

\* Mutant: the mutex of the path is enough.
CountUnlocked(p) ==
  /\ At(p, "create")
  /\ Cardinality(StateFiles) < cap
  /\ call' = [call EXCEPT ![p] = [@ EXCEPT !.step = "commit"]]
  /\ UNCHANGED <<disk, holder, creating, turn, form, cap, now, calls, peak>>

\* A new state file: the count and the write are under the lock on creations.
CountFiles(p) ==
  /\ At(p, "create") /\ creating = None
  /\ Cardinality(StateFiles) < cap
  /\ creating' = p
  /\ call' = [call EXCEPT ![p] = [@ EXCEPT !.step = "commit"]]
  /\ UNCHANGED <<disk, holder, turn, form, cap, now, calls, peak>>

StateFull(p) ==
  /\ At(p, "create") /\ creating = None
  /\ Cardinality(StateFiles) >= cap
  /\ Refuse(p)
  /\ UNCHANGED <<disk, turn, cap, now, calls, peak>>

Commit(p) ==
  /\ At(p, "commit")
  /\ Replace(p, [at |-> now, ident |-> call[p].new.ident, by |-> call[p].new.by])
  /\ UNCHANGED <<turn, form, cap, now, calls, peak>>

\* delete_state; a file that is not there is as good as deleted.
Remove(p) ==
  /\ At(p, "remove") /\ holder[call[p].file] = None
  /\ Replace(p, None)
  /\ UNCHANGED <<turn, form, cap, now, calls, peak>>

\* The file system refuses.
IoError(p) ==
  /\ At(p, "commit") \/ (At(p, "remove") /\ holder[call[p].file] = None)
  /\ End(p)
  /\ UNCHANGED <<disk, turn, form, cap, now, calls, peak>>

-----------------------------------------------------------------------------
(***************************************************************************)
(* The tools of a chat turn and of the ritual.                             *)
(***************************************************************************)
BeginTurn(p, speaker, role) ==
  /\ turn[p] = None
  /\ turn' = [turn EXCEPT ![p] = [speaker |-> speaker, role |-> role, writes |-> 0]]
  /\ UNCHANGED <<disk, holder, creating, call, form, cap, now, calls, peak>>

\* The model has answered, or a round has timed out between two calls.
EndTurn(p) ==
  /\ turn[p] # None /\ call[p] = None
  /\ turn' = [turn EXCEPT ![p] = None]
  /\ UNCHANGED <<disk, holder, creating, call, form, cap, now, calls, peak>>

\* permitted_write_path
Permitted(t, f) ==
  CASE f = Soul -> t.role = "dreamer"
    [] f = Lore -> t.role # "regular"
    [] OTHER    -> t.role # "regular" \/ f = t.speaker

\* try_consume_write_quota; a refused call changes nothing.
ConsumeQuota(p) ==
  /\ turn[p] # None /\ turn[p].writes < MaxWritesPerTurn
  /\ turn' = [turn EXCEPT ![p].writes = @ + 1]
  /\ UNCHANGED <<disk, holder, creating, form, cap, now, peak>>

\* The tool knows the identity of the speaker only.
WriteFile(p, f) ==
  /\ ConsumeQuota(p)
  /\ Permitted(turn[p], f)
  /\ Start(p, [NewCall("enter", f) EXCEPT !.ident = IF f = turn[p].speaker THEN f ELSE None])

WriteState(p, s) ==
  /\ ConsumeQuota(p)
  /\ Start(p, [NewCall("enter", s) EXCEPT !.by = turn[p].speaker])

MayDelete(t, owner) == t.role = "regular" => owner = t.speaker

\* The creator is read before the mutex of the path is taken.
AskDelete(p, s) ==
  /\ ConsumeQuota(p)
  /\ MayDelete(turn[p], CreatedBy(s))
  /\ Start(p, NewCall("remove", s))

-----------------------------------------------------------------------------
(***************************************************************************)
(* The dashboard.                                                          *)
(***************************************************************************)

\* view_kind reads the file and then, without its mutex, the time.
View(w, f) ==
  /\ Start(w, [NewCall("token", f) EXCEPT !.ident = Ident(f), !.over = CreatedBy(f)])
  /\ UNCHANGED <<disk, holder, creating, turn, form, cap, now, peak>>

Token(w) ==
  /\ At(w, "token")
  /\ LET c == call[w] IN
       form' = [form EXCEPT ![w] = Page(c.file, current_mtime(c.file), c.ident, c.over)]
  /\ call' = [call EXCEPT ![w] = None]
  /\ UNCHANGED <<disk, holder, creating, turn, cap, now, calls, peak>>

\* save_kind; the answer replaces the page in the browser.  A field of the
\* frontmatter is left as it is, cleared or filled in.
Save(w, ident, by) ==
  /\ form[w] # None
  /\ ident \in {None, form[w].ident} \cup (IF form[w].file \in Users THEN Users ELSE {})
  /\ by \in {None, form[w].by} \cup (IF form[w].file \in Slugs THEN Users ELSE {})
  /\ Start(w, [NewCall("check", form[w].file) EXCEPT !.token = form[w].token,
                                                     !.ident = ident, !.over = by])
  /\ form' = [form EXCEPT ![w] = None]
  /\ UNCHANGED <<disk, holder, creating, turn, cap, now, peak>>

\* create_state writes without a token, also over a file of that name.
CreateState(w, s) ==
  /\ Start(w, [NewCall("enter", s) EXCEPT !.by = w])
  /\ UNCHANGED <<disk, holder, creating, turn, form, cap, now, peak>>

DeleteState(w, s) ==
  /\ Start(w, NewCall("remove", s))
  /\ UNCHANGED <<disk, holder, creating, turn, form, cap, now, peak>>

\* The browser goes away; the handler is dropped where it awaits.
Drop(w) ==
  /\ call[w] # None
  /\ End(w)
  /\ UNCHANGED <<disk, turn, form, cap, now, calls, peak>>

-----------------------------------------------------------------------------
Restart ==
  /\ call' = [p \in Procs |-> None]
  /\ turn' = [p \in {Turn, Dreamer} |-> None]
  /\ holder' = [f \in Files |-> None] /\ creating' = None
  /\ UNCHANGED <<disk, form, cap, now, calls, peak>>

EditCap(c) ==
  /\ cap' = c
  /\ peak' = IF c > peak THEN c ELSE peak
  /\ UNCHANGED <<disk, holder, creating, call, turn, form, now, calls>>

Tick ==
  /\ now < MaxNow /\ now' = now + 1
  /\ UNCHANGED <<disk, holder, creating, call, turn, form, cap, calls, peak>>

Store(p) ==
  \/ CheckOk(p) \/ Conflict(p) \/ Enter(p) \/ Full(p) \/ CountFiles(p) \/ StateFull(p)
  \/ Commit(p) \/ Remove(p) \/ IoError(p)

Tools(p) ==
  \/ EndTurn(p)
  \/ \E f \in Files \ Slugs : WriteFile(p, f)
  \/ \E s \in Slugs : WriteState(p, s) \/ AskDelete(p, s)

Dashboard(w) ==
  \/ \E f \in Files : View(w, f)
  \/ Token(w) \/ Drop(w)
  \/ \E ident, by \in Names : Save(w, ident, by)
  \/ \E s \in Slugs : CreateState(w, s) \/ DeleteState(w, s)

Next ==
  \/ \E p \in Procs : Store(p)
  \/ \E u \in Users, role \in {"regular", "moderator"} : BeginTurn(Turn, u, role)
  \/ BeginTurn(Dreamer, Dreamer, "dreamer")
  \/ \E p \in {Turn, Dreamer} : Tools(p)
  \/ \E w \in Web : Dashboard(w)
  \/ Restart \/ Tick
  \/ \E c \in CapChoices : EditCap(c)

Spec == Init /\ [][Next]_vars

-----------------------------------------------------------------------------
TypeOK ==
  /\ disk \in [Files -> Contents \cup {None}]
  /\ holder \in [Files -> Procs \cup {None}] /\ creating \in Procs \cup {None}
  /\ call \in [Procs -> CallRecords \cup {None}]
  /\ turn \in [{Turn, Dreamer} -> TurnRecords \cup {None}]
  /\ form \in [Web -> Pages \cup {None}]
  /\ cap \in CapChoices /\ peak \in CapChoices
  /\ now \in Nat /\ calls \in Nat

\* However many tools and dashboard handlers create state files at the same
\* time, there are never more of them than the largest cap there has been.
StateFilesCapped == Cardinality(StateFiles) <= peak

\* The editor never overwrites what was changed after it was opened, except in the gap that
\* write_with_guard documents: a save replaces a content of the time that the page was
\* opened with, or one that appeared after its check.  And no write loses the identity in a
\* user file or changes the creator of a state file to anything but what a dashboard user
\* has put into the form: what is preserved was read under the mutex of the write.
NoSilentLoss ==
  [][disk' # disk =>
       /\ \A w \in Web :
            (At(w, "commit") /\ call[w].token # None /\ call'[w] = None)
            => current_mtime(call[w].file) = call[w].token \/ ~call[w].intact
       /\ \A u \in Users : Ident(u) # None => Ident(u)' # None
       /\ \A s \in Slugs :
            (CreatedBy(s) # None /\ disk'[s] # None /\ CreatedBy(s)' # CreatedBy(s))
              => CreatedBy(s)' # None
                 /\ \E w \in Web : call[w] # None /\ call[w].over = CreatedBy(s)']_vars

\* A step that does not wait, or waits for a mutex nobody holds.
CanMove(p) ==
  CASE At(p, "token") \/ At(p, "commit") -> TRUE
    [] At(p, "create") -> creating = None
    [] OTHER -> holder[call[p].file] = None

\* The mutexes of the paths and the lock on creations never wait for each other:
\* of the calls in progress, at least one can go on.
NobodyIsStuck == (\E p \in Procs : call[p] # None) => \E p \in Procs : call[p] # None /\ CanMove(p)

=============================================================================
