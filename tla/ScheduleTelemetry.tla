------------------------- MODULE ScheduleTelemetry -------------------------
(***************************************************************************)
(* The runtime telemetry of the schedules (schedule/telemetry.rs): every   *)
(* schedule task calls record_fire after a post, and the orchestrator      *)
(* calls flush at shutdown.  Both take a snapshot of the map under the     *)
(* mutex and save it with the mutex released, so that several saves of     *)
(* the same file may be under way at once.                                 *)
(*                                                                         *)
(* A ScheduleRuntime keeps its fires_today and its day_anchor; the instant *)
(* last_fired_at is written together with them and left out.               *)
(***************************************************************************)
EXTENDS Integers, FiniteSets, Functions

CONSTANTS
  ScheduleNames,       \* schedules
  Tasks,       \* tasks that may be inside record_fire
  NoRuntime, Empty, Mixed,  \* see AtomicFile
  MaxFires,    \* bound on the calls of record_fire
  MaxDay,      \* bound on the calendar
  MaxRestarts,   \* bound on the restarts of the process
  SavesMayFail \* the disk may refuse a write

flusher == "flush"
Actors == Tasks \cup {flusher}

Runtime == [fires : Nat, day : 0 .. MaxDay]
Maps == [ScheduleNames -> Runtime \cup {NoRuntime}]

ASSUME TelemetryAssumption ==
  /\ {NoRuntime, Empty, Mixed} \cap Maps = {}
  /\ NoRuntime \notin Runtime /\ NoRuntime \notin Nat /\ NoRuntime \notin {Empty, Mixed}
  /\ IsFiniteSet(Tasks)
  /\ MaxFires \in Nat /\ MaxDay \in Nat /\ MaxRestarts \in Nat /\ SavesMayFail \in BOOLEAN

Inodes == 1 .. Cardinality(Actors) + 2

Disk == INSTANCE AtomicFile WITH Values <- Maps, None <- NoRuntime

VARIABLES
  map,        \* TelemetryState.map
  dirty,      \* TelemetryState.dirty
  elapsed,    \* last_flush.elapsed() >= FLUSH_INTERVAL
  saving,     \* per actor where its call is, the snapshot and the open file
  fs,         \* schedule_runtime.ron and its sibling
  today,      \* the day in Berlin
  flushed,    \* the orchestrator has called flush
  posted,     \* history: per name and day the calls of record_fire
  restarts,   \* history: restarts so far
  overlap,    \* history: a call came while another one was saving
  held        \* history: the maps the store has held

telemetryVars == <<map, dirty, elapsed, saving, fs, today, flushed, posted, restarts, overlap,
                   held>>

EmptyMap == [n \in ScheduleNames |-> NoRuntime]
Idle == [st |-> "idle", snap |-> NoRuntime, ino |-> NoRuntime]

\* Some call is past its snapshot.
Busy == \E x \in Actors : saving[x].st # "idle"

\* open: an unparseable or missing file is an empty map.
open(content) == IF content \in Maps THEN content ELSE EmptyMap

TelemetryInit ==
  /\ fs = Disk!FileWith(NoRuntime)
  /\ map = open(Disk!Content(fs))
  /\ dirty = FALSE /\ elapsed = FALSE
  /\ saving = [x \in Actors |-> Idle]
  /\ today = 0 /\ flushed = FALSE
  /\ posted = [n \in ScheduleNames |-> [d \in 0 .. MaxDay |-> 0]]
  /\ restarts = 0 /\ overlap = FALSE
  /\ held = {map}

-----------------------------------------------------------------------------
\* Mutant: the counter is not reset on a new day.
FiredNoRollover(e) == IF e = NoRuntime THEN [fires |-> 1, day |-> today]
                      ELSE [fires |-> e.fires + 1, day |-> today]

\* maybe_rollover and the increment.
Fired(e) == IF e # NoRuntime /\ e.day = today THEN [e EXCEPT !.fires = @ + 1]
            ELSE [fires |-> 1, day |-> today]

\* The call takes snapshot m and goes on to save it.
StartSave(x, m) ==
  saving' = [saving EXCEPT ![x] = [st |-> "open", snap |-> m, ino |-> NoRuntime]]

Total(f) == FoldFunction(+, 0, f)
Calls == Total([n \in ScheduleNames |-> Total(posted[n])])

\* record_fire up to the end of its first critical section.
record_fire(x, n) ==
  /\ Calls < MaxFires
  /\ x \in Tasks /\ saving[x].st = "idle"
  /\ map' = [map EXCEPT ![n] = Fired(@)]
  /\ held' = held \cup {map'}
  /\ dirty' = TRUE
  /\ posted' = [posted EXCEPT ![n][today] = @ + 1]
  /\ IF elapsed THEN StartSave(x, map') ELSE UNCHANGED saving
  /\ overlap' = (overlap \/ Busy)
  /\ UNCHANGED <<elapsed, fs, today, flushed, restarts>>

\* flush up to the end of its first critical section.
flush ==
  /\ ~flushed
  /\ flushed' = TRUE
  /\ IF dirty THEN StartSave(flusher, map) ELSE UNCHANGED saving
  /\ overlap' = (overlap \/ Busy)
  /\ UNCHANGED <<map, dirty, elapsed, fs, today, posted, restarts, held>>

SaveUnchanged == UNCHANGED <<map, today, flushed, posted, restarts, overlap, held>>

SaveOpen(x) ==
  /\ saving[x].st = "open"
  /\ LET held_by_others == {saving[y].ino : y \in Actors \ {x}} IN
     /\ saving' = [saving EXCEPT ![x].st = "fill", ![x].ino = Disk!Opened(fs, held_by_others)]
     /\ fs' = Disk!OpenTmp(fs, held_by_others)
  /\ SaveUnchanged /\ UNCHANGED <<dirty, elapsed>>

SaveFill(x) ==
  /\ saving[x].st = "fill"
  /\ saving' = [saving EXCEPT ![x].st = "rename", ![x].ino = NoRuntime]
  /\ fs' \in Disk!FillOutcomes(fs, saving[x].ino, saving[x].snap)
  /\ SaveUnchanged /\ UNCHANGED <<dirty, elapsed>>

SaveRename(x) ==
  /\ saving[x].st = "rename"
  /\ IF Disk!RenameFails(fs) THEN saving' = [saving EXCEPT ![x] = Idle] /\ UNCHANGED fs
     ELSE saving' = [saving EXCEPT ![x].st = "saved"] /\ fs' = Disk!Renamed(fs)
  /\ SaveUnchanged /\ UNCHANGED <<dirty, elapsed>>

\* A write is refused; the call ends with a warning and leaves dirty alone.
SaveFails(x) ==
  /\ SavesMayFail /\ saving[x].st \in {"open", "fill"}
  /\ saving' = [saving EXCEPT ![x] = Idle]
  /\ SaveUnchanged /\ UNCHANGED <<dirty, elapsed, fs>>

\* The second critical section of record_fire and of flush.
SaveDone(x) ==
  /\ saving[x].st = "saved"
  /\ saving' = [saving EXCEPT ![x] = Idle]
  /\ dirty' = FALSE /\ elapsed' = FALSE
  /\ SaveUnchanged /\ UNCHANGED fs

FlushDue ==
  /\ ~elapsed
  /\ elapsed' = TRUE
  /\ UNCHANGED <<map, dirty, saving, fs, today, flushed, posted, restarts, overlap, held>>

Midnight ==
  /\ today < MaxDay
  /\ today' = today + 1
  /\ UNCHANGED <<map, dirty, elapsed, saving, fs, flushed, posted, restarts, overlap, held>>

\* The process dies, after a shutdown or at any other moment, and starts again.
TelemetryRestart ==
  /\ restarts < MaxRestarts
  /\ restarts' = restarts + 1
  /\ map' = open(Disk!Content(fs))
  /\ held' = held \cup {map'}
  /\ dirty' = FALSE /\ elapsed' = FALSE
  /\ saving' = [x \in Actors |-> Idle]
  /\ flushed' = FALSE
  /\ UNCHANGED <<fs, today, posted, overlap>>

SaveStep(x) == SaveOpen(x) \/ SaveFill(x) \/ SaveRename(x) \/ SaveFails(x) \/ SaveDone(x)

TelemetryNext ==
  \/ \E x \in Tasks, n \in ScheduleNames : record_fire(x, n)
  \/ flush
  \/ \E x \in Actors : SaveStep(x)
  \/ FlushDue \/ Midnight \/ TelemetryRestart

TelemetrySpec == TelemetryInit /\ [][TelemetryNext]_telemetryVars

-----------------------------------------------------------------------------
(***************************************************************************)
(* Properties.                                                             *)
(***************************************************************************)
\* Every variable stays in its set.
TelemetryTypeOK ==
  /\ map \in Maps
  /\ dirty \in BOOLEAN /\ elapsed \in BOOLEAN
  /\ \A x \in Actors :
       /\ saving[x].st \in {"idle", "open", "fill", "rename", "saved"}
       /\ saving[x].snap \in Maps \cup {NoRuntime}
       /\ saving[x].ino \in Inodes \cup {NoRuntime}
  /\ fs \in Disk!FileSystem
  /\ today \in 0 .. MaxDay /\ flushed \in BOOLEAN
  /\ restarts \in 0 .. MaxRestarts /\ overlap \in BOOLEAN
  /\ held \subseteq Maps

\* The counter of a schedule never exceeds its posts of the anchored day, over
\* midnights, saves and restarts, and is exact until the first restart.
CountsOfTheDay ==
  \A n \in ScheduleNames : map[n] # NoRuntime =>
    /\ map[n].fires <= posted[n][map[n].day]
    /\ restarts = 0 => map[n].fires = posted[n][map[n].day]

\* A restart at any moment finds a map that the store has held, never a truncated or mixed text.
FileIsASnapshot == Disk!Content(fs) \in held \cup {NoRuntime}

\* A map that is not dirty is on disk: record_fire and flush clear the flag only for what they
\* have written.
CleanMeansSaved == ~dirty => open(Disk!Content(fs)) = map

\* The counts are those of the posts; and as long as no call came during a save of another,
\* through failing saves, midnights and restarts, the file is a snapshot of them and the
\* dirty flag says whether it is the newest.
FileFollowsMap == CountsOfTheDay /\ (~overlap => FileIsASnapshot /\ CleanMeansSaved)

\* persist.rs:3 promises that "concurrent readers see either the old or the new
\* file but never a torn write".
NeverTorn == Disk!Content(fs) \notin {Empty, Mixed}

=============================================================================
