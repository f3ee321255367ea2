--------------------------- MODULE TranscriptRitual ---------------------------
(***************************************************************************)
(* The transcript of the main channel (ai/memory/transcript.rs), the tap   *)
(* that writes it (twitch/handlers/transcript.rs) and the nightly ritual   *)
(* that archives it and lets the dreamer read it (ai/memory/ritual.rs).    *)
(*                                                                         *)
(* The wall clock is a number of slots, SlotsPerDay of them to a day; a    *)
(* sleep of the ritual is measured on the monotonic clock, which does not  *)
(* follow when the wall clock is set back.                                 *)
(***************************************************************************)
EXTENDS Integers, Sequences, FiniteSets, Functions, TLC

CONSTANTS
  SlotsPerDay,
  RunAts,        \* the times of the day the dashboard may set
  LastSlot,      \* bound: the end of time
  MaxLines,      \* bound: lines said
  MaxEdits,      \* bound: changes of the settings
  MaxSetBacks    \* bound: corrections of the clock

ASSUME RitualAssumption ==
  /\ SlotsPerDay \in Nat \ {0}
  /\ RunAts \subseteq 0..(SlotsPerDay - 1)
  /\ LastSlot \in Nat /\ MaxSetBacks \in Nat

\* A run that was due late and slept through clocks set back is the last.
Dates == -1..((LastSlot + MaxSetBacks) \div SlotsPerDay)
Today == -2      \* the file that is not of a date
Absent == << -1 >>  \* no such file
Closed == -3     \* no handle: the bot is down

VARIABLES
  wall,       \* the wall clock
  dreamer,    \* settings: [enabled, run_at]
  files,      \* what the files hold: Today or a date -> lines, Absent if none
  handle,     \* the file the writer's handle is open on, or Closed
  ritual,     \* the ritual task: [at, ...]
  said,       \* history: how many lines were appended
  rotations,  \* history: how often a date was archived
  edits, setBacks, moved  \* bounds; whether run_at or the clock was moved

ritualVars == <<wall, dreamer, files, handle, ritual, said, rotations, edits, setBacks, moved>>

DateOf(slot) == slot \div SlotsPerDay
Deciding == [at |-> "deciding"]

RitualInit ==
  /\ wall = 0
  /\ dreamer \in [enabled: BOOLEAN, run_at: RunAts]
  /\ files = [f \in Dates \union {Today} |-> Absent]
  /\ handle = Closed
  /\ ritual = Deciding
  /\ said = 0 /\ rotations = [d \in Dates |-> 0]
  /\ edits = 0 /\ setBacks = 0 /\ moved = FALSE

Up == handle # Closed
Locked == ritual.at = "renamed"

-----------------------------------------------------------------------------
(* The writer *)

\* The bot starts: today.md is created, or appended to.
open_transcript ==
  /\ ~Up
  /\ handle' = Today
  /\ files' = IF files[Today] = Absent THEN [files EXCEPT ![Today] = << >>] ELSE files
  /\ ritual' = Deciding
  /\ UNCHANGED <<wall, dreamer, said, rotations, edits, setBacks, moved>>

\* A line of chat or of the bot.  The writer's mutex is held through a
\* rotation; the handle follows its file when that is renamed.
append_line ==
  /\ Up /\ ~Locked /\ said < MaxLines
  /\ said' = said + 1
  /\ files' = [files EXCEPT ![handle] = Append(@, said')]
  /\ UNCHANGED <<wall, dreamer, handle, ritual, rotations, edits, setBacks, moved>>

-----------------------------------------------------------------------------
(* The ritual *)

\* Mutant: a run that is due now is not in the past yet.
target_now(now, run_at) ==
  LET target == DateOf(now) * SlotsPerDay + run_at IN
  IF target >= now THEN target ELSE target + SlotsPerDay

\* The next run: today when it is still to come, else tomorrow.
next_run(now, run_at) ==
  LET target == DateOf(now) * SlotsPerDay + run_at IN
  IF target > now THEN target ELSE target + SlotsPerDay

\* The settings are read once per loop; with the dreamer off they are read
\* again in five minutes.
Decide ==
  /\ Up /\ ritual = Deciding
  /\ ritual' = IF dreamer.enabled
                  THEN LET next == next_run(wall, dreamer.run_at) IN
                       [at |-> "sleeping", next |-> next, left |-> next - wall]
                  ELSE [at |-> "off", left |-> 1]
  /\ UNCHANGED <<wall, dreamer, files, handle, said, rotations, edits, setBacks, moved>>

\* Awake: the archive is that of the day before the run was due.
Archive == DateOf(ritual.next) - 1

\* rotate_to: the rename replaces an archive of that date; it fails when
\* there is no today.md, and the ritual waits for the next day.
rotate_to ==
  /\ Up /\ ritual.at = "sleeping" /\ ritual.left = 0
  /\ IF files[Today] = Absent
        THEN /\ ritual' = Deciding
             /\ UNCHANGED <<files, handle, rotations>>
        ELSE /\ files' = [files EXCEPT ![Archive] = files[Today], ![Today] = Absent]
             /\ handle' = IF handle = Today THEN Archive ELSE handle
             /\ rotations' = [rotations EXCEPT ![Archive] = @ + 1]
             /\ ritual' = [ritual EXCEPT !.at = "renamed"]
  /\ UNCHANGED <<wall, dreamer, said, edits, setBacks, moved>>

\* today.md is opened again; if that fails the old handle stays, the lines go
\* on into the archive and the ritual of this day is given up.
reopen(ok) ==
  /\ Up /\ ritual.at = "renamed"
  /\ IF ok THEN /\ files' = [files EXCEPT ![Today] = << >>]
                /\ handle' = Today
                /\ ritual' = [at |-> "dreaming"]
           ELSE /\ UNCHANGED <<files, handle>>
                /\ ritual' = Deciding
  /\ UNCHANGED <<wall, dreamer, said, rotations, edits, setBacks, moved>>

\* The dreamer's turn, whatever becomes of it; its tools are in MemoryStore.
run_ritual ==
  /\ Up /\ ritual.at = "dreaming"
  /\ ritual' = Deciding
  /\ UNCHANGED <<wall, dreamer, files, handle, said, rotations, edits, setBacks, moved>>

-----------------------------------------------------------------------------
(* Time, the dashboard, the end of the process *)

\* A slot passes; a sleeper is woken before the next one does.
Elapse ==
  /\ wall < LastSlot
  /\ Up => ritual.at \in {"sleeping", "off", "dreaming"}
  /\ ritual.at \in {"sleeping", "off"} => ritual.left > 0
  /\ wall' = wall + 1
  /\ ritual' = CASE ritual.at = "sleeping" -> [ritual EXCEPT !.left = @ - 1]
                 [] ritual.at = "off" -> Deciding
                 [] OTHER -> ritual
  /\ UNCHANGED <<dreamer, files, handle, said, rotations, edits, setBacks, moved>>

\* The sleep in progress does not shorten or lengthen with the clock.
SetBack ==
  /\ wall > 0 /\ setBacks < MaxSetBacks
  /\ wall' = wall - 1 /\ setBacks' = setBacks + 1 /\ moved' = TRUE
  /\ UNCHANGED <<dreamer, files, handle, ritual, said, rotations, edits>>

Edit(setting) ==
  /\ edits < MaxEdits /\ setting # dreamer
  /\ dreamer' = setting /\ edits' = edits + 1
  /\ moved' = (moved \/ setting.run_at # dreamer.run_at)
  /\ UNCHANGED <<wall, files, handle, ritual, said, rotations, setBacks>>

Stop ==
  /\ Up /\ handle' = Closed /\ ritual' = Deciding
  /\ UNCHANGED <<wall, dreamer, files, said, rotations, edits, setBacks, moved>>

RitualNext ==
  \/ open_transcript \/ append_line \/ Stop
  \/ Decide \/ rotate_to \/ run_ritual
  \/ \E ok \in BOOLEAN: reopen(ok)
  \/ Elapse \/ SetBack
  \/ \E setting \in [enabled: BOOLEAN, run_at: RunAts]: Edit(setting)

RitualSpec == RitualInit /\ [][RitualNext]_ritualVars

-----------------------------------------------------------------------------
(* Properties *)

LinesOf(f) == IF files[f] = Absent THEN {} ELSE Range(files[f])

(* A line that was appended is in one file, in the order of the chat, over *)
(* rotations, failed ones, crashes in the middle of one and restarts.      *)
(* Only an archive made twice for one date loses lines, and that takes an  *)
(* edit of run_at or a clock set back: the ritual has one run on a date.   *)
LinesKept ==
  /\ \A f, g \in DOMAIN files : f # g => LinesOf(f) \intersect LinesOf(g) = {}
  /\ \A f \in DOMAIN files : files[f] # Absent =>
       \A i, j \in DOMAIN files[f] : i < j => files[f][i] < files[f][j]
  /\ (\A d \in Dates : rotations[d] <= 1) => UNION {LinesOf(f) : f \in DOMAIN files} = 1..said
  /\ ~moved => \A d \in Dates : rotations[d] <= 1

=============================================================================
