------------------------------ MODULE MCStores ------------------------------
(***************************************************************************)
(* What the bot writes down besides settings, flights and scores: the      *)
(* memory files of the AI (one chat turn, one ritual, one browser), the    *)
(* transcript, and the telemetry of the schedules (two tasks and the flush *)
(* of the shutdown).  They share nothing here; the initial state picks the *)
(* one that moves.                                                         *)
(***************************************************************************)
EXTENDS MemoryStore, TranscriptRitual, ScheduleTelemetry

CONSTANTS u1, browser,
          s1, s2   \* two of each: state files; schedules, each with its task

VARIABLE moving

TwoOfEach == {s1, s2}
Symmetric == Permutations(TwoOfEach)

MCInit ==
  /\ moving \in {"memory", "transcript", "telemetry"}
  /\ Init /\ (moving # "memory" => StateFiles = {} /\ cap = 1 /\ peak = 1)
  /\ RitualInit /\ (moving # "transcript" => dreamer = [enabled |-> TRUE, run_at |-> 1])
  /\ TelemetryInit

MCNext ==
  /\ \/ moving = "memory" /\ Next /\ UNCHANGED <<ritualVars, telemetryVars>>
     \/ moving = "transcript" /\ RitualNext /\ UNCHANGED <<vars, telemetryVars>>
     \/ moving = "telemetry" /\ TelemetryNext /\ UNCHANGED <<vars, ritualVars>>
  /\ UNCHANGED moving

MCSpec == MCInit /\ [][MCNext]_<<vars, ritualVars, telemetryVars, moving>>

=============================================================================
