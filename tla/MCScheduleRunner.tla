-------------------------- MODULE MCScheduleRunner --------------------------
(***************************************************************************)
(* Two contents that share every second slot; the last slot lies before    *)
(* the end of time, so that tasks also run past their end date.            *)
(***************************************************************************)
EXTENDS ScheduleRunner, TLC

CONSTANTS a, b

MCContents == {a, b}
MCSlots == (a :> {1, 2, 3} @@ b :> {2, 4})

=============================================================================
