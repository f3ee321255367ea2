-------------------------- MODULE MCScheduleForms --------------------------
(***************************************************************************)
(* Two schedules, two browsers, two submissions.                         *)
(***************************************************************************)
EXTENDS ScheduleForms

CONSTANTS a, b, c, x, y

TwoRows == <<Row(a, x, TRUE), Row(b, y, TRUE)>>

=============================================================================
