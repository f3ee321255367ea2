------------------------------ MODULE MCTimers ------------------------------
(***************************************************************************)
(* What runs by the clock, and the start and the end of the process.       *)
(* The engine of the schedules (one schedule with two contents that share  *)
(* every second slot; the last slot lies before the end of time, so that   *)
(* tasks also run past their end date), the triggers in half hours around  *)
(* a change of the clock, the process, the 1337 game (two players over two *)
(* days) and the latency monitor.  They share nothing here; the initial    *)
(* state picks the one that moves.                                         *)
(***************************************************************************)
EXTENDS ScheduleRunner, ScheduleTrigger, BotLifecycle, Tracker1337, LatencyMonitor, TLC

CONSTANTS a, b, alice, bob

VARIABLE moving

MCContents == {a, b}
MCSlots == (a :> {1, 2, 3} @@ b :> {2, 4})
TwoPlayers == {alice, bob}

\* On day 1 the clock is put forward at 2:00, or back at 3:00, or neither.
MCZones ==
  {[change |-> 0, shift |-> 0], [change |-> 24 * 2 + 2 * 2, shift |-> 2],
   [change |-> 24 * 2 + 3 * 2, shift |-> -2]}

Interval(every, days, window) ==
  [kind |-> "interval", every |-> every, days |-> days, window |-> window,
   start |-> Nil, end |-> Nil]
Calendar(at, days) ==
  [kind |-> "calendar", at |-> at, days |-> days, start |-> Nil, end |-> Nil]
Dated(s, start, end) == [s EXCEPT !.start = start, !.end = end]

\* Half-hourly, hourly, every six hours; windows, one over midnight and one
\* without a slot; one weekday; a time in the gap and in the fold; the dates.
MCSchedules ==
  {Interval(1, {}, <<5, 7>>), Interval(2, {}, Nil), Interval(12, {}, Nil),
   Interval(2, {}, <<44, 4>>), Interval(12, {}, <<1, 11>>), Interval(2, {0}, <<16, 20>>),
   Calendar(5, {}), Calendar(0, {0, 2}), Calendar(47, {1}),
   Dated(Interval(12, {}, Nil), 2, 2), Dated(Interval(1, {}, Nil), 1, 1),
   Dated(Calendar(0, {}), 1, Nil), Dated(Calendar(5, {}), Nil, 1)}

\* There is no schedule yet.  The parts that do not move rest in one initial state of theirs.
MCInit ==
  /\ moving \in {"runner", "trigger", "process", "game", "latency"}
  /\ Init /\ settings = [n \in Names |-> None]
  /\ TriggerInit
  /\ moving # "trigger" => schedule = Interval(2, {}, Nil) /\ zone = [change |-> 0, shift |-> 0]
  /\ LifecycleInit
  /\ GameInit /\ (moving # "game" => clock = LastInstant /\ latency = 0)
  /\ LatencyInit

\* The others of the five components stand still.
MCNext ==
  /\ \/ moving = "runner" /\ Next
        /\ UNCHANGED <<triggerVars, lifecycleVars, gameVars, latencyVars>>
     \/ moving = "trigger" /\ TriggerNext
        /\ UNCHANGED <<vars, lifecycleVars, gameVars, latencyVars>>
     \/ moving = "process" /\ LifecycleNext
        /\ UNCHANGED <<vars, triggerVars, gameVars, latencyVars>>
     \/ moving = "game" /\ GameNext
        /\ UNCHANGED <<vars, triggerVars, lifecycleVars, latencyVars>>
     \/ moving = "latency" /\ LatencyNext
        /\ UNCHANGED <<vars, triggerVars, lifecycleVars, gameVars>>
  /\ UNCHANGED moving

\* The fairness of LifecycleSpec and of the game, while each is the one that moves.
MCSpec ==
  /\ MCInit /\ [][MCNext]_<<vars, triggerVars, lifecycleVars, gameVars, latencyVars, moving>>
  /\ WF_lifecycleVars(moving = "process" /\ (spawn_handlers \/ announce_startup))
  /\ WF_lifecycleVars(moving = "process" /\ LifecycleEnd)
  /\ WF_gameVars(moving = "game" /\ Handler)
  /\ WF_gameVars(moving = "game" /\ GameTick)

=============================================================================
