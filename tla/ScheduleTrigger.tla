--------------------------- MODULE ScheduleTrigger ---------------------------
(***************************************************************************)
(* When a schedule fires (schedule/trigger.rs, weekday.rs, schedule.rs)    *)
(* and the task that asks for it again and again                           *)
(* (twitch/handlers/schedule_runner.rs), over the days around a change of  *)
(* the clock in Berlin.  ScheduleRunner takes from here that a content has *)
(* fixed slots, and that the next one is the first after now.              *)
(*                                                                         *)
(* Instants and wall-clock times are counted in units, Hour of them to the *)
(* hour, from the midnight that begins day 0.                              *)
(***************************************************************************)
EXTENDS Integers, FiniteSetsExt

CONSTANTS
  Hour,
  Schedules,    \* Schedule records, see below
  Zones,        \* [change, shift]: from that instant on the clock is put forward
  Nil,
  MaxScan,      \* slots an interval trigger looks at before it gives up
  LastTick   \* bound

DayLong == 24 * Hour

\* A schedule is [kind |-> "interval", every, days, window, start, end] or
\* [kind |-> "calendar", at, days, start, end]; window is <<from, to>> or Nil,
\* the dates are days or Nil, an empty set of weekdays stands for all of them.
ASSUME TriggerAssumption ==
  /\ Hour \in Nat \ {0} /\ MaxScan \in Nat /\ LastTick \in Nat
  /\ \A s \in Schedules : s.kind = "interval" => s.every \in Nat \ {0}
  /\ \A z \in Zones : z.shift \in {0, Hour, -Hour}

VARIABLES
  schedule,   \* what the task was spawned with
  zone,       \* the change of the clock in these days
  instant,    \* now
  task        \* planning, sleeping until `at`, or gone

triggerVars == <<schedule, zone, instant, task>>

Planning == [st |-> "plan"]

TriggerInit ==
  /\ schedule \in Schedules /\ zone \in Zones
  /\ instant = 0 /\ task = Planning

-----------------------------------------------------------------------------
(* The clock in Berlin *)

Local(i) == IF i < zone.change THEN i ELSE i + zone.shift
DateOf(i) == Local(i) \div DayLong
TimeOf(i) == Local(i) % DayLong

\* from_local_datetime: none in the gap, two in the fold.
AtLocal(l) == {i \in {l, l - zone.shift} : Local(i) = l}

\* The first of two, and past the gap by an hour.
from_local(l) == IF AtLocal(l) # {} THEN Min(AtLocal(l)) ELSE Min(AtLocal(l + Hour))

day_start_berlin(date) == from_local(date * DayLong)

-----------------------------------------------------------------------------
(* The trigger *)

allows(days, date) == days = {} \/ date % 7 \in days

\* A window that ends before it begins goes over midnight.
in_window(t, window) ==
  \/ window = Nil
  \/ LET from == window[1]
         to == window[2]
     IN IF to < from THEN t >= from \/ t < to ELSE t >= from /\ t < to

\* The slots are counted from the midnight before now, past the next one too;
\* the last that is looked at is taken whatever it is.
next_interval(now, s) ==
  LET day_start == day_start_berlin(DateOf(now))
      first == (now - day_start) \div s.every + 1
      candidate(k) == day_start + (first + k) * s.every
      hits == {k \in 0..(MaxScan - 1) : /\ in_window(TimeOf(candidate(k)), s.window)
                                        /\ allows(s.days, DateOf(candidate(k)))}
  IN candidate(IF hits = {} THEN MaxScan ELSE Min(hits))

\* One of the next eight days is always allowed and not over yet.
next_calendar(now, s) ==
  LET candidate(offset) == from_local((DateOf(now) + offset) * DayLong + s.at)
  IN candidate(Min({offset \in 0..7 : /\ allows(s.days, DateOf(now) + offset)
                                      /\ candidate(offset) > now}))

next_fire_after(now, s) ==
  IF s.kind = "interval" THEN next_interval(now, s) ELSE next_calendar(now, s)

\* Nil past the end date, which is counted in.
UntilEnd(next, s) ==
  IF s.end # Nil /\ next >= day_start_berlin(s.end + 1) THEN Nil ELSE next

\* Mutant: the midnight that begins the start date is not asked for.
next_after_midnight(now, s) ==
  LET start == IF s.start = Nil THEN now ELSE day_start_berlin(s.start)
  IN UntilEnd(next_fire_after(IF now < start THEN start ELSE now, s), s)

\* A start date to come is looked at from the unit before it.
next_active_fire(now, s) ==
  LET start == IF s.start = Nil THEN now ELSE day_start_berlin(s.start)
  IN UntilEnd(next_fire_after(IF now < start THEN start - 1 ELSE now, s), s)

-----------------------------------------------------------------------------
(* The task *)

\* At the start, after a post, and when an edit or a restart spawns it again.
PlanFire ==
  /\ task = Planning
  /\ LET at == next_active_fire(instant, schedule)
     IN task' = IF at = Nil THEN [st |-> "gone"] ELSE [st |-> "sleep", at |-> at]
  /\ UNCHANGED <<schedule, zone, instant>>

Post ==
  /\ task.st = "sleep" /\ instant >= task.at
  /\ task' = Planning
  /\ UNCHANGED <<schedule, zone, instant>>

Respawn ==
  /\ task.st = "sleep" /\ instant < task.at
  /\ task' = Planning
  /\ UNCHANGED <<schedule, zone, instant>>

\* Time passes while the task sleeps, or is late, or the bot is down.
TriggerTick ==
  /\ instant < LastTick /\ instant' = instant + 1
  /\ task.st = "sleep" => instant < task.at
  /\ UNCHANGED <<schedule, zone, task>>

TriggerNext == PlanFire \/ Post \/ Respawn \/ TriggerTick

TriggerSpec == TriggerInit /\ [][TriggerNext]_triggerVars

-----------------------------------------------------------------------------
(* Properties *)

\* An interval that divides the day, and the hour if the clock changes.
OnGrid(s) == IF zone.shift = 0 THEN DayLong % s.every = 0 ELSE Hour % s.every = 0

\* What the comments of trigger.rs say, without looking for it: the wall-clock
\* multiples of `every`; of every date the time `at` as the clock shows it for
\* the first time, or as it would if it had not been put forward.
IsSlot(i, s) ==
  /\ s.start # Nil => DateOf(i) >= s.start
  /\ s.end # Nil => DateOf(i) <= s.end
  /\ allows(s.days, DateOf(i))
  /\ IF s.kind = "interval"
     THEN TimeOf(i) % s.every = 0 /\ in_window(TimeOf(i), s.window)
     ELSE LET l == DateOf(i) * DayLong + s.at
          IN i = IF l < zone.change + (IF zone.shift > 0 THEN zone.shift ELSE 0)
                 THEN l ELSE l - zone.shift

\* How far the reference looks: eight days, the week from the last instant on.
Horizon == 8 * DayLong

(* Whenever the task asks - on time, late, after a restart, at a boundary  *)
(* of its days, its window or its dates, in a gap or a fold of the clock - *)
(* it gets the first slot after now, so that none is skipped and none is   *)
(* posted twice.  An interval that does not divide the day leaves the      *)
(* multiples after the first midnight; nothing is said of it.              *)
NoSlotSkipped ==
  [][(task = Planning /\ task' # Planning
        /\ (schedule.kind = "interval" => OnGrid(schedule)))
     => LET slots == {i \in (instant + 1)..Horizon : IsSlot(i, schedule)}
        IN IF slots = {} THEN task'.st = "gone" \/ task'.at > Horizon
           ELSE task'.st = "sleep" /\ task'.at = Min(slots)]_triggerVars

=============================================================================
