--------------------------- MODULE FlightSchedule ---------------------------
(***************************************************************************)
(* When a tracked flight is polled next (aviation/tracker/schedule.rs).    *)
(* A flight ADS-B never showed follows a pending schedule: around its      *)
(* departure when that is known, counted from !track when it is not.  A    *)
(* live flight is polled at the pace of its phase.                         *)
(***************************************************************************)
EXTENDS FlightAdvance

CONSTANTS
  POLL_FAST, POLL_NORMAL, POLL_SLOW,    \* pace of a live flight
  POLL_60_SEC, POLL_2_MIN, POLL_5_MIN,  \* pace of a pending flight
  POLL_10_MIN, POLL_15_MIN, POLL_30_MIN,
  WAKE_BEFORE, LOCK_IN_BEFORE, HUNT_BEFORE,             \* stages before and
  NEAR_AFTER, MID_AFTER, SCHEDULED_EXPIRE_AFTER,        \* after the departure
  FAST_AFTER_TRACK, NORMAL_AFTER_TRACK, UNKNOWN_EXPIRE_AFTER

Paces == {POLL_FAST, POLL_NORMAL, POLL_SLOW, POLL_60_SEC, POLL_2_MIN, POLL_5_MIN,
          POLL_10_MIN, POLL_15_MIN, POLL_30_MIN}

ASSUME ScheduleAssumption ==
  /\ Paces \subseteq Nat \ {0}
  /\ {WAKE_BEFORE, LOCK_IN_BEFORE, HUNT_BEFORE, NEAR_AFTER, MID_AFTER,
      SCHEDULED_EXPIRE_AFTER, FAST_AFTER_TRACK, NORMAL_AFTER_TRACK,
      UNKNOWN_EXPIRE_AFTER} \subseteq Nat \ {0}
  /\ HUNT_BEFORE < LOCK_IN_BEFORE /\ LOCK_IN_BEFORE < WAKE_BEFORE
  /\ NEAR_AFTER < MID_AFTER /\ MID_AFTER < SCHEDULED_EXPIRE_AFTER
  /\ FAST_AFTER_TRACK < NORMAL_AFTER_TRACK /\ NORMAL_AFTER_TRACK < UNKNOWN_EXPIRE_AFTER
  /\ POLL_FAST <= POLL_SLOW /\ POLL_NORMAL <= POLL_SLOW
  /\ POLL_60_SEC <= POLL_2_MIN /\ POLL_2_MIN <= POLL_5_MIN /\ POLL_5_MIN <= POLL_15_MIN
  /\ POLL_2_MIN <= POLL_10_MIN /\ POLL_10_MIN <= POLL_30_MIN

Earlier(a, b) == IF a <= b THEN a ELSE b
Later(a, b) == IF a >= b THEN a ELSE b

live_poll_interval(f) ==
  IF f.polls < 5 \/ f.phase \in {"Takeoff", "Approach", "Landing"} THEN POLL_FAST
  ELSE IF f.phase \in {"Climb", "Descent"} THEN POLL_NORMAL
  ELSE POLL_SLOW

Expired == [kind |-> "Expired"]

Active(interval, starts_at, refresh_at, expires_at) ==
  [kind |-> "Active", interval |-> interval, starts_at |-> starts_at,
   refresh_at |-> refresh_at, expires_at |-> expires_at]

pending_unknown_poll_schedule(f, now) ==
  LET expires_at == f.tracked_at + UNKNOWN_EXPIRE_AFTER
      age == now - f.tracked_at
      interval == IF age < FAST_AFTER_TRACK THEN POLL_2_MIN
                  ELSE IF age < NORMAL_AFTER_TRACK THEN POLL_10_MIN
                  ELSE POLL_30_MIN
  IN IF now >= expires_at THEN Expired
     ELSE Active(interval, f.tracked_at, None, expires_at)

\* The stages around a known departure d; each names the moment the next one
\* begins, where the pace may get faster.
ScheduledStage(d, now, expires_at) ==
  CASE now < d - WAKE_BEFORE ->
         Active(POLL_15_MIN, d - WAKE_BEFORE, d - WAKE_BEFORE, expires_at)
    [] now \in (d - WAKE_BEFORE)..(d - LOCK_IN_BEFORE - 1) ->
         Active(POLL_15_MIN, d - WAKE_BEFORE, d - LOCK_IN_BEFORE, expires_at)
    [] now \in (d - LOCK_IN_BEFORE)..(d - HUNT_BEFORE - 1) ->
         Active(POLL_5_MIN, d - LOCK_IN_BEFORE, d - HUNT_BEFORE, expires_at)
    [] now \in (d - HUNT_BEFORE)..d ->
         Active(POLL_60_SEC, d - HUNT_BEFORE, d, expires_at)
    [] now \in (d + 1)..(d + NEAR_AFTER) ->
         Active(POLL_2_MIN, d, d + NEAR_AFTER, expires_at)
    [] now \in (d + NEAR_AFTER + 1)..(d + MID_AFTER) ->
         Active(POLL_5_MIN, d + NEAR_AFTER, d + MID_AFTER, expires_at)
    [] now > d + MID_AFTER ->
         Active(POLL_15_MIN, d + MID_AFTER, None, expires_at)

\* A departure that was already over when the flight was tracked is ignored.
UsesDeparture(f) ==
  f.departure # None /\ f.tracked_at < f.departure + SCHEDULED_EXPIRE_AFTER

pending_poll_schedule(f, now) ==
  LET expires_at == f.departure + SCHEDULED_EXPIRE_AFTER
  IN IF ~UsesDeparture(f) THEN pending_unknown_poll_schedule(f, now)
     ELSE IF now >= expires_at THEN Expired
     ELSE ScheduledStage(f.departure, now, expires_at)

next_due_after_last_poll(f, interval, now) ==
  IF f.last_poll = None THEN now ELSE f.last_poll + interval

\* Mutant: a pending flight sleeps through the start of its next stage.
PendingDueNoRefresh(f, s, now) ==
  Earlier(Later(next_due_after_last_poll(f, s.interval, now), s.starts_at), s.expires_at)

\* The due moment of an active pending schedule: never before the stage
\* starts, no later than the next stage or the expiry.
PendingDue(f, s, now) ==
  LET due == Later(next_due_after_last_poll(f, s.interval, now), s.starts_at)
      refreshed == IF s.refresh_at # None /\ s.refresh_at > now
                   THEN Earlier(s.refresh_at, due) ELSE due
  IN Earlier(refreshed, s.expires_at)

DueOrNotDue(due, now) ==
  IF due <= now THEN [kind |-> "Due"] ELSE [kind |-> "NotDue", at |-> due]

poll_readiness(f, now) ==
  LET s == pending_poll_schedule(f, now)
  IN IF ~is_pending_adsb(f)
     THEN DueOrNotDue(next_due_after_last_poll(f, live_poll_interval(f), now), now)
     ELSE IF s.kind = "Expired" THEN s
     ELSE DueOrNotDue(PendingDue(f, s, now), now)

\* When the loop wakes up again, for the flights fs.
next_poll_at(fs, now) ==
  LET at(f) == LET r == poll_readiness(f, now) IN IF r.kind = "NotDue" THEN r.at ELSE now
  IN CHOOSE t \in {at(f) : f \in fs} : \A f \in fs : t <= at(f)

=============================================================================
