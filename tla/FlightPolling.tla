--------------------------- MODULE FlightPolling ---------------------------
(***************************************************************************)
(* One tracked flight under the poll loop (aviation/tracker/loop_run.rs):  *)
(* the loop polls the flight when it is due, computes when it has to wake  *)
(* up and sleeps until then or until a command arrives.                    *)
(***************************************************************************)
EXTENDS FlightSchedule

CONSTANTS
  Flights,   \* flights as they may be when the loop picks them up, at time 0
  PollFleet, \* aircraft ADS-B may report
  Outages,   \* whether lookups may fail (Error, Timeout)
  MaxLag,    \* how late a round may start, the time of a slow round included
  MaxClock,  \* bound on the clock
  MaxLive    \* bound on the clock once the flight has been seen

VARIABLES
  polled,  \* the TrackedFlight, or None once it is removed
  clock,     \* the clock
  wake,      \* when the sleeping loop wakes up by itself
  blind      \* history: the last poll neither showed the flight nor missed it

pollVars == <<polled, clock, wake, blind>>

\* Nothing is recorded of the time to come, and a flight that was seen is not pending.
UpToNow(f) ==
  /\ f.tracked_at = 0 /\ f.last_poll \in {None, 0} /\ f.last_visible \in {None, 0}
  /\ f.last_visible # None => f.confirmation # "Pending"

ASSUME PollingAssumption ==
  /\ Outages \in BOOLEAN /\ MaxLag \in Nat /\ MaxClock \in Nat
  /\ MaxLive \in 0 .. MaxClock
  /\ Flights \subseteq {f \in TrackedFlight : UpToNow(f)}

PollAnswers(f) ==
  [used_hex : {should_poll_by_hex(f)}, outcome : {"Hit"}, ac : PollFleet]
    \cup [used_hex : {should_poll_by_hex(f)},
          outcome : IF Outages THEN Outcomes \ {"Hit"} ELSE {"Miss"}, ac : {None}]

\* Nothing is slept for before the first round.
PollInit ==
  /\ polled \in Flights
  /\ clock = 0
  /\ wake = 0
  /\ blind = FALSE

SleepFor(f) == wake' = IF f = None THEN clock ELSE next_poll_at({f}, clock)

\* The flight is due: one poll, then sleep.
PollOnce(obs) ==
  LET u == advance_flight(polled, obs, clock)
  IN /\ poll_readiness(polled, clock).kind = "Due"
     /\ polled' = IF u.removal THEN None ELSE u.flight
     /\ blind' = (obs.outcome # "Miss" /\ u.flight.last_visible # clock)
     /\ SleepFor(polled')
     /\ UNCHANGED clock

\* The flight was never seen and its schedule is over.
Expire ==
  /\ poll_readiness(polled, clock).kind = "Expired"
  /\ polled' = None
  /\ SleepFor(polled')
  /\ UNCHANGED <<clock, blind>>

\* A command woke the loop up too early.
SleepOn ==
  /\ poll_readiness(polled, clock).kind = "NotDue"
  /\ SleepFor(polled)
  /\ UNCHANGED <<polled, clock, blind>>

\* A round of the loop: by itself once it is time, or woken by a command.
Round == polled # None /\ ((\E obs \in PollAnswers(polled) : PollOnce(obs)) \/ Expire \/ SleepOn)

Pending == polled # None /\ is_pending_adsb(polled)

\* Time passes; a round starts at most MaxLag after the wake-up time.
PollTick ==
  /\ polled # None
  /\ clock < (IF Pending THEN MaxClock ELSE MaxLive) /\ clock < wake + MaxLag
  /\ clock' = clock + 1
  /\ UNCHANGED <<polled, wake, blind>>

PollNext == Round \/ PollTick

PollSpec == PollInit /\ [][PollNext]_pollVars

-----------------------------------------------------------------------------
\* The flight, the clock and the wake-up time have their types.
PollTypeOK ==
  /\ polled \in Opt(TrackedFlight)
  /\ clock \in 0..MaxClock /\ wake \in Nat /\ blind \in BOOLEAN

\* The loop never sleeps through a moment at which the flight is due or
\* expired: before the wake-up time next_poll_at computed, poll_readiness
\* says NotDue at every later instant, across all changes of stage.
NeverOversleeps ==
  polled # None /\ clock < wake => poll_readiness(polled, clock).kind = "NotDue"

\* A flight ADS-B never shows is given up on time: 12 hours after its
\* departure, or 24 hours after !track when the departure is not known.
ExpiresAt(f) ==
  IF UsesDeparture(f) THEN f.departure + SCHEDULED_EXPIRE_AFTER
  ELSE f.tracked_at + UNKNOWN_EXPIRE_AFTER

PendingExpiresOnTime == Pending => clock <= ExpiresAt(polled) + MaxLag

\* Around the departure the promised pace is kept although earlier stages
\* poll slowly: from the start of the hunt to the departure no more than
\* a minute (and the lag) goes by without a poll.
HuntKeepsPace ==
  (/\ Pending /\ UsesDeparture(polled) /\ polled.last_poll # None
   /\ clock > polled.departure - HUNT_BEFORE + MaxLag /\ clock <= polled.departure)
  => clock - polled.last_poll <= POLL_60_SEC + MaxLag

\* A live flight that vanished is dropped within one poll interval after the
\* grace window, unless lookups fail or are answered by another aircraft, which
\* is no evidence either way.
VanishedIsDropped ==
  (polled # None /\ polled.last_visible # None /\ ~blind)
  => clock - polled.last_visible < RemovalAfter + POLL_SLOW + MaxLag

\* What the sleep, the stages, the hunt and the grace window promise about time
\* holds for every alignment of departure, !track and polls.
PromisesKept == NeverOversleeps /\ PendingExpiresOnTime /\ HuntKeepsPace /\ VanishedIsDropped

=============================================================================
