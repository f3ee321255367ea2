--------------------------- MODULE FlightAdvance ---------------------------
(***************************************************************************)
(* A tracked flight and its Advance: the pure transition of one            *)
(* TrackedFlight by one ADS-B Observation (aviation/tracker/advance.rs,    *)
(* phase.rs, metadata.rs) and the repairs applied to a flight read back    *)
(* from flights.ron (state.rs).                                            *)
(*                                                                         *)
(* A flight keeps the fields some decision reads.  Display-only telemetry  *)
(* (altitude, speeds, type, last_phase_change) is left out; a position and *)
(* a route are reduced to "known or not"; whether the ground track points  *)
(* away from the destination is part of the observed aircraft.             *)
(***************************************************************************)
EXTENDS FlightIdentity, Sequences

CONSTANTS
  LostThreshold,   \* TRACKING_LOST_THRESHOLD: confirmation stays sticky
  RemovalAfter,    \* TRACKING_LOST_REMOVAL: grace window before removal
  InferBefore,     \* window before and after the scheduled departure in
  InferAfter       \* which a bare hex sighting counts as the target

ASSUME AdvanceAssumption ==
  /\ None \notin Nat
  /\ LostThreshold \in Nat /\ RemovalAfter \in Nat \ {0}
  /\ InferBefore \in Nat /\ InferAfter \in Nat
  /\ LostThreshold <= RemovalAfter

Phases == {"Unknown", "Ground", "Takeoff", "Climb", "Cruise", "Descent", "Approach", "Landing"}
HexSources == {"UserInput", "AviationStack", "Adsb"}
Confirmations == {"Pending", "AircraftVisible", "ConfirmedByCallsign", "InferredByAssignedHex"}
EmergencySquawks == {"7500", "7600", "7700"}

CRUISE_STABLE_POLLS == 2
DIVERT_CONSECUTIVE_POLLS == 3
\* polls_since_change is only compared with 2 and with 5, and
\* divert_consecutive_polls only with 3: counting further changes nothing.
PollsCap == 5
DivertCap == 3

Bump(n, cap) == IF n < cap THEN n + 1 ELSE cap

(***************************************************************************)
(* A TrackedFlight.  last_seen is the last target-confirmed sighting,      *)
(* last_visible the last sighting of the assigned aircraft of any kind.    *)
(***************************************************************************)
TrackedFlight ==
  [ id : Identifiers, callsign : Opt(Callsigns), aliases : SUBSET Callsigns,
    hex : Opt(Hexes), hex_source : Opt(HexSources), observed : Opt(Callsigns),
    confirmation : Confirmations, phase : Phases, route : BOOLEAN,
    dest : BOOLEAN, located : BOOLEAN, squawk : Opt(EmergencySquawks \cup {"1000"}),
    tracked_by : Users, tracked_at : Nat, last_seen : Opt(Nat),
    last_visible : Opt(Nat), polls : 0..PollsCap, takeoff_at : Opt(Int),
    checked : BOOLEAN, departure : Opt(Int), last_poll : Opt(Nat),
    divert : 0..DivertCap ]

NewFlight(id, callsign, user, now, checked) ==
  [ id |-> id, callsign |-> callsign, aliases |-> {},
    hex |-> IF id.kind = "Hex" THEN id.v ELSE None,
    hex_source |-> IF id.kind = "Hex" THEN "UserInput" ELSE None,
    observed |-> None, confirmation |-> "Pending", phase |-> "Unknown",
    route |-> FALSE, dest |-> FALSE, located |-> FALSE, squawk |-> None,
    tracked_by |-> user, tracked_at |-> now, last_seen |-> None,
    last_visible |-> None, polls |-> 0, takeoff_at |-> None,
    checked |-> checked, departure |-> None, last_poll |-> None, divert |-> 0 ]

(***************************************************************************)
(* An aircraft as ADS-B reports it is a record                             *)
(*   [flight, hex, ground, alt, rate, gs, approach, squawk, located,       *)
(*    off_course].                                                         *)
(* The client hands on the first aircraft of the answer unchecked, so any  *)
(* aircraft may answer a lookup.  alt and rate are None when not reported; *)
(* ground is AltBaro::Ground.                                              *)
(***************************************************************************)
is_on_ground(ac) ==
  \/ ac.ground
  \/ ~ac.ground /\ ac.alt # None /\ ac.alt < 200 /\ ac.gs < 30

altitude_ft(ac) == IF ac.ground THEN 0 ELSE ac.alt

RateOr0(ac) == IF ac.rate = None THEN 0 ELSE ac.rate

is_airborne_phase(p) == p \in {"Takeoff", "Climb", "Cruise", "Descent", "Approach"}

\* The early returns of detect_phase, in their order.
detect_phase(f, ac) ==
  LET alt == altitude_ft(ac)
      parked == f.phase \in {"Ground", "Unknown"}
  IN IF is_on_ground(ac) THEN IF parked THEN "Ground" ELSE "Landing"
     ELSE IF parked /\ ac.gs > 60 /\ RateOr0(ac) > 0 THEN "Takeoff"
     ELSE IF RateOr0(ac) < -500
          THEN IF alt # None /\ (alt < 10000 \/ ac.approach \/ f.phase = "Approach")
               THEN "Approach" ELSE "Descent"
     ELSE IF ac.approach /\ RateOr0(ac) < 0 THEN "Approach"
     ELSE IF /\ alt # None /\ alt > 10000
             /\ ac.rate # None /\ ac.rate \in -299..299
             /\ f.polls >= CRUISE_STABLE_POLLS
             /\ f.phase \notin {"Descent", "Approach"} THEN "Cruise"
     ELSE IF RateOr0(ac) > 500 THEN "Climb"
     ELSE f.phase

-----------------------------------------------------------------------------
(***************************************************************************)
(* Identity: which aircraft counts as the requested flight.                *)
(***************************************************************************)
is_target_confirmed(c) == c \in {"ConfirmedByCallsign", "InferredByAssignedHex"}

inferred_by_hex_window(f, now) ==
  \/ f.id.kind = "Hex"
  \/ /\ f.departure # None
     /\ now >= f.departure - InferBefore
     /\ now <= f.departure + InferAfter

\* None: the aircraft does not confirm the target and is ignored.
target_confirmation_for_aircraft(f, ac, used_hex, now) ==
  IF ac.flight # None /\ flight_matches_callsign(f, ac.flight) THEN "ConfirmedByCallsign"
  ELSE IF ~used_hex THEN None
  ELSE IF (f.id.kind = "Hex" \/ ac.flight = None) /\ inferred_by_hex_window(f, now)
       THEN "InferredByAssignedHex"
  ELSE "AircraftVisible"

\* A mismatch with the hex of the last confirmed sighting does not demote
\* a confirmed flight until LostThreshold has passed.
should_keep_prior_confirmation(f, confirmation, used_hex, now) ==
  /\ used_hex
  /\ is_target_confirmed(f.confirmation)
  /\ confirmation = "AircraftVisible"
  /\ f.last_seen # None /\ now - f.last_seen <= LostThreshold

set_hex_if_consistent(f, hex, source, promote) ==
  IF hex = None \/ (f.hex # None /\ f.hex # hex) THEN f
  ELSE [f EXCEPT !.hex = hex,
                 !.hex_source =
                    IF @ = None \/ (source = "Adsb" /\ promote /\ @ = "AviationStack")
                    THEN source ELSE @]

\* A route with a destination the airport table knows also sets dest_lat/lon.
set_route_from_iata(f, known) == [f EXCEPT !.route = TRUE, !.dest = @ \/ known]

\* metadata: [callsign, iata, hex, departure, takeoff, route, dest_known]; the
\* callsign is flight_icao or the one built from airline and number.
apply_aviationstack_metadata(f, m) ==
  LET g == [f EXCEPT !.departure = IF @ = None THEN m.departure ELSE @,
                     !.aliases = @ \cup ({m.iata, m.callsign} \ {None}),
                     !.callsign = IF m.callsign = None THEN @ ELSE m.callsign,
                     !.takeoff_at = IF m.takeoff = None THEN @ ELSE m.takeoff]
      h == IF m.route THEN set_route_from_iata(g, m.dest_known) ELSE g
  IN set_hex_if_consistent(h, m.hex, "AviationStack", FALSE)

newly_resolved(f, ac, confirmation) ==
  /\ confirmation = "ConfirmedByCallsign" \/ f.id.kind = "Hex"
  /\ f.callsign = None
  /\ ac.flight # None

apply_observed_aircraft(f, ac, confirmation, direct) ==
  LET resolved == IF newly_resolved(f, ac, confirmation) THEN ac.flight ELSE f.callsign
      g == [f EXCEPT !.confirmation = confirmation, !.observed = ac.flight,
                     !.callsign = resolved,
                     !.aliases = IF newly_resolved(f, ac, confirmation)
                                 THEN @ \cup {ac.flight} ELSE @,
                     !.located = ac.located, !.squawk = ac.squawk]
  IN set_hex_if_consistent(g, ac.hex, "Adsb", direct)

\* Mutant: a flight that is visible again counts as never seen.
is_pending_adsb_when_visible(f) == f.confirmation \in {"Pending", "AircraftVisible"}

is_pending_adsb(f) ==
  \/ f.confirmation = "Pending"
  \/ f.confirmation = "AircraftVisible" /\ f.last_visible = None

-----------------------------------------------------------------------------
(***************************************************************************)
(* The Advance.  An observation is [used_hex, outcome, ac]; the result is  *)
(* the flight, the announcements in order, whether the flight is to be     *)
(* removed and whether its route is to be looked up.                       *)
(***************************************************************************)
Outcomes == {"Hit", "Miss", "Error", "Timeout"}

Update(f, emits, removal, fetch) ==
  [flight |-> f, emits |-> emits, removal |-> removal, fetch_route |-> fetch]

\* Mutant: the removal timer runs from the last confirmed sighting.
AdvanceMissBySeen(f, now) ==
  LET lost == f.last_seen # None /\ now - f.last_seen >= RemovalAfter
  IN Update([f EXCEPT !.polls = IF f.last_visible = None THEN Bump(@, PollsCap) ELSE @],
            IF lost THEN <<"TrackingLost">> ELSE << >>, lost, FALSE)

\* Mutant: the removal timer runs from the last poll.
AdvanceMissByPoll(f, now) ==
  LET lost == f.last_visible # None /\ now - f.last_poll >= RemovalAfter
  IN Update([f EXCEPT !.polls = IF f.last_visible = None THEN Bump(@, PollsCap) ELSE @],
            IF lost THEN <<"TrackingLost">> ELSE << >>, lost, FALSE)

\* No aircraft in the answer: count the poll while the aircraft was never
\* visible, remove the flight once it has been invisible for RemovalAfter.
AdvanceMiss(f, now) ==
  LET lost == f.last_visible # None /\ now - f.last_visible >= RemovalAfter
  IN Update([f EXCEPT !.polls = IF f.last_visible = None THEN Bump(@, PollsCap) ELSE @],
            IF lost THEN <<"TrackingLost">> ELSE << >>, lost, FALSE)

\* The phase part of advance_flight: f already carries the observed identity.
\* A landing is announced and recorded as Ground again, with its takeoff time
\* cleared for the next leg.
PhaseStep(f, ac, now) ==
  LET new == detect_phase(f, ac)
      took_off == f.phase = "Ground" /\ is_airborne_phase(new) /\ f.takeoff_at = None
  IN IF new = f.phase
     THEN [flight |-> [f EXCEPT !.polls = Bump(@, PollsCap)], emits |-> << >>]
     ELSE [flight |-> [f EXCEPT !.phase = IF new = "Landing" THEN "Ground" ELSE new,
                                !.polls = 0,
                                !.takeoff_at = IF new = "Landing" THEN None
                                               ELSE IF took_off THEN now ELSE @],
           emits |-> IF new \in {"Takeoff", "Cruise", "Descent", "Approach", "Landing"}
                     THEN <<new>> ELSE << >>]

\* The divert check of a confirmed sample in Descent or Approach: it needs the
\* destination and two positions, and is reset outside those phases.
DivertStep(f, ac, was_located, sampled) ==
  IF sampled /\ f.phase \in {"Descent", "Approach"}
  THEN IF f.dest /\ ac.located /\ was_located
       THEN LET n == IF ac.off_course THEN Bump(f.divert, DivertCap) ELSE 0
            IN [flight |-> [f EXCEPT !.divert = n],
                emits |-> IF n >= DIVERT_CONSECUTIVE_POLLS
                          THEN <<"PossibleDivert">> ELSE << >>]
       ELSE [flight |-> f, emits |-> << >>]
  ELSE [flight |-> [f EXCEPT !.divert = 0], emits |-> << >>]

AdvanceHit(f, ac, used_hex, now) ==
  LET raw == target_confirmation_for_aircraft(f, ac, used_hex, now)
      direct == is_target_confirmed(raw)
      sticky == should_keep_prior_confirmation(f, raw, used_hex, now)
      confirmation == IF sticky THEN f.confirmation ELSE raw
      sampled == direct \/ (sticky /\ ac.flight = None)
      became == ~is_target_confirmed(f.confirmation) /\ direct
      seen == [f EXCEPT !.last_visible = now, !.last_seen = IF direct THEN now ELSE @]
      identified == apply_observed_aircraft(seen, ac, confirmation, direct)
      alarm == /\ sampled /\ ac.squawk # f.squawk /\ ac.squawk \in EmergencySquawks
      restarted == IF became /\ is_pending_adsb(f)
                   THEN [identified EXCEPT !.phase = "Unknown", !.polls = 0]
                   ELSE identified
      phased == IF sampled THEN PhaseStep(restarted, ac, now)
                ELSE [flight |-> restarted, emits |-> << >>]
      diverted == DivertStep(phased.flight, ac, f.located, sampled)
  IN IF raw = None THEN Update(f, << >>, FALSE, FALSE)
     ELSE Update(diverted.flight,
                 (IF alarm THEN <<"SquawkEmergency">> ELSE << >>)
                   \o (IF became THEN <<"AdsbVisible">> ELSE << >>)
                   \o phased.emits \o diverted.emits,
                 FALSE,
                 newly_resolved(seen, ac, confirmation) /\ ~f.route)

advance_flight(f, obs, now) ==
  LET polled == [f EXCEPT !.last_poll = now]
  IN CASE obs.outcome = "Hit"  -> AdvanceHit(polled, obs.ac, obs.used_hex, now)
       [] obs.outcome = "Miss" -> AdvanceMiss(polled, now)
       [] obs.outcome \in {"Error", "Timeout"} -> Update(polled, << >>, FALSE, FALSE)

-----------------------------------------------------------------------------
(***************************************************************************)
(* The lookups: a flight is polled by hex once its hex is trusted.         *)
(***************************************************************************)
should_poll_by_hex(f) ==
  \/ f.id.kind = "Hex"
  \/ f.hex # None /\ (f.hex_source # None \/ f.last_seen # None)

(***************************************************************************)
(* The first ADS-B answer inside !track.  keep is the promise to keep a    *)
(* pending track although ADS-B does not show it; the result is None when  *)
(* the request is rejected instead.                                        *)
(***************************************************************************)
\* Mutant: the first confirmed sighting forgets the visibility anchor.
FirstHitNoAnchor(f, ac, used_hex, keep, now) ==
  LET confirmation == target_confirmation_for_aircraft(f, ac, used_hex /\ f.hex # None, now)
      direct == is_target_confirmed(confirmation)
      g == apply_observed_aircraft(f, ac, confirmation, direct)
  IN IF confirmation = None THEN IF keep THEN f ELSE None
     ELSE IF direct THEN [g EXCEPT !.last_seen = now, !.phase = detect_phase(g, ac)] ELSE g

FirstHit(f, ac, used_hex, keep, now) ==
  LET confirmation == target_confirmation_for_aircraft(f, ac, used_hex /\ f.hex # None, now)
      direct == is_target_confirmed(confirmation)
      g == apply_observed_aircraft(f, ac, confirmation, direct)
  IN IF confirmation = None
     THEN IF keep THEN [f EXCEPT !.polls = Bump(@, PollsCap)] ELSE None
     ELSE IF direct
     THEN [g EXCEPT !.last_seen = now, !.last_visible = now, !.phase = detect_phase(g, ac)]
     ELSE g

FirstAnswer(f, obs, keep, now) ==
  LET polled == [f EXCEPT !.last_poll = now]
  IN IF obs.outcome = "Hit" THEN FirstHit(polled, obs.ac, obs.used_hex, keep, now)
     ELSE IF keep THEN polled ELSE None

-----------------------------------------------------------------------------
(***************************************************************************)
(* load_tracker_state: the repairs every flight read from flights.ron      *)
(* goes through, in their order.                                           *)
(***************************************************************************)
\* Mutant: the hex AviationStack assigned is cleared as well.
clear_every_pending_hex(f) ==
  IF f.id.kind = "Callsign" /\ f.last_seen = None
  THEN [f EXCEPT !.hex = None, !.hex_source = None] ELSE f

clear_pending_callsign_hex(f) ==
  IF /\ f.id.kind = "Callsign" /\ f.last_seen = None
     /\ f.hex # None /\ f.hex_source # "AviationStack"
  THEN [f EXCEPT !.hex = None, !.hex_source = None] ELSE f

migrate_target_confirmation(f) ==
  IF f.confirmation = "Pending" /\ f.last_seen # None
  THEN [f EXCEPT !.confirmation = IF f.id.kind = "Hex" THEN "InferredByAssignedHex"
                                  ELSE "ConfirmedByCallsign"]
  ELSE f

backfill_visible_anchor(f) ==
  IF f.last_visible = None /\ f.last_seen # None
  THEN [f EXCEPT !.last_visible =
          IF f.last_poll # None /\ f.last_poll > f.last_seen THEN f.last_poll
          ELSE f.last_seen]
  ELSE f

LoadedFlight(f) ==
  backfill_visible_anchor(
    seed_flight_aliases(migrate_target_confirmation(clear_pending_callsign_hex(f))))

=============================================================================
