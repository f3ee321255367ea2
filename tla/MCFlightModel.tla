---------------------------- MODULE MCFlightModel ----------------------------
(***************************************************************************)
(* One flight: its life at any pace of the polls, its polls under the      *)
(* loop, and the lookups behind one poll.  The three share nothing that    *)
(* changes; the initial state picks the one that moves.                    *)
(*                                                                         *)
(* The life of a flight is looked at every four ticks: the polls at that   *)
(* pace, and a whole life in five instants.                                *)
(***************************************************************************)
EXTENDS FlightLife, FlightPolling, AdsbBackends, TLC

CONSTANTS c1, c2, h1, h2, u1, l1, l2

VARIABLE moving

MCCallsigns == {c1, c2}
MCHexes == {h1, h2}
MCUsers == {u1}

-----------------------------------------------------------------------------
(* FlightPolling: a flight before and after ADS-B shows it, for every      *)
(* alignment of its departure with !track.                                 *)

Departures == {None} \cup -19..21

New == seed_flight_aliases(NewFlight([kind |-> "Callsign", v |-> c1], c1, u1, 0, TRUE))

\* Just tracked: the first lookup found nothing, or none was made because the
\* departure is more than three hours away.
PendingFlights ==
  {[New EXCEPT !.departure = d,
               !.last_poll = IF d # None /\ d > WAKE_BEFORE THEN None ELSE 0] : d \in Departures}

\* Just tracked and visible.
LiveFlights ==
  {[New EXCEPT !.confirmation = "ConfirmedByCallsign", !.last_poll = 0, !.last_seen = 0,
               !.last_visible = 0, !.phase = p, !.squawk = None] :
     p \in {"Ground", "Climb", "Cruise"}}

Visible(cs) ==
  [ flight |-> cs, hex |-> None, ground |-> FALSE, alt |-> 9000, rate |-> 900, gs |-> 300,
    approach |-> FALSE, squawk |-> None, located |-> FALSE, off_course |-> FALSE ]

\* The target, and another aircraft that answers to the lookup and confirms nothing.
AnyFlight == PendingFlights \cup LiveFlights
AnyPlane == {Visible(c1), Visible(c2)}

-----------------------------------------------------------------------------
(* AdsbBackends: fresh but weak, stale but strong, without a position,     *)
(* without a hex.                                                          *)

Copy(h, age, rssi) == [hex |-> h, age |-> age, rssi |-> rssi]

ManyLists ==
  { << >>, <<Copy(h1, 0, 1)>>, <<Copy(h2, 1, 1), Copy(h1, 1, 2)>>,
    <<Copy(h1, Stalest, 2), Copy(Missing, 0, 2)>>, <<Copy(h1, 0, 2), Copy(h2, 0, 2)>>,
    <<Copy(Missing, 1, 1), Copy(h2, 1, 2)>> }

TwoLookups == {l1, l2}
Symmetric == Permutations(TwoLookups)

-----------------------------------------------------------------------------
(* FlightLife: two callsigns, one or two airframes, one telemetry profile  *)
(* per answer detect_phase can give.                                       *)

MCIdents == {[kind |-> "Callsign", v |-> c1], [kind |-> "Hex", v |-> h1]}

\* altitude, vertical rate, ground speed, approach mode, on-ground flag
Profiles == { [ground |-> TRUE,  alt |-> None,  rate |-> None,  gs |-> 0,   approach |-> FALSE],
              [ground |-> FALSE, alt |-> 1000,  rate |-> 900,   gs |-> 150, approach |-> FALSE],
              [ground |-> FALSE, alt |-> 35000, rate |-> 0,     gs |-> 450, approach |-> FALSE],
              [ground |-> FALSE, alt |-> 20000, rate |-> -1000, gs |-> 400, approach |-> FALSE],
              [ground |-> FALSE, alt |-> 3000,  rate |-> -400,  gs |-> 160, approach |-> TRUE] }

Plane(p, cs, sq, off) ==
  [ flight |-> cs, hex |-> h1, ground |-> p.ground, alt |-> p.alt, rate |-> p.rate,
    gs |-> p.gs, approach |-> p.approach, squawk |-> sq, located |-> TRUE,
    off_course |-> off ]

\* The target itself, the same airframe under another callsign or none.
MCFleet ==
  {Plane(p, cs, "1000", FALSE) : p \in Profiles, cs \in {c1, None}}
    \cup {Plane(p, c2, "1000", FALSE) : p \in {q \in Profiles : q.gs = 450}}
    \cup {Plane(p, cs, "7700", TRUE) : p \in {q \in Profiles : q.approach}, cs \in {c1, c2}}

Info(cs, hex, dep) ==
  [ callsign |-> cs, iata |-> None, hex |-> hex, departure |-> dep, takeoff |-> None,
    route |-> FALSE, dest_known |-> FALSE ]

\* Its window of inference is over after the third instant.
MCMetadata == {None, Info(c1, h1, -10), Info(None, h1, None)}

-----------------------------------------------------------------------------
MCInit ==
  /\ moving \in {"life", "polls", "lookups"}
  /\ IF moving = "life" THEN Init
     ELSE flight = None /\ now = 0 /\ emits = << >> /\ milestone = None /\ visible_at = None
  /\ PollInit /\ (moving # "polls" => polled = [New EXCEPT !.last_poll = 0])
  /\ AdsbInit

MCNext ==
  /\ \/ moving = "life" /\ Next /\ UNCHANGED <<pollVars, adsbVars>>
     \/ moving = "polls" /\ PollNext /\ UNCHANGED <<vars, adsbVars>>
     \/ moving = "lookups" /\ AdsbNext /\ UNCHANGED <<vars, pollVars>>
  /\ UNCHANGED moving

MCSpec == MCInit /\ [][MCNext]_<<vars, pollVars, adsbVars, moving>>

=============================================================================
