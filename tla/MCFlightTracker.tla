-------------------------- MODULE MCFlightTracker --------------------------
(***************************************************************************)
(* Two callsigns and one aircraft, tracked under either name by two users. *)
(***************************************************************************)
EXTENDS FlightTracker

CONSTANTS c1, c2, h1, u1, u2

MCCallsigns == {c1, c2}
MCHexes == {h1}
MCUsers == {u1, u2}
MCIcao == [c \in MCCallsigns |-> c]
MCFleet == {[flight |-> c1, hex |-> h1]}
MCMetadata == {[callsign |-> None, hex |-> h1]}

C(v) == [kind |-> "Callsign", v |-> v]
H(v) == [kind |-> "Hex", v |-> v]
Req(kind, id, user, is_mod) == [kind |-> kind, id |-> id, user |-> user, is_mod |-> is_mod]

\* Every kind of command, under names that two users ask for.
MCRequests ==
  { Req("Track", C(c1), u1, FALSE), Req("Track", C(c1), u2, FALSE),
    Req("Track", C(c2), u2, FALSE), Req("Track", H(h1), u2, FALSE),
    Req("Untrack", C(c1), u1, FALSE), Req("Info", C(c1), u1, FALSE),
    Req("Snapshot", C(c1), u1, FALSE), Req("DeleteFromWeb", C(c1), u1, TRUE) }

=============================================================================
