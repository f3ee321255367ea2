--------------------------- MODULE FlightIdentity ---------------------------
(***************************************************************************)
(* What a tracked flight is called: its identifier, the callsign resolved  *)
(* for it, the aliases it answers to, the callsign its aircraft last       *)
(* broadcast and its ICAO24 address (aviation/tracker/mod.rs, metadata.rs, *)
(* advance.rs).  Names are trimmed and in upper case: every comparison in  *)
(* the code ignores case.                                                  *)
(***************************************************************************)
EXTENDS Integers, FiniteSets

CONSTANTS
  Callsigns,   \* callsigns
  Hexes,       \* valid ICAO24 addresses; may overlap Callsigns (DE1513)
  Users,       \* chat logins
  None         \* Rust's None

ASSUME IdentityAssumption == None \notin Callsigns /\ None \notin Hexes

Opt(S) == S \cup {None}

Identifiers == [kind : {"Callsign"}, v : Callsigns] \cup [kind : {"Hex"}, v : Hexes]

flight_matches_callsign(f, cs) ==
  \/ f.callsign = cs
  \/ cs \in f.aliases
  \/ f.id = [kind |-> "Callsign", v |-> cs]

candidate_callsign_matches_flight(f, cs) ==
  flight_matches_callsign(f, cs) \/ f.observed = cs

seed_flight_aliases(f) ==
  [f EXCEPT !.aliases = @ \cup (IF f.id.kind = "Callsign" THEN {f.id.v} ELSE {})
                          \cup ({f.callsign} \ {None})]

\* FlightIdentifier::matches.
matches(id, callsign, hex) == IF id.kind = "Callsign" THEN callsign = id.v ELSE hex = id.v

=============================================================================
