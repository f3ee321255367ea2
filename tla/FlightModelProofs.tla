-------------------------- MODULE FlightModelProofs --------------------------
(***************************************************************************)
(* One tracked flight: what its Advance and what its poll schedule promise *)
(* for every fleet, every answer, every departure and every pace.          *)
(*                                                                         *)
(* The life of a flight (FlightLife).  Its invariant (LifeInv) says that a *)
(* flight is settled: it answers to its names, a seen flight is confirmed  *)
(* and visible, and a callsign flight that was not seen has no hex but the *)
(* one AviationStack assigned.  Such a flight has nothing to repair after  *)
(* a restart.  LegOf ties the last announcement to the phase, and          *)
(* last_visible to the last report of the aircraft.                        *)
(*                                                                         *)
(* The polls of a flight (FlightPolling).  None of the promises about time *)
(* is inductive: a tick changes the stage of the schedule under a sleeping *)
(* loop.  The invariant (PInv) remembers instead that the wake-up time is  *)
(* the one poll_readiness named at some earlier instant (WakeIsDue), and   *)
(* NotDueUntil shows that what it said then holds until then: between the  *)
(* stages the pace only slows down, except where the schedule has named    *)
(* the beginning of the next stage as the time to wake up (StageLater).    *)
(***************************************************************************)
EXTENDS FlightPolling, FlightLife, TLAPS

\* The fields that some decision reads.
FlightFields ==
  {"id", "callsign", "aliases", "hex", "hex_source", "observed", "confirmation", "phase",
   "route", "dest", "located", "squawk", "tracked_at", "last_seen", "last_visible", "polls",
   "takeoff_at", "departure", "last_poll", "divert"}

-----------------------------------------------------------------------------
(* A flight stays a flight *)

LEMMA PhaseDetected ==
  ASSUME NEW f, NEW ac, f.phase \in Phases
  PROVE  LET new == detect_phase(f, ac)
         IN /\ new \in Phases
            /\ new = "Ground" => f.phase \in {"Ground", "Unknown"}
            /\ new = "Unknown" => f.phase = "Unknown"
            /\ new = "Takeoff" => f.phase \in {"Ground", "Unknown", "Takeoff"}
  BY DEF detect_phase, Phases

LEMMA HexTyped ==
  ASSUME NEW f \in TrackedFlight, NEW hex \in Opt(Hexes), NEW source \in HexSources, NEW promote
  PROVE  set_hex_if_consistent(f, hex, source, promote) \in TrackedFlight
<1> DEFINE src == IF f.hex_source = None
                     \/ (source = "Adsb" /\ promote /\ f.hex_source = "AviationStack")
                  THEN source ELSE f.hex_source
           g == [f EXCEPT !.hex = hex, !.hex_source = src]
<1>1. set_hex_if_consistent(f, hex, source, promote) \in {f, g}
  BY DEF set_hex_if_consistent
<1>2. f.hex_source \in Opt(HexSources)
  BY DEF TrackedFlight
<1>3. src \in Opt(HexSources)
  BY <1>2 DEF Opt
<1> HIDE DEF src
<1>4. g \in TrackedFlight
  BY <1>3 DEF TrackedFlight
<1> QED  BY <1>1, <1>4

LEMMA ObservedTyped ==
  ASSUME NEW f \in TrackedFlight, NEW ac \in Aircraft, NEW confirmation \in Confirmations,
         NEW direct
  PROVE  apply_observed_aircraft(f, ac, confirmation, direct) \in TrackedFlight
<1> DEFINE resolved == IF newly_resolved(f, ac, confirmation) THEN ac.flight ELSE f.callsign
           aliases == IF newly_resolved(f, ac, confirmation)
                      THEN f.aliases \cup {ac.flight} ELSE f.aliases
           g == [f EXCEPT !.confirmation = confirmation, !.observed = ac.flight,
                          !.callsign = resolved, !.aliases = aliases,
                          !.located = ac.located, !.squawk = ac.squawk]
<1>1. /\ ac.flight \in Opt(Callsigns) /\ ac.hex \in Opt(Hexes) /\ ac.located \in BOOLEAN
      /\ ac.squawk \in Opt(EmergencySquawks \cup {"1000"})
  BY DEF Aircraft
<1>2. f.callsign \in Opt(Callsigns) /\ f.aliases \subseteq Callsigns
  BY DEF TrackedFlight
<1>3. resolved \in Opt(Callsigns) /\ aliases \in SUBSET Callsigns
  BY <1>1, <1>2 DEF newly_resolved, Opt
<1>4. apply_observed_aircraft(f, ac, confirmation, direct)
        = set_hex_if_consistent(g, ac.hex, "Adsb", direct)
  BY DEF apply_observed_aircraft
<1> HIDE DEF resolved, aliases
<1>5. g \in TrackedFlight
  BY <1>1, <1>3 DEF TrackedFlight
<1> HIDE DEF g
<1> QED  BY <1>1, <1>4, <1>5, HexTyped DEF HexSources

LEMMA PhaseTyped ==
  ASSUME NEW f \in TrackedFlight, NEW ac, NEW t \in Int
  PROVE  PhaseStep(f, ac, t).flight \in TrackedFlight
<1> DEFINE new == detect_phase(f, ac)
           takeoff_at == IF new = "Landing" THEN None
                         ELSE IF f.phase = "Ground" /\ is_airborne_phase(new)
                                   /\ f.takeoff_at = None
                              THEN t ELSE f.takeoff_at
           phase == IF new = "Landing" THEN "Ground" ELSE new
           polls == Bump(f.polls, PollsCap)
<1>1. f.phase \in Phases /\ f.takeoff_at \in Opt(Int) /\ f.polls \in 0 .. PollsCap
  BY DEF TrackedFlight
<1>2. new \in Phases
  BY <1>1, PhaseDetected
<1>3. PhaseStep(f, ac, t).flight =
        IF new = f.phase THEN [f EXCEPT !.polls = polls]
        ELSE [f EXCEPT !.phase = phase, !.polls = 0, !.takeoff_at = takeoff_at]
  BY DEF PhaseStep
<1> HIDE DEF new
<1>4. phase \in Phases
  BY <1>2 DEF Phases
<1>5. takeoff_at \in Opt(Int)
  BY <1>1 DEF Opt
<1>6. polls \in 0 .. PollsCap /\ 0 \in 0 .. PollsCap
  BY <1>1 DEF Bump, PollsCap
<1> HIDE DEF phase, takeoff_at, polls
<1>7. [f EXCEPT !.polls = polls] \in TrackedFlight
  BY <1>6 DEF TrackedFlight
<1>8. [f EXCEPT !.phase = phase, !.polls = 0, !.takeoff_at = takeoff_at] \in TrackedFlight
  BY <1>4, <1>5, <1>6 DEF TrackedFlight
<1> QED  BY <1>3, <1>7, <1>8

LEMMA DivertTyped ==
  ASSUME NEW f \in TrackedFlight, NEW ac, NEW was_located, NEW sampled
  PROVE  DivertStep(f, ac, was_located, sampled).flight \in TrackedFlight
<1> DEFINE n == IF ac.off_course THEN Bump(f.divert, DivertCap) ELSE 0
<1>1. n \in 0 .. DivertCap /\ 0 \in 0 .. DivertCap
  BY DEF TrackedFlight, Bump, DivertCap
<1>2. DivertStep(f, ac, was_located, sampled).flight
        \in {[f EXCEPT !.divert = n], f, [f EXCEPT !.divert = 0]}
  BY DEF DivertStep
<1> HIDE DEF n
<1> QED  BY <1>1, <1>2 DEF TrackedFlight

LEMMA ConfirmationTyped ==
  ASSUME NEW f \in TrackedFlight, NEW ac, NEW used_hex, NEW t
  PROVE  LET raw == target_confirmation_for_aircraft(f, ac, used_hex, t)
         IN /\ raw # None => raw \in Confirmations \ {"Pending"}
            /\ should_keep_prior_confirmation(f, raw, used_hex, t)
                 => f.confirmation \in Confirmations \ {"Pending"}
<1> DEFINE raw == target_confirmation_for_aircraft(f, ac, used_hex, t)
<1>1. raw \in {"ConfirmedByCallsign", "InferredByAssignedHex", "AircraftVisible", None}
  BY DEF target_confirmation_for_aircraft
<1>2. should_keep_prior_confirmation(f, raw, used_hex, t)
        => f.confirmation \in {"ConfirmedByCallsign", "InferredByAssignedHex"}
  BY DEF should_keep_prior_confirmation, is_target_confirmed
<1> HIDE DEF raw
<1> QED  BY <1>1, <1>2 DEF Confirmations, raw


-----------------------------------------------------------------------------
(* The announcements of a poll *)

Announcements == Milestones \cup {"AdsbVisible", "SquawkEmergency", "PossibleDivert",
                                   "TrackingLost"}

LEMMA Concatenated ==
  ASSUME NEW x \in Seq(Announcements), NEW y \in Seq(Announcements)
  PROVE  /\ x \o y \in Seq(Announcements) /\ Len(x \o y) = Len(x) + Len(y)
         /\ \A e : Announced(e, x \o y) <=> Announced(e, x) \/ Announced(e, y)
<1>1. /\ x \o y \in Seq(Announcements) /\ Len(x \o y) = Len(x) + Len(y)
      /\ Len(x) \in Nat /\ Len(y) \in Nat
  OBVIOUS
<1>2. \A i \in 1 .. Len(x) + Len(y) :
        (x \o y)[i] = IF i <= Len(x) THEN x[i] ELSE y[i - Len(x)]
  OBVIOUS
<1>3. DOMAIN x = 1 .. Len(x) /\ DOMAIN y = 1 .. Len(y) /\ DOMAIN (x \o y) = 1 .. Len(x) + Len(y)
  BY <1>1
<1>4. ASSUME NEW e, Announced(e, x \o y)  PROVE Announced(e, x) \/ Announced(e, y)
  <2>1. PICK i \in 1 .. Len(x) + Len(y) : (x \o y)[i] = e
    BY <1>3, <1>4 DEF Announced
  <2>2. CASE i <= Len(x)
    BY <1>1, <1>2, <1>3, <2>1, <2>2 DEF Announced
  <2>3. CASE i > Len(x)
    <3>1. i - Len(x) \in 1 .. Len(y)
      BY <1>1, <2>1, <2>3
    <3>2. y[i - Len(x)] = e
      BY <1>1, <1>2, <2>1, <2>3
    <3> QED  BY <1>3, <3>1, <3>2 DEF Announced
  <2> QED  BY <1>1, <2>2, <2>3
<1>5. ASSUME NEW e, Announced(e, x)  PROVE Announced(e, x \o y)
  <2>1. PICK i \in 1 .. Len(x) : x[i] = e
    BY <1>3, <1>5 DEF Announced
  <2> QED  BY <1>1, <1>2, <1>3, <2>1 DEF Announced
<1>6. ASSUME NEW e, Announced(e, y)  PROVE Announced(e, x \o y)
  <2>1. PICK i \in 1 .. Len(y) : y[i] = e
    BY <1>3, <1>6 DEF Announced
  <2>2. i + Len(x) \in 1 .. Len(x) + Len(y) /\ ~(i + Len(x) <= Len(x)) /\ i + Len(x) - Len(x) = i
    BY <1>1, <2>1
  <2> QED  BY <1>2, <1>3, <2>1, <2>2 DEF Announced
<1> QED  BY <1>1, <1>4, <1>5, <1>6

LEMMA NoMilestone ==
  ASSUME NEW es, NEW m, \A e \in Milestones : ~Announced(e, es)
  PROVE  LastMilestone(es, m) = m
  BY DEF LastMilestone, Announced

LEMMA OneMilestone ==
  ASSUME NEW es \in Seq(Announcements), Len(es) <= 4, NEW m, NEW e \in Milestones,
         Announced(e, es), \A k \in Milestones : Announced(k, es) => k = e
  PROVE  LastMilestone(es, m) = e
<1> DEFINE announced == {i \in DOMAIN es : es[i] \in Milestones}
<1>1. /\ announced # {}
      /\ \A i \in announced : es[i] = e
  BY DEF Announced
<1>2. announced \subseteq 1 .. 4
  <2>1. DOMAIN es = 1 .. Len(es) /\ Len(es) \in Nat
    OBVIOUS
  <2> QED  BY <2>1
<1>3. LastMilestone(es, m) = IF announced = {} THEN m
                             ELSE es[CHOOSE i \in announced : \A j \in announced : j <= i]
  BY DEF LastMilestone
<1> HIDE DEF announced
<1>4. \E i \in announced : \A j \in announced : j <= i
  <2>1. \A i \in announced : i = 1 \/ i = 2 \/ i = 3 \/ i = 4
    BY <1>2
  <2>2. CASE 4 \in announced
    BY <2>1, <2>2
  <2>3. CASE 4 \notin announced /\ 3 \in announced
    BY <2>1, <2>3
  <2>4. CASE 4 \notin announced /\ 3 \notin announced /\ 2 \in announced
    BY <2>1, <2>4
  <2>5. CASE 4 \notin announced /\ 3 \notin announced /\ 2 \notin announced
    BY <1>1, <2>1, <2>5
  <2> QED  BY <2>2, <2>3, <2>4, <2>5
<1>5. (CHOOSE i \in announced : \A j \in announced : j <= i) \in announced
  BY <1>4
<1> QED  BY <1>1, <1>3, <1>5

\* A poll announces at most one milestone, between its alarm and its divert.
PollEmits(alarm, became, c, divert) ==
  (IF alarm THEN <<"SquawkEmergency">> ELSE << >>)
    \o (IF became THEN <<"AdsbVisible">> ELSE << >>)
    \o c \o (IF divert THEN <<"PossibleDivert">> ELSE << >>)

AtMostOne(c) == c = << >> \/ \E e \in Milestones : c = <<e>>

Announces(es, c, m) ==
  /\ es \in Seq(Announcements)
  /\ c = << >> => /\ LastMilestone(es, m) = m
                 /\ \A e \in Milestones : ~Announced(e, es)
  /\ \A e \in Milestones : c = <<e>> =>
       /\ LastMilestone(es, m) = e
       /\ \A k \in Milestones : Announced(k, es) => k = e

LEMMA PollAnnounces ==
  ASSUME NEW alarm \in BOOLEAN, NEW became \in BOOLEAN, NEW divert \in BOOLEAN, NEW m,
         NEW c, AtMostOne(c)
  PROVE  Announces(PollEmits(alarm, became, c, divert), c, m)
<1> DEFINE a == IF alarm THEN <<"SquawkEmergency">> ELSE << >>
           b == IF became THEN <<"AdsbVisible">> ELSE << >>
           d == IF divert THEN <<"PossibleDivert">> ELSE << >>
           es == a \o b \o c \o d
<1>1. \A e \in Announcements : /\ <<e>> \in Seq(Announcements) /\ Len(<<e>>) = 1
                               /\ \A k : Announced(k, <<e>>) <=> k = e
  BY DEF Announced
<1>2. /\ << >> \in Seq(Announcements) /\ Len(<< >>) = 0 /\ \A k : ~Announced(k, << >>)
  BY DEF Announced
<1> DEFINE Plain(x) == /\ x \in Seq(Announcements) /\ Len(x) <= 1
                       /\ \A k \in Milestones : ~Announced(k, x)
<1>21. Plain(<< >>) /\ \A e \in Announcements \ Milestones : Plain(<<e>>)
  BY <1>1, <1>2
<1>22. {"SquawkEmergency", "AdsbVisible", "PossibleDivert"} \subseteq Announcements \ Milestones
  BY DEF Announcements, Milestones
<1>23. Plain(a) /\ Plain(b) /\ Plain(d)
  <2> HIDE DEF Plain
  <2>1. Plain(<<"SquawkEmergency">>) /\ Plain(<<"AdsbVisible">>) /\ Plain(<<"PossibleDivert">>)
    BY <1>21, <1>22
  <2> QED  BY <1>21, <2>1
<1>3. a \in Seq(Announcements) /\ Len(a) <= 1 /\ \A k \in Milestones : ~Announced(k, a)
  BY <1>23
<1>4. b \in Seq(Announcements) /\ Len(b) <= 1 /\ \A k \in Milestones : ~Announced(k, b)
  BY <1>23
<1>5. d \in Seq(Announcements) /\ Len(d) <= 1 /\ \A k \in Milestones : ~Announced(k, d)
  BY <1>23
<1>6. c \in Seq(Announcements) /\ Len(c) <= 1
  <2>1. Milestones \subseteq Announcements
    BY DEF Announcements
  <2>2. CASE c = << >>
    BY <1>2, <2>2
  <2>3. ASSUME NEW e \in Milestones, c = <<e>>  PROVE c \in Seq(Announcements) /\ Len(c) <= 1
    <3>1. <<e>> \in Seq(Announcements) /\ Len(<<e>>) = 1
      BY <1>1, <2>1
    <3> QED  BY <2>3, <3>1
  <2> QED  BY <2>2, <2>3 DEF AtMostOne
<1> HIDE DEF a, b, d
<1>7. /\ a \o b \in Seq(Announcements) /\ Len(a \o b) = Len(a) + Len(b)
      /\ \A k : Announced(k, a \o b) <=> Announced(k, a) \/ Announced(k, b)
  BY <1>3, <1>4, Concatenated
<1>8. /\ a \o b \o c \in Seq(Announcements) /\ Len(a \o b \o c) = Len(a \o b) + Len(c)
      /\ \A k : Announced(k, a \o b \o c) <=> Announced(k, a \o b) \/ Announced(k, c)
  BY <1>6, <1>7, Concatenated
<1>9. /\ es \in Seq(Announcements) /\ Len(es) = Len(a \o b \o c) + Len(d)
      /\ \A k : Announced(k, es) <=> Announced(k, a \o b \o c) \/ Announced(k, d)
  BY <1>5, <1>8, Concatenated
<1>10. Len(es) <= 4
  <2>1. Len(a) \in Nat /\ Len(b) \in Nat /\ Len(c) \in Nat /\ Len(d) \in Nat
    BY <1>3, <1>4, <1>5, <1>6
  <2> QED  BY <1>3, <1>4, <1>5, <1>6, <1>7, <1>8, <1>9, <2>1
<1>11. \A k \in Milestones : Announced(k, es) <=> Announced(k, c)
  BY <1>3, <1>4, <1>5, <1>7, <1>8, <1>9
<1> HIDE DEF es
<1>12. c = << >> => /\ LastMilestone(es, m) = m
                   /\ \A e \in Milestones : ~Announced(e, es)
  BY <1>2, <1>11, NoMilestone
<1>13. ASSUME NEW e \in Milestones, c = <<e>>
       PROVE  /\ LastMilestone(es, m) = e
              /\ \A k \in Milestones : Announced(k, es) => k = e
  <2>1. \A k \in Milestones : Announced(k, es) <=> k = e
    BY <1>1, <1>11, <1>13 DEF Announcements
  <2> QED  BY <1>9, <1>10, <2>1, OneMilestone
<1>14. es = PollEmits(alarm, became, c, divert)
  BY DEF es, a, b, d, PollEmits
<1> QED  BY <1>9, <1>12, <1>13, <1>14 DEF Announces


-----------------------------------------------------------------------------
(* A flight as this version writes it *)

\* The flight answers to its names.
Seeded(f) ==
  /\ f.id.kind = "Callsign" => f.id.v \in f.aliases
  /\ f.callsign # None => f.callsign \in f.aliases

\* A flight that was seen is confirmed and visible, and the hex of one that was
\* not is the one AviationStack assigned.
Settled(f) ==
  /\ Seeded(f)
  /\ f.last_seen # None => f.confirmation # "Pending" /\ f.last_visible # None
  /\ (f.id.kind = "Callsign" /\ f.last_seen = None /\ f.hex # None)
       => f.hex_source = "AviationStack"

SameIdentity(g, f) ==
  /\ g.id = f.id /\ g.callsign = f.callsign /\ g.aliases = f.aliases
  /\ g.hex = f.hex /\ g.hex_source = f.hex_source
  /\ g.confirmation = f.confirmation
  /\ g.last_seen = f.last_seen /\ g.last_visible = f.last_visible

LEMMA FieldsOfFlights ==
  ASSUME NEW f \in TrackedFlight
  PROVE  FlightFields \subseteq DOMAIN f
  BY DEF TrackedFlight, FlightFields

LEMMA PhaseIdentity ==
  ASSUME NEW f \in TrackedFlight, NEW ac, NEW t
  PROVE  SameIdentity(PhaseStep(f, ac, t).flight, f)
  BY FieldsOfFlights DEF FlightFields, SameIdentity, PhaseStep

LEMMA DivertIdentity ==
  ASSUME NEW f \in TrackedFlight, NEW ac, NEW was_located, NEW sampled
  PROVE  LET g == DivertStep(f, ac, was_located, sampled).flight
         IN SameIdentity(g, f) /\ g.phase = f.phase
  BY FieldsOfFlights DEF FlightFields, SameIdentity, DivertStep

LEMMA HexIdentity ==
  ASSUME NEW f \in TrackedFlight, NEW hex, NEW source, NEW promote
  PROVE  LET g == set_hex_if_consistent(f, hex, source, promote)
         IN /\ g.id = f.id /\ g.callsign = f.callsign /\ g.aliases = f.aliases
            /\ g.confirmation = f.confirmation /\ g.phase = f.phase
            /\ g.last_seen = f.last_seen /\ g.last_visible = f.last_visible
            /\ (~promote /\ f.hex_source # None) => g.hex_source = f.hex_source
            /\ (f.hex = None /\ f.hex_source = None /\ g.hex # None) => g.hex_source = source
<1> DEFINE src == IF f.hex_source = None
                     \/ (source = "Adsb" /\ promote /\ f.hex_source = "AviationStack")
                  THEN source ELSE f.hex_source
           g == [f EXCEPT !.hex = hex, !.hex_source = src]
<1>1. \/ set_hex_if_consistent(f, hex, source, promote) = f
      \/ set_hex_if_consistent(f, hex, source, promote) = g
  BY DEF set_hex_if_consistent
<1>2. /\ g.id = f.id /\ g.callsign = f.callsign /\ g.aliases = f.aliases
      /\ g.confirmation = f.confirmation /\ g.phase = f.phase
      /\ g.last_seen = f.last_seen /\ g.last_visible = f.last_visible
      /\ g.hex_source = src
  BY FieldsOfFlights DEF FlightFields
<1> HIDE DEF g
<1> QED  BY <1>1, <1>2

LEMMA ObservedIdentity ==
  ASSUME NEW f \in TrackedFlight, NEW ac \in Aircraft, NEW confirmation \in Confirmations,
         NEW direct
  PROVE  LET g == apply_observed_aircraft(f, ac, confirmation, direct)
         IN /\ g.id = f.id /\ g.confirmation = confirmation /\ g.phase = f.phase
            /\ g.last_seen = f.last_seen /\ g.last_visible = f.last_visible
            /\ Seeded(f) => Seeded(g)
            /\ (~direct /\ f.hex_source # None) => g.hex_source = f.hex_source
<1> DEFINE resolved == IF newly_resolved(f, ac, confirmation) THEN ac.flight ELSE f.callsign
           aliases == IF newly_resolved(f, ac, confirmation)
                      THEN f.aliases \cup {ac.flight} ELSE f.aliases
           g == [f EXCEPT !.confirmation = confirmation, !.observed = ac.flight,
                          !.callsign = resolved, !.aliases = aliases,
                          !.located = ac.located, !.squawk = ac.squawk]
           k == set_hex_if_consistent(g, ac.hex, "Adsb", direct)
<1>1. apply_observed_aircraft(f, ac, confirmation, direct) = k
  BY DEF apply_observed_aircraft
<1>2. /\ ac.flight \in Opt(Callsigns) /\ ac.hex \in Opt(Hexes) /\ ac.located \in BOOLEAN
      /\ ac.squawk \in Opt(EmergencySquawks \cup {"1000"})
  BY DEF Aircraft
<1>3. f.callsign \in Opt(Callsigns) /\ f.aliases \subseteq Callsigns
  BY DEF TrackedFlight
<1>4. resolved \in Opt(Callsigns) /\ aliases \in SUBSET Callsigns
  BY <1>2, <1>3 DEF newly_resolved, Opt
<1>5. f.aliases \subseteq aliases
      /\ ((f.callsign # None => f.callsign \in f.aliases) => (resolved # None => resolved \in aliases))
  BY DEF newly_resolved
<1> HIDE DEF resolved, aliases
<1>6. g \in TrackedFlight
  BY <1>2, <1>4 DEF TrackedFlight
<1>7. /\ g.id = f.id /\ g.confirmation = confirmation /\ g.phase = f.phase
      /\ g.last_seen = f.last_seen /\ g.last_visible = f.last_visible
      /\ g.callsign = resolved /\ g.aliases = aliases /\ g.hex_source = f.hex_source
  BY FieldsOfFlights DEF FlightFields
<1> HIDE DEF g
<1>8. /\ k.id = g.id /\ k.callsign = g.callsign /\ k.aliases = g.aliases
      /\ k.confirmation = g.confirmation /\ k.phase = g.phase
      /\ k.last_seen = g.last_seen /\ k.last_visible = g.last_visible
      /\ (~direct /\ g.hex_source # None) => k.hex_source = g.hex_source
  BY <1>6, HexIdentity
<1> HIDE DEF k
<1>9. Seeded(f) => Seeded(k)
  BY <1>5, <1>7, <1>8 DEF Seeded
<1> QED  BY <1>1, <1>7, <1>8, <1>9

\* The repairs leave a flight as this version writes it.
LEMMA NothingToRepair ==
  ASSUME NEW f \in TrackedFlight, Settled(f)
  PROVE  LoadedFlight(f) = f
<1>1. clear_pending_callsign_hex(f) = f
  BY DEF clear_pending_callsign_hex, Settled
<1>2. migrate_target_confirmation(f) = f
  BY DEF migrate_target_confirmation, Settled
<1>3. seed_flight_aliases(f) = f
  <2>1. f.aliases \cup (IF f.id.kind = "Callsign" THEN {f.id.v} ELSE {})
                  \cup ({f.callsign} \ {None}) = f.aliases
    BY DEF Settled, Seeded
  <2>2. [f EXCEPT !.aliases = f.aliases] = f
    BY DEF TrackedFlight
  <2> QED  BY <2>1, <2>2 DEF seed_flight_aliases
<1>4. backfill_visible_anchor(f) = f
  BY DEF backfill_visible_anchor, Settled
<1> QED  BY <1>1, <1>2, <1>3, <1>4 DEF LoadedFlight


-----------------------------------------------------------------------------
(* One poll *)

Parked(f) == f.phase \in {"Ground", "Unknown"}
BetweenLegs(m) == m \in {None, "Landing"}

\* The last milestone fits the phase: on the ground a leg is over or none has
\* begun, and before the aircraft is seen nothing is announced.
LegOf(f, m) ==
  /\ Parked(f) => BetweenLegs(m)
  /\ is_pending_adsb(f) => m = None

LEMMA PhaseAnnounces ==
  ASSUME NEW f \in TrackedFlight, NEW ac, NEW t, NEW m, Parked(f) => BetweenLegs(m)
  PROVE  LET p == PhaseStep(f, ac, t)
         IN \/ p.emits = << >> /\ (Parked(p.flight) => BetweenLegs(m))
            \/ \E e \in Milestones : /\ p.emits = <<e>>
                                     /\ Parked(p.flight) => e = "Landing"
                                     /\ e = "Takeoff" => BetweenLegs(m)
<1> DEFINE new == detect_phase(f, ac)
           p == PhaseStep(f, ac, t)
<1>1. /\ new \in Phases
      /\ new = "Ground" => Parked(f)
      /\ new = "Unknown" => f.phase = "Unknown"
      /\ new = "Takeoff" => Parked(f) \/ f.phase = "Takeoff"
  <2>1. f.phase \in Phases
    BY DEF TrackedFlight
  <2> QED  BY <2>1, PhaseDetected DEF Parked
<1>2. CASE new = f.phase
  <2>1. p.emits = << >> /\ p.flight.phase = f.phase
    BY <1>2, FieldsOfFlights DEF PhaseStep, FlightFields
  <2> QED  BY <2>1 DEF Parked
<1>3. CASE new # f.phase
  <2>1. /\ p.emits = IF new \in Milestones THEN <<new>> ELSE << >>
        /\ p.flight.phase = IF new = "Landing" THEN "Ground" ELSE new
    BY <1>3, FieldsOfFlights DEF PhaseStep, FlightFields, Milestones
  <2> HIDE DEF new, p
  <2>2. CASE new \in Milestones
    <3>1. Parked(p.flight) => new = "Landing"
      BY <2>1, <2>2 DEF Parked, Milestones
    <3> QED  BY <1>1, <1>3, <2>1, <2>2, <3>1 DEF p
  <2>3. CASE new \notin Milestones
    <3>1. new \in {"Ground", "Unknown", "Climb"}
      BY <1>1, <2>3 DEF Phases, Milestones
    <3>2. Parked(p.flight) => BetweenLegs(m)
      BY <1>1, <1>3, <2>1, <3>1 DEF Parked
    <3> QED  BY <2>1, <2>3, <3>2 DEF p
  <2> QED  BY <2>2, <2>3
<1> QED  BY <1>2, <1>3

LEMMA DivertAnnounces ==
  ASSUME NEW f, NEW ac, NEW was_located, NEW sampled
  PROVE  \E divert \in BOOLEAN :
           DivertStep(f, ac, was_located, sampled).emits
             = IF divert THEN <<"PossibleDivert">> ELSE << >>
<1> DEFINE e == DivertStep(f, ac, was_located, sampled).emits
<1>1. e = <<"PossibleDivert">> \/ e = << >>
  BY DEF DivertStep
<1> HIDE DEF e
<1>2. e = (IF TRUE THEN <<"PossibleDivert">> ELSE << >>)
      \/ e = (IF FALSE THEN <<"PossibleDivert">> ELSE << >>)
  BY <1>1
<1> QED  BY <1>2 DEF e

LEMMA HitLife ==
  ASSUME NEW f \in TrackedFlight, Settled(f), NEW ac \in Aircraft, NEW t \in Nat, NEW m,
         LegOf(f, m), None \notin HexSources, None \notin Nat,
         target_confirmation_for_aircraft(f, ac, should_poll_by_hex(f), t) # None
  PROVE  LET u == AdvanceHit(f, ac, should_poll_by_hex(f), t)
         IN /\ u.flight \in TrackedFlight /\ Settled(u.flight) /\ u.flight.last_visible = t
            /\ u.removal = FALSE /\ u.emits \in Seq(Announcements)
            /\ LegOf(u.flight, LastMilestone(u.emits, m))
            /\ Announced("Takeoff", u.emits) => BetweenLegs(m)
            /\ LastMilestone(u.emits, m) \in Milestones \cup {m}
<1> DEFINE used_hex == should_poll_by_hex(f)
           raw == target_confirmation_for_aircraft(f, ac, used_hex, t)
           direct == is_target_confirmed(raw)
           sticky == should_keep_prior_confirmation(f, raw, used_hex, t)
           confirmation == IF sticky THEN f.confirmation ELSE raw
           sampled == direct \/ (sticky /\ ac.flight = None)
           became == ~is_target_confirmed(f.confirmation) /\ direct
           seen == [f EXCEPT !.last_visible = t, !.last_seen = IF direct THEN t ELSE @]
           identified == apply_observed_aircraft(seen, ac, confirmation, direct)
           alarm == sampled /\ ac.squawk # f.squawk /\ ac.squawk \in EmergencySquawks
           restarted == IF became /\ is_pending_adsb(f)
                        THEN [identified EXCEPT !.phase = "Unknown", !.polls = 0]
                        ELSE identified
           phased == IF sampled THEN PhaseStep(restarted, ac, t)
                     ELSE [flight |-> restarted, emits |-> << >>]
           diverted == DivertStep(phased.flight, ac, f.located, sampled)
           es == (IF alarm THEN <<"SquawkEmergency">> ELSE << >>)
                   \o (IF became THEN <<"AdsbVisible">> ELSE << >>)
                   \o phased.emits \o diverted.emits
           u == AdvanceHit(f, ac, used_hex, t)
<1>1. u.flight = diverted.flight /\ u.emits = es /\ u.removal = FALSE
  BY DEF AdvanceHit, Update
<1>2. /\ raw \in Confirmations \ {"Pending"} /\ confirmation \in Confirmations \ {"Pending"}
      /\ alarm \in BOOLEAN /\ became \in BOOLEAN
  BY ConfirmationTyped DEF is_target_confirmed
<1>3. ~direct => /\ used_hex /\ raw = "AircraftVisible"
  <2>1. raw \in {"ConfirmedByCallsign", "InferredByAssignedHex", "AircraftVisible"}
    BY <1>2 DEF Confirmations
  <2>2. ~used_hex => raw = "ConfirmedByCallsign"
    BY DEF target_confirmation_for_aircraft
  <2> HIDE DEF raw, used_hex
  <2> QED  BY <2>1, <2>2 DEF is_target_confirmed
<1>4. (~direct /\ f.id.kind = "Callsign" /\ f.last_seen = None) =>
        f.hex # None /\ f.hex_source = "AviationStack"
  <2>1. f.id.kind = "Callsign" => f.id.kind # "Hex"
    OBVIOUS
  <2>2. (used_hex /\ f.id.kind = "Callsign" /\ f.last_seen = None) =>
          f.hex # None /\ f.hex_source # None
    BY <2>1 DEF should_poll_by_hex
  <2> HIDE DEF direct, used_hex
  <2> QED  BY <1>3, <2>2 DEF Settled
<1> HIDE DEF used_hex, raw, direct, sticky, confirmation, sampled, became, alarm, u
<1>5. /\ seen \in TrackedFlight
      /\ seen.id = f.id /\ seen.callsign = f.callsign /\ seen.aliases = f.aliases
      /\ seen.hex = f.hex /\ seen.hex_source = f.hex_source /\ seen.phase = f.phase
      /\ seen.last_visible = t /\ seen.last_seen = IF direct THEN t ELSE f.last_seen
  <2> DEFINE last_seen == IF direct THEN t ELSE f.last_seen
  <2>1. last_seen \in Opt(Nat) /\ t \in Opt(Nat)
    BY DEF TrackedFlight, Opt
  <2>2. seen = [f EXCEPT !.last_visible = t, !.last_seen = last_seen]
    OBVIOUS
  <2> HIDE DEF last_seen
  <2>3. [f EXCEPT !.last_visible = t, !.last_seen = last_seen] \in TrackedFlight
    BY <2>1 DEF TrackedFlight
  <2> QED  BY <2>2, <2>3, FieldsOfFlights DEF FlightFields, last_seen
<1> HIDE DEF seen
<1>6. Seeded(seen)
  BY <1>5 DEF Settled, Seeded
<1>7. /\ identified \in TrackedFlight /\ Seeded(identified)
      /\ identified.id = f.id /\ identified.confirmation = confirmation
      /\ identified.phase = f.phase /\ identified.last_seen = seen.last_seen
      /\ identified.last_visible = t
      /\ (~direct /\ seen.hex_source # None) => identified.hex_source = seen.hex_source
  BY <1>2, <1>5, <1>6, ObservedTyped, ObservedIdentity
<1> HIDE DEF identified
<1>8. Settled(identified)
  <2>1. t # None
    OBVIOUS
  <2>2. (identified.id.kind = "Callsign" /\ identified.last_seen = None /\ identified.hex # None)
          => identified.hex_source = "AviationStack"
    <3> SUFFICES ASSUME f.id.kind = "Callsign", identified.last_seen = None
                 PROVE  identified.hex_source = "AviationStack"
      BY <1>7
    <3>1. ~direct /\ f.last_seen = None
      BY <1>5, <1>7, <2>1
    <3>2. seen.hex_source = "AviationStack" /\ seen.hex_source # None
      BY <1>4, <1>5, <3>1 DEF HexSources
    <3> QED  BY <1>7, <3>1, <3>2
  <2> QED  BY <1>2, <1>7, <2>1, <2>2 DEF Settled
<1>9. /\ restarted \in TrackedFlight /\ SameIdentity(restarted, identified)
      /\ restarted.phase = identified.phase \/ is_pending_adsb(f)
  <2> DEFINE g == [identified EXCEPT !.phase = "Unknown", !.polls = 0]
  <2>1. "Unknown" \in Phases /\ 0 \in 0 .. PollsCap
    BY DEF Phases, PollsCap
  <2>2. g \in TrackedFlight
    BY <1>7, <2>1 DEF TrackedFlight
  <2>3. SameIdentity(g, identified)
    BY <1>7, FieldsOfFlights DEF FlightFields, SameIdentity
  <2>4. SameIdentity(identified, identified)
    BY DEF SameIdentity
  <2> HIDE DEF g
  <2>5. restarted = IF became /\ is_pending_adsb(f) THEN g ELSE identified
    BY DEF g
  <2> QED  BY <1>7, <2>2, <2>3, <2>4, <2>5
<1> HIDE DEF restarted
<1>10. Parked(restarted) => BetweenLegs(m)
  BY <1>7, <1>9 DEF LegOf, Parked, BetweenLegs
<1>11. /\ phased.flight \in TrackedFlight /\ SameIdentity(phased.flight, restarted)
       /\ \/ phased.emits = << >> /\ (Parked(phased.flight) => BetweenLegs(m))
          \/ \E e \in Milestones : /\ phased.emits = <<e>>
                                   /\ Parked(phased.flight) => e = "Landing"
                                   /\ e = "Takeoff" => BetweenLegs(m)
  <2>1. CASE sampled
    <3>1. phased = PhaseStep(restarted, ac, t)
      BY <2>1
    <3>2. t \in Int
      OBVIOUS
    <3> HIDE DEF phased
    <3> QED  BY <1>9, <1>10, <3>1, <3>2, PhaseTyped, PhaseIdentity, PhaseAnnounces
  <2>2. CASE ~sampled
    <3>1. phased.flight = restarted /\ phased.emits = << >>
      BY <2>2
    <3> HIDE DEF phased
    <3> QED  BY <1>9, <1>10, <3>1 DEF SameIdentity
  <2> QED  BY <2>1, <2>2
<1> HIDE DEF phased
<1>12. /\ diverted.flight \in TrackedFlight /\ SameIdentity(diverted.flight, phased.flight)
       /\ diverted.flight.phase = phased.flight.phase
  BY <1>11, DivertTyped, DivertIdentity
<1>13. PICK divert \in BOOLEAN : diverted.emits = IF divert THEN <<"PossibleDivert">> ELSE << >>
  BY DivertAnnounces
<1> HIDE DEF diverted
<1>14. SameIdentity(diverted.flight, identified)
  BY <1>9, <1>11, <1>12 DEF SameIdentity
<1>15. Settled(diverted.flight) /\ diverted.flight.last_visible = t
  BY <1>7, <1>8, <1>14 DEF Settled, Seeded, SameIdentity
<1>16. ~is_pending_adsb(diverted.flight)
  BY <1>2, <1>7, <1>14, <1>15 DEF is_pending_adsb, SameIdentity
<1>17. es = PollEmits(alarm, became, phased.emits, divert) /\ AtMostOne(phased.emits)
  <2>1. es = PollEmits(alarm, became, phased.emits, divert)
    BY <1>13 DEF PollEmits
  <2>2. AtMostOne(phased.emits)
    BY <1>11 DEF AtMostOne
  <2> QED  BY <2>1, <2>2
<1> HIDE DEF es
<1>18. /\ es \in Seq(Announcements)
       /\ phased.emits = << >> => /\ LastMilestone(es, m) = m
                                 /\ \A e \in Milestones : ~Announced(e, es)
       /\ \A e \in Milestones : phased.emits = <<e>> =>
            /\ LastMilestone(es, m) = e
            /\ \A k \in Milestones : Announced(k, es) => k = e
  <2>1. Announces(PollEmits(alarm, became, phased.emits, divert), phased.emits, m)
    BY <1>2, <1>17, PollAnnounces
  <2> QED  BY <1>17, <2>1 DEF Announces
<1>19. "Takeoff" \in Milestones
  BY DEF Milestones
<1>20. /\ LegOf(diverted.flight, LastMilestone(es, m))
       /\ Announced("Takeoff", es) => BetweenLegs(m)
       /\ LastMilestone(es, m) \in Milestones \cup {m}
  <2>1. CASE phased.emits = << >> /\ (Parked(phased.flight) => BetweenLegs(m))
    BY <1>12, <1>16, <1>18, <1>19, <2>1 DEF LegOf, Parked
  <2>2. ASSUME NEW e \in Milestones, phased.emits = <<e>>,
               Parked(phased.flight) => e = "Landing", e = "Takeoff" => BetweenLegs(m)
        PROVE  /\ LegOf(diverted.flight, LastMilestone(es, m))
               /\ Announced("Takeoff", es) => BetweenLegs(m)
               /\ LastMilestone(es, m) \in Milestones \cup {m}
    <3>1. /\ LastMilestone(es, m) = e
          /\ \A k \in Milestones : Announced(k, es) => k = e
      BY <1>18, <2>2
    <3>2. Parked(diverted.flight) => BetweenLegs(e)
      BY <1>12, <2>2 DEF Parked, BetweenLegs
    <3> QED  BY <1>16, <1>19, <2>2, <3>1, <3>2 DEF LegOf
  <2> QED  BY <1>11, <2>1, <2>2
<1> QED  BY <1>1, <1>12, <1>15, <1>18, <1>20 DEF u, used_hex


LEMMA PolledIsSame ==
  ASSUME NEW f \in TrackedFlight, NEW t \in Nat
  PROVE  LET p == [f EXCEPT !.last_poll = t]
         IN /\ p \in TrackedFlight /\ SameIdentity(p, f) /\ p.phase = f.phase
            /\ should_poll_by_hex(p) = should_poll_by_hex(f)
            /\ \A ac, used_hex : target_confirmation_for_aircraft(p, ac, used_hex, t)
                                 = target_confirmation_for_aircraft(f, ac, used_hex, t)
<1> DEFINE p == [f EXCEPT !.last_poll = t]
<1>1. t \in Opt(Nat)
  BY DEF Opt
<1>2. p \in TrackedFlight
  BY <1>1 DEF TrackedFlight
<1>3. SameIdentity(p, f) /\ p.phase = f.phase /\ p.departure = f.departure
  BY FieldsOfFlights DEF FlightFields, SameIdentity
<1> HIDE DEF p
<1>4. should_poll_by_hex(p) = should_poll_by_hex(f)
  BY <1>3 DEF should_poll_by_hex, SameIdentity
<1>5. \A cs : flight_matches_callsign(p, cs) = flight_matches_callsign(f, cs)
  BY <1>3 DEF flight_matches_callsign, SameIdentity
<1>6. inferred_by_hex_window(p, t) = inferred_by_hex_window(f, t)
  BY <1>3 DEF inferred_by_hex_window, SameIdentity
<1>7. p.id = f.id
  BY <1>3 DEF SameIdentity
<1>8. \A ac, used_hex : target_confirmation_for_aircraft(p, ac, used_hex, t)
                         = target_confirmation_for_aircraft(f, ac, used_hex, t)
  BY <1>5, <1>6, <1>7 DEF target_confirmation_for_aircraft
<1> QED  BY <1>2, <1>3, <1>4, <1>8 DEF p

LEMMA SameIsSettled ==
  ASSUME NEW f, NEW g, SameIdentity(g, f), Settled(f)
  PROVE  Settled(g)
  BY DEF Settled, Seeded, SameIdentity

LEMMA SameLeg ==
  ASSUME NEW f, NEW g, SameIdentity(g, f), g.phase = f.phase, NEW m, LegOf(f, m)
  PROVE  LegOf(g, m)
  BY DEF LegOf, Parked, is_pending_adsb, SameIdentity

\* The announcements of a poll that does not show the aircraft.
LEMMA NothingShown ==
  ASSUME NEW es, es = << >> \/ es = <<"TrackingLost">>, NEW m
  PROVE  /\ es \in Seq(Announcements) /\ LastMilestone(es, m) = m
         /\ ~Announced("Takeoff", es)
<1>1. "TrackingLost" \in Announcements \ Milestones /\ "TrackingLost" # "Takeoff"
  BY DEF Announcements, Milestones
<1>2. \A e : Announced(e, es) => e = "TrackingLost"
  BY DEF Announced
<1>3. \A e \in Milestones : ~Announced(e, es)
  BY <1>1, <1>2
<1>4. es \in Seq(Announcements)
  <2>1. << >> \in Seq(Announcements) /\ <<"TrackingLost">> \in Seq(Announcements)
    BY <1>1
  <2> QED  BY <2>1
<1> QED  BY <1>1, <1>2, <1>3, <1>4, NoMilestone

Shown(f, obs, t) ==
  /\ obs.outcome = "Hit"
  /\ target_confirmation_for_aircraft(f, obs.ac, obs.used_hex, t) # None

\* The update u of a poll at t of the flight f, whose last milestone was m.
Advanced(u, f, obs, m, t) ==
  /\ u.flight \in TrackedFlight /\ Settled(u.flight)
  /\ u.emits \in Seq(Announcements)
  /\ LegOf(u.flight, LastMilestone(u.emits, m))
  /\ Announced("Takeoff", u.emits) => BetweenLegs(m)
  /\ LastMilestone(u.emits, m) \in Milestones \cup {m}
  /\ Shown(f, obs, t) => u.removal = FALSE /\ u.flight.last_visible = t
  /\ ~Shown(f, obs, t) => u.flight.last_visible = f.last_visible
  /\ u.removal => f.last_visible # None /\ t - f.last_visible >= RemovalAfter

LEMMA AdvanceLife ==
  ASSUME NEW f \in TrackedFlight, Settled(f), NEW m, LegOf(f, m),
         NEW obs \in Answers(f), NEW t \in Nat
  PROVE  Advanced(advance_flight(f, obs, t), f, obs, m, t)
<1> DEFINE p == [f EXCEPT !.last_poll = t]
           u == advance_flight(f, obs, t)
<1>1. /\ p \in TrackedFlight /\ SameIdentity(p, f) /\ p.phase = f.phase
      /\ should_poll_by_hex(p) = should_poll_by_hex(f)
      /\ \A ac, used_hex : target_confirmation_for_aircraft(p, ac, used_hex, t)
                           = target_confirmation_for_aircraft(f, ac, used_hex, t)
  BY PolledIsSame
<1>2. /\ obs.outcome = "Hit" => /\ obs.ac \in Aircraft
                               /\ obs.used_hex = should_poll_by_hex(f)
      /\ obs.outcome \in {"Hit", "Miss", "Error", "Timeout"}
  BY LifeAssumption DEF Answers, Outcomes
<1>3. /\ obs.outcome = "Hit" => u = AdvanceHit(p, obs.ac, obs.used_hex, t)
      /\ obs.outcome = "Miss" => u = AdvanceMiss(p, t)
      /\ obs.outcome \in {"Error", "Timeout"} => u = Update(p, << >>, FALSE, FALSE)
  BY DEF advance_flight
<1> HIDE DEF p, u
<1>4. Settled(p) /\ LegOf(p, m) /\ p.last_visible = f.last_visible
  BY <1>1, SameIsSettled, SameLeg DEF SameIdentity
<1>5. None \notin HexSources /\ None \notin Nat
  BY AdvanceAssumption, LifeAssumption
<1>6. CASE Shown(f, obs, t)
  <2>1. target_confirmation_for_aircraft(p, obs.ac, should_poll_by_hex(p), t) # None
    BY <1>1, <1>2, <1>6 DEF Shown
  <2>2. obs.outcome = "Hit" /\ obs.ac \in Aircraft
    BY <1>2, <1>6 DEF Shown
  <2>3. u = AdvanceHit(p, obs.ac, should_poll_by_hex(p), t)
    BY <1>1, <1>2, <1>3, <2>2
  <2> DEFINE v == AdvanceHit(p, obs.ac, should_poll_by_hex(p), t)
  <2>4. /\ v.flight \in TrackedFlight /\ Settled(v.flight) /\ v.flight.last_visible = t
        /\ v.removal = FALSE /\ v.emits \in Seq(Announcements)
        /\ LegOf(v.flight, LastMilestone(v.emits, m))
        /\ Announced("Takeoff", v.emits) => BetweenLegs(m)
        /\ LastMilestone(v.emits, m) \in Milestones \cup {m}
    BY <1>1, <1>4, <1>5, <2>1, <2>2, HitLife
  <2>5. u = v
    BY <2>3
  <2> HIDE DEF v
  <2> QED  BY <1>6, <2>4, <2>5 DEF u, Advanced
<1>7. CASE ~Shown(f, obs, t)
  <2> DEFINE g == [p EXCEPT !.polls = IF p.last_visible = None THEN Bump(@, PollsCap) ELSE @]
  <2>1. /\ u.flight = p \/ u.flight = g
        /\ u.emits = << >> \/ u.emits = <<"TrackingLost">>
        /\ u.removal => p.last_visible # None /\ t - p.last_visible >= RemovalAfter
    <3>1. CASE obs.outcome = "Hit"
      <4>1. target_confirmation_for_aircraft(p, obs.ac, obs.used_hex, t) = None
        BY <1>1, <1>7, <3>1 DEF Shown
      <4>2. u = Update(p, << >>, FALSE, FALSE)
        BY <1>3, <3>1, <4>1 DEF AdvanceHit
      <4> QED  BY <4>2 DEF Update
    <3>2. CASE obs.outcome = "Miss"
      <4> DEFINE lost == p.last_visible # None /\ t - p.last_visible >= RemovalAfter
      <4>1. u = AdvanceMiss(p, t)
        BY <1>3, <3>2
      <4>2. /\ AdvanceMiss(p, t).flight = g /\ AdvanceMiss(p, t).removal = lost
            /\ AdvanceMiss(p, t).emits = IF lost THEN <<"TrackingLost">> ELSE << >>
        BY DEF AdvanceMiss, Update
      <4> HIDE DEF g
      <4> QED  BY <4>1, <4>2
    <3>3. CASE obs.outcome \in {"Error", "Timeout"}
      BY <1>3, <3>3 DEF Update
    <3> QED  BY <1>2, <3>1, <3>2, <3>3
  <2>2. g \in TrackedFlight /\ SameIdentity(g, p) /\ g.phase = p.phase
    <3> DEFINE polls == IF p.last_visible = None THEN Bump(p.polls, PollsCap) ELSE p.polls
    <3>1. polls \in 0 .. PollsCap
      BY <1>1 DEF TrackedFlight, Bump, PollsCap
    <3> HIDE DEF polls
    <3>2. [p EXCEPT !.polls = polls] \in TrackedFlight
      BY <1>1, <3>1 DEF TrackedFlight
    <3>3. g = [p EXCEPT !.polls = polls]
      BY DEF polls
    <3>4. SameIdentity(g, p) /\ g.phase = p.phase
      BY <1>1, FieldsOfFlights DEF FlightFields, SameIdentity
    <3> QED  BY <3>2, <3>3, <3>4
  <2> HIDE DEF g
  <2>3. SameIdentity(p, p)
    BY DEF SameIdentity
  <2>4. /\ u.flight \in TrackedFlight /\ SameIdentity(u.flight, p) /\ u.flight.phase = p.phase
    BY <1>1, <2>1, <2>2, <2>3
  <2>5. Settled(u.flight) /\ LegOf(u.flight, m) /\ u.flight.last_visible = f.last_visible
    BY <1>4, <2>4, SameIsSettled, SameLeg DEF SameIdentity
  <2>6. /\ u.emits \in Seq(Announcements) /\ LastMilestone(u.emits, m) = m
        /\ ~Announced("Takeoff", u.emits)
    BY <2>1, NothingShown
  <2> QED  BY <1>4, <1>7, <2>1, <2>4, <2>5, <2>6 DEF u, Advanced
<1> QED  BY <1>6, <1>7


-----------------------------------------------------------------------------
(* !track *)

\* A flight ADS-B has not answered for yet.
Unseen(f) ==
  /\ f \in TrackedFlight /\ Settled(f)
  /\ f.last_seen = None /\ f.last_visible = None /\ f.confirmation = "Pending"

LEMMA NamedIsUnseen ==
  ASSUME NEW id \in Identifiers, NEW cs \in Opt(Callsigns), NEW user \in Users,
         NEW checked \in BOOLEAN
  PROVE  LET f == seed_flight_aliases(NewFlight(id, cs, user, 0, checked))
         IN Unseen(f) /\ (f.id.kind = "Callsign" => f.hex = None /\ f.hex_source = None)
<1> DEFINE hex == IF id.kind = "Hex" THEN id.v ELSE None
           source == IF id.kind = "Hex" THEN "UserInput" ELSE None
           g == NewFlight(id, cs, user, 0, checked)
           aliases == g.aliases \cup (IF id.kind = "Callsign" THEN {id.v} ELSE {})
                                \cup ({cs} \ {None})
           f == seed_flight_aliases(g)
<1>1. hex \in Opt(Hexes) /\ source \in Opt(HexSources)
  BY DEF Identifiers, Opt, HexSources
<1>2. id.kind \in {"Callsign", "Hex"} /\ (id.kind = "Callsign" => id.v \in Callsigns)
  BY DEF Identifiers
<1>3. /\ "Pending" \in Confirmations /\ "Unknown" \in Phases /\ 0 \in 0 .. PollsCap
      /\ 0 \in 0 .. DivertCap /\ None \in Opt(Callsigns) /\ None \in Opt(Nat)
      /\ None \in Opt(Int) /\ None \in Opt(EmergencySquawks \cup {"1000"})
  BY DEF Confirmations, Phases, PollsCap, DivertCap, Opt
<1> HIDE DEF hex, source
<1>5. /\ g \in TrackedFlight
      /\ g.id = id /\ g.callsign = cs /\ g.aliases = {} /\ g.last_seen = None
      /\ g.last_visible = None /\ g.confirmation = "Pending"
      /\ g.hex = hex /\ g.hex_source = source
  <2>1. /\ g.id = id /\ g.callsign = cs /\ g.aliases = {} /\ g.last_seen = None
        /\ g.last_visible = None /\ g.confirmation = "Pending"
        /\ g.hex = hex /\ g.hex_source = source
    BY DEF g, NewFlight, hex, source
  <2>2. FALSE \in BOOLEAN /\ checked \in BOOLEAN /\ {} \in SUBSET Callsigns /\ 0 \in Nat
    OBVIOUS
  <2>3. g \in TrackedFlight
    BY <1>1, <1>3, <2>2 DEF TrackedFlight, g, NewFlight, hex, source
  <2> QED  BY <2>1, <2>3
<1> HIDE DEF g
<1>6. aliases \in SUBSET Callsigns
  BY <1>2, <1>5 DEF Opt
<1>7. f = [g EXCEPT !.aliases = aliases]
  BY <1>5 DEF seed_flight_aliases
<1>8. /\ id.kind = "Callsign" => id.v \in aliases
      /\ cs # None => cs \in aliases
  OBVIOUS
<1> HIDE DEF aliases, f
<1>9. f \in TrackedFlight
  BY <1>5, <1>6, <1>7 DEF TrackedFlight
<1>10. /\ f.id = id /\ f.callsign = cs /\ f.aliases = aliases /\ f.last_seen = None
       /\ f.last_visible = None /\ f.confirmation = "Pending"
       /\ f.hex = hex /\ f.hex_source = source
  BY <1>5, <1>7, FieldsOfFlights DEF FlightFields
<1>11. id.kind = "Callsign" => hex = None /\ source = None
  BY DEF hex, source
<1> QED  BY <1>8, <1>9, <1>10, <1>11 DEF Unseen, Settled, Seeded, f, g

LEMMA RouteIsSame ==
  ASSUME NEW f \in TrackedFlight, NEW known \in BOOLEAN
  PROVE  LET g == set_route_from_iata(f, known)
         IN g \in TrackedFlight /\ SameIdentity(g, f) /\ g.phase = f.phase
<1> DEFINE dest == f.dest \/ known
<1>1. dest \in BOOLEAN
  BY DEF TrackedFlight
<1>2. set_route_from_iata(f, known) = [f EXCEPT !.route = TRUE, !.dest = dest]
  BY DEF set_route_from_iata
<1> HIDE DEF dest
<1>3. [f EXCEPT !.route = TRUE, !.dest = dest] \in TrackedFlight
  BY <1>1 DEF TrackedFlight
<1> QED  BY <1>2, <1>3, FieldsOfFlights DEF FlightFields, SameIdentity

LEMMA InformedIsUnseen ==
  ASSUME NEW f, Unseen(f), f.id.kind = "Callsign", f.hex = None, f.hex_source = None,
         NEW i \in FlightInfo
  PROVE  Unseen(apply_aviationstack_metadata(f, i))
<1> DEFINE departure == IF f.departure = None THEN i.departure ELSE f.departure
           aliases == f.aliases \cup ({i.iata, i.callsign} \ {None})
           callsign == IF i.callsign = None THEN f.callsign ELSE i.callsign
           takeoff == IF i.takeoff = None THEN f.takeoff_at ELSE i.takeoff
           g == [f EXCEPT !.departure = departure, !.aliases = aliases,
                          !.callsign = callsign, !.takeoff_at = takeoff]
           h == IF i.route THEN set_route_from_iata(g, i.dest_known) ELSE g
           k == set_hex_if_consistent(h, i.hex, "AviationStack", FALSE)
<1>1. apply_aviationstack_metadata(f, i) = k
  BY DEF apply_aviationstack_metadata
<1>2. /\ i.callsign \in Opt(Callsigns) /\ i.iata \in Opt(Callsigns) /\ i.hex \in Opt(Hexes)
      /\ i.departure \in Opt(Int) /\ i.takeoff \in Opt(Int) /\ i.dest_known \in BOOLEAN
  BY DEF FlightInfo
<1>3. f \in TrackedFlight /\ Settled(f)
  BY DEF Unseen
<1>4. /\ f.departure \in Opt(Int) /\ f.takeoff_at \in Opt(Int)
      /\ f.callsign \in Opt(Callsigns) /\ f.aliases \subseteq Callsigns
  BY <1>3 DEF TrackedFlight
<1>5. /\ departure \in Opt(Int) /\ takeoff \in Opt(Int) /\ callsign \in Opt(Callsigns)
      /\ aliases \in SUBSET Callsigns
  BY <1>2, <1>4 DEF Opt
<1>6. f.aliases \subseteq aliases /\ (callsign # None => callsign \in aliases)
  BY <1>3 DEF Settled, Seeded
<1> HIDE DEF departure, takeoff, callsign, aliases
<1>7. g \in TrackedFlight
  BY <1>3, <1>5 DEF TrackedFlight
<1>8. /\ g.id = f.id /\ g.callsign = callsign /\ g.aliases = aliases
      /\ g.last_seen = None /\ g.last_visible = None /\ g.confirmation = "Pending"
      /\ g.hex = None /\ g.hex_source = None
  BY <1>3, FieldsOfFlights DEF FlightFields, Unseen
<1> HIDE DEF g
<1>9. h \in TrackedFlight /\ SameIdentity(h, g)
  BY <1>2, <1>7, RouteIsSame DEF SameIdentity
<1> HIDE DEF h
<1>10. /\ h.id = f.id /\ h.callsign = callsign /\ h.aliases = aliases
       /\ h.last_seen = None /\ h.last_visible = None /\ h.confirmation = "Pending"
       /\ h.hex = None /\ h.hex_source = None
  BY <1>8, <1>9 DEF SameIdentity
<1>11. k \in TrackedFlight
  <2>1. "AviationStack" \in HexSources
    BY DEF HexSources
  <2> QED  BY <1>2, <1>9, <2>1, HexTyped
<1>12. /\ k.id = h.id /\ k.callsign = h.callsign /\ k.aliases = h.aliases
       /\ k.confirmation = h.confirmation
       /\ k.last_seen = h.last_seen /\ k.last_visible = h.last_visible
       /\ k.hex # None => k.hex_source = "AviationStack"
  BY <1>9, <1>10, FieldsOfFlights DEF FlightFields, set_hex_if_consistent
<1> HIDE DEF k
<1>13. f.id.v \in f.aliases
  BY <1>3 DEF Settled, Seeded
<1> QED  BY <1>1, <1>6, <1>10, <1>11, <1>12, <1>13 DEF Unseen, Settled, Seeded

\* A flight as !track stores it.
Started(f) ==
  /\ f \in TrackedFlight /\ Settled(f)
  /\ f.last_visible # None => f.last_visible = 0 /\ f.confirmation # "Pending"

LEMMA AnsweredIsStarted ==
  ASSUME NEW f, Unseen(f), NEW obs \in Answers(f), NEW keep,
         FirstAnswer(f, obs, keep, 0) # None
  PROVE  Started(FirstAnswer(f, obs, keep, 0))
<1> DEFINE p == [f EXCEPT !.last_poll = 0]
           ac == obs.ac
           used == obs.used_hex /\ p.hex # None
           raw == target_confirmation_for_aircraft(p, ac, used, 0)
           direct == is_target_confirmed(raw)
           g == apply_observed_aircraft(p, ac, raw, direct)
<1>1. f \in TrackedFlight /\ Settled(f) /\ f.last_seen = None /\ f.last_visible = None
      /\ f.confirmation = "Pending"
  BY DEF Unseen
<1>2. p \in TrackedFlight /\ SameIdentity(p, f) /\ should_poll_by_hex(p) = should_poll_by_hex(f)
  BY <1>1, PolledIsSame
<1>3. /\ obs.outcome = "Hit" => ac \in Aircraft
      /\ obs.used_hex = should_poll_by_hex(f)
  BY LifeAssumption DEF Answers
<1>4. FirstAnswer(f, obs, keep, 0) =
        IF obs.outcome = "Hit" THEN FirstHit(p, ac, obs.used_hex, keep, 0)
        ELSE IF keep THEN p ELSE None
  BY DEF FirstAnswer
<1> HIDE DEF p, ac
<1>5. Settled(p) /\ p.last_seen = None /\ p.last_visible = None
  BY <1>1, <1>2, SameIsSettled DEF SameIdentity
<1>6. Started(p)
  BY <1>2, <1>5 DEF Started
<1>7. CASE obs.outcome # "Hit"
  BY <1>4, <1>6, <1>7
<1>8. CASE obs.outcome = "Hit" /\ raw = None
  <2> DEFINE polls == Bump(p.polls, PollsCap)
             b == [p EXCEPT !.polls = polls]
  <2>1. FirstHit(p, ac, obs.used_hex, keep, 0) = IF keep THEN b ELSE None
    BY <1>8 DEF FirstHit
  <2>2. polls \in 0 .. PollsCap
    BY <1>2 DEF TrackedFlight, Bump, PollsCap
  <2> HIDE DEF polls
  <2>3. b \in TrackedFlight
    BY <1>2, <2>2 DEF TrackedFlight
  <2>4. SameIdentity(b, p)
    BY <1>2, FieldsOfFlights DEF FlightFields, SameIdentity
  <2> HIDE DEF b
  <2>5. Started(b)
    BY <1>5, <2>3, <2>4, SameIsSettled DEF Started, SameIdentity
  <2> QED  BY <1>4, <1>8, <2>1, <2>5
<1>9. CASE obs.outcome = "Hit" /\ raw # None
  <2> DEFINE phase == detect_phase(g, ac)
             b == [g EXCEPT !.last_seen = 0, !.last_visible = 0, !.phase = phase]
  <2>1. FirstHit(p, ac, obs.used_hex, keep, 0) = IF direct THEN b ELSE g
    BY <1>9 DEF FirstHit
  <2>2. raw \in Confirmations \ {"Pending"} /\ ac \in Aircraft
    BY <1>2, <1>3, <1>9, ConfirmationTyped
  <2>3. ~direct => used
    <3>1. raw \in {"ConfirmedByCallsign", "InferredByAssignedHex", "AircraftVisible"}
      BY <2>2 DEF Confirmations
    <3>2. ~used => raw = "ConfirmedByCallsign"
      BY <1>9 DEF target_confirmation_for_aircraft
    <3> HIDE DEF raw, used
    <3> QED  BY <3>1, <3>2 DEF is_target_confirmed
  <2>4. (~direct /\ p.id.kind = "Callsign") => p.hex_source = "AviationStack"
    BY <1>5, <2>3 DEF Settled
  <2> HIDE DEF raw, direct
  <2>5. /\ g \in TrackedFlight /\ Seeded(g) /\ g.id = p.id /\ g.confirmation = raw
        /\ g.last_seen = None /\ g.last_visible = None
        /\ (~direct /\ p.hex_source # None) => g.hex_source = p.hex_source
    BY <1>2, <1>5, <2>2, ObservedTyped, ObservedIdentity DEF Settled
  <2> HIDE DEF g
  <2>6. CASE direct
    <3>1. phase \in Phases
      <4>1. g.phase \in Phases
        BY <2>5 DEF TrackedFlight
      <4> QED  BY <4>1, PhaseDetected
    <3> HIDE DEF phase
    <3>2. 0 \in Opt(Nat) /\ 0 # None
      BY AdvanceAssumption DEF Opt
    <3>3. b \in TrackedFlight
      BY <2>5, <3>1, <3>2 DEF TrackedFlight
    <3>4. /\ b.id = g.id /\ b.callsign = g.callsign /\ b.aliases = g.aliases
          /\ b.confirmation = g.confirmation /\ b.last_seen = 0 /\ b.last_visible = 0
      BY <2>5, FieldsOfFlights DEF FlightFields
    <3> HIDE DEF b
    <3>5. Settled(b)
      BY <2>2, <2>5, <3>2, <3>4 DEF Settled, Seeded
    <3> QED  BY <1>4, <1>9, <2>1, <2>2, <2>5, <2>6, <3>2, <3>3, <3>4, <3>5 DEF Started
  <2>7. CASE ~direct
    <3>1. "AviationStack" # None
      BY LifeAssumption DEF HexSources
    <3>2. Settled(g)
      BY <2>4, <2>5, <2>7, <3>1 DEF Settled
    <3> QED  BY <1>4, <1>9, <2>1, <2>5, <2>7, <3>2 DEF Started
  <2> QED  BY <2>6, <2>7
<1> QED  BY <1>7, <1>8, <1>9


-----------------------------------------------------------------------------
(* The life of a flight *)

\* The flight is settled, the last milestone fits its phase, and it was last
\* visible when the aircraft was last reported.
LifeInv ==
  /\ now \in Instants /\ emits \in Seq(Announcements)
  /\ milestone \in Opt(Milestones) /\ visible_at \in Opt(Instants)
  /\ flight # None =>
       /\ flight \in TrackedFlight /\ Settled(flight) /\ LegOf(flight, milestone)
       /\ flight.last_visible # None => flight.last_visible = visible_at

LEMMA InformedIsStarted ==
  ASSUME NEW f, Started(f), f.id.kind # "Callsign", NEW i \in FlightInfo
  PROVE  Started(apply_aviationstack_metadata(f, i))
<1> DEFINE departure == IF f.departure = None THEN i.departure ELSE f.departure
           aliases == f.aliases \cup ({i.iata, i.callsign} \ {None})
           callsign == IF i.callsign = None THEN f.callsign ELSE i.callsign
           takeoff == IF i.takeoff = None THEN f.takeoff_at ELSE i.takeoff
           g == [f EXCEPT !.departure = departure, !.aliases = aliases,
                          !.callsign = callsign, !.takeoff_at = takeoff]
           h == IF i.route THEN set_route_from_iata(g, i.dest_known) ELSE g
           k == set_hex_if_consistent(h, i.hex, "AviationStack", FALSE)
<1>1. apply_aviationstack_metadata(f, i) = k
  BY DEF apply_aviationstack_metadata
<1>2. /\ i.callsign \in Opt(Callsigns) /\ i.iata \in Opt(Callsigns) /\ i.hex \in Opt(Hexes)
      /\ i.departure \in Opt(Int) /\ i.takeoff \in Opt(Int) /\ i.dest_known \in BOOLEAN
  BY DEF FlightInfo
<1>3. f \in TrackedFlight /\ Settled(f)
  BY DEF Started
<1>4. /\ f.departure \in Opt(Int) /\ f.takeoff_at \in Opt(Int)
      /\ f.callsign \in Opt(Callsigns) /\ f.aliases \subseteq Callsigns
  BY <1>3 DEF TrackedFlight
<1>5. /\ departure \in Opt(Int) /\ takeoff \in Opt(Int) /\ callsign \in Opt(Callsigns)
      /\ aliases \in SUBSET Callsigns
  BY <1>2, <1>4 DEF Opt
<1>6. callsign # None => callsign \in aliases
  BY <1>3 DEF Settled, Seeded
<1> HIDE DEF departure, takeoff, callsign, aliases
<1>7. g \in TrackedFlight
  BY <1>3, <1>5 DEF TrackedFlight
<1>8. /\ g.id = f.id /\ g.callsign = callsign /\ g.aliases = aliases
      /\ g.last_seen = f.last_seen /\ g.last_visible = f.last_visible
      /\ g.confirmation = f.confirmation
  BY <1>3, FieldsOfFlights DEF FlightFields
<1> HIDE DEF g
<1>9. h \in TrackedFlight /\ SameIdentity(h, g)
  BY <1>2, <1>7, RouteIsSame DEF SameIdentity
<1> HIDE DEF h
<1>10. k \in TrackedFlight
  <2>1. "AviationStack" \in HexSources
    BY DEF HexSources
  <2> QED  BY <1>2, <1>9, <2>1, HexTyped
<1>11. /\ k.id = h.id /\ k.callsign = h.callsign /\ k.aliases = h.aliases
       /\ k.confirmation = h.confirmation
       /\ k.last_seen = h.last_seen /\ k.last_visible = h.last_visible
  BY <1>9, FieldsOfFlights DEF FlightFields, set_hex_if_consistent
<1> HIDE DEF k
<1>12. /\ k.id = f.id /\ k.callsign = callsign /\ k.aliases = aliases
       /\ k.confirmation = f.confirmation
       /\ k.last_seen = f.last_seen /\ k.last_visible = f.last_visible
  BY <1>8, <1>9, <1>11 DEF SameIdentity
<1> QED  BY <1>1, <1>3, <1>6, <1>10, <1>12 DEF Started, Settled, Seeded

LEMMA CompletedIsStarted ==
  ASSUME NEW f, Started(f), NEW m \in Metadata
  PROVE  Completed(f, m) # None /\ Started(Completed(f, m))
<1> DEFINE g == [f EXCEPT !.checked = TRUE]
<1>1. f \in TrackedFlight /\ Settled(f)
  BY DEF Started
<1>2. g \in TrackedFlight /\ SameIdentity(g, f)
  <2>1. g \in TrackedFlight
    BY <1>1 DEF TrackedFlight
  <2> QED  BY <1>1, <2>1, FieldsOfFlights DEF FlightFields, SameIdentity
<1>3. Completed(f, m) = IF f.id.kind = "Callsign" \/ f.callsign = None THEN f
                        ELSE IF m = None THEN g ELSE apply_aviationstack_metadata(g, m)
  BY DEF Completed
<1> HIDE DEF g
<1>4. Started(g) /\ g.id = f.id
  BY <1>1, <1>2, SameIsSettled DEF Started, SameIdentity
<1>5. CASE f.id.kind = "Callsign" \/ f.callsign = None
  BY <1>1, <1>3, <1>5, LifeAssumption
<1>6. CASE ~(f.id.kind = "Callsign" \/ f.callsign = None) /\ m = None
  BY <1>2, <1>3, <1>4, <1>6, LifeAssumption
<1>7. CASE ~(f.id.kind = "Callsign" \/ f.callsign = None) /\ m # None
  <2>1. m \in FlightInfo
    BY <1>7, LifeAssumption DEF Opt
  <2>2. Started(apply_aviationstack_metadata(g, m))
    BY <1>4, <1>7, <2>1, InformedIsStarted
  <2> QED  BY <1>3, <1>7, <2>2, LifeAssumption DEF Started
<1> QED  BY <1>5, <1>6, <1>7

LEMMA StartedFlightsAreStarted ==
  ASSUME NEW f \in StartedFlights
  PROVE  f # None /\ Started(f)
<1> DEFINE asked == {r \in Idents \X Opt(Callsigns) \X Users :
                       r[1].kind = "Hex" <=> r[2] = None}
           named == {seed_flight_aliases(NewFlight(r[1], r[2], r[3], 0, r[1].kind = "Callsign"))
                       : r \in asked}
           Informed(g, m) == IF m = None \/ g.id.kind = "Hex" THEN g
                             ELSE apply_aviationstack_metadata(g, m)
           informed == {Informed(g, m) : g \in named, m \in Metadata}
           answered == UNION {{FirstAnswer(g, obs, g.id.kind = "Callsign", 0) : obs \in Answers(g)}
                                : g \in {e \in informed : ~should_skip_adsb_for_strict_chill(e)}}
           skipped == {g \in informed : should_skip_adsb_for_strict_chill(g)}
<1>1. PICK s \in skipped \cup (answered \ {None}), c \in Metadata : f = Completed(s, c)
  <2>1. StartedFlights = {Completed(s, c) : s \in skipped \cup (answered \ {None}), c \in Metadata}
    BY DEF StartedFlights
  <2> HIDE DEF skipped, answered
  <2> QED  BY <2>1
<1>2. \A g \in named : Unseen(g) /\ (g.id.kind = "Callsign" => g.hex = None /\ g.hex_source = None)
  <2> TAKE g \in named
  <2>1. PICK r \in asked :
           g = seed_flight_aliases(NewFlight(r[1], r[2], r[3], 0, r[1].kind = "Callsign"))
    OBVIOUS
  <2>2. r[1] \in Identifiers /\ r[2] \in Opt(Callsigns) /\ r[3] \in Users
    BY LifeAssumption
  <2> DEFINE checked == r[1].kind = "Callsign"
  <2>3. checked \in BOOLEAN
    OBVIOUS
  <2>4. g = seed_flight_aliases(NewFlight(r[1], r[2], r[3], 0, checked))
    BY <2>1
  <2> HIDE DEF checked
  <2> QED  BY <2>2, <2>3, <2>4, NamedIsUnseen
<1> HIDE DEF named
<1>3. \A g \in informed : Unseen(g)
  <2> TAKE h \in informed
  <2>1. PICK g \in named, m \in Metadata : h = Informed(g, m)
    OBVIOUS
  <2>2. CASE m = None \/ g.id.kind = "Hex"
    BY <1>2, <2>1, <2>2
  <2>3. CASE ~(m = None \/ g.id.kind = "Hex")
    <3>1. m \in FlightInfo
      BY <2>3, LifeAssumption DEF Opt
    <3>2. g.id.kind = "Callsign"
      <4>1. g.id \in Identifiers
        BY <1>2 DEF Unseen, TrackedFlight
      <4> QED  BY <2>3, <4>1 DEF Identifiers
    <3> QED  BY <1>2, <2>1, <2>3, <3>1, <3>2, InformedIsUnseen
  <2> QED  BY <2>2, <2>3
<1> HIDE DEF informed
<1>4. s \in skipped => Started(s)
  BY <1>3 DEF Unseen, Started
<1>5. s \in answered \ {None} => Started(s)
  <2> DEFINE Keep(g) == g.id.kind = "Callsign"
  <2> SUFFICES ASSUME s \in answered \ {None}  PROVE Started(s)
    OBVIOUS
  <2>1. PICK g \in informed : s \in {FirstAnswer(g, obs, Keep(g), 0) : obs \in Answers(g)}
    OBVIOUS
  <2> HIDE DEF Keep
  <2>2. PICK obs \in Answers(g) : s = FirstAnswer(g, obs, Keep(g), 0)
    BY <2>1
  <2> QED  BY <1>3, <2>2, AnsweredIsStarted
<1> HIDE DEF skipped, answered
<1>6. Started(s)
  BY <1>1, <1>4, <1>5
<1> QED  BY <1>1, <1>6, CompletedIsStarted

LEMMA LifeInit == Init => LifeInv
<1> SUFFICES ASSUME Init  PROVE LifeInv
  OBVIOUS
<1>1. Started(flight)
  BY StartedFlightsAreStarted DEF Init
<1>2. LegOf(flight, None)
  BY DEF LegOf, BetweenLegs
<1>3. /\ now = 0 /\ emits = << >> /\ milestone = None
      /\ visible_at = IF flight.confirmation = "Pending" THEN None ELSE 0
  BY DEF Init
<1>4. 0 \in Instants
  BY LifeAssumption
<1>5. flight.last_visible # None => flight.last_visible = visible_at
  BY <1>1, <1>3 DEF Started
<1>6. visible_at \in Opt(Instants) /\ milestone \in Opt(Milestones)
  BY <1>3, <1>4 DEF Opt
<1> QED  BY <1>1, <1>2, <1>3, <1>4, <1>5, <1>6 DEF LifeInv, Started

LEMMA NextLifeInv ==
  ASSUME now' \in Instants, emits' \in Seq(Announcements),
         milestone' \in Opt(Milestones), visible_at' \in Opt(Instants),
         flight' # None =>
           /\ flight' \in TrackedFlight /\ Settled(flight') /\ LegOf(flight', milestone')
           /\ flight'.last_visible # None => flight'.last_visible = visible_at'
  PROVE  LifeInv'
<1>1. Settled(flight') => Settled(flight)'
  BY DEF Settled, Seeded
<1>2. LegOf(flight', milestone') => LegOf(flight, milestone)'
  BY DEF LegOf, Parked, BetweenLegs, is_pending_adsb
<1>3. (flight \in TrackedFlight)' <=> flight' \in TrackedFlight
  BY DEF TrackedFlight
<1>4. flight' # None =>
        /\ (flight \in TrackedFlight)' /\ Settled(flight)' /\ LegOf(flight, milestone)'
        /\ flight'.last_visible # None => flight'.last_visible = visible_at'
  BY <1>1, <1>2, <1>3
<1> QED  BY <1>4 DEF LifeInv

LEMMA LifePoll ==
  ASSUME LifeInv, flight # None, NEW obs \in Answers(flight), Poll(obs)
  PROVE  /\ LifeInv'
         /\ Announced("Takeoff", emits') => milestone \in {None, "Landing"}
         /\ flight' = None => visible_at # None /\ now - visible_at >= RemovalAfter
<1> DEFINE u == advance_flight(flight, obs, now)
<1>1. /\ flight \in TrackedFlight /\ Settled(flight) /\ LegOf(flight, milestone)
      /\ flight.last_visible # None => flight.last_visible = visible_at
      /\ now \in Instants /\ now \in Nat
      /\ milestone \in Opt(Milestones) /\ visible_at \in Opt(Instants)
  BY LifeAssumption DEF LifeInv
<1>2. /\ u.flight \in TrackedFlight /\ Settled(u.flight) /\ u.emits \in Seq(Announcements)
      /\ LegOf(u.flight, LastMilestone(u.emits, milestone))
      /\ Announced("Takeoff", u.emits) => BetweenLegs(milestone)
      /\ LastMilestone(u.emits, milestone) \in Milestones \cup {milestone}
      /\ Shown(flight, obs, now) => u.removal = FALSE /\ u.flight.last_visible = now
      /\ ~Shown(flight, obs, now) => u.flight.last_visible = flight.last_visible
      /\ u.removal => flight.last_visible # None /\ now - flight.last_visible >= RemovalAfter
  <2>1. Advanced(u, flight, obs, milestone, now)
    BY <1>1, AdvanceLife
  <2> HIDE DEF u
  <2> QED  BY <2>1 DEF Advanced
<1>3. /\ flight' = IF u.removal THEN None ELSE u.flight
      /\ emits' = u.emits /\ milestone' = LastMilestone(u.emits, milestone)
      /\ visible_at' = IF Shown(flight, obs, now) THEN now ELSE visible_at
      /\ now' = now
  BY DEF Poll, Shown
<1> HIDE DEF u
<1>4. flight' = None => u.removal
  BY <1>1, <1>2, <1>3, LifeAssumption
<1>5. milestone' \in Opt(Milestones) /\ visible_at' \in Opt(Instants)
  BY <1>1, <1>2, <1>3 DEF Opt
<1>6. flight' # None =>
        /\ flight' \in TrackedFlight /\ Settled(flight') /\ LegOf(flight', milestone')
        /\ flight'.last_visible # None => flight'.last_visible = visible_at'
  <2> HAVE flight' # None
  <2>1. flight' = u.flight
    BY <1>3
  <2>2. CASE Shown(flight, obs, now)
    BY <1>2, <1>3, <2>1, <2>2
  <2>3. CASE ~Shown(flight, obs, now)
    BY <1>1, <1>2, <1>3, <2>1, <2>3
  <2> QED  BY <2>2, <2>3
<1>7. LifeInv'
  BY <1>1, <1>2, <1>3, <1>5, <1>6, NextLifeInv
<1> QED  BY <1>1, <1>2, <1>3, <1>4, <1>7 DEF BetweenLegs


LEMMA LifeNext ==
  ASSUME LifeInv, [Next]_vars
  PROVE  /\ LifeInv'
         /\ ~UNCHANGED vars =>
              /\ Announced("Takeoff", emits') => milestone \in {None, "Landing"}
              /\ (flight # None /\ flight' = None) =>
                   visible_at # None /\ now - visible_at >= RemovalAfter
<1>1. /\ now \in Instants /\ emits \in Seq(Announcements)
      /\ milestone \in Opt(Milestones) /\ visible_at \in Opt(Instants)
      /\ flight # None =>
           /\ flight \in TrackedFlight /\ Settled(flight) /\ LegOf(flight, milestone)
           /\ flight.last_visible # None => flight.last_visible = visible_at
  BY DEF LifeInv
<1>2. CASE flight # None /\ \E obs \in Answers(flight) : Poll(obs)
  BY <1>2, LifePoll
<1>3. /\ << >> \in Seq(Announcements) /\ ~Announced("Takeoff", << >>)
      /\ None \notin TrackedFlight
  BY <1>1, LifeAssumption DEF Announced
<1>4. CASE RouteKnown
  <2>1. PICK known \in BOOLEAN : flight' = set_route_from_iata(flight, known)
    BY <1>4 DEF RouteKnown
  <2>2. /\ flight # None /\ emits' = << >> /\ now' = now
        /\ milestone' = milestone /\ visible_at' = visible_at
    BY <1>4 DEF RouteKnown, history
  <2>3. /\ flight' \in TrackedFlight /\ SameIdentity(flight', flight)
        /\ flight'.phase = flight.phase
    BY <1>1, <2>1, <2>2, RouteIsSame
  <2>4. /\ Settled(flight') /\ LegOf(flight', milestone)
        /\ flight'.last_visible = flight.last_visible
    BY <1>1, <2>2, <2>3, SameIsSettled, SameLeg DEF SameIdentity
  <2>5. LifeInv'
    BY <1>1, <1>3, <2>2, <2>3, <2>4, NextLifeInv
  <2> QED  BY <1>3, <2>2, <2>3, <2>5
<1>5. CASE Restart
  <2>1. /\ flight # None /\ flight' = flight /\ emits' = << >> /\ now' = now
        /\ milestone' = milestone /\ visible_at' = visible_at
    BY <1>1, <1>5, NothingToRepair DEF Restart, history
  <2>2. LifeInv'
    BY <1>1, <1>3, <2>1, NextLifeInv
  <2> QED  BY <1>3, <2>1, <2>2
<1>6. CASE Tick
  <2>1. /\ flight # None /\ flight' = flight /\ emits' = << >>
        /\ now' \in Instants /\ milestone' = milestone /\ visible_at' = visible_at
    BY <1>6 DEF Tick, history
  <2>2. LifeInv'
    BY <1>1, <1>3, <2>1, NextLifeInv
  <2> QED  BY <1>3, <2>1, <2>2
<1>7. CASE UNCHANGED vars
  <2>1. /\ flight' = flight /\ emits' = emits /\ now' = now
        /\ milestone' = milestone /\ visible_at' = visible_at
    BY <1>7 DEF vars, history
  <2>2. LifeInv'
    BY <1>1, <2>1, NextLifeInv
  <2> QED  BY <1>7, <2>2
<1> QED  BY <1>2, <1>4, <1>5, <1>6, <1>7 DEF Next

LEMMA LifeInvHolds == Spec => []LifeInv
<1>1. LifeInv /\ [Next]_vars => LifeInv'
  BY LifeNext
<1> QED  BY <1>1, LifeInit, PTL DEF Spec

\* Every reachable flight is a TrackedFlight, and the clock and the announcements
\* are what advance_flight can make of them.
THEOREM LifeTypeCorrect == Spec => []TypeOK
<1>1. LifeInv => TypeOK
  BY DEF LifeInv, TypeOK, Announcements, Opt
<1> QED  BY <1>1, LifeInvHolds, PTL

\* A restart leaves every flight this version writes as it was (load_tracker_state).
THEOREM RestartChangesNothing == Spec => []RestartIsIdentity
<1>1. LifeInv => RestartIsIdentity
  BY NothingToRepair DEF LifeInv, RestartIsIdentity
<1> QED  BY <1>1, LifeInvHolds, PTL

\* advance_flight announces a takeoff only as the first phase of a leg.
THEOREM OneTakeoffPerLeg == Spec => TakeoffOncePerLeg
<1>1. LifeInv /\ [Next]_vars =>
        [Announced("Takeoff", emits') => milestone \in {None, "Landing"}]_vars
  BY LifeNext
<1> QED  BY <1>1, LifeInvHolds, PTL DEF Spec, TakeoffOncePerLeg

\* advance_flight gives a flight up only after the whole grace window unseen.
THEOREM GivenUpAfterGrace == Spec => RemovedOnlyAfterGrace
<1>1. LifeInv /\ [Next]_vars =>
        [(flight # None /\ flight' = None) =>
            visible_at # None /\ now - visible_at >= RemovalAfter]_vars
  BY LifeNext
<1> QED  BY <1>1, LifeInvHolds, PTL DEF Spec, RemovedOnlyAfterGrace

-----------------------------------------------------------------------------
(* The pace of the polls *)

\* What the schedule reads of a flight.
Timed(f) ==
  /\ f.tracked_at \in Nat /\ f.departure \in Opt(Int) /\ f.last_poll \in Opt(Nat)

NotDueAt(t) == [kind |-> "NotDue", at |-> t]

LEMMA EarlierLater ==
  \A a, b \in Int : /\ Earlier(a, b) = IF a <= b THEN a ELSE b
                    /\ Later(a, b) = IF a >= b THEN a ELSE b
  BY DEF Earlier, Later

LEMMA PacesArePositive ==
  /\ POLL_FAST \in Nat \ {0} /\ POLL_NORMAL \in Nat \ {0} /\ POLL_SLOW \in Nat \ {0}
  /\ POLL_60_SEC \in Nat \ {0} /\ POLL_2_MIN \in Nat \ {0} /\ POLL_5_MIN \in Nat \ {0}
  /\ POLL_10_MIN \in Nat \ {0} /\ POLL_15_MIN \in Nat \ {0} /\ POLL_30_MIN \in Nat \ {0}
  BY ScheduleAssumption DEF Paces

LEMMA LivePace ==
  ASSUME NEW f
  PROVE  live_poll_interval(f) \in Nat \ {0} /\ live_poll_interval(f) <= POLL_SLOW
  BY PacesArePositive, ScheduleAssumption DEF live_poll_interval

\* The stages around a departure d, one after the other.
LEMMA Stages ==
  ASSUME NEW d \in Int, NEW t \in Int, NEW e
  PROVE  LET s == ScheduledStage(d, t, e) IN
    /\ t < d - WAKE_BEFORE => s = Active(POLL_15_MIN, d - WAKE_BEFORE, d - WAKE_BEFORE, e)
    /\ d - WAKE_BEFORE <= t /\ t < d - LOCK_IN_BEFORE =>
         s = Active(POLL_15_MIN, d - WAKE_BEFORE, d - LOCK_IN_BEFORE, e)
    /\ d - LOCK_IN_BEFORE <= t /\ t < d - HUNT_BEFORE =>
         s = Active(POLL_5_MIN, d - LOCK_IN_BEFORE, d - HUNT_BEFORE, e)
    /\ d - HUNT_BEFORE <= t /\ t <= d => s = Active(POLL_60_SEC, d - HUNT_BEFORE, d, e)
    /\ d < t /\ t <= d + NEAR_AFTER => s = Active(POLL_2_MIN, d, d + NEAR_AFTER, e)
    /\ d + NEAR_AFTER < t /\ t <= d + MID_AFTER =>
         s = Active(POLL_5_MIN, d + NEAR_AFTER, d + MID_AFTER, e)
    /\ d + MID_AFTER < t => s = Active(POLL_15_MIN, d + MID_AFTER, None, e)
<1>1. /\ WAKE_BEFORE \in Nat /\ LOCK_IN_BEFORE \in Nat /\ HUNT_BEFORE \in Nat \ {0}
      /\ NEAR_AFTER \in Nat \ {0} /\ MID_AFTER \in Nat
      /\ HUNT_BEFORE < LOCK_IN_BEFORE /\ LOCK_IN_BEFORE < WAKE_BEFORE /\ NEAR_AFTER < MID_AFTER
  BY ScheduleAssumption
<1>2. CASE t < d - WAKE_BEFORE
  BY <1>1, <1>2 DEF ScheduledStage
<1>3. CASE d - WAKE_BEFORE <= t /\ t < d - LOCK_IN_BEFORE
  BY <1>1, <1>3 DEF ScheduledStage
<1>4. CASE d - LOCK_IN_BEFORE <= t /\ t < d - HUNT_BEFORE
  BY <1>1, <1>4 DEF ScheduledStage
<1>5. CASE d - HUNT_BEFORE <= t /\ t <= d
  BY <1>1, <1>5 DEF ScheduledStage
<1>6. CASE d < t /\ t <= d + NEAR_AFTER
  BY <1>1, <1>6 DEF ScheduledStage
<1>7. CASE d + NEAR_AFTER < t /\ t <= d + MID_AFTER
  BY <1>1, <1>7 DEF ScheduledStage
<1>8. CASE d + MID_AFTER < t
  BY <1>1, <1>8 DEF ScheduledStage
<1>9. \/ t < d - WAKE_BEFORE
      \/ d - WAKE_BEFORE <= t /\ t < d - LOCK_IN_BEFORE
      \/ d - LOCK_IN_BEFORE <= t /\ t < d - HUNT_BEFORE
      \/ d - HUNT_BEFORE <= t /\ t <= d
      \/ d < t /\ t <= d + NEAR_AFTER
      \/ d + NEAR_AFTER < t /\ t <= d + MID_AFTER
      \/ d + MID_AFTER < t
  BY <1>1
<1> QED  BY <1>2, <1>3, <1>4, <1>5, <1>6, <1>7, <1>8, <1>9


-----------------------------------------------------------------------------
(* What an Advance leaves of a flight *)

\* g is f but for its identity, its phase and its counters.
SameTimes(g, f) ==
  /\ DOMAIN g = DOMAIN f
  /\ g.tracked_at = f.tracked_at /\ g.departure = f.departure
  /\ g.last_poll = f.last_poll /\ g.last_visible = f.last_visible

LEMMA HexKeepsTimes ==
  ASSUME NEW f, FlightFields \subseteq DOMAIN f, NEW hex, NEW source, NEW promote
  PROVE  LET g == set_hex_if_consistent(f, hex, source, promote)
         IN SameTimes(g, f) /\ g.confirmation = f.confirmation
  BY DEF FlightFields, SameTimes, set_hex_if_consistent

LEMMA ObservedKeepsTimes ==
  ASSUME NEW f, FlightFields \subseteq DOMAIN f, NEW ac, NEW confirmation, NEW direct
  PROVE  LET g == apply_observed_aircraft(f, ac, confirmation, direct)
         IN SameTimes(g, f) /\ g.confirmation = confirmation
<1> DEFINE resolved == IF newly_resolved(f, ac, confirmation) THEN ac.flight ELSE f.callsign
           g == [f EXCEPT !.confirmation = confirmation, !.observed = ac.flight,
                          !.callsign = resolved,
                          !.aliases = IF newly_resolved(f, ac, confirmation)
                                      THEN @ \cup {ac.flight} ELSE @,
                          !.located = ac.located, !.squawk = ac.squawk]
<1>1. DOMAIN g = DOMAIN f /\ g.confirmation = confirmation /\ SameTimes(g, f)
  BY DEF FlightFields, SameTimes
<1>2. apply_observed_aircraft(f, ac, confirmation, direct)
        = set_hex_if_consistent(g, ac.hex, "Adsb", direct)
  BY DEF apply_observed_aircraft
<1> HIDE DEF g
<1>3. LET k == set_hex_if_consistent(g, ac.hex, "Adsb", direct)
      IN SameTimes(k, g) /\ k.confirmation = g.confirmation
  BY <1>1, HexKeepsTimes
<1> QED  BY <1>1, <1>2, <1>3 DEF SameTimes

LEMMA PhaseKeepsTimes ==
  ASSUME NEW f, FlightFields \subseteq DOMAIN f, NEW ac, NEW t
  PROVE  LET g == PhaseStep(f, ac, t).flight
         IN SameTimes(g, f) /\ g.confirmation = f.confirmation
  BY DEF FlightFields, SameTimes, PhaseStep

LEMMA DivertKeepsTimes ==
  ASSUME NEW f, FlightFields \subseteq DOMAIN f, NEW ac, NEW was_located, NEW sampled
  PROVE  LET g == DivertStep(f, ac, was_located, sampled).flight
         IN SameTimes(g, f) /\ g.confirmation = f.confirmation
  BY DEF FlightFields, SameTimes, DivertStep


\* What a sighting makes of a flight: it is visible now and not pending, and
\* nothing else the schedule reads has changed; or the aircraft was not the target.
LEMMA HitTimes ==
  ASSUME NEW f, FlightFields \subseteq DOMAIN f, NEW ac, NEW used_hex, NEW t
  PROVE  LET u == AdvanceHit(f, ac, used_hex, t)
         IN \/ u.flight = f
            \/ /\ DOMAIN u.flight = DOMAIN f
               /\ u.flight.tracked_at = f.tracked_at /\ u.flight.departure = f.departure
               /\ u.flight.last_poll = f.last_poll /\ u.flight.last_visible = t
               /\ u.flight.confirmation # "Pending"
<1> DEFINE raw == target_confirmation_for_aircraft(f, ac, used_hex, t)
           direct == is_target_confirmed(raw)
           sticky == should_keep_prior_confirmation(f, raw, used_hex, t)
           confirmation == IF sticky THEN f.confirmation ELSE raw
           sampled == direct \/ (sticky /\ ac.flight = None)
           became == ~is_target_confirmed(f.confirmation) /\ direct
           seen == [f EXCEPT !.last_visible = t, !.last_seen = IF direct THEN t ELSE @]
           identified == apply_observed_aircraft(seen, ac, confirmation, direct)
           restarted == IF became /\ is_pending_adsb(f)
                        THEN [identified EXCEPT !.phase = "Unknown", !.polls = 0]
                        ELSE identified
           phased == IF sampled THEN PhaseStep(restarted, ac, t)
                     ELSE [flight |-> restarted, emits |-> << >>]
           diverted == DivertStep(phased.flight, ac, f.located, sampled)
<1>1. AdvanceHit(f, ac, used_hex, t).flight = IF raw = None THEN f ELSE diverted.flight
  BY DEF AdvanceHit, Update
<1>2. raw # None => confirmation # "Pending"
  <2>1. raw = None \/ raw \in {"ConfirmedByCallsign", "InferredByAssignedHex", "AircraftVisible"}
    BY DEF target_confirmation_for_aircraft
  <2>2. sticky => f.confirmation \in {"ConfirmedByCallsign", "InferredByAssignedHex"}
    BY DEF should_keep_prior_confirmation, is_target_confirmed
  <2> HIDE DEF raw, sticky
  <2> QED  BY <2>1, <2>2
<1> HIDE DEF raw, direct, sticky, confirmation, sampled, became
<1>3. /\ DOMAIN seen = DOMAIN f /\ seen.tracked_at = f.tracked_at
      /\ seen.departure = f.departure /\ seen.last_poll = f.last_poll
      /\ seen.last_visible = t
  BY DEF FlightFields
<1> HIDE DEF seen
<1>4. SameTimes(identified, seen) /\ identified.confirmation = confirmation
  BY <1>3, ObservedKeepsTimes
<1> HIDE DEF identified
<1>5. SameTimes(restarted, identified) /\ restarted.confirmation = confirmation
  BY <1>3, <1>4 DEF FlightFields, SameTimes
<1> HIDE DEF restarted
<1>6. FlightFields \subseteq DOMAIN restarted
  BY <1>3, <1>4, <1>5 DEF SameTimes
<1>7. SameTimes(phased.flight, restarted) /\ phased.flight.confirmation = confirmation
  <2>1. CASE sampled
    BY <1>5, <1>6, <2>1, PhaseKeepsTimes
  <2>2. CASE ~sampled
    BY <1>5, <2>2 DEF SameTimes
  <2> QED  BY <2>1, <2>2
<1> HIDE DEF phased
<1>8. SameTimes(diverted.flight, phased.flight) /\ diverted.flight.confirmation = confirmation
  <2>1. FlightFields \subseteq DOMAIN phased.flight
    BY <1>6, <1>7 DEF SameTimes
  <2> QED  BY <1>7, <2>1, DivertKeepsTimes
<1> HIDE DEF diverted
<1> QED  BY <1>1, <1>2, <1>3, <1>4, <1>5, <1>7, <1>8 DEF SameTimes

\* What one poll makes of a flight, and when it keeps one that was not shown.
LEMMA AdvanceTimes ==
  ASSUME NEW f, FlightFields \subseteq DOMAIN f, NEW obs, obs.outcome \in Outcomes, NEW t
  PROVE  LET u == advance_flight(f, obs, t)  g == u.flight
         IN /\ FlightFields \subseteq DOMAIN g
            /\ g.tracked_at = f.tracked_at /\ g.departure = f.departure /\ g.last_poll = t
            /\ \/ g.last_visible = t /\ g.confirmation # "Pending"
               \/ g.last_visible = f.last_visible /\ g.confirmation = f.confirmation
            /\ (obs.outcome = "Miss" /\ ~u.removal /\ g.last_visible # None)
                 => ~(t - g.last_visible >= RemovalAfter)
<1> DEFINE p == [f EXCEPT !.last_poll = t]
<1>1. /\ DOMAIN p = DOMAIN f /\ p.tracked_at = f.tracked_at /\ p.departure = f.departure
      /\ p.last_poll = t /\ p.last_visible = f.last_visible
      /\ p.confirmation = f.confirmation
  BY DEF FlightFields
<1>2. advance_flight(f, obs, t) =
        CASE obs.outcome = "Hit"  -> AdvanceHit(p, obs.ac, obs.used_hex, t)
          [] obs.outcome = "Miss" -> AdvanceMiss(p, t)
          [] obs.outcome \in {"Error", "Timeout"} -> Update(p, << >>, FALSE, FALSE)
  BY DEF advance_flight
<1> HIDE DEF p
<1>3. CASE obs.outcome = "Hit"
  <2>1. advance_flight(f, obs, t) = AdvanceHit(p, obs.ac, obs.used_hex, t)
    BY <1>2, <1>3
  <2>2. LET u == AdvanceHit(p, obs.ac, obs.used_hex, t)
        IN \/ u.flight = p
           \/ /\ DOMAIN u.flight = DOMAIN p
              /\ u.flight.tracked_at = p.tracked_at /\ u.flight.departure = p.departure
              /\ u.flight.last_poll = p.last_poll /\ u.flight.last_visible = t
              /\ u.flight.confirmation # "Pending"
    BY <1>1, HitTimes
  <2> QED  BY <1>1, <1>3, <2>1, <2>2
<1>4. CASE obs.outcome = "Miss"
  <2>1. advance_flight(f, obs, t) = AdvanceMiss(p, t)
    BY <1>2, <1>4
  <2> DEFINE lost == p.last_visible # None /\ t - p.last_visible >= RemovalAfter
             g == [p EXCEPT !.polls = IF p.last_visible = None THEN Bump(@, PollsCap) ELSE @]
  <2>2. AdvanceMiss(p, t).flight = g /\ AdvanceMiss(p, t).removal = lost
    BY DEF AdvanceMiss, Update
  <2>3. /\ DOMAIN g = DOMAIN p /\ g.tracked_at = p.tracked_at /\ g.departure = p.departure
        /\ g.last_poll = p.last_poll /\ g.last_visible = p.last_visible
        /\ g.confirmation = p.confirmation
    BY <1>1 DEF FlightFields
  <2> HIDE DEF g
  <2> QED  BY <1>1, <2>1, <2>2, <2>3
<1>5. CASE obs.outcome \in {"Error", "Timeout"}
  <2>1. advance_flight(f, obs, t) = Update(p, << >>, FALSE, FALSE)
    BY <1>2, <1>5
  <2> QED  BY <1>1, <1>5, <2>1 DEF Update
<1> QED  BY <1>3, <1>4, <1>5 DEF Outcomes


-----------------------------------------------------------------------------
(* The schedule of a flight from one instant to a later one *)

IsStage(p, e) ==
  /\ p = Active(p.interval, p.starts_at, p.refresh_at, e)
  /\ p.interval \in Nat \ {0} /\ p.starts_at \in Int /\ p.refresh_at \in Opt(Int)

\* From the stage p at s to the stage q at t either the announced moment of the
\* next stage went by, or the pace has not become faster.
NoSoonerThan(p, q, s, t) ==
  \/ p.refresh_at # None /\ p.refresh_at > s /\ p.refresh_at <= t
  \/ q.interval >= p.interval /\ (p.starts_at > t => q.starts_at = p.starts_at)

LEMMA ActiveFields ==
  ASSUME NEW i, NEW a, NEW r, NEW e
  PROVE  LET p == Active(i, a, r, e)
         IN p.kind = "Active" /\ p.interval = i /\ p.starts_at = a /\ p.refresh_at = r
              /\ p.expires_at = e
  BY DEF Active

LEMMA StageIsStage ==
  ASSUME NEW d \in Int, NEW t \in Nat, NEW e
  PROVE  IsStage(ScheduledStage(d, t, e), e)
<1>1. /\ WAKE_BEFORE \in Nat /\ LOCK_IN_BEFORE \in Nat /\ HUNT_BEFORE \in Nat \ {0}
      /\ NEAR_AFTER \in Nat \ {0} /\ MID_AFTER \in Nat
  BY ScheduleAssumption
<1>2. \A i \in Nat \ {0}, a \in Int, r \in Opt(Int) : IsStage(Active(i, a, r, e), e)
  BY ActiveFields DEF IsStage
<1>3. \A x \in Int : x \in Opt(Int)
  BY DEF Opt
<1>4. None \in Opt(Int)
  BY DEF Opt
<1>5. \/ t < d - WAKE_BEFORE
      \/ d - WAKE_BEFORE <= t /\ t < d - LOCK_IN_BEFORE
      \/ d - LOCK_IN_BEFORE <= t /\ t < d - HUNT_BEFORE
      \/ d - HUNT_BEFORE <= t /\ t <= d
      \/ d < t /\ t <= d + NEAR_AFTER
      \/ d + NEAR_AFTER < t /\ t <= d + MID_AFTER
      \/ d + MID_AFTER < t
  BY <1>1
<1>6. /\ d - WAKE_BEFORE \in Int /\ d - LOCK_IN_BEFORE \in Int /\ d - HUNT_BEFORE \in Int
      /\ d + NEAR_AFTER \in Int /\ d + MID_AFTER \in Int
  BY <1>1
<1> QED  BY <1>2, <1>3, <1>4, <1>5, <1>6, PacesArePositive, Stages

LEMMA StageLater ==
  ASSUME NEW d \in Int, NEW s \in Nat, NEW t \in Nat, s <= t, NEW e
  PROVE  NoSoonerThan(ScheduledStage(d, s, e), ScheduledStage(d, t, e), s, t)
<1> DEFINE p == ScheduledStage(d, s, e)
           q == ScheduledStage(d, t, e)
<1>1. /\ WAKE_BEFORE \in Nat /\ LOCK_IN_BEFORE \in Nat /\ HUNT_BEFORE \in Nat \ {0}
      /\ NEAR_AFTER \in Nat \ {0} /\ MID_AFTER \in Nat
      /\ HUNT_BEFORE < LOCK_IN_BEFORE /\ LOCK_IN_BEFORE < WAKE_BEFORE /\ NEAR_AFTER < MID_AFTER
  BY ScheduleAssumption
<1>2. \A x \in Nat : x # None
  BY AdvanceAssumption
<1>3. ASSUME NEW r \in Int, p.refresh_at = r, s < r, r <= t
      PROVE  NoSoonerThan(p, q, s, t)
  <2>1. r \in Nat
    BY <1>3
  <2> QED  BY <1>2, <1>3, <2>1 DEF NoSoonerThan
<1>4. CASE s < d - WAKE_BEFORE
  <2>1. p.refresh_at = d - WAKE_BEFORE
    BY <1>4, Stages, ActiveFields
  <2>2. CASE t < d - WAKE_BEFORE
    <3>1. p = q
      BY <1>4, <2>2, Stages
    <3> QED  BY <3>1, StageIsStage DEF NoSoonerThan, IsStage
  <2> QED  BY <1>1, <1>3, <1>4, <2>1, <2>2
<1>5. CASE d - WAKE_BEFORE <= s /\ s < d - LOCK_IN_BEFORE
  <2>1. p.refresh_at = d - LOCK_IN_BEFORE
    BY <1>5, Stages, ActiveFields
  <2>2. CASE t < d - LOCK_IN_BEFORE
    <3>1. p = q
      BY <1>1, <1>5, <2>2, Stages
    <3> QED  BY <3>1, StageIsStage DEF NoSoonerThan, IsStage
  <2> QED  BY <1>1, <1>3, <1>5, <2>1, <2>2
<1>6. CASE d - LOCK_IN_BEFORE <= s /\ s < d - HUNT_BEFORE
  <2>1. p.refresh_at = d - HUNT_BEFORE
    BY <1>6, Stages, ActiveFields
  <2>2. CASE t < d - HUNT_BEFORE
    <3>1. p = q
      BY <1>1, <1>6, <2>2, Stages
    <3> QED  BY <3>1, StageIsStage DEF NoSoonerThan, IsStage
  <2> QED  BY <1>1, <1>3, <1>6, <2>1, <2>2
<1>7. CASE d - HUNT_BEFORE <= s /\ s < d
  <2>1. p.refresh_at = d
    BY <1>7, Stages, ActiveFields
  <2>2. CASE t < d
    <3>1. p = q
      BY <1>1, <1>7, <2>2, Stages
    <3> QED  BY <3>1, StageIsStage DEF NoSoonerThan, IsStage
  <2> QED  BY <1>1, <1>3, <1>7, <2>1, <2>2
<1>8. CASE d <= s
  <2>1. \A x \in Nat : d <= x =>
          LET u == ScheduledStage(d, x, e)
          IN /\ x <= d => u.interval = POLL_60_SEC /\ u.starts_at = d - HUNT_BEFORE
             /\ d < x /\ x <= d + NEAR_AFTER => u.interval = POLL_2_MIN /\ u.starts_at = d
             /\ d + NEAR_AFTER < x /\ x <= d + MID_AFTER =>
                  u.interval = POLL_5_MIN /\ u.starts_at = d + NEAR_AFTER
             /\ d + MID_AFTER < x => u.interval = POLL_15_MIN /\ u.starts_at = d + MID_AFTER
    <3> TAKE x \in Nat
    <3> HAVE d <= x
    <3>1. d - HUNT_BEFORE <= x
      BY <1>1
    <3> QED  BY <3>1, Stages, ActiveFields
  <2>2. /\ POLL_60_SEC \in Nat /\ POLL_2_MIN \in Nat /\ POLL_5_MIN \in Nat /\ POLL_15_MIN \in Nat
        /\ POLL_60_SEC <= POLL_2_MIN /\ POLL_2_MIN <= POLL_5_MIN /\ POLL_5_MIN <= POLL_15_MIN
    BY PacesArePositive, ScheduleAssumption
  <2>3. p.starts_at \in Int /\ p.starts_at <= t
    BY <1>1, <1>8, <2>1
  <2>4. q.interval >= p.interval
    BY <1>1, <1>8, <2>1, <2>2
  <2> QED  BY <2>3, <2>4 DEF NoSoonerThan
<1> QED  BY <1>1, <1>4, <1>5, <1>6, <1>7, <1>8


LEMMA UnknownLater ==
  ASSUME NEW f, Timed(f), NEW s \in Nat, NEW t \in Nat, s <= t,
         t < f.tracked_at + UNKNOWN_EXPIRE_AFTER
  PROVE  LET e == f.tracked_at + UNKNOWN_EXPIRE_AFTER
             p == pending_unknown_poll_schedule(f, s)
             q == pending_unknown_poll_schedule(f, t)
         IN IsStage(p, e) /\ IsStage(q, e) /\ NoSoonerThan(p, q, s, t)
<1> DEFINE e == f.tracked_at + UNKNOWN_EXPIRE_AFTER
           pace(x) == IF x - f.tracked_at < FAST_AFTER_TRACK THEN POLL_2_MIN
                      ELSE IF x - f.tracked_at < NORMAL_AFTER_TRACK THEN POLL_10_MIN
                      ELSE POLL_30_MIN
<1>1. /\ f.tracked_at \in Nat /\ UNKNOWN_EXPIRE_AFTER \in Nat
      /\ FAST_AFTER_TRACK \in Nat /\ NORMAL_AFTER_TRACK \in Nat
      /\ FAST_AFTER_TRACK < NORMAL_AFTER_TRACK
      /\ POLL_2_MIN \in Nat \ {0} /\ POLL_10_MIN \in Nat \ {0} /\ POLL_30_MIN \in Nat \ {0}
      /\ POLL_2_MIN <= POLL_10_MIN /\ POLL_10_MIN <= POLL_30_MIN
  BY ScheduleAssumption, PacesArePositive DEF Timed
<1>2. \A x \in Nat : x < e =>
        pending_unknown_poll_schedule(f, x) = Active(pace(x), f.tracked_at, None, e)
  BY <1>1 DEF pending_unknown_poll_schedule
<1>3. pace(s) \in Nat \ {0} /\ pace(t) \in Nat \ {0} /\ pace(t) >= pace(s)
  BY <1>1
<1>4. s < e /\ None \in Opt(Int)
  BY <1>1 DEF Opt
<1> HIDE DEF pace, e
<1> QED  BY <1>1, <1>2, <1>3, <1>4, ActiveFields DEF IsStage, NoSoonerThan, e

LEMMA ExpiresAtIsInt ==
  ASSUME NEW f, Timed(f)
  PROVE  ExpiresAt(f) \in Int /\ ExpiresAt(f) >= f.tracked_at
<1>1. f.tracked_at \in Nat /\ (f.departure # None => f.departure \in Int)
  BY DEF Timed, Opt
<1> QED  BY <1>1, ScheduleAssumption DEF ExpiresAt, UsesDeparture

\* The schedule of a pending flight: stages up to the expiry, the one after the
\* other no faster unless its beginning was announced.
LEMMA PendingLater ==
  ASSUME NEW f, Timed(f), NEW s \in Nat, NEW t \in Nat, s <= t, t < ExpiresAt(f)
  PROVE  LET p == pending_poll_schedule(f, s)
             q == pending_poll_schedule(f, t)
         IN IsStage(p, ExpiresAt(f)) /\ IsStage(q, ExpiresAt(f)) /\ NoSoonerThan(p, q, s, t)
<1>1. CASE UsesDeparture(f)
  <2>1. f.departure \in Int /\ ExpiresAt(f) = f.departure + SCHEDULED_EXPIRE_AFTER
    BY <1>1 DEF Timed, Opt, UsesDeparture, ExpiresAt
  <2>2. \A x \in Nat : x < ExpiresAt(f) =>
          pending_poll_schedule(f, x) = ScheduledStage(f.departure, x, ExpiresAt(f))
    BY <1>1, <2>1, ScheduleAssumption DEF pending_poll_schedule
  <2>3. s < ExpiresAt(f)
    BY ExpiresAtIsInt
  <2> QED  BY <2>1, <2>2, <2>3, StageIsStage, StageLater
<1>2. CASE ~UsesDeparture(f)
  <2>1. ExpiresAt(f) = f.tracked_at + UNKNOWN_EXPIRE_AFTER
    BY <1>2 DEF ExpiresAt
  <2>2. \A x : pending_poll_schedule(f, x) = pending_unknown_poll_schedule(f, x)
    BY <1>2 DEF pending_poll_schedule
  <2> QED  BY <2>1, <2>2, UnknownLater
<1> QED  BY <1>1, <1>2

LEMMA ExpiredWhen ==
  ASSUME NEW f, Timed(f), NEW t \in Nat
  PROVE  /\ t >= ExpiresAt(f) => pending_poll_schedule(f, t).kind = "Expired"
         /\ t < ExpiresAt(f) => pending_poll_schedule(f, t).kind # "Expired"
<1>1. CASE t < ExpiresAt(f)
  <2>1. IsStage(pending_poll_schedule(f, t), ExpiresAt(f))
    BY <1>1, PendingLater
  <2> QED  BY <1>1, <2>1, ExpiresAtIsInt, ActiveFields DEF IsStage
<1>2. CASE t >= ExpiresAt(f)
  <2>1. UsesDeparture(f) => pending_poll_schedule(f, t) = Expired
    BY <1>2 DEF pending_poll_schedule, ExpiresAt
  <2>2. ~UsesDeparture(f) => pending_poll_schedule(f, t) = Expired
    BY <1>2 DEF pending_poll_schedule, pending_unknown_poll_schedule, ExpiresAt
  <2> QED  BY <1>2, <2>1, <2>2, ExpiresAtIsInt DEF Expired
<1> QED  BY <1>1, <1>2, ExpiresAtIsInt

-----------------------------------------------------------------------------
(* The moment a flight is due *)

\* Without the next stage and the expiry.
DueInStage(f, p, t) == Later(next_due_after_last_poll(f, p.interval, t), p.starts_at)

LEMMA DueInt ==
  ASSUME NEW f, Timed(f), NEW i \in Nat \ {0}, NEW t \in Nat
  PROVE  /\ next_due_after_last_poll(f, i, t) \in Nat
         /\ f.last_poll = None => next_due_after_last_poll(f, i, t) = t
         /\ f.last_poll # None => /\ f.last_poll \in Nat
                                  /\ next_due_after_last_poll(f, i, t) = f.last_poll + i
<1>1. f.last_poll # None => f.last_poll \in Nat
  BY DEF Timed, Opt
<1> QED  BY <1>1 DEF next_due_after_last_poll

LEMMA DueMoment ==
  ASSUME NEW f, Timed(f), NEW p, NEW e \in Int, IsStage(p, e), NEW t \in Nat
  PROVE  LET due == DueInStage(f, p, t)  at == PendingDue(f, p, t)
         IN /\ due \in Int /\ at \in Int /\ at <= due /\ at <= e
            /\ (p.refresh_at # None /\ p.refresh_at > t) => at <= p.refresh_at
            /\ (t < e /\ t < due) => t < at
<1> DEFINE due == DueInStage(f, p, t)
           next == next_due_after_last_poll(f, p.interval, t)
<1>1. /\ p.interval \in Nat \ {0} /\ p.starts_at \in Int /\ p.expires_at = e
      /\ p.refresh_at # None => p.refresh_at \in Int
  BY ActiveFields DEF IsStage, Opt
<1>2. next \in Nat
  BY <1>1, DueInt
<1>3. due \in Int
  BY <1>1, <1>2 DEF DueInStage, Later
<1>4. PendingDue(f, p, t) =
        Earlier(IF p.refresh_at # None /\ p.refresh_at > t THEN Earlier(p.refresh_at, due)
                ELSE due, e)
  BY <1>1 DEF PendingDue, DueInStage
<1> HIDE DEF due
<1>5. CASE p.refresh_at # None /\ p.refresh_at > t
  BY <1>1, <1>3, <1>4, <1>5 DEF Earlier, due
<1>6. CASE ~(p.refresh_at # None /\ p.refresh_at > t)
  BY <1>1, <1>3, <1>4, <1>6 DEF Earlier, due
<1> QED  BY <1>5, <1>6

LEMMA DueOrNot ==
  ASSUME NEW due \in Int, NEW t \in Int
  PROVE  /\ due <= t => DueOrNotDue(due, t).kind = "Due"
         /\ t < due => DueOrNotDue(due, t) = NotDueAt(due)
         /\ DueOrNotDue(due, t).kind = "NotDue" => t < due
         /\ DueOrNotDue(due, t).kind \in {"Due", "NotDue"}
  BY DEF DueOrNotDue, NotDueAt


LEMMA LiveReadiness ==
  ASSUME NEW f, Timed(f), ~is_pending_adsb(f), NEW t \in Nat
  PROVE  /\ poll_readiness(f, t).kind \in {"Due", "NotDue"}
         /\ f.last_poll = None => poll_readiness(f, t).kind = "Due"
         /\ f.last_poll # None =>
              /\ f.last_poll \in Nat
              /\ poll_readiness(f, t) = DueOrNotDue(f.last_poll + live_poll_interval(f), t)
<1>1. poll_readiness(f, t)
        = DueOrNotDue(next_due_after_last_poll(f, live_poll_interval(f), t), t)
  BY DEF poll_readiness
<1> DEFINE i == live_poll_interval(f)
           next == next_due_after_last_poll(f, i, t)
<1>2. i \in Nat \ {0}
  BY LivePace
<1> HIDE DEF i
<1>3. /\ next \in Nat /\ (f.last_poll = None => next = t)
      /\ f.last_poll # None => f.last_poll \in Nat /\ next = f.last_poll + i
  BY <1>2, DueInt
<1> HIDE DEF next
<1>4. DueOrNotDue(next, t).kind \in {"Due", "NotDue"}
      /\ (next <= t => DueOrNotDue(next, t).kind = "Due")
  BY <1>3, DueOrNot
<1>5. poll_readiness(f, t) = DueOrNotDue(next, t)
  BY <1>1 DEF next, i
<1> QED  BY <1>3, <1>4, <1>5 DEF i

LEMMA PendingReadiness ==
  ASSUME NEW f, Timed(f), is_pending_adsb(f), NEW t \in Nat
  PROVE  /\ t >= ExpiresAt(f) => poll_readiness(f, t).kind = "Expired"
         /\ t < ExpiresAt(f) =>
              /\ poll_readiness(f, t).kind \in {"Due", "NotDue"}
              /\ PendingDue(f, pending_poll_schedule(f, t), t) \in Int
              /\ poll_readiness(f, t)
                   = DueOrNotDue(PendingDue(f, pending_poll_schedule(f, t), t), t)
<1>1. CASE t >= ExpiresAt(f)
  BY <1>1, ExpiredWhen, ExpiresAtIsInt DEF poll_readiness
<1>2. CASE t < ExpiresAt(f)
  <2> DEFINE p == pending_poll_schedule(f, t)
  <2>1. IsStage(p, ExpiresAt(f)) /\ p.kind # "Expired"
    BY <1>2, PendingLater, ExpiredWhen
  <2>2. poll_readiness(f, t) = DueOrNotDue(PendingDue(f, p, t), t)
    BY <2>1 DEF poll_readiness
  <2> HIDE DEF p
  <2>3. PendingDue(f, p, t) \in Int
    BY <2>1, DueMoment, ExpiresAtIsInt
  <2>4. poll_readiness(f, t).kind \in {"Due", "NotDue"}
    BY <2>2, <2>3, DueOrNot
  <2> QED  BY <1>2, <2>2, <2>3, <2>4, ExpiresAtIsInt DEF p
<1> QED  BY <1>1, <1>2, ExpiresAtIsInt

\* What NotDue at s until w says of a pending flight.
LEMMA PendingNotDue ==
  ASSUME NEW f, Timed(f), is_pending_adsb(f), NEW s \in Nat, NEW w,
         poll_readiness(f, s) = NotDueAt(w)
  PROVE  LET p == pending_poll_schedule(f, s)
         IN /\ s < ExpiresAt(f) /\ IsStage(p, ExpiresAt(f))
            /\ w \in Int /\ s < w /\ w <= ExpiresAt(f)
            /\ DueInStage(f, p, s) \in Int /\ w <= DueInStage(f, p, s)
            /\ (p.refresh_at # None /\ p.refresh_at > s) => w <= p.refresh_at
<1> DEFINE p == pending_poll_schedule(f, s)
           at == PendingDue(f, p, s)
<1>1. NotDueAt(w).kind = "NotDue" /\ NotDueAt(w).at = w
  BY DEF NotDueAt
<1>2. s < ExpiresAt(f)
  BY <1>1, PendingReadiness, ExpiresAtIsInt
<1>3. at \in Int /\ NotDueAt(w) = DueOrNotDue(at, s)
  BY <1>2, PendingReadiness
<1>4. s < at /\ DueOrNotDue(at, s) = NotDueAt(at)
  BY <1>1, <1>3, DueOrNot
<1>5. w = at
  BY <1>1, <1>3, <1>4 DEF NotDueAt
<1>6. IsStage(p, ExpiresAt(f))
  BY <1>2, PendingLater
<1> HIDE DEF p
<1>7. /\ DueInStage(f, p, s) \in Int /\ at <= DueInStage(f, p, s) /\ at <= ExpiresAt(f)
      /\ (p.refresh_at # None /\ p.refresh_at > s) => at <= p.refresh_at
  BY <1>6, DueMoment, ExpiresAtIsInt
<1> QED  BY <1>2, <1>3, <1>4, <1>5, <1>6, <1>7 DEF p

\* A flight that is not due before w is not due at any earlier instant.
LEMMA NotDueUntil ==
  ASSUME NEW f, Timed(f), NEW s \in Nat, NEW w, poll_readiness(f, s) = NotDueAt(w),
         NEW t \in Nat, s <= t, t < w
  PROVE  poll_readiness(f, t).kind = "NotDue"
<1>1. NotDueAt(w).kind = "NotDue" /\ NotDueAt(w).at = w
  BY DEF NotDueAt
<1>2. CASE ~is_pending_adsb(f)
  <2> DEFINE due == f.last_poll + live_poll_interval(f)
  <2>1. f.last_poll \in Nat /\ NotDueAt(w) = DueOrNotDue(due, s)
    BY <1>1, <1>2, LiveReadiness
  <2>2. f.last_poll # None
    BY <2>1, AdvanceAssumption
  <2>3. poll_readiness(f, t) = DueOrNotDue(due, t)
    BY <1>2, <2>2, LiveReadiness
  <2>4. due \in Int
    BY <2>1, LivePace
  <2> HIDE DEF due
  <2>5. s < due /\ DueOrNotDue(due, s) = NotDueAt(due)
    BY <1>1, <2>1, <2>4, DueOrNot
  <2>6. w = due
    BY <2>1, <2>5 DEF NotDueAt
  <2>7. poll_readiness(f, t) = NotDueAt(due)
    BY <2>3, <2>4, <2>6, DueOrNot
  <2> QED  BY <2>7 DEF NotDueAt
<1>3. CASE is_pending_adsb(f)
  <2> DEFINE p == pending_poll_schedule(f, s)
             q == pending_poll_schedule(f, t)
             e == ExpiresAt(f)
  <2>1. /\ s < e /\ IsStage(p, e) /\ w \in Int /\ s < w /\ w <= e
        /\ DueInStage(f, p, s) \in Int /\ w <= DueInStage(f, p, s)
        /\ (p.refresh_at # None /\ p.refresh_at > s) => w <= p.refresh_at
    BY <1>3, PendingNotDue
  <2>2. e \in Int /\ t < e
    BY <2>1, ExpiresAtIsInt
  <2>3. IsStage(q, e) /\ NoSoonerThan(p, q, s, t)
    BY <2>2, PendingLater
  <2>4. poll_readiness(f, t) = DueOrNotDue(PendingDue(f, q, t), t)
    BY <1>3, <2>2, PendingReadiness
  <2> HIDE DEF p, q, e
  <2>5. /\ p.interval \in Nat \ {0} /\ p.starts_at \in Int
        /\ q.interval \in Nat \ {0} /\ q.starts_at \in Int
        /\ p.refresh_at # None => p.refresh_at \in Int
    BY <2>1, <2>3 DEF IsStage, Opt
  <2>6. q.interval >= p.interval /\ (p.starts_at > t => q.starts_at = p.starts_at)
    BY <2>1, <2>3, <2>5 DEF NoSoonerThan
  <2> DEFINE n == next_due_after_last_poll(f, p.interval, s)
             m == next_due_after_last_poll(f, q.interval, t)
  <2>7. n \in Nat /\ m \in Nat /\ m >= n
    <3>1. CASE f.last_poll = None
      BY <2>5, <3>1, DueInt
    <3>2. CASE f.last_poll # None
      BY <2>5, <2>6, <3>2, DueInt
    <3> QED  BY <3>1, <3>2
  <2>8. DueInStage(f, p, s) = Later(n, p.starts_at) /\ DueInStage(f, q, t) = Later(m, q.starts_at)
    BY DEF DueInStage
  <2> HIDE DEF n, m
  <2>9. t < n \/ t < p.starts_at
    BY <2>1, <2>5, <2>7, <2>8 DEF Later
  <2>10. t < m \/ t < q.starts_at
    BY <2>5, <2>6, <2>7, <2>9
  <2>11. t < DueInStage(f, q, t)
    BY <2>5, <2>7, <2>8, <2>10 DEF Later
  <2>12. PendingDue(f, q, t) \in Int /\ t < PendingDue(f, q, t)
    BY <2>2, <2>3, <2>11, DueMoment
  <2>13. poll_readiness(f, t) = NotDueAt(PendingDue(f, q, t))
    BY <2>4, <2>12, DueOrNot
  <2> QED  BY <2>13 DEF NotDueAt
<1> QED  BY <1>2, <1>3

\* A flight polled just now is not due before later.
LEMMA PolledIsNotDue ==
  ASSUME NEW f, Timed(f), NEW t \in Nat, f.last_poll = t, is_pending_adsb(f) => t < ExpiresAt(f)
  PROVE  poll_readiness(f, t).kind = "NotDue"
<1>1. f.last_poll # None
  BY AdvanceAssumption
<1>2. CASE ~is_pending_adsb(f)
  <2>1. live_poll_interval(f) \in Nat \ {0}
    BY LivePace
  <2>2. poll_readiness(f, t) = DueOrNotDue(t + live_poll_interval(f), t)
    BY <1>1, <1>2, LiveReadiness
  <2>3. poll_readiness(f, t) = NotDueAt(t + live_poll_interval(f))
    BY <2>1, <2>2, DueOrNot
  <2> QED  BY <2>3 DEF NotDueAt
<1>3. CASE is_pending_adsb(f)
  <2> DEFINE p == pending_poll_schedule(f, t)
             e == ExpiresAt(f)
  <2>1. e \in Int /\ t < e /\ IsStage(p, e)
    BY <1>3, ExpiresAtIsInt, PendingLater
  <2>2. poll_readiness(f, t) = DueOrNotDue(PendingDue(f, p, t), t)
    BY <1>3, PendingReadiness
  <2> HIDE DEF p, e
  <2>3. p.interval \in Nat \ {0} /\ p.starts_at \in Int
    BY <2>1 DEF IsStage
  <2>4. next_due_after_last_poll(f, p.interval, t) = t + p.interval
    BY <1>1, <2>3, DueInt
  <2>5. t < DueInStage(f, p, t)
    BY <2>3, <2>4 DEF DueInStage, Later
  <2>6. PendingDue(f, p, t) \in Int /\ t < PendingDue(f, p, t)
    BY <2>1, <2>5, DueMoment
  <2>7. poll_readiness(f, t) = NotDueAt(PendingDue(f, p, t))
    BY <2>2, <2>6, DueOrNot
  <2> QED  BY <2>7 DEF NotDueAt
<1> QED  BY <1>2, <1>3


\* NotDue names a later instant.
LEMMA NotDueIsLater ==
  ASSUME NEW f, Timed(f), NEW t \in Nat, poll_readiness(f, t).kind = "NotDue"
  PROVE  \E w \in Nat : t < w /\ poll_readiness(f, t) = NotDueAt(w)
<1>1. \A due \in Int : poll_readiness(f, t) = DueOrNotDue(due, t) =>
        \E w \in Nat : t < w /\ poll_readiness(f, t) = NotDueAt(w)
  <2> TAKE due \in Int
  <2> HAVE poll_readiness(f, t) = DueOrNotDue(due, t)
  <2>1. t < due /\ DueOrNotDue(due, t) = NotDueAt(due)
    BY DueOrNot
  <2> QED  BY <2>1
<1>2. CASE ~is_pending_adsb(f)
  <2>1. f.last_poll # None /\ f.last_poll \in Nat
    BY <1>2, LiveReadiness
  <2> DEFINE due == f.last_poll + live_poll_interval(f)
  <2>2. due \in Int
    BY <2>1, LivePace
  <2>3. poll_readiness(f, t) = DueOrNotDue(due, t)
    BY <1>2, <2>1, LiveReadiness
  <2> QED  BY <1>1, <2>2, <2>3
<1>3. CASE is_pending_adsb(f)
  <2>1. t < ExpiresAt(f)
    BY <1>3, PendingReadiness, ExpiresAtIsInt
  <2> QED  BY <1>1, <1>3, <2>1, PendingReadiness
<1> QED  BY <1>2, <1>3

LEMMA WakesWhenDue ==
  ASSUME NEW f, NEW w \in Nat, NEW t \in Nat, poll_readiness(f, t) = NotDueAt(w)
  PROVE  next_poll_at({f}, t) = w
<1>1. NotDueAt(w).kind = "NotDue" /\ NotDueAt(w).at = w
  BY DEF NotDueAt
<1> DEFINE at(g) == LET r == poll_readiness(g, t) IN IF r.kind = "NotDue" THEN r.at ELSE t
<1>2. at(f) = w
  BY <1>1
<1>3. next_poll_at({f}, t) = CHOOSE x \in {at(g) : g \in {f}} : \A g \in {f} : x <= at(g)
  BY DEF next_poll_at
<1> HIDE DEF at
<1>4. {at(g) : g \in {f}} = {w} /\ \A x : (\A g \in {f} : x <= at(g)) <=> x <= w
  BY <1>2
<1> QED  BY <1>3, <1>4

-----------------------------------------------------------------------------
(* The poll loop *)

\* What the loop needs of the flight it holds.
Recorded(f) ==
  /\ FlightFields \subseteq DOMAIN f
  /\ Timed(f)
  /\ f.last_visible \in Opt(Nat)
  /\ f.last_visible # None => f.confirmation # "Pending"

\* The wake-up time is the one NotDue named when the loop went to sleep.
WakeIsDue ==
  polled # None /\ wake # 0 => \E s \in 0 .. clock : poll_readiness(polled, s) = NotDueAt(wake)

\* A poll that was no outage found the aircraft within the grace window, or
\* removed the flight.
SeenLately ==
  (polled # None /\ ~blind /\ polled.last_visible # None /\ polled.last_poll # None)
  => polled.last_poll - polled.last_visible < RemovalAfter

PInv ==
  /\ clock \in Nat /\ wake \in Nat /\ blind \in BOOLEAN
  /\ polled # None => Recorded(polled)
  /\ clock <= wake + MaxLag
  /\ WakeIsDue
  /\ SeenLately

LEMMA PInvInit == PollInit => PInv
<1> SUFFICES ASSUME PollInit  PROVE PInv
  OBVIOUS
<1>1. polled \in TrackedFlight /\ UpToNow(polled)
  BY PollingAssumption DEF PollInit
<1>2. /\ FlightFields \subseteq DOMAIN polled
      /\ polled.tracked_at \in Nat /\ polled.departure \in Opt(Int)
      /\ polled.last_poll \in Opt(Nat) /\ polled.last_visible \in Opt(Nat)
  BY <1>1 DEF TrackedFlight, FlightFields
<1>3. Recorded(polled)
  BY <1>1, <1>2 DEF Recorded, Timed, UpToNow
<1>4. SeenLately
  BY <1>1, AdvanceAssumption DEF SeenLately, UpToNow
<1>5. MaxLag \in Nat
  BY PollingAssumption
<1>6. clock = 0 /\ wake = 0 /\ blind \in BOOLEAN
  BY DEF PollInit
<1>7. WakeIsDue
  BY <1>6 DEF WakeIsDue
<1> QED  BY <1>3, <1>4, <1>5, <1>6, <1>7 DEF PInv

\* The loop goes to sleep with a flight that is not due.
LEMMA Sleeps ==
  ASSUME PInv, polled' # None, Recorded(polled'), SleepFor(polled'), UNCHANGED clock,
         poll_readiness(polled', clock).kind = "NotDue", blind' \in BOOLEAN, SeenLately'
  PROVE  PInv'
<1>1. PICK w \in Nat : clock < w /\ poll_readiness(polled', clock) = NotDueAt(w)
  BY NotDueIsLater DEF PInv, Recorded
<1>2. wake' = w
  BY <1>1, WakesWhenDue DEF PInv, SleepFor
<1>3. clock \in 0 .. clock' /\ clock' \in Nat /\ MaxLag \in Nat
  BY PollingAssumption DEF PInv
<1>4. WakeIsDue'
  BY <1>1, <1>2, <1>3 DEF WakeIsDue
<1>5. Recorded(polled)'
  BY DEF Recorded, Timed
<1> QED  BY <1>1, <1>2, <1>3, <1>4, <1>5 DEF PInv

\* Nothing is slept for without a flight.
LEMMA NothingToPoll ==
  ASSUME PInv, polled' = None, SleepFor(polled'), UNCHANGED clock, blind' \in BOOLEAN
  PROVE  PInv'
<1>1. wake' = clock
  BY DEF SleepFor
<1>2. MaxLag \in Nat
  BY PollingAssumption
<1> QED  BY <1>1, <1>2 DEF PInv, WakeIsDue, SeenLately

LEMMA PollsOnce ==
  ASSUME PInv, polled # None, NEW obs \in PollAnswers(polled), PollOnce(obs)
  PROVE  PInv'
<1> DEFINE u == advance_flight(polled, obs, clock)
           g == u.flight
<1>1. obs.outcome \in Outcomes
  BY DEF PollAnswers, Outcomes
<1>2. Recorded(polled) /\ clock \in Nat
  BY DEF PInv
<1>3. /\ FlightFields \subseteq DOMAIN g
      /\ g.tracked_at = polled.tracked_at /\ g.departure = polled.departure
      /\ g.last_poll = clock
      /\ \/ g.last_visible = clock /\ g.confirmation # "Pending"
         \/ g.last_visible = polled.last_visible /\ g.confirmation = polled.confirmation
      /\ (obs.outcome = "Miss" /\ ~u.removal /\ g.last_visible # None)
           => ~(clock - g.last_visible >= RemovalAfter)
  BY <1>1, <1>2, AdvanceTimes DEF Recorded
<1>4. /\ poll_readiness(polled, clock).kind = "Due"
      /\ polled' = IF u.removal THEN None ELSE g
      /\ blind' = (obs.outcome # "Miss" /\ g.last_visible # clock)
      /\ SleepFor(polled') /\ UNCHANGED clock
  BY DEF PollOnce
<1> HIDE DEF u, g
<1>5. CASE polled' = None
  BY <1>4, <1>5, NothingToPoll
<1>6. CASE polled' # None
  <2>1. polled' = g /\ ~u.removal
    BY <1>4, <1>6
  <2>2. Recorded(g)
    BY <1>2, <1>3 DEF Recorded, Timed, Opt
  <2>3. is_pending_adsb(g) => is_pending_adsb(polled)
    BY <1>2, <1>3, AdvanceAssumption DEF is_pending_adsb, Recorded
  <2>4. is_pending_adsb(g) => clock < ExpiresAt(g)
    <3>1. is_pending_adsb(polled) => ~(clock >= ExpiresAt(polled))
      BY <1>2, <1>4, PendingReadiness DEF Recorded
    <3>2. ExpiresAt(g) = ExpiresAt(polled)
      BY <1>3 DEF ExpiresAt, UsesDeparture
    <3>3. ExpiresAt(polled) \in Int
      BY <1>2, ExpiresAtIsInt DEF Recorded
    <3> QED  BY <1>2, <2>3, <3>1, <3>2, <3>3
  <2>5. poll_readiness(g, clock).kind = "NotDue"
    BY <1>2, <1>3, <2>2, <2>4, PolledIsNotDue DEF Recorded
  <2>6. SeenLately'
    <3> SUFFICES ASSUME ~blind', g.last_visible # None
                 PROVE  g.last_poll - g.last_visible < RemovalAfter
      BY <2>1 DEF SeenLately
    <3>1. g.last_visible \in Nat
      BY <2>2 DEF Recorded, Opt
    <3>2. obs.outcome = "Miss" \/ g.last_visible = clock
      BY <1>4
    <3>3. RemovalAfter \in Nat \ {0}
      BY AdvanceAssumption
    <3> QED  BY <1>2, <1>3, <2>1, <3>1, <3>2, <3>3
  <2> QED  BY <1>4, <1>6, <2>1, <2>2, <2>5, <2>6, Sleeps
<1> QED  BY <1>5, <1>6

LEMMA PInvNext == PInv /\ [PollNext]_pollVars => PInv'
<1> SUFFICES ASSUME PInv, [PollNext]_pollVars  PROVE PInv'
  OBVIOUS
<1>1. CASE \E obs \in PollAnswers(polled) : polled # None /\ PollOnce(obs)
  BY <1>1, PollsOnce
<1>2. CASE Expire
  <2>1. polled' = None /\ SleepFor(polled') /\ UNCHANGED clock /\ blind' \in BOOLEAN
    BY <1>2 DEF Expire, PInv
  <2> QED  BY <2>1, NothingToPoll
<1>3. CASE polled # None /\ SleepOn
  <2>1. /\ polled' = polled /\ blind' = blind /\ UNCHANGED clock /\ SleepFor(polled')
        /\ poll_readiness(polled', clock).kind = "NotDue"
    BY <1>3 DEF SleepOn
  <2>2. polled' # None /\ Recorded(polled') /\ blind' \in BOOLEAN
    BY <1>3, <2>1 DEF PInv
  <2>3. SeenLately'
    BY <2>1 DEF PInv, SeenLately
  <2> QED  BY <2>1, <2>2, <2>3, Sleeps
<1>4. CASE PollTick
  <2>1. /\ polled' = polled /\ wake' = wake /\ blind' = blind
        /\ clock' = clock + 1 /\ clock < wake + MaxLag
    BY <1>4 DEF PollTick
  <2>2. MaxLag \in Nat /\ clock \in Nat /\ wake \in Nat
    BY PollingAssumption DEF PInv
  <2>3. 0 .. clock \subseteq 0 .. clock'
    BY <2>1, <2>2
  <2>4. WakeIsDue'
    BY <2>1, <2>3 DEF PInv, WakeIsDue
  <2>5. SeenLately' /\ (polled' # None => Recorded(polled)')
    BY <2>1 DEF PInv, SeenLately, Recorded, Timed
  <2> QED  BY <2>1, <2>2, <2>4, <2>5 DEF PInv
<1>5. CASE UNCHANGED pollVars
  <2>1. polled' = polled /\ clock' = clock /\ wake' = wake /\ blind' = blind
    BY <1>5 DEF pollVars
  <2> QED  BY <2>1 DEF PInv, WakeIsDue, SeenLately, Recorded, Timed
<1> QED  BY <1>1, <1>2, <1>3, <1>4, <1>5 DEF PollNext, Round


LEMMA PInvHolds == PollSpec => []PInv
  BY PInvInit, PInvNext, PTL DEF PollSpec

\* When the loop wakes up, seen from any instant of a round or a sleep.
LEMMA AsleepUntilDue ==
  ASSUME PInv, polled # None, wake # 0
  PROVE  \E s \in Nat : s <= clock /\ poll_readiness(polled, s) = NotDueAt(wake)
  BY DEF PInv, WakeIsDue

LEMMA PromisesFollow == PInv => PromisesKept
<1> SUFFICES ASSUME PInv  PROVE PromisesKept
  OBVIOUS
<1>1. /\ clock \in Nat /\ wake \in Nat /\ clock <= wake + MaxLag /\ MaxLag \in Nat
      /\ polled # None => Recorded(polled) /\ Timed(polled)
  BY PollingAssumption DEF PInv, Recorded
<1>2. NeverOversleeps
  <2> SUFFICES ASSUME polled # None, clock < wake
               PROVE  poll_readiness(polled, clock).kind = "NotDue"
    BY DEF NeverOversleeps
  <2>1. wake # 0
    BY <1>1
  <2>2. PICK s \in Nat : s <= clock /\ poll_readiness(polled, s) = NotDueAt(wake)
    BY <2>1, AsleepUntilDue
  <2> QED  BY <1>1, <2>2, NotDueUntil
<1>3. PendingExpiresOnTime
  <2> SUFFICES ASSUME polled # None, is_pending_adsb(polled)
               PROVE  clock <= ExpiresAt(polled) + MaxLag
    BY DEF PendingExpiresOnTime, Pending
  <2>1. ExpiresAt(polled) \in Int /\ ExpiresAt(polled) >= 0
    BY <1>1, ExpiresAtIsInt DEF Timed
  <2>2. CASE wake = 0
    BY <1>1, <2>1, <2>2
  <2>3. CASE wake # 0
    <3>1. PICK s \in Nat : s <= clock /\ poll_readiness(polled, s) = NotDueAt(wake)
      BY <2>3, AsleepUntilDue
    <3>2. wake <= ExpiresAt(polled)
      BY <1>1, <3>1, PendingNotDue
    <3> QED  BY <1>1, <2>1, <3>2
  <2> QED  BY <2>2, <2>3
<1>4. HuntKeepsPace
  <2> SUFFICES ASSUME polled # None, is_pending_adsb(polled), UsesDeparture(polled),
                      polled.last_poll # None,
                      clock > polled.departure - HUNT_BEFORE + MaxLag,
                      clock <= polled.departure
               PROVE  clock - polled.last_poll <= POLL_60_SEC + MaxLag
    BY DEF HuntKeepsPace, Pending
  <2> DEFINE d == polled.departure
  <2>1. /\ polled.last_poll \in Nat /\ POLL_60_SEC \in Nat \ {0} /\ HUNT_BEFORE \in Nat \ {0}
        /\ d \in Int /\ ExpiresAt(polled) = d + SCHEDULED_EXPIRE_AFTER
    BY <1>1, PacesArePositive, ScheduleAssumption DEF Timed, Opt, UsesDeparture, ExpiresAt
  <2>2. CASE wake = 0
    BY <1>1, <2>1, <2>2
  <2>3. CASE wake # 0
    <3>1. PICK s \in Nat : s <= clock /\ poll_readiness(polled, s) = NotDueAt(wake)
      BY <2>3, AsleepUntilDue
    <3> DEFINE p == pending_poll_schedule(polled, s)
    <3>2. /\ s < ExpiresAt(polled) /\ DueInStage(polled, p, s) \in Int
          /\ wake <= DueInStage(polled, p, s)
          /\ (p.refresh_at # None /\ p.refresh_at > s) => wake <= p.refresh_at
      BY <1>1, <3>1, PendingNotDue
    <3>3. p = ScheduledStage(d, s, ExpiresAt(polled))
      BY <2>1, <3>2, ScheduleAssumption DEF pending_poll_schedule
    <3>4. s <= d /\ wake > d - HUNT_BEFORE
      BY <1>1, <2>1, <3>1
    <3>5. d - HUNT_BEFORE <= s
      <4> SUFFICES ASSUME s < d - HUNT_BEFORE  PROVE FALSE
        BY <2>1
      <4>1. /\ WAKE_BEFORE \in Nat /\ LOCK_IN_BEFORE \in Nat
            /\ HUNT_BEFORE < LOCK_IN_BEFORE /\ LOCK_IN_BEFORE < WAKE_BEFORE
        BY ScheduleAssumption
      <4>2. /\ p.refresh_at \in {d - WAKE_BEFORE, d - LOCK_IN_BEFORE, d - HUNT_BEFORE}
            /\ s < p.refresh_at
        BY <2>1, <3>3, <4>1, Stages, ActiveFields
      <4>3. p.refresh_at \in Nat /\ p.refresh_at <= d - HUNT_BEFORE
        BY <2>1, <4>1, <4>2
      <4>4. p.refresh_at # None
        BY <4>3, AdvanceAssumption
      <4> QED  BY <1>1, <2>1, <3>2, <3>4, <4>2, <4>3, <4>4
    <3>6. p = Active(POLL_60_SEC, d - HUNT_BEFORE, d, ExpiresAt(polled))
      BY <2>1, <3>3, <3>4, <3>5, Stages
    <3>7. DueInStage(polled, p, s) = Later(polled.last_poll + POLL_60_SEC, d - HUNT_BEFORE)
      BY <1>1, <2>1, <3>6, ActiveFields, DueInt DEF DueInStage
    <3>8. wake <= polled.last_poll + POLL_60_SEC
      BY <1>1, <2>1, <3>2, <3>4, <3>7 DEF Later
    <3> QED  BY <1>1, <2>1, <3>8
  <2> QED  BY <2>2, <2>3
<1>5. VanishedIsDropped
  <2> SUFFICES ASSUME polled # None, polled.last_visible # None, ~blind
               PROVE  clock - polled.last_visible < RemovalAfter + POLL_SLOW + MaxLag
    BY DEF VanishedIsDropped
  <2>1. /\ polled.last_visible \in Nat /\ ~is_pending_adsb(polled)
        /\ RemovalAfter \in Nat \ {0} /\ POLL_SLOW \in Nat \ {0}
    BY <1>1, PacesArePositive, AdvanceAssumption DEF Recorded, Opt, is_pending_adsb
  <2>2. CASE wake = 0
    BY <1>1, <2>1, <2>2
  <2>3. CASE wake # 0
    <3>1. PICK s \in Nat : s <= clock /\ poll_readiness(polled, s) = NotDueAt(wake)
      BY <2>3, AsleepUntilDue
    <3> DEFINE due == polled.last_poll + live_poll_interval(polled)
    <3>2. NotDueAt(wake).kind = "NotDue"
      BY DEF NotDueAt
    <3>3. /\ polled.last_poll # None /\ polled.last_poll \in Nat
          /\ NotDueAt(wake) = DueOrNotDue(due, s)
      BY <1>1, <2>1, <3>1, <3>2, LiveReadiness
    <3>4. due \in Int /\ due <= polled.last_poll + POLL_SLOW
      BY <2>1, <3>3, LivePace
    <3> HIDE DEF due
    <3>5. NotDueAt(wake) = NotDueAt(due)
      BY <3>1, <3>2, <3>3, <3>4, DueOrNot
    <3>6. wake = due
      BY <3>5 DEF NotDueAt
    <3>7. polled.last_poll - polled.last_visible < RemovalAfter
      BY <3>3 DEF PInv, SeenLately
    <3> QED  BY <1>1, <2>1, <3>3, <3>4, <3>6, <3>7
  <2> QED  BY <2>2, <2>3
<1> QED  BY <1>2, <1>3, <1>4, <1>5 DEF PromisesKept

\* The sleep, the stages, the hunt and the grace window keep what they promise about
\* time (schedule.rs, loop_run.rs), for every alignment of departure, !track and polls.
THEOREM PollsKeepTheirPromises == PollSpec => []PromisesKept
  BY PInvHolds, PromisesFollow, PTL

=============================================================================
