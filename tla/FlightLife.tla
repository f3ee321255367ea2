----------------------------- MODULE FlightLife -----------------------------
(***************************************************************************)
(* The life of one tracked flight, from !track to its removal: one ADS-B   *)
(* poll after the other drives the Advance, the clock moves between polls  *)
(* and the bot may restart at any time.  Polls happen at any pace here;    *)
(* FlightSchedule is about their pace and FlightTracker about several      *)
(* flights and the commands that interfere.                                *)
(***************************************************************************)
EXTENDS FlightAdvance

CONSTANTS
  Fleet,      \* aircraft ADS-B may report
  Metadata,   \* AviationStack answers; None is "not found"
  Idents,     \* identifiers a user may ask for
  Instants,   \* when something may happen: Nat, or the times a run looks at
  SkipBefore  \* !track asks ADS-B only when the departure is no further away

Milestones == {"Takeoff", "Cruise", "Descent", "Approach", "Landing"}

\* What ADS-B reports of an aircraft, and what AviationStack answers.
Aircraft ==
  [ flight : Opt(Callsigns), hex : Opt(Hexes), ground : BOOLEAN, alt : Opt(Int),
    rate : Opt(Int), gs : Nat, approach : BOOLEAN,
    squawk : Opt(EmergencySquawks \cup {"1000"}), located : BOOLEAN, off_course : BOOLEAN ]

FlightInfo ==
  [ callsign : Opt(Callsigns), iata : Opt(Callsigns), hex : Opt(Hexes), departure : Opt(Int),
    takeoff : Opt(Int), route : BOOLEAN, dest_known : BOOLEAN ]

ASSUME LifeAssumption ==
  /\ Fleet \subseteq Aircraft /\ Metadata \subseteq Opt(FlightInfo)
  /\ SkipBefore \in Nat
  /\ Idents \subseteq Identifiers /\ Instants \subseteq Nat /\ 0 \in Instants
  /\ None \notin TrackedFlight /\ None \notin Int /\ None \notin Milestones
  /\ None \notin HexSources

VARIABLES
  flight,        \* the TrackedFlight, or None once it is removed
  now,           \* the clock
  emits,         \* what the last poll announced
  milestone,     \* history: the last phase announcement
  visible_at     \* history: when the assigned aircraft was last reported

history == <<milestone, visible_at>>
vars == <<flight, now, emits, history>>

Announced(e, es) == \E i \in DOMAIN es : es[i] = e

\* The last phase announcement among those of one poll, or m if there is none.
LastMilestone(es, m) ==
  LET announced == {i \in DOMAIN es : es[i] \in Milestones}
  IN IF announced = {} THEN m
     ELSE es[CHOOSE i \in announced : \A j \in announced : j <= i]

Answers(f) ==
  [used_hex : {should_poll_by_hex(f)}, outcome : {"Hit"}, ac : Fleet]
    \cup [used_hex : {should_poll_by_hex(f)}, outcome : Outcomes \ {"Hit"}, ac : {None}]

should_skip_adsb_for_strict_chill(f) == f.departure # None /\ f.departure > SkipBefore

\* The callsign of a flight given by its hex is known only from ADS-B, so that
\* AviationStack is asked about it afterwards.
Completed(f, m) ==
  IF f.id.kind = "Callsign" \/ f.callsign = None THEN f
  ELSE LET g == [f EXCEPT !.checked = TRUE]
       IN IF m = None THEN g ELSE apply_aviationstack_metadata(g, m)

\* A flight as !track stores it: the metadata of its callsign, one ADS-B answer
\* unless the departure is far away, the metadata of its hex.
StartedFlights ==
  LET asked == {r \in Idents \X Opt(Callsigns) \X Users : r[1].kind = "Hex" <=> r[2] = None}
      named == {seed_flight_aliases(NewFlight(r[1], r[2], r[3], 0, r[1].kind = "Callsign"))
                  : r \in asked}
      informed == {IF m = None \/ f.id.kind = "Hex" THEN f
                   ELSE apply_aviationstack_metadata(f, m) : f \in named, m \in Metadata}
      answered == UNION {{FirstAnswer(f, obs, f.id.kind = "Callsign", 0) : obs \in Answers(f)}
                           : f \in {g \in informed : ~should_skip_adsb_for_strict_chill(g)}}
      skipped == {f \in informed : should_skip_adsb_for_strict_chill(f)}
  IN {Completed(f, m) : f \in skipped \cup (answered \ {None}), m \in Metadata}

Init ==
  /\ flight \in StartedFlights
  /\ now = 0
  /\ emits = << >>
  /\ milestone = None
  /\ visible_at = IF flight.confirmation = "Pending" THEN None ELSE 0

\* One poll of the flight and what the poll loop does with the update.
Poll(obs) ==
  LET u == advance_flight(flight, obs, now)
  IN /\ flight # None
     /\ flight.last_poll # now
     /\ flight' = IF u.removal THEN None ELSE u.flight
     /\ emits' = u.emits
     /\ milestone' = LastMilestone(u.emits, milestone)
     /\ visible_at' = IF /\ obs.outcome = "Hit"
                         /\ target_confirmation_for_aircraft(flight, obs.ac, obs.used_hex, now) # None
                      THEN now ELSE visible_at
     /\ UNCHANGED now

\* The route looked up after a poll or by !track arrives.
RouteKnown ==
  /\ flight # None /\ ~flight.route /\ flight.callsign # None
  /\ \E known \in BOOLEAN : flight' = set_route_from_iata(flight, known)
  /\ emits' = << >>
  /\ UNCHANGED <<now, history>>

\* The bot restarts and reads the flight it saved after the last change.
Restart ==
  /\ flight # None
  /\ flight' = LoadedFlight(flight)
  /\ emits' = << >>
  /\ UNCHANGED <<now, history>>

Tick ==
  /\ flight # None
  /\ now' \in {t \in Instants : t > now}
  /\ emits' = << >>
  /\ UNCHANGED <<flight, history>>

Next ==
  \/ (flight # None /\ \E obs \in Answers(flight) : Poll(obs))
  \/ RouteKnown
  \/ Restart
  \/ Tick

Spec == Init /\ [][Next]_vars

-----------------------------------------------------------------------------
(***************************************************************************)
(* Properties.                                                             *)
(***************************************************************************)
\* The flight is a TrackedFlight or gone; the clock stands at an instant.
TypeOK ==
  /\ flight \in Opt(TrackedFlight)
  /\ now \in Instants
  /\ emits \in Seq(Milestones \cup {"AdsbVisible", "SquawkEmergency", "PossibleDivert",
                                    "TrackingLost"})
  /\ milestone \in Opt(Milestones)
  /\ visible_at \in Opt(Instants)

\* A restart loses nothing: the repairs load_tracker_state makes for files of
\* older versions leave every flight this version writes as it was.
RestartIsIdentity == flight # None => LoadedFlight(flight) = flight

\* advance_flight announces a takeoff only as the first phase of a leg: never
\* again before the landing of that leg, however often the confirmation is
\* lost and regained or the bot restarts in between.
TakeoffOncePerLeg ==
  [][Announced("Takeoff", emits') => milestone \in {None, "Landing"}]_vars

\* A flight is given up as lost only when its aircraft was reported by no poll
\* for the whole grace window, also while it was visible but not confirmed.
RemovedOnlyAfterGrace ==
  [][(flight # None /\ flight' = None) =>
        visible_at # None /\ now - visible_at >= RemovalAfter]_vars

=============================================================================
