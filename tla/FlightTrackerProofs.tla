------------------------ MODULE FlightTrackerProofs ------------------------
(***************************************************************************)
(* Proofs about the flight tracker and the lookups it makes (AdsbBackends) *)
(* for every set of callsigns, addresses, users, requests, backends and    *)
(* lists, and for every cap and bound.                                     *)
(***************************************************************************)
EXTENDS FlightTracker, AdsbBackends, FoldLemmas, FiniteSetTheorems, SequenceTheorems, TLAPS

-----------------------------------------------------------------------------
(***************************************************************************)
(* The flights, in memory or on disk: what every operation on them keeps.  *)
(***************************************************************************)
Sound(fs) ==
  /\ fs \subseteq Flight
  /\ IsFiniteSet(fs)
  /\ \A f, g \in fs : f.id = g.id => f = g
  /\ Cardinality(fs) <= MAX_TRACKED_FLIGHTS
  /\ \A u \in Users : Cardinality({f \in fs : f.by = u}) <= MAX_FLIGHTS_PER_USER

\* remove_flight_at and the removals of a round keep the flights sound.
LEMMA SoundSubset ==
  ASSUME NEW fs, Sound(fs), NEW gs \in SUBSET fs
  PROVE  Sound(gs)
<1>1. gs \subseteq Flight /\ \A f, g \in gs : f.id = g.id => f = g
  BY DEF Sound
<1>2. /\ IsFiniteSet(gs) /\ Cardinality(gs) <= Cardinality(fs)
      /\ Cardinality(gs) \in Nat /\ Cardinality(fs) \in Nat
  BY FS_Subset, FS_CardinalityType DEF Sound
<1>3. ASSUME NEW u \in Users
      PROVE  Cardinality({f \in gs : f.by = u}) <= MAX_FLIGHTS_PER_USER
  <2> DEFINE F == {f \in fs : f.by = u}
             G == {f \in gs : f.by = u}
  <2>1. IsFiniteSet(F)
    BY FS_Subset DEF Sound
  <2>2. Cardinality(G) <= Cardinality(F) /\ Cardinality(F) \in Nat /\ Cardinality(G) \in Nat
    BY <2>1, FS_Subset, FS_CardinalityType
  <2>3. Cardinality(F) <= MAX_FLIGHTS_PER_USER
    BY DEF Sound
  <2> QED BY <2>2, <2>3, TrackerAssumption
<1>4. Cardinality(gs) <= MAX_TRACKED_FLIGHTS
  BY <1>2, TrackerAssumption DEF Sound
<1> QED BY <1>1, <1>2, <1>3, <1>4 DEF Sound

\* handle_track pushes a flight of a user below both caps with a new identifier.
LEMMA SoundPush ==
  ASSUME NEW fs, Sound(fs), NEW f \in Flight,
         \A g \in fs : g.id # f.id,
         Cardinality(fs) < MAX_TRACKED_FLIGHTS,
         Cardinality({g \in fs : g.by = f.by}) < MAX_FLIGHTS_PER_USER
  PROVE  Sound(fs \cup {f})
<1>1. /\ fs \cup {f} \subseteq Flight
      /\ \A g, h \in fs \cup {f} : g.id = h.id => g = h
  BY DEF Sound
<1>2. /\ IsFiniteSet(fs \cup {f})
      /\ Cardinality(fs \cup {f}) <= Cardinality(fs) + 1
      /\ Cardinality(fs) \in Nat /\ Cardinality(fs \cup {f}) \in Nat
  BY FS_AddElement, FS_CardinalityType DEF Sound
<1>3. ASSUME NEW u \in Users
      PROVE  Cardinality({g \in fs \cup {f} : g.by = u}) <= MAX_FLIGHTS_PER_USER
  <2> DEFINE F == {g \in fs : g.by = u}
  <2>1. IsFiniteSet(F) /\ Cardinality(F) <= MAX_FLIGHTS_PER_USER /\ Cardinality(F) \in Nat
    BY FS_Subset, FS_CardinalityType DEF Sound
  <2>2. CASE u = f.by
    <3>1. {g \in fs \cup {f} : g.by = u} = F \cup {f}
      BY <2>2
    <3>2. Cardinality(F \cup {f}) <= Cardinality(F) + 1 /\ Cardinality(F \cup {f}) \in Nat
      <4> HIDE DEF F
      <4>1. /\ IsFiniteSet(F \cup {f})
            /\ Cardinality(F \cup {f}) = IF f \in F THEN Cardinality(F) ELSE Cardinality(F) + 1
        BY <2>1, FS_AddElement
      <4> QED BY <2>1, <4>1, FS_CardinalityType
    <3>3. F = {g \in fs : g.by = f.by}
      BY <2>2
    <3>4. Cardinality(F) < MAX_FLIGHTS_PER_USER
      BY <3>3
    <3>5. Cardinality(F \cup {f}) <= MAX_FLIGHTS_PER_USER
      BY <2>1, <3>2, <3>4, TrackerAssumption
    <3> QED BY <3>1, <3>5
  <2>3. CASE u # f.by
    <3>1. {g \in fs \cup {f} : g.by = u} = F
      BY <2>3
    <3> QED BY <2>1, <3>1
  <2> QED BY <2>2, <2>3
<1>4. Cardinality(fs \cup {f}) <= MAX_TRACKED_FLIGHTS
  BY <1>2, TrackerAssumption
<1> QED BY <1>1, <1>2, <1>3, <1>4 DEF Sound

\* advance_flight changes a flight in place: its identifier and its user stay.
LEMMA SoundReplace ==
  ASSUME NEW fs, Sound(fs), NEW f \in fs, NEW g \in Flight, g.id = f.id, g.by = f.by
  PROVE  Sound((fs \ {f}) \cup {g})
<1> DEFINE rest == fs \ {f}
<1>1. Sound(rest)
  BY SoundSubset
<1>2. \A h \in rest : h.id # g.id
  BY DEF Sound
<1>3. Cardinality(rest) < MAX_TRACKED_FLIGHTS
  <2>1. Cardinality(rest) = Cardinality(fs) - 1 /\ Cardinality(fs) \in Nat
    BY FS_RemoveElement, FS_CardinalityType DEF Sound
  <2> QED BY <2>1, TrackerAssumption DEF Sound
<1>4. Cardinality({h \in rest : h.by = g.by}) < MAX_FLIGHTS_PER_USER
  <2> DEFINE F == {h \in fs : h.by = f.by}
  <2>1. IsFiniteSet(F) /\ f \in F /\ f.by \in Users
    BY FS_Subset DEF Sound, Flight
  <2>2. {h \in rest : h.by = g.by} = F \ {f}
    OBVIOUS
  <2>3. Cardinality(F \ {f}) = Cardinality(F) - 1 /\ Cardinality(F) \in Nat
    BY <2>1, FS_RemoveElement, FS_CardinalityType
  <2>4. Cardinality(F) <= MAX_FLIGHTS_PER_USER
    BY <2>1 DEF Sound
  <2>5. Cardinality(F \ {f}) < MAX_FLIGHTS_PER_USER
    BY <2>3, <2>4, TrackerAssumption
  <2> QED BY <2>2, <2>5
<1> QED BY <1>1, <1>2, <1>3, <1>4, SoundPush

-----------------------------------------------------------------------------
(***************************************************************************)
(* What !track may push.                                                   *)
(***************************************************************************)
\* A flight as handle_track builds it up for the command c.
Candidate(f, c) == f \in Flight /\ f.id = c.id /\ f.by = c.user /\ f.inc = next_inc

\* The flight handle_track builds has the requested identifier and user.
LEMMA NewFlightCandidate ==
  ASSUME next_inc \in Nat, NEW c \in Command, NEW cs \in Opt(Callsigns)
  PROVE  Candidate(NewFlight(c, cs), c)
BY DEF Candidate, NewFlight, seed_flight_aliases, Flight, Command, Identifiers, Opt

\* Metadata and a first sighting never change the identifier or the user.
LEMMA LearningKeepsCandidate ==
  ASSUME NEW c \in Command, NEW f, Candidate(f, c)
  PROVE  /\ \A m \in Metadata : Candidate(informed_by(f, m), c)
         /\ \A ac \in Fleet : Candidate(observed_by(f, ac), c)
<1>1. ASSUME NEW m \in Metadata
      PROVE  Candidate(informed_by(f, m), c)
  <2>1. m.callsign \in Opt(Callsigns) /\ m.hex \in Opt(Hexes)
    BY TrackerAssumption
  <2> QED BY <2>1 DEF Candidate, informed_by, Flight, Opt
<1>2. ASSUME NEW ac \in Fleet
      PROVE  Candidate(observed_by(f, ac), c)
  <2>1. ac.flight \in Opt(Callsigns) /\ ac.hex \in Opt(Hexes)
    BY TrackerAssumption
  <2> QED BY <2>1 DEF Candidate, observed_by, Flight, Opt
<1> QED BY <1>1, <1>2

\* A flight that handle_track accepts is a candidate below the caps whose
\* identifier no tracked flight has.
LEMMA TrackOutcome ==
  ASSUME next_inc \in Nat, NEW c \in Command,
         NEW f \in TrackOutcomes(c), f # None
  PROVE  /\ Candidate(f, c)
         /\ ~at_limit(c.user)
         /\ \A g \in flights : g.id # f.id
<1> DEFINE named == IF c.id.kind = "Callsign"
                    THEN {Fresh(NewFlight(c, r)) : r \in resolve_callsign(c.id.v)}
                    ELSE {NewFlight(c, None)}
           informed == {Fresh(g) : g \in UNION {Informed(h) : h \in named \ {None}}}
           sighted == UNION {Sighted(g) : g \in informed \ {None}}
           vouched == UNION {IF g.id.kind = "Hex" THEN Informed(g) ELSE {g}
                               : g \in sighted \ {None}}
           refused == (named \cup informed \cup sighted) \cap {None}
<1>0. /\ ~at_limit(c.user) /\ ~duplicate_tracking_exists(c.id, None, None)
      /\ f \in refused \cup {Fresh(g) : g \in vouched}
  BY DEF TrackOutcomes
<1>1. ASSUME NEW g, Fresh(g) # None PROVE Fresh(g) = g
  BY <1>1 DEF Fresh
<1>2. \A g \in named \ {None} : Candidate(g, c)
  <2>1. CASE c.id.kind = "Callsign"
    <3>1. resolve_callsign(c.id.v) \subseteq Opt(Callsigns)
      BY <2>1, TrackerAssumption DEF Command, Identifiers, resolve_callsign, Opt
    <3>2. \A g \in named \ {None} : \E r \in Opt(Callsigns) : g = NewFlight(c, r)
      BY <2>1, <3>1, <1>1
    <3> QED BY <3>2, NewFlightCandidate
  <2>2. CASE c.id.kind # "Callsign"
    BY <2>2, NewFlightCandidate DEF Opt
  <2> QED BY <2>1, <2>2
<1>3. ASSUME NEW g, Candidate(g, c) PROVE \A h \in Informed(g) : Candidate(h, c)
  BY <1>3, LearningKeepsCandidate DEF Informed
<1>4. \A g \in informed \ {None} : Candidate(g, c)
  BY <1>1, <1>2, <1>3
<1>5. ASSUME NEW g, Candidate(g, c) PROVE \A h \in Sighted(g) \ {None} : Candidate(h, c)
  BY <1>5, LearningKeepsCandidate DEF Sighted
<1>6. \A g \in sighted \ {None} : Candidate(g, c)
  BY <1>4, <1>5
<1>7. \A g \in vouched : Candidate(g, c)
  BY <1>6, <1>3
<1>8. Candidate(f, c)
  BY <1>0, <1>1, <1>7
<1>9. \A g \in flights : g.id # c.id
  BY <1>0 DEF duplicate_tracking_exists
<1> QED BY <1>0, <1>8, <1>9 DEF Candidate

-----------------------------------------------------------------------------
(***************************************************************************)
(* What one command does to the flights and to flights.ron.                *)
(***************************************************************************)
\* Nothing changed, or what is in memory now was written, or the write failed.
Settled ==
  \/ flights' = flights /\ disk' = disk /\ save_failed' = save_failed
  \/ disk' = flights' /\ save_failed' = FALSE
  \/ disk' = disk /\ save_failed' = TRUE

\* A command keeps the flights sound and either saves them or records that
\* the write of flights.ron failed; a dashboard request only ever removes.
LEMMA CommandEffect ==
  ASSUME next_inc \in Nat, Sound(flights), NEW c \in Command, process_command(c)
  PROVE  /\ Sound(flights') /\ next_inc' \in Nat /\ Settled
         /\ c.kind \in WebKinds => flights' \subseteq flights
         /\ c.kind = "Snapshot" => UNCHANGED store
         /\ handled' = handled \cup {c}
<1> DEFINE Effect == /\ Sound(flights') /\ next_inc' \in Nat /\ Settled
                     /\ c.kind \in WebKinds => flights' \subseteq flights
<1>0. handled' = handled \cup {c}
  BY DEF process_command
<1>1. ASSUME UNCHANGED store PROVE Effect
  BY <1>1 DEF store, Settled
<1>2. ASSUME cache_only PROVE Effect
  BY <1>2 DEF cache_only, save_tracker_state, Settled
<1>3. ASSUME NEW f, remove_flight_at(f) PROVE Effect
  <2>1. flights' \in SUBSET flights /\ next_inc' \in Nat
    BY <1>3 DEF remove_flight_at
  <2>2. Sound(flights')
    BY <2>1, SoundSubset
  <2>3. Settled
    BY <1>3 DEF remove_flight_at, save_tracker_state, Settled
  <2> QED BY <2>1, <2>2, <2>3
<1>4. ASSUME c.kind = "Track", handle_track(c) PROVE Effect
  <2>1. PICK f \in TrackOutcomes(c) :
             IF f = None THEN cache_only
             ELSE /\ flights' = flights \cup {f}
                  /\ next_inc' = next_inc + 1
                  /\ save_tracker_state(flights')
    BY <1>4 DEF handle_track
  <2>2. CASE f = None
    BY <2>1, <2>2, <1>2
  <2>3. CASE f # None
    <3>1. /\ f \in Flight /\ f.by = c.user /\ c.user \in Users
          /\ \A g \in flights : g.id # f.id
          /\ ~at_limit(c.user)
      BY <2>3, TrackOutcome DEF Candidate, Command
    <3>2. Cardinality(flights) < MAX_TRACKED_FLIGHTS
      <4>1. Cardinality(flights) \in Nat
        BY FS_CardinalityType DEF Sound
      <4> QED BY <3>1, <4>1, TrackerAssumption DEF at_limit
    <3>3. Cardinality(Tracked(c.user)) < MAX_FLIGHTS_PER_USER
      <4>1. IsFiniteSet(Tracked(c.user))
        BY FS_Subset DEF Sound, Tracked
      <4>2. Cardinality(Tracked(c.user)) \in Nat
        BY <4>1, FS_CardinalityType
      <4> QED BY <3>1, <4>2, TrackerAssumption DEF at_limit
    <3>4. Cardinality({g \in flights : g.by = f.by}) < MAX_FLIGHTS_PER_USER
      <4>1. {g \in flights : g.by = f.by} = Tracked(c.user)
        BY <3>1 DEF Tracked
      <4> QED BY <3>3, <4>1
    <3>5. Sound(flights')
      <4>1. Sound(flights \cup {f})
        BY <3>1, <3>2, <3>4, SoundPush
      <4> QED BY <2>1, <2>3, <4>1
    <3>6. Settled /\ next_inc' \in Nat
      BY <2>1, <2>3 DEF Settled, save_tracker_state
    <3> QED BY <1>4, <3>5, <3>6 DEF WebKinds
  <2> QED BY <2>2, <2>3
<1>5. CASE c.kind = "Track"
  BY <1>0, <1>4, <1>5 DEF process_command
<1>6. CASE c.kind = "Untrack"
  BY <1>0, <1>1, <1>3, <1>6 DEF process_command, handle_untrack
<1>7. CASE c.kind = "Info"
  BY <1>0, <1>2, <1>7 DEF process_command
<1>8. CASE c.kind = "DeleteFromWeb"
  BY <1>0, <1>1, <1>3, <1>8 DEF process_command, delete_from_web
<1>9. CASE c.kind \in {"Status", "Snapshot"}
  <2>1. UNCHANGED store
    BY <1>9 DEF process_command
  <2> QED BY <1>0, <1>1, <2>1
<1> QED BY <1>5, <1>6, <1>7, <1>8, <1>9 DEF Command, ChatKinds, WebKinds

-----------------------------------------------------------------------------
(***************************************************************************)
(* The inductive invariant of the poll round.                              *)
(***************************************************************************)
\* Lookups, results and removals exist only while a round fetches and applies,
\* announcements only within a round.
RoundScope ==
  /\ pc # "fetch" => lookups = {}
  /\ pc \notin {"fetch", "apply"} => results = {} /\ removals = {}
  /\ pc \notin InRound => notices = {}

\* While answers come in, every flight in memory is also on disk, maybe with
\* older telemetry.
FlightsOnDisk ==
  pc \in {"fetch", "apply"} =>
    save_failed \/ \A f \in flights : \E g \in disk : Ref(g) = Ref(f)

RoundInv ==
  /\ TypeOK
  /\ Sound(flights) /\ Sound(disk)
  /\ RoundScope
  /\ AnswersMeetTheirFlight
  /\ NothingUnsavedForgotten
  /\ FlightsOnDisk
  /\ RemovalAnnouncedOrRedone

\* The tracker starts without flights, commands or a round.
LEMMA RoundInvInit == Init => RoundInv
<1> SUFFICES ASSUME Init PROVE RoundInv
  OBVIOUS
<1>1. Sound({})
  <2>1. IsFiniteSet({}) /\ Cardinality({}) = 0
    BY FS_EmptySet
  <2>2. \A u \in Users : {f \in {} : f.by = u} = {}
    OBVIOUS
  <2> QED BY <2>1, <2>2, TrackerAssumption DEF Sound
<1>2. flights = {} /\ disk = {}
  BY DEF Init
<1>3. TypeOK
  <2>1. IsFiniteSet(flights) /\ IsFiniteSet(disk)
    BY <1>2, FS_EmptySet
  <2>2. queue \in Seq(Command) /\ deferred \in Seq(Command)
    BY DEF Init
  <2> QED BY <2>1, <2>2 DEF Init, TypeOK, InRound
<1>4. Sound(flights) /\ Sound(disk)
  BY <1>1, <1>2
<1> QED BY <1>3, <1>4 DEF Init, RoundInv, RoundScope, AnswersMeetTheirFlight,
            NothingUnsavedForgotten, FlightsOnDisk, RemovalAnnouncedOrRedone, InRound

\* The parts of the type invariant besides the flights.
RestTyped ==
  /\ next_inc \in Nat
  /\ pc \in InRound \cup {"idle", "busy", "deferred", "sleep"}
  /\ queue \in Seq(Command) /\ deferred \in Seq(Command)
  /\ lookups \subseteq Refs /\ results \subseteq Refs
  /\ removals \subseteq Refs /\ notices \subseteq Refs
  /\ changed \in BOOLEAN /\ save_failed \in BOOLEAN /\ web_saved \in BOOLEAN
  /\ sent \in Nat /\ crashes \in Nat
  /\ handled \subseteq Command

\* TypeOK is the soundness of the two sets of flights and the rest of the types.
LEMMA TypeSplit ==
  /\ TypeOK => RestTyped
  /\ (Sound(flights) /\ Sound(disk) /\ RestTyped)' => TypeOK'
BY DEF TypeOK, RestTyped, Sound

\* The invariant without the types and the flights themselves.
RoundFacts ==
  /\ RoundScope
  /\ AnswersMeetTheirFlight
  /\ NothingUnsavedForgotten
  /\ FlightsOnDisk
  /\ RemovalAnnouncedOrRedone

\* The invariant taken apart and put together again.
LEMMA RoundInvAssembled ==
  /\ RoundInv => RestTyped /\ RoundFacts
  /\ (RestTyped /\ Sound(flights) /\ Sound(disk) /\ RoundFacts)' => RoundInv'
BY TypeSplit DEF RoundInv, RoundFacts

\* A command put into the channel disturbs nothing.
LEMMA SendKeeps ==
  ASSUME RoundInv, NEW r \in Requests, Send(r)
  PROVE  RoundInv'
<1>0. RestTyped /\ RoundFacts
  BY RoundInvAssembled
<1>1. [n |-> sent, kind |-> r.kind, id |-> r.id, user |-> r.user, is_mod |-> r.is_mod] \in Command
  BY <1>0, TrackerAssumption DEF Command, RestTyped
<1>2. RestTyped'
  BY <1>0, <1>1 DEF RestTyped, Send, store, round
<1>3. Sound(flights)' /\ Sound(disk)'
  BY DEF RoundInv, Send, store
<1>4. RoundFacts'
  BY <1>0 DEF RoundFacts, RoundScope, AnswersMeetTheirFlight, NothingUnsavedForgotten,
         FlightsOnDisk, RemovalAnnouncedOrRedone, Send, store, round, Ref
<1> QED BY <1>2, <1>3, <1>4, RoundInvAssembled

\* A command outside a round: no announcement is due, no answer is awaited.
LEMMA CommandKeeps ==
  ASSUME RoundInv, NEW c \in Command, process_command(c),
         pc \notin InRound, pc' \in {"idle", "busy", "deferred", "sleep"},
         UNCHANGED <<round, sent, crashes>>,
         queue' \in Seq(Command), deferred' \in Seq(Command)
  PROVE  RoundInv'
<1>0. RestTyped /\ RoundFacts
  BY RoundInvAssembled
<1>1. /\ Sound(flights') /\ next_inc' \in Nat /\ Settled /\ handled' = handled \cup {c}
  BY <1>0, CommandEffect DEF RoundInv, RestTyped
<1>2. Sound(disk')
  <2>1. disk' = disk \/ disk' = flights'
    BY <1>1 DEF Settled
  <2> QED BY <2>1, <1>1 DEF RoundInv
<1>3. RestTyped'
  BY <1>0, <1>1 DEF RestTyped, Settled, round
<1>4. /\ lookups' = {} /\ results' = {} /\ removals' = {} /\ notices' = {}
      /\ pc' \notin InRound
  BY <1>0 DEF RoundFacts, RoundScope, round, InRound
<1>5. NothingUnsavedForgotten'
  BY <1>0, <1>1, <1>4 DEF RoundFacts, NothingUnsavedForgotten, Settled
<1>6. RoundFacts'
  BY <1>4, <1>5 DEF RoundFacts, RoundScope, AnswersMeetTheirFlight,
         FlightsOnDisk, RemovalAnnouncedOrRedone, InRound
<1> QED BY <1>1, <1>2, <1>3, <1>6, RoundInvAssembled

\* The loop takes a command between rounds.
LEMMA TakeCommandKeeps == RoundInv /\ TakeCommand => RoundInv'
<1> SUFFICES ASSUME RoundInv, TakeCommand PROVE RoundInv'
  OBVIOUS
<1>0. RestTyped
  BY RoundInvAssembled
<1>1. Head(queue) \in Command /\ queue' \in Seq(Command) /\ deferred' \in Seq(Command)
  BY <1>0 DEF RestTyped, TakeCommand
<1>2. /\ process_command(Head(queue)) /\ UNCHANGED <<round, sent, crashes>>
      /\ pc \notin InRound /\ pc' \in {"idle", "busy", "deferred", "sleep"}
  BY DEF TakeCommand, InRound
<1> QED BY <1>1, <1>2, CommandKeeps

\* The loop runs a command that a round has put aside.
LEMMA RunDeferredKeeps == RoundInv /\ RunDeferred => RoundInv'
<1> SUFFICES ASSUME RoundInv, RunDeferred PROVE RoundInv'
  OBVIOUS
<1>0. RestTyped
  BY RoundInvAssembled
<1>1. Head(deferred) \in Command /\ queue' \in Seq(Command) /\ deferred' \in Seq(Command)
  BY <1>0 DEF RestTyped, RunDeferred
<1>2. /\ process_command(Head(deferred)) /\ UNCHANGED <<round, sent, crashes>>
      /\ pc \notin InRound /\ pc' \in {"idle", "busy", "deferred", "sleep"}
  BY DEF RunDeferred, InRound
<1> QED BY <1>1, <1>2, CommandKeeps

\* poll_all_flights starts a round: its lookups refer to the flights of now.
LEMMA StartRoundKeeps ==
  ASSUME RoundInv, NEW due \in SUBSET flights, NEW expired \in SUBSET flights,
         StartRound(due, expired)
  PROVE  RoundInv'
<1>0. RestTyped /\ RoundFacts
  BY RoundInvAssembled
<1>1. pc \in {"busy", "idle"} /\ pc' = "fetch" /\ UNCHANGED store
  BY DEF StartRound
<1>2. Sound(flights)' /\ Sound(disk)'
  BY <1>1 DEF RoundInv, store
<1>3. /\ \A r \in lookups' \cup removals' \cup notices' : \E f \in flights : r = Ref(f)
      /\ results' = {}
  BY <1>0, <1>1 DEF StartRound, RoundFacts, RoundScope
<1>4. \A f \in flights : Ref(f) \in Refs
  BY DEF RoundInv, Sound, Flight, Ref, Refs
<1>5. RestTyped'
  <2>1. lookups' \subseteq Refs /\ results' \subseteq Refs /\ removals' \subseteq Refs
        /\ notices' \subseteq Refs
    BY <1>3, <1>4
  <2> QED BY <1>0, <1>1, <2>1 DEF RestTyped, StartRound, store, InRound
<1>6. disk = flights \/ save_failed
  BY <1>0, <1>1 DEF RoundFacts, NothingUnsavedForgotten, InRound
<1>7. AnswersMeetTheirFlight'
  <2> SUFFICES ASSUME NEW r \in (lookups \cup results \cup removals)',
                      NEW f \in flights, f.id = r.id
               PROVE  f.inc = r.inc
    BY <1>1 DEF AnswersMeetTheirFlight, store
  <2>1. PICK g \in flights : r = Ref(g)
    BY <1>3
  <2>2. g = f
    BY <2>1 DEF RoundInv, Sound, Ref
  <2> QED BY <2>1, <2>2 DEF Ref
<1>8. FlightsOnDisk' /\ RemovalAnnouncedOrRedone'
  BY <1>1, <1>3, <1>6 DEF FlightsOnDisk, RemovalAnnouncedOrRedone, store, Ref
<1>9. RoundScope' /\ NothingUnsavedForgotten'
  BY <1>1, <1>6 DEF RoundScope, NothingUnsavedForgotten, store, InRound
<1> QED BY <1>2, <1>5, <1>7, <1>8, <1>9, RoundInvAssembled DEF RoundFacts

\* A command that arrives in a round is put aside, or deletes or lists flights
\* at once.
LEMMA ServeInRoundKeeps == RoundInv /\ ServeInRound => RoundInv'
<1> SUFFICES ASSUME RoundInv, ServeInRound PROVE RoundInv'
  OBVIOUS
<1> DEFINE c == Head(queue)
<1>0. RestTyped /\ RoundFacts
  BY RoundInvAssembled
<1>1. /\ c \in Command /\ queue' \in Seq(Command) /\ process_latency_sensitive_command(c)
      /\ UNCHANGED <<pc, lookups, results, removals, notices, changed, sent, crashes>>
      /\ pc \in {"fetch", "apply", "flush"}
  BY <1>0 DEF RestTyped, ServeInRound
<1> HIDE DEF c
<1>2. CASE c.kind \notin WebKinds
  <2>1. UNCHANGED <<store, handled, web_saved>> /\ deferred' = Append(deferred, c)
    BY <1>1, <1>2 DEF process_latency_sensitive_command
  <2>2. Sound(flights)' /\ Sound(disk)'
    BY <2>1 DEF RoundInv, store
  <2>3. RestTyped'
    BY <1>0, <1>1, <2>1 DEF RestTyped, store
  <2>4. RoundFacts'
    BY <1>0, <1>1, <2>1 DEF RoundFacts, RoundScope, AnswersMeetTheirFlight,
         NothingUnsavedForgotten, FlightsOnDisk, RemovalAnnouncedOrRedone, store, Ref
  <2> QED BY <2>2, <2>3, <2>4, RoundInvAssembled
<1>3. CASE c.kind \in WebKinds
  <2>1. /\ process_command(c) /\ deferred' = deferred
        /\ web_saved' = (web_saved \/ c.kind = "DeleteFromWeb")
    BY <1>1, <1>3 DEF process_latency_sensitive_command
  <2>2. /\ Sound(flights') /\ next_inc' \in Nat /\ Settled /\ handled' = handled \cup {c}
        /\ flights' \subseteq flights
        /\ c.kind = "Snapshot" => UNCHANGED store
    BY <1>0, <1>1, <1>3, <2>1, CommandEffect DEF RoundInv, RestTyped
  <2>3. Sound(disk')
    <3>1. disk' = disk \/ disk' = flights'
      BY <2>2 DEF Settled
    <3> QED BY <3>1, <2>2 DEF RoundInv
  <2>4. RestTyped'
    BY <1>0, <1>1, <2>1, <2>2 DEF RestTyped, Settled
  <2>5. AnswersMeetTheirFlight'
    BY <1>0, <1>1, <2>2 DEF RoundFacts, AnswersMeetTheirFlight
  <2>6. RoundScope'
    BY <1>0, <1>1 DEF RoundFacts, RoundScope
  <2>7. NothingUnsavedForgotten' /\ FlightsOnDisk'
    BY <1>0, <1>1, <2>2 DEF RoundFacts, NothingUnsavedForgotten, FlightsOnDisk, Settled, Ref
  <2>8. RemovalAnnouncedOrRedone'
    <3>1. CASE c.kind = "DeleteFromWeb"
      BY <2>1, <3>1, <1>0 DEF RemovalAnnouncedOrRedone, RestTyped
    <3>2. CASE c.kind = "Snapshot"
      <4>1. web_saved => web_saved'
        BY <2>1
      <4>2. disk' = disk /\ save_failed' = save_failed /\ notices' = notices
        BY <1>1, <2>2, <3>2 DEF store
      <4> QED BY <1>0, <4>1, <4>2 DEF RoundFacts, RemovalAnnouncedOrRedone, Ref
    <3> QED BY <1>3, <3>1, <3>2 DEF WebKinds
  <2> QED BY <2>2, <2>3, <2>4, <2>5, <2>6, <2>7, <2>8, RoundInvAssembled DEF RoundFacts
<1> QED BY <1>2, <1>3

\* The answer of one lookup is applied to the flight it is about.
LEMMA ApplyKeeps ==
  ASSUME RoundInv, NEW r \in results, Apply(r)
  PROVE  RoundInv'
<1>0. RestTyped /\ RoundFacts
  BY RoundInvAssembled
<1>1. /\ pc = "apply" /\ results' = results \ {r}
      /\ UNCHANGED <<disk, next_inc, save_failed, pc, queue, deferred, lookups, web_saved,
                     sent, handled, crashes>>
  BY DEF Apply
<1>2. CASE UNCHANGED <<flights, removals, notices, changed>>
  <2>1. Sound(flights)' /\ Sound(disk)'
    BY <1>1, <1>2 DEF RoundInv
  <2>2. RestTyped'
    BY <1>0, <1>1, <1>2 DEF RestTyped
  <2>3. RoundFacts'
    BY <1>0, <1>1, <1>2 DEF RoundFacts, RoundScope, AnswersMeetTheirFlight,
         NothingUnsavedForgotten, FlightsOnDisk, RemovalAnnouncedOrRedone, Ref
  <2> QED BY <2>1, <2>2, <2>3, RoundInvAssembled
<1>3. ASSUME NEW f \in find_index_by_identifier(r.id), changed' = TRUE,
             \/ /\ \E ac \in {a \in Fleet : confirms(f, a)} :
                     flights' = (flights \ {f}) \cup {observed_by(f, ac)}
                /\ UNCHANGED <<removals, notices>>
             \/ UNCHANGED <<flights, removals, notices>>
             \/ /\ removals' = removals \cup {r}
                /\ notices' = notices \cup {r}
                /\ UNCHANGED flights
      PROVE  RoundInv'
  <2>0. f \in flights /\ f.id = r.id /\ f \in Flight
    BY DEF find_index_by_identifier, RoundInv, Sound
  <2>1. f.inc = r.inc
    BY <2>0, <1>0 DEF RoundFacts, AnswersMeetTheirFlight
  <2>2. \A ac \in Fleet : /\ observed_by(f, ac) \in Flight /\ observed_by(f, ac).id = f.id
                          /\ observed_by(f, ac).by = f.by /\ observed_by(f, ac).inc = f.inc
    <3> SUFFICES ASSUME NEW ac \in Fleet
                 PROVE  /\ observed_by(f, ac) \in Flight /\ observed_by(f, ac).id = f.id
                        /\ observed_by(f, ac).by = f.by /\ observed_by(f, ac).inc = f.inc
      OBVIOUS
    <3>1. ac.flight \in Opt(Callsigns) /\ ac.hex \in Opt(Hexes)
      BY TrackerAssumption
    <3> QED BY <3>1, <2>0 DEF observed_by, Flight, Opt
  <2>3. Sound(flights)' /\ Sound(disk)'
    BY <1>1, <1>3, <2>0, <2>2, SoundReplace DEF RoundInv
  <2>4. RestTyped'
    <3>1. r \in Refs
      BY <1>0 DEF RestTyped
    <3> QED BY <1>0, <1>1, <1>3, <3>1 DEF RestTyped
  <2>5. \A g \in flights' : \E h \in flights : g.id = h.id /\ g.inc = h.inc
    BY <1>3, <2>0, <2>2
  <2>6. AnswersMeetTheirFlight'
    <3>1. (lookups \cup results \cup removals)' \subseteq lookups \cup results \cup removals
      BY <1>1, <1>3
    <3> QED BY <1>0, <3>1, <2>5 DEF RoundFacts, AnswersMeetTheirFlight
  <2>7. FlightsOnDisk'
    BY <1>0, <1>1, <2>5 DEF RoundFacts, FlightsOnDisk, Ref
  <2>8. RemovalAnnouncedOrRedone'
    <3>1. save_failed \/ \E g \in disk : Ref(g) = r
      <4>1. r = Ref(f)
        BY <2>0, <2>1, <1>0 DEF RestTyped, Refs, Ref
      <4> QED BY <1>0, <1>1, <2>0, <4>1 DEF RoundFacts, FlightsOnDisk
    <3> QED BY <1>0, <1>1, <1>3, <3>1 DEF RoundFacts, RemovalAnnouncedOrRedone, Ref
  <2>9. RoundScope' /\ NothingUnsavedForgotten'
    BY <1>0, <1>1, <1>3 DEF RoundFacts, RoundScope, NothingUnsavedForgotten, InRound
  <2> QED BY <2>3, <2>4, <2>6, <2>7, <2>8, <2>9, RoundInvAssembled DEF RoundFacts
<1> QED BY <1>2, <1>3 DEF Apply

\* The flights given up in the round are removed from memory.
LEMMA CarryOutRemovalsKeeps == RoundInv /\ CarryOutRemovals => RoundInv'
<1> SUFFICES ASSUME RoundInv, CarryOutRemovals PROVE RoundInv'
  OBVIOUS
<1>0. RestTyped /\ RoundFacts
  BY RoundInvAssembled
<1>1. /\ pc = "apply" /\ pc' = "flush" /\ results = {} /\ removals' = {}
      /\ flights' = {f \in flights : \A r \in removals : r.id # f.id}
      /\ changed' = (changed \/ flights' # flights)
      /\ UNCHANGED <<disk, next_inc, save_failed, queue, deferred, lookups, results,
                     notices, web_saved, sent, handled, crashes>>
  BY DEF CarryOutRemovals
<1>2. Sound(flights)' /\ Sound(disk)'
  <2>1. flights' \in SUBSET flights
    BY <1>1
  <2> QED BY <1>1, <2>1, SoundSubset DEF RoundInv
<1>3. RestTyped'
  BY <1>0, <1>1 DEF RestTyped, InRound
<1>4. lookups' = {} /\ results' = {} /\ removals' = {}
  BY <1>0, <1>1 DEF RoundFacts, RoundScope
<1>5. NothingUnsavedForgotten'
  <2>1. CASE flights' = flights
    <3>1. changed => changed'
      BY <1>1
    <3> QED BY <1>0, <1>1, <2>1, <3>1 DEF RoundFacts, NothingUnsavedForgotten, InRound
  <2>2. CASE flights' # flights
    <3>1. changed'
      BY <1>1, <2>2
    <3> QED BY <1>1, <3>1 DEF NothingUnsavedForgotten, InRound
  <2> QED BY <2>1, <2>2
<1>6. RoundFacts'
  BY <1>0, <1>1, <1>4, <1>5 DEF RoundFacts, RoundScope, AnswersMeetTheirFlight,
         FlightsOnDisk, RemovalAnnouncedOrRedone, InRound, Ref
<1> QED BY <1>2, <1>3, <1>6, RoundInvAssembled

\* The steps that move the loop on and leave the flights alone.
LEMMA LoopMovesKeep ==
  ASSUME RoundInv,
         \/ \E l \in lookups : Arrive(l)
         \/ FetchDone
         \/ Flushed
         \/ \E n \in notices : Say(n)
         \/ GoToSleep
         \/ Wake
  PROVE  RoundInv'
<1>0. RestTyped /\ RoundFacts
  BY RoundInvAssembled
<1>1. ASSUME NEW l \in lookups, Arrive(l) PROVE RoundInv'
  <2>1. Sound(flights)' /\ Sound(disk)'
    BY <1>1 DEF RoundInv, Arrive, store
  <2>2. RestTyped'
    BY <1>0, <1>1 DEF RestTyped, Arrive, store
  <2>3. RoundFacts'
    BY <1>0, <1>1 DEF RoundFacts, RoundScope, AnswersMeetTheirFlight,
         NothingUnsavedForgotten, FlightsOnDisk, RemovalAnnouncedOrRedone, Arrive, store, Ref
  <2> QED BY <2>1, <2>2, <2>3, RoundInvAssembled
<1>2. CASE FetchDone
  <2>1. Sound(flights)' /\ Sound(disk)'
    BY <1>2 DEF RoundInv, FetchDone, store
  <2>2. RestTyped'
    BY <1>0, <1>2 DEF RestTyped, FetchDone, store, round, InRound
  <2>3. RoundFacts'
    BY <1>0, <1>2 DEF RoundFacts, RoundScope, AnswersMeetTheirFlight, InRound,
         NothingUnsavedForgotten, FlightsOnDisk, RemovalAnnouncedOrRedone, FetchDone, store,
         round, Ref
  <2> QED BY <2>1, <2>2, <2>3, RoundInvAssembled
<1>3. CASE Flushed
  <2>1. Sound(flights)' /\ Sound(disk)'
    BY <1>3 DEF RoundInv, Flushed, store
  <2>2. RestTyped'
    BY <1>0, <1>3 DEF RestTyped, Flushed, store, round, InRound
  <2>3. RoundFacts'
    BY <1>0, <1>3 DEF RoundFacts, RoundScope, AnswersMeetTheirFlight, InRound,
         NothingUnsavedForgotten, FlightsOnDisk, RemovalAnnouncedOrRedone, Flushed, store,
         round, Ref
  <2> QED BY <2>1, <2>2, <2>3, RoundInvAssembled
<1>4. ASSUME NEW n \in notices, Say(n) PROVE RoundInv'
  <2>1. Sound(flights)' /\ Sound(disk)'
    BY <1>4 DEF RoundInv, Say, store
  <2>2. RestTyped'
    BY <1>0, <1>4 DEF RestTyped, Say, store
  <2>3. RoundFacts'
    BY <1>0, <1>4 DEF RoundFacts, RoundScope, AnswersMeetTheirFlight, InRound,
         NothingUnsavedForgotten, FlightsOnDisk, RemovalAnnouncedOrRedone, Say, store, Ref
  <2> QED BY <2>1, <2>2, <2>3, RoundInvAssembled
<1>5. CASE GoToSleep \/ Wake
  <2>1. Sound(flights)' /\ Sound(disk)'
    BY <1>5 DEF RoundInv, GoToSleep, Wake, store
  <2>2. RestTyped'
    BY <1>0, <1>5 DEF RestTyped, GoToSleep, Wake, store, round, InRound
  <2>3. RoundFacts'
    BY <1>0, <1>5 DEF RoundFacts, RoundScope, AnswersMeetTheirFlight, InRound,
         NothingUnsavedForgotten, FlightsOnDisk, RemovalAnnouncedOrRedone, GoToSleep, Wake,
         store, round, Ref
  <2> QED BY <2>1, <2>2, <2>3, RoundInvAssembled
<1> QED BY <1>1, <1>2, <1>3, <1>4, <1>5

\* The save at the end of a round.
LEMMA SaveKeeps == RoundInv /\ Save => RoundInv'
<1> SUFFICES ASSUME RoundInv, Save PROVE RoundInv'
  OBVIOUS
<1>0. RestTyped /\ RoundFacts
  BY RoundInvAssembled
<1>1. /\ pc = "say" /\ pc' = "deferred" /\ notices = {} /\ changed' = FALSE
      /\ IF changed THEN save_tracker_state(flights) ELSE UNCHANGED <<disk, save_failed>>
      /\ UNCHANGED <<flights, next_inc, queue, deferred, lookups, results, removals,
                     notices, web_saved, sent, handled, crashes>>
  BY DEF Save
<1>2. disk' \in {disk, flights} /\ save_failed' \in BOOLEAN
  BY <1>0, <1>1 DEF save_tracker_state, RestTyped
<1>3. Sound(flights)' /\ Sound(disk)'
  BY <1>1, <1>2 DEF RoundInv
<1>4. RestTyped'
  BY <1>0, <1>1, <1>2 DEF RestTyped
<1>5. NothingUnsavedForgotten'
  BY <1>0, <1>1 DEF RoundFacts, NothingUnsavedForgotten, save_tracker_state
<1>6. RoundFacts'
  BY <1>0, <1>1, <1>5 DEF RoundFacts, RoundScope, AnswersMeetTheirFlight,
         FlightsOnDisk, RemovalAnnouncedOrRedone, InRound
<1> QED BY <1>3, <1>4, <1>6, RoundInvAssembled

\* A crash loses everything but flights.ron.
LEMMA CrashKeeps == RoundInv /\ Crash => RoundInv'
<1> SUFFICES ASSUME RoundInv, Crash PROVE RoundInv'
  OBVIOUS
<1>0. RestTyped
  BY RoundInvAssembled
<1>1. Sound(flights)' /\ Sound(disk)'
  BY DEF RoundInv, Crash
<1>2. RestTyped'
  <2>1. (queue \in Seq(Command) /\ deferred \in Seq(Command))'
    BY DEF Crash
  <2>2. (lookups = {} /\ results = {} /\ removals = {} /\ notices = {} /\ pc = "idle")'
    BY DEF Crash
  <2>3. (/\ next_inc \in Nat /\ sent \in Nat /\ crashes \in Nat /\ handled \subseteq Command
         /\ changed = FALSE /\ save_failed = FALSE /\ web_saved = FALSE)'
    BY <1>0 DEF RestTyped, Crash
  <2> QED BY <2>1, <2>2, <2>3 DEF RestTyped
<1>3. RoundFacts'
  BY DEF RoundFacts, RoundScope, AnswersMeetTheirFlight, InRound,
         NothingUnsavedForgotten, FlightsOnDisk, RemovalAnnouncedOrRedone, Crash
<1> QED BY <1>1, <1>2, <1>3, RoundInvAssembled

\* The invariant is inductive.
LEMMA RoundInvNext == RoundInv /\ [Next]_vars => RoundInv'
<1> SUFFICES ASSUME RoundInv, [Next]_vars PROVE RoundInv'
  OBVIOUS
<1>1. CASE \E due \in SUBSET flights : \E expired \in SUBSET (flights \ due) :
              StartRound(due, expired)
  BY <1>1, StartRoundKeeps
<1>2. CASE \E r \in results : Apply(r)
  BY <1>2, ApplyKeeps
<1>3. CASE \E r \in Requests : Send(r)
  BY <1>3, SendKeeps
<1>4. CASE UNCHANGED vars
  <2>0. RestTyped /\ RoundFacts
    BY RoundInvAssembled
  <2>1. Sound(flights)' /\ Sound(disk)'
    BY <1>4 DEF RoundInv, vars, store
  <2>2. RestTyped'
    BY <2>0, <1>4 DEF RestTyped, vars, store, round
  <2>3. RoundFacts'
    BY <2>0, <1>4 DEF RoundFacts, RoundScope, AnswersMeetTheirFlight, NothingUnsavedForgotten,
         FlightsOnDisk, RemovalAnnouncedOrRedone, vars, store, round, Ref
  <2> QED BY <2>1, <2>2, <2>3, RoundInvAssembled
<1> QED BY <1>1, <1>2, <1>3, <1>4, TakeCommandKeeps, RunDeferredKeeps, ServeInRoundKeeps,
           CarryOutRemovalsKeeps, LoopMovesKeep, SaveKeeps, CrashKeeps DEF Next, Loop

\* The invariant holds in every reachable state.
LEMMA RoundInvariant == Spec => []RoundInv
BY RoundInvInit, RoundInvNext, PTL DEF Spec

-----------------------------------------------------------------------------
(***************************************************************************)
(* The order of the commands: both sequences are in the order of sending,  *)
(* what was put aside was sent before what is still in the channel, and    *)
(* the chat commands that took effect come before both.                    *)
(***************************************************************************)
Ascending(s) == \A i, j \in 1 .. Len(s) : i < j => s[i].n < s[j].n

After(n, s) == \A i \in 1 .. Len(s) : n < s[i].n

OrderInv ==
  /\ Ascending(queue) /\ Ascending(deferred)
  /\ \A i \in 1 .. Len(deferred) : After(deferred[i].n, queue)
  /\ \A i \in 1 .. Len(queue) : queue[i].n < sent
  /\ \A i \in 1 .. Len(deferred) : deferred[i].n < sent
  /\ \A c \in handled : /\ c.n < sent
                        /\ c.kind \in ChatKinds => After(c.n, queue) /\ After(c.n, deferred)
  /\ pc \notin InRound \cup {"deferred"} => deferred = << >>

\* A new command has the highest number.
LEMMA OrderSend ==
  ASSUME RestTyped, OrderInv, NEW r \in Requests, Send(r)
  PROVE  OrderInv'
<1>1. /\ queue' = Append(queue, [n |-> sent, kind |-> r.kind, id |-> r.id,
                                 user |-> r.user, is_mod |-> r.is_mod])
      /\ sent' = sent + 1
      /\ UNCHANGED <<deferred, handled, pc>>
  BY DEF Send
<1>2. /\ Len(queue') = Len(queue) + 1
      /\ \A i \in 1 .. Len(queue) : queue'[i] = queue[i]
      /\ queue'[Len(queue) + 1].n = sent
      /\ Len(queue) \in Nat
  BY <1>1 DEF RestTyped
<1>3. /\ \A i \in 1 .. Len(queue) : queue[i].n \in Nat
      /\ \A i \in 1 .. Len(deferred) : deferred[i].n \in Nat
      /\ \A c \in handled : c.n \in Nat
      /\ sent \in Nat
  <2>1. /\ \A i \in 1 .. Len(queue) : queue[i] \in Command
        /\ \A i \in 1 .. Len(deferred) : deferred[i] \in Command
        /\ \A c \in handled : c \in Command
        /\ sent \in Nat
    BY DEF RestTyped
  <2>2. \A c \in Command : c.n \in Nat
    BY DEF Command
  <2> QED BY <2>1, <2>2
<1>4. \A i \in 1 .. Len(queue') : i \in 1 .. Len(queue) \/ i = Len(queue) + 1
  BY <1>2
<1>5. Ascending(queue')
  <2> SUFFICES ASSUME NEW i \in 1 .. Len(queue'), NEW j \in 1 .. Len(queue'), i < j
               PROVE  queue'[i].n < queue'[j].n
    BY DEF Ascending
  <2>1. i \in 1 .. Len(queue)
    BY <1>2
  <2>2. CASE j \in 1 .. Len(queue)
    BY <1>2, <2>1, <2>2 DEF OrderInv, Ascending
  <2>3. CASE j = Len(queue) + 1
    BY <1>2, <2>1, <2>3 DEF OrderInv
  <2> QED BY <1>4, <2>2, <2>3
<1>6. ASSUME NEW m \in Nat, m < sent, After(m, queue) PROVE After(m, queue')
  BY <1>2, <1>4, <1>6 DEF After
<1>7. \A i \in 1 .. Len(deferred) : After(deferred[i].n, queue')
  BY <1>3, <1>6 DEF OrderInv
<1>8. \A i \in 1 .. Len(queue') : queue'[i].n < sent'
  BY <1>1, <1>2, <1>3, <1>4 DEF OrderInv
<1>9. \A c \in handled : c.kind \in ChatKinds => After(c.n, queue')
  BY <1>3, <1>6 DEF OrderInv
<1>10. \A n \in Nat : n < sent => n < sent'
  BY <1>1, <1>3
<1>11. /\ \A i \in 1 .. Len(deferred) : deferred[i].n < sent'
       /\ \A c \in handled : c.n < sent'
  BY <1>3, <1>10 DEF OrderInv
<1> QED BY <1>1, <1>5, <1>7, <1>8, <1>9, <1>11 DEF OrderInv

\* Taking the first of a sequence in ascending order.
LEMMA AscendingTail ==
  ASSUME NEW s \in Seq(Command), s # << >>, Ascending(s)
  PROVE  /\ Tail(s) \in Seq(Command) /\ Head(s) \in Command
         /\ Ascending(Tail(s))
         /\ After(Head(s).n, Tail(s))
         /\ \A i \in 1 .. Len(Tail(s)) : \E j \in 1 .. Len(s) : Tail(s)[i] = s[j]
         /\ \E j \in 1 .. Len(s) : Head(s) = s[j]
<1>1. /\ Len(s) \in Nat \ {0} /\ Len(Tail(s)) = Len(s) - 1 /\ Head(s) = s[1]
      /\ \A i \in 1 .. Len(Tail(s)) : Tail(s)[i] = s[i + 1] /\ i + 1 \in 1 .. Len(s)
      /\ Tail(s) \in Seq(Command) /\ Head(s) \in Command
  OBVIOUS
<1>2. Ascending(Tail(s))
  BY <1>1 DEF Ascending
<1>3. After(Head(s).n, Tail(s))
  <2> SUFFICES ASSUME NEW i \in 1 .. Len(Tail(s)) PROVE Head(s).n < Tail(s)[i].n
    BY DEF After
  <2>1. 1 \in 1 .. Len(s) /\ i + 1 \in 1 .. Len(s) /\ 1 < i + 1
    BY <1>1
  <2>2. s[1].n < s[i + 1].n
    BY <2>1 DEF Ascending
  <2> QED BY <1>1, <2>2
<1> QED BY <1>1, <1>2, <1>3

\* Taking the head of the channel keeps the order; nothing is put aside then.
LEMMA OrderTakeCommand ==
  ASSUME RestTyped, OrderInv, TakeCommand
  PROVE  OrderInv'
<1> DEFINE c == Head(queue)
<1>1. /\ queue # << >> /\ queue' = Tail(queue) /\ handled' = handled \cup {c}
      /\ UNCHANGED <<deferred, sent>>
      /\ pc \in {"idle", "busy", "sleep"} /\ pc' \in {"idle", "busy"}
  BY DEF TakeCommand, process_command
<1>2. deferred = << >>
  BY <1>1 DEF OrderInv, InRound
<1>3. /\ Ascending(queue') /\ After(c.n, queue')
      /\ \A i \in 1 .. Len(queue') : \E j \in 1 .. Len(queue) : queue'[i] = queue[j]
      /\ \E j \in 1 .. Len(queue) : c = queue[j]
  BY <1>1, AscendingTail DEF RestTyped, OrderInv
<1>4. ASSUME NEW m, After(m, queue) PROVE After(m, queue')
  BY <1>3, <1>4 DEF After
<1>5. \A i \in 1 .. Len(queue') : queue'[i].n < sent'
  BY <1>1, <1>3 DEF OrderInv
<1>6. c.n < sent
  BY <1>3 DEF OrderInv
<1> HIDE DEF c
<1>7. /\ deferred' = << >> /\ Ascending(deferred')
      /\ \A i \in 1 .. Len(deferred') : FALSE
  BY <1>1, <1>2 DEF Ascending
<1>8. \A d \in handled' : /\ d.n < sent'
                          /\ d.kind \in ChatKinds => After(d.n, queue') /\ After(d.n, deferred')
  BY <1>1, <1>3, <1>4, <1>6, <1>7 DEF OrderInv, After
<1> QED BY <1>3, <1>5, <1>7, <1>8 DEF OrderInv

\* Running the head of what was put aside keeps the order.
LEMMA OrderRunDeferred ==
  ASSUME RestTyped, OrderInv, RunDeferred
  PROVE  OrderInv'
<1> DEFINE c == Head(deferred)
<1>1. /\ deferred # << >> /\ deferred' = Tail(deferred) /\ handled' = handled \cup {c}
      /\ UNCHANGED <<queue, sent>>
      /\ pc = "deferred" /\ pc' = "deferred"
  BY DEF RunDeferred, process_command
<1>3. /\ Ascending(deferred') /\ After(c.n, deferred')
      /\ \A i \in 1 .. Len(deferred') : \E j \in 1 .. Len(deferred) : deferred'[i] = deferred[j]
      /\ \E j \in 1 .. Len(deferred) : c = deferred[j]
  BY <1>1, AscendingTail DEF RestTyped, OrderInv
<1>4. ASSUME NEW m, After(m, deferred) PROVE After(m, deferred')
  BY <1>3, <1>4 DEF After
<1>5. \A i \in 1 .. Len(deferred') : deferred'[i].n < sent' /\ After(deferred'[i].n, queue')
  BY <1>1, <1>3 DEF OrderInv
<1>6. c.n < sent /\ After(c.n, queue)
  BY <1>3 DEF OrderInv
<1> HIDE DEF c
<1>8. \A d \in handled' : /\ d.n < sent'
                          /\ d.kind \in ChatKinds => After(d.n, queue') /\ After(d.n, deferred')
  BY <1>1, <1>3, <1>4, <1>6 DEF OrderInv
<1> QED BY <1>1, <1>3, <1>5, <1>8 DEF OrderInv

\* Putting the head of the channel at the end of the deferred commands keeps
\* the order.
LEMMA OrderServeInRound ==
  ASSUME RestTyped, OrderInv, ServeInRound
  PROVE  OrderInv'
<1> DEFINE c == Head(queue)
<1>1. /\ queue # << >> /\ queue' = Tail(queue) /\ process_latency_sensitive_command(c)
      /\ UNCHANGED <<sent, pc>>
      /\ pc \in {"fetch", "apply", "flush"}
  BY DEF ServeInRound
<1>3. /\ Ascending(queue') /\ After(c.n, queue') /\ c \in Command
      /\ \A i \in 1 .. Len(queue') : \E j \in 1 .. Len(queue) : queue'[i] = queue[j]
      /\ \E j \in 1 .. Len(queue) : c = queue[j]
  BY <1>1, AscendingTail DEF RestTyped, OrderInv
<1>4. ASSUME NEW m, After(m, queue) PROVE After(m, queue') /\ m < c.n
  BY <1>3, <1>4 DEF After
<1>5. \A i \in 1 .. Len(queue') : queue'[i].n < sent'
  BY <1>1, <1>3 DEF OrderInv
<1>6. c.n < sent
  BY <1>3 DEF OrderInv
<1> HIDE DEF c
<1>7. CASE c.kind \in WebKinds
  <2>1. handled' = handled \cup {c} /\ deferred' = deferred /\ c.kind \notin ChatKinds
    BY <1>1, <1>7 DEF process_latency_sensitive_command, process_command, WebKinds, ChatKinds
  <2>2. \A d \in handled' : /\ d.n < sent'
                            /\ d.kind \in ChatKinds => After(d.n, queue') /\ After(d.n, deferred')
    BY <1>1, <1>4, <1>6, <2>1 DEF OrderInv
  <2> QED BY <1>1, <1>3, <1>4, <1>5, <2>1, <2>2 DEF OrderInv, InRound
<1>8. CASE c.kind \notin WebKinds
  <2>1. handled' = handled /\ deferred' = Append(deferred, c)
    BY <1>1, <1>8 DEF process_latency_sensitive_command
  <2>2. /\ Len(deferred') = Len(deferred) + 1 /\ Len(deferred) \in Nat
        /\ \A i \in 1 .. Len(deferred) : deferred'[i] = deferred[i]
        /\ deferred'[Len(deferred) + 1] = c
    BY <1>3, <2>1 DEF RestTyped
  <2>3. \A i \in 1 .. Len(deferred') : i \in 1 .. Len(deferred) \/ i = Len(deferred) + 1
    BY <2>2
  <2>4. \A i \in 1 .. Len(deferred) : After(deferred[i].n, queue') /\ deferred[i].n < c.n
    BY <1>4 DEF OrderInv
  <2>5. Ascending(deferred')
    BY <2>2, <2>3, <2>4 DEF OrderInv, Ascending
  <2>6. \A i \in 1 .. Len(deferred') : After(deferred'[i].n, queue') /\ deferred'[i].n < sent'
    BY <1>1, <1>3, <1>6, <2>2, <2>3, <2>4 DEF OrderInv
  <2>7. \A d \in handled : d.kind \in ChatKinds => After(d.n, queue') /\ After(d.n, deferred')
    <3> SUFFICES ASSUME NEW d \in handled, d.kind \in ChatKinds
                 PROVE  After(d.n, queue') /\ After(d.n, deferred')
      OBVIOUS
    <3>1. After(d.n, queue') /\ d.n < c.n /\ After(d.n, deferred)
      BY <1>4 DEF OrderInv
    <3>2. After(d.n, deferred')
      BY <3>1, <2>2, <2>3 DEF After
    <3> QED BY <3>1, <3>2
  <2> QED BY <1>1, <1>3, <1>5, <2>1, <2>5, <2>6, <2>7 DEF OrderInv, InRound
<1> QED BY <1>7, <1>8

\* The order of the commands is inductive.
LEMMA OrderNext == RestTyped /\ OrderInv /\ [Next]_vars => OrderInv'
<1> SUFFICES ASSUME RestTyped, OrderInv, [Next]_vars PROVE OrderInv'
  OBVIOUS
<1>1. CASE \E r \in Requests : Send(r)
  BY <1>1, OrderSend
<1>2. CASE TakeCommand \/ RunDeferred \/ ServeInRound
  BY <1>2, OrderTakeCommand, OrderRunDeferred, OrderServeInRound
<1>3. CASE Crash
  <2>1. queue' = << >> /\ deferred' = << >> /\ UNCHANGED <<sent, handled>>
    BY <1>3 DEF Crash
  <2> QED BY <2>1 DEF OrderInv, Ascending, After
<1>4. ASSUME UNCHANGED <<queue, deferred, sent, handled>>,
             pc' \in InRound \cup {"deferred"} \/ deferred = << >>
      PROVE  OrderInv'
  BY <1>4 DEF OrderInv
<1>5. CASE UNCHANGED vars
  BY <1>5 DEF OrderInv, vars
<1>6. CASE \E due \in SUBSET flights : \E expired \in SUBSET (flights \ due) :
              StartRound(due, expired)
  BY <1>4, <1>6 DEF StartRound, InRound
<1>7. CASE (\E l \in lookups : Arrive(l)) \/ (\E r \in results : Apply(r))
  BY <1>4, <1>7 DEF Arrive, Apply, InRound
<1>8. CASE FetchDone \/ CarryOutRemovals \/ Flushed \/ Save
  BY <1>4, <1>8 DEF FetchDone, CarryOutRemovals, Flushed, Save, InRound
<1>9. CASE \E n \in notices : Say(n)
  BY <1>4, <1>9 DEF Say, InRound
<1>10. CASE GoToSleep
  BY <1>4, <1>10 DEF GoToSleep
<1>11. CASE Wake
  <2>1. deferred = << >>
    BY <1>11 DEF Wake, OrderInv, InRound
  <2> QED BY <1>4, <1>11, <2>1 DEF Wake
<1> QED BY <1>1, <1>2, <1>3, <1>5, <1>6, <1>7, <1>8, <1>9, <1>10, <1>11 DEF Next, Loop

\* No command has been sent at the start.
LEMMA OrderInit == Init => OrderInv
BY DEF Init, OrderInv, Ascending, After

-----------------------------------------------------------------------------
(***************************************************************************)
(* The theorems.                                                           *)
(***************************************************************************)
\* Every reachable state of run_flight_tracker is well typed.
THEOREM TypeCorrect == Spec => []TypeOK
<1>1. RoundInv => TypeOK
  BY DEF RoundInv
<1> QED BY <1>1, RoundInvariant, PTL

\* No two flights share an identifier, in memory or in flights.ron, whatever
\* commands, polls, failed writes and crashes come together.
THEOREM IdentifiersUnique == Spec => []UniqueIdentifiers
<1>1. RoundInv => UniqueIdentifiers
  BY DEF RoundInv, Sound, UniqueIdentifiers
<1> QED BY <1>1, RoundInvariant, PTL

\* The caps handle_track checks before its awaits still hold when it pushes.
THEOREM CapsRespected == Spec => []CapsHold
<1>1. RoundInv => CapsHold
  BY DEF RoundInv, Sound, CapsHold
<1> QED BY <1>1, RoundInvariant, PTL

\* Putting chat commands aside during a round is enough to keep the answers of
\* the round from meeting a flight that was deleted and tracked again.
THEOREM AnswersMatch == Spec => []AnswersMeetTheirFlight
<1>1. RoundInv => AnswersMeetTheirFlight
  BY DEF RoundInv
<1> QED BY <1>1, RoundInvariant, PTL

\* Outside a round flights.ron is what memory holds, unless the last write
\* failed.
THEOREM Durable == Spec => []NothingUnsavedForgotten
<1>1. RoundInv => NothingUnsavedForgotten
  BY DEF RoundInv
<1> QED BY <1>1, RoundInvariant, PTL

\* A crash before the announcement of a removal brings the flight back.
THEOREM RemovalsAnnounced == Spec => []RemovalAnnouncedOrRedone
<1>1. RoundInv => RemovalAnnouncedOrRedone
  BY DEF RoundInv
<1> QED BY <1>1, RoundInvariant, PTL

\* Chat commands take effect in the order of sending.
THEOREM ChatOrdered == Spec => []ChatInOrder
<1>1. RoundInv => RestTyped
  BY RoundInvAssembled
<1>2. RestTyped /\ OrderInv => ChatInOrder
  <2> SUFFICES ASSUME RestTyped, OrderInv, NEW c \in handled, NEW d \in Waiting,
                      c.kind \in ChatKinds
               PROVE  c.n < d.n
    BY DEF ChatInOrder
  <2>1. DOMAIN queue = 1 .. Len(queue) /\ DOMAIN deferred = 1 .. Len(deferred)
    BY DEF RestTyped
  <2> QED BY <2>1 DEF Waiting, OrderInv, After
<1>3. Spec => []OrderInv
  BY <1>1, OrderInit, OrderNext, RoundInvariant, PTL DEF Spec
<1> QED BY <1>1, <1>2, <1>3, RoundInvariant, PTL

-----------------------------------------------------------------------------
(* The merge *)

HexesOf(A) == {a.hex : a \in A}

\* What merge_aircraft collects of the aircraft A.
Collected(A) ==
  [groups : UNION {[G -> Seq(A)] : G \in SUBSET HexesOf(A)},
   order : Seq(HexesOf(A)), hexless : Seq(A)]

\* Nothing that was seen is lost, and every group is of one hex, listed once.
HoldsAll(m, seen) ==
  /\ \A i, j \in DOMAIN m.order : m.order[i] = m.order[j] => i = j
  /\ ToSet(m.order) = DOMAIN m.groups /\ Missing \notin DOMAIN m.groups
  /\ \A h \in DOMAIN m.groups : /\ m.groups[h] # << >>
                                /\ \A i \in DOMAIN m.groups[h] : m.groups[h][i].hex = h
  /\ \A i \in DOMAIN m.hexless : m.hexless[i].hex = Missing
  /\ \A a \in seen : /\ a.hex = Missing => a \in ToSet(m.hexless)
                     /\ a.hex # Missing => a.hex \in DOMAIN m.groups /\ a \in ToSet(m.groups[a.hex])

LEMMA AppendIs ==
  ASSUME NEW S, NEW s \in Seq(S), NEW e \in S
  PROVE  /\ Append(s, e) \in Seq(S) /\ Append(s, e) # << >>
         /\ DOMAIN s = 1..Len(s) /\ DOMAIN Append(s, e) = 1..(Len(s) + 1) /\ Len(s) \in Nat
         /\ Append(s, e)[Len(s) + 1] = e /\ \A i \in DOMAIN s : Append(s, e)[i] = s[i]
         /\ ToSet(Append(s, e)) = ToSet(s) \cup {e}
<1>1. PICK n \in Nat : n = Len(s) /\ DOMAIN s = 1..n
  OBVIOUS
<1>2. PICK r : r = Append(s, e)
  OBVIOUS
<1>3. /\ r \in Seq(S) /\ r # << >> /\ DOMAIN r = 1..(n + 1)
      /\ r[n + 1] = e /\ \A i \in 1..n : r[i] = s[i]
  BY <1>1, <1>2
<1>4. /\ n + 1 \in 1..(n + 1) /\ \A i \in 1..n : i \in 1..(n + 1)
      /\ \A i \in 1..(n + 1) : i \in 1..n \/ i = n + 1
  OBVIOUS
<1>5. ToSet(r) = ToSet(s) \cup {e}
  BY <1>1, <1>3, <1>4 DEF ToSet
<1> QED  BY <1>1, <1>2, <1>3, <1>5

LEMMA GroupedIs ==
  ASSUME NEW A, NEW m \in Collected(A), NEW a \in A
  PROVE  Grouped(m, a) \in Collected(A)
<1> DEFINE group(h) == IF h \in DOMAIN m.groups THEN m.groups[h] ELSE << >>
           D == DOMAIN m.groups \cup {a.hex}
<1>1. PICK G \in SUBSET HexesOf(A) : m.groups \in [G -> Seq(A)]
  BY DEF Collected
<1>2. m.order \in Seq(HexesOf(A)) /\ m.hexless \in Seq(A) /\ a.hex \in HexesOf(A)
  BY DEF Collected, HexesOf
<1>3. D \in SUBSET HexesOf(A) /\ \A h \in D : group(h) \in Seq(A) /\ Append(group(h), a) \in Seq(A)
  BY <1>1, <1>2
<1>4. [h \in D |-> IF h = a.hex THEN Append(group(h), a) ELSE group(h)] \in [D -> Seq(A)]
  <2> HIDE DEF D, group
  <2> QED  BY <1>3
<1>5. Append(m.order, a.hex) \in Seq(HexesOf(A)) /\ Append(m.hexless, a) \in Seq(A)
  BY <1>2
<1>6. m.groups \in UNION {[S -> Seq(A)] : S \in SUBSET HexesOf(A)}
  BY DEF Collected
<1>7. [h \in D |-> IF h = a.hex THEN Append(group(h), a) ELSE group(h)]
        \in UNION {[S -> Seq(A)] : S \in SUBSET HexesOf(A)}
  <2> PICK f : f = [h \in D |-> IF h = a.hex THEN Append(group(h), a) ELSE group(h)]
    OBVIOUS
  <2> HIDE DEF D
  <2>1. f \in [D -> Seq(A)]
    BY <1>4
  <2> QED  BY <1>3, <2>1
<1> QED  BY <1>2, <1>5, <1>6, <1>7 DEF Collected, Grouped

LEMMA GroupedHolds ==
  ASSUME NEW A, NEW m \in Collected(A), NEW a \in A, NEW seen \in SUBSET A, HoldsAll(m, seen)
  PROVE  HoldsAll(Grouped(m, a), seen \cup {a})
<1> DEFINE group(h) == IF h \in DOMAIN m.groups THEN m.groups[h] ELSE << >>
<1>1. PICK G \in SUBSET HexesOf(A) : m.groups \in [G -> Seq(A)]
  BY DEF Collected
<1>2. m.order \in Seq(HexesOf(A)) /\ m.hexless \in Seq(A) /\ a.hex \in HexesOf(A)
  BY DEF Collected, HexesOf
<1> PICK r : r = Grouped(m, a)
  OBVIOUS
<1>3. CASE a.hex = Missing
  <2>1. r.groups = m.groups /\ r.order = m.order /\ r.hexless = Append(m.hexless, a)
    BY <1>3 DEF Grouped
  <2>2. \A i \in DOMAIN r.hexless : r.hexless[i].hex = Missing
    BY <1>2, <1>3, <2>1, AppendIs DEF HoldsAll
  <2>3. ToSet(r.hexless) = ToSet(m.hexless) \cup {a}
    BY <1>2, <2>1, AppendIs
  <2> QED  BY <1>3, <2>1, <2>2, <2>3 DEF HoldsAll
<1>4. CASE a.hex # Missing
  <2>1. /\ r.hexless = m.hexless
        /\ r.groups = [h \in DOMAIN m.groups \cup {a.hex} |->
                         IF h = a.hex THEN Append(group(h), a) ELSE group(h)]
        /\ r.order = IF a.hex \in DOMAIN m.groups THEN m.order ELSE Append(m.order, a.hex)
    BY <1>4 DEF Grouped
  <2>2. /\ DOMAIN r.groups = DOMAIN m.groups \cup {a.hex}
        /\ r.groups[a.hex] = Append(group(a.hex), a)
        /\ \A h \in DOMAIN m.groups : h # a.hex => r.groups[h] = m.groups[h]
    <3> HIDE DEF group
    <3>1. /\ DOMAIN r.groups = DOMAIN m.groups \cup {a.hex}
          /\ r.groups[a.hex] = Append(group(a.hex), a)
          /\ \A h \in DOMAIN m.groups : h # a.hex => r.groups[h] = group(h)
      BY <2>1
    <3> QED  BY <3>1 DEF group
  <2> PICK s : s = group(a.hex)
    OBVIOUS
  <2>3. s \in Seq(A) /\ \A i \in DOMAIN s : s[i].hex = a.hex
    BY <1>1 DEF HoldsAll
  <2>4. /\ r.groups[a.hex] # << >> /\ \A i \in DOMAIN r.groups[a.hex] : r.groups[a.hex][i].hex = a.hex
        /\ ToSet(r.groups[a.hex]) = ToSet(s) \cup {a}
    <3>0. PICK g : g = Append(s, a)
      OBVIOUS
    <3>1. /\ g # << >> /\ ToSet(g) = ToSet(s) \cup {a} /\ Len(s) \in Nat
          /\ DOMAIN s = 1..Len(s) /\ DOMAIN g = 1..(Len(s) + 1)
          /\ g[Len(s) + 1] = a /\ \A i \in DOMAIN s : g[i] = s[i]
      <4>1. s \in Seq(A) /\ a \in A
        BY <2>3
      <4> QED  BY ONLY <3>0, <4>1, AppendIs
    <3>2. \A i \in DOMAIN g : g[i].hex = a.hex
      BY <2>3, <3>1
    <3> QED  BY <2>2, <3>0, <3>1, <3>2
  <2>5. /\ \A i, j \in DOMAIN r.order : r.order[i] = r.order[j] => i = j
        /\ ToSet(r.order) = DOMAIN r.groups
    <3>1. CASE a.hex \in DOMAIN m.groups
      BY <2>1, <2>2, <3>1 DEF HoldsAll
    <3>2. CASE a.hex \notin DOMAIN m.groups
      <4>1. r.order = Append(m.order, a.hex)
        BY <2>1, <3>2
      <4>2. \A i \in DOMAIN m.order : m.order[i] # a.hex
        BY <3>2 DEF HoldsAll, ToSet
      <4>3. ToSet(r.order) = DOMAIN r.groups
        BY <1>2, <2>2, <4>1, AppendIs DEF HoldsAll
      <4> QED  BY <1>2, <4>1, <4>2, <4>3, AppendIs DEF HoldsAll
    <3> QED  BY <3>1, <3>2
  <2>6. ASSUME NEW h \in DOMAIN r.groups
        PROVE  r.groups[h] # << >> /\ \A i \in DOMAIN r.groups[h] : r.groups[h][i].hex = h
    BY <2>2, <2>4 DEF HoldsAll
  <2>7. ASSUME NEW b \in seen \cup {a}
        PROVE  /\ b.hex = Missing => b \in ToSet(r.hexless)
               /\ b.hex # Missing => b.hex \in DOMAIN r.groups /\ b \in ToSet(r.groups[b.hex])
    <3>1. CASE b = a
      BY <1>4, <2>2, <2>4, <3>1
    <3>2. CASE b \in seen /\ b.hex = a.hex
      BY <1>4, <2>2, <2>4, <3>2 DEF HoldsAll
    <3>3. CASE b \in seen /\ b.hex # a.hex
      BY <2>1, <2>2, <3>3 DEF HoldsAll
    <3> QED  BY <3>1, <3>2, <3>3
  <2>8. Missing \notin DOMAIN r.groups
    BY <1>4, <2>2 DEF HoldsAll
  <2>9. \A i \in DOMAIN r.hexless : r.hexless[i].hex = Missing
    BY <2>1 DEF HoldsAll
  <2>10. HoldsAll(r, seen \cup {a})
    BY ONLY <2>5, <2>6, <2>7, <2>8, <2>9 DEF HoldsAll
  <2> QED  BY <2>10
<1> QED  BY <1>3, <1>4

LEMMA GroupedListHolds ==
  ASSUME NEW A, NEW m \in Collected(A), NEW list \in Seq(A), NEW seen \in SUBSET A,
         HoldsAll(m, seen)
  PROVE  /\ GroupedList(m, list) \in Collected(A)
         /\ HoldsAll(GroupedList(m, list), seen \cup ToSet(list))
<1> DEFINE V == Collected(A)
           P(f) == f = [s \in SUBSET DOMAIN list |->
                          IF s = {} THEN m ELSE Grouped(f[s \ {Max(s)}], list[Max(s)])]
           g == CHOOSE f : P(f)
           Good(r, n) == r \in V /\ HoldsAll(r, seen \cup {list[i] : i \in 1..n})
           R == {n \in Nat : n <= Len(list) => Good(g[1..n], n)}
<1>1. PICK k \in Nat : k = Len(list) /\ DOMAIN list = 1..k
  OBVIOUS
<1>2. \A r \in V, i \in 1..k : Grouped(r, list[i]) \in V
  BY <1>1, GroupedIs
<1>3. P(g)
  <2> DEFINE F == [p \in V \X (1..k) |-> Grouped(p[1], list[p[2]])]
  <2> HIDE DEF V
  <2>1. F \in [V \X (1..k) -> V]
    BY <1>2
  <2>2. m \in V
    BY DEF V
  <2>3. PICK f \in [SUBSET (1..k) -> V] : FoldsBy(f, F, m, k)
    <3> HIDE DEF F
    <3> QED  BY <2>1, <2>2, FoldExists
  <2>4. ASSUME NEW s \in SUBSET (1..k), s # {}
        PROVE  F[<<f[s \ {Max(s)}], Max(s)>>] = Grouped(f[s \ {Max(s)}], list[Max(s)])
    <3>1. Max(s) \in 1..k
      BY <2>4, <1>1, MaxOfPlaces
    <3>2. f[s \ {Max(s)}] \in V
      OBVIOUS
    <3> QED  BY <3>1, <3>2
  <2>5. P(f)
    <3> HIDE DEF F
    <3> QED  BY <1>1, <2>3, <2>4 DEF FoldsBy
  <2> HIDE DEF P
  <2> QED  BY <2>5
<1>4. GroupedList(m, list) = g[1..k]
  BY <1>1, Zenon DEF GroupedList, FoldLeft, MapThenFoldSet
<1> HIDE DEF g
<1>5. g[{}] = m
  BY <1>3
<1>6. ASSUME NEW n \in Nat, n + 1 <= k
      PROVE  g[1..(n + 1)] = Grouped(g[1..n], list[n + 1])
  <2>1. PICK s : s = 1..(n + 1)
    OBVIOUS
  <2>2. s \in SUBSET DOMAIN list /\ s # {} /\ Max(s) = n + 1 /\ s \ {n + 1} = 1..n
    BY <1>1, <1>6, <2>1, UpToNext
  <2> QED  BY <1>3, <2>1, <2>2
<1>7. Good(g[1..0], 0)
  <2>1. 1..0 = {} /\ {list[i] : i \in 1..0} = {} /\ seen \cup {} = seen
    OBVIOUS
  <2> QED  BY <1>5, <2>1
<1>8. ASSUME NEW n \in Nat, n + 1 <= k, Good(g[1..n], n)
      PROVE  Good(g[1..(n + 1)], n + 1)
  <2>1. PICK r, e, t : r = g[1..n] /\ e = list[n + 1] /\ t = seen \cup {list[i] : i \in 1..n}
    OBVIOUS
  <2>2. n + 1 \in 1..k /\ e \in A /\ t \in SUBSET A
    BY <1>1, <1>8, <2>1
  <2>3. seen \cup {list[i] : i \in 1..(n + 1)} = t \cup {e}
    <3>1. /\ \A i \in 1..(n + 1) : i \in 1..n \/ i = n + 1
          /\ n + 1 \in 1..(n + 1) /\ \A i \in 1..n : i \in 1..(n + 1)
      OBVIOUS
    <3> QED  BY <2>1, <3>1
  <2>4. g[1..(n + 1)] = Grouped(r, e)
    BY <1>6, <1>8, <2>1
  <2>5. r \in Collected(A) /\ HoldsAll(r, t)
    BY <1>8, <2>1
  <2>6. Grouped(r, e) \in Collected(A) /\ HoldsAll(Grouped(r, e), t \cup {e})
    BY ONLY <2>2, <2>5, GroupedIs, GroupedHolds
  <2> QED  BY <2>3, <2>4, <2>6
<1>9. Good(g[1..k], k)
  <2> HIDE DEF Good
  <2>1. 0 \in R
    BY <1>7
  <2>2. ASSUME NEW n \in Nat, n \in R
        PROVE  n + 1 \in R
    BY <1>1, <1>8, <2>2
  <2>3. k \in R
    <3> HIDE DEF R
    <3> QED  BY <2>1, <2>2, UpToAll
  <2> QED  BY <1>1, <2>3
<1>10. ToSet(list) = {list[i] : i \in 1..k}
  BY <1>1 DEF ToSet
<1> QED  BY <1>4, <1>9, <1>10

LEMMA ListsHold ==
  ASSUME NEW A, NEW lists \in Seq(Seq(A))
  PROVE  /\ FoldLeft(GroupedList, NothingMerged, lists) \in Collected(A)
         /\ HoldsAll(FoldLeft(GroupedList, NothingMerged, lists),
                     UNION {ToSet(lists[i]) : i \in DOMAIN lists})
<1> DEFINE V == {m \in Collected(A) : HoldsAll(m, {})}
           Seen(n) == UNION {ToSet(lists[i]) : i \in 1..n}
           P(f) == f = [s \in SUBSET DOMAIN lists |->
                          IF s = {} THEN NothingMerged
                          ELSE GroupedList(f[s \ {Max(s)}], lists[Max(s)])]
           g == CHOOSE f : P(f)
           Good(r, n) == r \in V /\ HoldsAll(r, Seen(n))
           R == {n \in Nat : n <= Len(lists) => Good(g[1..n], n)}
<1>1. PICK k \in Nat : k = Len(lists) /\ DOMAIN lists = 1..k
  OBVIOUS
<1>2. ASSUME NEW r \in V, NEW i \in 1..k
      PROVE  GroupedList(r, lists[i]) \in V
  <2>1. /\ r \in Collected(A) /\ HoldsAll(r, {}) /\ lists[i] \in Seq(A) /\ {} \in SUBSET A
    BY <1>1
  <2>2. PICK q : q = GroupedList(r, lists[i])
    OBVIOUS
  <2>3. q \in Collected(A) /\ HoldsAll(q, {} \cup ToSet(lists[i]))
    BY ONLY <2>1, <2>2, GroupedListHolds
  <2>4. HoldsAll(q, {})
    BY <2>3 DEF HoldsAll
  <2> QED  BY <2>2, <2>3, <2>4
<1>3. NothingMerged \in V
  <2>1. /\ NothingMerged.order = << >> /\ NothingMerged.hexless = << >>
        /\ NothingMerged.groups = [h \in {} |-> << >>]
    BY DEF NothingMerged
  <2>2. [h \in {} |-> << >>] \in [{} -> Seq(A)] /\ {} \in SUBSET HexesOf(A)
    OBVIOUS
  <2>3. [h \in {} |-> << >>] \in UNION {[G -> Seq(A)] : G \in SUBSET HexesOf(A)}
    BY <2>2
  <2>4. NothingMerged \in Collected(A)
    <3>1. << >> \in Seq(HexesOf(A)) /\ << >> \in Seq(A)
      OBVIOUS
    <3> PICK f : f = [h \in {} |-> << >>]
      OBVIOUS
    <3>2. /\ f \in UNION {[G -> Seq(A)] : G \in SUBSET HexesOf(A)}
          /\ NothingMerged = [groups |-> f, order |-> << >>, hexless |-> << >>]
      BY <2>3 DEF NothingMerged
    <3> QED  BY ONLY <3>1, <3>2 DEF Collected
  <2>5. HoldsAll(NothingMerged, {})
    BY <2>1 DEF HoldsAll, ToSet
  <2> QED  BY <2>4, <2>5
<1> HIDE DEF V
<1>4. P(g)
  <2> DEFINE F == [p \in V \X (1..k) |-> GroupedList(p[1], lists[p[2]])]
  <2>1. F \in [V \X (1..k) -> V]
    BY <1>2
  <2>2. PICK f \in [SUBSET (1..k) -> V] : FoldsBy(f, F, NothingMerged, k)
    <3> HIDE DEF F
    <3> QED  BY <1>3, <2>1, FoldExists
  <2>3. ASSUME NEW s \in SUBSET (1..k), s # {}
        PROVE  F[<<f[s \ {Max(s)}], Max(s)>>] = GroupedList(f[s \ {Max(s)}], lists[Max(s)])
    <3>1. Max(s) \in 1..k
      BY <2>3, <1>1, MaxOfPlaces
    <3>2. f[s \ {Max(s)}] \in V
      OBVIOUS
    <3> QED  BY <3>1, <3>2
  <2>4. P(f)
    <3> HIDE DEF F
    <3> QED  BY <1>1, <2>2, <2>3 DEF FoldsBy
  <2> HIDE DEF P
  <2> QED  BY <2>4
<1>5. FoldLeft(GroupedList, NothingMerged, lists) = g[1..k]
  BY <1>1, Zenon DEF FoldLeft, MapThenFoldSet
<1> HIDE DEF g
<1>6. g[{}] = NothingMerged
  BY <1>4
<1>7. ASSUME NEW n \in Nat, n + 1 <= k
      PROVE  g[1..(n + 1)] = GroupedList(g[1..n], lists[n + 1])
  <2>1. PICK s : s = 1..(n + 1)
    OBVIOUS
  <2>2. s \in SUBSET DOMAIN lists /\ s # {} /\ Max(s) = n + 1 /\ s \ {n + 1} = 1..n
    BY <1>1, <1>7, <2>1, UpToNext
  <2> QED  BY <1>4, <2>1, <2>2
<1>8. Good(g[1..0], 0)
  <2>1. 1..0 = {} /\ Seen(0) = {}
    OBVIOUS
  <2> QED  BY <1>3, <1>6, <2>1 DEF V
<1>9. ASSUME NEW n \in Nat, n + 1 <= k, Good(g[1..n], n)
      PROVE  Good(g[1..(n + 1)], n + 1)
  <2>1. PICK r, l, t, u : r = g[1..n] /\ l = lists[n + 1] /\ t = Seen(n) /\ u = Seen(n + 1)
    OBVIOUS
  <2>2. /\ n + 1 \in 1..k /\ \A i \in 1..n : i \in 1..k
        /\ \A i \in 1..(n + 1) : i \in 1..n \/ i = n + 1
        /\ n + 1 \in 1..(n + 1) /\ \A i \in 1..n : i \in 1..(n + 1)
    BY <1>9
  <2>3. l \in Seq(A) /\ t \in SUBSET A
    <3>1. \A i \in 1..k : lists[i] \in Seq(A) /\ ToSet(lists[i]) \subseteq A
      BY <1>1 DEF ToSet
    <3> QED  BY <2>1, <2>2, <3>1
  <2>4. u = t \cup ToSet(l)
    BY <2>1, <2>2
  <2>5. g[1..(n + 1)] = GroupedList(r, l)
    BY <1>7, <1>9, <2>1
  <2>6. r \in Collected(A) /\ HoldsAll(r, t)
    BY <1>9, <2>1 DEF V
  <2>7. GroupedList(r, l) \in Collected(A) /\ HoldsAll(GroupedList(r, l), t \cup ToSet(l))
    BY ONLY <2>3, <2>6, GroupedListHolds
  <2>8. HoldsAll(GroupedList(r, l), {})
    BY <2>7 DEF HoldsAll
  <2> QED  BY <2>1, <2>4, <2>5, <2>7, <2>8 DEF V
<1>10. Good(g[1..k], k)
  <2> HIDE DEF Good
  <2>1. 0 \in R
    BY <1>8
  <2>2. ASSUME NEW n \in Nat, n \in R
        PROVE  n + 1 \in R
    <3>1. ASSUME n + 1 <= k
          PROVE  Good(g[1..(n + 1)], n + 1)
      <4>1. n <= Len(lists)
        BY <1>1, <3>1
      <4>2. Good(g[1..n], n)
        BY <2>2, <4>1
      <4> QED  BY <1>9, <3>1, <4>2
    <3> QED  BY <1>1, <3>1
  <2>3. k \in R
    <3> HIDE DEF R
    <3> QED  BY <2>1, <2>2, UpToAll
  <2> QED  BY <1>1, <2>3
<1> QED  BY <1>1, <1>5, <1>10 DEF V

\* Of the copies of one aircraft the first of the best is taken.
LEMMA WinnerIs ==
  ASSUME NEW A, \A a \in A : a.age \in Int /\ a.rssi \in Int,
         NEW group \in Seq(A), group # << >>
  PROVE  /\ pick_winner(group) \in ToSet(group)
         /\ \A b \in ToSet(group) : ~Better(b, pick_winner(group))
<1> DEFINE Best(i, n) == /\ i \in 1..n /\ \A j \in 1..n : ~Better(group[j], group[i])
                         /\ \A j \in 1..(i - 1) : Better(group[i], group[j])
           R == {n \in Nat : n + 1 <= Len(group) => \E i \in 1..(n + 1) : Best(i, n + 1)}
<1>1. PICK k \in Nat \ {0} : k = Len(group) /\ DOMAIN group = 1..k
  OBVIOUS
<1>2. \A i \in 1..k : group[i] \in A /\ group[i].age \in Int /\ group[i].rssi \in Int
  BY <1>1
<1>3. 0 \in R
  <2>1. Best(1, 1)
    BY <1>1, <1>2 DEF Better
  <2>2. 0 + 1 = 1 /\ 1 \in 1..1
    OBVIOUS
  <2> HIDE DEF Best
  <2> QED  BY <2>1, <2>2
<1>4. ASSUME NEW n \in Nat, n + 2 <= k, NEW i \in 1..(n + 1), Best(i, n + 1)
      PROVE  \E j \in 1..(n + 2) : Best(j, n + 2)
  <2>1. \A j \in 1..(n + 2) : j \in 1..k /\ (j \in 1..(n + 1) \/ j = n + 2)
    BY <1>4
  <2>2. n + 2 \in 1..(n + 2) /\ i \in 1..(n + 2) /\ (n + 2) - 1 = n + 1
    OBVIOUS
  <2>3. CASE Better(group[n + 2], group[i])
    <3>1. ASSUME NEW j \in 1..(n + 1)
          PROVE  Better(group[n + 2], group[j]) /\ ~Better(group[j], group[n + 2])
      <4>1. ~Better(group[j], group[i])
        BY <1>4
      <4>2. j \in 1..k /\ i \in 1..k /\ n + 2 \in 1..k
        BY <2>1, <2>2
      <4> QED  BY <1>2, <2>3, <4>1, <4>2 DEF Better
    <3>2. ~Better(group[n + 2], group[n + 2])
      BY <1>2, <2>1, <2>2 DEF Better
    <3>3. Best(n + 2, n + 2)
      BY <2>1, <2>2, <3>1, <3>2
    <3> QED  BY <2>2, <3>3
  <2>4. CASE ~Better(group[n + 2], group[i])
    <3>1. Best(i, n + 2)
      BY <1>4, <2>1, <2>2, <2>4
    <3> QED  BY <2>2, <3>1
  <2> QED  BY <2>3, <2>4
<1>5. ASSUME NEW n \in Nat, n \in R
      PROVE  n + 1 \in R
  <2> SUFFICES ASSUME n + 2 <= k
               PROVE  \E j \in 1..(n + 2) : Best(j, n + 2)
    <3>1. (n + 1) + 1 = n + 2
      OBVIOUS
    <3> HIDE DEF Best
    <3> QED  BY <1>1, <3>1
  <2> HIDE DEF Best
  <2>1. PICK i \in 1..(n + 1) : Best(i, n + 1)
    BY <1>1, <1>5
  <2> QED  BY <1>4, <2>1
<1>6. \E i \in 1..k : Best(i, k)
  <2> HIDE DEF Best
  <2>1. k - 1 \in R
    <3> HIDE DEF R
    <3> QED  BY <1>3, <1>5, UpToAll
  <2>2. (k - 1) + 1 = k
    OBVIOUS
  <2> QED  BY <1>1, <2>1, <2>2
<1>7. \E i \in DOMAIN group : /\ \A j \in DOMAIN group : ~Better(group[j], group[i])
                              /\ \A j \in 1..(i - 1) : Better(group[i], group[j])
  BY <1>1, <1>6
<1>8. PICK i \in DOMAIN group : /\ pick_winner(group) = group[i]
                                /\ \A j \in DOMAIN group : ~Better(group[j], group[i])
  BY <1>7, Zenon DEF pick_winner
<1> QED  BY <1>8 DEF ToSet

LEMMA MergeIsBest ==
  ASSUME answer.lists \in Seq(Seq(UNION {ToSet(answer.lists[i]) : i \in DOMAIN answer.lists})),
         \A a \in UNION {ToSet(answer.lists[i]) : i \in DOMAIN answer.lists} :
           a.age \in Int /\ a.rssi \in Int,
         answer.merged = merge_aircraft(answer.lists)
  PROVE  MergedIsBestSuperset
<1>1. PICK lists, all : lists = answer.lists /\ all = UNION {ToSet(lists[i]) : i \in DOMAIN lists}
  OBVIOUS
<1>2. lists \in Seq(Seq(all)) /\ \A a \in all : a.age \in Int /\ a.rssi \in Int
  BY <1>1
<1>3. PICK m : m = FoldLeft(GroupedList, NothingMerged, lists)
  OBVIOUS
<1>4. m \in Collected(all) /\ HoldsAll(m, all)
  <2>1. m \in Collected(all) /\ HoldsAll(m, UNION {ToSet(lists[i]) : i \in DOMAIN lists})
    BY ONLY <1>2, <1>3, ListsHold
  <2> QED  BY <1>1, <2>1
<1>5. /\ m.order \in Seq(HexesOf(all)) /\ m.hexless \in Seq(all)
      /\ \E G \in SUBSET HexesOf(all) : m.groups \in [G -> Seq(all)]
  BY <1>4 DEF Collected
<1>6. PICK p \in Nat, q \in Nat : /\ p = Len(m.order) /\ DOMAIN m.order = 1..p
                                  /\ q = Len(m.hexless) /\ DOMAIN m.hexless = 1..q
  BY <1>5
<1> DEFINE W == [k \in DOMAIN m.order |-> pick_winner(m.groups[m.order[k]])]
<1>7. ASSUME NEW k \in 1..p
      PROVE  /\ m.order[k] \in DOMAIN m.groups /\ m.order[k] # Missing
             /\ W[k] \in all /\ W[k].hex = m.order[k]
             /\ \A a \in all : a.hex = m.order[k] => ~Better(a, W[k])
  <2>1. PICK h : h = m.order[k]
    OBVIOUS
  <2>2. h \in DOMAIN m.groups /\ h # Missing
    BY <1>4, <1>6, <2>1 DEF HoldsAll, ToSet
  <2>3. PICK group \in Seq(all) : group = m.groups[h]
    BY <1>5, <2>2
  <2>4. group # << >> /\ \A i \in DOMAIN group : group[i].hex = h
    BY <1>4, <2>2, <2>3 DEF HoldsAll
  <2>5. PICK w : w = pick_winner(group)
    OBVIOUS
  <2>6. w \in ToSet(group) /\ \A b \in ToSet(group) : ~Better(b, w)
    BY <1>2, <2>4, <2>5, WinnerIs
  <2>7. w \in all /\ w.hex = h
    BY <2>4, <2>6 DEF ToSet
  <2>8. \A a \in all : a.hex = h => a \in ToSet(group)
    BY <1>4, <2>2, <2>3 DEF HoldsAll
  <2>9. W[k] = w
    BY <1>6, <2>1, <2>3, <2>5
  <2> HIDE DEF W
  <2> QED  BY <2>1, <2>2, <2>6, <2>7, <2>8, <2>9
<1>8. W \in Seq(all) /\ Len(W) = p
  <2>1. \A k \in 1..p : W[k] \in all
    BY <1>7
  <2>2. W = [k \in 1..p |-> W[k]]
    BY <1>6
  <2> HIDE DEF W
  <2>3. W \in [1..p -> all]
    BY <2>1, <2>2
  <2> QED  BY <2>3
<1>9. answer.merged = W \o m.hexless
  BY <1>1, <1>3 DEF merge_aircraft
<1> HIDE DEF W
<1>10. PICK r : r = answer.merged
  OBVIOUS
<1>11. /\ DOMAIN r = 1..(p + q) /\ \A k \in 1..p : r[k] = W[k]
       /\ \A k \in 1..q : r[p + k] = m.hexless[k]
  <2>1. PICK h \in Seq(all) : h = m.hexless /\ Len(h) = q
    BY <1>5, <1>6
  <2>2. r = W \o h
    BY <1>9, <1>10, <2>1
  <2>3. /\ DOMAIN r = 1..(p + q) /\ \A k \in 1..p : r[k] = W[k]
        /\ \A k \in 1..(p + q) : k > p => r[k] = h[k - p]
    BY ONLY <1>8, <2>1, <2>2, p \in Nat, q \in Nat
  <2>4. \A k \in 1..q : p + k \in 1..(p + q) /\ p + k > p /\ (p + k) - p = k
    OBVIOUS
  <2> QED  BY <2>1, <2>3, <2>4
<1>12. ASSUME NEW i \in DOMAIN r
       PROVE  i \in 1..p \/ \E k \in 1..q : i = p + k
  <2>1. i \in 1..p \/ (i - p \in 1..q /\ i = p + (i - p))
    BY <1>11
  <2> QED  BY <2>1
<1>13. \A k \in 1..p : k \in DOMAIN r
  BY <1>11
<1>14. \A k \in 1..q : p + k \in DOMAIN r
  BY <1>11
<1>15. \A i \in DOMAIN r : i \in 1..p <=> r[i].hex # Missing
  <2>1. \A k \in 1..q : r[p + k].hex = Missing /\ p + k \notin 1..p
    <3>1. \A k \in 1..q : p + k \notin 1..p
      OBVIOUS
    <3>2. \A k \in 1..q : m.hexless[k].hex = Missing
      BY <1>4, <1>6 DEF HoldsAll
    <3> QED  BY <1>11, <3>1, <3>2
  <2>2. \A k \in 1..p : r[k].hex # Missing
    BY <1>7, <1>11
  <2> QED  BY <1>12, <2>1, <2>2
<1>16. \A i \in DOMAIN r : r[i] \in all
  <2>1. \A k \in 1..q : m.hexless[k] \in all
    BY <1>5, <1>6
  <2> QED  BY <1>7, <1>11, <1>12, <2>1
<1>17. ASSUME NEW a \in all
       PROVE  \E i \in DOMAIN r : r[i].hex = a.hex
  <2>1. CASE a.hex = Missing
    <3>1. PICK k \in 1..q : m.hexless[k] = a
      BY <1>4, <1>6, <2>1 DEF HoldsAll, ToSet
    <3> QED  BY <1>11, <1>14, <3>1
  <2>2. CASE a.hex # Missing
    <3>1. PICK k \in 1..p : m.order[k] = a.hex
      BY <1>4, <1>6, <2>2 DEF HoldsAll, ToSet
    <3> QED  BY <1>7, <1>11, <1>13, <3>1
  <2> QED  BY <2>1, <2>2
<1>18. ASSUME NEW i \in DOMAIN r, NEW j \in DOMAIN r, i # j, r[i].hex = r[j].hex
       PROVE  r[i].hex = Missing
  <2>1. CASE i \in 1..p /\ j \in 1..p
    <3>1. m.order[i] = m.order[j]
      BY <1>7, <1>11, <1>18, <2>1
    <3> QED  BY <1>4, <1>6, <1>18, <2>1, <3>1 DEF HoldsAll
  <2>2. CASE ~(i \in 1..p /\ j \in 1..p)
    BY <1>15, <1>18, <2>2
  <2> QED  BY <2>1, <2>2
<1>19. ASSUME NEW i \in DOMAIN r, r[i].hex # Missing, NEW a \in all, a.hex = r[i].hex
       PROVE  r[i].age < a.age \/ (r[i].age = a.age /\ r[i].rssi >= a.rssi)
  <2>1. i \in 1..p
    BY <1>15, <1>19
  <2>2. ~Better(a, r[i])
    BY <1>7, <1>11, <1>19, <2>1
  <2>3. /\ r[i].age \in Int /\ r[i].rssi \in Int /\ a.age \in Int /\ a.rssi \in Int
    BY <1>2, <1>16
  <2> QED  BY <2>2, <2>3 DEF Better
<1>20. all = UNION {Range(answer.lists[i]) : i \in DOMAIN answer.lists} /\ Range(r) \subseteq all
  BY <1>1, <1>16 DEF ToSet, Range
<1> QED  BY <1>10, <1>17, <1>18, <1>19, <1>20 DEF MergedIsBestSuperset

-----------------------------------------------------------------------------
(* The health of the backends *)

\* A lookup is in flight for a tick at most; a backend it asked that is parked
\* by now was parked meanwhile.
InFlight ==
  \A l \in Lookups : lookup[l] # Missing =>
    /\ since[l] <= instant /\ instant <= since[l] + 1
    /\ \A b \in lookup[l] : parked_until[b] > instant => parked_at[b] >= since[l]

\* No streak counts an error that is not one.
StreakIsErrors == \A b \in Backends : error_streak[b] <= errors[b]

\* What a lookup returned is merged from the lists of the backends it asked.
AnswerIsMerged ==
  LET all == UNION {ToSet(answer.lists[i]) : i \in DOMAIN answer.lists}
  IN \/ answer = NoAnswer
     \/ /\ answer.lists \in Seq(Seq(all)) /\ \A a \in all : a.age \in Int /\ a.rssi \in Int
        /\ answer.merged = merge_aircraft(answer.lists)

AdsbInv == AdsbTypeOK /\ InFlight /\ ParkingEnds /\ StreakIsErrors /\ AnswerIsMerged

LEMMA RecordedIs ==
  ASSUME NEW out, Recorded(out), NEW b \in Backends
  PROVE  /\ b \in DOMAIN out /\ Parks(out[b].kind, error_streak[b]) =>
              /\ parked_until'[b] = instant + Cooldown /\ error_streak'[b] = 0 /\ errors'[b] = 0
              /\ parked_at'[b] = IF parked_until[b] <= instant THEN instant ELSE parked_at[b]
         /\ ~(b \in DOMAIN out /\ Parks(out[b].kind, error_streak[b])) =>
              parked_until'[b] = parked_until[b] /\ parked_at'[b] = parked_at[b]
         /\ b \in DOMAIN out /\ ~Parks(out[b].kind, error_streak[b]) =>
              /\ error_streak'[b] = Streak(out[b].kind, error_streak[b])
              /\ errors'[b] = IF out[b].kind = "ok" THEN 0
                              ELSE IF out[b].kind \in Errors \ {"timeout", "fatal"}
                              THEN errors[b] + 1 ELSE errors[b]
         /\ b \notin DOMAIN out => error_streak'[b] = error_streak[b] /\ errors'[b] = errors[b]
  BY DEF Recorded

LEMMA AdsbConstants ==
  /\ N \in Nat \ {0} /\ Cooldown \in Nat \ {0} /\ MaxInstant \in Nat
  /\ ERROR_STREAK_PARK \in Nat \ {0}
  BY AdsbAssumption

LEMMA AdsbStarts == AdsbInit => AdsbInv
  BY AdsbConstants
  DEF AdsbInit, AdsbInv, AdsbTypeOK, InFlight, ParkingEnds, StreakIsErrors, AnswerIsMerged

LEMMA FetchKeeps ==
  ASSUME AdsbInv, NEW l \in Lookups, Fetch(l)
  PROVE  AdsbInv'
<1>1. AdsbTypeOK'
  BY DEF AdsbInv, AdsbTypeOK, Fetch, health, live_backend_indices
<1>2. InFlight'
  BY DEF AdsbInv, AdsbTypeOK, InFlight, Fetch, health, live_backend_indices
<1>3. (ParkingEnds /\ StreakIsErrors)'
  BY DEF AdsbInv, ParkingEnds, StreakIsErrors, Fetch, health
<1>4. AnswerIsMerged'
  BY DEF Fetch, AnswerIsMerged, NoAnswer
<1> QED  BY <1>1, <1>2, <1>3, <1>4 DEF AdsbInv

LEMMA InstantKeeps ==
  ASSUME AdsbInv, Instant
  PROVE  AdsbInv'
<1>1. AdsbTypeOK'
  BY AdsbConstants DEF AdsbInv, AdsbTypeOK, Instant, health
<1>2. InFlight'
  BY AdsbConstants DEF AdsbInv, AdsbTypeOK, InFlight, Instant, health
<1>3. (ParkingEnds /\ StreakIsErrors)'
  BY AdsbConstants DEF AdsbInv, AdsbTypeOK, ParkingEnds, StreakIsErrors, Instant, health
<1>4. AnswerIsMerged'
  BY DEF AdsbInv, Instant, AnswerIsMerged, NoAnswer
<1> QED  BY <1>1, <1>2, <1>3, <1>4 DEF AdsbInv

LEMMA LabelledIs ==
  ASSUME NEW b, NEW list \in Lists
  PROVE  /\ Labelled(b, list) \in Seq(ToSet(Labelled(b, list)))
         /\ \A a \in ToSet(Labelled(b, list)) : a.age \in Int /\ a.rssi \in Int
<1>1. PICK n \in Nat : DOMAIN list = 1..n
  BY AdsbAssumption
<1>2. PICK r : r = Labelled(b, list)
  OBVIOUS
<1>3. r = [i \in 1..n |-> r[i]] /\ \A i \in 1..n : r[i].age = list[i].age /\ r[i].rssi = list[i].rssi
  BY <1>1, <1>2 DEF Labelled
<1>4. r \in [1..n -> ToSet(r)] /\ DOMAIN r = 1..n
  BY <1>3 DEF ToSet
<1>5. r \in Seq(ToSet(r))
  BY <1>4
<1>6. \A a \in ToSet(r) : a.age \in Int /\ a.rssi \in Int
  <2>1. \A i \in 1..n : list[i].age \in Int /\ list[i].rssi \in Int
    BY <1>1, AdsbAssumption
  <2> QED  BY <1>3, <1>4, <2>1 DEF ToSet
<1> QED  BY <1>2, <1>5, <1>6

LEMMA JoinKeeps ==
  ASSUME AdsbInv, NEW l \in Lookups, Join(l)
  PROVE  AdsbInv'
<1>1. PICK out \in [lookup[l] -> LookupOutcomes] :
        /\ Recorded(out)
        /\ LET lists == [b \in Backends |->
                           IF b \in lookup[l] /\ out[b].kind = "ok"
                           THEN Labelled(b, out[b].list) ELSE << >>]
           IN answer' = [kinds |-> [b \in lookup[l] |-> out[b].kind],
                         lists |-> lists, merged |-> merge_aircraft(lists)]
  BY DEF Join
<1>2. /\ lookup' = [lookup EXCEPT ![l] = Missing] /\ since' = [since EXCEPT ![l] = 0]
      /\ instant' = instant /\ lookup[l] # Missing
  BY DEF Join
<1>3. DOMAIN out = lookup[l] /\ lookup[l] \in SUBSET Backends
  BY <1>2 DEF AdsbInv, AdsbTypeOK
<1>4. \A b \in lookup[l] : out[b] \in LookupOutcomes
  OBVIOUS
<1>5. /\ parked_until' = [b \in Backends |-> parked_until'[b]]
      /\ error_streak' = [b \in Backends |-> error_streak'[b]]
      /\ parked_at' = [b \in Backends |-> parked_at'[b]]
      /\ errors' = [b \in Backends |-> errors'[b]]
  BY <1>1 DEF Recorded
<1>6. ASSUME NEW b \in Backends
      PROVE  /\ parked_until'[b] \in 0 .. MaxInstant + Cooldown
             /\ error_streak'[b] \in 0 .. ERROR_STREAK_PARK - 1
             /\ parked_at'[b] \in 0 .. MaxInstant /\ errors'[b] \in Nat
             /\ error_streak'[b] <= errors'[b]
  <2>1. /\ parked_until[b] \in 0 .. MaxInstant + Cooldown
        /\ error_streak[b] \in 0 .. ERROR_STREAK_PARK - 1
        /\ parked_at[b] \in 0 .. MaxInstant /\ errors[b] \in Nat /\ instant \in 0 .. MaxInstant
        /\ error_streak[b] <= errors[b]
    BY DEF AdsbInv, AdsbTypeOK, StreakIsErrors
  <2>2. CASE b \notin lookup[l]
    BY <1>1, <1>3, <2>1, <2>2, RecordedIs
  <2>3. CASE b \in lookup[l] /\ Parks(out[b].kind, error_streak[b])
    BY <1>1, <1>3, <2>1, <2>3, RecordedIs, AdsbConstants
  <2>4. CASE b \in lookup[l] /\ ~Parks(out[b].kind, error_streak[b])
    <3>1. PICK k, s : k = out[b].kind /\ s = error_streak[b]
      OBVIOUS
    <3>2. /\ parked_until'[b] = parked_until[b] /\ parked_at'[b] = parked_at[b]
          /\ error_streak'[b] = Streak(k, s)
          /\ errors'[b] = IF k = "ok" THEN 0
                          ELSE IF k \in Errors \ {"timeout", "fatal"} THEN errors[b] + 1
                          ELSE errors[b]
      BY <1>1, <1>3, <2>4, <3>1, RecordedIs
    <3>3. ~Parks(k, s) /\ s \in 0 .. ERROR_STREAK_PARK - 1 /\ s <= errors[b]
      BY <2>1, <2>4, <3>1
    <3>4. CASE Counts(k)
      <4>1. k # "ok" /\ k \in Errors \ {"timeout", "fatal"}
        BY <3>4 DEF Counts, Errors
      <4>2. Streak(k, s) = s + 1
        BY <3>4, <4>1 DEF Streak
      <4>3. ~(s + 1 >= ERROR_STREAK_PARK)
        BY <3>3, <3>4, <4>2 DEF Parks
      <4>4. error_streak'[b] = s + 1 /\ errors'[b] = errors[b] + 1
        BY <3>2, <4>1, <4>2
      <4> QED  BY <2>1, <3>2, <3>3, <4>3, <4>4, AdsbConstants
    <3>5. CASE ~Counts(k)
      BY <2>1, <3>2, <3>3, <3>5, AdsbConstants DEF Streak
    <3> QED  BY <3>4, <3>5
  <2> QED  BY <2>2, <2>3, <2>4
<1>7. AdsbTypeOK'
  <2>1. /\ parked_until' \in [Backends -> 0 .. MaxInstant + Cooldown]
        /\ error_streak' \in [Backends -> 0 .. ERROR_STREAK_PARK - 1]
        /\ parked_at' \in [Backends -> 0 .. MaxInstant] /\ errors' \in [Backends -> Nat]
    BY <1>5, <1>6
  <2>2. /\ lookup' \in [Lookups -> (SUBSET Backends) \cup {Missing}]
        /\ since' \in [Lookups -> 0 .. MaxInstant] /\ instant' \in 0 .. MaxInstant
    BY <1>2, AdsbConstants DEF AdsbInv, AdsbTypeOK
  <2> QED  BY <2>1, <2>2 DEF AdsbTypeOK
<1>8. ASSUME NEW b \in Backends, parked_until'[b] > instant
      PROVE  /\ parked_until'[b] <= parked_at'[b] + Cooldown + 1
             /\ \A o \in Lookups : o # l /\ lookup[o] # Missing /\ b \in lookup[o] =>
                  parked_at'[b] >= since[o]
  <2>1. /\ parked_until[b] \in Int /\ parked_at[b] \in Int /\ instant \in Int /\ Cooldown \in Nat
        /\ \A o \in Lookups : since[o] \in Int
    BY AdsbConstants DEF AdsbInv, AdsbTypeOK
  <2>2. \A o \in Lookups : lookup[o] # Missing =>
          /\ since[o] <= instant /\ instant <= since[o] + 1
          /\ b \in lookup[o] /\ parked_until[b] > instant => parked_at[b] >= since[o]
    BY DEF AdsbInv, InFlight
  <2>3. parked_until[b] > instant => parked_until[b] <= parked_at[b] + Cooldown + 1
    BY DEF AdsbInv, ParkingEnds
  <2>4. CASE b \in lookup[l] /\ Parks(out[b].kind, error_streak[b])
    <3>1. /\ parked_until'[b] = instant + Cooldown
          /\ parked_at'[b] = IF parked_until[b] <= instant THEN instant ELSE parked_at[b]
      BY <1>1, <1>3, <2>4, RecordedIs
    <3> QED  BY <1>2, <2>1, <2>2, <2>4, <3>1
  <2>5. CASE ~(b \in lookup[l] /\ Parks(out[b].kind, error_streak[b]))
    <3>1. parked_until'[b] = parked_until[b] /\ parked_at'[b] = parked_at[b]
      BY <1>1, <1>3, <2>5, RecordedIs
    <3> QED  BY <1>8, <2>2, <2>3, <3>1
  <2> QED  BY <2>4, <2>5
<1>9. InFlight'
  <2> SUFFICES ASSUME NEW o \in Lookups, lookup'[o] # Missing
               PROVE  /\ since'[o] <= instant' /\ instant' <= since'[o] + 1
                      /\ \A b \in lookup'[o] : parked_until'[b] > instant' => parked_at'[b] >= since'[o]
    BY DEF InFlight
  <2>1. o # l /\ lookup'[o] = lookup[o] /\ since'[o] = since[o] /\ lookup[o] \in SUBSET Backends
    BY <1>2 DEF AdsbInv, AdsbTypeOK
  <2> QED  BY <1>2, <1>8, <2>1 DEF AdsbInv, InFlight
<1>10. ParkingEnds' /\ StreakIsErrors'
  BY <1>2, <1>6, <1>8 DEF ParkingEnds, StreakIsErrors
<1>11. AnswerIsMerged'
  <2>1. PICK lists : lists = [b \in Backends |->
                                IF b \in lookup[l] /\ out[b].kind = "ok"
                                THEN Labelled(b, out[b].list) ELSE << >>]
    OBVIOUS
  <2>2. answer'.lists = lists /\ answer'.merged = merge_aircraft(lists)
    BY <1>1, <2>1
  <2>3. ASSUME NEW b \in Backends
        PROVE  /\ lists[b] \in Seq(ToSet(lists[b]))
               /\ \A a \in ToSet(lists[b]) : a.age \in Int /\ a.rssi \in Int
    <3>1. CASE b \in lookup[l] /\ out[b].kind = "ok"
      <4>1. out[b].list \in Lists
        BY <1>4, <3>1 DEF LookupOutcomes, Errors
      <4> QED  BY <2>1, <3>1, <4>1, LabelledIs
    <3>2. CASE ~(b \in lookup[l] /\ out[b].kind = "ok")
      BY <2>1, <3>2 DEF ToSet
    <3> QED  BY <3>1, <3>2
  <2>4. PICK all : all = UNION {ToSet(lists[i]) : i \in DOMAIN lists}
    OBVIOUS
  <2>5. DOMAIN lists = Backends /\ lists = [b \in Backends |-> lists[b]]
    BY <2>1
  <2>6. \A a \in all : a.age \in Int /\ a.rssi \in Int
    BY <2>3, <2>4, <2>5
  <2>7. \A b \in Backends : lists[b] \in Seq(all)
    <3> SUFFICES ASSUME NEW b \in Backends
                 PROVE  lists[b] \in Seq(all)
      OBVIOUS
    <3>1. ToSet(lists[b]) \subseteq all
      BY <2>4, <2>5
    <3> QED  BY <2>3, <3>1
  <2>8. lists \in Seq(Seq(all))
    BY <2>5, <2>7, AdsbConstants DEF Backends
  <2> QED  BY <2>2, <2>4, <2>6, <2>8 DEF AnswerIsMerged
<1> QED  BY <1>7, <1>9, <1>10, <1>11 DEF AdsbInv

LEMMA AdsbStep == AdsbInv /\ [AdsbNext]_adsbVars => AdsbInv'
<1>1. AdsbInv /\ UNCHANGED adsbVars => AdsbInv'
  BY DEF AdsbInv, AdsbTypeOK, InFlight, ParkingEnds, StreakIsErrors, AnswerIsMerged, adsbVars,
         health, NoAnswer
<1> QED  BY <1>1, FetchKeeps, JoinKeeps, InstantKeeps DEF AdsbNext

\* Health, lookups and clock stay in their sets, and a streak below the limit.
THEOREM AdsbTyped == AdsbSpec => []AdsbTypeOK
<1>1. AdsbInv => AdsbTypeOK
  BY DEF AdsbInv
<1> QED  BY <1>1, AdsbStarts, AdsbStep, PTL DEF AdsbSpec

\* Whichever lookups overlap: a backend that was parked gets its next chance
\* after a cooldown and the lookup that was in flight, and of the aircraft that
\* the backends reported none is lost, none is doubled and the best copy shown.
THEOREM LookupsAreSound == AdsbSpec => []LookupsSound
<1>1. AnswerIsMerged => MergedIsBestSuperset
  <2>1. answer = NoAnswer => MergedIsBestSuperset
    BY DEF NoAnswer, MergedIsBestSuperset, Range
  <2> QED  BY <2>1, MergeIsBest DEF AnswerIsMerged
<1>2. AdsbInv => LookupsSound
  BY <1>1 DEF AdsbInv, LookupsSound
<1> QED  BY <1>2, AdsbStarts, AdsbStep, PTL DEF AdsbSpec

\* Errors of overlapping lookups and successes between them: a backend is
\* parked for a refusal or for as many errors in a row as it takes.
THEOREM ParkedWithReason == AdsbSpec => ParkedForAReason
<1>1. AdsbInv /\ [AdsbNext]_adsbVars =>
        [\A b \in Backends : parked_until'[b] # parked_until[b] =>
           \/ answer'.kinds[b] \in {"429", "403"}
           \/ errors[b] + 1 >= ERROR_STREAK_PARK]_adsbVars
  <2> SUFFICES ASSUME AdsbInv, AdsbNext, NEW b \in Backends, parked_until'[b] # parked_until[b]
               PROVE  \/ answer'.kinds[b] \in {"429", "403"}
                      \/ errors[b] + 1 >= ERROR_STREAK_PARK
    OBVIOUS
  <2>1. PICK l \in Lookups : Join(l)
    BY DEF AdsbNext, Fetch, Instant, health
  <2>2. PICK out \in [lookup[l] -> LookupOutcomes] :
          Recorded(out) /\ answer'.kinds = [o \in lookup[l] |-> out[o].kind]
    BY <2>1 DEF Join
  <2>3. b \in lookup[l] /\ Parks(out[b].kind, error_streak[b])
    BY <2>2, RecordedIs
  <2>4. error_streak[b] \in Int /\ errors[b] \in Int /\ error_streak[b] <= errors[b]
    BY DEF AdsbInv, AdsbTypeOK, StreakIsErrors
  <2>5. answer'.kinds[b] = out[b].kind
    BY <2>2, <2>3
  <2>6. PICK k, s : k = out[b].kind /\ s = error_streak[b]
    OBVIOUS
  <2>7. ParksAtOnce(k) \/ (Counts(k) /\ Streak(k, s) >= ERROR_STREAK_PARK)
    BY <2>3, <2>6 DEF Parks
  <2>8. Counts(k) => Streak(k, s) = s + 1
    BY DEF Counts, Streak
  <2>9. ParksAtOnce(k) => answer'.kinds[b] \in {"429", "403"}
    BY <2>5, <2>6 DEF ParksAtOnce
  <2> QED  BY <2>4, <2>6, <2>7, <2>8, <2>9, AdsbConstants
<1> QED  BY <1>1, AdsbStarts, AdsbStep, PTL DEF AdsbSpec, ParkedForAReason

=============================================================================
