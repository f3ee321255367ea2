--------------------------- MODULE FlightTracker ---------------------------
(***************************************************************************)
(* The flight tracker task (aviation/tracker/loop_run.rs, commands.rs):    *)
(* one loop owns the tracked flights; chat commands and the dashboard      *)
(* reach it through one channel; a poll round sends its ADS-B lookups in   *)
(* parallel and keeps serving the dashboard while it waits.                *)
(*                                                                         *)
(* A flight is reduced to what it is called and who tracks it.  What one   *)
(* poll does to the rest is FlightAdvance, when it happens FlightSchedule; *)
(* here any flight may be due or expired in any round.  inc numbers the    *)
(* flights in the order in which they were pushed: Vec::remove and         *)
(* flights.ron keep that order, so the first flight is the one with the    *)
(* least inc, and inc tells two flights with the same identifier apart.    *)
(***************************************************************************)
EXTENDS FlightIdentity, Sequences

CONSTANTS
  Fleet,                 \* aircraft ADS-B may report: [flight, hex]
  Metadata,              \* AviationStack answers: [callsign, hex]
  Icao,                  \* the ICAO callsign adsbdb knows for a callsign
  AviationstackEnabled,  \* an AviationStack key is configured
  SavesMayFail,          \* writing flights.ron may fail
  MAX_TRACKED_FLIGHTS,
  MAX_FLIGHTS_PER_USER,
  Requests,              \* what is sent: [kind, id, user, is_mod]
  ChannelCap,            \* capacity of the command channel
  MaxSent,               \* bound on the commands sent
  MaxCrashes             \* bound on the crashes

ChatKinds == {"Track", "Untrack", "Status", "Info"}
WebKinds == {"Snapshot", "DeleteFromWeb"}

ASSUME TrackerAssumption ==
  /\ Fleet \subseteq [flight : Opt(Callsigns), hex : Opt(Hexes)]
  /\ Metadata \subseteq [callsign : Opt(Callsigns), hex : Opt(Hexes)]
  /\ Icao \in [Callsigns -> Callsigns]
  /\ AviationstackEnabled \in BOOLEAN /\ SavesMayFail \in BOOLEAN
  /\ MAX_TRACKED_FLIGHTS \in Nat /\ MAX_FLIGHTS_PER_USER \in Nat
  /\ Requests \subseteq [kind : ChatKinds \cup WebKinds, id : Identifiers,
                         user : Users, is_mod : BOOLEAN]
  /\ ChannelCap \in Nat /\ MaxSent \in Nat /\ MaxCrashes \in Nat

VARIABLES
  flights,      \* FlightTrackerState.flights
  disk,         \* the flights in flights.ron
  next_inc,     \* number of the next flight pushed
  pc,           \* where the loop is
  queue,        \* the command channel
  deferred,     \* deferred_commands of the round
  lookups,      \* flights whose ADS-B lookup is under way
  results,      \* flights whose lookup came back and is not applied yet
  removals,     \* flights to be removed at the end of the round
  notices,      \* removals still to be announced in chat
  changed,      \* the round has something to save
  save_failed,  \* the last save failed
  web_saved,    \* history: the dashboard deleted a flight in this round
  sent,         \* history: number of commands sent
  handled,      \* history: commands that took effect
  crashes       \* number of crashes

round == <<lookups, results, removals, notices, changed, web_saved>>
store == <<flights, disk, next_inc, save_failed>>
vars == <<store, pc, queue, deferred, round, sent, handled, crashes>>

Flight == [id : Identifiers, callsign : Opt(Callsigns), aliases : SUBSET Callsigns,
           observed : Opt(Callsigns), hex : Opt(Hexes), by : Users, inc : Nat]

Command == [n : Nat, kind : ChatKinds \cup WebKinds, id : Identifiers,
            user : Users, is_mod : BOOLEAN]

\* A task and a pending removal name their flight by its identifier only; inc
\* is history.
Ref(f) == [id |-> f.id, inc |-> f.inc]
Refs == [id : Identifiers, inc : Nat]

-----------------------------------------------------------------------------
(***************************************************************************)
(* Looking a flight up and recognising a duplicate.                        *)
(***************************************************************************)
find_index_by_identifier(id) == {f \in flights : f.id = id}

answers_to(f, query) ==
  f.id.v = query \/ f.callsign = query \/ query \in f.aliases \/ f.hex = query

\* The first flight that answers to the query, or None.
find_flight_index(query) ==
  LET found == {f \in flights : answers_to(f, query)}
  IN IF found = {} THEN None
     ELSE CHOOSE f \in found : \A g \in found : f.inc <= g.inc

\* Mutant: two flights are the same only if they are the same aircraft.
duplicate_by_hex(id, callsign, hex) ==
  \E f \in flights : hex # None /\ f.hex = hex

duplicate_tracking_exists(id, callsign, hex) ==
  \E f \in flights :
    \/ f.id = id
    \/ matches(id, f.callsign, f.hex)
    \/ id.kind = "Callsign" /\ candidate_callsign_matches_flight(f, id.v)
    \/ callsign # None /\ candidate_callsign_matches_flight(f, callsign)
    \/ hex # None /\ f.hex = hex

(***************************************************************************)
(* What the lookups tell about a flight's names.                           *)
(***************************************************************************)
\* External: adsbdb knows the airline of the callsign, or the request fails.
resolve_callsign(cs) == {cs, Icao[cs]}

\* ADS-B answers a lookup by hex whatever the aircraft's callsign is, and one
\* by callsign only with an aircraft that has a name of the flight.
confirms(f, ac) ==
  f.hex # None \/ (ac.flight # None /\ flight_matches_callsign(f, ac.flight))

observed_by(f, ac) ==
  LET resolves == f.callsign = None /\ ac.flight # None
  IN [f EXCEPT !.observed = ac.flight,
               !.callsign = IF resolves THEN ac.flight ELSE @,
               !.aliases = IF resolves THEN @ \cup {ac.flight} ELSE @,
               !.hex = IF @ = None THEN ac.hex ELSE @]

\* Mutant: an absent callsign becomes an alias.
informed_by_all(f, m) ==
  [f EXCEPT !.callsign = IF m.callsign = None THEN @ ELSE m.callsign,
            !.aliases = @ \cup {m.callsign},
            !.hex = IF @ = None THEN m.hex ELSE @]

informed_by(f, m) ==
  [f EXCEPT !.callsign = IF m.callsign = None THEN @ ELSE m.callsign,
            !.aliases = @ \cup ({m.callsign} \ {None}),
            !.hex = IF @ = None THEN m.hex ELSE @]

-----------------------------------------------------------------------------
(***************************************************************************)
(* handle_track: the caps, then a check for duplicates after each thing    *)
(* that is learned about the flight.  The flights it may push; None is a   *)
(* refusal.                                                                *)
(***************************************************************************)
Tracked(u) == {f \in flights : f.by = u}

\* Mutant: off by one.
at_limit_exceeded(u) ==
  \/ Cardinality(flights) > MAX_TRACKED_FLIGHTS
  \/ Cardinality(Tracked(u)) > MAX_FLIGHTS_PER_USER

at_limit(u) ==
  \/ Cardinality(flights) >= MAX_TRACKED_FLIGHTS
  \/ Cardinality(Tracked(u)) >= MAX_FLIGHTS_PER_USER

NewFlight(c, callsign) ==
  seed_flight_aliases(
    [id |-> c.id, callsign |-> callsign, aliases |-> {}, observed |-> None,
     hex |-> IF c.id.kind = "Hex" THEN c.id.v ELSE None, by |-> c.user, inc |-> next_inc])

Fresh(f) == IF duplicate_tracking_exists(f.id, f.callsign, f.hex) THEN None ELSE f

Informed(f) == IF AviationstackEnabled /\ f.callsign # None
               THEN {f} \cup {informed_by(f, m) : m \in Metadata} ELSE {f}

\* A pending track is kept although ADS-B does not show it only if
\* AviationStack vouches for callsigns.
Sighted(f) ==
  {observed_by(f, ac) : ac \in {a \in Fleet : confirms(f, a)}}
    \cup {IF f.id.kind = "Callsign" /\ AviationstackEnabled THEN f ELSE None}

TrackOutcomes(c) ==
  LET named == IF c.id.kind = "Callsign"
               THEN {Fresh(NewFlight(c, r)) : r \in resolve_callsign(c.id.v)}
               ELSE {NewFlight(c, None)}
      informed == {Fresh(f) : f \in UNION {Informed(g) : g \in named \ {None}}}
      sighted == UNION {Sighted(g) : g \in informed \ {None}}
      \* A hex flight is looked up at AviationStack once ADS-B gave its callsign.
      vouched == UNION {IF g.id.kind = "Hex" THEN Informed(g) ELSE {g}
                          : g \in sighted \ {None}}
      refused == (named \cup informed \cup sighted) \cap {None}
  IN IF at_limit(c.user) \/ duplicate_tracking_exists(c.id, None, None)
     THEN {None}
     ELSE refused \cup {Fresh(f) : f \in vouched}

\* save_tracker_state logs a failed write and goes on.
save_tracker_state(fs) ==
  \/ disk' = fs /\ save_failed' = FALSE
  \/ SavesMayFail /\ UNCHANGED disk /\ save_failed' = TRUE

\* The metadata cache may have changed, which saves the flights along with it.
cache_only ==
  UNCHANGED <<flights, next_inc>>
    /\ (save_tracker_state(flights) \/ UNCHANGED <<disk, save_failed>>)

handle_track(c) ==
  \E f \in TrackOutcomes(c) :
    IF f = None THEN cache_only
    ELSE /\ flights' = flights \cup {f}
         /\ next_inc' = next_inc + 1
         /\ save_tracker_state(flights')

remove_flight_at(f) ==
  /\ flights' = flights \ {f}
  /\ save_tracker_state(flights')
  /\ UNCHANGED next_inc

may_untrack(f, c) == f.by = c.user \/ c.is_mod

handle_untrack(c) ==
  LET f == find_flight_index(c.id.v)
  IN IF f # None /\ may_untrack(f, c) THEN remove_flight_at(f) ELSE UNCHANGED store

delete_from_web(c) ==
  LET f == find_flight_index(c.id.v)
  IN IF f # None THEN remove_flight_at(f) ELSE UNCHANGED store

\* process_command, with the flights to itself.
process_command(c) ==
  /\ CASE c.kind = "Track"         -> handle_track(c)
       [] c.kind = "Untrack"       -> handle_untrack(c)
       [] c.kind = "Info"          -> cache_only
       [] c.kind = "DeleteFromWeb" -> delete_from_web(c)
       [] c.kind \in {"Status", "Snapshot"} -> UNCHANGED store
  /\ handled' = handled \cup {c}

-----------------------------------------------------------------------------
(***************************************************************************)
(* The loop.  "idle" is its head; "busy" drains the channel before a       *)
(* round; "fetch", "apply", "flush", "say" and "save" are the round;       *)
(* "deferred" runs the commands the round put aside; "sleep" waits for the *)
(* next poll or a command.                                                 *)
(***************************************************************************)
Init ==
  /\ flights = {} /\ disk = {} /\ next_inc = 0 /\ save_failed = FALSE
  /\ pc = "idle"
  /\ queue = << >> /\ deferred = << >>
  /\ lookups = {} /\ results = {} /\ removals = {} /\ notices = {}
  /\ changed = FALSE /\ web_saved = FALSE
  /\ sent = 0 /\ handled = {} /\ crashes = 0

\* A chat handler or a web request puts a command into the channel.
Send(r) ==
  /\ sent < MaxSent
  /\ Len(queue) < ChannelCap
  /\ queue' = Append(queue, [n |-> sent, kind |-> r.kind, id |-> r.id,
                             user |-> r.user, is_mod |-> r.is_mod])
  /\ sent' = sent + 1
  /\ UNCHANGED <<store, pc, deferred, round, handled, crashes>>

\* The loop takes a command while no round is under way.
TakeCommand ==
  /\ queue # << >>
  /\ \/ pc = "idle" /\ flights = {} /\ pc' = "idle"
     \/ pc = "idle" /\ flights # {} /\ pc' = "busy"
     \/ pc = "busy" /\ pc' = "busy"
     \/ pc = "sleep" /\ pc' = "idle"
  /\ process_command(Head(queue))
  /\ queue' = Tail(queue)
  /\ UNCHANGED <<deferred, round, sent, crashes>>

\* The channel is empty: the due flights are looked up, the expired ones are
\* put down for removal.
StartRound(due, expired) ==
  /\ pc = "busy" \/ (pc = "idle" /\ flights # {})
  /\ queue = << >>
  /\ lookups' = {Ref(f) : f \in due}
  /\ removals' = {Ref(f) : f \in expired}
  /\ notices' = removals'
  /\ changed' = (expired # {})
  /\ web_saved' = FALSE
  /\ pc' = "fetch"
  /\ UNCHANGED <<store, queue, deferred, results, sent, handled, crashes>>

\* Mutant: the round serves every command at once.
process_any_command(c) ==
  /\ process_command(c)
  /\ web_saved' = (web_saved \/ c.kind = "DeleteFromWeb")
  /\ UNCHANGED deferred

\* Within a round only the dashboard is served; chat commands are put aside.
process_latency_sensitive_command(c) ==
  IF c.kind \in WebKinds
  THEN /\ process_command(c)
       /\ web_saved' = (web_saved \/ c.kind = "DeleteFromWeb")
       /\ UNCHANGED deferred
  ELSE /\ deferred' = Append(deferred, c)
       /\ UNCHANGED <<store, handled, web_saved>>

\* A command while lookups are under way, or in one of the drains: before each
\* result is applied and after the removals.
ServeInRound ==
  /\ \/ pc = "fetch" /\ lookups # {}
     \/ pc = "apply" /\ results # {}
     \/ pc = "flush"
  /\ queue # << >>
  /\ process_latency_sensitive_command(Head(queue))
  /\ queue' = Tail(queue)
  /\ UNCHANGED <<pc, lookups, results, removals, notices, changed, sent, crashes>>

\* A lookup comes back or times out.
Arrive(l) ==
  /\ pc = "fetch"
  /\ lookups' = lookups \ {l}
  /\ results' = results \cup {l}
  /\ UNCHANGED <<store, pc, queue, deferred, removals, notices, changed, web_saved,
                 sent, handled, crashes>>

FetchDone ==
  /\ pc = "fetch" /\ lookups = {}
  /\ pc' = "apply"
  /\ UNCHANGED <<store, queue, deferred, round, sent, handled, crashes>>

\* A result is applied to the flight with its identifier, if there is one: the
\* aircraft was seen, or not and the flight may be given up.  The drain before
\* it has emptied the channel; a command that comes later waits, as if it had
\* been sent after this step.
Apply(r) ==
  /\ pc = "apply" /\ queue = << >>
  /\ results' = results \ {r}
  /\ \/ /\ find_index_by_identifier(r.id) = {}
        /\ UNCHANGED <<flights, removals, notices, changed>>
     \/ \E f \in find_index_by_identifier(r.id) :
          /\ changed' = TRUE
          /\ \/ /\ \E ac \in {a \in Fleet : confirms(f, a)} :
                     flights' = (flights \ {f}) \cup {observed_by(f, ac)}
                /\ UNCHANGED <<removals, notices>>
             \/ UNCHANGED <<flights, removals, notices>>
             \/ /\ removals' = removals \cup {r}
                /\ notices' = notices \cup {r}
                /\ UNCHANGED flights
  /\ UNCHANGED <<disk, next_inc, save_failed, pc, queue, deferred, lookups, web_saved,
                 sent, handled, crashes>>

\* The removals are carried out by identifier.
CarryOutRemovals ==
  /\ pc = "apply" /\ results = {}
  /\ flights' = {f \in flights : \A r \in removals : r.id # f.id}
  /\ changed' = (changed \/ flights' # flights)
  /\ removals' = {}
  /\ pc' = "flush"
  /\ UNCHANGED <<disk, next_inc, save_failed, queue, deferred, lookups, results,
                 notices, web_saved, sent, handled, crashes>>

\* The last drain found the channel empty.
Flushed ==
  /\ pc = "flush" /\ queue = << >>
  /\ pc' = "say"
  /\ UNCHANGED <<store, queue, deferred, round, sent, handled, crashes>>

Say(n) ==
  /\ pc = "say"
  /\ notices' = notices \ {n}
  /\ UNCHANGED <<store, pc, queue, deferred, lookups, results, removals, changed,
                 web_saved, sent, handled, crashes>>

\* Mutant: the round is saved before its announcements are made.
SaveFirst ==
  \/ /\ pc = "say" /\ notices # {} /\ disk # flights
     /\ save_tracker_state(flights)
     /\ UNCHANGED <<flights, next_inc, pc, queue, deferred, round, sent, handled, crashes>>
  \/ /\ pc = "say" /\ notices = {}
     /\ pc' = "deferred" /\ changed' = FALSE
     /\ save_tracker_state(flights)
     /\ UNCHANGED <<flights, next_inc, queue, deferred, lookups, results, removals,
                    notices, web_saved, sent, handled, crashes>>

\* Mutant: only the removals of this round count as a change.
SaveRemovals ==
  /\ pc = "say" /\ notices = {}
  /\ pc' = "deferred" /\ changed' = FALSE
  /\ UNCHANGED <<disk, save_failed, flights, next_inc, queue, deferred, lookups, results,
                 removals, notices, web_saved, sent, handled, crashes>>

Save ==
  /\ pc = "say" /\ notices = {}
  /\ IF changed THEN save_tracker_state(flights) ELSE UNCHANGED <<disk, save_failed>>
  /\ pc' = "deferred" /\ changed' = FALSE
  /\ UNCHANGED <<flights, next_inc, queue, deferred, lookups, results, removals,
                 notices, web_saved, sent, handled, crashes>>

RunDeferred ==
  /\ pc = "deferred" /\ deferred # << >>
  /\ process_command(Head(deferred))
  /\ deferred' = Tail(deferred)
  /\ UNCHANGED <<pc, queue, round, sent, crashes>>

\* Mutant: the loop goes to sleep without running what the round put aside.
GoToSleepEarly ==
  /\ pc = "deferred"
  /\ pc' = "sleep"
  /\ UNCHANGED <<store, queue, deferred, round, sent, handled, crashes>>

GoToSleep ==
  /\ pc = "deferred" /\ deferred = << >>
  /\ pc' = "sleep"
  /\ UNCHANGED <<store, queue, deferred, round, sent, handled, crashes>>

Wake ==
  /\ pc = "sleep"
  /\ pc' = "idle"
  /\ UNCHANGED <<store, queue, deferred, round, sent, handled, crashes>>

\* The process ends and starts again from flights.ron; FlightLife shows that
\* the repairs made on loading leave the flights as they were.
Crash ==
  /\ crashes < MaxCrashes
  /\ crashes' = crashes + 1
  /\ flights' = disk
  /\ pc' = "idle" /\ queue' = << >> /\ deferred' = << >>
  /\ lookups' = {} /\ results' = {} /\ removals' = {} /\ notices' = {}
  /\ changed' = FALSE /\ web_saved' = FALSE /\ save_failed' = FALSE
  /\ UNCHANGED <<disk, next_inc, sent, handled>>

Loop ==
  \/ TakeCommand
  \/ \E due \in SUBSET flights : \E expired \in SUBSET (flights \ due) : StartRound(due, expired)
  \/ ServeInRound
  \/ \E l \in lookups : Arrive(l)
  \/ FetchDone
  \/ \E r \in results : Apply(r)
  \/ CarryOutRemovals
  \/ Flushed
  \/ \E n \in notices : Say(n)
  \/ Save
  \/ RunDeferred
  \/ GoToSleep
  \/ Wake

Next == Loop \/ (\E r \in Requests : Send(r)) \/ Crash

Spec == Init /\ [][Next]_vars

\* Lookups, route fetches and sends have timeouts and the sleep has an end, so
\* the loop always gets on; a waiting lookup is not starved by commands.
FairSpec == Spec /\ WF_vars(Loop) /\ WF_vars(\E l \in lookups : Arrive(l))

-----------------------------------------------------------------------------
(***************************************************************************)
(* Properties.                                                             *)
(***************************************************************************)
\* The commands that are sent and have not taken effect.
Waiting == {queue[i] : i \in DOMAIN queue} \cup {deferred[i] : i \in DOMAIN deferred}

InRound == {"fetch", "apply", "flush", "say"}

\* Every variable of the loop, the channel and the file stays in its set.
TypeOK ==
  /\ flights \subseteq Flight /\ disk \subseteq Flight
  /\ IsFiniteSet(flights) /\ IsFiniteSet(disk)
  /\ next_inc \in Nat
  /\ pc \in InRound \cup {"idle", "busy", "deferred", "sleep"}
  /\ queue \in Seq(Command) /\ deferred \in Seq(Command)
  /\ lookups \subseteq Refs /\ results \subseteq Refs
  /\ removals \subseteq Refs /\ notices \subseteq Refs
  /\ changed \in BOOLEAN /\ save_failed \in BOOLEAN /\ web_saved \in BOOLEAN
  /\ sent \in Nat /\ crashes \in Nat
  /\ handled \subseteq Command

\* No two tracked flights have the same identifier, in memory or on disk: the
\* results and the removals of a round find their flight by identifier.
UniqueIdentifiers ==
  /\ \A f, g \in flights : f.id = g.id => f = g
  /\ \A f, g \in disk : f.id = g.id => f = g

\* The caps of handle_track hold at all times, also for what a restart loads.
CapsHold ==
  \A fs \in {flights, disk} :
    /\ Cardinality(fs) <= MAX_TRACKED_FLIGHTS
    /\ \A u \in Users : Cardinality({f \in fs : f.by = u}) <= MAX_FLIGHTS_PER_USER

\* An answer or a removal of a round never meets another flight than the one
\* it is about, although the dashboard may delete that flight and a user track
\* the same identifier again in the meantime.
AnswersMeetTheirFlight ==
  \A r \in lookups \cup results \cup removals : \A f \in flights :
    f.id = r.id => f.inc = r.inc

\* Chat commands take effect in the order in which they were sent; only the
\* dashboard overtakes them.
ChatInOrder ==
  \A c \in handled : \A d \in Waiting :
    c.kind \in ChatKinds /\ d.kind \in ChatKinds => c.n < d.n

\* What memory and flights.ron disagree about is still to be saved by the
\* round that changed it, unless a write failed.
NothingUnsavedForgotten ==
  disk # flights => save_failed \/ (changed /\ pc \in InRound)

\* A removal by polling is announced before it is durable: if the bot crashes
\* first, it finds the flight again and announces it later.  The exceptions:
\* a deletion by the dashboard in the same round saves the removal early, and
\* a flight that could not be written is forgotten.
RemovalAnnouncedOrRedone ==
  \A n \in notices : (\E f \in disk : Ref(f) = n) \/ web_saved \/ save_failed

\* Every command that reaches the tracker takes effect unless the bot crashes.
EveryCommandHandled == []<>(crashes > 0 \/ {c.n : c \in handled} = 0 .. sent - 1)

=============================================================================
