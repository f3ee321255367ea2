---------------------------- MODULE AdsbBackends ----------------------------
(***************************************************************************)
(* The ADS-B side of the aviation client (aviation/client/adsb.rs): every  *)
(* lookup asks all backends that are not parked at once, waits for all of  *)
(* them, records the health of each and merges the aircraft lists.         *)
(* Lookups of the flight tracker and of chat commands run concurrently     *)
(* and share the health.                                                   *)
(*                                                                         *)
(* Backends are numbered in priority order.  An aircraft is its hex, the   *)
(* bucket of its seen_pos (Stalest if missing), its rssi and the backend   *)
(* that reported it.                                                       *)
(***************************************************************************)
EXTENDS Integers, Sequences, SequencesExt, FiniteSets

CONSTANTS
  N,                  \* number of backends
  Lookups,            \* lookups that may be in flight
  Missing,            \* no hex; not in flight
  Stalest,            \* the freshness bucket of a missing seen_pos
  Lists,              \* answers: sequences of [hex, age, rssi]
  ERROR_STREAK_PARK,
  Cooldown,           \* adsb_cooldown, in ticks
  MaxInstant          \* bound on the clock

Backends == 1 .. N

ASSUME AdsbAssumption ==
  /\ N \in Nat \ {0} /\ Cooldown \in Nat \ {0} /\ MaxInstant \in Nat
  /\ ERROR_STREAK_PARK \in Nat \ {0}
  /\ \A list \in Lists :
       /\ list \in Seq(ToSet(list))
       /\ \A i \in DOMAIN list : list[i].age \in Nat /\ list[i].rssi \in Int

\* A request ends with a list or with one of the AdsbFetchErrors.  "slow body"
\* is a timeout that strikes while resp.json() reads the body.
Errors == {"429", "403", "4xx", "timeout", "slow body", "retryable", "fatal"}
LookupOutcomes == [kind : {"ok"}, list : Lists] \cup [kind : Errors]

VARIABLES
  parked_until,  \* BackendHealth, per backend
  error_streak,
  lookup,        \* per lookup the backends it asked, or None
  since,         \* when it was started
  instant,
  answer,        \* history: the last answer: how each backend ended, the lists and the
                 \* merged aircraft
  parked_at,     \* history: when the backend last became unavailable
  errors         \* history: the errors that count, since the last success or parking

health == <<parked_until, error_streak>>
adsbVars == <<health, lookup, since, instant, answer, parked_at, errors>>

NoAnswer == [kinds |-> << >>, lists |-> << >>, merged |-> << >>]

AdsbInit ==
  /\ parked_until = [b \in Backends |-> 0]
  /\ error_streak = [b \in Backends |-> 0]
  /\ lookup = [l \in Lookups |-> Missing] /\ since = [l \in Lookups |-> 0]
  /\ instant = 0
  /\ answer = NoAnswer
  /\ parked_at = [b \in Backends |-> 0]
  /\ errors = [b \in Backends |-> 0]

-----------------------------------------------------------------------------
(***************************************************************************)
(* The merge.                                                              *)
(***************************************************************************)
\* Mutant: the signal strength decides first.
BetterBySignal(a, b) == a.rssi > b.rssi \/ (a.rssi = b.rssi /\ a.age < b.age)

\* The order pick_winner minimises by: fresher bucket, then higher rssi.
Better(a, b) == a.age < b.age \/ (a.age = b.age /\ a.rssi > b.rssi)

\* pick_winner: the first of the best copies.
pick_winner(group) ==
  group[CHOOSE i \in DOMAIN group :
          /\ \A j \in DOMAIN group : ~Better(group[j], group[i])
          /\ \A j \in 1 .. i - 1 : Better(group[i], group[j])]

\* The copies by hex, the hexes in first-seen order, and what has no hex.
NothingMerged == [groups |-> [h \in {} |-> <<>>], order |-> <<>>, hexless |-> <<>>]

Grouped(m, a) ==
  LET group(h) == IF h \in DOMAIN m.groups THEN m.groups[h] ELSE <<>>
  IN IF a.hex = Missing
     THEN [groups |-> m.groups, order |-> m.order, hexless |-> Append(m.hexless, a)]
     ELSE [groups |-> [h \in DOMAIN m.groups \cup {a.hex} |->
                         IF h = a.hex THEN Append(group(h), a) ELSE group(h)],
           order |-> IF a.hex \in DOMAIN m.groups THEN m.order ELSE Append(m.order, a.hex),
           hexless |-> m.hexless]

GroupedList(m, list) == FoldLeft(Grouped, m, list)

\* merge_aircraft: one winner per hex, then the aircraft without a hex.
merge_aircraft(per_backend) ==
  LET m == FoldLeft(GroupedList, NothingMerged, per_backend)
  IN [k \in DOMAIN m.order |-> pick_winner(m.groups[m.order[k]])] \o m.hexless

-----------------------------------------------------------------------------
(***************************************************************************)
(* The health of the backends.                                             *)
(***************************************************************************)
\* Mutant: parked backends are asked as well.
all_backend_indices == Backends

live_backend_indices == {b \in Backends : parked_until[b] <= instant}

\* Outcomes that park at once and outcomes that count towards parking.
ParksAtOnce(k) == k \in {"429", "403"}
Counts(k) == k \in {"4xx", "slow body", "retryable"}

\* Mutant: a success does not end the streak.
StreakKept(k, s) == IF Counts(k) THEN s + 1 ELSE s

\* The streak after an outcome: a timeout and a fatal error leave it alone.
Streak(k, s) == IF k = "ok" THEN 0 ELSE IF Counts(k) THEN s + 1 ELSE s

Parks(k, s) == ParksAtOnce(k) \/ (Counts(k) /\ Streak(k, s) >= ERROR_STREAK_PARK)

\* What record_success, park_backend and record_retryable_error make of the
\* health, for the backends that were asked.
Recorded(out) ==
  LET kind(b) == out[b].kind
      asked == DOMAIN out
      parks(b) == b \in asked /\ Parks(kind(b), error_streak[b])
  IN /\ parked_until' = [b \in Backends |->
                           IF parks(b) THEN instant + Cooldown ELSE parked_until[b]]
     /\ error_streak' = [b \in Backends |->
                           IF parks(b) THEN 0
                           ELSE IF b \in asked THEN Streak(kind(b), error_streak[b])
                           ELSE error_streak[b]]
     /\ parked_at' = [b \in Backends |->
                        IF parks(b) /\ parked_until[b] <= instant THEN instant ELSE parked_at[b]]
     /\ errors' = [b \in Backends |->
                     IF b \notin asked THEN errors[b]
                     ELSE IF kind(b) = "ok" \/ parks(b) THEN 0
                     ELSE IF kind(b) \in Errors \ {"timeout", "fatal"} THEN errors[b] + 1
                     ELSE errors[b]]

-----------------------------------------------------------------------------
(***************************************************************************)
(* fetch_adsb_merged.                                                      *)
(***************************************************************************)
Fetch(l) ==
  /\ lookup[l] = Missing
  /\ live_backend_indices # {}
  /\ lookup' = [lookup EXCEPT ![l] = live_backend_indices]
  /\ since' = [since EXCEPT ![l] = instant]
  /\ answer' = NoAnswer
  /\ UNCHANGED <<health, instant, parked_at, errors>>

\* The list of backend b with its name on every aircraft.
Labelled(b, list) ==
  [i \in DOMAIN list |-> [hex |-> list[i].hex, age |-> list[i].age,
                          rssi |-> list[i].rssi, from |-> b]]

\* All requests have ended; a backend that failed adds nothing, and with no success
\* the lookup is an error.
Join(l) ==
  /\ lookup[l] # Missing
  /\ \E out \in [lookup[l] -> LookupOutcomes] :
       /\ Recorded(out)
       /\ LET lists == [b \in Backends |->
                          IF b \in lookup[l] /\ out[b].kind = "ok"
                          THEN Labelled(b, out[b].list) ELSE <<>>]
          IN answer' = [kinds |-> [b \in lookup[l] |-> out[b].kind],
                        lists |-> lists, merged |-> merge_aircraft(lists)]
  /\ lookup' = [lookup EXCEPT ![l] = Missing]
  /\ since' = [since EXCEPT ![l] = 0]
  /\ UNCHANGED instant

\* A request times out well before a cooldown ends: within one tick.
Instant ==
  /\ instant < MaxInstant
  /\ \A l \in Lookups : lookup[l] # Missing => since[l] = instant
  /\ instant' = instant + 1
  /\ UNCHANGED <<health, lookup, since, answer, parked_at, errors>>

AdsbNext == (\E l \in Lookups : Fetch(l) \/ Join(l)) \/ Instant

AdsbSpec == AdsbInit /\ [][AdsbNext]_adsbVars

-----------------------------------------------------------------------------
(***************************************************************************)
(* Properties.                                                             *)
(***************************************************************************)
\* Every variable stays in its set; a streak that reaches the limit is reset.
AdsbTypeOK ==
  /\ parked_until \in [Backends -> 0 .. MaxInstant + Cooldown]
  /\ error_streak \in [Backends -> 0 .. ERROR_STREAK_PARK - 1]
  /\ lookup \in [Lookups -> (SUBSET Backends) \cup {Missing}]
  /\ since \in [Lookups -> 0 .. MaxInstant]
  /\ instant \in 0 .. MaxInstant
  /\ parked_at \in [Backends -> 0 .. MaxInstant]
  /\ errors \in [Backends -> Nat]

\* Errors of lookups that were already in flight may extend a parking, but only
\* as long as those lookups take: every backend gets its next chance.
ParkingEnds ==
  \A b \in Backends : parked_until[b] > instant => parked_until[b] <= parked_at[b] + Cooldown + 1

\* A backend is parked for a refusal or for ERROR_STREAK_PARK errors without a
\* success in between, whichever lookups they belong to.
ParkedForAReason ==
  [][\A b \in Backends : parked_until'[b] # parked_until[b] =>
       \/ answer'.kinds[b] \in {"429", "403"}
       \/ errors[b] + 1 >= ERROR_STREAK_PARK]_adsbVars

\* The merged answer has every aircraft of every backend that answered, each hex
\* once, in the copy that no other copy is fresher than and, among equally fresh
\* ones, no other is stronger than.
MergedIsBestSuperset ==
  LET all == UNION {Range(answer.lists[i]) : i \in DOMAIN answer.lists}
      m == answer.merged
  IN /\ Range(m) \subseteq all
     /\ \A a \in all : \E i \in DOMAIN m : m[i].hex = a.hex
     /\ \A i, j \in DOMAIN m : (i # j /\ m[i].hex = m[j].hex) => m[i].hex = Missing
     /\ \A i \in DOMAIN m : m[i].hex # Missing =>
          \A a \in all : a.hex = m[i].hex =>
            m[i].age < a.age \/ (m[i].age = a.age /\ m[i].rssi >= a.rssi)

\* Backends that fail or are parked delay a look-up and never falsify it: each gets
\* its next chance, and what the others answered is merged without a loss.
LookupsSound == ParkingEnds /\ MergedIsBestSuperset

=============================================================================
