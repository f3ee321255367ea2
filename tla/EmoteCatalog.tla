---------------------------- MODULE EmoteCatalog ----------------------------
(***************************************************************************)
(* The 7TV emotes the assistant may use (twitch/seventv.rs): a glossary in *)
(* the binary, intersected with the catalogs 7TV publishes, refreshed on   *)
(* use, and the window of them one turn of the assistant is shown.         *)
(*                                                                         *)
(* The cache mutex is held while the catalogs are fetched, so that the     *)
(* other turns wait.  An emote is a model value; of the chat only what it  *)
(* scores is kept: how often an emote was used and how many terms of the   *)
(* instruction its meaning shares.                                         *)
(***************************************************************************)
EXTENDS Integers, Sequences, SequencesExt, FiniteSets

CONSTANTS
  Emotes,
  Glossary,       \* the entries of data/7tv_emotes.toml, a sequence of emotes
  Meaningless,    \* the emotes whose entry has an empty meaning
  EmoteSettings,  \* records [include_global, interval, max, min, pinned]
  Chats,          \* records [recent, context], functions from Emotes to Nat
  Turns,          \* turns of the assistant that may run at once
  NoEmotes,       \* prompt_emotes returned None
  SearchLimit,    \* SEARCH_EMOTES_LIMIT
  Timeout,        \* REQUEST_TIMEOUT
  MaxClock, MaxPublished   \* bounds on the clock and on the changes at 7TV

\* The dashboard refuses an interval of zero (settings/validation.rs).
ASSUME EmoteAssumption ==
  /\ EmoteSettings \subseteq [include_global : BOOLEAN, interval : Nat \ {0}, max : Nat,
                              min : Nat, pinned : Seq(Emotes)]
  /\ Chats \subseteq [recent : [Emotes -> Nat], context : [Emotes -> Nat]]
  /\ Glossary \in Seq(Emotes) /\ SearchLimit \in Nat
  /\ Timeout \in Nat /\ MaxClock \in Nat

NotYet == -1
Moments == NotYet .. MaxClock

VARIABLES
  clock,
  knobs,      \* settings.ai.emotes
  published,  \* [global, channel]: what 7TV lists
  cache,      \* PromptCache: [last_refresh, emotes]
  turn,       \* the calls of prompt_block_for_turn and search_emotes
  begun,      \* history: when the last refresh began
  lastok,     \* history: the last refresh succeeded
  listed,     \* history: when an emote was last listed by 7TV
  publications

emoteHistory == <<begun, lastok, listed>>
emoteVars == <<clock, knobs, published, cache, turn, emoteHistory, publications>>

NoCall == [st |-> "none"]

EmoteInit ==
  /\ clock = 0 /\ publications = 0
  /\ knobs \in EmoteSettings
  /\ published = [global |-> Emotes, channel |-> {}]
  /\ cache = [last_refresh |-> NotYet, emotes |-> NoEmotes]
  /\ turn = [t \in Turns |-> NoCall]
  /\ begun = NotYet /\ lastok = TRUE
  /\ listed = [e \in Emotes |-> 0]

-----------------------------------------------------------------------------
(* The window of a turn *)

\* live_caps: the baseline never exceeds the window.
live_caps == [knobs EXCEPT !.min = IF @ < knobs.max THEN @ ELSE knobs.max]

\* A layer of the window: what is available and not yet picked, while there is room.
Pick(picked, layer, available, room) ==
  LET add(seq, e) == IF e \in available \ ToSet(seq) /\ Len(seq) < room
                     THEN Append(seq, e) ELSE seq
  IN FoldLeft(add, picked, layer)

\* The glossary entries that are available, each name once.
build_available_prompt_emotes(available) ==
  LET kept == Pick(<<>>, Glossary, available \ Meaningless, Len(Glossary))
  IN IF kept = <<>> THEN NoEmotes ELSE kept

\* A set in the order of a relation on it: the i-th is the one with i - 1 before it.
InOrder(S, before) ==
  LET rank == [e \in S |-> Cardinality({b \in S : <<b, e>> \in before})]
  IN [i \in 1..Cardinality(S) |-> CHOOSE e \in S : rank[e] = i - 1]

\* How often it was used of late, and how many terms its meaning shares.
Scores(e, first, second) == first[e] > 0 \/ second[e] > 0

\* What scores at all, by one score, then by the other, then in the order of the list.
ByScore(emotes, first, second) ==
  LET scoring == {e \in ToSet(emotes) : Scores(e, first, second)}
      index(e) == CHOOSE i \in DOMAIN emotes : emotes[i] = e
      before(a, b) == \/ first[a] > first[b]
                      \/ first[a] = first[b] /\ second[a] > second[b]
                      \/ first[a] = first[b] /\ second[a] = second[b] /\ index(a) < index(b)
  IN InOrder(scoring, {p \in scoring \X scoring : before(p[1], p[2])})

\* Three layers: the pins, what scores, and a baseline from the glossary.
select_prompt_emotes(emotes, caps, chat) ==
  LET all == ToSet(emotes)
      pins == Pick(<<>>, caps.pinned, all, caps.max)
      scored == Pick(pins, ByScore(emotes, chat.recent, chat.context), all, caps.max)
  IN Pick(scored, emotes, all, IF caps.min < caps.max THEN caps.min ELSE caps.max)

\* The tool search_emotes: the whole list, ranked by what the query scores.
select_search_emotes(emotes, query) ==
  Pick(<<>>, ByScore(emotes, query, query), ToSet(emotes), SearchLimit)

-----------------------------------------------------------------------------
(* One turn: prompt_emotes and the block built from it *)

Fetching(t) == turn[t].st \in {"global", "channel"}
Locked == \E t \in Turns : Fetching(t)

\* ok is kept for the properties: whether the refresh these emotes are of succeeded.
Shown(t, emotes, ok) ==
  turn' = [turn EXCEPT ![t] =
             [st |-> "shown", caps |-> turn[t].caps, chat |-> turn[t].chat, emotes |-> emotes,
              since |-> IF turn[t].st = "waiting" THEN clock ELSE turn[t].since, ok |-> ok]]

prompt_block_for_turn(t, chat) ==
  /\ turn[t].st = "none"
  /\ turn' = [turn EXCEPT ![t] = [st |-> "waiting", caps |-> live_caps, chat |-> chat]]
  /\ UNCHANGED <<clock, knobs, published, cache, emoteHistory, publications>>

Fresh(t) ==
  cache.last_refresh # NotYet /\ clock - cache.last_refresh < turn[t].caps.interval

\* The lock is acquired: the cache is fresh, or the refresh begins.
prompt_emotes(t) ==
  /\ turn[t].st = "waiting" /\ ~Locked
  /\ IF Fresh(t)
     THEN Shown(t, cache.emotes, lastok) /\ UNCHANGED <<cache, emoteHistory>>
     ELSE IF Glossary = <<>>
     THEN /\ cache' = [last_refresh |-> clock, emotes |-> NoEmotes]
          /\ Shown(t, NoEmotes, lastok) /\ UNCHANGED emoteHistory
     ELSE /\ turn' = [turn EXCEPT ![t] =
                        [st |-> IF turn[t].caps.include_global THEN "global" ELSE "channel",
                         caps |-> turn[t].caps, chat |-> turn[t].chat, since |-> clock,
                         asked |-> clock, names |-> {}, failed |-> FALSE]]
          /\ begun' = clock
          /\ UNCHANGED <<cache, lastok, listed>>
  /\ UNCHANGED <<clock, knobs, published, publications>>

\* Mutant: only a refresh that succeeded is stamped.
StampSuccess(t, ok) == IF ok THEN turn[t].since ELSE cache.last_refresh

\* Mutant: a refresh is stamped when it ends.
StampEnd(t, ok) == clock

\* A refresh is stamped with the time it began, whatever came of it.
Stamped(t, ok) == turn[t].since

\* The end of refresh_prompt_emotes; a failure leaves the emotes as they were.
Refreshed(t, names, failed) ==
  LET ok == ~(names = {} /\ failed)
      emotes == IF ok THEN build_available_prompt_emotes(names) ELSE cache.emotes
  IN /\ cache' = [last_refresh |-> Stamped(t, ok), emotes |-> emotes]
     /\ lastok' = ok
     /\ Shown(t, emotes, ok)

\* fetch_global_emotes has answered; its failure is not the end.
fetch_global_emotes(t, ok) ==
  /\ turn[t].st = "global"
  /\ turn' = [turn EXCEPT ![t] = [@ EXCEPT !.st = "channel", !.asked = clock, !.failed = ~ok,
                                           !.names = IF ok THEN published.global ELSE {}]]
  /\ UNCHANGED <<clock, knobs, published, cache, emoteHistory, publications>>

\* fetch_channel_emotes has answered, and with it the refresh ends.
fetch_channel_emotes(t, ok) ==
  /\ turn[t].st = "channel"
  /\ Refreshed(t, turn[t].names \cup (IF ok THEN published.channel ELSE {}),
               turn[t].failed \/ ~ok)
  /\ UNCHANGED <<clock, knobs, published, begun, listed, publications>>

\* The turn goes on to the model with its block.
EmotesUsed(t) ==
  /\ turn[t].st = "shown"
  /\ turn' = [turn EXCEPT ![t] = NoCall]
  /\ UNCHANGED <<clock, knobs, published, cache, emoteHistory, publications>>

ListedNow == published.global \cup published.channel
NoteListed == listed' = [e \in Emotes |-> IF e \in ListedNow THEN clock ELSE listed[e]]

\* A request ends, answered or not, within REQUEST_TIMEOUT.
EmoteTick ==
  /\ clock < MaxClock
  /\ \A t \in Turns : Fetching(t) => clock - turn[t].asked < Timeout
  /\ clock' = clock + 1 /\ NoteListed
  /\ UNCHANGED <<knobs, published, cache, turn, begun, lastok, publications>>

\* The channel or 7TV itself adds and removes emotes; the dashboard edits the knobs.
EmotesChange ==
  /\ publications < MaxPublished /\ publications' = publications + 1
  /\ NoteListed
  /\ \/ \E s \in SUBSET Emotes : published' \in {[published EXCEPT !.global = s],
                                                 [published EXCEPT !.channel = s]}
        /\ UNCHANGED knobs
     \/ knobs' \in EmoteSettings /\ UNCHANGED published
  /\ UNCHANGED <<clock, cache, turn, begun, lastok>>

EmoteNext ==
  \/ \E t \in Turns : \/ \E chat \in Chats : prompt_block_for_turn(t, chat)
                      \/ prompt_emotes(t) \/ EmotesUsed(t)
                      \/ \E ok \in BOOLEAN : fetch_global_emotes(t, ok) \/ fetch_channel_emotes(t, ok)
  \/ EmoteTick \/ EmotesChange

EmoteSpec == EmoteInit /\ [][EmoteNext]_emoteVars

-----------------------------------------------------------------------------
(* However many turns ask at once and however the fetches end, a turn      *)
(* begins a refresh only when its interval has passed since the last one   *)
(* began: 7TV is not asked again and again while it is down.               *)
RefreshedOncePerInterval ==
  [][\A t \in Turns : ~Fetching(t) /\ Fetching(t)' /\ begun # NotYet =>
       clock - begun >= turn[t].caps.interval]_emoteVars

(* Unless the refresh before it failed, every emote a turn is shown was    *)
(* listed by 7TV within the interval of that turn.                         *)
ShownIsCurrent ==
  \A t \in Turns :
    turn[t].st = "shown" /\ turn[t].emotes # NoEmotes /\ turn[t].ok =>
      \A e \in ToSet(turn[t].emotes) :
        e \in ListedNow \/ listed[e] > turn[t].since - turn[t].caps.interval

(* The window shows nothing twice and no more than the cap; it holds the   *)
(* pins that exist first, then prefers what scores more, and is filled up  *)
(* to the baseline while there are emotes.  A search leaves out nothing    *)
(* that matches better than what it returns.                               *)
SoundlyChosen(emotes, caps, chat) ==
  LET all == ToSet(emotes)
      w == select_prompt_emotes(emotes, caps, chat)
      found == ToSet(select_search_emotes(emotes, chat.context))
      pins == all \cap ToSet(caps.pinned)
      better(a, b) == \/ chat.recent[a] > chat.recent[b]
                      \/ chat.recent[a] = chat.recent[b] /\ chat.context[a] > chat.context[b]
  IN /\ IsInjective(w) /\ ToSet(w) \subseteq all /\ Len(w) <= caps.max
     /\ pins \subseteq ToSet(w) \/ (Len(w) = caps.max /\ ToSet(w) \subseteq pins)
     /\ Len(w) >= caps.min \/ ToSet(w) = all
     /\ \A a \in all \ ToSet(w), b \in ToSet(w) \ pins : ~better(a, b)
     /\ Len(w) < caps.max => \A a \in all \ ToSet(w) : chat.recent[a] = 0 /\ chat.context[a] = 0
     /\ Cardinality(found) <= SearchLimit
     /\ \A a \in all \ found : \/ chat.context[a] = 0
                               \/ /\ Cardinality(found) = SearchLimit
                                  /\ \A b \in found : chat.context[b] >= chat.context[a]

WindowSound ==
  \A t \in Turns : turn[t].st = "shown" /\ turn[t].emotes # NoEmotes =>
    SoundlyChosen(turn[t].emotes, turn[t].caps, turn[t].chat)

(* What a turn is offered is current, and soundly chosen, however the      *)
(* turns, the refreshes of the others and the edits of 7TV interleave.     *)
OffersAreCurrent == ShownIsCurrent /\ WindowSound

=============================================================================
