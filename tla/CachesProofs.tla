---------------------------- MODULE CachesProofs ----------------------------
(***************************************************************************)
(* Proofs about what the process remembers of the model providers, of 7TV  *)
(* and of the web: the lists of models (ModelLists), the emotes and what   *)
(* of them a turn is offered (EmoteCatalog), the answers of the content    *)
(* tools with their caches (ContentTools), and the sessions of the         *)
(* dashboard (WebSessions).                                                *)
(***************************************************************************)
EXTENDS ModelLists, EmoteCatalog, ContentTools, WebSessions, FoldLemmas,
        FiniteSetTheorems, SequenceTheorems, WellFoundedInduction, TLAPS

-----------------------------------------------------------------------------
(* The lists of models *)

Known == Connections \cup {catalog_source, NoModels}
Instants == 0 .. MaxModelClock

\* What a caller may be at.
Begun == [st : {"asked", "fetch", "got"}, kind : {"list", "name"}, key : Connections,
          loaded : BOOLEAN]
AnsweredCalls == [st : {"answered"}, kind : {"list", "name"}, key : Connections, loaded : BOOLEAN,
         from : Known]

ModelsTyped ==
  /\ time \in Instants
  /\ conn \in Connections
  /\ catalog \in [entry_at : Instants \cup {NoModels}, failed_until : Nat \cup {NoModels}]
  /\ list \in [key : Connections \cup {NoModels}, at : Instants, from : Known]
  /\ call \in [Callers -> {Waiting} \cup Begun \cup AnsweredCalls]

\* What is listed for a connection is of where its models come from.
Right(key, from) == from = IF key \in OpenRouter THEN catalog_source ELSE key

ListIsRight == list.key # NoModels => Right(list.key, list.from)

\* What a caller was answered with.
CallIsRight(v) ==
  v.st = "answered" =>
    /\ v.from # NoModels /\ v.kind = "list" => Right(v.key, v.from)
    /\ v.loaded /\ (v.kind = "name" \/ v.key \in OpenRouter) => v.from # NoModels

CallsAreRight == \A c \in Callers : CallIsRight(call[c])

\* The catalog is never unloaded: who saw it loaded may count on it.
LoadedForGood == \A c \in Callers : call[c].st # "none" /\ call[c].loaded => CatalogLoaded

MInv == ModelsTyped /\ ListIsRight /\ CallsAreRight /\ LoadedForGood

LEMMA RightMeansMatching == MInv => ModelsMatchKey
  BY DEF MInv, ListIsRight, CallsAreRight, CallIsRight, Right, ModelsMatchKey, AnswersMatchKey,
         LoadedStaysUseful

LEMMA ModelsStart == ModelInit => MInv
  BY ModelsAssumption
  DEF ModelInit, MInv, ModelsTyped, ListIsRight, CallsAreRight, CallIsRight, LoadedForGood,
      Known, Instants, Waiting

\* A step moves one caller, and the catalog only forward.
LEMMA OneCallerMoves ==
  ASSUME MInv, NEW c \in Callers, NEW v \in {Waiting} \cup Begun \cup AnsweredCalls,
         call' = [call EXCEPT ![c] = v], CallIsRight(v),
         CatalogLoaded => CatalogLoaded',
         v.st # "none" /\ v.loaded => CatalogLoaded'
  PROVE  /\ call' \in [Callers -> {Waiting} \cup Begun \cup AnsweredCalls]
         /\ CallsAreRight' /\ LoadedForGood'
<1>1. call' \in [Callers -> {Waiting} \cup Begun \cup AnsweredCalls]
  BY DEF MInv, ModelsTyped
<1>2. \A d \in Callers : call'[d] = IF d = c THEN v ELSE call[d]
  BY DEF MInv, ModelsTyped
<1>3. CallsAreRight'
  BY <1>2 DEF MInv, CallsAreRight, CallIsRight
<1>4. LoadedForGood'
  BY <1>2 DEF MInv, LoadedForGood
<1> QED  BY <1>1, <1>3, <1>4

LEMMA GetModelsKeeps ==
  ASSUME MInv, NEW c \in Callers, get_ai_models(c)
  PROVE  MInv'
<1> DEFINE hit == list.key = conn /\ time - list.at <= CacheTtl
           v == IF hit
                THEN [st |-> "answered", kind |-> "list", key |-> conn, loaded |-> CatalogLoaded,
                      from |-> list.from]
                ELSE Ask("list")
<1>1. call' = [call EXCEPT ![c] = v] /\ UNCHANGED <<time, conn, catalog, list>>
  BY DEF get_ai_models
<1>2. v \in Begun \cup AnsweredCalls
  BY DEF MInv, ModelsTyped, Begun, AnsweredCalls, Ask, Known, CatalogLoaded
<1>3. v.loaded = CatalogLoaded
  BY DEF Ask
<1>4. CallIsRight(v)
  <2>1. CASE hit
    <3>1. Right(conn, list.from) /\ list.from # NoModels
      BY <2>1, ModelsAssumption DEF MInv, ModelsTyped, ListIsRight, Right
    <3> QED  BY <2>1, <3>1 DEF CallIsRight
  <2>2. CASE ~hit
    BY <2>2 DEF CallIsRight, Ask
  <2> QED  BY <2>1, <2>2
<1>5. CatalogLoaded' = CatalogLoaded
  BY <1>1 DEF CatalogLoaded
<1> HIDE DEF v, hit
<1>6. call' \in [Callers -> {Waiting} \cup Begun \cup AnsweredCalls] /\ CallsAreRight' /\ LoadedForGood'
  BY <1>1, <1>2, <1>3, <1>4, <1>5, OneCallerMoves
<1> QED  BY <1>1, <1>6 DEF MInv, ModelsTyped, ListIsRight

LEMMA DisplayNameKeeps ==
  ASSUME MInv, NEW c \in Callers, display_name(c)
  PROVE  MInv'
<1> DEFINE v == Ask("name")
<1>1. call' = [call EXCEPT ![c] = v] /\ UNCHANGED <<time, conn, catalog, list>>
  BY DEF display_name
<1>2. v \in Begun /\ v.loaded = CatalogLoaded /\ CallIsRight(v)
  BY DEF MInv, ModelsTyped, Begun, Ask, CatalogLoaded, CallIsRight
<1>3. CatalogLoaded' = CatalogLoaded
  BY <1>1 DEF CatalogLoaded
<1> HIDE DEF v
<1>4. call' \in [Callers -> {Waiting} \cup Begun \cup AnsweredCalls] /\ CallsAreRight' /\ LoadedForGood'
  BY <1>1, <1>2, <1>3, OneCallerMoves
<1> QED  BY <1>1, <1>4 DEF MInv, ModelsTyped, ListIsRight

\* Where a caller that has begun may go next.
LEMMA MovesOn ==
  ASSUME NEW r \in Begun, NEW st \in {"got", "fetch"}
  PROVE  /\ [r EXCEPT !.st = st] \in Begun
         /\ [r EXCEPT !.st = st].loaded = r.loaded
         /\ CallIsRight([r EXCEPT !.st = st])
  BY DEF Begun, CallIsRight

LEMMA Answers ==
  ASSUME MInv, NEW c \in Callers, call[c] \in Begun, NEW from \in Known, Answer(c, from),
         from # NoModels /\ call[c].kind = "list" => Right(call[c].key, from),
         from = NoModels => ~(call[c].loaded /\ UsesCatalog(c)),
         CatalogLoaded => CatalogLoaded'
  PROVE  call' \in [Callers -> {Waiting} \cup Begun \cup AnsweredCalls] /\ CallsAreRight' /\ LoadedForGood'
<1> DEFINE r == call[c]
           v == [st |-> "answered", kind |-> r.kind, key |-> r.key, loaded |-> r.loaded,
                 from |-> from]
<1>1. call' = [call EXCEPT ![c] = v]
  BY DEF Answer
<1>2. v \in AnsweredCalls
  BY DEF Begun, AnsweredCalls
<1>3. CallIsRight(v)
  BY DEF CallIsRight, UsesCatalog
<1>4. v.loaded => CatalogLoaded'
  BY DEF MInv, LoadedForGood, Begun
<1> HIDE DEF v
<1> QED  BY <1>1, <1>2, <1>3, <1>4, OneCallerMoves

LEMMA LoadKeeps ==
  ASSUME MInv, NEW c \in Callers, load_openrouter_catalog(c)
  PROVE  MInv'
<1>1. UNCHANGED <<time, conn, catalog, list>> /\ call[c].st = "asked"
  BY DEF load_openrouter_catalog
<1>2. CatalogLoaded' = CatalogLoaded
  BY <1>1 DEF CatalogLoaded
<1>3. call[c] \in Begun
  BY <1>1 DEF MInv, ModelsTyped, Waiting, AnsweredCalls
<1>4. CASE \E st \in {"got", "fetch"} : call' = [call EXCEPT ![c] = [@ EXCEPT !.st = st]]
  <2>1. PICK st \in {"got", "fetch"} : call' = [call EXCEPT ![c] = [call[c] EXCEPT !.st = st]]
    BY <1>4
  <2> DEFINE v == [call[c] EXCEPT !.st = st]
  <2>2. v \in Begun /\ v.loaded = call[c].loaded /\ CallIsRight(v)
    BY <1>3, MovesOn
  <2>3. call[c].loaded => CatalogLoaded
    BY <1>1 DEF MInv, LoadedForGood
  <2> HIDE DEF v
  <2>4. call' = [call EXCEPT ![c] = v]
    BY <2>1 DEF v
  <2> QED  BY <1>1, <1>2, <2>2, <2>3, <2>4, OneCallerMoves DEF MInv, ModelsTyped, ListIsRight
<1>5. CASE Answer(c, NoModels) /\ ~CatalogLoaded
  <2>1. ~call[c].loaded
    BY <1>1, <1>5 DEF MInv, LoadedForGood
  <2>2. NoModels \in Known
    BY DEF Known
  <2>3. call' \in [Callers -> {Waiting} \cup Begun \cup AnsweredCalls] /\ CallsAreRight' /\ LoadedForGood'
    BY <1>2, <1>3, <1>5, <2>1, <2>2, Answers
  <2> QED  BY <1>1, <2>3 DEF MInv, ModelsTyped, ListIsRight
<1> QED  BY <1>4, <1>5 DEF load_openrouter_catalog, FreshCatalog

LEMMA FetchKeeps ==
  ASSUME MInv, NEW c \in Callers, NEW ok \in BOOLEAN, fetch_openrouter_catalog(c, ok)
  PROVE  MInv'
<1>1. UNCHANGED <<time, conn, list>> /\ call[c].st = "fetch"
  BY DEF fetch_openrouter_catalog
<1>2. call[c] \in Begun
  BY <1>1 DEF MInv, ModelsTyped, Waiting, AnsweredCalls
<1>3. catalog' = IF ok THEN [entry_at |-> time, failed_until |-> NoModels] ELSE CatalogFailed
  BY DEF fetch_openrouter_catalog
<1>4. catalog' \in [entry_at : Instants \cup {NoModels}, failed_until : Nat \cup {NoModels}]
  BY <1>3, ModelsAssumption DEF MInv, ModelsTyped, CatalogFailed, Instants
<1>5. (ok \/ CatalogLoaded) => CatalogLoaded'
  BY <1>3, ModelsAssumption DEF MInv, ModelsTyped, CatalogLoaded, CatalogFailed, Instants
<1>6. CASE CatalogLoaded' /\ call' = [call EXCEPT ![c] = [@ EXCEPT !.st = "got"]]
  <2> DEFINE v == [call[c] EXCEPT !.st = "got"]
  <2>1. v \in Begun /\ CallIsRight(v)
    BY <1>2, MovesOn
  <2>2. call' = [call EXCEPT ![c] = v]
    BY <1>6
  <2> HIDE DEF v
  <2>3. call' \in [Callers -> {Waiting} \cup Begun \cup AnsweredCalls] /\ CallsAreRight' /\ LoadedForGood'
    BY <1>5, <1>6, <2>1, <2>2, OneCallerMoves
  <2> QED  BY <1>1, <1>4, <2>3 DEF MInv, ModelsTyped, ListIsRight
<1>7. CASE Answer(c, NoModels) /\ ~CatalogLoaded'
  <2>1. ~call[c].loaded
    BY <1>1, <1>5, <1>7 DEF MInv, LoadedForGood
  <2>2. NoModels \in Known
    BY DEF Known
  <2>3. call' \in [Callers -> {Waiting} \cup Begun \cup AnsweredCalls] /\ CallsAreRight' /\ LoadedForGood'
    BY <1>2, <1>5, <1>7, <2>1, <2>2, Answers
  <2> QED  BY <1>1, <1>4, <2>3 DEF MInv, ModelsTyped, ListIsRight
<1>8. \/ CatalogLoaded' /\ call' = [call EXCEPT ![c] = [@ EXCEPT !.st = "got"]]
      \/ Answer(c, NoModels) /\ ~CatalogLoaded'
  BY <1>5 DEF fetch_openrouter_catalog, CatalogLoaded
<1> QED  BY <1>6, <1>7, <1>8

\* The list is stored under the key that was read before the fetch, and both
\* sources of models answer for that key.
LEMMA ArriveKeeps ==
  ASSUME MInv, NEW c \in Callers, NEW ok \in BOOLEAN, ModelsArrive(c, ok)
  PROVE  MInv'
<1> DEFINE from == IF UsesCatalog(c) THEN catalog_source ELSE call[c].key
           given == IF ok THEN from ELSE NoModels
<1>1. UNCHANGED <<time, conn, catalog>> /\ call[c].st \in {"asked", "got"}
  BY DEF ModelsArrive
<1>2. CatalogLoaded' = CatalogLoaded
  BY <1>1 DEF CatalogLoaded
<1>3. call[c] \in Begun
  BY <1>1 DEF MInv, ModelsTyped, Waiting, AnsweredCalls
<1>4. given \in Known /\ from \in Known
  BY <1>3, ModelsAssumption DEF Begun, Known
<1>5. call[c].kind = "list" => Right(call[c].key, from)
  BY <1>3 DEF Right, UsesCatalog, Begun
<1>6. given = NoModels => ~UsesCatalog(c)
  BY ModelsAssumption DEF ModelsArrive
<1>7. Answer(c, given)
  BY DEF ModelsArrive
<1>8. given # NoModels => given = from
  OBVIOUS
<1>9. list' = IF ok /\ call[c].kind = "list" THEN put(call[c].key, from) ELSE list
  BY DEF ModelsArrive
<1>10. list' \in [key : Connections \cup {NoModels}, at : Instants, from : Known]
  BY <1>3, <1>4, <1>9 DEF MInv, ModelsTyped, put, Begun
<1>11. ListIsRight'
  BY <1>5, <1>9 DEF MInv, ListIsRight, put
<1> HIDE DEF from, given
<1>12. call' \in [Callers -> {Waiting} \cup Begun \cup AnsweredCalls] /\ CallsAreRight' /\ LoadedForGood'
  BY <1>2, <1>3, <1>4, <1>5, <1>6, <1>7, <1>8, Answers
<1> QED  BY <1>1, <1>10, <1>11, <1>12 DEF MInv, ModelsTyped

LEMMA ModelsNext == MInv /\ [ModelNext]_modelVars => MInv'
<1> SUFFICES ASSUME MInv, [ModelNext]_modelVars
             PROVE  MInv'
  OBVIOUS
<1>1. ASSUME NEW c \in Callers, ModelsUsed(c)
      PROVE  MInv'
  <2>1. CallIsRight(Waiting) /\ Waiting.st = "none"
    BY DEF CallIsRight, Waiting
  <2>2. CatalogLoaded' = CatalogLoaded /\ call' = [call EXCEPT ![c] = Waiting]
    BY <1>1 DEF ModelsUsed, CatalogLoaded
  <2>3. call' \in [Callers -> {Waiting} \cup Begun \cup AnsweredCalls] /\ CallsAreRight' /\ LoadedForGood'
    BY <2>1, <2>2, OneCallerMoves
  <2> QED  BY <1>1, <2>3 DEF ModelsUsed, MInv, ModelsTyped, ListIsRight
<1>2. CASE ModelTick \/ EditConnection \/ UNCHANGED modelVars
  BY <1>2, ModelsAssumption
  DEF ModelTick, EditConnection, modelVars, MInv, ModelsTyped, ListIsRight, CallsAreRight,
      LoadedForGood, CatalogLoaded, Instants
<1> QED  BY <1>1, <1>2, GetModelsKeeps, DisplayNameKeeps, LoadKeeps, FetchKeeps, ArriveKeeps
         DEF ModelNext

\* A list that is answered or kept is one of the connection it is given for,
\* although no lock is held over a fetch and the connection may be edited
\* meanwhile; and once the catalog was loaded nobody who asks gets an error.
THEOREM ModelsOfTheConnection == ModelSpec => []ModelsMatchKey
<1>1. ModelInit => MInv
  BY ModelsStart
<1>2. MInv /\ [ModelNext]_modelVars => MInv'
  BY ModelsNext
<1>3. MInv => ModelsMatchKey
  BY RightMeansMatching
<1> QED  BY <1>1, <1>2, <1>3, PTL DEF ModelSpec

-----------------------------------------------------------------------------
(* The refreshes of the emotes *)

EmoteCaps == [include_global : BOOLEAN, interval : Nat \ {0}, max : Nat, min : Nat,
              pinned : Seq(Emotes)]

\* A call that waits for the lock, and one that holds it.
WaitingTurns == [st : {"waiting"}, caps : EmoteCaps, chat : Chats]
FetchingTurns == [st : {"global", "channel"}, caps : EmoteCaps, chat : Chats, since : Nat,
                  asked : Nat, names : SUBSET Emotes, failed : BOOLEAN]

TurnIsTyped(v) ==
  /\ v.st = "waiting" => v \in WaitingTurns
  /\ v.st \in {"global", "channel"} => v \in FetchingTurns

EmotesTyped ==
  /\ clock \in Nat /\ begun \in Nat \cup {NotYet}
  /\ knobs \in EmoteCaps
  /\ published \in [global : SUBSET Emotes, channel : SUBSET Emotes]
  /\ DOMAIN turn = Turns /\ turn = [t \in Turns |-> turn[t]]
  /\ \A t \in Turns : TurnIsTyped(turn[t])

\* The lock is held by one, and a refresh is only of a glossary that has entries.
OneRefresh ==
  /\ \A t, u \in Turns : Fetching(t) /\ Fetching(u) => t = u
  /\ \A t \in Turns : Fetching(t) => Glossary # <<>>

\* The refresh under way began when the history says; and when none is, the
\* cache is stamped with the time the last one began, whatever came of it.
StampTellsBegin ==
  /\ \A t \in Turns : Fetching(t) => begun = turn[t].since
  /\ Glossary # <<>> /\ ~Locked => begun = cache.last_refresh

EInv == EmotesTyped /\ OneRefresh /\ StampTellsBegin

LEMMA EmotesStart == EmoteInit => EInv
  BY EmoteAssumption
  DEF EmoteInit, EInv, EmotesTyped, TurnIsTyped, OneRefresh, StampTellsBegin, EmoteCaps,
      NoCall, Fetching, Locked

\* What one call of a turn changes.
LEMMA OneTurnMoves ==
  ASSUME EInv, NEW t \in Turns, NEW v, turn' = [turn EXCEPT ![t] = v], TurnIsTyped(v)
  PROVE  /\ DOMAIN turn' = Turns /\ turn' = [u \in Turns |-> turn'[u]]
         /\ \A u \in Turns : TurnIsTyped(turn'[u])
         /\ turn'[t] = v
         /\ \A u \in Turns : u # t => turn'[u] = turn[u]
         /\ \A u \in Turns : u # t => Fetching(u)' = Fetching(u)
         /\ Fetching(t)' <=> v.st \in {"global", "channel"}
<1>1. DOMAIN turn' = Turns /\ turn' = [u \in Turns |-> turn'[u]]
  BY DEF EInv, EmotesTyped
<1>2. \A u \in Turns : turn'[u] = IF u = t THEN v ELSE turn[u]
  BY DEF EInv, EmotesTyped
<1> QED  BY <1>1, <1>2 DEF EInv, EmotesTyped, Fetching

\* A turn that neither takes nor holds the lock.
LEMMA OutsideTheLock ==
  ASSUME EInv, NEW t \in Turns, NEW v, turn' = [turn EXCEPT ![t] = v], TurnIsTyped(v),
         ~Fetching(t), v.st \notin {"global", "channel"},
         UNCHANGED <<clock, knobs, published, begun>>,
         Glossary # <<>> => cache' = cache
  PROVE  EInv' /\ \A u \in Turns : Fetching(u)' = Fetching(u)
<1>1. /\ DOMAIN turn' = Turns /\ turn' = [u \in Turns |-> turn'[u]]
      /\ \A u \in Turns : TurnIsTyped(turn'[u])
      /\ \A u \in Turns : u # t => turn'[u] = turn[u]
      /\ turn'[t] = v
  BY OneTurnMoves
<1>6. \A u \in Turns : Fetching(u)' = Fetching(u)
  BY <1>1 DEF Fetching
<1>2. EmotesTyped'
  BY <1>1 DEF EInv, EmotesTyped
<1>3. OneRefresh'
  BY <1>6 DEF EInv, OneRefresh
<1>4. Locked' = Locked
  BY <1>6 DEF Locked
<1>5. StampTellsBegin'
  BY <1>1, <1>4, <1>6 DEF EInv, StampTellsBegin
<1> QED  BY <1>2, <1>3, <1>5, <1>6 DEF EInv

LEMMA AskKeeps ==
  ASSUME EInv, NEW t \in Turns, NEW chat \in Chats, prompt_block_for_turn(t, chat)
  PROVE  EInv' /\ \A u \in Turns : Fetching(u)' = Fetching(u)
<1> DEFINE v == [st |-> "waiting", caps |-> live_caps, chat |-> chat]
<1>1. turn' = [turn EXCEPT ![t] = v] /\ turn[t].st = "none"
      /\ UNCHANGED <<clock, knobs, published, begun, cache>>
  BY DEF prompt_block_for_turn, emoteHistory
<1>2. live_caps \in EmoteCaps
  BY DEF EInv, EmotesTyped, EmoteCaps, live_caps
<1>3. TurnIsTyped(v) /\ v.st = "waiting"
  BY <1>2 DEF TurnIsTyped, WaitingTurns
<1>4. ~Fetching(t)
  BY <1>1 DEF Fetching
<1> HIDE DEF v
<1> QED  BY <1>1, <1>3, <1>4, OutsideTheLock

LEMMA UsedKeeps ==
  ASSUME EInv, NEW t \in Turns, EmotesUsed(t)
  PROVE  EInv' /\ \A u \in Turns : Fetching(u)' = Fetching(u)
<1>1. turn' = [turn EXCEPT ![t] = NoCall] /\ ~Fetching(t)
      /\ UNCHANGED <<clock, knobs, published, begun, cache>>
  BY DEF EmotesUsed, emoteHistory, Fetching
<1>2. TurnIsTyped(NoCall) /\ NoCall.st = "none"
  BY DEF TurnIsTyped, NoCall
<1> QED  BY <1>1, <1>2, OutsideTheLock

\* What is shown is of no call under way.
LEMMA ShownMoves ==
  ASSUME NEW t \in Turns, NEW emotes, NEW ok, Shown(t, emotes, ok)
  PROVE  \E v : turn' = [turn EXCEPT ![t] = v] /\ TurnIsTyped(v) /\ v.st = "shown"
<1> DEFINE v == [st |-> "shown", caps |-> turn[t].caps, chat |-> turn[t].chat, emotes |-> emotes,
                 since |-> IF turn[t].st = "waiting" THEN clock ELSE turn[t].since, ok |-> ok]
<1>1. turn' = [turn EXCEPT ![t] = v]
  BY DEF Shown
<1>2. TurnIsTyped(v) /\ v.st = "shown"
  BY DEF TurnIsTyped
<1> HIDE DEF v
<1> QED  BY <1>1, <1>2

\* A refresh begins only when no other is under way and the interval of the
\* turn has passed since the stamp.
LEMMA BeginKeeps ==
  ASSUME EInv, NEW t \in Turns, prompt_emotes(t)
  PROVE  /\ EInv'
         /\ \A u \in Turns : ~Fetching(u) /\ Fetching(u)' /\ begun # NotYet =>
              clock - begun >= turn[u].caps.interval
<1>1. turn[t].st = "waiting" /\ ~Locked /\ UNCHANGED <<clock, knobs, published>>
  BY DEF prompt_emotes
<1>2. ~Fetching(t) /\ turn[t] \in WaitingTurns
  BY <1>1 DEF Fetching, EInv, EmotesTyped, TurnIsTyped
<1>3. CASE \E emotes, ok : Shown(t, emotes, ok) /\ begun' = begun
                           /\ (Glossary # <<>> => cache' = cache)
  <2>1. PICK v : turn' = [turn EXCEPT ![t] = v] /\ TurnIsTyped(v) /\ v.st = "shown"
    BY <1>3, ShownMoves
  <2>2. EInv' /\ \A u \in Turns : Fetching(u)' = Fetching(u)
    BY <1>1, <1>2, <1>3, <2>1, OutsideTheLock
  <2> QED  BY <2>2
<1>4. CASE /\ ~Fresh(t) /\ Glossary # <<>> /\ begun' = clock /\ cache' = cache
           /\ turn' = [turn EXCEPT ![t] =
                        [st |-> IF turn[t].caps.include_global THEN "global" ELSE "channel",
                         caps |-> turn[t].caps, chat |-> turn[t].chat, since |-> clock,
                         asked |-> clock, names |-> {}, failed |-> FALSE]]
  <2> DEFINE v == [st |-> IF turn[t].caps.include_global THEN "global" ELSE "channel",
                   caps |-> turn[t].caps, chat |-> turn[t].chat, since |-> clock,
                   asked |-> clock, names |-> {}, failed |-> FALSE]
  <2>1. v \in FetchingTurns
    BY <1>2 DEF FetchingTurns, WaitingTurns, EInv, EmotesTyped
  <2>2. v.since = clock /\ v.st \in {"global", "channel"}
    OBVIOUS
  <2>3. TurnIsTyped(v)
    BY <2>1, <2>2 DEF TurnIsTyped
  <2>4. turn' = [turn EXCEPT ![t] = v]
    BY <1>4
  <2> HIDE DEF v
  <2>5. /\ DOMAIN turn' = Turns /\ turn' = [u \in Turns |-> turn'[u]]
        /\ \A u \in Turns : TurnIsTyped(turn'[u])
        /\ turn'[t] = v
        /\ \A u \in Turns : u # t => turn'[u] = turn[u]
        /\ \A u \in Turns : u # t => Fetching(u)' = Fetching(u)
        /\ Fetching(t)'
    BY <2>2, <2>3, <2>4, OneTurnMoves
  <2>6. EmotesTyped'
    BY <1>1, <1>4, <2>5 DEF EInv, EmotesTyped
  <2>7. \A u \in Turns : u # t => ~Fetching(u)'
    BY <1>1, <2>5 DEF Locked
  <2>8. OneRefresh'
    BY <1>4, <2>7 DEF OneRefresh
  <2>9. Locked'
    BY <2>5 DEF Locked
  <2>10. StampTellsBegin'
    BY <1>4, <2>2, <2>5, <2>7, <2>9 DEF StampTellsBegin
  <2>11. begun = cache.last_refresh
    BY <1>1, <1>4 DEF EInv, StampTellsBegin
  <2>12. begun # NotYet => ~(clock - begun < turn[t].caps.interval)
    BY <1>4, <2>11 DEF Fresh
  <2>13. ASSUME begun # NotYet
         PROVE  clock - begun >= turn[t].caps.interval
    BY <2>12, <2>13, <1>2 DEF WaitingTurns, EmoteCaps, EInv, EmotesTyped, NotYet
  <2> QED  BY <2>6, <2>7, <2>8, <2>10, <2>13 DEF EInv
<1> QED  BY <1>3, <1>4 DEF prompt_emotes, emoteHistory

LEMMA GlobalKeeps ==
  ASSUME EInv, NEW t \in Turns, NEW ok \in BOOLEAN, fetch_global_emotes(t, ok)
  PROVE  EInv' /\ \A u \in Turns : Fetching(u)' => Fetching(u)
<1> DEFINE names == IF ok THEN published.global ELSE {}
           v == [turn[t] EXCEPT !.st = "channel", !.asked = clock, !.failed = ~ok, !.names = names]
<1>1. /\ turn[t].st = "global" /\ Fetching(t)
      /\ turn' = [turn EXCEPT ![t] = v]
      /\ UNCHANGED <<clock, knobs, published, cache, begun>>
  BY DEF fetch_global_emotes, emoteHistory, Fetching
<1>2. turn[t] \in FetchingTurns
  BY <1>1 DEF EInv, EmotesTyped, TurnIsTyped
<1>3. names \in SUBSET Emotes /\ clock \in Nat
  BY DEF EInv, EmotesTyped
<1> HIDE DEF names
<1>4. v \in FetchingTurns /\ v.st = "channel" /\ v.since = turn[t].since
  BY <1>2, <1>3 DEF FetchingTurns
<1>5. TurnIsTyped(v)
  BY <1>4 DEF TurnIsTyped
<1> HIDE DEF v
<1>6. /\ DOMAIN turn' = Turns /\ turn' = [u \in Turns |-> turn'[u]]
      /\ \A u \in Turns : TurnIsTyped(turn'[u])
      /\ turn'[t] = v
      /\ \A u \in Turns : u # t => turn'[u] = turn[u]
      /\ \A u \in Turns : Fetching(u)' = Fetching(u)
  BY <1>1, <1>4, <1>5, OneTurnMoves DEF Fetching
<1>7. EmotesTyped'
  BY <1>1, <1>6 DEF EInv, EmotesTyped
<1>8. OneRefresh' /\ Locked' = Locked
  BY <1>6 DEF EInv, OneRefresh, Locked
<1>9. StampTellsBegin'
  BY <1>1, <1>4, <1>6, <1>8 DEF EInv, StampTellsBegin
<1> QED  BY <1>6, <1>7, <1>8, <1>9 DEF EInv

\* However it ends, a refresh is stamped with the time it began.
LEMMA ChannelKeeps ==
  ASSUME EInv, NEW t \in Turns, NEW ok \in BOOLEAN, fetch_channel_emotes(t, ok)
  PROVE  EInv' /\ \A u \in Turns : Fetching(u)' => Fetching(u)
<1>1. Fetching(t) /\ UNCHANGED <<clock, knobs, published, begun>>
  BY DEF fetch_channel_emotes, Fetching
<1>2. cache'.last_refresh = turn[t].since
  BY DEF fetch_channel_emotes, Refreshed, Stamped
<1>3. \E emotes, good : Shown(t, emotes, good)
  BY DEF fetch_channel_emotes, Refreshed
<1>4. PICK v : turn' = [turn EXCEPT ![t] = v] /\ TurnIsTyped(v) /\ v.st = "shown"
  BY <1>3, ShownMoves
<1>5. /\ DOMAIN turn' = Turns /\ turn' = [u \in Turns |-> turn'[u]]
      /\ \A u \in Turns : TurnIsTyped(turn'[u])
      /\ \A u \in Turns : u # t => turn'[u] = turn[u]
      /\ \A u \in Turns : u # t => Fetching(u)' = Fetching(u)
      /\ ~Fetching(t)'
  BY <1>4, OneTurnMoves
<1>6. EmotesTyped'
  BY <1>1, <1>5 DEF EInv, EmotesTyped
<1>7. OneRefresh'
  BY <1>5 DEF EInv, OneRefresh
<1>8. begun' = cache'.last_refresh
  BY <1>1, <1>2 DEF EInv, StampTellsBegin
<1>9. StampTellsBegin'
  BY <1>1, <1>5, <1>8 DEF EInv, StampTellsBegin
<1> QED  BY <1>5, <1>6, <1>7, <1>9 DEF EInv

LEMMA AroundKeeps ==
  ASSUME EInv, EmoteTick \/ EmotesChange \/ UNCHANGED emoteVars
  PROVE  EInv' /\ \A u \in Turns : Fetching(u)' = Fetching(u)
<1>1. UNCHANGED <<cache, turn, begun>>
  BY DEF EmoteTick, EmotesChange, emoteVars, emoteHistory
<1>2. \A u \in Turns : Fetching(u)' = Fetching(u)
  BY <1>1 DEF Fetching
<1>3. OneRefresh' /\ StampTellsBegin'
  BY <1>1, <1>2 DEF EInv, OneRefresh, StampTellsBegin, Locked
<1>4. clock' \in Nat
  BY DEF EmoteTick, EmotesChange, emoteVars, EInv, EmotesTyped
<1>5. knobs' \in EmoteCaps
  BY EmoteAssumption
  DEF EmoteTick, EmotesChange, emoteVars, EInv, EmotesTyped, EmoteCaps
<1>6. published' \in [global : SUBSET Emotes, channel : SUBSET Emotes]
  BY DEF EmoteTick, EmotesChange, emoteVars, EInv, EmotesTyped
<1>7. EmotesTyped'
  BY <1>1, <1>4, <1>5, <1>6 DEF EInv, EmotesTyped
<1> QED  BY <1>2, <1>3, <1>7 DEF EInv

LEMMA EmotesNext ==
  ASSUME EInv, [EmoteNext]_emoteVars
  PROVE  /\ EInv'
         /\ \A t \in Turns : ~Fetching(t) /\ Fetching(t)' /\ begun # NotYet =>
              clock - begun >= turn[t].caps.interval
  BY AskKeeps, UsedKeeps, BeginKeeps, GlobalKeeps, ChannelKeeps, AroundKeeps DEF EmoteNext

\* 7TV is asked at most once per interval, however many turns want emotes and
\* however the requests end: also a refresh that failed counts.
THEOREM OncePerInterval == EmoteSpec => RefreshedOncePerInterval
<1>1. EmoteInit => EInv
  BY EmotesStart
<1>2. EInv /\ [EmoteNext]_emoteVars => EInv'
  BY EmotesNext
<1>3. EInv /\ [EmoteNext]_emoteVars =>
        [\A t \in Turns : ~Fetching(t) /\ Fetching(t)' /\ begun # NotYet =>
           clock - begun >= turn[t].caps.interval]_emoteVars
  BY EmotesNext
<1> QED  BY <1>1, <1>2, <1>3, PTL DEF EmoteSpec, RefreshedOncePerInterval

-----------------------------------------------------------------------------
(* The window of a turn *)

\* A list that names nothing twice.
Once(seq) == \A i, j \in DOMAIN seq : seq[i] = seq[j] => i = j

\* What the first n of a layer add to what was picked: it stays within the room,
\* and what is left out had no room, and comes after everything that was added.
PickedUpTo(r, picked, layer, available, room, n) ==
  /\ Once(r) /\ ToSet(picked) \subseteq ToSet(r)
  /\ \A x \in ToSet(r) \ ToSet(picked) : x \in available /\ \E j \in 1..n : layer[j] = x
  /\ Len(r) >= Len(picked) /\ (Len(r) <= room \/ r = picked)
  /\ Len(r) = Len(picked) => r = picked
  /\ \A i \in 1..n : layer[i] \in available \ ToSet(r) =>
       /\ Len(r) >= room
       /\ \A x \in ToSet(r) \ ToSet(picked) : \E j \in 1..n : j < i /\ layer[j] = x

LEMMA AppendOnce ==
  ASSUME NEW S, NEW r \in Seq(S), NEW e \in S, Once(r), e \notin ToSet(r)
  PROVE  /\ Append(r, e) \in Seq(S) /\ Once(Append(r, e)) /\ Len(Append(r, e)) = Len(r) + 1
         /\ ToSet(Append(r, e)) = ToSet(r) \cup {e}
<1> PICK q : q = Append(r, e)
  OBVIOUS
<1> PICK n \in Nat : n = Len(r)
  OBVIOUS
<1>1. /\ DOMAIN r = 1..n /\ q \in Seq(S) /\ Len(q) = n + 1 /\ DOMAIN q = 1..(n + 1)
      /\ q[n + 1] = e /\ \A i \in 1..n : q[i] = r[i]
  OBVIOUS
<1>2. /\ \A i \in 1..(n + 1) : i \in 1..n \/ i = n + 1
      /\ n + 1 \in 1..(n + 1) /\ \A i \in 1..n : i \in 1..(n + 1)
  OBVIOUS
<1>3. \A i \in 1..n : r[i] # e
  BY <1>1 DEF ToSet
<1>4. Once(q)
  BY <1>1, <1>2, <1>3 DEF Once
<1>5. ToSet(q) = ToSet(r) \cup {e}
  BY <1>1, <1>2 DEF ToSet
<1> QED  BY <1>1, <1>4, <1>5

LEMMA PickIs ==
  ASSUME NEW S, NEW picked \in Seq(S), Once(picked), NEW layer \in Seq(S), NEW available,
         NEW room \in Nat
  PROVE  /\ Pick(picked, layer, available, room) \in Seq(S)
         /\ PickedUpTo(Pick(picked, layer, available, room), picked, layer, available, room,
                       Len(layer))
<1> DEFINE Step(seq, e) == IF e \in available \ ToSet(seq) /\ Len(seq) < room
                           THEN Append(seq, e) ELSE seq
           P(f) == f = [s \in SUBSET DOMAIN layer |->
                          IF s = {} THEN picked ELSE Step(f[s \ {Max(s)}], layer[Max(s)])]
           g == CHOOSE f : P(f)
           Good(r, n) == r \in Seq(S) /\ PickedUpTo(r, picked, layer, available, room, n)
           R == {n \in Nat : n <= Len(layer) => Good(g[1..n], n)}
<1>1. PICK k \in Nat : k = Len(layer) /\ DOMAIN layer = 1..k /\ \A i \in 1..k : layer[i] \in S
  OBVIOUS
<1>2. \A seq \in Seq(S), i \in 1..k : Step(seq, layer[i]) \in Seq(S)
  BY <1>1
<1>3. P(g)
  <2> DEFINE F == [p \in Seq(S) \X (1..k) |-> Step(p[1], layer[p[2]])]
  <2>1. F \in [Seq(S) \X (1..k) -> Seq(S)]
    BY <1>2
  <2>2. PICK f \in [SUBSET (1..k) -> Seq(S)] : FoldsBy(f, F, picked, k)
    <3> HIDE DEF F
    <3> QED  BY <2>1, FoldExists
  <2>3. ASSUME NEW s \in SUBSET (1..k), s # {}
        PROVE  F[<<f[s \ {Max(s)}], Max(s)>>] = Step(f[s \ {Max(s)}], layer[Max(s)])
    <3>1. Max(s) \in 1..k
      BY <2>3, <1>1, MaxOfPlaces
    <3>2. f[s \ {Max(s)}] \in Seq(S)
      OBVIOUS
    <3> QED  BY <3>1, <3>2
  <2>4. P(f)
    <3> HIDE DEF F, Step
    <3> QED  BY <1>1, <2>2, <2>3 DEF FoldsBy
  <2> HIDE DEF P
  <2> QED  BY <2>4
<1>4. Pick(picked, layer, available, room) = g[1..k]
  BY <1>1, Zenon DEF Pick, FoldLeft, MapThenFoldSet
<1> HIDE DEF g
<1>5. g[{}] = picked
  BY <1>3
<1>6. ASSUME NEW n \in Nat, n + 1 <= k
      PROVE  g[1..(n + 1)] = Step(g[1..n], layer[n + 1])
  <2>1. PICK s : s = 1..(n + 1)
    OBVIOUS
  <2>2. s \in SUBSET DOMAIN layer /\ s # {} /\ Max(s) = n + 1 /\ s \ {n + 1} = 1..n
    BY <1>1, <1>6, <2>1, UpToNext
  <2>3. g[s] = Step(g[s \ {Max(s)}], layer[Max(s)])
    <3> HIDE DEF Step
    <3> QED  BY <1>3, <2>2
  <2> HIDE DEF Step
  <2> QED  BY <2>1, <2>2, <2>3
<1>7. Good(g[1..0], 0)
  <2>1. 1..0 = {}
    OBVIOUS
  <2> QED  BY <1>5, <2>1 DEF PickedUpTo
<1>8. ASSUME NEW n \in Nat, n + 1 <= k, Good(g[1..n], n)
      PROVE  Good(g[1..(n + 1)], n + 1)
  <2> PICK r, e : r = g[1..n] /\ e = layer[n + 1]
    OBVIOUS
  <2>1. r \in Seq(S) /\ e \in S /\ PickedUpTo(r, picked, layer, available, room, n)
    BY <1>1, <1>8
  <2>2. /\ n + 1 \in 1..(n + 1) /\ \A i \in 1..n : i \in 1..(n + 1) /\ i < n + 1
        /\ \A i \in 1..(n + 1) : i \in 1..n \/ i = n + 1
    OBVIOUS
  <2>3. CASE e \in available \ ToSet(r) /\ Len(r) < room
    <3> PICK q : q = Append(r, e)
      OBVIOUS
    <3>1. g[1..(n + 1)] = q
      BY <1>6, <1>8, <2>3
    <3>2. q \in Seq(S) /\ Once(q) /\ Len(q) = Len(r) + 1 /\ ToSet(q) = ToSet(r) \cup {e}
      <4>1. r \in Seq(S) /\ e \in S /\ Once(r) /\ e \notin ToSet(r) /\ q = Append(r, e)
        BY <2>1, <2>3 DEF PickedUpTo
      <4> QED  BY ONLY <4>1, AppendOnce
    <3>3. Len(r) \in Nat /\ Len(picked) \in Nat /\ Len(picked) <= Len(r)
      BY <2>1 DEF PickedUpTo
    <3>4. \A i \in 1..n : layer[i] \notin available \ ToSet(r)
      BY <2>1, <2>3, <3>3 DEF PickedUpTo
    <3>5. PickedUpTo(q, picked, layer, available, room, n + 1)
      <4>1. \A i \in 1..(n + 1) : layer[i] \notin available \ ToSet(q)
        BY <2>2, <3>2, <3>4
      <4>2. \A x \in ToSet(q) \ ToSet(picked) : x \in available /\ \E j \in 1..(n + 1) : layer[j] = x
        BY <2>1, <2>2, <2>3, <3>2 DEF PickedUpTo
      <4>3. Len(q) >= Len(picked) /\ Len(q) <= room /\ Len(q) # Len(picked)
        BY <2>3, <3>2, <3>3
      <4>4. ToSet(picked) \subseteq ToSet(q)
        BY <2>1, <3>2 DEF PickedUpTo
      <4> QED  BY <3>2, <4>1, <4>2, <4>3, <4>4 DEF PickedUpTo
    <3> QED  BY <3>1, <3>2, <3>5
  <2>4. CASE ~(e \in available \ ToSet(r) /\ Len(r) < room)
    <3>1. g[1..(n + 1)] = r
      BY <1>6, <1>8, <2>4
    <3>2. Len(r) \in Nat
      BY <2>1
    <3>3. \A x \in ToSet(r) \ ToSet(picked) : x \in available /\ \E j \in 1..(n + 1) : layer[j] = x
      BY <2>1, <2>2 DEF PickedUpTo
    <3>4. ASSUME NEW i \in 1..(n + 1), layer[i] \in available \ ToSet(r)
          PROVE  /\ Len(r) >= room
                 /\ \A x \in ToSet(r) \ ToSet(picked) : \E j \in 1..(n + 1) : j < i /\ layer[j] = x
      <4>1. CASE i \in 1..n
        BY <2>1, <2>2, <3>4, <4>1 DEF PickedUpTo
      <4>2. CASE i = n + 1
        <5>1. Len(r) >= room
          BY <2>4, <3>2, <3>4, <4>2
        <5> QED  BY <2>1, <2>2, <4>2, <5>1 DEF PickedUpTo
      <4> QED  BY <2>2, <4>1, <4>2
    <3>5. PickedUpTo(r, picked, layer, available, room, n + 1)
      BY <2>1, <3>3, <3>4 DEF PickedUpTo
    <3> QED  BY <2>1, <3>1, <3>5
  <2> QED  BY <2>3, <2>4
<1>9. Good(g[1..k], k)
  <2> HIDE DEF Good
  <2>1. 0 \in R
    BY <1>7
  <2>2. ASSUME NEW n \in Nat, n \in R
        PROVE  n + 1 \in R
    BY <1>1, <1>8, <2>2
  <2>3. k \in R
    <3> HIDE DEF R
    <3> QED  BY <2>1, <2>2, UpToAll
  <2> QED  BY <1>1, <2>3
<1> QED  BY <1>1, <1>4, <1>9

StrictOrder(S, rel) ==
  /\ \A a, b, c \in S : <<a, b>> \in rel /\ <<b, c>> \in rel => <<a, c>> \in rel
  /\ \A a \in S : <<a, a>> \notin rel
  /\ \A a, b \in S : a = b \/ <<a, b>> \in rel \/ <<b, a>> \in rel

\* The elements before one in a finite set with a strict total order tell its place.
LEMMA InOrderIs ==
  ASSUME NEW S, IsFiniteSet(S), NEW before, StrictOrder(S, before)
  PROVE  /\ InOrder(S, before) \in Seq(S) /\ ToSet(InOrder(S, before)) = S
         /\ \A i, j \in DOMAIN InOrder(S, before) :
              i < j => <<InOrder(S, before)[i], InOrder(S, before)[j]>> \in before
<1> DEFINE Below(e) == {b \in S : <<b, e>> \in before}
           Ahead(e) == Cardinality(Below(e))
<1>1. PICK n \in Nat : n = Cardinality(S)
  BY FS_CardinalityType
<1>2. ASSUME NEW e \in S
      PROVE  IsFiniteSet(Below(e)) /\ Ahead(e) \in Nat /\ Ahead(e) < n
  <2>1. Below(e) \in SUBSET S /\ e \notin Below(e)
    BY DEF StrictOrder
  <2> HIDE DEF Below
  <2>2. /\ IsFiniteSet(Below(e)) /\ Cardinality(Below(e)) <= n
        /\ (n = Cardinality(Below(e)) => S = Below(e))
    BY <1>1, <2>1, FS_Subset
  <2>3. Ahead(e) \in Nat
    BY <2>2, FS_CardinalityType
  <2> HIDE DEF Ahead
  <2>4. Ahead(e) <= n /\ Ahead(e) # n
    BY <2>1, <2>2 DEF Ahead
  <2> QED  BY <1>1, <2>2, <2>3, <2>4
<1>3. ASSUME NEW a \in S, NEW b \in S, <<a, b>> \in before
      PROVE  Ahead(a) < Ahead(b)
  <2>1. Below(a) \in SUBSET Below(b) /\ a \in Below(b) /\ a \notin Below(a)
    BY <1>3 DEF StrictOrder
  <2> HIDE DEF Below
  <2>2. /\ Cardinality(Below(a)) <= Cardinality(Below(b))
        /\ (Cardinality(Below(b)) = Cardinality(Below(a)) => Below(b) = Below(a))
    BY <1>2, <2>1, FS_Subset
  <2>3. Ahead(a) \in Nat /\ Ahead(b) \in Nat
    BY <1>2
  <2>4. Ahead(a) <= Ahead(b) /\ Ahead(a) # Ahead(b)
    BY <2>1, <2>2
  <2> HIDE DEF Ahead
  <2> QED  BY <2>3, <2>4
<1> HIDE DEF Ahead, Below
<1>4. PICK rank \in [S -> Nat] : \A e \in S : rank[e] = Ahead(e)
  <2>1. [e \in S |-> Ahead(e)] \in [S -> Nat]
    BY <1>2
  <2> QED  BY <2>1, Zenon
<1>5. \A e \in S : rank[e] \in Nat /\ rank[e] < n
  BY <1>2, <1>4
<1>6. \A a, b \in S : <<a, b>> \in before => rank[a] < rank[b]
  BY <1>3, <1>4
<1>7. \A a, b \in S : rank[a] = rank[b] => a = b
  <2> SUFFICES ASSUME NEW a \in S, NEW b \in S, rank[a] = rank[b], a # b
               PROVE  FALSE
    OBVIOUS
  <2>1. rank[a] < rank[b] \/ rank[b] < rank[a]
    BY <1>6 DEF StrictOrder
  <2> QED  BY <1>5, <2>1
<1>8. \A i \in 1..n : \E e \in S : rank[e] = i - 1
  <2> DEFINE f == [e \in S |-> rank[e] + 1]
  <2>1. f \in [S -> 1..n]
    BY <1>5
  <2>2. \A a, b \in S : f[a] = f[b] => a = b
    BY <1>5, <1>7
  <2>3. f \in Injection(S, 1..n)
    BY <2>1, <2>2 DEF Injection, IsInjective
  <2>4. IsFiniteSet(1..n) /\ Cardinality(1..n) = n
    BY <1>1, FS_Interval
  <2> HIDE DEF f
  <2>5. f \in Surjection(S, 1..n)
    BY <1>1, <2>3, <2>4, FS_Injection
  <2>6. \A i \in 1..n : \E e \in S : f[e] = i
    BY <2>5 DEF Surjection
  <2>7. \A e \in S : f[e] = rank[e] + 1
    BY DEF f
  <2> SUFFICES ASSUME NEW i \in 1..n
               PROVE  \E e \in S : rank[e] = i - 1
    OBVIOUS
  <2>8. PICK e \in S : f[e] = i
    BY <2>6
  <2> QED  BY <1>5, <2>7, <2>8
<1>9. PICK r : r = InOrder(S, before)
  OBVIOUS
<1>10. r = [i \in 1..n |-> CHOOSE e \in S : rank[e] = i - 1]
  <2>1. rank = [e \in S |-> Cardinality({b \in S : <<b, e>> \in before})]
    BY <1>4 DEF Ahead, Below
  <2>2. r = [i \in 1..Cardinality(S) |-> CHOOSE e \in S :
               [d \in S |-> Cardinality({b \in S : <<b, d>> \in before})][e] = i - 1]
    BY <1>9 DEF InOrder
  <2> QED  BY <1>1, <2>1, <2>2
<1>11. \A i \in 1..n : r[i] \in S /\ rank[r[i]] = i - 1
  BY <1>8, <1>10
<1>12. DOMAIN r = 1..n /\ r \in Seq(S)
  BY <1>1, <1>10, <1>11
<1>13. \A e \in S : \E i \in 1..n : r[i] = e
  <2> SUFFICES ASSUME NEW e \in S
               PROVE  \E i \in 1..n : r[i] = e
    OBVIOUS
  <2>1. rank[e] + 1 \in 1..n /\ (rank[e] + 1) - 1 = rank[e]
    BY <1>1, <1>5
  <2> QED  BY <1>7, <1>11, <2>1
<1>14. ASSUME NEW i \in 1..n, NEW j \in 1..n, i < j
       PROVE  <<r[i], r[j]>> \in before
  <2>1. rank[r[i]] < rank[r[j]] /\ rank[r[i]] \in Nat /\ rank[r[j]] \in Nat
    BY <1>5, <1>11, <1>14
  <2>2. ~(rank[r[j]] < rank[r[i]]) /\ r[i] # r[j]
    BY <2>1
  <2> QED  BY <1>6, <1>11, <2>2 DEF StrictOrder
<1>15. ToSet(r) = S
  BY <1>11, <1>12, <1>13 DEF ToSet
<1> QED  BY <1>9, <1>12, <1>14, <1>15

ByScores(S, first, second, place, rel) ==
  \A a, b \in S : <<a, b>> \in rel <=>
    \/ first[a] > first[b]
    \/ first[a] = first[b] /\ second[a] > second[b]
    \/ first[a] = first[b] /\ second[a] = second[b] /\ place[a] < place[b]

AgreesWith(S, first, second, rel) ==
  \A a, b \in S : <<a, b>> \in rel =>
    first[a] > first[b] \/ (first[a] = first[b] /\ second[a] >= second[b])

\* By a score, by another and by the place: a strict total order.
LEMMA ScoresOrder ==
  ASSUME NEW S, NEW first, NEW second, NEW place, NEW rel, ByScores(S, first, second, place, rel),
         \A e \in S : first[e] \in Nat /\ second[e] \in Nat /\ place[e] \in Nat,
         \A a, b \in S : place[a] = place[b] => a = b
  PROVE  StrictOrder(S, rel) /\ AgreesWith(S, first, second, rel)
<1>1. \A a, b, c \in S : <<a, b>> \in rel /\ <<b, c>> \in rel => <<a, c>> \in rel
  BY DEF ByScores
<1>2. \A a \in S : <<a, a>> \notin rel
  BY DEF ByScores
<1>3. ASSUME NEW a \in S, NEW b \in S, a # b
      PROVE  <<a, b>> \in rel \/ <<b, a>> \in rel
  <2>1. place[a] # place[b] /\ place[a] \in Nat /\ place[b] \in Nat
    BY <1>3
  <2>2. first[a] \in Nat /\ first[b] \in Nat /\ second[a] \in Nat /\ second[b] \in Nat
    OBVIOUS
  <2> QED  BY <2>1, <2>2 DEF ByScores
<1>4. AgreesWith(S, first, second, rel)
  BY DEF ByScores, AgreesWith
<1> QED  BY <1>1, <1>2, <1>3, <1>4 DEF StrictOrder

\* What scores, the higher scores first.
Ranked(s, all, first, second) ==
  /\ s \in Seq(Emotes)
  /\ ToSet(s) = {e \in all : first[e] > 0 \/ second[e] > 0}
  /\ \A i, j \in DOMAIN s : i < j =>
       first[s[i]] > first[s[j]] \/ (first[s[i]] = first[s[j]] /\ second[s[i]] >= second[s[j]])

LEMMA ByScoreIs ==
  ASSUME NEW emotes \in Seq(Emotes), NEW first \in [Emotes -> Nat], NEW second \in [Emotes -> Nat]
  PROVE  Ranked(ByScore(emotes, first, second), ToSet(emotes), first, second)
<1> DEFINE scoring == {e \in ToSet(emotes) : first[e] > 0 \/ second[e] > 0}
           index(e) == CHOOSE i \in DOMAIN emotes : emotes[i] = e
           before(a, b) == \/ first[a] > first[b]
                           \/ first[a] = first[b] /\ second[a] > second[b]
                           \/ first[a] = first[b] /\ second[a] = second[b] /\ index(a) < index(b)
           R == {p \in scoring \X scoring : before(p[1], p[2])}
<1>1. PICK n \in Nat : DOMAIN emotes = 1..n /\ \A i \in 1..n : emotes[i] \in Emotes
  OBVIOUS
<1>2. PICK S : S = scoring
  OBVIOUS
<1>3. ByScore(emotes, first, second) = InOrder(S, R)
  BY <1>2 DEF ByScore, Scores
<1>4. IsFiniteSet(S) /\ S \in SUBSET Emotes
  <2>1. [i \in 1..n |-> emotes[i]] \in Surjection(1..n, ToSet(emotes))
    BY <1>1 DEF Surjection, ToSet
  <2>2. IsFiniteSet(1..n)
    BY FS_Interval
  <2>3. IsFiniteSet(ToSet(emotes))
    BY <2>1, <2>2, FS_Surjection
  <2>4. S \in SUBSET ToSet(emotes)
    BY <1>2
  <2>5. ToSet(emotes) \subseteq Emotes
    BY <1>1 DEF ToSet
  <2> QED  BY <2>3, <2>4, <2>5, FS_Subset
<1>5. PICK pos \in [S -> Nat] : \A e \in S : pos[e] = index(e) /\ emotes[pos[e]] = e
  <2>1. \A e \in S : index(e) \in Nat /\ emotes[index(e)] = e
    BY <1>1, <1>2 DEF ToSet
  <2> HIDE DEF index
  <2>2. [e \in S |-> index(e)] \in [S -> Nat]
    BY <2>1
  <2> QED  BY <2>1, <2>2
<1>6. PICK rel : rel = R
  OBVIOUS
<1>7. ByScores(S, first, second, pos, rel)
  <2> SUFFICES ASSUME NEW a \in S, NEW b \in S
               PROVE  <<a, b>> \in rel <=>
                        \/ first[a] > first[b]
                        \/ first[a] = first[b] /\ second[a] > second[b]
                        \/ first[a] = first[b] /\ second[a] = second[b] /\ pos[a] < pos[b]
    BY DEF ByScores
  <2>1. index(a) = pos[a] /\ index(b) = pos[b]
    BY <1>5
  <2> HIDE DEF index
  <2>2. <<a, b>> \in rel <=> before(a, b)
    BY <1>2, <1>6
  <2> QED  BY <2>1, <2>2
<1>8. \A e \in S : first[e] \in Nat /\ second[e] \in Nat /\ pos[e] \in Nat
  BY <1>4
<1>9. StrictOrder(S, rel) /\ AgreesWith(S, first, second, rel)
  <2>1. \A a, b \in S : pos[a] = pos[b] => a = b
    BY <1>5
  <2> QED  BY ONLY <1>7, <1>8, <2>1, ScoresOrder
<1>10. PICK s : s = ByScore(emotes, first, second)
  OBVIOUS
<1>11. s \in Seq(S) /\ ToSet(s) = S /\ \A i, j \in DOMAIN s : i < j => <<s[i], s[j]>> \in rel
  <2>1. s = InOrder(S, rel)
    BY <1>3, <1>6, <1>10
  <2> QED  BY ONLY <1>4, <1>9, <2>1, InOrderIs
<1>12. s \in Seq(Emotes)
  BY <1>4, <1>11
<1>13. ASSUME NEW i \in DOMAIN s, NEW j \in DOMAIN s, i < j
       PROVE  \/ first[s[i]] > first[s[j]]
              \/ first[s[i]] = first[s[j]] /\ second[s[i]] >= second[s[j]]
  <2>1. s[i] \in S /\ s[j] \in S /\ <<s[i], s[j]>> \in rel
    BY <1>11, <1>13
  <2> QED  BY <1>9, <2>1 DEF AgreesWith
<1> HIDE DEF R
<1> QED  BY <1>2, <1>10, <1>11, <1>12, <1>13 DEF Ranked

\* The three layers together, and the search.
LEMMA WindowIs ==
  ASSUME NEW emotes \in Seq(Emotes), Once(emotes), NEW chat \in Chats, NEW caps,
         caps.max \in Nat, caps.min \in Nat, caps.min <= caps.max, caps.pinned \in Seq(Emotes)
  PROVE  SoundlyChosen(emotes, caps, chat)
<1>1. PICK recent, context : recent = chat.recent /\ context = chat.context
  OBVIOUS
<1>2. recent \in [Emotes -> Nat] /\ context \in [Emotes -> Nat]
  BY <1>1, EmoteAssumption
<1>3. PICK all, max, min, pinned : /\ all = ToSet(emotes) /\ max = caps.max
                                   /\ min = caps.min /\ pinned = caps.pinned
  OBVIOUS
<1>4. all \subseteq Emotes /\ \A e \in all : recent[e] \in Nat /\ context[e] \in Nat
  BY <1>2, <1>3 DEF ToSet
<1>5. PICK s : s = ByScore(emotes, recent, context)
  OBVIOUS
<1>6. /\ s \in Seq(Emotes) /\ ToSet(s) = {e \in all : recent[e] > 0 \/ context[e] > 0}
      /\ \A i, j \in DOMAIN s : i < j =>
           recent[s[i]] > recent[s[j]] \/ (recent[s[i]] = recent[s[j]] /\ context[s[i]] >= context[s[j]])
  <2>1. Ranked(s, all, recent, context)
    BY <1>2, <1>3, <1>5, ByScoreIs
  <2> QED  BY <2>1 DEF Ranked
<1>7. PICK pins : pins = Pick(<<>>, pinned, all, max)
  OBVIOUS
<1>8. pins \in Seq(Emotes) /\ PickedUpTo(pins, <<>>, pinned, all, max, Len(pinned))
  <2>1. <<>> \in Seq(Emotes) /\ Once(<<>>) /\ pinned \in Seq(Emotes) /\ max \in Nat
    BY <1>3 DEF Once
  <2> QED  BY ONLY <1>7, <2>1, PickIs
<1>9. PICK scored : scored = Pick(pins, s, all, max)
  OBVIOUS
<1>10. scored \in Seq(Emotes) /\ PickedUpTo(scored, pins, s, all, max, Len(s))
  <2>1. Once(pins) /\ max \in Nat
    BY <1>3, <1>8 DEF PickedUpTo
  <2> QED  BY ONLY <1>6, <1>8, <1>9, <2>1, PickIs
<1>11. PICK w : w = Pick(scored, emotes, all, min)
  OBVIOUS
<1>12. w \in Seq(Emotes) /\ PickedUpTo(w, scored, emotes, all, min, Len(emotes))
  <2>1. Once(scored) /\ min \in Nat /\ emotes \in Seq(Emotes)
    BY <1>3, <1>10 DEF PickedUpTo
  <2> QED  BY ONLY <1>10, <1>11, <2>1, PickIs
<1>13. w = select_prompt_emotes(emotes, caps, chat)
  BY <1>1, <1>3, <1>5, <1>7, <1>9, <1>11 DEF select_prompt_emotes
<1>14. /\ Len(pins) \in Nat /\ Len(scored) \in Nat /\ Len(w) \in Nat /\ max \in Nat /\ min \in Nat
       /\ min <= max /\ Len(pins) <= max /\ Len(scored) <= max /\ Len(w) <= max
       /\ Len(pins) <= Len(scored) /\ Len(scored) <= Len(w)
  <2>1. /\ Len(pins) \in Nat /\ Len(scored) \in Nat /\ Len(w) \in Nat
        /\ max \in Nat /\ min \in Nat /\ min <= max
    BY <1>3, <1>8, <1>10, <1>12
  <2>2. Len(pins) <= max
    BY <1>8, <2>1 DEF PickedUpTo
  <2>3. Len(scored) <= max /\ Len(pins) <= Len(scored)
    BY <1>10, <2>1, <2>2 DEF PickedUpTo
  <2>4. Len(w) <= max /\ Len(scored) <= Len(w)
    BY <1>12, <2>1, <2>3 DEF PickedUpTo
  <2> QED  BY <2>1, <2>2, <2>3, <2>4
<1>15. /\ ToSet(pins) \subseteq all \cap ToSet(pinned)
       /\ ToSet(scored) \subseteq all /\ ToSet(w) \subseteq all
       /\ ToSet(pins) \subseteq ToSet(scored) /\ ToSet(scored) \subseteq ToSet(w)
  <2>1. ToSet(<<>>) = {} /\ \A j \in 1..Len(pinned) : pinned[j] \in ToSet(pinned)
    BY <1>3 DEF ToSet
  <2>2. ToSet(pins) \subseteq all \cap ToSet(pinned)
    BY <1>8, <2>1 DEF PickedUpTo
  <2>3. ToSet(scored) \subseteq all /\ ToSet(pins) \subseteq ToSet(scored)
    BY <1>10, <2>2 DEF PickedUpTo
  <2> QED  BY <1>12, <2>2, <2>3 DEF PickedUpTo
<1>16. \/ all \cap ToSet(pinned) \subseteq ToSet(w)
       \/ Len(w) = max /\ ToSet(w) \subseteq all \cap ToSet(pinned)
  <2>1. CASE all \cap ToSet(pinned) \subseteq ToSet(pins)
    BY <1>15, <2>1
  <2>2. CASE ~(all \cap ToSet(pinned) \subseteq ToSet(pins))
    <3>1. PICK e \in all \cap ToSet(pinned) : e \notin ToSet(pins)
      BY <2>2
    <3>2. PICK i \in 1..Len(pinned) : pinned[i] = e
      BY <1>3, <3>1 DEF ToSet
    <3>3. Len(pins) >= max
      BY <1>8, <3>1, <3>2 DEF PickedUpTo
    <3>4. Len(scored) = Len(pins) /\ Len(w) = Len(scored) /\ Len(w) = max
      BY <1>14, <3>3
    <3>5. w = pins
      BY <1>10, <1>12, <3>4 DEF PickedUpTo
    <3> QED  BY <1>15, <3>4, <3>5
  <2> QED  BY <2>1, <2>2
<1>17. Len(w) >= min \/ ToSet(w) = all
  <2> SUFFICES ASSUME NEW e \in all, e \notin ToSet(w)
               PROVE  Len(w) >= min
    BY <1>15
  <2>1. PICK i \in 1..Len(emotes) : emotes[i] = e
    BY <1>3 DEF ToSet
  <2> QED  BY <1>12, <2>1 DEF PickedUpTo
<1>18. ASSUME NEW a \in all, a \notin ToSet(scored), recent[a] > 0 \/ context[a] > 0
       PROVE  /\ Len(scored) >= max
              /\ \A b \in ToSet(scored) \ ToSet(pins) :
                   recent[b] > recent[a] \/ (recent[b] = recent[a] /\ context[b] >= context[a])
  <2>1. PICK i \in DOMAIN s : s[i] = a
    BY <1>6, <1>18 DEF ToSet
  <2>2. i \in 1..Len(s) /\ DOMAIN s = 1..Len(s)
    BY <1>6
  <2>3. /\ Len(scored) >= max
        /\ \A b \in ToSet(scored) \ ToSet(pins) : \E j \in 1..Len(s) : j < i /\ s[j] = b
    BY <1>10, <1>18, <2>1, <2>2 DEF PickedUpTo
  <2> QED  BY <1>6, <2>1, <2>2, <2>3
<1>19. ASSUME NEW a \in all \ ToSet(w), recent[a] > 0 \/ context[a] > 0
       PROVE  Len(w) = max /\ w = scored
  <2>1. Len(scored) >= max
    BY <1>15, <1>18, <1>19
  <2>2. Len(w) = max /\ Len(w) = Len(scored)
    BY <1>14, <2>1
  <2> QED  BY <1>12, <2>2 DEF PickedUpTo
<1>20. ASSUME NEW a \in all \ ToSet(w), NEW b \in ToSet(w) \ (all \cap ToSet(pinned))
       PROVE  ~(recent[a] > recent[b] \/ (recent[a] = recent[b] /\ context[a] > context[b]))
  <2> PICK x, y, u, v : x = recent[a] /\ y = recent[b] /\ u = context[a] /\ v = context[b]
    OBVIOUS
  <2>1. b \in all /\ x \in Nat /\ y \in Nat /\ u \in Nat /\ v \in Nat
    BY <1>4, <1>15
  <2>2. CASE x > 0 \/ u > 0
    <3>1. a \notin ToSet(scored) /\ b \in ToSet(scored) \ ToSet(pins)
      BY <1>15, <1>19, <2>2
    <3>2. y > x \/ (y = x /\ v >= u)
      BY <1>18, <2>2, <3>1
    <3> QED  BY <2>1, <3>2
  <2>3. CASE ~(x > 0 \/ u > 0)
    BY <2>1, <2>3
  <2> QED  BY <2>2, <2>3
<1>21. Len(w) < max => \A a \in all \ ToSet(w) : recent[a] = 0 /\ context[a] = 0
  BY <1>4, <1>14, <1>19
<1>22. IsInjective(w)
  BY <1>12 DEF PickedUpTo, Once, IsInjective
<1>23. PICK q, found : q = select_search_emotes(emotes, context) /\ found = ToSet(q)
  OBVIOUS
<1>24. /\ Cardinality(found) <= SearchLimit
       /\ \A a \in all \ found : \/ context[a] = 0
                                 \/ /\ Cardinality(found) = SearchLimit
                                    /\ \A b \in found : context[b] >= context[a]
  <2>1. PICK z : z = ByScore(emotes, context, context)
    OBVIOUS
  <2>2. /\ z \in Seq(Emotes) /\ ToSet(z) = {e \in all : context[e] > 0 \/ context[e] > 0}
        /\ \A i, j \in DOMAIN z : i < j =>
             context[z[i]] > context[z[j]] \/ (context[z[i]] = context[z[j]] /\ context[z[i]] >= context[z[j]])
    <3>1. Ranked(z, all, context, context)
      BY <1>2, <1>3, <2>1, ByScoreIs
    <3> QED  BY <3>1 DEF Ranked
  <2>3. q \in Seq(Emotes) /\ PickedUpTo(q, <<>>, z, all, SearchLimit, Len(z))
    <3>1. <<>> \in Seq(Emotes) /\ Once(<<>>) /\ SearchLimit \in Nat
      BY EmoteAssumption DEF Once
    <3>2. q = Pick(<<>>, z, all, SearchLimit)
      BY <1>3, <1>23, <2>1 DEF select_search_emotes
    <3> QED  BY ONLY <2>2, <3>1, <3>2, PickIs
  <2>4. PICK n \in Nat : n = Len(q) /\ DOMAIN q = 1..n
    BY <2>3
  <2>5. n <= SearchLimit
    BY <2>3, <2>4, EmoteAssumption DEF PickedUpTo
  <2>6. Cardinality(found) = n
    <3>1. /\ q \in [1..n -> found] /\ \A e \in found : \E i \in 1..n : q[i] = e
          /\ \A i, j \in 1..n : q[i] = q[j] => i = j
      <4>1. q = [i \in 1..n |-> q[i]] /\ Once(q)
        BY <2>3, <2>4 DEF PickedUpTo
      <4>2. found = {q[i] : i \in 1..n}
        BY <1>23, <2>4 DEF ToSet
      <4> QED  BY <2>4, <4>1, <4>2 DEF Once
    <3>2. ExistsBijection(1..n, found)
      BY <3>1 DEF ExistsBijection, Bijection, Injection, Surjection, IsInjective
    <3> QED  BY <3>2, FS_CountingElements
  <2>7. ASSUME NEW a \in all \ found, context[a] # 0
        PROVE  n = SearchLimit /\ \A b \in found : context[b] >= context[a]
    <3>1. context[a] > 0
      BY <1>4, <2>7
    <3>2. PICK i \in DOMAIN z : z[i] = a
      BY <2>2, <3>1 DEF ToSet
    <3>3. i \in 1..Len(z) /\ DOMAIN z = 1..Len(z) /\ ToSet(<<>>) = {}
      BY <2>2 DEF ToSet
    <3>4. /\ Len(q) >= SearchLimit
          /\ \A b \in found : \E j \in 1..Len(z) : j < i /\ z[j] = b
      BY <1>23, <2>3, <3>2, <3>3 DEF PickedUpTo
    <3>5. ASSUME NEW b \in found
          PROVE  context[b] >= context[a]
      <4>1. PICK j \in DOMAIN z : j < i /\ z[j] = b
        BY <3>3, <3>4
      <4>2. context[z[j]] > context[z[i]] \/ (context[z[j]] = context[z[i]] /\ context[z[j]] >= context[z[i]])
        BY <2>2, <4>1
      <4>3. context[b] > context[a] \/ context[b] >= context[a]
        BY <3>2, <4>1, <4>2
      <4>4. b \in all
        BY <2>2, <4>1 DEF ToSet
      <4>5. PICK x \in Nat, y \in Nat : x = context[a] /\ y = context[b]
        BY <1>4, <4>4
      <4> QED  BY <4>3, <4>5
    <3> QED  BY <2>4, <2>5, <3>4, <3>5, EmoteAssumption
  <2> QED  BY <2>5, <2>6, <2>7
<1> QED  BY <1>1, <1>3, <1>13, <1>14, <1>15, <1>16, <1>17, <1>20, <1>21, <1>22, <1>23, <1>24
         DEF SoundlyChosen

\* What a refresh keeps: the glossary without those 7TV does not list, each once.
LEMMA AvailableIs ==
  ASSUME NEW names \in SUBSET Emotes, NEW emotes,
         emotes = build_available_prompt_emotes(names), emotes # NoEmotes
  PROVE  emotes \in Seq(Emotes) /\ Once(emotes) /\ ToSet(emotes) \subseteq names
<1>1. PICK k : k = Pick(<<>>, Glossary, names \ Meaningless, Len(Glossary))
  OBVIOUS
<1>2. k \in Seq(Emotes)
      /\ PickedUpTo(k, <<>>, Glossary, names \ Meaningless, Len(Glossary), Len(Glossary))
  <2>1. <<>> \in Seq(Emotes) /\ Once(<<>>) /\ Glossary \in Seq(Emotes) /\ Len(Glossary) \in Nat
    BY EmoteAssumption DEF Once
  <2> QED  BY ONLY <1>1, <2>1, PickIs
<1>3. emotes = k
  BY <1>1 DEF build_available_prompt_emotes
<1> QED  BY <1>2, <1>3 DEF PickedUpTo, ToSet

-----------------------------------------------------------------------------
(* What a turn is offered *)

ListedSince(e, m) == e \in ListedNow \/ listed[e] >= m

\* The cache holds what was listed when its last refresh began or later, if
\* that one succeeded.
CacheOffers ==
  cache.emotes # NoEmotes =>
    /\ cache.emotes \in Seq(Emotes) /\ Once(cache.emotes)
    /\ lastok => /\ cache.last_refresh \in Nat /\ cache.last_refresh <= clock
                 /\ \A e \in ToSet(cache.emotes) : ListedSince(e, cache.last_refresh)

\* A refresh under way has names that were listed since it began; what was
\* shown was listed within the interval of its turn.
OfferSound(v) ==
  /\ v.st # "none" => v.caps \in EmoteCaps /\ v.caps.min <= v.caps.max /\ v.chat \in Chats
  /\ v.st \in {"global", "channel"} =>
       v.since <= clock /\ \A e \in v.names : ListedSince(e, v.since)
  /\ v.st = "shown" =>
       /\ v.since \in Nat /\ v.since <= clock
       /\ v.emotes # NoEmotes =>
            /\ v.emotes \in Seq(Emotes) /\ Once(v.emotes)
            /\ v.ok => \A e \in ToSet(v.emotes) : ListedSince(e, (v.since - v.caps.interval) + 1)

OInv == EInv /\ listed \in [Emotes -> Nat] /\ CacheOffers /\ \A t \in Turns : OfferSound(turn[t])

LEMMA OffersStart == EmoteInit => OInv
<1> SUFFICES ASSUME EmoteInit
             PROVE  OInv
  OBVIOUS
<1>1. EInv
  BY EmotesStart
<1>2. listed \in [Emotes -> Nat] /\ cache.emotes = NoEmotes
  BY DEF EmoteInit
<1>3. \A t \in Turns : turn[t].st = "none"
  BY DEF EmoteInit, NoCall
<1> QED  BY <1>1, <1>2, <1>3 DEF OInv, CacheOffers, OfferSound

\* What was listed at some time or later stays so: 7TV is asked nothing, only
\* noted, when an emote goes.
LEMMA ListedStays ==
  ASSUME OInv, [EmoteNext]_emoteVars
  PROVE  /\ listed' \in [Emotes -> Nat] /\ clock' \in Nat /\ clock <= clock'
         /\ \A e \in Emotes, m \in Int : m <= clock /\ ListedSince(e, m) => ListedSince(e, m)'
<1>1. clock \in Nat /\ listed \in [Emotes -> Nat]
  BY DEF OInv, EInv, EmotesTyped
<1>2. CASE UNCHANGED <<listed, published, clock>>
  BY <1>1, <1>2 DEF ListedSince, ListedNow
<1>3. CASE NoteListed /\ clock' \in {clock, clock + 1}
  <2>1. listed' = [e \in Emotes |-> IF e \in ListedNow THEN clock ELSE listed[e]]
    BY <1>3 DEF NoteListed
  <2>2. listed' \in [Emotes -> Nat] /\ clock' \in Nat /\ clock <= clock'
    BY <1>1, <1>3, <2>1
  <2>3. ASSUME NEW e \in Emotes, NEW m \in Int, m <= clock, ListedSince(e, m)
        PROVE  listed'[e] >= m
    <3>1. CASE e \in ListedNow
      BY <1>1, <2>1, <2>3, <3>1
    <3>2. CASE e \notin ListedNow
      BY <1>1, <2>1, <2>3, <3>2 DEF ListedSince
    <3> QED  BY <3>1, <3>2
  <2> QED  BY <2>2, <2>3 DEF ListedSince
<1>4. \/ NoteListed /\ clock' \in {clock, clock + 1}
      \/ UNCHANGED <<listed, published, clock>>
  BY DEF EmoteNext, EmoteTick, EmotesChange, prompt_block_for_turn, prompt_emotes,
         fetch_global_emotes, fetch_channel_emotes, EmotesUsed, Refreshed, emoteVars, emoteHistory
<1> QED  BY <1>2, <1>3, <1>4

\* Nothing a turn or the cache relies on is lost while the others move.
LEMMA OfferStays ==
  ASSUME OInv, [EmoteNext]_emoteVars, NEW t \in Turns, OfferSound(turn[t])
  PROVE  turn'[t] = turn[t] => OfferSound(turn[t])'
<1> SUFFICES ASSUME turn'[t] = turn[t]
             PROVE  OfferSound(turn[t])'
  OBVIOUS
<1>1. PICK v : v = turn[t]
  OBVIOUS
<1>2. OfferSound(v) /\ TurnIsTyped(v) /\ clock \in Nat
  BY <1>1 DEF OInv, EInv, EmotesTyped
<1>3. /\ clock' \in Nat /\ clock <= clock'
      /\ \A e \in Emotes, m \in Int : m <= clock /\ ListedSince(e, m) => ListedSince(e, m)'
  BY ListedStays
<1>4. ASSUME v.st \in {"global", "channel"}
      PROVE  v.since <= clock' /\ \A e \in v.names : ListedSince(e, v.since)'
  <2>1. v.since \in Nat /\ v.names \in SUBSET Emotes
    BY <1>2, <1>4 DEF TurnIsTyped, FetchingTurns
  <2>2. v.since <= clock /\ \A e \in v.names : ListedSince(e, v.since)
    BY <1>2, <1>4 DEF OfferSound
  <2> QED  BY <1>2, <1>3, <2>1, <2>2
<1>5. ASSUME v.st = "shown"
      PROVE  /\ v.since \in Nat /\ v.since <= clock'
             /\ v.emotes # NoEmotes =>
                  /\ v.emotes \in Seq(Emotes) /\ Once(v.emotes)
                  /\ v.ok => \A e \in ToSet(v.emotes) :
                               ListedSince(e, (v.since - v.caps.interval) + 1)'
  <2>1. /\ v.since \in Nat /\ v.since <= clock /\ v.caps \in EmoteCaps
        /\ v.emotes # NoEmotes =>
             /\ v.emotes \in Seq(Emotes) /\ Once(v.emotes)
             /\ v.ok => \A e \in ToSet(v.emotes) : ListedSince(e, (v.since - v.caps.interval) + 1)
    BY <1>2, <1>5 DEF OfferSound
  <2>2. PICK m : m = (v.since - v.caps.interval) + 1
    OBVIOUS
  <2>3. m \in Int /\ m <= clock /\ v.since <= clock'
    <3>1. v.caps.interval \in Nat \ {0}
      BY <2>1 DEF EmoteCaps
    <3> QED  BY <1>2, <1>3, <2>1, <2>2, <3>1
  <2>4. v.emotes \in Seq(Emotes) => ToSet(v.emotes) \subseteq Emotes
    BY DEF ToSet
  <2> QED  BY <1>3, <2>1, <2>2, <2>3, <2>4
<1>6. v.st # "none" => v.caps \in EmoteCaps /\ v.caps.min <= v.caps.max /\ v.chat \in Chats
  BY <1>2 DEF OfferSound
<1>7. turn'[t] = v
  BY <1>1
<1> QED  BY <1>4, <1>5, <1>6, <1>7 DEF OfferSound

LEMMA CacheStays ==
  ASSUME OInv, [EmoteNext]_emoteVars, UNCHANGED <<cache, lastok>>
  PROVE  CacheOffers'
<1>1. clock \in Nat /\ CacheOffers
  BY DEF OInv, EInv, EmotesTyped
<1>2. /\ clock' \in Nat /\ clock <= clock'
      /\ \A e \in Emotes, m \in Int : m <= clock /\ ListedSince(e, m) => ListedSince(e, m)'
  BY ListedStays
<1> SUFFICES ASSUME cache.emotes # NoEmotes
             PROVE  /\ cache.emotes \in Seq(Emotes) /\ Once(cache.emotes)
                    /\ lastok => /\ cache.last_refresh \in Nat /\ cache.last_refresh <= clock'
                                 /\ \A e \in ToSet(cache.emotes) : ListedSince(e, cache.last_refresh)'
  BY DEF CacheOffers
<1>3. /\ cache.emotes \in Seq(Emotes) /\ Once(cache.emotes)
      /\ lastok => /\ cache.last_refresh \in Nat /\ cache.last_refresh <= clock
                   /\ \A e \in ToSet(cache.emotes) : ListedSince(e, cache.last_refresh)
  BY <1>1 DEF CacheOffers
<1>4. ToSet(cache.emotes) \subseteq Emotes
  BY <1>3 DEF ToSet
<1> QED  BY <1>1, <1>2, <1>3, <1>4

\* One turn moves, to an offer that is sound.
LEMMA OneOfferMoves ==
  ASSUME OInv, [EmoteNext]_emoteVars, NEW t \in Turns, NEW v, turn' = [turn EXCEPT ![t] = v],
         OfferSound(v)', CacheOffers'
  PROVE  OInv'
<1>1. EInv' /\ DOMAIN turn = Turns
  BY EmotesNext DEF OInv, EInv, EmotesTyped
<1>2. turn'[t] = v /\ \A u \in Turns : u # t => turn'[u] = turn[u]
  BY <1>1
<1>3. listed' \in [Emotes -> Nat]
  BY ListedStays
<1>4. ASSUME NEW u \in Turns
      PROVE  OfferSound(turn[u])'
  <2>1. CASE u = t
    <3>1. OfferSound(turn[u])' <=> OfferSound(v)'
      BY <1>2, <2>1 DEF OfferSound
    <3> QED  BY <3>1
  <2>2. CASE u # t
    <3>1. OfferSound(turn[u])
      BY DEF OInv
    <3> QED  BY <1>2, <2>2, <3>1, OfferStays
  <2> QED  BY <2>1, <2>2
<1> QED  BY <1>1, <1>3, <1>4 DEF OInv

LEMMA AskOffers ==
  ASSUME OInv, NEW t \in Turns, NEW chat \in Chats, prompt_block_for_turn(t, chat)
  PROVE  OInv'
<1> PICK v : v = [st |-> "waiting", caps |-> live_caps, chat |-> chat]
  OBVIOUS
<1>1. [EmoteNext]_emoteVars /\ turn' = [turn EXCEPT ![t] = v] /\ UNCHANGED <<cache, lastok>>
  BY DEF EmoteNext, prompt_block_for_turn, emoteHistory
<1>2. live_caps \in EmoteCaps /\ live_caps.min <= live_caps.max
  <2> PICK k : k = knobs
    OBVIOUS
  <2>1. /\ k \in [include_global : BOOLEAN, interval : Nat \ {0}, max : Nat, min : Nat,
                  pinned : Seq(Emotes)]
        /\ k.min \in Nat /\ k.max \in Nat
    BY DEF OInv, EInv, EmotesTyped, EmoteCaps
  <2>2. PICK least \in Nat : least = (IF k.min < k.max THEN k.min ELSE k.max) /\ least <= k.max
    BY <2>1
  <2>3. live_caps = [k EXCEPT !.min = least]
    BY <2>2 DEF live_caps
  <2>4. live_caps \in EmoteCaps /\ live_caps.min = least /\ live_caps.max = k.max
    BY <2>1, <2>3 DEF EmoteCaps
  <2> QED  BY <2>2, <2>4
<1>3. OfferSound(v)'
  BY <1>2 DEF OfferSound
<1> QED  BY <1>1, <1>3, CacheStays, OneOfferMoves

LEMMA UsedOffers ==
  ASSUME OInv, NEW t \in Turns, EmotesUsed(t)
  PROVE  OInv'
<1>1. [EmoteNext]_emoteVars /\ turn' = [turn EXCEPT ![t] = NoCall] /\ UNCHANGED <<cache, lastok>>
  BY DEF EmoteNext, EmotesUsed, emoteHistory
<1>2. OfferSound(NoCall)'
  BY DEF OfferSound, NoCall
<1> QED  BY <1>1, <1>2, CacheStays, OneOfferMoves

\* What is fresh to a turn was listed within its interval.
LEMMA TakeOffers ==
  ASSUME OInv, NEW t \in Turns, prompt_emotes(t)
  PROVE  OInv'
<1>1. /\ [EmoteNext]_emoteVars /\ turn[t].st = "waiting" /\ lastok' = lastok
      /\ UNCHANGED <<clock, knobs, published, listed>>
  BY DEF EmoteNext, prompt_emotes, emoteHistory
<1>2. /\ turn[t] \in WaitingTurns /\ OfferSound(turn[t]) /\ clock \in Nat /\ CacheOffers
  BY <1>1 DEF OInv, EInv, EmotesTyped, TurnIsTyped
<1>3. PICK caps, chat : caps = turn[t].caps /\ chat = turn[t].chat
  OBVIOUS
<1>4. caps \in EmoteCaps /\ caps.min <= caps.max /\ chat \in Chats /\ caps.interval \in Nat \ {0}
  BY <1>1, <1>2, <1>3 DEF OfferSound, EmoteCaps
<1>5. CASE Fresh(t) /\ Shown(t, cache.emotes, lastok) /\ cache' = cache
  <2> PICK v : v = [st |-> "shown", caps |-> caps, chat |-> chat, emotes |-> cache.emotes,
                    since |-> clock, ok |-> lastok]
    OBVIOUS
  <2>1. turn' = [turn EXCEPT ![t] = v]
    BY <1>1, <1>3, <1>5 DEF Shown
  <2>2. cache.last_refresh # NotYet /\ clock - cache.last_refresh < caps.interval
    BY <1>3, <1>5 DEF Fresh
  <2>3. ASSUME cache.emotes # NoEmotes
        PROVE  /\ cache.emotes \in Seq(Emotes) /\ Once(cache.emotes)
               /\ lastok => \A e \in ToSet(cache.emotes) :
                              ListedSince(e, (clock - caps.interval) + 1)'
    <3>1. /\ cache.emotes \in Seq(Emotes) /\ Once(cache.emotes)
          /\ lastok => /\ cache.last_refresh \in Nat
                       /\ \A e \in ToSet(cache.emotes) : ListedSince(e, cache.last_refresh)
      BY <1>2, <2>3 DEF CacheOffers
    <3>2. ASSUME lastok, NEW e \in ToSet(cache.emotes)
          PROVE  ListedSince(e, (clock - caps.interval) + 1)'
      <4>1. cache.last_refresh \in Nat /\ ListedSince(e, cache.last_refresh) /\ e \in Emotes
        BY <3>1, <3>2 DEF ToSet
      <4>2. cache.last_refresh >= (clock - caps.interval) + 1
        BY <1>2, <1>4, <2>2, <4>1
      <4>3. listed[e] \in Nat
        BY <4>1 DEF OInv
      <4>4. e \in ListedNow \/ listed[e] >= (clock - caps.interval) + 1
        BY <1>2, <1>4, <4>1, <4>2, <4>3 DEF ListedSince
      <4> QED  BY <1>1, <4>4 DEF ListedSince, ListedNow
    <3> QED  BY <3>1, <3>2
  <2>4. OfferSound(v)'
    BY <1>1, <1>2, <1>4, <2>3 DEF OfferSound
  <2> QED  BY <1>1, <1>5, <2>1, <2>4, CacheStays, OneOfferMoves
<1>6. CASE Shown(t, NoEmotes, lastok) /\ cache' = [last_refresh |-> clock, emotes |-> NoEmotes]
  <2> PICK v : v = [st |-> "shown", caps |-> caps, chat |-> chat, emotes |-> NoEmotes,
                    since |-> clock, ok |-> lastok]
    OBVIOUS
  <2>1. turn' = [turn EXCEPT ![t] = v]
    BY <1>1, <1>3, <1>6 DEF Shown
  <2>2. OfferSound(v)'
    BY <1>1, <1>2, <1>4 DEF OfferSound
  <2>3. CacheOffers'
    BY <1>6 DEF CacheOffers
  <2> QED  BY <1>1, <2>1, <2>2, <2>3, OneOfferMoves
<1>7. CASE /\ turn' = [turn EXCEPT ![t] =
                         [st |-> IF turn[t].caps.include_global THEN "global" ELSE "channel",
                          caps |-> turn[t].caps, chat |-> turn[t].chat, since |-> clock,
                          asked |-> clock, names |-> {}, failed |-> FALSE]]
           /\ cache' = cache
  <2> PICK v : v = [st |-> IF caps.include_global THEN "global" ELSE "channel",
                    caps |-> caps, chat |-> chat, since |-> clock,
                    asked |-> clock, names |-> {}, failed |-> FALSE]
    OBVIOUS
  <2>1. turn' = [turn EXCEPT ![t] = v]
    BY <1>3, <1>7
  <2>2. OfferSound(v)'
    <3>1. /\ v.st \in {"global", "channel"} /\ v.since = clock /\ v.names = {}
          /\ v.caps = caps /\ v.chat = chat
      OBVIOUS
    <3> QED  BY <1>1, <1>2, <1>4, <3>1 DEF OfferSound
  <2> QED  BY <1>1, <1>7, <2>1, <2>2, CacheStays, OneOfferMoves
<1> QED  BY <1>5, <1>6, <1>7 DEF prompt_emotes

LEMMA GlobalOffers ==
  ASSUME OInv, NEW t \in Turns, NEW ok \in BOOLEAN, fetch_global_emotes(t, ok)
  PROVE  OInv'
<1> PICK names : names = IF ok THEN published.global ELSE {}
  OBVIOUS
<1> PICK v : v = [turn[t] EXCEPT !.st = "channel", !.asked = clock, !.failed = ~ok, !.names = names]
  OBVIOUS
<1>1. /\ [EmoteNext]_emoteVars /\ turn[t].st = "global" /\ turn' = [turn EXCEPT ![t] = v]
      /\ UNCHANGED <<cache, lastok, clock, published>>
  BY DEF EmoteNext, fetch_global_emotes, emoteHistory
<1>2. turn[t] \in FetchingTurns /\ OfferSound(turn[t])
  BY <1>1 DEF OInv, EInv, EmotesTyped, TurnIsTyped
<1>3. /\ v.st = "channel" /\ v.caps = turn[t].caps /\ v.chat = turn[t].chat
      /\ v.since = turn[t].since /\ v.names = names
  BY <1>2 DEF FetchingTurns
<1>4. \A e \in names : ListedSince(e, v.since)'
  BY <1>1 DEF ListedSince, ListedNow
<1>5. OfferSound(v)'
  BY <1>1, <1>2, <1>3, <1>4 DEF OfferSound
<1> QED  BY <1>1, <1>5, CacheStays, OneOfferMoves

\* What a refresh offers is what the glossary has of the names it was told; if
\* it failed, the emotes are the older ones, and it says so.
LEMMA ChannelOffers ==
  ASSUME OInv, NEW t \in Turns, NEW ok \in BOOLEAN, fetch_channel_emotes(t, ok)
  PROVE  OInv'
<1> PICK names : names = turn[t].names \cup (IF ok THEN published.channel ELSE {})
  OBVIOUS
<1> PICK failed : failed = (turn[t].failed \/ ~ok)
  OBVIOUS
<1> PICK good : good = ~(names = {} /\ failed)
  OBVIOUS
<1> PICK emotes : emotes = IF good THEN build_available_prompt_emotes(names) ELSE cache.emotes
  OBVIOUS
<1>1. /\ [EmoteNext]_emoteVars /\ turn[t].st = "channel" /\ UNCHANGED <<clock, published, listed>>
  BY DEF EmoteNext, fetch_channel_emotes
<1>2. /\ turn[t] \in FetchingTurns /\ OfferSound(turn[t]) /\ clock \in Nat /\ CacheOffers
      /\ published.channel \in SUBSET Emotes
  BY <1>1 DEF OInv, EInv, EmotesTyped, TurnIsTyped
<1>3. PICK caps, chat, since : caps = turn[t].caps /\ chat = turn[t].chat /\ since = turn[t].since
  OBVIOUS
<1>4. /\ caps \in EmoteCaps /\ caps.min <= caps.max /\ chat \in Chats /\ caps.interval \in Nat \ {0}
      /\ since \in Nat /\ since <= clock
      /\ \A e \in turn[t].names : ListedSince(e, since)
  BY <1>1, <1>2, <1>3 DEF OfferSound, EmoteCaps, FetchingTurns
<1>5. names \in SUBSET Emotes /\ \A e \in names : ListedSince(e, since)'
  <2>1. turn[t].names \in SUBSET Emotes
    BY <1>2 DEF FetchingTurns
  <2> QED  BY <1>1, <1>2, <1>4, <2>1 DEF ListedSince, ListedNow
<1>6. Refreshed(t, names, failed)
  BY DEF fetch_channel_emotes
<1>7. /\ cache' = [last_refresh |-> since, emotes |-> emotes] /\ lastok' = good
      /\ Shown(t, emotes, good)
  BY <1>3, <1>6 DEF Refreshed, Stamped
<1> PICK v : v = [st |-> "shown", caps |-> caps, chat |-> chat, emotes |-> emotes,
                  since |-> since, ok |-> good]
  OBVIOUS
<1>8. turn' = [turn EXCEPT ![t] = v]
  BY <1>1, <1>3, <1>7 DEF Shown
<1>9. ASSUME emotes # NoEmotes
      PROVE  /\ emotes \in Seq(Emotes) /\ Once(emotes)
             /\ good => \A e \in ToSet(emotes) :
                  ListedSince(e, since)' /\ ListedSince(e, (since - caps.interval) + 1)'
  <2>1. CASE good
    <3>1. emotes = build_available_prompt_emotes(names)
      BY <2>1
    <3>2. emotes \in Seq(Emotes) /\ Once(emotes) /\ ToSet(emotes) \subseteq names
      BY <1>5, <1>9, <3>1, AvailableIs
    <3>3. ASSUME NEW e \in ToSet(emotes)
          PROVE  ListedSince(e, since)' /\ ListedSince(e, (since - caps.interval) + 1)'
      <4>1. e \in Emotes /\ ListedSince(e, since)'
        BY <1>5, <3>2
      <4>2. listed'[e] \in Nat
        BY <4>1, ListedStays, <1>1
      <4>3. e \in ListedNow' \/ listed'[e] >= since
        BY <4>1 DEF ListedSince
      <4>4. e \in ListedNow' \/ listed'[e] >= (since - caps.interval) + 1
        BY <1>4, <4>2, <4>3
      <4> QED  BY <4>1, <4>4 DEF ListedSince
    <3> QED  BY <3>2, <3>3
  <2>2. CASE ~good
    <3>1. emotes = cache.emotes
      BY <2>2
    <3> QED  BY <1>2, <1>9, <2>2, <3>1 DEF CacheOffers
  <2> QED  BY <2>1, <2>2
<1>10. OfferSound(v)'
  BY <1>1, <1>4, <1>9 DEF OfferSound
<1>11. CacheOffers'
  BY <1>1, <1>4, <1>7, <1>9 DEF CacheOffers
<1> QED  BY <1>1, <1>8, <1>10, <1>11, OneOfferMoves

LEMMA OffersNext == OInv /\ [EmoteNext]_emoteVars => OInv'
<1> SUFFICES ASSUME OInv, [EmoteNext]_emoteVars
             PROVE  OInv'
  OBVIOUS
<1>1. CASE EmoteTick \/ EmotesChange \/ UNCHANGED emoteVars
  <2>1. UNCHANGED <<cache, lastok, turn>>
    BY <1>1 DEF EmoteTick, EmotesChange, emoteVars, emoteHistory
  <2>2. EInv' /\ listed' \in [Emotes -> Nat] /\ CacheOffers'
    BY <2>1, EmotesNext, ListedStays, CacheStays DEF OInv
  <2>3. \A t \in Turns : OfferSound(turn[t])
    BY DEF OInv
  <2>4. \A t \in Turns : OfferSound(turn[t])'
    BY <2>1, <2>3, OfferStays
  <2> QED  BY <2>2, <2>4 DEF OInv
<1>2. CASE \E t \in Turns :
             \/ \E chat \in Chats : prompt_block_for_turn(t, chat)
             \/ prompt_emotes(t) \/ EmotesUsed(t)
             \/ \E ok \in BOOLEAN : fetch_global_emotes(t, ok) \/ fetch_channel_emotes(t, ok)
  BY <1>2, AskOffers, TakeOffers, UsedOffers, GlobalOffers, ChannelOffers
<1> QED  BY <1>1, <1>2 DEF EmoteNext

\* What a turn is offered is current - listed by 7TV within the interval of
\* the turn, unless the last refresh failed - and the window and the search are
\* chosen soundly from it, for any emotes, glossary, scores, caps and pins.
THEOREM OffersSound == EmoteSpec => []OffersAreCurrent
<1>1. OInv => OffersAreCurrent
  <2> SUFFICES ASSUME OInv, NEW t \in Turns, turn[t].st = "shown", turn[t].emotes # NoEmotes
               PROVE  /\ turn[t].ok => \A e \in ToSet(turn[t].emotes) :
                           e \in ListedNow \/ listed[e] > turn[t].since - turn[t].caps.interval
                      /\ SoundlyChosen(turn[t].emotes, turn[t].caps, turn[t].chat)
    BY DEF OffersAreCurrent, ShownIsCurrent, WindowSound
  <2> PICK v : v = turn[t]
    OBVIOUS
  <2>1. OfferSound(v) /\ v.st = "shown" /\ v.emotes # NoEmotes
    BY DEF OInv
  <2>2. /\ v.caps \in EmoteCaps /\ v.caps.min <= v.caps.max /\ v.chat \in Chats /\ v.since \in Nat
        /\ v.emotes \in Seq(Emotes) /\ Once(v.emotes)
        /\ v.ok => \A e \in ToSet(v.emotes) : ListedSince(e, (v.since - v.caps.interval) + 1)
    BY <2>1 DEF OfferSound
  <2>3. ASSUME v.ok, NEW e \in ToSet(v.emotes)
        PROVE  e \in ListedNow \/ listed[e] > v.since - v.caps.interval
    <3>1. e \in Emotes /\ ListedSince(e, (v.since - v.caps.interval) + 1)
      BY <2>2, <2>3 DEF ToSet
    <3>2. v.caps.interval \in Nat /\ listed[e] \in Nat
      BY <2>2, <3>1 DEF EmoteCaps, OInv
    <3> QED  BY <2>2, <3>1, <3>2 DEF ListedSince
  <2>4. /\ v.caps.max \in Nat /\ v.caps.min \in Nat /\ v.caps.pinned \in Seq(Emotes)
    BY <2>2 DEF EmoteCaps
  <2>5. SoundlyChosen(v.emotes, v.caps, v.chat)
    BY <2>2, <2>4, WindowIs
  <2> QED  BY <2>3, <2>5
<1> QED  BY <1>1, OffersStart, OffersNext, PTL DEF EmoteSpec

-----------------------------------------------------------------------------
(* The order of the keys of a cache *)

Ascends(order, ts) == \A i, j \in DOMAIN order : i < j => ts[order[i]] < ts[order[j]]

LEMMA AscendsOnce ==
  ASSUME NEW S, NEW order \in Seq(S), NEW ts \in [S -> Int], Ascends(order, ts)
  PROVE  \A i, j \in DOMAIN order : order[i] = order[j] => i = j
<1> SUFFICES ASSUME NEW i \in DOMAIN order, NEW j \in DOMAIN order, order[i] = order[j], i # j
             PROVE  FALSE
  OBVIOUS
<1>1. i \in Nat /\ j \in Nat /\ order[i] \in S /\ ts[order[i]] \in Int
  OBVIOUS
<1>2. CASE i < j
  BY <1>1, <1>2 DEF Ascends
<1>3. CASE j < i
  BY <1>1, <1>3 DEF Ascends
<1> QED  BY <1>1, <1>2, <1>3

LEMMA AppendAscends ==
  ASSUME NEW S, NEW order \in Seq(S), NEW e \in S, NEW ts \in [S -> Int], Ascends(order, ts),
         \A i \in DOMAIN order : ts[order[i]] < ts[e]
  PROVE  /\ Append(order, e) \in Seq(S) /\ Ascends(Append(order, e), ts)
         /\ \A x : x \in ToSet(Append(order, e)) <=> x \in ToSet(order) \/ x = e
<1> DEFINE r == Append(order, e)
           n == Len(order)
<1>1. /\ r \in Seq(S) /\ n \in Nat /\ DOMAIN order = 1..n /\ DOMAIN r = 1..(n + 1)
      /\ r[n + 1] = e /\ \A i \in 1..n : r[i] = order[i]
  OBVIOUS
<1> HIDE DEF r, n
<1>2. \A i \in 1..(n + 1) : i \in 1..n \/ i = n + 1
  BY <1>1
<1>3. Ascends(r, ts)
  <2> SUFFICES ASSUME NEW i \in 1..(n + 1), NEW j \in 1..(n + 1), i < j
               PROVE  ts[r[i]] < ts[r[j]]
    BY <1>1 DEF Ascends
  <2>1. i \in 1..n
    BY <1>1
  <2>2. CASE j \in 1..n
    BY <1>1, <2>1, <2>2 DEF Ascends
  <2>3. CASE j = n + 1
    BY <1>1, <2>1, <2>3
  <2> QED  BY <1>2, <2>2, <2>3
<1>4. \A x : x \in ToSet(r) <=> x \in ToSet(order) \/ x = e
  <2>1. n + 1 \in 1..(n + 1) /\ \A i \in 1..n : i \in 1..(n + 1)
    BY <1>1
  <2> QED  BY <1>1, <1>2, <2>1 DEF ToSet
<1> QED  BY <1>1, <1>3, <1>4 DEF r

\* What is kept of the order stays in order.
LEMMA WithoutIs ==
  ASSUME NEW S, NEW order \in Seq(S), NEW keys \in SUBSET S, NEW ts \in [S -> Int], Ascends(order, ts)
  PROVE  /\ Without(order, keys) \in Seq(S) /\ Ascends(Without(order, keys), ts)
         /\ ToSet(Without(order, keys)) = ToSet(order) \ keys
<1> DEFINE Step(kept, i) == IF order[i] \in keys THEN kept ELSE Append(kept, order[i])
           P(f) == f = [s \in SUBSET DOMAIN order |->
                          IF s = {} THEN << >> ELSE Step(f[s \ {Max(s)}], Max(s))]
           g == CHOOSE f : P(f)
           Kept(r, n) == /\ r \in Seq(S) /\ Ascends(r, ts)
                         /\ \A e : e \in ToSet(r) <=> e \notin keys /\ \E i \in 1..n : order[i] = e
           R == {n \in Nat : n <= Len(order) => Kept(g[1..n], n)}
<1>1. PICK k \in Nat : k = Len(order) /\ DOMAIN order = 1..k
  OBVIOUS
<1>2. \A kept \in Seq(S), i \in 1..k : Step(kept, i) \in Seq(S)
  BY <1>1
<1>3. P(g)
  <2> DEFINE F == [p \in Seq(S) \X (1..k) |-> Step(p[1], p[2])]
  <2>1. F \in [Seq(S) \X (1..k) -> Seq(S)]
    BY <1>2
  <2>2. << >> \in Seq(S)
    OBVIOUS
  <2>3. PICK f \in [SUBSET (1..k) -> Seq(S)] : FoldsBy(f, F, << >>, k)
    <3> HIDE DEF F
    <3> QED  BY <2>1, <2>2, FoldExists
  <2>4. ASSUME NEW s \in SUBSET (1..k), s # {}
        PROVE  F[<<f[s \ {Max(s)}], Max(s)>>] = Step(f[s \ {Max(s)}], Max(s))
    <3>1. Max(s) \in 1..k
      BY <2>4, <1>1, MaxOfPlaces
    <3>2. f[s \ {Max(s)}] \in Seq(S)
      OBVIOUS
    <3> QED  BY <3>1, <3>2
  <2>5. P(f)
    <3> HIDE DEF F, Step
    <3> QED  BY <1>1, <2>3, <2>4 DEF FoldsBy
  <2> HIDE DEF P
  <2> QED  BY <2>5
<1>4. Without(order, keys) = g[1..k]
  BY <1>1, Zenon DEF Without, FoldLeft, MapThenFoldSet
<1> HIDE DEF g
<1>5. g[{}] = << >>
  BY <1>3
<1>6. ASSUME NEW n \in Nat, n + 1 <= k
      PROVE  g[1..(n + 1)] = Step(g[1..n], n + 1)
  <2>1. /\ 1..(n + 1) \in SUBSET (1..k) /\ 1..(n + 1) # {}
        /\ Max(1..(n + 1)) = n + 1 /\ (1..(n + 1)) \ {n + 1} = 1..n
    BY <1>6, UpToNext
  <2>2. PICK s : s = 1..(n + 1)
    OBVIOUS
  <2>3. s \in SUBSET DOMAIN order /\ s # {} /\ Max(s) = n + 1 /\ s \ {n + 1} = 1..n
    BY <1>1, <2>1, <2>2
  <2>4. g[s] = Step(g[s \ {Max(s)}], Max(s))
    <3> HIDE DEF Step
    <3> QED  BY <1>3, <2>3
  <2> HIDE DEF Step
  <2> QED  BY <2>2, <2>3, <2>4
<1>7. Kept(g[1..0], 0)
  <2>1. 1..0 = {} /\ << >> \in Seq(S) /\ ToSet(<< >>) = {} /\ Ascends(<< >>, ts)
    BY DEF ToSet, Ascends
  <2> QED  BY <1>5, <2>1
<1>8. ASSUME NEW n \in Nat, n + 1 <= k, Kept(g[1..n], n)
      PROVE  Kept(g[1..(n + 1)], n + 1)
  <2> PICK r, e : r = g[1..n] /\ e = order[n + 1]
    OBVIOUS
  <2>1. n + 1 \in 1..k /\ e \in S /\ \A i \in 1..n : i \in 1..k /\ i < n + 1
    BY <1>1, <1>8
  <2>2. \A i \in 1..(n + 1) : i \in 1..n \/ i = n + 1
    OBVIOUS
  <2>3. n + 1 \in 1..(n + 1) /\ \A i \in 1..n : i \in 1..(n + 1)
    OBVIOUS
  <2>4. \A x : (\E i \in 1..(n + 1) : order[i] = x) <=> (\E i \in 1..n : order[i] = x) \/ x = e
    BY <2>2, <2>3
  <2>5. CASE e \in keys
    <3>1. g[1..(n + 1)] = r
      BY <1>6, <1>8, <2>5
    <3> QED  BY <1>8, <2>4, <2>5, <3>1
  <2>6. CASE e \notin keys
    <3>1. g[1..(n + 1)] = Append(r, e)
      BY <1>6, <1>8, <2>6
    <3>2. r \in Seq(S) /\ Ascends(r, ts)
      BY <1>8
    <3>3. ASSUME NEW j \in DOMAIN r
          PROVE  ts[r[j]] < ts[e]
      <4>1. PICK i \in 1..n : order[i] = r[j]
        BY <1>8 DEF ToSet
      <4> QED  BY <1>1, <2>1, <4>1 DEF Ascends
    <3>4. /\ Append(r, e) \in Seq(S) /\ Ascends(Append(r, e), ts)
          /\ \A x : x \in ToSet(Append(r, e)) <=> x \in ToSet(r) \/ x = e
      <4> HIDE DEF Kept, Step, R
      <4>1. /\ r \in Seq(S) /\ e \in S /\ ts \in [S -> Int] /\ Ascends(r, ts)
            /\ \A i \in DOMAIN r : ts[r[i]] < ts[e]
        BY <2>1, <3>2, <3>3
      <4> QED  BY ONLY <4>1, AppendAscends
    <3>5. \A x : x \in ToSet(Append(r, e)) <=> x \notin keys /\ \E i \in 1..(n + 1) : order[i] = x
      BY <1>8, <2>4, <2>6, <3>4
    <3> QED  BY <3>1, <3>4, <3>5
  <2> QED  BY <2>5, <2>6
<1>9. Kept(g[1..k], k)
  <2> HIDE DEF Kept
  <2>1. 0 \in R
    BY <1>7
  <2>2. ASSUME NEW n \in Nat, n \in R
        PROVE  n + 1 \in R
    BY <1>1, <1>8, <2>2
  <2>3. k \in R
    <3> HIDE DEF R
    <3> QED  BY <2>1, <2>2, UpToAll
  <2> QED  BY <1>1, <2>3
<1>10. ToSet(order) = {order[i] : i \in 1..k}
  BY <1>1 DEF ToSet
<1> QED  BY <1>4, <1>9, <1>10

-----------------------------------------------------------------------------
(* What was inserted, and what the cache has of it *)

KeysIn(l) == {l[i].key : i \in DOMAIN l}
LatestIn(l, k) == CHOOSE i \in DOMAIN l : l[i].key = k /\ \A j \in DOMAIN l : l[j].key = k => j <= i
NewerIn(l, k) == {j \in KeysIn(l) : LatestIn(l, j) > LatestIn(l, k)}
InsertedAt(l, k) == l[LatestIn(l, k)].at
Stamps(l) == [k \in KeysIn(l) |-> LatestIn(l, k)]

\* Insertions are noted as they come.
LogSound(l, t) ==
  /\ l \in Seq(ToSet(l))
  /\ \A i \in DOMAIN l : l[i].at \in Nat /\ l[i].at <= t
  /\ \A i, j \in DOMAIN l : i < j => l[i].at <= l[j].at

\* The keys are listed in the order of their latest insertions.
ListsEntries(c, l) ==
  /\ c.order \in Seq(DOMAIN c.entries) /\ ToSet(c.order) = DOMAIN c.entries
  /\ Ascends(c.order, Stamps(l))
  /\ \A k \in DOMAIN c.entries :
       /\ k \in KeysIn(l)
       /\ c.entries[k].value = l[LatestIn(l, k)].value
       /\ c.entries[k].inserted_at = InsertedAt(l, k)

\* What is missing has expired, or Capacity others came after it.
HoldsNewest(c, l, t) ==
  /\ Cardinality(DOMAIN c.entries) <= Capacity
  /\ \A k \in KeysIn(l) : t - InsertedAt(l, k) <= ToolTtl =>
       (k \in DOMAIN c.entries <=> Cardinality(NewerIn(l, k)) < Capacity)

CacheSound(c, l, t) == LogSound(l, t) /\ ListsEntries(c, l) /\ HoldsNewest(c, l, t)

LEMMA LatestIs ==
  ASSUME NEW S, NEW l \in Seq(S), NEW k \in KeysIn(l)
  PROVE  /\ LatestIn(l, k) \in DOMAIN l /\ LatestIn(l, k) \in Nat /\ l[LatestIn(l, k)].key = k
         /\ \A j \in DOMAIN l : l[j].key = k => j <= LatestIn(l, k)
<1> DEFINE s == {i \in DOMAIN l : l[i].key = k}
<1>1. PICK n \in Nat : DOMAIN l = 1..n
  OBVIOUS
<1>2. s \in SUBSET (1..n) /\ s # {}
  BY <1>1 DEF KeysIn
<1>3. Max(s) \in s /\ \A j \in s : j <= Max(s)
  BY <1>2, MaxOfPlaces
<1>4. \E i \in DOMAIN l : l[i].key = k /\ \A j \in DOMAIN l : l[j].key = k => j <= i
  BY <1>3
<1> HIDE DEF s
<1>5. LatestIn(l, k) \in DOMAIN l /\ l[LatestIn(l, k)].key = k
      /\ \A j \in DOMAIN l : l[j].key = k => j <= LatestIn(l, k)
  BY <1>4 DEF LatestIn
<1> QED  BY <1>1, <1>5

\* It is the only place of the key that no other comes after.
LEMMA LatestOnly ==
  ASSUME NEW S, NEW l \in Seq(S), NEW k, NEW i \in DOMAIN l, l[i].key = k,
         \A j \in DOMAIN l : l[j].key = k => j <= i
  PROVE  k \in KeysIn(l) /\ LatestIn(l, k) = i
<1>1. k \in KeysIn(l)
  BY DEF KeysIn
<1>2. LatestIn(l, k) \in DOMAIN l /\ l[LatestIn(l, k)].key = k
      /\ \A j \in DOMAIN l : l[j].key = k => j <= LatestIn(l, k)
  BY <1>1, LatestIs
<1>3. \A x \in DOMAIN l : x \in Int
  OBVIOUS
<1>4. LatestIn(l, k) <= i /\ i <= LatestIn(l, k) /\ i \in Int /\ LatestIn(l, k) \in Int
  BY <1>2, <1>3
<1> QED  BY <1>1, <1>4

LEMMA NewerFinite ==
  ASSUME NEW S, NEW l \in Seq(S), NEW k
  PROVE  IsFiniteSet(NewerIn(l, k)) /\ Cardinality(NewerIn(l, k)) \in Nat
<1>1. PICK n \in Nat : DOMAIN l = 1..n
  OBVIOUS
<1> DEFINE f == [i \in 1..n |-> l[i].key]
<1>2. f \in Surjection(1..n, KeysIn(l))
  BY <1>1 DEF Surjection, KeysIn
<1>3. IsFiniteSet(KeysIn(l))
  BY <1>2, FS_Surjection, FS_Interval
<1>4. NewerIn(l, k) \in SUBSET KeysIn(l)
  BY DEF NewerIn
<1> QED  BY <1>3, <1>4, FS_Subset, FS_CardinalityType

\* One more insertion.
OneMore(l, e, l2) ==
  /\ KeysIn(l2) = KeysIn(l) \cup {e.key}
  /\ LatestIn(l2, e.key) = Len(l) + 1 /\ l2[Len(l) + 1] = e
  /\ \A k \in KeysIn(l) : /\ LatestIn(l, k) \in 1..Len(l)
                          /\ k # e.key => LatestIn(l2, k) = LatestIn(l, k)
  /\ \A i \in 1..Len(l) : l2[i] = l[i]

LEMMA LatestOfNext ==
  ASSUME NEW S, NEW l \in Seq(S), NEW e \in S
  PROVE  OneMore(l, e, Append(l, e))
<1>0. PICK l2 \in Seq(S) : l2 = Append(l, e)
  <2>1. Append(l, e) \in Seq(S)
    OBVIOUS
  <2> QED  BY <2>1
<1>1. PICK n \in Nat : n = Len(l) /\ DOMAIN l = 1..n
  OBVIOUS
<1>2. /\ DOMAIN l2 = 1..(n + 1)
      /\ l2[n + 1] = e /\ \A i \in 1..n : l2[i] = l[i]
  BY <1>0, <1>1
<1>3. /\ \A i \in 1..(n + 1) : i \in 1..n \/ i = n + 1
      /\ n + 1 \in 1..(n + 1) /\ \A i \in 1..n : i \in 1..(n + 1) /\ i <= n + 1
  OBVIOUS
<1>4. KeysIn(l2) = KeysIn(l) \cup {e.key}
  BY <1>1, <1>2, <1>3 DEF KeysIn
<1>5. LatestIn(l2, e.key) = n + 1
  <2>1. /\ n + 1 \in DOMAIN l2 /\ l2[n + 1].key = e.key
        /\ \A j \in DOMAIN l2 : l2[j].key = e.key => j <= n + 1
    BY <1>2, <1>3
  <2> QED  BY <1>2, <2>1, LatestOnly
<1>6. ASSUME NEW k \in KeysIn(l)
      PROVE  LatestIn(l, k) \in 1..n /\ (k # e.key => LatestIn(l2, k) = LatestIn(l, k))
  <2> PICK i : i = LatestIn(l, k)
    OBVIOUS
  <2>1. i \in 1..n /\ l[i].key = k /\ \A j \in 1..n : l[j].key = k => j <= i
    BY <1>1, LatestIs
  <2>2. ASSUME k # e.key
        PROVE  LatestIn(l2, k) = i
    <3>1. /\ i \in DOMAIN l2 /\ l2[i].key = k
          /\ \A j \in DOMAIN l2 : l2[j].key = k => j <= i
      BY <1>2, <1>3, <2>1, <2>2
    <3>2. l2 \in Seq(S)
      OBVIOUS
    <3> QED  BY ONLY <3>1, <3>2, LatestOnly
  <2> QED  BY <2>1, <2>2
<1> QED  BY <1>0, <1>1, <1>2, <1>4, <1>5, <1>6 DEF OneMore

LEMMA OrderFinite ==
  ASSUME NEW S, NEW order \in Seq(S)
  PROVE  IsFiniteSet(ToSet(order))
<1>1. PICK n \in Nat : DOMAIN order = 1..n
  OBVIOUS
<1>2. order \in Surjection(1..n, ToSet(order))
  BY <1>1 DEF Surjection, ToSet
<1> QED  BY <1>2, FS_Surjection, FS_Interval

LEMMA SeqOfItsSet ==
  ASSUME NEW S, NEW s \in Seq(S)
  PROVE  s \in Seq(ToSet(s))
<1>1. PICK n \in Nat : DOMAIN s = 1..n /\ n = Len(s)
  OBVIOUS
<1>2. s = [i \in 1..n |-> s[i]]
  BY <1>1
<1>3. \A i \in 1..n : s[i] \in ToSet(s)
  BY <1>1 DEF ToSet
<1>4. s \in [1..n -> ToSet(s)]
  BY <1>2, <1>3
<1> QED  BY <1>4

\* Expiry removes what it may remove.
LEMMA PurgeKeepsSound ==
  ASSUME NEW c, NEW l, CacheSound(c, l, toolTime), toolTime \in Nat
  PROVE  /\ CacheSound(purge_expired(c), l, toolTime)
         /\ \A k \in DOMAIN purge_expired(c).entries : toolTime - InsertedAt(l, k) <= ToolTtl
<1> DEFINE p == purge_expired(c)
<1>1. PICK D : D = DOMAIN c.entries
  OBVIOUS
<1>2. PICK E \in SUBSET D : E = Expired(c)
  BY <1>1 DEF Expired
<1>3. /\ p.order = Without(c.order, E) /\ DOMAIN p.entries = D \ E
      /\ \A k \in D \ E : p.entries[k] = c.entries[k]
  BY <1>1, <1>2 DEF purge_expired
<1> HIDE DEF p
<1>4. /\ c.order \in Seq(D) /\ ToSet(c.order) = D /\ Ascends(c.order, Stamps(l))
      /\ D \subseteq KeysIn(l)
      /\ \A k \in D : c.entries[k].inserted_at = InsertedAt(l, k)
  BY <1>1 DEF CacheSound, ListsEntries
<1>5. \A k \in KeysIn(l) : InsertedAt(l, k) \in Nat /\ LatestIn(l, k) \in Nat
  BY LatestIs DEF CacheSound, LogSound, InsertedAt
<1>6. \A k \in D : k \in E <=> ~(toolTime - InsertedAt(l, k) <= ToolTtl)
  BY <1>1, <1>2, <1>4, <1>5, ToolsAssumption DEF Expired
<1>7. /\ p.order \in Seq(D) /\ Ascends(p.order, Stamps(l)) /\ ToSet(p.order) = D \ E
  <2> DEFINE ts == [k \in D |-> LatestIn(l, k)]
  <2>1. ts \in [D -> Int]
    BY <1>4, <1>5
  <2>2. \A order \in Seq(D) : Ascends(order, ts) <=> Ascends(order, Stamps(l))
    <3>1. \A order \in Seq(D) : \A i \in DOMAIN order : order[i] \in D
      OBVIOUS
    <3>2. \A k \in D : ts[k] = Stamps(l)[k]
      BY <1>4 DEF Stamps
    <3> HIDE DEF ts
    <3> QED  BY <3>1, <3>2 DEF Ascends
  <2> HIDE DEF ts
  <2>3. Ascends(c.order, ts)
    BY <1>4, <2>2
  <2>4. /\ Without(c.order, E) \in Seq(D) /\ Ascends(Without(c.order, E), ts)
        /\ ToSet(Without(c.order, E)) = ToSet(c.order) \ E
    BY ONLY <1>4, <2>1, <2>3, WithoutIs
  <2> QED  BY <1>3, <1>4, <2>2, <2>4
<1>8. p.order \in Seq(D \ E)
  BY <1>7 DEF ToSet
<1>9. ListsEntries(p, l)
  BY <1>1, <1>3, <1>7, <1>8 DEF CacheSound, ListsEntries
<1>10. HoldsNewest(p, l, toolTime)
  <2>1. IsFiniteSet(D)
    BY <1>4, OrderFinite
  <2>2. Cardinality(D \ E) <= Cardinality(D) /\ Cardinality(D) <= Capacity
        /\ Cardinality(D) \in Nat /\ Cardinality(D \ E) \in Nat
    BY <1>1, <2>1, FS_Subset, FS_CardinalityType DEF CacheSound, HoldsNewest
  <2>3. ASSUME NEW k \in KeysIn(l), toolTime - InsertedAt(l, k) <= ToolTtl
        PROVE  k \in D \ E <=> Cardinality(NewerIn(l, k)) < Capacity
    BY <1>1, <1>6, <2>3 DEF CacheSound, HoldsNewest
  <2> QED  BY <1>3, <2>2, <2>3, ToolsAssumption DEF HoldsNewest
<1> QED  BY <1>3, <1>6, <1>9, <1>10 DEF CacheSound, p

\* Every set of places has a first one.
LEMMA LeastOfPlaces ==
  ASSUME NEW k \in Nat, NEW s \in SUBSET (0..k), s # {}
  PROVE  \E m \in s : \A o \in s : m <= o
<1> DEFINE S == {n \in Nat : \A i \in s : n <= i}
<1>1. CASE \A n \in Nat : n \in S => n + 1 \in S
  <2>1. 0 \in S
    OBVIOUS
  <2>2. k + 1 \in S
    BY <1>1, <2>1, UpToAll
  <2>3. PICK i : i \in s
    OBVIOUS
  <2> QED  BY <2>2, <2>3
<1>2. ASSUME NEW n \in Nat, n \in S, n + 1 \notin S
      PROVE  \E m \in s : \A o \in s : m <= o
  <2>1. PICK x \in s : ~(n + 1 <= x)
    BY <1>2
  <2>2. x = n
    BY <1>2, <2>1
  <2> QED  BY <1>2, <2>2
<1> QED  BY <1>1, <1>2

\* Eviction takes a prefix of the order and no more than it has to.
LEMMA EvictIs ==
  ASSUME NEW c, NEW D, D = DOMAIN c.entries, c.order \in Seq(D), ToSet(c.order) = D,
         \A i, j \in DOMAIN c.order : c.order[i] = c.order[j] => i = j
  PROVE  \E n \in 0..Len(c.order) :
           /\ evict_oldest(c).order = SubSeq(c.order, n + 1, Len(c.order))
           /\ DOMAIN evict_oldest(c).entries = {c.order[i] : i \in (n + 1)..Len(c.order)}
           /\ \A k \in DOMAIN evict_oldest(c).entries : evict_oldest(c).entries[k] = c.entries[k]
           /\ Cardinality(DOMAIN evict_oldest(c).entries) <= Capacity
           /\ n > 0 => Cardinality(DOMAIN evict_oldest(c).entries) >= Capacity
<1> DEFINE Gone(n) == {c.order[i] : i \in 1 .. n}
           Left(n) == DOMAIN c.entries \ Gone(n)
           Enough == {n \in 0 .. Len(c.order) : Cardinality(Left(n)) <= Capacity \/ n = Len(c.order)}
           n == CHOOSE m \in Enough : \A o \in Enough : m <= o
<1>1. PICK k \in Nat : k = Len(c.order) /\ DOMAIN c.order = 1..k
  OBVIOUS
<1>2. IsFiniteSet(D) /\ \A m \in 0..k : IsFiniteSet(Left(m)) /\ Cardinality(Left(m)) \in Nat
  <2>1. IsFiniteSet(D)
    BY OrderFinite
  <2>2. \A m \in 0..k : Left(m) \in SUBSET D
    OBVIOUS
  <2> QED  BY <2>1, <2>2, FS_Subset, FS_CardinalityType
<1>3. n \in Enough /\ \A o \in Enough : n <= o
  <2>1. k \in Enough /\ Enough \in SUBSET (0..k)
    BY <1>1
  <2>2. \E m \in Enough : \A o \in Enough : m <= o
    <3> HIDE DEF Enough
    <3> QED  BY <2>1, LeastOfPlaces
  <2> HIDE DEF Enough
  <2> QED  BY <2>2
<1>4. n \in 0..k /\ (Cardinality(Left(n)) <= Capacity \/ n = k)
  BY <1>1, <1>3
<1>5. /\ evict_oldest(c).order = SubSeq(c.order, n + 1, Len(c.order))
      /\ evict_oldest(c).entries = [j \in Left(n) |-> c.entries[j]]
  BY DEF evict_oldest
<1>6. \A m \in 0..k : m \notin Enough => Cardinality(Left(m)) > Capacity
  <2> HIDE DEF Left
  <2> QED  BY <1>1, <1>2, ToolsAssumption
<1>7. \A m \in 0..k : m < n => Cardinality(Left(m)) > Capacity
  <2> HIDE DEF Left, n, Enough
  <2>1. n \in Int
    BY <1>4
  <2>2. \A m \in 0..k : m < n => m \notin Enough
    BY <1>3, <2>1
  <2> QED  BY <1>6, <2>2
<1> HIDE DEF n, Enough
<1>8. PICK m \in 0..k : m = n
  BY <1>4
<1>9. Left(m) = {c.order[i] : i \in (m + 1)..k}
  <2>1. \A i \in 1..k : i \in 1..m \/ i \in (m + 1)..k
    OBVIOUS
  <2>2. \A i \in (m + 1)..k : i \in 1..k /\ \A j \in 1..m : j \in 1..k /\ i # j
    OBVIOUS
  <2>3. \A i \in (m + 1)..k : c.order[i] \in D /\ c.order[i] \notin Gone(m)
    <3>1. ASSUME NEW i \in (m + 1)..k, NEW j \in 1..m, c.order[i] = c.order[j]
          PROVE  FALSE
      BY <1>1, <2>2, <3>1
    <3> QED  BY <1>1, <2>2, <3>1
  <2>4. ASSUME NEW x \in D, x \notin Gone(m)
        PROVE  \E i \in (m + 1)..k : c.order[i] = x
    <3>1. PICK i \in 1..k : c.order[i] = x
      BY <1>1 DEF ToSet
    <3> QED  BY <2>1, <2>4, <3>1
  <2> QED  BY <2>3, <2>4
<1>10. m = k => Cardinality(Left(m)) = 0
  <2>1. (k + 1)..k = {}
    OBVIOUS
  <2> QED  BY <1>9, <2>1, FS_EmptySet
<1>11. Cardinality(Left(m)) <= Capacity
  BY <1>4, <1>8, <1>10, ToolsAssumption
<1>12. ASSUME m > 0
       PROVE  Cardinality(Left(m)) >= Capacity
  <2>1. m - 1 \in 0..k /\ m \in 1..k /\ m \notin 1..(m - 1)
    BY <1>12
  <2>2. Cardinality(Left(m - 1)) > Capacity
    <3> HIDE DEF Left
    <3> QED  BY <1>7, <1>8, <2>1
  <2>3. Left(m) = Left(m - 1) \ {c.order[m]}
    <3>1. \A i \in 1..m : i \in 1..(m - 1) \/ i = m
      BY <2>1
    <3>2. m \in 1..m /\ \A i \in 1..(m - 1) : i \in 1..m
      BY <2>1
    <3>3. Gone(m) = Gone(m - 1) \cup {c.order[m]}
      BY <3>1, <3>2
    <3> HIDE DEF Gone
    <3> QED  BY <3>3
  <2> HIDE DEF Left
  <2>4. Cardinality(Left(m)) >= Cardinality(Left(m - 1)) - 1
    <3>1. PICK s : s = Left(m - 1)
      OBVIOUS
    <3>2. IsFiniteSet(s) /\ Cardinality(s) \in Nat
      BY <1>2, <2>1, <3>1
    <3>3. Cardinality(s \ {c.order[m]}) >= Cardinality(s) - 1
      <4> PICK x : x = c.order[m]
        OBVIOUS
      <4>1. Cardinality(s \ {x}) = IF x \in s THEN Cardinality(s) - 1 ELSE Cardinality(s)
        BY <3>2, FS_RemoveElement
      <4> QED  BY <3>2, <4>1
    <3> QED  BY <2>3, <3>1, <3>3
  <2> QED  BY <1>2, <2>1, <2>2, <2>4, ToolsAssumption
<1> HIDE DEF Left
<1>13. /\ evict_oldest(c).order = SubSeq(c.order, m + 1, Len(c.order))
       /\ DOMAIN evict_oldest(c).entries = Left(m)
       /\ \A j \in DOMAIN evict_oldest(c).entries : evict_oldest(c).entries[j] = c.entries[j]
  BY <1>5, <1>8
<1> QED  BY <1>1, <1>9, <1>11, <1>12, <1>13

LEMMA InsertKeepsSound ==
  ASSUME NEW c, NEW l, CacheSound(c, l, toolTime), toolTime \in Nat, NEW key, NEW value,
         NEW l2, l2 = Append(l, [key |-> key, value |-> value, at |-> toolTime])
  PROVE  CacheSound(Inserted(c, key, value), l2, toolTime)
<1> DEFINE p0 == purge_expired(c)
           e0 == [value |-> value, inserted_at |-> toolTime]
           d0 == [entries |-> [k \in DOMAIN p0.entries \cup {key} |->
                                 IF k = key THEN e0 ELSE p0.entries[k]],
                  order |-> Append(Without(p0.order, {key} \cap DOMAIN p0.entries), key)]
<1>1. Inserted(c, key, value) = evict_oldest(d0)
  BY DEF Inserted
<1>2. CacheSound(p0, l, toolTime) /\ \A k \in DOMAIN p0.entries : toolTime - InsertedAt(l, k) <= ToolTtl
  BY PurgeKeepsSound
<1>3. PICK e : e = [key |-> key, value |-> value, at |-> toolTime]
  OBVIOUS
<1>4. PICK p, d : p = p0 /\ d = d0
  OBVIOUS
<1>5. PICK B : B = DOMAIN p.entries
  OBVIOUS
<1>6. /\ DOMAIN d.entries = B \cup {key}
      /\ \A k \in B : k # key => d.entries[k] = p.entries[k]
      /\ d.entries[key] = e0
      /\ d.order = Append(Without(p.order, {key} \cap B), key)
  BY <1>4, <1>5
<1> HIDE DEF p0, d0
<1>7. CacheSound(p, l, toolTime) /\ \A k \in B : toolTime - InsertedAt(l, k) <= ToolTtl
  BY <1>2, <1>4, <1>5
\* The log
<1>8. PICK n \in Nat : n = Len(l) /\ DOMAIN l = 1..n
  BY <1>7 DEF CacheSound, LogSound
<1>9. /\ l \in Seq(ToSet(l)) /\ l2 = Append(l, e) /\ e.key = key /\ e.at = toolTime /\ e.value = value
  BY <1>3, <1>7 DEF CacheSound, LogSound
<1>10. /\ l2 \in Seq(ToSet(l) \cup {e})
       /\ KeysIn(l2) = KeysIn(l) \cup {key}
       /\ LatestIn(l2, key) = n + 1 /\ l2[n + 1] = e
       /\ \A k \in KeysIn(l) : /\ LatestIn(l, k) \in 1..n
                               /\ k # key => LatestIn(l2, k) = LatestIn(l, k)
       /\ \A i \in 1..n : l2[i] = l[i]
  <2>1. PICK S : S = ToSet(l) \cup {e}
    OBVIOUS
  <2>2. l \in Seq(S) /\ e \in S
    BY <1>9, <2>1
  <2>3. OneMore(l, e, l2)
    BY <1>9, <2>2, LatestOfNext
  <2> QED  BY <1>8, <1>9, <2>1, <2>2, <2>3 DEF OneMore
<1>11. DOMAIN l2 = 1..(n + 1) /\ \A i \in 1..(n + 1) : i \in 1..n \/ i = n + 1
  BY <1>8, <1>9
<1>12. LogSound(l2, toolTime)
  <2>1. l2 \in Seq(ToSet(l2))
    BY <1>10 DEF ToSet
  <2>2. \A i \in DOMAIN l2 : l2[i].at \in Nat /\ l2[i].at <= toolTime
    BY <1>7, <1>8, <1>9, <1>10, <1>11 DEF CacheSound, LogSound
  <2>3. ASSUME NEW i \in 1..(n + 1), NEW j \in 1..(n + 1), i < j
        PROVE  l2[i].at <= l2[j].at
    <3>1. i \in 1..n
      BY <2>3
    <3>2. CASE j = n + 1
      BY <1>9, <1>10, <1>11, <2>2, <3>1, <3>2
    <3>3. CASE j \in 1..n
      <4>1. l[i].at <= l[j].at
        BY <1>7, <1>8, <2>3, <3>1, <3>3 DEF CacheSound, LogSound
      <4> QED  BY <1>10, <3>1, <3>3, <4>1
    <3> QED  BY <1>11, <3>2, <3>3
  <2> QED  BY <1>11, <2>1, <2>2, <2>3 DEF LogSound
\* The middle state, before the eviction
<1>13. PICK ts : ts = Stamps(l2)
  OBVIOUS
<1>14. /\ ts \in [KeysIn(l2) -> Int] /\ ts[key] = n + 1
       /\ \A k \in KeysIn(l) : k # key => ts[k] = LatestIn(l, k) /\ ts[k] < n + 1
       /\ \A k \in KeysIn(l2) : ts[k] = LatestIn(l2, k)
  BY <1>10, <1>13 DEF Stamps
<1>15. /\ p.order \in Seq(B) /\ ToSet(p.order) = B /\ Ascends(p.order, Stamps(l))
       /\ B \subseteq KeysIn(l)
       /\ \A k \in B : /\ p.entries[k].value = l[LatestIn(l, k)].value
                       /\ p.entries[k].inserted_at = InsertedAt(l, k)
  BY <1>5, <1>7 DEF CacheSound, ListsEntries
<1>16. PICK rest : rest = Without(p.order, {key} \cap B)
  OBVIOUS
<1>17. /\ rest \in Seq(B) /\ Ascends(rest, Stamps(l)) /\ ToSet(rest) = B \ {key}
  <2> PICK old : old = [k \in B |-> LatestIn(l, k)]
    OBVIOUS
  <2>1. old \in [B -> Int] /\ \A k \in B : old[k] = Stamps(l)[k]
    BY <1>10, <1>15 DEF Stamps
  <2>2. \A order \in Seq(B) : \A i \in DOMAIN order : order[i] \in B
    OBVIOUS
  <2>3. \A order \in Seq(B) : Ascends(order, old) <=> Ascends(order, Stamps(l))
    BY <2>1, <2>2 DEF Ascends
  <2>4. Ascends(p.order, old)
    BY <1>15, <2>3
  <2>5. PICK leaving \in SUBSET B : leaving = {key} \cap B
    OBVIOUS
  <2>6. /\ Without(p.order, leaving) \in Seq(B) /\ Ascends(Without(p.order, leaving), old)
        /\ ToSet(Without(p.order, leaving)) = ToSet(p.order) \ leaving
    <3>1. p.order \in Seq(B) /\ old \in [B -> Int] /\ Ascends(p.order, old)
      BY <1>15, <2>1, <2>4
    <3> QED  BY <3>1, WithoutIs
  <2>7. ToSet(p.order) \ leaving = B \ {key}
    BY <1>15, <2>5
  <2> QED  BY <1>16, <2>3, <2>5, <2>6, <2>7
<1>18. PICK D : D = B \cup {key}
  OBVIOUS
<1>19. /\ d.order \in Seq(KeysIn(l2)) /\ Ascends(d.order, ts) /\ ToSet(d.order) = D
  <2>1. rest \in Seq(KeysIn(l2)) /\ key \in KeysIn(l2)
    BY <1>10, <1>15, <1>17
  <2>2. \A i \in DOMAIN rest : rest[i] \in B /\ rest[i] # key
    BY <1>17 DEF ToSet
  <2>3. \A i \in DOMAIN rest : ts[rest[i]] = Stamps(l)[rest[i]] /\ ts[rest[i]] < ts[key]
    BY <1>14, <1>15, <2>2 DEF Stamps
  <2>4. Ascends(rest, ts)
    BY <1>17, <2>3 DEF Ascends
  <2>5. ts \in [KeysIn(l2) -> Int] /\ \A i \in DOMAIN rest : ts[rest[i]] < ts[key]
    BY <1>14, <2>3
  <2>6. PICK S : S = KeysIn(l2)
    OBVIOUS
  <2>7. rest \in Seq(S) /\ key \in S /\ ts \in [S -> Int]
    BY <2>1, <2>5, <2>6
  <2>8. /\ Append(rest, key) \in Seq(S) /\ Ascends(Append(rest, key), ts)
        /\ \A x : x \in ToSet(Append(rest, key)) <=> x \in ToSet(rest) \/ x = key
    BY ONLY <2>4, <2>5, <2>7, AppendAscends
  <2> QED  BY <1>6, <1>16, <1>17, <1>18, <2>6, <2>8
<1>20. /\ \A k \in D : /\ k \in KeysIn(l2)
                       /\ d.entries[k].value = l2[LatestIn(l2, k)].value
                       /\ d.entries[k].inserted_at = InsertedAt(l2, k)
  <2>1. /\ d.entries[key].value = l2[LatestIn(l2, key)].value
        /\ d.entries[key].inserted_at = InsertedAt(l2, key)
    <3>1. l2[LatestIn(l2, key)] = e
      BY <1>10
    <3>2. d.entries[key].value = value /\ d.entries[key].inserted_at = toolTime
      BY <1>6
    <3> QED  BY <1>9, <3>1, <3>2 DEF InsertedAt
  <2>2. ASSUME NEW k \in B, k # key
        PROVE  /\ d.entries[k].value = l2[LatestIn(l2, k)].value
               /\ d.entries[k].inserted_at = InsertedAt(l2, k)
    <3>1. l2[LatestIn(l2, k)] = l[LatestIn(l, k)]
      BY <1>10, <1>15, <2>2
    <3> QED  BY <1>6, <1>15, <2>2, <3>1 DEF InsertedAt
  <2> QED  BY <1>10, <1>15, <1>18, <2>1, <2>2
\* The eviction
<1>21. d.order \in Seq(D) /\ DOMAIN d.entries = D
  BY <1>6, <1>18, <1>19, SeqOfItsSet
<1>22. \A i, j \in DOMAIN d.order : d.order[i] = d.order[j] => i = j
  <2>1. PICK S : S = KeysIn(l2)
    OBVIOUS
  <2>2. d.order \in Seq(S) /\ ts \in [S -> Int] /\ Ascends(d.order, ts)
    BY <1>14, <1>19, <2>1
  <2> QED  BY ONLY <2>2, AscendsOnce
<1>23. PICK r : r = evict_oldest(d)
  OBVIOUS
<1>24. PICK m \in 0..Len(d.order) :
         /\ r.order = SubSeq(d.order, m + 1, Len(d.order))
         /\ DOMAIN r.entries = {d.order[i] : i \in (m + 1)..Len(d.order)}
         /\ \A k \in DOMAIN r.entries : r.entries[k] = d.entries[k]
         /\ Cardinality(DOMAIN r.entries) <= Capacity
         /\ m > 0 => Cardinality(DOMAIN r.entries) >= Capacity
  BY <1>19, <1>21, <1>22, <1>23, EvictIs
<1>25. PICK q \in Nat : q = Len(d.order) /\ DOMAIN d.order = 1..q
  BY <1>21
<1>26. PICK L : L = DOMAIN r.entries
  OBVIOUS
<1>27. L \subseteq D /\ \A i \in (m + 1)..q : i \in 1..q
  <2>1. \A i \in (m + 1)..q : i \in 1..q
    BY <1>25
  <2>2. \A i \in 1..q : d.order[i] \in D
    BY <1>19, <1>25 DEF ToSet
  <2> QED  BY <1>24, <1>25, <1>26, <2>1, <2>2
<1>28. /\ r.order \in Seq(D) /\ DOMAIN r.order = 1..(q - m)
       /\ \A i \in 1..(q - m) : r.order[i] = d.order[m + i] /\ m + i \in (m + 1)..q
  BY <1>21, <1>24, <1>25
<1>29. ToSet(r.order) = L
  <2>1. \A i \in (m + 1)..q : i - m \in 1..(q - m) /\ m + (i - m) = i
    OBVIOUS
  <2>2. L = {d.order[i] : i \in (m + 1)..q}
    BY <1>24, <1>25, <1>26
  <2>3. \A x \in L : \E i \in 1..(q - m) : r.order[i] = x
    <3> SUFFICES ASSUME NEW x \in L
                 PROVE  \E i \in 1..(q - m) : r.order[i] = x
      OBVIOUS
    <3>1. PICK i \in (m + 1)..q : d.order[i] = x
      BY <2>2
    <3>2. r.order[i - m] = d.order[m + (i - m)]
      BY <1>28, <2>1
    <3> QED  BY <2>1, <3>1, <3>2
  <2>4. \A i \in 1..(q - m) : r.order[i] \in L
    BY <1>28, <2>2
  <2> QED  BY <1>28, <2>3, <2>4 DEF ToSet
<1>30. ListsEntries(r, l2)
  <2>1. r.order \in Seq(L)
    BY <1>28, <1>29, SeqOfItsSet
  <2>2. Ascends(r.order, ts)
    <3> SUFFICES ASSUME NEW i \in 1..(q - m), NEW j \in 1..(q - m), i < j
                 PROVE  ts[r.order[i]] < ts[r.order[j]]
      BY <1>28 DEF Ascends
    <3>1. m + i \in 1..q /\ m + j \in 1..q /\ m + i < m + j
      BY <1>27, <1>28
    <3> QED  BY <1>19, <1>25, <1>28, <3>1 DEF Ascends
  <2>3. \A k \in L : r.entries[k] = d.entries[k]
    BY <1>24, <1>26
  <2> QED  BY <1>13, <1>20, <1>26, <1>27, <1>29, <2>1, <2>2, <2>3 DEF ListsEntries
\* What is evicted is older than what stays.
<1>31. ASSUME NEW j \in D, j \notin L, NEW k \in L
       PROVE  ts[j] < ts[k] /\ m > 0
  <2>1. PICK i \in 1..q : d.order[i] = j
    BY <1>19, <1>25, <1>31 DEF ToSet
  <2>2. PICK h \in (m + 1)..q : d.order[h] = k
    BY <1>24, <1>25, <1>26, <1>31
  <2>3. i \notin (m + 1)..q
    BY <1>24, <1>25, <1>26, <1>31, <2>1
  <2>4. i < h /\ h \in 1..q /\ m > 0
    BY <1>25, <1>27, <2>3
  <2> QED  BY <1>19, <1>25, <2>1, <2>2, <2>4 DEF Ascends
<1>32. ASSUME NEW j \in D, j \notin L
       PROVE  m > 0
  <2>1. PICK i \in 1..q : d.order[i] = j
    BY <1>19, <1>25, <1>32 DEF ToSet
  <2>2. i \notin (m + 1)..q
    BY <1>24, <1>25, <1>26, <1>32, <2>1
  <2> QED  BY <1>25, <2>2
<1>33. IsFiniteSet(L) /\ Cardinality(L) \in Nat
  BY <1>28, <1>29, OrderFinite, FS_CardinalityType
<1>34. \A k : /\ IsFiniteSet(NewerIn(l, k)) /\ Cardinality(NewerIn(l, k)) \in Nat
              /\ IsFiniteSet(NewerIn(l2, k)) /\ Cardinality(NewerIn(l2, k)) \in Nat
  BY <1>9, <1>10, NewerFinite
<1>35. /\ \A k \in KeysIn(l2) : \A j : j \in NewerIn(l2, k) <=> j \in KeysIn(l2) /\ ts[j] > ts[k]
       /\ \A k \in KeysIn(l) : k # key => InsertedAt(l2, k) = InsertedAt(l, k)
  BY <1>10, <1>14 DEF NewerIn, InsertedAt
\* A later insertion was not made earlier.
<1>36. ASSUME NEW k \in KeysIn(l), NEW j \in KeysIn(l), LatestIn(l, j) > LatestIn(l, k),
              toolTime - InsertedAt(l, k) <= ToolTtl
       PROVE  toolTime - InsertedAt(l, j) <= ToolTtl
  <2>1. LatestIn(l, j) \in DOMAIN l /\ LatestIn(l, k) \in DOMAIN l
    BY <1>8, <1>10
  <2>2. /\ InsertedAt(l, k) \in Nat /\ InsertedAt(l, j) \in Nat
        /\ InsertedAt(l, k) <= InsertedAt(l, j)
    BY <1>7, <1>36, <2>1 DEF CacheSound, LogSound, InsertedAt
  <2> QED  BY <1>36, <2>2, ToolsAssumption
\* What came after an entry that is there, is there.
<1>37. ASSUME NEW k \in B, NEW j \in KeysIn(l), LatestIn(l, j) > LatestIn(l, k)
       PROVE  j \in B
  <2>1. k \in KeysIn(l) /\ toolTime - InsertedAt(l, k) <= ToolTtl
    BY <1>7, <1>15
  <2>2. toolTime - InsertedAt(l, j) <= ToolTtl
    BY <1>36, <1>37, <2>1
  <2>3. Cardinality(NewerIn(l, k)) < Capacity
    BY <1>5, <1>7, <2>1 DEF CacheSound, HoldsNewest
  <2>4. NewerIn(l, j) \in SUBSET NewerIn(l, k)
    <3>1. \A i \in KeysIn(l) : LatestIn(l, i) \in Nat
      BY <1>10
    <3> QED  BY <1>37, <2>1, <3>1 DEF NewerIn
  <2>5. Cardinality(NewerIn(l, j)) <= Cardinality(NewerIn(l, k))
    BY <1>34, <2>4, FS_Subset
  <2>6. Cardinality(NewerIn(l, j)) < Capacity
    BY <1>34, <2>3, <2>5, ToolsAssumption
  <2> QED  BY <1>5, <1>7, <2>2, <2>6 DEF CacheSound, HoldsNewest
<1>38. ASSUME NEW k \in L
       PROVE  Cardinality(NewerIn(l2, k)) < Capacity
  <2>0. k \in D /\ k \in KeysIn(l2)
    BY <1>20, <1>27
  <2>1. ASSUME NEW j \in NewerIn(l2, k)
        PROVE  j \in L \ {k}
    <3>1. j \in KeysIn(l2) /\ ts[j] > ts[k]
      BY <1>35, <2>0
    <3>2. ts[j] \in Int /\ ts[k] \in Int
      BY <1>14, <2>0, <3>1
    <3>3. j # k
      BY <3>1, <3>2
    <3>4. j \in D
      <4>1. CASE j = key
        BY <1>18, <4>1
      <4>2. CASE j # key
        <5>1. j \in KeysIn(l) /\ ts[j] = LatestIn(l, j) /\ ts[j] < n + 1
          BY <1>10, <1>14, <3>1, <4>2
        <5>2. k # key
          BY <1>14, <3>1, <3>2, <5>1
        <5>3. k \in B
          BY <1>18, <2>0, <5>2
        <5>4. LatestIn(l, j) > LatestIn(l, k)
          BY <1>14, <1>15, <3>1, <5>1, <5>2, <5>3
        <5> QED  BY <1>18, <1>37, <5>1, <5>3, <5>4
      <4> QED  BY <4>1, <4>2
    <3>5. j \in L
      BY <1>31, <3>1, <3>2, <3>4
    <3> QED  BY <3>3, <3>5
  <2>2. NewerIn(l2, k) \in SUBSET (L \ {k})
    BY <2>1
  <2>3. IsFiniteSet(L \ {k}) /\ Cardinality(L \ {k}) = Cardinality(L) - 1
    BY <1>33, FS_RemoveElement
  <2>4. Cardinality(NewerIn(l2, k)) <= Cardinality(L \ {k})
    BY <2>2, <2>3, FS_Subset
  <2>5. Cardinality(L) <= Capacity
    BY <1>24, <1>26
  <2> QED  BY <1>33, <1>34, <2>3, <2>4, <2>5, ToolsAssumption
<1>39. ASSUME NEW k \in KeysIn(l2), k \notin L, toolTime - InsertedAt(l2, k) <= ToolTtl
       PROVE  ~(Cardinality(NewerIn(l2, k)) < Capacity)
  <2>1. CASE k \in D
    <3>1. Cardinality(L) >= Capacity
      BY <1>24, <1>26, <1>32, <1>39, <2>1
    <3>2. L \in SUBSET NewerIn(l2, k)
      <4>1. ASSUME NEW j \in L
            PROVE  j \in NewerIn(l2, k)
        <5>1. ts[k] < ts[j] /\ j \in KeysIn(l2)
          BY <1>20, <1>27, <1>31, <1>39, <2>1
        <5>2. ts[j] \in Int /\ ts[k] \in Int
          BY <1>14, <5>1
        <5> QED  BY <1>35, <5>1, <5>2
      <4> QED  BY <4>1
    <3>3. Cardinality(L) <= Cardinality(NewerIn(l2, k))
      BY <1>34, <3>2, FS_Subset
    <3> QED  BY <1>33, <1>34, <3>1, <3>3, ToolsAssumption
  <2>2. CASE k \notin D
    <3>1. k # key /\ k \in KeysIn(l) /\ k \notin B
      BY <1>10, <1>18, <2>2
    <3>2. toolTime - InsertedAt(l, k) <= ToolTtl
      BY <1>35, <1>39, <3>1
    <3>3. ~(Cardinality(NewerIn(l, k)) < Capacity)
      BY <1>5, <1>7, <3>1, <3>2 DEF CacheSound, HoldsNewest
    <3>4. NewerIn(l, k) \in SUBSET NewerIn(l2, k)
      <4>1. ASSUME NEW j \in NewerIn(l, k)
            PROVE  j \in NewerIn(l2, k)
        <5>1. j \in KeysIn(l) /\ LatestIn(l, j) > LatestIn(l, k)
          BY DEF NewerIn
        <5>2. j \in KeysIn(l2) /\ ts[k] = LatestIn(l, k) /\ ts[k] < n + 1
          BY <1>10, <1>14, <3>1, <5>1
        <5>3. CASE j = key
          BY <1>14, <1>35, <5>2, <5>3
        <5>4. CASE j # key
          BY <1>14, <1>35, <5>1, <5>2, <5>4
        <5> QED  BY <5>3, <5>4
      <4> QED  BY <4>1
    <3>5. Cardinality(NewerIn(l, k)) <= Cardinality(NewerIn(l2, k))
      BY <1>34, <3>4, FS_Subset
    <3> QED  BY <1>34, <3>3, <3>5, ToolsAssumption
  <2> QED  BY <2>1, <2>2
<1>40. HoldsNewest(r, l2, toolTime)
  BY <1>24, <1>26, <1>38, <1>39 DEF HoldsNewest
<1>41. Inserted(c, key, value) = r
  BY <1>1, <1>4, <1>23
<1> QED  BY <1>12, <1>30, <1>40, <1>41 DEF CacheSound

-----------------------------------------------------------------------------
(* The answers of the content tools *)

\* A read of a url with an instruction that is stored under a key.
Reads(url, instruction, key) ==
  url \in Urls /\ instruction \in Instructions /\ key = read_key(url, instruction)

\* An entry answers the call it was made for, and its value was fetched no
\* longer ago than a call takes; this is all that an answer from it rests on.
EntryIsSound(c, k, e) ==
  /\ e.inserted_at \in Nat /\ e.value.at \in Nat
  /\ e.inserted_at - e.value.at <= 2 * MaxToolCall
  /\ c = "search" => k = search_key(e.value.query, k[2]) /\ e.value.n <= k[2]
  /\ c = "read" => Reads(e.value.url, e.value.instruction, k)

EntriesAreSound ==
  /\ DOMAIN toolCache = Caches /\ toolCache = [c \in Caches |-> toolCache[c]]
  /\ \A c \in Caches : \A k \in DOMAIN toolCache[c].entries :
       EntryIsSound(c, k, toolCache[c].entries[k])

\* A call under way is stored under what it asks, and no request takes longer
\* than it may.
CallIsSound(v) ==
  /\ v.st = "searching" =>
       /\ v.call.tool = "search" /\ v.call.max \in Nat
       /\ v.key = search_key(v.call.query, v.call.max)
  /\ v.st \in {"fetching", "analyzing"} =>
       /\ v.call.tool = "read" /\ Reads(v.call.url, v.call.instruction, v.key)
       /\ v.caps \in [Buckets -> Nat]
  /\ v.st = "analyzing" =>
       /\ v.fetched \in Nat /\ v.since - v.fetched <= MaxToolCall
       /\ v.bytes <= v.caps[v.bucket]
       /\ v.bucket # "text" => v.payload <= Base64(v.caps[v.bucket])

InTime(v) ==
  v.st \in {"searching", "fetching", "analyzing"} =>
    v.since \in Nat /\ toolTime - v.since <= MaxToolCall

CInv ==
  /\ toolTime \in Nat /\ limits \in Limits
  /\ EntriesAreSound /\ CallIsSound(tool) /\ InTime(tool) /\ AnswersMeetTheCall

LEMMA ContentStart == ContentInit => CInv
  BY DEF ContentInit, CInv, EntriesAreSound, CallIsSound, InTime, AnswersMeetTheCall, NoEntries

\* Neither the expiry nor the eviction makes an entry.
LEMMA PurgeKeepsEntries ==
  ASSUME NEW c, NEW k \in DOMAIN purge_expired(c).entries
  PROVE  /\ k \in DOMAIN c.entries /\ purge_expired(c).entries[k] = c.entries[k]
         /\ ~(toolTime - c.entries[k].inserted_at > ToolTtl)
  BY DEF purge_expired, Expired

LEMMA EvictKeepsEntries ==
  ASSUME NEW c, NEW k \in DOMAIN evict_oldest(c).entries
  PROVE  k \in DOMAIN c.entries /\ evict_oldest(c).entries[k] = c.entries[k]
  BY DEF evict_oldest

LEMMA InsertedEntries ==
  ASSUME NEW c, NEW key, NEW value, NEW k \in DOMAIN Inserted(c, key, value).entries
  PROVE  \/ k = key /\ Inserted(c, key, value).entries[k] =
                         [value |-> value, inserted_at |-> toolTime]
         \/ k \in DOMAIN c.entries /\ Inserted(c, key, value).entries[k] = c.entries[k]
<1> DEFINE p == purge_expired(c)
           entry == [value |-> value, inserted_at |-> toolTime]
           d == [entries |-> [j \in DOMAIN p.entries \cup {key} |->
                                IF j = key THEN entry ELSE p.entries[j]],
                 order |-> Append(Without(p.order, {key} \cap DOMAIN p.entries), key)]
<1>1. Inserted(c, key, value) = evict_oldest(d)
  BY DEF Inserted
<1>2. /\ DOMAIN d.entries = DOMAIN p.entries \cup {key}
      /\ \A j \in DOMAIN d.entries : d.entries[j] = IF j = key THEN entry ELSE p.entries[j]
  OBVIOUS
<1> HIDE DEF d, p
<1>3. k \in DOMAIN d.entries /\ Inserted(c, key, value).entries[k] = d.entries[k]
  BY <1>1, EvictKeepsEntries
<1>4. CASE k # key
  <2>1. k \in DOMAIN p.entries /\ d.entries[k] = p.entries[k]
    BY <1>2, <1>3, <1>4
  <2> QED  BY <2>1, <1>3, PurgeKeepsEntries DEF p
<1> QED  BY <1>2, <1>3, <1>4

LEMMA GetKeeps ==
  ASSUME CInv, NEW c \in Caches, get(c)
  PROVE  EntriesAreSound'
<1>1. \A d \in Caches : toolCache'[d] = IF d = c THEN purge_expired(toolCache[c]) ELSE toolCache[d]
  BY DEF CInv, EntriesAreSound, get
<1>2. DOMAIN toolCache' = Caches /\ toolCache' = [d \in Caches |-> toolCache'[d]]
  BY DEF CInv, EntriesAreSound, get
<1>3. ASSUME NEW d \in Caches, NEW k \in DOMAIN toolCache'[d].entries
      PROVE  EntryIsSound(d, k, toolCache'[d].entries[k])
  <2>1. k \in DOMAIN toolCache[d].entries /\ toolCache'[d].entries[k] = toolCache[d].entries[k]
    BY <1>1, <1>3, PurgeKeepsEntries
  <2> QED  BY <2>1 DEF CInv, EntriesAreSound
<1> QED  BY <1>2, <1>3 DEF EntriesAreSound, EntryIsSound

LEMMA InsertKeeps ==
  ASSUME CInv, NEW c \in Caches, NEW key, NEW value, insert(c, key, value),
         EntryIsSound(c, key, [value |-> value, inserted_at |-> toolTime])
  PROVE  EntriesAreSound'
<1>1. \A d \in Caches :
        toolCache'[d] = IF d = c THEN Inserted(toolCache[c], key, value) ELSE toolCache[d]
  BY DEF CInv, EntriesAreSound, insert
<1>2. DOMAIN toolCache' = Caches /\ toolCache' = [d \in Caches |-> toolCache'[d]]
  BY DEF CInv, EntriesAreSound, insert
<1>3. ASSUME NEW d \in Caches, NEW k \in DOMAIN toolCache'[d].entries
      PROVE  EntryIsSound(d, k, toolCache'[d].entries[k])
  <2>1. CASE d = c
    BY <1>1, <1>3, <2>1, InsertedEntries DEF CInv, EntriesAreSound
  <2>2. CASE d # c
    BY <1>1, <1>3, <2>2 DEF CInv, EntriesAreSound
  <2> QED  BY <2>1, <2>2
<1> QED  BY <1>2, <1>3 DEF EntriesAreSound, EntryIsSound

\* A hit answers with an entry that has not expired.
LEMMA HitIsFresh ==
  ASSUME CInv, NEW c \in Caches, NEW key, Hit(c, key)
  PROVE  /\ EntryIsSound(c, key, toolCache[c].entries[key])
         /\ toolTime - toolCache[c].entries[key].value.at <= ToolTtl + 2 * MaxToolCall
<1> DEFINE e == toolCache[c].entries[key]
<1>1. key \in DOMAIN toolCache[c].entries /\ ~(toolTime - e.inserted_at > ToolTtl)
  BY PurgeKeepsEntries DEF Hit
<1>2. EntryIsSound(c, key, e)
  BY <1>1 DEF CInv, EntriesAreSound
<1> HIDE DEF e
<1>3. toolTime - e.value.at <= ToolTtl + 2 * MaxToolCall
  BY <1>1, <1>2, ToolsAssumption DEF CInv, EntryIsSound
<1> QED  BY <1>2, <1>3 DEF e

\* A key of two pieces has one of the url and one of the instruction.
LEMMA TwoPieces ==
  ASSUME NEW a \in Texts, NEW b \in Texts, NEW c \in Texts, NEW d \in Texts,
         a \o b = c \o d, Len(c \o d) = 2
  PROVE  a = c /\ b = d
<1>1. /\ a \in Seq(Pieces) /\ b \in Seq(Pieces) /\ c \in Seq(Pieces) /\ d \in Seq(Pieces)
      /\ Len(a) # 0 /\ Len(b) # 0 /\ Len(c) # 0 /\ Len(d) # 0
  BY EmptySeq DEF Texts
<1>2. Len(a \o b) = Len(a) + Len(b) /\ Len(c \o d) = Len(c) + Len(d)
  BY <1>1
<1>3. Len(a) = 1 /\ Len(b) = 1 /\ Len(c) = 1 /\ Len(d) = 1
  <2>1. /\ Len(a) \in Nat /\ Len(b) \in Nat /\ Len(c) \in Nat /\ Len(d) \in Nat
        /\ Len(a) # 0 /\ Len(b) # 0 /\ Len(c) # 0 /\ Len(d) # 0
    BY <1>1
  <2>2. Len(a) + Len(b) = 2 /\ Len(c) + Len(d) = 2
    BY <1>2
  <2>3. \A m, n \in Nat : m # 0 /\ n # 0 /\ m + n = 2 => m = 1 /\ n = 1
    OBVIOUS
  <2> QED  BY ONLY <2>1, <2>2, <2>3
<1>4. /\ (a \o b)[1] = a[1] /\ (a \o b)[2] = b[1]
      /\ (c \o d)[1] = c[1] /\ (c \o d)[2] = d[1]
  BY <1>1, <1>3
<1>5. a = <<a[1]>> /\ b = <<b[1]>> /\ c = <<c[1]>> /\ d = <<d[1]>>
  BY <1>1, <1>3
<1> QED  BY <1>4, <1>5

\* What was read under the key of a call meets it.
LEMMA SameKey ==
  ASSUME NEW url, NEW instruction, NEW url2, NEW instruction2, NEW key,
         Reads(url, instruction, key), Reads(url2, instruction2, key)
  PROVE  LET asked == normalize_url(url) \o instruction
         IN /\ normalize_url(url2) \o instruction2 = asked
            /\ Len(asked) = 2 => normalize_url(url2) = normalize_url(url) /\ instruction2 = instruction
<1>1. /\ normalize_url(url) \in Texts /\ normalize_url(url2) \in Texts
      /\ instruction \in Texts /\ instruction2 \in Texts
  BY ToolsAssumption DEF Reads, normalize_url
<1>2. normalize_url(url2) \o instruction2 = normalize_url(url) \o instruction
  BY DEF Reads, read_key
<1> QED  BY <1>1, <1>2, TwoPieces

\* The end of a call with an answer, and with an error.
LEMMA AnsweredIsSound ==
  ASSUME NEW request, NEW cached, NEW value, NEW key, Answered(request, cached, value),
         toolTime - value.at <= ToolTtl + 2 * MaxToolCall,
         request.tool = "search" => value.query = request.query /\ value.n <= request.max,
         request.tool = "read" =>
           /\ Reads(value.url, value.instruction, key)
           /\ Reads(request.url, request.instruction, key)
  PROVE  CallIsSound(tool') /\ InTime(tool)' /\ AnswersMeetTheCall'
<1>1. request.tool = "read" =>
        LET asked == normalize_url(request.url) \o request.instruction
        IN /\ normalize_url(value.url) \o value.instruction = asked
           /\ Len(asked) = 2 => /\ normalize_url(value.url) = normalize_url(request.url)
                                /\ value.instruction = request.instruction
  <2>1. PICK url, instruction, url2, instruction2 :
          /\ url = request.url /\ instruction = request.instruction
          /\ url2 = value.url /\ instruction2 = value.instruction
    OBVIOUS
  <2>2. CASE request.tool = "read"
    <3>1. Reads(url, instruction, key) /\ Reads(url2, instruction2, key)
      BY <2>1, <2>2
    <3>2. LET asked == normalize_url(url) \o instruction
          IN /\ normalize_url(url2) \o instruction2 = asked
             /\ Len(asked) = 2 => /\ normalize_url(url2) = normalize_url(url)
                                  /\ instruction2 = instruction
      BY <3>1, SameKey
    <3> QED  BY <2>1, <3>2
  <2> QED  BY <2>2
<1>2. /\ tool'.st = "answered" /\ tool'.call = request /\ tool'.value = value
      /\ tool'.at = toolTime
  BY DEF Answered
<1> QED
  BY <1>1, <1>2 DEF CallIsSound, InTime, AnswersMeetTheCall, normalize_url

LEMMA FailedIsSound ==
  ASSUME NEW request, NEW code, NEW chain, Failed(request, code, chain)
  PROVE  CallIsSound(tool') /\ InTime(tool)' /\ AnswersMeetTheCall'
  BY DEF Failed, CallIsSound, InTime, AnswersMeetTheCall

LEMMA SearchKeeps ==
  ASSUME CInv, NEW query \in Queries \cup {NoQuery}, NEW asked \in Asked,
         execute_web_search(query, asked)
  PROVE  CInv'
<1> DEFINE max == EffectiveMax(asked)
           key == search_key(query, max)
           request == [tool |-> "search", query |-> query, max |-> max]
<1>1. toolTime' = toolTime /\ limits' = limits
  BY DEF execute_web_search
<1>2. max \in Nat
  BY ToolsAssumption DEF EffectiveMax, Larger, Smaller, CInv
<1> HIDE DEF max
<1>3. CASE query = NoQuery
  <2>1. EntriesAreSound'
    BY <1>3 DEF execute_web_search, CInv, EntriesAreSound, EntryIsSound
  <2> QED  BY <1>1, <1>3, <2>1, FailedIsSound DEF execute_web_search, max, CInv, CallIsSound
<1>4. CASE query # NoQuery /\ Hit("search", key)
  <2> DEFINE value == toolCache["search"].entries[key].value
  <2>1. Answered(request, TRUE, value) /\ get("search")
    BY <1>4 DEF execute_web_search, max
  <2>2. /\ EntryIsSound("search", key, toolCache["search"].entries[key])
        /\ toolTime - value.at <= ToolTtl + 2 * MaxToolCall
    BY <1>4, HitIsFresh DEF Caches
  <2>3. value.query = query /\ value.n <= max
    BY <2>2 DEF EntryIsSound, search_key
  <2>4. request.tool = "search" /\ request.query = query /\ request.max = max
    OBVIOUS
  <2> HIDE DEF request, value
  <2>5. CallIsSound(tool') /\ InTime(tool)' /\ AnswersMeetTheCall'
    BY <2>1, <2>2, <2>3, <2>4, AnsweredIsSound
  <2> QED  BY <1>1, <2>1, <2>5, GetKeeps DEF CInv, CallIsSound, Caches
<1>5. CASE query # NoQuery /\ ~Hit("search", key)
  <2>1. /\ tool' = [st |-> "searching", call |-> request, key |-> key, since |-> toolTime]
        /\ get("search")
    BY <1>5 DEF execute_web_search, max
  <2>2. CallIsSound(tool') /\ InTime(tool)' /\ AnswersMeetTheCall'
    BY <1>1, <1>2, <2>1, ToolsAssumption DEF CallIsSound, InTime, AnswersMeetTheCall, CInv
  <2> QED  BY <1>1, <2>1, <2>2, GetKeeps DEF CInv, CallIsSound, Caches
<1> QED  BY <1>3, <1>4, <1>5

LEMMA ReadKeeps ==
  ASSUME CInv, NEW url \in Urls, NEW instruction \in Instructions,
         execute_read_url(url, instruction)
  PROVE  CInv'
<1> DEFINE key == read_key(url, instruction)
           request == [tool |-> "read", url |-> url, instruction |-> instruction]
<1>1. toolTime' = toolTime /\ limits' = limits /\ get("read")
  BY DEF execute_read_url
<1>2. CASE Hit("read", key)
  <2> DEFINE value == toolCache["read"].entries[key].value
  <2>1. Answered(request, TRUE, value)
    BY <1>2 DEF execute_read_url
  <2>2. /\ EntryIsSound("read", key, toolCache["read"].entries[key])
        /\ toolTime - value.at <= ToolTtl + 2 * MaxToolCall
    BY <1>2, HitIsFresh DEF Caches
  <2>3. Reads(value.url, value.instruction, key) /\ Reads(url, instruction, key)
    BY <2>2 DEF EntryIsSound, Reads
  <2>4. request.tool = "read" /\ request.url = url /\ request.instruction = instruction
    OBVIOUS
  <2> HIDE DEF request, value, key
  <2>5. CallIsSound(tool') /\ InTime(tool)' /\ AnswersMeetTheCall'
    BY <2>1, <2>2, <2>3, <2>4, AnsweredIsSound
  <2> QED  BY <1>1, <2>5, GetKeeps DEF CInv, CallIsSound, Caches
<1>3. CASE ~Hit("read", key)
  <2>1. tool' = [st |-> "fetching", call |-> request, key |-> key, caps |-> limits.caps,
                 since |-> toolTime]
    BY <1>3 DEF execute_read_url
  <2>2. CallIsSound(tool') /\ InTime(tool)' /\ AnswersMeetTheCall'
    BY <1>1, <2>1, ToolsAssumption DEF CallIsSound, InTime, AnswersMeetTheCall, CInv, Reads
  <2> QED  BY <1>1, <2>2, GetKeeps DEF CInv, CallIsSound, Caches
<1> QED  BY <1>2, <1>3

LEMMA FoundKeeps ==
  ASSUME CInv, NEW found \in Found, web_search(found)
  PROVE  CInv'
<1> DEFINE n == Smaller(found, Smaller(tool.call.max, SEARX_RESPONSE_LIMIT))
           results == [query |-> tool.call.query, n |-> n, at |-> tool.since]
<1>1. /\ tool.st = "searching" /\ toolTime' = toolTime /\ limits' = limits
      /\ insert("search", tool.key, results) /\ Answered(tool.call, FALSE, results)
  BY DEF web_search
<1>2. /\ tool.call.tool = "search" /\ tool.call.max \in Nat
      /\ tool.key = search_key(tool.call.query, tool.call.max)
      /\ tool.since \in Nat /\ toolTime - tool.since <= MaxToolCall
  BY <1>1 DEF CInv, CallIsSound, InTime
<1>3. n <= tool.call.max
  BY <1>2, ToolsAssumption DEF Smaller
<1>4. results.query = tool.call.query /\ results.n = n /\ results.at = tool.since
  OBVIOUS
<1> HIDE DEF results, n
<1>5. EntryIsSound("search", tool.key, [value |-> results, inserted_at |-> toolTime])
  BY <1>2, <1>3, <1>4, ToolsAssumption DEF EntryIsSound, search_key, CInv
<1>6. EntriesAreSound'
  BY <1>1, <1>5, InsertKeeps DEF Caches
<1>7. toolTime - results.at <= ToolTtl + 2 * MaxToolCall
  BY <1>2, <1>4, ToolsAssumption DEF CInv
<1>8. CallIsSound(tool') /\ InTime(tool)' /\ AnswersMeetTheCall'
  BY <1>1, <1>2, <1>3, <1>4, <1>7, AnsweredIsSound
<1> QED  BY <1>1, <1>6, <1>8 DEF CInv, CallIsSound

LEMMA AnalyzedKeeps ==
  ASSUME CInv, analyze
  PROVE  CInv'
<1> DEFINE answer == [url |-> tool.call.url, instruction |-> tool.call.instruction,
                      at |-> tool.fetched]
<1>1. /\ tool.st = "analyzing" /\ toolTime' = toolTime /\ limits' = limits
      /\ insert("read", tool.key, answer) /\ Answered(tool.call, FALSE, answer)
  BY DEF analyze
<1>2. /\ tool.call.tool = "read" /\ Reads(tool.call.url, tool.call.instruction, tool.key)
      /\ tool.since \in Nat /\ toolTime - tool.since <= MaxToolCall
      /\ tool.fetched \in Nat /\ tool.since - tool.fetched <= MaxToolCall
  BY <1>1 DEF CInv, CallIsSound, InTime
<1>3. /\ answer.url = tool.call.url /\ answer.instruction = tool.call.instruction
      /\ answer.at = tool.fetched
  OBVIOUS
<1> HIDE DEF answer
<1>4. toolTime - answer.at <= 2 * MaxToolCall
  BY <1>2, <1>3, ToolsAssumption DEF CInv
<1>5. EntryIsSound("read", tool.key, [value |-> answer, inserted_at |-> toolTime])
  BY <1>2, <1>3, <1>4 DEF EntryIsSound, CInv
<1>6. EntriesAreSound'
  BY <1>1, <1>5, InsertKeeps DEF Caches
<1>7. toolTime - answer.at <= ToolTtl + 2 * MaxToolCall
  BY <1>2, <1>3, <1>4, ToolsAssumption DEF CInv
<1>8. CallIsSound(tool') /\ InTime(tool)' /\ AnswersMeetTheCall'
  BY <1>1, <1>2, <1>3, <1>7, AnsweredIsSound
<1> QED  BY <1>1, <1>6, <1>8 DEF CInv, CallIsSound

LEMMA LargerInBase64 ==
  ASSUME NEW m \in Nat, NEW n \in Nat, m <= n
  PROVE  Base64(m) <= Base64(n)
  BY DEF Base64

\* What goes on to the media model has passed the check of its own cap.
LEMMA FetchedKeeps ==
  ASSUME CInv, NEW page \in Pages, fetch_for_read(page)
  PROVE  CInv'
<1>1. tool.st = "fetching" /\ UNCHANGED <<toolTime, limits, toolCache>>
  BY DEF fetch_for_read
<1>2. EntriesAreSound'
  BY <1>1 DEF CInv, EntriesAreSound, EntryIsSound
<1>3. CASE refusal(page, tool.caps) = << >>
  <2>1. tool' = [st |-> "analyzing", call |-> tool.call, key |-> tool.key, caps |-> tool.caps,
                 bucket |-> detect(page), bytes |-> page.size, payload |-> payload(page),
                 fetched |-> tool.since, since |-> toolTime]
    BY <1>3 DEF fetch_for_read
  <2>2. /\ page.size <= tool.caps[detect(page)]
        /\ detect(page) # "text" => payload(page) <= Base64(tool.caps[detect(page)])
    <3>1. ~(page.size > tool.caps[detect(page)]) /\ detect(page) # Omitted
      BY <1>3 DEF refusal
    <3>2. page.size \in Nat /\ detect(page) \in Buckets
      BY <3>1, ToolsAssumption DEF detect
    <3>3. page.size <= tool.caps[detect(page)] /\ tool.caps[detect(page)] \in Nat
      BY <1>1, <3>1, <3>2 DEF CInv, CallIsSound
    <3> QED  BY <3>2, <3>3, LargerInBase64 DEF payload
  <2>3. /\ tool.call.tool = "read" /\ Reads(tool.call.url, tool.call.instruction, tool.key)
        /\ tool.caps \in [Buckets -> Nat]
        /\ tool.since \in Nat /\ toolTime - tool.since <= MaxToolCall
    BY <1>1 DEF CInv, CallIsSound, InTime
  <2>4. InTime(tool)' /\ AnswersMeetTheCall'
    BY <1>1, <2>1, ToolsAssumption DEF InTime, AnswersMeetTheCall, CInv
  <2>5. CallIsSound(tool')
    BY <2>1, <2>2, <2>3 DEF CallIsSound
  <2> QED  BY <1>1, <1>2, <2>4, <2>5 DEF CInv, CallIsSound
<1>4. CASE refusal(page, tool.caps) # << >>
  <2>1. \E code, chain : Failed(tool.call, code, chain)
    BY <1>4 DEF fetch_for_read
  <2> QED  BY <1>1, <1>2, <2>1, FailedIsSound DEF CInv, CallIsSound
<1> QED  BY <1>3, <1>4

LEMMA ToolFails ==
  ASSUME CInv, UNCHANGED <<toolTime, limits, toolCache>>,
         NEW request, NEW code, NEW chain, Failed(request, code, chain)
  PROVE  CInv'
<1>1. EntriesAreSound'
  BY DEF CInv, EntriesAreSound, EntryIsSound
<1> QED  BY <1>1, FailedIsSound DEF CInv, CallIsSound

LEMMA ContentKeeps == CInv /\ [ContentNext]_contentVars => CInv'
<1> SUFFICES ASSUME CInv, [ContentNext]_contentVars
             PROVE  CInv'
  OBVIOUS
<1>1. ASSUME NEW cause, web_search_fails(cause)  PROVE CInv'
  BY <1>1, ToolFails DEF web_search_fails
<1>2. ASSUME NEW chain, fetch_fails(chain)  PROVE CInv'
  BY <1>2, ToolFails DEF fetch_fails
<1>3. ASSUME NEW chain, analyze_fails(chain)  PROVE CInv'
  BY <1>3, ToolFails DEF analyze_fails
<1>4. CASE RefusedCall
  BY <1>4, ToolFails DEF RefusedCall
<1>5. CASE ToolTick
  <2>1. EntriesAreSound' /\ AnswersMeetTheCall' /\ CallIsSound(tool')
    BY <1>5 DEF ToolTick, CInv, EntriesAreSound, AnswersMeetTheCall, normalize_url
  <2>2. InTime(tool)'
    BY <1>5, ToolsAssumption DEF ToolTick, CInv, InTime, Waits
  <2> QED  BY <1>5, <2>1, <2>2 DEF ToolTick, CInv
<1>6. CASE EditLive \/ UNCHANGED contentVars
  BY <1>6
  DEF EditLive, contentVars, CInv, EntriesAreSound, AnswersMeetTheCall, normalize_url, InTime
<1> QED
  BY <1>1, <1>2, <1>3, <1>4, <1>5, <1>6, SearchKeeps, FoundKeeps, ReadKeeps, FetchedKeeps,
     AnalyzedKeeps
  DEF ContentNext, SearchNext, ReadNext, Around

-----------------------------------------------------------------------------
(* The caches are what their histories say *)

LEMMA TickKeepsSound ==
  ASSUME NEW c, NEW l, NEW t \in Nat, CacheSound(c, l, t)
  PROVE  CacheSound(c, l, t + 1)
<1>1. \A i \in DOMAIN l : l[i].at \in Nat /\ l[i].at <= t + 1
  BY DEF CacheSound, LogSound
<1>2. \A k \in KeysIn(l) : (t + 1) - InsertedAt(l, k) <= ToolTtl => t - InsertedAt(l, k) <= ToolTtl
  <2>1. \A k \in KeysIn(l) : InsertedAt(l, k) \in Nat
    BY <1>1, LatestIs DEF CacheSound, LogSound, InsertedAt
  <2> QED  BY <2>1, ToolsAssumption
<1>3. LogSound(l, t + 1)
  BY <1>1 DEF CacheSound, LogSound
<1>4. HoldsNewest(c, l, t + 1)
  BY <1>2 DEF CacheSound, HoldsNewest
<1> QED  BY <1>3, <1>4 DEF CacheSound

\* Both caches are what their histories say.
CachesSound ==
  /\ toolTime \in Nat
  /\ DOMAIN toolCache = Caches /\ DOMAIN log = Caches
  /\ \A c \in Caches : CacheSound(toolCache[c], log[c], toolTime)

LEMMA CachesStart == ContentInit => CachesSound
<1> SUFFICES ASSUME ContentInit
             PROVE  CachesSound
  OBVIOUS
<1>1. ASSUME NEW c \in Caches
      PROVE  CacheSound(toolCache[c], log[c], toolTime)
  <2>1. PICK tc, l : tc = toolCache[c] /\ l = log[c]
    OBVIOUS
  <2>2. /\ l = << >> /\ tc.order = << >> /\ DOMAIN tc.entries = {}
    BY <2>1 DEF ContentInit, NoEntries
  <2>3. DOMAIN l = {} /\ KeysIn(l) = {} /\ l \in Seq(ToSet(l))
    BY <2>2 DEF KeysIn
  <2>4. tc.order \in Seq(DOMAIN tc.entries) /\ ToSet(tc.order) = {} /\ DOMAIN tc.order = {}
    BY <2>2 DEF ToSet
  <2>5. Cardinality(DOMAIN tc.entries) <= Capacity
    BY <2>2, FS_EmptySet, ToolsAssumption
  <2>6. LogSound(l, toolTime)
    BY <2>3 DEF LogSound
  <2>7. ListsEntries(tc, l)
    BY <2>2, <2>3, <2>4 DEF ListsEntries, Ascends
  <2>8. HoldsNewest(tc, l, toolTime)
    BY <2>3, <2>5 DEF HoldsNewest
  <2> QED  BY <2>1, <2>6, <2>7, <2>8 DEF CacheSound
<1> QED  BY <1>1 DEF ContentInit, CachesSound

LEMMA GotKeeps ==
  ASSUME CachesSound, NEW c \in Caches, get(c), UNCHANGED <<toolTime, log>>
  PROVE  CachesSound'
<1>1. /\ DOMAIN toolCache' = Caches
      /\ \A d \in Caches : toolCache'[d] = IF d = c THEN purge_expired(toolCache[c]) ELSE toolCache[d]
  BY DEF get, CachesSound
<1>2. ASSUME NEW d \in Caches
      PROVE  CacheSound(toolCache'[d], log[d], toolTime)
  <2>1. CacheSound(toolCache[d], log[d], toolTime) /\ toolTime \in Nat
    BY DEF CachesSound
  <2>2. CacheSound(purge_expired(toolCache[d]), log[d], toolTime)
    BY <2>1, PurgeKeepsSound
  <2> QED  BY <1>1, <2>1, <2>2
<1> QED  BY <1>1, <1>2 DEF CachesSound

LEMMA PutKeeps ==
  ASSUME CachesSound, NEW c \in Caches, NEW key, NEW value, insert(c, key, value),
         toolTime' = toolTime
  PROVE  CachesSound'
<1>1. PICK e : e = [key |-> key, value |-> value, at |-> toolTime]
  OBVIOUS
<1>2. /\ DOMAIN toolCache' = Caches /\ DOMAIN log' = Caches
      /\ \A d \in Caches : /\ d = c => /\ toolCache'[d] = Inserted(toolCache[c], key, value)
                                       /\ log'[d] = Append(log[c], e)
                           /\ d # c => toolCache'[d] = toolCache[d] /\ log'[d] = log[d]
  BY <1>1 DEF insert, CachesSound
<1>3. ASSUME NEW d \in Caches
      PROVE  CacheSound(toolCache'[d], log'[d], toolTime)
  <2>1. CacheSound(toolCache[d], log[d], toolTime) /\ toolTime \in Nat
    BY DEF CachesSound
  <2>2. CASE d = c
    <3>1. PICK l2 : l2 = Append(log[c], [key |-> key, value |-> value, at |-> toolTime])
      OBVIOUS
    <3>2. CacheSound(Inserted(toolCache[c], key, value), l2, toolTime)
      BY <2>1, <2>2, <3>1, InsertKeepsSound
    <3> QED  BY <1>1, <1>2, <2>2, <3>1, <3>2
  <2>3. CASE d # c
    BY <1>2, <2>1, <2>3
  <2> QED  BY <2>2, <2>3
<1> QED  BY <1>2, <1>3 DEF CachesSound

LEMMA CachesUntouched ==
  ASSUME CachesSound, UNCHANGED <<toolTime, toolCache, log>>
  PROVE  CachesSound'
BY DEF CachesSound

LEMMA CachesNext == CachesSound /\ [ContentNext]_contentVars => CachesSound'
<1> SUFFICES ASSUME CachesSound, [ContentNext]_contentVars
             PROVE  CachesSound'
  OBVIOUS
<1>1. ASSUME NEW query, NEW asked, execute_web_search(query, asked)
      PROVE  CachesSound'
  <2>1. CASE query = NoQuery
    BY <1>1, <2>1, CachesUntouched DEF execute_web_search
  <2>2. CASE query # NoQuery
    BY <1>1, <2>2, GotKeeps DEF execute_web_search, Caches
  <2> QED  BY <2>1, <2>2
<1>2. ASSUME NEW found, web_search(found)
      PROVE  CachesSound'
  <2>1. PICK value : insert("search", tool.key, value) /\ toolTime' = toolTime
    BY <1>2 DEF web_search
  <2> QED  BY <2>1, PutKeeps DEF Caches
<1>3. ASSUME NEW url, NEW instruction, execute_read_url(url, instruction)
      PROVE  CachesSound'
  BY <1>3, GotKeeps DEF execute_read_url, Caches
<1>4. CASE analyze
  <2>1. PICK value : insert("read", tool.key, value) /\ toolTime' = toolTime
    BY <1>4 DEF analyze
  <2> QED  BY <2>1, PutKeeps DEF Caches
<1>5. CASE ToolTick
  <2>1. toolTime' = toolTime + 1 /\ toolCache' = toolCache /\ log' = log /\ toolTime \in Nat
    BY <1>5 DEF ToolTick, CachesSound
  <2>2. \A c \in Caches : CacheSound(toolCache[c], log[c], toolTime + 1)
    BY TickKeepsSound DEF CachesSound
  <2> QED  BY <2>1, <2>2 DEF CachesSound
<1>6. ASSUME \/ \E cause : web_search_fails(cause)
             \/ \E page : fetch_for_read(page)
             \/ \E chain : fetch_fails(chain) \/ analyze_fails(chain)
             \/ RefusedCall \/ EditLive \/ UNCHANGED contentVars
      PROVE  CachesSound'
  BY <1>6, CachesUntouched
  DEF web_search_fails, fetch_for_read, fetch_fails, analyze_fails, RefusedCall, EditLive, contentVars
<1> QED
  BY <1>1, <1>2, <1>3, <1>4, <1>5, <1>6 DEF ContentNext, SearchNext, ReadNext, Around

\* An answer was given under the key of its call, which tells its url and its
\* instruction apart unless "::" is in them, and is no older than an entry may
\* be, also when it is a cached one that was fetched under other settings; what
\* is downloaded for the media model is within the cap of its kind; and a cache
\* holds the latest answers for as many keys as it may, whichever expired or
\* came again.
THEOREM WebAnswersAreSound == ContentSpec => []WebAnswersSound
<1>1. ContentInit => CInv /\ CachesSound
  BY ContentStart, CachesStart
<1>2. CInv /\ CachesSound /\ [ContentNext]_contentVars => CInv' /\ CachesSound'
  BY ContentKeeps, CachesNext
<1>3. CInv => AnswersMeetTheCall /\ MediaWithinCaps
  BY DEF CInv, CallIsSound, MediaWithinCaps
<1>4. CachesSound => CacheIsLatest
  <2> SUFFICES ASSUME CachesSound, NEW c \in Caches
               PROVE  /\ Cardinality(DOMAIN toolCache[c].entries) <= Capacity
                      /\ \A k \in KeysOf(c) : toolTime - log[c][Latest(c, k)].at <= ToolTtl =>
                           /\ k \in DOMAIN toolCache[c].entries <=> Cardinality(Newer(c, k)) < Capacity
                           /\ k \in DOMAIN toolCache[c].entries =>
                                toolCache[c].entries[k].value = log[c][Latest(c, k)].value
    BY DEF CacheIsLatest
  <2>1. /\ KeysOf(c) = KeysIn(log[c]) /\ \A k : Latest(c, k) = LatestIn(log[c], k)
    BY DEF KeysOf, KeysIn, Latest, LatestIn
  <2>2. \A k : Newer(c, k) = NewerIn(log[c], k)
    BY <2>1 DEF Newer, NewerIn
  <2>3. CacheSound(toolCache[c], log[c], toolTime)
    BY DEF CachesSound
  <2> QED  BY <2>1, <2>2, <2>3 DEF CacheSound, ListsEntries, HoldsNewest, InsertedAt
<1>5. CInv /\ CachesSound => WebAnswersSound
  BY <1>3, <1>4 DEF WebAnswersSound
<1> QED  BY <1>1, <1>2, <1>5, PTL DEF ContentSpec

-----------------------------------------------------------------------------
(***************************************************************************)
(* The sessions.  One that was logged out does not come back, from a snapshot under *)
(* way, a late sign-in or a restart; and whoever a gate admits had the     *)
(* role of the session a short time before.                                *)
(*                                                                         *)
(* LoggedOutStaysOut is about the table alone.  The invariant says the     *)
(* same of the file and of the snapshot being written (GoneEverywhere),    *)
(* that one snapshot is written at a time (OneSaver), what a logout that   *)
(* is still saving has dropped (Dropped), and that no sign-in under way    *)
(* has the number of a session that was given out (SidsOnce).              *)
(*                                                                         *)
(* RolesAreFresh is about the requests that were admitted.  The second     *)
(* invariant says what the time of the last check is worth for every       *)
(* session in the table (EntriesFresh), for a sign-in that waits for       *)
(* Twitch (AsksInTime) and for a gate that does (GatesInTime); it rests on *)
(* the first, since a gate is about the session of its user only as long   *)
(* as no sign-in can create another of that number.                        *)
(***************************************************************************)


\* write_lock has one holder.
OneSaver == \A x, y \in Persisters : snap[x] # None /\ snap[y] # None => x = y

\* A sign-in under way has a number that no browser holds and no other sign-in has; all
\* other requests come with a cookie that was given out.
SidsOnce ==
  /\ issued \subseteq 1 .. attempts
  /\ oauth_state # None => oauth_state \in (1 .. attempts) \ issued
  /\ \A r \in Browsers :
       req[r] # None => IF req[r].op = "callback" THEN req[r].sid \in (1 .. attempts) \ issued
                        ELSE req[r].sid \in issued
  /\ \A r, x \in Browsers :
       (/\ req[r] # None /\ req[x] # None
        /\ req[r].op = "callback" /\ req[x].op = "callback" /\ req[r].sid = req[x].sid)
       => r = x

\* Who writes holds a snapshot.
Writing == \A r \in Browsers : req[r] # None /\ req[r].st = "write" => snap[r] \in Tables

\* A logout that is still saving has dropped its session, and its snapshot is without it.
Dropped ==
  \A r \in Browsers : req[r] # None /\ req[r].op = "logout" =>
    /\ table[req[r].sid] = None
    /\ req[r].st = "write" => snap[r][req[r].sid] = None

\* A session that is gone is nowhere.
GoneEverywhere ==
  /\ gone \subseteq issued
  /\ \A s \in gone : /\ table[s] = None /\ sessions_file[s] = None
                     /\ \A w \in Persisters : snap[w] # None => snap[w][s] = None

Held == OneSaver /\ SidsOnce /\ Writing /\ Dropped /\ GoneEverywhere

WInv == TypeOK /\ Held

-----------------------------------------------------------------------------
LEMMA InitHolds == Init => WInv
<1> SUFFICES ASSUME Init PROVE WInv
  OBVIOUS
<1>1. NoSessions \in Tables /\ \A s \in Sids : NoSessions[s] = None
  BY DEF NoSessions, Tables
<1>2. /\ now \in 0 .. MaxTime /\ process_start \in 0 .. MaxTime /\ web \in WebSettings
      /\ attempts \in 0 .. MaxLogins /\ changes \in 0 .. MaxChanges /\ starts \in 0 .. MaxStarts
  BY SessionsAssumption DEF Init
<1>3. mods \subseteq Users /\ hidden \subseteq Users /\ allowlist \subseteq Users
  BY DEF Init
<1>4. last \in [Users -> [Roles -> Times]]
  BY SessionsAssumption DEF Init, Times, Never
<1>5. TypeOK
  BY <1>1, <1>2, <1>3, <1>4 DEF Init, TypeOK
<1>6. Held
  BY DEF Init, Held, OneSaver, SidsOnce, Writing, Dropped, GoneEverywhere
<1> QED
  BY <1>5, <1>6 DEF WInv

\* Request r becomes v, which neither is a new sign-in nor writes; no session that was
\* given out appears in the table.
LEMMA RequestKeeps ==
  ASSUME WInv, NEW r \in Browsers, NEW v \in Visit \cup {None},
         req' = [req EXCEPT ![r] = v],
         UNCHANGED <<now, roles, attempts, issued, disk, past>>,
         oauth_state' \in {oauth_state, None}, table' \in Tables,
         \A s \in issued : table[s] = None => table'[s] = None,
         v # None /\ v.op = "callback" =>
           req[r] # None /\ req[r].op = "callback" /\ v.sid = req[r].sid,
         v # None /\ v.op # "callback" => v.sid \in issued,
         v # None => v.st # "write",
         v # None /\ v.op = "logout" => table'[v.sid] = None
  PROVE  WInv'
<1> USE DEF WInv, Held
<1>1. \A x \in Browsers : req'[x] = IF x = r THEN v ELSE req[x]
  BY DEF TypeOK
<1>2. OneSaver'
  BY DEF OneSaver, disk
<1>3. SidsOnce'
  <2>1. \A x \in Browsers :
          req'[x] # None => IF req'[x].op = "callback"
                            THEN req'[x].sid \in (1 .. attempts) \ issued
                            ELSE req'[x].sid \in issued
    BY <1>1 DEF SidsOnce
  <2>2. \A x \in Browsers : req'[x] # None /\ req'[x].op = "callback" =>
          req[x] # None /\ req[x].op = "callback" /\ req'[x].sid = req[x].sid
    BY <1>1
  <2>3. \A x, y \in Browsers :
          (/\ req'[x] # None /\ req'[y] # None
           /\ req'[x].op = "callback" /\ req'[y].op = "callback" /\ req'[x].sid = req'[y].sid)
          => x = y
    BY <2>2 DEF SidsOnce
  <2> QED
    BY <2>1, <2>3 DEF SidsOnce
<1>4. Writing'
  BY <1>1 DEF Writing, disk
<1>5. Dropped'
  <2> SUFFICES ASSUME NEW x \in Browsers, req'[x] # None, req'[x].op = "logout"
               PROVE  /\ table'[req'[x].sid] = None
                      /\ req'[x].st = "write" => snap'[x][req'[x].sid] = None
    BY DEF Dropped
  <2>1. CASE x = r
    BY <1>1, <2>1
  <2>2. CASE x # r
    <3>1. req[x] = req'[x] /\ snap' = snap
      BY <1>1, <2>2 DEF disk
    <3>2. req[x].sid \in issued
      BY <3>1 DEF SidsOnce
    <3> QED
      BY <3>1, <3>2 DEF Dropped
  <2> QED
    BY <2>1, <2>2
<1>6. GoneEverywhere'
  BY DEF GoneEverywhere, disk
<1>7. TypeOK'
  <2>1. req' \in [Browsers -> Visit \cup {None}] /\ oauth_state' \in Sids \cup {None}
    BY DEF TypeOK
  <2> QED
    BY <2>1 DEF TypeOK, roles, disk, past
<1> QED
  BY <1>2, <1>3, <1>4, <1>5, <1>6, <1>7

\* An entry of the table is a session or None.
LEMMA Entry ==
  ASSUME TypeOK, NEW s \in Sids, table[s] # None
  PROVE  table[s] \in Session
BY DEF TypeOK, Tables

\* What the operations on the table make of it.
LEMMA TableOps ==
  ASSUME TypeOK, NEW sid \in Sids
  PROVE  /\ get_and_touch(sid) \in Tables /\ drop_session(sid) \in Tables
         /\ record_role_check(sid) \in Tables
         /\ drop_session(sid)[sid] = None
         /\ \A s \in Sids : table[s] = None => /\ get_and_touch(sid)[s] = None
                                               /\ drop_session(sid)[s] = None
                                               /\ record_role_check(sid)[s] = None
<1>1. now \in Times /\ table \in Tables
  BY SessionsAssumption DEF TypeOK, Times
<1>2. \A s \in Session : /\ [s EXCEPT !.seen = now] \in Session
                         /\ [s EXCEPT !.checked = now] \in Session
  BY <1>1 DEF Session
<1>3. Live(sid) => table[sid] # None
  BY DEF Live
<1>4. table[sid] # None => table[sid] \in Session
  BY Entry
<1>5. get_and_touch(sid) = [table EXCEPT ![sid] = IF Live(sid)
                                                  THEN [table[sid] EXCEPT !.seen = now] ELSE None]
  BY <1>1 DEF get_and_touch, Tables
<1>6. record_role_check(sid) =
        [table EXCEPT ![sid] = IF table[sid] = None THEN None
                               ELSE [table[sid] EXCEPT !.checked = now]]
  BY <1>1 DEF record_role_check, Tables
<1>7. get_and_touch(sid) \in Tables
  BY <1>1, <1>2, <1>3, <1>4, <1>5 DEF Tables
<1>8. record_role_check(sid) \in Tables
  BY <1>1, <1>2, <1>4, <1>6 DEF Tables
<1>9. drop_session(sid) \in Tables /\ drop_session(sid)[sid] = None
      /\ \A s \in Sids : table[s] = None => drop_session(sid)[s] = None
  BY <1>1 DEF drop_session, Tables
<1>10. \A s \in Sids : table[s] = None => get_and_touch(sid)[s] = None
  BY <1>1, <1>3, <1>5 DEF Tables
<1>11. \A s \in Sids : table[s] = None => record_role_check(sid)[s] = None
  BY <1>1, <1>6 DEF Tables
<1> QED
  BY <1>7, <1>8, <1>9, <1>10, <1>11

LEMMA InsertOps ==
  ASSUME TypeOK, NEW sid \in Sids, NEW u \in Users, NEW role \in Roles
  PROVE  /\ insert_at(sid, u, role) \in Tables
         /\ \A s \in Sids : s # sid /\ table[s] = None => insert_at(sid, u, role)[s] = None
<1>1. now \in Times /\ table \in Tables
  BY SessionsAssumption DEF TypeOK, Times
<1>2. [user |-> u, role |-> role, seen |-> now, checked |-> now] \in Session
  BY <1>1 DEF Session
<1> QED
  BY <1>1, <1>2 DEF insert_at, Tables

-----------------------------------------------------------------------------
\* A request is one of the records of its operation and place.
LEMMA Kinds ==
  ASSUME TypeOK, NEW r \in Browsers, req[r] # None
  PROVE  /\ req[r] \in Visit
         /\ req[r].st = "exchange" => req[r] \in Asking
         /\ req[r].op = "callback" /\ req[r].st = "modcheck" => req[r] \in Asking
         /\ req[r].op = "gate" => req[r] \in Gate
         /\ req[r].st = "admitted" => req[r] \in Gate
         /\ req[r].st \in {"persist", "write"} => req[r] \in Saving
BY DEF TypeOK, Visit, Asking, Gate, Saving

\* The callback answers without a session.
LEMMA AnswerKeeps ==
  ASSUME WInv, NEW r \in Browsers, AnswerCallback(r) \/ (Done(r) /\ UNCHANGED oauth_state),
         table' \in Tables, \A s \in issued : table[s] = None => table'[s] = None,
         UNCHANGED <<now, roles, attempts, issued, disk, past>>
  PROVE  WInv'
<1>1. req' = [req EXCEPT ![r] = None] /\ oauth_state' \in {oauth_state, None}
  BY DEF AnswerCallback, Done
<1> QED
  BY <1>1, RequestKeeps

\* The callback creates the session: no browser holds its number yet.
LEMMA EntryKeeps ==
  ASSUME WInv, NEW r \in Browsers, NEW role \in Roles, Insert(r, role),
         req[r] # None, req[r] \in Asking,
         UNCHANGED <<now, roles, attempts, issued, disk, past>>
  PROVE  WInv'
<1> DEFINE v == Saves("callback", req[r].sid)
<1>1. req[r].op = "callback" /\ req[r].sid \in Sids /\ req[r].user \in Users
  BY DEF Asking
<1>2. v \in Saving /\ v.op = "callback" /\ v.sid = req[r].sid /\ v.st = "persist"
  BY <1>1 DEF Saves, Saving
<1>3. req[r].sid \notin issued /\ issued \subseteq Sids
  BY <1>1 DEF WInv, Held, SidsOnce, TypeOK
<1>4. table' \in Tables /\ \A s \in issued : table[s] = None => table'[s] = None
  BY <1>1, <1>3, InsertOps DEF Insert, WInv
<1>5. req' = [req EXCEPT ![r] = v] /\ oauth_state' = oauth_state
  BY DEF Insert, Begin
<1> HIDE DEF v
<1> QED
  BY <1>1, <1>2, <1>4, <1>5, RequestKeeps DEF Visit

LEMMA ExchangeKeeps ==
  ASSUME WInv, NEW r \in Browsers, NEW ok \in BOOLEAN, exchange_code(r, ok)
  PROVE  WInv'
<1> USE DEF WInv
<1>1. req[r] # None /\ req[r] \in Asking /\ req[r].st = "exchange"
      /\ UNCHANGED <<now, roles, attempts, issued, disk, past>>
  BY Kinds DEF exchange_code
<1>2. CASE AnswerCallback(r) /\ UNCHANGED table
  BY <1>1, <1>2, AnswerKeeps DEF TypeOK
<1>3. CASE Insert(r, "owner") \/ Insert(r, "mod")
  BY <1>1, <1>3, EntryKeeps DEF Roles
<1>4. CASE /\ req' = [req EXCEPT ![r].st = "modcheck", ![r].at = now,
                                 ![r].allow = (req[r].user \in allowlist)]
           /\ UNCHANGED <<oauth_state, table>>
  <2> DEFINE v == [req[r] EXCEPT !.st = "modcheck", !.at = now,
                                 !.allow = (req[r].user \in allowlist)]
  <2>1. now \in Times
    BY SessionsAssumption DEF TypeOK, Times
  <2>2. v \in Asking /\ v.op = "callback" /\ v.st = "modcheck" /\ v.sid = req[r].sid
    <3>1. \A b \in BOOLEAN :
            LET w == [req[r] EXCEPT !.st = "modcheck", !.at = now, !.allow = b]
            IN w \in Asking /\ w.op = "callback" /\ w.st = "modcheck" /\ w.sid = req[r].sid
      BY <1>1, <2>1 DEF Asking
    <3>2. (req[r].user \in allowlist) \in BOOLEAN
      OBVIOUS
    <3> QED
      BY <3>1, <3>2
  <2>3. req' = [req EXCEPT ![r] = v]
    BY <1>1, <1>4 DEF TypeOK
  <2>4. req[r].op = "callback" /\ table' \in Tables
    BY <1>1, <1>4 DEF Asking, TypeOK
  <2> HIDE DEF v
  <2> QED
    BY <1>1, <1>4, <2>2, <2>3, <2>4, RequestKeeps DEF Visit
<1> QED
  BY <1>2, <1>3, <1>4 DEF exchange_code

LEMMA ModeratesKeeps ==
  ASSUME WInv, NEW r \in Browsers, NEW ok \in BOOLEAN, user_moderates_channel(r, ok)
  PROVE  WInv'
<1> USE DEF WInv
<1>1. req[r] # None /\ req[r] \in Asking
      /\ UNCHANGED <<now, roles, attempts, issued, disk, past>>
  BY Kinds DEF user_moderates_channel
<1>2. CASE AnswerCallback(r) /\ UNCHANGED table
  BY <1>1, <1>2, AnswerKeeps DEF TypeOK
<1>3. CASE Insert(r, "mod") \/ Insert(r, "viewer")
  BY <1>1, <1>3, EntryKeeps DEF Roles
<1> QED
  BY <1>2, <1>3 DEF user_moderates_channel

LEMMA ServedKeeps ==
  ASSUME WInv, NEW r \in Browsers, Served(r)
  PROVE  WInv'
<1> USE DEF WInv
<1>1. /\ Done(r) /\ UNCHANGED oauth_state /\ table' \in Tables
      /\ UNCHANGED <<now, roles, attempts, issued, disk, past>>
      /\ \A s \in issued : table[s] = None => table'[s] = None
  BY DEF Served, login, TypeOK
<1> QED
  BY <1>1, AnswerKeeps

LEMMA IsModeratorKeeps ==
  ASSUME WInv, NEW r \in Browsers, NEW ok \in BOOLEAN, is_moderator(r, ok)
  PROVE  WInv'
<1> USE DEF WInv
<1>1. req[r] # None /\ req[r] \in Gate /\ UNCHANGED oauth_state
      /\ UNCHANGED <<now, roles, attempts, issued, disk, past>>
  BY Kinds DEF is_moderator, login
<1>2. req[r].sid \in issued /\ issued \subseteq Sids /\ req[r].op = "gate"
  BY <1>1 DEF Held, SidsOnce, TypeOK, Gate
<1>3. CASE table' = drop_session(req[r].sid) /\ Done(r)
  BY <1>1, <1>2, <1>3, TableOps, AnswerKeeps
<1>4. CASE /\ table' = Stamp(r, ok)
           /\ req' = [req EXCEPT ![r].st = "admitted", ![r].failed = ~ok]
  <2> DEFINE v == [req[r] EXCEPT !.st = "admitted", !.failed = ~ok]
  <2>1. v \in Gate /\ v.op = "gate" /\ v.st = "admitted" /\ v.sid = req[r].sid
    BY <1>1 DEF Gate
  <2>2. req' = [req EXCEPT ![r] = v]
    BY <1>1, <1>4 DEF TypeOK
  <2>3. table' \in Tables /\ \A s \in issued : table[s] = None => table'[s] = None
    BY <1>2, <1>4, TableOps DEF Stamp, TypeOK
  <2> HIDE DEF v
  <2> QED
    BY <1>1, <1>2, <2>1, <2>2, <2>3, RequestKeeps DEF Visit
<1> QED
  BY <1>3, <1>4 DEF is_moderator

\* What the gate may do with a request before it asks Twitch.
LEMMA GateOutcomes ==
  ASSUME TypeOK, NEW r \in Browsers, NEW sid \in Sids, NEW min \in build_router,
         require_role(r, sid, min)
  PROVE  \/ table' \in {get_and_touch(sid), drop_session(sid)} /\ UNCHANGED req
         \/ /\ Live(sid) /\ table' = get_and_touch(sid)
            /\ \E st \in {"modcheck", "admitted"} : Begin(r, Passes(sid, st))
         \/ /\ Live(sid) /\ Begin(r, Passes(sid, "admitted"))
            /\ table' = [table EXCEPT ![sid] = [get_and_touch(sid)[sid] EXCEPT !.checked = now]]
<1>1. Live(sid) => table[sid].role \in {"viewer", "mod", "owner"}
  BY Entry DEF Live, Session, Roles
<1> QED
  BY <1>1 DEF require_role

LEMMA PassesIsGate ==
  ASSUME TypeOK, NEW sid \in Sids, Live(sid), NEW st \in {"modcheck", "admitted"}
  PROVE  /\ Passes(sid, st) \in Gate /\ Passes(sid, st).op = "gate"
         /\ Passes(sid, st).sid = sid /\ Passes(sid, st).st = st
<1>1. table[sid] \in Session
  BY Entry DEF Live
<1>2. now \in Times /\ web[2] \in Nat
  BY SessionsAssumption DEF TypeOK, Times
<1> QED
  BY <1>1, <1>2 DEF Passes, Gate, Session

LEMMA GateKeeps ==
  ASSUME WInv, NEW r \in Browsers, NEW sid \in Sids, NEW min \in build_router,
         require_role(r, sid, min)
  PROVE  WInv'
<1> USE DEF WInv
<1>1. /\ req[r] = None /\ sid \in issued /\ oauth_state' = oauth_state
      /\ UNCHANGED <<now, roles, attempts, issued, disk, past>> /\ issued \subseteq Sids
  BY DEF require_role, login, TypeOK
<1>2. CASE table' \in {get_and_touch(sid), drop_session(sid)} /\ UNCHANGED req
  <2>1. req' = [req EXCEPT ![r] = None]
    BY <1>1, <1>2 DEF TypeOK
  <2>2. table' \in Tables /\ \A s \in issued : table[s] = None => table'[s] = None
    BY <1>1, <1>2, TableOps
  <2> QED
    BY <1>1, <2>1, <2>2, RequestKeeps
<1>3. ASSUME NEW st \in {"modcheck", "admitted"}, Live(sid), Begin(r, Passes(sid, st)),
             table' \in Tables, \A s \in issued : table[s] = None => table'[s] = None
      PROVE  WInv'
  <2> DEFINE v == Passes(sid, st)
  <2>1. v \in Gate /\ v.op = "gate" /\ v.sid = sid /\ v.st = st
    BY <1>3, PassesIsGate
  <2>2. req' = [req EXCEPT ![r] = v]
    BY <1>3 DEF Begin
  <2> HIDE DEF v
  <2> QED
    BY <1>1, <1>3, <2>1, <2>2, RequestKeeps DEF Visit
<1>4. CASE /\ Live(sid) /\ table' = get_and_touch(sid)
           /\ \E st \in {"modcheck", "admitted"} : Begin(r, Passes(sid, st))
  BY <1>1, <1>3, <1>4, TableOps
<1>5. CASE /\ Live(sid) /\ Begin(r, Passes(sid, "admitted"))
           /\ table' = [table EXCEPT ![sid] = [get_and_touch(sid)[sid] EXCEPT !.checked = now]]
  <2>1. now \in Times /\ table \in Tables /\ table[sid] # None /\ table[sid] \in Session
    BY <1>5, Entry, SessionsAssumption DEF TypeOK, Times, Live
  <2>2. get_and_touch(sid)[sid] = [table[sid] EXCEPT !.seen = now]
    BY <1>5, <2>1 DEF get_and_touch, Tables
  <2>3. [get_and_touch(sid)[sid] EXCEPT !.checked = now] \in Session
    BY <2>1, <2>2 DEF Session
  <2>4. table' \in Tables /\ \A s \in issued : table[s] = None => table'[s] = None
    BY <1>1, <1>5, <2>1, <2>3 DEF Tables
  <2> QED
    BY <1>3, <1>5, <2>4
<1> QED
  BY <1>2, <1>4, <1>5, GateOutcomes

LEMMA LogoutKeeps ==
  ASSUME WInv, NEW r \in Browsers, NEW sid \in Sids, NEW csrf, logout(r, sid, csrf)
  PROVE  WInv'
<1> USE DEF WInv
<1>1. /\ req[r] = None /\ sid \in issued /\ oauth_state' = oauth_state
      /\ UNCHANGED <<now, roles, attempts, issued, disk, past>> /\ issued \subseteq Sids
  BY DEF logout, login, TypeOK
<1>2. CASE table' = get_and_touch(sid) /\ UNCHANGED req
  <2>1. req' = [req EXCEPT ![r] = None]
    BY <1>1, <1>2 DEF TypeOK
  <2>2. table' \in Tables /\ \A s \in issued : table[s] = None => table'[s] = None
    BY <1>1, <1>2, TableOps
  <2> QED
    BY <1>1, <2>1, <2>2, RequestKeeps
<1>3. CASE table' = drop_session(sid) /\ Begin(r, Saves("logout", sid))
  <2> DEFINE v == Saves("logout", sid)
  <2>1. v \in Saving /\ v.op = "logout" /\ v.sid = sid /\ v.st = "persist"
    BY DEF Saves, Saving
  <2>2. table' \in Tables /\ table'[sid] = None
        /\ \A s \in issued : table[s] = None => table'[s] = None
    BY <1>1, <1>3, TableOps
  <2>3. req' = [req EXCEPT ![r] = v]
    BY <1>3 DEF Begin
  <2> HIDE DEF v
  <2> QED
    BY <1>1, <2>1, <2>2, <2>3, RequestKeeps DEF Visit
<1> QED
  BY <1>2, <1>3 DEF logout

\* A new sign-in has the number of the cookie, which no other request has.
LEMMA CallbackKeeps ==
  ASSUME WInv, NEW r \in Browsers, NEW u \in Users, callback(r, u)
  PROVE  WInv'
<1> USE DEF WInv, Held
<1> DEFINE v == Asks(oauth_state, u)
<1>1. /\ req[r] = None /\ oauth_state # None
      /\ UNCHANGED <<now, roles, login, table, disk, past>>
      /\ \A x \in Browsers : req[x] # None => req[x].sid # oauth_state
  BY DEF callback
<1>2. oauth_state \in Sids /\ oauth_state \in (1 .. attempts) \ issued
  BY <1>1 DEF TypeOK, SidsOnce
<1>3. v \in Asking /\ v.op = "callback" /\ v.st = "exchange" /\ v.sid = oauth_state
  BY <1>2, SessionsAssumption DEF Asks, Asking, TypeOK, Times
<1>4. req' = [req EXCEPT ![r] = v] /\ req' \in [Browsers -> Visit \cup {None}]
  BY <1>3 DEF callback, Begin, TypeOK, Visit
<1> HIDE DEF v
<1>5. \A x \in Browsers : req'[x] = IF x = r THEN v ELSE req[x]
  BY <1>4 DEF TypeOK
<1>6. TypeOK'
  BY <1>1, <1>4 DEF TypeOK, roles, login, disk, past
<1>7. OneSaver' /\ GoneEverywhere'
  BY <1>1 DEF OneSaver, GoneEverywhere, login, disk
<1>8. SidsOnce'
  <2>1. UNCHANGED <<attempts, issued, oauth_state>>
    BY <1>1 DEF login
  <2>2. \A x \in Browsers :
          req'[x] # None => IF req'[x].op = "callback"
                            THEN req'[x].sid \in (1 .. attempts) \ issued
                            ELSE req'[x].sid \in issued
    BY <1>2, <1>3, <1>5 DEF SidsOnce
  <2>3. \A x, y \in Browsers :
          (/\ req'[x] # None /\ req'[y] # None
           /\ req'[x].op = "callback" /\ req'[y].op = "callback" /\ req'[x].sid = req'[y].sid)
          => x = y
    BY <1>1, <1>3, <1>5 DEF SidsOnce
  <2> QED
    BY <2>1, <2>2, <2>3 DEF SidsOnce
<1>9. Writing' /\ Dropped'
  BY <1>1, <1>3, <1>5 DEF Writing, Dropped, disk
<1> QED
  BY <1>6, <1>7, <1>8, <1>9

LEMMA AuthStartKeeps ==
  ASSUME WInv, auth_start
  PROVE  WInv'
<1> USE DEF WInv, Held
<1>1. attempts \in 0 .. MaxLogins /\ MaxLogins \in Nat
  BY SessionsAssumption DEF TypeOK
<1>2. /\ attempts' = attempts + 1 /\ oauth_state' = attempts + 1 /\ attempts' \in 0 .. MaxLogins
      /\ UNCHANGED <<now, roles, issued, table, disk, req, past>>
  BY <1>1 DEF auth_start
<1>3. TypeOK'
  <2>1. oauth_state' \in Sids
    BY <1>1, <1>2 DEF Sids
  <2> QED
    BY <1>2, <2>1 DEF TypeOK, roles, disk, past
<1>4. SidsOnce'
  <2>1. \A n \in 1 .. attempts : n \in 1 .. attempts' /\ n # attempts + 1
    BY <1>1, <1>2
  <2>2. oauth_state' \in (1 .. attempts') \ issued
    BY <1>1, <1>2, <2>1 DEF SidsOnce
  <2>3. issued' \subseteq 1 .. attempts'
    BY <1>2, <2>1 DEF SidsOnce
  <2>4. \A r \in Browsers :
          req[r] # None => IF req[r].op = "callback" THEN req[r].sid \in (1 .. attempts') \ issued
                           ELSE req[r].sid \in issued
    BY <2>1 DEF SidsOnce
  <2> QED
    BY <1>2, <2>2, <2>3, <2>4 DEF SidsOnce
<1>5. OneSaver' /\ GoneEverywhere' /\ Writing' /\ Dropped'
  BY <1>2 DEF OneSaver, GoneEverywhere, Writing, Dropped, disk
<1> QED
  BY <1>3, <1>4, <1>5

\* The snapshot is taken while nobody writes, and is the table of that moment.
LEMMA PersistKeeps ==
  ASSUME WInv, NEW w \in Persisters, persist(w), UNCHANGED <<table, sessions_file, gone>>
  PROVE  /\ snap' \in [Persisters -> Tables \cup {None}] /\ snap'[w] = table
         /\ OneSaver'
         /\ \A s \in gone : \A x \in Persisters : snap'[x] # None => snap'[x][s] = None
<1> USE DEF WInv, Held
<1>1. \A x \in Persisters : snap'[x] = IF x = w THEN table ELSE None
  BY DEF persist, TypeOK
<1>2. snap' \in [Persisters -> Tables \cup {None}]
  BY DEF persist, TypeOK
<1> QED
  BY <1>1, <1>2 DEF OneSaver, GoneEverywhere

LEMMA BeginPersistKeeps ==
  ASSUME WInv, NEW r \in Browsers, BeginPersist(r)
  PROVE  WInv'
<1> USE DEF WInv, Held
<1> DEFINE v == [req[r] EXCEPT !.st = "write"]
<1>1. /\ req[r] # None /\ req[r] \in Saving /\ persist(r)
      /\ UNCHANGED <<now, roles, login, table, sessions_file, gone, past>>
  BY Kinds DEF BeginPersist
<1>2. v \in Saving /\ v.op = req[r].op /\ v.sid = req[r].sid /\ v.st = "write"
  BY <1>1 DEF Saving
<1>3. req' = [req EXCEPT ![r] = v] /\ req' \in [Browsers -> Visit \cup {None}]
  BY <1>2 DEF BeginPersist, Go, TypeOK, Visit
<1> HIDE DEF v
<1>4. \A x \in Browsers : req'[x] = IF x = r THEN v ELSE req[x]
  BY <1>3 DEF TypeOK
<1>5. /\ snap' \in [Persisters -> Tables \cup {None}] /\ snap'[r] = table
      /\ OneSaver'
      /\ \A s \in gone : \A x \in Persisters : snap'[x] # None => snap'[x][s] = None
  BY <1>1, PersistKeeps DEF Persisters
<1>6. TypeOK'
  BY <1>1, <1>3, <1>5 DEF TypeOK, roles, login, past
<1>7. SidsOnce'
  <2>1. \A x \in Browsers : /\ req'[x] # None => req[x] # None
                            /\ req'[x] # None => req'[x].op = req[x].op /\ req'[x].sid = req[x].sid
    BY <1>1, <1>2, <1>4
  <2>2. UNCHANGED <<attempts, issued, oauth_state>>
    BY <1>1 DEF login
  <2> QED
    BY <2>1, <2>2 DEF SidsOnce
<1>8. \A x \in Browsers : x # r => ~(req[x] # None /\ req[x].st = "write")
  BY <1>1, SessionsAssumption DEF Writing, persist, Persisters
<1>9. Writing'
  BY <1>4, <1>5, <1>8 DEF Writing, TypeOK
<1>10. Dropped'
  BY <1>1, <1>2, <1>4, <1>5, <1>8 DEF Dropped
<1>11. GoneEverywhere'
  BY <1>1, <1>5 DEF GoneEverywhere, login
<1> QED
  BY <1>5, <1>6, <1>7, <1>9, <1>10, <1>11

\* When a snapshot has been written nobody writes.
LEMMA WrittenKeeps ==
  ASSUME WInv, NEW w \in Persisters, snap[w] \in Tables, NEW ok \in BOOLEAN, Written(w, ok)
  PROVE  /\ sessions_file' \in Tables /\ snap' \in [Persisters -> Tables \cup {None}]
         /\ \A x \in Persisters : snap'[x] = None
         /\ \A x \in Persisters : x # w => snap[x] = None
         /\ sessions_file' \in {sessions_file, snap[w]}
         /\ ok => sessions_file' = snap[w]
<1> USE DEF WInv, Held
<1>1. snap[w] # None
  BY SessionsAssumption
<1>2. \A x \in Persisters : x # w => snap[x] = None
  BY <1>1 DEF OneSaver
<1> QED
  BY <1>2 DEF Written, TypeOK

\* Nobody else writes while w does.
LEMMA OthersDoNotWrite ==
  ASSUME WInv, NEW w \in Persisters, snap[w] \in Tables
  PROVE  \A x \in Browsers : x # w /\ req[x] # None => req[x].st # "write"
<1>1. snap[w] # None
  BY SessionsAssumption
<1>2. \A x \in Browsers : x # w => snap[x] = None
  BY <1>1 DEF WInv, Held, OneSaver, Persisters
<1> QED
  BY <1>2, SessionsAssumption DEF WInv, Held, Writing

LEMMA RespondKeeps ==
  ASSUME WInv, NEW r \in Browsers, NEW ok \in BOOLEAN, Respond(r, ok)
  PROVE  WInv'
<1> USE DEF WInv, Held
<1>1. /\ req[r] # None /\ req[r] \in Saving /\ req[r].st = "write" /\ Written(r, ok)
      /\ UNCHANGED <<now, roles, attempts, table, past>> /\ r \in Persisters
  BY Kinds DEF Respond, Persisters
<1>2. snap[r] \in Tables
  BY <1>1 DEF Writing
<1>3. /\ sessions_file' \in Tables /\ snap' \in [Persisters -> Tables \cup {None}]
      /\ \A x \in Persisters : snap'[x] = None
      /\ sessions_file' \in {sessions_file, snap[r]} /\ (ok => sessions_file' = snap[r])
  BY <1>1, <1>2, WrittenKeeps
<1>4. \A x \in Browsers : x # r /\ req[x] # None => req[x].st # "write"
  BY <1>1, <1>2, OthersDoNotWrite
<1>5. req' = [req EXCEPT ![r] = None]
  BY DEF Respond, AnswerCallback, Done
<1>6. \A x \in Browsers : req'[x] = IF x = r THEN None ELSE req[x]
  BY <1>5 DEF TypeOK
<1>7. OneSaver' /\ Writing'
  BY <1>3, <1>4, <1>6 DEF OneSaver, Writing
<1>8. \A s \in gone : table[s] = None /\ sessions_file'[s] = None
  BY <1>2, <1>3, SessionsAssumption DEF GoneEverywhere, Persisters
<1>9. req[r].sid \in Sids /\ req[r].op \in {"callback", "logout"}
  BY <1>1 DEF Saving
<1>10. CASE req[r].op = "callback"
  <2>1. oauth_state' = None /\ issued' = issued \cup {req[r].sid} /\ gone' = gone
    BY <1>10 DEF Respond, AnswerCallback
  <2>2. TypeOK'
    BY <1>1, <1>3, <1>5, <1>9, <2>1 DEF TypeOK, roles, past
  <2>3. SidsOnce'
    <3>1. \A x \in Browsers : req'[x] # None => x # r /\ req'[x] = req[x]
      BY <1>6
    <3>2. \A x \in Browsers :
            req'[x] # None /\ req'[x].op = "callback" => req'[x].sid # req[r].sid
      BY <1>1, <1>10, <3>1 DEF SidsOnce
    <3>3. issued' \subseteq 1 .. attempts
      BY <1>1, <1>10, <2>1 DEF SidsOnce
    <3> QED
      BY <1>1, <2>1, <3>1, <3>2, <3>3 DEF SidsOnce
  <2>4. Dropped'
    BY <1>1, <1>4, <1>6 DEF Dropped
  <2>5. GoneEverywhere'
    BY <1>1, <1>3, <1>8, <2>1 DEF GoneEverywhere
  <2> QED
    BY <1>7, <2>2, <2>3, <2>4, <2>5
<1>11. CASE req[r].op = "logout"
  <2>1. /\ UNCHANGED <<oauth_state, issued>>
        /\ gone' = IF ok THEN gone \cup {req[r].sid} ELSE gone
    BY <1>11 DEF Respond
  <2>2. TypeOK'
    BY <1>1, <1>3, <1>5, <1>9, <2>1 DEF TypeOK, roles, past
  <2>3. SidsOnce'
    BY <1>1, <1>6, <2>1 DEF SidsOnce
  <2>4. Dropped'
    BY <1>1, <1>4, <1>6 DEF Dropped
  <2>5. table[req[r].sid] = None /\ snap[r][req[r].sid] = None /\ req[r].sid \in issued
    BY <1>1, <1>11 DEF Dropped, SidsOnce
  <2>6. GoneEverywhere'
    <3>1. gone' \subseteq issued'
      BY <2>1, <2>5 DEF GoneEverywhere
    <3>2. \A s \in gone' : table'[s] = None /\ sessions_file'[s] = None
      BY <1>1, <1>3, <1>8, <2>1, <2>5
    <3> QED
      BY <1>3, <3>1, <3>2 DEF GoneEverywhere
  <2> QED
    BY <1>7, <2>2, <2>3, <2>4, <2>6
<1> QED
  BY <1>9, <1>10, <1>11

LEMMA SnapshotKeeps ==
  ASSUME WInv, BeginSnapshot \/ \E ok \in BOOLEAN : EndSnapshot(ok)
  PROVE  WInv'
<1> USE DEF WInv, Held
<1>1. "tick" \in Persisters /\ "tick" \notin Browsers /\ Browsers \subseteq Persisters
  BY SessionsAssumption DEF Persisters
<1>2. UNCHANGED <<now, roles, login, table, gone, req, past>>
  BY DEF BeginSnapshot, EndSnapshot
<1>3. SidsOnce'
  BY <1>2 DEF SidsOnce, login
<1>4. CASE BeginSnapshot
  <2>1. persist("tick") /\ UNCHANGED sessions_file
    BY <1>4 DEF BeginSnapshot
  <2>2. /\ snap' \in [Persisters -> Tables \cup {None}] /\ OneSaver'
        /\ \A s \in gone : \A x \in Persisters : snap'[x] # None => snap'[x][s] = None
    BY <1>1, <1>2, <2>1, PersistKeeps
  <2>3. \A x \in Browsers : ~(req[x] # None /\ req[x].st = "write")
    BY <1>1, <2>1, SessionsAssumption DEF Writing, persist
  <2>4. TypeOK'
    BY <1>2, <2>1, <2>2 DEF TypeOK, roles, login, past
  <2>5. Writing' /\ Dropped' /\ GoneEverywhere'
    BY <1>2, <2>1, <2>2, <2>3 DEF Writing, Dropped, GoneEverywhere, login
  <2> QED
    BY <1>3, <2>2, <2>4, <2>5
<1>5. ASSUME NEW ok \in BOOLEAN, EndSnapshot(ok)
      PROVE  WInv'
  <2>1. snap["tick"] \in Tables /\ Written("tick", ok)
    BY <1>1, <1>5 DEF EndSnapshot, TypeOK
  <2>2. /\ sessions_file' \in Tables /\ snap' \in [Persisters -> Tables \cup {None}]
        /\ \A x \in Persisters : snap'[x] = None
        /\ sessions_file' \in {sessions_file, snap["tick"]}
    BY <1>1, <2>1, WrittenKeeps
  <2>3. \A x \in Browsers : ~(req[x] # None /\ req[x].st = "write")
    BY <1>1, <2>1, OthersDoNotWrite
  <2>4. TypeOK'
    BY <1>2, <2>2 DEF TypeOK, roles, login, past
  <2>5. \A s \in gone : table[s] = None /\ sessions_file'[s] = None
    BY <1>1, <2>1, <2>2, SessionsAssumption DEF GoneEverywhere
  <2>6. OneSaver' /\ Writing' /\ Dropped' /\ GoneEverywhere'
    BY <1>2, <2>2, <2>3, <2>5 DEF OneSaver, Writing, Dropped, GoneEverywhere, login
  <2> QED
    BY <1>3, <2>4, <2>6
<1> QED
  BY <1>4, <1>5

LEMMA RememberTyped ==
  ASSUME TypeOK, Remember
  PROVE  last' \in [Users -> [Roles -> Times]]
<1>1. now \in Times
  BY SessionsAssumption DEF TypeOK, Times
<1>2. \A u \in Users, role \in Roles : LastEntitled(u, role) \in Times
  BY <1>1 DEF LastEntitled, TypeOK
<1> QED
  BY <1>2 DEF Remember

\* A restart loads what was saved.
LEMMA RestartKeeps ==
  ASSUME WInv, NEW readable \in BOOLEAN, Restart(readable)
  PROVE  WInv'
<1> USE DEF WInv, Held
<1>1. /\ UNCHANGED <<now, web, mods, hidden, allowlist, changes, login, sessions_file, gone>>
      /\ process_start' = now /\ starts' \in 0 .. MaxStarts /\ owner' \in Users \cup {None}
      /\ req' = [r \in Browsers |-> None] /\ snap' = [w \in Persisters |-> None]
  <2>1. starts \in 0 .. MaxStarts /\ MaxStarts \in Nat
    BY SessionsAssumption DEF TypeOK
  <2> QED
    BY <2>1 DEF Restart
<1>2. \A s \in Session : [s EXCEPT !.checked = Never] \in Session
  BY SessionsAssumption DEF Session, Times, Never
<1>3. /\ load(sessions_file) \in Tables
      /\ \A s \in Sids : sessions_file[s] = None => load(sessions_file)[s] = None
  BY <1>2 DEF load, TypeOK, Tables
<1>4. /\ table' \in Tables
      /\ \A s \in Sids : sessions_file[s] = None => table'[s] = None
  BY <1>3 DEF Restart, NoSessions, Tables
<1>5. last' \in [Users -> [Roles -> Times]]
  BY RememberTyped DEF Restart
<1>6. TypeOK'
  BY <1>1, <1>4, <1>5 DEF TypeOK, login
<1>7. OneSaver' /\ Writing' /\ Dropped'
  BY <1>1 DEF OneSaver, Writing, Dropped
<1>8. SidsOnce'
  BY <1>1 DEF SidsOnce, login
<1>9. GoneEverywhere'
  BY <1>1, <1>4 DEF GoneEverywhere, login, TypeOK
<1> QED
  BY <1>6, <1>7, <1>8, <1>9

LEMMA WorldKeeps ==
  ASSUME WInv, Tick \/ Change \/ UNCHANGED vars
  PROVE  WInv'
<1> USE DEF WInv, Held
<1>1. UNCHANGED <<owner, login, table, disk, req, process_start, starts>>
  BY DEF Tick, Change, vars, roles, past
<1>2. now' \in 0 .. MaxTime /\ changes' \in 0 .. MaxChanges
  BY SessionsAssumption DEF TypeOK, Tick, Change, vars, roles
<1>3. /\ mods' \subseteq Users /\ hidden' \subseteq Users /\ allowlist' \subseteq Users
      /\ web' \in WebSettings
  BY DEF TypeOK, Tick, Change, vars, roles
<1>4. last' \in [Users -> [Roles -> Times]]
  BY RememberTyped DEF TypeOK, Tick, Change, vars, past
<1>5. TypeOK'
  BY <1>1, <1>2, <1>3, <1>4 DEF TypeOK, login, disk
<1>6. Held'
  BY <1>1 DEF OneSaver, SidsOnce, Writing, Dropped, GoneEverywhere, login, disk
<1> QED
  BY <1>5, <1>6

LEMMA StepKeeps ==
  ASSUME WInv, [Next]_vars
  PROVE  WInv'
BY AuthStartKeeps, CallbackKeeps, ExchangeKeeps, ModeratesKeeps, IsModeratorKeeps, RespondKeeps,
   GateKeeps, LogoutKeeps, BeginPersistKeeps, ServedKeeps, SnapshotKeeps, RestartKeeps, WorldKeeps
   DEF Next, TokenAnswers

LEMMA Always == Spec => []WInv
BY InitHolds, StepKeeps, PTL DEF Spec

\* The variables of sign-in and sessions stay in their sets.
THEOREM SessionsTyped == Spec => []TypeOK
<1>1. WInv => TypeOK
  BY DEF WInv
<1> QED
  BY Always, <1>1, PTL

\* A logout whose answer says that it was saved is final: no snapshot under way, sign-in
\* under way or restart brings the session back into the table.
THEOREM LogoutIsFinal == Spec => []LoggedOutStaysOut
<1>1. WInv => LoggedOutStaysOut
  BY DEF WInv, Held, GoneEverywhere, LoggedOutStaysOut
<1> QED
  BY Always, <1>1, PTL

-----------------------------------------------------------------------------
(* Roles.  A role that was checked at some time was that of the user no    *)
(* more than a call to Twitch before, and in this process.                 *)

LastInPast ==
  /\ process_start <= now
  /\ \A u \in Users, role \in Roles : last[u][role] <= now

\* What the last check of a session is worth.
EntriesFresh ==
  \A s \in Sids : table[s] # None /\ table[s].checked # Never =>
    /\ table[s].checked <= now
    /\ LastEntitled(table[s].user, table[s].role) >= table[s].checked - MaxCall
    /\ LastEntitled(table[s].user, table[s].role) >= process_start

\* A sign-in waits for Twitch no longer than a call takes; the allowlist it read was true then.
AsksInTime ==
  \A r \in Browsers : req[r] # None /\ req[r].op = "callback"
                      /\ req[r].st \in {"exchange", "modcheck"} =>
    /\ process_start <= req[r].at /\ req[r].at <= now /\ now - req[r].at <= MaxCall
    /\ req[r].st = "modcheck" /\ req[r].allow => LastEntitled(req[r].user, "viewer") >= req[r].at

\* A gate is about the session that is in the table, if one is.
GatesInTime ==
  \A r \in Browsers : req[r] # None /\ req[r].op = "gate" =>
    /\ process_start <= req[r].at /\ req[r].at <= now
    /\ req[r].st = "modcheck" => req[r].role = "mod"
    /\ table[req[r].sid] # None => /\ table[req[r].sid].user = req[r].user
                                   /\ table[req[r].sid].role = req[r].role

RolesHold == LastInPast /\ EntriesFresh /\ AsksInTime /\ GatesInTime /\ RolesAreFresh

FInv == WInv /\ RolesHold

\* The clocks are numbers.
LEMMA Clocks ==
  ASSUME TypeOK
  PROVE  /\ now \in Int /\ process_start \in Int /\ MaxCall \in Nat /\ Never = -1 /\ now # Never
         /\ \A u \in Users, role \in Roles : /\ last[u][role] \in Int
                                             /\ LastEntitled(u, role) \in Int
         /\ \A s \in Sids : table[s] # None => /\ table[s].checked \in Int
                                               /\ table[s].user \in Users /\ table[s].role \in Roles
         /\ \A r \in Browsers : req[r] # None /\ req[r] \in Asking \cup Gate =>
              req[r].at \in Int /\ req[r].user \in Users
         /\ \A r \in Browsers : req[r] # None /\ req[r] \in Gate =>
              req[r].refresh \in Nat /\ req[r].role \in Roles
<1>1. now \in 0 .. MaxTime /\ process_start \in 0 .. MaxTime /\ MaxTime \in Nat /\ MaxCall \in Nat
  BY SessionsAssumption DEF TypeOK
<1>2. \A t \in Times : t \in Int
  BY <1>1 DEF Times
<1>3. \A u \in Users, role \in Roles : last[u][role] \in Times
  BY DEF TypeOK
<1>4. \A u \in Users, role \in Roles : last[u][role] \in Int /\ LastEntitled(u, role) \in Int
  BY <1>1, <1>2, <1>3 DEF LastEntitled
<1>5. \A s \in Sids : table[s] # None => /\ table[s].checked \in Int
                                         /\ table[s].user \in Users /\ table[s].role \in Roles
  BY <1>2, Entry DEF Session
<1>6. \A x \in Asking \cup Gate : x.at \in Int /\ x.user \in Users
  BY <1>2 DEF Asking, Gate
<1>7. \A x \in Gate : x.refresh \in Nat /\ x.role \in Roles
  BY DEF Gate
<1> QED
  BY <1>1, <1>4, <1>5, <1>6, <1>7 DEF Never

\* Whoever is entitled now was so last now.
LEMMA EntitledNow ==
  ASSUME NEW u, NEW role, Entitled(u, role)
  PROVE  LastEntitled(u, role) = now
BY DEF LastEntitled

\* While nothing around the sessions changes, neither do the clocks.
LEMMA StandStill ==
  ASSUME UNCHANGED <<now, roles, past>>
  PROVE  /\ now' = now /\ process_start' = process_start /\ last' = last
         /\ \A u, role : LastEntitled(u, role)' = LastEntitled(u, role)
<1>1. UNCHANGED <<mods, hidden, owner, allowlist>> /\ now' = now /\ last' = last
      /\ process_start' = process_start
  BY DEF roles, past
<1>2. \A u, role : Entitled(u, role)' = Entitled(u, role)
  BY <1>1 DEF Entitled
<1> QED
  BY <1>1, <1>2 DEF LastEntitled

\* What a step of one request must do to keep the roles fresh.  An entry it changes is of
\* the same session or was checked now ...
ChecksKept ==
  \A s \in Sids : table'[s] # None =>
    \/ /\ table[s] # None /\ table'[s].user = table[s].user
       /\ table'[s].role = table[s].role /\ table'[s].checked = table[s].checked
    \/ /\ table'[s].checked = now
       /\ LastEntitled(table'[s].user, table'[s].role) >= now - MaxCall
       /\ LastEntitled(table'[s].user, table'[s].role) >= process_start

\* ... the sessions of the other gates stay whose they are ...
OthersKept(r) ==
  \A x \in Browsers : x # r /\ req[x] # None /\ req[x].op = "gate" /\ table'[req[x].sid] # None =>
    /\ table[req[x].sid] # None
    /\ table'[req[x].sid].user = table[req[x].sid].user
    /\ table'[req[x].sid].role = table[req[x].sid].role

\* ... and what becomes of the request, v, is in time.
CheckedInTime(v) ==
  /\ v.op = "callback" /\ v.st \in {"exchange", "modcheck"} =>
       /\ process_start <= v.at /\ v.at <= now /\ now - v.at <= MaxCall
       /\ v.st = "modcheck" /\ v.allow => LastEntitled(v.user, "viewer") >= v.at
  /\ v.op = "gate" =>
       /\ process_start <= v.at /\ v.at <= now
       /\ v.st = "modcheck" => v.role = "mod"
       /\ table'[v.sid] # None => table'[v.sid].user = v.user /\ table'[v.sid].role = v.role
  /\ v.st = "admitted" /\ ~v.failed =>
       /\ LastEntitled(v.user, v.role) >= v.at - v.refresh - MaxCall
       /\ LastEntitled(v.user, v.role) >= process_start

LEMMA RequestStaysFresh ==
  ASSUME FInv, WInv', UNCHANGED <<now, roles, past>>,
         NEW r \in Browsers, NEW v, req' = [req EXCEPT ![r] = v],
         ChecksKept, OthersKept(r), v # None => CheckedInTime(v)
  PROVE  FInv'
<1> USE DEF FInv, RolesHold
<1>1. /\ now' = now /\ process_start' = process_start /\ last' = last
      /\ \A u, role : LastEntitled(u, role)' = LastEntitled(u, role)
  BY StandStill
<1>2. \A x \in Browsers : req'[x] = IF x = r THEN v ELSE req[x]
  BY DEF WInv, TypeOK
<1>3. LastInPast'
  BY <1>1 DEF LastInPast
<1>4. EntriesFresh'
  <2> SUFFICES ASSUME NEW s \in Sids, table'[s] # None, table'[s].checked # Never
               PROVE  /\ table'[s].checked <= now
                      /\ LastEntitled(table'[s].user, table'[s].role) >= table'[s].checked - MaxCall
                      /\ LastEntitled(table'[s].user, table'[s].role) >= process_start
    BY <1>1 DEF EntriesFresh
  <2>1. CASE /\ table[s] # None /\ table'[s].user = table[s].user
             /\ table'[s].role = table[s].role /\ table'[s].checked = table[s].checked
    BY <2>1 DEF EntriesFresh
  <2>2. CASE /\ table'[s].checked = now
             /\ LastEntitled(table'[s].user, table'[s].role) >= now - MaxCall
             /\ LastEntitled(table'[s].user, table'[s].role) >= process_start
    BY <2>2, Clocks DEF WInv
  <2> QED
    BY <2>1, <2>2 DEF ChecksKept
<1>5. AsksInTime'
  <2> SUFFICES ASSUME NEW x \in Browsers, req'[x] # None, req'[x].op = "callback",
                      req'[x].st \in {"exchange", "modcheck"}
               PROVE  /\ process_start <= req'[x].at /\ req'[x].at <= now
                      /\ now - req'[x].at <= MaxCall
                      /\ req'[x].st = "modcheck" /\ req'[x].allow =>
                           LastEntitled(req'[x].user, "viewer") >= req'[x].at
    BY <1>1 DEF AsksInTime
  <2> QED
    BY <1>2 DEF AsksInTime, CheckedInTime
<1>6. GatesInTime'
  <2> SUFFICES ASSUME NEW x \in Browsers, req'[x] # None, req'[x].op = "gate"
               PROVE  /\ process_start <= req'[x].at /\ req'[x].at <= now
                      /\ req'[x].st = "modcheck" => req'[x].role = "mod"
                      /\ table'[req'[x].sid] # None =>
                           /\ table'[req'[x].sid].user = req'[x].user
                           /\ table'[req'[x].sid].role = req'[x].role
    BY <1>1 DEF GatesInTime
  <2>1. CASE x = r
    BY <1>2, <2>1 DEF CheckedInTime
  <2>2. CASE x # r
    <3>1. req'[x] = req[x]
      BY <1>2, <2>2
    <3> QED
      BY <2>2, <3>1 DEF GatesInTime, OthersKept
  <2> QED
    BY <2>1, <2>2
<1>7. RolesAreFresh'
  <2> SUFFICES ASSUME NEW x \in Browsers, req'[x] # None, req'[x].st = "admitted", ~req'[x].failed
               PROVE  /\ LastEntitled(req'[x].user, req'[x].role)
                           >= req'[x].at - req'[x].refresh - MaxCall
                      /\ LastEntitled(req'[x].user, req'[x].role) >= process_start
    BY <1>1 DEF RolesAreFresh
  <2> QED
    BY <1>2 DEF RolesAreFresh, CheckedInTime
<1> QED
  BY <1>3, <1>4, <1>5, <1>6, <1>7

\* A step that touches neither the sessions nor the requests.
LEMMA ApartStaysFresh ==
  ASSUME FInv, WInv', UNCHANGED <<now, roles, past, table, req>>
  PROVE  FInv'
<1>1. /\ now' = now /\ process_start' = process_start /\ last' = last
      /\ \A u, role : LastEntitled(u, role)' = LastEntitled(u, role)
  BY StandStill
<1> QED
  BY <1>1 DEF FInv, RolesHold, LastInPast, EntriesFresh, AsksInTime, GatesInTime, RolesAreFresh

\* A request that goes on or ends without touching the table, or by dropping a session.
LEMMA DropStaysFresh ==
  ASSUME FInv, WInv', UNCHANGED <<now, roles, past>>,
         NEW r \in Browsers, NEW v \in Saving \cup {None}, req' = [req EXCEPT ![r] = v],
         \A s \in Sids : table'[s] # None => table'[s] = table[s]
  PROVE  FInv'
<1>1. v # None => CheckedInTime(v)
  BY DEF Saving, CheckedInTime
<1>2. \A x \in Browsers : req[x] # None /\ req[x].op = "gate" => req[x].sid \in Sids
  BY Kinds DEF FInv, WInv, Gate
<1>3. ChecksKept
  BY DEF ChecksKept
<1>4. OthersKept(r)
  BY <1>2 DEF OthersKept
<1> QED
  BY <1>1, <1>3, <1>4, RequestStaysFresh

\* The session created is of a role its user had no longer ago than a call takes.
LEMMA InsertStaysFresh ==
  ASSUME FInv, WInv', UNCHANGED <<now, roles, past>>,
         NEW r \in Browsers, req[r] # None, req[r] \in Asking,
         NEW role \in Roles, Insert(r, role),
         LastEntitled(req[r].user, role) >= now - MaxCall,
         LastEntitled(req[r].user, role) >= process_start
  PROVE  FInv'
<1> DEFINE v == Saves("callback", req[r].sid)
<1>1. req[r].op = "callback" /\ req[r].sid \in Sids /\ req[r].user \in Users
  BY DEF Asking
<1>2. CheckedInTime(v)
  BY DEF Saves, CheckedInTime
<1>3. req' = [req EXCEPT ![r] = v]
  BY DEF Insert, Begin
<1> HIDE DEF v
<1>4. \A s \in Sids : IF s = req[r].sid
                      THEN /\ table'[s].user = req[r].user /\ table'[s].role = role
                           /\ table'[s].checked = now
                      ELSE table'[s] = table[s]
  BY <1>1 DEF Insert, insert_at, FInv, WInv, TypeOK, Tables
<1>5. \A x \in Browsers : req[x] # None /\ req[x].op = "gate" =>
        req[x].sid \in Sids /\ req[x].sid # req[r].sid
  BY <1>1, Kinds DEF FInv, WInv, Held, SidsOnce, Gate
<1>6. ChecksKept
  <2> SUFFICES ASSUME NEW s \in Sids, table'[s] # None
               PROVE  \/ /\ table[s] # None /\ table'[s].user = table[s].user
                         /\ table'[s].role = table[s].role /\ table'[s].checked = table[s].checked
                      \/ /\ table'[s].checked = now
                         /\ LastEntitled(table'[s].user, table'[s].role) >= now - MaxCall
                         /\ LastEntitled(table'[s].user, table'[s].role) >= process_start
    BY DEF ChecksKept
  <2> QED
    BY <1>4
<1>7. OthersKept(r)
  BY <1>4, <1>5 DEF OthersKept
<1> QED
  BY <1>2, <1>3, <1>6, <1>7, RequestStaysFresh

LEMMA CallbackStaysFresh ==
  ASSUME FInv, WInv', NEW r \in Browsers, NEW u \in Users, callback(r, u)
  PROVE  FInv'
<1> DEFINE v == Asks(oauth_state, u)
<1>1. UNCHANGED <<now, roles, past>> /\ table' = table /\ req' = [req EXCEPT ![r] = v]
      /\ oauth_state \in Sids
  BY DEF callback, Begin, FInv, WInv, TypeOK
<1>2. now \in Int /\ now \in Times /\ MaxCall \in Nat /\ process_start <= now
  BY Clocks, SessionsAssumption DEF FInv, WInv, RolesHold, LastInPast, TypeOK, Times
<1>3. CheckedInTime(v)
  BY <1>2 DEF Asks, CheckedInTime
<1> HIDE DEF v
<1>4. ChecksKept /\ OthersKept(r)
  BY <1>1 DEF ChecksKept, OthersKept
<1> QED
  BY <1>1, <1>3, <1>4, RequestStaysFresh

LEMMA ExchangeStaysFresh ==
  ASSUME FInv, WInv', NEW r \in Browsers, NEW ok \in BOOLEAN, exchange_code(r, ok)
  PROVE  FInv'
<1>1. /\ req[r] # None /\ req[r] \in Asking /\ req[r].st = "exchange"
      /\ UNCHANGED <<now, roles, past>>
  BY Kinds DEF exchange_code, FInv, WInv
<1>2. /\ now \in Int /\ now \in Times /\ MaxCall \in Nat /\ process_start \in Int
      /\ process_start <= now
  BY Clocks, SessionsAssumption DEF FInv, WInv, RolesHold, LastInPast, TypeOK, Times
<1>3. CASE AnswerCallback(r) /\ UNCHANGED table
  BY <1>1, <1>3, DropStaysFresh DEF AnswerCallback, Done
<1>4. ASSUME NEW role \in Roles, Entitled(req[r].user, role), Insert(r, role)
      PROVE  FInv'
  <2>1. LastEntitled(req[r].user, role) = now
    BY <1>4, EntitledNow
  <2> QED
    BY <1>1, <1>2, <1>4, <2>1, InsertStaysFresh
<1>5. CASE /\ req' = [req EXCEPT ![r].st = "modcheck", ![r].at = now,
                                 ![r].allow = (req[r].user \in allowlist)]
           /\ UNCHANGED <<oauth_state, table>>
  <2> DEFINE b == req[r].user \in allowlist
             v == [req[r] EXCEPT !.st = "modcheck", !.at = now, !.allow = b]
  <2>1. b \in BOOLEAN
    OBVIOUS
  <2>2. req' = [req EXCEPT ![r] = v]
    BY <1>1, <1>5 DEF FInv, WInv, TypeOK
  <2> HIDE DEF b
  <2>3. /\ v \in Asking /\ v.op = "callback" /\ v.at = now /\ v.user = req[r].user /\ v.allow = b
        /\ v.st = "modcheck"
    BY <1>1, <1>2, <2>1 DEF Asking
  <2>4. b => LastEntitled(req[r].user, "viewer") = now
    BY EntitledNow DEF b, Entitled
  <2>5. CheckedInTime(v)
    BY <1>2, <2>3, <2>4 DEF CheckedInTime
  <2> HIDE DEF v
  <2>6. ChecksKept /\ OthersKept(r)
    BY <1>5 DEF ChecksKept, OthersKept
  <2> QED
    BY <1>1, <2>2, <2>5, <2>6, RequestStaysFresh
<1>6. /\ owner = req[r].user => Entitled(req[r].user, "owner")
      /\ shortcut(req[r].user) => Entitled(req[r].user, "mod")
      /\ {"owner", "mod"} \subseteq Roles
  BY DEF Entitled, shortcut, Roles
<1> QED
  BY <1>3, <1>4, <1>5, <1>6 DEF exchange_code

LEMMA ModeratesStaysFresh ==
  ASSUME FInv, WInv', NEW r \in Browsers, NEW ok \in BOOLEAN, user_moderates_channel(r, ok)
  PROVE  FInv'
<1>1. /\ req[r] # None /\ req[r] \in Asking /\ req[r].st = "modcheck" /\ req[r].op = "callback"
      /\ UNCHANGED <<now, roles, past>>
  BY Kinds DEF user_moderates_channel, FInv, WInv
<1>2. /\ now \in Int /\ MaxCall \in Nat /\ process_start \in Int /\ process_start <= now
      /\ req[r].at \in Int /\ LastEntitled(req[r].user, "viewer") \in Int
      /\ {"viewer", "mod"} \subseteq Roles
  BY <1>1, Clocks DEF FInv, WInv, RolesHold, LastInPast, Roles
<1>3. CASE AnswerCallback(r) /\ UNCHANGED table
  BY <1>1, <1>3, DropStaysFresh DEF AnswerCallback, Done
<1>4. CASE req[r].user \in mods /\ Insert(r, "mod")
  <2>1. LastEntitled(req[r].user, "mod") = now
    BY <1>4, EntitledNow DEF Entitled
  <2> QED
    BY <1>1, <1>2, <1>4, <2>1, InsertStaysFresh
<1>5. CASE req[r].allow /\ Insert(r, "viewer")
  <2>1. /\ process_start <= req[r].at /\ now - req[r].at <= MaxCall
        /\ LastEntitled(req[r].user, "viewer") >= req[r].at
    BY <1>1, <1>5 DEF FInv, RolesHold, AsksInTime
  <2>2. /\ LastEntitled(req[r].user, "viewer") >= now - MaxCall
        /\ LastEntitled(req[r].user, "viewer") >= process_start
    BY <1>2, <2>1
  <2> QED
    BY <1>1, <1>2, <1>5, <2>2, InsertStaysFresh
<1> QED
  BY <1>3, <1>4, <1>5 DEF user_moderates_channel

\* Sliding a session, dropping it or recording a check that was made.
LEMMA TouchStays ==
  ASSUME TypeOK, NEW sid \in Sids, NEW r \in Browsers,
         table' \in {get_and_touch(sid), drop_session(sid), table}
  PROVE  ChecksKept /\ OthersKept(r)
<1>1. \A s \in Sids : table'[s] # None =>
        /\ table[s] # None /\ table'[s].user = table[s].user
        /\ table'[s].role = table[s].role /\ table'[s].checked = table[s].checked
  <2> SUFFICES ASSUME NEW s \in Sids, table'[s] # None
               PROVE  /\ table[s] # None /\ table'[s].user = table[s].user
                      /\ table'[s].role = table[s].role /\ table'[s].checked = table[s].checked
    OBVIOUS
  <2>1. table \in Tables
    BY DEF TypeOK
  <2>2. CASE table' = get_and_touch(sid)
    <3>1. table'[s] # None => table[s] # None
      BY <2>2, TableOps
    <3>2. table[s] \in Session
      BY <3>1, Entry
    <3>3. table'[s] = table[s] \/ table'[s] = [table[s] EXCEPT !.seen = now]
      BY <2>1, <2>2 DEF get_and_touch, Tables
    <3> QED
      BY <3>1, <3>2, <3>3 DEF Session
  <2>3. CASE table' \in {drop_session(sid), table}
    BY <2>1, <2>3 DEF drop_session, Tables
  <2> QED
    BY <2>2, <2>3
<1>2. ChecksKept
  BY <1>1 DEF ChecksKept
<1>3. OthersKept(r)
  <2>1. \A x \in Browsers : req[x] # None /\ req[x].op = "gate" => req[x].sid \in Sids
    BY Kinds DEF Gate
  <2> QED
    BY <1>1, <2>1 DEF OthersKept
<1> QED
  BY <1>2, <1>3

\* A check that was made just now is recorded for a session whose user has the role.
LEMMA CheckStays ==
  ASSUME FInv, NEW sid \in Sids, NEW r \in Browsers, table[sid] # None,
         Entitled(table[sid].user, table[sid].role),
         NEW e, e.user = table[sid].user, e.role = table[sid].role, e.checked = now,
         table' = [table EXCEPT ![sid] = e]
  PROVE  ChecksKept /\ OthersKept(r)
<1>1. \A s \in Sids : table'[s] = IF s = sid THEN e ELSE table[s]
  BY DEF FInv, WInv, TypeOK, Tables
<1>2. now \in Int /\ MaxCall \in Nat /\ process_start \in Int /\ process_start <= now
  BY Clocks DEF FInv, WInv, RolesHold, LastInPast
<1>3. LastEntitled(e.user, e.role) = now
  BY EntitledNow
<1>4. LastEntitled(e.user, e.role) >= now - MaxCall /\ LastEntitled(e.user, e.role) >= process_start
  BY <1>2, <1>3
<1>5. ChecksKept
  BY <1>1, <1>4 DEF ChecksKept
<1>6. OthersKept(r)
  <2>1. \A x \in Browsers : req[x] # None /\ req[x].op = "gate" => req[x].sid \in Sids
    BY Kinds DEF FInv, WInv, Gate
  <2> QED
    BY <1>1, <2>1 DEF OthersKept
<1> QED
  BY <1>5, <1>6

LEMMA IsModeratorStaysFresh ==
  ASSUME FInv, WInv', NEW r \in Browsers, NEW ok \in BOOLEAN, is_moderator(r, ok)
  PROVE  FInv'
<1> USE DEF FInv, WInv, RolesHold
<1>1. /\ req[r] # None /\ req[r] \in Gate /\ req[r].op = "gate" /\ req[r].st = "modcheck"
      /\ UNCHANGED <<now, roles, past>>
  BY Kinds DEF is_moderator
<1>2. req[r].sid \in Sids /\ req[r].user \in Users /\ req[r].refresh \in Nat
  BY <1>1 DEF Gate
<1>3. /\ now \in Int /\ MaxCall \in Nat /\ process_start \in Int /\ req[r].at \in Int
  BY <1>1, Clocks
<1>4. /\ process_start <= req[r].at /\ req[r].at <= now /\ req[r].role = "mod"
      /\ table[req[r].sid] # None => /\ table[req[r].sid].user = req[r].user
                                     /\ table[req[r].sid].role = req[r].role
  BY <1>1 DEF GatesInTime
<1>5. CASE table' = drop_session(req[r].sid) /\ Done(r)
  <2>1. ChecksKept /\ OthersKept(r)
    BY <1>2, <1>5, TouchStays
  <2> QED
    BY <1>1, <1>5, <2>1, RequestStaysFresh DEF Done
<1>6. CASE /\ ok => req[r].user \in mods
           /\ table' = Stamp(r, ok)
           /\ req' = [req EXCEPT ![r].st = "admitted", ![r].failed = ~ok]
  <2> DEFINE v == [req[r] EXCEPT !.st = "admitted", !.failed = ~ok]
  <2>1. /\ v.op = "gate" /\ v.st = "admitted" /\ v.sid = req[r].sid /\ v.user = req[r].user
        /\ v.role = req[r].role /\ v.at = req[r].at /\ v.refresh = req[r].refresh
        /\ ~v.failed => ok
    <3>1. v.failed = ~ok
      BY <1>1 DEF Gate
    <3> QED
      BY <1>1, <3>1 DEF Gate
  <2>2. req' = [req EXCEPT ![r] = v]
    BY <1>1, <1>6 DEF TypeOK
  <2> HIDE DEF v
  <2>3. ok => Entitled(req[r].user, "mod")
    BY <1>6 DEF Entitled
  <2>4. \/ table' = table
        \/ /\ ok /\ table[req[r].sid] # None
           /\ table' = [table EXCEPT ![req[r].sid] = [table[req[r].sid] EXCEPT !.checked = now]]
    <3>1. table \in [Sids -> Session \cup {None}]
      BY DEF TypeOK, Tables
    <3>2. CASE ok
      <4>1. table' = [table EXCEPT ![req[r].sid] =
                        IF table[req[r].sid] = None THEN None
                        ELSE [table[req[r].sid] EXCEPT !.checked = now]]
        BY <1>2, <1>6, <3>1, <3>2 DEF Stamp, record_role_check
      <4>2. CASE table[req[r].sid] = None
        <5>1. table' = [table EXCEPT ![req[r].sid] = table[req[r].sid]]
          BY <4>1, <4>2
        <5> QED
          BY <1>2, <3>1, <5>1
      <4> QED
        BY <3>2, <4>1, <4>2
    <3> QED
      BY <1>6, <3>2 DEF Stamp
  <2>5. CASE table' = table
    <3>1. ChecksKept /\ OthersKept(r)
      BY <1>2, <2>5, TouchStays
    <3>2. ok => LastEntitled(req[r].user, req[r].role) = now
      BY <1>4, <2>3, EntitledNow
    <3>3. CheckedInTime(v)
      BY <1>2, <1>3, <1>4, <2>1, <2>5, <3>2 DEF CheckedInTime
    <3> QED
      BY <1>1, <2>2, <3>1, <3>3, RequestStaysFresh
  <2>6. CASE /\ ok /\ table[req[r].sid] # None
             /\ table' = [table EXCEPT ![req[r].sid] = [table[req[r].sid] EXCEPT !.checked = now]]
    <3> DEFINE e == [table[req[r].sid] EXCEPT !.checked = now]
    <3>1. e.user = table[req[r].sid].user /\ e.role = table[req[r].sid].role /\ e.checked = now
      BY <1>2, <2>6, Entry DEF Session
    <3>2. table'[req[r].sid] = e
      BY <1>2, <2>6 DEF TypeOK, Tables
    <3>3. table' = [table EXCEPT ![req[r].sid] = e]
      BY <2>6
    <3> HIDE DEF e
    <3>4. ChecksKept /\ OthersKept(r)
      <4>1. Entitled(table[req[r].sid].user, table[req[r].sid].role)
        BY <1>4, <2>3, <2>6
      <4> QED
        BY <1>2, <2>6, <3>1, <3>3, <4>1, CheckStays
    <3>5. LastEntitled(req[r].user, req[r].role) = now
      BY <1>4, <2>3, <2>6, EntitledNow
    <3>6. CheckedInTime(v)
      BY <1>2, <1>3, <1>4, <2>1, <2>6, <3>1, <3>2, <3>5 DEF CheckedInTime
    <3> QED
      BY <1>1, <2>2, <3>4, <3>6, RequestStaysFresh
  <2> QED
    BY <2>4, <2>5, <2>6
<1> QED
  BY <1>5, <1>6 DEF is_moderator

\* What the gate believes when it admits a request without asking Twitch.
LEMMA GateGrants ==
  ASSUME TypeOK, NEW r \in Browsers, NEW sid \in Sids, NEW min \in build_router,
         require_role(r, sid, min)
  PROVE  \/ table' \in {get_and_touch(sid), drop_session(sid)} /\ UNCHANGED req
         \/ /\ Live(sid) /\ table' = get_and_touch(sid)
            /\ ~NeedsCheck(sid) /\ Begin(r, Passes(sid, "admitted"))
         \/ /\ Live(sid) /\ table' = get_and_touch(sid)
            /\ table[sid].role = "mod" /\ Begin(r, Passes(sid, "modcheck"))
         \/ /\ Live(sid) /\ Entitled(table[sid].user, table[sid].role)
            /\ Begin(r, Passes(sid, "admitted"))
            /\ table' = [table EXCEPT ![sid] = [get_and_touch(sid)[sid] EXCEPT !.checked = now]]
<1>1. Live(sid) => table[sid].role \in {"viewer", "mod", "owner"}
  BY Entry DEF Live, Session, Roles
<1>2. CASE ~Live(sid) \/ Rank(table[sid].role) < Rank(min)
  BY <1>2 DEF require_role
<1>3. CASE ~(~Live(sid) \/ Rank(table[sid].role) < Rank(min)) /\ ~NeedsCheck(sid)
  BY <1>3 DEF require_role
<1>4. CASE ~(~Live(sid) \/ Rank(table[sid].role) < Rank(min)) /\ NeedsCheck(sid)
  <2>1. CASE table[sid].role = "owner"
    BY <1>4, <2>1 DEF require_role, Entitled
  <2>2. CASE table[sid].role = "viewer"
    BY <1>4, <2>2 DEF require_role, Entitled
  <2>3. CASE table[sid].role = "mod"
    BY <1>4, <2>3 DEF require_role, Entitled, shortcut
  <2> QED
    BY <1>1, <1>4, <2>1, <2>2, <2>3
<1> QED
  BY <1>2, <1>3, <1>4

\* The session the gate slid is the one it read.
LEMMA Touched ==
  ASSUME TypeOK, NEW sid \in Sids, Live(sid)
  PROVE  /\ get_and_touch(sid)[sid].user = table[sid].user
         /\ get_and_touch(sid)[sid].role = table[sid].role
         /\ table[sid] \in Session /\ table[sid] # None
         /\ get_and_touch(sid)[sid] = [table[sid] EXCEPT !.seen = now]
<1>1. table[sid] \in Session /\ table[sid] # None /\ table \in Tables
  BY Entry DEF Live, TypeOK
<1>2. get_and_touch(sid)[sid] = [table[sid] EXCEPT !.seen = now]
  BY <1>1 DEF get_and_touch, Tables
<1> QED
  BY <1>1, <1>2 DEF Session

LEMMA GateStaysFresh ==
  ASSUME FInv, WInv', NEW r \in Browsers, NEW sid \in Sids, NEW min \in build_router,
         require_role(r, sid, min)
  PROVE  FInv'
<1>1. UNCHANGED <<now, roles, past>> /\ req[r] = None /\ TypeOK
  BY DEF require_role, FInv, WInv
<1>2. /\ now \in Int /\ MaxCall \in Nat /\ process_start \in Int /\ process_start <= now
      /\ web[2] \in Nat
  BY Clocks, SessionsAssumption DEF FInv, WInv, RolesHold, LastInPast, TypeOK
<1>3. CASE table' \in {get_and_touch(sid), drop_session(sid)} /\ UNCHANGED req
  <2>1. req' = [req EXCEPT ![r] = None]
    BY <1>1, <1>3 DEF TypeOK
  <2>2. ChecksKept /\ OthersKept(r)
    BY <1>1, <1>3, TouchStays
  <2> QED
    BY <1>1, <2>1, <2>2, RequestStaysFresh
<1>4. CASE /\ Live(sid) /\ table' = get_and_touch(sid)
           /\ ~NeedsCheck(sid) /\ Begin(r, Passes(sid, "admitted"))
  <2> DEFINE v == Passes(sid, "admitted")
  <2>1. /\ table[sid].checked # Never /\ now - table[sid].checked <= web[2]
        /\ table[sid] # None /\ table[sid].checked \in Int
        /\ LastEntitled(table[sid].user, table[sid].role) \in Int
    BY <1>1, <1>2, <1>4, Clocks DEF NeedsCheck, Live
  <2>2. /\ LastEntitled(table[sid].user, table[sid].role) >= table[sid].checked - MaxCall
        /\ LastEntitled(table[sid].user, table[sid].role) >= process_start
    BY <2>1 DEF FInv, RolesHold, EntriesFresh
  <2>3. LastEntitled(table[sid].user, table[sid].role) >= now - web[2] - MaxCall
    BY <1>2, <2>1, <2>2
  <2>4. CheckedInTime(v)
    <3>1. table'[sid].user = table[sid].user /\ table'[sid].role = table[sid].role
      BY <1>1, <1>4, Touched
    <3> QED
      BY <1>2, <2>2, <2>3, <3>1 DEF CheckedInTime, Passes
  <2>5. ChecksKept /\ OthersKept(r)
    BY <1>1, <1>4, TouchStays
  <2> HIDE DEF v
  <2>6. req' = [req EXCEPT ![r] = v]
    BY <1>4 DEF Begin, v
  <2> QED
    BY <1>1, <2>4, <2>5, <2>6, RequestStaysFresh
<1>5. CASE /\ Live(sid) /\ table' = get_and_touch(sid)
           /\ table[sid].role = "mod" /\ Begin(r, Passes(sid, "modcheck"))
  <2> DEFINE v == Passes(sid, "modcheck")
  <2>1. CheckedInTime(v)
    <3>1. table'[sid].user = table[sid].user /\ table'[sid].role = table[sid].role
      BY <1>1, <1>5, Touched
    <3> QED
      BY <1>2, <1>5, <3>1 DEF CheckedInTime, Passes
  <2>2. ChecksKept /\ OthersKept(r)
    BY <1>1, <1>5, TouchStays
  <2> HIDE DEF v
  <2>3. req' = [req EXCEPT ![r] = v]
    BY <1>5 DEF Begin, v
  <2> QED
    BY <1>1, <2>1, <2>2, <2>3, RequestStaysFresh
<1>6. CASE /\ Live(sid) /\ Entitled(table[sid].user, table[sid].role)
           /\ Begin(r, Passes(sid, "admitted"))
           /\ table' = [table EXCEPT ![sid] = [get_and_touch(sid)[sid] EXCEPT !.checked = now]]
  <2> DEFINE v == Passes(sid, "admitted")
             e == [get_and_touch(sid)[sid] EXCEPT !.checked = now]
  <2>1. /\ e.user = table[sid].user /\ e.role = table[sid].role /\ e.checked = now
        /\ table[sid] # None
    BY <1>1, <1>6, Touched DEF Session
  <2>2. table' = [table EXCEPT ![sid] = e] /\ table'[sid] = e
    BY <1>1, <1>6 DEF TypeOK, Tables
  <2> HIDE DEF e
  <2>3. LastEntitled(table[sid].user, table[sid].role) = now
    BY <1>6, EntitledNow
  <2>4. CheckedInTime(v)
    BY <1>2, <2>1, <2>2, <2>3 DEF CheckedInTime, Passes
  <2>5. ChecksKept /\ OthersKept(r)
    BY <1>6, <2>1, <2>2, CheckStays
  <2> HIDE DEF v
  <2>6. req' = [req EXCEPT ![r] = v]
    BY <1>6 DEF Begin, v
  <2> QED
    BY <1>1, <2>4, <2>5, <2>6, RequestStaysFresh
<1> QED
  BY <1>1, <1>3, <1>4, <1>5, <1>6, GateGrants

LEMMA LogoutStaysFresh ==
  ASSUME FInv, WInv', NEW r \in Browsers, NEW sid \in Sids, NEW csrf, logout(r, sid, csrf)
  PROVE  FInv'
<1>1. UNCHANGED <<now, roles, past>> /\ req[r] = None /\ TypeOK
      /\ table' \in {get_and_touch(sid), drop_session(sid)}
  BY DEF logout, FInv, WInv
<1>2. ChecksKept /\ OthersKept(r)
  BY <1>1, TouchStays
<1>3. CASE UNCHANGED req
  <2>1. req' = [req EXCEPT ![r] = None]
    BY <1>1, <1>3 DEF TypeOK
  <2> QED
    BY <1>1, <1>2, <2>1, RequestStaysFresh
<1>4. CASE Begin(r, Saves("logout", sid))
  <2> DEFINE v == Saves("logout", sid)
  <2>1. CheckedInTime(v)
    BY DEF CheckedInTime, Saves
  <2> HIDE DEF v
  <2>2. req' = [req EXCEPT ![r] = v]
    BY <1>4 DEF Begin, v
  <2> QED
    BY <1>1, <1>2, <2>1, <2>2, RequestStaysFresh
<1> QED
  BY <1>3, <1>4 DEF logout

\* The end of a request, and its saving.
LEMMA EndStaysFresh ==
  ASSUME FInv, WInv', NEW r \in Browsers,
         Served(r) \/ BeginPersist(r) \/ \E ok \in BOOLEAN : Respond(r, ok)
  PROVE  FInv'
<1>1. UNCHANGED <<now, roles, past, table>> /\ TypeOK
  BY DEF Served, BeginPersist, Respond, FInv, WInv
<1>2. CASE req' = [req EXCEPT ![r] = None]
  BY <1>1, <1>2, DropStaysFresh
<1>3. CASE BeginPersist(r)
  <2> DEFINE v == [req[r] EXCEPT !.st = "write"]
  <2>1. req[r] \in Saving
    BY <1>1, <1>3, Kinds DEF BeginPersist
  <2>2. v \in Saving
    BY <2>1 DEF Saving
  <2>3. req' = [req EXCEPT ![r] = v]
    BY <1>1, <1>3 DEF BeginPersist, Go, TypeOK
  <2> HIDE DEF v
  <2> QED
    BY <1>1, <2>2, <2>3, DropStaysFresh
<1> QED
  BY <1>2, <1>3 DEF Served, Respond, Done, AnswerCallback

\* Time and changes of the roles make the last time of a role later, never earlier.
LEMMA RolesOnlyLater ==
  ASSUME FInv, WInv', Remember, UNCHANGED process_start, now' \in {now, now + 1}
  PROVE  /\ LastInPast'
         /\ \A u \in Users, role \in Roles : LastEntitled(u, role)' >= LastEntitled(u, role)
<1>1. /\ now \in Int /\ process_start \in Int /\ process_start <= now
      /\ \A u \in Users, role \in Roles : /\ last[u][role] \in Int /\ last[u][role] <= now
                                          /\ LastEntitled(u, role) \in Int
  BY Clocks DEF FInv, WInv, RolesHold, LastInPast
<1>2. \A u \in Users, role \in Roles : last'[u][role] = LastEntitled(u, role)
  BY DEF Remember
<1>3. \A u \in Users, role \in Roles : LastEntitled(u, role) <= now
  BY <1>1 DEF LastEntitled
<1>4. LastInPast'
  BY <1>1, <1>2, <1>3 DEF LastInPast
<1>5. \A u \in Users, role \in Roles : LastEntitled(u, role)' \in {now', last'[u][role]}
  BY DEF LastEntitled
<1> QED
  BY <1>1, <1>2, <1>3, <1>4, <1>5

\* The world goes on around the requests.
LEMMA WorldStaysFresh ==
  ASSUME FInv, WInv', Tick \/ Change
  PROVE  FInv'
<1> USE DEF FInv, WInv, RolesHold
<1>1. UNCHANGED <<table, req, process_start>> /\ Remember /\ now' \in {now, now + 1}
  BY DEF Tick, Change
<1>2. LastInPast'
      /\ \A u \in Users, role \in Roles : LastEntitled(u, role)' >= LastEntitled(u, role)
  BY <1>1, RolesOnlyLater
<1>3. /\ now \in Int /\ now' \in Int /\ MaxCall \in Nat /\ process_start \in Int
      /\ \A u \in Users, role \in Roles : /\ LastEntitled(u, role) \in Int
                                          /\ LastEntitled(u, role)' \in Int
      /\ \A s \in Sids : table[s] # None => /\ table[s].checked \in Int
                                            /\ table[s].user \in Users /\ table[s].role \in Roles
  <2>1. now' \in Int /\ \A u \in Users, role \in Roles : LastEntitled(u, role)' \in Int
    <3>1. \A u \in Users, role \in Roles : last'[u][role] \in Times
      BY DEF TypeOK
    <3>2. now' \in Int /\ \A t \in Times : t \in Int
      BY SessionsAssumption DEF TypeOK, Times
    <3> QED
      BY <3>1, <3>2 DEF LastEntitled
  <2> QED
    BY <2>1, Clocks
<1>4. EntriesFresh'
  <2> SUFFICES ASSUME NEW s \in Sids, table[s] # None, table[s].checked # Never
               PROVE  /\ table[s].checked <= now'
                      /\ LastEntitled(table[s].user, table[s].role)' >= table[s].checked - MaxCall
                      /\ LastEntitled(table[s].user, table[s].role)' >= process_start
    BY <1>1 DEF EntriesFresh
  <2> DEFINE u == table[s].user
             role == table[s].role
  <2>1. /\ table[s].checked <= now /\ LastEntitled(u, role) >= table[s].checked - MaxCall
        /\ LastEntitled(u, role) >= process_start /\ table[s].checked \in Int
        /\ u \in Users /\ role \in Roles
    BY <1>3 DEF EntriesFresh
  <2>2. LastEntitled(u, role)' >= LastEntitled(u, role)
        /\ LastEntitled(u, role)' \in Int /\ LastEntitled(u, role) \in Int
    BY <1>1, <1>2, <1>3, <2>1
  <2> QED
    BY <1>1, <1>3, <2>1, <2>2
<1>5. AsksInTime'
  <2> SUFFICES ASSUME NEW r \in Browsers, req[r] # None, req[r].op = "callback",
                      req[r].st \in {"exchange", "modcheck"}
               PROVE  /\ process_start <= req[r].at /\ req[r].at <= now'
                      /\ now' - req[r].at <= MaxCall
                      /\ req[r].st = "modcheck" /\ req[r].allow =>
                           LastEntitled(req[r].user, "viewer")' >= req[r].at
    BY <1>1 DEF AsksInTime
  <2>1. req[r] \in Asking
    BY Kinds
  <2>2. req[r].at \in Int /\ req[r].user \in Users /\ "viewer" \in Roles
    BY <2>1, Clocks DEF Roles
  <2>3. /\ process_start <= req[r].at /\ req[r].at <= now /\ now - req[r].at <= MaxCall
        /\ req[r].st = "modcheck" /\ req[r].allow =>
             LastEntitled(req[r].user, "viewer") >= req[r].at
    BY DEF AsksInTime
  <2>4. now' = now + 1 => now - req[r].at < MaxCall
    BY <1>3, <2>2 DEF Tick, Change
  <2>5. LastEntitled(req[r].user, "viewer")' >= LastEntitled(req[r].user, "viewer")
    BY <1>1, <1>2, <2>2
  <2>6. LastEntitled(req[r].user, "viewer") \in Int /\ LastEntitled(req[r].user, "viewer")' \in Int
    BY <1>1, <1>3, <2>2
  <2> QED
    BY <1>1, <1>3, <2>2, <2>3, <2>4, <2>5, <2>6
<1>6. GatesInTime'
  <2> SUFFICES ASSUME NEW r \in Browsers, req[r] # None, req[r].op = "gate"
               PROVE  req[r].at <= now'
    BY <1>1 DEF GatesInTime
  <2>1. req[r].at \in Int /\ req[r].at <= now
    BY Kinds, Clocks DEF GatesInTime
  <2> QED
    BY <1>1, <1>3, <2>1
<1>7. RolesAreFresh'
  <2> SUFFICES ASSUME NEW r \in Browsers, req[r] # None, req[r].st = "admitted", ~req[r].failed
               PROVE  /\ LastEntitled(req[r].user, req[r].role)'
                           >= req[r].at - req[r].refresh - MaxCall
                      /\ LastEntitled(req[r].user, req[r].role)' >= process_start
    BY <1>1 DEF RolesAreFresh
  <2>1. /\ req[r].at \in Int /\ req[r].refresh \in Nat /\ req[r].user \in Users
        /\ req[r].role \in Roles
    BY Kinds, Clocks
  <2>2. /\ LastEntitled(req[r].user, req[r].role) >= req[r].at - req[r].refresh - MaxCall
        /\ LastEntitled(req[r].user, req[r].role) >= process_start
    BY DEF RolesAreFresh
  <2>3. LastEntitled(req[r].user, req[r].role)' >= LastEntitled(req[r].user, req[r].role)
        /\ LastEntitled(req[r].user, req[r].role)' \in Int
        /\ LastEntitled(req[r].user, req[r].role) \in Int
    BY <1>1, <1>2, <1>3, <2>1
  <2> QED
    BY <1>3, <2>1, <2>2, <2>3
<1> QED
  BY <1>2, <1>4, <1>5, <1>6, <1>7

\* After a restart no request is under way and no check counts.
LEMMA RestartIsFresh ==
  ASSUME FInv, WInv', NEW readable \in BOOLEAN, Restart(readable)
  PROVE  FInv'
<1>1. /\ now' = now /\ process_start' = now /\ Remember /\ req' = [r \in Browsers |-> None]
      /\ table' = IF readable THEN load(sessions_file) ELSE NoSessions
  BY DEF Restart
<1>2. /\ now \in Int
      /\ \A u \in Users, role \in Roles : last[u][role] \in Int /\ last[u][role] <= now
  BY Clocks DEF FInv, WInv, RolesHold, LastInPast
<1>3. \A u \in Users, role \in Roles : last'[u][role] = LastEntitled(u, role)
  BY <1>1 DEF Remember
<1>4. LastInPast'
  BY <1>1, <1>2, <1>3 DEF LastInPast, LastEntitled
<1>5. \A s \in Sids : table'[s] # None => table'[s].checked = Never
  <2> SUFFICES ASSUME NEW s \in Sids, table'[s] # None
               PROVE  table'[s].checked = Never
    OBVIOUS
  <2>1. sessions_file[s] # None /\ table'[s] = [sessions_file[s] EXCEPT !.checked = Never]
    BY <1>1 DEF load, NoSessions
  <2>2. sessions_file[s] \in Session
    BY <2>1 DEF FInv, WInv, TypeOK, Tables
  <2> QED
    BY <2>1, <2>2 DEF Session
<1>6. EntriesFresh'
  BY <1>5 DEF EntriesFresh, Never
<1>7. AsksInTime' /\ GatesInTime' /\ RolesAreFresh'
  BY <1>1 DEF AsksInTime, GatesInTime, RolesAreFresh
<1> QED
  BY <1>4, <1>6, <1>7 DEF FInv, RolesHold

LEMMA InitIsFresh == Init => FInv
<1> SUFFICES ASSUME Init PROVE FInv
  OBVIOUS
<1>1. WInv
  BY InitHolds
<1>2. LastInPast
  BY <1>1, Clocks DEF Init, LastInPast, WInv
<1>3. EntriesFresh /\ AsksInTime /\ GatesInTime /\ RolesAreFresh
  BY DEF Init, NoSessions, EntriesFresh, AsksInTime, GatesInTime, RolesAreFresh
<1> QED
  BY <1>1, <1>2, <1>3 DEF FInv, RolesHold

LEMMA StepStaysFresh ==
  ASSUME FInv, [Next]_vars
  PROVE  FInv'
<1>1. WInv'
  BY StepKeeps DEF FInv
<1>2. CASE auth_start \/ BeginSnapshot \/ (\E ok \in BOOLEAN : EndSnapshot(ok)) \/ UNCHANGED vars
  <2>1. UNCHANGED <<now, roles, past, table, req>>
    BY <1>2 DEF auth_start, BeginSnapshot, EndSnapshot, vars
  <2> QED
    BY <1>1, <2>1, ApartStaysFresh
<1> QED
  BY <1>1, <1>2, CallbackStaysFresh, ExchangeStaysFresh, ModeratesStaysFresh,
     IsModeratorStaysFresh, GateStaysFresh, LogoutStaysFresh, EndStaysFresh, WorldStaysFresh,
     RestartIsFresh DEF Next, TokenAnswers

\* Whoever a gate admits had the role of the session within the refresh interval and the
\* time of a call before, and in this process, unless the call that should tell failed:
\* whatever was cached, restored, or checked by another request meanwhile.
THEOREM NobodyKeepsALostRole == Spec => []RolesAreFresh
<1>1. FInv => RolesAreFresh
  BY DEF FInv, RolesHold
<1> QED
  BY InitIsFresh, StepStaysFresh, <1>1, PTL DEF Spec

=============================================================================
