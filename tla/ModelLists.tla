----------------------------- MODULE ModelLists -----------------------------
(***************************************************************************)
(* The names of the language models: the OpenRouter catalog that prompts   *)
(* and the dashboard share (ai/model_catalog.rs), and the list the         *)
(* settings page is answered with (web/src/routes/ai_models.rs).  Neither  *)
(* holds a lock while it fetches, so that fetches overlap and end in any   *)
(* order, and the connection may be edited meanwhile.                      *)
(*                                                                         *)
(* What an upstream lists is abstracted to where it came from.             *)
(***************************************************************************)
EXTENDS Integers

CONSTANTS
  Connections,   \* pairs (backend, base_url)
  OpenRouter,    \* those for which is_openrouter holds
  Callers,       \* requests for a list, and turns that want a name
  NoModels,
  CacheTtl,      \* CACHE_TTL of both caches
  Backoff,       \* FAILURE_BACKOFF
  MaxModelClock, MaxEdits   \* bounds on the clock and on the edits

catalog_source == "openrouter"   \* the one URL the catalog is fetched from

\* NoModels stands for None where a time, a connection or an answer may be missing.
ASSUME ModelsAssumption ==
  /\ OpenRouter \subseteq Connections
  /\ NoModels \notin Connections /\ NoModels # catalog_source /\ NoModels \notin 0 .. MaxModelClock
  /\ CacheTtl \in Nat /\ Backoff \in Nat /\ MaxModelClock \in Nat

VARIABLES
  time,
  conn,         \* settings.ai.connection
  catalog,      \* CatalogCache: [entry_at, failed_until], NoModels while unset
  list,         \* ModelListCache: [key, at, from]
  call,         \* the callers
  edits

modelVars == <<time, conn, catalog, list, call, edits>>

Waiting == [st |-> "none"]

ModelInit ==
  /\ time = 0 /\ edits = 0
  /\ conn \in Connections
  /\ catalog = [entry_at |-> NoModels, failed_until |-> NoModels]
  /\ list = [key |-> NoModels, at |-> 0, from |-> NoModels]
  /\ call = [c \in Callers |-> Waiting]

Answer(c, from) ==
  call' = [call EXCEPT ![c] = [st |-> "answered", kind |-> @.kind, key |-> @.key,
                               loaded |-> @.loaded, from |-> from]]

\* load_openrouter_catalog up to its answer or its fetch.
CatalogLoaded == catalog.entry_at # NoModels
FreshCatalog == CatalogLoaded /\ time - catalog.entry_at <= CacheTtl
InBackoff == catalog.failed_until # NoModels /\ time < catalog.failed_until

Ask(kind) == [st |-> "asked", kind |-> kind, key |-> conn, loaded |-> CatalogLoaded]

\* A list is asked for, or a name; both read the connection once.
get_ai_models(c) ==
  /\ call[c].st = "none"
  /\ call' = [call EXCEPT ![c] =
       IF list.key = conn /\ time - list.at <= CacheTtl
       THEN [st |-> "answered", kind |-> "list", key |-> conn, loaded |-> CatalogLoaded, from |-> list.from]
       ELSE Ask("list")]
  /\ UNCHANGED <<time, conn, catalog, list, edits>>

display_name(c) ==
  /\ call[c].st = "none" /\ conn \in OpenRouter
  /\ call' = [call EXCEPT ![c] = Ask("name")]
  /\ UNCHANGED <<time, conn, catalog, list, edits>>

UsesCatalog(c) == call[c].kind = "name" \/ call[c].key \in OpenRouter

\* The cache, the stale cache during the backoff, an error, or a fetch.
load_openrouter_catalog(c) ==
  /\ call[c].st = "asked" /\ UsesCatalog(c)
  /\ IF FreshCatalog \/ (InBackoff /\ CatalogLoaded)
     THEN call' = [call EXCEPT ![c] = [@ EXCEPT !.st = "got"]]
     ELSE IF InBackoff THEN Answer(c, NoModels)
     ELSE call' = [call EXCEPT ![c] = [@ EXCEPT !.st = "fetch"]]
  /\ UNCHANGED <<time, conn, catalog, list, edits>>

\* A failed refresh keeps the stale catalog and starts the backoff.
CatalogFailed == [catalog EXCEPT !.failed_until = time + Backoff]

\* fetch_openrouter_catalog has answered.
fetch_openrouter_catalog(c, ok) ==
  /\ call[c].st = "fetch" /\ UsesCatalog(c)
  /\ catalog' = IF ok THEN [entry_at |-> time, failed_until |-> NoModels] ELSE CatalogFailed
  /\ IF ok \/ catalog'.entry_at # NoModels
     THEN call' = [call EXCEPT ![c] = [@ EXCEPT !.st = "got"]]
     ELSE Answer(c, NoModels)
  /\ UNCHANGED <<time, conn, list, edits>>

\* Mutant: the answer is stored under the connection of now.
PutUnderCurrent(key, from) == [key |-> conn, at |-> time, from |-> from]

\* put: the answer is stored under the key that was read before the fetch.
put(key, from) == [key |-> key, at |-> time, from |-> from]

\* The models have arrived: from the catalog, or from the connection itself
\* (fetch_openai and fetch_ollama); an error is answered and not stored.
ModelsArrive(c, ok) ==
  /\ \/ call[c].st = "got" /\ ok
     \/ call[c].st = "asked" /\ ~UsesCatalog(c)
  /\ LET from == IF UsesCatalog(c) THEN catalog_source ELSE call[c].key IN
     /\ Answer(c, IF ok THEN from ELSE NoModels)
     /\ list' = IF ok /\ call[c].kind = "list" THEN put(call[c].key, from) ELSE list
  /\ UNCHANGED <<time, conn, catalog, edits>>

ModelsUsed(c) ==
  /\ call[c].st = "answered"
  /\ call' = [call EXCEPT ![c] = Waiting]
  /\ UNCHANGED <<time, conn, catalog, list, edits>>

ModelTick ==
  /\ time < MaxModelClock /\ time' = time + 1
  /\ UNCHANGED <<conn, catalog, list, call, edits>>

EditConnection ==
  /\ edits < MaxEdits /\ edits' = edits + 1
  /\ conn' \in Connections
  /\ UNCHANGED <<time, catalog, list, call>>

ModelNext ==
  \/ \E c \in Callers : \/ get_ai_models(c) \/ display_name(c) \/ load_openrouter_catalog(c)
                        \/ ModelsUsed(c)
                        \/ \E ok \in BOOLEAN : fetch_openrouter_catalog(c, ok) \/ ModelsArrive(c, ok)
  \/ ModelTick \/ EditConnection

ModelSpec == ModelInit /\ [][ModelNext]_modelVars

-----------------------------------------------------------------------------
(* However fetches overlap with each other and with edits of the           *)
(* connection, a list that is answered or cached is one of the connection  *)
(* it is given for.                                                        *)
AnswersMatchKey ==
  LET right(key, from) == from = IF key \in OpenRouter THEN catalog_source ELSE key IN
  /\ list.key # NoModels => right(list.key, list.from)
  /\ \A c \in Callers :
       call[c].st = "answered" /\ call[c].from # NoModels /\ call[c].kind = "list" =>
         right(call[c].key, call[c].from)

(* Once the catalog was loaded, no caller that asks for it gets an error,  *)
(* however many refreshes fail after that.                                 *)
LoadedStaysUseful ==
  \A c \in Callers :
    call[c].st = "answered" /\ call[c].loaded
      /\ (call[c].kind = "name" \/ call[c].key \in OpenRouter) => call[c].from # NoModels

(* A caller gets models, and of the connection that it asked about.        *)
ModelsMatchKey == AnswersMatchKey /\ LoadedStaysUseful

=============================================================================
