---------------------------- MODULE ContentTools ----------------------------
(***************************************************************************)
(* The tools web_search and read_url of the language model                 *)
(* (core/src/ai/content): the two answer caches, the search, the download  *)
(* with its size caps and the multimodal model that reads what was         *)
(* downloaded.  The agent loop runs its tool calls one after the other and *)
(* the dispatcher one turn at a time, so there is one call; the settings   *)
(* are edited and time passes while it waits.                              *)
(*                                                                         *)
(* A query is its normal form.  The key of a read is one string, in which  *)
(* the url and the instruction are joined by "::", so a text is what it    *)
(* folds to as the sequence of its pieces between "::", at least one; a    *)
(* url also has a spelling.  An error is the chain of its contexts,        *)
(* outermost first, each reduced to the word that the error codes are      *)
(* chosen by.                                                              *)
(***************************************************************************)
EXTENDS Integers, Sequences, SequencesExt, FiniteSets

CONSTANTS
  Queries, NoQuery,     \* NoQuery: nothing is left of the query after trim
  Pieces,               \* what a text may hold between "::", Omitted (nothing) among them
  Urls,                 \* records [folded, spelling]
  Instructions,         \* texts; <<Omitted>> is none
  Asked,                \* values of max_results in a call, Omitted among them
  Found,                \* how many results the search engine may return
  Pages,                \* what a server may answer: records [size, header, magic, text]
                        \* of the bytes of the body and of the readable text in it
  Buckets,
  Limits,               \* settings: records [max_results, caps]
  Omitted,
  ToolTtl, Capacity,    \* cache_ttl_secs and cache_capacity, read at the start
  SEARX_RESPONSE_LIMIT,
  MaxToolCall,          \* how long a request may take
  MaxToolTime, MaxToolCalls, MaxLimitEdits  \* bounds

Texts == Seq(Pieces) \ {<<>>}

\* What the deserializer and settings/validation.rs let through.
ASSUME ToolsAssumption ==
  /\ Limits \subseteq [max_results : Nat \ {0}, caps : [Buckets -> Nat]]
  /\ Asked \subseteq Nat \cup {Omitted} /\ Found \subseteq Nat
  /\ Urls \subseteq [folded : Texts, spelling : Nat] /\ Instructions \subseteq Texts
  /\ Pages \subseteq [size : Nat, header : Buckets \cup {Omitted},
                      magic : Buckets \cup {Omitted}, text : Nat]
  /\ SEARX_RESPONSE_LIMIT \in Nat /\ ToolTtl \in Nat /\ Capacity \in Nat /\ MaxToolCall \in Nat

VARIABLES
  toolTime,
  limits,        \* settings.ai.web.max_results and settings.ai.media
  toolCache,     \* search_cache and read_cache
  tool,          \* the call: idle, waiting or answered
  toolCalls, limitEdits,
  log            \* history: what was inserted into each cache, in order

contentVars == <<toolTime, limits, toolCache, tool, toolCalls, limitEdits, log>>

Caches == {"search", "read"}
NoEntries == [k \in {} |-> 0]

ContentInit ==
  /\ toolTime = 0 /\ toolCalls = 0 /\ limitEdits = 0
  /\ limits \in Limits
  /\ toolCache = [c \in Caches |-> [entries |-> NoEntries, order |-> <<>>]]
  /\ tool = [st |-> "idle"]
  /\ log = [c \in Caches |-> <<>>]

-----------------------------------------------------------------------------
(* TtlCache *)

Expired(c) == {k \in DOMAIN c.entries : toolTime - c.entries[k].inserted_at > ToolTtl}

\* order.retain: the keys but these, in their order.
Without(order, keys) ==
  FoldLeft(LAMBDA kept, k : IF k \in keys THEN kept ELSE Append(kept, k), <<>>, order)

\* Mutant: the expired keys stay in order.
purge_keeps_order(c) ==
  [entries |-> [k \in DOMAIN c.entries \ Expired(c) |-> c.entries[k]], order |-> c.order]

purge_expired(c) ==
  [entries |-> [k \in DOMAIN c.entries \ Expired(c) |-> c.entries[k]],
   order |-> Without(c.order, Expired(c))]

\* Keys leave from the front until the entries fit.
evict_oldest(c) ==
  LET Gone(n) == {c.order[i] : i \in 1 .. n}
      Left(n) == DOMAIN c.entries \ Gone(n)
      Enough == {n \in 0 .. Len(c.order) : Cardinality(Left(n)) <= Capacity \/ n = Len(c.order)}
      n == CHOOSE m \in Enough : \A o \in Enough : m <= o
  IN [entries |-> [k \in Left(n) |-> c.entries[k]],
      order |-> SubSeq(c.order, n + 1, Len(c.order))]

Hit(c, key) == key \in DOMAIN purge_expired(toolCache[c]).entries

get(c) == toolCache' = [toolCache EXCEPT ![c] = purge_expired(@)]

Inserted(c, key, value) ==
  LET p == purge_expired(c)
      entry == [value |-> value, inserted_at |-> toolTime]
  IN evict_oldest(
       [entries |-> [k \in DOMAIN p.entries \cup {key} |-> IF k = key THEN entry ELSE p.entries[k]],
        order |-> Append(Without(p.order, {key} \cap DOMAIN p.entries), key)])

insert(c, key, value) ==
  /\ toolCache' = [toolCache EXCEPT ![c] = Inserted(@, key, value)]
  /\ log' = [log EXCEPT ![c] = Append(@, [key |-> key, value |-> value, at |-> toolTime])]

-----------------------------------------------------------------------------
(* The executor *)

Smaller(a, b) == IF a <= b THEN a ELSE b
Larger(a, b) == IF a >= b THEN a ELSE b

Waits == tool.st \in {"searching", "fetching", "analyzing"}
BeginCall == ~Waits /\ toolCalls < MaxToolCalls /\ toolCalls' = toolCalls + 1

\* What the tool result says: cached or fresh, or an error code and its cause.
Answered(call, cached, value) ==
  tool' = [st |-> "answered", call |-> call, cached |-> cached, value |-> value, at |-> toolTime]
Failed(call, code, chain) ==
  tool' = [st |-> "failed", call |-> call, code |-> code, cause |-> chain[Len(chain)]]

\* clamp(1, live_max); without max_results in the call, live_max.
EffectiveMax(asked) ==
  IF asked = Omitted THEN limits.max_results ELSE Larger(1, Smaller(asked, limits.max_results))

\* The number is what comes after the last "::": the key tells both.
search_key(query, max) == <<query, max>>

execute_web_search(query, asked) ==
  LET max == EffectiveMax(asked)
      key == search_key(query, max)
      call == [tool |-> "search", query |-> query, max |-> max]
  IN /\ BeginCall
     /\ IF query = NoQuery
        THEN Failed(call, "invalid_arguments", <<"blank">>) /\ UNCHANGED toolCache
        ELSE /\ get("search")
             /\ IF Hit("search", key)
                THEN Answered(call, TRUE, toolCache["search"].entries[key].value)
                ELSE tool' = [st |-> "searching", call |-> call, key |-> key, since |-> toolTime]
     /\ UNCHANGED <<toolTime, limits, limitEdits, log>>

\* take(effective_max), where effective_max is at most SEARX_RESPONSE_LIMIT.
web_search(found) ==
  LET n == Smaller(found, Smaller(tool.call.max, SEARX_RESPONSE_LIMIT))
      results == [query |-> tool.call.query, n |-> n, at |-> tool.since]
  IN /\ tool.st = "searching"
     /\ insert("search", tool.key, results)
     /\ Answered(tool.call, FALSE, results)
     /\ UNCHANGED <<toolTime, limits, toolCalls, limitEdits>>

\* The causes of a failed request, below the context it is wrapped in.
Causes == {"timed out", "blocked", "status"}
Wrapped(cause) == <<"context", cause>>
\* A request is given up when its time is over.
Late(chain) == chain[Len(chain)] = "timed out" => toolTime - tool.since = MaxToolCall
InChain(word, chain) == \E i \in DOMAIN chain : chain[i] = word

search_code(chain) == IF InChain("timed out", chain) THEN "search_timeout" ELSE "search_failed"

web_search_fails(cause) ==
  /\ tool.st = "searching" /\ Late(<<cause>>)
  /\ Failed(tool.call, search_code(Wrapped(cause)), Wrapped(cause))
  /\ UNCHANGED <<toolTime, limits, toolCache, toolCalls, limitEdits, log>>

normalize_url(url) == url.folded

\* Mutant: the instruction is left out of the key.
read_key_of_url(url, instruction) == normalize_url(url)

\* The join does not tell where the url ends: "x::b" with "c" is "x" with "b::c".
read_key(url, instruction) == normalize_url(url) \o instruction

\* A hit is answered with the url of the call; a miss reads the caps once.
execute_read_url(url, instruction) ==
  LET key == read_key(url, instruction)
      call == [tool |-> "read", url |-> url, instruction |-> instruction]
  IN /\ BeginCall
     /\ get("read")
     /\ IF Hit("read", key)
        THEN Answered(call, TRUE, toolCache["read"].entries[key].value)
        ELSE tool' = [st |-> "fetching", call |-> call, key |-> key, caps |-> limits.caps,
                      since |-> toolTime]
     /\ UNCHANGED <<toolTime, limits, limitEdits, log>>

\* Arguments that do not parse, and a name that is no tool.
RefusedCall ==
  /\ BeginCall
  /\ Failed([tool |-> "none"], "invalid_arguments", <<"arguments">>)
  /\ UNCHANGED <<toolTime, limits, toolCache, limitEdits, log>>

-----------------------------------------------------------------------------
(* fetch_for_read and analyze *)

overall_cap(caps) == CHOOSE m \in {caps[b] : b \in Buckets} : \A b \in Buckets : caps[b] <= m

\* The header decides, the first bytes where it does not.
detect(page) == IF page.header # Omitted THEN page.header ELSE page.magic

\* Mutant: only the cap that the stream was read under.
refusal_overall(page, caps) ==
  IF page.size > overall_cap(caps) THEN <<"too large">>
  ELSE IF detect(page) = Omitted THEN <<"unsupported">>
  ELSE IF detect(page) = "text" /\ page.text = 0 THEN <<"empty">>
  ELSE <<>>

\* Why a page is given up; the order is that of the code, <<>> is none.
refusal(page, caps) ==
  IF page.size > overall_cap(caps) THEN <<"too large">>
  ELSE IF detect(page) = Omitted THEN <<"unsupported">>
  ELSE IF page.size > caps[detect(page)] THEN <<"too large">>
  ELSE IF detect(page) = "text" /\ page.text = 0 THEN <<"empty">>
  ELSE <<>>

\* The code follows the outermost message alone (err.to_string()).
map_fetch_err(chain) ==
  CASE chain[1] = "blocked" -> "fetch_blocked"
    [] chain[1] = "too large" -> "payload_too_large"
    [] chain[1] = "unsupported" -> "unsupported_content_type"
    [] chain[1] = "timed out" -> "fetch_timeout"
    [] OTHER -> "fetch_failed"

map_media_err(chain) == IF chain[1] = "timed out" THEN "analysis_timeout" ELSE "analysis_failed"

\* What of a page is sent: the readable text of the decoded body, where a byte
\* that is no UTF-8 has become three, or the body in base64.
Base64(n) == 4 * ((n + 2) \div 3)
payload(page) == IF detect(page) = "text" THEN page.text ELSE Base64(page.size)

fetch_for_read(page) ==
  /\ tool.st = "fetching"
  /\ LET why == refusal(page, tool.caps)
     IN IF why = <<>>
        THEN tool' = [st |-> "analyzing", call |-> tool.call, key |-> tool.key,
                      caps |-> tool.caps, bucket |-> detect(page), bytes |-> page.size,
                      payload |-> payload(page), fetched |-> tool.since, since |-> toolTime]
        ELSE Failed(tool.call, map_fetch_err(why), why)
  /\ UNCHANGED <<toolTime, limits, toolCache, toolCalls, limitEdits, log>>

\* A url of another scheme or that does not parse fails before the request.
fetch_fails(chain) ==
  /\ tool.st = "fetching" /\ Late(chain)
  /\ Failed(tool.call, map_fetch_err(chain), chain)
  /\ UNCHANGED <<toolTime, limits, toolCache, toolCalls, limitEdits, log>>

FetchErrors == {Wrapped(c) : c \in Causes} \cup {<<"blocked">>, <<"unsupported">>}

analyze ==
  LET answer == [url |-> tool.call.url, instruction |-> tool.call.instruction,
                 at |-> tool.fetched]
  IN /\ tool.st = "analyzing"
     /\ insert("read", tool.key, answer)
     /\ Answered(tool.call, FALSE, answer)
     /\ UNCHANGED <<toolTime, limits, toolCalls, limitEdits>>

\* The request fails, or its answer has no text.
analyze_fails(chain) ==
  /\ tool.st = "analyzing" /\ Late(chain)
  /\ Failed(tool.call, map_media_err(chain), chain)
  /\ UNCHANGED <<toolTime, limits, toolCache, toolCalls, limitEdits, log>>

MediaErrors == {Wrapped("timed out"), Wrapped("status"), <<"empty">>}

-----------------------------------------------------------------------------
ToolTick ==
  /\ toolTime < MaxToolTime
  /\ Waits => toolTime - tool.since < MaxToolCall
  /\ toolTime' = toolTime + 1
  /\ UNCHANGED <<limits, toolCache, tool, toolCalls, limitEdits, log>>

EditLive ==
  /\ limitEdits < MaxLimitEdits /\ limitEdits' = limitEdits + 1
  /\ \E e \in Limits \ {limits} : limits' = e
  /\ UNCHANGED <<toolTime, toolCache, tool, toolCalls, log>>

SearchNext ==
  \/ \E q \in Queries \cup {NoQuery}, m \in Asked : execute_web_search(q, m)
  \/ \E n \in Found : web_search(n)
  \/ \E c \in Causes : web_search_fails(c)

ReadNext ==
  \/ \E u \in Urls, i \in Instructions : execute_read_url(u, i)
  \/ \E p \in Pages : fetch_for_read(p)
  \/ \E e \in FetchErrors : fetch_fails(e)
  \/ analyze
  \/ \E e \in MediaErrors : analyze_fails(e)

Around == RefusedCall \/ ToolTick \/ EditLive

ContentNext == SearchNext \/ ReadNext \/ Around

ContentSpec == ContentInit /\ [][ContentNext]_contentVars

-----------------------------------------------------------------------------
(* What was inserted, by key. *)
KeysOf(c) == {log[c][i].key : i \in DOMAIN log[c]}
Latest(c, k) == CHOOSE i \in DOMAIN log[c] :
                  log[c][i].key = k /\ \A j \in DOMAIN log[c] : log[c][j].key = k => j <= i
Newer(c, k) == {j \in KeysOf(c) : Latest(c, j) > Latest(c, k)}

\* The cache is what its history says: of the answers that are not expired it
\* holds, with the latest value, exactly those that fewer than Capacity other
\* keys came after, and never more than Capacity of them.  A key left in
\* order by an expired entry would later evict the fresh entry of that key.
CacheIsLatest ==
  \A c \in Caches :
    /\ Cardinality(DOMAIN toolCache[c].entries) <= Capacity
    /\ \A k \in KeysOf(c) : toolTime - log[c][Latest(c, k)].at <= ToolTtl =>
         /\ k \in DOMAIN toolCache[c].entries <=> Cardinality(Newer(c, k)) < Capacity
         /\ k \in DOMAIN toolCache[c].entries =>
              toolCache[c].entries[k].value = log[c][Latest(c, k)].value

\* A search is answered with results for its query, no more than the call and
\* the settings allowed when it came; a read with an answer that was given
\* under the same key, which is for the same url, letter case aside, and the
\* same instruction unless the key holds a "::" of theirs.  It was fetched no
\* longer ago than an entry lives and its requests took, even when it is a
\* cached one that was fetched under other settings.
AnswersMeetTheCall ==
  tool.st = "answered" =>
    /\ tool.at - tool.value.at <= ToolTtl + 2 * MaxToolCall
    /\ tool.call.tool = "search" =>
         tool.value.query = tool.call.query /\ tool.value.n <= tool.call.max
    /\ tool.call.tool = "read" =>
         LET key == normalize_url(tool.call.url) \o tool.call.instruction
         IN /\ normalize_url(tool.value.url) \o tool.value.instruction = key
            /\ Len(key) = 2 => /\ normalize_url(tool.value.url) = normalize_url(tool.call.url)
                               /\ tool.value.instruction = tool.call.instruction

\* What was downloaded for the media model is within the cap of its own kind,
\* also when the type is known only from the first bytes and the stream was
\* read under the largest of the caps; in base64 it is a third larger.  The
\* text that is sent of a page is bounded by no cap: decoding may enlarge it.
MediaWithinCaps ==
  tool.st = "analyzing" =>
    LET cap == tool.caps[tool.bucket]
    IN tool.bytes <= cap /\ (tool.bucket # "text" => tool.payload <= Base64(cap))

(* A tool result is what the caches, the limits and the call allow,       *)
(* however entries expire and the settings change between two calls.      *)
WebAnswersSound == CacheIsLatest /\ AnswersMeetTheCall /\ MediaWithinCaps

=============================================================================
