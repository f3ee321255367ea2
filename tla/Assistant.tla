----------------------------- MODULE Assistant -----------------------------
(***************************************************************************)
(* The command dispatcher (twitch/handlers/commands.rs) with the commands  *)
(* that ask a language model: !ai and its alias @grok (ai/command.rs),     *)
(* !news, !tldr and !haiku.                                                *)
(*                                                                         *)
(* One task takes the messages from a broadcast channel and awaits the     *)
(* command of each inline; while a turn waits for the model the channel    *)
(* fills, and when it is full the oldest messages are lost to this task.   *)
(***************************************************************************)
EXTENDS PromptContext, TLC

CONSTANTS
  Users, Streamer,   \* who writes; the one with the broadcaster badge
  Admins,            \* broadcaster, moderators and hidden_admins
  Bot,               \* bot_username
  Kinds,             \* the messages: [chan, by, word, arg, size]
  Memories,          \* what the memory store may hold
  Replies,           \* what a provider may answer, see AnswerOf
  Knobs,             \* the settings read live: [length, aiLength,
                     \* cooldown: [ai, news]]
  Prefills,          \* what the history may be prefilled with
  Queue,             \* the capacity of the broadcast channel
  RecentBytes,       \* [primary, ai]: the byte caps of the two sections
  Budget,            \* inject_byte_budget, read at the start
  MaxRounds,         \* max_turn_rounds
  NewsContext, HaikuContext,  \* RECENT_USER_CONTEXT_MESSAGES, HAIKU_CONTEXT_MESSAGES
  Suspensions,       \* the durations of a suspension; None is one that is refused
  WebTools,          \* whether web tools are configured
  MaxMessages, MaxMoment, MaxRetunes \* bounds

NoHistory == NoSection

Writers == Users \union {Bot}
Entries == [id: Int, by: Writers, bot: BOOLEAN, size: Nat]

\* What the log service knows is older than what is received, is in the
\* order of the chat, and is taken for what users wrote.
OldAndInOrder(log) ==
  /\ log \in Seq(Entries)
  /\ \A i \in DOMAIN log : log[i].id <= 0 /\ ~log[i].bot
  /\ \A i, j \in DOMAIN log : i < j => log[i].id < log[j].id

\* No two files of a kind are updated at the same time.
Files(files) ==
  /\ IsFiniteSet(files)
  /\ \A f \in files : f.size \in Nat /\ f.updated \in Nat
  /\ \A f, g \in files : f.updated = g.updated => f = g

ASSUME AssistantAssumption ==
  /\ Streamer \in Admins /\ Admins \subseteq Users /\ None \notin Writers /\ Nobody \notin Writers
  /\ NoHistory \notin Seq(Entries)
  /\ Kinds \subseteq [chan: {"primary", "ai", "admin"}, by: Users, word: STRING,
                      arg: STRING, size: Nat]
  /\ \A m \in Memories : m.soul \in Nat /\ m.lore \in Nat /\ Files(m.users) /\ Files(m.states)
  /\ Knobs \subseteq [length: Nat, aiLength: Nat, cooldown: [ai: Nat, news: Nat]]
  /\ \A p \in Prefills : /\ p.yesterday \in Seq(Entries) /\ OldAndInOrder(p.today)
                         /\ OldAndInOrder(p.yesterday \o p.today)
  /\ Suspensions \subseteq Nat \union {None}
  /\ Queue \in Nat \ {0} /\ MaxRounds \in Nat \ {0}
  /\ RecentBytes \in [primary: Nat, ai: Nat] /\ Budget \in Nat
  /\ NewsContext \in Nat /\ HaikuContext \in Nat

VARIABLES
  arrived,     \* the messages sent so far, in order: history and identity
  inbox,       \* the dispatcher's view of the broadcast channel: ids
  histories,   \* [primary, ai]
  turn,        \* the command in progress
  suspended,   \* SuspensionManager: key -> expiry
  lastUse,     \* the two PerUserCooldowns: [ai, news]
  moment,      \* the monotonic clock
  knob,
  transcript,  \* the bot's lines of transcripts/today.md: [id, chan]
  answers,     \* history: what was said in chat, <<id, what>>
  begun        \* history: the turns begun, [id, at, room]

assistantHistory == <<answers, begun>>
assistantVars == <<arrived, inbox, histories, turn, suspended, lastUse, moment,
                   knob, transcript, assistantHistory>>

Idle == [phase |-> "idle"]
Never == -100

AssistantInit ==
  /\ arrived = << >> /\ inbox = << >>
  /\ knob \in Knobs
  /\ \E p \in Prefills:
       histories = [primary |-> IF knob.length = 0 THEN NoHistory
                                ELSE from_prefill(prefill_chat_history(p.today, p.yesterday,
                                                    knob.length, p.threshold, p.answered),
                                                  knob.length),
                    ai |-> IF knob.length = 0 \/ knob.aiLength = 0 THEN NoHistory ELSE << >>]
  /\ turn = Idle
  /\ suspended = << >>
  /\ lastUse = [ai |-> [u \in Users |-> Never], news |-> [u \in Users |-> Never]]
  /\ moment = 0
  /\ transcript = << >> /\ answers = {} /\ begun = {}

-----------------------------------------------------------------------------
(* Messages *)

Message(id) == arrived[id]

\* A broadcast channel that is full forgets its oldest message for a reader
\* that has not taken it.
Broadcast(queue, id) == Newest(Append(queue, id), Queue)

Arrive(k) ==
  /\ Len(arrived) < MaxMessages
  /\ arrived' = Append(arrived, k)
  /\ inbox' = Broadcast(inbox, Len(arrived) + 1)
  /\ UNCHANGED <<histories, turn, suspended, lastUse, moment, knob, transcript,
                 assistantHistory>>

-----------------------------------------------------------------------------
(* The dispatcher *)

EXEMPT_COMMANDS == {"suspend", "unsuspend", "p"}

\* normalize_command_name: leading "!" dropped, lower case, "döner" an alias.
Spelled == ("!ai" :> "ai") @@ ("!AI" :> "ai") @@ ("@grok" :> "@grok") @@ ("!news" :> "news")
           @@ ("!suspend" :> "suspend") @@ ("!unsuspend" :> "unsuspend") @@ ("!p" :> "p")
           @@ ("!döner" :> "doener")
normalize_command_name(word) == IF word \in DOMAIN Spelled THEN Spelled[word] ELSE word

is_ai_trigger(word) == word \in {"!ai", "!AI", "@grok"}
AsksModel == {"!news", "!tldr", "!haiku"}

\* Mutant: every name has a suspension of its own
suspend_key_own(word) == normalize_command_name(word)
\* Both triggers of the assistant share one suspension.
suspend_key(word) == IF is_ai_trigger(word) THEN "ai" ELSE normalize_command_name(word)

\* is_suspended, which still holds at the instant of the expiry.
is_suspended(key) == key \in DOMAIN suspended /\ suspended[key] >= moment

\* In the admin channel only the broadcaster is listened to.
Listened(m) == m.chan = "admin" => m.by = Streamer

Entry(id, m) == [id |-> id, by |-> m.by, bot |-> FALSE, size |-> m.size]

\* How many lines the history of a channel may hold.
Room(chan) == IF chan = "ai" THEN knob.aiLength ELSE knob.length

Pushed(chan, entry) ==
  IF histories[chan] = NoHistory THEN histories
  ELSE [histories EXCEPT ![chan] = push(@, Room(chan), entry)]

\* Mutant: commands are not part of the conversation
Recorded_no_commands(id, m) ==
  IF Listened(m) /\ m.chan # "admin" /\ m.word = "chatter"
     THEN Pushed(m.chan, Entry(id, m)) ELSE histories

\* A message is recorded in the history of its channel, whatever it asks.
Recorded(id, m) ==
  IF Listened(m) /\ m.chan # "admin" THEN Pushed(m.chan, Entry(id, m)) ELSE histories

Reaches(m) ==
  /\ Listened(m)
  /\ m.chan = "ai" => is_ai_trigger(m.word)
  /\ ~is_suspended(suspend_key(m.word))

\* Mutant: a turn is spawned and the next message taken at once
Take_spawned(id) ==
  /\ inbox # << >> /\ id = Head(inbox)
  /\ inbox' = Tail(inbox)
  /\ histories' = Recorded(id, Message(id))

\* The dispatcher takes a message only when the command before it is done.
Take(id) ==
  /\ turn = Idle /\ inbox # << >> /\ id = Head(inbox)
  /\ inbox' = Tail(inbox)
  /\ histories' = Recorded(id, Message(id))

Say(id, what) == answers' = answers \union {<<id, what>>}

\* No command, or one that may not run now.
Ignore ==
  \E id \in DOMAIN arrived:
    /\ Take(id)
    /\ Message(id).word = "chatter" \/ ~Reaches(Message(id))
    /\ UNCHANGED <<arrived, turn, suspended, lastUse, moment, knob, transcript,
                   assistantHistory>>

suspend(key, duration) == suspended' = (key :> moment + duration) @@ suspended
unsuspend(key) == suspended' = [k \in DOMAIN suspended \ {key} |-> suspended[k]]

\* !suspend <command> [duration] by an admin; the commands that lift it are exempt.
Suspend ==
  \E id \in DOMAIN arrived, duration \in Suspensions:
    LET m == Message(id)
        key == normalize_command_name(m.arg)
        allowed == m.by \in Admins /\ key \notin EXEMPT_COMMANDS /\ duration # None IN
    /\ Take(id) /\ m.word = "!suspend" /\ Reaches(m)
    /\ IF allowed THEN suspend(key, duration) ELSE UNCHANGED suspended
    /\ Say(id, IF allowed THEN "suspended" ELSE "denied")
    /\ UNCHANGED <<arrived, turn, lastUse, moment, knob, transcript, begun>>

\* !unsuspend <command>: an entry is removed, expired or not.
Unsuspend ==
  \E id \in DOMAIN arrived:
    LET m == Message(id)
        key == normalize_command_name(m.arg) IN
    /\ Take(id) /\ m.word = "!unsuspend" /\ Reaches(m)
    /\ IF m.by \in Admins THEN unsuspend(key) ELSE UNCHANGED suspended
    /\ Say(id, CASE m.by \notin Admins -> "denied"
                 [] is_suspended(key) /\ suspended[key] > moment -> "lifted"
                 [] OTHER -> "was not suspended")
    /\ UNCHANGED <<arrived, turn, lastUse, moment, knob, transcript, begun>>

-----------------------------------------------------------------------------
(* A turn begins *)

Bucket(word) == IF is_ai_trigger(word) THEN "ai" ELSE "news"

\* PerUserCooldown::check, with the duration of the settings now.
OnCooldown(m) ==
  moment - lastUse[Bucket(m.word)][m.by] < knob.cooldown[Bucket(m.word)]

\* PerUserCooldown::record, before anything is awaited.
record(m) == [lastUse EXCEPT ![Bucket(m.word)][m.by] = moment]

Refused ==
  \E id \in DOMAIN arrived:
    LET m == Message(id) IN
    /\ Take(id) /\ Reaches(m)
    /\ is_ai_trigger(m.word) \/ m.word \in AsksModel
    /\ OnCooldown(m)
    /\ Say(id, "wait")
    /\ UNCHANGED <<arrived, turn, suspended, lastUse, moment, knob, transcript, begun>>

\* An instruction; @grok without one takes the message it replies to.
Instructed(m) == m.arg # "" /\ (m.arg = "reply" => m.word = "@grok")

Usage ==
  \E id \in DOMAIN arrived:
    LET m == Message(id) IN
    /\ Take(id) /\ Reaches(m) /\ is_ai_trigger(m.word) /\ ~OnCooldown(m)
    /\ ~Instructed(m)
    /\ Say(id, "usage")
    /\ UNCHANGED <<arrived, turn, suspended, lastUse, moment, knob, transcript, begun>>

Begins(id) == begun' = begun \union {[id |-> id, at |-> moment, room |-> Room(Message(id).chan)]}

\* The use is recorded, and the turn asks the model catalog for a name.
BeginTurn ==
  \E id \in DOMAIN arrived:
    LET m == Message(id) IN
    /\ Take(id) /\ Reaches(m) /\ is_ai_trigger(m.word) /\ ~OnCooldown(m)
    /\ Instructed(m)
    /\ lastUse' = record(m)
    /\ turn' = [phase |-> "naming", id |-> id, kind |-> "ai", round |-> 0, prompt |-> None]
    /\ Begins(id)
    /\ UNCHANGED <<arrived, suspended, moment, knob, transcript, answers>>

\* The two sections of recent chat as the prompt of a turn has them.
Window(chan) ==
  LET primary == Section(histories.primary, RecentBytes.primary)
      ai == Section(histories.ai, RecentBytes.ai) IN
  IF chan = "ai" THEN recent_sections(ai, primary) ELSE recent_sections(primary, ai)

Prompt(m, memory) ==
  LET w == Window(m.chan) IN
  [window |-> w, memory |-> memory,
   files |-> build_chat_turn_context(memory, Budget, m.by, Mentioned(w[1], w[2]), TRUE)]

\* The catalog has answered or failed: the prompt is built, or the memory
\* cannot be read and the turn ends without a word.
Named(memory) ==
  /\ turn.phase = "naming"
  /\ LET m == Message(turn.id) IN
     \/ turn' = [turn EXCEPT !.phase = IF m.word = "@grok" /\ WebTools THEN "searching" ELSE "asking",
                             !.prompt = Prompt(m, memory)]
     \/ turn' = Idle
  /\ UNCHANGED <<arrived, inbox, histories, suspended, lastUse, moment, knob,
                 transcript, assistantHistory>>

-----------------------------------------------------------------------------
(* !news, !tldr and !haiku: one request to the model *)

\* The command itself, the newest entry, is left out.
before_command(id) ==
  LET all == histories'.primary IN
  IF all # << >> /\ Last(all).id = id THEN Front(all) ELSE all

\* !news: what was said since the user last wrote, unless that was just now;
\* the 24 hours of !tldr are not told from it.
relevant_history(snapshot, user) ==
  LET recent == Len(snapshot) - NewsContext
      own == {i \in DOMAIN snapshot: snapshot[i].by = user}
      start == IF own # {} /\ Max(own) <= recent THEN Max(own) ELSE 0
  IN  SubSeq(snapshot, start + 1, Len(snapshot))

\* !haiku: the newest lines.
haiku_history(snapshot) == Newest(snapshot, HaikuContext)

BeginNews ==
  \E id \in DOMAIN arrived:
    LET m == Message(id)
        lines == IF histories.primary = NoHistory THEN << >>
                 ELSE IF m.word = "!haiku" THEN haiku_history(before_command(id))
                 ELSE relevant_history(before_command(id), m.by) IN
    /\ Take(id) /\ Reaches(m) /\ m.word \in AsksModel /\ ~OnCooldown(m)
    /\ IF lines = << >>
          THEN /\ Say(id, "nothing new")
               /\ UNCHANGED <<turn, lastUse, begun>>
          ELSE /\ lastUse' = record(m)
               /\ turn' = [phase |-> "asking", id |-> id, kind |-> "news", round |-> 0,
                           prompt |-> [window |-> <<lines, << >> >>]]
               /\ Begins(id)
               /\ UNCHANGED answers
    /\ UNCHANGED <<arrived, suspended, moment, knob, transcript>>

NewsAnswer(reply) ==
  CASE reply.body = "late" -> "took too long"
    [] reply.status = 200 /\ reply.body = "json" /\ reply.content # None -> "news"
    [] OTHER -> "failed"

\* A haiku has three parts, or it is a failure; it is said in chat.
HaikuAnswer(reply) ==
  IF NewsAnswer(reply) = "news" THEN IF reply.content = "blank" THEN "failed" ELSE "haiku"
  ELSE NewsAnswer(reply)

\* A summary is whispered; a haiku and a failure are said in chat.
EndNews(reply) ==
  LET haiku == Message(turn.id).word = "!haiku" IN
  /\ turn.phase = "asking" /\ turn.kind = "news"
  /\ IF ~haiku /\ NewsAnswer(reply) = "news"
        THEN turn' = [turn EXCEPT !.phase = "whispering"] /\ UNCHANGED answers
        ELSE turn' = Idle /\ Say(turn.id, IF haiku THEN HaikuAnswer(reply) ELSE NewsAnswer(reply))
  /\ UNCHANGED <<arrived, inbox, histories, suspended, lastUse, moment, knob,
                 transcript, begun>>

\* The request to Twitch has an answer; when it failed the chat has it.
Whispered(ok) ==
  /\ turn.phase = "whispering"
  /\ Say(turn.id, IF ok THEN "whispered" ELSE "news")
  /\ turn' = Idle
  /\ UNCHANGED <<arrived, inbox, histories, suspended, lastUse, moment, knob,
                 transcript, begun>>

-----------------------------------------------------------------------------
(* The turn of the assistant: run_agent *)

\* What becomes of a response: [status, body, calls, content], the body
\* "late" when the per-round timeout is first, "down" when nothing came.
\* A body with an error object under a good status counts as status 200.
AnswerOf(reply) ==
  CASE reply.body = "late" -> [is |-> "timeout"]
    [] reply.body = "down" -> [is |-> "error", status |-> None]
    [] reply.status # 200 -> [is |-> "error", status |-> reply.status]
    [] reply.body = "error" -> [is |-> "error", status |-> 200]
    [] reply.body = "unreadable" -> [is |-> "error", status |-> None]
    [] reply.calls > 0 -> [is |-> "tools"]
    [] reply.content = None -> [is |-> "error", status |-> None]
    [] OTHER -> [is |-> "text", text |-> reply.content]

user_facing_provider_message(status) ==
  CASE status = 402 -> "account empty"
    [] status = 429 -> "rate-limited"
    [] status \in {401, 403} -> "misconfigured"
    [] OTHER -> None

Asked(reply) == turn.phase = "asking" /\ turn.kind = "ai"

\* buffer_for: the history of the channel, or the primary one.
buffer_for(chan) == IF chan = "ai" /\ histories.ai # NoHistory THEN "ai" ELSE "primary"

\* A line of text: said, put into the history and, unless it was asked for
\* in the AI channel, into the transcript; an append that fails is only logged.
is_primary_source(chan) == chan # "ai"

Answered(reply) ==
  LET chan == Message(turn.id).chan IN
  /\ Asked(reply) /\ AnswerOf(reply).is = "text"
  /\ IF reply.content = "blank"
        THEN UNCHANGED <<histories, transcript, answers>>
        ELSE /\ Say(turn.id, "text")
             /\ histories' = Pushed(buffer_for(chan),
                               [id |-> turn.id, by |-> Bot, bot |-> TRUE, size |-> 1])
             /\ \/ /\ is_primary_source(chan)
                   /\ transcript' = Append(transcript, [id |-> turn.id, chan |-> chan])
                \/ UNCHANGED transcript
  /\ turn' = Idle
  /\ UNCHANGED <<arrived, inbox, suspended, lastUse, moment, knob, begun>>

\* An error may be hinted at in chat; a timeout never is.
Failed(reply) ==
  LET answer == AnswerOf(reply)
      hint == IF answer.is = "error" THEN user_facing_provider_message(answer.status) ELSE None IN
  /\ Asked(reply) /\ answer.is \in {"error", "timeout"}
  /\ answers' = IF hint = None THEN answers ELSE answers \union {<<turn.id, hint>>}
  /\ turn' = Idle
  /\ UNCHANGED <<arrived, inbox, histories, suspended, lastUse, moment, knob,
                 transcript, begun>>

CallsTools(reply) ==
  /\ Asked(reply) /\ AnswerOf(reply).is = "tools"
  /\ turn' = [turn EXCEPT !.phase = "tools"]
  /\ UNCHANGED <<arrived, inbox, histories, suspended, lastUse, moment, knob,
                 transcript, assistantHistory>>

\* Mutant: rounds are not counted
ToolsDone_again ==
  /\ turn.phase = "tools"
  /\ turn' = [turn EXCEPT !.phase = "asking"]
  /\ UNCHANGED <<arrived, inbox, histories, suspended, lastUse, moment, knob,
                 transcript, assistantHistory>>

\* The calls of a round are executed in order, without a timeout of their
\* own; a call the executor does not know, or cannot read, is answered too.
\* After the last round the turn ends without a word.
ToolsDone ==
  /\ turn.phase = "tools"
  /\ turn' = IF turn.round + 1 < MaxRounds
                THEN [turn EXCEPT !.phase = "asking", !.round = @ + 1]
                ELSE Idle
  /\ UNCHANGED <<arrived, inbox, histories, suspended, lastUse, moment, knob,
                 transcript, assistantHistory>>

\* @grok searches the web before it asks; the result, or the failure, is a
\* round before the first.
SearchDone ==
  /\ turn.phase = "searching"
  /\ turn' = [turn EXCEPT !.phase = "asking"]
  /\ UNCHANGED <<arrived, inbox, histories, suspended, lastUse, moment, knob,
                 transcript, assistantHistory>>

-----------------------------------------------------------------------------

Pass ==
  /\ moment < MaxMoment /\ moment' = moment + 1
  /\ UNCHANGED <<arrived, inbox, histories, turn, suspended, lastUse, knob,
                 transcript, assistantHistory>>

\* The dashboard saves other settings; how many is bounded by the moments.
Retune(k) ==
  /\ moment < MaxRetunes /\ knob' = k /\ k # knob
  /\ UNCHANGED <<arrived, inbox, histories, turn, suspended, lastUse, moment,
                 transcript, assistantHistory>>

Model ==
  \/ \E r \in Replies:
       \/ EndNews(r)
       \/ Answered(r)
       \/ Failed(r)
       \/ CallsTools(r)
  \/ ToolsDone
  \/ SearchDone

\* What nothing puts an end to: the clients of the model catalog and of the
\* whispers have no timeout, and no timeout is put around the calls.
Untimed == {"naming", "whispering"}
UntimedNext ==
  \/ \E memory \in Memories: Named(memory)
  \/ \E ok \in BOOLEAN: Whispered(ok)

Dispatch ==
  Ignore \/ Suspend \/ Unsuspend \/ Refused \/ Usage \/ BeginNews \/ BeginTurn

AssistantNext ==
  \/ \E k \in Kinds: Arrive(k)
  \/ Dispatch
  \/ Model
  \/ UntimedNext
  \/ Pass
  \/ \E k \in Knobs: Retune(k)

\* Every step of Dispatch takes the oldest message, and one of them can.
TakesOldest == turn = Idle /\ inbox # << >> /\ inbox' = Tail(inbox)

(* The dispatcher is a task that runs when it can; a model that does not   *)
(* answer runs into the timeout of the round, and the tools have timeouts  *)
(* of their own.  Nothing is assumed of the requests that have none.       *)
AssistantFairness ==
  /\ WF_inbox(TakesOldest)
  /\ WF_assistantVars(Model)

AssistantSpec == AssistantInit /\ [][AssistantNext]_assistantVars /\ AssistantFairness

-----------------------------------------------------------------------------
(* Properties *)

Rank(e) == 2 * e.id + IF e.bot THEN 1 ELSE 0

(* A history keeps the order of the conversation although the answers to   *)
(* slow turns are put in minutes later: an answer stands behind its        *)
(* question and before everything that came after it.  A channel's history *)
(* holds no one else's messages, the AI channel never gets into the        *)
(* transcript, and what the bot is recorded to have said it has said.      *)
HistoryFaithful ==
  /\ \A chan \in {"primary", "ai"} : histories[chan] # NoHistory =>
       /\ \A i, j \in DOMAIN histories[chan] :
            i < j => Rank(histories[chan][i]) < Rank(histories[chan][j])
       /\ \A i \in DOMAIN histories[chan] :
            LET e == histories[chan][i] IN
            e.id > 0 =>
              IF e.bot THEN <<e.id, "text">> \in answers /\ (chan = "ai" => Message(e.id).chan = "ai")
                       ELSE Message(e.id).chan = chan
  /\ \A i \in DOMAIN transcript :
       /\ transcript[i].chan # "ai"
       /\ <<transcript[i].id, "text">> \in answers

(* The model is shown the question it answers as the newest line of the    *)
(* conversation it was asked in, if the line fits there, and a summary     *)
(* does not summarise the command that asks for it: whatever comes or is   *)
(* edited while the turn waits for the name of its model.                  *)
Prompted(t) == t.phase \notin {"idle", "naming"}
TurnSeesItsQuestion ==
  [][~Prompted(turn) /\ Prompted(turn') =>
       LET id == turn'.id
           chan == Message(id).chan
           lines == turn'.prompt.window[1] IN
       IF turn'.kind = "news" THEN id \notin {lines[i].id : i \in DOMAIN lines}
       ELSE (chan # "admin" /\ histories[chan] # NoHistory
             /\ (\E b \in begun : b.id = id /\ b.room > 0)
             /\ Message(id).size <= RecentBytes[chan]) =>
              lines # << >> /\ Last(lines).id = id]_assistantVars

(* What a prompt shows of the memory: only files of people in the window   *)
(* and of the speaker; the speaker's own whenever SOUL and LORE leave room *)
(* for it, however many others there are; of the others and of the states  *)
(* the newest; and no more than the budget unless SOUL and LORE exceed it. *)
PromptSound ==
  Prompted(turn) /\ turn.kind = "ai" =>
    LET m == Message(turn.id)
        w == turn.prompt.window
        memory == turn.prompt.memory
        fixed == memory.soul + memory.lore
        shown == turn.prompt.files
        files == shown.users IN
    /\ \A f \in files : f.login \in Mentioned(w[1], w[2]) \union {m.by}
    /\ \A f \in memory.users :
         (f.login = m.by /\ fixed + f.size <= Budget
          /\ \A g \in memory.users : g.login = m.by => g.updated <= f.updated) => f \in files
    /\ \A f \in files, g \in memory.users \ files :
         f.login # m.by /\ g.login \in Mentioned(w[1], w[2]) => f.updated >= g.updated
    /\ \A f \in shown.states, g \in memory.states \ shown.states :
         f.updated >= g.updated
    /\ shown.total <= Budget \/ shown.total = fixed

(* A turn begins only when it may: not while the command is suspended      *)
(* under either of its names, and not before the cooldown of the user has  *)
(* passed since the last turn of the same kind, whichever settings were in *)
(* force at that time.                                                     *)
TurnsAllowed ==
  [][\A b \in begun' \ begun :
       LET m == Message(b.id) IN
       /\ Bucket(m.word) = "ai" => ~is_suspended("ai")
       /\ \A earlier \in begun :
            Message(earlier.id).by = m.by /\ Bucket(Message(earlier.id).word) = Bucket(m.word)
              => b.at - earlier.at >= knob.cooldown[Bucket(m.word)]]_assistantVars

(* Whatever the providers and tools do, the dispatcher comes back to its   *)
(* messages, unless it waits for ever for the model catalog or for a       *)
(* whisper: requests that nothing ends but their answer.                   *)
EveryMessageTaken ==
  []<>(turn.phase \notin Untimed) => ((inbox # << >>) ~> (inbox = << >> /\ turn = Idle))

(* The design of the chat histories: the transcript is a clean narrative   *)
(* of the primary channel.                                                 *)
TranscriptIsPrimary == \A i \in DOMAIN transcript : transcript[i].chan = "primary"

=============================================================================
