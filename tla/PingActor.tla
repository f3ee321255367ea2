------------------------------ MODULE PingActor ------------------------------
(***************************************************************************)
(* The pings (ping.rs): an actor owns the PingManager and serves commands  *)
(* from a bounded channel.  Its clients are the chat command dispatcher,   *)
(* which handles one message at a time (commands/ping_trigger.rs,          *)
(* commands/ping_admin.rs), and the handlers of the dashboard              *)
(* (web/src/routes/pings.rs), which run concurrently.  The actor replies   *)
(* first and publishes the set of names afterwards.                        *)
(*                                                                         *)
(* A template is a model value that may contain "{sender}" or be invalid.  *)
(* A ping may have a cooldown of its own, which goes before the one in the *)
(* settings.  Neither chat nor the dashboard sets one, but pings.ron may   *)
(* hold it (and templates that are refused today) when the bot starts.     *)
(* Commands that only read (Snapshot, GetOne, ListForUser, IsMember) leave *)
(* everything as it is and are left out.                                   *)
(***************************************************************************)
EXTENDS Integers, Sequences, FiniteSets

CONSTANTS
  Names, Users,
  Admins,        \* users is_admin accepts
  Templates,
  WithSender,    \* templates that mention {sender}
  Invalid,       \* templates with a control character
  WebClients,    \* dashboard handlers in flight
  Cooldowns,     \* values of settings.pings.cooldown
  FilePings,     \* what pings.ron may say of a name at the first start
  None,
  PING_ACTOR_CHANNEL,
  MaxCalls,      \* bound on the commands sent
  MaxNow,        \* bound on the clock
  MaxCrashes     \* bound on the restarts

chat == "chat"
Clients == WebClients \cup {chat}

Opt(S) == S \cup {None}

\* last_fired_at is set together with fire_count and left out.
Ping == [template : Templates, members : SUBSET Users, cooldown : Opt(Nat), fire_count : Nat]
Stores == [Names -> Opt(Ping)]

ASSUME PingAssumption ==
  /\ Admins \subseteq Users
  /\ WithSender \subseteq Templates /\ Invalid \subseteq Templates
  /\ Cooldowns \subseteq Nat
  /\ FilePings \subseteq Ping
  /\ chat \notin WebClients
  /\ PING_ACTOR_CHANNEL \in Nat \ {0}
  /\ MaxCalls \in Nat /\ MaxNow \in Nat /\ MaxCrashes \in Nat

\* A PingCommand; `user` is the member concerned or the sender of a trigger.
Command == [from : Clients, op : {"create", "delete", "edit", "add", "remove", "trigger"},
            name : Names, user : Opt(Users), template : Opt(Templates),
            cooldown : Opt(Cooldowns), public : BOOLEAN]

VARIABLES
  pings,           \* PingManager.store
  last_triggered,  \* PingManager.last_triggered
  disk,            \* pings.ron
  save_failed,     \* the last save was refused
  queue,           \* the mpsc channel
  unpublished,     \* a create or delete was answered and publish_names is due
  names,           \* the watch channel of ping names
  client,          \* per client "idle", "waiting" or the answer to act upon
  settings,        \* the live settings.pings
  now, calls, crashes,
  gone,            \* history: members whose removal in chat was confirmed, until they
                   \* are added again
  fired            \* history: per ping the time of its last post since it was created
                   \* and the process was started

store == <<pings, last_triggered, disk, save_failed>>
vars == <<store, queue, unpublished, names, client, settings, now, calls, crashes, gone, fired>>

NamesOf(s) == {n \in Names : s[n] # None}

\* load: pings whose template is invalid are dropped.
load(s) == [n \in Names |-> IF s[n] # None /\ s[n].template \in Invalid THEN None ELSE s[n]]

Idle == [st |-> "idle"]

Init ==
  /\ disk \in [Names -> Opt(FilePings)] /\ pings = load(disk)
  /\ last_triggered = [n \in Names |-> None]
  /\ save_failed = FALSE
  /\ queue = << >> /\ unpublished = FALSE /\ names = NamesOf(pings)
  /\ client = [x \in Clients |-> Idle]
  /\ settings \in [cooldown : Cooldowns, public : BOOLEAN]
  /\ now = 0 /\ calls = 0 /\ crashes = 0
  /\ gone = {} /\ fired = [n \in Names |-> None]

-----------------------------------------------------------------------------
(***************************************************************************)
(* The clients.                                                            *)
(***************************************************************************)
\* PingHandle::send: waits for room in the channel, then for the reply.  A
\* trigger takes the settings along as they are when it is sent.
Send(from, op, n, u, t) ==
  /\ calls < MaxCalls
  /\ client[from] = Idle
  /\ Len(queue) < PING_ACTOR_CHANNEL
  /\ queue' = Append(queue, [from |-> from, op |-> op, name |-> n, user |-> u, template |-> t,
                             cooldown |-> IF op = "trigger" THEN settings.cooldown ELSE None,
                             public |-> op = "trigger" /\ settings.public])
  /\ client' = [client EXCEPT ![from] = [st |-> "waiting", op |-> op]]
  /\ calls' = calls + 1
  /\ UNCHANGED <<store, unpublished, names, settings, now, crashes, gone, fired>>

handle_create(n) == \E t \in Templates : Send(chat, "create", n, None, t)
handle_edit(n) == \E t \in Templates : Send(chat, "edit", n, None, t)
handle_delete(n) == Send(chat, "delete", n, None, None)
handle_member_op(n) == \E op \in {"add", "remove"}, u \in Users : Send(chat, op, n, u, None)

\* `!p join` and `!p leave`.
handle_self_op(sender, n) == \E op \in {"add", "remove"} : Send(chat, op, n, sender, None)

\* `!p create|delete|edit|add|remove` by an admin, `!p join|leave` by anyone.
ChatAdmin(sender, n) ==
  \/ sender \in Admins
     /\ (handle_create(n) \/ handle_edit(n) \/ handle_delete(n) \/ handle_member_op(n))
  \/ handle_self_op(sender, n)

\* `!<name>`: only if the published names have it.
ChatTrigger(sender, n) == n \in names /\ Send(chat, "trigger", n, sender, None)

\* The forms and buttons of the dashboard, all for moderators.
web_create(x, n) == \E t \in Templates : Send(x, "create", n, None, t)
web_update(x, n) == \E t \in Templates : Send(x, "edit", n, None, t)
web_add_member(x, n) == \E u \in Users : Send(x, "add", n, u, None)
web_remove_member(x, n) == \E u \in Users : Send(x, "remove", n, u, None)
web_delete(x, n) == Send(x, "delete", n, None, None)

WebRequest(x, n) == web_create(x, n) \/ web_update(x, n) \/ web_add_member(x, n)
                      \/ web_remove_member(x, n) \/ web_delete(x, n)

\* The dispatcher says the rendered text or replies, and takes the next message.
Act ==
  /\ client[chat].st = "answered"
  /\ client' = [client EXCEPT ![chat] = Idle]
  /\ UNCHANGED <<store, queue, unpublished, names, settings, now, calls, crashes, gone, fired>>

-----------------------------------------------------------------------------
(***************************************************************************)
(* The PingManager.                                                        *)
(***************************************************************************)
\* save: the change stays in memory whether the file is written or not.
save(s) ==
  \/ disk' = s /\ save_failed' = FALSE
  \/ UNCHANGED disk /\ save_failed' = TRUE

\* Mutant: the reply is forgotten.
RefusedSilently(c) == UNCHANGED <<store, client, gone, fired>>

\* The answer to a command that was rejected before it changed anything.
Refused(c) ==
  /\ UNCHANGED <<store, gone, fired>>
  /\ client' = [client EXCEPT ![c.from] = [st |-> "answered", mentions |-> {}]]

\* The store becomes s; the answer carries the result of the save.
Changed(c, s) ==
  /\ pings' = s
  /\ save(s)
  /\ client' = [client EXCEPT ![c.from] = [st |-> "answered", mentions |-> {}]]

create_ping(c) ==
  IF c.template \in Invalid \/ pings[c.name] # None THEN Refused(c)
  ELSE /\ Changed(c, [pings EXCEPT ![c.name] =
                        [template |-> c.template, members |-> {}, cooldown |-> c.cooldown,
                         fire_count |-> 0]])
       /\ UNCHANGED <<last_triggered, gone, fired>>

delete_ping(c) ==
  IF pings[c.name] = None THEN Refused(c)
  ELSE /\ Changed(c, [pings EXCEPT ![c.name] = None])
       /\ last_triggered' = [last_triggered EXCEPT ![c.name] = None]
       /\ fired' = [fired EXCEPT ![c.name] = None]
       /\ UNCHANGED gone

edit_template(c) ==
  IF c.template \in Invalid \/ pings[c.name] = None THEN Refused(c)
  ELSE /\ Changed(c, [pings EXCEPT ![c.name].template = c.template])
       /\ UNCHANGED <<last_triggered, gone, fired>>

add_member(c) ==
  IF pings[c.name] = None \/ c.user \in pings[c.name].members THEN Refused(c)
  ELSE /\ Changed(c, [pings EXCEPT ![c.name].members = @ \cup {c.user}])
       /\ gone' = gone \ {<<c.name, c.user>>}
       /\ UNCHANGED <<last_triggered, fired>>

Confirmed(c) == IF c.from = chat /\ ~save_failed' THEN gone \cup {<<c.name, c.user>>} ELSE gone

\* Mutant: a removal is answered without a save.
remove_member_unsaved(c) ==
  IF pings[c.name] = None \/ c.user \notin pings[c.name].members THEN Refused(c)
  ELSE /\ pings' = [pings EXCEPT ![c.name].members = @ \ {c.user}]
       /\ client' = [client EXCEPT ![c.from] = [st |-> "answered", mentions |-> {}]]
       /\ UNCHANGED <<disk, save_failed, last_triggered, fired>>
       /\ gone' = Confirmed(c)

remove_member(c) ==
  IF pings[c.name] = None \/ c.user \notin pings[c.name].members THEN Refused(c)
  ELSE /\ Changed(c, [pings EXCEPT ![c.name].members = @ \ {c.user}])
       /\ gone' = Confirmed(c)
       /\ UNCHANGED <<last_triggered, fired>>

\* Mutant: the cooldown of the settings goes before the ping's own.
default_cooldown_first(c) == c.cooldown

\* The ping's own cooldown, or the one that came with the trigger.
cooldown(c) == IF pings[c.name].cooldown = None THEN c.cooldown ELSE pings[c.name].cooldown

remaining_cooldown(c) ==
  /\ pings[c.name] # None /\ last_triggered[c.name] # None
  /\ now - last_triggered[c.name] < cooldown(c)

\* Whom the rendered template mentions; no text when there is nobody.
mentions(c) ==
  IF pings[c.name] = None THEN {}
  ELSE {u \in pings[c.name].members : pings[c.name].template \notin WithSender \/ u # c.user}

\* Mutant: the trigger is remembered only when the file was written.
record_trigger_when_saved(c) ==
  /\ pings' = [pings EXCEPT ![c.name].fire_count = @ + 1]
  /\ save(pings')
  /\ last_triggered' = IF save_failed' THEN last_triggered
                       ELSE [last_triggered EXCEPT ![c.name] = now]

record_trigger(c) ==
  /\ last_triggered' = [last_triggered EXCEPT ![c.name] = now]
  /\ pings' = [pings EXCEPT ![c.name].fire_count = @ + 1]
  /\ save(pings')

Fires(c) ==
  /\ c.public \/ (pings[c.name] # None /\ c.user \in pings[c.name].members)
  /\ ~remaining_cooldown(c)
  /\ mentions(c) # {}

try_record_trigger(c) ==
  IF ~Fires(c) THEN Refused(c)
  ELSE /\ record_trigger(c)
       /\ client' = [client EXCEPT ![c.from] =
                       [st |-> "answered", mentions |-> {<<c.name, u>> : u \in mentions(c)}]]
       /\ fired' = [fired EXCEPT ![c.name] = now]
       /\ UNCHANGED gone

-----------------------------------------------------------------------------
(***************************************************************************)
(* The actor.                                                              *)
(***************************************************************************)
Publishes(c) == c.op \in {"create", "delete"}

\* run_ping_actor: one command, its save and its reply.
Serve ==
  /\ queue # << >> /\ ~unpublished
  /\ LET c == Head(queue) IN
     /\ \/ c.op = "create" /\ create_ping(c)
        \/ c.op = "delete" /\ delete_ping(c)
        \/ c.op = "edit" /\ edit_template(c)
        \/ c.op = "add" /\ add_member(c)
        \/ c.op = "remove" /\ remove_member(c)
        \/ c.op = "trigger" /\ try_record_trigger(c)
     /\ unpublished' = Publishes(c)
  /\ queue' = Tail(queue)
  /\ UNCHANGED <<names, settings, now, calls, crashes>>

publish_names ==
  /\ unpublished
  /\ names' = NamesOf(pings)
  /\ unpublished' = FALSE
  /\ UNCHANGED <<store, queue, client, settings, now, calls, crashes, gone, fired>>

\* The dashboard handler renders its page.
WebDone(x) ==
  /\ client[x].st = "answered"
  /\ client' = [client EXCEPT ![x] = Idle]
  /\ UNCHANGED <<store, queue, unpublished, names, settings, now, calls, crashes, gone, fired>>

ChangeSettings ==
  /\ settings' \in [cooldown : Cooldowns, public : BOOLEAN]
  /\ settings' # settings
  /\ UNCHANGED <<store, queue, unpublished, names, client, now, calls, crashes, gone, fired>>

Tick ==
  /\ now < MaxNow
  /\ now' = now + 1
  /\ UNCHANGED <<store, queue, unpublished, names, client, settings, calls, crashes, gone, fired>>

\* The process dies and starts again; the triggers of before are forgotten.
Crash ==
  /\ crashes < MaxCrashes
  /\ crashes' = crashes + 1
  /\ pings' = load(disk)
  /\ last_triggered' = [n \in Names |-> None]
  /\ save_failed' = FALSE
  /\ queue' = << >> /\ unpublished' = FALSE /\ names' = NamesOf(pings')
  /\ client' = [x \in Clients |-> Idle]
  /\ fired' = [n \in Names |-> None]
  /\ UNCHANGED <<gone, disk, settings, now, calls>>

Actor == Serve \/ publish_names

Next ==
  \/ \E u \in Users, n \in Names : ChatAdmin(u, n) \/ ChatTrigger(u, n)
  \/ \E x \in WebClients, n \in Names : WebRequest(x, n)
  \/ \E x \in WebClients : WebDone(x)
  \/ Act \/ Actor \/ ChangeSettings \/ Tick \/ Crash

Spec == Init /\ [][Next]_vars

\* The actor never stops by itself, and the dispatcher gets on with its reply.
FairSpec == Spec /\ WF_vars(Actor) /\ WF_vars(Act)

-----------------------------------------------------------------------------
(***************************************************************************)
(* Properties.                                                             *)
(***************************************************************************)
\* Every variable stays in its set.
TypeOK ==
  /\ pings \in Stores /\ disk \in Stores
  /\ last_triggered \in [Names -> Opt(Nat)]
  /\ save_failed \in BOOLEAN
  /\ queue \in Seq(Command) /\ Len(queue) <= PING_ACTOR_CHANNEL
  /\ unpublished \in BOOLEAN
  /\ names \subseteq Names
  /\ \A x \in Clients : client[x].st \in {"idle", "waiting", "answered"}
  /\ settings \in [cooldown : Cooldowns, public : BOOLEAN]
  /\ now \in Nat /\ calls \in Nat /\ crashes \in Nat
  /\ gone \subseteq Names \X Users
  /\ fired \in [Names -> Opt(Nat)]

\* Two posts of a ping are at least its own cooldown apart or, when it has none,
\* the cooldown that the dispatcher read for the second one, whatever became of
\* the saves and of the queue in between (remaining_cooldown, record_trigger).
PostsAgain(n) ==
  /\ fired[n] # None /\ fired'[n] # None
  /\ pings[n] # None /\ pings'[n] # None
  /\ pings'[n].fire_count > pings[n].fire_count

CooldownKept ==
  [][\A n \in Names : PostsAgain(n)
         => LET own == pings[n].cooldown
            IN  now - fired[n] >= IF own # None THEN own ELSE Head(queue).cooldown]_vars

\* A member whose removal was confirmed in chat is mentioned by no later post
\* until somebody adds the member again, also across a restart.
GoneNotMentioned ==
  client[chat].st = "answered" => client[chat].mentions \cap gone = {}

\* A caller of PingHandle::send is answered, also when its command is refused
\* or its save fails; otherwise the dispatcher would stop for good.
EveryCallAnswered ==
  \A x \in Clients : (client[x].st = "waiting") ~> (client[x].st # "waiting")

=============================================================================
