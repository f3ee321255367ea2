----------------------------- MODULE ChatProofs -----------------------------
(***************************************************************************)
(* What the bot does in chat without the model.                            *)
(*                                                                         *)
(* The cooldown of a ping is kept, and nobody is mentioned whose removal   *)
(* was confirmed, whatever is queued, saved, edited or restarted.          *)
(* CooldownKept needs that the actor remembers the post it made last       *)
(* (Remembered) and that a queued trigger carries a cooldown (Fit).        *)
(* GoneNotMentioned needs that a member who is gone is neither in memory   *)
(* nor in the file that the next start reads (GoneFrom).                   *)
(*                                                                         *)
(* The latency monitor counts the misses, not the PINGs; that the flag of  *)
(* /healthz tells of the PINGs needs MissesAreCounted, and that the        *)
(* latency stays within its samples needs the average before it is rounded *)
(* (AverageWithin).                                                        *)
(*                                                                         *)
(* No day of the 1337 game gets two posts: a session ends on the day it    *)
(* began (SessionIsToday), and the handler waits for a day that has none   *)
(* (WaitsForADay).  What the post announces is worked out before the       *)
(* leaderboard is updated, and must still be of the same users and the     *)
(* same leaderboard then (ResultIsOfTheUsers).                             *)
(***************************************************************************)
EXTENDS PingActor, LatencyMonitor, Tracker1337, FiniteSetTheorems, TLAPS


\* The commands that clients put in the channel carry what their operation needs.
Fit == {c \in Command :
          /\ c.op = "trigger" => c.cooldown \in Cooldowns
          /\ c.op \in {"add", "remove"} => c.user \in Users
          /\ c.op \in {"create", "edit"} => c.template \in Templates}

Ops == {"create", "delete", "edit", "add", "remove", "trigger"}

\* What a client of the actor may be doing.
ClientState == [st : {"idle"}] \cup [st : {"waiting"}, op : Ops]
                 \cup [st : {"answered"}, mentions : SUBSET (Names \X Users)]

Typed ==
  /\ TypeOK /\ queue \in Seq(Fit) /\ client \in [Clients -> ClientState]

\* The actor remembers the last post of a ping.
Remembered == last_triggered = fired

\* No ping of the store has a member that is gone.
GoneFrom(s, g) == \A n \in Names, u \in Users :
                    <<n, u>> \in g /\ s[n] # None => u \notin s[n].members

PInv ==
  /\ Typed /\ Remembered
  /\ GoneFrom(pings, gone) /\ GoneFrom(disk, gone)
  /\ GoneNotMentioned

-----------------------------------------------------------------------------
LEMMA InitHolds == Init => PInv
<1> SUFFICES ASSUME Init PROVE PInv
  OBVIOUS
<1>0. disk \in Stores
  BY PingAssumption DEF Init, Stores, Opt
<1>1. pings \in Stores /\ disk \in Stores /\ last_triggered \in [Names -> Opt(Nat)]
      /\ fired \in [Names -> Opt(Nat)]
  BY <1>0 DEF Init, load, Stores, Opt
<1>2. client \in [Clients -> ClientState] /\ \A x \in Clients : client[x].st = "idle"
  BY DEF Init, Idle, ClientState
<1>3. queue \in Seq(Fit) /\ queue \in Seq(Command) /\ Len(queue) <= PING_ACTOR_CHANNEL
  BY PingAssumption DEF Init
<1>4. TypeOK
  BY <1>1, <1>2, <1>3 DEF Init, TypeOK, NamesOf
<1>5. gone = {} /\ last_triggered = fired
  BY DEF Init
<1>6. chat \in Clients
  BY DEF Clients
<1> QED
  BY <1>1, <1>2, <1>3, <1>4, <1>5, <1>6 DEF PInv, Typed, Remembered, GoneFrom, GoneNotMentioned

\* A command of a client enters the channel.
LEMMA SendKeeps ==
  ASSUME PInv, NEW from \in Clients, NEW op, NEW n \in Names, NEW u, NEW t,
         Send(from, op, n, u, t),
         \/ op \in {"create", "edit"} /\ u = None /\ t \in Templates
         \/ op \in {"add", "remove"} /\ u \in Users /\ t = None
         \/ op = "delete" /\ u = None /\ t = None
         \/ op = "trigger" /\ u \in Users /\ t = None
  PROVE  PInv'
<1> USE DEF PInv, Typed
<1> DEFINE c == [from |-> from, op |-> op, name |-> n, user |-> u, template |-> t,
                 cooldown |-> IF op = "trigger" THEN settings.cooldown ELSE None,
                 public |-> op = "trigger" /\ settings.public]
<1>1. settings.cooldown \in Cooldowns /\ settings.public \in BOOLEAN
  BY DEF TypeOK
<1>2. (op = "trigger" /\ settings.public) \in BOOLEAN
  BY <1>1
<1>3. c \in Command
  BY <1>1, <1>2 DEF Command, Opt
<1>4. c \in Fit
  BY <1>1, <1>3 DEF Fit
<1>5. queue' = Append(queue, c) /\ Len(queue) < PING_ACTOR_CHANNEL
  BY DEF Send
<1> HIDE DEF c
<1>6. queue' \in Seq(Fit) /\ queue' \in Seq(Command) /\ Len(queue') <= PING_ACTOR_CHANNEL
  BY <1>3, <1>4, <1>5, PingAssumption DEF TypeOK
<1>7. /\ client' \in [Clients -> ClientState]
      /\ \A x \in Clients : client'[x] = IF x = from THEN [st |-> "waiting", op |-> op]
                                         ELSE client[x]
  <2>1. [st |-> "waiting", op |-> op] \in ClientState
    BY DEF ClientState, Ops
  <2> QED
    BY <2>1 DEF Send
<1>8. UNCHANGED <<pings, last_triggered, disk, save_failed, unpublished, names, settings, now,
                  crashes, gone, fired>> /\ calls' = calls + 1
  BY DEF Send, store
<1>9. TypeOK'
  BY <1>6, <1>7, <1>8 DEF TypeOK, ClientState
<1>10. GoneNotMentioned'
  BY <1>7, <1>8 DEF GoneNotMentioned, Clients
<1> QED
  BY <1>6, <1>7, <1>8, <1>9, <1>10 DEF Remembered, GoneFrom

LEMMA ClientsKeep ==
  ASSUME PInv,
         \/ \E u \in Users, n \in Names : ChatAdmin(u, n) \/ ChatTrigger(u, n)
         \/ \E x \in WebClients, n \in Names : WebRequest(x, n)
  PROVE  PInv'
<1>1. chat \in Clients /\ WebClients \subseteq Clients
  BY DEF Clients
<1>2. \E from \in Clients, n \in Names :
        \/ \E op \in {"create", "edit"}, t \in Templates : Send(from, op, n, None, t)
        \/ \E op \in {"add", "remove"}, u \in Users : Send(from, op, n, u, None)
        \/ Send(from, "delete", n, None, None)
        \/ \E u \in Users : Send(from, "trigger", n, u, None)
  BY <1>1 DEF ChatAdmin, ChatTrigger, WebRequest, handle_create, handle_edit, handle_delete,
     handle_member_op, handle_self_op, web_create, web_update, web_add_member,
     web_remove_member, web_delete
<1> QED
  BY <1>2, SendKeeps

-----------------------------------------------------------------------------
\* What serving a command has to leave behind.
Served ==
  /\ pings' \in Stores /\ disk' \in Stores /\ save_failed' \in BOOLEAN
  /\ last_triggered' \in [Names -> Opt(Nat)] /\ fired' \in [Names -> Opt(Nat)]
  /\ gone' \subseteq Names \X Users /\ client' \in [Clients -> ClientState]
  /\ Remembered'
  /\ GoneFrom(pings', gone') /\ GoneFrom(disk', gone') /\ GoneNotMentioned'

\* A post answers with whom it mentions; members that are gone are not among them, and
\* only a command from chat makes one gone.
LEMMA AnswerKeeps ==
  ASSUME PInv, NEW from \in Clients, NEW m \in SUBSET (Names \X Users),
         client' = [client EXCEPT ![from] = [st |-> "answered", mentions |-> m]],
         from = chat => m \cap gone' = {},
         from # chat => gone' \subseteq gone
  PROVE  client' \in [Clients -> ClientState] /\ GoneNotMentioned'
<1> USE DEF PInv, Typed
<1>1. [st |-> "answered", mentions |-> m] \in ClientState
  BY DEF ClientState
<1>2. \A x \in Clients : client'[x] = IF x = from THEN [st |-> "answered", mentions |-> m]
                                      ELSE client[x]
  OBVIOUS
<1>3. client' \in [Clients -> ClientState]
  BY <1>1
<1>4. chat \in Clients
  BY DEF Clients
<1>5. CASE from = chat
  BY <1>2, <1>3, <1>4, <1>5 DEF GoneNotMentioned
<1>6. CASE from # chat
  BY <1>2, <1>3, <1>4, <1>6 DEF GoneNotMentioned
<1> QED
  BY <1>5, <1>6

\* The file is the store that was to be saved or what it was.
LEMMA SaveKeeps ==
  ASSUME PInv, NEW s \in Stores, save(s)
  PROVE  /\ disk' \in Stores /\ save_failed' \in BOOLEAN
         /\ disk' \in {s, disk} /\ (~save_failed' => disk' = s)
BY DEF save, PInv, Typed, TypeOK

LEMMA RefusedKeeps ==
  ASSUME PInv, NEW c \in Fit, Refused(c)
  PROVE  Served
<1> USE DEF PInv, Typed
<1>1. c.from \in Clients
  BY DEF Fit, Command
<1>2. UNCHANGED <<pings, last_triggered, disk, save_failed, gone, fired>>
  BY DEF Refused, store
<1>3. client' \in [Clients -> ClientState] /\ GoneNotMentioned'
  <2>1. client' = [client EXCEPT ![c.from] = [st |-> "answered", mentions |-> {}]]
    BY DEF Refused
  <2> QED
    BY <1>1, <1>2, <2>1, AnswerKeeps, {} \in SUBSET (Names \X Users), {} \cap gone' = {}
<1> QED
  BY <1>2, <1>3 DEF Served, TypeOK, Remembered

\* A command that changes the store without making anybody a member or gone.
LEMMA ChangedKeeps ==
  ASSUME PInv, NEW c \in Fit, NEW s \in Stores, Changed(c, s),
         gone' \subseteq gone, GoneFrom(s, gone'),
         last_triggered' \in [Names -> Opt(Nat)], last_triggered' = fired'
  PROVE  Served
<1> USE DEF PInv, Typed
<1>1. c.from \in Clients
  BY DEF Fit, Command
<1>2. pings' = s /\ disk' \in Stores /\ save_failed' \in BOOLEAN /\ disk' \in {s, disk}
  BY SaveKeeps DEF Changed
<1>3. client' \in [Clients -> ClientState] /\ GoneNotMentioned'
  <2>1. client' = [client EXCEPT ![c.from] = [st |-> "answered", mentions |-> {}]]
    BY DEF Changed
  <2> QED
    BY <1>1, <2>1, AnswerKeeps, {} \in SUBSET (Names \X Users), {} \cap gone' = {}
<1>4. GoneFrom(disk', gone')
  BY <1>2 DEF GoneFrom
<1>5. gone' \subseteq Names \X Users
  BY DEF TypeOK
<1> QED
  BY <1>2, <1>3, <1>4, <1>5 DEF Served, Remembered

LEMMA CreateKeeps ==
  ASSUME PInv, NEW c \in Fit, c.op = "create", create_ping(c)
  PROVE  Served
<1> USE DEF PInv, Typed
<1>1. CASE Refused(c)
  BY <1>1, RefusedKeeps
<1>2. CASE /\ Changed(c, [pings EXCEPT ![c.name] =
                            [template |-> c.template, members |-> {},
                             cooldown |-> c.cooldown, fire_count |-> 0]])
           /\ UNCHANGED <<last_triggered, gone, fired>>
  <2> DEFINE p == [template |-> c.template, members |-> {}, cooldown |-> c.cooldown,
                   fire_count |-> 0]
             s == [pings EXCEPT ![c.name] = p]
  <2>1. p \in Ping /\ p.members = {} /\ c.name \in Names
    BY PingAssumption DEF Fit, Command, Ping, Opt
  <2> HIDE DEF p
  <2>2. s \in Stores /\ GoneFrom(s, gone)
    BY <2>1 DEF TypeOK, Stores, Opt, GoneFrom
  <2>3. Changed(c, s) /\ UNCHANGED <<last_triggered, gone, fired>>
    BY <1>2 DEF p
  <2> HIDE DEF s
  <2> QED
    BY <2>2, <2>3, ChangedKeeps DEF TypeOK, Remembered
<1> QED
  BY <1>1, <1>2 DEF create_ping

LEMMA DeleteKeeps ==
  ASSUME PInv, NEW c \in Fit, delete_ping(c)
  PROVE  Served
<1> USE DEF PInv, Typed
<1>1. CASE Refused(c)
  BY <1>1, RefusedKeeps
<1>2. CASE /\ Changed(c, [pings EXCEPT ![c.name] = None]) /\ UNCHANGED gone
           /\ last_triggered' = [last_triggered EXCEPT ![c.name] = None]
           /\ fired' = [fired EXCEPT ![c.name] = None]
  <2> DEFINE s == [pings EXCEPT ![c.name] = None]
  <2>1. s \in Stores /\ GoneFrom(s, gone)
    BY DEF TypeOK, Stores, Opt, GoneFrom
  <2>2. last_triggered' \in [Names -> Opt(Nat)] /\ last_triggered' = fired'
    BY <1>2 DEF TypeOK, Opt, Remembered
  <2> HIDE DEF s
  <2> QED
    BY <1>2, <2>1, <2>2, ChangedKeeps DEF s
<1> QED
  BY <1>1, <1>2 DEF delete_ping

LEMMA EditKeeps ==
  ASSUME PInv, NEW c \in Fit, c.op = "edit", edit_template(c)
  PROVE  Served
<1> USE DEF PInv, Typed
<1>1. CASE Refused(c)
  BY <1>1, RefusedKeeps
<1>2. CASE /\ pings[c.name] # None
           /\ Changed(c, [pings EXCEPT ![c.name].template = c.template])
           /\ UNCHANGED <<last_triggered, gone, fired>>
  <2> DEFINE p == [pings[c.name] EXCEPT !.template = c.template]
             s == [pings EXCEPT ![c.name] = p]
  <2>1. c.name \in Names /\ c.template \in Templates
    BY DEF Fit, Command
  <2>2. pings[c.name] \in Ping
    BY <1>2, <2>1 DEF TypeOK, Stores, Opt
  <2>3. p \in Ping /\ p.members = pings[c.name].members
    BY <2>1, <2>2 DEF Ping
  <2>4. Changed(c, s)
    BY <1>2, <2>1 DEF TypeOK, Stores
  <2> HIDE DEF p
  <2>5. s \in Stores /\ GoneFrom(s, gone)
    BY <1>2, <2>1, <2>3 DEF TypeOK, Stores, Opt, GoneFrom
  <2> HIDE DEF s
  <2> QED
    BY <1>2, <2>4, <2>5, ChangedKeeps DEF TypeOK, Remembered
<1> QED
  BY <1>1, <1>2 DEF edit_template

LEMMA AddKeeps ==
  ASSUME PInv, NEW c \in Fit, c.op = "add", add_member(c)
  PROVE  Served
<1> USE DEF PInv, Typed
<1>1. CASE Refused(c)
  BY <1>1, RefusedKeeps
<1>2. CASE /\ pings[c.name] # None
           /\ Changed(c, [pings EXCEPT ![c.name].members = @ \cup {c.user}])
           /\ gone' = gone \ {<<c.name, c.user>>}
           /\ UNCHANGED <<last_triggered, fired>>
  <2> DEFINE p == [pings[c.name] EXCEPT !.members = pings[c.name].members \cup {c.user}]
             s == [pings EXCEPT ![c.name] = p]
  <2>1. c.name \in Names /\ c.user \in Users
    BY DEF Fit, Command
  <2>2. pings[c.name] \in Ping
    BY <1>2, <2>1 DEF TypeOK, Stores, Opt
  <2>3. p \in Ping /\ p.members = pings[c.name].members \cup {c.user}
    BY <2>1, <2>2 DEF Ping
  <2>4. Changed(c, s)
    BY <1>2, <2>1 DEF TypeOK, Stores
  <2> HIDE DEF p
  <2>5. s \in Stores /\ GoneFrom(s, gone')
    BY <1>2, <2>1, <2>3 DEF TypeOK, Stores, Opt, GoneFrom
  <2> HIDE DEF s
  <2> QED
    BY <1>2, <2>4, <2>5, ChangedKeeps DEF TypeOK, Remembered
<1> QED
  BY <1>1, <1>2 DEF add_member

\* A removal confirmed in chat is in memory and in the file.
LEMMA RemoveKeeps ==
  ASSUME PInv, NEW c \in Fit, c.op = "remove", remove_member(c)
  PROVE  Served
<1> USE DEF PInv, Typed
<1>1. CASE Refused(c)
  BY <1>1, RefusedKeeps
<1>2. CASE /\ pings[c.name] # None
           /\ Changed(c, [pings EXCEPT ![c.name].members = @ \ {c.user}])
           /\ gone' = Confirmed(c)
           /\ UNCHANGED <<last_triggered, fired>>
  <2> DEFINE p == [pings[c.name] EXCEPT !.members = pings[c.name].members \ {c.user}]
             s == [pings EXCEPT ![c.name] = p]
  <2>1. c.name \in Names /\ c.user \in Users /\ c.from \in Clients
    BY DEF Fit, Command
  <2>2. pings[c.name] \in Ping
    BY <1>2, <2>1 DEF TypeOK, Stores, Opt
  <2>3. p \in Ping /\ p.members = pings[c.name].members \ {c.user}
    BY <2>1, <2>2 DEF Ping
  <2>4. Changed(c, s)
    BY <1>2, <2>1 DEF TypeOK, Stores
  <2> HIDE DEF p
  <2>5. /\ s \in Stores /\ GoneFrom(s, gone)
        /\ GoneFrom(s, gone \cup {<<c.name, c.user>>})
    BY <1>2, <2>1, <2>3 DEF TypeOK, Stores, Opt, GoneFrom
  <2> HIDE DEF s
  <2>6. CASE c.from = chat /\ ~save_failed'
    <3>1. gone' = gone \cup {<<c.name, c.user>>}
      BY <1>2, <2>6 DEF Confirmed
    <3>2. pings' = s /\ disk' = s /\ save_failed' \in BOOLEAN
      BY <2>4, <2>5, <2>6, SaveKeeps DEF Changed
    <3>3. client' = [client EXCEPT ![c.from] = [st |-> "answered", mentions |-> {}]]
      BY <2>4 DEF Changed
    <3>4. client' \in [Clients -> ClientState] /\ GoneNotMentioned'
      BY <2>1, <2>6, <3>3, AnswerKeeps, {} \in SUBSET (Names \X Users), {} \cap gone' = {}
    <3>5. gone' \subseteq Names \X Users
      BY <2>1, <3>1 DEF TypeOK
    <3>6. last_triggered' \in [Names -> Opt(Nat)] /\ fired' \in [Names -> Opt(Nat)] /\ Remembered'
      BY <1>2 DEF TypeOK, Remembered
    <3> QED
      BY <2>5, <3>1, <3>2, <3>4, <3>5, <3>6 DEF Served
  <2>7. CASE ~(c.from = chat /\ ~save_failed')
    <3>1. gone' = gone
      BY <1>2, <2>7 DEF Confirmed
    <3> QED
      BY <1>2, <2>4, <2>5, <3>1, ChangedKeeps DEF TypeOK, Remembered
  <2> QED
    BY <2>6, <2>7
<1> QED
  BY <1>1, <1>2 DEF remove_member

\* Whom a post mentions are members of the ping, so none of them is gone.
LEMMA MentionsAreMembers ==
  ASSUME PInv, NEW c \in Fit
  PROVE  /\ {<<c.name, u>> : u \in mentions(c)} \in SUBSET (Names \X Users)
         /\ {<<c.name, u>> : u \in mentions(c)} \cap gone = {}
<1> USE DEF PInv, Typed
<1>1. c.name \in Names
  BY DEF Fit, Command
<1>2. \A u \in mentions(c) : pings[c.name] # None /\ u \in pings[c.name].members
  BY DEF mentions
<1>3. pings[c.name] # None => pings[c.name].members \subseteq Users
  BY <1>1 DEF TypeOK, Stores, Opt, Ping
<1> QED
  BY <1>1, <1>2, <1>3 DEF GoneFrom

LEMMA TriggerKeeps ==
  ASSUME PInv, NEW c \in Fit, try_record_trigger(c)
  PROVE  Served
<1> USE DEF PInv, Typed
<1>1. CASE Refused(c)
  BY <1>1, RefusedKeeps
<1>2. CASE Fires(c) /\ ~Refused(c)
  <2> DEFINE p == [pings[c.name] EXCEPT !.fire_count = pings[c.name].fire_count + 1]
             s == [pings EXCEPT ![c.name] = p]
             m == {<<c.name, u>> : u \in mentions(c)}
  <2>1. c.name \in Names /\ c.from \in Clients
    BY DEF Fit, Command
  <2>2. pings[c.name] # None /\ pings[c.name] \in Ping
    BY <1>2, <2>1 DEF Fires, mentions, TypeOK, Stores, Opt
  <2>3. p \in Ping /\ p.members = pings[c.name].members
    BY <2>2 DEF Ping
  <2>4. /\ last_triggered' = [last_triggered EXCEPT ![c.name] = now]
        /\ fired' = [fired EXCEPT ![c.name] = now] /\ gone' = gone
        /\ client' = [client EXCEPT ![c.from] = [st |-> "answered", mentions |-> m]]
        /\ pings' = [pings EXCEPT ![c.name].fire_count = @ + 1] /\ save(pings')
    BY <1>2 DEF try_record_trigger, record_trigger
  <2>5. pings' = s
    BY <2>1, <2>4 DEF TypeOK, Stores
  <2> HIDE DEF p
  <2>6. s \in Stores /\ GoneFrom(s, gone)
    BY <2>1, <2>2, <2>3 DEF TypeOK, Stores, Opt, GoneFrom
  <2> HIDE DEF s
  <2>7. disk' \in Stores /\ save_failed' \in BOOLEAN /\ disk' \in {s, disk}
    BY <2>4, <2>5, <2>6, SaveKeeps
  <2>8. m \in SUBSET (Names \X Users) /\ m \cap gone = {}
    BY MentionsAreMembers
  <2> HIDE DEF m
  <2>9. client' \in [Clients -> ClientState] /\ GoneNotMentioned'
    BY <2>1, <2>4, <2>8, AnswerKeeps
  <2>10. last_triggered' \in [Names -> Opt(Nat)] /\ fired' \in [Names -> Opt(Nat)] /\ Remembered'
    BY <2>4 DEF TypeOK, Opt, Remembered
  <2>11. GoneFrom(disk', gone') /\ gone' \subseteq Names \X Users
    BY <2>4, <2>6, <2>7 DEF GoneFrom, TypeOK
  <2> QED
    BY <2>4, <2>5, <2>6, <2>7, <2>9, <2>10, <2>11 DEF Served
<1> QED
  BY <1>1, <1>2 DEF try_record_trigger

\* The command at the head of the channel is one that a client may send.
LEMMA HeadFits ==
  ASSUME PInv, queue # << >>
  PROVE  /\ Head(queue) \in Fit /\ Tail(queue) \in Seq(Fit) /\ Tail(queue) \in Seq(Command)
         /\ Len(Tail(queue)) <= PING_ACTOR_CHANNEL
<1>1. queue \in Seq(Fit) /\ queue \in Seq(Command) /\ Len(queue) <= PING_ACTOR_CHANNEL
  BY DEF PInv, Typed, TypeOK
<1>2. PING_ACTOR_CHANNEL \in Nat
  BY PingAssumption
<1> QED
  BY <1>1, <1>2

LEMMA ServeKeeps ==
  ASSUME PInv, Serve
  PROVE  PInv'
<1> USE DEF PInv, Typed
<1> DEFINE c == Head(queue)
<1>1. c \in Fit /\ queue' = Tail(queue) /\ UNCHANGED <<names, settings, now, calls, crashes>>
  BY HeadFits DEF Serve
<1>2. /\ queue' \in Seq(Fit) /\ queue' \in Seq(Command) /\ Len(queue') <= PING_ACTOR_CHANNEL
  BY HeadFits DEF Serve
<1>3. unpublished' \in BOOLEAN
  BY DEF Serve, Publishes
<1>4. \/ c.op = "create" /\ create_ping(c)
      \/ c.op = "delete" /\ delete_ping(c)
      \/ c.op = "edit" /\ edit_template(c)
      \/ c.op = "add" /\ add_member(c)
      \/ c.op = "remove" /\ remove_member(c)
      \/ c.op = "trigger" /\ try_record_trigger(c)
  BY DEF Serve
<1> HIDE DEF c
<1>5. Served
  BY <1>1, <1>4, CreateKeeps, DeleteKeeps, EditKeeps, AddKeeps, RemoveKeeps, TriggerKeeps
<1>6. TypeOK'
  BY <1>1, <1>2, <1>3, <1>5 DEF Served, TypeOK, ClientState
<1> QED
  BY <1>2, <1>5, <1>6 DEF Served

\* A client that has its answer goes on.
LEMMA IdleKeeps ==
  ASSUME PInv, NEW x \in Clients, client' = [client EXCEPT ![x] = Idle],
         UNCHANGED <<store, queue, unpublished, names, settings, now, calls, crashes, gone, fired>>
  PROVE  PInv'
<1> USE DEF PInv, Typed
<1>1. Idle \in ClientState /\ Idle.st = "idle"
  BY DEF Idle, ClientState
<1>2. \A y \in Clients : client'[y] = IF y = x THEN Idle ELSE client[y]
  OBVIOUS
<1>3. client' \in [Clients -> ClientState] /\ chat \in Clients
  BY <1>1 DEF Clients
<1>4. GoneNotMentioned'
  BY <1>1, <1>2, <1>3 DEF GoneNotMentioned
<1>5. TypeOK'
  BY <1>3 DEF TypeOK, ClientState, store
<1> QED
  BY <1>3, <1>4, <1>5 DEF Remembered, GoneFrom, store

\* The next start reads the file, and drops from it what it cannot use.
LEMMA CrashKeeps ==
  ASSUME PInv, Crash
  PROVE  PInv'
<1> USE DEF PInv, Typed
<1>1. pings' \in Stores /\ GoneFrom(pings', gone)
  BY DEF Crash, load, TypeOK, Stores, Opt, GoneFrom
<1>2. client' \in [Clients -> ClientState] /\ \A x \in Clients : client'[x].st = "idle"
  BY DEF Crash, Idle, ClientState
<1>3. /\ last_triggered' \in [Names -> Opt(Nat)] /\ fired' \in [Names -> Opt(Nat)] /\ Remembered'
      /\ names' \subseteq Names
  BY DEF Crash, Opt, Remembered, NamesOf
<1>4. queue' \in Seq(Fit) /\ queue' \in Seq(Command) /\ Len(queue') <= PING_ACTOR_CHANNEL
  BY PingAssumption DEF Crash
<1>5. TypeOK'
  <2>1. /\ save_failed' = FALSE /\ unpublished' = FALSE /\ crashes' \in Nat
        /\ UNCHANGED <<gone, disk, settings, now, calls>>
    BY DEF Crash, TypeOK
  <2>2. \A x \in Clients : client'[x].st \in {"idle", "waiting", "answered"}
    BY <1>2
  <2> QED
    BY <1>1, <1>3, <1>4, <2>1, <2>2 DEF TypeOK
<1>6. chat \in Clients
  BY DEF Clients
<1> QED
  BY <1>1, <1>2, <1>3, <1>4, <1>5, <1>6 DEF Crash, GoneFrom, GoneNotMentioned

LEMMA StepKeeps ==
  ASSUME PInv, [Next]_vars
  PROVE  PInv'
<1> USE DEF PInv, Typed
<1>1. CASE \/ \E u \in Users, n \in Names : ChatAdmin(u, n) \/ ChatTrigger(u, n)
           \/ \E x \in WebClients, n \in Names : WebRequest(x, n)
  BY <1>1, ClientsKeep
<1>2. CASE Act \/ \E x \in WebClients : WebDone(x)
  BY <1>2, IdleKeeps DEF Act, WebDone, Clients
<1>3. CASE publish_names \/ ChangeSettings \/ Tick \/ UNCHANGED vars
  <2>1. UNCHANGED <<pings, last_triggered, disk, save_failed, queue, client, calls, crashes,
                    gone, fired>>
    BY <1>3 DEF publish_names, ChangeSettings, Tick, vars, store
  <2>2. names' \subseteq Names /\ unpublished' \in BOOLEAN /\ now' \in Nat
        /\ settings' \in [cooldown : Cooldowns, public : BOOLEAN]
    <3>1. CASE publish_names
      BY <3>1 DEF publish_names, NamesOf, TypeOK
    <3>2. CASE ChangeSettings
      BY <3>2 DEF ChangeSettings, TypeOK
    <3>3. CASE Tick
      BY <3>3 DEF Tick, TypeOK
    <3>4. CASE UNCHANGED vars
      BY <3>4 DEF vars, TypeOK
    <3> QED
      BY <1>3, <3>1, <3>2, <3>3, <3>4
  <2>3. TypeOK'
    BY <2>1, <2>2 DEF TypeOK
  <2> QED
    BY <2>1, <2>3 DEF Remembered, GoneFrom, GoneNotMentioned
<1> QED
  BY <1>1, <1>2, <1>3, ServeKeeps, CrashKeeps DEF Next, Actor

LEMMA Always == Spec => []PInv
BY InitHolds, StepKeeps, PTL DEF Spec

\* The variables of the ping actor and its clients stay in their sets.
THEOREM PingsTyped == Spec => []TypeOK
<1>1. PInv => TypeOK
  BY DEF PInv, Typed
<1> QED
  BY Always, <1>1, PTL

\* A member whose removal was confirmed in chat is mentioned by no later post until somebody
\* adds the member again, whatever saves fail afterwards and across restarts.
THEOREM RemovedStayQuiet == Spec => []GoneNotMentioned
<1>1. PInv => GoneNotMentioned
  BY DEF PInv
<1> QED
  BY Always, <1>1, PTL

\* Only a trigger that was not refused makes a ping that is there count one more post.
LEMMA PostsByTrigger ==
  ASSUME PInv, [Next]_vars, NEW n \in Names, PostsAgain(n)
  PROVE  /\ Serve /\ Head(queue).op = "trigger" /\ Head(queue).name = n
         /\ Fires(Head(queue))
<1> USE DEF PInv, Typed
<1> DEFINE c == Head(queue)
<1>1. pings' # pings /\ pings[n] # None /\ pings[n] \in Ping
  BY DEF PostsAgain, TypeOK, Stores, Opt, Ping
<1>2. Serve
  <2>1. ~Crash
    BY DEF Crash, PostsAgain
  <2> QED
    BY <1>1, <2>1 DEF Next, vars, store, ChatAdmin, ChatTrigger, WebRequest, WebDone, Act, Actor,
       publish_names, ChangeSettings, Tick, handle_create, handle_edit, handle_delete,
       handle_member_op, handle_self_op, web_create, web_update, web_add_member,
       web_remove_member, web_delete, Send
<1>3. c \in Fit
  BY <1>2, HeadFits DEF Serve
<1>4. \/ c.op = "create" /\ create_ping(c)
      \/ c.op = "delete" /\ delete_ping(c)
      \/ c.op = "edit" /\ edit_template(c)
      \/ c.op = "add" /\ add_member(c)
      \/ c.op = "remove" /\ remove_member(c)
      \/ c.op = "trigger" /\ try_record_trigger(c)
  BY <1>2 DEF Serve
<1> HIDE DEF c
<1>5. c.name \in Names /\ pings \in Stores
  BY <1>3 DEF Fit, Command, TypeOK
<1>6. ~Refused(c)
  BY <1>1 DEF Refused, store
<1>7. pings' # pings /\ pings'[n] # None /\ pings'[n].fire_count > pings[n].fire_count
      /\ pings[n].fire_count \in Nat
  BY <1>1 DEF PostsAgain, Ping
<1>8. CASE c.name # n
  <2>1. \E p : pings' = [pings EXCEPT ![c.name] = p]
    BY <1>4, <1>6 DEF create_ping, delete_ping, edit_template, add_member, remove_member,
       try_record_trigger, record_trigger, Changed
  <2>2. pings'[n] = pings[n]
    BY <1>5, <1>8, <2>1 DEF Stores
  <2>3. \A k \in Nat : ~(k > k)
    OBVIOUS
  <2> QED
    BY <1>7, <2>2, <2>3
<1>9. CASE c.name = n /\ c.op # "trigger"
  <2>1. \A p : pings' = [pings EXCEPT ![n] = p] => pings'[n] = p
    BY <1>5, <1>9 DEF Stores
  <2>2. ~create_ping(c)
    BY <1>1, <1>6, <1>9 DEF create_ping
  <2>3. ~delete_ping(c)
    BY <1>6, <1>7, <1>9, <2>1 DEF delete_ping, Changed
  <2>4. \E q : pings' = [pings EXCEPT ![n] = q] /\ q.fire_count = pings[n].fire_count
    <3>1. PICK p : p = pings[n] /\ p \in Ping
      BY <1>1
    <3>2. /\ [p EXCEPT !.template = c.template].fire_count = p.fire_count
          /\ [p EXCEPT !.members = p.members \cup {c.user}].fire_count = p.fire_count
          /\ [p EXCEPT !.members = p.members \ {c.user}].fire_count = p.fire_count
      BY <3>1 DEF Ping
    <3>3. \/ pings' = [pings EXCEPT ![n] = [p EXCEPT !.template = c.template]]
          \/ pings' = [pings EXCEPT ![n] = [p EXCEPT !.members = p.members \cup {c.user}]]
          \/ pings' = [pings EXCEPT ![n] = [p EXCEPT !.members = p.members \ {c.user}]]
      BY <1>4, <1>5, <1>6, <1>9, <2>2, <2>3, <3>1
         DEF edit_template, add_member, remove_member, Changed, Stores
    <3> QED
      BY <3>1, <3>2, <3>3
  <2> QED
    BY <1>7, <2>1, <2>4
<1>10. CASE c.name = n /\ c.op = "trigger"
  BY <1>2, <1>4, <1>6, <1>10 DEF try_record_trigger, c
<1> QED
  BY <1>8, <1>9, <1>10

\* Two posts of a ping are at least its own cooldown apart or, when it has none, the cooldown
\* that came with the second trigger, whatever the saves in between did.
THEOREM PostsKeepApart == Spec => CooldownKept
<1> DEFINE Apart == \A n \in Names : PostsAgain(n)
                      => LET own == pings[n].cooldown
                         IN  now - fired[n] >= IF own # None THEN own ELSE Head(queue).cooldown
<1>1. PInv /\ [Next]_vars => [Apart]_vars
  <2> SUFFICES ASSUME PInv, [Next]_vars, NEW n \in Names, PostsAgain(n)
               PROVE  now - fired[n] >= IF pings[n].cooldown # None THEN pings[n].cooldown
                                        ELSE Head(queue).cooldown
    OBVIOUS
  <2> USE DEF PInv, Typed
  <2> DEFINE c == Head(queue)
  <2>1. c \in Fit /\ c.op = "trigger" /\ c.name = n /\ Fires(c)
    BY PostsByTrigger, HeadFits DEF Serve
  <2> HIDE DEF c
  <2>2. c.cooldown \in Nat /\ pings[n] # None /\ pings[n].cooldown \in Opt(Nat)
    BY <2>1, PingAssumption DEF Fit, PostsAgain, TypeOK, Stores, Opt, Ping
  <2>3. cooldown(c) \in Nat
    BY <2>1, <2>2 DEF cooldown, Opt
  <2>4. fired[n] # None /\ last_triggered[n] = fired[n] /\ ~(now - fired[n] < cooldown(c))
    BY <2>1, <2>2 DEF PostsAgain, Fires, remaining_cooldown, Remembered
  <2>5. now \in Nat /\ fired[n] \in Nat
    BY <2>4 DEF TypeOK, Opt
  <2>6. now - fired[n] >= cooldown(c)
    BY <2>3, <2>4, <2>5
  <2> QED
    BY <2>1, <2>6 DEF cooldown, c
<1> QED
  BY Always, <1>1, PTL DEF Spec, CooldownKept

-----------------------------------------------------------------------------
(* The latency monitor *)

LatencyTyped ==
  /\ ema \in Nat /\ unit \in Nat \ {0} /\ shown \in Nat /\ misses \in Nat
  /\ rounds \in Seq([sent : BOOLEAN, rtt : Nat \cup {NoPong}])

\* The misses are the PINGs without an answer, and three of them are too many.
MissesAreCounted ==
  /\ IsFiniteSet(Unanswered) /\ misses = Cardinality(Unanswered)
  /\ irc_connected = (misses < 3)

\* The average itself is within the bounds, before it is rounded.
AverageWithin ==
  \E low, high \in Bounds :
    /\ low * unit <= ema /\ ema <= high * unit
    /\ low <= shown /\ shown <= high

LInv == LatencyTyped /\ MissesAreCounted /\ AverageWithin

\* What a round adds to the unanswered PINGs and to the samples.
LEMMA RoundAdds ==
  ASSUME LatencyTyped, NEW out \in BOOLEAN, NEW rtt \in Nat \cup {NoPong}, Round(out, rtt)
  PROVE  /\ rounds' \in Seq([sent : BOOLEAN, rtt : Nat \cup {NoPong}])
         /\ rtt = NoPong => Samples' = Samples
         /\ rtt # NoPong => Samples' = Samples \cup {rtt}
         /\ rtt # NoPong => Unanswered' = {}
         /\ rtt = NoPong /\ ~out => Unanswered' = Unanswered
         /\ rtt = NoPong /\ out => /\ Unanswered' = Unanswered \cup {Len(rounds) + 1}
                                    /\ Len(rounds) + 1 \notin Unanswered
<1> DEFINE r == [sent |-> out, rtt |-> rtt]
           n == Len(rounds)
<1>1. rounds' = Append(rounds, r) /\ r \in [sent : BOOLEAN, rtt : Nat \cup {NoPong}]
      /\ r.sent = out /\ r.rtt = rtt
  BY DEF Round
<1>2. rounds \in Seq([sent : BOOLEAN, rtt : Nat \cup {NoPong}])
  BY DEF LatencyTyped
<1> HIDE DEF r
<1>3. /\ n \in Nat /\ Len(rounds') = n + 1 /\ rounds'[n + 1] = r
      /\ rounds' \in Seq([sent : BOOLEAN, rtt : Nat \cup {NoPong}])
      /\ DOMAIN rounds = 1 .. n /\ DOMAIN rounds' = 1 .. n + 1
      /\ \A i \in 1 .. n : rounds'[i] = rounds[i]
  BY <1>1, <1>2
<1> HIDE DEF n
<1>4. /\ \A i \in 1 .. n + 1 : i \in 1 .. n \/ i = n + 1
      /\ 1 .. n \subseteq 1 .. n + 1 /\ n + 1 \in 1 .. n + 1 /\ n + 1 \notin 1 .. n
      /\ \A i \in 1 .. n : i .. n \subseteq 1 .. n /\ i .. n + 1 = (i .. n) \cup {n + 1}
      /\ (n + 1) .. (n + 1) = {n + 1}
  BY <1>3
<1>5. /\ rtt = NoPong => Samples' = Samples
      /\ rtt # NoPong => Samples' = Samples \cup {rtt}
  BY <1>1, <1>3, <1>4 DEF Samples
<1>6. Len(rounds) = n
  BY DEF n
<1>7. ASSUME NEW i \in 1 .. n
      PROVE  i \in Unanswered' <=> i \in Unanswered /\ rtt = NoPong
  <2>1. i \in Unanswered' <=> rounds'[i].sent /\ \A j \in i .. n + 1 : rounds'[j].rtt = NoPong
    BY <1>3, <1>4 DEF Unanswered
  <2>2. i \in Unanswered <=> rounds[i].sent /\ \A j \in i .. n : rounds[j].rtt = NoPong
    BY <1>3, <1>6 DEF Unanswered
  <2>3. (\A j \in i .. n + 1 : rounds'[j].rtt = NoPong)
          <=> rtt = NoPong /\ \A j \in i .. n : rounds[j].rtt = NoPong
    BY <1>1, <1>3, <1>4
  <2> QED  BY <1>3, <2>1, <2>2, <2>3
<1>8. n + 1 \in Unanswered' <=> out /\ rtt = NoPong
  BY <1>1, <1>3, <1>4 DEF Unanswered
<1>9. Unanswered \subseteq 1 .. n /\ Unanswered' \subseteq 1 .. n + 1
  BY <1>3 DEF Unanswered
<1>10. Unanswered' = {i \in 1 .. n : i \in Unanswered /\ rtt = NoPong}
                        \cup {i \in {n + 1} : out /\ rtt = NoPong}
  BY <1>4, <1>7, <1>8, <1>9
<1> QED  BY <1>3, <1>4, <1>5, <1>6, <1>9, <1>10

LEMMA LatencyStarts == LatencyInit => LInv
<1> SUFFICES ASSUME LatencyInit
             PROVE  LInv
  OBVIOUS
<1>1. shown \in Expected /\ shown \in Nat /\ ema = shown /\ unit = 1
      /\ misses = 0 /\ irc_connected = TRUE /\ rounds = << >>
  BY LatencyAssumption DEF LatencyInit
<1>2. Unanswered = {}
  <2>1. DOMAIN << >> = {}
    OBVIOUS
  <2> QED  BY <1>1, <2>1 DEF Unanswered
<1>3. LatencyTyped
  BY <1>1 DEF LatencyTyped
<1>4. MissesAreCounted
  <2>1. (misses < 3) = TRUE
    BY <1>1
  <2> QED  BY <1>1, <1>2, <2>1, FS_EmptySet DEF MissesAreCounted
<1>5. AverageWithin
  <2>1. shown \in Bounds
    BY <1>1 DEF Bounds
  <2> QED  BY <1>1, <2>1 DEF AverageWithin
<1> QED  BY <1>3, <1>4, <1>5 DEF LInv

LEMMA Division ==
  ASSUME NEW x \in Nat, NEW w \in Nat \ {0}
  PROVE  x \div w \in Nat /\ (x \div w) * w <= x /\ x < (x \div w) * w + w
  OBVIOUS

\* One sample moves the average towards its half, and no further.
LEMMA Times ==
  ASSUME NEW a \in Nat, NEW b \in Nat, NEW u \in Nat, a <= b
  PROVE  a * u <= b * u /\ a * u \in Nat /\ b * u \in Nat
  OBVIOUS

LEMMA SmoothedBelow ==
  ASSUME NEW u \in Nat, NEW e \in Nat, NEW rtt \in Nat, NEW h \in Nat,
         e <= h * u, rtt <= 2 * h
  PROVE  u * rtt + 8 * e <= h * (10 * u)
<1>1. rtt * u <= (2 * h) * u
  <2>1. 2 * h \in Nat
    OBVIOUS
  <2> QED  BY <2>1, Times
<1>2. /\ rtt * u = u * rtt /\ (2 * h) * u = 2 * (h * u) /\ h * (10 * u) = 10 * (h * u)
      /\ h * u \in Nat /\ u * rtt \in Nat
  OBVIOUS
<1> QED  BY <1>1, <1>2

LEMMA SmoothedAbove ==
  ASSUME NEW u \in Nat, NEW e \in Nat, NEW rtt \in Nat, NEW l \in Nat,
         l * u <= e, 2 * l <= rtt
  PROVE  l * (10 * u) <= u * rtt + 8 * e
<1>1. (2 * l) * u <= rtt * u
  <2>1. 2 * l \in Nat
    OBVIOUS
  <2> QED  BY <2>1, Times
<1>2. /\ rtt * u = u * rtt /\ (2 * l) * u = 2 * (l * u) /\ l * (10 * u) = 10 * (l * u)
      /\ l * u \in Nat /\ u * rtt \in Nat
  OBVIOUS
<1> QED  BY <1>1, <1>2

\* Rounding stays within whole bounds.
LEMMA RoundedBetween ==
  ASSUME NEW u \in Nat \ {0}, NEW e \in Nat, NEW l \in Nat, NEW h \in Nat,
         l * u <= e, e <= h * u
  PROVE  l <= Rounded(e, u) /\ Rounded(e, u) <= h /\ Rounded(e, u) \in Nat
<1> DEFINE q == Rounded(e, u)
<1>1. /\ q \in Nat /\ q * (2 * u) <= 2 * e + u /\ 2 * e + u < q * (2 * u) + 2 * u
  <2>1. 2 * e + u \in Nat /\ 2 * u \in Nat \ {0}
    OBVIOUS
  <2> QED  BY <2>1, Division DEF Rounded
<1> HIDE DEF q
<1>2. /\ q * (2 * u) = 2 * (q * u) /\ q * u \in Nat /\ l * u \in Nat /\ h * u \in Nat
      /\ (h + 1) * u = h * u + u /\ (q + 1) * u = q * u + u
  BY <1>1
<1>3. l <= q
  <2>1. ~(q + 1 <= l)
    <3>1. SUFFICES ASSUME q + 1 <= l
                   PROVE  FALSE
      OBVIOUS
    <3>2. (q + 1) * u <= l * u
      BY <1>1, <3>1, Times
    <3> QED  BY <1>1, <1>2, <3>2
  <2> QED  BY <1>1, <2>1
<1>4. q <= h
  <2>1. ~(h + 1 <= q)
    <3>1. SUFFICES ASSUME h + 1 <= q
                   PROVE  FALSE
      OBVIOUS
    <3>2. (h + 1) * u <= q * u
      BY <1>1, <3>1, Times
    <3> QED  BY <1>1, <1>2, <3>2
  <2> QED  BY <1>1, <2>1
<1> QED  BY <1>1, <1>3, <1>4 DEF q

\* A round that brings no sample leaves the average alone.
LEMMA NoSampleKeeps ==
  ASSUME LInv, NEW out \in BOOLEAN, Round(out, NoPong),
         UNCHANGED <<ema, unit, shown>>, misses' \in Nat, MissesAreCounted'
  PROVE  LInv'
<1>1. LatencyTyped
  BY DEF LInv
<1>2. rounds' \in Seq([sent : BOOLEAN, rtt : Nat \cup {NoPong}]) /\ Samples' = Samples
  BY <1>1, RoundAdds
<1>3. LatencyTyped'
  BY <1>1, <1>2 DEF LatencyTyped
<1>4. AverageWithin'
  <2>1. Bounds' = Bounds
    BY <1>2 DEF Bounds
  <2> QED  BY <2>1 DEF LInv, AverageWithin
<1> QED  BY <1>3, <1>4 DEF LInv

LEMMA NotSentKeeps == LInv /\ NotSent => LInv'
<1> SUFFICES ASSUME LInv, NotSent
             PROVE  LInv'
  OBVIOUS
<1>1. Round(FALSE, NoPong) /\ UNCHANGED <<ema, unit, shown, misses, irc_connected>>
  BY DEF NotSent
<1>2. LatencyTyped
  BY DEF LInv
<1>3. Unanswered' = Unanswered
  BY <1>1, <1>2, RoundAdds
<1>4. MissesAreCounted' /\ misses' \in Nat
  BY <1>1, <1>2, <1>3 DEF LInv, MissesAreCounted, LatencyTyped
<1> QED  BY <1>1, <1>4, NoSampleKeeps

LEMMA TimedOutKeeps == LInv /\ TimedOut => LInv'
<1> SUFFICES ASSUME LInv, TimedOut
             PROVE  LInv'
  OBVIOUS
<1>1. /\ Round(TRUE, NoPong) /\ UNCHANGED <<ema, unit, shown>>
      /\ misses' = misses + 1
      /\ irc_connected' = IF misses' >= 3 THEN FALSE ELSE irc_connected
  BY DEF TimedOut, Missed
<1>2. LatencyTyped /\ misses \in Nat
  BY DEF LInv, LatencyTyped
<1>3. Unanswered' = Unanswered \cup {Len(rounds) + 1} /\ Len(rounds) + 1 \notin Unanswered
  BY <1>1, <1>2, RoundAdds
<1>4. IsFiniteSet(Unanswered) /\ misses = Cardinality(Unanswered) /\ irc_connected = (misses < 3)
  BY DEF LInv, MissesAreCounted
<1>5. IsFiniteSet(Unanswered') /\ misses' = Cardinality(Unanswered')
  BY <1>1, <1>3, <1>4, FS_AddElement
<1>6. irc_connected' = (misses' < 3)
  <2>1. CASE misses' >= 3
    <3>1. (misses' < 3) = FALSE
      BY <1>1, <1>2, <2>1
    <3> QED  BY <1>1, <2>1, <3>1
  <2>2. CASE ~(misses' >= 3)
    <3>1. (misses' < 3) = TRUE /\ (misses < 3) = TRUE
      BY <1>1, <1>2, <2>2
    <3> QED  BY <1>1, <1>4, <2>2, <3>1
  <2> QED  BY <2>1, <2>2
<1>7. MissesAreCounted'
  BY <1>5, <1>6 DEF MissesAreCounted
<1>8. misses' \in Nat
  BY <1>1, <1>2
<1> QED  BY <1>1, <1>7, <1>8, NoSampleKeeps

\* Half of a sample, between two whole numbers.
LEMMA Halves ==
  ASSUME NEW rtt \in Nat
  PROVE  /\ rtt \div 2 \in Nat /\ 2 * (rtt \div 2) <= rtt
         /\ (rtt + 1) \div 2 \in Nat /\ rtt <= 2 * ((rtt + 1) \div 2)
<1>1. rtt + 1 \in Nat /\ 2 \in Nat \ {0}
  OBVIOUS
<1>2. /\ rtt \div 2 \in Nat /\ (rtt \div 2) * 2 <= rtt
      /\ (rtt + 1) \div 2 \in Nat /\ rtt + 1 < ((rtt + 1) \div 2) * 2 + 2
  BY <1>1, Division
<1> QED  BY <1>2

LEMMA BoundsAreNat ==
  ASSUME LInv
  PROVE  Bounds \subseteq Nat
<1>1. Samples \subseteq Nat
  <2>1. rounds \in Seq([sent : BOOLEAN, rtt : Nat \cup {NoPong}])
    BY DEF LInv, LatencyTyped
  <2>2. \A i \in DOMAIN rounds : rounds[i] \in [sent : BOOLEAN, rtt : Nat \cup {NoPong}]
    <3> DEFINE R == [sent : BOOLEAN, rtt : Nat \cup {NoPong}]
    <3> HIDE DEF R
    <3>1. rounds \in Seq(R)
      BY <2>1 DEF R
    <3>2. \A i \in DOMAIN rounds : rounds[i] \in R
      BY <3>1
    <3> QED  BY <3>2 DEF R
  <2>3. \A i \in DOMAIN rounds : rounds[i].rtt \in Nat \cup {NoPong}
    BY <2>2
  <2> QED  BY <2>3 DEF Samples
<1> QED  BY <1>1, Halves, LatencyAssumption DEF Bounds

LEMMA PongKeeps ==
  ASSUME LInv, NEW rtt \in RoundTrips, Pong(rtt)
  PROVE  LInv'
<1>1. /\ Round(TRUE, rtt) /\ misses' = 0 /\ irc_connected' = TRUE
      /\ ema' = unit * rtt + 8 * ema /\ unit' = 10 * unit /\ shown' = Rounded(ema', unit')
  BY DEF Pong, Smoothed
<1>2. rtt \in Nat /\ rtt # NoPong
  BY LatencyAssumption DEF NoPong
<1>3. LatencyTyped /\ ema \in Nat /\ unit \in Nat \ {0}
  BY DEF LInv, LatencyTyped
<1>4. /\ rounds' \in Seq([sent : BOOLEAN, rtt : Nat \cup {NoPong}])
      /\ Samples' = Samples \cup {rtt} /\ Unanswered' = {}
  BY <1>1, <1>2, <1>3, RoundAdds
<1>5. MissesAreCounted'
  <2>1. (misses' < 3) = TRUE
    BY <1>1
  <2> QED  BY <1>1, <1>4, <2>1, FS_EmptySet DEF MissesAreCounted
<1>6. ema' \in Nat /\ unit' \in Nat \ {0}
  <2>1. unit * rtt \in Nat
    BY <1>2, <1>3
  <2> QED  BY <1>1, <1>3, <2>1
<1> DEFINE half == rtt \div 2
           more == (rtt + 1) \div 2
<1>7. half \in Nat /\ 2 * half <= rtt /\ more \in Nat /\ rtt <= 2 * more
  BY <1>2, Halves
<1>8. Bounds \cup {half, more} \subseteq Bounds'
  BY <1>4 DEF Bounds
<1>9. PICK low \in Bounds, high \in Bounds : low * unit <= ema /\ ema <= high * unit
  BY DEF LInv, AverageWithin
<1>10. low \in Nat /\ high \in Nat
  BY <1>9, BoundsAreNat
<1> HIDE DEF half, more
<1>11. PICK l \in {low, half} : l <= low /\ l <= half
  BY <1>7, <1>10
<1>12. PICK h \in {high, more} : high <= h /\ more <= h
  BY <1>7, <1>10
<1>13. l \in Nat /\ h \in Nat /\ 2 * l <= rtt /\ rtt <= 2 * h /\ l \in Bounds' /\ h \in Bounds'
  BY <1>2, <1>7, <1>8, <1>10, <1>11, <1>12
<1>14. l * unit <= ema /\ ema <= h * unit
  <2>1. l * unit <= low * unit /\ l * unit \in Nat /\ low * unit \in Nat
    BY <1>3, <1>10, <1>11, <1>13, Times
  <2>2. high * unit <= h * unit /\ high * unit \in Nat /\ h * unit \in Nat
    BY <1>3, <1>10, <1>12, <1>13, Times
  <2> QED  BY <1>3, <1>9, <2>1, <2>2
<1>15. l * unit' <= ema' /\ ema' <= h * unit'
  BY <1>1, <1>2, <1>3, <1>13, <1>14, SmoothedBelow, SmoothedAbove
<1>16. l <= shown' /\ shown' <= h /\ shown' \in Nat
  BY <1>1, <1>6, <1>13, <1>15, RoundedBetween
<1>17. AverageWithin'
  BY <1>13, <1>15, <1>16 DEF AverageWithin
<1>18. LatencyTyped'
  BY <1>1, <1>4, <1>6, <1>16 DEF LatencyTyped
<1> QED  BY <1>5, <1>17, <1>18 DEF LInv

LEMMA LatencyKeeps == LInv /\ [LatencyNext]_latencyVars => LInv'
<1> SUFFICES ASSUME LInv, [LatencyNext]_latencyVars
             PROVE  LInv'
  OBVIOUS
<1>1. CASE NotSent \/ TimedOut \/ \E rtt \in RoundTrips : Pong(rtt)
  BY <1>1, NotSentKeeps, TimedOutKeeps, PongKeeps
<1>2. CASE UNCHANGED <<ema, unit, shown, misses, irc_connected, rounds>>
  BY <1>2
  DEF LInv, LatencyTyped, MissesAreCounted, AverageWithin, Bounds, Samples, Unanswered
<1> QED  BY <1>1, <1>2 DEF LatencyNext, LineTurns, latencyVars

\* /healthz reports a dead line exactly after three unanswered PINGs without a
\* PONG between them, whichever PINGs could not be sent; and no sequence of
\* samples drives the latency out of the configured and the measured ones.
THEOREM HealthIsTrue == LatencySpec => []HealthTellsTheLine
<1>1. LatencyInit => LInv
  BY LatencyStarts
<1>2. LInv /\ [LatencyNext]_latencyVars => LInv'
  BY LatencyKeeps
<1>3. LInv => HealthTellsTheLine
  <2> SUFFICES ASSUME LInv
               PROVE  HealthTellsTheLine
    OBVIOUS
  <2>1. irc_connected = (Cardinality(Unanswered) < 3)
    BY DEF LInv, MissesAreCounted
  <2>2. \E low, high \in Bounds : low <= shown /\ shown <= high
    BY DEF LInv, AverageWithin
  <2> QED  BY <2>1, <2>2 DEF HealthTellsTheLine
<1> QED  BY <1>1, <1>2, <1>3, PTL DEF LatencySpec

-----------------------------------------------------------------------------
(* The 1337 game *)

Kinds == {"reminder", "stats"}
InSession == {"reminder", "remind", "monitor", "update", "stats"}

GameTyped ==
  /\ clock \in Nat /\ clock <= At(MaxDay, LastInstant)
  /\ wake \in Nat /\ latency \in {0, 1}
  /\ net \in Seq(Message) /\ users \in [Players -> (0 .. 3) \cup {Nobody}]
  /\ board \in Boards /\ ron \in Boards
  /\ posts \in [Kinds -> [0 .. MaxDay -> Nat]]

\* Nothing is posted before 13:36, and nothing twice.
PostsAreDue ==
  \A k \in Kinds, d \in 0 .. MaxDay :
    posts[k][d] <= 1 /\ (posts[k][d] > 0 => At(d, Start) <= clock)

\* The handler waits for a day without posts.
WaitsForADay ==
  pc = "start" =>
    /\ clock <= wake
    /\ \E d \in Nat : /\ wake = At(d, Start)
                      /\ \A k \in Kinds : d <= MaxDay => posts[k][d] = 0

\* A session ends on the day that it began, which has no result yet.
SessionOf(d) ==
  /\ At(d, Start) <= clock /\ clock <= At(d, LastInstant) /\ posts["stats"][d] = 0
  /\ pc = "reminder" => clock <= wake /\ wake <= At(d, Remind) /\ posts["reminder"][d] = 0
  /\ pc = "monitor" => wake <= At(d, Stats)
SessionIsToday == pc \in InSession => \E d \in 0 .. MaxDay : SessionOf(d)

\* The result is that of the users and of the leaderboard it will update.
ResultIsOfTheUsers ==
  pc = "update" =>
    IF Fastest = {} THEN result = Nobody
    ELSE \E u \in Fastest :
           result = [user |-> u, achievement |-> classify_achievement(u, users[u], board)]

GInv == GameTyped /\ PostsAreDue /\ WaitsForADay /\ SessionIsToday /\ ResultIsOfTheUsers

\* The calendar.
LEMMA DayOf ==
  ASSUME NEW d \in Nat, NEW t \in Nat, At(d, 0) <= t, t <= At(d, LastInstant)
  PROVE  Day(t) = d /\ Instant(t) = t - At(d, 0)
  BY DEF At, Day, Instant, DayLength, LastInstant

LEMMA DayTyped ==
  ASSUME NEW t \in Nat
  PROVE  /\ Day(t) \in Nat /\ Instant(t) \in 0 .. LastInstant
         /\ t = At(Day(t), Instant(t))
  BY DEF At, Day, Instant, DayLength, LastInstant

LEMMA GameStarts == GameInit => GInv
<1> SUFFICES ASSUME GameInit
             PROVE  GInv
  OBVIOUS
<1>1. /\ clock \in 0 .. LastInstant /\ pc = "wait" /\ wake = 0 /\ latency \in Latencies
      /\ net = << >> /\ users = NoUsers /\ board = NoUsers /\ ron = NoUsers
      /\ posts = [k \in Kinds |-> [d \in 0 .. MaxDay |-> 0]]
  BY DEF GameInit, Kinds
<1>2. GameTyped
  <2>1. clock \in Nat /\ clock <= At(MaxDay, LastInstant)
    BY <1>1, GameAssumption DEF At, LastInstant, DayLength
  <2>2. NoUsers \in Boards /\ NoUsers \in [Players -> (0 .. 3) \cup {Nobody}]
    BY DEF NoUsers, Boards
  <2> QED  BY <1>1, <2>1, <2>2, GameAssumption DEF GameTyped
<1>3. PostsAreDue /\ WaitsForADay /\ SessionIsToday /\ ResultIsOfTheUsers
  BY <1>1 DEF PostsAreDue, WaitsForADay, SessionIsToday, InSession, ResultIsOfTheUsers
<1> QED  BY <1>2, <1>3 DEF GInv

\* The chat and the monitor: neither the clock nor the handler moves.
LEMMA ChatKeepsGame ==
  ASSUME GInv, Monitor \/ Lagged \/ \E u \in Players : Chat(u)
  PROVE  GInv'
<1>1. UNCHANGED <<clock, pc, wake, latency, result, board, ron, posts>>
  BY DEF Monitor, Lagged, Chat
<1>2. net \in Seq(Message) /\ users \in [Players -> (0 .. 3) \cup {Nobody}] /\ clock \in Nat
  BY DEF GInv, GameTyped
<1>3. net' \in Seq(Message) /\ users' \in [Players -> (0 .. 3) \cup {Nobody}]
      /\ (pc = "update" => users' = users)
  <2>1. CASE \E u \in Players : Chat(u)
    <3>1. PICK u \in Players : Chat(u)
      BY <2>1
    <3>2. PICK ms \in Millis(Instant(clock)) :
            net' = IF Monitoring THEN Append(net, [user |-> u, at |-> clock, ms |-> ms]) ELSE net
      BY <3>1 DEF Chat
    <3>3. [user |-> u, at |-> clock, ms |-> ms] \in Message
      BY <1>2, <3>2 DEF Message, Millis
    <3>4. Append(net, [user |-> u, at |-> clock, ms |-> ms]) \in Seq(Message)
      BY <1>2, <3>3
    <3>5. users' = users
      BY <3>1 DEF Chat
    <3> QED  BY <1>2, <3>2, <3>4, <3>5
  <2>2. CASE Lagged
    BY <1>2, <2>2 DEF Lagged
  <2>3. CASE Monitor
    <3> DEFINE m == Head(net)
    <3>1. net # << >> /\ net' = Tail(net) /\ users' \in {[users EXCEPT ![m.user] = m.ms], users}
          /\ pc # "update"
      BY <2>3 DEF Monitor, Monitoring
    <3>2. m \in Message /\ net' \in Seq(Message)
      BY <1>2, <3>1
    <3> HIDE DEF m
    <3>3. m.user \in Players /\ m.ms \in 0 .. 3
      BY <3>2 DEF Message
    <3> QED  BY <1>2, <3>1, <3>2, <3>3
  <2> QED  BY <2>1, <2>2, <2>3
<1>4. GameTyped'
  BY <1>1, <1>3 DEF GInv, GameTyped
<1>5. PostsAreDue' /\ WaitsForADay' /\ SessionIsToday'
  BY <1>1 DEF GInv, PostsAreDue, WaitsForADay, SessionIsToday, SessionOf
<1>6. ResultIsOfTheUsers'
  BY <1>1, <1>3 DEF GInv, ResultIsOfTheUsers, Fastest, SubSecondUsers, Counted
<1> QED  BY <1>4, <1>5, <1>6 DEF GInv

LEMMA WaitKeeps == GInv /\ WaitUntilSchedule => GInv'
<1> SUFFICES ASSUME GInv, WaitUntilSchedule
             PROVE  GInv'
  OBVIOUS
<1>1. /\ pc' = "start" /\ wake' = calculate_next_occurrence(clock, Start)
      /\ UNCHANGED <<clock, latency, net, users, board, ron, posts>>
  BY DEF WaitUntilSchedule
<1>2. clock \in Nat /\ posts \in [Kinds -> [0 .. MaxDay -> Nat]]
  BY DEF GInv, GameTyped
<1>3. PICK d \in Nat : wake' = At(d, Start) /\ clock < At(d, Start)
  <2>1. /\ Day(clock) \in Nat /\ Instant(clock) \in 0 .. LastInstant
        /\ clock = At(Day(clock), Instant(clock))
    BY <1>2, DayTyped
  <2>2. CASE At(Day(clock), Start) <= clock
    <3>1. clock < At(Day(clock) + 1, Start) /\ Day(clock) + 1 \in Nat
      BY <1>2, <2>1 DEF At, DayLength, LastInstant, Start
    <3> QED  BY <1>1, <2>2, <3>1 DEF calculate_next_occurrence
  <2>3. CASE ~(At(Day(clock), Start) <= clock)
    <3>1. clock < At(Day(clock), Start)
      BY <1>2, <2>1, <2>3 DEF At, DayLength, LastInstant, Start
    <3> QED  BY <1>1, <2>1, <2>3, <3>1 DEF calculate_next_occurrence
  <2> QED  BY <2>2, <2>3
<1>4. At(d, Start) \in Nat
  BY DEF At, DayLength, LastInstant, Start
<1>5. \A k \in Kinds : d <= MaxDay => posts[k][d] = 0
  <2> SUFFICES ASSUME NEW k \in Kinds, d <= MaxDay
               PROVE  posts[k][d] = 0
    OBVIOUS
  <2>1. d \in 0 .. MaxDay /\ posts[k][d] \in Nat
    BY <1>2, GameAssumption
  <2>2. posts[k][d] > 0 => At(d, Start) <= clock
    BY <2>1 DEF GInv, PostsAreDue
  <2> QED  BY <1>2, <1>3, <1>4, <2>1, <2>2
<1>6. GameTyped'
  BY <1>1, <1>3, <1>4 DEF GInv, GameTyped
<1>7. WaitsForADay'
  BY <1>1, <1>2, <1>3, <1>4, <1>5 DEF WaitsForADay
<1>8. PostsAreDue' /\ SessionIsToday' /\ ResultIsOfTheUsers'
  BY <1>1 DEF GInv, PostsAreDue, SessionIsToday, InSession, ResultIsOfTheUsers
<1> QED  BY <1>6, <1>7, <1>8 DEF GInv

\* The clock of a session tells its day.
LEMMA SessionDay ==
  ASSUME GInv, pc \in InSession
  PROVE  \E d \in 0 .. MaxDay : SessionOf(d) /\ Day(clock) = d /\ Instant(clock) = clock - At(d, 0)
<1>1. PICK d \in 0 .. MaxDay : SessionOf(d)
  BY DEF GInv, SessionIsToday
<1>2. d \in Nat /\ clock \in Nat /\ At(d, Start) <= clock /\ clock <= At(d, LastInstant)
  BY <1>1, GameAssumption DEF SessionOf, GInv, GameTyped
<1>3. At(d, 0) <= clock
  BY <1>2 DEF At, DayLength, LastInstant, Start
<1> QED  BY <1>1, <1>2, <1>3, DayOf

LEMMA StartKeeps == GInv /\ StartSession => GInv'
<1> SUFFICES ASSUME GInv, StartSession
             PROVE  GInv'
  OBVIOUS
<1>1. /\ pc = "start" /\ clock >= wake /\ pc' = "reminder" /\ wake' = HmsTarget(Remind)
      /\ users' = NoUsers /\ net' = << >>
      /\ UNCHANGED <<clock, latency, board, ron, posts>>
  BY DEF StartSession
<1>2. /\ clock \in Nat /\ clock <= At(MaxDay, LastInstant) /\ wake \in Nat /\ latency \in {0, 1}
  BY DEF GInv, GameTyped
<1>3. PICK d \in Nat : wake = At(d, Start) /\ \A k \in Kinds : d <= MaxDay => posts[k][d] = 0
  BY <1>1 DEF GInv, WaitsForADay
<1>4. clock = At(d, Start)
  BY <1>1, <1>2, <1>3 DEF GInv, WaitsForADay
<1>5. d \in 0 .. MaxDay
  BY <1>2, <1>4, GameAssumption DEF At, DayLength, LastInstant, Start
<1>6. At(d, 0) <= clock /\ clock <= At(d, LastInstant)
  BY <1>4 DEF At, DayLength, LastInstant, Start
<1>7. wake' = At(d, Remind) - latency
  BY <1>1, <1>2, <1>6, DayOf DEF HmsTarget
<1>8. wake' \in Nat /\ clock <= wake' /\ wake' <= At(d, Remind)
  BY <1>2, <1>4, <1>7 DEF At, DayLength, LastInstant, Start, Remind
<1>9. GameTyped'
  <2>1. NoUsers \in [Players -> (0 .. 3) \cup {Nobody}]
    BY DEF NoUsers
  <2> QED  BY <1>1, <1>8, <2>1 DEF GInv, GameTyped
<1>10. SessionOf(d)'
  <2>1. At(d, Start) <= clock
    BY <1>2, <1>4
  <2> QED  BY <1>1, <1>3, <1>5, <1>6, <1>8, <2>1 DEF SessionOf, Kinds
<1>11. SessionIsToday'
  BY <1>5, <1>10 DEF SessionIsToday
<1>12. PostsAreDue' /\ WaitsForADay' /\ ResultIsOfTheUsers'
  BY <1>1 DEF GInv, PostsAreDue, WaitsForADay, ResultIsOfTheUsers
<1> QED  BY <1>9, <1>11, <1>12 DEF GInv

\* One post more, on a day that has none of its kind.
LEMMA PostOnce ==
  ASSUME GInv, NEW k \in Kinds, NEW d \in 0 .. MaxDay, Day(clock) = d, At(d, Start) <= clock,
         posts[k][d] = 0, Posted(k), UNCHANGED clock
  PROVE  /\ PostsAreDue' /\ posts' \in [Kinds -> [0 .. MaxDay -> Nat]]
         /\ \A j \in Kinds : j # k => posts'[j] = posts[j]
<1> DEFINE row == [posts[k] EXCEPT ![d] = 1]
<1>1. posts \in [Kinds -> [0 .. MaxDay -> Nat]] /\ posts' = [posts EXCEPT ![k] = row]
  <2>1. posts' = [posts EXCEPT ![k] = [posts[k] EXCEPT ![d] = posts[k][d] + 1]]
    BY DEF Posted
  <2>2. posts[k][d] + 1 = 1
    OBVIOUS
  <2> QED  BY <2>1, <2>2 DEF GInv, GameTyped
<1>2. /\ row \in [0 .. MaxDay -> Nat] /\ row[d] = 1
      /\ \A e \in 0 .. MaxDay : e # d => row[e] = posts[k][e]
  <2>1. posts[k] \in [0 .. MaxDay -> Nat]
    BY <1>1
  <2> QED  BY <2>1
<1> HIDE DEF row
<1>3. posts' \in [Kinds -> [0 .. MaxDay -> Nat]] /\ posts'[k] = row
      /\ \A j \in Kinds : j # k => posts'[j] = posts[j]
  BY <1>1, <1>2
<1>4. PostsAreDue'
  <2> SUFFICES ASSUME NEW j \in Kinds, NEW e \in 0 .. MaxDay
               PROVE  posts'[j][e] <= 1 /\ (posts'[j][e] > 0 => At(e, Start) <= clock)
    BY DEF PostsAreDue
  <2>1. posts[j][e] <= 1 /\ (posts[j][e] > 0 => At(e, Start) <= clock)
    BY DEF GInv, PostsAreDue
  <2>2. CASE j = k /\ e = d
    BY <1>2, <1>3, <2>2
  <2>3. CASE ~(j = k /\ e = d)
    BY <1>2, <1>3, <2>1, <2>3
  <2> QED  BY <2>2, <2>3
<1> QED  BY <1>3, <1>4

LEMMA ReminderKeeps == GInv /\ PostReminder => GInv'
<1> SUFFICES ASSUME GInv, PostReminder
             PROVE  GInv'
  OBVIOUS
<1>1. /\ pc = "reminder" /\ pc' = "remind" /\ Posted("reminder")
      /\ UNCHANGED <<clock, wake, latency, net, users, result, board, ron>>
  BY DEF PostReminder
<1>2. PICK d \in 0 .. MaxDay : SessionOf(d) /\ Day(clock) = d
  BY <1>1, SessionDay DEF InSession
<1>3. /\ At(d, Start) <= clock /\ clock <= At(d, LastInstant)
      /\ posts["stats"][d] = 0 /\ posts["reminder"][d] = 0
  BY <1>1, <1>2 DEF SessionOf
<1>4. PostsAreDue' /\ posts' \in [Kinds -> [0 .. MaxDay -> Nat]] /\ posts'["stats"] = posts["stats"]
  BY <1>1, <1>2, <1>3, PostOnce DEF Kinds
<1>5. GameTyped'
  BY <1>1, <1>4 DEF GInv, GameTyped
<1>6. SessionOf(d)'
  BY <1>1, <1>3, <1>4 DEF SessionOf
<1>7. WaitsForADay' /\ SessionIsToday' /\ ResultIsOfTheUsers'
  BY <1>1, <1>6 DEF WaitsForADay, SessionIsToday, ResultIsOfTheUsers
<1> QED  BY <1>4, <1>5, <1>7 DEF GInv

LEMMA RemindedKeeps == GInv /\ Reminded => GInv'
<1> SUFFICES ASSUME GInv, Reminded
             PROVE  GInv'
  OBVIOUS
<1>1. /\ pc = "remind" /\ pc' = "monitor" /\ wake' = HmsTarget(Stats)
      /\ UNCHANGED <<clock, latency, net, users, result, board, ron, posts>>
  BY DEF Reminded
<1>2. PICK d \in 0 .. MaxDay : SessionOf(d) /\ Day(clock) = d
  BY <1>1, SessionDay DEF InSession
<1>3. latency \in {0, 1} /\ d \in Nat
  BY GameAssumption DEF GInv, GameTyped
<1>4. wake' = At(d, Stats) - latency
  BY <1>1, <1>2 DEF HmsTarget
<1>5. wake' \in Nat /\ wake' <= At(d, Stats)
  BY <1>3, <1>4 DEF At, DayLength, LastInstant, Stats
<1>6. GameTyped'
  BY <1>1, <1>5 DEF GInv, GameTyped
<1>7. SessionOf(d)'
  BY <1>1, <1>2, <1>5 DEF SessionOf
<1>8. PostsAreDue' /\ WaitsForADay' /\ SessionIsToday' /\ ResultIsOfTheUsers'
  BY <1>1, <1>7 DEF GInv, PostsAreDue, WaitsForADay, SessionIsToday, ResultIsOfTheUsers
<1> QED  BY <1>6, <1>8 DEF GInv

LEMMA ReportKeeps == GInv /\ Report => GInv'
<1> SUFFICES ASSUME GInv, Report
             PROVE  GInv'
  OBVIOUS
<1>1. /\ pc = "monitor" /\ pc' = "update" /\ net' = << >>
      /\ UNCHANGED <<clock, wake, latency, users, board, ron, posts>>
  BY DEF Report
<1>2. PICK d \in 0 .. MaxDay : SessionOf(d)
  BY <1>1 DEF GInv, SessionIsToday, InSession
<1>3. GameTyped'
  BY <1>1 DEF GInv, GameTyped
<1>4. SessionOf(d)'
  BY <1>1, <1>2 DEF SessionOf
<1>5. PostsAreDue' /\ WaitsForADay' /\ SessionIsToday'
  BY <1>1, <1>4 DEF GInv, PostsAreDue, WaitsForADay, SessionIsToday
<1>6. ResultIsOfTheUsers'
  <2>1. Fastest' = Fastest
    BY <1>1 DEF Fastest, SubSecondUsers, Counted
  <2>2. CASE Fastest = {}
    BY <2>1, <2>2 DEF Report, ResultIsOfTheUsers
  <2>3. CASE Fastest # {}
    <3>1. PICK u \in Fastest :
            result' = [user |-> u, achievement |-> classify_achievement(u, users[u], board)]
      BY <2>3 DEF Report
    <3> QED  BY <1>1, <2>1, <2>3, <3>1 DEF ResultIsOfTheUsers
  <2> QED  BY <2>2, <2>3
<1> QED  BY <1>3, <1>5, <1>6 DEF GInv

LEMMA UpdateKeeps == GInv /\ UpdateLeaderboard => GInv'
<1> SUFFICES ASSUME GInv, UpdateLeaderboard
             PROVE  GInv'
  OBVIOUS
<1>1. /\ pc = "update" /\ pc' = "stats" /\ board' = Updated /\ ron' \in {ron, board'}
      /\ UNCHANGED <<clock, wake, latency, net, users, result, posts>>
  BY DEF UpdateLeaderboard
<1>2. PICK d \in 0 .. MaxDay : SessionOf(d)
  BY <1>1 DEF GInv, SessionIsToday, InSession
<1>3. Updated \in Boards
  BY DEF Updated, Boards, SubSecondUsers, GInv, GameTyped
<1>4. GameTyped'
  BY <1>1, <1>3 DEF GInv, GameTyped
<1>5. SessionOf(d)'
  BY <1>1, <1>2 DEF SessionOf
<1>6. PostsAreDue' /\ WaitsForADay' /\ SessionIsToday' /\ ResultIsOfTheUsers'
  BY <1>1, <1>5 DEF GInv, PostsAreDue, WaitsForADay, SessionIsToday, ResultIsOfTheUsers
<1> QED  BY <1>4, <1>6 DEF GInv

LEMMA StatsKeeps == GInv /\ PostStats => GInv'
<1> SUFFICES ASSUME GInv, PostStats
             PROVE  GInv'
  OBVIOUS
<1>1. /\ pc = "stats" /\ pc' = "say" /\ Posted("stats")
      /\ UNCHANGED <<clock, wake, latency, net, users, result, board, ron>>
  BY DEF PostStats
<1>2. PICK d \in 0 .. MaxDay : SessionOf(d) /\ Day(clock) = d
  BY <1>1, SessionDay DEF InSession
<1>3. At(d, Start) <= clock /\ posts["stats"][d] = 0
  BY <1>2 DEF SessionOf
<1>4. PostsAreDue' /\ posts' \in [Kinds -> [0 .. MaxDay -> Nat]]
  BY <1>1, <1>2, <1>3, PostOnce DEF Kinds
<1>5. GameTyped'
  BY <1>1, <1>4 DEF GInv, GameTyped
<1>6. WaitsForADay' /\ SessionIsToday' /\ ResultIsOfTheUsers'
  BY <1>1 DEF WaitsForADay, SessionIsToday, InSession, ResultIsOfTheUsers
<1> QED  BY <1>4, <1>5, <1>6 DEF GInv

LEMMA StatsPostedKeeps == GInv /\ (StatsPosted \/ GameCrash) => GInv'
<1> SUFFICES ASSUME GInv, StatsPosted \/ GameCrash
             PROVE  GInv'
  OBVIOUS
<1>1. /\ pc' = "wait" /\ UNCHANGED <<clock, latency, ron, posts>>
      /\ wake' \in {wake, 0} /\ net' \in {net, << >>} /\ users' \in {users, NoUsers}
      /\ board' \in {board, ron}
  BY DEF StatsPosted, GameCrash
<1>2. GameTyped'
  <2>1. NoUsers \in [Players -> (0 .. 3) \cup {Nobody}]
    BY DEF NoUsers
  <2>2. << >> \in Seq(Message)
    OBVIOUS
  <2>3. wake' \in Nat /\ board' \in Boards
    BY <1>1 DEF GInv, GameTyped
  <2>4. net' \in Seq(Message)
    BY <1>1, <2>2 DEF GInv, GameTyped
  <2>5. users' \in [Players -> (0 .. 3) \cup {Nobody}]
    BY <1>1, <2>1 DEF GInv, GameTyped
  <2> QED  BY <1>1, <2>3, <2>4, <2>5 DEF GInv, GameTyped
<1>3. PostsAreDue' /\ WaitsForADay' /\ SessionIsToday' /\ ResultIsOfTheUsers'
  BY <1>1 DEF GInv, PostsAreDue, WaitsForADay, SessionIsToday, InSession, ResultIsOfTheUsers
<1> QED  BY <1>2, <1>3 DEF GInv

LEMMA TickKeeps == GInv /\ GameTick => GInv'
<1> SUFFICES ASSUME GInv, GameTick
             PROVE  GInv'
  OBVIOUS
<1>1. /\ ~Due /\ clock < At(MaxDay, LastInstant) /\ clock' = clock + 1
      /\ UNCHANGED <<pc, wake, latency, net, users, result, board, ron, posts>>
  BY DEF GameTick
<1>2. /\ clock \in Nat /\ wake \in Nat /\ At(MaxDay, LastInstant) \in Nat
      /\ posts \in [Kinds -> [0 .. MaxDay -> Nat]]
  BY GameAssumption DEF GInv, GameTyped, At, DayLength, LastInstant
<1>3. GameTyped'
  BY <1>1, <1>2 DEF GInv, GameTyped
<1>4. PostsAreDue'
  <2> SUFFICES ASSUME NEW k \in Kinds, NEW d \in 0 .. MaxDay
               PROVE  posts[k][d] <= 1 /\ (posts[k][d] > 0 => At(d, Start) <= clock')
    BY <1>1 DEF PostsAreDue
  <2>1. posts[k][d] <= 1 /\ (posts[k][d] > 0 => At(d, Start) <= clock) /\ posts[k][d] \in Nat
    BY <1>2 DEF GInv, PostsAreDue
  <2>2. At(d, Start) \in Nat
    BY GameAssumption DEF At, DayLength, LastInstant, Start
  <2> QED  BY <1>1, <1>2, <2>1, <2>2
<1>5. WaitsForADay'
  <2>1. pc = "start" => clock < wake
    BY <1>1, <1>2 DEF Due
  <2> QED  BY <1>1, <1>2, <2>1 DEF GInv, WaitsForADay
<1>6. SessionIsToday'
  <2> SUFFICES ASSUME pc \in InSession
               PROVE  \E d \in 0 .. MaxDay : SessionOf(d)'
    BY <1>1 DEF SessionIsToday
  <2>1. PICK d \in 0 .. MaxDay : SessionOf(d) /\ Instant(clock) = clock - At(d, 0)
    BY SessionDay
  <2>2. At(d, Start) <= clock /\ clock <= At(d, LastInstant) /\ d \in Nat
    BY <2>1, GameAssumption DEF SessionOf
  <2>3. At(d, Start) <= clock' /\ clock' <= At(d, LastInstant)
    <3>1. pc \in {"reminder", "remind", "monitor"}
      BY <1>1 DEF Due, InSession
    <3>2. CASE pc = "reminder"
      <4>1. clock < wake /\ wake <= At(d, Remind)
        BY <1>1, <1>2, <2>1, <3>2 DEF Due, SessionOf
      <4> QED  BY <1>1, <1>2, <2>2, <4>1 DEF At, DayLength, LastInstant, Start, Remind
    <3>3. CASE pc = "remind"
      <4>1. Instant(clock) # LastInstant
        BY <1>1, <3>3 DEF Due
      <4> QED  BY <1>1, <1>2, <2>1, <2>2, <4>1 DEF At, DayLength, LastInstant, Start
    <3>4. CASE pc = "monitor"
      <4>1. clock < wake /\ wake <= At(d, Stats)
        BY <1>1, <1>2, <2>1, <3>4 DEF Due, SessionOf
      <4> QED  BY <1>1, <1>2, <2>2, <4>1 DEF At, DayLength, LastInstant, Start, Stats
    <3> QED  BY <3>1, <3>2, <3>3, <3>4
  <2>4. pc = "reminder" => clock' <= wake
    BY <1>1, <1>2 DEF Due
  <2> QED  BY <1>1, <2>1, <2>3, <2>4 DEF SessionOf
<1>7. ResultIsOfTheUsers'
  BY <1>1 DEF Due, ResultIsOfTheUsers
<1> QED  BY <1>3, <1>4, <1>5, <1>6, <1>7 DEF GInv

LEMMA GameKeeps == GInv /\ [GameNext]_gameVars => GInv'
<1> SUFFICES ASSUME GInv, [GameNext]_gameVars
             PROVE  GInv'
  OBVIOUS
<1>1. CASE MeasureLatency \/ UNCHANGED gameVars
  <2>1. /\ UNCHANGED <<clock, pc, wake, net, users, result, board, ron, posts>>
        /\ latency' \in {0, 1}
    BY <1>1, GameAssumption DEF MeasureLatency, gameVars, GInv, GameTyped
  <2>2. GameTyped'
    BY <2>1 DEF GInv, GameTyped
  <2>3. PostsAreDue' /\ WaitsForADay' /\ SessionIsToday'
    BY <2>1 DEF GInv, PostsAreDue, WaitsForADay, SessionIsToday, SessionOf
  <2>4. ResultIsOfTheUsers'
    BY <2>1 DEF GInv, ResultIsOfTheUsers, Fastest, SubSecondUsers, Counted
  <2> QED  BY <2>2, <2>3, <2>4 DEF GInv
<1> QED
  BY <1>1, ChatKeepsGame, WaitKeeps, StartKeeps, ReminderKeeps, RemindedKeeps, ReportKeeps,
     UpdateKeeps, StatsKeeps, StatsPostedKeeps, TickKeeps
  DEF GameNext, Handler

LEMMA GameAlways == GameSpec => []GInv
  BY GameStarts, GameKeeps, PTL DEF GameSpec

\* No day gets two reminders or two results, however early the latency lets the
\* handler wake and wherever in a session the process is restarted.
THEOREM PostsOncePerDay == GameSpec => []OncePerDay
<1>1. GInv => OncePerDay
  <2> SUFFICES ASSUME GInv
               PROVE  OncePerDay
    OBVIOUS
  <2>1. DOMAIN posts = Kinds
    BY DEF GInv, GameTyped
  <2> QED  BY <2>1 DEF GInv, PostsAreDue, OncePerDay
<1> QED  BY <1>1, GameAlways, PTL

\* The best time of a leaderboard.
LEMMA RecordIs ==
  ASSUME NEW b \in Boards
  PROVE  Record(b) = IF \E u \in Players : b[u] = 0 THEN 0
                     ELSE IF \E u \in Players : b[u] = 1 THEN 1 ELSE Nobody
<1> DEFINE times == {b[u] : u \in Counted(b)}
<1>1. Nobody \notin {0, 1} /\ b \in [Players -> {0, 1, Nobody}]
  BY GameAssumption DEF Boards, SubSecond
<1>2. times = {t \in {0, 1} : \E u \in Players : b[u] = t}
  BY <1>1 DEF Counted
<1>3. Record(b) = IF times = {} THEN Nobody ELSE Min(times)
  BY DEF Record
<1> HIDE DEF times
<1>4. CASE \E u \in Players : b[u] = 0
  <2>1. 0 \in times /\ times \subseteq {0, 1}
    BY <1>2, <1>4
  <2>2. Min(times) = 0
    <3>1. \A y \in times : 0 <= y
      BY <2>1
    <3>2. \A x \in times : (\A y \in times : x =< y) => x = 0
      BY <2>1
    <3>3. Min(times) = CHOOSE x \in times : \A y \in times : x =< y
      BY DEF Min
    <3> QED  BY <2>1, <3>1, <3>2, <3>3
  <2> QED  BY <1>3, <1>4, <2>1, <2>2
<1>5. CASE ~(\E u \in Players : b[u] = 0) /\ \E u \in Players : b[u] = 1
  <2>1. times = {1}
    BY <1>2, <1>5
  <2>2. Min({1}) = 1
    <3>1. \A x \in {1} : x = 1 /\ \A y \in {1} : x =< y
      OBVIOUS
    <3> QED  BY <3>1 DEF Min
  <2> QED  BY <1>3, <1>5, <2>1, <2>2
<1>6. CASE ~(\E u \in Players : b[u] = 0) /\ ~(\E u \in Players : b[u] = 1)
  <2>1. times = {}
    BY <1>2, <1>6
  <2> QED  BY <1>3, <1>6, <2>1
<1> QED  BY <1>4, <1>5, <1>6

\* Somebody below one second means that somebody is the fastest.
LEMMA FastestExists ==
  ASSUME GInv, Fastest = {}
  PROVE  SubSecondUsers = {}
<1> SUFFICES ASSUME NEW v \in SubSecondUsers
             PROVE  FALSE
  OBVIOUS
<1>1. \A u \in SubSecondUsers : users[u] \in {0, 1}
  BY DEF SubSecondUsers, SubSecond
<1>2. CASE \E u \in SubSecondUsers : users[u] = 0
  BY <1>1, <1>2 DEF Fastest
<1>3. CASE ~\E u \in SubSecondUsers : users[u] = 0
  BY <1>1, <1>3 DEF Fastest
<1> QED  BY <1>2, <1>3

Truth(b) ==
  /\ (result # Nobody /\ result.achievement = "record") <=> Record(b) # Record(board)
  /\ result # Nobody => (result.achievement # "none" <=> b[result.user] # board[result.user])

LEMMA UpdateIsAnnounced ==
  ASSUME GInv, pc = "update"
  PROVE  Truth(Updated)
<1>1. /\ board \in Boards /\ board \in [Players -> {0, 1, Nobody}] /\ Nobody \notin {0, 1}
      /\ \A u \in SubSecondUsers : u \in Players /\ users[u] \in {0, 1}
  BY GameAssumption DEF GInv, GameTyped, Boards, SubSecond, SubSecondUsers, Counted
<1>2. /\ Updated \in Boards
      /\ \A u \in Players : Updated[u] = IF u \in SubSecondUsers /\ Beats(users[u], board[u])
                                         THEN users[u] ELSE board[u]
  BY <1>1 DEF Updated, Boards, SubSecond
<1>3. CASE Fastest = {}
  <2>1. result = Nobody
    BY <1>3 DEF GInv, ResultIsOfTheUsers
  <2>2. \A u \in Players : Updated[u] = board[u]
    BY <1>2, <1>3, FastestExists
  <2>3. Record(Updated) = Record(board)
    BY <1>1, <1>2, <2>2, RecordIs
  <2> QED  BY <2>1, <2>3 DEF Truth
<1>4. CASE Fastest # {}
  <2>1. PICK u \in Fastest :
          result = [user |-> u, achievement |-> classify_achievement(u, users[u], board)]
    BY <1>4 DEF GInv, ResultIsOfTheUsers
  <2> DEFINE ms == users[u]
             old == Record(board)
             new == Record(Updated)
  <2>2. /\ u \in SubSecondUsers /\ u \in Players /\ ms \in {0, 1}
        /\ \A v \in SubSecondUsers : users[v] \in {0, 1} /\ ms <= users[v]
    BY <1>1 DEF Fastest
  <2>3. result # Nobody /\ result.user = u /\ result.achievement = classify_achievement(u, ms, board)
    <3>1. classify_achievement(u, ms, board) \in {"record", "pb", "none"}
      BY DEF classify_achievement
    <3> QED  BY <2>1, <2>2, <3>1, GameAssumption
  <2>4. /\ old = IF \E v \in Players : board[v] = 0 THEN 0
                 ELSE IF \E v \in Players : board[v] = 1 THEN 1 ELSE Nobody
        /\ new = IF \E v \in Players : Updated[v] = 0 THEN 0
                 ELSE IF \E v \in Players : Updated[v] = 1 THEN 1 ELSE Nobody
    BY <1>1, <1>2, RecordIs
  <2> HIDE DEF ms, old, new
  <2>5. Updated[u] = IF Beats(ms, board[u]) THEN ms ELSE board[u]
    BY <1>2, <2>2 DEF ms
  <2>6. Beats(ms, old) => Beats(ms, board[u]) /\ new # old
    <3> SUFFICES ASSUME Beats(ms, old)
                 PROVE  Beats(ms, board[u]) /\ new # old
      OBVIOUS
    <3>1. Beats(ms, board[u])
      BY <1>1, <2>2, <2>4 DEF Beats
    <3>2. Updated[u] = ms
      BY <2>5, <3>1
    <3>3. CASE ms = 0
      <4>1. new = 0
        BY <2>2, <2>4, <3>2, <3>3
      <4>2. old # 0
        BY <1>1, <2>4, <3>3 DEF Beats
      <4> QED  BY <3>1, <4>1, <4>2
    <3>4. CASE ms = 1
      <4>1. old = Nobody
        BY <1>1, <2>4, <3>4 DEF Beats
      <4> QED  BY <1>1, <2>2, <2>4, <3>1, <3>2, <3>4, <4>1
    <3> QED  BY <2>2, <3>1, <3>3, <3>4
  <2>7. ~Beats(ms, old) => new = old
    <3> SUFFICES ASSUME ~Beats(ms, old)
                 PROVE  new = old
      OBVIOUS
    <3>1. CASE old = 0
      <4>1. PICK v \in Players : board[v] = 0
        BY <1>1, <2>4, <3>1
      <4>2. Updated[v] = 0
        BY <1>1, <1>2, <2>2, <4>1 DEF Beats
      <4> QED  BY <2>4, <3>1, <4>2
    <3>2. CASE old = 1
      <4>1. ms = 1
        BY <2>2, <3>2 DEF Beats
      <4>2. PICK v \in Players : board[v] = 1
        BY <1>1, <2>4, <3>2
      <4>3. \A w \in Players : board[w] # 0
        BY <1>1, <2>4, <3>2
      <4>4. \A w \in SubSecondUsers : users[w] = 1
        BY <2>2, <4>1
      <4>5. Updated[v] = 1
        BY <1>2, <4>2, <4>4
      <4>6. \A w \in Players : Updated[w] # 0
        BY <1>2, <4>3, <4>4
      <4> QED  BY <2>4, <3>2, <4>5, <4>6
    <3> QED  BY <2>4, <3>1, <3>2 DEF Beats
  <2>8. result.achievement = "record" <=> Beats(ms, old)
    BY <2>3 DEF classify_achievement, old
  <2>9. result.achievement # "none" <=> Beats(ms, board[u])
    BY <2>3, <2>6 DEF classify_achievement, old
  <2>10. Beats(ms, board[u]) <=> Updated[u] # board[u]
    BY <1>1, <2>2, <2>5 DEF Beats
  <2> QED  BY <2>3, <2>6, <2>7, <2>8, <2>9, <2>10 DEF Truth, old, new
<1> QED  BY <1>3, <1>4

\* The post calls a time a record, or a personal best, exactly when the update
\* of the leaderboard that follows makes it one, whoever of the fastest is named.
THEOREM AnnouncementsAreTrue == GameSpec => AnnouncementTrue
<1>1. ASSUME GInv, [GameNext]_gameVars, pc = "update", pc' = "stats"
      PROVE  Truth(board')
  <2>1. board' = Updated
    BY <1>1
    DEF GameNext, Chat, Monitor, Lagged, Handler, WaitUntilSchedule, StartSession, PostReminder,
        Reminded, Report, UpdateLeaderboard, PostStats, StatsPosted, GameTick, MeasureLatency,
        GameCrash, gameVars
  <2> QED  BY <1>1, <2>1, UpdateIsAnnounced
<1> QED  BY <1>1, GameAlways, PTL DEF GameSpec, AnnouncementTrue, Truth

=============================================================================
