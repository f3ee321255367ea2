----------------------------- MODULE MCAssistant -----------------------------
(***************************************************************************)
(* A viewer, a moderator and the broadcaster, three channels, three messages. *)
(***************************************************************************)
EXTENDS Assistant

MCUsers == {"viewer", "mod", "streamer"}
MCAdmins == {"mod", "streamer"}
MCSuspensions == {0, None}
In(chan, by, word, arg) == [chan |-> chan, by |-> by, word |-> word, arg |-> arg, size |-> 2]
MCKinds ==
  { In("primary", "viewer", "!ai", "question"),
    In("primary", "viewer", "@grok", ""),
    In("primary", "mod", "!suspend", "!AI"),
    In("primary", "streamer", "!unsuspend", "!ai"),
    In("primary", "viewer", "!news", ""),
    In("ai", "viewer", "@grok", "reply"),
    In("admin", "streamer", "!haiku", "") }
\* The run about the transcript has turns of the AI in the admin channel as well.
MCAdminKinds == MCKinds \union {In("admin", "streamer", "!ai", "question")}

\* The viewer has the oldest file; it fits only before the others.
File(login, size, updated) ==
  [name |-> <<login, updated>>, login |-> login, size |-> size, updated |-> updated]
MCMemories ==
  { [soul |-> 1, lore |-> 1,
     users |-> {File("viewer", 3, 1), File("streamer", 3, 2), File("lurker", 1, 3), File(None, 1, 4)},
     states |-> {File(None, 1, 1), File(None, 2, 2)}] }

Reply(status, body, calls, content) ==
  [status |-> status, body |-> body, calls |-> calls, content |-> content]
MCReplies ==
  { Reply(200, "json", 0, "text"), Reply(200, "json", 0, "blank"),
    Reply(200, "json", 1, None),
    Reply(0, "late", 0, None), Reply(0, "down", 0, None),
    Reply(429, "none", 0, None), Reply(200, "error", 0, None) }

Set(length, aiLength, ai, news) ==
  [length |-> length, aiLength |-> aiLength, cooldown |-> [ai |-> ai, news |-> news]]
MCKnobs == {Set(3, 1, 1, 1), Set(2, 0, 2, 0)}

Old(id) == [id |-> id, by |-> "streamer", bot |-> FALSE, size |-> 2]
MCPrefills ==
  { [today |-> <<Old(0)>>, yesterday |-> <<Old(-3), Old(-2), Old(-1)>>, threshold |-> 2,
     answered |-> [today |-> TRUE, yesterday |-> TRUE]] }

MCRecentBytes == [primary |-> 4, ai |-> 2]

\* The settings start with the larger lengths.
MCInit == AssistantInit /\ knob = Set(3, 1, 1, 1)
MCSpec == MCInit /\ [][AssistantNext]_assistantVars /\ AssistantFairness
=============================================================================
