--------------------------- MODULE PromptContext ---------------------------
(***************************************************************************)
(* Which memory files a turn of the assistant, or the nightly dreamer, is  *)
(* shown (build_chat_turn_context of ai/memory/inject.rs).                 *)
(*                                                                         *)
(* A memory is a record                                                    *)
(*   [soul, lore, users, states]                                           *)
(* "soul" and "lore" are the bytes of their fenced blocks; "users" and     *)
(* "states" are sets of files [name, login, size, updated]: size is that   *)
(* of the fenced block with its separator, login None for a file without   *)
(* one.                                                                    *)
(***************************************************************************)
EXTENDS ChatHistory, FiniteSets, FiniteSetsExt

CONSTANTS None, Nobody   \* no login in a file; no speaker: the dreamer

\* A history that was not given to the prompt
NoSection == None

\* The section of a history, if there is one and a line of it fits.
Section(entries, cap) ==
    IF entries = NoSection THEN << >> ELSE render_recent_section(entries, cap)

(* Both sections, that of the channel the question came from first.        *)
recent_sections(first, second) == <<first, second>>

Mentioned(first, second) == Authors(first) \union Authors(second)

(* The user files of the people in the chat window and of the speaker; the *)
(* dreamer, who has neither history nor speaker, sees them all.            *)
InScope(files, speaker, mentioned, chatTurn) ==
    IF chatTurn
       THEN {f \in files: f.login # None /\ f.login \in mentioned \union ({speaker} \ {Nobody})}
       ELSE files

\* Mutant: the speaker's file has no place of its own
SpeakerFirst_newest(speaker, f, g) == f.updated > g.updated

(* The files of the speaker first, then the newest first.                  *)
SpeakerFirst(speaker, f, g) ==
    LET isSpeaker(h) == speaker # Nobody /\ h.login = speaker IN
    \/ isSpeaker(f) /\ ~isSpeaker(g)
    \/ isSpeaker(f) = isSpeaker(g) /\ f.updated > g.updated

NewestFirst(f, g) == f.updated > g.updated

(* Blocks are taken in order while they fit; the first that does not ends  *)
(* the packing, whatever comes after it.  No two files of a kind are       *)
(* updated at the same time.                                               *)
Size(files) == MapThenSumSet(LAMBDA f: f.size, files)
Packed(files, ahead, total, budget) ==
    {f \in files: total + Size({f} \union ahead[f]) <= budget}

(* What is shown: SOUL and LORE always, then user files, then state files  *)
(* from what the budget has left.                                          *)
build_chat_turn_context(memory, budget, speaker, mentioned, chatTurn) ==
    LET fixed == memory.soul + memory.lore
        people == InScope(memory.users, speaker, mentioned, chatTurn)
        users == Packed(people, [f \in people |-> {g \in people: SpeakerFirst(speaker, g, f)}],
                        fixed, budget)
        states == Packed(memory.states,
                         [f \in memory.states |-> {g \in memory.states: NewestFirst(g, f)}],
                         fixed + Size(users), budget)
    IN  [users |-> users, states |-> states, total |-> fixed + Size(users) + Size(states)]
=============================================================================
