---------------------------- MODULE ChatHistory ----------------------------
(***************************************************************************)
(* The rolling chat history the assistant reads (ai/chat_history.rs), how  *)
(* it is filled at the start from a log service (ai/prefill.rs) and which  *)
(* of its lines fit into a prompt (ai/memory/inject.rs).                   *)
(*                                                                         *)
(* A history is a sequence of entries, oldest first:                       *)
(*   [id, by, bot, size]                                                   *)
(* "id" is the message an entry holds, or for a line of the bot the message *)
(* it answers; "size" stands for the bytes of the rendered line.           *)
(***************************************************************************)
EXTENDS Integers, Sequences, SequencesExt

(* The newest n entries of a history. *)
Newest(entries, n) ==
    SubSeq(entries, IF Len(entries) > n THEN Len(entries) - n + 1 ELSE 1, Len(entries))

(* The capacity is read live at every push: zero records nothing and keeps *)
(* what is there, otherwise the oldest entries make room.                  *)
push(entries, capacity, entry) ==
    IF capacity = 0 THEN entries ELSE Append(Newest(entries, capacity - 1), entry)

(* What the log service returns for a day, oldest first; a failed request, *)
(* a refusal or an unreadable body is an empty day.                        *)
fetch_messages_for_date(log, limit, answered) ==
    IF answered THEN Newest(log, limit) ELSE << >>

(* Today's messages; with fewer than the threshold, yesterday's before them. *)
prefill_chat_history(today, yesterday, length, threshold, answered) ==
    LET ofToday == fetch_messages_for_date(today, length, answered.today) IN
    Newest(IF Len(ofToday) >= threshold
              THEN ofToday
              ELSE fetch_messages_for_date(yesterday, length, answered.yesterday) \o ofToday,
           length)

(* A new buffer with the prefilled messages, each pushed as a user's.      *)
from_prefill(messages, capacity) ==
    FoldLeft(LAMBDA entries, entry: push(entries, capacity, entry),
             << >>, Newest(messages, capacity))

(* The bytes of a sequence of lines.                                       *)
Bytes(entries) == FoldLeft(LAMBDA total, entry: total + entry.size, 0, entries)

(* The lines of a section of recent chat: newest first until one does not  *)
(* fit, then in the order of the chat.                                     *)
render_recent_section(entries, cap) ==
    LET fitting == {n \in 0..Len(entries): Bytes(Newest(entries, n)) <= cap}
    IN  Newest(entries, CHOOSE n \in fitting: \A other \in fitting: other <= n)

(* Who is named in the lines of a section; the bot's lines count as its own. *)
Authors(entries) == {entries[i].by: i \in DOMAIN entries}
=============================================================================
