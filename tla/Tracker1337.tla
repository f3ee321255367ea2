----------------------------- MODULE Tracker1337 -----------------------------
(***************************************************************************)
(* The daily 1337 game (twitch/handlers/tracker_1337.rs): at 13:36 Berlin  *)
(* time the handler starts a monitor of the chat, at 13:36:30 it posts a   *)
(* reminder, at 13:38 it aborts the monitor, announces the result, updates *)
(* the all-time leaderboard and posts.                                     *)
(*                                                                         *)
(* A day has the instants 0 .. LastInstant below; two of them lie in the   *)
(* minute 13:37.  A message carries the instant of its server timestamp    *)
(* and may be delivered later, in the order of sending.                    *)
(***************************************************************************)
EXTENDS Integers, Sequences, FiniteSets, FiniteSetsExt

CONSTANTS
  Players,
  Nobody,
  MAX_USERS,
  Latencies,     \* the expected latency, in instants
  MaxDay,        \* bound on the calendar
  MaxMessages,   \* bound on the messages of a day
  MaxGameCrashes,  \* bound on the restarts
  SavesMayFail   \* the disk may refuse leaderboard.ron

ASSUME GameAssumption ==
  /\ Nobody \notin Nat
  /\ Nobody \notin [user : Players, achievement : {"record", "pb", "none"}]
  /\ MAX_USERS \in Nat /\ Latencies \subseteq {0, 1}
  /\ MaxDay \in Nat /\ MaxMessages \in Nat /\ MaxGameCrashes \in Nat
  /\ SavesMayFail \in BOOLEAN

\* 13:36:00, 13:36:30, the first and the last part of 13:37, 13:38:00, evening.
Start == 1
Remind == 2
Minute == {3, 4}
Stats == 5
LastInstant == 6
DayLength == LastInstant + 1

\* Milliseconds into the minute: 0 and 1 are below 1000, 3 is at least 50 000.
Millis(i) == IF i = 3 THEN {0, 1, 2} ELSE {3}
SubSecond == {0, 1}

Boards == [Players -> SubSecond \cup {Nobody}]
Message == [user : Players, at : Nat, ms : 0 .. 3]

VARIABLES
  clock,     \* the clock: DayLength * day + instant
  pc,        \* where run_1337_handler is
  wake,      \* when its sleep ends
  latency,   \* the measured latency
  net,       \* messages on their way to the monitor
  sent,      \* messages sent today
  users,     \* total_users: the milliseconds of each counted user
  result,    \* the user, the time and the achievement the post will name
  board,     \* the leaderboard in memory
  ron,       \* leaderboard.ron
  gameCrashes,
  posts,     \* history: the posts, as <<kind, day>>, with their number
  missed     \* history: days on which the process was started after 13:36

gameVars == <<clock, pc, wake, latency, net, sent, users, result, board, ron, gameCrashes,
              posts, missed>>

Day(t) == t \div DayLength
Instant(t) == t % DayLength
At(d, i) == DayLength * d + i

NoUsers == [u \in Players |-> Nobody]
Counted(m) == {u \in Players : m[u] # Nobody}

\* Mutant: always tomorrow's.
calculate_tomorrow(t, i) == At(Day(t) + 1, i)

\* calculate_next_occurrence: today's, or tomorrow's if that is not ahead.
calculate_next_occurrence(t, i) ==
  IF At(Day(t), i) <= t THEN At(Day(t) + 1, i) ELSE At(Day(t), i)

GameInit ==
  /\ clock \in 0 .. LastInstant
  /\ pc = "wait" /\ wake = 0
  /\ latency \in Latencies
  /\ net = << >> /\ sent = 0
  /\ users = NoUsers /\ result = Nobody
  /\ board = NoUsers /\ ron = NoUsers
  /\ gameCrashes = 0
  /\ posts = [k \in {"reminder", "stats"} |-> [d \in 0 .. MaxDay |-> 0]]
  /\ missed = IF clock >= Start THEN {0} ELSE {}

-----------------------------------------------------------------------------
(***************************************************************************)
(* The chat and the monitor task.                                          *)
(***************************************************************************)
Monitoring == pc \in {"reminder", "remind", "monitor"}

\* A valid message in the channel; without the monitor nobody listens.
Chat(u) ==
  /\ sent < MaxMessages
  /\ sent' = sent + 1
  /\ \E ms \in Millis(Instant(clock)) :
       net' = IF Monitoring THEN Append(net, [user |-> u, at |-> clock, ms |-> ms]) ELSE net
  /\ UNCHANGED <<clock, pc, wake, latency, users, result, board, ron, gameCrashes, posts, missed>>

HasRoom == Cardinality(Counted(users)) < MAX_USERS

\* monitor_1337_messages: the first message of a user within the minute counts,
\* up to MAX_USERS users.
Monitor ==
  /\ Monitoring /\ net # << >>
  /\ LET m == Head(net) IN
     users' = IF /\ Instant(m.at) \in Minute
                 /\ HasRoom
                 /\ users[m.user] = Nobody
              THEN [users EXCEPT ![m.user] = m.ms] ELSE users
  /\ net' = Tail(net)
  /\ UNCHANGED <<clock, pc, wake, latency, sent, result, board, ron, gameCrashes, posts, missed>>

\* The broadcast channel lagged: the oldest message is skipped.
Lagged ==
  /\ Monitoring /\ net # << >>
  /\ net' = Tail(net)
  /\ UNCHANGED <<clock, pc, wake, latency, sent, users, result, board, ron,
                 gameCrashes, posts, missed>>

-----------------------------------------------------------------------------
(***************************************************************************)
(* run_1337_handler.                                                       *)
(***************************************************************************)
\* sleep_until_hms: today's instant, earlier by the latency; no sleep if it has passed.
HmsTarget(i) == At(Day(clock), i) - latency

WaitUntilSchedule ==
  /\ pc = "wait"
  /\ pc' = "start" /\ wake' = calculate_next_occurrence(clock, Start)
  /\ UNCHANGED <<clock, latency, net, sent, users, result, board, ron, gameCrashes, posts, missed>>

\* A fresh map, a fresh subscription, and on to the reminder.
StartSession ==
  /\ pc = "start" /\ clock >= wake
  /\ pc' = "reminder" /\ wake' = HmsTarget(Remind)
  /\ users' = NoUsers /\ net' = << >>
  /\ UNCHANGED <<clock, latency, sent, result, board, ron, gameCrashes, posts, missed>>

Posted(k) == posts' = [posts EXCEPT ![k][Day(clock)] = @ + 1]

PostReminder ==
  /\ pc = "reminder" /\ clock >= wake
  /\ pc' = "remind" /\ Posted("reminder")
  /\ UNCHANGED <<clock, wake, latency, net, sent, users, result, board, ron, gameCrashes, missed>>

\* The reminder has been said.
Reminded ==
  /\ pc = "remind"
  /\ pc' = "monitor" /\ wake' = HmsTarget(Stats)
  /\ UNCHANGED <<clock, latency, net, sent, users, result, board, ron, gameCrashes, posts, missed>>

Beats(ms, best) == best = Nobody \/ ms < best

\* The all-time record of a board.
Record(b) == LET times == {b[u] : u \in Counted(b)}
             IN IF times = {} THEN Nobody ELSE Min(times)

\* Mutant: a tie counts as a new record.
classify_with_ties(u, ms, b) ==
  IF Record(b) = Nobody \/ ms <= Record(b) THEN "record"
  ELSE IF Beats(ms, b[u]) THEN "pb" ELSE "none"

classify_achievement(u, ms, b) ==
  IF Beats(ms, Record(b)) THEN "record" ELSE IF Beats(ms, b[u]) THEN "pb" ELSE "none"

\* The users below one second; the fastest of them is any with the least time.
SubSecondUsers == {u \in Counted(users) : users[u] \in SubSecond}
Fastest == {u \in SubSecondUsers : \A v \in SubSecondUsers : users[u] <= users[v]}

\* The monitor is aborted and has stopped; then the result is put together.
Report ==
  /\ pc = "monitor" /\ clock >= wake
  /\ pc' = "update" /\ net' = << >>
  /\ IF Fastest = {} THEN result' = Nobody
     ELSE \E u \in Fastest :
            result' = [user |-> u, achievement |-> classify_achievement(u, users[u], board)]
  /\ UNCHANGED <<clock, wake, latency, sent, users, board, ron, gameCrashes, posts, missed>>

Updated == [u \in Players |-> IF u \in SubSecondUsers /\ Beats(users[u], board[u])
                            THEN users[u] ELSE board[u]]

\* The leaderboard is updated and saved; a failed save is only logged.
UpdateLeaderboard ==
  /\ pc = "update"
  /\ pc' = "stats" /\ board' = Updated
  /\ \/ ron' = board'
     \/ SavesMayFail /\ UNCHANGED ron
  /\ UNCHANGED <<clock, wake, latency, net, sent, users, result, gameCrashes, posts, missed>>

PostStats ==
  /\ pc = "stats"
  /\ pc' = "say" /\ Posted("stats")
  /\ UNCHANGED <<clock, wake, latency, net, sent, users, result, board, ron, gameCrashes, missed>>

StatsPosted ==
  /\ pc = "say"
  /\ pc' = "wait" /\ result' = Nobody
  /\ UNCHANGED <<clock, wake, latency, net, sent, users, board, ron, gameCrashes, posts, missed>>

Handler == WaitUntilSchedule \/ StartSession \/ PostReminder \/ Reminded \/ Report
             \/ UpdateLeaderboard \/ PostStats \/ StatsPosted

-----------------------------------------------------------------------------
\* The handler runs when it is due; only a post takes time, and it ends on the
\* day it began.
Due ==
  \/ pc \in {"wait", "update", "stats"}
  \/ pc \in {"start", "reminder", "monitor"} /\ clock >= wake
  \/ pc \in {"remind", "say"} /\ Instant(clock) = LastInstant

GameTick ==
  /\ ~Due
  /\ clock < At(MaxDay, LastInstant)
  /\ clock' = clock + 1
  /\ sent' = IF Instant(clock') = 0 THEN 0 ELSE sent
  /\ UNCHANGED <<pc, wake, latency, net, users, result, board, ron, gameCrashes, posts, missed>>

MeasureLatency ==
  /\ latency' \in Latencies \ {latency}
  /\ UNCHANGED <<clock, pc, wake, net, sent, users, result, board, ron, gameCrashes, posts, missed>>

\* The process dies and starts again with what the file has (load_leaderboard).
GameCrash ==
  /\ gameCrashes < MaxGameCrashes
  /\ gameCrashes' = gameCrashes + 1
  /\ pc' = "wait" /\ wake' = 0 /\ net' = << >> /\ users' = NoUsers /\ result' = Nobody
  /\ board' = ron
  /\ missed' = IF Instant(clock) >= Start THEN missed \cup {Day(clock)} ELSE missed
  /\ UNCHANGED <<clock, latency, sent, ron, posts>>

GameNext ==
  \/ \E u \in Players : Chat(u)
  \/ Monitor \/ Lagged \/ Handler \/ GameTick \/ MeasureLatency \/ GameCrash

GameSpec == GameInit /\ [][GameNext]_gameVars

\* The handler is a task of the runtime; time passes.
GameFairSpec == GameSpec /\ WF_gameVars(Handler) /\ WF_gameVars(GameTick)

-----------------------------------------------------------------------------
(***************************************************************************)
(* Properties.                                                             *)
(***************************************************************************)
\* Every variable stays in its set, and never more than MAX_USERS are counted.
GameTypeOK ==
  /\ clock \in 0 .. At(MaxDay, LastInstant)
  /\ pc \in {"wait", "start", "reminder", "remind", "monitor", "update", "stats", "say"}
  /\ wake \in Nat /\ latency \in Latencies
  /\ net \in Seq(Message) /\ sent \in 0 .. MaxMessages
  /\ users \in [Players -> (0 .. 3) \cup {Nobody}]
  /\ Cardinality(Counted(users)) <= MAX_USERS
  /\ board \in Boards /\ ron \in Boards
  /\ missed \subseteq 0 .. MaxDay

\* The post announces a new all-time record exactly if the update that follows
\* improves the best time of the board, and a personal best exactly if it
\* improves that user's entry only.
AnnouncementTrue ==
  [][pc = "update" /\ pc' = "stats" =>
       /\ (result # Nobody /\ result.achievement = "record")
            <=> Record(board') # Record(board)
       /\ result # Nobody =>
            (result.achievement # "none" <=> board'[result.user] # board[result.user])]_gameVars

OncePerDay == \A k \in DOMAIN posts : \A d \in 0 .. MaxDay : posts[k][d] <= 1

\* A day on which the process is up from before 13:36 gets its result, and no day
\* gets two reminders or two results, however often the process is restarted and
\* however early the latency lets them come.
ResultEveryDay ==
  /\ []OncePerDay
  /\ \A d \in 0 .. MaxDay :
       (Day(clock) = d /\ Instant(clock) = 0) ~> (posts["stats"][d] = 1 \/ d \in missed)

=============================================================================
