-------------------------- MODULE AssistantProofs --------------------------
(***************************************************************************)
(* The turns of the assistant (Assistant) and the transcript with its      *)
(* nightly rotation (TranscriptRitual).                                    *)
(*                                                                         *)
(* The histories stay in the order of the conversation because the         *)
(* dispatcher takes the oldest message, a turn answers a message that was  *)
(* taken (TurnOfMessage), and while it runs no entry of a history is newer *)
(* than its question (Faithful).  That a turn begins only when it may      *)
(* needs that the cooldowns remember the last turn of every user           *)
(* (TurnsRemembered); that the model is shown the question, that it stands *)
(* until the turn has the name of its model (QuestionStands); that a       *)
(* prompt is sound, that it was built by build_chat_turn_context and shows *)
(* people the history knows (PromptBuilt).                                 *)
(*                                                                         *)
(* What the prefilled buffer holds, how many bytes the lines of a section  *)
(* have and how large a set of files is are folds.  What they return is    *)
(* proved by induction over the naturals for a set (UpToAll, in            *)
(* FoldLemmas): first that the equation the fold chooses its function by   *)
(* has a solution, then what every solution returns.                       *)
(***************************************************************************)
EXTENDS Assistant, TranscriptRitual, FoldLemmas, FiniteSetTheorems, SequenceTheorems,
        WellFoundedInduction, TLAPS

-----------------------------------------------------------------------------
(* The invariant of the turns *)

Channels == {"primary", "ai"}
Places == Channels \cup {"admin"}

\* The dispatcher has had the message.
Had(id) == id \in DOMAIN arrived /\ \A i \in DOMAIN inbox : id < inbox[i]

AssistantTyped ==
  /\ arrived \in Seq(Kinds) /\ inbox \in Seq(Nat)
  /\ histories \in [Channels -> Seq(Entries) \cup {NoHistory}]
  /\ lastUse \in [{"ai", "news"} -> [Users -> Int]]
  /\ moment \in Nat /\ knob \in Knobs
  /\ transcript \in Seq([id : Nat, chan : Places])

InboxInOrder ==
  /\ \A i \in DOMAIN inbox : inbox[i] \in DOMAIN arrived
  /\ \A i, j \in DOMAIN inbox : i < j => inbox[i] < inbox[j]

TurnFields == {"phase", "id", "kind", "round", "prompt"}
Phases == {"naming", "searching", "asking", "tools", "whispering"}

\* The turn answers a message that was taken.
TurnOfMessage ==
  turn # Idle =>
    /\ DOMAIN turn = TurnFields
    /\ turn.phase \in Phases
    /\ Had(turn.id)

InOrder(entries) ==
  \A i, j \in DOMAIN entries : i < j => Rank(entries[i]) < Rank(entries[j])

\* An entry is of a message taken, and stands before the answer to come.
Faithful(chan, e) ==
  /\ e.id > 0 =>
       /\ Had(e.id)
       /\ IF e.bot THEN <<e.id, "text">> \in answers /\ (chan = "ai" => Message(e.id).chan = "ai")
                   ELSE Message(e.id).chan = chan
  /\ turn # Idle => Rank(e) <= 2 * turn.id

HistoriesSound ==
  \A chan \in Channels : histories[chan] # NoHistory =>
    /\ InOrder(histories[chan])
    /\ \A i \in DOMAIN histories[chan] : Faithful(chan, histories[chan][i])

TranscriptSound ==
  \A i \in DOMAIN transcript :
    transcript[i].chan # "ai" /\ <<transcript[i].id, "text">> \in answers

\* The cooldowns remember the last turn of a user.
TurnsRemembered ==
  \A b \in begun :
    /\ Had(b.id) /\ b.at \in Nat /\ b.at <= moment
    /\ b.at <= lastUse[Bucket(Message(b.id).word)][Message(b.id).by]

AInv ==
  /\ AssistantTyped /\ InboxInOrder /\ TurnOfMessage
  /\ HistoriesSound /\ TranscriptSound /\ TurnsRemembered

-----------------------------------------------------------------------------
(* The newest entries of a history *)

\* The newest n of a sequence, one by one.
LEMMA NewestIs ==
  ASSUME NEW S, NEW s \in Seq(S), NEW n \in Nat
  PROVE  /\ Newest(s, n) \in Seq(S)
         /\ Len(Newest(s, n)) = IF Len(s) > n THEN n ELSE Len(s)
         /\ \A i \in DOMAIN Newest(s, n) : Newest(s, n)[i] = s[Len(s) - Len(Newest(s, n)) + i]
<1> DEFINE first == IF Len(s) > n THEN Len(s) - n + 1 ELSE 1
<1>1. /\ Len(s) \in Nat /\ first \in Nat /\ Newest(s, n) = SubSeq(s, first, Len(s))
      /\ first >= 1 /\ Len(s) - first + 1 = IF Len(s) > n THEN n ELSE Len(s)
  BY DEF Newest
<1> HIDE DEF first
<1>2. /\ SubSeq(s, first, Len(s)) \in Seq(S)
      /\ Len(SubSeq(s, first, Len(s))) = IF first <= Len(s) THEN Len(s) - first + 1 ELSE 0
      /\ \A i \in 1..(Len(s) - first + 1) : SubSeq(s, first, Len(s))[i] = s[first + i - 1]
  <2>1. \A i \in first..Len(s) : s[i] \in S
    BY <1>1, ElementOfSeq
  <2> QED  BY <1>1, <2>1, SubSeqProperties
<1>3. Len(Newest(s, n)) = Len(s) - first + 1
  BY <1>1, <1>2
<1>4. DOMAIN Newest(s, n) = 1..Len(Newest(s, n))
  BY <1>1, <1>2
<1>5. ASSUME NEW i \in DOMAIN Newest(s, n)
      PROVE  Newest(s, n)[i] = s[Len(s) - Len(Newest(s, n)) + i]
  <2>1. i \in 1..(Len(s) - first + 1)
    BY <1>1, <1>3, <1>4
  <2>2. Newest(s, n)[i] = s[first + i - 1]
    BY <1>1, <1>2, <2>1
  <2>3. first + i - 1 = Len(s) - Len(Newest(s, n)) + i
    BY <1>1, <1>3, <2>1
  <2> QED  BY <2>2, <2>3
<1>6. Newest(s, n) \in Seq(S)
  BY <1>1, <1>2
<1> QED  BY <1>1, <1>3, <1>5, <1>6

LEMMA NewestInOrder ==
  ASSUME NEW S, NEW s \in Seq(S), NEW n \in Nat, InOrder(s)
  PROVE  InOrder(Newest(s, n))
<1> DEFINE t == Newest(s, n)
<1>1. /\ t \in Seq(S) /\ DOMAIN t = 1..Len(t) /\ DOMAIN s = 1..Len(s)
      /\ Len(t) \in Nat /\ Len(s) \in Nat /\ Len(t) <= Len(s)
      /\ \A i \in DOMAIN t : t[i] = s[Len(s) - Len(t) + i]
  BY NewestIs
<1> HIDE DEF t
<1>2. ASSUME NEW i \in DOMAIN t, NEW j \in DOMAIN t, i < j
      PROVE  Rank(t[i]) < Rank(t[j])
  <2>1. /\ Len(s) - Len(t) + i \in DOMAIN s /\ Len(s) - Len(t) + j \in DOMAIN s
        /\ Len(s) - Len(t) + i < Len(s) - Len(t) + j
    BY <1>1, <1>2
  <2> QED  BY <1>1, <2>1 DEF InOrder
<1> QED  BY <1>2 DEF InOrder, t

\* What a push leaves.
LEMMA PushIs ==
  ASSUME NEW S, NEW s \in Seq(S), NEW e \in S, NEW c \in Nat
  PROVE  /\ push(s, c, e) \in Seq(S)
         /\ \A i \in DOMAIN push(s, c, e) :
              push(s, c, e)[i] = e \/ \E j \in DOMAIN s : push(s, c, e)[i] = s[j]
         /\ c > 0 => push(s, c, e) # << >> /\ Last(push(s, c, e)) = e
<1>1. CASE c = 0
  BY <1>1 DEF push
<1>2. CASE c # 0
  <2> DEFINE t == Newest(s, c - 1)
  <2>1. c - 1 \in Nat /\ push(s, c, e) = Append(t, e)
    BY <1>2 DEF push
  <2>2. /\ t \in Seq(S) /\ DOMAIN t = 1..Len(t) /\ DOMAIN s = 1..Len(s)
        /\ Len(t) \in Nat /\ Len(s) \in Nat /\ Len(t) <= Len(s)
        /\ \A i \in DOMAIN t : t[i] = s[Len(s) - Len(t) + i]
    BY <2>1, NewestIs
  <2> HIDE DEF t
  <2>3. /\ Append(t, e) \in Seq(S) /\ Len(Append(t, e)) = Len(t) + 1
        /\ \A i \in 1..Len(t) : Append(t, e)[i] = t[i]
        /\ Append(t, e)[Len(t) + 1] = e
    BY <2>2, AppendProperties
  <2>4. DOMAIN Append(t, e) = 1..(Len(t) + 1)
    BY <2>3
  <2>5. ASSUME NEW i \in DOMAIN Append(t, e)
        PROVE  Append(t, e)[i] = e \/ \E j \in DOMAIN s : Append(t, e)[i] = s[j]
    <3>1. CASE i = Len(t) + 1
      BY <2>3, <3>1
    <3>2. CASE i # Len(t) + 1
      <4>1. i \in DOMAIN t /\ Append(t, e)[i] = t[i] /\ Len(s) - Len(t) + i \in DOMAIN s
        BY <2>2, <2>3, <2>4, <3>2
      <4> QED  BY <2>2, <4>1
    <3> QED  BY <3>1, <3>2
  <2>6. Append(t, e) # << >> /\ Last(Append(t, e)) = e
    BY <2>2, <2>3 DEF Last
  <2> QED  BY <2>1, <2>3, <2>5, <2>6
<1> QED  BY <1>1, <1>2

LEMMA PushInOrder ==
  ASSUME NEW s \in Seq(Entries), NEW e \in Entries, NEW c \in Nat,
         InOrder(s), \A i \in DOMAIN s : Rank(s[i]) < Rank(e)
  PROVE  InOrder(push(s, c, e))
<1>1. CASE c = 0
  BY <1>1 DEF push
<1>2. CASE c # 0
  <2> DEFINE t == Newest(s, c - 1)
  <2>1. c - 1 \in Nat /\ push(s, c, e) = Append(t, e)
    BY <1>2 DEF push
  <2>2. /\ t \in Seq(Entries) /\ DOMAIN t = 1..Len(t) /\ DOMAIN s = 1..Len(s)
        /\ Len(t) \in Nat /\ Len(s) \in Nat /\ Len(t) <= Len(s)
        /\ \A i \in DOMAIN t : t[i] = s[Len(s) - Len(t) + i]
    BY <2>1, NewestIs
  <2>3. InOrder(t)
    BY <2>1, NewestInOrder
  <2> HIDE DEF t
  <2>4. /\ Append(t, e) \in Seq(Entries) /\ Len(Append(t, e)) = Len(t) + 1
        /\ \A i \in 1..Len(t) : Append(t, e)[i] = t[i]
        /\ Append(t, e)[Len(t) + 1] = e
    BY <2>2, AppendProperties
  <2>5. DOMAIN Append(t, e) = 1..(Len(t) + 1)
    BY <2>4
  <2>6. ASSUME NEW i \in DOMAIN Append(t, e), NEW j \in DOMAIN Append(t, e), i < j
        PROVE  Rank(Append(t, e)[i]) < Rank(Append(t, e)[j])
    <3>1. i \in DOMAIN t /\ Append(t, e)[i] = t[i]
      BY <2>2, <2>4, <2>5, <2>6
    <3>2. CASE j = Len(t) + 1
      <4>1. Len(s) - Len(t) + i \in DOMAIN s
        BY <2>2, <3>1
      <4> QED  BY <2>2, <2>4, <3>1, <3>2, <4>1
    <3>3. CASE j # Len(t) + 1
      <4>1. j \in DOMAIN t /\ Append(t, e)[j] = t[j]
        BY <2>2, <2>4, <2>5, <3>3
      <4> QED  BY <2>3, <2>6, <3>1, <4>1 DEF InOrder
    <3> QED  BY <3>2, <3>3
  <2> QED  BY <2>1, <2>6 DEF InOrder
<1> QED  BY <1>1, <1>2

-----------------------------------------------------------------------------
(* A buffer filled from a log holds the newest of it *)

\* The equation by which the fold of the pushes is defined has a solution.
FoldsPushes(f, log, c, k) ==
  f = [s \in SUBSET (1..k) |-> IF s = {} THEN << >> ELSE push(f[s \ {Max(s)}], c, log[Max(s)])]

LEMMA FoldOfPushesExists ==
  ASSUME NEW log, NEW c, NEW k \in Nat
  PROVE  \E f : FoldsPushes(f, log, c, k)
<1> DEFINE Body(f, s) == IF s = {} THEN << >> ELSE push(f[s \ {Max(s)}], c, log[Max(s)])
           Has(n) == \E f : f = [s \in SUBSET (1..n) |-> Body(f, s)]
           S == {n \in Nat : Has(n)}
<1>1. 0 \in S
  <2> DEFINE g == [s \in SUBSET (1..0) |-> << >>]
  <2>1. g = [s \in SUBSET (1..0) |-> Body(g, s)]
    OBVIOUS
  <2> QED  BY <2>1
<1>2. ASSUME NEW n \in Nat, n \in S
      PROVE  n + 1 \in S
  <2>1. PICK f : f = [s \in SUBSET (1..n) |-> Body(f, s)]
    BY <1>2
  <2> DEFINE g == [s \in SUBSET (1..(n + 1)) |->
                     IF n + 1 \in s THEN push(f[s \ {n + 1}], c, log[n + 1]) ELSE f[s]]
  <2>2. ASSUME NEW s \in SUBSET (1..(n + 1))
        PROVE  g[s] = Body(g, s)
    <3>1. CASE n + 1 \in s
      <4>1. Max(s) = n + 1
        BY <3>1, MaxOfUpTo
      <4>2. s \ {n + 1} \in SUBSET (1..(n + 1)) /\ s # {} /\ n + 1 \notin s \ {n + 1}
        BY <3>1
      <4>3. g[s \ {n + 1}] = f[s \ {n + 1}]
        BY <4>2
      <4>4. g[s] = push(f[s \ {n + 1}], c, log[n + 1])
        BY <3>1
      <4> HIDE DEF g
      <4> QED  BY <4>1, <4>2, <4>3, <4>4, Zenon
    <3>2. CASE n + 1 \notin s
      <4>1. s \in SUBSET (1..n) /\ s \ {Max(s)} \in SUBSET (1..n)
        <5>1. \A i \in 1..(n + 1) : i # n + 1 => i \in 1..n
          OBVIOUS
        <5> QED  BY <3>2, <5>1
      <4>2. g[s] = f[s] /\ g[s \ {Max(s)}] = f[s \ {Max(s)}]
        BY <3>2, <4>1
      <4>3. f[s] = Body(f, s)
        BY <2>1, <4>1
      <4> HIDE DEF g
      <4> QED  BY <4>2, <4>3, Zenon
    <3> QED  BY <3>1, <3>2
  <2>3. g = [s \in SUBSET (1..(n + 1)) |-> Body(g, s)]
    BY <2>2
  <2>4. Has(n + 1)
    BY <2>3
  <2> HIDE DEF Has
  <2> QED  BY <2>4
<1>3. k \in S
  <2> HIDE DEF S
  <2> QED  BY <1>1, <1>2, UpToAll
<1> QED  BY <1>3 DEF FoldsPushes

\* With room for all of them every message is kept, in its place.
LEMMA FoldOfPushesIs ==
  ASSUME NEW S, NEW log \in Seq(S), NEW c \in Nat, NEW k \in Nat, k = Len(log), k <= c
  PROVE  FoldLeft(LAMBDA entries, entry: push(entries, c, entry), << >>, log) = log
<1> DEFINE P(f) == FoldsPushes(f, log, c, k)
           g == CHOOSE f : P(f)
           R == {n \in Nat : n <= k => g[1..n] = SubSeq(log, 1, n)}
<1>1. k \in Nat /\ DOMAIN log = 1..k
  OBVIOUS
<1>2. P(g)
  <2>1. \E f : P(f)
    BY FoldOfPushesExists
  <2> HIDE DEF P
  <2> QED  BY <2>1
<1>3. FoldLeft(LAMBDA entries, entry: push(entries, c, entry), << >>, log) = g[1..k]
  BY <1>1, Zenon DEF FoldLeft, MapThenFoldSet, FoldsPushes
<1> HIDE DEF g
<1>4. 0 \in R
  <2>1. 1..0 = {} /\ {} \in SUBSET (1..k) /\ SubSeq(log, 1, 0) = << >>
    OBVIOUS
  <2> QED  BY <1>2, <2>1 DEF FoldsPushes
<1>5. ASSUME NEW n \in Nat, n \in R
      PROVE  n + 1 \in R
  <2> SUFFICES ASSUME n + 1 <= k
               PROVE  g[1..(n + 1)] = SubSeq(log, 1, n + 1)
    OBVIOUS
  <2>1. g[1..n] = SubSeq(log, 1, n)
    BY <1>1, <1>5
  <2>2. PICK s : s = 1..(n + 1)
    OBVIOUS
  <2>2a. s \in SUBSET (1..k) /\ s # {} /\ Max(s) = n + 1 /\ s \ {n + 1} = 1..n
    BY <1>1, <2>2, UpToNext
  <2>3. g[1..(n + 1)] = push(SubSeq(log, 1, n), c, log[n + 1])
    <3>1. g[s] = push(g[s \ {Max(s)}], c, log[Max(s)])
      BY <1>2, <2>2a DEF FoldsPushes
    <3> QED  BY <2>1, <2>2, <2>2a, <3>1
  <2>4. /\ SubSeq(log, 1, n) \in Seq(S) /\ Len(SubSeq(log, 1, n)) = n
        /\ log[n + 1] \in S
    BY <1>1
  <2>5. Newest(SubSeq(log, 1, n), c - 1) = SubSeq(log, 1, n)
    BY <1>1, <2>4 DEF Newest
  <2>6. c # 0
    BY <1>1
  <2>7. push(SubSeq(log, 1, n), c, log[n + 1]) = Append(SubSeq(log, 1, n), log[n + 1])
    BY <2>5, <2>6 DEF push
  <2>8. Append(SubSeq(log, 1, n), log[n + 1]) = SubSeq(log, 1, n + 1)
    BY <1>1
  <2> QED  BY <2>3, <2>7, <2>8
<1>6. g[1..k] = SubSeq(log, 1, k)
  <2> HIDE DEF R
  <2>1. k \in R
    BY <1>1, <1>4, <1>5, UpToAll
  <2> USE DEF R
  <2> QED  BY <1>1, <2>1
<1>7. SubSeq(log, 1, k) = log
  BY <1>1
<1> QED  BY <1>3, <1>6, <1>7, Zenon

LEMMA PrefillIs ==
  ASSUME NEW S, NEW log \in Seq(S), NEW c \in Nat
  PROVE  from_prefill(log, c) = Newest(log, c)
<1>1. /\ Newest(log, c) \in Seq(S) /\ Len(Newest(log, c)) <= c
      /\ Len(Newest(log, c)) \in Nat
  BY NewestIs
<1> QED  BY <1>1, FoldOfPushesIs DEF from_prefill

\* What a day of the log service, and the whole of the prefill, holds.
LEMMA NewestOfOrdered ==
  ASSUME NEW log, OldAndInOrder(log), NEW n \in Nat
  PROVE  OldAndInOrder(Newest(log, n))
<1> DEFINE t == Newest(log, n)
<1>1. /\ t \in Seq(Entries) /\ DOMAIN t = 1..Len(t) /\ DOMAIN log = 1..Len(log)
      /\ Len(t) \in Nat /\ Len(log) \in Nat /\ Len(t) <= Len(log)
      /\ \A i \in DOMAIN t : t[i] = log[Len(log) - Len(t) + i]
  BY NewestIs DEF OldAndInOrder
<1> HIDE DEF t
<1>2. \A i \in DOMAIN t : Len(log) - Len(t) + i \in DOMAIN log
  BY <1>1
<1>3. \A i, j \in DOMAIN t : i < j => Len(log) - Len(t) + i < Len(log) - Len(t) + j
  BY <1>1
<1> QED  BY <1>1, <1>2, <1>3 DEF OldAndInOrder, t

LEMMA OrderedParts ==
  ASSUME NEW y \in Seq(Entries), NEW t \in Seq(Entries), OldAndInOrder(y \o t), NEW n \in Nat
  PROVE  OldAndInOrder(y) /\ OldAndInOrder(Newest(y, n) \o Newest(t, n))
<1> DEFINE Y == Newest(y, n)
           T == Newest(t, n)
           both == y \o t
           some == Y \o T
<1>1. /\ Len(y) \in Nat /\ Len(t) \in Nat /\ DOMAIN y = 1..Len(y) /\ DOMAIN t = 1..Len(t)
      /\ both \in Seq(Entries) /\ Len(both) = Len(y) + Len(t)
      /\ \A i \in 1..(Len(y) + Len(t)) : both[i] = IF i <= Len(y) THEN y[i] ELSE t[i - Len(y)]
  BY ConcatProperties
<1>2. /\ Y \in Seq(Entries) /\ T \in Seq(Entries)
      /\ Len(Y) \in Nat /\ Len(T) \in Nat /\ DOMAIN Y = 1..Len(Y) /\ DOMAIN T = 1..Len(T)
      /\ Len(Y) <= Len(y) /\ Len(T) <= Len(t)
      /\ \A i \in DOMAIN Y : Y[i] = y[Len(y) - Len(Y) + i]
      /\ \A i \in DOMAIN T : T[i] = t[Len(t) - Len(T) + i]
  BY NewestIs
<1> HIDE DEF Y, T
<1>3. /\ some \in Seq(Entries) /\ Len(some) = Len(Y) + Len(T)
      /\ \A i \in 1..(Len(Y) + Len(T)) : some[i] = IF i <= Len(Y) THEN Y[i] ELSE T[i - Len(Y)]
  BY <1>2, ConcatProperties
<1>4. OldAndInOrder(both)
  OBVIOUS
<1> HIDE DEF both, some
<1>5. DOMAIN both = 1..(Len(y) + Len(t)) /\ DOMAIN some = 1..(Len(Y) + Len(T))
  BY <1>1, <1>3
<1>6. OldAndInOrder(y)
  <2>1. \A i \in DOMAIN y : i \in DOMAIN both /\ y[i] = both[i]
    BY <1>1, <1>5
  <2> QED  BY <1>4, <2>1 DEF OldAndInOrder
<1> DEFINE At(i) == IF i <= Len(Y) THEN Len(y) - Len(Y) + i
                    ELSE Len(y) + Len(t) - Len(T) + i - Len(Y)
<1>7. ASSUME NEW i \in DOMAIN some
      PROVE  At(i) \in DOMAIN both /\ some[i] = both[At(i)]
  <2>1. CASE i <= Len(Y)
    <3>1. /\ i \in DOMAIN Y /\ At(i) = Len(y) - Len(Y) + i /\ At(i) <= Len(y)
          /\ At(i) \in 1..(Len(y) + Len(t))
      BY <1>1, <1>2, <1>5, <2>1
    <3>2. some[i] = Y[i] /\ Y[i] = y[At(i)]
      BY <1>2, <1>3, <1>5, <2>1, <3>1
    <3> QED  BY <1>1, <1>5, <3>1, <3>2
  <2>2. CASE ~(i <= Len(Y))
    <3>1. /\ i - Len(Y) \in DOMAIN T /\ At(i) \in 1..(Len(y) + Len(t)) /\ ~(At(i) <= Len(y))
          /\ At(i) - Len(y) = Len(t) - Len(T) + (i - Len(Y))
      BY <1>1, <1>2, <1>5, <2>2
    <3>2. some[i] = T[i - Len(Y)] /\ T[i - Len(Y)] = t[At(i) - Len(y)]
      BY <1>2, <1>3, <1>5, <2>2, <3>1
    <3> QED  BY <1>1, <1>5, <3>1, <3>2
  <2> QED  BY <2>1, <2>2
<1>8. \A i, j \in DOMAIN some : i < j => At(i) < At(j)
  BY <1>1, <1>2, <1>5
<1> HIDE DEF At
<1>9. OldAndInOrder(some)
  BY <1>3, <1>4, <1>7, <1>8 DEF OldAndInOrder
<1> QED  BY <1>6, <1>9 DEF some, Y, T

LEMMA PrefilledInOrder ==
  ASSUME NEW p \in Prefills, NEW length \in Nat
  PROVE  OldAndInOrder(prefill_chat_history(p.today, p.yesterday, length, p.threshold, p.answered))
<1> DEFINE T == Newest(p.today, length)
           Y == Newest(p.yesterday, length)
           yesterday == p.yesterday
<1>1. OldAndInOrder(p.today) /\ OldAndInOrder(yesterday \o p.today) /\ yesterday \in Seq(Entries)
  BY AssistantAssumption
<1>2. p.today \in Seq(Entries)
  BY <1>1 DEF OldAndInOrder
<1>3. OldAndInOrder(yesterday) /\ OldAndInOrder(Y \o T)
  BY <1>1, <1>2, OrderedParts
<1>4. OldAndInOrder(<< >>)
  BY DEF OldAndInOrder
<1>5. OldAndInOrder(T) /\ OldAndInOrder(Y)
  BY <1>1, <1>3, NewestOfOrdered
<1>6. OldAndInOrder(<< >> \o T) /\ OldAndInOrder(Y \o << >>) /\ OldAndInOrder(<< >> \o << >>)
  <2>1. T \in Seq(Entries) /\ Y \in Seq(Entries)
    BY <1>5 DEF OldAndInOrder
  <2> HIDE DEF T, Y
  <2>2. << >> \o T = T /\ Y \o << >> = Y /\ << >> \o << >> = << >>
    BY <2>1, ConcatEmptySeq
  <2> QED  BY <1>4, <1>5, <2>2
<1> DEFINE ofToday == fetch_messages_for_date(p.today, length, p.answered.today)
           ofYesterday == fetch_messages_for_date(p.yesterday, length, p.answered.yesterday)
<1>7. /\ ofToday = T \/ ofToday = << >>
      /\ ofYesterday = Y \/ ofYesterday = << >>
  BY DEF fetch_messages_for_date
<1>8. prefill_chat_history(p.today, p.yesterday, length, p.threshold, p.answered)
        = Newest(IF Len(ofToday) >= p.threshold THEN ofToday ELSE ofYesterday \o ofToday, length)
  BY Zenon DEF prefill_chat_history
<1> HIDE DEF T, Y, ofToday, ofYesterday
<1>9. OldAndInOrder(ofToday) /\ OldAndInOrder(ofYesterday \o ofToday)
  BY <1>3, <1>4, <1>5, <1>6, <1>7
<1> QED  BY <1>8, <1>9, NewestOfOrdered

-----------------------------------------------------------------------------
(* The invariant at the start *)

LEMMA KnobIsNat ==
  ASSUME NEW k \in Knobs
  PROVE  k.length \in Nat /\ k.aiLength \in Nat /\ k.cooldown.ai \in Nat /\ k.cooldown.news \in Nat
  BY AssistantAssumption

LEMMA AssistantStarts == AssistantInit => AInv
<1> SUFFICES ASSUME AssistantInit
             PROVE  AInv
  OBVIOUS
<1>1. knob \in Knobs /\ knob.length \in Nat
  BY KnobIsNat DEF AssistantInit
<1>2. PICK p \in Prefills :
        histories = [primary |-> IF knob.length = 0 THEN NoHistory
                                 ELSE from_prefill(prefill_chat_history(p.today, p.yesterday,
                                                     knob.length, p.threshold, p.answered),
                                                   knob.length),
                     ai |-> IF knob.length = 0 \/ knob.aiLength = 0 THEN NoHistory ELSE << >>]
  BY DEF AssistantInit
<1> DEFINE log == prefill_chat_history(p.today, p.yesterday, knob.length, p.threshold, p.answered)
           old == from_prefill(log, knob.length)
<1>3. OldAndInOrder(old)
  <2>1. OldAndInOrder(log)
    BY <1>1, PrefilledInOrder
  <2> HIDE DEF log
  <2>2. log \in Seq(Entries)
    BY <2>1 DEF OldAndInOrder
  <2>3. old = Newest(log, knob.length)
    BY <1>1, <2>2, PrefillIs
  <2> QED  BY <1>1, <2>1, <2>3, NewestOfOrdered
<1>4. /\ histories.primary = NoHistory \/ histories.primary = old
      /\ histories.ai = NoHistory \/ histories.ai = << >>
      /\ histories = [primary |-> histories.primary, ai |-> histories.ai]
  BY <1>2
<1> HIDE DEF old
<1>5. histories \in [Channels -> Seq(Entries) \cup {NoHistory}]
  <2>1. old \in Seq(Entries) /\ << >> \in Seq(Entries)
    BY <1>3 DEF OldAndInOrder
  <2> QED  BY <1>4, <2>1 DEF Channels
<1>6. arrived \in Seq(Kinds) /\ inbox \in Seq(Nat) /\ transcript \in Seq([id : Nat, chan : Places])
  BY DEF AssistantInit
<1>7. lastUse \in [{"ai", "news"} -> [Users -> Int]] /\ moment \in Nat
  BY DEF AssistantInit, Never
<1>8. AssistantTyped
  BY <1>1, <1>5, <1>6, <1>7 DEF AssistantTyped
<1>9. InboxInOrder /\ TurnOfMessage /\ TranscriptSound /\ TurnsRemembered
  BY DEF AssistantInit, InboxInOrder, TurnOfMessage, TranscriptSound, TurnsRemembered
<1>10. HistoriesSound
  <2> SUFFICES ASSUME NEW chan \in Channels, histories[chan] # NoHistory
               PROVE  /\ InOrder(histories[chan])
                      /\ \A i \in DOMAIN histories[chan] : Faithful(chan, histories[chan][i])
    BY DEF HistoriesSound
  <2>1. histories[chan] = old \/ histories[chan] = << >>
    BY <1>4 DEF Channels
  <2>2. CASE histories[chan] = << >>
    BY <2>2 DEF InOrder
  <2>3. CASE histories[chan] = old
    <3>1. /\ old \in Seq(Entries) /\ \A i \in DOMAIN old : old[i] \in Entries
          /\ \A i \in DOMAIN old : old[i].id <= 0 /\ ~old[i].bot
          /\ \A i, j \in DOMAIN old : i < j => old[i].id < old[j].id
      BY <1>3 DEF OldAndInOrder
    <3>2. \A i \in DOMAIN old : old[i].id \in Int /\ Rank(old[i]) = 2 * old[i].id
      BY <3>1 DEF Rank, Entries
    <3>3. InOrder(old)
      BY <3>1, <3>2 DEF InOrder
    <3>4. \A i \in DOMAIN old : ~(old[i].id > 0)
      BY <3>1, <3>2
    <3>5. turn = Idle
      BY DEF AssistantInit
    <3> QED  BY <2>3, <3>3, <3>4, <3>5 DEF Faithful
  <2> QED  BY <2>1, <2>2, <2>3
<1> QED  BY <1>8, <1>9, <1>10 DEF AInv

-----------------------------------------------------------------------------
(* What a step leaves alone *)

\* Whatever was taken stays taken, with the same text.
Kept == \A id : Had(id) => Had(id)' /\ Message(id)' = Message(id)

LEMMA EntryStands ==
  ASSUME NEW chan, NEW e, Faithful(chan, e), Kept, answers \subseteq answers',
         turn' # Idle => Rank(e) <= 2 * turn'.id
  PROVE  Faithful(chan, e)'
<1> SUFFICES ASSUME e.id > 0
             PROVE  /\ Had(e.id)'
                    /\ IF e.bot THEN <<e.id, "text">> \in answers' /\ (chan = "ai" => Message(e.id)'.chan = "ai")
                                ELSE Message(e.id)'.chan = chan
  BY DEF Faithful, Rank
<1>1. /\ Had(e.id)
      /\ IF e.bot THEN <<e.id, "text">> \in answers /\ (chan = "ai" => Message(e.id).chan = "ai")
                  ELSE Message(e.id).chan = chan
  BY DEF Faithful
<1>2. Had(e.id)' /\ Message(e.id)' = Message(e.id)
  BY <1>1 DEF Kept
<1> QED  BY <1>1, <1>2

LEMMA HistoriesStand ==
  ASSUME AInv, Kept, histories' = histories, answers \subseteq answers',
         turn' = Idle \/ (turn # Idle /\ turn'.id = turn.id)
  PROVE  HistoriesSound'
<1>1. ASSUME NEW chan \in Channels, histories[chan] # NoHistory
      PROVE  /\ InOrder(histories[chan])
             /\ \A i \in DOMAIN histories[chan] : Faithful(chan, histories[chan][i])
  BY <1>1 DEF AInv, HistoriesSound
<1>2. ASSUME NEW chan \in Channels, histories[chan] # NoHistory, NEW i \in DOMAIN histories[chan],
             NEW e, e = histories[chan][i]
      PROVE  Faithful(chan, e)'
  <2>1. Faithful(chan, e)
    BY <1>1, <1>2
  <2>2. turn' # Idle => Rank(e) <= 2 * turn'.id
    BY <2>1 DEF Faithful
  <2> QED  BY <2>1, <2>2, EntryStands
<1>3. ASSUME NEW chan \in Channels, histories[chan] # NoHistory
      PROVE  InOrder(histories[chan])'
  BY <1>1, <1>3 DEF InOrder, Rank
<1> QED  BY <1>2, <1>3 DEF HistoriesSound

LEMMA TranscriptStands ==
  ASSUME AInv, transcript' = transcript, answers \subseteq answers'
  PROVE  TranscriptSound'
  BY DEF AInv, TranscriptSound

LEMMA TurnsStand ==
  ASSUME AInv, Kept, begun' = begun, lastUse' = lastUse, moment' \in Nat, moment <= moment'
  PROVE  TurnsRemembered'
<1> SUFFICES ASSUME NEW b \in begun
             PROVE  /\ Had(b.id)' /\ b.at \in Nat /\ b.at <= moment'
                    /\ b.at <= lastUse[Bucket(Message(b.id)'.word)][Message(b.id)'.by]
  BY DEF TurnsRemembered, Bucket, is_ai_trigger
<1>1. /\ Had(b.id) /\ b.at \in Nat /\ b.at <= moment /\ moment \in Nat
      /\ b.at <= lastUse[Bucket(Message(b.id).word)][Message(b.id).by]
  BY DEF AInv, TurnsRemembered, AssistantTyped
<1>2. Had(b.id)' /\ Message(b.id)' = Message(b.id)
  BY <1>1 DEF Kept
<1> QED  BY <1>1, <1>2

\* Without an arrival or a message taken.
LEMMA Quiet ==
  ASSUME arrived' = arrived, inbox' = inbox
  PROVE  Kept /\ (InboxInOrder => InboxInOrder')
  BY DEF Kept, Had, Message, InboxInOrder

-----------------------------------------------------------------------------
(* A message arrives *)

\* It waits behind the others; a message taken is no part of what is lost.
LEMMA ArrivalWaits ==
  ASSUME AInv, NEW k \in Kinds, Arrive(k)
  PROVE  arrived' \in Seq(Kinds) /\ inbox' \in Seq(Nat) /\ InboxInOrder' /\ Kept
<1> DEFINE id == Len(arrived) + 1
           queue == Append(inbox, id)
<1>1. /\ arrived \in Seq(Kinds) /\ inbox \in Seq(Nat) /\ Len(arrived) \in Nat /\ Len(inbox) \in Nat
      /\ DOMAIN arrived = 1..Len(arrived) /\ DOMAIN inbox = 1..Len(inbox)
      /\ \A i \in DOMAIN inbox : inbox[i] \in DOMAIN arrived
      /\ \A i, j \in DOMAIN inbox : i < j => inbox[i] < inbox[j]
  BY DEF AInv, AssistantTyped, InboxInOrder
<1>2. /\ arrived' \in Seq(Kinds) /\ DOMAIN arrived' = 1..id
      /\ \A i \in DOMAIN arrived : arrived'[i] = arrived[i]
  BY <1>1, AppendProperties DEF Arrive
<1>3. /\ queue \in Seq(Nat) /\ Len(queue) = Len(inbox) + 1 /\ DOMAIN queue = 1..(Len(inbox) + 1)
      /\ \A i \in 1..Len(inbox) : queue[i] = inbox[i]
      /\ queue[Len(inbox) + 1] = id
  BY <1>1, AppendProperties
<1>4. \A i, j \in DOMAIN queue : i < j => queue[i] < queue[j]
  <2> SUFFICES ASSUME NEW i \in DOMAIN queue, NEW j \in DOMAIN queue, i < j
               PROVE  queue[i] < queue[j]
    OBVIOUS
  <2>1. i \in DOMAIN inbox /\ queue[i] = inbox[i]
    BY <1>1, <1>3
  <2>2. CASE j \in DOMAIN inbox
    BY <1>1, <1>3, <2>1, <2>2
  <2>3. CASE j \notin DOMAIN inbox
    <3>1. queue[j] = id /\ inbox[i] \in 1..Len(arrived)
      BY <1>1, <1>3, <2>1, <2>3
    <3> QED  BY <1>1, <2>1, <3>1
  <2> QED  BY <2>2, <2>3
<1>5. \A i \in DOMAIN queue : queue[i] \in 1..id
  BY <1>1, <1>3
<1>6. inbox' = Newest(queue, Queue) /\ Queue \in Nat
  BY AssistantAssumption DEF Arrive, Broadcast
<1> HIDE DEF queue
<1>7. /\ inbox' \in Seq(Nat) /\ DOMAIN inbox' = 1..Len(inbox') /\ Len(inbox') \in Nat
      /\ Len(inbox') <= Len(queue) /\ Len(queue) \in Nat
      /\ \A i \in DOMAIN inbox' : inbox'[i] = queue[Len(queue) - Len(inbox') + i]
  <2>1. queue \in Seq(Nat) /\ Queue \in Nat
    BY <1>3, <1>6
  <2>2. /\ Newest(queue, Queue) \in Seq(Nat) /\ Len(queue) \in Nat
        /\ Len(Newest(queue, Queue)) = IF Len(queue) > Queue THEN Queue ELSE Len(queue)
        /\ \A i \in DOMAIN Newest(queue, Queue) :
             Newest(queue, Queue)[i] = queue[Len(queue) - Len(Newest(queue, Queue)) + i]
    BY <2>1, NewestIs
  <2> QED  BY <1>6, <2>1, <2>2
<1>8. /\ \A i \in DOMAIN inbox' : Len(queue) - Len(inbox') + i \in DOMAIN queue
      /\ \A i, j \in DOMAIN inbox' : i < j => Len(queue) - Len(inbox') + i < Len(queue) - Len(inbox') + j
  BY <1>3, <1>7
<1>9. InboxInOrder'
  BY <1>2, <1>4, <1>5, <1>7, <1>8 DEF InboxInOrder
<1>10. Kept
  <2> SUFFICES ASSUME NEW x, Had(x)
               PROVE  Had(x)' /\ Message(x)' = Message(x)
    BY DEF Kept
  <2>1. x \in DOMAIN arrived /\ \A i \in DOMAIN inbox : x < inbox[i]
    BY DEF Had
  <2>2. x \in DOMAIN arrived' /\ arrived'[x] = arrived[x]
    BY <1>1, <1>2, <2>1
  <2>3. \A i \in DOMAIN queue : x < queue[i]
    <3> SUFFICES ASSUME NEW i \in DOMAIN queue
                 PROVE  x < queue[i]
      OBVIOUS
    <3>1. CASE i \in DOMAIN inbox
      BY <1>1, <1>3, <2>1, <3>1
    <3>2. CASE i \notin DOMAIN inbox
      BY <1>1, <1>3, <2>1, <3>2
    <3> QED  BY <3>1, <3>2
  <2>4. \A i \in DOMAIN inbox' : x < inbox'[i]
    BY <1>7, <1>8, <2>3
  <2> QED  BY <2>2, <2>4 DEF Had, Message
<1> QED  BY <1>2, <1>7, <1>9, <1>10

LEMMA ArriveKeeps ==
  ASSUME AInv, NEW k \in Kinds, Arrive(k)
  PROVE  AInv'
<1>1. arrived' \in Seq(Kinds) /\ inbox' \in Seq(Nat) /\ InboxInOrder' /\ Kept
  BY ArrivalWaits
<1>2. UNCHANGED <<histories, turn, suspended, lastUse, moment, knob, transcript, answers, begun>>
  BY DEF Arrive, assistantHistory
<1>3. AssistantTyped'
  BY <1>1, <1>2 DEF AInv, AssistantTyped
<1>4. TurnOfMessage'
  BY <1>1, <1>2 DEF AInv, TurnOfMessage, Kept
<1>5. HistoriesSound'
  BY <1>1, <1>2, HistoriesStand
<1>6. TranscriptSound'
  BY <1>2, TranscriptStands
<1>7. TurnsRemembered'
  <2>1. moment' \in Nat /\ moment <= moment'
    BY <1>2 DEF AInv, AssistantTyped
  <2> QED  BY <1>1, <1>2, <2>1, TurnsStand
<1> QED  BY <1>1, <1>3, <1>4, <1>5, <1>6, <1>7 DEF AInv

-----------------------------------------------------------------------------
(* A message is taken *)

LEMMA MessageIsKind ==
  ASSUME AInv, NEW id \in DOMAIN arrived
  PROVE  Message(id) \in Kinds /\ Message(id).by \in Users /\ Message(id).chan \in Places
         /\ Message(id).size \in Nat /\ Entry(id, Message(id)) \in Entries
<1>1. Message(id) \in Kinds /\ id \in Nat
  BY ElementOfSeq DEF AInv, AssistantTyped, Message
<1>2. /\ Message(id).by \in Users /\ Message(id).chan \in Places /\ Message(id).size \in Nat
  BY <1>1, AssistantAssumption DEF Places, Channels
<1> QED  BY <1>1, <1>2 DEF Entry, Entries, Writers

\* A history never becomes none, nor none a history.
LEMMA PushedIs ==
  ASSUME AInv, NEW chan \in Channels, NEW e \in Entries
  PROVE  /\ Pushed(chan, e) \in [Channels -> Seq(Entries) \cup {NoHistory}]
         /\ \A other \in Channels : other # chan => Pushed(chan, e)[other] = histories[other]
         /\ histories[chan] = NoHistory => Pushed(chan, e) = histories
         /\ histories[chan] # NoHistory =>
              /\ Pushed(chan, e)[chan] = push(histories[chan], Room(chan), e)
              /\ histories[chan] \in Seq(Entries) /\ Room(chan) \in Nat
              /\ Pushed(chan, e)[chan] \in Seq(Entries) /\ Pushed(chan, e)[chan] # NoHistory
<1>1. histories \in [Channels -> Seq(Entries) \cup {NoHistory}] /\ knob \in Knobs
  BY DEF AInv, AssistantTyped
<1>2. Room(chan) \in Nat
  BY <1>1, KnobIsNat DEF Room
<1>3. CASE histories[chan] = NoHistory
  BY <1>1, <1>3 DEF Pushed
<1>4. CASE histories[chan] # NoHistory
  <2>1. histories[chan] \in Seq(Entries)
    BY <1>1, <1>4
  <2>2. Pushed(chan, e) = [histories EXCEPT ![chan] = push(@, Room(chan), e)]
    BY <1>4 DEF Pushed
  <2>3. push(histories[chan], Room(chan), e) \in Seq(Entries)
    BY <1>2, <2>1, PushIs
  <2>4. push(histories[chan], Room(chan), e) # NoHistory
    BY <2>3, AssistantAssumption
  <2> QED  BY <1>1, <1>2, <1>4, <2>1, <2>2, <2>3, <2>4
<1> QED  BY <1>3, <1>4

\* An entry newer than a history keeps it in order.
LEMMA PushedInOrder ==
  ASSUME AInv, NEW chan \in Channels, NEW e \in Entries,
         \A i \in DOMAIN histories[chan] : Rank(histories[chan][i]) < Rank(e)
  PROVE  \A c \in Channels : Pushed(chan, e)[c] # NoHistory =>
           /\ InOrder(Pushed(chan, e)[c])
           /\ histories[c] # NoHistory
           /\ \A i \in DOMAIN Pushed(chan, e)[c] :
                \/ c = chan /\ Pushed(chan, e)[c][i] = e
                \/ \E j \in DOMAIN histories[c] : Pushed(chan, e)[c][i] = histories[c][j]
<1> SUFFICES ASSUME NEW c \in Channels, Pushed(chan, e)[c] # NoHistory
             PROVE  /\ InOrder(Pushed(chan, e)[c])
                    /\ histories[c] # NoHistory
                    /\ \A i \in DOMAIN Pushed(chan, e)[c] :
                         \/ c = chan /\ Pushed(chan, e)[c][i] = e
                         \/ \E j \in DOMAIN histories[c] : Pushed(chan, e)[c][i] = histories[c][j]
  OBVIOUS
<1>1. CASE c # chan \/ histories[chan] = NoHistory
  <2>1. Pushed(chan, e)[c] = histories[c]
    BY <1>1, PushedIs
  <2> QED  BY <2>1 DEF AInv, HistoriesSound
<1>2. CASE c = chan /\ histories[chan] # NoHistory
  <2>1. /\ Pushed(chan, e)[c] = push(histories[chan], Room(chan), e)
        /\ histories[chan] \in Seq(Entries) /\ Room(chan) \in Nat
    BY <1>2, PushedIs
  <2>2. InOrder(histories[chan])
    BY <1>2 DEF AInv, HistoriesSound
  <2>3. InOrder(push(histories[chan], Room(chan), e))
    BY <2>1, <2>2, PushInOrder
  <2>4. \A i \in DOMAIN push(histories[chan], Room(chan), e) :
           \/ push(histories[chan], Room(chan), e)[i] = e
           \/ \E j \in DOMAIN histories[chan] :
                push(histories[chan], Room(chan), e)[i] = histories[chan][j]
    BY <2>1, PushIs
  <2> QED  BY <1>2, <2>1, <2>3, <2>4
<1> QED  BY <1>1, <1>2

LEMMA TakenIsOldest ==
  ASSUME AInv, NEW id, Take(id), arrived' = arrived
  PROVE  /\ id \in DOMAIN arrived /\ id \in Nat /\ turn = Idle
         /\ Kept /\ Had(id)' /\ ~Had(id)
         /\ inbox' \in Seq(Nat) /\ InboxInOrder'
         /\ \A x : Had(x) => x \in Nat /\ x < id
<1>1. /\ inbox \in Seq(Nat) /\ inbox # << >> /\ inbox' = Tail(inbox) /\ id = Head(inbox) /\ turn = Idle
      /\ \A i \in DOMAIN inbox : inbox[i] \in DOMAIN arrived
      /\ \A i, j \in DOMAIN inbox : i < j => inbox[i] < inbox[j]
      /\ arrived \in Seq(Kinds)
  BY DEF AInv, AssistantTyped, InboxInOrder, Take
<1>2. /\ Len(inbox) \in Nat \ {0} /\ DOMAIN inbox = 1..Len(inbox) /\ id = inbox[1]
      /\ Tail(inbox) \in Seq(Nat) /\ DOMAIN Tail(inbox) = 1..(Len(inbox) - 1)
      /\ \A i \in 1..(Len(inbox) - 1) : Tail(inbox)[i] = inbox[i + 1]
  BY <1>1
<1>3. id \in DOMAIN arrived /\ DOMAIN arrived \subseteq Nat
  BY <1>1, <1>2
<1>4. \A i \in DOMAIN inbox' : inbox'[i] \in DOMAIN arrived /\ id < inbox'[i]
  <2> SUFFICES ASSUME NEW i \in 1..(Len(inbox) - 1)
               PROVE  inbox[i + 1] \in DOMAIN arrived /\ inbox[1] < inbox[i + 1]
    BY <1>1, <1>2
  <2>1. 1 \in DOMAIN inbox /\ i + 1 \in DOMAIN inbox /\ 1 < i + 1
    BY <1>2
  <2> QED  BY <1>1, <2>1
<1>5. InboxInOrder'
  <2>1. \A i, j \in DOMAIN inbox' : i < j => inbox'[i] < inbox'[j]
    <3> SUFFICES ASSUME NEW i \in 1..(Len(inbox) - 1), NEW j \in 1..(Len(inbox) - 1), i < j
                 PROVE  inbox[i + 1] < inbox[j + 1]
      BY <1>1, <1>2
    <3>1. i + 1 \in DOMAIN inbox /\ j + 1 \in DOMAIN inbox /\ i + 1 < j + 1
      BY <1>2
    <3> QED  BY <1>1, <3>1
  <2> QED  BY <1>4, <2>1 DEF InboxInOrder
<1>6. Had(id)' /\ ~Had(id)
  BY <1>2, <1>3, <1>4 DEF Had
<1>7. ASSUME NEW x, Had(x)
      PROVE  x \in Nat /\ x < id /\ Had(x)' /\ Message(x)' = Message(x)
  <2>1. x \in DOMAIN arrived /\ x < id
    BY <1>2, <1>7 DEF Had
  <2>2. x \in Nat /\ id \in Nat
    BY <1>3, <2>1
  <2>3. \A i \in DOMAIN inbox' : inbox'[i] \in Nat /\ x < inbox'[i]
    BY <1>3, <1>4, <2>1, <2>2
  <2> QED  BY <2>1, <2>2, <2>3 DEF Had, Message
<1> QED  BY <1>1, <1>2, <1>3, <1>5, <1>6, <1>7 DEF Kept

\* The histories when a message is taken: it is the newest line of its own.
LEMMA HistoriesTake ==
  ASSUME AInv, NEW id, Take(id), arrived' = arrived, answers \subseteq answers',
         turn' = Idle \/ turn'.id = id
  PROVE  /\ histories' \in [Channels -> Seq(Entries) \cup {NoHistory}]
         /\ HistoriesSound'
         /\ \A chan \in Channels : histories[chan] # NoHistory =>
              \A i \in DOMAIN histories[chan] :
                histories[chan][i].id \in Int /\ histories[chan][i].id < id
<1> PICK m : m = Message(id)
  OBVIOUS
<1> PICK e : e = Entry(id, m)
  OBVIOUS
<1>1. /\ id \in DOMAIN arrived /\ id \in Nat /\ turn = Idle /\ Kept /\ Had(id)' /\ Message(id)' = m
      /\ \A x : Had(x) => x \in Nat /\ x < id
  BY TakenIsOldest DEF Message
<1>2. e \in Entries /\ e.id = id /\ e.bot = FALSE /\ Rank(e) = 2 * id
  BY <1>1, MessageIsKind DEF Entry, Rank
<1>3. ASSUME NEW chan \in Channels, NEW i \in DOMAIN histories[chan], histories[chan] # NoHistory
      PROVE  /\ histories[chan][i] \in Entries /\ histories[chan][i].id \in Int
             /\ histories[chan][i].id < id /\ Rank(histories[chan][i]) < Rank(e)
  <2>1. histories[chan] \in Seq(Entries) /\ Faithful(chan, histories[chan][i])
    BY <1>3 DEF AInv, AssistantTyped, HistoriesSound
  <2>2. histories[chan][i] \in Entries
    BY <2>1, ElementOfSeq
  <2>3. histories[chan][i].id \in Int /\ histories[chan][i].bot \in BOOLEAN
    BY <2>2 DEF Entries
  <2>4. histories[chan][i].id < id
    <3>1. CASE histories[chan][i].id > 0
      BY <1>1, <2>1, <2>3, <3>1 DEF Faithful
    <3>2. CASE ~(histories[chan][i].id > 0)
      <4>1. id > 0
        BY <1>1 DEF AInv, AssistantTyped
      <4> QED  BY <1>1, <2>3, <3>2, <4>1
    <3> QED  BY <3>1, <3>2
  <2>5. Rank(histories[chan][i]) <= 2 * histories[chan][i].id + 1
    BY <2>3 DEF Rank
  <2>6. Rank(histories[chan][i]) \in Int
    BY <2>3 DEF Rank
  <2> QED  BY <1>1, <1>2, <2>2, <2>3, <2>4, <2>5, <2>6
<1>4. histories' = histories \/ (m.chan \in Channels /\ histories' = Pushed(m.chan, e))
  <2>1. m.chan \in Places
    BY <1>1, MessageIsKind
  <2> QED  BY <2>1 DEF Take, Recorded, Places, Channels
<1>5. /\ histories' \in [Channels -> Seq(Entries) \cup {NoHistory}]
      /\ \A c \in Channels : histories'[c] # NoHistory =>
           /\ InOrder(histories'[c])
           /\ histories[c] # NoHistory
           /\ \A i \in DOMAIN histories'[c] :
                \/ c = m.chan /\ histories'[c][i] = e
                \/ \E j \in DOMAIN histories[c] : histories'[c][i] = histories[c][j]
  <2>1. CASE histories' = histories
    BY <2>1 DEF AInv, AssistantTyped, HistoriesSound
  <2>2. CASE m.chan \in Channels /\ histories' = Pushed(m.chan, e)
    <3>1. \A i \in DOMAIN histories[m.chan] : histories[m.chan] # NoHistory =>
             Rank(histories[m.chan][i]) < Rank(e)
      BY <1>3, <2>2
    <3>2. CASE histories[m.chan] = NoHistory
      <4>1. histories' = histories
        BY <1>2, <2>2, <3>2, PushedIs
      <4> QED  BY <4>1, <2>1
    <3>3. CASE histories[m.chan] # NoHistory
      <4>1. histories' \in [Channels -> Seq(Entries) \cup {NoHistory}]
        BY <1>2, <2>2, PushedIs
      <4>2. \A c \in Channels : Pushed(m.chan, e)[c] # NoHistory =>
               /\ InOrder(Pushed(m.chan, e)[c])
               /\ histories[c] # NoHistory
               /\ \A i \in DOMAIN Pushed(m.chan, e)[c] :
                    \/ c = m.chan /\ Pushed(m.chan, e)[c][i] = e
                    \/ \E j \in DOMAIN histories[c] : Pushed(m.chan, e)[c][i] = histories[c][j]
        <5>1. \A i \in DOMAIN histories[m.chan] : Rank(histories[m.chan][i]) < Rank(e)
          BY <3>1, <3>3
        <5> QED  BY <1>2, <2>2, <5>1, PushedInOrder
      <4> QED  BY <2>2, <4>1, <4>2
    <3> QED  BY <3>2, <3>3
  <2> QED  BY <1>4, <2>1, <2>2
<1>6. ASSUME NEW c \in Channels, histories[c] # NoHistory, NEW j \in DOMAIN histories[c],
             NEW old, old = histories[c][j]
      PROVE  Faithful(c, old)'
  <2>1. Faithful(c, old)
    BY <1>6 DEF AInv, HistoriesSound
  <2>2. old.id \in Int /\ old.id < id /\ old.bot \in BOOLEAN
    BY <1>3, <1>6 DEF Entries
  <2>3. Rank(old) <= 2 * id
    BY <1>1, <2>2 DEF Rank
  <2> QED  BY <1>1, <2>1, <2>3, EntryStands
<1>7. ASSUME NEW new, new = e
      PROVE  Faithful(m.chan, new)'
  <2>1. new.id = id /\ new.bot = FALSE /\ Rank(new) = 2 * id
    BY <1>2, <1>7
  <2>2. Message(id)'.chan = m.chan
    BY <1>1
  <2> QED  BY <1>1, <2>1, <2>2 DEF Faithful, Rank
<1>8. HistoriesSound'
  <2>1. ASSUME NEW c \in Channels, histories'[c] # NoHistory
        PROVE  InOrder(histories[c])'
    BY <1>5, <2>1 DEF InOrder, Rank
  <2>2. ASSUME NEW c \in Channels, histories'[c] # NoHistory, NEW i \in DOMAIN histories'[c],
               NEW x, x = histories'[c][i]
        PROVE  Faithful(c, x)'
    <3>1. \/ c = m.chan /\ x = e
          \/ histories[c] # NoHistory /\ \E j \in DOMAIN histories[c] : x = histories[c][j]
      BY <1>5, <2>2
    <3> QED  BY <1>6, <1>7, <2>2, <3>1
  <2> QED  BY <2>1, <2>2 DEF HistoriesSound
<1>9. \A chan \in Channels : histories[chan] # NoHistory =>
        \A i \in DOMAIN histories[chan] :
          histories[chan][i].id \in Int /\ histories[chan][i].id < id
  BY <1>3
<1> QED  BY <1>5, <1>8, <1>9

LEMMA BucketIs == \A word : Bucket(word) \in {"ai", "news"}
  BY DEF Bucket

\* What record writes: the moment for one user and kind, the rest is kept.
LEMMA RecordIs ==
  ASSUME AInv, NEW m \in Kinds
  PROVE  /\ record(m) \in [{"ai", "news"} -> [Users -> Int]]
         /\ record(m)[Bucket(m.word)][m.by] = moment
         /\ \A b \in {"ai", "news"}, u \in Users :
              record(m)[b][u] = moment \/ record(m)[b][u] = lastUse[b][u]
<1>1. lastUse \in [{"ai", "news"} -> [Users -> Int]] /\ moment \in Int /\ m.by \in Users
  BY AssistantAssumption DEF AInv, AssistantTyped
<1> PICK bucket : bucket = Bucket(m.word)
  OBVIOUS
<1>2. bucket \in {"ai", "news"}
  BY BucketIs
<1>3. record(m) = [lastUse EXCEPT ![bucket][m.by] = moment]
  BY DEF record
<1> QED  BY <1>1, <1>2, <1>3

\* A turn begins: the cooldown remembers it.
LEMMA BegunRemembered ==
  ASSUME AInv, NEW id, Take(id), arrived' = arrived, moment' = moment,
         lastUse' = record(Message(id)), Begins(id)
  PROVE  TurnsRemembered'
<1> PICK m : m = Message(id)
  OBVIOUS
<1>1. /\ id \in DOMAIN arrived /\ id \in Nat /\ Kept /\ Had(id)' /\ m \in Kinds /\ m.by \in Users
  BY TakenIsOldest, MessageIsKind
<1>2. moment \in Nat /\ arrived \in Seq(Kinds)
  BY DEF AInv, AssistantTyped
<1> SUFFICES ASSUME NEW b \in begun'
             PROVE  /\ Had(b.id)' /\ b.at \in Nat /\ b.at <= moment
                    /\ b.at <= record(m)[Bucket(Message(b.id)'.word)][Message(b.id)'.by]
  BY DEF TurnsRemembered, Bucket, is_ai_trigger
<1>3. CASE b \in begun
  <2>1. /\ Had(b.id) /\ b.at \in Nat /\ b.at <= moment
        /\ b.at <= lastUse[Bucket(Message(b.id).word)][Message(b.id).by]
    BY <1>3 DEF AInv, TurnsRemembered
  <2>2. Had(b.id)' /\ Message(b.id)' = Message(b.id)
    BY <1>1, <2>1 DEF Kept
  <2>3. Message(b.id).by \in Users
    BY <2>1, MessageIsKind DEF Had
  <2>4. Bucket(Message(b.id).word) \in {"ai", "news"}
    BY BucketIs
  <2>5. PICK bucket, user : bucket = Bucket(Message(b.id).word) /\ user = Message(b.id).by
    OBVIOUS
  <2>6. record(m)[bucket][user] = moment \/ record(m)[bucket][user] = lastUse[bucket][user]
    BY <1>1, <2>3, <2>4, <2>5, RecordIs
  <2> QED  BY <2>1, <2>2, <2>5, <2>6
<1>4. CASE b \notin begun
  <2>1. Message(id)' = m /\ b.id = id /\ b.at = moment
    BY <1>4 DEF Message, Begins
  <2>2. record(m)[Bucket(m.word)][m.by] = moment
    BY <1>1, RecordIs
  <2> QED  BY <1>1, <1>2, <1>4, <2>1, <2>2
<1> QED  BY <1>3, <1>4

\* Every way to take a message.
LEMMA TakeKeeps ==
  ASSUME AInv, NEW id, Take(id), answers \subseteq answers',
         UNCHANGED <<arrived, moment, knob, transcript>>,
         \/ turn' = Idle
         \/ turn'.id = id /\ DOMAIN turn' = TurnFields /\ turn'.phase \in Phases,
         \/ lastUse' = lastUse /\ begun' = begun
         \/ lastUse' = record(Message(id)) /\ Begins(id)
  PROVE  AInv'
<1>1. /\ id \in DOMAIN arrived /\ Kept /\ Had(id)' /\ inbox' \in Seq(Nat) /\ InboxInOrder'
  BY TakenIsOldest
<1>2. Message(id) \in Kinds
  BY <1>1, MessageIsKind
<1>3. histories' \in [Channels -> Seq(Entries) \cup {NoHistory}] /\ HistoriesSound'
  <2>1. turn' = Idle \/ turn'.id = id
    OBVIOUS
  <2> QED  BY <2>1, HistoriesTake
<1>4. lastUse' \in [{"ai", "news"} -> [Users -> Int]]
  <2>1. CASE lastUse' = lastUse
    BY <2>1 DEF AInv, AssistantTyped
  <2>2. CASE lastUse' = record(Message(id))
    BY <1>2, <2>2, RecordIs
  <2> QED  BY <2>1, <2>2
<1>5. AssistantTyped'
  BY <1>1, <1>3, <1>4 DEF AInv, AssistantTyped
<1>6. TurnOfMessage'
  BY <1>1 DEF TurnOfMessage, TurnFields, Phases
<1>7. TranscriptSound'
  BY TranscriptStands
<1>8. TurnsRemembered'
  <2>1. moment' \in Nat /\ moment <= moment'
    BY DEF AInv, AssistantTyped
  <2>2. CASE lastUse' = lastUse /\ begun' = begun
    BY <1>1, <2>1, <2>2, TurnsStand
  <2>3. CASE lastUse' = record(Message(id)) /\ Begins(id)
    BY <2>3, BegunRemembered
  <2> QED  BY <2>2, <2>3
<1> QED  BY <1>1, <1>3, <1>5, <1>6, <1>7, <1>8 DEF AInv

LEMMA DispatchKeeps == AInv /\ Dispatch => AInv'
<1> SUFFICES ASSUME AInv, Dispatch
             PROVE  AInv'
  OBVIOUS
<1>1. ASSUME NEW id, Take(id), UNCHANGED <<arrived, moment, knob, transcript, turn, lastUse, begun>>,
             answers \subseteq answers'
      PROVE  AInv'
  <2>1. turn' = Idle
    BY <1>1 DEF Take
  <2> QED  BY <1>1, <2>1, TakeKeeps
<1>2. CASE Ignore
  BY <1>1, <1>2 DEF Ignore, assistantHistory
<1>3. CASE Suspend
  BY <1>1, <1>3 DEF Suspend, Say
<1>4. CASE Unsuspend
  BY <1>1, <1>4 DEF Unsuspend, Say
<1>5. CASE Refused
  BY <1>1, <1>5 DEF Refused, Say
<1>6. CASE Usage
  BY <1>1, <1>6 DEF Usage, Say
<1>7. CASE BeginNews
  <2>1. PICK id \in DOMAIN arrived :
          /\ Take(id) /\ UNCHANGED <<arrived, suspended, moment, knob, transcript>>
          /\ \/ answers \subseteq answers' /\ UNCHANGED <<turn, lastUse, begun>>
             \/ /\ lastUse' = record(Message(id))
                /\ \E prompt : turn' = [phase |-> "asking", id |-> id, kind |-> "news",
                                        round |-> 0, prompt |-> prompt]
                /\ Begins(id)
                /\ UNCHANGED answers
    BY <1>7 DEF BeginNews, Say
  <2>2. CASE UNCHANGED <<turn, lastUse, begun>> /\ answers \subseteq answers'
    BY <1>1, <2>1, <2>2
  <2>3. CASE /\ lastUse' = record(Message(id))
             /\ \E prompt : turn' = [phase |-> "asking", id |-> id, kind |-> "news",
                                     round |-> 0, prompt |-> prompt]
             /\ Begins(id)
             /\ UNCHANGED answers
    <3>1. turn'.id = id /\ DOMAIN turn' = TurnFields /\ turn'.phase \in Phases
      BY <2>3 DEF TurnFields, Phases
    <3> QED  BY <2>1, <2>3, <3>1, TakeKeeps
  <2> QED  BY <2>1, <2>2, <2>3
<1>8. CASE BeginTurn
  <2>1. PICK id \in DOMAIN arrived :
          /\ Take(id) /\ UNCHANGED <<arrived, suspended, moment, knob, transcript, answers>>
          /\ lastUse' = record(Message(id))
          /\ turn' = [phase |-> "naming", id |-> id, kind |-> "ai", round |-> 0, prompt |-> None]
          /\ Begins(id)
    BY <1>8 DEF BeginTurn
  <2>2. turn'.id = id /\ DOMAIN turn' = TurnFields /\ turn'.phase \in Phases
    BY <2>1 DEF TurnFields, Phases
  <2> QED  BY <2>1, <2>2, TakeKeeps
<1> QED  BY <1>2, <1>3, <1>4, <1>5, <1>6, <1>7, <1>8 DEF Dispatch

-----------------------------------------------------------------------------
(* No message is taken *)

LEMMA StillKeeps ==
  ASSUME AInv, UNCHANGED <<arrived, inbox, histories, lastUse, transcript, begun>>,
         answers \subseteq answers', knob' \in Knobs, moment' \in Nat, moment <= moment',
         \/ turn' = Idle
         \/ turn # Idle /\ turn'.id = turn.id /\ DOMAIN turn' = TurnFields /\ turn'.phase \in Phases
  PROVE  AInv'
<1>1. Kept /\ InboxInOrder'
  BY Quiet DEF AInv
<1>2. AssistantTyped'
  BY DEF AInv, AssistantTyped
<1>3. TurnOfMessage'
  BY <1>1 DEF AInv, TurnOfMessage, Kept
<1>4. HistoriesSound'
  <2>1. turn' = Idle \/ (turn # Idle /\ turn'.id = turn.id)
    OBVIOUS
  <2> QED  BY <1>1, <2>1, HistoriesStand
<1>5. TranscriptSound'
  BY TranscriptStands
<1>6. TurnsRemembered'
  BY <1>1, TurnsStand
<1> QED  BY <1>1, <1>2, <1>3, <1>4, <1>5, <1>6 DEF AInv

\* The answer stands behind its question and before what comes after it.
LEMMA AnsweredKeeps ==
  ASSUME AInv, NEW r \in Replies, Answered(r)
  PROVE  AInv'
<1>1. /\ turn.phase = "asking" /\ turn' = Idle
      /\ UNCHANGED <<arrived, inbox, suspended, lastUse, moment, knob, begun>>
  BY DEF Answered, Asked
<1>2. /\ turn # Idle /\ Had(turn.id)
      /\ moment' \in Nat /\ moment <= moment' /\ knob' \in Knobs
  <2>1. Idle.phase # "asking"
    BY DEF Idle
  <2> QED  BY <1>1, <2>1 DEF AInv, TurnOfMessage, AssistantTyped
<1>3. CASE UNCHANGED <<histories, transcript, answers>>
  BY <1>1, <1>2, <1>3, StillKeeps
<1>4. CASE /\ Say(turn.id, "text")
           /\ histories' = Pushed(buffer_for(Message(turn.id).chan),
                             [id |-> turn.id, by |-> Bot, bot |-> TRUE, size |-> 1])
           /\ \/ /\ is_primary_source(Message(turn.id).chan)
                 /\ transcript' = Append(transcript, [id |-> turn.id, chan |-> Message(turn.id).chan])
              \/ transcript' = transcript
  <2> PICK id, source, chan, e :
        /\ id = turn.id /\ source = Message(turn.id).chan /\ chan = buffer_for(source)
        /\ e = [id |-> id, by |-> Bot, bot |-> TRUE, size |-> 1]
    OBVIOUS
  <2>1. Kept /\ InboxInOrder'
    BY <1>1, Quiet DEF AInv
  <2>2. id \in DOMAIN arrived /\ id \in Nat /\ source \in Places /\ id > 0 /\ Had(id)' /\ Message(id)' = Message(id)
    <3>1. Had(id)
      BY <1>2
    <3>2. id \in DOMAIN arrived
      BY <3>1 DEF Had
    <3>3. arrived \in Seq(Kinds)
      BY DEF AInv, AssistantTyped
    <3> QED  BY <2>1, <3>1, <3>2, <3>3, MessageIsKind DEF Kept
  <2>3. chan \in Channels /\ (chan = "ai" => source = "ai")
    BY DEF buffer_for, Channels
  <2>4. e \in Entries /\ Rank(e) = 2 * id + 1 /\ e.id = id /\ e.bot = TRUE
    BY <2>2 DEF Entries, Writers, Rank
  <2>5. answers \subseteq answers' /\ <<id, "text">> \in answers'
    BY <1>4 DEF Say
  <2>6. ASSUME NEW c \in Channels, histories[c] # NoHistory, NEW i \in DOMAIN histories[c]
        PROVE  Rank(histories[c][i]) <= 2 * id /\ Rank(histories[c][i]) \in Int
    <3>1. Faithful(c, histories[c][i]) /\ histories[c] \in Seq(Entries)
      BY <2>6 DEF AInv, HistoriesSound, AssistantTyped
    <3>2. histories[c][i] \in Entries
      BY <2>6, <3>1, ElementOfSeq
    <3> QED  BY <1>2, <3>1, <3>2 DEF Faithful, Rank, Entries
  <2>7. histories' = Pushed(chan, e)
    BY <1>4
  <2>8. /\ histories' \in [Channels -> Seq(Entries) \cup {NoHistory}]
        /\ \A c \in Channels : histories'[c] # NoHistory =>
             /\ InOrder(histories'[c])
             /\ histories[c] # NoHistory
             /\ \A i \in DOMAIN histories'[c] :
                  \/ c = chan /\ histories'[c][i] = e
                  \/ \E j \in DOMAIN histories[c] : histories'[c][i] = histories[c][j]
    <3>1. histories' \in [Channels -> Seq(Entries) \cup {NoHistory}]
      BY <2>3, <2>4, <2>7, PushedIs
    <3>2. CASE histories[chan] = NoHistory
      <4>1. histories' = histories
        BY <2>3, <2>4, <2>7, <3>2, PushedIs
      <4> QED  BY <3>1, <4>1 DEF AInv, HistoriesSound
    <3>3. CASE histories[chan] # NoHistory
      <4>1. \A i \in DOMAIN histories[chan] : Rank(histories[chan][i]) < Rank(e)
        BY <2>2, <2>3, <2>4, <2>6, <3>3
      <4>2. \A c \in Channels : Pushed(chan, e)[c] # NoHistory =>
               /\ InOrder(Pushed(chan, e)[c])
               /\ histories[c] # NoHistory
               /\ \A i \in DOMAIN Pushed(chan, e)[c] :
                    \/ c = chan /\ Pushed(chan, e)[c][i] = e
                    \/ \E j \in DOMAIN histories[c] : Pushed(chan, e)[c][i] = histories[c][j]
        <5>1. chan \in Channels
          BY <2>3
        <5>2. e \in Entries
          BY <2>4
        <5> QED  BY <4>1, <5>1, <5>2, PushedInOrder
      <4> QED  BY <2>7, <3>1, <4>2
    <3> QED  BY <3>2, <3>3
  <2>9. HistoriesSound'
    <3>1. ASSUME NEW c \in Channels, histories'[c] # NoHistory
          PROVE  InOrder(histories[c])'
      BY <2>8, <3>1 DEF InOrder, Rank
    <3>2. ASSUME NEW c \in Channels, histories'[c] # NoHistory, NEW i \in DOMAIN histories'[c],
                 NEW x, x = histories'[c][i]
          PROVE  Faithful(c, x)'
      <4>1. CASE c = chan /\ x = e
        BY <1>1, <2>2, <2>3, <2>4, <2>5, <4>1 DEF Faithful
      <4>2. CASE histories[c] # NoHistory /\ \E j \in DOMAIN histories[c] : x = histories[c][j]
        <5>1. Faithful(c, x)
          BY <4>2 DEF AInv, HistoriesSound
        <5> QED  BY <1>1, <2>1, <2>5, <5>1, EntryStands
      <4> QED  BY <2>8, <3>2, <4>1, <4>2
    <3> QED  BY <3>1, <3>2 DEF HistoriesSound
  <2>10. transcript' \in Seq([id : Nat, chan : Places]) /\ TranscriptSound'
    <3>1. transcript \in Seq([id : Nat, chan : Places])
      BY DEF AInv, AssistantTyped
    <3>2. CASE transcript' = transcript
      BY <2>5, <3>1, <3>2, TranscriptStands
    <3>3. CASE source # "ai" /\ transcript' = Append(transcript, [id |-> id, chan |-> source])
      <4>1. /\ transcript' \in Seq([id : Nat, chan : Places])
            /\ \A i \in DOMAIN transcript' :
                 transcript'[i] = [id |-> id, chan |-> source]
                 \/ (i \in DOMAIN transcript /\ transcript'[i] = transcript[i])
        BY <2>2, <3>1, <3>3, AppendProperties
      <4>2. \A i \in DOMAIN transcript : transcript[i].chan # "ai" /\ <<transcript[i].id, "text">> \in answers
        BY DEF AInv, TranscriptSound
      <4>3. ASSUME NEW i \in DOMAIN transcript', NEW line, line = transcript'[i]
            PROVE  line.chan # "ai" /\ <<line.id, "text">> \in answers'
        <5>1. CASE line = [id |-> id, chan |-> source]
          BY <2>5, <3>3, <5>1
        <5>2. CASE i \in DOMAIN transcript /\ line = transcript[i]
          BY <2>5, <4>2, <5>2
        <5> QED  BY <4>1, <4>3, <5>1, <5>2
      <4> QED  BY <4>1, <4>3 DEF TranscriptSound
    <3> QED  BY <1>4, <3>2, <3>3 DEF is_primary_source
  <2>11. AssistantTyped'
    BY <1>1, <2>8, <2>10 DEF AInv, AssistantTyped
  <2>12. TurnOfMessage'
    BY <1>1 DEF TurnOfMessage
  <2>13. TurnsRemembered'
    BY <1>1, <1>2, <2>1, TurnsStand
  <2> QED  BY <2>1, <2>9, <2>10, <2>11, <2>12, <2>13 DEF AInv
<1> QED  BY <1>3, <1>4 DEF Answered

LEMMA ModelKeeps == AInv /\ Model => AInv'
<1> SUFFICES ASSUME AInv, Model
             PROVE  AInv'
  OBVIOUS
<1>1. ASSUME UNCHANGED <<arrived, inbox, histories, lastUse, moment, knob, transcript, begun>>,
             answers \subseteq answers',
             \/ turn' = Idle
             \/ turn # Idle /\ turn'.id = turn.id /\ DOMAIN turn' = TurnFields /\ turn'.phase \in Phases
      PROVE  AInv'
  <2>1. knob' \in Knobs /\ moment' \in Nat /\ moment <= moment'
    BY <1>1 DEF AInv, AssistantTyped
  <2> QED  BY <1>1, <2>1, StillKeeps
<1>2. turn # Idle => DOMAIN turn = TurnFields
  BY DEF AInv, TurnOfMessage
<1>3. ASSUME NEW r \in Replies, Failed(r)
      PROVE  AInv'
  BY <1>1, <1>3 DEF Failed, Say
<1>4. ASSUME NEW r \in Replies, CallsTools(r)
      PROVE  AInv'
  <2>1. turn # Idle
    BY <1>4 DEF CallsTools, Asked, Idle
  <2>2. turn'.id = turn.id /\ DOMAIN turn' = TurnFields /\ turn'.phase \in Phases
    BY <1>2, <1>4, <2>1 DEF CallsTools, TurnFields, Phases
  <2> QED  BY <1>1, <1>4, <2>1, <2>2 DEF CallsTools, assistantHistory
<1>5. CASE ToolsDone
  <2>1. turn # Idle
    BY <1>5 DEF ToolsDone, Idle
  <2>2. CASE turn' = [turn EXCEPT !.phase = "asking", !.round = @ + 1]
    <3>1. turn'.id = turn.id /\ DOMAIN turn' = TurnFields /\ turn'.phase \in Phases
      BY <1>2, <2>1, <2>2 DEF TurnFields, Phases
    <3> QED  BY <1>1, <1>5, <2>1, <3>1 DEF ToolsDone, assistantHistory
  <2>3. CASE turn' = Idle
    BY <1>1, <1>5, <2>3 DEF ToolsDone, assistantHistory
  <2> QED  BY <1>5, <2>2, <2>3 DEF ToolsDone
<1>6. CASE SearchDone
  <2>1. turn # Idle
    BY <1>6 DEF SearchDone, Idle
  <2>2. turn'.id = turn.id /\ DOMAIN turn' = TurnFields /\ turn'.phase \in Phases
    BY <1>2, <1>6, <2>1 DEF SearchDone, TurnFields, Phases
  <2> QED  BY <1>1, <1>6, <2>1, <2>2 DEF SearchDone, assistantHistory
<1>7. ASSUME NEW r \in Replies, EndNews(r)
      PROVE  AInv'
  <2>1. turn # Idle
    BY <1>7 DEF EndNews, Idle
  <2>2. CASE turn' = [turn EXCEPT !.phase = "whispering"] /\ UNCHANGED answers
    <3>1. turn'.id = turn.id /\ DOMAIN turn' = TurnFields /\ turn'.phase \in Phases
      BY <1>2, <2>1, <2>2 DEF TurnFields, Phases
    <3> QED  BY <1>1, <1>7, <2>1, <2>2, <3>1 DEF EndNews
  <2>3. CASE turn' = Idle /\ answers \subseteq answers'
    BY <1>1, <1>7, <2>3 DEF EndNews
  <2> QED  BY <1>7, <2>2, <2>3 DEF EndNews, Say
<1> QED  BY <1>3, <1>4, <1>5, <1>6, <1>7, AnsweredKeeps DEF Model

\* A turn that has its name goes on with a prompt, or it ends.
LEMMA NamedIs ==
  ASSUME NEW memory, Named(memory)
  PROVE  /\ turn # Idle
         /\ \/ turn' = Idle
            \/ \E phase \in {"searching", "asking"} :
                 turn' = [turn EXCEPT !.phase = phase, !.prompt = Prompt(Message(turn.id), memory)]
<1>1. turn # Idle
  BY DEF Named, Idle
<1>2. PICK phase : phase = IF Message(turn.id).word = "@grok" /\ WebTools THEN "searching" ELSE "asking"
  OBVIOUS
<1>3. \/ turn' = Idle
      \/ turn' = [turn EXCEPT !.phase = phase, !.prompt = Prompt(Message(turn.id), memory)]
  BY <1>2, Zenon DEF Named
<1> QED  BY <1>1, <1>2, <1>3

\* What a step of a turn does to it.
LEMMA TurnSteps ==
  ASSUME Model \/ UntimedNext
  PROVE  /\ turn # Idle /\ UNCHANGED <<arrived, inbox, begun>>
         /\ Model => turn.phase # "naming"
         /\ \/ turn' = Idle
            \/ Model /\ turn' = [turn EXCEPT !.phase = "asking", !.round = @ + 1]
            \/ \E phase \in {"asking", "tools", "whispering"} : Model /\ turn' = [turn EXCEPT !.phase = phase]
            \/ \E phase \in {"searching", "asking"} : \E prompt :
                 ~Model /\ turn' = [turn EXCEPT !.phase = phase, !.prompt = prompt]
<1>1. CASE Model
  <2>1. turn.phase \in {"asking", "tools", "searching"} /\ UNCHANGED <<arrived, inbox, begun>>
    BY <1>1 DEF Model, EndNews, Answered, Failed, CallsTools, ToolsDone, SearchDone, Asked, assistantHistory
  <2>2. \/ turn' = Idle
        \/ turn' = [turn EXCEPT !.phase = "tools"]
        \/ turn' = [turn EXCEPT !.phase = "whispering"]
        \/ turn' = [turn EXCEPT !.phase = "asking", !.round = @ + 1]
        \/ turn' = [turn EXCEPT !.phase = "asking"]
    BY <1>1 DEF Model, EndNews, Answered, Failed, CallsTools, ToolsDone, SearchDone
  <2>3. turn # Idle /\ turn.phase # "naming"
    BY <2>1 DEF Idle
  <2> QED  BY <1>1, <2>1, <2>2, <2>3
<1>2. CASE ~Model
  <2>1. UNCHANGED <<arrived, inbox, begun>>
    BY <1>2 DEF UntimedNext, Named, Whispered, assistantHistory
  <2>2. ASSUME NEW memory \in Memories, Named(memory)
        PROVE  /\ turn # Idle
               /\ \/ turn' = Idle
                  \/ \E phase \in {"searching", "asking"} : \E prompt :
                       turn' = [turn EXCEPT !.phase = phase, !.prompt = prompt]
    BY <2>2, NamedIs
  <2>3. ASSUME NEW ok \in BOOLEAN, Whispered(ok)
        PROVE  turn # Idle /\ turn' = Idle
    BY <2>3 DEF Whispered, Idle
  <2> QED  BY <1>2, <2>1, <2>2, <2>3 DEF UntimedNext
<1> QED  BY <1>1, <1>2

\* The model catalog or Twitch has answered, after whatever time.
LEMMA UntimedKeeps == AInv /\ UntimedNext => AInv'
<1> SUFFICES ASSUME AInv, UntimedNext
             PROVE  AInv'
  OBVIOUS
<1>1. /\ UNCHANGED <<arrived, inbox, histories, lastUse, moment, knob, transcript, begun>>
      /\ answers \subseteq answers'
  BY DEF UntimedNext, Named, Whispered, Say, assistantHistory
<1>2. \/ turn' = Idle
      \/ turn # Idle /\ turn'.id = turn.id /\ DOMAIN turn' = TurnFields /\ turn'.phase \in Phases
  <2>1. ASSUME NEW memory \in Memories, Named(memory), turn' # Idle
        PROVE  turn # Idle /\ turn'.id = turn.id /\ DOMAIN turn' = TurnFields /\ turn'.phase \in Phases
    <3>1. turn # Idle /\ DOMAIN turn = TurnFields
      BY <2>1, NamedIs DEF AInv, TurnOfMessage
    <3>2. \E phase \in {"searching", "asking"}, prompt \in {Prompt(Message(turn.id), memory)} :
            turn' = [turn EXCEPT !.phase = phase, !.prompt = prompt]
      BY <2>1, NamedIs
    <3> QED  BY <3>1, <3>2 DEF TurnFields, Phases
  <2> QED  BY <2>1 DEF UntimedNext, Whispered
<1>3. knob' \in Knobs /\ moment' \in Nat /\ moment <= moment'
  BY <1>1 DEF AInv, AssistantTyped
<1> QED  BY <1>1, <1>2, <1>3, StillKeeps

LEMMA AssistantStep == AInv /\ [AssistantNext]_assistantVars => AInv'
<1> SUFFICES ASSUME AInv, [AssistantNext]_assistantVars
             PROVE  AInv'
  OBVIOUS
<1>1. /\ knob \in Knobs /\ moment \in Nat
      /\ turn # Idle => DOMAIN turn = TurnFields /\ turn.phase \in Phases
  BY DEF AInv, AssistantTyped, TurnOfMessage
<1>2. ASSUME NEW k \in Kinds, Arrive(k)
      PROVE  AInv'
  BY <1>2, ArriveKeeps
<1>3. CASE Pass
  BY <1>1, <1>3, StillKeeps DEF Pass, assistantHistory
<1>4. ASSUME NEW k \in Knobs, Retune(k)
      PROVE  AInv'
  BY <1>1, <1>4, StillKeeps DEF Retune, assistantHistory
<1>5. CASE UNCHANGED assistantVars
  BY <1>1, <1>5, StillKeeps DEF assistantVars, assistantHistory
<1> QED  BY <1>2, <1>3, <1>4, <1>5, DispatchKeeps, ModelKeeps, UntimedKeeps DEF AssistantNext

-----------------------------------------------------------------------------
(* Histories *)

(* While turns wait for the model and their answers come in late: every    *)
(* reachable state has histories in the order of the conversation, with    *)
(* nobody else's messages and no answer that was not given.                *)
THEOREM AssistantInvariant == AssistantSpec => []AInv
<1>1. AssistantInit => AInv
  BY AssistantStarts
<1>2. AInv /\ [AssistantNext]_assistantVars => AInv'
  BY AssistantStep
<1> QED  BY <1>1, <1>2, PTL DEF AssistantSpec

THEOREM HistoriesAreFaithful == AssistantSpec => []HistoryFaithful
<1>1. AInv => HistoryFaithful
  BY DEF AInv, HistoriesSound, TranscriptSound, InOrder, Faithful, HistoryFaithful, Channels
<1> QED  BY <1>1, AssistantInvariant, PTL

-----------------------------------------------------------------------------
(* Turns begin *)

\* Where a turn begins.
LEMMA TurnBegins ==
  ASSUME AInv, [AssistantNext]_assistantVars, begun' # begun \/ (turn = Idle /\ turn' # Idle)
  PROVE  \E id \in DOMAIN arrived :
           /\ Take(id) /\ Reaches(Message(id)) /\ ~OnCooldown(Message(id))
           /\ Begins(id)
           /\ BeginNews \/ BeginTurn
<1>1. BeginNews \/ BeginTurn
  <2>1. CASE UNCHANGED assistantVars
    BY <2>1 DEF assistantVars, assistantHistory
  <2>2. CASE \E k \in Kinds : Arrive(k)
    BY <2>2 DEF Arrive, assistantHistory
  <2>3. CASE Pass \/ \E k \in Knobs : Retune(k)
    BY <2>3 DEF Pass, Retune, assistantHistory
  <2>4. CASE Model \/ UntimedNext
    BY <2>4, TurnSteps
  <2>5. CASE Dispatch
    BY <2>5 DEF Dispatch, Ignore, Suspend, Unsuspend, Refused, Usage, assistantHistory
  <2> QED  BY <2>1, <2>2, <2>3, <2>4, <2>5 DEF AssistantNext
<1>2. CASE BeginNews
  BY <1>2 DEF BeginNews
<1>3. CASE BeginTurn
  BY <1>3 DEF BeginTurn
<1> QED  BY <1>1, <1>2, <1>3

LEMMA AllowedStep ==
  ASSUME AInv, [AssistantNext]_assistantVars, NEW b \in begun' \ begun
  PROVE  LET m == Message(b.id) IN
         /\ Bucket(m.word) = "ai" => ~is_suspended("ai")
         /\ \A earlier \in begun :
              Message(earlier.id).by = m.by /\ Bucket(Message(earlier.id).word) = Bucket(m.word)
                => b.at - earlier.at >= knob.cooldown[Bucket(m.word)]
<1>1. PICK id \in DOMAIN arrived :
        /\ Take(id) /\ Reaches(Message(id)) /\ ~OnCooldown(Message(id))
        /\ Begins(id)
  BY TurnBegins
<1>2. b.id = id /\ b.at = moment
  BY <1>1 DEF Begins
<1> PICK m, bucket : m = Message(id) /\ bucket = Bucket(m.word)
  OBVIOUS
<1>3. bucket \in {"ai", "news"} /\ m.by \in Users /\ m \in Kinds
  BY BucketIs, MessageIsKind
<1>4. bucket = "ai" => ~is_suspended("ai")
  BY <1>1 DEF Reaches, suspend_key, Bucket
<1>5. ASSUME NEW earlier \in begun, Message(earlier.id).by = m.by,
             Bucket(Message(earlier.id).word) = bucket
      PROVE  moment - earlier.at >= knob.cooldown[bucket]
  <2>1. earlier.at \in Nat /\ earlier.at <= lastUse[bucket][m.by]
    BY <1>5 DEF AInv, TurnsRemembered
  <2>2. lastUse[bucket][m.by] \in Int /\ moment \in Nat
    BY <1>3 DEF AInv, AssistantTyped
  <2>3. knob.cooldown[bucket] \in Nat
    <3>1. knob.cooldown.ai \in Nat /\ knob.cooldown.news \in Nat
      BY KnobIsNat DEF AInv, AssistantTyped
    <3> QED  BY <1>3, <3>1
  <2>4. ~(moment - lastUse[bucket][m.by] < knob.cooldown[bucket])
    BY <1>1 DEF OnCooldown
  <2> QED  BY <2>1, <2>2, <2>3, <2>4
<1> QED  BY <1>2, <1>4, <1>5

(* No order of messages, settings saved meanwhile and suspensions lifted   *)
(* lets a turn begin before its time, or under the other name.             *)
THEOREM TurnsAreAllowed == AssistantSpec => TurnsAllowed
<1>1. AInv /\ [AssistantNext]_assistantVars =>
        [\A b \in begun' \ begun :
           LET m == Message(b.id) IN
           /\ Bucket(m.word) = "ai" => ~is_suspended("ai")
           /\ \A earlier \in begun :
                Message(earlier.id).by = m.by /\ Bucket(Message(earlier.id).word) = Bucket(m.word)
                  => b.at - earlier.at >= knob.cooldown[Bucket(m.word)]]_assistantVars
  BY AllowedStep
<1> QED  BY <1>1, AssistantInvariant, PTL DEF AssistantSpec, TurnsAllowed

-----------------------------------------------------------------------------
(* The bytes of lines, and what fits into a section *)

\* A set of naturals under a bound has a greatest one.
LEMMA GreatestExists ==
  ASSUME NEW n \in Nat, NEW S \in SUBSET (0..n), S # {}
  PROVE  \E x \in S : \A y \in S : y <= x
<1> DEFINE Bounds == {b \in Nat : \A y \in S : y <= b}
<1>1. n \in Bounds
  OBVIOUS
<1>2. PICK b \in Bounds : \A c \in Bounds : ~(<<c, b>> \in OpToRel(<, Nat))
  <2>1. Bounds \subseteq Nat /\ Bounds # {}
    BY <1>1
  <2> HIDE DEF Bounds
  <2> QED  BY <2>1, NatLessThanWellFounded, WFMin
<1>3. b \in S
  <2> SUFFICES ASSUME b \notin S
               PROVE  FALSE
    OBVIOUS
  <2>1. \A y \in S : y \in Nat /\ y <= b /\ y # b
    OBVIOUS
  <2>2. \A y \in S : y <= b - 1
    BY <2>1
  <2>3. b - 1 \in Nat
    <3>1. PICK y \in S : TRUE
      OBVIOUS
    <3> QED  BY <2>1, <3>1
  <2>4. b - 1 \in Bounds /\ b \in Nat
    BY <2>2, <2>3
  <2>5. <<b - 1, b>> \in OpToRel(<, Nat)
    BY <2>3, <2>4 DEF OpToRel
  <2> QED  BY <1>2, <2>4, <2>5
<1> QED  BY <1>2, <1>3

\* Of one line, the bytes are its size.
LEMMA BytesOfOne ==
  ASSUME NEW e, e.size \in Nat
  PROVE  Bytes(<<e>>) = e.size
<1> DEFINE one == <<e>>
           Body(f, s) == IF s = {} THEN 0 ELSE f[s \ {Max(s)}] + one[Max(s)].size
           P(f) == f = [s \in SUBSET (1..1) |-> Body(f, s)]
           g == CHOOSE f : P(f)
           h == [s \in SUBSET (1..1) |-> IF s = {} THEN 0 ELSE e.size]
<1>1. Max({1}) = 1 /\ SUBSET (1..1) = {{}, {1}}
  <2>1. Max({1}) = 1
    <3>1. 1 \in {1} /\ \A y \in {1} : 1 >= y
      OBVIOUS
    <3>2. \A x \in {1} : x = 1
      OBVIOUS
    <3> QED  BY <3>1, <3>2 DEF Max
  <2>2. 1..1 = {1}
    OBVIOUS
  <2> QED  BY <2>1, <2>2
<1>2. P(h)
  <2>1. ASSUME NEW s \in SUBSET (1..1)
        PROVE  h[s] = Body(h, s)
    <3>1. CASE s = {}
      BY <3>1
    <3>2. CASE s = {1}
      <4>1. s \ {Max(s)} = {} /\ one[Max(s)] = e
        BY <1>1, <3>2
      <4>2. h[{}] = 0 /\ h[s] = e.size
        BY <1>1, <3>2
      <4> HIDE DEF h, one
      <4> QED  BY <3>2, <4>1, <4>2
    <3> QED  BY <1>1, <3>1, <3>2
  <2> QED  BY <2>1
<1>3. P(g)
  <2> HIDE DEF P
  <2> QED  BY <1>2
<1>4. Bytes(one) = g[1..1]
  <2>1. DOMAIN one = 1..1
    OBVIOUS
  <2> HIDE DEF one
  <2> QED  BY <2>1, Zenon DEF Bytes, FoldLeft, MapThenFoldSet
<1>5. g[1..1] = e.size
  <2> HIDE DEF g
  <2>1. /\ {} \in SUBSET (1..1) /\ {1} \in SUBSET (1..1) /\ 1..1 = {1} /\ {1} \ {1} = {}
        /\ one[1] = e
    BY <1>1
  <2>2. g[{}] = 0
    BY <1>3, <2>1
  <2>3. g[{1}] = g[{1} \ {Max({1})}] + one[Max({1})].size
    BY <1>3, <2>1
  <2> QED  BY <1>1, <2>1, <2>2, <2>3
<1> QED  BY <1>4, <1>5

LEMMA BytesOfNone == Bytes(<< >>) = 0
<1> DEFINE P(f) == f = [s \in SUBSET {} |->
                          IF s = {} THEN 0 ELSE f[s \ {Max(s)}] + << >>[Max(s)].size]
           g == CHOOSE f : P(f)
           h == [s \in SUBSET {} |-> 0]
<1>1. P(h)
  OBVIOUS
<1>2. P(g)
  <2> HIDE DEF P
  <2> QED  BY <1>1
<1>3. Bytes(<< >>) = g[{}]
  <2>1. DOMAIN << >> = {}
    OBVIOUS
  <2> QED  BY <2>1, Zenon DEF Bytes, FoldLeft, MapThenFoldSet
<1>4. g[{}] = 0
  BY <1>2
<1> QED  BY <1>3, <1>4

\* A section is the end of its history; when the newest line fits, it is
\* the last one shown.
LEMMA SectionIs ==
  ASSUME NEW s \in Seq(Entries), NEW cap \in Nat
  PROVE  /\ \E n \in 0..Len(s) : render_recent_section(s, cap) = Newest(s, n)
         /\ s # << >> /\ Last(s).size <= cap =>
              /\ render_recent_section(s, cap) # << >>
              /\ Last(render_recent_section(s, cap)) = Last(s)
<1> DEFINE fitting == {n \in 0..Len(s) : Bytes(Newest(s, n)) <= cap}
           most == CHOOSE n \in fitting : \A other \in fitting : other <= n
<1>1. Len(s) \in Nat /\ DOMAIN s = 1..Len(s) /\ render_recent_section(s, cap) = Newest(s, most)
  BY DEF render_recent_section
<1>2. 0 \in fitting
  <2>1. Newest(s, 0) = << >>
    BY <1>1, NewestIs
  <2> QED  BY <1>1, <2>1, BytesOfNone
<1>3. s # << >> /\ Last(s).size <= cap => 1 \in fitting
  <2> SUFFICES ASSUME s # << >>, Last(s).size <= cap
               PROVE  1 \in fitting
    OBVIOUS
  <2>1. Len(s) >= 1 /\ Last(s) = s[Len(s)] /\ s[Len(s)] \in Entries
    BY <1>1 DEF Last
  <2>2. Newest(s, 1) = <<Last(s)>>
    <3> HIDE DEF fitting, most
    <3>1. PICK n \in Nat : n = 1
      OBVIOUS
    <3> DEFINE t == Newest(s, n)
    <3>2. /\ t \in Seq(Entries) /\ Len(t) = IF Len(s) > n THEN n ELSE Len(s)
          /\ \A i \in DOMAIN t : t[i] = s[Len(s) - Len(t) + i]
      BY NewestIs
    <3> HIDE DEF t
    <3>3. Len(t) = 1
      BY <1>1, <2>1, <3>1, <3>2
    <3>4. t[1] = s[Len(s)]
      <4>1. 1 \in DOMAIN t
        BY <3>2, <3>3
      <4>2. t[1] = s[Len(s) - Len(t) + 1]
        BY <3>2, <4>1
      <4>3. Len(s) - Len(t) + 1 = Len(s)
        BY <1>1, <3>3
      <4> QED  BY <4>2, <4>3
    <3>5. t = <<t[1]>>
      BY <3>2, <3>3
    <3> QED  BY <2>1, <3>1, <3>4, <3>5 DEF t
  <2>3. Last(s).size \in Nat
    BY <2>1 DEF Entries
  <2> QED  BY <1>1, <2>1, <2>2, <2>3, BytesOfOne
<1>4. most \in fitting /\ \A other \in fitting : other <= most
  <2>1. fitting \in SUBSET (0..Len(s)) /\ fitting # {}
    BY <1>2
  <2> HIDE DEF fitting
  <2> QED  BY <1>1, <2>1, GreatestExists
<1>5. most \in 0..Len(s)
  BY <1>4
<1>6. ASSUME s # << >>, Last(s).size <= cap
      PROVE  Newest(s, most) # << >> /\ Last(Newest(s, most)) = Last(s)
  <2>1. most >= 1
    BY <1>3, <1>4, <1>6
  <2> HIDE DEF most
  <2>2. /\ Newest(s, most) \in Seq(Entries) /\ Len(Newest(s, most)) = most
        /\ \A i \in DOMAIN Newest(s, most) :
             Newest(s, most)[i] = s[Len(s) - Len(Newest(s, most)) + i]
    BY <1>1, <1>5, NewestIs
  <2>3. Newest(s, most)[most] = s[Len(s)]
    BY <1>1, <1>5, <2>1, <2>2
  <2> QED  BY <2>1, <2>2, <2>3, <1>5 DEF Last
<1> QED  BY <1>1, <1>5, <1>6

-----------------------------------------------------------------------------
(* What a turn is shown of the conversation *)

\* A history after a message was taken: the entries from before, and the
\* message itself as the last one of its channel.
LEMMA HistoryAfterTake ==
  ASSUME AInv, NEW id, Take(id), arrived' = arrived, NEW chan \in Channels,
         histories'[chan] # NoHistory
  PROVE  /\ histories[chan] # NoHistory /\ histories'[chan] \in Seq(Entries)
         /\ \A i \in DOMAIN histories'[chan] :
              \/ histories'[chan][i] = Entry(id, Message(id))
              \/ \E j \in DOMAIN histories[chan] : histories'[chan][i] = histories[chan][j]
         /\ Message(id).chan = chan /\ Room(chan) > 0 =>
              /\ histories'[chan] # << >>
              /\ Last(histories'[chan]) = Entry(id, Message(id))
<1> PICK m, e : m = Message(id) /\ e = Entry(id, m)
  OBVIOUS
<1>1. id \in DOMAIN arrived /\ e \in Entries /\ m.chan \in Places
  BY TakenIsOldest, MessageIsKind
<1>2. histories' = Recorded(id, m)
  BY DEF Take
<1>3. histories \in [Channels -> Seq(Entries) \cup {NoHistory}]
  BY DEF AInv, AssistantTyped
<1>4. CASE Listened(m) /\ m.chan # "admin"
  <2>1. m.chan \in Channels /\ histories' = Pushed(m.chan, e)
    BY <1>1, <1>2, <1>4 DEF Recorded, Places, Channels
  <2>2. CASE m.chan # chan
    <3>1. histories'[chan] = histories[chan]
      BY <1>1, <2>1, <2>2, PushedIs
    <3> QED  BY <1>3, <2>2, <3>1
  <2>3. CASE m.chan = chan
    <3>1. histories[chan] # NoHistory
      BY <1>1, <2>1, <2>3, PushedIs
    <3>2. /\ histories'[chan] = push(histories[chan], Room(chan), e)
          /\ histories[chan] \in Seq(Entries) /\ Room(chan) \in Nat
          /\ histories'[chan] \in Seq(Entries)
      BY <1>1, <2>1, <2>3, <3>1, PushedIs
    <3>3. PICK s \in Seq(Entries), c \in Nat : s = histories[chan] /\ c = Room(chan)
      BY <3>2
    <3>4. /\ \A i \in DOMAIN push(s, c, e) :
               push(s, c, e)[i] = e \/ \E j \in DOMAIN s : push(s, c, e)[i] = s[j]
          /\ c > 0 => push(s, c, e) # << >> /\ Last(push(s, c, e)) = e
      <4>1. e \in Entries
        BY <1>1
      <4>2. ASSUME c > 0
            PROVE  push(s, c, e) # << >> /\ Last(push(s, c, e)) = e
        <5>1. push(s, c, e) # << >>
          BY <4>1, <4>2, PushIs
        <5>2. Last(push(s, c, e)) = e
          BY <4>1, <4>2, PushIs
        <5> QED  BY <5>1, <5>2
      <4>3. \A i \in DOMAIN push(s, c, e) :
               push(s, c, e)[i] = e \/ \E j \in DOMAIN s : push(s, c, e)[i] = s[j]
        BY <4>1, PushIs
      <4> QED  BY <4>2, <4>3
    <3> QED  BY <3>1, <3>2, <3>3, <3>4
  <2> QED  BY <2>2, <2>3
<1>5. CASE ~(Listened(m) /\ m.chan # "admin")
  <2>1. histories' = histories
    BY <1>2, <1>5 DEF Recorded
  <2>2. m.chan # chan
    BY <1>5 DEF Listened, Channels
  <2> QED  BY <1>3, <2>1, <2>2
<1> QED  BY <1>4, <1>5

\* While the turn waits for the name of its model, the question is the
\* newest line of its history, if that had room for it when the turn began.
QuestionStands ==
  turn.phase = "naming" =>
    LET chan == Message(turn.id).chan IN
    /\ turn.kind = "ai"
    /\ chan \in Channels /\ histories[chan] # NoHistory
       /\ (\E b \in begun : b.id = turn.id /\ b.room > 0) =>
         /\ histories[chan] # << >>
         /\ Last(histories[chan]) = Entry(turn.id, Message(turn.id))

LEMMA QuestionStays ==
  ASSUME AInv, QuestionStands, Kept, UNCHANGED <<turn, histories, begun>>
  PROVE  QuestionStands'
<1> SUFFICES ASSUME turn.phase = "naming"
             PROVE  QuestionStands'
  BY DEF QuestionStands
<1>1. turn # Idle
  BY DEF Idle
<1>2. arrived'[turn.id] = arrived[turn.id]
  BY <1>1 DEF AInv, TurnOfMessage, Kept, Message
<1> QED  BY <1>2 DEF QuestionStands, Message, Entry

LEMMA QuestionBegins ==
  ASSUME AInv, BeginTurn
  PROVE  QuestionStands'
<1>1. PICK id \in DOMAIN arrived :
        /\ Take(id) /\ arrived' = arrived /\ Begins(id)
        /\ turn' = [phase |-> "naming", id |-> id, kind |-> "ai", round |-> 0, prompt |-> None]
  BY DEF BeginTurn
<1> PICK m, chan : m = Message(id) /\ chan = m.chan
  OBVIOUS
<1> SUFFICES ASSUME chan \in Channels, histories'[chan] # NoHistory,
                    NEW b \in begun', b.id = id, b.room > 0
             PROVE  histories'[chan] # << >> /\ Last(histories'[chan]) = Entry(id, m)
  BY <1>1 DEF QuestionStands, Message, Entry
<1>2. b \notin begun
  BY <1>1, TakenIsOldest DEF AInv, TurnsRemembered
<1>3. Room(chan) > 0
  BY <1>1, <1>2 DEF Begins
<1> QED  BY <1>1, <1>3, HistoryAfterTake

LEMMA QuestionStandsStep ==
  ASSUME AInv, QuestionStands, [AssistantNext]_assistantVars
  PROVE  QuestionStands'
<1>1. CASE UNCHANGED assistantVars \/ Pass \/ \E k \in Knobs : Retune(k)
  <2>1. UNCHANGED <<arrived, inbox, turn, histories, begun>>
    BY <1>1 DEF Pass, Retune, assistantVars, assistantHistory
  <2>2. Kept
    BY <2>1, Quiet
  <2> QED  BY <2>1, <2>2, QuestionStays
<1>2. ASSUME NEW k \in Kinds, Arrive(k)
      PROVE  QuestionStands'
  <2>1. Kept
    BY <1>2, ArrivalWaits
  <2> QED  BY <1>2, <2>1, QuestionStays DEF Arrive, assistantHistory
<1>3. CASE Model \/ UntimedNext
  <2>1. turn # Idle /\ DOMAIN turn = TurnFields
    BY <1>3, TurnSteps DEF AInv, TurnOfMessage
  <2>2. turn' = Idle => turn'.phase # "naming"
    BY DEF Idle
  <2>3. turn'.phase # "naming"
    BY <1>3, <2>1, <2>2, TurnSteps DEF TurnFields
  <2> QED  BY <2>3 DEF QuestionStands
<1>4. CASE Dispatch
  <2>1. CASE BeginTurn
    BY <2>1, QuestionBegins
  <2>2. CASE ~BeginTurn
    <3>1. turn' = Idle \/ turn'.phase = "asking"
      <4>1. CASE Ignore \/ Suspend \/ Unsuspend \/ Refused \/ Usage
        BY <4>1 DEF Ignore, Suspend, Unsuspend, Refused, Usage, Take
      <4>2. CASE BeginNews
        <5>1. PICK id, lines :
                /\ Take(id)
                /\ \/ turn' = turn
                   \/ turn' = [phase |-> "asking", id |-> id, kind |-> "news", round |-> 0,
                               prompt |-> [window |-> <<lines, << >> >>]]
          BY <4>2 DEF BeginNews
        <5> QED  BY <5>1 DEF Take
      <4> QED  BY <1>4, <2>2, <4>1, <4>2 DEF Dispatch
    <3> QED  BY <3>1 DEF QuestionStands, Idle
  <2> QED  BY <2>1, <2>2
<1> QED  BY <1>1, <1>2, <1>3, <1>4 DEF AssistantNext

LEMMA AssistantSeesQuestion ==
  ASSUME AInv, QuestionStands, turn.phase = "naming", NEW memory,
         turn'.prompt = Prompt(Message(turn.id), memory),
         Message(turn.id).chan # "admin", histories[Message(turn.id).chan] # NoHistory,
         \E b \in begun : b.id = turn.id /\ b.room > 0,
         Message(turn.id).size <= RecentBytes[Message(turn.id).chan]
  PROVE  /\ turn'.prompt.window[1] # << >>
         /\ Last(turn'.prompt.window[1]).id = turn.id
<1> PICK id, m, chan, e, cap, lines :
      /\ id = turn.id /\ m = Message(id) /\ chan = m.chan /\ e = Entry(id, m)
      /\ cap = RecentBytes[chan] /\ lines = histories[chan]
  OBVIOUS
<1>1. /\ e.id = id /\ e.size = m.size /\ chan \in Channels
  <2>1. id \in DOMAIN arrived
    BY DEF AInv, TurnOfMessage, Had, Idle
  <2>2. chan \in Places
    BY <2>1, MessageIsKind
  <2> QED  BY <2>2 DEF Places, Entry
<1>2. cap \in Nat
  BY <1>1, AssistantAssumption DEF Channels
<1>3. lines \in Seq(Entries) /\ lines # << >> /\ Last(lines) = e
  BY <1>1 DEF AInv, AssistantTyped, QuestionStands
<1>4. /\ render_recent_section(lines, cap) # << >>
      /\ Last(render_recent_section(lines, cap)) = e
  <2>1. Last(lines).size <= cap
    BY <1>1, <1>3
  <2> QED  BY <1>2, <1>3, <2>1, SectionIs
<1>5. turn'.prompt.window[1] = render_recent_section(lines, cap)
  <2>1. Section(lines, cap) = render_recent_section(lines, cap)
    BY DEF Section, NoHistory
  <2>2. turn'.prompt.window = Window(chan)
    BY DEF Prompt
  <2>3. Window(chan)[1] = Section(lines, cap)
    BY <1>1 DEF Window, recent_sections, Channels
  <2> QED  BY <2>1, <2>2, <2>3
<1> QED  BY <1>1, <1>4, <1>5

\* The lines of a summary do not hold the command.
LEMMA BeforeCommandIs ==
  ASSUME AInv, NEW id, Take(id), arrived' = arrived, answers \subseteq answers',
         turn' = Idle \/ turn'.id = id, histories.primary # NoHistory
  PROVE  /\ before_command(id) \in Seq(Entries)
         /\ \A i \in DOMAIN before_command(id) : before_command(id)[i].id # id
<1> PICK all, e : all = histories'.primary /\ e = Entry(id, Message(id))
  OBVIOUS
<1>1. /\ id \in Nat /\ e.id = id /\ Rank(e) = 2 * id
  BY TakenIsOldest DEF Entry, Rank
<1>2. "primary" \in Channels /\ histories' \in [Channels -> Seq(Entries) \cup {NoHistory}]
      /\ HistoriesSound'
      /\ \A i \in DOMAIN histories.primary :
           histories.primary[i].id \in Int /\ histories.primary[i].id < id
  BY HistoriesTake DEF Channels
<1>3. all # NoHistory
  <2>1. e \in Entries /\ Message(id).chan \in Places
    BY TakenIsOldest, MessageIsKind
  <2>2. histories'.primary = histories.primary
        \/ (Message(id).chan \in Channels /\ histories' = Pushed(Message(id).chan, e))
    BY <2>1 DEF Take, Recorded, Places, Channels
  <2>3. CASE Message(id).chan \in Channels /\ histories' = Pushed(Message(id).chan, e)
    <3>1. CASE Message(id).chan = "primary"
      BY <1>2, <2>1, <2>3, <3>1, PushedIs
    <3>2. CASE Message(id).chan # "primary"
      BY <1>2, <2>1, <2>3, <3>2, PushedIs
    <3> QED  BY <3>1, <3>2
  <2> QED  BY <2>2, <2>3
<1>4. /\ all \in Seq(Entries) /\ InOrder(all)
      /\ \A i \in DOMAIN all : all[i] = e \/ \E j \in DOMAIN histories.primary : all[i] = histories.primary[j]
  <2>1. InOrder(all)
    BY <1>2, <1>3 DEF HistoriesSound, InOrder, Rank
  <2> QED  BY <1>2, <1>3, <2>1, HistoryAfterTake
<1>5. ASSUME NEW i \in DOMAIN all
      PROVE  /\ all[i].id \in Int /\ all[i].bot \in BOOLEAN /\ Rank(all[i]) \in Int
             /\ all[i] = e \/ all[i].id < id
             /\ Rank(all[i]) <= 2 * id
             /\ all[i].id = id => Rank(all[i]) = 2 * id
  <2>1. all[i] \in Entries
    BY <1>4, <1>5, ElementOfSeq
  <2>2. all[i].id \in Int /\ all[i].bot \in BOOLEAN
    BY <2>1 DEF Entries
  <2>3. CASE all[i] = e
    BY <1>1, <2>2, <2>3
  <2>4. CASE \E j \in DOMAIN histories.primary : all[i] = histories.primary[j]
    <3>1. all[i].id < id
      BY <1>2, <2>4
    <3> QED  BY <1>1, <2>2, <3>1 DEF Rank
  <2> QED  BY <1>4, <2>3, <2>4
<1>6. CASE all # << >> /\ Last(all).id = id
  <2>1. /\ before_command(id) = Front(all) /\ Len(all) \in Nat /\ Len(all) >= 1
        /\ DOMAIN all = 1..Len(all)
    BY <1>4, <1>6 DEF before_command
  <2>2. /\ Front(all) \in Seq(Entries) /\ Len(Front(all)) = Len(all) - 1
        /\ \A i \in 1..(Len(all) - 1) : Front(all)[i] = all[i]
    BY <1>4, <1>6, <2>1 DEF Front
  <2>3. ASSUME NEW i \in DOMAIN Front(all)
        PROVE  Front(all)[i].id # id
    <3>1. /\ i \in DOMAIN all /\ i < Len(all) /\ Len(all) \in DOMAIN all /\ Front(all)[i] = all[i]
      BY <2>1, <2>2
    <3>2. Rank(all[i]) < Rank(all[Len(all)])
      BY <1>4, <3>1 DEF InOrder
    <3> QED  BY <1>1, <1>5, <3>1, <3>2
  <2> QED  BY <2>1, <2>2, <2>3
<1>7. CASE ~(all # << >> /\ Last(all).id = id)
  <2>1. before_command(id) = all
    BY <1>7 DEF before_command
  <2>2. ASSUME NEW i \in DOMAIN all
        PROVE  all[i].id # id
    <3>1. /\ Len(all) \in Nat /\ DOMAIN all = 1..Len(all) /\ Len(all) \in DOMAIN all
          /\ Last(all) = all[Len(all)] /\ all # << >>
      BY <1>4, <2>2 DEF Last
    <3>2. all[Len(all)].id # id /\ all[Len(all)].id < id /\ all[Len(all)].id \in Int
      BY <1>1, <1>5, <1>7, <3>1
    <3>3. Rank(all[Len(all)]) < 2 * id
      BY <1>1, <1>5, <3>1, <3>2 DEF Rank
    <3>4. i = Len(all) \/ Rank(all[i]) < Rank(all[Len(all)])
      BY <1>4, <2>2, <3>1 DEF InOrder
    <3> QED  BY <1>1, <1>5, <3>1, <3>2, <3>3, <3>4
  <2> QED  BY <1>4, <2>1, <2>2
<1> QED  BY <1>6, <1>7

\* A part of the end of a sequence.
LEMMA EndIsPart ==
  ASSUME NEW S, NEW s \in Seq(S), NEW from \in Nat
  PROVE  \A i \in DOMAIN SubSeq(s, from + 1, Len(s)) :
           \E j \in DOMAIN s : SubSeq(s, from + 1, Len(s))[i] = s[j]
<1>1. Len(s) \in Nat /\ DOMAIN s = 1..Len(s)
  OBVIOUS
<1>2. /\ DOMAIN SubSeq(s, from + 1, Len(s)) = 1..(Len(s) - from)
      /\ \A i \in 1..(Len(s) - from) : SubSeq(s, from + 1, Len(s))[i] = s[from + i]
  BY <1>1
<1>3. \A i \in 1..(Len(s) - from) : from + i \in DOMAIN s
  BY <1>1
<1> QED  BY <1>2, <1>3

LEMMA SummaryLeavesCommandOut ==
  ASSUME AInv, BeginNews, turn' # Idle
  PROVE  turn'.id \notin {turn'.prompt.window[1][i].id : i \in DOMAIN turn'.prompt.window[1]}
<1>1. turn = Idle
  BY DEF BeginNews, Take
<1>2. PICK id, lines :
        /\ id \in DOMAIN arrived
        /\ Take(id) /\ arrived' = arrived /\ answers' = answers /\ turn'.id = id
        /\ turn'.prompt.window[1] = lines /\ lines # << >>
        /\ lines = IF histories.primary = NoHistory THEN << >>
                   ELSE IF Message(id).word = "!haiku" THEN haiku_history(before_command(id))
                   ELSE relevant_history(before_command(id), Message(id).by)
  <2>1. PICK id, lines :
          /\ id \in DOMAIN arrived
          /\ Take(id) /\ arrived' = arrived
          /\ lines = IF histories.primary = NoHistory THEN << >>
                     ELSE IF Message(id).word = "!haiku" THEN haiku_history(before_command(id))
                     ELSE relevant_history(before_command(id), Message(id).by)
          /\ IF lines = << >> THEN turn' = turn
             ELSE /\ turn' = [phase |-> "asking", id |-> id, kind |-> "news", round |-> 0,
                              prompt |-> [window |-> <<lines, << >> >>]]
                  /\ answers' = answers
    BY DEF BeginNews
  <2>2. lines # << >>
    BY <1>1, <2>1
  <2>3. /\ turn' = [phase |-> "asking", id |-> id, kind |-> "news", round |-> 0,
                    prompt |-> [window |-> <<lines, << >> >>]]
        /\ answers' = answers
    BY <2>1, <2>2
  <2>4. turn'.id = id /\ turn'.prompt.window[1] = lines
    BY <2>3
  <2> QED  BY <2>1, <2>2, <2>3, <2>4
<1> PICK before : before = before_command(id)
  OBVIOUS
<1>3. histories.primary # NoHistory
  BY <1>2
<1>4. before \in Seq(Entries) /\ \A i \in DOMAIN before : before[i].id # id
  BY <1>2, <1>3, BeforeCommandIs
<1>5. \A i \in DOMAIN lines : \E j \in DOMAIN before : lines[i] = before[j]
  <2>1. Len(before) \in Nat /\ DOMAIN before = 1..Len(before)
    BY <1>4
  <2>2. CASE Message(id).word = "!haiku"
    <3>1. lines = Newest(before, HaikuContext) /\ HaikuContext \in Nat
      BY <1>2, <1>3, <2>2, AssistantAssumption DEF haiku_history
    <3>2. \E from \in Nat : lines = SubSeq(before, from + 1, Len(before))
      <4>1. CASE Len(before) > HaikuContext
        <5>1. /\ Len(before) - HaikuContext \in Nat
              /\ lines = SubSeq(before, (Len(before) - HaikuContext) + 1, Len(before))
          BY <2>1, <3>1, <4>1 DEF Newest
        <5> QED  BY <5>1
      <4>2. CASE ~(Len(before) > HaikuContext)
        <5>1. 0 \in Nat /\ lines = SubSeq(before, 0 + 1, Len(before))
          BY <3>1, <4>2 DEF Newest
        <5> QED  BY <5>1
      <4> QED  BY <4>1, <4>2
    <3> QED  BY <1>4, <3>2, EndIsPart
  <2>3. CASE Message(id).word # "!haiku"
    <3> DEFINE own == {i \in DOMAIN before : before[i].by = Message(id).by}
               start == IF own # {} /\ Max(own) <= Len(before) - NewsContext THEN Max(own) ELSE 0
    <3>1. lines = SubSeq(before, start + 1, Len(before))
      BY <1>2, <1>3, <2>3 DEF relevant_history
    <3>2. start \in Nat
      <4>1. CASE own # {}
        <5>1. own \in SUBSET (0..Len(before))
          BY <2>1
        <5>2. \E x \in own : \A y \in own : y <= x
          <6> HIDE DEF own
          <6> QED  BY <2>1, <4>1, <5>1, GreatestExists
        <5>3. \E x \in own : \A y \in own : x >= y
          BY <5>1, <5>2
        <5>4. Max(own) \in own
          <6> HIDE DEF own
          <6> QED  BY <5>3 DEF Max
        <5> QED  BY <5>1, <5>4
      <4>2. CASE own = {}
        BY <4>2
      <4> QED  BY <4>1, <4>2
    <3> HIDE DEF start
    <3> QED  BY <1>4, <3>1, <3>2, EndIsPart
  <2> QED  BY <2>2, <2>3
<1> QED  BY <1>2, <1>4, <1>5

LEMMA QuestionSeenStep ==
  ASSUME AInv, QuestionStands, [AssistantNext]_assistantVars, ~Prompted(turn), Prompted(turn')
  PROVE  LET id == turn'.id
             chan == Message(id).chan
             lines == turn'.prompt.window[1] IN
         IF turn'.kind = "news" THEN id \notin {lines[i].id : i \in DOMAIN lines}
         ELSE (chan # "admin" /\ histories[chan] # NoHistory
               /\ (\E b \in begun : b.id = id /\ b.room > 0)
               /\ Message(id).size <= RecentBytes[chan]) =>
                lines # << >> /\ Last(lines).id = id
<1>1. CASE turn = Idle
  <2>1. turn' # Idle
    BY DEF Prompted, Idle
  <2>2. BeginNews
    <3>1. BeginNews \/ BeginTurn
      BY <1>1, <2>1, TurnBegins
    <3>2. BeginTurn => turn'.phase = "naming"
      BY DEF BeginTurn
    <3> QED  BY <3>1, <3>2 DEF Prompted
  <2>3. turn'.kind = "news"
    <3>1. \/ turn' = turn
          \/ \E id, lines : turn' = [phase |-> "asking", id |-> id, kind |-> "news", round |-> 0,
                                     prompt |-> [window |-> <<lines, << >> >>]]
      BY <2>2 DEF BeginNews
    <3> QED  BY <1>1, <2>1, <3>1
  <2> QED  BY <2>1, <2>2, <2>3, SummaryLeavesCommandOut
<1>2. CASE turn # Idle
  <2>1. turn.phase = "naming" /\ DOMAIN turn = TurnFields /\ turn.kind = "ai"
    BY <1>2 DEF AInv, TurnOfMessage, Prompted, Phases, QuestionStands
  <2>2. PICK memory \in Memories : Named(memory)
    <3>1. turn' # turn
      OBVIOUS
    <3> QED
      BY <1>2, <2>1, <3>1 DEF AssistantNext, assistantVars, Arrive, Pass, Retune, Model, EndNews, Answered,
         Failed, CallsTools, ToolsDone, SearchDone, Asked, UntimedNext, Whispered,
         Dispatch, Ignore, Suspend, Unsuspend, Refused, Usage, BeginNews, BeginTurn, Take
  <2>3. \E phase : turn' = [turn EXCEPT !.phase = phase, !.prompt = Prompt(Message(turn.id), memory)]
    <3>1. turn' # Idle
      BY DEF Prompted, Idle
    <3> QED  BY <2>2, <3>1, NamedIs
  <2>4. turn'.id = turn.id /\ turn'.kind = "ai" /\ turn'.prompt = Prompt(Message(turn.id), memory)
    BY <2>1, <2>3 DEF TurnFields
  <2> QED  BY <2>1, <2>4, AssistantSeesQuestion
<1> QED  BY <1>1, <1>2

(* However late the dispatcher comes to a message, however long it waits   *)
(* for the name of the model, and whatever the capacities were meanwhile,  *)
(* the model is asked with the question as the newest line, and a summary  *)
(* is made of what was said before the command.                            *)
THEOREM TurnsSeeTheirQuestion == AssistantSpec => TurnSeesItsQuestion
<1>1. AssistantInit => QuestionStands
  BY DEF AssistantInit, QuestionStands, Idle
<1>2. AInv /\ QuestionStands /\ [AssistantNext]_assistantVars => QuestionStands'
  BY QuestionStandsStep
<1>3. AssistantSpec => []QuestionStands
  BY <1>1, <1>2, AssistantInvariant, PTL DEF AssistantSpec
<1>4. AInv /\ QuestionStands /\ [AssistantNext]_assistantVars =>
        [~Prompted(turn) /\ Prompted(turn') =>
           LET id == turn'.id
               chan == Message(id).chan
               lines == turn'.prompt.window[1] IN
           IF turn'.kind = "news" THEN id \notin {lines[i].id : i \in DOMAIN lines}
           ELSE (chan # "admin" /\ histories[chan] # NoHistory
                 /\ (\E b \in begun : b.id = id /\ b.room > 0)
                 /\ Message(id).size <= RecentBytes[chan]) =>
                  lines # << >> /\ Last(lines).id = id]_assistantVars
  BY QuestionSeenStep
<1> QED  BY <1>3, <1>4, AssistantInvariant, PTL DEF AssistantSpec, TurnSeesItsQuestion

-----------------------------------------------------------------------------
(* The size of a set of files *)

Chosen(s) == CHOOSE x \in s : TRUE

\* The equation by which the sum of the sizes is defined.
FoldsSizes(f, S) ==
  f = [s \in SUBSET S |-> IF s = {} THEN 0 ELSE Chosen(s).size + f[s \ {Chosen(s)}]]

\* A part without the chosen element is smaller.
LEMMA Smaller ==
  ASSUME NEW S, IsFiniteSet(S), NEW s \in SUBSET S
  PROVE  /\ IsFiniteSet(s) /\ Cardinality(s) \in Nat /\ Cardinality(s) <= Cardinality(S)
         /\ Cardinality(s) = 0 <=> s = {}
         /\ \A x \in s : s \ {x} \in SUBSET S /\ Cardinality(s \ {x}) = Cardinality(s) - 1
<1>1. IsFiniteSet(s) /\ Cardinality(s) <= Cardinality(S)
  BY FS_Subset
<1>2. Cardinality(s) \in Nat /\ (Cardinality(s) = 0 <=> s = {})
  BY <1>1, FS_CardinalityType, FS_EmptySet
<1>3. ASSUME NEW x \in s
      PROVE  Cardinality(s \ {x}) = Cardinality(s) - 1
  BY <1>1, FS_RemoveElement
<1> QED  BY <1>1, <1>2, <1>3

LEMMA ChosenIs == \A s : s # {} => Chosen(s) \in s
  BY DEF Chosen

LEMMA FoldOfSizesExists ==
  ASSUME NEW S, IsFiniteSet(S)
  PROVE  \E f : FoldsSizes(f, S)
<1> DEFINE Sub(n) == {s \in SUBSET S : Cardinality(s) <= n}
           Body(f, s) == IF s = {} THEN 0 ELSE Chosen(s).size + f[s \ {Chosen(s)}]
           Has(n) == \E f : f = [s \in Sub(n) |-> Body(f, s)]
           T == {n \in Nat : Has(n)}
<1>1. 0 \in T
  <2> DEFINE g == [s \in Sub(0) |-> 0]
  <2>1. \A s \in Sub(0) : s = {}
    BY Smaller
  <2>2. g = [s \in Sub(0) |-> Body(g, s)]
    BY <2>1
  <2> QED  BY <2>2
<1>2. ASSUME NEW n \in Nat, n \in T
      PROVE  n + 1 \in T
  <2>1. PICK f : f = [s \in Sub(n) |-> Body(f, s)]
    BY <1>2
  <2> DEFINE g == [s \in Sub(n + 1) |-> IF s \in Sub(n) THEN f[s] ELSE Chosen(s).size + f[s \ {Chosen(s)}]]
  <2>2. ASSUME NEW s \in Sub(n + 1)
        PROVE  g[s] = Body(g, s)
    <3>1. s # {} => s \ {Chosen(s)} \in Sub(n) /\ s \ {Chosen(s)} \in Sub(n + 1)
      <4> SUFFICES ASSUME s # {}
                   PROVE  s \ {Chosen(s)} \in Sub(n) /\ s \ {Chosen(s)} \in Sub(n + 1)
        OBVIOUS
      <4>1. Chosen(s) \in s
        BY ChosenIs
      <4>2. /\ s \in SUBSET S /\ Cardinality(s) \in Nat /\ Cardinality(s) <= n + 1
            /\ s \ {Chosen(s)} \in SUBSET S /\ Cardinality(s \ {Chosen(s)}) = Cardinality(s) - 1
        BY <4>1, Smaller
      <4> QED  BY <4>2
    <3>2. s # {} => g[s \ {Chosen(s)}] = f[s \ {Chosen(s)}]
      BY <3>1
    <3>3. CASE s \in Sub(n)
      <4>1. g[s] = f[s]
        BY <3>3
      <4>2. f[s] = Body(f, s)
        BY <2>1, <3>3
      <4> HIDE DEF g, Sub
      <4> QED  BY <3>2, <4>1, <4>2
    <3>4. CASE s \notin Sub(n)
      <4>1. s # {}
        <5>1. {} \in SUBSET S /\ Cardinality({}) = 0
          BY FS_EmptySet
        <5> QED  BY <3>4, <5>1
      <4>2. g[s] = Chosen(s).size + f[s \ {Chosen(s)}]
        BY <3>4
      <4> HIDE DEF g, Sub
      <4> QED  BY <3>2, <4>1, <4>2
    <3> QED  BY <3>3, <3>4
  <2>3. g = [s \in Sub(n + 1) |-> Body(g, s)]
    BY <2>2
  <2>4. Has(n + 1)
    BY <2>3
  <2> HIDE DEF Has
  <2> QED  BY <2>4
<1>3. Cardinality(S) \in Nat /\ SUBSET S = Sub(Cardinality(S))
  BY Smaller, FS_CardinalityType
<1>4. Cardinality(S) \in T
  <2> HIDE DEF T
  <2> QED  BY <1>1, <1>2, <1>3, UpToAll
<1>5. PICK f : f = [s \in Sub(Cardinality(S)) |-> Body(f, s)]
  BY <1>4
<1> HIDE DEF Sub
<1>6. FoldsSizes(f, S)
  BY <1>3, <1>5 DEF FoldsSizes
<1> QED  BY <1>6

LEMMA SizeIsFold ==
  ASSUME NEW S, IsFiniteSet(S)
  PROVE  \E f : FoldsSizes(f, S) /\ Size(S) = f[S]
<1> DEFINE P(f) == FoldsSizes(f, S)
           g == CHOOSE f : P(f)
<1>1. P(g)
  <2>1. \E f : P(f)
    BY FoldOfSizesExists
  <2> HIDE DEF P
  <2> QED  BY <2>1
<1>2. Size(S) = g[S]
  BY Zenon DEF Size, MapThenSumSet, MapThenFoldSet, FoldsSizes, Chosen
<1> QED  BY <1>1, <1>2

\* The equation has one solution, whatever the set it is stated for.
LEMMA FoldOfSizesUnique ==
  ASSUME NEW S, IsFiniteSet(S), NEW T \in SUBSET S, NEW f, NEW g, FoldsSizes(f, S), FoldsSizes(g, T)
  PROVE  f[T] = g[T]
<1> DEFINE Same == {n \in Nat : \A s \in SUBSET T : Cardinality(s) <= n => f[s] = g[s]}
<1>1. 0 \in Same
  <2>1. ASSUME NEW s \in SUBSET T, Cardinality(s) <= 0
        PROVE  f[s] = g[s]
    <3>1. s \in SUBSET S /\ s = {}
      BY <2>1, Smaller
    <3>2. f[s] = 0 /\ g[s] = 0
      BY <3>1 DEF FoldsSizes
    <3> QED  BY <3>2
  <2> QED  BY <2>1
<1>2. ASSUME NEW n \in Nat, n \in Same
      PROVE  n + 1 \in Same
  <2>1. ASSUME NEW s \in SUBSET T, Cardinality(s) <= n + 1, s # {}
        PROVE  f[s] = g[s]
    <3>1. s \in SUBSET S /\ Chosen(s) \in s
      BY <2>1, ChosenIs
    <3>2. s \ {Chosen(s)} \in SUBSET T /\ Cardinality(s \ {Chosen(s)}) <= n
      BY <2>1, <3>1, Smaller
    <3>3. f[s \ {Chosen(s)}] = g[s \ {Chosen(s)}]
      BY <1>2, <3>2
    <3>4. /\ f[s] = Chosen(s).size + f[s \ {Chosen(s)}]
          /\ g[s] = Chosen(s).size + g[s \ {Chosen(s)}]
      BY <2>1, <3>1 DEF FoldsSizes
    <3> QED  BY <3>3, <3>4
  <2>2. f[{}] = g[{}]
    <3>1. {} \in SUBSET S /\ {} \in SUBSET T
      OBVIOUS
    <3> QED  BY <3>1 DEF FoldsSizes
  <2> QED  BY <2>1, <2>2
<1>3. Cardinality(T) \in Nat
  BY Smaller
<1>4. Cardinality(T) \in Same
  <2> HIDE DEF Same
  <2> QED  BY <1>1, <1>2, <1>3, UpToAll
<1> QED  BY <1>3, <1>4

LEMMA SizeOfNone == Size({}) = 0
<1>1. IsFiniteSet({})
  BY FS_EmptySet
<1>2. PICK f : FoldsSizes(f, {}) /\ Size({}) = f[{}]
  BY <1>1, SizeIsFold
<1> QED  BY <1>2 DEF FoldsSizes

LEMMA SizeOfChosen ==
  ASSUME NEW S, IsFiniteSet(S), S # {}
  PROVE  Size(S) = Chosen(S).size + Size(S \ {Chosen(S)})
<1> DEFINE T == S \ {Chosen(S)}
<1>1. T \in SUBSET S /\ IsFiniteSet(T)
  BY Smaller
<1>2. PICK f : FoldsSizes(f, S) /\ Size(S) = f[S]
  BY SizeIsFold
<1>3. PICK g : FoldsSizes(g, T) /\ Size(T) = g[T]
  BY <1>1, SizeIsFold
<1> HIDE DEF T
<1>4. f[T] = g[T]
  BY <1>1, <1>2, <1>3, FoldOfSizesUnique
<1>5. f[S] = Chosen(S).size + f[T]
  BY <1>2 DEF FoldsSizes, T
<1> QED  BY <1>2, <1>3, <1>4, <1>5 DEF T

\* Any file may be counted first.
LEMMA SizeOfAny ==
  ASSUME NEW S, IsFiniteSet(S), \A f \in S : f.size \in Nat
  PROVE  Size(S) \in Nat /\ \A x \in S : Size(S) = x.size + Size(S \ {x})
<1> DEFINE Holds(s) == Size(s) \in Nat /\ \A x \in s : Size(s) = x.size + Size(s \ {x})
           All == {n \in Nat : \A s \in SUBSET S : Cardinality(s) <= n => Holds(s)}
<1>1. 0 \in All
  <2>1. ASSUME NEW s \in SUBSET S, Cardinality(s) <= 0
        PROVE  Holds(s)
    <3>1. s = {}
      BY <2>1, Smaller
    <3> QED  BY <3>1, SizeOfNone
  <2> HIDE DEF Holds
  <2> QED  BY <2>1
<1>2. ASSUME NEW n \in Nat, n \in All
      PROVE  n + 1 \in All
  <2>1. ASSUME NEW s \in SUBSET S, Cardinality(s) <= n
        PROVE  Size(s) \in Nat /\ \A x \in s : Size(s) = x.size + Size(s \ {x})
    BY <1>2, <2>1
  <2>2. ASSUME NEW s \in SUBSET S, Cardinality(s) <= n + 1
        PROVE  Holds(s)
    <3>1. CASE s = {}
      BY <3>1, SizeOfNone
    <3>2. CASE s # {}
      <4> PICK c : c = Chosen(s)
        OBVIOUS
      <4>1. c \in s /\ IsFiniteSet(s) /\ Cardinality(s) \in Nat
        BY <3>2, ChosenIs, Smaller
      <4>2. Size(s) = c.size + Size(s \ {c})
        BY <3>2, <4>1, SizeOfChosen
      <4>3. \A x \in s : s \ {x} \in SUBSET S /\ Cardinality(s \ {x}) <= n
        BY <2>2, <4>1, Smaller
      <4>4. \A x \in s : Size(s \ {x}) \in Nat
        BY <2>1, <4>3
      <4>5. Size(s) \in Nat
        BY <4>1, <4>2, <4>4
      <4>6. ASSUME NEW x \in s, x # c
            PROVE  Size(s) = x.size + Size(s \ {x})
        <5>1. /\ Size(s \ {c}) = x.size + Size((s \ {c}) \ {x})
              /\ Size(s \ {x}) = c.size + Size((s \ {x}) \ {c})
          BY <2>1, <4>1, <4>3, <4>6
        <5>2. (s \ {c}) \ {x} = (s \ {x}) \ {c}
          OBVIOUS
        <5>3. Size((s \ {x}) \ {c}) \in Nat
          <6>1. (s \ {x}) \ {c} \in SUBSET S /\ Cardinality((s \ {x}) \ {c}) <= n
            <7>1. /\ s \ {x} \in SUBSET S /\ c \in s \ {x} /\ Cardinality(s \ {x}) <= n
                  /\ Cardinality(s \ {x}) \in Nat
              BY <4>1, <4>3, <4>6, Smaller
            <7> QED  BY <7>1, Smaller
          <6> QED  BY <2>1, <6>1
        <5>4. x.size \in Nat /\ c.size \in Nat
          BY <4>1
        <5>5. PICK rest \in Nat : rest = Size((s \ {x}) \ {c})
          BY <5>3
        <5>6. Size(s \ {c}) = x.size + rest /\ Size(s \ {x}) = c.size + rest
          BY <5>1, <5>2, <5>5
        <5> HIDE DEF Holds, All
        <5> QED  BY <4>2, <5>4, <5>6
      <4> QED  BY <4>2, <4>5, <4>6
    <3> QED  BY <3>1, <3>2
  <2> HIDE DEF Holds
  <2> QED  BY <2>2
<1>3. Cardinality(S) \in Nat
  BY Smaller
<1>4. Cardinality(S) \in All
  <2> HIDE DEF All
  <2> QED  BY <1>1, <1>2, <1>3, UpToAll
<1> QED  BY <1>3, <1>4

LEMMA SizeOfOne ==
  ASSUME NEW f, f.size \in Nat
  PROVE  Size({f}) = f.size
<1>1. IsFiniteSet({f})
  BY FS_Singleton
<1>2. Size({f}) = f.size + Size({f} \ {f})
  BY <1>1, SizeOfAny
<1>3. {f} \ {f} = {}
  OBVIOUS
<1> QED  BY <1>2, <1>3, SizeOfNone

\* A part is no larger than the whole.
LEMMA SizeOfPart ==
  ASSUME NEW S, IsFiniteSet(S), \A f \in S : f.size \in Nat, NEW T \in SUBSET S
  PROVE  Size(T) \in Nat /\ Size(S) \in Nat /\ Size(T) <= Size(S)
<1> DEFINE All == {n \in Nat : \A s \in SUBSET S : Cardinality(s) <= n /\ T \subseteq s => Size(T) <= Size(s)}
<1>1. \A s \in SUBSET S : Size(s) \in Nat /\ \A x \in s : Size(s) = x.size + Size(s \ {x})
  <2> SUFFICES ASSUME NEW s \in SUBSET S
               PROVE  Size(s) \in Nat /\ \A x \in s : Size(s) = x.size + Size(s \ {x})
    OBVIOUS
  <2>1. IsFiniteSet(s) /\ \A f \in s : f.size \in Nat
    BY Smaller
  <2> QED  BY <2>1, SizeOfAny
<1>2. 0 \in All
  <2>1. ASSUME NEW s \in SUBSET S, Cardinality(s) <= 0, T \subseteq s
        PROVE  Size(T) <= Size(s)
    <3>1. s = {}
      BY <2>1, Smaller
    <3>2. T = s
      BY <2>1, <3>1
    <3> QED  BY <1>1, <3>2
  <2> QED  BY <2>1
<1>3. ASSUME NEW n \in Nat, n \in All
      PROVE  n + 1 \in All
  <2>1. ASSUME NEW s \in SUBSET S, Cardinality(s) <= n + 1, T \subseteq s
        PROVE  Size(T) <= Size(s)
    <3>1. CASE T = s
      BY <1>1, <3>1
    <3>2. CASE T # s
      <4>1. PICK x \in s : x \notin T
        BY <2>1, <3>2
      <4>2. s \ {x} \in SUBSET S /\ Cardinality(s \ {x}) <= n /\ T \subseteq s \ {x}
        BY <2>1, <4>1, Smaller
      <4>3. Size(T) <= Size(s \ {x})
        BY <1>3, <4>2
      <4>4. Size(s) = x.size + Size(s \ {x}) /\ x.size \in Nat /\ Size(s \ {x}) \in Nat /\ Size(T) \in Nat
        BY <1>1, <4>2
      <4> QED  BY <4>3, <4>4
    <3> QED  BY <3>1, <3>2
  <2> QED  BY <2>1
<1>4. Cardinality(S) \in Nat
  BY Smaller
<1>5. Cardinality(S) \in All
  <2> HIDE DEF All
  <2> QED  BY <1>2, <1>3, <1>4, UpToAll
<1> QED  BY <1>1, <1>4, <1>5

-----------------------------------------------------------------------------
(* What is packed into a prompt *)

\* Who comes before whom, as the packing is told.
Ahead(group, before) == [f \in group |-> {g \in group : <<g, f>> \in before}]

LEMMA OldestExists ==
  ASSUME NEW S, S # {}, \A f \in S : f.updated \in Nat
  PROVE  \E f \in S : \A g \in S : f.updated <= g.updated
<1> DEFINE Times == {f.updated : f \in S}
<1>1. Times \subseteq Nat /\ Times # {}
  OBVIOUS
<1>2. PICK t \in Times : \A u \in Times : ~(<<u, t>> \in OpToRel(<, Nat))
  <2> HIDE DEF Times
  <2> QED  BY <1>1, NatLessThanWellFounded, WFMin
<1>3. PICK f \in S : f.updated = t
  BY <1>2
<1>4. ASSUME NEW g \in S
      PROVE  f.updated <= g.updated
  <2>1. g.updated \in Times /\ f.updated \in Nat /\ g.updated \in Nat
    BY <1>3
  <2>2. ~(<<g.updated, f.updated>> \in OpToRel(<, Nat))
    BY <1>2, <1>3, <2>1
  <2> QED  BY <2>1, <2>2 DEF OpToRel
<1> QED  BY <1>4

\* A file ahead of one that was packed is packed too.
LEMMA PackedIsPrefix ==
  ASSUME NEW group, IsFiniteSet(group), \A f \in group : f.size \in Nat,
         NEW before, \A f, g, h \in group : <<f, g>> \in before /\ <<g, h>> \in before => <<f, h>> \in before,
         NEW total \in Nat, NEW budget \in Nat,
         NEW f \in Packed(group, Ahead(group, before), total, budget),
         NEW g \in group, <<g, f>> \in before
  PROVE  g \in Packed(group, Ahead(group, before), total, budget)
<1> DEFINE ahead == Ahead(group, before)
           F == {f} \union ahead[f]
           G == {g} \union ahead[g]
<1>1. f \in group /\ total + Size(F) <= budget
  BY DEF Packed
<1>2. /\ ahead[f] = {x \in group : <<x, f>> \in before}
      /\ ahead[g] = {x \in group : <<x, g>> \in before}
  BY <1>1 DEF Ahead
<1>3. F \in SUBSET group /\ G \in SUBSET F
  BY <1>1, <1>2
<1>4. IsFiniteSet(F) /\ \A x \in F : x.size \in Nat
  BY <1>3, FS_Subset
<1> HIDE DEF F, G
<1>5. Size(F) \in Nat /\ Size(G) \in Nat /\ Size(G) <= Size(F)
  BY <1>3, <1>4, SizeOfPart
<1>6. total + Size(G) <= budget
  BY <1>1, <1>5
<1> QED  BY <1>6 DEF Packed, G

\* What is packed fits.
LEMMA PackedFits ==
  ASSUME NEW group, IsFiniteSet(group), \A f \in group : f.size \in Nat,
         NEW before, NEW total \in Nat, NEW budget \in Nat,
         NEW last \in Packed(group, Ahead(group, before), total, budget),
         \A g \in Packed(group, Ahead(group, before), total, budget) :
           g = last \/ <<g, last>> \in before
  PROVE  total + Size(Packed(group, Ahead(group, before), total, budget)) <= budget
<1> DEFINE packed == Packed(group, Ahead(group, before), total, budget)
           F == {last} \union Ahead(group, before)[last]
<1>1. last \in group /\ packed \in SUBSET group /\ total + Size(F) <= budget
  BY DEF Packed
<1>2. Ahead(group, before)[last] = {x \in group : <<x, last>> \in before}
  BY <1>1 DEF Ahead
<1> HIDE DEF packed
<1>3. F \in SUBSET group /\ packed \in SUBSET F
  BY <1>1, <1>2 DEF packed
<1>4. IsFiniteSet(F) /\ \A x \in F : x.size \in Nat
  BY <1>3, FS_Subset
<1> HIDE DEF F
<1>5. Size(F) \in Nat /\ Size(packed) \in Nat /\ Size(packed) <= Size(F)
  BY <1>3, <1>4, SizeOfPart
<1> QED  BY <1>1, <1>5 DEF packed

SpeakersFirst(group, speaker) == {p \in group \X group : SpeakerFirst(speaker, p[1], p[2])}
Newer(group) == {p \in group \X group : NewestFirst(p[1], p[2])}

LEMMA PackingOfUsers ==
  ASSUME NEW group, Files(group), NEW speaker \in Users, NEW total \in Nat, NEW budget \in Nat,
         NEW packed, packed = Packed(group, [f \in group |-> {g \in group : SpeakerFirst(speaker, g, f)}],
                                     total, budget)
  PROVE  /\ packed \in SUBSET group
         /\ \A f \in packed, g \in group : SpeakerFirst(speaker, g, f) => g \in packed
         /\ packed # {} => total + Size(packed) <= budget
<1> DEFINE before == SpeakersFirst(group, speaker)
<1>1. /\ IsFiniteSet(group) /\ \A f \in group : f.size \in Nat /\ f.updated \in Nat
      /\ \A f, g \in group : f.updated = g.updated => f = g
  BY DEF Files
<1>2. Ahead(group, before) = [f \in group |-> {g \in group : SpeakerFirst(speaker, g, f)}]
  BY DEF Ahead, SpeakersFirst
<1>3. packed = Packed(group, Ahead(group, before), total, budget) /\ packed \in SUBSET group
  BY <1>2 DEF Packed
<1>4. \A f, g \in group : <<f, g>> \in before <=> SpeakerFirst(speaker, f, g)
  BY DEF SpeakersFirst
<1> HIDE DEF before
<1>5. \A f, g, h \in group : <<f, g>> \in before /\ <<g, h>> \in before => <<f, h>> \in before
  BY <1>1, <1>4 DEF SpeakerFirst
<1>6. \A f \in packed, g \in group : SpeakerFirst(speaker, g, f) => g \in packed
  BY <1>1, <1>3, <1>4, <1>5, PackedIsPrefix
<1>7. ASSUME packed # {}
      PROVE  total + Size(packed) <= budget
  <2> DEFINE others == {f \in packed : ~(speaker # Nobody /\ f.login = speaker)}
  <2>1. PICK last \in packed : \A g \in packed : g = last \/ SpeakerFirst(speaker, g, last)
    <3>1. CASE others # {}
      <4>1. PICK f \in others : \A g \in others : f.updated <= g.updated
        <5>1. \A f \in others : f.updated \in Nat
          BY <1>1, <1>3
        <5> HIDE DEF others
        <5> QED  BY <3>1, <5>1, OldestExists
      <4>2. f \in packed /\ f \in group /\ ~(speaker # Nobody /\ f.login = speaker)
        BY <1>3, <4>1
      <4>3. ASSUME NEW g \in packed, g # f
            PROVE  SpeakerFirst(speaker, g, f)
        <5>1. g \in group /\ g.updated \in Nat /\ f.updated \in Nat /\ g.updated # f.updated
          BY <1>1, <1>3, <4>2, <4>3
        <5>2. CASE g \in others
          BY <4>1, <4>2, <5>1, <5>2 DEF SpeakerFirst
        <5>3. CASE g \notin others
          BY <4>2, <5>3 DEF SpeakerFirst
        <5> QED  BY <5>2, <5>3
      <4> QED  BY <4>2, <4>3
    <3>2. CASE others = {}
      <4>1. PICK f \in packed : \A g \in packed : f.updated <= g.updated
        BY <1>1, <1>3, <1>7, OldestExists
      <4>2. ASSUME NEW g \in packed, g # f
            PROVE  SpeakerFirst(speaker, g, f)
        <5>1. g.updated \in Nat /\ f.updated \in Nat /\ g.updated # f.updated /\ f.updated <= g.updated
          BY <1>1, <1>3, <4>1, <4>2
        <5>2. /\ speaker # Nobody /\ f.login = speaker
              /\ speaker # Nobody /\ g.login = speaker
          BY <3>2
        <5> QED  BY <5>1, <5>2 DEF SpeakerFirst
      <4> QED  BY <4>1, <4>2
    <3> QED  BY <3>1, <3>2
  <2>2. \A g \in packed : g = last \/ <<g, last>> \in before
    BY <1>3, <1>4, <2>1
  <2>3. last \in Packed(group, Ahead(group, before), total, budget)
        /\ \A g \in Packed(group, Ahead(group, before), total, budget) : g = last \/ <<g, last>> \in before
    BY <1>3, <2>1, <2>2
  <2>4. total + Size(Packed(group, Ahead(group, before), total, budget)) <= budget
    BY <1>1, <2>3, PackedFits
  <2> QED  BY <1>3, <2>4
<1> QED  BY <1>3, <1>6, <1>7

LEMMA PackingOfStates ==
  ASSUME NEW group, Files(group), NEW total \in Nat, NEW budget \in Nat,
         NEW packed, packed = Packed(group, [f \in group |-> {g \in group : NewestFirst(g, f)}], total, budget)
  PROVE  /\ packed \in SUBSET group
         /\ \A f \in packed, g \in group : NewestFirst(g, f) => g \in packed
         /\ packed # {} => total + Size(packed) <= budget
<1> DEFINE before == Newer(group)
<1>1. /\ IsFiniteSet(group) /\ \A f \in group : f.size \in Nat /\ f.updated \in Nat
      /\ \A f, g \in group : f.updated = g.updated => f = g
  BY DEF Files
<1>2. Ahead(group, before) = [f \in group |-> {g \in group : NewestFirst(g, f)}]
  BY DEF Ahead, Newer
<1>3. packed = Packed(group, Ahead(group, before), total, budget) /\ packed \in SUBSET group
  BY <1>2 DEF Packed
<1>4. \A f, g \in group : <<f, g>> \in before <=> f.updated > g.updated
  BY DEF Newer, NewestFirst
<1> HIDE DEF before
<1>5. \A f, g, h \in group : <<f, g>> \in before /\ <<g, h>> \in before => <<f, h>> \in before
  BY <1>1, <1>4
<1>6. \A f \in packed, g \in group : NewestFirst(g, f) => g \in packed
  <2> SUFFICES ASSUME NEW f \in packed, NEW g \in group, g.updated > f.updated
               PROVE  g \in packed
    BY DEF NewestFirst
  <2>1. <<g, f>> \in before
    BY <1>3, <1>4
  <2> QED  BY <1>1, <1>3, <1>5, <2>1, PackedIsPrefix
<1>7. ASSUME packed # {}
      PROVE  total + Size(packed) <= budget
  <2>1. PICK last \in packed : \A g \in packed : last.updated <= g.updated
    BY <1>1, <1>3, <1>7, OldestExists
  <2>2. ASSUME NEW g \in packed, g # last
        PROVE  <<g, last>> \in before
    <3>1. /\ g \in group /\ last \in group /\ g.updated \in Nat /\ last.updated \in Nat
          /\ g.updated # last.updated
      BY <1>1, <1>3, <2>2
    <3> QED  BY <1>4, <2>1, <3>1
  <2>3. last \in Packed(group, Ahead(group, before), total, budget)
        /\ \A g \in Packed(group, Ahead(group, before), total, budget) : g = last \/ <<g, last>> \in before
    BY <1>3, <2>1, <2>2
  <2>4. total + Size(Packed(group, Ahead(group, before), total, budget)) <= budget
    BY <1>1, <2>3, PackedFits
  <2> QED  BY <1>3, <2>4
<1> QED  BY <1>3, <1>6, <1>7

\* What PromptSound says of the files of one prompt.
ShownSoundly(memory, speaker, mentioned, shown) ==
  LET fixed == memory.soul + memory.lore IN
  /\ \A f \in shown.users : f.login \in mentioned \union {speaker}
  /\ \A f \in memory.users :
       (f.login = speaker /\ fixed + f.size <= Budget
        /\ \A g \in memory.users : g.login = speaker => g.updated <= f.updated) => f \in shown.users
  /\ \A f \in shown.users, g \in memory.users \ shown.users :
       f.login # speaker /\ g.login \in mentioned => f.updated >= g.updated
  /\ \A f \in shown.states, g \in memory.states \ shown.states : f.updated >= g.updated
  /\ shown.total <= Budget \/ shown.total = fixed

LEMMA PromptIsSound ==
  ASSUME NEW memory \in Memories, NEW speaker \in Users, NEW mentioned \in SUBSET Writers, NEW shown,
         shown = build_chat_turn_context(memory, Budget, speaker, mentioned, TRUE)
  PROVE  ShownSoundly(memory, speaker, mentioned, shown)
<1> DEFINE fixed == memory.soul + memory.lore
           people == InScope(memory.users, speaker, mentioned, TRUE)
           users == Packed(people, [f \in people |-> {g \in people: SpeakerFirst(speaker, g, f)}],
                           fixed, Budget)
           states == Packed(memory.states,
                            [f \in memory.states |-> {g \in memory.states: NewestFirst(g, f)}],
                            fixed + Size(users), Budget)
<1>1. /\ memory.soul \in Nat /\ memory.lore \in Nat /\ Files(memory.users) /\ Files(memory.states)
      /\ Budget \in Nat /\ None \notin Writers /\ Nobody \notin Writers
      /\ fixed \in Nat /\ speaker \in Writers
  BY AssistantAssumption DEF Writers
<1>2. shown.users = users /\ shown.states = states /\ shown.total = fixed + Size(users) + Size(states)
  BY DEF build_chat_turn_context
<1>3. people = {f \in memory.users : f.login \in mentioned \union {speaker}}
  BY <1>1 DEF InScope
<1>4. \A f \in memory.users, g \in memory.users :
        /\ f.updated \in Nat /\ f.size \in Nat
        /\ f.updated = g.updated => f = g
  BY <1>1 DEF Files
<1>5. Files(people)
  <2>1. people \in SUBSET memory.users
    BY <1>3
  <2> HIDE DEF people
  <2> QED  BY <1>1, <2>1, FS_Subset DEF Files
<1> HIDE DEF people, fixed
<1>6. /\ users \in SUBSET people
      /\ \A f \in users, g \in people : SpeakerFirst(speaker, g, f) => g \in users
      /\ users # {} => fixed + Size(users) <= Budget
  <2>1. PICK group, total, packed : group = people /\ total = fixed /\ packed = users
    OBVIOUS
  <2>2. /\ Files(group) /\ total \in Nat /\ Budget \in Nat
        /\ packed = Packed(group, [f \in group |-> {g \in group : SpeakerFirst(speaker, g, f)}], total, Budget)
    BY <1>1, <1>5, <2>1
  <2> HIDE DEF users, states
  <2>3. packed \in SUBSET group
    BY <2>2, PackingOfUsers
  <2>4. \A f \in packed, g \in group : SpeakerFirst(speaker, g, f) => g \in packed
    BY <2>2, PackingOfUsers
  <2>5. ASSUME packed # {}
        PROVE  total + Size(packed) <= Budget
    BY <2>2, <2>5, PackingOfUsers
  <2> QED  BY <2>1, <2>3, <2>4, <2>5
<1>7. IsFiniteSet(users) /\ \A f \in users : f.size \in Nat
  <2> HIDE DEF users
  <2> QED  BY <1>5, <1>6, FS_Subset DEF Files
<1>8. Size(users) \in Nat
  <2> HIDE DEF users
  <2> QED  BY <1>7, SizeOfAny
<1>9. fixed + Size(users) \in Nat
  <2> HIDE DEF users
  <2> QED  BY <1>1, <1>8
<1>10. /\ states \in SUBSET memory.states
       /\ \A f \in states, g \in memory.states : NewestFirst(g, f) => g \in states
       /\ states # {} => (fixed + Size(users)) + Size(states) <= Budget
  <2>1. PICK group, total, packed : group = memory.states /\ total = fixed + Size(users) /\ packed = states
    OBVIOUS
  <2>2. /\ Files(group) /\ total \in Nat /\ Budget \in Nat
        /\ packed = Packed(group, [f \in group |-> {g \in group : NewestFirst(g, f)}], total, Budget)
    <3> HIDE DEF users
    <3> QED  BY <1>1, <1>9, <2>1
  <2> HIDE DEF users, states
  <2>3. packed \in SUBSET group
    BY <2>2, PackingOfStates
  <2>4. \A f \in packed, g \in group : NewestFirst(g, f) => g \in packed
    BY <2>2, PackingOfStates
  <2>5. packed # {} => total + Size(packed) <= Budget
    BY <2>2, PackingOfStates
  <2> QED  BY <2>1, <2>3, <2>4, <2>5
<1>11. ASSUME NEW f \in memory.users, f.login = speaker, fixed + f.size <= Budget,
              \A g \in memory.users : g.login = speaker => g.updated <= f.updated
       PROVE  f \in users
  <2>1. f \in people
    BY <1>3, <1>11
  <2>2. {g \in people : SpeakerFirst(speaker, g, f)} = {}
    <3>1. ASSUME NEW g \in people, SpeakerFirst(speaker, g, f)
          PROVE  FALSE
      <4>1. g \in memory.users /\ g.updated \in Nat /\ f.updated \in Nat /\ speaker # Nobody
        BY <1>1, <1>3, <1>4
      <4>2. g.login = speaker /\ g.updated > f.updated
        BY <1>11, <3>1, <4>1 DEF SpeakerFirst
      <4> QED  BY <1>11, <4>1, <4>2
    <3> QED  BY <3>1
  <2>3. Size({f}) = f.size
    BY <1>4, SizeOfOne
  <2>4. {f} \union [h \in people |-> {g \in people : SpeakerFirst(speaker, g, h)}][f] = {f}
    BY <2>1, <2>2
  <2> QED  BY <1>11, <2>1, <2>3, <2>4 DEF Packed
<1> HIDE DEF users, states
<1>12. \A f \in users : f.login \in mentioned \union {speaker}
  BY <1>3, <1>6
<1>13. ASSUME NEW f \in users, NEW g \in memory.users \ users, f.login # speaker, g.login \in mentioned
       PROVE  f.updated >= g.updated
  <2>1. g \in people /\ f \in memory.users /\ f.updated \in Nat /\ g.updated \in Nat
    BY <1>3, <1>4, <1>6, <1>13
  <2>2. ~SpeakerFirst(speaker, g, f)
    BY <1>6, <1>13, <2>1
  <2> QED  BY <1>13, <2>1, <2>2 DEF SpeakerFirst
<1>14. ASSUME NEW f \in states, NEW g \in memory.states \ states
       PROVE  f.updated >= g.updated
  <2>1. f.updated \in Nat /\ g.updated \in Nat
    BY <1>1, <1>10 DEF Files
  <2>2. ~NewestFirst(g, f)
    BY <1>10, <1>14
  <2> QED  BY <2>1, <2>2 DEF NewestFirst
<1>15. shown.total <= Budget \/ shown.total = fixed
  <2>1. PICK start, ofUsers, ofStates :
          start = fixed /\ ofUsers = Size(users) /\ ofStates = Size(states)
    OBVIOUS
  <2>2. /\ Budget \in Nat /\ start \in Nat /\ ofUsers \in Nat /\ shown.total = start + ofUsers + ofStates
        /\ users # {} => start + ofUsers <= Budget
        /\ states # {} => (start + ofUsers) + ofStates <= Budget
        /\ users = {} => ofUsers = 0
        /\ states = {} => ofStates = 0
    BY <1>1, <1>2, <1>6, <1>8, <1>10, <2>1, SizeOfNone
  <2>3. shown.total <= Budget \/ shown.total = start
    <3>1. CASE states # {}
      BY <2>2, <3>1
    <3>2. CASE states = {}
      <4>1. ofStates = 0
        BY <2>2, <3>2
      <4>2. shown.total = start + ofUsers
        <5>1. (start + ofUsers) + 0 = start + ofUsers
          BY <2>2
        <5>2. shown.total = (start + ofUsers) + ofStates
          BY <2>2
        <5> QED  BY <4>1, <5>1, <5>2, Zenon
      <4>3. CASE users # {}
        BY <2>2, <4>2, <4>3
      <4>4. CASE users = {}
        <5>1. ofUsers = 0
          BY <2>2, <4>4
        <5>2. start + 0 = start
          BY <2>2
        <5> QED  BY <4>2, <5>1, <5>2, Zenon
      <4> QED  BY <4>3, <4>4
    <3> QED  BY <3>1, <3>2
  <2> QED  BY <2>1, <2>3
<1> QED  BY <1>2, <1>11, <1>12, <1>13, <1>14, <1>15 DEF fixed, ShownSoundly

-----------------------------------------------------------------------------
(* Prompts *)

\* The prompt of a turn is what build_chat_turn_context made of a memory and
\* of the people in its window.
PromptBuilt ==
  Prompted(turn) /\ turn.kind = "ai" =>
    LET w == turn.prompt.window IN
    /\ turn.prompt.memory \in Memories
    /\ Mentioned(w[1], w[2]) \subseteq Writers
    /\ turn.prompt.files = build_chat_turn_context(turn.prompt.memory, Budget, Message(turn.id).by,
                                                   Mentioned(w[1], w[2]), TRUE)

LEMMA SectionAuthors ==
  ASSUME NEW s \in Seq(Entries) \cup {NoHistory}, NEW cap \in Nat
  PROVE  Authors(Section(s, cap)) \subseteq Writers
<1>1. CASE s = NoHistory
  BY <1>1 DEF Section, NoHistory, Authors
<1>2. CASE s # NoHistory
  <2> PICK lines : lines = render_recent_section(s, cap)
    OBVIOUS
  <2>1. s \in Seq(Entries)
    BY <1>2
  <2>2. \E n \in 0..Len(s) : lines = Newest(s, n)
    BY <2>1, SectionIs
  <2>3. Len(s) \in Nat
    BY <2>1
  <2>4. lines \in Seq(Entries)
    BY <2>1, <2>2, <2>3, NewestIs
  <2>5. \A i \in DOMAIN lines : lines[i].by \in Writers
    <3>1. \A i \in DOMAIN lines : lines[i] \in Entries
      BY <2>4, ElementOfSeq
    <3> QED  BY <3>1 DEF Entries
  <2>6. Section(s, cap) = lines
    BY <1>2 DEF Section, NoHistory
  <2> QED  BY <2>5, <2>6 DEF Authors
<1> QED  BY <1>1, <1>2

LEMMA PromptBegins ==
  ASSUME AInv, NEW memory \in Memories, Named(memory)
  PROVE  PromptBuilt'
<1> SUFFICES ASSUME turn' # Idle
             PROVE  PromptBuilt'
  <2>1. turn' = Idle => turn'.phase = "idle"
    BY DEF Idle
  <2> QED  BY <2>1 DEF PromptBuilt, Prompted
<1> PICK id, m, w : id = turn.id /\ m = Message(id) /\ w = Window(m.chan)
  OBVIOUS
<1>1. turn # Idle /\ DOMAIN turn = TurnFields
  BY DEF Named, Idle, AInv, TurnOfMessage
<1>2. \E phase : turn' = [turn EXCEPT !.phase = phase, !.prompt = Prompt(m, memory)]
  BY DEF Named
<1>3. turn'.id = id /\ turn'.prompt = Prompt(m, memory) /\ arrived'[id] = m
  BY <1>1, <1>2 DEF TurnFields, Message, Named
<1>4. /\ turn'.prompt.window = w /\ turn'.prompt.memory = memory
      /\ turn'.prompt.files = build_chat_turn_context(memory, Budget, m.by, Mentioned(w[1], w[2]), TRUE)
  BY <1>3 DEF Prompt
<1>5. Mentioned(w[1], w[2]) \subseteq Writers
  <2> PICK primary, ai : /\ primary = Section(histories.primary, RecentBytes.primary)
                         /\ ai = Section(histories.ai, RecentBytes.ai)
    OBVIOUS
  <2>1. Authors(primary) \subseteq Writers /\ Authors(ai) \subseteq Writers
    <3>1. /\ histories.primary \in Seq(Entries) \cup {NoHistory}
          /\ histories.ai \in Seq(Entries) \cup {NoHistory}
      BY DEF AInv, AssistantTyped, Channels
    <3>2. RecentBytes.primary \in Nat /\ RecentBytes.ai \in Nat
      BY AssistantAssumption
    <3> QED  BY <3>1, <3>2, SectionAuthors
  <2>2. w = <<ai, primary>> \/ w = <<primary, ai>>
    BY DEF Window, recent_sections
  <2> QED  BY <2>1, <2>2 DEF Mentioned
<1> QED  BY <1>3, <1>4, <1>5 DEF PromptBuilt, Message

LEMMA PromptStays ==
  ASSUME AInv, PromptBuilt, Kept,
         \/ turn' = turn \/ ~Prompted(turn')
         \/ Prompted(turn) /\ turn'.id = turn.id /\ turn'.kind = turn.kind /\ turn'.prompt = turn.prompt
         \/ turn'.kind # "ai"
  PROVE  PromptBuilt'
<1> SUFFICES ASSUME Prompted(turn'), turn'.kind = "ai"
             PROVE  PromptBuilt'
  BY DEF PromptBuilt, Prompted
<1>1. Prompted(turn) /\ turn'.id = turn.id /\ turn'.kind = turn.kind /\ turn'.prompt = turn.prompt
  BY DEF Prompted
<1>2. arrived'[turn.id] = arrived[turn.id]
  <2>1. turn # Idle
    BY <1>1 DEF Prompted, Idle
  <2> QED  BY <2>1 DEF AInv, TurnOfMessage, Kept, Message
<1> QED  BY <1>1, <1>2 DEF PromptBuilt, Message

LEMMA PromptStep == AInv /\ PromptBuilt /\ [AssistantNext]_assistantVars => PromptBuilt'
<1> SUFFICES ASSUME AInv, PromptBuilt, [AssistantNext]_assistantVars
             PROVE  PromptBuilt'
  OBVIOUS
<1>1. turn # Idle => DOMAIN turn = TurnFields
  BY DEF AInv, TurnOfMessage
<1>2. ASSUME NEW k \in Kinds, Arrive(k)
      PROVE  PromptBuilt'
  <2>1. Kept
    BY <1>2, ArrivalWaits
  <2>2. turn' = turn
    BY <1>2 DEF Arrive
  <2> QED  BY <2>1, <2>2, PromptStays
<1>3. CASE Model \/ Pass \/ (\E k \in Knobs : Retune(k)) \/ UNCHANGED assistantVars
  <2>1. Kept
    <3>1. arrived' = arrived /\ inbox' = inbox
      BY <1>3 DEF Model, EndNews, Answered, Failed, CallsTools, ToolsDone, SearchDone, Pass, Retune,
                  assistantVars
    <3> QED  BY <3>1, Quiet
  <2>2. CASE Model
    <3>1. Prompted(turn) /\ turn # Idle
      BY <2>2 DEF Model, EndNews, Answered, Failed, CallsTools, ToolsDone, SearchDone, Asked, Prompted, Idle
    <3>2. \/ turn' = Idle
          \/ turn' = [turn EXCEPT !.phase = "tools"]
          \/ turn' = [turn EXCEPT !.phase = "whispering"]
          \/ turn' = [turn EXCEPT !.phase = "asking", !.round = @ + 1]
          \/ turn' = [turn EXCEPT !.phase = "asking"]
      BY <2>2 DEF Model, EndNews, Answered, Failed, CallsTools, ToolsDone, SearchDone
    <3>3. CASE turn' = Idle
      BY <2>1, <3>3, PromptStays DEF Prompted, Idle
    <3>4. CASE turn' # Idle
      <4>1. turn'.id = turn.id /\ turn'.kind = turn.kind /\ turn'.prompt = turn.prompt
        BY <1>1, <3>1, <3>2, <3>4 DEF TurnFields
      <4> QED  BY <2>1, <3>1, <4>1, PromptStays
    <3> QED  BY <3>3, <3>4
  <2>3. CASE Pass \/ (\E k \in Knobs : Retune(k)) \/ UNCHANGED assistantVars
    <3>1. turn' = turn
      BY <2>3 DEF Pass, Retune, assistantVars
    <3> QED  BY <2>1, <3>1, PromptStays
  <2> QED  BY <1>3, <2>2, <2>3
<1>4. CASE Dispatch
  <2>1. CASE ~BeginNews
    <3>1. turn' = Idle \/ turn'.phase = "naming"
      <4>1. CASE Ignore \/ Suspend \/ Unsuspend \/ Refused \/ Usage
        BY <4>1 DEF Ignore, Suspend, Unsuspend, Refused, Usage, Take
      <4>2. CASE BeginTurn
        BY <4>2 DEF BeginTurn
      <4> QED  BY <1>4, <2>1, <4>1, <4>2 DEF Dispatch
    <3> QED  BY <3>1 DEF PromptBuilt, Prompted, Idle
  <2>2. CASE BeginNews
    <3>1. PICK id, lines :
            /\ Take(id)
            /\ \/ turn' = turn
               \/ turn' = [phase |-> "asking", id |-> id, kind |-> "news", round |-> 0,
                           prompt |-> [window |-> <<lines, << >> >>]]
      BY <2>2 DEF BeginNews
    <3>2. turn' = Idle \/ turn'.kind # "ai"
      BY <3>1 DEF Take
    <3> QED  BY <3>2 DEF PromptBuilt, Prompted, Idle
  <2> QED  BY <2>1, <2>2
<1>5. CASE UntimedNext
  <2>1. ASSUME NEW memory \in Memories, Named(memory)
        PROVE  PromptBuilt'
    BY <2>1, PromptBegins
  <2>2. ASSUME NEW ok \in BOOLEAN, Whispered(ok)
        PROVE  PromptBuilt'
    BY <2>2 DEF Whispered, PromptBuilt, Prompted, Idle
  <2> QED  BY <1>5, <2>1, <2>2 DEF UntimedNext
<1> QED  BY <1>2, <1>3, <1>4, <1>5 DEF AssistantNext

LEMMA BuiltIsSound == AInv /\ PromptBuilt => PromptSound
<1> SUFFICES ASSUME AInv, PromptBuilt, Prompted(turn), turn.kind = "ai"
             PROVE  PromptSound
  BY DEF PromptSound
<1> PICK m, w, memory, shown, mentioned :
      /\ m = Message(turn.id) /\ w = turn.prompt.window /\ memory = turn.prompt.memory
      /\ shown = turn.prompt.files /\ mentioned = Mentioned(w[1], w[2])
  OBVIOUS
<1>1. /\ memory \in Memories /\ mentioned \in SUBSET Writers
      /\ shown = build_chat_turn_context(memory, Budget, m.by, mentioned, TRUE)
  BY DEF PromptBuilt
<1>2. m.by \in Users
  <2>1. turn.id \in DOMAIN arrived
    BY DEF AInv, TurnOfMessage, Had, Prompted, Idle
  <2> QED  BY <2>1, MessageIsKind
<1> PICK speaker \in Users : speaker = m.by
  BY <1>2
<1>3. ShownSoundly(memory, speaker, mentioned, shown)
  BY <1>1, PromptIsSound
<1> QED  BY <1>3 DEF ShownSoundly, PromptSound

(* Whatever is in the memory and whoever spoke lately: the prompt shows    *)
(* files only of people in the window and of the speaker, the speaker's    *)
(* own before all others, of the others and of the states the newest, and  *)
(* stays in the budget unless SOUL and LORE alone exceed it.               *)
THEOREM PromptsAreSound == AssistantSpec => []PromptSound
<1>1. AssistantInit => PromptBuilt
  BY DEF AssistantInit, PromptBuilt, Prompted, Idle
<1>2. AInv /\ PromptBuilt /\ [AssistantNext]_assistantVars => PromptBuilt'
  BY PromptStep
<1>3. AssistantSpec => []PromptBuilt
  BY <1>1, <1>2, AssistantInvariant, PTL DEF AssistantSpec
<1> QED  BY <1>3, BuiltIsSound, AssistantInvariant, PTL

-----------------------------------------------------------------------------
(* The transcript and its rotation *)

Positive == Nat \ {0}
Names == Dates \cup {Today}
\* RunOf(d) is the slot of the run on date d.
RunOf(d) == d * SlotsPerDay + dreamer.run_at

RitualTyped ==
  /\ wall \in Nat /\ wall <= LastSlot
  /\ dreamer \in [enabled : BOOLEAN, run_at : RunAts]
  /\ files \in [Names -> Seq(Positive) \cup {Absent}]
  /\ handle \in Names \cup {Closed}
  /\ ritual \in {Deciding} \cup [at : {"sleeping", "renamed"}, next : Nat, left : Nat]
                  \cup [at : {"off"}, left : Nat] \cup [at : {"dreaming"}]
  /\ said \in Nat /\ rotations \in [Dates -> Nat]
  /\ setBacks \in Nat /\ setBacks <= MaxSetBacks

\* A line is in one file, in order; until a date is archived twice none is
\* lost, and a date that was never archived has no file to lose.
LinesApart == \A f, g \in Names : f # g => LinesOf(f) \cap LinesOf(g) = {}
LinesInOrder ==
  \A f \in Names : files[f] # Absent =>
    \A i, j \in DOMAIN files[f] : i < j => files[f][i] < files[f][j]
LinesWereSaid == \A f \in Names : LinesOf(f) \subseteq 1..said
NoLineMissing == (\A d \in Dates : rotations[d] <= 1) => 1..said \subseteq UNION {LinesOf(f) : f \in Names}
ArchivesAreRotated == \A d \in Dates : rotations[d] = 0 => files[d] = Absent

\* The writer has its file, and there is no today.md unless it is that file.
HandleIsOpen ==
  /\ Up => files[handle] # Absent /\ (handle # Today => files[Today] = Absent)
  /\ ritual.at = "renamed" => files[Today] = Absent

FilesSound ==
  /\ LinesApart /\ LinesInOrder /\ LinesWereSaid /\ NoLineMissing /\ ArchivesAreRotated
  /\ HandleIsOpen

\* A sleeper wakes when its run is due, later by what the clock was set back.
SleepsUntilDue ==
  ritual.at = "sleeping" =>
    /\ ritual.next <= wall + ritual.left + setBacks
    /\ ~moved => ritual.next = wall + ritual.left

\* Until run_at or the clock is moved every run is on a later date than the last.
OneRunPerDate ==
  ~moved =>
    /\ \A d \in Dates : rotations[d] <= 1
    /\ \A d \in Dates : rotations[d] > 0 => RunOf(d + 1) <= wall
    /\ ritual.at = "sleeping" =>
         /\ \E e \in Nat : ritual.next = RunOf(e)
         /\ \A d \in Dates : rotations[d] > 0 => RunOf(d + 1) < ritual.next

RInv == RitualTyped /\ FilesSound /\ SleepsUntilDue /\ OneRunPerDate

\* The dates of the slots.
LEMMA DateOfRun ==
  ASSUME NEW d \in Int, NEW r \in 0 .. (SlotsPerDay - 1)
  PROVE  DateOf(d * SlotsPerDay + r) = d
  BY RitualAssumption DEF DateOf

LEMMA EarlierRun ==
  ASSUME NEW d \in Int, NEW e \in Int, NEW r \in Int,
         d * SlotsPerDay + r < e * SlotsPerDay + r
  PROVE  d < e
  BY RitualAssumption

LEMMA NextDay ==
  ASSUME NEW d \in Int
  PROVE  (d + 1) * SlotsPerDay = d * SlotsPerDay + SlotsPerDay
  BY RitualAssumption

LEMMA DateOfSlot ==
  ASSUME NEW w \in Nat
  PROVE  /\ DateOf(w) \in Nat
         /\ DateOf(w) * SlotsPerDay <= w /\ w < DateOf(w) * SlotsPerDay + SlotsPerDay
  BY RitualAssumption DEF DateOf

LEMMA LaterDate ==
  ASSUME NEW v \in Nat, NEW w \in Nat, v <= w
  PROVE  DateOf(v) <= DateOf(w)
  BY RitualAssumption DEF DateOf

\* The next run is to come, within a day, at a time of run_at.
LEMMA NextIsToCome ==
  ASSUME NEW w \in Nat, NEW r \in 0 .. (SlotsPerDay - 1)
  PROVE  /\ next_run(w, r) \in Nat /\ next_run(w, r) > w
         /\ \E e \in Nat : next_run(w, r) = e * SlotsPerDay + r
<1> DEFINE d == DateOf(w)
           t == d * SlotsPerDay + r
<1>1. d \in Nat /\ d * SlotsPerDay \in Nat /\ w < d * SlotsPerDay + SlotsPerDay
  BY DateOfSlot, RitualAssumption
<1>2. (d + 1) * SlotsPerDay + r = t + SlotsPerDay /\ d + 1 \in Nat
  BY <1>1, NextDay, RitualAssumption
<1>3. t \in Nat /\ t + SlotsPerDay \in Nat /\ t + SlotsPerDay > w
  BY <1>1, RitualAssumption
<1>4. next_run(w, r) = IF t > w THEN t ELSE t + SlotsPerDay
  BY DEF next_run
<1> HIDE DEF d
<1>5. CASE t > w
  BY <1>1, <1>3, <1>4, <1>5
<1>6. CASE ~(t > w)
  <2>1. next_run(w, r) = t + SlotsPerDay
    BY <1>4, <1>6
  <2> QED  BY <1>2, <1>3, <2>1
<1> QED  BY <1>5, <1>6

LEMMA AbsentIsNoSequence == \A s \in Seq(Positive) : s # Absent
<1> SUFFICES ASSUME NEW s \in Seq(Positive), s = Absent
             PROVE  FALSE
  OBVIOUS
<1>1. Len(s) = 1 /\ s[1] = -1
  BY DEF Absent
<1>2. s[1] \in Positive
  BY <1>1, ElementOfSeq
<1> QED  BY <1>1, <1>2 DEF Positive

LEMMA NamesApart == Today \notin Dates /\ Closed \notin Names /\ Today \in Names
  BY DEF Today, Closed, Names, Dates

LEMMA RitualStarts == RitualInit => RInv
<1> SUFFICES ASSUME RitualInit
             PROVE  RInv
  OBVIOUS
<1>1. \A f \in Names : files[f] = Absent /\ LinesOf(f) = {}
  BY DEF RitualInit, LinesOf, Names
<1>2. RitualTyped
  BY RitualAssumption DEF RitualInit, RitualTyped, Names
<1>3. FilesSound
  BY <1>1
  DEF RitualInit, FilesSound, LinesApart, LinesInOrder, LinesWereSaid, NoLineMissing,
      ArchivesAreRotated, HandleIsOpen, Names, Up, Deciding
<1>4. SleepsUntilDue /\ OneRunPerDate
  BY DEF RitualInit, SleepsUntilDue, OneRunPerDate, Deciding
<1> QED  BY <1>2, <1>3, <1>4 DEF RInv

LEMMA RInvMeansLinesKept == RInv => LinesKept
<1> SUFFICES ASSUME RInv
             PROVE  LinesKept
  OBVIOUS
<1>1. DOMAIN files = Names /\ said \in Nat
  BY DEF RInv, RitualTyped
<1>2. \A f, g \in Names : f # g => LinesOf(f) \cap LinesOf(g) = {}
  BY DEF RInv, FilesSound, LinesApart
<1>3. \A f \in Names : files[f] # Absent =>
        \A i, j \in DOMAIN files[f] : i < j => files[f][i] < files[f][j]
  BY DEF RInv, FilesSound, LinesInOrder
<1>4. (\A d \in Dates : rotations[d] <= 1) => UNION {LinesOf(f) : f \in Names} = 1..said
  BY DEF RInv, FilesSound, LinesWereSaid, NoLineMissing
<1>5. ~moved => \A d \in Dates : rotations[d] <= 1
  BY DEF RInv, OneRunPerDate
<1> QED  BY <1>1, <1>2, <1>3, <1>4, <1>5 DEF LinesKept

\* A step that neither adds nor moves a line.
LEMMA LinesStand ==
  ASSUME FilesSound,
         \A f \in Names : files'[f] = files[f]
                          \/ (f = Today /\ files[f] = Absent /\ files'[f] = << >>),
         UNCHANGED <<said, rotations>>, HandleIsOpen'
  PROVE  FilesSound'
<1>1. \A f \in Names : LinesOf(f)' = LinesOf(f)
  <2> SUFFICES ASSUME NEW f \in Names
               PROVE  LinesOf(f)' = LinesOf(f)
    OBVIOUS
  <2>1. CASE files'[f] = files[f]
    BY <2>1 DEF LinesOf
  <2>2. CASE files[f] = Absent /\ files'[f] = << >>
    BY <2>2 DEF LinesOf, Range
  <2> QED  BY <2>1, <2>2
<1>2. LinesApart' /\ LinesWereSaid' /\ NoLineMissing'
  BY <1>1 DEF FilesSound, LinesApart, LinesWereSaid, NoLineMissing
<1>3. LinesInOrder'
  <2> SUFFICES ASSUME NEW f \in Names, files'[f] # Absent,
                      NEW i \in DOMAIN files'[f], NEW j \in DOMAIN files'[f], i < j
               PROVE  files'[f][i] < files'[f][j]
    BY DEF LinesInOrder
  <2>1. files'[f] = files[f]
    <3>1. DOMAIN << >> = {}
      OBVIOUS
    <3> QED  BY <3>1
  <2> QED  BY <2>1 DEF FilesSound, LinesInOrder
<1>4. ArchivesAreRotated'
  BY NamesApart DEF FilesSound, ArchivesAreRotated, Names
<1> QED  BY <1>2, <1>3, <1>4 DEF FilesSound

\* A step that leaves the clock, the settings and the runs alone, and does not
\* begin a sleep.
LEMMA TimingStands ==
  ASSUME RInv, UNCHANGED <<wall, dreamer, rotations, setBacks, moved>>,
         ritual'.at = "sleeping" => ritual' = ritual
  PROVE  SleepsUntilDue' /\ OneRunPerDate'
<1>1. \A d : RunOf(d)' = RunOf(d)
  BY DEF RunOf
<1> QED  BY <1>1 DEF RInv, SleepsUntilDue, OneRunPerDate

LEMMA OpenTranscriptKeeps == RInv /\ open_transcript => RInv'
<1> SUFFICES ASSUME RInv, open_transcript
             PROVE  RInv'
  OBVIOUS
<1>1. /\ handle' = Today /\ ritual' = Deciding
      /\ files' = IF files[Today] = Absent THEN [files EXCEPT ![Today] = << >>] ELSE files
      /\ UNCHANGED <<wall, dreamer, said, rotations, setBacks, moved>>
  BY DEF open_transcript
<1>2. files \in [Names -> Seq(Positive) \cup {Absent}]
  BY DEF RInv, RitualTyped
<1>3. files' \in [Names -> Seq(Positive) \cup {Absent}]
      /\ \A f \in Names : files'[f] = files[f]
                          \/ (f = Today /\ files[f] = Absent /\ files'[f] = << >>)
  <2>1. << >> \in Seq(Positive)
    BY EmptySeq
  <2> QED  BY <1>1, <1>2, <2>1, NamesApart
<1>4. RitualTyped'
  BY <1>1, <1>3, NamesApart DEF RInv, RitualTyped
<1>5. files'[Today] # Absent
  <2>1. << >> # Absent
    BY AbsentIsNoSequence, EmptySeq
  <2> QED  BY <1>1, <1>2, <2>1, NamesApart
<1>6. HandleIsOpen'
  BY <1>1, <1>5 DEF HandleIsOpen, Deciding
<1>7. FilesSound'
  BY <1>1, <1>3, <1>6, LinesStand DEF RInv
<1>8. SleepsUntilDue' /\ OneRunPerDate'
  BY <1>1, TimingStands DEF Deciding
<1> QED  BY <1>4, <1>7, <1>8 DEF RInv

\* One more line at the end of a file.
LEMMA Appended ==
  ASSUME NEW s \in Seq(Positive), NEW e \in Positive,
         \A i \in DOMAIN s : s[i] < e,
         \A i, j \in DOMAIN s : i < j => s[i] < s[j]
  PROVE  LET t == Append(s, e) IN
         /\ t \in Seq(Positive) /\ Range(t) = Range(s) \cup {e}
         /\ \A i, j \in DOMAIN t : i < j => t[i] < t[j]
<1> DEFINE t == Append(s, e)
           n == Len(s)
<1>1. n \in Nat /\ DOMAIN s = 1 .. n /\ t \in Seq(Positive) /\ Len(t) = n + 1
      /\ DOMAIN t = 1 .. n + 1 /\ t[n + 1] = e /\ \A i \in 1 .. n : t[i] = s[i]
  OBVIOUS
<1> HIDE DEF t, n
<1>2. Range(t) = Range(s) \cup {e}
  <2>1. \A i \in 1 .. n + 1 : i \in 1 .. n \/ i = n + 1
    BY <1>1
  <2>2. 1 .. n \subseteq 1 .. n + 1 /\ n + 1 \in 1 .. n + 1
    BY <1>1
  <2> QED  BY <1>1, <2>1, <2>2 DEF Range
<1>3. ASSUME NEW i \in DOMAIN t, NEW j \in DOMAIN t, i < j
      PROVE  t[i] < t[j]
  <2>1. i \in 1 .. n
    BY <1>1, <1>3
  <2>2. CASE j = n + 1
    BY <1>1, <2>1, <2>2
  <2>3. CASE j # n + 1
    <3>1. j \in 1 .. n
      BY <1>1, <2>3
    <3> QED  BY <1>1, <1>3, <2>1, <3>1
  <2> QED  BY <2>2, <2>3
<1> QED  BY <1>1, <1>2, <1>3 DEF t

LEMMA AppendKeeps == RInv /\ append_line => RInv'
<1> SUFFICES ASSUME RInv, append_line
             PROVE  RInv'
  OBVIOUS
<1> DEFINE s == files[handle]
           t == Append(s, said + 1)
<1>1. /\ Up /\ said' = said + 1 /\ files' = [files EXCEPT ![handle] = t]
      /\ UNCHANGED <<wall, dreamer, handle, ritual, rotations, setBacks, moved>>
  BY DEF append_line
<1>2. /\ files \in [Names -> Seq(Positive) \cup {Absent}] /\ said \in Nat
      /\ handle \in Names \cup {Closed} /\ rotations \in [Dates -> Nat]
  BY DEF RInv, RitualTyped
<1>3. handle \in Names /\ s # Absent /\ (handle # Today => files[Today] = Absent)
  BY <1>1, <1>2 DEF Up, RInv, FilesSound, HandleIsOpen
<1>4. s \in Seq(Positive)
  BY <1>2, <1>3
<1>5. LinesOf(handle) = Range(s) /\ Range(s) \subseteq 1 .. said
  BY <1>3 DEF LinesOf, RInv, FilesSound, LinesWereSaid
<1>6. \A i \in DOMAIN s : s[i] < said + 1
  BY <1>2, <1>5 DEF Range
<1>7. \A i, j \in DOMAIN s : i < j => s[i] < s[j]
  BY <1>3 DEF RInv, FilesSound, LinesInOrder
<1>8. said + 1 \in Positive
  BY <1>2 DEF Positive
<1>9. /\ t \in Seq(Positive) /\ Range(t) = Range(s) \cup {said + 1}
      /\ \A i, j \in DOMAIN t : i < j => t[i] < t[j]
  BY <1>4, <1>6, <1>7, <1>8, Appended
<1>10. t # Absent
  BY <1>9, AbsentIsNoSequence
<1> HIDE DEF s, t
<1>11. /\ files' \in [Names -> Seq(Positive) \cup {Absent}] /\ files'[handle] = t
       /\ \A f \in Names : f # handle => files'[f] = files[f]
  BY <1>1, <1>2, <1>3, <1>9
<1>12. RitualTyped'
  BY <1>1, <1>2, <1>11 DEF RInv, RitualTyped
<1>13. \A f \in Names : LinesOf(f)' = IF f = handle THEN LinesOf(f) \cup {said + 1} ELSE LinesOf(f)
  BY <1>1, <1>5, <1>9, <1>10, <1>11 DEF LinesOf
<1>14. \A f \in Names : LinesOf(f) \subseteq 1 .. said
  BY DEF RInv, FilesSound, LinesWereSaid
<1>15. said + 1 \notin 1 .. said /\ 1 .. said' = (1 .. said) \cup {said + 1}
  BY <1>1, <1>2
<1>16. LinesWereSaid'
  BY <1>13, <1>14, <1>15 DEF LinesWereSaid
<1>17. LinesApart'
  <2>1. \A f, g \in Names : f # g => LinesOf(f) \cap LinesOf(g) = {}
    BY DEF RInv, FilesSound, LinesApart
  <2>2. \A f \in Names : said + 1 \notin LinesOf(f)
    BY <1>14, <1>15
  <2> QED  BY <1>13, <2>1, <2>2 DEF LinesApart
<1>18. LinesInOrder'
  BY <1>1, <1>9, <1>11 DEF RInv, FilesSound, LinesInOrder
<1>19. NoLineMissing'
  <2> SUFFICES ASSUME \A d \in Dates : rotations[d] <= 1
               PROVE  1 .. said' \subseteq UNION {LinesOf(f)' : f \in Names}
    BY <1>1 DEF NoLineMissing
  <2>1. 1 .. said \subseteq UNION {LinesOf(f) : f \in Names}
    BY DEF RInv, FilesSound, NoLineMissing
  <2>2. \A f \in Names : LinesOf(f) \subseteq LinesOf(f)'
    BY <1>13
  <2> QED  BY <1>3, <1>13, <1>15, <2>1, <2>2
<1>20. ArchivesAreRotated'
  BY <1>1, <1>3, <1>11 DEF RInv, FilesSound, ArchivesAreRotated, Names, s
<1>21. HandleIsOpen'
  BY <1>1, <1>3, <1>10, <1>11, NamesApart DEF RInv, FilesSound, HandleIsOpen, Up, append_line, Locked
<1>22. SleepsUntilDue' /\ OneRunPerDate'
  BY <1>1, TimingStands
<1> QED  BY <1>12, <1>16, <1>17, <1>18, <1>19, <1>20, <1>21, <1>22 DEF RInv, FilesSound

\* A step that touches neither the files nor their lines.
LEMMA FilesStand ==
  ASSUME RInv, UNCHANGED <<files, said, rotations>>, HandleIsOpen'
  PROVE  FilesSound'
  BY LinesStand DEF RInv

\* A sleeper that wakes finds a date for the archive.
LEMMA ArchiveIsADate ==
  ASSUME RInv, ritual.at = "sleeping", ritual.left = 0
  PROVE  ritual.next \in Nat /\ Archive \in Dates
<1>1. ritual.next \in Nat /\ ritual.next <= wall + setBacks
      /\ wall \in Nat /\ wall <= LastSlot /\ setBacks \in Nat /\ setBacks <= MaxSetBacks
  BY DEF RInv, RitualTyped, SleepsUntilDue, Deciding
<1>2. ritual.next <= LastSlot + MaxSetBacks /\ LastSlot + MaxSetBacks \in Nat
  BY <1>1, RitualAssumption
<1>3. DateOf(ritual.next) <= DateOf(LastSlot + MaxSetBacks) /\ DateOf(ritual.next) \in Nat
      /\ DateOf(LastSlot + MaxSetBacks) \in Nat
  BY <1>1, <1>2, LaterDate, DateOfSlot
<1>4. Dates = -1 .. DateOf(LastSlot + MaxSetBacks)
  BY DEF Dates, DateOf
<1> QED  BY <1>1, <1>3, <1>4 DEF Archive

\* While neither run_at nor the clock was moved, the archive is a new one.
LEMMA ArchiveIsNew ==
  ASSUME RInv, ritual.at = "sleeping", ritual.left = 0, ~moved
  PROVE  rotations[Archive] = 0 /\ RunOf(Archive + 1) <= wall
<1>1. Archive \in Dates /\ rotations \in [Dates -> Nat] /\ wall \in Nat
      /\ dreamer.run_at \in 0 .. (SlotsPerDay - 1)
  BY ArchiveIsADate, RitualAssumption DEF RInv, RitualTyped
<1>2. ritual.next = wall
  BY <1>1 DEF RInv, SleepsUntilDue
<1>3. PICK e \in Nat : ritual.next = RunOf(e)
  BY DEF RInv, OneRunPerDate
<1>4. DateOf(RunOf(e)) = e
  BY <1>1, DateOfRun DEF RunOf
<1>5. Archive + 1 = e
  BY <1>3, <1>4 DEF Archive
<1>6. rotations[Archive] > 0 => RunOf(Archive + 1) < ritual.next
  BY <1>1 DEF RInv, OneRunPerDate
<1>7. ~(wall < wall)
  BY <1>1
<1> QED  BY <1>1, <1>2, <1>3, <1>5, <1>6, <1>7

LEMMA RotateKeeps == RInv /\ rotate_to => RInv'
<1> SUFFICES ASSUME RInv, rotate_to
             PROVE  RInv'
  OBVIOUS
<1>1. /\ Up /\ ritual.at = "sleeping" /\ ritual.left = 0
      /\ UNCHANGED <<wall, dreamer, said, setBacks, moved>>
  BY DEF rotate_to
<1>2. /\ files \in [Names -> Seq(Positive) \cup {Absent}] /\ said \in Nat
      /\ handle \in Names \cup {Closed} /\ rotations \in [Dates -> Nat]
  BY DEF RInv, RitualTyped
<1>3. CASE files[Today] = Absent
  <2>1. ritual' = Deciding /\ UNCHANGED <<files, handle, rotations>>
    BY <1>3 DEF rotate_to
  <2>2. RitualTyped'
    BY <1>1, <2>1 DEF RInv, RitualTyped
  <2>3. HandleIsOpen'
    BY <2>1 DEF RInv, FilesSound, HandleIsOpen, Up, Deciding
  <2>4. FilesSound'
    BY <1>1, <2>1, <2>3, FilesStand
  <2>5. SleepsUntilDue' /\ OneRunPerDate'
    BY <1>1, <2>1, TimingStands DEF Deciding
  <2> QED  BY <2>2, <2>4, <2>5 DEF RInv
<1>4. CASE files[Today] # Absent
  <2> DEFINE a == Archive
  <2>1. /\ files' = [files EXCEPT ![a] = files[Today], ![Today] = Absent]
        /\ handle' = IF handle = Today THEN a ELSE handle
        /\ rotations' = [rotations EXCEPT ![a] = @ + 1]
        /\ ritual' = [ritual EXCEPT !.at = "renamed"]
    BY <1>4 DEF rotate_to
  <2>2. a \in Dates /\ a \in Names /\ a # Today
    BY <1>1, ArchiveIsADate, NamesApart DEF Names
  <2>3. handle = Today
    BY <1>1, <1>4 DEF RInv, FilesSound, HandleIsOpen
  <2>4. ~moved => rotations[a] = 0 /\ RunOf(a + 1) <= wall
    BY <1>1, ArchiveIsNew
  <2> HIDE DEF a
  <2>5. /\ files' \in [Names -> Seq(Positive) \cup {Absent}]
        /\ files'[a] = files[Today] /\ files'[Today] = Absent
        /\ \A f \in Names : f # a /\ f # Today => files'[f] = files[f]
    BY <1>2, <2>1, <2>2, NamesApart
  <2>6. /\ rotations' \in [Dates -> Nat] /\ rotations'[a] = rotations[a] + 1
        /\ \A d \in Dates : d # a => rotations'[d] = rotations[d]
    BY <1>2, <2>1, <2>2
  <2>7. ritual' \in [at : {"sleeping", "renamed"}, next : Nat, left : Nat]
        /\ ritual'.at = "renamed"
    <3>1. ritual \in [at : {"sleeping", "renamed"}, next : Nat, left : Nat]
      BY <1>1 DEF RInv, RitualTyped, Deciding
    <3> QED  BY <2>1, <3>1
  <2>8. handle' = a
    BY <2>1, <2>3
  <2>9. RitualTyped'
    BY <1>1, <2>2, <2>5, <2>6, <2>7, <2>8 DEF RInv, RitualTyped
  <2>10. \A f \in Names : LinesOf(f)' = IF f = a THEN LinesOf(Today)
                                        ELSE IF f = Today THEN {} ELSE LinesOf(f)
    BY <1>4, <2>2, <2>5 DEF LinesOf
  <2>11. LinesApart' /\ LinesWereSaid'
    <3>1. /\ \A f, g \in Names : f # g => LinesOf(f) \cap LinesOf(g) = {}
          /\ \A f \in Names : LinesOf(f) \subseteq 1 .. said
      BY DEF RInv, FilesSound, LinesApart, LinesWereSaid
    <3>2. LinesApart'
      BY <2>2, <2>10, <3>1, NamesApart DEF LinesApart
    <3>3. LinesWereSaid'
      BY <1>1, <2>2, <2>10, <3>1, NamesApart DEF LinesWereSaid
    <3> QED  BY <3>2, <3>3
  <2>12. LinesInOrder'
    <3>1. \A f \in Names : files'[f] # Absent =>
             \E g \in Names : files'[f] = files[g] /\ files[g] # Absent
      BY <1>4, <2>2, <2>5, NamesApart
    <3> QED  BY <3>1 DEF RInv, FilesSound, LinesInOrder
  <2>13. NoLineMissing'
    <3> SUFFICES ASSUME \A d \in Dates : rotations'[d] <= 1
                 PROVE  1 .. said' \subseteq UNION {LinesOf(f)' : f \in Names}
      BY DEF NoLineMissing
    <3>1. rotations[a] = 0 /\ \A d \in Dates : rotations[d] <= 1
      BY <1>2, <2>2, <2>6
    <3>2. LinesOf(a) = {}
      BY <2>2, <3>1 DEF RInv, FilesSound, ArchivesAreRotated, LinesOf
    <3>3. 1 .. said \subseteq UNION {LinesOf(f) : f \in Names}
      BY <3>1 DEF RInv, FilesSound, NoLineMissing
    <3>4. ASSUME NEW l \in 1 .. said'
          PROVE  \E g \in Names : l \in LinesOf(g)'
      <4>1. PICK f \in Names : l \in LinesOf(f)
        BY <1>1, <3>3, <3>4
      <4>2. f # a
        BY <3>2, <4>1
      <4>3. CASE f = Today
        BY <2>2, <2>10, <4>1, <4>3
      <4>4. CASE f # Today
        BY <2>10, <4>1, <4>2, <4>4
      <4> QED  BY <4>3, <4>4
    <3> QED  BY <3>4
  <2>14. ArchivesAreRotated'
    BY <1>2, <2>2, <2>5, <2>6, NamesApart DEF RInv, FilesSound, ArchivesAreRotated, Names
  <2>15. HandleIsOpen'
    BY <1>4, <2>5, <2>8 DEF HandleIsOpen
  <2>16. SleepsUntilDue'
    BY <2>7 DEF SleepsUntilDue
  <2>17. OneRunPerDate'
    <3>1. \A d : RunOf(d)' = RunOf(d)
      BY <1>1 DEF RunOf
    <3>2. ASSUME ~moved
          PROVE  \A d \in Dates : rotations'[d] <= 1 /\ (rotations'[d] > 0 => RunOf(d + 1) <= wall)
      BY <1>2, <2>2, <2>4, <2>6, <3>2 DEF RInv, OneRunPerDate
    <3> QED  BY <1>1, <2>7, <3>1, <3>2 DEF OneRunPerDate
  <2> QED  BY <2>9, <2>11, <2>12, <2>13, <2>14, <2>15, <2>16, <2>17 DEF RInv, FilesSound
<1> QED  BY <1>3, <1>4

LEMMA ReopenKeeps ==
  ASSUME RInv, NEW ok \in BOOLEAN, reopen(ok)
  PROVE  RInv'
<1>1. /\ Up /\ ritual.at = "renamed" /\ files[Today] = Absent
      /\ UNCHANGED <<wall, dreamer, said, rotations, setBacks, moved>>
  BY DEF reopen, RInv, FilesSound, HandleIsOpen
<1>2. files \in [Names -> Seq(Positive) \cup {Absent}]
  BY DEF RInv, RitualTyped
<1>3. << >> \in Seq(Positive) /\ << >> # Absent
  BY AbsentIsNoSequence, EmptySeq
<1>4. ritual'.at # "sleeping" /\ ritual'.at # "renamed"
      /\ ritual' \in {Deciding} \cup [at : {"dreaming"}]
  BY DEF reopen, Deciding
<1>5. /\ files' \in [Names -> Seq(Positive) \cup {Absent}]
      /\ handle' \in Names \cup {Closed}
      /\ \A f \in Names : files'[f] = files[f]
                          \/ (f = Today /\ files[f] = Absent /\ files'[f] = << >>)
      /\ handle' # Closed => files'[handle'] # Absent /\ (handle' # Today => files'[Today] = Absent)
  <2>1. CASE ok
    <3>1. files' = [files EXCEPT ![Today] = << >>] /\ handle' = Today
      BY <2>1 DEF reopen
    <3> QED  BY <1>1, <1>2, <1>3, <3>1, NamesApart
  <2>2. CASE ~ok
    <3>1. UNCHANGED <<files, handle>>
      BY <2>2 DEF reopen
    <3> QED  BY <1>1, <1>2, <3>1 DEF RInv, FilesSound, HandleIsOpen, Up, RitualTyped
  <2> QED  BY <2>1, <2>2
<1>6. RitualTyped'
  BY <1>1, <1>4, <1>5 DEF RInv, RitualTyped
<1>7. HandleIsOpen'
  BY <1>4, <1>5 DEF HandleIsOpen, Up
<1>8. FilesSound'
  BY <1>1, <1>5, <1>7, LinesStand DEF RInv
<1>9. SleepsUntilDue' /\ OneRunPerDate'
  BY <1>1, <1>4, TimingStands
<1> QED  BY <1>6, <1>8, <1>9 DEF RInv

LEMMA RitualEndKeeps == RInv /\ (run_ritual \/ Stop) => RInv'
<1> SUFFICES ASSUME RInv, run_ritual \/ Stop
             PROVE  RInv'
  OBVIOUS
<1>1. /\ UNCHANGED <<wall, dreamer, files, said, rotations, setBacks, moved>>
      /\ ritual' = Deciding /\ handle' \in {handle, Closed}
  BY DEF run_ritual, Stop
<1>2. RitualTyped'
  BY <1>1 DEF RInv, RitualTyped
<1>3. HandleIsOpen'
  BY <1>1 DEF RInv, FilesSound, HandleIsOpen, Up, Deciding
<1>4. FilesSound'
  BY <1>1, <1>3, FilesStand
<1>5. SleepsUntilDue' /\ OneRunPerDate'
  BY <1>1, TimingStands DEF Deciding
<1> QED  BY <1>2, <1>4, <1>5 DEF RInv

LEMMA IntegersMultiply ==
  ASSUME NEW a \in Int, NEW b \in Int
  PROVE  a * b \in Int
  OBVIOUS

LEMMA RunsAreSlots ==
  ASSUME RInv
  PROVE  \A d \in Dates : RunOf(d + 1) \in Int
<1> SUFFICES ASSUME NEW d \in Dates
             PROVE  RunOf(d + 1) \in Int
  OBVIOUS
<1>1. d \in Int
  BY DEF Dates
<1>2. dreamer.run_at \in Int /\ SlotsPerDay \in Int
  <2>1. dreamer.run_at \in RunAts
    BY DEF RInv, RitualTyped
  <2>2. SlotsPerDay \in Int /\ RunAts \subseteq 0 .. (SlotsPerDay - 1)
    BY RitualAssumption
  <2>3. dreamer.run_at \in 0 .. (SlotsPerDay - 1)
    BY <2>1, <2>2
  <2> QED  BY <2>2, <2>3
<1>3. d * SlotsPerDay \in Int /\ (d + 1) * SlotsPerDay = d * SlotsPerDay + SlotsPerDay
  BY <1>1, <1>2, IntegersMultiply, NextDay
<1> QED  BY <1>2, <1>3 DEF RunOf

LEMMA DecideKeeps == RInv /\ Decide => RInv'
<1> SUFFICES ASSUME RInv, Decide
             PROVE  RInv'
  OBVIOUS
<1> DEFINE next == next_run(wall, dreamer.run_at)
           sleep == [at |-> "sleeping", next |-> next, left |-> next - wall]
<1>1. /\ UNCHANGED <<wall, dreamer, files, handle, said, rotations, setBacks, moved>>
      /\ ritual' = IF dreamer.enabled THEN sleep ELSE [at |-> "off", left |-> 1]
  BY DEF Decide
<1>2. wall \in Nat /\ setBacks \in Nat /\ rotations \in [Dates -> Nat]
      /\ dreamer.run_at \in 0 .. (SlotsPerDay - 1) /\ \A d \in Dates : RunOf(d + 1) \in Int
  BY RunsAreSlots, RitualAssumption DEF RInv, RitualTyped
<1>3. /\ next \in Nat /\ next > wall
      /\ \E e \in Nat : next = RunOf(e)
  BY <1>2, NextIsToCome DEF RunOf
<1>4. /\ sleep \in [at : {"sleeping", "renamed"}, next : Nat, left : Nat]
      /\ sleep.at = "sleeping" /\ sleep.next = next /\ sleep.left = next - wall
  BY <1>2, <1>3
<1> HIDE DEF sleep, next
<1>5. ritual' \in [at : {"sleeping", "renamed"}, next : Nat, left : Nat] \cup [at : {"off"}, left : Nat]
      /\ ritual'.at # "renamed"
  BY <1>1, <1>4
<1>6. RitualTyped'
  BY <1>1, <1>5 DEF RInv, RitualTyped
<1>7. HandleIsOpen'
  BY <1>1, <1>5 DEF RInv, FilesSound, HandleIsOpen, Up
<1>8. FilesSound'
  BY <1>1, <1>7, FilesStand
<1>9. ritual'.at = "sleeping" => ritual'.next = next /\ ritual'.left = next - wall
  BY <1>1, <1>4
<1>10. SleepsUntilDue'
  BY <1>1, <1>2, <1>3, <1>9 DEF SleepsUntilDue
<1>11. OneRunPerDate'
  <2>1. \A d : RunOf(d)' = RunOf(d)
    BY <1>1 DEF RunOf
  <2>2. ASSUME ~moved, NEW d \in Dates, rotations[d] > 0
        PROVE  RunOf(d + 1) <= wall /\ RunOf(d + 1) < next
    <3>1. RunOf(d + 1) <= wall
      BY <2>2 DEF RInv, OneRunPerDate
    <3> QED  BY <1>2, <1>3, <3>1
  <2>3. ~moved => \A d \in Dates : rotations[d] <= 1
    BY DEF RInv, OneRunPerDate
  <2> QED  BY <1>1, <1>3, <1>9, <2>1, <2>2, <2>3 DEF OneRunPerDate
<1> QED  BY <1>6, <1>8, <1>10, <1>11 DEF RInv

LEMMA ElapseKeeps == RInv /\ Elapse => RInv'
<1> SUFFICES ASSUME RInv, Elapse
             PROVE  RInv'
  OBVIOUS
<1>1. /\ wall < LastSlot /\ wall' = wall + 1
      /\ ritual.at = "sleeping" => ritual.left > 0
      /\ UNCHANGED <<dreamer, files, handle, said, rotations, setBacks, moved>>
  BY DEF Elapse
<1>2. wall \in Nat /\ setBacks \in Nat /\ LastSlot \in Nat
      /\ \A d \in Dates : RunOf(d + 1) \in Int
  BY RunsAreSlots, RitualAssumption DEF RInv, RitualTyped
<1>3. ASSUME ritual.at = "sleeping"
      PROVE  /\ ritual' \in [at : {"sleeping"}, next : Nat, left : Nat]
             /\ ritual'.next = ritual.next /\ ritual'.left = ritual.left - 1
             /\ ritual.left \in Nat /\ ritual.next \in Nat
  <2>1. ritual \in [at : {"sleeping"}, next : Nat, left : Nat]
    BY <1>3 DEF RInv, RitualTyped, Deciding
  <2>2. ritual' = [ritual EXCEPT !.left = @ - 1]
    BY <1>3 DEF Elapse
  <2> QED  BY <1>1, <1>3, <2>1, <2>2
<1>4. ritual.at = "off" => ritual' = Deciding
  BY DEF Elapse
<1>5. ritual.at \notin {"sleeping", "off"} => ritual' = ritual
  BY DEF Elapse
<1>6. RitualTyped'
  <2>1. wall' \in Nat /\ wall' <= LastSlot
    BY <1>1, <1>2
  <2>2. ritual' \in {Deciding} \cup [at : {"sleeping", "renamed"}, next : Nat, left : Nat]
                  \cup [at : {"off"}, left : Nat] \cup [at : {"dreaming"}]
    BY <1>3, <1>4, <1>5 DEF RInv, RitualTyped
  <2> QED  BY <1>1, <2>1, <2>2 DEF RInv, RitualTyped
<1>7. (ritual'.at = "sleeping" => ritual.at = "sleeping") /\ (ritual'.at = "renamed" => ritual.at = "renamed")
  BY <1>3, <1>4, <1>5 DEF Deciding
<1>8. HandleIsOpen'
  BY <1>1, <1>7 DEF RInv, FilesSound, HandleIsOpen, Up
<1>9. FilesSound'
  BY <1>1, <1>8, FilesStand
<1>10. SleepsUntilDue'
  BY <1>1, <1>2, <1>3, <1>7 DEF RInv, SleepsUntilDue
<1>11. OneRunPerDate'
  <2>1. \A d : RunOf(d)' = RunOf(d)
    BY <1>1 DEF RunOf
  <2>2. ASSUME ~moved, NEW d \in Dates, rotations[d] > 0
        PROVE  RunOf(d + 1) <= wall'
    <3>1. RunOf(d + 1) <= wall
      BY <2>2 DEF RInv, OneRunPerDate
    <3> QED  BY <1>1, <1>2, <3>1
  <2>3. ritual'.at = "sleeping" => ritual'.next = ritual.next
    BY <1>3, <1>7
  <2> QED  BY <1>1, <1>7, <2>1, <2>2, <2>3 DEF RInv, OneRunPerDate
<1> QED  BY <1>6, <1>9, <1>10, <1>11 DEF RInv

LEMMA SetBackKeeps == RInv /\ SetBack => RInv'
<1> SUFFICES ASSUME RInv, SetBack
             PROVE  RInv'
  OBVIOUS
<1>1. /\ wall > 0 /\ wall' = wall - 1 /\ setBacks < MaxSetBacks /\ setBacks' = setBacks + 1 /\ moved'
      /\ UNCHANGED <<dreamer, files, handle, ritual, said, rotations>>
  BY DEF SetBack
<1>2. wall \in Nat /\ setBacks \in Nat /\ MaxSetBacks \in Nat /\ LastSlot \in Nat /\ wall <= LastSlot
  BY RitualAssumption DEF RInv, RitualTyped
<1>3. wall' \in Nat /\ wall' <= LastSlot /\ setBacks' \in Nat /\ setBacks' <= MaxSetBacks
  BY <1>1, <1>2
<1>4. RitualTyped'
  BY <1>1, <1>3 DEF RInv, RitualTyped
<1>5. FilesSound'
  BY <1>1, FilesStand DEF RInv, FilesSound, HandleIsOpen, Up
<1>6. SleepsUntilDue'
  <2>1. ritual.at = "sleeping" => ritual.left \in Nat /\ ritual.next \in Nat
    BY DEF RInv, RitualTyped, Deciding
  <2> QED  BY <1>1, <1>2, <2>1 DEF RInv, SleepsUntilDue
<1>7. OneRunPerDate'
  BY <1>1 DEF OneRunPerDate
<1> QED  BY <1>4, <1>5, <1>6, <1>7 DEF RInv

LEMMA EditKeeps ==
  ASSUME RInv, NEW setting \in [enabled : BOOLEAN, run_at : RunAts], Edit(setting)
  PROVE  RInv'
<1>1. /\ dreamer' = setting /\ moved' = (moved \/ setting.run_at # dreamer.run_at)
      /\ UNCHANGED <<wall, files, handle, ritual, said, rotations, setBacks>>
  BY DEF Edit
<1>2. RitualTyped'
  BY <1>1 DEF RInv, RitualTyped
<1>3. FilesSound'
  BY <1>1, FilesStand DEF RInv, FilesSound, HandleIsOpen, Up
<1>4. SleepsUntilDue'
  BY <1>1 DEF RInv, SleepsUntilDue
<1>5. OneRunPerDate'
  <2>1. ~moved' => ~moved /\ \A d : RunOf(d)' = RunOf(d)
    BY <1>1 DEF RunOf
  <2> QED  BY <1>1, <2>1 DEF RInv, OneRunPerDate
<1> QED  BY <1>2, <1>3, <1>4, <1>5 DEF RInv

LEMMA RitualKeeps == RInv /\ [RitualNext]_ritualVars => RInv'
<1>1. ASSUME RInv, UNCHANGED ritualVars
      PROVE  RInv'
  <2>1. UNCHANGED <<wall, dreamer, files, handle, ritual, said, rotations, setBacks, moved>>
    BY <1>1 DEF ritualVars
  <2>2. RitualTyped'
    BY <1>1, <2>1 DEF RInv, RitualTyped
  <2>3. FilesSound'
    BY <1>1, <2>1, FilesStand DEF RInv, FilesSound, HandleIsOpen, Up
  <2>4. SleepsUntilDue' /\ OneRunPerDate'
    BY <1>1, <2>1, TimingStands
  <2> QED  BY <2>2, <2>3, <2>4 DEF RInv
<1> QED
  BY <1>1, OpenTranscriptKeeps, AppendKeeps, RotateKeeps, ReopenKeeps, RitualEndKeeps,
     DecideKeeps, ElapseKeeps, SetBackKeeps, EditKeeps
  DEF RitualNext

\* Every line of the chat that was appended is in one file and in order, over
\* rotations, refused ones and restarts between any two steps, until a date is
\* archived twice; and that takes a moved run_at or a clock that was set back.
THEOREM EveryLineKept == RitualSpec => []LinesKept
<1>1. RitualInit => RInv
  BY RitualStarts
<1>2. RInv /\ [RitualNext]_ritualVars => RInv'
  BY RitualKeeps
<1>3. RInv => LinesKept
  BY RInvMeansLinesKept
<1> QED  BY <1>1, <1>2, <1>3, PTL DEF RitualSpec

=============================================================================
