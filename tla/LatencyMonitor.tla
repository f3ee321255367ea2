---------------------------- MODULE LatencyMonitor ----------------------------
(***************************************************************************)
(* The latency handler (twitch/handlers/latency.rs): a PING every five     *)
(* minutes, the moving average of the latency which the 1337 game times    *)
(* itself by, and the flag that /healthz answers from.                     *)
(*                                                                         *)
(* The average is a real number in the code.  Here it is ema / unit: each  *)
(* sample makes the unit ten times finer, and the average stays exact.     *)
(***************************************************************************)
EXTENDS Integers, Sequences, FiniteSets

CONSTANTS
  Expected,     \* settings: expected_latency, in ms
  RoundTrips,    \* what a PONG may take, in ms, below the timeout
  MaxPings       \* bound: rounds

ASSUME LatencyAssumption == Expected \subseteq Nat /\ RoundTrips \subseteq Nat

VARIABLES
  line,           \* the connection: "up", "silent" (nothing comes back) or "broken"
  ema, unit,      \* the moving average is ema / unit milliseconds
  shown,        \* AtomicU32: the average as others see it, in ms
  misses,         \* consecutive_misses
  irc_connected,  \* AtomicBool
  rounds           \* history: the rounds, [sent, rtt], rtt -1 for none

latencyVars == <<line, ema, unit, shown, misses, irc_connected, rounds>>

NoPong == -1

\* irc_connected is set as soon as the handler starts.
LatencyInit ==
  /\ line = "up"
  /\ shown \in Expected
  /\ ema = shown /\ unit = 1
  /\ misses = 0 /\ irc_connected = TRUE
  /\ rounds = << >>

Round(sent, rtt) ==
  /\ Len(rounds) < MaxPings
  /\ rounds' = Append(rounds, [sent |-> sent, rtt |-> rtt])

\* A PING that cannot be sent ends the round before it counts.
NotSent ==
  /\ line = "broken"
  /\ Round(FALSE, NoPong)
  /\ UNCHANGED <<line, ema, unit, shown, misses, irc_connected>>

\* One fifth of half the sample and four fifths of what was, in tenths of the unit.
Smoothed(rtt) == unit * rtt + 8 * ema

\* f64::round
Rounded(value, of) == (2 * value + of) \div (2 * of)

Pong(rtt) ==
  /\ line = "up"
  /\ Round(TRUE, rtt)
  /\ misses' = 0 /\ irc_connected' = TRUE
  /\ ema' = Smoothed(rtt) /\ unit' = 10 * unit
  /\ shown' = Rounded(ema', unit')
  /\ UNCHANGED line

\* Mutant: the third miss in a row counts as the second.
MissedLate ==
  /\ misses' = misses + 1
  /\ irc_connected' = IF misses' > 3 THEN FALSE ELSE irc_connected

Missed ==
  /\ misses' = misses + 1
  /\ irc_connected' = IF misses' >= 3 THEN FALSE ELSE irc_connected

\* No PONG with the nonce within the timeout; on a working line it may have
\* been lost when the reader lagged behind the broadcast channel.
TimedOut ==
  /\ line \in {"up", "silent"}
  /\ Round(TRUE, NoPong)
  /\ Missed
  /\ UNCHANGED <<line, ema, unit, shown>>

LineTurns(to) ==
  /\ line' = to /\ to # line
  /\ UNCHANGED <<ema, unit, shown, misses, irc_connected, rounds>>

LatencyNext ==
  \/ NotSent \/ TimedOut
  \/ \E rtt \in RoundTrips: Pong(rtt)
  \/ \E to \in {"up", "silent", "broken"}: LineTurns(to)

LatencySpec == LatencyInit /\ [][LatencyNext]_latencyVars

-----------------------------------------------------------------------------
(* Properties *)

\* The PINGs that went out after the last PONG.
Unanswered == {i \in DOMAIN rounds : rounds[i].sent
                                     /\ \A j \in i..Len(rounds) : rounds[j].rtt = NoPong}
Samples == {rounds[i].rtt : i \in {j \in DOMAIN rounds : rounds[j].rtt # NoPong}}
Bounds == Expected \union {(rtt + 1) \div 2 : rtt \in Samples} \union {rtt \div 2 : rtt \in Samples}

(* /healthz tells of a dead line when, and only when, the last three PINGs *)
(* that could be sent went unanswered, whatever came between them; and the *)
(* latency the 1337 game relies on is between the configured one and the   *)
(* measured ones, however the samples follow each other.                   *)
HealthTellsTheLine ==
  /\ irc_connected = (Cardinality(Unanswered) < 3)
  /\ \E low, high \in Bounds : low <= shown /\ shown <= high

=============================================================================
