------------------------------ MODULE RateWindows ------------------------------
(***************************************************************************)
(* What the telemetry ingester remembers of a contestant's recent past:    *)
(* orders per second in a ring of one-second buckets that only the clock   *)
(* indexes (metrics/tps_counter.go), latencies in a ring of histograms     *)
(* that the publisher's ticker turns (latency/sliding_window.go), and an   *)
(* all-time histogram to fall back on (metrics/aggregator.go).  The ticker *)
(* may skip beats, so the two rings turn apart.                            *)
(***************************************************************************)
EXTENDS Naturals, FiniteSetsExt, Functions

CONSTANTS
  Ring,          \* seconds the TPS ring holds (60)
  Smooth,        \* seconds the current TPS is the mean of (5)
  Slots,         \* histograms of the latency window (30)
  Latencies,     \* observed latencies
  MaxSeconds,    \* bound: the run's seconds
  MaxTurns,      \* bound: turns of the latency window
  MaxOrders      \* bound: orders recorded

ASSUME RateAssumption ==
  /\ Smooth \in Nat \ {0} /\ Ring \in Nat /\ Ring > Smooth /\ Slots \in Nat \ {0}
  /\ Latencies \subseteq Nat /\ IsFiniteSet(Latencies) /\ Latencies # {}
  /\ MaxSeconds \in Nat /\ MaxTurns \in Nat /\ MaxOrders \in Nat

VARIABLES
  now,       \* time.Now().Unix(), from the first second on
  ring,      \* windows[contestant]
  lastSec,   \* lastSec[contestant]; the code's 0 is before every second
  slots,     \* the window's histograms: how often each latency was recorded
  turn,      \* currentIdx
  allTime,   \* totalHist
  orders,    \* history: orders of each second
  heard,     \* history: what was recorded between two turns of the window
  turns      \* history: turns of the window

tpsVars     == <<ring, lastSec, orders>>
latencyVars == <<slots, turn, allTime, heard, turns>>
rateVars    == <<now, tpsVars, latencyVars>>

\* Seconds begin with Ring, so that now - Smooth is one.
Seconds == Ring .. Ring + MaxSeconds

Empty == [l \in Latencies |-> 0]
Sum(f) == SumFunctionOnSet(f, DOMAIN f)

RateInit ==
  /\ now = Ring /\ ring = [i \in 0 .. Ring - 1 |-> 0] /\ lastSec = 0
  /\ slots = [i \in 0 .. Slots - 1 |-> Empty] /\ turn = 0 /\ allTime = Empty
  /\ orders = [s \in Seconds |-> 0]
  /\ heard = [k \in 0 .. MaxTurns |-> Empty] /\ turns = 0

-----------------------------------------------------------------------------

\* Mutated form of bucketOf: the bucket's last count stays.
bucketKept(s) == ring[s % Ring]

\* What the bucket of second s holds before an order is added to it.
bucketOf(s) == IF lastSec # s THEN 0 ELSE ring[s % Ring]

\* TPSCounter.Record
RecordTPS ==
  /\ ring' = [ring EXCEPT ![now % Ring] = bucketOf(now) + 1]
  /\ lastSec' = now
  /\ orders' = [orders EXCEPT ![now] = @ + 1]

\* Aggregator.ProcessEvent, but for the counters.
ProcessEvent(l) ==
  /\ Sum(allTime) < MaxOrders
  /\ RecordTPS
  /\ slots' = [slots EXCEPT ![turn][l] = @ + 1]
  /\ allTime' = [allTime EXCEPT ![l] = @ + 1]
  /\ heard' = [heard EXCEPT ![turns][l] = @ + 1]
  /\ UNCHANGED <<now, turn, turns>>

nextSlot == (turn + 1) % Slots

\* Mutated form of cleared: the slot that is left is emptied, not the one
\* that is entered.
clearedBehind(i) == turn

\* The histogram a turn to slot i empties.
cleared(i) == i

\* SlidingWindowHistogram.Advance
Advance ==
  /\ turns < MaxTurns /\ turns' = turns + 1
  /\ turn' = nextSlot
  /\ slots' = [slots EXCEPT ![cleared(nextSlot)] = Empty]
  /\ UNCHANGED <<now, tpsVars, allTime, heard>>

Clock ==
  /\ now + 1 \in Seconds /\ now' = now + 1
  /\ UNCHANGED <<tpsVars, latencyVars>>

RateNext == (\E l \in Latencies : ProcessEvent(l)) \/ Advance \/ Clock

RateSpec == RateInit /\ [][RateNext]_rateVars

-----------------------------------------------------------------------------
(* What GetSnapshot reads. *)

\* The seconds the current TPS is the mean of.
smoothed == {now - i : i \in 1 .. Smooth}

\* GetCurrentTPS, times Smooth.
GetCurrentTPS == Sum([s \in smoothed |-> ring[s % Ring]])

\* GetPeakTPS
GetPeakTPS == Max({ring[i] : i \in DOMAIN ring})

\* GetPercentiles: the slots, the current one included, merged.
Merged == [l \in Latencies |-> Sum([i \in DOMAIN slots |-> slots[i][l]])]

\* How many of the values are l or less.
upTo(hist, l) == SumFunctionOnSet(hist, {k \in Latencies : k <= l})

\* The latencies that n of the values do not exceed.
reached(hist, n) == {l \in Latencies : upTo(hist, l) >= n}

\* HDRHistogram.Percentile, p in hundredths: the least latency that enough
\* of the values do not exceed.
Percentile(hist, p) ==
  LET n == Sum(hist)
      target == Max({(n * p) \div 100, 1})
  IN  IF n = 0 THEN 0 ELSE Min(reached(hist, target))

\* The percentile of a snapshot: once the window is empty, or shows zero,
\* the all-time one.
shown(p) ==
  IF Percentile(Merged, 99) = 0 /\ Sum(allTime) > 0
  THEN Percentile(allTime, p) ELSE Percentile(Merged, p)

-----------------------------------------------------------------------------
(* Properties *)

RateTypeOK ==
  /\ now \in Seconds /\ lastSec \in {0} \cup Seconds
  /\ ring \in [0 .. Ring - 1 -> Nat]
  /\ turn \in 0 .. Slots - 1 /\ slots \in [0 .. Slots - 1 -> [Latencies -> Nat]]
  /\ allTime \in [Latencies -> Nat] /\ turns \in 0 .. MaxTurns

\* Orders of the seconds the current TPS is the mean of, and those without any.
countedOrders == SumFunctionOnSet(orders, smoothed \cap Seconds)
idleSeconds == {s \in smoothed \cap Seconds : orders[s] = 0}

\* Counts of whole turns of the ring before second s.
turnsBefore(s) == {0} \cup {orders[k] : k \in {k \in Seconds : k < s /\ (s - k) % Ring = 0}}

\* An idle second leaves its bucket alone.  So the current TPS is never below
\* the orders of the last seconds, is exactly that while none of them is
\* idle, and errs by counts of seconds one turn of the ring ago or more
\* (tps_counter.go:25-56).  The peak is the count of a second there was, and no
\* second the ring still covers was better (tps_counter.go:58-73).
TPSErrsByIdleSeconds ==
  /\ GetCurrentTPS >= countedOrders
  /\ GetCurrentTPS - countedOrders <= Sum([s \in idleSeconds |-> Max(turnsBefore(s))])
  /\ GetPeakTPS \in {0} \cup {orders[s] : s \in Seconds}
  /\ \A s \in Seconds : now - s < Ring => orders[s] <= GetPeakTPS

\* The turns of the window that are not yet forgotten.
recentTurns == {k \in 0 .. turns : turns - k < Slots}

\* The latency window holds what was recorded since the turn Slots - 1 turns
\* ago, and nothing older (sliding_window.go:25-37); after it has emptied,
\* what is shown is still a latency that was observed, and never out of order
\* (aggregator.go:71-83).
ShownLatencyIsReal ==
  /\ \A l \in Latencies : Merged[l] = Sum([k \in recentTurns |-> heard[k][l]])
  /\ Sum(allTime) > 0 =>
       \A p \in {50, 90, 99} : \E l \in Latencies : allTime[l] > 0 /\ shown(p) = l
  /\ shown(50) <= shown(90) /\ shown(90) <= shown(99)
=============================================================================
