--------------------------- MODULE IngesterProofs ---------------------------
(***************************************************************************)
(* Proofs, for every set of events and every number of arrivals, snapshots *)
(* and crashes, about the telemetry ingester's counters and offsets; and,  *)
(* for all sizes, about the writer of rows, the recent past kept in memory *)
(* and the monitor of the lag.                                             *)
(***************************************************************************)
EXTENDS Ingester, RateWindows, RowWriter, LagMonitor, DataLemmas, SequenceTheorems

Counters == {"total", "timedOut", "correct", "incorrect"}

\* Numbers are numbers, and a verdict is counted only after its order was.
CountersTyped ==
  /\ counts \in [Counters -> Nat]
  /\ counting \in BOOLEAN

Inv == CountersTyped /\ CountersAddUp

LEMMA ZeroAddsUp ==
  /\ Zero \in [Counters -> Nat]
  /\ Zero.total = Zero.timedOut + Zero.correct + Zero.incorrect
BY DEF Zero, Counters

LEMMA Start == Init => Inv
<1> SUFFICES ASSUME Init PROVE CountersTyped /\ CountersAddUp
  BY DEF Inv
<1>1. counts = Zero /\ counting = FALSE
  BY DEF Init
<1>2. CountersTyped
  BY <1>1, ZeroAddsUp DEF CountersTyped
<1>3. CountersAddUp
  BY <1>1 DEF CountersAddUp, Zero
<1> QED BY <1>2, <1>3

\* The counters after the steps that change them.
LEMMA CountingOne ==
  ASSUME CountersTyped, CountOrder
  PROVE  /\ counts' \in [Counters -> Nat] /\ counting' = TRUE /\ counting = FALSE
         /\ counts'["total"] = counts["total"] + 1
         /\ \A k \in Counters \ {"total"} : counts'[k] = counts[k]
<1>1. counts' = [counts EXCEPT !["total"] = @ + 1] /\ counting' = TRUE
  BY DEF CountOrder
<1>2. counting = FALSE
  BY DEF CountOrder, CountersTyped
<1>3. counts \in [Counters -> Nat]
  BY DEF CountersTyped
<1> QED BY <1>1, <1>2, <1>3 DEF Counters

LEMMA VerdictCounted ==
  ASSUME CountersTyped, CountVerdict
  PROVE  /\ counts' \in [Counters -> Nat] /\ counting' = FALSE /\ counting = TRUE
         /\ \E k \in Counters \ {"total"} :
              /\ counts'[k] = counts[k] + 1
              /\ \A c \in Counters \ {k} : counts'[c] = counts[c]
<1> DEFINE k == classify(Head(group))
<1>1. counts' = [counts EXCEPT ![k] = @ + 1] /\ counting' = FALSE
  BY DEF CountVerdict
<1>2. counting = TRUE
  BY DEF CountVerdict, CountersTyped
<1>3. k \in Counters \ {"total"}
  BY DEF classify, Counters
<1>4. counts \in [Counters -> Nat]
  BY DEF CountersTyped
<1> HIDE DEF k
<1> QED BY <1>1, <1>2, <1>3, <1>4

LEMMA Step == Inv /\ [Next]_vars => Inv'
<1> SUFFICES ASSUME CountersTyped, CountersAddUp, [Next]_vars
             PROVE  CountersTyped' /\ CountersAddUp'
  BY DEF Inv
<1>0. /\ counts \in [Counters -> Nat]
      /\ \A k \in Counters : counts[k] \in Nat
      /\ {"total", "timedOut", "correct", "incorrect"} = Counters
  BY DEF CountersTyped, Counters
<1>1. CASE CountOrder
  <2>1. CountersTyped'
    BY <1>1, CountingOne DEF CountersTyped
  <2>2. /\ counts["total"] = counts["timedOut"] + counts["correct"] + counts["incorrect"] + 0
        /\ counts'["total"] = counts["total"] + 1
        /\ counts'["timedOut"] = counts["timedOut"]
        /\ counts'["correct"] = counts["correct"]
        /\ counts'["incorrect"] = counts["incorrect"]
    BY <1>1, CountingOne DEF CountersAddUp, Counters
  <2>3. counts'["total"] =
          counts'["timedOut"] + counts'["correct"] + counts'["incorrect"] + 1
    BY <2>2, <1>0
  <2>4. CountersAddUp'
    BY <2>3, <1>1, CountingOne DEF CountersAddUp
  <2> QED BY <2>1, <2>4
<1>2. CASE CountVerdict
  <2>1. CountersTyped'
    BY <1>2, VerdictCounted DEF CountersTyped
  <2>2. counts["total"] = counts["timedOut"] + counts["correct"] + counts["incorrect"] + 1
    BY <1>2, VerdictCounted DEF CountersAddUp
  <2>3. PICK k \in Counters \ {"total"} :
          /\ counts'[k] = counts[k] + 1
          /\ \A c \in Counters \ {k} : counts'[c] = counts[c]
    BY <1>2, VerdictCounted
  <2>4. counts'["total"] =
          counts'["timedOut"] + counts'["correct"] + counts'["incorrect"] + 0
    <3>1. CASE k = "timedOut"
      BY <3>1, <2>2, <2>3, <1>0 DEF Counters
    <3>2. CASE k = "correct"
      BY <3>2, <2>2, <2>3, <1>0 DEF Counters
    <3>3. CASE k = "incorrect"
      BY <3>3, <2>2, <2>3, <1>0 DEF Counters
    <3> QED BY <3>1, <3>2, <3>3 DEF Counters
  <2>5. CountersAddUp'
    BY <2>4, <1>2, VerdictCounted DEF CountersAddUp
  <2> QED BY <2>1, <2>5
<1>3. CASE Crash
  <2>1. counts' = Zero /\ counting' = FALSE
    BY <1>3 DEF Crash
  <2>2. CountersTyped'
    BY <2>1, ZeroAddsUp DEF CountersTyped
  <2>3. CountersAddUp'
    BY <2>1 DEF CountersAddUp, Zero
  <2> QED BY <2>2, <2>3
<1>4. CASE UNCHANGED <<counts, counting>>
  BY <1>4 DEF CountersTyped, CountersAddUp
<1>5. CASE (\E e \in Events : Arrive(e)) \/ Consume \/ CommitFails \/ Flush \/ ReadTotal \/ ReadTimedOut
           \/ ReadCorrect \/ UNCHANGED vars
  <2>1. UNCHANGED <<counts, counting>>
    BY <1>5 DEF Arrive, Consume, CommitFails, Flush, ReadTotal, ReadTimedOut, ReadCorrect, own, vars
  <2> QED BY <2>1, <1>4
<1> QED BY <1>1, <1>2, <1>3, <1>5 DEF Next

\* At every moment, for every stream of events and across crashes, the
\* aggregator's counters account for each order exactly once
\* (aggregator.go:50-70).
THEOREM CountersAlwaysAddUp == Spec => []CountersAddUp
<1>1. Inv => CountersAddUp
  BY DEF Inv
<1> QED BY <1>1, Start, Step, PTL DEF Spec

-----------------------------------------------------------------------------
(* The publisher reads the counters one after the other. *)

ReadingType == [step : {"none", "timedOut", "correct"}, total : Nat, timedOut : Nat]

\* The time-outs a snapshot has read cannot be more than there are now.
ReadInv ==
  /\ reading \in ReadingType
  /\ reading.step = "correct" => reading.timedOut <= counts["timedOut"]

LEMMA ReadStart == Init => ReadInv
BY DEF Init, ReadInv, ReadingType, NotReading

LEMMA TimeOutsGrow ==
  ASSUME CountersTyped, CountOrder \/ CountVerdict
  PROVE  counts'["timedOut"] \in Nat /\ counts["timedOut"] <= counts'["timedOut"]
<1>0. counts["timedOut"] \in Nat
  BY DEF CountersTyped, Counters
<1>1. CASE CountOrder
  <2>1. counts'["timedOut"] = counts["timedOut"]
    BY <1>1, CountingOne DEF Counters
  <2> QED BY <2>1, <1>0
<1>2. CASE CountVerdict
  <2>1. PICK k \in Counters \ {"total"} :
          /\ counts'[k] = counts[k] + 1
          /\ \A c \in Counters \ {k} : counts'[c] = counts[c]
    BY <1>2, VerdictCounted
  <2>2. counts'["timedOut"] = counts["timedOut"] \/ counts'["timedOut"] = counts["timedOut"] + 1
    BY <2>1 DEF Counters
  <2> QED BY <2>2, <1>0
<1> QED BY <1>1, <1>2

LEMMA ReadStep == CountersTyped /\ ReadInv /\ [Next]_vars => ReadInv'
<1> SUFFICES ASSUME CountersTyped, ReadInv, [Next]_vars PROVE ReadInv'
  OBVIOUS
<1>0. /\ counts["total"] \in Nat /\ counts["timedOut"] \in Nat
      /\ reading \in ReadingType
      /\ reading.step = "correct" => reading.timedOut <= counts["timedOut"]
  BY DEF CountersTyped, Counters, ReadInv
<1>1. CASE ReadTotal
  <2>1. reading' = [step |-> "timedOut", total |-> counts.total, timedOut |-> 0]
    BY <1>1 DEF ReadTotal
  <2> QED BY <2>1, <1>0 DEF ReadInv, ReadingType
<1>2. CASE ReadTimedOut
  <2>1. /\ reading' = [reading EXCEPT !.step = "correct", !.timedOut = counts.timedOut]
        /\ counts'["timedOut"] = counts["timedOut"]
    BY <1>2 DEF ReadTimedOut
  <2>2. reading' \in ReadingType /\ reading'.timedOut = counts["timedOut"]
    BY <2>1, <1>0 DEF ReadingType
  <2>3. reading'.timedOut <= counts'["timedOut"]
    BY <2>1, <2>2, <1>0
  <2> QED BY <2>2, <2>3 DEF ReadInv
<1>3. CASE ReadCorrect \/ Crash
  <2>1. reading' = NotReading
    BY <1>3 DEF ReadCorrect, Crash
  <2> QED BY <2>1 DEF ReadInv, ReadingType, NotReading
<1>4. CASE CountOrder \/ CountVerdict
  <2>1. reading' = reading
    BY <1>4 DEF CountOrder, CountVerdict
  <2>2. counts'["timedOut"] \in Nat /\ counts["timedOut"] <= counts'["timedOut"]
    BY <1>4, TimeOutsGrow
  <2>3. reading.timedOut \in Nat
    BY <1>0 DEF ReadingType
  <2> DEFINE counted == counts'["timedOut"]
  <2>4. reading.step = "correct" => reading.timedOut <= counted
    <3> HIDE DEF counted
    <3>1. counted \in Nat /\ counts["timedOut"] <= counted
      BY <2>2 DEF counted
    <3> QED BY <3>1, <2>3, <1>0
  <2> QED BY <2>1, <2>4, <1>0 DEF ReadInv
<1>5. CASE (\E e \in Events : Arrive(e)) \/ Consume \/ CommitFails \/ Flush \/ UNCHANGED vars
  <2>1. UNCHANGED <<counts, reading>>
    BY <1>5 DEF Arrive, Consume, CommitFails, Flush, own, vars
  <2> QED BY <2>1, <1>0 DEF ReadInv
<1> QED BY <1>1, <1>2, <1>3, <1>4, <1>5 DEF Next

\* What a snapshot claims beyond the answered orders was counted while it was
\* taken.
LEMMA SnapshotStep ==
  ASSUME Inv, ReadInv, [Next]_vars, snapshots' # snapshots
  PROVE  published'.correct - published'.valid <= counts.total - reading.total
<1>1. ReadCorrect
  BY DEF Next, Arrive, Consume, CommitFails, Flush, CountOrder, CountVerdict, ReadTotal, ReadTimedOut,
         Crash, own, vars
<1>2. /\ published' = [valid |-> reading.total - reading.timedOut, correct |-> counts.correct]
      /\ reading.step = "correct"
  BY <1>1 DEF ReadCorrect
<1>3. /\ published'.valid = reading.total - reading.timedOut
      /\ published'.correct = counts.correct
  BY <1>2
<1>4. /\ reading.total \in Nat /\ reading.timedOut \in Nat
      /\ reading.timedOut <= counts.timedOut
  BY <1>2 DEF ReadInv, ReadingType
<1>5. /\ counts.total \in Nat /\ counts.timedOut \in Nat
      /\ counts.correct \in Nat /\ counts.incorrect \in Nat
  BY DEF Inv, CountersTyped, Counters
<1>6. \/ counts.total = counts.timedOut + counts.correct + counts.incorrect
      \/ counts.total = counts.timedOut + counts.correct + counts.incorrect + 1
  <2>1. CASE counting
    BY <2>1 DEF Inv, CountersAddUp
  <2>2. CASE ~counting
    <3>1. counts.total = counts.timedOut + counts.correct + counts.incorrect + 0
      BY <2>2 DEF Inv, CountersAddUp
    <3> QED BY <3>1, <1>5
  <2> QED BY <2>1, <2>2
<1>7. counts.correct - (reading.total - reading.timedOut) <= counts.total - reading.total
  BY <1>4, <1>5, <1>6
<1> QED BY <1>3, <1>7

\* For every stream of events and across crashes, a published rate is too
\* high by no more orders than were counted while its counters were being
\* read (aggregator.go:84-91).
THEOREM SnapshotsErrByWhatMoves == Spec => RateErrsByWhatMoves
<1>1. Init => Inv /\ ReadInv
  BY Start, ReadStart
<1>2. Inv /\ ReadInv /\ [Next]_vars => (Inv /\ ReadInv)'
  BY Step, ReadStep DEF Inv
<1>3. Inv /\ ReadInv /\ [Next]_vars =>
        [snapshots' # snapshots =>
           published'.correct - published'.valid <= counts.total - reading.total]_vars
  BY SnapshotStep
<1> QED BY <1>1, <1>2, <1>3, PTL DEF Spec, RateErrsByWhatMoves

-----------------------------------------------------------------------------
(* The counters and the samples written. *)

TimedOut(s) == {i \in DOMAIN s : s[i].event.timedOut}
Right(s)    == {i \in DOMAIN s : s[i].correct /\ ~s[i].event.timedOut}

LEMMA AppendedDomain ==
  ASSUME NEW S, NEW s \in Seq(S), NEW v
  PROVE  /\ Len(s) \in Nat /\ DOMAIN s = 1 .. Len(s) /\ IsFiniteSet(DOMAIN s)
         /\ Append(s, v) \in Seq(S \cup {v})
         /\ DOMAIN Append(s, v) = DOMAIN s \cup {Len(s) + 1} /\ Len(s) + 1 \notin DOMAIN s
         /\ \A i \in DOMAIN s : Append(s, v)[i] = s[i]
         /\ Append(s, v)[Len(s) + 1] = v
<1>1. s \in Seq(S \cup {v})
  OBVIOUS
<1>2. Len(s) \in Nat /\ DOMAIN s = 1 .. Len(s)
  OBVIOUS
<1>3. IsFiniteSet(1 .. Len(s))
  BY <1>2, FS_Interval
<1>4. DOMAIN Append(s, v) = 1 .. Len(s) + 1
  BY <1>1
<1>5. 1 .. Len(s) + 1 = (1 .. Len(s)) \cup {Len(s) + 1}
  BY <1>2
<1> QED BY <1>1, <1>2, <1>3, <1>4, <1>5

\* A sample more is one more of those that timed out or of those that did
\* not.
LEMMA SampleCounts ==
  ASSUME NEW S, NEW s \in Seq(S), NEW v
  PROVE  /\ Cardinality(TimedOut(s)) \in Nat /\ Cardinality(Right(s)) \in Nat
         /\ Cardinality(TimedOut(Append(s, v))) =
              IF v.event.timedOut THEN Cardinality(TimedOut(s)) + 1 ELSE Cardinality(TimedOut(s))
         /\ Cardinality(Right(Append(s, v))) =
              IF v.correct /\ ~v.event.timedOut THEN Cardinality(Right(s)) + 1 ELSE Cardinality(Right(s))
<1> DEFINE n == Len(s) + 1
<1>1. IsFiniteSet(TimedOut(s)) /\ IsFiniteSet(Right(s))
  BY AppendedDomain, FS_Subset DEF TimedOut, Right
<1>2. TimedOut(Append(s, v)) = IF v.event.timedOut THEN TimedOut(s) \cup {n} ELSE TimedOut(s)
  <2> HIDE DEF n
  <2> DEFINE a == Append(s, v)
  <2>1. /\ DOMAIN a = DOMAIN s \cup {n} /\ n \notin DOMAIN s
        /\ \A i \in DOMAIN s : a[i] = s[i]
        /\ a[n] = v
    BY AppendedDomain DEF n
  <2> HIDE DEF a
  <2>2. TimedOut(a) = IF v.event.timedOut THEN TimedOut(s) \cup {n} ELSE TimedOut(s)
    BY <2>1 DEF TimedOut
  <2> QED BY <2>2 DEF a
<1>3. Right(Append(s, v)) =
        IF v.correct /\ ~v.event.timedOut THEN Right(s) \cup {n} ELSE Right(s)
  <2> HIDE DEF n
  <2> DEFINE a == Append(s, v)
  <2>1. /\ DOMAIN a = DOMAIN s \cup {n} /\ n \notin DOMAIN s
        /\ \A i \in DOMAIN s : a[i] = s[i]
        /\ a[n] = v
    BY AppendedDomain DEF n
  <2> HIDE DEF a
  <2>2. Right(a) = IF v.correct /\ ~v.event.timedOut THEN Right(s) \cup {n} ELSE Right(s)
    BY <2>1 DEF Right
  <2> QED BY <2>2 DEF a
<1>4. n \notin TimedOut(s) /\ n \notin Right(s)
  BY AppendedDomain DEF TimedOut, Right
<1>5. /\ Cardinality(TimedOut(s) \cup {n}) = Cardinality(TimedOut(s)) + 1
      /\ Cardinality(Right(s) \cup {n}) = Cardinality(Right(s)) + 1
  BY <1>1, <1>4, FS_AddElement
<1>6. Cardinality(TimedOut(s)) \in Nat /\ Cardinality(Right(s)) \in Nat
  BY <1>1, FS_CardinalityType
<1> QED BY <1>2, <1>3, <1>5, <1>6

\* What is written is a sequence, of whatever the validator made.
Written == \E S : judged \in Seq(S)

ExcludeInv == crashes \in Nat /\ Written /\ TimeoutsAreExcluded

LEMMA ExcludeStart == Init => ExcludeInv
<1> SUFFICES ASSUME Init PROVE ExcludeInv
  OBVIOUS
<1>1. judged = <<>> /\ crashes = 0 /\ counts = Zero
  BY DEF Init
<1>2. Written
  <2>1. judged \in Seq({})
    BY <1>1
  <2> QED BY <2>1 DEF Written
<1>3. TimedOut(judged) = {} /\ Right(judged) = {}
  BY <1>1 DEF TimedOut, Right
<1>4. Cardinality(TimedOut(judged)) = 0 /\ Cardinality(Right(judged)) = 0
  BY <1>3, FS_EmptySet
<1>5. counts.correct = 0 /\ counts.timedOut = 0
  BY <1>1 DEF Zero
<1>6. TimeoutsAreExcluded
  BY <1>4, <1>5 DEF TimeoutsAreExcluded, TimedOut, Right
<1> QED BY <1>1, <1>2, <1>6 DEF ExcludeInv

LEMMA ExcludeStep == CountersTyped /\ ExcludeInv /\ [Next]_vars => ExcludeInv'
<1> SUFFICES ASSUME CountersTyped, ExcludeInv, [Next]_vars PROVE ExcludeInv'
  OBVIOUS
<1>0. crashes \in Nat /\ Written /\ TimeoutsAreExcluded
  BY DEF ExcludeInv
<1>1. CASE CountOrder
  <2>1. /\ judged' = judged /\ crashes' = crashes
        /\ counts'["timedOut"] = counts["timedOut"] /\ counts'["correct"] = counts["correct"]
    BY <1>1, CountingOne DEF CountOrder, Counters
  <2> QED BY <2>1, <1>0 DEF ExcludeInv, Written, TimeoutsAreExcluded
<1>2. CASE CountVerdict
  <2> DEFINE v == Head(group)
  <2>1. /\ judged' = Append(judged, v) /\ crashes' = crashes
        /\ counts' = [counts EXCEPT ![classify(v)] = @ + 1]
    BY <1>2 DEF CountVerdict
  <2>2. PICK S : judged \in Seq(S)
    BY <1>0 DEF Written
  <2> HIDE DEF v
  <2>3. Written'
    <3>1. judged' \in Seq(S \cup {v})
      BY <2>1, <2>2, AppendedDomain
    <3> QED BY <3>1 DEF Written
  <2>4. /\ Cardinality(TimedOut(judged)) \in Nat /\ Cardinality(Right(judged)) \in Nat
        /\ Cardinality(TimedOut(judged')) =
             IF v.event.timedOut THEN Cardinality(TimedOut(judged)) + 1 ELSE Cardinality(TimedOut(judged))
        /\ Cardinality(Right(judged')) =
             IF v.correct /\ ~v.event.timedOut THEN Cardinality(Right(judged)) + 1
             ELSE Cardinality(Right(judged))
    BY <2>1, <2>2, SampleCounts
  <2>5. /\ counts'["timedOut"] =
             IF v.event.timedOut THEN counts["timedOut"] + 1 ELSE counts["timedOut"]
        /\ counts'["correct"] =
             IF v.correct /\ ~v.event.timedOut THEN counts["correct"] + 1 ELSE counts["correct"]
    <3>1. counts \in [Counters -> Nat] /\ {"timedOut", "correct", "incorrect"} \subseteq Counters
      BY DEF CountersTyped, Counters
    <3>2. CASE v.event.timedOut
      BY <2>1, <3>1, <3>2 DEF classify
    <3>3. CASE ~v.event.timedOut /\ v.correct
      BY <2>1, <3>1, <3>3 DEF classify
    <3>4. CASE ~v.event.timedOut /\ ~v.correct
      BY <2>1, <3>1, <3>4 DEF classify
    <3> QED BY <3>2, <3>3, <3>4
  <2>6. ASSUME crashes' = 0
        PROVE  /\ counts'["correct"] = Cardinality(Right(judged'))
               /\ counts'["timedOut"] = Cardinality(TimedOut(judged'))
    <3>1. /\ counts["correct"] = Cardinality(Right(judged))
          /\ counts["timedOut"] = Cardinality(TimedOut(judged))
      BY <2>1, <2>6, <1>0 DEF TimeoutsAreExcluded, Right, TimedOut
    <3> QED BY <3>1, <2>4, <2>5
  <2>7. TimeoutsAreExcluded'
    BY <2>6 DEF TimeoutsAreExcluded, Right, TimedOut
  <2> QED BY <2>1, <2>3, <2>7, <1>0 DEF ExcludeInv
<1>3. CASE Crash
  <2>1. crashes' = crashes + 1 /\ judged' = judged
    BY <1>3 DEF Crash
  <2>2. crashes' \in Nat /\ crashes' # 0
    BY <2>1, <1>0
  <2> QED BY <2>1, <2>2, <1>0 DEF ExcludeInv, Written, TimeoutsAreExcluded
<1>4. CASE (\E e \in Events : Arrive(e)) \/ Consume \/ CommitFails \/ Flush \/ ReadTotal \/ ReadTimedOut
           \/ ReadCorrect \/ UNCHANGED vars
  <2>1. UNCHANGED <<counts, judged, crashes>>
    BY <1>4 DEF Arrive, Consume, CommitFails, Flush, ReadTotal, ReadTimedOut, ReadCorrect, own, vars
  <2> QED BY <2>1, <1>0 DEF ExcludeInv, Written, TimeoutsAreExcluded
<1> QED BY <1>1, <1>2, <1>3, <1>4 DEF Next

\* Until a crash the counters of verdicts are those of the samples written,
\* and a timed-out order is in none but its own, for every stream of events
\* (aggregator.go:62-69).
THEOREM TimeoutsAlwaysExcluded == Spec => []TimeoutsAreExcluded
<1>1. Init => Inv /\ ExcludeInv
  BY Start, ExcludeStart
<1>2. Inv /\ ExcludeInv /\ [Next]_vars => (Inv /\ ExcludeInv)'
  BY Step, ExcludeStep DEF Inv
<1>3. Inv /\ ExcludeInv => TimeoutsAreExcluded
  BY DEF ExcludeInv
<1> QED BY <1>1, <1>2, <1>3, PTL DEF Spec
-----------------------------------------------------------------------------
(* Types. *)

\* How far the partition is read; what is being counted.
Progress ==
  /\ topic \in Seq(Events)
  /\ position \in 0 .. Len(topic) /\ offset \in 0 .. position /\ missed \in 0 .. MaxMissed
  /\ counting => group # <<>>
  /\ crashes \in 0 .. MaxCrashes

LEMMA ProgressAtInit == Init => Progress
  BY IngesterAssumption DEF Init, Progress

LEMMA ProgressGoesOn == CountersTyped /\ Progress /\ [Next]_vars => Progress'
<1> SUFFICES ASSUME CountersTyped, Progress, [Next]_vars PROVE Progress'  OBVIOUS
<1> USE DEF Progress
<1>1. ASSUME NEW e \in Events, Arrive(e) PROVE Progress'
  <2>1. topic' = Append(topic, e) /\ UNCHANGED <<position, offset, missed, counting, group, crashes>>
    BY <1>1 DEF Arrive, own
  <2>2. topic' \in Seq(Events) /\ Len(topic') = Len(topic) + 1 /\ Len(topic) \in Nat
    BY <2>1
  <2> QED  BY <2>1, <2>2
<1>2. CASE Consume
  <2>1. /\ offset' = position + 1 /\ position' = position + 1 /\ position < Len(topic)
        /\ UNCHANGED <<topic, missed, counting, group, crashes>>
    BY <1>2 DEF Consume, Committed
  <2>2. Len(topic) \in Nat  OBVIOUS
  <2> QED  BY <2>1, <2>2
<1>3. CASE Flush
  <2>1. group = <<>> /\ UNCHANGED <<topic, position, offset, missed, counting, crashes>>  BY <1>3 DEF Flush
  <2> QED  BY <2>1
<1>4. CASE CountOrder
  <2>1. group # <<>> /\ UNCHANGED <<topic, position, offset, missed, group, crashes>>  BY <1>4 DEF CountOrder
  <2> QED  BY <2>1
<1>5. CASE CountVerdict
  <2>1. counting' = FALSE /\ UNCHANGED <<topic, position, offset, missed, crashes>>  BY <1>5 DEF CountVerdict
  <2> QED  BY <2>1
<1>6. CASE Crash
  <2>1. /\ counting' = FALSE /\ position' = offset /\ UNCHANGED <<topic, offset, missed>>
        /\ crashes < MaxCrashes /\ crashes' = crashes + 1
    BY <1>6 DEF Crash
  <2> QED  BY <2>1, IngesterAssumption
<1>7. CASE ReadTotal \/ ReadTimedOut \/ ReadCorrect \/ UNCHANGED vars
  <2>1. UNCHANGED <<topic, position, offset, missed, counting, group, crashes>>
    BY <1>7 DEF ReadTotal, ReadTimedOut, ReadCorrect, vars, own
  <2> QED  BY <2>1
<1>8. CASE CommitFails
  <2>1. /\ offset' \in {offset, position + 1} /\ position' \in {position + 1, offset'}
        /\ position < Len(topic) /\ missed < MaxMissed /\ missed' = missed + 1
        /\ UNCHANGED <<topic, counting, group, crashes>>
    BY <1>8 DEF CommitFails
  <2>2. Len(topic) \in Nat  OBVIOUS
  <2> QED  BY <2>1, <2>2, IngesterAssumption
<1> QED  BY <1>1, <1>2, <1>3, <1>4, <1>5, <1>6, <1>7, <1>8 DEF Next

\* Every variable of the event's way keeps its type, and no offset is
\* committed of an event that is not there (Ingester.tla).
THEOREM IngesterTypesHold == Spec => []TypeOK
<1>1. Inv /\ ReadInv /\ Progress => TypeOK
  BY DEF Inv, CountersTyped, Counters, ReadInv, ReadingType, Progress, TypeOK
<1>2. Inv => CountersTyped  BY DEF Inv
<1> QED
  BY <1>1, <1>2, Start, Step, ReadStart, ReadStep, ProgressAtInit, ProgressGoesOn, PTL DEF Spec

-----------------------------------------------------------------------------
(* The fold of ValidateBatch: one verdict for each event, in their order. *)

Verdicts == [event : Events, correct : BOOLEAN]

\* What ValidateBatch starts from, and what the recursion of its fold asks of
\* g at a set s of places.
batchStart == [book |-> book, last |-> lastTest, out |-> <<>>]
BatchStep(g, ev, s) == IF s = {} THEN batchStart ELSE validate(g[s \ {Max(s)}], ev[Max(s)])

BatchUpto(g, ev, n) ==
  \A s \in SUBSET DOMAIN ev : Cardinality(s) <= n => g[s] = BatchStep(g, ev, s)

Batch(g, ev) == g = [s \in SUBSET DOMAIN ev |-> BatchStep(g, ev, s)]

\* The recursion has a solution, which the library's operator takes.
LEMMA BatchExists ==
  ASSUME NEW ev \in Seq(Events)
  PROVE  \E g : Batch(g, ev) /\ ValidateBatch(ev) = g[DOMAIN ev]
<1> DEFINE S == DOMAIN ev
           T == {n \in Nat : \E g : g = [s \in SUBSET S |-> g[s]] /\ BatchUpto(g, ev, n)}
<1>0. IsFiniteSet(S) /\ S \subseteq Int
  <2>1. DOMAIN ev = 1 .. Len(ev) /\ Len(ev) \in Nat  OBVIOUS
  <2> QED  BY <2>1, FS_Interval
<1>1. \A s \in SUBSET S : /\ IsFiniteSet(s) /\ Cardinality(s) \in Nat
                          /\ (Cardinality(s) = 0 => s = {})
  <2> HIDE DEF S
  <2> QED  BY <1>0, FS_Subset, FS_CardinalityType, FS_EmptySet
<1>2. \A s \in SUBSET S : s # {} => /\ Max(s) \in s /\ s \ {Max(s)} \in SUBSET S
                                    /\ Cardinality(s \ {Max(s)}) = Cardinality(s) - 1
  <2> HIDE DEF S
  <2> TAKE s \in SUBSET S
  <2> HAVE s # {}
  <2>0. s \in SUBSET Int  BY <1>0
  <2>1. Max(s) \in s  BY <1>1, <2>0, MaxOf
  <2>2. Cardinality(s \ {Max(s)}) = Cardinality(s) - 1
    BY <1>1, <2>1, FS_RemoveElement, Zenon
  <2> QED  BY <2>1, <2>2
<1>3. 0 \in T
  <2> DEFINE g == [s \in SUBSET S |-> batchStart]
  <2>1. \A s \in SUBSET S : Cardinality(s) <= 0 => g[s] = BatchStep(g, ev, s)
    BY <1>1 DEF BatchStep
  <2>2. BatchUpto(g, ev, 0)  BY <2>1 DEF BatchUpto
  <2>3. g = [s \in SUBSET S |-> g[s]]  OBVIOUS
  <2> HIDE DEF g
  <2> QED  BY <2>2, <2>3
<1>4. ASSUME NEW n \in Nat, n \in T PROVE n + 1 \in T
  <2>1. PICK g : BatchUpto(g, ev, n)  BY <1>4
  <2> HIDE DEF T
  <2> DEFINE h == [s \in SUBSET S |-> BatchStep(g, ev, s)]
  <2>2. \A s \in SUBSET S : Cardinality(s) <= n => h[s] = g[s]  BY <2>1 DEF BatchUpto
  <2>3. \A s \in SUBSET S : Cardinality(s) <= n + 1 /\ s # {} => h[s \ {Max(s)}] = g[s \ {Max(s)}]
    <3> TAKE s \in SUBSET S
    <3> HAVE Cardinality(s) <= n + 1 /\ s # {}
    <3>1. Cardinality(s \ {Max(s)}) <= n  BY <1>1, <1>2
    <3> HIDE DEF h
    <3> QED  BY <1>2, <2>2, <3>1
  <2>4. \A s \in SUBSET S : h[s] = BatchStep(g, ev, s)  OBVIOUS
  <2>5. h = [s \in SUBSET S |-> h[s]]  OBVIOUS
  <2> HIDE DEF h
  <2>6. \A s \in SUBSET S : Cardinality(s) <= n + 1 => h[s] = BatchStep(h, ev, s)
    BY <2>3, <2>4 DEF BatchStep
  <2>7. BatchUpto(h, ev, n + 1)  BY <2>6 DEF BatchUpto
  <2> QED  BY <2>5, <2>7 DEF T
<1> HIDE DEF T
<1>5. Cardinality(S) \in T  BY <1>1, <1>3, <1>4, Induct
<1>6. PICK g : g = [s \in SUBSET S |-> g[s]] /\ BatchUpto(g, ev, Cardinality(S))  BY <1>5 DEF T
<1>7. \A s \in SUBSET S : Cardinality(s) <= Cardinality(S)
  <2> HIDE DEF S
  <2> QED  BY <1>0, FS_Subset
<1>8. \A s \in SUBSET S : g[s] = BatchStep(g, ev, s)  BY <1>6, <1>7 DEF BatchUpto
<1>9. Batch(g, ev)
  <2>1. [s \in SUBSET S |-> g[s]] = [s \in SUBSET S |-> BatchStep(g, ev, s)]  BY <1>8
  <2> QED  BY <1>6, <2>1, Zenon DEF Batch
<1> DEFINE it == CHOOSE it : Batch(it, ev)
<1>10. Batch(it, ev)  BY <1>9
<1>11. ValidateBatch(ev) = it[DOMAIN ev]
  BY DEF ValidateBatch, FoldLeft, MapThenFoldSet, Batch, BatchStep, batchStart
<1> HIDE DEF it
<1> QED  BY <1>10, <1>11

\* A round appends the event with some verdict.
LEMMA RoundAppends ==
  ASSUME NEW acc, NEW e
  PROVE  \E c \in BOOLEAN : validate(acc, e).out = Append(acc.out, [event |-> e, correct |-> c])
<1> DEFINE res == ProcessOrder(bookFor(acc.book, acc.last, e.test), replayed(e.order))
           c == compare(res.fill, e.fill)
<1>1. c \in BOOLEAN
  <2> HIDE DEF res
  <2> QED  BY Zenon DEF compare
<1>2. validate(acc, e).out = Append(acc.out, [event |-> e, correct |-> c])
  BY DEF validate
<1> HIDE DEF c, res
<1> QED  BY <1>1, <1>2

\* Verdicts on the first n events, in their order.
VerdictsOn(out, ev, n) ==
  out \in Seq(Verdicts) /\ Len(out) = n /\ \A i \in 1 .. n : out[i].event = ev[i]

\* A batch is judged one event after the other.
Rounds(acc, ev) ==
  /\ acc[0] = batchStart
  /\ \A n \in 1 .. Len(ev) : acc[n] = validate(acc[n - 1], ev[n])
  /\ ValidateBatch(ev) = acc[Len(ev)]

LEMMA BatchGoesRound == ASSUME NEW ev \in Seq(Events) PROVE \E acc : Rounds(acc, ev)
<1>1. PICK g : Batch(g, ev) /\ ValidateBatch(ev) = g[DOMAIN ev]  BY BatchExists
<1>2. \A s \in SUBSET DOMAIN ev : g[s] = BatchStep(g, ev, s)  BY <1>1 DEF Batch
<1>3. DOMAIN ev = 1 .. Len(ev) /\ Len(ev) \in Nat  OBVIOUS
<1> DEFINE acc == [n \in 0 .. Len(ev) |-> g[1 .. n]]
<1>4. acc[0] = batchStart
  <2>1. 1 .. 0 = {}  OBVIOUS
  <2>2. g[1 .. 0] = batchStart  BY <1>2, <2>1 DEF BatchStep
  <2> QED  BY <1>3, <2>2
<1>5. ASSUME NEW n \in 1 .. Len(ev) PROVE acc[n] = validate(acc[n - 1], ev[n])
  <2>1. Max(1 .. n) = n /\ (1 .. n) \ {n} = 1 .. n - 1
    <3>1. IsFiniteSet(1 .. n) /\ 1 .. n \in SUBSET Int /\ n \in 1 .. n  BY FS_Interval
    <3> DEFINE R == 1 .. n
    <3>2. R \in SUBSET Int /\ IsFiniteSet(R) /\ R # {}  BY <3>1
    <3> HIDE DEF R
    <3>3. Max(R) \in R /\ \A y \in R : y <= Max(R)  BY <3>2, MaxOf
    <3> QED  BY <3>1, <3>3 DEF R
  <2>2. 1 .. n \in SUBSET DOMAIN ev /\ 1 .. n # {}
    <3>1. 1 .. n \subseteq 1 .. Len(ev) /\ 1 \in 1 .. n  BY <1>3
    <3> QED  BY <1>3, <3>1
  <2>3. g[1 .. n] = validate(g[1 .. n - 1], ev[n])  BY <1>2, <2>1, <2>2 DEF BatchStep
  <2>4. acc[n] = g[1 .. n] /\ acc[n - 1] = g[1 .. n - 1]  BY <1>3
  <2> QED  BY <2>3, <2>4
<1>6. ValidateBatch(ev) = acc[Len(ev)]  BY <1>1, <1>3
<1> HIDE DEF acc
<1>7. Rounds(acc, ev)  BY <1>4, <1>5, <1>6 DEF Rounds
<1> QED  BY <1>7

\* A batch of verdicts has its events, one by one and in their order.
LEMMA BatchKeepsEvents ==
  ASSUME NEW ev \in Seq(Events)
  PROVE  VerdictsOn(ValidateBatch(ev).out, ev, Len(ev))
<1>1. PICK acc : Rounds(acc, ev)  BY BatchGoesRound
<1>2. Len(ev) \in Nat /\ \A i \in 1 .. Len(ev) : ev[i] \in Events  OBVIOUS
<1> DEFINE T == {n \in Nat : n <= Len(ev) => VerdictsOn(acc[n].out, ev, n)}
<1>3. 0 \in T
  <2>1. acc[0].out = <<>>  BY <1>1 DEF Rounds, batchStart
  <2>2. VerdictsOn(acc[0].out, ev, 0)  BY <2>1 DEF VerdictsOn
  <2> QED  BY <2>2
<1>4. ASSUME NEW n \in Nat, n \in T PROVE n + 1 \in T
  <2> SUFFICES ASSUME n + 1 <= Len(ev) PROVE VerdictsOn(acc[n + 1].out, ev, n + 1)  OBVIOUS
  <2>1. VerdictsOn(acc[n].out, ev, n)  BY <1>2, <1>4
  <2>2. acc[n + 1] = validate(acc[n], ev[n + 1])
    <3>1. n + 1 \in 1 .. Len(ev) /\ (n + 1) - 1 = n  BY <1>2
    <3> HIDE DEF T
    <3> QED  BY <1>1, <3>1 DEF Rounds
  <2>3. PICK c \in BOOLEAN :
          acc[n + 1].out = Append(acc[n].out, [event |-> ev[n + 1], correct |-> c])
    BY <2>2, RoundAppends
  <2> DEFINE out == acc[n].out
             v == [event |-> ev[n + 1], correct |-> c]
  <2>4. ev[n + 1] \in Events  BY <1>2
  <2>5. v \in Verdicts /\ v.event = ev[n + 1]  BY <2>4 DEF Verdicts
  <2>6. acc[n + 1].out = Append(out, v)  BY <2>3
  <2>7. VerdictsOn(out, ev, n)  BY <2>1
  <2> HIDE DEF out, v, T
  <2>8. /\ Append(out, v) \in Seq(Verdicts) /\ Len(Append(out, v)) = n + 1
        /\ \A i \in 1 .. n + 1 : Append(out, v)[i].event = ev[i]
    BY <2>5, <2>7 DEF VerdictsOn
  <2> QED  BY <2>6, <2>8 DEF VerdictsOn
<1> HIDE DEF T
<1>5. Len(ev) \in T  BY <1>2, <1>3, <1>4, Induct
<1>6. ValidateBatch(ev) = acc[Len(ev)]  BY <1>1 DEF Rounds
<1> QED  BY <1>2, <1>5, <1>6 DEF T

-----------------------------------------------------------------------------
(* How often a sequence holds an element of P. *)

Places(s, P) == {i \in DOMAIN s : s[i] \in P}
Count(s, P) == Cardinality(Places(s, P))

LEMMA CountTypes ==
  ASSUME NEW S, NEW s \in Seq(S), NEW P
  PROVE  IsFiniteSet(Places(s, P)) /\ Count(s, P) \in Nat
<1>1. IsFiniteSet(DOMAIN s)  BY AppendedDomain
<1> QED  BY <1>1, FS_Subset, FS_CardinalityType DEF Places, Count

LEMMA CountOfNone == ASSUME NEW P PROVE Count(<<>>, P) = 0
<1>1. Places(<<>>, P) = {}  BY DEF Places
<1> QED  BY <1>1, FS_EmptySet DEF Count

\* One more element.
LEMMA CountAppended ==
  ASSUME NEW S, NEW s \in Seq(S), NEW v \in S, NEW P
  PROVE  Count(Append(s, v), P) = IF v \in P THEN Count(s, P) + 1 ELSE Count(s, P)
<1> DEFINE n == Len(s) + 1
           a == Append(s, v)
<1>1. /\ DOMAIN a = DOMAIN s \cup {n} /\ n \notin DOMAIN s
      /\ \A i \in DOMAIN s : a[i] = s[i]
      /\ a[n] = v
  BY AppendedDomain
<1> HIDE DEF n, a
<1>2. Places(a, P) = (IF v \in P THEN Places(s, P) \cup {n} ELSE Places(s, P)) /\ n \notin Places(s, P)
  BY <1>1 DEF Places
<1>3. IsFiniteSet(Places(s, P))  BY CountTypes
<1>4. v \in P => Cardinality(Places(s, P) \cup {n}) = Cardinality(Places(s, P)) + 1
  BY <1>2, <1>3, FS_AddElement
<1> QED  BY <1>2, <1>4 DEF Count, a

\* Two sequences of which one lists the other in a different order.
LEMMA CountPermuted ==
  ASSUME NEW S, NEW s \in Seq(S), NEW t \in Seq(S), NEW P,
         NEW b \in Bijection(DOMAIN s, DOMAIN t), \A i \in DOMAIN s : t[b[i]] = s[i]
  PROVE  Count(s, P) = Count(t, P)
<1> DEFINE A == Places(s, P)
           B == Places(t, P)
           c == [i \in A |-> b[i]]
<1>1. /\ b \in [DOMAIN s -> DOMAIN t]
      /\ \A i, j \in DOMAIN s : b[i] = b[j] => i = j
      /\ \A k \in DOMAIN t : \E i \in DOMAIN s : b[i] = k
  BY DEF Bijection, Injection, Surjection, IsInjective
<1>2. c \in [A -> B]  BY <1>1 DEF Places
<1>3. \A i, j \in A : c[i] = c[j] => i = j  BY <1>1 DEF Places
<1>4. \A k \in B : \E i \in A : c[i] = k  BY <1>1 DEF Places
<1>5. IsFiniteSet(A)  BY CountTypes
<1> HIDE DEF A, B, c
<1>6. c \in Injection(A, B)  BY <1>2, <1>3 DEF Injection, IsInjective
<1>7. c \in Surjection(A, B)  BY <1>2, <1>4 DEF Surjection
<1>8. c \in Bijection(A, B)  BY <1>6, <1>7 DEF Bijection
<1>9. Cardinality(A) = Cardinality(B)  
  <2>1. ExistsBijection(A, B)  BY <1>8 DEF ExistsBijection
  <2> QED  BY <1>5, <2>1, FS_Bijection, Zenon
<1> QED  BY <1>9 DEF Count, A, B

\* The first element and the others.
LEMMA CountOfTail ==
  ASSUME NEW S, NEW s \in Seq(S), s # <<>>, NEW P
  PROVE  Count(s, P) = IF Head(s) \in P THEN Count(Tail(s), P) + 1 ELSE Count(Tail(s), P)
<1> DEFINE A == Places(Tail(s), P)
           B == Places(s, P) \ {1}
           c == [i \in A |-> i + 1]
<1>1. /\ Len(s) \in Nat /\ Len(s) > 0 /\ DOMAIN s = 1 .. Len(s) /\ DOMAIN Tail(s) = 1 .. Len(s) - 1
      /\ \A i \in 1 .. Len(s) - 1 : Tail(s)[i] = s[i + 1]
      /\ s[1] = Head(s) /\ Tail(s) \in Seq(S)
  OBVIOUS
<1>2. c \in [A -> B]  BY <1>1 DEF Places
<1>3. \A i, j \in A : c[i] = c[j] => i = j
  <2>1. \A i \in A : i \in Int  BY <1>1 DEF Places
  <2> QED  BY <2>1
<1>4. ASSUME NEW k \in B PROVE \E i \in A : c[i] = k
  <2>1. k \in 1 .. Len(s) /\ k # 1 /\ s[k] \in P  BY <1>1 DEF Places
  <2>2. k - 1 \in 1 .. Len(s) - 1 /\ (k - 1) + 1 = k  BY <1>1, <2>1
  <2>3. k - 1 \in A  BY <1>1, <2>1, <2>2 DEF Places
  <2> QED  BY <2>2, <2>3
<1>5. IsFiniteSet(A)  BY <1>1, CountTypes
<1> HIDE DEF A, B, c
<1>6. c \in Injection(A, B)  BY <1>2, <1>3 DEF Injection, IsInjective
<1>7. c \in Surjection(A, B)  BY <1>2, <1>4 DEF Surjection
<1>8. c \in Bijection(A, B)  BY <1>6, <1>7 DEF Bijection
<1>9. Cardinality(A) = Cardinality(B)  
  <2>1. ExistsBijection(A, B)  BY <1>8 DEF ExistsBijection
  <2> QED  BY <1>5, <2>1, FS_Bijection, Zenon
<1>10. IsFiniteSet(Places(s, P)) /\ Cardinality(Places(s, P)) \in Nat  BY CountTypes DEF Count
<1>11. CASE Head(s) \in P
  <2>1. 1 \in Places(s, P)  BY <1>1, <1>11 DEF Places
  <2>2. Cardinality(B) = Cardinality(Places(s, P)) - 1
    BY <1>10, <2>1, FS_RemoveElement, Zenon DEF B
  <2> QED  BY <1>9, <1>10, <1>11, <2>2 DEF Count, A
<1>12. CASE Head(s) \notin P
  <2>1. B = Places(s, P)  BY <1>1, <1>12 DEF Places, B
  <2> QED  BY <1>9, <1>12, <2>1 DEF Count, A
<1> QED  BY <1>11, <1>12

-----------------------------------------------------------------------------
(* The stable sort. *)

\* Where it puts each event.
sortedPlace(ev) == [i \in DOMAIN ev |-> Cardinality(sortedBefore(ev, i)) + 1]

\* It puts every event at a place of its own.
LEMMA SortedPlaces ==
  ASSUME NEW ev \in Seq(Events)
  PROVE  sortedPlace(ev) \in Bijection(DOMAIN ev, DOMAIN ev)
<1> DEFINE D == DOMAIN ev
           p == [i \in D |-> Cardinality(sortedBefore(ev, i)) + 1]
<1>1. /\ Len(ev) \in Nat /\ D = 1 .. Len(ev) /\ IsFiniteSet(D) /\ Cardinality(D) = Len(ev)
      /\ \A i \in D : ev[i].seq \in Int /\ i \in Int
  <2>1. Len(ev) \in Nat /\ D = 1 .. Len(ev)  OBVIOUS
  <2>2. \A i \in D : ev[i] \in Events  OBVIOUS
  <2> QED  BY <2>1, <2>2, FS_Interval, IngesterAssumption
<1>2. ASSUME NEW i \in D
      PROVE  /\ sortedBefore(ev, i) \subseteq D /\ i \notin sortedBefore(ev, i)
             /\ IsFiniteSet(sortedBefore(ev, i)) /\ p[i] \in D
             /\ p[i] = Cardinality(sortedBefore(ev, i)) + 1 /\ p[i] \in Nat
  <2>1. sortedBefore(ev, i) \subseteq D  BY DEF sortedBefore
  <2>2. i \notin sortedBefore(ev, i)  BY <1>1 DEF sortedBefore
  <2>3. IsFiniteSet(sortedBefore(ev, i)) /\ Cardinality(sortedBefore(ev, i)) \in Nat
    BY <1>1, <2>1, FS_Subset, FS_CardinalityType
  <2>4. IsFiniteSet(D \ {i}) /\ Cardinality(D \ {i}) = Len(ev) - 1
    <3>1. Cardinality(D \ {i}) = Cardinality(D) - 1 /\ IsFiniteSet(D \ {i})
      BY <1>1, FS_RemoveElement, Zenon
    <3> QED  BY <1>1, <3>1
  <2>5. sortedBefore(ev, i) \subseteq D \ {i}  BY <2>1, <2>2
  <2>6. Cardinality(sortedBefore(ev, i)) <= Cardinality(D \ {i})  BY <2>4, <2>5, FS_Subset
  <2>7. p[i] = Cardinality(sortedBefore(ev, i)) + 1  OBVIOUS
  <2> HIDE DEF p
  <2> QED  BY <1>1, <2>1, <2>2, <2>3, <2>4, <2>6, <2>7
<1>3. ASSUME NEW i \in D, NEW j \in D, i \in sortedBefore(ev, j) PROVE p[i] < p[j]
  <2>1. sortedBefore(ev, i) \cup {i} \subseteq sortedBefore(ev, j)
    <3>1. ASSUME NEW k \in sortedBefore(ev, i) PROVE k \in sortedBefore(ev, j)
      <4>1. k \in D  BY DEF sortedBefore
      <4> QED  BY <1>1, <1>3, <4>1 DEF sortedBefore
    <3> QED  BY <1>3, <3>1
  <2>2. Cardinality(sortedBefore(ev, i) \cup {i}) = Cardinality(sortedBefore(ev, i)) + 1
    BY <1>2, FS_AddElement
  <2>3. Cardinality(sortedBefore(ev, i) \cup {i}) <= Cardinality(sortedBefore(ev, j))
    BY <1>2, <2>1, FS_Subset
  <2> HIDE DEF p
  <2>4. p[i] \in Nat /\ p[j] \in Nat /\ p[i] = Cardinality(sortedBefore(ev, i)) + 1
        /\ p[j] = Cardinality(sortedBefore(ev, j)) + 1
    BY <1>2
  <2>5. Cardinality(sortedBefore(ev, j)) \in Nat /\ Cardinality(sortedBefore(ev, i)) \in Nat
    BY <1>2, FS_CardinalityType
  <2> QED  BY <2>2, <2>3, <2>4, <2>5
<1>4. ASSUME NEW i \in D, NEW j \in D, p[i] = p[j] PROVE i = j
  <2> SUFFICES ASSUME i # j PROVE FALSE  OBVIOUS
  <2>1. i \in sortedBefore(ev, j) \/ j \in sortedBefore(ev, i)  BY <1>1 DEF sortedBefore
  <2>2. p[i] \in Nat /\ p[j] \in Nat  BY <1>2
  <2>3. p[i] < p[j] \/ p[j] < p[i]  BY <1>3, <2>1
  <2> QED  BY <1>4, <2>2, <2>3
<1>5. p \in [D -> D]  BY <1>2
<1> HIDE DEF p
<1>6. \A k \in D : \E i \in D : p[i] = k
  <2> DEFINE n == Cardinality(D)
  <2>1. D = 1 .. n  BY <1>1
  <2>2. p \in [1 .. n -> D] /\ \A i, j \in 1 .. n : i # j => p[i] # p[j]  BY <1>4, <1>5, <2>1
  <2>4. IsFiniteSet(D)  BY <1>1
  <2> HIDE DEF D
  <2>3. \A k \in D : \E i \in 1 .. n : p[i] = k  BY <2>2, <2>4, EveryoneComesIn, Zenon
  <2> QED  BY <2>1, <2>3
<1> HIDE DEF D
<1>7. p \in Injection(D, D)  BY <1>4, <1>5 DEF Injection, IsInjective
<1>8. p \in Surjection(D, D)  BY <1>5, <1>6 DEF Surjection
<1>9. p \in Bijection(D, D)  BY <1>7, <1>8 DEF Bijection
<1> QED  BY <1>9 DEF p, D, sortedPlace

\* The sorted events are the events, each behind those that come before it.
LEMMA SortKeepsEvents ==
  ASSUME NEW ev \in Seq(Events)
  PROVE  /\ bySequence(ev) \in Seq(Events) /\ Len(bySequence(ev)) = Len(ev)
         /\ \A i \in DOMAIN ev : bySequence(ev)[Cardinality(sortedBefore(ev, i)) + 1] = ev[i]
         /\ \A P : Count(bySequence(ev), P) = Count(ev, P)
<1> DEFINE D == DOMAIN ev
           p == [i \in D |-> Cardinality(sortedBefore(ev, i)) + 1]
           at(n) == CHOOSE i \in D : Cardinality(sortedBefore(ev, i)) = n - 1
           s == bySequence(ev)
<1>1. p \in Bijection(D, D)  BY SortedPlaces DEF sortedPlace
<1>2. /\ Len(ev) \in Nat /\ D = 1 .. Len(ev) /\ IsFiniteSet(D) /\ \A i \in D : ev[i] \in Events
  BY FS_Interval
<1>3. \A i \in D : Cardinality(sortedBefore(ev, i)) \in Nat
  <2> TAKE i \in D
  <2>1. sortedBefore(ev, i) \subseteq D  BY DEF sortedBefore
  <2> QED  BY <1>2, <2>1, FS_Subset, FS_CardinalityType
<1>4. /\ \A i \in D : p[i] \in D /\ p[i] = Cardinality(sortedBefore(ev, i)) + 1
      /\ \A i, j \in D : p[i] = p[j] => i = j
      /\ \A k \in D : \E i \in D : p[i] = k
  <2>1. \A i \in D : p[i] = Cardinality(sortedBefore(ev, i)) + 1  OBVIOUS
  <2> HIDE DEF p
  <2> QED  BY <1>1, <2>1 DEF Bijection, Injection, Surjection, IsInjective
<1>5. ASSUME NEW n \in D PROVE at(n) \in D /\ p[at(n)] = n
  <2>1. PICK i \in D : p[i] = n  BY <1>4
  <2>2. Cardinality(sortedBefore(ev, i)) = n - 1  BY <1>3, <1>4, <2>1
  <2>3. at(n) \in D /\ Cardinality(sortedBefore(ev, at(n))) = n - 1  BY <2>2
  <2>4. n \in Int  BY <1>2
  <2> HIDE DEF at
  <2> QED  BY <1>4, <2>3, <2>4
<1>6. s = [n \in D |-> ev[at(n)]]  BY DEF bySequence
<1> HIDE DEF p, at, s
<1>7. s \in Seq(Events) /\ Len(s) = Len(ev) /\ DOMAIN s = D
  <2>1. s \in [1 .. Len(ev) -> Events]  BY <1>2, <1>5, <1>6
  <2> QED  BY <1>2, <2>1
<1>8. \A i \in D : s[p[i]] = ev[i]
  <2> TAKE i \in D
  <2>1. p[i] \in D  BY <1>4
  <2>2. at(p[i]) = i  BY <1>4, <1>5, <2>1
  <2> QED  BY <1>6, <2>1, <2>2
<1>9. ASSUME NEW P PROVE Count(s, P) = Count(ev, P)
  <2>1. p \in Bijection(DOMAIN ev, DOMAIN s)  BY <1>1, <1>7
  <2>2. Count(ev, P) = Count(s, P)  BY <1>7, <1>8, <2>1, CountPermuted
  <2> QED  BY <2>2
<1>10. \A i \in D : s[Cardinality(sortedBefore(ev, i)) + 1] = ev[i]
  <2> TAKE i \in D
  <2>1. p[i] = Cardinality(sortedBefore(ev, i)) + 1  BY <1>4
  <2> QED  BY <1>8, <2>1
<1> QED  BY <1>7, <1>9, <1>10 DEF s, D

-----------------------------------------------------------------------------
(* An event read is pending, in the group or written, in one place at most: *)
(* as often as it was read, counted over the three places.                *)

Of(e) == {v \in Verdicts : v.event = e}
readOf(e) == {i \in 1 .. offset : topic[i] = e}

WayTypes ==
  /\ topic \in Seq(Events) /\ position \in 0 .. Len(topic) /\ offset \in 0 .. position
  /\ pending \in Seq(Events) /\ group \in Seq(Verdicts) /\ judged \in Seq(Verdicts)
  /\ counting \in BOOLEAN /\ (counting => group # <<>>)

OnePlace ==
  \A e \in Events :
    Count(judged, Of(e)) + Count(group, Of(e)) + Count(pending, {e}) <= Cardinality(readOf(e))

WayInv == WayTypes /\ OnePlace

LEMMA ReadCounted ==
  ASSUME WayTypes, NEW e
  PROVE  /\ IsFiniteSet(readOf(e)) /\ Cardinality(readOf(e)) \in Nat
         /\ readOf(e) \subseteq Places(topic, {e})
         /\ Count(judged, Of(e)) \in Nat /\ Count(group, Of(e)) \in Nat /\ Count(pending, {e}) \in Nat
<1>1. offset \in Nat /\ 1 .. offset \subseteq DOMAIN topic
  <2>1. /\ Len(topic) \in Nat /\ DOMAIN topic = 1 .. Len(topic)
        /\ position \in 0 .. Len(topic) /\ offset \in 0 .. position
    BY DEF WayTypes
  <2> QED  BY <2>1
<1>2. IsFiniteSet(1 .. offset)  BY <1>1, FS_Interval
<1>3. readOf(e) \subseteq 1 .. offset /\ readOf(e) \subseteq Places(topic, {e})
  BY <1>1 DEF readOf, Places
<1>4. IsFiniteSet(readOf(e)) /\ Cardinality(readOf(e)) \in Nat
  BY <1>2, <1>3, FS_Subset, FS_CardinalityType
<1>5. Count(judged, Of(e)) \in Nat /\ Count(group, Of(e)) \in Nat /\ Count(pending, {e}) \in Nat
  BY CountTypes DEF WayTypes
<1> QED  BY <1>3, <1>4, <1>5

\* A batch of verdicts has each event as often as the batch had it.
LEMMA VerdictsCount ==
  ASSUME NEW ev \in Seq(Events), NEW out, VerdictsOn(out, ev, Len(ev)), NEW e
  PROVE  Count(out, Of(e)) = Count(ev, {e})
<1>1. DOMAIN out = 1 .. Len(ev) /\ DOMAIN ev = 1 .. Len(ev)  BY DEF VerdictsOn
<1>2. \A i \in 1 .. Len(ev) : out[i] \in Verdicts /\ out[i].event = ev[i]
  BY <1>1 DEF VerdictsOn
<1>3. Places(out, Of(e)) = Places(ev, {e})  BY <1>1, <1>2 DEF Places, Of
<1> QED  BY <1>3 DEF Count

\* Nothing was read yet.
LEMMA WayInvAtInit == Init => WayInv
<1> SUFFICES ASSUME Init PROVE WayInv  OBVIOUS
<1>1. /\ topic = <<>> /\ position = 0 /\ offset = 0 /\ pending = <<>> /\ group = <<>> /\ counting = FALSE
      /\ judged = <<>>
  BY DEF Init
<1>2. WayTypes
  <2>1. /\ topic \in Seq(Events) /\ pending \in Seq(Events)
        /\ group \in Seq(Verdicts) /\ judged \in Seq(Verdicts)
    BY <1>1
  <2>2. position \in 0 .. Len(topic) /\ offset \in 0 .. position  BY <1>1
  <2>3. counting \in BOOLEAN /\ (counting => group # <<>>)  BY <1>1, Zenon
  <2> QED  BY <2>1, <2>2, <2>3, Zenon DEF WayTypes
<1>3. ASSUME NEW e \in Events
      PROVE Count(judged, Of(e)) + Count(group, Of(e)) + Count(pending, {e}) <= Cardinality(readOf(e))
  <2>1. Count(judged, Of(e)) = 0 /\ Count(group, Of(e)) = 0 /\ Count(pending, {e}) = 0
    BY <1>1, CountOfNone
  <2> QED  BY <1>2, <2>1, ReadCounted
<1> QED  BY <1>2, <1>3 DEF WayInv, OnePlace

LEMMA ArriveKeepsWay == ASSUME WayInv, NEW e \in Events, Arrive(e) PROVE WayInv'
<1>1. topic' = Append(topic, e) /\ UNCHANGED <<position, offset, pending, group, counting, judged>>
  BY DEF Arrive, own
<1>2. /\ topic \in Seq(Events) /\ Len(topic) \in Nat
      /\ position \in 0 .. Len(topic) /\ offset \in 0 .. position
  BY DEF WayInv, WayTypes
<1>3. topic' \in Seq(Events) /\ position' \in 0 .. Len(topic') /\ offset' \in 0 .. position'
  BY <1>1, <1>2
<1>4. \A d \in Events : readOf(d)' = readOf(d)  BY <1>1, <1>2 DEF readOf
<1> QED  BY <1>1, <1>3, <1>4 DEF WayInv, WayTypes, OnePlace

\* The reader commits past more than it had: what it reads is new, and so
\* is what it passes over.
LEMMA MoreIsRead ==
  ASSUME WayTypes, NEW e, offset' \in Nat, offset <= offset', offset' <= Len(topic), topic' = topic
  PROVE  /\ IsFiniteSet(readOf(e)') /\ Cardinality(readOf(e)') \in Nat
         /\ readOf(e) \subseteq readOf(e)' /\ Cardinality(readOf(e)) <= Cardinality(readOf(e)')
<1>1. IsFiniteSet(1 .. offset')  BY FS_Interval
<1>2. readOf(e)' = {i \in 1 .. offset' : topic[i] = e}  BY DEF readOf
<1>3. offset \in Nat
  <2>1. Len(topic) \in Nat /\ position \in 0 .. Len(topic) /\ offset \in 0 .. position  BY DEF WayTypes
  <2> QED  BY <2>1
<1>4. 1 .. offset \subseteq 1 .. offset'  BY <1>3
<1>5. readOf(e) \subseteq readOf(e)'  BY <1>2, <1>4 DEF readOf
<1>6. IsFiniteSet(readOf(e)') /\ Cardinality(readOf(e)') \in Nat
  BY <1>1, <1>2, FS_Subset, FS_CardinalityType
<1>7. Cardinality(readOf(e)) <= Cardinality(readOf(e)')  BY <1>5, <1>6, FS_Subset
<1> QED  BY <1>5, <1>6, <1>7

LEMMA ConsumeKeepsWay == ASSUME WayInv, Consume PROVE WayInv'
<1> DEFINE n == position + 1
<1>1. /\ offset' = n /\ position' = n /\ position < Len(topic) /\ pending' = Append(pending, topic[n])
      /\ UNCHANGED <<topic, group, counting, judged>>
  BY DEF Consume, Committed
<1>2. /\ topic \in Seq(Events) /\ offset \in Nat /\ position \in Nat /\ offset <= position
      /\ Len(topic) \in Nat /\ pending \in Seq(Events)
  <2>1. /\ topic \in Seq(Events) /\ Len(topic) \in Nat /\ pending \in Seq(Events)
        /\ position \in 0 .. Len(topic) /\ offset \in 0 .. position
    BY DEF WayInv, WayTypes
  <2> QED  BY <2>1
<1>3. n \in Nat /\ n \in 1 .. Len(topic) /\ topic[n] \in Events  BY <1>1, <1>2
<1>4. WayTypes'  BY <1>1, <1>2, <1>3 DEF WayInv, WayTypes
<1>5. ASSUME NEW e \in Events
      PROVE Count(judged', Of(e)) + Count(group', Of(e)) + Count(pending', {e}) <= Cardinality(readOf(e)')
  <2>1. /\ IsFiniteSet(readOf(e)') /\ Cardinality(readOf(e)') \in Nat
        /\ readOf(e) \subseteq readOf(e)' /\ Cardinality(readOf(e)) <= Cardinality(readOf(e)')
    BY <1>1, <1>2, <1>3, MoreIsRead DEF WayInv
  <2>2. n \notin readOf(e) /\ (topic[n] = e => n \in readOf(e)')  BY <1>1, <1>2, <1>3 DEF readOf
  <2>3. /\ IsFiniteSet(readOf(e)) /\ Cardinality(readOf(e)) \in Nat
        /\ Count(judged, Of(e)) \in Nat /\ Count(group, Of(e)) \in Nat /\ Count(pending, {e}) \in Nat
    BY ReadCounted DEF WayInv
  <2>4. Count(judged, Of(e)) + Count(group, Of(e)) + Count(pending, {e}) <= Cardinality(readOf(e))
    BY DEF WayInv, OnePlace
  <2>5. Count(pending', {e}) = IF topic[n] = e THEN Count(pending, {e}) + 1 ELSE Count(pending, {e})
    BY <1>1, <1>2, <1>3, CountAppended
  <2>6. topic[n] = e => Cardinality(readOf(e)) + 1 <= Cardinality(readOf(e)')
    <3> SUFFICES ASSUME topic[n] = e PROVE Cardinality(readOf(e)) + 1 <= Cardinality(readOf(e)')
      OBVIOUS
    <3>1. readOf(e) \cup {n} \subseteq readOf(e)'  BY <2>1, <2>2
    <3>2. Cardinality(readOf(e) \cup {n}) = Cardinality(readOf(e)) + 1  BY <2>2, <2>3, FS_AddElement
    <3>3. Cardinality(readOf(e) \cup {n}) <= Cardinality(readOf(e)')  BY <2>1, <3>1, FS_Subset
    <3> QED  BY <3>2, <3>3
  <2>7. judged' = judged /\ group' = group  BY <1>1
  <2> QED  BY <2>1, <2>3, <2>4, <2>5, <2>6, <2>7
<1> QED  BY <1>4, <1>5 DEF WayInv, OnePlace

\* What a failed commit passes over is in no place.
LEMMA CommitFailsKeepsWay == ASSUME WayInv, CommitFails PROVE WayInv'
<1>1. /\ offset' \in {offset, position + 1} /\ position' \in {position + 1, offset'}
      /\ position < Len(topic) /\ UNCHANGED <<topic, pending, group, counting, judged>>
  BY DEF CommitFails
<1>2. /\ Len(topic) \in Nat /\ position \in 0 .. Len(topic) /\ offset \in 0 .. position
  BY DEF WayInv, WayTypes
<1>3. /\ position' \in 0 .. Len(topic) /\ offset' \in 0 .. position' /\ offset' \in Nat
      /\ offset <= offset' /\ offset' <= Len(topic)
  BY <1>1, <1>2
<1>4. WayTypes'  BY <1>1, <1>3 DEF WayInv, WayTypes
<1>5. ASSUME NEW e \in Events
      PROVE Count(judged', Of(e)) + Count(group', Of(e)) + Count(pending', {e}) <= Cardinality(readOf(e)')
  <2>1. Cardinality(readOf(e)') \in Nat /\ Cardinality(readOf(e)) <= Cardinality(readOf(e)')
    BY <1>1, <1>3, MoreIsRead DEF WayInv
  <2>2. /\ Cardinality(readOf(e)) \in Nat
        /\ Count(judged, Of(e)) \in Nat /\ Count(group, Of(e)) \in Nat /\ Count(pending, {e}) \in Nat
    BY ReadCounted DEF WayInv
  <2>3. Count(judged, Of(e)) + Count(group, Of(e)) + Count(pending, {e}) <= Cardinality(readOf(e))
    BY DEF WayInv, OnePlace
  <2>4. judged' = judged /\ group' = group /\ pending' = pending  BY <1>1
  <2> QED  BY <2>1, <2>2, <2>3, <2>4
<1> QED  BY <1>4, <1>5 DEF WayInv, OnePlace

LEMMA FlushKeepsWay == ASSUME WayInv, Flush PROVE WayInv'
<1> DEFINE ev == bySequence(pending)
<1>1. /\ group = <<>> /\ group' = ValidateBatch(ev).out /\ pending' = <<>>
      /\ UNCHANGED <<topic, position, offset, counting, judged>>
  BY DEF Flush
<1>2. pending \in Seq(Events) /\ counting = FALSE  BY <1>1 DEF WayInv, WayTypes
<1>3. ev \in Seq(Events) /\ \A P : Count(ev, P) = Count(pending, P)  BY <1>2, SortKeepsEvents
<1> HIDE DEF ev
<1>4. VerdictsOn(group', ev, Len(ev))  BY <1>1, <1>3, BatchKeepsEvents
<1>5. WayTypes'  BY <1>1, <1>2, <1>4 DEF WayInv, WayTypes, VerdictsOn
<1>6. ASSUME NEW e \in Events
      PROVE Count(judged', Of(e)) + Count(group', Of(e)) + Count(pending', {e}) <= Cardinality(readOf(e)')
  <2>1. Count(group', Of(e)) = Count(pending, {e})  BY <1>3, <1>4, VerdictsCount
  <2>2. Count(group, Of(e)) = 0 /\ Count(pending', {e}) = 0  BY <1>1, CountOfNone
  <2>3. readOf(e)' = readOf(e)  BY <1>1 DEF readOf
  <2>4. Count(judged, Of(e)) + Count(group, Of(e)) + Count(pending, {e}) <= Cardinality(readOf(e))
    BY DEF WayInv, OnePlace
  <2>5. /\ Cardinality(readOf(e)) \in Nat
        /\ Count(judged, Of(e)) \in Nat /\ Count(group, Of(e)) \in Nat /\ Count(pending, {e}) \in Nat
    BY ReadCounted DEF WayInv
  <2>6. judged' = judged  BY <1>1
  <2> QED  BY <2>1, <2>2, <2>3, <2>4, <2>5, <2>6
<1> QED  BY <1>5, <1>6 DEF WayInv, OnePlace

LEMMA VerdictKeepsWay == ASSUME WayInv, CountVerdict PROVE WayInv'
<1>1. /\ counting /\ judged' = Append(judged, Head(group)) /\ group' = Tail(group)
      /\ counting' = FALSE /\ UNCHANGED <<topic, position, offset, pending>>
  BY DEF CountVerdict
<1>2. group \in Seq(Verdicts) /\ judged \in Seq(Verdicts) /\ group # <<>>
  BY <1>1 DEF WayInv, WayTypes
<1>3. Head(group) \in Verdicts /\ Tail(group) \in Seq(Verdicts)  BY <1>2
<1>4. WayTypes'
  <2>1. /\ topic' \in Seq(Events) /\ pending' \in Seq(Events)
        /\ group' \in Seq(Verdicts) /\ judged' \in Seq(Verdicts)
    BY <1>1, <1>2, <1>3 DEF WayInv, WayTypes
  <2>2. position' \in 0 .. Len(topic') /\ offset' \in 0 .. position'  BY <1>1 DEF WayInv, WayTypes
  <2>3. counting' \in BOOLEAN /\ (counting' => group' # <<>>)  BY <1>1, Zenon
  <2> QED  BY <2>1, <2>2, <2>3, Zenon DEF WayTypes
<1>5. ASSUME NEW e \in Events
      PROVE Count(judged', Of(e)) + Count(group', Of(e)) + Count(pending', {e}) <= Cardinality(readOf(e)')
  <2>1. Count(judged', Of(e)) = IF Head(group) \in Of(e) THEN Count(judged, Of(e)) + 1 ELSE Count(judged, Of(e))
    BY <1>1, <1>2, <1>3, CountAppended
  <2>2. Count(group, Of(e)) = IF Head(group) \in Of(e) THEN Count(group', Of(e)) + 1 ELSE Count(group', Of(e))
    BY <1>1, <1>2, CountOfTail
  <2>3. Count(group', Of(e)) \in Nat  BY <1>1, <1>3, CountTypes
  <2>4. readOf(e)' = readOf(e)  BY <1>1 DEF readOf
  <2>5. Count(judged, Of(e)) + Count(group, Of(e)) + Count(pending, {e}) <= Cardinality(readOf(e))
    BY DEF WayInv, OnePlace
  <2>6. /\ Cardinality(readOf(e)) \in Nat
        /\ Count(judged, Of(e)) \in Nat /\ Count(group, Of(e)) \in Nat /\ Count(pending, {e}) \in Nat
    BY ReadCounted DEF WayInv
  <2>7. pending' = pending  BY <1>1
  <2> QED  BY <2>1, <2>2, <2>3, <2>4, <2>5, <2>6, <2>7
<1> QED  BY <1>4, <1>5 DEF WayInv, OnePlace

LEMMA CrashKeepsWay == ASSUME WayInv, Crash PROVE WayInv'
<1>1. /\ pending' = <<>> /\ group' = <<>> /\ counting' = FALSE
      /\ position' = offset /\ UNCHANGED <<topic, offset, judged>>
  BY DEF Crash
<1>2. WayTypes'
  <2>1. /\ topic' \in Seq(Events) /\ pending' \in Seq(Events)
        /\ group' \in Seq(Verdicts) /\ judged' \in Seq(Verdicts)
    BY <1>1 DEF WayInv, WayTypes
  <2>2. position' \in 0 .. Len(topic') /\ offset' \in 0 .. position'
    <3>1. /\ Len(topic) \in Nat /\ position \in 0 .. Len(topic) /\ offset \in 0 .. position
      BY DEF WayInv, WayTypes
    <3> QED  BY <1>1, <3>1
  <2>3. counting' \in BOOLEAN /\ (counting' => group' # <<>>)  BY <1>1, Zenon
  <2> QED  BY <2>1, <2>2, <2>3, Zenon DEF WayTypes
<1>3. ASSUME NEW e \in Events
      PROVE Count(judged', Of(e)) + Count(group', Of(e)) + Count(pending', {e}) <= Cardinality(readOf(e)')
  <2>1. Count(group', Of(e)) = 0 /\ Count(pending', {e}) = 0  BY <1>1, CountOfNone
  <2>2. readOf(e)' = readOf(e) /\ judged' = judged  BY <1>1 DEF readOf
  <2>3. Count(judged, Of(e)) + Count(group, Of(e)) + Count(pending, {e}) <= Cardinality(readOf(e))
    BY DEF WayInv, OnePlace
  <2>4. /\ Cardinality(readOf(e)) \in Nat
        /\ Count(judged, Of(e)) \in Nat /\ Count(group, Of(e)) \in Nat /\ Count(pending, {e}) \in Nat
    BY ReadCounted DEF WayInv
  <2> QED  BY <2>1, <2>2, <2>3, <2>4
<1> QED  BY <1>2, <1>3 DEF WayInv, OnePlace

LEMMA WayInvIsKept == WayInv /\ [Next]_vars => WayInv'
<1> SUFFICES ASSUME WayInv, [Next]_vars PROVE WayInv'  OBVIOUS
<1>1. ASSUME NEW e \in Events, Arrive(e) PROVE WayInv'  BY <1>1, ArriveKeepsWay
<1>2. CASE Consume  BY <1>2, ConsumeKeepsWay
<1>3. CASE Flush  BY <1>3, FlushKeepsWay
<1>4. CASE CountVerdict  BY <1>4, VerdictKeepsWay
<1>5. CASE Crash  BY <1>5, CrashKeepsWay
<1>6. CASE CountOrder
  <2>1. group # <<>> /\ counting' = TRUE /\ UNCHANGED <<topic, position, offset, pending, group, judged>>
    BY <1>6 DEF CountOrder
  <2>2. \A e \in Events : readOf(e)' = readOf(e)  BY <2>1 DEF readOf
  <2> QED  BY <2>1, <2>2 DEF WayInv, WayTypes, OnePlace
<1>7. CASE ReadTotal \/ ReadTimedOut \/ ReadCorrect \/ UNCHANGED vars
  <2>1. UNCHANGED <<topic, position, offset, pending, group, counting, judged>>
    BY <1>7 DEF ReadTotal, ReadTimedOut, ReadCorrect, vars, own
  <2>2. \A e \in Events : readOf(e)' = readOf(e)  BY <2>1 DEF readOf
  <2> QED  BY <2>1, <2>2 DEF WayInv, WayTypes, OnePlace
<1>8. CASE CommitFails  BY <1>8, CommitFailsKeepsWay
<1> QED  BY <1>1, <1>2, <1>3, <1>4, <1>5, <1>6, <1>7, <1>8 DEF Next

\* An event is written once at most for each time the topic has it: the
\* offset goes past it as it is read, so that a restart reads it no second
\* time (consumer.go:37-51, reorder_buffer.go:49-66).
THEOREM AlwaysWrittenAtMostOnce == Spec => []WrittenAtMostOnce
<1>1. WayInv => WrittenAtMostOnce
  <2> SUFFICES ASSUME WayInv, NEW e \in Events
               PROVE  Occurrences(e, [i \in DOMAIN judged |-> judged[i].event]) <= Occurrences(e, topic)
    BY DEF WrittenAtMostOnce
  <2> DEFINE es == [i \in DOMAIN judged |-> judged[i].event]
  <2>1. Occurrences(e, es) = Count(judged, Of(e))
    <3>1. judged \in Seq(Verdicts) /\ DOMAIN es = DOMAIN judged
      BY DEF WayInv, WayTypes
    <3>2. \A i \in DOMAIN judged : judged[i] \in Verdicts /\ es[i] = judged[i].event  BY <3>1
    <3> HIDE DEF es
    <3>3. {i \in DOMAIN es : es[i] = e} = Places(judged, Of(e))  BY <3>1, <3>2 DEF Places, Of
    <3> QED  BY <3>3 DEF Occurrences, Count
  <2>2. Occurrences(e, topic) = Count(topic, {e})
    <3>1. {i \in DOMAIN topic : topic[i] = e} = Places(topic, {e})  BY DEF Places
    <3> QED  BY <3>1 DEF Occurrences, Count
  <2>3. Cardinality(readOf(e)) <= Count(topic, {e})
    <3>1. topic \in Seq(Events)  BY DEF WayInv, WayTypes
    <3>2. IsFiniteSet(Places(topic, {e}))  BY <3>1, CountTypes
    <3> QED  BY <3>2, ReadCounted, FS_Subset DEF WayInv, Count
  <2>4. Count(judged, Of(e)) + Count(group, Of(e)) + Count(pending, {e}) <= Cardinality(readOf(e))
    BY DEF WayInv, OnePlace
  <2>5. /\ Cardinality(readOf(e)) \in Nat /\ Count(topic, {e}) \in Nat
        /\ Count(judged, Of(e)) \in Nat /\ Count(group, Of(e)) \in Nat /\ Count(pending, {e}) \in Nat
    BY ReadCounted, CountTypes DEF WayInv, WayTypes
  <2> HIDE DEF es
  <2>6. Occurrences(e, es) <= Occurrences(e, topic)  BY <2>1, <2>2, <2>3, <2>4, <2>5
  <2> QED  BY <2>6 DEF es
<1> QED  BY <1>1, WayInvAtInit, WayInvIsKept, PTL DEF Spec

-----------------------------------------------------------------------------
(* The recent past. *)

LEMMA RateTypesAtInit == RateInit => RateTypeOK
<1> SUFFICES ASSUME RateInit PROVE RateTypeOK  OBVIOUS
<1> USE RateAssumption DEF RateInit, RateTypeOK, Empty
<1>1. now \in Seconds /\ lastSec \in {0} \cup Seconds  BY DEF Seconds
<1>2. turn \in 0 .. Slots - 1 /\ turns \in 0 .. MaxTurns  OBVIOUS
<1> QED  BY <1>1, <1>2

LEMMA RateTypesAreKept == RateTypeOK /\ [RateNext]_rateVars => RateTypeOK'
<1> SUFFICES ASSUME RateTypeOK, [RateNext]_rateVars PROVE RateTypeOK'  OBVIOUS
<1> USE RateAssumption DEF RateTypeOK
<1>1. ASSUME NEW l \in Latencies, ProcessEvent(l) PROVE RateTypeOK'
  <2>1. now \in Nat /\ now % Ring \in 0 .. Ring - 1  BY DEF Seconds
  <2>2. bucketOf(now) \in Nat  BY <2>1 DEF bucketOf
  <2>3. ring' \in [0 .. Ring - 1 -> Nat] /\ lastSec' = now
    <3>1. /\ ring' = [ring EXCEPT ![now % Ring] = bucketOf(now) + 1]
          /\ lastSec' = now
      BY <1>1 DEF ProcessEvent, RecordTPS
    <3>2. bucketOf(now) + 1 \in Nat  BY <2>2
    <3> QED  BY <3>1, <3>2
  <2>4. slots' \in [0 .. Slots - 1 -> [Latencies -> Nat]]
    <3>1. slots' = [slots EXCEPT ![turn] = [slots[turn] EXCEPT ![l] = slots[turn][l] + 1]]
      BY <1>1 DEF ProcessEvent
    <3>2. slots[turn] \in [Latencies -> Nat] /\ slots[turn][l] \in Nat  OBVIOUS
    <3>3. [slots[turn] EXCEPT ![l] = slots[turn][l] + 1] \in [Latencies -> Nat]  BY <3>2
    <3> QED  BY <3>1, <3>3
  <2>5. allTime' \in [Latencies -> Nat] /\ UNCHANGED <<now, turn, turns>>
    BY <1>1 DEF ProcessEvent
  <2> QED  BY <2>3, <2>4, <2>5
<1>2. CASE Advance
  <2>1. turn' \in 0 .. Slots - 1  BY <1>2 DEF Advance, nextSlot
  <2>2. Empty \in [Latencies -> Nat]  BY DEF Empty
  <2>3. slots' \in [0 .. Slots - 1 -> [Latencies -> Nat]]  BY <1>2, <2>2 DEF Advance
  <2>4. turns' \in 0 .. MaxTurns /\ UNCHANGED <<now, ring, lastSec, allTime>>
    BY <1>2 DEF Advance, tpsVars
  <2> QED  BY <2>1, <2>3, <2>4
<1>3. CASE Clock
  BY <1>3 DEF Clock, tpsVars, latencyVars, Seconds
<1>4. CASE UNCHANGED rateVars
  BY <1>4 DEF rateVars, tpsVars, latencyVars
<1> QED  BY <1>1, <1>2, <1>3, <1>4 DEF RateNext

\* Neither ring is ever indexed outside, whatever the clock and the ticker do
\* (RateWindows.tla).
THEOREM RateTypesHold == RateSpec => []RateTypeOK
  BY RateTypesAtInit, RateTypesAreKept, PTL DEF RateSpec

\* A bucket holds the orders of the last second with orders of its place.
HoldsLast(i) ==
  \/ ring[i] = 0 /\ \A s \in Seconds : s % Ring = i => orders[s] = 0
  \/ \E s \in Seconds :
       /\ s % Ring = i /\ ring[i] = orders[s] /\ orders[s] > 0
       /\ \A r \in Seconds : r % Ring = i /\ r > s => orders[r] = 0

\* The inductive invariant of the ring.
TPSInv ==
  /\ RateTypeOK
  /\ orders \in [Seconds -> Nat]
  /\ lastSec # 0 => orders[lastSec] > 0
  /\ lastSec <= now /\ \A s \in Seconds : s > lastSec => orders[s] = 0
  /\ \A i \in 0 .. Ring - 1 : HoldsLast(i)

\* The seconds of a run, and their places in the ring.
LEMMA SecondsAreNat ==
  /\ Seconds \subseteq Nat /\ IsFiniteSet(Seconds) /\ Ring \in Nat \ {0}
  /\ \A s \in Seconds : s > 0 /\ s >= Ring
  /\ \A s \in Nat : s % Ring \in 0 .. Ring - 1
<1> USE RateAssumption
<1>1. Ring \in Nat \ {0} /\ Ring + MaxSeconds \in Int  OBVIOUS
<1>2. IsFiniteSet(Seconds)  BY <1>1, FS_Interval DEF Seconds
<1>3. \A s \in Nat : s % Ring \in 0 .. Ring - 1  BY <1>1
<1>4. \A s \in Seconds : s \in Int /\ s >= Ring  BY <1>1 DEF Seconds
<1>5. \A s \in Seconds : s \in Nat /\ s > 0
  <2> TAKE s \in Seconds
  <2>1. s \in Int /\ s >= Ring  BY <1>4
  <2> QED  BY <1>1, <2>1
<1> QED  BY <1>1, <1>2, <1>3, <1>4, <1>5

\* What the bucket of a second holds while the ring still covers it.
LEMMA CoveredSecond ==
  ASSUME TPSInv, NEW s \in Seconds, s <= now, now < s + Ring
  PROVE  /\ orders[s] > 0 => ring[s % Ring] = orders[s]
         /\ orders[s] = 0 => \/ ring[s % Ring] = 0
                             \/ \E k \in Seconds : /\ k < s /\ (s - k) % Ring = 0
                                                   /\ ring[s % Ring] = orders[k]
         /\ ring[s % Ring] \in Nat /\ orders[s] \in Nat
<1>1. /\ s \in Nat /\ now \in Nat /\ Ring \in Nat \ {0} /\ s % Ring \in 0 .. Ring - 1
  BY SecondsAreNat DEF TPSInv, RateTypeOK
<1>2. orders[s] \in Nat /\ ring[s % Ring] \in Nat  BY <1>1 DEF TPSInv, RateTypeOK
<1>3. HoldsLast(s % Ring)  BY <1>1 DEF TPSInv
<1>4. CASE ring[s % Ring] = 0 /\ \A r \in Seconds : r % Ring = s % Ring => orders[r] = 0
  BY <1>2, <1>4
<1>5. CASE \E r \in Seconds : /\ r % Ring = s % Ring /\ ring[s % Ring] = orders[r] /\ orders[r] > 0
                              /\ \A q \in Seconds : q % Ring = s % Ring /\ q > r => orders[q] = 0
  <2>1. PICK r \in Seconds : /\ r % Ring = s % Ring /\ ring[s % Ring] = orders[r] /\ orders[r] > 0
                             /\ \A q \in Seconds : q % Ring = s % Ring /\ q > r => orders[q] = 0
    BY <1>5
  <2>2. r \in Nat /\ orders[r] \in Nat  BY SecondsAreNat DEF TPSInv
  <2>3. r <= now
    <3>1. lastSec \in {0} \cup Seconds  BY DEF TPSInv, RateTypeOK
    <3>2. lastSec \in Nat  BY <3>1, SecondsAreNat
    <3>3. lastSec <= now  BY DEF TPSInv
    <3>4. r > lastSec => orders[r] = 0  BY DEF TPSInv
    <3>5. ~(r > lastSec)  BY <2>1, <3>4
    <3> QED  BY <1>1, <2>2, <3>2, <3>3, <3>5
  <2>4. ~(r > s)
    <3> SUFFICES ASSUME r > s PROVE FALSE  OBVIOUS
    <3>1. s <= r /\ r < s + Ring  BY <1>1, <2>2, <2>3
    <3>2. s = r  BY <1>1, <2>1, <2>2, <3>1, SamePlace
    <3> QED  BY <1>1, <3>2
  <2>5. CASE r = s  BY <1>2, <2>1, <2>5
  <2>6. CASE r < s
    <3>1. orders[s] = 0  BY <2>1, <2>6, <1>1, <2>2
    <3>2. r <= s /\ r % Ring = s % Ring  BY <1>1, <2>1, <2>2, <2>6
    <3>3. (s - r) % Ring = 0  BY <1>1, <2>2, <3>2, TurnsApart
    <3> QED  BY <1>2, <2>1, <2>6, <3>1, <3>3
  <2> QED  BY <1>1, <2>2, <2>4, <2>5, <2>6
<1> QED  BY <1>3, <1>4, <1>5 DEF HoldsLast

\* At the start no bucket and no second has orders.
LEMMA TPSInvAtInit == RateInit => TPSInv
<1> SUFFICES ASSUME RateInit PROVE TPSInv  OBVIOUS
<1>1. RateTypeOK  BY RateTypesAtInit
<1>2. /\ ring = [i \in 0 .. Ring - 1 |-> 0] /\ orders = [s \in Seconds |-> 0]
      /\ lastSec = 0 /\ now = Ring
  BY DEF RateInit
<1>3. \A i \in 0 .. Ring - 1 : HoldsLast(i)  BY <1>2 DEF HoldsLast
<1>4. lastSec <= now  BY <1>2, RateAssumption
<1>5. orders \in [Seconds -> Nat] /\ \A s \in Seconds : orders[s] = 0  BY <1>2
<1> QED  BY <1>1, <1>2, <1>3, <1>4, <1>5 DEF TPSInv

\* An order goes to the bucket of the present second, after whatever was left
\* there from a turn ago is dropped.
LEMMA RecordKeepsTPSInv ==
  ASSUME TPSInv, RecordTPS, UNCHANGED now, RateTypeOK'
  PROVE  TPSInv'
<1> DEFINE b == now % Ring
<1>01. now \in Seconds /\ lastSec \in {0} \cup Seconds  BY DEF TPSInv, RateTypeOK
<1>1. now \in Seconds /\ now \in Nat /\ b \in 0 .. Ring - 1 /\ lastSec \in Nat /\ now # 0
  <2>1. now \in Nat /\ now > 0 /\ lastSec \in Nat  BY <1>01, SecondsAreNat
  <2>2. now # 0  BY <2>1
  <2> QED  BY <1>01, <2>1, <2>2, SecondsAreNat
<1>2. /\ ring' = [ring EXCEPT ![b] = bucketOf(now) + 1]
      /\ lastSec' = now /\ orders' = [orders EXCEPT ![now] = @ + 1]
  BY DEF RecordTPS
<1>3. orders[now] \in Nat /\ ring[b] \in Nat /\ ring \in [0 .. Ring - 1 -> Nat] /\ orders \in [Seconds -> Nat]
  BY <1>1 DEF TPSInv, RateTypeOK
<1>4. bucketOf(now) = orders[now]
  <2>1. CASE lastSec = now
    <3>1. orders[now] > 0 /\ now <= now /\ now < now + Ring  BY <1>1, <2>1, SecondsAreNat DEF TPSInv
    <3>2. ring[b] = orders[now]  BY <1>1, <3>1, CoveredSecond
    <3> QED  BY <2>1, <3>2 DEF bucketOf
  <2>2. CASE lastSec # now
    <3>1. now > lastSec  BY <1>1, <2>2 DEF TPSInv
    <3>2. orders[now] = 0  BY <1>1, <3>1 DEF TPSInv
    <3> QED  BY <2>2, <3>2 DEF bucketOf
  <2> QED  BY <2>1, <2>2
<1>5. /\ ring'[b] = orders[now] + 1 /\ orders'[now] = orders[now] + 1
      /\ \A i \in 0 .. Ring - 1 : i # b => ring'[i] = ring[i]
      /\ \A s \in Seconds : s # now => orders'[s] = orders[s]
  BY <1>1, <1>2, <1>3, <1>4
<1>6. \A s \in Seconds : s > now => orders[s] = 0
  <2> TAKE s \in Seconds
  <2> HAVE s > now
  <2>1. s > lastSec  BY <1>1, SecondsAreNat DEF TPSInv
  <2> QED  BY <2>1 DEF TPSInv
<1>7. orders' \in [Seconds -> Nat]  BY <1>1, <1>2, <1>3
<1> HIDE DEF b
<1>8. ASSUME NEW i \in 0 .. Ring - 1 PROVE HoldsLast(i)'
  <2>1. CASE i = b
    <3>2. now % Ring = i /\ ring'[i] = orders'[now]  BY <1>5, <2>1 DEF b
    <3>3. orders'[now] > 0  BY <1>3, <1>5
    <3>4. ASSUME NEW r \in Seconds, r > now PROVE orders'[r] = 0
      <4>1. r # now  BY <1>1, <3>4
      <4> QED  BY <1>5, <1>6, <3>4, <4>1
    <3>1. /\ now % Ring = i /\ ring'[i] = orders'[now] /\ orders'[now] > 0
          /\ \A r \in Seconds : r % Ring = i /\ r > now => orders'[r] = 0
      BY <3>2, <3>3, <3>4
    <3> QED  BY <1>1, <3>1 DEF HoldsLast
  <2>2. CASE i # b
    <3>1. \A s \in Seconds : s % Ring = i => orders'[s] = orders[s]  BY <1>5, <2>2 DEF b
    <3>2. ring'[i] = ring[i] /\ HoldsLast(i)  BY <1>5, <2>2 DEF TPSInv
    <3> QED  BY <3>1, <3>2 DEF HoldsLast
  <2> QED  BY <2>1, <2>2
<1>9. /\ lastSec' # 0 => orders'[lastSec'] > 0
      /\ lastSec' <= now' /\ \A s \in Seconds : s > lastSec' => orders'[s] = 0
  <2>1. orders'[now] > 0  BY <1>3, <1>5
  <2>2. ASSUME NEW s \in Seconds, s > now PROVE orders'[s] = 0
    <3>1. s # now  BY <1>1, <2>2
    <3> QED  BY <1>5, <1>6, <2>2, <3>1
  <2>3. lastSec' = now /\ now' = now /\ now <= now  BY <1>1, <1>2
  <2> QED  BY <2>1, <2>2, <2>3
<1> QED  BY <1>7, <1>8, <1>9 DEF TPSInv

\* Every step keeps the ring's invariant.
LEMMA TPSInvIsKept == TPSInv /\ [RateNext]_rateVars => TPSInv'
<1> SUFFICES ASSUME TPSInv, [RateNext]_rateVars PROVE TPSInv'  OBVIOUS
<1>0. RateTypeOK'  BY RateTypesAreKept DEF TPSInv
<1>1. ASSUME NEW l \in Latencies, ProcessEvent(l) PROVE TPSInv'
  BY <1>0, <1>1, RecordKeepsTPSInv DEF ProcessEvent
\* Steps that record nothing.
<1>2. ASSUME UNCHANGED tpsVars, now' = now \/ now' = now + 1 PROVE TPSInv'
  <2>1. ring' = ring /\ lastSec' = lastSec /\ orders' = orders  BY <1>2 DEF tpsVars
  <2>2. lastSec' <= now'
    <3>1. lastSec \in Nat /\ now \in Nat /\ lastSec <= now  BY SecondsAreNat DEF TPSInv, RateTypeOK
    <3> QED  BY <1>2, <2>1, <3>1
  <2> QED  BY <1>0, <2>1, <2>2 DEF TPSInv, HoldsLast
<1>3. CASE Advance  BY <1>2, <1>3 DEF Advance
<1>4. CASE Clock  BY <1>2, <1>4 DEF Clock
<1>5. CASE UNCHANGED rateVars  BY <1>2, <1>5 DEF rateVars
<1> QED  BY <1>1, <1>3, <1>4, <1>5 DEF RateNext

\* The bucket of a time before the first second, while the ring covers it.
LEMMA EarlyBucket ==
  ASSUME TPSInv, NEW s \in Nat, s \notin Seconds, s <= now, now < s + Ring
  PROVE  ring[s % Ring] = 0
<1>1. /\ now \in Nat /\ Ring \in Nat \ {0} /\ s % Ring \in 0 .. Ring - 1
  BY SecondsAreNat DEF TPSInv, RateTypeOK
<1>2. HoldsLast(s % Ring)  BY <1>1 DEF TPSInv
<1>3. SUFFICES ASSUME NEW r \in Seconds, r % Ring = s % Ring, orders[r] > 0 PROVE FALSE
  BY <1>2 DEF HoldsLast
<1>4. r \in Nat /\ now \in Seconds  BY SecondsAreNat DEF TPSInv, RateTypeOK
<1>5. r <= now
  <2>1. lastSec \in {0} \cup Seconds  BY DEF TPSInv, RateTypeOK
  <2>2. lastSec \in Nat  BY <2>1, SecondsAreNat
  <2>3. lastSec <= now  BY DEF TPSInv
  <2>4. r > lastSec => orders[r] = 0  BY DEF TPSInv
  <2>5. ~(r > lastSec)  BY <1>3, <2>4
  <2> QED  BY <1>1, <1>4, <2>2, <2>3, <2>5
<1>6. s < r
  <2>1. Ring \in Nat /\ MaxSeconds \in Nat  BY RateAssumption
  <2>2. r >= Ring /\ now <= Ring + MaxSeconds  BY <1>4, <2>1 DEF Seconds
  <2>3. ~(s >= Ring)  BY <1>1, <2>1, <2>2 DEF Seconds
  <2> QED  BY <1>1, <1>4, <2>1, <2>2, <2>3
<1>7. s <= r /\ r < s + Ring  BY <1>1, <1>4, <1>5, <1>6
<1>8. s = r  BY <1>1, <1>3, <1>4, <1>7, SamePlace
<1> QED  BY <1>4, <1>6, <1>8

\* The seconds of the current TPS.
LEMMA SmoothedSeconds ==
  ASSUME TPSInv
  PROVE  /\ IsFiniteSet(smoothed)
         /\ \A s \in smoothed : s \in Nat /\ s <= now /\ now < s + Ring
<1>1. now \in Nat /\ Ring \in Nat /\ Smooth \in Nat /\ Ring > Smooth /\ now >= Ring
  <2>1. now \in Seconds  BY DEF TPSInv, RateTypeOK
  <2> QED  BY <2>1, SecondsAreNat, RateAssumption
<1>2. IsFiniteSet(smoothed)
  <2> DEFINE S == 1 .. Smooth
             f == [i \in S |-> now - i]
  <2>1. IsFiniteSet(S)  BY <1>1, FS_Interval
  <2>2. {f[i] : i \in S} = smoothed  BY DEF smoothed
  <2>3. DOMAIN f = S  OBVIOUS
  <2> HIDE DEF f, S
  <2>4. IsFiniteSet({f[i] : i \in S})  BY <2>1, <2>3, ImageIsFinite
  <2> QED  BY <2>2, <2>4
<1>3. ASSUME NEW s \in smoothed PROVE s \in Nat /\ s <= now /\ now < s + Ring
  <2>1. PICK i \in 1 .. Smooth : s = now - i  BY DEF smoothed
  <2> QED  BY <1>1, <2>1
<1> QED  BY <1>2, <1>3

\* The greatest of the counts a bucket may still hold.
LEMMA GreatestBefore ==
  ASSUME TPSInv, NEW s \in Seconds
  PROVE  /\ Max(turnsBefore(s)) \in Nat /\ \A c \in turnsBefore(s) : c <= Max(turnsBefore(s))
<1> DEFINE K == {k \in Seconds : k < s /\ (s - k) % Ring = 0}
<1>1. IsFiniteSet(K)  BY SecondsAreNat, FS_Subset
<1>2. turnsBefore(s) = {0} \cup {orders[k] : k \in K}  BY DEF turnsBefore
<1>3. \A k \in K : orders[k] \in Nat  BY DEF TPSInv
<1> DEFINE g == [k \in K |-> orders[k]]
<1>4. {g[k] : k \in K} = {orders[k] : k \in K} /\ DOMAIN g = K  OBVIOUS
<1> HIDE DEF K, g
<1>5. IsFiniteSet({orders[k] : k \in K})
  <2>1. IsFiniteSet({g[k] : k \in K})  BY <1>1, <1>4, ImageIsFinite
  <2> QED  BY <1>4, <2>1
<1>6. IsFiniteSet(turnsBefore(s))
  <2>1. IsFiniteSet({orders[k] : k \in K} \cup {0})  BY <1>5, FS_AddElement
  <2> QED  BY <1>2, <2>1
<1>7. turnsBefore(s) \subseteq Nat /\ turnsBefore(s) # {}  BY <1>2, <1>3
<1>8. turnsBefore(s) \in SUBSET Int  BY <1>7
<1>9. Max(turnsBefore(s)) \in turnsBefore(s) /\ \A c \in turnsBefore(s) : c <= Max(turnsBefore(s))
  BY <1>6, <1>7, <1>8, MaxOf
<1> QED  BY <1>7, <1>9

\* The current TPS and the orders it stands for.
LEMMA CurrentTPSBounds ==
  ASSUME TPSInv
  PROVE  /\ GetCurrentTPS >= countedOrders
         /\ GetCurrentTPS - countedOrders <= Sum([s \in idleSeconds |-> Max(turnsBefore(s))])
<1> DEFINE f == [s \in smoothed |-> ring[s % Ring]]
           g == [s \in idleSeconds |-> Max(turnsBefore(s))]
           A == smoothed \cap Seconds
           B == smoothed \ Seconds
           D == A \ idleSeconds
<1>1. /\ GetCurrentTPS = SumFunctionOnSet(f, A \cup B)
      /\ countedOrders = SumFunctionOnSet(orders, A)
      /\ Sum(g) = SumFunctionOnSet(g, idleSeconds)
  <2>1. DOMAIN f = A \cup B /\ DOMAIN g = idleSeconds  OBVIOUS
  <2> QED  BY <2>1 DEF GetCurrentTPS, Sum, countedOrders
<1>2. IsFiniteSet(A) /\ IsFiniteSet(B) /\ A \cap B = {}  BY SmoothedSeconds, FS_Subset
<1>3. idleSeconds \subseteq A /\ A = D \cup idleSeconds /\ D \cap idleSeconds = {}  BY DEF idleSeconds
<1>4. IsFiniteSet(D) /\ IsFiniteSet(idleSeconds)  BY <1>2, <1>3, FS_Subset
<1>5. ASSUME NEW s \in A
      PROVE  /\ f[s] \in Nat /\ orders[s] \in Nat /\ orders[s] <= f[s]
             /\ s \in D => f[s] = orders[s]
             /\ s \in idleSeconds => orders[s] = 0 /\ g[s] \in Nat /\ f[s] <= g[s]
  <2>1. s \in Seconds /\ s \in smoothed /\ s <= now /\ now < s + Ring /\ f[s] = ring[s % Ring]
    BY SmoothedSeconds
  <2>2. f[s] \in Nat /\ orders[s] \in Nat  BY <2>1, CoveredSecond
  <2>3. CASE orders[s] > 0
    <3>1. f[s] = orders[s]  BY <2>1, <2>3, CoveredSecond
    <3>2. s \notin idleSeconds  BY <2>2, <2>3 DEF idleSeconds
    <3> QED  BY <2>2, <3>1, <3>2
  <2>4. CASE orders[s] = 0
    <3>1. s \in idleSeconds  BY <2>1, <2>4 DEF idleSeconds
    <3>2. f[s] \in turnsBefore(s)
      <4>1. \/ f[s] = 0
            \/ \E k \in Seconds : k < s /\ (s - k) % Ring = 0 /\ f[s] = orders[k]
        BY <2>1, <2>4, CoveredSecond
      <4> QED  BY <4>1 DEF turnsBefore
    <3>3. g[s] \in Nat /\ f[s] <= g[s]  BY <2>1, <3>1, <3>2, GreatestBefore
    <3> QED  BY <2>2, <2>4, <3>1, <3>3
  <2> QED  BY <2>2, <2>3, <2>4
<1>6. \A s \in B : f[s] = 0  BY SmoothedSeconds, EarlyBucket
<1> HIDE DEF f, g, A, B, D
<1>7. GetCurrentTPS = SumFunctionOnSet(f, A) /\ SumFunctionOnSet(f, A) \in Nat
  <2>1. \A s \in A \cup B : f[s] \in Int  BY <1>5, <1>6
  <2>2. SumFunctionOnSet(f, A \cup B) = SumFunctionOnSet(f, A) + SumFunctionOnSet(f, B)
    BY <1>2, <2>1, SumOfParts
  <2>3. SumFunctionOnSet(f, B) = 0  BY <1>2, <1>6, SumOfZeros
  <2>4. SumFunctionOnSet(f, A) \in Nat  BY <1>2, <1>5, SumIsNat
  <2> QED  BY <1>1, <2>2, <2>3, <2>4
<1>8. SumFunctionOnSet(orders, A) <= SumFunctionOnSet(f, A)
  <2>1. \A s \in A : orders[s] \in Int /\ f[s] \in Int /\ orders[s] <= f[s]  BY <1>5
  <2> QED  BY <1>2, <2>1, SumMono
<1>9. SumFunctionOnSet(orders, A) \in Nat  BY <1>2, <1>5, SumIsNat
<1>10. SumFunctionOnSet(f, A) = SumFunctionOnSet(f, D) + SumFunctionOnSet(f, idleSeconds)
  <2>1. \A s \in D \cup idleSeconds : f[s] \in Int  BY <1>3, <1>5
  <2>2. SumFunctionOnSet(f, D \cup idleSeconds) = SumFunctionOnSet(f, D) + SumFunctionOnSet(f, idleSeconds)
    BY <1>3, <1>4, <2>1, SumOfParts
  <2> QED  BY <1>3, <2>2
<1>11. SumFunctionOnSet(orders, A) = SumFunctionOnSet(orders, D) + 0
  <2>1. \A s \in D \cup idleSeconds : orders[s] \in Int  BY <1>3, <1>5
  <2>2. SumFunctionOnSet(orders, D \cup idleSeconds)
          = SumFunctionOnSet(orders, D) + SumFunctionOnSet(orders, idleSeconds)
    BY <1>3, <1>4, <2>1, SumOfParts
  <2>3. SumFunctionOnSet(orders, idleSeconds) = 0
    <3>1. \A s \in idleSeconds : orders[s] = 0  BY <1>3, <1>5
    <3> QED  BY <1>4, <3>1, SumOfZeros
  <2> QED  BY <1>3, <2>2, <2>3
<1>12. SumFunctionOnSet(f, D) = SumFunctionOnSet(orders, D)
  <2>1. \A s \in D : f[s] \in Int /\ f[s] = orders[s]  BY <1>3, <1>5
  <2> QED  BY <1>4, <2>1, SumEqual
<1>13. SumFunctionOnSet(f, idleSeconds) <= SumFunctionOnSet(g, idleSeconds)
  <2>1. \A s \in idleSeconds : f[s] \in Int /\ g[s] \in Int /\ f[s] <= g[s]  BY <1>3, <1>5
  <2> QED  BY <1>4, <2>1, SumMono
<1>14. /\ SumFunctionOnSet(f, D) \in Nat /\ SumFunctionOnSet(f, idleSeconds) \in Nat
       /\ SumFunctionOnSet(g, idleSeconds) \in Nat
  <2>1. \A s \in D : f[s] \in Nat  BY <1>3, <1>5
  <2>2. \A s \in idleSeconds : f[s] \in Nat /\ g[s] \in Nat  BY <1>3, <1>5
  <2> QED  BY <1>4, <2>1, <2>2, SumIsNat
<1>15. Sum(g) = SumFunctionOnSet(g, idleSeconds)  BY <1>1
<1>16. /\ GetCurrentTPS >= countedOrders /\ GetCurrentTPS - countedOrders <= Sum(g)
  BY <1>1, <1>7, <1>8, <1>9, <1>10, <1>11, <1>12, <1>13, <1>14
<1> QED  BY <1>16 DEF g

\* The peak and the seconds the ring covers.
LEMMA PeakBounds ==
  ASSUME TPSInv
  PROVE  /\ GetPeakTPS \in {0} \cup {orders[s] : s \in Seconds}
         /\ \A s \in Seconds : now - s < Ring => orders[s] <= GetPeakTPS
<1> DEFINE V == {ring[i] : i \in DOMAIN ring}
<1>1. /\ DOMAIN ring = 0 .. Ring - 1 /\ Ring \in Nat \ {0} /\ now \in Nat
      /\ \A i \in 0 .. Ring - 1 : ring[i] \in Nat
  BY SecondsAreNat DEF TPSInv, RateTypeOK
<1>2. IsFiniteSet(V)
  <2>1. IsFiniteSet(0 .. Ring - 1)  BY <1>1, FS_Interval
  <2> QED  BY <1>1, <2>1, ImageIsFinite
<1>3. V \in SUBSET Int /\ V # {}  BY <1>1
<1>4. GetPeakTPS = Max(V)  BY DEF GetPeakTPS
<1>5. Max(V) \in V /\ \A v \in V : v <= Max(V)
  <2> HIDE DEF V
  <2> QED  BY <1>2, <1>3, MaxOf
<1>6. PICK i \in 0 .. Ring - 1 : GetPeakTPS = ring[i]  BY <1>1, <1>4, <1>5
<1>7. \A j \in 0 .. Ring - 1 : ring[j] <= GetPeakTPS  BY <1>1, <1>4, <1>5
<1>8. GetPeakTPS \in {0} \cup {orders[s] : s \in Seconds}  BY <1>6 DEF TPSInv, HoldsLast
<1>9. ASSUME NEW s \in Seconds, now - s < Ring PROVE orders[s] <= GetPeakTPS
  <2>1. s \in Nat /\ s % Ring \in 0 .. Ring - 1 /\ GetPeakTPS \in Nat /\ orders[s] \in Nat
    BY <1>1, <1>6, SecondsAreNat DEF TPSInv
  <2>2. CASE s <= now
    <3>1. now < s + Ring  BY <1>1, <1>9, <2>1
    <3>2. orders[s] > 0 => ring[s % Ring] = orders[s]  BY <2>2, <3>1, CoveredSecond
    <3>3. ring[s % Ring] <= GetPeakTPS  BY <1>7, <2>1
    <3> QED  BY <2>1, <3>2, <3>3
  <2>3. CASE s > now
    <3>1. lastSec \in {0} \cup Seconds  BY DEF TPSInv, RateTypeOK
    <3>2. lastSec \in Nat /\ lastSec <= now  BY <3>1, SecondsAreNat DEF TPSInv
    <3>3. s > lastSec  BY <1>1, <2>1, <2>3, <3>2
    <3>4. orders[s] = 0  BY <3>3 DEF TPSInv
    <3> QED  BY <2>1, <3>4
  <2> QED  BY <1>1, <2>1, <2>2, <2>3
<1> QED  BY <1>8, <1>9

\* For every ring and smoothing, however the clock and the orders interleave:
\* the current TPS is never below the orders of the last seconds and errs only
\* by counts idle seconds left from whole turns ago; the peak is the count of
\* a second there was, and no covered second was better
\* (tps_counter.go:25-73).
THEOREM TPSAlwaysErrsByIdleSeconds == RateSpec => []TPSErrsByIdleSeconds
<1>1. TPSInv => TPSErrsByIdleSeconds
  BY CurrentTPSBounds, PeakBounds DEF TPSErrsByIdleSeconds
<1> QED  BY <1>1, TPSInvAtInit, TPSInvIsKept, PTL DEF RateSpec

\* The slot of every remembered turn holds what was recorded in it, every
\* other slot is empty, and every recorded latency is an observed one.
WindowInv ==
  /\ RateTypeOK
  /\ heard \in [0 .. MaxTurns -> [Latencies -> Nat]]
  /\ turn = turns % Slots
  /\ \A k \in 0 .. MaxTurns : k > turns => heard[k] = Empty
  /\ \A k \in recentTurns : slots[k % Slots] = heard[k]
  /\ \A i \in 0 .. Slots - 1 : slots[i] = Empty \/ \E k \in recentTurns : k % Slots = i
  /\ \A i \in 0 .. Slots - 1 : \A l \in Latencies : slots[i][l] > 0 => allTime[l] > 0

\* A fresh histogram.
LEMMA EmptyHistogram == Empty \in [Latencies -> Nat] /\ \A l \in Latencies : Empty[l] = 0
  BY DEF Empty

\* At the start every slot is empty.
LEMMA WindowInvAtInit == RateInit => WindowInv
<1> SUFFICES ASSUME RateInit PROVE WindowInv  OBVIOUS
<1>1. RateTypeOK  BY RateTypesAtInit
<1>2. /\ slots = [i \in 0 .. Slots - 1 |-> Empty] /\ turn = 0 /\ turns = 0
      /\ heard = [k \in 0 .. MaxTurns |-> Empty]
  BY DEF RateInit
<1>3. Slots \in Nat \ {0} /\ MaxTurns \in Nat  BY RateAssumption
<1>4. 0 % Slots = 0  BY <1>3
<1>5. heard \in [0 .. MaxTurns -> [Latencies -> Nat]]  BY <1>2, EmptyHistogram
<1>6. \A k \in recentTurns : slots[k % Slots] = heard[k]
  BY <1>2, <1>3, NextPlace DEF recentTurns
<1>7. \A i \in 0 .. Slots - 1 : slots[i] = Empty  BY <1>2
<1>8. \A i \in 0 .. Slots - 1 : \A l \in Latencies : ~(slots[i][l] > 0)  BY <1>7, EmptyHistogram
<1>9. \A k \in 0 .. MaxTurns : heard[k] = Empty  BY <1>2
<1> QED  BY <1>1, <1>2, <1>4, <1>5, <1>6, <1>7, <1>8, <1>9 DEF WindowInv

\* A latency goes to the slot of the present turn only.
LEMMA RecordKeepsWindowInv ==
  ASSUME WindowInv, NEW l \in Latencies, ProcessEvent(l), RateTypeOK'
  PROVE  WindowInv'
<1>1. /\ Slots \in Nat \ {0} /\ turns \in 0 .. MaxTurns /\ turns \in Nat /\ turn = turns % Slots
      /\ turn \in 0 .. Slots - 1 /\ MaxTurns \in Nat
  BY RateAssumption DEF WindowInv, RateTypeOK
<1>2. /\ slots' = [slots EXCEPT ![turn] = [slots[turn] EXCEPT ![l] = @ + 1]]
      /\ allTime' = [allTime EXCEPT ![l] = @ + 1]
      /\ heard' = [heard EXCEPT ![turns] = [heard[turns] EXCEPT ![l] = @ + 1]]
      /\ turn' = turn /\ turns' = turns
  BY DEF ProcessEvent
<1>3. /\ slots \in [0 .. Slots - 1 -> [Latencies -> Nat]] /\ allTime \in [Latencies -> Nat]
      /\ heard \in [0 .. MaxTurns -> [Latencies -> Nat]]
  BY DEF WindowInv, RateTypeOK
<1>4. recentTurns' = recentTurns  BY <1>2 DEF recentTurns
<1>5. turns \in recentTurns  BY <1>1 DEF recentTurns
<1>6. slots[turn] = heard[turns]  BY <1>1, <1>5 DEF WindowInv
<1>7. heard' \in [0 .. MaxTurns -> [Latencies -> Nat]]
  <2>1. heard[turns] \in [Latencies -> Nat] /\ heard[turns][l] \in Nat  BY <1>1, <1>3
  <2>2. [heard[turns] EXCEPT ![l] = @ + 1] \in [Latencies -> Nat]  BY <2>1
  <2> QED  BY <1>2, <1>3, <2>2
<1>8. \A k \in 0 .. MaxTurns : k > turns' => heard'[k] = Empty
  <2> SUFFICES ASSUME NEW k \in 0 .. MaxTurns, k > turns PROVE heard'[k] = Empty  BY <1>2
  <2>1. k # turns  BY <1>1
  <2>2. heard[k] = Empty  BY DEF WindowInv
  <2> QED  BY <1>2, <1>3, <2>1, <2>2
<1>9. ASSUME NEW k \in recentTurns PROVE slots'[k % Slots] = heard'[k]
  <2>1. k \in Nat /\ k <= turns /\ turns < k + Slots /\ k \in 0 .. MaxTurns  BY <1>1 DEF recentTurns
  <2>2. k % Slots \in 0 .. Slots - 1  BY <1>1, <2>1, NextPlace
  <2>3. slots[k % Slots] = heard[k]  BY DEF WindowInv
  <2>4. CASE k = turns
    <3>1. slots'[turn] = [slots[turn] EXCEPT ![l] = @ + 1]  BY <1>1, <1>2, <1>3
    <3>2. heard'[turns] = [heard[turns] EXCEPT ![l] = @ + 1]  BY <1>1, <1>2, <1>3
    <3> QED  BY <1>1, <1>6, <2>4, <3>1, <3>2
  <2>5. CASE k # turns
    <3>1. k % Slots # turn
      <4> SUFFICES ASSUME k % Slots = turns % Slots PROVE FALSE  BY <1>1
      <4> QED  BY <1>1, <2>1, <2>5, SamePlace
    <3>2. slots'[k % Slots] = slots[k % Slots]  BY <1>2, <1>3, <2>2, <3>1
    <3>3. heard'[k] = heard[k]  BY <1>2, <1>3, <2>1, <2>5
    <3> QED  BY <2>3, <3>2, <3>3
  <2> QED  BY <2>4, <2>5
<1>10. ASSUME NEW i \in 0 .. Slots - 1 PROVE slots'[i] = Empty \/ \E k \in recentTurns : k % Slots = i
  <2>1. CASE i = turn  BY <1>1, <1>5, <2>1
  <2>2. CASE i # turn
    <3>1. slots'[i] = slots[i]  BY <1>2, <1>3, <2>2
    <3> QED  BY <3>1 DEF WindowInv
  <2> QED  BY <2>1, <2>2
<1>11. ASSUME NEW i \in 0 .. Slots - 1, NEW m \in Latencies, slots'[i][m] > 0 PROVE allTime'[m] > 0
  <2>1. allTime[m] \in Nat /\ allTime[l] \in Nat  BY <1>3
  <2>2. CASE m = l  BY <1>2, <1>3, <2>1, <2>2
  <2>3. CASE m # l
    <3>1. allTime'[m] = allTime[m]  BY <1>2, <1>3, <2>3
    <3>2. slots'[i][m] = slots[i][m]
      <4>1. slots[turn] \in [Latencies -> Nat]  BY <1>1, <1>3
      <4>2. [slots[turn] EXCEPT ![l] = @ + 1][m] = slots[turn][m]  BY <2>3, <4>1
      <4>3. CASE i = turn  BY <1>1, <1>2, <1>3, <4>2, <4>3
      <4>4. CASE i # turn  BY <1>2, <1>3, <4>4
      <4> QED  BY <4>3, <4>4
    <3> QED  BY <1>11, <3>1, <3>2 DEF WindowInv
  <2> QED  BY <2>2, <2>3
<1>12. turn' = turns' % Slots  BY <1>1, <1>2
<1> QED  BY <1>4, <1>7, <1>8, <1>9, <1>10, <1>11, <1>12 DEF WindowInv

\* A turn empties the slot it enters, that of the turn that is forgotten.
LEMMA AdvanceKeepsWindowInv ==
  ASSUME WindowInv, Advance, RateTypeOK'
  PROVE  WindowInv'
<1> DEFINE b == turns' % Slots
<1>1. /\ Slots \in Nat \ {0} /\ turns \in 0 .. MaxTurns /\ turns \in Nat /\ turn = turns % Slots
      /\ turns' = turns + 1 /\ turns' \in 0 .. MaxTurns /\ turns' \in Nat /\ MaxTurns \in Nat
  BY RateAssumption DEF WindowInv, RateTypeOK, Advance
<1>2. turn' = b /\ nextSlot = b
  <2>1. ((turns % Slots) + 1) % Slots = (turns + 1) % Slots  BY <1>1, NextPlace
  <2>2. nextSlot = (turns + 1) % Slots  BY <1>1, <2>1 DEF nextSlot
  <2> QED  BY <1>1, <2>2 DEF Advance
<1>3. slots' = [slots EXCEPT ![b] = Empty] /\ allTime' = allTime /\ heard' = heard
  BY <1>2 DEF Advance, cleared
<1>4. slots \in [0 .. Slots - 1 -> [Latencies -> Nat]] /\ b \in 0 .. Slots - 1
  BY <1>1, NextPlace DEF WindowInv, RateTypeOK
<1>5. slots'[b] = Empty /\ \A i \in 0 .. Slots - 1 : i # b => slots'[i] = slots[i]
  BY <1>3, <1>4
<1>6. \A k \in 0 .. MaxTurns : k > turns' => heard'[k] = Empty
  BY <1>1, <1>3 DEF WindowInv
<1>7. ASSUME NEW k \in recentTurns' PROVE slots'[k % Slots] = heard'[k]
  <2>1. k \in Nat /\ k <= turns' /\ turns' < k + Slots /\ k \in 0 .. MaxTurns
    BY <1>1 DEF recentTurns
  <2>2. k % Slots \in 0 .. Slots - 1  BY <1>1, <2>1, NextPlace
  <2>3. CASE k = turns'
    <3>1. k > turns  BY <1>1, <2>3
    <3>2. heard[k] = Empty  BY <2>1, <3>1 DEF WindowInv
    <3> QED  BY <1>3, <1>5, <2>3, <3>2
  <2>4. CASE k # turns'
    <3>1. k % Slots # b
      <4> SUFFICES ASSUME k % Slots = turns' % Slots PROVE FALSE  OBVIOUS
      <4> QED  BY <1>1, <2>1, <2>4, SamePlace
    <3>2. k \in recentTurns  BY <1>1, <2>1, <2>4 DEF recentTurns
    <3>3. slots[k % Slots] = heard[k]  BY <3>2 DEF WindowInv
    <3> QED  BY <1>3, <1>5, <2>2, <3>1, <3>3
  <2> QED  BY <2>3, <2>4
<1>8. ASSUME NEW i \in 0 .. Slots - 1
      PROVE slots'[i] = Empty \/ \E k \in recentTurns' : k % Slots = i
  <2>1. CASE i = b  BY <1>5, <2>1
  <2>2. CASE i # b
    <3>1. slots'[i] = slots[i]  BY <1>5, <2>2
    <3>2. ASSUME NEW k \in recentTurns, k % Slots = i PROVE k \in recentTurns'
      <4>1. k \in Nat /\ k <= turns /\ turns < k + Slots  BY <1>1 DEF recentTurns
      <4>2. k + Slots # turns'
        <5> SUFFICES ASSUME k + Slots = turns' PROVE FALSE  OBVIOUS
        <5>1. (k + Slots) % Slots = k % Slots  BY <1>1, <4>1, NextPlace
        <5> QED  BY <2>2, <3>2, <5>1
      <4> QED  BY <1>1, <4>1, <4>2 DEF recentTurns
    <3> QED  BY <3>1, <3>2 DEF WindowInv
  <2> QED  BY <2>1, <2>2
<1>9. ASSUME NEW i \in 0 .. Slots - 1, NEW m \in Latencies, slots'[i][m] > 0 PROVE allTime'[m] > 0
  <2>1. CASE i = b
    <3>1. slots'[i][m] = 0  BY <1>5, <2>1, EmptyHistogram
    <3> QED  BY <1>9, <3>1
  <2>2. CASE i # b  BY <1>3, <1>5, <1>9, <2>2 DEF WindowInv
  <2> QED  BY <2>1, <2>2
<1>10. heard' \in [0 .. MaxTurns -> [Latencies -> Nat]]  BY <1>3 DEF WindowInv
<1> QED  BY <1>2, <1>6, <1>7, <1>8, <1>9, <1>10 DEF WindowInv

\* Every step keeps the window's invariant.
LEMMA WindowInvIsKept == WindowInv /\ [RateNext]_rateVars => WindowInv'
<1> SUFFICES ASSUME WindowInv, [RateNext]_rateVars PROVE WindowInv'  OBVIOUS
<1>0. RateTypeOK'  BY RateTypesAreKept DEF WindowInv
<1>1. ASSUME NEW l \in Latencies, ProcessEvent(l) PROVE WindowInv'
  BY <1>0, <1>1, RecordKeepsWindowInv
<1>2. CASE Advance  BY <1>0, <1>2, AdvanceKeepsWindowInv
<1>3. ASSUME UNCHANGED latencyVars PROVE WindowInv'
  <2>1. /\ slots' = slots /\ turn' = turn /\ allTime' = allTime /\ heard' = heard /\ turns' = turns
    BY <1>3 DEF latencyVars
  <2>2. recentTurns' = recentTurns  BY <2>1 DEF recentTurns
  <2> QED  BY <1>0, <2>1, <2>2 DEF WindowInv
<1>4. CASE Clock  BY <1>3, <1>4 DEF Clock
<1>5. CASE UNCHANGED rateVars  BY <1>3, <1>5 DEF rateVars
<1> QED  BY <1>1, <1>2, <1>4, <1>5 DEF RateNext

\* Counts of latencies.
IsHistogram(h) == h \in [Latencies -> Nat]

\* The latencies upTo counts.
LatencyUpTo(l) == {k \in Latencies : k <= l}

\* A histogram's counts add up to numbers.
LEMMA CountsAreNat ==
  ASSUME NEW h, IsHistogram(h)
  PROVE  Sum(h) \in Nat /\ \A l : upTo(h, l) \in Nat
<1>1. IsFiniteSet(Latencies) /\ \A k \in Latencies : h[k] \in Nat
  BY RateAssumption DEF IsHistogram
<1>2. DOMAIN h = Latencies  BY DEF IsHistogram
<1>3. Sum(h) \in Nat  BY <1>1, <1>2, SumIsNat DEF Sum
<1>4. ASSUME NEW l PROVE upTo(h, l) \in Nat
  <2> DEFINE S == LatencyUpTo(l)
  <2>1. IsFiniteSet(S) /\ \A k \in S : h[k] \in Nat  BY <1>1, FS_Subset DEF LatencyUpTo
  <2>2. upTo(h, l) = SumFunctionOnSet(h, S)  BY DEF upTo, LatencyUpTo
  <2> HIDE DEF S
  <2>3. SumFunctionOnSet(h, S) \in Nat  BY <2>1, SumIsNat
  <2> QED  BY <2>2, <2>3
<1> QED  BY <1>3, <1>4

\* Up to the greatest latency there are all the values.
LEMMA UpToTheGreatest ==
  ASSUME NEW h, IsHistogram(h)
  PROVE  Max(Latencies) \in Latencies /\ upTo(h, Max(Latencies)) = Sum(h)
<1>1. Latencies \in SUBSET Int /\ IsFiniteSet(Latencies) /\ Latencies # {}  BY RateAssumption
<1>2. Max(Latencies) \in Latencies /\ \A y \in Latencies : y <= Max(Latencies)  BY <1>1, MaxOf
<1>3. LatencyUpTo(Max(Latencies)) = Latencies  BY <1>2 DEF LatencyUpTo
<1>4. upTo(h, Max(Latencies)) = SumFunctionOnSet(h, Latencies)  BY <1>3 DEF upTo, LatencyUpTo
<1>5. DOMAIN h = Latencies  BY DEF IsHistogram
<1> QED  BY <1>2, <1>4, <1>5 DEF Sum

\* The least latency that n values do not exceed is one of the values.
LEMMA LeastReached ==
  ASSUME NEW h, IsHistogram(h), NEW n \in Nat, 1 <= n, n <= Sum(h)
  PROVE  /\ Min(reached(h, n)) \in reached(h, n) /\ \A y \in reached(h, n) : Min(reached(h, n)) <= y
         /\ Min(reached(h, n)) \in Latencies /\ h[Min(reached(h, n))] > 0
<1> DEFINE R == reached(h, n)
           m == Min(R)
<1>1. /\ Latencies \subseteq Nat /\ IsFiniteSet(Latencies) /\ R \subseteq Latencies
      /\ \A k \in Latencies : h[k] \in Nat
  BY RateAssumption DEF reached, IsHistogram
<1>2. Max(Latencies) \in R  BY UpToTheGreatest DEF reached
<1>3. R \in SUBSET Int /\ IsFiniteSet(R) /\ R # {}
  <2> HIDE DEF R
  <2>1. IsFiniteSet(R)  BY <1>1, FS_Subset
  <2> QED  BY <1>1, <1>2, <2>1
<1>4. m \in R /\ \A y \in R : m <= y
  <2> HIDE DEF R
  <2> QED  BY <1>3, MinOf
<1>5. m \in Latencies /\ m \in Nat /\ upTo(h, m) >= n /\ h[m] \in Nat  BY <1>1, <1>4 DEF reached
<1> HIDE DEF m, R
<1>6. h[m] > 0
  <2> SUFFICES ASSUME h[m] = 0 PROVE FALSE  BY <1>5
  <2> DEFINE B == {k \in Latencies : k < m}
  <2>1. LatencyUpTo(m) = B \cup {m} /\ m \notin B /\ B \subseteq Latencies
    <3>1. \A k \in Latencies : k <= m <=> k < m \/ k = m  BY <1>1, <1>5
    <3>2. ~(m < m)  BY <1>5
    <3> QED  BY <1>5, <3>1, <3>2 DEF LatencyUpTo
  <2>2. IsFiniteSet(B) /\ \A k \in B \cup {m} : h[k] \in Int  BY <1>1, <1>5, <2>1, FS_Subset
  <2>3. upTo(h, m) = SumFunctionOnSet(h, LatencyUpTo(m))  BY DEF upTo, LatencyUpTo
  <2>4. \A k \in B : k < m  OBVIOUS
  <2>5. \A k \in Latencies : k < m => k \in B  OBVIOUS
  <2> HIDE DEF B
  <2>6. /\ SumFunctionOnSet(h, B \cup {m}) = h[m] + SumFunctionOnSet(h, B)
        /\ SumFunctionOnSet(h, B) \in Int
    BY <2>1, <2>2, SumAdds
  <2>7. SumFunctionOnSet(h, B) >= n  BY <1>5, <2>1, <2>3, <2>6
  <2>8. B # {}
    <3> SUFFICES ASSUME B = {} PROVE FALSE  OBVIOUS
    <3>1. SumFunctionOnSet(h, B) = 0  BY <2>2, SumOfZeros
    <3> QED  BY <2>7, <3>1
  <2>9. Max(B) \in B /\ \A y \in B : y <= Max(B)
    <3>1. B \in SUBSET Int  BY <1>1, <2>1
    <3> QED  BY <2>2, <2>8, <3>1, MaxOf
  <2>10. Max(B) \in Latencies /\ Max(B) \in Nat /\ Max(B) < m  BY <1>1, <2>1, <2>4, <2>9
  <2>11. LatencyUpTo(Max(B)) = B
    <3>1. ASSUME NEW k \in Latencies, k <= Max(B) PROVE k \in B  BY <1>1, <1>5, <2>5, <2>10, <3>1
    <3>2. \A k \in B : k \in Latencies /\ k <= Max(B)  BY <2>1, <2>9
    <3> QED  BY <3>1, <3>2 DEF LatencyUpTo
  <2>12. upTo(h, Max(B)) = SumFunctionOnSet(h, B)  BY <2>11 DEF upTo, LatencyUpTo
  <2>13. Max(B) \in R  BY <2>7, <2>10, <2>12 DEF R, reached
  <2>14. m <= Max(B)  BY <1>4, <2>13
  <2> QED  BY <1>5, <2>10, <2>14
<1> QED  BY <1>4, <1>5, <1>6 DEF m, R

\* How many of n values a percentile asks for.
wanted(n, p) == Max({(n * p) \div 100, 1})

\* It is at least one and at most all, and more for a higher percentile.
LEMMA WantedOf ==
  ASSUME NEW n \in Nat, n > 0
  PROVE  /\ \A p \in {50, 90, 99} : wanted(n, p) \in Nat /\ 1 <= wanted(n, p) /\ wanted(n, p) <= n
         /\ wanted(n, 50) <= wanted(n, 90) /\ wanted(n, 90) <= wanted(n, 99)
<1>1. /\ (n * 50) \div 100 \in Int /\ (n * 90) \div 100 \in Int /\ (n * 99) \div 100 \in Int
      /\ (n * 50) \div 100 <= (n * 90) \div 100 /\ (n * 90) \div 100 <= (n * 99) \div 100
      /\ (n * 99) \div 100 <= n
  OBVIOUS
<1>2. PICK a \in Int : a = (n * 50) \div 100  BY <1>1
<1>3. PICK b \in Int : b = (n * 90) \div 100  BY <1>1
<1>4. PICK c \in Int : c = (n * 99) \div 100  BY <1>1
<1>5. a <= b /\ b <= c /\ c <= n  BY <1>1, <1>2, <1>3, <1>4
<1>6. /\ wanted(n, 50) = IF a >= 1 THEN a ELSE 1
      /\ wanted(n, 90) = IF b >= 1 THEN b ELSE 1
      /\ wanted(n, 99) = IF c >= 1 THEN c ELSE 1
  BY <1>2, <1>3, <1>4, MaxMinOfTwo DEF wanted
<1> QED  BY <1>5, <1>6

\* A percentile in these terms.
LEMMA PercentileIs ==
  ASSUME NEW h, NEW p
  PROVE  Percentile(h, p) = IF Sum(h) = 0 THEN 0 ELSE Min(reached(h, wanted(Sum(h), p)))
BY DEF Percentile, wanted

\* A percentile is one of the values.
LEMMA PercentileIsAValue ==
  ASSUME NEW h, IsHistogram(h), Sum(h) # 0, NEW p \in {50, 90, 99}
  PROVE  Percentile(h, p) \in Latencies /\ h[Percentile(h, p)] > 0
<1>1. Sum(h) \in Nat /\ Sum(h) > 0
  <2>1. Sum(h) \in Nat  BY CountsAreNat
  <2> QED  BY <2>1
<1>2. /\ wanted(Sum(h), p) \in Nat /\ 1 <= wanted(Sum(h), p) /\ wanted(Sum(h), p) <= Sum(h)
  BY <1>1, WantedOf
<1>3. Percentile(h, p) = Min(reached(h, wanted(Sum(h), p)))  BY PercentileIs
<1> QED  BY <1>2, <1>3, LeastReached

\* Percentiles are in order.
LEMMA ReachedShrinks ==
  ASSUME NEW h, IsHistogram(h), NEW n \in Nat, NEW o \in Nat, 1 <= n, n <= o, o <= Sum(h)
  PROVE  Min(reached(h, n)) <= Min(reached(h, o))
<1>1. n <= Sum(h) /\ 1 <= o /\ Sum(h) \in Nat
  <2>1. Sum(h) \in Nat  BY CountsAreNat
  <2> QED  BY <2>1
<1>2. Min(reached(h, o)) \in reached(h, o)  BY <1>1, LeastReached
<1>3. Min(reached(h, o)) \in reached(h, n)
  <2>1. \A l : upTo(h, l) \in Nat  BY CountsAreNat
  <2>2. \A l : upTo(h, l) >= o => upTo(h, l) >= n  BY <2>1
  <2> QED  BY <1>2, <2>2 DEF reached
<1> QED  BY <1>1, <1>3, LeastReached

\* The three percentiles of a snapshot never cross.
LEMMA PercentilesAreInOrder ==
  ASSUME NEW h, IsHistogram(h)
  PROVE  Percentile(h, 50) <= Percentile(h, 90) /\ Percentile(h, 90) <= Percentile(h, 99)
<1>1. Sum(h) \in Nat  BY CountsAreNat
<1>2. CASE Sum(h) = 0
  <2>1. Percentile(h, 50) = 0 /\ Percentile(h, 90) = 0 /\ Percentile(h, 99) = 0
    BY <1>2, PercentileIs
  <2> QED  BY <2>1
<1>3. CASE Sum(h) # 0
  <2>1. Sum(h) > 0  BY <1>1, <1>3
  <2>2. PICK a \in Nat : a = wanted(Sum(h), 50)  BY <1>1, <2>1, WantedOf
  <2>3. PICK b \in Nat : b = wanted(Sum(h), 90)  BY <1>1, <2>1, WantedOf
  <2>4. PICK c \in Nat : c = wanted(Sum(h), 99)  BY <1>1, <2>1, WantedOf
  <2>5. 1 <= a /\ a <= b /\ b <= c /\ c <= Sum(h)  BY <1>1, <2>1, <2>2, <2>3, <2>4, WantedOf
  <2>6. 1 <= b /\ b <= Sum(h)  BY <1>1, <2>5
  <2>7. /\ Percentile(h, 50) = Min(reached(h, a)) /\ Percentile(h, 90) = Min(reached(h, b))
        /\ Percentile(h, 99) = Min(reached(h, c))
    BY <1>3, <2>2, <2>3, <2>4, PercentileIs
  <2>8. Min(reached(h, a)) <= Min(reached(h, b))  BY <2>5, <2>6, ReachedShrinks
  <2>9. Min(reached(h, b)) <= Min(reached(h, c))  BY <2>5, <2>6, ReachedShrinks
  <2> QED  BY <2>7, <2>8, <2>9
<1> QED  BY <1>2, <1>3

\* What the window's merged histogram counts.
LEMMA MergedCounts ==
  ASSUME WindowInv
  PROVE  /\ IsHistogram(Merged) /\ IsHistogram(allTime)
         /\ \A l \in Latencies : Merged[l] = Sum([k \in recentTurns |-> heard[k][l]])
         /\ \A l \in Latencies : Merged[l] > 0 => allTime[l] > 0
<1>1. /\ Slots \in Nat \ {0} /\ turns \in Nat /\ turns <= MaxTurns /\ MaxTurns \in Nat
      /\ slots \in [0 .. Slots - 1 -> [Latencies -> Nat]]
      /\ heard \in [0 .. MaxTurns -> [Latencies -> Nat]]
      /\ allTime \in [Latencies -> Nat]
  BY RateAssumption DEF WindowInv, RateTypeOK
<1> DEFINE I == 0 .. Slots - 1
           f(l) == [i \in I |-> slots[i][l]]
           g(l) == [k \in recentTurns |-> heard[k][l]]
           b == [k \in recentTurns |-> k % Slots]
           B == {b[k] : k \in recentTurns}
<1>2. IsFiniteSet(I) /\ IsFiniteSet(recentTurns)
  <2>1. IsFiniteSet(0 .. turns)  BY <1>1, FS_Interval
  <2>2. recentTurns \subseteq 0 .. turns  BY DEF recentTurns
  <2>3. IsFiniteSet(0 .. Slots - 1)  BY <1>1, FS_Interval
  <2> QED  BY <2>1, <2>2, <2>3, FS_Subset
<1>3. \A k \in recentTurns : k \in Nat /\ k <= turns /\ turns < k + Slots /\ k \in 0 .. MaxTurns
                             /\ k % Slots \in I
  BY <1>1, NextPlace DEF recentTurns
<1>4. B \subseteq I  BY <1>3
<1>5. b \in Bijection(recentTurns, B)
  <2>1. b \in [recentTurns -> B]  OBVIOUS
  <2>2. \A t \in B : \E k \in recentTurns : b[k] = t  OBVIOUS
  <2>3. ASSUME NEW j \in recentTurns, NEW k \in recentTurns, b[j] = b[k] PROVE j = k
    <3>1. j % Slots = k % Slots  BY <2>3
    <3>2. CASE j <= k
      <4>1. k < j + Slots  BY <1>1, <1>3
      <4> QED  BY <1>1, <1>3, <3>1, <3>2, <4>1, SamePlace
    <3>3. CASE k <= j
      <4>1. j < k + Slots  BY <1>1, <1>3
      <4> QED  BY <1>1, <1>3, <3>1, <3>3, <4>1, SamePlace
    <3> QED  BY <1>3, <3>2, <3>3
  <2> HIDE DEF b, B
  <2>4. b \in Injection(recentTurns, B)  BY <2>1, <2>3 DEF Injection, IsInjective
  <2>5. b \in Surjection(recentTurns, B)  BY <2>1, <2>2 DEF Surjection
  <2> QED  BY <2>4, <2>5 DEF Bijection
<1>6. Merged \in [Latencies -> Nat] /\ \A l \in Latencies : Merged[l] = SumFunctionOnSet(f(l), I)
  <2>1. ASSUME NEW l \in Latencies PROVE Sum([i \in DOMAIN slots |-> slots[i][l]]) = SumFunctionOnSet(f(l), I)
    <3>1. DOMAIN slots = I  BY <1>1
    <3>2. DOMAIN f(l) = I  OBVIOUS
    <3> QED  BY <3>1, <3>2 DEF Sum
  <2>2. ASSUME NEW l \in Latencies PROVE SumFunctionOnSet(f(l), I) \in Nat
    <3> DEFINE F == f(l)
    <3>1. \A i \in I : F[i] \in Nat  BY <1>1
    <3> HIDE DEF F, I
    <3>2. SumFunctionOnSet(F, I) \in Nat  BY <1>2, <3>1, SumIsNat
    <3> QED  BY <3>2 DEF F
  <2> QED  BY <2>1, <2>2 DEF Merged
<1>7. ASSUME NEW l \in Latencies PROVE SumFunctionOnSet(f(l), I) = Sum(g(l))
  <2> DEFINE F == f(l)
             G == g(l)
             D == I \ B
  <2>1. DOMAIN G = recentTurns  OBVIOUS
  <2>2. \A i \in I : F[i] \in Int /\ F[i] = slots[i][l]  BY <1>1
  <2>3. \A k \in recentTurns : G[k] \in Int /\ F[b[k]] = G[k]
    BY <1>1, <1>3 DEF WindowInv
  <2>4. \A i \in D : F[i] = 0
    <3> TAKE i \in D
    <3>1. slots[i] = Empty  BY DEF WindowInv
    <3> QED  BY <2>2, <3>1, EmptyHistogram
  <2>5. I = B \cup D /\ B \cap D = {} /\ IsFiniteSet(B) /\ IsFiniteSet(D)
    BY <1>2, <1>4, FS_Subset
  <2> HIDE DEF F, G, D, b, B, I
  <2>6. SumFunctionOnSet(G, recentTurns) = SumFunctionOnSet(F, B)
    BY <1>2, <1>5, <2>3, SumRenamed
  <2>7. SumFunctionOnSet(F, D) = 0  BY <2>4, <2>5, SumOfZeros
  <2>8. SumFunctionOnSet(F, B \cup D) = SumFunctionOnSet(F, B) + SumFunctionOnSet(F, D)
    BY <2>2, <2>5, SumOfParts
  <2>9. SumFunctionOnSet(F, B) \in Int
    <3>1. \A i \in B : F[i] \in Int  BY <2>2, <2>5
    <3> QED  BY <2>5, <3>1, SumTakes
  <2>10. SumFunctionOnSet(F, I) = SumFunctionOnSet(G, recentTurns)  BY <2>5, <2>6, <2>7, <2>8, <2>9
  <2> QED  BY <2>1, <2>10 DEF F, G, Sum
<1>8. ASSUME NEW l \in Latencies, Merged[l] > 0 PROVE allTime[l] > 0
  <2> SUFFICES ASSUME ~(allTime[l] > 0) PROVE FALSE  OBVIOUS
  <2> DEFINE F == f(l)
  <2>1. \A i \in I : F[i] = 0
    <3> TAKE i \in I
    <3>1. ~(slots[i][l] > 0) /\ slots[i][l] \in Nat  BY <1>1 DEF WindowInv
    <3> QED  BY <3>1
  <2>2. Merged[l] = SumFunctionOnSet(F, I)  BY <1>6
  <2> HIDE DEF F, I
  <2>3. SumFunctionOnSet(F, I) = 0  BY <1>2, <2>1, SumOfZeros
  <2> QED  BY <1>8, <2>2, <2>3
<1> QED  BY <1>1, <1>6, <1>7, <1>8 DEF IsHistogram

\* For every set of latencies and every window: the merged window counts
\* exactly what was recorded in its last turns, and a shown percentile is a
\* latency that was observed, the percentiles in order
\* (sliding_window.go:25-37, aggregator.go:71-83).
THEOREM ShownLatencyIsAlwaysReal == RateSpec => []ShownLatencyIsReal
<1>1. WindowInv => ShownLatencyIsReal
  <2> SUFFICES ASSUME WindowInv PROVE ShownLatencyIsReal  OBVIOUS
  <2>1. ASSUME Sum(allTime) > 0, NEW p \in {50, 90, 99}
        PROVE \E l \in Latencies : allTime[l] > 0 /\ shown(p) = l
    <3>1. IsHistogram(Merged) /\ IsHistogram(allTime)  BY MergedCounts
    <3>2. CASE Percentile(Merged, 99) = 0
      <4>1. shown(p) = Percentile(allTime, p)  BY <2>1, <3>2 DEF shown
      <4>2. Sum(allTime) # 0
        <5>1. Sum(allTime) \in Nat  BY <3>1, CountsAreNat
        <5> QED  BY <2>1, <5>1
      <4>3. Percentile(allTime, p) \in Latencies /\ allTime[Percentile(allTime, p)] > 0
        BY <3>1, <4>2, PercentileIsAValue
      <4> QED  BY <4>1, <4>3
    <3>3. CASE Percentile(Merged, 99) # 0
      <4>1. shown(p) = Percentile(Merged, p)  BY <3>3 DEF shown
      <4>2. Sum(Merged) # 0  BY <3>3, PercentileIs
      <4>3. Percentile(Merged, p) \in Latencies /\ Merged[Percentile(Merged, p)] > 0
        BY <3>1, <4>2, PercentileIsAValue
      <4> QED  BY <4>1, <4>3, MergedCounts
    <3> QED  BY <3>2, <3>3
  <2>2. shown(50) <= shown(90) /\ shown(90) <= shown(99)
    <3>1. /\ Percentile(Merged, 50) <= Percentile(Merged, 90)
          /\ Percentile(Merged, 90) <= Percentile(Merged, 99)
          /\ Percentile(allTime, 50) <= Percentile(allTime, 90)
          /\ Percentile(allTime, 90) <= Percentile(allTime, 99)
      BY MergedCounts, PercentilesAreInOrder
    <3>2. CASE Percentile(Merged, 99) = 0 /\ Sum(allTime) > 0  BY <3>1, <3>2 DEF shown
    <3>3. CASE ~(Percentile(Merged, 99) = 0 /\ Sum(allTime) > 0)  BY <3>1, <3>3 DEF shown
    <3> QED  BY <3>2, <3>3
  <2> QED  BY <2>1, <2>2, MergedCounts DEF ShownLatencyIsReal
<1> QED  BY <1>1, WindowInvAtInit, WindowInvIsKept, PTL DEF RateSpec

-----------------------------------------------------------------------------
(* The lag monitor. *)

LEMMA LagTypesAtInit == LagInit => LagTypeOK
  BY LagAssumption DEF LagInit, LagTypeOK

\* What a partition adds to the total is a number.
LEMMA BehindIsNat ==
  ASSUME NEW n \in Int
  PROVE  Max({0, n}) \in Nat
<1>1. PICK m \in {0, n} : \A k \in {0, n} : m >= k
  <2>1. CASE n >= 0  BY <2>1
  <2>2. CASE ~(n >= 0)  BY <2>2
  <2> QED  BY <2>1, <2>2
<1>2. /\ Max({0, n}) \in {0, n} /\ \A k \in {0, n} : Max({0, n}) >= k
  BY <1>1 DEF Max
<1> QED  BY <1>2

LEMMA LagTypesAreKept == LagTypeOK /\ [LagNext]_lagVars => LagTypeOK'
<1> SUFFICES ASSUME LagTypeOK, [LagNext]_lagVars PROVE LagTypeOK'  OBVIOUS
<1> USE LagAssumption DEF LagTypeOK
<1>1. ASSUME NEW p \in Partition, Write(p) PROVE LagTypeOK'
  BY <1>1 DEF Write
<1>2. ASSUME NEW p \in Partition, Commit(p) PROVE LagTypeOK'
  <2>1. PICK o \in 1 .. end[p] : committed' = [committed EXCEPT ![p] = o]
    BY <1>2 DEF Commit
  <2>2. o \in -1 .. MaxOffset /\ o <= end[p]  BY <2>1
  <2> QED  BY <1>2, <2>1, <2>2 DEF Commit
<1>3. CASE Check
  BY <1>3 DEF Check, offsets
<1>4. ASSUME NEW p \in Partition, ReadLastOffset(p) PROVE LagTypeOK'
  BY <1>4 DEF ReadLastOffset, offsets
\* The loop leaves a partition.
<1>5. ASSUME NEW p \in todo, NEW t \in Nat, goOn(todo \ {p}, t), UNCHANGED <<offsets, last>>,
             failures' \in 0 .. MaxFailures
      PROVE  LagTypeOK'
  BY <1>5 DEF goOn, offsets
<1>6. ASSUME NEW p \in Partition, SkipPartition(p) PROVE LagTypeOK'
  BY <1>5, <1>6 DEF SkipPartition
<1>7. CASE ReadCommitted
  <2>1. partition \in todo /\ partition \in Partition
    BY <1>7 DEF ReadCommitted
  <2>2. last - committed[partition] \in Int /\ last - 0 \in Int
    BY <2>1
  <2>3. behind(committed[partition]) \in Nat /\ behind(0) \in Nat
    BY <2>2, BehindIsNat DEF behind
  <2>4. total + behind(committed[partition]) \in Nat /\ total + behind(0) \in Nat
    BY <2>3
  <2>5. failures' \in 0 .. MaxFailures
    BY <1>7 DEF ReadCommitted
  <2> QED  BY <1>5, <1>7, <2>1, <2>4, <2>5 DEF ReadCommitted
<1>8. CASE UNCHANGED lagVars  BY <1>8 DEF lagVars
<1> QED  BY <1>1, <1>2, <1>3, <1>4, <1>6, <1>7, <1>8 DEF LagNext

\* The reported lag is never negative, and no partition is looked at twice in a
\* check (LagMonitor.tla).
THEOREM LagTypesHold == LagSpec => []LagTypeOK
  BY LagTypesAtInit, LagTypesAreKept, PTL DEF LagSpec
\* What has been added up so far, were it what the group lacked when the
\* ends were read, and were it what it still lacks of those ends.
Lags  == [p \in Partition |-> seen[p].lag]
Lacks == [p \in Partition |-> Max({0, seen[p].end - committed[p]})]
Done  == Partition \ todo

SeenTyped == seen \in [Partition -> [end : Nat, lag : Nat]]

\* The partition between its two calls.
ReadingIsSeen ==
  partition # Idle => last = seen[partition].end /\ Lacks[partition] <= Lags[partition]

\* The total is between the two, of the partitions that are done.
TotalIsBetween ==
  exact /\ todo # {} =>
    /\ total <= SumFunctionOnSet(Lags, Done)
    /\ total >= SumFunctionOnSet(Lacks, Done)

LagInv == LagTypeOK /\ SeenTyped /\ ReadingIsSeen /\ TotalIsBetween

LEMMA MaxZero ==
  ASSUME NEW n \in Int
  PROVE  Max({0, n}) \in Nat /\ Max({0, n}) = IF n >= 0 THEN n ELSE 0
<1>1. Max({0, n}) = IF 0 >= n THEN 0 ELSE n  BY MaxMinOfTwo
<1> QED  BY <1>1

LEMMA LacksTyped ==
  ASSUME LagTypeOK, SeenTyped
  PROVE  /\ Lags \in [Partition -> Nat] /\ Lacks \in [Partition -> Nat]
         /\ IsFiniteSet(Done) /\ Done \subseteq Partition
<1>1. \A p \in Partition : seen[p].end - committed[p] \in Int  BY DEF LagTypeOK, SeenTyped
<1>2. \A p \in Partition : Max({0, seen[p].end - committed[p]}) \in Nat  BY <1>1, MaxZero
<1>3. IsFiniteSet(Done)  BY LagAssumption, FS_Subset DEF Done
<1> QED  BY <1>2, <1>3 DEF Lags, Lacks, Done, SeenTyped

\* A partition that is done adds its lag to the one sum and its lack to the
\* other.
LEMMA OneMoreDone ==
  ASSUME LagTypeOK, SeenTyped, NEW p \in todo, NEW q, q = Done \cup {p}
  PROVE  /\ SumFunctionOnSet(Lags, q) = Lags[p] + SumFunctionOnSet(Lags, Done)
         /\ SumFunctionOnSet(Lacks, q) = Lacks[p] + SumFunctionOnSet(Lacks, Done)
         /\ SumFunctionOnSet(Lags, Done) \in Int /\ SumFunctionOnSet(Lacks, Done) \in Int
         /\ Lags[p] \in Nat /\ Lacks[p] \in Nat
<1>1. /\ Lags \in [Partition -> Nat] /\ Lacks \in [Partition -> Nat]
      /\ IsFiniteSet(Done) /\ Done \subseteq Partition
  BY LacksTyped
<1>2. p \in Partition /\ p \notin Done  BY DEF LagTypeOK, Done
<1>3. \A y \in Done \cup {p} : Lags[y] \in Int /\ Lacks[y] \in Int  BY <1>1, <1>2
<1> QED  BY <1>1, <1>2, <1>3, SumAdds

\* The read of a partition's commit that ends the check of it.
LEMMA ReadAdds ==
  ASSUME LagInv, partition \in todo, exact,
         total' = total + behind(committed[partition])
  PROVE  /\ total' <= SumFunctionOnSet(Lags, Done \cup {partition})
         /\ total' >= SumFunctionOnSet(Lacks, Done \cup {partition})
<1> USE DEF LagInv
<1>1. partition # Idle /\ partition \in Partition  BY LagAssumption DEF LagTypeOK
<1>2. last = seen[partition].end /\ Lacks[partition] <= Lags[partition]  BY <1>1 DEF ReadingIsSeen
<1>3. behind(committed[partition]) = Lacks[partition]  BY <1>1, <1>2 DEF behind, Lacks
<1>4. /\ total <= SumFunctionOnSet(Lags, Done) /\ total >= SumFunctionOnSet(Lacks, Done)
      /\ total \in Nat
  BY DEF TotalIsBetween, LagTypeOK
<1>5. PICK q : q = Done \cup {partition}  OBVIOUS
<1>6. /\ SumFunctionOnSet(Lags, q) = Lags[partition] + SumFunctionOnSet(Lags, Done)
      /\ SumFunctionOnSet(Lacks, q) = Lacks[partition] + SumFunctionOnSet(Lacks, Done)
      /\ SumFunctionOnSet(Lags, Done) \in Int /\ SumFunctionOnSet(Lacks, Done) \in Int
      /\ Lags[partition] \in Nat /\ Lacks[partition] \in Nat
  BY <1>5, OneMoreDone
<1>7. /\ total' <= SumFunctionOnSet(Lags, q)
      /\ total' >= SumFunctionOnSet(Lacks, q)
  BY <1>2, <1>3, <1>4, <1>6
<1> QED  BY <1>5, <1>7

LEMMA LagInvAtInit == LagInit => LagInv
<1> SUFFICES ASSUME LagInit PROVE LagInv  OBVIOUS
<1>1. LagTypeOK  BY LagTypesAtInit
<1>2. SeenTyped /\ partition = Idle /\ todo = {}  BY DEF LagInit, SeenTyped
<1> QED  BY <1>1, <1>2 DEF LagInv, ReadingIsSeen, TotalIsBetween

\* Lacks only shrinks while a group commits.
LEMMA CommitsOnlyHelp ==
  ASSUME LagInv, LagTypeOK', UNCHANGED seen, \A p \in Partition : committed'[p] >= committed[p]
  PROVE  /\ \A p \in Partition : Lacks'[p] <= Lacks[p] /\ Lacks'[p] \in Nat
         /\ SumFunctionOnSet(Lacks', Done) <= SumFunctionOnSet(Lacks, Done)
         /\ SumFunctionOnSet(Lacks', Done) \in Int /\ SumFunctionOnSet(Lacks, Done) \in Int
         /\ Lags' = Lags
<1> USE DEF LagInv
<1>1. /\ Lacks \in [Partition -> Nat] /\ IsFiniteSet(Done) /\ Done \subseteq Partition
  BY LacksTyped
<1>2. ASSUME NEW p \in Partition PROVE Lacks'[p] <= Lacks[p] /\ Lacks'[p] \in Nat
  <2> DEFINE n == seen[p].end - committed[p]
             m == seen[p].end - committed'[p]
  <2>1. n \in Int /\ m \in Int /\ m <= n  BY DEF LagTypeOK, SeenTyped
  <2>2. Lacks[p] = Max({0, n}) /\ Lacks'[p] = Max({0, m})  BY DEF Lacks
  <2> HIDE DEF n, m
  <2> QED  BY <2>1, <2>2, MaxZero
<1>3. \A p \in Done : Lacks'[p] \in Int /\ Lacks[p] \in Int /\ Lacks'[p] <= Lacks[p]  BY <1>1, <1>2
<1>4. SumFunctionOnSet(Lacks', Done) <= SumFunctionOnSet(Lacks, Done)  BY <1>1, <1>3, SumMono
<1>5. SumFunctionOnSet(Lacks', Done) \in Int /\ SumFunctionOnSet(Lacks, Done) \in Int
  BY <1>1, <1>3, SumTakes
<1> QED  BY <1>2, <1>4, <1>5 DEF Lags

\* Steps of others, between two calls.
LEMMA OthersKeepLagInv ==
  ASSUME LagInv, LagTypeOK', UNCHANGED <<seen, todo, partition, last, total, exact>>,
         \A p \in Partition : committed'[p] >= committed[p]
  PROVE  LagInv'
<1>1. /\ \A p \in Partition : Lacks'[p] <= Lacks[p] /\ Lacks'[p] \in Nat
      /\ SumFunctionOnSet(Lacks', Done) <= SumFunctionOnSet(Lacks, Done)
      /\ SumFunctionOnSet(Lacks', Done) \in Int /\ SumFunctionOnSet(Lacks, Done) \in Int
      /\ Lags' = Lags
  BY CommitsOnlyHelp
<1>2. SeenTyped' /\ Done' = Done  BY DEF LagInv, SeenTyped, Done
<1>3. Lags \in [Partition -> Nat] /\ Lacks \in [Partition -> Nat]  BY LacksTyped DEF LagInv
<1>4. ReadingIsSeen'
  <2> SUFFICES ASSUME partition # Idle
               PROVE  last = seen[partition].end /\ Lacks'[partition] <= Lags[partition]
    BY <1>1 DEF ReadingIsSeen
  <2>1. partition \in Partition  BY DEF LagInv, LagTypeOK
  <2>2. last = seen[partition].end /\ Lacks[partition] <= Lags[partition]  BY DEF LagInv, ReadingIsSeen
  <2> QED  BY <1>1, <1>3, <2>1, <2>2
<1>5. TotalIsBetween'
  <2> SUFFICES ASSUME exact, todo # {}
               PROVE  total <= SumFunctionOnSet(Lags, Done) /\ total >= SumFunctionOnSet(Lacks', Done)
    BY <1>1, <1>2 DEF TotalIsBetween
  <2>1. total <= SumFunctionOnSet(Lags, Done) /\ total >= SumFunctionOnSet(Lacks, Done) /\ total \in Nat
    BY DEF LagInv, TotalIsBetween, LagTypeOK
  <2> QED  BY <1>1, <2>1
<1> QED  BY <1>2, <1>4, <1>5 DEF LagInv

LEMMA LagInvIsKept == LagInv /\ [LagNext]_lagVars => LagInv'
<1> SUFFICES ASSUME LagInv, [LagNext]_lagVars PROVE LagInv'  OBVIOUS
<1>0. LagTypeOK /\ SeenTyped /\ LagTypeOK'  BY LagTypesAreKept DEF LagInv
<1>1. ASSUME NEW p \in Partition, Write(p) PROVE LagInv'
  <2>1. UNCHANGED <<committed, seen, todo, partition, last, total, exact>>  BY <1>1 DEF Write
  <2>2. \A q \in Partition : committed'[q] >= committed[q]  BY <1>0, <2>1 DEF LagTypeOK
  <2> QED  BY <1>0, <2>1, <2>2, OthersKeepLagInv
<1>2. ASSUME NEW p \in Partition, Commit(p) PROVE LagInv'
  <2>1. UNCHANGED <<seen, todo, partition, last, total, exact>>  BY <1>2 DEF Commit
  <2>2. PICK o \in 1 .. end[p] : o > committed[p] /\ committed' = [committed EXCEPT ![p] = o]
    BY <1>2 DEF Commit
  <2>3. \A q \in Partition : committed'[q] >= committed[q]  BY <1>0, <2>2 DEF LagTypeOK
  <2> QED  BY <1>0, <2>1, <2>3, OthersKeepLagInv
<1>3. CASE Check
  <2>1. /\ todo' = Partition /\ total' = 0 /\ exact' = TRUE /\ partition = Idle /\ partition' = Idle
        /\ seen' = [p \in Partition |-> [end |-> 0, lag |-> 0]] /\ committed' = committed
    BY <1>3 DEF Check, offsets
  <2>2. SeenTyped' /\ ReadingIsSeen'  BY <2>1 DEF SeenTyped, ReadingIsSeen
  <2>3. Done' = {}  BY <2>1 DEF Done
  <2>4. \A f : SumFunctionOnSet(f, {}) = 0  BY SumTakes, FS_EmptySet
  <2>5. TotalIsBetween'  BY <2>1, <2>3, <2>4 DEF TotalIsBetween
  <2> QED  BY <1>0, <2>2, <2>5 DEF LagInv
<1>4. ASSUME NEW p \in Partition, ReadLastOffset(p) PROVE LagInv'
  <2>1. /\ p \in todo /\ partition' = p /\ last' = end[p]
        /\ seen' = [seen EXCEPT ![p] = [end |-> end[p], lag |-> lagOf(p)]]
        /\ UNCHANGED <<end, committed, todo, total, exact>>
    BY <1>4 DEF ReadLastOffset, offsets
  <2>2. lagOf(p) \in Nat /\ end[p] \in Nat /\ end[p] - committed[p] \in Int
    <3>1. end[p] - committed[p] \in Int /\ end[p] \in Nat  BY <1>0, LagAssumption DEF LagTypeOK
    <3> QED  BY <3>1, MaxZero DEF lagOf
  <2>3. SeenTyped'  BY <1>0, <2>1, <2>2 DEF SeenTyped
  <2>4. seen'[p] = [end |-> end[p], lag |-> lagOf(p)]  BY <1>0, <2>1 DEF SeenTyped
  <2>5. Lags'[p] = lagOf(p) /\ Lacks'[p] = lagOf(p)  BY <2>1, <2>4 DEF Lags, Lacks, lagOf
  <2>6. ReadingIsSeen'  BY <2>1, <2>2, <2>4, <2>5 DEF ReadingIsSeen
  <2>7. Done' = Done /\ p \notin Done  BY <2>1 DEF Done
  <2>8. \A q \in Done : Lags'[q] = Lags[q] /\ Lacks'[q] = Lacks[q]
    <3> TAKE q \in Done
    <3>1. q \in Partition /\ q # p /\ seen'[q] = seen[q]  BY <1>0, <2>1, <2>7 DEF Done, SeenTyped
    <3> QED  BY <2>1, <3>1 DEF Lags, Lacks
  <2>9. IsFiniteSet(Done) /\ \A q \in Done : Lags[q] \in Int /\ Lacks[q] \in Int
    BY <1>0, LacksTyped
  <2>10. /\ SumFunctionOnSet(Lags, Done) = SumFunctionOnSet(Lags', Done)
         /\ SumFunctionOnSet(Lacks, Done) = SumFunctionOnSet(Lacks', Done)
    BY <2>8, <2>9, SumEqual
  <2>11. TotalIsBetween'  BY <2>1, <2>7, <2>10 DEF TotalIsBetween, LagInv
  <2> QED  BY <1>0, <2>3, <2>6, <2>11 DEF LagInv
<1>5. ASSUME NEW p \in Partition, SkipPartition(p) PROVE LagInv'
  <2>1. exact' = FALSE /\ partition' = Idle /\ UNCHANGED <<committed, seen>>
    BY <1>5 DEF SkipPartition, goOn, offsets
  <2>2. SeenTyped' /\ ReadingIsSeen' /\ TotalIsBetween'
    BY <1>0, <2>1 DEF SeenTyped, ReadingIsSeen, TotalIsBetween
  <2> QED  BY <1>0, <2>2 DEF LagInv
<1>6. CASE ReadCommitted
  <2>1. partition # Idle /\ partition \in todo /\ partition' = Idle /\ UNCHANGED <<committed, seen>>
    BY <1>0, <1>6 DEF ReadCommitted, goOn, offsets, LagTypeOK
  <2>2. SeenTyped' /\ ReadingIsSeen'
    BY <1>0, <2>1 DEF SeenTyped, ReadingIsSeen
  <2>3. TotalIsBetween'
    <3> SUFFICES ASSUME exact' PROVE TotalIsBetween'  BY DEF TotalIsBetween
    <3>1. /\ exact /\ todo' = todo \ {partition}
          /\ total' = total + behind(committed[partition])
      BY <1>6 DEF ReadCommitted, goOn
    <3>2. Done' = Done \cup {partition}  BY <1>0, <2>1, <3>1 DEF Done, LagTypeOK
    <3>3. Lags' = Lags /\ Lacks' = Lacks  BY <2>1 DEF Lags, Lacks
    <3>4. /\ total' <= SumFunctionOnSet(Lags, Done \cup {partition})
          /\ total' >= SumFunctionOnSet(Lacks, Done \cup {partition})
      BY <2>1, <3>1, ReadAdds
    <3> QED  BY <3>2, <3>3, <3>4 DEF TotalIsBetween
  <2> QED  BY <1>0, <2>2, <2>3 DEF LagInv
<1>7. CASE UNCHANGED lagVars
  <2>1. UNCHANGED <<committed, seen, todo, partition, last, total, exact>>  BY <1>7 DEF lagVars
  <2>2. \A q \in Partition : committed'[q] >= committed[q]  BY <1>0, <2>1 DEF LagTypeOK
  <2> QED  BY <1>0, <2>1, <2>2, OthersKeepLagInv
<1> QED  BY <1>1, <1>2, <1>3, <1>4, <1>5, <1>6, <1>7 DEF LagNext

\* Whatever is produced and committed between its calls, a check in which no
\* call failed reports between what the group still lacks and what it lacked
\* when each end was read (lag_monitor.go:69-86).
THEOREM LagIsAlwaysThatOfTheCheck == LagSpec => LagIsThatOfTheCheck
<1>1. ASSUME LagInv, [LagNext]_lagVars, todo # {}, todo' = {}, exact'
      PROVE  /\ lastLag' <= sumOf([p \in Partition |-> seen[p].lag])
             /\ lastLag' >= sumOf([p \in Partition |-> Max({0, seen[p].end - committed[p]})])
  <2>1. LagTypeOK  BY <1>1 DEF LagInv
  <2>2. ReadCommitted
    <3>1. Partition # {}  BY <1>1, <2>1 DEF LagTypeOK
    <3>2. ~Check  BY <1>1 DEF Check
    <3>3. \A p \in Partition : ~SkipPartition(p)  BY <1>1 DEF SkipPartition
    <3>4. \A p \in Partition : ~Write(p) /\ ~Commit(p) /\ ~ReadLastOffset(p)
      BY <1>1 DEF Write, Commit, ReadLastOffset
    <3>5. ~UNCHANGED lagVars  BY <1>1 DEF lagVars
    <3> QED  BY <1>1, <3>2, <3>3, <3>4, <3>5 DEF LagNext
  <2>3. /\ exact /\ todo' = todo \ {partition} /\ partition \in todo
        /\ total' = total + behind(committed[partition]) /\ lastLag' = total'
    BY <1>1, <2>1, <2>2 DEF ReadCommitted, goOn, LagTypeOK
  <2>4. Done \cup {partition} = Partition  BY <1>1, <2>1, <2>3 DEF Done, LagTypeOK
  <2>5. /\ total' <= SumFunctionOnSet(Lags, Done \cup {partition})
        /\ total' >= SumFunctionOnSet(Lacks, Done \cup {partition})
    BY <1>1, <2>3, ReadAdds
  <2>6. lastLag' <= sumOf(Lags) /\ lastLag' >= sumOf(Lacks)  BY <2>3, <2>4, <2>5 DEF sumOf
  <2> QED  BY <2>6 DEF Lags, Lacks
<1> QED  BY <1>1, LagInvAtInit, LagInvIsKept, PTL DEF LagSpec, LagIsThatOfTheCheck

-----------------------------------------------------------------------------
(* The writer of rows.  The table, the batch and the queue hold, in this   *)
(* order, ever later rows; a batch whose COPY reported an error is gone    *)
(* from the loop, whether its rows are in the table or not.                *)

Rows == 1 .. MaxRows

Ascending(s) == \A i, k \in DOMAIN s : i < k => s[i] < s[k]
Before(S, T) == \A m \in S, n \in T : m < n

Types ==
  /\ queue \in Seq(Rows) /\ rows \in Seq(Rows) /\ table \in Seq(Rows)
  /\ offered \in 0 .. MaxRows /\ breakdowns \in 0 .. MaxBreakdowns
  /\ copying \in BOOLEAN /\ quit \in BOOLEAN /\ pool \in BOOLEAN
  /\ writing \in {"run", "flush", "ended"}

Sizes ==
  /\ Len(queue) <= QueueSize /\ Len(rows) <= CopySize
  /\ ~copying => Len(rows) < CopySize

InOrder ==
  /\ Ascending(queue) /\ Ascending(rows) /\ Ascending(table)
  /\ Before(asSet(table), asSet(rows) \cup asSet(queue))
  /\ Before(asSet(rows) \cup failed, asSet(queue)) /\ Before(failed, asSet(rows))

Accounted ==
  /\ asSet(queue) \cup asSet(rows) \cup asSet(table) \cup refused \cup failed = 1 .. offered
  /\ droppedRows = Cardinality(refused) + Cardinality(failed)

RowInv == Types /\ Sizes /\ InOrder /\ Accounted

LEMMA RowsAtInit == WriterInit => RowInv
<1> SUFFICES ASSUME WriterInit PROVE RowInv  OBVIOUS
<1> USE RowAssumption DEF WriterInit
<1>1. Types
  <2>1. offered \in 0 .. MaxRows /\ breakdowns \in 0 .. MaxBreakdowns  OBVIOUS
  <2>2. copying \in BOOLEAN /\ quit \in BOOLEAN /\ pool \in BOOLEAN  OBVIOUS
  <2> QED  BY <2>1, <2>2 DEF Types
<1>2. Sizes  BY DEF Sizes
<1>3. asSet(queue) = {} /\ asSet(rows) = {} /\ asSet(table) = {}  BY DEF asSet
<1>4. InOrder  BY <1>3 DEF InOrder, Ascending, Before
<1>5. Accounted  BY <1>3, FS_EmptySet DEF Accounted
<1> QED  BY <1>1, <1>2, <1>4, <1>5 DEF RowInv

\* Sequences of rows.
LEMMA RowAppended ==
  ASSUME NEW s \in Seq(Rows), NEW r \in Rows
  PROVE  /\ Append(s, r) \in Seq(Rows) /\ Len(Append(s, r)) = Len(s) + 1 /\ Len(s) \in Nat
         /\ asSet(Append(s, r)) = asSet(s) \cup {r}
         /\ Ascending(s) /\ Before(asSet(s), {r}) => Ascending(Append(s, r))
<1> DEFINE a == Append(s, r)
<1>1. /\ a \in Seq(Rows) /\ Len(a) = Len(s) + 1 /\ Len(s) \in Nat /\ DOMAIN s = 1 .. Len(s)
      /\ DOMAIN a = 1 .. Len(s) + 1 /\ a[Len(s) + 1] = r
      /\ \A i \in 1 .. Len(s) : a[i] = s[i]
  OBVIOUS
<1> HIDE DEF a
<1>2. \A i \in DOMAIN a : i \in DOMAIN s \/ i = Len(s) + 1  BY <1>1
<1>3. asSet(a) = asSet(s) \cup {r}
  <2>1. \A x \in asSet(a) : x \in asSet(s) \cup {r}  BY <1>1, <1>2 DEF asSet
  <2>2. \A x \in asSet(s) \cup {r} : x \in asSet(a)  BY <1>1 DEF asSet
  <2> QED  BY <2>1, <2>2
<1>4. ASSUME Ascending(s), Before(asSet(s), {r}) PROVE Ascending(a)
  <2> SUFFICES ASSUME NEW i \in DOMAIN a, NEW k \in DOMAIN a, i < k PROVE a[i] < a[k]
    BY DEF Ascending
  <2>1. i \in DOMAIN s  BY <1>1, <1>2
  <2>2. CASE k \in DOMAIN s  BY <1>1, <1>4, <2>1, <2>2 DEF Ascending
  <2>3. CASE k = Len(s) + 1  BY <1>1, <1>4, <2>1, <2>3 DEF Before, asSet
  <2> QED  BY <1>2, <2>2, <2>3
<1> QED  BY <1>1, <1>3, <1>4 DEF a

LEMMA RowTaken ==
  ASSUME NEW s \in Seq(Rows), s # <<>>
  PROVE  /\ Tail(s) \in Seq(Rows) /\ Head(s) \in Rows /\ Len(Tail(s)) = Len(s) - 1 /\ Len(s) \in Nat
         /\ asSet(s) = {Head(s)} \cup asSet(Tail(s))
         /\ Ascending(s) => Ascending(Tail(s)) /\ Before({Head(s)}, asSet(Tail(s)))
<1> DEFINE t == Tail(s)
<1>1. /\ t \in Seq(Rows) /\ Len(s) \in Nat \ {0} /\ Len(t) = Len(s) - 1 /\ Head(s) = s[1]
      /\ DOMAIN s = 1 .. Len(s) /\ DOMAIN t = 1 .. Len(s) - 1
      /\ \A i \in 1 .. Len(s) - 1 : t[i] = s[i + 1]
      /\ Head(s) \in Rows
  OBVIOUS
<1> HIDE DEF t
<1>2. asSet(s) = {Head(s)} \cup asSet(t)
  <2>1. ASSUME NEW i \in DOMAIN s PROVE s[i] \in {Head(s)} \cup asSet(t)
    <3>1. CASE i = 1  BY <1>1, <3>1
    <3>2. CASE i # 1
      <4>1. i - 1 \in DOMAIN t /\ t[i - 1] = s[i]  BY <1>1, <2>1, <3>2
      <4> QED  BY <4>1 DEF asSet
    <3> QED  BY <3>1, <3>2
  <2>2. ASSUME NEW i \in DOMAIN t PROVE t[i] \in asSet(s)
    <3>1. i + 1 \in DOMAIN s /\ t[i] = s[i + 1]  BY <1>1, <2>2
    <3> QED  BY <3>1 DEF asSet
  <2>3. Head(s) \in asSet(s)  BY <1>1 DEF asSet
  <2>4. \A x \in asSet(s) : x \in {Head(s)} \cup asSet(t)  BY <2>1 DEF asSet
  <2>5. \A x \in asSet(t) : x \in asSet(s)  BY <2>2 DEF asSet
  <2> QED  BY <2>3, <2>4, <2>5
<1>3. ASSUME Ascending(s) PROVE Ascending(t) /\ Before({Head(s)}, asSet(t))
  <2>1. ASSUME NEW i \in DOMAIN t, NEW k \in DOMAIN t, i < k PROVE t[i] < t[k]
    <3>1. i + 1 \in DOMAIN s /\ k + 1 \in DOMAIN s /\ i + 1 < k + 1  BY <1>1, <2>1
    <3> QED  BY <1>1, <1>3, <3>1 DEF Ascending
  <2>2. ASSUME NEW k \in DOMAIN t PROVE Head(s) < t[k]
    <3>1. 1 \in DOMAIN s /\ k + 1 \in DOMAIN s /\ 1 < k + 1 /\ t[k] = s[k + 1]
      BY <1>1, <2>2
    <3> QED  BY <1>1, <1>3, <3>1 DEF Ascending
  <2> QED  BY <2>1, <2>2 DEF Ascending, Before, asSet
<1> QED  BY <1>1, <1>2, <1>3 DEF t

LEMMA RowsJoined ==
  ASSUME NEW s \in Seq(Rows), NEW t \in Seq(Rows)
  PROVE  /\ s \o t \in Seq(Rows) /\ asSet(s \o t) = asSet(s) \cup asSet(t)
         /\ Ascending(s) /\ Ascending(t) /\ Before(asSet(s), asSet(t)) => Ascending(s \o t)
<1> DEFINE j == s \o t
<1>1. /\ j \in Seq(Rows) /\ Len(s) \in Nat /\ Len(t) \in Nat
      /\ DOMAIN s = 1 .. Len(s) /\ DOMAIN t = 1 .. Len(t) /\ DOMAIN j = 1 .. Len(s) + Len(t)
      /\ \A i \in 1 .. Len(s) : j[i] = s[i]
      /\ \A i \in 1 .. Len(s) + Len(t) : i > Len(s) => j[i] = t[i - Len(s)]
  OBVIOUS
<1> HIDE DEF j
<1>2. \A i \in DOMAIN j :
        \/ i \in DOMAIN s /\ j[i] = s[i]
        \/ i > Len(s) /\ i - Len(s) \in DOMAIN t /\ j[i] = t[i - Len(s)]
  BY <1>1
<1>3. \A i \in DOMAIN t : i + Len(s) \in DOMAIN j /\ j[i + Len(s)] = t[i]
  <2> SUFFICES ASSUME NEW i \in DOMAIN t PROVE i + Len(s) \in DOMAIN j /\ j[i + Len(s)] = t[i]
    OBVIOUS
  <2>1. i + Len(s) \in 1 .. Len(s) + Len(t) /\ i + Len(s) > Len(s) /\ (i + Len(s)) - Len(s) = i
    BY <1>1
  <2> QED  BY <1>1, <2>1
<1>4. asSet(j) = asSet(s) \cup asSet(t)
  <2>1. \A x \in asSet(j) : x \in asSet(s) \cup asSet(t)  BY <1>2 DEF asSet
  <2>2. \A x \in asSet(s) : x \in asSet(j)  BY <1>1 DEF asSet
  <2>3. \A x \in asSet(t) : x \in asSet(j)  BY <1>3 DEF asSet
  <2> QED  BY <2>1, <2>2, <2>3
<1>5. ASSUME Ascending(s), Ascending(t), Before(asSet(s), asSet(t)) PROVE Ascending(j)
  <2> SUFFICES ASSUME NEW i \in DOMAIN j, NEW k \in DOMAIN j, i < k PROVE j[i] < j[k]
    BY DEF Ascending
  <2>1. CASE i \in DOMAIN s /\ j[i] = s[i] /\ k \in DOMAIN s /\ j[k] = s[k]
    BY <1>5, <2>1 DEF Ascending
  <2>2. CASE i \in DOMAIN s /\ j[i] = s[i] /\ k - Len(s) \in DOMAIN t /\ j[k] = t[k - Len(s)]
    BY <1>5, <2>2 DEF Before, asSet
  <2>3. CASE /\ i - Len(s) \in DOMAIN t /\ j[i] = t[i - Len(s)]
             /\ k - Len(s) \in DOMAIN t /\ j[k] = t[k - Len(s)]
    <3>1. i - Len(s) < k - Len(s)  BY <1>1
    <3> QED  BY <1>5, <2>3, <3>1 DEF Ascending
  <2>4. i > Len(s) => k \notin DOMAIN s  BY <1>1
  <2> QED  BY <1>2, <2>1, <2>2, <2>3, <2>4
<1> QED  BY <1>1, <1>4, <1>5 DEF j

\* Rows that ascend are as many as their sequence is long.
LEMMA RowsCounted ==
  ASSUME NEW s \in Seq(Rows), Ascending(s)
  PROVE  IsFiniteSet(asSet(s)) /\ Cardinality(asSet(s)) = Len(s)
<1>1. Len(s) \in Nat /\ DOMAIN s = 1 .. Len(s) /\ s \in [1 .. Len(s) -> asSet(s)]
  BY DEF asSet
<1>2. \A i, k \in 1 .. Len(s) : s[i] = s[k] => i = k
  <2> SUFFICES ASSUME NEW i \in 1 .. Len(s), NEW k \in 1 .. Len(s), s[i] = s[k], i # k PROVE FALSE
    OBVIOUS
  <2>1. i < k \/ k < i  BY <1>1
  <2>2. s[i] < s[k] \/ s[k] < s[i]  BY <1>1, <2>1 DEF Ascending
  <2>3. s[i] \in Rows /\ s[k] \in Rows  BY <1>1
  <2>4. s[i] \in Int /\ s[k] \in Int  BY <2>3 DEF Rows
  <2> QED  BY <2>2, <2>4
<1>3. \A x \in asSet(s) : \E i \in 1 .. Len(s) : s[i] = x  BY <1>1 DEF asSet
<1>4. s \in Bijection(1 .. Len(s), asSet(s))  BY <1>1, <1>2, <1>3, Fun_IsBij
<1>5. ExistsBijection(1 .. Len(s), asSet(s))  BY <1>4 DEF ExistsBijection
<1> QED  BY <1>1, <1>5, FS_CountingElements, FS_NatBijection
LEMMA AllAreRows ==
  ASSUME RowInv
  PROVE  /\ offered \in Nat /\ 1 .. offered \subseteq Rows /\ IsFiniteSet(refused) /\ IsFiniteSet(failed)
         /\ refused \subseteq 1 .. offered /\ failed \subseteq 1 .. offered
         /\ asSet(queue) \subseteq 1 .. offered /\ asSet(rows) \subseteq 1 .. offered
         /\ asSet(table) \subseteq 1 .. offered
         /\ Cardinality(refused) \in Nat /\ Cardinality(failed) \in Nat
<1>1. offered \in 0 .. MaxRows /\ MaxRows \in Nat  BY RowAssumption DEF RowInv, Types
<1>2. offered \in Nat /\ 1 .. offered \subseteq Rows  BY <1>1 DEF Rows
<1>3. /\ refused \subseteq 1 .. offered /\ failed \subseteq 1 .. offered
      /\ asSet(queue) \subseteq 1 .. offered /\ asSet(rows) \subseteq 1 .. offered
      /\ asSet(table) \subseteq 1 .. offered
  BY DEF RowInv, Accounted
<1>4. IsFiniteSet(1 .. offered)  BY <1>2, FS_Interval
<1> QED  BY <1>2, <1>3, <1>4, FS_Subset, FS_CardinalityType

LEMMA SampleOffered == ASSUME RowInv, WriteSample PROVE RowInv'
<1> DEFINE r == offered + 1
<1>0. /\ offered \in Nat /\ r \in Rows /\ offered' = r /\ offered' \in 0 .. MaxRows
      /\ 1 .. r = (1 .. offered) \cup {r} /\ \A n \in 1 .. offered : n < r
      /\ UNCHANGED <<rows, copying, writing, table, failed, breakdowns, quit, pool>>
  BY AllAreRows, RowAssumption DEF WriteSample, Rows, shutdown, RowInv, Types
<1> HIDE DEF r
<1>1. CASE /\ Len(queue) < QueueSize /\ queue' = Append(queue, r)
           /\ UNCHANGED <<refused, droppedRows>>
  <2>1. Before(asSet(queue) \cup asSet(rows) \cup asSet(table) \cup failed, {r})
    BY <1>0, AllAreRows DEF Before
  <2>2. /\ queue' \in Seq(Rows) /\ Len(queue') = Len(queue) + 1 /\ Len(queue) \in Nat
        /\ asSet(queue') = asSet(queue) \cup {r}
        /\ Ascending(queue) /\ Before(asSet(queue), {r}) => Ascending(queue')
    BY <1>0, <1>1, RowAppended DEF RowInv, Types
  <2>3. Types'  BY <1>0, <2>2 DEF RowInv, Types
  <2>4. Sizes'  BY <1>0, <1>1, <2>2, RowAssumption DEF RowInv, Sizes
  <2>5. InOrder'
    <3>1. Ascending(queue')  BY <2>1, <2>2 DEF RowInv, InOrder, Before
    <3> QED  BY <1>0, <2>1, <2>2, <3>1 DEF RowInv, InOrder, Before
  <2>6. Accounted'  BY <1>0, <1>1, <2>2 DEF RowInv, Accounted
  <2> QED  BY <2>3, <2>4, <2>5, <2>6 DEF RowInv
<1>2. CASE /\ refused' = refused \cup {r} /\ droppedRows' = droppedRows + 1 /\ UNCHANGED queue
  <2>1. r \notin refused  BY <1>0, AllAreRows
  <2>2. Cardinality(refused') = Cardinality(refused) + 1
    BY <1>2, <2>1, AllAreRows, FS_AddElement
  <2>3. Types' /\ Sizes' /\ InOrder'  BY <1>0, <1>2 DEF RowInv, Types, Sizes, InOrder
  <2>4. Accounted'
    <3>1. droppedRows' = Cardinality(refused') + Cardinality(failed')
      BY <1>0, <1>2, <2>2, AllAreRows DEF RowInv, Accounted
    <3> QED  BY <1>0, <1>2, <3>1 DEF RowInv, Accounted
  <2> QED  BY <2>3, <2>4 DEF RowInv
<1> QED  BY <1>0, <1>1, <1>2 DEF WriteSample

LEMMA SampleTaken == ASSUME RowInv, TakeRow PROVE RowInv'
<1>0. PICK r \in Rows : r = Head(queue)
  BY RowTaken DEF TakeRow, RowInv, Types
<1>1. /\ queue # <<>> /\ queue' = Tail(queue) /\ rows' = Append(rows, r)
      /\ copying' = (Len(rows') >= CopySize) /\ ~copying
      /\ UNCHANGED <<writing, offered, refused, table, failed, droppedRows, breakdowns, quit, pool>>
  BY <1>0 DEF TakeRow, ready, outcome, shutdown
<1>2. /\ queue' \in Seq(Rows) /\ Len(queue') = Len(queue) - 1 /\ Len(queue) \in Nat
      /\ asSet(queue) = {r} \cup asSet(queue')
      /\ Ascending(queue') /\ Before({r}, asSet(queue'))
  BY <1>0, <1>1, RowTaken DEF RowInv, Types, InOrder
<1>3. Before(asSet(rows), {r})  BY <1>2 DEF RowInv, InOrder, Before
<1>4. /\ rows' \in Seq(Rows) /\ Len(rows') = Len(rows) + 1 /\ Len(rows) \in Nat
      /\ asSet(rows') = asSet(rows) \cup {r} /\ Ascending(rows')
  BY <1>1, <1>3, RowAppended DEF RowInv, Types, InOrder
<1>5. Types'
  <2>1. copying' \in BOOLEAN  BY <1>1
  <2> QED  BY <1>1, <1>2, <1>4, <2>1 DEF RowInv, Types
<1>6. Sizes'
  <2>1. Len(rows) < CopySize  BY <1>1 DEF RowInv, Sizes
  <2>2. copying' \/ Len(rows') < CopySize
    <3>1. Len(rows') >= CopySize \/ Len(rows') < CopySize  BY <1>4, RowAssumption
    <3> QED  BY <1>1, <3>1, Zenon
  <2> QED  BY <1>1, <1>2, <1>4, <2>1, <2>2, RowAssumption DEF RowInv, Sizes
<1>7. InOrder'
  BY <1>1, <1>2, <1>4 DEF RowInv, InOrder, Before
<1>8. Accounted'  BY <1>1, <1>2, <1>4 DEF RowInv, Accounted
<1> QED  BY <1>5, <1>6, <1>7, <1>8 DEF RowInv

LEMMA CopyEnded ==
  ASSUME RowInv, NEW ok \in BOOLEAN, NEW stored \in BOOLEAN, EndCopy(ok, stored)
  PROVE  RowInv'
<1>1. /\ copying' = FALSE /\ rows' = <<>> /\ UNCHANGED <<queue, offered, refused, quit, pool>>
      /\ table' = (IF stored THEN table \o rows ELSE table) /\ (ok => stored)
      /\ writing' \in {"run", "flush", "ended"}
  BY DEF EndCopy, remaining, shutdown, RowInv, Types
<1>2. /\ table \o rows \in Seq(Rows) /\ asSet(table \o rows) = asSet(table) \cup asSet(rows)
      /\ Ascending(table \o rows)
  <2>1. Before(asSet(table), asSet(rows))  BY DEF RowInv, InOrder, Before
  <2> QED  BY <2>1, RowsJoined DEF RowInv, Types, InOrder
<1>3. asSet(rows') = {} /\ Len(rows') = 0 /\ rows' \in Seq(Rows) /\ Ascending(rows')
  BY <1>1 DEF asSet, Ascending
<1>4. breakdowns' \in 0 .. MaxBreakdowns
  <2>1. CASE ok  BY <2>1 DEF EndCopy, RowInv, Types
  <2>2. CASE ~ok
    <3>1. CASE pool  BY <2>2, <3>1, RowAssumption DEF EndCopy, RowInv, Types
    <3>2. CASE ~pool  BY <2>2, <3>2, RowAssumption DEF EndCopy, RowInv, Types
    <3> QED  BY <3>1, <3>2
  <2> QED  BY <2>1, <2>2
<1>5. Types'  BY <1>1, <1>2, <1>3, <1>4 DEF RowInv, Types
<1>6. Sizes'  BY <1>1, <1>3, RowAssumption DEF RowInv, Sizes
<1>7. failed' = IF ok THEN failed ELSE failed \cup asSet(rows)
  BY DEF EndCopy
<1>8. InOrder'
  <2>1. Ascending(table') /\ asSet(table') \subseteq asSet(table) \cup asSet(rows)
    BY <1>1, <1>2 DEF RowInv, InOrder
  <2>2. failed' \subseteq failed \cup asSet(rows)  BY <1>7
  <2> QED  BY <1>1, <1>3, <2>1, <2>2 DEF RowInv, InOrder, Before
<1>9. Accounted'
  <2>1. asSet(rows) \subseteq asSet(table') \cup failed' /\ failed \subseteq failed'
        /\ failed' \subseteq failed \cup asSet(rows) /\ asSet(table) \subseteq asSet(table')
        /\ asSet(table') \subseteq asSet(table) \cup asSet(rows)
    BY <1>1, <1>2, <1>7
  <2>2. CASE ok  BY <1>1, <1>3, <1>7, <2>1, <2>2 DEF EndCopy, RowInv, Accounted
  <2>3. CASE ~ok
    <3>1. droppedRows' = droppedRows + Len(rows)  BY <2>3 DEF EndCopy
    <3>2. IsFiniteSet(asSet(rows)) /\ Cardinality(asSet(rows)) = Len(rows) /\ Len(rows) \in Nat
      BY RowsCounted DEF RowInv, Types, InOrder
    <3>3. failed \cap asSet(rows) = {}
      <4>1. \A m \in asSet(rows) : m \in Int  BY AllAreRows
      <4> QED  BY <4>1 DEF RowInv, InOrder, Before
    <3>4. Cardinality(failed') = Cardinality(failed) + Cardinality(asSet(rows)) - 0
      BY <1>7, <2>3, <3>2, <3>3, AllAreRows, FS_Union, FS_EmptySet
    <3>5. droppedRows' = Cardinality(refused') + Cardinality(failed')
      BY <1>1, <3>1, <3>2, <3>4, AllAreRows DEF RowInv, Accounted
    <3> QED  BY <1>1, <1>3, <2>1, <3>5 DEF RowInv, Accounted
  <2> QED  BY <2>2, <2>3
<1> QED  BY <1>5, <1>6, <1>8, <1>9 DEF RowInv

LEMMA RowsAreKept == RowInv /\ [WriterNext]_writerVars => RowInv'
<1> SUFFICES ASSUME RowInv, [WriterNext]_writerVars PROVE RowInv'  OBVIOUS
<1> USE DEF RowInv, Types, Sizes, InOrder, Accounted, outcome, shutdown, progress
<1>1. CASE WriteSample  BY <1>1, SampleOffered
<1>2. CASE TakeRow  BY <1>2, SampleTaken
<1>3. CASE Second  BY <1>3 DEF Second
<1>4. CASE LastFlush  BY <1>4 DEF LastFlush
<1>5. ASSUME NEW ok \in BOOLEAN, NEW stored \in BOOLEAN, EndCopy(ok, stored) PROVE RowInv'
  BY <1>5, CopyEnded
<1>6. CASE CloseQuit  BY <1>6 DEF CloseQuit
<1>7. CASE ClosePool  BY <1>7 DEF ClosePool
<1>8. CASE UNCHANGED writerVars  BY <1>8 DEF writerVars
<1> QED  BY <1>1, <1>2, <1>3, <1>4, <1>5, <1>6, <1>7, <1>8 DEF WriterNext

\* The queue and the batch keep within their sizes (RowWriter.tla).
THEOREM RowTypesHold == WriterSpec => []WriterTypeOK
<1>1. RowInv => WriterTypeOK
  <2> SUFFICES ASSUME RowInv PROVE WriterTypeOK  OBVIOUS
  <2>1. droppedRows \in Nat /\ refused \subseteq Rows /\ failed \subseteq Rows
    BY AllAreRows DEF RowInv, Accounted
  <2> QED  BY <2>1 DEF RowInv, Types, Sizes, Rows, WriterTypeOK
<1> QED  BY <1>1, RowsAtInit, RowsAreKept, PTL DEF WriterSpec

\* For all sizes and any number of samples and failures: no sample is lost
\* uncounted, Dropped errs only by rows that were stored and reported an
\* error, and the table holds no sample twice (timescale_writer.go:53-108).
THEOREM DropsAlwaysCounted == WriterSpec => []DropsAreCounted
<1>1. RowInv => DropsAreCounted
  BY DEF RowInv, InOrder, Accounted, Ascending, DropsAreCounted
<1> QED  BY <1>1, RowsAtInit, RowsAreKept, PTL DEF WriterSpec
=============================================================================
