------------------------------- MODULE Ingester -------------------------------
(***************************************************************************)
(* The telemetry ingester for one contestant: the Kafka reader, the        *)
(* reorder buffer, the correctness validator, the aggregator and the       *)
(* publisher of metrics.  Contestants share none of the state below.  The  *)
(* reader, the flusher and the publisher are three goroutines; the         *)
(* aggregator's counters are atomics that the last two touch one by one.   *)
(***************************************************************************)
EXTENDS Integers, FiniteSets, OrderBook

CONSTANTS
  Events,        \* what the partition may hold when the module is run alone
  NoTest,        \* lastTestID of a contestant not yet seen
  MaxArrivals,   \* bound: events in the partition
  MaxSnapshots,  \* bound: snapshots published
  MaxCrashes,    \* bound: crashes of the process
  MaxMissed      \* bound: commits that fail

ASSUME IngesterAssumption ==
  /\ MaxArrivals \in Nat /\ MaxSnapshots \in Nat /\ MaxCrashes \in Nat /\ MaxMissed \in Nat
  /\ \A e \in Events : e.test # NoTest /\ e.seq \in Int

VARIABLES
  topic,      \* the contestant's partition of bot-telemetry
  position,   \* how many of its events the reader has fetched
  offset,     \* the committed offset
  missed,     \* history: commits that failed, whose events were dropped
  pending,    \* ReorderBuffer.pending
  group,      \* judged events the pipeline has yet to count and write
  counting,   \* has the first of group been added to totalOrders?
  book,       \* the contestant's shadow book
  lastTest,   \* lastTestID
  counts,     \* the aggregator's counters
  reading,    \* the snapshot being taken
  published,  \* the metrics hash in Redis
  snapshots,  \* snapshots taken
  judged,     \* history: samples written, with their verdicts
  crashes

own == <<position, offset, missed, pending, group, counting, book, lastTest, counts,
         reading, published, snapshots, judged, crashes>>
vars == <<topic, own>>

Zero == [total |-> 0, timedOut |-> 0, correct |-> 0, incorrect |-> 0]
NotReading == [step |-> "none", total |-> 0, timedOut |-> 0]

Init ==
  /\ topic = <<>> /\ position = 0 /\ offset = 0 /\ missed = 0
  /\ pending = <<>> /\ group = <<>> /\ counting = FALSE
  /\ book = NewBook /\ lastTest = NoTest
  /\ counts = Zero
  /\ reading = NotReading /\ published = [valid |-> 0, correct |-> 0] /\ snapshots = 0
  /\ judged = <<>>
  /\ crashes = 0

-----------------------------------------------------------------------------
(* The reader. *)

\* Mutated form of Committed: the offset is committed only when the pipeline
\* is idle, so a crash has the events read again.
CommittedLate(n) == IF pending = <<>> /\ group = <<>> THEN n ELSE offset

\* ReadMessage commits the offset of the event it returns.
Committed(n) == n

Consume ==
  /\ position < Len(topic)
  /\ position' = position + 1 /\ offset' = Committed(position + 1)
  /\ pending' = Append(pending, topic[position + 1])
  /\ UNCHANGED <<topic, missed, group, counting, book, lastTest, counts, reading,
                 published, snapshots, judged, crashes>>

\* The commit fails, at the broker or on the way back: ReadMessage returns
\* the error and not the event.  The loop logs it and goes on behind the
\* event or, if the reader has lost its place in the group, from the
\* committed offset.
CommitFails ==
  /\ position < Len(topic) /\ missed < MaxMissed
  /\ offset' \in {offset, position + 1}
  /\ position' \in {position + 1, offset'}
  /\ missed' = missed + 1
  /\ UNCHANGED <<topic, pending, group, counting, book, lastTest, counts, reading,
                 published, snapshots, judged, crashes>>

-----------------------------------------------------------------------------
(* The flusher: flush, ProcessBatch, ValidateBatch. *)

\* Mutated form of bySequence: events keep their order of arrival.
asArrived(events) == events

\* Mutated form of bySequence: a sequence number is kept once.
bySequenceOnce(events) ==
  LET first == {i \in DOMAIN events : \A k \in 1 .. i - 1 : events[k].seq # events[i].seq}
      order == SetToSortSeq(first, LAMBDA i, k : events[i].seq < events[k].seq)
  IN  [i \in DOMAIN order |-> events[order[i]]]

\* The events that sort.SliceStable puts before the one at i.
sortedBefore(events, i) ==
  {k \in DOMAIN events : \/ events[k].seq < events[i].seq
                         \/ events[k].seq = events[i].seq /\ k < i}

\* sort.SliceStable by sequence number.
bySequence(events) ==
  [n \in DOMAIN events |->
     events[CHOOSE i \in DOMAIN events : Cardinality(sortedBefore(events, i)) = n - 1]]

CancelAnswers == {"CANCELLED", "NOT_FOUND", "ALREADY_FILLED"}

\* Is the answer one the reference book allows?  Prices one tick apart or
\* less count as equal; prices here are ticks of more than that.
compare(expected, actual) ==
  \/ expected.status \in {"CANCELLED", "NOT_FOUND"} /\ actual.status \in CancelAnswers
  \/ expected.status = "REJECTED" /\ actual.status \in {"REJECTED", "PARTIAL", "FILLED"}
  \/ expected.status = "PENDING" /\ actual.status \in {"PARTIAL", "FILLED"}
  \/ expected.status = "FILLED" /\ actual.status = "PENDING"
  \/ /\ expected.status \in {"PENDING", "PARTIAL", "FILLED"}
     /\ \/ actual.status = expected.status
        \/ expected.status = "FILLED" /\ actual.status = "PARTIAL"
     /\ actual.qty >= 0
     /\ expected.status = "FILLED" =>
          /\ actual.qty <= expected.qty
          /\ expected.price > 0 /\ actual.price > 0 => actual.price = expected.price

\* Mutated form of bookFor: the book is kept from test to test.
bookKept(b, last, test) == b

\* A contestant's first event of another test than the last one gets an
\* empty book.
bookFor(b, last, test) == IF last \in {NoTest, test} THEN b ELSE NewBook

\* One round of ValidateBatch.  Timed-out orders are replayed like the others.
validate(acc, e) ==
  LET result == ProcessOrder(bookFor(acc.book, acc.last, e.test), replayed(e.order))
  IN  [book |-> result.book, last |-> e.test,
       out  |-> Append(acc.out, [event |-> e, correct |-> compare(result.fill, e.fill)])]

ValidateBatch(events) ==
  FoldLeft(validate, [book |-> book, last |-> lastTest, out |-> <<>>], events)

\* The buffer is swapped under its lock; the flusher then works alone.
Flush ==
  /\ pending # <<>> /\ group = <<>>
  /\ LET batch == ValidateBatch(bySequence(pending)) IN
       /\ book' = batch.book /\ lastTest' = batch.last /\ group' = batch.out
  /\ pending' = <<>>
  /\ UNCHANGED <<topic, position, offset, missed, counting, counts, reading, published,
                 snapshots, judged, crashes>>

\* Mutated form of CountOrder: only answered orders count.
CountAnswered ==
  /\ group # <<>> /\ ~counting
  /\ counts' = IF Head(group).event.timedOut THEN counts ELSE [counts EXCEPT !.total = @ + 1]
  /\ counting' = TRUE
  /\ UNCHANGED <<topic, position, offset, missed, pending, group, book, lastTest, reading,
                 published, snapshots, judged, crashes>>

\* ProcessEvent, first half: totalOrders.Add(1).
CountOrder ==
  /\ group # <<>> /\ ~counting
  /\ counts' = [counts EXCEPT !.total = @ + 1]
  /\ counting' = TRUE
  /\ UNCHANGED <<topic, position, offset, missed, pending, group, book, lastTest, reading,
                 published, snapshots, judged, crashes>>

\* The counter an event belongs to.
classify(v) ==
  IF v.event.timedOut THEN "timedOut" ELSE IF v.correct THEN "correct" ELSE "incorrect"

\* ProcessEvent, second half, and WriteSample.
CountVerdict ==
  /\ counting
  /\ counts' = [counts EXCEPT ![classify(Head(group))] = @ + 1]
  /\ judged' = Append(judged, Head(group))
  /\ group' = Tail(group) /\ counting' = FALSE
  /\ UNCHANGED <<topic, position, offset, missed, pending, book, lastTest, reading,
                 published, snapshots, crashes>>

-----------------------------------------------------------------------------
(* The publisher: GetSnapshot loads three counters one after the other. *)

ReadTotal ==
  /\ reading.step = "none" /\ snapshots < MaxSnapshots
  /\ lastTest # NoTest   \* the registry knows the contestant
  /\ reading' = [step |-> "timedOut", total |-> counts.total, timedOut |-> 0]
  /\ UNCHANGED <<topic, position, offset, missed, pending, group, counting, book,
                 lastTest, counts, published, snapshots, judged, crashes>>

ReadTimedOut ==
  /\ reading.step = "timedOut"
  /\ reading' = [reading EXCEPT !.step = "correct", !.timedOut = counts.timedOut]
  /\ UNCHANGED <<topic, position, offset, missed, pending, group, counting, book,
                 lastTest, counts, published, snapshots, judged, crashes>>

\* correctOrders.Load, the rate, and PublishSnapshot.
ReadCorrect ==
  /\ reading.step = "correct"
  /\ published' = [valid |-> reading.total - reading.timedOut, correct |-> counts.correct]
  /\ reading' = NotReading /\ snapshots' = snapshots + 1
  /\ UNCHANGED <<topic, position, offset, missed, pending, group, counting, book,
                 lastTest, counts, judged, crashes>>

-----------------------------------------------------------------------------

\* The process dies: its buffers, its book and its counters are gone.
Crash ==
  /\ crashes < MaxCrashes /\ crashes' = crashes + 1
  /\ pending' = <<>> /\ group' = <<>> /\ counting' = FALSE
  /\ book' = NewBook /\ lastTest' = NoTest
  /\ counts' = Zero /\ reading' = NotReading
  /\ position' = offset   \* where the next process starts
  /\ UNCHANGED <<topic, offset, missed, published, snapshots, judged>>

\* The bot fleet's producer writes to the partition, not always in sequence;
\* its writer's retries may write an event twice.
Arrive(e) ==
  /\ Len(topic) < MaxArrivals
  /\ topic' = Append(topic, e)
  /\ UNCHANGED own

Next ==
  \/ \E e \in Events : Arrive(e)
  \/ Consume \/ CommitFails
  \/ Flush \/ CountOrder \/ CountVerdict
  \/ ReadTotal \/ ReadTimedOut \/ ReadCorrect
  \/ Crash

\* The reader and the flusher are goroutines that always get to run.  The
\* flusher's weak fairness is written out: a flush is possible exactly when
\* it is FlushReady.
FlushReady == pending # <<>> /\ group = <<>>
FlusherFairness == <>[]FlushReady => []<><<Flush>>_vars

Spec == Init /\ [][Next]_vars
        /\ WF_vars(Consume) /\ FlusherFairness /\ WF_vars(CountOrder) /\ WF_vars(CountVerdict)

-----------------------------------------------------------------------------
(* Properties *)

Occurrences(e, s) == Cardinality({i \in DOMAIN s : s[i] = e})

TypeOK ==
  /\ topic \in Seq(Events)
  /\ position \in 0 .. Len(topic) /\ offset \in 0 .. position /\ missed \in 0 .. MaxMissed
  /\ counting \in BOOLEAN /\ (counting => group # <<>>)
  /\ counts \in [{"total", "timedOut", "correct", "incorrect"} -> Nat]
  /\ reading.step \in {"none", "timedOut", "correct"}
  /\ crashes \in 0 .. MaxCrashes

\* At every moment the counters account for each counted order exactly once,
\* but for the one whose verdict is on its way (aggregator.go:50-70).
CountersAddUp ==
  counts.total = counts.timedOut + counts.correct + counts.incorrect
                   + (IF counting THEN 1 ELSE 0)

\* No event is handed to the row writer more often than the partition holds
\* it, whatever crashes happen between reading it and judging it, and
\* whatever commits fail: the offset is committed first (consumer.go:37-51).
WrittenAtMostOnce ==
  \A e \in Events :
    Occurrences(e, [i \in DOMAIN judged |-> judged[i].event]) <= Occurrences(e, topic)

\* GetSnapshot loads its counters one after the other, so the rate it
\* publishes can be above one, but never by more orders than were counted
\* while it was taken (aggregator.go:84-91).
RateErrsByWhatMoves ==
  [][snapshots' # snapshots =>
       published'.correct - published'.valid <= counts.total - reading.total]_vars

\* A timed-out order never counts for or against the contestant: without a
\* crash the verdict counters are those of the answered orders
\* (aggregator.go:62-69, README.md:343-344).
TimeoutsAreExcluded ==
  crashes = 0 =>
    /\ counts.correct = Cardinality({i \in DOMAIN judged :
                           judged[i].correct /\ ~judged[i].event.timedOut})
    /\ counts.timedOut = Cardinality({i \in DOMAIN judged : judged[i].event.timedOut})

\* Without a crash every event of the partition is judged and handed to the
\* row writer (which may refuse it: pipeline.go:59 ignores that), but for at
\* most one event for each commit that failed (consumer.go:38-51,
\* reorder_buffer.go:48-61, pipeline.go:40-74).
EverythingIsJudged ==
  \A n \in 1 .. MaxArrivals : Len(topic) >= n ~> Len(judged) + missed >= n \/ crashes > 0
=============================================================================
