--------------------------- MODULE TelemetryProofs ---------------------------
(***************************************************************************)
(* Proofs, for any number of bots, tests, orders and stops at any moment,  *)
(* and any sizes of the producer's buffers: where orders are numbered one  *)
(* at a time (Serial), the hold covers the delay (Timely) and a test       *)
(* starts after the last one is judged (not Lagging), a correct engine is  *)
(* never faulted and the shadow book follows it, until something disturbs  *)
(* them.                                                                   *)
(*                                                                         *)
(* The argument: the orders numbered and not yet judged are a log without  *)
(* gaps.  Each is in one place, held by its bot or somewhere on the way to *)
(* the ingester; replaying the log on the shadow book gives the engine's   *)
(* book and the engine's answers; and the sort puts it in order again,     *)
(* because nothing of it is missing when the buffer is flushed.            *)
(***************************************************************************)
EXTENDS Telemetry, DataLemmas, SequenceTheorems

\* The lemmas about books and orders.  They are about values: the variables of
\* their module play no part in them.
Books == INSTANCE AlgorithmProofs WITH
  Ids <- Nat, Prices <- Nat \ {0}, Quantities <- Nat \ {0},
  Ranked <- {}, TPSs <- {}, P99s <- {}, MaxRate <- 1, HighTPS <- 0, MaxOrders <- 0,
  row <- <<>>, table <- <<>>, prevRank <- <<>>, prevScore <- <<>>, ticker <- {}, told <- <<>>,
  book <- NewBook, submitted <- {}, reused <- FALSE, arrivals <- 0, fill <- 0,
  NoQuote <- 0, own <- 0, quoted <- <<>>, accepted <- TRUE, alone <- TRUE

\* The orders bots send, the answers to them, and what bots report.
Orders ==
  {o \in [id : Nat, type : Buys \cup Sells \cup {"CANCEL"}, price : Nat, qty : Nat] :
     /\ o.type # "CANCEL" => o.qty > 0
     /\ o.type \in Limits => o.price > 0}

Fills == Books!FillSet
Reports ==
  [test : Nat \ {0}, seq : Nat, order : Orders, fill : Fills \cup {Unanswered},
   timedOut : BOOLEAN]

\* The lemmas about the ingester's sort and its batches, for the reports below.
Batches == INSTANCE IngesterProofs WITH
  Events <- Reports, NoTest <- 0, MaxArrivals <- 0, MaxSnapshots <- 0, MaxCrashes <- 0, MaxMissed <- 0,
  Ring <- 2, Smooth <- 1, Slots <- 1, Latencies <- {0}, MaxSeconds <- 0, MaxTurns <- 0,
  MaxOrders <- 0, now <- 0, ring <- <<>>, lastSec <- 0, slots <- <<>>, turn <- 0,
  allTime <- <<>>, orders <- <<>>, heard <- <<>>, turns <- 0,
  Partition <- {}, Idle <- 0, MaxOffset <- 0, MaxFailures <- 0,
  end <- <<>>, committed <- <<>>, todo <- {}, partition <- 0, last <- 0, total <- 0,
  lastLag <- 0, failures <- 0, seen <- <<>>, exact <- TRUE,
  QueueSize <- 1, CopySize <- 1, MaxRows <- 0, MaxBreakdowns <- 0,
  queue <- <<>>, rows <- <<>>, copying <- FALSE, writing <- "run", table <- <<>>,
  offered <- 0, refused <- {}, failed <- {}, droppedRows <- 0, breakdowns <- 0,
  quit <- FALSE, pool <- TRUE

-----------------------------------------------------------------------------
(* The book. *)

\* Three modules have the operators of the book: they are the same.
LEMMA SameBooks ==
  ASSUME NEW b, NEW o
  PROVE  /\ Books!Submit(b, o) = Submit(b, o) /\ Books!Cancel(b, o) = Cancel(b, o)
         /\ Ingest!ProcessOrder(b, o) = ProcessOrder(b, o)
         /\ Ingest!replayed(o) = replayed(o) /\ Ingest!NewBook = NewBook
<1>1. Books!Submit(b, o) = Submit(b, o)
  BY DEF Books!Submit, Submit, Books!match, match, Books!insert, insert, Books!matchLevel,
    matchLevel, Books!takeFrom, takeFrom, Books!fillOf, fillOf, Books!Fill, Fill, Books!crosses,
    crosses, Books!better, better, Books!Buys, Buys, Books!Limits, Limits, Books!FoldLeft,
    FoldLeft, Books!MapThenFoldSet, MapThenFoldSet, Books!SelectInSeq, SelectInSeq,
    Books!InsertAt, InsertAt, Books!Min, Min, Books!Max, Max
<1>2. Ingest!Submit(b, o) = Submit(b, o)
  BY DEF Ingest!Submit, Submit, Ingest!match, match, Ingest!insert, insert, Ingest!matchLevel,
    matchLevel, Ingest!takeFrom, takeFrom, Ingest!fillOf, fillOf, Ingest!Fill, Fill, Ingest!crosses,
    crosses, Ingest!better, better, Ingest!Buys, Buys, Ingest!Limits, Limits, Ingest!FoldLeft,
    FoldLeft, Ingest!MapThenFoldSet, MapThenFoldSet, Ingest!SelectInSeq, SelectInSeq,
    Ingest!InsertAt, InsertAt, Ingest!Min, Min, Ingest!Max, Max
<1>3. Books!Cancel(b, o) = Cancel(b, o)
  BY DEF Books!Cancel, Cancel, Books!cancelled, cancelled, Books!without, without,
    Books!SelectInSeq, SelectInSeq, Books!RemoveFirstMatch, RemoveFirstMatch, Books!RemoveAt,
    RemoveAt, Books!Fill, Fill, Books!Min, Min
<1>4. \A x : Ingest!Cancel(b, x) = Cancel(b, x)
  BY DEF Ingest!Cancel, Cancel, Ingest!cancelled, cancelled, Ingest!without, without,
    Ingest!SelectInSeq, SelectInSeq, Ingest!RemoveFirstMatch, RemoveFirstMatch, Ingest!RemoveAt,
    RemoveAt, Ingest!Fill, Fill, Ingest!Min, Min
<1>5. Ingest!ProcessOrder(b, o) = ProcessOrder(b, o)
  BY <1>2, <1>4, Zenon DEF Ingest!ProcessOrder, ProcessOrder
<1> QED  BY <1>1, <1>3, <1>5 DEF Ingest!replayed, replayed, Ingest!NewBook, NewBook

\* What the facts about books rest on.
LEMMA BooksAssumed == Books!IsFiniteSet({})
<1>1. <<>> \in Seq({}) /\ \A s \in {} : \E n \in 1 .. Len(<<>>) : <<>>[n] = s  OBVIOUS
<1> QED  BY <1>1 DEF Books!IsFiniteSet

\* A book that can be.
GoodBook(b) == Books!GoodBook(b)

\* The book after a replayed order, and its answer.
After(b, o)   == ProcessOrder(b, replayed(o)).book
FillFor(b, o) == ProcessOrder(b, replayed(o)).fill

\* A book stays one and always answers.
LEMMA Answers ==
  ASSUME NEW b, GoodBook(b), NEW o \in Orders
  PROVE  GoodBook(After(b, o)) /\ FillFor(b, o) \in Fills
<1> DEFINE r == replayed(o)
<1>1. /\ r.id = o.id /\ r.type = o.type /\ r.price = o.price /\ r.qty = o.qty /\ r.seq = 0
      /\ o.id \in Nat /\ o.qty \in Nat /\ o.price \in Nat
      /\ o.type \in Buys \cup Sells \cup {"CANCEL"}
      /\ (o.type # "CANCEL" => o.qty > 0) /\ (o.type \in Limits => o.price > 0)
  BY DEF replayed, Orders
<1> HIDE DEF r
<1>2. CASE o.type = "CANCEL"
  <2>1. ProcessOrder(b, r) = Cancel(b, r.id)  BY <1>1, <1>2 DEF ProcessOrder
  <2>2. Books!GoodBook(Books!Cancel(b, r.id).book)
    BY BooksAssumed, Books!CancelResult, SMT DEF GoodBook
  <2>3. Books!Cancel(b, r.id) = Cancel(b, r.id)  BY SameBooks, Zenon
  <2>4. Cancel(b, r.id).fill \in Fills
    BY DEF Cancel, Fill, Fills, Books!FillSet, Books!Statuses
  <2> QED  BY <2>1, <2>2, <2>3, <2>4 DEF After, FillFor, GoodBook, r
<1>3. CASE o.type # "CANCEL"
  <2>1. ProcessOrder(b, r) = Submit(b, r)  BY <1>1, <1>3 DEF ProcessOrder
  <2>2. Books!AnOrder(r)
    BY <1>1, <1>3 DEF Books!AnOrder, Books!Buys, Books!Sells, Books!Limits, Buys, Sells, Limits
  <2>3. Books!GoodBook(Books!Submit(b, r).book)
    BY <2>2, BooksAssumed, Books!SubmitResult, SMT DEF GoodBook
  <2>4. Books!Submit(b, r).fill \in Books!FillSet
    BY <2>2, BooksAssumed, Books!FillResult DEF GoodBook
  <2>5. Books!Submit(b, r) = Submit(b, r)  BY SameBooks, Zenon
  <2> QED  BY <2>1, <2>3, <2>4, <2>5 DEF After, FillFor, GoodBook, Fills, r
<1> QED  BY <1>2, <1>3

LEMMA EmptyBook == GoodBook(NewBook)
<1>1. NewBook.bids = <<>> /\ NewBook.asks = <<>> /\ NewBook.orders = {}
      /\ NewBook = [bids |-> NewBook.bids, asks |-> NewBook.asks, orders |-> NewBook.orders]
  BY DEF NewBook
<1> QED  BY <1>1 DEF GoodBook, Books!GoodBook, Books!Ordered, Books!Rests

\* The validator agrees with what the book itself says.
LEMMA OwnAnswerIsCorrect == ASSUME NEW f \in Fills PROVE Ingest!compare(f, f)
<1>1. /\ f.qty \in Nat
      /\ f.status \in {"CANCELLED", "NOT_FOUND", "PENDING", "REJECTED", "PARTIAL", "FILLED"}
  BY DEF Fills, Books!FillSet, Books!Statuses
<1>2. CASE f.status \in {"CANCELLED", "NOT_FOUND"}  BY <1>2 DEF Ingest!compare, Ingest!CancelAnswers
<1>3. CASE f.status = "REJECTED"  BY <1>3 DEF Ingest!compare
<1>4. CASE f.status \in {"PENDING", "PARTIAL"}  BY <1>1, <1>4 DEF Ingest!compare
<1>5. CASE f.status = "FILLED"  BY <1>1, <1>5 DEF Ingest!compare
<1> QED  BY <1>1, <1>2, <1>3, <1>4, <1>5

\* Was an order answered at all?
Answered(f) == f.status # ""

-----------------------------------------------------------------------------
(* A batch: the ingester's operators are those the lemmas are about. *)

LEMMA BatchesAssumed ==
  /\ Batches!IsFiniteSet({0}) /\ Batches!IsFiniteSet({})
  /\ \A e \in Reports : e.test # 0 /\ e.seq \in Int
<1>1. <<>> \in Seq({}) /\ \A s \in {} : \E n \in 1 .. Len(<<>>) : <<>>[n] = s  OBVIOUS
<1>2. <<0>> \in Seq({0}) /\ \A s \in {0} : \E n \in 1 .. Len(<<0>>) : <<0>>[n] = s
  <2>1. <<0>> \in Seq({0}) /\ Len(<<0>>) = 1 /\ <<0>>[1] = 0 /\ 1 \in 1 .. 1  OBVIOUS
  <2> QED  BY <2>1
<1>3. \A e \in Reports : e.test # 0 /\ e.seq \in Int  BY DEF Reports
<1> QED  BY <1>1, <1>2, <1>3 DEF Batches!IsFiniteSet

LEMMA SameProcessing ==
  ASSUME NEW b, NEW o PROVE Ingest!ProcessOrder(b, o) = Batches!ProcessOrder(b, o)
<1>1. Ingest!Submit(b, o) = Batches!Submit(b, o)
  BY DEF Ingest!Submit, Batches!Submit, Ingest!match, Batches!match, Ingest!insert, Batches!insert,
    Ingest!matchLevel, Batches!matchLevel, Ingest!takeFrom, Batches!takeFrom, Ingest!fillOf,
    Batches!fillOf, Ingest!Fill, Batches!Fill, Ingest!crosses, Batches!crosses, Ingest!better,
    Batches!better, Ingest!Buys, Batches!Buys, Ingest!Limits, Batches!Limits, Ingest!FoldLeft,
    Batches!FoldLeft, Ingest!MapThenFoldSet, Batches!MapThenFoldSet, Ingest!SelectInSeq,
    Batches!SelectInSeq, Ingest!InsertAt, Batches!InsertAt, Ingest!Min, Batches!Min, Ingest!Max,
    Batches!Max
<1>2. \A x : Ingest!Cancel(b, x) = Batches!Cancel(b, x)
  BY DEF Ingest!Cancel, Batches!Cancel, Ingest!cancelled, Batches!cancelled, Ingest!without,
    Batches!without, Ingest!SelectInSeq, Batches!SelectInSeq, Ingest!RemoveFirstMatch,
    Batches!RemoveFirstMatch, Ingest!RemoveAt, Batches!RemoveAt, Ingest!Fill, Batches!Fill,
    Ingest!Min, Batches!Min
<1> QED  BY <1>1, <1>2, Zenon DEF Ingest!ProcessOrder, Batches!ProcessOrder

LEMMA SameRound ==
  ASSUME NEW acc, NEW e PROVE Ingest!validate(acc, e) = Batches!validate(acc, e)
<1>1. \A b, o : Ingest!ProcessOrder(b, o) = Batches!ProcessOrder(b, o)  BY SameProcessing
<1>2. \A x, y : Ingest!compare(x, y) = Batches!compare(x, y)
  BY DEF Ingest!compare, Batches!compare, Ingest!CancelAnswers, Batches!CancelAnswers
<1>3. \A x, y, z : Ingest!bookFor(x, y, z) = Batches!bookFor(x, y, z)
  BY DEF Ingest!bookFor, Batches!bookFor, Ingest!NewBook, Batches!NewBook
<1>4. \A x : Ingest!replayed(x) = Batches!replayed(x)  BY DEF Ingest!replayed, Batches!replayed
<1> QED  BY <1>1, <1>2, <1>3, <1>4, Zenon DEF Batches!validate, Ingest!validate

LEMMA SameBatches ==
  ASSUME NEW ev
  PROVE  /\ Ingest!ValidateBatch(ev) = Batches!ValidateBatch(ev)
         /\ Ingest!bySequence(ev) = Batches!bySequence(ev)
<1>1. Ingest!bySequence(ev) = Batches!bySequence(ev)
  BY DEF Batches!bySequence, Ingest!bySequence, Batches!sortedBefore, Ingest!sortedBefore,
    Batches!Cardinality, Ingest!Cardinality
<1>2. \A a, e : Ingest!validate(a, e) = Batches!validate(a, e)  BY SameRound
<1>3. \A S : Ingest!Max(S) = Batches!Max(S)  BY DEF Ingest!Max, Batches!Max
<1>4. Ingest!ValidateBatch(ev) = Batches!ValidateBatch(ev)
  BY <1>2, <1>3, Zenon DEF Batches!ValidateBatch, Ingest!ValidateBatch, Batches!FoldLeft,
    Ingest!FoldLeft, Batches!MapThenFoldSet, Ingest!MapThenFoldSet
<1> QED  BY <1>1, <1>4

\* One round, in the terms used here.
LEMMA RoundIs ==
  ASSUME NEW acc, NEW e
  PROVE  LET b == Ingest!bookFor(acc.book, acc.last, e.test) IN
         Batches!validate(acc, e) =
           [book |-> After(b, e.order), last |-> e.test,
            out |-> Append(acc.out, [event |-> e,
                      correct |-> Ingest!compare(FillFor(b, e.order), e.fill)])]
<1>1. \A b, o : Ingest!ProcessOrder(b, o) = ProcessOrder(b, o) /\ Ingest!replayed(o) = replayed(o)
  BY SameBooks
<1>2. Batches!validate(acc, e) = Ingest!validate(acc, e)  BY SameRound
<1> QED  BY <1>1, <1>2, Zenon DEF Ingest!validate, After, FillFor

\* Each number after lo up to hi once, in any order.
Gapless(ev, lo, hi) ==
  /\ \A i \in 1 .. Len(ev) : ev[i].seq \in lo + 1 .. hi
  /\ \A i, k \in 1 .. Len(ev) : ev[i].seq = ev[k].seq => i = k
  /\ \A n \in lo + 1 .. hi : \E i \in 1 .. Len(ev) : ev[i].seq = n

\* Sorted, a batch without gaps has the number lo + n at place n.
LEMMA SortedAt ==
  ASSUME NEW ev \in Seq(Reports), NEW lo \in Nat, NEW hi \in Nat, lo <= hi, Gapless(ev, lo, hi)
  PROVE  /\ Ingest!bySequence(ev) \in Seq(Reports) /\ Len(Ingest!bySequence(ev)) = hi - lo
         /\ \A n \in 1 .. hi - lo : \E i \in 1 .. Len(ev) :
              ev[i].seq = lo + n /\ Ingest!bySequence(ev)[n] = ev[i]
<1> USE DEF Gapless
<1> DEFINE D == 1 .. Len(ev)
           s == Batches!bySequence(ev)
<1>1. /\ Len(ev) \in Nat /\ D = DOMAIN ev
      /\ \A i \in D : ev[i].seq \in Int /\ ev[i].seq > lo /\ ev[i].seq <= hi
  OBVIOUS
<1>2. /\ s \in Seq(Reports) /\ Len(s) = Len(ev)
      /\ \A i \in DOMAIN ev : s[Batches!Cardinality(Batches!sortedBefore(ev, i)) + 1] = ev[i]
  BY BatchesAssumed, Batches!SortKeepsEvents
<1>3. \A S : Batches!Cardinality(S) = Cardinality(S)  BY DEF Batches!Cardinality, Cardinality
<1> HIDE DEF s
<1>4. Len(ev) = hi - lo
  <2> DEFINE R == lo + 1 .. hi
             f == [i \in D |-> ev[i].seq]
  <2>1. f \in [D -> R] /\ (\A i, k \in D : f[i] = f[k] => i = k) /\ \A n \in R : \E i \in D : f[i] = n
    OBVIOUS
  <2>2. IsFiniteSet(D) /\ Cardinality(D) = Len(ev)
    <3>1. IsFiniteSet(1 .. Len(ev)) /\ Cardinality(1 .. Len(ev)) = IF 1 > Len(ev) THEN 0 ELSE Len(ev) - 1 + 1
      BY <1>1, FS_Interval
    <3> QED  BY <1>1, <3>1
  <2>3. Cardinality(R) = hi - lo
    <3>1. IsFiniteSet(lo + 1 .. hi) /\ Cardinality(lo + 1 .. hi) = IF lo + 1 > hi THEN 0 ELSE hi - (lo + 1) + 1
      BY FS_Interval
    <3> QED  BY <3>1
  <2> HIDE DEF D, R, f
  <2>4. f \in Bijection(D, R)  BY <2>1 DEF Bijection, Injection, Surjection, IsInjective
  <2>5. ExistsBijection(D, R)  BY <2>4 DEF ExistsBijection
  <2>6. Cardinality(D) = Cardinality(R)  BY <2>2, <2>5, FS_Bijection, Zenon
  <2> QED  BY <2>2, <2>3, <2>6
<1>5. ASSUME NEW i \in D, NEW m \in Nat, ev[i].seq = lo + m + 1
      PROVE  Cardinality(Batches!sortedBefore(ev, i)) = m
  <2> DEFINE before == Batches!sortedBefore(ev, i)
             at == [n \in 1 .. m |-> CHOOSE k \in D : ev[k].seq = lo + n]
  <2>1. before = {k \in D : ev[k].seq < ev[i].seq}
    BY <1>1 DEF Batches!sortedBefore
  <2>2. ASSUME NEW n \in 1 .. m
        PROVE  at[n] \in D /\ ev[at[n]].seq = lo + n /\ at[n] \in before
    <3>1. lo + n \in lo + 1 .. hi  BY <1>1, <1>5
    <3>2. \E k \in D : ev[k].seq = lo + n  BY <3>1
    <3>3. at[n] \in D /\ ev[at[n]].seq = lo + n  BY <3>2
    <3> HIDE DEF at, before
    <3> QED  BY <1>5, <2>1, <3>3
  <2>3. \A k \in before : \E n \in 1 .. m : at[n] = k
    <3> TAKE k \in before
    <3>1. k \in D /\ ev[k].seq < ev[i].seq  BY <2>1
    <3>2. PICK n \in 1 .. m : ev[k].seq = lo + n
      <4>1. PICK x \in Int : x = ev[k].seq /\ x > lo  BY <1>1, <3>1
      <4>2. x < lo + m + 1
        <5> HIDE DEF at, before
        <5> QED  BY <1>5, <3>1, <4>1
      <4>3. x - lo \in 1 .. m /\ x = lo + (x - lo)  BY <4>1, <4>2
      <4> QED  BY <4>1, <4>3
    <3> HIDE DEF at, before
    <3>3. at[n] \in D /\ ev[at[n]].seq = lo + n  BY <2>2
    <3>4. at[n] = k  BY <3>1, <3>2, <3>3
    <3> QED  BY <3>4
  <2>4. ASSUME NEW n \in 1 .. m, NEW k \in 1 .. m, at[n] = at[k] PROVE n = k
    <3> HIDE DEF at, before
    <3>1. ev[at[n]].seq = lo + n /\ ev[at[n]].seq = lo + k  BY <2>2, <2>4
    <3> QED  BY <3>1
  <2>5. at \in [1 .. m -> before]  BY <2>2
  <2> HIDE DEF at, before
  <2>6. at \in Bijection(1 .. m, before)
    BY <2>3, <2>4, <2>5 DEF Bijection, Injection, Surjection, IsInjective
  <2>7. ExistsBijection(1 .. m, before)  BY <2>6 DEF ExistsBijection
  <2>8. IsFiniteSet(1 .. m) /\ Cardinality(1 .. m) = m  BY FS_Interval
  <2>9. Cardinality(before) = Cardinality(1 .. m)  BY <2>7, <2>8, FS_Bijection, Zenon
  <2> QED  BY <2>8, <2>9 DEF before
<1>6. ASSUME NEW n \in 1 .. hi - lo PROVE \E i \in D : ev[i].seq = lo + n /\ s[n] = ev[i]
  <2>1. lo + n \in lo + 1 .. hi  OBVIOUS
  <2>2. PICK i \in D : ev[i].seq = lo + n  BY <2>1
  <2>3. n - 1 \in Nat /\ ev[i].seq = lo + (n - 1) + 1 /\ (n - 1) + 1 = n  BY <2>2
  <2>4. Cardinality(Batches!sortedBefore(ev, i)) = n - 1  BY <1>5, <2>3
  <2>5. s[Batches!Cardinality(Batches!sortedBefore(ev, i)) + 1] = ev[i]  BY <1>1, <1>2
  <2> QED  BY <1>3, <2>2, <2>3, <2>4, <2>5
<1>7. Ingest!bySequence(ev) = s  BY SameBatches, Zenon DEF s
<1> QED  BY <1>2, <1>4, <1>6, <1>7

-----------------------------------------------------------------------------
(* The invariant. *)

\* What is being judged or was: an answered order is correct.
RightVerdicts ==
  {v \in [event : Reports, correct : BOOLEAN] : Answered(v.event.fill) => v.correct}

Loops ==
  {r \in [pc : {"idle", "sent", "handled", "over", "stamped"}, order : Orders \cup {NoOrder},
          fill : Fills \cup {Unanswered}, timedOut : BOOLEAN, seq : Nat, mine : SUBSET Nat] :
     /\ r.pc # "idle" => r.order \in Orders
     /\ r.pc = "over" => r.fill = Unanswered}

Runner ==
  /\ stage \in {"idle", "running", "stopping"} /\ (stage # "idle" => test # 0)
  /\ test \in Nat /\ seq \in Nat /\ sent \in Nat
  /\ bot \in [Bots -> Loops] /\ \A b \in Bots : bot[b].pc # "idle" => test # 0
  /\ late = {}

\* Where events are before they are judged, oldest first; taken of them were
\* judged or are being judged.
Way   == topic \o batch \o channel
taken == position - Len(pending)

Piped ==
  /\ channel \in Seq(Reports) /\ batch \in Seq(Reports) /\ topic \in Seq(Reports)
  /\ writer = TRUE /\ faults = 0
  /\ pending \in Seq(Reports) /\ position \in Nat
  /\ position <= Len(topic) /\ Len(pending) <= position
  /\ \A i \in 1 .. Len(pending) : pending[i] = topic[taken + i]

AllRight ==
  /\ group \in Seq(RightVerdicts) /\ judged \in Seq(RightVerdicts)
  /\ counting \in BOOLEAN /\ (counting => group # <<>>)

Booked == lastTest \in Nat /\ lastTest <= test /\ (lastTest = 0 => book = NewBook)

\* The log of the orders numbered and not yet judged: n is what rec[n] says
\* of the nth order of the test, and bk[n] the shadow book after it.
Log(base, rec, bk) ==
  /\ base \in Nat /\ seq \in Nat /\ base <= seq
  /\ bk[base] = Ingest!bookFor(book, lastTest, test)
  /\ \A n \in base .. seq : GoodBook(bk[n])
  /\ \A n \in base + 1 .. seq :
       /\ rec[n] \in Reports /\ rec[n].test = test /\ rec[n].seq = n
       /\ bk[n] = After(bk[n - 1], rec[n].order)
       /\ Answered(rec[n].fill) => rec[n].fill = FillFor(bk[n - 1], rec[n].order)

\* Each of them is in one place: on the way or held by the bot that made it.
OnWay == {i \in 1 .. Len(Way) : i > taken}
Held  == {b \in Bots : bot[b].pc = "stamped"}
reportOf(b) == [test |-> test, seq |-> bot[b].seq, order |-> bot[b].order, fill |-> bot[b].fill,
                timedOut |-> bot[b].timedOut]

Carried(base, rec) ==
  /\ \A i \in OnWay : Way[i].seq \in base + 1 .. seq /\ Way[i] = rec[Way[i].seq]
  /\ \A b \in Held : bot[b].seq \in base + 1 .. seq /\ reportOf(b) = rec[bot[b].seq]
  /\ \A i, k \in OnWay : Way[i].seq = Way[k].seq => i = k
  /\ \A b, c \in Held : bot[b].seq = bot[c].seq => b = c
  /\ \A i \in OnWay, b \in Held : Way[i].seq # bot[b].seq
  /\ \A n \in base + 1 .. seq :
       (\E i \in OnWay : Way[i].seq = n) \/ (\E b \in Held : bot[b].seq = n)

\* The engine has the book of the log, but for an order it answered that has
\* no number yet; until an order is given up, which is when the test stops.
Follows(bk) ==
  /\ \A b, c \in Bots : bot[b].pc \in Awaiting /\ bot[c].pc \in Awaiting => b = c
  /\ stage = "running" => \A b \in Bots : bot[b].pc # "over"
  /\ \A b \in Bots : bot[b].pc = "handled" =>
       engine = After(bk[seq], bot[b].order) /\ bot[b].fill = FillFor(bk[seq], bot[b].order)
  /\ /\ stage = "running" \/ \E b \in Bots : bot[b].pc = "sent"
     /\ \A b \in Bots : bot[b].pc # "handled"
     => engine = bk[seq]

Logged == \E base, rec, bk : Log(base, rec, bk) /\ Carried(base, rec) /\ Follows(bk)

Calm == Runner /\ Piped /\ AllRight /\ Booked /\ Logged

Counters == timeouts \in Nat /\ resetFailures \in Nat /\ dropped \in Nat

Inv == Counters /\ (Undisturbed => Calm)

-----------------------------------------------------------------------------
(* A batch is judged along the log. *)

\* After n events of it.
JudgedTo(acc, base, bk, n) ==
  /\ Ingest!bookFor(acc[n].book, acc[n].last, test) = bk[base + n]
  /\ n # 0 => acc[n].book = bk[base + n] /\ acc[n].last = test
  /\ acc[n].out \in Seq(RightVerdicts)

LEMMA NextJudged ==
  ASSUME NEW base, NEW rec, NEW bk, Log(base, rec, bk), NEW acc, NEW n \in Nat, base + n < seq,
         JudgedTo(acc, base, bk, n), acc[n + 1] = Batches!validate(acc[n], rec[base + n + 1])
  PROVE  JudgedTo(acc, base, bk, n + 1)
<1> DEFINE e == rec[base + n + 1]
           b == bk[base + n]
           v == [event |-> e, correct |-> Ingest!compare(FillFor(b, e.order), e.fill)]
<1>1. /\ base \in Nat /\ seq \in Int /\ e \in Reports /\ e.test = test
      /\ bk[base + n + 1] = After(b, e.order) /\ GoodBook(b)
      /\ (Answered(e.fill) => e.fill = FillFor(b, e.order))
      /\ e.order \in Orders
  <2>1. base \in Nat /\ seq \in Nat  BY DEF Log
  <2>2. base + n + 1 \in base + 1 .. seq /\ base + n \in base .. seq /\ (base + n + 1) - 1 = base + n
    BY <2>1
  <2>3. e \in Reports  BY <2>2 DEF Log
  <2> QED  BY <2>1, <2>2, <2>3 DEF Log, Reports
<1>2. Ingest!bookFor(acc[n].book, acc[n].last, e.test) = b  BY <1>1 DEF JudgedTo
<1>3. acc[n + 1] = [book |-> After(b, e.order), last |-> e.test, out |-> Append(acc[n].out, v)]
  BY <1>2, RoundIs
<1>4. v \in RightVerdicts
  <2>1. Ingest!compare(FillFor(b, e.order), e.fill) \in BOOLEAN  BY Zenon DEF Ingest!compare
  <2>2. Answered(e.fill) => Ingest!compare(FillFor(b, e.order), e.fill)
    <3>1. FillFor(b, e.order) \in Fills  BY <1>1, Answers
    <3> QED  BY <1>1, <3>1, OwnAnswerIsCorrect
  <2> HIDE DEF e, b
  <2> QED  BY <1>1, <2>1, <2>2 DEF RightVerdicts
<1> HIDE DEF e, b, v
<1>5. acc[n + 1].book = bk[base + n + 1] /\ acc[n + 1].last = test  BY <1>1, <1>3
<1>6. Ingest!bookFor(acc[n + 1].book, acc[n + 1].last, test) = acc[n + 1].book
  BY <1>5 DEF Ingest!bookFor
<1>7. acc[n + 1].out \in Seq(RightVerdicts)  BY <1>3, <1>4 DEF JudgedTo
<1>8. base + (n + 1) = base + n + 1 /\ n + 1 # 0  BY <1>1
<1> QED  BY <1>5, <1>6, <1>7, <1>8 DEF JudgedTo

LEMMA BatchJudged ==
  ASSUME NEW base, NEW rec, NEW bk, Log(base, rec, bk), seq \in Nat, base < seq,
         NEW ev \in Seq(Reports), Len(ev) = seq - base,
         \A n \in 1 .. Len(ev) : ev[n] = rec[base + n]
  PROVE  /\ Ingest!ValidateBatch(ev).book = bk[seq] /\ Ingest!ValidateBatch(ev).last = test
         /\ Ingest!ValidateBatch(ev).out \in Seq(RightVerdicts)
<1>1. PICK acc : Batches!Rounds(acc, ev)  BY BatchesAssumed, Batches!BatchGoesRound
<1>2. base \in Nat  BY DEF Log
<1> DEFINE T == {n \in Nat : n <= Len(ev) => JudgedTo(acc, base, bk, n)}
<1>3. 0 \in T
  <2>1. acc[0] = [book |-> book, last |-> lastTest, out |-> <<>>]
    BY <1>1 DEF Batches!Rounds, Batches!batchStart
  <2>2. JudgedTo(acc, base, bk, 0)  BY <1>2, <2>1 DEF Log, JudgedTo
  <2> QED  BY <2>2
<1>4. ASSUME NEW n \in Nat, n \in T PROVE n + 1 \in T
  <2> SUFFICES ASSUME n + 1 <= Len(ev) PROVE JudgedTo(acc, base, bk, n + 1)  OBVIOUS
  <2>1. JudgedTo(acc, base, bk, n)  BY <1>2, <1>4
  <2>2. n + 1 \in 1 .. Len(ev) /\ (n + 1) - 1 = n /\ base + n < seq /\ base + (n + 1) = base + n + 1
    BY <1>2
  <2>3. acc[n + 1] = Batches!validate(acc[n], rec[base + n + 1])
    <3> HIDE DEF T
    <3> QED  BY <1>1, <2>2 DEF Batches!Rounds
  <2> HIDE DEF T
  <2> QED  BY <2>1, <2>2, <2>3, NextJudged
<1> HIDE DEF T
<1>5. Len(ev) \in T  BY <1>3, <1>4, Induct
<1>6. JudgedTo(acc, base, bk, Len(ev)) /\ Len(ev) # 0 /\ base + Len(ev) = seq
  BY <1>2, <1>5 DEF T
<1>7. Ingest!ValidateBatch(ev) = acc[Len(ev)]
  <2>1. Batches!ValidateBatch(ev) = acc[Len(ev)]  BY <1>1 DEF Batches!Rounds
  <2> QED  BY <2>1, SameBatches
<1> QED  BY <1>6, <1>7 DEF JudgedTo

-----------------------------------------------------------------------------
(* Steps of the test runner and of the bots. *)

LEMMA CalmAtInit == Init => Inv
<1> SUFFICES ASSUME Init PROVE Inv  OBVIOUS
<1>1. Counters  BY DEF Init, Counters, Fleet!Init
<1>2. IdleBot({}) \in Loops /\ IdleBot({}).pc = "idle"  BY DEF IdleBot, Loops
<1>3. Runner
  <2>1. bot \in [Bots -> Loops] /\ \A b \in Bots : bot[b].pc = "idle"  BY <1>2 DEF Init
  <2> QED  BY <2>1 DEF Runner, Init
<1>4. /\ channel = <<>> /\ batch = <<>> /\ topic = <<>> /\ pending = <<>> /\ position = 0
      /\ group = <<>> /\ judged = <<>> /\ counting = FALSE /\ writer = TRUE /\ faults = 0
      /\ book = NewBook /\ lastTest = 0 /\ engine = NewBook /\ test = 0 /\ seq = 0
      /\ \A b \in Bots : bot[b].pc = "idle"
  BY SameBooks DEF Init, Fleet!Init, Ingest!Init, IdleBot
<1>5. Piped /\ AllRight /\ Booked
  <2>1. \A S : <<>> \in Seq(S)  OBVIOUS
  <2>2. Len(<<>>) = 0 /\ 1 .. 0 = {}  OBVIOUS
  <2>3. Piped  BY <1>4, <2>1, <2>2 DEF Piped
  <2>4. AllRight  BY <1>4, <2>1, Zenon DEF AllRight
  <2> QED  BY <1>4, <2>3, <2>4 DEF Booked
<1>6. Logged
  <2> DEFINE bk == [n \in {0} |-> NewBook]
  <2>1. bk[0] = NewBook /\ GoodBook(bk[0])  BY EmptyBook
  <2> HIDE DEF bk
  <2>2. Ingest!bookFor(book, lastTest, test) = bk[0]  BY <1>4, <2>1 DEF Ingest!bookFor
  <2>3. Log(0, <<>>, bk)
    <3>1. \A n \in 0 .. 0 : n = 0  OBVIOUS
    <3> QED  BY <1>4, <2>1, <2>2, <3>1 DEF Log
  <2>4. OnWay = {} /\ Held = {}
    <3>1. Way = <<>> \o <<>> \o <<>>  BY <1>4 DEF Way
    <3>2. Len(Way) = 0  BY <3>1
    <3> QED  BY <1>4, <3>2 DEF OnWay, Held
  <2>5. Carried(0, <<>>)  BY <1>4, <2>4 DEF Carried
  <2>6. Follows(bk)  BY <1>4, <2>1 DEF Follows, Awaiting
  <2> QED  BY <2>3, <2>5, <2>6 DEF Logged
<1> QED  BY <1>1, <1>3, <1>5, <1>6 DEF Inv, Calm

\* A step that touches neither the way nor a bot that holds an event.
LEMMA LogStays ==
  ASSUME NEW base, NEW rec, NEW bk, Log(base, rec, bk), UNCHANGED <<seq, book, lastTest, test>>
  PROVE  Log(base, rec, bk)'
BY DEF Log

LEMMA CarriedStays ==
  ASSUME NEW base, NEW rec, Carried(base, rec), Way' = Way, taken' = taken, seq' = seq, test' = test,
         \A b \in Bots : bot'[b].pc = "stamped" <=> bot[b].pc = "stamped",
         \A b \in Held : bot'[b] = bot[b]
  PROVE  Carried(base, rec)'
<1>1. OnWay' = OnWay  BY DEF OnWay
<1>2. Held' = Held  BY DEF Held
<1>3. \A b \in Held : bot'[b] = bot[b] /\ reportOf(b)' = reportOf(b)  BY DEF reportOf
<1> QED  BY <1>1, <1>2, <1>3 DEF Carried

LEMMA WayStays ==
  ASSUME UNCHANGED pipeline
  PROVE  /\ Way' = Way /\ taken' = taken /\ (Piped => Piped') /\ (AllRight => AllRight')
         /\ UNCHANGED <<book, lastTest>>
<1>1. UNCHANGED <<channel, batch, topic, position, pending, writer, faults, group, judged, counting,
                  book, lastTest>>
  BY DEF pipeline, fleetOwn, ingestOwn
<1>2. Way' = Way /\ taken' = taken  BY <1>1 DEF Way, taken
<1> QED  BY <1>1, <1>2 DEF Piped, AllRight

LEMMA SendKeepsCalm ==
  ASSUME Serial, Calm, NEW b \in Bots, NEW order \in Orders, NEW mine \in SUBSET Nat,
         sent' \in Nat, Send(b, order, mine)
  PROVE  Calm'
<1> DEFINE r == [IdleBot(mine) EXCEPT !.pc = IF stage = "running" THEN "sent" ELSE "over",
                                      !.order = order]
<1>1. /\ stage \in {"running", "stopping"} /\ bot[b].pc = "idle"
      /\ bot' = [bot EXCEPT ![b] = r]
      /\ UNCHANGED <<stage, test, seq, engine, late, pipeline>>
      /\ \A c \in Bots \ {b} : bot[c].pc \notin Awaiting
  BY DEF Send, Turn
<1>2. /\ r.pc = (IF stage = "running" THEN "sent" ELSE "over") /\ r.order = order
      /\ r.fill = Unanswered /\ r \in Loops
  BY DEF IdleBot, Loops
<1> HIDE DEF r
<1>3. bot \in [Bots -> Loops]  BY DEF Calm, Runner
<1>4. bot'[b] = r /\ \A c \in Bots \ {b} : bot'[c] = bot[c]  BY <1>1, <1>3
<1>5. Runner'
  <2>1. bot' \in [Bots -> Loops]  BY <1>1, <1>2, <1>3
  <2> QED  BY <1>1, <2>1 DEF Calm, Runner
<1>6. Piped' /\ AllRight' /\ Booked' /\ Way' = Way /\ taken' = taken /\ UNCHANGED <<book, lastTest>>
  BY <1>1, WayStays DEF Calm, Booked
<1>7. PICK base, rec, bk : Log(base, rec, bk) /\ Carried(base, rec) /\ Follows(bk)
  BY DEF Calm, Logged
<1>8. Log(base, rec, bk)'  BY <1>1, <1>6, <1>7, LogStays
<1>9. Carried(base, rec)'
  <2>1. /\ \A c \in Bots : bot'[c].pc = "stamped" <=> bot[c].pc = "stamped"
        /\ \A c \in Held : bot'[c] = bot[c]
    BY <1>1, <1>2, <1>4 DEF Held
  <2> QED  BY <1>1, <1>6, <1>7, <2>1, CarriedStays
<1>10. Follows(bk)'
  <2>1. \A c \in Bots : bot'[c].pc \in Awaiting => c = b  BY <1>1, <1>4
  <2>2. \A c \in Bots : bot'[c].pc # "handled"  BY <1>1, <1>2, <1>4 DEF Awaiting
  <2>3. \A c \in Bots : bot[c].pc # "handled"  BY <1>1 DEF Awaiting
  <2>4. stage = "running" => engine = bk[seq]  BY <1>7, <2>3 DEF Follows
  <2>5. stage # "running" => \A c \in Bots : bot'[c].pc # "sent"  BY <1>1, <1>2, <1>4 DEF Awaiting
  <2>6. stage = "running" => \A c \in Bots : bot'[c].pc # "over"
    BY <1>2, <1>4, <1>7 DEF Follows
  <2> QED  BY <1>1, <2>1, <2>2, <2>4, <2>5, <2>6 DEF Follows
<1> QED  BY <1>5, <1>6, <1>8, <1>9, <1>10 DEF Calm, Logged

\* A step of one bot whose order is awaited before and after it.
LEMMA AwaitingStays ==
  ASSUME Calm, NEW b \in Bots, bot[b].pc \in Awaiting, bot'[b].pc \in Awaiting,
         bot' \in [Bots -> Loops], \A c \in Bots \ {b} : bot'[c] = bot[c],
         UNCHANGED <<stage, test, seq, sent, late, pipeline>>,
         NEW base, NEW rec, NEW bk, Log(base, rec, bk), Carried(base, rec),
         Follows(bk)'
  PROVE  Calm'
<1>1. \A c \in Bots : bot[c].pc # "idle" => test # 0  BY DEF Calm, Runner
<1>2. Runner'
  <2>1. test # 0  BY <1>1 DEF Awaiting
  <2> QED  BY <2>1 DEF Calm, Runner
<1>3. Piped' /\ AllRight' /\ Booked' /\ Way' = Way /\ taken' = taken /\ UNCHANGED <<book, lastTest>>
  BY WayStays DEF Calm, Booked
<1>4. Log(base, rec, bk)'  BY <1>3, LogStays
<1>5. Carried(base, rec)'
  <2>1. /\ \A c \in Bots : bot'[c].pc = "stamped" <=> bot[c].pc = "stamped"
        /\ \A c \in Held : bot'[c] = bot[c]
    BY DEF Held, Awaiting
  <2> QED  BY <1>3, <2>1, CarriedStays
<1> QED  BY <1>2, <1>3, <1>4, <1>5 DEF Calm, Logged

LEMMA HandleKeepsCalm == ASSUME Calm, NEW b \in Bots, Handle(b) PROVE Calm'
<1>1. bot \in [Bots -> Loops] /\ bot[b].pc = "sent" /\ bot[b].order \in Orders
  BY DEF Calm, Runner, Handle, Loops
<1>2. PICK base, rec, bk : Log(base, rec, bk) /\ Carried(base, rec) /\ Follows(bk)
  BY DEF Calm, Logged
<1>3. \A c \in Bots : bot[c].pc \in Awaiting => c = b  BY <1>1, <1>2 DEF Follows, Awaiting
<1>4. engine = bk[seq]
  <2>1. \A c \in Bots : bot[c].pc # "handled"  BY <1>1, <1>3 DEF Awaiting
  <2> QED  BY <1>1, <1>2, <2>1 DEF Follows
<1>5. GoodBook(engine)
  <2>1. seq \in base .. seq  BY <1>2 DEF Log
  <2> QED  BY <1>2, <1>4, <2>1 DEF Log
<1>6. /\ engine' = After(engine, bot[b].order)
      /\ bot' = [bot EXCEPT ![b].pc = "handled", ![b].fill = FillFor(engine, bot[b].order)]
      /\ UNCHANGED <<stage, test, seq, sent, late, pipeline>>
  BY DEF Handle, Answer, After, FillFor
<1>7. FillFor(engine, bot[b].order) \in Fills  BY <1>1, <1>5, Answers
<1>8. /\ bot'[b] = [bot[b] EXCEPT !.pc = "handled", !.fill = FillFor(engine, bot[b].order)]
      /\ \A c \in Bots \ {b} : bot'[c] = bot[c]
      /\ bot' = [bot EXCEPT ![b] = bot'[b]]
  BY <1>1, <1>6
<1>9. /\ bot'[b].pc = "handled" /\ bot'[b].order = bot[b].order /\ bot'[b] \in Loops
      /\ bot'[b].fill = FillFor(engine, bot[b].order)
  BY <1>1, <1>7, <1>8 DEF Loops
<1>10. bot' \in [Bots -> Loops]  BY <1>1, <1>8, <1>9
<1>11. Follows(bk)'
  <2>1. \A c \in Bots : bot'[c].pc \in Awaiting => c = b  BY <1>3, <1>8
  <2>2. \A c \in Bots : bot'[c].pc # "over"  BY <1>3, <1>8, <1>9 DEF Awaiting
  <2>3. \A c \in Bots : bot'[c].pc = "handled" => c = b  BY <2>1 DEF Awaiting
  <2> QED  BY <1>4, <1>6, <1>9, <2>1, <2>2, <2>3 DEF Follows
<1> QED  BY <1>1, <1>2, <1>6, <1>8, <1>9, <1>10, <1>11, AwaitingStays DEF Awaiting

LEMMA AbortKeepsCalm == ASSUME Calm, NEW b \in Bots, Abort(b) PROVE Calm'
<1>1. /\ bot \in [Bots -> Loops] /\ bot[b].pc \in {"sent", "handled"} /\ stage = "stopping"
      /\ bot' = [bot EXCEPT ![b].pc = "over", ![b].fill = Unanswered]
      /\ UNCHANGED <<stage, test, seq, sent, late, pipeline>>
      /\ bot[b].order \in Orders
  BY DEF Calm, Runner, Abort, Loops
<1>2. PICK base, rec, bk : Log(base, rec, bk) /\ Carried(base, rec) /\ Follows(bk)
  BY DEF Calm, Logged
<1>3. \A c \in Bots : bot[c].pc \in Awaiting => c = b  BY <1>1, <1>2 DEF Follows, Awaiting
<1>4. /\ bot'[b] = [bot[b] EXCEPT !.pc = "over", !.fill = Unanswered]
      /\ \A c \in Bots \ {b} : bot'[c] = bot[c]
      /\ bot' = [bot EXCEPT ![b] = bot'[b]]
  BY <1>1
<1>5. bot'[b].pc = "over" /\ bot'[b] \in Loops  BY <1>1, <1>4 DEF Loops
<1>6. bot' \in [Bots -> Loops]  BY <1>1, <1>4, <1>5
<1>7. Follows(bk)'
  <2>1. \A c \in Bots : bot'[c].pc \in Awaiting => c = b  BY <1>3, <1>4
  <2>2. \A c \in Bots : bot'[c].pc # "sent" /\ bot'[c].pc # "handled"  BY <1>5, <2>1 DEF Awaiting
  <2> QED  BY <1>1, <2>1, <2>2 DEF Follows
<1> QED  BY <1>1, <1>2, <1>4, <1>5, <1>6, <1>7, AwaitingStays DEF Awaiting

LEMMA StopKeepsCalm == ASSUME Calm, Stop \/ Drained PROVE Calm'
<1>1. /\ UNCHANGED <<test, seq, sent, bot, engine, late, pipeline>>
      /\ \/ stage' = "stopping" /\ stage = "running"
         \/ stage' = "idle" /\ stage = "stopping"
  BY DEF Stop, Drained
<1>2. Runner'  BY <1>1 DEF Calm, Runner
<1>3. Piped' /\ AllRight' /\ Booked' /\ Way' = Way /\ taken' = taken /\ UNCHANGED <<book, lastTest>>
  BY <1>1, WayStays DEF Calm, Booked
<1>4. PICK base, rec, bk : Log(base, rec, bk) /\ Carried(base, rec) /\ Follows(bk)
  BY DEF Calm, Logged
<1>5. Log(base, rec, bk)'  BY <1>1, <1>3, <1>4, LogStays
<1>6. Carried(base, rec)'  BY <1>1, <1>3, <1>4, CarriedStays
<1>7. Follows(bk)'  BY <1>1, <1>4 DEF Follows
<1> QED  BY <1>2, <1>3, <1>5, <1>6, <1>7 DEF Calm, Logged

\* When all is written nothing of the log is left.
LEMMA NothingOnWay == ASSUME Piped, AllWritten PROVE OnWay = {} /\ Held = {}
<1>1. Way = topic \o <<>> \o <<>>  BY DEF AllWritten, AllRead, Way
<1>2. topic \in Seq(Reports) /\ position = Len(topic) /\ pending = <<>> /\ taken = position - Len(pending)
  BY DEF Piped, AllWritten, AllRead, taken
<1>3. Len(Way) = Len(topic) /\ taken = Len(topic)  BY <1>1, <1>2
<1> QED  BY <1>2, <1>3 DEF OnWay, Held, AllWritten, AllRead

LEMMA StartKeepsCalm ==
  ASSUME ~Lagging, Calm, Start, resetFailures \in Nat, resetFailures' = 0
  PROVE  Calm'
<1>1. /\ AllWritten /\ stage' = "running" /\ test' = test + 1 /\ seq' = 0
      /\ bot' = [b \in Bots |-> IdleBot({})] /\ engine' = NewBook
      /\ UNCHANGED <<sent, late, pipeline>> /\ test \in Nat
  BY DEF Start, Calm, Runner
<1>2. IdleBot({}) \in Loops /\ IdleBot({}).pc = "idle"  BY DEF IdleBot, Loops
<1>3. Runner'
  <2>1. bot' \in [Bots -> Loops] /\ \A b \in Bots : bot'[b].pc = "idle"  BY <1>1, <1>2
  <2> QED  BY <1>1, <2>1 DEF Calm, Runner
<1>4. /\ Piped' /\ AllRight' /\ Booked' /\ Way' = Way /\ taken' = taken
      /\ UNCHANGED <<book, lastTest>>
  BY <1>1, WayStays DEF Calm, Booked
<1> DEFINE bk == [n \in {0} |-> NewBook]
<1>5. bk[0] = NewBook /\ GoodBook(bk[0])  BY EmptyBook
<1> HIDE DEF bk
<1>6. Ingest!bookFor(book, lastTest, test)' = NewBook
  <2>1. lastTest # 0 => lastTest # test + 1  BY <1>1 DEF Calm, Booked
  <2>2. lastTest = 0 => book = NewBook  BY DEF Calm, Booked
  <2>3. Ingest!NewBook = NewBook  BY SameBooks
  <2> QED  BY <1>1, <1>4, <2>1, <2>2, <2>3 DEF Ingest!bookFor
<1>7. Log(0, <<>>, bk)'
  <2>1. \A n \in 0 .. 0 : n = 0  OBVIOUS
  <2> QED  BY <1>1, <1>5, <1>6, <2>1 DEF Log
<1>8. OnWay' = {} /\ Held' = {}
  <2>1. OnWay = {}  BY <1>1, NothingOnWay DEF Calm
  <2>2. \A b \in Bots : bot'[b].pc = "idle"  BY <1>1, <1>2
  <2> QED  BY <1>4, <2>1, <2>2 DEF OnWay, Held
<1>9. Carried(0, <<>>)'  BY <1>1, <1>8 DEF Carried
<1>10. Follows(bk)'
  <2>1. \A b \in Bots : bot'[b].pc = "idle"  BY <1>1, <1>2
  <2> QED  BY <1>1, <1>5, <2>1 DEF Follows, Awaiting
<1> QED  BY <1>3, <1>4, <1>7, <1>9, <1>10 DEF Calm, Logged

LEMMA StampKeepsCalm == ASSUME Calm, NEW b \in Bots, Stamp(b) PROVE Calm'
<1>1. /\ bot \in [Bots -> Loops] /\ bot[b].pc \in {"handled", "over"}
      /\ bot' = [bot EXCEPT ![b].pc = "stamped", ![b].seq = seq + 1]
      /\ seq' = seq + 1 /\ UNCHANGED <<stage, test, sent, engine, late, pipeline>>
      /\ bot[b].order \in Orders /\ test \in Nat /\ test # 0 /\ seq \in Nat
  BY DEF Calm, Runner, Stamp, Loops
<1>2. PICK base, rec, bk : Log(base, rec, bk) /\ Carried(base, rec) /\ Follows(bk)
  BY DEF Calm, Logged
<1>3. \A c \in Bots : bot[c].pc \in Awaiting => c = b  BY <1>1, <1>2 DEF Follows, Awaiting
<1>4. /\ bot'[b] = [bot[b] EXCEPT !.pc = "stamped", !.seq = seq + 1]
      /\ \A c \in Bots \ {b} : bot'[c] = bot[c]
      /\ bot' = [bot EXCEPT ![b] = bot'[b]]
  BY <1>1
<1>5. /\ bot'[b].pc = "stamped" /\ bot'[b].seq = seq + 1 /\ bot'[b].order = bot[b].order
      /\ bot'[b].fill = bot[b].fill /\ bot'[b].timedOut = bot[b].timedOut /\ bot'[b] \in Loops
  BY <1>1, <1>4 DEF Loops
<1>6. Runner'
  <2>1. bot' \in [Bots -> Loops]  BY <1>1, <1>4, <1>5
  <2> QED  BY <1>1, <2>1 DEF Calm, Runner
<1>7. Piped' /\ AllRight' /\ Booked' /\ Way' = Way /\ taken' = taken /\ UNCHANGED <<book, lastTest>>
  BY <1>1, WayStays DEF Calm, Booked
<1> DEFINE e == [test |-> test, seq |-> seq + 1, order |-> bot[b].order, fill |-> bot[b].fill,
                 timedOut |-> bot[b].timedOut]
<1>8. base \in Nat /\ base <= seq /\ GoodBook(bk[seq])  BY <1>1, <1>2 DEF Log
<1>9. /\ e \in Reports /\ e.test = test /\ e.seq = seq + 1 /\ e.order = bot[b].order
      /\ e.fill = bot[b].fill /\ reportOf(b)' = e
  <2>1. bot[b].fill \in Fills \cup {Unanswered} /\ bot[b].timedOut \in BOOLEAN  BY <1>1 DEF Loops
  <2>2. e \in Reports  BY <1>1, <2>1 DEF Reports
  <2>3. reportOf(b)' = e  BY <1>1, <1>5 DEF reportOf
  <2> QED  BY <2>2, <2>3
<1> HIDE DEF e
<1>10. PICK rec2, bk2 :
         /\ rec2[seq + 1] = e /\ \A n \in base + 1 .. seq : rec2[n] = rec[n]
         /\ bk2[seq + 1] = After(bk[seq], bot[b].order)
         /\ \A n \in base .. seq : bk2[n] = bk[n]
  <2> DEFINE rec2 == [n \in base + 1 .. seq + 1 |-> IF n = seq + 1 THEN e ELSE rec[n]]
             bk2 == [n \in base .. seq + 1 |->
                       IF n = seq + 1 THEN After(bk[seq], bot[b].order) ELSE bk[n]]
  <2>1. /\ rec2[seq + 1] = e /\ \A n \in base + 1 .. seq : rec2[n] = rec[n]
        /\ bk2[seq + 1] = After(bk[seq], bot[b].order)
        /\ \A n \in base .. seq : bk2[n] = bk[n]
    BY <1>1, <1>8
  <2> HIDE DEF rec2, bk2
  <2> QED  BY <2>1
<1>11. GoodBook(bk2[seq + 1])  BY <1>1, <1>8, <1>10, Answers
<1>12. Answered(e.fill) => e.fill = FillFor(bk[seq], e.order)
  <2>1. CASE bot[b].pc = "handled"  BY <1>2, <1>9, <2>1 DEF Follows
  <2>2. CASE bot[b].pc = "over"
    <3>1. bot[b].fill = Unanswered  BY <1>1, <2>2 DEF Loops
    <3>2. ~Answered(Unanswered)
      <4>1. Unanswered.status = ""  BY Zenon DEF Unanswered, Fill
      <4> QED  BY <4>1, Zenon DEF Answered
    <3> QED  BY <1>9, <3>1, <3>2
  <2> QED  BY <1>1, <2>1, <2>2
<1>13. ASSUME NEW n \in base + 1 .. seq + 1
       PROVE  /\ rec2[n] \in Reports /\ rec2[n].test = test /\ rec2[n].seq = n
              /\ bk2[n] = After(bk2[n - 1], rec2[n].order)
              /\ Answered(rec2[n].fill) => rec2[n].fill = FillFor(bk2[n - 1], rec2[n].order)
  <2>1. CASE n = seq + 1
    <3>1. seq \in base .. seq /\ n - 1 = seq  BY <1>8, <1>1, <2>1
    <3>2. bk2[n - 1] = bk[seq] /\ rec2[n] = e /\ bk2[n] = After(bk[seq], bot[b].order)
      BY <1>10, <2>1, <3>1
    <3> QED  BY <1>9, <1>12, <2>1, <3>2
  <2>2. CASE n # seq + 1
    <3>1. n \in base + 1 .. seq /\ n \in base .. seq /\ n - 1 \in base .. seq  BY <1>1, <1>8, <2>2
    <3>2. rec2[n] = rec[n] /\ bk2[n] = bk[n] /\ bk2[n - 1] = bk[n - 1]  BY <1>10, <3>1
    <3> QED  BY <1>2, <3>1, <3>2 DEF Log
  <2> QED  BY <2>1, <2>2
<1>14. Log(base, rec2, bk2)'
  <2>1. bk2[base] = bk[base] /\ bk[base] = Ingest!bookFor(book, lastTest, test)
    BY <1>2, <1>8, <1>10 DEF Log
  <2>2. \A n \in base .. seq + 1 : GoodBook(bk2[n])
    <3> TAKE n \in base .. seq + 1
    <3>1. n = seq + 1 \/ n \in base .. seq  BY <1>1, <1>8
    <3> QED  BY <1>2, <1>10, <1>11, <3>1 DEF Log
  <2>3. base <= seq + 1 /\ seq + 1 \in Nat  BY <1>1, <1>8
  <2> QED  BY <1>1, <1>7, <1>8, <1>13, <2>1, <2>2, <2>3 DEF Log
<1>15. Held' = Held \cup {b} /\ b \notin Held /\ OnWay' = OnWay
  BY <1>1, <1>4, <1>5, <1>7 DEF Held, OnWay
<1>16. ASSUME NEW c \in Held PROVE bot'[c] = bot[c] /\ reportOf(c)' = reportOf(c)
  BY <1>1, <1>4, <1>15 DEF Held, reportOf
<1>17. Carried(base, rec2)'
  <2>1. ASSUME NEW n \in base + 1 .. seq
        PROVE  n \in base + 1 .. seq + 1 /\ n # seq + 1 /\ rec2[n] = rec[n]
    BY <1>1, <1>8, <1>10
  <2>2. \A i \in OnWay : /\ Way[i].seq \in base + 1 .. seq + 1 /\ Way[i] = rec2[Way[i].seq]
                         /\ Way[i].seq # seq + 1
    BY <1>2, <2>1 DEF Carried
  <2>3. \A c \in Held : /\ bot[c].seq \in base + 1 .. seq + 1 /\ reportOf(c) = rec2[bot[c].seq]
                        /\ bot[c].seq # seq + 1
    BY <1>2, <2>1 DEF Carried
  <2>4. seq + 1 \in base + 1 .. seq + 1  BY <1>1, <1>8
  <2>5. \A c \in Held' : bot'[c].seq \in base + 1 .. seq + 1 /\ reportOf(c)' = rec2[bot'[c].seq]
    BY <1>5, <1>9, <1>10, <1>15, <1>16, <2>3, <2>4
  <2>6. \A c, d \in Held' : bot'[c].seq = bot'[d].seq => c = d
    BY <1>2, <1>5, <1>15, <1>16, <2>3 DEF Carried
  <2>7. \A i \in OnWay, c \in Held' : Way[i].seq # bot'[c].seq
    BY <1>2, <1>5, <1>15, <1>16, <2>2 DEF Carried
  <2>8. ASSUME NEW n \in base + 1 .. seq + 1
        PROVE  (\E i \in OnWay : Way[i].seq = n) \/ (\E c \in Held' : bot'[c].seq = n)
    <3>1. CASE n = seq + 1  BY <1>5, <1>15, <3>1
    <3>2. CASE n # seq + 1
      <4>1. n \in base + 1 .. seq  BY <1>1, <1>8, <3>2
      <4> QED  BY <1>2, <1>15, <1>16, <4>1 DEF Carried
    <3> QED  BY <3>1, <3>2
  <2>9. \A i, k \in OnWay : Way[i].seq = Way[k].seq => i = k  BY <1>2 DEF Carried
  <2>10. seq' = seq + 1 /\ Way' = Way /\ OnWay' = OnWay  BY <1>1, <1>7, <1>15
  <2> QED  BY <2>2, <2>5, <2>6, <2>7, <2>8, <2>9, <2>10 DEF Carried
<1>18. Follows(bk2)'
  <2>1. \A c \in Bots : bot'[c].pc \notin Awaiting
    BY <1>3, <1>4, <1>5 DEF Awaiting
  <2>2. \A c \in Bots : bot'[c].pc # "over" /\ bot'[c].pc # "handled" /\ bot'[c].pc # "sent"
    BY <2>1 DEF Awaiting
  <2>3. stage = "running" => engine = bk2[seq + 1]  BY <1>1, <1>2, <1>10 DEF Follows
  <2> QED  BY <1>1, <2>1, <2>2, <2>3 DEF Follows
<1> QED  BY <1>6, <1>7, <1>14, <1>17, <1>18 DEF Calm, Logged

-----------------------------------------------------------------------------
(* Steps of the producer and of the reader: the way stays as it is. *)

LEMMA Joined ==
  ASSUME NEW S, NEW a \in Seq(S), NEW b \in Seq(S)
  PROVE  /\ a \o b \in Seq(S) /\ Len(a \o b) = Len(a) + Len(b)
         /\ \A i \in 1 .. Len(a) : (a \o b)[i] = a[i]
OBVIOUS

LEMMA WayTyped ==
  ASSUME Piped
  PROVE  /\ Way \in Seq(Reports) /\ Len(Way) \in Nat /\ Len(topic) <= Len(Way)
         /\ taken \in Nat /\ taken <= Len(topic)
         /\ \A i \in 1 .. Len(topic) : Way[i] = topic[i]
<1>1. topic \in Seq(Reports) /\ batch \in Seq(Reports) /\ channel \in Seq(Reports)
      /\ position \in Nat /\ pending \in Seq(Reports) /\ position <= Len(topic) /\ Len(pending) <= position
  BY DEF Piped
<1> DEFINE w == topic \o batch
<1>2. /\ w \in Seq(Reports) /\ Len(w) = Len(topic) + Len(batch)
      /\ \A i \in 1 .. Len(topic) : w[i] = topic[i]
  BY <1>1, Joined
<1> HIDE DEF w
<1>3. /\ w \o channel \in Seq(Reports) /\ Len(w \o channel) = Len(w) + Len(channel)
      /\ \A i \in 1 .. Len(w) : (w \o channel)[i] = w[i]
  BY <1>1, <1>2, Joined
<1>4. Way = w \o channel  BY DEF Way, w
<1> QED  BY <1>1, <1>2, <1>3, <1>4 DEF taken

\* The first of c goes to the end of b.
LEMMA OneMoves ==
  ASSUME NEW S, NEW b \in Seq(S), NEW c \in Seq(S), c # <<>>
  PROVE  Append(b, Head(c)) \o Tail(c) = b \o c /\ Append(b, Head(c)) \in Seq(S) /\ Tail(c) \in Seq(S)
<1>1. Head(c) \in S /\ Tail(c) \in Seq(S) /\ Len(c) # 0 /\ Len(Tail(c)) = Len(c) - 1
      /\ \A i \in 1 .. Len(c) - 1 : Tail(c)[i] = c[i + 1]
  OBVIOUS
<1> DEFINE l == Append(b, Head(c)) \o Tail(c)
           r == b \o c
<1>2. Append(b, Head(c)) \in Seq(S) /\ Len(Append(b, Head(c))) = Len(b) + 1  BY <1>1
<1>3. l \in Seq(S) /\ r \in Seq(S) /\ Len(l) = Len(b) + Len(c) /\ Len(r) = Len(b) + Len(c)
  BY <1>1, <1>2
<1>4. ASSUME NEW i \in 1 .. Len(b) + Len(c) PROVE l[i] = r[i]
  <2>1. CASE i <= Len(b)  BY <1>1, <1>2, <2>1
  <2>2. CASE i = Len(b) + 1  BY <1>1, <1>2, <2>2
  <2>3. CASE i > Len(b) + 1  BY <1>1, <1>2, <2>3
  <2> QED  BY <2>1, <2>2, <2>3
<1> HIDE DEF l, r
<1>5. l = r  BY <1>3, <1>4, SeqEqual
<1> QED  BY <1>1, <1>2, <1>5 DEF l, r

\* The topic grows, and nobody reads.
LEMMA PipedOn ==
  ASSUME Piped, channel' \in Seq(Reports), batch' \in Seq(Reports), topic' \in Seq(Reports),
         Len(topic) <= Len(topic'), \A i \in 1 .. Len(topic) : topic'[i] = topic[i],
         UNCHANGED <<writer, faults, position, pending>>
  PROVE  Piped'
<1>1. /\ position \in Nat /\ pending \in Seq(Reports) /\ topic \in Seq(Reports)
      /\ position <= Len(topic) /\ Len(pending) <= position /\ taken = position - Len(pending)
      /\ \A i \in 1 .. Len(pending) : pending[i] = topic[taken + i]
  BY DEF Piped, taken
<1>2. taken' = taken  BY DEF taken
<1>3. ASSUME NEW i \in 1 .. Len(pending) PROVE pending[i] = topic'[taken + i]
  <2>1. taken + i \in 1 .. Len(topic)  BY <1>1
  <2> QED  BY <1>1, <2>1
<1>4. position' <= Len(topic')  BY <1>1
<1> QED  BY <1>1, <1>2, <1>3, <1>4 DEF Piped

\* A batch is handed over whole.
LEMMA Handed ==
  ASSUME NEW events \in Seq(Reports), Piped, Fleet!flush(events)
  PROVE  /\ batch' = <<>> /\ topic' = topic \o events /\ faults' = faults
         /\ topic' \in Seq(Reports) /\ Len(topic) <= Len(topic')
         /\ \A i \in 1 .. Len(topic) : topic'[i] = topic[i]
<1>1. topic \in Seq(Reports) /\ writer = TRUE /\ faults = 0  BY DEF Piped
<1>2. /\ topic \o events \in Seq(Reports) /\ Len(topic) <= Len(topic \o events)
      /\ \A i \in 1 .. Len(topic) : (topic \o events)[i] = topic[i]
  BY <1>1
<1>3. batch' = <<>> /\ topic' = topic \o events /\ faults' = faults
  <2>1. CASE events = <<>>
    <3>1. topic \o events = topic  BY <1>1, <2>1
    <3> QED  BY <2>1, <3>1 DEF Fleet!flush
  <2>2. CASE events # <<>>
    <3>1. ~(faults < 0)  BY <1>1
    <3>2. Fleet!WriteMessages(events) /\ batch' = <<>>  BY <2>2, Zenon DEF Fleet!flush
    <3> QED  BY <1>1, <3>1, <3>2, Zenon DEF Fleet!WriteMessages
  <2> QED  BY <2>1, <2>2
<1> QED  BY <1>2, <1>3

\* Events move on, none is added or lost.
LEMMA WayMoves ==
  ASSUME Calm, Way' = Way, taken' = taken, Piped', UNCHANGED tests,
         UNCHANGED <<group, counting, book, lastTest, judged>>
  PROVE  Calm'
<1>1. UNCHANGED <<stage, test, seq, sent, bot, engine, late>>  BY DEF tests
<1>2. Runner' /\ AllRight' /\ Booked'  BY <1>1 DEF Calm, Runner, AllRight, Booked
<1>3. PICK base, rec, bk : Log(base, rec, bk) /\ Carried(base, rec) /\ Follows(bk)
  BY DEF Calm, Logged
<1>4. Log(base, rec, bk)'  BY <1>1, <1>3, LogStays
<1>5. Carried(base, rec)'  BY <1>1, <1>3, CarriedStays
<1>6. Follows(bk)'  BY <1>1, <1>3 DEF Follows
<1> QED  BY <1>2, <1>4, <1>5, <1>6 DEF Calm, Logged

LEMMA ProducerKeepsCalm == ASSUME Calm, ProducerStep PROVE Calm'
<1>1. Piped /\ channel \in Seq(Reports) /\ batch \in Seq(Reports) /\ topic \in Seq(Reports)
  BY DEF Calm, Piped
<1>2. UNCHANGED <<tests, position, pending, group, counting, book, lastTest, judged>> /\ taken' = taken
  BY DEF ProducerStep, ingestOwn, taken
<1>3. Way' = Way /\ Piped'
  <2>1. ASSUME Fleet!Collect, channel # <<>>, NEW next, next = Append(batch, Head(channel)),
               channel' = Tail(channel)
        PROVE  Way' = Way /\ Piped'
    <3>1. next \o channel' = batch \o channel /\ next \in Seq(Reports) /\ channel' \in Seq(Reports)
      BY <1>1, <2>1, OneMoves
    <3>2. writer' = writer  BY <2>1 DEF Fleet!Collect
    <3>3. CASE Fleet!flush(next)
      <4>1. /\ batch' = <<>> /\ topic' = topic \o next /\ faults' = faults
            /\ topic' \in Seq(Reports) /\ Len(topic) <= Len(topic')
            /\ \A i \in 1 .. Len(topic) : topic'[i] = topic[i]
        BY <1>1, <3>1, <3>3, Handed
      <4>2. Way' = (topic \o next) \o <<>> \o channel'  BY <4>1 DEF Way
      <4>3. (topic \o next) \o <<>> = topic \o next  BY <1>1, <3>1
      <4>4. (topic \o next) \o channel' = topic \o (next \o channel')
        <5>1. PICK c : c = channel'  OBVIOUS
        <5>2. c \in Seq(Reports)  BY <3>1, <5>1
        <5>3. (topic \o next) \o c = topic \o (next \o c)  BY <1>1, <3>1, <5>2, ConcatAssociative
        <5> QED  BY <5>1, <5>3
      <4>5. (topic \o batch) \o channel = topic \o (batch \o channel)
        BY <1>1, ConcatAssociative
      <4>6. Way' = Way  BY <3>1, <4>2, <4>3, <4>4, <4>5, Zenon DEF Way
      <4>7. <<>> \in Seq(Reports)  OBVIOUS
      <4>8. Piped'  BY <1>1, <1>2, <3>1, <3>2, <4>1, <4>7, PipedOn
      <4> QED  BY <4>6, <4>8
    <3>4. CASE batch' = next /\ UNCHANGED <<topic, faults>>
      <4>1. Way' = (topic \o next) \o channel'  BY <3>4 DEF Way
      <4>4. (topic \o next) \o channel' = topic \o (next \o channel')
        <5>1. PICK c : c = channel'  OBVIOUS
        <5>2. c \in Seq(Reports)  BY <3>1, <5>1
        <5>3. (topic \o next) \o c = topic \o (next \o c)  BY <1>1, <3>1, <5>2, ConcatAssociative
        <5> QED  BY <5>1, <5>3
      <4>5. (topic \o batch) \o channel = topic \o (batch \o channel)
        BY <1>1, ConcatAssociative
      <4>6. Way' = Way  BY <3>1, <4>1, <4>4, <4>5, Zenon DEF Way
      <4>8. Piped'  BY <1>1, <1>2, <3>1, <3>2, <3>4, PipedOn
      <4> QED  BY <4>6, <4>8
    <3> QED  BY <2>1, <3>3, <3>4, Zenon DEF Fleet!Collect
  <2>2. ASSUME Fleet!Tick PROVE Way' = Way /\ Piped'
    <3>1. Fleet!flush(batch) /\ UNCHANGED <<channel, writer>>  BY <2>2, Zenon DEF Fleet!Tick
    <3>2. /\ batch' = <<>> /\ topic' = topic \o batch /\ faults' = faults
          /\ topic' \in Seq(Reports) /\ Len(topic) <= Len(topic')
          /\ \A i \in 1 .. Len(topic) : topic'[i] = topic[i]
      BY <1>1, <3>1, Handed
    <3>3. (topic \o batch) \o <<>> = topic \o batch  BY <1>1
    <3>4. Way' = Way  BY <3>1, <3>2, <3>3 DEF Way
    <3>5. <<>> \in Seq(Reports)  OBVIOUS
    <3>6. Piped'  BY <1>1, <1>2, <3>1, <3>2, <3>5, PipedOn
    <3> QED  BY <3>4, <3>6
  <2>3. Fleet!Collect => channel # <<>> /\ channel' = Tail(channel)  BY Zenon DEF Fleet!Collect
  <2>4. Fleet!Collect \/ Fleet!Tick  BY DEF ProducerStep
  <2> QED  BY <2>1, <2>2, <2>3, <2>4
<1> QED  BY <1>2, <1>3, WayMoves

LEMMA ConsumeKeepsCalm ==
  ASSUME Calm, Ingest!Consume, UNCHANGED <<tests, fleetOwn>> PROVE Calm'
<1>1. /\ position < Len(topic) /\ position' = position + 1
      /\ pending' = Append(pending, topic[position + 1])
      /\ UNCHANGED <<topic, group, counting, book, lastTest, judged>>
      /\ UNCHANGED <<channel, batch, writer, faults>>
  BY DEF Ingest!Consume, Ingest!Committed, fleetOwn
<1>2. /\ topic \in Seq(Reports) /\ pending \in Seq(Reports) /\ position \in Nat /\ Len(pending) <= position
      /\ \A i \in 1 .. Len(pending) : pending[i] = topic[taken + i]
      /\ taken = position - Len(pending)
  BY DEF Calm, Piped, taken
<1>3. topic[position + 1] \in Reports  BY <1>1, <1>2
<1>4. pending' \in Seq(Reports) /\ Len(pending') = Len(pending) + 1  BY <1>1, <1>2, <1>3
<1>5. taken' = taken /\ Way' = Way  BY <1>1, <1>2, <1>4 DEF taken, Way
<1>6. ASSUME NEW i \in 1 .. Len(pending') PROVE pending'[i] = topic'[taken' + i]
  <2>1. CASE i <= Len(pending)
    <3>1. i \in 1 .. Len(pending)  BY <1>2, <2>1
    <3>2. pending'[i] = pending[i]  BY <1>1, <1>2, <1>3, <3>1
    <3> QED  BY <1>1, <1>2, <1>5, <3>1, <3>2
  <2>2. CASE i = Len(pending) + 1
    <3>1. pending'[i] = topic[position + 1]  BY <1>1, <1>2, <1>3, <2>2
    <3>2. taken + i = position + 1  BY <1>2, <2>2
    <3> QED  BY <1>1, <1>5, <3>1, <3>2
  <2> QED  BY <1>2, <1>4, <2>1, <2>2
<1>7. Piped'
  <2>1. position' \in Nat /\ position' <= Len(topic') /\ Len(pending') <= position'
    BY <1>1, <1>2, <1>4
  <2>2. /\ channel' \in Seq(Reports) /\ batch' \in Seq(Reports) /\ topic' \in Seq(Reports)
        /\ writer' = TRUE /\ faults' = 0
    BY <1>1 DEF Calm, Piped
  <2> QED  BY <1>4, <1>6, <2>1, <2>2 DEF Piped
<1> QED  BY <1>1, <1>5, <1>7, WayMoves

LEMMA ReportKeepsCalm ==
  ASSUME Calm, NEW b \in Bots, Report(b), dropped \in Nat, dropped' = 0 PROVE Calm'
<1>1. /\ bot \in [Bots -> Loops] /\ bot[b].pc = "stamped" /\ Piped
      /\ test \in Nat /\ test # 0 /\ seq \in Nat
  BY DEF Calm, Runner, Report
<1>2. /\ bot' = [bot EXCEPT ![b] = IdleBot(bot[b].mine)]
      /\ UNCHANGED <<stage, test, seq, sent, engine, late, ingestOwn>>
      /\ Fleet!Emit(reportOf(b))
  BY DEF Report, reportOf
<1>3. /\ channel' = Append(channel, reportOf(b)) /\ UNCHANGED <<batch, topic, faults, writer>>
  <2>1. dropped' # dropped + 1  OBVIOUS
  <2> QED  BY <1>2, <2>1 DEF Fleet!Emit
<1>4. UNCHANGED <<position, pending, group, counting, book, lastTest, judged>>
  BY <1>2 DEF ingestOwn
<1>5. PICK e : e = reportOf(b)  OBVIOUS
<1>6. e \in Reports
  <2>1. bot[b].order \in Orders /\ bot[b].fill \in Fills \cup {Unanswered}
        /\ bot[b].timedOut \in BOOLEAN /\ bot[b].seq \in Nat
    BY <1>1 DEF Loops
  <2> QED  BY <1>1, <1>5, <2>1 DEF Reports, reportOf
<1>7. e.seq = bot[b].seq  BY <1>5 DEF reportOf
<1>8. IdleBot(bot[b].mine) \in Loops /\ IdleBot(bot[b].mine).pc = "idle"
  BY <1>1 DEF IdleBot, Loops
<1>9. bot'[b].pc = "idle" /\ (\A c \in Bots \ {b} : bot'[c] = bot[c]) /\ bot' \in [Bots -> Loops]
  BY <1>1, <1>2, <1>8
<1>10. Runner'  BY <1>2, <1>9 DEF Calm, Runner
<1>11. AllRight' /\ Booked'  BY <1>2, <1>4 DEF Calm, AllRight, Booked
<1>12. channel \in Seq(Reports) /\ batch \in Seq(Reports) /\ topic \in Seq(Reports)  BY <1>1 DEF Piped
<1>13. Piped'
  <2>1. channel' \in Seq(Reports)  BY <1>3, <1>5, <1>6, <1>12
  <2> QED  BY <1>1, <1>3, <1>4, <1>12, <2>1, PipedOn
<1>14. Way' = Append(Way, e) /\ taken' = taken
  <2> DEFINE w == topic \o batch
  <2>1. w \in Seq(Reports)  BY <1>12
  <2>2. Way' = w \o Append(channel, e)  BY <1>3, <1>5 DEF Way
  <2> HIDE DEF w
  <2>3. w \o Append(channel, e) = Append(w \o channel, e)
    <3>1. /\ w \o Append(channel, e) \in Seq(Reports) /\ Append(w \o channel, e) \in Seq(Reports)
          /\ Len(w \o Append(channel, e)) = Len(w) + Len(channel) + 1
          /\ Len(Append(w \o channel, e)) = Len(w) + Len(channel) + 1
      BY <1>6, <1>12, <2>1
    <3>2. ASSUME NEW i \in 1 .. Len(w) + Len(channel) + 1
          PROVE  (w \o Append(channel, e))[i] = Append(w \o channel, e)[i]
      BY <1>6, <1>12, <2>1
    <3> QED  BY <3>1, <3>2, SeqEqual
  <2>4. Way = w \o channel  BY DEF Way, w
  <2> QED  BY <1>4, <2>2, <2>3, <2>4 DEF taken
<1>15. /\ Way \in Seq(Reports) /\ Len(Way) \in Nat /\ taken \in Nat /\ taken <= Len(Way)
  BY <1>1, WayTyped DEF Piped
<1> DEFINE new == Len(Way) + 1
<1>16. /\ OnWay' = OnWay \cup {new} /\ new \notin OnWay /\ Way'[new] = e
       /\ \A i \in OnWay : Way'[i] = Way[i]
  <2>1. /\ Len(Append(Way, e)) = new /\ Append(Way, e)[new] = e
        /\ \A i \in 1 .. Len(Way) : Append(Way, e)[i] = Way[i]
    BY <1>6, <1>15
  <2>2. OnWay' = {i \in 1 .. new : i > taken}  BY <1>14, <2>1 DEF OnWay
  <2> QED  BY <1>14, <1>15, <2>1, <2>2 DEF OnWay
<1> HIDE DEF new
<1>17. Held' = Held \ {b} /\ b \in Held /\ \A c \in Held' : bot'[c] = bot[c]
  BY <1>1, <1>9 DEF Held
<1>18. PICK base, rec, bk : Log(base, rec, bk) /\ Carried(base, rec) /\ Follows(bk)
  BY DEF Calm, Logged
<1>19. Log(base, rec, bk)'  BY <1>2, <1>4, <1>18, LogStays
<1>20. Carried(base, rec)'
  <2>1. /\ \A i \in OnWay : Way[i].seq \in base + 1 .. seq /\ Way[i] = rec[Way[i].seq]
        /\ \A c \in Held : bot[c].seq \in base + 1 .. seq /\ reportOf(c) = rec[bot[c].seq]
        /\ \A i, k \in OnWay : Way[i].seq = Way[k].seq => i = k
        /\ \A c, d \in Held : bot[c].seq = bot[d].seq => c = d
        /\ \A i \in OnWay, c \in Held : Way[i].seq # bot[c].seq
        /\ \A n \in base + 1 .. seq :
             (\E i \in OnWay : Way[i].seq = n) \/ (\E c \in Held : bot[c].seq = n)
    BY <1>18 DEF Carried
  <2>2. \A i \in OnWay' : Way'[i].seq \in base + 1 .. seq /\ Way'[i] = rec[Way'[i].seq]
    BY <1>5, <1>7, <1>16, <1>17, <2>1
  <2>3. \A c \in Held' : bot'[c].seq \in base + 1 .. seq /\ reportOf(c)' = rec[bot'[c].seq]
    <3> TAKE c \in Held'
    <3>1. reportOf(c)' = reportOf(c)  BY <1>2, <1>17 DEF reportOf
    <3> QED  BY <1>17, <2>1, <3>1
  <2>4. \A i, k \in OnWay' : Way'[i].seq = Way'[k].seq => i = k
    BY <1>7, <1>16, <1>17, <2>1
  <2>5. \A c, d \in Held' : bot'[c].seq = bot'[d].seq => c = d
    BY <1>17, <2>1
  <2>6. \A i \in OnWay', c \in Held' : Way'[i].seq # bot'[c].seq
    BY <1>7, <1>16, <1>17, <2>1
  <2>7. ASSUME NEW n \in base + 1 .. seq
        PROVE  (\E i \in OnWay' : Way'[i].seq = n) \/ (\E c \in Held' : bot'[c].seq = n)
    <3>1. CASE \E i \in OnWay : Way[i].seq = n  BY <1>16, <3>1
    <3>2. CASE \E c \in Held : bot[c].seq = n
      <4>1. PICK c \in Held : bot[c].seq = n  BY <3>2
      <4>2. CASE c = b  BY <1>7, <1>16, <4>1, <4>2
      <4>3. CASE c # b  BY <1>17, <4>1, <4>3
      <4> QED  BY <4>2, <4>3
    <3> QED  BY <2>1, <3>1, <3>2
  <2>8. seq' = seq  BY <1>2
  <2> QED  BY <2>2, <2>3, <2>4, <2>5, <2>6, <2>7, <2>8 DEF Carried
<1>21. Follows(bk)'
  <2>1. \A c \in Bots : \/ bot'[c] = bot[c]
                        \/ bot'[c].pc = "idle" /\ bot[c].pc = "stamped"
    BY <1>1, <1>9
  <2>2. \A c \in Bots : bot'[c].pc \in Awaiting => bot[c].pc \in Awaiting /\ bot'[c] = bot[c]
    BY <2>1 DEF Awaiting
  <2>3. \A c \in Bots : bot[c].pc \in Awaiting => bot'[c] = bot[c]
    BY <2>1 DEF Awaiting
  <2>4. \A c \in Bots : /\ bot[c].pc = "sent" <=> bot'[c].pc = "sent"
                        /\ bot[c].pc = "handled" <=> bot'[c].pc = "handled"
                        /\ bot[c].pc = "over" <=> bot'[c].pc = "over"
    BY <2>1
  <2>5. \A c \in Bots : bot'[c].pc = "handled" => bot'[c] = bot[c]
    BY <2>2 DEF Awaiting
  <2> QED  BY <1>2, <1>18, <2>2, <2>4, <2>5 DEF Follows
<1> QED  BY <1>10, <1>11, <1>13, <1>19, <1>20, <1>21 DEF Calm, Logged

-----------------------------------------------------------------------------
(* Steps of the flusher. *)

LEMMA FlushKeepsCalm ==
  ASSUME Calm, AllRead, Ingest!Flush, UNCHANGED <<tests, fleetOwn>> PROVE Calm'
<1> DEFINE ev == Ingest!bySequence(pending)
           batchOut == Ingest!ValidateBatch(ev)
<1>1. /\ pending # <<>> /\ pending' = <<>> /\ book' = batchOut.book /\ lastTest' = batchOut.last
      /\ group' = batchOut.out /\ UNCHANGED <<topic, position, counting, judged>>
      /\ group = <<>>
  BY DEF Ingest!Flush
<1>2. /\ UNCHANGED <<stage, test, seq, sent, bot, engine, late, channel, batch, writer, faults>>
  BY DEF tests, fleetOwn
<1>3. /\ topic \in Seq(Reports) /\ pending \in Seq(Reports) /\ position = Len(topic) /\ Piped
      /\ channel = <<>> /\ batch = <<>> /\ Held = {} /\ test \in Nat /\ seq \in Nat
      /\ Len(pending) <= position /\ taken = position - Len(pending)
      /\ \A i \in 1 .. Len(pending) : pending[i] = topic[taken + i]
  BY DEF Calm, Runner, Piped, AllRead, taken, Held
<1>4. Way = topic
  <2>1. Way = (topic \o <<>>) \o <<>>  BY <1>3 DEF Way
  <2> QED  BY <1>3, <2>1
<1>5. PICK base, rec, bk : Log(base, rec, bk) /\ Carried(base, rec) /\ Follows(bk)
  BY DEF Calm, Logged
<1>6. base \in Nat /\ base <= seq  BY <1>5 DEF Log
<1>7. \A i \in 1 .. Len(pending) : taken + i \in OnWay /\ pending[i] = Way[taken + i]
  BY <1>3, <1>4 DEF OnWay
<1>8. ASSUME NEW i \in OnWay PROVE \E k \in 1 .. Len(pending) : i = taken + k
  <2>1. i \in Nat /\ i > taken /\ i <= Len(topic)  BY <1>3, <1>4 DEF OnWay
  <2>2. i - taken \in 1 .. Len(pending) /\ i = taken + (i - taken)  BY <1>3, <2>1
  <2> QED  BY <2>2
<1>9. \A i \in 1 .. Len(pending) : pending[i].seq \in base + 1 .. seq /\ pending[i] = rec[pending[i].seq]
  BY <1>5, <1>7 DEF Carried
<1>10. ASSUME NEW i \in 1 .. Len(pending), NEW k \in 1 .. Len(pending), pending[i].seq = pending[k].seq
       PROVE  i = k
  <2>1. taken + i = taken + k  BY <1>5, <1>7, <1>10 DEF Carried
  <2> QED  BY <1>3, <2>1
<1>11. \A n \in base + 1 .. seq : \E i \in 1 .. Len(pending) : pending[i].seq = n
  <2> TAKE n \in base + 1 .. seq
  <2>1. PICK i \in OnWay : Way[i].seq = n  BY <1>3, <1>5 DEF Carried
  <2>2. PICK k \in 1 .. Len(pending) : i = taken + k  BY <1>8
  <2> QED  BY <1>7, <2>1, <2>2
<1>12. /\ ev \in Seq(Reports) /\ Len(ev) = seq - base
       /\ \A n \in 1 .. seq - base : \E i \in 1 .. Len(pending) :
            pending[i].seq = base + n /\ ev[n] = pending[i]
  <2>1. Gapless(pending, base, seq)  BY <1>9, <1>10, <1>11 DEF Gapless
  <2> QED  BY <1>3, <1>6, <2>1, SortedAt
<1>13. base < seq
  <2>1. 1 \in 1 .. Len(pending)  BY <1>1, <1>3
  <2>2. pending[1].seq \in base + 1 .. seq  BY <1>9, <2>1
  <2> QED  BY <1>3, <1>6, <2>2
<1> HIDE DEF ev
<1>14. \A n \in 1 .. Len(ev) : ev[n] = rec[base + n]
  <2> TAKE n \in 1 .. Len(ev)
  <2>1. PICK i \in 1 .. Len(pending) : pending[i].seq = base + n /\ ev[n] = pending[i]  BY <1>12
  <2> QED  BY <1>9, <2>1
<1>15. batchOut.book = bk[seq] /\ batchOut.last = test /\ batchOut.out \in Seq(RightVerdicts)
  <2>1. Log(base, rec, bk) /\ seq \in Nat /\ ev \in Seq(Reports) /\ Len(ev) = seq - base
    BY <1>3, <1>5, <1>12
  <2> QED  BY <1>13, <1>14, <2>1, BatchJudged, Zenon
<1> HIDE DEF batchOut
<1>16. Runner'  BY <1>2 DEF Calm, Runner
<1>17. Way' = Way /\ taken' = position
  <2>1. Len(<<>>) = 0  OBVIOUS
  <2> QED  BY <1>1, <1>2, <1>3, <2>1 DEF Way, taken
<1>18. Piped'
  <2>1. <<>> \in Seq(Reports) /\ Len(<<>>) = 0 /\ 1 .. 0 = {}  OBVIOUS
  <2>2. /\ channel' \in Seq(Reports) /\ batch' \in Seq(Reports) /\ topic' \in Seq(Reports)
        /\ writer' = TRUE /\ faults' = 0 /\ position' \in Nat /\ position' <= Len(topic')
    BY <1>1, <1>2 DEF Calm, Piped
  <2>3. 0 <= position'  BY <2>2
  <2> QED  BY <1>1, <2>1, <2>2, <2>3 DEF Piped
<1>19. AllRight'
  <2>1. counting = FALSE  BY <1>1, Zenon DEF Calm, AllRight
  <2>2. judged' \in Seq(RightVerdicts)  BY <1>1 DEF Calm, AllRight
  <2>3. group' \in Seq(RightVerdicts)  BY <1>1, <1>15
  <2>4. counting' = FALSE  BY <1>1, <2>1, Zenon
  <2> QED  BY <2>2, <2>3, <2>4, Zenon DEF AllRight
<1>20. lastTest' = test /\ book' = bk[seq] /\ test # 0
  <2>1. 1 \in 1 .. Len(pending)  BY <1>1, <1>3
  <2>2. pending[1].seq \in base + 1 .. seq /\ pending[1] = rec[pending[1].seq]  BY <1>9, <2>1
  <2>3. pending[1].test = test /\ pending[1] \in Reports  BY <1>5, <2>2 DEF Log
  <2>4. test # 0  BY <2>3 DEF Reports
  <2> QED  BY <1>1, <1>15, <2>4
<1>21. Booked'  BY <1>2, <1>3, <1>20 DEF Booked
<1>22. PICK s : s = seq  OBVIOUS
<1>23. Log(s, rec, bk)'
  <2>1. bk[s] = Ingest!bookFor(book, lastTest, test)'
    BY <1>2, <1>20, <1>22 DEF Ingest!bookFor
  <2>2. GoodBook(bk[s])
    <3>1. seq \in base .. seq  BY <1>3, <1>6
    <3> QED  BY <1>5, <1>22, <3>1 DEF Log
  <2>3. \A n \in s .. s : n = s  BY <1>3, <1>22
  <2>4. s + 1 .. s = {}  BY <1>3, <1>22
  <2>5. seq' = s /\ s \in Nat /\ s <= s  BY <1>2, <1>3, <1>22
  <2> QED  BY <2>1, <2>2, <2>3, <2>4, <2>5 DEF Log
<1>24. Carried(s, rec)'
  <2>1. OnWay' = {}  BY <1>3, <1>4, <1>17 DEF OnWay
  <2>2. Held' = {}  BY <1>2, <1>3 DEF Held
  <2>3. s + 1 .. seq' = {}  BY <1>2, <1>3, <1>22
  <2> QED  BY <2>1, <2>2, <2>3 DEF Carried
<1>25. Follows(bk)'  BY <1>2, <1>5 DEF Follows
<1> QED  BY <1>16, <1>18, <1>19, <1>21, <1>23, <1>24, <1>25 DEF Calm, Logged

LEMMA CountKeepsCalm ==
  ASSUME Calm, Ingest!CountOrder \/ Ingest!CountVerdict, UNCHANGED <<tests, fleetOwn>>
  PROVE  Calm'
<1>1. UNCHANGED <<topic, position, pending, book, lastTest>>
  BY DEF Ingest!CountOrder, Ingest!CountVerdict
<1>2. UNCHANGED <<stage, test, seq, sent, bot, engine, late, channel, batch, writer, faults>>
  BY DEF tests, fleetOwn
<1>3. Runner' /\ Booked'  BY <1>1, <1>2 DEF Calm, Runner, Booked
<1>4. Way' = Way /\ taken' = taken  BY <1>1, <1>2 DEF Way, taken
<1>5. Piped'  BY <1>1, <1>2, <1>4 DEF Calm, Piped
<1>6. AllRight'
  <2>1. CASE Ingest!CountOrder
    BY <2>1, Zenon DEF Calm, AllRight, Ingest!CountOrder
  <2>2. CASE Ingest!CountVerdict
    <3>1. group \in Seq(RightVerdicts) /\ judged \in Seq(RightVerdicts) /\ group # <<>>
      BY <2>2, Zenon DEF Calm, AllRight, Ingest!CountVerdict
    <3>2. judged' = Append(judged, Head(group)) /\ group' = Tail(group)
      BY <2>2, Zenon DEF Ingest!CountVerdict
    <3>3. counting' = FALSE  BY <2>2, Zenon DEF Ingest!CountVerdict
    <3>4. judged' \in Seq(RightVerdicts) /\ group' \in Seq(RightVerdicts)  BY <3>1, <3>2
    <3> QED  BY <3>3, <3>4, Zenon DEF AllRight
  <2> QED  BY <2>1, <2>2
<1>7. PICK base, rec, bk : Log(base, rec, bk) /\ Carried(base, rec) /\ Follows(bk)
  BY DEF Calm, Logged
<1>8. Log(base, rec, bk)'  BY <1>1, <1>2, <1>7, LogStays
<1>9. Carried(base, rec)'  BY <1>2, <1>4, <1>7, CarriedStays
<1>10. Follows(bk)'  BY <1>2, <1>7 DEF Follows
<1> QED  BY <1>3, <1>5, <1>6, <1>8, <1>9, <1>10 DEF Calm, Logged

-----------------------------------------------------------------------------
(* The results. *)

\* A disturbance is never forgotten.
LEMMA CountersStay ==
  ASSUME Counters, [Next]_vars
  PROVE  Counters' /\ (Undisturbed' => Undisturbed /\ UNCHANGED <<timeouts, resetFailures, dropped>>)
<1>1. ASSUME UNCHANGED dropped,
             timeouts' \in {timeouts, timeouts + 1},
             resetFailures' \in {resetFailures, resetFailures + 1}
      PROVE  Counters' /\ (Undisturbed' => Undisturbed /\ UNCHANGED <<timeouts, resetFailures, dropped>>)
  BY <1>1 DEF Counters, Undisturbed
<1>2. UNCHANGED pipeline => UNCHANGED dropped  BY DEF pipeline, fleetOwn
<1>3. CASE Start  BY <1>1, <1>2, <1>3 DEF Start
<1>4. CASE Stop \/ Drained  BY <1>1, <1>2, <1>4 DEF Stop, Drained
<1>5. ASSUME NEW b \in Bots, BotStep(b)
      PROVE  Counters' /\ (Undisturbed' => Undisturbed /\ UNCHANGED <<timeouts, resetFailures, dropped>>)
  <2>1. CASE Report(b)
    <3>1. UNCHANGED <<timeouts, resetFailures>> /\ dropped' \in {dropped, dropped + 1}
      BY <2>1 DEF Report, Fleet!Emit
    <3> QED  BY <3>1 DEF Counters, Undisturbed
  <2>2. CASE ~Report(b)
    <3>1. ASSUME NEW order, NEW mine, Send(b, order, mine)
          PROVE  UNCHANGED <<timeouts, resetFailures, pipeline>>
      BY <3>1 DEF Send
    <3>2. \/ UNCHANGED <<timeouts, resetFailures, pipeline>>
          \/ Handle(b) \/ TimeOut(b) \/ Abort(b) \/ Stamp(b)
      BY <1>5, <2>2, <3>1 DEF BotStep, SendOrder, SendCancel
    <3> QED  BY <1>1, <1>2, <3>2 DEF Handle, TimeOut, Abort, Stamp
  <2> QED  BY <2>1, <2>2
<1>6. ASSUME NEW order \in late, HandleLate(order)
      PROVE  Counters' /\ (Undisturbed' => Undisturbed /\ UNCHANGED <<timeouts, resetFailures, dropped>>)
  BY <1>1, <1>2, <1>6 DEF HandleLate
<1>7. CASE ProducerStep
  BY <1>1, <1>7 DEF ProducerStep, tests, Fleet!Collect, Fleet!Tick
<1>8. CASE IngesterStep  BY <1>1, <1>8 DEF IngesterStep, tests, fleetOwn
<1>9. CASE UNCHANGED vars  BY <1>1, <1>2, <1>9 DEF vars, tests
<1> QED  BY <1>3, <1>4, <1>5, <1>6, <1>7, <1>8, <1>9 DEF Next

LEMMA BotKeepsCalm ==
  ASSUME Serial, Calm, Counters, NEW b \in Bots, BotStep(b), Undisturbed,
         UNCHANGED <<timeouts, resetFailures, dropped>>
  PROVE  Calm'
<1>1. \A c \in Bots : bot[c].mine \in SUBSET Nat  BY DEF Calm, Runner, Loops
<1>2. sent \in Nat  BY DEF Calm, Runner
<1>3. ASSUME NEW shape \in Shapes, SendOrder(b, shape) PROVE Calm'
  <2> DEFINE order == [id |-> sent + 1, type |-> shape.type, price |-> shape.price, qty |-> shape.qty]
             mine == IF shape.type \in Limits THEN bot[b].mine \cup {sent + 1} ELSE bot[b].mine
  <2>1. /\ shape.type \in Buys \cup Sells /\ shape.price \in Nat /\ shape.qty \in Nat \ {0}
        /\ shape.type \in Limits => shape.price > 0
    BY TelemetryAssumption
  <2>2. order \in Orders  BY <1>2, <2>1 DEF Orders
  <2>3. mine \in SUBSET Nat  BY <1>1, <1>2
  <2>4. sent' \in Nat /\ Send(b, order, mine)  BY <1>2, <1>3 DEF SendOrder
  <2> HIDE DEF order, mine
  <2> QED  BY <2>2, <2>3, <2>4, SendKeepsCalm
<1>4. ASSUME NEW id \in bot[b].mine, SendCancel(b, id) PROVE Calm'
  <2> DEFINE order == [id |-> id, type |-> "CANCEL", price |-> 0, qty |-> 0]
             mine == bot[b].mine \ {id}
  <2>1. order \in Orders
    <3>1. "CANCEL" \notin Limits  BY DEF Limits
    <3>2. id \in Nat  BY <1>1
    <3> QED  BY <3>1, <3>2 DEF Orders
  <2>2. mine \in SUBSET Nat  BY <1>1
  <2>3. sent' \in Nat /\ Send(b, order, mine)  BY <1>2, <1>4 DEF SendCancel
  <2> HIDE DEF order, mine
  <2> QED  BY <2>1, <2>2, <2>3, SendKeepsCalm
<1>5. ~TimeOut(b)
  <2>1. timeouts = 0 /\ timeouts' = 0  BY DEF Undisturbed
  <2> QED  BY <2>1 DEF TimeOut
<1>6. CASE Report(b)
  <2>1. dropped \in Nat /\ dropped' = 0  BY DEF Undisturbed, Counters
  <2> QED  BY <1>6, <2>1, ReportKeepsCalm
<1>7. CASE Handle(b)  BY <1>7, HandleKeepsCalm
<1>8. CASE Abort(b)  BY <1>8, AbortKeepsCalm
<1>9. CASE Stamp(b)  BY <1>9, StampKeepsCalm
<1> QED  BY <1>3, <1>4, <1>5, <1>6, <1>7, <1>8, <1>9 DEF BotStep

LEMMA CalmIsKept ==
  ASSUME Serial, Timely, ~Lagging, Inv, [Next]_vars PROVE Inv'
<1>1. Counters' /\ (Undisturbed' => Undisturbed /\ UNCHANGED <<timeouts, resetFailures, dropped>>)
  BY CountersStay DEF Inv
<1> SUFFICES ASSUME Undisturbed' PROVE Calm'  BY <1>1 DEF Inv
<1>2. Calm /\ Undisturbed /\ Counters /\ UNCHANGED <<timeouts, resetFailures, dropped>>
  BY <1>1 DEF Inv
<1>3. CASE Start
  <2>1. resetFailures \in Nat /\ resetFailures' = 0  BY <1>2 DEF Undisturbed, Counters
  <2> QED  BY <1>2, <1>3, <2>1, StartKeepsCalm
<1>4. CASE Stop \/ Drained  BY <1>2, <1>4, StopKeepsCalm
<1>5. ASSUME NEW b \in Bots, BotStep(b) PROVE Calm'  BY <1>2, <1>5, BotKeepsCalm
<1>6. ~(\E order \in late : HandleLate(order))  BY <1>2 DEF Calm, Runner
<1>7. CASE ProducerStep  BY <1>2, <1>7, ProducerKeepsCalm
<1>8. CASE IngesterStep
  <2>1. UNCHANGED <<tests, fleetOwn>>  BY <1>8 DEF IngesterStep
  <2>2. CASE Ingest!Consume  BY <1>2, <2>1, <2>2, ConsumeKeepsCalm
  <2>3. CASE AllRead /\ Ingest!Flush  BY <1>2, <2>1, <2>3, FlushKeepsCalm
  <2>4. CASE Ingest!CountOrder \/ Ingest!CountVerdict  BY <1>2, <2>1, <2>4, CountKeepsCalm
  <2> QED  BY <1>8, <2>2, <2>3, <2>4 DEF IngesterStep
<1>9. CASE UNCHANGED vars
  <2>1. UNCHANGED <<tests, pipeline>>  BY <1>9 DEF vars
  <2>2. UNCHANGED <<stage, test, seq, sent, bot, engine, late>>  BY <2>1 DEF tests
  <2>3. /\ Way' = Way /\ taken' = taken /\ Piped' /\ AllRight' /\ UNCHANGED <<book, lastTest>>
    BY <1>2, <2>1, WayStays DEF Calm
  <2>4. Runner' /\ Booked'  BY <1>2, <2>2, <2>3 DEF Calm, Runner, Booked
  <2>5. PICK base, rec, bk : Log(base, rec, bk) /\ Carried(base, rec) /\ Follows(bk)
    BY <1>2 DEF Calm, Logged
  <2>6. Log(base, rec, bk)'  BY <2>2, <2>3, <2>5, LogStays
  <2>7. Carried(base, rec)'  BY <2>2, <2>3, <2>5, CarriedStays
  <2>8. Follows(bk)'  BY <2>2, <2>5 DEF Follows
  <2> QED  BY <2>3, <2>4, <2>6, <2>7, <2>8 DEF Calm, Logged
<1> QED  BY <1>3, <1>4, <1>5, <1>6, <1>7, <1>8, <1>9 DEF Next

LEMMA CalmIsEnough == Inv => CorrectEngineIsNeverFaulted /\ BooksInSync
<1> SUFFICES ASSUME Inv PROVE CorrectEngineIsNeverFaulted /\ BooksInSync  OBVIOUS
<1>1. CorrectEngineIsNeverFaulted
  <2>1. ASSUME Undisturbed, NEW i \in DOMAIN judged, Answered(judged[i].event.fill)
        PROVE  judged[i].correct
    <3>1. judged \in Seq(RightVerdicts)  BY <2>1 DEF Inv, Calm, AllRight
    <3>2. judged[i] \in RightVerdicts  BY <3>1
    <3> QED  BY <2>1, <3>2 DEF RightVerdicts
  <2> QED  BY <2>1, Zenon DEF CorrectEngineIsNeverFaulted, Answered
<1>2. BooksInSync
  <2> SUFFICES ASSUME stage = "running", lastTest = test, \A b \in Bots : bot[b].pc = "idle",
                      Undisturbed, AllWritten
               PROVE  book = engine
    BY DEF BooksInSync
  <2>1. Calm  BY DEF Inv
  <2>2. PICK base, rec, bk : Log(base, rec, bk) /\ Carried(base, rec) /\ Follows(bk)
    BY <2>1 DEF Calm, Logged
  <2>3. OnWay = {} /\ Held = {}  BY <2>1, NothingOnWay DEF Calm
  <2>4. base = seq
    <3>1. \A n \in base + 1 .. seq : FALSE  BY <2>2, <2>3 DEF Carried
    <3>2. base \in Nat /\ seq \in Nat /\ base <= seq  BY <2>2 DEF Log
    <3>3. base < seq => base + 1 \in base + 1 .. seq  BY <3>2
    <3> QED  BY <3>1, <3>2, <3>3
  <2>5. bk[base] = book  BY <2>2 DEF Log, Ingest!bookFor
  <2>6. engine = bk[seq]  BY <2>2 DEF Follows
  <2> QED  BY <2>4, <2>5, <2>6
<1> QED  BY <1>1, <1>2

\* A correct engine is never faulted, whatever the bots send, in whatever
\* batches their events arrive and whenever tests are stopped, if the timing
\* is kind and until something disturbs the order of events
\* (reorder_buffer.go:48-61, correctness_validator.go:28-60).
THEOREM CorrectEngineIsNeverFaultedEver ==
  ASSUME Serial, Timely, ~Lagging PROVE Spec => []CorrectEngineIsNeverFaulted
<1>1. Inv /\ [Next]_vars => Inv'  BY CalmIsKept
<1>2. Inv => CorrectEngineIsNeverFaulted  BY CalmIsEnough
<1> QED  BY <1>1, <1>2, CalmAtInit, PTL DEF Spec

\* Under the same conditions the shadow book is the engine's book whenever
\* all orders of the running test are judged (correctness_validator.go:34-45).
THEOREM BooksAlwaysInSync ==
  ASSUME Serial, Timely, ~Lagging PROVE Spec => []BooksInSync
<1>1. Inv /\ [Next]_vars => Inv'  BY CalmIsKept
<1>2. Inv => BooksInSync  BY CalmIsEnough
<1> QED  BY <1>1, <1>2, CalmAtInit, PTL DEF Spec
=============================================================================
