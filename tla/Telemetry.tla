------------------------------ MODULE Telemetry ------------------------------
(***************************************************************************)
(* The way of a test's orders from the bots to their verdicts: the bots of *)
(* one contestant's successive tests (bot-fleet/bots, test_runner.go), the *)
(* contestant's engine (external, here one that answers exactly as the     *)
(* reference book does), Producer and Ingester.  One ingester process, no  *)
(* crash, no loss: those are the runs of the two components.               *)
(*                                                                         *)
(* Four constants say how kind the timing is; the runs show which of them  *)
(* right verdicts depend on.                                               *)
(***************************************************************************)
EXTENDS Integers, OrderBook

CONSTANTS
  Bots,
  Shapes,        \* orders the personas send: type, price and quantity
  NoOrder,
  Serial,        \* kind: no order is sent while another awaits its number
  Timely,        \* kind: the hold covers the delay from stamping to reading
  Quiet,         \* kind: a test is stopped while no order awaits its answer
  Lagging,       \* unkind: a test may start before the last one is judged
  MaxTests,      \* bound
  MaxOrders,     \* bound: orders of all tests
  MaxTimeouts,   \* bound
  MaxResetFailures,  \* bound
  Capacity, BatchSize

ASSUME TelemetryAssumption ==
  /\ Shapes \subseteq [type : Buys \cup Sells, price : Nat, qty : Nat \ {0}]
  /\ \A shape \in Shapes : shape.type \in Limits => shape.price > 0

VARIABLES
  stage,      \* of the contestant's TestRunner: idle, running, stopping
  test,       \* number of the current or last test; 0: none yet
  seq,        \* the runner's sequence counter
  sent,       \* orders made so far; a bot's random order id is its number
  bot,        \* each bot's loop
  engine,     \* external: the engine's book
  late,       \* external: requests the engine may still handle
  timeouts, resetFailures,
  channel, batch, topic, accepted, dropped, lost, faults, loop, done, writer,
  position, offset, missed, pending, group, counting, book, lastTest, counts,
  reading, published, snapshots, judged, crashes

Fleet  == INSTANCE Producer WITH MaxEvents <- MaxOrders, MaxFaults <- 0
Ingest == INSTANCE Ingester WITH Events <- {}, NoTest <- 0, MaxArrivals <- MaxOrders,
                                 MaxSnapshots <- 0, MaxCrashes <- 0, MaxMissed <- 0

tests     == <<stage, test, seq, sent, bot, engine, late, timeouts, resetFailures>>
fleetOwn  == <<channel, batch, accepted, dropped, lost, faults, loop, done, writer>>
ingestOwn == <<position, offset, missed, pending, group, counting, book, lastTest, counts,
               reading, published, snapshots, judged, crashes>>
pipeline  == <<fleetOwn, topic, ingestOwn>>
vars      == <<tests, pipeline>>

Unanswered == Fill("", 0, 0, 0)
IdleBot(mine) == [pc |-> "idle", order |-> NoOrder, fill |-> Unanswered,
                  timedOut |-> FALSE, seq |-> 0, mine |-> mine]

Init ==
  /\ stage = "idle" /\ test = 0 /\ seq = 0 /\ sent = 0
  /\ bot = [b \in Bots |-> IdleBot({})]
  /\ engine = NewBook /\ late = {}
  /\ timeouts = 0 /\ resetFailures = 0
  /\ Fleet!Init /\ Ingest!Init

\* The places of a bot's loop where its order has no number yet.
Awaiting == {"sent", "handled", "over"}

\* Nothing of the orders numbered so far is on its way to the ingester.
AllRead ==
  /\ \A b \in Bots : bot[b].pc # "stamped"
  /\ channel = <<>> /\ batch = <<>> /\ position = Len(topic)

AllWritten == AllRead /\ pending = <<>> /\ group = <<>>

-----------------------------------------------------------------------------
(* The test runner. *)

\* Start: POST /reset, whose failure is logged and ignored; new bots and a
\* new sequence counter.
Start ==
  /\ stage = "idle" /\ test < MaxTests
  /\ Lagging \/ AllWritten
  /\ stage' = "running" /\ test' = test + 1 /\ seq' = 0
  /\ bot' = [b \in Bots |-> IdleBot({})]
  /\ \/ engine' = NewBook /\ UNCHANGED resetFailures
     \/ /\ resetFailures < MaxResetFailures
        /\ resetFailures' = resetFailures + 1 /\ UNCHANGED engine
  /\ UNCHANGED <<sent, late, timeouts, pipeline>>

\* Stop: the bots' context is cancelled ...
Stop ==
  /\ stage = "running" /\ stage' = "stopping"
  /\ Quiet => \A b \in Bots : bot[b].pc \notin Awaiting
  /\ UNCHANGED <<test, seq, sent, bot, engine, late, timeouts, resetFailures, pipeline>>

\* ... and Stop waits until the last of them is out of its loop.
Drained ==
  /\ stage = "stopping" /\ \A b \in Bots : bot[b].pc = "idle"
  /\ stage' = "idle"
  /\ UNCHANGED <<test, seq, sent, bot, engine, late, timeouts, resetFailures, pipeline>>

-----------------------------------------------------------------------------
(* A bot: send an order, await the answer, report it. *)

Turn(b) == Serial => \A c \in Bots \ {b} : bot[c].pc \notin Awaiting

\* A request made after the cancellation fails before it leaves.  A loop
\* looks at the context only at its head, so there can be one or two.
Send(b, order, mine) ==
  /\ stage = "running" \/ (stage = "stopping" /\ ~Quiet)
  /\ bot[b].pc = "idle" /\ Turn(b)
  /\ bot' = [bot EXCEPT ![b] = [IdleBot(mine) EXCEPT
               !.pc = IF stage = "running" THEN "sent" ELSE "over", !.order = order]]
  /\ UNCHANGED <<stage, test, seq, engine, late, timeouts, resetFailures, pipeline>>

SendOrder(b, shape) ==
  /\ sent < MaxOrders /\ sent' = sent + 1
  /\ Send(b, [id |-> sent + 1, type |-> shape.type, price |-> shape.price, qty |-> shape.qty],
          IF shape.type \in Limits THEN bot[b].mine \cup {sent + 1} ELSE bot[b].mine)

\* market_maker and spammer cancel each of their limit orders once.
SendCancel(b, id) ==
  /\ sent < MaxOrders /\ sent' = sent + 1
  /\ id \in bot[b].mine
  /\ Send(b, [id |-> id, type |-> "CANCEL", price |-> 0, qty |-> 0], bot[b].mine \ {id})

\* The engine's answer to an order and its book after it.
Answer(order) == ProcessOrder(engine, replayed(order))

\* External: the engine takes a request and answers it.
Handle(b) ==
  /\ bot[b].pc = "sent"
  /\ engine' = Answer(bot[b].order).book
  /\ bot' = [bot EXCEPT ![b].pc = "handled", ![b].fill = Answer(bot[b].order).fill]
  /\ UNCHANGED <<stage, test, seq, sent, late, timeouts, resetFailures, pipeline>>

\* External: the engine takes a request nobody waits for any more.
HandleLate(order) ==
  /\ order \in late
  /\ engine' = Answer(order).book /\ late' = late \ {order}
  /\ UNCHANGED <<stage, test, seq, sent, bot, timeouts, resetFailures, pipeline>>

\* The answer does not come in time; the request may still be handled.
TimeOut(b) ==
  /\ bot[b].pc \in {"sent", "handled"} /\ timeouts < MaxTimeouts
  /\ timeouts' = timeouts + 1
  /\ late' = IF bot[b].pc = "sent" THEN late \cup {bot[b].order} ELSE late
  /\ bot' = [bot EXCEPT ![b].pc = "over", ![b].fill = Unanswered, ![b].timedOut = TRUE]
  /\ UNCHANGED <<stage, test, seq, sent, engine, resetFailures, pipeline>>

\* The cancelled context ends the request, taken by the engine or not.
Abort(b) ==
  /\ stage = "stopping" /\ bot[b].pc \in {"sent", "handled"}
  /\ bot' = [bot EXCEPT ![b].pc = "over", ![b].fill = Unanswered]
  /\ UNCHANGED <<stage, test, seq, sent, engine, late, timeouts, resetFailures, pipeline>>

\* measureAndEmit numbers the order when it is over: d.Seq.Add(1) ...
Stamp(b) ==
  /\ bot[b].pc \in {"handled", "over"}
  /\ seq' = seq + 1
  /\ bot' = [bot EXCEPT ![b].pc = "stamped", ![b].seq = seq + 1]
  /\ UNCHANGED <<stage, test, sent, engine, late, timeouts, resetFailures, pipeline>>

\* ... and then hands the event to the producer.
Report(b) ==
  /\ bot[b].pc = "stamped"
  /\ Fleet!Emit([test |-> test, seq |-> bot[b].seq, order |-> bot[b].order,
                 fill |-> bot[b].fill, timedOut |-> bot[b].timedOut])
  /\ bot' = [bot EXCEPT ![b] = IdleBot(bot[b].mine)]
  /\ UNCHANGED <<stage, test, seq, sent, engine, late, timeouts, resetFailures,
                 ingestOwn>>

-----------------------------------------------------------------------------

ProducerStep == (Fleet!Collect \/ Fleet!Tick) /\ UNCHANGED <<tests, ingestOwn>>

IngesterStep ==
  /\ \/ Ingest!Consume
     \/ (Timely => AllRead) /\ Ingest!Flush
     \/ Ingest!CountOrder
     \/ Ingest!CountVerdict
  /\ UNCHANGED <<tests, fleetOwn>>

BotStep(b) ==
  \/ \E shape \in Shapes : SendOrder(b, shape)
  \/ \E id \in bot[b].mine : SendCancel(b, id)
  \/ Handle(b) \/ TimeOut(b) \/ Abort(b) \/ Stamp(b) \/ Report(b)

Next ==
  \/ Start \/ Stop \/ Drained
  \/ \E b \in Bots : BotStep(b)
  \/ \E order \in late : HandleLate(order)
  \/ ProducerStep
  \/ IngesterStep

Spec == Init /\ [][Next]_vars

-----------------------------------------------------------------------------
(* Properties *)

\* Nothing disturbs the copy of the book: no request timed out (its order is
\* replayed although the engine may have taken it late or never), no reset
\* failed and no full channel dropped an event (its order is never replayed).
Undisturbed == timeouts = 0 /\ resetFailures = 0 /\ dropped = 0

\* "Without correction the shadow book produces false correctness failures.
\* The reorder buffer ... sorts by the bot-assigned sequence number"
\* (README.md:403-408): an answered order of an engine that matches by price
\* and time is never judged incorrect, until something disturbs the copy.
CorrectEngineIsNeverFaulted ==
  Undisturbed =>
    \A i \in DOMAIN judged : judged[i].event.fill.status # "" => judged[i].correct

\* "Resetting keeps the shadow book in sync with the C++ order book, which
\* the bot-fleet clears via POST /reset per test" (correctness_validator.go:
\* 36-37): while a test runs and all its orders are judged, the two are equal,
\* as long as nothing disturbs them.
BooksInSync ==
  (/\ stage = "running" /\ lastTest = test
   /\ \A b \in Bots : bot[b].pc = "idle"
   /\ Undisturbed /\ AllWritten)
  => book = engine
=============================================================================
