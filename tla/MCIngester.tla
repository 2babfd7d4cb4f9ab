------------------------------ MODULE MCIngester ------------------------------
(***************************************************************************)
(* The telemetry ingester: the way of an event to its verdict, and what    *)
(* the pipeline hands it to next - the recent past kept in memory and the  *)
(* writer of rows - and the monitor of the lag.  They share no state: a    *)
(* behaviour moves the one `part` names.                                   *)
(***************************************************************************)
EXTENDS Ingester, RateWindows, RowWriter, LagMonitor

VARIABLE part

mcVars == <<vars, rateVars, writerVars, lagVars, part>>

MCInit ==
  part \in {"events", "rates", "rows", "lag"} /\ Init /\ RateInit /\ WriterInit /\ LagInit

EventStep == part = "events" /\ Next /\ UNCHANGED <<rateVars, writerVars, lagVars, part>>
RateStep  == part = "rates" /\ RateNext /\ UNCHANGED <<vars, writerVars, lagVars, part>>
RowStep   == part = "rows" /\ WriterNext /\ UNCHANGED <<vars, rateVars, lagVars, part>>
LagStep   == part = "lag" /\ LagNext /\ UNCHANGED <<vars, rateVars, writerVars, part>>
MCNext    == EventStep \/ RateStep \/ RowStep \/ LagStep

OfEvents(A) == part = "events" /\ A

\* The fairness of Ingester, for its part.
MCSpec ==
  /\ MCInit /\ [][MCNext]_mcVars
  /\ WF_vars(OfEvents(Consume)) /\ (part = "events" => FlusherFairness)
  /\ WF_vars(OfEvents(CountOrder)) /\ WF_vars(OfEvents(CountVerdict))

Order(id, type, price, qty) == [id |-> id, type |-> type, price |-> price, qty |-> qty]
Answer(status, price, qty) == [status |-> status, price |-> price, qty |-> qty]
Event(test, seq, order, fill, timedOut) ==
  [test |-> test, seq |-> seq, order |-> order, fill |-> fill, timedOut |-> timedOut]

\* A resting sell, a buy that takes it, a timed-out buy, a wrong answer, and
\* the first order of the next test.
MCEvents == {
  Event("t1", 1, Order(1, "LIMIT_SELL", 1, 1), Answer("PENDING", 0, 0), FALSE),
  Event("t1", 2, Order(2, "MARKET_BUY", 0, 1), Answer("FILLED", 1, 1), FALSE),
  Event("t1", 3, Order(3, "LIMIT_BUY", 1, 1), Answer("", 0, 0), TRUE),
  Event("t2", 1, Order(4, "LIMIT_SELL", 1, 1), Answer("FILLED", 1, 2), FALSE)}
=============================================================================
