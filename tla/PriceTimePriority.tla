-------------------------- MODULE PriceTimePriority --------------------------
(***************************************************************************)
(* What a correct order book promises, without levels, queues or loops: an *)
(* order trades with the resting orders of the other side it crosses, best *)
(* price first and oldest first within a price, each as far as the orders  *)
(* ahead of it left something over; the rest of a limit order waits.       *)
(***************************************************************************)
EXTENDS Integers, FiniteSets, FiniteSetsExt, Functions

CONSTANTS Ids, Prices, Quantities

VARIABLES
  resting,   \* orders that wait: id, side, price, left and arrival number
  arrivals,  \* orders submitted so far
  fill       \* the answer to the last request

vars == <<resting, arrivals, fill>>

Sides  == {"buy", "sell"}
NoFill == [status |-> "none", price |-> 0, qty |-> 0, left |-> 0]

Init == resting = {} /\ arrivals = 0 /\ fill = NoFill

Crossing(side, limit, price) ==
  {r \in resting : /\ r.side # side
                   /\ limit => IF side = "buy" THEN r.price <= price ELSE r.price >= price}

Before(r, s) ==
  \/ r.price # s.price /\ (IF r.side = "sell" THEN r.price < s.price ELSE r.price > s.price)
  \/ r.price = s.price /\ r.seq < s.seq

\* What an order of quantity qty takes from r when it may trade with those in C.
Taken(r, C, qty) ==
  LET ahead == SumFunctionOnSet([s \in C |-> s.left], {s \in C : Before(s, r)})
  IN  Min({r.left, Max({0, qty - ahead})})

Submit(id, side, limit, price, qty) ==
  LET C      == Crossing(side, limit, price)
      taken  == [r \in C |-> Taken(r, C, qty)]
      traded == SumFunctionOnSet(taken, C)
      left   == qty - traded
      last   == CHOOSE r \in C : taken[r] > 0 /\ \A s \in C : taken[s] > 0 => ~Before(r, s)
      after  == {[r EXCEPT !.left = @ - taken[r]] : r \in {s \in C : taken[s] < s.left}}
      rest   == IF limit /\ left > 0
                THEN {[id |-> id, side |-> side, price |-> price, left |-> left,
                       seq |-> arrivals + 1]}
                ELSE {}
  IN
  /\ resting'  = (resting \ C) \cup after \cup rest
  /\ arrivals' = arrivals + 1
  /\ fill' = IF traded = 0
             THEN [status |-> IF limit THEN "PENDING" ELSE "REJECTED", price |-> 0,
                   qty |-> 0, left |-> IF limit THEN qty ELSE 0]
             ELSE [status |-> IF left > 0 THEN "PARTIAL" ELSE "FILLED",
                   price |-> last.price, qty |-> traded, left |-> left]

Cancel(id) ==
  LET hit == {r \in resting : r.id = id} IN
  /\ resting' = resting \ hit
  /\ fill' = [NoFill EXCEPT !.status = IF hit = {} THEN "NOT_FOUND" ELSE "CANCELLED"]
  /\ UNCHANGED arrivals

Next ==
  \/ \E id \in Ids, side \in Sides, limit \in BOOLEAN, price \in Prices, qty \in Quantities :
       Submit(id, side, limit, price, qty)
  \/ \E id \in Ids : Cancel(id)

Spec == Init /\ [][Next]_vars
=============================================================================
