----------------------------- MODULE ShadowBook -----------------------------
(***************************************************************************)
(* One book of the telemetry ingester under every sequence of orders: the  *)
(* calls of ProcessOrder, which take the book's mutex and so are atomic.   *)
(* order ids are drawn at random by the bots; an id comes again when an    *)
(* event is replayed or two ids collide.                                   *)
(***************************************************************************)
EXTENDS OrderBook

CONSTANTS
  Ids, Prices, Quantities,
  MaxOrders       \* bound: orders submitted in a behaviour

ASSUME BookAssumption ==
  /\ MaxOrders \in Nat
  /\ Prices \subseteq Nat \ {0} /\ Quantities \subseteq Nat \ {0}

VARIABLES
  book,
  submitted,  \* ids submitted so far
  reused,     \* history: has one of them come again?
  arrivals,   \* sequence number of the last order
  fill        \* the answer to the last call

vars == <<book, submitted, reused, arrivals, fill>>

Init ==
  /\ book = NewBook
  /\ submitted = {} /\ reused = FALSE
  /\ arrivals = 0
  /\ fill = Fill("none", 0, 0, 0)

SubmitOrder(o) ==
  LET result == ProcessOrder(book, o) IN
  /\ o.seq = arrivals + 1 /\ o.seq <= MaxOrders
  /\ book' = result.book /\ fill' = result.fill
  /\ submitted' = submitted \cup {o.id} /\ reused' = (reused \/ o.id \in submitted)
  /\ arrivals' = o.seq

CancelOrder(id) ==
  LET result == ProcessOrder(book, [type |-> "CANCEL", id |-> id]) IN
  /\ id \in submitted
  /\ book' = result.book /\ fill' = result.fill
  /\ UNCHANGED <<submitted, reused, arrivals>>

LimitOrder  == [id : Ids, type : Limits, price : Prices, qty : Quantities, seq : 1 .. MaxOrders]
MarketOrder == [id : Ids, type : {"MARKET_BUY", "MARKET_SELL"}, price : {0},
                qty : Quantities, seq : 1 .. MaxOrders]

Next ==
  \/ \E o \in LimitOrder \cup MarketOrder : SubmitOrder(o)
  \/ \E id \in Ids : CancelOrder(id)

Spec == Init /\ [][Next]_vars

-----------------------------------------------------------------------------
(* Properties *)

\* The resting orders of a side, as the abstract book sees them.
OrdersOf(levels, side) ==
  UNION {{[id |-> levels[i].orders[n].id, side |-> side, price |-> levels[i].price,
           left |-> levels[i].orders[n].left, seq |-> levels[i].orders[n].seq] :
            n \in DOMAIN levels[i].orders} : i \in DOMAIN levels}

Resting == OrdersOf(book.bids, "buy") \cup OrdersOf(book.asks, "sell")

\* The book stays what its loops and its lookup take it for: each level of a
\* side has a price of its own and they stand best price first, also while
\* emptied ones linger; no resting buy could trade with a resting sell, so
\* matching never stops early; and while ids are not reused Cancel knows
\* exactly the orders that rest, so that none is beyond cancelling and none
\* is cancelled twice (order_book.go:106-186).
BookIsSound ==
  /\ book.orders \subseteq submitted
  /\ \A r \in Resting : r.id \in Ids /\ r.price \in Prices /\ r.left > 0
                         /\ \E q \in Quantities : r.left <= q
  /\ \A i, k \in DOMAIN book.bids : i < k => book.bids[i].price > book.bids[k].price
  /\ \A i, k \in DOMAIN book.asks : i < k => book.asks[i].price < book.asks[k].price
  /\ \A r, s \in Resting : r.side = "buy" /\ s.side = "sell" => r.price < s.price
  /\ ~reused => book.orders = {r.id : r \in Resting}

\* While ids are not reused, the levels, the loops over them and the emptied
\* levels left by Cancel are an implementation of price-time priority: the
\* fills and the resting orders are those of PriceTimePriority
\* (order_book.go:106-186).
Reference == INSTANCE PriceTimePriority WITH resting <- Resting
PriceTime == Reference!Init /\ [][reused' \/ Reference!Next]_<<Resting, arrivals, fill>>
=============================================================================
