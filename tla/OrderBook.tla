------------------------------ MODULE OrderBook ------------------------------
(***************************************************************************)
(* The price-time priority matching engine as operators on a book value.   *)
(* shadow-orderbook/orderbook.go is the standalone engine; the ingester's  *)
(* telemetry-ingester/shadowbook/order_book.go repeats it.  A book holds   *)
(* its bid and ask levels best price first, the orders of a level in       *)
(* arrival order, and the ids Cancel knows.  Quantities are integers here: *)
(* a match takes the smaller of two floats, so one of them becomes exactly *)
(* zero there too.                                                         *)
(***************************************************************************)
EXTENDS Naturals, Sequences, SequencesExt

Buys   == {"LIMIT_BUY", "MARKET_BUY"}
Sells  == {"LIMIT_SELL", "MARKET_SELL"}
Limits == {"LIMIT_BUY", "LIMIT_SELL"}

NewBook == [bids |-> <<>>, asks |-> <<>>, orders |-> {}]

Fill(status, price, qty, left) ==
  [status |-> status, price |-> price, qty |-> qty, left |-> left]

\* May order o trade at this level's price?
crosses(o, price) ==
  \/ o.type \notin Limits
  \/ o.type = "LIMIT_BUY"  /\ price <= o.price
  \/ o.type = "LIMIT_SELL" /\ price >= o.price

\* Mutated form of takeFrom: an order that trades in part is dropped too.
takeWhole(acc, r) ==
  LET m == Min({acc.left, r.left}) IN
  [left |-> acc.left - m,
   gone |-> IF m > 0 THEN acc.gone \cup {r.id} ELSE acc.gone,
   kept |-> IF m > 0 THEN acc.kept ELSE Append(acc.kept, r)]

\* One round of the inner loop: trade with the level's next order; a
\* consumed order leaves the level and the lookup.
takeFrom(acc, r) ==
  LET m == Min({acc.left, r.left}) IN
  [left |-> acc.left - m,
   gone |-> IF m = r.left THEN acc.gone \cup {r.id} ELSE acc.gone,
   kept |-> IF m = r.left THEN acc.kept ELSE Append(acc.kept, [r EXCEPT !.left = @ - m])]

\* One round of the outer loop.  It ends at the first level that does not
\* cross or when nothing is left; a level found or left empty is dropped.
matchLevel(o, acc, lvl) ==
  IF acc.done \/ acc.left = 0 \/ ~crosses(o, lvl.price)
  THEN [acc EXCEPT !.done = TRUE, !.levels = Append(@, lvl)]
  ELSE LET in == FoldLeft(takeFrom, [left |-> acc.left, gone |-> acc.gone, kept |-> <<>>],
                          lvl.orders)
       IN  [done   |-> FALSE, left |-> in.left, gone |-> in.gone,
            last   |-> IF in.left < acc.left THEN lvl.price ELSE acc.last,
            levels |-> IF in.kept = <<>> THEN acc.levels
                       ELSE Append(acc.levels, [lvl EXCEPT !.orders = in.kept])]

\* matchMarket and matchLimit.
match(o, levels) ==
  FoldLeft(LAMBDA acc, lvl : matchLevel(o, acc, lvl),
           [done |-> FALSE, left |-> o.qty, gone |-> {}, last |-> 0, levels |-> <<>>],
           levels)

\* What the caller is told: a limit order that did not trade waits, a market
\* order is refused.
fillOf(o, left, last) ==
  CASE left = o.qty /\ o.type \in Limits -> Fill("PENDING", 0, 0, left)
    [] left = o.qty /\ o.type \notin Limits -> Fill("REJECTED", 0, 0, 0)
    [] left < o.qty /\ left > 0 -> Fill("PARTIAL", last, o.qty - left, left)
    [] OTHER -> Fill("FILLED", last, o.qty, 0)

\* Does price p come before price q on the side an order of this type rests?
better(type, p, q) == IF type \in Buys THEN p > q ELSE p < q

\* The rest of a limit order joins the back of its level.  Without one a new
\* level is added and the levels are sorted again, which, as they stood best
\* price first, moves it before the first worse one.
insert(levels, o, left) ==
  LET r     == [id |-> o.id, left |-> left, seq |-> o.seq]
      i     == SelectInSeq(levels, LAMBDA l : l.price = o.price)
      worse == SelectInSeq(levels, LAMBDA l : better(o.type, o.price, l.price))
  IN  IF i # 0 THEN [levels EXCEPT ![i].orders = Append(@, r)]
      ELSE InsertAt(levels, IF worse = 0 THEN Len(levels) + 1 ELSE worse,
                    [price |-> o.price, orders |-> <<r>>])

\* ProcessOrder for the four order types: the fill and the book after it.
Submit(book, o) ==
  LET other == IF o.type \in Buys THEN book.asks ELSE book.bids
      own   == IF o.type \in Buys THEN book.bids ELSE book.asks
      m     == match(o, other)
      rests == o.type \in Limits /\ m.left > 0
      own2  == IF rests THEN insert(own, o, m.left) ELSE own
      ids   == (book.orders \ m.gone) \cup (IF rests THEN {o.id} ELSE {})
  IN  [fill |-> fillOf(o, m.left, m.last),
       book |-> IF o.type \in Buys
                THEN [bids |-> own2, asks |-> m.levels, orders |-> ids]
                ELSE [bids |-> m.levels, asks |-> own2, orders |-> ids]]

\* The levels without the first order that has this id; an emptied level
\* stays.
without(levels, id) ==
  LET i == SelectInSeq(levels, LAMBDA l : \E n \in DOMAIN l.orders : l.orders[n].id = id)
  IN  IF i = 0 THEN levels
      ELSE [levels EXCEPT ![i].orders = RemoveFirstMatch(@, LAMBDA r : r.id = id)]

\* Mutated form of cancelled: the lookup forgets the order, the level does not.
cancelledLookup(book, id) == [book EXCEPT !.orders = @ \ {id}]

\* The book without the order: looked for among the bids, then the asks.
cancelled(book, id) ==
  LET bids == without(book.bids, id) IN
  [bids   |-> bids,
   asks   |-> IF bids = book.bids THEN without(book.asks, id) ELSE book.asks,
   orders |-> book.orders \ {id}]

Cancel(book, id) ==
  IF id \in book.orders
  THEN [fill |-> Fill("CANCELLED", 0, 0, 0), book |-> cancelled(book, id)]
  ELSE [fill |-> Fill("NOT_FOUND", 0, 0, 0), book |-> book]

\* An event's order as it is replayed: the number kept with a resting order
\* is never read.
replayed(order) ==
  [id |-> order.id, type |-> order.type, price |-> order.price, qty |-> order.qty, seq |-> 0]

ProcessOrder(book, o) == IF o.type = "CANCEL" THEN Cancel(book, o.id) ELSE Submit(book, o)
=============================================================================
