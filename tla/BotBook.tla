------------------------------- MODULE BotBook -------------------------------
(***************************************************************************)
(* The market maker's own book (bots/shadow_book.go) beside the engine's:  *)
(* the bot adds an order to its book, sends it, and judges the answer by   *)
(* what its book made of it.  The matching loops and the insertion are     *)
(* those of OrderBook; there is no lookup of ids, so a cancel searches the *)
(* levels.  Of the personas only the market maker has such a book; it      *)
(* sends limit orders and cancels, and quotes one order on each side at a  *)
(* time.  What the other bots send reaches the engine and not this book.   *)
(***************************************************************************)
EXTENDS ShadowBook

CONSTANT NoQuote   \* "": no order is quoted

VARIABLES
  own,       \* the bot's levels
  quoted,    \* buyID and sellID
  accepted,  \* correct: the verdict on the last answer
  alone      \* history: has the engine had no other client?

botVars == <<vars, own, quoted, accepted, alone>>

BotInit ==
  /\ Init
  /\ own = [bids |-> <<>>, asks |-> <<>>]
  /\ quoted = [type \in Limits |-> NoQuote]
  /\ accepted = TRUE /\ alone = TRUE

\* Mutated form of toRest: the whole order is put in the book.
allOf(o, left) == o.qty

\* The quantity that goes into the book: f.Remaining.
toRest(o, left) == left

\* AddOrder: the fill to expect, and the levels after it.
AddOrder(o) ==
  LET buys  == o.type \in Buys
      m     == match(o, IF buys THEN own.asks ELSE own.bids)
      side  == IF buys THEN own.bids ELSE own.asks
      side2 == IF o.type \in Limits /\ m.left > 0 THEN insert(side, o, toRest(o, m.left)) ELSE side
  IN  [fill |-> fillOf(o, m.left, m.last),
       own  |-> IF buys THEN [bids |-> side2, asks |-> m.levels] ELSE [bids |-> m.levels, asks |-> side2]]

\* cancel: the first order of that id, among the bids before the asks.
removed(id) ==
  LET bids == without(own.bids, id) IN
  [bids |-> bids, asks |-> IF bids = own.bids THEN without(own.asks, id) ELSE own.asks]

ValidateFill(expected, actual) ==
  /\ expected.status = actual.status \/ (expected.status = "FILLED" /\ actual.status = "PARTIAL")
  /\ actual.qty <= expected.qty \/ expected.status = "PENDING"
  /\ expected.status = "FILLED" /\ expected.price > 0 /\ actual.price > 0 => expected.price = actual.price

\* sendLimit, on a side where nothing is quoted.
BotSubmit(o) ==
  LET added == AddOrder(o) IN
  /\ quoted[o.type] = NoQuote
  /\ SubmitOrder(o)
  /\ own' = added.own /\ accepted' = ValidateFill(added.fill, fill')
  /\ quoted' = [quoted EXCEPT ![o.type] = o.id]
  /\ UNCHANGED alone

\* sendCancel, for the quote of a side that has stood its time.
BotCancel(side) ==
  /\ quoted[side] # NoQuote
  /\ CancelOrder(quoted[side])
  /\ own' = removed(quoted[side])
  /\ accepted' = (fill'.status \in {"CANCELLED", "NOT_FOUND", "ALREADY_FILLED"})
  /\ quoted' = [quoted EXCEPT ![side] = NoQuote]
  /\ UNCHANGED alone

\* Another bot's order, market orders among them, or its cancel.
OthersOrder ==
  /\ Next
  /\ alone' = FALSE
  /\ UNCHANGED <<own, quoted, accepted>>

BotsOrder ==
  \/ \E o \in LimitOrder : BotSubmit(o)
  \/ \E side \in Limits : BotCancel(side)

BotNext == BotsOrder \/ OthersOrder

BotSpec == BotInit /\ [][BotNext]_botVars

-----------------------------------------------------------------------------
(* Properties *)

\* A market maker that is alone with a correct engine never finds it at
\* fault, and its book is the engine's, order by order, although it has no
\* lookup of ids, may trade with its own earlier quote, and cancels quotes
\* that were taken long before (shadow_book.go:43-183,
\* market_maker.go:32-76).
AloneTheBotIsRight ==
  alone /\ ~reused => accepted /\ own.bids = book.bids /\ own.asks = book.asks
=============================================================================
