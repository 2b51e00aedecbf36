-------------------------------- MODULE Orders --------------------------------
(***************************************************************************)
(* The data the matching engine works on: the structs Order and Trade and  *)
(* the operations on a single order.  Prices and quantities are positive   *)
(* and bounded: POST /orders refuses anything else before the book sees it *)
(* (validateOrder), the workers of /test/concurrency only make such        *)
(* orders, and double and int have a largest value.  The engine only       *)
(* compares prices, so naturals stand for them.  client_id is carried and  *)
(* never read, so it is left out.                                          *)
(***************************************************************************)
EXTENDS Naturals, Sequences

CONSTANTS OrderId,    \* the ids Order::generate_id may hand out
          Symbol,     \* the symbols clients trade
          MaxPrice,   \* bound: the largest price of a limit order
          MaxQuantity,\* bound: the largest size of an order
          Stamp       \* the timestamps a caller may have put on an order

ASSUME BoundsAssumption == MaxPrice \in Nat /\ MaxQuantity \in Nat
ASSUME StampAssumption  == Stamp \subseteq Nat

Price    == 1..MaxPrice
Quantity == 1..MaxQuantity

Side        == {"Buy", "Sell"}
OrderType   == {"Limit", "Market"}
OrderStatus == {"Active", "PartiallyFilled", "Filled"}

Opposite(side) == IF side = "Buy" THEN "Sell" ELSE "Buy"

\* A default-constructed time_point: addOrder stamps such an order itself.
Unset == 0

\* The price field of a market order, which no code reads.
NoPrice == 0

(***************************************************************************)
(* "arrival" is a history field: the position of the order in the sequence *)
(* of exclusive acquisitions of the book's mutex.  No action's guard and   *)
(* no other field depends on it.                                           *)
(***************************************************************************)
Order ==
  [id : OrderId, symbol : Symbol, side : Side, type : OrderType,
   price : Nat, quantity : Nat, remaining_quantity : Nat,
   status : OrderStatus, timestamp : Nat, arrival : Nat]

NewOrder(id, symbol, side, type, price, quantity, timestamp) ==
  [id |-> id, symbol |-> symbol, side |-> side, type |-> type,
   price |-> price, quantity |-> quantity, remaining_quantity |-> quantity,
   status |-> "Active", timestamp |-> timestamp, arrival |-> 0]

\* The orders that pass validateOrder, stamped by their caller.
ValidOrder(id, stamp) ==
  {NewOrder(id, symbol, side, "Limit", price, quantity, stamp) :
     symbol \in Symbol, side \in Side, price \in Price, quantity \in Quantity}
  \cup
  {NewOrder(id, symbol, side, "Market", NoPrice, quantity, stamp) :
     symbol \in Symbol, side \in Side, quantity \in Quantity}

\* Mutant of PricesCross: equal prices do not trade.
PricesCrossStrictly(buyPrice, sellPrice) == buyPrice > sellPrice

PricesCross(buyPrice, sellPrice) == buyPrice >= sellPrice

\* The taker may trade at this price of the opposite side.
Accepts(taker, price) ==
  \/ taker.type = "Market"
  \/ taker.side = "Buy"  /\ PricesCross(taker.price, price)
  \/ taker.side = "Sell" /\ PricesCross(price, taker.price)

\* The order of the keys of buyBook (std::greater) and sellBook (std::less).
BetterPrice(side, p, q) == IF side = "Buy" THEN p > q ELSE p < q

\* Mutant of Filled: the status is forgotten.
FilledKeepingStatus(o, executeQty) == [o EXCEPT !.remaining_quantity = @ - executeQty]

\* The update of remaining_quantity and status that follows a trade, for
\* the taker and for the maker alike.
Filled(o, executeQty) ==
  [o EXCEPT !.remaining_quantity = @ - executeQty,
            !.status = IF o.remaining_quantity = executeQty
                         THEN "Filled" ELSE "PartiallyFilled"]

\* Mutant of MinQty: the taker's remainder, whatever the maker has.
TakerQty(a, b) == a

\* std::min of the two remaining quantities.
MinQty(a, b) == IF a <= b THEN a ELSE b

Trade ==
  [trade_id : Nat, buy_order_id : OrderId, sell_order_id : OrderId,
   symbol : Symbol, price : Nat, quantity : Nat]

ExecuteTrade(trade_id, buyOrder, sellOrder, executionPrice, quantity) ==
  [trade_id |-> trade_id, buy_order_id |-> buyOrder.id,
   sell_order_id |-> sellOrder.id, symbol |-> buyOrder.symbol,
   price |-> executionPrice, quantity |-> quantity]

\* The trade between a taker and the maker it meets, roles by side.
TradeBetween(trade_id, taker, maker, executionPrice, quantity) ==
  IF taker.side = "Buy"
    THEN ExecuteTrade(trade_id, taker, maker, executionPrice, quantity)
    ELSE ExecuteTrade(trade_id, maker, taker, executionPrice, quantity)

===============================================================================
