--------------------------- MODULE PriceTimePriority ---------------------------
(***************************************************************************)
(* What the matching engine promises (OrderBook.h: "executes trades based  *)
(* on price-time priority"), with no queue, map or price level: a set of   *)
(* open orders, one taker at a time, and a log.  A taker only ever meets   *)
(* the open order that precedes all others of the opposite side, at that   *)
(* order's price; it rests only when nothing on the other side is          *)
(* acceptable to it; trade ids grow along the log.                         *)
(***************************************************************************)
EXTENDS Orders

CONSTANT NoOrder      \* "no order is being matched"

VARIABLES open,       \* the set of resting orders
          incoming,   \* the order being matched, or NoOrder
          tradeLog    \* the trades executed so far

vars == <<open, incoming, tradeLog>>

\* m is served before n: a better price, or the same price and earlier.
Precedes(m, n) ==
  \/ m.side = "Buy"  /\ m.price > n.price
  \/ m.side = "Sell" /\ m.price < n.price
  \/ m.price = n.price /\ m.arrival < n.arrival

\* The two are on opposite sides and the maker's price suits the taker.
Compatible(taker, maker) ==
  /\ maker.side = Opposite(taker.side)
  /\ \/ taker.type = "Market"
     \/ taker.side = "Buy"  /\ taker.price >= maker.price
     \/ taker.side = "Sell" /\ taker.price <= maker.price

FirstInLine(m) ==
  /\ m \in open
  /\ \A n \in open : n.side = m.side /\ n # m => Precedes(m, n)

Init ==
  /\ open = {}
  /\ incoming = NoOrder
  /\ tradeLog = <<>>

\* A new order, later than every open one and with an id of its own.
Submit ==
  /\ incoming = NoOrder
  /\ incoming' \in Order
  /\ incoming'.remaining_quantity = incoming'.quantity
  /\ incoming'.quantity > 0
  /\ \A o \in open : o.id # incoming'.id /\ o.arrival < incoming'.arrival
  /\ UNCHANGED <<open, tradeLog>>

\* The taker trades with the first in line, at its price, as much as both have.
Execute ==
  /\ incoming # NoOrder
  /\ \E maker \in open :
       LET quantity == MinQty(incoming.remaining_quantity, maker.remaining_quantity)
           trade_id == tradeLog'[Len(tradeLog) + 1].trade_id
       IN /\ Compatible(incoming, maker)
          /\ FirstInLine(maker)
          /\ quantity > 0
          /\ incoming' = Filled(incoming, quantity)
          /\ open' = (open \ {maker}) \cup
                       {o \in {Filled(maker, quantity)} : o.remaining_quantity > 0}
          /\ tradeLog' = Append(tradeLog,
                           TradeBetween(trade_id, incoming, maker, maker.price, quantity))
          /\ \A i \in 1..Len(tradeLog) : tradeLog[i].trade_id < trade_id

Exhausted ==
  \/ incoming.remaining_quantity = 0
  \/ \A m \in open : ~Compatible(incoming, m)

\* The taker is done: what is left of a limit order rests, the rest is dropped.
Settle ==
  /\ incoming # NoOrder
  /\ Exhausted
  /\ open' = open \cup {o \in {incoming} : o.type = "Limit" /\ o.remaining_quantity > 0}
  /\ incoming' = NoOrder
  /\ UNCHANGED tradeLog

Cancel ==
  /\ incoming = NoOrder
  /\ \E o \in open : open' = open \ {o}
  /\ UNCHANGED <<incoming, tradeLog>>

Clear ==
  /\ incoming = NoOrder
  /\ open' = {}
  /\ tradeLog' = <<>>
  /\ UNCHANGED incoming

Next == Submit \/ Execute \/ Settle \/ Cancel \/ Clear

Spec == Init /\ [][Next]_vars

===============================================================================
