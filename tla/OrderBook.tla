------------------------------- MODULE OrderBook -------------------------------
(***************************************************************************)
(* The matching engine, class OrderBook.  Its two std::maps from price to  *)
(* deque are book["Buy"] and book["Sell"]: functions whose DOMAIN is the   *)
(* set of price levels present, so that a level left behind empty, which   *)
(* the code must never do (front() of an empty deque), can be expressed.   *)
(*                                                                         *)
(* addOrder runs under the exclusive lock of bookMutex.  It is several     *)
(* steps here (AddOrder, one step per turn of the matching loop, then the  *)
(* end of the loop with addToBook), and incoming # NoOrder is the lock     *)
(* being held: every other operation waits for NoOrder.                    *)
(***************************************************************************)
EXTENDS Orders, SequencesExt

CONSTANTS NoOrder,      \* the value of incoming when the lock is free
          MaxTradeId    \* bound: ids that Trade objects made elsewhere draw

ASSUME NoOrderAssumption    == NoOrder \notin Order
ASSUME MaxTradeIdAssumption == MaxTradeId \in Nat

VARIABLES
  book,             \* side -> [price levels present -> queue of orders]
  incoming,         \* addOrder's parameter while it runs, else NoOrder
  trades,           \* the vector addOrder is going to return
  tradeLog,         \* every trade executed since construction or clear()
  trade_id_counter, \* Trade::id_counter, the next id
  clock,            \* exclusive acquisitions by addOrder so far
  submitted         \* history: the ids of all orders ever handed over

vars == <<book, incoming, trades, tradeLog, trade_id_counter, clock, submitted>>

-------------------------------------------------------------------------------
\* Price levels.

EmptyLevels == [p \in {} |-> <<>>]

Queue(levels, price) == IF price \in DOMAIN levels THEN levels[price] ELSE <<>>

PutLevel(levels, price, queue) ==
  [p \in DOMAIN levels \cup {price} |-> IF p = price THEN queue ELSE levels[p]]

DropLevel(levels, price) == [p \in DOMAIN levels \ {price} |-> levels[p]]

\* A level whose queue has become empty is erased from the map.
SetLevel(levels, price, queue) ==
  IF queue = <<>> THEN DropLevel(levels, price) ELSE PutLevel(levels, price, queue)

\* Mutant of AddToBook: push_front.
AddToBookInFront(levels, order) ==
  PutLevel(levels, order.price, <<order>> \o Queue(levels, order.price))

\* operator[] of the map creates the level that is missing.
AddToBook(levels, order) ==
  PutLevel(levels, order.price, Append(Queue(levels, order.price), order))

\* Mutant of IsBest: a level of a container that is not sorted.
IsAnyLevel(side, price) == price \in DOMAIN book[side]

\* begin() of buyBook, sorted by std::greater, or of sellBook, by std::less.
IsBest(side, price) ==
  /\ price \in DOMAIN book[side]
  /\ \A p \in DOMAIN book[side] : p # price => BetterPrice(side, price, p)

\* The levels the taker may trade at now: the best one of the other side,
\* if the prices cross.
MatchablePrices(taker) ==
  {p \in DOMAIN book[Opposite(taker.side)] :
     IsBest(Opposite(taker.side), p) /\ Accepts(taker, p)}

Init ==
  /\ book = [side \in Side |-> EmptyLevels]
  /\ incoming = NoOrder
  /\ trades = <<>>
  /\ tradeLog = <<>>
  /\ trade_id_counter = 1
  /\ clock = 0
  /\ submitted = {}

-------------------------------------------------------------------------------
\* addOrder

\* The lock is acquired; an order without a timestamp gets one.
AddOrder(order) ==
  /\ incoming = NoOrder
  /\ submitted' = submitted \cup {order.id}
  /\ clock' = clock + 1
  /\ incoming' = [order EXCEPT
       !.timestamp = IF @ = Unset THEN clock' ELSE @,
       !.arrival   = clock']
  /\ UNCHANGED <<book, trades, tradeLog, trade_id_counter>>

\* Mutant of GenerateTradeId: a load in place of the fetch_add.
ReadTradeId == UNCHANGED trade_id_counter

\* Trade::generate_id, an atomic fetch_add.
GenerateTradeId == trade_id_counter' = trade_id_counter + 1

\* Mutant of AfterTrade: the maker is a copy of the front, not a reference.
AfterTradeOnCopy(levels, price, maker) ==
  IF maker.remaining_quantity = 0 THEN SetLevel(levels, price, Tail(levels[price]))
                                  ELSE levels

\* The best level after its first order has traded: a maker without
\* remainder is popped, and its level with it when it was the last.
AfterTrade(levels, price, maker) ==
  SetLevel(levels, price,
           IF maker.remaining_quantity = 0
             THEN Tail(levels[price])
             ELSE [levels[price] EXCEPT ![1] = maker])

\* One turn of the loop of matchBuyOrder or matchSellOrder that trades.
MatchOne(side) ==
  LET other == Opposite(side)
  IN /\ incoming # NoOrder
     /\ incoming.side = side
     /\ incoming.remaining_quantity > 0
     /\ \E price \in MatchablePrices(incoming) :
          LET maker      == Head(book[other][price])
              executeQty == MinQty(incoming.remaining_quantity, maker.remaining_quantity)
              trade      == TradeBetween(trade_id_counter, incoming, maker, price, executeQty)
          IN /\ trades' = Append(trades, trade)
             /\ tradeLog' = Append(tradeLog, trade)
             /\ GenerateTradeId
             /\ incoming' = Filled(incoming, executeQty)
             /\ book' = [book EXCEPT
                  ![other] = AfterTrade(@, price, Filled(maker, executeQty))]
     /\ UNCHANGED <<clock, submitted>>

MatchBuyOrder  == MatchOne("Buy")
MatchSellOrder == MatchOne("Sell")

\* Mutant of MatchingDone: an order with a remainder does not leave the loop.
NothingRemains ==
  /\ incoming # NoOrder
  /\ incoming.remaining_quantity = 0

\* The loop is over: nothing remains, the other side is empty, or its best
\* price does not cross.
MatchingDone ==
  /\ incoming # NoOrder
  /\ \/ incoming.remaining_quantity = 0
     \/ MatchablePrices(incoming) = {}

\* addToBook, for what is left of a limit order; the lock is released.
RestOrder ==
  /\ MatchingDone
  /\ incoming.type = "Limit"
  /\ incoming.remaining_quantity > 0
  /\ book' = [book EXCEPT ![incoming.side] = AddToBook(@, incoming)]
  /\ incoming' = NoOrder
  /\ trades' = <<>>
  /\ UNCHANGED <<tradeLog, trade_id_counter, clock, submitted>>

\* Mutant of DropOrder: the vector of trades survives the call.
DropOrderKeepingTrades ==
  /\ MatchingDone
  /\ incoming.type = "Market" \/ incoming.remaining_quantity = 0
  /\ incoming' = NoOrder
  /\ UNCHANGED <<book, trades, tradeLog, trade_id_counter, clock, submitted>>

\* A filled order, or the remainder of a market order, is dropped.
DropOrder ==
  /\ MatchingDone
  /\ incoming.type = "Market" \/ incoming.remaining_quantity = 0
  /\ incoming' = NoOrder
  /\ trades' = <<>>
  /\ UNCHANGED <<book, tradeLog, trade_id_counter, clock, submitted>>

-------------------------------------------------------------------------------
\* The other operations.

\* The resting orders, wherever they are.
Resting == UNION {UNION {Range(book[side][p]) : p \in DOMAIN book[side]} : side \in Side}

RestingIds == {o.id : o \in Resting}

\* Mutant of CancelOrder: the order is found, and left where it is.
FindOrder(id) ==
  /\ incoming = NoOrder
  /\ id \in RestingIds
  /\ UNCHANGED vars

\* cancelOrder of an id that the search finds (one that it does not find
\* changes nothing).  Ids are unique in the book, so the order in which the
\* two maps are searched does not matter.
CancelOrder(id) ==
  /\ incoming = NoOrder
  /\ \E side \in Side : \E price \in DOMAIN book[side] :
       \E i \in DOMAIN book[side][price] :
         /\ book[side][price][i].id = id
         /\ book' = [book EXCEPT ![side] = SetLevel(@, price, RemoveAt(@[price], i))]
  /\ UNCHANGED <<incoming, trades, tradeLog, trade_id_counter, clock, submitted>>

\* clear(): the id counter, a static of Trade, is not reset.
Clear ==
  /\ incoming = NoOrder
  /\ book' = [side \in Side |-> EmptyLevels]
  /\ tradeLog' = <<>>
  /\ UNCHANGED <<incoming, trades, trade_id_counter, clock, submitted>>

\* A Trade object made outside the book (GET /models/demo) draws an id, with
\* no regard to the lock.
DrawTradeId ==
  /\ trade_id_counter < MaxTradeId
  /\ GenerateTradeId
  /\ UNCHANGED <<book, incoming, trades, tradeLog, clock, submitted>>

\* Mutant of FreshId: ids that may come twice.
AnyId == OrderId

\* The ids an order can come with.  Order::generate_id is an atomic fetch_add,
\* so no two orders have the same (TradingServer has the counter).
FreshId == OrderId \ submitted

Next ==
  \/ \E id \in FreshId : \E stamp \in Stamp : \E order \in ValidOrder(id, stamp) :
       AddOrder(order)
  \/ MatchBuyOrder
  \/ MatchSellOrder
  \/ RestOrder
  \/ DropOrder
  \/ \E id \in OrderId : CancelOrder(id)
  \/ Clear
  \/ DrawTradeId

Spec == Init /\ [][Next]_vars

-------------------------------------------------------------------------------
\* The getters, each under a shared lock of its own: 0 stands for "none".

BestPrice(side) ==
  IF DOMAIN book[side] = {} THEN 0 ELSE CHOOSE p \in DOMAIN book[side] : IsBest(side, p)

GetBestBid == BestPrice("Buy")
GetBestAsk == BestPrice("Sell")
GetSpread  == IF GetBestBid = 0 \/ GetBestAsk = 0 THEN 0 ELSE GetBestAsk - GetBestBid

OrdersOf(side)   == MapThenSumSet(LAMBDA p : Len(book[side][p]), DOMAIN book[side])
GetTotalOrders   == OrdersOf("Buy") + OrdersOf("Sell")
GetTradeCount    == Len(tradeLog)

\* The levels of a side, with their depth; how many of the best ones are
\* shown is the client's choice.
LevelsOf(side) ==
  {[price    |-> p,
    quantity |-> FoldLeft(LAMBDA sum, o : sum + o.remaining_quantity, 0, book[side][p]),
    orders   |-> Len(book[side][p])] : p \in DOMAIN book[side]}

GetBookSnapshot ==
  [bids |-> LevelsOf("Buy"), asks |-> LevelsOf("Sell"),
   best_bid |-> GetBestBid, best_ask |-> GetBestAsk, spread |-> GetSpread]

GetBookStatistics ==
  [bid_levels |-> Cardinality(DOMAIN book["Buy"]),
   ask_levels |-> Cardinality(DOMAIN book["Sell"]),
   bid_orders |-> OrdersOf("Buy"), ask_orders |-> OrdersOf("Sell"),
   total_trades |-> GetTradeCount]

-------------------------------------------------------------------------------
\* Properties.

TypeOK ==
  /\ book = [side \in Side |-> book[side]]
  /\ \A side \in Side : /\ DOMAIN book[side] \subseteq Price
                        /\ book[side] \in [DOMAIN book[side] -> Seq(Order)]
  /\ incoming \in Order \cup {NoOrder}
  /\ trades \in Seq(Trade)
  /\ tradeLog \in Seq(Trade)
  /\ trade_id_counter \in Nat
  /\ clock \in Nat
  /\ submitted \in SUBSET OrderId

\* No price level without an order is ever left in a map: the matching loop
\* takes front() of the best level's queue without looking whether it has one.
NoEmptyLevels ==
  \A side \in Side : \A p \in DOMAIN book[side] : book[side][p] # <<>>

\* What rests in a level belongs there: a limit order of that side and price
\* with something left to trade, whose status tells whether it has traded.
RestsWell(o, side, p) ==
  /\ o.side = side
  /\ o.price = p
  /\ o.type = "Limit"
  /\ o.remaining_quantity \in 1..o.quantity
  /\ o.status = IF o.remaining_quantity = o.quantity THEN "Active" ELSE "PartiallyFilled"
  /\ o.id \in submitted
  /\ o.arrival <= clock

LevelsSound ==
  \A side \in Side : \A p \in DOMAIN book[side] : \A i \in DOMAIN book[side][p] :
    RestsWell(book[side][p][i], side, p)

\* The taker never trades more than it asked for, its status says how far it
\* is, and it is later than every resting order.
TakerSound ==
  incoming # NoOrder =>
    /\ incoming.quantity > 0
    /\ incoming.remaining_quantity <= incoming.quantity
    /\ incoming.status = IF incoming.remaining_quantity = 0 THEN "Filled"
                         ELSE IF incoming.remaining_quantity = incoming.quantity
                                THEN "Active" ELSE "PartiallyFilled"
    /\ incoming.type = "Limit" => incoming.price \in Price
    /\ incoming.id \in submitted
    /\ incoming.arrival = clock
    /\ \A side \in Side : \A p \in DOMAIN book[side] : \A i \in DOMAIN book[side][p] :
         book[side][p][i].arrival < clock

OrdersSound == LevelsSound /\ TakerSound

\* No bid is at or above an ask, not even between two trades of one order:
\* whatever could trade has traded.
NotCrossed ==
  \A bid \in DOMAIN book["Buy"] : \A ask \in DOMAIN book["Sell"] : bid < ask

\* Within a level, orders queue in the order in which they took the lock.
QueuedByArrival ==
  \A side \in Side : \A p \in DOMAIN book[side] :
    \A i, j \in DOMAIN book[side][p] :
      i < j => book[side][p][i].arrival < book[side][p][j].arrival

PositionsUnique ==
  \A s1, s2 \in Side : \A p \in DOMAIN book[s1] : \A q \in DOMAIN book[s2] :
    \A i \in DOMAIN book[s1][p] : \A j \in DOMAIN book[s2][q] :
      book[s1][p][i].id = book[s2][q][j].id => s1 = s2 /\ p = q /\ i = j

\* An id is in the book at most once, and not while its order is matched:
\* cancelOrder stops at the first order it finds.
IdsUnique ==
  /\ PositionsUnique
  /\ incoming # NoOrder => incoming.id \notin RestingIds

\* The part of an order in a trade, and in all the trades of a log.
Names(trade, id) == id \in {trade.buy_order_id, trade.sell_order_id}

Share(trade, id) == IF Names(trade, id) THEN trade.quantity ELSE 0

TradedIn(log, id) ==
  LET traded[n \in 0..Len(log)] ==
        IF n = 0 THEN 0 ELSE traded[n - 1] + Share(log[n], id)
  IN  traded[Len(log)]

\* Quantity is conserved: for every order in the book and for the taker, what
\* the log says it traded and what remains add up to what was ordered.
QuantityConserved ==
  /\ \A o \in Resting : o.remaining_quantity + TradedIn(tradeLog, o.id) = o.quantity
  /\ incoming # NoOrder =>
       incoming.remaining_quantity + TradedIn(tradeLog, incoming.id) = incoming.quantity

\* The vector addOrder returns is exactly the taker's part of the log: its
\* last entries, all of them the taker's and none of the taker's missing.
ReturnsItsTrades ==
  incoming # NoOrder =>
    LET before == Len(tradeLog) - Len(trades)
    IN  /\ before >= 0
        /\ \A i \in DOMAIN trades : trades[i] = tradeLog[before + i]
        /\ \A i \in DOMAIN tradeLog : Names(tradeLog[i], incoming.id) <=> i > before

\* Trade ids grow along the log, over clear() and whoever else draws ids.
TradeIdsGrow ==
  \A i \in DOMAIN tradeLog :
    /\ tradeLog[i].trade_id < trade_id_counter
    /\ \A j \in DOMAIN tradeLog : i < j => tradeLog[i].trade_id < tradeLog[j].trade_id

Live == RestingIds \cup {o.id : o \in {incoming} \ {NoOrder}}

\* An order that has left, filled, dropped or cancelled, is gone for good: it
\* does not come back and no later trade names it.
GoneForGood ==
  [][\A id \in submitted \ Live :
       /\ id \notin Live'
       /\ TradedIn(tradeLog', id) <= TradedIn(tradeLog, id)]_vars

\* No order ever trades more than it asked for, the trade included with which
\* it is filled and leaves: what the log says after a step is within the
\* quantity of every order that was resting or being matched before it.
NeverOverfilled ==
  [][\A o \in Resting \cup ({incoming} \ {NoOrder}) :
       TradedIn(tradeLog', o.id) <= o.quantity]_vars

\* Both orders of a trade are of one symbol, as executeTrade assumes.
SymbolsAgree ==
  [][Len(tradeLog') > Len(tradeLog) =>
       \A buy, sell \in Resting \cup {incoming} :
         LET trade == Last(tradeLog')
         IN buy.id = trade.buy_order_id /\ sell.id = trade.sell_order_id
              => buy.symbol = sell.symbol]_vars

\* The book never breaks the promise of price-time priority.
Abstract == INSTANCE PriceTimePriority WITH open <- Resting

ImplementsPriceTimePriority == Abstract!Spec

===============================================================================
