-------------------------- MODULE OrderBookRefinement --------------------------
(***************************************************************************)
(* The matching engine implements PriceTimePriority: seen as a set of open *)
(* orders (Resting), each of its steps is the step the abstract engine     *)
(* takes, or none.  The lemmas of the first part say what each operation   *)
(* on the queues does to that set.                                         *)
(***************************************************************************)
EXTENDS OrderBookProofs

\* The operators both engines take from Orders are the same.
LEMMA SharedOperators ==
  /\ Abstract!Order = Order
  /\ \A o, q : Abstract!Filled(o, q) = Filled(o, q)
  /\ \A a, b : Abstract!MinQty(a, b) = MinQty(a, b)
  /\ \A side : Abstract!Opposite(side) = Opposite(side)
  /\ \A tid, taker, maker, price, q :
       Abstract!TradeBetween(tid, taker, maker, price, q) =
         TradeBetween(tid, taker, maker, price, q)
BY DEF Abstract!Order, Order, Abstract!Side, Side, Abstract!OrderType, OrderType,
       Abstract!OrderStatus, OrderStatus, Abstract!Filled, Filled,
       Abstract!MinQty, MinQty, Abstract!Opposite, Opposite,
       Abstract!TradeBetween, TradeBetween, Abstract!ExecuteTrade, ExecuteTrade

\* A resting order has a place, and is what that place says.
LEMMA RestingPlace ==
  ASSUME BookInv, NEW o \in Resting
  PROVE  /\ o \in Order
         /\ \E side \in Side : \E p \in DOMAIN book[side] : \E i \in DOMAIN book[side][p] :
              /\ o = book[side][p][i]
              /\ RestsWell(o, side, p)
<1>0. PICK side \in Side : \E p \in DOMAIN book[side] : \E i \in DOMAIN book[side][p] :
        o = book[side][p][i]
  BY RestingMember
<1>1. PICK p \in DOMAIN book[side] : \E i \in DOMAIN book[side][p] : o = book[side][p][i]
  BY <1>0
<1>2. PICK i \in DOMAIN book[side][p] : o = book[side][p][i]
  BY <1>1
<1>3. book[side][p] \in Seq(Order)
  BY DEF BookInv, BookTypeOK
<1>4. o \in Order
  BY <1>2, <1>3, LenProperties, ElementOfSeq
<1> QED
  BY <1>2, <1>4 DEF BookInv, LevelsSound

\* queue is old without its order at i, and with the orders of new.
Replaces(queue, old, i, new) ==
  /\ queue \in Seq(Order)
  /\ Range(queue) = (Range(old) \ {old[i]}) \cup new

\* Replacing one queue by another without its order at i, and with the orders
\* of new, does the same to the set of open orders.
LEMMA RestingAfter ==
  ASSUME BookInv, NEW s \in Side, NEW price \in DOMAIN book[s],
         NEW i \in DOMAIN book[s][price],
         NEW queue, NEW new, Replaces(queue, book[s][price], i, new),
         book' = [book EXCEPT ![s] = SetLevel(@, price, queue)]
  PROVE  Resting' = (Resting \ {book[s][price][i]}) \cup new
<1> USE DEF Replaces
<1> DEFINE out == book[s][price][i]
           levels == SetLevel(book[s], price, queue)
           Elsewhere(o) == \E side \in Side : \E p \in DOMAIN book[side] :
                             /\ ~(side = s /\ p = price)
                             /\ o \in Range(book[side][p])
<1>1. \A side \in Side : book'[side] = IF side = s THEN levels ELSE book[side]
  BY DEF BookInv, BookTypeOK
<1>2. /\ DOMAIN levels = IF queue = <<>> THEN DOMAIN book[s] \ {price} ELSE DOMAIN book[s]
      /\ queue # <<>> => levels[price] = queue
      /\ \A p \in DOMAIN book[s] \ {price} : levels[p] = book[s][p]
  BY SetLevelProperties
<1> HIDE DEF levels
<1>3. queue = <<>> => Range(queue) = {}
  BY EmptySeq DEF Range
<1>4. \A o : o \in Resting' <=> o \in Range(queue) \/ Elsewhere(o)
  <2>1. \A o : o \in Resting' <=>
          \E side \in Side : \E p \in DOMAIN book'[side] : o \in Range(book'[side][p])
    BY DEF Resting
  <2> TAKE o
  <2>2. ASSUME o \in Resting' PROVE o \in Range(queue) \/ Elsewhere(o)
    <3>1. PICK side \in Side : \E p \in DOMAIN book'[side] : o \in Range(book'[side][p])
      BY <2>1, <2>2
    <3>2. PICK p \in DOMAIN book'[side] : o \in Range(book'[side][p])
      BY <3>1
    <3>3. CASE side = s /\ p = price
      BY <3>2, <3>3, <1>1, <1>2
    <3>4. CASE ~(side = s /\ p = price)
      BY <3>2, <3>4, <1>1, <1>2
    <3> QED
      BY <3>3, <3>4
  <2>3. ASSUME o \in Range(queue) PROVE o \in Resting'
    <3>1. queue # <<>> /\ price \in DOMAIN book'[s] /\ book'[s][price] = queue
      BY <2>3, <1>1, <1>2, <1>3
    <3> QED
      BY <2>1, <2>3, <3>1
  <2>4. ASSUME Elsewhere(o) PROVE o \in Resting'
    <3>0. PICK side \in Side : \E p \in DOMAIN book[side] :
            ~(side = s /\ p = price) /\ o \in Range(book[side][p])
      BY <2>4
    <3>1. PICK p \in DOMAIN book[side] :
            ~(side = s /\ p = price) /\ o \in Range(book[side][p])
      BY <3>0
    <3>2. p \in DOMAIN book'[side] /\ book'[side][p] = book[side][p]
      BY <3>1, <1>1, <1>2
    <3> QED
      BY <2>1, <3>1, <3>2
  <2> QED
    BY <2>2, <2>3, <2>4
<1>5. \A o : o \in Resting <=> o \in Range(book[s][price]) \/ Elsewhere(o)
  BY DEF Resting
<1>6. ~Elsewhere(out)
  <2> SUFFICES ASSUME NEW side \in Side, NEW p \in DOMAIN book[side],
                      ~(side = s /\ p = price), out \in Range(book[side][p])
               PROVE  FALSE
    OBVIOUS
  <2>1. PICK j \in DOMAIN book[side][p] : out = book[side][p][j]
    BY DEF Range
  <2> QED
    BY <2>1 DEF BookInv, PositionsUnique
<1> HIDE DEF out, Elsewhere
<1> QED
  BY <1>4, <1>5, <1>6 DEF out

\* The orders of one queue differ, as their ids do.
LEMMA QueueInjective ==
  ASSUME BookInv, NEW s \in Side, NEW price \in DOMAIN book[s]
  PROVE  \A i, j \in DOMAIN book[s][price] :
           book[s][price][i] = book[s][price][j] => i = j
BY DEF BookInv, PositionsUnique

-------------------------------------------------------------------------------
\* One lemma per action: the abstract step it is.

\* Accepting an order: fresh, and later than all that rest.
LEMMA AddOrderSubmits ==
  ASSUME IInv, IInv', NEW id \in FreshId, NEW stamp \in Stamp,
         NEW order \in ValidOrder(id, stamp), AddOrder(order)
  PROVE  Abstract!Submit
<1>1. /\ order \in Order /\ order.quantity > 0
      /\ order.remaining_quantity = order.quantity
  BY ValidOrderProperties DEF FreshId
<1>2. /\ incoming = NoOrder
      /\ incoming'.quantity = order.quantity
      /\ incoming'.remaining_quantity = order.remaining_quantity
      /\ UNCHANGED <<book, tradeLog>>
  BY <1>1 DEF AddOrder, Order
<1>3. incoming' \in Order
  <2>1. clock' \in Nat
    BY DEF IInv
  <2> QED
    BY <2>1, <1>1 DEF AddOrder, Order
<1>4. Resting' = Resting
  BY <1>2 DEF Resting
<1>5. ASSUME NEW o \in Resting
      PROVE  o.id # incoming'.id /\ o.arrival < incoming'.arrival
  <2>1. incoming' # NoOrder
    BY <1>3, NoOrderAssumption
  <2>2. incoming'.id \notin {r.id : r \in Resting}
    BY <1>4, <2>1 DEF IInv, RestingIds
  <2>3. /\ incoming'.arrival = clock'
        /\ \A side \in Side : \A p \in DOMAIN book[side] : \A i \in DOMAIN book[side][p] :
             book[side][p][i].arrival < clock'
    BY <1>2, <2>1 DEF IInv, TakerSound
  <2>4. o.arrival < clock'
    BY <2>3, RestingMember
  <2> QED
    BY <2>2, <2>3, <2>4
<1> QED
  BY <1>1, <1>2, <1>3, <1>4, <1>5, SharedOperators DEF Abstract!Submit

\* The front of the best level is the first in line of its side.
LEMMA BestIsFirst ==
  ASSUME BookInv, NEW s \in Side, NEW price, IsBest(s, price),
         NEW maker, maker = Head(book[s][price])
  PROVE  /\ price \in DOMAIN book[s]
         /\ 1 \in DOMAIN book[s][price] /\ maker = book[s][price][1]
         /\ maker \in Order /\ RestsWell(maker, s, price)
         /\ Abstract!FirstInLine(maker)
<1>1. price \in DOMAIN book[s]
  BY DEF IsBest
<1>2. book[s][price] \in Seq(Order) /\ book[s][price] # <<>>
  BY <1>1 DEF BookInv, BookTypeOK, NoEmptyLevels
<1>3. maker = book[s][price][1] /\ maker \in Order /\ 1 \in DOMAIN book[s][price]
  BY <1>2, LenProperties, HeadTailProperties, EmptySeq
<1>4. RestsWell(maker, s, price)
  BY <1>1, <1>3 DEF BookInv, LevelsSound
<1>5. maker \in Resting
  BY <1>1, <1>3, RestingMember
<1>6. ASSUME NEW n \in Resting, n.side = maker.side, n # maker
      PROVE  Abstract!Precedes(maker, n)
  <2>1. PICK side \in Side : \E p \in DOMAIN book[side] : \E i \in DOMAIN book[side][p] :
          n = book[side][p][i] /\ RestsWell(n, side, p)
    BY RestingPlace
  <2>2. side = s
    BY <1>4, <1>6, <2>1 DEF RestsWell
  <2>3. PICK p \in DOMAIN book[s] : \E i \in DOMAIN book[s][p] :
          n = book[s][p][i] /\ RestsWell(n, s, p)
    BY <2>1, <2>2
  <2>4. PICK i \in DOMAIN book[s][p] : n = book[s][p][i] /\ RestsWell(n, s, p)
    BY <2>3
  <2>5. CASE p = price
    <3>1. i # 1
      BY <1>3, <1>6, <2>4, <2>5
    <3>2. i \in Nat /\ i >= 1
      BY <1>2, <2>5, LenProperties
    <3>3. maker.arrival < n.arrival
      BY <1>1, <1>3, <2>4, <2>5, <3>1, <3>2 DEF BookInv, QueuedByArrival
    <3> QED
      BY <1>4, <2>4, <2>5, <3>3 DEF Abstract!Precedes, RestsWell
  <2>6. CASE p # price
    BY <1>4, <2>4, <2>6 DEF IsBest, BetterPrice, Abstract!Precedes, RestsWell, Side
  <2> QED
    BY <2>5, <2>6
<1> QED
  BY <1>1, <1>3, <1>4, <1>5, <1>6 DEF Abstract!FirstInLine

\* A price of the other side that the taker accepts is a compatible maker's.
LEMMA AcceptsIsCompatible ==
  ASSUME NEW taker \in Order, NEW maker, NEW price,
         maker.side = Opposite(taker.side), maker.price = price, price \in Nat
  PROVE  Accepts(taker, price) <=> Abstract!Compatible(taker, maker)
BY SharedOperators DEF Accepts, PricesCross, Abstract!Compatible, Order, OrderType

\* The same for the front of a queue.
LEMMA FrontReplaced ==
  ASSUME BookInv, NEW s \in Side, NEW price \in DOMAIN book[s],
         1 \in DOMAIN book[s][price],
         NEW queue, NEW new, Replaces(queue, book[s][price], 1, new),
         book' = [book EXCEPT ![s] = SetLevel(@, price, queue)]
  PROVE  Resting' = (Resting \ {book[s][price][1]}) \cup new
BY RestingAfter

\* What rests on of a maker after a trade.
Remainder(filled) == {o \in {filled} : o.remaining_quantity > 0}

\* What a trade does to the maker's queue.
LEMMA RestingAfterTrade ==
  ASSUME BookInv, NEW s \in Side, NEW price \in DOMAIN book[s],
         NEW maker, maker = Head(book[s][price]),
         NEW filled \in Order,
         book' = [book EXCEPT ![s] = AfterTrade(@, price, filled)]
  PROVE  Resting' = (Resting \ {maker}) \cup Remainder(filled)
<1> DEFINE q == book[s][price]
<1>1. q \in Seq(Order) /\ q # <<>>
  BY DEF BookInv, BookTypeOK, NoEmptyLevels
<1>2. maker = q[1] /\ Len(q) \in Nat /\ Len(q) > 0 /\ DOMAIN q = 1..Len(q)
  BY <1>1, LenProperties, HeadTailProperties, EmptySeq
<1>3. \A i, j \in DOMAIN q : q[i] = q[j] => i = j
  BY QueueInjective
<1>4. filled.remaining_quantity \in Nat
  BY DEF Order
<1>5. CASE filled.remaining_quantity = 0
  <2>1. /\ Tail(q) \in Seq(Order) /\ Len(Tail(q)) = Len(q) - 1
        /\ \A j \in 1..(Len(q) - 1) : Tail(q)[j] = q[j + 1]
        /\ DOMAIN Tail(q) = 1..(Len(q) - 1)
    BY <1>1, HeadTailProperties, LenProperties
  <2>2. \A i \in 1..Len(q) : i # 1 => i - 1 \in 1..(Len(q) - 1)
    BY <1>2
  <2>3. \A j \in 1..(Len(q) - 1) : j + 1 \in 1..Len(q) /\ j + 1 # 1
    BY <1>2
  <2>4. \A i \in 1..Len(q) : i # 1 => q[i] = Tail(q)[i - 1]
    BY <1>2, <2>1, <2>2
  <2>5. Replaces(Tail(q), q, 1, {})
    <3> DEFINE t == Tail(q)
               n == Len(q)
    <3>1. /\ t \in Seq(Order) /\ DOMAIN t = 1..(n - 1)
          /\ \A j \in 1..(n - 1) : t[j] = q[j + 1] /\ j + 1 \in 1..n /\ j + 1 # 1
          /\ \A i \in 1..n : i # 1 => i - 1 \in 1..(n - 1) /\ q[i] = t[i - 1]
      BY <2>1, <2>2, <2>3, <2>4
    <3>2. DOMAIN q = 1..n /\ n \in Nat /\ n > 0 /\ \A i, j \in 1..n : q[i] = q[j] => i = j
      BY <1>2, <1>3
    <3> HIDE DEF q, t, n
    <3>3. \A o : o \in Range(t) => o \in Range(q) /\ o # q[1]
      <4> SUFFICES ASSUME NEW j \in 1..(n - 1) PROVE t[j] \in Range(q) /\ t[j] # q[1]
        BY <3>1 DEF Range
      <4>1. j + 1 \in 1..n /\ 1 \in 1..n /\ j + 1 # 1 /\ t[j] = q[j + 1]
        BY <3>1, <3>2
      <4>2. q[j + 1] # q[1]
        BY <3>2, <4>1
      <4> QED
        BY <3>2, <4>1, <4>2 DEF Range
    <3>4. \A o : o \in Range(q) /\ o # q[1] => o \in Range(t)
      <4> SUFFICES ASSUME NEW i \in 1..n, q[i] # q[1] PROVE q[i] \in Range(t)
        BY <3>2 DEF Range
      <4> QED
        BY <3>1 DEF Range
    <3>5. Replaces(t, q, 1, {})
      BY <3>1, <3>3, <3>4 DEF Replaces
    <3> QED
      BY <3>5 DEF t
  <2>6. book' = [book EXCEPT ![s] = SetLevel(@, price, Tail(q))]
    BY <1>5 DEF AfterTrade
  <2>7. Remainder(filled) = {}
    BY <1>5 DEF Remainder
  <2>8. 1 \in DOMAIN q
    BY <1>2
  <2>9. PICK queue : queue = Tail(q)
    OBVIOUS
  <2>10. /\ Replaces(queue, book[s][price], 1, {})
         /\ book' = [book EXCEPT ![s] = SetLevel(@, price, queue)]
    BY <2>5, <2>6, <2>9
  <2>11. Resting' = (Resting \ {q[1]}) \cup {}
    BY <2>8, <2>10, FrontReplaced
  <2> QED
    BY <1>2, <2>7, <2>11
<1>6. CASE filled.remaining_quantity # 0
  <2> DEFINE nq == [q EXCEPT ![1] = filled]
  <2>1. /\ nq \in Seq(Order) /\ DOMAIN nq = 1..Len(q)
        /\ \A j \in 1..Len(q) : nq[j] = IF j = 1 THEN filled ELSE q[j]
    BY <1>1, <1>2, ExceptSeq, LenProperties
  <2>2. book' = [book EXCEPT ![s] = SetLevel(@, price, nq)]
    BY <1>6 DEF AfterTrade
  <2>3. Remainder(filled) = {filled}
    BY <1>4, <1>6 DEF Remainder
  <2> HIDE DEF nq
  <2>4. Replaces(nq, q, 1, {filled})
    BY <1>2, <1>3, <2>1 DEF Range, Replaces
  <2>5. 1 \in DOMAIN q
    BY <1>2
  <2>6. Resting' = (Resting \ {q[1]}) \cup {filled}
    BY <2>2, <2>4, <2>5, FrontReplaced
  <2> QED
    BY <1>2, <2>3, <2>6
<1> QED
  BY <1>5, <1>6

\* A turn of the matching loop is a trade with the first in line.
LEMMA MatchExecutes ==
  ASSUME IInv, NEW side \in Side, MatchOne(side)
  PROVE  Abstract!Execute
<1> DEFINE other == Opposite(side)
<1>1. /\ incoming \in Order /\ incoming # NoOrder /\ incoming.side = side
      /\ incoming.remaining_quantity \in Nat /\ incoming.remaining_quantity > 0
      /\ other \in Side
  BY DEF MatchOne, IInv, Order, Opposite, Side
<1>2. PICK price \in MatchablePrices(incoming) :
        LET maker      == Head(book[other][price])
            executeQty == MinQty(incoming.remaining_quantity, maker.remaining_quantity)
            trade      == TradeBetween(trade_id_counter, incoming, maker, price, executeQty)
        IN  /\ tradeLog' = Append(tradeLog, trade)
            /\ incoming' = Filled(incoming, executeQty)
            /\ book' = [book EXCEPT
                 ![other] = AfterTrade(@, price, Filled(maker, executeQty))]
  BY DEF MatchOne
<1> DEFINE maker == Head(book[other][price])
           qty   == MinQty(incoming.remaining_quantity, maker.remaining_quantity)
           trade == TradeBetween(trade_id_counter, incoming, maker, price, qty)
<1>3. /\ IsBest(other, price) /\ Accepts(incoming, price)
      /\ price \in DOMAIN book[other] /\ price \in Nat
  BY <1>1 DEF MatchablePrices, IInv, BookInv, BookTypeOK, Price
<1>4. /\ maker \in Order /\ RestsWell(maker, other, price)
      /\ Abstract!FirstInLine(maker)
      /\ maker \in Resting
  BY <1>1, <1>3, BestIsFirst DEF IInv, Abstract!FirstInLine
<1>5. /\ maker.side = other /\ maker.price = price
      /\ maker.remaining_quantity \in Nat /\ maker.remaining_quantity > 0
  BY <1>4 DEF RestsWell, Order
<1>6. qty \in Nat /\ qty > 0 /\ qty <= maker.remaining_quantity
  BY <1>1, <1>5 DEF MinQty
<1>7. Abstract!Compatible(incoming, maker)
  BY <1>1, <1>3, <1>5, AcceptsIsCompatible
<1>8. Filled(maker, qty) \in Order
  BY <1>4, <1>6, FilledProperties
<1>9. Resting' = (Resting \ {maker}) \cup Remainder(Filled(maker, qty))
  <2> DEFINE s == other
  <2>1. PICK filled : filled = Filled(maker, qty)
    OBVIOUS
  <2>2. filled \in Order /\ book' = [book EXCEPT ![s] = AfterTrade(@, price, filled)]
    BY <1>2, <1>8, <2>1
  <2>3. s \in Side /\ price \in DOMAIN book[s] /\ BookInv
    BY <1>1, <1>3 DEF IInv
  <2> HIDE DEF s
  <2>4. Resting' = (Resting \ {Head(book[s][price])}) \cup Remainder(filled)
    BY <2>2, <2>3, RestingAfterTrade
  <2> QED
    BY <2>1, <2>4 DEF s
<1>10. /\ tradeLog' = Append(tradeLog, trade)
       /\ incoming' = Filled(incoming, qty)
  BY <1>2
<1>11. trade.trade_id = trade_id_counter
  BY DEF TradeBetween, ExecuteTrade
<1>12. trade \in Trade
  BY <1>1, <1>3, <1>4, <1>6, TradeBetweenType DEF IInv
<1> HIDE DEF maker, qty, trade, other
<1>13. /\ Len(tradeLog) \in Nat /\ DOMAIN tradeLog = 1..Len(tradeLog)
       /\ tradeLog'[Len(tradeLog) + 1] = trade
  BY <1>10, <1>12, LenProperties, AppendProperties DEF IInv
<1>14. \A i \in 1..Len(tradeLog) : tradeLog[i].trade_id < trade.trade_id
  BY <1>11, <1>13 DEF IInv, TradeIdsGrow
<1>15. trade = TradeBetween(trade.trade_id, incoming, maker, maker.price, qty)
  BY <1>5, <1>11 DEF trade
<1>16. qty = Abstract!MinQty(incoming.remaining_quantity, maker.remaining_quantity)
  BY SharedOperators DEF qty
<1> QED
  BY <1>1, <1>4, <1>6, <1>7, <1>9, <1>10, <1>13, <1>14, <1>15, <1>16,
     SharedOperators DEF Abstract!Execute, Remainder

\* Cancelling takes the order of that id out of the set.
LEMMA CancelTakesOut ==
  ASSUME IInv, NEW id \in OrderId, CancelOrder(id)
  PROVE  /\ incoming = NoOrder /\ UNCHANGED <<incoming, tradeLog>>
         /\ \E o \in Resting : o.id = id /\ Resting' = Resting \ {o}
<1>1. incoming = NoOrder /\ UNCHANGED <<incoming, tradeLog>> /\ BookInv
  BY DEF CancelOrder, IInv
<1>2. PICK s \in Side : \E p \in DOMAIN book[s] : \E i \in DOMAIN book[s][p] :
        /\ book[s][p][i].id = id
        /\ book' = [book EXCEPT ![s] = SetLevel(@, p, RemoveAt(@[p], i))]
  BY DEF CancelOrder
<1>3. PICK price \in DOMAIN book[s] : \E i \in DOMAIN book[s][price] :
        /\ book[s][price][i].id = id
        /\ book' = [book EXCEPT ![s] = SetLevel(@, price, RemoveAt(@[price], i))]
  BY <1>2
<1> DEFINE q == book[s][price]
<1>4. PICK i \in DOMAIN q : /\ q[i].id = id
                            /\ book' = [book EXCEPT ![s] = SetLevel(@, price, RemoveAt(q, i))]
  BY <1>3
<1>5. PICK queue : queue = RemoveAt(q, i)
  OBVIOUS
<1>6. q \in Seq(Order) /\ Len(q) \in Nat /\ DOMAIN q = 1..Len(q)
  BY <1>1, LenProperties DEF BookInv, BookTypeOK
<1>7. \A j, k \in DOMAIN q : q[j] = q[k] => j = k
  BY <1>1, QueueInjective
<1>8. /\ queue \in Seq(Order) /\ DOMAIN queue = 1..(Len(q) - 1)
      /\ \A j \in 1..(Len(q) - 1) : queue[j] = IF j < i THEN q[j] ELSE q[j + 1]
  BY <1>5, <1>6, RemoveAtProperties, LenProperties
<1>9. Replaces(queue, q, i, {})
  <2> DEFINE n == Len(q)
  <2>1. i \in 1..n /\ n \in Nat
    BY <1>6
  <2> HIDE DEF q, n
  <2>2. ASSUME NEW j \in 1..(n - 1)
        PROVE  queue[j] \in Range(q) /\ queue[j] # q[i]
    <3> DEFINE k == IF j < i THEN j ELSE j + 1
    <3>1. k \in 1..n /\ k # i /\ queue[j] = q[k]
      BY <1>8, <2>1 DEF n
    <3> HIDE DEF k
    <3> QED
      BY <3>1, <1>6, <1>7, <2>1 DEF n, Range
  <2>3. ASSUME NEW k \in 1..n, k # i
        PROVE  q[k] \in Range(queue)
    <3> DEFINE j == IF k < i THEN k ELSE k - 1
    <3>1. j \in 1..(n - 1)
      BY <2>1, <2>3
    <3>2. queue[j] = q[k]
      BY <1>8, <2>1, <2>3, <3>1 DEF n
    <3> HIDE DEF j
    <3> QED
      BY <3>1, <3>2, <1>8 DEF n, Range
  <2>4. \A o : o \in Range(queue) => o \in Range(q) /\ o # q[i]
    BY <1>8, <2>2 DEF n, Range
  <2>5. \A o : o \in Range(q) /\ o # q[i] => o \in Range(queue)
    BY <1>6, <2>3 DEF n, Range
  <2> QED
    BY <1>8, <2>4, <2>5 DEF Replaces
<1>10. /\ i \in DOMAIN book[s][price]
       /\ Replaces(queue, book[s][price], i, {})
       /\ book' = [book EXCEPT ![s] = SetLevel(@, price, queue)]
  BY <1>4, <1>5, <1>9
<1>11. Resting' = (Resting \ {book[s][price][i]}) \cup {}
  BY <1>1, <1>10, RestingAfter
<1>12. book[s][price][i] \in Resting
  BY <1>10, RestingMember
<1> QED
  BY <1>1, <1>4, <1>11, <1>12

LEMMA CancelCancels ==
  ASSUME IInv, NEW id \in OrderId, CancelOrder(id)
  PROVE  Abstract!Cancel
BY CancelTakesOut DEF Abstract!Cancel

\* The loop ends only when nothing remains or nobody open is acceptable.
LEMMA DoneIsExhausted ==
  ASSUME IInv, MatchingDone
  PROVE  Abstract!Exhausted
<1>1. /\ incoming \in Order /\ incoming # NoOrder /\ BookInv
      /\ Opposite(incoming.side) \in Side
  BY DEF MatchingDone, IInv, Order, Opposite, Side
<1>2. CASE incoming.remaining_quantity = 0
  BY <1>2 DEF Abstract!Exhausted
<1>3. CASE MatchablePrices(incoming) = {}
  <2> SUFFICES ASSUME NEW m \in Resting, Abstract!Compatible(incoming, m) PROVE FALSE
    BY DEF Abstract!Exhausted
  <2> DEFINE s == Opposite(incoming.side)
  <2>1. m.side = s
    BY SharedOperators DEF Abstract!Compatible
  <2>2. PICK side \in Side : \E p \in DOMAIN book[side] : \E i \in DOMAIN book[side][p] :
          m = book[side][p][i] /\ RestsWell(m, side, p)
    BY <1>1, RestingPlace
  <2>3. m.price \in DOMAIN book[s]
    BY <2>1, <2>2 DEF RestsWell
  <2>4. DOMAIN book[s] \subseteq Price
    BY <1>1 DEF BookInv, BookTypeOK
  <2>5. PICK best \in DOMAIN book[s] : IsBest(s, best)
    BY <1>1, <2>3, <2>4, BestExists
  <2>6. ~Accepts(incoming, best)
    BY <1>3, <2>5 DEF MatchablePrices
  <2>7. Accepts(incoming, m.price)
    BY <1>1, <2>1, <2>3, <2>4, AcceptsIsCompatible DEF Price
  <2>8. best = m.price \/ BetterPrice(s, best, m.price)
    BY <2>3, <2>5 DEF IsBest
  <2>9. best \in Nat /\ m.price \in Nat /\ incoming.price \in Nat
    BY <1>1, <2>3, <2>4, <2>5 DEF Price, Order
  <2> QED
    BY <1>1, <2>6, <2>7, <2>8, <2>9
    DEF Accepts, PricesCross, BetterPrice, Opposite, Side
<1> QED
  BY <1>2, <1>3 DEF MatchingDone

\* A remainder that rests joins the open orders.
LEMMA RestSettles ==
  ASSUME IInv, RestOrder
  PROVE  Abstract!Settle
<1> DEFINE o == incoming
           s == o.side
<1>1. /\ o \in Order /\ o # NoOrder /\ o.type = "Limit" /\ o.remaining_quantity > 0
      /\ s \in Side /\ BookInv
      /\ incoming' = NoOrder /\ UNCHANGED tradeLog
  BY DEF RestOrder, MatchingDone, IInv, Order
<1> DEFINE new == AddToBook(book[s], o)
           old == Queue(book[s], o.price)
<1>2. \A side \in Side : book'[side] = IF side = s THEN new ELSE book[side]
  BY <1>1 DEF RestOrder, BookInv, BookTypeOK
<1>3. Extends(new, book[s], old, o)
  <2>1. book[s] \in [DOMAIN book[s] -> Seq(Order)]
    BY <1>1 DEF BookInv, BookTypeOK
  <2> QED
    BY <1>1, <2>1, AddToBookProperties
<1>4. /\ Len(old) \in Nat /\ DOMAIN old = 1..Len(old)
      /\ DOMAIN new[o.price] = 1..(Len(old) + 1)
      /\ old = IF o.price \in DOMAIN book[s] THEN book[s][o.price] ELSE <<>>
      /\ o.price \notin DOMAIN book[s] => Len(old) = 0
  BY <1>3, LenProperties, EmptySeq DEF Queue, Extends
<1> USE DEF Extends
<1> HIDE DEF new, old
<1>5. Range(new[o.price]) = Range(old) \cup {o}
  <2> DEFINE nq == new[o.price]
             n  == Len(old)
  <2>1. /\ DOMAIN nq = 1..(n + 1) /\ DOMAIN old = 1..n /\ n \in Nat
        /\ \A i \in 1..n : nq[i] = old[i]
        /\ nq[n + 1] = o
    BY <1>3, <1>4
  <2> HIDE DEF nq, n
  <2>2. /\ \A i \in 1..(n + 1) : i = n + 1 \/ i \in 1..n
        /\ \A i \in 1..n : i \in 1..(n + 1)
        /\ n + 1 \in 1..(n + 1)
    BY <2>1
  <2>3. \A x : x \in Range(nq) => x \in Range(old) \/ x = o
    BY <2>1, <2>2 DEF Range
  <2>4. \A x : x \in Range(old) \/ x = o => x \in Range(nq)
    BY <2>1, <2>2 DEF Range
  <2>5. Range(nq) = Range(old) \cup {o}
    BY <2>3, <2>4
  <2> QED
    BY <2>5 DEF nq
<1>6. o.price \notin DOMAIN book[s] => Range(old) = {}
  BY <1>4 DEF Range
<1>7. Resting' = Resting \cup {o}
  <2>1. \A x : x \in Resting' <=>
          \E side \in Side : \E p \in DOMAIN book'[side] : x \in Range(book'[side][p])
    BY DEF Resting
  <2>2. \A x : x \in Resting <=>
          \E side \in Side : \E p \in DOMAIN book[side] : x \in Range(book[side][p])
    BY DEF Resting
  <2>3. ASSUME NEW side \in Side, NEW p \in DOMAIN book'[side], NEW x \in Range(book'[side][p])
        PROVE  x \in Resting \cup {o}
    <3>1. CASE side = s /\ p = o.price
      BY <3>1, <2>2, <2>3, <1>1, <1>2, <1>4, <1>5, <1>6
    <3>2. CASE ~(side = s /\ p = o.price)
      BY <3>2, <2>2, <2>3, <1>2, <1>3
    <3> QED
      BY <3>1, <3>2
  <2>4. ASSUME NEW side \in Side, NEW p \in DOMAIN book[side], NEW x \in Range(book[side][p])
        PROVE  x \in Resting'
    <3>1. CASE side = s /\ p = o.price
      BY <3>1, <2>1, <2>4, <1>2, <1>3, <1>4, <1>5
    <3>2. CASE ~(side = s /\ p = o.price)
      BY <3>2, <2>1, <2>4, <1>2, <1>3
    <3> QED
      BY <3>1, <3>2
  <2>5. o \in Resting'
    BY <2>1, <1>1, <1>2, <1>3, <1>5
  <2>6. Resting' \subseteq Resting \cup {o}
    BY <2>1, <2>3
  <2>7. Resting \subseteq Resting'
    BY <2>2, <2>4
  <2> QED
    BY <2>5, <2>6, <2>7
<1>8. {x \in {o} : x.type = "Limit" /\ x.remaining_quantity > 0} = {o}
  BY <1>1
<1>9. Abstract!Exhausted
  BY DoneIsExhausted DEF RestOrder
<1> QED
  BY <1>1, <1>7, <1>8, <1>9 DEF Abstract!Settle

\* A filled taker, or the rest of a market order, leaves nothing behind.
LEMMA DropSettles ==
  ASSUME IInv, DropOrder
  PROVE  Abstract!Settle
<1>1. /\ incoming # NoOrder
      /\ incoming.type = "Market" \/ incoming.remaining_quantity = 0
      /\ incoming' = NoOrder /\ UNCHANGED <<book, tradeLog>>
  BY DEF DropOrder, MatchingDone
<1>2. Abstract!Exhausted
  BY DoneIsExhausted DEF DropOrder
<1>3. {o \in {incoming} : o.type = "Limit" /\ o.remaining_quantity > 0} = {}
  BY <1>1
<1>4. Resting' = Resting
  BY <1>1 DEF Resting
<1> QED
  BY <1>1, <1>2, <1>3, <1>4 DEF Abstract!Settle

\* clear() closes every open order and forgets the log.
LEMMA ClearClears ==
  ASSUME Clear
  PROVE  Abstract!Clear
BY DEF Clear, Resting, EmptyLevels, Abstract!Clear

\* Trade ids drawn elsewhere are no step of the abstract engine.
LEMMA DrawStutters ==
  ASSUME DrawTradeId \/ UNCHANGED vars
  PROVE  UNCHANGED Abstract!vars
BY DEF DrawTradeId, vars, Resting, Abstract!vars

\* A new book has no open order ...
LEMMA InitRefines == Init => Abstract!Init
BY DEF Init, Resting, EmptyLevels, Abstract!Init

\* ... and every step from a state of the inductive invariant is abstract.
LEMMA StepRefines == IInv /\ IInv' /\ [Next]_vars => [Abstract!Next]_Abstract!vars
<1> SUFFICES ASSUME IInv, IInv', [Next]_vars
             PROVE  Abstract!Next \/ UNCHANGED Abstract!vars
  OBVIOUS
<1> USE DEF Abstract!Next
<1>1. ASSUME NEW id \in FreshId, NEW stamp \in Stamp,
             NEW order \in ValidOrder(id, stamp), AddOrder(order)
      PROVE  Abstract!Next
  BY <1>1, AddOrderSubmits
<1>2. ASSUME MatchBuyOrder \/ MatchSellOrder PROVE Abstract!Next
  BY <1>2, MatchExecutes DEF MatchBuyOrder, MatchSellOrder, Side
<1>3. ASSUME RestOrder PROVE Abstract!Next
  BY <1>3, RestSettles
<1>4. ASSUME DropOrder PROVE Abstract!Next
  BY <1>4, DropSettles
<1>5. ASSUME NEW id \in OrderId, CancelOrder(id) PROVE Abstract!Next
  BY <1>5, CancelCancels
<1>6. ASSUME Clear PROVE Abstract!Next
  BY <1>6, ClearClears
<1>7. ASSUME DrawTradeId \/ UNCHANGED vars PROVE UNCHANGED Abstract!vars
  BY <1>7, DrawStutters
<1> QED
  BY <1>1, <1>2, <1>3, <1>4, <1>5, <1>6, <1>7 DEF Next

\* The matching engine keeps the promise of price-time priority: whatever its
\* queues and loops do, a taker only ever trades with the open order that is
\* first in line, at that order's price, and rests only when nobody suits it.
THEOREM Refinement == Spec => ImplementsPriceTimePriority
<1>1. Spec => []IInv
  BY Invariance
<1> QED
  BY <1>1, InitRefines, StepRefines, PTL DEF Spec, ImplementsPriceTimePriority, Abstract!Spec

===============================================================================
