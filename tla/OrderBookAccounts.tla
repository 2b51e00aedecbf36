--------------------------- MODULE OrderBookAccounts ---------------------------
(***************************************************************************)
(* The engine's accounts: what the trade log says every order has traded,  *)
(* and the vector addOrder returns.  The first part is about TradedIn, a   *)
(* sum over the log defined by recursion: the least place where a          *)
(* statement about the partial sums failed would contradict the one        *)
(* before, so the least element of a set of naturals does for induction.   *)
(***************************************************************************)
EXTENDS OrderBookRefinement

\* f and g start alike, and stay alike from one number to the next.
InStep(f, g, N) ==
  /\ f[0] = g[0]
  /\ \A n \in 1..N : f[n - 1] = g[n - 1] => f[n] = g[n]

\* Functions in step agree everywhere.
LEMMA StepwiseEqual ==
  ASSUME NEW N \in Nat, NEW f, NEW g, InStep(f, g, N)
  PROVE  \A n \in 0..N : f[n] = g[n]
<1> USE DEF InStep
<1> DEFINE Bad == {n \in 0..N : f[n] # g[n]}
<1> SUFFICES ASSUME Bad # {} PROVE FALSE
  OBVIOUS
<1>1. PICK m \in Bad : \A n \in Bad : m <= n
  <2>1. Bad \subseteq Nat
    OBVIOUS
  <2> HIDE DEF Bad
  <2> QED
    BY <2>1, LeastOfNats
<1>2. m \in 1..N /\ m - 1 \in 0..N
  BY <1>1
<1>3. f[m - 1] # g[m - 1]
  BY <1>1, <1>2
<1> QED
  BY <1>1, <1>2, <1>3

\* f holds the partial sums of an order's shares in the first N trades.
PartialSums(f, log, id, N) ==
  /\ f \in [0..N -> Nat]
  /\ f[0] = 0
  /\ \A n \in 1..N : f[n] = f[n - 1] + Share(log[n], id)

LEMMA ShareIsNat ==
  ASSUME NEW log \in Seq(Trade), NEW id, NEW n \in 1..Len(log)
  PROVE  Share(log[n], id) \in Nat
<1>1. log[n] \in Trade
  BY ElementOfSeq
<1> QED
  BY <1>1 DEF Share, Trade

\* Partial sums exist, as far as the log goes.
LEMMA PartialSumsExist ==
  ASSUME NEW log \in Seq(Trade), NEW id, NEW N \in 0..Len(log)
  PROVE  \E f : PartialSums(f, log, id, N)
<1> DEFINE Bad == {n \in 0..Len(log) : ~\E f : PartialSums(f, log, id, n)}
<1>1. Len(log) \in Nat
  BY LenProperties
<1> SUFFICES ASSUME Bad # {} PROVE FALSE
  OBVIOUS
<1>2. PICK m \in Bad : \A n \in Bad : m <= n
  <2>1. Bad \subseteq Nat
    BY <1>1
  <2> HIDE DEF Bad
  <2> QED
    BY <2>1, LeastOfNats
<1>3. CASE m = 0
  <2>1. PartialSums([n \in 0..0 |-> 0], log, id, 0)
    BY DEF PartialSums
  <2> QED
    BY <1>2, <1>3, <2>1
<1>4. CASE m # 0
  <2>1. m \in 1..Len(log) /\ m - 1 \in 0..Len(log)
    BY <1>1, <1>4
  <2>2. PICK f : PartialSums(f, log, id, m - 1)
    BY <1>1, <1>2, <2>1
  <2> DEFINE g == [n \in 0..m |-> IF n = m THEN f[m - 1] + Share(log[m], id) ELSE f[n]]
  <2>3. Share(log[m], id) \in Nat
    BY <2>1, ShareIsNat
  <2>4. f[m - 1] \in Nat
    BY <1>1, <2>1, <2>2 DEF PartialSums
  <2>5. g \in [0..m -> Nat] /\ g[0] = 0
    BY <1>1, <2>1, <2>2, <2>3, <2>4 DEF PartialSums
  <2>6. \A n \in 1..m : g[n] = g[n - 1] + Share(log[n], id)
    BY <1>1, <2>1, <2>2 DEF PartialSums
  <2>7. PartialSums(g, log, id, m)
    BY <2>5, <2>6 DEF PartialSums
  <2> QED
    BY <1>2, <2>7
<1> QED
  BY <1>3, <1>4

\* TradedIn is the last of them.
LEMMA TradedInIsPartialSum ==
  ASSUME NEW log \in Seq(Trade), NEW id
  PROVE  \E f : PartialSums(f, log, id, Len(log)) /\ TradedIn(log, id) = f[Len(log)]
<1> DEFINE N == Len(log)
           Sums(f) == f = [n \in 0..N |-> IF n = 0 THEN 0 ELSE f[n - 1] + Share(log[n], id)]
<1>1. N \in Nat
  BY LenProperties
<1>2. PICK f : PartialSums(f, log, id, N)
  <2>1. N \in 0..N
    BY <1>1
  <2> QED
    BY <2>1, PartialSumsExist
<1>3. Sums(f)
  BY <1>1, <1>2 DEF PartialSums
<1>4. PICK g : g = CHOOSE h : Sums(h)
  OBVIOUS
<1>5. TradedIn(log, id) = g[N]
  BY <1>4 DEF TradedIn
<1>6. Sums(g)
  BY <1>3, <1>4
<1>7. InStep(f, g, N)
  <2> HIDE DEF N
  <2>1. /\ f[0] = 0 /\ \A n \in 1..N : f[n] = f[n - 1] + Share(log[n], id)
        /\ g[0] = 0 /\ \A n \in 1..N : g[n] = g[n - 1] + Share(log[n], id)
    BY <1>1, <1>3, <1>6
  <2> HIDE DEF Sums
  <2> QED
    BY <2>1 DEF InStep
<1>8. f[N] = g[N]
  <2>1. \A n \in 0..N : f[n] = g[n]
    BY <1>1, <1>7, StepwiseEqual
  <2> QED
    BY <1>1, <2>1
<1> QED
  BY <1>2, <1>5, <1>8

LEMMA TradedInType ==
  ASSUME NEW log \in Seq(Trade), NEW id
  PROVE  TradedIn(log, id) \in Nat
<1>1. PICK f : PartialSums(f, log, id, Len(log)) /\ TradedIn(log, id) = f[Len(log)]
  BY TradedInIsPartialSum
<1> QED
  BY <1>1, LenProperties DEF PartialSums

\* A trade adds the order's share of it.
LEMMA TradedInAppend ==
  ASSUME NEW log \in Seq(Trade), NEW trade \in Trade, NEW id
  PROVE  TradedIn(Append(log, trade), id) = TradedIn(log, id) + Share(trade, id)
<1> DEFINE longer == Append(log, trade)
           N == Len(log)
<1>1. /\ N \in Nat /\ longer \in Seq(Trade) /\ Len(longer) = N + 1
      /\ \A n \in 1..N : longer[n] = log[n]
      /\ longer[N + 1] = trade
  BY LenProperties, AppendProperties
<1> HIDE DEF longer, N
<1>2. PICK f : PartialSums(f, log, id, N) /\ TradedIn(log, id) = f[N]
  BY TradedInIsPartialSum DEF N
<1>3. PICK g : PartialSums(g, longer, id, N + 1) /\ TradedIn(longer, id) = g[N + 1]
  BY <1>1, TradedInIsPartialSum
<1>4. InStep(f, g, N)
  BY <1>1, <1>2, <1>3 DEF InStep, PartialSums
<1>5. f[N] = g[N]
  <2>1. \A n \in 0..N : f[n] = g[n]
    BY <1>1, <1>4, StepwiseEqual
  <2> QED
    BY <1>1, <2>1
<1>6. g[N + 1] = g[N] + Share(trade, id)
  BY <1>1, <1>3 DEF PartialSums
<1> QED
  BY <1>2, <1>3, <1>5, <1>6 DEF longer

\* An order no trade names has traded nothing.
LEMMA TradedInNone ==
  ASSUME NEW log \in Seq(Trade), NEW id,
         \A n \in DOMAIN log : ~Names(log[n], id)
  PROVE  TradedIn(log, id) = 0
<1> DEFINE N == Len(log)
           zero == [n \in 0..N |-> 0]
<1>1. N \in Nat /\ DOMAIN log = 1..N
  BY LenProperties
<1>2. PICK f : PartialSums(f, log, id, N) /\ TradedIn(log, id) = f[N]
  BY TradedInIsPartialSum
<1>3. InStep(f, zero, N)
  BY <1>1, <1>2 DEF InStep, PartialSums, Share
<1>4. f[N] = zero[N]
  <2> HIDE DEF zero
  <2>1. \A n \in 0..N : f[n] = zero[n]
    BY <1>1, <1>3, StepwiseEqual
  <2> QED
    BY <1>1, <2>1
<1> QED
  BY <1>1, <1>2, <1>4

-------------------------------------------------------------------------------
\* The inductive invariant of the accounts.

\* The log names orders that were handed over, and no others.
LogKnown ==
  \A i \in DOMAIN tradeLog : \A id : Names(tradeLog[i], id) => id \in submitted

\* addOrder starts with an empty vector.
StartsEmpty == incoming = NoOrder => trades = <<>>

AInv ==
  /\ LogKnown
  /\ StartsEmpty
  /\ QuantityConserved
  /\ ReturnsItsTrades

\* What an order has left and what the log says it traded make its quantity.
Balanced(o, log) == o.remaining_quantity + TradedIn(log, o.id) = o.quantity

LEMMA ConservedMeaning ==
  QuantityConserved <=> /\ \A o \in Resting : Balanced(o, tradeLog)
                        /\ incoming # NoOrder => Balanced(incoming, tradeLog)
BY DEF QuantityConserved, Balanced

\* Two resting orders have two ids, and none of them is the taker's.
LEMMA RestingApart ==
  ASSUME IInv
  PROVE  /\ \A o, r \in Resting : o.id = r.id => o = r
         /\ incoming # NoOrder => \A o \in Resting : o.id # incoming.id
         /\ \A o \in Resting : o \in Order /\ o.id \in submitted
<1>1. BookInv /\ PositionsUnique
  BY DEF IInv, BookInv
<1>2. ASSUME NEW o \in Resting, NEW r \in Resting, o.id = r.id
      PROVE  o = r
  <2>1. \E side \in Side : \E p \in DOMAIN book[side] : \E i \in DOMAIN book[side][p] :
          o = book[side][p][i]
    BY RestingMember
  <2>2. \E side \in Side : \E p \in DOMAIN book[side] : \E i \in DOMAIN book[side][p] :
          r = book[side][p][i]
    BY RestingMember
  <2> QED
    BY <1>1, <1>2, <2>1, <2>2 DEF PositionsUnique
<1>3. ASSUME incoming # NoOrder, NEW o \in Resting
      PROVE  o.id # incoming.id
  BY <1>3 DEF IInv, RestingIds
<1>4. \A o \in Resting : o \in Order /\ o.id \in submitted
  BY <1>1, RestingPlace DEF RestsWell
<1> QED
  BY <1>2, <1>3, <1>4

\* A trade of two orders names these two, each with what they traded.
LEMMA TradeShares ==
  ASSUME NEW tid, NEW taker, NEW maker, NEW price, NEW qty,
         NEW trade, trade = TradeBetween(tid, taker, maker, price, qty)
  PROVE  /\ \A id : Names(trade, id) <=> id \in {taker.id, maker.id}
         /\ \A id \in {taker.id, maker.id} : Share(trade, id) = qty
         /\ \A id : id \notin {taker.id, maker.id} => Share(trade, id) = 0
BY DEF Names, Share, TradeBetween, ExecuteTrade

\* What one turn of the matching loop does to the orders and to the log.
Turn(maker, qty, trade) ==
  /\ incoming # NoOrder /\ incoming \in Order /\ maker \in Order
  /\ qty <= incoming.remaining_quantity /\ qty <= maker.remaining_quantity
  /\ tradeLog' = Append(tradeLog, trade)
  /\ trades' = Append(trades, trade)
  /\ incoming' = Filled(incoming, qty)
  /\ Resting' = (Resting \ {maker}) \cup Remainder(Filled(maker, qty))
  /\ \A id : Names(trade, id) <=> id \in {incoming.id, maker.id}
  /\ \A id \in {incoming.id, maker.id} : Share(trade, id) = qty
  /\ \A id : id \notin {incoming.id, maker.id} => Share(trade, id) = 0
  /\ submitted' = submitted

LEMMA TurnOfTheLoop ==
  ASSUME IInv, IInv', NEW side \in Side, MatchOne(side)
  PROVE  \E maker \in Resting, qty \in Nat, trade \in Trade : Turn(maker, qty, trade)
<1>1. Abstract!Execute
  BY MatchExecutes
<1>2. PICK maker \in Resting :
        LET qty == MinQty(incoming.remaining_quantity, maker.remaining_quantity)
            tid == tradeLog'[Len(tradeLog) + 1].trade_id
        IN  /\ incoming' = Filled(incoming, qty)
            /\ Resting' = (Resting \ {maker}) \cup Remainder(Filled(maker, qty))
            /\ tradeLog' = Append(tradeLog,
                             TradeBetween(tid, incoming, maker, maker.price, qty))
  BY <1>1, SharedOperators DEF Abstract!Execute, Remainder
<1> DEFINE qty   == MinQty(incoming.remaining_quantity, maker.remaining_quantity)
           tid   == tradeLog'[Len(tradeLog) + 1].trade_id
           trade == TradeBetween(tid, incoming, maker, maker.price, qty)
<1>3. /\ incoming # NoOrder /\ incoming \in Order /\ maker \in Order
      /\ submitted' = submitted
  BY RestingApart DEF MatchOne, IInv
<1>4. qty \in Nat /\ qty <= incoming.remaining_quantity /\ qty <= maker.remaining_quantity
  BY <1>3 DEF Order, MinQty
<1>5. /\ tradeLog' = Append(tradeLog, trade)
      /\ incoming' = Filled(incoming, qty)
      /\ Resting' = (Resting \ {maker}) \cup Remainder(Filled(maker, qty))
  BY <1>2
<1>6. /\ \A id : Names(trade, id) <=> id \in {incoming.id, maker.id}
      /\ \A id \in {incoming.id, maker.id} : Share(trade, id) = qty
      /\ \A id : id \notin {incoming.id, maker.id} => Share(trade, id) = 0
  BY TradeShares
<1>7. PICK t : trades' = Append(trades, t) /\ tradeLog' = Append(tradeLog, t)
  BY DEF MatchOne
<1> HIDE DEF qty, tid, trade
<1>8. trade \in Trade /\ t = trade
  <2>1. tradeLog \in Seq(Trade) /\ tradeLog' \in Seq(Trade)
    BY DEF IInv
  <2>2. Len(tradeLog) \in Nat /\ tradeLog'[Len(tradeLog) + 1] = t
    BY <1>7, <2>1
  <2>3. tradeLog'[Len(tradeLog) + 1] = trade /\ Len(tradeLog') = Len(tradeLog) + 1
    BY <1>5, <2>1
  <2> QED
    BY <2>1, <2>2, <2>3, ElementOfSeq
<1> QED
  BY <1>3, <1>4, <1>5, <1>6, <1>7, <1>8 DEF Turn

\* Trading keeps the accounts of the two orders, and of all the others.
LEMMA MatchAccounts ==
  ASSUME IInv, IInv', AInv, NEW side \in Side, MatchOne(side)
  PROVE  AInv'
<1>1. PICK maker \in Resting, qty \in Nat, trade \in Trade : Turn(maker, qty, trade)
  BY TurnOfTheLoop
<1>2. /\ incoming # NoOrder /\ incoming \in Order /\ maker \in Order
      /\ qty <= incoming.remaining_quantity /\ qty <= maker.remaining_quantity
      /\ tradeLog' = Append(tradeLog, trade)
      /\ incoming' = Filled(incoming, qty)
      /\ Resting' = (Resting \ {maker}) \cup Remainder(Filled(maker, qty))
  BY <1>1 DEF Turn
<1>3. /\ maker.id # incoming.id
      /\ \A o \in Resting : o # maker => o.id # maker.id /\ o.id # incoming.id
      /\ incoming.id \in submitted /\ maker.id \in submitted
  BY <1>1, <1>2, RestingApart DEF IInv, TakerSound
<1>4. /\ tradeLog \in Seq(Trade) /\ trades \in Seq(Trade)
      /\ incoming \in Order => incoming.remaining_quantity \in Nat
      /\ maker.remaining_quantity \in Nat
  BY <1>2 DEF IInv, Order
<1>5. \A id : TradedIn(tradeLog', id) = TradedIn(tradeLog, id) + Share(trade, id)
  BY <1>2, <1>4, TradedInAppend
<1>6. \A id : TradedIn(tradeLog, id) \in Nat
  BY <1>4, TradedInType
\* The maker and the taker lose what the log gains.
<1>7. ASSUME NEW o \in Order, qty <= o.remaining_quantity, Balanced(o, tradeLog),
             Share(trade, o.id) = qty
      PROVE  Balanced(Filled(o, qty), tradeLog')
  <2>1. /\ Filled(o, qty).remaining_quantity = o.remaining_quantity - qty
        /\ Filled(o, qty).id = o.id /\ Filled(o, qty).quantity = o.quantity
    BY <1>7, FilledProperties
  <2>2. TradedIn(tradeLog', o.id) = TradedIn(tradeLog, o.id) + qty
    BY <1>5, <1>7
  <2>3. o.remaining_quantity \in Nat /\ o.quantity \in Nat
    BY DEF Order
  <2> QED
    BY <2>1, <2>2, <2>3, <1>6, <1>7 DEF Balanced
<1>8. /\ \A o \in Resting : Balanced(o, tradeLog)
      /\ Balanced(incoming, tradeLog)
  BY <1>2, ConservedMeaning DEF AInv
<1>9. Share(trade, incoming.id) = qty /\ Share(trade, maker.id) = qty
  BY <1>1 DEF Turn
<1>10. QuantityConserved'
  <2>1. Balanced(incoming', tradeLog')
    BY <1>2, <1>7, <1>8, <1>9
  <2>2. Balanced(Filled(maker, qty), tradeLog')
    BY <1>1, <1>2, <1>7, <1>8, <1>9
  <2>3. ASSUME NEW o \in Resting, o # maker
        PROVE  Balanced(o, tradeLog')
    <3>1. o.id \notin {incoming.id, maker.id}
      BY <1>3, <2>3
    <3>2. Share(trade, o.id) = 0
      BY <1>1, <3>1 DEF Turn
    <3>3. TradedIn(tradeLog', o.id) = TradedIn(tradeLog, o.id)
      BY <1>5, <1>6, <3>2
    <3> QED
      BY <1>8, <3>3 DEF Balanced
  <2>4. \A o \in Resting' : Balanced(o, tradeLog')
    BY <1>2, <2>2, <2>3 DEF Remainder
  <2> QED
    BY <2>1, <2>4 DEF QuantityConserved, Balanced
<1> DEFINE N == Len(tradeLog)
<1>11. /\ N \in Nat /\ Len(tradeLog') = N + 1 /\ DOMAIN tradeLog = 1..N
       /\ DOMAIN tradeLog' = 1..(N + 1)
       /\ \A i \in 1..N : tradeLog'[i] = tradeLog[i]
       /\ tradeLog'[N + 1] = trade
  BY <1>2, <1>4, AppendProperties, LenProperties
<1> HIDE DEF N
<1>12. LogKnown'
  <2> SUFFICES ASSUME NEW i \in 1..(N + 1), NEW id, Names(tradeLog'[i], id)
               PROVE  id \in submitted'
    BY <1>11 DEF LogKnown, Names
  <2>1. submitted' = submitted
    BY <1>1 DEF Turn
  <2>2. CASE i = N + 1
    <3>1. Names(trade, id)
      BY <2>2, <1>11
    <3> QED
      BY <1>1, <1>3, <2>1, <3>1 DEF Turn
  <2>3. CASE i # N + 1
    <3>1. i \in 1..N
      BY <2>3, <1>11
    <3> QED
      BY <1>11, <2>1, <3>1 DEF AInv, LogKnown
  <2> QED
    BY <2>2, <2>3
<1>13. ReturnsItsTrades'
  <2> DEFINE M == Len(trades)
  <2>1. /\ M \in Nat /\ Len(trades') = M + 1 /\ DOMAIN trades = 1..M
        /\ DOMAIN trades' = 1..(M + 1)
        /\ \A i \in 1..M : trades'[i] = trades[i]
        /\ trades'[M + 1] = trade
    <3>1. trades' = Append(trades, trade)
      BY <1>1 DEF Turn
    <3> QED
      BY <3>1, <1>4, AppendProperties, LenProperties
  <2>2. /\ N - M >= 0
        /\ \A i \in 1..M : trades[i] = tradeLog[N - M + i]
        /\ \A i \in 1..N : Names(tradeLog[i], incoming.id) <=> i > N - M
    BY <1>2, <1>11, <2>1 DEF AInv, ReturnsItsTrades, N
  <2>3. incoming'.id = incoming.id
    BY <1>2, FilledProperties
  <2>4. Names(trade, incoming.id)
    BY <1>1 DEF Turn
  <2> HIDE DEF M
  <2> DEFINE before == Len(tradeLog') - Len(trades')
  <2>5. before = N - M
    BY <1>11, <2>1
  <2> HIDE DEF before
  <2>6. \A i \in DOMAIN trades' : trades'[i] = tradeLog'[before + i]
    <3> SUFFICES ASSUME NEW i \in 1..(M + 1) PROVE trades'[i] = tradeLog'[N - M + i]
      BY <2>1, <2>5
    <3>1. CASE i = M + 1
      <4>1. N - M + i = N + 1
        BY <3>1, <1>11, <2>1
      <4> QED
        BY <3>1, <4>1, <1>11, <2>1
    <3>2. CASE i # M + 1
      <4>1. i \in 1..M /\ N - M + i \in 1..N
        BY <3>2, <1>11, <2>1, <2>2
      <4> QED
        BY <4>1, <1>11, <2>1, <2>2
    <3> QED
      BY <3>1, <3>2
  <2>7. \A i \in DOMAIN tradeLog' : Names(tradeLog'[i], incoming'.id) <=> i > before
    <3> SUFFICES ASSUME NEW i \in 1..(N + 1)
                 PROVE  Names(tradeLog'[i], incoming.id) <=> i > N - M
      BY <1>11, <2>3, <2>5
    <3>1. CASE i = N + 1
      BY <3>1, <1>11, <2>1, <2>4
    <3>2. CASE i # N + 1
      <4>1. i \in 1..N
        BY <3>2, <1>11
      <4> QED
        BY <4>1, <1>11, <2>2
    <3> QED
      BY <3>1, <3>2
  <2>8. before >= 0
    BY <2>2, <2>5
  <2> QED
    BY <2>6, <2>7, <2>8 DEF ReturnsItsTrades, before, Names
<1>14. StartsEmpty'
  <2>1. incoming' \in Order
    BY <1>2, FilledProperties
  <2> QED
    BY <2>1, NoOrderAssumption DEF StartsEmpty
<1> QED
  BY <1>10, <1>12, <1>13, <1>14 DEF AInv

\* A new order is in no trade of the log.
LEMMA AddOrderAccounts ==
  ASSUME IInv, IInv', AInv, NEW id \in FreshId, NEW stamp \in Stamp,
         NEW order \in ValidOrder(id, stamp), AddOrder(order)
  PROVE  AInv'
<1>1. /\ order \in Order /\ order.id = id /\ order.remaining_quantity = order.quantity
      /\ id \notin submitted
  BY ValidOrderProperties DEF FreshId
<1>2. /\ incoming = NoOrder
      /\ incoming'.id = id /\ incoming'.quantity = order.quantity
      /\ incoming'.remaining_quantity = order.remaining_quantity
      /\ submitted' = submitted \cup {id}
      /\ UNCHANGED <<book, trades, tradeLog>>
  BY <1>1 DEF AddOrder, Order
<1>3. tradeLog \in Seq(Trade) /\ trades = <<>>
  BY <1>2 DEF IInv, AInv, StartsEmpty
<1>4. \A n \in DOMAIN tradeLog : ~Names(tradeLog[n], id)
  BY <1>1 DEF AInv, LogKnown
<1>5. Resting' = Resting
  BY <1>2 DEF Resting
<1>6. QuantityConserved'
  <2>1. TradedIn(tradeLog, id) = 0
    BY <1>3, <1>4, TradedInNone
  <2>2. order.quantity \in Nat
    BY <1>1 DEF Order
  <2>3. tradeLog' = tradeLog
    BY <1>2
  <2>4. incoming'.remaining_quantity + TradedIn(tradeLog', incoming'.id) = incoming'.quantity
    BY <1>1, <1>2, <2>1, <2>2, <2>3
  <2>5. \A o \in Resting : o.remaining_quantity + TradedIn(tradeLog, o.id) = o.quantity
    BY DEF AInv, QuantityConserved
  <2> QED
    BY <1>5, <2>3, <2>4, <2>5 DEF QuantityConserved
<1>7. ReturnsItsTrades'
  <2>1. /\ DOMAIN trades = {} /\ Len(trades) = 0
        /\ DOMAIN tradeLog = 1..Len(tradeLog) /\ Len(tradeLog) \in Nat
    BY <1>3, LenProperties, EmptySeq
  <2> QED
    BY <1>2, <1>4, <2>1 DEF ReturnsItsTrades, Names
<1>8. LogKnown' /\ StartsEmpty'
  BY <1>2, <1>3 DEF AInv, LogKnown, StartsEmpty, Names
<1> QED
  BY <1>6, <1>7, <1>8 DEF AInv

\* Steps that change no account: no trade, no new order, and nothing rests
\* that was not in the book before.
LEMMA NoTradeAccounts ==
  ASSUME IInv, AInv,
         UNCHANGED <<tradeLog, submitted>>,
         \/ incoming' = NoOrder /\ trades' = <<>>
         \/ UNCHANGED <<incoming, trades>>,
         Resting' \subseteq Resting \cup {o \in {incoming} : incoming # NoOrder}
  PROVE  AInv'
<1>1. LogKnown'
  BY DEF AInv, LogKnown, Names
<1>2. StartsEmpty'
  BY DEF AInv, StartsEmpty
<1>3. QuantityConserved'
  BY DEF AInv, QuantityConserved
<1>4. ReturnsItsTrades'
  BY DEF AInv, ReturnsItsTrades, Names
<1> QED
  BY <1>1, <1>2, <1>3, <1>4 DEF AInv

\* The end of the loop, cancelling, drawing an id elsewhere.
LEMMA OtherAccounts ==
  ASSUME IInv, AInv,
         \/ RestOrder
         \/ DropOrder
         \/ \E id \in OrderId : CancelOrder(id)
         \/ DrawTradeId
         \/ UNCHANGED vars
  PROVE  AInv'
<1>1. CASE RestOrder
  <2>1. Abstract!Settle
    BY <1>1, RestSettles
  <2>2. Resting' \subseteq Resting \cup {o \in {incoming} : incoming # NoOrder}
    BY <2>1 DEF Abstract!Settle
  <2> QED
    BY <1>1, <2>2, NoTradeAccounts DEF RestOrder
<1>2. CASE DropOrder
  <2>1. Resting' = Resting
    BY <1>2 DEF DropOrder, Resting
  <2> QED
    BY <1>2, <2>1, NoTradeAccounts DEF DropOrder
<1>3. ASSUME NEW id \in OrderId, CancelOrder(id)
      PROVE  AInv'
  <2>1. Abstract!Cancel
    BY <1>3, CancelCancels
  <2>2. Resting' \subseteq Resting
    BY <2>1 DEF Abstract!Cancel
  <2>3. UNCHANGED <<incoming, trades, tradeLog, submitted>>
    BY <1>3 DEF CancelOrder
  <2> QED
    BY <2>2, <2>3, NoTradeAccounts
<1>4. CASE DrawTradeId \/ UNCHANGED vars
  <2>1. Resting' = Resting /\ UNCHANGED <<incoming, trades, tradeLog, submitted>>
    BY <1>4 DEF DrawTradeId, vars, Resting
  <2> QED
    BY <2>1, NoTradeAccounts
<1> QED
  BY <1>1, <1>2, <1>3, <1>4

\* clear() empties the book and the log together.
LEMMA ClearAccounts ==
  ASSUME AInv, Clear
  PROVE  AInv'
<1>1. /\ incoming = NoOrder /\ incoming' = NoOrder
      /\ trades' = trades /\ tradeLog' = <<>>
      /\ Resting' = {}
  BY DEF Clear, Resting, EmptyLevels
<1>2. LogKnown'
  BY <1>1 DEF LogKnown
<1> QED
  BY <1>1, <1>2 DEF AInv, StartsEmpty, QuantityConserved, ReturnsItsTrades

LEMMA InitAccounts == Init => AInv
<1> SUFFICES ASSUME Init PROVE AInv
  OBVIOUS
<1>1. Resting = {} /\ incoming = NoOrder /\ trades = <<>> /\ tradeLog = <<>>
  BY DEF Init, Resting, EmptyLevels
<1>2. LogKnown
  BY <1>1 DEF LogKnown
<1> QED
  BY <1>1, <1>2 DEF AInv, StartsEmpty, QuantityConserved, ReturnsItsTrades

LEMMA NextAccounts == IInv /\ IInv' /\ AInv /\ [Next]_vars => AInv'
<1> SUFFICES ASSUME IInv, IInv', AInv, [Next]_vars PROVE AInv'
  OBVIOUS
<1>1. ASSUME NEW id \in FreshId, NEW stamp \in Stamp,
             NEW order \in ValidOrder(id, stamp), AddOrder(order)
      PROVE  AInv'
  BY <1>1, AddOrderAccounts
<1>2. ASSUME MatchBuyOrder \/ MatchSellOrder PROVE AInv'
  BY <1>2, MatchAccounts DEF MatchBuyOrder, MatchSellOrder, Side
<1>3. ASSUME Clear PROVE AInv'
  BY <1>3, ClearAccounts
<1>4. ASSUME \/ RestOrder \/ DropOrder \/ DrawTradeId \/ UNCHANGED vars
             \/ \E id \in OrderId : CancelOrder(id)
      PROVE  AInv'
  BY <1>4, OtherAccounts
<1> QED
  BY <1>1, <1>2, <1>3, <1>4 DEF Next

\* The accounts are right in every state the book can reach.
THEOREM AccountsInvariance == Spec => []AInv
<1>1. Spec => []IInv
  BY Invariance
<1> QED
  BY <1>1, InitAccounts, NextAccounts, PTL DEF Spec

\* Quantity is conserved: what an order in the book has left and what the log
\* says it traded add up to what was ordered, over any number of partial fills.
THEOREM QuantityIsConserved == Spec => []QuantityConserved
<1>1. AInv => QuantityConserved
  BY DEF AInv
<1> QED
  BY <1>1, AccountsInvariance, PTL

\* addOrder returns its own trades, all of them and in the order of the log.
THEOREM ReturnsExactlyItsTrades == Spec => []ReturnsItsTrades
<1>1. AInv => ReturnsItsTrades
  BY DEF AInv
<1> QED
  BY <1>1, AccountsInvariance, PTL

-------------------------------------------------------------------------------
\* No order trades more than it asked for.

\* The orders that rest or are being matched.
Present == Resting \cup ({incoming} \ {NoOrder})

\* The step of NeverOverfilled.
WithinQuantity == \A o \in Present : TradedIn(tradeLog', o.id) <= o.quantity

\* What an order has traded so far, and what it has left, are its quantity.
LEMMA PresentBalanced ==
  ASSUME IInv, AInv, NEW o \in Present
  PROVE  /\ o \in Order /\ TradedIn(tradeLog, o.id) \in Nat
         /\ o.remaining_quantity + TradedIn(tradeLog, o.id) = o.quantity
<1>1. o \in Order
  BY RestingApart DEF Present, IInv
<1>2. TradedIn(tradeLog, o.id) \in Nat
  BY TradedInType DEF IInv
<1>3. o.remaining_quantity + TradedIn(tradeLog, o.id) = o.quantity
  BY DEF Present, AInv, QuantityConserved
<1> QED
  BY <1>1, <1>2, <1>3

\* A trade takes no more from the taker and from the maker than they have left.
LEMMA MatchWithinQuantity ==
  ASSUME IInv, IInv', AInv, NEW side \in Side, MatchOne(side)
  PROVE  WithinQuantity
<1> SUFFICES ASSUME NEW o \in Present
             PROVE  TradedIn(tradeLog', o.id) <= o.quantity
  BY DEF WithinQuantity
<1>1. PICK maker \in Resting, qty \in Nat, trade \in Trade : Turn(maker, qty, trade)
  BY TurnOfTheLoop
<1>2. /\ o \in Order /\ TradedIn(tradeLog, o.id) \in Nat
      /\ o.remaining_quantity + TradedIn(tradeLog, o.id) = o.quantity
  BY PresentBalanced
<1>3. TradedIn(tradeLog', o.id) = TradedIn(tradeLog, o.id) + Share(trade, o.id)
  BY <1>1, TradedInAppend DEF IInv, Turn
<1>4. CASE o.id \in {incoming.id, maker.id}
  <2>1. o = incoming \/ o = maker
    BY <1>1, <1>4, RestingApart DEF Present, Turn
  <2>2. qty <= o.remaining_quantity /\ Share(trade, o.id) = qty
    BY <1>1, <1>4, <2>1 DEF Turn
  <2> QED
    BY <1>2, <1>3, <2>2 DEF Order
<1>5. CASE o.id \notin {incoming.id, maker.id}
  <2>1. Share(trade, o.id) = 0
    BY <1>1, <1>5 DEF Turn
  <2> QED
    BY <1>2, <1>3, <2>1 DEF Order
<1> QED
  BY <1>4, <1>5

LEMMA NextWithinQuantity == IInv /\ IInv' /\ AInv /\ [Next]_vars => [WithinQuantity]_vars
<1> SUFFICES ASSUME IInv, IInv', AInv, Next PROVE WithinQuantity
  OBVIOUS
<1>1. CASE MatchBuyOrder \/ MatchSellOrder
  BY <1>1, MatchWithinQuantity DEF MatchBuyOrder, MatchSellOrder, Side
<1>2. CASE tradeLog' = tradeLog
  <2>1. ASSUME NEW o \in Present
        PROVE  TradedIn(tradeLog, o.id) <= o.quantity
    BY PresentBalanced DEF Order
  <2> QED
    BY <1>2, <2>1 DEF WithinQuantity
<1>3. CASE Clear
  <2>1. ASSUME NEW o \in Present
        PROVE  TradedIn(<<>>, o.id) <= o.quantity
    <3>1. <<>> \in Seq(Trade) /\ \A n \in DOMAIN <<>> : ~Names(<<>>[n], o.id)
      BY EmptySeq
    <3>2. TradedIn(<<>>, o.id) = 0
      BY <3>1, TradedInNone
    <3> QED
      BY <3>2, PresentBalanced DEF Order
  <2> QED
    BY <1>3, <2>1 DEF Clear, WithinQuantity
<1>4. \/ MatchBuyOrder \/ MatchSellOrder \/ Clear
      \/ tradeLog' = tradeLog
  BY DEF Next, AddOrder, RestOrder, DropOrder, CancelOrder, DrawTradeId
<1> QED
  BY <1>1, <1>2, <1>3, <1>4

\* No order trades more than it asked for, for every log: not while it rests or
\* is being matched, and not in the trade that fills it and takes it out.
THEOREM NoOrderIsOverfilled == Spec => NeverOverfilled
<1>1. Spec => []IInv
  BY Invariance
<1>2. NeverOverfilled <=> [][WithinQuantity]_vars
  BY DEF NeverOverfilled, WithinQuantity, Present
<1> QED
  BY <1>1, <1>2, AccountsInvariance, NextWithinQuantity, PTL DEF Spec

-------------------------------------------------------------------------------
\* What has left the book stays out of it and out of the log.

\* The step of GoneForGood.
StaysGone ==
  \A id \in submitted \ Live :
    /\ id \notin Live'
    /\ TradedIn(tradeLog', id) <= TradedIn(tradeLog, id)

LEMMA LiveMember ==
  \A id : id \in Live <=> \/ \E o \in Resting : id = o.id
                          \/ incoming # NoOrder /\ id = incoming.id
BY DEF Live, RestingIds

LEMMA MatchStaysGone ==
  ASSUME IInv, IInv', NEW side \in Side, MatchOne(side)
  PROVE  StaysGone
<1>1. PICK maker \in Resting, qty \in Nat, trade \in Trade : Turn(maker, qty, trade)
  BY TurnOfTheLoop
<1>2. /\ incoming # NoOrder /\ incoming \in Order /\ maker \in Order
      /\ qty <= incoming.remaining_quantity /\ qty <= maker.remaining_quantity
      /\ tradeLog' = Append(tradeLog, trade)
      /\ incoming' = Filled(incoming, qty)
      /\ Resting' = (Resting \ {maker}) \cup Remainder(Filled(maker, qty))
  BY <1>1 DEF Turn
<1>3. incoming'.id = incoming.id /\ Filled(maker, qty).id = maker.id
  BY <1>2, FilledProperties
<1>4. Live' \subseteq Live
  <2>1. \A o \in Resting' : o \in Resting \/ o = Filled(maker, qty)
    BY <1>2 DEF Remainder
  <2>2. \A id \in Live' : (\E o \in Resting' : id = o.id) \/ id = incoming'.id
    BY DEF Live, RestingIds
  <2> QED
    BY <1>1, <1>2, <1>3, <2>1, <2>2, LiveMember
<1>5. tradeLog \in Seq(Trade)
  BY DEF IInv
<1>6. ASSUME NEW id \in submitted \ Live
      PROVE  TradedIn(tradeLog', id) <= TradedIn(tradeLog, id)
  <2>1. id \notin {incoming.id, maker.id}
    BY <1>1, <1>2, <1>6, LiveMember
  <2>2. Share(trade, id) = 0
    BY <1>1, <2>1 DEF Turn
  <2>3. TradedIn(tradeLog', id) = TradedIn(tradeLog, id) + 0
    BY <1>2, <1>5, <2>2, TradedInAppend
  <2> QED
    BY <1>5, <2>3, TradedInType
<1> QED
  BY <1>4, <1>6 DEF StaysGone

\* Steps without a trade: the log is kept or emptied.
LEMMA NoTradeStaysGone ==
  ASSUME IInv, tradeLog' \in {tradeLog, <<>>}, (Live' \cap submitted) \subseteq Live
  PROVE  StaysGone
<1> SUFFICES ASSUME NEW id \in submitted \ Live
             PROVE  TradedIn(tradeLog', id) <= TradedIn(tradeLog, id)
  BY DEF StaysGone
<1>1. tradeLog \in Seq(Trade) /\ TradedIn(tradeLog, id) \in Nat
  BY TradedInType DEF IInv
<1>2. CASE tradeLog' = tradeLog
  BY <1>1, <1>2
<1>3. CASE tradeLog' = <<>>
  <2>1. TradedIn(<<>>, id) = 0
    <3>1. <<>> \in Seq(Trade) /\ DOMAIN <<>> = {}
      BY EmptySeq
    <3>2. \A n \in DOMAIN <<>> : ~Names(<<>>[n], id)
      BY <3>1
    <3> QED
      BY <3>1, <3>2, TradedInNone
  <2> QED
    BY <1>1, <1>3, <2>1
<1> QED
  BY <1>2, <1>3

LEMMA NextStaysGone == IInv /\ IInv' /\ [Next]_vars => [StaysGone]_vars
<1> SUFFICES ASSUME IInv, IInv', Next PROVE StaysGone
  OBVIOUS
<1>1. ASSUME NEW id \in FreshId, NEW stamp \in Stamp,
             NEW order \in ValidOrder(id, stamp), AddOrder(order)
      PROVE  StaysGone
  <2>1. order \in Order /\ order.id = id /\ id \notin submitted
    BY ValidOrderProperties DEF FreshId
  <2>2. incoming = NoOrder /\ incoming'.id = id /\ tradeLog' = tradeLog /\ book' = book
    BY <1>1, <2>1 DEF AddOrder, Order
  <2>3. Resting' = Resting
    BY <2>2 DEF Resting
  <2>4. \A x \in Live' : (\E o \in Resting : x = o.id) \/ x = id
    BY <2>2, <2>3 DEF Live, RestingIds
  <2> QED
    BY <2>1, <2>2, <2>4, LiveMember, NoTradeStaysGone
<1>2. ASSUME MatchBuyOrder \/ MatchSellOrder PROVE StaysGone
  BY <1>2, MatchStaysGone DEF MatchBuyOrder, MatchSellOrder, Side
<1>3. ASSUME RestOrder \/ DropOrder PROVE StaysGone
  <2>1. Abstract!Settle
    BY <1>3, RestSettles, DropSettles
  <2>2. /\ tradeLog' = tradeLog /\ incoming' = NoOrder /\ incoming # NoOrder
        /\ \A o \in Resting' : o \in Resting \/ o = incoming
    BY <2>1 DEF Abstract!Settle
  <2>3. \A x \in Live' : \E o \in Resting' : x = o.id
    BY <2>2 DEF Live, RestingIds
  <2> QED
    BY <2>2, <2>3, LiveMember, NoTradeStaysGone
<1>4. ASSUME NEW id \in OrderId, CancelOrder(id) PROVE StaysGone
  <2>1. Abstract!Cancel
    BY <1>4, CancelCancels
  <2>2. tradeLog' = tradeLog /\ incoming' = incoming /\ Resting' \subseteq Resting
    BY <2>1 DEF Abstract!Cancel
  <2>3. Live' \subseteq Live
    BY <2>2 DEF Live, RestingIds
  <2> QED
    BY <2>2, <2>3, NoTradeStaysGone
<1>5. ASSUME Clear PROVE StaysGone
  <2>1. tradeLog' = <<>> /\ incoming' = NoOrder /\ Resting' = {}
    BY <1>5 DEF Clear, Resting, EmptyLevels
  <2>2. Live' = {}
    BY <2>1 DEF Live, RestingIds
  <2> QED
    BY <2>1, <2>2, NoTradeStaysGone
<1>6. ASSUME DrawTradeId PROVE StaysGone
  <2>1. UNCHANGED <<book, incoming, tradeLog>>
    BY <1>6 DEF DrawTradeId
  <2>2. Live' = Live
    BY <2>1 DEF Live, RestingIds, Resting
  <2> QED
    BY <2>1, <2>2, NoTradeStaysGone
<1> QED
  BY <1>1, <1>2, <1>3, <1>4, <1>5, <1>6 DEF Next

\* An order that was filled, dropped or cancelled never comes back, and no
\* later trade is in its name.
THEOREM GoneOrdersStayGone == Spec => GoneForGood
<1>1. Spec => []IInv
  BY Invariance
<1>2. GoneForGood <=> [][StaysGone]_vars
  BY DEF GoneForGood, StaysGone
<1> QED
  BY <1>1, <1>2, NextStaysGone, PTL DEF Spec

-------------------------------------------------------------------------------
\* What those who submit and cancel orders rely on.

\* No order that stays changes its id or its quantity.
KeepsOrders ==
  \A o \in Present' :
    \/ incoming = NoOrder /\ o = incoming'
    \/ \E m \in Present : o.id = m.id /\ o.quantity = m.quantity

LEMMA NextKeepsOrders == IInv /\ IInv' /\ [Next]_vars => KeepsOrders
<1> SUFFICES ASSUME IInv, IInv', [Next]_vars PROVE KeepsOrders
  OBVIOUS
<1> USE DEF KeepsOrders, Present
<1>1. Abstract!Next \/ UNCHANGED Abstract!vars
  BY StepRefines
<1>2. CASE UNCHANGED Abstract!vars
  BY <1>2 DEF Abstract!vars
<1>3. CASE Abstract!Submit
  BY <1>3 DEF Abstract!Submit
<1>4. CASE Abstract!Execute
  <2>0. PICK maker \in Resting : \E q :
          /\ incoming # NoOrder /\ incoming' = Filled(incoming, q)
          /\ Resting' = (Resting \ {maker}) \cup
                          {o \in {Filled(maker, q)} : o.remaining_quantity > 0}
    BY <1>4, SharedOperators DEF Abstract!Execute
  <2>1. PICK q :
          /\ incoming # NoOrder /\ incoming' = Filled(incoming, q)
          /\ Resting' = (Resting \ {maker}) \cup
                          {o \in {Filled(maker, q)} : o.remaining_quantity > 0}
    BY <2>0
  <2>2. incoming \in Order /\ maker \in Order
    BY <2>1, RestingPlace DEF IInv
  <2>3. \A o \in Order : Filled(o, q).id = o.id /\ Filled(o, q).quantity = o.quantity
    BY DEF Filled, Order
  <2> QED
    BY <2>1, <2>2, <2>3
<1>5. CASE Abstract!Settle
  BY <1>5 DEF Abstract!Settle
<1>6. CASE Abstract!Cancel
  BY <1>6 DEF Abstract!Cancel
<1>7. CASE Abstract!Clear
  BY <1>7 DEF Abstract!Clear
<1> QED
  BY <1>1, <1>2, <1>3, <1>4, <1>5, <1>6, <1>7 DEF Abstract!Next

\* Who is present was submitted.
LEMMA PresentSubmitted ==
  ASSUME IInv, NEW o \in Present
  PROVE  o \in Order /\ o.id \in submitted
<1>1. CASE o \in Resting
  BY <1>1, RestingPlace DEF IInv, RestsWell
<1>2. CASE o = incoming /\ incoming # NoOrder
  BY <1>2 DEF IInv, TakerSound
<1> QED
  BY <1>1, <1>2 DEF Present

\* A cancelled order was there, alone with its id, and had not traded it all.
LEMMA CancelSettlesAccounts ==
  ASSUME IInv, AInv, NEW id \in OrderId, CancelOrder(id)
  PROVE  /\ id \in submitted /\ id \in Live /\ id \notin Live' /\ tradeLog' = tradeLog
         /\ \E o \in Present : o.id = id /\ TradedIn(tradeLog, id) < o.quantity
<1>1. /\ incoming = NoOrder /\ incoming' = NoOrder /\ tradeLog' = tradeLog
      /\ \E o \in Resting : o.id = id /\ Resting' = Resting \ {o}
  BY CancelTakesOut
<1>2. PICK o \in Resting : o.id = id /\ Resting' = Resting \ {o}
  BY <1>1
<1>3. \A m \in Resting : m.id = id => m = o
  BY <1>2, RestingMember DEF IInv, BookInv, PositionsUnique
<1>4. id \notin Live'
  BY <1>1, <1>2, <1>3 DEF Live, RestingIds
<1>5. id \in Live /\ id \in submitted
  BY <1>2, LiveMember, PresentSubmitted DEF Present
<1>6. /\ o \in Order /\ o.remaining_quantity \in 1..o.quantity
      /\ o.remaining_quantity + TradedIn(tradeLog, id) = o.quantity
  BY <1>2, RestingPlace DEF IInv, RestsWell, AInv, QuantityConserved
<1>7. TradedIn(tradeLog, id) \in Nat
  BY TradedInType DEF IInv
<1>8. TradedIn(tradeLog, id) < o.quantity
  BY <1>6, <1>7 DEF Order
<1> QED
  BY <1>1, <1>2, <1>4, <1>5, <1>8 DEF Present

===============================================================================
