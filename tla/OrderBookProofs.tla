---------------------------- MODULE OrderBookProofs ----------------------------
(***************************************************************************)
(* The invariants of the matching engine, for any number of orders, any    *)
(* prices and any quantities.  The first part has the facts about what     *)
(* OrderBook is built from: queues, price levels and the best level.       *)
(*                                                                         *)
(* The inductive invariant IInv joins what the book itself must satisfy    *)
(* (BookInv) with what is known of the taker and of the log.  All of its   *)
(* parts lean on each other: the type of a maker needs a queue that is not *)
(* empty, an uncrossed book needs queues that hold what their level says,  *)
(* and the queue order needs a taker that is later than what rests.        *)
(***************************************************************************)
EXTENDS OrderBook, SequenceTheorems, WellFoundedInduction, TLAPS

-------------------------------------------------------------------------------
\* Queues.

\* Erasing position i of a deque keeps the others in their order.
LEMMA RemoveAtProperties ==
  ASSUME NEW S, NEW q \in Seq(S), NEW i \in 1..Len(q)
  PROVE  /\ RemoveAt(q, i) \in Seq(S)
         /\ Len(RemoveAt(q, i)) = Len(q) - 1
         /\ \A j \in 1..(Len(q) - 1) :
              RemoveAt(q, i)[j] = IF j < i THEN q[j] ELSE q[j + 1]
<1> DEFINE a == SubSeq(q, 1, i - 1)
           b == SubSeq(q, i + 1, Len(q))
<1>1. /\ a \in Seq(S)
      /\ Len(a) = i - 1
      /\ \A j \in 1..(i - 1) : a[j] = q[j]
  <2>1. \A j \in 1..(i - 1) : q[j] \in S
    BY ElementOfSeq
  <2> QED
    BY <2>1, SubSeqProperties, LenProperties
<1>2. /\ b \in Seq(S)
      /\ Len(b) = Len(q) - i
      /\ \A j \in 1..(Len(q) - i) : b[j] = q[i + j]
  <2>1. \A j \in (i + 1)..Len(q) : q[j] \in S
    BY ElementOfSeq
  <2> QED
    BY <2>1, SubSeqProperties, LenProperties
<1>3. RemoveAt(q, i) = a \o b
  BY DEF RemoveAt
<1>4. /\ a \o b \in Seq(S)
      /\ Len(a \o b) = Len(a) + Len(b)
      /\ \A j \in 1..(Len(a) + Len(b)) :
           (a \o b)[j] = IF j <= Len(a) THEN a[j] ELSE b[j - Len(a)]
  BY <1>1, <1>2, ConcatProperties
<1> HIDE DEF a, b
<1> QED
  BY <1>1, <1>2, <1>3, <1>4

-------------------------------------------------------------------------------
\* Price levels.

\* PutLevel sets one level and leaves the others as they were.
LEMMA PutLevelProperties ==
  ASSUME NEW levels, NEW price, NEW queue
  PROVE  /\ DOMAIN PutLevel(levels, price, queue) = DOMAIN levels \cup {price}
         /\ PutLevel(levels, price, queue)[price] = queue
         /\ \A p \in DOMAIN levels \ {price} :
              PutLevel(levels, price, queue)[p] = levels[p]
BY DEF PutLevel

\* SetLevel never leaves an empty queue at the level it sets.
LEMMA SetLevelProperties ==
  ASSUME NEW levels, NEW price \in DOMAIN levels, NEW queue
  PROVE  /\ DOMAIN SetLevel(levels, price, queue) =
              IF queue = <<>> THEN DOMAIN levels \ {price} ELSE DOMAIN levels
         /\ queue # <<>> => SetLevel(levels, price, queue)[price] = queue
         /\ \A p \in DOMAIN levels \ {price} :
              SetLevel(levels, price, queue)[p] = levels[p]
BY DEF SetLevel, PutLevel, DropLevel

\* SetLevel keeps a map from prices to queues one.
LEMMA SetLevelType ==
  ASSUME NEW S, NEW levels, levels \in [DOMAIN levels -> Seq(S)],
         NEW price \in DOMAIN levels, NEW queue \in Seq(S)
  PROVE  LET new == SetLevel(levels, price, queue)
         IN  new \in [DOMAIN new -> Seq(S)]
BY DEF SetLevel, PutLevel, DropLevel

\* new is levels with o behind the queue old of its price.
Extends(new, levels, old, o) ==
  /\ DOMAIN new = DOMAIN levels \cup {o.price}
  /\ new \in [DOMAIN new -> Seq(Order)]
  /\ old \in Seq(Order)
  /\ Len(new[o.price]) = Len(old) + 1
  /\ \A i \in 1..Len(old) : new[o.price][i] = old[i]
  /\ new[o.price][Len(old) + 1] = o
  /\ new[o.price] # <<>>
  /\ \A p \in DOMAIN levels \ {o.price} : new[p] = levels[p]

\* addToBook puts the order behind its level's queue and touches no other.
LEMMA AddToBookProperties ==
  ASSUME NEW levels, levels \in [DOMAIN levels -> Seq(Order)], NEW o \in Order
  PROVE  Extends(AddToBook(levels, o), levels, Queue(levels, o.price), o)
<1> DEFINE old == Queue(levels, o.price)
<1>1. old \in Seq(Order)
  BY EmptySeq DEF Queue
<1>2. /\ Append(old, o) \in Seq(Order)
      /\ Append(old, o) # <<>>
      /\ Len(Append(old, o)) = Len(old) + 1
      /\ \A i \in 1..Len(old) : Append(old, o)[i] = old[i]
      /\ Append(old, o)[Len(old) + 1] = o
  BY <1>1, AppendProperties
<1> HIDE DEF old
<1>3. AddToBook(levels, o) = PutLevel(levels, o.price, Append(old, o))
  BY DEF AddToBook, old
<1>4. Extends(PutLevel(levels, o.price, Append(old, o)), levels, old, o)
  BY <1>1, <1>2 DEF PutLevel, Extends
<1> QED
  BY <1>3, <1>4 DEF old

-------------------------------------------------------------------------------
\* The best level.

\* A set of naturals that has members has a least one.
LEMMA LeastOfNats ==
  ASSUME NEW T, T \subseteq Nat, T # {}
  PROVE  \E m \in T : \A n \in T : m <= n
<1>1. \E m \in T : \A n \in T : <<n, m>> \notin OpToRel(<, Nat)
  BY NatLessThanWellFounded, WFMin
<1>2. \A m, n \in T : <<n, m>> \notin OpToRel(<, Nat) => m <= n
  BY DEF OpToRel
<1> QED
  BY <1>1, <1>2

\* A set of prices that has members has a greatest one.
LEMMA GreatestPrice ==
  ASSUME NEW T, T \subseteq Price, T # {}
  PROVE  \E m \in T : \A n \in T : n <= m
<1> DEFINE U == {MaxPrice - n : n \in T}
<1>1. U \subseteq Nat /\ U # {}
  <2>1. \A n \in T : n \in 1..MaxPrice
    BY DEF Price
  <2>2. \A n \in T : MaxPrice - n \in Nat
    BY <2>1, BoundsAssumption
  <2>3. PICK n \in T : TRUE
    OBVIOUS
  <2>4. MaxPrice - n \in U
    BY <2>3
  <2> QED
    BY <2>2, <2>4
<1> HIDE DEF U
<1>2. PICK u \in U : \A v \in U : u <= v
  BY <1>1, LeastOfNats
<1>3. PICK m \in T : u = MaxPrice - m
  BY DEF U
<1>4. \A n \in T : u <= MaxPrice - n
  BY <1>2 DEF U
<1> QED
  BY <1>3, <1>4, BoundsAssumption DEF Price

\* A side that has levels has a best one: begin() is always defined.
LEMMA BestExists ==
  ASSUME NEW side \in Side, DOMAIN book[side] \subseteq Price, DOMAIN book[side] # {}
  PROVE  \E p \in DOMAIN book[side] : IsBest(side, p)
<1>1. CASE side = "Buy"
  <2>1. PICK m \in DOMAIN book[side] : \A n \in DOMAIN book[side] : n <= m
    BY GreatestPrice
  <2> QED
    BY <1>1, <2>1 DEF IsBest, BetterPrice, Price
<1>2. CASE side = "Sell"
  <2>1. PICK m \in DOMAIN book[side] : \A n \in DOMAIN book[side] : m <= n
    BY LeastOfNats DEF Price
  <2> QED
    BY <1>2, <2>1 DEF IsBest, BetterPrice, Price
<1> QED
  BY <1>1, <1>2 DEF Side

-------------------------------------------------------------------------------
\* The inductive invariant.

BookTypeOK ==
  /\ book = [side \in Side |-> book[side]]
  /\ \A side \in Side : /\ DOMAIN book[side] \subseteq Price
                        /\ book[side] \in [DOMAIN book[side] -> Seq(Order)]

BookInv ==
  /\ BookTypeOK
  /\ NoEmptyLevels
  /\ LevelsSound
  /\ QueuedByArrival
  /\ PositionsUnique
  /\ NotCrossed

IInv ==
  /\ BookInv
  /\ TakerSound
  /\ incoming \in Order \cup {NoOrder}
  /\ trades \in Seq(Trade) /\ tradeLog \in Seq(Trade)
  /\ trade_id_counter \in Nat /\ clock \in Nat /\ submitted \in SUBSET OrderId
  /\ incoming # NoOrder => incoming.id \notin RestingIds
  /\ TradeIdsGrow

\* IInv is the checked invariants, regrouped.
LEMMA InvMeaning ==
  IInv <=> /\ TypeOK
           /\ NoEmptyLevels
           /\ OrdersSound
           /\ QueuedByArrival
           /\ IdsUnique
           /\ NotCrossed
           /\ TradeIdsGrow
BY DEF IInv, TypeOK, OrdersSound, IdsUnique, BookInv, BookTypeOK

\* An order rests iff it has a position in some level's queue.
LEMMA RestingMember ==
  \A o : o \in Resting <=>
    \E side \in Side : \E p \in DOMAIN book[side] : \E i \in DOMAIN book[side][p] :
      o = book[side][p][i]
BY DEF Resting, Range

\* What IdsUnique says of the taker, position by position.
LEMMA TakerNotResting ==
  ASSUME NEW id
  PROVE  id \notin RestingIds <=>
           \A side \in Side : \A p \in DOMAIN book[side] :
             \A i \in DOMAIN book[side][p] : book[side][p][i].id # id
BY RestingMember DEF RestingIds

\* What POST /orders lets through is a well-typed, untouched order with
\* something to trade.
LEMMA ValidOrderProperties ==
  ASSUME NEW id \in OrderId, NEW stamp \in Stamp, NEW order \in ValidOrder(id, stamp)
  PROVE  /\ order \in Order
         /\ order.id = id
         /\ order.quantity > 0
         /\ order.remaining_quantity = order.quantity
         /\ order.status = "Active"
         /\ order.type = "Limit" => order.price \in Price
BY BoundsAssumption, StampAssumption
   DEF ValidOrder, NewOrder, Order, Price, Quantity, OrderType, OrderStatus, NoPrice

\* queue is part of the level's queue, in its order: e tells from where.
Embeds(e, queue, s, price) ==
  /\ e \in [1..Len(queue) -> 1..Len(book[s][price])]
  /\ \A j, k \in 1..Len(queue) : j < k => e[j] < e[k]
  /\ \A j \in 1..Len(queue) :
       /\ queue[j].id = book[s][price][e[j]].id
       /\ queue[j].arrival = book[s][price][e[j]].arrival
       /\ RestsWell(queue[j], s, price)

\* A step after which only orders rest that rested before.
NoneArrives ==
  \A side \in Side : \A p \in DOMAIN book'[side] :
    /\ p \in DOMAIN book[side]
    /\ \A i \in DOMAIN book'[side][p] : \E k \in DOMAIN book[side][p] :
         /\ book'[side][p][i].id = book[side][p][k].id
         /\ book'[side][p][i].arrival = book[side][p][k].arrival

\* Taking orders out of one queue, or trading one down in place, keeps the
\* book sound: the queue that results embeds in the old one by e.
LEMMA ShrinkQueue ==
  ASSUME BookInv,
         NEW s \in Side, NEW price \in DOMAIN book[s],
         NEW queue \in Seq(Order),
         NEW e, Embeds(e, queue, s, price),
         book' = [book EXCEPT ![s] = SetLevel(@, price, queue)],
         UNCHANGED <<clock, submitted>>
  PROVE  BookInv' /\ NoneArrives
<1> USE DEF Embeds
<1> DEFINE new == SetLevel(book[s], price, queue)
<1>0. BookTypeOK /\ NoEmptyLevels /\ LevelsSound /\ QueuedByArrival /\ PositionsUnique
      /\ NotCrossed
  BY DEF BookInv
<1>1. /\ \A side \in Side : book'[side] = IF side = s THEN new ELSE book[side]
      /\ book' = [side \in Side |-> book'[side]]
  BY <1>0 DEF BookTypeOK
<1>2. /\ DOMAIN new = IF queue = <<>> THEN DOMAIN book[s] \ {price} ELSE DOMAIN book[s]
      /\ queue # <<>> => new[price] = queue
      /\ \A p \in DOMAIN book[s] \ {price} : new[p] = book[s][p]
  BY SetLevelProperties
<1>3. new \in [DOMAIN new -> Seq(Order)]
  BY <1>0, SetLevelType DEF BookTypeOK
<1> HIDE DEF new
<1>4. BookTypeOK'
  BY <1>0, <1>1, <1>2, <1>3 DEF BookTypeOK
<1>5. \A side \in Side : \A p \in DOMAIN book'[side] :
        /\ p \in DOMAIN book[side]
        /\ \/ side = s /\ p = price /\ book'[side][p] = queue /\ queue # <<>>
           \/ book'[side][p] = book[side][p] /\ ~(side = s /\ p = price)
  BY <1>1, <1>2
<1>6. DOMAIN queue = 1..Len(queue)
  BY LenProperties
<1>7. \A side \in Side : \A p \in DOMAIN book[side] :
        DOMAIN book[side][p] = 1..Len(book[side][p])
  BY <1>0, LenProperties DEF BookTypeOK
<1>8. NoEmptyLevels'
  BY <1>0, <1>5 DEF NoEmptyLevels
<1>9. LevelsSound'
  <2> SUFFICES ASSUME NEW side \in Side, NEW p \in DOMAIN book'[side],
                      NEW i \in DOMAIN book'[side][p]
               PROVE  RestsWell(book[side][p][i], side, p)'
    BY DEF LevelsSound
  <2>1. CASE side = s /\ p = price /\ book'[side][p] = queue
    BY <2>1, <1>6 DEF RestsWell
  <2>2. CASE book'[side][p] = book[side][p]
    BY <2>2, <1>0, <1>5 DEF LevelsSound, RestsWell
  <2> QED
    BY <2>1, <2>2, <1>5
<1>10. QueuedByArrival'
  <2> SUFFICES ASSUME NEW side \in Side, NEW p \in DOMAIN book'[side],
                      NEW i \in DOMAIN book'[side][p], NEW j \in DOMAIN book'[side][p],
                      i < j
               PROVE  book'[side][p][i].arrival < book'[side][p][j].arrival
    BY DEF QueuedByArrival
  <2>1. CASE side = s /\ p = price /\ book'[side][p] = queue
    <3>1. i \in 1..Len(queue) /\ j \in 1..Len(queue)
      BY <2>1, <1>6
    <3>2. e[i] < e[j] /\ e[i] \in DOMAIN book[s][price] /\ e[j] \in DOMAIN book[s][price]
      BY <3>1, <1>7
    <3>3. book[s][price][e[i]].arrival < book[s][price][e[j]].arrival
      BY <3>2, <1>0 DEF QueuedByArrival
    <3> QED
      BY <2>1, <3>1, <3>3
  <2>2. CASE book'[side][p] = book[side][p]
    BY <2>2, <1>0, <1>5 DEF QueuedByArrival
  <2> QED
    BY <2>1, <2>2, <1>5
<1>11. PositionsUnique'
  \* The old position a new one comes from.
  <2> DEFINE old(side, p, i) == IF side = s /\ p = price THEN e[i] ELSE i
  <2>1. \A side \in Side : \A p \in DOMAIN book'[side] : \A i \in DOMAIN book'[side][p] :
          /\ p \in DOMAIN book[side]
          /\ old(side, p, i) \in DOMAIN book[side][p]
          /\ book'[side][p][i].id = book[side][p][old(side, p, i)].id
    <3> SUFFICES ASSUME NEW side \in Side, NEW p \in DOMAIN book'[side],
                        NEW i \in DOMAIN book'[side][p]
                 PROVE  /\ old(side, p, i) \in DOMAIN book[side][p]
                        /\ book'[side][p][i].id = book[side][p][old(side, p, i)].id
      BY <1>5
    <3>1. CASE side = s /\ p = price /\ book'[side][p] = queue
      BY <3>1, <1>6, <1>7
    <3>2. CASE book'[side][p] = book[side][p] /\ ~(side = s /\ p = price)
      BY <3>2
    <3> QED
      BY <3>1, <3>2, <1>5
  <2>2. \A j, k \in 1..Len(queue) : e[j] = e[k] => j = k
    <3>1. Len(queue) \in Nat /\ Len(book[s][price]) \in Nat
      BY <1>0, LenProperties DEF BookTypeOK
    <3>2. \A j \in 1..Len(queue) : e[j] \in Nat /\ j \in Nat
      BY <3>1
    <3>3. ASSUME NEW j \in 1..Len(queue), NEW k \in 1..Len(queue), e[j] = e[k], j # k
          PROVE  FALSE
      <4>1. j < k \/ k < j
        BY <3>2, <3>3
      <4>2. e[j] < e[k] \/ e[k] < e[j]
        BY <4>1
      <4> QED
        BY <4>2, <3>2, <3>3
    <3> QED
      BY <3>3
  <2>3. \A p \in DOMAIN book'[s] : p = price => book'[s][p] = queue
    BY <1>5
  <2> SUFFICES ASSUME NEW s1 \in Side, NEW s2 \in Side,
                      NEW p \in DOMAIN book'[s1], NEW q \in DOMAIN book'[s2],
                      NEW i \in DOMAIN book'[s1][p], NEW j \in DOMAIN book'[s2][q],
                      book'[s1][p][i].id = book'[s2][q][j].id
               PROVE  s1 = s2 /\ p = q /\ i = j
    BY DEF PositionsUnique
  <2>4. s1 = s2 /\ p = q /\ old(s1, p, i) = old(s2, q, j)
    <3> DEFINE k == old(s1, p, i)
               l == old(s2, q, j)
    <3>1. /\ p \in DOMAIN book[s1] /\ k \in DOMAIN book[s1][p]
          /\ q \in DOMAIN book[s2] /\ l \in DOMAIN book[s2][q]
          /\ book[s1][p][k].id = book[s2][q][l].id
      BY <2>1
    <3> HIDE DEF k, l
    <3>2. s1 = s2 /\ p = q /\ k = l
      BY <3>1, <1>0 DEF PositionsUnique
    <3> QED
      BY <3>2 DEF k, l
  <2> QED
    BY <2>2, <2>3, <2>4, <1>6
<1>12. NotCrossed'
  BY <1>0, <1>5 DEF NotCrossed, Side
<1>13. ASSUME NEW side \in Side, NEW p \in DOMAIN book'[side], NEW i \in DOMAIN book'[side][p]
       PROVE  \E k \in DOMAIN book[side][p] :
                /\ book'[side][p][i].id = book[side][p][k].id
                /\ book'[side][p][i].arrival = book[side][p][k].arrival
  <2>1. CASE side = s /\ p = price /\ book'[side][p] = queue
    <3>1. i \in 1..Len(queue) /\ e[i] \in DOMAIN book[s][price]
      BY <2>1, <1>6, <1>7, <1>13
    <3> QED
      BY <2>1, <3>1
  <2>2. CASE book'[side][p] = book[side][p]
    BY <2>2, <1>13
  <2> QED
    BY <2>1, <2>2, <1>5, <1>13
<1>14. BookInv'
  BY <1>4, <1>8, <1>9, <1>10, <1>11, <1>12 DEF BookInv
<1> QED
  BY <1>5, <1>13, <1>14 DEF NoneArrives

\* Queueing a limit order behind its level keeps the book sound, provided it
\* is new, later than what rests, and nothing on the other side crosses it.
LEMMA QueueOrder ==
  ASSUME BookInv, NEW o \in Order, o.price \in Price,
         RestsWell(o, o.side, o.price),
         \A side \in Side : \A p \in DOMAIN book[side] : \A i \in DOMAIN book[side][p] :
           /\ book[side][p][i].id # o.id
           /\ book[side][p][i].arrival < o.arrival,
         \A p \in DOMAIN book[Opposite(o.side)] :
           IF o.side = "Buy" THEN o.price < p ELSE p < o.price,
         book' = [book EXCEPT ![o.side] = AddToBook(@, o)],
         UNCHANGED <<clock, submitted>>
  PROVE  BookInv'
<1> DEFINE s   == o.side
           new == AddToBook(book[s], o)
           old == Queue(book[s], o.price)
<1>0. BookTypeOK /\ NoEmptyLevels /\ LevelsSound /\ QueuedByArrival /\ PositionsUnique
      /\ NotCrossed
  BY DEF BookInv
<1>1. /\ s \in Side
      /\ \A side \in Side : book'[side] = IF side = s THEN new ELSE book[side]
      /\ book' = [side \in Side |-> book'[side]]
  BY <1>0 DEF BookTypeOK, Order
<1>2. Extends(new, book[s], old, o)
  <2>1. book[s] \in [DOMAIN book[s] -> Seq(Order)]
    BY <1>0, <1>1 DEF BookTypeOK
  <2> QED
    BY <2>1, AddToBookProperties
<1>3. /\ Len(old) \in Nat
      /\ DOMAIN old = 1..Len(old)
      /\ DOMAIN new[o.price] = 1..(Len(old) + 1)
      /\ old # <<>> => o.price \in DOMAIN book[s] /\ old = book[s][o.price]
      /\ o.price \notin DOMAIN book[s] => Len(old) = 0
  BY <1>2, LenProperties, EmptySeq DEF Queue, Extends
<1> USE DEF Extends
<1> HIDE DEF new, old, s
<1>4. BookTypeOK'
  BY <1>0, <1>1, <1>2 DEF BookTypeOK
\* Each position holds the new order or is an old one.
<1>5. \A side \in Side : \A p \in DOMAIN book'[side] : \A i \in DOMAIN book'[side][p] :
        \/ /\ side = s /\ p = o.price /\ i = Len(old) + 1
           /\ book'[side][p][i] = o
        \/ /\ p \in DOMAIN book[side] /\ i \in DOMAIN book[side][p]
           /\ book'[side][p][i] = book[side][p][i]
           /\ side = s /\ p = o.price => i \in 1..Len(old)
  <2> SUFFICES ASSUME NEW side \in Side, NEW p \in DOMAIN book'[side],
                      NEW i \in DOMAIN book'[side][p]
               PROVE  \/ /\ side = s /\ p = o.price /\ i = Len(old) + 1
                         /\ book'[side][p][i] = o
                      \/ /\ p \in DOMAIN book[side] /\ i \in DOMAIN book[side][p]
                         /\ book'[side][p][i] = book[side][p][i]
                         /\ side = s /\ p = o.price => i \in 1..Len(old)
    OBVIOUS
  <2>1. CASE side = s /\ p = o.price
    <3>1. book'[side][p] = new[o.price] /\ i \in 1..(Len(old) + 1)
      BY <2>1, <1>1, <1>3
    <3>2. CASE i = Len(old) + 1
      BY <2>1, <3>1, <3>2, <1>2
    <3>3. CASE i \in 1..Len(old)
      <4>1. p \in DOMAIN book[side] /\ old = book[side][p]
        BY <2>1, <3>3, <1>3
      <4> QED
        BY <4>1, <3>1, <3>3, <1>2, <1>3
    <3> QED
      BY <3>1, <3>2, <3>3, <1>3
  <2>2. CASE ~(side = s /\ p = o.price)
    BY <2>2, <1>1, <1>2
  <2> QED
    BY <2>1, <2>2
<1>6. NoEmptyLevels'
  BY <1>0, <1>1, <1>2 DEF NoEmptyLevels
<1>7. LevelsSound'
  <2> SUFFICES ASSUME NEW side \in Side, NEW p \in DOMAIN book'[side],
                      NEW i \in DOMAIN book'[side][p]
               PROVE  RestsWell(book[side][p][i], side, p)'
    BY DEF LevelsSound
  <2>1. CASE side = s /\ p = o.price /\ book'[side][p][i] = o
    BY <2>1 DEF RestsWell, s
  <2>2. CASE /\ p \in DOMAIN book[side] /\ i \in DOMAIN book[side][p]
             /\ book'[side][p][i] = book[side][p][i]
    BY <2>2, <1>0 DEF LevelsSound, RestsWell
  <2> QED
    BY <2>1, <2>2, <1>5
<1>8. QueuedByArrival'
  <2> SUFFICES ASSUME NEW side \in Side, NEW p \in DOMAIN book'[side],
                      NEW i \in DOMAIN book'[side][p], NEW j \in DOMAIN book'[side][p],
                      i < j
               PROVE  book'[side][p][i].arrival < book'[side][p][j].arrival
    BY DEF QueuedByArrival
  <2>1. CASE side = s /\ p = o.price
    <3>1. i \in 1..(Len(old) + 1) /\ j \in 1..(Len(old) + 1)
      BY <2>1, <1>1, <1>3
    <3>2. i # Len(old) + 1
      BY <3>1, <1>3
    <3>3. /\ p \in DOMAIN book[side] /\ i \in DOMAIN book[side][p]
          /\ book'[side][p][i] = book[side][p][i]
      BY <3>2, <1>5
    <3>4. CASE book'[side][p][j] = o
      BY <3>3, <3>4
    <3>5. CASE j \in DOMAIN book[side][p] /\ book'[side][p][j] = book[side][p][j]
      BY <3>3, <3>5, <1>0 DEF QueuedByArrival
    <3> QED
      BY <3>4, <3>5, <1>5
  <2>2. CASE ~(side = s /\ p = o.price)
    BY <2>2, <1>0, <1>5 DEF QueuedByArrival
  <2> QED
    BY <2>1, <2>2
<1>9. PositionsUnique'
  <2> SUFFICES ASSUME NEW s1 \in Side, NEW s2 \in Side,
                      NEW p \in DOMAIN book'[s1], NEW q \in DOMAIN book'[s2],
                      NEW i \in DOMAIN book'[s1][p], NEW j \in DOMAIN book'[s2][q],
                      book'[s1][p][i].id = book'[s2][q][j].id
               PROVE  s1 = s2 /\ p = q /\ i = j
    BY DEF PositionsUnique
  <2> QED
    BY <1>0, <1>5 DEF PositionsUnique
<1>10. NotCrossed'
  <2> SUFFICES ASSUME NEW bid \in DOMAIN book'["Buy"], NEW ask \in DOMAIN book'["Sell"]
               PROVE  bid < ask
    BY DEF NotCrossed
  <2>1. CASE s = "Buy"
    BY <2>1, <1>0, <1>1, <1>2 DEF NotCrossed, Side, Opposite, s
  <2>2. CASE s = "Sell"
    BY <2>2, <1>0, <1>1, <1>2 DEF NotCrossed, Side, Opposite, s
  <2> QED
    BY <2>1, <2>2, <1>1 DEF Side
<1> QED
  BY <1>4, <1>6, <1>7, <1>8, <1>9, <1>10 DEF BookInv

\* The book's invariant survives a step that only accepts a new order.
LEMMA BookUntouched ==
  ASSUME BookInv, UNCHANGED book, submitted \subseteq submitted',
         clock \in Nat, clock' \in Nat, clock <= clock'
  PROVE  BookInv'
<1>0. BookTypeOK /\ NoEmptyLevels /\ LevelsSound /\ QueuedByArrival /\ PositionsUnique
      /\ NotCrossed
  BY DEF BookInv
<1>1. BookTypeOK'
  BY <1>0 DEF BookTypeOK
<1>2. \A side \in Side : \A p \in DOMAIN book[side] : \A i \in DOMAIN book[side][p] :
        book[side][p][i].arrival \in Nat
  <2>1. \A side \in Side : \A p \in DOMAIN book[side] : book[side][p] \in Seq(Order)
    BY <1>0 DEF BookTypeOK
  <2>2. \A side \in Side : \A p \in DOMAIN book[side] : \A i \in DOMAIN book[side][p] :
          book[side][p][i] \in Order
    BY <2>1, LenProperties, ElementOfSeq
  <2> QED
    BY <2>2 DEF Order
<1>3. LevelsSound'
  BY <1>0, <1>2 DEF LevelsSound, RestsWell
<1>4. NoEmptyLevels' /\ QueuedByArrival' /\ PositionsUnique' /\ NotCrossed'
  BY <1>0 DEF NoEmptyLevels, QueuedByArrival, PositionsUnique, NotCrossed
<1> QED
  BY <1>1, <1>3, <1>4 DEF BookInv

-------------------------------------------------------------------------------
\* One lemma per action.

\* An order some quantity of which trades.
LEMMA FilledProperties ==
  ASSUME NEW o \in Order, NEW q \in Nat, q <= o.remaining_quantity
  PROVE  /\ Filled(o, q) \in Order
         /\ Filled(o, q).remaining_quantity = o.remaining_quantity - q
         /\ Filled(o, q).status =
              IF o.remaining_quantity = q THEN "Filled" ELSE "PartiallyFilled"
         /\ Filled(o, q).id = o.id
         /\ Filled(o, q).side = o.side
         /\ Filled(o, q).type = o.type
         /\ Filled(o, q).price = o.price
         /\ Filled(o, q).quantity = o.quantity
         /\ Filled(o, q).arrival = o.arrival
<1> DEFINE st == IF o.remaining_quantity = q THEN "Filled" ELSE "PartiallyFilled"
           f  == [o EXCEPT !.remaining_quantity = o.remaining_quantity - q, !.status = st]
<1>1. Filled(o, q) = f
  BY DEF Filled
<1>2. st \in OrderStatus
  BY DEF OrderStatus
<1>3. o.remaining_quantity - q \in Nat
  BY DEF Order
<1> HIDE DEF st
<1>4. f \in Order
  BY <1>2, <1>3 DEF Order
<1>5. /\ f.remaining_quantity = o.remaining_quantity - q
      /\ f.status = st
      /\ f.id = o.id /\ f.side = o.side /\ f.type = o.type /\ f.price = o.price
      /\ f.quantity = o.quantity /\ f.arrival = o.arrival
  BY DEF Order
<1> HIDE DEF f
<1> QED
  BY <1>1, <1>4, <1>5 DEF st

\* The queue of a level after its first order traded.
LEMMA HeadTrades ==
  ASSUME BookInv, NEW s \in Side, NEW price \in DOMAIN book[s],
         NEW qty \in Nat, qty > 0, qty <= Head(book[s][price]).remaining_quantity,
         NEW maker, maker = Filled(Head(book[s][price]), qty),
         book' = [book EXCEPT ![s] = AfterTrade(@, price, maker)],
         UNCHANGED <<clock, submitted>>
  PROVE  BookInv' /\ NoneArrives
<1> DEFINE q    == book[s][price]
           head == Head(q)
<1>1. q \in Seq(Order) /\ q # <<>>
  BY DEF BookInv, BookTypeOK, NoEmptyLevels
<1>2. /\ head = q[1] /\ head \in Order
      /\ Len(q) \in Nat /\ Len(q) > 0
      /\ DOMAIN q = 1..Len(q)
  BY <1>1, LenProperties, HeadTailProperties, EmptySeq
<1>3. RestsWell(head, s, price)
  BY <1>2 DEF BookInv, LevelsSound
<1> HIDE DEF q, head
<1>4. /\ maker \in Order
      /\ maker.remaining_quantity = head.remaining_quantity - qty
      /\ maker.id = head.id /\ maker.arrival = head.arrival
      /\ maker.remaining_quantity # 0 => RestsWell(maker, s, price)
  <2>1. maker = Filled(head, qty) /\ qty <= head.remaining_quantity
    BY DEF q, head
  <2>2. /\ head.remaining_quantity \in Nat /\ head.quantity \in Nat
    BY <1>2 DEF Order
  <2>3. /\ maker \in Order
        /\ maker.remaining_quantity = head.remaining_quantity - qty
        /\ maker.status =
             IF head.remaining_quantity = qty THEN "Filled" ELSE "PartiallyFilled"
        /\ maker.id = head.id /\ maker.side = head.side /\ maker.type = head.type
        /\ maker.price = head.price /\ maker.quantity = head.quantity
        /\ maker.arrival = head.arrival
    BY <2>1, <1>2, FilledProperties
  <2> QED
    BY <2>2, <2>3, <2>1, <1>3 DEF RestsWell
<1>5. CASE maker.remaining_quantity = 0
  <2> DEFINE e == [j \in 1..(Len(q) - 1) |-> j + 1]
  <2>1. /\ Tail(q) \in Seq(Order)
        /\ Len(Tail(q)) = Len(q) - 1
        /\ \A j \in 1..(Len(q) - 1) : Tail(q)[j] = q[j + 1]
    BY <1>1, HeadTailProperties
  <2>2. \A j \in 1..(Len(q) - 1) : j + 1 \in DOMAIN q
    BY <1>2
  <2>3. \A j \in 1..(Len(q) - 1) : RestsWell(q[j + 1], s, price)
    BY <2>2 DEF BookInv, LevelsSound, q
  <2>4. Embeds(e, Tail(q), s, price)
    BY <1>2, <2>1, <2>2, <2>3 DEF Embeds, q
  <2>5. book' = [book EXCEPT ![s] = SetLevel(@, price, Tail(q))]
    BY <1>5 DEF AfterTrade, q
  <2> HIDE DEF e
  <2> QED
    BY <2>1, <2>4, <2>5, ShrinkQueue
<1>6. CASE maker.remaining_quantity # 0
  <2> DEFINE e  == [j \in 1..Len(q) |-> j]
             nq == [q EXCEPT ![1] = maker]
  <2>1. /\ nq \in Seq(Order)
        /\ Len(nq) = Len(q)
        /\ \A j \in 1..Len(q) : nq[j] = IF j = 1 THEN maker ELSE q[j]
    BY <1>1, <1>2, <1>4, ExceptSeq
  <2>2. \A j \in 1..Len(q) : RestsWell(q[j], s, price)
    BY <1>2 DEF BookInv, LevelsSound, q
  <2>3. book' = [book EXCEPT ![s] = SetLevel(@, price, nq)]
    BY <1>6 DEF AfterTrade, q
  <2> HIDE DEF nq
  <2>4. Embeds(e, nq, s, price)
    BY <1>2, <1>4, <1>6, <2>1, <2>2 DEF Embeds, q
  <2> HIDE DEF e
  <2> QED
    BY <2>1, <2>3, <2>4, ShrinkQueue
<1> QED
  BY <1>5, <1>6

\* Orders that do not arrive do not carry the taker's id and are not later.
LEMMA TakerApart ==
  ASSUME NoneArrives, NEW id, id \notin RestingIds
  PROVE  id \notin RestingIds'
<1> SUFFICES ASSUME id \in RestingIds' PROVE FALSE
  OBVIOUS
<1>1. PICK side \in Side :
        \E p \in DOMAIN book'[side] : \E i \in DOMAIN book'[side][p] :
          book'[side][p][i].id = id
  <2>1. PICK o \in Resting' : o.id = id
    BY DEF RestingIds
  <2>2. \E side \in Side : \E p \in DOMAIN book'[side] : \E i \in DOMAIN book'[side][p] :
          o = book'[side][p][i]
    BY DEF Resting, Range
  <2> QED
    BY <2>1, <2>2
<1> PICK p \in DOMAIN book'[side] : \E i \in DOMAIN book'[side][p] : book'[side][p][i].id = id
  BY <1>1
<1> PICK i \in DOMAIN book'[side][p] : book'[side][p][i].id = id
  OBVIOUS
<1>2. PICK k \in DOMAIN book[side][p] : book'[side][p][i].id = book[side][p][k].id
  BY DEF NoneArrives
<1>3. p \in DOMAIN book[side]
  BY DEF NoneArrives
<1> QED
  BY <1>2, <1>3, TakerNotResting

\* Appending a trade with the id the counter had keeps the log sorted.
LEMMA LogGrows ==
  ASSUME TradeIdsGrow, tradeLog \in Seq(Trade), trade_id_counter \in Nat,
         NEW trade \in Trade, trade.trade_id = trade_id_counter,
         tradeLog' = Append(tradeLog, trade),
         trade_id_counter' = trade_id_counter + 1
  PROVE  TradeIdsGrow'
<1>1. /\ Len(tradeLog) \in Nat
      /\ DOMAIN tradeLog = 1..Len(tradeLog)
      /\ DOMAIN tradeLog' = 1..(Len(tradeLog) + 1)
      /\ \A i \in 1..Len(tradeLog) : tradeLog'[i] = tradeLog[i]
      /\ tradeLog'[Len(tradeLog) + 1] = trade
  BY AppendProperties, LenProperties
<1>2. \A i \in 1..Len(tradeLog) :
        tradeLog[i].trade_id \in Nat /\ tradeLog[i].trade_id < trade_id_counter
  <2>1. \A i \in 1..Len(tradeLog) : tradeLog[i] \in Trade
    BY ElementOfSeq
  <2> QED
    BY <1>1, <2>1 DEF TradeIdsGrow, Trade
<1>3. \A i \in DOMAIN tradeLog' : tradeLog'[i].trade_id < trade_id_counter'
  BY <1>1, <1>2
<1>4. ASSUME NEW i \in DOMAIN tradeLog', NEW j \in DOMAIN tradeLog', i < j
      PROVE  tradeLog'[i].trade_id < tradeLog'[j].trade_id
  <2>1. i \in 1..Len(tradeLog)
    BY <1>1, <1>4
  <2>2. CASE j = Len(tradeLog) + 1
    BY <2>1, <2>2, <1>1, <1>2
  <2>3. CASE j \in 1..Len(tradeLog)
    BY <2>1, <2>3, <1>1, <1>4 DEF TradeIdsGrow
  <2> QED
    BY <2>2, <2>3, <1>1
<1> QED
  BY <1>3, <1>4 DEF TradeIdsGrow

\* A trade of two orders is a trade, with the id that was drawn.
LEMMA TradeBetweenType ==
  ASSUME NEW tid \in Nat, NEW taker \in Order, NEW maker \in Order,
         NEW price \in Nat, NEW q \in Nat
  PROVE  /\ TradeBetween(tid, taker, maker, price, q) \in Trade
         /\ TradeBetween(tid, taker, maker, price, q).trade_id = tid
BY DEF TradeBetween, ExecuteTrade, Trade, Order

\* Accepting an order with a fresh id, later than all that rest.
LEMMA AddOrderPreserves ==
  ASSUME IInv, NEW id \in FreshId, NEW stamp \in Stamp,
         NEW order \in ValidOrder(id, stamp), AddOrder(order)
  PROVE  IInv'
<1>1. /\ order \in Order /\ order.id = id /\ order.quantity > 0
      /\ order.remaining_quantity = order.quantity /\ order.status = "Active"
      /\ order.type = "Limit" => order.price \in Price
  BY ValidOrderProperties DEF FreshId
<1>2. /\ incoming = NoOrder /\ id \notin submitted
      /\ submitted' = submitted \cup {id}
      /\ clock' = clock + 1
      /\ incoming' = [order EXCEPT !.timestamp = IF @ = Unset THEN clock' ELSE @,
                                   !.arrival   = clock']
      /\ UNCHANGED <<book, trades, tradeLog, trade_id_counter>>
  BY <1>1 DEF AddOrder, FreshId
<1>3. BookInv /\ clock \in Nat /\ clock' \in Nat /\ submitted \in SUBSET OrderId
  BY <1>2 DEF IInv
<1>4. BookInv'
  BY <1>2, <1>3, BookUntouched
<1>5. /\ incoming' \in Order
      /\ incoming'.id = id /\ incoming'.quantity = order.quantity
      /\ incoming'.remaining_quantity = order.remaining_quantity
      /\ incoming'.status = order.status /\ incoming'.type = order.type
      /\ incoming'.price = order.price /\ incoming'.arrival = clock'
  BY <1>1, <1>2, <1>3 DEF Order
<1>6. \A side \in Side : \A p \in DOMAIN book[side] : \A i \in DOMAIN book[side][p] :
        /\ book[side][p][i].arrival \in Nat
        /\ book[side][p][i].arrival <= clock
        /\ book[side][p][i].id \in submitted
  <2>1. \A side \in Side : \A p \in DOMAIN book[side] : book[side][p] \in Seq(Order)
    BY <1>3 DEF BookInv, BookTypeOK
  <2>2. \A side \in Side : \A p \in DOMAIN book[side] : \A i \in DOMAIN book[side][p] :
          book[side][p][i] \in Order
    BY <2>1, LenProperties, ElementOfSeq
  <2> QED
    BY <2>2, <1>3 DEF BookInv, LevelsSound, RestsWell, Order
<1>7. \A side \in Side : \A p \in DOMAIN book[side] : \A i \in DOMAIN book[side][p] :
        book[side][p][i].id # id /\ book[side][p][i].arrival < clock'
  BY <1>2, <1>3, <1>6
<1>8. TakerSound'
  <2>1. order.quantity \in Nat
    BY <1>1 DEF Order
  <2> QED
    BY <2>1, <1>1, <1>2, <1>5, <1>7 DEF TakerSound
<1>9. incoming'.id \notin RestingIds'
  <2>1. id \notin RestingIds
    BY <1>7, TakerNotResting
  <2>2. RestingIds' = RestingIds
    BY <1>2 DEF RestingIds, Resting
  <2> QED
    BY <2>1, <2>2, <1>5
<1>10. /\ TradeIdsGrow'
       /\ trades' \in Seq(Trade) /\ tradeLog' \in Seq(Trade)
       /\ trade_id_counter' \in Nat /\ submitted' \in SUBSET OrderId
  BY <1>2 DEF IInv, TradeIdsGrow, FreshId
<1> QED
  BY <1>3, <1>4, <1>5, <1>8, <1>9, <1>10 DEF IInv

\* One trade of the matching loop: the maker is the front of the best level,
\* which exists because the level is not empty.
LEMMA MatchPreserves ==
  ASSUME IInv, NEW side \in Side, MatchOne(side)
  PROVE  IInv'
<1> DEFINE other == Opposite(side)
<1>1. /\ incoming \in Order /\ incoming # NoOrder /\ incoming.side = side
      /\ incoming.remaining_quantity \in Nat /\ incoming.remaining_quantity > 0
      /\ incoming.quantity \in Nat /\ incoming.remaining_quantity <= incoming.quantity
      /\ other \in Side
      /\ UNCHANGED <<clock, submitted>>
  BY DEF MatchOne, IInv, TakerSound, Order, Opposite, Side
<1>2. PICK price \in MatchablePrices(incoming) :
        LET maker      == Head(book[other][price])
            executeQty == MinQty(incoming.remaining_quantity, maker.remaining_quantity)
            trade      == TradeBetween(trade_id_counter, incoming, maker, price, executeQty)
        IN  /\ trades' = Append(trades, trade)
            /\ tradeLog' = Append(tradeLog, trade)
            /\ GenerateTradeId
            /\ incoming' = Filled(incoming, executeQty)
            /\ book' = [book EXCEPT
                 ![other] = AfterTrade(@, price, Filled(maker, executeQty))]
  BY DEF MatchOne
<1> DEFINE maker == Head(book[other][price])
           qty   == MinQty(incoming.remaining_quantity, maker.remaining_quantity)
           trade == TradeBetween(trade_id_counter, incoming, maker, price, qty)
<1>3. price \in DOMAIN book[other] /\ price \in Nat
  BY <1>1 DEF MatchablePrices, IInv, BookInv, BookTypeOK, Price
<1>4. /\ maker \in Order
      /\ maker.remaining_quantity \in Nat /\ maker.remaining_quantity > 0
  <2>1. book[other][price] \in Seq(Order) /\ book[other][price] # <<>>
    BY <1>1, <1>3 DEF IInv, BookInv, BookTypeOK, NoEmptyLevels
  <2>2. /\ maker = book[other][price][1] /\ maker \in Order
        /\ 1 \in DOMAIN book[other][price]
    BY <2>1, LenProperties, HeadTailProperties, EmptySeq
  <2>3. RestsWell(maker, other, price)
    BY <2>2, <1>1, <1>3 DEF IInv, BookInv, LevelsSound
  <2> QED
    BY <2>2, <2>3 DEF RestsWell, Order
<1>5. /\ qty \in Nat /\ qty > 0
      /\ qty <= incoming.remaining_quantity /\ qty <= maker.remaining_quantity
  BY <1>1, <1>4 DEF MinQty
<1>6. trade \in Trade /\ trade.trade_id = trade_id_counter
  <2> HIDE DEF maker, qty
  <2>1. trade_id_counter \in Nat /\ incoming \in Order /\ maker \in Order
        /\ price \in Nat /\ qty \in Nat
    BY <1>1, <1>3, <1>4, <1>5 DEF IInv
  <2>2. \A tid, q, p \in Nat : \A taker, m \in Order :
          /\ TradeBetween(tid, taker, m, p, q) \in Trade
          /\ TradeBetween(tid, taker, m, p, q).trade_id = tid
    BY TradeBetweenType
  <2> QED
    BY <2>1, <2>2
<1>7. /\ trades' = Append(trades, trade)
      /\ tradeLog' = Append(tradeLog, trade)
      /\ trade_id_counter' = trade_id_counter + 1
      /\ incoming' = Filled(incoming, qty)
      /\ book' = [book EXCEPT ![other] = AfterTrade(@, price, Filled(maker, qty))]
  BY <1>2 DEF GenerateTradeId
<1>8. BookInv' /\ NoneArrives
  BY <1>1, <1>3, <1>5, <1>7, HeadTrades DEF IInv
<1> HIDE DEF maker, qty, trade, other
<1>9. /\ incoming' \in Order
      /\ incoming'.remaining_quantity = incoming.remaining_quantity - qty
      /\ incoming'.status =
           IF incoming.remaining_quantity = qty THEN "Filled" ELSE "PartiallyFilled"
      /\ incoming'.id = incoming.id /\ incoming'.type = incoming.type
      /\ incoming'.price = incoming.price /\ incoming'.quantity = incoming.quantity
      /\ incoming'.arrival = incoming.arrival
  BY <1>1, <1>5, <1>7, FilledProperties
<1>10. TakerSound'
  <2>1. \A s \in Side : \A p \in DOMAIN book'[s] : \A i \in DOMAIN book'[s][p] :
          book'[s][p][i].arrival < clock'
    BY <1>1, <1>8 DEF NoneArrives, IInv, TakerSound
  <2> QED
    BY <2>1, <1>1, <1>5, <1>9 DEF IInv, TakerSound
<1>11. incoming'.id \notin RestingIds'
  BY <1>1, <1>8, <1>9, TakerApart DEF IInv
<1>12. trades' \in Seq(Trade) /\ tradeLog' \in Seq(Trade)
  BY <1>6, <1>7, AppendProperties DEF IInv
<1>13. TradeIdsGrow' /\ trade_id_counter' \in Nat
  BY <1>6, <1>7, LogGrows DEF IInv
<1> QED
  BY <1>1, <1>8, <1>9, <1>10, <1>11, <1>12, <1>13 DEF IInv

\* A remainder that rests: the loop has ended, so no level of the other side
\* crosses its price.
LEMMA RestPreserves ==
  ASSUME IInv, RestOrder
  PROVE  IInv'
<1> DEFINE o == incoming
<1>1. /\ o \in Order /\ o # NoOrder /\ o.type = "Limit" /\ o.remaining_quantity > 0
      /\ o.price \in Price
      /\ incoming' = NoOrder
      /\ book' = [book EXCEPT ![o.side] = AddToBook(@, o)]
      /\ trades' = <<>>
      /\ UNCHANGED <<tradeLog, trade_id_counter, clock, submitted>>
  BY DEF RestOrder, MatchingDone, IInv, TakerSound
<1>2. MatchablePrices(o) = {}
  BY <1>1 DEF RestOrder, MatchingDone
<1>3. /\ o.side \in Side /\ Opposite(o.side) \in Side
      /\ o.price \in Nat /\ o.quantity \in Nat /\ o.remaining_quantity \in Nat
  BY <1>1 DEF Order, Opposite, Side
\* The best price of the other side does not cross, so no price does.
<1>4. \A p \in DOMAIN book[Opposite(o.side)] :
        IF o.side = "Buy" THEN o.price < p ELSE p < o.price
  <2> DEFINE levels == DOMAIN book[Opposite(o.side)]
  <2>1. levels \subseteq Price
    BY <1>3 DEF IInv, BookInv, BookTypeOK
  <2> SUFFICES ASSUME NEW p \in levels
               PROVE  IF o.side = "Buy" THEN o.price < p ELSE p < o.price
    OBVIOUS
  <2>2. PICK best \in levels : IsBest(Opposite(o.side), best)
    BY <1>3, <2>1, BestExists
  <2>3. ~Accepts(o, best)
    BY <1>2, <2>2 DEF MatchablePrices
  <2>4. best = p \/ BetterPrice(Opposite(o.side), best, p)
    BY <2>2 DEF IsBest
  <2>5. p \in Nat /\ best \in Nat
    BY <2>1 DEF Price
  <2> QED
    BY <1>1, <1>3, <2>3, <2>4, <2>5
    DEF Accepts, PricesCross, BetterPrice, Opposite, Side
<1>5. RestsWell(o, o.side, o.price)
  BY <1>1, <1>3 DEF IInv, TakerSound, RestsWell
<1>6. \A s \in Side : \A p \in DOMAIN book[s] : \A i \in DOMAIN book[s][p] :
        book[s][p][i].id # o.id /\ book[s][p][i].arrival < o.arrival
  BY <1>1, TakerNotResting DEF IInv, TakerSound
<1>7. BookInv'
  BY <1>1, <1>4, <1>5, <1>6, QueueOrder DEF IInv
<1> QED
  BY <1>1, <1>7, EmptySeq DEF IInv, TakerSound, TradeIdsGrow

\* Cancelling takes one order out of its queue, and the level with the last.
LEMMA CancelPreserves ==
  ASSUME IInv, NEW id \in OrderId, CancelOrder(id)
  PROVE  IInv'
<1>1. /\ incoming = NoOrder
      /\ UNCHANGED <<incoming, trades, tradeLog, trade_id_counter, clock, submitted>>
  BY DEF CancelOrder
<1>2. PICK side \in Side : \E price \in DOMAIN book[side] :
        \E i \in DOMAIN book[side][price] :
          book' = [book EXCEPT ![side] = SetLevel(@, price, RemoveAt(@[price], i))]
  BY DEF CancelOrder
<1>3. PICK price \in DOMAIN book[side] :
        \E i \in DOMAIN book[side][price] :
          book' = [book EXCEPT ![side] = SetLevel(@, price, RemoveAt(@[price], i))]
  BY <1>2
<1> DEFINE q == book[side][price]
<1>4. PICK i \in DOMAIN q :
        book' = [book EXCEPT ![side] = SetLevel(@, price, RemoveAt(q, i))]
  BY <1>3
<1>5. q \in Seq(Order) /\ Len(q) \in Nat /\ DOMAIN q = 1..Len(q)
  BY LenProperties DEF IInv, BookInv, BookTypeOK
<1>6. \A j \in 1..Len(q) : RestsWell(q[j], side, price)
  BY <1>5 DEF IInv, BookInv, LevelsSound
<1> DEFINE nq == RemoveAt(q, i)
           e  == [j \in 1..(Len(q) - 1) |-> IF j < i THEN j ELSE j + 1]
<1>7. /\ nq \in Seq(Order)
      /\ Len(nq) = Len(q) - 1
      /\ \A j \in 1..(Len(q) - 1) : nq[j] = IF j < i THEN q[j] ELSE q[j + 1]
  BY <1>5, RemoveAtProperties
<1> HIDE DEF nq
<1>8. Embeds(e, nq, side, price)
  <2> HIDE DEF q
  <2>1. /\ i \in 1..Len(q)
        /\ e \in [1..Len(nq) -> 1..Len(q)]
        /\ \A j, k \in 1..Len(nq) : j < k => e[j] < e[k]
        /\ \A j \in 1..Len(nq) : e[j] = IF j < i THEN j ELSE j + 1
    BY <1>5, <1>7
  <2>2. \A j \in 1..Len(nq) : nq[j] = q[e[j]]
    BY <2>1, <1>7
  <2>3. \A j \in 1..Len(nq) : RestsWell(nq[j], side, price)
    BY <2>1, <2>2, <1>6
  <2> HIDE DEF e
  <2> QED
    BY <2>1, <2>2, <2>3 DEF Embeds, q
<1>9. BookInv'
  <2> HIDE DEF e
  <2> QED
    BY <1>1, <1>4, <1>7, <1>8, ShrinkQueue DEF IInv, nq
<1> QED
  BY <1>1, <1>9 DEF IInv, TakerSound, TradeIdsGrow

\* An empty book and an empty log are sound.
LEMMA ClearPreserves ==
  ASSUME IInv, Clear
  PROVE  IInv'
<1>1. /\ incoming = NoOrder
      /\ book' = [side \in Side |-> EmptyLevels]
      /\ tradeLog' = <<>>
      /\ UNCHANGED <<incoming, trades, trade_id_counter, clock, submitted>>
  BY DEF Clear
<1>2. BookInv'
  BY <1>1 DEF BookInv, BookTypeOK, NoEmptyLevels, LevelsSound, QueuedByArrival,
              PositionsUnique, NotCrossed, EmptyLevels, Side
<1>3. tradeLog' \in Seq(Trade) /\ TradeIdsGrow'
  BY <1>1, EmptySeq DEF TradeIdsGrow
<1> QED
  BY <1>1, <1>2, <1>3 DEF IInv, TakerSound

\* Steps that leave the book and the log alone.
LEMMA OtherwisePreserves ==
  ASSUME IInv, DropOrder \/ DrawTradeId \/ UNCHANGED vars
  PROVE  IInv'
<1>1. /\ UNCHANGED <<book, tradeLog, clock, submitted>>
      /\ incoming' \in {incoming, NoOrder}
      /\ trades' \in {trades, <<>>}
      /\ trade_id_counter' \in {trade_id_counter, trade_id_counter + 1}
  BY DEF DropOrder, DrawTradeId, GenerateTradeId, vars
<1>2. BookInv'
  BY <1>1, BookUntouched DEF IInv
<1>3. /\ TakerSound'
      /\ incoming' # NoOrder => incoming'.id \notin RestingIds'
  BY <1>1 DEF IInv, TakerSound, RestingIds, Resting
<1>4. TradeIdsGrow'
  <2>1. tradeLog \in Seq(Trade) /\ DOMAIN tradeLog = 1..Len(tradeLog)
    BY LenProperties DEF IInv
  <2>2. \A i \in DOMAIN tradeLog : tradeLog[i] \in Trade
    BY <2>1, ElementOfSeq
  <2>3. \A i \in DOMAIN tradeLog : tradeLog[i].trade_id \in Nat
    BY <2>2 DEF Trade
  <2> QED
    BY <1>1, <2>3 DEF IInv, TradeIdsGrow
<1>5. trades' \in Seq(Trade)
  BY <1>1, EmptySeq DEF IInv
<1> QED
  BY <1>1, <1>2, <1>3, <1>4, <1>5 DEF IInv

-------------------------------------------------------------------------------

\* A new book satisfies the inductive invariant ...
LEMMA InitInv == Init => IInv
<1> SUFFICES ASSUME Init PROVE IInv
  OBVIOUS
<1>1. BookInv
  BY DEF Init, BookInv, BookTypeOK, NoEmptyLevels, LevelsSound, QueuedByArrival,
         PositionsUnique, NotCrossed, EmptyLevels, Side
<1> QED
  BY <1>1, EmptySeq DEF Init, IInv, TakerSound, TradeIdsGrow

\* ... and every step keeps it.
LEMMA NextInv == IInv /\ [Next]_vars => IInv'
<1> SUFFICES ASSUME IInv, [Next]_vars PROVE IInv'
  OBVIOUS
<1>1. ASSUME NEW id \in FreshId, NEW stamp \in Stamp,
             NEW order \in ValidOrder(id, stamp), AddOrder(order)
      PROVE  IInv'
  BY <1>1, AddOrderPreserves
<1>2. ASSUME MatchBuyOrder \/ MatchSellOrder PROVE IInv'
  BY <1>2, MatchPreserves DEF MatchBuyOrder, MatchSellOrder, Side
<1>3. ASSUME RestOrder PROVE IInv'
  BY <1>3, RestPreserves
<1>4. ASSUME NEW id \in OrderId, CancelOrder(id) PROVE IInv'
  BY <1>4, CancelPreserves
<1>5. ASSUME Clear PROVE IInv'
  BY <1>5, ClearPreserves
<1>6. ASSUME DropOrder \/ DrawTradeId \/ UNCHANGED vars PROVE IInv'
  BY <1>6, OtherwisePreserves
<1> QED
  BY <1>1, <1>2, <1>3, <1>4, <1>5, <1>6 DEF Next

\* The inductive invariant holds of every state the book can reach, whatever
\* orders are submitted, cancelled or cleared.
THEOREM Invariance == Spec => []IInv
  BY InitInv, NextInv, PTL DEF Spec

\* The values of all variables are those the code's types allow; remaining
\* quantities never go negative.
THEOREM TypeCorrect == Spec => []TypeOK
  BY Invariance, InvMeaning, PTL

\* No run of the matching loop ever meets a price level without an order.
THEOREM FrontIsDefined == Spec => []NoEmptyLevels
  BY Invariance, InvMeaning, PTL

\* Every resting order and the taker are what their level, status and
\* quantities say.
THEOREM OrdersAreSound == Spec => []OrdersSound
  BY Invariance, InvMeaning, PTL

\* Bids stay below asks, at every step of every matching loop.
THEOREM BookNotCrossed == Spec => []NotCrossed
  BY Invariance, InvMeaning, PTL

\* Time priority by lock order: every queue is in arrival order.
THEOREM QueuesAreFair == Spec => []QueuedByArrival
  BY Invariance, InvMeaning, PTL

\* cancelOrder's search has at most one order to find.
THEOREM IdsStayUnique == Spec => []IdsUnique
  BY Invariance, InvMeaning, PTL

\* The log is sorted by trade id whoever else draws ids.
THEOREM LogIsSorted == Spec => []TradeIdsGrow
  BY Invariance, InvMeaning, PTL

===============================================================================
