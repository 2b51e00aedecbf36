--------------------------- MODULE TradingServerBook ---------------------------
(***************************************************************************)
(* The handlers of the server use the book as its specification says       *)
(* (UsesTheBook): what OrderBookProofs and OrderBookAccounts prove about   *)
(* the engine holds in the server, whatever runs at once.                  *)
(***************************************************************************)
EXTENDS TradingServer, TLAPS

-------------------------------------------------------------------------------
\* Orders on their way to the book.

\* Orders that have an id of their own and have not been submitted.
Drawn == {"drawn", "ready"}

\* What a handler or a worker has in its hands.
InFlight(q) ==
  /\ pc[q] = "stamped" => \E stamp \in Stamp : order[q] \in ValidOrder(0, stamp)
  /\ pc[q] = "drawn" => order[q] \in ValidOrder(order[q].id, Unset)
  /\ pc[q] = "ready" => \E stamp \in Stamp : order[q] \in ValidOrder(order[q].id, stamp)
  /\ pc[q] \in Drawn => order[q].id \in OrderId /\ order[q].id \in 1 .. order_id_counter - 1

\* No id is in two hands, or in the book already.
IdsApart ==
  /\ submitted \subseteq 1 .. order_id_counter - 1
  /\ \A q \in Thread : pc[q] \in Drawn => order[q].id \notin submitted
  /\ \A p, q \in Thread :
       p # q /\ pc[p] \in Drawn /\ pc[q] \in Drawn => order[p].id # order[q].id

FlightInv ==
  /\ order_id_counter \in Nat \ {0}
  /\ now \in Stamp \cup {0}
  /\ DOMAIN pc = Thread /\ DOMAIN order = Thread
  /\ \A q \in Thread : InFlight(q)
  /\ IdsApart

LEMMA ValidOrderFields ==
  ASSUME NEW id, NEW stamp, NEW o \in ValidOrder(id, stamp)
  PROVE  /\ o.id = id /\ o.timestamp = stamp
         /\ \A n : [o EXCEPT !.id = n] \in ValidOrder(n, stamp)
         /\ \A t : [o EXCEPT !.timestamp = t] \in ValidOrder(id, t)
BY DEF ValidOrder, NewOrder

\* A step that draws no id, and after which nobody has an order in hand who
\* had none before.
LEMMA NothingTakesOff ==
  ASSUME FlightInv,
         order_id_counter' \in Nat, order_id_counter' >= order_id_counter,
         now' = now, submitted' = submitted,
         DOMAIN pc' = Thread, DOMAIN order' = Thread,
         \A q \in Thread : pc'[q] \in Drawn \cup {"stamped"} =>
                             pc[q] = pc'[q] /\ order[q] = order'[q]
  PROVE  FlightInv'
<1> USE DEF FlightInv
<1>1. \A q \in Thread : InFlight(q)'
  BY DEF InFlight, Drawn
<1>2. IdsApart'
  BY DEF IdsApart, Drawn
<1> QED
  BY <1>1, <1>2

LEMMA StampOrderFlies ==
  ASSUME FlightInv, NEW r \in Request, StampOrder(r)
  PROVE  FlightInv'
<1> USE DEF FlightInv
<1>1. /\ r \in Thread /\ pc' = [pc EXCEPT ![r] = "stamped"]
      /\ order_id_counter' = order_id_counter /\ submitted' = submitted
  BY DEF StampOrder, Goto, Thread, bookVars
<1>2. now' = Now /\ Now \in Stamp
  BY ClockAssumption DEF StampOrder, Now
<1>3. PICK o \in ValidOrder(0, now') : order' = [order EXCEPT ![r] = o]
  BY DEF StampOrder
<1>4. \A q \in Thread : InFlight(q)'
  BY <1>1, <1>2, <1>3 DEF InFlight, Drawn
<1>5. IdsApart'
  BY <1>1, <1>3 DEF IdsApart, Drawn
<1> QED
  BY <1>1, <1>2, <1>3, <1>4, <1>5

LEMMA DrawOrderIdFlies ==
  ASSUME FlightInv, NEW r \in Request, DrawOrderId(r)
  PROVE  FlightInv'
<1> USE DEF FlightInv
<1>1. /\ r \in Thread /\ pc[r] = "stamped" /\ pc' = [pc EXCEPT ![r] = "ready"]
      /\ order_id_counter \in OrderId
      /\ order_id_counter' = order_id_counter + 1
      /\ order' = [order EXCEPT ![r].id = order_id_counter]
      /\ submitted' = submitted /\ now' = now
  BY DEF DrawOrderId, Goto, Thread, bookVars
<1>2. PICK stamp \in Stamp : order[r] \in ValidOrder(0, stamp)
  BY <1>1 DEF InFlight
<1>3. /\ order'[r] \in ValidOrder(order_id_counter, stamp)
      /\ order'[r].id = order_id_counter
  BY <1>1, <1>2, ValidOrderFields
<1>4. \A q \in Thread \ {r} : pc'[q] = pc[q] /\ order'[q] = order[q]
  BY <1>1
<1>5. \A q \in Thread : InFlight(q)'
  BY <1>1, <1>3, <1>4 DEF InFlight, Drawn
<1>6. IdsApart'
  BY <1>1, <1>3, <1>4 DEF IdsApart, InFlight, Drawn
<1> QED
  BY <1>1, <1>5, <1>6

LEMMA ConstructOrderFlies ==
  ASSUME FlightInv, NEW w \in Worker, ConstructOrder(w)
  PROVE  FlightInv'
<1> USE DEF FlightInv
<1>1. /\ w \in Thread /\ pc' = [pc EXCEPT ![w] = "drawn"]
      /\ order_id_counter \in OrderId
      /\ order_id_counter' = order_id_counter + 1
      /\ submitted' = submitted /\ now' = now
  BY DEF ConstructOrder, Goto, Thread, bookVars
<1>2. PICK o \in ValidOrder(order_id_counter, Unset) : order' = [order EXCEPT ![w] = o]
  BY DEF ConstructOrder
<1>3. o.id = order_id_counter
  BY ValidOrderFields
<1>4. \A q \in Thread \ {w} : pc'[q] = pc[q] /\ order'[q] = order[q]
  BY <1>1, <1>2
<1>5. \A q \in Thread : InFlight(q)'
  BY <1>1, <1>2, <1>3, <1>4 DEF InFlight, Drawn
<1>6. IdsApart'
  BY <1>1, <1>2, <1>3, <1>4 DEF IdsApart, InFlight, Drawn
<1> QED
  BY <1>1, <1>2, <1>5, <1>6

LEMMA StampConstructedFlies ==
  ASSUME FlightInv, NEW w \in Worker, StampConstructed(w)
  PROVE  FlightInv'
<1> USE DEF FlightInv
<1>1. /\ w \in Thread /\ pc[w] = "drawn" /\ pc' = [pc EXCEPT ![w] = "ready"]
      /\ order_id_counter' = order_id_counter
      /\ order' = [order EXCEPT ![w].timestamp = now']
      /\ submitted' = submitted
  BY DEF StampConstructed, Goto, Thread, bookVars
<1>2. now' = Now /\ Now \in Stamp
  BY ClockAssumption DEF StampConstructed, Now
<1>3. order[w] \in ValidOrder(order[w].id, Unset)
  BY <1>1 DEF InFlight
<1>4. /\ order'[w] \in ValidOrder(order[w].id, now')
      /\ order'[w].id = order[w].id
  <2>1. order'[w] = [order[w] EXCEPT !.timestamp = now']
    BY <1>1
  <2>2. order'[w] \in ValidOrder(order[w].id, now')
    BY <1>3, <2>1, ValidOrderFields
  <2> QED
    BY <2>2, ValidOrderFields
<1>5. \A q \in Thread \ {w} : pc'[q] = pc[q] /\ order'[q] = order[q]
  BY <1>1
<1>6. \A q \in Thread : InFlight(q)'
  BY <1>1, <1>2, <1>4, <1>5 DEF InFlight, Drawn
<1>7. IdsApart'
  BY <1>1, <1>4, <1>5 DEF IdsApart, InFlight, Drawn
<1> QED
  BY <1>1, <1>2, <1>6, <1>7

LEMMA EnterBookFlies ==
  ASSUME FlightInv, NEW q \in Thread, EnterBook(q)
  PROVE  FlightInv'
<1> USE DEF FlightInv
<1>1. /\ pc[q] = "ready" /\ pc' = [pc EXCEPT ![q] = "matching"]
      /\ order' = order /\ order_id_counter' = order_id_counter /\ now' = now
      /\ submitted' = submitted \cup {order[q].id}
  BY DEF EnterBook, Goto, postVars, counters, Book!AddOrder
<1>2. \A p \in Thread : InFlight(p)'
  BY <1>1 DEF InFlight, Drawn
<1>3. IdsApart'
  BY <1>1 DEF IdsApart, InFlight, Drawn
<1> QED
  BY <1>1, <1>2, <1>3

\* The steps after which no more orders are in flight than before.
Landed(q) ==
  \/ Match(q) \/ LeaveBook(q) \/ LoadField(q) \/ StoreField(q)
  \/ q \in Request /\ \/ RefuseOrder(q) \/ AnswerOrder(q)
                      \/ RefuseLoad(q) \/ RunLoad(q) \/ AnswerLoad(q)
                      \/ CancelFound(q) \/ CancelNotFound(q)
                      \/ Demo(q) \/ Read(q) \/ AnswerReport(q)
  \/ q \in Worker /\ (Tally(q) \/ NextIndex(q))

LEMMA LandedStaysDown ==
  ASSUME FlightInv, NEW q \in Thread, Landed(q)
  PROVE  FlightInv'
<1> USE DEF FlightInv, bookVars, counters, statVars, postVars, loadVars, Goto
<1>1. now' = now
  BY DEF Landed, Match, LeaveBook, LoadField, StoreField, RefuseOrder, AnswerOrder, RefuseLoad,
         RunLoad, AnswerLoad, CancelFound, CancelNotFound, Demo, Read, AnswerReport, Tally,
         NextIndex
<1>2. submitted' = submitted
  <2>1. \A side : Book!MatchOne(side) => submitted' = submitted
    BY DEF Book!MatchOne
  <2>2. Match(q) => submitted' = submitted
    BY <2>1 DEF Match, Book!MatchBuyOrder, Book!MatchSellOrder
  <2>3. LeaveBook(q) => submitted' = submitted
    BY DEF LeaveBook, Book!RestOrder, Book!DropOrder
  <2>4. CancelFound(q) => submitted' = submitted
    BY DEF CancelFound, Book!CancelOrder
  <2>5. Demo(q) => submitted' = submitted
    BY DEF Demo, Book!DrawTradeId
  <2> QED
    BY <2>2, <2>3, <2>4, <2>5
    DEF Landed, LoadField, StoreField, RefuseOrder, AnswerOrder, RefuseLoad,
        RunLoad, AnswerLoad, CancelNotFound, Read, AnswerReport, Tally, NextIndex
<1>3. order_id_counter' \in Nat /\ order_id_counter' >= order_id_counter
  BY DEF Landed, Match, LeaveBook, LoadField, StoreField, RefuseOrder, AnswerOrder, RefuseLoad,
         RunLoad, AnswerLoad, CancelFound, CancelNotFound, Demo, Read, AnswerReport, Tally,
         NextIndex
<1>4. /\ DOMAIN pc' = Thread /\ DOMAIN order' = Thread
      /\ \A p \in Thread : pc'[p] \in Drawn \cup {"stamped"} =>
           pc[p] = pc'[p] /\ order[p] = order'[p]
  <2> USE DEF Drawn
  <2>1. CASE NextIndex(q)
    BY <2>1 DEF NextIndex
  <2>2. CASE RunLoad(q)
    BY <2>2 DEF RunLoad
  <2>3. CASE order' = order /\ \E to : pc' = [pc EXCEPT ![q] = to] /\ to \notin Drawn \cup {"stamped"}
    BY <2>3
  <2>4. CASE order' = order /\ pc' = pc
    BY <2>4
  <2> QED
    BY <2>1, <2>2, <2>3, <2>4
    DEF Landed, Match, LeaveBook, LoadField, StoreField, RefuseOrder, AnswerOrder, RefuseLoad,
        AnswerLoad, CancelFound, CancelNotFound, Demo, Read, AnswerReport, Tally
<1> QED
  BY <1>1, <1>2, <1>3, <1>4, NothingTakesOff

\* The actions of a thread, sorted.
LEMMA StepCases ==
  ASSUME NEW q \in Thread, Step(q)
  PROVE  \/ Landed(q) \/ EnterBook(q)
         \/ q \in Request /\ (StampOrder(q) \/ DrawOrderId(q))
         \/ q \in Worker /\ (ConstructOrder(q) \/ StampConstructed(q))
BY DEF Step, SubmitAndCount, Handle, Work, Landed

LEMMA QuietFlies ==
  ASSUME FlightInv, UNCHANGED vars
  PROVE  FlightInv'
BY DEF FlightInv, InFlight, IdsApart, Drawn, vars, bookVars, counters, postVars

LEMMA NextFlies == FlightInv /\ [Next]_vars => FlightInv'
<1> SUFFICES ASSUME FlightInv, [Next]_vars PROVE FlightInv'
  OBVIOUS
<1>1. CASE UNCHANGED vars
  BY <1>1, QuietFlies
<1>2. ASSUME NEW q \in Thread, Step(q) PROVE FlightInv'
  BY <1>2, StepCases, LandedStaysDown, EnterBookFlies, StampOrderFlies, DrawOrderIdFlies,
     ConstructOrderFlies, StampConstructedFlies
<1> QED
  BY <1>1, <1>2 DEF Next, Quiet

LEMMA InitFlies == Init => FlightInv
BY DEF Init, Book!Init, FlightInv, InFlight, IdsApart, Drawn

\* In every reachable state the orders in flight are valid and have ids that
\* no other order has: fetch_add gives each id out once.
THEOREM FlightInvariance == Spec => []FlightInv
BY InitFlies, NextFlies, PTL DEF Spec

-------------------------------------------------------------------------------
\* The server uses the book as its specification says.

\* Orders and OrderBook's Orders are the same module.
LEMMA SameValidOrder ==
  ASSUME NEW id, NEW stamp
  PROVE  Book!ValidOrder(id, stamp) = ValidOrder(id, stamp)
BY DEF Book!ValidOrder, ValidOrder, Book!NewOrder, NewOrder, Book!Price, Price,
       Book!Quantity, Quantity, Book!NoPrice, NoPrice, Book!Side, Side

\* What is handed to the book is an order its specification expects.
LEMMA EnterBookIsNext ==
  ASSUME FlightInv, NEW q \in Thread, EnterBook(q)
  PROVE  Book!Next
<1>1. pc[q] = "ready" /\ Book!AddOrder(order[q])
  BY DEF EnterBook, Goto
<1>2. order[q].id \in Book!FreshId
  BY <1>1 DEF FlightInv, InFlight, IdsApart, Drawn, Book!FreshId
<1>3. \E stamp \in Stamp : order[q] \in Book!ValidOrder(order[q].id, stamp)
  BY <1>1, SameValidOrder DEF FlightInv, InFlight
<1> QED
  BY <1>1, <1>2, <1>3 DEF Book!Next

\* The other steps of the server that the book sees.
LEMMA BookSteps ==
  ASSUME NEW q \in Thread, Step(q), ~EnterBook(q)
  PROVE  Book!Next \/ UNCHANGED bookVars
<1>1. Match(q) => Book!Next
  BY DEF Match, Book!Next
<1>2. LeaveBook(q) => Book!Next
  BY DEF LeaveBook, Book!Next
<1>3. CancelFound(q) => Book!Next
  BY DEF CancelFound, Book!Next
<1>4. Demo(q) => Book!Next
  BY DEF Demo, Book!Next
<1> QED
  BY <1>1, <1>2, <1>3, <1>4
  DEF Step, SubmitAndCount, Handle, Work, LoadField, StoreField, RefuseOrder, StampOrder,
      DrawOrderId, AnswerOrder, RefuseLoad, RunLoad, AnswerLoad, CancelNotFound, Read,
      AnswerReport, ConstructOrder, StampConstructed, Tally, NextIndex

LEMMA NextUsesTheBook == FlightInv /\ [Next]_vars => [Book!Next]_(Book!vars)
<1> SUFFICES ASSUME FlightInv, [Next]_vars PROVE Book!Next \/ UNCHANGED bookVars
  BY DEF bookVars, Book!vars
<1>1. UNCHANGED vars => UNCHANGED bookVars
  BY DEF vars
<1>2. ASSUME NEW q \in Thread, Step(q) PROVE Book!Next \/ UNCHANGED bookVars
  BY <1>2, EnterBookIsNext, BookSteps
<1> QED
  BY <1>1, <1>2 DEF Next, Quiet

\* UsesTheBook: whatever the handlers do at once, the book sees one call at a
\* time, of valid orders with ids of their own.
THEOREM ServerUsesTheBook == Spec => UsesTheBook
<1>1. Init => Book!Init
  BY DEF Init
<1> QED
  BY <1>1, NextUsesTheBook, FlightInvariance, PTL DEF Spec, UsesTheBook, Book!Spec

-------------------------------------------------------------------------------
\* What is proved of the engine holds in the server.  Engine and Book are two
\* instances of the same specification: the lemmas say so, action by action.

Engine == INSTANCE OrderBookAccounts

\* The theorems of an instance have the assumptions on its constants as
\* hypotheses.
LEMMA EngineAssumptions ==
  /\ Engine!BoundsAssumption /\ Engine!StampAssumption
  /\ Engine!NoOrderAssumption /\ Engine!MaxTradeIdAssumption
<1> Engine!Order = Order
  BY DEF Engine!Order, Order, Engine!Side, Side, Engine!OrderType, OrderType,
     Engine!OrderStatus, OrderStatus
<1> QED
  BY BoundsAssumption, StampAssumption, BookAssumption
  DEF Engine!BoundsAssumption, Engine!StampAssumption, Engine!NoOrderAssumption,
      Engine!MaxTradeIdAssumption

LEMMA SameInit == Book!Init <=> Engine!Init
BY DEF Book!Init, Engine!Init, Book!EmptyLevels, Engine!EmptyLevels, Book!Side, Engine!Side

LEMMA SameAddOrder ==
  ASSUME NEW id, NEW stamp, NEW o
  PROVE  /\ Book!ValidOrder(id, stamp) = Engine!ValidOrder(id, stamp)
         /\ Book!AddOrder(o) <=> Engine!AddOrder(o)
<1>1. Book!ValidOrder(id, stamp) = Engine!ValidOrder(id, stamp)
  BY DEF Book!ValidOrder, Engine!ValidOrder, Book!NewOrder, Engine!NewOrder, Book!Price,
         Engine!Price, Book!Quantity, Engine!Quantity, Book!NoPrice, Engine!NoPrice,
         Book!Side, Engine!Side
<1>2. Book!AddOrder(o) <=> Engine!AddOrder(o)
  BY DEF Book!AddOrder, Engine!AddOrder, Book!Unset, Engine!Unset
<1> QED
  BY <1>1, <1>2

LEMMA SameMatchOne ==
  ASSUME NEW side
  PROVE  Book!MatchOne(side) <=> Engine!MatchOne(side)
BY DEF Book!MatchOne, Engine!MatchOne, Book!MatchablePrices, Engine!MatchablePrices,
       Book!IsBest, Engine!IsBest, Book!BetterPrice, Engine!BetterPrice, Book!Accepts,
       Engine!Accepts, Book!PricesCross, Engine!PricesCross, Book!Opposite, Engine!Opposite,
       Book!AfterTrade, Engine!AfterTrade, Book!SetLevel, Engine!SetLevel, Book!PutLevel,
       Engine!PutLevel, Book!DropLevel, Engine!DropLevel, Book!GenerateTradeId,
       Engine!GenerateTradeId, Book!MinQty, Engine!MinQty, Book!Filled, Engine!Filled,
       Book!TradeBetween, Engine!TradeBetween, Book!ExecuteTrade, Engine!ExecuteTrade

LEMMA SameEndOfLoop ==
  /\ Book!RestOrder <=> Engine!RestOrder
  /\ Book!DropOrder <=> Engine!DropOrder
BY DEF Book!RestOrder, Engine!RestOrder, Book!DropOrder, Engine!DropOrder, Book!MatchingDone,
       Engine!MatchingDone, Book!MatchablePrices, Engine!MatchablePrices, Book!IsBest,
       Engine!IsBest, Book!BetterPrice, Engine!BetterPrice, Book!Accepts, Engine!Accepts,
       Book!PricesCross, Engine!PricesCross, Book!Opposite, Engine!Opposite, Book!AddToBook,
       Engine!AddToBook, Book!PutLevel, Engine!PutLevel, Book!Queue, Engine!Queue

LEMMA SameCancelOrder ==
  ASSUME NEW id
  PROVE  Book!CancelOrder(id) <=> Engine!CancelOrder(id)
BY DEF Book!CancelOrder, Engine!CancelOrder, Book!Side, Engine!Side, Book!SetLevel,
       Engine!SetLevel, Book!PutLevel, Engine!PutLevel, Book!DropLevel, Engine!DropLevel,
       Book!RemoveAt, Engine!RemoveAt

LEMMA SameNext == Book!Next <=> Engine!Next
<1>1. Book!Clear <=> Engine!Clear
  BY DEF Book!Clear, Engine!Clear, Book!EmptyLevels, Engine!EmptyLevels, Book!Side, Engine!Side
<1>2. Book!DrawTradeId <=> Engine!DrawTradeId
  BY DEF Book!DrawTradeId, Engine!DrawTradeId, Book!GenerateTradeId, Engine!GenerateTradeId
<1> QED
  BY <1>1, <1>2, SameAddOrder, SameMatchOne, SameEndOfLoop, SameCancelOrder
  DEF Book!Next, Engine!Next, Book!FreshId, Engine!FreshId, Book!MatchBuyOrder,
      Engine!MatchBuyOrder, Book!MatchSellOrder, Engine!MatchSellOrder

LEMMA ServerUsesEngine == Spec => Engine!Spec
<1>1. [Book!Next]_(Book!vars) => [Engine!Next]_(Engine!vars)
  BY SameNext DEF Book!vars, Engine!vars
<1> QED
  BY <1>1, SameInit, ServerUsesTheBook, PTL DEF UsesTheBook, Book!Spec, Engine!Spec

\* The engine's invariants.
BookInv == Engine!IInv /\ Engine!AInv

\* The inductive invariants of the engine, of its control and its accounts,
\* hold of the book at every step of the handlers and workers.
THEOREM BookInvariance == Spec => []BookInv
<1>1. Engine!Spec => []Engine!IInv /\ []Engine!AInv
  BY EngineAssumptions, Engine!Invariance, Engine!AccountsInvariance
<1> QED
  BY <1>1, ServerUsesEngine, PTL DEF BookInv

LEMMA BookTypes ==
  ASSUME BookInv
  PROVE  /\ Book!TypeOK
         /\ incoming \in Order \cup {NoOrder} /\ trades \in Seq(Trade)
         /\ tradeLog \in Seq(Trade) /\ trade_id_counter \in Nat
<1>1. Engine!TypeOK
  BY EngineAssumptions, Engine!InvMeaning DEF BookInv
<1>2. Book!TypeOK
  BY <1>1 DEF Book!TypeOK, Engine!TypeOK, Book!Side, Engine!Side, Book!Price, Engine!Price,
     Book!Order, Engine!Order, Book!Trade, Engine!Trade, Book!OrderType, Engine!OrderType,
     Book!OrderStatus, Engine!OrderStatus
<1>3. Book!Order = Order /\ Book!Trade = Trade
  BY DEF Book!Order, Order, Book!Trade, Trade, Book!Side, Side, Book!OrderType, OrderType,
     Book!OrderStatus, OrderStatus
<1> QED
  BY <1>2, <1>3 DEF Book!TypeOK

================================================================================
