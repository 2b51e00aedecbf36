-------------------------- MODULE TradingServerAnswers --------------------------
(***************************************************************************)
(* What an answer says stays true.  Of cancels: the order is out of the    *)
(* book for good, was cancelled once, and had not traded all of its        *)
(* quantity.  Of load tests: all the orders were submitted, each once.     *)
(***************************************************************************)
EXTENDS TradingServerProofs

-------------------------------------------------------------------------------
\* What the engine promises about each step of the server.

LEMMA NextUsesEngine == FlightInv /\ [Next]_vars => [Engine!Next]_(Engine!vars)
BY NextUsesTheBook, SameNext DEF Book!vars, Engine!vars

LEMMA BookKeepsOrders ==
  FlightInv /\ BookInv /\ BookInv' /\ [Next]_vars => Engine!KeepsOrders
BY NextUsesEngine, EngineAssumptions, Engine!NextKeepsOrders DEF BookInv

LEMMA BookStaysGone ==
  FlightInv /\ BookInv /\ BookInv' /\ [Next]_vars => Engine!StaysGone
<1> SUFFICES ASSUME FlightInv, BookInv, BookInv', [Next]_vars PROVE Engine!StaysGone
  OBVIOUS
<1>1. Engine!StaysGone \/ UNCHANGED Engine!vars
  BY NextUsesEngine, EngineAssumptions, Engine!NextStaysGone DEF BookInv
<1>2. CASE UNCHANGED Engine!vars
  <2>1. tradeLog' = tradeLog /\ Engine!Live' = Engine!Live
    BY <1>2 DEF Engine!vars, Engine!Live, Engine!RestingIds, Engine!Resting
  <2>2. tradeLog \in Seq(Engine!Trade)
    BY DEF BookInv, Engine!IInv
  <2>3. \A id : Engine!TradedIn(tradeLog, id) \in Nat
    BY <2>2, EngineAssumptions, Engine!TradedInType
  <2> QED
    BY <2>1, <2>3 DEF Engine!StaysGone
<1> QED
  BY <1>1, <1>2

\* Who is present in the engine was submitted.
PresentKnown == \A o \in Engine!Present : o \in Order /\ o.id \in submitted

LEMMA BookKnowsPresent == BookInv => PresentKnown
<1>1. Engine!Order = Order
  BY DEF Engine!Order, Order, Engine!Side, Side, Engine!OrderType, OrderType,
     Engine!OrderStatus, OrderStatus
<1> QED
  BY <1>1, EngineAssumptions, Engine!PresentSubmitted DEF BookInv, PresentKnown

-------------------------------------------------------------------------------
\* The order a handler holds is the one in the book that has its id.

\* Orders on their way to the book.
Flying == Drawn \cup {"stamped"}

HeldInv ==
  \A r \in Request : order[r] # NoOrder =>
    /\ order[r].quantity \in Nat
    /\ pc[r] \notin Flying => order[r].id \in submitted
    /\ \A o \in Engine!Present : order[r].id = o.id => order[r].quantity = o.quantity

\* What a step does to the order of a handler.
LEMMA HeldSteps ==
  ASSUME FlightInv, PlaceInv, HandInv, NEW q \in Thread, Step(q), NEW r \in Request
  PROVE  \/ r = q /\ (StampOrder(r) \/ DrawOrderId(r))
         \/ /\ order'[r] = order[r]
            /\ pc'[r] \notin Flying => pc[r] \notin Flying \/ (r = q /\ EnterBook(q))
<1>0. q \in Thread /\ r \in Thread /\ r \notin Worker
  BY ThreadCases
<1>1. CASE q \in Worker
  <2>1. r # q
    BY <1>0, <1>1
  <2>2. pc' = pc \/ \E to : pc' = [pc EXCEPT ![q] = to]
    BY <1>0, <1>1, ThreadCases
    DEF Step, SubmitAndCount, Work, EnterBook, Match, LeaveBook, LoadField, StoreField,
        ConstructOrder, StampConstructed, Tally, NextIndex, Goto
  <2>3. \A p \in Thread \ {q} : order'[p] = order[p]
    BY <1>0, <1>1, ThreadCases
    DEF Step, SubmitAndCount, Work, EnterBook, Match, LeaveBook, LoadField, StoreField,
        ConstructOrder, StampConstructed, Tally, NextIndex, postVars, FlightInv
  <2>4. pc'[r] = pc[r] /\ order'[r] = order[r]
    BY <1>0, <2>1, <2>2, <2>3 DEF FlightInv
  <2> QED
    BY <2>4
<1>2. CASE q \in Request
  <2>1. \/ UNCHANGED order /\ UNCHANGED pc
        \/ StampOrder(q) \/ DrawOrderId(q) \/ EnterBook(q) \/ RunLoad(q)
        \/ UNCHANGED order /\ \E from, to : Goto(q, from, to) /\ from \notin Flying
    BY <1>2, ThreadCases
    DEF Step, SubmitAndCount, Handle, Match, LeaveBook, LoadField, StoreField, postVars,
        RefuseOrder, AnswerOrder, RefuseLoad, AnswerLoad, CancelFound, CancelNotFound, Demo, Read,
        AnswerReport, Flying, Drawn
  <2>2. CASE RunLoad(q)
    <3>1. order' = order
      BY <2>2 DEF RunLoad, postVars
    <3>2. r = q => pc[r] \notin Flying
      BY <2>2 DEF RunLoad, Flying, Drawn
    <3>3. r # q => pc'[r] = pc[r]
      <4>1. \A num_threads \in 0 .. MaxThreads : {q} \X (0 .. num_threads - 1) \subseteq Worker
        BY <1>2, LoadAssumption DEF Worker
      <4> QED
        BY <1>0, <2>2, <4>1 DEF RunLoad
    <3> QED
      BY <3>1, <3>2, <3>3
  <2>3. CASE EnterBook(q)
    <3>1. order' = order /\ \E to : pc' = [pc EXCEPT ![q] = to]
      BY <2>3 DEF EnterBook, Goto, postVars
    <3>2. r # q => pc'[r] = pc[r]
      BY <1>0, <3>1 DEF FlightInv
    <3> QED
      BY <2>3, <3>1, <3>2
  <2>4. CASE UNCHANGED order /\ UNCHANGED pc
    BY <2>4
  <2>5. CASE UNCHANGED order /\ \E from, to : Goto(q, from, to) /\ from \notin Flying
    <3>1. pc'[r] = pc[r] \/ pc[r] \notin Flying
      BY <1>0, <2>5 DEF Goto, FlightInv
    <3> QED
      BY <2>5, <3>1
  <2>6. CASE StampOrder(q) \/ DrawOrderId(q)
    <3>1. CASE r # q
      <4>1. pc'[r] = pc[r] /\ order'[r] = order[r]
        BY <1>0, <2>6, <3>1 DEF StampOrder, DrawOrderId, Goto, FlightInv
      <4> QED
        BY <4>1
    <3> QED
      BY <2>6, <3>1
  <2> QED
    BY <2>1, <2>2, <2>3, <2>4, <2>5, <2>6
<1> QED
  BY <1>1, <1>2 DEF Thread

\* The ids that were submitted stay known, and only EnterBook takes the lock.
LEMMA SubmittedStay ==
  ASSUME FlightInv, NEW q \in Thread, Step(q)
  PROVE  /\ submitted \subseteq submitted'
         /\ ~EnterBook(q) => incoming' = incoming \/ incoming # NoOrder
<1>1. EnterBook(q) => submitted \subseteq submitted'
  BY DEF EnterBook, Book!AddOrder
<1>2. Match(q) => submitted' = submitted /\ incoming # NoOrder
  BY DEF Match, Book!MatchBuyOrder, Book!MatchSellOrder, Book!MatchOne
<1>3. LeaveBook(q) => submitted' = submitted /\ incoming # NoOrder
  BY DEF LeaveBook, Book!RestOrder, Book!DropOrder, Book!MatchingDone
<1> QED
  BY <1>1, <1>2, <1>3, BookCases, OutsideBookFrame

LEMMA DrawnOrders ==
  ASSUME NEW id, NEW stamp, NEW o \in ValidOrder(id, stamp)
  PROVE  o.id = id /\ o.quantity \in Nat
BY BoundsAssumption DEF ValidOrder, NewOrder, Quantity

\* A step that leaves the order of r alone.
LEMMA KeepsHeld ==
  ASSUME FlightInv, BookInv, HeldInv, PresentKnown', Engine!KeepsOrders,
         NEW q \in Thread, Step(q),
         NEW r \in Request, order'[r] = order[r], order[r] # NoOrder,
         pc'[r] \notin Flying => pc[r] \notin Flying \/ (r = q /\ EnterBook(q))
  PROVE  /\ pc'[r] \notin Flying => order[r].id \in submitted'
         /\ \A o \in Engine!Present' :
              order[r].id = o.id => order[r].quantity = o.quantity
<1>1. pc'[r] \notin Flying => order[r].id \in submitted'
  <2>1. EnterBook(q) => order[q].id \in submitted'
    BY DEF EnterBook, Book!AddOrder
  <2> QED
    BY <2>1, SubmittedStay DEF HeldInv
<1>2. ASSUME NEW o \in Engine!Present', order[r].id = o.id
      PROVE  order[r].quantity = o.quantity
  <2>1. CASE \E m \in Engine!Present : o.id = m.id /\ o.quantity = m.quantity
    BY <1>2, <2>1 DEF HeldInv
  <2>2. CASE incoming = NoOrder /\ o = incoming'
    <3>1. EnterBook(q)
      <4>1. o \in Order
        BY DEF PresentKnown
      <4> QED
        BY <2>2, <4>1, BookAssumption, SubmittedStay
    <3>2. o.id = order[q].id /\ o.quantity = order[q].quantity /\ pc[q] = "ready"
      BY <2>2, <3>1, EnterBookEffect
    <3>3. CASE q = r
      BY <3>2, <3>3
    <3>4. CASE q # r
      <4>1. order[q].id \notin submitted /\ order[q].id # 0
        BY <3>2 DEF FlightInv, InFlight, IdsApart, Drawn
      <4>2. pc[r] \in Drawn => order[r].id # order[q].id
        BY <3>2, <3>4, ThreadCases DEF FlightInv, IdsApart, Drawn
      <4>3. pc[r] = "stamped" => order[r].id = 0
        BY ThreadCases, ValidOrderFields DEF FlightInv, InFlight
      <4> QED
        BY <1>2, <3>2, <4>1, <4>2, <4>3 DEF HeldInv, Flying
    <3> QED
      BY <3>3, <3>4
  <2> QED
    BY <2>1, <2>2 DEF Engine!KeepsOrders
<1> QED
  BY <1>1, <1>2

\* An order that the handler has just made or given its id.
LEMMA NewlyHeld ==
  ASSUME FlightInv, FlightInv', PresentKnown', HeldInv,
         NEW r \in Request, StampOrder(r) \/ DrawOrderId(r)
  PROVE  /\ order'[r].quantity \in Nat /\ pc'[r] \in Flying /\ order'[r].id \notin submitted'
         /\ \A o \in Engine!Present' : order'[r].id # o.id
<1>1. /\ order'[r].quantity \in Nat /\ pc'[r] \in Flying
      /\ order'[r].id = 0 \/ pc'[r] \in Drawn
  <2>1. CASE StampOrder(r)
    BY <2>1, ThreadCases, DrawnOrders DEF StampOrder, Goto, Flying, FlightInv
  <2>2. CASE DrawOrderId(r)
    <3>1. PICK stamp \in Stamp : order[r] \in ValidOrder(0, stamp)
      BY <2>2, ThreadCases DEF DrawOrderId, FlightInv, InFlight, Goto
    <3>2. order'[r] = [order[r] EXCEPT !.id = order_id_counter]
      BY <2>2, ThreadCases DEF DrawOrderId, FlightInv
    <3>3. order'[r] \in ValidOrder(order_id_counter, stamp)
      BY <3>1, <3>2, ValidOrderFields
    <3> QED
      BY <2>2, <3>3, DrawnOrders, ThreadCases DEF DrawOrderId, Goto, Flying, Drawn, FlightInv
  <2> QED
    BY <2>1, <2>2
<1>2. order'[r].id \notin submitted'
  BY <1>1, ThreadCases DEF FlightInv, IdsApart
<1> QED
  BY <1>1, <1>2 DEF PresentKnown

LEMMA StepHeld ==
  ASSUME HeldInv, FlightInv, FlightInv', PlaceInv, HandInv, BookInv, PresentKnown',
         Engine!KeepsOrders, NEW q \in Thread, Step(q)
  PROVE  HeldInv'
<1> SUFFICES ASSUME NEW r \in Request, order'[r] # NoOrder
             PROVE  /\ order'[r].quantity \in Nat
                    /\ pc'[r] \notin Flying => order'[r].id \in submitted'
                    /\ \A o \in Engine!Present' :
                         order'[r].id = o.id => order'[r].quantity = o.quantity
  BY DEF HeldInv
<1>1. CASE r = q /\ (StampOrder(r) \/ DrawOrderId(r))
  BY <1>1, NewlyHeld
<1>2. CASE /\ order'[r] = order[r]
           /\ pc'[r] \notin Flying => pc[r] \notin Flying \/ (r = q /\ EnterBook(q))
  <2>1. order[r].quantity \in Nat
    BY <1>2 DEF HeldInv
  <2> QED
    BY <1>2, <2>1, KeepsHeld
<1> QED
  BY <1>1, <1>2, HeldSteps

LEMMA QuietHeld ==
  ASSUME HeldInv, UNCHANGED vars
  PROVE  HeldInv'
BY DEF HeldInv, vars, bookVars, postVars, Engine!Present, Engine!Resting

LEMMA NextHeld ==
  /\ HeldInv /\ FlightInv /\ FlightInv' /\ ServerInv /\ BookInv /\ BookInv' /\ PresentKnown'
  /\ [Next]_vars
  => HeldInv'
BY StepHeld, QuietHeld, BookKeepsOrders DEF Next, Quiet, ServerInv

LEMMA InitHeld == Init => HeldInv
BY ThreadCases DEF Init, HeldInv

\* The order a handler of POST /orders holds is the one that the book has
\* under its id, with the same quantity.
THEOREM HeldInvariance == Spec => []HeldInv
BY InitHeld, NextHeld, BookKnowsPresent, FlightInvariance, ServerInvariance, BookInvariance, PTL
DEF Spec

-------------------------------------------------------------------------------
\* A cancel that was answered 200 is final.

OutOfBook == submitted \ Engine!Live

\* What the handler of a cancel has answered.
Cancelled(r, id) ==
  /\ answer[r] = [status |-> 200, id |-> id]
  /\ id \in OutOfBook
  /\ \A q \in Request \ {r} : kind[q] = "cancel" => answer[q] # answer[r]
  /\ \A q \in Request : order[q] # NoOrder /\ order[q].id = id =>
       Engine!TradedIn(tradeLog, id) < order[q].quantity

CancelInv ==
  /\ DOMAIN answer = Request
  /\ \A r \in Request : kind[r] = "cancel" =>
       \/ answer[r] = NoAnswer
       \/ \E id : answer[r] = [status |-> 404, id |-> id]
       \/ \E id : Cancelled(r, id)

\* Only its handler answers a cancel.
LEMMA CancelSteps ==
  ASSUME CancelInv, PlaceInv, NEW q \in Thread, Step(q)
  PROVE  /\ DOMAIN answer' = Request /\ kind' = kind
         /\ \A r \in Request : kind[r] = "cancel" =>
              \/ answer'[r] = answer[r]
              \/ r = q /\ (CancelFound(r) \/ CancelNotFound(r))
<1>1. CASE q \in Worker
  <2>1. answer' = answer /\ kind' = kind
    BY <1>1, ThreadCases
    DEF Step, SubmitAndCount, Work, EnterBook, Match, LeaveBook, LoadField, StoreField,
        ConstructOrder, StampConstructed, Tally, NextIndex
  <2> QED
    BY <2>1 DEF CancelInv
<1>2. CASE q \in Request
  <2>1. kind' = kind
    BY <1>2, ThreadCases
    DEF Step, SubmitAndCount, Handle, EnterBook, Match, LeaveBook, LoadField, StoreField,
        RefuseOrder, StampOrder, DrawOrderId, AnswerOrder, RefuseLoad, RunLoad, AnswerLoad,
        CancelFound, CancelNotFound, Demo, Read, AnswerReport
  <2>2. answer' = answer \/ \E response : Respond(q, response)
    BY <1>2, ThreadCases
    DEF Step, SubmitAndCount, Handle, EnterBook, Match, LeaveBook, LoadField, StoreField,
        RefuseOrder, StampOrder, DrawOrderId, AnswerOrder, RefuseLoad, RunLoad, AnswerLoad,
        CancelFound, CancelNotFound, Demo, Read, AnswerReport
  <2>3. kind[q] = "cancel" => \/ answer' = answer
                              \/ CancelFound(q) \/ CancelNotFound(q)
    <3>1. kind[q] = "cancel" => pc[q] \in {"begin", "answered"}
      BY <1>2, ThreadCases DEF PlaceInv, AtPlace
    <3>2. kind[q] = "cancel" => kind[q] \notin DOMAIN Report
      BY DEF Report
    <3> QED
      BY <1>2, <3>1, <3>2, ThreadCases
      DEF Step, SubmitAndCount, Handle, EnterBook, Match, LeaveBook, LoadField, StoreField, Goto,
          RefuseOrder, StampOrder, DrawOrderId, AnswerOrder, RefuseLoad, RunLoad, AnswerLoad,
          Demo, Read, AnswerReport
  <2>4. DOMAIN answer' = Request
    BY <2>2 DEF CancelInv, Respond
  <2>5. \A r \in Request \ {q} : answer'[r] = answer[r]
    BY <2>2 DEF CancelInv, Respond
  <2> QED
    BY <2>1, <2>3, <2>4, <2>5
<1> QED
  BY <1>1, <1>2 DEF Thread

LogCounts == \A id : Engine!TradedIn(tradeLog, id) \in Nat

LEMMA BookCounts == BookInv => LogCounts
<1>1. BookInv => tradeLog \in Seq(Engine!Trade)
  BY DEF BookInv, Engine!IInv
<1> QED
  BY <1>1, EngineAssumptions, Engine!TradedInType DEF LogCounts

\* What has left the book stays out, and the orders that are drawn are others.
LEMMA StaysCancelled ==
  ASSUME FlightInv, FlightInv', PlaceInv, HandInv, HeldInv, BookInv, BookInv', PresentKnown',
         Engine!StaysGone, NEW q \in Thread, Step(q), NEW id \in OutOfBook
  PROVE  /\ id \in OutOfBook'
         /\ \A r \in Request : order'[r] # NoOrder /\ order'[r].id = id =>
              /\ order'[r] = order[r]
              /\ Engine!TradedIn(tradeLog, id) < order[r].quantity =>
                   Engine!TradedIn(tradeLog', id) < order[r].quantity
<1>1. id \in submitted' /\ id \notin Engine!Live'
  BY SubmittedStay DEF OutOfBook, Engine!StaysGone
<1>2. ASSUME NEW r \in Request, order'[r] # NoOrder, order'[r].id = id
      PROVE  order'[r] = order[r]
  BY <1>1, <1>2, HeldSteps, NewlyHeld
<1>3. Engine!TradedIn(tradeLog', id) <= Engine!TradedIn(tradeLog, id)
  BY DEF OutOfBook, Engine!StaysGone
<1>4. LogCounts /\ LogCounts'
  BY BookCounts, PTL
<1>5. ASSUME NEW r \in Request, order[r] # NoOrder,
             Engine!TradedIn(tradeLog, id) < order[r].quantity
      PROVE  Engine!TradedIn(tradeLog', id) < order[r].quantity
  BY <1>3, <1>4, <1>5 DEF HeldInv, LogCounts
<1> QED
  BY <1>1, <1>2, <1>5 DEF OutOfBook

\* A cancel that was answered 200 stays what it was, if nobody else is
\* answered the same.
LEMMA KeepsCancelled ==
  ASSUME FlightInv, FlightInv', PlaceInv, HandInv, HeldInv, BookInv, BookInv', PresentKnown',
         Engine!StaysGone, NEW q \in Thread, Step(q),
         NEW r \in Request, NEW id, Cancelled(r, id), kind' = kind, answer'[r] = answer[r],
         \A p \in Request \ {r} : kind[p] = "cancel" => answer'[p] # answer[r]
  PROVE  Cancelled(r, id)'
BY StaysCancelled DEF Cancelled

\* CancelFound: the order was in the book alone with its id, nobody can have
\* cancelled it before.
LEMMA FindsOnce ==
  ASSUME FlightInv, FlightInv', PlaceInv, HandInv, HeldInv, BookInv, BookInv', PresentKnown',
         Engine!StaysGone, CancelInv, NEW r \in Request, CancelFound(r)
  PROVE  \E id : /\ Cancelled(r, id)'
                 /\ \A p \in Request \ {r} : kind[p] = "cancel" => answer[p] # answer'[r]
<1>1. PICK id \in OrderId : Book!CancelOrder(id) /\ Respond(r, [status |-> 200, id |-> id])
  BY DEF CancelFound
<1>2. Engine!CancelOrder(id)
  BY <1>1, SameCancelOrder
<1>3. /\ id \in submitted /\ id \in Engine!Live /\ id \notin Engine!Live' /\ tradeLog' = tradeLog
      /\ \E o \in Engine!Present : o.id = id /\ Engine!TradedIn(tradeLog, id) < o.quantity
  BY <1>2, EngineAssumptions, Engine!CancelSettlesAccounts DEF BookInv
<1>4. /\ answer'[r] = [status |-> 200, id |-> id]
      /\ \A p \in Request \ {r} : answer'[p] = answer[p]
  BY <1>1 DEF CancelInv, Respond
<1>5. submitted' = submitted /\ order' = order /\ kind' = kind
  BY <1>1 DEF CancelFound, Book!CancelOrder, postVars
<1>6. ASSUME NEW p \in Request \ {r}, kind[p] = "cancel" PROVE answer[p] # answer'[r]
  <2>1. \A n : Cancelled(p, n) => n # id
    BY <1>3 DEF Cancelled, OutOfBook
  <2>2. \A n : [status |-> 404, id |-> n] # [status |-> 200, id |-> id]
    <3>1. \A n : [status |-> 404, id |-> n].status # [status |-> 200, id |-> id].status
      OBVIOUS
    <3> QED
      BY <3>1
  <2>3. \A n : [status |-> 200, id |-> n] = [status |-> 200, id |-> id] => n = id
    <3>1. \A n : [status |-> 200, id |-> n].id = n
      OBVIOUS
    <3> QED
      BY <3>1
  <2>4. NoAnswer # [status |-> 200, id |-> id]
    <3>1. NoAnswer.status # [status |-> 200, id |-> id].status
      BY DEF NoAnswer
    <3> QED
      BY <3>1
  <2> QED
    BY <1>4, <1>6, <2>1, <2>2, <2>3, <2>4 DEF CancelInv, Cancelled
<1>7. \A q \in Request : order[q] # NoOrder /\ order[q].id = id =>
        Engine!TradedIn(tradeLog, id) < order[q].quantity
  BY <1>3 DEF HeldInv
<1>8. id \in OutOfBook'
  BY <1>3, <1>5 DEF OutOfBook
<1> QED
  BY <1>3, <1>4, <1>5, <1>6, <1>7, <1>8 DEF Cancelled

LEMMA StepCancels ==
  ASSUME FlightInv, FlightInv', PlaceInv, HandInv, HeldInv, BookInv, BookInv', PresentKnown',
         Engine!StaysGone, CancelInv, NEW q \in Thread, Step(q)
  PROVE  CancelInv'
<1>1. /\ DOMAIN answer' = Request /\ kind' = kind
      /\ \A r \in Request : kind[r] = "cancel" =>
           \/ answer'[r] = answer[r]
           \/ r = q /\ (CancelFound(r) \/ CancelNotFound(r))
  BY CancelSteps
<1>2. CASE q \in Request /\ kind[q] = "cancel" /\ CancelFound(q)
  <2>1. PICK id : /\ Cancelled(q, id)'
                  /\ \A p \in Request \ {q} : kind[p] = "cancel" => answer[p] # answer'[q]
    BY <1>2, FindsOnce
  <2>2. \A p \in Request \ {q} : kind[p] = "cancel" => answer'[p] = answer[p]
    BY <1>1
  <2>3. ASSUME NEW r \in Request \ {q}, NEW n, kind[r] = "cancel", Cancelled(r, n)
        PROVE  Cancelled(r, n)'
    <3>1. \A p \in Request \ {r} : kind[p] = "cancel" => answer'[p] # answer[r]
      BY <1>2, <2>1, <2>2, <2>3 DEF Cancelled
    <3> QED
      BY <1>1, <2>2, <2>3, <3>1, KeepsCancelled
  <2> QED
    BY <1>1, <2>1, <2>2, <2>3 DEF CancelInv
<1>3. CASE q \in Request /\ kind[q] = "cancel" /\ CancelNotFound(q)
  <2>1. PICK id : answer'[q] = [status |-> 404, id |-> id]
    BY <1>3 DEF CancelNotFound, Respond, CancelInv
  <2>2. \A p \in Request \ {q} : kind[p] = "cancel" => answer'[p] = answer[p]
    BY <1>1
  <2>3. ASSUME NEW r \in Request \ {q}, NEW n, kind[r] = "cancel", Cancelled(r, n)
        PROVE  Cancelled(r, n)'
    <3>1. answer'[q] # answer[r]
      <4>1. [status |-> 404, id |-> id].status # [status |-> 200, id |-> n].status
        OBVIOUS
      <4> QED
        BY <2>1, <2>3, <4>1 DEF Cancelled
    <3>2. \A p \in Request \ {r} : kind[p] = "cancel" => answer'[p] # answer[r]
      BY <2>2, <2>3, <3>1 DEF Cancelled
    <3> QED
      BY <1>1, <2>2, <2>3, <3>2, KeepsCancelled
  <2> QED
    BY <1>1, <2>1, <2>2, <2>3 DEF CancelInv
<1>4. CASE \A r \in Request : kind[r] = "cancel" => answer'[r] = answer[r]
  <2>1. ASSUME NEW r \in Request, NEW n, kind[r] = "cancel", Cancelled(r, n)
        PROVE  Cancelled(r, n)'
    <3>1. \A p \in Request \ {r} : kind[p] = "cancel" => answer'[p] # answer[r]
      BY <1>4, <2>1 DEF Cancelled
    <3> QED
      BY <1>1, <1>4, <2>1, <3>1, KeepsCancelled
  <2> QED
    BY <1>1, <1>4, <2>1 DEF CancelInv
<1> QED
  BY <1>1, <1>2, <1>3, <1>4

LEMMA QuietCancels ==
  ASSUME CancelInv, UNCHANGED vars
  PROVE  CancelInv'
BY DEF CancelInv, Cancelled, OutOfBook, Engine!Live, Engine!RestingIds, Engine!Resting, vars,
       bookVars, postVars

LEMMA NextCancels ==
  /\ CancelInv /\ HeldInv /\ FlightInv /\ FlightInv' /\ ServerInv /\ BookInv /\ BookInv'
  /\ PresentKnown' /\ [Next]_vars
  => CancelInv'
BY StepCancels, QuietCancels, BookStaysGone DEF Next, Quiet, ServerInv

LEMMA InitCancels == Init => CancelInv
BY DEF Init, CancelInv

\* What a cancel was answered stays true, in every reachable state.
THEOREM CancelInvariance == Spec => []CancelInv
BY InitCancels, NextCancels, BookKnowsPresent, HeldInvariance, FlightInvariance, ServerInvariance,
   BookInvariance, PTL
DEF Spec

\* Book and Engine have the same accounts.
LEMMA SameAccounts ==
  ASSUME NEW log, NEW id
  PROVE  Book!TradedIn(log, id) = Engine!TradedIn(log, id)
BY DEF Book!TradedIn, Engine!TradedIn, Book!Share, Engine!Share, Book!Names, Engine!Names

\* A cancel that was answered 200 took its order out of the book for good,
\* alone, with something left to trade.
THEOREM CancelsAreFinal == Spec => []CancelIsFinal
<1>1. CancelInv => CancelIsFinal
  <2> SUFFICES ASSUME CancelInv, NEW r \in Request, kind[r] = "cancel", answer[r].status = 200
               PROVE  /\ answer[r].id \notin Book!RestingIds
                      /\ \A q \in Request \ {r} : kind[q] = "cancel" => answer[q] # answer[r]
                      /\ \A q \in Request : order[q] # NoOrder /\ order[q].id = answer[r].id =>
                           Book!TradedIn(tradeLog, order[q].id) < order[q].quantity
    BY DEF CancelIsFinal
  <2>1. PICK id : Cancelled(r, id)
    <3>1. NoAnswer.status # 200 /\ \A id : [status |-> 404, id |-> id].status # 200
      BY DEF NoAnswer
    <3> QED
      BY <3>1 DEF CancelInv
  <2>2. answer[r].id = id
    BY <2>1 DEF Cancelled
  <2>3. Book!RestingIds = Engine!RestingIds
    BY DEF Book!RestingIds, Engine!RestingIds, Book!Resting, Engine!Resting, Book!Side,
           Engine!Side, Book!Range, Engine!Range
  <2>4. id \notin Book!RestingIds
    BY <2>1, <2>3 DEF Cancelled, OutOfBook, Engine!Live
  <2> QED
    BY <2>1, <2>2, <2>4, SameAccounts DEF Cancelled
<1> QED
  BY <1>1, CancelInvariance, PTL

-------------------------------------------------------------------------------
\* A load test: its workers share the orders out, i = t, t + n, t + 2n, ...

LEMMA ModRange ==
  ASSUME NEW n \in Nat \ {0}, NEW a \in Nat
  PROVE  a % n \in 0 .. n - 1 /\ a % n <= a
OBVIOUS
LEMMA Quotient ==
  ASSUME NEW n \in Nat \ {0}, NEW a \in Nat
  PROVE  a = n * (a \div n) + (a % n) /\ a \div n \in Nat
OBVIOUS
LEMMA ModStep ==
  ASSUME NEW n \in Nat \ {0}, NEW a \in Nat
  PROVE  (a + n) % n = a % n
<1>1. PICK x \in Nat : a = n * x + (a % n)
  BY Quotient
<1>0. PICK b \in Nat : b = a + n
  OBVIOUS
<1>2. PICK y \in Nat : b = n * y + (b % n)
  BY Quotient
<1>3. PICK r \in 0 .. n - 1, s \in 0 .. n - 1 : r = a % n /\ s = b % n
  BY ModRange
<1>4. r - s = n * (y - x - 1)
  BY <1>1, <1>2, <1>3, <1>0
<1>5. CASE y - x - 1 >= 1
  <2>1. n * (y - x - 1) >= n
    BY <1>5
  <2> QED
    BY <1>3, <1>4, <1>0, <2>1
<1>6. CASE y - x - 1 <= -1
  <2>1. n * (y - x - 1) <= -n
    BY <1>6
  <2> QED
    BY <1>3, <1>4, <1>0, <2>1
<1>7. CASE y - x - 1 = 0
  BY <1>3, <1>4, <1>7, <1>0
<1> QED
  BY <1>5, <1>6, <1>7, <1>0

LEMMA ModLast ==
  ASSUME NEW n \in Nat \ {0}, NEW a \in Nat, NEW b \in Nat, a % n = b % n, a < b + n
  PROVE  a <= b
<1>1. PICK x \in Nat : a = n * x + (a % n)
  BY Quotient
<1>2. PICK y \in Nat : b = n * y + (b % n)
  BY Quotient
<1>3. a - b = n * (x - y)
  BY <1>1, <1>2
<1>4. CASE x <= y
  BY <1>3, <1>4
<1>5. CASE x > y
  <2>1. n * (x - y) >= n
   BY <1>5
  <2> QED BY <1>3, <2>1
<1> QED BY <1>4, <1>5

LEMMA ModSmall ==
  ASSUME NEW n \in Nat \ {0}, NEW a \in 0 .. n - 1
  PROVE  a % n = a
OBVIOUS

\* Where a worker has an order of its own on the way.
Busy == {"drawn", "ready", "matching", "tallying", "counting"}

\* Worker w has submitted and tallied the order of index i.
Worked(w, i) == i < next[w] \/ (i = next[w] /\ pc[w] = "counting")

\* The indices that the workers have done; index i is for worker i % n.
Done(r) ==
  {i \in 0 .. load[r].num_orders - 1 :
     /\ load[r].num_threads # 0
     /\ Worked(<<r, i % load[r].num_threads>>, i)}

\* A worker only takes indices of its own share, below the number of orders.
OnTurn(w) ==
  w[2] < LoadOf(w).num_threads =>
    /\ next[w] % LoadOf(w).num_threads = w[2]
    /\ pc[w] \in Busy => next[w] < LoadOf(w).num_orders

SharesInv ==
  /\ \A w \in Worker : OnTurn(w)
  /\ \A r \in Request : load[r].completed_orders = Cardinality(Done(r))

LEMMA LoadFields ==
  ASSUME PlaceInv, NEW r \in Request
  PROVE  /\ load[r].num_orders \in Nat /\ load[r].num_threads \in 0 .. MaxThreads
         /\ load[r].completed_orders \in Nat
BY LoadAssumption DEF PlaceInv, Load

LEMMA ShareWorker ==
  ASSUME NEW r \in Request, NEW n \in 1 .. MaxThreads, NEW i \in Nat
  PROVE  <<r, i % n>> \in Worker /\ i % n \in 0 .. n - 1
<1>1. PICK t \in 0 .. n - 1 : t = i % n
  BY LoadAssumption, ModRange
<1>2. <<r, t>> \in Worker
  BY LoadAssumption DEF Worker
<1> QED
  BY <1>1, <1>2

HasNext(w) == pc[w] = "loop" /\ ~Finished(w)

\* The steps that leave the parameters, the indices and the tallies alone.
LEMMA LoadSteps ==
  ASSUME FlightInv, PlaceInv, NEW q \in Thread, Step(q)
  PROVE  \/ q \in Request /\ RunLoad(q)
         \/ q \in Worker /\ (Tally(q) \/ NextIndex(q))
         \/ /\ UNCHANGED <<load, next>>
            /\ \A w \in Worker : /\ pc'[w] = "counting" <=> pc[w] = "counting"
                                 /\ pc'[w] \in Busy => pc[w] \in Busy \/ HasNext(w)
<1>1. CASE q \in Request /\ ~RunLoad(q)
  <2>1. UNCHANGED <<load, next>>
    BY <1>1, ThreadCases
    DEF Step, SubmitAndCount, Handle, EnterBook, Match, LeaveBook, LoadField, StoreField,
        RefuseOrder, StampOrder, DrawOrderId, AnswerOrder, RefuseLoad, AnswerLoad,
        CancelFound, CancelNotFound, Demo, Read, AnswerReport, loadVars
  <2>2. pc' = pc \/ \E to : pc' = [pc EXCEPT ![q] = to]
    BY <1>1, ThreadCases
    DEF Step, SubmitAndCount, Handle, EnterBook, Match, LeaveBook, LoadField, StoreField, Goto,
        RefuseOrder, StampOrder, DrawOrderId, AnswerOrder, RefuseLoad, AnswerLoad,
        CancelFound, CancelNotFound, Demo, Read, AnswerReport
  <2>3. \A w \in Worker : pc'[w] = pc[w]
    BY <1>1, <2>2, ThreadCases DEF FlightInv
  <2> QED
    BY <2>1, <2>3
<1>2. CASE q \in Worker /\ ~Tally(q) /\ ~NextIndex(q)
  <2>1. UNCHANGED <<load, next>>
    BY <1>2, ThreadCases
    DEF Step, SubmitAndCount, Work, EnterBook, Match, LeaveBook, LoadField, StoreField,
        ConstructOrder, StampConstructed, loadVars
  <2>2. \/ pc' = pc
        \/ \E from, to : /\ Goto(q, from, to) /\ from # "counting" /\ to # "counting"
                         /\ from \in Busy \/ HasNext(q)
    BY <1>2, ThreadCases
    DEF Step, SubmitAndCount, Work, EnterBook, Match, LeaveBook, LoadField, StoreField, Goto,
        ConstructOrder, StampConstructed, Busy, HasNext
  <2>3. \A w \in Worker \ {q} : pc'[w] = pc[w]
    BY <2>2, ThreadCases DEF Goto, FlightInv
  <2>4. pc'[q] = "counting" <=> pc[q] = "counting"
    BY <2>2 DEF Goto, FlightInv
  <2>5. pc'[q] \in Busy => pc[q] \in Busy \/ HasNext(q)
    BY <2>2 DEF Goto
  <2> QED
    BY <1>2, <2>1, <2>3, <2>4, <2>5
<1> QED
  BY <1>1, <1>2 DEF Thread

LEMMA KeepsShares ==
  ASSUME SharesInv, PlaceInv, HandInv, UNCHANGED <<load, next>>,
         \A w \in Worker : /\ pc'[w] = "counting" <=> pc[w] = "counting"
                           /\ pc'[w] \in Busy => pc[w] \in Busy \/ HasNext(w)
  PROVE  SharesInv'
<1>1. ASSUME NEW r \in Request PROVE Done(r)' = Done(r)
  <2>1. CASE load[r].num_threads = 0
    BY <2>1 DEF Done
  <2>2. CASE load[r].num_threads # 0
    <3>1. load[r].num_threads \in 1 .. MaxThreads
      BY <2>2, LoadFields
    <3>2. \A i \in Nat : <<r, i % load[r].num_threads>> \in Worker
      BY <3>1, ShareWorker
    <3>3. \A i \in Nat : Worked(<<r, i % load[r].num_threads>>, i)'
                           <=> Worked(<<r, i % load[r].num_threads>>, i)
      BY <3>2 DEF Worked
    <3> QED
      BY <3>3, LoadFields DEF Done
  <2> QED
    BY <2>1, <2>2
<1>2. ASSUME NEW w \in Worker PROVE OnTurn(w)'
  <2>1. LoadOf(w)' = LoadOf(w) /\ next'[w] = next[w]
    BY DEF LoadOf
  <2>2. HasNext(w) => next[w] < LoadOf(w).num_orders
    BY LoadFields, ThreadCases DEF HasNext, Finished, LoadOf, HandInv
  <2>3. pc'[w] \in Busy => pc[w] \in Busy \/ next[w] < LoadOf(w).num_orders
    BY <2>2
  <2>4. OnTurn(w)
    BY DEF SharesInv
  <2> QED
    BY <2>1, <2>3, <2>4 DEF OnTurn
<1>3. \A r \in Request : load'[r].completed_orders = Cardinality(Done(r)')
  BY <1>1 DEF SharesInv
<1> QED
  BY <1>2, <1>3 DEF SharesInv

\* An index is done at most once: what a worker has done are the indices of
\* its share up to next.
LEMMA DoneMember ==
  ASSUME PlaceInv, NEW r \in Request, NEW i
  PROVE  i \in Done(r) <=>
           /\ i \in 0 .. load[r].num_orders - 1 /\ load[r].num_threads # 0
           /\ \A w \in Worker :
                w = <<r, i % load[r].num_threads>> => Worked(w, i)
<1>1. CASE load[r].num_threads = 0 \/ i \notin 0 .. load[r].num_orders - 1
  BY <1>1 DEF Done
<1>2. CASE load[r].num_threads # 0 /\ i \in 0 .. load[r].num_orders - 1
  <2>1. load[r].num_threads \in 1 .. MaxThreads /\ i \in Nat
    BY <1>2, LoadFields
  <2>2. <<r, i % load[r].num_threads>> \in Worker
    BY <2>1, ShareWorker
  <2> QED
    BY <1>2, <2>2 DEF Done
<1> QED
  BY <1>1, <1>2

LEMMA DoneFinite ==
  ASSUME PlaceInv, NEW r \in Request
  PROVE  IsFiniteSet(Done(r)) /\ Cardinality(Done(r)) \in Nat
<1>1. IsFiniteSet(0 .. load[r].num_orders - 1)
  BY LoadFields, FS_Interval
<1>2. Done(r) \subseteq 0 .. load[r].num_orders - 1
  BY DEF Done
<1> QED
  BY <1>1, <1>2, FS_Subset, FS_CardinalityType

LEMMA TallyShares ==
  ASSUME SharesInv, PlaceInv, PlaceInv', HandInv, FlightInv, NEW w \in Worker, Tally(w)
  PROVE  SharesInv'
<1>1. /\ w \in Thread /\ w[1] \in Request /\ w = <<w[1], w[2]>> /\ w[2] \in Nat
      /\ executed[w] \in Seq(Trade) /\ next[w] \in Nat
  BY ThreadCases, LoadAssumption DEF HandInv, Worker
<1>2. PICK r \in Request : r = w[1]
  BY <1>1
<1>3. /\ pc[w] = "tallying" /\ pc'[w] = "counting" /\ next' = next
      /\ \A x \in Worker \ {w} : pc'[x] = pc[x]
  BY <1>1, ThreadCases DEF Tally, Goto, PlaceInv
<1>4. /\ \A q \in Request \ {r} : load'[q] = load[q]
      /\ load'[r].num_threads = load[r].num_threads /\ load'[r].num_orders = load[r].num_orders
      /\ load'[r].completed_orders = load[r].completed_orders + 1
  BY <1>1, <1>2, TallyLoad DEF LoadOf
<1>5. PICK n \in 1 .. MaxThreads : n = load[r].num_threads /\ w[2] < n
  BY <1>1, <1>2, <1>3, ThreadCases, LoadFields DEF PlaceInv, AtPlace, LoadOf
<1>6. next[w] % n = w[2] /\ next[w] \in 0 .. load[r].num_orders - 1
  <2>1. OnTurn(w)
    BY DEF SharesInv
  <2> QED
    BY <1>1, <1>2, <1>3, <1>5, <2>1, LoadFields DEF OnTurn, Busy, LoadOf
<1>7. \A x \in Worker, i \in Nat :
        Worked(x, i)' <=> Worked(x, i) \/ (x = w /\ i = next[w])
  BY <1>1, <1>3 DEF Worked
<1>8. ASSUME NEW q \in Request \ {r} PROVE Done(q)' = Done(q)
  <2>1. CASE load[q].num_threads = 0
    BY <1>4, <2>1 DEF Done
  <2>2. CASE load[q].num_threads # 0
    <3>1. PICK m \in 1 .. MaxThreads : m = load[q].num_threads
      BY <2>2, LoadFields
    <3>2. ASSUME NEW i \in Nat PROVE Worked(<<q, i % m>>, i)' <=> Worked(<<q, i % m>>, i)
      <4>1. <<q, i % m>> \in Worker /\ <<q, i % m>> # w
        BY <1>1, <1>2, ShareWorker
      <4> QED
        BY <1>7, <4>1
    <3> QED
      BY <1>4, <2>2, <3>1, <3>2, LoadFields DEF Done
  <2> QED
    BY <2>1, <2>2
<1>9. Done(r)' = Done(r) \cup {next[w]} /\ next[w] \notin Done(r)
  <2>1. ASSUME NEW i \in Nat
        PROVE  Worked(<<r, i % n>>, i)' <=> Worked(<<r, i % n>>, i) \/ i = next[w]
    <3>1. <<r, i % n>> \in Worker
      BY ShareWorker
    <3>2. i = next[w] => <<r, i % n>> = w
      BY <1>1, <1>2, <1>6
    <3> QED
      BY <1>7, <3>1, <3>2
  <2>2. PICK N \in Nat : N = load[r].num_orders
    BY LoadFields
  <2>3. Done(r) = {i \in 0 .. N - 1 : Worked(<<r, i % n>>, i)}
    BY <1>5, <2>2, LoadAssumption DEF Done
  <2>4. Done(r)' = {i \in 0 .. N - 1 : Worked(<<r, i % n>>, i)'}
    BY <1>4, <1>5, <2>2, LoadAssumption DEF Done
  <2>5. ~Worked(w, next[w]) /\ w = <<r, next[w] % n>>
    BY <1>1, <1>2, <1>3, <1>6 DEF Worked
  <2>6. next[w] \in 0 .. N - 1
    BY <1>6, <2>2
  <2>7. next[w] \notin Done(r)
    BY <2>3, <2>5
  <2>8. \A i \in 0 .. N - 1 : i \in Nat
    BY <2>2
  <2> QED
    BY <2>1, <2>3, <2>4, <2>6, <2>7, <2>8
<1>10. ASSUME NEW x \in Worker PROVE OnTurn(x)'
  <2>1. x[1] \in Request /\ OnTurn(x)
    BY ThreadCases DEF SharesInv
  <2>2. /\ LoadOf(x)'.num_threads = LoadOf(x).num_threads
        /\ LoadOf(x)'.num_orders = LoadOf(x).num_orders
    BY <1>4, <2>1 DEF LoadOf
  <2>3. pc'[x] \in Busy => pc[x] \in Busy
    BY <1>3 DEF Busy
  <2> QED
    BY <1>3, <2>1, <2>2, <2>3 DEF OnTurn
<1>11. ASSUME NEW q \in Request PROVE load'[q].completed_orders = Cardinality(Done(q)')
  <2>1. CASE q = r
    BY <1>4, <1>9, <2>1, DoneFinite, FS_AddElement DEF SharesInv
  <2>2. CASE q # r
    BY <1>4, <1>8, <2>2 DEF SharesInv
  <2> QED
    BY <2>1, <2>2
<1> QED
  BY <1>10, <1>11 DEF SharesInv

\* i += num_threads: the next index of the same worker.
LEMMA NextIndexShares ==
  ASSUME SharesInv, PlaceInv, HandInv, FlightInv, NEW w \in Worker, NextIndex(w)
  PROVE  SharesInv'
<1> DEFINE n == LoadOf(w).num_threads
<1>1. /\ w \in Thread /\ w[1] \in Request /\ w = <<w[1], w[2]>>
      /\ w[2] \in Nat /\ next[w] \in Nat
  BY ThreadCases, LoadAssumption DEF HandInv, Worker
<1>2. /\ pc[w] = "counting" /\ pc' = [pc EXCEPT ![w] = "loop"] /\ load' = load
      /\ next' = [next EXCEPT ![w] = @ + n]
      /\ \A x \in Worker \ {w} : pc'[x] = pc[x] /\ next'[x] = next[x]
  BY <1>1, ThreadCases DEF NextIndex, Goto, PlaceInv, HandInv
<1>3. w[2] < n /\ n \in 1 .. MaxThreads /\ next[w] % n = w[2]
  <2>1. w[2] < n /\ n \in 1 .. MaxThreads
    BY <1>1, <1>2, ThreadCases, LoadFields DEF PlaceInv, AtPlace, LoadOf
  <2>2. OnTurn(w)
    BY DEF SharesInv
  <2> QED
    BY <2>1, <2>2 DEF OnTurn
<1> HIDE DEF n
<1>4. n \in Nat \ {0} /\ next'[w] = next[w] + n /\ pc'[w] = "loop"
  BY <1>1, <1>2, <1>3, LoadAssumption DEF HandInv, PlaceInv
<1>5. \A i \in Nat : i % n = w[2] => (Worked(w, i)' <=> Worked(w, i))
  <2>1. \A i \in Nat : i % n = w[2] /\ i < next[w] + n => i <= next[w]
    BY <1>1, <1>3, <1>4, ModLast
  <2>2. \A i \in Nat : Worked(w, i) <=> i <= next[w]
    BY <1>1, <1>2 DEF Worked
  <2>3. \A i \in Nat : Worked(w, i)' <=> i < next[w] + n
    BY <1>1, <1>4 DEF Worked
  <2> QED
    BY <1>1, <1>4, <2>1, <2>2, <2>3
<1>6. \A x \in Worker, i \in Nat : x # w => (Worked(x, i)' <=> Worked(x, i))
  BY <1>2 DEF Worked
<1>7. ASSUME NEW q \in Request PROVE Done(q)' = Done(q)
  <2>1. CASE load[q].num_threads = 0
    BY <1>2, <2>1 DEF Done
  <2>2. CASE load[q].num_threads # 0
    <3>1. PICK m \in 1 .. MaxThreads : m = load[q].num_threads
      BY <2>2, LoadFields
    <3>2. ASSUME NEW i \in Nat PROVE Worked(<<q, i % m>>, i)' <=> Worked(<<q, i % m>>, i)
      <4>1. <<q, i % m>> \in Worker
        BY ShareWorker
      <4>2. <<q, i % m>> = w => i % m = w[2] /\ m = n
        BY <3>1 DEF n, LoadOf
      <4> QED
        BY <1>5, <1>6, <4>1, <4>2
    <3> QED
      BY <1>2, <2>2, <3>1, <3>2, LoadFields DEF Done
  <2> QED
    BY <2>1, <2>2
<1>8. ASSUME NEW x \in Worker PROVE OnTurn(x)'
  <2>1. OnTurn(x) /\ LoadOf(x)' = LoadOf(x)
    BY <1>2 DEF SharesInv, LoadOf
  <2>2. CASE x # w
    BY <1>2, <2>1, <2>2 DEF OnTurn
  <2>3. CASE x = w
    <3>1. (next[w] + n) % n = w[2]
      BY <1>1, <1>3, <1>4, ModStep
    <3> QED
      BY <1>4, <2>1, <2>3, <3>1 DEF OnTurn, Busy, n
  <2> QED
    BY <2>2, <2>3
<1> QED
  BY <1>2, <1>7, <1>8 DEF SharesInv

\* The workers start at their own numbers, with nothing done.
LEMMA RunLoadShares ==
  ASSUME SharesInv, PlaceInv, PlaceInv', HandInv, FlightInv, NEW r \in Request, RunLoad(r)
  PROVE  SharesInv'
<1>1. PICK num_orders \in 1 .. MaxOrders, num_threads \in 0 .. MaxThreads :
        /\ load' = [load EXCEPT ![r] = NewLoad(num_orders, num_threads)]
        /\ pc' = [q \in Thread |-> CASE q = r -> "loading"
                                     [] q \in {r} \X (0 .. num_threads - 1) -> "loop"
                                     [] OTHER -> pc[q]]
        /\ next' = [w \in Worker |-> IF w[1] = r THEN w[2] ELSE next[w]]
  BY DEF RunLoad
<1>2. /\ load'[r].num_threads = num_threads /\ load'[r].num_orders = num_orders
      /\ load'[r].completed_orders = 0
      /\ \A q \in Request \ {r} : load'[q] = load[q]
  BY <1>1 DEF NewLoad, PlaceInv
<1>3. /\ num_threads \in Nat /\ num_orders \in Nat
      /\ \A t \in 0 .. num_threads - 1 :
           <<r, t>> \in Worker /\ pc'[<<r, t>>] = "loop" /\ next'[<<r, t>>] = t
  <2>1. \A t \in 0 .. num_threads - 1 :
          <<r, t>> \in Worker /\ <<r, t>> \in {r} \X (0 .. num_threads - 1)
    BY LoadAssumption DEF Worker
  <2> QED
    BY <1>1, <2>1, ThreadCases, LoadAssumption
<1>4. \A w \in Worker : w[1] # r => pc'[w] = pc[w] /\ next'[w] = next[w]
  BY <1>1, ThreadCases
<1>5. Done(r)' = {}
  <2> SUFFICES ASSUME num_threads # 0, NEW i \in 0 .. num_orders - 1
               PROVE  ~Worked(<<r, i % num_threads>>, i)'
    BY <1>2 DEF Done
  <2>1. num_threads \in Nat \ {0} /\ i \in Nat
    BY <1>3
  <2>2. i % num_threads \in 0 .. num_threads - 1 /\ i % num_threads <= i
    BY <2>1, ModRange
  <2>3. PICK t \in 0 .. num_threads - 1 : t = i % num_threads /\ t <= i
    BY <2>2
  <2> QED
    BY <1>3, <2>3 DEF Worked
<1>6. ASSUME NEW q \in Request \ {r} PROVE Done(q)' = Done(q)
  <2>1. CASE load[q].num_threads = 0
    BY <1>2, <2>1 DEF Done
  <2>2. CASE load[q].num_threads # 0
    <3>1. PICK m \in 1 .. MaxThreads : m = load[q].num_threads
      BY <2>2, LoadFields
    <3>2. \A i \in Nat : Worked(<<q, i % m>>, i)' <=> Worked(<<q, i % m>>, i)
      BY <1>4, ShareWorker DEF Worked
    <3> QED
      BY <1>2, <2>2, <3>1, <3>2, LoadFields DEF Done
  <2> QED
    BY <2>1, <2>2
<1>7. ASSUME NEW x \in Worker PROVE OnTurn(x)'
  <2>1. x[1] \in Request /\ x = <<x[1], x[2]>> /\ x[2] \in Nat
    BY ThreadCases, LoadAssumption DEF Worker
  <2>2. CASE x[1] # r
    <3>1. OnTurn(x) /\ LoadOf(x)' = LoadOf(x)
      BY <1>2, <2>1, <2>2 DEF SharesInv, LoadOf
    <3> QED
      BY <1>4, <2>2, <3>1 DEF OnTurn
  <2>3. CASE x[1] = r /\ x[2] < num_threads
    <3>1. x[2] \in 0 .. num_threads - 1 /\ num_threads \in Nat \ {0}
      BY <1>3, <2>1, <2>3
    <3>2. x[2] % num_threads = x[2]
      BY <3>1, ModSmall
    <3>3. pc'[x] = "loop" /\ next'[x] = x[2]
      BY <1>3, <2>1, <2>3, <3>1
    <3> QED
      BY <1>2, <2>3, <3>2, <3>3 DEF OnTurn, LoadOf, Busy
  <2>4. CASE x[1] = r /\ ~(x[2] < num_threads)
    BY <1>2, <2>4 DEF OnTurn, LoadOf
  <2> QED
    BY <2>2, <2>3, <2>4
<1>8. \A q \in Request : load'[q].completed_orders = Cardinality(Done(q)')
  BY <1>2, <1>5, <1>6, FS_EmptySet DEF SharesInv
<1> QED
  BY <1>7, <1>8 DEF SharesInv

LEMMA StepShares ==
  ASSUME SharesInv, PlaceInv, PlaceInv', HandInv, FlightInv, NEW q \in Thread, Step(q)
  PROVE  SharesInv'
BY LoadSteps, RunLoadShares, TallyShares, NextIndexShares, KeepsShares

LEMMA QuietShares ==
  ASSUME SharesInv, PlaceInv, HandInv, UNCHANGED vars
  PROVE  SharesInv'
BY KeepsShares DEF vars, loadVars

LEMMA NextShares ==
  SharesInv /\ ServerInv /\ ServerInv' /\ FlightInv /\ [Next]_vars => SharesInv'
BY StepShares, QuietShares DEF Next, Quiet, ServerInv

LEMMA InitShares == Init => SharesInv
<1> SUFFICES ASSUME Init PROVE SharesInv
  OBVIOUS
<1>1. \A r \in Request : load[r].num_threads = 0 /\ load[r].completed_orders = 0
  BY DEF Init, NewLoad
<1>2. \A r \in Request : Done(r) = {}
  BY <1>1 DEF Done
<1>3. \A w \in Worker : OnTurn(w)
  BY <1>1, ThreadCases, LoadAssumption DEF OnTurn, LoadOf, Worker
<1> QED
  BY <1>1, <1>2, <1>3, FS_EmptySet DEF SharesInv

\* The tally of a load test is the number of indices its workers have done,
\* and no two workers do the same one.
THEOREM SharesInvariance == Spec => []SharesInv
BY InitShares, NextShares, ServerInvariance, FlightInvariance, PTL DEF Spec

\* What the answer of a load test says.
AnswerInv ==
  \A r \in Request : kind[r] = "load" =>
    \/ answer[r] = NoAnswer
    \/ /\ pc[r] = "answered"
       /\ answer[r].status = 200 =>
            answer[r].orders_submitted =
              IF load[r].num_threads = 0 THEN 0 ELSE load[r].num_orders

\* A handler that has answered is through, and its parameters are settled.
LEMMA AnsweredStays ==
  ASSUME CancelInv, PlaceInv, HandInv, FlightInv, NEW q \in Thread, Step(q),
         NEW r \in Request, pc[r] = "answered"
  PROVE  /\ pc'[r] = "answered" /\ answer'[r] = answer[r]
         /\ load'[r].num_threads = load[r].num_threads
         /\ load'[r].num_orders = load[r].num_orders
<1>1. r \in Thread /\ r \notin Worker
  BY ThreadCases
<1>2. CASE q \in Worker
  <2>1. answer' = answer
    BY <1>2, ThreadCases
    DEF Step, SubmitAndCount, Work, EnterBook, Match, LeaveBook, LoadField, StoreField,
        ConstructOrder, StampConstructed, Tally, NextIndex
  <2>2. pc' = pc \/ \E to : pc' = [pc EXCEPT ![q] = to]
    BY <1>2, ThreadCases
    DEF Step, SubmitAndCount, Work, EnterBook, Match, LeaveBook, LoadField, StoreField,
        ConstructOrder, StampConstructed, Tally, NextIndex, Goto
  <2>3. load' = load \/ Tally(q)
    BY <1>2, ThreadCases
    DEF Step, SubmitAndCount, Work, EnterBook, Match, LeaveBook, LoadField, StoreField,
        ConstructOrder, StampConstructed, NextIndex, loadVars
  <2>4. executed[q] \in Seq(Trade) /\ q[1] \in Request
    BY <1>2, ThreadCases DEF HandInv
  <2>5. /\ load'[r].num_threads = load[r].num_threads
        /\ load'[r].num_orders = load[r].num_orders
    BY <1>2, <2>3, <2>4, TallyLoad DEF LoadOf
  <2> QED
    BY <1>1, <1>2, <2>1, <2>2, <2>5 DEF FlightInv
<1>3. CASE q \in Request
  <2>1. q # r
    BY <1>1, <1>3, ThreadCases
    DEF Step, SubmitAndCount, Handle, EnterBook, Match, LeaveBook, LoadField, StoreField, Goto,
        RefuseOrder, StampOrder, DrawOrderId, AnswerOrder, RefuseLoad, RunLoad, AnswerLoad,
        CancelFound, CancelNotFound, Demo, Read, AnswerReport, HandInv, Counting
  <2>2. answer' = answer \/ \E response : Respond(q, response)
    BY <1>3, ThreadCases
    DEF Step, SubmitAndCount, Handle, EnterBook, Match, LeaveBook, LoadField, StoreField,
        RefuseOrder, StampOrder, DrawOrderId, AnswerOrder, RefuseLoad, RunLoad, AnswerLoad,
        CancelFound, CancelNotFound, Demo, Read, AnswerReport
  <2>3. answer'[r] = answer[r]
    BY <2>1, <2>2 DEF CancelInv, Respond
  <2>4. CASE RunLoad(q)
    <3>1. \A num_threads \in 0 .. MaxThreads : {q} \X (0 .. num_threads - 1) \subseteq Worker
      BY <1>3, LoadAssumption DEF Worker
    <3>2. pc'[r] = pc[r]
      BY <1>1, <2>1, <2>4, <3>1 DEF RunLoad
    <3>3. load'[r] = load[r]
      BY <2>1, <2>4 DEF RunLoad, PlaceInv
    <3> QED
      BY <2>3, <3>2, <3>3
  <2>5. CASE ~RunLoad(q)
    <3>1. load' = load
      BY <1>3, <2>5, ThreadCases
      DEF Step, SubmitAndCount, Handle, EnterBook, Match, LeaveBook, LoadField, StoreField,
          RefuseOrder, StampOrder, DrawOrderId, AnswerOrder, RefuseLoad, AnswerLoad,
          CancelFound, CancelNotFound, Demo, Read, AnswerReport, loadVars
    <3>2. pc' = pc \/ \E to : pc' = [pc EXCEPT ![q] = to]
      BY <1>3, <2>5, ThreadCases
      DEF Step, SubmitAndCount, Handle, EnterBook, Match, LeaveBook, LoadField, StoreField, Goto,
          RefuseOrder, StampOrder, DrawOrderId, AnswerOrder, RefuseLoad, AnswerLoad,
          CancelFound, CancelNotFound, Demo, Read, AnswerReport
    <3> QED
      BY <1>1, <2>1, <2>3, <3>1, <3>2 DEF FlightInv
  <2> QED
    BY <2>4, <2>5
<1> QED
  BY <1>2, <1>3 DEF Thread

\* Only its handler answers a load test.
LEMMA LoadAnswers ==
  ASSUME CancelInv, PlaceInv, NEW q \in Thread, Step(q), NEW r \in Request, kind[r] = "load"
  PROVE  /\ kind' = kind
         /\ answer'[r] = answer[r] \/ (r = q /\ (RefuseLoad(r) \/ AnswerLoad(r)))
<1>1. CASE q \in Worker
  BY <1>1, ThreadCases
  DEF Step, SubmitAndCount, Work, EnterBook, Match, LeaveBook, LoadField, StoreField,
      ConstructOrder, StampConstructed, Tally, NextIndex
<1>2. CASE q \in Request
  <2>1. kind' = kind
    BY <1>2, ThreadCases
    DEF Step, SubmitAndCount, Handle, EnterBook, Match, LeaveBook, LoadField, StoreField,
        RefuseOrder, StampOrder, DrawOrderId, AnswerOrder, RefuseLoad, RunLoad, AnswerLoad,
        CancelFound, CancelNotFound, Demo, Read, AnswerReport
  <2>2. answer' = answer \/ \E response : Respond(q, response)
    BY <1>2, ThreadCases
    DEF Step, SubmitAndCount, Handle, EnterBook, Match, LeaveBook, LoadField, StoreField,
        RefuseOrder, StampOrder, DrawOrderId, AnswerOrder, RefuseLoad, RunLoad, AnswerLoad,
        CancelFound, CancelNotFound, Demo, Read, AnswerReport
  <2>3. r # q => answer'[r] = answer[r]
    BY <2>2 DEF CancelInv, Respond
  <2>4. r = q => answer'[r] = answer[r] \/ RefuseLoad(r) \/ AnswerLoad(r)
    <3>1. r = q => pc[r] \in {"begin", "answered", "loading"}
      BY ThreadCases DEF PlaceInv, AtPlace
    <3>2. kind[r] \notin DOMAIN Report
      BY DEF Report
    <3> QED
      BY <1>2, <3>1, <3>2, ThreadCases
      DEF Step, SubmitAndCount, Handle, EnterBook, Match, LeaveBook, LoadField, StoreField, Goto,
          RefuseOrder, StampOrder, DrawOrderId, AnswerOrder, RunLoad,
          CancelFound, CancelNotFound, Demo, Read, AnswerReport
  <2> QED
    BY <2>1, <2>3, <2>4
<1> QED
  BY <1>1, <1>2 DEF Thread

\* When all workers are through, all indices are done.
LEMMA AllDone ==
  ASSUME SharesInv, PlaceInv, HandInv, NEW r \in Request,
         \A t \in 0 .. load[r].num_threads - 1 : Finished(<<r, t>>)
  PROVE  load[r].completed_orders =
           IF load[r].num_threads = 0 THEN 0 ELSE load[r].num_orders
<1>1. CASE load[r].num_threads = 0
  <2>1. Done(r) = {}
    BY <1>1 DEF Done
  <2> QED
    BY <1>1, <2>1, FS_EmptySet DEF SharesInv
<1>2. CASE load[r].num_threads # 0
  <2>1. PICK n \in 1 .. MaxThreads, N \in Nat : n = load[r].num_threads /\ N = load[r].num_orders
    BY <1>2, LoadFields
  <2>2. ASSUME NEW i \in 0 .. N - 1 PROVE Worked(<<r, i % n>>, i)
    <3>1. i \in Nat /\ n \in Nat
      BY <2>1, LoadAssumption
    <3>2. <<r, i % n>> \in Worker /\ i % n \in 0 .. n - 1
      BY <3>1, ShareWorker
    <3>3. Finished(<<r, i % n>>)
      BY <2>1, <3>2
    <3>4. next[<<r, i % n>>] >= N /\ next[<<r, i % n>>] \in Nat
      BY <2>1, <3>2, <3>3 DEF Finished, LoadOf, HandInv
    <3> QED
      BY <3>1, <3>4 DEF Worked
  <2>3. Done(r) = 0 .. N - 1
    BY <1>2, <2>1, <2>2 DEF Done
  <2>4. Cardinality(0 .. N - 1) = N
    BY <2>1, FS_Interval
  <2> QED
    BY <1>2, <2>1, <2>3, <2>4 DEF SharesInv
<1> QED
  BY <1>1, <1>2

LEMMA StepAnswers ==
  ASSUME AnswerInv, CancelInv, SharesInv, PlaceInv, HandInv, FlightInv, NEW q \in Thread, Step(q)
  PROVE  AnswerInv'
<1> SUFFICES ASSUME NEW r \in Request, kind'[r] = "load", answer'[r] # NoAnswer
             PROVE  /\ pc'[r] = "answered"
                    /\ answer'[r].status = 200 =>
                         answer'[r].orders_submitted =
                           IF load'[r].num_threads = 0 THEN 0 ELSE load'[r].num_orders
  BY DEF AnswerInv
<1>1. kind[r] = "load"
  BY CancelSteps
<1>2. CASE answer'[r] = answer[r]
  BY <1>1, <1>2, AnsweredStays DEF AnswerInv
<1>3. CASE r = q /\ RefuseLoad(r)
  BY <1>3, ThreadCases DEF RefuseLoad, Goto, Respond, CancelInv, PlaceInv
<1>4. CASE r = q /\ AnswerLoad(r)
  <2>1. /\ pc'[r] = "answered" /\ load' = load
        /\ answer'[r].orders_submitted = load[r].completed_orders
    BY <1>4, ThreadCases DEF AnswerLoad, Goto, Respond, CancelInv, PlaceInv, loadVars
  <2>2. \A t \in 0 .. load[r].num_threads - 1 : Finished(<<r, t>>)
    BY <1>4 DEF AnswerLoad
  <2> QED
    BY <2>1, <2>2, AllDone
<1> QED
  BY <1>1, <1>2, <1>3, <1>4, LoadAnswers

LEMMA QuietAnswers ==
  ASSUME AnswerInv, UNCHANGED vars
  PROVE  AnswerInv'
BY DEF AnswerInv, vars, loadVars

LEMMA NextAnswers ==
  AnswerInv /\ CancelInv /\ SharesInv /\ ServerInv /\ FlightInv /\ [Next]_vars => AnswerInv'
BY StepAnswers, QuietAnswers DEF Next, Quiet, ServerInv

LEMMA InitAnswers == Init => AnswerInv
BY DEF Init, AnswerInv

\* The answer of a load test, once given, says what its workers did.
THEOREM AnswerInvariance == Spec => []AnswerInv
BY InitAnswers, NextAnswers, CancelInvariance, SharesInvariance, ServerInvariance,
   FlightInvariance, PTL
DEF Spec

\* Whatever the number of workers, a load test that answers has submitted all
\* its orders, each once; without workers it has submitted none.
THEOREM LoadsAreComplete == Spec => []LoadIsComplete
<1>1. AnswerInv => LoadIsComplete
  <2>1. NoAnswer.status # 200
    BY DEF NoAnswer
  <2> QED
    BY <2>1 DEF AnswerInv, LoadIsComplete
<1> QED
  BY <1>1, AnswerInvariance, PTL

================================================================================
