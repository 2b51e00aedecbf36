-------------------------- MODULE TradingServerProofs --------------------------
(***************************************************************************)
(* Invariants of the server: where each thread is and what it has in hand, *)
(* one holder of the book's lock, and every trade in one answer.           *)
(***************************************************************************)
EXTENDS TradingServerBook, FiniteSetTheorems, SequenceTheorems

-------------------------------------------------------------------------------
\* One holder of the lock.

\* A thread is in addOrder exactly while the lock is held, and no two are.
LockInv ==
  /\ incoming = NoOrder <=> \A q \in Thread : pc[q] # "matching"
  /\ \A p, q \in Thread : pc[p] = "matching" /\ pc[q] = "matching" => p = q

\* The steps of threads that neither hold the lock over the step nor take it.
OutsideBook(q) ==
  \/ LoadField(q) \/ StoreField(q)
  \/ q \in Request /\ \/ RefuseOrder(q) \/ StampOrder(q) \/ DrawOrderId(q) \/ AnswerOrder(q)
                      \/ RefuseLoad(q) \/ RunLoad(q) \/ AnswerLoad(q)
                      \/ CancelFound(q) \/ CancelNotFound(q)
                      \/ Demo(q) \/ Read(q) \/ AnswerReport(q)
  \/ q \in Worker /\ (ConstructOrder(q) \/ StampConstructed(q) \/ Tally(q) \/ NextIndex(q))

LEMMA BookCases ==
  ASSUME NEW q \in Thread, Step(q)
  PROVE  EnterBook(q) \/ Match(q) \/ LeaveBook(q) \/ OutsideBook(q)
BY DEF Step, SubmitAndCount, Handle, Work, OutsideBook

\* They do not trade, and nobody comes to hold the lock.
LEMMA OutsideBookFrame ==
  ASSUME FlightInv, NEW q \in Thread, OutsideBook(q)
  PROVE  /\ UNCHANGED <<incoming, trades, tradeLog, submitted>>
         /\ \A p \in Thread : pc'[p] = "matching" => pc[p] = "matching"
<1>1. UNCHANGED <<incoming, trades, tradeLog, submitted>>
  <2>1. CancelFound(q) => UNCHANGED <<incoming, trades, tradeLog, submitted>>
    BY DEF CancelFound, Book!CancelOrder
  <2>2. Demo(q) => UNCHANGED <<incoming, trades, tradeLog, submitted>>
    BY DEF Demo, Book!DrawTradeId
  <2> QED
    BY <2>1, <2>2
    DEF OutsideBook, bookVars, LoadField, StoreField, RefuseOrder, StampOrder, DrawOrderId,
        AnswerOrder, RefuseLoad, RunLoad, AnswerLoad, CancelNotFound, Read, AnswerReport,
        ConstructOrder, StampConstructed, Tally, NextIndex
<1>2. CASE RunLoad(q)
  BY <1>1, <1>2 DEF RunLoad, FlightInv
<1>3. CASE \E to : pc' = [pc EXCEPT ![q] = to] /\ to # "matching"
  BY <1>1, <1>3 DEF FlightInv
<1>4. CASE pc' = pc
  BY <1>1, <1>4
<1> QED
  BY <1>2, <1>3, <1>4
  DEF OutsideBook, Goto, LoadField, StoreField, RefuseOrder, StampOrder, DrawOrderId,
      AnswerOrder, RefuseLoad, AnswerLoad, CancelFound, CancelNotFound, Demo, Read, AnswerReport,
      ConstructOrder, StampConstructed, Tally, NextIndex

-------------------------------------------------------------------------------
\* Where the threads are, and what they have in hand.

AnyPlace == {"begin", "stamped", "ready", "matching", "counting", "answered",
             "loading", "loop", "drawn", "tallying"}

\* A handler is at its endpoint's places; a worker runs once its load test
\* has started it.
AtPlace(q) ==
  \/ /\ q \in Request
     /\ \/ pc[q] \in {"begin", "answered"}
        \/ kind[q] = "post" /\ pc[q] \in {"stamped", "ready", "matching", "counting"}
        \/ kind[q] = "load" /\ pc[q] = "loading"
  \/ /\ q \in Worker
     /\ \/ pc[q] = "begin"
        \/ /\ pc[q] \in {"loop", "drawn", "ready", "matching", "tallying", "counting"}
           /\ kind[q[1]] = "load" /\ pc[q[1]] \in {"loading", "answered"}
           /\ q[2] < LoadOf(q).num_threads

Load == [num_orders : 0 .. MaxOrders, num_threads : 0 .. MaxThreads,
         completed_orders : Nat, total_trades : Nat]

PlaceInv ==
  /\ pc \in [Thread -> AnyPlace]
  /\ kind \in [Request -> Kind]
  /\ load \in [Request -> Load]
  /\ \A q \in Thread : AtPlace(q)

\* A thread of its own.
LEMMA ThreadCases ==
  /\ \A r \in Request : r \in Thread /\ r \notin Worker
  /\ \A w \in Worker : w \in Thread /\ w \notin Request /\ w[1] \in Request /\ w[1] # w
BY ThreadAssumption DEF Thread, Worker

LEMMA HandlerMoves ==
  ASSUME PlaceInv, NEW r \in Request, NEW from, NEW to, Goto(r, from, to),
         kind' = kind, load' = load,
         \/ from = "begin" /\ to = "answered"
         \/ kind[r] = "post" /\ to \in {"stamped", "ready", "matching", "counting", "answered"}
         \/ kind[r] = "load" /\ to = "answered"
  PROVE  PlaceInv'
<1> USE ThreadCases DEF PlaceInv, Goto
<1>1. pc' \in [Thread -> AnyPlace] /\ pc'[r] = to /\ to \in AnyPlace
  BY DEF AnyPlace
<1>2. \A p \in Thread \ {r} : pc'[p] = pc[p]
  OBVIOUS
<1>3. AtPlace(r)'
  BY <1>1 DEF AtPlace
<1>4. ASSUME NEW p \in Thread \ {r} PROVE AtPlace(p)'
  <2>1. CASE p \in Request
    BY <1>2, <2>1 DEF AtPlace
  <2>2. CASE p \in Worker
    BY <1>1, <1>2, <2>2 DEF AtPlace, LoadOf
  <2> QED
    BY <2>1, <2>2 DEF Thread
<1> QED
  BY <1>1, <1>3, <1>4

LEMMA WorkerMoves ==
  ASSUME PlaceInv, NEW w \in Worker, NEW from, NEW to, Goto(w, from, to), from # "begin",
         to \in {"loop", "drawn", "ready", "matching", "tallying", "counting"},
         kind' = kind, load' \in [Request -> Load],
         \A r \in Request : load'[r].num_threads = load[r].num_threads
  PROVE  PlaceInv'
<1> USE ThreadCases DEF PlaceInv, Goto
<1>1. pc' \in [Thread -> AnyPlace] /\ pc'[w] = to
  BY DEF AnyPlace
<1>2. \A p \in Thread \ {w} : pc'[p] = pc[p]
  OBVIOUS
<1>3. AtPlace(w)'
  BY <1>1, <1>2 DEF AtPlace, LoadOf
<1>4. ASSUME NEW p \in Thread \ {w} PROVE AtPlace(p)'
  <2>1. CASE p \in Request
    BY <1>2, <2>1 DEF AtPlace
  <2>2. CASE p \in Worker
    BY <1>2, <2>2 DEF AtPlace, LoadOf
  <2> QED
    BY <2>1, <2>2 DEF Thread
<1> QED
  BY <1>1, <1>3, <1>4

LEMMA RunLoadPlace ==
  ASSUME PlaceInv, NEW r \in Request, RunLoad(r)
  PROVE  PlaceInv'
<1> USE ThreadCases DEF PlaceInv
<1>1. PICK num_orders \in 1 .. MaxOrders, num_threads \in 0 .. MaxThreads :
        /\ load' = [load EXCEPT ![r] = NewLoad(num_orders, num_threads)]
        /\ pc' = [q \in Thread |-> CASE q = r -> "loading"
                                     [] q \in {r} \X (0 .. num_threads - 1) -> "loop"
                                     [] OTHER -> pc[q]]
  BY DEF RunLoad
<1>2. kind[r] = "load" /\ pc[r] = "begin" /\ kind' = kind
  BY DEF RunLoad
<1> DEFINE started == {r} \X (0 .. num_threads - 1)
<1>3. started \subseteq Worker
  BY LoadAssumption DEF Worker
<1>4. /\ pc'[r] = "loading"
      /\ \A q \in started : pc'[q] = "loop"
      /\ \A q \in Thread : q # r /\ q \notin started => pc'[q] = pc[q]
  BY <1>1, <1>3
<1>5. pc' \in [Thread -> AnyPlace]
  <2>1. \A q \in Thread : pc'[q] \in AnyPlace
    BY <1>4 DEF AnyPlace
  <2> QED
    BY <1>1, <2>1
<1>6. load' \in [Request -> Load]
  BY <1>1, LoadAssumption DEF Load, NewLoad
<1>7. /\ load'[r].num_threads = num_threads
      /\ \A q \in Request \ {r} : load'[q] = load[q]
  BY <1>1 DEF NewLoad
<1> HIDE DEF started
<1>8. ASSUME NEW q \in Thread PROVE AtPlace(q)'
  <2>1. CASE q = r
    BY <1>2, <1>4, <2>1 DEF AtPlace
  <2>2. CASE q \in Request \ {r}
    BY <1>2, <1>3, <1>4, <2>2 DEF AtPlace
  <2>3. CASE q \in started
    BY <1>2, <1>3, <1>4, <1>7, <2>3 DEF AtPlace, LoadOf, started
  <2>4. CASE q \in Worker \ started
    <3>1. pc'[q] = pc[q]
      BY <1>4, <2>4
    <3>2. CASE q[1] = r
      BY <1>2, <3>1, <3>2, <2>4 DEF AtPlace
    <3>3. CASE q[1] # r
      <4>1. /\ q[1] \in Request /\ pc'[q[1]] = pc[q[1]] /\ load'[q[1]] = load[q[1]]
        BY <1>3, <1>4, <1>7, <3>3, <2>4
      <4> QED
        BY <1>2, <2>4, <3>1, <4>1 DEF AtPlace, LoadOf
    <3> QED
      BY <3>2, <3>3
  <2> QED
    BY <2>1, <2>2, <2>3, <2>4 DEF Thread
<1> QED
  BY <1>2, <1>5, <1>6, <1>8

LEMMA Tallied ==
  ASSUME NEW l \in Load, NEW n \in Nat
  PROVE  LET new == [l EXCEPT !.completed_orders = @ + 1, !.total_trades = @ + n]
         IN  /\ new \in Load /\ new.num_threads = l.num_threads
             /\ new.num_orders = l.num_orders
             /\ new.completed_orders = l.completed_orders + 1
             /\ new.total_trades = l.total_trades + n
<1> DEFINE new == [l EXCEPT !.completed_orders = @ + 1, !.total_trades = @ + n]
<1>1. /\ l.num_orders \in 0 .. MaxOrders /\ l.num_threads \in 0 .. MaxThreads
      /\ l.completed_orders \in Nat /\ l.total_trades \in Nat
      /\ l = [num_orders |-> l.num_orders, num_threads |-> l.num_threads,
              completed_orders |-> l.completed_orders, total_trades |-> l.total_trades]
  BY DEF Load
<1> DEFINE m == [l EXCEPT !.completed_orders = l.completed_orders + 1]
<1>2. m = [num_orders |-> l.num_orders, num_threads |-> l.num_threads,
           completed_orders |-> l.completed_orders + 1, total_trades |-> l.total_trades]
  BY <1>1
<1>3. new = [m EXCEPT !.total_trades = l.total_trades + n]
  BY Zenon
<1> HIDE DEF m
<1>4. [m EXCEPT !.total_trades = l.total_trades + n] =
         [num_orders |-> l.num_orders, num_threads |-> l.num_threads,
          completed_orders |-> l.completed_orders + 1, total_trades |-> l.total_trades + n]
  BY <1>2
<1>5. new \in Load
  BY <1>1, <1>3, <1>4 DEF Load
<1> QED
  BY <1>3, <1>4, <1>5

LEMMA TallyLoad ==
  ASSUME PlaceInv, NEW w \in Worker, executed[w] \in Seq(Trade), Tally(w)
  PROVE  /\ load' \in [Request -> Load]
         /\ \A r \in Request \ {w[1]} : load'[r] = load[r]
         /\ load'[w[1]].num_threads = LoadOf(w).num_threads
         /\ load'[w[1]].num_orders = LoadOf(w).num_orders
         /\ load'[w[1]].completed_orders = LoadOf(w).completed_orders + 1
         /\ load'[w[1]].total_trades = LoadOf(w).total_trades + Len(executed[w])
<1>1. w[1] \in Request /\ Len(executed[w]) \in Nat
  BY ThreadCases, LenProperties
<1>2. load[w[1]] \in Load
  BY <1>1 DEF PlaceInv
<1> DEFINE new == [load[w[1]] EXCEPT !.completed_orders = @ + 1,
                                     !.total_trades = @ + Len(executed[w])]
<1>3. load' = [load EXCEPT ![w[1]] = new]
  BY <1>1 DEF Tally, PlaceInv
<1>4. /\ new \in Load /\ new.num_threads = LoadOf(w).num_threads
      /\ new.num_orders = LoadOf(w).num_orders
      /\ new.completed_orders = LoadOf(w).completed_orders + 1
      /\ new.total_trades = LoadOf(w).total_trades + Len(executed[w])
  BY <1>1, <1>2, Tallied DEF LoadOf
<1> HIDE DEF new
<1> QED
  BY <1>1, <1>3, <1>4 DEF PlaceInv

\* What the threads have in hand: a field is loaded only while a trade is
\* being counted.
Counting(q) ==
  /\ pc[q] = "counting" /\ todo[q] # <<>>
  /\ register[q] \in Field \X Int

HandInv ==
  /\ executed \in [Thread -> Seq(Trade)] /\ todo \in [Thread -> Seq(Trade)]
  /\ left \in [Thread -> SUBSET Field] /\ DOMAIN register = Thread
  /\ next \in [Worker -> Nat] /\ stats \in [Field -> Int] /\ raced \subseteq Field
  /\ \A q \in Thread : /\ register[q] = <<>> \/ Counting(q)
                       /\ order[q] # NoOrder => order[q].id \in OrderId \cup {0}

LEMMA KeepsHands ==
  ASSUME HandInv, UNCHANGED <<statVars, executed, next>>,
         \A q \in Thread : Counting(q) => pc'[q] = "counting",
         \A q \in Thread : order'[q] = order[q] \/ order'[q].id \in OrderId \cup {0}
  PROVE  HandInv'
BY DEF HandInv, Counting, statVars

LEMMA WrappedType ==
  ASSUME NEW n \in Int
  PROVE  Wrapped(n) \in Int
<1>1. /\ IntMax \in Nat /\ 2 * (IntMax + 1) \in Nat \ {0}
      /\ n + IntMax + 1 \in Int
  BY LoadAssumption
<1>2. \A a \in Int, b \in Nat \ {0} : a % b \in Int
  OBVIOUS
<1> QED
  BY <1>1, <1>2 DEF Wrapped

LEMMA UpdatedType ==
  ASSUME NEW f \in Field, NEW old \in Int, NEW trade \in Trade
  PROVE  Updated(f, old, trade) \in Int
<1>1. trade.price \in Nat /\ trade.quantity \in Nat
  BY DEF Trade
<1>2. trade.price * trade.quantity \in Nat
  BY <1>1
<1>3. f \in {"total_trades", "total_volume", "total_value", "min_price", "max_price"}
  BY FieldAssumption
<1>4. Wrapped(old + 1) \in Int /\ Wrapped(old + trade.quantity) \in Int
  BY <1>1, WrappedType
<1> QED
  BY <1>1, <1>2, <1>3, <1>4 DEF Updated

LEMMA LeaveBookHands ==
  ASSUME HandInv, BookInv, FlightInv, NEW q \in Thread, LeaveBook(q)
  PROVE  HandInv'
<1> USE DEF HandInv
<1>1. trades \in Seq(Trade)
  BY BookTypes
<1>2. /\ executed' = [executed EXCEPT ![q] = trades] /\ todo' = [todo EXCEPT ![q] = trades]
      /\ left' = [left EXCEPT ![q] = Field]
      /\ UNCHANGED <<register, stats, raced, next, order>>
      /\ pc[q] = "matching" /\ \A p \in Thread \ {q} : pc'[p] = pc[p]
  BY DEF LeaveBook, Goto, loadVars, FlightInv
<1>3. \A p \in Thread \ {q} : todo'[p] = todo[p]
  BY <1>2
<1>4. register[q] = <<>>
  BY <1>2 DEF Counting
<1>5. \A p \in Thread : register'[p] = <<>> \/ Counting(p)'
  BY <1>2, <1>3, <1>4 DEF Counting
<1> QED
  BY <1>1, <1>2, <1>5

LEMMA LoadFieldHands ==
  ASSUME HandInv, NEW q \in Thread, LoadField(q)
  PROVE  HandInv'
<1> USE DEF HandInv
<1>1. PICK f \in left[q] :
        /\ register' = [register EXCEPT ![q] = <<f, stats[f]>>]
        /\ raced' = raced \/ raced' = raced \cup {f}
  BY DEF LoadField
<1>2. /\ UNCHANGED <<executed, todo, left, next, stats, order, pc>>
      /\ pc[q] = "counting" /\ todo[q] # <<>>
  BY DEF LoadField, postVars, loadVars
<1>3. f \in Field /\ stats[f] \in Int
  BY <1>1
<1>4. \A p \in Thread : register'[p] = <<>> \/ Counting(p)'
  BY <1>1, <1>2, <1>3 DEF Counting
<1> QED
  BY <1>1, <1>2, <1>3, <1>4

LEMMA StoreFieldHands ==
  ASSUME HandInv, NEW q \in Thread, StoreField(q)
  PROVE  HandInv'
<1> USE DEF HandInv
<1> DEFINE f     == register[q][1]
           value == Updated(f, register[q][2], Head(todo[q]))
<1>1. Counting(q) /\ f \in Field /\ register[q][2] \in Int
  BY DEF StoreField, Counting
<1>2. Head(todo[q]) \in Trade /\ Tail(todo[q]) \in Seq(Trade)
  BY <1>1, HeadTailProperties DEF Counting
<1>3. value \in Int
  BY <1>1, <1>2, UpdatedType
<1>4. /\ stats' = stats \/ stats' = [stats EXCEPT ![f] = value]
      /\ \E rest \in SUBSET Field : left' = [left EXCEPT ![q] = rest]
      /\ todo' = todo \/ todo' = [todo EXCEPT ![q] = Tail(@)]
      /\ register' = [register EXCEPT ![q] = <<>>]
      /\ UNCHANGED <<executed, next, raced, order, pc>>
  BY DEF StoreField, postVars, loadVars
<1> HIDE DEF f, value
<1>5. stats' \in [Field -> Int]
  BY <1>1, <1>3, <1>4
<1>6. todo' \in [Thread -> Seq(Trade)] /\ \A p \in Thread \ {q} : todo'[p] = todo[p]
  BY <1>2, <1>4
<1>7. \A p \in Thread : register'[p] = <<>> \/ Counting(p)'
  BY <1>4, <1>6 DEF Counting
<1>8. left' \in [Thread -> SUBSET Field] /\ DOMAIN register' = Thread
  BY <1>4
<1>9. \A p \in Thread : order'[p] # NoOrder => order'[p].id \in OrderId \cup {0}
  BY <1>4
<1> QED
  BY <1>4, <1>5, <1>6, <1>7, <1>8, <1>9

LEMMA HandlerTypes ==
  ASSUME PlaceInv, HandInv, FlightInv, NEW r \in Request, Handle(r)
  PROVE  PlaceInv' /\ HandInv'
<1>1. CASE RunLoad(r)
  <2>1. PlaceInv'
    BY <1>1, RunLoadPlace
  <2>2. next' \in [Worker -> Nat]
    BY <1>1 DEF RunLoad, HandInv, Worker
  <2>3. /\ UNCHANGED <<statVars, postVars>>
        /\ \A q \in Thread : Counting(q) => pc'[q] = "counting"
    <3>1. UNCHANGED <<statVars, postVars>>
      BY <1>1 DEF RunLoad
    <3>2. ASSUME NEW q \in Thread, Counting(q) PROVE pc'[q] = "counting"
      <4>1. q # r
        BY <1>1, <3>2 DEF RunLoad, Counting
      <4>2. CASE q[1] = r /\ q \in Worker
        BY <1>1, <3>2, <4>2, ThreadCases DEF RunLoad, Counting, PlaceInv, AtPlace
      <4>3. \A n : q \in {r} \X n => q[1] = r
        OBVIOUS
      <4>4. \A num_threads \in 0 .. MaxThreads :
              {r} \X (0 .. num_threads - 1) \subseteq Worker
        BY LoadAssumption DEF Worker
      <4> QED
        BY <1>1, <3>2, <4>1, <4>2, <4>3, <4>4 DEF RunLoad, Counting
    <3> QED
      BY <3>1, <3>2
  <2> QED
    BY <2>1, <2>2, <2>3 DEF HandInv, Counting, statVars, postVars
<1>2. CASE StampOrder(r) \/ DrawOrderId(r)
  <2>1. PlaceInv'
    <3>1. PICK from, to : /\ Goto(r, from, to) /\ from \in {"begin", "stamped"}
                          /\ to \in {"stamped", "ready"}
                          /\ from = "begin" => kind[r] = "post"
      BY <1>2 DEF StampOrder, DrawOrderId
    <3>2. kind[r] = "post" /\ kind' = kind /\ load' = load
      BY <1>2, <3>1, ThreadCases DEF StampOrder, DrawOrderId, loadVars, PlaceInv, AtPlace, Goto
    <3> QED
      BY <3>1, <3>2, HandlerMoves
  <2>2. /\ UNCHANGED <<statVars, executed, next>>
        /\ pc[r] # "counting" /\ \A q \in Thread \ {r} : pc'[q] = pc[q] /\ order'[q] = order[q]
    BY <1>2 DEF StampOrder, DrawOrderId, loadVars, Goto, FlightInv
  <2>3. order'[r].id \in OrderId \cup {0}
    <3>1. CASE StampOrder(r)
      BY <3>1, ValidOrderFields, ThreadCases DEF StampOrder, FlightInv
    <3>2. CASE DrawOrderId(r)
      <4>1. PICK stamp \in Stamp : order[r] \in ValidOrder(0, stamp)
        BY <3>2, ThreadCases DEF DrawOrderId, FlightInv, InFlight, Goto
      <4>2. order'[r] = [order[r] EXCEPT !.id = order_id_counter]
        BY <3>2, ThreadCases DEF DrawOrderId, FlightInv
      <4>3. order'[r] \in ValidOrder(order_id_counter, stamp)
        BY <4>1, <4>2, ValidOrderFields
      <4>4. order'[r].id = order_id_counter
        BY <4>3, ValidOrderFields
      <4> QED
        BY <3>2, <4>4 DEF DrawOrderId
    <3> QED
      BY <1>2, <3>1, <3>2
  <2>4. HandInv'
    BY <2>2, <2>3, KeepsHands DEF Counting
  <2> QED
    BY <2>1, <2>4
<1>3. CASE Read(r)
  BY <1>3, KeepsHands
  DEF Read, PlaceInv, AtPlace, LoadOf, statVars, postVars, loadVars, Counting
<1>4. CASE \/ RefuseOrder(r) \/ AnswerOrder(r) \/ RefuseLoad(r) \/ AnswerLoad(r)
           \/ CancelFound(r) \/ CancelNotFound(r) \/ Demo(r) \/ AnswerReport(r)
  <2>1. PICK from : /\ Goto(r, from, "answered")
                    /\ \/ from = "begin"
                       \/ from = "counting" /\ todo[r] = <<>>
                       \/ from = "loading"
    BY <1>4 DEF RefuseOrder, AnswerOrder, RefuseLoad, AnswerLoad, CancelFound, CancelNotFound,
                Demo, AnswerReport
  <2>2. UNCHANGED <<statVars, postVars, loadVars, kind>>
    BY <1>4 DEF RefuseOrder, AnswerOrder, RefuseLoad, AnswerLoad, CancelFound, CancelNotFound,
                Demo, AnswerReport
  <2>3. \/ from = "begin"
        \/ from = "counting" /\ kind[r] = "post"
        \/ from = "loading" /\ kind[r] = "load"
    BY <2>1, ThreadCases DEF PlaceInv, AtPlace, Goto
  <2>4. PlaceInv'
    BY <2>1, <2>2, <2>3, HandlerMoves DEF loadVars
  <2>5. HandInv'
    BY <2>1, <2>2, KeepsHands DEF Goto, Counting, PlaceInv, postVars, loadVars
  <2> QED
    BY <2>4, <2>5
<1> QED
  BY <1>1, <1>2, <1>3, <1>4 DEF Handle

LEMMA WorkerTypes ==
  ASSUME PlaceInv, HandInv, FlightInv, NEW w \in Worker, Work(w)
  PROVE  PlaceInv' /\ HandInv'
<1>1. w \in Thread
  BY ThreadCases
<1>2. PICK from, to :
        /\ Goto(w, from, to) /\ from # "begin"
        /\ to \in {"loop", "drawn", "ready", "tallying", "counting"}
        /\ from = "counting" => todo[w] = <<>>
  BY DEF Work, ConstructOrder, StampConstructed, Tally, NextIndex
<1>3. kind' = kind /\ UNCHANGED statVars
  BY DEF Work, ConstructOrder, StampConstructed, Tally, NextIndex
<1>4. executed[w] \in Seq(Trade) /\ load \in [Request -> Load]
  BY <1>1 DEF HandInv, PlaceInv
<1>5. /\ load' \in [Request -> Load]
      /\ \A r \in Request : load'[r].num_threads = load[r].num_threads
  <2>1. CASE Tally(w)
    BY <1>4, <2>1, TallyLoad DEF LoadOf
  <2>2. CASE load' = load
    BY <1>4, <2>2
  <2> QED
    BY <2>1, <2>2 DEF Work, ConstructOrder, StampConstructed, NextIndex, loadVars
<1>6. PlaceInv'
  BY <1>2, <1>3, <1>5, WorkerMoves
<1>7. \A q \in Thread : Counting(q) => pc'[q] = "counting"
  BY <1>2 DEF Goto, Counting, PlaceInv
<1>8. CASE ConstructOrder(w) \/ StampConstructed(w) \/ Tally(w)
  <2>1. UNCHANGED <<executed, next>> /\ \A q \in Thread \ {w} : order'[q] = order[q]
    BY <1>8 DEF ConstructOrder, StampConstructed, Tally, loadVars, postVars, FlightInv
  <2>2. order'[w] = order[w] \/ order'[w].id \in OrderId \cup {0}
    <3>1. CASE ConstructOrder(w)
      BY <1>1, <3>1, ValidOrderFields DEF ConstructOrder, FlightInv
    <3>2. CASE StampConstructed(w)
      <4>1. /\ order[w] \in ValidOrder(order[w].id, Unset) /\ order[w].id \in OrderId
            /\ order'[w] = [order[w] EXCEPT !.timestamp = now']
        BY <1>1, <3>2 DEF StampConstructed, FlightInv, InFlight, Goto, Drawn
      <4>2. order'[w] \in ValidOrder(order[w].id, now')
        BY <4>1, ValidOrderFields
      <4>3. order'[w].id = order[w].id
        BY <4>2, ValidOrderFields
      <4> QED
        BY <4>1, <4>3
    <3>3. CASE Tally(w)
      BY <3>3 DEF Tally, postVars
    <3> QED
      BY <1>8, <3>1, <3>2, <3>3
  <2>3. HandInv'
    BY <1>3, <1>7, <2>1, <2>2, KeepsHands
  <2> QED
    BY <1>6, <2>3
<1>9. CASE NextIndex(w)
  <2>1. w[1] \in Request /\ load[w[1]].num_threads \in Nat
    BY <1>4, ThreadCases DEF Load
  <2>2. next' \in [Worker -> Nat]
    BY <1>9, <2>1 DEF NextIndex, HandInv, LoadOf
  <2>3. executed' \in [Thread -> Seq(Trade)]
    BY <1>1, <1>9, EmptySeq DEF NextIndex, HandInv
  <2>4. \A q \in Thread : order'[q] = NoOrder \/ order'[q] = order[q]
    BY <1>9 DEF NextIndex, FlightInv
  <2>5. HandInv'
    BY <1>3, <1>7, <2>2, <2>3, <2>4 DEF HandInv, Counting, statVars
  <2> QED
    BY <1>6, <2>5
<1> QED
  BY <1>8, <1>9 DEF Work

LEMMA SubmitTypes ==
  ASSUME PlaceInv, HandInv, FlightInv, BookInv, NEW q \in Thread, SubmitAndCount(q)
  PROVE  PlaceInv' /\ HandInv'
<1>1. CASE Match(q) \/ LoadField(q) \/ StoreField(q)
  <2>1. UNCHANGED <<pc, kind, load>>
    BY <1>1 DEF Match, LoadField, StoreField, loadVars
  <2>2. PlaceInv'
    BY <2>1 DEF PlaceInv, AtPlace, LoadOf
  <2>3. Match(q) => HandInv'
    BY <2>1, KeepsHands DEF Match, postVars, loadVars, Counting
  <2> QED
    BY <1>1, <2>2, <2>3, LoadFieldHands, StoreFieldHands
<1>2. CASE EnterBook(q) \/ LeaveBook(q)
  <2>1. PICK from, to :
          /\ Goto(q, from, to) /\ from \in {"ready", "matching"}
          /\ \/ to = "matching"
             \/ q \in Worker /\ to = "tallying"
             \/ q \notin Worker /\ to = "counting"
    BY <1>2 DEF EnterBook, LeaveBook
  <2>2. UNCHANGED <<load, kind>>
    BY <1>2 DEF EnterBook, LeaveBook, loadVars
  <2>3. PlaceInv'
    <3>1. CASE q \in Request
      <4>1. kind[q] = "post" /\ to \in {"matching", "counting"}
        BY <2>1, <3>1, ThreadCases DEF PlaceInv, AtPlace, Goto
      <4> QED
        BY <2>1, <2>2, <3>1, <4>1, HandlerMoves
    <3>2. CASE q \in Worker
      BY <2>1, <2>2, <3>2, WorkerMoves DEF PlaceInv
    <3> QED
      BY <3>1, <3>2 DEF Thread
  <2>4. EnterBook(q) => HandInv'
    BY <2>1, KeepsHands DEF EnterBook, postVars, loadVars, Counting, Goto, PlaceInv
  <2> QED
    BY <1>2, <2>3, <2>4, LeaveBookHands
<1> QED
  BY <1>1, <1>2 DEF SubmitAndCount

\* Nor does anybody who holds the lock lose it.
LEMMA OutsideBookKeeps ==
  ASSUME PlaceInv, NEW q \in Thread, OutsideBook(q), NEW p \in Thread, pc[p] = "matching"
  PROVE  pc'[p] = "matching"
<1>1. CASE RunLoad(q) /\ q \in Request
  <2>1. p # q
    BY <1>1 DEF RunLoad
  <2>2. p \in Worker => p[1] # q
    BY <1>1, ThreadCases DEF RunLoad, PlaceInv, AtPlace
  <2>3. \A n : p \in {q} \X n => p[1] = q
    OBVIOUS
  <2>4. \A num_threads \in 0 .. MaxThreads : {q} \X (0 .. num_threads - 1) \subseteq Worker
    BY <1>1, LoadAssumption DEF Worker
  <2> QED
    BY <1>1, <2>1, <2>2, <2>3, <2>4 DEF RunLoad
<1>2. CASE \E from, to : Goto(q, from, to) /\ from # "matching"
  BY <1>2 DEF PlaceInv, Goto
<1>3. CASE pc' = pc
  BY <1>3
<1> QED
  BY <1>1, <1>2, <1>3
  DEF OutsideBook, LoadField, StoreField, RefuseOrder, StampOrder, DrawOrderId,
      AnswerOrder, RefuseLoad, AnswerLoad, CancelFound, CancelNotFound, Demo, Read, AnswerReport,
      ConstructOrder, StampConstructed, Tally, NextIndex

\* The two operations of the book that the proofs look into.
LEMMA EnterBookEffect ==
  ASSUME BookInv, FlightInv, NEW q \in Thread, EnterBook(q)
  PROVE  /\ incoming = NoOrder /\ incoming' # NoOrder
         /\ incoming'.id = order[q].id /\ incoming'.quantity = order[q].quantity
         /\ pc[q] = "ready" /\ pc' = [pc EXCEPT ![q] = "matching"]
         /\ UNCHANGED <<book, trades, tradeLog>>
<1>1. /\ incoming = NoOrder /\ clock' = clock + 1
      /\ incoming' = [order[q] EXCEPT !.timestamp = IF @ = Book!Unset THEN clock' ELSE @,
                                      !.arrival = clock']
      /\ pc[q] = "ready" /\ pc' = [pc EXCEPT ![q] = "matching"]
      /\ UNCHANGED <<book, trades, tradeLog>>
  BY DEF EnterBook, Goto, Book!AddOrder
<1>2. clock' \in Nat
  BY <1>1 DEF BookInv, Engine!IInv
<1>3. PICK stamp \in Stamp : order[q] \in ValidOrder(order[q].id, stamp)
  BY <1>1 DEF FlightInv, InFlight
<1>4. order[q].id \in OrderId
  BY <1>1 DEF FlightInv, InFlight, Drawn
<1>5. order[q] \in Order
  BY <1>3, <1>4, StampAssumption, BoundsAssumption
  DEF ValidOrder, NewOrder, Order, Price, Quantity, NoPrice, OrderType, OrderStatus
<1> DEFINE time == IF order[q].timestamp = Book!Unset THEN clock' ELSE order[q].timestamp
<1>6. time \in Nat
  BY <1>2, <1>5 DEF Order
<1>7. incoming' = [[order[q] EXCEPT !.timestamp = time] EXCEPT !.arrival = clock']
  BY <1>1, Zenon
<1> HIDE DEF time
<1>8. [order[q] EXCEPT !.timestamp = time] \in Order
  BY <1>5, <1>6 DEF Order
<1>9. incoming' \in Order /\ incoming'.id = order[q].id /\ incoming'.quantity = order[q].quantity
  BY <1>2, <1>5, <1>7, <1>8 DEF Order
<1> QED
  BY <1>1, <1>9, BookAssumption

LEMMA MatchEffect ==
  ASSUME BookInv', NEW q \in Thread, Match(q)
  PROVE  /\ incoming # NoOrder /\ incoming' # NoOrder /\ pc' = pc
         /\ \E trade : trades' = Append(trades, trade) /\ tradeLog' = Append(tradeLog, trade)
<1>1. PICK side : Book!MatchOne(side)
  BY DEF Match, Book!MatchBuyOrder, Book!MatchSellOrder
<1>2. /\ incoming # NoOrder /\ pc' = pc
      /\ \E trade : trades' = Append(trades, trade) /\ tradeLog' = Append(tradeLog, trade)
  BY <1>1 DEF Match, Book!MatchOne
<1>3. trades' # <<>>
  BY <1>2
<1>4. incoming' # NoOrder
  BY <1>3 DEF BookInv, Engine!AInv, Engine!StartsEmpty
<1> QED
  BY <1>2, <1>4

LEMMA LeaveBookEffect ==
  ASSUME FlightInv, NEW q \in Thread, LeaveBook(q)
  PROVE  /\ incoming # NoOrder /\ incoming' = NoOrder /\ trades' = <<>> /\ tradeLog' = tradeLog
         /\ pc[q] = "matching" /\ pc'[q] \in {"tallying", "counting"}
         /\ \A p \in Thread \ {q} : pc'[p] = pc[p]
BY DEF LeaveBook, Goto, Book!RestOrder, Book!DropOrder, Book!MatchingDone, FlightInv

LEMMA StepLocks ==
  ASSUME LockInv, PlaceInv, FlightInv, BookInv, BookInv', NEW q \in Thread, Step(q)
  PROVE  LockInv'
<1>1. CASE OutsideBook(q)
  <2>1. incoming' = incoming /\ \A p \in Thread : pc'[p] = "matching" <=> pc[p] = "matching"
    BY <1>1, OutsideBookFrame, OutsideBookKeeps
  <2> QED
    BY <2>1 DEF LockInv
<1>2. CASE EnterBook(q)
  BY <1>2, EnterBookEffect DEF LockInv, PlaceInv
<1>3. CASE Match(q)
  BY <1>3, MatchEffect DEF LockInv
<1>4. CASE LeaveBook(q)
  BY <1>4, LeaveBookEffect DEF LockInv
<1> QED
  BY <1>1, <1>2, <1>3, <1>4, BookCases

-------------------------------------------------------------------------------
\* The invariant of the server's control and data.

ServerInv == PlaceInv /\ HandInv /\ LockInv

LEMMA QuietKeepsServerInv ==
  ASSUME ServerInv, UNCHANGED vars
  PROVE  ServerInv'
BY DEF ServerInv, PlaceInv, AtPlace, LoadOf, HandInv, Counting, LockInv, vars, bookVars,
       statVars, postVars, loadVars

LEMMA InitServerInv == Init => ServerInv
<1> SUFFICES ASSUME Init PROVE ServerInv
  OBVIOUS
<1>1. PlaceInv
  <2>1. NewLoad(0, 0) \in Load
    BY LoadAssumption DEF NewLoad, Load
  <2> QED
    BY <2>1 DEF Init, PlaceInv, AtPlace, AnyPlace, Thread
<1>2. HandInv
  <2>1. MaxPrice + 1 \in Int
    BY BoundsAssumption
  <2>2. stats \in [Field -> Int]
    BY <2>1 DEF Init, Blank
  <2> QED
    BY <2>2, EmptySeq DEF Init, HandInv
<1>3. LockInv
  BY DEF Init, Book!Init, LockInv
<1> QED
  BY <1>1, <1>2, <1>3 DEF ServerInv

LEMMA NextServerInv ==
  ServerInv /\ FlightInv /\ BookInv /\ BookInv' /\ [Next]_vars => ServerInv'
<1> SUFFICES ASSUME ServerInv, FlightInv, BookInv, BookInv', [Next]_vars
             PROVE  ServerInv'
  OBVIOUS
<1>1. CASE UNCHANGED vars
  BY <1>1, QuietKeepsServerInv
<1>2. ASSUME NEW q \in Thread, Step(q) PROVE ServerInv'
  <2>1. PlaceInv' /\ HandInv'
    BY <1>2, SubmitTypes, HandlerTypes, WorkerTypes DEF Step, ServerInv
  <2>2. LockInv'
    BY <1>2, StepLocks DEF ServerInv
  <2> QED
    BY <2>1, <2>2 DEF ServerInv
<1> QED
  BY <1>1, <1>2 DEF Next, Quiet

\* The threads are where their endpoint takes them, and the lock has one
\* holder, in every reachable state.
THEOREM ServerInvariance == Spec => []ServerInv
BY InitServerInv, NextServerInv, FlightInvariance, BookInvariance, PTL DEF Spec

\* TypeOK of the server, with the book's and the widths of the counters.
THEOREM ServerTypeCorrect == Spec => []TypeOK
<1>1. ServerInv /\ FlightInv /\ BookInv => TypeOK
  <2> SUFFICES ASSUME ServerInv, FlightInv, BookInv PROVE TypeOK
    OBVIOUS
  <2>1. Book!TypeOK
    BY BookTypes
  <2>2. order_id_counter \in Nat /\ now \in Nat
    BY StampAssumption DEF FlightInv
  <2>3. /\ kind \in [Request -> Kind] /\ pc \in [Thread -> AnyPlace]
        /\ load \in [Request -> Load]
    BY DEF ServerInv, PlaceInv
  <2>4. /\ stats \in [Field -> Int] /\ raced \subseteq Field /\ next \in [Worker -> Nat]
        /\ \A r \in Thread :
             /\ order[r] # NoOrder => order[r].id \in OrderId \cup {0}
             /\ executed[r] \in Seq(Trade) /\ todo[r] \in Seq(Trade)
             /\ left[r] \subseteq Field
             /\ register[r] = <<>> \/ register[r] \in Field \X Int
    BY DEF ServerInv, HandInv, Counting
  <2> QED
    BY <2>1, <2>2, <2>3, <2>4 DEF TypeOK, AnyPlace, Load
<1> QED
  BY <1>1, ServerInvariance, FlightInvariance, BookInvariance, PTL

-------------------------------------------------------------------------------
\* Every trade is in one answer.

NoLoads == \A r \in Request : kind[r] # "load"

Idle == {"begin", "stamped", "ready", "matching"}

\* The requests that report the trade at i.
Reporters(i) == {r \in Request : tradeLog[i] \in Range(executed[r])}

BeingBuilt(i) == tradeLog[i] \in Range(trades)

\* A handler has trades only from addOrder on, all from the log; a trade is
\* reported once, or it is in the vector addOrder is building.
ReportInv ==
  NoLoads =>
    /\ \A r \in Request : pc[r] \in Idle => executed[r] = <<>>
    /\ \A r \in Request : Range(executed[r]) \subseteq Range(tradeLog)
    /\ \A i \in DOMAIN tradeLog :
         \/ BeingBuilt(i) /\ Reporters(i) = {}
         \/ ~BeingBuilt(i) /\ \E r \in Request : Reporters(i) = {r}

\* Without load tests there are no workers.
LEMMA NoWorkers ==
  ASSUME PlaceInv, NoLoads
  PROVE  \A w \in Worker : pc[w] = "begin"
BY ThreadCases DEF PlaceInv, AtPlace, NoLoads

\* No trade is in the log twice.
TradesApart == \A i, j \in DOMAIN tradeLog : i # j => tradeLog[i] # tradeLog[j]

LogTyped == tradeLog \in Seq(Trade)

LEMMA LogIsTyped == BookInv => LogTyped
BY BookTypes DEF LogTyped

LEMMA BookHasTradesApart == BookInv => TradesApart
<1> SUFFICES ASSUME BookInv, NEW i \in DOMAIN tradeLog, NEW j \in DOMAIN tradeLog, i # j
             PROVE  tradeLog[i] # tradeLog[j]
  BY DEF TradesApart
<1>1. Engine!TradeIdsGrow /\ tradeLog \in Seq(Trade)
  BY BookTypes DEF BookInv, Engine!IInv
<1>2. DOMAIN tradeLog = 1 .. Len(tradeLog) /\ Len(tradeLog) \in Nat
  BY <1>1, LenProperties
<1>3. tradeLog[i] \in Trade /\ tradeLog[j] \in Trade
  BY <1>1, <1>2, ElementOfSeq
<1>4. tradeLog[i].trade_id \in Nat /\ tradeLog[j].trade_id \in Nat
  BY <1>3 DEF Trade
<1> QED
  BY <1>1, <1>2, <1>4 DEF Engine!TradeIdsGrow

\* The vector addOrder builds is part of the log, the free lock has none.
LEMMA BuiltFromLog ==
  ASSUME BookInv
  PROVE  /\ Range(trades) \subseteq Range(tradeLog)
         /\ incoming = NoOrder => trades = <<>>
<1>1. Engine!StartsEmpty /\ Engine!ReturnsItsTrades
  BY DEF BookInv, Engine!AInv
<1>2. /\ trades \in Seq(Trade) /\ tradeLog \in Seq(Trade)
      /\ DOMAIN trades = 1 .. Len(trades) /\ DOMAIN tradeLog = 1 .. Len(tradeLog)
      /\ Len(trades) \in Nat /\ Len(tradeLog) \in Nat
  BY BookTypes, LenProperties
<1>3. CASE incoming = NoOrder
  BY <1>1, <1>3 DEF Engine!StartsEmpty, Range
<1>4. CASE incoming # NoOrder
  <2> DEFINE before == Len(tradeLog) - Len(trades)
  <2>1. before >= 0 /\ \A i \in DOMAIN trades : trades[i] = tradeLog[before + i]
    BY <1>1, <1>4 DEF Engine!ReturnsItsTrades
  <2>2. \A i \in DOMAIN trades : before + i \in DOMAIN tradeLog
    BY <1>2, <2>1
  <2> HIDE DEF before
  <2> QED
    BY <1>4, <2>1, <2>2 DEF Range
<1> QED
  BY <1>1, <1>3, <1>4 DEF Engine!StartsEmpty

\* Steps that neither trade nor return trades.
LEMMA NothingReported ==
  ASSUME ReportInv, UNCHANGED <<trades, tradeLog, kind>>,
         \A r \in Request : /\ NoLoads => executed'[r] = executed[r]
                            /\ pc'[r] \in Idle => pc[r] \in Idle
  PROVE  ReportInv'
<1> SUFFICES ASSUME NoLoads PROVE ReportInv'
  BY DEF NoLoads, ReportInv
<1>1. \A i : Reporters(i)' = Reporters(i) /\ (BeingBuilt(i)' <=> BeingBuilt(i))
  BY DEF Reporters, BeingBuilt
<1> QED
  BY <1>1 DEF ReportInv

\* A turn of the loop: the new trade is at the end of the log and of the
\* vector, and nobody has it.
LEMMA MatchReports ==
  ASSUME ReportInv, PlaceInv, BookInv, BookInv', NEW q \in Thread, Match(q)
  PROVE  ReportInv'
<1>1. kind' = kind /\ executed' = executed /\ pc' = pc
  BY DEF Match, postVars
<1> SUFFICES ASSUME NoLoads PROVE ReportInv'
  BY <1>1 DEF NoLoads, ReportInv
<1>2. PICK trade : trades' = Append(trades, trade) /\ tradeLog' = Append(tradeLog, trade)
  BY MatchEffect
<1>3. trades \in Seq(Trade) /\ tradeLog \in Seq(Trade) /\ tradeLog' \in Seq(Trade)
  <2>1. LogTyped'
    BY LogIsTyped, PTL
  <2> QED
    BY <2>1, BookTypes DEF LogTyped
<1>0. PICK n \in Nat : n = Len(tradeLog)
  BY <1>3, LenProperties
<1>4. /\ n \in Nat /\ DOMAIN tradeLog = 1 .. n /\ DOMAIN tradeLog' = 1 .. n + 1
      /\ \A i \in 1 .. n : tradeLog'[i] = tradeLog[i]
      /\ tradeLog'[n + 1] = trade
  <2>1. \A e : LET s == Append(tradeLog, e)
               IN  /\ DOMAIN s = 1 .. n + 1 /\ s[n + 1] = e
                   /\ \A i \in 1 .. n : s[i] = tradeLog[i]
    BY <1>0, <1>3
  <2> QED
    BY <1>0, <1>2, <1>3, <2>1, LenProperties
<1>5. Range(trades') = Range(trades) \cup {trade}
  <2>1. PICK m \in Nat : m = Len(trades) /\ DOMAIN trades = 1 .. m
    BY <1>3, LenProperties
  <2>2. /\ DOMAIN trades' = 1 .. m + 1 /\ trades'[m + 1] = trade
        /\ \A i \in 1 .. m : trades'[i] = trades[i]
    BY <1>2, <1>3, <2>1
  <2> QED
    BY <2>1, <2>2 DEF Range
<1>6. \A i \in 1 .. n : tradeLog[i] # trade
  <2>1. TradesApart'
    BY BookHasTradesApart, PTL
  <2> QED
    BY <1>4, <2>1 DEF TradesApart
<1>7. trade \notin Range(tradeLog) /\ Range(tradeLog) \subseteq Range(tradeLog')
  BY <1>4, <1>6 DEF Range
<1>8. \A r \in Request : trade \notin Range(executed[r])
  BY <1>7 DEF ReportInv
<1>9. \A i \in 1 .. n : Reporters(i)' = Reporters(i) /\ (BeingBuilt(i)' <=> BeingBuilt(i))
  BY <1>1, <1>4, <1>5, <1>6 DEF Reporters, BeingBuilt
<1>10. BeingBuilt(n + 1)' /\ Reporters(n + 1)' = {}
  BY <1>1, <1>4, <1>5, <1>8 DEF Reporters, BeingBuilt
<1>11. \A i \in DOMAIN tradeLog' : i \in 1 .. n \/ i = n + 1
  BY <1>4
<1> QED
  BY <1>1, <1>4, <1>7, <1>9, <1>10, <1>11 DEF ReportInv

\* The end of addOrder: what was being built is what the handler has.
LEMMA LeaveBookReports ==
  ASSUME ReportInv, PlaceInv, HandInv, FlightInv, BookInv, NEW q \in Thread, LeaveBook(q)
  PROVE  ReportInv'
<1>1. /\ kind' = kind /\ executed' = [executed EXCEPT ![q] = trades]
      /\ trades' = <<>> /\ tradeLog' = tradeLog /\ pc[q] = "matching"
      /\ pc'[q] \in {"tallying", "counting"} /\ \A p \in Thread \ {q} : pc'[p] = pc[p]
  BY LeaveBookEffect DEF LeaveBook
<1> SUFFICES ASSUME NoLoads PROVE ReportInv'
  BY <1>1 DEF NoLoads, ReportInv
<1>2. q \in Request
  BY <1>1, NoWorkers DEF Thread
<1>3. executed[q] = <<>>
  BY <1>1, <1>2 DEF ReportInv, Idle
<1>4. executed'[q] = trades /\ \A r \in Request \ {q} : executed'[r] = executed[r]
  BY <1>1, <1>2 DEF HandInv, Thread
<1>5. \A i : ~BeingBuilt(i)'
  BY <1>1 DEF BeingBuilt, Range
<1>6. \A i : q \notin Reporters(i)
  BY <1>3 DEF Reporters, Range
<1>7. ASSUME NEW i \in DOMAIN tradeLog PROVE \E r \in Request : Reporters(i)' = {r}
  <2>1. Reporters(i)' = Reporters(i) \cup (IF BeingBuilt(i) THEN {q} ELSE {})
    BY <1>1, <1>2, <1>4, <1>6 DEF Reporters, BeingBuilt
  <2> QED
    BY <1>2, <1>7, <2>1 DEF ReportInv
<1>8. \A r \in Request : Range(executed'[r]) \subseteq Range(tradeLog')
  BY <1>1, <1>4, BuiltFromLog DEF ReportInv
<1>9. \A r \in Request : pc'[r] \in Idle => executed'[r] = <<>>
  BY <1>1, <1>4, ThreadCases DEF ReportInv, Idle
<1> QED
  BY <1>1, <1>5, <1>7, <1>8, <1>9 DEF ReportInv

LEMMA OutsideReports ==
  ASSUME ReportInv, PlaceInv, HandInv, FlightInv, NEW q \in Thread, OutsideBook(q)
  PROVE  ReportInv'
<1>1. UNCHANGED <<trades, tradeLog>>
  BY OutsideBookFrame
<1>2. kind' = kind
  BY DEF OutsideBook, LoadField, StoreField, RefuseOrder, StampOrder, DrawOrderId,
         AnswerOrder, RefuseLoad, RunLoad, AnswerLoad, CancelFound, CancelNotFound, Demo, Read,
         AnswerReport, ConstructOrder, StampConstructed, Tally, NextIndex
<1>3. \A r \in Request : executed'[r] = executed[r]
  <2>1. NextIndex(q) /\ q \in Worker => \A r \in Request : executed'[r] = executed[r]
    BY ThreadCases DEF NextIndex, HandInv
  <2> QED
    BY <2>1
    DEF OutsideBook, LoadField, StoreField, RefuseOrder, StampOrder, DrawOrderId, postVars,
        AnswerOrder, RefuseLoad, RunLoad, AnswerLoad, CancelFound, CancelNotFound, Demo, Read,
        AnswerReport, ConstructOrder, StampConstructed, Tally
<1>4. \A r \in Request : pc'[r] \in Idle => pc[r] \in Idle
  <2>1. CASE q \in Worker
    <3>1. \E to : pc' = [pc EXCEPT ![q] = to] \/ pc' = pc
      BY <2>1, ThreadCases DEF OutsideBook, Goto, LoadField, StoreField, ConstructOrder,
                               StampConstructed, Tally, NextIndex
    <3> QED
      BY <2>1, <3>1, ThreadCases DEF PlaceInv
  <2>2. CASE q \in Request /\ RunLoad(q)
    <3>1. \A num_threads \in 0 .. MaxThreads : {q} \X (0 .. num_threads - 1) \subseteq Worker
      BY <2>2, LoadAssumption DEF Worker
    <3> QED
      BY <2>2, <3>1, ThreadCases DEF RunLoad, Idle
  <2>3. CASE q \in Request /\ ~RunLoad(q)
    <3>1. \/ pc' = pc
          \/ \E from, to : Goto(q, from, to) /\ (to = "answered" \/ from \in Idle)
      BY <2>3, ThreadCases
      DEF OutsideBook, LoadField, StoreField, RefuseOrder, StampOrder, DrawOrderId, AnswerOrder,
          RefuseLoad, AnswerLoad, CancelFound, CancelNotFound, Demo, Read, AnswerReport, Idle
    <3> QED
      BY <3>1, ThreadCases DEF Goto, PlaceInv, Idle
  <2> QED
    BY <2>1, <2>2, <2>3 DEF Thread
<1> QED
  BY <1>1, <1>2, <1>3, <1>4, NothingReported

LEMMA StepReports ==
  ASSUME ReportInv, ServerInv, FlightInv, BookInv, BookInv', NEW q \in Thread, Step(q)
  PROVE  ReportInv'
<1> USE DEF ServerInv
<1>1. CASE EnterBook(q)
  <2>1. /\ UNCHANGED <<trades, tradeLog, kind, executed>>
        /\ pc[q] = "ready" /\ pc' = [pc EXCEPT ![q] = "matching"]
    BY <1>1, EnterBookEffect DEF EnterBook, postVars
  <2>2. \A r \in Request : pc'[r] \in Idle => pc[r] \in Idle
    BY <2>1, ThreadCases DEF PlaceInv, Idle
  <2> QED
    BY <2>1, <2>2, NothingReported
<1> QED
  BY <1>1, MatchReports, LeaveBookReports, OutsideReports, BookCases

LEMMA QuietReports ==
  ASSUME ReportInv, UNCHANGED vars
  PROVE  ReportInv'
BY NothingReported DEF vars, bookVars, postVars

LEMMA NextReports ==
  ReportInv /\ ServerInv /\ FlightInv /\ BookInv /\ BookInv' /\ [Next]_vars => ReportInv'
BY StepReports, QuietReports DEF Next, Quiet

LEMMA InitReports == Init => ReportInv
BY ThreadCases DEF Init, Book!Init, ReportInv, Range

\* Where the load tests are away, each trade of the log is with one handler of
\* POST /orders, or in the vector that addOrder is building.
THEOREM ReportInvariance == Spec => []ReportInv
BY InitReports, NextReports, ServerInvariance, FlightInvariance, BookInvariance, PTL DEF Spec

\* Every trade is in the answer of exactly one POST /orders, that of its taker.
THEOREM EachTradeReportedOnce == Spec => []TradesReportedOnce
<1>1. ReportInv => TradesReportedOnce
  <2> SUFFICES ASSUME ReportInv, NoLoads, NEW i \in DOMAIN tradeLog
               PROVE  Cardinality(Reporters(i)) + (IF BeingBuilt(i) THEN 1 ELSE 0) = 1
    BY DEF TradesReportedOnce, NoLoads, Reporters, BeingBuilt
  <2>1. CASE BeingBuilt(i) /\ Reporters(i) = {}
    <3>1. Cardinality(Reporters(i)) = 0
      BY <2>1, FS_EmptySet
    <3>2. (IF BeingBuilt(i) THEN 1 ELSE 0) = 1
      BY <2>1
    <3> QED
      BY <3>1, <3>2
  <2>2. CASE ~BeingBuilt(i) /\ \E r \in Request : Reporters(i) = {r}
    <3>1. Cardinality(Reporters(i)) = 1
      BY <2>2, FS_Singleton
    <3>2. (IF BeingBuilt(i) THEN 1 ELSE 0) = 0
      BY <2>2
    <3> QED
      BY <3>1, <3>2
  <2>3. \/ BeingBuilt(i) /\ Reporters(i) = {}
        \/ ~BeingBuilt(i) /\ \E r \in Request : Reporters(i) = {r}
    BY DEF ReportInv
  <2> QED
    BY <2>1, <2>2, <2>3
<1> QED
  BY <1>1, ReportInvariance, PTL

================================================================================
