----------------------------- MODULE TradingServer -----------------------------
(***************************************************************************)
(* The API layer, main.cpp, on top of one OrderBook: every request is a    *)
(* handler on a thread of its own.  The handlers share the book, which has *)
(* a lock, the counters of order and trade ids, which are atomic, and the  *)
(* TradeStatistics object, which has neither.  One action is what a        *)
(* handler does between two points at which another can be seen: a call    *)
(* under the book's lock (addOrder has a step per turn of its loop), an    *)
(* atomic operation, or one load or store of the statistics.  The handler  *)
(* of a load test, /test/concurrency, starts workers: threads that submit  *)
(* orders like the handlers of POST /orders, and end before it answers.    *)
(***************************************************************************)
EXTENDS Orders, Integers, FiniteSets, SequencesExt

CONSTANTS Request,     \* the requests that arrive, each served once
          Kind,        \* the endpoints they may be for
          Field,       \* the statistics that are followed
          MaxOrders,   \* the most orders of a load test; the code has 1000
          MaxThreads,  \* bound: the most workers of a load test
          MaxLoads,    \* bound: the load tests among the requests
          IntMax,      \* the largest int; the code has 2^31 - 1
          NoOrder,
          MaxTradeId

\* The GET endpoints that make a report of the book, and what each reads: one
\* locked call of the book after the other, then the statistics.
Report ==
  [summary    |-> <<"orders", "book">>,
   orderbook  |-> <<"snapshot", "book">>,
   trades     |-> <<"count">>,
   statistics |-> <<"book", "bid", "ask", "spread">>,
   market     |-> <<"bid", "ask", "spread", "orders", "count">>]

Reads(k) ==
  Report[k] \o IF k \in {"trades", "statistics", "market"} THEN SetToSeq(Field) ELSE <<>>

ASSUME KindAssumption  == Kind \subseteq {"post", "badpost", "cancel", "demo", "load"} \cup DOMAIN Report
ASSUME FieldAssumption == /\ Field # {}
                          /\ Field \subseteq {"total_trades", "total_volume",
                                              "total_value", "min_price", "max_price"}
ASSUME LoadAssumption  == /\ MaxOrders \in Nat \ {0} /\ IntMax \in Nat
                          /\ MaxThreads \in Nat /\ MaxLoads \in Nat
ASSUME BookAssumption  == NoOrder \notin Order /\ MaxTradeId \in Nat
\* Time has passed since the steady clock's epoch: it does not read Unset.
ASSUME ClockAssumption == 1 \in Stamp

\* The threads that use the book: each request's handler, and the workers.
Worker == Request \X (0 .. MaxThreads - 1)
Thread == Request \cup Worker

ASSUME ThreadAssumption == Request \cap Worker = {} /\ IsFiniteSet(Request)

VARIABLES
  book, incoming, trades, tradeLog, trade_id_counter, clock, submitted,
  order_id_counter, \* Order::id_counter, the next id
  now,              \* the latest reading of the steady clock
  stats,            \* the fields of the global TradeStatistics
  kind,             \* the endpoint each request is for
  pc,               \* where its handler is
  order,            \* the Order object of a POST or of a worker
  executed,         \* the vector addOrder returned
  todo,             \* the part of it that is still to be counted
  left,             \* the fields to update for Head(todo)
  register,         \* a field that was loaded and is not yet stored
  view,             \* the values a GET handler has collected
  load,             \* POST /test/concurrency: its parameters and counters
  next,             \* the index i of a worker's loop
  answer,           \* the response
  raced             \* history: the fields two handlers updated at once

bookVars  == <<book, incoming, trades, tradeLog, trade_id_counter, clock, submitted>>
postVars  == <<order, executed>>
statVars  == <<stats, todo, left, register, raced>>
loadVars  == <<load, next>>
counters  == <<order_id_counter, now>>
vars      == <<bookVars, counters, statVars, postVars, loadVars, kind, pc, view, answer>>

Book == INSTANCE OrderBook

NoAnswer == [status |-> 0]

NewLoad(num_orders, num_threads) ==
  [num_orders |-> num_orders, num_threads |-> num_threads,
   completed_orders |-> 0, total_trades |-> 0]

\* What TradeStatistics() puts in a field; beyond every price stands for the
\* largest and the lowest double.
Blank(f) == CASE f = "min_price" -> MaxPrice + 1
              [] OTHER           -> 0

Init ==
  /\ Book!Init
  /\ order_id_counter = 1
  /\ now = 0
  /\ stats = [f \in Field |-> Blank(f)]
  /\ kind \in {k \in [Request -> Kind] :
                Cardinality({r \in Request : k[r] = "load"}) <= MaxLoads}
  /\ pc = [r \in Thread |-> "begin"]
  /\ order = [r \in Thread |-> NoOrder]
  /\ executed = [r \in Thread |-> <<>>]
  /\ todo = [r \in Thread |-> <<>>]
  /\ left = [r \in Thread |-> {}]
  /\ register = [r \in Thread |-> <<>>]
  /\ view = [r \in Request |-> <<>>]
  /\ load = [r \in Request |-> NewLoad(0, 0)]
  /\ next = [w \in Worker |-> 0]
  /\ answer = [r \in Request |-> NoAnswer]
  /\ raced = {}

\* The handler of r moves on.
Goto(r, from, to) == pc[r] = from /\ pc' = [pc EXCEPT ![r] = to]

Respond(r, response) == answer' = [answer EXCEPT ![r] = response]

-------------------------------------------------------------------------------
\* POST /orders

\* Invalid JSON, or an order validateOrder does not like ("badpost").
RefuseOrder(r) ==
  /\ kind[r] = "badpost"
  /\ Goto(r, "begin", "answered")
  /\ Respond(r, [status |-> 400])
  /\ UNCHANGED <<bookVars, counters, statVars, postVars, loadVars, kind, view>>

\* A reading of the steady clock.  At the largest value of Stamp, a bound, it
\* stands still.
Now == IF now + 1 \in Stamp THEN now + 1 ELSE now

\* Order::from_json reads the clock ...
StampOrder(r) ==
  /\ kind[r] = "post"
  /\ Goto(r, "begin", "stamped")
  /\ now' = Now
  /\ \E o \in ValidOrder(0, now') : order' = [order EXCEPT ![r] = o]
  /\ UNCHANGED <<bookVars, order_id_counter, statVars, executed, loadVars, kind, view, answer>>

\* Mutant of DrawOrderId: a load in place of the fetch_add.
ReadOrderId(r) ==
  /\ order_id_counter \in OrderId
  /\ Goto(r, "stamped", "ready")
  /\ order' = [order EXCEPT ![r].id = order_id_counter]
  /\ UNCHANGED <<bookVars, counters, statVars, executed, loadVars, kind, view, answer>>

\* ... and then draws the id, an atomic fetch_add; OrderId, a bound, is large
\* enough for all who draw.
DrawOrderId(r) ==
  /\ order_id_counter \in OrderId
  /\ Goto(r, "stamped", "ready")
  /\ order' = [order EXCEPT ![r].id = order_id_counter]
  /\ order_id_counter' = order_id_counter + 1
  /\ UNCHANGED <<bookVars, now, statVars, executed, loadVars, kind, view, answer>>

\* addOrder gets the book's lock, with a copy of the order.
EnterBook(r) ==
  /\ Goto(r, "ready", "matching")
  /\ Book!AddOrder(order[r])
  /\ UNCHANGED <<counters, statVars, postVars, loadVars, kind, view, answer>>

Match(r) ==
  /\ pc[r] = "matching"
  /\ Book!MatchBuyOrder \/ Book!MatchSellOrder
  /\ UNCHANGED <<counters, statVars, postVars, loadVars, kind, pc, view, answer>>

\* Mutant of LeaveBook: the log in place of the call's own trades.
LeaveBookWithLog(r) ==
  /\ Goto(r, "matching", IF r \in Worker THEN "tallying" ELSE "counting")
  /\ Book!RestOrder \/ Book!DropOrder
  /\ executed' = [executed EXCEPT ![r] = tradeLog]
  /\ todo' = [todo EXCEPT ![r] = tradeLog]
  /\ left' = [left EXCEPT ![r] = Field]
  /\ UNCHANGED <<counters, stats, register, raced, order, loadVars, kind, view, answer>>

\* addOrder returns its trades and releases the lock.
LeaveBook(r) ==
  /\ Goto(r, "matching", IF r \in Worker THEN "tallying" ELSE "counting")
  /\ Book!RestOrder \/ Book!DropOrder
  /\ executed' = [executed EXCEPT ![r] = trades]
  /\ todo' = [todo EXCEPT ![r] = trades]
  /\ left' = [left EXCEPT ![r] = Field]
  /\ UNCHANGED <<counters, stats, register, raced, order, loadVars, kind, view, answer>>

\* Mutant of Updated: the quantity of both sides.
UpdatedForBothSides(f, old, trade) == old + 2 * trade.quantity

\* An int that overflows: undefined in C++, and what an add instruction does.
Wrapped(n) == ((n + IntMax + 1) % (2 * (IntMax + 1))) - (IntMax + 1)

\* What TradeStatistics::update computes for a field from its old value.
\* avg_price, a quotient of two of these, and last_trade_time are left out.
Updated(f, old, trade) ==
  CASE f = "total_trades" -> Wrapped(old + 1)
    [] f = "total_volume" -> Wrapped(old + trade.quantity)
    [] f = "total_value"  -> old + trade.price * trade.quantity
    [] f = "min_price"    -> IF trade.price < old THEN trade.price ELSE old
    [] f = "max_price"    -> IF trade.price > old THEN trade.price ELSE old

\* stats.update(trade) has no lock: it loads a field, and stores it later.
\* The compiler may take the fields in any order.
LoadField(r) ==
  /\ pc[r] = "counting"
  /\ todo[r] # <<>> /\ register[r] = <<>>
  /\ \E f \in left[r] :
       /\ register' = [register EXCEPT ![r] = <<f, stats[f]>>]
       /\ raced' = IF \E q \in Thread \ {r} : register[q] # <<>> /\ register[q][1] = f
                     THEN raced \cup {f} ELSE raced
  /\ UNCHANGED <<bookVars, counters, stats, todo, left, postVars, loadVars, kind, pc, view, answer>>

\* Mutant of StoreField: an early return after one field.
StoreOneField(r) ==
  LET f   == register[r][1]
      old == register[r][2]
  IN  /\ register[r] # <<>>
      /\ stats' = [stats EXCEPT ![f] = Updated(f, old, Head(todo[r]))]
      /\ left' = [left EXCEPT ![r] = Field]
      /\ todo' = [todo EXCEPT ![r] = Tail(@)]
      /\ register' = [register EXCEPT ![r] = <<>>]
      /\ UNCHANGED <<bookVars, counters, raced, postVars, loadVars, kind, pc, view, answer>>

\* An extremum is only stored when it changes.  After the last field, the
\* next trade.
StoreField(r) ==
  LET f     == register[r][1]
      old   == register[r][2]
      value == Updated(f, old, Head(todo[r]))
      last  == left[r] = {f}
  IN  /\ register[r] # <<>>
      /\ stats' = IF value = old THEN stats ELSE [stats EXCEPT ![f] = value]
      /\ left' = [left EXCEPT ![r] = IF last THEN Field ELSE @ \ {f}]
      /\ todo' = IF last THEN [todo EXCEPT ![r] = Tail(@)] ELSE todo
      /\ register' = [register EXCEPT ![r] = <<>>]
      /\ UNCHANGED <<bookVars, counters, raced, postVars, loadVars, kind, pc, view, answer>>

\* The response has the handler's order, of which addOrder matched a copy.
AnswerOrder(r) ==
  /\ todo[r] = <<>>
  /\ Goto(r, "counting", "answered")
  /\ Respond(r, [status |-> 201, order |-> order[r], trades |-> executed[r]])
  /\ UNCHANGED <<bookVars, counters, statVars, postVars, loadVars, kind, view>>

-------------------------------------------------------------------------------
\* POST /test/concurrency

\* Invalid JSON or a number of orders out of range, 400; no such number, 500.
RefuseLoad(r) ==
  /\ kind[r] = "load"
  /\ Goto(r, "begin", "answered")
  /\ \E status \in {400, 500} : Respond(r, [status |-> status])
  /\ UNCHANGED <<bookVars, counters, statVars, postVars, loadVars, kind, view>>

\* The handler starts its workers, worker t with i = t.  Nothing looks at
\* num_threads: 0 stands for a negative number, too.
RunLoad(r) ==
  /\ kind[r] = "load" /\ pc[r] = "begin"
  /\ \E num_orders \in 1 .. MaxOrders, num_threads \in 0 .. MaxThreads :
       /\ load' = [load EXCEPT ![r] = NewLoad(num_orders, num_threads)]
       /\ pc' = [q \in Thread |-> CASE q = r -> "loading"
                                    [] q \in {r} \X (0 .. num_threads - 1) -> "loop"
                                    [] OTHER -> pc[q]]
  /\ next' = [w \in Worker |-> IF w[1] = r THEN w[2] ELSE next[w]]
  /\ UNCHANGED <<bookVars, counters, statVars, postVars, kind, view, answer>>

LoadOf(w) == load[w[1]]

Finished(w) == pc[w] = "loop" /\ next[w] >= LoadOf(w).num_orders

\* Order's constructor draws the id ...  The side alternates with i; price
\* and quantity, functions of i as well, are any.
ConstructOrder(w) ==
  /\ ~Finished(w)
  /\ order_id_counter \in OrderId
  /\ Goto(w, "loop", "drawn")
  /\ \E o \in ValidOrder(order_id_counter, Unset) :
       /\ o.type = "Limit"
       /\ o.side = IF next[w] % 2 = 0 THEN "Buy" ELSE "Sell"
       /\ order' = [order EXCEPT ![w] = o]
  /\ order_id_counter' = order_id_counter + 1
  /\ UNCHANGED <<bookVars, now, statVars, executed, loadVars, kind, view, answer>>

\* ... and then reads the clock.
StampConstructed(w) ==
  /\ Goto(w, "drawn", "ready")
  /\ now' = Now
  /\ order' = [order EXCEPT ![w].timestamp = now']
  /\ UNCHANGED <<bookVars, order_id_counter, statVars, executed, loadVars, kind, view, answer>>

\* Mutant of Tally: total_trades is stored, not added to.
TallyLast(w) ==
  /\ Goto(w, "tallying", "counting")
  /\ load' = [load EXCEPT ![w[1]].completed_orders = @ + 1,
                          ![w[1]].total_trades = Len(executed[w])]
  /\ UNCHANGED <<bookVars, counters, statVars, postVars, next, kind, view, answer>>

\* Two atomic additions, which nobody reads before the workers are joined.
Tally(w) ==
  /\ Goto(w, "tallying", "counting")
  /\ load' = [load EXCEPT ![w[1]].completed_orders = @ + 1,
                          ![w[1]].total_trades = @ + Len(executed[w])]
  /\ UNCHANGED <<bookVars, counters, statVars, postVars, next, kind, view, answer>>

\* Mutant of NextIndex: i++.
NextIndexByOne(w) ==
  /\ todo[w] = <<>>
  /\ Goto(w, "counting", "loop")
  /\ next' = [next EXCEPT ![w] = @ + 1]
  /\ order' = [order EXCEPT ![w] = NoOrder]
  /\ executed' = [executed EXCEPT ![w] = <<>>]
  /\ UNCHANGED <<bookVars, counters, statVars, load, kind, view, answer>>

\* The end of the worker's loop body, of which the order and its trades are
\* locals.
NextIndex(w) ==
  /\ todo[w] = <<>>
  /\ Goto(w, "counting", "loop")
  /\ next' = [next EXCEPT ![w] = @ + LoadOf(w).num_threads]
  /\ order' = [order EXCEPT ![w] = NoOrder]
  /\ executed' = [executed EXCEPT ![w] = <<>>]
  /\ UNCHANGED <<bookVars, counters, statVars, load, kind, view, answer>>

\* The workers are joined.  The response ends with a snapshot of the book, for
\* which it waits for the lock, and the statistics: these are not followed.
AnswerLoad(r) ==
  /\ incoming = NoOrder
  /\ \A t \in 0 .. load[r].num_threads - 1 : Finished(<<r, t>>)
  /\ Goto(r, "loading", "answered")
  /\ Respond(r, [status |-> 200, orders_submitted |-> load[r].completed_orders,
                 trades_generated |-> load[r].total_trades])
  /\ UNCHANGED <<bookVars, counters, statVars, postVars, loadVars, kind, view>>

-------------------------------------------------------------------------------
\* The other endpoints.

\* POST /orders/<id>/cancel of an order that rests in the book.
CancelFound(r) ==
  /\ kind[r] = "cancel"
  /\ Goto(r, "begin", "answered")
  /\ \E id \in OrderId : /\ Book!CancelOrder(id)
                         /\ Respond(r, [status |-> 200, id |-> id])
  /\ UNCHANGED <<counters, statVars, postVars, loadVars, kind, view>>

\* Of one that does not, whatever the reason.
CancelNotFound(r) ==
  /\ kind[r] = "cancel"
  /\ incoming = NoOrder
  /\ Goto(r, "begin", "answered")
  /\ \E id \in OrderId : /\ id \notin Book!RestingIds
                         /\ Respond(r, [status |-> 404, id |-> id])
  /\ UNCHANGED <<bookVars, counters, statVars, postVars, loadVars, kind, view>>

\* GET /models/demo makes two orders and a trade that no book sees.  Its three
\* ids are drawn by three separate additions, which are one step here: what
\* comes in between only shifts the ids, and nobody holds those of the demo.
Demo(r) ==
  /\ kind[r] = "demo"
  /\ Goto(r, "begin", "answered")
  /\ order_id_counter' = order_id_counter + 2
  /\ Book!DrawTradeId
  /\ Respond(r, [status |-> 200, trades |-> <<trade_id_counter>>])
  /\ UNCHANGED <<now, statVars, postVars, loadVars, kind, view>>

\* What a report reads next: a getter waits for the lock, the statistics
\* have none.
Value(what) ==
  CASE what = "orders"   -> Book!GetTotalOrders
    [] what = "book"     -> Book!GetBookStatistics
    [] what = "snapshot" -> Book!GetBookSnapshot
    [] what = "count"    -> Book!GetTradeCount
    [] what = "bid"      -> Book!GetBestBid
    [] what = "ask"      -> Book!GetBestAsk
    [] what = "spread"   -> Book!GetSpread
    [] OTHER             -> stats[what]

Read(r) ==
  /\ pc[r] = "begin" /\ kind[r] \in DOMAIN Report
  /\ Len(view[r]) < Len(Reads(kind[r]))
  /\ LET what == Reads(kind[r])[Len(view[r]) + 1]
     IN  /\ what \in Field \/ incoming = NoOrder
         /\ view' = [view EXCEPT ![r] = Append(@, Value(what))]
  /\ UNCHANGED <<bookVars, counters, statVars, postVars, loadVars, kind, pc, answer>>

AnswerReport(r) ==
  /\ kind[r] \in DOMAIN Report
  /\ Len(view[r]) = Len(Reads(kind[r]))
  /\ Goto(r, "begin", "answered")
  /\ Respond(r, [status |-> 200, report |-> view[r]])
  /\ UNCHANGED <<bookVars, counters, statVars, postVars, loadVars, kind, view>>

-------------------------------------------------------------------------------

\* addOrder and stats.update, in a handler of POST /orders or a worker.
SubmitAndCount(q) ==
  \/ EnterBook(q) \/ Match(q) \/ LeaveBook(q)
  \/ LoadField(q) \/ StoreField(q)

Handle(r) ==
  \/ RefuseOrder(r) \/ StampOrder(r) \/ DrawOrderId(r) \/ AnswerOrder(r)
  \/ RefuseLoad(r) \/ RunLoad(r) \/ AnswerLoad(r)
  \/ CancelFound(r) \/ CancelNotFound(r)
  \/ Demo(r) \/ Read(r) \/ AnswerReport(r)

Work(w) == ConstructOrder(w) \/ StampConstructed(w) \/ Tally(w) \/ NextIndex(w)

Step(q) ==
  \/ SubmitAndCount(q)
  \/ q \in Request /\ Handle(q)
  \/ q \in Worker /\ Work(q)

\* Every request that arrived has been answered.
Quiet ==
  /\ \A r \in Request : pc[r] = "answered"
  /\ UNCHANGED vars

Next == (\E q \in Thread : Step(q)) \/ Quiet

Spec == Init /\ [][Next]_vars

\* A handler's thread keeps running, and a worker's.  The lock is not fair, but only finitely
\* many handlers want it and each takes it a bounded number of times, so one
\* that waits finds it free for good in the end: weak fairness is enough.
FairSpec == Spec /\ \A q \in Thread : WF_vars(Step(q))

-------------------------------------------------------------------------------
\* Properties.

TypeOK ==
  /\ Book!TypeOK
  /\ order_id_counter \in Nat /\ now \in Nat
  /\ stats \in [Field -> Int] /\ raced \subseteq Field
  /\ kind \in [Request -> Kind]
  /\ pc \in [Thread -> {"begin", "stamped", "ready", "matching", "counting", "answered",
                        "loading", "loop", "drawn", "tallying"}]
  /\ load \in [Request -> [num_orders : 0 .. MaxOrders, num_threads : 0 .. MaxThreads,
                           completed_orders : Nat, total_trades : Nat]]
  /\ next \in [Worker -> Nat]
  /\ \A r \in Thread :
       /\ order[r] # NoOrder => order[r].id \in OrderId \cup {0}
       /\ executed[r] \in Seq(Trade) /\ todo[r] \in Seq(Trade)
       /\ left[r] \subseteq Field
       /\ register[r] = <<>> \/ register[r] \in Field \X Int

\* Whatever the handlers do, the book sees orders with ids of their own, one
\* addOrder at a time: the server implements the specification of the book.
UsesTheBook == Book!Spec

\* Every trade of the log is in the answer of exactly one POST /orders, that
\* of its taker; until addOrder returns, in the vector it is building.  Where
\* load tests trade, too, TradesAccountedFor counts their trades.
TradesReportedOnce ==
  (\A r \in Request : kind[r] # "load") => \A i \in DOMAIN tradeLog :
    Cardinality({r \in Request : tradeLog[i] \in Range(executed[r])})
      + (IF tradeLog[i] \in Range(trades) THEN 1 ELSE 0) = 1

\* A cancel that was answered 200 is final: it took the order out alone, with
\* something left to trade, and the order is not there any more.
CancelIsFinal ==
  \A r \in Request : kind[r] = "cancel" /\ answer[r].status = 200 =>
    /\ answer[r].id \notin Book!RestingIds
    /\ \A q \in Request \ {r} : kind[q] = "cancel" => answer[q] # answer[r]
    /\ \A q \in Request : order[q] # NoOrder /\ order[q].id = answer[r].id =>
         Book!TradedIn(tradeLog, order[q].id) < order[q].quantity

\* What the statistics would be had nobody interfered.
Exact(f) ==
  LET volumes == [i \in DOMAIN tradeLog |-> tradeLog[i].quantity]
      values  == [i \in DOMAIN tradeLog |-> tradeLog[i].price * tradeLog[i].quantity]
      prices  == {tradeLog[i].price : i \in DOMAIN tradeLog}
  IN  CASE f = "total_trades" -> Len(tradeLog)
        [] f = "total_volume" -> SumFunction(volumes)
        [] f = "total_value"  -> SumFunction(values)
        [] f = "min_price"    -> Min(prices \cup {Blank(f)})
        [] f = "max_price"    -> Max(prices \cup {Blank(f)})

\* What a field of that type can hold of its exact value.
Counted(f, n) == IF f \in {"total_trades", "total_volume"} THEN Wrapped(n) ELSE n

\* Updates that get lost make the statistics too small, never too large: they
\* do not count a trade that was not executed or count one twice.
StatsNeverOverstate ==
  \A f \in Field :
    IF f = "min_price" THEN stats[f] >= Exact(f) ELSE stats[f] <= Exact(f)

\* A field goes wrong only if two threads had it loaded at once: otherwise it
\* is exact, to the width of its type, as soon as no trade waits to be counted.
ExactUnlessRaced ==
  (trades = <<>> /\ \A r \in Thread : todo[r] = <<>>) =>
    \A f \in Field \ raced : stats[f] = Counted(f, Exact(f))

\* Every trade of the log is counted by one of those that report how many they
\* made: the vector a POST returns or the total_trades of a load test.  On the
\* way there it is in the vector addOrder builds or has just returned.
TradesAccountedFor ==
  LET made      == [q \in Thread |-> Len(executed[q])]
      byLoad    == [r \in Request |-> load[r].total_trades]
      untallied == {w \in Worker : pc[w] = "tallying"}
  IN  Len(tradeLog) = Len(trades) + SumFunctionOnSet(made, Request \cup untallied)
                        + SumFunction(byLoad)

\* The workers of a load test share its orders out: whatever the number of
\* threads, all of them have been submitted, each once, when it answers.  With
\* no thread it answers 200 having submitted none.
LoadIsComplete ==
  \A r \in Request : kind[r] = "load" /\ answer[r].status = 200 =>
    answer[r].orders_submitted =
      IF load[r].num_threads = 0 THEN 0 ELSE load[r].num_orders

\* Every request is answered: no handler waits for the lock for ever, and no
\* matching loop or loop over trades goes on for ever.
EveryRequestAnswered == \A r \in Request : <>(pc[r] = "answered")

-------------------------------------------------------------------------------
\* What the repository says and the code does not do.

\* "Concurrency & Safety (Thread-safe operations)": all trades are counted.
TradesAllCounted ==
  (\A r \in Request : pc[r] = "answered") => \A f \in Field : stats[f] = Exact(f)

\* "Get the oldest order at this price level": the front of a queue has the
\* earliest timestamp.
FrontIsOldest ==
  \A side \in Side : \A p \in DOMAIN book[side] : \A i \in DOMAIN book[side][p] :
    book[side][p][1].timestamp <= book[side][p][i].timestamp

===============================================================================
