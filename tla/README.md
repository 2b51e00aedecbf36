# Velocore in TLA+

Models, model-checking runs and machine-checked proofs for Velocore, the
trading simulator in `src/`: a limit order book behind a multithreaded REST
API, and a client of a market data service.

## 1. The system

| Component | Source | State | Operations |
|---|---|---|---|
| Matching engine | `OrderBook.cpp/.h` | two maps price → deque of orders, trade log, one `shared_mutex` | `addOrder` (match, then rest), `cancelOrder`, `clear`, getters |
| Orders and trades | `Order.*`, `Trade.*` | two atomic id counters; the orders themselves | construction, `from_json`, `TradeStatistics::update` |
| REST API | `main.cpp` | the global book, the global `TradeStatistics` (no lock) | POST `/orders`, cancel, `/models/demo`, reports |
| Market data feed | `MarketDataFeed.*` | atomic flags, the WebSocket stream, two timers, a worker thread, the subscription lists and their mutex | `start`, `stop`, `subscribe`, `unsubscribe`, a dozen asio handlers |
| Load test | `main.cpp:307-380` | worker threads of one request, two atomic counters | construct an order, submit it, count its trades; join |
| Tick cache | `main.cpp:27-66, 441-467` | a map under a mutex | overwrite, read |
| Configuration, conversions, URL parsing | `Config.h`, `Types.cpp`, `MarketDataFeed.cpp:695-753` | none after start-up | pure functions |

How they interact: every HTTP request runs on a thread of its own (`.multithreaded()`).
The handlers meet in the book (its lock), in the id counters (atomic) and in the
statistics (nothing). The feed's worker thread runs asio handlers one at a time and
meets the API threads in the subscription lists (a mutex), in three atomic
flags and in the queue of posted functions; `main` starts, stops and destroys it.
The feed delivers ticks to a cache that the book never reads, so the two halves
of the system are independent and are modelled apart.

What is hard here, and what correctness means for each part:

- **Engine.** A long sequence of legal calls must never leave an empty level (the
  loop calls `front()` unchecked), a crossed book, a lost or duplicated quantity,
  an id in the book twice, or a queue out of order; and every execution must be
  with the order that price-time priority puts first.
- **API.** Several requests in flight: ids stay unique, each trade is reported once,
  a cancel that was confirmed is final, nobody waits for ever. The statistics have
  no lock: what they still guarantee is a question, that they are exact is false.
  A load test answers for all its workers did, whatever runs beside them.
- **Feed.** Connection loss at any point, callbacks of streams that were replaced,
  a mutex taken after a flag was set, `stop()` while handlers run: it must not
  end up waiting for nothing, forget a subscription, or disagree with the service;
  in the end it has a connection or has given up, and `stop()` returns. Not all of
  this is so: see section 5.

`PROJECT.json` lists every hazard at its line, with the properties that watch it.

## 2. Modules

| Module | What it is |
|---|---|
| `Orders` | orders and trades as records; prices that cross, fills, `executeTrade` |
| `PriceTimePriority` | the abstract promise: a **set** of open orders, a taker, a log |
| `OrderBook` | the engine; `ImplementsPriceTimePriority` is its refinement |
| `OrderBookProofs` | proofs: lemmas on queues and levels; the safety invariants of the engine |
| `OrderBookRefinement` | proofs: the engine implements `PriceTimePriority`, step by step |
| `OrderBookAccounts` | proofs: the trade log and the orders agree on what was traded; no order is overfilled; gone orders stay gone |
| `TradingServer` | concurrent handlers on one `OrderBook` (by `INSTANCE`); `UsesTheBook` is the refinement of the book's specification |
| `TradingServerBook` | proofs: ids in flight are apart, so the server uses the book as specified and inherits its theorems |
| `TradingServerProofs` | proofs: places and hands of the threads, one holder of the lock, trades reported once |
| `TradingServerAnswers` | proofs: what an answered cancel and an answered load test say stays true |
| `TradingServerStatistics` | proofs: what the racing statistics are worth; every trade counted by its caller |
| `MarketDataFeed` | main thread, worker, API threads, network and service |
| `MarketDataFeedProofs` | proofs: the feed waits for something, forgets nothing pending, agrees with the service |
| `MC*.tla` | symmetry sets for TLC; the constants are in the `.cfg` files |

### The engine and the code

`book["Buy"]` and `book["Sell"]` are functions whose domain is the set of levels
present in `buyBook` and `sellBook`; a level may hold the empty queue, so that the
mistake the code must not make can be expressed. `std::greater`/`std::less` and
`begin()` are `BetterPrice` and `IsBest`. `addOrder` is split at the turns of its
loop: `AddOrder` takes the lock and stamps, `MatchBuyOrder`/`MatchSellOrder` are
one turn each, `RestOrder`/`DropOrder` end the loop and release the lock.
`incoming # NoOrder` is the lock held exclusively, so no other operation of the
book happens meanwhile; only `DrawTradeId` does, because `Trade::generate_id` is
outside the lock (`/models/demo`). Splitting the call makes the invariants say
more: they hold in the middle of the loop too.

`arrival` (on an order), `clock` and `submitted` are history: the order of
acquisitions of the lock and the ids seen. `clock` also stands for the time
`addOrder` would stamp on an order that came without (`Stamp = {0}`).
Prices are only compared by the engine, so naturals stand for doubles (NaN is
refused by no check but cannot be written in JSON). `client_id` and trade
timestamps are carried and never read, and are left out.

`clear()` has no caller in the program; it is a public operation of the class
and is modelled. `Order::cancel()` sets a status on an order that is erased in the
next statement, so it leaves no trace. `Order::fill`, both `operator<`,
`removeFromPriceLevel`, `nextTradeId` and `Trade::from_json` are never used.

### The server and the code

One request, one handler, `pc` its place. POST `/orders` reads the clock
(`StampOrder`), draws an id (`DrawOrderId`), takes the book's lock with a **copy**
of the order (`EnterBook`), matches, leaves with the vector of trades, and updates
the statistics with separate loads and stores per field in any order
(`LoadField`, `StoreField`): `stats` is a plain global, so this is a data race,
and a lost update is the outcome its builds produce. The response has the
handler's own order. Reports are sequences of locked reads of the book and
unlocked reads of the statistics. `raced` is history.
Requests that are refused (bad JSON, validation, a missing `client_id`) change
nothing and are one step (`badpost`).

A load test (`/test/concurrency`) is a handler that starts `num_threads` workers
(`RunLoad`), waits for them and answers (`AnswerLoad`). Worker `t` goes through
`i = t, t + num_threads, ...`: it constructs an order, buy or sell by the parity
of `i` (`ConstructOrder` draws the id and `StampConstructed` reads the clock, the
other way round than `from_json`), uses the book and the statistics by the same
actions as POST `/orders` (`SubmitAndCount`), adds to the two atomic counters
(`Tally`, before the statistics) and goes on (`NextIndex`). Price and quantity are
functions of `i` in the code and any valid ones here, which covers them.
`num_threads = 0` stands for negative numbers too; nothing checks it.

`total_trades` and `total_volume` are `int`s: `Wrapped` is two's complement with
`IntMax` as its largest value. Signed overflow is undefined in C++; the addition to
a field in memory wraps in the builds there are.

### The feed and the code

Actors: `main` (steps of `stop()` and destruction), `worker` (handlers are
atomic, with the exception of "authenticated", which sets a flag before it takes
the mutex: `resuming`), API threads (`Subscribe`, `Unsubscribe`, atomic under the
mutex), and the external network and service. `posted` is the queue of functions
posted to the strand, `writing` the outstanding `async_write`s, `stale` the
operations of streams that `connectWebSocket` replaced, whose handlers still run
with an error. The service answers every message it gets in order, accepts only
what follows its acceptance of the credentials, and may refuse anything; the
connection breaks with all that is on the way.

Assumptions about time, both from the configured delays (5 s and 30 s): what was
posted or aborted has run before a reconnect timer set at the same time fires,
and a heartbeat timer that expired is served within another interval.
Handlers of one `io_context` run in the order in which they became ready, so what
is posted after a timer's handler became due runs behind it.

`residue` is the one thing that is followed of `buffer_`: a connection that is lost
in the middle of a message may leave the beginning of it there (`LoseMessage`), and
`onRead` then takes the old bytes and the new for one message, which does not parse,
and consumes only as many as came in: something is left for good
(`ReceiveUnparsed`). The feed is deaf from then on, connected and without an error.

`connected_` and `authenticated_` stay true after a read error, so that a
`subscribe()` during a reconnect starts a write on a stream that is still
connecting. The write fails and its handler schedules
another reconnect, which replaces the stream even when that has opened
meanwhile; the aborted read schedules the next one. With nothing else wrong this
goes on for ever, as each success resets the count (`ReconnectsEnd` fails).

`closing` is the outstanding `async_close`. `closeWebSocket` asks only
`connected_`, so `stop()` starts one also on a stream that broke or is still
connecting, and `onClose` clears the flags of whatever connection is there by
then. The properties of subscriptions therefore speak of the feed until `stop()`
begins (`main = "up"` in `Hearing`): after it a connection may open, and
authenticate, with the flags cleared under it.

Channels (trades, quotes, bars) are one, so a subscription to no channel at all
is not represented. Not modelled: tick parsing, callbacks, a torn access to `ws_`
by `stop()` and the worker at once.

## 3. Runs

| Run | What it shows | Instance |
|---|---|---|
| `order_book` | type invariant, eight safety invariants, `GoneForGood`, `NeverOverfilled`, the refinement of `PriceTimePriority` | 4 ids, 3 prices, sizes 1-2, 108,592 states |
| `server_orders` | book used as specified, trades reported once, cancels final, no deadlock | 3 requests of 4 kinds, 390,477 states |
| `server_statistics` | what the racing statistics still guarantee, every trade counted by its caller | a POST or two, or one and a load test of 2 orders on up to 2 threads; a sum with a 2-bit width, a minimum; 1,222,920 states |
| `server_liveness` | every request is answered; a load test has submitted all its orders by then | 2 requests of 5 kinds, load test of up to 3 orders on up to 2 threads, 174,912 states |
| `feed` | never waits for nothing, forgets nothing pending, agrees with the service, over series of reconnects with handlers of replaced streams outstanding | 2 symbols, 2 retries, 2 breaks, 4,163,259 states |
| `feed_liveness` | connects, gives up or hangs in the TLS handshake; what is pending on authentication reaches the service; stops; agrees with the service with two requests on the way | 2 symbols, 1 retry, 1 break, 382,923 states |
| `two_symbols`, `server_lost_update`, `server_time_priority`, `feed_cleared`, `feed_joined`, `feed_storm` | one disagreement each between the code and what the repository says (`findings`) | stop at the counterexample |

**Why the bounds are enough.** *Engine:* four orders are the least with which a taker
meets two makers on one level and a third on another, or with which a level is
emptied, re-created and filled again; sizes 1-2 give exact, partial and remaining
fills, three prices a best, a worse and one between; ids are symmetric.
`MaxTradeId` bounds ids drawn elsewhere. *Server:* three requests are
two that race and one that makes what they race for (a resting order to fill or
cancel); a lost update or an overtaken timestamp needs two. `OrderId` bounds the ids that are drawn,
a guard of `DrawOrderId` and `ConstructOrder`; it is large enough for all who draw, two
per demo, as the check for deadlock confirms. The clock in `Stamp` is one value where it does not
matter and 1..3 in `server_time_priority`. In the load test two workers and a POST
are three threads in the book and the statistics at once, and three orders on two
threads make a stride that ends at different turns; `MaxLoads` is one, as two load
tests share nothing that a load test and a POST do not. `IntMax = 1` is the least
that two trades of size 1 overflow. *Feed:* in `feed`, two retries and two breaks
give: first connection, failure in each stage, loss, a second and a third connection
with residue of the one before, the count growing, reset and used up, handlers of
replaced streams (`stale`) beside a new one, which takes two reconnects at once
and so two retries, giving up, and stop at any of these. It pays for that with one
message on the way at a time: `MaxLoad` bounds what is on the way before new
calls and ticks come (replies and posted work are never held back by it).
`feed_liveness` has two, so that acknowledgements and `unsubscribe()` cross, and two
symbols, of which one may be acknowledged while the other waits; for these one retry
and one break do.
`MaxSilence` bounds the intervals without a
message; 0 leaves the heartbeat out of the liveness runs, where it could only ever
re-arm itself (`silence` never exceeds one interval, `TypeOK` of `feed`).
Each bound is in a guard or in a constant named `Max...`.

**Deadlock** is checked in the engine and in `server_orders` and
`server_statistics` (a disjunct `Quiet` stands for a server with nothing to do).
It is not in the feed, whose process ends, nor in `server_liveness`, where the
property says more: not only some step but every request's answer comes.

**Fairness.** `server_liveness` assumes weak fairness of each handler's thread: the
operating system keeps running it. `std::shared_mutex` promises no fairness, so a
waiting handler may be passed over again and again; but each request takes the
lock a bounded number of times, so it is free for good in the end, which is the
reason weak fairness is enough. The matching loop ends because every turn
uses up the taker or a maker, a worker's loop because `i` grows.
The feed's `Fairness` assumes that the worker runs what is ready, in the order in which
`io_context` queues it, so that no kind of handler is passed over for ever; that a
TCP connect ends, as the operating system gives up on it; that the upgrade to
WebSocket ends, for which the code sets `timeout::suggested` before it; that a write, and
what has arrived to be read, is completed; that the service answers a request with an
acceptance or an error; and that `stop()`, once called, proceeds. It assumes nothing
of the TLS handshake, for which no timeout is set: a peer may be silent in it for
ever, and `ConnectsOrGivesUp` names that as the one way never to end. Nor does it assume that anybody starts, stops or subscribes, that attempts ever
succeed, or that connections break. `Break` is a loss that the feed is told of. A
half-open connection, on which nothing fails and nothing arrives, is the behaviour
in which it is never taken; the heartbeat that should notice it cannot time out, because
`startHeartbeat` resets `last_heartbeat_` each interval.

**Mutants.** Every property has a mutant, a definition next to the one it changes
(marked "Mutant of"), that makes its run fail: push to the front, a level kept
empty, a copy for a reference, a load for a `fetch_add`, a failure that
schedules nothing, and so on.

## 4. Proofs

For all values of the constants, TLAPS checks every safety invariant and action
property of the passing runs, and both refinements.

**Assumptions.** Only the named `ASSUME`s. Engine: the bounds on prices and sizes are
naturals, stamps are naturals, `NoOrder` is no order. Server: `Field` and `Kind` name
what exists; the bounds are naturals (`LoadAssumption`, `BookAssumption`); the steady
clock never reads the 0 that stands for an unset timestamp (`ClockAssumption`: it
counts from an epoch before the process); there are finitely many requests, and none is
a worker (`ThreadAssumption`; sums over all requests need the first). Feed: the bounds are naturals.

### The engine's invariants (`OrderBookProofs`)

`TypeOK`, `NoEmptyLevels`, `OrdersSound`, `NotCrossed`, `QueuedByArrival`, `IdsUnique`,
`TradeIdsGrow`. None of these is inductive alone. `NotCrossed` in the middle of a loop
needs that the taker is not in the book and that the loop ends only when the best level
does not accept; `QueuedByArrival` needs that what arrives is later than all that rests
(`TakerSound`); the quantities need `LevelsSound`; and that a level exists at all to
take an order from needs `NoEmptyLevels`. `IInv` is their conjunction, split into
`BookInv` (the two maps) and the rest. The argument:

1. Every step changes the book in one of three ways. Matching, cancelling and
   clearing **shrink** it: each new queue embeds in the old one, order and ids
   preserved (`Embeds`, `ShrinkQueue`). Resting **appends** one order
   (`QueueOrder`). Everything else leaves it alone (`BookUntouched`).
2. One lemma per action (`AddOrderPreserves`, `MatchPreserves`, `RestPreserves`,
   `CancelPreserves`, `ClearPreserves`, `OtherwisePreserves`) supplies what its case needs.
3. `RestPreserves` uses that a non-empty set of prices has a best one
   (`BestExists`): the taker does not cross the best price, hence no other.
4. `Invariance == Spec => []IInv` follows, and the theorems from it.

### The engine implements price-time priority (`OrderBookRefinement`)

`Refinement == Spec => ImplementsPriceTimePriority`. The mapping forgets levels and
queues: the abstract open orders are the set `Resting`. What has to be shown is that
the front of the best level *is* the first order of that set by price, then arrival
(`BestIsFirst`, from `QueuedByArrival` and `IdsUnique`), that replacing or popping the
front of a queue changes the set by one order (`RestingAfter`, `RestingAfterTrade`), and
that a loop which has ended is one the abstract engine may end: nothing compatible is
left for what remains (`DoneIsExhausted`). Each action is then an abstract step or a stutter
(`StepRefines`).

### The engine's accounts (`OrderBookAccounts`)

`QuantityConserved`: what an order has left and what the log says it traded make up its
quantity, for resting orders and the taker. `ReturnsItsTrades`: the vector `addOrder`
builds is the end of the log. `GoneForGood`: an order that has left the book and the
taker's place never comes back and trades no more. `NeverOverfilled`: no step lets an
order trade more than its quantity. `QuantityConserved` alone says nothing of an order that
the step takes out, so this is a property of steps: the order is in the state before,
its trades are counted in the log after (`NextWithinQuantity`; the turn that trades is
`MatchWithinQuantity`, where what is traded is at most what either order has left).
With `GoneForGood` it says that an order that is gone has traded at most its quantity.

`TradedIn` is a sum over the log by a recursive function. That the partial sums exist
and that two ways of computing them agree would be inductions; here each is a
contradiction at the least place where it fails, which the well-ordering of the naturals
in the solver gives (`PartialSumsExist`, `StepwiseEqual`). `TradedInAppend` is then all
the engine needs. The invariant `AInv` adds to the checked properties that ids in the log
were submitted (`LogKnown`: an order not seen yet has traded nothing) and that a free
lock means an empty vector (`StartsEmpty`). `KeepsOrders` and `CancelSettlesAccounts` say of steps
what the server needs: orders are known by id and keep their quantity, and a cancel
takes out an order that had not traded it all.

### The server uses the book as specified (`TradingServerBook`)

`UsesTheBook` needs that every order `EnterBook` brings has an id the book has not
seen. `FlightInv`: drawn ids lie below the counter, are in one hand each (`IdsApart`),
and what a thread holds between construction and submission is a valid new order. The
`fetch_add` is what keeps the ids apart; with a load in its place (the mutant
`ReadOrderId`) the step fails. Hence every engine theorem holds in the server: they are
instantiated (`Engine == INSTANCE OrderBookAccounts`), giving `BookInvariance`.

### Threads, lock, reports (`TradingServerProofs`)

`ServerInv` is the conjunction of `PlaceInv` (which places a handler of a kind and a worker
can be at), `HandInv` (types of orders, vectors, registers; a register belongs to
somebody who counts) and `LockInv`: the book is locked exactly while some thread
is in `addOrder`, and no two are. `TypeOK` follows. `ReportInv`: a trade of the log is
either in the vector being built, or in the vector of exactly one request, and
a thread that has not left the book has none. It rests on `LockInv` and on trade ids
being different (`TradesApart`, from `TradeIdsGrow`). `EachTradeReportedOnce` turns it into the
cardinality that `TradesReportedOnce` states.

### Answers stay true (`TradingServerAnswers`)

`CancelIsFinal`. `HeldInv` says that the order a handler holds was submitted, once
it is on its way no more, and has the quantity of the one the book knows by its id; `CancelInv` that the id of a confirmed
cancel was submitted, is out of the book (`OutOfBook`), is in no other confirmed cancel,
and traded less than its quantity. The step that confirms uses
`CancelSettlesAccounts`; every other step uses the engine's `GoneForGood`, step-wise
(`BookStaysGone`): once out, never back and no more trades.

`LoadIsComplete`. `SharesInv`: the indices done (`Done`) are, for each worker,
those of its residue class below its loop index, and `completed_orders` is their
number. Different workers have different residues (`i % num_threads`), so a tally adds a
new index; when all workers have finished every index below `num_orders` is done.
Arithmetic of `%` is in `ModStep`, `ModLast`, `ModSmall`. `AnswerInv` keeps it true after the answer.

### The statistics (`TradingServerStatistics`)

*Sums.* The totals are folds of the community modules, which are recursive functions
that take the elements of a set in an order `CHOOSE` fixes. The proofs need that such a
function exists, that any element may be taken first, and that a larger set of naturals
has no smaller sum (`SumAddsUp`, `SumParts`, `SumGrows`). Each would be an induction on
the set; here each is a contradiction at a smallest set where it fails (`SmallestSet`).

*What is counted.* `QueuesInv`: a trade waits to be counted in the `todo` of one thread
at most, once, and not before `addOrder` has returned it. So each trade of the log is, for
each field, being built, waiting, or counted (`CountedIn`), and only `StoreField` moves
one from waiting to counted (`StoreFieldQueues`, `CountsOne`); all other steps keep what
is counted (`SameCounts`).

*What it is worth.* `ValuesInv` speaks of the fields **and** of the registers, because a
register is stale when another thread stored first, and is stored all the same:

- A sum that is stored, or loaded and about to be, is at most that of the trades
  counted; a price is one of theirs or the blank one. A stale register satisfies this too,
  since what is counted only grows, so nothing is overstated: `StatsNeverOverstate`. The
  `int` fields need that cutting a number to its width never makes it larger, as long as it is not
  below the width (`WrappedRange`).
- A field outside `raced` is exactly what is counted: a register on it equals the field, and no
  other register is on it. Hence `ExactUnlessRaced`. An `int` that wraps at each addition is
  the wrapped exact count (`WrappedSum`, `ModSum`).

*Who made it.* `TradesAccountedFor` is inductive with two facts on its side (`MadeInv`): a thread that
has not left the book has no trades, and a load test that has not started counts none.
`LeaveBook` moves the vector from the book to its caller, `Tally` from a worker to
its load test; the sums change by one summand each.

### The feed (`MarketDataFeedProofs`)

`TypeOK`, `StillTrying`, `PendingOnItsWay`, `SubscribedAtServer`. `IInv` and why each part is
needed:

- `Control`: how `worker`, `stream` and the flags go together (an open stream
  has a read on it; an opening one has nothing on the way; until `stop()` begins,
  an open stream is `connected` and nothing is closing it).
- `StillTrying` itself: the feed has a connection, is making one, or has a timer or an
  aborted operation left that will; it is inductive with `Control`.
- `PendingInv`: while the feed can hear, it is authenticated, will be, or will be
  refused; and what is pending has a request on the way or will get one on authentication.
- `FirstConnection`: until the first break nothing is left that could replace the stream,
  so the lists describe this connection and no earlier one.
- `AuthKnown`: what the service sent after it accepted the credentials is read after
  "authenticated": messages arrive in order. Without authentication nothing is subscribed.
- `AgreedInv`: the last acknowledgement on the way names what the service
  has subscribed (`LastAckIs`), or, with none on the way, the feed's list does, up to symbols
  that are leaving. `SubscribedAtServer` is its case with nothing outstanding.

### How the prover is used

A theorem needs three facts: the initial states, the steps, the consequence; the last
line joins them by temporal logic (`PTL`). Steps are split by action. tlapm 1.4.5 axiomatises
`Len` for its SMT solver too generously (a function with domain `1..n` is taken to have
length `n` also for `n` below 0). All proofs were checked a second time with only the
sound direction of that axiom.

**Only model-checked.** The properties of the runs that end in a counterexample.
Liveness and what depends on `ENABLED` (`server_liveness`'s `EveryRequestAnswered`,
the temporal properties of `feed_liveness`, deadlock) are out of the prover's reach.

## 5. What the checks found

- One book for all symbols: orders of different symbols trade (`two_symbols`).
- `TradeStatistics` loses trades under concurrent requests (`server_lost_update`). What
  remains true is in `server_statistics`: it never overstates, and a field that no two
  handlers had loaded at once is exact.
- Timestamps are taken before the lock, so "oldest" means first to get the lock,
  not earliest stamp (`server_time_priority`). `QueuedByArrival` is what does hold.
- A subscription acknowledgement clears subscriptions queued after the request it
  answers (`feed_cleared`): a symbol may be neither pending nor subscribed.
- After the last reconnect attempt `stop()` skips the join, and destroying the feed
  ends the process by `std::terminate` (`feed_joined`).
- The flags that `subscribe()` and `unsubscribe()` ask are those of the connection before,
  so a message is written to a stream that is still connecting. The reconnect that this
  causes keeps itself going: each one replaces an open stream, whose aborted read
  schedules the next, and each success resets the count that `max_reconnect_attempts`
  bounds (`feed_storm`).

Met while modelling and not runs of their own: the POST response shows the order as if
it had not traded, since `addOrder` filled its copy; `connection_timeout_ms`
(`Config.h:25`) is read by nothing, and the TLS handshake has no other timeout; a lost message leaves a residue that makes
the feed deaf (`residue`); after a reconnect nothing asks again for what was subscribed
before, and `getSubscribedSymbols()` still lists it; a write that fails when the attempts
are used up sets `running_` to false while the connection it failed on still opens;
`num_threads <= 0` answers 200 with no order submitted (`LoadIsComplete` states
it); `test_market_data.cpp:353-372` expects a symbol in `getSubscribedSymbols()` as soon
as `subscribe()` returned, where the code lists it when the service has acknowledged it;
`SERVER_PORT` is read and ignored, and one that is no number disables the feed.

## 6. Not modelled, and why

Tick cache: one overwrite under a mutex per tick and a read of the whole map under
the same mutex; no property of it takes more than one step. Configuration:
sequential code before any thread starts, of which the feed's constants are the
result. Conversions, URL parsing and tick parsing: functions of one input without
state, on characters and doubles; that they fail is modelled where a caller has a
path for it (`RefuseOrder`, `RefuseLoad`, `ConnectWebSocket`). Static endpoints
and the HTTP framework. Exhaustion of memory or threads: a `std::thread` that cannot be
created in a load test ends the process. The quotient `orders_per_second`, infinite
when a test takes less than a millisecond. Quotes that `/market`, `/statistics` and
`/orderbook` read under several locks: modelled as separate reads, but the repository
promises nothing of how they fit together. The three `fetch_add`s of `/models/demo` are one
step (`Demo`): what comes between them shifts ids that nobody refers to. Readers of the
book that never stop coming, which could keep a writer out of the lock: the requests of a
run are finitely many. What the feed does once it runs on a residue, after an error of the
service or on a stale list of subscriptions: these states are in the model, and the
properties of subscriptions except them, as the code does nothing about them.

## 7. Plan

Done: engine, server with load tests, feed with its faults and liveness; proofs of all
their safety properties and of both refinements. What could be added:

1. Action properties of the server that the invariants imply step by step: answers are
   given once, an exact field changes by the trade at hand.
2. Safety parts of the feed's liveness: after `stop()` nothing is started anew.
