---------------------------- MODULE MarketDataFeed -----------------------------
(***************************************************************************)
(* The client of the market data service, class MarketDataFeed.  Three     *)
(* kinds of actors share it: the worker thread, which runs the handlers of *)
(* io_context_ one at a time; the threads of the API, which subscribe and  *)
(* unsubscribe; and the main thread, which starts it, stops it and         *)
(* destroys it.  The service and the network are external: they answer     *)
(* what they receive, and the connection may break at any time.            *)
(*                                                                         *)
(* Handlers are atomic, except the one for "authenticated": it sets an     *)
(* atomic flag and later takes subscriptions_mutex_, and an API thread     *)
(* may come in between.                                                    *)
(***************************************************************************)
EXTENDS Naturals, FiniteSets, SequencesExt

CONSTANTS Symbol,       \* the symbols clients subscribe to
          MaxAttempts,  \* max_reconnect_attempts
          MaxLoad,      \* bound: with as much on the way, no new calls and ticks
          MaxBreaks,    \* bound: how often the connection may break
          MaxSilence    \* bound: the heartbeat intervals of silence that are followed

ASSUME BoundsAssumption ==
  {MaxAttempts, MaxLoad, MaxBreaks, MaxSilence} \subseteq Nat

VARIABLES
  main,             \* the main thread: up, in one of the steps of stop(), or gone
  worker,           \* worker_thread_: none, starting, running, ended (not yet joined), joined
  running, connected, authenticated, reconnect_attempts,
  closing,          \* an async_close is outstanding
  connects,         \* handlers of reconnect_timer_ that are due
  reconnect_timer,  \* an async_wait of reconnect_timer_ is outstanding
  heartbeat_timer,  \* heartbeat_timer_: off, waiting or due
  silence,          \* heartbeat intervals since last_heartbeat_
  stream,           \* how far *ws_ has come
  reading,          \* an async_read of *ws_ is outstanding
  writing,          \* the messages of its outstanding async_writes
  stale,            \* operations of streams that were replaced, to be aborted
  residue,          \* buffer_ holds a part of a message that never came whole
  posted,           \* what was posted to strand_ and has not run
  resuming,         \* the worker is about to call sendSubscriptionMessage
  pending, subscribed,      \* pending_subscriptions_ and subscribed_symbols_
  toServer, toClient,       \* the two directions of the connection
  serverAuth, serverSubs,   \* the service: this connection is authenticated; its symbols
  breaks,           \* history: how often the connection has broken
  refused           \* history: on this connection, the service reported an error

threads == <<main, worker, running>>
flags   == <<connected, authenticated, closing>>
timer   == <<reconnect_attempts, reconnect_timer>>
heart   == <<heartbeat_timer, silence>>
io      == <<stream, reading, writing, stale, residue>>
subs    == <<pending, subscribed>>
server  == <<toServer, toClient, serverAuth, serverSubs, refused>>
vars    == <<threads, flags, timer, heart, connects, io, posted, resuming, subs, server, breaks>>

\* Messages of the client, and tasks that call a member function.
Auth           == [do |-> "auth", of |-> {}]
Sub(symbols)   == [do |-> "subscribe", of |-> symbols]
Garbled        == [do |-> "garbled", of |-> {}]
Unsub(symbols) == [do |-> "unsubscribe", of |-> symbols]
SubTask        == [do |-> "call sendSubscriptionMessage", of |-> {}]
UnsubTask(s)   == [do |-> "call sendUnsubscriptionMessage", of |-> {s}]

\* Messages of the service.
Authenticated == [T |-> "success", of |-> {}]
Ack(symbols)  == [T |-> "subscription", of |-> symbols]
Error         == [T |-> "error", of |-> {}]
Tick          == [T |-> "t", of |-> {}]

Stages == <<"connecting", "handshaking", "upgrading", "open">>

Init ==
  /\ main = "up" /\ worker = "none" /\ running = FALSE
  /\ connected = FALSE /\ authenticated = FALSE /\ closing = FALSE
  /\ reconnect_attempts = 0 /\ reconnect_timer = FALSE
  /\ heartbeat_timer = "off" /\ silence = 0
  /\ connects = 0
  /\ stream = "none" /\ reading = FALSE /\ writing = <<>> /\ stale = 0 /\ residue = FALSE
  /\ posted = <<>> /\ resuming = FALSE
  /\ pending = {} /\ subscribed = {}
  /\ toServer = <<>> /\ toClient = <<>> /\ serverAuth = FALSE /\ serverSubs = {}
  /\ breaks = 0 /\ refused = FALSE

-------------------------------------------------------------------------------
\* The main thread.

Start ==
  /\ main = "up" /\ worker = "none"
  /\ ~running
  /\ running' = TRUE
  /\ worker' = "starting"
  /\ UNCHANGED <<main, flags, timer, heart, connects, io, posted, resuming, subs, server, breaks>>

\* stop(), called on the way out of main: nothing to do unless running.
StopBegin ==
  /\ main = "up"
  /\ main' = IF running THEN "stopping" ELSE "stopped"
  /\ running' = FALSE
  /\ UNCHANGED <<worker, flags, timer, heart, connects, io, posted, resuming, subs, server, breaks>>

\* The timers are cancelled, while the worker goes on.
StopTimers ==
  /\ main = "stopping"
  /\ main' = "closing"
  /\ reconnect_timer' = FALSE /\ heartbeat_timer' = "off"
  /\ UNCHANGED <<worker, running, flags, reconnect_attempts, silence, connects, io, posted,
                 resuming, subs, server, breaks>>

\* closeWebSocket, if connected_ is set, which it may be of a connection that
\* is lost: then the close fails, and leaves the stream as it is.
CloseWebSocket ==
  /\ main = "closing"
  /\ main' = "joining"
  /\ closing' = connected
  /\ stream' = IF connected /\ stream = "open" THEN "closing" ELSE stream
  /\ UNCHANGED <<worker, running, connected, authenticated, timer, heart, connects, reading, writing, stale, residue,
                 posted, resuming, subs, server, breaks>>

\* Mutant of StopJoin: join() without io_context_.stop().
JoinOnly ==
  /\ main = "joining" /\ worker \in {"none", "ended"}
  /\ main' = "stopped"
  /\ worker' = IF worker = "none" THEN "none" ELSE "joined"
  /\ connected' = FALSE /\ authenticated' = FALSE
  /\ reconnect_attempts' = 0
  /\ UNCHANGED <<running, closing, reconnect_timer, heart, connects, io, posted, resuming, subs,
                 server, breaks>>

\* io_context_.stop() and join(): what the worker is in the middle of ends,
\* the handlers that wait are never run.
StopJoin ==
  /\ main = "joining" /\ ~resuming /\ worker # "starting"
  /\ main' = "stopped"
  /\ worker' = IF worker = "none" THEN "none" ELSE "joined"
  /\ connected' = FALSE /\ authenticated' = FALSE
  /\ reconnect_attempts' = 0
  /\ UNCHANGED <<running, closing, reconnect_timer, heart, connects, io, posted, resuming, subs,
                 server, breaks>>

\* The feed is destroyed, with the stream and all that waits to be run; the
\* destructor's stop() finds it not running.
Destroy ==
  /\ main = "stopped"
  /\ main' = "gone"
  /\ stream' = "none" /\ reading' = FALSE /\ writing' = <<>> /\ stale' = 0 /\ residue' = FALSE
  /\ posted' = <<>> /\ resuming' = FALSE /\ connects' = 0 /\ closing' = FALSE
  /\ reconnect_timer' = FALSE /\ heartbeat_timer' = "off"
  /\ toServer' = <<>> /\ toClient' = <<>>
  /\ serverAuth' = FALSE /\ serverSubs' = {} /\ refused' = FALSE
  /\ UNCHANGED <<worker, running, connected, authenticated, reconnect_attempts, silence, subs,
                 breaks>>

-------------------------------------------------------------------------------
\* Subscribing and sending.

\* sendMessage: the write is posted, if connected_.
Posting(queue, message) ==
  IF connected THEN Append(queue, message) ELSE queue

\* sendSubscriptionMessage asks for all that is pending, in one message.
PostingSubscription(queue) ==
  IF pending = {} THEN queue ELSE Posting(queue, Sub(pending))

\* Everything that is on the way between the API and the service.
Load == Len(posted) + Len(writing) + Len(toServer) + Len(toClient)

\* Mutant of Subscribe: nothing is sent.
SubscribeQuietly(s) ==
  /\ main = "up"
  /\ s \notin subscribed \cup pending
  /\ Load < MaxLoad
  /\ pending' = pending \cup {s}
  /\ UNCHANGED <<threads, flags, timer, heart, connects, io, posted, resuming, subscribed,
                 server, breaks>>

Subscribe(s) ==
  /\ main = "up"
  /\ s \notin subscribed \cup pending
  /\ Load < MaxLoad
  /\ pending' = pending \cup {s}
  /\ posted' = IF connected /\ authenticated THEN Append(posted, SubTask) ELSE posted
  /\ UNCHANGED <<threads, flags, timer, heart, connects, io, resuming, subscribed, server, breaks>>

Unsubscribe(s) ==
  /\ main = "up"
  /\ s \in subscribed
  /\ Load < MaxLoad
  /\ subscribed' = subscribed \ {s}
  /\ pending' = pending \ {s}
  /\ posted' = IF connected /\ authenticated THEN Append(posted, UnsubTask(s)) ELSE posted
  /\ UNCHANGED <<threads, flags, timer, heart, connects, io, resuming, server, breaks>>

-------------------------------------------------------------------------------
\* The worker's handlers.  Each runs when the one before has returned.

Alive == worker = "running" /\ main # "gone"
Ready == Alive /\ ~resuming

\* Mutant of ScheduleReconnect: the attempts are not limited.
RetryForever ==
  IF running THEN /\ reconnect_attempts' = reconnect_attempts + 1
                  /\ reconnect_timer' = TRUE
                  /\ UNCHANGED running
             ELSE UNCHANGED <<running, timer>>

\* Mutant of ScheduleReconnect: the attempts are not counted.
RetryUncounted ==
  IF running /\ reconnect_attempts < MaxAttempts
    THEN reconnect_timer' = TRUE /\ UNCHANGED <<running, reconnect_attempts>>
    ELSE running' = FALSE /\ UNCHANGED timer

\* scheduleReconnect: gives up after MaxAttempts, and else arms the timer
\* (again: a wait that is outstanding is cancelled).
ScheduleReconnect ==
  IF running /\ reconnect_attempts < MaxAttempts
    THEN /\ reconnect_attempts' = reconnect_attempts + 1
         /\ reconnect_timer' = TRUE
         /\ UNCHANGED running
    ELSE /\ running' = FALSE
         /\ UNCHANGED timer

\* The delay is seconds: what was posted or aborted before has run by then,
\* and so have the handlers of a connection that is lost.
ReconnectTimerFires ==
  /\ Ready /\ reconnect_timer
  /\ posted = <<>> /\ stale = 0 /\ connects = 0
  /\ stream \in {"none", "broken"} => ~reading /\ writing = <<>>
  /\ reconnect_timer' = FALSE
  /\ connects' = connects + 1
  /\ UNCHANGED <<threads, flags, reconnect_attempts, heart, io, posted, resuming, subs,
                 server, breaks>>

\* The operations *ws_ still has when it is replaced, which aborts them.
Outstanding ==
  Len(writing) + (IF reading THEN 1 ELSE 0) +
  (IF stream \in {"connecting", "handshaking", "upgrading"} THEN 1 ELSE 0)

\* A stream is lost while it is read: the beginning of a message may be in
\* buffer_ by then, which outlives it.
LoseMessage ==
  \E partly \in {FALSE} \cup {reading /\ toClient # <<>>} : residue' = (residue \/ partly)

\* connectWebSocket makes a new stream; it may fail at once (URL, resolver).
ConnectWebSocket ==
  /\ stale' = stale + Outstanding
  /\ LoseMessage
  /\ reading' = FALSE /\ writing' = <<>>
  /\ toServer' = <<>> /\ toClient' = <<>>
  /\ serverAuth' = FALSE /\ serverSubs' = {} /\ refused' = FALSE
  /\ \/ stream' = "connecting" /\ UNCHANGED <<running, timer>>
     \/ stream' = "none" /\ ScheduleReconnect
  /\ UNCHANGED <<main, flags, heart, posted, resuming, subs, breaks>>

\* The worker thread begins with a connection, whether it is to run or not.
WorkerStarts ==
  /\ worker = "starting" /\ main # "gone"
  /\ worker' = "running"
  /\ ConnectWebSocket
  /\ UNCHANGED connects

\* The handler of the timer.
Reconnect ==
  /\ Ready /\ connects > 0
  /\ connects' = connects - 1
  /\ IF running
       THEN ConnectWebSocket
       ELSE UNCHANGED <<main, running, flags, timer, heart, io, posted, resuming, subs,
                        server, breaks>>
  /\ UNCHANGED worker

\* An operation of a replaced stream fails; its handler cannot tell.
StaleOperationFails ==
  /\ Ready /\ stale > 0
  /\ stale' = stale - 1
  /\ ScheduleReconnect
  /\ UNCHANGED <<main, worker, flags, heart, connects, stream, reading, writing, residue, posted,
                 resuming, subs, server, breaks>>

\* onConnect and onHandshake start the next stage.
NextStage ==
  /\ Ready
  /\ \E i \in 1..2 : stream = Stages[i] /\ stream' = Stages[i + 1]
  /\ UNCHANGED <<threads, flags, timer, heart, connects, reading, writing, stale, residue, posted,
                 resuming, subs, server, breaks>>

\* Mutant of StageFails: the error is only reported.
StageFailsQuietly ==
  /\ Ready
  /\ stream \in {"connecting", "handshaking", "upgrading"}
  /\ stream' = "none"
  /\ UNCHANGED <<threads, flags, timer, heart, connects, reading, writing, stale, residue, posted,
                 resuming, subs, server, breaks>>

\* Any of the three fails.
StageFails ==
  /\ Ready
  /\ stream \in {"connecting", "handshaking", "upgrading"}
  /\ stream' = "none"
  /\ ScheduleReconnect
  /\ UNCHANGED <<main, worker, flags, heart, connects, reading, writing, stale, residue, posted,
                 resuming, subs, server, breaks>>

\* The WebSocket is open: reading starts, and the credentials are sent.
Opened ==
  /\ Ready /\ stream = "upgrading"
  /\ stream' = "open"
  /\ connected' = TRUE
  /\ reconnect_attempts' = 0
  /\ reading' = TRUE
  /\ posted' = Append(posted, Auth)
  /\ UNCHANGED <<threads, authenticated, closing, reconnect_timer, heart, connects, writing, stale,
                 residue, resuming, subs, server, breaks>>

\* What was posted to the strand runs, behind a timer's handler that was due
\* before: a message is made, or a write starts.
\* A write that waits for another outlives the buffer it was given, which the
\* posted function owned: what it sends is anything.
RunPosted ==
  /\ Ready /\ posted # <<>> /\ connects = 0
  /\ LET task == Head(posted)
         rest == Tail(posted)
     IN  CASE task = SubTask ->
                posted' = PostingSubscription(rest) /\ UNCHANGED writing
           [] task \in {UnsubTask(s) : s \in Symbol} ->
                posted' = Posting(rest, Unsub(task.of)) /\ UNCHANGED writing
           [] OTHER ->
                /\ posted' = rest
                /\ \E message \in {task} \cup (IF writing = <<>> THEN {} ELSE {Garbled}) :
                     writing' = Append(writing, message)
  /\ UNCHANGED <<threads, flags, timer, heart, connects, stream, reading, stale, residue, resuming,
                 subs, server, breaks>>

\* onWrite: the message is on its way.
WriteDone ==
  /\ Ready /\ stream = "open" /\ writing # <<>>
  /\ writing' = Tail(writing)
  /\ toServer' = Append(toServer, Head(writing))
  /\ UNCHANGED <<threads, flags, timer, heart, connects, stream, reading, stale, residue, posted,
                 resuming, subs, toClient, serverAuth, serverSubs, refused, breaks>>

\* onWrite with an error: the stream is broken, or not open yet.
WriteFails ==
  /\ Ready /\ stream # "open" /\ writing # <<>>
  /\ writing' = Tail(writing)
  /\ ScheduleReconnect
  /\ UNCHANGED <<main, worker, flags, heart, connects, stream, reading, stale, residue, posted,
                 resuming, subs, server, breaks>>

\* onRead with an error.
ReadFails ==
  /\ Ready /\ reading /\ stream \in {"broken", "closing"}
  /\ reading' = FALSE
  /\ ScheduleReconnect
  /\ UNCHANGED <<main, worker, flags, heart, connects, stream, writing, stale, residue, posted,
                 resuming, subs, server, breaks>>

\* onClose, with an error or without.
Closed ==
  /\ Ready /\ closing
  /\ closing' = FALSE
  /\ stream' = IF stream = "closing" THEN "none" ELSE stream
  /\ connected' = FALSE /\ authenticated' = FALSE
  /\ UNCHANGED <<threads, timer, heart, connects, reading, writing, stale, residue, posted, resuming,
                 subs, server, breaks>>

\* onRead and handleSingleMessage.  An error of the service is only reported,
\* and a tick only handed on.
Receive(T) ==
  /\ Ready /\ reading /\ stream = "open"
  /\ ~residue
  /\ toClient # <<>> /\ Head(toClient).T \in T
  /\ toClient' = Tail(toClient)
  /\ silence' = 0
  /\ UNCHANGED <<threads, timer, heartbeat_timer, connects, io, posted, toServer, serverAuth, serverSubs,
                 refused, breaks>>

ReceiveAuthenticated ==
  /\ Receive({"success"})
  /\ authenticated' = TRUE
  /\ resuming' = TRUE
  /\ UNCHANGED <<connected, closing, subs>>

\* startHeartbeat counts as a message received.
StartHeartbeat ==
  IF running THEN heartbeat_timer' = "waiting" /\ silence' = 0 ELSE UNCHANGED heart

\* Mutant of ResumeSubscriptions: what was pending before is not sent.
ResumeQuietly ==
  /\ Alive /\ resuming
  /\ resuming' = FALSE
  /\ StartHeartbeat
  /\ UNCHANGED <<threads, flags, timer, connects, io, posted, subs, server, breaks>>

\* ... and once it has the mutex:
ResumeSubscriptions ==
  /\ Alive /\ resuming
  /\ resuming' = FALSE
  /\ posted' = PostingSubscription(posted)
  /\ StartHeartbeat
  /\ UNCHANGED <<threads, flags, timer, connects, io, subs, server, breaks>>

\* Mutant of ProcessSubscriptionAck: subscribed_symbols_ is not cleared first.
AddAcknowledged ==
  /\ Receive({"subscription"})
  /\ subscribed' = subscribed \cup Head(toClient).of
  /\ pending' = {}
  /\ UNCHANGED <<flags, resuming>>

\* processSubscriptionAck takes over what the service says.
ProcessSubscriptionAck ==
  /\ Receive({"subscription"})
  /\ subscribed' = Head(toClient).of
  /\ pending' = {}
  /\ UNCHANGED <<flags, resuming>>

ReceiveOther ==
  /\ Receive({"error", "t"})
  /\ UNCHANGED <<flags, resuming, subs>>

\* What is read follows the residue and does not parse.  Only its own length
\* is consumed from the front, so that as much stays in buffer_ as was there.
ReceiveUnparsed ==
  /\ Ready /\ reading /\ stream = "open"
  /\ residue
  /\ toClient # <<>>
  /\ toClient' = Tail(toClient)
  /\ UNCHANGED <<threads, flags, timer, heart, connects, io, posted, resuming, subs,
                 toServer, serverAuth, serverSubs, refused, breaks>>

\* handleHeartbeat, an interval after startHeartbeat.
HandleHeartbeat ==
  /\ Ready /\ heartbeat_timer = "due"
  /\ IF running /\ connected /\ silence <= 2
       THEN StartHeartbeat /\ UNCHANGED <<running, timer>>
       ELSE /\ heartbeat_timer' = "off" /\ UNCHANGED silence
            /\ IF running /\ connected THEN ScheduleReconnect ELSE UNCHANGED <<running, timer>>
  /\ UNCHANGED <<main, worker, flags, connects, io, posted, resuming, subs, server, breaks>>

\* io_context_.run() returns when nothing is left to do.
RunReturns ==
  /\ Ready
  /\ connects = 0 /\ Outstanding = 0 /\ ~closing /\ stale = 0 /\ posted = <<>>
  /\ ~reconnect_timer /\ heartbeat_timer = "off"
  /\ worker' = "ended"
  /\ UNCHANGED <<main, running, flags, timer, heart, connects, io, posted, resuming,
                 subs, server, breaks>>

-------------------------------------------------------------------------------
\* Time, the network and the service.  What they do when no handler runs any
\* more is of no consequence.

\* A heartbeat interval has passed since startHeartbeat.  The timer is served
\* before another has.
Interval ==
  /\ Alive /\ heartbeat_timer = "waiting" /\ silence < MaxSilence
  /\ heartbeat_timer' = "due"
  /\ silence' = silence + 1
  /\ UNCHANGED <<threads, flags, timer, connects, io, posted, resuming,
                 subs, server, breaks>>

\* The connection breaks, with all that is on the way, and the feed is told:
\* by a reset, or because what it sent was never confirmed.
Break ==
  /\ Alive /\ stream = "open" /\ breaks < MaxBreaks
  /\ breaks' = breaks + 1
  /\ stream' = "broken"
  /\ LoseMessage
  /\ toServer' = <<>> /\ toClient' = <<>>
  /\ UNCHANGED <<threads, flags, timer, heart, connects, reading, writing, stale, posted, resuming,
                 subs, serverAuth, serverSubs, refused>>

\* The service answers: it may accept a request, on a connection that has
\* presented its credentials, and reports an error otherwise.
ServerAccepts ==
  /\ Alive /\ stream = "open" /\ toServer # <<>>
  /\ toServer' = Tail(toServer)
  /\ LET m == Head(toServer)
     IN  \/ /\ m = Auth
            /\ serverAuth' = TRUE /\ UNCHANGED serverSubs
            /\ toClient' = Append(toClient, Authenticated)
         \/ /\ serverAuth /\ m.do \in {"subscribe", "unsubscribe"}
            /\ serverSubs' = IF m.do = "subscribe" THEN serverSubs \cup m.of
                                                  ELSE serverSubs \ m.of
            /\ toClient' = Append(toClient, Ack(serverSubs'))
            /\ UNCHANGED serverAuth
  /\ UNCHANGED <<threads, flags, timer, heart, connects, io, posted, resuming, subs,
                 refused, breaks>>

ServerRefuses ==
  /\ Alive /\ stream = "open" /\ toServer # <<>>
  /\ toServer' = Tail(toServer)
  /\ toClient' = Append(toClient, Error)
  /\ refused' = TRUE
  /\ UNCHANGED <<threads, flags, timer, heart, connects, io, posted, resuming, subs,
                 serverAuth, serverSubs, breaks>>

ServerTicks ==
  /\ Alive /\ stream = "open" /\ Load < MaxLoad
  /\ serverSubs # {}
  /\ toClient' = Append(toClient, Tick)
  /\ UNCHANGED <<threads, flags, timer, heart, connects, io, posted, resuming, subs,
                 toServer, serverAuth, serverSubs, refused, breaks>>

-------------------------------------------------------------------------------

Stopping == StopTimers \/ CloseWebSocket \/ StopJoin \/ Destroy

Main == Start \/ StopBegin \/ Stopping

\* The end of a stage of the connection, of a write, and of a read.
Stage   == NextStage \/ StageFails \/ Opened
Written == WriteDone \/ WriteFails
Received ==
  \/ ReceiveAuthenticated \/ ProcessSubscriptionAck \/ ReceiveOther \/ ReceiveUnparsed
  \/ ReadFails

Worker ==
  \/ WorkerStarts \/ ReconnectTimerFires \/ Reconnect \/ StaleOperationFails
  \/ Stage \/ RunPosted \/ Written \/ Received \/ ResumeSubscriptions \/ Closed
  \/ HandleHeartbeat \/ RunReturns

Next ==
  \/ Main \/ Worker
  \/ \E s \in Symbol : Subscribe(s) \/ Unsubscribe(s)
  \/ Interval \/ Break \/ ServerAccepts \/ ServerRefuses \/ ServerTicks

Spec == Init /\ [][Next]_vars

\* io_context_ runs what is ready in the order in which it became ready, so
\* that no handler is passed over for ever.  A TCP connect ends, at the latest
\* when the system gives it up; so does the upgrade, for which onHandshake has
\* set a timeout.  Nothing limits the TLS handshake between them, and nothing
\* is assumed of it.  A write and a read on a stream that is broken end; the
\* service answers; and stop(), once called, goes on.  Nobody has to start the
\* feed, to stop it or to subscribe, and nothing has to break.
Fairness ==
  /\ WF_vars(WorkerStarts) /\ WF_vars(ResumeSubscriptions)
  /\ WF_vars(ReconnectTimerFires) /\ WF_vars(Reconnect)
  /\ WF_vars(StaleOperationFails) /\ WF_vars(RunPosted)
  /\ WF_vars(stream # "handshaking" /\ Stage)
  /\ WF_vars(Written) /\ WF_vars(Received)
  /\ WF_vars(ServerAccepts \/ ServerRefuses)
  /\ WF_vars(Stopping)

FairSpec == Spec /\ Fairness

-------------------------------------------------------------------------------
\* Properties.

TypeOK ==
  /\ main \in {"up", "stopping", "closing", "joining", "stopped", "gone"}
  /\ worker \in {"none", "starting", "running", "ended", "joined"}
  /\ \A flag \in {running, connected, authenticated, closing, reconnect_timer,
                  resuming, residue, serverAuth, refused} : flag \in BOOLEAN
  /\ reconnect_attempts \in 0..MaxAttempts
  /\ connects \in Nat /\ stale \in Nat /\ silence \in 0..1
  /\ heartbeat_timer \in {"off", "waiting", "due"}
  /\ stream \in Range(Stages) \cup {"none", "broken", "closing"}
  /\ \A m \in Range(posted) \cup Range(writing) \cup Range(toServer) : m.of \subseteq Symbol
  /\ \A m \in Range(toClient) : m.of \subseteq Symbol
  /\ pending \subseteq Symbol /\ subscribed \subseteq Symbol /\ serverSubs \subseteq Symbol

\* The credentials, or the answer to them, are on the way: the subscriptions
\* that are pending will be sent after it.
Authenticating ==
  \/ resuming
  \/ Auth \in Range(posted) \cup Range(writing) \cup Range(toServer)
  \/ Authenticated \in Range(toClient)

Asking(s) ==
  \/ SubTask \in Range(posted)
  \/ \E m \in Range(posted) \cup Range(writing) \cup Range(toServer) :
       m = Garbled \/ (m.do = "subscribe" /\ s \in m.of)
  \/ \E m \in Range(toClient) : m.T = "subscription" /\ s \in m.of

\* The connection is open, the service has reported no error on it, the feed
\* can read what it sends, and is not being stopped.
Hearing ==
  stream = "open" /\ main = "up" /\ worker = "running" /\ ~refused /\ ~residue

\* A subscription does not wait for nothing: while the feed hears the service,
\* the request for each pending symbol is somewhere on its way.
PendingOnItsWay ==
  Hearing => \A s \in pending : Authenticating \/ Asking(s)

\* While the feed is running it has a connection, is making one, or is going
\* to: no failure leaves it waiting for nothing.
StillTrying ==
  worker # "none" /\ running =>
    \/ stream \in Range(Stages)
    \/ stream = "broken" /\ reading
    \/ worker = "starting" \/ connects > 0 \/ reconnect_timer \/ stale > 0

Quiet ==
  /\ ~resuming
  /\ posted = <<>> /\ writing = <<>> /\ toServer = <<>> /\ toClient = <<>>

\* Once all messages have arrived, the feed believes to be subscribed to what
\* it is subscribed to.  After a reconnect that is only so when the service
\* has acknowledged something: until then the list is that of the connection
\* before, which nothing asks for again.
SubscribedAtServer ==
  /\ Hearing /\ Quiet
  /\ breaks = 0 \/ serverSubs # {}
  => subscribed = serverSubs

\* However often an attempt fails, in the end there is a connection, or the
\* feed has given up or was stopped, unless it waits for ever for a peer that
\* is silent in the TLS handshake.
ConnectsOrGivesUp ==
  <>[](stream = "handshaking") \/ (running ~> (stream = "open" \/ ~running))

\* What is pending when the feed has learnt that it is authenticated reaches
\* the service, although the API may come in before the request is made, and
\* acknowledgements of other requests before it is sent: unless the connection
\* is lost or the service reports an error.  That the service takes what is
\* sent to it is assumed (Fairness); that something is sent is the code's part.
PendingReachesService ==
  \A s \in Symbol :
    (resuming /\ s \in pending) ~> (s \in serverSubs \/ refused \/ stream # "open")

\* stop() returns, whatever the worker is in the middle of.
StopReturns == main = "stopping" ~> main = "gone"

-------------------------------------------------------------------------------
\* What the repository says and the code does not do.

\* "Clear pending subscriptions since they've been processed": a symbol only
\* stops being pending when the service has it.
OnlyProcessedAreCleared == [][pending \ pending' \subseteq serverSubs]_vars

\* "max_reconnect_attempts": the attempts to connect come to an end when the
\* connection does not break any more.
ReconnectsEnd == <>[](~reconnect_timer /\ connects = 0)

\* "Join worker thread": no feed is destroyed with a thread that was not joined.
JoinedBeforeGone == main = "gone" => worker \in {"none", "joined"}

===============================================================================
