-------------------------- MODULE MarketDataFeedProofs -------------------------
(***************************************************************************)
(* The invariants of the market data client, for any set of symbols and    *)
(* any number of attempts, breaks and messages on the way.                 *)
(*                                                                         *)
(* The inductive invariant IInv has a part for each of the checked ones    *)
(* and what they need: Control, the flags and the stream go together;      *)
(* FirstConnection, until the connection breaks nothing takes it down; and *)
(* AuthKnown, what the service sent after it accepted the credentials is   *)
(* read after the feed has learnt of it.                                   *)
(***************************************************************************)
EXTENDS MarketDataFeed, SequenceTheorems, TLAPS

-------------------------------------------------------------------------------
\* The inductive invariant.

Request ==
  [do : {"auth", "garbled", "subscribe", "unsubscribe",
         "call sendSubscriptionMessage", "call sendUnsubscriptionMessage"},
   of : SUBSET Symbol]

Answer == [T : {"success", "subscription", "error", "t"}, of : SUBSET Symbol]

FlagsTypeOK ==
  /\ running \in BOOLEAN /\ connected \in BOOLEAN /\ authenticated \in BOOLEAN
  /\ reconnect_timer \in BOOLEAN /\ resuming \in BOOLEAN
  /\ reading \in BOOLEAN /\ residue \in BOOLEAN /\ closing \in BOOLEAN
  /\ serverAuth \in BOOLEAN /\ refused \in BOOLEAN

DataTypeOK ==
  /\ main \in {"up", "stopping", "closing", "joining", "stopped", "gone"}
  /\ worker \in {"none", "starting", "running", "ended", "joined"}
  /\ stream \in {"connecting", "handshaking", "upgrading", "open", "none", "broken", "closing"}
  /\ heartbeat_timer \in {"off", "waiting", "due"}
  /\ heartbeat_timer = "waiting" => silence = 0
  /\ reconnect_attempts \in 0..MaxAttempts
  /\ connects \in Nat /\ stale \in Nat /\ silence \in 0..1 /\ breaks \in Nat
  /\ posted \in Seq(Request) /\ writing \in Seq(Request) /\ toServer \in Seq(Request)
  /\ toClient \in Seq(Answer)
  /\ pending \in SUBSET Symbol /\ subscribed \in SUBSET Symbol /\ serverSubs \in SUBSET Symbol

\* A connection is being made.
Opening == stream \in {"connecting", "handshaking", "upgrading"}

\* How the threads, the flags and the stream go together.
Control ==
  /\ main # "up" => ~running
  /\ worker \in {"none", "starting"} => stream = "none" /\ breaks = 0
  /\ closing \/ stream = "closing" => main # "up"
  /\ stream = "open" => reading = TRUE
  /\ stream = "open" /\ main = "up" /\ worker = "running" => connected
  /\ resuming => authenticated
  /\ Opening => toServer = <<>> /\ toClient = <<>> /\ ~serverAuth /\ serverSubs = {}

OnTheWay == Range(posted) \cup Range(writing) \cup Range(toServer)

\* An open connection is authenticated, will be, or will be refused.
PendingInv ==
  Hearing =>
    /\ authenticated \/ Authenticating \/ Garbled \in OnTheWay
    /\ \A s \in pending : Authenticating \/ Asking(s)

\* Nothing has been read or sent yet.
Pristine ==
  /\ ~connected /\ ~authenticated /\ ~reading /\ ~resuming
  /\ writing = <<>> /\ posted = <<>> /\ subscribed = {}

\* Until the connection breaks there is only one, and no timer, handler or
\* operation is left that would replace it.
FirstConnection ==
  breaks = 0 =>
    /\ stale = 0 /\ stream # "broken"
    /\ Opening \/ worker \in {"none", "starting"} \/ (stream = "none" /\ running) => Pristine
    /\ stream = "open" \/ Opening \/ worker \in {"none", "starting"} =>
         ~reconnect_timer /\ connects = 0
    /\ running => connects = 0 \/ (connects = 1 /\ ~reconnect_timer)

\* An answer of this type is in the queue.
Holds(queue, T) == \E i \in DOMAIN queue : queue[i].T = T

\* No acknowledgement is read before the feed has learnt that it is authenticated.
InOrder(queue) ==
  \A i \in DOMAIN queue :
    queue[i].T = "subscription" => \E j \in DOMAIN queue : j < i /\ queue[j].T = "success"

\* What the service sent after it accepted the credentials comes after the news
\* of that.  And a feed that goes on has been authenticated before it has any
\* subscription.
AuthKnown ==
  /\ stream = "open" /\ main = "up" /\ worker = "running" /\ ~residue /\ ~authenticated =>
       (serverAuth => Holds(toClient, "success")) /\ InOrder(toClient)
  /\ main = "up" /\ worker = "running" /\ (stream # "none" \/ running) /\ ~authenticated =>
       subscribed = {}

\* The last acknowledgement in the queue lists these symbols.
LastAckIs(queue, symbols) ==
  \A i \in DOMAIN queue :
    /\ queue[i].T = "subscription"
    /\ \A j \in DOMAIN queue : j > i => queue[j].T # "subscription"
    => queue[i].of = symbols

\* The request to leave s is on its way.
Leaving(s) ==
  \E m \in OnTheWay :
    m = Garbled \/ (m.do \in {"unsubscribe", "call sendUnsubscriptionMessage"} /\ s \in m.of)

\* The feed hears the service, no acknowledgement is on its way, and
\* the service has acknowledged something on this connection, if there was another before.
Comparable ==
  Hearing /\ (breaks = 0 \/ serverSubs # {}) /\ ~Holds(toClient, "subscription")

\* The last acknowledgement on its way lists what the service has; and when
\* none is, the feed has the same, but for what it is about to leave.
AgreedInv ==
  /\ LastAckIs(toClient, serverSubs)
  /\ Comparable => subscribed \subseteq serverSubs /\ \A s \in serverSubs \ subscribed : Leaving(s)

IInv ==
  /\ FlagsTypeOK /\ DataTypeOK
  /\ Control
  /\ StillTrying
  /\ PendingInv
  /\ FirstConnection
  /\ AuthKnown
  /\ AgreedInv

-------------------------------------------------------------------------------
\* Queues of messages.

\* What is appended is in the queue, behind what was there.
LEMMA Appended ==
  ASSUME NEW S, NEW q \in Seq(S), NEW e \in S
  PROVE  /\ Append(q, e) \in Seq(S)
         /\ DOMAIN Append(q, e) = 1..(Len(q) + 1) /\ DOMAIN q = 1..Len(q) /\ Len(q) \in Nat
         /\ \A i \in 1..Len(q) : Append(q, e)[i] = q[i]
         /\ Append(q, e)[Len(q) + 1] = e
<1>1. /\ Append(q, e) \in Seq(S)
      /\ Len(Append(q, e)) = Len(q) + 1
      /\ \A i \in 1..Len(q) : Append(q, e)[i] = q[i]
      /\ Append(q, e)[Len(q) + 1] = e
  BY AppendProperties
<1> QED
  BY <1>1, LenProperties

LEMMA RangeAppended ==
  ASSUME NEW S, NEW q \in Seq(S), NEW e \in S
  PROVE  Range(Append(q, e)) = Range(q) \cup {e} /\ Append(q, e) \in Seq(S)
<1> DEFINE r == Append(q, e)
<1>1. /\ r \in Seq(S)
      /\ DOMAIN r = 1..(Len(q) + 1) /\ DOMAIN q = 1..Len(q) /\ Len(q) \in Nat
      /\ \A i \in 1..Len(q) : r[i] = q[i]
      /\ r[Len(q) + 1] = e
  BY Appended
<1> HIDE DEF r
<1>2. \A x \in Range(r) : x \in Range(q) \cup {e}
  BY <1>1 DEF Range
<1>3. \A x \in Range(q) \cup {e} : x \in Range(r)
  BY <1>1 DEF Range
<1>4. Range(r) = Range(q) \cup {e} /\ r \in Seq(S)
  BY <1>1, <1>2, <1>3
<1> QED
  BY <1>4 DEF r

\* What is taken from the front leaves the rest in order.
LEMMA Taken ==
  ASSUME NEW S, NEW q \in Seq(S), q # <<>>, NEW r, r = Tail(q)
  PROVE  /\ r \in Seq(S)
         /\ Head(q) \in S /\ Head(q) = q[1]
         /\ Range(q) = Range(r) \cup {Head(q)}
         /\ DOMAIN q = 1..Len(q) /\ DOMAIN r = 1..(Len(q) - 1) /\ Len(q) \in Nat \ {0}
         /\ \A i \in 1..(Len(q) - 1) : r[i] = q[i + 1]
<1>1. /\ r \in Seq(S) /\ Head(q) \in S /\ Head(q) = q[1]
      /\ Len(r) = Len(q) - 1
      /\ \A i \in 1..(Len(q) - 1) : r[i] = q[i + 1]
  BY HeadTailProperties
<1>2. DOMAIN q = 1..Len(q) /\ DOMAIN r = 1..(Len(q) - 1) /\ Len(q) \in Nat \ {0}
  BY <1>1, LenProperties, EmptySeq
<1>3. \A x \in Range(q) : x \in Range(r) \cup {Head(q)}
  <2> SUFFICES ASSUME NEW i \in 1..Len(q)
               PROVE  q[i] \in Range(r) \cup {Head(q)}
    BY <1>2 DEF Range
  <2>1. CASE i = 1
    BY <2>1, <1>1
  <2>2. CASE i # 1
    <3>1. i - 1 \in 1..(Len(q) - 1) /\ q[i] = r[i - 1]
      BY <2>2, <1>1, <1>2
    <3> QED
      BY <3>1, <1>2 DEF Range
  <2> QED
    BY <2>1, <2>2
<1>4. \A x \in Range(r) \cup {Head(q)} : x \in Range(q)
  BY <1>1, <1>2 DEF Range
<1> QED
  BY <1>1, <1>2, <1>3, <1>4

\* Nothing is in the empty queue.
LEMMA Emptied ==
  ASSUME NEW S
  PROVE  <<>> \in Seq(S) /\ Range(<<>>) = {} /\ DOMAIN <<>> = {}
BY EmptySeq DEF Range

\* The stages of a connection, as a set.
LEMMA StagesAsSet ==
  /\ Range(Stages) = {"connecting", "handshaking", "upgrading", "open"}
  /\ Stages[1] = "connecting" /\ Stages[2] = "handshaking" /\ Stages[3] = "upgrading"
BY DEF Range, Stages

LEMMA NotYetOpen ==
  ASSUME NextStage
  PROVE  stream # "none" /\ stream # "open" /\ stream' # "none" /\ stream' # "open"
BY StagesAsSet DEF NextStage

\* The messages of both sides are what their queues hold.
LEMMA MessagesAreTyped ==
  /\ Auth \in Request /\ Garbled \in Request /\ SubTask \in Request
  /\ \A X \in SUBSET Symbol : Sub(X) \in Request /\ Unsub(X) \in Request
  /\ \A s \in Symbol : UnsubTask(s) \in Request
  /\ Authenticated \in Answer /\ Error \in Answer /\ Tick \in Answer
  /\ \A X \in SUBSET Symbol : Ack(X) \in Answer
BY DEF Request, Answer, Auth, Garbled, SubTask, Sub, Unsub, UnsubTask, Authenticated,
       Error, Tick, Ack

-------------------------------------------------------------------------------
\* What the handlers do that many of the proofs need.

\* A posted function makes a message, ...
LEMMA PostedCalls ==
  ASSUME RunPosted, Head(posted) = SubTask
  PROVE  /\ \/ pending = {} /\ posted' = Tail(posted)
            \/ ~connected /\ posted' = Tail(posted)
            \/ connected /\ posted' = Append(Tail(posted), Sub(pending))
         /\ writing' = writing
<1>1. SubTask \notin {UnsubTask(s) : s \in Symbol}
  BY DEF UnsubTask, SubTask
<1> QED
  BY <1>1 DEF RunPosted, PostingSubscription, Posting

LEMMA PostedUnsubscribes ==
  ASSUME RunPosted, NEW s \in Symbol, Head(posted) = UnsubTask(s)
  PROVE  /\ \/ ~connected /\ posted' = Tail(posted)
            \/ connected /\ posted' = Append(Tail(posted), Unsub({s}))
         /\ writing' = writing
<1>1. /\ UnsubTask(s) # SubTask
      /\ UnsubTask(s) \in {UnsubTask(x) : x \in Symbol}
      /\ UnsubTask(s).of = {s}
  BY DEF UnsubTask, SubTask
<1> QED
  BY <1>1 DEF RunPosted, Posting

\* ... or starts a write, or one that has lost its buffer.
LEMMA PostedWrites ==
  ASSUME RunPosted,
         Head(posted) # SubTask, \A s \in Symbol : Head(posted) # UnsubTask(s)
  PROVE  /\ posted' = Tail(posted)
         /\ writing' = Append(writing, Head(posted)) \/ writing' = Append(writing, Garbled)
<1>1. Head(posted) \notin {UnsubTask(s) : s \in Symbol}
  OBVIOUS
<1> QED
  BY <1>1 DEF RunPosted

\* A new attempt to connect is counted and its timer set, or the feed gives up.
LEMMA Scheduled ==
  ASSUME ScheduleReconnect
  PROVE  \/ /\ running /\ reconnect_attempts < MaxAttempts
            /\ reconnect_attempts' = reconnect_attempts + 1
            /\ reconnect_timer' /\ running' = running
         \/ ~running' /\ reconnect_attempts' = reconnect_attempts /\ reconnect_timer' = reconnect_timer
BY Zenon DEF ScheduleReconnect, timer

LEMMA KeepsTrying ==
  ASSUME ScheduleReconnect
  PROVE  running' => running /\ reconnect_timer'
BY Zenon DEF ScheduleReconnect

LEMMA OutstandingIsNat ==
  ASSUME DataTypeOK
  PROVE  Outstanding \in Nat
<1>1. Len(writing) \in Nat
  BY LenProperties DEF DataTypeOK
<1>2. CASE reading
  BY <1>1, <1>2 DEF Outstanding
<1>3. CASE ~reading
  BY <1>1, <1>3 DEF Outstanding
<1> QED
  BY <1>2, <1>3

-------------------------------------------------------------------------------
\* The flags are Booleans.
LEMMA FlagsStep ==
  ASSUME FlagsTypeOK, [Next]_vars
  PROVE  FlagsTypeOK'
<1> USE DEF FlagsTypeOK, threads, flags, timer, heart, io, subs, server
<1>1. ASSUME ScheduleReconnect
      PROVE  running' \in BOOLEAN /\ reconnect_timer' \in BOOLEAN
  BY <1>1, Zenon DEF ScheduleReconnect
<1>2. ASSUME ConnectWebSocket
      PROVE  FlagsTypeOK'
  BY <1>1, <1>2, Zenon DEF ConnectWebSocket, LoseMessage
<1>3. CASE Start \/ StopBegin \/ StopTimers \/ CloseWebSocket \/ StopJoin \/ Destroy
  <2>1. CASE Start \/ StopBegin
    BY <2>1, Zenon DEF Start, StopBegin
  <2>2. CASE StopTimers \/ CloseWebSocket
    BY <2>2, Zenon DEF StopTimers, CloseWebSocket
  <2>3. CASE StopJoin \/ Destroy
    BY <2>3, Zenon DEF StopJoin, Destroy
  <2> QED
    BY <1>3, <2>1, <2>2, <2>3
<1>4. CASE \E s \in Symbol : Subscribe(s) \/ Unsubscribe(s)
  BY <1>4, Zenon DEF Subscribe, Unsubscribe
<1>5. CASE WorkerStarts
  BY <1>2, <1>5, Zenon DEF WorkerStarts
<1>6. CASE Reconnect
  BY <1>2, <1>6, Zenon DEF Reconnect
<1>7. CASE StaleOperationFails \/ StageFails \/ WriteFails \/ ReadFails
  BY <1>1, <1>7, Zenon DEF StaleOperationFails, StageFails, WriteFails, ReadFails
<1>8. CASE ReconnectTimerFires \/ NextStage \/ Opened \/ WriteDone \/ Closed \/ RunReturns
  <2>1. CASE ReconnectTimerFires \/ NextStage
    BY <2>1, Zenon DEF ReconnectTimerFires, NextStage
  <2>2. CASE Opened \/ WriteDone
    BY <2>2, Zenon DEF Opened, WriteDone
  <2>3. CASE Closed \/ RunReturns
    BY <2>3, Zenon DEF Closed, RunReturns
  <2> QED
    BY <1>8, <2>1, <2>2, <2>3
<1>9. CASE RunPosted
  BY <1>9, Zenon DEF RunPosted
<1>10. CASE ReceiveAuthenticated \/ ProcessSubscriptionAck \/ ReceiveOther \/ ReceiveUnparsed
  BY <1>10, Zenon DEF ReceiveAuthenticated, ProcessSubscriptionAck, ReceiveOther,
                      ReceiveUnparsed, Receive
<1>11. CASE ResumeSubscriptions
  BY <1>11, Zenon DEF ResumeSubscriptions
<1>12. CASE HandleHeartbeat
  BY <1>1, <1>12, Zenon DEF HandleHeartbeat
<1>13. CASE Interval \/ Break
  BY <1>13, Zenon DEF Interval, Break, LoseMessage
<1>14. CASE ServerAccepts \/ ServerRefuses \/ ServerTicks
  <2>1. CASE ServerAccepts
    BY <2>1, Zenon DEF ServerAccepts
  <2>2. CASE ServerRefuses \/ ServerTicks
    BY <2>2, Zenon DEF ServerRefuses, ServerTicks
  <2> QED
    BY <1>14, <2>1, <2>2
<1>15. CASE UNCHANGED vars
  BY <1>15, Zenon DEF vars
<1> QED
  BY <1>3, <1>4, <1>5, <1>6, <1>7, <1>8, <1>9, <1>10, <1>11, <1>12, <1>13, <1>14, <1>15, Zenon
  DEF Next, Main, Stopping, Worker, Stage, Written, Received

\* The counters, the queues and the sets are what they should be.
LEMMA DataStep ==
  ASSUME DataTypeOK, [Next]_vars
  PROVE  DataTypeOK'
<1> USE DEF DataTypeOK, threads, flags, timer, heart, io, subs, server
<1>1. ASSUME ScheduleReconnect
      PROVE  reconnect_attempts' \in 0..MaxAttempts
  BY <1>1, Scheduled, BoundsAssumption
<1>2. ASSUME NEW S, NEW q \in Seq(S), q # <<>>
      PROVE  Tail(q) \in Seq(S) /\ Head(q) \in S
  BY <1>2, Taken
<1>3. ASSUME NEW S, NEW q \in Seq(S), NEW e \in S
      PROVE  Append(q, e) \in Seq(S)
  BY <1>3, Appended
<1>4. ASSUME NEW S
      PROVE  <<>> \in Seq(S)
  BY <1>4, Emptied
<1>5. ASSUME ConnectWebSocket, connects' \in Nat,
             worker' \in {"none", "starting", "running", "ended", "joined"}
      PROVE  DataTypeOK'
  BY <1>1, <1>4, <1>5, OutstandingIsNat DEF ConnectWebSocket
<1>6. CASE Start \/ StopBegin \/ StopTimers \/ CloseWebSocket \/ StopJoin
  <2>1. CASE Start
    BY <2>1 DEF Start
  <2>2. CASE StopBegin
    BY <2>2 DEF StopBegin
  <2>3. CASE StopTimers
    BY <2>3 DEF StopTimers
  <2>4. CASE CloseWebSocket
    BY <2>4 DEF CloseWebSocket
  <2>5. CASE StopJoin
    BY <2>5, BoundsAssumption DEF StopJoin
  <2> QED
    BY <1>6, <2>1, <2>2, <2>3, <2>4, <2>5
<1>7. CASE Destroy
  BY <1>4, <1>7 DEF Destroy
<1>8. ASSUME NEW s \in Symbol, Subscribe(s)
      PROVE  DataTypeOK'
  BY <1>3, <1>8, MessagesAreTyped DEF Subscribe
<1>9. ASSUME NEW s \in Symbol, Unsubscribe(s)
      PROVE  DataTypeOK'
  BY <1>3, <1>9, MessagesAreTyped DEF Unsubscribe
<1>10. CASE WorkerStarts
  BY <1>5, <1>10 DEF WorkerStarts
<1>11. CASE Reconnect
  BY <1>5, <1>11 DEF Reconnect
<1>12. CASE StaleOperationFails \/ StageFails \/ ReadFails
  BY <1>1, <1>12 DEF StaleOperationFails, StageFails, ReadFails
<1>13. CASE ReconnectTimerFires \/ Closed \/ RunReturns
  BY <1>13 DEF ReconnectTimerFires, Closed, RunReturns
<1>14. CASE NextStage
  BY <1>14, StagesAsSet DEF NextStage
<1>15. CASE Opened
  BY <1>3, <1>15, MessagesAreTyped, BoundsAssumption DEF Opened
<1>16. CASE RunPosted
  <2>1. /\ Tail(posted) \in Seq(Request) /\ Head(posted) \in Request
        /\ Append(Tail(posted), Sub(pending)) \in Seq(Request)
        /\ \A s \in Symbol : Append(Tail(posted), Unsub({s})) \in Seq(Request)
    BY <1>2, <1>3, <1>16, MessagesAreTyped DEF RunPosted
  <2>2. /\ Append(writing, Head(posted)) \in Seq(Request)
        /\ Append(writing, Garbled) \in Seq(Request)
    BY <1>3, <2>1, MessagesAreTyped
  <2>3. posted' \in Seq(Request) /\ writing' \in Seq(Request)
    BY <1>16, <2>1, <2>2, PostedCalls, PostedUnsubscribes, PostedWrites
  <2> QED
    BY <1>16, <2>3 DEF RunPosted
<1>17. CASE WriteDone \/ WriteFails
  <2>1. Tail(writing) \in Seq(Request) /\ Head(writing) \in Request
    BY <1>2, <1>17 DEF WriteDone, WriteFails
  <2>2. Append(toServer, Head(writing)) \in Seq(Request)
    BY <1>3, <2>1
  <2>3. CASE WriteDone
    BY <2>1, <2>2, <2>3 DEF WriteDone
  <2>4. CASE WriteFails
    BY <1>1, <2>1, <2>4 DEF WriteFails
  <2> QED
    BY <1>17, <2>3, <2>4
<1>18. CASE ReceiveAuthenticated \/ ProcessSubscriptionAck \/ ReceiveOther \/ ReceiveUnparsed
  <2>1. Tail(toClient) \in Seq(Answer) /\ Head(toClient) \in Answer
    BY <1>2, <1>18
    DEF ReceiveAuthenticated, ProcessSubscriptionAck, ReceiveOther, ReceiveUnparsed, Receive
  <2>2. Head(toClient).of \in SUBSET Symbol
    BY <2>1 DEF Answer
  <2>3. CASE ReceiveAuthenticated
    BY <2>1, <2>3 DEF ReceiveAuthenticated, Receive
  <2>4. CASE ProcessSubscriptionAck
    BY <2>1, <2>2, <2>4 DEF ProcessSubscriptionAck, Receive
  <2>5. CASE ReceiveOther
    BY <2>1, <2>5 DEF ReceiveOther, Receive
  <2>6. CASE ReceiveUnparsed
    BY <2>1, <2>6 DEF ReceiveUnparsed
  <2> QED
    BY <1>18, <2>3, <2>4, <2>5, <2>6
<1>19. CASE ResumeSubscriptions
  BY <1>3, <1>19, MessagesAreTyped
  DEF ResumeSubscriptions, StartHeartbeat, PostingSubscription, Posting
<1>20. CASE HandleHeartbeat
  BY <1>1, <1>20 DEF HandleHeartbeat, StartHeartbeat
<1>21. CASE Interval
  BY <1>21 DEF Interval
<1>22. CASE Break
  <2>1. <<>> \in Seq(Request) /\ <<>> \in Seq(Answer)
    BY <1>4
  <2> QED
    BY <1>22, <2>1 DEF Break
<1>23. CASE ServerAccepts
  <2>1. Tail(toServer) \in Seq(Request) /\ Head(toServer) \in Request
    BY <1>2, <1>23 DEF ServerAccepts
  <2>2. toServer' \in Seq(Request)
    BY <1>23, <2>1 DEF ServerAccepts
  <2>3. serverSubs' \in SUBSET Symbol
    BY <1>23, <2>1 DEF ServerAccepts, Request
  <2>4. /\ Append(toClient, Authenticated) \in Seq(Answer)
        /\ Append(toClient, Ack(serverSubs')) \in Seq(Answer)
    BY <1>3, <2>3, MessagesAreTyped
  <2>5. toClient' \in Seq(Answer)
    BY <1>23, <2>4, Zenon DEF ServerAccepts
  <2> QED
    BY <1>23, <2>2, <2>3, <2>5 DEF ServerAccepts
<1>24. CASE ServerRefuses \/ ServerTicks
  <2>1. toServer # <<>> => Tail(toServer) \in Seq(Request)
    BY <1>2
  <2>2. Append(toClient, Error) \in Seq(Answer) /\ Append(toClient, Tick) \in Seq(Answer)
    BY <1>3, MessagesAreTyped
  <2> QED
    BY <1>24, <2>1, <2>2 DEF ServerRefuses, ServerTicks
<1>25. CASE UNCHANGED vars
  BY <1>25 DEF vars
<1> QED
  BY <1>6, <1>7, <1>8, <1>9, <1>10, <1>11, <1>12, <1>13, <1>14, <1>15, <1>16, <1>17, <1>18,
     <1>19, <1>20, <1>21, <1>22, <1>23, <1>24, <1>25, Zenon
  DEF Next, Main, Stopping, Worker, Stage, Written, Received

-------------------------------------------------------------------------------
\* The control state.

LEMMA ControlStep ==
  ASSUME Control, [Next]_vars
  PROVE  Control'
<1> USE DEF Control, Opening, threads, flags, timer, heart, io, subs, server
<1>1. ASSUME ConnectWebSocket
      PROVE  worker' \notin {"none", "starting"} => Control'
  BY <1>1, KeepsTrying DEF ConnectWebSocket
<1>2. CASE Start
  BY <1>2 DEF Start
<1>3. CASE StopBegin
  BY <1>3 DEF StopBegin
<1>4. CASE StopTimers
  BY <1>4 DEF StopTimers
<1>5. CASE CloseWebSocket
  BY <1>5 DEF CloseWebSocket
<1>6. CASE StopJoin
  BY <1>6 DEF StopJoin
<1>7. CASE Destroy
  BY <1>7 DEF Destroy
<1>8. CASE ReconnectTimerFires
  BY <1>8 DEF ReconnectTimerFires
<1>9. CASE WorkerStarts
  BY <1>9, <1>1 DEF WorkerStarts
<1>10. CASE Reconnect
  BY <1>10, <1>1 DEF Reconnect, Ready, Alive
<1>11. CASE StaleOperationFails
  BY <1>11, KeepsTrying DEF StaleOperationFails
<1>12. CASE NextStage
  BY <1>12, StagesAsSet DEF NextStage
<1>13. CASE StageFails
  BY <1>13, KeepsTrying DEF StageFails
<1>14. CASE Opened
  BY <1>14 DEF Opened
<1>15. CASE RunPosted
  BY <1>15 DEF RunPosted
<1>16. CASE WriteDone
  BY <1>16 DEF WriteDone
<1>17. CASE WriteFails
  BY <1>17, KeepsTrying DEF WriteFails
<1>18. CASE Closed
  BY <1>18 DEF Closed, Ready
<1>19. CASE ReceiveAuthenticated
  BY <1>19 DEF ReceiveAuthenticated, Receive
<1>20. CASE ProcessSubscriptionAck
  BY <1>20 DEF ProcessSubscriptionAck, Receive
<1>21. CASE ReceiveOther
  BY <1>21 DEF ReceiveOther, Receive
<1>22. CASE ReceiveUnparsed
  BY <1>22 DEF ReceiveUnparsed
<1>23. CASE ReadFails
  BY <1>23, KeepsTrying DEF ReadFails
<1>24. CASE ResumeSubscriptions
  BY <1>24 DEF ResumeSubscriptions
<1>25. CASE HandleHeartbeat
  BY <1>25, KeepsTrying DEF HandleHeartbeat
<1>26. CASE RunReturns
  BY <1>26 DEF RunReturns
<1>27. CASE Interval
  BY <1>27 DEF Interval
<1>28. CASE Break
  BY <1>28 DEF Break
<1>29. CASE ServerAccepts
  BY <1>29 DEF ServerAccepts
<1>30. CASE ServerRefuses
  BY <1>30 DEF ServerRefuses
<1>31. CASE ServerTicks
  BY <1>31 DEF ServerTicks
<1>32. CASE \E s \in Symbol : Subscribe(s)
  BY <1>32 DEF Subscribe
<1>33. CASE \E s \in Symbol : Unsubscribe(s)
  BY <1>33 DEF Unsubscribe
<1>34. CASE UNCHANGED vars
  BY <1>34 DEF vars
<1> QED
  BY <1>2, <1>3, <1>4, <1>5, <1>6, <1>7, <1>8, <1>9, <1>10, <1>11, <1>12, <1>13, <1>14,
     <1>15, <1>16, <1>17, <1>18, <1>19, <1>20, <1>21, <1>22, <1>23, <1>24, <1>25, <1>26,
     <1>27, <1>28, <1>29, <1>30, <1>31, <1>32, <1>33, <1>34, Zenon
  DEF Next, Main, Stopping, Worker, Stage, Written, Received

-------------------------------------------------------------------------------
\* StillTrying.

LEMMA StillTryingStep ==
  ASSUME DataTypeOK, Control, StillTrying, [Next]_vars
  PROVE  StillTrying'
<1> USE StagesAsSet DEF DataTypeOK, Control, StillTrying, threads, flags, timer, heart, io, subs, server
<1>1. ASSUME ConnectWebSocket
      PROVE  running' => stream' = "connecting" \/ reconnect_timer'
  BY <1>1, KeepsTrying DEF ConnectWebSocket
<1>2. CASE Start
  BY <1>2 DEF Start
<1>3. CASE StopBegin
  BY <1>3 DEF StopBegin
<1>4. CASE StopTimers
  BY <1>4 DEF StopTimers
<1>5. CASE CloseWebSocket
  BY <1>5 DEF CloseWebSocket
<1>6. CASE StopJoin
  BY <1>6 DEF StopJoin
<1>7. CASE Destroy
  BY <1>7 DEF Destroy
<1>8. CASE ReconnectTimerFires
  BY <1>8 DEF ReconnectTimerFires
<1>9. CASE WorkerStarts
  BY <1>9, <1>1 DEF WorkerStarts
<1>10. CASE Reconnect
  BY <1>10, <1>1 DEF Reconnect
<1>11. CASE StaleOperationFails
  BY <1>11, KeepsTrying DEF StaleOperationFails
<1>12. CASE NextStage
  BY <1>12 DEF NextStage
<1>13. CASE StageFails
  BY <1>13, KeepsTrying DEF StageFails
<1>14. CASE Opened
  BY <1>14 DEF Opened
<1>15. CASE RunPosted
  BY <1>15 DEF RunPosted
<1>16. CASE WriteDone
  BY <1>16 DEF WriteDone
<1>17. CASE WriteFails
  BY <1>17, KeepsTrying DEF WriteFails
<1>18. CASE Closed
  BY <1>18 DEF Closed
<1>19. CASE ReceiveAuthenticated
  BY <1>19 DEF ReceiveAuthenticated, Receive
<1>20. CASE ProcessSubscriptionAck
  BY <1>20 DEF ProcessSubscriptionAck, Receive
<1>21. CASE ReceiveOther
  BY <1>21 DEF ReceiveOther, Receive
<1>22. CASE ReceiveUnparsed
  BY <1>22 DEF ReceiveUnparsed
<1>23. CASE ReadFails
  BY <1>23, KeepsTrying DEF ReadFails
<1>24. CASE ResumeSubscriptions
  BY <1>24 DEF ResumeSubscriptions
<1>25. CASE HandleHeartbeat
  BY <1>25, KeepsTrying DEF HandleHeartbeat
<1>26. CASE RunReturns
  BY <1>26 DEF RunReturns, Ready, Alive
<1>27. CASE Interval
  BY <1>27 DEF Interval
<1>28. CASE Break
  BY <1>28 DEF Break
<1>29. CASE ServerAccepts
  BY <1>29 DEF ServerAccepts
<1>30. CASE ServerRefuses
  BY <1>30 DEF ServerRefuses
<1>31. CASE ServerTicks
  BY <1>31 DEF ServerTicks
<1>32. CASE \E s \in Symbol : Subscribe(s)
  BY <1>32 DEF Subscribe
<1>33. CASE \E s \in Symbol : Unsubscribe(s)
  BY <1>33 DEF Unsubscribe
<1>34. CASE UNCHANGED vars
  BY <1>34 DEF vars
<1> QED
  BY <1>2, <1>3, <1>4, <1>5, <1>6, <1>7, <1>8, <1>9, <1>10, <1>11, <1>12, <1>13, <1>14,
     <1>15, <1>16, <1>17, <1>18, <1>19, <1>20, <1>21, <1>22, <1>23, <1>24, <1>25, <1>26,
     <1>27, <1>28, <1>29, <1>30, <1>31, <1>32, <1>33, <1>34, Zenon
  DEF Next, Main, Stopping, Worker, Stage, Written, Received

-------------------------------------------------------------------------------
\* PendingInv.

\* No two kinds of messages or tasks are the same.
LEMMA MessageNames ==
  /\ Auth # Garbled /\ SubTask # Auth /\ SubTask # Garbled
  /\ SubTask.do # "subscribe" /\ Auth.do = "auth" /\ Garbled.do = "garbled"
  /\ \A X : Sub(X).do = "subscribe" /\ Sub(X).of = X /\ Sub(X) # SubTask
  /\ \A X : Unsub(X).do = "unsubscribe" /\ Unsub(X).of = X
  /\ \A s : /\ UnsubTask(s).do = "call sendUnsubscriptionMessage" /\ UnsubTask(s).of = {s}
            /\ UnsubTask(s) # Auth /\ UnsubTask(s) # Garbled /\ UnsubTask(s) # SubTask
  /\ Authenticated.T = "success" /\ Error.T = "error" /\ Tick.T = "t"
  /\ \A X : Ack(X).T = "subscription" /\ Ack(X).of = X
BY DEF Auth, Garbled, SubTask, Sub, Unsub, UnsubTask, Authenticated, Error, Tick, Ack

\* What is on the way stays so when nothing is taken from any queue.
LEMMA NothingTaken ==
  ASSUME Range(posted) \subseteq Range(posted'), Range(writing) \subseteq Range(writing'),
         Range(toServer) \subseteq Range(toServer'), Range(toClient) \subseteq Range(toClient'),
         resuming => resuming'
  PROVE  /\ Authenticating => Authenticating'
         /\ Garbled \in OnTheWay => (Garbled \in OnTheWay)'
         /\ \A s : Asking(s) => Asking(s)'
BY DEF Authenticating, Asking, OnTheWay

LEMMA PendingOpened ==
  ASSUME DataTypeOK, Opened
  PROVE  PendingInv'
<1>1. Auth \in Range(posted')
  BY RangeAppended, MessagesAreTyped DEF Opened, DataTypeOK
<1> QED
  BY <1>1 DEF PendingInv, Authenticating

LEMMA PendingSubscribe ==
  ASSUME DataTypeOK, Control, PendingInv, NEW s \in Symbol, Subscribe(s)
  PROVE  PendingInv'
<1> SUFFICES ASSUME Hearing'
             PROVE  PendingInv'
  BY DEF PendingInv
<1>1. /\ Hearing /\ connected /\ pending' = pending \cup {s}
      /\ writing' = writing /\ toServer' = toServer /\ toClient' = toClient
      /\ resuming' = resuming /\ authenticated' = authenticated
  BY DEF Subscribe, Hearing, Control, threads, flags, io, server
<1>2. posted' = IF authenticated THEN Append(posted, SubTask) ELSE posted
  BY <1>1 DEF Subscribe
<1>3. Range(posted) \subseteq Range(posted') /\ (authenticated => SubTask \in Range(posted'))
  BY <1>2, RangeAppended, MessagesAreTyped DEF DataTypeOK
<1>4. /\ Authenticating => Authenticating'
      /\ Garbled \in OnTheWay => (Garbled \in OnTheWay)'
      /\ \A x : Asking(x) => Asking(x)'
  BY <1>1, <1>3, NothingTaken
<1>5. authenticated \/ Garbled \in OnTheWay => Asking(s)'
  BY <1>3, <1>4 DEF Asking, OnTheWay
<1> QED
  BY <1>1, <1>4, <1>5 DEF PendingInv

LEMMA PendingUnsubscribe ==
  ASSUME DataTypeOK, PendingInv, NEW s \in Symbol, Unsubscribe(s)
  PROVE  PendingInv'
<1> SUFFICES ASSUME Hearing'
             PROVE  PendingInv'
  BY DEF PendingInv
<1>1. /\ Hearing /\ pending' \subseteq pending
      /\ writing' = writing /\ toServer' = toServer /\ toClient' = toClient
      /\ resuming' = resuming /\ authenticated' = authenticated
  BY DEF Unsubscribe, Hearing, threads, flags, io, server
<1>2. Range(posted) \subseteq Range(posted')
  BY RangeAppended, MessagesAreTyped DEF DataTypeOK, Unsubscribe
<1>3. /\ Authenticating => Authenticating'
      /\ Garbled \in OnTheWay => (Garbled \in OnTheWay)'
      /\ \A x : Asking(x) => Asking(x)'
  BY <1>1, <1>2, NothingTaken
<1> QED
  BY <1>1, <1>3 DEF PendingInv

LEMMA PendingRunPosted ==
  ASSUME DataTypeOK, Control, PendingInv, RunPosted
  PROVE  PendingInv'
<1> DEFINE task == Head(posted)
           rest == Tail(posted)
<1> SUFFICES ASSUME Hearing'
             PROVE  PendingInv'
  BY DEF PendingInv
<1>1. /\ Hearing /\ connected /\ pending' = pending
      /\ toServer' = toServer /\ toClient' = toClient
      /\ resuming' = resuming /\ authenticated' = authenticated
  BY DEF RunPosted, Hearing, Control, threads, flags, io, subs, server
<1>2. rest \in Seq(Request) /\ task \in Request /\ Range(posted) = Range(rest) \cup {task}
  BY Taken DEF DataTypeOK, RunPosted
<1> HIDE DEF task, rest
<1>3. CASE task = SubTask
  <2>1. /\ writing' = writing
        /\ (pending = {} /\ posted' = rest) \/ posted' = Append(rest, Sub(pending))
    BY <1>1, <1>3, PostedCalls DEF task, rest
  <2>2. Range(Append(rest, Sub(pending))) = Range(rest) \cup {Sub(pending)}
    BY <1>2, RangeAppended, MessagesAreTyped DEF DataTypeOK
  <2>3. Range(rest) \subseteq Range(posted') /\ (pending # {} => Sub(pending) \in Range(posted'))
    BY <2>1, <2>2, Zenon
  <2>4. authenticated \/ Authenticating \/ Garbled \in OnTheWay
          => (authenticated \/ Authenticating \/ Garbled \in OnTheWay)'
    BY <1>1, <1>2, <1>3, <2>1, <2>3, MessageNames DEF Authenticating, OnTheWay
  <2>5. ASSUME NEW s \in pending
        PROVE  Asking(s)'
    <3>1. Sub(pending) \in Range(posted') /\ Sub(pending).do = "subscribe" /\ s \in Sub(pending).of
      BY <2>3, MessageNames
    <3> QED
      BY <3>1 DEF Asking
  <2> QED
    BY <1>1, <2>4, <2>5 DEF PendingInv
<1>4. ASSUME NEW s \in Symbol, task = UnsubTask(s)
      PROVE  PendingInv'
  <2>1. writing' = writing /\ posted' = Append(rest, Unsub({s}))
    BY <1>1, <1>4, PostedUnsubscribes DEF task, rest
  <2>2. Range(rest) \subseteq Range(posted')
    BY <1>2, <2>1, RangeAppended, MessagesAreTyped
  <2>3. authenticated \/ Authenticating \/ Garbled \in OnTheWay
          => (authenticated \/ Authenticating \/ Garbled \in OnTheWay)'
    BY <1>1, <1>2, <1>4, <2>1, <2>2, MessageNames DEF Authenticating, OnTheWay
  <2>4. \A x \in pending : Authenticating \/ Asking(x) => (Authenticating \/ Asking(x))'
    BY <1>1, <1>2, <1>4, <2>1, <2>2, MessageNames DEF Authenticating, Asking
  <2> QED
    BY <1>1, <2>3, <2>4 DEF PendingInv
<1>5. CASE task # SubTask /\ \A s \in Symbol : task # UnsubTask(s)
  <2>1. /\ posted' = rest
        /\ writing' = Append(writing, task) \/ writing' = Append(writing, Garbled)
    BY <1>5, PostedWrites DEF task, rest
  <2>2. /\ Range(Append(writing, task)) = Range(writing) \cup {task}
        /\ Range(Append(writing, Garbled)) = Range(writing) \cup {Garbled}
    BY <1>2, RangeAppended, MessagesAreTyped DEF DataTypeOK
  <2>3. /\ Range(writing) \subseteq Range(writing')
        /\ task \in Range(writing') \/ Garbled \in Range(writing')
    BY <2>1, <2>2, Zenon
  <2>4. authenticated \/ Authenticating \/ Garbled \in OnTheWay
          => (authenticated \/ Authenticating \/ Garbled \in OnTheWay)'
    BY <1>1, <1>2, <2>1, <2>3 DEF Authenticating, OnTheWay
  <2>5. \A x \in pending : Authenticating \/ Asking(x) => (Authenticating \/ Asking(x))'
    BY <1>1, <1>2, <1>5, <2>1, <2>3 DEF Authenticating, Asking
  <2> QED
    BY <1>1, <2>4, <2>5 DEF PendingInv
<1> QED
  BY <1>3, <1>4, <1>5

LEMMA PendingWriteDone ==
  ASSUME DataTypeOK, PendingInv, WriteDone
  PROVE  PendingInv'
<1> DEFINE message == Head(writing)
           rest == Tail(writing)
<1> SUFFICES ASSUME Hearing'
             PROVE  PendingInv'
  BY DEF PendingInv
<1>1. /\ Hearing /\ pending' = pending
      /\ posted' = posted /\ toClient' = toClient /\ writing' = rest
      /\ toServer' = Append(toServer, message)
      /\ resuming' = resuming /\ authenticated' = authenticated
  BY DEF WriteDone, Hearing, threads, flags, subs
<1>2. message \in Request /\ Range(writing) = Range(rest) \cup {message}
  BY Taken DEF DataTypeOK, WriteDone
<1> HIDE DEF message, rest
<1>3. Range(toServer') = Range(toServer) \cup {message}
  BY <1>1, <1>2, RangeAppended DEF DataTypeOK
<1>4. OnTheWay' = OnTheWay
  BY <1>1, <1>2, <1>3 DEF OnTheWay
<1>5. Authenticating => Authenticating'
  BY <1>1, <1>4 DEF Authenticating, OnTheWay
<1>6. \A s : Asking(s) => Asking(s)'
  BY <1>1, <1>4 DEF Asking, OnTheWay
<1> QED
  BY <1>1, <1>4, <1>5, <1>6 DEF PendingInv

LEMMA PendingReceive ==
  ASSUME DataTypeOK, PendingInv,
         ReceiveAuthenticated \/ ProcessSubscriptionAck \/ ReceiveOther
  PROVE  PendingInv'
<1> DEFINE answer == Head(toClient)
           rest == Tail(toClient)
<1> SUFFICES ASSUME Hearing'
             PROVE  PendingInv'
  BY DEF PendingInv
<1>1. /\ Hearing /\ toClient # <<>> /\ toClient' = rest
      /\ posted' = posted /\ writing' = writing /\ toServer' = toServer
  BY DEF ReceiveAuthenticated, ProcessSubscriptionAck, ReceiveOther, Receive, Hearing, threads, io
<1>2. Range(toClient) = Range(rest) \cup {answer}
  BY <1>1, Taken DEF DataTypeOK
<1>3. CASE ReceiveAuthenticated
  <2>1. resuming'
    BY <1>3 DEF ReceiveAuthenticated
  <2> QED
    BY <2>1 DEF PendingInv, Authenticating
<1>4. CASE ProcessSubscriptionAck
  <2>1. answer # Authenticated /\ pending' = {} /\ resuming' = resuming
                               /\ authenticated' = authenticated
    BY <1>4, MessageNames DEF ProcessSubscriptionAck, Receive, flags
  <2> HIDE DEF answer, rest
  <2> QED
    BY <1>1, <1>2, <2>1 DEF PendingInv, Authenticating, OnTheWay
<1>5. CASE ReceiveOther
  <2>1. /\ answer # Authenticated /\ answer.T # "subscription"
        /\ pending' = pending /\ resuming' = resuming /\ authenticated' = authenticated
    BY <1>5, MessageNames DEF ReceiveOther, Receive, flags, subs
  <2> HIDE DEF answer, rest
  <2>2. Authenticating => Authenticating'
    BY <1>1, <1>2, <2>1 DEF Authenticating
  <2>3. \A s : Asking(s) => Asking(s)'
    BY <1>1, <1>2, <2>1 DEF Asking
  <2> QED
    BY <1>1, <2>1, <2>2, <2>3 DEF PendingInv, OnTheWay
<1> QED
  BY <1>3, <1>4, <1>5

LEMMA PendingResume ==
  ASSUME DataTypeOK, Control, PendingInv, ResumeSubscriptions
  PROVE  PendingInv'
<1> SUFFICES ASSUME Hearing'
             PROVE  PendingInv'
  BY DEF PendingInv
<1>1. /\ connected /\ authenticated /\ pending' = pending /\ authenticated' = authenticated
      /\ posted' = PostingSubscription(posted)
  BY DEF ResumeSubscriptions, Hearing, Control, threads, flags, io, subs, server
<1>2. pending # {} => posted' = Append(posted, Sub(pending))
  BY <1>1 DEF PostingSubscription, Posting
<1>3. Range(Append(posted, Sub(pending))) = Range(posted) \cup {Sub(pending)}
  BY RangeAppended, MessagesAreTyped DEF DataTypeOK
<1>4. ASSUME NEW s \in pending
      PROVE  Asking(s)'
  <2>1. Sub(pending) \in Range(posted') /\ Sub(pending).do = "subscribe" /\ s \in Sub(pending).of
    BY <1>2, <1>3, <1>4, MessageNames
  <2> QED
    BY <2>1 DEF Asking
<1> QED
  BY <1>1, <1>4 DEF PendingInv

LEMMA PendingServerAccepts ==
  ASSUME DataTypeOK, PendingInv, ServerAccepts
  PROVE  PendingInv'
<1> DEFINE m == Head(toServer)
           rest == Tail(toServer)
<1> SUFFICES ASSUME Hearing'
             PROVE  PendingInv'
  BY DEF PendingInv
<1>1. /\ Hearing /\ pending' = pending /\ toServer' = rest
      /\ posted' = posted /\ writing' = writing
      /\ resuming' = resuming /\ authenticated' = authenticated
  BY DEF ServerAccepts, Hearing, threads, flags, io, subs
<1>2. Range(toServer) = Range(rest) \cup {m} /\ m \in Request
  BY Taken DEF DataTypeOK, ServerAccepts
<1>3. serverSubs' \in SUBSET Symbol
  BY DataStep DEF DataTypeOK, Next
<1>4. /\ Range(Append(toClient, Authenticated)) = Range(toClient) \cup {Authenticated}
      /\ Range(Append(toClient, Ack(serverSubs'))) = Range(toClient) \cup {Ack(serverSubs')}
  BY <1>3, RangeAppended, MessagesAreTyped DEF DataTypeOK
<1>5. \/ m = Auth /\ toClient' = Append(toClient, Authenticated)
      \/ /\ m.do \in {"subscribe", "unsubscribe"}
         /\ m.do = "subscribe" => serverSubs' = serverSubs \cup m.of
         /\ toClient' = Append(toClient, Ack(serverSubs'))
  BY DEF ServerAccepts
<1> HIDE DEF m, rest
<1>6. CASE m = Auth /\ toClient' = Append(toClient, Authenticated)
  <2>1. Authenticating'
    BY <1>4, <1>6 DEF Authenticating
  <2> QED
    BY <2>1 DEF PendingInv
<1>7. CASE /\ m.do \in {"subscribe", "unsubscribe"}
           /\ m.do = "subscribe" => serverSubs' = serverSubs \cup m.of
           /\ toClient' = Append(toClient, Ack(serverSubs'))
  <2>1. m # Auth /\ m # Garbled
    BY <1>7, MessageNames
  <2>2. Range(toClient') = Range(toClient) \cup {Ack(serverSubs')}
    BY <1>4, <1>7
  <2>3. /\ Authenticating => Authenticating'
        /\ Garbled \in OnTheWay => (Garbled \in OnTheWay)'
    BY <1>1, <1>2, <2>1, <2>2 DEF Authenticating, OnTheWay
  <2>4. ASSUME NEW s, Asking(s)
        PROVE  Asking(s)'
    <3>1. CASE m.do = "subscribe" /\ s \in m.of
      <4>1. Ack(serverSubs').T = "subscription" /\ s \in Ack(serverSubs').of
        BY <1>7, <3>1, MessageNames
      <4> QED
        BY <2>2, <4>1 DEF Asking
    <3>2. CASE ~(m.do = "subscribe" /\ s \in m.of)
      BY <1>1, <1>2, <2>1, <2>2, <2>4, <3>2 DEF Asking
    <3> QED
      BY <3>1, <3>2
  <2> QED
    BY <1>1, <2>3, <2>4 DEF PendingInv
<1> QED
  BY <1>5, <1>6, <1>7

LEMMA PendingServerTicks ==
  ASSUME DataTypeOK, PendingInv, ServerTicks
  PROVE  PendingInv'
<1> SUFFICES ASSUME Hearing'
             PROVE  PendingInv'
  BY DEF PendingInv
<1>1. /\ Hearing /\ pending' = pending /\ toServer' = toServer
      /\ posted' = posted /\ writing' = writing
      /\ resuming' = resuming /\ authenticated' = authenticated
  BY DEF ServerTicks, Hearing, threads, flags, io, subs
<1>2. Range(toClient) \subseteq Range(toClient')
  BY RangeAppended, MessagesAreTyped DEF DataTypeOK, ServerTicks
<1>3. /\ Authenticating => Authenticating'
      /\ Garbled \in OnTheWay => (Garbled \in OnTheWay)'
      /\ \A x : Asking(x) => Asking(x)'
  BY <1>1, <1>2, NothingTaken
<1> QED
  BY <1>1, <1>3 DEF PendingInv

LEMMA PendingStep ==
  ASSUME DataTypeOK, Control, PendingInv, [Next]_vars
  PROVE  PendingInv'
<1> USE DEF PendingInv, Hearing, Authenticating, Asking, OnTheWay,
            threads, flags, timer, heart, io, subs, server
<1>1. CASE Start
  BY <1>1 DEF Start
<1>2. CASE StopBegin
  BY <1>2 DEF StopBegin
<1>3. CASE StopTimers
  BY <1>3 DEF StopTimers
<1>4. CASE CloseWebSocket
  BY <1>4 DEF CloseWebSocket
<1>5. CASE StopJoin
  BY <1>5 DEF StopJoin
<1>6. CASE Destroy
  BY <1>6 DEF Destroy
<1>7. CASE ReconnectTimerFires
  BY <1>7 DEF ReconnectTimerFires
<1>8. CASE WorkerStarts
  BY <1>8 DEF WorkerStarts, ConnectWebSocket
<1>9. CASE Reconnect
  BY <1>9 DEF Reconnect, ConnectWebSocket
<1>10. CASE StaleOperationFails
  BY <1>10 DEF StaleOperationFails
<1>11. CASE NextStage
  <2>1. stream' # "open"
    BY <1>11, NotYetOpen
  <2> QED
    BY <2>1
<1>12. CASE StageFails
  BY <1>12 DEF StageFails
<1>13. CASE Opened
  BY <1>13, PendingOpened
<1>14. CASE RunPosted
  BY <1>14, PendingRunPosted
<1>15. CASE WriteDone
  BY <1>15, PendingWriteDone
<1>16. CASE WriteFails
  BY <1>16 DEF WriteFails
<1>17. CASE Closed
  BY <1>17 DEF Closed, Control
<1>18. CASE ReceiveAuthenticated
  BY <1>18, PendingReceive
<1>19. CASE ProcessSubscriptionAck
  BY <1>19, PendingReceive
<1>20. CASE ReceiveOther
  BY <1>20, PendingReceive
<1>21. CASE ReceiveUnparsed
  BY <1>21 DEF ReceiveUnparsed
<1>22. CASE ReadFails
  BY <1>22 DEF ReadFails
<1>23. CASE ResumeSubscriptions
  BY <1>23, PendingResume
<1>24. CASE HandleHeartbeat
  BY <1>24 DEF HandleHeartbeat
<1>25. CASE RunReturns
  BY <1>25 DEF RunReturns
<1>26. CASE Interval
  BY <1>26 DEF Interval
<1>27. CASE Break
  BY <1>27 DEF Break
<1>28. CASE ServerAccepts
  BY <1>28, PendingServerAccepts
<1>29. CASE ServerRefuses
  BY <1>29 DEF ServerRefuses
<1>30. CASE ServerTicks
  BY <1>30, PendingServerTicks
<1>31. CASE \E s \in Symbol : Subscribe(s)
  BY <1>31, PendingSubscribe
<1>32. CASE \E s \in Symbol : Unsubscribe(s)
  BY <1>32, PendingUnsubscribe
<1>33. CASE UNCHANGED vars
  BY <1>33 DEF vars
<1> QED
  BY <1>1, <1>2, <1>3, <1>4, <1>5, <1>6, <1>7, <1>8, <1>9, <1>10, <1>11, <1>12, <1>13, <1>14,
     <1>15, <1>16, <1>17, <1>18, <1>19, <1>20, <1>21, <1>22, <1>23, <1>24, <1>25, <1>26,
     <1>27, <1>28, <1>29, <1>30, <1>31, <1>32, <1>33, Zenon
  DEF Next, Main, Stopping, Worker, Stage, Written, Received

-------------------------------------------------------------------------------
\* FirstConnection.

LEMMA NothingOutstanding ==
  ASSUME writing = <<>>, ~reading, stream = "none"
  PROVE  Outstanding = 0
BY EmptySeq DEF Outstanding

\* A new stream that replaces nothing leaves nothing over.
LEMMA FirstStream ==
  ASSUME DataTypeOK, Control, ConnectWebSocket, breaks = 0,
         stream = "none", stale = 0, Pristine, ~reconnect_timer, connects' = 0,
         worker' = "running"
  PROVE  FirstConnection'
<1>1. stale' = 0
  BY NothingOutstanding DEF ConnectWebSocket, Pristine
<1>2. Pristine'
  BY DEF ConnectWebSocket, Pristine, flags, subs
<1>3. \/ stream' = "connecting" /\ running' = running /\ reconnect_timer' = reconnect_timer
      \/ stream' = "none"
  BY DEF ConnectWebSocket, timer
<1> QED
  BY <1>1, <1>2, <1>3 DEF FirstConnection, Opening

LEMMA FirstConnectionStep ==
  ASSUME DataTypeOK, Control, FirstConnection, [Next]_vars
  PROVE  FirstConnection'
<1> USE DEF DataTypeOK, Control, FirstConnection, Pristine, Opening,
            threads, flags, timer, heart, io, subs, server
<1>2. CASE Start
  BY <1>2 DEF Start
<1>3. CASE StopBegin
  BY <1>3 DEF StopBegin
<1>4. CASE StopTimers
  BY <1>4 DEF StopTimers
<1>5. CASE CloseWebSocket
  BY <1>5 DEF CloseWebSocket
<1>6. CASE StopJoin
  BY <1>6 DEF StopJoin
<1>7. CASE Destroy
  BY <1>7 DEF Destroy
<1>8. CASE ReconnectTimerFires
  BY <1>8 DEF ReconnectTimerFires, Ready, Alive
<1>9. CASE WorkerStarts
  BY <1>9, FirstStream DEF WorkerStarts
<1>10. CASE Reconnect
  <2>1. ASSUME running, breaks = 0
        PROVE  FirstConnection'
    <3>1. /\ stream = "none" /\ connects = 1 /\ ~reconnect_timer /\ connects' = 0
          /\ worker' = "running" /\ ConnectWebSocket
      BY <1>10, <2>1 DEF Reconnect, Ready, Alive
    <3> HIDE DEF DataTypeOK, Control, FirstConnection, Pristine
    <3>2. stale = 0 /\ Pristine
      BY <2>1, <3>1 DEF FirstConnection
    <3> QED
      BY <2>1, <3>1, <3>2, FirstStream
  <2>2. CASE ~running
    BY <1>10, <2>2 DEF Reconnect, Ready, Alive
  <2>3. CASE breaks # 0
    BY <1>10, <2>3 DEF Reconnect, ConnectWebSocket
  <2> QED
    BY <2>1, <2>2, <2>3
<1>11. CASE StaleOperationFails
  BY <1>11, Scheduled DEF StaleOperationFails
<1>12. CASE NextStage
  BY <1>12, StagesAsSet DEF NextStage
<1>13. CASE StageFails
  BY <1>13, Scheduled DEF StageFails, Ready, Alive
<1>14. CASE Opened
  BY <1>14 DEF Opened, Ready, Alive
<1>15. CASE RunPosted
  BY <1>15 DEF RunPosted, Ready, Alive
<1>16. CASE WriteDone
  BY <1>16 DEF WriteDone
<1>17. CASE WriteFails
  BY <1>17, Scheduled DEF WriteFails, Ready, Alive
<1>18. CASE Closed
  BY <1>18 DEF Closed, Ready, Alive
<1>19. CASE ReceiveAuthenticated
  BY <1>19 DEF ReceiveAuthenticated, Receive
<1>20. CASE ProcessSubscriptionAck
  BY <1>20 DEF ProcessSubscriptionAck, Receive
<1>21. CASE ReceiveOther
  BY <1>21 DEF ReceiveOther, Receive
<1>22. CASE ReceiveUnparsed
  BY <1>22 DEF ReceiveUnparsed
<1>23. CASE ReadFails
  BY <1>23, Scheduled DEF ReadFails, Ready, Alive
<1>24. CASE ResumeSubscriptions
  BY <1>24 DEF ResumeSubscriptions, Ready, Alive
<1>25. CASE HandleHeartbeat
  BY <1>25, Scheduled DEF HandleHeartbeat, Ready, Alive
<1>26. CASE RunReturns
  BY <1>26 DEF RunReturns
<1>27. CASE Interval
  BY <1>27 DEF Interval
<1>28. CASE Break
  BY <1>28 DEF Break
<1>29. CASE ServerAccepts
  BY <1>29 DEF ServerAccepts
<1>30. CASE ServerRefuses
  BY <1>30 DEF ServerRefuses
<1>31. CASE ServerTicks
  BY <1>31 DEF ServerTicks
<1>32. CASE \E s \in Symbol : Subscribe(s)
  BY <1>32 DEF Subscribe
<1>33. CASE \E s \in Symbol : Unsubscribe(s)
  BY <1>33 DEF Unsubscribe
<1>34. CASE UNCHANGED vars
  BY <1>34 DEF vars
<1> QED
  BY <1>2, <1>3, <1>4, <1>5, <1>6, <1>7, <1>8, <1>9, <1>10, <1>11, <1>12, <1>13, <1>14,
     <1>15, <1>16, <1>17, <1>18, <1>19, <1>20, <1>21, <1>22, <1>23, <1>24, <1>25, <1>26,
     <1>27, <1>28, <1>29, <1>30, <1>31, <1>32, <1>33, <1>34, Zenon
  DEF Next, Main, Stopping, Worker, Stage, Written, Received

-------------------------------------------------------------------------------
\* AuthKnown.

\* The first answer is no acknowledgement, ...
LEMMA FirstAnswer ==
  ASSUME NEW q \in Seq(Answer), q # <<>>, InOrder(q)
  PROVE  Head(q).T # "subscription"
<1>1. Head(q) = q[1] /\ DOMAIN q = 1..Len(q) /\ Len(q) \in Nat \ {0}
  BY Taken
<1> QED
  BY <1>1 DEF InOrder

\* ... and what is left when it was not the one about the credentials.
LEMMA AnswersLeft ==
  ASSUME NEW q \in Seq(Answer), q # <<>>, Head(q).T # "success"
  PROVE  /\ Holds(q, "success") => Holds(Tail(q), "success")
         /\ InOrder(q) => InOrder(Tail(q))
<1> DEFINE r == Tail(q)
<1>1. /\ Head(q) = q[1]
      /\ DOMAIN q = 1..Len(q) /\ DOMAIN r = 1..(Len(q) - 1) /\ Len(q) \in Nat \ {0}
      /\ \A i \in 1..(Len(q) - 1) : r[i] = q[i + 1]
  BY Taken
<1> HIDE DEF r
<1>2. ASSUME NEW j \in DOMAIN q, q[j].T = "success"
      PROVE  j - 1 \in DOMAIN r /\ r[j - 1].T = "success"
  BY <1>1, <1>2
<1>3. Holds(q, "success") => Holds(r, "success")
  BY <1>2 DEF Holds
<1>4. ASSUME InOrder(q), NEW i \in DOMAIN r, r[i].T = "subscription"
      PROVE  \E j \in DOMAIN r : j < i /\ r[j].T = "success"
  <2>1. i + 1 \in DOMAIN q /\ q[i + 1].T = "subscription"
    BY <1>1, <1>4
  <2>2. PICK j \in DOMAIN q : j < i + 1 /\ q[j].T = "success"
    BY <1>4, <2>1 DEF InOrder
  <2> QED
    BY <1>1, <1>2, <1>4, <2>2
<1>5. InOrder(q) => InOrder(r)
  BY <1>4 DEF InOrder
<1> QED
  BY <1>3, <1>5 DEF r

\* What another answer adds.
LEMMA AnswersAppended ==
  ASSUME NEW q \in Seq(Answer), NEW e \in Answer
  PROVE  /\ Holds(q, "success") => Holds(Append(q, e), "success")
         /\ e.T = "success" => Holds(Append(q, e), "success")
         /\ e.T # "subscription" \/ Holds(q, "success") =>
              (InOrder(q) => InOrder(Append(q, e)))
<1> DEFINE r == Append(q, e)
<1>1. /\ DOMAIN r = 1..(Len(q) + 1) /\ DOMAIN q = 1..Len(q) /\ Len(q) \in Nat
      /\ \A i \in 1..Len(q) : r[i] = q[i]
      /\ r[Len(q) + 1] = e
  BY Appended
<1> HIDE DEF r
<1>2. Holds(q, "success") => Holds(r, "success")
  BY <1>1 DEF Holds
<1>3. e.T = "success" => Holds(r, "success")
  BY <1>1 DEF Holds
<1>4. ASSUME e.T # "subscription" \/ Holds(q, "success"), InOrder(q),
             NEW i \in DOMAIN r, r[i].T = "subscription"
      PROVE  \E j \in DOMAIN r : j < i /\ r[j].T = "success"
  <2>1. CASE i = Len(q) + 1
    BY <1>1, <1>4, <2>1 DEF Holds
  <2>2. CASE i \in 1..Len(q)
    BY <1>1, <1>4, <2>2 DEF InOrder
  <2> QED
    BY <1>1, <2>1, <2>2
<1>5. e.T # "subscription" \/ Holds(q, "success") => (InOrder(q) => InOrder(r))
  BY <1>4 DEF InOrder
<1> QED
  BY <1>2, <1>3, <1>5 DEF r

LEMMA AuthKnownStep ==
  ASSUME DataTypeOK, Control, FirstConnection, AuthKnown, [Next]_vars
  PROVE  AuthKnown'
<1> USE DEF AuthKnown, threads, flags, timer, heart, io, subs, server
<1>1. CASE Start
  BY <1>1 DEF Start
<1>2. CASE StopBegin
  BY <1>2 DEF StopBegin
<1>3. CASE StopTimers
  BY <1>3 DEF StopTimers
<1>4. CASE CloseWebSocket
  BY <1>4 DEF CloseWebSocket
<1>5. CASE StopJoin
  BY <1>5 DEF StopJoin
<1>6. CASE Destroy
  BY <1>6 DEF Destroy
<1>7. CASE ReconnectTimerFires
  BY <1>7 DEF ReconnectTimerFires
<1>8. CASE WorkerStarts
  <2>1. subscribed' = {} /\ stream' # "open"
    BY <1>8 DEF WorkerStarts, ConnectWebSocket, FirstConnection, Control, Pristine, subs
  <2> QED
    BY <2>1 DEF AuthKnown
<1>9. CASE Reconnect
  BY <1>9, KeepsTrying DEF Reconnect, ConnectWebSocket
<1>10. CASE StaleOperationFails
  BY <1>10, KeepsTrying DEF StaleOperationFails
<1>11. CASE NextStage
  <2>1. stream # "none" /\ stream' # "open"
    BY <1>11, NotYetOpen
  <2> QED
    BY <1>11, <2>1 DEF NextStage
<1>12. CASE StageFails
  BY <1>12, KeepsTrying DEF StageFails
<1>13. CASE Opened
  <2>1. toClient' = <<>> /\ ~serverAuth' /\ subscribed' = subscribed
        /\ authenticated' = authenticated /\ worker' = worker /\ main' = main /\ stream # "none"
    BY <1>13 DEF Opened, Control, Opening, threads, subs, server
  <2>2. InOrder(<<>>)
    BY EmptySeq DEF InOrder
  <2> QED
    BY <2>1, <2>2 DEF AuthKnown
<1>14. CASE RunPosted
  BY <1>14 DEF RunPosted
<1>15. CASE WriteDone
  BY <1>15 DEF WriteDone
<1>16. CASE WriteFails
  BY <1>16, KeepsTrying DEF WriteFails
<1>17. CASE Closed
  BY <1>17 DEF Closed, Control
<1>18. CASE ReceiveAuthenticated
  BY <1>18 DEF ReceiveAuthenticated
<1>19. CASE ProcessSubscriptionAck
  <2>1. /\ worker = "running" /\ stream = "open" /\ ~residue /\ authenticated' = authenticated
        /\ main' = main
        /\ toClient # <<>> /\ Head(toClient).T = "subscription"
    BY <1>19 DEF ProcessSubscriptionAck, Receive, Ready, Alive
  <2>2. main = "up" => authenticated
    BY <2>1, FirstAnswer DEF AuthKnown, DataTypeOK
  <2> QED
    BY <2>1, <2>2 DEF AuthKnown
<1>20. CASE ReceiveOther
  <2>1. /\ toClient # <<>> /\ Head(toClient).T # "success" /\ toClient' = Tail(toClient)
    BY <1>20 DEF ReceiveOther, Receive
  <2> HIDE DEF AuthKnown
  <2>2. /\ Holds(toClient, "success") => Holds(Tail(toClient), "success")
        /\ InOrder(toClient) => InOrder(Tail(toClient))
    BY <2>1, AnswersLeft DEF DataTypeOK
  <2> QED
    BY <1>20, <2>1, <2>2 DEF ReceiveOther, Receive, AuthKnown
<1>21. CASE ReceiveUnparsed
  BY <1>21 DEF ReceiveUnparsed
<1>22. CASE ReadFails
  BY <1>22, KeepsTrying DEF ReadFails
<1>23. CASE ResumeSubscriptions
  BY <1>23 DEF ResumeSubscriptions
<1>24. CASE HandleHeartbeat
  BY <1>24, KeepsTrying DEF HandleHeartbeat
<1>25. CASE RunReturns
  BY <1>25 DEF RunReturns
<1>26. CASE Interval
  BY <1>26 DEF Interval
<1>27. CASE Break
  BY <1>27 DEF Break
<1>28. CASE ServerAccepts
  <2>1. \/ toClient' = Append(toClient, Authenticated)
        \/ /\ serverAuth /\ toClient' = Append(toClient, Ack(serverSubs'))
           /\ serverAuth' = serverAuth
    BY <1>28 DEF ServerAccepts
  <2>2. Authenticated \in Answer /\ Ack(serverSubs') \in Answer
    BY DataStep, MessagesAreTyped, Zenon DEF DataTypeOK
  <2>3. CASE toClient' = Append(toClient, Authenticated)
    <3>1. Holds(toClient', "success") /\ (InOrder(toClient) => InOrder(toClient'))
      BY <2>2, <2>3, AnswersAppended, MessageNames DEF DataTypeOK
    <3> QED
      BY <1>28, <3>1 DEF ServerAccepts
  <2>4. CASE /\ serverAuth /\ toClient' = Append(toClient, Ack(serverSubs'))
             /\ serverAuth' = serverAuth
    <3>1. Holds(toClient, "success") =>
             Holds(toClient', "success") /\ (InOrder(toClient) => InOrder(toClient'))
      BY <2>2, <2>4, AnswersAppended DEF DataTypeOK
    <3> QED
      BY <1>28, <2>4, <3>1 DEF ServerAccepts
  <2> QED
    BY <2>1, <2>3, <2>4
<1>29. CASE ServerRefuses
  <2>1. /\ Holds(toClient, "success") => Holds(toClient', "success")
        /\ InOrder(toClient) => InOrder(toClient')
    BY <1>29, AnswersAppended, MessagesAreTyped, MessageNames DEF ServerRefuses, DataTypeOK
  <2> QED
    BY <1>29, <2>1 DEF ServerRefuses
<1>30. CASE ServerTicks
  <2>1. /\ Holds(toClient, "success") => Holds(toClient', "success")
        /\ InOrder(toClient) => InOrder(toClient')
    BY <1>30, AnswersAppended, MessagesAreTyped, MessageNames DEF ServerTicks, DataTypeOK
  <2> QED
    BY <1>30, <2>1 DEF ServerTicks
<1>31. CASE \E s \in Symbol : Subscribe(s)
  BY <1>31 DEF Subscribe
<1>32. CASE \E s \in Symbol : Unsubscribe(s)
  BY <1>32 DEF Unsubscribe
<1>33. CASE UNCHANGED vars
  BY <1>33 DEF vars
<1> QED
  BY <1>1, <1>2, <1>3, <1>4, <1>5, <1>6, <1>7, <1>8, <1>9, <1>10, <1>11, <1>12, <1>13, <1>14,
     <1>15, <1>16, <1>17, <1>18, <1>19, <1>20, <1>21, <1>22, <1>23, <1>24, <1>25, <1>26,
     <1>27, <1>28, <1>29, <1>30, <1>31, <1>32, <1>33, Zenon
  DEF Next, Main, Stopping, Worker, Stage, Written, Received

-------------------------------------------------------------------------------
\* AgreedInv.

LEMMA NoAnswers ==
  ASSUME NEW X
  PROVE  LastAckIs(<<>>, X)
BY EmptySeq DEF LastAckIs

\* The last acknowledgement stays the last while others are read, ...
LEMMA LastAckLeft ==
  ASSUME NEW q \in Seq(Answer), q # <<>>, NEW X, LastAckIs(q, X)
  PROVE  LastAckIs(Tail(q), X)
<1> DEFINE r == Tail(q)
<1>1. /\ DOMAIN q = 1..Len(q) /\ DOMAIN r = 1..(Len(q) - 1) /\ Len(q) \in Nat \ {0}
      /\ \A i \in 1..(Len(q) - 1) : r[i] = q[i + 1]
  BY Taken
<1> HIDE DEF r
<1>2. ASSUME NEW i \in DOMAIN r, r[i].T = "subscription",
             \A j \in DOMAIN r : j > i => r[j].T # "subscription"
      PROVE  r[i].of = X
  <2>1. i + 1 \in DOMAIN q /\ q[i + 1] = r[i]
    BY <1>1
  <2>2. ASSUME NEW j \in DOMAIN q, j > i + 1
        PROVE  q[j].T # "subscription"
    <3>1. j - 1 \in DOMAIN r /\ j - 1 > i /\ q[j] = r[j - 1]
      BY <1>1, <2>2
    <3> QED
      BY <1>2, <3>1
  <2> QED
    BY <1>2, <2>1, <2>2 DEF LastAckIs
<1>3. LastAckIs(r, X)
  BY <1>2 DEF LastAckIs
<1> QED
  BY <1>3 DEF r

\* ... it is what the feed takes over when it is read, ...
LEMMA LastAckRead ==
  ASSUME NEW q \in Seq(Answer), q # <<>>, NEW X, LastAckIs(q, X),
         Head(q).T = "subscription", ~Holds(Tail(q), "subscription")
  PROVE  Head(q).of = X
<1> DEFINE r == Tail(q)
<1>1. /\ Head(q) = q[1]
      /\ DOMAIN q = 1..Len(q) /\ DOMAIN r = 1..(Len(q) - 1) /\ Len(q) \in Nat \ {0}
      /\ \A i \in 1..(Len(q) - 1) : r[i] = q[i + 1]
  BY Taken
<1>2. \A i \in DOMAIN r : r[i].T # "subscription"
  BY DEF Holds
<1> HIDE DEF r
<1>3. ASSUME NEW j \in DOMAIN q, j > 1
      PROVE  q[j].T # "subscription"
  <2>1. j - 1 \in DOMAIN r /\ q[j] = r[j - 1]
    BY <1>1, <1>3
  <2> QED
    BY <1>2, <2>1
<1> QED
  BY <1>1, <1>3 DEF LastAckIs

\* ... and reading something else does not take it away.
LEMMA NoAckLeft ==
  ASSUME NEW q \in Seq(Answer), q # <<>>,
         Head(q).T # "subscription", ~Holds(Tail(q), "subscription")
  PROVE  ~Holds(q, "subscription")
<1> DEFINE r == Tail(q)
<1>1. /\ Head(q) = q[1]
      /\ DOMAIN q = 1..Len(q) /\ DOMAIN r = 1..(Len(q) - 1) /\ Len(q) \in Nat \ {0}
      /\ \A i \in 1..(Len(q) - 1) : r[i] = q[i + 1]
  BY Taken
<1>2. \A i \in DOMAIN r : r[i].T # "subscription"
  BY DEF Holds
<1> HIDE DEF r
<1>3. ASSUME NEW j \in DOMAIN q
      PROVE  q[j].T # "subscription"
  <2>1. CASE j = 1
    BY <1>1, <2>1
  <2>2. CASE j # 1
    <3>1. j - 1 \in DOMAIN r /\ q[j] = r[j - 1]
      BY <1>1, <2>2
    <3> QED
      BY <1>2, <3>1
  <2> QED
    BY <2>1, <2>2
<1> QED
  BY <1>3 DEF Holds

\* A new acknowledgement is the last; other answers change nothing.
LEMMA AckSent ==
  ASSUME NEW q \in Seq(Answer), NEW e \in Answer, e.T = "subscription"
  PROVE  LastAckIs(Append(q, e), e.of) /\ Holds(Append(q, e), "subscription")
<1> DEFINE r == Append(q, e)
<1>1. /\ DOMAIN r = 1..(Len(q) + 1) /\ DOMAIN q = 1..Len(q) /\ Len(q) \in Nat
      /\ r[Len(q) + 1] = e
  BY Appended
<1> HIDE DEF r
<1>2. LastAckIs(r, e.of)
  <2> SUFFICES ASSUME NEW i \in DOMAIN r, \A j \in DOMAIN r : j > i => r[j].T # "subscription"
               PROVE  r[i].of = e.of
    BY DEF LastAckIs
  <2>1. Len(q) + 1 \in DOMAIN r /\ r[Len(q) + 1].T = "subscription"
    BY <1>1
  <2>2. i = Len(q) + 1
    BY <1>1, <2>1
  <2> QED
    BY <1>1, <2>2
<1>3. Holds(r, "subscription")
  BY <1>1 DEF Holds
<1> QED
  BY <1>2, <1>3 DEF r

LEMMA OtherSent ==
  ASSUME NEW q \in Seq(Answer), NEW e \in Answer, e.T # "subscription",
         NEW X, LastAckIs(q, X)
  PROVE  /\ LastAckIs(Append(q, e), X)
         /\ ~Holds(Append(q, e), "subscription") => ~Holds(q, "subscription")
<1> DEFINE r == Append(q, e)
<1>1. /\ DOMAIN r = 1..(Len(q) + 1) /\ DOMAIN q = 1..Len(q) /\ Len(q) \in Nat
      /\ \A i \in 1..Len(q) : r[i] = q[i]
      /\ r[Len(q) + 1] = e
  BY Appended
<1> HIDE DEF r
<1>2. LastAckIs(r, X)
  <2> SUFFICES ASSUME NEW i \in DOMAIN r, r[i].T = "subscription",
                      \A j \in DOMAIN r : j > i => r[j].T # "subscription"
               PROVE  r[i].of = X
    BY DEF LastAckIs
  <2>1. i \in DOMAIN q /\ r[i] = q[i]
    BY <1>1
  <2>2. \A j \in DOMAIN q : j > i => q[j].T # "subscription"
    BY <1>1
  <2> QED
    BY <2>1, <2>2 DEF LastAckIs
<1>3. Holds(q, "subscription") => Holds(r, "subscription")
  BY <1>1 DEF Holds
<1> QED
  BY <1>2, <1>3 DEF r

\* The request to leave is on its way as long as nothing is taken.
LEMMA NobodyStays ==
  ASSUME Range(posted) \subseteq Range(posted'), Range(writing) \subseteq Range(writing'),
         Range(toServer) \subseteq Range(toServer')
  PROVE  \A s : Leaving(s) => Leaving(s)'
BY DEF Leaving, OnTheWay

LEMMA AgreedSubscribe ==
  ASSUME DataTypeOK, AgreedInv, NEW s \in Symbol, Subscribe(s)
  PROVE  AgreedInv'
<1>1. /\ Comparable' => Comparable
      /\ subscribed' = subscribed /\ serverSubs' = serverSubs /\ toClient' = toClient
      /\ writing' = writing /\ toServer' = toServer
  BY DEF Subscribe, Comparable, Hearing, threads, io, server
<1>2. Range(posted) \subseteq Range(posted')
  BY RangeAppended, MessagesAreTyped DEF DataTypeOK, Subscribe
<1>3. \A x : Leaving(x) => Leaving(x)'
  BY <1>1, <1>2, NobodyStays
<1> QED
  BY <1>1, <1>3 DEF AgreedInv

LEMMA AgreedUnsubscribe ==
  ASSUME DataTypeOK, Control, AuthKnown, AgreedInv, NEW s \in Symbol, Unsubscribe(s)
  PROVE  AgreedInv'
<1>1. /\ Comparable' => Comparable
      /\ s \in subscribed /\ subscribed' = subscribed \ {s}
      /\ serverSubs' = serverSubs /\ toClient' = toClient
      /\ writing' = writing /\ toServer' = toServer
      /\ posted' = IF connected /\ authenticated THEN Append(posted, UnsubTask(s)) ELSE posted
  BY DEF Unsubscribe, Comparable, Hearing, threads, io, server
<1>2. Range(Append(posted, UnsubTask(s))) = Range(posted) \cup {UnsubTask(s)}
  BY RangeAppended, MessagesAreTyped DEF DataTypeOK
<1>3. Range(posted) \subseteq Range(posted')
  BY <1>1, <1>2
<1>4. \A x : Leaving(x) => Leaving(x)'
  BY <1>1, <1>3, NobodyStays
<1>5. ASSUME Comparable
      PROVE  Leaving(s)'
  <2>1. connected /\ authenticated
    BY <1>1, <1>5 DEF Comparable, Hearing, Control, AuthKnown
  <2>2. UnsubTask(s) \in Range(posted')
    BY <1>1, <1>2, <2>1
  <2>3. UnsubTask(s).do = "call sendUnsubscriptionMessage" /\ s \in UnsubTask(s).of
    BY MessageNames
  <2> QED
    BY <2>2, <2>3 DEF Leaving, OnTheWay
<1> QED
  BY <1>1, <1>4, <1>5 DEF AgreedInv

LEMMA AgreedOpened ==
  ASSUME Control, FirstConnection, Opened
  PROVE  AgreedInv'
<1>1. /\ toClient' = <<>> /\ serverSubs' = {} /\ subscribed' = subscribed /\ breaks' = breaks
      /\ breaks = 0 => subscribed = {}
  BY DEF Opened, Control, FirstConnection, Pristine, Opening, subs, server
<1>2. LastAckIs(toClient', serverSubs')
  BY <1>1, NoAnswers
<1> QED
  BY <1>1, <1>2 DEF AgreedInv, Comparable

LEMMA AgreedRunPosted ==
  ASSUME DataTypeOK, Control, AgreedInv, RunPosted
  PROVE  AgreedInv'
<1> DEFINE task == Head(posted)
           rest == Tail(posted)
<1>1. /\ Comparable' => Comparable /\ connected
      /\ subscribed' = subscribed /\ serverSubs' = serverSubs /\ toClient' = toClient
      /\ toServer' = toServer
  BY DEF RunPosted, Comparable, Hearing, Control, threads, flags, io, subs, server
<1>2. rest \in Seq(Request) /\ task \in Request /\ Range(posted) = Range(rest) \cup {task}
  BY Taken DEF DataTypeOK, RunPosted
<1> HIDE DEF task, rest
<1>3. ASSUME connected, NEW x, Leaving(x)
      PROVE  Leaving(x)'
  <2>1. CASE task = SubTask
    <3>1. /\ writing' = writing
          /\ posted' = rest \/ posted' = Append(rest, Sub(pending))
      BY <1>3, <2>1, PostedCalls DEF task, rest
    <3>2. Range(Append(rest, Sub(pending))) = Range(rest) \cup {Sub(pending)}
      BY <1>2, RangeAppended, MessagesAreTyped DEF DataTypeOK
    <3>3. Range(rest) \subseteq Range(posted')
      BY <3>1, <3>2, Zenon
    <3>4. task # Garbled /\ task.do = "call sendSubscriptionMessage"
      BY <2>1, MessageNames DEF SubTask
    <3> QED
      BY <1>1, <1>2, <1>3, <3>1, <3>3, <3>4 DEF Leaving, OnTheWay
  <2>2. ASSUME NEW s \in Symbol, task = UnsubTask(s)
        PROVE  Leaving(x)'
    <3>1. writing' = writing /\ posted' = Append(rest, Unsub({s}))
      BY <1>3, <2>2, PostedUnsubscribes DEF task, rest
    <3>2. Range(Append(rest, Unsub({s}))) = Range(rest) \cup {Unsub({s})}
      BY <1>2, RangeAppended, MessagesAreTyped
    <3>3. CASE x = s
      <4>1. Unsub({s}) \in Range(posted') /\ Unsub({s}).do = "unsubscribe" /\ x \in Unsub({s}).of
        BY <3>1, <3>2, <3>3 DEF Unsub
      <4> QED
        BY <4>1 DEF Leaving, OnTheWay
    <3>4. CASE x # s
      <4>1. task # Garbled /\ x \notin task.of
        BY <2>2, <3>4 DEF UnsubTask, Garbled
      <4> QED
        BY <1>1, <1>2, <1>3, <3>1, <3>2, <4>1 DEF Leaving, OnTheWay
    <3> QED
      BY <3>3, <3>4
  <2>3. CASE task # SubTask /\ \A s \in Symbol : task # UnsubTask(s)
    <3>1. /\ posted' = rest
          /\ writing' = Append(writing, task) \/ writing' = Append(writing, Garbled)
      BY <2>3, PostedWrites DEF task, rest
    <3>2. /\ Range(Append(writing, task)) = Range(writing) \cup {task}
          /\ Range(Append(writing, Garbled)) = Range(writing) \cup {Garbled}
      BY <1>2, RangeAppended, MessagesAreTyped DEF DataTypeOK
    <3>3. /\ Range(writing) \subseteq Range(writing')
          /\ task \in Range(writing') \/ Garbled \in Range(writing')
      BY <3>1, <3>2, Zenon
    <3> QED
      BY <1>1, <1>2, <1>3, <3>1, <3>3 DEF Leaving, OnTheWay
  <2> QED
    BY <2>1, <2>2, <2>3
<1> QED
  BY <1>1, <1>3 DEF AgreedInv

LEMMA AgreedWriteDone ==
  ASSUME DataTypeOK, AgreedInv, WriteDone
  PROVE  AgreedInv'
<1> DEFINE message == Head(writing)
           rest == Tail(writing)
<1>1. /\ Comparable' => Comparable
      /\ subscribed' = subscribed /\ serverSubs' = serverSubs /\ toClient' = toClient
      /\ posted' = posted /\ writing' = rest /\ toServer' = Append(toServer, message)
  BY DEF WriteDone, Comparable, Hearing, threads, subs
<1>2. message \in Request /\ Range(writing) = Range(rest) \cup {message}
  BY Taken DEF DataTypeOK, WriteDone
<1> HIDE DEF message, rest
<1>3. Range(toServer') = Range(toServer) \cup {message}
  BY <1>1, <1>2, RangeAppended DEF DataTypeOK
<1>4. \A s : Leaving(s) => Leaving(s)'
  BY <1>1, <1>2, <1>3 DEF Leaving, OnTheWay
<1> QED
  BY <1>1, <1>4 DEF AgreedInv

LEMMA AgreedReceive ==
  ASSUME DataTypeOK, AgreedInv,
         ReceiveAuthenticated \/ ProcessSubscriptionAck \/ ReceiveOther \/ ReceiveUnparsed
  PROVE  AgreedInv'
<1>1. /\ toClient # <<>> /\ toClient' = Tail(toClient) /\ serverSubs' = serverSubs
      /\ posted' = posted /\ writing' = writing /\ toServer' = toServer
      /\ Hearing' => Hearing /\ ~ReceiveUnparsed
      /\ breaks' = breaks
  BY DEF ReceiveAuthenticated, ProcessSubscriptionAck, ReceiveOther, ReceiveUnparsed, Receive,
         Hearing, threads, io
<1>2. LastAckIs(Tail(toClient), serverSubs)
  BY <1>1, LastAckLeft DEF AgreedInv, DataTypeOK
<1>3. LastAckIs(toClient', serverSubs')
  BY <1>1, <1>2
<1>4. CASE ProcessSubscriptionAck
  <2>1. Head(toClient).T = "subscription" /\ subscribed' = Head(toClient).of
    BY <1>4 DEF ProcessSubscriptionAck, Receive
  <2>2. ~Holds(Tail(toClient), "subscription") => Head(toClient).of = serverSubs
    BY <1>1, <2>1, LastAckRead DEF AgreedInv, DataTypeOK
  <2> QED
    BY <1>1, <1>3, <2>1, <2>2 DEF AgreedInv, Comparable
<1>5. CASE ReceiveAuthenticated \/ ReceiveOther
  <2>1. Head(toClient).T # "subscription" /\ subscribed' = subscribed
    BY <1>5 DEF ReceiveAuthenticated, ReceiveOther, Receive, subs
  <2>2. ~Holds(Tail(toClient), "subscription") => ~Holds(toClient, "subscription")
    BY <1>1, <2>1, NoAckLeft DEF DataTypeOK
  <2>3. Comparable' => Comparable
    BY <1>1, <2>2 DEF Comparable
  <2>4. \A s : Leaving(s) => Leaving(s)'
    BY <1>1 DEF Leaving, OnTheWay
  <2> QED
    BY <1>1, <1>3, <2>1, <2>3, <2>4 DEF AgreedInv
<1>6. CASE ReceiveUnparsed
  BY <1>1, <1>3, <1>6 DEF AgreedInv, Comparable
<1> QED
  BY <1>4, <1>5, <1>6

LEMMA AgreedResumeSubscriptions ==
  ASSUME DataTypeOK, AgreedInv, ResumeSubscriptions
  PROVE  AgreedInv'
<1>1. /\ Comparable' => Comparable
      /\ subscribed' = subscribed /\ serverSubs' = serverSubs /\ toClient' = toClient
      /\ writing' = writing /\ toServer' = toServer
  BY DEF ResumeSubscriptions, Comparable, Hearing, threads, io, subs, server
<1>2. Range(Append(posted, Sub(pending))) = Range(posted) \cup {Sub(pending)}
  BY RangeAppended, MessagesAreTyped DEF DataTypeOK
<1>3. posted' = posted \/ posted' = Append(posted, Sub(pending))
  BY DEF ResumeSubscriptions, PostingSubscription, Posting
<1>4. Range(posted) \subseteq Range(posted')
  BY <1>2, <1>3, Zenon
<1>5. \A s : Leaving(s) => Leaving(s)'
  BY <1>1, <1>4, NobodyStays
<1> QED
  BY <1>1, <1>5 DEF AgreedInv

LEMMA AgreedServerAccepts ==
  ASSUME DataTypeOK, AgreedInv, ServerAccepts
  PROVE  AgreedInv'
<1> DEFINE m == Head(toServer)
           rest == Tail(toServer)
<1>1. /\ Hearing' => Hearing
      /\ breaks' = breaks /\ subscribed' = subscribed
      /\ posted' = posted /\ writing' = writing /\ toServer' = rest
  BY DEF ServerAccepts, Hearing, threads, io, subs
<1>2. Range(toServer) = Range(rest) \cup {m}
  BY Taken DEF DataTypeOK, ServerAccepts
<1>3. \/ /\ m = Auth /\ serverSubs' = serverSubs
         /\ toClient' = Append(toClient, Authenticated)
      \/ toClient' = Append(toClient, Ack(serverSubs'))
  BY DEF ServerAccepts
<1>4. serverSubs' \in SUBSET Symbol
  BY DataStep DEF DataTypeOK, Next
<1> HIDE DEF m, rest
<1>5. CASE m = Auth /\ serverSubs' = serverSubs /\ toClient' = Append(toClient, Authenticated)
  <2>1. /\ LastAckIs(Append(toClient, Authenticated), serverSubs)
        /\ ~Holds(Append(toClient, Authenticated), "subscription") => ~Holds(toClient, "subscription")
    BY OtherSent, MessagesAreTyped, MessageNames DEF AgreedInv, DataTypeOK
  <2>2. Comparable' => Comparable
    BY <1>1, <1>5, <2>1 DEF Comparable
  <2>3. \A s : Leaving(s) => Leaving(s)'
    BY <1>1, <1>2, <1>5, MessageNames DEF Leaving, OnTheWay
  <2> QED
    BY <1>1, <1>5, <2>1, <2>2, <2>3 DEF AgreedInv
<1>6. CASE toClient' = Append(toClient, Ack(serverSubs'))
  <2>1. Ack(serverSubs').T = "subscription" /\ Ack(serverSubs').of = serverSubs'
    BY MessageNames
  <2>2. PICK e \in Answer : e = Ack(serverSubs')
    BY <1>4, MessagesAreTyped
  <2>3. LastAckIs(Append(toClient, e), e.of) /\ Holds(Append(toClient, e), "subscription")
    BY <2>1, <2>2, AckSent DEF DataTypeOK
  <2> QED
    BY <1>6, <2>1, <2>2, <2>3 DEF AgreedInv, Comparable
<1> QED
  BY <1>3, <1>5, <1>6

LEMMA AgreedServerSends ==
  ASSUME DataTypeOK, AgreedInv, ServerRefuses \/ ServerTicks
  PROVE  AgreedInv'
<1>1. /\ Hearing' => Hearing /\ ServerTicks
      /\ breaks' = breaks /\ subscribed' = subscribed /\ serverSubs' = serverSubs
      /\ posted' = posted /\ writing' = writing
      /\ ServerTicks => toServer' = toServer
  BY DEF ServerRefuses, ServerTicks, Hearing, threads, io, subs
<1>2. PICK e \in Answer : e.T # "subscription" /\ toClient' = Append(toClient, e)
  BY MessagesAreTyped, MessageNames DEF ServerRefuses, ServerTicks
<1>3. /\ LastAckIs(Append(toClient, e), serverSubs)
      /\ ~Holds(Append(toClient, e), "subscription") => ~Holds(toClient, "subscription")
  BY <1>2, OtherSent DEF AgreedInv, DataTypeOK
<1>4. Comparable' => Comparable /\ ServerTicks
  BY <1>1, <1>2, <1>3 DEF Comparable
<1>5. ServerTicks => \A s : Leaving(s) => Leaving(s)'
  BY <1>1 DEF Leaving, OnTheWay
<1> QED
  BY <1>1, <1>2, <1>3, <1>4, <1>5 DEF AgreedInv

LEMMA AgreedStep ==
  ASSUME DataTypeOK, Control, FirstConnection, AuthKnown, AgreedInv, [Next]_vars
  PROVE  AgreedInv'
<1> USE DEF AgreedInv, Comparable, Hearing, Leaving, OnTheWay,
            threads, flags, timer, heart, io, subs, server
<1>1. CASE Start
  BY <1>1 DEF Start
<1>2. CASE StopBegin
  BY <1>2 DEF StopBegin
<1>3. CASE StopTimers
  BY <1>3 DEF StopTimers
<1>4. CASE CloseWebSocket
  BY <1>4 DEF CloseWebSocket
<1>5. CASE StopJoin
  BY <1>5 DEF StopJoin
<1>6. CASE Destroy
  <2>1. toClient' = <<>> /\ stream' # "open"
    BY <1>6 DEF Destroy, ConnectWebSocket
  <2> QED
    BY <2>1, NoAnswers DEF AgreedInv, Hearing
<1>7. CASE ReconnectTimerFires
  BY <1>7 DEF ReconnectTimerFires
<1>8. CASE WorkerStarts
  <2>1. toClient' = <<>> /\ stream' # "open"
    BY <1>8 DEF WorkerStarts, ConnectWebSocket
  <2> QED
    BY <2>1, NoAnswers DEF AgreedInv, Hearing
<1>9. CASE Reconnect
  <2>1. CASE running
    <3>1. toClient' = <<>> /\ stream' # "open"
      BY <1>9, <2>1 DEF Reconnect, ConnectWebSocket
    <3> QED
      BY <3>1, NoAnswers DEF AgreedInv, Hearing
  <2>2. CASE ~running
    BY <1>9, <2>2 DEF Reconnect
  <2> QED
    BY <2>1, <2>2
<1>10. CASE StaleOperationFails
  BY <1>10 DEF StaleOperationFails
<1>11. CASE NextStage
  <2>1. stream' # "open"
    BY <1>11, NotYetOpen
  <2> QED
    BY <1>11, <2>1 DEF NextStage
<1>12. CASE StageFails
  BY <1>12 DEF StageFails
<1>13. CASE Opened
  BY <1>13, AgreedOpened
<1>14. CASE RunPosted
  BY <1>14, AgreedRunPosted
<1>15. CASE WriteDone
  BY <1>15, AgreedWriteDone
<1>16. CASE WriteFails
  BY <1>16 DEF WriteFails
<1>17. CASE Closed
  BY <1>17 DEF Closed
<1>18. CASE ReceiveAuthenticated
  BY <1>18, AgreedReceive
<1>19. CASE ProcessSubscriptionAck
  BY <1>19, AgreedReceive
<1>20. CASE ReceiveOther
  BY <1>20, AgreedReceive
<1>21. CASE ReceiveUnparsed
  BY <1>21, AgreedReceive
<1>22. CASE ReadFails
  BY <1>22 DEF ReadFails
<1>23. CASE ResumeSubscriptions
  BY <1>23, AgreedResumeSubscriptions
<1>24. CASE HandleHeartbeat
  BY <1>24 DEF HandleHeartbeat
<1>25. CASE RunReturns
  BY <1>25 DEF RunReturns
<1>26. CASE Interval
  BY <1>26 DEF Interval
<1>27. CASE Break
  <2>1. toClient' = <<>> /\ stream' # "open"
    BY <1>27 DEF Break, ConnectWebSocket
  <2> QED
    BY <2>1, NoAnswers DEF AgreedInv, Hearing
<1>28. CASE ServerAccepts
  BY <1>28, AgreedServerAccepts
<1>29. CASE ServerRefuses
  BY <1>29, AgreedServerSends
<1>30. CASE ServerTicks
  BY <1>30, AgreedServerSends
<1>31. CASE \E s \in Symbol : Subscribe(s)
  BY <1>31, AgreedSubscribe
<1>32. CASE \E s \in Symbol : Unsubscribe(s)
  BY <1>32, AgreedUnsubscribe
<1>33. CASE UNCHANGED vars
  BY <1>33 DEF vars
<1> QED
  BY <1>1, <1>2, <1>3, <1>4, <1>5, <1>6, <1>7, <1>8, <1>9, <1>10, <1>11, <1>12, <1>13, <1>14,
     <1>15, <1>16, <1>17, <1>18, <1>19, <1>20, <1>21, <1>22, <1>23, <1>24, <1>25, <1>26,
     <1>27, <1>28, <1>29, <1>30, <1>31, <1>32, <1>33, Zenon
  DEF Next, Main, Stopping, Worker, Stage, Written, Received

-------------------------------------------------------------------------------
\* The theorems.

LEMMA InitInv ==
  ASSUME Init
  PROVE  IInv
<1> USE DEF Init
<1>1. FlagsTypeOK
  BY Zenon DEF FlagsTypeOK
<1>2. DataTypeOK
  <2>1. <<>> \in Seq(Request) /\ <<>> \in Seq(Answer)
    BY EmptySeq
  <2> QED
    BY <2>1, BoundsAssumption DEF DataTypeOK
<1>3. Control
  BY DEF Control, Opening
<1>4. StillTrying
  BY DEF StillTrying
<1>5. PendingInv
  BY DEF PendingInv, Hearing
<1>6. FirstConnection
  BY DEF FirstConnection, Pristine, Opening
<1>7. AuthKnown
  BY DEF AuthKnown
<1>8. AgreedInv
  BY NoAnswers DEF AgreedInv, Comparable, Hearing
<1> QED
  BY <1>1, <1>2, <1>3, <1>4, <1>5, <1>6, <1>7, <1>8 DEF IInv

LEMMA StepInv ==
  ASSUME IInv, [Next]_vars
  PROVE  IInv'
<1>1. /\ FlagsTypeOK /\ DataTypeOK /\ Control /\ StillTrying
      /\ PendingInv /\ FirstConnection /\ AuthKnown /\ AgreedInv
  BY DEF IInv
<1>2. FlagsTypeOK'
  BY <1>1, FlagsStep
<1>3. DataTypeOK'
  BY <1>1, DataStep
<1>4. Control'
  BY <1>1, ControlStep
<1>5. StillTrying'
  BY <1>1, StillTryingStep
<1>6. PendingInv'
  BY <1>1, PendingStep
<1>7. FirstConnection'
  BY <1>1, FirstConnectionStep
<1>8. AuthKnown'
  BY <1>1, AuthKnownStep
<1>9. AgreedInv'
  BY <1>1, AgreedStep
<1> QED
  BY <1>2, <1>3, <1>4, <1>5, <1>6, <1>7, <1>8, <1>9 DEF IInv

\* The inductive invariant holds in every reachable state.
THEOREM FeedInvariance == Spec => []IInv
<1>1. Init => IInv
  BY InitInv
<1>2. IInv /\ [Next]_vars => IInv'
  BY StepInv
<1> QED
  BY <1>1, <1>2, PTL DEF Spec

\* The type invariant of the feed: the counters stay in their ranges, and what
\* travels names symbols clients subscribe to.
THEOREM FeedTypeCorrect == Spec => []TypeOK
<1>1. IInv => TypeOK
  <2> SUFFICES ASSUME IInv
               PROVE  TypeOK
    OBVIOUS
  <2>1. FlagsTypeOK /\ DataTypeOK
    BY DEF IInv
  <2>2. ASSUME NEW S, NEW q \in Seq(S), NEW m \in Range(q)
        PROVE  m \in S
    BY <2>2, ElementOfSeq, LenProperties DEF Range
  <2>3. /\ \A m \in Range(posted) : m.of \subseteq Symbol
        /\ \A m \in Range(writing) : m.of \subseteq Symbol
        /\ \A m \in Range(toServer) : m.of \subseteq Symbol
        /\ \A m \in Range(toClient) : m.of \subseteq Symbol
    <3>1. /\ \A m \in Range(posted) : m \in Request
          /\ \A m \in Range(writing) : m \in Request
          /\ \A m \in Range(toServer) : m \in Request
          /\ \A m \in Range(toClient) : m \in Answer
      BY <2>1, <2>2 DEF DataTypeOK
    <3> QED
      BY <3>1 DEF Request, Answer
  <2>4. \A flag \in {running, connected, authenticated, closing, reconnect_timer,
                     resuming, residue, serverAuth, refused} : flag \in BOOLEAN
    BY <2>1, Zenon DEF FlagsTypeOK
  <2> QED
    BY <2>1, <2>3, <2>4, StagesAsSet DEF DataTypeOK, TypeOK
<1> QED
  BY <1>1, FeedInvariance, PTL

\* No failure of a running feed, of whatever stage or operation and however
\* often, leaves it without a connection and without an attempt to make one.
THEOREM FeedKeepsTrying == Spec => []StillTrying
<1>1. IInv => StillTrying
  BY DEF IInv
<1> QED
  BY <1>1, FeedInvariance, PTL

\* On an open connection, each pending subscription has a request, or what
\* leads to one, on its way: no order of calls, handlers and messages loses it.
THEOREM SubscriptionsOnTheirWay == Spec => []PendingOnItsWay
<1>1. IInv => PendingOnItsWay
  BY DEF IInv, PendingInv, Hearing, PendingOnItsWay
<1> QED
  BY <1>1, FeedInvariance, PTL

\* Once all messages have arrived, the feed's list is the service's.
THEOREM FeedAgreesWithService == Spec => []SubscribedAtServer
<1>1. IInv => SubscribedAtServer
  <2> SUFFICES ASSUME IInv,
                      Hearing, Quiet,
                      breaks = 0 \/ serverSubs # {}
               PROVE  subscribed = serverSubs
    BY DEF SubscribedAtServer
  <2>1. posted = <<>> /\ writing = <<>> /\ toServer = <<>> /\ toClient = <<>>
    BY DEF Quiet
  <2>2. OnTheWay = {} /\ ~Holds(toClient, "subscription")
    BY <2>1, Emptied DEF OnTheWay, Holds
  <2>3. \A s : ~Leaving(s)
    BY <2>2 DEF Leaving
  <2> QED
    BY <2>2, <2>3 DEF IInv, AgreedInv, Comparable, Hearing
<1> QED
  BY <1>1, FeedInvariance, PTL

===============================================================================
