---------------------------- MODULE OrderService ----------------------------
(***************************************************************************)
(* The running service: the routes of the API server post orders to the    *)
(* execution engine, WebSocketHandlers turn the engine's events into       *)
(* broadcasts of the WebSocket manager, and clients subscribe to orders.   *)
(*                                                                         *)
(* The engine and the manager are the modules of those names, over the     *)
(* variables below.  A stage of the engine emits its events synchronously, *)
(* so the broadcasts they cause belong to the same step.                   *)
(***************************************************************************)
EXTENDS Integers, FiniteSets, Sequences, SequencesExt

CONSTANTS Executions, Clients, Durations, MaxSubscriptionsPerClient,
          PingMayThrow, MaxSequence

ASSUME ServiceAssumption ==
  /\ IsFiniteSet(Executions) /\ IsFiniteSet(Clients)
  /\ Durations \subseteq Nat
  /\ MaxSubscriptionsPerClient \in Nat
  /\ PingMayThrow \in BOOLEAN
  /\ MaxSequence \in Nat

VARIABLES
  \* the engine
  executions, state, totalTime, pc, events, totalExecuted, totalSuccessful,
  totalFailed, stateDistribution, averageExecutionTime,
  \* the manager
  clients, sessionSubscriptions, isAlive, topics, subscribers, heartbeatIntervals,
  ticking, totalConnections, activeConnections, totalSubscriptions,
  messageSequence, pingThrew, readyState, silent, lastReceived,
  \* the messages about an order a client got since it subscribed (history)
  told,
  \* how much had been broadcast about the order before that (history)
  before

engineVars  == <<executions, state, totalTime, pc, events, totalExecuted,
                 totalSuccessful, totalFailed, stateDistribution, averageExecutionTime>>
sendingVars == <<messageSequence, lastReceived>>
sessionVars == <<clients, sessionSubscriptions, isAlive, topics, subscribers,
                 heartbeatIntervals, ticking, totalConnections, activeConnections,
                 totalSubscriptions, pingThrew, readyState, silent>>
vars == <<engineVars, sendingVars, sessionVars, told, before>>

(* Ids are random: that of an order is neither that of its execution nor   *)
(* one a client knows before the order was posted.                         *)
OrderId(e) == <<"order", e>>
Orders == {OrderId(e) : e \in Executions}

Engine  == INSTANCE ExecutionEngine  WITH ListenerMayThrow <- FALSE, ResetAllowed <- FALSE
Manager == INSTANCE WebSocketManager WITH ResetAllowed <- FALSE

-----------------------------------------------------------------------------
(* From events to broadcasts.                                              *)

\* Faulty variant: errors are not forwarded.
Forwarded_NoErrors(emitted) ==
  LET sent[n \in 0 .. Len(emitted)] ==
        IF n = 0 THEN <<>>
        ELSE IF emitted[n] \in {"building", "error"} THEN sent[n - 1]
        ELSE Append(sent[n - 1], emitted[n])
  IN  sent[Len(emitted)]

(* handleExecutionEvent, event by event: one broadcast for each of them    *)
(* but `building', which no case of the switch names.                      *)
Forwarded(emitted) ==
  LET sent[n \in 0 .. Len(emitted)] ==
        IF n = 0 THEN <<>>
        ELSE IF emitted[n] = "building" THEN sent[n - 1]
        ELSE Append(sent[n - 1], emitted[n])
  IN  sent[Len(emitted)]

\* The status a client concludes from a broadcast; statusMap is the identity.
StatusOf(type) ==
  CASE type = "routing"      -> "ROUTING"
    [] type = "submission"   -> "SUBMITTED"
    [] type = "confirmation" -> "CONFIRMED"
    [] type = "error"        -> "FAILED"
    [] OTHER                 -> type

\* Who gets a message about an order: subscribers with a session and an open socket.
Hearers(o) == {c \in subscribers[o] \cap clients : readyState[c] = "open"}

(* The broadcasts `news' about an order, each with a number of its own, if *)
(* there is any subscriber.                                                *)
Broadcasts(o, news) ==
  /\ IF subscribers[o] = {} \/ news = <<>>
     THEN UNCHANGED sendingVars
     ELSE LET last == messageSequence + Len(news) - 1
              Capped(n) == IF n < MaxSequence THEN n ELSE MaxSequence
          IN  /\ messageSequence' = Capped(last + 1)
              /\ lastReceived' = [c \in Clients |->
                   IF c \in Hearers(o) THEN Capped(last) ELSE lastReceived[c]]
  /\ told' = [told EXCEPT ![o] = [c \in Clients |->
       IF c \in Hearers(o) THEN @[c] \o news ELSE @[c]]]
  /\ UNCHANGED before

-----------------------------------------------------------------------------
(* The API.                                                                *)

(* POST /api/orders/execute with a valid body, which validateOrder never   *)
(* refuses: executeOrder runs to its first await, then PENDING is broadcast*)
(* once more.  The order id is in the answer, after all that.              *)
PostOrder(e) ==
  /\ Engine!ExecuteOrder(e)
  /\ pc'[e] = "routing"
  /\ Broadcasts(OrderId(e), Forwarded(events'[e]) \o <<"PENDING">>)
  /\ UNCHANGED sessionVars

\* Faulty variant: of the events of a stage only the last is broadcast.
Advance_LastEvent(e) ==
  /\ Engine!Stage(e)
  /\ Broadcasts(OrderId(e), Forwarded(<<Last(events'[e])>>))
  /\ UNCHANGED sessionVars

\* A stage of an execution ends; its events are broadcast as they are emitted.
Advance(e) ==
  /\ Engine!Stage(e)
  /\ Broadcasts(OrderId(e),
       Forwarded(SubSeq(events'[e], Len(events[e]) + 1, Len(events'[e]))))
  /\ UNCHANGED sessionVars

\* GET /api/orders/:orderId finds what getExecution has under that key.
Found(o) == o \in executions

-----------------------------------------------------------------------------
(* Clients.  What was told before a subscription ended is forgotten.       *)

Forget == told' = [o \in Orders |-> [c \in Clients |->
            IF c \in subscribers'[o] THEN told[o][c] ELSE <<>>]]
ForgetBefore == before' = [o \in Orders |-> [c \in Clients |->
            IF c \in subscribers'[o] THEN before[o][c] ELSE 0]]

\* A client connects to /ws.
Connect(c) ==
  /\ Manager!RegisterClient(c)
  /\ UNCHANGED <<engineVars, told, before>>

\* Faulty variant: clients choose the ids of orders themselves.
Subscribe_AnyOrder(c, e) ==
  /\ Manager!Subscribe(c, OrderId(e))
  /\ Forget
  /\ before' = [before EXCEPT ![OrderId(e)][c] = Len(Forwarded(events[e]))]
  /\ UNCHANGED engineVars

\* A client subscribes to an order that was posted.
Subscribe(c, e) ==
  /\ pc[e] # "idle"
  /\ Manager!Subscribe(c, OrderId(e))
  /\ Forget
  /\ before' = [before EXCEPT ![OrderId(e)][c] =
       IF c \in subscribers'[OrderId(e)] \ subscribers[OrderId(e)]
       THEN Len(Forwarded(events[e])) ELSE @]
  /\ UNCHANGED engineVars

Unsubscribe(c, e) ==
  /\ Manager!Unsubscribe(c, OrderId(e))
  /\ Forget /\ ForgetBefore
  /\ UNCHANGED engineVars

\* The other messages and the close event of a client.
ClientStep(c) ==
  /\ \/ Manager!SocketCloses(c)
     \/ Manager!PeerVanishes(c)
     \/ Manager!UnknownMessage(c)
     \/ Manager!UnparsableMessage(c)
     \/ Manager!Pong(c)
  /\ Forget /\ ForgetBefore
  /\ UNCHANGED engineVars

\* The heartbeat interval of a client.
Heartbeat(c) ==
  /\ Manager!Heartbeat(c)
  /\ Forget /\ ForgetBefore
  /\ UNCHANGED engineVars

-----------------------------------------------------------------------------
Init ==
  /\ Engine!Init
  /\ Manager!Init
  /\ told = [o \in Orders |-> [c \in Clients |-> <<>>]]
  /\ before = [o \in Orders |-> [c \in Clients |-> 0]]

Next ==
  \/ \E e \in Executions : PostOrder(e)
  \/ \E e \in Executions : Advance(e)
  \/ \E c \in Clients : Connect(c)
  \/ \E c \in Clients, e \in Executions : Subscribe(c, e)
  \/ \E c \in Clients, e \in Executions : Unsubscribe(c, e)
  \/ \E c \in Clients : ClientStep(c)
  \/ \E c \in Clients : Heartbeat(c)

Spec == Init /\ [][Next]_vars

\* Timers fire: those of the stages of an execution and those of the heartbeat.
FairSpec ==
  /\ Spec
  /\ \A e \in Executions : WF_engineVars(Engine!Stage(e))
  /\ \A c \in Clients : WF_sessionVars(Manager!Heartbeat(c))

TypeOK ==
  /\ Engine!TypeOK
  /\ Manager!TypeOK
  /\ told \in [Orders -> [Clients -> Seq(Engine!EventTypes)]]
  /\ before \in [Orders -> [Clients -> Nat]]

-----------------------------------------------------------------------------
(* Safety.                                                                 *)

Broadcast(e) == Forwarded(events[e])

(* A client with an open socket has got everything the engine emitted about *)
(* an order since the client subscribed to it, in order and once, whatever *)
(* subscriptions, heartbeats and other orders do meanwhile; what was       *)
(* emitted before is never sent again.                                     *)
NothingMissedSinceSubscribing ==
  \A e \in Executions : \A c \in Hearers(OrderId(e)) :
    told[OrderId(e)][c] =
      SubSeq(Broadcast(e), before[OrderId(e)][c] + 1, Len(Broadcast(e)))

(* The last message a client got about an order tells its present state:   *)
(* the second PENDING of the POST route, which comes after ROUTING, reaches*)
(* nobody, and an order that is building is never reported as less.        *)
SubscribersKnowTheState ==
  \A e \in Executions : \A c \in Hearers(OrderId(e)) :
    LET heard == told[OrderId(e)][c]
    IN  heard # <<>> => StatusOf(Last(heard)) = state[e]

Outcomes == {"confirmation", "error"}

Feed == INSTANCE OrderFeed WITH
          Followed  <- Executions, Readers <- Clients, Closing <- Outcomes,
          log       <- [e \in Executions |-> Broadcast(e)],
          following <- [e \in Executions |-> subscribers[OrderId(e)]],
          read      <- [e \in Executions |-> told[OrderId(e)]]

(* Engine, routes, handlers and manager together are the feed OrderFeed    *)
(* describes: what a stage emits reaches all subscribers of its order in   *)
(* one piece, nothing follows an outcome, and no close event, heartbeat or *)
(* broadcast takes a subscription from anyone but the client it is about.  *)
ImplementsOrderFeed == Feed!FeedSpec

-----------------------------------------------------------------------------
(* Liveness.                                                               *)

(* A client that subscribes to an order under way hears how it ends, unless *)
(* it unsubscribes, closes or is dropped before.                           *)
SubscribersHearTheOutcome ==
  \A e \in Executions, c \in Clients :
    c \in Hearers(OrderId(e)) /\ state[e] \notin Engine!Settled ~>
      \/ c \notin Hearers(OrderId(e))
      \/ told[OrderId(e)][c] # <<>> /\ Last(told[OrderId(e)][c]) \in Outcomes

(* A client whose peer has vanished is dropped, with or without            *)
(* subscriptions and whatever is sent to it meanwhile, unless a ping threw *)
(* and stopped its interval.                                               *)
SilentClientsAreDropped ==
  \A c \in Clients : c \in silent ~> c \notin clients \/ c \notin ticking

-----------------------------------------------------------------------------
(* What a document says and the code does not do.                          *)

(* API.md: GET /orders/:orderId retrieves the current status of an order,  *)
(* by the id that POST has returned.                                       *)
OrdersAreFound == \A e \in Executions : pc[e] # "idle" => Found(OrderId(e))
=============================================================================
