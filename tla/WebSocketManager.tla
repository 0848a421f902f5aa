-------------------------- MODULE WebSocketManager --------------------------
(***************************************************************************)
(* WebSocketManager: client sessions, the two-way index of subscriptions   *)
(* (by session and by order), broadcasts with a shared sequence number,    *)
(* and one heartbeat interval per client.                                  *)
(*                                                                         *)
(* Every handler runs to completion on one thread, so each is an action.   *)
(* What interleaves: messages, pongs and close events of the sockets,      *)
(* which go on arriving after a client was dropped, the heartbeat timers,  *)
(* broadcasts, and reset.                                                  *)
(***************************************************************************)
EXTENDS Integers, FiniteSets, FiniteSetsExt

CONSTANTS
  Clients,                    \* client ids (uuids), one per connection
  Orders,                     \* order ids a client may name
  MaxSubscriptionsPerClient,
  PingMayThrow,               \* may socket.ping throw?
  ResetAllowed,               \* is reset called while clients are connected?
  MaxSequence                 \* bound: numbers from here on are not told apart

ASSUME ManagerAssumption ==
  /\ IsFiniteSet(Clients)
  /\ IsFiniteSet(Orders)
  /\ MaxSubscriptionsPerClient \in Nat
  /\ PingMayThrow \in BOOLEAN
  /\ ResetAllowed \in BOOLEAN
  /\ MaxSequence \in Nat

VARIABLES
  clients,             \* keys of the map of sessions
  sessionSubscriptions,\* orders in session.subscriptions
  isAlive,             \* session.isAlive
  topics,              \* keys of the map `subscriptions'
  subscribers,         \* its values: the clients subscribed to an order
  heartbeatIntervals,  \* keys of the map of intervals
  ticking,             \* clients whose interval is live
  totalConnections, activeConnections, totalSubscriptions,
  messageSequence,
  pingThrew,           \* clients with a session whose ping threw (history)
  readyState,          \* state of each client's socket
  silent,              \* clients whose peer has vanished without closing
  lastReceived         \* number of the last message a client received

sessionVars == <<clients, sessionSubscriptions, isAlive>>
indexVars   == <<topics, subscribers>>
timerVars   == <<heartbeatIntervals, ticking, pingThrew>>
statVars    == <<totalConnections, activeConnections, totalSubscriptions>>
socketVars  == <<readyState, silent, lastReceived>>
vars == <<sessionVars, indexVars, timerVars, statVars, messageSequence, socketVars>>

Nothing == -1

TypeOK ==
  /\ clients \subseteq Clients
  /\ sessionSubscriptions \in [Clients -> SUBSET Orders]
  /\ isAlive \in [Clients -> BOOLEAN]
  /\ topics \subseteq Orders
  /\ subscribers \in [Orders -> SUBSET Clients]
  /\ heartbeatIntervals \subseteq Clients
  /\ ticking \subseteq Clients
  /\ pingThrew \subseteq Clients
  /\ totalConnections \in Nat /\ activeConnections \in Nat /\ totalSubscriptions \in Nat
  /\ messageSequence \in 0 .. MaxSequence
  /\ readyState \in [Clients -> {"none", "open", "closing", "closed"}]
  /\ silent \subseteq Clients
  /\ lastReceived \in [Clients -> {Nothing} \cup 0 .. MaxSequence]

Init ==
  /\ clients = {}
  /\ sessionSubscriptions = [c \in Clients |-> {}]
  /\ isAlive = [c \in Clients |-> FALSE]
  /\ topics = {}
  /\ subscribers = [o \in Orders |-> {}]
  /\ heartbeatIntervals = {}
  /\ ticking = {} /\ pingThrew = {}
  /\ totalConnections = 0 /\ activeConnections = 0 /\ totalSubscriptions = 0
  /\ messageSequence = 0
  /\ readyState = [c \in Clients |-> "none"]
  /\ silent = {}
  /\ lastReceived = [c \in Clients |-> Nothing]

-----------------------------------------------------------------------------
(* Sending.                                                                *)

\* messageSequence++, whose numbers are told apart up to MaxSequence.
NextNumber(n) == IF n < MaxSequence THEN n + 1 ELSE n

(* A message takes the next number and is sent to the clients of `to' that *)
(* have a session and an open socket (sendMessage); to others it is lost.  *)
Send(to) ==
  /\ messageSequence' = NextNumber(messageSequence)
  /\ lastReceived' = [c \in Clients |->
       IF c \in to \cap clients /\ readyState[c] = "open"
       THEN messageSequence ELSE lastReceived[c]]

\* sendAck and sendError.
Reply(c) == Send({c})

-----------------------------------------------------------------------------
(* Connections.                                                            *)

\* registerClient, for a socket that has just been opened.
RegisterClient(c) ==
  /\ readyState[c] = "none"
  /\ readyState' = [readyState EXCEPT ![c] = "open"]
  /\ clients' = clients \cup {c}
  /\ isAlive' = [isAlive EXCEPT ![c] = TRUE]
  /\ totalConnections' = totalConnections + 1
  /\ activeConnections' = activeConnections + 1
  /\ heartbeatIntervals' = heartbeatIntervals \cup {c}
  /\ ticking' = ticking \cup {c}
  /\ UNCHANGED <<sessionSubscriptions, indexVars, totalSubscriptions, pingThrew,
                 messageSequence, silent, lastReceived>>

\* Faulty variant: the index by order is left to be cleaned up later.
ForgetClient_KeepsTopics(c) ==
  /\ clients' = clients \ {c}
  /\ heartbeatIntervals' = heartbeatIntervals \ {c}
  /\ UNCHANGED <<topics, subscribers>>
  /\ sessionSubscriptions' = [sessionSubscriptions EXCEPT ![c] = {}]
  /\ totalSubscriptions' = totalSubscriptions - Cardinality(sessionSubscriptions[c])
  /\ activeConnections' = activeConnections - 1
  /\ pingThrew' = pingThrew \ {c}

\* Faulty variant: only one subscription is taken off the total.
ForgetClient_CountsOne(c) ==
  /\ clients' = clients \ {c}
  /\ heartbeatIntervals' = heartbeatIntervals \ {c}
  /\ subscribers' = [o \in Orders |-> subscribers[o] \ {c}]
  /\ topics' = {o \in topics : o \in sessionSubscriptions[c] => subscribers'[o] # {}}
  /\ sessionSubscriptions' = [sessionSubscriptions EXCEPT ![c] = {}]
  /\ totalSubscriptions' = totalSubscriptions - 1
  /\ activeConnections' = activeConnections - 1
  /\ pingThrew' = pingThrew \ {c}

\* Faulty variant: the interval stays in the map.
ForgetClient_KeepsInterval(c) ==
  /\ clients' = clients \ {c}
  /\ heartbeatIntervals' = heartbeatIntervals
  /\ subscribers' = [o \in Orders |-> subscribers[o] \ {c}]
  /\ topics' = {o \in topics : subscribers'[o] # {}}
  /\ sessionSubscriptions' = [sessionSubscriptions EXCEPT ![c] = {}]
  /\ totalSubscriptions' = totalSubscriptions - Cardinality(sessionSubscriptions[c])
  /\ activeConnections' = activeConnections - 1
  /\ pingThrew' = pingThrew \ {c}

(* handleClientDisconnect for a client with a session: the session, its    *)
(* entries in the index and its interval go, the socket is left alone.     *)
ForgetClient(c) ==
  /\ clients' = clients \ {c}
  /\ heartbeatIntervals' = heartbeatIntervals \ {c}
  /\ subscribers' = [o \in Orders |->
       IF o \in sessionSubscriptions[c] THEN subscribers[o] \ {c} ELSE subscribers[o]]
  /\ topics' = {o \in topics : o \in sessionSubscriptions[c] => subscribers'[o] # {}}
  /\ sessionSubscriptions' = [sessionSubscriptions EXCEPT ![c] = {}]
  /\ totalSubscriptions' = totalSubscriptions - Cardinality(sessionSubscriptions[c])
  /\ activeConnections' = activeConnections - 1
  /\ pingThrew' = pingThrew \ {c}

\* The close event of a socket; nothing is left to do for a dropped client.
SocketCloses(c) ==
  /\ readyState[c] \in {"open", "closing"} /\ c \notin silent
  /\ readyState' = [readyState EXCEPT ![c] = "closed"]
  /\ \/ /\ c \in clients
        /\ ForgetClient(c)
        /\ ticking' = IF c \in heartbeatIntervals THEN ticking \ {c} ELSE ticking
     \/ /\ c \notin clients
        /\ UNCHANGED <<clients, sessionSubscriptions, indexVars, timerVars,
                       activeConnections, totalSubscriptions>>
  /\ UNCHANGED <<isAlive, totalConnections, messageSequence,
                 silent, lastReceived>>

\* disconnectClient: the session stays until the close event.
DisconnectClient(c) ==
  /\ c \in clients
  /\ readyState[c] = "open"
  /\ readyState' = [readyState EXCEPT ![c] = "closing"]
  /\ UNCHANGED <<sessionVars, indexVars, timerVars, statVars, messageSequence,
                 silent, lastReceived>>

\* The network or the peer dies: no message, pong or close event any more.
PeerVanishes(c) ==
  /\ readyState[c] \in {"open", "closing"}
  /\ silent' = silent \cup {c}
  /\ UNCHANGED <<sessionVars, indexVars, timerVars, statVars, messageSequence,
                 readyState, lastReceived>>

-----------------------------------------------------------------------------
(* Messages.                                                               *)

Talks(c) == readyState[c] \in {"open", "closing"} /\ c \notin silent

HasRoom(c) == Cardinality(sessionSubscriptions[c]) < MaxSubscriptionsPerClient

\* Faulty variant: the session of a dropped client is not missed.
AddSubscription_Unchecked(c, o) ==
  /\ HasRoom(c)
  /\ o \notin sessionSubscriptions[c]
  /\ sessionSubscriptions' = [sessionSubscriptions EXCEPT ![c] = @ \cup {o}]
  /\ topics' = topics \cup {o}
  /\ subscribers' = [subscribers EXCEPT ![o] = @ \cup {c}]
  /\ totalSubscriptions' = totalSubscriptions + 1

AddSubscription(c, o) ==
  /\ c \in clients
  /\ HasRoom(c)
  /\ o \notin sessionSubscriptions[c]
  /\ sessionSubscriptions' = [sessionSubscriptions EXCEPT ![c] = @ \cup {o}]
  /\ topics' = topics \cup {o}
  /\ subscribers' = [subscribers EXCEPT ![o] = @ \cup {c}]
  /\ totalSubscriptions' = totalSubscriptions + 1

(* handleSubscribe.  A full session gets an error, even for an order it    *)
(* has subscribed to; otherwise a second subscription is acknowledged      *)
(* again.  The message of a client without a session is ignored.           *)
Subscribe(c, o) ==
  /\ Talks(c)
  /\ \/ AddSubscription(c, o)
     \/ /\ c \in clients
        /\ ~HasRoom(c) \/ o \in sessionSubscriptions[c]
        /\ UNCHANGED <<sessionSubscriptions, indexVars, totalSubscriptions>>
  /\ Reply(c)
  /\ UNCHANGED <<clients, isAlive, timerVars, totalConnections,
                 activeConnections, readyState, silent>>

\* handleUnsubscribe: without a subscription there is no answer.
Unsubscribe(c, o) ==
  /\ Talks(c)
  /\ c \in clients
  /\ o \in sessionSubscriptions[c]
  /\ sessionSubscriptions' = [sessionSubscriptions EXCEPT ![c] = @ \ {o}]
  /\ subscribers' = [subscribers EXCEPT ![o] = @ \ {c}]
  /\ topics' = IF subscribers'[o] = {} THEN topics \ {o} ELSE topics
  /\ totalSubscriptions' = totalSubscriptions - 1
  /\ Reply(c)
  /\ UNCHANGED <<clients, isAlive, timerVars, totalConnections,
                 activeConnections, readyState, silent>>

\* handleMessage: any other type, 'heartbeat' included, is answered with an error.
UnknownMessage(c) ==
  /\ Talks(c)
  /\ c \in clients
  /\ Reply(c)
  /\ UNCHANGED <<sessionVars, indexVars, timerVars, statVars, readyState, silent>>

(* Text that is no JSON is answered without a look for the session; for a  *)
(* dropped client the number is used up and nothing is sent.               *)
UnparsableMessage(c) ==
  /\ Talks(c)
  /\ Reply(c)
  /\ UNCHANGED <<sessionVars, indexVars, timerVars, statVars, readyState, silent>>

(* The five broadcasts: one message with one number for all subscribers of *)
(* the order, and no number if there are none.                             *)
Broadcast(o) ==
  /\ o \in topics
  /\ subscribers[o] # {}
  /\ Send(subscribers[o])
  /\ UNCHANGED <<sessionVars, indexVars, timerVars, statVars, readyState, silent>>

-----------------------------------------------------------------------------
(* Heartbeats.                                                             *)

\* Faulty variant: only the connections with subscriptions are checked.
HeartbeatDrops_SkipsIdle(c) ==
  /\ c \in ticking
  /\ c \in clients
  /\ sessionSubscriptions[c] # {}
  /\ ~isAlive[c]
  /\ ForgetClient(c)
  /\ ticking' = ticking \ {c}
  /\ UNCHANGED <<isAlive, totalConnections, messageSequence, socketVars>>

(* The interval of a client that has not answered the last ping: the       *)
(* client is dropped; its socket is not closed.                            *)
HeartbeatDrops(c) ==
  /\ c \in ticking
  /\ c \in clients
  /\ ~isAlive[c]
  /\ ForgetClient(c)
  /\ ticking' = ticking \ {c}
  /\ UNCHANGED <<isAlive, totalConnections, messageSequence, socketVars>>

(* The interval of a client that has answered: it is pinged if its socket  *)
(* is open, and a number is used up for a message that is not sent.  If    *)
(* ping throws the interval is cleared and its key stays.                  *)
HeartbeatPings(c) ==
  /\ c \in ticking
  /\ c \in clients
  /\ isAlive[c]
  /\ isAlive' = [isAlive EXCEPT ![c] = FALSE]
  /\ messageSequence' = NextNumber(messageSequence)
  /\ \/ UNCHANGED <<ticking, pingThrew>>
     \/ /\ PingMayThrow
        /\ readyState[c] = "open"
        /\ ticking' = ticking \ {c}
        /\ pingThrew' = pingThrew \cup {c}
  /\ UNCHANGED <<clients, sessionSubscriptions, indexVars, heartbeatIntervals, statVars,
                 socketVars>>

\* A pong; that of a dropped client is ignored.
Pong(c) ==
  /\ Talks(c)
  /\ c \in clients
  /\ isAlive' = [isAlive EXCEPT ![c] = TRUE]
  /\ UNCHANGED <<clients, sessionSubscriptions, indexVars, timerVars, statVars,
                 messageSequence, socketVars>>

\* Faulty variant: the statistics and the number start over, sessions stay.
Reset_KeepsSessions ==
  /\ ResetAllowed
  /\ totalConnections' = 0
  /\ messageSequence' = 0
  /\ UNCHANGED <<sessionVars, indexVars, timerVars, activeConnections,
                 totalSubscriptions, socketVars>>

(* reset: every socket is asked to close and everything is forgotten; the  *)
(* close events that follow find no session.                               *)
Reset ==
  /\ ResetAllowed
  /\ readyState' = [c \in Clients |->
       IF c \in clients /\ readyState[c] = "open" THEN "closing" ELSE readyState[c]]
  /\ ticking' = ticking \ heartbeatIntervals
  /\ pingThrew' = {}
  /\ clients' = {} /\ topics' = {} /\ heartbeatIntervals' = {}
  /\ sessionSubscriptions' = [c \in Clients |-> {}]
  /\ subscribers' = [o \in Orders |-> {}]
  /\ totalConnections' = 0 /\ activeConnections' = 0 /\ totalSubscriptions' = 0
  /\ messageSequence' = 0
  /\ UNCHANGED <<isAlive, silent, lastReceived>>

\* The interval of a client fires.
Heartbeat(c) == HeartbeatDrops(c) \/ HeartbeatPings(c)

-----------------------------------------------------------------------------
Next ==
  \/ \E c \in Clients : RegisterClient(c)
  \/ \E c \in Clients : SocketCloses(c)
  \/ \E c \in Clients : DisconnectClient(c)
  \/ \E c \in Clients : PeerVanishes(c)
  \/ \E c \in Clients, o \in Orders : Subscribe(c, o)
  \/ \E c \in Clients, o \in Orders : Unsubscribe(c, o)
  \/ \E c \in Clients : UnknownMessage(c)
  \/ \E c \in Clients : UnparsableMessage(c)
  \/ \E o \in Orders : Broadcast(o)
  \/ \E c \in Clients : HeartbeatDrops(c)
  \/ \E c \in Clients : HeartbeatPings(c)
  \/ \E c \in Clients : Pong(c)
  \/ Reset

Spec == Init /\ [][Next]_vars

-----------------------------------------------------------------------------
(* Safety.                                                                 *)

(* The two indexes say the same: a client gets the broadcasts of an order  *)
(* exactly if its session says it is subscribed, only clients with a       *)
(* session are indexed, and no order is kept without a subscriber.         *)
SubscriptionIndexesAgree ==
  /\ \A o \in Orders, c \in Clients :
       c \in subscribers[o] <=> c \in clients /\ o \in sessionSubscriptions[c]
  /\ topics = {o \in Orders : subscribers[o] # {}}

Subscriptions == {s \in Clients \X Orders : s[1] \in clients /\ s[2] \in sessionSubscriptions[s[1]]}

(* The statistics count what there is: a close event after a dropped       *)
(* heartbeat, a second subscription or a reset counts nothing twice.       *)
StatsMatchSessions ==
  /\ activeConnections = Cardinality(clients)
  /\ totalSubscriptions = Cardinality(Subscriptions)

\* No order of messages brings a session above its limit of subscriptions.
SubscriptionLimit ==
  \A c \in Clients : Cardinality(sessionSubscriptions[c]) <= MaxSubscriptionsPerClient

(* Every client with a session is watched by a live heartbeat interval     *)
(* until a ping to it throws, and no interval outlives its client, however *)
(* it goes: the branch that stops the interval of an unknown client is     *)
(* never needed.  After a throw the client stays with a dead interval.     *)
ClientsAreWatched ==
  /\ heartbeatIntervals = clients
  /\ ticking = clients \ pingThrew

-----------------------------------------------------------------------------
(* What a step may never do.                                               *)

Dropped(c) == readyState[c] # "none" /\ c \notin clients

(* A client that was dropped or reset stays out, though its socket may be  *)
(* open and its messages, pongs and its close event still arrive: it never *)
(* gets another message and is never subscribed again.                     *)
DroppedStaysOut ==
  [][\A c \in Clients : Dropped(c) =>
       /\ Dropped(c)'
       /\ lastReceived'[c] = lastReceived[c]
       /\ \A o \in Orders : c \notin subscribers'[o]]_vars

(* The numbers a client sees only grow, over replies and broadcasts of all *)
(* its orders, even if the manager starts counting again after a reset.    *)
NumbersGrow ==
  [][\A c \in Clients : lastReceived'[c] # lastReceived[c] =>
       lastReceived'[c] > lastReceived[c]]_vars
=============================================================================
