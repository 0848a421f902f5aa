----------------------- MODULE WebSocketManagerProofs -----------------------
(***************************************************************************)
(* Theorems about WebSocketManager, for every set of clients and orders    *)
(* and every configuration the assumption of that module allows.           *)
(***************************************************************************)
EXTENDS WebSocketManager, FiniteSetTheorems, TLAPS

ReadyStates == {"none", "open", "closing", "closed"}

\* The types of TypeOK but for the counters that are decreased, which stay
\* natural numbers only because they count something.
Types ==
  /\ clients \subseteq Clients
  /\ sessionSubscriptions \in [Clients -> SUBSET Orders]
  /\ isAlive \in [Clients -> BOOLEAN]
  /\ topics \subseteq Orders
  /\ subscribers \in [Orders -> SUBSET Clients]
  /\ heartbeatIntervals \subseteq Clients
  /\ ticking \subseteq Clients
  /\ pingThrew \subseteq Clients
  /\ totalConnections \in Nat
  /\ messageSequence \in 0 .. MaxSequence
  /\ readyState \in [Clients -> ReadyStates]
  /\ silent \subseteq Clients
  /\ lastReceived \in [Clients -> {Nothing} \cup 0 .. MaxSequence]

LEMMA SendType ==
  ASSUME Types, NEW to, Send(to)
  PROVE  /\ messageSequence' \in 0 .. MaxSequence
         /\ lastReceived' \in [Clients -> {Nothing} \cup 0 .. MaxSequence]
<1>1. messageSequence' \in 0 .. MaxSequence
  BY ManagerAssumption DEF Types, Send, NextNumber
<1>2. lastReceived' \in [Clients -> {Nothing} \cup 0 .. MaxSequence]
  BY DEF Types, Send
<1>3. QED
  BY <1>1, <1>2

LEMMA ForgetType ==
  ASSUME Types, NEW c \in Clients, ForgetClient(c)
  PROVE  /\ clients' \subseteq Clients
         /\ heartbeatIntervals' \subseteq Clients
         /\ pingThrew' \subseteq Clients
         /\ subscribers' \in [Orders -> SUBSET Clients]
         /\ topics' \subseteq Orders
         /\ sessionSubscriptions' \in [Clients -> SUBSET Orders]
BY DEF Types, ForgetClient

\* Each action preserves the types of the state.
LEMMA TypesStep == Types /\ [Next]_vars => Types'
<1> SUFFICES ASSUME Types, [Next]_vars PROVE Types'
  OBVIOUS
<1> USE DEF sessionVars, indexVars, timerVars, statVars, socketVars
<1>1. ASSUME NEW c \in Clients, RegisterClient(c) PROVE Types'
  BY <1>1 DEF Types, RegisterClient, ReadyStates
<1>2. ASSUME NEW c \in Clients, SocketCloses(c) PROVE Types'
  <2>1. CASE c \in clients
    BY <1>2, <2>1, ForgetType DEF Types, SocketCloses, ReadyStates
  <2>2. CASE c \notin clients
    BY <1>2, <2>2 DEF Types, SocketCloses, ReadyStates
  <2>3. QED
    BY <2>1, <2>2
<1>3. ASSUME NEW c \in Clients, DisconnectClient(c) PROVE Types'
  BY <1>3 DEF Types, DisconnectClient, ReadyStates
<1>4. ASSUME NEW c \in Clients, PeerVanishes(c) PROVE Types'
  BY <1>4 DEF Types, PeerVanishes
<1>5. ASSUME NEW c \in Clients, NEW o \in Orders, Subscribe(c, o) PROVE Types'
  <2>1. Send({c})
    BY <1>5 DEF Subscribe, Reply
  <2>2. /\ topics' \subseteq Orders
        /\ subscribers' \in [Orders -> SUBSET Clients]
        /\ sessionSubscriptions' \in [Clients -> SUBSET Orders]
    BY <1>5 DEF Types, Subscribe, AddSubscription
  <2>3. QED
    BY <1>5, <2>1, <2>2, SendType DEF Types, Subscribe
<1>6. ASSUME NEW c \in Clients, NEW o \in Orders, Unsubscribe(c, o) PROVE Types'
  <2>1. Send({c})
    BY <1>6 DEF Unsubscribe, Reply
  <2>2. QED
    BY <1>6, <2>1, SendType DEF Types, Unsubscribe
<1>7. ASSUME NEW c \in Clients, UnknownMessage(c) \/ UnparsableMessage(c) PROVE Types'
  <2>1. Send({c})
    BY <1>7 DEF UnknownMessage, UnparsableMessage, Reply
  <2>2. QED
    BY <1>7, <2>1, SendType DEF Types, UnknownMessage, UnparsableMessage
<1>8. ASSUME NEW o \in Orders, Broadcast(o) PROVE Types'
  BY <1>8, SendType DEF Types, Broadcast
<1>9. ASSUME NEW c \in Clients, HeartbeatDrops(c) PROVE Types'
  BY <1>9, ForgetType DEF Types, HeartbeatDrops
<1>10. ASSUME NEW c \in Clients, HeartbeatPings(c) PROVE Types'
  BY <1>10, ManagerAssumption DEF Types, HeartbeatPings, NextNumber
<1>11. ASSUME NEW c \in Clients, Pong(c) PROVE Types'
  BY <1>11 DEF Types, Pong
<1>12. CASE Reset
  BY <1>12, ManagerAssumption DEF Types, Reset, ReadyStates
<1>13. CASE UNCHANGED vars
  BY <1>13 DEF Types, vars
<1>14. QED
  BY <1>1, <1>2, <1>3, <1>4, <1>5, <1>6, <1>7, <1>8, <1>9, <1>10, <1>11, <1>12, <1>13
  DEF Next

LEMMA InitTypes == Init => Types
BY ManagerAssumption DEF Init, Types, ReadyStates, Nothing

-----------------------------------------------------------------------------
(* The two indexes.                                                        *)

\* A client without a session has no subscriptions, and had a socket before a session.
SessionsHaveSockets ==
  /\ \A c \in Clients \ clients : sessionSubscriptions[c] = {}
  /\ \A c \in clients : readyState[c] # "none"

IndexInv == Types /\ SessionsHaveSockets /\ SubscriptionIndexesAgree

LEMMA ForgetKeepsIndexes ==
  ASSUME IndexInv, NEW c \in Clients, ForgetClient(c)
  PROVE  /\ SubscriptionIndexesAgree'
         /\ \A d \in Clients \ clients' : sessionSubscriptions'[d] = {}
<1> USE DEF IndexInv, Types, ForgetClient
<1>1. \A o \in Orders : subscribers'[o] = subscribers[o] \ {c}
  BY DEF SubscriptionIndexesAgree
<1>2. \A d \in Clients : sessionSubscriptions'[d] = IF d = c THEN {} ELSE sessionSubscriptions[d]
  OBVIOUS
<1>3. \A o \in Orders, d \in Clients :
        d \in subscribers'[o] <=> d \in clients' /\ o \in sessionSubscriptions'[d]
  BY <1>1, <1>2 DEF SubscriptionIndexesAgree
<1>4. topics' = {o \in Orders : subscribers'[o] # {}}
  BY <1>1 DEF SubscriptionIndexesAgree
<1>5. \A d \in Clients \ clients' : sessionSubscriptions'[d] = {}
  BY <1>2 DEF SessionsHaveSockets
<1>6. QED
  BY <1>3, <1>4, <1>5 DEF SubscriptionIndexesAgree

LEMMA IndexUnchanged ==
  ASSUME IndexInv, UNCHANGED <<clients, sessionSubscriptions, indexVars>>,
         \A c \in clients : readyState'[c] # "none"
  PROVE  SessionsHaveSockets' /\ SubscriptionIndexesAgree'
BY DEF IndexInv, SessionsHaveSockets, SubscriptionIndexesAgree, indexVars

LEMMA IndexStep == IndexInv /\ [Next]_vars => IndexInv'
<1> SUFFICES ASSUME IndexInv, [Next]_vars
             PROVE  SessionsHaveSockets' /\ SubscriptionIndexesAgree'
  BY TypesStep DEF IndexInv
<1> DEFINE Goal == SessionsHaveSockets' /\ SubscriptionIndexesAgree'
<1> USE DEF sessionVars, indexVars, socketVars
<1>1. ASSUME NEW c \in Clients, RegisterClient(c) PROVE Goal
  <2>1. c \notin clients
    BY <1>1 DEF IndexInv, SessionsHaveSockets, RegisterClient
  <2>2. sessionSubscriptions[c] = {}
    BY <2>1 DEF IndexInv, SessionsHaveSockets
  <2>3. SessionsHaveSockets'
    BY <1>1 DEF IndexInv, Types, SessionsHaveSockets, RegisterClient
  <2>4. SubscriptionIndexesAgree'
    BY <1>1, <2>1, <2>2 DEF IndexInv, Types, SubscriptionIndexesAgree, RegisterClient
  <2>5. QED
    BY <2>3, <2>4
<1>2. ASSUME NEW c \in Clients, SocketCloses(c) PROVE Goal
  <2>1. \A d \in clients : readyState'[d] # "none"
    BY <1>2 DEF IndexInv, Types, SessionsHaveSockets, SocketCloses
  <2>2. CASE c \in clients
    <3>1. ForgetClient(c)
      BY <1>2, <2>2 DEF SocketCloses
    <3>2. QED
      BY <2>1, <3>1, ForgetKeepsIndexes DEF SessionsHaveSockets, ForgetClient
  <2>3. CASE c \notin clients
    BY <1>2, <2>1, <2>3, IndexUnchanged DEF SocketCloses
  <2>4. QED
    BY <2>2, <2>3
<1>3. ASSUME NEW c \in Clients, DisconnectClient(c) PROVE Goal
  BY <1>3, IndexUnchanged DEF IndexInv, Types, SessionsHaveSockets, DisconnectClient
<1>4. ASSUME NEW c \in Clients, NEW o \in Orders, Subscribe(c, o), AddSubscription(c, o)
      PROVE  Goal
  <2>1. c \in clients
    BY <1>4 DEF AddSubscription
  <2>2. \A d \in Clients : sessionSubscriptions'[d] =
          IF d = c THEN sessionSubscriptions[c] \cup {o} ELSE sessionSubscriptions[d]
    BY <1>4 DEF AddSubscription, IndexInv, Types
  <2>3. \A p \in Orders : subscribers'[p] =
          IF p = o THEN subscribers[o] \cup {c} ELSE subscribers[p]
    BY <1>4 DEF AddSubscription, IndexInv, Types
  <2>4. UNCHANGED <<clients, readyState>> /\ topics' = topics \cup {o}
    BY <1>4 DEF Subscribe, AddSubscription
  <2>5. SubscriptionIndexesAgree'
    BY <2>1, <2>2, <2>3, <2>4 DEF IndexInv, SubscriptionIndexesAgree
  <2>6. SessionsHaveSockets'
    BY <2>1, <2>2, <2>4 DEF IndexInv, SessionsHaveSockets
  <2>7. QED
    BY <2>5, <2>6
<1>5. ASSUME NEW c \in Clients, NEW o \in Orders, Subscribe(c, o), ~AddSubscription(c, o)
      PROVE  Goal
  BY <1>5, IndexUnchanged DEF Subscribe, IndexInv, SessionsHaveSockets
<1>6. ASSUME NEW c \in Clients, NEW o \in Orders, Unsubscribe(c, o) PROVE Goal
  <2>1. \A d \in Clients : sessionSubscriptions'[d] =
          IF d = c THEN sessionSubscriptions[c] \ {o} ELSE sessionSubscriptions[d]
    BY <1>6 DEF Unsubscribe, IndexInv, Types
  <2>2. \A p \in Orders : subscribers'[p] =
          IF p = o THEN subscribers[o] \ {c} ELSE subscribers[p]
    BY <1>6 DEF Unsubscribe, IndexInv, Types
  <2>3. /\ UNCHANGED <<clients, readyState>>
        /\ topics' = IF subscribers'[o] = {} THEN topics \ {o} ELSE topics
    BY <1>6 DEF Unsubscribe
  <2>4. o \in topics
    BY <1>6 DEF IndexInv, SubscriptionIndexesAgree, Unsubscribe
  <2>5. SubscriptionIndexesAgree'
    BY <2>1, <2>2, <2>3, <2>4 DEF IndexInv, SubscriptionIndexesAgree
  <2>6. SessionsHaveSockets'
    BY <2>1, <2>3 DEF IndexInv, SessionsHaveSockets
  <2>7. QED
    BY <2>5, <2>6
<1>7. ASSUME NEW c \in Clients, HeartbeatDrops(c) PROVE Goal
  <2>1. ForgetClient(c) /\ UNCHANGED readyState
    BY <1>7 DEF HeartbeatDrops
  <2>2. QED
    BY <2>1, ForgetKeepsIndexes DEF IndexInv, SessionsHaveSockets, ForgetClient
<1>8. CASE Reset
  <2>1. /\ clients' = {} /\ topics' = {}
        /\ sessionSubscriptions' = [c \in Clients |-> {}]
        /\ subscribers' = [o \in Orders |-> {}]
    BY <1>8 DEF Reset
  <2>2. QED
    BY <2>1 DEF SessionsHaveSockets, SubscriptionIndexesAgree
<1>9. ASSUME UNCHANGED <<clients, sessionSubscriptions, indexVars, readyState>> PROVE Goal
  BY <1>9, IndexUnchanged DEF IndexInv, SessionsHaveSockets
<1>10. ASSUME NEW c \in Clients,
              \/ PeerVanishes(c) \/ UnknownMessage(c) \/ UnparsableMessage(c)
              \/ HeartbeatPings(c) \/ Pong(c)
       PROVE  Goal
  BY <1>9, <1>10 DEF PeerVanishes, UnknownMessage, UnparsableMessage, HeartbeatPings, Pong
<1>11. ASSUME NEW o \in Orders, Broadcast(o) PROVE Goal
  BY <1>9, <1>11 DEF Broadcast
<1>12. CASE UNCHANGED vars
  BY <1>9, <1>12 DEF vars
<1>13. QED
  BY <1>1, <1>2, <1>3, <1>4, <1>5, <1>6, <1>7, <1>8, <1>10, <1>11, <1>12 DEF Next

LEMMA InitIndex == Init => IndexInv
BY InitTypes DEF Init, IndexInv, SessionsHaveSockets, SubscriptionIndexesAgree

(* The two indexes of subscriptions agree in every reachable state, for    *)
(* any number of clients and orders: whichever of unsubscribe, close       *)
(* event, heartbeat and reset removes an entry, it removes it from both.   *)
THEOREM IndexesAgree == Spec => []SubscriptionIndexesAgree
<1>1. IndexInv => SubscriptionIndexesAgree
  BY DEF IndexInv
<1>2. QED
  BY InitIndex, IndexStep, <1>1, PTL DEF Spec

-----------------------------------------------------------------------------
(* The statistics.                                                         *)

CountInv == IndexInv /\ StatsMatchSessions

LEMMA SubscriptionsFinite ==
  ASSUME Types
  PROVE  IsFiniteSet(clients) /\ IsFiniteSet(Subscriptions)
<1>1. IsFiniteSet(clients)
  BY ManagerAssumption, FS_Subset DEF Types
<1>2. IsFiniteSet(Clients \X Orders)
  BY ManagerAssumption, FS_Product
<1>3. Subscriptions \in SUBSET (Clients \X Orders)
  BY DEF Subscriptions
<1>4. QED
  BY <1>1, <1>2, <1>3, FS_Subset

LEMMA ForgetCounts ==
  ASSUME CountInv, NEW c \in clients, ForgetClient(c)
  PROVE  StatsMatchSessions'
<1> DEFINE Own == {c} \X sessionSubscriptions[c]
<1>1. c \in Clients
  BY DEF CountInv, IndexInv, Types
<1>2. Cardinality(clients \ {c}) = Cardinality(clients) - 1
  BY SubscriptionsFinite, FS_RemoveElement DEF CountInv, IndexInv
<1>3. sessionSubscriptions[c] \in SUBSET Orders
  BY <1>1 DEF CountInv, IndexInv, Types
<1>4. IsFiniteSet(sessionSubscriptions[c])
  BY <1>3, ManagerAssumption, FS_Subset
<1>5. Cardinality(Own) = Cardinality(sessionSubscriptions[c])
  <2>1. IsFiniteSet({c}) /\ Cardinality({c}) = 1
    BY FS_Singleton
  <2>2. Cardinality(Own) = 1 * Cardinality(sessionSubscriptions[c])
    BY <2>1, <1>4, FS_Product
  <2>3. Cardinality(sessionSubscriptions[c]) \in Nat
    BY <1>4, FS_CardinalityType
  <2>4. QED
    BY <2>2, <2>3
<1>6. Subscriptions \cap Own = Own
  BY <1>1, <1>3 DEF Subscriptions
<1>7. Subscriptions' = Subscriptions \ Own
  <2>1. \A d \in Clients : sessionSubscriptions'[d] = IF d = c THEN {} ELSE sessionSubscriptions[d]
    BY DEF ForgetClient, CountInv, IndexInv, Types
  <2>2. clients' = clients \ {c}
    BY DEF ForgetClient
  <2>3. \A s \in Clients \X Orders :
          s \in Subscriptions' <=> s \in Subscriptions /\ s \notin Own
    BY <2>1, <2>2 DEF Subscriptions
  <2>4. Subscriptions' \subseteq Clients \X Orders /\ Subscriptions \subseteq Clients \X Orders
    BY DEF Subscriptions
  <2>5. QED
    BY <2>3, <2>4
<1>8. Cardinality(Subscriptions') = Cardinality(Subscriptions) - Cardinality(Own)
  <2> HIDE DEF Own
  <2>1. IsFiniteSet(Subscriptions)
    BY SubscriptionsFinite DEF CountInv, IndexInv
  <2>2. Cardinality(Subscriptions \ Own) =
          Cardinality(Subscriptions) - Cardinality(Subscriptions \cap Own)
    BY <2>1, FS_Difference
  <2>3. QED
    BY <2>2, <1>6, <1>7
<1>9. QED
  BY <1>2, <1>5, <1>8 DEF StatsMatchSessions, ForgetClient, CountInv

LEMMA CountUnchanged ==
  ASSUME CountInv, UNCHANGED <<clients, sessionSubscriptions, activeConnections, totalSubscriptions>>
  PROVE  StatsMatchSessions'
BY DEF CountInv, StatsMatchSessions, Subscriptions

LEMMA CountStep == CountInv /\ [Next]_vars => CountInv'
<1> SUFFICES ASSUME CountInv, [Next]_vars PROVE StatsMatchSessions'
  BY IndexStep DEF CountInv
<1> USE DEF sessionVars, statVars, socketVars
<1>1. ASSUME NEW c \in Clients, RegisterClient(c) PROVE StatsMatchSessions'
  <2>1. c \notin clients
    BY <1>1 DEF CountInv, IndexInv, SessionsHaveSockets, RegisterClient
  <2>2. Cardinality(clients') = Cardinality(clients) + 1
    BY <1>1, <2>1, SubscriptionsFinite, FS_AddElement DEF CountInv, IndexInv, RegisterClient
  <2>3. sessionSubscriptions[c] = {}
    BY <2>1 DEF CountInv, IndexInv, SessionsHaveSockets
  <2>4. Subscriptions' = Subscriptions
    BY <1>1, <2>3 DEF Subscriptions, RegisterClient
  <2>5. QED
    BY <1>1, <2>2, <2>4 DEF CountInv, StatsMatchSessions, RegisterClient
<1>2. ASSUME NEW c \in Clients, SocketCloses(c) PROVE StatsMatchSessions'
  BY <1>2, ForgetCounts, CountUnchanged DEF SocketCloses
<1>3. ASSUME NEW c \in Clients, NEW o \in Orders, Subscribe(c, o), AddSubscription(c, o)
      PROVE  StatsMatchSessions'
  <2>1. Subscriptions' = Subscriptions \cup {<<c, o>>}
    <3>1. UNCHANGED clients /\ c \in clients
      BY <1>3 DEF Subscribe, AddSubscription
    <3>2. \A d \in Clients : sessionSubscriptions'[d] =
            IF d = c THEN sessionSubscriptions[c] \cup {o} ELSE sessionSubscriptions[d]
      BY <1>3 DEF AddSubscription, CountInv, IndexInv, Types
    <3>3. \A s \in Clients \X Orders :
            s \in Subscriptions' <=> s \in Subscriptions \/ s = <<c, o>>
      BY <3>1, <3>2 DEF Subscriptions
    <3>4. Subscriptions' \subseteq Clients \X Orders /\ Subscriptions \subseteq Clients \X Orders
      BY DEF Subscriptions
    <3>5. QED
      BY <3>3, <3>4
  <2>2. <<c, o>> \notin Subscriptions
    BY <1>3 DEF AddSubscription, Subscriptions
  <2>3. Cardinality(Subscriptions') = Cardinality(Subscriptions) + 1
    BY <2>1, <2>2, SubscriptionsFinite, FS_AddElement DEF CountInv, IndexInv
  <2>4. QED
    BY <1>3, <2>3 DEF CountInv, StatsMatchSessions, AddSubscription, Subscribe
<1>4. ASSUME NEW c \in Clients, NEW o \in Orders, Subscribe(c, o), ~AddSubscription(c, o)
      PROVE  StatsMatchSessions'
  BY <1>4, CountUnchanged DEF Subscribe
<1>5. ASSUME NEW c \in Clients, NEW o \in Orders, Unsubscribe(c, o) PROVE StatsMatchSessions'
  <2>1. Subscriptions' = Subscriptions \ {<<c, o>>}
    BY <1>5 DEF Unsubscribe, Subscriptions, CountInv, IndexInv, Types
  <2>2. <<c, o>> \in Subscriptions
    BY <1>5 DEF Unsubscribe, Subscriptions
  <2>3. Cardinality(Subscriptions') = Cardinality(Subscriptions) - 1
    BY <2>1, <2>2, SubscriptionsFinite, FS_RemoveElement DEF CountInv, IndexInv
  <2>4. QED
    BY <1>5, <2>3 DEF CountInv, StatsMatchSessions, Unsubscribe
<1>6. ASSUME NEW c \in Clients, HeartbeatDrops(c) PROVE StatsMatchSessions'
  BY <1>6, ForgetCounts DEF HeartbeatDrops
<1>7. CASE Reset
  <2>1. /\ clients' = {} /\ activeConnections' = 0 /\ totalSubscriptions' = 0
    BY <1>7 DEF Reset
  <2>2. Subscriptions' = {}
    BY <2>1 DEF Subscriptions
  <2>3. QED
    BY <2>1, <2>2, FS_EmptySet DEF StatsMatchSessions
<1>8. ASSUME NEW c \in Clients,
              \/ DisconnectClient(c) \/ PeerVanishes(c) \/ UnknownMessage(c)
              \/ UnparsableMessage(c) \/ HeartbeatPings(c) \/ Pong(c)
      PROVE  StatsMatchSessions'
  BY <1>8, CountUnchanged
  DEF DisconnectClient, PeerVanishes, UnknownMessage, UnparsableMessage, HeartbeatPings, Pong
<1>9. ASSUME NEW o \in Orders, Broadcast(o) PROVE StatsMatchSessions'
  BY <1>9, CountUnchanged DEF Broadcast
<1>10. CASE UNCHANGED vars
  BY <1>10, CountUnchanged DEF vars
<1>11. QED
  BY <1>1, <1>2, <1>3, <1>4, <1>5, <1>6, <1>7, <1>8, <1>9, <1>10 DEF Next

LEMMA InitCount == Init => CountInv
<1> SUFFICES ASSUME Init PROVE StatsMatchSessions
  BY InitIndex DEF CountInv
<1>1. clients = {} /\ Subscriptions = {}
  BY DEF Init, Subscriptions
<1>2. QED
  BY <1>1, FS_EmptySet DEF Init, StatsMatchSessions

(* activeConnections and totalSubscriptions always count the sessions and  *)
(* their subscriptions: a client dropped by its heartbeat is not counted   *)
(* off again by its close event, and a reset leaves nothing to count.      *)
THEOREM StatsCorrect == Spec => []StatsMatchSessions
<1>1. CountInv => StatsMatchSessions
  BY DEF CountInv
<1>2. QED
  BY InitCount, CountStep, <1>1, PTL DEF Spec

(* The state always has its types; the counters that are decreased stay    *)
(* natural numbers because they are cardinalities.                         *)
THEOREM TypeCorrect == Spec => []TypeOK
<1>1. ASSUME CountInv PROVE TypeOK
  <2>1. Types /\ StatsMatchSessions
    BY <1>1 DEF CountInv, IndexInv
  <2>2. activeConnections \in Nat /\ totalSubscriptions \in Nat
    BY <2>1, SubscriptionsFinite, FS_CardinalityType DEF StatsMatchSessions
  <2>3. QED
    BY <2>1, <2>2 DEF Types, TypeOK, ReadyStates
<1>2. QED
  BY InitCount, CountStep, <1>1, PTL DEF Spec

-----------------------------------------------------------------------------
(* Limits, intervals and what a dropped client sees.                       *)

LimitInv == Types /\ SubscriptionLimit

\* A session that shrinks, or stays, stays within the limit.
LEMMA LimitShrinks ==
  ASSUME LimitInv, NEW c \in Clients, sessionSubscriptions'[c] \subseteq sessionSubscriptions[c]
  PROVE  Cardinality(sessionSubscriptions'[c]) <= MaxSubscriptionsPerClient
<1>1. sessionSubscriptions[c] \in SUBSET Orders
  BY DEF LimitInv, Types
<1>2. IsFiniteSet(sessionSubscriptions[c])
  BY <1>1, ManagerAssumption, FS_Subset
<1>3. /\ IsFiniteSet(sessionSubscriptions'[c])
      /\ Cardinality(sessionSubscriptions'[c]) <= Cardinality(sessionSubscriptions[c])
  BY <1>2, FS_Subset
<1>4. /\ Cardinality(sessionSubscriptions'[c]) \in Nat
      /\ Cardinality(sessionSubscriptions[c]) \in Nat
  BY <1>2, <1>3, FS_CardinalityType
<1>5. Cardinality(sessionSubscriptions[c]) <= MaxSubscriptionsPerClient
  BY DEF LimitInv, SubscriptionLimit
<1>6. QED
  BY <1>3, <1>4, <1>5, ManagerAssumption

LEMMA LimitStep == LimitInv /\ [Next]_vars => LimitInv'
<1> SUFFICES ASSUME LimitInv, [Next]_vars PROVE SubscriptionLimit'
  BY TypesStep DEF LimitInv
<1> DEFINE Shrinks == \A c \in Clients : sessionSubscriptions'[c] \subseteq sessionSubscriptions[c]
<1>1. Shrinks => SubscriptionLimit'
  BY LimitShrinks DEF SubscriptionLimit
<1>2. ASSUME NEW c \in Clients, NEW o \in Orders, AddSubscription(c, o) PROVE SubscriptionLimit'
  <2>1. IsFiniteSet(sessionSubscriptions[c])
    <3>1. sessionSubscriptions[c] \in SUBSET Orders
      BY DEF LimitInv, Types
    <3>2. QED
      BY <3>1, ManagerAssumption, FS_Subset
  <2>2. sessionSubscriptions' = [sessionSubscriptions EXCEPT ![c] = @ \cup {o}]
    BY <1>2 DEF AddSubscription
  <2>3. Cardinality(sessionSubscriptions'[c]) = Cardinality(sessionSubscriptions[c]) + 1
    BY <1>2, <2>1, <2>2, FS_AddElement DEF LimitInv, Types, AddSubscription
  <2>4. Cardinality(sessionSubscriptions'[c]) <= MaxSubscriptionsPerClient
    BY <1>2, <2>1, <2>3, FS_CardinalityType, ManagerAssumption DEF AddSubscription, HasRoom
  <2>5. ASSUME NEW d \in Clients
        PROVE  Cardinality(sessionSubscriptions'[d]) <= MaxSubscriptionsPerClient
    <3>1. CASE d = c
      BY <2>4, <3>1
    <3>2. CASE d # c
      BY <2>2, <3>2 DEF LimitInv, Types, SubscriptionLimit
    <3>3. QED
      BY <3>1, <3>2
  <2>6. QED
    BY <2>5 DEF SubscriptionLimit
<1> USE DEF LimitInv, Types, sessionVars
<1>3. ASSUME NEW c \in Clients, ForgetClient(c) PROVE Shrinks
  BY <1>3 DEF ForgetClient
<1>4. ASSUME UNCHANGED sessionSubscriptions PROVE Shrinks
  BY <1>4
<1>5. ASSUME NEW c \in Clients, NEW o \in Orders, Unsubscribe(c, o) PROVE Shrinks
  BY <1>5 DEF Unsubscribe
<1>6. CASE Reset
  BY <1>6, <1>1 DEF Reset
<1>7. ASSUME NEW c \in Clients,
             \/ RegisterClient(c) \/ DisconnectClient(c) \/ PeerVanishes(c) \/ UnknownMessage(c)
             \/ UnparsableMessage(c) \/ HeartbeatPings(c) \/ Pong(c)
      PROVE  Shrinks
  BY <1>4, <1>7 DEF RegisterClient, DisconnectClient, PeerVanishes, UnknownMessage,
                    UnparsableMessage, HeartbeatPings, Pong
<1>8. ASSUME NEW o \in Orders, Broadcast(o) PROVE Shrinks
  BY <1>4, <1>8 DEF Broadcast
<1>9. CASE UNCHANGED vars
  BY <1>1, <1>4, <1>9 DEF vars
<1>10. ASSUME NEW c \in Clients, SocketCloses(c) \/ HeartbeatDrops(c) PROVE Shrinks
  BY <1>3, <1>4, <1>10 DEF SocketCloses, HeartbeatDrops
<1>11. ASSUME NEW c \in Clients, NEW o \in Orders, Subscribe(c, o) PROVE SubscriptionLimit'
  BY <1>1, <1>2, <1>4, <1>11 DEF Subscribe
<1>12. QED
  BY <1>1, <1>5, <1>6, <1>7, <1>8, <1>9, <1>10, <1>11 DEF Next

(* No order of messages, drops and resets brings a session above           *)
(* maxSubscriptionsPerClient, whatever the limit is.                       *)
THEOREM LimitKept == Spec => []SubscriptionLimit
<1>1. Init => LimitInv
  BY InitTypes, FS_EmptySet, ManagerAssumption DEF Init, LimitInv, SubscriptionLimit
<1>2. LimitInv => SubscriptionLimit
  BY DEF LimitInv
<1>3. QED
  BY <1>1, LimitStep, <1>2, PTL DEF Spec

-----------------------------------------------------------------------------
(* Heartbeats and numbers.                                                 *)

\* A client that connects is new, so no ping to it has thrown before.
Watched ==
  /\ ClientsAreWatched
  /\ pingThrew \subseteq clients
  /\ \A c \in clients : readyState[c] # "none"

WatchInv == Types /\ Watched

LEMMA WatchStep == WatchInv /\ [Next]_vars => WatchInv'
<1> SUFFICES ASSUME WatchInv, [Next]_vars PROVE WatchInv'
  OBVIOUS
<1> USE DEF Watched, ClientsAreWatched, sessionVars, timerVars, socketVars
<1>0. Watched /\ clients \subseteq Clients /\ readyState \in [Clients -> ReadyStates]
  BY DEF WatchInv, Types
<1>1. ASSUME NEW c \in Clients, RegisterClient(c) PROVE Watched'
  BY <1>0, <1>1 DEF RegisterClient
<1>2. ASSUME NEW c \in Clients, SocketCloses(c) PROVE Watched'
  BY <1>0, <1>2 DEF SocketCloses, ForgetClient
<1>3. ASSUME NEW c \in Clients, HeartbeatDrops(c) PROVE Watched'
  BY <1>0, <1>3 DEF HeartbeatDrops, ForgetClient
<1>4. ASSUME NEW c \in Clients, HeartbeatPings(c) PROVE Watched'
  BY <1>0, <1>4 DEF HeartbeatPings
<1>5. ASSUME Reset PROVE Watched'
  <2>1. /\ clients' = {} /\ pingThrew' = {} /\ heartbeatIntervals' = {}
        /\ ticking' = ticking \ heartbeatIntervals
    BY <1>5 DEF Reset
  <2>2. ticking' = {}
    BY <1>0, <2>1
  <2>3. \A c \in clients' : readyState'[c] # "none"
    BY <2>1
  <2>4. ClientsAreWatched'
    BY <2>1, <2>2
  <2>5. QED
    BY <2>1, <2>3, <2>4
<1>6. ASSUME UNCHANGED <<clients, heartbeatIntervals, ticking, pingThrew, readyState>>
      PROVE  Watched'
  BY <1>0, <1>6
<1>7. ASSUME NEW c \in Clients, NEW o \in Orders, Subscribe(c, o) \/ Unsubscribe(c, o)
      PROVE  Watched'
  BY <1>6, <1>7 DEF Subscribe, Unsubscribe
<1>8. ASSUME NEW c \in Clients,
             \/ PeerVanishes(c) \/ UnknownMessage(c) \/ UnparsableMessage(c) \/ Pong(c)
      PROVE  Watched'
  BY <1>6, <1>8 DEF PeerVanishes, UnknownMessage, UnparsableMessage, Pong
<1>8a. ASSUME NEW c \in Clients, DisconnectClient(c) PROVE Watched'
  BY <1>0, <1>8a DEF DisconnectClient
<1>9. ASSUME NEW o \in Orders, Broadcast(o) PROVE Watched'
  BY <1>6, <1>9 DEF Broadcast
<1>10. ASSUME UNCHANGED vars PROVE Watched'
  <2>1. UNCHANGED <<clients, heartbeatIntervals, ticking, pingThrew, readyState>>
    BY <1>10 DEF vars
  <2>2. QED
    BY <1>6, <2>1
<1> HIDE DEF Watched, ClientsAreWatched
<1>11. Watched'
  BY <1>1, <1>2, <1>3, <1>4, <1>5, <1>7, <1>8, <1>8a, <1>9, <1>10 DEF Next
<1>12. QED
  BY <1>11, TypesStep DEF WatchInv

(* Every session has a heartbeat interval and every interval a session;    *)
(* all of them are live but those of the clients whose ping threw, so no   *)
(* other client is left unwatched and no timer leaks.                      *)
THEOREM SessionsAreWatched == Spec => []ClientsAreWatched
<1>1. Init => WatchInv
  BY InitTypes DEF Init, WatchInv, Watched, ClientsAreWatched
<1>2. WatchInv => ClientsAreWatched
  BY DEF WatchInv, Watched
<1>3. QED
  BY <1>1, <1>2, WatchStep, PTL DEF Spec

\* The counter is not behind what a client with a session has received; a
\* socket that was never opened has received nothing.
NumberInv ==
  /\ IndexInv
  /\ \A c \in clients : lastReceived[c] <= messageSequence
  /\ \A c \in Clients : readyState[c] = "none" => lastReceived[c] = Nothing

\* What a step does to the numbers: the counter advances while sessions go on,
\* and a message is numbered with the counter.
Numbered ==
  /\ clients' \subseteq clients
  /\ messageSequence' >= messageSequence
  /\ \A c \in Clients :
       /\ lastReceived'[c] = lastReceived[c]
            \/ (c \in clients /\ lastReceived'[c] = messageSequence)
       /\ readyState'[c] = "none" => readyState[c] = "none"

Reopens ==
  /\ UNCHANGED <<messageSequence, lastReceived>>
  /\ \A c \in Clients : readyState'[c] = "none" => readyState[c] = "none"
  /\ \A c \in clients' \ clients : readyState[c] = "none"

LEMMA SendNumbers ==
  ASSUME Types, NEW to, Send(to)
  PROVE  /\ messageSequence' >= messageSequence
         /\ \A c \in Clients :
              \/ lastReceived'[c] = lastReceived[c]
              \/ c \in clients /\ lastReceived'[c] = messageSequence
BY ManagerAssumption DEF Types, Send, NextNumber

LEMMA StepNumbers ==
  ASSUME IndexInv, [Next]_vars
  PROVE  Numbered \/ Reopens \/ Reset
<1> DEFINE Goal == Numbered \/ Reopens
<1> USE DEF IndexInv, Types, sessionVars, socketVars
<1>1. ASSUME NEW c \in Clients, RegisterClient(c) PROVE Reopens
  BY <1>1 DEF RegisterClient, Reopens
<1>2. ASSUME NEW c \in Clients, SocketCloses(c) \/ HeartbeatDrops(c) PROVE Reopens
  BY <1>2 DEF SocketCloses, HeartbeatDrops, ForgetClient, Reopens
<1>3. ASSUME NEW c \in Clients, DisconnectClient(c) \/ PeerVanishes(c) \/ Pong(c) PROVE Reopens
  BY <1>3 DEF DisconnectClient, PeerVanishes, Pong, Reopens
<1>4. ASSUME NEW to, Send(to), UNCHANGED <<clients, readyState>> PROVE Numbered
  BY <1>4, SendNumbers DEF Numbered
<1>5. ASSUME NEW c \in Clients, UnknownMessage(c) \/ UnparsableMessage(c) PROVE Numbered
  BY <1>4, <1>5 DEF UnknownMessage, UnparsableMessage, Reply
<1>6. ASSUME NEW c \in Clients, NEW o \in Orders, Subscribe(c, o) \/ Unsubscribe(c, o)
      PROVE  Numbered
  BY <1>4, <1>6 DEF Subscribe, Unsubscribe, Reply
<1>7. ASSUME NEW o \in Orders, Broadcast(o) PROVE Numbered
  BY <1>4, <1>7 DEF Broadcast
<1>8. ASSUME NEW c \in Clients, HeartbeatPings(c) PROVE Numbered
  BY <1>8, ManagerAssumption DEF HeartbeatPings, NextNumber, Numbered
<1>9. CASE UNCHANGED vars
  BY <1>9 DEF vars, Reopens
<1>10. QED
  BY <1>1, <1>2, <1>3, <1>5, <1>6, <1>7, <1>8, <1>9 DEF Next

LEMMA NumberStep == NumberInv /\ [Next]_vars => NumberInv'
<1> SUFFICES ASSUME NumberInv, [Next]_vars PROVE NumberInv'
  OBVIOUS
<1>1. IndexInv /\ IndexInv'
  BY IndexStep DEF NumberInv
<1>2. \A c \in Clients : lastReceived[c] \in Int
  BY <1>1 DEF IndexInv, Types, Nothing
<1>3. messageSequence \in Nat /\ messageSequence' \in Nat /\ clients \subseteq Clients
      /\ clients' \subseteq Clients
  BY <1>1, ManagerAssumption DEF IndexInv, Types
<1>4. CASE Numbered
  <2>1. \A c \in clients' : lastReceived'[c] <= messageSequence'
    BY <1>2, <1>3, <1>4 DEF Numbered, NumberInv
  <2>2. \A c \in Clients : readyState'[c] = "none" => lastReceived'[c] = Nothing
    BY <1>1, <1>4 DEF Numbered, NumberInv, IndexInv, SessionsHaveSockets
  <2>3. QED
    BY <1>1, <2>1, <2>2 DEF NumberInv
<1>5. CASE Reopens
  <2>1. \A c \in clients' : lastReceived'[c] <= messageSequence'
    BY <1>2, <1>3, <1>5 DEF Reopens, NumberInv, Nothing
  <2>2. QED
    BY <1>1, <1>5, <2>1 DEF NumberInv, Reopens
<1>6. CASE Reset
  <2>1. \A c \in Clients : readyState'[c] = "none" => readyState[c] = "none"
    BY <1>1, <1>6 DEF Reset, IndexInv, Types
  <2>2. clients' = {} /\ UNCHANGED lastReceived
    BY <1>6 DEF Reset
  <2>3. QED
    BY <1>1, <2>1, <2>2 DEF NumberInv
<1>7. QED
  BY <1>1, <1>4, <1>5, <1>6, StepNumbers

LEMMA InitNumber == Init => NumberInv
BY InitIndex DEF Init, NumberInv

(* The numbers a client receives only grow, for any number of clients and  *)
(* orders and wherever the counter stops being told apart: the counter is  *)
(* set back only when no session is left to see it.                        *)
THEOREM NumbersCorrect == Spec => NumbersGrow
<1>1. ASSUME NumberInv, [Next]_vars
      PROVE  [\A c \in Clients : lastReceived'[c] # lastReceived[c] =>
                lastReceived'[c] > lastReceived[c]]_vars
  <2>1. IndexInv /\ \A c \in clients : lastReceived[c] <= messageSequence
    BY <1>1 DEF NumberInv
  <2>2. ASSUME NEW c \in Clients, lastReceived'[c] # lastReceived[c]
        PROVE  lastReceived'[c] > lastReceived[c]
    <3>1. UNCHANGED lastReceived \/ Numbered
      BY <1>1, <2>1, StepNumbers DEF Reopens, Reset
    <3>2. c \in clients /\ lastReceived'[c] = messageSequence
      BY <2>2, <3>1 DEF Numbered
    <3>3. lastReceived[c] \in Int /\ messageSequence \in Nat
      BY <2>1, ManagerAssumption DEF IndexInv, Types, Nothing
    <3>4. QED
      BY <2>1, <2>2, <3>2, <3>3
  <2>3. QED
    BY <2>2
<1>2. QED
  BY InitNumber, NumberStep, <1>1, PTL DEF Spec, NumbersGrow

(* A client that was dropped, by its heartbeat, its close event or a       *)
(* reset, never gets another message and never is in the index again,      *)
(* whatever its socket still delivers.                                     *)
THEOREM DroppedClientsStayOut == Spec => DroppedStaysOut
<1>1. ASSUME IndexInv, IndexInv', [Next]_vars, NEW c \in Clients, Dropped(c)
      PROVE  /\ Dropped(c)'
             /\ lastReceived'[c] = lastReceived[c]
             /\ \A o \in Orders : c \notin subscribers'[o]
  <2>1. c \notin clients /\ readyState[c] # "none"
    BY <1>1 DEF Dropped
  <2>2. c \notin clients'
    <3>1. CASE Numbered
      BY <2>1, <3>1 DEF Numbered
    <3>2. CASE Reopens
      BY <2>1, <3>2 DEF Reopens
    <3>3. CASE Reset
      BY <3>3 DEF Reset
    <3>4. QED
      BY <1>1, <3>1, <3>2, <3>3, StepNumbers
  <2>3. readyState'[c] # "none" /\ lastReceived'[c] = lastReceived[c]
    <3>1. CASE Numbered
      BY <2>1, <3>1 DEF Numbered
    <3>2. CASE Reopens
      BY <2>1, <3>2 DEF Reopens
    <3>3. CASE Reset
      BY <1>1, <2>1, <3>3 DEF Reset, IndexInv, Types
    <3>4. QED
      BY <1>1, <3>1, <3>2, <3>3, StepNumbers
  <2>4. \A o \in Orders : c \notin subscribers'[o]
    BY <1>1, <2>2 DEF IndexInv, SubscriptionIndexesAgree
  <2>5. QED
    BY <2>2, <2>3, <2>4 DEF Dropped
<1>2. IndexInv /\ IndexInv' /\ [Next]_vars =>
        [\A c \in Clients : Dropped(c) =>
           /\ Dropped(c)'
           /\ lastReceived'[c] = lastReceived[c]
           /\ \A o \in Orders : c \notin subscribers'[o]]_vars
  BY <1>1
<1>3. QED
  BY InitIndex, IndexStep, <1>2, PTL DEF Spec, DroppedStaysOut
=============================================================================
