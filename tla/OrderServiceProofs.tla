------------------------- MODULE OrderServiceProofs -------------------------
(***************************************************************************)
(* Theorems about OrderService, for every set of executions and clients:   *)
(* the engine and the manager keep their promises inside the service, and  *)
(* a subscriber's view of an order is never behind.                        *)
(***************************************************************************)
EXTENDS OrderService, SequenceTheorems, FiniteSetTheorems, WellFoundedInduction, TLAPS

-----------------------------------------------------------------------------
(* Induction over the natural numbers, from a least element: the set the   *)
(* induction is about is named, so no theorem takes an operator.           *)

LEMMA LeastNumber ==
  ASSUME NEW T, T \subseteq Nat, T # {}
  PROVE  \E x \in T : \A y \in T : x <= y
<1>1. PICK x \in T : \A y \in T : ~(<<y, x>> \in OpToRel(<, Nat))
  BY WFMin, NatLessThanWellFounded
<1>2. \A y \in T : ~(y < x)
  BY <1>1 DEF OpToRel
<1>3. QED
  BY <1>2

LEMMA Induction ==
  ASSUME NEW T, 0 \in T, \A n \in Nat : n \in T => n + 1 \in T
  PROVE  Nat \subseteq T
<1> SUFFICES ASSUME ~(Nat \subseteq T) PROVE FALSE
  OBVIOUS
<1>1. PICK x \in Nat \ T : \A y \in Nat \ T : x <= y
  BY LeastNumber
<1>2. x # 0 /\ x - 1 \in Nat
  BY <1>1
<1>3. x - 1 \in T
  BY <1>1, <1>2
<1>4. (x - 1) + 1 \in T
  BY <1>2, <1>3
<1>5. QED
  BY <1>1, <1>4

-----------------------------------------------------------------------------
(* What Forwarded computes.                                                *)

\* The recurrence of Forwarded over the first m events.
Sent(emitted, sent, m) ==
  sent = [n \in 0 .. m |->
            IF n = 0 THEN <<>>
            ELSE IF emitted[n] = "building" THEN sent[n - 1]
            ELSE Append(sent[n - 1], emitted[n])]

LEMMA SentAt ==
  ASSUME NEW s, NEW sent, NEW m \in Nat, Sent(s, sent, m)
  PROVE  /\ DOMAIN sent = 0 .. m
         /\ sent[0] = <<>>
         /\ \A n \in 1 .. m :
              sent[n] = IF s[n] = "building" THEN sent[n - 1] ELSE Append(sent[n - 1], s[n])
<1>1. \A n \in 0 .. m :
        sent[n] = IF n = 0 THEN <<>>
                  ELSE IF s[n] = "building" THEN sent[n - 1] ELSE Append(sent[n - 1], s[n])
  BY DEF Sent
<1>2. QED
  BY <1>1 DEF Sent

\* What is sent with one more event, which may be kept back.
OneMore(t, sent, m) ==
  [n \in 0 .. m + 1 |->
     IF n <= m THEN sent[n]
     ELSE IF t[m + 1] = "building" THEN sent[m] ELSE Append(sent[m], t[m + 1])]

\* Two sequences begin with the same m elements.
SameStart(s, t, m) == \A i \in 1 .. m : s[i] = t[i]

\* The recurrence goes on with another event, whether it is sent or not.
LEMMA SentGoesOn ==
  ASSUME NEW S, NEW s, NEW t \in Seq(S), NEW m \in Nat, NEW sent \in [0 .. m -> Seq(S)],
         Sent(s, sent, m), m + 1 <= Len(t), SameStart(s, t, m)
  PROVE  /\ OneMore(t, sent, m) \in [0 .. m + 1 -> Seq(S)]
         /\ Sent(t, OneMore(t, sent, m), m + 1)
<1> DEFINE new == IF t[m + 1] = "building" THEN sent[m] ELSE Append(sent[m], t[m + 1])
           more == [n \in 0 .. m + 1 |-> IF n <= m THEN sent[n] ELSE new]
<1>1. t[m + 1] \in S
  BY LenProperties
<1>2. sent[m] \in Seq(S) /\ new \in Seq(S)
  BY <1>1, AppendProperties
<1>3. /\ sent[0] = <<>>
      /\ \A n \in 1 .. m :
           sent[n] = IF s[n] = "building" THEN sent[n - 1] ELSE Append(sent[n - 1], s[n])
  BY SentAt
<1> HIDE DEF new
<1>4. more \in [0 .. m + 1 -> Seq(S)]
  BY <1>2
<1>5. \A n \in 0 .. m + 1 :
        more[n] = IF n = 0 THEN <<>>
                  ELSE IF t[n] = "building" THEN more[n - 1] ELSE Append(more[n - 1], t[n])
  <2> SUFFICES ASSUME NEW n \in 0 .. m + 1
               PROVE  more[n] = IF n = 0 THEN <<>>
                                ELSE IF t[n] = "building" THEN more[n - 1]
                                ELSE Append(more[n - 1], t[n])
    OBVIOUS
  <2>1. CASE n = 0
    BY <1>3, <2>1
  <2>2. CASE n \in 1 .. m
    <3>1. more[n] = sent[n] /\ more[n - 1] = sent[n - 1] /\ n # 0 /\ s[n] = t[n]
      BY <2>2 DEF SameStart
    <3>2. sent[n] = IF s[n] = "building" THEN sent[n - 1] ELSE Append(sent[n - 1], s[n])
      BY <1>3, <2>2
    <3> HIDE DEF more
    <3>3. QED
      BY <3>1, <3>2
  <2>3. CASE n = m + 1
    <3>1. more[n] = new /\ more[n - 1] = sent[m]
      BY <2>3
    <3> HIDE DEF more
    <3>2. QED
      BY <2>3, <3>1 DEF new
  <2>4. QED
    BY <2>1, <2>2, <2>3
<1>6. more = OneMore(t, sent, m)
  BY DEF OneMore, new
<1> HIDE DEF more
<1>7. more = [n \in 0 .. m + 1 |-> more[n]]
  BY <1>4
<1>8. Sent(t, more, m + 1)
  BY <1>5, <1>7 DEF Sent
<1>9. QED
  BY <1>4, <1>6, <1>8

LEMMA SentExists ==
  ASSUME NEW S, NEW s \in Seq(S)
  PROVE  \A m \in 0 .. Len(s) : \E sent \in [0 .. m -> Seq(S)] : Sent(s, sent, m)
<1> DEFINE T == {m \in Nat : m <= Len(s) => \E sent \in [0 .. m -> Seq(S)] : Sent(s, sent, m)}
<1>1. 0 \in T
  <2> DEFINE none == [n \in 0 .. 0 |-> <<>>]
  <2>1. none \in [0 .. 0 -> Seq(S)] /\ Sent(s, none, 0)
    BY DEF Sent
  <2>2. QED
    BY <2>1
<1>2. ASSUME NEW m \in Nat, m \in T PROVE m + 1 \in T
  <2> SUFFICES ASSUME m + 1 <= Len(s)
               PROVE  \E sent \in [0 .. m + 1 -> Seq(S)] : Sent(s, sent, m + 1)
    OBVIOUS
  <2>1. m <= Len(s)
    BY LenProperties
  <2>2. PICK sent \in [0 .. m -> Seq(S)] : Sent(s, sent, m)
    BY <1>2, <2>1
  <2>3. QED
    BY <2>1, <2>2, SentGoesOn DEF SameStart
<1>3. Nat \subseteq T
  <2> HIDE DEF T
  <2>1. QED
    BY <1>1, <1>2, Induction
<1>4. QED
  BY <1>3

LEMMA SentUnique ==
  ASSUME NEW s, NEW k \in Nat, NEW m \in Nat, NEW one, NEW other,
         Sent(s, one, k), Sent(s, other, m)
  PROVE  \A n \in 0 .. k : n <= m => one[n] = other[n]
<1> DEFINE T == {n \in 0 .. k : n <= m /\ one[n] # other[n]}
<1> SUFFICES ASSUME T # {} PROVE FALSE
  OBVIOUS
<1>1. PICK n \in T : \A y \in T : n <= y
  <2>1. T \subseteq Nat
    OBVIOUS
  <2> HIDE DEF T
  <2>2. QED
    BY <2>1, LeastNumber
<1>2. n # 0
  BY SentAt
<1>3. n \in 1 .. k /\ n \in 1 .. m /\ n - 1 \notin T
  BY <1>1, <1>2
<1>4. one[n - 1] = other[n - 1]
  BY <1>3
<1> HIDE DEF T
<1>5. one[n] = other[n]
  BY <1>3, <1>4, SentAt
<1>6. QED
  BY <1>5 DEF T

\* Forwarded is where any function of that recurrence ends.
LEMMA ForwardedIs ==
  ASSUME NEW S, NEW s \in Seq(S), NEW sent, Sent(s, sent, Len(s))
  PROVE  Forwarded(s) = sent[Len(s)]
<1>1. Forwarded(s) = (CHOOSE f : Sent(s, f, Len(s)))[Len(s)]
  BY DEF Forwarded, Sent
<1>2. PICK f : f = (CHOOSE g : Sent(s, g, Len(s)))
  OBVIOUS
<1>3. Sent(s, f, Len(s)) /\ Len(s) \in Nat
  BY <1>2
<1>4. f[Len(s)] = sent[Len(s)]
  BY <1>3, SentUnique
<1>5. QED
  BY <1>1, <1>2, <1>4

LEMMA ForwardedType ==
  ASSUME NEW S, NEW s \in Seq(S)
  PROVE  Forwarded(s) \in Seq(S)
<1>1. Len(s) \in Nat
  OBVIOUS
<1>2. PICK sent \in [0 .. Len(s) -> Seq(S)] : Sent(s, sent, Len(s))
  BY <1>1, SentExists
<1>3. QED
  BY <1>1, <1>2, ForwardedIs

LEMMA ForwardedEmpty == Forwarded(<<>>) = <<>>
<1>1. <<>> \in Seq({}) /\ Len(<<>>) = 0
  OBVIOUS
<1>2. \A m \in 0 .. 0 : \E sent \in [0 .. m -> Seq({})] : Sent(<<>>, sent, m)
  BY <1>1, SentExists
<1>3. PICK sent \in [0 .. 0 -> Seq({})] : Sent(<<>>, sent, 0)
  BY <1>2
<1>4. Forwarded(<<>>) = sent[0] /\ sent[0] = <<>>
  BY <1>1, <1>3, ForwardedIs, SentAt
<1>5. QED
  BY <1>4

LEMMA ForwardedAppend ==
  ASSUME NEW S, NEW s \in Seq(S), NEW x \in S
  PROVE  Forwarded(Append(s, x)) =
           IF x = "building" THEN Forwarded(s) ELSE Append(Forwarded(s), x)
<1>1. PICK t : t = Append(s, x)
  OBVIOUS
<1>2. PICK m \in Nat : m = Len(s)
  OBVIOUS
<1>3. /\ t \in Seq(S) /\ Len(t) = m + 1 /\ t[m + 1] = x
      /\ \A i \in 1 .. m : t[i] = s[i]
  BY <1>1, <1>2, AppendProperties
<1>4. PICK sent \in [0 .. m -> Seq(S)] : Sent(s, sent, m)
  BY <1>2, SentExists
<1>5. t \in Seq(S) /\ m + 1 <= Len(t)
  BY <1>3
<1>6. PICK more \in [0 .. m + 1 -> Seq(S)] : Sent(t, more, m + 1) /\ more[m] = sent[m]
  <2>1. SameStart(s, t, m)
    BY <1>3 DEF SameStart
  <2>2. /\ OneMore(t, sent, m) \in [0 .. m + 1 -> Seq(S)]
        /\ Sent(t, OneMore(t, sent, m), m + 1)
    BY <1>4, <1>5, <2>1, SentGoesOn
  <2>3. OneMore(t, sent, m)[m] = sent[m]
    BY DEF OneMore
  <2>4. QED
    BY <2>2, <2>3
<1>7. Forwarded(s) = sent[m]
  BY <1>2, <1>4, ForwardedIs
<1>8. Forwarded(t) = more[m + 1]
  BY <1>3, <1>6, ForwardedIs
<1>9. more[m + 1] = IF x = "building" THEN more[m] ELSE Append(more[m], x)
  <2>1. m + 1 \in Nat /\ m + 1 \in 1 .. m + 1 /\ (m + 1) - 1 = m
    OBVIOUS
  <2>2. \A n \in 1 .. m + 1 :
          more[n] = IF t[n] = "building" THEN more[n - 1] ELSE Append(more[n - 1], t[n])
    BY <1>6, <2>1, SentAt
  <2>3. QED
    BY <1>3, <2>1, <2>2
<1>10. QED
  BY <1>1, <1>6, <1>7, <1>8, <1>9

\* Appending to the second of two sequences appends to both.
LEMMA ConcatAppend ==
  ASSUME NEW S, NEW s \in Seq(S), NEW t \in Seq(S), NEW x \in S
  PROVE  s \o Append(t, x) = Append(s \o t, x)
<1>1. s \o t \in Seq(S) /\ <<x>> \in Seq(S)
  BY ConcatProperties
<1>2. Append(t, x) = t \o <<x>>
  BY AppendIsConcat
<1>3. Append(s \o t, x) = (s \o t) \o <<x>>
  BY <1>1, AppendIsConcat
<1>4. (s \o t) \o <<x>> = s \o (t \o <<x>>)
  BY <1>1, ConcatAssociative
<1>5. QED
  BY <1>2, <1>3, <1>4

\* What a step emits is forwarded after what was forwarded before.
LEMMA ForwardedConcat ==
  ASSUME NEW S, NEW s \in Seq(S), NEW t \in Seq(S)
  PROVE  Forwarded(s \o t) = Forwarded(s) \o Forwarded(t)
<1> DEFINE T == {n \in Nat : n <= Len(t) =>
                   Forwarded(s \o SubSeq(t, 1, n)) = Forwarded(s) \o Forwarded(SubSeq(t, 1, n))}
<1>1. 0 \in T
  <2>1. SubSeq(t, 1, 0) = <<>>
    BY SubSeqEmpty
  <2>2. s \o <<>> = s /\ Forwarded(s) \o <<>> = Forwarded(s)
    BY ForwardedType, ConcatEmptySeq
  <2>3. QED
    BY <2>1, <2>2, ForwardedEmpty
<1>2. ASSUME NEW n \in Nat, n \in T PROVE n + 1 \in T
  <2> SUFFICES ASSUME n + 1 <= Len(t)
               PROVE  Forwarded(s \o SubSeq(t, 1, n + 1))
                        = Forwarded(s) \o Forwarded(SubSeq(t, 1, n + 1))
    OBVIOUS
  <2> DEFINE u == SubSeq(t, 1, n)
             x == t[n + 1]
  <2>1. u \in Seq(S) /\ x \in S
    BY SubSeqProperties, LenProperties
  <2>2. SubSeq(t, 1, n + 1) = Append(u, x)
    <3>1. 1 \in 1 .. Len(t) /\ n + 1 \in 1 .. Len(t) /\ (n + 1) - 1 = n
      OBVIOUS
    <3>2. SubSeq(t, 1, n + 1) = SubSeq(t, 1, (n + 1) - 1) \o <<t[n + 1]>>
      BY <3>1, SubSeqRecursiveSecond
    <3>3. Append(u, x) = u \o <<x>>
      BY <2>1, AppendIsConcat
    <3>4. QED
      BY <3>1, <3>2, <3>3
  <2>3. Forwarded(s \o u) = Forwarded(s) \o Forwarded(u)
    BY <1>2
  <2> HIDE DEF u, x
  <2>4. s \o u \in Seq(S) /\ Forwarded(s) \in Seq(S) /\ Forwarded(u) \in Seq(S)
        /\ <<x>> \in Seq(S)
    BY <2>1, ForwardedType, ConcatProperties
  <2>5. s \o Append(u, x) = Append(s \o u, x)
    BY <2>1, ConcatAppend
  <2>6. Forwarded(s) \o Append(Forwarded(u), x) = Append(Forwarded(s) \o Forwarded(u), x)
    BY <2>1, <2>4, ConcatAppend
  <2>7. /\ Forwarded(Append(s \o u, x)) =
             IF x = "building" THEN Forwarded(s \o u) ELSE Append(Forwarded(s \o u), x)
        /\ Forwarded(Append(u, x)) =
             IF x = "building" THEN Forwarded(u) ELSE Append(Forwarded(u), x)
    BY <2>1, <2>4, ForwardedAppend
  <2>8. Forwarded(s \o Append(u, x)) = Forwarded(s) \o Forwarded(Append(u, x))
    BY <2>3, <2>5, <2>6, <2>7
  <2>9. QED
    BY <2>2, <2>8
<1>3. Nat \subseteq T
  <2> HIDE DEF T
  <2>1. QED
    BY <1>1, <1>2, Induction
<1>4. Len(t) \in Nat /\ Len(t) <= Len(t) /\ SubSeq(t, 1, Len(t)) = t
  BY SubSeqFull
<1>5. Forwarded(s \o SubSeq(t, 1, Len(t))) = Forwarded(s) \o Forwarded(SubSeq(t, 1, Len(t)))
  BY <1>3, <1>4
<1>6. QED
  BY <1>4, <1>5

-----------------------------------------------------------------------------
(* The engine of the service is the engine of its module, with listeners   *)
(* that do not throw and without resets.                                   *)

EngineProofs == INSTANCE ExecutionEngineProofs
                WITH ListenerMayThrow <- FALSE, ResetAllowed <- FALSE

\* The assumption of the engine's module.
LEMMA EngineFinite == EngineProofs!IsFiniteSet(Executions)
BY ServiceAssumption DEF IsFiniteSet, EngineProofs!IsFiniteSet

LEMMA EngineInit == Init => EngineProofs!Init
BY DEF Init, Engine!Init, EngineProofs!Init, Engine!NoCounts, EngineProofs!NoCounts,
   Engine!ExecutionState, EngineProofs!ExecutionState

LEMMA FailsAgrees ==
  \A e \in Executions : \A types : Engine!Fails(e, types) <=> EngineProofs!Fails(e, types)
BY DEF Engine!Fails, EngineProofs!Fails, Engine!HandleError, EngineProofs!HandleError,
   Engine!Emit, EngineProofs!Emit, Engine!WithTime, EngineProofs!WithTime,
   Engine!Ended, EngineProofs!Ended

LEMMA ExecuteAgrees ==
  \A e \in Executions : Engine!ExecuteOrder(e) => EngineProofs!ExecuteOrder(e)
BY FailsAgrees DEF Engine!ExecuteOrder, EngineProofs!ExecuteOrder,
   Engine!FirstListenerThrows, EngineProofs!FirstListenerThrows,
   Engine!FailsAtOnce, EngineProofs!FailsAtOnce,
   Engine!StartsRouting, EngineProofs!StartsRouting, Engine!Emit, EngineProofs!Emit

LEMMA StageAgrees ==
  \A e \in Executions : Engine!Stage(e) => EngineProofs!Stage(e)
BY FailsAgrees DEF Engine!Stage, EngineProofs!Stage,
   Engine!RouteOrder, EngineProofs!RouteOrder, Engine!RoutingFails, EngineProofs!RoutingFails,
   Engine!BuildTransaction, EngineProofs!BuildTransaction,
   Engine!SubmitTransaction, EngineProofs!SubmitTransaction,
   Engine!Confirm, EngineProofs!Confirm, Engine!NextStage, EngineProofs!NextStage,
   Engine!HandleError, EngineProofs!HandleError, Engine!Emit, EngineProofs!Emit,
   Engine!Moved, EngineProofs!Moved, Engine!WithTime, EngineProofs!WithTime

LEMMA EngineStep == [Next]_vars => [EngineProofs!Next]_(EngineProofs!vars)
<1> SUFFICES ASSUME [Next]_vars PROVE [EngineProofs!Next]_(EngineProofs!vars)
  OBVIOUS
<1>1. ASSUME NEW e \in Executions, PostOrder(e) PROVE EngineProofs!Next
  BY <1>1, ExecuteAgrees DEF PostOrder, EngineProofs!Next
<1>2. ASSUME NEW e \in Executions, Advance(e) PROVE EngineProofs!Next
  BY <1>2, StageAgrees DEF Advance, EngineProofs!Next, EngineProofs!Stage
<1>3. ASSUME UNCHANGED engineVars PROVE UNCHANGED EngineProofs!vars
  BY <1>3 DEF engineVars, EngineProofs!vars, EngineProofs!contextVars, EngineProofs!statVars
<1>4. QED
  BY <1>1, <1>2, <1>3 DEF Next, vars, Connect, Subscribe, Unsubscribe, ClientStep, Heartbeat

LEMMA EngineSpec == Spec => EngineProofs!Spec
BY EngineInit, EngineStep, PTL DEF Spec, EngineProofs!Spec

\* The inductive invariant of the engine, of which the types are a part.
LEMMA EngineLife ==
  /\ Init => EngineProofs!LifeInv
  /\ EngineProofs!LifeInv /\ [Next]_vars => EngineProofs!LifeInv'
<1>1. EngineProofs!Init => EngineProofs!LifeInv
  BY EngineProofs!InitLife, EngineFinite, ServiceAssumption
<1>2. EngineProofs!LifeInv /\ [EngineProofs!Next]_(EngineProofs!vars) => EngineProofs!LifeInv'
  BY EngineProofs!LifeInvStep, EngineFinite, ServiceAssumption
<1>3. QED
  BY <1>1, <1>2, EngineInit, EngineStep

-----------------------------------------------------------------------------
(* The manager of the service is the manager of its module, without resets *)
(* and but for the numbers of the messages: a stage of the engine may send *)
(* two broadcasts in a step, where the manager sends one.  So its numbers  *)
(* are hidden: a client has received a message or none.                    *)

Received == [c \in Clients |-> IF lastReceived[c] = Manager!Nothing THEN Manager!Nothing ELSE 0]

ManagerProofs == INSTANCE WebSocketManagerProofs
                 WITH ResetAllowed <- FALSE, MaxSequence <- 0,
                      messageSequence <- 0, lastReceived <- Received

LEMMA OrdersFinite == IsFiniteSet(Orders)
<1>1. IsFiniteSet({"order"} \X Executions)
  BY ServiceAssumption, FS_Singleton, FS_Product
<1>2. Orders \subseteq {"order"} \X Executions
  BY DEF Orders, OrderId
<1>3. QED
  BY <1>1, <1>2, FS_Subset

\* The assumption of the manager's module.
LEMMA ManagerFinite ==
  ManagerProofs!IsFiniteSet(Clients) /\ ManagerProofs!IsFiniteSet(Orders)
BY ServiceAssumption, OrdersFinite DEF IsFiniteSet, ManagerProofs!IsFiniteSet

LEMMA CardinalityAgrees ==
  \A S : ManagerProofs!Cardinality(S) = Manager!Cardinality(S)
BY DEF Manager!Cardinality, ManagerProofs!Cardinality

Numbers ==
  /\ messageSequence \in 0 .. MaxSequence
  /\ lastReceived \in [Clients -> {Manager!Nothing} \cup 0 .. MaxSequence]

LEMMA ManagerInit == Init => ManagerProofs!Init /\ Numbers
BY ServiceAssumption
DEF Init, Manager!Init, ManagerProofs!Init, Manager!Nothing, ManagerProofs!Nothing,
    Received, Numbers

LEMMA SendAgrees ==
  ASSUME Numbers, NEW to, Manager!Send(to)
  PROVE  ManagerProofs!Send(to) /\ Numbers'
<1>1. ManagerProofs!Send(to)
  BY DEF Numbers, Manager!Send, ManagerProofs!Send, ManagerProofs!NextNumber, Received,
         Manager!Nothing
<1>2. Numbers'
  BY ServiceAssumption DEF Numbers, Manager!Send, Manager!NextNumber
<1>3. QED
  BY <1>1, <1>2

LEMMA ReplyAgrees ==
  ASSUME Numbers, NEW c, Manager!Reply(c)
  PROVE  ManagerProofs!Reply(c) /\ Numbers'
BY SendAgrees DEF Manager!Reply, ManagerProofs!Reply

\* Steps that send nothing.
LEMMA SilentAgrees ==
  ASSUME Numbers, UNCHANGED <<messageSequence, lastReceived>>
  PROVE  Received' = Received /\ Numbers'
BY DEF Numbers, Received

LEMMA ForgetAgrees ==
  ASSUME NEW c, Manager!ForgetClient(c)
  PROVE  ManagerProofs!ForgetClient(c)
BY CardinalityAgrees DEF Manager!ForgetClient, ManagerProofs!ForgetClient

LEMMA SubscribeAgrees ==
  ASSUME Numbers, NEW c \in Clients, NEW o \in Orders, Manager!Subscribe(c, o)
  PROVE  ManagerProofs!Subscribe(c, o) /\ Numbers'
<1>1. Manager!HasRoom(c) <=> ManagerProofs!HasRoom(c)
  BY CardinalityAgrees DEF Manager!HasRoom, ManagerProofs!HasRoom
<1>2. Manager!AddSubscription(c, o) => ManagerProofs!AddSubscription(c, o)
  BY <1>1 DEF Manager!AddSubscription, ManagerProofs!AddSubscription
<1>3. ManagerProofs!Reply(c) /\ Numbers'
  BY ReplyAgrees DEF Manager!Subscribe
<1>4. QED
  BY <1>1, <1>2, <1>3
  DEF Manager!Subscribe, ManagerProofs!Subscribe, Manager!Talks, ManagerProofs!Talks,
      Manager!indexVars, ManagerProofs!indexVars, Manager!timerVars, ManagerProofs!timerVars

LEMMA UnsubscribeAgrees ==
  ASSUME Numbers, NEW c \in Clients, NEW o \in Orders, Manager!Unsubscribe(c, o)
  PROVE  ManagerProofs!Unsubscribe(c, o) /\ Numbers'
<1>1. ManagerProofs!Reply(c) /\ Numbers'
  BY ReplyAgrees DEF Manager!Unsubscribe
<1>2. QED
  BY <1>1
  DEF Manager!Unsubscribe, ManagerProofs!Unsubscribe, Manager!Talks, ManagerProofs!Talks,
      Manager!timerVars, ManagerProofs!timerVars

LEMMA RegisterAgrees ==
  ASSUME Numbers, NEW c \in Clients, Manager!RegisterClient(c)
  PROVE  ManagerProofs!RegisterClient(c) /\ Numbers'
<1>1. Received' = Received /\ Numbers'
  BY SilentAgrees DEF Manager!RegisterClient
<1>2. QED
  BY <1>1
  DEF Manager!RegisterClient, ManagerProofs!RegisterClient,
      Manager!indexVars, ManagerProofs!indexVars

\* The steps of a client that are not about an order.
LEMMA ClientAgrees ==
  ASSUME Numbers, NEW c \in Clients,
         \/ Manager!SocketCloses(c) \/ Manager!PeerVanishes(c) \/ Manager!UnknownMessage(c)
         \/ Manager!UnparsableMessage(c) \/ Manager!Pong(c)
  PROVE  /\ \/ ManagerProofs!SocketCloses(c) \/ ManagerProofs!PeerVanishes(c)
            \/ ManagerProofs!UnknownMessage(c) \/ ManagerProofs!UnparsableMessage(c)
            \/ ManagerProofs!Pong(c)
         /\ Numbers'
<1> USE DEF Manager!Talks, ManagerProofs!Talks, Manager!sessionVars, ManagerProofs!sessionVars,
            Manager!indexVars, ManagerProofs!indexVars, Manager!timerVars,
            ManagerProofs!timerVars, Manager!statVars, ManagerProofs!statVars,
            Manager!socketVars, ManagerProofs!socketVars
<1>1. CASE Manager!SocketCloses(c)
  <2>1. Received' = Received /\ Numbers'
    BY <1>1, SilentAgrees DEF Manager!SocketCloses
  <2>2. QED
    BY <1>1, <2>1, ForgetAgrees DEF Manager!SocketCloses, ManagerProofs!SocketCloses
<1>2. CASE Manager!PeerVanishes(c)
  <2>1. Received' = Received /\ Numbers'
    BY <1>2, SilentAgrees DEF Manager!PeerVanishes
  <2>2. QED
    BY <1>2, <2>1 DEF Manager!PeerVanishes, ManagerProofs!PeerVanishes
<1>3. CASE Manager!UnknownMessage(c) \/ Manager!UnparsableMessage(c)
  <2>1. ManagerProofs!Reply(c) /\ Numbers'
    BY <1>3, ReplyAgrees DEF Manager!UnknownMessage, Manager!UnparsableMessage
  <2>2. QED
    BY <1>3, <2>1
    DEF Manager!UnknownMessage, ManagerProofs!UnknownMessage,
        Manager!UnparsableMessage, ManagerProofs!UnparsableMessage
<1>4. CASE Manager!Pong(c)
  <2>1. Received' = Received /\ Numbers'
    BY <1>4, SilentAgrees DEF Manager!Pong
  <2>2. QED
    BY <1>4, <2>1 DEF Manager!Pong, ManagerProofs!Pong
<1>5. QED
  BY <1>1, <1>2, <1>3, <1>4

LEMMA HeartbeatAgrees ==
  ASSUME Numbers, NEW c \in Clients, Manager!Heartbeat(c)
  PROVE  (ManagerProofs!HeartbeatDrops(c) \/ ManagerProofs!HeartbeatPings(c)) /\ Numbers'
<1> USE DEF Manager!indexVars, ManagerProofs!indexVars, Manager!statVars,
            ManagerProofs!statVars, Manager!socketVars, ManagerProofs!socketVars
<1>1. CASE Manager!HeartbeatDrops(c)
  <2>1. Received' = Received /\ Numbers'
    BY <1>1, SilentAgrees DEF Manager!HeartbeatDrops
  <2>2. QED
    BY <1>1, <2>1, ForgetAgrees DEF Manager!HeartbeatDrops, ManagerProofs!HeartbeatDrops
<1>2. CASE Manager!HeartbeatPings(c)
  <2>1. UNCHANGED lastReceived
    BY <1>2 DEF Manager!HeartbeatPings
  <2>2. Received' = Received
    BY <2>1 DEF Received
  <2>3. Numbers'
    BY <1>2, <2>1, ServiceAssumption DEF Numbers, Manager!HeartbeatPings, Manager!NextNumber
  <2>4. QED
    BY <1>2, <2>2, <2>3
    DEF Manager!HeartbeatPings, ManagerProofs!HeartbeatPings, ManagerProofs!NextNumber
<1>3. QED
  BY <1>1, <1>2 DEF Manager!Heartbeat

\* The broadcasts of a stage are one broadcast, or none, to the manager.
LEMMA BroadcastsAgree ==
  ASSUME Numbers, ManagerProofs!IndexInv, NEW o \in Orders, NEW S, NEW news \in Seq(S),
         Broadcasts(o, news), UNCHANGED sessionVars
  PROVE  [ManagerProofs!Next]_(ManagerProofs!vars) /\ Numbers'
<1> USE DEF sessionVars, ManagerProofs!sessionVars, ManagerProofs!indexVars,
            ManagerProofs!timerVars, ManagerProofs!statVars, ManagerProofs!socketVars
<1>1. CASE subscribers[o] = {} \/ news = <<>>
  <2>1. UNCHANGED <<messageSequence, lastReceived>>
    BY <1>1 DEF Broadcasts, sendingVars
  <2>2. Received' = Received /\ Numbers'
    BY <2>1, SilentAgrees
  <2>3. UNCHANGED ManagerProofs!vars
    BY <2>2 DEF ManagerProofs!vars
  <2>4. QED
    BY <2>2, <2>3
<1>2. CASE subscribers[o] # {} /\ news # <<>>
  <2> DEFINE last == messageSequence + Len(news) - 1
             Capped(n) == IF n < MaxSequence THEN n ELSE MaxSequence
  <2>1. /\ messageSequence' = Capped(last + 1)
        /\ lastReceived' = [c \in Clients |->
             IF c \in Hearers(o) THEN Capped(last) ELSE lastReceived[c]]
    BY <1>2 DEF Broadcasts
  <2>2. last \in Nat
    <3>1. Len(news) \in Nat \ {0}
      BY <1>2, EmptySeq
    <3>2. QED
      BY <3>1, ServiceAssumption DEF Numbers
  <2> HIDE DEF last
  <2>3. Capped(last) \in 0 .. MaxSequence /\ Capped(last + 1) \in 0 .. MaxSequence
    BY <2>2, ServiceAssumption
  <2> HIDE DEF Capped
  <2>4. Numbers'
    BY <2>1, <2>3 DEF Numbers
  <2>5. Received' = [c \in Clients |-> IF c \in Hearers(o) THEN 0 ELSE Received[c]]
    BY <2>1, <2>3 DEF Received, Manager!Nothing
  <2>6. ManagerProofs!Send(subscribers[o])
    BY <2>5 DEF ManagerProofs!Send, ManagerProofs!NextNumber, Hearers
  <2>7. o \in topics
    BY <1>2 DEF ManagerProofs!IndexInv, ManagerProofs!SubscriptionIndexesAgree
  <2>8. ManagerProofs!Broadcast(o)
    BY <1>2, <2>6, <2>7 DEF ManagerProofs!Broadcast
  <2>9. QED
    BY <2>4, <2>8 DEF ManagerProofs!Next
<1>3. QED
  BY <1>1, <1>2

\* The events of an order are a sequence, and so is what is broadcast of them.
LEMMA NewsType ==
  ASSUME EngineProofs!TypeOK, NEW e \in Executions
  PROVE  /\ events[e] \in Seq(EngineProofs!EventTypes)
         /\ Forwarded(events[e]) \in Seq(EngineProofs!EventTypes)
BY ForwardedType DEF EngineProofs!TypeOK

LEMMA OrdersOfExecutions == \A e \in Executions : OrderId(e) \in Orders
BY DEF Orders

\* A stage only adds events, of its own execution.
LEMMA StageExtends ==
  ASSUME EngineProofs!TypeOK, NEW e \in Executions, Engine!Stage(e)
  PROVE  \E types \in Seq(EngineProofs!EventTypes) :
           events' = [events EXCEPT ![e] = @ \o types]
<1> DEFINE T == EngineProofs!EventTypes
           Goal == \E types \in Seq(T) : events' = [events EXCEPT ![e] = @ \o types]
<1>1. ASSUME NEW types \in Seq(T), EngineProofs!Emit(e, types) PROVE Goal
  BY <1>1 DEF EngineProofs!Emit
<1>2. /\ <<"routing", "BUILDING">> \in Seq(T) /\ <<"building", "SUBMITTED">> \in Seq(T)
      /\ <<"submission">> \in Seq(T) /\ <<"confirmation">> \in Seq(T)
      /\ <<>> \o <<"error">> \in Seq(T)
  BY DEF EngineProofs!EventTypes
<1> HIDE DEF T, Goal
<1>3. EngineProofs!Stage(e)
  BY StageAgrees
<1>4. \/ EngineProofs!Emit(e, <<"routing", "BUILDING">>)
      \/ EngineProofs!Emit(e, <<>> \o <<"error">>)
      \/ EngineProofs!Emit(e, <<"building", "SUBMITTED">>)
      \/ EngineProofs!Emit(e, <<"submission">>)
      \/ EngineProofs!Emit(e, <<"confirmation">>)
  BY <1>3
  DEF EngineProofs!Stage, EngineProofs!RouteOrder, EngineProofs!RoutingFails,
      EngineProofs!BuildTransaction, EngineProofs!SubmitTransaction, EngineProofs!Confirm,
      EngineProofs!NextStage, EngineProofs!Fails, EngineProofs!HandleError
<1>5. Goal
  BY <1>1, <1>2, <1>4
<1>6. QED
  BY <1>5 DEF Goal, T

LEMMA TailOfConcat ==
  ASSUME NEW S, NEW s \in Seq(S), NEW t \in Seq(S)
  PROVE  SubSeq(s \o t, Len(s) + 1, Len(s \o t)) = t
<1>1. /\ s \o t \in Seq(S) /\ Len(s \o t) = Len(s) + Len(t)
      /\ \A i \in 1 .. Len(s) + Len(t) :
           (s \o t)[i] = IF i <= Len(s) THEN s[i] ELSE t[i - Len(s)]
  BY ConcatProperties
<1> DEFINE u == SubSeq(s \o t, Len(s) + 1, Len(s) + Len(t))
<1>2. \A i \in Len(s) + 1 .. Len(s) + Len(t) : (s \o t)[i] \in S
  BY <1>1, LenProperties
<1>3. /\ u \in Seq(S) /\ Len(u) = Len(t)
      /\ \A i \in 1 .. Len(t) : u[i] = (s \o t)[Len(s) + 1 + i - 1]
  BY <1>2, SubSeqProperties
<1>4. \A i \in 1 .. Len(t) : u[i] = t[i]
  BY <1>1, <1>3
<1>5. u = t
  <2> HIDE DEF u
  <2>1. QED
    BY <1>3, <1>4, SeqEqual
<1>6. QED
  BY <1>1, <1>5

\* What a stage broadcasts is what its events add to all that was broadcast.
LEMMA AdvanceNews ==
  ASSUME EngineProofs!TypeOK, NEW e \in Executions, Advance(e)
  PROVE  \E news \in Seq(EngineProofs!EventTypes) :
           /\ Broadcasts(OrderId(e), news)
           /\ Forwarded(events'[e]) = Forwarded(events[e]) \o news
           /\ \A f \in Executions \ {e} : events'[f] = events[f]
<1>1. PICK types \in Seq(EngineProofs!EventTypes) : events' = [events EXCEPT ![e] = @ \o types]
  BY StageExtends DEF Advance
<1>2. /\ events'[e] = events[e] \o types
      /\ \A f \in Executions \ {e} : events'[f] = events[f]
  BY <1>1 DEF EngineProofs!TypeOK
<1>3. events[e] \in Seq(EngineProofs!EventTypes)
  BY NewsType
<1>4. SubSeq(events'[e], Len(events[e]) + 1, Len(events'[e])) = types
  BY <1>2, <1>3, TailOfConcat
<1>5. Broadcasts(OrderId(e), Forwarded(types))
  BY <1>4 DEF Advance
<1>6. /\ Forwarded(types) \in Seq(EngineProofs!EventTypes)
      /\ Forwarded(events'[e]) = Forwarded(events[e]) \o Forwarded(types)
  BY <1>2, <1>3, ForwardedType, ForwardedConcat
<1>7. QED
  BY <1>2, <1>5, <1>6

LEMMA PostNews ==
  ASSUME EngineProofs!TypeOK', NEW e \in Executions
  PROVE  Forwarded(events'[e]) \o <<"PENDING">> \in Seq(EngineProofs!EventTypes)
<1>1. Forwarded(events'[e]) \in Seq(EngineProofs!EventTypes)
  BY ForwardedType DEF EngineProofs!TypeOK
<1>2. <<"PENDING">> \in Seq(EngineProofs!EventTypes)
  BY DEF EngineProofs!EventTypes
<1>3. QED
  BY <1>1, <1>2, ConcatProperties

\* What the engine and the manager keep between them.
BaseInv == EngineProofs!LifeInv /\ ManagerProofs!IndexInv /\ Numbers

LEMMA ManagerStep ==
  BaseInv /\ [Next]_vars => [ManagerProofs!Next]_(ManagerProofs!vars) /\ Numbers'
<1> SUFFICES ASSUME BaseInv, [Next]_vars
             PROVE  [ManagerProofs!Next]_(ManagerProofs!vars) /\ Numbers'
  OBVIOUS
<1> DEFINE Goal == [ManagerProofs!Next]_(ManagerProofs!vars) /\ Numbers'
<1>1. Numbers /\ ManagerProofs!IndexInv /\ EngineProofs!TypeOK /\ EngineProofs!TypeOK'
  BY EngineLife DEF BaseInv, EngineProofs!LifeInv
<1>2. ASSUME NEW e \in Executions, PostOrder(e) PROVE Goal
  BY <1>1, <1>2, PostNews, OrdersOfExecutions, BroadcastsAgree DEF PostOrder
<1>3. ASSUME NEW e \in Executions, Advance(e) PROVE Goal
  <2>1. PICK news \in Seq(EngineProofs!EventTypes) : Broadcasts(OrderId(e), news)
    BY <1>1, <1>3, AdvanceNews
  <2>2. QED
    BY <1>1, <1>3, <2>1, OrdersOfExecutions, BroadcastsAgree DEF Advance
<1>4. ASSUME NEW c \in Clients, Connect(c) PROVE Goal
  BY <1>1, <1>4, RegisterAgrees DEF Connect, ManagerProofs!Next
<1>5. ASSUME NEW c \in Clients, NEW e \in Executions, Subscribe(c, e) PROVE Goal
  <2>1. ManagerProofs!Subscribe(c, OrderId(e)) /\ Numbers'
    BY <1>1, <1>5, OrdersOfExecutions, SubscribeAgrees DEF Subscribe
  <2>2. QED
    BY <2>1, OrdersOfExecutions DEF ManagerProofs!Next
<1>6. ASSUME NEW c \in Clients, NEW e \in Executions, Unsubscribe(c, e) PROVE Goal
  <2>1. ManagerProofs!Unsubscribe(c, OrderId(e)) /\ Numbers'
    BY <1>1, <1>6, OrdersOfExecutions, UnsubscribeAgrees DEF Unsubscribe
  <2>2. QED
    BY <2>1, OrdersOfExecutions DEF ManagerProofs!Next
<1>7. ASSUME NEW c \in Clients, ClientStep(c) PROVE Goal
  BY <1>1, <1>7, ClientAgrees DEF ClientStep, ManagerProofs!Next
<1>8. ASSUME NEW c \in Clients, Heartbeat(c) PROVE Goal
  BY <1>1, <1>8, HeartbeatAgrees DEF Heartbeat, ManagerProofs!Next
<1>9. CASE UNCHANGED vars
  <2>1. Received' = Received /\ Numbers'
    BY <1>1, <1>9, SilentAgrees DEF vars, sendingVars
  <2>2. QED
    BY <1>9, <2>1
    DEF vars, sessionVars, ManagerProofs!vars, ManagerProofs!sessionVars,
        ManagerProofs!indexVars, ManagerProofs!timerVars, ManagerProofs!statVars,
        ManagerProofs!socketVars
<1>10. QED
  BY <1>2, <1>3, <1>4, <1>5, <1>6, <1>7, <1>8, <1>9 DEF Next

LEMMA BaseStep == BaseInv /\ [Next]_vars => BaseInv'
<1>1. ManagerProofs!IndexInv /\ [ManagerProofs!Next]_(ManagerProofs!vars) => ManagerProofs!IndexInv'
  BY ManagerProofs!IndexStep, ManagerFinite, ServiceAssumption
<1>2. QED
  BY <1>1, EngineLife, ManagerStep DEF BaseInv

LEMMA BaseInit == Init => BaseInv
<1>1. ManagerProofs!Init => ManagerProofs!IndexInv
  BY ManagerProofs!InitIndex, ManagerFinite, ServiceAssumption
<1>2. QED
  BY <1>1, EngineLife, ManagerInit DEF BaseInv

LEMMA ManagerSpec == Spec => ManagerProofs!Spec
BY ManagerInit, ManagerStep, BaseInit, BaseStep, PTL DEF Spec, ManagerProofs!Spec

-----------------------------------------------------------------------------
(* What the parts promise holds in the service.                            *)

(* Posting orders and forwarding their events changes nothing about the    *)
(* engine: the service implements the specification of ExecutionEngine.    *)
THEOREM EngineImplemented == Spec => Engine!Spec
<1>1. EngineProofs!Init => Engine!Init
  BY DEF Engine!Init, EngineProofs!Init, Engine!NoCounts, EngineProofs!NoCounts,
     Engine!ExecutionState, EngineProofs!ExecutionState
<1>2. [Next]_vars => [Engine!Next]_(Engine!vars)
  <2> SUFFICES ASSUME [Next]_vars PROVE [Engine!Next]_(Engine!vars)
    OBVIOUS
  <2>1. ASSUME NEW e \in Executions, PostOrder(e) PROVE Engine!Next
    BY <2>1 DEF PostOrder, Engine!Next
  <2>2. ASSUME NEW e \in Executions, Advance(e) PROVE Engine!Next
    BY <2>2 DEF Advance, Engine!Next, Engine!Stage
  <2>3. ASSUME UNCHANGED engineVars PROVE UNCHANGED Engine!vars
    BY <2>3 DEF engineVars, Engine!vars, Engine!contextVars, Engine!statVars
  <2>4. QED
    BY <2>1, <2>2, <2>3 DEF Next, vars, Connect, Subscribe, Unsubscribe, ClientStep, Heartbeat
<1>3. QED
  BY EngineInit, <1>1, <1>2, PTL DEF Spec, Engine!Spec

(* Whatever clients subscribe to, and whoever is told, the engine emits the *)
(* events of an order in the order of the pipeline, announces every change *)
(* of its state, answers only when the order is settled, and never touches *)
(* a settled order again.                                                  *)
THEOREM EngineKeepsItsPromises ==
  Spec => /\ []Engine!EventsFollowThePipeline
          /\ []Engine!ListenersKnowTheState
          /\ []Engine!EndedMeansSettled
          /\ Engine!SettledOrderIsFinal
<1>1. EngineProofs!Spec => /\ []EngineProofs!EventsFollowThePipeline
                           /\ []EngineProofs!ListenersKnowTheState
                           /\ []EngineProofs!EndedMeansSettled
                           /\ EngineProofs!SettledOrderIsFinal
  BY EngineProofs!EventOrder, EngineProofs!ListenersFollow, EngineProofs!AnswersMeanSettled,
     EngineProofs!SettledStaysSettled, EngineFinite, ServiceAssumption
<1>2. EngineProofs!EventsFollowThePipeline => Engine!EventsFollowThePipeline
  BY DEF EngineProofs!EventsFollowThePipeline, Engine!EventsFollowThePipeline,
     EngineProofs!Pipeline, Engine!Pipeline
<1>3. EngineProofs!ListenersKnowTheState => Engine!ListenersKnowTheState
  BY DEF EngineProofs!ListenersKnowTheState, Engine!ListenersKnowTheState,
     EngineProofs!Announced, Engine!Announced, EngineProofs!ExecutionState,
     Engine!ExecutionState
<1>4. EngineProofs!EndedMeansSettled => Engine!EndedMeansSettled
  BY DEF EngineProofs!EndedMeansSettled, Engine!EndedMeansSettled,
     EngineProofs!Settled, Engine!Settled, EngineProofs!Waiting, Engine!Waiting
<1>5. EngineProofs!SettledOrderIsFinal => Engine!SettledOrderIsFinal
  <2>1. [\A e \in Executions : state[e] \in EngineProofs!Settled =>
           state'[e] = state[e] /\ events'[e] = events[e]]_(EngineProofs!vars)
        => [\A e \in Executions : state[e] \in Engine!Settled =>
              state'[e] = state[e] /\ events'[e] = events[e]]_(Engine!vars)
    BY DEF EngineProofs!Settled, Engine!Settled, EngineProofs!vars, Engine!vars,
       EngineProofs!contextVars, Engine!contextVars, EngineProofs!statVars, Engine!statVars
  <2>2. QED
    BY <2>1, PTL DEF EngineProofs!SettledOrderIsFinal, Engine!SettledOrderIsFinal
<1>6. QED
  BY EngineSpec, <1>1, <1>2, <1>3, <1>4, <1>5, PTL

(* With two broadcasts in a step and orders that clients can name only     *)
(* after they were posted, the two indexes of subscriptions still agree,   *)
(* the statistics count what there is, no session exceeds its limit, and   *)
(* every session is watched.                                               *)
THEOREM ManagerKeepsItsPromises ==
  Spec => /\ []Manager!SubscriptionIndexesAgree
          /\ []Manager!StatsMatchSessions
          /\ []Manager!SubscriptionLimit
          /\ []Manager!ClientsAreWatched
<1>1. ManagerProofs!Spec => /\ []ManagerProofs!SubscriptionIndexesAgree
                            /\ []ManagerProofs!StatsMatchSessions
                            /\ []ManagerProofs!SubscriptionLimit
                            /\ []ManagerProofs!ClientsAreWatched
  BY ManagerProofs!IndexesAgree, ManagerProofs!StatsCorrect, ManagerProofs!LimitKept,
     ManagerProofs!SessionsAreWatched, ManagerFinite, ServiceAssumption
<1>2. /\ ManagerProofs!SubscriptionIndexesAgree => Manager!SubscriptionIndexesAgree
      /\ ManagerProofs!ClientsAreWatched => Manager!ClientsAreWatched
  BY DEF ManagerProofs!SubscriptionIndexesAgree, Manager!SubscriptionIndexesAgree,
     ManagerProofs!ClientsAreWatched, Manager!ClientsAreWatched
<1>3. /\ ManagerProofs!StatsMatchSessions => Manager!StatsMatchSessions
      /\ ManagerProofs!SubscriptionLimit => Manager!SubscriptionLimit
  BY CardinalityAgrees
  DEF ManagerProofs!StatsMatchSessions, Manager!StatsMatchSessions,
      ManagerProofs!Subscriptions, Manager!Subscriptions,
      ManagerProofs!SubscriptionLimit, Manager!SubscriptionLimit
<1>4. QED
  BY ManagerSpec, <1>1, <1>2, <1>3, PTL

-----------------------------------------------------------------------------
(* What a subscriber has been told.                                        *)

\* A client with a session has an open socket: no one asks a socket to close here.
SocketsOpen == \A c \in clients : readyState[c] = "open"

(* Only a subscriber of an order that was posted has been told something   *)
(* about it: all that was broadcast since it subscribed.                   *)
ToldOf(e, c) ==
  LET o == OrderId(e)
  IN  /\ c \notin subscribers[o] => told[o][c] = <<>>
      /\ c \in subscribers[o] =>
           /\ pc[e] # "idle"
           /\ before[o][c] \in 0 .. Len(Broadcast(e))
           /\ told[o][c] = SubSeq(Broadcast(e), before[o][c] + 1, Len(Broadcast(e)))

ToldTypes ==
  /\ told \in [Orders -> [Clients -> Seq(EngineProofs!EventTypes)]]
  /\ before \in [Orders -> [Clients -> Nat]]

ToldInv ==
  /\ BaseInv
  /\ SocketsOpen
  /\ ToldTypes
  /\ \A e \in Executions, c \in Clients : ToldOf(e, c)

LEMMA SocketsStep == BaseInv /\ SocketsOpen /\ [Next]_vars => SocketsOpen'
<1> SUFFICES ASSUME BaseInv, SocketsOpen, [Next]_vars PROVE SocketsOpen'
  OBVIOUS
<1>1. /\ readyState \in [Clients -> ManagerProofs!ReadyStates]
      /\ clients \subseteq Clients
  BY DEF BaseInv, ManagerProofs!IndexInv, ManagerProofs!Types
<1>2. ASSUME UNCHANGED readyState, clients' \subseteq clients PROVE SocketsOpen'
  BY <1>2 DEF SocketsOpen
<1>3. ASSUME NEW c \in Clients, Connect(c) PROVE SocketsOpen'
  BY <1>1, <1>3 DEF Connect, Manager!RegisterClient, SocketsOpen
<1>4. ASSUME NEW c \in Clients, NEW e \in Executions, Subscribe(c, e) \/ Unsubscribe(c, e)
      PROVE  SocketsOpen'
  BY <1>2, <1>4 DEF Subscribe, Unsubscribe, Manager!Subscribe, Manager!Unsubscribe
<1>5. ASSUME NEW c \in Clients, ClientStep(c) PROVE SocketsOpen'
  <2>1. CASE Manager!SocketCloses(c)
    BY <1>1, <2>1 DEF Manager!SocketCloses, Manager!ForgetClient, SocketsOpen
  <2>2. CASE ~Manager!SocketCloses(c)
    BY <1>2, <1>5, <2>2
    DEF ClientStep, Manager!PeerVanishes, Manager!UnknownMessage, Manager!UnparsableMessage,
        Manager!Pong, Manager!sessionVars, Manager!socketVars
  <2>3. QED
    BY <2>1, <2>2
<1>6. ASSUME NEW c \in Clients, Heartbeat(c) PROVE SocketsOpen'
  BY <1>2, <1>6
  DEF Heartbeat, Manager!Heartbeat, Manager!HeartbeatDrops, Manager!HeartbeatPings,
      Manager!ForgetClient, Manager!socketVars
<1>7. ASSUME UNCHANGED sessionVars PROVE SocketsOpen'
  BY <1>2, <1>7 DEF sessionVars
<1>8. QED
  BY <1>3, <1>4, <1>5, <1>6, <1>7 DEF Next, PostOrder, Advance, vars

\* Everyone in the index of an order has a session and an open socket.
LEMMA SubscribersHear ==
  ASSUME BaseInv, SocketsOpen, NEW o \in Orders
  PROVE  Hearers(o) = subscribers[o]
BY DEF BaseInv, ManagerProofs!IndexInv, ManagerProofs!Types,
       ManagerProofs!SubscriptionIndexesAgree, SocketsOpen, Hearers

LEMMA ExecutionsOfOrders == \A e, f \in Executions : OrderId(e) = OrderId(f) => e = f
BY DEF OrderId

\* A suffix of what was broadcast grows with it.
LEMMA SuffixGrows ==
  ASSUME NEW S, NEW s \in Seq(S), NEW t \in Seq(S), NEW b \in 0 .. Len(s)
  PROVE  /\ SubSeq(s \o t, b + 1, Len(s \o t)) = SubSeq(s, b + 1, Len(s)) \o t
         /\ b \in 0 .. Len(s \o t)
<1>1. PICK u : u = s \o t
  OBVIOUS
<1>2. PICK n \in Nat, k \in Nat : n = Len(s) /\ k = Len(t)
  OBVIOUS
<1>3. u \in Seq(S) /\ Len(u) = n + k
  BY <1>1, <1>2, ConcatProperties
<1>4. /\ b + 1 \in 1 .. Len(u) + 1
      /\ n \in (b + 1) - 1 .. Len(u)
      /\ n + k \in n .. Len(u)
  BY <1>2, <1>3
<1>5. SubSeq(u, b + 1, n) \o SubSeq(u, n + 1, n + k) = SubSeq(u, b + 1, n + k)
  BY <1>3, <1>4, ConcatAdjacentSubSeq
<1>6. SubSeq(u, n + 1, n + k) = t
  BY <1>1, <1>2, <1>3, TailOfConcat
<1>7. SubSeq(u, b + 1, n) = SubSeq(s, b + 1, n)
  <2>1. CASE b < n
    <3>1. b + 1 \in 1 .. Len(s) /\ n \in 1 .. Len(s)
      BY <1>2, <2>1
    <3>2. QED
      BY <1>1, <3>1, SubSeqOfConcat1
  <2>2. CASE ~(b < n)
    <3>1. b + 1 \in Int /\ n \in Int /\ n < b + 1
      BY <1>2, <2>2
    <3>2. QED
      BY <3>1, SubSeqEmpty
  <2>3. QED
    BY <2>1, <2>2
<1>8. SubSeq(u, b + 1, n + k) = SubSeq(s, b + 1, n) \o t
  BY <1>5, <1>6, <1>7
<1>9. b \in 0 .. Len(u)
  BY <1>2, <1>3
<1>10. QED
  BY <1>1, <1>2, <1>3, <1>8, <1>9

\* Steps of clients and heartbeats take subscribers away, but for a subscription.
LEMMA SubscribersLeave ==
  ASSUME BaseInv, NEW c \in Clients,
         \/ \E e \in Executions : Unsubscribe(c, e)
         \/ ClientStep(c)
         \/ Heartbeat(c)
  PROVE  /\ \A o \in Orders : subscribers'[o] \subseteq subscribers[o]
         /\ UNCHANGED engineVars /\ Forget /\ ForgetBefore
<1>1. subscribers \in [Orders -> SUBSET Clients]
  BY DEF BaseInv, ManagerProofs!IndexInv, ManagerProofs!Types
<1>2. ASSUME Manager!ForgetClient(c)
      PROVE  \A o \in Orders : subscribers'[o] \subseteq subscribers[o]
  BY <1>2 DEF Manager!ForgetClient
<1>3. ASSUME NEW e \in Executions, Unsubscribe(c, e)
      PROVE  \A o \in Orders : subscribers'[o] \subseteq subscribers[o]
  BY <1>1, <1>3 DEF Unsubscribe, Manager!Unsubscribe
<1>4. ASSUME ClientStep(c)
      PROVE  \A o \in Orders : subscribers'[o] \subseteq subscribers[o]
  BY <1>2, <1>4
  DEF ClientStep, Manager!SocketCloses, Manager!PeerVanishes, Manager!UnknownMessage,
      Manager!UnparsableMessage, Manager!Pong, Manager!indexVars
<1>5. ASSUME Heartbeat(c)
      PROVE  \A o \in Orders : subscribers'[o] \subseteq subscribers[o]
  BY <1>2, <1>5
  DEF Heartbeat, Manager!Heartbeat, Manager!HeartbeatDrops, Manager!HeartbeatPings,
      Manager!indexVars
<1>6. QED
  BY <1>3, <1>4, <1>5 DEF Unsubscribe, ClientStep, Heartbeat

LEMMA ForgetTypes ==
  ASSUME ToldTypes, Forget
  PROVE  told' \in [Orders -> [Clients -> Seq(EngineProofs!EventTypes)]]
BY DEF ToldTypes, Forget

LEMMA ToldAfterLeaving ==
  ASSUME ToldInv, UNCHANGED engineVars, Forget, ForgetBefore,
         \A o \in Orders : subscribers'[o] \subseteq subscribers[o]
  PROVE  ToldTypes' /\ \A e \in Executions, c \in Clients : ToldOf(e, c)'
<1>1. ToldTypes'
  BY ForgetTypes DEF ToldInv, ToldTypes, ForgetBefore
<1>2. UNCHANGED <<pc, events>>
  BY DEF engineVars
<1>3. ASSUME NEW e \in Executions, NEW c \in Clients PROVE ToldOf(e, c)'
  <2> DEFINE o == OrderId(e)
  <2>1. ToldOf(e, c) /\ o \in Orders
    BY OrdersOfExecutions DEF ToldInv
  <2>2. /\ told'[o][c] = IF c \in subscribers'[o] THEN told[o][c] ELSE <<>>
        /\ before'[o][c] = IF c \in subscribers'[o] THEN before[o][c] ELSE 0
    BY <2>1 DEF Forget, ForgetBefore
  <2>3. Broadcast(e)' = Broadcast(e)
    BY <1>2 DEF Broadcast
  <2>4. QED
    BY <1>2, <2>1, <2>2, <2>3 DEF ToldOf
<1>4. QED
  BY <1>1, <1>3

LEMMA ToldAfterSubscribing ==
  ASSUME ToldInv, NEW d \in Clients, NEW f \in Executions, Subscribe(d, f)
  PROVE  ToldTypes' /\ \A e \in Executions, c \in Clients : ToldOf(e, c)'
<1>1. /\ subscribers \in [Orders -> SUBSET Clients]
      /\ told \in [Orders -> [Clients -> Seq(EngineProofs!EventTypes)]]
      /\ before \in [Orders -> [Clients -> Nat]]
      /\ EngineProofs!TypeOK
  BY DEF ToldInv, ToldTypes, BaseInv, EngineProofs!LifeInv, ManagerProofs!IndexInv,
         ManagerProofs!Types
<1>2. UNCHANGED <<pc, events>> /\ pc[f] # "idle" /\ Forget
  BY DEF Subscribe, engineVars
<1>3. \A e \in Executions : Broadcast(e)' = Broadcast(e) /\ Len(Broadcast(e)) \in Nat
  BY <1>1, <1>2, NewsType, LenProperties DEF Broadcast
<1>4. /\ \A o \in Orders, c \in Clients :
           (o # OrderId(f) \/ c # d) => (c \in subscribers'[o] <=> c \in subscribers[o])
      /\ \A o \in Orders : subscribers[o] \subseteq subscribers'[o]
  <2>1. \/ subscribers' = [subscribers EXCEPT ![OrderId(f)] = @ \cup {d}]
        \/ subscribers' = subscribers
    BY DEF Subscribe, Manager!Subscribe, Manager!AddSubscription, Manager!indexVars
  <2>2. CASE subscribers' = [subscribers EXCEPT ![OrderId(f)] = @ \cup {d}]
    <3>1. \A o \in Orders :
            subscribers'[o] = IF o = OrderId(f) THEN subscribers[o] \cup {d} ELSE subscribers[o]
      BY <1>1, <2>2
    <3>2. QED
      BY <3>1
  <2>3. QED
    BY <2>1, <2>2
<1>5. \A o \in Orders, c \in Clients :
        /\ told'[o][c] = IF c \in subscribers'[o] THEN told[o][c] ELSE <<>>
        /\ before'[o][c] =
             IF o = OrderId(f) /\ c = d /\ d \in subscribers'[o] \ subscribers[o]
             THEN Len(Broadcast(f)) ELSE before[o][c]
  BY <1>1, <1>2 DEF Subscribe, Forget, Broadcast
<1>6. ToldTypes'
  <2>1. before' \in [Orders -> [Clients -> Nat]]
    <3>1. Len(Forwarded(events[f])) \in Nat /\ OrderId(f) \in Orders
      BY <1>3, OrdersOfExecutions DEF Broadcast
    <3>2. QED
      BY <1>1, <3>1 DEF Subscribe
  <2>2. QED
    BY <1>2, <2>1, ForgetTypes DEF ToldInv, ToldTypes
<1>7. ASSUME NEW e \in Executions, NEW c \in Clients PROVE ToldOf(e, c)'
  <2> DEFINE o == OrderId(e)
             told1 == told'[o][c]
             before1 == before'[o][c]
  <2>1. ToldOf(e, c) /\ o \in Orders
    BY OrdersOfExecutions DEF ToldInv
  <2>2. CASE o = OrderId(f) /\ c = d /\ d \in subscribers'[o] \ subscribers[o]
    <3>1. told1 = <<>> /\ before1 = Len(Broadcast(e)) /\ e = f
      BY <1>5, <2>1, <2>2, ExecutionsOfOrders DEF ToldOf
    <3>2. SubSeq(Broadcast(e), Len(Broadcast(e)) + 1, Len(Broadcast(e))) = <<>>
      <4>1. Len(Broadcast(e)) \in Int /\ Len(Broadcast(e)) + 1 \in Int
            /\ Len(Broadcast(e)) < Len(Broadcast(e)) + 1
        BY <1>3
      <4>2. QED
        BY <4>1, SubSeqEmpty
    <3>3. QED
      BY <1>2, <1>3, <2>2, <3>1, <3>2 DEF ToldOf
  <2>3. CASE ~(o = OrderId(f) /\ c = d /\ d \in subscribers'[o] \ subscribers[o])
    <3>1. c \in subscribers'[o] <=> c \in subscribers[o]
      BY <1>4, <2>1, <2>3
    <3>2. before1 = before[o][c] /\ told1 = IF c \in subscribers[o] THEN told[o][c] ELSE <<>>
      BY <1>5, <2>1, <2>3, <3>1
    <3>3. QED
      BY <1>2, <1>3, <2>1, <3>1, <3>2 DEF ToldOf
  <2>4. QED
    BY <2>2, <2>3
<1>8. QED
  BY <1>6, <1>7

\* What a broadcast does to the history, sent or lost.
LEMMA BroadcastTells ==
  ASSUME ToldInv, NEW o \in Orders, NEW news \in Seq(EngineProofs!EventTypes),
         Broadcasts(o, news)
  PROVE  /\ ToldTypes' /\ UNCHANGED before
         /\ \A p \in Orders, c \in Clients :
              told'[p][c] = IF p = o /\ c \in subscribers[o] THEN told[p][c] \o news
                            ELSE told[p][c]
<1>1. told \in [Orders -> [Clients -> Seq(EngineProofs!EventTypes)]]
  BY DEF ToldInv, ToldTypes
<1>2. Hearers(o) = subscribers[o]
  BY SubscribersHear DEF ToldInv
<1>3. told' = [told EXCEPT ![o] = [c \in Clients |->
        IF c \in subscribers[o] THEN told[o][c] \o news ELSE told[o][c]]]
  BY <1>2 DEF Broadcasts
<1>4. UNCHANGED before
  BY DEF Broadcasts
<1>5. \A c \in Clients : told[o][c] \o news \in Seq(EngineProofs!EventTypes)
  BY <1>1, ConcatProperties
<1>6. ToldTypes'
  BY <1>1, <1>3, <1>4, <1>5 DEF ToldInv, ToldTypes
<1>7. QED
  BY <1>1, <1>3, <1>4, <1>6

\* An order is posted once, and posting it changes no other.
LEMMA PostLeavesOthers ==
  ASSUME EngineProofs!TypeOK, NEW f \in Executions, PostOrder(f)
  PROVE  /\ pc[f] = "idle"
         /\ \A e \in Executions \ {f} : pc'[e] = pc[e] /\ events'[e] = events[e]
<1>1. /\ pc \in [Executions -> {"idle"} \cup EngineProofs!Waiting \cup EngineProofs!Ended]
      /\ events \in [Executions -> Seq(EngineProofs!EventTypes)]
  BY DEF EngineProofs!TypeOK
<1>2. EngineProofs!ExecuteOrder(f)
  BY ExecuteAgrees DEF PostOrder
<1>3. pc[f] = "idle" /\ (EngineProofs!FailsAtOnce(f) \/ EngineProofs!StartsRouting(f))
  BY <1>2 DEF EngineProofs!ExecuteOrder, EngineProofs!FirstListenerThrows
<1>4. CASE EngineProofs!FailsAtOnce(f)
  BY <1>1, <1>3, <1>4
  DEF EngineProofs!FailsAtOnce, EngineProofs!Fails, EngineProofs!HandleError,
      EngineProofs!Emit
<1>5. CASE EngineProofs!StartsRouting(f)
  BY <1>1, <1>3, <1>5 DEF EngineProofs!StartsRouting, EngineProofs!Emit
<1>6. QED
  BY <1>3, <1>4, <1>5

LEMMA ToldAfterPosting ==
  ASSUME ToldInv, EngineProofs!TypeOK', NEW f \in Executions, PostOrder(f)
  PROVE  ToldTypes' /\ \A e \in Executions, c \in Clients : ToldOf(e, c)'
<1>1. /\ pc \in [Executions -> {"idle"} \cup EngineProofs!Waiting \cup EngineProofs!Ended]
      /\ events \in [Executions -> Seq(EngineProofs!EventTypes)]
      /\ subscribers \in [Orders -> SUBSET Clients]
  BY DEF ToldInv, BaseInv, EngineProofs!LifeInv, EngineProofs!TypeOK,
         ManagerProofs!IndexInv, ManagerProofs!Types
<1>2. /\ pc[f] = "idle"
      /\ \A e \in Executions \ {f} : pc'[e] = pc[e] /\ events'[e] = events[e]
  <2>1. EngineProofs!TypeOK
    BY DEF ToldInv, BaseInv, EngineProofs!LifeInv
  <2>2. QED
    BY <2>1, PostLeavesOthers
<1>3. /\ ToldTypes' /\ UNCHANGED before
      /\ \A o \in Orders, c \in Clients :
           told'[o][c] = IF o = OrderId(f) /\ c \in subscribers[o]
                         THEN told[o][c] \o (Forwarded(events'[f]) \o <<"PENDING">>)
                         ELSE told[o][c]
  <2>1. Broadcasts(OrderId(f), Forwarded(events'[f]) \o <<"PENDING">>)
    BY DEF PostOrder
  <2> DEFINE news == Forwarded(events'[f]) \o <<"PENDING">>
  <2>2. news \in Seq(EngineProofs!EventTypes) /\ OrderId(f) \in Orders
    BY PostNews, OrdersOfExecutions
  <2> HIDE DEF news
  <2>3. /\ ToldTypes' /\ UNCHANGED before
        /\ \A o \in Orders, c \in Clients :
             told'[o][c] = IF o = OrderId(f) /\ c \in subscribers[OrderId(f)]
                           THEN told[o][c] \o news ELSE told[o][c]
    <3>1. Broadcasts(OrderId(f), news)
      BY <2>1 DEF news
    <3>2. QED
      BY <2>2, <3>1, BroadcastTells
  <2>4. QED
    BY <2>3 DEF news
<1>4. UNCHANGED subscribers
  BY DEF PostOrder, sessionVars
<1>5. ASSUME NEW e \in Executions, NEW c \in Clients PROVE ToldOf(e, c)'
  <2>1. ToldOf(e, c) /\ OrderId(e) \in Orders
    BY OrdersOfExecutions DEF ToldInv
  <2>2. CASE e = f
    <3>1. c \notin subscribers[OrderId(e)]
      BY <1>2, <2>1, <2>2 DEF ToldOf
    <3>2. QED
      BY <1>3, <1>4, <2>1, <3>1 DEF ToldOf
  <2>3. CASE e # f
    <3>1. OrderId(e) # OrderId(f) /\ Broadcast(e)' = Broadcast(e)
      BY <1>2, <2>3, ExecutionsOfOrders DEF Broadcast
    <3>2. QED
      BY <1>2, <1>3, <1>4, <2>1, <2>3, <3>1 DEF ToldOf
  <2>4. QED
    BY <2>2, <2>3
<1>6. QED
  BY <1>3, <1>5

LEMMA ToldAfterAdvancing ==
  ASSUME ToldInv, NEW f \in Executions, Advance(f)
  PROVE  ToldTypes' /\ \A e \in Executions, c \in Clients : ToldOf(e, c)'
<1>1. /\ EngineProofs!TypeOK
      /\ pc \in [Executions -> {"idle"} \cup EngineProofs!Waiting \cup EngineProofs!Ended]
      /\ subscribers \in [Orders -> SUBSET Clients]
  BY DEF ToldInv, BaseInv, EngineProofs!LifeInv, EngineProofs!TypeOK,
         ManagerProofs!IndexInv, ManagerProofs!Types
<1>2. PICK news \in Seq(EngineProofs!EventTypes) :
        /\ Broadcasts(OrderId(f), news)
        /\ Forwarded(events'[f]) = Forwarded(events[f]) \o news
        /\ \A e \in Executions \ {f} : events'[e] = events[e]
  BY <1>1, AdvanceNews
<1>3. \A e \in Executions : pc[e] # "idle" => pc'[e] # "idle"
  <2>1. \E w : w # "idle" /\ pc' = [pc EXCEPT ![f] = w]
    <3>1. EngineProofs!Stage(f)
      BY StageAgrees DEF Advance
    <3>2. QED
      BY <3>1
      DEF EngineProofs!Stage, EngineProofs!RouteOrder, EngineProofs!RoutingFails,
          EngineProofs!BuildTransaction, EngineProofs!SubmitTransaction,
          EngineProofs!Confirm, EngineProofs!NextStage, EngineProofs!Fails
  <2>2. QED
    BY <1>1, <2>1
<1>4. /\ ToldTypes' /\ UNCHANGED before
      /\ \A o \in Orders, c \in Clients :
           told'[o][c] = IF o = OrderId(f) /\ c \in subscribers[o]
                         THEN told[o][c] \o news ELSE told[o][c]
  BY <1>2, OrdersOfExecutions, BroadcastTells
<1>5. UNCHANGED subscribers
  BY DEF Advance, sessionVars
<1>6. ASSUME NEW e \in Executions, NEW c \in Clients PROVE ToldOf(e, c)'
  <2> DEFINE o == OrderId(e)
  <2>1. ToldOf(e, c) /\ o \in Orders
    BY OrdersOfExecutions DEF ToldInv
  <2>2. CASE e = f
    <3> DEFINE sent == Broadcast(e)
               b == before[o][c]
    <3>1. sent \in Seq(EngineProofs!EventTypes) /\ Broadcast(e)' = sent \o news
      BY <1>1, <1>2, <2>2, NewsType DEF Broadcast
    <3>2. CASE c \in subscribers[o]
      <4>1. /\ pc'[e] # "idle" /\ b \in 0 .. Len(sent)
            /\ told[o][c] = SubSeq(sent, b + 1, Len(sent))
        BY <1>3, <2>1, <3>2 DEF ToldOf
      <4>2. told'[o][c] = told[o][c] \o news /\ before'[o][c] = b /\ c \in subscribers'[o]
        BY <1>4, <1>5, <2>1, <2>2, <3>2
      <4> HIDE DEF sent, b
      <4>3. /\ SubSeq(sent \o news, b + 1, Len(sent \o news))
                 = SubSeq(sent, b + 1, Len(sent)) \o news
            /\ b \in 0 .. Len(sent \o news)
        BY <3>1, <4>1, SuffixGrows
      <4>4. QED
        BY <3>1, <4>1, <4>2, <4>3 DEF ToldOf
    <3>3. CASE c \notin subscribers[o]
      BY <1>4, <1>5, <2>1, <3>3 DEF ToldOf
    <3>4. QED
      BY <3>2, <3>3
  <2>3. CASE e # f
    <3>1. OrderId(e) # OrderId(f) /\ Broadcast(e)' = Broadcast(e)
      BY <1>2, <2>3, ExecutionsOfOrders DEF Broadcast
    <3>2. QED
      BY <1>3, <1>4, <1>5, <2>1, <3>1 DEF ToldOf
  <2>4. QED
    BY <2>2, <2>3
<1>7. QED
  BY <1>4, <1>6

LEMMA ToldStep == ToldInv /\ [Next]_vars => ToldInv'
<1> SUFFICES ASSUME ToldInv, [Next]_vars PROVE ToldInv'
  OBVIOUS
<1> DEFINE Goal == ToldTypes' /\ \A e \in Executions, c \in Clients : ToldOf(e, c)'
<1>1. BaseInv' /\ SocketsOpen'
  BY BaseStep, SocketsStep DEF ToldInv
<1>2. ASSUME NEW e \in Executions, PostOrder(e) PROVE Goal
  <2>1. EngineProofs!TypeOK'
    BY <1>1 DEF BaseInv, EngineProofs!LifeInv
  <2>2. QED
    BY <1>2, <2>1, ToldAfterPosting
<1>3. ASSUME NEW e \in Executions, Advance(e) PROVE Goal
  BY <1>3, ToldAfterAdvancing
<1>4. ASSUME UNCHANGED <<engineVars, subscribers, told, before>> PROVE Goal
  BY <1>4 DEF ToldInv, ToldTypes, ToldOf, Broadcast, engineVars
<1>5. ASSUME NEW c \in Clients, Connect(c) PROVE Goal
  BY <1>4, <1>5 DEF Connect, Manager!RegisterClient, Manager!indexVars
<1>6. ASSUME NEW c \in Clients, NEW e \in Executions, Subscribe(c, e) PROVE Goal
  BY <1>6, ToldAfterSubscribing
<1>7. ASSUME NEW c \in Clients,
             (\E e \in Executions : Unsubscribe(c, e)) \/ ClientStep(c) \/ Heartbeat(c)
      PROVE  Goal
  <2>1. BaseInv
    BY DEF ToldInv
  <2>2. /\ \A o \in Orders : subscribers'[o] \subseteq subscribers[o]
        /\ UNCHANGED engineVars /\ Forget /\ ForgetBefore
    BY <1>7, <2>1, SubscribersLeave
  <2>3. QED
    BY <2>2, ToldAfterLeaving
<1>8. ASSUME UNCHANGED vars PROVE Goal
  <2>1. UNCHANGED <<engineVars, subscribers, told, before>>
    BY <1>8 DEF vars, sessionVars
  <2>2. QED
    BY <1>4, <2>1
<1> HIDE DEF Goal
<1>9. Goal
  <2>1. CASE Next
    BY <1>2, <1>3, <1>5, <1>6, <1>7, <2>1 DEF Next
  <2>2. QED
    BY <1>8, <2>1
<1>10. QED
  BY <1>1, <1>9 DEF Goal, ToldInv

LEMMA ToldInit == Init => ToldInv
<1> SUFFICES ASSUME Init PROVE ToldInv
  OBVIOUS
<1>1. BaseInv
  BY BaseInit
<1>2. clients = {} /\ subscribers = [o \in Orders |-> {}]
  BY DEF Init, Manager!Init
<1>3. /\ told = [o \in Orders |-> [c \in Clients |-> <<>>]]
      /\ before = [o \in Orders |-> [c \in Clients |-> 0]]
  BY DEF Init
<1>4. ToldTypes
  <2>1. <<>> \in Seq(EngineProofs!EventTypes)
    BY EmptySeq
  <2>2. QED
    BY <1>3, <2>1 DEF ToldTypes
<1>5. QED
  BY <1>1, <1>2, <1>3, <1>4, OrdersOfExecutions DEF ToldInv, SocketsOpen, ToldOf

LEMMA ToldHolds == Spec => []ToldInv
BY ToldInit, ToldStep, PTL DEF Spec

(* A subscriber has been told everything that was broadcast about its order *)
(* since it subscribed, in that order and once, and nothing from before,   *)
(* for any number of orders, clients and subscriptions: a broadcast reaches *)
(* all of them, and no step of a client or a heartbeat loses a message.    *)
THEOREM NothingMissed == Spec => []NothingMissedSinceSubscribing
<1>1. ToldInv => NothingMissedSinceSubscribing
  BY DEF ToldInv, ToldOf, Hearers, NothingMissedSinceSubscribing,
         BaseInv, ManagerProofs!IndexInv, ManagerProofs!Types
<1>2. QED
  BY <1>1, ToldHolds, PTL

-----------------------------------------------------------------------------
(* What a subscriber concludes from the last message.                      *)

\* An event that is forwarded is the last broadcast until the next.
LEMMA LastForwarded ==
  ASSUME NEW S, NEW s \in Seq(S), NEW x \in S, x # "building"
  PROVE  Forwarded(s \o <<x>>) # <<>> /\ Last(Forwarded(s \o <<x>>)) = x
<1>1. Forwarded(s \o <<x>>) = Append(Forwarded(s), x)
  BY AppendIsConcat, ForwardedAppend
<1>2. PICK sent \in Seq(S) : sent = Forwarded(s)
  BY ForwardedType
<1>3. Append(sent, x) # <<>> /\ Last(Append(sent, x)) = x
  BY <1>2, AppendProperties DEF Last
<1>4. QED
  BY <1>1, <1>2, <1>3

\* The last broadcast after m stages, none of which ends with `building'.
LEMMA LastOfStages ==
  ASSUME NEW m \in {2, 4, 6, 7, 8}
  PROVE  /\ Forwarded(EngineProofs!Stages(m)) # <<>>
         /\ Last(Forwarded(EngineProofs!Stages(m))) = EngineProofs!Pipeline[m]
<1> DEFINE P == EngineProofs!Pipeline
           T == EngineProofs!EventTypes
<1>1. P \in Seq(T) /\ m \in 1 .. Len(P) /\ P[m] \in T /\ P[m] # "building"
  BY EngineProofs!PipelineElements, EngineFinite, ServiceAssumption DEF EngineProofs!EventTypes
<1>2. m - 1 \in 0 .. Len(P)
  BY <1>1
<1> HIDE DEF P, T
<1>3. SubSeq(P, 1, m - 1) \in Seq(T)
  BY <1>1, <1>2
<1>4. SubSeq(P, 1, m) = SubSeq(P, 1, m - 1) \o <<P[m]>>
  <2>1. 1 \in 1 .. Len(P) /\ m \in 1 .. Len(P)
    BY <1>1
  <2>2. QED
    BY <1>1, <2>1, SubSeqRecursiveSecond
<1>5. EngineProofs!Stages(m) = SubSeq(P, 1, m)
  BY DEF EngineProofs!Stages, P
<1>6. /\ Forwarded(SubSeq(P, 1, m - 1) \o <<P[m]>>) # <<>>
      /\ Last(Forwarded(SubSeq(P, 1, m - 1) \o <<P[m]>>)) = P[m]
  BY <1>1, <1>3, LastForwarded
<1>7. QED
  BY <1>4, <1>5, <1>6 DEF P

(* Between two steps something has been broadcast about every order that   *)
(* was posted, and the last broadcast announces its state: a stage that    *)
(* emits `building', which is not broadcast, emits the next state right    *)
(* after it.                                                               *)
LEMMA LastBroadcast ==
  ASSUME EngineProofs!LifeInv, NEW e \in Executions
  PROVE  /\ Broadcast(e) # <<>> <=> pc[e] # "idle"
         /\ Broadcast(e) # <<>> => StatusOf(Last(Broadcast(e))) = state[e]
<1>1. EngineProofs!Life(e)
  BY DEF EngineProofs!LifeInv
<1>2. /\ EngineProofs!Pipeline[2] = "ROUTING" /\ EngineProofs!Pipeline[4] = "BUILDING"
      /\ EngineProofs!Pipeline[6] = "SUBMITTED" /\ EngineProofs!Pipeline[7] = "submission"
      /\ EngineProofs!Pipeline[8] = "confirmation"
  BY EngineProofs!PipelineElements, EngineFinite, ServiceAssumption
<1>3. /\ Last(Forwarded(EngineProofs!Stages(2))) = "ROUTING"
      /\ Last(Forwarded(EngineProofs!Stages(4))) = "BUILDING"
      /\ Last(Forwarded(EngineProofs!Stages(6))) = "SUBMITTED"
      /\ Last(Forwarded(EngineProofs!Stages(7))) = "submission"
      /\ Last(Forwarded(EngineProofs!Stages(8))) = "confirmation"
      /\ \A m \in {2, 4, 6, 7, 8} : Forwarded(EngineProofs!Stages(m)) # <<>>
  BY <1>2, LastOfStages
<1>4. CASE pc[e] = "idle"
  <2>1. events[e] = EngineProofs!Stages(0)
    BY <1>1, <1>4 DEF EngineProofs!Life, EngineProofs!IsFailed
  <2>2. EngineProofs!Stages(0) = <<>>
    BY EngineProofs!StagesGrow, EngineFinite, ServiceAssumption
  <2>3. QED
    BY <1>4, <2>1, <2>2, ForwardedEmpty DEF Broadcast
<1>5. CASE EngineProofs!IsFailed(e)
  <2>1. PICK n \in 0 .. 8 : events[e] = EngineProofs!Stages(n) \o <<"error">>
    BY <1>5 DEF EngineProofs!IsFailed, EngineProofs!FailedEvents
  <2>2. \A k \in 0 .. 8 : EngineProofs!Stages(k) \in Seq(EngineProofs!EventTypes)
    BY EngineProofs!StagesGrow, EngineFinite, ServiceAssumption
  <2>3. PICK stages \in Seq(EngineProofs!EventTypes) : stages = EngineProofs!Stages(n)
    BY <2>1, <2>2
  <2>4. "error" \in EngineProofs!EventTypes /\ "error" # "building"
    BY DEF EngineProofs!EventTypes
  <2>5. /\ Forwarded(stages \o <<"error">>) # <<>>
        /\ Last(Forwarded(stages \o <<"error">>)) = "error"
    BY <2>3, <2>4, LastForwarded
  <2>6. /\ Broadcast(e) # <<>> /\ Last(Broadcast(e)) = "error"
        /\ state[e] = "FAILED" /\ pc[e] # "idle"
    BY <1>5, <2>1, <2>3, <2>5 DEF Broadcast, EngineProofs!IsFailed
  <2>7. QED
    BY <2>6 DEF StatusOf
<1>6. CASE pc[e] # "idle" /\ ~EngineProofs!IsFailed(e)
  BY <1>1, <1>3, <1>6 DEF EngineProofs!Life, Broadcast, StatusOf
<1>7. QED
  BY <1>4, <1>5, <1>6

(* The last message a subscriber got about its order tells the state the   *)
(* order is in now, for any number of orders and clients.                  *)
THEOREM StateKnown == Spec => []SubscribersKnowTheState
<1>1. ASSUME ToldInv PROVE SubscribersKnowTheState
  <2> SUFFICES ASSUME NEW e \in Executions, NEW c \in Hearers(OrderId(e)),
                      told[OrderId(e)][c] # <<>>
               PROVE  StatusOf(Last(told[OrderId(e)][c])) = state[e]
    BY DEF SubscribersKnowTheState
  <2>1. PICK heard : heard = told[OrderId(e)][c]
    OBVIOUS
  <2>2. PICK sent : sent = Broadcast(e)
    OBVIOUS
  <2>3. PICK b : b = before[OrderId(e)][c]
    OBVIOUS
  <2>4. c \in Clients /\ c \in subscribers[OrderId(e)] /\ ToldOf(e, c)
    BY <1>1 DEF ToldInv, BaseInv, ManagerProofs!IndexInv, ManagerProofs!Types, Hearers
  <2>5. heard = SubSeq(sent, b + 1, Len(sent)) /\ b \in 0 .. Len(sent)
    BY <2>1, <2>2, <2>3, <2>4 DEF ToldOf
  <2>6. sent \in Seq(EngineProofs!EventTypes)
    BY <1>1, <2>2, NewsType DEF ToldInv, BaseInv, EngineProofs!LifeInv, Broadcast
  <2>7. b < Len(sent)
    <3>1. ASSUME ~(b < Len(sent)) PROVE FALSE
      <4>1. b + 1 \in Int /\ Len(sent) \in Int /\ Len(sent) < b + 1
        BY <2>5, <2>6, <3>1
      <4>2. heard = <<>>
        BY <2>5, <4>1, SubSeqEmpty
      <4>3. QED
        BY <2>1, <4>2
    <3>2. QED
      BY <3>1
  <2>8. Last(heard) = Last(sent)
    <3>1. b + 1 \in Int /\ Len(sent) \in Int /\ b + 1 <= Len(sent)
      BY <2>5, <2>6, <2>7
    <3>2. \A i \in b + 1 .. Len(sent) : sent[i] \in EngineProofs!EventTypes
      BY <2>5, <2>6
    <3>3. /\ Len(heard) = IF b + 1 <= Len(sent) THEN Len(sent) - (b + 1) + 1 ELSE 0
          /\ \A i \in 1 .. Len(sent) - (b + 1) + 1 : heard[i] = sent[b + 1 + i - 1]
      BY <2>5, <3>1, <3>2, SubSeqProperties
    <3>4. heard[Len(heard)] = sent[Len(sent)]
      BY <2>5, <3>1, <3>3
    <3>5. QED
      BY <3>4 DEF Last
  <2>9. sent # <<>>
    BY <2>5, <2>6, <2>7
  <2>10. StatusOf(Last(sent)) = state[e]
    BY <1>1, <2>2, <2>9, LastBroadcast DEF ToldInv, BaseInv
  <2>11. QED
    BY <2>1, <2>8, <2>10
<1>2. QED
  BY <1>1, ToldHolds, PTL

-----------------------------------------------------------------------------
(* The numbers of the messages, with several broadcasts in a step.         *)

(* The counter is not behind what a client with a session has received,    *)
(* and a socket that was never opened has received nothing.                *)
NumbersInv ==
  /\ BaseInv
  /\ \A c \in clients : lastReceived[c] <= messageSequence
  /\ \A c \in Clients : readyState[c] = "none" => lastReceived[c] = Manager!Nothing

\* Sessions go on or end, and what they receive is numbered from the counter on.
Numbered ==
  /\ clients' \subseteq clients
  /\ messageSequence <= messageSequence'
  /\ \A c \in Clients :
       \/ lastReceived'[c] = lastReceived[c]
       \/ /\ c \in clients
          /\ messageSequence <= lastReceived'[c] /\ lastReceived'[c] <= messageSequence'
  /\ \A c \in Clients : readyState'[c] = "none" => readyState[c] = "none"

\* A socket opens, for a client that has never had one.
Opens ==
  /\ UNCHANGED <<messageSequence, lastReceived>>
  /\ \A c \in clients' \ clients : readyState[c] = "none"
  /\ \A c \in Clients : readyState'[c] = "none" => readyState[c] = "none"

LEMMA SendNumbers ==
  ASSUME Numbers, NEW to, Manager!Send(to), clients' \subseteq clients, UNCHANGED readyState
  PROVE  Numbered
BY ServiceAssumption DEF Numbers, Manager!Send, Manager!NextNumber, Numbered

LEMMA BroadcastNumbers ==
  ASSUME Numbers, NEW o \in Orders, NEW S, NEW news \in Seq(S), Broadcasts(o, news),
         UNCHANGED sessionVars
  PROVE  Numbered
<1>1. UNCHANGED <<clients, readyState>>
  BY DEF sessionVars
<1>2. CASE subscribers[o] = {} \/ news = <<>>
  BY <1>1, <1>2, ServiceAssumption DEF Broadcasts, sendingVars, Numbers, Numbered
<1>3. CASE subscribers[o] # {} /\ news # <<>>
  <2> DEFINE last == messageSequence + Len(news) - 1
             Capped(n) == IF n < MaxSequence THEN n ELSE MaxSequence
  <2>1. /\ messageSequence' = Capped(last + 1)
        /\ lastReceived' = [c \in Clients |->
             IF c \in Hearers(o) THEN Capped(last) ELSE lastReceived[c]]
    BY <1>3 DEF Broadcasts
  <2>2. Len(news) \in Nat \ {0}
    BY <1>3, EmptySeq
  <2>3. /\ messageSequence <= Capped(last) /\ Capped(last) <= Capped(last + 1)
        /\ messageSequence <= Capped(last + 1)
    BY <2>2, ServiceAssumption DEF Numbers
  <2> HIDE DEF last, Capped
  <2>4. \A c \in Clients : c \in Hearers(o) => c \in clients
    BY DEF Hearers
  <2>5. QED
    BY <1>1, <2>1, <2>3, <2>4 DEF Numbered
<1>4. QED
  BY <1>2, <1>3

LEMMA StepNumbers ==
  ASSUME BaseInv, [Next]_vars
  PROVE  Numbered \/ Opens
<1> DEFINE Goal == Numbered \/ Opens
<1>1. /\ Numbers /\ EngineProofs!TypeOK /\ EngineProofs!TypeOK'
      /\ readyState \in [Clients -> ManagerProofs!ReadyStates]
      /\ clients \subseteq Clients
  BY EngineLife DEF BaseInv, EngineProofs!LifeInv, ManagerProofs!IndexInv, ManagerProofs!Types
<1>2. ASSUME NEW e \in Executions, PostOrder(e) PROVE Goal
  BY <1>1, <1>2, PostNews, OrdersOfExecutions, BroadcastNumbers DEF PostOrder
<1>3. ASSUME NEW e \in Executions, Advance(e) PROVE Goal
  <2>1. PICK news \in Seq(EngineProofs!EventTypes) : Broadcasts(OrderId(e), news)
    BY <1>1, <1>3, AdvanceNews
  <2>2. QED
    BY <1>1, <1>3, <2>1, OrdersOfExecutions, BroadcastNumbers DEF Advance
<1>4. ASSUME NEW c \in Clients, Connect(c) PROVE Goal
  BY <1>1, <1>4 DEF Connect, Manager!RegisterClient, Opens
<1>5. ASSUME NEW c \in Clients, NEW e \in Executions, Subscribe(c, e) \/ Unsubscribe(c, e)
      PROVE  Goal
  BY <1>1, <1>5, SendNumbers
  DEF Subscribe, Unsubscribe, Manager!Subscribe, Manager!Unsubscribe, Manager!Reply
<1>6. ASSUME NEW c \in Clients, ClientStep(c) PROVE Goal
  <2>1. CASE Manager!UnknownMessage(c) \/ Manager!UnparsableMessage(c)
    BY <1>1, <2>1, SendNumbers
    DEF Manager!UnknownMessage, Manager!UnparsableMessage, Manager!Reply,
        Manager!sessionVars
  <2>2. CASE Manager!SocketCloses(c)
    BY <1>1, <2>2 DEF Manager!SocketCloses, Manager!ForgetClient, Opens
  <2>3. CASE Manager!PeerVanishes(c) \/ Manager!Pong(c)
    BY <1>1, <2>3
    DEF Manager!PeerVanishes, Manager!Pong, Manager!sessionVars, Manager!socketVars, Opens
  <2>4. QED
    BY <1>6, <2>1, <2>2, <2>3 DEF ClientStep
<1>7. ASSUME NEW c \in Clients, Heartbeat(c) PROVE Goal
  <2>1. CASE Manager!HeartbeatDrops(c)
    BY <2>1 DEF Manager!HeartbeatDrops, Manager!ForgetClient, Manager!socketVars, Opens
  <2>2. CASE Manager!HeartbeatPings(c)
    BY <1>1, <2>2, ServiceAssumption
    DEF Manager!HeartbeatPings, Manager!NextNumber, Manager!socketVars, Numbers, Numbered
  <2>3. QED
    BY <1>7, <2>1, <2>2 DEF Heartbeat, Manager!Heartbeat
<1>8. ASSUME UNCHANGED vars PROVE Goal
  BY <1>8 DEF vars, sessionVars, sendingVars, Opens
<1>9. QED
  BY <1>2, <1>3, <1>4, <1>5, <1>6, <1>7, <1>8 DEF Next

LEMMA NumbersStep == NumbersInv /\ [Next]_vars => NumbersInv'
<1> SUFFICES ASSUME NumbersInv, [Next]_vars PROVE NumbersInv'
  OBVIOUS
<1>1. BaseInv /\ BaseInv'
  BY BaseStep DEF NumbersInv
<1>2. /\ messageSequence \in Nat /\ messageSequence' \in Nat
      /\ lastReceived \in [Clients -> Int] /\ lastReceived' \in [Clients -> Int]
      /\ clients \subseteq Clients /\ clients' \subseteq Clients
      /\ \A c \in clients : readyState[c] # "none"
  BY <1>1, ServiceAssumption
  DEF BaseInv, Numbers, Manager!Nothing, ManagerProofs!IndexInv, ManagerProofs!Types,
      ManagerProofs!SessionsHaveSockets
<1>3. CASE Numbered
  BY <1>1, <1>2, <1>3 DEF Numbered, NumbersInv
<1>4. CASE Opens
  BY <1>1, <1>2, <1>4 DEF Opens, NumbersInv, Manager!Nothing
<1>5. QED
  BY <1>1, <1>3, <1>4, StepNumbers

LEMMA NumbersHold == Spec => []NumbersInv
<1>1. Init => NumbersInv
  BY BaseInit DEF Init, Manager!Init, NumbersInv
<1>2. QED
  BY <1>1, NumbersStep, PTL DEF Spec

(* The numbers a client receives only grow in the service too, where a     *)
(* stage sends two broadcasts in a step, replies and broadcasts about      *)
(* several orders mix, and the POST route broadcasts once more.            *)
THEOREM NumbersGrowInService == Spec => Manager!NumbersGrow
<1>1. ASSUME NumbersInv, [Next]_vars
      PROVE  [\A c \in Clients : lastReceived'[c] # lastReceived[c] =>
                lastReceived'[c] > lastReceived[c]]_(Manager!vars)
  <2>1. BaseInv /\ lastReceived \in [Clients -> Int] /\ messageSequence \in Nat
    BY <1>1, ServiceAssumption DEF NumbersInv, BaseInv, Numbers, Manager!Nothing
  <2>2. lastReceived' \in [Clients -> Int]
    BY <1>1, <2>1, BaseStep, ServiceAssumption DEF BaseInv, Numbers, Manager!Nothing
  <2>3. ASSUME NEW c \in Clients, lastReceived'[c] # lastReceived[c]
        PROVE  lastReceived'[c] > lastReceived[c]
    <3>1. c \in clients /\ messageSequence <= lastReceived'[c]
      BY <1>1, <2>1, <2>3, StepNumbers DEF Opens, Numbered
    <3>2. QED
      BY <1>1, <2>1, <2>2, <2>3, <3>1 DEF NumbersInv
  <2>4. QED
    BY <2>3
<1>2. QED
  BY NumbersHold, <1>1, PTL DEF Spec, Manager!NumbersGrow

(* A client that was dropped stays out of the service: no broadcast about  *)
(* an order reaches it and nothing it still sends subscribes it again.     *)
THEOREM DroppedStaysOutOfService == Spec => Manager!DroppedStaysOut
<1>1. ASSUME BaseInv, [Next]_vars, NEW c \in Clients, Manager!Dropped(c)
      PROVE  /\ Manager!Dropped(c)'
             /\ lastReceived'[c] = lastReceived[c]
             /\ \A o \in Orders : c \notin subscribers'[o]
  <2>1. c \notin clients /\ readyState[c] # "none"
    BY <1>1 DEF Manager!Dropped
  <2>2. BaseInv' /\ (Numbered \/ Opens)
    BY <1>1, BaseStep, StepNumbers
  <2>3. c \notin clients' /\ readyState'[c] # "none" /\ lastReceived'[c] = lastReceived[c]
    BY <2>1, <2>2 DEF Numbered, Opens
  <2>4. \A o \in Orders : c \notin subscribers'[o]
    BY <2>2, <2>3
    DEF BaseInv, ManagerProofs!IndexInv, ManagerProofs!SubscriptionIndexesAgree
  <2>5. QED
    BY <2>3, <2>4 DEF Manager!Dropped
<1>2. BaseInv /\ [Next]_vars =>
        [\A c \in Clients : Manager!Dropped(c) =>
           /\ Manager!Dropped(c)'
           /\ lastReceived'[c] = lastReceived[c]
           /\ \A o \in Orders : c \notin subscribers'[o]]_(Manager!vars)
  BY <1>1
<1>3. QED
  BY BaseInit, BaseStep, <1>2, PTL DEF Spec, Manager!DroppedStaysOut

-----------------------------------------------------------------------------
(* The service as a feed.                                                  *)

\* A stage of an execution is the end of one of its awaits.
LEMMA OpenWhileAdvancing ==
  ASSUME ToldInv, NEW e \in Executions, Advance(e)
  PROVE  ~Feed!Closed(e)
<1>1. EngineProofs!Stage(e)
  BY StageAgrees DEF Advance
<1>2. pc[e] \in EngineProofs!Waiting
  BY <1>1
  DEF EngineProofs!Stage, EngineProofs!RouteOrder, EngineProofs!RoutingFails,
      EngineProofs!BuildTransaction, EngineProofs!SubmitTransaction, EngineProofs!Confirm,
      EngineProofs!Waiting
<1>3. EngineProofs!LifeInv /\ EngineProofs!Life(e)
  BY DEF ToldInv, BaseInv, EngineProofs!LifeInv
<1>4. state[e] \notin {"CONFIRMED", "FAILED"}
  BY <1>2, <1>3 DEF EngineProofs!Life, EngineProofs!IsFailed, EngineProofs!Waiting
<1>5. Broadcast(e) # <<>> => StatusOf(Last(Broadcast(e))) = state[e]
  BY <1>3, LastBroadcast
<1>6. \A type \in Outcomes : StatusOf(type) \in {"CONFIRMED", "FAILED"}
  BY DEF Outcomes, StatusOf
<1>7. QED
  BY <1>4, <1>5, <1>6 DEF Feed!Closed, Feed!Last, Last

\* Broadcasts that are new reach whoever follows the order.
LEMMA BroadcastsArePublished ==
  ASSUME ToldTypes, NEW e \in Executions, ~Feed!Closed(e),
         NEW news \in Seq(EngineProofs!EventTypes),
         Broadcast(e) \in Seq(EngineProofs!EventTypes),
         Broadcast(e)' = Broadcast(e) \o news,
         \A f \in Executions \ {e} : Broadcast(f)' = Broadcast(f),
         ToldTypes', UNCHANGED subscribers,
         \A f \in Executions, c \in Clients :
           told'[OrderId(f)][c] =
             IF f = e /\ c \in subscribers[OrderId(e)] THEN told[OrderId(e)][c] \o news
             ELSE told[OrderId(f)][c]
  PROVE  Feed!Publish(e)
<1> DEFINE log == [f \in Executions |-> Broadcast(f)]
           read == [f \in Executions |-> told[OrderId(f)]]
           following == [f \in Executions |-> subscribers[OrderId(f)]]
<1>1. SubSeq(log'[e], Len(log[e]) + 1, Len(log'[e])) = news
  BY TailOfConcat
<1>2. log' = [log EXCEPT ![e] = @ \o news]
  OBVIOUS
<1>3. read' = [read EXCEPT ![e] = [c \in Clients |->
                IF c \in following[e] THEN @[c] \o news ELSE @[c]]]
  <2>1. \A f \in Executions : told[OrderId(f)] \in [Clients -> Seq(EngineProofs!EventTypes)]
                             /\ told'[OrderId(f)] \in [Clients -> Seq(EngineProofs!EventTypes)]
    BY OrdersOfExecutions DEF ToldTypes
  <2>2. \A f \in Executions \ {e} : told'[OrderId(f)] = told[OrderId(f)]
    BY <2>1
  <2>3. told'[OrderId(e)] = [c \in Clients |->
          IF c \in subscribers[OrderId(e)] THEN told[OrderId(e)][c] \o news
          ELSE told[OrderId(e)][c]]
    BY <2>1
  <2>4. QED
    BY <2>2, <2>3
<1>4. following' = following
  OBVIOUS
<1>5. QED
  BY <1>1, <1>2, <1>3, <1>4 DEF Feed!Publish

\* Forgetting what was told about orders a client has left is leaving them.
LEMMA ForgettingIsLeaving ==
  ASSUME ToldInv, NEW c \in Clients, UNCHANGED events, Forget,
         \A o \in Orders : \/ subscribers'[o] = subscribers[o]
                           \/ subscribers'[o] = subscribers[o] \ {c}
  PROVE  \E left \in SUBSET Executions : Feed!Leave(c, left)
<1> DEFINE left == {e \in Executions : c \notin subscribers'[OrderId(e)]}
           read == [e \in Executions |-> told[OrderId(e)]]
           following == [e \in Executions |-> subscribers[OrderId(e)]]
<1>1. \A e \in Executions : OrderId(e) \in Orders
  BY OrdersOfExecutions
<1>2. following' = [e \in Executions |-> IF e \in left THEN following[e] \ {c} ELSE following[e]]
  BY <1>1
<1>3. \A e \in Executions, d \in Clients :
        told'[OrderId(e)][d] = IF d = c /\ e \in left THEN <<>> ELSE told[OrderId(e)][d]
  <2> SUFFICES ASSUME NEW e \in Executions, NEW d \in Clients
               PROVE  told'[OrderId(e)][d] =
                        IF d = c /\ e \in left THEN <<>> ELSE told[OrderId(e)][d]
    OBVIOUS
  <2>1. told'[OrderId(e)][d] =
          IF d \in subscribers'[OrderId(e)] THEN told[OrderId(e)][d] ELSE <<>>
    BY <1>1 DEF Forget
  <2>2. d \notin subscribers[OrderId(e)] => told[OrderId(e)][d] = <<>>
    BY DEF ToldInv, ToldOf
  <2>3. QED
    BY <1>1, <2>1, <2>2
<1>4. read' = [e \in Executions |-> [d \in Clients |->
               IF d = c /\ e \in left THEN <<>> ELSE read[e][d]]]
  <2>1. \A e \in Executions :
          told'[OrderId(e)] = [d \in Clients |-> told'[OrderId(e)][d]]
    BY <1>1 DEF Forget
  <2>2. QED
    BY <1>3, <2>1
<1>5. [e \in Executions |-> Broadcast(e)]' = [e \in Executions |-> Broadcast(e)]
  BY DEF Broadcast
<1>6. Feed!Leave(c, left)
  BY <1>2, <1>4, <1>5 DEF Feed!Leave
<1>7. QED
  BY <1>6

\* Only the client a step is about leaves orders.
LEMMA OthersStay ==
  ASSUME BaseInv, NEW c \in Clients,
         \/ \E e \in Executions : Unsubscribe(c, e)
         \/ ClientStep(c)
         \/ Heartbeat(c)
  PROVE  \A o \in Orders : \/ subscribers'[o] = subscribers[o]
                           \/ subscribers'[o] = subscribers[o] \ {c}
<1>1. subscribers \in [Orders -> SUBSET Clients]
  BY DEF BaseInv, ManagerProofs!IndexInv, ManagerProofs!Types
<1> DEFINE Goal == \A o \in Orders : \/ subscribers'[o] = subscribers[o]
                                     \/ subscribers'[o] = subscribers[o] \ {c}
<1>2. ASSUME Manager!ForgetClient(c) PROVE Goal
  BY <1>1, <1>2 DEF Manager!ForgetClient
<1>3. ASSUME NEW e \in Executions, Unsubscribe(c, e) PROVE Goal
  BY <1>1, <1>3 DEF Unsubscribe, Manager!Unsubscribe
<1>4. ASSUME ClientStep(c) PROVE Goal
  BY <1>2, <1>4
  DEF ClientStep, Manager!SocketCloses, Manager!PeerVanishes, Manager!UnknownMessage,
      Manager!UnparsableMessage, Manager!Pong, Manager!indexVars
<1>5. ASSUME Heartbeat(c) PROVE Goal
  BY <1>2, <1>5
  DEF Heartbeat, Manager!Heartbeat, Manager!HeartbeatDrops, Manager!HeartbeatPings,
      Manager!indexVars
<1>6. QED
  BY <1>3, <1>4, <1>5

LEMMA PostingIsPublishing ==
  ASSUME ToldInv, ToldInv', NEW e \in Executions, PostOrder(e)
  PROVE  Feed!Publish(e)
<1>1. /\ EngineProofs!TypeOK /\ EngineProofs!TypeOK' /\ EngineProofs!LifeInv
      /\ ToldTypes /\ ToldTypes'
  BY DEF ToldInv, BaseInv, EngineProofs!LifeInv
<1>2. /\ pc[e] = "idle"
      /\ \A f \in Executions \ {e} : events'[f] = events[f]
  BY <1>1, PostLeavesOthers
<1>3. Broadcast(e) = <<>> /\ ~Feed!Closed(e)
  BY <1>1, <1>2, LastBroadcast DEF Feed!Closed
<1>4. \A c \in Clients : c \notin subscribers[OrderId(e)]
  BY <1>2 DEF ToldInv, ToldOf
<1>5. PICK news \in Seq(EngineProofs!EventTypes) : news = Broadcast(e)'
  BY <1>1, ForwardedType DEF Broadcast, EngineProofs!TypeOK
<1>6. Broadcast(e)' = Broadcast(e) \o news
  BY <1>3, <1>5, ConcatEmptySeq
<1>7. Broadcasts(OrderId(e), Forwarded(events'[e]) \o <<"PENDING">>)
  BY DEF PostOrder
<1>8. \A f \in Executions, c \in Clients : told'[OrderId(f)][c] = told[OrderId(f)][c]
  <2>1. Forwarded(events'[e]) \o <<"PENDING">> \in Seq(EngineProofs!EventTypes)
    BY <1>1, PostNews
  <2>2. \A p \in Orders, c \in Clients :
          told'[p][c] = IF p = OrderId(e) /\ c \in subscribers[OrderId(e)]
                        THEN told[p][c] \o (Forwarded(events'[e]) \o <<"PENDING">>)
                        ELSE told[p][c]
    BY <1>7, <2>1, OrdersOfExecutions, BroadcastTells
  <2>3. QED
    BY <1>4, <2>2, OrdersOfExecutions
<1>9. UNCHANGED subscribers
  BY DEF PostOrder, sessionVars
<1>10. /\ Broadcast(e) \in Seq(EngineProofs!EventTypes)
       /\ \A f \in Executions \ {e} : Broadcast(f)' = Broadcast(f)
  BY <1>1, <1>2, NewsType DEF Broadcast
<1>11. QED
  BY <1>1, <1>3, <1>4, <1>6, <1>8, <1>9, <1>10, BroadcastsArePublished

LEMMA AdvancingIsPublishing ==
  ASSUME ToldInv, ToldInv', NEW e \in Executions, Advance(e)
  PROVE  Feed!Publish(e)
<1>1. EngineProofs!TypeOK /\ ToldTypes /\ ToldTypes'
  BY DEF ToldInv, BaseInv, EngineProofs!LifeInv
<1>2. PICK news \in Seq(EngineProofs!EventTypes) :
        /\ Broadcasts(OrderId(e), news)
        /\ Forwarded(events'[e]) = Forwarded(events[e]) \o news
        /\ \A f \in Executions \ {e} : events'[f] = events[f]
  BY <1>1, AdvanceNews
<1>3. /\ Broadcast(e) \in Seq(EngineProofs!EventTypes)
      /\ Broadcast(e)' = Broadcast(e) \o news
      /\ \A f \in Executions \ {e} : Broadcast(f)' = Broadcast(f)
  BY <1>1, <1>2, NewsType DEF Broadcast
<1>4. \A p \in Orders, c \in Clients :
        told'[p][c] = IF p = OrderId(e) /\ c \in subscribers[OrderId(e)]
                      THEN told[p][c] \o news ELSE told[p][c]
  BY <1>2, OrdersOfExecutions, BroadcastTells
<1>5. \A f \in Executions, c \in Clients :
        told'[OrderId(f)][c] =
          IF f = e /\ c \in subscribers[OrderId(e)] THEN told[OrderId(e)][c] \o news
          ELSE told[OrderId(f)][c]
  BY <1>4, OrdersOfExecutions, ExecutionsOfOrders
<1>6. UNCHANGED subscribers
  BY DEF Advance, sessionVars
<1>7. QED
  BY <1>1, <1>3, <1>5, <1>6, OpenWhileAdvancing, BroadcastsArePublished

\* A subscription is one to follow the order, or is refused or repeated.
LEMMA SubscribingIsFollowing ==
  ASSUME ToldInv, NEW c \in Clients, NEW e \in Executions, Subscribe(c, e)
  PROVE  Feed!Follow(e, c) \/ UNCHANGED Feed!feedVars
<1>1. /\ subscribers \in [Orders -> SUBSET Clients]
      /\ EngineProofs!LifeInv
  BY DEF ToldInv, BaseInv, ManagerProofs!IndexInv, ManagerProofs!Types
<1>2. /\ pc[e] # "idle" /\ UNCHANGED events /\ Forget
      /\ \/ subscribers' = [subscribers EXCEPT ![OrderId(e)] = @ \cup {c}]
         \/ subscribers' = subscribers
  BY DEF Subscribe, engineVars, Manager!Subscribe, Manager!AddSubscription, Manager!indexVars
<1> DEFINE log == [f \in Executions |-> Broadcast(f)]
           read == [f \in Executions |-> told[OrderId(f)]]
           following == [f \in Executions |-> subscribers[OrderId(f)]]
<1>3. log' = log
  BY <1>2 DEF Broadcast
<1>4. log[e] # <<>>
  BY <1>1, <1>2, LastBroadcast
<1>5. read' = read
  <2>1. \A f \in Executions : OrderId(f) \in Orders
                             /\ told[OrderId(f)] \in [Clients -> Seq(EngineProofs!EventTypes)]
    BY OrdersOfExecutions DEF ToldInv, ToldTypes
  <2>2. \A f \in Executions : subscribers[OrderId(f)] \subseteq subscribers'[OrderId(f)]
    BY <1>1, <1>2, <2>1
  <2>3. ASSUME NEW f \in Executions, NEW d \in Clients
        PROVE  told'[OrderId(f)][d] = told[OrderId(f)][d]
    BY <1>2, <2>1, <2>2 DEF Forget, ToldInv, ToldOf
  <2>4. \A f \in Executions :
          told'[OrderId(f)] = [d \in Clients |-> told'[OrderId(f)][d]]
    BY <1>2, <2>1 DEF Forget
  <2>5. \A f \in Executions : told'[OrderId(f)] = told[OrderId(f)]
    BY <2>1, <2>3, <2>4
  <2>6. QED
    BY <2>5
<1>6. CASE subscribers' = [subscribers EXCEPT ![OrderId(e)] = @ \cup {c}]
  <2>1. following' = [following EXCEPT ![e] = @ \cup {c}]
    BY <1>1, <1>6, OrdersOfExecutions, ExecutionsOfOrders
  <2>2. QED
    BY <1>3, <1>4, <1>5, <2>1 DEF Feed!Follow
<1>7. CASE subscribers' = subscribers
  BY <1>3, <1>5, <1>7 DEF Feed!feedVars
<1>8. QED
  BY <1>2, <1>6, <1>7

LEMMA FeedStep == ToldInv /\ [Next]_vars => [Feed!FeedNext]_(Feed!feedVars)
<1> SUFFICES ASSUME ToldInv, [Next]_vars PROVE [Feed!FeedNext]_(Feed!feedVars)
  OBVIOUS
<1> DEFINE Goal == [Feed!FeedNext]_(Feed!feedVars)
<1>1. ToldInv'
  BY ToldStep
<1>2. ASSUME NEW e \in Executions, Feed!Publish(e) PROVE Goal
  BY <1>2 DEF Feed!FeedNext
<1>3. ASSUME NEW e \in Executions, PostOrder(e) \/ Advance(e) PROVE Goal
  <2>1. Feed!Publish(e)
    BY <1>1, <1>3, PostingIsPublishing, AdvancingIsPublishing
  <2>2. QED
    BY <1>2, <2>1
<1>4. ASSUME UNCHANGED <<events, subscribers, told>> PROVE Goal
  BY <1>4 DEF Feed!feedVars, Broadcast
<1>5. ASSUME NEW c \in Clients, Connect(c) PROVE Goal
  BY <1>4, <1>5 DEF Connect, Manager!RegisterClient, Manager!indexVars, engineVars
<1>6. ASSUME NEW c \in Clients, NEW e \in Executions, Subscribe(c, e) PROVE Goal
  BY <1>6, SubscribingIsFollowing DEF Feed!FeedNext
<1>7. ASSUME NEW c \in Clients,
             (\E e \in Executions : Unsubscribe(c, e)) \/ ClientStep(c) \/ Heartbeat(c)
      PROVE  Goal
  <2>1. BaseInv
    BY DEF ToldInv
  <2>2. UNCHANGED events /\ Forget
    BY <1>7, <2>1, SubscribersLeave DEF engineVars
  <2>3. \A o \in Orders : \/ subscribers'[o] = subscribers[o]
                         \/ subscribers'[o] = subscribers[o] \ {c}
    BY <1>7, <2>1, OthersStay
  <2>4. PICK left \in SUBSET Executions : Feed!Leave(c, left)
    BY <2>2, <2>3, ForgettingIsLeaving
  <2>5. QED
    BY <2>4 DEF Feed!FeedNext
<1>8. ASSUME UNCHANGED vars PROVE Goal
  BY <1>4, <1>8 DEF vars, sessionVars, engineVars
<1> HIDE DEF Goal
<1>9. Goal
  <2>1. CASE Next
    BY <1>3, <1>5, <1>6, <1>7, <2>1 DEF Next
  <2>2. QED
    BY <1>8, <2>1
<1>10. QED
  BY <1>9 DEF Goal

LEMMA FeedInitial == Init => Feed!FeedInit
<1> SUFFICES ASSUME Init PROVE Feed!FeedInit
  OBVIOUS
<1>1. /\ events = [e \in Executions |-> <<>>]
      /\ subscribers = [o \in Orders |-> {}]
      /\ told = [o \in Orders |-> [c \in Clients |-> <<>>]]
  BY DEF Init, Engine!Init, Manager!Init
<1>2. \A e \in Executions : Broadcast(e) = <<>>
  BY <1>1, ForwardedEmpty DEF Broadcast
<1>3. QED
  BY <1>1, <1>2, OrdersOfExecutions DEF Feed!FeedInit

(* For any number of orders, clients and subscriptions the service is the  *)
(* feed OrderFeed describes: news about an order reach everyone who        *)
(* follows it in one piece, nothing is published after the outcome, an     *)
(* order can be followed only after its first broadcast, and nobody loses  *)
(* a subscription through another client's messages, close or heartbeat.   *)
THEOREM FeedImplemented == Spec => ImplementsOrderFeed
BY FeedInitial, FeedStep, ToldHolds, PTL DEF Spec, ImplementsOrderFeed, Feed!FeedSpec

-----------------------------------------------------------------------------
(* Types and statistics.                                                   *)

(* Every variable of the service keeps its type, those of the engine and   *)
(* of the manager as well as the history of what was told.                 *)
THEOREM TypeCorrect == Spec => []TypeOK
<1>1. EngineProofs!Spec => []EngineProofs!TypeOK
  BY EngineProofs!TypeCorrect, EngineFinite, ServiceAssumption
<1>2. ManagerProofs!Spec => []ManagerProofs!TypeOK
  BY ManagerProofs!TypeCorrect, ManagerFinite, ServiceAssumption
<1>3. EngineProofs!TypeOK => Engine!TypeOK
  BY DEF EngineProofs!TypeOK, Engine!TypeOK, EngineProofs!ExecutionState,
     Engine!ExecutionState, EngineProofs!Waiting, Engine!Waiting, EngineProofs!Ended,
     Engine!Ended, EngineProofs!EventTypes, Engine!EventTypes
<1>4. ManagerProofs!TypeOK /\ Numbers => Manager!TypeOK
  BY DEF ManagerProofs!TypeOK, Manager!TypeOK, Numbers
<1>5. ToldTypes => /\ told \in [Orders -> [Clients -> Seq(Engine!EventTypes)]]
                   /\ before \in [Orders -> [Clients -> Nat]]
  BY DEF ToldTypes, EngineProofs!EventTypes, Engine!EventTypes
<1>6. ToldInv => Numbers /\ ToldTypes
  BY DEF ToldInv, BaseInv
<1>7. EngineProofs!TypeOK /\ ManagerProofs!TypeOK /\ ToldInv => TypeOK
  BY <1>3, <1>4, <1>5, <1>6 DEF TypeOK
<1>8. QED
  BY EngineSpec, ManagerSpec, ToldHolds, <1>1, <1>2, <1>7, PTL

(* The statistics of the engine are those its module promises: the totals  *)
(* count executions, the distribution drifts by the confirmations only,    *)
(* the listing of all orders and those by state agree, and the average is  *)
(* no longer than the longest execution.                                   *)
THEOREM EngineCountsRight ==
  Spec => /\ []Engine!CountersAgree
          /\ []Engine!DistributionDriftsOnlyByConfirmations
          /\ []Engine!ListingsAgree
          /\ []Engine!AverageWithinLongest
<1>1. EngineProofs!Spec => /\ []EngineProofs!CountersAgree
                           /\ []EngineProofs!DistributionDriftsOnlyByConfirmations
                           /\ []EngineProofs!ListingsAgree
                           /\ []EngineProofs!AverageWithinLongest
  BY EngineProofs!CountersCorrect, EngineProofs!DistributionDrifts,
     EngineProofs!ListingsCorrect, EngineProofs!AverageBounded, EngineFinite,
     ServiceAssumption
<1>2. \A S : EngineProofs!Cardinality(S) = Engine!Cardinality(S)
  BY DEF EngineProofs!Cardinality, Engine!Cardinality
<1>3. \A s : EngineProofs!InState(s) = Engine!InState(s)
  BY DEF EngineProofs!InState, Engine!InState
<1>4. EngineProofs!CountersAgree => Engine!CountersAgree
  BY <1>2, <1>3 DEF EngineProofs!CountersAgree, Engine!CountersAgree
<1>5. EngineProofs!DistributionDriftsOnlyByConfirmations
      => Engine!DistributionDriftsOnlyByConfirmations
  BY <1>2, <1>3
  DEF EngineProofs!DistributionDriftsOnlyByConfirmations,
      Engine!DistributionDriftsOnlyByConfirmations, EngineProofs!ExecutionState,
      Engine!ExecutionState
<1>5a. \A s, limit :
          EngineProofs!ListedWithStatus(s, limit) = Engine!ListedWithStatus(s, limit)
  BY <1>2 DEF EngineProofs!ListedWithStatus, Engine!ListedWithStatus,
     EngineProofs!ExecutionsIn, Engine!ExecutionsIn, EngineProofs!Kept, Engine!Kept,
     EngineProofs!LimitNum, Engine!LimitNum
<1>6. /\ EngineProofs!ListingsAgree => Engine!ListingsAgree
      /\ EngineProofs!AverageWithinLongest => Engine!AverageWithinLongest
  BY <1>2, <1>5a DEF EngineProofs!ListingsAgree, Engine!ListingsAgree,
     EngineProofs!ListedWithoutStatus, Engine!ListedWithoutStatus,
     EngineProofs!ExecutionState, Engine!ExecutionState,
     EngineProofs!AverageWithinLongest, Engine!AverageWithinLongest
<1>7. QED
  BY EngineSpec, <1>1, <1>4, <1>5, <1>6, PTL
=============================================================================
