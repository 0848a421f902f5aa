----------------------- MODULE ExecutionEngineProofs -----------------------
(***************************************************************************)
(* Theorems about ExecutionEngine, for every set of executions, all        *)
(* durations, and with or without listeners that throw and resets.         *)
(***************************************************************************)
EXTENDS ExecutionEngine, FiniteSetTheorems, SequenceTheorems, TLAPS

-----------------------------------------------------------------------------
(* Type correctness.                                                       *)

LEMMA WithTimeType ==
  ASSUME NEW average \in Int \X Int, NEW executed \in Nat, NEW t \in Nat
  PROVE  WithTime(average, executed, t) \in Int \X Int
BY DEF WithTime

LEMMA MovedType ==
  ASSUME NEW dist \in [ExecutionState -> Int], NEW from, NEW to \in ExecutionState
  PROVE  Moved(dist, from, to) \in [ExecutionState -> Int]
<1> DEFINE left == [dist EXCEPT ![from] = @ - 1]
<1>1. left \in [ExecutionState -> Int]
  <2>1. CASE from \in ExecutionState
    <3>1. dist[from] - 1 \in Int
      BY <2>1
    <3>2. QED
      BY <3>1
  <2>2. CASE from \notin ExecutionState
    BY <2>2
  <2>3. QED
    BY <2>1, <2>2
<1> HIDE DEF left
<1>2. left[to] + 1 \in Int
  BY <1>1
<1>3. [left EXCEPT ![to] = @ + 1] \in [ExecutionState -> Int]
  BY <1>1, <1>2
<1>4. QED
  BY <1>3 DEF Moved, left

LEMMA StateNames ==
  /\ "FAILED" \in ExecutionState /\ "CONFIRMED" \in ExecutionState
  /\ "PENDING" \in ExecutionState
BY DEF ExecutionState

LEMMA EmitType ==
  ASSUME events \in [Executions -> Seq(EventTypes)], NEW e \in Executions,
         NEW types \in Seq(EventTypes), Emit(e, types)
  PROVE  events' \in [Executions -> Seq(EventTypes)]
<1>1. events[e] \o types \in Seq(EventTypes)
  OBVIOUS
<1>2. QED
  BY <1>1 DEF Emit

LEMMA HandleErrorType ==
  ASSUME TypeOK, totalExecuted' \in Nat, NEW e \in Executions, NEW types \in Seq(EventTypes),
         NEW errors \in {1, 2}, NEW updates, HandleError(e, types, errors, updates)
  PROVE  /\ state' \in [Executions -> ExecutionState \cup {"NONE"}]
         /\ events' \in [Executions -> Seq(EventTypes)]
         /\ totalTime' \in [Executions -> Nat]
         /\ totalFailed' \in Nat
         /\ averageExecutionTime' \in Int \X Int
<1>1. state' \in [Executions -> ExecutionState \cup {"NONE"}] /\ totalFailed' \in Nat
  BY DEF TypeOK, HandleError, ExecutionState
<1>2. events' \in [Executions -> Seq(EventTypes)]
  <2>1. types \o (IF errors = 1 THEN <<"error">> ELSE <<"error", "error">>) \in Seq(EventTypes)
    <3>1. <<"error">> \in Seq(EventTypes) /\ <<"error", "error">> \in Seq(EventTypes)
      BY DEF EventTypes
    <3>2. QED
      BY <3>1
  <2>2. QED
    BY <2>1, EmitType DEF HandleError, TypeOK
<1>3. PICK t \in Durations :
        LET once == WithTime(averageExecutionTime, totalExecuted', t)
        IN  /\ totalTime' = [totalTime EXCEPT ![e] = t]
            /\ averageExecutionTime' =
                 IF updates = 1 THEN once ELSE WithTime(once, totalExecuted', t)
  BY DEF HandleError
<1>4. t \in Nat
  BY EngineAssumption
<1>5. totalTime' \in [Executions -> Nat]
  BY <1>3, <1>4 DEF TypeOK
<1>6. WithTime(averageExecutionTime, totalExecuted', t) \in Int \X Int
  BY <1>4, WithTimeType DEF TypeOK
<1>7. WithTime(WithTime(averageExecutionTime, totalExecuted', t), totalExecuted', t) \in Int \X Int
  BY <1>4, <1>6, WithTimeType
<1>8. averageExecutionTime' \in Int \X Int
  BY <1>3, <1>6, <1>7
<1>9. QED
  BY <1>1, <1>2, <1>5, <1>8

\* The variables a stage that fails changes beside the distribution.
FailureTypes ==
  /\ state' \in [Executions -> ExecutionState \cup {"NONE"}]
  /\ events' \in [Executions -> Seq(EventTypes)]
  /\ totalTime' \in [Executions -> Nat]
  /\ pc' \in [Executions -> {"idle"} \cup Waiting \cup Ended]
  /\ totalFailed' \in Nat
  /\ averageExecutionTime' \in Int \X Int

LEMMA FailsType ==
  ASSUME TypeOK, totalExecuted' \in Nat, NEW e \in Executions, NEW types \in Seq(EventTypes),
         Fails(e, types)
  PROVE  FailureTypes
<1>1. pc' \in [Executions -> {"idle"} \cup Waiting \cup Ended]
  BY DEF Fails, TypeOK, Ended
<1>2. \/ HandleError(e, types, 1, 1)
      \/ HandleError(e, types, 2, 2)
  BY DEF Fails
<1>3. QED
  BY <1>1, <1>2, HandleErrorType DEF FailureTypes

LEMMA NextStageType ==
  ASSUME TypeOK, NEW e \in Executions, NEW done \in EventTypes,
         NEW to \in ExecutionState \cap EventTypes, NEW awaiting \in Waiting,
         NextStage(e, done, to, awaiting)
  PROVE  TypeOK'
<1>1. <<done>> \in Seq(EventTypes) /\ <<done, to>> \in Seq(EventTypes)
  OBVIOUS
<1>2. totalExecuted' \in Nat /\ UNCHANGED <<executions, totalExecuted, totalSuccessful>>
  BY DEF NextStage, TypeOK
<1>3. stateDistribution' \in [ExecutionState -> Int]
  <2>1. stateDistribution \in [ExecutionState -> Int]
    BY DEF TypeOK
  <2>2. \E s \in ExecutionState : stateDistribution' = Moved(stateDistribution, state[e], s)
    BY StateNames DEF NextStage
  <2>3. QED
    BY <2>1, <2>2, MovedType
<1>4. FailureTypes
  <2>1. CASE Fails(e, <<done>>) \/ Fails(e, <<done, to>>)
    BY <1>1, <1>2, <2>1, FailsType
  <2>2. CASE ~(Fails(e, <<done>>) \/ Fails(e, <<done, to>>))
    <3>1. /\ state' = [state EXCEPT ![e] = to]
          /\ pc' = [pc EXCEPT ![e] = awaiting]
          /\ Emit(e, <<done, to>>)
          /\ UNCHANGED <<totalTime, totalFailed, averageExecutionTime>>
      BY <2>2 DEF NextStage
    <3>2. events' \in [Executions -> Seq(EventTypes)]
      BY <1>1, <3>1, EmitType DEF TypeOK
    <3>3. QED
      BY <3>1, <3>2 DEF TypeOK, FailureTypes
  <2>3. QED
    BY <2>1, <2>2
<1>5. QED
  BY <1>2, <1>3, <1>4 DEF FailureTypes, TypeOK

LEMMA ExecuteOrderType ==
  ASSUME TypeOK, NEW e \in Executions, ExecuteOrder(e)
  PROVE  TypeOK'
<1>1. /\ executions' \subseteq Executions /\ totalExecuted' \in Nat
      /\ UNCHANGED totalSuccessful
  BY DEF ExecuteOrder, TypeOK
<1>2. <<"PENDING">> \in Seq(EventTypes) /\ <<"PENDING", "ROUTING">> \in Seq(EventTypes)
  BY DEF EventTypes
<1>3. stateDistribution' \in [ExecutionState -> Int]
  BY DEF ExecuteOrder, FirstListenerThrows, FailsAtOnce, StartsRouting, TypeOK
<1>4. FailureTypes
  <2>1. CASE FirstListenerThrows(e)
    BY <1>2, <2>1, EmitType DEF FirstListenerThrows, TypeOK, FailureTypes, ExecutionState, Ended
  <2>2. CASE FailsAtOnce(e)
    BY <1>1, <1>2, <2>2, FailsType DEF FailsAtOnce
  <2>3. CASE StartsRouting(e)
    BY <1>2, <2>3, EmitType DEF StartsRouting, TypeOK, FailureTypes, ExecutionState, Waiting
  <2>4. QED
    BY <2>1, <2>2, <2>3 DEF ExecuteOrder
<1>5. QED
  BY <1>1, <1>3, <1>4 DEF FailureTypes, TypeOK

LEMMA ConfirmType ==
  ASSUME TypeOK, NEW e \in Executions, Confirm(e)
  PROVE  TypeOK'
<1>1. /\ UNCHANGED <<executions, totalExecuted>>
      /\ totalSuccessful' \in Nat /\ totalExecuted' \in Nat
  BY DEF Confirm, TypeOK
<1>2. <<"confirmation">> \in Seq(EventTypes)
  BY DEF EventTypes
<1>3. stateDistribution' \in [ExecutionState -> Int]
  BY MovedType, StateNames DEF Confirm, TypeOK
<1>4. FailureTypes
  <2>1. CASE HandleError(e, <<"confirmation">>, 1, 2) /\ \E end \in Ended : pc' = [pc EXCEPT ![e] = end]
    <3>1. pc' \in [Executions -> {"idle"} \cup Waiting \cup Ended]
      BY <2>1 DEF TypeOK
    <3>2. QED
      BY <1>1, <1>2, <2>1, <3>1, HandleErrorType DEF FailureTypes
  <2>2. CASE /\ state' = [state EXCEPT ![e] = "CONFIRMED"]
             /\ pc' = [pc EXCEPT ![e] = "returned"]
             /\ Emit(e, <<"confirmation">>)
             /\ \E t \in Durations :
                  /\ totalTime' = [totalTime EXCEPT ![e] = t]
                  /\ averageExecutionTime' = WithTime(averageExecutionTime, totalExecuted, t)
             /\ UNCHANGED totalFailed
    <3>1. events' \in [Executions -> Seq(EventTypes)]
      BY <1>2, <2>2, EmitType DEF TypeOK
    <3>2. PICK t \in Durations :
            /\ totalTime' = [totalTime EXCEPT ![e] = t]
            /\ averageExecutionTime' = WithTime(averageExecutionTime, totalExecuted, t)
      BY <2>2
    <3>3. t \in Nat
      BY EngineAssumption
    <3>4. averageExecutionTime' \in Int \X Int /\ totalTime' \in [Executions -> Nat]
      BY <3>2, <3>3, WithTimeType DEF TypeOK
    <3>5. QED
      BY <2>2, <3>1, <3>4 DEF TypeOK, FailureTypes, ExecutionState, Ended
  <2>3. QED
    BY <2>1, <2>2 DEF Confirm
<1>5. QED
  BY <1>1, <1>3, <1>4 DEF FailureTypes, TypeOK

LEMMA TypeStep == TypeOK /\ [Next]_vars => TypeOK'
<1> SUFFICES ASSUME TypeOK, [Next]_vars PROVE TypeOK'
  OBVIOUS
<1>1. ASSUME NEW e \in Executions, ExecuteOrder(e) PROVE TypeOK'
  BY <1>1, ExecuteOrderType
<1>2. ASSUME NEW e \in Executions, RouteOrder(e) PROVE TypeOK'
  BY <1>2, NextStageType DEF RouteOrder, EventTypes, ExecutionState, Waiting
<1>3. ASSUME NEW e \in Executions, RoutingFails(e) PROVE TypeOK'
  <2>1. /\ UNCHANGED <<executions, totalExecuted, totalSuccessful>>
        /\ totalExecuted' \in Nat
    BY <1>3 DEF RoutingFails, TypeOK
  <2>2. <<>> \in Seq(EventTypes)
    OBVIOUS
  <2>3. FailureTypes
    BY <1>3, <2>1, <2>2, FailsType DEF RoutingFails
  <2>4. stateDistribution' \in [ExecutionState -> Int]
    BY <1>3, MovedType, StateNames DEF RoutingFails, TypeOK
  <2>5. QED
    BY <2>1, <2>3, <2>4 DEF FailureTypes, TypeOK
<1>4. ASSUME NEW e \in Executions, BuildTransaction(e) PROVE TypeOK'
  BY <1>4, NextStageType DEF BuildTransaction, EventTypes, ExecutionState, Waiting
<1>5. ASSUME NEW e \in Executions, SubmitTransaction(e) PROVE TypeOK'
  <2>1. /\ UNCHANGED <<executions, totalExecuted, totalSuccessful>>
        /\ totalExecuted' \in Nat
    BY <1>5 DEF SubmitTransaction, TypeOK
  <2>2. <<"submission">> \in Seq(EventTypes)
    BY DEF EventTypes
  <2>3. FailureTypes
    <3>1. CASE Fails(e, <<"submission">>)
      BY <2>1, <2>2, <3>1, FailsType
    <3>2. CASE ~Fails(e, <<"submission">>)
      BY <1>5, <2>2, <3>2, EmitType DEF SubmitTransaction, TypeOK, FailureTypes, Waiting
    <3>3. QED
      BY <3>1, <3>2
  <2>4. stateDistribution' \in [ExecutionState -> Int]
    <3>1. stateDistribution \in [ExecutionState -> Int]
      BY DEF TypeOK
    <3>2. \/ UNCHANGED stateDistribution
          \/ stateDistribution' = Moved(stateDistribution, state[e], "FAILED")
      BY <1>5 DEF SubmitTransaction
    <3>3. QED
      BY <3>1, <3>2, MovedType, StateNames
  <2>5. QED
    BY <2>1, <2>3, <2>4 DEF FailureTypes, TypeOK
<1>6. ASSUME NEW e \in Executions, Confirm(e) PROVE TypeOK'
  BY <1>6, ConfirmType
<1>7. CASE Reset
  BY <1>7 DEF Reset, TypeOK, NoCounts, contextVars
<1>8. CASE UNCHANGED vars
  BY <1>8 DEF vars, contextVars, statVars, TypeOK
<1>9. QED
  BY <1>1, <1>2, <1>3, <1>4, <1>5, <1>6, <1>7, <1>8 DEF Next

LEMMA InitType == Init => TypeOK
<1> SUFFICES ASSUME Init PROVE TypeOK
  OBVIOUS
<1>1. <<>> \in Seq(EventTypes)
  OBVIOUS
<1>2. QED
  BY <1>1 DEF Init, TypeOK, NoCounts

(* The contexts and the statistics always have their types, with listeners *)
(* that throw at any event and resets at any time.                         *)
THEOREM TypeCorrect == Spec => []TypeOK
BY InitType, TypeStep, PTL DEF Spec

-----------------------------------------------------------------------------
(* The events an execution emits.                                          *)

LEMMA TwoElements ==
  ASSUME NEW S, NEW a \in S, NEW b \in S
  PROVE  <<a>> \o <<b>> = <<a, b>>
<1>1. <<a>> \in Seq(S) /\ <<b>> \in Seq(S) /\ <<a, b>> \in Seq(S)
  OBVIOUS
<1>2. /\ Len(<<a>> \o <<b>>) = 2
      /\ (<<a>> \o <<b>>)[1] = a
      /\ (<<a>> \o <<b>>)[2] = b
      /\ <<a>> \o <<b>> \in Seq(S)
  BY <1>1, ConcatProperties
<1>3. Len(<<a, b>>) = 2 /\ <<a, b>>[1] = a /\ <<a, b>>[2] = b
  OBVIOUS
<1>4. \A i \in 1 .. 2 : (<<a>> \o <<b>>)[i] = <<a, b>>[i]
  BY <1>2, <1>3
<1>5. QED
  BY <1>1, <1>2, <1>3, <1>4, SeqEqual

LEMMA PrefixType ==
  ASSUME NEW S, NEW s \in Seq(S), NEW n \in 0 .. Len(s)
  PROVE  SubSeq(s, 1, n) \in Seq(S)
OBVIOUS

LEMMA OneMore ==
  ASSUME NEW S, NEW s \in Seq(S), NEW n, NEW m \in 1 .. Len(s), n = m - 1
  PROVE  SubSeq(s, 1, n) \o <<s[m]>> = SubSeq(s, 1, m)
<1>1. 1 \in 1 .. Len(s) /\ m \in 1 .. Len(s)
  OBVIOUS
<1>2. SubSeq(s, 1, m) = SubSeq(s, 1, m - 1) \o <<s[m]>>
  BY <1>1, SubSeqRecursiveSecond
<1>3. QED
  BY <1>2

LEMMA TwoMore ==
  ASSUME NEW S, NEW s \in Seq(S), NEW n \in Nat, NEW m \in 1 .. Len(s), NEW k \in 1 .. Len(s),
         n = m - 1, m = k - 1
  PROVE  SubSeq(s, 1, n) \o <<s[m], s[k]>> = SubSeq(s, 1, k)
<1> DEFINE a == s[m]
           b == s[k]
           prefix == SubSeq(s, 1, n)
<1>1. a \in S /\ b \in S /\ prefix \in Seq(S)
  OBVIOUS
<1>2. SubSeq(s, 1, k) = SubSeq(s, 1, m) \o <<b>>
  BY OneMore
<1>3. SubSeq(s, 1, m) = prefix \o <<a>>
  BY OneMore
<1> HIDE DEF a, b, prefix
<1>4. <<a>> \in Seq(S) /\ <<b>> \in Seq(S)
  BY <1>1
<1>5. (prefix \o <<a>>) \o <<b>> = prefix \o (<<a>> \o <<b>>)
  BY <1>1, <1>4, ConcatAssociative
<1>6. <<a>> \o <<b>> = <<a, b>>
  BY <1>1, TwoElements
<1>7. SubSeq(s, 1, k) = prefix \o <<a, b>>
  BY <1>2, <1>3, <1>5, <1>6
<1>8. QED
  BY <1>7 DEF a, b, prefix

Stages(n) == SubSeq(Pipeline, 1, n)

LEMMA PipelineElements ==
  /\ Pipeline \in Seq(EventTypes) /\ Len(Pipeline) = 8
  /\ Pipeline[1] = "PENDING"   /\ Pipeline[2] = "ROUTING"
  /\ Pipeline[3] = "routing"   /\ Pipeline[4] = "BUILDING"
  /\ Pipeline[5] = "building"  /\ Pipeline[6] = "SUBMITTED"
  /\ Pipeline[7] = "submission" /\ Pipeline[8] = "confirmation"
BY DEF Pipeline, EventTypes

\* What each step of the pipeline appends to the events so far.
LEMMA StagesGrow ==
  /\ \A n \in 0 .. 8 : Stages(n) \in Seq(EventTypes)
  /\ Stages(0) = <<>>
  /\ Stages(0) \o <<"PENDING">> = Stages(1)
  /\ Stages(0) \o <<"PENDING", "ROUTING">> = Stages(2)
  /\ Stages(2) \o <<"routing">> = Stages(3)
  /\ Stages(2) \o <<"routing", "BUILDING">> = Stages(4)
  /\ Stages(4) \o <<"building">> = Stages(5)
  /\ Stages(4) \o <<"building", "SUBMITTED">> = Stages(6)
  /\ Stages(6) \o <<"submission">> = Stages(7)
  /\ Stages(7) \o <<"confirmation">> = Stages(8)
<1>1. \A n \in 0 .. 8 : Stages(n) \in Seq(EventTypes)
  <2>1. Pipeline \in Seq(EventTypes) /\ 0 .. 8 = 0 .. Len(Pipeline)
    BY PipelineElements
  <2>2. QED
    BY <2>1, PrefixType, Zenon DEF Stages
<1>2. Stages(0) = <<>>
  <2>1. Stages(0) \in Seq(EventTypes) /\ Len(Stages(0)) = 0
    BY PipelineElements DEF Stages
  <2>2. QED
    BY <2>1, EmptySeq
<1>3. /\ \A m \in 1 .. 8 : m \in 1 .. Len(Pipeline)
      /\ 0 = 1 - 1 /\ 1 = 2 - 1 /\ 2 = 3 - 1 /\ 3 = 4 - 1 /\ 4 = 5 - 1 /\ 5 = 6 - 1
      /\ 6 = 7 - 1 /\ 7 = 8 - 1
  BY PipelineElements
<1>4. /\ 1 \in 1 .. 8 /\ 2 \in 1 .. 8 /\ 3 \in 1 .. 8 /\ 4 \in 1 .. 8 /\ 5 \in 1 .. 8
      /\ 6 \in 1 .. 8 /\ 7 \in 1 .. 8 /\ 8 \in 1 .. 8
      /\ 0 \in Nat /\ 2 \in Nat /\ 4 \in Nat
  OBVIOUS
<1>5. Pipeline \in Seq(EventTypes)
  BY PipelineElements
<1>6. /\ Stages(0) \o <<Pipeline[1]>> = Stages(1)
      /\ Stages(2) \o <<Pipeline[3]>> = Stages(3)
      /\ Stages(4) \o <<Pipeline[5]>> = Stages(5)
      /\ Stages(6) \o <<Pipeline[7]>> = Stages(7)
      /\ Stages(7) \o <<Pipeline[8]>> = Stages(8)
  BY <1>3, <1>4, <1>5, OneMore, Zenon DEF Stages
<1>7. /\ Stages(0) \o <<Pipeline[1], Pipeline[2]>> = Stages(2)
      /\ Stages(2) \o <<Pipeline[3], Pipeline[4]>> = Stages(4)
      /\ Stages(4) \o <<Pipeline[5], Pipeline[6]>> = Stages(6)
  BY <1>3, <1>4, <1>5, TwoMore, Zenon DEF Stages
<1>8. QED
  BY <1>1, <1>2, <1>6, <1>7, PipelineElements, Zenon

-----------------------------------------------------------------------------
(* The life of one execution: what it awaits, its state and its events.    *)

\* The events of a failed execution: some stages, then one error or two.
FailedEvents(seen) ==
  \E n \in 0 .. 8 :
    \/ /\ seen = Stages(n) \o <<"error">>
       /\ n < 8 \/ ListenerMayThrow
    \/ /\ seen = Stages(n) \o <<"error", "error">>
       /\ ListenerMayThrow

IsFailed(e) ==
  /\ state[e] = "FAILED"
  /\ pc[e] = "returned" \/ (pc[e] = "rejected" /\ ListenerMayThrow)
  /\ FailedEvents(events[e])

Life(e) ==
  \/ pc[e] = "idle"       /\ state[e] = "NONE"      /\ events[e] = Stages(0)
  \/ pc[e] = "routing"    /\ state[e] = "ROUTING"   /\ events[e] = Stages(2)
  \/ pc[e] = "building"   /\ state[e] = "BUILDING"  /\ events[e] = Stages(4)
  \/ pc[e] = "submitting" /\ state[e] = "SUBMITTED" /\ events[e] = Stages(6)
  \/ pc[e] = "confirming" /\ state[e] = "SUBMITTED" /\ events[e] = Stages(7)
  \/ pc[e] = "returned"   /\ state[e] = "CONFIRMED" /\ events[e] = Stages(8)
  \/ pc[e] = "rejected"   /\ state[e] = "PENDING"   /\ events[e] = Stages(1) /\ ListenerMayThrow
  \/ IsFailed(e)

LifeInv == TypeOK /\ \A e \in Executions : Life(e)

\* A step of execution e: e has not ended, and no other execution changes.
StepOf(e) ==
  /\ pc[e] \notin Ended
  /\ \A f \in Executions \ {e} :
       pc'[f] = pc[f] /\ state'[f] = state[f] /\ events'[f] = events[f]

LEMMA HandleErrorFails ==
  ASSUME TypeOK, NEW e \in Executions, NEW types \in Seq(EventTypes), NEW n \in 0 .. 8,
         events[e] \o types = Stages(n), n < 8 \/ ListenerMayThrow,
         NEW errors \in {1, 2}, errors = 2 => ListenerMayThrow, NEW updates,
         HandleError(e, types, errors, updates)
  PROVE  state'[e] = "FAILED" /\ FailedEvents(events'[e])
<1>1. state'[e] = "FAILED"
  BY DEF HandleError, TypeOK
<1>2. events[e] \in Seq(EventTypes) /\ <<"error">> \in Seq(EventTypes)
      /\ <<"error", "error">> \in Seq(EventTypes)
  BY DEF TypeOK, EventTypes
<1> DEFINE Follows(last) == events[e] \o (types \o last) = Stages(n) \o last
<1>3. ASSUME NEW last \in Seq(EventTypes) PROVE Follows(last)
  <2> DEFINE seen == events[e]
  <2>1. seen \in Seq(EventTypes)
    BY <1>2
  <2> HIDE DEF seen
  <2>2. seen \o (types \o last) = (seen \o types) \o last
    BY <2>1, SMTT(30)
  <2>3. QED
    BY <2>2 DEF seen
<1> HIDE DEF Follows
<1>4. CASE errors = 1
  <2>1. events'[e] = events[e] \o (types \o <<"error">>)
    BY <1>4 DEF HandleError, Emit, TypeOK
  <2>2. Follows(<<"error">>)
    BY <1>2, <1>3, Zenon
  <2>3. events'[e] = Stages(n) \o <<"error">>
    BY <2>1, <2>2 DEF Follows
  <2>4. QED
    BY <1>1, <2>3 DEF FailedEvents
<1>5. CASE errors = 2
  <2>1. events'[e] = events[e] \o (types \o <<"error", "error">>)
    BY <1>5, SMTT(30) DEF HandleError, Emit, TypeOK
  <2>2. Follows(<<"error", "error">>)
    BY <1>2, <1>3, Zenon
  <2>3. events'[e] = Stages(n) \o <<"error", "error">>
    BY <2>1, <2>2 DEF Follows
  <2>4. QED
    BY <1>1, <1>5, <2>3 DEF FailedEvents
<1>6. QED
  BY <1>4, <1>5

LEMMA FailsLife ==
  ASSUME TypeOK, NEW e \in Executions, NEW types \in Seq(EventTypes), NEW n \in 0 .. 8,
         events[e] \o types = Stages(n), n < 8 \/ ListenerMayThrow, pc[e] \notin Ended,
         Fails(e, types)
  PROVE  StepOf(e) /\ Life(e)'
<1>1. CASE HandleError(e, types, 1, 1) /\ pc' = [pc EXCEPT ![e] = "returned"]
  <2>1. state'[e] = "FAILED" /\ FailedEvents(events'[e])
    <3>1. 1 \in {1, 2} /\ (1 = 2 => ListenerMayThrow)
      OBVIOUS
    <3>2. QED
      BY <1>1, <3>1, HandleErrorFails, Zenon
  <2>2. StepOf(e) /\ pc'[e] = "returned"
    BY <1>1 DEF StepOf, HandleError, Emit, TypeOK
  <2>3. QED
    BY <2>1, <2>2 DEF Life, IsFailed
<1>2. CASE /\ ListenerMayThrow
           /\ HandleError(e, types, 2, 2)
           /\ \E end \in Ended : pc' = [pc EXCEPT ![e] = end]
  <2>1. state'[e] = "FAILED" /\ FailedEvents(events'[e])
    BY <1>2, HandleErrorFails
  <2>2. StepOf(e) /\ pc'[e] \in Ended
    BY <1>2 DEF StepOf, HandleError, Emit, TypeOK
  <2>3. QED
    BY <1>2, <2>1, <2>2 DEF Life, IsFailed, Ended
<1>3. QED
  BY <1>1, <1>2 DEF Fails

\* Execution e enters a stage: what it awaits, its state and the stages so far.
Enters(e, awaiting, to, n) ==
  pc'[e] = awaiting /\ state'[e] = to /\ events'[e] = Stages(n)

LEMMA NextStageLife ==
  ASSUME TypeOK, NEW e \in Executions, NEW done \in EventTypes,
         NEW to \in ExecutionState, to \in EventTypes, NEW awaiting \in Waiting,
         NEW n \in 0 .. 7, NEW m \in 0 .. 7,
         events[e] \o <<done>> = Stages(n), events[e] \o <<done, to>> = Stages(m),
         pc[e] \notin Ended, NextStage(e, done, to, awaiting)
  PROVE  StepOf(e) /\ (Life(e)' \/ Enters(e, awaiting, to, m))
<1>1. /\ <<done>> \in Seq(EventTypes) /\ <<done, to>> \in Seq(EventTypes)
      /\ n \in 0 .. 8 /\ n < 8 /\ m \in 0 .. 8 /\ m < 8
  OBVIOUS
<1>2. CASE Fails(e, <<done>>)
  BY <1>1, <1>2, FailsLife
<1>3. CASE Fails(e, <<done, to>>)
  BY <1>1, <1>3, FailsLife
<1>4. CASE /\ state' = [state EXCEPT ![e] = to]
           /\ pc' = [pc EXCEPT ![e] = awaiting]
           /\ Emit(e, <<done, to>>)
  BY <1>4 DEF StepOf, Enters, Emit, TypeOK
<1>5. QED
  BY <1>2, <1>3, <1>4 DEF NextStage

LEMMA LifeStep ==
  ASSUME LifeInv, NEW e \in Executions,
         \/ ExecuteOrder(e) \/ RouteOrder(e) \/ RoutingFails(e)
         \/ BuildTransaction(e) \/ SubmitTransaction(e) \/ Confirm(e)
  PROVE  StepOf(e) /\ Life(e)'
<1> USE DEF LifeInv
<1>1. TypeOK /\ Life(e)
  OBVIOUS
<1>2. /\ \A n \in 0 .. 8 : n \in 0 .. 7 => n < 8
      /\ 0 \in 0 .. 8 /\ 1 \in 0 .. 7 /\ 2 \in 0 .. 7 /\ 3 \in 0 .. 7 /\ 4 \in 0 .. 7
      /\ 5 \in 0 .. 7 /\ 6 \in 0 .. 7 /\ 7 \in 0 .. 7 /\ 8 \in 0 .. 8
      /\ \A n \in 0 .. 7 : n \in 0 .. 8
  OBVIOUS
<1>3. /\ <<>> \in Seq(EventTypes) /\ <<"PENDING">> \in Seq(EventTypes)
      /\ <<"PENDING", "ROUTING">> \in Seq(EventTypes)
      /\ <<"submission">> \in Seq(EventTypes) /\ <<"confirmation">> \in Seq(EventTypes)
  BY DEF EventTypes
<1>4. CASE ExecuteOrder(e)
  <2>1. pc[e] = "idle" /\ events[e] = Stages(0)
    BY <1>1, <1>4 DEF ExecuteOrder, Life, IsFailed
  <2>2. events[e] \o <<"PENDING">> = Stages(1) /\ events[e] \o <<"PENDING", "ROUTING">> = Stages(2)
    BY <2>1, StagesGrow
  <2>3. pc[e] \notin Ended
    BY <2>1 DEF Ended
  <2>4. CASE FirstListenerThrows(e)
    <3>1. /\ pc'[e] = "rejected" /\ state'[e] = "PENDING" /\ ListenerMayThrow
          /\ events'[e] = Stages(1)
      BY <1>1, <2>2, <2>4 DEF FirstListenerThrows, Emit, TypeOK
    <3>2. StepOf(e)
      BY <1>1, <2>3, <2>4 DEF StepOf, FirstListenerThrows, Emit, TypeOK
    <3>3. QED
      BY <3>1, <3>2 DEF Life
  <2>5. CASE StartsRouting(e)
    <3>1. pc'[e] = "routing" /\ state'[e] = "ROUTING" /\ events'[e] = Stages(2)
      BY <1>1, <2>2, <2>5 DEF StartsRouting, Emit, TypeOK
    <3>2. StepOf(e)
      BY <1>1, <2>3, <2>5 DEF StepOf, StartsRouting, Emit, TypeOK
    <3>3. QED
      BY <3>1, <3>2 DEF Life
  <2>6. CASE Fails(e, <<"PENDING">>)
    BY <1>1, <1>2, <1>3, <2>2, <2>3, <2>6, FailsLife
  <2>7. CASE Fails(e, <<"PENDING", "ROUTING">>)
    BY <1>1, <1>2, <1>3, <2>2, <2>3, <2>7, FailsLife
  <2>8. QED
    BY <1>4, <2>4, <2>5, <2>6, <2>7 DEF ExecuteOrder, FailsAtOnce
<1>5. CASE RouteOrder(e)
  <2>1. pc[e] = "routing" /\ events[e] = Stages(2) /\ pc[e] \notin Ended
    BY <1>1, <1>5 DEF RouteOrder, Life, IsFailed, Ended
  <2>2. /\ events[e] \o <<"routing">> = Stages(3)
        /\ events[e] \o <<"routing", "BUILDING">> = Stages(4)
    BY <2>1, StagesGrow
  <2>3. /\ NextStage(e, "routing", "BUILDING", "building")
        /\ "routing" \in EventTypes /\ "BUILDING" \in ExecutionState /\ "BUILDING" \in EventTypes
        /\ "building" \in Waiting
    BY <1>5 DEF RouteOrder, EventTypes, ExecutionState, Waiting
  <2>4. StepOf(e) /\ (Life(e)' \/ Enters(e, "building", "BUILDING", 4))
    <3>1. 3 \in 0 .. 7 /\ 4 \in 0 .. 7
      OBVIOUS
    <3>2. QED
      BY <1>1, <2>1, <2>2, <2>3, <3>1, NextStageLife, Zenon
  <2>5. QED
    BY <2>4 DEF Life, Enters
<1>6. CASE RoutingFails(e)
  <2>1. pc[e] = "routing" /\ events[e] = Stages(2) /\ pc[e] \notin Ended
    BY <1>1, <1>6 DEF RoutingFails, Life, IsFailed, Ended
  <2>2. events[e] \o <<>> = Stages(2)
    <3>1. events[e] \in Seq(EventTypes)
      BY <1>1 DEF TypeOK
    <3>2. QED
      BY <2>1, <3>1, ConcatEmptySeq
  <2>3. Fails(e, <<>>)
    BY <1>6 DEF RoutingFails
  <2>4. QED
    BY <1>1, <1>2, <1>3, <2>1, <2>2, <2>3, FailsLife, Zenon
<1>7. CASE BuildTransaction(e)
  <2>1. pc[e] = "building" /\ events[e] = Stages(4) /\ pc[e] \notin Ended
    BY <1>1, <1>7 DEF BuildTransaction, Life, IsFailed, Ended
  <2>2. /\ events[e] \o <<"building">> = Stages(5)
        /\ events[e] \o <<"building", "SUBMITTED">> = Stages(6)
    BY <2>1, StagesGrow
  <2>3. /\ NextStage(e, "building", "SUBMITTED", "submitting")
        /\ "building" \in EventTypes /\ "SUBMITTED" \in ExecutionState /\ "SUBMITTED" \in EventTypes
        /\ "submitting" \in Waiting
    BY <1>7 DEF BuildTransaction, EventTypes, ExecutionState, Waiting
  <2>4. StepOf(e) /\ (Life(e)' \/ Enters(e, "submitting", "SUBMITTED", 6))
    <3>1. 5 \in 0 .. 7 /\ 6 \in 0 .. 7
      OBVIOUS
    <3>2. QED
      BY <1>1, <2>1, <2>2, <2>3, <3>1, NextStageLife, Zenon
  <2>5. QED
    BY <2>4 DEF Life, Enters
<1>8. CASE SubmitTransaction(e)
  <2>1. /\ pc[e] = "submitting" /\ state[e] = "SUBMITTED" /\ events[e] = Stages(6)
        /\ pc[e] \notin Ended
    BY <1>1, <1>8 DEF SubmitTransaction, Life, IsFailed, Ended
  <2>2. events[e] \o <<"submission">> = Stages(7)
    BY <2>1, StagesGrow
  <2>3. CASE Fails(e, <<"submission">>)
    BY <1>1, <1>2, <1>3, <2>1, <2>2, <2>3, FailsLife, Zenon
  <2>4. CASE /\ pc' = [pc EXCEPT ![e] = "confirming"]
             /\ Emit(e, <<"submission">>)
             /\ UNCHANGED state
    <3>1. pc'[e] = "confirming" /\ state'[e] = "SUBMITTED" /\ events'[e] = Stages(7)
      BY <1>1, <2>1, <2>2, <2>4 DEF Emit, TypeOK
    <3>2. StepOf(e)
      BY <1>1, <2>1, <2>4 DEF StepOf, Emit, TypeOK
    <3>3. QED
      BY <3>1, <3>2 DEF Life
  <2>5. QED
    BY <1>8, <2>3, <2>4 DEF SubmitTransaction
<1>9. CASE Confirm(e)
  <2>1. /\ pc[e] = "confirming" /\ events[e] = Stages(7) /\ pc[e] \notin Ended
    BY <1>1, <1>9 DEF Confirm, Life, IsFailed, Ended
  <2>2. events[e] \o <<"confirmation">> = Stages(8)
    BY <2>1, StagesGrow
  <2>3. CASE /\ ListenerMayThrow
             /\ HandleError(e, <<"confirmation">>, 1, 2)
             /\ \E end \in Ended : pc' = [pc EXCEPT ![e] = end]
    <3>1. 1 \in {1, 2} /\ (1 = 2 => ListenerMayThrow)
      OBVIOUS
    <3>2. state'[e] = "FAILED" /\ FailedEvents(events'[e])
      BY <1>1, <1>2, <1>3, <2>2, <2>3, <3>1, HandleErrorFails, Zenon
    <3>3. StepOf(e) /\ pc'[e] \in Ended
      BY <1>1, <2>1, <2>3 DEF StepOf, HandleError, Emit, TypeOK
    <3>4. QED
      BY <2>3, <3>2, <3>3 DEF Life, IsFailed, Ended
  <2>4. CASE /\ state' = [state EXCEPT ![e] = "CONFIRMED"]
             /\ pc' = [pc EXCEPT ![e] = "returned"]
             /\ Emit(e, <<"confirmation">>)
    <3>1. pc'[e] = "returned" /\ state'[e] = "CONFIRMED" /\ events'[e] = Stages(8)
      BY <1>1, <2>2, <2>4 DEF Emit, TypeOK
    <3>2. StepOf(e)
      BY <1>1, <2>1, <2>4 DEF StepOf, Emit, TypeOK
    <3>3. QED
      BY <3>1, <3>2 DEF Life
  <2>5. QED
    BY <1>9, <2>3, <2>4 DEF Confirm
<1>10. QED
  BY <1>4, <1>5, <1>6, <1>7, <1>8, <1>9

\* A step changes one execution that has not ended, or no context at all.
LEMMA StepShape ==
  ASSUME LifeInv, [Next]_vars
  PROVE  \/ UNCHANGED <<state, pc, events>>
         \/ \E e \in Executions : StepOf(e) /\ Life(e)'
<1>1. CASE Reset \/ UNCHANGED vars
  BY <1>1 DEF Reset, vars, contextVars
<1>2. QED
  BY <1>1, LifeStep DEF Next

LEMMA LifeInvStep == LifeInv /\ [Next]_vars => LifeInv'
<1> SUFFICES ASSUME LifeInv, [Next]_vars PROVE \A f \in Executions : Life(f)'
  BY TypeStep DEF LifeInv
<1>1. ASSUME NEW f \in Executions, pc'[f] = pc[f], state'[f] = state[f], events'[f] = events[f]
      PROVE  Life(f)'
  <2>1. Life(f)
    BY DEF LifeInv
  <2>2. QED
    BY <1>1, <2>1 DEF Life, IsFailed
<1>2. QED
  BY <1>1, StepShape DEF StepOf

LEMMA InitLife == Init => LifeInv
<1> SUFFICES ASSUME Init PROVE \A e \in Executions : Life(e)
  BY InitType DEF LifeInv
<1>1. QED
  BY StagesGrow DEF Init, Life

(* The answer of executeOrder means that the order is settled, and only a  *)
(* listener that throws can reject it: at its first event with the order   *)
(* left PENDING, later with the order FAILED.                              *)
THEOREM AnswersMeanSettled == Spec => []EndedMeansSettled
<1>1. ASSUME LifeInv PROVE EndedMeansSettled
  <2>1. Stages(1) = <<"PENDING">>
    <3>1. <<"PENDING">> \in Seq(EventTypes)
      BY DEF EventTypes
    <3>2. QED
      BY <3>1, StagesGrow, ConcatEmptySeq
  <2>2. ASSUME NEW e \in Executions
        PROVE  /\ pc[e] = "returned" => state[e] \in Settled
               /\ pc[e] = "rejected" =>
                    ListenerMayThrow /\ (state[e] = "FAILED" \/ events[e] = <<"PENDING">>)
               /\ pc[e] \in Waiting => state[e] \notin Settled
    <3>1. Life(e)
      BY <1>1 DEF LifeInv
    <3>2. QED
      BY <2>1, <3>1 DEF Life, IsFailed, Settled, Waiting
  <2>3. QED
    BY <2>2 DEF EndedMeansSettled
<1>2. QED
  BY InitLife, LifeInvStep, <1>1, PTL DEF Spec

(* No step changes a settled order or emits another event for it: no later *)
(* stage of its own, no other execution and no reset.                      *)
THEOREM SettledStaysSettled == Spec => SettledOrderIsFinal
<1>1. ASSUME LifeInv, [Next]_vars, NEW e \in Executions, state[e] \in Settled
      PROVE  state'[e] = state[e] /\ events'[e] = events[e]
  <2>1. pc[e] \in Ended
    <3>1. Life(e)
      BY <1>1 DEF LifeInv
    <3>2. QED
      BY <1>1, <3>1 DEF Life, IsFailed, Settled, Ended
  <2>2. QED
    BY <1>1, <2>1, StepShape DEF StepOf
<1>2. LifeInv /\ [Next]_vars =>
        [\A e \in Executions :
           state[e] \in Settled => state'[e] = state[e] /\ events'[e] = events[e]]_vars
  BY <1>1
<1>3. QED
  BY InitLife, LifeInvStep, <1>2, PTL DEF Spec, SettledOrderIsFinal

(* What an execution emits is always a prefix of the pipeline, ended by an *)
(* error at most (two if a listener throws at the first), in whatever      *)
(* order the executions take their steps.                                  *)
THEOREM EventOrder == Spec => []EventsFollowThePipeline
<1>1. ASSUME LifeInv, NEW e \in Executions, NEW n \in 0 .. 8,
             \/ events[e] = Stages(n)
             \/ /\ events[e] = Stages(n) \o <<"error">>
                /\ n < 8 \/ ListenerMayThrow
             \/ /\ events[e] = Stages(n) \o <<"error", "error">>
                /\ ListenerMayThrow
      PROVE  \E k \in 0 .. Len(Pipeline) :
               LET stages == SubSeq(Pipeline, 1, k)
               IN  \/ events[e] = stages
                   \/ /\ events[e] = Append(stages, "error")
                      /\ k < Len(Pipeline) \/ ListenerMayThrow
                   \/ /\ events[e] = stages \o <<"error", "error">>
                      /\ ListenerMayThrow
  <2>1. Len(Pipeline) = 8 /\ Stages(n) \in Seq(EventTypes) /\ "error" \in EventTypes
    BY PipelineElements, StagesGrow DEF EventTypes
  <2>2. Append(Stages(n), "error") = Stages(n) \o <<"error">>
    BY <2>1, AppendIsConcat
  <2>3. QED
    BY <1>1, <2>1, <2>2 DEF Stages
<1>2. ASSUME LifeInv, NEW e \in Executions
      PROVE  \E n \in 0 .. 8 :
               \/ events[e] = Stages(n)
               \/ /\ events[e] = Stages(n) \o <<"error">>
                  /\ n < 8 \/ ListenerMayThrow
               \/ /\ events[e] = Stages(n) \o <<"error", "error">>
                  /\ ListenerMayThrow
  <2>1. Life(e)
    BY <1>2 DEF LifeInv
  <2>2. CASE IsFailed(e)
    BY <2>2 DEF IsFailed, FailedEvents
  <2>3. CASE \E n \in {0, 1, 2, 4, 6, 7, 8} : events[e] = Stages(n)
    <3>1. PICK n \in {0, 1, 2, 4, 6, 7, 8} : events[e] = Stages(n)
      BY <2>3
    <3>2. n \in 0 .. 8
      OBVIOUS
    <3>3. QED
      BY <3>1, <3>2, Zenon
  <2>4. QED
    BY <2>1, <2>2, <2>3 DEF Life
<1>3. LifeInv => EventsFollowThePipeline
  BY <1>1, <1>2 DEF EventsFollowThePipeline
<1>4. QED
  BY InitLife, LifeInvStep, <1>3, PTL DEF Spec

LEMMA LastOfPrefix ==
  ASSUME NEW S, NEW s \in Seq(S), NEW n \in 1 .. Len(s)
  PROVE  /\ SubSeq(s, 1, n) # <<>>
         /\ Len(SubSeq(s, 1, n)) = n
         /\ SubSeq(s, 1, n)[n] = s[n]
OBVIOUS

LEMMA LastStage ==
  ASSUME NEW n \in 1 .. 8
  PROVE  /\ Stages(n) # <<>>
         /\ Len(Stages(n)) = n
         /\ Stages(n)[n] = Pipeline[n]
<1>1. Pipeline \in Seq(EventTypes) /\ n \in 1 .. Len(Pipeline)
  BY PipelineElements
<1>2. QED
  BY <1>1, LastOfPrefix, Zenon DEF Stages

LEMMA LastIsError ==
  ASSUME NEW seen, FailedEvents(seen)
  PROVE  seen # <<>> /\ seen[Len(seen)] = "error"
<1>1. PICK n \in 0 .. 8 :
        seen = Stages(n) \o <<"error">> \/ seen = Stages(n) \o <<"error", "error">>
  BY DEF FailedEvents
<1>2. Stages(n) \in Seq(EventTypes)
  BY StagesGrow
<1> DEFINE stages == Stages(n)
<1> HIDE DEF stages
<1>3. stages \in Seq(EventTypes) /\ "error" \in EventTypes
  BY <1>2 DEF stages, EventTypes
<1>4. CASE seen = stages \o <<"error">>
  <2>1. Len(seen) = Len(stages) + 1 /\ seen[Len(stages) + 1] = "error"
    BY <1>3, <1>4
  <2>2. QED
    BY <1>3, <1>4, <2>1
<1>5. CASE seen = stages \o <<"error", "error">>
  <2>1. Len(seen) = Len(stages) + 2 /\ seen[Len(stages) + 2] = "error"
    BY <1>3, <1>5
  <2>2. QED
    BY <1>3, <1>5, <2>1
<1>6. QED
  BY <1>1, <1>4, <1>5 DEF stages

(* A listener that has applied the events so far knows the state of every  *)
(* execution: no transition is silent and none is announced too early.     *)
THEOREM ListenersFollow == Spec => []ListenersKnowTheState
<1>1. ASSUME LifeInv, NEW e \in Executions PROVE Announced(events[e]) = state[e]
  <2>1. Life(e)
    BY <1>1 DEF LifeInv
  <2>2. CASE events[e] = Stages(0) /\ state[e] = "NONE"
    <3>1. events[e] = <<>>
      BY <2>2, StagesGrow
    <3>2. QED
      BY <2>2, <3>1, Zenon DEF Announced
  <2>3. ASSUME NEW n \in 1 .. 8, events[e] = Stages(n)
        PROVE  events[e] # <<>> /\ events[e][Len(events[e])] = Pipeline[n]
    BY <2>3, LastStage
  <2>4. CASE events[e] = Stages(1) /\ state[e] = "PENDING"
    BY <2>4, <2>3, PipelineElements DEF Announced, ExecutionState
  <2>5. CASE events[e] = Stages(2) /\ state[e] = "ROUTING"
    BY <2>5, <2>3, PipelineElements DEF Announced, ExecutionState
  <2>6. CASE events[e] = Stages(4) /\ state[e] = "BUILDING"
    BY <2>6, <2>3, PipelineElements DEF Announced, ExecutionState
  <2>7. CASE events[e] = Stages(6) /\ state[e] = "SUBMITTED"
    BY <2>7, <2>3, PipelineElements DEF Announced, ExecutionState
  <2>8. CASE events[e] = Stages(7) /\ state[e] = "SUBMITTED"
    BY <2>8, <2>3, PipelineElements DEF Announced, ExecutionState
  <2>9. CASE events[e] = Stages(8) /\ state[e] = "CONFIRMED"
    BY <2>9, <2>3, PipelineElements DEF Announced, ExecutionState
  <2>10. CASE IsFailed(e)
    <3>1. state[e] = "FAILED" /\ FailedEvents(events[e])
      BY <2>10 DEF IsFailed
    <3>2. events[e] # <<>> /\ events[e][Len(events[e])] = "error"
      BY <3>1, LastIsError, Zenon
    <3>3. QED
      BY <3>1, <3>2 DEF Announced, ExecutionState
  <2>11. QED
    BY <2>1, <2>2, <2>4, <2>5, <2>6, <2>7, <2>8, <2>9, <2>10 DEF Life
<1>2. LifeInv => ListenersKnowTheState
  BY <1>1 DEF ListenersKnowTheState
<1>3. QED
  BY InitLife, LifeInvStep, <1>2, PTL DEF Spec

-----------------------------------------------------------------------------
(* The totals.                                                             *)

\* The map of contexts holds the executions that were started.
StartedCounts ==
  /\ executions = {e \in Executions : pc[e] # "idle"}
  /\ totalExecuted = Cardinality(executions)

SettledCounts ==
  /\ totalSuccessful >= Cardinality(InState("CONFIRMED"))
  /\ totalFailed >= Cardinality(InState("FAILED"))
  /\ ~ListenerMayThrow =>
       /\ totalSuccessful = Cardinality(InState("CONFIRMED"))
       /\ totalFailed = Cardinality(InState("FAILED"))

CountInv == LifeInv /\ (~ResetAllowed => StartedCounts /\ SettledCounts)

LEMMA InStateFinite ==
  ASSUME NEW s
  PROVE  IsFiniteSet(InState(s)) /\ Cardinality(InState(s)) \in Nat
<1>1. InState(s) \subseteq Executions
  BY DEF InState
<1>2. IsFiniteSet(InState(s))
  BY <1>1, EngineAssumption, FS_Subset
<1>3. QED
  BY <1>2, FS_CardinalityType

LEMMA EntersState ==
  ASSUME TypeOK, NEW e \in Executions, NEW s, NEW t, state[e] \notin {s, t}, s # t,
         state' = [state EXCEPT ![e] = s]
  PROVE  /\ Cardinality(InState(s)') = Cardinality(InState(s)) + 1
         /\ InState(t)' = InState(t)
<1>1. InState(s)' = InState(s) \cup {e} /\ e \notin InState(s)
  BY DEF InState, TypeOK
<1>2. Cardinality(InState(s)') = Cardinality(InState(s)) + 1
  BY <1>1, InStateFinite, FS_AddElement
<1>3. \A f \in Executions : state'[f] = t <=> state[f] = t
  BY DEF TypeOK
<1>4. InState(t)' = InState(t)
  BY <1>3 DEF InState
<1>5. QED
  BY <1>2, <1>4

LEMMA FailsCounts ==
  ASSUME TypeOK, SettledCounts, NEW e \in Executions, NEW types,
         state[e] \notin Settled, Fails(e, types), UNCHANGED totalSuccessful
  PROVE  SettledCounts'
<1>1. state' = [state EXCEPT ![e] = "FAILED"]
  BY DEF Fails, HandleError
<1>2. /\ Cardinality(InState("FAILED")') = Cardinality(InState("FAILED")) + 1
      /\ InState("CONFIRMED")' = InState("CONFIRMED")
  <2>1. state[e] \notin {"FAILED", "CONFIRMED"} /\ "FAILED" # "CONFIRMED"
    BY DEF Settled
  <2>2. QED
    BY <1>1, <2>1, EntersState, Zenon
<1>3. totalFailed' = totalFailed + 1 \/ (ListenerMayThrow /\ totalFailed' = totalFailed + 2)
  BY DEF Fails, HandleError
<1>4. totalFailed \in Nat /\ Cardinality(InState("FAILED")) \in Nat
  BY InStateFinite DEF TypeOK
<1>5. QED
  BY <1>2, <1>3, <1>4 DEF SettledCounts

LEMMA ProgressCounts ==
  ASSUME TypeOK, SettledCounts, NEW e \in Executions, NEW to,
         to \notin Settled, state[e] \notin Settled, state' = [state EXCEPT ![e] = to],
         UNCHANGED <<totalSuccessful, totalFailed>>
  PROVE  SettledCounts'
<1>1. /\ InState("FAILED")' = InState("FAILED")
      /\ InState("CONFIRMED")' = InState("CONFIRMED")
  BY DEF InState, TypeOK, Settled
<1>2. QED
  BY <1>1 DEF SettledCounts

LEMMA NextStageCounts ==
  ASSUME TypeOK, SettledCounts, NEW e \in Executions, NEW done, NEW to, NEW awaiting,
         to \notin Settled, state[e] \notin Settled, NextStage(e, done, to, awaiting)
  PROVE  SettledCounts'
<1>1. UNCHANGED totalSuccessful
  BY DEF NextStage
<1>2. CASE Fails(e, <<done>>)
  BY <1>1, <1>2, FailsCounts
<1>3. CASE Fails(e, <<done, to>>)
  BY <1>1, <1>3, FailsCounts
<1>4. CASE state' = [state EXCEPT ![e] = to] /\ UNCHANGED totalFailed
  BY <1>1, <1>4, ProgressCounts
<1>5. QED
  BY <1>2, <1>3, <1>4 DEF NextStage

LEMMA ConfirmCounts ==
  ASSUME TypeOK, SettledCounts, NEW e \in Executions, state[e] \notin Settled, Confirm(e)
  PROVE  SettledCounts'
<1>1. /\ totalSuccessful' = totalSuccessful + 1
      /\ totalSuccessful \in Nat /\ totalFailed \in Nat
      /\ Cardinality(InState("CONFIRMED")) \in Nat /\ Cardinality(InState("FAILED")) \in Nat
  BY InStateFinite DEF Confirm, TypeOK
<1>2. CASE state' = [state EXCEPT ![e] = "CONFIRMED"] /\ UNCHANGED totalFailed
  <2>1. /\ Cardinality(InState("CONFIRMED")') = Cardinality(InState("CONFIRMED")) + 1
        /\ InState("FAILED")' = InState("FAILED")
    <3>1. state[e] \notin {"CONFIRMED", "FAILED"} /\ "CONFIRMED" # "FAILED"
      BY DEF Settled
    <3>2. QED
      BY <1>2, <3>1, EntersState, Zenon
  <2>2. QED
    BY <1>1, <1>2, <2>1 DEF SettledCounts
<1>3. CASE ListenerMayThrow /\ HandleError(e, <<"confirmation">>, 1, 2)
  <2>1. state' = [state EXCEPT ![e] = "FAILED"] /\ totalFailed' = totalFailed + 1
    BY <1>3 DEF HandleError
  <2>2. /\ Cardinality(InState("FAILED")') = Cardinality(InState("FAILED")) + 1
        /\ InState("CONFIRMED")' = InState("CONFIRMED")
    <3>1. state[e] \notin {"FAILED", "CONFIRMED"} /\ "FAILED" # "CONFIRMED"
      BY DEF Settled
    <3>2. QED
      BY <2>1, <3>1, EntersState, Zenon
  <2>3. QED
    BY <1>1, <1>3, <2>1, <2>2 DEF SettledCounts
<1>4. QED
  BY <1>2, <1>3 DEF Confirm

LEMMA CountStep == CountInv /\ [Next]_vars => CountInv'
<1> SUFFICES ASSUME CountInv, [Next]_vars, ~ResetAllowed
             PROVE  StartedCounts' /\ SettledCounts'
  BY LifeInvStep DEF CountInv
<1>1. TypeOK /\ StartedCounts /\ SettledCounts
  BY DEF CountInv, LifeInv
<1>2. ASSUME NEW e \in Executions, pc[e] \notin Ended PROVE state[e] \notin Settled
  <2>1. Life(e)
    BY DEF CountInv, LifeInv
  <2>2. QED
    BY <1>2, <2>1 DEF Life, IsFailed, Ended, Settled
\* A step of an execution that was started already starts no other.
<1>3. ASSUME NEW e \in Executions, pc[e] # "idle", NEW w, w # "idle",
             pc' = [pc EXCEPT ![e] = w], UNCHANGED <<executions, totalExecuted>>
      PROVE  StartedCounts'
  <2>1. \A f \in Executions : pc'[f] # "idle" <=> pc[f] # "idle"
    BY <1>1, <1>3 DEF TypeOK
  <2>2. QED
    BY <1>1, <1>3, <2>1 DEF StartedCounts
<1>4. ASSUME NEW e \in Executions, NEW types, Fails(e, types)
      PROVE  \E w : w # "idle" /\ pc' = [pc EXCEPT ![e] = w]
  BY <1>4 DEF Fails, Ended
<1>5. ASSUME NEW e \in Executions, NEW done, NEW to, NEW awaiting, awaiting # "idle",
             NextStage(e, done, to, awaiting)
      PROVE  \E w : w # "idle" /\ pc' = [pc EXCEPT ![e] = w]
  BY <1>4, <1>5 DEF NextStage
<1>6. ASSUME NEW e \in Executions, ExecuteOrder(e)
      PROVE  StartedCounts' /\ SettledCounts'
  <2>1. PICK w : w # "idle" /\ pc' = [pc EXCEPT ![e] = w]
    BY <1>6, <1>4 DEF ExecuteOrder, FirstListenerThrows, FailsAtOnce, StartsRouting
  <2>2. /\ pc[e] = "idle" /\ executions' = executions \cup {e}
        /\ totalExecuted' = totalExecuted + 1 /\ UNCHANGED totalSuccessful
    BY <1>6 DEF ExecuteOrder
  <2>3. executions' = {f \in Executions : pc'[f] # "idle"} /\ e \notin executions
    BY <1>1, <2>1, <2>2 DEF StartedCounts, TypeOK
  <2>4. IsFiniteSet(executions)
    BY <1>1, EngineAssumption, FS_Subset DEF TypeOK
  <2>5. Cardinality(executions') = Cardinality(executions) + 1
    BY <2>2, <2>3, <2>4, FS_AddElement
  <2>6. StartedCounts'
    BY <1>1, <2>2, <2>3, <2>5 DEF StartedCounts
  <2>7. state[e] \notin Settled
    BY <1>2, <2>2 DEF Ended
  <2>8. ASSUME FirstListenerThrows(e) PROVE SettledCounts'
    <3>1. /\ state' = [state EXCEPT ![e] = "PENDING"] /\ "PENDING" \notin Settled
          /\ UNCHANGED <<totalSuccessful, totalFailed>>
      BY <2>2, <2>8 DEF FirstListenerThrows, Settled
    <3>2. QED
      BY <1>1, <2>7, <3>1, ProgressCounts
  <2>9. ASSUME FailsAtOnce(e) PROVE SettledCounts'
    BY <1>1, <2>2, <2>7, <2>9, FailsCounts DEF FailsAtOnce
  <2>10. ASSUME StartsRouting(e) PROVE SettledCounts'
    <3>1. /\ state' = [state EXCEPT ![e] = "ROUTING"] /\ "ROUTING" \notin Settled
          /\ UNCHANGED <<totalSuccessful, totalFailed>>
      BY <2>2, <2>10 DEF StartsRouting, Settled
    <3>2. QED
      BY <1>1, <2>7, <3>1, ProgressCounts
  <2>11. QED
    BY <1>6, <2>6, <2>8, <2>9, <2>10 DEF ExecuteOrder
<1>7. ASSUME NEW e \in Executions, RouteOrder(e)
      PROVE  StartedCounts' /\ SettledCounts'
  <2>1. pc[e] = "routing" /\ NextStage(e, "routing", "BUILDING", "building")
    BY <1>7 DEF RouteOrder
  <2>2. QED
    BY <1>1, <1>2, <1>3, <1>5, <2>1, NextStageCounts DEF NextStage, Ended, Settled
<1>8. ASSUME NEW e \in Executions, RoutingFails(e)
      PROVE  StartedCounts' /\ SettledCounts'
  <2>1. /\ pc[e] = "routing" /\ Fails(e, <<>>)
        /\ UNCHANGED <<executions, totalExecuted, totalSuccessful>>
    BY <1>8 DEF RoutingFails
  <2>2. QED
    BY <1>1, <1>2, <1>3, <1>4, <2>1, FailsCounts DEF Ended
<1>9. ASSUME NEW e \in Executions, BuildTransaction(e)
      PROVE  StartedCounts' /\ SettledCounts'
  <2>1. pc[e] = "building" /\ NextStage(e, "building", "SUBMITTED", "submitting")
    BY <1>9 DEF BuildTransaction
  <2>2. QED
    BY <1>1, <1>2, <1>3, <1>5, <2>1, NextStageCounts DEF NextStage, Ended, Settled
<1>10. ASSUME NEW e \in Executions, SubmitTransaction(e)
       PROVE  StartedCounts' /\ SettledCounts'
  <2>1. /\ pc[e] = "submitting"
        /\ UNCHANGED <<executions, totalExecuted, totalSuccessful>>
    BY <1>10 DEF SubmitTransaction
  <2>2. CASE pc' = [pc EXCEPT ![e] = "confirming"] /\ UNCHANGED <<state, totalFailed>>
    BY <1>1, <1>3, <2>1, <2>2 DEF SettledCounts, InState
  <2>3. CASE Fails(e, <<"submission">>)
    BY <1>1, <1>2, <1>3, <1>4, <2>1, <2>3, FailsCounts DEF Ended
  <2>4. QED
    BY <1>10, <2>2, <2>3 DEF SubmitTransaction
<1>11. ASSUME NEW e \in Executions, Confirm(e)
       PROVE  StartedCounts' /\ SettledCounts'
  <2>1. pc[e] = "confirming" /\ UNCHANGED <<executions, totalExecuted>>
    BY <1>11 DEF Confirm
  <2>2. \E w : w # "idle" /\ pc' = [pc EXCEPT ![e] = w]
    BY <1>11 DEF Confirm, Ended
  <2>3. QED
    BY <1>1, <1>2, <1>3, <1>11, <2>1, <2>2, ConfirmCounts DEF Ended
<1>12. CASE UNCHANGED vars
  BY <1>1, <1>12 DEF StartedCounts, SettledCounts, InState, vars, contextVars, statVars
<1>13. ~Reset
  BY DEF Reset
<1>14. QED
  BY <1>6, <1>7, <1>8, <1>9, <1>10, <1>11, <1>12, <1>13 DEF Next

LEMMA InitCount == Init => CountInv
<1> SUFFICES ASSUME Init PROVE CountInv
  OBVIOUS
<1>1. LifeInv
  BY InitLife
<1>2. executions = {e \in Executions : pc[e] # "idle"} /\ executions = {}
  BY DEF Init
<1>3. InState("CONFIRMED") = {} /\ InState("FAILED") = {}
  BY DEF Init, InState
<1>4. totalExecuted = 0 /\ totalSuccessful = 0 /\ totalFailed = 0
  BY DEF Init
<1>5. Cardinality({}) = 0
  BY FS_EmptySet
<1>6. StartedCounts
  BY <1>2, <1>4, <1>5 DEF StartedCounts
<1>7. SettledCounts
  BY <1>3, <1>4, <1>5 DEF SettledCounts
<1>8. QED
  BY <1>1, <1>6, <1>7 DEF CountInv

LEMMA CountHolds == Spec => []CountInv
BY InitCount, CountStep, PTL DEF Spec

(* The totals count executions: what is neither successful nor failed is   *)
(* in flight.  A listener that throws can make an execution count more     *)
(* than once, never less.                                                  *)
THEOREM CountersCorrect == Spec => []CountersAgree
<1>1. CountInv => CountersAgree
  BY DEF CountInv, StartedCounts, SettledCounts, CountersAgree
<1>2. QED
  BY <1>1, CountHolds, PTL

-----------------------------------------------------------------------------
(* The distribution over the states.                                       *)

Excess(s) == stateDistribution[s] - Cardinality(InState(s))

\* What the distribution counts too much, or too little, in each state.
Drift ==
  /\ Excess("PENDING") = -totalSuccessful
  /\ Excess("SUBMITTED") = totalSuccessful
  /\ \A s \in ExecutionState \ {"PENDING", "SUBMITTED"} : Excess(s) = 0

DriftInv == LifeInv /\ (~ResetAllowed /\ ~ListenerMayThrow => Drift)

LEMMA MovesBetween ==
  ASSUME TypeOK, NEW e \in Executions, NEW from, NEW to, state[e] = from, from # to,
         state' = [state EXCEPT ![e] = to]
  PROVE  /\ Cardinality(InState(to)') = Cardinality(InState(to)) + 1
         /\ Cardinality(InState(from)') = Cardinality(InState(from)) - 1
<1>1. InState(to)' = InState(to) \cup {e} /\ e \notin InState(to)
  BY DEF InState, TypeOK
<1>2. InState(from)' = InState(from) \ {e} /\ e \in InState(from)
  BY DEF InState, TypeOK
<1>3. Cardinality(InState(to)') = Cardinality(InState(to)) + 1
  BY <1>1, InStateFinite, FS_AddElement
<1>4. Cardinality(InState(from)') = Cardinality(InState(from)) - 1
  BY <1>2, InStateFinite, FS_RemoveElement
<1>5. QED
  BY <1>3, <1>4

LEMMA OtherStatesKept ==
  ASSUME TypeOK, NEW e \in Executions, NEW to, state' = [state EXCEPT ![e] = to],
         NEW s, s # state[e], s # to
  PROVE  InState(s)' = InState(s)
BY DEF InState, TypeOK

LEMMA MovedAt ==
  ASSUME NEW dist \in [ExecutionState -> Int], NEW from \in ExecutionState,
         NEW to \in ExecutionState, from # to
  PROVE  /\ Moved(dist, from, to)[to] = dist[to] + 1
         /\ Moved(dist, from, to)[from] = dist[from] - 1
         /\ \A s \in ExecutionState : s # from /\ s # to => Moved(dist, from, to)[s] = dist[s]
BY DEF Moved

\* A move that is counted from the state that is left keeps the excess.
LEMMA DriftMoves ==
  ASSUME TypeOK, Drift, NEW e \in Executions, NEW from \in ExecutionState,
         NEW to \in ExecutionState, state[e] = from, from # to,
         state' = [state EXCEPT ![e] = to],
         stateDistribution' = Moved(stateDistribution, from, to),
         UNCHANGED totalSuccessful
  PROVE  Drift'
<1>1. stateDistribution \in [ExecutionState -> Int]
  BY DEF TypeOK
<1>2. ASSUME NEW s \in ExecutionState PROVE Excess(s)' = Excess(s)
  <2>1. stateDistribution[s] \in Int /\ Cardinality(InState(s)) \in Nat
    BY <1>1, InStateFinite
  <2>2. CASE s = to
    <3>1. stateDistribution'[s] = stateDistribution[s] + 1
      BY <1>1, <2>2, MovedAt
    <3>2. Cardinality(InState(s)') = Cardinality(InState(s)) + 1
      BY <2>2, MovesBetween
    <3>3. QED
      BY <2>1, <3>1, <3>2 DEF Excess
  <2>3. CASE s = from
    <3>1. stateDistribution'[s] = stateDistribution[s] - 1
      BY <1>1, <2>3, MovedAt
    <3>2. Cardinality(InState(s)') = Cardinality(InState(s)) - 1
      BY <2>3, MovesBetween
    <3>3. QED
      BY <2>1, <3>1, <3>2 DEF Excess
  <2>4. CASE s # to /\ s # from
    <3>1. stateDistribution'[s] = stateDistribution[s]
      BY <1>1, <2>4, MovedAt
    <3>2. InState(s)' = InState(s)
      BY <2>4, OtherStatesKept
    <3>3. QED
      BY <3>1, <3>2 DEF Excess
  <2>5. QED
    BY <2>2, <2>3, <2>4
<1>3. QED
  BY <1>2 DEF Drift, ExecutionState

LEMMA DriftFails ==
  ASSUME TypeOK, Drift, NEW e \in Executions, NEW from \in ExecutionState \ {"FAILED"},
         state[e] = from, NEW types, Fails(e, types),
         stateDistribution' = Moved(stateDistribution, state[e], "FAILED"),
         UNCHANGED totalSuccessful
  PROVE  Drift'
<1>1. state' = [state EXCEPT ![e] = "FAILED"]
  BY DEF Fails, HandleError
<1>2. stateDistribution' = Moved(stateDistribution, from, "FAILED")
  OBVIOUS
<1>3. QED
  BY <1>1, <1>2, DriftMoves, StateNames

\* A new context is counted in the state it is in when the call awaits or ends.
LEMMA DriftStarts ==
  ASSUME TypeOK, Drift, NEW e \in Executions, NEW to \in ExecutionState, state[e] = "NONE",
         state' = [state EXCEPT ![e] = to],
         stateDistribution' = [stateDistribution EXCEPT ![to] = @ + 1],
         UNCHANGED totalSuccessful
  PROVE  Drift'
<1>1. "NONE" \notin ExecutionState /\ stateDistribution \in [ExecutionState -> Int]
  BY DEF ExecutionState, TypeOK
<1>2. ASSUME NEW s \in ExecutionState PROVE Excess(s)' = Excess(s)
  <2>1. stateDistribution[s] \in Int /\ Cardinality(InState(s)) \in Nat
    BY <1>1, InStateFinite
  <2>2. CASE s = to
    <3>1. Cardinality(InState(s)') = Cardinality(InState(s)) + 1
      BY <1>1, <2>2, MovesBetween
    <3>2. QED
      BY <1>1, <2>1, <2>2, <3>1 DEF Excess
  <2>3. CASE s # to
    <3>1. InState(s)' = InState(s)
      BY <1>1, <2>3, OtherStatesKept
    <3>2. QED
      BY <1>1, <2>3, <3>1 DEF Excess
  <2>4. QED
    BY <2>2, <2>3
<1>3. QED
  BY <1>2 DEF Drift, ExecutionState

\* A confirmation leaves SUBMITTED but takes one off PENDING.
LEMMA DriftConfirms ==
  ASSUME TypeOK, Drift, NEW e \in Executions, state[e] = "SUBMITTED",
         state' = [state EXCEPT ![e] = "CONFIRMED"],
         stateDistribution' = Moved(stateDistribution, "PENDING", "CONFIRMED"),
         totalSuccessful' = totalSuccessful + 1
  PROVE  Drift'
<1>1. /\ "PENDING" \in ExecutionState /\ "SUBMITTED" \in ExecutionState
      /\ "CONFIRMED" \in ExecutionState /\ totalSuccessful \in Nat
      /\ stateDistribution \in [ExecutionState -> Int]
  BY DEF ExecutionState, TypeOK
<1>2. \A s \in ExecutionState : stateDistribution[s] \in Int /\ Cardinality(InState(s)) \in Nat
  BY <1>1, InStateFinite
<1>3. /\ stateDistribution'["CONFIRMED"] = stateDistribution["CONFIRMED"] + 1
      /\ stateDistribution'["PENDING"] = stateDistribution["PENDING"] - 1
      /\ \A s \in ExecutionState \ {"PENDING", "CONFIRMED"} :
           stateDistribution'[s] = stateDistribution[s]
  BY <1>1, MovedAt
<1>4. /\ Cardinality(InState("CONFIRMED")') = Cardinality(InState("CONFIRMED")) + 1
      /\ Cardinality(InState("SUBMITTED")') = Cardinality(InState("SUBMITTED")) - 1
  BY MovesBetween
<1>5. Excess("PENDING")' = Excess("PENDING") - 1
  <2>1. InState("PENDING")' = InState("PENDING")
    BY OtherStatesKept
  <2>2. QED
    BY <1>1, <1>2, <1>3, <2>1 DEF Excess
<1>6. Excess("SUBMITTED")' = Excess("SUBMITTED") + 1
  BY <1>1, <1>2, <1>3, <1>4 DEF Excess
<1>7. ASSUME NEW s \in ExecutionState \ {"PENDING", "SUBMITTED"}
      PROVE  Excess(s)' = Excess(s)
  <2>1. CASE s = "CONFIRMED"
    BY <1>1, <1>2, <1>3, <1>4, <2>1 DEF Excess
  <2>2. CASE s # "CONFIRMED"
    <3>1. InState(s)' = InState(s)
      BY <2>2, OtherStatesKept
    <3>2. QED
      BY <1>3, <2>2, <3>1 DEF Excess
  <2>3. QED
    BY <2>1, <2>2
<1>8. QED
  BY <1>1, <1>5, <1>6, <1>7 DEF Drift

LEMMA DriftStep == DriftInv /\ [Next]_vars => DriftInv'
<1> SUFFICES ASSUME DriftInv, [Next]_vars, ~ResetAllowed, ~ListenerMayThrow
             PROVE  Drift'
  BY LifeInvStep DEF DriftInv
<1>1. TypeOK /\ Drift
  BY DEF DriftInv, LifeInv
<1>2. ASSUME NEW e \in Executions
      PROVE  /\ pc[e] = "idle" => state[e] = "NONE"
             /\ pc[e] = "routing" => state[e] = "ROUTING"
             /\ pc[e] = "building" => state[e] = "BUILDING"
             /\ pc[e] \in {"submitting", "confirming"} => state[e] = "SUBMITTED"
  BY DEF DriftInv, LifeInv, Life, IsFailed
<1>3. {"ROUTING", "BUILDING", "SUBMITTED"} \subseteq ExecutionState \ {"FAILED"}
  BY DEF ExecutionState
<1>4. ASSUME NEW e \in Executions, ExecuteOrder(e) PROVE Drift'
  <2>1. state[e] = "NONE" /\ UNCHANGED totalSuccessful
    BY <1>2, <1>4 DEF ExecuteOrder
  <2>2. CASE FailsAtOnce(e)
    <3>1. /\ state' = [state EXCEPT ![e] = "FAILED"]
          /\ stateDistribution' = [stateDistribution EXCEPT !["FAILED"] = @ + 1]
      BY <2>2 DEF FailsAtOnce, Fails, HandleError
    <3>2. QED
      BY <1>1, <2>1, <3>1, DriftStarts, StateNames
  <2>3. CASE StartsRouting(e)
    <3>1. /\ state' = [state EXCEPT ![e] = "ROUTING"]
          /\ stateDistribution' = [stateDistribution EXCEPT !["ROUTING"] = @ + 1]
      BY <2>3 DEF StartsRouting
    <3>2. QED
      BY <1>1, <1>3, <2>1, <3>1, DriftStarts
  <2>4. QED
    BY <1>4, <2>2, <2>3 DEF ExecuteOrder, FirstListenerThrows
<1>5. ASSUME NEW e \in Executions, RouteOrder(e) PROVE Drift'
  <2>1. /\ state[e] = "ROUTING" /\ UNCHANGED totalSuccessful
        /\ state' = [state EXCEPT ![e] = "BUILDING"]
        /\ stateDistribution' = Moved(stateDistribution, state[e], "BUILDING")
    BY <1>2, <1>5 DEF RouteOrder, NextStage
  <2>2. stateDistribution' = Moved(stateDistribution, "ROUTING", "BUILDING")
    BY <2>1
  <2>3. QED
    BY <1>1, <1>3, <2>1, <2>2, DriftMoves
<1>6. ASSUME NEW e \in Executions, RoutingFails(e) PROVE Drift'
  <2>1. /\ state[e] = "ROUTING" /\ UNCHANGED totalSuccessful /\ Fails(e, <<>>)
        /\ stateDistribution' = Moved(stateDistribution, state[e], "FAILED")
    BY <1>2, <1>6 DEF RoutingFails
  <2>2. QED
    BY <1>1, <1>3, <2>1, DriftFails
<1>7. ASSUME NEW e \in Executions, BuildTransaction(e) PROVE Drift'
  <2>1. /\ state[e] = "BUILDING" /\ UNCHANGED totalSuccessful
        /\ state' = [state EXCEPT ![e] = "SUBMITTED"]
        /\ stateDistribution' = Moved(stateDistribution, state[e], "SUBMITTED")
    BY <1>2, <1>7 DEF BuildTransaction, NextStage
  <2>2. stateDistribution' = Moved(stateDistribution, "BUILDING", "SUBMITTED")
    BY <2>1
  <2>3. QED
    BY <1>1, <1>3, <2>1, <2>2, DriftMoves
<1>8. ASSUME NEW e \in Executions, SubmitTransaction(e) PROVE Drift'
  <2>1. UNCHANGED <<state, stateDistribution, totalSuccessful>>
    BY <1>8 DEF SubmitTransaction
  <2>2. QED
    BY <1>1, <2>1 DEF Drift, Excess, InState
<1>9. ASSUME NEW e \in Executions, Confirm(e) PROVE Drift'
  <2>1. /\ state[e] = "SUBMITTED" /\ totalSuccessful' = totalSuccessful + 1
        /\ state' = [state EXCEPT ![e] = "CONFIRMED"]
        /\ stateDistribution' = Moved(stateDistribution, "PENDING", "CONFIRMED")
    BY <1>2, <1>9 DEF Confirm
  <2>2. QED
    BY <1>1, <2>1, DriftConfirms
<1>10. CASE UNCHANGED vars
  BY <1>1, <1>10 DEF Drift, Excess, InState, vars, contextVars, statVars
<1>11. ~Reset
  BY DEF Reset
<1>12. QED
  BY <1>4, <1>5, <1>6, <1>7, <1>8, <1>9, <1>10, <1>11 DEF Next

LEMMA DriftHolds == Spec => []DriftInv
<1>1. Init => DriftInv
  <2> SUFFICES ASSUME Init PROVE DriftInv
    OBVIOUS
  <2>1. LifeInv
    BY InitLife
  <2>2. \A s \in ExecutionState : InState(s) = {} /\ stateDistribution[s] = 0
    BY DEF Init, InState, NoCounts, ExecutionState
  <2>3. Cardinality({}) = 0 /\ totalSuccessful = 0
    BY FS_EmptySet DEF Init
  <2>4. \A s \in ExecutionState : Excess(s) = 0
    BY <2>2, <2>3 DEF Excess
  <2>5. QED
    BY <2>1, <2>3, <2>4 DEF DriftInv, Drift, ExecutionState
<1>2. QED
  BY <1>1, DriftStep, PTL DEF Spec

(* The distribution is off by the confirmations and by nothing else: each  *)
(* leaves an execution counted as SUBMITTED and takes one off PENDING.     *)
THEOREM DistributionDrifts == Spec => []DistributionDriftsOnlyByConfirmations
<1>1. DriftInv => DistributionDriftsOnlyByConfirmations
  BY DEF DriftInv, Drift, Excess, DistributionDriftsOnlyByConfirmations
<1>2. QED
  BY <1>1, DriftHolds, PTL

(* A state whose count is not positive has no execution in the map: only   *)
(* PENDING has a count below the number of its executions, and between two *)
(* steps no execution is PENDING.                                          *)
LEMMA CountedOrEmpty ==
  ASSUME CountInv, DriftInv, ~ResetAllowed, ~ListenerMayThrow,
         NEW s \in ExecutionState, ~(stateDistribution[s] > 0)
  PROVE  ExecutionsIn(s) = {}
<1> SUFFICES ASSUME NEW e \in executions, state[e] = s PROVE FALSE
  BY DEF ExecutionsIn
<1>1. TypeOK /\ Drift /\ StartedCounts
  BY DEF CountInv, DriftInv, LifeInv
<1>2. e \in Executions /\ pc[e] # "idle"
  BY <1>1 DEF StartedCounts
<1>3. Life(e)
  BY <1>2 DEF CountInv, LifeInv
<1>4. s \in ExecutionState \ {"PENDING"} /\ e \in InState(s)
  BY <1>2, <1>3 DEF Life, IsFailed, InState
<1>5. Cardinality(InState(s)) \in Nat /\ Cardinality(InState(s)) # 0
  BY <1>4, InStateFinite, FS_EmptySet
<1>6. stateDistribution[s] \in Int /\ totalSuccessful \in Nat
  BY <1>1 DEF TypeOK
<1>7. Excess(s) >= 0
  BY <1>1, <1>4, <1>6 DEF Drift
<1>8. QED
  BY <1>5, <1>6, <1>7 DEF Excess

(* The listing of all orders and the listings by state show the same       *)
(* orders, for any number of executions and every limit: what one of them  *)
(* leaves out is what the limit cuts.                                      *)
THEOREM ListingsCorrect == Spec => []ListingsAgree
<1>1. CountInv /\ DriftInv => ListingsAgree
  <2> SUFFICES ASSUME CountInv, DriftInv, ~ResetAllowed, ~ListenerMayThrow,
                      NEW s \in ExecutionState,
                      NEW limit \in (-Cardinality(Executions)) .. Cardinality(Executions),
                      ~(stateDistribution[s] > 0)
               PROVE  ListedWithStatus(s, limit) = 0
    BY DEF ListingsAgree, ListedWithoutStatus
  <2>1. Cardinality(ExecutionsIn(s)) = 0
    BY CountedOrEmpty, FS_EmptySet
  <2>2. Cardinality(Executions) \in Nat
    BY EngineAssumption, FS_CardinalityType
  <2>3. LimitNum(limit) \in Int
    BY <2>2 DEF LimitNum
  <2>4. QED
    BY <2>1, <2>3 DEF ListedWithStatus, Kept
<1>2. QED
  BY <1>1, CountHolds, DriftHolds, PTL

-----------------------------------------------------------------------------
(* The average.                                                            *)

LEMMA ProductGrows ==
  ASSUME NEW a \in Int, NEW b \in Int, NEW k \in Nat, a <= b
  PROVE  a * k <= b * k
OBVIOUS

\* A mean of numbers up to `longest' stays below it with another such number.
LEMMA MeanWithin ==
  ASSUME NEW n \in Int, NEW d \in Nat, NEW executed \in Nat \ {0},
         NEW t \in Nat, NEW long \in Nat, NEW longest \in Nat,
         n <= long * d, long <= longest, t <= longest
  PROVE  n * (executed - 1) + t * d <= longest * (d * executed)
<1> DEFINE top == longest * d
           k == executed - 1
<1>1. long * d <= top /\ t * d <= top /\ top \in Int /\ k \in Nat /\ long * d \in Int
  BY ProductGrows
<1>2. n <= top
  BY <1>1
<1>3. t * d \in Int /\ n * k \in Int /\ top * k \in Int
  BY <1>1
<1>4. n * k <= top * k
  BY <1>1, <1>2, ProductGrows
<1>5. top * k + top = longest * (d * executed)
  OBVIOUS
<1> HIDE DEF top, k
<1>6. n * k + t * d <= top * k + top
  BY <1>1, <1>3, <1>4
<1>7. QED
  BY <1>5, <1>6 DEF k

Times == {totalTime[e] : e \in Executions} \cup {0}

(* An execution that has not ended has no time yet, so recording its time  *)
(* never takes the longest one away.                                       *)
MeanBounded ==
  /\ \A e \in Executions : pc[e] \notin Ended => totalTime[e] = 0
  /\ averageExecutionTime[2] \in Nat
  /\ \E t \in Times : averageExecutionTime[1] <= t * averageExecutionTime[2]

MeanInv == CountInv /\ (~ResetAllowed /\ ~ListenerMayThrow => MeanBounded)

LEMMA TimeRecorded ==
  ASSUME TypeOK, MeanBounded, NEW e \in Executions, NEW t \in Durations,
         pc[e] \notin Ended, pc' = [pc EXCEPT ![e] = "returned"],
         totalTime' = [totalTime EXCEPT ![e] = t], NEW executed \in Nat \ {0},
         averageExecutionTime' = WithTime(averageExecutionTime, executed, t)
  PROVE  MeanBounded'
<1> DEFINE n == averageExecutionTime[1]
           d == averageExecutionTime[2]
<1>1. /\ averageExecutionTime \in Int \X Int /\ totalTime \in [Executions -> Nat]
      /\ pc \in [Executions -> {"idle"} \cup Waiting \cup Ended]
  BY DEF TypeOK
<1>2. t \in Nat /\ n \in Int /\ d \in Nat
  BY <1>1, EngineAssumption DEF MeanBounded
<1>3. /\ averageExecutionTime'[1] = n * (executed - 1) + t * d
      /\ averageExecutionTime'[2] = d * executed
  BY DEF WithTime
<1>4. PICK long \in Times : n <= long * d
  BY DEF MeanBounded
<1>5. long \in Nat
  BY <1>1 DEF Times
<1>6. \A f \in Executions : totalTime'[f] = IF f = e THEN t ELSE totalTime[f]
  BY <1>1
<1>7. t \in Times' /\ 0 \in Times'
  BY <1>6 DEF Times
<1>8. long \in Times'
  <2>1. totalTime[e] = 0
    BY DEF MeanBounded
  <2>2. long = 0 \/ \E f \in Executions : f # e /\ long = totalTime[f]
    BY <1>4, <2>1 DEF Times
  <2>3. QED
    BY <1>6, <1>7, <2>2 DEF Times
<1>9. \E longest \in Times' : longest \in Nat /\ long <= longest /\ t <= longest
  <2>1. CASE long <= t
    BY <1>2, <1>7, <2>1
  <2>2. CASE t <= long
    BY <1>5, <1>8, <2>2
  <2>3. QED
    BY <1>2, <1>5, <2>1, <2>2
<1>10. PICK longest \in Times' : longest \in Nat /\ long <= longest /\ t <= longest
  BY <1>9
<1> HIDE DEF n, d
<1>11. n * (executed - 1) + t * d <= longest * (d * executed)
  BY <1>2, <1>4, <1>5, <1>10, MeanWithin
<1>12. d * executed \in Nat
  BY <1>2
<1>13. \A f \in Executions : pc'[f] \notin Ended => f # e /\ pc[f] \notin Ended
  BY <1>1 DEF Ended
<1>14. \A f \in Executions : pc'[f] \notin Ended => totalTime'[f] = 0
  BY <1>6, <1>13 DEF MeanBounded
<1>15. QED
  BY <1>3, <1>10, <1>11, <1>12, <1>14 DEF MeanBounded

\* A step that records no time and ends no execution.
LEMMA NoTimeRecorded ==
  ASSUME MeanBounded, UNCHANGED <<totalTime, averageExecutionTime>>,
         \A e \in Executions : pc[e] \in Ended => pc'[e] \in Ended
  PROVE  MeanBounded'
BY DEF MeanBounded, Times

LEMMA MeanStep == MeanInv /\ [Next]_vars => MeanInv'
<1> SUFFICES ASSUME MeanInv, [Next]_vars, ~ResetAllowed, ~ListenerMayThrow
             PROVE  MeanBounded'
  BY CountStep DEF MeanInv
<1>1. TypeOK /\ MeanBounded /\ StartedCounts
  BY DEF MeanInv, CountInv, LifeInv
<1>2. pc \in [Executions -> {"idle"} \cup Waiting \cup Ended] /\ totalExecuted \in Nat
  BY <1>1 DEF TypeOK
<1>3. ASSUME NEW e \in Executions, pc[e] # "idle"
      PROVE  totalExecuted \in Nat \ {0}
  <2>1. e \in executions /\ IsFiniteSet(executions)
    BY <1>1, <1>3, EngineAssumption, FS_Subset DEF StartedCounts, TypeOK
  <2>2. Cardinality(executions) # 0
    BY <2>1, FS_EmptySet
  <2>3. QED
    BY <1>1, <1>2, <2>2 DEF StartedCounts
<1>4. ASSUME NEW e \in Executions, NEW types, Fails(e, types), pc[e] \notin Ended,
             totalExecuted' \in Nat \ {0}
      PROVE  MeanBounded'
  <2>1. PICK t \in Durations :
          /\ totalTime' = [totalTime EXCEPT ![e] = t]
          /\ averageExecutionTime' = WithTime(averageExecutionTime, totalExecuted', t)
    BY <1>4 DEF Fails, HandleError
  <2>2. pc' = [pc EXCEPT ![e] = "returned"]
    BY <1>4 DEF Fails
  <2>3. PICK executed \in Nat \ {0} : executed = totalExecuted'
    BY <1>4
  <2>4. averageExecutionTime' = WithTime(averageExecutionTime, executed, t)
    BY <2>1, <2>3
  <2>5. QED
    BY <1>1, <1>4, <2>1, <2>2, <2>4, TimeRecorded
<1>5. ASSUME NEW e \in Executions, NEW w, pc[e] \notin Ended, pc' = [pc EXCEPT ![e] = w],
             UNCHANGED <<totalTime, averageExecutionTime>>
      PROVE  MeanBounded'
  BY <1>1, <1>2, <1>5, NoTimeRecorded
<1>6. ASSUME NEW e \in Executions, ExecuteOrder(e) PROVE MeanBounded'
  <2>1. pc[e] \notin Ended /\ totalExecuted' \in Nat \ {0}
    BY <1>2, <1>6 DEF ExecuteOrder, Ended
  <2>2. CASE FailsAtOnce(e)
    BY <1>4, <2>1, <2>2 DEF FailsAtOnce
  <2>3. CASE StartsRouting(e)
    BY <1>5, <2>1, <2>3 DEF StartsRouting
  <2>4. QED
    BY <1>6, <2>2, <2>3 DEF ExecuteOrder, FirstListenerThrows
<1>7. ASSUME NEW e \in Executions, RouteOrder(e) PROVE MeanBounded'
  BY <1>5, <1>7 DEF RouteOrder, NextStage, Ended
<1>8. ASSUME NEW e \in Executions, RoutingFails(e) PROVE MeanBounded'
  <2>1. pc[e] = "routing" /\ Fails(e, <<>>) /\ UNCHANGED totalExecuted
    BY <1>8 DEF RoutingFails
  <2>2. QED
    BY <1>3, <1>4, <2>1 DEF Ended
<1>9. ASSUME NEW e \in Executions, BuildTransaction(e) PROVE MeanBounded'
  BY <1>5, <1>9 DEF BuildTransaction, NextStage, Ended
<1>10. ASSUME NEW e \in Executions, SubmitTransaction(e) PROVE MeanBounded'
  BY <1>5, <1>10 DEF SubmitTransaction, Ended
<1>11. ASSUME NEW e \in Executions, Confirm(e) PROVE MeanBounded'
  <2>1. pc[e] = "confirming" /\ pc' = [pc EXCEPT ![e] = "returned"]
    BY <1>11 DEF Confirm
  <2>2. PICK t \in Durations :
          /\ totalTime' = [totalTime EXCEPT ![e] = t]
          /\ averageExecutionTime' = WithTime(averageExecutionTime, totalExecuted, t)
    BY <1>11 DEF Confirm
  <2>3. PICK executed \in Nat \ {0} : executed = totalExecuted
    BY <1>3, <2>1
  <2>4. averageExecutionTime' = WithTime(averageExecutionTime, executed, t)
    BY <2>2, <2>3
  <2>5. QED
    BY <1>1, <2>1, <2>2, <2>4, TimeRecorded DEF Ended
<1>12. CASE UNCHANGED vars
  BY <1>1, <1>12, NoTimeRecorded DEF vars, contextVars, statVars
<1>13. ~Reset
  BY DEF Reset
<1>14. QED
  BY <1>6, <1>7, <1>8, <1>9, <1>10, <1>11, <1>12, <1>13 DEF Next

(* The reported average is never longer than the longest execution, though *)
(* its weights count the executions started and not those finished.        *)
THEOREM AverageBounded == Spec => []AverageWithinLongest
<1>1. Init => MeanBounded
  <2> SUFFICES ASSUME Init PROVE MeanBounded
    OBVIOUS
  <2>1. 0 \in Times /\ 0 <= 0 * 1
    BY DEF Times
  <2>2. QED
    BY <2>1 DEF Init, MeanBounded, Ended
<1>2. MeanInv => AverageWithinLongest
  BY DEF MeanInv, MeanBounded, Times, AverageWithinLongest
<1>3. Init => CountInv
  BY InitCount
<1>4. QED
  BY <1>1, <1>2, <1>3, MeanStep, PTL DEF Spec, MeanInv
=============================================================================
