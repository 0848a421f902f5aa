-------------------------- MODULE ExecutionEngine --------------------------
(***************************************************************************)
(* ExecutionEngine.executeOrder: validation, routing, building, submission *)
(* and confirmation of one order, any number of them in flight, with the   *)
(* events each execution emits and the statistics all of them share.       *)
(*                                                                         *)
(* The engine runs on one thread; an action is the code between two        *)
(* awaits, across the calls it makes: the end of one stage, the start of   *)
(* the next, the events of both.  emit calls its listeners synchronously,  *)
(* so a listener that throws unwinds the stage that emitted.               *)
(***************************************************************************)
EXTENDS Integers, FiniteSets, Sequences, FiniteSetsExt

CONSTANTS
  Executions,        \* execution ids (uuids), one per call of executeOrder
  Durations,         \* possible values of totalTime, in some unit
  ListenerMayThrow,  \* may a listener of 'execution_event' throw?
  ResetAllowed       \* is reset called while executions are in flight?

ASSUME EngineAssumption ==
  /\ IsFiniteSet(Executions)
  /\ Durations \subseteq Nat
  /\ ListenerMayThrow \in BOOLEAN
  /\ ResetAllowed \in BOOLEAN

VARIABLES
  executions,        \* keys of the map of contexts
  state,             \* context.state ("NONE": executeOrder not called)
  totalTime,         \* context.totalTime
  pc,                \* what executeOrder is awaiting, or how it ended
  events,            \* what the execution has emitted, oldest first
  totalExecuted, totalSuccessful, totalFailed,
  stateDistribution,
  averageExecutionTime   \* <<numerator, denominator>>

contextVars == <<state, pc, events, totalTime>>
statVars == <<totalExecuted, totalSuccessful, totalFailed, stateDistribution,
              averageExecutionTime>>
vars == <<executions, contextVars, statVars>>

ExecutionState == {"PENDING", "ROUTING", "BUILDING", "SUBMITTED", "CONFIRMED", "FAILED"}

Waiting == {"routing", "building", "submitting", "confirming"}
Ended   == {"returned", "rejected"}

\* The type of an event, a state_change by the state it announces.
EventTypes == {"PENDING", "ROUTING", "BUILDING", "SUBMITTED",
               "routing", "building", "submission", "confirmation", "error"}

TypeOK ==
  /\ executions \subseteq Executions
  /\ state \in [Executions -> ExecutionState \cup {"NONE"}]
  /\ totalTime \in [Executions -> Nat]
  /\ pc \in [Executions -> {"idle"} \cup Waiting \cup Ended]
  /\ events \in [Executions -> Seq(EventTypes)]
  /\ totalExecuted \in Nat /\ totalSuccessful \in Nat /\ totalFailed \in Nat
  /\ stateDistribution \in [ExecutionState -> Int]
  /\ averageExecutionTime \in Int \X Int

NoCounts == [s \in ExecutionState |-> 0]

Init ==
  /\ executions = {}
  /\ state = [e \in Executions |-> "NONE"]
  /\ totalTime = [e \in Executions |-> 0]
  /\ pc = [e \in Executions |-> "idle"]
  /\ events = [e \in Executions |-> <<>>]
  /\ totalExecuted = 0 /\ totalSuccessful = 0 /\ totalFailed = 0
  /\ stateDistribution = NoCounts
  /\ averageExecutionTime = <<0, 1>>

-----------------------------------------------------------------------------
(* Helpers.                                                                *)

\* Faulty variants: the state entered, or the state left, is not counted.
Moved_LeavesOnly(dist, from, to) == [dist EXCEPT ![from] = @ - 1]
Moved_EntersOnly(dist, from, to) == [dist EXCEPT ![to] = @ + 1]

\* updateStateDistribution for a state that is left and one that is entered.
Moved(dist, from, to) == [[dist EXCEPT ![from] = @ - 1] EXCEPT ![to] = @ + 1]

\* Faulty variant: the mean over the executions that are over already.
WithTime_Unweighted(average, executed, time) ==
  <<average[1] * executed + time * average[2], average[2] * executed>>

(* updateAverageTime.  The weights count the executions started, not those *)
(* finished; a division by zero (after reset) gives a denominator of 0,    *)
(* which every later update keeps, as Infinity and NaN do.                 *)
WithTime(average, executed, time) ==
  <<average[1] * (executed - 1) + time * average[2], average[2] * executed>>

\* Faulty variant: the events of a step overtake the earlier ones.
Emit_Overtakes(e, types) == events' = [events EXCEPT ![e] = types \o @]

\* Both emits of emitEvent, for each of the events in `types'.
Emit(e, types) == events' = [events EXCEPT ![e] = @ \o types]

\* Faulty variant: the state is left alone, as if the caller had set it.
HandleError_KeepsState(e, types, errors, updates) ==
  /\ Emit(e, types \o <<"error">>)
  /\ totalFailed' = totalFailed + errors
  /\ UNCHANGED <<state, totalTime, averageExecutionTime>>

(* handleExecutionError, called `errors' times in a step that has emitted  *)
(* `types' and updates the average `updates' times with the same time.     *)
HandleError(e, types, errors, updates) ==
  /\ state' = [state EXCEPT ![e] = "FAILED"]
  /\ Emit(e, types \o (IF errors = 1 THEN <<"error">> ELSE <<"error", "error">>))
  /\ totalFailed' = totalFailed + errors
  /\ \E t \in Durations :
       LET once == WithTime(averageExecutionTime, totalExecuted', t)
       IN  /\ totalTime' = [totalTime EXCEPT ![e] = t]
           /\ averageExecutionTime' =
                IF updates = 1 THEN once ELSE WithTime(once, totalExecuted', t)

(* A stage fails and executeOrder handles the error.  A listener that      *)
(* throws at the error event lands in the catch of executeOrder, which     *)
(* handles the error once more; a second throw rejects the promise.        *)
Fails(e, types) ==
  \/ /\ HandleError(e, types, 1, 1)
     /\ pc' = [pc EXCEPT ![e] = "returned"]
  \/ /\ ListenerMayThrow
     /\ HandleError(e, types, 2, 2)
     /\ \E end \in Ended : pc' = [pc EXCEPT ![e] = end]

-----------------------------------------------------------------------------
(* The call: executeOrder up to its first await.                           *)

\* The first event is emitted outside the try: a throw rejects the promise.
FirstListenerThrows(e) ==
  /\ ListenerMayThrow
  /\ state' = [state EXCEPT ![e] = "PENDING"]
  /\ pc' = [pc EXCEPT ![e] = "rejected"]
  /\ Emit(e, <<"PENDING">>)
  /\ stateDistribution' = [stateDistribution EXCEPT !["PENDING"] = @ + 1]
  /\ UNCHANGED <<totalTime, totalFailed, averageExecutionTime>>

\* validateOrder finds an error, or the listener throws as routing starts.
FailsAtOnce(e) ==
  /\ \/ Fails(e, <<"PENDING">>)
     \/ ListenerMayThrow /\ Fails(e, <<"PENDING", "ROUTING">>)
  /\ stateDistribution' = [stateDistribution EXCEPT !["FAILED"] = @ + 1]

StartsRouting(e) ==
  /\ state' = [state EXCEPT ![e] = "ROUTING"]
  /\ pc' = [pc EXCEPT ![e] = "routing"]
  /\ Emit(e, <<"PENDING", "ROUTING">>)
  /\ stateDistribution' = [stateDistribution EXCEPT !["ROUTING"] = @ + 1]
  /\ UNCHANGED <<totalTime, totalFailed, averageExecutionTime>>

ExecuteOrder(e) ==
  /\ pc[e] = "idle"
  /\ executions' = executions \cup {e}
  /\ totalExecuted' = totalExecuted + 1
  /\ FirstListenerThrows(e) \/ FailsAtOnce(e) \/ StartsRouting(e)
  /\ UNCHANGED totalSuccessful

-----------------------------------------------------------------------------
(* The stages.                                                             *)

(* An await is over: the stage reports `done' and the next one enters      *)
(* state `to' and awaits.  Either emit may throw.                          *)
NextStage(e, done, to, awaiting) ==
  /\ UNCHANGED <<executions, totalExecuted, totalSuccessful>>
  /\ \/ /\ state' = [state EXCEPT ![e] = to]
        /\ pc' = [pc EXCEPT ![e] = awaiting]
        /\ Emit(e, <<done, to>>)
        /\ stateDistribution' = Moved(stateDistribution, state[e], to)
        /\ UNCHANGED <<totalTime, totalFailed, averageExecutionTime>>
     \/ /\ ListenerMayThrow
        /\ Fails(e, <<done>>) \/ Fails(e, <<done, to>>)
        /\ stateDistribution' = Moved(stateDistribution, state[e], "FAILED")

\* The router answers in time with a quote; buildTransaction starts.
RouteOrder(e) ==
  /\ pc[e] = "routing"
  /\ NextStage(e, "routing", "BUILDING", "building")

\* Faulty variant: the routing timer fires although the router has answered.
RoutingFails_Late(e) ==
  /\ pc[e] # "idle"
  /\ UNCHANGED <<executions, totalExecuted, totalSuccessful>>
  /\ Fails(e, <<>>)
  /\ stateDistribution' = Moved(stateDistribution, state[e], "FAILED")

(* Routing fails, as OrderRouting spells out: no quote, a timeout or a     *)
(* rejection, none of which is retried.                                    *)
RoutingFails(e) ==
  /\ pc[e] = "routing"
  /\ UNCHANGED <<executions, totalExecuted, totalSuccessful>>
  /\ Fails(e, <<>>)
  /\ stateDistribution' = Moved(stateDistribution, state[e], "FAILED")

\* Faulty variant: an execution waits for the others that are building.
BuildTransaction_Exclusive(e) ==
  /\ pc[e] = "building"
  /\ \A f \in Executions \ {e} : pc[f] # "building"
  /\ NextStage(e, "building", "SUBMITTED", "submitting")

\* The building delay is over; submitTransaction starts.
BuildTransaction(e) ==
  /\ pc[e] = "building"
  /\ NextStage(e, "building", "SUBMITTED", "submitting")

\* The submission delay is over; waitForConfirmation starts, which emits nothing.
SubmitTransaction(e) ==
  /\ pc[e] = "submitting"
  /\ UNCHANGED <<executions, totalExecuted, totalSuccessful>>
  /\ \/ /\ pc' = [pc EXCEPT ![e] = "confirming"]
        /\ Emit(e, <<"submission">>)
        /\ UNCHANGED <<state, totalTime, totalFailed, stateDistribution,
                       averageExecutionTime>>
     \/ /\ ListenerMayThrow
        /\ Fails(e, <<"submission">>)
        /\ stateDistribution' = Moved(stateDistribution, state[e], "FAILED")

(* The confirmation delay is over.  The success leaves PENDING in the      *)
(* distribution, not SUBMITTED.  A listener that throws at the event makes *)
(* the catch of executeOrder fail the confirmed execution.                 *)
Confirm(e) ==
  /\ pc[e] = "confirming"
  /\ totalSuccessful' = totalSuccessful + 1
  /\ UNCHANGED <<executions, totalExecuted>>
  /\ \/ /\ state' = [state EXCEPT ![e] = "CONFIRMED"]
        /\ pc' = [pc EXCEPT ![e] = "returned"]
        /\ Emit(e, <<"confirmation">>)
        /\ stateDistribution' = Moved(stateDistribution, "PENDING", "CONFIRMED")
        /\ \E t \in Durations :
             /\ totalTime' = [totalTime EXCEPT ![e] = t]
             /\ averageExecutionTime' = WithTime(averageExecutionTime, totalExecuted, t)
        /\ UNCHANGED totalFailed
     \/ /\ ListenerMayThrow
        /\ HandleError(e, <<"confirmation">>, 1, 2)
        /\ \E end \in Ended : pc' = [pc EXCEPT ![e] = end]
        /\ stateDistribution' = Moved(stateDistribution, "PENDING", "FAILED")

(* reset: the map and the statistics are cleared; executions in flight     *)
(* keep their contexts and go on.                                          *)
Reset ==
  /\ ResetAllowed
  /\ executions' = {}
  /\ totalExecuted' = 0 /\ totalSuccessful' = 0 /\ totalFailed' = 0
  /\ stateDistribution' = NoCounts
  /\ averageExecutionTime' = <<0, 1>>
  /\ UNCHANGED contextVars

Stage(e) ==
  RouteOrder(e) \/ RoutingFails(e) \/ BuildTransaction(e) \/ SubmitTransaction(e) \/ Confirm(e)

Next ==
  \/ \E e \in Executions : ExecuteOrder(e)
  \/ \E e \in Executions : RouteOrder(e)
  \/ \E e \in Executions : RoutingFails(e)
  \/ \E e \in Executions : BuildTransaction(e)
  \/ \E e \in Executions : SubmitTransaction(e)
  \/ \E e \in Executions : Confirm(e)
  \/ Reset

Spec == Init /\ [][Next]_vars

(* Each stage awaits a timer, or a race of the router with a timer: all of *)
(* them fire.                                                              *)
FairSpec == Spec /\ \A e \in Executions : WF_vars(Stage(e))

-----------------------------------------------------------------------------
(* Safety.                                                                 *)

Settled == {"CONFIRMED", "FAILED"}

InState(s) == {e \in Executions : state[e] = s}

(* The totals count executions: what is neither successful nor failed is   *)
(* in flight, however the executions overlap.  A listener that throws can  *)
(* make an execution count more than once, never less.                     *)
CountersAgree ==
  ~ResetAllowed =>
    /\ totalExecuted = Cardinality(executions)
    /\ totalSuccessful >= Cardinality(InState("CONFIRMED"))
    /\ totalFailed >= Cardinality(InState("FAILED"))
    /\ ~ListenerMayThrow =>
         /\ totalSuccessful = Cardinality(InState("CONFIRMED"))
         /\ totalFailed = Cardinality(InState("FAILED"))

(* stateDistribution counts the executions in each state, but for those    *)
(* confirmed: they stay counted as SUBMITTED and are taken off PENDING.    *)
DistributionDriftsOnlyByConfirmations ==
  (~ResetAllowed /\ ~ListenerMayThrow) =>
    LET excess(s) == stateDistribution[s] - Cardinality(InState(s))
    IN  /\ excess("PENDING") = -totalSuccessful
        /\ excess("SUBMITTED") = totalSuccessful
        /\ \A s \in ExecutionState \ {"PENDING", "SUBMITTED"} : excess(s) = 0

\* getExecutionsByState.
ExecutionsIn(s) == {e \in executions : state[e] = s}

\* The route's limitNum; 0 stands for every limit that is no number too.
LimitNum(limit) == IF limit = 0 THEN 50 ELSE IF limit > 100 THEN 100 ELSE limit

\* How many of n entries slice(0, end) keeps; a negative end counts from the back.
Kept(n, end) == IF end >= n THEN n
                ELSE IF end >= 0 THEN end
                ELSE IF n + end > 0 THEN n + end ELSE 0

(* GET /api/orders: how many executions in state s it lists, with the      *)
(* query's status = s, and with no status, when a state is looked up only  *)
(* if its count is positive and the limit holds for each state apart.      *)
ListedWithStatus(s, limit) == Kept(Cardinality(ExecutionsIn(s)), LimitNum(limit))
ListedWithoutStatus(s, limit) ==
  IF stateDistribution[s] > 0 THEN ListedWithStatus(s, limit) ELSE 0

(* The drift of the distribution hides no order: what the listing without  *)
(* a status shows of each state is what the listing of that state shows,   *)
(* under every limit.                                                      *)
ListingsAgree ==
  (~ResetAllowed /\ ~ListenerMayThrow) =>
    \A s \in ExecutionState,
       limit \in (-Cardinality(Executions)) .. Cardinality(Executions) :
      ListedWithoutStatus(s, limit) = ListedWithStatus(s, limit)

Pipeline == <<"PENDING", "ROUTING", "routing", "BUILDING", "building",
              "SUBMITTED", "submission", "confirmation">>

(* What an execution has emitted is the pipeline up to some point, then at *)
(* most one error, and never an error after the confirmation (unless a     *)
(* listener throws), whatever other executions and resets do meanwhile.    *)
EventsFollowThePipeline ==
  \A e \in Executions : \E n \in 0 .. Len(Pipeline) :
    LET stages == SubSeq(Pipeline, 1, n)
    IN  \/ events[e] = stages
        \/ /\ events[e] = Append(stages, "error")
           /\ n < Len(Pipeline) \/ ListenerMayThrow
        \/ /\ events[e] = stages \o <<"error", "error">>
           /\ ListenerMayThrow

\* The state a listener concludes from the last events it received.
Announced(seen) ==
  CASE seen = <<>> -> "NONE"
    [] seen # <<>> ->
         LET last == seen[Len(seen)]
         IN  CASE last = "error" -> "FAILED"
               [] last = "confirmation" -> "CONFIRMED"
               [] last = "submission" -> "SUBMITTED"
               [] last \in ExecutionState -> last
               [] OTHER -> seen[Len(seen) - 1]

(* Between two steps a listener that applied every event knows the state   *)
(* of the execution: no transition is silent, none is announced too early. *)
ListenersKnowTheState == \A e \in Executions : Announced(events[e]) = state[e]

(* When executeOrder is over its order is settled; the one exception is an *)
(* execution whose very first event met a listener that throws, which      *)
(* stays PENDING for good.  While it runs the order is not settled.        *)
EndedMeansSettled ==
  \A e \in Executions :
    /\ pc[e] = "returned" => state[e] \in Settled
    /\ pc[e] = "rejected" =>
         ListenerMayThrow /\ (state[e] = "FAILED" \/ events[e] = <<"PENDING">>)
    /\ pc[e] \in Waiting => state[e] \notin Settled

(* The reported average is never longer than the longest execution, though *)
(* it divides by the executions started.                                   *)
AverageWithinLongest ==
  (~ResetAllowed /\ ~ListenerMayThrow) =>
    \E t \in {totalTime[e] : e \in Executions} \cup {0} :
      averageExecutionTime[1] <= t * averageExecutionTime[2]

(* A settled order stays as it is: no later stage of its own, no other     *)
(* execution and no reset changes its state or emits another event for it. *)
SettledOrderIsFinal ==
  [][\A e \in Executions :
       state[e] \in Settled => state'[e] = state[e] /\ events'[e] = events[e]]_vars

-----------------------------------------------------------------------------
(* Liveness.                                                               *)

(* Every execution ends, even if listeners throw and the engine is reset:  *)
(* the caller of executeOrder always gets an answer.                       *)
ExecutionsEnd ==
  \A e \in Executions : pc[e] \in Waiting ~> pc[e] \in Ended
=============================================================================
