-------------------------- MODULE OrderQueueProofs --------------------------
(***************************************************************************)
(* Theorems about OrderQueue, for every set of jobs and every configuration*)
(* the assumptions of that module allow.                                   *)
(***************************************************************************)
EXTENDS OrderQueue, FiniteSetTheorems, TLAPS

\* The effective configuration is always positive: zero is replaced.
LEMMA ConfigPositive ==
  /\ config.maxConcurrentJobs \in Nat \ {0}
  /\ config.maxRetries \in Nat \ {0}
  /\ config.circuitBreakerThreshold \in Nat \ {0}
BY ConfigAssumption DEF config, OrDefault

-----------------------------------------------------------------------------
(* Type correctness.                                                       *)

LEMMA AfterSuccessType ==
  ASSUME NEW cb \in BreakerStates
  PROVE  AfterSuccess(cb) \in BreakerStates
BY DEF AfterSuccess, BreakerStates

LEMMA AfterFailureType ==
  ASSUME NEW cb \in BreakerStates
  PROVE  AfterFailure(cb) \in BreakerStates
<1> USE DEF BreakerStates
<1> DEFINE opens == (cb.failureCount + 1) * 100
                      >= config.circuitBreakerThreshold * (cb.failureCount + 1 + 0)
<1>1. cb.failureCount + 1 \in Nat
  OBVIOUS
<1>2. (cb.isOpen \/ opens) \in BOOLEAN
  BY Zenon
<1>3. AfterFailure(cb) = [isOpen |-> (cb.isOpen \/ opens),
                          failureCount |-> cb.failureCount + 1, successCount |-> 0]
  BY Zenon DEF AfterFailure
<1> HIDE DEF opens
<1>4. QED
  BY <1>1, <1>2, <1>3

LEMMA CountType ==
  ASSUME NEW s \in Statistics
  PROVE  /\ CountSuccess(s) \in Statistics
         /\ CountFailure(s) \in Statistics
         /\ CountRetry(s) \in Statistics
<1>1. /\ s.totalProcessed + 1 \in Nat /\ s.totalSuccessful + 1 \in Nat
      /\ s.totalFailed + 1 \in Nat /\ s.totalRetries + 1 \in Nat
  BY DEF Statistics
<1>2. QED
  BY <1>1, Zenon DEF Statistics, CountSuccess, CountFailure, CountRetry

LEMMA NextAttemptType ==
  ASSUME TypeOK, NEW j \in Jobs
  PROVE  NextAttempt(j) \in Nat
BY DEF TypeOK, NextAttempt, NoRetryInfo

\* The interval that shutdown clears is one of those that are live.
TypeInv == TypeOK /\ (handleLive => retryTimers > 0)

\* Each action preserves the types of the state.
LEMMA TypeStep == TypeInv /\ [Next]_vars => TypeInv'
<1> SUFFICES ASSUME TypeInv, [Next]_vars PROVE TypeInv'
  OBVIOUS
<1>1. ASSUME NEW j \in Jobs, AddOrder(j) PROVE TypeInv'
  BY <1>1, ConfigAssumption DEF TypeInv, TypeOK, AddOrder, timerVars, States, Priorities
<1>2. ASSUME NEW j \in Jobs, ProcessNextJob(j) PROVE TypeInv'
  BY <1>2 DEF TypeInv, TypeOK, ProcessNextJob, staticVars, timerVars, States, Phases
<1>3. ASSUME NEW j \in Jobs, RouteOrder(j) PROVE TypeInv'
  BY <1>3 DEF TypeInv, TypeOK, RouteOrder, mapVars, staticVars, timerVars, Phases
<1>4. ASSUME NEW j \in Jobs, CompleteJob(j) PROVE TypeInv'
  <2> USE DEF TypeInv, TypeOK, CompleteJob, mapVars, staticVars, timerVars, States, Phases
  <2>1. CASE CompleteFound(j)
    BY <1>4, <2>1, AfterSuccessType, CountType DEF CompleteFound
  <2>2. CASE JobNotFound(j)
    BY <1>4, <2>2 DEF JobNotFound
  <2>3. QED
    BY <1>4, <2>1, <2>2
<1>5. ASSUME NEW j \in Jobs, FailJob(j) PROVE TypeInv'
  <2>1. CASE JobNotFound(j)
    BY <1>5, <2>1 DEF TypeInv, TypeOK, FailJob, JobNotFound, mapVars, staticVars, timerVars, Phases
  <2>2. CASE FailFound(j)
    <3>1. attempt' \in [Jobs -> Nat \cup {NoRetryInfo}]
      BY <2>2, NextAttemptType DEF FailFound, TypeInv, TypeOK
    <3>2. CASE ScheduleRetry(j)
      BY <1>5, <2>2, <3>1, <3>2, CountType
      DEF TypeInv, TypeOK, FailJob, FailFound, ScheduleRetry, staticVars, timerVars, States, Phases
    <3>3. CASE FailPermanently(j)
      BY <1>5, <2>2, <3>1, <3>3, AfterFailureType, CountType
      DEF TypeInv, TypeOK, FailJob, FailFound, FailPermanently, staticVars, timerVars, States, Phases
    <3>4. QED
      BY <2>2, <3>2, <3>3 DEF FailFound
  <2>3. QED
    BY <1>5, <2>1, <2>2 DEF FailJob
<1>6. ASSUME NEW j \in Jobs, BackoffElapses(j) PROVE TypeInv'
  BY <1>6 DEF TypeInv, TypeOK, BackoffElapses, mapVars, staticVars, timerVars
<1>7. CASE ProcessRetries
  BY <1>7 DEF TypeInv, TypeOK, ProcessRetries, mapVars, staticVars, timerVars, States
<1>8. ASSUME NEW j \in Jobs, RemoveJob(j) PROVE TypeInv'
  BY <1>8 DEF TypeInv, TypeOK, RemoveJob, staticVars, timerVars
<1>9. CASE ResetCircuitBreaker
  BY <1>9 DEF TypeInv, TypeOK, ResetCircuitBreaker, ClosedBreaker, BreakerStates, mapVars, staticVars, timerVars
<1>10. CASE Initialize
  BY <1>10 DEF TypeInv, TypeOK, Initialize, mapVars, staticVars
<1>10a. CASE StartsRetryChecks
  <2>1. starting' \in Nat /\ retryTimers' \in Nat /\ retryTimers' > 0
    BY <1>10a DEF TypeInv, TypeOK, StartsRetryChecks
  <2>2. handleLive' = TRUE /\ isRunning' = isRunning
    BY <1>10a DEF StartsRetryChecks
  <2>3. QED
    BY <1>10a, <2>1, <2>2 DEF TypeInv, TypeOK, StartsRetryChecks, mapVars, staticVars
<1>11. CASE Shutdown
  <2>1. /\ retryTimers' \in Nat
        /\ handleLive' = FALSE /\ isRunning' = FALSE
    BY <1>11 DEF TypeInv, TypeOK, Shutdown
  <2>2. QED
    BY <1>11, <2>1 DEF TypeInv, TypeOK, Shutdown, mapVars, staticVars
<1>12. CASE UNCHANGED vars
  BY <1>12 DEF TypeInv, TypeOK, vars, mapVars, staticVars, timerVars
<1>13. QED
  BY <1>1, <1>2, <1>3, <1>4, <1>5, <1>6, <1>7, <1>8, <1>9, <1>10, <1>10a, <1>11, <1>12
  DEF Next, CancelOrder, RemoveDirectly

LEMMA InitTypeInv == Init => TypeInv
<1> SUFFICES ASSUME Init PROVE TypeInv
  OBVIOUS
<1>1. /\ circuitBreaker \in BreakerStates
      /\ stats \in Statistics
  BY DEF Init, ClosedBreaker, BreakerStates, Statistics
<1>2. QED
  BY <1>1 DEF Init, TypeInv, TypeOK, States, Priorities, Phases

(* The state always has its types: no sequence of submissions, ticks,      *)
(* answers, cancellations and restarts takes a counter below zero or puts  *)
(* a job anywhere but in the maps.                                         *)
THEOREM TypeCorrect == Spec => []TypeOK
<1>1. TypeInv => TypeOK
  BY DEF TypeInv
<1>2. QED
  BY <1>1, InitTypeInv, TypeStep, PTL DEF Spec

-----------------------------------------------------------------------------
(* Placement.                                                              *)

\* The invariant is inductive: the state decides which map may hold a job.
LEMMA PlacementStep ==
  TypeInv /\ PlacementMatchesState /\ [Next]_vars => PlacementMatchesState'
<1> SUFFICES ASSUME TypeInv, PlacementMatchesState, [Next]_vars
             PROVE  PlacementMatchesState'
  OBVIOUS
<1> USE DEF PlacementMatchesState, TypeInv, TypeOK
<1>1. ASSUME NEW j \in Jobs, AddOrder(j) PROVE PlacementMatchesState'
  BY <1>1 DEF AddOrder
<1>2. ASSUME NEW j \in Jobs, ProcessNextJob(j) PROVE PlacementMatchesState'
  BY <1>2 DEF ProcessNextJob, NextJobs
<1>3. ASSUME NEW j \in Jobs, RouteOrder(j) PROVE PlacementMatchesState'
  BY <1>3 DEF RouteOrder, mapVars
<1>4. ASSUME NEW j \in Jobs, CompleteJob(j) PROVE PlacementMatchesState'
  BY <1>4 DEF CompleteJob, CompleteFound, JobNotFound, mapVars
<1>5. ASSUME NEW j \in Jobs, FailJob(j) PROVE PlacementMatchesState'
  BY <1>5 DEF FailJob, FailFound, ScheduleRetry, FailPermanently, JobNotFound, mapVars
<1>6. ASSUME NEW j \in Jobs, BackoffElapses(j) PROVE PlacementMatchesState'
  BY <1>6 DEF BackoffElapses, mapVars
<1>7. CASE ProcessRetries
  BY <1>7 DEF ProcessRetries, RetriesDue, mapVars
<1>8. ASSUME NEW j \in Jobs, RemoveJob(j) PROVE PlacementMatchesState'
  BY <1>8 DEF RemoveJob
<1>9. CASE ResetCircuitBreaker \/ Initialize \/ StartsRetryChecks \/ Shutdown \/ UNCHANGED vars
  BY <1>9 DEF ResetCircuitBreaker, Initialize, StartsRetryChecks, Shutdown, vars, mapVars
<1>10. QED
  BY <1>1, <1>2, <1>3, <1>4, <1>5, <1>6, <1>7, <1>8, <1>9
  DEF Next, CancelOrder, RemoveDirectly

(* No job is ever in two maps, and the listings by state agree with the    *)
(* maps, even when listeners throw and removeJob is called on the manager. *)
THEOREM PlacementCorrect == Spec => []PlacementMatchesState
<1>1. Init => TypeInv /\ PlacementMatchesState
  BY InitTypeInv DEF Init, PlacementMatchesState
<1>2. (TypeInv /\ PlacementMatchesState) /\ [Next]_vars
        => (TypeInv /\ PlacementMatchesState)'
  BY TypeStep, PlacementStep
<1>3. QED
  BY <1>1, <1>2, PTL DEF Spec

-----------------------------------------------------------------------------
(* Concurrency.                                                            *)

(* What makes the limit inductive: the slots are bounded, and slots and    *)
(* executions are the same jobs except for thrown listeners and direct     *)
(* removals.                                                               *)
SlotInv ==
  /\ SlotsMatchExecutions
  /\ Cardinality(processingJobs) <= config.maxConcurrentJobs

\* Sets of jobs are finite, and a free slot leaves room for one more.
LEMMA JobSets ==
  ASSUME NEW S, S \subseteq Jobs
  PROVE  /\ IsFiniteSet(S)
         /\ Cardinality(S) \in Nat
         /\ \A T \in SUBSET S : Cardinality(T) <= Cardinality(S)
         /\ \A j \in Jobs : Cardinality(S \cup {j}) <= Cardinality(S) + 1
<1>1. IsFiniteSet(S)
  BY FiniteJobs, FS_Subset
<1>2. Cardinality(S) \in Nat
  BY <1>1, FS_CardinalityType
<1>3. \A T \in SUBSET S : Cardinality(T) <= Cardinality(S)
  BY <1>1, FS_Subset
<1>4. ASSUME NEW j \in Jobs PROVE Cardinality(S \cup {j}) <= Cardinality(S) + 1
  BY <1>1, <1>2, FS_AddElement
<1>5. QED
  BY <1>1, <1>2, <1>3, <1>4

LEMMA SlotStep ==
  TypeInv /\ PlacementMatchesState /\ SlotInv /\ [Next]_vars => SlotInv'
<1> SUFFICES ASSUME TypeInv, PlacementMatchesState, SlotInv, [Next]_vars
             PROVE  SlotInv'
  OBVIOUS
<1> USE DEF TypeInv, TypeOK
<1>a. config' = config
  BY DEF config, OrDefault
\* Steps that start nothing only shrink the slots.
<1>b. ASSUME processingJobs' \subseteq processingJobs
      PROVE  Cardinality(processingJobs') <= config.maxConcurrentJobs
  <2>1. /\ Cardinality(processingJobs) \in Nat
        /\ Cardinality(processingJobs') \in Nat
        /\ Cardinality(processingJobs') <= Cardinality(processingJobs)
    BY <1>b, JobSets
  <2>2. QED
    BY <2>1, ConfigPositive DEF SlotInv
<1>1. ASSUME NEW j \in Jobs, ProcessNextJob(j) PROVE SlotInv'
  <2>1. SlotsMatchExecutions'
    BY <1>1 DEF ProcessNextJob, SlotInv, SlotsMatchExecutions, Executing, Phases, NextJobs
  <2>2. Cardinality(processingJobs') <= Cardinality(processingJobs) + 1
    BY <1>1, JobSets DEF ProcessNextJob
  <2>3. Cardinality(processingJobs) < config.maxConcurrentJobs
    BY <1>1 DEF ProcessNextJob, NextJobs, HasCapacity
  <2>4. /\ Cardinality(processingJobs) \in Nat
        /\ Cardinality(processingJobs') \in Nat
    BY <1>1, JobSets DEF ProcessNextJob
  <2>5. Cardinality(processingJobs') <= config.maxConcurrentJobs
    BY <2>2, <2>3, <2>4, ConfigPositive
  <2>6. QED
    BY <2>1, <2>5, <1>a DEF SlotInv
<1>2. ASSUME NEW j \in Jobs, RouteOrder(j) PROVE SlotInv'
  <2>1. SlotsMatchExecutions'
    BY <1>2 DEF RouteOrder, SlotInv, SlotsMatchExecutions, Executing, mapVars
  <2>2. QED
    BY <1>2, <1>a, <1>b, <2>1 DEF SlotInv, RouteOrder, mapVars
<1>3. ASSUME NEW j \in Jobs, CompleteJob(j) \/ FailJob(j) PROVE SlotInv'
  <2>1. /\ processingJobs' = processingJobs \ {j}
        /\ phase' = [phase EXCEPT ![j] = "idle"]
    BY <1>3 DEF CompleteJob, CompleteFound, FailJob, FailFound, JobNotFound, mapVars
  <2>2. SlotsMatchExecutions'
    BY <2>1 DEF SlotInv, SlotsMatchExecutions, Executing
  <2>3. QED
    BY <1>a, <1>b, <2>1, <2>2 DEF SlotInv
<1>4. ASSUME NEW j \in Jobs, CancelOrder(j) PROVE SlotInv'
  <2>1. processingJobs' = processingJobs /\ phase' = phase
    BY <1>4 DEF CancelOrder, Cancellable, RemoveJob, PlacementMatchesState
  <2>2. QED
    BY <1>a, <1>b, <2>1 DEF SlotInv, SlotsMatchExecutions, Executing
<1>5. ASSUME NEW j \in Jobs, RemoveDirectly(j) PROVE SlotInv'
  <2>1. processingJobs' \subseteq processingJobs /\ phase' = phase
    BY <1>5 DEF RemoveDirectly, RemoveJob
  <2>2. "removeJob" \in ManagerCalls
    BY <1>5 DEF RemoveDirectly
  <2>3. QED
    BY <1>a, <1>b, <2>1, <2>2 DEF SlotInv, SlotsMatchExecutions, Executing
<1>6. ASSUME UNCHANGED <<processingJobs, phase>> PROVE SlotInv'
  BY <1>6, <1>a DEF SlotInv, SlotsMatchExecutions, Executing
<1>7. ASSUME NEW j \in Jobs, AddOrder(j) \/ BackoffElapses(j)
      PROVE  UNCHANGED <<processingJobs, phase>>
  BY <1>7 DEF AddOrder, BackoffElapses, mapVars
<1>8. ASSUME ProcessRetries \/ ResetCircuitBreaker \/ Initialize \/ StartsRetryChecks \/ Shutdown \/ UNCHANGED vars
      PROVE  UNCHANGED <<processingJobs, phase>>
  BY <1>8 DEF ProcessRetries, ResetCircuitBreaker, Initialize, StartsRetryChecks, Shutdown, vars, mapVars
<1>9. QED
  BY <1>1, <1>2, <1>3, <1>4, <1>5, <1>6, <1>7, <1>8 DEF Next

QueueInv == TypeInv /\ PlacementMatchesState /\ SlotInv

LEMMA QueueInvariant == Spec => []QueueInv
<1>1. Init => QueueInv
  <2> SUFFICES ASSUME Init PROVE QueueInv
    OBVIOUS
  <2>1. TypeInv /\ PlacementMatchesState
    BY InitTypeInv DEF Init, PlacementMatchesState
  <2>2. SlotsMatchExecutions
    BY DEF Init, SlotsMatchExecutions, Executing
  <2>3. Cardinality(processingJobs) <= config.maxConcurrentJobs
    BY FS_EmptySet, ConfigPositive DEF Init
  <2>4. QED
    BY <2>1, <2>2, <2>3 DEF QueueInv, SlotInv
<1>2. QueueInv /\ [Next]_vars => QueueInv'
  BY TypeStep, PlacementStep, SlotStep DEF QueueInv
<1>3. QED
  BY <1>1, <1>2, PTL DEF Spec

(* Slots and executions are the same jobs: neither a cancellation nor a    *)
(* late answer of the router leaks a slot or lets an execution run without *)
(* one.                                                                    *)
THEOREM SlotsCorrect == Spec => []SlotsMatchExecutions
<1>1. QueueInv => SlotsMatchExecutions
  BY DEF QueueInv, SlotInv
<1>2. QED
  BY <1>1, QueueInvariant, PTL

(* At most maxConcurrentJobs executions are in flight, whatever the number *)
(* of overlapping ticks, retries and cancellations.                        *)
THEOREM ConcurrencyLimited == Spec => []ConcurrencyLimit
<1>1. QueueInv => ConcurrencyLimit
  <2> SUFFICES ASSUME QueueInv, "removeJob" \notin ManagerCalls
               PROVE  Cardinality(Executing) <= config.maxConcurrentJobs
    BY DEF ConcurrencyLimit
  <2>1. Executing \subseteq processingJobs /\ processingJobs \subseteq Jobs
    BY DEF QueueInv, SlotInv, SlotsMatchExecutions, TypeInv, TypeOK
  <2>2. /\ Cardinality(Executing) <= Cardinality(processingJobs)
        /\ Cardinality(Executing) \in Nat
        /\ Cardinality(processingJobs) \in Nat
    BY <2>1, JobSets
  <2>3. QED
    BY <2>2, ConfigPositive DEF QueueInv, SlotInv
<1>2. QED
  BY <1>1, QueueInvariant, PTL

-----------------------------------------------------------------------------
(* The retry budget.                                                       *)

LEMMA RetryStep ==
  TypeInv /\ PlacementMatchesState /\ RetryBudget /\ [Next]_vars => RetryBudget'
<1> SUFFICES ASSUME TypeInv, PlacementMatchesState, RetryBudget, [Next]_vars
             PROVE  RetryBudget'
  OBVIOUS
<1> DEFINE max == config.maxRetries
<1> USE DEF TypeInv, TypeOK, RetryBudget
<1>a. max \in Nat \ {0} /\ config' = config
  BY ConfigPositive DEF config, OrDefault
<1> HIDE DEF max
<1>1. ASSUME NEW j \in Jobs, FailJob(j) PROVE RetryBudget'
  <2>1. CASE JobNotFound(j)
    BY <1>1, <2>1, <1>a DEF JobNotFound
  <2>2. CASE FailFound(j)
    <3>1. attempt[j] \in Nat \cup {NoRetryInfo} /\ attempt[j] <= max /\ attempt[j] # max
      BY <2>2 DEF FailFound, PlacementMatchesState, max
    <3>2. NextAttempt(j) \in Nat /\ NextAttempt(j) <= max
      BY <3>1, <1>a DEF NextAttempt, NoRetryInfo
    <3>3. attempt' = [attempt EXCEPT ![j] = NextAttempt(j)]
      BY <2>2 DEF FailFound
    <3>4. CASE ScheduleRetry(j)
      <4>1. NextAttempt(j) # max /\ state' = [state EXCEPT ![j] = "retry_pending"]
        BY <3>2, <3>4, <1>a DEF ScheduleRetry, CanRetry, max
      <4>2. QED
        BY <3>2, <3>3, <4>1, <1>a DEF max
    <3>5. CASE FailPermanently(j)
      <4>1. NextAttempt(j) = max /\ state' = [state EXCEPT ![j] = "failed"]
        BY <3>2, <3>5, <1>a DEF FailPermanently, CanRetry, max
      <4>2. QED
        BY <3>2, <3>3, <4>1, <1>a DEF max
    <3>6. QED
      BY <2>2, <3>4, <3>5 DEF FailFound
  <2>3. QED
    BY <1>1, <2>1, <2>2 DEF FailJob
\* No other step changes an attempt or marks a job failed.
<1>2. ASSUME UNCHANGED attempt,
             \A j \in Jobs : state'[j] = state[j]
               \/ (state[j] # "failed" /\ state'[j] \notin {"failed", "retry_pending"})
      PROVE  RetryBudget'
  BY <1>2, <1>a
<1>3. ASSUME NEW j \in Jobs, AddOrder(j) \/ ProcessNextJob(j) PROVE RetryBudget'
  BY <1>2, <1>3 DEF AddOrder, ProcessNextJob, NextJobs, PlacementMatchesState
<1>4. ASSUME NEW j \in Jobs, CompleteJob(j) PROVE RetryBudget'
  BY <1>2, <1>4
  DEF CompleteJob, CompleteFound, JobNotFound, PlacementMatchesState
<1>5. CASE ProcessRetries
  BY <1>2, <1>5 DEF ProcessRetries, RetriesDue
<1>6. ASSUME NEW j \in Jobs, RouteOrder(j) \/ BackoffElapses(j) \/ RemoveJob(j)
      PROVE  RetryBudget'
  BY <1>2, <1>6 DEF RouteOrder, BackoffElapses, RemoveJob
<1>7. CASE ResetCircuitBreaker \/ Initialize \/ StartsRetryChecks \/ Shutdown \/ UNCHANGED vars
  BY <1>2, <1>7 DEF ResetCircuitBreaker, Initialize, StartsRetryChecks, Shutdown, vars
<1>8. QED
  BY <1>1, <1>3, <1>4, <1>5, <1>6, <1>7 DEF Next, CancelOrder, RemoveDirectly

LEMMA RetryInvariant == Spec => [](QueueInv /\ RetryBudget)
<1>1. Init => RetryBudget
  BY ConfigPositive DEF Init, RetryBudget, NoRetryInfo
<1>2. QueueInv /\ RetryBudget /\ [Next]_vars => RetryBudget'
  BY RetryStep DEF QueueInv
<1>3. QED
  BY <1>1, <1>2, QueueInvariant, PTL DEF Spec

(* A job fails permanently exactly when the first run and maxRetries       *)
(* retries have failed, for every maxRetries and every interleaving.       *)
THEOREM RetryBudgetKept == Spec => []RetryBudget
BY RetryInvariant, PTL

-----------------------------------------------------------------------------
(* Finality.                                                               *)

\* What a step leaves as it is.
StaysSettled ==
  \A j \in Jobs :
    /\ Removed(j) => Removed(j)'
    /\ j \in completedJobs => j \in completedJobs' /\ state'[j] = "success"
    /\ j \in failedJobs => j \in failedJobs' /\ state'[j] = "failed"

LEMMA FinalStep == TypeInv /\ PlacementMatchesState /\ [Next]_vars => StaysSettled
<1> SUFFICES ASSUME TypeInv, PlacementMatchesState, [Next]_vars PROVE StaysSettled
  OBVIOUS
<1> USE DEF TypeInv, TypeOK, PlacementMatchesState, Removed, Submitted, Queued, StaysSettled
<1>1. ASSUME NEW j \in Jobs, AddOrder(j) PROVE StaysSettled
  BY <1>1 DEF AddOrder
<1>2. ASSUME NEW j \in Jobs, ProcessNextJob(j) PROVE StaysSettled
  BY <1>2 DEF ProcessNextJob, NextJobs
<1>3. ASSUME NEW j \in Jobs, CompleteJob(j) PROVE StaysSettled
  BY <1>3 DEF CompleteJob, CompleteFound, JobNotFound, mapVars
<1>4. ASSUME NEW j \in Jobs, FailJob(j) PROVE StaysSettled
  BY <1>4 DEF FailJob, FailFound, ScheduleRetry, FailPermanently, JobNotFound, mapVars
<1>5. CASE ProcessRetries
  BY <1>5 DEF ProcessRetries, RetriesDue, mapVars
<1>6. ASSUME NEW j \in Jobs, RemoveJob(j) PROVE StaysSettled
  BY <1>6 DEF RemoveJob
<1>7. ASSUME UNCHANGED <<mapVars, state>> PROVE StaysSettled
  BY <1>7 DEF mapVars
<1>8. ASSUME NEW j \in Jobs, RouteOrder(j) \/ BackoffElapses(j) PROVE StaysSettled
  BY <1>7, <1>8 DEF RouteOrder, BackoffElapses
<1>9. CASE ResetCircuitBreaker \/ Initialize \/ StartsRetryChecks \/ Shutdown \/ UNCHANGED vars
  BY <1>7, <1>9 DEF ResetCircuitBreaker, Initialize, StartsRetryChecks, Shutdown, vars
<1>10. QED
  BY <1>1, <1>2, <1>3, <1>4, <1>5, <1>6, <1>8, <1>9 DEF Next, CancelOrder, RemoveDirectly

(* A late answer, a retry check or a tick never revives a job that was     *)
(* settled or removed.                                                     *)
THEOREM SettledStaysSettled == Spec => SettledIsFinal
<1>1. QueueInv /\ [Next]_vars => [StaysSettled]_vars
  BY FinalStep DEF QueueInv
<1>2. QED
  BY <1>1, QueueInvariant, PTL DEF Spec, SettledIsFinal, StaysSettled

-----------------------------------------------------------------------------
(* The statistics.                                                         *)

(* Cardinality says something about finite sets only; nothing is known of  *)
(* the number of retries beyond what has been counted.                     *)
StatsInv == StatsAccountForJobs /\ IsFiniteSet(RetriesMade)

LEMMA RetriesMadeMembers ==
  \A r : r \in RetriesMade <=> \E j \in Jobs : \E k \in 1 .. Retries(j) : r = <<j, k>>
BY DEF RetriesMade

\* Steps that schedule no retry.
LEMMA NoRetryMade ==
  ASSUME UNCHANGED attempt,
         \A j \in Jobs : attempt[j] # NoRetryInfo =>
           (state'[j] = "failed" <=> state[j] = "failed")
  PROVE  RetriesMade' = RetriesMade
<1>1. \A j \in Jobs : Retries(j)' = Retries(j)
  BY DEF Retries
<1> QED BY <1>1 DEF RetriesMade

\* One more retry of one job is one more member.
LEMMA OneRetryMade ==
  ASSUME NEW j \in Jobs, Retries(j) \in Nat, Retries(j)' = Retries(j) + 1,
         \A k \in Jobs \ {j} : Retries(k)' = Retries(k),
         IsFiniteSet(RetriesMade)
  PROVE  /\ IsFiniteSet(RetriesMade')
         /\ Cardinality(RetriesMade') = Cardinality(RetriesMade) + 1
<1> DEFINE new == <<j, Retries(j) + 1>>
<1>1. new \notin RetriesMade
  BY RetriesMadeMembers
<1>2. RetriesMade' = RetriesMade \cup {new}
  <2>1. 1 .. Retries(j)' = (1 .. Retries(j)) \cup {Retries(j) + 1}
    OBVIOUS
  <2>2. {j} \X (1 .. Retries(j)') = ({j} \X (1 .. Retries(j))) \cup {new}
    BY <2>1
  <2>3. \A k \in Jobs \ {j} : {k} \X (1 .. Retries(k)') = {k} \X (1 .. Retries(k))
    OBVIOUS
  <2> QED BY <2>2, <2>3 DEF RetriesMade
<1> HIDE DEF new
<1> QED BY <1>1, <1>2, FS_AddElement

LEMMA StatsStep ==
  QueueInv /\ RetryBudget /\ StatsInv /\ [Next]_vars => StatsInv'
<1> SUFFICES ASSUME QueueInv, RetryBudget, StatsInv, [Next]_vars
             PROVE  StatsInv'
  OBVIOUS
<1> USE DEF QueueInv, TypeInv, TypeOK
<1>a. /\ Cardinality(completedJobs) \in Nat /\ IsFiniteSet(completedJobs)
      /\ Cardinality(failedJobs) \in Nat /\ IsFiniteSet(failedJobs)
  BY JobSets
<1>b. /\ stats.totalFailed \in Nat /\ stats.totalSuccessful \in Nat
      /\ stats.totalProcessed \in Nat /\ stats.totalRetries \in Nat
  BY DEF Statistics
<1>1. ASSUME UNCHANGED <<completedJobs, failedJobs, stats, attempt>>,
             \A j \in Jobs : attempt[j] # NoRetryInfo =>
               (state'[j] = "failed" <=> state[j] = "failed")
      PROVE  StatsInv'
  <2>1. RetriesMade' = RetriesMade
    BY <1>1, NoRetryMade
  <2> QED BY <1>1, <2>1 DEF StatsInv, StatsAccountForJobs
<1>2. ASSUME NEW j \in Jobs, CompleteFound(j) PROVE StatsInv'
  <2>1. j \notin completedJobs /\ state[j] = "processing"
    BY <1>2 DEF CompleteFound, PlacementMatchesState
  <2>2. Cardinality(completedJobs') = Cardinality(completedJobs) + 1
    BY <1>2, <1>a, <2>1, FS_AddElement DEF CompleteFound
  <2>3. /\ stats'.totalProcessed = stats.totalProcessed + 1
        /\ stats'.totalSuccessful = stats.totalSuccessful + 1
        /\ stats'.totalFailed = stats.totalFailed
        /\ stats'.totalRetries = stats.totalRetries
    BY <1>2, Zenon DEF CompleteFound, CountSuccess, Statistics
  <2>4. RetriesMade' = RetriesMade
    BY <1>2, <2>1, NoRetryMade DEF CompleteFound
  <2>5. failedJobs' = failedJobs
    BY <1>2 DEF CompleteFound
  <2> QED
    BY <1>a, <1>b, <2>2, <2>3, <2>4, <2>5 DEF StatsInv, StatsAccountForJobs
<1>3. ASSUME NEW j \in Jobs, FailFound(j), ScheduleRetry(j) PROVE StatsInv'
  <2>1. /\ state[j] = "processing" /\ state'[j] = "retry_pending"
        /\ attempt' = [attempt EXCEPT ![j] = NextAttempt(j)]
    BY <1>3 DEF FailFound, ScheduleRetry, PlacementMatchesState
  <2>2. Retries(j) \in Nat /\ Retries(j)' = Retries(j) + 1
    BY <2>1 DEF Retries, NextAttempt, NoRetryInfo
  <2>3. \A k \in Jobs \ {j} : Retries(k)' = Retries(k)
    BY <1>3, <2>1 DEF Retries, ScheduleRetry
  <2>4. /\ IsFiniteSet(RetriesMade')
        /\ Cardinality(RetriesMade') = Cardinality(RetriesMade) + 1
    BY <2>2, <2>3, OneRetryMade DEF StatsInv
  <2>5. /\ stats'.totalProcessed = stats.totalProcessed
        /\ stats'.totalSuccessful = stats.totalSuccessful
        /\ stats'.totalFailed = stats.totalFailed
        /\ stats'.totalRetries = stats.totalRetries + 1
    BY <1>3, Zenon DEF ScheduleRetry, CountRetry, Statistics
  <2>6. UNCHANGED <<completedJobs, failedJobs>>
    BY <1>3 DEF FailFound, ScheduleRetry
  <2> QED BY <2>4, <2>5, <2>6 DEF StatsInv, StatsAccountForJobs
<1>4. ASSUME NEW j \in Jobs, FailFound(j), FailPermanently(j) PROVE StatsInv'
  <2>1. /\ state[j] = "processing" /\ state' = [state EXCEPT ![j] = "failed"]
        /\ j \notin failedJobs
        /\ attempt' = [attempt EXCEPT ![j] = NextAttempt(j)]
    BY <1>4 DEF FailFound, FailPermanently, PlacementMatchesState
  <2>2. attempt[j] # NoRetryInfo
    BY <1>4, ConfigPositive DEF FailPermanently, CanRetry, NextAttempt
  <2>3. \A k \in Jobs : Retries(k)' = Retries(k)
    BY <2>1, <2>2 DEF Retries, NextAttempt, NoRetryInfo
  <2>4. RetriesMade' = RetriesMade
    BY <2>3 DEF RetriesMade
  <2>5. /\ stats'.totalProcessed = stats.totalProcessed + 1
        /\ stats'.totalSuccessful = stats.totalSuccessful
        /\ stats'.totalFailed = stats.totalFailed + 1
        /\ stats'.totalRetries = stats.totalRetries
    BY <1>4, Zenon DEF FailPermanently, CountFailure, Statistics
  <2>6. Cardinality(failedJobs') = Cardinality(failedJobs) + 1
    BY <1>4, <1>a, <2>1, FS_AddElement DEF FailPermanently
  <2>7. completedJobs' = completedJobs
    BY <1>4 DEF FailFound
  <2> QED
    BY <1>a, <1>b, <2>4, <2>5, <2>6, <2>7 DEF StatsInv, StatsAccountForJobs
<1>5. ASSUME NEW j \in Jobs, CompleteJob(j) \/ FailJob(j) PROVE StatsInv'
  <2>1. CASE JobNotFound(j)
    BY <1>1, <2>1 DEF JobNotFound, mapVars
  <2> QED
    BY <1>2, <1>3, <1>4, <1>5, <2>1 DEF CompleteJob, FailJob, FailFound
<1>6. ASSUME NEW j \in Jobs, AddOrder(j) \/ ProcessNextJob(j) PROVE StatsInv'
  BY <1>1, <1>6 DEF AddOrder, ProcessNextJob, NextJobs, PlacementMatchesState
<1>7. CASE ProcessRetries
  BY <1>1, <1>7 DEF ProcessRetries, RetriesDue, mapVars
<1>8. ASSUME NEW j \in Jobs, RouteOrder(j) \/ BackoffElapses(j) \/ RemoveJob(j)
      PROVE  StatsInv'
  BY <1>1, <1>8 DEF RouteOrder, BackoffElapses, RemoveJob, mapVars
<1>9. CASE ResetCircuitBreaker \/ Initialize \/ StartsRetryChecks \/ Shutdown \/ UNCHANGED vars
  BY <1>1, <1>9 DEF ResetCircuitBreaker, Initialize, StartsRetryChecks, Shutdown, vars, mapVars
<1> QED
  BY <1>5, <1>6, <1>7, <1>8, <1>9 DEF Next, CancelOrder, RemoveDirectly

(* The statistics reported are those of the maps, and every retry of every *)
(* job that was ever scheduled is counted once, whatever was cancelled or  *)
(* removed meanwhile and however executions, ticks and retry checks        *)
(* interleave.                                                             *)
THEOREM StatsCorrect == Spec => []StatsAccountForJobs
<1>1. Init => StatsInv
  <2> SUFFICES ASSUME Init PROVE StatsInv
    OBVIOUS
  <2>1. RetriesMade = {}
    BY DEF Init, RetriesMade, Retries, NoRetryInfo
  <2>2. Cardinality({}) = 0 /\ IsFiniteSet({})
    BY FS_EmptySet
  <2> QED BY <2>1, <2>2 DEF Init, StatsInv, StatsAccountForJobs
<1>2. (QueueInv /\ RetryBudget) /\ StatsInv /\ [Next]_vars => StatsInv'
  BY StatsStep
<1>3. StatsInv => StatsAccountForJobs
  BY DEF StatsInv
<1> QED
  BY <1>1, <1>2, <1>3, RetryInvariant, PTL DEF Spec

-----------------------------------------------------------------------------
(* The circuit breaker.                                                    *)

LEMMA AfterFailureOpens ==
  ASSUME NEW cb \in BreakerStates
  PROVE  /\ AfterFailure(cb).failureCount = cb.failureCount + 1
         /\ AfterFailure(cb).successCount = 0
         /\ config.circuitBreakerThreshold <= 100 => AfterFailure(cb).isOpen
<1> DEFINE t == config.circuitBreakerThreshold
           n == cb.failureCount + 1
<1>1. n \in Nat \ {0} /\ t \in Nat
  BY ConfigPositive DEF BreakerStates
<1>2. n + 0 = n
  BY <1>1
<1>3. AfterFailure(cb) = [isOpen |-> (cb.isOpen \/ n * 100 >= t * (n + 0)),
                          failureCount |-> n, successCount |-> 0]
  BY Zenon DEF AfterFailure
<1> HIDE DEF t, n
<1>4. ASSUME t <= 100 PROVE n * 100 >= t * n
  <2>1. (100 - t) \in Nat /\ n * (100 - t) >= 0
    BY <1>1, <1>4
  <2>2. n * (100 - t) = n * 100 - t * n
    BY <1>1
  <2>3. QED
    BY <1>1, <2>1, <2>2
<1>5. t <= 100 => (cb.isOpen \/ n * 100 >= t * (n + 0))
  BY <1>2, <1>4
<1> DEFINE opens == cb.isOpen \/ n * 100 >= t * (n + 0)
<1>a. AfterFailure(cb) = [isOpen |-> opens, failureCount |-> n, successCount |-> 0]
  BY <1>3
<1> HIDE DEF opens
<1>6. AfterFailure(cb).failureCount = n /\ AfterFailure(cb).successCount = 0
  BY <1>a
<1>7. AfterFailure(cb).isOpen = opens
  BY <1>a
<1>8. QED
  BY <1>5, <1>6, <1>7, Zenon DEF t, n, opens

LEMMA BreakerStep ==
  TypeInv /\ BreakerCountsTheLastRun /\ [Next]_vars => BreakerCountsTheLastRun'
<1> SUFFICES ASSUME TypeInv, BreakerCountsTheLastRun, [Next]_vars
             PROVE  BreakerCountsTheLastRun'
  OBVIOUS
<1> USE DEF TypeInv, TypeOK
<1>a. config' = config
  BY DEF config, OrDefault
<1>b. /\ circuitBreaker.failureCount \in Nat /\ circuitBreaker.successCount \in Nat
      /\ stats.totalFailed \in Nat /\ stats.totalSuccessful \in Nat
      /\ stats.totalProcessed \in Nat /\ stats.totalRetries \in Nat
  BY DEF BreakerStates, Statistics
<1>1. ASSUME UNCHANGED circuitBreaker,
             stats'.totalFailed = stats.totalFailed,
             stats'.totalSuccessful = stats.totalSuccessful
      PROVE  BreakerCountsTheLastRun'
  BY <1>1, <1>a DEF BreakerCountsTheLastRun
<1>2. ASSUME NEW j \in Jobs, CompleteJob(j) PROVE BreakerCountsTheLastRun'
  <2>1. CASE JobNotFound(j)
    BY <1>1, <2>1 DEF JobNotFound
  <2>2. CASE CompleteFound(j)
    <3>1. /\ circuitBreaker'.failureCount = 0
          /\ circuitBreaker'.successCount = circuitBreaker.successCount + 1
      BY <2>2 DEF CompleteFound, AfterSuccess
    <3>2. /\ stats'.totalFailed = stats.totalFailed
          /\ stats'.totalSuccessful = stats.totalSuccessful + 1
      BY <2>2, Zenon DEF CompleteFound, CountSuccess, Statistics
    <3>3. QED
      BY <3>1, <3>2, <1>b DEF BreakerCountsTheLastRun
  <2>3. QED
    BY <1>2, <2>1, <2>2 DEF CompleteJob
<1>3. ASSUME NEW j \in Jobs, FailJob(j) PROVE BreakerCountsTheLastRun'
  <2>1. CASE JobNotFound(j)
    BY <1>1, <2>1 DEF JobNotFound
  <2>2. CASE FailFound(j) /\ ScheduleRetry(j)
    <3>1. /\ stats'.totalFailed = stats.totalFailed
          /\ stats'.totalSuccessful = stats.totalSuccessful
          /\ UNCHANGED circuitBreaker
      BY <2>2, Zenon DEF ScheduleRetry, CountRetry, Statistics
    <3>2. QED
      BY <1>1, <3>1
  <2>3. CASE FailFound(j) /\ FailPermanently(j)
    <3>1. circuitBreaker' = AfterFailure(circuitBreaker)
      BY <2>3 DEF FailPermanently
    <3>2. /\ stats'.totalFailed = stats.totalFailed + 1
          /\ stats'.totalSuccessful = stats.totalSuccessful
      BY <2>3, Zenon DEF FailPermanently, CountFailure, Statistics
    <3>3. QED
      BY <3>1, <3>2, <1>a, <1>b, AfterFailureOpens DEF BreakerCountsTheLastRun
  <2>4. QED
    BY <1>3, <2>1, <2>2, <2>3 DEF FailJob, FailFound
<1>4. CASE ResetCircuitBreaker
  BY <1>4, <1>b DEF ResetCircuitBreaker, ClosedBreaker, BreakerCountsTheLastRun
<1>5. ASSUME NEW j \in Jobs, AddOrder(j) \/ ProcessNextJob(j) \/ RouteOrder(j)
                             \/ BackoffElapses(j) \/ RemoveJob(j)
      PROVE  BreakerCountsTheLastRun'
  BY <1>1, <1>5 DEF AddOrder, ProcessNextJob, RouteOrder, BackoffElapses, RemoveJob
<1>6. CASE ProcessRetries \/ Initialize \/ StartsRetryChecks \/ Shutdown \/ UNCHANGED vars
  BY <1>1, <1>6 DEF ProcessRetries, Initialize, StartsRetryChecks, Shutdown, vars
<1>7. QED
  BY <1>2, <1>3, <1>4, <1>5, <1>6 DEF Next, CancelOrder, RemoveDirectly

(* A run of permanent failures that is still counted holds the breaker     *)
(* open, for every threshold of at most 100 per cent, and the two counts   *)
(* never run at the same time: the half-open share the rate is computed    *)
(* from is always 0 or 100 per cent.                                       *)
THEOREM BreakerCorrect == Spec => []BreakerCountsTheLastRun
<1>1. Init => BreakerCountsTheLastRun
  BY DEF Init, ClosedBreaker, BreakerCountsTheLastRun
<1>2. TypeInv /\ BreakerCountsTheLastRun /\ [Next]_vars
        => TypeInv' /\ BreakerCountsTheLastRun'
  BY TypeStep, BreakerStep
<1>3. QED
  BY <1>1, <1>2, InitTypeInv, PTL DEF Spec

-----------------------------------------------------------------------------
(* A permanent failure opens the breaker and nothing but a reset closes it.*)
BreakerHeld ==
  (config.circuitBreakerThreshold <= 100
     /\ "resetCircuitBreaker" \notin ManagerCalls /\ failedJobs # {})
  => circuitBreaker.isOpen

LEMMA BreakerHeldStep == TypeInv /\ BreakerHeld /\ [Next]_vars => BreakerHeld'
<1> SUFFICES ASSUME TypeInv, BreakerHeld, [Next]_vars,
                    config.circuitBreakerThreshold <= 100,
                    "resetCircuitBreaker" \notin ManagerCalls, failedJobs' # {}
             PROVE  circuitBreaker'.isOpen
  BY DEF BreakerHeld, config, OrDefault
<1>1. ASSUME UNCHANGED <<failedJobs, circuitBreaker>> PROVE circuitBreaker'.isOpen
  BY <1>1 DEF BreakerHeld
<1>2. ASSUME NEW j \in Jobs, CompleteJob(j) PROVE circuitBreaker'.isOpen
  BY <1>1, <1>2 DEF CompleteJob, CompleteFound, JobNotFound, AfterSuccess, BreakerHeld, mapVars
<1>3. ASSUME NEW j \in Jobs, FailJob(j) PROVE circuitBreaker'.isOpen
  <2>1. CASE JobNotFound(j) \/ (FailFound(j) /\ ScheduleRetry(j))
    BY <1>1, <2>1 DEF JobNotFound, ScheduleRetry, mapVars
  <2>2. CASE FailPermanently(j)
    <3> DEFINE failures == circuitBreaker.failureCount + 1
    <3>1. failures \in Nat
      BY DEF TypeInv, TypeOK, BreakerStates
    <3> HIDE DEF failures
    <3>2. failures * 100 >= config.circuitBreakerThreshold * (failures + 0)
      BY <3>1, ConfigPositive
    <3>3. QED
      BY <2>2, <3>2, Zenon DEF FailPermanently, AfterFailure, failures
  <2>3. QED
    BY <1>3, <2>1, <2>2 DEF FailJob, FailFound
<1>4. QED
  BY <1>1, <1>2, <1>3
  DEF Next, AddOrder, ProcessNextJob, RouteOrder, BackoffElapses, ProcessRetries, CancelOrder,
      RemoveDirectly, RemoveJob, ResetCircuitBreaker, Initialize, StartsRetryChecks, Shutdown, vars, mapVars

\* Only addOrder makes a job known, and an open breaker refuses it.
LEMMA AdmissionStep ==
  ASSUME TypeInv, PlacementMatchesState, circuitBreaker.isOpen, [Next]_vars,
         NEW j \in Jobs, Submitted(j)'
  PROVE  Submitted(j)
<1> USE DEF TypeInv, TypeOK, PlacementMatchesState, Submitted
<1>1. ASSUME NEW k \in Jobs, ProcessNextJob(k) PROVE state[j] # "none"
  BY <1>1 DEF ProcessNextJob, NextJobs
<1>2. ASSUME NEW k \in Jobs, CompleteJob(k) PROVE state[j] # "none"
  BY <1>2 DEF CompleteJob, CompleteFound, JobNotFound
<1>3. ASSUME NEW k \in Jobs, FailJob(k) PROVE state[j] # "none"
  BY <1>3 DEF FailJob, FailFound, ScheduleRetry, FailPermanently, JobNotFound
<1>4. CASE ProcessRetries
  BY <1>4 DEF ProcessRetries, RetriesDue
<1>5. QED
  BY <1>1, <1>2, <1>3, <1>4
  DEF Next, AddOrder, Admits, RouteOrder, BackoffElapses, CancelOrder, RemoveDirectly,
      RemoveJob, ResetCircuitBreaker, Initialize, StartsRetryChecks, Shutdown, vars

(* After one permanent failure no order is admitted any more, whatever     *)
(* succeeds later and however many jobs there are, unless the breaker is   *)
(* reset by hand.                                                          *)
THEOREM OneFailureCloses == Spec => OneFailureStopsAdmission
<1>1. Init => TypeInv /\ PlacementMatchesState /\ BreakerHeld
  BY InitTypeInv DEF Init, PlacementMatchesState, BreakerHeld
<1>2. (TypeInv /\ PlacementMatchesState /\ BreakerHeld) /\ [Next]_vars
        => (TypeInv /\ PlacementMatchesState /\ BreakerHeld)'
  BY TypeStep, PlacementStep, BreakerHeldStep
<1>3. (TypeInv /\ PlacementMatchesState /\ BreakerHeld) /\ [Next]_vars
        => [(config.circuitBreakerThreshold <= 100
               /\ "resetCircuitBreaker" \notin ManagerCalls /\ failedJobs # {})
              => \A j \in Jobs : Submitted(j)' => Submitted(j)]_vars
  BY AdmissionStep DEF BreakerHeld
<1>4. QED
  BY <1>1, <1>2, <1>3, PTL DEF Spec, OneFailureStopsAdmission

-----------------------------------------------------------------------------
(* First come, first served.                                               *)

(* No job is younger than the last submission, and one that is not         *)
(* submitted has had no attempt.                                           *)
ArrivalInv ==
  /\ \A j \in Jobs : createdAt[j] <= clock
  /\ \A j \in Jobs : ~Submitted(j) => attempt[j] = NoRetryInfo
  /\ FirstComeFirstServed

\* Only a submission changes the millisecond or the priority of a job.
LEMMA ArrivalStays ==
  ASSUME TypeInv, PlacementMatchesState, ArrivalInv, [Next]_vars
  PROVE  \/ \E i \in Jobs : AddOrder(i)
         \/ /\ UNCHANGED <<priority, createdAt, clock>>
            /\ \A j \in Jobs : Submitted(j)' <=> Submitted(j)
<1> DEFINE Stays == /\ UNCHANGED <<priority, createdAt, clock>>
                    /\ \A j \in Jobs : Submitted(j)' <=> Submitted(j)
<1> USE DEF Submitted, TypeInv, TypeOK, PlacementMatchesState
<1>1. ASSUME NEW i \in Jobs, ProcessNextJob(i) \/ RouteOrder(i) \/ CompleteJob(i) PROVE Stays
  BY <1>1 DEF ProcessNextJob, NextJobs, RouteOrder, CompleteJob, CompleteFound, JobNotFound, staticVars
<1>2. ASSUME NEW i \in Jobs, FailJob(i) PROVE Stays
  BY <1>2 DEF FailJob, FailFound, ScheduleRetry, FailPermanently, JobNotFound, staticVars
<1>3. ASSUME NEW i \in Jobs, BackoffElapses(i) \/ RemoveJob(i) PROVE Stays
  BY <1>3 DEF BackoffElapses, RemoveJob, staticVars
<1>4. CASE ProcessRetries
  BY <1>4 DEF ProcessRetries, RetriesDue, staticVars
<1>5. CASE ResetCircuitBreaker \/ Initialize \/ StartsRetryChecks \/ Shutdown \/ UNCHANGED vars
  BY <1>5 DEF ResetCircuitBreaker, Initialize, StartsRetryChecks, Shutdown, staticVars, vars
<1>6. QED
  BY <1>1, <1>2, <1>3, <1>4, <1>5 DEF Next, CancelOrder, RemoveDirectly

\* What has started stays so.
LEMMA StartedStays ==
  ASSUME TypeInv, ArrivalInv, [Next]_vars, NEW j \in Jobs, HasStarted(j)
  PROVE  HasStarted(j)'
<1> USE DEF HasStarted, TypeInv, TypeOK, NoRetryInfo
<1>1. ASSUME NEW i \in Jobs, AddOrder(i) PROVE HasStarted(j)'
  BY <1>1 DEF AddOrder, ArrivalInv, Submitted
<1>2. ASSUME NEW i \in Jobs, ProcessNextJob(i) \/ RouteOrder(i) \/ CompleteJob(i)
      PROVE  HasStarted(j)'
  BY <1>2 DEF ProcessNextJob, RouteOrder, CompleteJob, CompleteFound, JobNotFound
<1>3. ASSUME NEW i \in Jobs, FailJob(i) PROVE HasStarted(j)'
  BY <1>3, NextAttemptType DEF FailJob, FailFound, ScheduleRetry, FailPermanently, JobNotFound
<1>4. ASSUME NEW i \in Jobs, BackoffElapses(i) \/ RemoveJob(i) PROVE HasStarted(j)'
  BY <1>4 DEF BackoffElapses, RemoveJob
<1>5. CASE ProcessRetries
  BY <1>5 DEF ProcessRetries, RetriesDue
<1>6. CASE ResetCircuitBreaker \/ Initialize \/ StartsRetryChecks \/ Shutdown \/ UNCHANGED vars
  BY <1>6 DEF ResetCircuitBreaker, Initialize, StartsRetryChecks, Shutdown, vars
<1>7. QED
  BY <1>1, <1>2, <1>3, <1>4, <1>5, <1>6 DEF Next, CancelOrder, RemoveDirectly

\* Only a tick makes a first start.
LEMMA OnlyTicksStart ==
  ASSUME TypeInv, PlacementMatchesState, ArrivalInv, [Next]_vars,
         NEW j \in Jobs, ~HasStarted(j), HasStarted(j)'
  PROVE  ProcessNextJob(j)
<1> USE DEF HasStarted, TypeInv, TypeOK, PlacementMatchesState
<1>1. ASSUME NEW i \in Jobs, AddOrder(i) PROVE FALSE
  BY <1>1 DEF AddOrder
<1>2. ASSUME NEW i \in Jobs, ProcessNextJob(i) PROVE i = j
  BY <1>2 DEF ProcessNextJob
<1>3. ASSUME NEW i \in Jobs, RouteOrder(i) \/ CompleteJob(i) PROVE FALSE
  BY <1>3 DEF RouteOrder, CompleteJob, CompleteFound, JobNotFound
<1>4. ASSUME NEW i \in Jobs, FailJob(i) PROVE FALSE
  BY <1>4 DEF FailJob, FailFound, ScheduleRetry, FailPermanently, JobNotFound
<1>5. ASSUME NEW i \in Jobs, BackoffElapses(i) \/ RemoveJob(i) PROVE FALSE
  BY <1>5 DEF BackoffElapses, RemoveJob
<1>6. CASE ProcessRetries
  BY <1>6 DEF ProcessRetries, RetriesDue
<1>7. CASE ResetCircuitBreaker \/ Initialize \/ StartsRetryChecks \/ Shutdown \/ UNCHANGED vars
  BY <1>7 DEF ResetCircuitBreaker, Initialize, StartsRetryChecks, Shutdown, vars
<1>8. QED
  BY <1>1, <1>2, <1>3, <1>4, <1>5, <1>6, <1>7 DEF Next, CancelOrder, RemoveDirectly

LEMMA ArrivalStep ==
  TypeInv /\ PlacementMatchesState /\ ArrivalInv /\ [Next]_vars => ArrivalInv'
<1> SUFFICES ASSUME TypeInv, PlacementMatchesState, ArrivalInv, [Next]_vars
             PROVE  ArrivalInv'
  OBVIOUS
<1>1. \A j \in Jobs : createdAt'[j] <= clock'
  <2>1. ASSUME NEW i \in Jobs, AddOrder(i) PROVE \A j \in Jobs : createdAt'[j] <= clock'
    BY <2>1 DEF AddOrder, ArrivalInv, TypeInv, TypeOK
  <2>2. QED
    BY <2>1, ArrivalStays DEF ArrivalInv
<1>2. ASSUME NEW j \in Jobs, ~Submitted(j)' PROVE attempt'[j] = NoRetryInfo
  <2>1. ~Submitted(j)
    BY <1>2, ArrivalStays DEF AddOrder, Submitted, TypeInv, TypeOK
  <2>2. attempt[j] = NoRetryInfo /\ ~HasStarted(j)
    BY <2>1 DEF ArrivalInv, HasStarted, Submitted
  <2>3. CASE HasStarted(j)'
    <3>1. ProcessNextJob(j)
      BY <2>2, <2>3, OnlyTicksStart
    <3>2. QED
      BY <2>2, <3>1 DEF ProcessNextJob
  <2>4. QED
    BY <2>3 DEF HasStarted
<1>3. ASSUME NEW j \in Jobs, NEW k \in Jobs,
             Submitted(j)', Submitted(k)', ~Removed(k)',
             createdAt'[k] < createdAt'[j],
             Rank(priority'[k]) <= Rank(priority'[j]),
             HasStarted(j)'
      PROVE  HasStarted(k)'
  <2>1. CASE HasStarted(j)
    <3>1. Submitted(j)
      BY <2>1 DEF ArrivalInv, HasStarted, Submitted
    <3>2. ASSUME NEW i \in Jobs, AddOrder(i)
          PROVE  Submitted(k) /\ createdAt[k] < createdAt[j]
                 /\ priority'[k] = priority[k] /\ priority'[j] = priority[j]
      <4>1. i # j
        BY <3>1, <3>2 DEF AddOrder, Submitted
      <4>2. i # k
        BY <1>3, <3>2, <4>1 DEF AddOrder, ArrivalInv, TypeInv, TypeOK
      <4>3. QED
        BY <1>3, <3>2, <4>1, <4>2 DEF AddOrder, Submitted, TypeInv, TypeOK
    <3>3. /\ Submitted(k) /\ createdAt[k] < createdAt[j]
          /\ priority'[k] = priority[k] /\ priority'[j] = priority[j]
      BY <1>3, <3>2, ArrivalStays
    <3>4. ~Removed(k)
      BY <1>3, FinalStep DEF StaysSettled
    <3>5. Rank(priority[k]) <= Rank(priority[j])
      BY <1>3, <3>3 DEF Rank
    <3>6. HasStarted(k)
      BY <2>1, <3>1, <3>3, <3>4, <3>5 DEF ArrivalInv, FirstComeFirstServed
    <3>7. QED
      BY <3>6, StartedStays
  <2>2. CASE ~HasStarted(j)
    <3>1. ProcessNextJob(j)
      BY <1>3, <2>2, OnlyTicksStart
    <3>2. UNCHANGED <<priority, createdAt>> /\ Submitted(k) /\ j # k
      BY <1>3, <3>1 DEF ProcessNextJob, NextJobs, staticVars, Submitted, PlacementMatchesState,
                        TypeInv, TypeOK
    <3>3. Before(k, j)
      <4>1. /\ priority[k] \in Priorities /\ priority[j] \in Priorities
            /\ createdAt[k] < createdAt[j]
            /\ Rank(priority[k]) <= Rank(priority[j])
        BY <1>3, <3>2 DEF TypeInv, TypeOK, Rank
      <4>2. QED
        BY <4>1 DEF Before, Rank, Priorities
    <3>4. k \notin pendingJobs
      BY <3>1, <3>3 DEF ProcessNextJob, NextJobs
    <3>5. ~Removed(k)
      BY <1>3, FinalStep DEF StaysSettled
    <3>6. HasStarted(k)
      BY <3>2, <3>4, <3>5 DEF Removed, Queued, HasStarted, Submitted, PlacementMatchesState
    <3>7. QED
      BY <3>6, StartedStays
  <2>3. QED
    BY <2>1, <2>2
<1>4. FirstComeFirstServed'
  BY <1>3 DEF FirstComeFirstServed
<1>5. QED
  BY <1>1, <1>2, <1>4 DEF ArrivalInv

(* Who came first is taken up first, for any number of jobs, slots and     *)
(* retries: no order of ticks, answers, retry checks and restarts makes an *)
(* order that came later, with no higher priority, overtake one that is    *)
(* still waiting for its first attempt.                                    *)
THEOREM ServedInOrder == Spec => []FirstComeFirstServed
<1>1. Init => TypeInv /\ PlacementMatchesState /\ ArrivalInv
  <2> SUFFICES ASSUME Init PROVE TypeInv /\ PlacementMatchesState /\ ArrivalInv
    OBVIOUS
  <2>1. ArrivalInv
    BY DEF Init, ArrivalInv, FirstComeFirstServed, Submitted, NoRetryInfo
  <2>2. QED
    BY <2>1, InitTypeInv DEF Init, PlacementMatchesState
<1>2. (TypeInv /\ PlacementMatchesState /\ ArrivalInv) /\ [Next]_vars
        => (TypeInv /\ PlacementMatchesState /\ ArrivalInv)'
  BY TypeStep, PlacementStep, ArrivalStep
<1>3. ArrivalInv => FirstComeFirstServed
  BY DEF ArrivalInv
<1>4. QED
  BY <1>1, <1>2, <1>3, PTL DEF Spec

-----------------------------------------------------------------------------
(* The facade implements the life of a job.                                *)

LEMMA LifecycleCardinality == \A S : Lifecycle!Cardinality(S) = Cardinality(S)
BY Zenon DEF Cardinality, Lifecycle!Cardinality

LEMMA RefinesInit == Init => Lifecycle!LifecycleInit
BY DEF Init, Lifecycle!LifecycleInit, statusOf, runsOf, Submitted, NoRetryInfo

\* A step that leaves maps, attempts and the set of submitted jobs alone is a stutter.
LEMMA RefinesStutter ==
  ASSUME UNCHANGED <<mapVars, attempt>>,
         \A j \in Jobs : Submitted(j)' <=> Submitted(j)
  PROVE  UNCHANGED <<statusOf, runsOf>>
BY DEF statusOf, runsOf, mapVars

LEMMA RefinesStep ==
  ASSUME "removeJob" \notin ManagerCalls, QueueInv, RetryBudget, [Next]_vars
  PROVE  [Lifecycle!LifecycleNext]_(<<statusOf, runsOf>>)
<1> DEFINE max == config.maxRetries
           Goal == Lifecycle!LifecycleNext \/ UNCHANGED <<statusOf, runsOf>>
<1> USE DEF QueueInv, TypeInv, TypeOK, PlacementMatchesState, RetryBudget
<1>a. max \in Nat \ {0}
  BY ConfigPositive
<1> HIDE DEF max
<1>1. ASSUME NEW j \in Jobs, AddOrder(j) PROVE Goal
  <2>1. state[j] = "none" /\ UNCHANGED attempt
    BY <1>1 DEF AddOrder
  <2>2. statusOf' = [statusOf EXCEPT ![j] = "waiting"] /\ statusOf[j] = "new"
    BY <1>1 DEF AddOrder, statusOf, Submitted
  <2>3. runsOf' = runsOf
    BY <1>1, <2>1 DEF AddOrder, runsOf
  <2>4. QED
    BY <2>2, <2>3 DEF Lifecycle!LifecycleNext, Lifecycle!Submit, Lifecycle!Move
<1>2. ASSUME NEW j \in Jobs, ProcessNextJob(j) PROVE Goal
  <2>0. /\ j \in pendingJobs /\ j \notin processingJobs \cup completedJobs
        /\ state[j] # "failed"
    BY <1>2 DEF ProcessNextJob, NextJobs
  <2>1. attempt[j] \in Int /\ attempt[j] < max
    BY <2>0, <1>a DEF NoRetryInfo, max
  <2>2. statusOf' = [statusOf EXCEPT ![j] = "running"] /\ statusOf[j] = "waiting"
    BY <1>2, <2>0 DEF ProcessNextJob, statusOf, Submitted
  <2>3. runsOf[j] = attempt[j] + 1 + 0
    BY <2>0 DEF runsOf
  <2>4. runsOf' = [runsOf EXCEPT ![j] = attempt[j] + 1 + 1]
    BY <1>2, <2>0 DEF ProcessNextJob, runsOf
  <2>4a. runsOf[j] < max + 1 /\ attempt[j] + 1 + 1 = runsOf[j] + 1
    BY <1>a, <2>1, <2>3
  <2>5. Lifecycle!Running = processingJobs
    BY DEF Lifecycle!Running, statusOf, Submitted
  <2>6. Cardinality(processingJobs) < config.maxConcurrentJobs
    BY <1>2 DEF ProcessNextJob, NextJobs, HasCapacity
  <2>7. QED
    <3>0. runsOf' = [runsOf EXCEPT ![j] = runsOf[j] + 1]
      BY <2>4, <2>4a, Zenon
    <3>1. Lifecycle!Start(j)
      BY <2>2, <2>4a, <2>5, <2>6, <3>0, LifecycleCardinality, Zenon
      DEF Lifecycle!Start, Lifecycle!Move, max
    <3>2. QED
      BY <3>1, Zenon DEF Lifecycle!LifecycleNext
<1>3. ASSUME NEW j \in Jobs, CompleteJob(j) PROVE Goal
  <2>1. CASE JobNotFound(j)
    BY <1>3, <2>1, RefinesStutter DEF JobNotFound, Submitted
  <2>2. CASE CompleteFound(j)
    <3>1. statusOf' = [statusOf EXCEPT ![j] = "succeeded"] /\ statusOf[j] = "running"
      BY <2>2 DEF CompleteFound, statusOf, Submitted
    <3>2. runsOf' = runsOf
      BY <2>2 DEF CompleteFound, runsOf
    <3>3. QED
      BY <3>1, <3>2 DEF Lifecycle!LifecycleNext, Lifecycle!Succeed, Lifecycle!Move
  <2>3. QED
    BY <1>3, <2>1, <2>2 DEF CompleteJob
<1>4. ASSUME NEW j \in Jobs, FailJob(j) PROVE Goal
  <2>1. CASE JobNotFound(j)
    BY <1>4, <2>1, RefinesStutter DEF JobNotFound, Submitted
  <2>2. CASE FailFound(j)
    <3>1. /\ j \in processingJobs /\ j \notin completedJobs
          /\ attempt[j] < max
          /\ NextAttempt(j) = attempt[j] + 1 /\ NextAttempt(j) <= max
          /\ NextAttempt(j) \in Nat
      BY <2>2, <1>a DEF FailFound, NextAttempt, NoRetryInfo, max
    <3>2. /\ attempt' = [attempt EXCEPT ![j] = NextAttempt(j)]
          /\ processingJobs' = processingJobs \ {j} /\ UNCHANGED completedJobs
      BY <2>2 DEF FailFound
    <3>3. runsOf[j] = NextAttempt(j) + 1 /\ runsOf' = runsOf
      BY <3>1, <3>2 DEF runsOf, NoRetryInfo
    <3>4. CASE ScheduleRetry(j)
      <4>1. statusOf' = [statusOf EXCEPT ![j] = "waiting"] /\ statusOf[j] = "running"
        BY <3>1, <3>2, <3>4 DEF ScheduleRetry, statusOf, Submitted
      <4>2. runsOf[j] < max + 1
        BY <3>1, <3>3, <3>4, <1>a DEF ScheduleRetry, CanRetry, max
      <4>3. QED
        BY <3>3, <4>1, <4>2 DEF Lifecycle!LifecycleNext, Lifecycle!Retry, Lifecycle!Move, max
    <3>5. CASE FailPermanently(j)
      <4>1. statusOf' = [statusOf EXCEPT ![j] = "failed"] /\ statusOf[j] = "running"
        BY <3>1, <3>2, <3>5 DEF FailPermanently, statusOf, Submitted
      <4>2. runsOf[j] = max + 1
        BY <3>1, <3>3, <3>5, <1>a DEF FailPermanently, CanRetry, max
      <4>3. QED
        BY <3>3, <4>1, <4>2 DEF Lifecycle!LifecycleNext, Lifecycle!Fail, Lifecycle!Move, max
    <3>6. QED
      BY <2>2, <3>4, <3>5 DEF FailFound
  <2>3. QED
    BY <1>4, <2>1, <2>2 DEF FailJob
<1>5. ASSUME NEW j \in Jobs, CancelOrder(j) PROVE Goal
  <2>1. j \in pendingJobs /\ pendingJobs' = pendingJobs \ {j}
        /\ UNCHANGED <<processingJobs, completedJobs, failedJobs, state, attempt>>
    BY <1>5 DEF CancelOrder, Cancellable, RemoveJob
  <2>2. statusOf' = [statusOf EXCEPT ![j] = "withdrawn"] /\ statusOf[j] = "waiting"
    BY <2>1 DEF statusOf, Submitted
  <2>3. runsOf' = runsOf
    BY <2>1 DEF runsOf
  <2>4. QED
    BY <2>2, <2>3 DEF Lifecycle!LifecycleNext, Lifecycle!Withdraw, Lifecycle!Move
<1>6. ASSUME NEW j \in Jobs, RouteOrder(j) \/ BackoffElapses(j) PROVE Goal
  BY <1>6, RefinesStutter DEF RouteOrder, BackoffElapses, Submitted
<1>7. CASE ProcessRetries
  BY <1>7, RefinesStutter DEF ProcessRetries, RetriesDue, Submitted
<1>8. CASE ResetCircuitBreaker \/ Initialize \/ StartsRetryChecks \/ Shutdown \/ UNCHANGED vars
  BY <1>8, RefinesStutter DEF ResetCircuitBreaker, Initialize, StartsRetryChecks, Shutdown, vars, Submitted
<1>9. QED
  BY <1>1, <1>2, <1>3, <1>4, <1>5, <1>6, <1>7, <1>8 DEF Next, RemoveDirectly

(* Unless removeJob is called behind the facade's back, the queue takes    *)
(* every job through the life JobLifecycle describes: bounded concurrency, *)
(* at most maxRetries + 1 runs, failure only after all of them, and        *)
(* withdrawal only of a waiting job.                                       *)
THEOREM QueueImplementsJobLifecycle ==
  ASSUME "removeJob" \notin ManagerCalls
  PROVE  Spec => ImplementsJobLifecycle
<1>1. (QueueInv /\ RetryBudget) /\ [Next]_vars
        => [Lifecycle!LifecycleNext]_(<<statusOf, runsOf>>)
  BY RefinesStep
<1>2. QED
  BY <1>1, RefinesInit, RetryInvariant, PTL
  DEF Spec, ImplementsJobLifecycle, Lifecycle!LifecycleSpec, Lifecycle!lifecycleVars
=============================================================================
