----------------------------- MODULE OrderQueue -----------------------------
(***************************************************************************)
(* The in-memory order queue: OrderQueueManager (the four job maps, the    *)
(* retry rule, the circuit breaker, the statistics), JobProcessor (the     *)
(* 100 ms tick that starts a job, and the executions in flight) and the    *)
(* OrderQueue facade (initialize, shutdown, submit, cancel).               *)
(*                                                                         *)
(* The program is single threaded: what runs between two awaits is one     *)
(* action.  startProcessing, completeJob, failJob and removeJob contain no *)
(* await, so each is atomic with the code that calls it; executeOrder      *)
(* awaits the router and the simulated execution, so the ticks, the        *)
(* submissions, the cancellations and a shutdown interleave there.         *)
(***************************************************************************)
EXTENDS Integers, FiniteSets

CONSTANTS
  Jobs,               \* job ids (uuids), one per successful call of addOrder
  MaxConcurrentJobs,  \* config.maxConcurrentJobs as the caller passes it
  MaxRetries,         \* config.maxRetries as the caller passes it
  CircuitBreakerThreshold,  \* per cent
  SubmittedPriorities,\* the priorities orders are submitted with
  ManagerCalls,       \* manager operations called beside the facade
  ListenerMayThrow,   \* may a listener of 'queueEvent' throw?
  MaxRetryTimers      \* bound: retry-check intervals in the model

\* `value || default`: zero is replaced by the default.
OrDefault(value, default) == IF value = 0 THEN default ELSE value

\* The constructor's effective configuration.
config ==
  [ maxConcurrentJobs       |-> OrDefault(MaxConcurrentJobs, 5),
    maxRetries              |-> OrDefault(MaxRetries, 3),
    circuitBreakerThreshold |-> OrDefault(CircuitBreakerThreshold, 50) ]

ASSUME ConfigAssumption ==
  /\ MaxConcurrentJobs \in Nat
  /\ MaxRetries \in Nat
  /\ CircuitBreakerThreshold \in Nat
  /\ SubmittedPriorities \subseteq {"high", "normal", "low"}
  /\ ManagerCalls \subseteq {"removeJob", "resetCircuitBreaker"}
  /\ ListenerMayThrow \in BOOLEAN
  /\ MaxRetryTimers \in Nat

ASSUME FiniteJobs == IsFiniteSet(Jobs)

VARIABLES
  pendingJobs, processingJobs, completedJobs, failedJobs,  \* keys of the maps
  state,           \* job.state ("none": not submitted yet)
  priority,        \* job.priority
  createdAt,       \* job.createdAt
  attempt,         \* job.retryInfo.attempt (NoRetryInfo: retryInfo undefined)
  backoffOver,     \* has job.retryInfo.nextRetryAt passed?
  circuitBreaker, stats,
  isRunning,       \* processor running, its interval ticking
  starting,        \* calls of initialize that have started the processor
                   \* and not yet the retry checks
  retryTimers,     \* live retry-check intervals
  handleLive,      \* is the one retryCheckInterval stands for among them?
  phase,           \* where the execution of a job is awaiting
  clock            \* the millisecond of the last submission

mapVars    == <<pendingJobs, processingJobs, completedJobs, failedJobs>>
staticVars == <<priority, createdAt, clock>>
timerVars  == <<isRunning, starting, retryTimers, handleLive>>
vars == <<mapVars, staticVars, timerVars, state, attempt, backoffOver,
          circuitBreaker, stats, phase>>

Priorities  == {"high", "normal", "low"}
States      == {"none", "pending", "processing", "success", "failed", "retry_pending"}
Phases      == {"idle", "routing", "simulating"}
NoRetryInfo == -1

BreakerStates == [isOpen: BOOLEAN, failureCount: Nat, successCount: Nat]
Statistics    == [totalProcessed: Nat, totalSuccessful: Nat,
                  totalFailed: Nat, totalRetries: Nat]

TypeOK ==
  /\ pendingJobs \subseteq Jobs
  /\ processingJobs \subseteq Jobs
  /\ completedJobs \subseteq Jobs
  /\ failedJobs \subseteq Jobs
  /\ state \in [Jobs -> States]
  /\ priority \in [Jobs -> Priorities]
  /\ createdAt \in [Jobs -> Nat]
  /\ attempt \in [Jobs -> Nat \cup {NoRetryInfo}]
  /\ backoffOver \in [Jobs -> BOOLEAN]
  /\ circuitBreaker \in BreakerStates
  /\ stats \in Statistics
  /\ isRunning \in BOOLEAN
  /\ starting \in Nat /\ retryTimers \in Nat
  /\ handleLive \in BOOLEAN
  /\ phase \in [Jobs -> Phases]
  /\ clock \in Nat

ClosedBreaker == [isOpen |-> FALSE, failureCount |-> 0, successCount |-> 0]

Init ==
  /\ pendingJobs = {} /\ processingJobs = {}
  /\ completedJobs = {} /\ failedJobs = {}
  /\ state = [j \in Jobs |-> "none"]
  /\ priority = [j \in Jobs |-> "normal"]
  /\ createdAt = [j \in Jobs |-> 0]
  /\ attempt = [j \in Jobs |-> NoRetryInfo]
  /\ backoffOver = [j \in Jobs |-> FALSE]
  /\ circuitBreaker = ClosedBreaker
  /\ stats = [totalProcessed |-> 0, totalSuccessful |-> 0,
              totalFailed |-> 0, totalRetries |-> 0]
  /\ isRunning = FALSE
  /\ starting = 0 /\ retryTimers = 0 /\ handleLive = FALSE
  /\ phase = [j \in Jobs |-> "idle"]
  /\ clock = 0

-----------------------------------------------------------------------------
(* Submission.                                                             *)

\* addOrder's guard: an open breaker rejects the order.
Admits == ~circuitBreaker.isOpen

(* addOrder: rejected while the breaker is open, otherwise a fresh job in  *)
(* pendingJobs.  Two orders may be created in the same millisecond.        *)
AddOrder(j) ==
  /\ state[j] = "none"
  /\ Admits
  /\ pendingJobs' = pendingJobs \cup {j}
  /\ state' = [state EXCEPT ![j] = "pending"]
  /\ \E p \in SubmittedPriorities : priority' = [priority EXCEPT ![j] = p]
  /\ clock' \in {clock, clock + 1}
  /\ createdAt' = [createdAt EXCEPT ![j] = clock']
  /\ UNCHANGED <<processingJobs, completedJobs, failedJobs, attempt, backoffOver,
                 circuitBreaker, stats, timerVars, phase>>

-----------------------------------------------------------------------------
(* Selection and start of a job: one tick of the processor.                *)

Rank(p) == [high |-> 0, normal |-> 1, low |-> 2][p]

\* Faulty variant: the comparator stops at the priority.
Before_PriorityOnly(j, k) == Rank(priority[j]) < Rank(priority[k])

\* The comparator of getNextJob.
Before(j, k) ==
  \/ Rank(priority[j]) < Rank(priority[k])
  \/ /\ priority[j] = priority[k]
     /\ createdAt[j] < createdAt[k]

\* Faulty variant: one execution too many.
HasCapacity_OffByOne == Cardinality(processingJobs) <= config.maxConcurrentJobs

HasCapacity == Cardinality(processingJobs) < config.maxConcurrentJobs

(* getNextJob: the first pending job in priority order.  Neither job.state *)
(* nor nextRetryAt is consulted.  Jobs that compare equal keep the order   *)
(* of the map; the model leaves open which of them is first.               *)
NextJobs ==
  IF HasCapacity
  THEN {j \in pendingJobs : \A k \in pendingJobs : ~Before(k, j)}
  ELSE {}

(* processNextJob up to the first await: the job moves from pendingJobs to *)
(* processingJobs and its execution begins.  A listener that throws in     *)
(* emitQueueEvent makes startProcessing return false after the move, and   *)
(* processNextJob returns without executing the job.                       *)
ProcessNextJob(j) ==
  /\ isRunning
  /\ j \in NextJobs
  /\ pendingJobs' = pendingJobs \ {j}
  /\ processingJobs' = processingJobs \cup {j}
  /\ state' = [state EXCEPT ![j] = "processing"]
  /\ \/ phase' = [phase EXCEPT ![j] = "routing"]
     \/ /\ ListenerMayThrow
        /\ UNCHANGED phase
  /\ UNCHANGED <<completedJobs, failedJobs, staticVars, attempt, backoffOver,
                 circuitBreaker, stats, timerVars>>

-----------------------------------------------------------------------------
(* The execution of a job.                                                 *)

\* executeOrder: the router answered with a route.
RouteOrder(j) ==
  /\ phase[j] = "routing"
  /\ phase' = [phase EXCEPT ![j] = "simulating"]
  /\ UNCHANGED <<mapVars, staticVars, timerVars, state, attempt, backoffOver,
                 circuitBreaker, stats>>

\* Faulty variant: a success closes the breaker.
AfterSuccess_Closes(cb) ==
  [isOpen |-> FALSE, failureCount |-> 0, successCount |-> cb.successCount + 1]

\* The breaker after a success: the failure run ends, isOpen is left alone.
AfterSuccess(cb) ==
  [isOpen |-> cb.isOpen, failureCount |-> 0, successCount |-> cb.successCount + 1]

(* The breaker after a permanent failure.  successCount is zeroed before   *)
(* the failure rate is computed from the two counts.                       *)
AfterFailure(cb) ==
  LET failures == cb.failureCount + 1
      total    == failures + 0
  IN  [isOpen |-> cb.isOpen \/ failures * 100 >= config.circuitBreakerThreshold * total,
       failureCount |-> failures,
       successCount |-> 0]

\* Faulty variant: a scheduled retry is not counted.
CountRetry_Not(s) == s

\* The statistics after a success, a permanent failure and a scheduled retry.
CountSuccess(s) == [s EXCEPT !.totalProcessed = @ + 1, !.totalSuccessful = @ + 1]
CountFailure(s) == [s EXCEPT !.totalProcessed = @ + 1, !.totalFailed = @ + 1]
CountRetry(s)   == [s EXCEPT !.totalRetries = @ + 1]

\* completeJob returns false, and so does failJob, for a job that left processingJobs.
JobNotFound(j) ==
  /\ j \notin processingJobs
  /\ UNCHANGED <<mapVars, state, attempt, backoffOver, circuitBreaker, stats>>

\* Faulty variant: the slot is not released.
CompleteFound_KeepsSlot(j) ==
  /\ j \in processingJobs
  /\ completedJobs' = completedJobs \cup {j}
  /\ state' = [state EXCEPT ![j] = "success"]
  /\ stats' = CountSuccess(stats)
  /\ circuitBreaker' = AfterSuccess(circuitBreaker)
  /\ UNCHANGED <<pendingJobs, processingJobs, failedJobs, attempt, backoffOver>>

CompleteFound(j) ==
  /\ j \in processingJobs
  /\ processingJobs' = processingJobs \ {j}
  /\ completedJobs' = completedJobs \cup {j}
  /\ state' = [state EXCEPT ![j] = "success"]
  /\ stats' = CountSuccess(stats)
  /\ circuitBreaker' = AfterSuccess(circuitBreaker)
  /\ UNCHANGED <<pendingJobs, failedJobs, attempt, backoffOver>>

\* The execution succeeds and processNextJob calls completeJob.
CompleteJob(j) ==
  /\ phase[j] = "simulating"
  /\ phase' = [phase EXCEPT ![j] = "idle"]
  /\ CompleteFound(j) \/ JobNotFound(j)
  /\ UNCHANGED <<staticVars, timerVars>>

(* retryInfo.attempt after one more failure: the first failure creates     *)
(* retryInfo with attempt 0.                                               *)
NextAttempt(j) == IF attempt[j] = NoRetryInfo THEN 0 ELSE attempt[j] + 1

\* Faulty variant: one retry too many.
CanRetry_OffByOne(a) == a <= config.maxRetries

CanRetry(a) == a < config.maxRetries

ScheduleRetry(j) ==
  /\ CanRetry(NextAttempt(j))
  /\ pendingJobs' = pendingJobs \cup {j}
  /\ state' = [state EXCEPT ![j] = "retry_pending"]
  /\ backoffOver' = [backoffOver EXCEPT ![j] = FALSE]
  /\ stats' = CountRetry(stats)
  /\ UNCHANGED <<failedJobs, circuitBreaker>>

FailPermanently(j) ==
  /\ ~CanRetry(NextAttempt(j))
  /\ failedJobs' = failedJobs \cup {j}
  /\ state' = [state EXCEPT ![j] = "failed"]
  /\ stats' = CountFailure(stats)
  /\ circuitBreaker' = AfterFailure(circuitBreaker)
  /\ UNCHANGED <<pendingJobs, backoffOver>>

\* Faulty variants: no look-up in processingJobs; the slot is not released.
FailFound_NoLookup(j) ==
  /\ processingJobs' = processingJobs \ {j}
  /\ attempt' = [attempt EXCEPT ![j] = NextAttempt(j)]
  /\ ScheduleRetry(j) \/ FailPermanently(j)
  /\ UNCHANGED completedJobs

FailFound_KeepsSlot(j) ==
  /\ j \in processingJobs
  /\ attempt' = [attempt EXCEPT ![j] = NextAttempt(j)]
  /\ ScheduleRetry(j) \/ FailPermanently(j)
  /\ UNCHANGED <<completedJobs, processingJobs>>

FailFound(j) ==
  /\ j \in processingJobs
  /\ processingJobs' = processingJobs \ {j}
  /\ attempt' = [attempt EXCEPT ![j] = NextAttempt(j)]
  /\ ScheduleRetry(j) \/ FailPermanently(j)
  /\ UNCHANGED completedJobs

(* The router finds no quote, or the simulated transaction reverts, and    *)
(* processNextJob calls failJob.                                           *)
FailJob(j) ==
  /\ phase[j] \in {"routing", "simulating"}
  /\ phase' = [phase EXCEPT ![j] = "idle"]
  /\ FailFound(j) \/ JobNotFound(j)
  /\ UNCHANGED <<staticVars, timerVars>>

-----------------------------------------------------------------------------
(* Retries.                                                                *)

\* nextRetryAt of a waiting job passes.
BackoffElapses(j) ==
  /\ j \in pendingJobs
  /\ state[j] = "retry_pending"
  /\ ~backoffOver[j]
  /\ backoffOver' = [backoffOver EXCEPT ![j] = TRUE]
  /\ UNCHANGED <<mapVars, staticVars, timerVars, state, attempt,
                 circuitBreaker, stats, phase>>

RetriesDue == {j \in pendingJobs : state[j] = "retry_pending" /\ backoffOver[j]}

\* processRetries, run by every live retry interval.
ProcessRetries ==
  /\ retryTimers > 0
  /\ RetriesDue # {}
  /\ state' = [j \in Jobs |-> IF j \in RetriesDue THEN "pending" ELSE state[j]]
  /\ UNCHANGED <<mapVars, staticVars, timerVars, attempt, backoffOver,
                 circuitBreaker, stats, phase>>

-----------------------------------------------------------------------------
(* Cancellation, start and stop.                                           *)

\* removeJob: the job leaves pendingJobs or processingJobs and is forgotten.
RemoveJob(j) ==
  /\ j \in pendingJobs \cup processingJobs
  /\ pendingJobs' = pendingJobs \ {j}
  /\ processingJobs' = processingJobs \ ({j} \ pendingJobs)
  /\ UNCHANGED <<completedJobs, failedJobs, staticVars, timerVars, state, attempt,
                 backoffOver, circuitBreaker, stats, phase>>

\* Faulty variant: a job that is being executed can be cancelled.
Cancellable_Started(j) == state[j] \in {"pending", "retry_pending", "processing"}

Cancellable(j) == state[j] \in {"pending", "retry_pending"}

\* cancelOrder: look up, test the state and remove, with no await between.
CancelOrder(j) ==
  /\ Cancellable(j)
  /\ RemoveJob(j)

\* removeJob called on the manager, which does not look at the state.
RemoveDirectly(j) ==
  /\ "removeJob" \in ManagerCalls
  /\ RemoveJob(j)

\* resetCircuitBreaker, which no other code calls.
ResetCircuitBreaker ==
  /\ "resetCircuitBreaker" \in ManagerCalls
  /\ circuitBreaker' = ClosedBreaker
  /\ UNCHANGED <<mapVars, staticVars, timerVars, state, attempt, backoffOver,
                 stats, phase>>

(* initialize up to its await: the processor starts unless it is running.  *)
Initialize ==
  /\ starting + retryTimers < MaxRetryTimers
  /\ isRunning' = TRUE
  /\ starting' = starting + 1
  /\ UNCHANGED <<mapVars, staticVars, retryTimers, handleLive, state, attempt,
                 backoffOver, circuitBreaker, stats, phase>>

(* A retry interval is created in any case, even if a shutdown has come    *)
(* between, and its handle replaces the old one.                           *)
StartsRetryChecks ==
  /\ starting > 0
  /\ starting' = starting - 1
  /\ retryTimers' = retryTimers + 1
  /\ handleLive' = TRUE
  /\ UNCHANGED <<mapVars, staticVars, isRunning, state, attempt, backoffOver,
                 circuitBreaker, stats, phase>>

(* shutdown: clears the interval of the handle and stops the processor;    *)
(* executions in flight go on.                                             *)
Shutdown ==
  /\ isRunning \/ handleLive
  /\ isRunning' = FALSE
  /\ retryTimers' = IF handleLive THEN retryTimers - 1 ELSE retryTimers
  /\ handleLive' = FALSE
  /\ UNCHANGED <<mapVars, staticVars, starting, state, attempt, backoffOver,
                 circuitBreaker, stats, phase>>

-----------------------------------------------------------------------------
Execution(j) == RouteOrder(j) \/ CompleteJob(j) \/ FailJob(j)

Tick == \E j \in Jobs : ProcessNextJob(j)

Next ==
  \/ \E j \in Jobs : AddOrder(j)
  \/ \E j \in Jobs : ProcessNextJob(j)
  \/ \E j \in Jobs : RouteOrder(j)
  \/ \E j \in Jobs : CompleteJob(j)
  \/ \E j \in Jobs : FailJob(j)
  \/ \E j \in Jobs : BackoffElapses(j)
  \/ ProcessRetries
  \/ \E j \in Jobs : CancelOrder(j)
  \/ \E j \in Jobs : RemoveDirectly(j)
  \/ ResetCircuitBreaker
  \/ Initialize
  \/ StartsRetryChecks
  \/ Shutdown

Spec == Init /\ [][Next]_vars

(* The interval of a running processor ticks again and again, and the      *)
(* promises an execution awaits (a timer, the router's quotes) settle.     *)
Fairness ==
  /\ WF_vars(Tick)
  /\ \A j \in Jobs : WF_vars(Execution(j))

FairSpec == Spec /\ Fairness

-----------------------------------------------------------------------------
(* Safety.                                                                 *)

Submitted(j) == state[j] # "none"

Queued == pendingJobs \cup processingJobs \cup completedJobs \cup failedJobs

Removed(j) == Submitted(j) /\ j \notin Queued

Executing == {j \in Jobs : phase[j] # "idle"}

(* The four maps are disjoint and a job's state says which map holds it:   *)
(* the listings by state (getJobsByState) and the sizes reported by        *)
(* getQueueState describe the same jobs, whatever the order of ticks,      *)
(* cancellations, failures and retry checks.                               *)
PlacementMatchesState ==
  \A j \in Jobs :
    /\ j \in pendingJobs => state[j] \in {"pending", "retry_pending"}
    /\ j \in processingJobs => state[j] = "processing"
    /\ j \in completedJobs <=> state[j] = "success"
    /\ j \in failedJobs <=> state[j] = "failed"

(* A slot of processingJobs is held by a running execution and a running   *)
(* execution holds a slot.  The first half fails only if a listener threw  *)
(* when the job started, the second only if removeJob was called on a job  *)
(* being executed: neither a cancellation nor a late answer can do it.     *)
SlotsMatchExecutions ==
  /\ ListenerMayThrow \/ processingJobs \subseteq Executing
  /\ "removeJob" \in ManagerCalls \/ Executing \subseteq processingJobs

\* At most maxConcurrentJobs executions are in flight, overlapping ticks included.
ConcurrencyLimit ==
  "removeJob" \in ManagerCalls
    \/ Cardinality(Executing) <= config.maxConcurrentJobs

(* A job is marked failed exactly when its initial attempt and maxRetries  *)
(* retries have all failed, and is never tried again after that; a         *)
(* cancelled or successful job may have used fewer.                        *)
RetryBudget ==
  \A j \in Jobs :
    /\ attempt[j] <= config.maxRetries
    /\ attempt[j] = config.maxRetries <=> state[j] = "failed"
    /\ state[j] = "retry_pending" => attempt[j] >= 0

Retries(j) == IF attempt[j] = NoRetryInfo THEN 0
              ELSE IF state[j] = "failed" THEN attempt[j] ELSE attempt[j] + 1

\* The retries scheduled so far: <<j, k>> is the k-th retry of job j.
RetriesMade == UNION {{j} \X (1 .. Retries(j)) : j \in Jobs}

(* The statistics agree with the maps and with the history of each job:    *)
(* every settled job is counted once, as success or as failure, and every  *)
(* retry of every job, removed ones included, once.                        *)
StatsAccountForJobs ==
  /\ stats.totalProcessed = Cardinality(completedJobs) + Cardinality(failedJobs)
  /\ stats.totalSuccessful = Cardinality(completedJobs)
  /\ stats.totalFailed = Cardinality(failedJobs)
  /\ stats.totalRetries = Cardinality(RetriesMade)

(* The breaker's counts describe the run of equal outcomes that is under   *)
(* way, and a run of failures that is still counted holds the breaker open *)
(* (for a threshold of at most 100 per cent).                              *)
BreakerCountsTheLastRun ==
  /\ circuitBreaker.failureCount = 0 \/ circuitBreaker.successCount = 0
  /\ circuitBreaker.failureCount <= stats.totalFailed
  /\ circuitBreaker.successCount <= stats.totalSuccessful
  /\ config.circuitBreakerThreshold <= 100 =>
       (circuitBreaker.failureCount > 0 => circuitBreaker.isOpen)

\* A job that has been taken up by a tick, now or earlier.
HasStarted(j) == attempt[j] # NoRetryInfo \/ state[j] \in {"processing", "success", "failed"}

(* First come, first served: who came in an earlier millisecond than       *)
(* another job, with no lower priority, has its first attempt before it,   *)
(* unless it is removed.  Retries of older jobs, answers, restarts of the  *)
(* processor and submissions in between do not turn the order round.       *)
FirstComeFirstServed ==
  \A j, k \in Jobs :
    (/\ Submitted(j) /\ Submitted(k) /\ ~Removed(k)
     /\ createdAt[k] < createdAt[j]
     /\ Rank(priority[k]) <= Rank(priority[j]))
      => (HasStarted(j) => HasStarted(k))

-----------------------------------------------------------------------------
(* What a step may never do.                                               *)

(* A job that is settled or removed stays as it is: a late answer of an    *)
(* execution, a retry check or a tick brings nothing back to life.         *)
SettledIsFinal ==
  [][\A j \in Jobs :
       /\ Removed(j) => Removed(j)'
       /\ j \in completedJobs => j \in completedJobs' /\ state'[j] = "success"
       /\ j \in failedJobs => j \in failedJobs' /\ state'[j] = "failed"
    ]_vars

(* Once one job has failed permanently no order is admitted again, unless  *)
(* resetCircuitBreaker is called: a later success of a job in flight does  *)
(* not close the breaker.                                                  *)
OneFailureStopsAdmission ==
  [][(config.circuitBreakerThreshold <= 100
        /\ "resetCircuitBreaker" \notin ManagerCalls /\ failedJobs # {})
       => \A j \in Jobs : Submitted(j)' => Submitted(j)]_vars

-----------------------------------------------------------------------------
(* The abstract specification the facade implements.                       *)

statusOf ==
  [j \in Jobs |-> IF ~Submitted(j) THEN "new"
                  ELSE IF j \in pendingJobs THEN "waiting"
                  ELSE IF j \in processingJobs THEN "running"
                  ELSE IF j \in completedJobs THEN "succeeded"
                  ELSE IF j \in failedJobs THEN "failed"
                  ELSE "withdrawn"]

\* Failures so far, and the run that is under way or succeeded.
runsOf ==
  [j \in Jobs |-> attempt[j] + 1 +
                  IF j \in processingJobs \cup completedJobs THEN 1 ELSE 0]

Lifecycle ==
  INSTANCE JobLifecycle WITH MaxRunning <- config.maxConcurrentJobs,
                             MaxRuns <- config.maxRetries + 1,
                             status <- statusOf, runs <- runsOf

(* Driven through its facade the queue takes every job through the life    *)
(* JobLifecycle describes: maps, ticks, retry checks, the breaker and the  *)
(* statistics add no other behaviour.                                      *)
ImplementsJobLifecycle == Lifecycle!LifecycleSpec

-----------------------------------------------------------------------------
(* Liveness.                                                               *)

\* A listener threw as the job started: it holds a slot and nothing executes it.
Stranded(j) == state[j] = "processing" /\ j \in processingJobs \ Executing

(* While the processor keeps running every submitted job settles or is     *)
(* removed: overlapping ticks, failures, retries and late answers never    *)
(* lose it, nor a slot it needs; only a listener that throws can, by       *)
(* stranding a job.                                                        *)
SubmittedJobsSettle ==
  \A j \in Jobs :
    Submitted(j) ~> \/ j \in completedJobs \cup failedJobs \/ Removed(j)
                    \/ ~isRunning \/ \E k \in Jobs : Stranded(k)

-----------------------------------------------------------------------------
(* What a comment of the code says and the code does not do.               *)

(* constants.ts documents the breaker as "open if failure rate >= 50%":    *)
(* it is open only if that share of the processed jobs had failed.         *)
BreakerOpensOnFailureRate ==
  circuitBreaker.isOpen =>
    stats.totalFailed * 100 >= config.circuitBreakerThreshold * stats.totalProcessed
=============================================================================
