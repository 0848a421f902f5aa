---------------------------- MODULE JobLifecycle ----------------------------
(***************************************************************************)
(* What the order queue promises about a job, without maps, ticks, timers  *)
(* or counters: it waits, runs with at most MaxRunning others, is run at   *)
(* most MaxRuns times, fails only when all its runs have failed, and can   *)
(* be withdrawn only while it waits.                                       *)
(***************************************************************************)
EXTENDS Integers, FiniteSets

CONSTANTS
  Jobs,        \* the jobs
  MaxRunning,  \* jobs that may run at the same time
  MaxRuns      \* runs of one job: the first and the retries

VARIABLES
  status,      \* where each job is in its life
  runs         \* how often it was started

lifecycleVars == <<status, runs>>

Running == {j \in Jobs : status[j] = "running"}

LifecycleInit ==
  /\ status = [j \in Jobs |-> "new"]
  /\ runs = [j \in Jobs |-> 0]

Move(j, from, to) ==
  /\ status[j] = from
  /\ status' = [status EXCEPT ![j] = to]

Submit(j) == Move(j, "new", "waiting") /\ UNCHANGED runs

Start(j) ==
  /\ Cardinality(Running) < MaxRunning
  /\ runs[j] < MaxRuns
  /\ Move(j, "waiting", "running")
  /\ runs' = [runs EXCEPT ![j] = @ + 1]

Succeed(j) == Move(j, "running", "succeeded") /\ UNCHANGED runs

Retry(j) == runs[j] < MaxRuns /\ Move(j, "running", "waiting") /\ UNCHANGED runs

Fail(j) == runs[j] = MaxRuns /\ Move(j, "running", "failed") /\ UNCHANGED runs

Withdraw(j) == Move(j, "waiting", "withdrawn") /\ UNCHANGED runs

LifecycleNext ==
  \E j \in Jobs : Submit(j) \/ Start(j) \/ Succeed(j) \/ Retry(j) \/ Fail(j) \/ Withdraw(j)

LifecycleSpec == LifecycleInit /\ [][LifecycleNext]_lifecycleVars
=============================================================================
