---------------------------- MODULE OrderRouting ----------------------------
(***************************************************************************)
(* How a route is found: the retry utility around one attempt at a time,   *)
(* and the attempt the engine makes, a race of the DEX router (which asks  *)
(* all fetchers and waits for all of them) with a timer.                   *)
(*                                                                         *)
(* One call is modelled: of retry by the engine, whose attempt is the race,*)
(* or by a direct caller whose function succeeds or throws any error of    *)
(* utils/errors; or of retryUntil, whose function may also return what its *)
(* predicate does not accept.  Calls share no state.                       *)
(***************************************************************************)
EXTENDS Integers, Sequences, SequencesExt

CONSTANT Lots   \* possible amounts of an order, in lots of 300 tokens

ASSUME LotsAssumption == Lots \subseteq Nat \ {0}

VARIABLES
  use,       \* what was called: retry by the "engine" or "direct", or "until"
  config,    \* name of the RetryConfig
  lots,      \* the amount of the order the engine routes
  answers,   \* of the router's fetchers: a quote, none, or still pending
  pc,        \* "calling" the function, "waiting" for a retry, or "done"
  attempt,   \* the loop variable
  delays,    \* the delays between attempts, in ms
  outcome,   \* of the last attempt: "ok", "unsatisfied" or the error thrown
  chosen     \* the quote the engine goes on with

vars == <<use, config, lots, answers, pc, attempt, delays, outcome, chosen>>

-----------------------------------------------------------------------------
(* Quotes.                                                                 *)

\* The fetchers in the order the router creates and asks them.
Dexes == <<"raydium", "meteora">>

Smaller(a, b) == IF a < b THEN a ELSE b

(* simulateQuote of either fetcher.  The impact is in basis points and     *)
(* grows with the amount up to a cap; the price is base price, fee and     *)
(* impact together, in units of 10^-4 / 20000 of the output token.         *)
Quote(dex, amount) ==
  LET impact == IF dex = "raydium" THEN Smaller(3 * amount, 200)
                                   ELSE Smaller(2 * amount, 100)
      netPrice == IF dex = "raydium" THEN 99750 ELSE 98703
  IN  [dex |-> dex, priceImpact |-> impact,
       price |-> netPrice * (10000 - impact),
       liquidity |-> IF dex = "raydium" THEN 1000000 ELSE 500000]

Quotes  == {Quote(dex, amount) : dex \in ToSet(Dexes), amount \in Lots}
Pending == [dex |-> "pending"]
NoQuote == [dex |-> "none"]

\* Faulty variant: "Minimize output amount", as the comment of BEST_PRICE says.
Better_Cheapest(priority, q, best) ==
  CASE priority = "lowest_impact" -> q.priceImpact < best.priceImpact
    [] priority = "most_liquid"   -> q.liquidity > best.liquidity
    [] OTHER                      -> q.price < best.price

\* Does q replace the best quote so far (selectQuoteByPriority)?
Better(priority, q, best) ==
  CASE priority = "lowest_impact" -> q.priceImpact < best.priceImpact
    [] priority = "most_liquid"   -> q.liquidity > best.liquidity
    [] OTHER                      -> q.price > best.price

Priorities == {"best_price", "lowest_impact", "fastest", "most_liquid"}

(* getQuotesFromAllDexs leaves out the answers that are none; of the others*)
(* a later one replaces the best before it only if it is better.           *)
Preferred(priority, q, best) ==
  IF q # NoQuote /\ (best = NoQuote \/ Better(priority, q, best)) THEN q ELSE best

\* The best of the first answers, in the order of the fetchers, whoever answered first.
BestOfFirst(given, priority) ==
  LET best[i \in 0 .. Len(Dexes)] ==
        IF i = 0 THEN NoQuote ELSE Preferred(priority, given[Dexes[i]], best[i - 1])
  IN  best

\* DexRouter.routeOrder; a price impact that is too high is logged only.
BestQuote(given, priority) == BestOfFirst(given, priority)[Len(Dexes)]

-----------------------------------------------------------------------------
(* Errors and delays.                                                      *)

RetryableErrors ==
  {"DexApiError", "InsufficientLiquidityError", "NetworkError", "SlippageError", "RpcError"}

\* One error each for those constructed as not retryable and for plain Errors.
Errors == RetryableErrors \cup {"InvalidTokenError", "Error"}

IsRetryableError(e) == e \in RetryableErrors

(* The three configurations; the multiplier and the jitter factor are      *)
(* quotients, factor[1] / factor[2] and jitter / 100.                      *)
RetryConfig ==
  [default      |-> [maxAttempts |-> 3, initialDelayMs |-> 1000, maxDelayMs |-> 4000,
                     factor |-> <<2, 1>>, jitter |-> 10],
   aggressive   |-> [maxAttempts |-> 2, initialDelayMs |-> 500, maxDelayMs |-> 2000,
                     factor |-> <<2, 1>>, jitter |-> 5],
   conservative |-> [maxAttempts |-> 5, initialDelayMs |-> 2000, maxDelayMs |-> 10000,
                     factor |-> <<3, 2>>, jitter |-> 20]]

MaxAttempts == RetryConfig[config].maxAttempts

\* Faulty variant: the exponent is the attempt, not the attempt before it.
CappedDelay_OneTooMany(n, c) ==
  Smaller((c.initialDelayMs * c.factor[1] ^ n) \div (c.factor[2] ^ n), c.maxDelayMs)

CappedDelay(n, c) ==
  Smaller((c.initialDelayMs * c.factor[1] ^ (n - 1)) \div (c.factor[2] ^ (n - 1)), c.maxDelayMs)

(* calculateDelay: the random jitter is anything between two extremes, of  *)
(* which only those and the middle are kept.                               *)
CalculateDelay(n, c) ==
  LET delay == CappedDelay(n, c)
      range == (delay * c.jitter) \div 100
  IN  {delay - range, delay, delay + range}

-----------------------------------------------------------------------------
(* The retry loop.                                                         *)

TypeOK ==
  /\ use \in {"engine", "direct", "until"} /\ config \in DOMAIN RetryConfig
  /\ lots \in Lots
  /\ pc \in {"calling", "waiting", "done"}
  /\ attempt \in Nat \ {0} /\ delays \in Seq(Int)
  /\ outcome \in {"ok", "unsatisfied"} \cup Errors
  /\ answers \in [ToSet(Dexes) -> Quotes \cup {Pending, NoQuote}]
  /\ chosen \in Quotes \cup {NoQuote}

Init ==
  /\ \/ use = "engine" /\ config = "default"
     \/ use \in {"direct", "until"} /\ config \in DOMAIN RetryConfig
  /\ lots \in Lots
  /\ answers = [d \in ToSet(Dexes) |-> Pending]
  /\ pc = "calling" /\ attempt = 1 /\ delays = <<>>
  /\ outcome = "ok" /\ chosen = NoQuote

\* retryUntil repeats all but success, errors that are not retryable included.
Repeats(result) == IF use = "until" THEN result # "ok" ELSE IsRetryableError(result)

\* Faulty variant: the last attempt is followed by another delay.
ShouldRetry_IgnoresLimit(result) == Repeats(result)

ShouldRetry(result) == Repeats(result) /\ attempt < MaxAttempts

\* The function of an attempt has returned or thrown.
Attempted(result) ==
  /\ outcome' = result
  /\ IF ShouldRetry(result)
       THEN /\ pc' = "waiting"
            /\ \E d \in CalculateDelay(attempt, RetryConfig[config]) :
                 delays' = Append(delays, d)
       ELSE pc' = "done" /\ UNCHANGED delays
  /\ UNCHANGED <<use, config, lots, attempt>>

\* The function handed to retryUntil, with its predicate.
UntilAttempt ==
  /\ use = "until" /\ pc = "calling"
  /\ \E result \in {"ok", "unsatisfied"} \cup Errors : Attempted(result)
  /\ UNCHANGED <<answers, chosen>>

\* A direct caller's function.
DirectAttempt ==
  /\ use = "direct" /\ pc = "calling"
  /\ \E result \in {"ok"} \cup Errors : Attempted(result)
  /\ UNCHANGED <<answers, chosen>>

\* The delay is over: the next round of the loop.
RetryDelayOver ==
  /\ pc = "waiting"
  /\ pc' = "calling" /\ attempt' = attempt + 1
  /\ UNCHANGED <<use, config, lots, answers, delays, outcome, chosen>>

-----------------------------------------------------------------------------
(* The engine's attempt.                                                   *)

(* A fetcher answers; one that throws, or refuses the parameters, answers  *)
(* none.  The last answer wins the race if the timer has not: the engine   *)
(* takes the best quote, and fails without one.  Later it has no effect.   *)
FetcherAnswers(d) ==
  /\ use = "engine" /\ answers[d] = Pending
  /\ \E q \in {Quote(d, lots), NoQuote} : answers' = [answers EXCEPT ![d] = q]
  /\ IF pc = "calling" /\ \A e \in ToSet(Dexes) : answers'[e] # Pending
       THEN /\ chosen' = BestQuote(answers', "best_price")
            /\ Attempted("ok")
       ELSE UNCHANGED <<use, config, lots, pc, attempt, delays, outcome, chosen>>

\* Faulty variant: the timer guards the first answer only.
RoutingTimeout_BeforeAnswers ==
  /\ use = "engine" /\ pc = "calling"
  /\ \A d \in ToSet(Dexes) : answers[d] = Pending
  /\ Attempted("Error")
  /\ UNCHANGED <<answers, chosen>>

(* The timer wins the race with undefined, which becomes a plain Error: it *)
(* is not retried, although it is logged as a DexApiError, which would be. *)
RoutingTimeout ==
  /\ use = "engine" /\ pc = "calling"
  /\ Attempted("Error")
  /\ UNCHANGED <<answers, chosen>>

Next ==
  \/ DirectAttempt
  \/ UntilAttempt
  \/ RetryDelayOver
  \/ \E d \in ToSet(Dexes) : FetcherAnswers(d)
  \/ RoutingTimeout

Spec == Init /\ [][Next]_vars

(* Timers fire and the functions of other callers settle.  Fetchers need   *)
(* not answer: they stand for calls of remote services.                    *)
FairSpec ==
  /\ Spec
  /\ WF_vars(DirectAttempt \/ UntilAttempt)
  /\ WF_vars(RetryDelayOver)
  /\ WF_vars(RoutingTimeout)

-----------------------------------------------------------------------------
(* Properties.                                                             *)

(* Retries are made exactly when they should be: one delay for every       *)
(* attempt before the last, all attempts used up when the last error is a  *)
(* retryable one, and the reported number of attempts within the limit.    *)
(* The engine's errors are plain, so its first attempt is its only one;    *)
(* retryUntil gives up on nothing before its attempts are used up.  What   *)
(* is retryable is what the classes of errors.ts say; ARCHITECTURE.md has  *)
(* another list, in which insufficient liquidity is permanent.             *)
RetriesUntilExhausted ==
  pc = "done" =>
    /\ Len(delays) = attempt - 1
    /\ attempt <= MaxAttempts
    /\ outcome \in RetryableErrors => attempt = MaxAttempts
    /\ use = "engine" => attempt = 1
    /\ (use = "until" /\ outcome # "ok") => attempt = MaxAttempts

(* Whatever the jitter, a later delay is never shorter than an earlier one *)
(* and none exceeds maxDelayMs, although the jitter is added after the cap.*)
DelaysGrowWithinTheCap ==
  /\ \A i \in DOMAIN delays : delays[i] \in 1 .. RetryConfig[config].maxDelayMs
  /\ \A i, j \in DOMAIN delays : i < j => delays[i] <= delays[j]

(* The engine goes on with a quote only if every fetcher has answered in   *)
(* time; it is the best of the answers, whatever order they came in.  Each *)
(* priority finds a quote nobody beats by its measure.                     *)
RoutesToTheBestAnswer ==
  /\ chosen # NoQuote =>
       /\ pc = "done" /\ outcome = "ok"
       /\ \A d \in DOMAIN answers :
            answers[d] \notin {Pending, NoQuote} => answers[d].price <= chosen.price
       /\ chosen \in {answers[d] : d \in DOMAIN answers}
  /\ (use = "engine" /\ pc = "done" /\ outcome = "ok") =>
       \A p \in Priorities : LET best == BestQuote(answers, p) IN
         \A d \in DOMAIN answers : answers[d] # NoQuote =>
           /\ best # NoQuote
           /\ p = "lowest_impact" => best.priceImpact <= answers[d].priceImpact
           /\ p = "most_liquid" => best.liquidity >= answers[d].liquidity

(* Every call comes to an end: a fetcher that never answers is cut off by  *)
(* the timer, and retries run out.                                         *)
RetryEnds == pc # "done" ~> pc = "done"

-----------------------------------------------------------------------------
(* What a document says and the code does not do.                          *)

(* ARCHITECTURE.md on the errors of the execution engine: "Timeout:        *)
(* Retryable".  A routing timeout would be final only after all attempts   *)
(* the retry of the engine's configuration allows.                         *)
TimeoutsAreRetried ==
  (use = "engine" /\ pc = "done" /\ outcome = "Error") => attempt = MaxAttempts
=============================================================================
