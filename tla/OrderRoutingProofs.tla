------------------------- MODULE OrderRoutingProofs -------------------------
(***************************************************************************)
(* Proofs about OrderRouting: what the retry loop guarantees, which delays *)
(* it waits and which quote the router takes, for any order amounts; and   *)
(* which of the two simulated prices is the better one, for every amount.  *)
(*                                                                         *)
(* The invariant counts the delays in every state of the loop, one more    *)
(* while a retry waits, draws each of them from the attempt it follows,    *)
(* keeps the engine, whose errors are plain, from ever waiting, and lets   *)
(* the engine go on with nothing but the best of a full set of answers.    *)
(***************************************************************************)
EXTENDS OrderRouting, TLAPS

LoopTypes ==
  /\ use \in {"engine", "direct", "until"} /\ config \in DOMAIN RetryConfig
  /\ lots \in Lots
  /\ pc \in {"calling", "waiting", "done"}
  /\ attempt \in Nat \ {0} /\ delays \in Seq(Int)
  /\ outcome \in {"ok", "unsatisfied"} \cup Errors

AnswerTypes ==
  /\ answers \in [ToSet(Dexes) -> Quotes \cup {Pending, NoQuote}]
  /\ chosen \in Quotes \cup {NoQuote}

Counted ==
  /\ attempt <= MaxAttempts
  /\ pc = "waiting" => Len(delays) = attempt /\ attempt < MaxAttempts
  /\ pc # "waiting" => Len(delays) = attempt - 1

Drawn == \A i \in DOMAIN delays : delays[i] \in CalculateDelay(i, RetryConfig[config])

EngineTriesOnce == use = "engine" => pc # "waiting" /\ attempt = 1

Exhausted == pc = "done" /\ Repeats(outcome) => attempt = MaxAttempts

LoopInv == LoopTypes /\ Counted /\ Drawn /\ EngineTriesOnce /\ Exhausted

Routed == use = "engine" /\ pc = "done" /\ outcome = "ok"

RouteInv ==
  /\ AnswerTypes
  /\ Routed => (\A d \in ToSet(Dexes) : answers[d] # Pending)
                 /\ chosen = BestQuote(answers, "best_price")
  /\ chosen # NoQuote => Routed

-----------------------------------------------------------------------------
(* The delays of the three configurations.                                 *)

LEMMA Backoff ==
  ASSUME NEW c
  PROVE  /\ c = RetryConfig.default =>
              CappedDelay(1, c) = 1000 /\ CappedDelay(2, c) = 2000
         /\ c = RetryConfig.aggressive => CappedDelay(1, c) = 500
         /\ c = RetryConfig.conservative =>
              /\ CappedDelay(1, c) = 2000 /\ CappedDelay(2, c) = 3000
              /\ CappedDelay(3, c) = 4500 /\ CappedDelay(4, c) = 6750
<1>1. ASSUME c.initialDelayMs = 1000, c.maxDelayMs = 4000, c.factor = <<2, 1>>
      PROVE  CappedDelay(1, c) = 1000 /\ CappedDelay(2, c) = 2000
  BY <1>1 DEF CappedDelay, Smaller
<1>2. ASSUME c.initialDelayMs = 500, c.maxDelayMs = 2000, c.factor = <<2, 1>>
      PROVE  CappedDelay(1, c) = 500
  BY <1>2 DEF CappedDelay, Smaller
<1>3. ASSUME c.initialDelayMs = 2000, c.maxDelayMs = 10000, c.factor = <<3, 2>>
      PROVE  /\ CappedDelay(1, c) = 2000 /\ CappedDelay(2, c) = 3000
             /\ CappedDelay(3, c) = 4500 /\ CappedDelay(4, c) = 6750
  BY <1>3 DEF CappedDelay, Smaller
<1> QED BY <1>1, <1>2, <1>3 DEF RetryConfig

\* The shortest and the longest delay after each attempt.
Shortest == [default |-> <<900, 1800>>, aggressive |-> <<475>>,
             conservative |-> <<1600, 2400, 3600, 5400>>]
Longest  == [default |-> <<1100, 2200>>, aggressive |-> <<525>>,
             conservative |-> <<2400, 3600, 5400, 8100>>]

LEMMA Jitter ==
  ASSUME NEW c, NEW n, NEW d \in CalculateDelay(n, c),
         NEW delay \in Nat, CappedDelay(n, c) = delay,
         NEW jitter \in Nat, c.jitter = jitter
  PROVE  /\ d \in Int
         /\ delay - (delay * jitter) \div 100 <= d
         /\ d <= delay + (delay * jitter) \div 100
<1> DEFINE range == (delay * jitter) \div 100
<1>1. range \in Nat
  <2>1. delay * jitter \in Nat
    OBVIOUS
  <2>2. \A x \in Nat : x \div 100 \in Nat
    OBVIOUS
  <2> QED BY <2>1, <2>2
<1>2. d \in {delay - range, delay, delay + range}
  BY DEF CalculateDelay
<1> HIDE DEF range
<1>3. d \in Int /\ delay - range <= d /\ d <= delay + range
  BY <1>1, <1>2
<1> QED BY <1>3 DEF range

LEMMA CalculatedDelay ==
  ASSUME NEW name \in DOMAIN RetryConfig, NEW n \in 1 .. RetryConfig[name].maxAttempts - 1,
         NEW d \in CalculateDelay(n, RetryConfig[name])
  PROVE  d \in Int /\ Shortest[name][n] <= d /\ d <= Longest[name][n]
<1> DEFINE c == RetryConfig[name]
<1>1. CASE name = "default"
  <2>1. c = RetryConfig.default /\ c.jitter = 10 /\ (n = 1 \/ n = 2)
    BY <1>1 DEF RetryConfig
  <2> HIDE DEF c
  <2>2. CappedDelay(1, c) = 1000 /\ CappedDelay(2, c) = 2000
    BY <2>1, Backoff
  <2>3. /\ n = 1 => d \in Int /\ 1000 - (1000 * 10) \div 100 <= d
                    /\ d <= 1000 + (1000 * 10) \div 100
        /\ n = 2 => d \in Int /\ 2000 - (2000 * 10) \div 100 <= d
                    /\ d <= 2000 + (2000 * 10) \div 100
    BY <2>1, <2>2, Jitter DEF c
  <2> QED BY <1>1, <2>1, <2>3 DEF Shortest, Longest
<1>2. CASE name = "aggressive"
  <2>1. c = RetryConfig.aggressive /\ c.jitter = 5 /\ n = 1
    BY <1>2 DEF RetryConfig
  <2> HIDE DEF c
  <2>2. CappedDelay(1, c) = 500
    BY <2>1, Backoff
  <2>3. d \in Int /\ 500 - (500 * 5) \div 100 <= d /\ d <= 500 + (500 * 5) \div 100
    BY <2>1, <2>2, Jitter DEF c
  <2> QED BY <1>2, <2>1, <2>3 DEF Shortest, Longest
<1>3. CASE name = "conservative"
  <2>1. /\ c = RetryConfig.conservative /\ c.jitter = 20
        /\ n = 1 \/ n = 2 \/ n = 3 \/ n = 4
    BY <1>3 DEF RetryConfig
  <2> HIDE DEF c
  <2>2. /\ CappedDelay(1, c) = 2000 /\ CappedDelay(2, c) = 3000
        /\ CappedDelay(3, c) = 4500 /\ CappedDelay(4, c) = 6750
    BY <2>1, Backoff
  <2>3. /\ n = 1 => d \in Int /\ 2000 - (2000 * 20) \div 100 <= d
                    /\ d <= 2000 + (2000 * 20) \div 100
        /\ n = 2 => d \in Int /\ 3000 - (3000 * 20) \div 100 <= d
                    /\ d <= 3000 + (3000 * 20) \div 100
    BY <2>1, <2>2, Jitter DEF c
  <2>4. /\ n = 3 => d \in Int /\ 4500 - (4500 * 20) \div 100 <= d
                    /\ d <= 4500 + (4500 * 20) \div 100
        /\ n = 4 => d \in Int /\ 6750 - (6750 * 20) \div 100 <= d
                    /\ d <= 6750 + (6750 * 20) \div 100
    BY <2>1, <2>2, Jitter DEF c
  <2> QED BY <1>3, <2>1, <2>3, <2>4 DEF Shortest, Longest
<1> QED BY <1>1, <1>2, <1>3 DEF RetryConfig

LEMMA DelayBounds ==
  ASSUME NEW name \in DOMAIN RetryConfig, NEW n \in 1 .. RetryConfig[name].maxAttempts - 1,
         NEW d \in CalculateDelay(n, RetryConfig[name])
  PROVE  d \in 1 .. RetryConfig[name].maxDelayMs
<1>1. d \in Int /\ Shortest[name][n] <= d /\ d <= Longest[name][n]
  BY CalculatedDelay
<1>2. 1 <= Shortest[name][n] /\ Longest[name][n] <= RetryConfig[name].maxDelayMs
  BY DEF RetryConfig, Shortest, Longest
<1>3. Shortest[name][n] \in Int /\ Longest[name][n] \in Int /\ RetryConfig[name].maxDelayMs \in Int
  BY DEF RetryConfig, Shortest, Longest
<1> QED BY <1>1, <1>2, <1>3

(* The jitter never makes up for the growth of the backoff; it comes close *)
(* in the conservative configuration: 1.2 * 2000 = 0.8 * 3000.             *)
LEMMA DelaysOrdered ==
  ASSUME NEW name \in DOMAIN RetryConfig,
         NEW n \in 1 .. RetryConfig[name].maxAttempts - 1, NEW m \in 1 .. n - 1,
         NEW d \in CalculateDelay(m, RetryConfig[name]),
         NEW e \in CalculateDelay(n, RetryConfig[name])
  PROVE  d <= e
<1>1. m \in 1 .. RetryConfig[name].maxAttempts - 1
  BY DEF RetryConfig
<1>2. /\ d \in Int /\ d <= Longest[name][m]
      /\ e \in Int /\ Shortest[name][n] <= e
  BY <1>1, CalculatedDelay
<1>3. /\ Longest[name][m] <= Shortest[name][n]
      /\ Longest[name][m] \in Int /\ Shortest[name][n] \in Int
  BY DEF RetryConfig, Shortest, Longest
<1> QED BY <1>2, <1>3

-----------------------------------------------------------------------------
LEMMA MaxAttemptsIsPositive ==
  ASSUME NEW name \in DOMAIN RetryConfig
  PROVE  RetryConfig[name].maxAttempts \in Nat \ {0}
BY DEF RetryConfig

LEMMA InitLoopInv == Init => LoopInv
<1> SUFFICES ASSUME Init PROVE LoopInv
  OBVIOUS
<1>1. config \in DOMAIN RetryConfig
  BY DEF Init, RetryConfig
<1> QED
  BY <1>1, MaxAttemptsIsPositive
  DEF Init, LoopInv, LoopTypes, Counted, Drawn, EngineTriesOnce, Exhausted, MaxAttempts

(* Whatever the function returned or threw; the engine's never throws an   *)
(* error that is retried.                                                  *)
LEMMA AttemptedKeeps ==
  ASSUME NEW result \in {"ok", "unsatisfied"} \cup Errors,
         LoopInv, pc = "calling", Attempted(result),
         use = "engine" => result \notin RetryableErrors
  PROVE  LoopInv'
<1> USE DEF LoopInv
<1>0. /\ config' = config /\ use' = use /\ attempt' = attempt /\ lots' = lots
      /\ MaxAttempts \in Nat \ {0} /\ MaxAttempts' = MaxAttempts /\ outcome' = result
      /\ Len(delays) = attempt - 1
  BY MaxAttemptsIsPositive DEF Attempted, LoopTypes, MaxAttempts, Counted
<1>1. CASE ShouldRetry(result)
  <2>1. PICK d \in CalculateDelay(attempt, RetryConfig[config]) : delays' = Append(delays, d)
    BY <1>1 DEF Attempted
  <2>2. pc' = "waiting" /\ attempt < MaxAttempts /\ use # "engine"
    BY <1>1 DEF Attempted, ShouldRetry, Repeats, IsRetryableError
  <2>3. attempt \in 1 .. RetryConfig[config].maxAttempts - 1
    BY <1>0, <2>2 DEF LoopTypes, MaxAttempts
  <2>4. d \in Int
    BY <2>1, <2>3, DelayBounds DEF LoopTypes
  <2>5. /\ delays' \in Seq(Int) /\ Len(delays') = attempt
        /\ delays'[attempt] = d
        /\ \A i \in DOMAIN delays : delays'[i] = delays[i]
        /\ DOMAIN delays' = DOMAIN delays \cup {attempt}
    BY <1>0, <2>1, <2>4 DEF LoopTypes
  <2>6. Drawn'
    BY <1>0, <2>1, <2>5 DEF Drawn
  <2> QED
    BY <1>0, <2>2, <2>5, <2>6 DEF LoopTypes, Counted, EngineTriesOnce, Exhausted
<1>2. CASE ~ShouldRetry(result)
  <2>1. pc' = "done" /\ delays' = delays
    BY <1>2 DEF Attempted
  <2>2. Repeats(result) => attempt = MaxAttempts
    BY <1>2, <1>0 DEF ShouldRetry, LoopTypes, Counted
  <2>3. Repeats(outcome)' <=> Repeats(result)
    BY <1>0, <2>1 DEF Repeats, IsRetryableError, RetryableErrors
  <2> QED
    BY <1>0, <2>1, <2>2, <2>3 DEF LoopTypes, Counted, Drawn, EngineTriesOnce, Exhausted
<1> QED BY <1>1, <1>2

LEMMA DelayOverKeeps == ASSUME LoopInv, RetryDelayOver PROVE LoopInv'
<1>1. MaxAttempts \in Nat \ {0} /\ MaxAttempts' = MaxAttempts
  BY MaxAttemptsIsPositive DEF LoopInv, RetryDelayOver, LoopTypes, MaxAttempts
<1> QED
  BY <1>1
  DEF LoopInv, RetryDelayOver, LoopTypes, Counted, Drawn, EngineTriesOnce, Exhausted

LEMMA UnchangedKeeps ==
  ASSUME LoopInv, UNCHANGED <<use, config, lots, pc, attempt, delays, outcome>> PROVE LoopInv'
BY DEF LoopInv, LoopTypes, Counted, Drawn, EngineTriesOnce, Exhausted, Repeats,
       IsRetryableError, MaxAttempts, RetryableErrors, Errors

LEMMA PlainErrorsAreFinal ==
  "ok" \notin RetryableErrors /\ "Error" \notin RetryableErrors /\ "Error" \in Errors
BY DEF RetryableErrors, Errors

LEMMA NextLoopInv == LoopInv /\ [Next]_vars => LoopInv'
<1> SUFFICES ASSUME LoopInv, [Next]_vars PROVE LoopInv'
  OBVIOUS
<1>1. CASE DirectAttempt \/ UntilAttempt
  BY <1>1, AttemptedKeeps DEF DirectAttempt, UntilAttempt
<1>2. CASE RetryDelayOver
  BY <1>2, DelayOverKeeps
<1>3. ASSUME NEW d \in ToSet(Dexes), FetcherAnswers(d) PROVE LoopInv'
  <2>1. CASE pc = "calling" /\ \A e \in ToSet(Dexes) : answers'[e] # Pending
    BY <1>3, <2>1, AttemptedKeeps, PlainErrorsAreFinal DEF FetcherAnswers
  <2>2. CASE ~(pc = "calling" /\ \A e \in ToSet(Dexes) : answers'[e] # Pending)
    BY <1>3, <2>2, UnchangedKeeps DEF FetcherAnswers
  <2> QED BY <2>1, <2>2
<1>4. CASE RoutingTimeout
  BY <1>4, AttemptedKeeps, PlainErrorsAreFinal DEF RoutingTimeout
<1>5. CASE UNCHANGED vars
  BY <1>5, UnchangedKeeps DEF vars
<1> QED BY <1>1, <1>2, <1>3, <1>4, <1>5 DEF Next

LEMMA LoopInvariant == Spec => []LoopInv
BY InitLoopInv, NextLoopInv, PTL DEF Spec

-----------------------------------------------------------------------------
(* The loop makes as many attempts as its configuration allows whenever    *)
(* the last error is a retryable one, one delay between any two of them,   *)
(* and the engine's single attempt is never repeated.                      *)
THEOREM RetriesSpent == Spec => []RetriesUntilExhausted
<1>1. LoopInv => RetriesUntilExhausted
  BY PlainErrorsAreFinal
  DEF LoopInv, LoopTypes, Counted, EngineTriesOnce, Exhausted, Repeats, IsRetryableError,
      RetriesUntilExhausted
<1> QED BY <1>1, LoopInvariant, PTL

(* Whichever of the three configurations is used and whatever the jitter,  *)
(* the delays of a call grow and none is zero or exceeds the maximum: for  *)
(* none of them can the jitter, added after the cap, carry a delay past it.*)
THEOREM DelaysGrow == Spec => []DelaysGrowWithinTheCap
<1>1. LoopInv => DelaysGrowWithinTheCap
  <2> SUFFICES ASSUME LoopInv PROVE DelaysGrowWithinTheCap
    OBVIOUS
  <2>1. \A i \in DOMAIN delays : i \in 1 .. RetryConfig[config].maxAttempts - 1
    BY MaxAttemptsIsPositive DEF LoopInv, LoopTypes, Counted, MaxAttempts
  <2>2. config \in DOMAIN RetryConfig
    BY DEF LoopInv, LoopTypes
  <2>3. ASSUME NEW i \in DOMAIN delays
        PROVE  delays[i] \in 1 .. RetryConfig[config].maxDelayMs
    BY <2>1, <2>2, DelayBounds DEF LoopInv, Drawn
  <2>4. ASSUME NEW i \in DOMAIN delays, NEW j \in DOMAIN delays, i < j
        PROVE  delays[i] <= delays[j]
    <3>1. i \in 1 .. j - 1
      BY <2>1, <2>4, MaxAttemptsIsPositive, <2>2
    <3> QED BY <2>1, <2>2, <3>1, DelaysOrdered DEF LoopInv, Drawn
  <2> QED BY <2>3, <2>4 DEF DelaysGrowWithinTheCap
<1> QED BY <1>1, LoopInvariant, PTL

-----------------------------------------------------------------------------
(* The choice of the router.                                               *)

LEMMA DexesAre ==
  /\ Len(Dexes) = 2 /\ Dexes[1] = "raydium" /\ Dexes[2] = "meteora"
  /\ ToSet(Dexes) = {"raydium", "meteora"}
BY DEF Dexes, ToSet

(* The recursive function exists: it is the one that takes the first       *)
(* answer, if there is one, and then weighs the second against it.         *)
LEMMA BestOfFirstIs ==
  ASSUME NEW given, NEW p
  PROVE  LET best == BestOfFirst(given, p) IN
         /\ best[0] = NoQuote
         /\ \A i \in 1 .. Len(Dexes) : best[i] = Preferred(p, given[Dexes[i]], best[i - 1])
<1> DEFINE one == Preferred(p, given[Dexes[1]], NoQuote)
           two == Preferred(p, given[Dexes[2]], one)
           f0 == [i \in 0 .. Len(Dexes) |-> IF i = 0 THEN NoQuote ELSE IF i = 1 THEN one ELSE two]
           Solves(f) == f = [i \in 0 .. Len(Dexes) |->
             IF i = 0 THEN NoQuote ELSE Preferred(p, given[Dexes[i]], f[i - 1])]
<1>1. Solves(f0)
  <2>1. \A i \in 0 .. Len(Dexes) :
          f0[i] = IF i = 0 THEN NoQuote ELSE Preferred(p, given[Dexes[i]], f0[i - 1])
    BY DexesAre
  <2> QED BY <2>1
<1>2. BestOfFirst(given, p) = CHOOSE f : Solves(f)
  BY DEF BestOfFirst
<1>3. Solves(BestOfFirst(given, p))
  <2> HIDE DEF Solves, f0
  <2> QED BY <1>1, <1>2
<1> QED BY <1>3, DexesAre

Measured == [dex : ToSet(Dexes), price : Int, priceImpact : Int, liquidity : Int]

LEMMA QuotesMeasured == Quotes \subseteq Measured
<1> SUFFICES ASSUME NEW dex \in ToSet(Dexes), NEW amount \in Lots
             PROVE  Quote(dex, amount) \in Measured
  BY DEF Quotes
<1>1. amount \in Nat
  BY LotsAssumption
<1> QED BY <1>1 DEF Quote, Measured, Smaller

LEMMA NotAQuote ==
  NoQuote \notin Measured /\ Pending \notin Measured /\ Pending # NoQuote
BY DexesAre DEF NoQuote, Pending, Measured

\* a is at least as good as b by the measure of the priority.
AtLeast(p, a, b) ==
  CASE p = "lowest_impact" -> a.priceImpact <= b.priceImpact
    [] p = "most_liquid"   -> a.liquidity >= b.liquidity
    [] OTHER               -> a.price >= b.price

(* One weighing: the winner is one of the two and at least as good as each *)
(* of them that is a quote.                                                *)
LEMMA PreferredIsBetter ==
  ASSUME NEW p, NEW q \in Measured \cup {NoQuote}, NEW best \in Measured \cup {NoQuote}
  PROVE  LET w == Preferred(p, q, best) IN
         /\ w \in {q, best}
         /\ q # NoQuote => w # NoQuote /\ AtLeast(p, w, q)
         /\ best # NoQuote => w # NoQuote /\ AtLeast(p, w, best)
BY NotAQuote DEF Preferred, Better, AtLeast, Measured

LEMMA AtLeastTransitive ==
  ASSUME NEW p, NEW a \in Measured, NEW b \in Measured, NEW c \in Measured,
         AtLeast(p, a, b), AtLeast(p, b, c)
  PROVE  AtLeast(p, a, c)
BY DEF AtLeast, Measured

(* BestQuote finds a quote whenever there is one, and no answer is better. *)
LEMMA BestQuoteIsBest ==
  ASSUME NEW given \in [ToSet(Dexes) -> Quotes \cup {NoQuote}], NEW p
  PROVE  LET best == BestQuote(given, p) IN
         /\ \E d \in ToSet(Dexes) : best = given[d]
         /\ \A d \in ToSet(Dexes) :
              given[d] # NoQuote => best # NoQuote /\ AtLeast(p, best, given[d])
<1> DEFINE r   == given["raydium"]
           m   == given["meteora"]
           one == Preferred(p, r, NoQuote)
           two == Preferred(p, m, one)
<1>1. /\ r \in Measured \cup {NoQuote} /\ m \in Measured \cup {NoQuote}
      /\ NoQuote \in Measured \cup {NoQuote}
  BY DexesAre, QuotesMeasured
<1>2. BestQuote(given, p) = two
  <2>1. 1 \in 1 .. Len(Dexes) /\ 2 \in 1 .. Len(Dexes) /\ 1 - 1 = 0 /\ 2 - 1 = 1
    BY DexesAre
  <2> QED BY <2>1, BestOfFirstIs, DexesAre DEF BestQuote
<1> HIDE DEF r, m
<1>3. /\ one \in {r, NoQuote} /\ (r # NoQuote => one # NoQuote /\ AtLeast(p, one, r))
      /\ one \in Measured \cup {NoQuote}
  BY <1>1, PreferredIsBetter
<1> HIDE DEF one
<1>4. /\ two \in {m, one} /\ two \in Measured \cup {NoQuote}
      /\ m # NoQuote => two # NoQuote /\ AtLeast(p, two, m)
      /\ one # NoQuote => two # NoQuote /\ AtLeast(p, two, one)
  BY <1>1, <1>3, PreferredIsBetter
<1> HIDE DEF two
<1>5. r # NoQuote => two # NoQuote /\ AtLeast(p, two, r)
  BY <1>1, <1>3, <1>4, AtLeastTransitive
<1>6. two \in {m, r}
  BY <1>3, <1>4, <1>5
<1> QED BY <1>2, <1>4, <1>5, <1>6, DexesAre DEF r, m

LEMMA InitRouteInv == Init => RouteInv
<1> SUFFICES ASSUME Init PROVE RouteInv
  OBVIOUS
<1>1. chosen = NoQuote /\ pc # "done" /\ answers = [d \in ToSet(Dexes) |-> Pending]
  BY DEF Init
<1> QED BY <1>1 DEF RouteInv, AnswerTypes, Routed

(* The race is won by the last answer or by the timer; after that answers  *)
(* come in, if any are out, but the choice has been made.                  *)
LEMMA NextRouteInv == LoopInv /\ RouteInv /\ [Next]_vars => RouteInv'
<1> SUFFICES ASSUME LoopInv, RouteInv, [Next]_vars PROVE RouteInv'
  OBVIOUS
<1>1. ASSUME UNCHANGED <<answers, chosen>>, ~Routed, ~Routed' PROVE RouteInv'
  BY <1>1 DEF RouteInv, AnswerTypes
<1>2. CASE DirectAttempt \/ UntilAttempt
  <2>1. use # "engine" /\ use' = use /\ UNCHANGED <<answers, chosen>>
    BY <1>2 DEF DirectAttempt, UntilAttempt, Attempted
  <2> QED BY <1>1, <2>1 DEF Routed
<1>3. CASE RetryDelayOver
  BY <1>1, <1>3 DEF RetryDelayOver, Routed
<1>4. CASE RoutingTimeout
  <2>1. pc = "calling" /\ outcome' = "Error" /\ UNCHANGED <<answers, chosen>>
    BY <1>4 DEF RoutingTimeout, Attempted
  <2> QED BY <1>1, <2>1 DEF Routed
<1>5. ASSUME NEW d \in ToSet(Dexes), FetcherAnswers(d) PROVE RouteInv'
  <2>1. PICK q \in {Quote(d, lots), NoQuote} : answers' = [answers EXCEPT ![d] = q]
    BY <1>5 DEF FetcherAnswers
  <2>2. q \in Quotes \cup {NoQuote}
    BY <2>1 DEF Quotes, LoopInv, LoopTypes
  <2>3. answers' \in [ToSet(Dexes) -> Quotes \cup {Pending, NoQuote}] /\ ~Routed
    BY <1>5, <2>1, <2>2 DEF FetcherAnswers, RouteInv, AnswerTypes
  <2>4. CASE pc = "calling" /\ \A e \in ToSet(Dexes) : answers'[e] # Pending
    <3>1. chosen' = BestQuote(answers', "best_price") /\ Attempted("ok")
      BY <1>5, <2>4 DEF FetcherAnswers
    <3>2. use' = "engine" /\ pc' = "done" /\ outcome' = "ok"
      BY <1>5, <3>1, PlainErrorsAreFinal
      DEF FetcherAnswers, Attempted, ShouldRetry, Repeats, IsRetryableError
    <3>3. answers' \in [ToSet(Dexes) -> Quotes \cup {NoQuote}]
      BY <2>3, <2>4
    <3>4. \E e \in ToSet(Dexes) : chosen' = answers'[e]
      BY <3>1, <3>3, BestQuoteIsBest
    <3> QED BY <2>3, <2>4, <3>1, <3>2, <3>3, <3>4 DEF RouteInv, AnswerTypes, Routed
  <2>5. CASE ~(pc = "calling" /\ \A e \in ToSet(Dexes) : answers'[e] # Pending)
    BY <1>5, <2>3, <2>5 DEF FetcherAnswers, RouteInv, AnswerTypes, Routed
  <2> QED BY <2>4, <2>5
<1>6. CASE UNCHANGED vars
  BY <1>6 DEF vars, RouteInv, AnswerTypes, Routed
<1> QED BY <1>2, <1>3, <1>4, <1>5, <1>6 DEF Next

LEMMA RouteInvariant == Spec => [](LoopInv /\ RouteInv)
BY InitRouteInv, NextRouteInv, LoopInvariant, PTL DEF Spec

-----------------------------------------------------------------------------
(* Every variable keeps its type: in particular the delays are numbers,    *)
(* also where the multiplier is a fraction, and the choice is a quote that *)
(* a fetcher gave for the amount of the order, or none.                    *)
THEOREM TypeCorrect == Spec => []TypeOK
<1>1. LoopInv /\ RouteInv => TypeOK
  BY DEF LoopInv, LoopTypes, RouteInv, AnswerTypes, TypeOK
<1> QED BY <1>1, RouteInvariant, PTL

(* For every set of amounts, every order of answers and every priority the *)
(* router's choice is an answer that no other answer beats, there is one   *)
(* whenever any fetcher has a quote, and the engine never goes on with a   *)
(* quote when the timer has won.                                           *)
THEOREM BestAnswerChosen == Spec => []RoutesToTheBestAnswer
<1>1. LoopInv /\ RouteInv => RoutesToTheBestAnswer
  <2> SUFFICES ASSUME LoopInv, RouteInv PROVE RoutesToTheBestAnswer
    OBVIOUS
  <2>1. DOMAIN answers = ToSet(Dexes)
    BY DEF RouteInv, AnswerTypes
  <2>2. ASSUME Routed
        PROVE  answers \in [ToSet(Dexes) -> Quotes \cup {NoQuote}]
    BY <2>2 DEF RouteInv, AnswerTypes
  <2>3. ASSUME Routed, NEW p
        PROVE  LET best == BestQuote(answers, p) IN
               /\ \E d \in DOMAIN answers : best = answers[d]
               /\ \A d \in DOMAIN answers :
                    answers[d] # NoQuote => best # NoQuote /\ AtLeast(p, best, answers[d])
    BY <2>1, <2>2, <2>3, BestQuoteIsBest
  <2>4. ASSUME chosen # NoQuote
        PROVE  /\ pc = "done" /\ outcome = "ok"
               /\ \A d \in DOMAIN answers :
                    answers[d] \notin {Pending, NoQuote} => answers[d].price <= chosen.price
               /\ chosen \in {answers[d] : d \in DOMAIN answers}
    <3>1. Routed /\ chosen = BestQuote(answers, "best_price")
      BY <2>4 DEF RouteInv
    <3>2. ASSUME NEW d \in DOMAIN answers, answers[d] # NoQuote
          PROVE  answers[d].price <= chosen.price
      <4>1. AtLeast("best_price", chosen, answers[d])
        BY <2>3, <3>1, <3>2
      <4>2. answers[d] \in Measured /\ chosen \in Measured
        BY <2>1, <2>2, <2>4, <3>1, <3>2, QuotesMeasured DEF RouteInv, AnswerTypes
      <4> QED BY <4>1, <4>2 DEF AtLeast, Measured
    <3>3. \E d \in DOMAIN answers : chosen = answers[d]
      BY <2>3, <3>1
    <3> QED BY <3>1, <3>2, <3>3 DEF Routed
  <2>5. ASSUME Routed, NEW p \in Priorities, NEW d \in DOMAIN answers, answers[d] # NoQuote
        PROVE  LET best == BestQuote(answers, p) IN
               /\ best # NoQuote
               /\ p = "lowest_impact" => best.priceImpact <= answers[d].priceImpact
               /\ p = "most_liquid" => best.liquidity >= answers[d].liquidity
    BY <2>3, <2>5 DEF AtLeast
  <2> QED BY <2>4, <2>5 DEF RoutesToTheBestAnswer, Routed
<1> QED BY <1>1, RouteInvariant, PTL

(* For every amount, also between and beyond the caps of the two price     *)
(* impacts, Raydium's simulated price is the higher one: the router gives  *)
(* Meteora an order only when Raydium has not answered it.                 *)
THEOREM RaydiumPaysMore ==
  \A amount \in Nat : Quote("raydium", amount).price > Quote("meteora", amount).price
<1> SUFFICES ASSUME NEW amount \in Nat
             PROVE  Quote("raydium", amount).price > Quote("meteora", amount).price
  OBVIOUS
<1>1. Quote("raydium", amount).price = 99750 * (10000 - Smaller(3 * amount, 200))
  BY DEF Quote
<1>2. Quote("meteora", amount).price = 98703 * (10000 - Smaller(2 * amount, 100))
  BY DEF Quote
<1> QED BY <1>1, <1>2 DEF Smaller
=============================================================================
