# A TLA+ model of the Order Execution Engine

TLA+ modules, TLC configurations and TLAPS proofs about the order execution
engine in this repository (`src/src/...` below). `PROJECT.json` maps every
definition to the lines it models and lists runs, mutants, findings, hazards and
theorems. This file explains how to read them.

## The system

The program is a single Node process: code runs to completion between two
`await`s, timers or callbacks, and everything interleaves there. That rule fixes
the grain of all modules: **one action is the code between two awaits, across
the functions it calls**.

| component | state it keeps | operations that change it | interacts with |
|---|---|---|---|
| order queue (`queue/`) | four job maps, job state, `retryInfo`, circuit breaker, statistics, two intervals | `addOrder`, `getNextJob`/`startProcessing` (a tick), `completeJob`, `failJob`, `removeJob`, `cancelOrder`, `processRetries`, `initialize`, `shutdown`, `resetCircuitBreaker` | awaits the router in `executeOrder`; calls listeners of `queueEvent` synchronously |
| execution engine (`execution/engine.ts`) | map of contexts, statistics with `stateDistribution` and an average | `executeOrder` and its stages, `handleExecutionError`, `reset` | awaits the router (raced with a timer) and simulated delays; calls listeners of `execution_event` synchronously |
| error handler (`execution/error-handler.ts`) | a log of errors | `handle*Error` | `routeOrder` makes one entry, nothing reads it |
| WebSocket manager (`websocket/manager.ts`) | sessions, subscriptions by session and by order, one heartbeat interval per client, sequence number, statistics | `registerClient`, message/close/pong handlers, broadcasts, heartbeat, `disconnectClient`, `reset` | sockets |
| WebSocket handlers (`websocket/handlers.ts`) | none | forwards engine events to broadcasts | engine, manager |
| REST API (`api/`) | none | `POST /api/orders/execute`, `GET /api/orders`, `GET /api/orders/:id` | engine, manager |
| DEX router, pricing (`router/`) | none | `routeOrder`: quotes of all fetchers, choice by priority | fetchers |
| retry (`utils/retry.ts`, `utils/errors.ts`) | none | `retry`, `retryUntil`, classification of errors | engine |
| pub/sub (`cache/pubsub.ts`, `cache/redis.ts`) | handler sets per channel, message listeners | subscribe and unsubscribe across awaits, publish | Redis |
| caches (`cache/strategies/`) | Redis keys | cached orders, prices, subscriptions | Redis |
| persistence (`persistence/`) | connection pool, database rows | `query`, `transaction`, `initialize`, `OrderQueries` | PostgreSQL |
| metrics, logger, config, startup | counters, files, environment | | |

`index.ts` wires router, engine, WebSocket manager and API server. The queue,
the caches and the persistence layer are complete components with tests of
their own that no code wires.

### What is hard here, and what makes each component correct

* **Queue.** Ticks are not awaited, so executions overlap; a cancellation, a
  retry check or a shutdown falls between any two steps of an execution; late
  answers arrive for jobs that are gone. Correct means: maps and states agree,
  slots and executions correspond, the limit holds, nobody is overtaken, the
  retry budget is exact, settled jobs stay settled, nothing is lost, statistics
  and breaker describe what happened.
* **Engine.** Overlapping executions share statistics; the routing timer races
  the router; listeners that throw unwind a stage half way. Correct means: every
  call ends with one settlement, events tell the state in order, totals and
  distribution agree with the contexts.
* **WebSocket manager.** Two indexes of the same subscriptions; a client can be
  dropped by its heartbeat before, after or without its close event; its socket
  keeps talking. Correct means: the indexes agree, statistics count sessions,
  a dropped client stays out, silent peers are found.
* **API with engine and manager.** An order's id is known only after its first
  events were broadcast; subscriptions race the execution. Correct means: who is
  subscribed misses nothing, the last message tells the state, the outcome is
  heard.
* **Router and retry.** Fetchers answer in any order, late or never; jitter is
  added after the cap. Correct means: the best answer wins, retries are made
  exactly when they should be, every call ends.
* **Pub/sub.** Handler sets are changed before and after an `await`, while
  calls for other handlers go on and commands fail. Correct means: who has
  subscribed is registered, the channel is subscribed, nothing is missed but
  what another handler's exception cuts off.
* **Persistence.** Every query takes a client of its own from a bounded pool,
  inside transactions too; anything can fail before or after its effect, and a
  callback may catch what has failed. Correct means: no client and no lock is
  lost, no committed increment is lost, nobody waits for ever.

## Modules

| module | role |
|---|---|
| `OrderQueue` | the queue manager, the job processor and the facade |
| `JobLifecycle` | abstract specification of what the queue promises about a job |
| `ExecutionEngine` | `executeOrder`, its events and statistics |
| `WebSocketManager` | sessions, subscriptions, broadcasts, heartbeats |
| `OrderService` | composition: API routes, `ExecutionEngine`, `WebSocketHandlers`, `WebSocketManager` |
| `OrderFeed` | abstract specification of what the service promises those who follow an order |
| `OrderRouting` | `retry` around the engine's race of router and timer, or `retry` and `retryUntil` around a caller's function |
| `PubSub` | the handlers of one Redis channel and the connection they share |
| `OrderStore` | the pool, transactions and the queries on one order |
| `XProofs` | theorems about `X`, for all of these but `JobLifecycle` and `OrderFeed`; `OrderServiceProofs` uses those about its parts |
| `MCX` | instance of `X` for TLC: sets of calls and amounts, symmetry |

Definitions named `X_Suffix` under the comment "Faulty variant" are not part of
the model: each is the definition `X` with a plausible mistake, and the property
PROJECT.json pairs it with (under "mutants") is violated when it takes the place
of `X`.

### OrderQueue

The four maps are the sets of their keys; the fields of a job are functions on
job ids. A job id stands for one successful call of `addOrder` (`uuidv4`); no
decision of the queue looks at the order inside. `phase` says where the
execution of a job is awaiting: the router (`routing`) or the simulated execution
(`simulating`). `startProcessing`, `completeJob`, `failJob` and `removeJob` are
`async` but contain no await; they are atomic with their callers.

* `AddOrder`: the breaker's guard, a fresh job with any priority. `createdAt`
  has millisecond resolution: `clock` advances by 0 or 1 between submissions.
* `ProcessNextJob`: one tick, from `getNextJob` to the first await of the
  execution. Jobs the comparator does not tell apart start in either order.
* `CompleteJob`, `FailJob`: the end of an execution, with `JobNotFound` when the
  job was removed meanwhile. `FailFound` splits into `ScheduleRetry` and
  `FailPermanently` by `retryInfo.attempt`, which starts at 0.
* `AfterFailure` keeps the code's order of assignments: `successCount` is
  zeroed before the failure rate is computed.
* `BackoffElapses` is the passing of `nextRetryAt`; `ProcessRetries` the retry
  check of any live interval. `retryTimers` counts live intervals, since
  `initialize` creates one even if the processor is running. It does so after
  an await (`Initialize`, then `StartsRetryChecks`), so a shutdown in between
  is followed by an interval; `handleLive` says whether the handle the facade
  keeps is that of a live one.
* `removeJob` and `resetCircuitBreaker`, which the facade does not call by
  themselves, are enabled by `ManagerCalls`; listeners of `queueEvent` that
  throw by `ListenerMayThrow`. A throw in `addOrder`, `completeJob` or `failJob`
  happens after all state has changed and only alters the result of the call; a
  throw in `startProcessing` leaves the job in `processingJobs` unexecuted.

Left out: processing times, payloads, `processingResult`, and the listings,
which only read. `jobTimeoutMs` is never read by the code.

### ExecutionEngine

An execution id stands for one call of `executeOrder`. `pc` is what it awaits,
or how its promise ended; `state` is `context.state`, which outlives the map
entry when `reset` clears the map; `events` is what it has emitted (both emits
of `emitEvent` count as one event). Routing appears here by its outcomes in
`RouteOrder` (a quote in time) and `RoutingFails` (no quote, a timeout, a
rejection); how it gets there, and why it is never retried, is `OrderRouting`.

A listener that throws unwinds to the `try` of the stage and then of
`executeOrder`: `Fails` and `Confirm` enumerate how often
`handleExecutionError` runs and whether the promise rejects.
`averageExecutionTime` is kept as a fraction; a denominator of 0 stands for the
`Infinity` or `NaN` a division by zero leaves behind. `ListedWithStatus` and
`ListedWithoutStatus` say how many orders of a state `GET /api/orders` returns:
`slice` cuts each state to the limit by itself (50 by default, at most 100, and
a negative one cuts from the end). With a status the route does not look at the
distribution, without one it does, so only there could its drift hide an order.

### WebSocketManager

A client id stands for one connection. `subscriptions` of the code is the pair
`topics` (keys) and `subscribers` (values), so that a key left behind with an
empty set would show. `heartbeatIntervals` are the keys of the map of intervals,
`ticking` the intervals that are live: the two differ after a ping that threw,
which `pingThrew` remembers (history).
`readyState` and `silent` are the sockets and the peers, outside the code; a
silent peer sends nothing any more, no close event either. Sequence numbers are
told apart up to `MaxSequence`.

Left out: the counters of messages, and `broadcastToAll`, whose messages carry
no number of the manager.

### OrderService

The engine and the manager are instances of their modules over the variables
declared here; the routes and `WebSocketHandlers` connect them. A stage of the
engine emits its events synchronously, so `Advance` is one step of the engine
(`Engine!Stage`) together with the broadcasts of what it has appended to
`events`; `Forwarded` goes through these one by one and drops `building`, which no
case of `handleExecutionEvent` names. `PostOrder` runs `executeOrder` to its first await and then
broadcasts `PENDING` once more, as the route does. A client can subscribe to an
order only after the route has answered with its id: `OrderFeed` says what that
amounts to, a log per order that readers follow from some point on. `told` (what a client got
about an order since it subscribed) and `before` (how much had been emitted by
then) are history.

### OrderRouting

One call of `retry` or `retryUntil`. The engine's attempt is
the race of `routeOrder` with a timer: fetchers answer in any order
(`FetcherAnswers`), a late answer has no effect, and the timer's `undefined`
becomes a plain `Error`, which is not retryable (`RoutingTimeout`). The two
fetchers of the repository have no timer, `simulateQuote` answers within the same
turn of the event loop; a pending fetcher stands for the remote service the
engine's timer is written for. A direct
caller's function returns or throws any error class of `utils/errors`; that of
`retryUntil` may also return what its predicate refuses, and every failure is
repeated (`Repeats`), permanent errors included. `BestOfFirst` is the `reduce` of
the choice, fetcher by fetcher, with the answers that are none left out. The
configurations are those of the source; of the random jitter its two extremes
and the middle are kept. Quotes are computed as in the fetchers' `simulateQuote`,
in integers: the price impact in basis points for amounts that are multiples of
300 tokens, and prices in units that make every product exact.

### PubSub

One channel: channels share only their connection, and the price methods repeat
the order methods. `present` and `handlers` are the entry of the map, `listeners`
the `message` listeners that `RedisClient.subscribe` adds and nobody removes,
`pc` what the last call about a handler awaits. The connection is modelled from
its use: commands reach the server in order, answers and messages return in
order on one stream, and a call resumes one step after its answer arrived, since
the messages in the same piece of data are handled first. A command that fails
is logged by `RedisClient` and the caller goes on. A handler that throws ends
the loop over the set and the error ends in the listener: `Called` leaves open
who was called before. `deaf`, `raced`, `emptied`
and `missed` are history: they name the circumstances under which a promise of
the code ends.

### OrderStore

`queue` and `checkedOut` are the `pg` pool: callers wait in turn, a caller that
waited `connectionTimeoutMillis` is rejected. `db.query` (`Query`) takes a
client for one statement; `transaction` (`Transaction` to `Releases`) holds one
from `BEGIN` to `finally`, and its callback may query on that client
(`ClientQuery`) or through `OrderQueries` (`Query` again), which takes a second
one. Of the row `current_attempt` is kept, as committed (`row`) and as the
transaction that has locked it sees it (`written`). Every query and `COMMIT` may
fail before or after its effect. When a query on the client of a transaction
fails (`ClientQueryFails`), the server has refused it and undone the transaction,
or the connection is broken and the locks last until the server notices
(`health`); the callback may let the error pass or catch it and go on.
`COMMIT` of an aborted transaction is answered without an error and commits
nothing (`Commit`). `initialize` runs on a client of its own without `BEGIN`:
`CreatesOrdersTable` is its first statement; the others, whose `CREATE INDEX` locks
`orders` in SHARE mode, wait for the transactions that have run an `UPDATE`
(`touched`). That later writes would wait behind it is left out. `known` is
history: the attempts that must be in the row, as told to callers whose query
stood alone or whose transaction committed. Status columns are left out because
the code reads none before it writes it.

## Runs

Runs of expectation "violation" check one property each that restates a comment
or document of the repository; they are the findings of PROJECT.json.

| run | instance | shows |
|---|---|---|
| `queue_safety` | 3 jobs, 2 slots, 1 retry, 2 priorities, facade only | slots and executions correspond, concurrency limit, first come first served, one permanent failure closes admission, `JobLifecycle` is implemented |
| `queue_direct` | 2 jobs, 1 slot, 2 retries, manager calls, throwing listeners, fair | maps and states, retry budget, statistics, finality, submitted jobs settle |
| `queue_breaker_rate` | 3 jobs, 1 slot | finding: one permanent failure opens the breaker |
| `engine_safety` | 4 executions, 2 durations | totals, distribution, listings under limits from -4 to 4, average |
| `engine_listener` | 2 executions, resets, throwing listeners, fair | order and meaning of events, finality, every call ends |
| `socket_safety` | 3 clients, 2 orders, 1 subscription each, throwing pings, resets, numbers up to 2 | indexes, statistics, intervals, dropped clients, numbers grow |
| `service` | 2 orders, 2 clients, 1 subscription each, fair | a subscriber misses nothing, knows the state, hears the outcome; silent clients are dropped |
| `service_lookup` | 1 order, 1 client | finding: `GET /api/orders/:orderId` finds no order by the id `POST` returned |
| `pubsub` | 3 handlers, 1 message on the wire, failing commands, throwing handlers, fair | open channels are subscribed, subscribers are registered and miss only what an exception cuts off, messages are passed on once, calls end |
| `routing` | 7 amounts around the caps of the price impact, all configurations, fair | retries and delays, choice of the best answer, every call ends |
| `routing_timeout` | the same without fairness | finding: the engine's first routing timeout is final |
| `store` | 2 callers, pool of 2, attempts up to 3, fair | clients, locks and increments are kept, calls end |

Disagreements noticed while modelling that no run shows:

* the first backoff is half the documented one (the exponent starts at -1), and
  a retry does not wait for `nextRetryAt` (`queue/types.ts:29`);
* a configured `maxRetries` of 0 becomes 3 (`||`), and the same order may be
  queued twice;
* the confirmation takes the execution off `PENDING` instead of `SUBMITTED`
  (`execution/engine.ts:127`), so `PENDING` becomes negative;
* the average falls below the fastest execution while others are in flight, and
  a listener that throws at the confirmation makes an execution count as
  successful and as failed;
* `ARCHITECTURE.md:179` says "Network errors: Retryable" and `:181`
  "Insufficient liquidity: Permanent failure", and the comment at `engine.ts:203`
  announces a retry with exponential backoff: all an engine's attempt can throw
  is a plain `Error`, never retried (fetchers turn their errors into "no quote"),
  while `InsufficientLiquidityError` is repeated like a network error
  (`errors.ts:173`). `RetriesUntilExhausted` states what the code does; of the
  list only "Timeout: Retryable" has a run (`routing_timeout`). The third delay
  of the comment at `retry.ts:15` is never reached, as the third attempt is the
  last;
* `API.md:137` gives `limit` a default of 100 and a maximum of 1000; the route
  has 50 and 100, applies it to each state by itself when no status is given,
  lets a negative one cut from the end, and reports as `total` what is left after
  the cut (`orders.ts:140-182`);
* `database.ts:225` says `transaction` "commits or rolls back based on callback
  result": a callback that catches the failure of a query of its client and
  returns makes it resolve although nothing was committed;
* an exception of one handler of a channel keeps the message from the handlers
  after it and is logged as "Failed to parse message" (`redis.ts:217`);
* a shutdown that falls into the await of `initialize` is followed by the retry
  interval it should have stopped;
* a listener that throws in `startProcessing` costs a slot for good (`Stranded`);
* `heartbeat.timeout` (`websocket/types.ts:72`) is not used, and the heartbeat
  message of `API.md:301` is answered with an error;
* the comment of `BEST_PRICE` says "Minimize output amount" where the code
  maximises it, and Meteora's "slightly better" rate
  (`meteora-fetcher.ts:120`) never wins (`RaydiumPaysMore`);
* the `timeout` parameter of `db.query` (`database.ts:193`) is unused, so a
  callback that updates through `OrderQueries` a row its own transaction has
  locked waits for itself: with `MayBlockItself` TRUE, `CallsEnd` of
  `OrderStore` does not hold;
* the TTL `ACTIVE_ORDERS` (`cache/constants.ts:37`) is never applied.

**Bounds.** Three jobs with two slots are the least at which one job waits while
two run; two jobs with one slot make each wait for the other. One retry reaches
"first failure" and "budget used up", two reach "a retry fails and is repeated".
`MaxRetryTimers` is 1 in all runs: further intervals repeat `ProcessRetries`,
whose effect does not depend on their number. Two priorities among three jobs
give an overtaking job and one that must not overtake; `queue_direct` has all
three. `queue_breaker_rate` needs three jobs, two of which succeed before the
third fails. None of the three configurations of `retry` reaches its cap (the
longest delay is 8100 of 10000 ms), so that `DelaysGrowWithinTheCap` says nothing
of others, whose jitter may carry a delay past it. Four executions put one into each
of the engine's awaits at once. Two orders with room for one subscription reach
the limit, and a third client shares an order with one and not with the other.
Two clients and two orders in `service` give an order with two subscribers and a
client that has to choose. Three handlers let a second join while the first
awaits the server and a third leave; `MaxListeners` 2 tells "twice" from "once".
Two callers with two clients exhaust the pool with transactions that both need a
second client; three attempts reach a counter lowered below two increments. The
amounts lie below, between, at and above the caps at 50 and 67 lots. Every job,
execution and client id is used once, so runs end: they check deadlock only where
timers, restarts or new calls can always happen.

**Fairness.** `OrderQueue`: the 100 ms interval of a running processor keeps
firing (weak fairness of the tick) and the promises an execution awaits settle
(weak fairness of each execution); the code has no job timeout, so the second is
an assumption about the router, whose two fetchers answer at once
(`simulateQuote` has no timer) and whose remote successors would have to answer.
No fairness is assumed of submissions, retry checks, cancellations or restarts,
and the property excuses a stopped processor and what waits while a throwing
listener's job is stranded. `ExecutionEngine`: every stage awaits a timer, or a
race with one. `OrderService`: the same, and an
interval that is not cleared keeps firing; nothing is assumed of clients.
`OrderRouting`: timers fire and the functions of other callers settle; fetchers
need not answer. `PubSub`: the connection makes progress in both directions and
a call whose answer has arrived goes on; publishers and callers may stop.
`OrderStore`: the pool's timer fires, the server answers `COMMIT` and `ROLLBACK`
(weak fairness); it answers a query that is again and again free of locks, `initialize`
included, and a callback makes finitely many queries (strong fairness, since another caller may
take the row, or the callback may query once more, in between). Granting a
client needs no fairness: who waits too long is rejected.

## Proofs

TLAPS proves the following for every number of jobs, executions, clients,
orders, handlers and callers and every configuration allowed by the modules'
assumptions: finitely many jobs, executions, clients, orders and callers (totals
are cardinalities), natural numbers for limits, durations and amounts, and names
for "nobody" that are nobody's.

**`OrderQueueProofs`**

| theorem | what is proved |
|---|---|
| `TypeCorrect` | `[]TypeOK` |
| `PlacementCorrect` | the four maps are disjoint and agree with the states (`PlacementMatchesState`) |
| `SlotsCorrect`, `ConcurrencyLimited` | slots and executions correspond; at most `maxConcurrentJobs` of them |
| `RetryBudgetKept` | a job fails exactly when first attempt and retries are used up |
| `StatsCorrect` | the statistics count the settled jobs and every retry once (`StatsAccountForJobs`) |
| `SettledStaysSettled` | a settled or removed job never changes |
| `BreakerCorrect` | the breaker's counts describe the last run of equal outcomes |
| `OneFailureCloses` | after a permanent failure nothing is admitted (`OneFailureStopsAdmission`) |
| `ServedInOrder` | no first start overtakes an older job of at least that priority (`FirstComeFirstServed`) |
| `QueueImplementsJobLifecycle` | `Spec => ImplementsJobLifecycle`, if `removeJob` is not called behind the facade's back |

The inductive invariant is `QueueInv == TypeInv /\ PlacementMatchesState /\
SlotInv`. `TypeInv` adds to the types that the handle `shutdown` clears is that
of a live interval (`handleLive`), without which it could take `retryTimers`
below 0. The
placement is inductive on these types. `SlotInv` is `SlotsMatchExecutions` with
a bound on the slots, `|processingJobs| <= maxConcurrentJobs`: that bound is
what `HasCapacity` tests and a tick preserves, and the limit on executions
follows because each of them holds a slot. It is not inductive by itself: an
execution whose job lost its slot would not be counted when the next tick looks
for capacity. A cancellation keeps it because, by the placement, a job in
`pending` or `retry_pending` holds no slot. The refinement adds `RetryBudget`,
since the abstract job may fail only after `maxRetries + 1` runs. The retries are
counted as the set of pairs of a job and the number of its retry
(`RetriesMade`), so that no sum is needed: scheduling a retry adds the one pair
that was missing, and nothing else, a removal included, changes the set. This
holds because of `RetryBudget`, which ties `attempt` to the state of the job. The
assumption of `QueueImplementsJobLifecycle` is needed: `removeJob` withdraws a running job, which
`JobLifecycle` forbids. `ServedInOrder` is about the whole history and not about
one tick: `ArrivalInv` adds that no job is younger than the last submission and
that who is not submitted had no attempt. A job may then be started for the first
time only by a tick (`OnlyTicksStart`), which takes it from `pendingJobs`, where
the older job waits as well unless it has been started or removed.

**`ExecutionEngineProofs`**

| theorem | what is proved |
|---|---|
| `TypeCorrect` | `[]TypeOK` |
| `AnswersMeanSettled` | `executeOrder` answers only when its order is settled (`EndedMeansSettled`) |
| `SettledStaysSettled` | a settled order never changes and emits nothing more |
| `EventOrder` | events follow the pipeline (`EventsFollowThePipeline`) |
| `ListenersFollow` | the last events tell the state (`ListenersKnowTheState`) |
| `CountersCorrect` | the totals count the executions (`CountersAgree`) |
| `DistributionDrifts` | the distribution is off by the confirmations and nothing else |
| `ListingsCorrect` | and so hides no order: both listings agree under every limit (`ListingsAgree`) |
| `AverageBounded` | the average is within the longest execution |

The inductive invariant is `LifeInv == TypeOK /\ \A e : Life(e)`: `Life` lists,
for each thing an execution can await or have ended with, the one state and the
one prefix of the pipeline that go with it, or says that it has failed after
some prefix. Neither the state nor the events alone are inductive: a step
appends to the events and looks only at `pc`. Each stage is then one lemma about
the next prefix, and a step of one execution leaves the life of the others
alone. `CountersAgree` follows from `CountInv`, which adds that the map of
contexts holds exactly the executions started: a settled state is entered once
because a step requires that the execution has not ended. `DriftInv` states the
distribution as the cardinalities of the states plus the drift, and a step moves
one execution from one of these sets to another. `MeanInv` keeps a time of some
execution that bounds the average, and that an execution under way has no time
yet: the weighted mean of two numbers within a bound is within it, whatever the
weight, and recording a time never takes the longest one away.

**`WebSocketManagerProofs`**

| theorem | what is proved |
|---|---|
| `TypeCorrect` | `[]TypeOK` |
| `IndexesAgree` | both indexes of subscriptions agree (`SubscriptionIndexesAgree`) |
| `StatsCorrect` | the statistics count sessions and subscriptions (`StatsMatchSessions`) |
| `LimitKept` | no session exceeds its limit (`SubscriptionLimit`) |
| `SessionsAreWatched` | every session has a heartbeat interval, live until a ping throws (`ClientsAreWatched`) |
| `NumbersCorrect` | the numbers a client receives grow (`NumbersGrow`) |
| `DroppedClientsStayOut` | a dropped client gets nothing more (`DroppedStaysOut`) |

`IndexInv == Types /\ SessionsHaveSockets /\ SubscriptionIndexesAgree` leaves the
decreasing counters out of the types; that they stay natural numbers follows
from `CountInv == IndexInv /\ StatsMatchSessions`, because each is a cardinality.
`NumberInv` bounds what a client with a session has received by the counter: a
reset sets the counter back, but leaves no session. `LimitInv` is `Types` and
the limit itself. `WatchInv` adds to `ClientsAreWatched` that only clients with a
session are remembered for a ping that threw, so that a client who connects
starts with a live interval.

**`OrderRoutingProofs`**

| theorem | what is proved |
|---|---|
| `RetriesSpent` | retries are made exactly when they should be (`RetriesUntilExhausted`) |
| `DelaysGrow` | the delays grow and stay within the cap (`DelaysGrowWithinTheCap`) |
| `TypeCorrect` | `[]TypeOK` |
| `BestAnswerChosen` | the best of the answers is chosen (`RoutesToTheBestAnswer`) |
| `RaydiumPaysMore` | for every amount Raydium's quote is the higher one |

`LoopInv` counts the delays in every state of the loop, one more while a retry
waits (`Counted`), ties the i-th of them to the i-th attempt (`Drawn`), and keeps
the engine, whose errors are plain, from ever waiting. `DelaysGrow` then needs no
induction of its own: a configuration allows at most five attempts, so the
powers of its multiplier are finitely many numbers (`Backoff`), whose ranges with
jitter do not overlap below the cap (`Jitter`, `DelaysOrdered`). `RouteInv` says
that a quote is chosen only in the step that ends the call in time, and is
`BestQuote` of answers that no longer change. `BestQuoteIsBest` holds for every
priority because what is preferred is at least as good as both candidates
(`PreferredIsBetter`), and that relation is transitive. `RaydiumPaysMore` is
arithmetic on `Quote` for all amounts, also those between and beyond the caps:
Meteora gets an order only if Raydium has no quote.

**`PubSubProofs`**

| theorem | what is proved |
|---|---|
| `TypeCorrect` | `[]TypeOK` |
| `OpenChannelReached` | an open channel is subscribed and listened to (`OpenChannelIsReached`) |
| `SubscribersRegistered` | the handlers in the set are those subscribed (`SubscribersAreRegistered`) |
| `PassedOnceUntilEmptied` | one listener until the first `UNSUBSCRIBE` (`PassedOnce`) |
| `MessagesReachSubscribers` | no message is missed but by another handler's exception (`MissedOnlyIfCutOff`) |

All rest on `WireInv`: the wire carries at most one thing for a call, its command
or the answer to it, and only while the call waits for it. `ReachInv` says what
brings an open channel to its subscription: a `SUBSCRIBE` still under way, or the
server's subscription with a listener or a call about to add one. It is needed
because the handlers who join do not ask the server themselves. `RegisterInv`
says that without a race calls that join the channel and calls that leave it
exclude each other, `OnceInv` that before the first `UNSUBSCRIBE` at most one
call awaits a `SUBSCRIBE`; `DeliveryInv` follows a message on the wire to the
handlers it was meant for, whose listener exists when it arrives.

**`OrderStoreProofs`**

| theorem | what is proved |
|---|---|
| `TypeCorrect` | `[]TypeOK` |
| `LocksEnd` | no lock outlives its transaction (`LocksEndWithTransactions`) |
| `IncrementsKept` | increments that returned alone or were committed are in the row (`IncrementsAreNeverLost`) |
| `ClientsKept` | the pool's accounts are right (`ClientsAccounted`) |

`IInv` joins the first two: who is past the connect of a transaction holds its
client (`InTransaction`), the statements of a transaction never lower the counter
(`OwnStatements`), and the locked row only grows in the eyes of its transaction
(`LockedRowGrows`), so a commit cannot undo what others were told. `PoolInv`
counts the clients by the sets of running queries and of transactions
(`ClientsCounted`), a caller counting in both while its callback queries through
the pool, and keeps the queue a list of exactly those who wait, each once
(`QueueListsWaiting`). The types add that every statement tests the bound of the
counter (`BoundInv`).

**`OrderServiceProofs`**

| theorem | what is proved |
|---|---|
| `EngineImplemented` | the service implements `ExecutionEngine` (`Spec => Engine!Spec`) |
| `EngineKeepsItsPromises`, `EngineCountsRight` | so what is proved about the engine holds in the service |
| `ManagerKeepsItsPromises` | the same for the indexes, statistics, limits and heartbeats of the manager |
| `NothingMissed` | a subscriber is told all that is broadcast (`NothingMissedSinceSubscribing`) |
| `StateKnown` | the last message tells the state (`SubscribersKnowTheState`) |
| `FeedImplemented` | the service implements `OrderFeed` (`Spec => ImplementsOrderFeed`) |
| `NumbersGrowInService` | the numbers a client receives grow (`Manager!NumbersGrow`) |
| `DroppedStaysOutOfService` | a dropped client gets nothing more (`Manager!DroppedStaysOut`) |
| `TypeCorrect` | `[]TypeOK` |

*The parts.* `EngineProofs` and `ManagerProofs` are the proof modules of the parts
over the variables of the service, so that a step of the service is shown to be
a step of the part, or none, and the theorems about the part are then cited. For
the engine this is a refinement as it stands (`EngineStep`). For the manager it
is not: a stage that emits two events sends two broadcasts in one step, which no
single `Broadcast` does. They differ in sequence numbers only, so the service
implements the manager with the numbers hidden: `messageSequence` is 0 and
`Received` keeps of `lastReceived` whether there was any (`ManagerStep`,
`ManagerSpec`). What does not mention numbers is inherited through it; that the
numbers grow is proved anew from `NumbersInv`, for a step that sends any number
of messages (`Numbered`).

*What subscribers hear.* `ToldInv` is the invariant: `BaseInv` (the life of each
execution in the engine, the agreement of the manager's indexes), open sockets of
all sessions (`SocketsOpen`), and `ToldOf`, which says of each order and client
that what was told is the part of the broadcasts after `before`.
`NothingMissedSinceSubscribing` is the part of it about subscribers and is not
inductive: a broadcast goes to the subscribers whose sockets are open, and who
has left must have nothing left of an earlier subscription when it comes back.
That a step of the engine extends `Broadcast` by what it broadcasts rests on
`ForwardedConcat`: forwarding a longer list forwards the rest of it.
`StateKnown` adds that the last broadcast of an order tells its state
(`LastBroadcast`), which follows from the life of the execution: the dropped
`building` is never the last event when a stage is over.

*The feed.* The log of an order is what was broadcast of its events, its followers
are its entry in the manager's index, and what they read is `told`. Posting an
order and every stage of its execution is a `Publish`: `PostOrder` publishes to
nobody, since an order without events has no subscribers, and so its second
`PENDING` is heard by no one; `Advance` finds the log open, since an execution that
awaits something is not settled (`OpenWhileAdvancing`). An accepted subscription is
a `Follow`, of an order with a log, since posting has broadcast something. Messages, close
events and heartbeats of a client are a `Leave` of that client only
(`OthersStay`): whatever they remove from the index belongs to it. All steps use
`ToldInv`.

*Induction.* `Forwarded` is a recursive function on lists of any length. No
induction theorem of the library can be used, since they take an operator as a
parameter; `Induction` states the principle for a *set* of numbers, and is proved
from the least element of its complement (`LeastNumber`). With it `SentExists`
and `SentUnique` show that the recursion defines exactly one function, and
`ForwardedAppend` and `ForwardedConcat` what it computes.

`TypeOK` of the seven modules, `BreakerCountsTheLastRun`, `EndedMeansSettled`,
`SubscriptionLimit` and `ImplementsOrderFeed` are proved and asked in no run.

**Only model-checked**: liveness, since fairness and ENABLED are beyond the
prover (`SubmittedJobsSettle`, `ExecutionsEnd`, `SubscribersHearTheOutcome`,
`SilentClientsAreDropped`, `RetryEnds` and `CallsEnd` of both modules), and the
three runs that show findings (`queue_breaker_rate`, `service_lookup`,
`routing_timeout`). Every invariant and every action property that a
passing run checks, and the refinement of `JobLifecycle`, is a theorem above.

## Not modelled

* **Caches.** Each method is one or two Redis commands on keys that nothing else
  in the program reads or writes, and no code calls them: there is no
  interleaving of the program to check. The key-value commands of `RedisClient`,
  which only they use, and `publishExecutionComplete`, whose channel has no
  handlers, are left out with them.
* **Error handler.** A log of errors; `routeOrder` makes the only entry and
  nothing reads it.
* **Persistence beyond one order.** The queries on executions, price history and
  statistics and the lists are single statements; `close` and `healthCheck` do
  not interact with the rest.
* **Router beyond `routeOrder`.** `PricingEngine`'s scores and statistics and
  the quote ranges are not used by it. Of `retry.ts`, `retrySync` only wraps
  `retry`.
* **WebSocket counters, `broadcastToAll`; API validation, health, CORS.** They
  decide nothing.
* **Metrics, logging, configuration, signals and exit codes.** No behaviour that
  interacts with the rest.
