----------------------------- MODULE OrderStore -----------------------------
(***************************************************************************)
(* The PostgreSQL layer: DatabaseManager's pool of clients, its query,     *)
(* transaction and initialize, and the OrderQueries on one row of orders.  *)
(*                                                                         *)
(* Every OrderQueries function runs on a client of its own, taken from the *)
(* pool for that query, also when a callback of db.transaction calls it    *)
(* while it holds the client of its transaction.  The pool (pg) serves its *)
(* callers in turn and rejects those that waited too long; the server      *)
(* locks an updated row until its transaction ends (READ COMMITTED).       *)
(*                                                                         *)
(* Of the row, current_attempt is kept.  Its status is left out: the code  *)
(* reads it nowhere before it writes it, so any may follow any.            *)
(***************************************************************************)
EXTENDS Integers, FiniteSets, Sequences, SequencesExt

CONSTANTS
  Callers,      \* concurrent users of the store
  PoolSize,     \* max of the pool (CONFIG.DB_POOL_SIZE)
  MaxAttempt,   \* bound on current_attempt
  MayBlockItself  \* may a callback write to orders through OrderQueries once
                  \* its own transaction holds locks there?

NoOne == "no caller"
NoRow == 0

ASSUME StoreAssumption ==
  /\ IsFiniteSet(Callers) /\ NoOne \notin Callers
  /\ PoolSize \in Nat \ {0}
  /\ MaxAttempt \in Nat \ {0}
  /\ MayBlockItself \in BOOLEAN

VARIABLES
  tables,       \* do the tables exist?
  initialized,  \* the flag of DatabaseManager
  row,          \* the committed row: its current_attempt, or NoRow
  written,      \* the row as the open transaction that locks it sees it
  lock,         \* the caller whose transaction has locked the row
  touched,      \* callers whose transaction has run an UPDATE of orders
  pc,           \* what each caller awaits
  inTx,         \* callers that hold the client of a transaction
  health,       \* what has become of the transaction on a caller's client
  op,           \* the query a caller is making, with its argument
  queue,        \* callers waiting for a client, oldest first
  checkedOut,   \* clients of the pool in use
  known         \* history: the attempts that must be recorded

poolVars == <<queue, checkedOut>>
lockVars == <<written, lock, touched>>
rowVars  == <<tables, initialized, row, known, lockVars>>
callVars == <<pc, inTx, health, op>>
vars == <<poolVars, rowVars, callVars>>

Updates == {"updateOrderStatus", "updateOrderError", "incrementAttempt"}
Ops     == Updates \cup {"createOrder", "getOrderById", "initialize"}
NoQuery == [name |-> "none", copy |-> 0]

Waiting == {"connecting", "asking"}
States  == Waiting \cup {"idle", "open", "updating", "running", "committing", "rollingBack"}

TypeOK ==
  /\ tables \in BOOLEAN /\ initialized \in BOOLEAN
  /\ row \in 0 .. MaxAttempt /\ written \in 0 .. MaxAttempt
  /\ lock \in Callers \cup {NoOne}
  /\ touched \subseteq Callers
  /\ pc \in [Callers -> States]
  /\ inTx \subseteq Callers
  /\ health \in [Callers -> {"sound", "aborted", "broken"}]
  /\ op \in [Callers -> [name : Ops \cup {"none"}, copy : 0 .. MaxAttempt]]
  /\ queue \in Seq(Callers)
  /\ checkedOut \in 0 .. PoolSize
  /\ known \in 0 .. MaxAttempt

Init ==
  /\ tables \in BOOLEAN /\ initialized = FALSE
  /\ row = NoRow /\ written = NoRow /\ lock = NoOne /\ touched = {} /\ known = 0
  /\ pc = [c \in Callers |-> "idle"] /\ inTx = {}
  /\ health = [c \in Callers |-> "sound"]
  /\ op = [c \in Callers |-> NoQuery]
  /\ queue = <<>> /\ checkedOut = 0

Goes(c, to) == pc' = [pc EXCEPT ![c] = to]

-----------------------------------------------------------------------------
(* The statements.                                                         *)

\* Faulty variant: incrementAttempt raises the copy its caller has in hand.
After_FromCopy(query, r) ==
  IF query.name = "incrementAttempt" THEN query.copy + 1
  ELSE IF query.name = "updateOrderError" THEN query.copy
  ELSE r

(* What an UPDATE makes of the counter r: incrementAttempt counts on from  *)
(* the row's own, updateOrderError records the one its caller has in hand  *)
(* (and fails the order from the third on), updateOrderStatus leaves it.   *)
After(query, r) ==
  IF query.name = "incrementAttempt" THEN r + 1
  ELSE IF query.name = "updateOrderError" THEN query.copy
  ELSE r

(* An UPDATE waits for the transaction that has locked the row to end, and *)
(* CREATE INDEX, which locks the table in SHARE mode, for every one that   *)
(* has run an UPDATE.  (That writes wait behind a CREATE INDEX that waits  *)
(* is left out: they pass it.)                                             *)
Blocked(c) ==
  /\ pc[c] = "running"
  /\ \/ op[c].name \in Updates /\ lock # NoOne
     \/ op[c].name = "initialize" /\ touched # {}

-----------------------------------------------------------------------------
(* The pool.                                                               *)

\* pool.connect or pool.query: the caller joins those waiting for a client.
WaitsForClient(c, as) ==
  /\ Goes(c, as)
  /\ queue' = Append(queue, c)
  /\ UNCHANGED <<checkedOut, inTx, health, rowVars>>

\* A client is free, or one more may be opened: the first in the queue has it.
ClientGranted ==
  /\ queue # <<>> /\ checkedOut < PoolSize
  /\ LET c == Head(queue)
     IN  IF pc[c] = "connecting"
           THEN Goes(c, "open") /\ inTx' = inTx \cup {c}
           ELSE Goes(c, "running") /\ UNCHANGED inTx
  /\ queue' = Tail(queue)
  /\ checkedOut' = checkedOut + 1
  /\ UNCHANGED <<op, health, rowVars>>

\* What a caller awaits when its query is over.
Back(c) == IF c \in inTx THEN "open" ELSE "idle"

(* A query throws.  In a callback the error unwinds the callback, unless   *)
(* the callback catches it.                                                *)
Throws(c) ==
  /\ Goes(c, Back(c)) \/ (c \in inTx /\ Goes(c, "rollingBack"))
  /\ op' = [op EXCEPT ![c] = NoQuery]

\* connectionTimeoutMillis have passed: the pool rejects a caller still waiting.
ConnectionTimeout(c) ==
  /\ pc[c] \in Waiting
  /\ \E i \in DOMAIN queue : queue[i] = c /\ queue' = RemoveAt(queue, i)
  /\ Throws(c)
  /\ UNCHANGED <<checkedOut, inTx, health, rowVars>>

-----------------------------------------------------------------------------
(* Queries through the pool: db.query and initialize.                      *)

(* The attempt in the Order its caller has in hand: updateOrderError is    *)
(* handed any, however old; incrementAttempt is not handed the one its     *)
(* caller has seen; for the other queries it has no meaning.               *)
CopiesInHand(o) ==
  IF o = "updateOrderError" THEN 1 .. MaxAttempt
  ELSE IF o = "incrementAttempt" THEN {row} ELSE {NoRow}

(* A caller, or the callback of its transaction, makes a query.            *)
(* initialize returns at once when it has succeeded before.                *)
Query(c, o) ==
  /\ pc[c] \in {"idle", "open"}
  /\ o = "initialize" => ~initialized
  /\ (o # "getOrderById" /\ c \in touched) => MayBlockItself
  /\ \E copy \in CopiesInHand(o) : op' = [op EXCEPT ![c] = [name |-> o, copy |-> copy]]
  /\ WaitsForClient(c, "asking")

(* The first statement of initialize has created the table of orders; each *)
(* statement commits by itself, so the table stays whatever follows.       *)
CreatesOrdersTable(c) ==
  /\ pc[c] = "running" /\ op[c].name = "initialize"
  /\ ~tables /\ tables' = TRUE
  /\ UNCHANGED <<poolVars, callVars, initialized, row, known, lockVars>>

(* The rest of them, indexes and other tables; the flag is set only by a   *)
(* call that got all its answers.                                          *)
CreatesTables(answered) ==
  /\ tables /\ initialized' = (initialized \/ answered)
  /\ UNCHANGED <<tables, row, known>>

ReadsOrder == tables /\ UNCHANGED <<tables, initialized, row, known>>

\* The row modelled is that of the first order created.
InsertsOrder ==
  /\ tables
  /\ IF row = NoRow THEN row' = 1 /\ known' = 1 ELSE UNCHANGED <<row, known>>
  /\ UNCHANGED <<tables, initialized>>

\* An UPDATE of an order that exists; without one mapRowToOrder throws.
UpdatesOrder(c) ==
  /\ row # NoRow /\ After(op[c], row) <= MaxAttempt
  /\ row' = After(op[c], row)
  /\ UNCHANGED <<tables, initialized>>

UpdatesStatus(c) == UpdatesOrder(c) /\ UNCHANGED known

\* The counter is now what the caller said: what was counted before is forgotten.
RecordsError(c) == UpdatesOrder(c) /\ known' = row'

CountsAttempt(c, answered) ==
  UpdatesOrder(c) /\ known' = IF answered THEN known + 1 ELSE known

(* The statement has its effect.  When `answered' is FALSE the connection  *)
(* breaks before the answer arrives.                                       *)
Executes(c, answered) ==
  /\ UNCHANGED lockVars
  /\ \/ op[c].name = "initialize" /\ CreatesTables(answered)
     \/ op[c].name = "getOrderById" /\ ReadsOrder
     \/ op[c].name = "createOrder" /\ InsertsOrder
     \/ op[c].name = "updateOrderStatus" /\ UpdatesStatus(c)
     \/ op[c].name = "updateOrderError" /\ RecordsError(c)
     \/ op[c].name = "incrementAttempt" /\ CountsAttempt(c, answered)

(* The server answers and the client goes back to the pool.                *)
QueryReturns(c) ==
  /\ pc[c] = "running" /\ ~Blocked(c)
  /\ Executes(c, TRUE)
  /\ Goes(c, Back(c)) /\ op' = [op EXCEPT ![c] = NoQuery]
  /\ checkedOut' = checkedOut - 1
  /\ UNCHANGED <<queue, inTx, health>>

(* The query throws, before or after its effect: the server refuses it,    *)
(* the connection breaks, or mapRowToOrder is handed no row.               *)
QueryFails(c) ==
  /\ pc[c] = "running"
  /\ UNCHANGED rowVars \/ (~Blocked(c) /\ Executes(c, FALSE))
  /\ Throws(c)
  /\ checkedOut' = checkedOut - 1
  /\ UNCHANGED <<queue, inTx, health>>

-----------------------------------------------------------------------------
(* db.transaction.                                                         *)

Transaction(c) ==
  /\ pc[c] = "idle"
  /\ WaitsForClient(c, "connecting")
  /\ UNCHANGED op

\* The callback updates the row with a query of its own on its client.
ClientQuery(c, o) ==
  /\ pc[c] = "open"
  /\ Goes(c, "updating")
  /\ \E copy \in CopiesInHand(o) : op' = [op EXCEPT ![c] = [name |-> o, copy |-> copy]]
  /\ UNCHANGED <<poolVars, rowVars, inTx, health>>

(* It waits for the transaction that has locked the row to end.  A row it  *)
(* has updated stays locked.                                               *)
ClientQueryReturns(c) ==
  /\ pc[c] = "updating" /\ health[c] = "sound"
  /\ lock \in {c, NoOne} /\ tables
  /\ IF row = NoRow
       THEN UNCHANGED <<written, lock>>
       ELSE /\ written' = After(op[c], IF lock = c THEN written ELSE row)
            /\ written' <= MaxAttempt
            /\ lock' = c
  /\ touched' = touched \cup {c}
  /\ Goes(c, "open") /\ op' = [op EXCEPT ![c] = NoQuery]
  /\ UNCHANGED <<poolVars, tables, initialized, row, known, inTx, health>>

\* The server undoes what a transaction has done and gives up its locks.
Undoes(c) ==
  /\ IF lock = c THEN lock' = NoOne /\ written' = NoRow ELSE UNCHANGED <<lock, written>>
  /\ touched' = touched \ {c}

(* The query fails.  Either the server refuses it: the transaction is      *)
(* undone at once and refuses all that follows but its end.  Or the        *)
(* connection breaks, which the server has yet to notice.  The callback    *)
(* may catch the error and go on.                                          *)
ClientQueryFails(c) ==
  /\ pc[c] = "updating"
  /\ \/ /\ health[c] # "broken" /\ health' = [health EXCEPT ![c] = "aborted"]
        /\ Undoes(c)
     \/ health' = [health EXCEPT ![c] = "broken"] /\ UNCHANGED lockVars
  /\ Goes(c, "open") \/ Goes(c, "rollingBack")
  /\ op' = [op EXCEPT ![c] = NoQuery]
  /\ UNCHANGED <<poolVars, tables, initialized, row, known, inTx>>

\* BEGIN fails, or the callback throws.
CallbackThrows(c) ==
  /\ pc[c] = "open"
  /\ Goes(c, "rollingBack")
  /\ UNCHANGED <<poolVars, rowVars, inTx, health, op>>

CallbackReturns(c) ==
  /\ pc[c] = "open"
  /\ Goes(c, "committing")
  /\ UNCHANGED <<poolVars, rowVars, inTx, health, op>>

\* finally: the client goes back to the pool, and the caller has its answer.
Releases(c) ==
  /\ Goes(c, "idle")
  /\ inTx' = inTx \ {c} /\ health' = [health EXCEPT ![c] = "sound"]
  /\ checkedOut' = checkedOut - 1
  /\ UNCHANGED <<queue, op, tables, initialized>>

\* What COMMIT does in the server, for a transaction that has updated the row.
Commits(c) ==
  /\ IF lock = c
       THEN row' = written /\ written' = NoRow /\ lock' = NoOne
       ELSE UNCHANGED <<row, written, lock>>
  /\ touched' = touched \ {c}

(* COMMIT is answered.  That of an aborted transaction, whose callback has *)
(* caught the failure and returned, is a ROLLBACK to the server and no     *)
(* error to the code: transaction resolves, and what the callback was told *)
(* before the failure is undone.                                           *)
Commit(c) ==
  /\ pc[c] = "committing" /\ health[c] # "broken"
  /\ Commits(c)
  /\ known' = IF lock = c THEN known + (written - row) ELSE known
  /\ Releases(c)

(* COMMIT throws, before or after its effect, and is followed by ROLLBACK. *)
CommitFails(c) ==
  /\ pc[c] = "committing"
  /\ (health[c] # "broken" /\ Commits(c)) \/ UNCHANGED <<row, lockVars>>
  /\ Goes(c, "rollingBack")
  /\ UNCHANGED <<poolVars, inTx, health, op, tables, initialized, known>>

\* Faulty variant: the client is released by the successful path only.
RollBack_KeepsClient(c) ==
  /\ pc[c] = "rollingBack"
  /\ Undoes(c)
  /\ Goes(c, "idle")
  /\ inTx' = inTx \ {c} /\ health' = [health EXCEPT ![c] = "sound"]
  /\ UNCHANGED <<poolVars, op, tables, initialized, row, known>>

\* Faulty variant: the error is passed on without a ROLLBACK.
RollBack_Not(c) ==
  /\ pc[c] = "rollingBack"
  /\ Releases(c)
  /\ UNCHANGED <<row, lockVars, known>>

(* ROLLBACK, then finally.  A client whose ROLLBACK fails is broken: the   *)
(* pool drops it and the server undoes its transaction all the same.       *)
RollBack(c) ==
  /\ pc[c] = "rollingBack"
  /\ Undoes(c)
  /\ Releases(c)
  /\ UNCHANGED <<row, known>>

-----------------------------------------------------------------------------
Next ==
  \/ ClientGranted
  \/ \E c \in Callers, o \in Ops : Query(c, o)
  \/ \E c \in Callers : Transaction(c)
  \/ \E c \in Callers : ConnectionTimeout(c)
  \/ \E c \in Callers : CreatesOrdersTable(c)
  \/ \E c \in Callers : QueryReturns(c)
  \/ \E c \in Callers : QueryFails(c)
  \/ \E c \in Callers, o \in {"incrementAttempt", "updateOrderStatus"} : ClientQuery(c, o)
  \/ \E c \in Callers : ClientQueryReturns(c)
  \/ \E c \in Callers : ClientQueryFails(c)
  \/ \E c \in Callers : CallbackThrows(c)
  \/ \E c \in Callers : CallbackReturns(c)
  \/ \E c \in Callers : Commit(c)
  \/ \E c \in Callers : CommitFails(c)
  \/ \E c \in Callers : RollBack(c)

Spec == Init /\ [][Next]_vars

\* The server answers a query that waits for no lock, one way or the other.
Answered(c) ==
  \/ ~Blocked(c) /\ (QueryReturns(c) \/ QueryFails(c))
  \/ lock \in {c, NoOne} /\ (ClientQueryReturns(c) \/ ClientQueryFails(c))

CallbackEnds(c) == CallbackReturns(c) \/ CallbackThrows(c)

\* Nothing but the pool's timer, or the server, is waited for.
MovesOn(c) == ConnectionTimeout(c) \/ Commit(c) \/ CommitFails(c) \/ RollBack(c)

(* The pool's timers fire and the server answers, granting row locks in    *)
(* turn; a callback makes finitely many queries and then ends.             *)
FairSpec ==
  /\ Spec
  /\ \A c \in Callers :
       /\ WF_vars(MovesOn(c))
       /\ SF_vars(Answered(c))
       /\ SF_vars(CallbackEnds(c))

-----------------------------------------------------------------------------
(* Properties.                                                             *)

(* No client is lost or lent twice, whichever way queries, callbacks and   *)
(* transactions end: the clients in use are those of open transactions and *)
(* running queries, and every caller without one it asked for is queued.   *)
ClientsAccounted ==
  /\ checkedOut = Cardinality(inTx) + Cardinality({c \in Callers : pc[c] = "running"})
  /\ checkedOut <= PoolSize
  /\ {c \in Callers : pc[c] \in Waiting} = {queue[i] : i \in DOMAIN queue}
  /\ Len(queue) = Cardinality({c \in Callers : pc[c] \in Waiting})

(* A row is locked by a transaction that is still under way: no client     *)
(* goes back to the pool with a transaction open on it, to lock out the    *)
(* others and take the next caller's queries into a foreign transaction.   *)
LocksEndWithTransactions ==
  lock # NoOne => lock \in inTx /\ pc[lock] # "idle"

(* An incrementAttempt that returned, by itself or in a transaction that   *)
(* returned without having caught the failure of a query of its client, is *)
(* counted in the row until the next updateOrderError writes the counter:  *)
(* concurrent increments are never lost, whichever transactions are undone.*)
IncrementsAreNeverLost == row >= known

(* Every call of the store ends, also when callbacks need more clients     *)
(* than the pool has and all callers wait for each other: the waiting time *)
(* for a client is bounded.                                                *)
CallsEnd == \A c \in Callers : pc[c] # "idle" ~> pc[c] = "idle"
=============================================================================
