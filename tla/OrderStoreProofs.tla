-------------------------- MODULE OrderStoreProofs --------------------------
(***************************************************************************)
(* Proofs about OrderStore for any number of callers, any pool and any     *)
(* bound on the attempts: a lock never outlives its transaction, no        *)
(* increment that was committed is lost, and the clients of the pool are   *)
(* all accounted for.                                                      *)
(*                                                                         *)
(* The first two follow from one inductive invariant: who is past the      *)
(* connect of a transaction holds its client (InTransaction), a lock       *)
(* belongs to such a caller (LocksEndWithTransactions), and while it lasts *)
(* the locked row only grows in the eyes of its transaction                *)
(* (LockedRowGrows).  The third needs the sizes of the sets of running and *)
(* held clients, which PoolInv keeps.  The types follow from both and the  *)
(* bound every statement tests (BoundInv).                                 *)
(***************************************************************************)
EXTENDS OrderStore, FiniteSetTheorems, TLAPS

\* The types the proofs need.
Types ==
  /\ row \in Int /\ written \in Int /\ known \in Int
  /\ lock \in Callers \cup {NoOne}
  /\ pc \in [Callers -> States]
  /\ op \in [Callers -> [name : Ops \cup {"none"}, copy : Int]]

\* Who has left the connect of a transaction behind holds its client.
InTransaction ==
  \A c \in Callers :
    pc[c] \in {"open", "updating", "committing", "rollingBack"} => c \in inTx

\* A transaction's own statements never lower the counter.
OwnStatements ==
  \A c \in Callers : pc[c] = "updating" => op[c].name # "updateOrderError"

LockedRowGrows == lock # NoOne => row # NoRow /\ written >= row

IInv ==
  /\ Types
  /\ InTransaction
  /\ OwnStatements
  /\ LocksEndWithTransactions
  /\ LockedRowGrows
  /\ IncrementsAreNeverLost

-----------------------------------------------------------------------------
USE DEF States, Waiting, Ops, Updates

LEMMA InitIInv == Init => IInv
BY DEF Init, IInv, Types, InTransaction, OwnStatements, LocksEndWithTransactions,
       LockedRowGrows, IncrementsAreNeverLost, NoQuery, NoRow

(* A caller is named by none of the quantified actions but its own, and no *)
(* caller is NoOne.                                                        *)
LEMMA GrantKeeps == ASSUME IInv, ClientGranted PROVE IInv'
BY DEF IInv, Types, InTransaction, OwnStatements, LocksEndWithTransactions, LockedRowGrows,
       IncrementsAreNeverLost, ClientGranted, Goes, rowVars, lockVars

LEMMA QueryKeeps ==
  ASSUME IInv, NEW c \in Callers, NEW o \in Ops, Query(c, o) PROVE IInv'
BY DEF IInv, Types, InTransaction, OwnStatements, LocksEndWithTransactions, LockedRowGrows,
       IncrementsAreNeverLost, Query, WaitsForClient, Goes, rowVars, lockVars, CopiesInHand, NoRow

LEMMA TransactionKeeps ==
  ASSUME IInv, NEW c \in Callers, Transaction(c) PROVE IInv'
BY DEF IInv, Types, InTransaction, OwnStatements, LocksEndWithTransactions, LockedRowGrows,
       IncrementsAreNeverLost, Transaction, WaitsForClient, Goes, rowVars, lockVars

LEMMA TimeoutKeeps ==
  ASSUME IInv, NEW c \in Callers, ConnectionTimeout(c) PROVE IInv'
BY DEF IInv, Types, InTransaction, OwnStatements, LocksEndWithTransactions, LockedRowGrows,
       IncrementsAreNeverLost, ConnectionTimeout, Throws, Back, NoQuery, Goes, rowVars, lockVars

LEMMA TableKeeps ==
  ASSUME IInv, NEW c \in Callers, CreatesOrdersTable(c) PROVE IInv'
BY DEF IInv, Types, InTransaction, OwnStatements, LocksEndWithTransactions, LockedRowGrows,
       IncrementsAreNeverLost, CreatesOrdersTable, callVars, lockVars

LEMMA ExecutesKeeps ==
  ASSUME Types, LockedRowGrows, IncrementsAreNeverLost, NEW c \in Callers,
         NEW answered \in BOOLEAN,
         pc[c] = "running", ~Blocked(c), Executes(c, answered)
  PROVE  /\ row' \in Int /\ written' \in Int /\ known' \in Int
         /\ lock' = lock
         /\ LockedRowGrows'
         /\ IncrementsAreNeverLost'
<1> USE DEF Types, LockedRowGrows, IncrementsAreNeverLost, NoRow, lockVars
<1>1. CASE op[c].name \in Updates
  BY <1>1 DEF Executes, CreatesTables, ReadsOrder, InsertsOrder, UpdatesOrder, UpdatesStatus,
         RecordsError, CountsAttempt, Blocked, After
<1>2. CASE op[c].name \notin Updates
  BY <1>2 DEF Executes, CreatesTables, ReadsOrder, InsertsOrder, UpdatesOrder, UpdatesStatus,
         RecordsError, CountsAttempt
<1> QED BY <1>1, <1>2

LEMMA ReturnKeeps ==
  ASSUME IInv, NEW c \in Callers, QueryReturns(c) PROVE IInv'
<1>1. /\ row' \in Int /\ written' \in Int /\ known' \in Int
      /\ lock' = lock /\ LockedRowGrows' /\ IncrementsAreNeverLost'
  BY ExecutesKeeps DEF IInv, QueryReturns
<1>2. Types' /\ InTransaction' /\ OwnStatements' /\ LocksEndWithTransactions'
  BY <1>1 DEF IInv, Types, InTransaction, OwnStatements, LocksEndWithTransactions,
              QueryReturns, Goes, Back, NoQuery
<1> QED BY <1>1, <1>2 DEF IInv

LEMMA FailKeeps ==
  ASSUME IInv, NEW c \in Callers, QueryFails(c) PROVE IInv'
<1>1. /\ row' \in Int /\ written' \in Int /\ known' \in Int
      /\ lock' = lock /\ LockedRowGrows' /\ IncrementsAreNeverLost'
  <2>1. CASE UNCHANGED rowVars
    BY <2>1 DEF IInv, Types, rowVars, lockVars, LockedRowGrows, IncrementsAreNeverLost
  <2>2. CASE ~Blocked(c) /\ Executes(c, FALSE)
    BY <2>2, ExecutesKeeps DEF IInv, QueryFails
  <2> QED BY <2>1, <2>2 DEF QueryFails
<1>2. Types' /\ InTransaction' /\ OwnStatements' /\ LocksEndWithTransactions'
  BY <1>1 DEF IInv, Types, InTransaction, OwnStatements, LocksEndWithTransactions,
              QueryFails, Throws, Goes, Back, NoQuery
<1> QED BY <1>1, <1>2 DEF IInv

LEMMA ClientQueryKeeps ==
  ASSUME IInv, NEW c \in Callers, NEW o \in {"incrementAttempt", "updateOrderStatus"},
         ClientQuery(c, o)
  PROVE  IInv'
BY DEF IInv, Types, InTransaction, OwnStatements, LocksEndWithTransactions, LockedRowGrows,
       IncrementsAreNeverLost, ClientQuery, Goes, rowVars, lockVars, CopiesInHand, NoRow

LEMMA ClientQueryReturnKeeps ==
  ASSUME IInv, NEW c \in Callers, ClientQueryReturns(c) PROVE IInv'
<1>1. Types' /\ InTransaction' /\ OwnStatements'
  BY DEF IInv, Types, InTransaction, OwnStatements, ClientQueryReturns, After, Goes, NoQuery
<1>2. LocksEndWithTransactions'
  BY DEF IInv, Types, InTransaction, LocksEndWithTransactions, ClientQueryReturns, Goes
<1>3. LockedRowGrows' /\ IncrementsAreNeverLost'
  BY DEF IInv, Types, OwnStatements, LockedRowGrows, IncrementsAreNeverLost,
         ClientQueryReturns, After, NoRow
<1> QED BY <1>1, <1>2, <1>3 DEF IInv

LEMMA ClientQueryFailKeeps ==
  ASSUME IInv, NEW c \in Callers, ClientQueryFails(c) PROVE IInv'
<1>1. Types' /\ InTransaction' /\ OwnStatements'
  BY DEF IInv, Types, InTransaction, OwnStatements, ClientQueryFails, Undoes, Goes, NoQuery,
         NoRow, lockVars
<1>2. LocksEndWithTransactions'
  BY StoreAssumption
  DEF IInv, Types, LocksEndWithTransactions, ClientQueryFails, Undoes, Goes, lockVars
<1>3. LockedRowGrows' /\ IncrementsAreNeverLost'
  BY StoreAssumption
  DEF IInv, Types, LockedRowGrows, IncrementsAreNeverLost, ClientQueryFails, Undoes, lockVars
<1> QED BY <1>1, <1>2, <1>3 DEF IInv

LEMMA CallbackKeeps ==
  ASSUME IInv, NEW c \in Callers, CallbackThrows(c) \/ CallbackReturns(c) PROVE IInv'
BY DEF IInv, Types, InTransaction, OwnStatements, LocksEndWithTransactions, LockedRowGrows,
       IncrementsAreNeverLost, CallbackThrows, CallbackReturns, Goes, NoQuery, rowVars, lockVars

LEMMA CommitKeeps ==
  ASSUME IInv, NEW c \in Callers, Commit(c) PROVE IInv'
<1>1. Types' /\ InTransaction' /\ OwnStatements'
  BY DEF IInv, Types, InTransaction, OwnStatements, Commit, Commits, Releases, Goes, NoRow
<1>2. LocksEndWithTransactions'
  BY StoreAssumption
  DEF IInv, Types, LocksEndWithTransactions, Commit, Commits, Releases, Goes
<1>3. LockedRowGrows' /\ IncrementsAreNeverLost'
  BY StoreAssumption
  DEF IInv, Types, LockedRowGrows, IncrementsAreNeverLost, Commit, Commits, Releases, Goes
<1> QED BY <1>1, <1>2, <1>3 DEF IInv

LEMMA CommitFailKeeps ==
  ASSUME IInv, NEW c \in Callers, CommitFails(c) PROVE IInv'
<1>1. Types' /\ InTransaction' /\ OwnStatements'
  BY DEF IInv, Types, InTransaction, OwnStatements, CommitFails, Commits, Goes, lockVars, NoRow
<1>2. LocksEndWithTransactions'
  BY StoreAssumption
  DEF IInv, Types, LocksEndWithTransactions, CommitFails, Commits, Goes, lockVars
<1>3. LockedRowGrows' /\ IncrementsAreNeverLost'
  BY StoreAssumption
  DEF IInv, Types, LockedRowGrows, IncrementsAreNeverLost, CommitFails, Commits, Goes, lockVars
<1> QED BY <1>1, <1>2, <1>3 DEF IInv

LEMMA RollBackKeeps ==
  ASSUME IInv, NEW c \in Callers, RollBack(c) PROVE IInv'
<1>1. Types' /\ InTransaction' /\ OwnStatements'
  BY DEF IInv, Types, InTransaction, OwnStatements, RollBack, Undoes, Releases, Goes, NoRow
<1>2. LocksEndWithTransactions'
  BY StoreAssumption
  DEF IInv, Types, LocksEndWithTransactions, RollBack, Undoes, Releases, Goes
<1>3. LockedRowGrows' /\ IncrementsAreNeverLost'
  BY StoreAssumption
  DEF IInv, Types, LockedRowGrows, IncrementsAreNeverLost, RollBack, Undoes, Releases, Goes
<1> QED BY <1>1, <1>2, <1>3 DEF IInv

LEMMA StutterKeeps == ASSUME IInv, UNCHANGED vars PROVE IInv'
BY DEF IInv, Types, InTransaction, OwnStatements, LocksEndWithTransactions, LockedRowGrows,
       IncrementsAreNeverLost, vars, rowVars, lockVars, callVars

LEMMA NextIInv == IInv /\ [Next]_vars => IInv'
BY GrantKeeps, QueryKeeps, TransactionKeeps, TimeoutKeeps, TableKeeps,
   ReturnKeeps, FailKeeps, ClientQueryKeeps, ClientQueryReturnKeeps, ClientQueryFailKeeps,
   CallbackKeeps, CommitKeeps, CommitFailKeeps, RollBackKeeps, StutterKeeps
   DEF Next

LEMMA Invariance == Spec => []IInv
BY InitIInv, NextIInv, PTL DEF Spec

-----------------------------------------------------------------------------
(* However queries fail and transactions end, a row stays locked only by a *)
(* transaction under way: no client returns to the pool inside one.        *)
THEOREM LocksEnd == Spec => []LocksEndWithTransactions
BY Invariance, PTL DEF IInv

(* Increments that returned, by themselves or in a transaction that then   *)
(* committed, stay counted until an updateOrderError, whatever other       *)
(* callers write and whichever transactions are undone.                    *)
THEOREM IncrementsKept == Spec => []IncrementsAreNeverLost
BY Invariance, PTL DEF IInv

-----------------------------------------------------------------------------
(* The accounts of the pool.                                               *)

Running  == {c \in Callers : pc[c] = "running"}
InQueue  == {c \in Callers : pc[c] \in Waiting}

PoolTypes ==
  /\ pc \in [Callers -> States]
  /\ inTx \subseteq Callers
  /\ queue \in Seq(Callers)
  /\ checkedOut \in Int

\* The client of a transaction is held from the connect to the release.
HoldersOnly ==
  \A c \in Callers : pc[c] \in {"idle", "connecting"} => c \notin inTx

\* The queue lists the callers that wait, each of them once.
QueueListsWaiting ==
  /\ \A i \in DOMAIN queue : pc[queue[i]] \in Waiting
  /\ \A i, j \in DOMAIN queue : queue[i] = queue[j] => i = j
  /\ \A c \in Callers : pc[c] \in Waiting => \E i \in DOMAIN queue : queue[i] = c

ClientsCounted ==
  /\ checkedOut = Cardinality(inTx) + Cardinality(Running)
  /\ checkedOut <= PoolSize

PoolInv ==
  PoolTypes /\ InTransaction /\ HoldersOnly /\ QueueListsWaiting /\ ClientsCounted

LEMMA InitPoolInv == Init => PoolInv
<1> SUFFICES ASSUME Init PROVE PoolInv
  OBVIOUS
<1>1. Running = {} /\ inTx = {}
  BY DEF Init, Running
<1>2. ClientsCounted
  BY <1>1, FS_EmptySet, StoreAssumption DEF Init, ClientsCounted
<1> QED
  BY <1>2 DEF Init, PoolInv, PoolTypes, InTransaction, HoldersOnly, QueueListsWaiting

(* What the step of one caller does to the three parts.                    *)
LEMMA RunningMoves ==
  ASSUME PoolTypes, NEW c \in Callers, NEW s \in States, Goes(c, s)
  PROVE  /\ pc' \in [Callers -> States]
         /\ Running' = IF s = "running" THEN Running \cup {c} ELSE Running \ {c}
BY DEF PoolTypes, Goes, Running

LEMMA HoldersMove ==
  ASSUME PoolTypes, InTransaction, HoldersOnly,
         NEW c \in Callers, NEW s \in States, Goes(c, s), inTx' \subseteq Callers,
         inTx' \ {c} = inTx \ {c},
         s \in {"idle", "connecting"} => c \notin inTx',
         s \in {"open", "updating", "committing", "rollingBack"} => c \in inTx'
  PROVE  InTransaction' /\ HoldersOnly'
BY DEF PoolTypes, InTransaction, HoldersOnly, Goes

LEMMA QueueStays ==
  ASSUME PoolTypes, QueueListsWaiting, NEW c \in Callers, NEW s \in States, Goes(c, s),
         pc[c] \notin Waiting, s \notin Waiting, queue' = queue
  PROVE  QueueListsWaiting'
BY DEF PoolTypes, QueueListsWaiting, Goes

LEMMA QueueGrows ==
  ASSUME PoolTypes, QueueListsWaiting, NEW c \in Callers, NEW s \in Waiting, Goes(c, s),
         pc[c] \notin Waiting, queue' = Append(queue, c)
  PROVE  queue' \in Seq(Callers) /\ QueueListsWaiting'
<1>1. queue' \in Seq(Callers) /\ DOMAIN queue' = 1 .. Len(queue) + 1
  BY DEF PoolTypes
<1>2. \A i \in DOMAIN queue' : queue'[i] = IF i = Len(queue) + 1 THEN c ELSE queue[i]
  BY DEF PoolTypes
<1>3. DOMAIN queue = 1 .. Len(queue) /\ Len(queue) \in Nat
  BY DEF PoolTypes
<1> QED BY <1>1, <1>2, <1>3 DEF PoolTypes, QueueListsWaiting, Goes

(* The caller at position i leaves: those behind it move up.               *)
LEMMA QueueShrinks ==
  ASSUME PoolTypes, QueueListsWaiting, NEW i \in DOMAIN queue, NEW s \in States,
         Goes(queue[i], s), s \notin Waiting,
         queue' \in Seq(Callers), Len(queue') = Len(queue) - 1,
         \A k \in 1 .. Len(queue) - 1 :
           queue'[k] = IF k < i THEN queue[k] ELSE queue[k + 1]
  PROVE  QueueListsWaiting'
<1> DEFINE n == Len(queue)
<1>0. n \in Nat /\ DOMAIN queue = 1 .. n /\ DOMAIN queue' = 1 .. n - 1
  BY DEF PoolTypes
<1>1. \A k \in 1 .. n : queue[k] \in Callers
  BY <1>0 DEF PoolTypes
<1>2. \A k \in 1 .. n : k # i => pc'[queue[k]] = pc[queue[k]]
  BY <1>0, <1>1 DEF PoolTypes, QueueListsWaiting, Goes
<1>3. ASSUME NEW k \in DOMAIN queue' PROVE pc'[queue'[k]] \in Waiting
  <2>1. PICK l \in 1 .. n : l # i /\ queue'[k] = queue[l]
    BY <1>0
  <2>2. pc[queue[l]] \in Waiting
    BY <1>0, <2>1 DEF QueueListsWaiting
  <2> QED BY <1>2, <2>1, <2>2
<1>4. ASSUME NEW k \in DOMAIN queue', NEW l \in DOMAIN queue', queue'[k] = queue'[l]
      PROVE  k = l
  <2> DEFINE was(m) == IF m < i THEN m ELSE m + 1
  <2>1. \A m \in DOMAIN queue' : was(m) \in 1 .. n /\ queue'[m] = queue[was(m)]
    BY <1>0
  <2>2. queue[was(k)] = queue[was(l)]
    BY <1>4, <2>1
  <2>3. was(k) = was(l)
    BY <1>0, <2>1, <2>2 DEF QueueListsWaiting
  <2> QED BY <1>0, <2>3
<1>5. ASSUME NEW c \in Callers, pc'[c] \in Waiting
      PROVE  \E k \in DOMAIN queue' : queue'[k] = c
  <2>1. c # queue[i] /\ pc[c] \in Waiting
    BY <1>0, <1>1, <1>5 DEF PoolTypes, Goes
  <2>2. PICK k \in 1 .. n : queue[k] = c
    BY <1>0, <1>5, <2>1 DEF QueueListsWaiting
  <2>3. CASE k < i
    BY <1>0, <2>2, <2>3
  <2>4. CASE k > i
    <3>1. k - 1 \in DOMAIN queue' /\ queue'[k - 1] = queue[k]
      BY <1>0, <2>2, <2>4
    <3> QED BY <2>2, <3>1
  <2> QED BY <1>0, <2>1, <2>2, <2>3, <2>4
<1> QED BY <1>3, <1>4, <1>5 DEF QueueListsWaiting

LEMMA Finite ==
  ASSUME PoolTypes
  PROVE  /\ IsFiniteSet(inTx) /\ Cardinality(inTx) \in Nat
         /\ IsFiniteSet(Running) /\ Cardinality(Running) \in Nat
BY StoreAssumption, FS_Subset, FS_CardinalityType DEF PoolTypes, Running

(* A query through the pool begins, or a transaction.                      *)
LEMMA WaitsKeeps ==
  ASSUME PoolInv, NEW c \in Callers, pc[c] \in {"idle", "open"}, NEW as \in Waiting,
         as = "connecting" => pc[c] = "idle", WaitsForClient(c, as)
  PROVE  PoolInv'
<1> USE DEF PoolInv
<1>1. pc' \in [Callers -> States] /\ Running' = Running
  BY RunningMoves DEF WaitsForClient, Running
<1>2. queue' \in Seq(Callers) /\ QueueListsWaiting'
  BY QueueGrows DEF WaitsForClient
<1>3. InTransaction' /\ HoldersOnly'
  BY HoldersMove DEF WaitsForClient, HoldersOnly, PoolTypes
<1> QED
  BY <1>1, <1>2, <1>3 DEF WaitsForClient, PoolTypes, ClientsCounted

(* A caller goes on with the client it has, or with none.                  *)
LEMMA StepKeeps ==
  ASSUME PoolInv, NEW c \in Callers, pc[c] \notin Waiting \cup {"running"},
         NEW s \in {"open", "updating", "committing", "rollingBack"}, Goes(c, s),
         c \in inTx, UNCHANGED <<queue, inTx, checkedOut>>
  PROVE  PoolInv'
<1> USE DEF PoolInv
<1>1. pc' \in [Callers -> States] /\ Running' = Running
  BY RunningMoves DEF Running
<1>2. QueueListsWaiting'
  BY QueueStays
<1>3. InTransaction' /\ HoldersOnly'
  BY HoldersMove DEF PoolTypes
<1> QED
  BY <1>1, <1>2, <1>3 DEF PoolTypes, ClientsCounted

(* A transaction gives its client back.                                    *)
LEMMA ReleaseKeeps ==
  ASSUME PoolInv, NEW c \in Callers, pc[c] \in {"committing", "rollingBack"}, Releases(c)
  PROVE  PoolInv'
<1> USE DEF PoolInv
<1>1. pc' \in [Callers -> States] /\ Running' = Running
  BY RunningMoves DEF Releases, Running
<1>2. QueueListsWaiting'
  BY QueueStays DEF Releases
<1>3. InTransaction' /\ HoldersOnly'
  BY HoldersMove DEF Releases, PoolTypes
<1>4. c \in inTx
  BY DEF InTransaction
<1>5. Cardinality(inTx') = Cardinality(inTx) - 1
  BY <1>4, Finite, FS_RemoveElement DEF Releases
<1> QED
  BY <1>1, <1>2, <1>3, <1>5, Finite, StoreAssumption DEF Releases, PoolTypes, ClientsCounted

(* A query through the pool is over.                                       *)
LEMMA QueryOverKeeps ==
  ASSUME PoolInv, NEW c \in Callers, pc[c] = "running",
         Goes(c, Back(c)) \/ (c \in inTx /\ Goes(c, "rollingBack")),
         checkedOut' = checkedOut - 1, UNCHANGED <<queue, inTx>>
  PROVE  PoolInv'
<1> USE DEF PoolInv
<1>1. PICK s \in {"idle", "open", "rollingBack"} :
        Goes(c, s) /\ (c \in inTx <=> s # "idle")
  BY DEF Back
<1>2. pc' \in [Callers -> States] /\ Running' = Running \ {c}
  BY <1>1, RunningMoves
<1>3. QueueListsWaiting'
  BY <1>1, QueueStays
<1>4. InTransaction' /\ HoldersOnly'
  BY <1>1, HoldersMove DEF PoolTypes
<1>5. c \in Running
  BY DEF Running
<1>6. Cardinality(Running') = Cardinality(Running) - 1
  BY <1>2, <1>5, Finite, FS_RemoveElement
<1> QED
  BY <1>2, <1>3, <1>4, <1>6, Finite, StoreAssumption DEF PoolTypes, ClientsCounted

LEMMA RemoveAtIs ==
  ASSUME NEW S, NEW s \in Seq(S), NEW i \in DOMAIN s
  PROVE  /\ RemoveAt(s, i) \in Seq(S) /\ Len(RemoveAt(s, i)) = Len(s) - 1
         /\ \A k \in 1 .. Len(s) - 1 :
              RemoveAt(s, i)[k] = IF k < i THEN s[k] ELSE s[k + 1]
<1> DEFINE left == SubSeq(s, 1, i - 1)
           right == SubSeq(s, i + 1, Len(s))
<1>1. Len(s) \in Nat /\ i \in 1 .. Len(s)
  OBVIOUS
<1>2. left \in Seq(S) /\ Len(left) = i - 1 /\ \A k \in 1 .. i - 1 : left[k] = s[k]
  BY <1>1
<1>3. /\ right \in Seq(S) /\ Len(right) = Len(s) - i
      /\ \A k \in 1 .. Len(s) - i : right[k] = s[i + k]
  BY <1>1
<1>4. RemoveAt(s, i) = left \o right
  BY DEF RemoveAt
<1> HIDE DEF left, right
<1>5. left \o right \in Seq(S) /\ Len(left \o right) = Len(s) - 1
  BY <1>1, <1>2, <1>3
<1>6. ASSUME NEW k \in 1 .. Len(s) - 1
      PROVE  (left \o right)[k] = IF k < i THEN s[k] ELSE s[k + 1]
  <2>1. k < i => (left \o right)[k] = s[k]
    BY <1>1, <1>2, <1>3
  <2>2. ASSUME k >= i PROVE (left \o right)[k] = s[k + 1]
    <3>1. (left \o right)[k] = right[k - (i - 1)]
      BY <1>1, <1>2, <1>3, <2>2
    <3>2. k - (i - 1) \in 1 .. Len(s) - i /\ i + (k - (i - 1)) = k + 1
      BY <1>1, <2>2
    <3> QED BY <1>1, <1>3, <2>2, <3>1, <3>2
  <2>3. k < i \/ k >= i
    BY <1>1
  <2> QED BY <2>1, <2>2, <2>3
<1> QED BY <1>4, <1>5, <1>6

(* The pool rejects a caller that waited too long.                         *)
LEMMA TimeoutKeepsPool ==
  ASSUME PoolInv, NEW c \in Callers, ConnectionTimeout(c) PROVE PoolInv'
<1> USE DEF PoolInv
<1>1. PICK s \in {"idle", "open", "rollingBack"} :
        Goes(c, s) /\ (c \in inTx <=> s # "idle")
  BY DEF ConnectionTimeout, Throws, Back
<1>2. PICK i \in DOMAIN queue : queue[i] = c /\ queue' = RemoveAt(queue, i)
  BY DEF ConnectionTimeout
<1>3. /\ queue' \in Seq(Callers) /\ Len(queue') = Len(queue) - 1
      /\ \A k \in 1 .. Len(queue) - 1 :
           queue'[k] = IF k < i THEN queue[k] ELSE queue[k + 1]
  BY <1>2, RemoveAtIs DEF PoolTypes
<1>4. QueueListsWaiting'
  BY <1>1, <1>2, <1>3, QueueShrinks
<1>5. pc' \in [Callers -> States] /\ Running' = Running
  BY <1>1, RunningMoves DEF ConnectionTimeout, Running
<1>6. InTransaction' /\ HoldersOnly'
  BY <1>1, HoldersMove DEF ConnectionTimeout, PoolTypes
<1> QED
  BY <1>3, <1>4, <1>5, <1>6 DEF ConnectionTimeout, PoolTypes, ClientsCounted

(* The first in the queue has its client.                                  *)
LEMMA GrantKeepsPool == ASSUME PoolInv, ClientGranted PROVE PoolInv'
<1> USE DEF PoolInv
<1> DEFINE c == Head(queue)
<1>0. checkedOut' = checkedOut + 1 /\ checkedOut' \in Int /\ checkedOut' <= PoolSize
  BY StoreAssumption DEF ClientGranted, PoolTypes
<1>1. 1 \in DOMAIN queue /\ c = queue[1] /\ c \in Callers /\ Len(queue) \in Nat \ {0}
  BY DEF ClientGranted, PoolTypes
<1>2. pc[c] \in Waiting
  BY <1>1 DEF QueueListsWaiting
<1>3. /\ queue' \in Seq(Callers) /\ Len(queue') = Len(queue) - 1
      /\ \A k \in 1 .. Len(queue) - 1 :
           queue'[k] = IF k < 1 THEN queue[k] ELSE queue[k + 1]
  BY <1>1 DEF ClientGranted, PoolTypes
<1>4. CASE pc[c] = "connecting"
  <2>1. Goes(c, "open") /\ inTx' = inTx \cup {c}
    BY <1>4 DEF ClientGranted
  <2>2. QueueListsWaiting'
    BY <1>1, <1>3, <2>1, QueueShrinks DEF Waiting, States
  <2>3. pc' \in [Callers -> States] /\ Running' = Running
    BY <1>1, <1>4, <2>1, RunningMoves DEF Running
  <2>4. InTransaction' /\ HoldersOnly'
    BY <1>1, <2>1, HoldersMove DEF PoolTypes
  <2>5. c \notin inTx
    BY <1>1, <1>4 DEF HoldersOnly
  <2>6. Cardinality(inTx') = Cardinality(inTx) + 1
    BY <2>1, <2>5, Finite, FS_AddElement
  <2>7. ClientsCounted'
    BY <1>0, <2>3, <2>6, Finite DEF ClientsCounted
  <2> QED
    BY <1>0, <1>1, <1>3, <2>1, <2>2, <2>3, <2>4, <2>7 DEF PoolTypes
<1>5. CASE pc[c] = "asking"
  <2>1. Goes(c, "running") /\ inTx' = inTx
    BY <1>5 DEF ClientGranted
  <2>2. QueueListsWaiting'
    BY <1>1, <1>3, <2>1, QueueShrinks DEF Waiting, States
  <2>3. pc' \in [Callers -> States] /\ Running' = Running \cup {c}
    BY <1>1, <2>1, RunningMoves
  <2>4. InTransaction' /\ HoldersOnly'
    BY <1>1, <2>1, HoldersMove DEF PoolTypes
  <2>5. c \notin Running
    BY <1>5 DEF Running
  <2>6. Cardinality(Running') = Cardinality(Running) + 1
    BY <2>3, <2>5, Finite, FS_AddElement
  <2>7. ClientsCounted'
    BY <1>0, <2>1, <2>6, Finite DEF ClientsCounted
  <2> QED
    BY <1>0, <1>3, <2>1, <2>2, <2>3, <2>4, <2>7 DEF PoolTypes
<1> QED BY <1>2, <1>4, <1>5

LEMMA NextPoolInv == PoolInv /\ [Next]_vars => PoolInv'
<1> SUFFICES ASSUME PoolInv, [Next]_vars PROVE PoolInv'
  OBVIOUS
<1>1. CASE ClientGranted
  BY <1>1, GrantKeepsPool
<1>2. ASSUME NEW c \in Callers, NEW o \in Ops, Query(c, o) PROVE PoolInv'
  BY <1>2, WaitsKeeps DEF Query
<1>3. ASSUME NEW c \in Callers, Transaction(c) PROVE PoolInv'
  BY <1>3, WaitsKeeps DEF Transaction
<1>4. ASSUME NEW c \in Callers, ConnectionTimeout(c) PROVE PoolInv'
  BY <1>4, TimeoutKeepsPool
<1>5. ASSUME NEW c \in Callers, QueryReturns(c) PROVE PoolInv'
  BY <1>5, QueryOverKeeps DEF QueryReturns
<1>6. ASSUME NEW c \in Callers, QueryFails(c) PROVE PoolInv'
  BY <1>6, QueryOverKeeps DEF QueryFails, Throws
<1>7. ASSUME NEW c \in Callers, NEW o \in {"incrementAttempt", "updateOrderStatus"},
             ClientQuery(c, o)
      PROVE  PoolInv'
  BY <1>7, StepKeeps DEF ClientQuery, poolVars, PoolInv, InTransaction
<1>8. ASSUME NEW c \in Callers, ClientQueryReturns(c) \/ ClientQueryFails(c)
      PROVE  PoolInv'
  BY <1>8, StepKeeps
  DEF ClientQueryReturns, ClientQueryFails, poolVars, PoolInv, InTransaction
<1>9. ASSUME NEW c \in Callers, CallbackThrows(c) PROVE PoolInv'
  BY <1>9, StepKeeps DEF CallbackThrows, poolVars, PoolInv, InTransaction
<1>10. ASSUME NEW c \in Callers, CallbackReturns(c) PROVE PoolInv'
  BY <1>10, StepKeeps DEF CallbackReturns, poolVars, PoolInv, InTransaction
<1>11. ASSUME NEW c \in Callers, Commit(c) PROVE PoolInv'
  BY <1>11, ReleaseKeeps DEF Commit
<1>12. ASSUME NEW c \in Callers, CommitFails(c) PROVE PoolInv'
  BY <1>12, StepKeeps DEF CommitFails, poolVars, PoolInv, InTransaction
<1>13. ASSUME NEW c \in Callers, RollBack(c) PROVE PoolInv'
  BY <1>13, ReleaseKeeps DEF RollBack
<1>14. ASSUME NEW c \in Callers, CreatesOrdersTable(c) PROVE PoolInv'
  BY <1>14 DEF CreatesOrdersTable, poolVars, callVars, PoolInv, PoolTypes, InTransaction,
               HoldersOnly, QueueListsWaiting, ClientsCounted, Running
<1>15. CASE UNCHANGED vars
  BY <1>15 DEF vars, poolVars, callVars, PoolInv, PoolTypes, InTransaction, HoldersOnly,
               QueueListsWaiting, ClientsCounted, Running
<1> QED
  BY <1>1, <1>2, <1>3, <1>4, <1>5, <1>6, <1>7, <1>8, <1>9, <1>10, <1>11, <1>12,
     <1>13, <1>14, <1>15 DEF Next

(* The queue is a bijection from its positions to the callers that wait.   *)
LEMMA PoolInvImplies == PoolInv => ClientsAccounted
<1> SUFFICES ASSUME PoolInv PROVE ClientsAccounted
  OBVIOUS
<1> USE DEF PoolInv
<1>1. Len(queue) \in Nat /\ DOMAIN queue = 1 .. Len(queue)
      /\ queue \in [1 .. Len(queue) -> Callers]
  BY DEF PoolTypes
<1>2. queue \in [1 .. Len(queue) -> InQueue]
  BY <1>1 DEF QueueListsWaiting, InQueue
<1>3. queue \in Bijection(1 .. Len(queue), InQueue)
  BY <1>1, <1>2 DEF QueueListsWaiting, InQueue, Bijection, Injection, Surjection, IsInjective
<1>4. Cardinality(InQueue) = Len(queue)
  BY <1>1, <1>3, FS_CountingElements DEF ExistsBijection
<1>5. InQueue = {queue[i] : i \in DOMAIN queue}
  BY <1>1, <1>2 DEF QueueListsWaiting, InQueue
<1> QED
  BY <1>4, <1>5 DEF ClientsAccounted, ClientsCounted, InQueue, Running

-----------------------------------------------------------------------------
(* For every number of callers and every size of the pool: the clients in  *)
(* use are exactly those of open transactions and running queries, never   *)
(* more than the pool has, and the queue lists exactly the callers waiting. *)
THEOREM ClientsKept == Spec => []ClientsAccounted
BY InitPoolInv, NextPoolInv, PoolInvImplies, PTL DEF Spec

-----------------------------------------------------------------------------
(* Types.  The counters stay within their bound because every statement    *)
(* tests it, and known because it never exceeds the row.                   *)
BoundInv ==
  /\ tables \in BOOLEAN /\ initialized \in BOOLEAN
  /\ row \in 0 .. MaxAttempt /\ written \in 0 .. MaxAttempt /\ known \in Nat
  /\ op \in [Callers -> [name : Ops \cup {"none"}, copy : 0 .. MaxAttempt]]
  /\ touched \subseteq Callers
  /\ health \in [Callers -> {"sound", "aborted", "broken"}]

LEMMA ExecutesWithin ==
  ASSUME BoundInv, NEW c \in Callers, NEW answered \in BOOLEAN, Executes(c, answered)
  PROVE  /\ tables' \in BOOLEAN /\ initialized' \in BOOLEAN
         /\ row' \in 0 .. MaxAttempt /\ written' \in 0 .. MaxAttempt /\ known' \in Nat
         /\ touched' = touched
<1> USE StoreAssumption DEF BoundInv, lockVars
<1>1. After(op[c], row) \in Nat
  BY DEF After
<1>2. CASE op[c].name \in Updates
  BY <1>1, <1>2 DEF Executes, CreatesTables, ReadsOrder, InsertsOrder, UpdatesOrder,
         UpdatesStatus, RecordsError, CountsAttempt
<1>3. CASE op[c].name \notin Updates
  <2>1. CASE CreatesTables(answered)
    <3>1. (initialized \/ answered) \in BOOLEAN
      OBVIOUS
    <3> QED BY <2>1, <3>1 DEF Executes, CreatesTables
  <2>2. CASE ReadsOrder \/ InsertsOrder
    BY <2>2 DEF Executes, ReadsOrder, InsertsOrder
  <2> QED BY <1>3, <2>1, <2>2 DEF Executes
<1> QED BY <1>2, <1>3

LEMMA QueriesWithin ==
  ASSUME BoundInv, NEW c \in Callers, QueryReturns(c) \/ QueryFails(c)
  PROVE  BoundInv'
<1>1. op' = [op EXCEPT ![c] = NoQuery] /\ health' = health
  BY DEF QueryReturns, QueryFails, Throws
<1>2. op' \in [Callers -> [name : Ops \cup {"none"}, copy : 0 .. MaxAttempt]]
  BY <1>1, StoreAssumption DEF BoundInv, NoQuery
<1>3. CASE UNCHANGED rowVars
  BY <1>1, <1>2, <1>3 DEF BoundInv, rowVars, lockVars
<1>4. CASE \E answered \in BOOLEAN : Executes(c, answered)
  BY <1>1, <1>2, <1>4, ExecutesWithin DEF BoundInv
<1> QED BY <1>3, <1>4 DEF QueryReturns, QueryFails

LEMMA CallsWithin ==
  ASSUME BoundInv, NEW c \in Callers, NEW o \in Ops, Query(c, o) \/ ClientQuery(c, o)
  PROVE  BoundInv'
<1>1. UNCHANGED <<rowVars, health>>
  BY DEF Query, ClientQuery, WaitsForClient
<1>2. PICK copy \in 0 .. MaxAttempt : op' = [op EXCEPT ![c] = [name |-> o, copy |-> copy]]
  <2>1. CopiesInHand(o) \subseteq 0 .. MaxAttempt
    BY StoreAssumption DEF CopiesInHand, BoundInv, NoRow
  <2> QED BY <2>1 DEF Query, ClientQuery
<1> QED BY <1>1, <1>2 DEF BoundInv, rowVars, lockVars

LEMMA ClientQueryWithin ==
  ASSUME BoundInv, NEW c \in Callers, ClientQueryReturns(c) \/ ClientQueryFails(c)
  PROVE  BoundInv'
<1> USE StoreAssumption DEF BoundInv, NoRow, lockVars
<1>1. op' \in [Callers -> [name : Ops \cup {"none"}, copy : 0 .. MaxAttempt]]
  BY DEF ClientQueryReturns, ClientQueryFails, NoQuery
<1>2. written' \in 0 .. MaxAttempt
  BY DEF ClientQueryReturns, ClientQueryFails, Undoes, After
<1>3. /\ touched' \subseteq Callers
      /\ health' \in [Callers -> {"sound", "aborted", "broken"}]
  BY DEF ClientQueryReturns, ClientQueryFails, Undoes
<1>4. UNCHANGED <<tables, initialized, row, known>>
  BY DEF ClientQueryReturns, ClientQueryFails
<1> QED BY <1>1, <1>2, <1>3, <1>4

LEMMA EndsWithin ==
  ASSUME IInv, BoundInv, NEW c \in Callers, Commit(c) \/ CommitFails(c) \/ RollBack(c)
  PROVE  BoundInv'
<1> USE StoreAssumption DEF BoundInv, NoRow, lockVars
<1>1. op' = op /\ UNCHANGED <<tables, initialized>>
  BY DEF Commit, CommitFails, RollBack, Releases
<1>2. row' \in 0 .. MaxAttempt /\ written' \in 0 .. MaxAttempt
  BY DEF Commit, CommitFails, RollBack, Commits, Undoes
<1>3. known' \in Nat
  BY DEF IInv, LockedRowGrows, Commit, CommitFails, RollBack
<1>4. /\ touched' \subseteq Callers
      /\ health' \in [Callers -> {"sound", "aborted", "broken"}]
  BY DEF Commit, CommitFails, RollBack, Releases, Commits, Undoes
<1> QED BY <1>1, <1>2, <1>3, <1>4

LEMMA NextWithin == IInv /\ BoundInv /\ [Next]_vars => BoundInv'
<1> SUFFICES ASSUME IInv, BoundInv, [Next]_vars PROVE BoundInv'
  OBVIOUS
<1>1. ASSUME UNCHANGED <<rowVars, health>>,
             UNCHANGED op \/ (\E c \in Callers : op' = [op EXCEPT ![c] = NoQuery])
      PROVE  BoundInv'
  BY <1>1, StoreAssumption DEF BoundInv, rowVars, lockVars, NoQuery
<1>2. CASE ClientGranted
  BY <1>2, <1>1 DEF ClientGranted
<1>3. CASE \E c \in Callers, o \in Ops : Query(c, o) \/ ClientQuery(c, o)
  BY <1>3, CallsWithin
<1>4. CASE \E c \in Callers : \/ Transaction(c) \/ ConnectionTimeout(c)
                              \/ CallbackThrows(c) \/ CallbackReturns(c)
  BY <1>4, <1>1 DEF Transaction, WaitsForClient, ConnectionTimeout, Throws,
                    CallbackThrows, CallbackReturns
<1>5. CASE \E c \in Callers : CreatesOrdersTable(c)
  BY <1>5 DEF CreatesOrdersTable, BoundInv, callVars, lockVars
<1>6. CASE \E c \in Callers : QueryReturns(c) \/ QueryFails(c)
  BY <1>6, QueriesWithin
<1>7. CASE \E c \in Callers : ClientQueryReturns(c) \/ ClientQueryFails(c)
  BY <1>7, ClientQueryWithin
<1>8. CASE \E c \in Callers : Commit(c) \/ CommitFails(c) \/ RollBack(c)
  BY <1>8, EndsWithin
<1>9. CASE UNCHANGED vars
  BY <1>9, <1>1 DEF vars, callVars
<1> QED BY <1>2, <1>3, <1>4, <1>5, <1>6, <1>7, <1>8, <1>9 DEF Next

(* Every variable has its type: the counters of the row, and what is known *)
(* of it, stay within the bound, and the number of clients in use within   *)
(* the pool.                                                               *)
THEOREM TypeCorrect == Spec => []TypeOK
<1>1. Init => BoundInv
  <2>1. 0 \in 0 .. MaxAttempt
    BY StoreAssumption
  <2>2. NoQuery \in [name : Ops \cup {"none"}, copy : 0 .. MaxAttempt]
    BY <2>1 DEF NoQuery
  <2>3. Init => tables \in BOOLEAN /\ initialized \in BOOLEAN
    BY Zenon DEF Init
  <2>4. Init => /\ row \in 0 .. MaxAttempt /\ written \in 0 .. MaxAttempt /\ known \in Nat
                /\ op \in [Callers -> [name : Ops \cup {"none"}, copy : 0 .. MaxAttempt]]
                /\ touched \subseteq Callers
                /\ health \in [Callers -> {"sound", "aborted", "broken"}]
    BY <2>1, <2>2 DEF Init, NoRow
  <2> QED BY <2>3, <2>4 DEF BoundInv
<1>2. IInv /\ PoolInv /\ BoundInv => TypeOK
  <2> SUFFICES ASSUME IInv, PoolInv, BoundInv PROVE TypeOK
    OBVIOUS
  <2>1. IsFiniteSet(inTx) /\ IsFiniteSet(Running)
    BY FS_Subset, StoreAssumption DEF PoolInv, PoolTypes, Running
  <2>2. checkedOut \in 0 .. PoolSize
    BY <2>1, FS_CardinalityType, StoreAssumption DEF PoolInv, PoolTypes, ClientsCounted
  <2>3. known \in 0 .. MaxAttempt
    BY StoreAssumption DEF IInv, IncrementsAreNeverLost, BoundInv
  <2> QED
    BY <2>2, <2>3 DEF IInv, Types, PoolInv, PoolTypes, BoundInv, TypeOK
<1>3. Spec => []BoundInv
  BY <1>1, Invariance, NextWithin, PTL DEF Spec
<1>4. Spec => []PoolInv
  BY InitPoolInv, NextPoolInv, PTL DEF Spec
<1> QED BY <1>2, <1>3, <1>4, Invariance, PTL
=============================================================================
