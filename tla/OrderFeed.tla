------------------------------ MODULE OrderFeed ------------------------------
(***************************************************************************)
(* What the service promises those who follow an order, without engine,    *)
(* sockets, indexes or heartbeats: every order has a log that only grows   *)
(* and is complete with the outcome; a reader gets at once and in order    *)
(* whatever is added while it follows the order, and nothing else; and     *)
(* nobody starts or stops following an order through what others do.       *)
(***************************************************************************)
EXTENDS Integers, Sequences, SequencesExt

CONSTANTS
  Followed,   \* what can be followed: the orders
  Readers,    \* who may follow
  Closing     \* the messages after which there are none

VARIABLES
  log,        \* what has been published about each order
  following,  \* who follows it
  read        \* what each reader got since it follows

feedVars == <<log, following, read>>

FeedInit ==
  /\ log = [o \in Followed |-> <<>>]
  /\ following = [o \in Followed |-> {}]
  /\ read = [o \in Followed |-> [r \in Readers |-> <<>>]]

Closed(o) == log[o] # <<>> /\ Last(log[o]) \in Closing

\* News about an order, which may be several messages, reach those who follow it.
Publish(o) ==
  LET news == SubSeq(log'[o], Len(log[o]) + 1, Len(log'[o]))
  IN  /\ ~Closed(o)
      /\ log' = [log EXCEPT ![o] = @ \o news]
      /\ read' = [read EXCEPT ![o] = [r \in Readers |->
                   IF r \in following[o] THEN @[r] \o news ELSE @[r]]]
      /\ UNCHANGED following

\* An order can be followed, from now on, once something was published about it.
Follow(o, r) ==
  /\ log[o] # <<>>
  /\ following' = [following EXCEPT ![o] = @ \cup {r}]
  /\ UNCHANGED <<log, read>>

\* A reader stops following some orders and forgets what it read about them.
Leave(r, left) ==
  /\ following' = [o \in Followed |-> IF o \in left THEN following[o] \ {r} ELSE following[o]]
  /\ read' = [o \in Followed |-> [s \in Readers |->
               IF s = r /\ o \in left THEN <<>> ELSE read[o][s]]]
  /\ UNCHANGED log

FeedNext ==
  \/ \E o \in Followed : Publish(o)
  \/ \E o \in Followed, r \in Readers : Follow(o, r)
  \/ \E r \in Readers, left \in SUBSET Followed : Leave(r, left)

FeedSpec == FeedInit /\ [][FeedNext]_feedVars
=============================================================================
