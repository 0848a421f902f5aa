------------------------------- MODULE PubSub -------------------------------
(***************************************************************************)
(* PubSub: handlers of one Redis channel, which is subscribed for the      *)
(* first of them and unsubscribed after the last.  Channels share nothing  *)
(* but their connection, and the price methods repeat the order methods    *)
(* on channels of their own, so one channel shows them all.                *)
(*                                                                         *)
(* The methods await Redis while calls for other handlers go on.  One      *)
(* connection carries commands to the server, and answers and messages     *)
(* back, in order; publishers use a connection of their own.               *)
(***************************************************************************)
EXTENDS Integers, Sequences, SequencesExt

CONSTANTS
  Handlers,      \* the handlers; the calls about one of them await each other
  RedisMayFail,  \* may a command fail?  RedisClient logs the error and goes on
  HandlersMayThrow,  \* may a handler throw?  RedisClient logs that error too
  MaxMessages,   \* bound: messages on the wire
  MaxListeners   \* bound: listeners from here on are not told apart

ASSUME PubSubAssumption ==
  /\ RedisMayFail \in BOOLEAN
  /\ HandlersMayThrow \in BOOLEAN
  /\ MaxMessages \in Nat
  /\ MaxListeners \in Nat \ {0}

VARIABLES
  present,     \* is the channel a key of the map `handlers'?
  handlers,    \* the set under that key
  listeners,   \* 'message' listeners RedisClient has added for the channel
  pc,          \* where the last call about a handler is, or how it ended
  commands,    \* commands on the wire: who awaits them, pc says what they ask
  stream,      \* answers and messages on their way back
  subscribed,  \* does the server hold a subscription of the connection?
  deaf,        \* the SUBSCRIBE of the present key has failed (history)
  raced,       \* a subscribe and an UNSUBSCRIBE have overlapped (history)
  emptied,     \* an UNSUBSCRIBE was ever sent (history)
  missed       \* how handlers have missed messages meant for them (history)

clientVars  == <<present, handlers, listeners, pc>>
wireVars    == <<commands, stream, subscribed>>
historyVars == <<deaf, raced, emptied, missed>>
vars == <<clientVars, wireVars, historyVars>>

Awaiting == {"subscribing", "acknowledged", "refused", "unsubscribing", "released"}
Leaving  == {"unsubscribing", "released"}
Joining  == Awaiting \ Leaving

\* Answers go to one call, messages are meant for any number of handlers.
Items == [kind : {"done", "failed", "message"}, to : SUBSET Handlers]

TypeOK ==
  /\ present \in BOOLEAN
  /\ handlers \subseteq Handlers
  /\ listeners \in 0 .. MaxListeners
  /\ pc \in [Handlers -> {"idle", "subscribed", "rejected"} \cup Awaiting]
  /\ commands \in Seq(Handlers)
  /\ stream \in Seq(Items)
  /\ subscribed \in BOOLEAN /\ deaf \in BOOLEAN /\ raced \in BOOLEAN /\ emptied \in BOOLEAN
  /\ missed \subseteq {"notSubscribed", "notReached", "cutOff"}

Init ==
  /\ present = FALSE /\ handlers = {} /\ listeners = 0
  /\ pc = [h \in Handlers |-> "idle"]
  /\ commands = <<>> /\ stream = <<>> /\ subscribed = FALSE
  /\ deaf = FALSE /\ raced = FALSE /\ emptied = FALSE /\ missed = {}

In(states) == {h \in Handlers : pc[h] \in states}

-----------------------------------------------------------------------------
(* subscribeToOrderUpdates, subscribeToPriceUpdates.                       *)

\* The key is set before the await: only the first handler asks the server.
Opens(h) ==
  /\ ~present
  /\ present' = TRUE
  /\ handlers' = {}
  /\ deaf' = FALSE
  /\ pc' = [pc EXCEPT ![h] = "subscribing"]
  /\ commands' = Append(commands, h)

\* The others are added at once and do not await the answer of the first.
Joins(h) ==
  /\ present
  /\ handlers' = handlers \cup {h}
  /\ pc' = [pc EXCEPT ![h] = "subscribed"]
  /\ UNCHANGED <<present, deaf, commands>>

\* Faulty variant: every handler subscribes the channel.
Subscribe_EveryTime(h) ==
  /\ pc[h] \in {"idle", "rejected"}
  /\ present' = TRUE
  /\ handlers' = IF present THEN handlers ELSE {}
  /\ pc' = [pc EXCEPT ![h] = "subscribing"]
  /\ commands' = Append(commands, h)
  /\ raced' = (raced \/ In(Leaving) # {})
  /\ UNCHANGED <<deaf, listeners, stream, subscribed, emptied, missed>>

Subscribe(h) ==
  /\ pc[h] \in {"idle", "rejected"}
  /\ Opens(h) \/ Joins(h)
  /\ raced' = (raced \/ In(Leaving) # {})
  /\ UNCHANGED <<listeners, stream, subscribed, emptied, missed>>

\* Faulty variant: the error of a command that has failed is lost.
SubscribeReturns_OnlyDone(h) ==
  /\ pc[h] = "acknowledged"
  /\ listeners' = IF listeners < MaxListeners THEN listeners + 1 ELSE listeners
  /\ handlers' = IF present THEN handlers \cup {h} ELSE handlers
  /\ pc' = [pc EXCEPT ![h] = IF present THEN "subscribed" ELSE "rejected"]
  /\ UNCHANGED <<present, wireVars, historyVars>>

(* The await of the first handler is over: RedisClient adds a listener,    *)
(* unless the command failed, and the handler enters the set, if the key   *)
(* is still there; if not, the call throws.                                *)
SubscribeReturns(h) ==
  /\ pc[h] \in {"acknowledged", "refused"}
  /\ listeners' = IF pc[h] = "acknowledged" /\ listeners < MaxListeners
                  THEN listeners + 1 ELSE listeners
  /\ \/ /\ present
        /\ handlers' = handlers \cup {h}
        /\ pc' = [pc EXCEPT ![h] = "subscribed"]
     \/ /\ ~present
        /\ pc' = [pc EXCEPT ![h] = "rejected"]
        /\ UNCHANGED handlers
  /\ UNCHANGED <<present, wireVars, historyVars>>

-----------------------------------------------------------------------------
(* unsubscribeFromOrderUpdates, unsubscribeFromPriceUpdates.               *)

\* Faulty variant: the channel is unsubscribed with every handler.
Unsubscribe_EveryTime(h) ==
  /\ pc[h] \in {"idle", "subscribed"}
  /\ present
  /\ handlers' = handlers \ {h}
  /\ pc' = [pc EXCEPT ![h] = "unsubscribing"]
  /\ commands' = Append(commands, h)
  /\ raced' = (raced \/ In(Joining) # {})
  /\ emptied' = TRUE
  /\ UNCHANGED <<present, listeners, stream, subscribed, deaf, missed>>

(* The handler leaves the set at once; the server is asked if the set is   *)
(* empty, whether or not the handler was in it.                            *)
Unsubscribe(h) ==
  /\ pc[h] \in {"idle", "subscribed"}
  /\ \/ /\ ~present
        /\ pc' = [pc EXCEPT ![h] = "idle"]
        /\ UNCHANGED <<handlers, commands, raced, emptied>>
     \/ /\ present
        /\ handlers' = handlers \ {h}
        /\ \/ /\ handlers' # {}
              /\ pc' = [pc EXCEPT ![h] = "idle"]
              /\ UNCHANGED <<commands, raced, emptied>>
           \/ /\ handlers' = {}
              /\ pc' = [pc EXCEPT ![h] = "unsubscribing"]
              /\ commands' = Append(commands, h)
              /\ raced' = (raced \/ In(Joining) # {})
              /\ emptied' = TRUE
  /\ UNCHANGED <<present, listeners, stream, subscribed, deaf, missed>>

\* Faulty variant: the key stays.
UnsubscribeReturns_KeepsKey(h) ==
  /\ pc[h] = "released"
  /\ pc' = [pc EXCEPT ![h] = "idle"]
  /\ UNCHANGED <<present, handlers, listeners, wireVars, historyVars>>

\* The key is deleted, with the handlers that have entered the set meanwhile.
UnsubscribeReturns(h) ==
  /\ pc[h] = "released"
  /\ present' = FALSE
  /\ handlers' = {}
  /\ pc' = [pc EXCEPT ![h] = "idle"]
  /\ UNCHANGED <<listeners, wireVars, historyVars>>

-----------------------------------------------------------------------------
(* The connection and the server.                                          *)

\* The server executes a command; what fails has changed nothing there.
ServerAnswers ==
  /\ commands # <<>>
  /\ commands' = Tail(commands)
  /\ LET h == Head(commands)
     IN  \/ /\ stream' = Append(stream, [kind |-> "done", to |-> {h}])
            /\ subscribed' = (pc[h] = "subscribing")
            /\ UNCHANGED deaf
         \/ /\ RedisMayFail
            /\ stream' = Append(stream, [kind |-> "failed", to |-> {h}])
            /\ deaf' = (deaf \/ pc[h] = "subscribing")
            /\ UNCHANGED subscribed
  /\ UNCHANGED <<clientVars, raced, emptied, missed>>

(* An answer arrives.  The call goes on after the messages that arrived in *)
(* the same piece of data, hence in a step of its own.                     *)
AnswerArrives ==
  /\ stream # <<>>
  /\ Head(stream).kind # "message"
  /\ stream' = Tail(stream)
  /\ \E h \in Head(stream).to :
       pc' = [pc EXCEPT ![h] = IF pc[h] = "unsubscribing" THEN "released"
                               ELSE IF Head(stream).kind = "done" THEN "acknowledged"
                               ELSE "refused"]
  /\ UNCHANGED <<present, handlers, listeners, commands, subscribed, historyVars>>

\* The channel awaits nothing from the server.
Quiet == In(Awaiting) = {}

\* Messages a publisher may expect to reach the handlers that are subscribed.
Expected == IF Quiet /\ ~deaf THEN In({"subscribed"}) ELSE {}

\* publishOrderUpdate, publishPriceUpdate: lost unless the channel is subscribed.
Publish ==
  /\ Len(SelectSeq(stream, LAMBDA x : x.kind = "message")) < MaxMessages
  /\ \/ /\ subscribed
        /\ stream' = Append(stream, [kind |-> "message", to |-> Expected])
        /\ UNCHANGED missed
     \/ /\ ~subscribed
        /\ missed' = missed \cup (IF Expected = {} THEN {} ELSE {"notSubscribed"})
        /\ UNCHANGED stream
  /\ UNCHANGED <<clientVars, commands, subscribed, deaf, raced, emptied>>

\* Faulty variant: a message reaches the first handler only.
Reached_First == IF present /\ listeners > 0 /\ handlers # {}
                 THEN {CHOOSE h \in handlers : TRUE} ELSE {}

\* The handlers a message is passed to, once by every listener.
Reached == IF present /\ listeners > 0 THEN handlers ELSE {}

(* A handler that throws ends the loop over the set, and the error goes no *)
(* further than the listener: those after it are not called.  The order of *)
(* the set is left open.                                                   *)
Called(heard) == heard = Reached \/ (HandlersMayThrow /\ heard # {})

\* A message arrives; who has unsubscribed meanwhile does not miss it.
MessageArrives ==
  /\ stream # <<>>
  /\ Head(stream).kind = "message"
  /\ stream' = Tail(stream)
  /\ LET meant == Head(stream).to \cap In({"subscribed"})
     IN  \E heard \in SUBSET Reached :
           /\ Called(heard)
           /\ missed' = missed
                \cup (IF meant \subseteq Reached THEN {} ELSE {"notReached"})
                \cup (IF meant \cap Reached \subseteq heard THEN {} ELSE {"cutOff"})
  /\ UNCHANGED <<clientVars, commands, subscribed, deaf, raced, emptied>>

-----------------------------------------------------------------------------
Next ==
  \/ \E h \in Handlers : Subscribe(h)
  \/ \E h \in Handlers : SubscribeReturns(h)
  \/ \E h \in Handlers : Unsubscribe(h)
  \/ \E h \in Handlers : UnsubscribeReturns(h)
  \/ ServerAnswers
  \/ AnswerArrives
  \/ Publish
  \/ MessageArrives

Spec == Init /\ [][Next]_vars

\* The connection makes progress in both directions and awaits end.
FairSpec ==
  /\ Spec
  /\ WF_vars(ServerAnswers)
  /\ WF_vars(AnswerArrives \/ MessageArrives)
  /\ \A h \in Handlers : WF_vars(SubscribeReturns(h) \/ UnsubscribeReturns(h))

-----------------------------------------------------------------------------
(* Safety.                                                                 *)

(* A channel with a key that awaits nothing is subscribed at the server    *)
(* and has a listener, however calls have overlapped, unless its own       *)
(* SUBSCRIBE failed: who is added to the set without asking the server     *)
(* can rely on the handler who asked.                                      *)
OpenChannelIsReached == (Quiet /\ present /\ ~deaf) => subscribed /\ listeners > 0

(* No handler is called before it subscribes or after it has unsubscribed, *)
(* and as long as no subscribe and UNSUBSCRIBE have overlapped the handlers *)
(* whose subscribe has returned are exactly those in the set, no call has  *)
(* thrown, and the key is gone when the last handler is.                   *)
SubscribersAreRegistered ==
  /\ handlers \subseteq In({"subscribed"})
  /\ ~raced =>
       /\ handlers = In({"subscribed"})
       /\ In({"rejected"}) = {}
       /\ (Quiet /\ present) => handlers # {}

(* A message published while the channel awaits nothing reaches every      *)
(* handler subscribed then and still subscribed when it arrives, with the  *)
(* same exceptions, unless another handler in the set throws at it first:  *)
(* neither the server, nor the listener, nor the set loses it.             *)
MissedOnlyIfCutOff ==
  ~raced => missed \subseteq IF HandlersMayThrow THEN {"cutOff"} ELSE {}

(* Until the channel is unsubscribed for the first time no message is      *)
(* passed to a handler twice, whatever number of handlers there is; after  *)
(* that every further SUBSCRIBE adds a listener, since none is removed.    *)
PassedOnce == ~emptied => listeners <= 1

-----------------------------------------------------------------------------
(* Liveness.                                                               *)

(* Every call ends, also when commands fail and when calls overlap.        *)
CallsEnd == \A h \in Handlers : pc[h] \in Awaiting ~> pc[h] \notin Awaiting
=============================================================================
