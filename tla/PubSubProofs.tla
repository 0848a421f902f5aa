---------------------------- MODULE PubSubProofs ----------------------------
(***************************************************************************)
(* Theorems about PubSub, for every set of handlers, any number of         *)
(* messages on the wire, and with or without commands that fail.           *)
(***************************************************************************)
EXTENDS PubSub, SequenceTheorems, TLAPS

\* What a call awaits while its command or the answer to it is on the wire.
Asking == {"subscribing", "unsubscribing"}

IsAnswer(i, h) == stream[i].kind # "message" /\ stream[i].to = {h}

(* The wire carries at most one thing for a call, its command or the       *)
(* answer, and only while the call waits for it.                           *)
Wire ==
  /\ \A i \in 1 .. Len(commands) : pc[commands[i]] \in Asking
  /\ \A i, k \in 1 .. Len(commands) : commands[i] = commands[k] => i = k
  /\ \A i \in 1 .. Len(stream) : stream[i].kind # "message" =>
       \E h \in Handlers : IsAnswer(i, h) /\ pc[h] \in Asking
  /\ \A i \in 1 .. Len(stream), k \in 1 .. Len(commands) : ~IsAnswer(i, commands[k])
  /\ \A i, k \in 1 .. Len(stream), h \in Handlers :
       IsAnswer(i, h) /\ IsAnswer(k, h) => i = k

WireInv == TypeOK /\ Wire

-----------------------------------------------------------------------------
(* What is on the wire.                                                    *)

\* IsAnswer after a step.
AnswerTo(i, h) == stream'[i].kind # "message" /\ stream'[i].to = {h}

LEMMA WireAfter ==
  ASSUME \A i \in 1 .. Len(commands') : pc'[commands'[i]] \in Asking,
         \A i, k \in 1 .. Len(commands') : commands'[i] = commands'[k] => i = k,
         \A i \in 1 .. Len(stream') : stream'[i].kind # "message" =>
           \E h \in Handlers : AnswerTo(i, h) /\ pc'[h] \in Asking,
         \A i \in 1 .. Len(stream'), k \in 1 .. Len(commands') : ~AnswerTo(i, commands'[k]),
         \A i, k \in 1 .. Len(stream'), h \in Handlers :
           AnswerTo(i, h) /\ AnswerTo(k, h) => i = k
  PROVE  Wire'
<1>1. \A i, h : IsAnswer(i, h)' <=> AnswerTo(i, h)
  BY DEF IsAnswer, AnswerTo
<1>2. Asking' = Asking /\ Handlers' = Handlers
  BY DEF Asking
<1>3. QED
  BY <1>1, <1>2 DEF Wire

LEMMA SameStream ==
  ASSUME UNCHANGED stream
  PROVE  \A i, h : AnswerTo(i, h) <=> IsAnswer(i, h)
BY DEF AnswerTo, IsAnswer

LEMMA AppendAt ==
  ASSUME NEW S, NEW s \in Seq(S), NEW x \in S
  PROVE  /\ Append(s, x) \in Seq(S)
         /\ Len(Append(s, x)) = Len(s) + 1
         /\ \A i \in 1 .. Len(s) : Append(s, x)[i] = s[i]
         /\ Append(s, x)[Len(s) + 1] = x
OBVIOUS

LEMMA TailAt ==
  ASSUME NEW S, NEW s \in Seq(S), s # <<>>
  PROVE  /\ Tail(s) \in Seq(S) /\ Head(s) = s[1] /\ Head(s) \in S
         /\ Len(s) \in Nat /\ Len(s) > 0 /\ Len(Tail(s)) = Len(s) - 1
         /\ \A i \in 1 .. Len(Tail(s)) : i + 1 \in 1 .. Len(s) /\ Tail(s)[i] = s[i + 1]
OBVIOUS

LEMMA CommandsAreHandlers ==
  ASSUME TypeOK
  PROVE  \A k \in 1 .. Len(commands) : commands[k] \in Handlers
BY DEF TypeOK

\* A call sends a command.
LEMMA SendsCommand ==
  ASSUME WireInv, NEW h \in Handlers, pc[h] \notin Asking, NEW w \in Asking,
         pc' = [pc EXCEPT ![h] = w], commands' = Append(commands, h), UNCHANGED stream
  PROVE  Wire'
<1>1. /\ commands \in Seq(Handlers) /\ pc \in [Handlers -> {"idle", "subscribed", "rejected"} \cup Awaiting]
      /\ stream \in Seq(Items)
  BY DEF WireInv, TypeOK
<1>2. /\ Len(commands') = Len(commands) + 1 /\ Len(commands) \in Nat
      /\ \A i \in 1 .. Len(commands) : commands'[i] = commands[i] /\ commands[i] \in Handlers
      /\ commands'[Len(commands) + 1] = h
  BY <1>1, AppendAt
<1>3. \A g \in Handlers : g # h => pc'[g] = pc[g]
  BY <1>1
<1>4. pc'[h] = w
  BY <1>1
<1>5. \A i \in 1 .. Len(commands) : commands[i] # h
  BY DEF WireInv, Wire
<1>6. \A i \in 1 .. Len(stream) : ~IsAnswer(i, h)
  BY DEF WireInv, Wire, IsAnswer
<1>7. \A i \in 1 .. Len(commands') : pc'[commands'[i]] \in Asking
  BY <1>2, <1>3, <1>4, <1>5 DEF WireInv, Wire
<1>8. \A i, k \in 1 .. Len(commands') : commands'[i] = commands'[k] => i = k
  BY <1>2, <1>5 DEF WireInv, Wire
<1>9. \A i \in 1 .. Len(stream) : stream[i].kind # "message" =>
        \E g \in Handlers : IsAnswer(i, g) /\ pc'[g] \in Asking
  BY <1>3, <1>6 DEF WireInv, Wire
<1>10. \A i \in 1 .. Len(stream), k \in 1 .. Len(commands') : ~IsAnswer(i, commands'[k])
  BY <1>2, <1>6 DEF WireInv, Wire
<1>11. \A i, k \in 1 .. Len(stream), g \in Handlers :
         IsAnswer(i, g) /\ IsAnswer(k, g) => i = k
  BY DEF WireInv, Wire
<1>12. QED
  BY <1>7, <1>8, <1>9, <1>10, <1>11, SameStream, WireAfter

\* A call that has nothing on the wire goes on without the server.
LEMMA LeavesWireAlone ==
  ASSUME WireInv, NEW h \in Handlers, pc[h] \notin Asking, NEW w,
         pc' = [pc EXCEPT ![h] = w], UNCHANGED <<commands, stream>>
  PROVE  Wire'
<1>1. \A g \in Handlers : pc[g] \in Asking => pc'[g] = pc[g]
  BY DEF WireInv, TypeOK
<1>2. \A i \in 1 .. Len(commands) : commands[i] \in Handlers
  BY DEF WireInv, TypeOK
<1>3. \A i \in 1 .. Len(commands) : pc'[commands[i]] \in Asking
  BY <1>1, <1>2 DEF WireInv, Wire
<1>4. \A i \in 1 .. Len(stream) : stream[i].kind # "message" =>
        \E g \in Handlers : IsAnswer(i, g) /\ pc'[g] \in Asking
  BY <1>1 DEF WireInv, Wire
<1>5. QED
  BY <1>3, <1>4 DEF WireInv, Wire, IsAnswer

LEMMA ServerAnswersWire ==
  ASSUME WireInv, ServerAnswers
  PROVE  Wire'
<1> DEFINE h == Head(commands)
<1>1. /\ commands \in Seq(Handlers) /\ commands # <<>> /\ stream \in Seq(Items)
      /\ UNCHANGED pc
  BY DEF WireInv, TypeOK, ServerAnswers, clientVars
<1>2. PICK kind \in {"done", "failed"} : stream' = Append(stream, [kind |-> kind, to |-> {h}])
  BY DEF ServerAnswers
<1>3. /\ h \in Handlers /\ h = commands[1] /\ 1 \in 1 .. Len(commands)
      /\ Len(commands) \in Nat /\ Len(commands') = Len(commands) - 1
      /\ \A i \in 1 .. Len(commands') :
           i + 1 \in 1 .. Len(commands) /\ commands'[i] = commands[i + 1]
  BY <1>1, TailAt DEF ServerAnswers
<1> DEFINE item == [kind |-> kind, to |-> {h}]
<1>4. item \in Items /\ item.kind # "message" /\ item.to = {h}
  BY <1>3 DEF Items
<1> HIDE DEF h, item
<1>5. stream' = Append(stream, item)
  BY <1>2 DEF item
<1>6. /\ Len(stream') = Len(stream) + 1 /\ Len(stream) \in Nat
      /\ \A i \in 1 .. Len(stream) : stream'[i] = stream[i]
      /\ stream'[Len(stream) + 1] = item
  BY <1>1, <1>4, <1>5, AppendAt
<1>7. pc[h] \in Asking /\ \A i \in 1 .. Len(commands') : commands'[i] # h /\ pc[commands'[i]] \in Asking
  BY <1>3 DEF WireInv, Wire
<1>8. \A i, k \in 1 .. Len(commands') : commands'[i] = commands'[k] => i = k
  <2> SUFFICES ASSUME NEW i \in 1 .. Len(commands'), NEW k \in 1 .. Len(commands'),
                      commands'[i] = commands'[k]
               PROVE  i = k
    OBVIOUS
  <2>1. i + 1 = k + 1
    BY <1>3 DEF WireInv, Wire
  <2>2. QED
    BY <2>1
<1>9. \A i \in 1 .. Len(stream), g \in Handlers : AnswerTo(i, g) <=> IsAnswer(i, g)
  BY <1>6 DEF IsAnswer, AnswerTo
<1>10. AnswerTo(Len(stream) + 1, h) /\ \A g \in Handlers : AnswerTo(Len(stream) + 1, g) => g = h
  <2>1. \A g \in Handlers : {h} = {g} => g = h
    OBVIOUS
  <2>2. QED
    BY <1>4, <1>6, <2>1 DEF AnswerTo
<1>11. \A i \in 1 .. Len(stream) : ~IsAnswer(i, h)
  BY <1>3 DEF WireInv, Wire
<1>13. ASSUME NEW i \in 1 .. Len(stream'), stream'[i].kind # "message"
       PROVE  \E g \in Handlers : AnswerTo(i, g) /\ pc'[g] \in Asking
  <2>1. CASE i = Len(stream) + 1
    BY <1>1, <1>3, <1>7, <1>10, <2>1
  <2>2. CASE i \in 1 .. Len(stream)
    <3>1. PICK g \in Handlers : IsAnswer(i, g) /\ pc[g] \in Asking
      BY <1>6, <1>13, <2>2 DEF WireInv, Wire
    <3>2. QED
      BY <1>1, <1>9, <2>2, <3>1
  <2>3. QED
    BY <1>6, <2>1, <2>2
<1>14. ASSUME NEW i \in 1 .. Len(stream'), NEW k \in 1 .. Len(commands')
       PROVE  ~AnswerTo(i, commands'[k])
  <2>1. commands'[k] = commands[k + 1] /\ k + 1 \in 1 .. Len(commands)
    BY <1>3
  <2>2. commands'[k] \in Handlers /\ commands'[k] # h
    BY <1>7, <2>1, CommandsAreHandlers DEF WireInv
  <2>3. CASE i = Len(stream) + 1
    BY <1>10, <2>2, <2>3
  <2>4. CASE i \in 1 .. Len(stream)
    <3>1. ~IsAnswer(i, commands[k + 1])
      BY <2>1, <2>4 DEF WireInv, Wire
    <3>2. QED
      BY <1>9, <2>1, <2>2, <2>4, <3>1
  <2>5. QED
    BY <1>6, <2>3, <2>4
<1>15. ASSUME NEW i \in 1 .. Len(stream'), NEW k \in 1 .. Len(stream'), NEW g \in Handlers,
              AnswerTo(i, g), AnswerTo(k, g)
       PROVE  i = k
  <2>1. \/ i = Len(stream) + 1 /\ k = Len(stream) + 1
        \/ i = Len(stream) + 1 /\ k \in 1 .. Len(stream)
        \/ i \in 1 .. Len(stream) /\ k = Len(stream) + 1
        \/ i \in 1 .. Len(stream) /\ k \in 1 .. Len(stream)
    BY <1>6
  <2>2. QED
    BY <1>9, <1>10, <1>11, <1>15, <2>1 DEF WireInv, Wire
<1>16. \A i \in 1 .. Len(commands') : pc'[commands'[i]] \in Asking
  BY <1>1, <1>7
<1>17. QED
  BY <1>8, <1>13, <1>14, <1>15, <1>16, WireAfter

(* The first item of the stream arrives: what is left keeps its order.     *)
LEMMA StreamArrives ==
  ASSUME WireInv, stream # <<>>, stream' = Tail(stream)
  PROVE  /\ Len(stream) \in Nat /\ 1 \in 1 .. Len(stream) /\ Head(stream) = stream[1]
         /\ Head(stream) \in Items /\ stream' \in Seq(Items)
         /\ \A i \in 1 .. Len(stream') :
              /\ i + 1 \in 2 .. Len(stream) /\ i + 1 \in 1 .. Len(stream)
              /\ stream'[i] = stream[i + 1]
<1>1. stream \in Seq(Items)
  BY DEF WireInv, TypeOK
<1>2. QED
  BY <1>1, TailAt

LEMMA AnswerArrivesWire ==
  ASSUME WireInv, AnswerArrives
  PROVE  /\ Wire'
         /\ \E h \in Handlers :
              /\ pc[h] \in Asking /\ IsAnswer(1, h)
              /\ \A k \in 1 .. Len(commands) : commands[k] # h
              /\ \A i \in 2 .. Len(stream) : ~IsAnswer(i, h)
              /\ pc' = [pc EXCEPT ![h] = IF pc[h] = "unsubscribing" THEN "released"
                                         ELSE IF Head(stream).kind = "done" THEN "acknowledged"
                                         ELSE "refused"]
<1>1. /\ stream # <<>> /\ stream' = Tail(stream) /\ Head(stream).kind # "message"
      /\ UNCHANGED commands
  BY DEF AnswerArrives
<1>2. /\ Len(stream) \in Nat /\ 1 \in 1 .. Len(stream) /\ Head(stream) = stream[1]
      /\ \A i \in 1 .. Len(stream') :
           /\ i + 1 \in 2 .. Len(stream) /\ i + 1 \in 1 .. Len(stream)
           /\ stream'[i] = stream[i + 1]
  BY <1>1, StreamArrives
<1>3. PICK h \in Handlers : IsAnswer(1, h) /\ pc[h] \in Asking
  BY <1>1, <1>2 DEF WireInv, Wire
<1>4. pc' = [pc EXCEPT ![h] = IF pc[h] = "unsubscribing" THEN "released"
                              ELSE IF Head(stream).kind = "done" THEN "acknowledged"
                              ELSE "refused"]
  BY <1>2, <1>3 DEF AnswerArrives, IsAnswer
<1>5. \A k \in 1 .. Len(commands) : commands[k] # h
  BY <1>2, <1>3 DEF WireInv, Wire
<1>6. ASSUME NEW i \in 2 .. Len(stream) PROVE ~IsAnswer(i, h)
  <2>1. i \in 1 .. Len(stream) /\ i # 1
    BY <1>2
  <2>2. QED
    BY <1>2, <1>3, <2>1 DEF WireInv, Wire
<1>7. \A g \in Handlers : g # h => pc'[g] = pc[g]
  BY <1>4 DEF WireInv, TypeOK
<1>8. \A k \in 1 .. Len(commands) : commands[k] \in Handlers
  BY DEF WireInv, TypeOK
<1>9. \A k \in 1 .. Len(commands) : pc'[commands[k]] \in Asking
  BY <1>5, <1>7, <1>8 DEF WireInv, Wire
<1>10. \A i \in 1 .. Len(stream'), g \in Handlers : AnswerTo(i, g) <=> IsAnswer(i + 1, g)
  BY <1>2 DEF IsAnswer, AnswerTo
<1>11. ASSUME NEW i \in 1 .. Len(stream'), stream'[i].kind # "message"
       PROVE  \E g \in Handlers : AnswerTo(i, g) /\ pc'[g] \in Asking
  <2>1. i + 1 \in 1 .. Len(stream) /\ i + 1 \in 2 .. Len(stream) /\ stream[i + 1].kind # "message"
    BY <1>2, <1>11
  <2>2. PICK g \in Handlers : IsAnswer(i + 1, g) /\ pc[g] \in Asking
    BY <2>1 DEF WireInv, Wire
  <2>3. g # h
    BY <1>6, <2>1, <2>2
  <2>4. QED
    BY <1>7, <1>10, <2>2, <2>3
<1>12. \A i \in 1 .. Len(stream'), k \in 1 .. Len(commands) : ~AnswerTo(i, commands[k])
  BY <1>2, <1>8, <1>10 DEF WireInv, Wire
<1>13. ASSUME NEW i \in 1 .. Len(stream'), NEW k \in 1 .. Len(stream'), NEW g \in Handlers,
              AnswerTo(i, g), AnswerTo(k, g)
       PROVE  i = k
  <2>1. i + 1 = k + 1
    BY <1>2, <1>10, <1>13 DEF WireInv, Wire
  <2>2. QED
    BY <2>1
<1>14. Wire'
  <2>1. \A i \in 1 .. Len(commands') : pc'[commands'[i]] \in Asking
    BY <1>1, <1>9
  <2>2. \A i, k \in 1 .. Len(commands') : commands'[i] = commands'[k] => i = k
    BY <1>1 DEF WireInv, Wire
  <2>3. \A i \in 1 .. Len(stream'), k \in 1 .. Len(commands') : ~AnswerTo(i, commands'[k])
    BY <1>1, <1>12
  <2>4. QED
    BY <1>11, <1>13, <2>1, <2>2, <2>3, WireAfter
<1>15. QED
  BY <1>3, <1>4, <1>5, <1>6, <1>14

LEMMA MessageArrivesWire ==
  ASSUME WireInv, MessageArrives
  PROVE  Wire'
<1>1. stream # <<>> /\ stream' = Tail(stream) /\ UNCHANGED <<commands, pc>>
  BY DEF MessageArrives, clientVars
<1>2. \A i \in 1 .. Len(stream') : i + 1 \in 1 .. Len(stream) /\ stream'[i] = stream[i + 1]
  BY <1>1, StreamArrives
<1>3. \A i \in 1 .. Len(stream'), g \in Handlers : AnswerTo(i, g) <=> IsAnswer(i + 1, g)
  BY <1>2 DEF IsAnswer, AnswerTo
<1>4. \A i \in 1 .. Len(stream') : stream'[i].kind # "message" =>
        \E g \in Handlers : AnswerTo(i, g) /\ pc'[g] \in Asking
  BY <1>1, <1>2, <1>3 DEF WireInv, Wire
<1>5. \A i \in 1 .. Len(stream'), k \in 1 .. Len(commands) : ~AnswerTo(i, commands[k])
  BY <1>2, <1>3, CommandsAreHandlers DEF WireInv, Wire
<1>6. ASSUME NEW i \in 1 .. Len(stream'), NEW k \in 1 .. Len(stream'), NEW g \in Handlers,
             AnswerTo(i, g), AnswerTo(k, g)
      PROVE  i = k
  <2>1. i + 1 = k + 1
    BY <1>2, <1>3, <1>6 DEF WireInv, Wire
  <2>2. QED
    BY <2>1
<1>7. /\ \A i \in 1 .. Len(commands') : pc'[commands'[i]] \in Asking
      /\ \A i, k \in 1 .. Len(commands') : commands'[i] = commands'[k] => i = k
  BY <1>1 DEF WireInv, Wire
<1>8. \A i \in 1 .. Len(stream'), k \in 1 .. Len(commands') : ~AnswerTo(i, commands'[k])
  BY <1>1, <1>5
<1>9. QED
  BY <1>4, <1>6, <1>7, <1>8, WireAfter

LEMMA PublishWire ==
  ASSUME WireInv, Publish
  PROVE  Wire' /\ stream' \in Seq(Items)
<1>1. UNCHANGED <<commands, pc>>
  BY DEF Publish, clientVars
<1>2. CASE UNCHANGED stream
  <2>1. stream' \in Seq(Items)
    BY <1>2 DEF WireInv, TypeOK
  <2>2. \A i, h : AnswerTo(i, h) <=> IsAnswer(i, h)
    BY <1>2, SameStream
  <2>3. /\ \A i \in 1 .. Len(commands') : pc'[commands'[i]] \in Asking
        /\ \A i, k \in 1 .. Len(commands') : commands'[i] = commands'[k] => i = k
    BY <1>1 DEF WireInv, Wire
  <2>4. \A i \in 1 .. Len(stream') : stream'[i].kind # "message" =>
          \E h \in Handlers : AnswerTo(i, h) /\ pc'[h] \in Asking
    BY <1>1, <1>2, <2>2 DEF WireInv, Wire
  <2>5. \A i \in 1 .. Len(stream'), k \in 1 .. Len(commands') : ~AnswerTo(i, commands'[k])
    BY <1>1, <1>2, <2>2 DEF WireInv, Wire
  <2>6. \A i, k \in 1 .. Len(stream'), h \in Handlers :
          AnswerTo(i, h) /\ AnswerTo(k, h) => i = k
    BY <1>2, <2>2 DEF WireInv, Wire
  <2>7. QED
    BY <2>1, <2>3, <2>4, <2>5, <2>6, WireAfter
<1>3. CASE stream' = Append(stream, [kind |-> "message", to |-> Expected])
  <2> DEFINE item == [kind |-> "message", to |-> Expected]
  <2>1. item \in Items /\ item.kind = "message"
    BY DEF Items, Expected, In
  <2> HIDE DEF item
  <2>2. stream \in Seq(Items) /\ stream' = Append(stream, item)
    BY <1>3 DEF WireInv, TypeOK, item
  <2>3. /\ stream' \in Seq(Items)
        /\ Len(stream') = Len(stream) + 1 /\ Len(stream) \in Nat
        /\ \A i \in 1 .. Len(stream) : stream'[i] = stream[i]
        /\ stream'[Len(stream) + 1] = item
    BY <2>1, <2>2, AppendAt
  <2>4. \A i \in 1 .. Len(stream') : stream'[i].kind # "message" =>
          i \in 1 .. Len(stream) /\ stream'[i] = stream[i]
    BY <2>1, <2>3
  <2>5. \A i \in 1 .. Len(stream'), g \in Handlers : AnswerTo(i, g) => i \in 1 .. Len(stream) /\ IsAnswer(i, g)
    BY <2>3, <2>4 DEF IsAnswer, AnswerTo
  <2>6. \A i \in 1 .. Len(stream), g \in Handlers : IsAnswer(i, g) => AnswerTo(i, g)
    BY <2>3 DEF IsAnswer, AnswerTo
  <2>7. \A i \in 1 .. Len(stream') : stream'[i].kind # "message" =>
          \E g \in Handlers : AnswerTo(i, g) /\ pc'[g] \in Asking
    BY <1>1, <2>4, <2>6 DEF WireInv, Wire
  <2>8. /\ \A i \in 1 .. Len(stream'), k \in 1 .. Len(commands) : ~AnswerTo(i, commands[k])
        /\ \A i, k \in 1 .. Len(stream'), g \in Handlers : AnswerTo(i, g) /\ AnswerTo(k, g) => i = k
    BY <2>5, CommandsAreHandlers DEF WireInv, Wire
  <2>9. Wire'
    <3>1. /\ \A i \in 1 .. Len(commands') : pc'[commands'[i]] \in Asking
          /\ \A i, k \in 1 .. Len(commands') : commands'[i] = commands'[k] => i = k
      BY <1>1 DEF WireInv, Wire
    <3>2. \A i \in 1 .. Len(stream'), k \in 1 .. Len(commands') : ~AnswerTo(i, commands'[k])
      BY <1>1, <2>8
    <3>3. QED
      BY <2>7, <2>8, <3>1, <3>2, WireAfter
  <2>10. QED
    BY <2>3, <2>9
<1>4. QED
  BY <1>2, <1>3 DEF Publish

-----------------------------------------------------------------------------
(* Type correctness.                                                       *)

Flags == /\ present \in BOOLEAN /\ subscribed \in BOOLEAN
         /\ deaf \in BOOLEAN /\ raced \in BOOLEAN /\ emptied \in BOOLEAN

Contents ==
  /\ handlers \subseteq Handlers
  /\ missed \subseteq {"notSubscribed", "notReached", "cutOff"}
  /\ listeners \in 0 .. MaxListeners
  /\ pc \in [Handlers -> {"idle", "subscribed", "rejected"} \cup Awaiting]

Sequences == commands \in Seq(Handlers) /\ stream \in Seq(Items)

LEMMA TypeParts == TypeOK <=> Flags /\ Contents /\ Sequences
BY DEF TypeOK, Flags, Contents, Sequences

LEMMA WireStep == WireInv /\ [Next]_vars => WireInv'
<1> SUFFICES ASSUME WireInv, [Next]_vars PROVE WireInv'
  OBVIOUS
<1> USE DEF WireInv
<1>1. TypeOK
  OBVIOUS
<1>2. ASSUME NEW h \in Handlers, Subscribe(h) PROVE WireInv'
  <2>1. Wire'
    <3>1. CASE Opens(h)
      BY <1>2, <3>1, SendsCommand DEF Subscribe, Opens, Asking
    <3>2. CASE Joins(h)
      BY <1>2, <3>2, LeavesWireAlone DEF Subscribe, Joins, Asking
    <3>3. QED
      BY <1>2, <3>1, <3>2 DEF Subscribe
  <2>2. TypeOK'
    <3>1. Flags'
      BY <1>1, TypeParts, <1>2 DEF Flags, Subscribe, Opens, Joins, Awaiting
    <3>2. Contents'
      BY <1>1, TypeParts, <1>2 DEF Contents, Subscribe, Opens, Joins, Awaiting
    <3>3. Sequences'
      BY <1>1, TypeParts, <1>2 DEF Sequences, Subscribe, Opens, Joins, Awaiting
    <3>4. QED
      BY <3>1, <3>2, <3>3 DEF TypeOK, Flags, Contents, Sequences
  <2>3. QED
    BY <2>1, <2>2
<1>3. ASSUME NEW h \in Handlers, SubscribeReturns(h) PROVE WireInv'
  <2>1. Wire'
    BY <1>3, LeavesWireAlone DEF SubscribeReturns, wireVars, Asking
  <2>2. TypeOK'
    BY <1>1, <1>3, PubSubAssumption DEF TypeOK, SubscribeReturns, wireVars, historyVars
  <2>3. QED
    BY <2>1, <2>2
<1>4. ASSUME NEW h \in Handlers, Unsubscribe(h) PROVE WireInv'
  <2>1. Wire'
    <3>1. CASE commands' = Append(commands, h) /\ pc' = [pc EXCEPT ![h] = "unsubscribing"]
      BY <1>4, <3>1, SendsCommand DEF Unsubscribe, Asking
    <3>2. CASE UNCHANGED commands /\ pc' = [pc EXCEPT ![h] = "idle"]
      BY <1>4, <3>2, LeavesWireAlone DEF Unsubscribe, Asking
    <3>3. QED
      BY <1>4, <3>1, <3>2 DEF Unsubscribe
  <2>2. TypeOK'
    <3>1. Flags'
      BY <1>1, TypeParts, <1>4 DEF Flags, Unsubscribe, Awaiting
    <3>2. Contents'
      BY <1>1, TypeParts, <1>4 DEF Contents, Unsubscribe, Awaiting
    <3>3. Sequences'
      BY <1>1, TypeParts, <1>4 DEF Sequences, Unsubscribe, Awaiting
    <3>4. QED
      BY <3>1, <3>2, <3>3 DEF TypeOK, Flags, Contents, Sequences
  <2>3. QED
    BY <2>1, <2>2
<1>5. ASSUME NEW h \in Handlers, UnsubscribeReturns(h) PROVE WireInv'
  <2>1. Wire'
    BY <1>5, LeavesWireAlone DEF UnsubscribeReturns, wireVars, Asking
  <2>2. TypeOK'
    BY <1>1, <1>5 DEF TypeOK, UnsubscribeReturns, wireVars, historyVars
  <2>3. QED
    BY <2>1, <2>2
<1>6. CASE ServerAnswers
  <2>1. Wire'
    BY <1>6, ServerAnswersWire
  <2>2. Head(commands) \in Handlers /\ Tail(commands) \in Seq(Handlers)
    BY <1>1, <1>6 DEF TypeOK, ServerAnswers
  <2>3. \A kind \in {"done", "failed"} : [kind |-> kind, to |-> {Head(commands)}] \in Items
    BY <2>2 DEF Items
  <2>4. stream' \in Seq(Items)
    <3>1. PICK kind \in {"done", "failed"} :
            stream' = Append(stream, [kind |-> kind, to |-> {Head(commands)}])
      BY <1>6 DEF ServerAnswers
    <3>2. QED
      BY <1>1, <2>3, <3>1, AppendAt DEF TypeOK
  <2>5. TypeOK'
    <3>1. Flags'
      BY <1>1, TypeParts, <1>6, <2>2, <2>4 DEF Flags, ServerAnswers, clientVars
    <3>2. Contents'
      BY <1>1, TypeParts, <1>6, <2>2, <2>4 DEF Contents, ServerAnswers, clientVars
    <3>3. Sequences'
      BY <1>1, TypeParts, <1>6, <2>2, <2>4 DEF Sequences, ServerAnswers, clientVars
    <3>4. QED
      BY <3>1, <3>2, <3>3 DEF TypeOK, Flags, Contents, Sequences
  <2>6. QED
    BY <2>1, <2>5
<1>7. CASE AnswerArrives
  <2>1. stream' \in Seq(Items)
    BY <1>7, StreamArrives DEF AnswerArrives
  <2>2. pc' \in [Handlers -> {"idle", "subscribed", "rejected"} \cup Awaiting]
    BY <1>1, <1>7, AnswerArrivesWire DEF TypeOK, Awaiting
  <2>3. TypeOK'
    BY <1>1, <1>7, <2>1, <2>2 DEF TypeOK, AnswerArrives, historyVars
  <2>4. QED
    BY <1>7, <2>3, AnswerArrivesWire
<1>8. CASE Publish
  <2>1. Wire' /\ stream' \in Seq(Items)
    BY <1>8, PublishWire
  <2>2. TypeOK'
    <3>1. Flags'
      BY <1>1, TypeParts, <1>8, <2>1 DEF Flags, Publish, clientVars
    <3>2. Contents'
      BY <1>1, TypeParts, <1>8, <2>1 DEF Contents, Publish, clientVars, Expected, In
    <3>3. Sequences'
      BY <1>1, TypeParts, <1>8, <2>1 DEF Sequences, Publish, clientVars
    <3>4. QED
      BY <3>1, <3>2, <3>3 DEF TypeOK, Flags, Contents, Sequences
  <2>3. QED
    BY <2>1, <2>2
<1>9. CASE MessageArrives
  <2>1. stream' \in Seq(Items)
    BY <1>9, StreamArrives DEF MessageArrives
  <2>2. missed' \subseteq {"notSubscribed", "notReached", "cutOff"}
    BY <1>1, <1>9 DEF TypeOK, MessageArrives
  <2>3. TypeOK'
    BY <1>1, <1>9, <2>1, <2>2 DEF TypeOK, MessageArrives, clientVars
  <2>4. QED
    BY <1>9, <2>3, MessageArrivesWire
<1>10. CASE UNCHANGED vars
  <2>1. TypeOK'
    BY <1>1, <1>10 DEF vars, clientVars, wireVars, historyVars, TypeOK
  <2>2. Wire'
    BY <1>10 DEF vars, clientVars, wireVars, Wire, IsAnswer
  <2>3. QED
    BY <2>1, <2>2
<1>11. QED
  BY <1>2, <1>3, <1>4, <1>5, <1>6, <1>7, <1>8, <1>9, <1>10 DEF Next

LEMMA InitWire == Init => WireInv
<1> SUFFICES ASSUME Init PROVE WireInv
  OBVIOUS
<1>1. <<>> \in Seq(Handlers) /\ <<>> \in Seq(Items) /\ Len(<<>>) = 0
  OBVIOUS
<1>2. TypeOK
  <2>1. Flags
    BY DEF Init, Flags
  <2>2. Contents
    BY PubSubAssumption DEF Init, Contents
  <2>3. Sequences
    BY <1>1 DEF Init, Sequences
  <2>4. QED
    BY <2>1, <2>2, <2>3, TypeParts
<1>3. Wire
  BY <1>1 DEF Init, Wire
<1>4. QED
  BY <1>2, <1>3 DEF WireInv

(* The set, the listeners and the calls always have their types, and the   *)
(* answer that arrives is always the one its call waits for.               *)
THEOREM TypeCorrect == Spec => []TypeOK
<1>1. WireInv => TypeOK
  BY DEF WireInv
<1>2. QED
  BY <1>1, InitWire, WireStep, PTL DEF Spec

LEMMA WireHolds == Spec => []WireInv
BY InitWire, WireStep, PTL DEF Spec

-----------------------------------------------------------------------------
(* A step of one call: the others stay where they are.                     *)

Goes(h, w) == pc' = [pc EXCEPT ![h] = w]

LEMMA OneGoes ==
  ASSUME WireInv, NEW h \in Handlers, NEW w, Goes(h, w)
  PROVE  pc'[h] = w /\ \A g \in Handlers : g # h => pc'[g] = pc[g]
BY DEF WireInv, TypeOK, Goes

-----------------------------------------------------------------------------
(* An open channel is reached.                                             *)

\* The call of h will find its SUBSCRIBE done.
Acknowledged(h) ==
  \/ pc[h] = "acknowledged"
  \/ /\ pc[h] = "subscribing"
     /\ \E i \in 1 .. Len(stream) : stream[i].kind = "done" /\ stream[i].to = {h}

(* Somebody is about to delete the key, or there is none to rely on; or    *)
(* the SUBSCRIBE is still on its way; or the server has executed it and    *)
(* the listener is there or will be.                                       *)
ReachInv ==
  \/ \E h \in Handlers : pc[h] \in Leaving
  \/ ~present \/ deaf
  \/ \E k \in 1 .. Len(commands) : pc[commands[k]] = "subscribing"
  \/ subscribed /\ (listeners > 0 \/ \E h \in Handlers : Acknowledged(h))

\* A call that was not waiting for a SUBSCRIBE goes on, and takes nothing away.
LEMMA ReachKept ==
  ASSUME WireInv, ReachInv, NEW h \in Handlers, NEW w, Goes(h, w),
         pc[h] \notin {"subscribing", "acknowledged"} \cup Leaving,
         present' = TRUE => UNCHANGED <<present, deaf>>,
         UNCHANGED <<commands, stream, subscribed, listeners>>
  PROVE  ReachInv'
<1>1. \A g \in Handlers : g # h => pc'[g] = pc[g]
  BY OneGoes
<1>2. CASE \E g \in Handlers : pc[g] \in Leaving
  BY <1>1, <1>2 DEF ReachInv
<1>3. CASE ~present \/ deaf
  BY <1>3 DEF ReachInv, WireInv, TypeOK
<1>4. CASE \E k \in 1 .. Len(commands) : pc[commands[k]] = "subscribing"
  <2>1. PICK k \in 1 .. Len(commands) : pc[commands[k]] = "subscribing"
    BY <1>4
  <2>2. commands[k] \in Handlers
    BY CommandsAreHandlers DEF WireInv
  <2>3. pc'[commands'[k]] = "subscribing" /\ k \in 1 .. Len(commands')
    BY <1>1, <2>1, <2>2
  <2>4. QED
    BY <2>3 DEF ReachInv
<1>5. CASE subscribed /\ (listeners > 0 \/ \E g \in Handlers : Acknowledged(g))
  <2>1. ASSUME NEW g \in Handlers, Acknowledged(g) PROVE Acknowledged(g)'
    BY <1>1, <2>1 DEF Acknowledged
  <2>2. QED
    BY <1>5, <2>1 DEF ReachInv
<1>6. QED
  BY <1>2, <1>3, <1>4, <1>5 DEF ReachInv

LEMMA ReachStep == WireInv /\ ReachInv /\ [Next]_vars => ReachInv'
<1> SUFFICES ASSUME WireInv, ReachInv, [Next]_vars PROVE ReachInv'
  OBVIOUS
<1>1. TypeOK
  BY DEF WireInv
<1>2. ASSUME NEW h \in Handlers, Subscribe(h) PROVE ReachInv'
  <2>1. CASE Opens(h)
    <3>1. commands' = Append(commands, h) /\ pc' = [pc EXCEPT ![h] = "subscribing"]
      BY <2>1 DEF Opens
    <3>2. /\ Len(commands) + 1 \in 1 .. Len(commands')
          /\ commands'[Len(commands) + 1] = h
      BY <1>1, <3>1 DEF TypeOK
    <3>3. pc'[h] = "subscribing"
      BY <1>1, <3>1 DEF TypeOK
    <3>4. QED
      BY <3>2, <3>3 DEF ReachInv
  <2>2. CASE Joins(h)
    BY <1>2, <2>2, ReachKept DEF Subscribe, Joins, Goes, Leaving
  <2>3. QED
    BY <1>2, <2>1, <2>2 DEF Subscribe
<1>3. ASSUME NEW h \in Handlers, SubscribeReturns(h) PROVE ReachInv'
  <2>1. /\ Goes(h, "subscribed") \/ Goes(h, "rejected")
        /\ UNCHANGED <<present, commands, stream, subscribed, deaf>>
    BY <1>3 DEF SubscribeReturns, Goes, wireVars, historyVars
  <2>2. CASE pc[h] = "refused"
    <3>1. UNCHANGED listeners
      BY <1>3, <2>2 DEF SubscribeReturns
    <3>2. QED
      BY <2>1, <2>2, <3>1, ReachKept DEF Leaving
  <2>3. CASE pc[h] = "acknowledged"
    <3>1. listeners' > 0
      BY <1>1, <1>3, <2>3, PubSubAssumption DEF SubscribeReturns, TypeOK
    <3>2. \A g \in Handlers : g # h => pc'[g] = pc[g]
      BY <2>1, OneGoes
    <3>3. CASE \E g \in Handlers : pc[g] \in Leaving
      BY <2>3, <3>2, <3>3 DEF ReachInv, Leaving
    <3>4. CASE \E k \in 1 .. Len(commands) : pc[commands[k]] = "subscribing"
      <4>1. PICK k \in 1 .. Len(commands) : pc[commands[k]] = "subscribing"
        BY <3>4
      <4>2. commands[k] \in Handlers /\ commands[k] # h
        BY <1>1, <2>3, <4>1, CommandsAreHandlers
      <4>3. pc'[commands'[k]] = "subscribing" /\ k \in 1 .. Len(commands')
        BY <2>1, <3>2, <4>1, <4>2
      <4>4. QED
        BY <4>3 DEF ReachInv
    <3>5. CASE ~present \/ deaf \/ subscribed
      BY <2>1, <3>1, <3>5 DEF ReachInv
    <3>6. QED
      BY <3>3, <3>4, <3>5 DEF ReachInv
  <2>4. QED
    BY <1>3, <2>2, <2>3 DEF SubscribeReturns
<1>4. ASSUME NEW h \in Handlers, Unsubscribe(h) PROVE ReachInv'
  <2>1. CASE pc' = [pc EXCEPT ![h] = "unsubscribing"]
    <3>1. pc'[h] \in Leaving
      BY <1>1, <2>1 DEF TypeOK, Leaving
    <3>2. QED
      BY <3>1 DEF ReachInv
  <2>2. CASE pc' = [pc EXCEPT ![h] = "idle"] /\ UNCHANGED commands
    BY <1>4, <2>2, ReachKept DEF Unsubscribe, Goes, Leaving
  <2>3. QED
    BY <1>4, <2>1, <2>2 DEF Unsubscribe
<1>5. ASSUME NEW h \in Handlers, UnsubscribeReturns(h) PROVE ReachInv'
  BY <1>5 DEF UnsubscribeReturns, ReachInv
<1>6. CASE ServerAnswers
  <2>0. PICK h \in Handlers : h = Head(commands)
    BY <1>1, <1>6 DEF TypeOK, ServerAnswers
  <2>1. /\ commands \in Seq(Handlers) /\ commands # <<>> /\ commands' = Tail(commands)
        /\ UNCHANGED <<present, listeners, pc>>
        /\ stream \in Seq(Items)
    BY <1>1, <1>6 DEF TypeOK, ServerAnswers, clientVars
  <2>2. /\ h = commands[1] /\ 1 \in 1 .. Len(commands)
        /\ \A i \in 1 .. Len(commands') :
             i + 1 \in 1 .. Len(commands) /\ commands'[i] = commands[i + 1]
        /\ Len(commands) \in Nat /\ Len(commands') = Len(commands) - 1
    BY <2>0, <2>1, TailAt
  <2>3. pc[h] \in Asking
    BY <2>2 DEF WireInv, Wire
  <2>4. PICK kind \in {"done", "failed"} :
          /\ stream' = Append(stream, [kind |-> kind, to |-> {h}])
          /\ IF kind = "done"
             THEN subscribed' = (pc[h] = "subscribing") /\ UNCHANGED deaf
             ELSE deaf' = (deaf \/ pc[h] = "subscribing") /\ UNCHANGED subscribed
    BY <1>6, <2>0 DEF ServerAnswers
  <2> DEFINE item == [kind |-> kind, to |-> {h}]
  <2>5. item \in Items /\ item.kind = kind /\ item.to = {h}
    BY <2>2 DEF Items
  <2> HIDE DEF item
  <2>6. stream' = Append(stream, item)
    BY <2>4 DEF item
  <2>7. /\ Len(stream') = Len(stream) + 1 /\ Len(stream) \in Nat
        /\ \A i \in 1 .. Len(stream) : stream'[i] = stream[i]
        /\ stream'[Len(stream) + 1] = item
    BY <2>1, <2>5, <2>6, AppendAt
  <2>8. CASE pc[h] = "unsubscribing"
    BY <2>1, <2>2, <2>8 DEF ReachInv, Leaving
  <2>9. CASE pc[h] = "subscribing" /\ kind = "done"
    <3>1. Len(stream) + 1 \in 1 .. Len(stream')
      BY <2>7
    <3>2. Acknowledged(h)'
      BY <2>1, <2>5, <2>7, <2>9, <3>1 DEF Acknowledged
    <3>3. subscribed'
      BY <2>4, <2>9
    <3>4. QED
      BY <2>2, <3>2, <3>3 DEF ReachInv
  <2>10. CASE pc[h] = "subscribing" /\ kind = "failed"
    <3>1. deaf'
      BY <2>4, <2>10
    <3>2. QED
      BY <3>1 DEF ReachInv
  <2>11. QED
    BY <2>3, <2>8, <2>9, <2>10 DEF Asking
<1>7. CASE AnswerArrives
  <2>1. /\ stream # <<>> /\ stream' = Tail(stream)
        /\ UNCHANGED <<present, deaf, listeners, commands, subscribed>>
    BY <1>7 DEF AnswerArrives, historyVars
  <2>2. PICK h \in Handlers :
          /\ pc[h] \in Asking /\ IsAnswer(1, h)
          /\ \A k \in 1 .. Len(commands) : commands[k] # h
          /\ \A i \in 2 .. Len(stream) : ~IsAnswer(i, h)
          /\ Goes(h, IF pc[h] = "unsubscribing" THEN "released"
                     ELSE IF Head(stream).kind = "done" THEN "acknowledged"
                     ELSE "refused")
    BY <1>7, AnswerArrivesWire DEF Goes
  <2>3. \A g \in Handlers : g # h => pc'[g] = pc[g]
    BY <2>2, OneGoes
  <2>4. /\ Len(stream) \in Nat /\ Head(stream) = stream[1]
        /\ \A i \in 1 .. Len(stream') :
             /\ i + 1 \in 2 .. Len(stream) /\ i + 1 \in 1 .. Len(stream)
             /\ stream'[i] = stream[i + 1]
        /\ Len(stream') = Len(stream) - 1
    BY <2>1, StreamArrives, TailAt DEF WireInv, TypeOK
  <2>5. CASE \E g \in Handlers : pc[g] \in Leaving
    <3>1. PICK g \in Handlers : pc[g] \in Leaving
      BY <2>5
    <3>2. CASE g = h
      <4>1. pc[h] = "unsubscribing"
        BY <2>2, <3>1, <3>2 DEF Asking, Leaving
      <4>2. pc'[h] = "released"
        BY <2>2, <4>1, OneGoes
      <4>3. QED
        BY <4>2 DEF ReachInv, Leaving
    <3>3. CASE g # h
      BY <2>3, <3>1, <3>3 DEF ReachInv
    <3>4. QED
      BY <3>2, <3>3
  <2>6. CASE ~present \/ deaf
    BY <2>1, <2>6 DEF ReachInv
  <2>7. CASE \E k \in 1 .. Len(commands) : pc[commands[k]] = "subscribing"
    <3>1. PICK k \in 1 .. Len(commands) : pc[commands[k]] = "subscribing"
      BY <2>7
    <3>2. commands[k] \in Handlers
      BY <1>1, CommandsAreHandlers
    <3>3. pc'[commands'[k]] = "subscribing" /\ k \in 1 .. Len(commands')
      BY <2>1, <2>2, <2>3, <3>1, <3>2
    <3>4. QED
      BY <3>3 DEF ReachInv
  <2>8. CASE subscribed /\ listeners > 0
    BY <2>1, <2>8 DEF ReachInv
  <2>9. ASSUME subscribed, NEW g \in Handlers, Acknowledged(g)
        PROVE  ReachInv'
    <3>1. Acknowledged(g)'
      <4>1. CASE pc[g] = "acknowledged"
        BY <2>2, <2>3, <4>1 DEF Acknowledged, Asking
      <4>2. CASE pc[g] # "acknowledged"
        <5>1. pc[g] = "subscribing"
          BY <2>9, <4>2 DEF Acknowledged
        <5>2. PICK i \in 1 .. Len(stream) : stream[i].kind = "done" /\ stream[i].to = {g}
          BY <2>9, <4>2 DEF Acknowledged
        <5>3. CASE g = h
          <6>1. i = 1
            BY <2>2, <2>4, <5>2, <5>3 DEF IsAnswer
          <6>2. pc'[h] = "acknowledged"
            BY <2>2, <2>4, <5>1, <5>2, <5>3, <6>1, OneGoes
          <6>3. QED
            BY <5>3, <6>2 DEF Acknowledged
        <5>4. CASE g # h
          <6>1. i # 1
            <7>1. stream[1].to = {h} /\ {h} # {g}
              BY <2>2, <5>4 DEF IsAnswer
            <7>2. QED
              BY <5>2, <7>1
          <6>2. i - 1 \in 1 .. Len(stream') /\ stream'[i - 1] = stream[i]
            BY <2>4, <6>1
          <6>3. pc'[g] = "subscribing"
            BY <2>3, <5>1, <5>4
          <6>4. QED
            BY <5>2, <6>2, <6>3 DEF Acknowledged
        <5>5. QED
          BY <5>3, <5>4
      <4>3. QED
        BY <4>1, <4>2
    <3>2. QED
      BY <2>1, <2>9, <3>1 DEF ReachInv
  <2>10. QED
    BY <2>5, <2>6, <2>7, <2>8, <2>9 DEF ReachInv
<1>8. ASSUME UNCHANGED <<present, listeners, pc, commands, subscribed, deaf>>,
             \A h \in Handlers : Acknowledged(h) => Acknowledged(h)'
      PROVE  ReachInv'
  BY <1>8 DEF ReachInv
<1>9. CASE Publish
  <2>1. UNCHANGED <<present, listeners, pc, commands, subscribed, deaf>>
    BY <1>9 DEF Publish, clientVars
  <2>2. /\ Len(stream) <= Len(stream') /\ Len(stream) \in Nat /\ Len(stream') \in Nat
        /\ \A i \in 1 .. Len(stream) : stream'[i] = stream[i]
    <3>1. CASE UNCHANGED stream
      BY <1>1, <3>1 DEF TypeOK
    <3>2. CASE stream' = Append(stream, [kind |-> "message", to |-> Expected])
      BY <1>1, <3>2 DEF TypeOK
    <3>3. QED
      BY <1>9, <3>1, <3>2 DEF Publish
  <2>3. \A i \in 1 .. Len(stream) : i \in 1 .. Len(stream')
    BY <2>2
  <2>4. \A h \in Handlers : Acknowledged(h) => Acknowledged(h)'
    BY <2>1, <2>2, <2>3 DEF Acknowledged
  <2>5. QED
    BY <1>8, <2>1, <2>4
<1>10. CASE MessageArrives
  <2>1. /\ stream # <<>> /\ stream' = Tail(stream) /\ Head(stream).kind = "message"
        /\ UNCHANGED <<present, listeners, pc, commands, subscribed, deaf>>
    BY <1>10 DEF MessageArrives, clientVars
  <2>2. /\ Len(stream) \in Nat /\ Head(stream) = stream[1] /\ Len(stream') = Len(stream) - 1
        /\ \A i \in 1 .. Len(stream') : stream'[i] = stream[i + 1]
    BY <1>1, <2>1, TailAt DEF TypeOK
  <2>3. ASSUME NEW i \in 1 .. Len(stream), stream[i].kind = "done"
        PROVE  i - 1 \in 1 .. Len(stream') /\ stream'[i - 1] = stream[i]
    <3>1. i # 1
      BY <2>1, <2>2, <2>3
    <3>2. QED
      BY <2>2, <3>1
  <2>4. \A h \in Handlers : Acknowledged(h) => Acknowledged(h)'
    BY <2>1, <2>3 DEF Acknowledged
  <2>5. QED
    BY <1>8, <2>1, <2>4
<1>11. CASE UNCHANGED vars
  BY <1>8, <1>11 DEF vars, clientVars, wireVars, historyVars, Acknowledged
<1>12. QED
  BY <1>2, <1>3, <1>4, <1>5, <1>6, <1>7, <1>9, <1>10, <1>11 DEF Next

LEMMA ReachMeansReached == WireInv /\ ReachInv => OpenChannelIsReached
<1> SUFFICES ASSUME WireInv, ReachInv, Quiet, present, ~deaf
             PROVE  subscribed /\ listeners > 0
  BY DEF OpenChannelIsReached
<1>1. \A h \in Handlers : pc[h] \notin Awaiting
  BY DEF Quiet, In
<1>2. \A k \in 1 .. Len(commands) : pc[commands[k]] # "subscribing"
  BY <1>1, CommandsAreHandlers DEF WireInv, Awaiting
<1>3. \A h \in Handlers : ~Acknowledged(h) /\ pc[h] \notin Leaving
  BY <1>1 DEF Acknowledged, Awaiting, Leaving
<1>4. QED
  BY <1>2, <1>3 DEF ReachInv

LEMMA ReachHolds == Spec => []ReachInv
<1>1. Init => ReachInv
  BY DEF Init, ReachInv
<1>2. QED
  BY <1>1, WireHolds, ReachStep, PTL DEF Spec

(* A channel with a key that awaits nothing is subscribed and has a        *)
(* listener, unless its own SUBSCRIBE failed: however subscribes and       *)
(* unsubscribes overlap, an UNSUBSCRIBE that overtakes a SUBSCRIBE takes   *)
(* the key with it.                                                        *)
THEOREM OpenChannelReached == Spec => []OpenChannelIsReached
<1>1. WireInv /\ ReachInv => OpenChannelIsReached
  BY ReachMeansReached
<1>2. QED
  BY <1>1, ReachHolds, WireHolds, PTL

-----------------------------------------------------------------------------
(* What the channel's calls are doing, all at once.                        *)

\* The answer that arrives moves its call within Joining or within Leaving.
LEMMA AnswerMoves ==
  ASSUME WireInv, AnswerArrives
  PROVE  \E h \in Handlers, w \in Awaiting :
           /\ Goes(h, w) /\ pc[h] \in Asking
           /\ pc[h] \in Leaving <=> w \in Leaving
<1>1. PICK h \in Handlers :
        /\ pc[h] \in Asking
        /\ Goes(h, IF pc[h] = "unsubscribing" THEN "released"
                   ELSE IF Head(stream).kind = "done" THEN "acknowledged"
                   ELSE "refused")
  BY AnswerArrivesWire DEF Goes
<1>2. CASE pc[h] = "unsubscribing"
  BY <1>1, <1>2 DEF Awaiting, Leaving
<1>3. CASE pc[h] = "subscribing" /\ Head(stream).kind = "done"
  BY <1>1, <1>3 DEF Awaiting, Leaving
<1>4. CASE pc[h] = "subscribing" /\ Head(stream).kind # "done"
  BY <1>1, <1>4 DEF Awaiting, Leaving
<1>5. QED
  BY <1>1, <1>2, <1>3, <1>4 DEF Asking

\* Steps of the connection that resume no call.
Elsewhere == UNCHANGED <<present, handlers, listeners, pc, raced, emptied>>

LEMMA ConnectionSteps ==
  ASSUME ServerAnswers \/ Publish \/ MessageArrives \/ UNCHANGED vars
  PROVE  Elsewhere
BY DEF Elsewhere, ServerAnswers, Publish, MessageArrives, vars, clientVars, wireVars, historyVars

-----------------------------------------------------------------------------
(* The set holds the handlers that are subscribed.                         *)

(* While no subscribe and UNSUBSCRIBE have overlapped, calls that join the *)
(* channel and calls that leave it exclude each other; the first need the  *)
(* key, the second find the set empty.                                     *)
RegisterInv ==
  /\ \A h \in handlers : pc[h] = "subscribed"
  /\ ~present => handlers = {}
  /\ ~raced =>
       /\ \A h \in Handlers : pc[h] = "subscribed" => h \in handlers
       /\ \A h \in Handlers : pc[h] # "rejected"
       /\ \A h \in Handlers : pc[h] \in Joining =>
            present /\ \A g \in Handlers : pc[g] \notin Leaving
       /\ \A h \in Handlers : pc[h] \in Leaving => handlers = {}
       /\ (present /\ \A h \in Handlers : pc[h] \notin Awaiting) => handlers # {}

LEMMA RegisterStep == WireInv /\ RegisterInv /\ [Next]_vars => RegisterInv'
<1> SUFFICES ASSUME WireInv, RegisterInv, [Next]_vars PROVE RegisterInv'
  OBVIOUS
<1>1. /\ handlers \subseteq Handlers /\ present \in BOOLEAN /\ raced \in BOOLEAN
      /\ pc \in [Handlers -> {"idle", "subscribed", "rejected"} \cup Awaiting]
  BY DEF WireInv, TypeOK
<1>2. /\ Leaving = {"unsubscribing", "released"}
      /\ Joining = {"subscribing", "acknowledged", "refused"}
      /\ Awaiting = Leaving \cup Joining
  BY DEF Leaving, Joining, Awaiting
<1>3. ASSUME NEW h \in Handlers, Subscribe(h) PROVE RegisterInv'
  <2>1. /\ pc[h] \in {"idle", "rejected"}
        /\ ~raced' => ~raced /\ \A g \in Handlers : pc[g] \notin Leaving
    BY <1>1, <1>3 DEF Subscribe, In
  <2>2. h \notin handlers
    BY <2>1 DEF RegisterInv
  <2>3. CASE Opens(h)
    <3>1. handlers' = {} /\ present' = TRUE /\ Goes(h, "subscribing") /\ ~present
      BY <2>3 DEF Opens, Goes
    <3>2. pc'[h] = "subscribing" /\ \A g \in Handlers : g # h => pc'[g] = pc[g]
      BY <3>1, OneGoes
    <3>3. QED
      BY <1>2, <2>1, <3>1, <3>2 DEF RegisterInv
  <2>4. CASE Joins(h)
    <3>1. handlers' = handlers \cup {h} /\ present' = present /\ present /\ Goes(h, "subscribed")
      BY <2>4 DEF Joins, Goes
    <3>2. pc'[h] = "subscribed" /\ \A g \in Handlers : g # h => pc'[g] = pc[g]
      BY <3>1, OneGoes
    <3>3. QED
      BY <1>1, <1>2, <2>1, <3>1, <3>2 DEF RegisterInv
  <2>5. QED
    BY <1>3, <2>3, <2>4 DEF Subscribe
<1>4. ASSUME NEW h \in Handlers, SubscribeReturns(h) PROVE RegisterInv'
  <2>1. pc[h] \in Joining /\ UNCHANGED <<present, raced>>
    BY <1>2, <1>4 DEF SubscribeReturns, historyVars
  <2>2. CASE present
    <3>1. handlers' = handlers \cup {h} /\ Goes(h, "subscribed")
      BY <1>4, <2>2 DEF SubscribeReturns, Goes
    <3>2. pc'[h] = "subscribed" /\ \A g \in Handlers : g # h => pc'[g] = pc[g]
      BY <3>1, OneGoes
    <3>3. QED
      BY <1>1, <1>2, <2>1, <2>2, <3>1, <3>2 DEF RegisterInv
  <2>3. CASE ~present
    <3>1. handlers' = handlers /\ Goes(h, "rejected")
      BY <1>4, <2>3 DEF SubscribeReturns, Goes
    <3>2. raced
      BY <2>1, <2>3 DEF RegisterInv
    <3>3. QED
      BY <2>1, <2>3, <3>1, <3>2 DEF RegisterInv
  <2>4. QED
    BY <2>2, <2>3
<1>5. ASSUME NEW h \in Handlers, Unsubscribe(h) PROVE RegisterInv'
  <2>1. pc[h] \in {"idle", "subscribed"} /\ UNCHANGED present
    BY <1>5 DEF Unsubscribe
  <2>2. CASE ~present
    <3>1. handlers' = handlers /\ UNCHANGED raced /\ Goes(h, "idle") /\ handlers = {}
      BY <1>5, <2>2 DEF Unsubscribe, Goes, RegisterInv
    <3>2. pc'[h] = "idle" /\ \A g \in Handlers : g # h => pc'[g] = pc[g]
      BY <3>1, OneGoes
    <3>3. QED
      BY <1>2, <2>1, <2>2, <3>1, <3>2 DEF RegisterInv
  <2>3. CASE present /\ handlers' # {}
    <3>1. handlers' = handlers \ {h} /\ UNCHANGED raced /\ Goes(h, "idle")
      BY <1>5, <2>3 DEF Unsubscribe, Goes
    <3>2. pc'[h] = "idle" /\ \A g \in Handlers : g # h => pc'[g] = pc[g]
      BY <3>1, OneGoes
    <3>3. QED
      BY <1>1, <1>2, <2>1, <2>3, <3>1, <3>2 DEF RegisterInv
  <2>4. CASE present /\ handlers' = {}
    <3>1. /\ handlers' = handlers \ {h} /\ Goes(h, "unsubscribing")
          /\ ~raced' => ~raced /\ \A g \in Handlers : pc[g] \notin Joining
      BY <1>5, <2>4 DEF Unsubscribe, Goes, In
    <3>2. pc'[h] = "unsubscribing" /\ \A g \in Handlers : g # h => pc'[g] = pc[g]
      BY <3>1, OneGoes
    <3>3. QED
      BY <1>1, <1>2, <2>1, <2>4, <3>1, <3>2 DEF RegisterInv
  <2>5. QED
    BY <2>2, <2>3, <2>4
<1>6. ASSUME NEW h \in Handlers, UnsubscribeReturns(h) PROVE RegisterInv'
  <2>1. /\ pc[h] \in Leaving /\ present' = FALSE /\ handlers' = {} /\ UNCHANGED raced
        /\ Goes(h, "idle")
    BY <1>2, <1>6 DEF UnsubscribeReturns, historyVars, Goes
  <2>2. pc'[h] = "idle" /\ \A g \in Handlers : g # h => pc'[g] = pc[g]
    BY <2>1, OneGoes
  <2>3. QED
    BY <1>2, <2>1, <2>2 DEF RegisterInv
<1>7. CASE AnswerArrives
  <2>1. PICK h \in Handlers, w \in Awaiting :
          /\ Goes(h, w) /\ pc[h] \in Asking
          /\ pc[h] \in Leaving <=> w \in Leaving
    BY <1>7, AnswerMoves
  <2>2. UNCHANGED <<present, handlers, raced>>
    BY <1>7 DEF AnswerArrives, historyVars
  <2>3. pc'[h] = w /\ \A g \in Handlers : g # h => pc'[g] = pc[g]
    BY <2>1, OneGoes
  <2>4. \A g \in Handlers : /\ pc'[g] \in Leaving <=> pc[g] \in Leaving
                            /\ pc'[g] \in Joining <=> pc[g] \in Joining
                            /\ pc'[g] = "subscribed" <=> pc[g] = "subscribed"
                            /\ pc'[g] = "rejected" <=> pc[g] = "rejected"
    BY <1>2, <2>1, <2>3 DEF Asking
  <2>5. pc'[h] \in Awaiting
    BY <2>3
  <2>6. QED
    BY <1>1, <2>2, <2>4, <2>5 DEF RegisterInv
<1>8. CASE Elsewhere
  BY <1>8 DEF Elsewhere, RegisterInv
<1>9. QED
  BY <1>3, <1>4, <1>5, <1>6, <1>7, <1>8, ConnectionSteps DEF Next

LEMMA RegisterHolds == Spec => []RegisterInv
<1>1. Init => RegisterInv
  BY DEF Init, RegisterInv, Joining, Leaving, Awaiting
<1>2. QED
  BY <1>1, WireHolds, RegisterStep, PTL DEF Spec

(* No handler is called before it subscribes or after it has unsubscribed; *)
(* until a subscribe and an UNSUBSCRIBE overlap the set holds everybody    *)
(* whose subscribe has returned, no call throws, and the key goes with the *)
(* last handler.                                                           *)
THEOREM SubscribersRegistered == Spec => []SubscribersAreRegistered
<1>1. WireInv /\ RegisterInv => SubscribersAreRegistered
  <2> SUFFICES ASSUME WireInv, RegisterInv PROVE SubscribersAreRegistered
    OBVIOUS
  <2>1. handlers \subseteq Handlers
    BY DEF WireInv, TypeOK
  <2>2. handlers \subseteq In({"subscribed"})
    BY <2>1 DEF RegisterInv, In
  <2>3. ASSUME ~raced
        PROVE  /\ handlers = In({"subscribed"})
               /\ In({"rejected"}) = {}
               /\ Quiet /\ present => handlers # {}
    <3>1. handlers = In({"subscribed"})
      BY <2>2, <2>3 DEF RegisterInv, In
    <3>2. In({"rejected"}) = {}
      BY <2>3 DEF RegisterInv, In
    <3>3. Quiet => \A h \in Handlers : pc[h] \notin Awaiting
      BY DEF Quiet, In
    <3>4. QED
      BY <2>3, <3>1, <3>2, <3>3 DEF RegisterInv
  <2>4. QED
    BY <2>2, <2>3 DEF SubscribersAreRegistered
<1>2. QED
  BY <1>1, RegisterHolds, WireHolds, PTL

-----------------------------------------------------------------------------
(* One listener, as long as nothing was unsubscribed.                      *)

\* One call has opened the channel, and its listener is the only one.
OnceInv ==
  ~emptied =>
    /\ \A h \in Handlers : pc[h] \notin Leaving
    /\ \A g, h \in Handlers : pc[g] \in Joining /\ pc[h] \in Joining => g = h
    /\ \A h \in Handlers : pc[h] \in Joining => present /\ listeners = 0
    /\ listeners <= 1
    /\ listeners > 0 => present

LEMMA OnceStep == WireInv /\ OnceInv /\ [Next]_vars => OnceInv'
<1> SUFFICES ASSUME WireInv, OnceInv, [Next]_vars, ~emptied' PROVE OnceInv'
  BY DEF OnceInv
<1>1. /\ listeners \in 0 .. MaxListeners /\ MaxListeners \in Nat \ {0} /\ present \in BOOLEAN
      /\ pc \in [Handlers -> {"idle", "subscribed", "rejected"} \cup Awaiting]
  BY PubSubAssumption DEF WireInv, TypeOK
<1>2. /\ Leaving = {"unsubscribing", "released"}
      /\ Joining = {"subscribing", "acknowledged", "refused"}
      /\ Awaiting = Leaving \cup Joining
  BY DEF Leaving, Joining, Awaiting
<1>3. ASSUME NEW h \in Handlers, Subscribe(h) PROVE OnceInv'
  <2>1. UNCHANGED <<listeners, emptied>>
    BY <1>3 DEF Subscribe
  <2>2. CASE Opens(h)
    <3>1. present' = TRUE /\ Goes(h, "subscribing") /\ ~present
      BY <2>2 DEF Opens, Goes
    <3>2. pc'[h] = "subscribing" /\ \A g \in Handlers : g # h => pc'[g] = pc[g]
      BY <3>1, OneGoes
    <3>3. QED
      BY <1>1, <1>2, <2>1, <3>1, <3>2 DEF OnceInv
  <2>3. CASE Joins(h)
    <3>1. UNCHANGED present /\ Goes(h, "subscribed")
      BY <2>3 DEF Joins, Goes
    <3>2. pc'[h] = "subscribed" /\ \A g \in Handlers : g # h => pc'[g] = pc[g]
      BY <3>1, OneGoes
    <3>3. QED
      BY <1>2, <2>1, <3>1, <3>2 DEF OnceInv
  <2>4. QED
    BY <1>3, <2>2, <2>3 DEF Subscribe
<1>4. ASSUME NEW h \in Handlers, SubscribeReturns(h) PROVE OnceInv'
  <2>1. pc[h] \in Joining /\ UNCHANGED <<present, emptied>>
    BY <1>2, <1>4 DEF SubscribeReturns, historyVars
  <2>2. PICK w \in {"subscribed", "rejected"} : Goes(h, w)
    BY <1>4 DEF SubscribeReturns, Goes
  <2>3. pc'[h] = w /\ \A g \in Handlers : g # h => pc'[g] = pc[g]
    BY <2>2, OneGoes
  <2>4. listeners = 0 /\ present /\ \A g \in Handlers : g # h => pc[g] \notin Joining
    BY <2>1 DEF OnceInv
  <2>5. listeners' \in {0, 1}
    BY <1>4, <2>4 DEF SubscribeReturns
  <2>6. QED
    BY <1>2, <2>1, <2>3, <2>4, <2>5 DEF OnceInv
<1>5. ASSUME NEW h \in Handlers, Unsubscribe(h) PROVE OnceInv'
  <2>1. UNCHANGED <<present, listeners>> /\ Goes(h, "idle") /\ UNCHANGED emptied
    BY <1>5 DEF Unsubscribe, Goes
  <2>2. pc'[h] = "idle" /\ \A g \in Handlers : g # h => pc'[g] = pc[g]
    BY <2>1, OneGoes
  <2>3. QED
    BY <1>2, <2>1, <2>2 DEF OnceInv
<1>6. ASSUME NEW h \in Handlers, UnsubscribeReturns(h) PROVE OnceInv'
  BY <1>2, <1>6 DEF UnsubscribeReturns, historyVars, OnceInv
<1>7. CASE AnswerArrives
  <2>1. PICK h \in Handlers, w \in Awaiting :
          /\ Goes(h, w) /\ pc[h] \in Asking
          /\ pc[h] \in Leaving <=> w \in Leaving
    BY <1>7, AnswerMoves
  <2>2. UNCHANGED <<present, listeners, emptied>>
    BY <1>7 DEF AnswerArrives, historyVars
  <2>3. pc'[h] = w /\ \A g \in Handlers : g # h => pc'[g] = pc[g]
    BY <2>1, OneGoes
  <2>4. \A g \in Handlers : /\ pc'[g] \in Leaving <=> pc[g] \in Leaving
                            /\ pc'[g] \in Joining <=> pc[g] \in Joining
    BY <1>2, <2>1, <2>3 DEF Asking
  <2>5. QED
    BY <2>2, <2>4 DEF OnceInv
<1>8. CASE Elsewhere
  BY <1>8 DEF Elsewhere, OnceInv
<1>9. QED
  BY <1>3, <1>4, <1>5, <1>6, <1>7, <1>8, ConnectionSteps DEF Next

(* No message is passed to a handler twice until the channel is            *)
(* unsubscribed for the first time, whatever number of handlers join it    *)
(* while the first of them awaits the server.                              *)
THEOREM PassedOnceUntilEmptied == Spec => []PassedOnce
<1>1. Init => OnceInv
  BY DEF Init, OnceInv, Joining, Leaving, Awaiting
<1>2. OnceInv => PassedOnce
  BY DEF OnceInv, PassedOnce
<1>3. QED
  BY <1>1, <1>2, WireHolds, OnceStep, PTL DEF Spec

-----------------------------------------------------------------------------
(* No message is missed.                                                   *)

(* A message on its way to somebody was published while the channel had a  *)
(* listener; none is ever removed.                                         *)
DeliveryInv ==
  /\ MissedOnlyIfCutOff
  /\ \A i \in 1 .. Len(stream) :
       stream[i].kind = "message" /\ stream[i].to # {} => raced \/ listeners > 0

LEMMA DeliveryStep ==
  WireInv /\ ReachInv /\ RegisterInv /\ DeliveryInv /\ [Next]_vars => DeliveryInv'
<1> SUFFICES ASSUME WireInv, ReachInv, RegisterInv, DeliveryInv, [Next]_vars
             PROVE  DeliveryInv'
  OBVIOUS
<1>1. /\ handlers \subseteq Handlers
      /\ listeners \in 0 .. MaxListeners /\ MaxListeners \in Nat \ {0}
      /\ present \in BOOLEAN /\ raced \in BOOLEAN
      /\ commands \in Seq(Handlers) /\ stream \in Seq(Items)
  BY PubSubAssumption DEF WireInv, TypeOK
<1>2. ASSUME UNCHANGED <<stream, missed>>, raced => raced', listeners > 0 => listeners' > 0
      PROVE  DeliveryInv'
  BY <1>2 DEF DeliveryInv, MissedOnlyIfCutOff
<1>3. ASSUME NEW h \in Handlers, Subscribe(h) PROVE DeliveryInv'
  BY <1>1, <1>2, <1>3 DEF Subscribe
<1>4. ASSUME NEW h \in Handlers, SubscribeReturns(h) PROVE DeliveryInv'
  <2>1. UNCHANGED <<stream, missed, raced>>
    BY <1>4 DEF SubscribeReturns, wireVars, historyVars
  <2>2. listeners > 0 => listeners' > 0
    BY <1>1, <1>4 DEF SubscribeReturns
  <2>3. QED
    BY <1>2, <2>1, <2>2
<1>5. ASSUME NEW h \in Handlers, Unsubscribe(h) PROVE DeliveryInv'
  <2>1. UNCHANGED <<stream, missed, listeners>>
    BY <1>5 DEF Unsubscribe
  <2>2. raced => raced'
    BY <1>5 DEF Unsubscribe
  <2>3. QED
    BY <1>2, <2>1, <2>2
<1>6. ASSUME NEW h \in Handlers, UnsubscribeReturns(h) PROVE DeliveryInv'
  BY <1>2, <1>6 DEF UnsubscribeReturns, wireVars, historyVars
\* What the stream gains: an answer, or a message.
<1>7. ASSUME NEW item \in Items, stream' = Append(stream, item), UNCHANGED <<missed, raced, listeners>>,
             item.kind = "message" /\ item.to # {} => raced \/ listeners > 0
      PROVE  DeliveryInv'
  <2>1. /\ Len(stream') = Len(stream) + 1 /\ Len(stream) \in Nat
        /\ \A i \in 1 .. Len(stream) : stream'[i] = stream[i]
        /\ stream'[Len(stream) + 1] = item
    BY <1>1, <1>7, AppendAt
  <2>2. QED
    BY <1>7, <2>1 DEF DeliveryInv, MissedOnlyIfCutOff
\* What the stream loses.
<1>8. ASSUME stream # <<>>, stream' = Tail(stream), UNCHANGED <<raced, listeners>>,
             MissedOnlyIfCutOff'
      PROVE  DeliveryInv'
  <2>1. \A i \in 1 .. Len(stream') : i + 1 \in 1 .. Len(stream) /\ stream'[i] = stream[i + 1]
    BY <1>8, StreamArrives
  <2>2. QED
    BY <1>8, <2>1 DEF DeliveryInv
<1>9. CASE ServerAnswers
  <2>1. UNCHANGED <<missed, raced, listeners>> /\ Head(commands) \in Handlers
    BY <1>1, <1>9 DEF ServerAnswers, clientVars
  <2>2. PICK kind \in {"done", "failed"} :
          stream' = Append(stream, [kind |-> kind, to |-> {Head(commands)}])
    BY <1>9 DEF ServerAnswers
  <2> DEFINE item == [kind |-> kind, to |-> {Head(commands)}]
  <2>3. item \in Items /\ item.kind # "message"
    BY <2>1 DEF Items
  <2> HIDE DEF item
  <2>4. stream' = Append(stream, item)
    BY <2>2 DEF item
  <2>5. QED
    BY <1>7, <2>1, <2>3, <2>4
<1>10. CASE AnswerArrives
  BY <1>8, <1>10 DEF AnswerArrives, historyVars, DeliveryInv, MissedOnlyIfCutOff
\* While nothing is awaited and nothing has raced, subscribers have a listener.
<1>11. ASSUME ~raced, Expected # {} PROVE subscribed /\ listeners > 0
  <2>1. PICK h \in Handlers : pc[h] = "subscribed"
    BY <1>11 DEF Expected, In
  <2>2. h \in handlers
    BY <1>11, <2>1 DEF RegisterInv
  <2>3. present
    BY <2>2 DEF RegisterInv
  <2>4. Quiet /\ ~deaf
    BY <1>11 DEF Expected
  <2>5. QED
    BY <2>3, <2>4, ReachMeansReached DEF OpenChannelIsReached
<1>12. CASE Publish
  <2>1. UNCHANGED <<raced, listeners>>
    BY <1>12 DEF Publish, clientVars
  <2>2. CASE subscribed
    <3>1. stream' = Append(stream, [kind |-> "message", to |-> Expected]) /\ UNCHANGED missed
      BY <1>12, <2>2 DEF Publish
    <3> DEFINE item == [kind |-> "message", to |-> Expected]
    <3>2. item \in Items /\ item.to = Expected
      BY DEF Items, Expected, In
    <3> HIDE DEF item
    <3>3. stream' = Append(stream, item)
      BY <3>1 DEF item
    <3>4. QED
      BY <1>7, <1>11, <2>1, <3>1, <3>2, <3>3
  <2>3. CASE ~subscribed
    <3>1. /\ missed' = missed \cup (IF Expected = {} THEN {} ELSE {"notSubscribed"})
          /\ UNCHANGED stream
      BY <1>12, <2>3 DEF Publish
    <3>2. ~raced => Expected = {}
      BY <1>11, <2>3
    <3>3. ~raced => missed' = missed
      BY <3>1, <3>2
    <3>4. QED
      BY <2>1, <3>1, <3>3 DEF DeliveryInv, MissedOnlyIfCutOff
  <2>4. QED
    BY <2>2, <2>3
<1>13. CASE MessageArrives
  <2> DEFINE meant == Head(stream).to \cap In({"subscribed"})
  <2>1. /\ stream # <<>> /\ stream' = Tail(stream) /\ UNCHANGED <<raced, listeners>>
        /\ Head(stream).kind = "message"
    BY <1>13 DEF MessageArrives, clientVars
  <2>2. PICK heard \in SUBSET Reached :
          /\ Called(heard)
          /\ missed' = missed
               \cup (IF meant \subseteq Reached THEN {} ELSE {"notReached"})
               \cup (IF meant \cap Reached \subseteq heard THEN {} ELSE {"cutOff"})
    BY <1>13 DEF MessageArrives
  <2>3. Head(stream) = stream[1] /\ 1 \in 1 .. Len(stream)
    BY <2>1, StreamArrives
  <2>4. ASSUME ~raced, NEW h \in meant PROVE h \in Reached
    <3>1. h \in handlers
      BY <2>4 DEF RegisterInv, In
    <3>2. present
      BY <3>1 DEF RegisterInv
    <3>3. listeners > 0
      BY <2>1, <2>3, <2>4 DEF DeliveryInv
    <3>4. QED
      BY <3>1, <3>2, <3>3 DEF Reached
  <2> HIDE DEF meant
  <2>5. ~HandlersMayThrow => heard = Reached
    BY <2>2 DEF Called
  <2>6. ~raced => missed' \subseteq missed \cup IF HandlersMayThrow THEN {"cutOff"} ELSE {}
    BY <2>2, <2>4, <2>5
  <2>7. MissedOnlyIfCutOff'
    BY <2>1, <2>6 DEF DeliveryInv, MissedOnlyIfCutOff
  <2>8. QED
    BY <1>8, <2>1, <2>7
<1>14. CASE UNCHANGED vars
  BY <1>2, <1>14 DEF vars, clientVars, wireVars, historyVars
<1>15. QED
  BY <1>3, <1>4, <1>5, <1>6, <1>9, <1>10, <1>12, <1>13, <1>14 DEF Next

(* A message published while nothing is awaited reaches every handler that *)
(* is subscribed then and when it arrives, until a subscribe and an        *)
(* UNSUBSCRIBE overlap; only a handler that throws at it can keep it from  *)
(* others.                                                                 *)
THEOREM MessagesReachSubscribers == Spec => []MissedOnlyIfCutOff
<1>1. Init => DeliveryInv
  BY DEF Init, DeliveryInv, MissedOnlyIfCutOff
<1>2. DeliveryInv => MissedOnlyIfCutOff
  BY DEF DeliveryInv
<1>3. QED
  BY <1>1, <1>2, WireHolds, ReachHolds, RegisterHolds, DeliveryStep, PTL DEF Spec
=============================================================================
