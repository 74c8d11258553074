------------------------- MODULE Connection_proofs -------------------------
(***************************************************************************)
(* Proofs about AsyncProtocol and Handshake, for any values of their       *)
(* constants.                                                              *)
(***************************************************************************)
EXTENDS MCConnection, SequenceTheorems, FiniteSetTheorems, TLAPS

-----------------------------------------------------------------------------
(* AsyncProtocol.                                                          *)

In(s, m) == \E i \in 1 .. Len(s) : s[i] = m
Once(s, m) == \A i, j \in 1 .. Len(s) : s[i] = m /\ s[j] = m => i = j
Current(m) == Handling /\ node = m

LEMMA InAppend ==
  ASSUME NEW S, NEW s \in Seq(S), NEW x \in S, NEW m
  PROVE  /\ In(Append(s, x), m) <=> In(s, m) \/ x = m
         /\ Once(s, m) /\ (x = m => ~In(s, m)) => Once(Append(s, x), m)
<1>1. /\ Len(Append(s, x)) = Len(s) + 1 /\ Len(s) \in Nat
      /\ \A i \in 1 .. Len(s) : Append(s, x)[i] = s[i]
      /\ Append(s, x)[Len(s) + 1] = x
  BY AppendProperties
<1> QED BY <1>1 DEF In, Once

LEMMA InTail ==
  ASSUME NEW S, NEW s \in Seq(S), s # <<>>, NEW m
  PROVE  /\ In(s, m) <=> In(Tail(s), m) \/ Head(s) = m
         /\ Once(s, m) => Once(Tail(s), m) /\ (Head(s) = m => ~In(Tail(s), m))
<1>1. /\ Len(Tail(s)) = Len(s) - 1 /\ Len(s) \in Nat /\ Len(s) > 0
      /\ \A i \in 1 .. Len(Tail(s)) : Tail(s)[i] = s[i + 1]
      /\ Head(s) = s[1]
  BY HeadTailProperties, EmptySeq, LenProperties
<1>2. \A i \in 2 .. Len(s) : i - 1 \in 1 .. Len(Tail(s)) /\ Tail(s)[i - 1] = s[i]
  BY <1>1
<1>3. In(s, m) => In(Tail(s), m) \/ Head(s) = m
  <2> SUFFICES ASSUME NEW i \in 1 .. Len(s), s[i] = m PROVE In(Tail(s), m) \/ Head(s) = m
    BY DEF In
  <2>1. CASE i = 1
    BY <1>1, <2>1
  <2>2. CASE i # 1
    BY <1>1, <1>2, <2>2 DEF In
  <2> QED BY <2>1, <2>2
<1> QED BY <1>1, <1>3 DEF In, Once

LEMMA InEmpty == \A m : ~In(<<>>, m) /\ Once(<<>>, m)
BY DEF In, Once

-----------------------------------------------------------------------------
(* The inductive invariant.                                                *)

(* A message is where its future says: not queued before its send() has    *)
(* pushed it, in one place while the future is pending, and written only   *)
(* if the future has a value.                                              *)
WhereItIs(m) ==
  /\ sender[m] = "idle" <=> promise[m] = "none"
  /\ sender[m] = "push" => /\ promise[m] = "pending"
                           /\ ~In(messages, m) /\ ~Current(m)
  /\ In(messages, m) => promise[m] = "pending" /\ ~Current(m)
  /\ Current(m) => promise[m] = "pending"
  /\ promise[m] = "pending" => sender[m] = "push" \/ In(messages, m) \/ Current(m)
  /\ Once(messages, m)
  /\ Written(m) => promise[m] = "value"
  /\ promise[m] = "value" /\ running => Written(m)

(* Before start() nothing is queued and nobody stops.                      *)
NotStarted ==
  tx = "none" => /\ ~running /\ messages = <<>> /\ rx = "none" /\ socket = "open"
                 /\ quit = "none" /\ dtor \in {"none", "destroyed"}
                 /\ \A m \in Messages : promise[m] \in {"none", "exception"}

(* running_ is cleared first, and is never set again.                      *)
StopOrder ==
  /\ running => quit \in {"subscribed", "stop"} /\ dtor \in {"none", "stop"}
  /\ running => socket = "open" /\ ~In(messages, StopMessage)
  /\ running /\ Handling => node # StopMessage
  /\ tx = "write" => node # StopMessage

LossInv ==
  /\ rx = "raise" => lost
  /\ rx # "ended" => resets = 0
  /\ resets > 0 => lost

(* The destructor finds nobody in send(), then no tx thread, then no queue.*)
DtorInv ==
  /\ dtor # "none" => \A m \in Messages : sender[m] # "push"
  /\ dtor \in {"messages", "joinRx", "destroyed"} => tx \in {"none", "ended"}
  /\ dtor \in {"joinRx", "destroyed"} => \A m \in Messages : ~In(messages, m)

StopInv == NotStarted /\ StopOrder /\ LossInv /\ DtorInv

ProtocolInv == TypeOK /\ StopInv /\ \A m \in Messages : WhereItIs(m)
-----------------------------------------------------------------------------
LEMMA ProtocolInvInit == Init => ProtocolInv
<1> SUFFICES ASSUME Init PROVE ProtocolInv
  OBVIOUS
<1>1. TypeOK
  <2>1. messages \in Seq(Messages \cup {StopMessage}) /\ written \in Seq(Messages)
    BY EmptySeq DEF Init
  <2>2. running \in BOOLEAN /\ lost \in BOOLEAN
    BY DEF Init
  <2>3. /\ promise \in [Messages -> {"none", "pending", "value", "exception", "broken"}]
        /\ sender \in [Messages -> {"idle", "push", "sent"}]
        /\ node \in Messages \cup {StopMessage}
    BY DEF Init
  <2> QED BY <2>1, <2>2, <2>3 DEF Init, TypeOK
<1>2. StopInv
  BY DEF Init, StopInv, NotStarted, StopOrder, LossInv, DtorInv, Handling
<1>3. \A m \in Messages : WhereItIs(m)
  <2> SUFFICES ASSUME NEW m \in Messages PROVE WhereItIs(m)
    OBVIOUS
  <2>1. ~In(messages, m) /\ Once(messages, m) /\ ~Current(m) /\ ~Written(m)
    BY InEmpty DEF Init, Current, Handling, Written
  <2>2. sender[m] = "idle" /\ promise[m] = "none"
    BY DEF Init
  <2> QED BY <2>1, <2>2 DEF WhereItIs
<1> QED BY <1>1, <1>2, <1>3 DEF ProtocolInv

LEMMA ProtocolTypeStep == ASSUME ProtocolInv, [Next]_vars PROVE TypeOK'
<1> USE DEF ProtocolInv, TypeOK, StopInv, StopStates
<1>1. ASSUME NEW x \in Messages \cup {StopMessage}
      PROVE  Append(messages, x) \in Seq(Messages \cup {StopMessage})
  BY AppendProperties
<1>2. messages # <<>> => /\ Head(messages) \in Messages \cup {StopMessage}
                         /\ Tail(messages) \in Seq(Messages \cup {StopMessage})
  BY HeadTailProperties
<1>3. ASSUME NEW m \in Messages PROVE Append(written, m) \in Seq(Messages)
  BY AppendProperties
<1>4. CASE Start \/ PeerLoss \/ Quit \/ Destroy
  <2>1. CASE Start
    BY <2>1 DEF Start, ioVars, txVars, rxVars
  <2>2. CASE PeerLoss
    BY <2>2 DEF PeerLoss, ioVars, txVars, rxVars
  <2>3. CASE Quit
    BY <2>3 DEF Quit, ioVars, txVars, rxVars
  <2>4. CASE Destroy
    BY <2>4 DEF Destroy, ioVars, txVars, rxVars
  <2> QED BY <2>1, <2>2, <2>3, <2>4, <1>4
<1>5. ASSUME NEW m \in Messages, Send(m) PROVE TypeOK'
  <2>1. CASE SendCheck(m)
    BY <2>1 DEF SendCheck, Answer, ioVars, txVars, rxVars
  <2>2. CASE SendPush(m)
    BY <1>1, <2>2 DEF SendPush, Push, ioVars, txVars, rxVars
  <2> QED BY <2>1, <2>2, <1>5 DEF Send
<1>6. ASSUME NEW c \in Callers, Stop(c) PROVE TypeOK'
  <2>1. CASE StopFlag(c)
    <3>1. quit' \in {quit, "wake"} /\ dtor' \in {dtor, "wake"} /\ running' \in BOOLEAN
      BY <2>1 DEF StopFlag, StopStep
    <3>2. UNCHANGED <<messages, promise, sender, txVars, rxVars, ioVars>>
      BY <2>1 DEF StopFlag
    <3> QED BY <3>1, <3>2 DEF ioVars, txVars, rxVars
  <2>2. CASE StopSeeQueue(c)
    BY <2>2 DEF StopSeeQueue, StopStep, ioVars, txVars, rxVars
  <2>3. CASE StopPush(c)
    BY <1>1, <2>3 DEF StopPush, StopStep, ioVars, txVars, rxVars
  <2>4. CASE StopReset(c)
    <3>1. quit' \in {quit, "done"} /\ dtor' \in {dtor, "joinTx"}
      BY <2>4 DEF StopReset, StopStep, AfterStop
    <3> QED BY <2>4, <3>1 DEF StopReset, txVars, rxVars
  <2> QED BY <2>1, <2>2, <2>3, <2>4, <1>6 DEF Stop
<1>7. CASE Tx
  <2>1. CASE TxCheck
    BY <2>1 DEF TxCheck, ioVars, txVars, rxVars
  <2>2. CASE TxPop
    BY <1>2, <2>2 DEF TxPop, ioVars, txVars, rxVars
  <2>3. CASE TxRefuse
    BY <2>3 DEF TxRefuse, AnswerNode, Answer, ioVars, txVars, rxVars
  <2>4. CASE TxInject
    BY <2>4 DEF TxInject, ioVars, txVars, rxVars
  <2>5. CASE TxSkipWrite
    BY <2>5 DEF TxSkipWrite, AnswerNode, Answer, ioVars, txVars, rxVars
  <2>6. CASE TxEnterWrite
    BY <2>6 DEF TxEnterWrite, ioVars, txVars, rxVars
  <2> QED BY <2>1, <2>2, <2>3, <2>4, <2>5, <2>6, <1>7 DEF Tx
<1>8. CASE TxWrite
  <2>1. /\ tx = "write" /\ TxWriteResult(node) /\ tx' = "check"
        /\ UNCHANGED <<running, messages, sender, node, rxVars, socket, lost, quit, dtor>>
    BY <1>8 DEF TxWrite
  <2>2. /\ promise' \in [Messages -> {"none", "pending", "value", "exception", "broken"}]
        /\ written' \in Seq(Messages)
    BY <1>3, <2>1 DEF TxWriteResult, AnswerNode, Answer, StopOrder
  <2> QED BY <2>1, <2>2 DEF rxVars
<1>9. CASE Rx
  <2>1. CASE RxReset
    BY <2>1 DEF RxReset, ioVars, txVars, rxVars
  <2>2. CASE RxRaise
    BY <2>2 DEF RxRaise, LossInv, ioVars, txVars, rxVars
  <2>3. CASE RxDrop
    BY <2>3 DEF RxDrop, ioVars, txVars, rxVars
  <2> QED BY <2>1, <2>2, <2>3, <1>9 DEF Rx
<1>10. CASE Destruct
  <2>1. CASE JoinTx \/ JoinRx
    BY <2>1 DEF JoinTx, JoinRx, ioVars, txVars, rxVars
  <2>2. CASE DestroyMessages
    <3>1. promise' \in [Messages -> {"none", "pending", "value", "exception", "broken"}]
      BY <2>2 DEF DestroyMessages, Break
    <3> QED BY <2>2, <3>1, EmptySeq DEF DestroyMessages, ioVars, txVars, rxVars
  <2> QED BY <1>10, <2>1, <2>2 DEF Destruct
<1>11. CASE UNCHANGED vars
  BY <1>11 DEF vars, ioVars, txVars, rxVars
<1> QED BY <1>4, <1>5, <1>6, <1>7, <1>8, <1>9, <1>10, <1>11 DEF Next

LEMMA StopStepInv == ASSUME ProtocolInv, TypeOK', [Next]_vars PROVE StopInv'
<1> USE DEF ProtocolInv, TypeOK, StopInv, NotStarted, StopOrder, LossInv, DtorInv, StopStates, Handling
<1>1. ASSUME NEW x \in Messages \cup {StopMessage}, NEW m
      PROVE  In(Append(messages, x), m) <=> In(messages, m) \/ x = m
  BY InAppend
<1>2. ASSUME messages # <<>>, NEW m
      PROVE  In(messages, m) <=> In(Tail(messages), m) \/ Head(messages) = m
  BY <1>2, InTail
<1>3. \A m \in Messages : WhereItIs(m)
  OBVIOUS
<1>4. CASE Start \/ PeerLoss \/ Quit \/ Destroy
  <2>1. CASE Start
    BY <2>1, InEmpty DEF Start, ioVars, txVars, rxVars
  <2>2. CASE PeerLoss
    BY <2>2 DEF PeerLoss, ioVars, txVars, rxVars
  <2>3. CASE Quit
    BY <2>3 DEF Quit, ioVars, txVars, rxVars
  <2>4. CASE Destroy
    BY <2>4, InEmpty DEF Destroy, ioVars, txVars, rxVars
  <2> QED BY <1>4, <2>1, <2>2, <2>3, <2>4
<1>5. ASSUME NEW m \in Messages, Send(m) PROVE StopInv'
  <2>1. CASE SendCheck(m)
    BY <2>1 DEF SendCheck, Answer, ioVars, txVars, rxVars
  <2>2. CASE SendPush(m)
    BY StopAssumption, <1>1, <1>3, <2>2 DEF SendPush, Push, WhereItIs, ioVars, txVars, rxVars
  <2> QED BY <1>5, <2>1, <2>2 DEF Send
<1>6. ASSUME NEW c \in Callers, Stop(c) PROVE StopInv'
  <2>1. CASE StopFlag(c)
    BY <2>1 DEF StopFlag, StopStep, ioVars, txVars, rxVars
  <2>2. CASE StopSeeQueue(c)
    BY <2>2 DEF StopSeeQueue, StopStep, ioVars, txVars, rxVars
  <2>3. CASE StopPush(c)
    BY StopAssumption, <1>1, <2>3 DEF StopPush, StopStep, ioVars, txVars, rxVars
  <2>4. CASE StopReset(c)
    BY <2>4 DEF StopReset, StopStep, AfterStop, ioVars, txVars, rxVars
  <2> QED BY <1>6, <2>1, <2>2, <2>3, <2>4 DEF Stop
<1>7. CASE Tx
  <2>1. CASE TxCheck
    BY <2>1 DEF TxCheck, ioVars, txVars, rxVars
  <2>2. CASE TxPop
    BY <1>2, <2>2 DEF TxPop, ioVars, txVars, rxVars
  <2>3. CASE TxRefuse
    BY <2>3 DEF TxRefuse, AnswerNode, Answer, ioVars, txVars, rxVars
  <2>4. CASE TxInject
    BY <2>4 DEF TxInject, ioVars, txVars, rxVars
  <2>5. CASE TxSkipWrite
    BY <2>5 DEF TxSkipWrite, AnswerNode, Answer, ioVars, txVars, rxVars
  <2>6. CASE TxEnterWrite
    BY <2>6 DEF TxEnterWrite, ioVars, txVars, rxVars
  <2> QED BY <1>7, <2>1, <2>2, <2>3, <2>4, <2>5, <2>6 DEF Tx
<1>8. CASE TxWrite
  BY <1>8 DEF TxWrite, rxVars
<1>9. CASE Rx
  <2>1. CASE RxReset
    BY <2>1 DEF RxReset, Reports, ioVars, txVars, rxVars
  <2>2. CASE RxRaise
    BY <2>2 DEF RxRaise, ioVars, txVars, rxVars
  <2>3. CASE RxDrop
    BY <2>3 DEF RxDrop, ioVars, txVars, rxVars
  <2> QED BY <1>9, <2>1, <2>2, <2>3 DEF Rx
<1>10. CASE Destruct
  <2>1. CASE JoinTx
    BY <2>1 DEF JoinTx, ioVars, txVars, rxVars
  <2>2. CASE DestroyMessages
    BY InEmpty, <2>2 DEF DestroyMessages, ioVars, txVars, rxVars
  <2>3. CASE JoinRx
    BY <2>3 DEF JoinRx, ioVars, txVars, rxVars
  <2> QED BY <1>10, <2>1, <2>2, <2>3 DEF Destruct
<1>11. CASE UNCHANGED vars
  BY <1>11 DEF vars, ioVars, txVars, rxVars
<1> QED BY <1>4, <1>5, <1>6, <1>7, <1>8, <1>9, <1>10, <1>11 DEF Next

LEMMA WhereStep ==
  ASSUME ProtocolInv, TypeOK', StopInv', [Next]_vars, NEW m \in Messages
  PROVE  WhereItIs(m)'
<1> USE DEF ProtocolInv, WhereItIs, Current, Handling
<1>t. /\ promise \in [Messages -> {"none", "pending", "value", "exception", "broken"}]
      /\ sender \in [Messages -> {"idle", "push", "sent"}]
      /\ messages \in Seq(Messages \cup {StopMessage})
      /\ written \in Seq(Messages)
      /\ m # StopMessage
  BY StopAssumption DEF TypeOK
<1>1. ASSUME NEW x \in Messages \cup {StopMessage}
      PROVE  /\ In(Append(messages, x), m) <=> In(messages, m) \/ x = m
             /\ Once(messages, m) /\ (x = m => ~In(messages, m))
                  => Once(Append(messages, x), m)
  <2> DEFINE S == Messages \cup {StopMessage}
  <2>1. messages \in Seq(S) /\ m \in S
    BY <1>t
  <2> HIDE DEF S
  <2>2. x \in S
    BY DEF S
  <2> QED BY <2>1, <2>2, InAppend
<1>2. ASSUME messages # <<>>
      PROVE  /\ In(messages, m) <=> In(Tail(messages), m) \/ Head(messages) = m
             /\ Once(messages, m) =>
                  Once(Tail(messages), m) /\ (Head(messages) = m => ~In(Tail(messages), m))
  BY <1>t, <1>2, InTail
<1>3. CASE Start
  BY <1>3, InEmpty DEF Start, StopInv, NotStarted, Written, ioVars
<1>4. CASE PeerLoss \/ Quit \/ Destroy
  BY <1>4 DEF PeerLoss, Quit, Destroy, Written, ioVars, txVars
<1>5. ASSUME NEW n \in Messages, Send(n) PROVE WhereItIs(m)'
  <2>1. CASE SendCheck(n)
    <3>1. UNCHANGED <<running, messages, tx, node, written>>
      BY <2>1 DEF SendCheck, ioVars, txVars
    <3>2. CASE n = m
      <4>1. sender[m] = "idle" /\ sender'[m] \in {"push", "sent"}
            /\ promise'[m] = (IF running THEN "pending" ELSE "exception")
            /\ sender'[m] = (IF running THEN "push" ELSE "sent")
        BY <1>t, <2>1, <3>2 DEF SendCheck, Answer
      <4> QED BY <1>t, <3>1, <4>1 DEF Written
    <3>3. CASE n # m
      BY <1>t, <2>1, <3>1, <3>3 DEF SendCheck, Answer, Written
    <3> QED BY <3>2, <3>3
  <2>2. CASE SendPush(n)
    <3>1. UNCHANGED <<running, promise, tx, node, written>> /\ messages' = Append(messages, n)
      BY <2>2 DEF SendPush, Push, ioVars, txVars
    <3>2. sender' = [sender EXCEPT ![n] = "sent"] /\ sender[n] = "push"
      BY <2>2 DEF SendPush
    <3> QED BY <1>t, <1>1, <3>1, <3>2 DEF Written
  <2> QED BY <1>5, <2>1, <2>2 DEF Send
<1>6. ASSUME NEW c \in Callers, Stop(c) PROVE WhereItIs(m)'
  <2>1. UNCHANGED <<promise, sender, tx, node, written>>
    BY <1>6 DEF Stop, StopFlag, StopSeeQueue, StopPush, StopReset, ioVars, txVars
  <2>2. running' = running \/ running' = FALSE
    BY <1>6 DEF Stop, StopFlag, StopSeeQueue, StopPush, StopReset
  <2>3. messages' = messages \/ messages' = Append(messages, StopMessage)
    BY <1>6 DEF Stop, StopFlag, StopSeeQueue, StopPush, StopReset
  <2>4. (In(messages', m) <=> In(messages, m)) /\ Once(messages', m)
    BY <1>t, <1>1, <2>3
  <2> QED BY <2>1, <2>2, <2>4 DEF Written
<1>7. CASE Tx
  <2>1. UNCHANGED <<running, sender, written>>
    BY <1>7 DEF Tx, TxCheck, TxPop, TxRefuse, TxInject, TxSkipWrite, TxEnterWrite, ioVars
  <2>2. CASE TxPop
    <3>1. /\ tx = "pop" /\ tx' = "popped" /\ messages # <<>>
          /\ node' = Head(messages) /\ messages' = Tail(messages) /\ promise' = promise
      BY <2>2 DEF TxPop
    <3> QED BY <1>2, <2>1, <3>1 DEF Written
  <2>3. CASE TxCheck \/ TxInject \/ TxEnterWrite
    BY <2>1, <2>3 DEF TxCheck, TxInject, TxEnterWrite, Written
  <2>4. CASE TxRefuse \/ TxSkipWrite
    <3>1. tx \in {"popped", "inject"} /\ tx' = "check" /\ ~running /\ UNCHANGED <<messages, node>>
      BY <2>4 DEF TxRefuse, TxSkipWrite
    <3>2. AnswerNode("exception") \/ AnswerNode("value")
      BY <2>4 DEF TxRefuse, TxSkipWrite
    <3>3. IF node = m THEN promise'[m] \in {"exception", "value"} ELSE promise'[m] = promise[m]
      BY <1>t, <3>2 DEF AnswerNode, Answer
    <3> QED BY <2>1, <3>1, <3>3 DEF Written
  <2> QED BY <1>7, <2>2, <2>3, <2>4 DEF Tx
<1>8. CASE TxWrite
  <2>1. tx = "write" /\ tx' = "check" /\ UNCHANGED <<running, messages, sender, node>>
    BY <1>8 DEF TxWrite
  <2>2. CASE socket = "open" /\ written' = Append(written, node) /\ AnswerNode("value")
    <3>1. node \in Messages
      BY <2>1 DEF StopInv, StopOrder, TypeOK
    <3>2. Written(m)' <=> Written(m) \/ node = m
      BY <1>t, <2>2, <3>1, AppendProperties DEF Written
    <3>3. promise'[m] = (IF node = m THEN "value" ELSE promise[m])
      BY <1>t, <2>2, <3>1, StopAssumption DEF AnswerNode, Answer
    <3> QED BY <2>1, <3>2, <3>3
  <2>3. CASE AnswerNode("exception") /\ UNCHANGED written
    <3>1. node \in Messages
      BY <2>1 DEF StopInv, StopOrder, TypeOK
    <3>2. promise'[m] = (IF node = m THEN "exception" ELSE promise[m])
      BY <1>t, <2>3, <3>1, StopAssumption DEF AnswerNode, Answer
    <3> QED BY <2>1, <2>3, <3>2 DEF Written
  <2> QED BY <1>8, <2>2, <2>3 DEF TxWrite, TxWriteResult
<1>9. CASE Rx
  BY <1>9 DEF Rx, RxReset, RxRaise, RxDrop, Written, ioVars, txVars
<1>10. CASE Destruct
  <2>1. UNCHANGED <<running, sender, tx, node, written>>
    BY <1>10 DEF Destruct, JoinTx, DestroyMessages, JoinRx, ioVars, txVars
  <2>2. CASE DestroyMessages
    <3>1. promise'[m] = (IF In(messages, m) THEN "broken" ELSE promise[m])
      BY <2>2 DEF DestroyMessages, Break, In
    <3>2. ~In(messages, m)' /\ Once(messages, m)'
      BY <2>2, InEmpty DEF DestroyMessages
    <3> QED BY <2>1, <3>1, <3>2 DEF Written
  <2>3. CASE JoinTx \/ JoinRx
    BY <2>1, <2>3 DEF JoinTx, JoinRx, Written
  <2> QED BY <1>10, <2>2, <2>3 DEF Destruct
<1>11. CASE UNCHANGED vars
  BY <1>11 DEF vars, Written, ioVars, txVars
<1> QED BY <1>3, <1>4, <1>5, <1>6, <1>7, <1>8, <1>9, <1>10, <1>11 DEF Next

LEMMA ProtocolInvStep == ProtocolInv /\ [Next]_vars => ProtocolInv'
<1> SUFFICES ASSUME ProtocolInv, [Next]_vars PROVE ProtocolInv'
  OBVIOUS
<1>1. TypeOK'
  BY ProtocolTypeStep
<1>2. StopInv'
  BY <1>1, StopStepInv
<1>3. \A m \in Messages : WhereItIs(m)'
  BY <1>1, <1>2, WhereStep
<1> QED BY <1>1, <1>2, <1>3 DEF ProtocolInv

LEMMA ProtocolInvAlways == Spec => []ProtocolInv
BY ProtocolInvInit, ProtocolInvStep, PTL DEF Spec

(* Every variable keeps its type; the rx thread reports at most one reset. *)
THEOREM ProtocolTypeCorrect == Spec => []TypeOK
<1>1. ProtocolInv => TypeOK
  BY DEF ProtocolInv
<1> QED BY <1>1, ProtocolInvAlways, PTL

(* Whatever stop(), the senders, the two loops and the destructor do to    *)
(* each other, a future tells what became of its message, no future is     *)
(* forgotten by the destructor, and stop() is not taken for a loss.        *)
THEOREM StopIsHonest == Spec => []StopsHonestly
<1>1. ProtocolInv => StopsHonestly
  <2> SUFFICES ASSUME ProtocolInv PROVE StopsHonestly
    OBVIOUS
  <2>1. FuturesAreHonest
    <3> SUFFICES ASSUME NEW m \in Messages
                 PROVE  /\ promise[m] \in {"exception", "broken"} => ~Written(m)
                        /\ promise[m] = "value" /\ running => Written(m)
      BY DEF FuturesAreHonest
    <3> QED BY DEF ProtocolInv, WhereItIs
  <2>2. NoFutureLeftPending
    <3> SUFFICES ASSUME dtor = "destroyed", NEW m \in Messages PROVE promise[m] # "pending"
      BY DEF NoFutureLeftPending
    <3>1. sender[m] # "push" /\ ~In(messages, m) /\ tx \in {"none", "ended"}
      BY DEF ProtocolInv, StopInv, DtorInv
    <3> QED BY <3>1 DEF ProtocolInv, WhereItIs, Current, Handling
  <2>3. OwnStopIsNotALoss
    BY DEF ProtocolInv, StopInv, LossInv, OwnStopIsNotALoss
  <2> QED BY <2>1, <2>2, <2>3 DEF StopsHonestly
<1> QED BY <1>1, ProtocolInvAlways, PTL

-----------------------------------------------------------------------------
(* The refinement.                                                         *)

LEMMA OutboxInit == Init => Outbox!Init
BY DEF Init, Outbox!Init, Backlog, Handling

(* A message that is being handled is the head of the backlog. *)
LEMMA BacklogHandled ==
  ASSUME TypeOK, Handling
  PROVE  /\ Backlog # <<>>
         /\ Head(Backlog) = node
         /\ Tail(Backlog) = messages
<1> DEFINE M == Messages \cup {StopMessage}
<1>1. messages \in Seq(M) /\ <<node>> \in Seq(M)
  BY DEF TypeOK
<1>2. Backlog = <<node>> \o messages
  BY DEF Backlog
<1>3. /\ <<node>> \o messages \in Seq(M)
      /\ Len(<<node>> \o messages) = 1 + Len(messages)
      /\ \A i \in 1 .. Len(messages) + 1 :
           (<<node>> \o messages)[i] = IF i = 1 THEN node ELSE messages[i - 1]
  BY <1>1, ConcatProperties
<1> QED BY <1>1, <1>2, <1>3

LEMMA BacklogIdle ==
  ASSUME TypeOK, ~Handling
  PROVE  Backlog = messages
BY DEF Backlog, TypeOK

(* A push appends to the backlog, whatever the tx thread is doing. *)
LEMMA BacklogPush ==
  ASSUME TypeOK, TypeOK', NEW m \in Messages \cup {StopMessage},
         messages' = Append(messages, m), UNCHANGED txVars
  PROVE  Backlog' = Append(Backlog, m)
<1>1. Handling' <=> Handling
  BY DEF Handling, txVars
<1>2. CASE Handling
  <2>1. Backlog = <<node>> \o messages /\ Backlog' = <<node>> \o messages'
    BY <1>1, <1>2 DEF Backlog, txVars
  <2>2. messages \in Seq(Messages \cup {StopMessage}) /\ node \in Messages \cup {StopMessage}
    BY DEF TypeOK
  <2>3. <<node>> \o Append(messages, m) = Append(<<node>> \o messages, m)
    BY <2>2
  <2> QED BY <2>1, <2>3
<1>3. CASE ~Handling
  BY <1>1, <1>3, BacklogIdle DEF Backlog, TypeOK
<1> QED BY <1>2, <1>3

LEMMA OutboxStep ==
  ProtocolInv /\ ProtocolInv' /\ [Next]_vars => [Outbox!Next]_<<Backlog, written>>
<1> SUFFICES ASSUME ProtocolInv, ProtocolInv', [Next]_vars
             PROVE  Outbox!Next \/ UNCHANGED <<Backlog, written>>
  OBVIOUS
<1>0. TypeOK /\ TypeOK'
  BY DEF ProtocolInv
<1>1. CASE Start \/ PeerLoss \/ Quit \/ Destroy \/ TxCheck \/ TxInject \/ TxEnterWrite
  BY <1>1 DEF Start, PeerLoss, Quit, Destroy, TxCheck, TxInject, TxEnterWrite,
              Backlog, Handling, ioVars, txVars
<1>2. CASE Rx \/ JoinTx \/ JoinRx \/ UNCHANGED vars
  BY <1>2 DEF Rx, RxReset, RxRaise, RxDrop, JoinTx, JoinRx, vars,
              Backlog, Handling, ioVars, txVars
<1>3. ASSUME NEW m \in Messages, Send(m)
      PROVE  Outbox!Next \/ UNCHANGED <<Backlog, written>>
  <2>1. CASE SendCheck(m)
    BY <2>1 DEF SendCheck, Backlog, Handling, ioVars, txVars
  <2>2. CASE SendPush(m)
    <3>1. Backlog' = Append(Backlog, m) /\ written' = written
      BY <1>0, <2>2, BacklogPush DEF SendPush, Push, ioVars
    <3> QED BY <3>1 DEF Outbox!Next, Outbox!Accept
  <2> QED BY <1>3, <2>1, <2>2 DEF Send
<1>4. ASSUME NEW caller \in Callers, Stop(caller)
      PROVE  Outbox!Next \/ UNCHANGED <<Backlog, written>>
  <2>1. CASE StopFlag(caller) \/ StopSeeQueue(caller) \/ StopReset(caller)
    BY <2>1 DEF StopFlag, StopSeeQueue, StopReset, Backlog, Handling, ioVars, txVars
  <2>2. CASE StopPush(caller)
    <3>1. Backlog' = Append(Backlog, StopMessage) /\ written' = written
      BY <1>0, <2>2, BacklogPush DEF StopPush, ioVars
    <3> QED BY <3>1 DEF Outbox!Next, Outbox!Accept
  <2> QED BY <1>4, <2>1, <2>2 DEF Stop
<1>5. CASE TxPop
  <2>1. ~Handling /\ Handling' /\ written' = written
    BY <1>5 DEF TxPop, Handling, ioVars
  <2>2. Backlog = messages /\ Backlog' = <<Head(messages)>> \o Tail(messages)
    BY <1>0, <1>5, <2>1, BacklogIdle DEF TxPop, Backlog
  <2>3. Backlog' = Backlog
    BY <1>0, <1>5, <2>2 DEF TxPop, TypeOK
  <2> QED BY <2>1, <2>3
<1>6. ASSUME Handling, ~Handling', UNCHANGED messages
      PROVE  Backlog # <<>> /\ Backlog' = Tail(Backlog) /\ Head(Backlog) = node
  BY <1>0, <1>6, BacklogHandled, BacklogIdle DEF Backlog
<1>7. CASE TxRefuse \/ TxSkipWrite
  <2>1. Handling /\ ~Handling' /\ messages' = messages /\ written' = written
    BY <1>7 DEF TxRefuse, TxSkipWrite, Handling, ioVars
  <2> QED BY <1>6, <2>1 DEF Outbox!Next, Outbox!Fail
<1>8. CASE TxWrite
  <2>1. Handling /\ ~Handling' /\ messages' = messages
    BY <1>8 DEF TxWrite, Handling
  <2>2. written' = Append(written, node) \/ written' = written
    BY <1>8 DEF TxWrite, TxWriteResult
  <2> QED BY <1>6, <2>1, <2>2 DEF Outbox!Next, Outbox!Deliver, Outbox!Fail
<1>9. CASE DestroyMessages
  <2>1. ~Handling /\ ~Handling'
    BY <1>9 DEF DestroyMessages, ProtocolInv, StopInv, DtorInv, Handling, txVars
  <2>2. Backlog' = <<>> /\ written' = written
    BY <1>9, <2>1 DEF DestroyMessages, Backlog, ioVars
  <2> QED BY <2>2 DEF Outbox!Next, Outbox!Abandon
<1> QED BY <1>1, <1>2, <1>3, <1>4, <1>5, <1>7, <1>8, <1>9
        DEF Next, Tx, Destruct

(* The queue, the tx thread and stop() implement the lossy FIFO of Outbox  *)
(* for any set of messages: nothing is written that was not sent, nothing  *)
(* twice, and nothing before what was queued earlier.                      *)
THEOREM OutboxImplemented == Spec => ImplementsOutbox
BY OutboxInit, OutboxStep, ProtocolInvAlways, PTL DEF Spec, ImplementsOutbox, Outbox!Spec

-----------------------------------------------------------------------------
(* Handshake: the invariant.                                               *)

(* The places of the events of a kind in a queue. *)
Places(queue, kind) == {i \in 1 .. Len(queue) : queue[i][1] = kind}

Reported(c) == <<"se", c>> \in told
ReportedToCe(c) == <<"ce", c>> \in told
Made == {c \in Conns : se[c] # "none"}
Untold == {c \in Made : ~Reported(c)}

(* An attempt, a reset on its way or a connection without one: one in all, *)
(* but for the strays.                                                     *)
CountInv ==
  connectors + Cardinality(Places(bus, "Reset")) + Cardinality(Untold) = 1 + strays

(* An HTTP connection makes at most one attempt. *)
CallsReset == {h \in Calls : <<"http", h>> \in told}
StrayInv == strays + Cardinality(Places(bus, "HttpReset")) <= Cardinality(CallsReset)

(* Where a connection is between the threads of its end. *)
EndsInv ==
  \A c \in Conns :
    /\ In(bus, <<"CeConnected", c>>) => se[c] = "raised"
    /\ Once(bus, <<"CeConnected", c>>)
    /\ In(ceBus, <<"Connected", c>>) => ce[c] = "raised"
    /\ Once(ceBus, <<"Connected", c>>)
    /\ In(ceBus, <<"Reset", c>>) => ReportedToCe(c)
    /\ Once(ceBus, <<"Reset", c>>)

(* What is reported has happened; and both ends report only what the       *)
(* network broke.                                                          *)
BrokenInv ==
  \A c \in Conns :
    /\ se[c] = "none" => ce[c] = "none" /\ c \notin cut /\ ~Reported(c)
    /\ Reported(c) => c \in cut \/ ce[c] = "closed"
    /\ ReportedToCe(c) => c \in cut \/ se[c] = "closed"
    /\ Reported(c) /\ ReportedToCe(c) => c \in cut

(* What a fault may cost: the connections lost to the service element, the *)
(* broken ones that ServiceElementConnected may still attach, and those    *)
(* whose reset may still take the entry of the element.                    *)
Doomed ==
  {c \in Conns : Reported(c) \/ (Alive(se, c) /\ (c \in cut \/ ce[c] = "closed"))}
Late == {c \in cut : ce[c] \in {"none", "setup", "data", "raised"}}
Pending == {c \in cut : ~ReportedToCe(c) \/ In(ceBus, <<"Reset", c>>)}

CostInv ==
  strays = 0 =>
    Cardinality(Doomed) + Cardinality(Late) + Cardinality(Pending) <= 3 * faults

BusEvents == ({"Ack", "CeConnected", "Reset"} \X Conns) \cup ({"HttpReset"} \X Calls)
CeEvents == {"Connected", "Reset"} \X Conns

HandshakeInv ==
  /\ PeersTypeOK /\ CountInv /\ StrayInv /\ EndsInv /\ BrokenInv /\ CostInv


-----------------------------------------------------------------------------
(* Queues of events.                                                       *)

LEMMA AppendElements ==
  ASSUME NEW S, NEW s \in Seq(S), NEW e \in S
  PROVE  /\ Append(s, e) \in Seq(S)
         /\ Len(Append(s, e)) = Len(s) + 1
         /\ DOMAIN Append(s, e) = 1..Len(s) + 1
         /\ DOMAIN s = 1..Len(s) /\ Len(s) \in Nat
         /\ \A i \in 1..Len(s) : Append(s, e)[i] = s[i]
         /\ Append(s, e)[Len(s) + 1] = e
BY AppendProperties, LenProperties

LEMMA TailElements ==
  ASSUME NEW S, NEW s \in Seq(S), s # <<>>
  PROVE  /\ Tail(s) \in Seq(S) /\ Head(s) \in S /\ Head(s) = s[1]
         /\ Len(s) \in Nat /\ Len(s) > 0 /\ DOMAIN s = 1..Len(s)
         /\ DOMAIN Tail(s) = 1..Len(s) - 1
         /\ \A i \in 1..Len(s) - 1 : Tail(s)[i] = s[i + 1]
<1>1. /\ Tail(s) \in Seq(S) /\ Head(s) \in S /\ Head(s) = s[1]
      /\ Len(Tail(s)) = Len(s) - 1
      /\ \A i \in 1..Len(Tail(s)) : Tail(s)[i] = s[i + 1]
  BY HeadTailProperties
<1>2. Len(s) \in Nat /\ DOMAIN s = 1..Len(s) /\ DOMAIN Tail(s) = 1..Len(Tail(s))
  BY <1>1, LenProperties
<1>3. Len(s) # 0
  BY EmptySeq
<1> QED BY <1>1, <1>2, <1>3

LEMMA PlacesFinite ==
  ASSUME NEW S, NEW q \in Seq(S), NEW k
  PROVE  IsFiniteSet(Places(q, k)) /\ Cardinality(Places(q, k)) \in Nat
<1>1. DOMAIN q = 1..Len(q) /\ Len(q) \in Nat
  BY LenProperties
<1>2. IsFiniteSet(1..Len(q))
  BY <1>1, FS_Interval
<1>3. Places(q, k) \in SUBSET (1..Len(q))
  BY <1>1 DEF Places
<1> QED BY <1>2, <1>3, FS_Subset, FS_CardinalityType

LEMMA PlacesAppend ==
  ASSUME NEW S, NEW q \in Seq(S), NEW e \in S, NEW k
  PROVE  Cardinality(Places(Append(q, e), k))
           = Cardinality(Places(q, k)) + (IF e[1] = k THEN 1 ELSE 0)
<1> DEFINE n == Len(q) + 1
           t == Append(q, e)
<1>1. /\ DOMAIN t = 1..n /\ DOMAIN q = 1..Len(q) /\ Len(q) \in Nat
      /\ \A i \in 1..Len(q) : t[i] = q[i]
      /\ t[n] = e
  BY AppendElements
<1> HIDE DEF t
<1>2. /\ n \notin 1..Len(q) /\ n \in 1..n /\ \A i \in 1..n : i \in 1..Len(q) \/ i = n
      /\ 1..Len(q) \subseteq 1..n
  BY <1>1
<1>3. IsFiniteSet(Places(q, k)) /\ Cardinality(Places(q, k)) \in Nat
  BY PlacesFinite
<1> HIDE DEF n
<1>4. n \notin Places(q, k)
  BY <1>1, <1>2 DEF Places
<1>5. CASE e[1] = k
  <2>1. Places(t, k) = Places(q, k) \cup {n}
    BY <1>1, <1>2, <1>5 DEF Places
  <2>2. Cardinality(Places(q, k) \cup {n}) = Cardinality(Places(q, k)) + 1
    BY <1>3, <1>4, FS_AddElement
  <2> QED BY <1>5, <2>1, <2>2 DEF t
<1>6. CASE e[1] # k
  <2>1. Places(t, k) = Places(q, k)
    BY <1>1, <1>2, <1>6 DEF Places
  <2> QED BY <1>3, <1>6, <2>1 DEF t
<1> QED BY <1>5, <1>6

LEMMA PlacesTail ==
  ASSUME NEW S, NEW q \in Seq(S), q # <<>>, NEW k
  PROVE  Cardinality(Places(q, k))
           = Cardinality(Places(Tail(q), k)) + (IF Head(q)[1] = k THEN 1 ELSE 0)
<1> DEFINE t == Tail(q)
           T == Places(t, k)
           U == Places(q, k) \ {1}
           f == [i \in T |-> i + 1]
<1>1. /\ t \in Seq(S) /\ Head(q) = q[1] /\ Len(q) \in Nat /\ Len(q) > 0
      /\ DOMAIN q = 1..Len(q) /\ DOMAIN t = 1..Len(q) - 1
      /\ \A i \in 1..Len(q) - 1 : t[i] = q[i + 1]
  BY TailElements
<1>2. IsFiniteSet(T) /\ IsFiniteSet(Places(q, k)) /\ Cardinality(Places(q, k)) \in Nat
  BY <1>1, PlacesFinite
<1> HIDE DEF t
<1>3. /\ 1 \in 1..Len(q)
      /\ \A i \in 1..Len(q) - 1 : i \in Int /\ i + 1 \in 1..Len(q) /\ i + 1 # 1
      /\ \A j \in 1..Len(q) : j # 1 => j - 1 \in 1..Len(q) - 1 /\ (j - 1) + 1 = j
  BY <1>1
<1>4. /\ \A i \in T : i \in Int /\ i + 1 \in U
      /\ \A j \in U : j - 1 \in T /\ (j - 1) + 1 = j
  BY <1>1, <1>3 DEF Places
<1> HIDE DEF T, U
<1>5. f \in Bijection(T, U)
  <2>1. f \in [T -> U]
    BY <1>4
  <2>2. \A a, b \in T : f[a] = f[b] => a = b
    BY <1>4
  <2>3. \A j \in U : \E i \in T : f[i] = j
    BY <1>4
  <2> QED BY <2>1, <2>2, <2>3 DEF Bijection, Injection, IsInjective, Surjection
<1>6. Cardinality(U) = Cardinality(T)
  <2>1. ExistsBijection(T, U)
    BY <1>5 DEF ExistsBijection
  <2> QED BY <1>2, <2>1, FS_Bijection
<1>7. Cardinality(U) = IF 1 \in Places(q, k) THEN Cardinality(Places(q, k)) - 1
                       ELSE Cardinality(Places(q, k))
  BY <1>2, FS_RemoveElement DEF U
<1>8. 1 \in Places(q, k) <=> Head(q)[1] = k
  BY <1>1, <1>3 DEF Places
<1> QED BY <1>2, <1>6, <1>7, <1>8 DEF T, t


-----------------------------------------------------------------------------
(* Sets of connections.                                                    *)

LEMMA ConnsAre ==
  /\ IsFiniteSet(Conns) /\ IsFiniteSet(Calls) /\ NoConn \notin Conns
  /\ Cardinality(Calls) \in Nat
  /\ \A S : S \subseteq Conns => IsFiniteSet(S) /\ Cardinality(S) \in Nat
<1>1. IsFiniteSet(Conns) /\ IsFiniteSet(Calls) /\ Conns = 1..Cardinality(Conns)
  BY HandshakeAssumption
<1>2. Cardinality(Conns) \in Nat /\ Cardinality(Calls) \in Nat
  BY <1>1, FS_CardinalityType
<1>3. 0 \notin 1..Cardinality(Conns)
  BY <1>2
<1>4. ASSUME NEW S, S \subseteq Conns
      PROVE  IsFiniteSet(S) /\ Cardinality(S) \in Nat
  BY <1>1, <1>4, FS_Subset, FS_CardinalityType
<1> QED BY <1>1, <1>2, <1>3, <1>4 DEF NoConn

LEMMA NoMore ==
  ASSUME NEW S, NEW T, S \subseteq Conns, T \subseteq S
  PROVE  Cardinality(T) <= Cardinality(S)
BY ConnsAre, FS_Subset

LEMMA OneMore ==
  ASSUME NEW S, NEW T, NEW x, S \subseteq Conns, T \subseteq S \cup {x}
  PROVE  Cardinality(T) <= Cardinality(S) + 1
<1>1. IsFiniteSet(S) /\ Cardinality(S) \in Nat
  BY ConnsAre
<1>2. IsFiniteSet(S \cup {x}) /\ Cardinality(S \cup {x}) <= Cardinality(S) + 1
      /\ Cardinality(S \cup {x}) \in Nat
  <2>1. /\ IsFiniteSet(S \cup {x})
        /\ Cardinality(S \cup {x}) = IF x \in S THEN Cardinality(S) ELSE Cardinality(S) + 1
    BY <1>1, FS_AddElement
  <2> QED BY <1>1, <2>1
<1>3. Cardinality(T) <= Cardinality(S \cup {x}) /\ Cardinality(T) \in Nat
  <2>1. IsFiniteSet(T) /\ Cardinality(T) <= Cardinality(S \cup {x})
    BY <1>2, FS_Subset
  <2> QED BY <2>1, FS_CardinalityType
<1> QED BY <1>1, <1>2, <1>3

LEMMA OneLess ==
  ASSUME NEW S, NEW T, NEW x \in S, S \subseteq Conns, T \subseteq S \ {x}
  PROVE  Cardinality(T) + 1 <= Cardinality(S)
<1>1. IsFiniteSet(S) /\ Cardinality(S) \in Nat
  BY ConnsAre
<1>2. IsFiniteSet(S \ {x}) /\ Cardinality(S \ {x}) = Cardinality(S) - 1
  BY <1>1, FS_RemoveElement
<1>3. Cardinality(T) <= Cardinality(S \ {x}) /\ Cardinality(T) \in Nat
  <2>1. IsFiniteSet(T) /\ Cardinality(T) <= Cardinality(S \ {x})
    BY <1>2, FS_Subset
  <2> QED BY <2>1, FS_CardinalityType
<1> QED BY <1>1, <1>2, <1>3

(* The sets that the invariant counts. *)
LEMMA Counted ==
  ASSUME PeersTypeOK
  PROVE  /\ Made \subseteq Conns /\ Untold \subseteq Conns
         /\ Doomed \subseteq Conns /\ Late \subseteq Conns /\ Pending \subseteq Conns
         /\ Cardinality(Untold) \in Nat /\ Cardinality(Doomed) \in Nat
         /\ Cardinality(Late) \in Nat /\ Cardinality(Pending) \in Nat
         /\ bus \in Seq(BusEvents) /\ ceBus \in Seq(CeEvents)
         /\ \A k : Cardinality(Places(bus, k)) \in Nat
         /\ IsFiniteSet(CallsReset) /\ Cardinality(CallsReset) \in Nat
         /\ Cardinality(CallsReset) <= Cardinality(Calls)
         /\ connectors \in Nat /\ strays \in Nat /\ faults \in Nat
<1>1. /\ Made \subseteq Conns /\ Untold \subseteq Conns
      /\ Doomed \subseteq Conns /\ Late \subseteq Conns /\ Pending \subseteq Conns
  BY DEF PeersTypeOK, Made, Untold, Doomed, Late, Pending
<1>2. bus \in Seq(BusEvents) /\ ceBus \in Seq(CeEvents)
  BY DEF PeersTypeOK, BusEvents, CeEvents
<1>3. \A k : Cardinality(Places(bus, k)) \in Nat
  BY <1>2, PlacesFinite
<1>4. /\ IsFiniteSet(CallsReset) /\ Cardinality(CallsReset) <= Cardinality(Calls)
  <2>1. CallsReset \in SUBSET Calls
    BY DEF CallsReset
  <2> QED BY <2>1, ConnsAre, FS_Subset
<1>5. connectors \in Nat /\ strays \in Nat /\ faults \in Nat
  <2>1. bound \in [conns : Conns, calls : Nat, faults : Nat]
    BY HandshakeAssumption DEF PeersTypeOK
  <2>2. bound.faults \in Nat /\ Cardinality(Calls) \in Nat
    BY <2>1, ConnsAre
  <2> QED BY <2>2 DEF PeersTypeOK
<1>6. /\ Cardinality(Untold) \in Nat /\ Cardinality(Doomed) \in Nat
      /\ Cardinality(Late) \in Nat /\ Cardinality(Pending) \in Nat
  BY <1>1, ConnsAre
<1>7. Cardinality(CallsReset) \in Nat
  BY <1>4, FS_CardinalityType
<1> QED BY <1>1, <1>2, <1>3, <1>4, <1>5, <1>6, <1>7

(* Without strays two connections that nobody reported are the same.       *)
LEMMA UntoldAreOne ==
  ASSUME PeersTypeOK, CountInv, strays = 0, NEW c \in Untold, NEW d \in Untold
  PROVE  c = d
<1> SUFFICES ASSUME c # d PROVE FALSE
  OBVIOUS
<1>1. Cardinality(Untold \ {c}) + 1 <= Cardinality(Untold)
  BY Counted, OneLess
<1>2. Cardinality((Untold \ {c}) \ {d}) + 1 <= Cardinality(Untold \ {c})
  <2>1. Untold \ {c} \subseteq Conns /\ d \in Untold \ {c}
    BY Counted
  <2> QED BY <2>1, OneLess
<1>3. Cardinality((Untold \ {c}) \ {d}) \in Nat /\ Cardinality(Untold \ {c}) \in Nat
  <2>1. Untold \ {c} \subseteq Conns /\ (Untold \ {c}) \ {d} \subseteq Conns
    BY Counted
  <2> QED BY <2>1, ConnsAre
<1>4. /\ Cardinality(Untold) \in Nat /\ connectors \in Nat
      /\ Cardinality(Places(bus, "Reset")) \in Nat
  BY Counted
<1>5. connectors + Cardinality(Places(bus, "Reset")) + Cardinality(Untold) = 1
  BY DEF CountInv
<1> QED BY <1>1, <1>2, <1>3, <1>4, <1>5

(* Steps that keep the count, the cost, or pay for it. *)
LEMMA CountKept ==
  ASSUME PeersTypeOK, CountInv, UNCHANGED <<connectors, strays>>, Untold' = Untold,
         Cardinality(Places(bus', "Reset")) = Cardinality(Places(bus, "Reset"))
  PROVE  CountInv'
BY DEF CountInv

LEMMA CostKept ==
  ASSUME PeersTypeOK, CostInv, UNCHANGED <<faults, strays>>,
         Doomed' \subseteq Doomed, Late' \subseteq Late, Pending' \subseteq Pending
  PROVE  CostInv'
<1>1. /\ Cardinality(Doomed') <= Cardinality(Doomed) /\ Cardinality(Late') <= Cardinality(Late)
      /\ Cardinality(Pending') <= Cardinality(Pending)
  BY Counted, NoMore
<1>2. /\ Cardinality(Doomed') \in Nat /\ Cardinality(Late') \in Nat
      /\ Cardinality(Pending') \in Nat
  <2>1. Doomed' \subseteq Conns /\ Late' \subseteq Conns /\ Pending' \subseteq Conns
    BY Counted
  <2> QED BY <2>1, ConnsAre
<1>3. /\ Cardinality(Doomed) \in Nat /\ Cardinality(Late) \in Nat
      /\ Cardinality(Pending) \in Nat /\ faults \in Nat
  BY Counted
<1>4. SUFFICES ASSUME strays = 0
               PROVE  Cardinality(Doomed') + Cardinality(Late') + Cardinality(Pending')
                        <= 3 * faults
  BY DEF CostInv
<1>5. Cardinality(Doomed) + Cardinality(Late) + Cardinality(Pending) <= 3 * faults
  BY <1>4 DEF CostInv
<1> QED BY <1>1, <1>2, <1>3, <1>5

(* A fault pays for one connection more in each of the three. *)
LEMMA FaultPays ==
  ASSUME PeersTypeOK, CostInv, strays' = strays, faults' = faults + 1,
         NEW x, strays = 0 => Doomed' \subseteq Doomed \cup {x},
         NEW y, Late' \subseteq Late \cup {y}, Pending' \subseteq Pending \cup {y}
  PROVE  CostInv'
<1>1. SUFFICES ASSUME strays = 0
               PROVE  Cardinality(Doomed') + Cardinality(Late') + Cardinality(Pending')
                        <= 3 * faults'
  BY DEF CostInv
<1>2. /\ Cardinality(Doomed) \in Nat /\ Cardinality(Late) \in Nat
      /\ Cardinality(Pending) \in Nat /\ faults \in Nat
  BY Counted
<1>3. Cardinality(Doomed) + Cardinality(Late) + Cardinality(Pending) <= 3 * faults
  BY <1>1 DEF CostInv
<1>4. /\ Cardinality(Doomed') <= Cardinality(Doomed) + 1
      /\ Cardinality(Late') <= Cardinality(Late) + 1
      /\ Cardinality(Pending') <= Cardinality(Pending) + 1
  BY <1>1, Counted, OneMore
<1>5. /\ IsFiniteSet(Doomed') /\ Cardinality(Doomed') \in Nat
      /\ Cardinality(Late') \in Nat /\ Cardinality(Pending') \in Nat
  <2>1. \A S, z : IsFiniteSet(S) => IsFiniteSet(S \cup {z})
    BY FS_AddElement
  <2>2. IsFiniteSet(Doomed) /\ IsFiniteSet(Late) /\ IsFiniteSet(Pending)
    BY Counted, ConnsAre
  <2>3. IsFiniteSet(Doomed') /\ IsFiniteSet(Late') /\ IsFiniteSet(Pending')
    BY <1>1, <2>1, <2>2, FS_Subset
  <2> QED BY <2>3, FS_CardinalityType
<1> QED BY <1>2, <1>3, <1>4, <1>5

(* A connection is lost to a late event or to an old entry, once. *)
LEMMA EventPays ==
  ASSUME PeersTypeOK, CostInv, UNCHANGED <<strays, faults>>,
         Late' \subseteq Late, Pending' \subseteq Pending,
         NEW x, Doomed' \subseteq Doomed \cup {x},
         NEW y, \/ y \in Late /\ Late' \subseteq Late \ {y}
                \/ y \in Pending /\ Pending' \subseteq Pending \ {y}
  PROVE  CostInv'
<1>1. SUFFICES ASSUME strays = 0
               PROVE  Cardinality(Doomed') + Cardinality(Late') + Cardinality(Pending')
                        <= 3 * faults'
  BY DEF CostInv
<1>2. /\ Cardinality(Doomed) \in Nat /\ Cardinality(Late) \in Nat
      /\ Cardinality(Pending) \in Nat /\ faults \in Nat
  BY Counted
<1>3. Cardinality(Doomed) + Cardinality(Late) + Cardinality(Pending) <= 3 * faults
  BY <1>1 DEF CostInv
<1>4. /\ Cardinality(Doomed') <= Cardinality(Doomed) + 1
      /\ Cardinality(Late') <= Cardinality(Late)
      /\ Cardinality(Pending') <= Cardinality(Pending)
  BY Counted, OneMore, NoMore
<1>5. \/ Cardinality(Late') + 1 <= Cardinality(Late)
      \/ Cardinality(Pending') + 1 <= Cardinality(Pending)
  BY Counted, OneLess
<1>6. /\ Cardinality(Doomed') \in Nat
      /\ Cardinality(Late') \in Nat /\ Cardinality(Pending') \in Nat
  <2>1. IsFiniteSet(Doomed \cup {x})
    BY Counted, ConnsAre, FS_AddElement
  <2>2. IsFiniteSet(Doomed')
    BY <2>1, FS_Subset
  <2>3. Late' \subseteq Conns /\ Pending' \subseteq Conns
    BY Counted
  <2> QED BY <2>2, <2>3, ConnsAre, FS_CardinalityType
<1> QED BY <1>2, <1>3, <1>4, <1>5, <1>6

-----------------------------------------------------------------------------
(* Every step keeps the invariant: the service element.                    *)

LEMMA ConnectStep ==
  ASSUME HandshakeInv, NEW c \in Conns, Connect(c), bound' = bound
  PROVE  HandshakeInv'
<1>1. /\ connectors > 0 /\ se[c] = "none"
      /\ connectors' = connectors - 1 /\ se' = [se EXCEPT ![c] = "starting"]
      /\ UNCHANGED <<bus, held, http, ce, ceUp, ceBus, attached, table, sent, told, cut, faults,
                     strays, lapses>>
  BY DEF Connect, ceVars, netVars, history
<1>t. PeersTypeOK /\ connectors \in Nat /\ strays \in Nat
  BY Counted DEF HandshakeInv
<1>2. PeersTypeOK'
  <2>1. connectors' \in Nat
    BY <1>1, <1>t
  <2> QED BY <1>1, <1>t, <2>1 DEF PeersTypeOK
<1>3. CountInv'
  <2>1. ~Reported(c)
    BY <1>1 DEF HandshakeInv, BrokenInv
  <2>2. Untold' = Untold \cup {c} /\ c \notin Untold
    BY <1>1, <1>t, <2>1 DEF Untold, Made, Reported, PeersTypeOK
  <2>3. Cardinality(Untold') = Cardinality(Untold) + 1
    <3>1. IsFiniteSet(Untold)
      BY <1>t, Counted, ConnsAre
    <3> QED BY <2>2, <3>1, FS_AddElement
  <2>4. /\ Cardinality(Untold) \in Nat /\ Cardinality(Places(bus, "Reset")) \in Nat
        /\ bus' = bus /\ strays' = strays
    BY <1>1, <1>t, Counted
  <2>5. connectors + Cardinality(Places(bus, "Reset")) + Cardinality(Untold) = 1 + strays
    BY DEF HandshakeInv, CountInv
  <2>6. connectors' + Cardinality(Places(bus, "Reset")) + Cardinality(Untold') = 1 + strays
    BY <1>1, <1>t, <2>3, <2>4, <2>5
  <2> QED BY <2>4, <2>6 DEF CountInv
<1>4. StrayInv'
  BY <1>1 DEF HandshakeInv, StrayInv, CallsReset
<1>5. EndsInv'
  BY <1>1, <1>t DEF HandshakeInv, EndsInv, ReportedToCe, PeersTypeOK
<1>6. BrokenInv'
  BY <1>1, <1>t DEF HandshakeInv, BrokenInv, Reported, ReportedToCe, PeersTypeOK
<1>7. CostInv'
  <2>1. c \notin cut /\ ce[c] = "none"
    BY <1>1 DEF HandshakeInv, BrokenInv
  <2>2. Doomed' \subseteq Doomed
    BY <1>1, <1>t, <2>1 DEF Doomed, Reported, Alive, PeersTypeOK
  <2>3. Late' \subseteq Late /\ Pending' \subseteq Pending
    BY <1>1 DEF Late, Pending, ReportedToCe
  <2> QED BY <1>1, <1>t, <2>2, <2>3, CostKept DEF HandshakeInv
<1> QED BY <1>2, <1>3, <1>4, <1>5, <1>6, <1>7 DEF HandshakeInv

(* The end of a connection moves on, and nothing else does. *)
LEMMA EndMoves ==
  ASSUME HandshakeInv, PeersTypeOK', NEW c \in Conns,
         se[c] \notin {"none", "closed", "raised"}, se'[c] \notin {"none"},
         \A d \in Conns : d # c => se'[d] = se[d],
         UNCHANGED <<connectors, bus, ce, ceBus, told, cut, faults, strays>>
  PROVE  HandshakeInv'
<1>1. CountInv'
  <2>1. Untold' = Untold
    BY DEF Untold, Made, Reported
  <2> QED BY <2>1, CountKept DEF HandshakeInv
<1>2. StrayInv'
  BY DEF HandshakeInv, StrayInv, CallsReset
<1>3. EndsInv'
  BY DEF HandshakeInv, EndsInv, ReportedToCe
<1>4. BrokenInv'
  BY DEF HandshakeInv, BrokenInv, Reported, ReportedToCe
<1>5. CostInv'
  <2>1. Doomed' \subseteq Doomed
    BY DEF Doomed, Reported, Alive
  <2>2. Late' \subseteq Late /\ Pending' \subseteq Pending
    BY DEF Late, Pending, ReportedToCe
  <2> QED BY <2>1, <2>2, CostKept DEF HandshakeInv
<1> QED BY <1>1, <1>2, <1>3, <1>4, <1>5 DEF HandshakeInv

LEMMA SetupSendStep ==
  ASSUME HandshakeInv, NEW c \in Conns, SetupSend(c), bound' = bound
  PROVE  HandshakeInv'
<1>1. /\ se[c] = "starting" /\ se' = [se EXCEPT ![c] = "waiting"]
      /\ sent' = sent \cup {<<"data", c>>}
      /\ UNCHANGED <<connectors, bus, held, http, ce, ceUp, ceBus, attached, table, told, cut,
                     faults, strays, lapses>>
  BY DEF SetupSend, ceVars, history
<1>t. PeersTypeOK
  BY DEF HandshakeInv
<1>2. PeersTypeOK'
  BY <1>1, <1>t DEF PeersTypeOK
<1>3. se'[c] = "waiting" /\ \A d \in Conns : d # c => se'[d] = se[d]
  BY <1>1, <1>t DEF PeersTypeOK
<1> QED BY <1>1, <1>2, <1>3, EndMoves

LEMMA SetupTimeoutStep ==
  ASSUME HandshakeInv, NEW c \in Conns, SetupTimeout(c), bound' = bound
  PROVE  HandshakeInv'
<1>1. /\ se[c] = "waiting" /\ se' = [se EXCEPT ![c] = "closed"]
      /\ lapses' \in {lapses, lapses \cup {"timeout"}}
      /\ UNCHANGED <<connectors, bus, held, http, ce, ceUp, ceBus, attached, table, sent, told,
                     cut, faults, strays>>
  BY ConnsAre DEF SetupTimeout, Closed, ceVars, netVars
<1>t. PeersTypeOK
  BY DEF HandshakeInv
<1>2. PeersTypeOK'
  BY <1>1, <1>t DEF PeersTypeOK
<1>3. se'[c] = "closed" /\ \A d \in Conns : d # c => se'[d] = se[d]
  BY <1>1, <1>t DEF PeersTypeOK
<1> QED BY <1>1, <1>2, <1>3, EndMoves

(* An event goes into bus that is neither a reset nor a CeConnected that   *)
(* waits there. *)
LEMMA BusGrows ==
  ASSUME PeersTypeOK, NEW e \in BusEvents, bus' = Append(bus, e)
  PROVE  /\ bus' \in Seq(BusEvents)
         /\ \A k : Cardinality(Places(bus', k))
                     = Cardinality(Places(bus, k)) + (IF e[1] = k THEN 1 ELSE 0)
         /\ \A k : e[1] # k => Cardinality(Places(bus', k)) = Cardinality(Places(bus, k))
         /\ \A x : In(bus', x) <=> In(bus, x) \/ x = e
         /\ \A x : Once(bus, x) /\ (x = e => ~In(bus, x)) => Once(bus', x)
<1>1. bus \in Seq(BusEvents)
  BY Counted
<1>2. \A k : Cardinality(Places(bus', k))
               = Cardinality(Places(bus, k)) + (IF e[1] = k THEN 1 ELSE 0)
  BY <1>1, PlacesAppend
<1>3. \A k : e[1] # k => Cardinality(Places(bus', k)) = Cardinality(Places(bus, k))
  BY <1>2, Counted
<1>4. bus' \in Seq(BusEvents)
  BY <1>1, AppendElements
<1> QED BY <1>1, <1>2, <1>3, <1>4, InAppend

LEMMA SetupDoneStep ==
  ASSUME HandshakeInv, NEW c \in Conns, SetupDone(c), bound' = bound
  PROVE  HandshakeInv'
<1> DEFINE e == <<"CeConnected", c>>
<1>1. /\ se[c] = "acked" /\ se' = [se EXCEPT ![c] = "raised"]
      /\ bus' = Append(bus, e)
      /\ UNCHANGED <<connectors, held, http, ce, ceUp, ceBus, attached, table, sent, told, cut,
                     faults, strays, lapses>>
  BY DEF SetupDone, ceVars, netVars, history
<1>t. PeersTypeOK
  BY DEF HandshakeInv
<1>b. e \in BusEvents /\ e[1] = "CeConnected"
  BY DEF BusEvents
<1>2. /\ bus' \in Seq(BusEvents)
      /\ \A k : e[1] # k => Cardinality(Places(bus', k)) = Cardinality(Places(bus, k))
      /\ \A x : In(bus', x) <=> In(bus, x) \/ x = e
      /\ \A x : Once(bus, x) /\ (x = e => ~In(bus, x)) => Once(bus', x)
  BY <1>1, <1>t, <1>b, BusGrows
<1>3. se'[c] = "raised" /\ \A d \in Conns : d # c => se'[d] = se[d]
  BY <1>1, <1>t DEF PeersTypeOK
<1>4. PeersTypeOK'
  BY <1>1, <1>2, <1>t DEF PeersTypeOK, BusEvents
<1>p. /\ Cardinality(Places(bus', "Reset")) = Cardinality(Places(bus, "Reset"))
      /\ Cardinality(Places(bus', "HttpReset")) = Cardinality(Places(bus, "HttpReset"))
  BY <1>b, <1>2
<1>5. CountInv'
  <2>1. Untold' = Untold
    BY <1>1, <1>3 DEF Untold, Made, Reported
  <2> QED BY <1>1, <1>t, <1>p, <2>1, CountKept DEF HandshakeInv
<1>6. StrayInv'
  BY <1>1, <1>p DEF HandshakeInv, StrayInv, CallsReset
<1>7. EndsInv'
  <2>1. ~In(bus, e)
    BY <1>1 DEF HandshakeInv, EndsInv
  <2>2. ASSUME NEW d \in Conns
        PROVE  /\ In(bus', <<"CeConnected", d>>) => se'[d] = "raised"
               /\ Once(bus', <<"CeConnected", d>>)
    <3>1. In(bus, <<"CeConnected", d>>) => se[d] = "raised"
      BY DEF HandshakeInv, EndsInv
    <3>2. Once(bus, <<"CeConnected", d>>)
      BY DEF HandshakeInv, EndsInv
    <3>3. <<"CeConnected", d>> = e => d = c
      OBVIOUS
    <3> HIDE DEF e
    <3> QED BY <1>1, <1>2, <1>3, <2>1, <3>1, <3>2, <3>3
  <2> QED BY <1>1, <2>2 DEF HandshakeInv, EndsInv, ReportedToCe
<1>8. BrokenInv'
  BY <1>1, <1>3 DEF HandshakeInv, BrokenInv, Reported, ReportedToCe
<1>9. CostInv'
  <2>1. Doomed' \subseteq Doomed
    BY <1>1, <1>3 DEF Doomed, Reported, Alive
  <2>2. Late' \subseteq Late /\ Pending' \subseteq Pending
    BY <1>1 DEF Late, Pending, ReportedToCe
  <2> QED BY <1>1, <1>t, <2>1, <2>2, CostKept DEF HandshakeInv
<1> QED BY <1>4, <1>5, <1>6, <1>7, <1>8, <1>9 DEF HandshakeInv

(* Nothing that a connection is judged by changes. *)
LEMMA ConnectionsKept ==
  ASSUME HandshakeInv, UNCHANGED <<se, ce, cut, faults, strays>>,
         \A c \in Conns : Reported(c)' = Reported(c) /\ ReportedToCe(c)' = ReportedToCe(c),
         \A c \in Conns : In(ceBus', <<"Reset", c>>) => In(ceBus, <<"Reset", c>>)
  PROVE  BrokenInv' /\ CostInv' /\ Untold' = Untold
<1>1. BrokenInv'
  BY DEF HandshakeInv, BrokenInv
<1>2. Doomed' \subseteq Doomed
  BY DEF Doomed, Alive
<1>3. Late' \subseteq Late /\ Pending' \subseteq Pending
  BY DEF Late, Pending, HandshakeInv, PeersTypeOK
<1>4. Untold' = Untold
  BY DEF Untold, Made
<1> QED BY <1>1, <1>2, <1>3, <1>4, CostKept DEF HandshakeInv

LEMMA SeReadAckStep ==
  ASSUME HandshakeInv, NEW c \in Conns, SeReadAck(c), bound' = bound
  PROVE  HandshakeInv'
<1> DEFINE e == <<"Ack", c>>
<1>1. /\ bus' = Append(bus, e) /\ sent' = sent \ {<<"ack", c>>}
      /\ UNCHANGED <<connectors, se, held, http, ce, ceUp, ceBus, attached, table, told, cut,
                     faults, strays, lapses>>
  BY DEF SeReadAck, ceVars, history
<1>t. PeersTypeOK
  BY DEF HandshakeInv
<1>b. e \in BusEvents /\ e[1] = "Ack" /\ \A d : <<"CeConnected", d>> # e
  BY DEF BusEvents
<1> HIDE DEF e
<1>2. /\ bus' \in Seq(BusEvents)
      /\ \A k : e[1] # k => Cardinality(Places(bus', k)) = Cardinality(Places(bus, k))
      /\ \A x : In(bus', x) <=> In(bus, x) \/ x = e
      /\ \A x : Once(bus, x) /\ (x = e => ~In(bus, x)) => Once(bus', x)
  BY <1>1, <1>t, <1>b, BusGrows
<1>p. /\ Cardinality(Places(bus', "Reset")) = Cardinality(Places(bus, "Reset"))
      /\ Cardinality(Places(bus', "HttpReset")) = Cardinality(Places(bus, "HttpReset"))
  BY <1>b, <1>2
<1>3. PeersTypeOK'
  BY <1>1, <1>2, <1>t DEF PeersTypeOK, BusEvents
<1>4. BrokenInv' /\ CostInv' /\ Untold' = Untold
  BY <1>1, ConnectionsKept DEF Reported, ReportedToCe
<1>5. CountInv'
  BY <1>1, <1>t, <1>p, <1>4, CountKept DEF HandshakeInv
<1>6. StrayInv'
  BY <1>1, <1>p DEF HandshakeInv, StrayInv, CallsReset
<1>7. EndsInv'
  BY <1>1, <1>b, <1>2 DEF HandshakeInv, EndsInv, ReportedToCe
<1> QED BY <1>3, <1>4, <1>5, <1>6, <1>7 DEF HandshakeInv

LEMMA SeResetStep ==
  ASSUME HandshakeInv, NEW c \in Conns, SeReset(c), bound' = bound
  PROVE  HandshakeInv'
<1> DEFINE e == <<"Reset", c>>
<1>1. /\ Alive(se, c) /\ (c \in cut \/ ce[c] = "closed") /\ ~Reported(c)
      /\ told' = told \cup {<<"se", c>>} /\ bus' = Append(bus, e)
      /\ UNCHANGED <<connectors, se, held, http, ce, ceUp, ceBus, attached, table, sent, cut,
                     faults, strays, lapses>>
  BY DEF SeReset, ceVars, history, Reported
<1>t. PeersTypeOK
  BY DEF HandshakeInv
<1>b. e \in BusEvents /\ e[1] = "Reset" /\ \A d : <<"CeConnected", d>> # e
  BY DEF BusEvents
<1> HIDE DEF e
<1>2. /\ bus' \in Seq(BusEvents)
      /\ \A k : Cardinality(Places(bus', k))
                  = Cardinality(Places(bus, k)) + (IF e[1] = k THEN 1 ELSE 0)
      /\ \A k : e[1] # k => Cardinality(Places(bus', k)) = Cardinality(Places(bus, k))
      /\ \A x : In(bus', x) <=> In(bus, x) \/ x = e
      /\ \A x : Once(bus, x) /\ (x = e => ~In(bus, x)) => Once(bus', x)
  BY <1>1, <1>t, <1>b, BusGrows
<1>r. /\ \A d \in Conns : Reported(d)' <=> Reported(d) \/ d = c
      /\ \A d \in Conns : ReportedToCe(d)' = ReportedToCe(d)
      /\ CallsReset' = CallsReset
  BY <1>1 DEF Reported, ReportedToCe, CallsReset
<1>3. PeersTypeOK'
  BY <1>1, <1>2, <1>t DEF PeersTypeOK, BusEvents
<1>4. CountInv'
  <2>1. Untold' = Untold \ {c} /\ c \in Untold
    BY <1>1, <1>r DEF Untold, Made, Alive
  <2>2. Cardinality(Untold') = Cardinality(Untold) - 1
    <3>1. IsFiniteSet(Untold)
      BY <1>t, Counted, ConnsAre
    <3> QED BY <2>1, <3>1, FS_RemoveElement
  <2>3. Cardinality(Places(bus', "Reset")) = Cardinality(Places(bus, "Reset")) + 1
    BY <1>b, <1>2
  <2>4. /\ Cardinality(Untold) \in Nat /\ Cardinality(Places(bus, "Reset")) \in Nat
        /\ connectors \in Nat /\ strays \in Nat /\ connectors' = connectors /\ strays' = strays
    BY <1>1, <1>t, Counted
  <2>5. connectors + Cardinality(Places(bus, "Reset")) + Cardinality(Untold) = 1 + strays
    BY DEF HandshakeInv, CountInv
  <2>6. connectors' + Cardinality(Places(bus', "Reset")) + Cardinality(Untold') = 1 + strays'
    BY <2>2, <2>3, <2>4, <2>5
  <2> QED BY <2>6 DEF CountInv
<1>5. StrayInv'
  <2>1. Cardinality(Places(bus', "HttpReset")) = Cardinality(Places(bus, "HttpReset"))
    BY <1>b, <1>2
  <2> QED BY <1>1, <1>r, <2>1 DEF HandshakeInv, StrayInv
<1>6. EndsInv'
  BY <1>1, <1>b, <1>2, <1>r DEF HandshakeInv, EndsInv
<1>7. BrokenInv'
  BY <1>1, <1>r DEF HandshakeInv, BrokenInv, Alive
<1>8. CostInv'
  <2>1. Doomed' \subseteq Doomed
    BY <1>1, <1>r DEF Doomed, Alive
  <2>2. Late' \subseteq Late /\ Pending' \subseteq Pending
    BY <1>1, <1>r, <1>t DEF Late, Pending, PeersTypeOK
  <2> QED BY <1>1, <1>t, <2>1, <2>2, CostKept DEF HandshakeInv
<1> QED BY <1>3, <1>4, <1>5, <1>6, <1>7, <1>8 DEF HandshakeInv

-----------------------------------------------------------------------------
(* The dispatcher of the service element, and its HTTP connections.        *)

LEMMA BusShrinks ==
  ASSUME PeersTypeOK, bus # <<>>, bus' = Tail(bus)
  PROVE  /\ bus' \in Seq(BusEvents) /\ Head(bus) \in BusEvents
         /\ \A k : Cardinality(Places(bus, k))
                     = Cardinality(Places(bus', k)) + (IF Head(bus)[1] = k THEN 1 ELSE 0)
         /\ \A k : Cardinality(Places(bus', k)) \in Nat
         /\ \A k : Head(bus)[1] # k => Cardinality(Places(bus', k)) = Cardinality(Places(bus, k))
         /\ \A x : In(bus, x) <=> In(bus', x) \/ Head(bus) = x
         /\ \A x : Once(bus, x) => Once(bus', x) /\ (Head(bus) = x => ~In(bus', x))
<1>1. bus \in Seq(BusEvents)
  BY Counted
<1>2. bus' \in Seq(BusEvents) /\ Head(bus) \in BusEvents
  BY <1>1, TailElements
<1>3. \A k : Cardinality(Places(bus, k))
               = Cardinality(Places(bus', k)) + (IF Head(bus)[1] = k THEN 1 ELSE 0)
  BY <1>1, PlacesTail
<1>4. \A k : Cardinality(Places(bus', k)) \in Nat
  BY <1>2, PlacesFinite
<1>5. \A k : Head(bus)[1] # k => Cardinality(Places(bus', k)) = Cardinality(Places(bus, k))
  BY <1>3, <1>4
<1>6. /\ \A x : In(bus, x) <=> In(bus', x) \/ Head(bus) = x
      /\ \A x : Once(bus, x) => Once(bus', x) /\ (Head(bus) = x => ~In(bus', x))
  BY <1>1, InTail
<1> QED BY <1>2, <1>3, <1>4, <1>5, <1>6

LEMMA TakeAckStep ==
  ASSUME HandshakeInv, NEW c \in Conns, bus # <<>>, Head(bus)[1] = "Ack", bus' = Tail(bus),
         TakeAck(c), UNCHANGED <<ceVars, netVars, bound>>
  PROVE  HandshakeInv'
<1>1. /\ se' = [se EXCEPT ![c] = IF @ = "waiting" THEN "acked" ELSE @]
      /\ UNCHANGED <<connectors, held, http, ce, ceUp, ceBus, attached, table, sent, told, cut,
                     faults, strays, lapses>>
  BY DEF TakeAck, ceVars, netVars, history
<1>t. PeersTypeOK
  BY DEF HandshakeInv
<1>2. /\ bus' \in Seq(BusEvents)
      /\ \A k : Head(bus)[1] # k => Cardinality(Places(bus', k)) = Cardinality(Places(bus, k))
      /\ \A x : In(bus', x) => In(bus, x)
      /\ \A x : Once(bus, x) => Once(bus', x)
  BY <1>t, BusShrinks
<1>3. PeersTypeOK'
  BY <1>1, <1>2, <1>t DEF PeersTypeOK, BusEvents
<1>s. /\ \A d \in Conns : se'[d] # se[d] => d = c /\ se[c] = "waiting" /\ se'[c] = "acked"
      /\ \A d \in Conns : se'[d] = "none" <=> se[d] = "none"
      /\ \A d \in Conns : se'[d] = "closed" <=> se[d] = "closed"
      /\ \A d \in Conns : se[d] = "raised" => se'[d] = "raised"
  BY <1>1, <1>t DEF PeersTypeOK
<1>p. /\ Cardinality(Places(bus', "Reset")) = Cardinality(Places(bus, "Reset"))
      /\ Cardinality(Places(bus', "HttpReset")) = Cardinality(Places(bus, "HttpReset"))
  BY <1>2
<1>4. CountInv'
  <2>1. Untold' = Untold
    BY <1>1, <1>s DEF Untold, Made, Reported
  <2> QED BY <1>1, <1>t, <1>p, <2>1, CountKept DEF HandshakeInv
<1>5. StrayInv'
  BY <1>1, <1>p DEF HandshakeInv, StrayInv, CallsReset
<1>6. EndsInv'
  BY <1>1, <1>2, <1>s DEF HandshakeInv, EndsInv, ReportedToCe
<1>7. BrokenInv'
  BY <1>1, <1>s DEF HandshakeInv, BrokenInv, Reported, ReportedToCe
<1>8. CostInv'
  <2>1. Doomed' \subseteq Doomed
    BY <1>1, <1>s DEF Doomed, Reported, Alive
  <2>2. Late' \subseteq Late /\ Pending' \subseteq Pending
    BY <1>1 DEF Late, Pending, ReportedToCe
  <2> QED BY <1>1, <1>t, <2>1, <2>2, CostKept DEF HandshakeInv
<1> QED BY <1>3, <1>4, <1>5, <1>6, <1>7, <1>8 DEF HandshakeInv

(* The connection held before is closed: it may have been a live one.      *)
LEMMA TakeCeConnectedStep ==
  ASSUME HandshakeInv, NEW c \in Conns, bus # <<>>, Head(bus) = <<"CeConnected", c>>,
         bus' = Tail(bus), TakeCeConnected(c), UNCHANGED <<ceVars, netVars, bound>>
  PROVE  HandshakeInv'
<1>1. /\ held' = c /\ se' = [Closed(se, held) EXCEPT ![c] = "held"]
      /\ lapses' \in {lapses, lapses \cup {"overtaken"}}
      /\ UNCHANGED <<connectors, http, ce, ceUp, ceBus, attached, table, sent, told, cut,
                     faults, strays>>
  BY DEF TakeCeConnected, ceVars, netVars
<1>t. PeersTypeOK
  BY DEF HandshakeInv
<1>2. /\ bus' \in Seq(BusEvents)
      /\ \A k : Head(bus)[1] # k => Cardinality(Places(bus', k)) = Cardinality(Places(bus, k))
      /\ \A x : In(bus, x) <=> In(bus', x) \/ Head(bus) = x
      /\ \A x : Once(bus, x) => Once(bus', x) /\ (Head(bus) = x => ~In(bus', x))
  BY <1>t, BusShrinks
<1>c. se[c] = "raised" /\ ~In(bus', <<"CeConnected", c>>)
  BY <1>2 DEF HandshakeInv, EndsInv
<1>s. /\ se' \in [Conns -> {"none", "starting", "waiting", "acked", "raised", "held", "closed"}]
      /\ se'[c] = "held"
      /\ \A d \in Conns : d # c =>
           IF se[d] = "held" THEN se'[d] = "closed" ELSE se'[d] = se[d]
  <2>1. CASE held = NoConn
    <3>1. se' = [se EXCEPT ![c] = "held"] /\ \A d \in Conns : se[d] # "held"
      BY <1>1, <1>t, <2>1, ConnsAre DEF Closed, PeersTypeOK
    <3> QED BY <1>t, <3>1 DEF PeersTypeOK
  <2>2. CASE held # NoConn
    <3>1. /\ se' = [[se EXCEPT ![held] = "closed"] EXCEPT ![c] = "held"]
          /\ held \in Conns /\ \A d \in Conns : se[d] = "held" <=> d = held
      BY <1>1, <1>t, <2>2 DEF Closed, PeersTypeOK
    <3> QED BY <1>t, <1>c, <3>1 DEF PeersTypeOK
  <2> QED BY <2>1, <2>2
<1>3. PeersTypeOK'
  <2>1. \A d \in Conns : held' = d <=> se'[d] = "held"
    BY <1>1, <1>s
  <2> QED BY <1>1, <1>2, <1>s, <1>t, <2>1 DEF PeersTypeOK, BusEvents
<1>p. /\ Cardinality(Places(bus', "Reset")) = Cardinality(Places(bus, "Reset"))
      /\ Cardinality(Places(bus', "HttpReset")) = Cardinality(Places(bus, "HttpReset"))
  <2>1. Head(bus)[1] = "CeConnected"
    OBVIOUS
  <2> QED BY <1>2, <2>1
<1>4. CountInv'
  <2>1. Untold' = Untold
    BY <1>1, <1>s, <1>c DEF Untold, Made, Reported
  <2> QED BY <1>1, <1>t, <1>p, <2>1, CountKept DEF HandshakeInv
<1>5. StrayInv'
  BY <1>1, <1>p DEF HandshakeInv, StrayInv, CallsReset
<1>6. EndsInv'
  <2>1. ASSUME NEW d \in Conns
        PROVE  /\ In(bus', <<"CeConnected", d>>) => se'[d] = "raised"
               /\ Once(bus', <<"CeConnected", d>>)
    BY <1>2, <1>s, <1>c DEF HandshakeInv, EndsInv
  <2> QED BY <1>1, <2>1 DEF HandshakeInv, EndsInv, ReportedToCe
<1>7. BrokenInv'
  BY <1>1, <1>s, <1>c DEF HandshakeInv, BrokenInv, Reported, ReportedToCe
<1>8. CostInv'
  <2>1. Doomed' \subseteq Doomed
    BY <1>1, <1>s, <1>c DEF Doomed, Reported, Alive
  <2>2. Late' \subseteq Late /\ Pending' \subseteq Pending
    BY <1>1 DEF Late, Pending, ReportedToCe
  <2> QED BY <1>1, <1>t, <2>1, <2>2, CostKept DEF HandshakeInv
<1> QED BY <1>3, <1>4, <1>5, <1>6, <1>7, <1>8 DEF HandshakeInv

LEMMA TakeResetStep ==
  ASSUME HandshakeInv, NEW c \in Conns, bus # <<>>, Head(bus)[1] = "Reset",
         bus' = Tail(bus), TakeReset(c), UNCHANGED <<ceVars, netVars, bound>>
  PROVE  HandshakeInv'
<1>1. /\ connectors' = connectors + 1
      /\ UNCHANGED <<se, held, http, ce, ceUp, ceBus, attached, table, sent, told, cut,
                     faults, strays, lapses>>
  BY DEF TakeReset, Restarts, ceVars, netVars, history
<1>t. PeersTypeOK /\ connectors \in Nat /\ strays \in Nat /\ Cardinality(Untold) \in Nat
      /\ Cardinality(Places(bus, "Reset")) \in Nat
  BY Counted DEF HandshakeInv
<1>2. /\ bus' \in Seq(BusEvents)
      /\ Cardinality(Places(bus, "Reset")) = Cardinality(Places(bus', "Reset")) + 1
      /\ Cardinality(Places(bus', "Reset")) \in Nat
      /\ Cardinality(Places(bus', "HttpReset")) = Cardinality(Places(bus, "HttpReset"))
      /\ \A x : In(bus', x) => In(bus, x)
      /\ \A x : Once(bus, x) => Once(bus', x)
  BY <1>t, BusShrinks
<1>3. PeersTypeOK'
  <2>1. connectors' \in Nat
    BY <1>1, <1>t
  <2> QED BY <1>1, <1>2, <1>t, <2>1 DEF PeersTypeOK, BusEvents
<1>4. BrokenInv' /\ CostInv' /\ Untold' = Untold
  BY <1>1, ConnectionsKept DEF Reported, ReportedToCe
<1>5. CountInv'
  <2>1. connectors + Cardinality(Places(bus, "Reset")) + Cardinality(Untold) = 1 + strays
    BY DEF HandshakeInv, CountInv
  <2>2. connectors' + Cardinality(Places(bus', "Reset")) + Cardinality(Untold) = 1 + strays
    BY <1>1, <1>t, <1>2, <2>1
  <2> QED BY <1>1, <1>4, <2>2 DEF CountInv
<1>6. StrayInv'
  BY <1>1, <1>2 DEF HandshakeInv, StrayInv, CallsReset
<1>7. EndsInv'
  BY <1>1, <1>2 DEF HandshakeInv, EndsInv, ReportedToCe
<1> QED BY <1>3, <1>4, <1>5, <1>6, <1>7 DEF HandshakeInv

(* The reset of an HTTP connection that nobody takes is a stray attempt.   *)
LEMMA TakeHttpResetStep ==
  ASSUME HandshakeInv, NEW h \in Calls, bus # <<>>, Head(bus)[1] = "HttpReset",
         bus' = Tail(bus), TakeHttpReset(h), UNCHANGED <<ceVars, netVars, bound>>
  PROVE  HandshakeInv'
<1>1. /\ \/ connectors' = connectors + 1 /\ strays' = strays + 1
         \/ connectors' = connectors /\ strays' = strays
      /\ http' \in {http, [http EXCEPT ![h] = "closing"]}
      /\ UNCHANGED <<se, held, ce, ceUp, ceBus, attached, table, sent, told, cut,
                     faults, lapses>>
  BY DEF TakeHttpReset, Restarts, ceVars, netVars
<1>t. PeersTypeOK /\ connectors \in Nat /\ strays \in Nat /\ Cardinality(Untold) \in Nat
      /\ Cardinality(Places(bus, "Reset")) \in Nat
      /\ Cardinality(CallsReset) \in Nat /\ Cardinality(CallsReset) <= Cardinality(Calls)
      /\ Cardinality(Calls) \in Nat
  BY Counted, ConnsAre DEF HandshakeInv
<1>2. /\ bus' \in Seq(BusEvents)
      /\ Cardinality(Places(bus, "HttpReset")) = Cardinality(Places(bus', "HttpReset")) + 1
      /\ Cardinality(Places(bus', "HttpReset")) \in Nat
      /\ Cardinality(Places(bus', "Reset")) = Cardinality(Places(bus, "Reset"))
      /\ \A x : In(bus', x) => In(bus, x)
      /\ \A x : Once(bus, x) => Once(bus', x)
  BY <1>t, BusShrinks
<1>3. /\ connectors' \in Nat /\ strays' \in Nat
      /\ strays' + Cardinality(Places(bus', "HttpReset")) <= Cardinality(CallsReset)
      /\ strays' <= Cardinality(Calls)
  <2>1. strays + Cardinality(Places(bus, "HttpReset")) <= Cardinality(CallsReset)
    BY DEF HandshakeInv, StrayInv
  <2>2. \/ connectors' = connectors + 1 /\ strays' = strays + 1
        \/ connectors' = connectors /\ strays' = strays
    BY <1>1
  <2>3. /\ connectors \in Nat /\ strays \in Nat /\ Cardinality(Calls) \in Nat
        /\ Cardinality(CallsReset) \in Nat /\ Cardinality(CallsReset) <= Cardinality(Calls)
    BY <1>t
  <2>4. /\ Cardinality(Places(bus, "HttpReset")) = Cardinality(Places(bus', "HttpReset")) + 1
        /\ Cardinality(Places(bus', "HttpReset")) \in Nat
    BY <1>2
  <2> QED BY <2>1, <2>2, <2>3, <2>4
<1>4. PeersTypeOK'
  <2>1. strays' \in 0..Cardinality(Calls)
    BY <1>t, <1>3
  <2>2. http' \in [Calls -> {"none", "open", "closing", "gone"}]
    BY <1>1, <1>t DEF PeersTypeOK
  <2> QED BY <1>1, <1>2, <1>3, <1>t, <2>1, <2>2 DEF PeersTypeOK, BusEvents
<1>5. BrokenInv' /\ Untold' = Untold
  BY <1>1 DEF HandshakeInv, BrokenInv, Untold, Made, Reported, ReportedToCe
<1>6. CostInv'
  <2>1. strays' = 0 => strays = 0
    BY <1>1, <1>t
  <2>2. Doomed' = Doomed /\ Late' = Late /\ Pending' = Pending
    BY <1>1 DEF Doomed, Late, Pending, Reported, ReportedToCe, Alive
  <2> QED BY <1>1, <2>1, <2>2 DEF HandshakeInv, CostInv
<1>7. CountInv'
  <2>1. connectors + Cardinality(Places(bus, "Reset")) + Cardinality(Untold) = 1 + strays
    BY DEF HandshakeInv, CountInv
  <2>2. connectors' + Cardinality(Places(bus, "Reset")) + Cardinality(Untold) = 1 + strays'
    BY <1>1, <1>t, <2>1
  <2> QED BY <1>2, <1>5, <2>2 DEF CountInv
<1>8. StrayInv'
  BY <1>1, <1>3 DEF StrayInv, CallsReset
<1>9. EndsInv'
  BY <1>1, <1>2 DEF HandshakeInv, EndsInv, ReportedToCe
<1> QED BY <1>4, <1>5, <1>6, <1>7, <1>8, <1>9 DEF HandshakeInv

LEMMA DispatchStep ==
  ASSUME HandshakeInv, Dispatch, bound' = bound
  PROVE  HandshakeInv'
<1>1. /\ bus # <<>> /\ bus' = Tail(bus) /\ UNCHANGED <<ceVars, netVars, bound>>
      /\ \/ Head(bus)[1] = "Ack" /\ TakeAck(Head(bus)[2])
         \/ Head(bus)[1] = "CeConnected" /\ TakeCeConnected(Head(bus)[2])
         \/ Head(bus)[1] = "Reset" /\ TakeReset(Head(bus)[2])
         \/ Head(bus)[1] = "HttpReset" /\ TakeHttpReset(Head(bus)[2])
  BY DEF Dispatch
<1>2. Head(bus) \in BusEvents
  BY <1>1, BusShrinks DEF HandshakeInv
<1>3. /\ Head(bus)[1] \in {"Ack", "CeConnected", "Reset"} => Head(bus)[2] \in Conns
      /\ Head(bus)[1] = "HttpReset" => Head(bus)[2] \in Calls
      /\ Head(bus) = <<Head(bus)[1], Head(bus)[2]>>
  BY <1>2 DEF BusEvents
<1>4. CASE Head(bus)[1] = "Ack" /\ TakeAck(Head(bus)[2])
  BY <1>1, <1>3, <1>4, TakeAckStep
<1>5. CASE Head(bus)[1] = "CeConnected" /\ TakeCeConnected(Head(bus)[2])
  <2>1. Head(bus)[2] \in Conns /\ Head(bus) = <<"CeConnected", Head(bus)[2]>>
    BY <1>3, <1>5
  <2> QED BY <1>1, <1>5, <2>1, TakeCeConnectedStep
<1>6. CASE Head(bus)[1] = "Reset" /\ TakeReset(Head(bus)[2])
  BY <1>1, <1>3, <1>6, TakeResetStep
<1>7. CASE Head(bus)[1] = "HttpReset" /\ TakeHttpReset(Head(bus)[2])
  BY <1>1, <1>3, <1>7, TakeHttpResetStep
<1> QED BY <1>1, <1>4, <1>5, <1>6, <1>7

(* An HTTP connection moves on, and nothing else does. *)
LEMMA CallMoves ==
  ASSUME HandshakeInv, NEW h \in Calls, NEW to \in {"open", "closing", "gone"},
         http' = [http EXCEPT ![h] = to],
         UNCHANGED <<connectors, se, bus, held, ceVars, netVars, history, bound>>
  PROVE  HandshakeInv'
<1>1. UNCHANGED <<connectors, se, bus, held, ce, ceUp, ceBus, attached, table, sent, told, cut,
                  faults, strays, lapses>>
  BY DEF ceVars, netVars, history
<1>t. PeersTypeOK
  BY DEF HandshakeInv
<1>2. PeersTypeOK'
  BY <1>1, <1>t DEF PeersTypeOK
<1>3. BrokenInv' /\ CostInv' /\ Untold' = Untold
  BY <1>1, ConnectionsKept DEF Reported, ReportedToCe
<1>4. CountInv' /\ StrayInv'
  BY <1>1, <1>3 DEF HandshakeInv, CountInv, StrayInv, CallsReset
<1>5. EndsInv'
  BY <1>1 DEF HandshakeInv, EndsInv, ReportedToCe
<1> QED BY <1>2, <1>3, <1>4, <1>5 DEF HandshakeInv

LEMMA HttpResetStep ==
  ASSUME HandshakeInv, NEW h \in Calls, HttpReset(h), bound' = bound
  PROVE  HandshakeInv'
<1> DEFINE e == <<"HttpReset", h>>
<1>1. /\ <<"http", h>> \notin told /\ told' = told \cup {<<"http", h>>}
      /\ bus' = Append(bus, e)
      /\ UNCHANGED <<connectors, se, held, http, ce, ceUp, ceBus, attached, table, sent, cut,
                     faults, strays, lapses>>
  BY DEF HttpReset, ceVars, history
<1>t. PeersTypeOK
  BY DEF HandshakeInv
<1>b. e \in BusEvents /\ e[1] = "HttpReset" /\ \A d : <<"CeConnected", d>> # e
  BY DEF BusEvents
<1> HIDE DEF e
<1>2. /\ bus' \in Seq(BusEvents)
      /\ \A k : Cardinality(Places(bus', k))
                  = Cardinality(Places(bus, k)) + (IF e[1] = k THEN 1 ELSE 0)
      /\ \A k : e[1] # k => Cardinality(Places(bus', k)) = Cardinality(Places(bus, k))
      /\ \A x : In(bus', x) <=> In(bus, x) \/ x = e
      /\ \A x : Once(bus, x) /\ (x = e => ~In(bus, x)) => Once(bus', x)
  BY <1>1, <1>t, <1>b, BusGrows
<1>r. /\ \A d \in Conns : Reported(d)' = Reported(d) /\ ReportedToCe(d)' = ReportedToCe(d)
      /\ CallsReset' = CallsReset \cup {h} /\ h \notin CallsReset
  BY <1>1 DEF Reported, ReportedToCe, CallsReset
<1>3. PeersTypeOK'
  BY <1>1, <1>2, <1>t DEF PeersTypeOK, BusEvents
<1>4. BrokenInv' /\ CostInv' /\ Untold' = Untold
  BY <1>1, <1>r, ConnectionsKept
<1>5. CountInv'
  <2>1. Cardinality(Places(bus', "Reset")) = Cardinality(Places(bus, "Reset"))
    BY <1>b, <1>2
  <2> QED BY <1>1, <1>t, <1>4, <2>1, CountKept DEF HandshakeInv
<1>6. StrayInv'
  <2>1. /\ strays + Cardinality(Places(bus, "HttpReset")) <= Cardinality(CallsReset)
        /\ strays \in Nat /\ Cardinality(Places(bus, "HttpReset")) \in Nat
        /\ IsFiniteSet(CallsReset) /\ Cardinality(CallsReset) \in Nat
    BY <1>t, Counted DEF HandshakeInv, StrayInv
  <2>2. Cardinality(CallsReset') = Cardinality(CallsReset) + 1
    BY <1>r, <2>1, FS_AddElement
  <2>3. Cardinality(Places(bus', "HttpReset")) = Cardinality(Places(bus, "HttpReset")) + 1
    BY <1>b, <1>2
  <2>4. strays' = strays
    BY <1>1
  <2>5. strays' + Cardinality(Places(bus', "HttpReset")) <= Cardinality(CallsReset')
    BY <2>1, <2>2, <2>3, <2>4
  <2> QED BY <2>5 DEF StrayInv
<1>7. EndsInv'
  BY <1>1, <1>b, <1>2, <1>r DEF HandshakeInv, EndsInv
<1> QED BY <1>3, <1>4, <1>5, <1>6, <1>7 DEF HandshakeInv

LEMMA HttpCallStep ==
  ASSUME HandshakeInv, NEW h \in Calls, HttpCall(h) \/ HttpServed(h) \/ HttpEnd(h), bound' = bound
  PROVE  HandshakeInv'
<1>1. CASE HttpCall(h)
  <2>1. http' = [http EXCEPT ![h] = "open"]
        /\ UNCHANGED <<connectors, se, bus, held, ceVars, netVars, history, bound>>
    BY <1>1 DEF HttpCall
  <2> QED BY <2>1, CallMoves
<1>2. CASE HttpServed(h)
  <2>1. http' = [http EXCEPT ![h] = "closing"]
        /\ UNCHANGED <<connectors, se, bus, held, ceVars, netVars, history, bound>>
    BY <1>2 DEF HttpServed
  <2> QED BY <2>1, CallMoves
<1>3. CASE HttpEnd(h)
  <2>1. http' = [http EXCEPT ![h] = "gone"]
        /\ UNCHANGED <<connectors, se, bus, held, ceVars, netVars, history, bound>>
    BY <1>3 DEF HttpEnd
  <2> QED BY <2>1, CallMoves
<1> QED BY <1>1, <1>2, <1>3

-----------------------------------------------------------------------------
(* The control element.                                                    *)

LEMMA CeBusGrows ==
  ASSUME PeersTypeOK, NEW e \in CeEvents, ceBus' = Append(ceBus, e)
  PROVE  /\ ceBus' \in Seq(CeEvents)
         /\ \A x : In(ceBus', x) <=> In(ceBus, x) \/ x = e
         /\ \A x : Once(ceBus, x) /\ (x = e => ~In(ceBus, x)) => Once(ceBus', x)
<1>1. ceBus \in Seq(CeEvents)
  BY Counted
<1> QED BY <1>1, AppendElements, InAppend

LEMMA CeBusShrinks ==
  ASSUME PeersTypeOK, ceBus # <<>>, ceBus' = Tail(ceBus)
  PROVE  /\ ceBus' \in Seq(CeEvents) /\ Head(ceBus) \in CeEvents
         /\ \A x : In(ceBus, x) <=> In(ceBus', x) \/ Head(ceBus) = x
         /\ \A x : Once(ceBus, x) => Once(ceBus', x) /\ (Head(ceBus) = x => ~In(ceBus', x))
<1>1. ceBus \in Seq(CeEvents)
  BY Counted
<1>2. ceBus' \in Seq(CeEvents) /\ Head(ceBus) \in CeEvents
  BY <1>1, TailElements
<1> QED BY <1>1, <1>2, InTail

(* What the service element counts stays when the control element steps.   *)
LEMMA CeLeavesCount ==
  ASSUME HandshakeInv, UNCHANGED <<connectors, se, bus, strays>>,
         \A c \in Conns : Reported(c)' = Reported(c), CallsReset' = CallsReset
  PROVE  CountInv' /\ StrayInv'
<1>1. Untold' = Untold
  BY DEF Untold, Made
<1>2. CountInv'
  BY <1>1 DEF HandshakeInv, CountInv
<1>3. StrayInv'
  BY DEF HandshakeInv, StrayInv
<1> QED BY <1>2, <1>3

(* The end of a connection is set up further, and nothing else happens. *)
LEMMA CeMoves ==
  ASSUME HandshakeInv, PeersTypeOK', NEW c \in Conns, se[c] # "none",
         ce[c] \in {"none", "setup"}, ce'[c] \in {"setup", "data"},
         \A d \in Conns : d # c => ce'[d] = ce[d],
         UNCHANGED <<connectors, se, bus, ceBus, told, cut, faults, strays>>
  PROVE  HandshakeInv'
<1>1. CountInv' /\ StrayInv'
  BY CeLeavesCount DEF Reported, CallsReset
<1>2. EndsInv'
  BY DEF HandshakeInv, EndsInv, ReportedToCe
<1>3. BrokenInv'
  BY DEF HandshakeInv, BrokenInv, Reported, ReportedToCe
<1>4. CostInv'
  <2>1. Doomed' \subseteq Doomed
    BY DEF Doomed, Reported, Alive
  <2>2. Late' \subseteq Late /\ Pending' \subseteq Pending
    BY DEF Late, Pending, ReportedToCe, HandshakeInv, PeersTypeOK
  <2> QED BY <2>1, <2>2, CostKept DEF HandshakeInv
<1> QED BY <1>1, <1>2, <1>3, <1>4 DEF HandshakeInv

LEMMA CeAcceptStep ==
  ASSUME HandshakeInv, NEW c \in Conns, CeAccept(c), bound' = bound
  PROVE  HandshakeInv'
<1>1. /\ ce[c] = "none" /\ se[c] # "none" /\ ce' = [ce EXCEPT ![c] = "setup"]
      /\ UNCHANGED <<connectors, se, bus, held, http, ceUp, ceBus, attached, table, sent, told,
                     cut, faults, strays, lapses>>
  BY DEF CeAccept, seVars, netVars, history
<1>t. PeersTypeOK
  BY DEF HandshakeInv
<1>2. PeersTypeOK'
  BY <1>1, <1>t DEF PeersTypeOK
<1>3. ce'[c] = "setup" /\ \A d \in Conns : d # c => ce'[d] = ce[d]
  BY <1>1, <1>t DEF PeersTypeOK
<1> QED BY <1>1, <1>2, <1>3, CeMoves

LEMMA CeReadDataStep ==
  ASSUME HandshakeInv, NEW c \in Conns, CeReadData(c), bound' = bound
  PROVE  HandshakeInv'
<1>1. /\ ce[c] = "setup" /\ ce' = [ce EXCEPT ![c] = "data"]
      /\ sent' = sent \ {<<"data", c>>}
      /\ UNCHANGED <<connectors, se, bus, held, http, ceUp, ceBus, attached, table, told,
                     cut, faults, strays, lapses>>
  BY DEF CeReadData, seVars, history
<1>t. PeersTypeOK
  BY DEF HandshakeInv
<1>2. PeersTypeOK'
  BY <1>1, <1>t DEF PeersTypeOK
<1>3. /\ ce'[c] = "data" /\ \A d \in Conns : d # c => ce'[d] = ce[d]
      /\ se[c] # "none"
  BY <1>1, <1>t DEF PeersTypeOK, HandshakeInv, BrokenInv
<1> QED BY <1>1, <1>2, <1>3, CeMoves

LEMMA CeSetupDoneStep ==
  ASSUME HandshakeInv, NEW c \in Conns, CeSetupDone(c), bound' = bound
  PROVE  HandshakeInv'
<1> DEFINE e == <<"Connected", c>>
<1>1. /\ ce[c] = "data" /\ ce' = [ce EXCEPT ![c] = "raised"]
      /\ ceBus' = Append(ceBus, e)
      /\ sent' \in {sent, sent \cup {<<"ack", c>>}}
      /\ UNCHANGED <<connectors, se, bus, held, http, ceUp, attached, table, told,
                     cut, faults, strays, lapses>>
  BY DEF CeSetupDone, seVars, history
<1>t. PeersTypeOK
  BY DEF HandshakeInv
<1>b. /\ e \in CeEvents /\ \A d : <<"Reset", d>> # e
      /\ \A d : <<"Connected", d>> = e => d = c
      /\ ~In(ceBus, e)
  <2>1. In(ceBus, e) => ce[c] = "raised"
    BY DEF HandshakeInv, EndsInv
  <2> QED BY <1>1, <2>1 DEF CeEvents
<1> HIDE DEF e
<1>2. /\ ceBus' \in Seq(CeEvents)
      /\ \A x : In(ceBus', x) <=> In(ceBus, x) \/ x = e
      /\ \A x : Once(ceBus, x) /\ (x = e => ~In(ceBus, x)) => Once(ceBus', x)
  BY <1>1, <1>t, <1>b, CeBusGrows
<1>3. PeersTypeOK'
  BY <1>1, <1>2, <1>t DEF PeersTypeOK, CeEvents
<1>s. ce'[c] = "raised" /\ \A d \in Conns : d # c => ce'[d] = ce[d]
  BY <1>1, <1>t DEF PeersTypeOK
<1>4. CountInv' /\ StrayInv'
  BY <1>1, CeLeavesCount DEF Reported, CallsReset
<1>5. EndsInv'
  BY <1>1, <1>2, <1>b, <1>s DEF HandshakeInv, EndsInv, ReportedToCe
<1>6. BrokenInv'
  BY <1>1, <1>s DEF HandshakeInv, BrokenInv, Reported, ReportedToCe
<1>7. CostInv'
  <2>1. Doomed' \subseteq Doomed
    BY <1>1, <1>s DEF Doomed, Reported, Alive
  <2>2. Late' \subseteq Late
    BY <1>1, <1>s, <1>t DEF Late, PeersTypeOK
  <2>3. Pending' \subseteq Pending
    BY <1>1, <1>2, <1>b DEF Pending, ReportedToCe
  <2> QED BY <1>1, <1>t, <2>1, <2>2, <2>3, CostKept DEF HandshakeInv
<1> QED BY <1>3, <1>4, <1>5, <1>6, <1>7 DEF HandshakeInv

LEMMA CeResetStep ==
  ASSUME HandshakeInv, NEW c \in Conns, CeReset(c), bound' = bound
  PROVE  HandshakeInv'
<1> DEFINE e == <<"Reset", c>>
<1>1. /\ Alive(ce, c) /\ (c \in cut \/ se[c] = "closed") /\ ~ReportedToCe(c)
      /\ told' = told \cup {<<"ce", c>>} /\ ceBus' = Append(ceBus, e)
      /\ UNCHANGED <<connectors, se, bus, held, http, ce, ceUp, attached, table, sent,
                     cut, faults, strays, lapses>>
  BY DEF CeReset, seVars, history, ReportedToCe
<1>t. PeersTypeOK
  BY DEF HandshakeInv
<1>b. /\ e \in CeEvents /\ \A d : <<"Connected", d>> # e
      /\ \A d : <<"Reset", d>> = e => d = c
      /\ ~In(ceBus, e)
  <2>1. In(ceBus, e) => ReportedToCe(c)
    BY DEF HandshakeInv, EndsInv
  <2> QED BY <1>1, <2>1 DEF CeEvents
<1> HIDE DEF e
<1>2. /\ ceBus' \in Seq(CeEvents)
      /\ \A x : In(ceBus', x) <=> In(ceBus, x) \/ x = e
      /\ \A x : Once(ceBus, x) /\ (x = e => ~In(ceBus, x)) => Once(ceBus', x)
  BY <1>1, <1>t, <1>b, CeBusGrows
<1>r. /\ \A d \in Conns : Reported(d)' = Reported(d)
      /\ \A d \in Conns : ReportedToCe(d)' <=> ReportedToCe(d) \/ d = c
      /\ CallsReset' = CallsReset
  BY <1>1 DEF Reported, ReportedToCe, CallsReset
<1>3. PeersTypeOK'
  BY <1>1, <1>2, <1>t DEF PeersTypeOK, CeEvents
<1>4. CountInv' /\ StrayInv'
  BY <1>1, <1>r, CeLeavesCount
<1>5. EndsInv'
  BY <1>1, <1>2, <1>b, <1>r DEF HandshakeInv, EndsInv
<1>6. BrokenInv'
  BY <1>1, <1>r DEF HandshakeInv, BrokenInv, Alive
<1>7. CostInv'
  <2>1. Doomed' \subseteq Doomed
    BY <1>1, <1>r DEF Doomed, Alive
  <2>2. Late' \subseteq Late
    BY <1>1 DEF Late
  <2>3. Pending' \subseteq Pending
    BY <1>1, <1>2, <1>b, <1>r, <1>t DEF Pending, PeersTypeOK
  <2> QED BY <1>1, <1>t, <2>1, <2>2, <2>3, CostKept DEF HandshakeInv
<1> QED BY <1>3, <1>4, <1>5, <1>6, <1>7 DEF HandshakeInv


(* The connection that was attached is closed, for one whose event comes   *)
(* late or, if that one was not lost, without a loss: without strays the   *)
(* service element has no second connection to lose.                       *)
LEMMA TakeConnectedStep ==
  ASSUME HandshakeInv, NEW c \in Conns, ceBus # <<>>, Head(ceBus) = <<"Connected", c>>,
         ceBus' = Tail(ceBus), TakeConnected(c),
         UNCHANGED <<seVars, ceUp, netVars, history, bound>>
  PROVE  HandshakeInv'
<1>1. /\ attached' = c /\ ce' = [Closed(ce, attached) EXCEPT ![c] = "attached"]
      /\ table' = table \cup {c}
      /\ UNCHANGED <<connectors, se, bus, held, http, ceUp, sent, told, cut, faults,
                     strays, lapses>>
  BY DEF TakeConnected, seVars, netVars, history
<1>t. PeersTypeOK
  BY DEF HandshakeInv
<1>2. /\ ceBus' \in Seq(CeEvents)
      /\ \A x : In(ceBus, x) <=> In(ceBus', x) \/ Head(ceBus) = x
      /\ \A x : Once(ceBus, x) => Once(ceBus', x) /\ (Head(ceBus) = x => ~In(ceBus', x))
  BY <1>t, CeBusShrinks
<1>c. ce[c] = "raised" /\ ~In(ceBus', <<"Connected", c>>)
  BY <1>2 DEF HandshakeInv, EndsInv
<1>s. /\ ce' \in [Conns -> {"none", "setup", "data", "raised", "attached", "closed"}]
      /\ ce'[c] = "attached"
      /\ \A d \in Conns : d # c =>
           IF ce[d] = "attached" THEN ce'[d] = "closed" ELSE ce'[d] = ce[d]
  <2>1. CASE attached = NoConn
    <3>1. ce' = [ce EXCEPT ![c] = "attached"] /\ \A d \in Conns : ce[d] # "attached"
      BY <1>1, <1>t, <2>1, ConnsAre DEF Closed, PeersTypeOK
    <3> QED BY <1>t, <3>1 DEF PeersTypeOK
  <2>2. CASE attached # NoConn
    <3>1. /\ ce' = [[ce EXCEPT ![attached] = "closed"] EXCEPT ![c] = "attached"]
          /\ attached \in Conns /\ \A d \in Conns : ce[d] = "attached" <=> d = attached
      BY <1>1, <1>t, <2>2 DEF Closed, PeersTypeOK
    <3> QED BY <1>t, <1>c, <3>1 DEF PeersTypeOK
  <2> QED BY <2>1, <2>2
<1>3. PeersTypeOK'
  <2>1. \A d \in Conns : attached' = d <=> ce'[d] = "attached"
    BY <1>1, <1>s
  <2> QED BY <1>1, <1>2, <1>s, <1>t, <2>1 DEF PeersTypeOK, CeEvents
<1>4. CountInv' /\ StrayInv'
  BY <1>1, CeLeavesCount DEF Reported, CallsReset
<1>5. EndsInv'
  <2>1. ASSUME NEW d \in Conns
        PROVE  /\ In(ceBus', <<"Connected", d>>) => ce'[d] = "raised"
               /\ Once(ceBus', <<"Connected", d>>)
    BY <1>2, <1>s, <1>c DEF HandshakeInv, EndsInv
  <2>2. ASSUME NEW d \in Conns
        PROVE  /\ In(ceBus', <<"Reset", d>>) => ReportedToCe(d)'
               /\ Once(ceBus', <<"Reset", d>>)
    BY <1>1, <1>2 DEF HandshakeInv, EndsInv, ReportedToCe
  <2> QED BY <1>1, <2>1, <2>2 DEF HandshakeInv, EndsInv
<1>6. BrokenInv'
  BY <1>1, <1>s, <1>c DEF HandshakeInv, BrokenInv, Reported, ReportedToCe
<1>7. /\ Late' \subseteq Late \ {c} /\ Pending' \subseteq Pending
      /\ Doomed' \subseteq Doomed \cup {attached}
      /\ \A d \in Doomed' : d \in Doomed \/ (Alive(se, d) /\ ~Reported(d))
  <2>1. Late' \subseteq Late \ {c}
    BY <1>1, <1>s, <1>t DEF Late, PeersTypeOK
  <2>2. Pending' \subseteq Pending
    BY <1>1, <1>2 DEF Pending, ReportedToCe
  <2>3. Doomed' \subseteq Doomed \cup {attached}
    BY <1>1, <1>s, <1>t DEF Doomed, Alive, Reported, PeersTypeOK
  <2>4. \A d \in Doomed' : d \in Doomed \/ (Alive(se, d) /\ ~Reported(d))
    BY <1>1 DEF Doomed, Alive, Reported
  <2> QED BY <2>1, <2>2, <2>3, <2>4
<1>8. CostInv'
  <2>1. CASE c \in cut
    <3>1. c \in Late
      BY <1>c, <2>1 DEF Late
    <3> QED BY <1>1, <1>t, <1>7, <3>1, EventPays DEF HandshakeInv
  <2>2. CASE strays # 0
    BY <1>1, <2>2 DEF CostInv
  <2>3. CASE c \notin cut /\ strays = 0
    <3>1. c \in Untold
      BY <1>c, <2>3 DEF Untold, Made, HandshakeInv, BrokenInv
    <3>2. ASSUME NEW d \in Doomed', d \notin Doomed
          PROVE  FALSE
      <4>1. d \in Conns /\ d # c
        BY <1>s, <1>1, <1>t, <3>2 DEF Doomed, Alive, Reported
      <4>2. d \in Untold
        BY <1>7, <3>2, <4>1 DEF Untold, Made, Alive
      <4>3. CountInv
        BY DEF HandshakeInv
      <4> QED BY <1>t, <2>3, <3>1, <4>1, <4>2, <4>3, UntoldAreOne
    <3>3. Doomed' \subseteq Doomed
      BY <3>2
    <3> QED BY <1>1, <1>t, <1>7, <3>3, CostKept DEF HandshakeInv
  <2> QED BY <2>1, <2>2, <2>3
<1> QED BY <1>3, <1>4, <1>5, <1>6, <1>8 DEF HandshakeInv

(* Any entry is that of the element: the reset of an old connection closes *)
(* the one in use. *)
LEMMA TakeCeResetStep ==
  ASSUME HandshakeInv, NEW c \in Conns, ceBus # <<>>, Head(ceBus) = <<"Reset", c>>,
         ceBus' = Tail(ceBus), TakeCeReset(c),
         UNCHANGED <<seVars, ceUp, netVars, history, bound>>
  PROVE  HandshakeInv'
<1>1. /\ \/ attached' = NoConn /\ ce' = Closed(ce, attached) /\ table' = table \ {c}
         \/ UNCHANGED <<attached, ce, table>>
      /\ UNCHANGED <<connectors, se, bus, held, http, ceUp, sent, told, cut, faults,
                     strays, lapses>>
  BY DEF TakeCeReset, seVars, netVars, history
<1>t. PeersTypeOK
  BY DEF HandshakeInv
<1>2. /\ ceBus' \in Seq(CeEvents)
      /\ \A x : In(ceBus, x) <=> In(ceBus', x) \/ Head(ceBus) = x
      /\ \A x : Once(ceBus, x) => Once(ceBus', x) /\ (Head(ceBus) = x => ~In(ceBus', x))
  BY <1>t, CeBusShrinks
<1>c. /\ ReportedToCe(c) /\ In(ceBus, <<"Reset", c>>) /\ ~In(ceBus', <<"Reset", c>>)
      /\ c \notin cut => se[c] = "closed" /\ ~Reported(c)
  <2>1. ReportedToCe(c) /\ In(ceBus, <<"Reset", c>>) /\ ~In(ceBus', <<"Reset", c>>)
    BY <1>2 DEF HandshakeInv, EndsInv
  <2> QED BY <2>1 DEF HandshakeInv, BrokenInv
<1>s. /\ ce' \in [Conns -> {"none", "setup", "data", "raised", "attached", "closed"}]
      /\ \A d \in Conns : ce'[d] = ce[d] \/ (ce[d] = "attached" /\ ce'[d] = "closed"
                                             /\ d = attached)
      /\ \A d \in Conns : attached' = d <=> ce'[d] = "attached"
      /\ attached' \in Conns \cup {NoConn} /\ table' \subseteq Conns
  <2>1. CASE UNCHANGED <<attached, ce, table>>
    BY <1>t, <2>1 DEF PeersTypeOK
  <2>2. CASE attached' = NoConn /\ ce' = Closed(ce, attached) /\ table' = table \ {c}
    <3>1. CASE attached = NoConn
      BY <1>t, <2>2, <3>1, ConnsAre DEF Closed, PeersTypeOK
    <3>2. CASE attached # NoConn
      <4>1. /\ ce' = [ce EXCEPT ![attached] = "closed"]
            /\ attached \in Conns /\ \A d \in Conns : ce[d] = "attached" <=> d = attached
            /\ table' \subseteq Conns
        BY <1>t, <2>2, <3>2 DEF Closed, PeersTypeOK
      <4> QED BY <1>t, <2>2, <4>1, ConnsAre DEF PeersTypeOK
    <3> QED BY <3>1, <3>2
  <2> QED BY <1>1, <2>1, <2>2
<1>3. PeersTypeOK'
  BY <1>1, <1>2, <1>s, <1>t DEF PeersTypeOK, CeEvents
<1>4. CountInv' /\ StrayInv'
  BY <1>1, CeLeavesCount DEF Reported, CallsReset
<1>5. EndsInv'
  <2>1. ASSUME NEW d \in Conns
        PROVE  /\ In(ceBus', <<"Connected", d>>) => ce'[d] = "raised"
               /\ Once(ceBus', <<"Connected", d>>)
    BY <1>2, <1>s DEF HandshakeInv, EndsInv
  <2>2. ASSUME NEW d \in Conns
        PROVE  /\ In(ceBus', <<"Reset", d>>) => ReportedToCe(d)'
               /\ Once(ceBus', <<"Reset", d>>)
    BY <1>1, <1>2 DEF HandshakeInv, EndsInv, ReportedToCe
  <2> QED BY <1>1, <2>1, <2>2 DEF HandshakeInv, EndsInv
<1>6. BrokenInv'
  BY <1>1, <1>s DEF HandshakeInv, BrokenInv, Reported, ReportedToCe
<1>7. /\ Late' \subseteq Late /\ Pending' \subseteq Pending \ {c}
      /\ Doomed' \subseteq Doomed \cup {attached}
      /\ \A d \in Doomed' : d \in Doomed \/ (Alive(se, d) /\ ~Reported(d))
  <2>1. Late' \subseteq Late
    BY <1>1, <1>s, <1>t DEF Late, PeersTypeOK
  <2>2. Pending' \subseteq Pending \ {c}
    BY <1>1, <1>2, <1>c DEF Pending, ReportedToCe
  <2>3. Doomed' \subseteq Doomed \cup {attached}
    BY <1>1, <1>s, <1>t DEF Doomed, Alive, Reported, PeersTypeOK
  <2>4. \A d \in Doomed' : d \in Doomed \/ (Alive(se, d) /\ ~Reported(d))
    BY <1>1 DEF Doomed, Alive, Reported
  <2> QED BY <2>1, <2>2, <2>3, <2>4
<1>8. CostInv'
  <2>1. CASE c \in cut
    <3>1. c \in Pending
      BY <1>c, <2>1 DEF Pending
    <3> QED BY <1>1, <1>t, <1>7, <3>1, EventPays DEF HandshakeInv
  <2>2. CASE strays # 0
    BY <1>1, <2>2 DEF CostInv
  <2>3. CASE c \notin cut /\ strays = 0
    <3>1. c \in Untold /\ ~Alive(se, c)
      BY <1>c, <2>3 DEF Untold, Made, Alive
    <3>2. ASSUME NEW d \in Doomed', d \notin Doomed
          PROVE  FALSE
      <4>1. d \in Untold /\ Alive(se, d)
        BY <1>7, <3>2 DEF Untold, Made, Alive, Doomed
      <4>2. CountInv
        BY DEF HandshakeInv
      <4> QED BY <1>t, <2>3, <3>1, <4>1, <4>2, UntoldAreOne
    <3>3. Doomed' \subseteq Doomed
      BY <3>2
    <3> QED BY <1>1, <1>t, <1>7, <3>3, CostKept DEF HandshakeInv
  <2> QED BY <2>1, <2>2, <2>3
<1> QED BY <1>3, <1>4, <1>5, <1>6, <1>8 DEF HandshakeInv

LEMMA CeHandleStep ==
  ASSUME HandshakeInv, CeHandle, bound' = bound
  PROVE  HandshakeInv'
<1>1. /\ ceBus # <<>> /\ ceBus' = Tail(ceBus)
      /\ UNCHANGED <<seVars, ceUp, netVars, history, bound>>
      /\ \/ Head(ceBus)[1] = "Connected" /\ TakeConnected(Head(ceBus)[2])
         \/ Head(ceBus)[1] = "Reset" /\ TakeCeReset(Head(ceBus)[2])
  BY DEF CeHandle
<1>2. Head(ceBus) \in CeEvents
  BY <1>1, CeBusShrinks DEF HandshakeInv
<1>3. Head(ceBus)[2] \in Conns /\ Head(ceBus) = <<Head(ceBus)[1], Head(ceBus)[2]>>
  BY <1>2 DEF CeEvents
<1>4. CASE Head(ceBus)[1] = "Connected" /\ TakeConnected(Head(ceBus)[2])
  <2>1. Head(ceBus) = <<"Connected", Head(ceBus)[2]>>
    BY <1>3, <1>4
  <2> QED BY <1>1, <1>3, <1>4, <2>1, TakeConnectedStep
<1>5. CASE Head(ceBus)[1] = "Reset" /\ TakeCeReset(Head(ceBus)[2])
  <2>1. Head(ceBus) = <<"Reset", Head(ceBus)[2]>>
    BY <1>3, <1>5
  <2> QED BY <1>1, <1>3, <1>5, <2>1, TakeCeResetStep
<1> QED BY <1>1, <1>4, <1>5

-----------------------------------------------------------------------------
(* The faults.                                                             *)

LEMMA FaultCounted ==
  ASSUME PeersTypeOK, faults < bound.faults, faults' = faults + 1, bound' = bound
  PROVE  faults' \in 0..bound.faults
<1>1. bound \in [conns : Conns, calls : Nat, faults : Nat]
  BY HandshakeAssumption DEF PeersTypeOK
<1>2. bound.faults \in Nat /\ faults \in Nat
  BY <1>1, Counted
<1> QED BY <1>2

LEMMA CeSetupTimeoutStep ==
  ASSUME HandshakeInv, NEW c \in Conns, CeSetupTimeout(c), bound' = bound
  PROVE  HandshakeInv'
<1>1. /\ ce[c] = "setup" /\ ce' = [ce EXCEPT ![c] = "closed"]
      /\ faults < bound.faults /\ faults' = faults + 1
      /\ UNCHANGED <<connectors, se, bus, held, http, ceUp, ceBus, attached, table, sent, told,
                     cut, strays, lapses>>
  BY ConnsAre DEF CeSetupTimeout, Closed, seVars, history
<1>t. PeersTypeOK
  BY DEF HandshakeInv
<1>2. PeersTypeOK'
  <2>1. faults' \in 0..bound.faults
    BY <1>1, <1>t, FaultCounted
  <2> QED BY <1>1, <1>t, <2>1 DEF PeersTypeOK
<1>s. ce'[c] = "closed" /\ \A d \in Conns : d # c => ce'[d] = ce[d]
  BY <1>1, <1>t DEF PeersTypeOK
<1>3. CountInv' /\ StrayInv'
  BY <1>1, CeLeavesCount DEF Reported, CallsReset
<1>4. EndsInv'
  BY <1>1, <1>s DEF HandshakeInv, EndsInv, ReportedToCe
<1>5. BrokenInv'
  BY <1>1, <1>s DEF HandshakeInv, BrokenInv, Reported, ReportedToCe
<1>6. CostInv'
  <2>1. Doomed' \subseteq Doomed \cup {c}
    BY <1>1, <1>s DEF Doomed, Reported, Alive
  <2>2. Late' \subseteq Late \cup {c}
    BY <1>1, <1>s, <1>t DEF Late, PeersTypeOK
  <2>3. Pending' \subseteq Pending \cup {c}
    BY <1>1 DEF Pending, ReportedToCe
  <2> QED BY <1>1, <1>t, <2>1, <2>2, <2>3, FaultPays DEF HandshakeInv
<1> QED BY <1>2, <1>3, <1>4, <1>5, <1>6 DEF HandshakeInv

LEMMA CutStep ==
  ASSUME HandshakeInv, NEW c \in Conns, Cut(c), bound' = bound
  PROVE  HandshakeInv'
<1>1. /\ Alive(se, c) /\ cut' = cut \cup {c}
      /\ faults < bound.faults /\ faults' = faults + 1
      /\ sent' \subseteq sent
      /\ UNCHANGED <<connectors, se, bus, held, http, ce, ceUp, ceBus, attached, table, told,
                     strays, lapses>>
  BY DEF Cut, seVars, ceVars, history
<1>t. PeersTypeOK
  BY DEF HandshakeInv
<1>2. PeersTypeOK'
  <2>1. faults' \in 0..bound.faults
    BY <1>1, <1>t, FaultCounted
  <2> QED BY <1>1, <1>t, <2>1 DEF PeersTypeOK
<1>3. CountInv' /\ StrayInv'
  BY <1>1, CeLeavesCount DEF Reported, CallsReset
<1>4. EndsInv'
  BY <1>1 DEF HandshakeInv, EndsInv, ReportedToCe
<1>5. BrokenInv'
  BY <1>1 DEF HandshakeInv, BrokenInv, Reported, ReportedToCe, Alive
<1>6. CostInv'
  <2>1. Doomed' \subseteq Doomed \cup {c}
    BY <1>1 DEF Doomed, Reported, Alive
  <2>2. Late' \subseteq Late \cup {c}
    BY <1>1 DEF Late
  <2>3. Pending' \subseteq Pending \cup {c}
    BY <1>1 DEF Pending, ReportedToCe
  <2> QED BY <1>1, <1>t, <2>1, <2>2, <2>3, FaultPays DEF HandshakeInv
<1> QED BY <1>2, <1>3, <1>4, <1>5, <1>6 DEF HandshakeInv

(* A crash closes every connection, and without strays the service element *)
(* has only one to lose.                                                   *)
LEMMA CeCrashStep ==
  ASSUME HandshakeInv, CeCrash, bound' = bound
  PROVE  HandshakeInv'
<1>1. /\ faults < bound.faults /\ faults' = faults + 1
      /\ ceUp' = FALSE /\ ceBus' = <<>> /\ attached' = NoConn /\ table' = {}
      /\ ce' = [c \in Conns |-> IF se[c] = "none" THEN "none" ELSE "closed"]
      /\ UNCHANGED <<connectors, se, bus, held, http, sent, told, cut, strays, lapses>>
  BY DEF CeCrash, seVars, history
<1>t. PeersTypeOK
  BY DEF HandshakeInv
<1>s. \A c \in Conns : ce'[c] = IF se[c] = "none" THEN "none" ELSE "closed"
  BY <1>1
<1>2. PeersTypeOK'
  <2>1. faults' \in 0..bound.faults
    BY <1>1, <1>t, FaultCounted
  <2>2. ce' \in [Conns -> {"none", "setup", "data", "raised", "attached", "closed"}]
    BY <1>1
  <2>3. ceBus' \in Seq({"Connected", "Reset"} \X Conns)
    BY <1>1
  <2>4. \A c \in Conns : attached' = c <=> ce'[c] = "attached"
    BY <1>1, <1>s, ConnsAre
  <2> QED BY <1>1, <1>t, <2>1, <2>2, <2>3, <2>4 DEF PeersTypeOK
<1>3. CountInv' /\ StrayInv'
  BY <1>1, CeLeavesCount DEF Reported, CallsReset
<1>4. EndsInv'
  BY <1>1, InEmpty DEF HandshakeInv, EndsInv
<1>5. BrokenInv'
  BY <1>1, <1>s DEF HandshakeInv, BrokenInv, Reported, ReportedToCe
<1>6. CostInv'
  <2> DEFINE x == CHOOSE d : d \in Doomed' \ Doomed
  <2>1. strays = 0 => Doomed' \subseteq Doomed \cup {x}
    <3> SUFFICES ASSUME strays = 0, NEW d \in Doomed', d \notin Doomed PROVE d = x
      OBVIOUS
    <3>1. x \in Doomed' /\ x \notin Doomed
      OBVIOUS
    <3> HIDE DEF x
    <3>2. \A e \in Doomed' : e \notin Doomed => e \in Untold
      BY <1>1 DEF Doomed, Untold, Made, Alive, Reported
    <3>3. d \in Untold /\ x \in Untold /\ CountInv
      BY <3>1, <3>2 DEF HandshakeInv
    <3> QED BY <1>t, <3>3, UntoldAreOne
  <2> HIDE DEF x
  <2>2. Late' \subseteq Late \cup {x}
    BY <1>1, <1>s, <1>t DEF Late, HandshakeInv, BrokenInv, PeersTypeOK
  <2>3. Pending' \subseteq Pending \cup {x}
    BY <1>1, InEmpty DEF Pending, ReportedToCe
  <2> QED BY <1>1, <1>t, <2>1, <2>2, <2>3, FaultPays DEF HandshakeInv
<1> QED BY <1>2, <1>3, <1>4, <1>5, <1>6 DEF HandshakeInv

(* Steps that the invariant does not speak of. *)
LEMMA CeStartStep ==
  ASSUME HandshakeInv, CeStart \/ UNCHANGED peersVars, bound' = bound
  PROVE  HandshakeInv'
<1>1. /\ ceUp' \in {ceUp, TRUE}
      /\ UNCHANGED <<connectors, se, bus, held, http, ce, ceBus, attached, table, sent, told,
                     cut, faults, strays, lapses>>
  BY DEF CeStart, peersVars, seVars, ceVars, netVars, history
<1>t. PeersTypeOK
  BY DEF HandshakeInv
<1>2. PeersTypeOK'
  BY <1>1, <1>t DEF PeersTypeOK
<1>3. CountInv' /\ StrayInv'
  BY <1>1, CeLeavesCount DEF Reported, CallsReset
<1>4. EndsInv'
  BY <1>1 DEF HandshakeInv, EndsInv, ReportedToCe
<1>5. BrokenInv' /\ CostInv'
  BY <1>1, ConnectionsKept DEF Reported, ReportedToCe
<1> QED BY <1>2, <1>3, <1>4, <1>5 DEF HandshakeInv

-----------------------------------------------------------------------------
(* The invariant holds.                                                    *)

LEMMA HandshakeInvInit == PeersInit => HandshakeInv
<1> SUFFICES ASSUME PeersInit PROVE HandshakeInv
  OBVIOUS
<1>1. /\ connectors = 1 /\ se = [c \in Conns |-> "none"] /\ bus = <<>> /\ held = NoConn
      /\ http = [h \in Calls |-> "none"]
      /\ ce = [c \in Conns |-> "none"] /\ ceUp \in BOOLEAN /\ ceBus = <<>>
      /\ attached = NoConn /\ table = {} /\ sent = {} /\ told = {} /\ cut = {}
      /\ faults = 0 /\ strays = 0 /\ lapses = {} /\ bound \in Bounds
  BY DEF PeersInit
<1>2. PeersTypeOK
  <2>1. bound \in [conns : Conns, calls : Nat, faults : Nat]
    BY <1>1, HandshakeAssumption
  <2>2. faults \in 0..bound.faults
    BY <1>1, <2>1
  <2>3. strays \in 0..Cardinality(Calls) /\ connectors \in Nat
    BY <1>1, ConnsAre
  <2>4. /\ bus \in Seq(({"Ack", "CeConnected", "Reset"} \X Conns) \cup ({"HttpReset"} \X Calls))
        /\ ceBus \in Seq({"Connected", "Reset"} \X Conns)
    BY <1>1
  <2>5. \A c \in Conns : (held = c <=> se[c] = "held") /\ (attached = c <=> ce[c] = "attached")
    BY <1>1, ConnsAre
  <2> QED BY <1>1, <2>2, <2>3, <2>4, <2>5 DEF PeersTypeOK
<1>3. Untold = {} /\ Doomed = {} /\ Late = {} /\ Pending = {} /\ CallsReset = {}
  BY <1>1 DEF Untold, Made, Doomed, Late, Pending, CallsReset, Alive, Reported
<1>4. \A k : Places(bus, k) = {}
  BY <1>1 DEF Places
<1>5. CountInv /\ StrayInv /\ CostInv
  <2>1. /\ Cardinality(Places(bus, "Reset")) = 0 /\ Cardinality(Places(bus, "HttpReset")) = 0
        /\ Cardinality(Untold) = 0 /\ Cardinality(CallsReset) = 0
        /\ Cardinality(Doomed) = 0 /\ Cardinality(Late) = 0 /\ Cardinality(Pending) = 0
    BY <1>3, <1>4, FS_EmptySet
  <2>2. connectors = 1 /\ strays = 0 /\ faults = 0
    BY <1>1
  <2>3. CountInv
    BY <2>1, <2>2 DEF CountInv
  <2>4. StrayInv
    BY <2>1, <2>2 DEF StrayInv
  <2>5. CostInv
    BY <2>1, <2>2 DEF CostInv
  <2> QED BY <2>3, <2>4, <2>5
<1>6. EndsInv
  BY <1>1, InEmpty DEF EndsInv
<1>7. BrokenInv
  BY <1>1 DEF BrokenInv, Reported, ReportedToCe
<1> QED BY <1>2, <1>5, <1>6, <1>7 DEF HandshakeInv

LEMMA HandshakeInvStep ==
  HandshakeInv /\ [PeersNext]_<<peersVars, bound>> => HandshakeInv'
<1> SUFFICES ASSUME HandshakeInv, [PeersNext]_<<peersVars, bound>> PROVE HandshakeInv'
  OBVIOUS
<1>1. bound' = bound
  BY DEF PeersNext
<1>2. CASE ServiceElement
  BY <1>1, <1>2, DispatchStep, ConnectStep, SetupSendStep, SetupDoneStep, SeReadAckStep,
     SeResetStep DEF ServiceElement
<1>3. CASE Control
  BY <1>1, <1>3, CeHandleStep, CeAcceptStep, CeReadDataStep, CeSetupDoneStep, CeResetStep
     DEF Control
<1>4. CASE \E c \in Conns : SetupTimeout(c) \/ CeSetupTimeout(c) \/ Cut(c)
  BY <1>1, <1>4, SetupTimeoutStep, CeSetupTimeoutStep, CutStep
<1>5. CASE \E h \in Calls : HttpCall(h) \/ HttpConnection(h)
  BY <1>1, <1>5, HttpCallStep, HttpResetStep DEF HttpConnection
<1>6. CASE CeCrash
  BY <1>1, <1>6, CeCrashStep
<1>7. CASE CeStart \/ UNCHANGED peersVars
  BY <1>1, <1>7, CeStartStep
<1> QED BY <1>2, <1>3, <1>4, <1>5, <1>6, <1>7 DEF PeersNext

LEMMA HandshakeInvAlways == PeersSpec => []HandshakeInv
BY HandshakeInvInit, HandshakeInvStep, PTL DEF PeersSpec

(* Whatever the order in which the two elements, their connections and the *)
(* faults act, the variables keep the types of PeersTypeOK, and the        *)
(* connection an owner holds is one that it has not closed.                *)
THEOREM PeersTypeCorrect == PeersSpec => []PeersTypeOK
<1>1. HandshakeInv => PeersTypeOK
  BY DEF HandshakeInv
<1> QED BY <1>1, HandshakeInvAlways, PTL

(* What the invariant says of the two bounds. *)
LEMMA SoundByInv == HandshakeInv => ConnectionsSound
<1> SUFFICES ASSUME HandshakeInv PROVE ConnectionsSound
  OBVIOUS
<1>t. PeersTypeOK
  BY DEF HandshakeInv
<1> DEFINE U == {c \in Conns : Unreported(c)}
           M == {c \in Conns : se[c] # "none"}
<1>1. ResetsQueued = Places(bus, "Reset")
  <2>1. DOMAIN bus = 1..Len(bus)
    <3>1. bus \in Seq(BusEvents)
      BY <1>t, Counted
    <3> QED BY <3>1, LenProperties
  <2> QED BY <2>1 DEF ResetsQueued, Places
<1>2. /\ connectors \in Nat /\ strays \in Nat /\ faults \in Nat
      /\ Cardinality(Places(bus, "Reset")) \in Nat /\ Cardinality(Untold) \in Nat
      /\ Cardinality(Doomed) \in Nat /\ Cardinality(Late) \in Nat
      /\ Cardinality(Pending) \in Nat
  BY <1>t, Counted
<1>3. connectors + Cardinality(Places(bus, "Reset")) + Cardinality(Untold) = 1 + strays
  BY DEF HandshakeInv, CountInv
<1>4. OneConnection
  <2>1. Cardinality(U) <= Cardinality(Untold) /\ Cardinality(U) \in Nat
    <3>1. U \subseteq Untold /\ Untold \subseteq Conns /\ U \subseteq Conns
      BY DEF Untold, Made, Unreported, Alive, Reported
    <3> HIDE DEF U
    <3> QED BY <3>1, NoMore, ConnsAre
  <2> HIDE DEF U
  <2>2. connectors + Cardinality(Places(bus, "Reset")) + Cardinality(U) <= 1 + strays
    BY <1>2, <1>3, <2>1
  <2> QED BY <1>1, <2>2 DEF OneConnection, U
<1>5. FaultCostsThree
  <2> SUFFICES ASSUME strays = 0 PROVE connectors + Cardinality(M) <= 1 + 3 * faults
    BY DEF FaultCostsThree
  <2>1. /\ M = Untold \cup (M \ Untold) /\ Untold \cap (M \ Untold) = {}
        /\ M \ Untold \subseteq Doomed /\ M \ Untold \subseteq Conns
    BY DEF Untold, Made, Doomed
  <2> HIDE DEF M
  <2>2. /\ IsFiniteSet(Untold) /\ IsFiniteSet(M \ Untold)
        /\ Cardinality(M \ Untold) \in Nat
        /\ Cardinality(M \ Untold) <= Cardinality(Doomed)
    BY <1>t, <2>1, Counted, ConnsAre, NoMore
  <2>3. Cardinality(M) = Cardinality(Untold) + Cardinality(M \ Untold)
    <3>1. Cardinality(Untold \cup (M \ Untold))
            = Cardinality(Untold) + Cardinality(M \ Untold)
              - Cardinality(Untold \cap (M \ Untold))
      BY <2>2, FS_Union
    <3>2. Cardinality(Untold \cap (M \ Untold)) = 0
      BY <2>1, FS_EmptySet
    <3> QED BY <1>2, <2>1, <2>2, <3>1, <3>2
  <2>4. Cardinality(Doomed) + Cardinality(Late) + Cardinality(Pending) <= 3 * faults
    BY DEF HandshakeInv, CostInv
  <2> QED BY <1>2, <1>3, <2>2, <2>3, <2>4
<1> QED BY <1>4, <1>5 DEF ConnectionsSound

(* For any number of connections, HTTP calls and faults: the service       *)
(* element never has two attempts or connections that it has not been told *)
(* to be lost, but for one more with each reset of an HTTP connection that *)
(* nobody takes; and without such resets a broken link, a crash or a       *)
(* timeout of the control element makes it connect at most three times.    *)
(* The code has no limit that says so: RestartConnection starts a          *)
(* ConnectControlElement for each ConnectionReset, and the control element *)
(* closes connections that nothing was wrong with.                         *)
THEOREM ConnectionsAreSound == PeersSpec => []ConnectionsSound
BY SoundByInv, HandshakeInvAlways, PTL

-----------------------------------------------------------------------------
(* The run of MCConnection: in each part its specification holds, and so   *)
(* do its theorems.                                                        *)

LEMMA PartsBehave == PartsSpec => Spec /\ PeersSpec
<1>1. PartsInit => Init /\ PeersInit
  BY DEF PartsInit
<1>2. [PartsNext]_<<part, vars, peersVars, bound>>
        => [Next]_vars /\ [PeersNext]_<<peersVars, bound>>
  BY DEF PartsNext
<1> QED BY <1>1, <1>2, PTL DEF PartsSpec, Spec, PeersSpec

(* The types of both parts, as the run checks them, for any number of      *)
(* messages, connections, calls and faults.                                *)
THEOREM ConnectionPartsTyped == PartsSpec => []PartsTypeOK
<1>1. TypeOK /\ PeersTypeOK => PartsTypeOK
  BY DEF PartsTypeOK
<1> QED BY <1>1, PartsBehave, ProtocolTypeCorrect, PeersTypeCorrect, PTL

=============================================================================
