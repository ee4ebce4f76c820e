-------------------------- MODULE CollectorProofs --------------------------
(***************************************************************************)
(* No candle is lost or reordered between the websocket thread and SQLite, *)
(* and stop() leaves at most one behind: for every queue, batch size and   *)
(* number of messages.                                                     *)
(***************************************************************************)
EXTENDS Collector, SequenceTheorems, TLAPS

\* The websocket thread is inside its message handler, past the running check.
InHandler == wsPc \in {"upsert", "publish", "enqueue"}

\* What the handler in progress has done with its candle so far.
HandlerInv ==
  /\ InHandler => message.id \in Messages
  /\ wsPc \in {"publish", "enqueue"} => message.id \in stored
  /\ published \subseteq stored
  /\ published = dropped \cup {accepted[i] : i \in DOMAIN accepted}
                         \cup (IF wsPc = "enqueue" THEN {message.id} ELSE {})

\* The writer's batch is empty outside its inner loop, and a writer on its way
\* out saw the flag cleared, which nobody sets again: at most the handler that
\* passed its check before may still add a candle.
WriterInv ==
  /\ wsPc = "off" => writerPc = "off"
  /\ writerPc \notin {"pop", "save"} => batch = <<>>
  /\ writerPc \in {"checkEmpty", "done"} => ~running
  /\ writerPc = "done" => queue = <<>> \/ (Len(queue) = 1 /\ ~InHandler)

\* The inductive invariant.
CollectorInv == TypeOK /\ HandlerInv /\ WriterInv /\ NoneLostOrReordered

-----------------------------------------------------------------------------
(* Sequences *)

\* Handed is a sequence of candles as long as the history of saves.
LEMMA HandedIsSeq ==
  ASSUME TypeOK
  PROVE  Handed \in Seq(Messages) /\ Len(Handed) = Len(written)
<1>1. written \in [1 .. Len(written) -> Messages \X BOOLEAN] /\ Len(written) \in Nat
  BY LenProperties DEF TypeOK
<1>2. Handed \in [1 .. Len(written) -> Messages]
  BY <1>1 DEF Handed
<1> QED
  BY <1>1, <1>2 DEF Handed

\* The elements of a concatenation.
LEMMA ConcatAt ==
  ASSUME NEW S, NEW s \in Seq(S), NEW t \in Seq(S)
  PROVE  /\ s \o t \in Seq(S) /\ Len(s \o t) = Len(s) + Len(t)
         /\ \A i \in 1 .. Len(s) : (s \o t)[i] = s[i]
         /\ \A i \in 1 .. Len(t) : (s \o t)[Len(s) + i] = t[i]
OBVIOUS

\* The candles of a history of saves are those of the old one, f, and those of
\* the batch, whichever mark d gave them.
LEMMA SaveHands ==
  ASSUME NEW S, NEW w \in Seq(S \X BOOLEAN), NEW b \in Seq(S), NEW d \in Seq(S \X BOOLEAN),
         NEW f \in Seq(S), NEW g \in Seq(S)
  PROVE  /\ Len(d) = Len(b) /\ \A i \in 1 .. Len(b) : d[i][1] = b[i]
         /\ Len(f) = Len(w) /\ \A i \in 1 .. Len(w) : f[i] = w[i][1]
         /\ Len(g) = Len(w \o d) /\ \A i \in 1 .. Len(g) : g[i] = (w \o d)[i][1]
         => g = f \o b
<1>0. Len(w) \in Nat /\ Len(b) \in Nat
  BY LenProperties
<1>1. /\ Len(w \o d) = Len(w) + Len(d)
      /\ \A i \in 1 .. Len(w) : (w \o d)[i] = w[i]
      /\ \A i \in 1 .. Len(d) : (w \o d)[Len(w) + i] = d[i]
  BY ConcatAt
<1>2. /\ f \o b \in Seq(S) /\ Len(f \o b) = Len(f) + Len(b)
      /\ \A i \in 1 .. Len(f) : (f \o b)[i] = f[i]
      /\ \A i \in 1 .. Len(b) : (f \o b)[Len(f) + i] = b[i]
  OBVIOUS
<1> SUFFICES ASSUME Len(d) = Len(b), \A i \in 1 .. Len(b) : d[i][1] = b[i],
                    Len(f) = Len(w), \A i \in 1 .. Len(w) : f[i] = w[i][1],
                    Len(g) = Len(w \o d), \A i \in 1 .. Len(g) : g[i] = (w \o d)[i][1]
             PROVE  g = f \o b
  OBVIOUS
<1>3. ASSUME NEW i \in 1 .. Len(g) PROVE g[i] = (f \o b)[i]
  <2>1. CASE i \in 1 .. Len(w)
    <3>1. g[i] = w[i][1] /\ (f \o b)[i] = w[i][1]
      BY <1>1, <1>2, <2>1
    <3> QED
      BY <3>1
  <2>2. CASE i \notin 1 .. Len(w)
    <3>1. PICK j \in 1 .. Len(b) : i = Len(w) + j
      <4>1. i - Len(w) \in 1 .. Len(b) /\ i = Len(w) + (i - Len(w))
        BY <1>0, <1>1, <2>2
      <4> QED
        BY <4>1
    <3>2. (w \o d)[i] = d[j] /\ (f \o b)[i] = b[j]
      BY <1>1, <1>2, <3>1
    <3> QED
      BY <3>2
  <2> QED
    BY <2>1, <2>2
<1>4. Len(g) = Len(f \o b)
  BY <1>1, <1>2
<1> QED
  BY <1>2, <1>3, <1>4, SeqEqual, Zenon
\* Appending to the second of two sequences appends to both together.
LEMMA AppendBehind ==
  ASSUME NEW S, NEW s \in Seq(S), NEW q \in Seq(S), NEW e \in S
  PROVE  s \o Append(q, e) = Append(s \o q, e)
  OBVIOUS

\* Moving the first of a queue to the end of a batch leaves both together as
\* they were.
LEMMA PopKeepsOrder ==
  ASSUME TypeOK, queue # <<>>
  PROVE  Handed \o Append(batch, Head(queue)) \o Tail(queue) = Handed \o batch \o queue
<1>0. Handed \in Seq(Messages) /\ batch \in Seq(Messages) /\ queue \in Seq(Messages)
  BY HandedIsSeq DEF TypeOK
<1>1. PICK e, r : e = Head(queue) /\ r = Tail(queue)
  OBVIOUS
<1>2. e \in Messages /\ r \in Seq(Messages) /\ <<e>> \in Seq(Messages)
  BY <1>0, <1>1
<1>3. <<e>> \o r = queue
  BY <1>0, <1>1
<1>4. Append(batch, e) = batch \o <<e>> /\ batch \o <<e>> \in Seq(Messages)
  BY <1>0, <1>2, AppendIsConcat
<1>5. (Handed \o (batch \o <<e>>)) \o r = Handed \o ((batch \o <<e>>) \o r)
  <2>1. PICK b : b = batch \o <<e>>
    OBVIOUS
  <2>2. b \in Seq(Messages)
    BY <1>4, <2>1, Zenon
  <2>3. (Handed \o b) \o r = Handed \o (b \o r)
    BY <1>0, <1>2, <2>2, ConcatAssociative, SMTT(30)
  <2> QED
    BY <2>1, <2>3, Zenon
<1>6. (batch \o <<e>>) \o r = batch \o (<<e>> \o r)
  BY <1>0, <1>2, ConcatAssociative
<1>7. (Handed \o batch) \o queue = Handed \o (batch \o queue)
  BY <1>0, ConcatAssociative
<1> QED
  BY <1>1, <1>3, <1>4, <1>5, <1>6, <1>7

-----------------------------------------------------------------------------
(* The invariant *)

\* The handler's empty hand is a message.
LEMMA NoMessageType == NoMessage \in [id : 0 .. MaxMessages, kind : Kinds]
  BY CollectorAssumption DEF NoMessage, Kinds

\* A collector that was not started satisfies the invariant.
LEMMA InitCollectorInv == Init => CollectorInv
<1> SUFFICES ASSUME Init PROVE CollectorInv
  OBVIOUS
<1> USE CollectorAssumption DEF Init
<1>1. TypeOK
  <2>1. <<>> \in Seq(Messages) /\ <<>> \in Seq(Messages \X BOOLEAN) /\ Len(<<>>) = 0
    BY EmptySeq
  <2>2. message \in [id : 0 .. MaxMessages, kind : Kinds] /\ received \in 0 .. MaxMessages
    BY NoMessageType
  <2>3. Len(queue) <= QueueCapacity /\ Len(batch) <= BatchSize
    BY <2>1
  <2> QED
    BY <2>1, <2>2, <2>3, Zenon DEF TypeOK
<1>2. HandlerInv /\ WriterInv
  BY DEF HandlerInv, WriterInv, InHandler
<1>3. NoneLostOrReordered
  BY DEF NoneLostOrReordered, Handed
<1> QED
  BY <1>1, <1>2, <1>3 DEF CollectorInv

\* Steps that move only flags, program counters and the message in hand.
LEMMA ControlStep ==
  ASSUME CollectorInv,
         \/ start \/ StopBegin \/ Stop \/ WsConnect \/ WsReturn \/ WsExit \/ WsOpen \/ WsLost
         \/ (\E kind \in Kinds : HandlerBegin(kind))
         \/ WriterCheckRunning \/ WriterCheckEmpty \/ WriterWait \/ UNCHANGED vars
  PROVE  CollectorInv'
<1> USE CollectorAssumption
<1>1. UNCHANGED <<queue, batch, written, accepted, stored, published, dropped>>
  BY DEF start, StopBegin, Stop, StopHalt, StopJoinWs, StopJoinWriter, WsConnect, WsReturn, WsExit,
     WsOpen, WsLost, HandlerBegin, WriterCheckRunning, WriterCheckEmpty, WriterWait, wsVars,
     writerVars, vars
<1>2. NoneLostOrReordered'
  BY <1>1 DEF CollectorInv, NoneLostOrReordered, Handed
<1>3. TypeOK'
  <2>1. ASSUME NEW kind \in Kinds, HandlerBegin(kind) PROVE TypeOK'
    <3>1. received' \in 0 .. MaxMessages /\ message' \in [id : 0 .. MaxMessages, kind : Kinds]
      BY <2>1 DEF HandlerBegin, CollectorInv, TypeOK
    <3> QED
      BY <1>1, <2>1, <3>1 DEF HandlerBegin, CollectorInv, TypeOK, writerVars
  <2>2. CASE UNCHANGED <<message, received>>
    <3>1. /\ wsPc' \in {wsPc, "connect", "dispatch", "upsert", "returned", "done"}
          /\ writerPc' \in {writerPc, "check", "checkEmpty", "pop", "done"}
          /\ stopPc' \in {stopPc, "halt", "joinWs", "joinWriter", "done"}
          /\ connection' \in {connection, "open", "closed"}
          /\ running' \in {running, TRUE, FALSE} /\ halted' \in {halted, TRUE}
      BY DEF start, StopBegin, Stop, StopHalt, StopJoinWs,
         StopJoinWriter, WsConnect, WsReturn, WsExit, WsOpen, WsLost, HandlerBegin, WriterCheckRunning,
         WriterCheckEmpty, WriterWait, wsVars, writerVars, vars
    <3> QED
      <4>1. /\ running' \in BOOLEAN /\ halted' \in BOOLEAN
            /\ connection' \in {"none", "open", "closed"}
        BY <3>1 DEF CollectorInv, TypeOK
      <4>2. wsPc' \in {"off", "connect", "dispatch", "upsert", "publish", "enqueue", "returned", "done"}
        BY <3>1 DEF CollectorInv, TypeOK
      <4>3. /\ writerPc' \in {"off", "check", "checkEmpty", "pop", "wait", "save", "done"}
            /\ stopPc' \in {"idle", "halt", "joinWs", "joinWriter", "done"}
        BY <3>1 DEF CollectorInv, TypeOK
      <4> QED
        BY <1>1, <2>2, <4>1, <4>2, <4>3 DEF CollectorInv, TypeOK
  <2> QED
    BY <2>1, <2>2 DEF start, StopBegin, Stop, StopHalt, StopJoinWs, StopJoinWriter, WsConnect,
       WsReturn, WsExit, WsOpen, WsLost, WriterCheckRunning, WriterCheckEmpty, WriterWait, wsVars, vars
<1>4. HandlerInv'
  BY <1>1 DEF CollectorInv, TypeOK, HandlerInv, InHandler, Messages, start, StopBegin, Stop,
     StopHalt, StopJoinWs, StopJoinWriter, WsConnect, WsReturn, WsExit, WsOpen, WsLost,
     HandlerBegin, WriterCheckRunning, WriterCheckEmpty, WriterWait, wsVars, writerVars, vars
<1>5. WriterInv'
  BY <1>1 DEF CollectorInv, TypeOK, WriterInv, InHandler, start, StopBegin, Stop,
     StopHalt, StopJoinWs, StopJoinWriter, WsConnect, WsReturn, WsExit, WsOpen, WsLost,
     HandlerBegin, WriterCheckRunning, WriterCheckEmpty, WriterWait, wsVars, writerVars, vars
<1> QED
  BY <1>2, <1>3, <1>4, <1>5 DEF CollectorInv

\* The message handler accounts for its candle.
LEMMA HandlerStep ==
  ASSUME CollectorInv, Handler PROVE CollectorInv'
<1> USE CollectorAssumption DEF CollectorInv
<1>1. CASE HandlerUpsert
  <2>1. NoneLostOrReordered'
    BY <1>1 DEF HandlerUpsert, NoneLostOrReordered, Handed, writerVars
  <2>2. TypeOK' /\ WriterInv'
    BY <1>1, NoMessageType DEF HandlerUpsert, TypeOK, HandlerInv, WriterInv, InHandler, writerVars
  <2>3. HandlerInv'
    BY <1>1 DEF HandlerUpsert, HandlerInv, InHandler, writerVars
  <2> QED
    BY <2>1, <2>2, <2>3
<1>2. CASE HandlerPublish
  <2>1. NoneLostOrReordered'
    BY <1>2 DEF HandlerPublish, NoneLostOrReordered, Handed, writerVars
  <2>2. TypeOK' /\ WriterInv'
    BY <1>2 DEF HandlerPublish, TypeOK, HandlerInv, WriterInv, InHandler, writerVars
  <2>3. HandlerInv'
    BY <1>2 DEF HandlerPublish, HandlerInv, InHandler, writerVars
  <2> QED
    BY <2>1, <2>2, <2>3
<1>3. CASE try_enqueue
  <2>1. message.id \in Messages
    BY <1>3 DEF try_enqueue, HandlerInv, InHandler
  <2>2. CASE Len(queue) < QueueCapacity
    <3>1. queue' = Append(queue, message.id) /\ accepted' = Append(accepted, message.id)
          /\ UNCHANGED <<batch, written, dropped, stored, published>>
      BY <1>3, <2>2 DEF try_enqueue, writerVars
    <3>2. TypeOK'
      <4>1. queue' \in Seq(Messages) /\ Len(queue') <= QueueCapacity /\ accepted' \in Seq(Messages)
        BY <2>1, <2>2, <3>1 DEF TypeOK
      <4> QED
        BY <1>3, <2>2, <4>1, NoMessageType DEF try_enqueue, TypeOK, writerVars
    <3>3. WriterInv'
      BY <1>3, <2>1, <2>2 DEF try_enqueue, TypeOK, WriterInv, InHandler, writerVars
    <3>4. HandlerInv'
      <4>1. {accepted'[i] : i \in DOMAIN accepted'} = {accepted[i] : i \in DOMAIN accepted} \cup {message.id}
        <5>1. DOMAIN accepted = 1 .. Len(accepted) /\ Len(accepted) \in Nat
              /\ DOMAIN accepted' = 1 .. Len(accepted) + 1
              /\ accepted'[Len(accepted) + 1] = message.id
              /\ \A i \in 1 .. Len(accepted) : accepted'[i] = accepted[i]
          BY <2>1, <3>1 DEF TypeOK
        <5>2. 1 .. Len(accepted) + 1 = 1 .. Len(accepted) \cup {Len(accepted) + 1}
          BY <5>1
        <5> QED
          BY <5>1, <5>2
      <4> QED
        BY <1>3, <3>1, <4>1 DEF try_enqueue, HandlerInv, InHandler
    <3>5. NoneLostOrReordered'
      <4>1. Handed' = Handed /\ Handed \o batch \in Seq(Messages)
        BY <3>1, HandedIsSeq DEF Handed, TypeOK
      <4>2. queue \in Seq(Messages)
        BY DEF TypeOK
      <4>3. (Handed \o batch) \o Append(queue, message.id) = Append((Handed \o batch) \o queue, message.id)
        <5>1. PICK h : h = Handed \o batch
          OBVIOUS
        <5>2. h \o Append(queue, message.id) = Append(h \o queue, message.id)
          BY <2>1, <4>1, <4>2, <5>1, AppendBehind
        <5> QED
          BY <5>1, <5>2, Zenon
      <4> QED
        BY <3>1, <4>1, <4>3 DEF NoneLostOrReordered
    <3> QED
      BY <3>2, <3>3, <3>4, <3>5
  <2>3. CASE ~(Len(queue) < QueueCapacity)
    <3>1. dropped' = dropped \cup {message.id}
          /\ UNCHANGED <<queue, accepted, batch, written, stored, published>>
      BY <1>3, <2>3 DEF try_enqueue, writerVars
    <3>2. TypeOK'
      BY <1>3, <2>1, <2>3, <3>1, NoMessageType DEF try_enqueue, TypeOK, writerVars
    <3>3. WriterInv'
      BY <1>3, <3>1 DEF try_enqueue, TypeOK, WriterInv, InHandler, writerVars
    <3>4. HandlerInv'
      BY <1>3, <3>1 DEF try_enqueue, HandlerInv, InHandler
    <3>5. NoneLostOrReordered'
      BY <3>1 DEF NoneLostOrReordered, Handed
    <3> QED
      BY <3>2, <3>3, <3>4, <3>5
  <2> QED
    BY <2>2, <2>3
<1> QED
  BY <1>1, <1>2, <1>3 DEF Handler

\* The writer moves candles from the queue over its batch to SQLite, in order.
LEMMA WriterStep ==
  ASSUME CollectorInv, WriterPop \/ WriterSave PROVE CollectorInv'
<1> USE CollectorAssumption DEF CollectorInv
<1>0. Handed \in Seq(Messages) /\ batch \in Seq(Messages) /\ queue \in Seq(Messages)
  BY HandedIsSeq DEF TypeOK
<1>1. CASE WriterPop /\ Len(batch) < BatchSize /\ queue # <<>>
  <2>1. TypeOK' /\ WriterInv'
    <3>1. /\ queue' \in Seq(Messages) /\ Len(queue') <= Len(queue)
          /\ batch' \in Seq(Messages) /\ Len(batch') <= BatchSize
      <4>1. Head(queue) \in Messages /\ Tail(queue) \in Seq(Messages) /\ Len(Tail(queue)) <= Len(queue)
        BY <1>0, <1>1
      <4>2. Append(batch, Head(queue)) \in Seq(Messages) /\ Len(Append(batch, Head(queue))) <= BatchSize
        BY <1>0, <1>1, <4>1
      <4> QED
        BY <1>1, <4>1, <4>2 DEF WriterPop
    <3> QED
      BY <1>1, <3>1 DEF WriterPop, TypeOK, WriterInv, InHandler, wsVars
  <2>2. HandlerInv'
    BY <1>1 DEF WriterPop, HandlerInv, InHandler, wsVars
  <2>3. NoneLostOrReordered'
    <3>1. Handed' = Handed
      BY <1>1 DEF WriterPop, Handed
    <3>2. Handed \o Append(batch, Head(queue)) \o Tail(queue) = Handed \o batch \o queue
      BY <1>1, PopKeepsOrder
    <3> QED
      BY <1>1, <3>1, <3>2 DEF WriterPop, NoneLostOrReordered
  <2> QED
    BY <2>1, <2>2, <2>3
<1>2. CASE WriterPop /\ ~(Len(batch) < BatchSize /\ queue # <<>>)
  <2>1. TypeOK' /\ WriterInv'
    BY <1>2 DEF WriterPop, TypeOK, WriterInv, InHandler, wsVars
  <2>2. HandlerInv' /\ NoneLostOrReordered'
    BY <1>2 DEF WriterPop, HandlerInv, InHandler, NoneLostOrReordered, Handed, wsVars
  <2> QED
    BY <2>1, <2>2
<1>3. CASE WriterSave
  <2>1. PICK c \in BOOLEAN : written' = written \o [i \in DOMAIN batch |-> <<batch[i], c>>]
    BY <1>3 DEF WriterSave
  <2>2. PICK d : d = [i \in DOMAIN batch |-> <<batch[i], c>>]
    OBVIOUS
  <2>3. d \in Seq(Messages \X BOOLEAN) /\ Len(d) = Len(batch) /\ \A i \in 1 .. Len(batch) : d[i][1] = batch[i]
    <3>1. DOMAIN batch = 1 .. Len(batch) /\ Len(batch) \in Nat
          /\ \A i \in 1 .. Len(batch) : batch[i] \in Messages
      BY <1>0
    <3>2. d = [i \in 1 .. Len(batch) |-> <<batch[i], c>>]
      BY <2>2, <3>1
    <3>3. \A i \in 1 .. Len(batch) : d[i] = <<batch[i], c>>
      BY <3>2
    <3>4. ASSUME NEW i \in 1 .. Len(batch)
          PROVE  d[i][1] = batch[i] /\ d[i] \in Messages \X BOOLEAN
      <4>1. batch[i] \in Messages /\ d[i] = <<batch[i], c>>
        BY <3>1, <3>3, Zenon
      <4>2. <<batch[i], c>>[1] = batch[i]
        OBVIOUS
      <4>3. <<batch[i], c>> \in Messages \X BOOLEAN
        BY <4>1
      <4> QED
        BY <4>1, <4>2, <4>3, Zenon
    <3> QED
      BY <3>1, <3>2, <3>4
  <2>4. written' = written \o d /\ batch' = <<>> /\ written' \in Seq(Messages \X BOOLEAN)
    <3>1. written \o d \in Seq(Messages \X BOOLEAN)
      BY <2>3, ConcatAt DEF TypeOK
    <3> QED
      BY <1>3, <2>1, <2>2, <3>1 DEF WriterSave
  <2>5. TypeOK' /\ WriterInv'
    BY <1>3, <2>4 DEF WriterSave, TypeOK, WriterInv, InHandler, wsVars
  <2>6. HandlerInv'
    BY <1>3 DEF WriterSave, HandlerInv, InHandler, wsVars
  <2>7. NoneLostOrReordered'
    <3>1. Handed' \in Seq(Messages) /\ Len(Handed') = Len(written \o d)
          /\ \A i \in 1 .. Len(Handed') : Handed'[i] = (written \o d)[i][1]
      BY <2>4 DEF Handed
    <3>2. Len(Handed) = Len(written) /\ \A i \in 1 .. Len(written) : Handed[i] = written[i][1]
      BY HandedIsSeq DEF Handed, TypeOK
    <3>3. Handed' = Handed \o batch
      <4>1. written \in Seq(Messages \X BOOLEAN)
        BY DEF TypeOK
      <4>2. PICK f, g, b, w : f = Handed /\ g = Handed' /\ b = batch /\ w = written
        OBVIOUS
      <4>3. /\ f \in Seq(Messages) /\ g \in Seq(Messages) /\ b \in Seq(Messages)
            /\ w \in Seq(Messages \X BOOLEAN) /\ d \in Seq(Messages \X BOOLEAN)
        BY <1>0, <2>3, <3>1, <4>1, <4>2, Zenon
      <4>4. /\ Len(d) = Len(b) /\ \A i \in 1 .. Len(b) : d[i][1] = b[i]
            /\ Len(f) = Len(w) /\ \A i \in 1 .. Len(w) : f[i] = w[i][1]
            /\ Len(g) = Len(w \o d) /\ \A i \in 1 .. Len(g) : g[i] = (w \o d)[i][1]
        BY <2>3, <3>1, <3>2, <4>2, Zenon
      <4>5. g = f \o b
        BY <4>3, <4>4, SaveHands, Zenon
      <4> QED
        BY <4>2, <4>5, Zenon
    <3>4. Handed \o batch \in Seq(Messages)
      BY <1>0
    <3>5. Handed' \o batch' \o queue' = Handed \o batch \o queue
      BY <1>3, <2>4, <3>3, <3>4 DEF WriterSave
    <3> QED
      BY <1>3, <3>5 DEF WriterSave, NoneLostOrReordered
  <2> QED
    BY <2>5, <2>6, <2>7
<1> QED
  BY <1>1, <1>2, <1>3

\* Every step of the three threads keeps the invariant.
LEMMA NextCollectorInv == CollectorInv /\ [Next]_vars => CollectorInv'
<1> SUFFICES ASSUME CollectorInv, [Next]_vars PROVE CollectorInv'
  OBVIOUS
<1> QED
  BY ControlStep, HandlerStep, WriterStep DEF Next, WsThread, WriterThread, Terminated

\* The inductive invariant holds in every reachable state.
LEMMA SpecCollectorInv == Spec => []CollectorInv
  BY InitCollectorInv, NextCollectorInv, PTL DEF Spec

\* Every candle the queue accepted is handed to SQLite once and in order, or is
\* still on its way: no interleaving of handler, writer and stop() loses one.
THEOREM CandlesStayInOrder == Spec => []NoneLostOrReordered
<1>1. CollectorInv => NoneLostOrReordered
  BY DEF CollectorInv
<1> QED
  BY <1>1, SpecCollectorInv, PTL

\* A closed candle is in the store before subscribers hear of it, and is queued
\* or counted as dropped when its handler ends.
THEOREM PublishedAlwaysAccounted == Spec => []PublishedIsAccounted
<1>1. CollectorInv => PublishedIsAccounted
  BY DEF CollectorInv, HandlerInv, PublishedIsAccounted
<1> QED
  BY <1>1, SpecCollectorInv, PTL

\* A writer that has left wrote its batch and leaves at most one candle queued.
THEOREM StopStrandsAtMostOne == Spec => []AtMostOneStranded
<1>1. CollectorInv => AtMostOneStranded
  <2> SUFFICES ASSUME CollectorInv, writerPc = "done" PROVE batch = <<>> /\ Len(queue) <= 1
    BY DEF AtMostOneStranded
  <2>1. batch = <<>> /\ (queue = <<>> \/ Len(queue) = 1)
    BY DEF CollectorInv, WriterInv
  <2>2. Len(<<>>) = 0
    OBVIOUS
  <2>3. CASE queue = <<>>
    BY <2>1, <2>2, <2>3
  <2>4. CASE Len(queue) = 1
    BY <2>1, <2>4
  <2> QED
    BY <2>1, <2>3, <2>4
<1> QED
  BY <1>1, SpecCollectorInv, PTL
=============================================================================
