------------------------- MODULE TradeEngineProofs -------------------------
(***************************************************************************)
(* The trade engine's queue, books, exit levels and shutdown, for every    *)
(* set of prices, every configuration of costs and levels and every queue. *)
(***************************************************************************)
EXTENDS TradeEngine, TLAPS

Events == [n : Nat, price : Nat]
Positions == [open : BOOLEAN, entry : Int, highest : Int, stop : Int, target : Int]

EngineTypeOK ==
  /\ queue \in Seq(Events) /\ received \in Nat /\ event \in Events
  /\ position \in Positions /\ total \in Int /\ counted \in Nat /\ completed \in Seq(Int)

\* f adds up the sequence s; the books are right when every such f ends in the
\* total.  Append extends every f by one value, so this is inductive where the
\* sum itself would need an induction over the sequence.
AddsUp(f, s) == f = [i \in 0 .. Len(s) |-> IF i = 0 THEN 0 ELSE f[i - 1] + s[i]]
Booked ==
  /\ \E f : AddsUp(f, completed)
  /\ \A f : AddsUp(f, completed) => f[Len(completed)] = total

\* Either the books are right, or the last save threw and the engine is leaving.
BooksInv ==
  \/ counted = Len(completed) /\ Booked
  \/ counted = Len(completed) + 1 /\ position.open /\ trader \in {"catch", "exited"}

\* The stop is the trailed one, or still the initial one.
LevelsInv ==
  \/ Trail = 0
  \/ position.stop = position.highest - Trail
  \/ position.highest = position.entry /\ position.stop = position.entry - StopLoss

\* Orders fit the position.
PositionInv ==
  /\ trader \in {"closing", "sold"} => position.open
  /\ trader \in {"entry", "buying", "bought"} => ~position.open
  /\ position.open => LevelsInv

\* A request that is pending while there is, or may soon be, a position was made
\* for that position or found none.
RequestInv ==
  /\ manualClose /\ (position.open \/ trader \in {"entry", "buying", "bought"})
       /\ trader \notin {"catch", "exited"} => requested \in {0, counted + 1}
  /\ RequestEndsItsPosition

\* A stop() that found the engine running keeps it from ever running again, and
\* a venue started after it was stopped meets a trader that only leaves.
StopInv ==
  /\ running => trader # "created"
  /\ stopper \in {"feed", "venue", "notify", "returned", "threw"} => ~running /\ trader # "created"
  /\ stopper \in {"notify", "returned"} => ~venue \/ trader \in {"loop", "finish", "exited"}

\* The inductive invariant.
EngineInv ==
  /\ EngineTypeOK /\ QueueKeepsNewest /\ BooksInv /\ PositionInv /\ RequestInv /\ StopInv

-----------------------------------------------------------------------------
(* The sum of a sequence *)

\* Adding a value to a summed sequence adds it to the sum.
LEMMA AddsUpAppend ==
  ASSUME NEW s \in Seq(Int), NEW v \in Int, NEW t \in Int,
         \E f : AddsUp(f, s), \A f : AddsUp(f, s) => f[Len(s)] = t
  PROVE  /\ \E g : AddsUp(g, Append(s, v))
         /\ \A g : AddsUp(g, Append(s, v)) => g[Len(Append(s, v))] = t + v
<1>1. Len(s) \in Nat /\ Len(Append(s, v)) = Len(s) + 1
  OBVIOUS
<1>2. /\ \A i \in 1 .. Len(s) : Append(s, v)[i] = s[i]
      /\ Append(s, v)[Len(s) + 1] = v
  OBVIOUS
<1>3. PICK n \in Nat : n = Len(s)
  BY <1>1
<1>4. PICK r : r = Append(s, v)
  OBVIOUS
<1>5. Len(r) = n + 1 /\ (\A i \in 1 .. n : r[i] = s[i]) /\ r[n + 1] = v
  BY <1>1, <1>2, <1>3, <1>4
<1>6. \E g : AddsUp(g, r)
  <2>1. PICK f : AddsUp(f, s)
    OBVIOUS
  <2>2. f = [i \in 0 .. n |-> IF i = 0 THEN 0 ELSE f[i - 1] + s[i]]
    BY <2>1, <1>3 DEF AddsUp
  <2>3. PICK g : g = [i \in 0 .. n + 1 |-> IF i <= n THEN f[i] ELSE f[n] + v]
    OBVIOUS
  <2>4. ASSUME NEW i \in 0 .. n + 1
        PROVE  g[i] = IF i = 0 THEN 0 ELSE g[i - 1] + r[i]
    <3>1. CASE i = 0
      BY <3>1, <2>2, <2>3
    <3>2. CASE i \in 1 .. n
      <4>1. i - 1 \in 0 .. n + 1 /\ i - 1 <= n /\ i \in 0 .. n /\ i # 0 /\ i <= n
        BY <3>2
      <4>2. f[i] = f[i - 1] + s[i]
        BY <4>1, <2>2
      <4>3. g[i] = f[i] /\ g[i - 1] = f[i - 1]
        BY <4>1, <2>3
      <4> QED
        BY <4>1, <4>2, <4>3, <1>5, <3>2
    <3>3. CASE i = n + 1
      <4>1. n \in 0 .. n + 1 /\ n + 1 \in 0 .. n + 1 /\ ~(n + 1 <= n) /\ i - 1 = n /\ i # 0
        BY <3>3
      <4> QED
        BY <4>1, <2>3, <1>5, <3>3
    <3> QED
      BY <3>1, <3>2, <3>3
  <2>5. g = [i \in 0 .. n + 1 |-> IF i = 0 THEN 0 ELSE g[i - 1] + r[i]]
    BY <2>3, <2>4
  <2>6. g = [i \in 0 .. Len(r) |-> IF i = 0 THEN 0 ELSE g[i - 1] + r[i]]
    BY <2>5, <1>5
  <2> QED
    BY <2>6, Zenon DEF AddsUp
<1>7. ASSUME NEW g, AddsUp(g, r)
      PROVE  g[n + 1] = t + v
  <2>1. g = [i \in 0 .. n + 1 |-> IF i = 0 THEN 0 ELSE g[i - 1] + r[i]]
    BY <1>7, <1>5 DEF AddsUp
  <2>2. PICK f : f = [i \in 0 .. n |-> g[i]]
    OBVIOUS
  <2>3. ASSUME NEW i \in 0 .. n
        PROVE  f[i] = IF i = 0 THEN 0 ELSE f[i - 1] + s[i]
    <3>1. CASE i = 0
      BY <3>1, <2>1, <2>2
    <3>2. CASE i \in 1 .. n
      <4>1. i - 1 \in 0 .. n /\ i \in 0 .. n + 1 /\ i # 0
        BY <3>2
      <4>2. g[i] = g[i - 1] + r[i]
        BY <4>1, <2>1
      <4>3. f[i] = g[i] /\ f[i - 1] = g[i - 1]
        BY <4>1, <2>2
      <4> QED
        BY <4>1, <4>2, <4>3, <1>5, <3>2
    <3> QED
      BY <3>1, <3>2
  <2>4. f = [i \in 0 .. n |-> IF i = 0 THEN 0 ELSE f[i - 1] + s[i]]
    BY <2>2, <2>3
  <2>5. f[n] = t
    BY <2>4, <1>3 DEF AddsUp
  <2> QED
    BY <2>1, <2>2, <2>5, <1>3, <1>5
<1> QED
  BY <1>4, <1>5, <1>6, <1>7

\* The inductive form of the books says what Sum says.
LEMMA BookedIsSum == Booked => total = Sum(completed)
<1> SUFFICES ASSUME Booked PROVE total = Sum(completed)
  OBVIOUS
<1>1. PICK g : g = CHOOSE h : AddsUp(h, completed)
  OBVIOUS
<1>2. AddsUp(g, completed)
  BY <1>1 DEF Booked
<1>3. Sum(completed) = g[Len(completed)]
  BY <1>1 DEF Sum, AddsUp
<1> QED
  BY <1>2, <1>3 DEF Booked

-----------------------------------------------------------------------------
(* The inductive invariant *)

LEMMA InitEngineInv == Init => EngineInv
<1> SUFFICES ASSUME Init PROVE EngineInv
  OBVIOUS
<1> USE DEF Init, Flat, NoEvent
<1>1. EngineTypeOK
  BY DEF EngineTypeOK, Events, Positions
<1>2. Len(<<>>) = 0
  OBVIOUS
<1>3. QueueKeepsNewest
  BY <1>2, EngineAssumption DEF QueueKeepsNewest
<1>4. Booked
  <2>1. PICK f : f = [i \in 0 .. 0 |-> 0]
    OBVIOUS
  <2>2. f = [i \in 0 .. 0 |-> IF i = 0 THEN 0 ELSE f[i - 1] + completed[i]]
    BY <2>1
  <2>3. \E g : AddsUp(g, completed)
    BY <2>2, <1>2 DEF AddsUp
  <2>4. ASSUME NEW g, AddsUp(g, completed) PROVE g[0] = 0
    BY <2>4, <1>2 DEF AddsUp
  <2> QED
    BY <2>3, <2>4, <1>2 DEF Booked
<1>5. BooksInv
  BY <1>2, <1>4 DEF BooksInv
<1>6. PositionInv /\ RequestInv /\ StopInv
  BY DEF PositionInv, RequestInv, StopInv, RequestEndsItsPosition
<1> QED
  BY <1>1, <1>3, <1>5, <1>6 DEF EngineInv

\* What every action but the named ones leaves alone.
LEMMA StepFrame ==
  ASSUME [Next]_vars
  PROVE  /\ UNCHANGED <<queue, received, event>> \/ RunTake \/ Enqueue
         /\ UNCHANGED position \/ EvaluateOpen \/ OpenPosition \/ close_position
         /\ UNCHANGED <<total, counted, completed>> \/ close_position
         /\ UNCHANGED venue \/ RunInit \/ RunCatch \/ RunFinish \/ StopVenue
<1>1. CASE UNCHANGED vars
  BY <1>1 DEF vars
<1>2. CASE RunBegin \/ RunInit \/ RunLoop \/ RunTake \/ RunBlock \/ RunCatch \/ RunFinish
  BY <1>2 DEF RunBegin, RunInit, RunLoop, RunTake, RunBlock, RunCatch, RunFinish,
              queueVars, tradeVars
<1>3. CASE ProcessStale \/ EvaluateOpen \/ EvaluateFlat \/ EvaluateEntry
             \/ Buy \/ OpenPosition \/ Sell \/ close_position
  BY <1>3 DEF ProcessStale, EvaluateOpen, EvaluateFlat, EvaluateEntry, Buy, OpenPosition, Sell,
              close_position,
              queueVars, tradeVars
<1>4. CASE SpuriousWake \/ FeedReceive \/ Enqueue \/ StopBegin \/ StopStep
  BY <1>4 DEF SpuriousWake, FeedReceive, Enqueue, enqueue_price, StopBegin, StopStep, StopFeed,
              StopVenue, StopNotify, queueVars, tradeVars
<1>5. CASE request_manual_close \/ pause_entries
  BY <1>5 DEF request_manual_close, pause_entries, queueVars, tradeVars
<1> QED
  BY <1>1, <1>2, <1>3, <1>4, <1>5 DEF Next, TraderStep

\* A trader that is leaving touches nothing any more.
LEMMA LeavingStays ==
  ASSUME [Next]_vars, trader \in {"catch", "exited"}
  PROVE  /\ trader' \in {"catch", "exited"}
         /\ UNCHANGED <<position, total, counted, completed, event, reason>>
<1>1. CASE UNCHANGED vars
  BY <1>1 DEF vars
<1>2. CASE RunBegin \/ RunInit \/ RunLoop \/ RunTake \/ RunBlock \/ RunCatch \/ RunFinish
  BY <1>2 DEF RunBegin, RunInit, RunLoop, RunTake, RunBlock, RunCatch, RunFinish, tradeVars
<1>3. CASE ProcessStale \/ EvaluateOpen \/ EvaluateFlat \/ EvaluateEntry
             \/ Buy \/ OpenPosition \/ Sell \/ close_position
  BY <1>3 DEF ProcessStale, EvaluateOpen, EvaluateFlat, EvaluateEntry, Buy, OpenPosition, Sell,
              close_position, tradeVars
<1>4. CASE SpuriousWake \/ FeedReceive \/ Enqueue \/ StopBegin \/ StopStep
  BY <1>4 DEF SpuriousWake, FeedReceive, Enqueue, enqueue_price, Notified, StopBegin, StopStep,
              StopFeed, StopVenue, StopNotify, tradeVars
<1>5. CASE request_manual_close \/ pause_entries
  BY <1>5 DEF request_manual_close, pause_entries, tradeVars
<1> QED
  BY <1>1, <1>2, <1>3, <1>4, <1>5 DEF Next, TraderStep

LEMMA FillIsInt ==
  ASSUME EngineTypeOK, NEW side
  PROVE  FilledAt(side) \in Int
BY EngineAssumption DEF EngineTypeOK, Events, FilledAt

\* The position that a filled buy opens.
Opened == [open |-> TRUE, entry |-> FilledAt("buy"), highest |-> FilledAt("buy"),
           stop |-> FilledAt("buy") - StopLoss, target |-> FilledAt("buy") + TakeProfit]

\* A new high moves the highest price, and the stop when it trails.
Trailed ==
  /\ event.price > position.highest
  /\ position' = [position EXCEPT !.highest = event.price,
                                  !.stop = IF Trail > 0 THEN event.price - Trail ELSE @]

LEMMA OpenMoves ==
  ASSUME position \in Positions, EvaluateOpen
  PROVE  UNCHANGED position \/ Trailed
<1>1. CASE manualClose
  BY <1>1 DEF EvaluateOpen
<1>2. CASE ~manualClose /\ event.price > position.highest
  BY <1>2 DEF EvaluateOpen, Trailed, Positions
<1>3. CASE ~manualClose /\ ~(event.price > position.highest)
  <2>1. position' = [position EXCEPT !.highest = position.highest, !.stop = position.stop]
    BY <1>3 DEF EvaluateOpen, Positions
  <2> QED
    BY <2>1 DEF Positions
<1> QED
  BY <1>1, <1>2, <1>3

LEMMA QueueKept == EngineInv /\ [Next]_vars =>
  /\ (queue \in Seq(Events) /\ received \in Nat /\ event \in Events)'
  /\ QueueKeepsNewest'
<1> SUFFICES ASSUME EngineInv, [Next]_vars
             PROVE  /\ (queue \in Seq(Events) /\ received \in Nat /\ event \in Events)'
                    /\ QueueKeepsNewest'
  OBVIOUS
<1>1. queue \in Seq(Events) /\ received \in Nat /\ event \in Events
  BY DEF EngineInv, EngineTypeOK
<1>2. /\ Len(queue) <= QueueSize
      /\ \A k \in 1 .. Len(queue) : queue[k].n = received - Len(queue) + k
      /\ event.n <= received - Len(queue)
  BY DEF EngineInv, QueueKeepsNewest
<1>3. CASE UNCHANGED <<queue, received, event>>
  BY <1>1, <1>2, <1>3 DEF QueueKeepsNewest
<1>4. CASE RunTake /\ queue # <<>>
  <2>1. event' = Head(queue) /\ queue' = Tail(queue) /\ received' = received
    BY <1>4 DEF RunTake
  <2>2. /\ Head(queue) \in Events /\ Head(queue) = queue[1] /\ Len(queue) \in Nat \ {0}
        /\ Tail(queue) \in Seq(Events) /\ Len(Tail(queue)) = Len(queue) - 1
    BY <1>1, <1>4
  <2>3. \A k \in 1 .. Len(queue) - 1 : Tail(queue)[k] = queue[k + 1]
    BY <1>1, <1>4
  <2>4. queue[1].n = received - Len(queue) + 1
    BY <1>2, <2>2
  <2>5. \A k \in 1 .. Len(queue) - 1 : Tail(queue)[k].n = received - (Len(queue) - 1) + k
    BY <1>1, <1>2, <2>2, <2>3
  <2> QED
    BY <1>1, <1>2, <2>1, <2>2, <2>4, <2>5, EngineAssumption DEF QueueKeepsNewest
<1>5. CASE RunTake /\ queue = <<>>
  <2>1. UNCHANGED <<queue, received, event>>
    BY <1>5 DEF RunTake
  <2> QED
    BY <2>1, <1>3
<1>6. ASSUME NEW p \in Prices, enqueue_price(p)
      PROVE  /\ (queue \in Seq(Events) /\ received \in Nat /\ event \in Events)'
             /\ QueueKeepsNewest'
  <2>1. PICK e : e = [n |-> received + 1, price |-> p]
    OBVIOUS
  <2>2. e \in Events /\ e.n = received + 1
    BY <2>1, <1>1, EngineAssumption DEF Events
  <2>3. PICK kept : kept = IF Len(queue) >= QueueSize THEN Tail(queue) ELSE queue
    OBVIOUS
  <2>4. queue' = Append(kept, e) /\ received' = received + 1 /\ event' = event
    BY <1>6, <2>1, <2>3 DEF enqueue_price
  <2>5. /\ kept \in Seq(Events) /\ Len(kept) < QueueSize /\ Len(kept) <= Len(queue)
        /\ \A k \in 1 .. Len(kept) : kept[k].n = received - Len(kept) + k
    <3>1. CASE Len(queue) >= QueueSize
      <4>1. Len(queue) = QueueSize /\ queue # <<>> /\ Len(queue) \in Nat \ {0}
        BY <3>1, <1>1, <1>2, EngineAssumption
      <4>2. Tail(queue) \in Seq(Events) /\ Len(Tail(queue)) = Len(queue) - 1
        BY <4>1, <1>1
      <4>3. \A k \in 1 .. Len(queue) - 1 : Tail(queue)[k] = queue[k + 1]
        BY <4>1, <1>1
      <4>4. \A k \in 1 .. Len(queue) - 1 : Tail(queue)[k].n = received - (Len(queue) - 1) + k
        BY <1>1, <1>2, <4>1, <4>3
      <4> QED
        BY <2>3, <3>1, <4>1, <4>2, <4>4
    <3>2. CASE ~(Len(queue) >= QueueSize)
      BY <2>3, <3>2, <1>1, <1>2, EngineAssumption
    <3> QED
      BY <3>1, <3>2
  <2>6. /\ Append(kept, e) \in Seq(Events) /\ Len(Append(kept, e)) = Len(kept) + 1
        /\ Len(kept) \in Nat
    BY <2>2, <2>5
  <2>7. /\ \A k \in 1 .. Len(kept) : Append(kept, e)[k] = kept[k]
        /\ Append(kept, e)[Len(kept) + 1] = e
    BY <2>2, <2>5
  <2>8. \A k \in 1 .. Len(kept) + 1 :
          Append(kept, e)[k].n = (received + 1) - (Len(kept) + 1) + k
    <3> SUFFICES ASSUME NEW k \in 1 .. Len(kept) + 1
                 PROVE  Append(kept, e)[k].n = (received + 1) - (Len(kept) + 1) + k
      OBVIOUS
    <3>1. CASE k = Len(kept) + 1
      BY <3>1, <2>2, <2>6, <2>7, <1>1
    <3>2. CASE k \in 1 .. Len(kept)
      <4>1. Append(kept, e)[k] = kept[k] /\ kept[k].n = received - Len(kept) + k
        BY <3>2, <2>5, <2>7
      <4> QED
        BY <4>1, <2>6, <1>1
    <3> QED
      BY <3>1, <3>2, <2>6
  <2>9. event.n <= (received + 1) - (Len(kept) + 1)
    <3>1. event.n \in Nat
      BY <1>1 DEF Events
    <3> QED
      BY <3>1, <1>1, <1>2, <2>5, <2>6
  <2> QED
    BY <1>1, <2>4, <2>5, <2>6, <2>8, <2>9, EngineAssumption DEF QueueKeepsNewest
<1> QED
  BY <1>3, <1>4, <1>5, <1>6, StepFrame DEF Enqueue

LEMMA BooksTyped == EngineInv /\ [Next]_vars =>
  (position \in Positions /\ total \in Int /\ counted \in Nat /\ completed \in Seq(Int))'
<1> SUFFICES ASSUME EngineInv, [Next]_vars
             PROVE  (position \in Positions /\ total \in Int /\ counted \in Nat
                       /\ completed \in Seq(Int))'
  OBVIOUS
<1>1. /\ position \in Positions /\ total \in Int /\ counted \in Nat /\ completed \in Seq(Int)
      /\ event \in Events /\ EngineTypeOK
  BY DEF EngineInv, EngineTypeOK
<1>2. CASE UNCHANGED <<position, total, counted, completed>>
  BY <1>1, <1>2
<1>3. CASE EvaluateOpen
  <2>1. UNCHANGED <<total, counted, completed>>
    BY <1>3 DEF EvaluateOpen
  <2>2. /\ event.price \in Int /\ event.price - Trail \in Int
        /\ position.highest \in Int /\ position.stop \in Int
    BY <1>1, EngineAssumption DEF Events, Positions
  <2>3. CASE UNCHANGED position
    BY <1>1, <2>1, <2>3
  <2>4. CASE Trailed
    BY <1>1, <2>1, <2>2, <2>4 DEF Trailed, Positions
  <2> QED
    BY <1>1, <1>3, <2>3, <2>4, OpenMoves
<1>4. CASE OpenPosition
  <2>1. UNCHANGED <<total, counted, completed>>
    BY <1>4 DEF OpenPosition
  <2>2. FilledAt("buy") \in Int
    BY <1>1, FillIsInt
  <2>3. position' = Opened
    BY <1>4 DEF OpenPosition, Opened
  <2>4. Opened \in Positions
    <3>1. FilledAt("buy") - StopLoss \in Int /\ FilledAt("buy") + TakeProfit \in Int
      BY <2>2, EngineAssumption
    <3> QED
      BY <2>2, <3>1 DEF Opened, Positions
  <2> QED
    BY <1>1, <2>1, <2>3, <2>4
<1>5. CASE close_position
  <2>1. FilledAt("sell") - position.entry - Fee \in Int
    BY <1>1, FillIsInt, EngineAssumption DEF Positions
  <2>2. PICK profit \in Int : profit = FilledAt("sell") - position.entry - Fee
    BY <2>1
  <2>3. /\ total' = total + profit
        /\ counted' = counted + 1
        /\ completed' = completed \/ completed' = Append(completed, profit)
        /\ position' = position \/ position' = [position EXCEPT !.open = FALSE]
    BY <1>5, <2>2 DEF close_position
  <2>4. completed' \in Seq(Int)
    <3>1. completed \in Seq(Int) /\ Append(completed, profit) \in Seq(Int)
      BY <1>1
    <3> QED
      BY <2>3, <3>1, Zenon
  <2>5. position' \in Positions
    BY <1>1, <2>3 DEF Positions
  <2> QED
    BY <1>1, <2>3, <2>4, <2>5
<1> QED
  BY <1>2, <1>3, <1>4, <1>5, StepFrame

LEMMA BooksKept == EngineInv /\ [Next]_vars => BooksInv'
<1> SUFFICES ASSUME EngineInv, [Next]_vars PROVE BooksInv'
  OBVIOUS
<1>1. /\ position \in Positions /\ total \in Int /\ counted \in Nat /\ completed \in Seq(Int)
      /\ event \in Events /\ EngineTypeOK
  BY DEF EngineInv, EngineTypeOK
<1>2. BooksInv /\ PositionInv
  BY DEF EngineInv
<1>3. CASE close_position /\ UNCHANGED <<completed, position>>
  <2>1. counted = Len(completed) /\ counted' = counted + 1 /\ trader' = "catch" /\ position'.open
    <3>1. trader = "sold" /\ position.open /\ counted = Len(completed)
      BY <1>2, <1>3 DEF close_position, BooksInv, PositionInv
    <3>2. counted' = counted + 1
      BY <1>3 DEF close_position
    <3>3. Append(completed, FilledAt("sell") - position.entry - Fee) # completed
      <4>1. FilledAt("sell") - position.entry - Fee \in Int
        BY <1>1, FillIsInt, EngineAssumption DEF Positions
      <4>2. PICK v \in Int : v = FilledAt("sell") - position.entry - Fee
        BY <4>1
      <4>3. Len(Append(completed, v)) = Len(completed) + 1 /\ Len(completed) \in Nat
        BY <1>1
      <4> QED
        BY <4>2, <4>3
    <3>4. trader' = "catch"
      BY <1>3, <3>3 DEF close_position
    <3> QED
      BY <1>3, <3>1, <3>2, <3>4
  <2> QED
    BY <1>3, <2>1 DEF BooksInv
<1>4. CASE close_position /\ ~UNCHANGED <<completed, position>>
  <2>1. trader = "sold" /\ counted = Len(completed) /\ Booked
    BY <1>2, <1>4 DEF close_position, BooksInv
  <2>2. FilledAt("sell") - position.entry - Fee \in Int
    BY <1>1, FillIsInt, EngineAssumption DEF Positions
  <2>3. PICK v \in Int : v = FilledAt("sell") - position.entry - Fee
    BY <2>2
  <2>4. completed' = Append(completed, v) /\ total' = total + v /\ counted' = counted + 1
    BY <1>4, <2>3 DEF close_position
  <2>5. Len(Append(completed, v)) = Len(completed) + 1
    BY <1>1
  <2>6. /\ \E f : AddsUp(f, completed)
        /\ \A f : AddsUp(f, completed) => f[Len(completed)] = total
    BY <2>1 DEF Booked
  <2>7. /\ \E g : AddsUp(g, Append(completed, v))
        /\ \A g : AddsUp(g, Append(completed, v)) => g[Len(Append(completed, v))] = total + v
    BY <1>1, <2>6, AddsUpAppend
  <2>8. Booked'
    BY <2>4, <2>7 DEF Booked, AddsUp
  <2> QED
    BY <2>1, <2>4, <2>5, <2>8 DEF BooksInv
<1>5. CASE UNCHANGED <<total, counted, completed>>
  <2>1. Booked => Booked'
    BY <1>5 DEF Booked, AddsUp
  <2>2. CASE counted = Len(completed) /\ Booked
    BY <1>5, <2>1, <2>2 DEF BooksInv
  <2>3. CASE counted = Len(completed) + 1 /\ position.open /\ trader \in {"catch", "exited"}
    <3>1. position'.open /\ trader' \in {"catch", "exited"}
      BY <2>3, LeavingStays
    <3> QED
      BY <1>5, <2>3, <3>1 DEF BooksInv
  <2> QED
    BY <1>2, <2>2, <2>3 DEF BooksInv
<1> QED
  BY <1>3, <1>4, <1>5, StepFrame

LEMMA PositionKept == EngineInv /\ [Next]_vars => PositionInv'
<1> SUFFICES ASSUME EngineInv, [Next]_vars PROVE PositionInv'
  OBVIOUS
<1>1. position \in Positions /\ event \in Events /\ EngineTypeOK /\ PositionInv
  BY DEF EngineInv, EngineTypeOK
<1>2. /\ (trader \in {"closing", "sold"} => position.open)'
      /\ (trader \in {"entry", "buying", "bought"} => ~position.open)'
  <2> USE <1>1 DEF PositionInv
  <2>1. CASE UNCHANGED vars
    BY <2>1 DEF vars
  <2>2. CASE RunBegin \/ RunInit \/ RunLoop \/ RunTake \/ RunBlock \/ RunCatch \/ RunFinish
    BY <2>2 DEF RunBegin, RunInit, RunLoop, RunTake, RunBlock, RunCatch, RunFinish, tradeVars
  <2>3. CASE ProcessStale \/ EvaluateFlat \/ EvaluateEntry
    BY <2>3 DEF ProcessStale, EvaluateFlat, EvaluateEntry, tradeVars
  <2>4. CASE EvaluateOpen
    <3>1. trader' \in {"closing", "loop"} /\ position.open
      BY <2>4 DEF EvaluateOpen
    <3>2. position'.open
      BY <2>4, <3>1, OpenMoves DEF Trailed, Positions
    <3> QED
      BY <3>1, <3>2
  <2>5. CASE Buy \/ OpenPosition \/ Sell \/ close_position
    BY <2>5 DEF Buy, OpenPosition, Sell, close_position, tradeVars
  <2>6. CASE SpuriousWake \/ FeedReceive \/ Enqueue \/ StopBegin \/ StopStep
    BY <2>6 DEF SpuriousWake, FeedReceive, Enqueue, enqueue_price, Notified, StopBegin, StopStep,
                StopFeed, StopVenue, StopNotify, tradeVars
  <2>7. CASE request_manual_close \/ pause_entries
    BY <2>7 DEF request_manual_close, pause_entries, tradeVars
  <2> QED
    BY <2>1, <2>2, <2>3, <2>4, <2>5, <2>6, <2>7 DEF Next, TraderStep
<1>3. (position.open => LevelsInv)'
  <2>1. CASE UNCHANGED position
    BY <1>1, <2>1 DEF PositionInv, LevelsInv
  <2>2. CASE EvaluateOpen /\ Trailed
    BY <1>1, <2>2, EngineAssumption DEF EvaluateOpen, Trailed, Positions, Events, PositionInv, LevelsInv
  <2>3. CASE OpenPosition
    <3>1. position' = Opened
      BY <2>3 DEF OpenPosition, Opened
    <3> QED
      BY <3>1 DEF Opened, LevelsInv
  <2>4. CASE close_position /\ ~UNCHANGED position
    <3>1. ~position'.open
      BY <1>1, <2>4 DEF close_position, tradeVars, Positions
    <3> QED
      BY <3>1
  <2> QED
    BY <1>1, <2>1, <2>2, <2>3, <2>4, StepFrame, OpenMoves
<1> QED
  BY <1>2, <1>3 DEF PositionInv

LEMMA RequestKept == EngineInv /\ [Next]_vars => RequestInv'
<1> SUFFICES ASSUME EngineInv, [Next]_vars PROVE RequestInv'
  OBVIOUS
<1>1. position \in Positions /\ counted \in Nat /\ RequestInv /\ PositionInv
  BY DEF EngineInv, EngineTypeOK
<1> USE <1>1 DEF RequestInv, RequestEndsItsPosition
<1>2. CASE UNCHANGED vars
  BY <1>2 DEF vars
<1>3. CASE RunBegin \/ RunInit \/ RunLoop \/ RunTake \/ RunBlock \/ RunCatch \/ RunFinish
  BY <1>3 DEF RunBegin, RunInit, RunLoop, RunTake, RunBlock, RunCatch, RunFinish, tradeVars,
              controlVars
<1>4. CASE ProcessStale \/ EvaluateFlat \/ EvaluateEntry
  BY <1>4 DEF ProcessStale, EvaluateFlat, EvaluateEntry, tradeVars, controlVars
<1>5. CASE EvaluateOpen
  <2>1. /\ trader = "process" /\ position.open /\ UNCHANGED <<counted, requested>>
        /\ trader' \in {"closing", "loop"}
    BY <1>5 DEF EvaluateOpen
  <2>2. CASE manualClose
    BY <1>5, <2>1, <2>2 DEF EvaluateOpen
  <2>3. CASE ~manualClose
    BY <1>5, <2>1, <2>3 DEF EvaluateOpen
  <2> QED
    BY <2>2, <2>3
<1>6. CASE Buy \/ OpenPosition \/ Sell
  BY <1>6 DEF Buy, OpenPosition, Sell, controlVars, tradeVars
<1>7. CASE close_position
  <2>1. trader' \in {"catch", "loop"} /\ UNCHANGED <<manualClose, requested>>
    BY <1>7 DEF close_position, controlVars
  <2>2. trader' = "loop" => ~position'.open
    BY <1>7 DEF close_position, Positions
  <2> QED
    BY <2>1, <2>2
<1>8. CASE SpuriousWake \/ FeedReceive \/ Enqueue \/ StopBegin \/ StopStep
  <2>1. /\ UNCHANGED <<manualClose, requested, position, counted, reason>>
        /\ trader' = trader \/ (trader = "waiting" /\ trader' = "wait")
    BY <1>8 DEF SpuriousWake, FeedReceive, Enqueue, enqueue_price, Notified, StopBegin, StopStep,
                StopFeed, StopVenue, StopNotify, tradeVars, controlVars
  <2> QED
    BY <2>1
<1>9. CASE request_manual_close \/ pause_entries
  BY <1>9 DEF request_manual_close, pause_entries, tradeVars, PositionInv
<1> QED
  BY <1>2, <1>3, <1>4, <1>5, <1>6, <1>7, <1>8, <1>9 DEF Next, TraderStep

LEMMA StopKept == EngineInv /\ [Next]_vars => StopInv'
<1> SUFFICES ASSUME EngineInv, [Next]_vars PROVE StopInv'
  OBVIOUS
<1>1. StopInv
  BY DEF EngineInv
<1> USE <1>1 DEF StopInv
<1>2. CASE UNCHANGED vars
  BY <1>2 DEF vars
<1>3. CASE RunBegin \/ RunInit \/ RunLoop \/ RunTake \/ RunBlock \/ RunCatch \/ RunFinish
  BY <1>3 DEF RunBegin, RunInit, RunLoop, RunTake, RunBlock, RunCatch, RunFinish
<1>4. CASE ProcessStale \/ EvaluateFlat \/ EvaluateEntry \/ EvaluateOpen
  BY <1>4 DEF ProcessStale, EvaluateFlat, EvaluateEntry, EvaluateOpen
<1>5. CASE Buy \/ OpenPosition \/ Sell \/ close_position
  BY <1>5 DEF Buy, OpenPosition, Sell, close_position
<1>6. CASE SpuriousWake \/ FeedReceive \/ Enqueue
  <2>1. /\ UNCHANGED <<running, venue, stopper>>
        /\ trader' = trader \/ (trader = "waiting" /\ trader' = "wait")
    BY <1>6 DEF SpuriousWake, FeedReceive, Enqueue, enqueue_price, Notified
  <2> QED
    BY <2>1
<1>7. CASE StopBegin \/ StopStep
  BY <1>7 DEF StopBegin, StopStep, StopFeed, StopVenue, StopNotify, Notified
<1>8. CASE request_manual_close \/ pause_entries
  BY <1>8 DEF request_manual_close, pause_entries
<1> QED
  BY <1>2, <1>3, <1>4, <1>5, <1>6, <1>7, <1>8 DEF Next, TraderStep

-----------------------------------------------------------------------------
(* Theorems *)

\* The inductive invariant of run(), the price stream, stop() and the terminal:
\* types, queue, books, close requests and what each point of run() knows.
THEOREM EngineInvariant == Spec => []EngineInv
<1>1. EngineInv /\ [Next]_vars => EngineInv'
  <2> SUFFICES ASSUME EngineInv, [Next]_vars PROVE EngineInv'
    OBVIOUS
  <2>1. EngineTypeOK' /\ QueueKeepsNewest'
    BY QueueKept, BooksTyped DEF EngineTypeOK
  <2>2. BooksInv' /\ PositionInv' /\ RequestInv' /\ StopInv'
    BY BooksKept, PositionKept, RequestKept, StopKept
  <2> QED
    BY <2>1, <2>2 DEF EngineInv
<1> QED
  BY <1>1, InitEngineInv, PTL DEF Spec

\* QueueKeepsNewest in every behaviour: enqueue_price and run() lose, repeat or
\* reorder no price but the oldest at the limit.
THEOREM QueueAlwaysKeepsNewest == Spec => []QueueKeepsNewest
<1>1. EngineInv => QueueKeepsNewest
  BY DEF EngineInv
<1> QED
  BY <1>1, EngineInvariant, PTL

\* TradesAddUp in every behaviour: total_profit is the sum of the trades that
\* close_position recorded, unless the last save threw.
THEOREM TradesAlwaysAddUp == Spec => []TradesAddUp
<1>1. EngineInv => TradesAddUp
  BY BookedIsSum DEF EngineInv, BooksInv, TradesAddUp
<1> QED
  BY <1>1, EngineInvariant, PTL

\* RequestEndsItsPosition in every behaviour: a close request of the terminal
\* that evaluate_at answers was made for this position or found none open.
THEOREM RequestAlwaysEndsIts == Spec => []RequestEndsItsPosition
<1>1. EngineInv => RequestEndsItsPosition
  BY DEF EngineInv, RequestInv
<1> QED
  BY <1>1, EngineInvariant, PTL

\* StopFreezesOrders: after stop() has stopped the venue, execute() can only
\* throw, whatever the trader thread is still in the middle of; what it has
\* filled before is booked as one position opened or one trade closed.
THEOREM StopAlwaysFreezes == Spec => StopFreezesOrders
<1>1. ASSUME EngineInv, [Next]_vars, stopper \in {"notify", "returned"}
      PROVE  Filled' = Filled
  <2>1. /\ position \in Positions /\ counted \in Nat /\ completed \in Seq(Int)
        /\ venue => trader \in {"loop", "finish", "exited"}
        /\ PositionInv /\ EngineTypeOK
    BY <1>1 DEF EngineInv, EngineTypeOK, StopInv
  <2>2. CASE OpenPosition
    <3>1. /\ trader = "bought" /\ trader' = "loop" /\ position'.open /\ ~position.open
          /\ UNCHANGED <<counted, completed>>
      BY <2>1, <2>2 DEF OpenPosition, PositionInv
    <3> QED
      BY <2>1, <3>1 DEF Filled
  <2>3. CASE close_position
    <3>1. trader = "sold" /\ position.open /\ counted' = counted + 1
      BY <2>1, <2>3 DEF close_position, PositionInv
    <3>2. CASE trader' = "loop"
      <4>1. FilledAt("sell") - position.entry - Fee \in Int
        BY <2>1, FillIsInt, EngineAssumption DEF Positions
      <4>2. PICK v \in Int : v = FilledAt("sell") - position.entry - Fee
        BY <4>1
      <4>3. completed' = Append(completed, v) /\ ~position'.open
        BY <2>1, <2>3, <3>2, <4>2 DEF close_position, Positions
      <4>4. Len(completed') = Len(completed) + 1 /\ Len(completed) \in Nat
        BY <2>1, <4>3
      <4> QED
        BY <2>1, <3>1, <3>2, <4>3, <4>4 DEF Filled
    <3>3. CASE trader' = "catch"
      <4>1. UNCHANGED <<completed, position>>
        BY <2>3, <3>3 DEF close_position
      <4>2. Len(completed) \in Nat
        BY <2>1
      <4> QED
        BY <2>1, <3>1, <3>3, <4>1, <4>2 DEF Filled
    <3> QED
      BY <2>3, <3>2, <3>3 DEF close_position
  <2>4. CASE /\ UNCHANGED <<counted, completed>> /\ position'.open = position.open
             /\ trader \in {"bought", "sold"} <=> trader' \in {"bought", "sold"}
    BY <2>4 DEF Filled
  <2>5. CASE EvaluateOpen
    <3>1. trader = "process" /\ trader' \in {"closing", "loop"} /\ UNCHANGED <<counted, completed>>
      BY <2>5 DEF EvaluateOpen
    <3>2. position'.open = position.open
      BY <2>1, <2>5, OpenMoves DEF Trailed, Positions
    <3> QED
      BY <2>4, <3>1, <3>2
  <2>6. CASE Buy \/ Sell
    BY <2>1, <2>4, <2>6 DEF Buy, Sell, tradeVars
  <2>7. CASE RunBegin \/ RunInit \/ RunLoop \/ RunTake \/ RunBlock \/ RunCatch \/ RunFinish
    BY <2>4, <2>7 DEF RunBegin, RunInit, RunLoop, RunTake, RunBlock, RunCatch, RunFinish, tradeVars
  <2>8. CASE ProcessStale \/ EvaluateFlat \/ EvaluateEntry
    BY <2>4, <2>8 DEF ProcessStale, EvaluateFlat, EvaluateEntry, tradeVars
  <2>9. CASE \/ SpuriousWake \/ FeedReceive \/ Enqueue \/ StopBegin \/ StopStep
             \/ request_manual_close \/ pause_entries
    BY <2>4, <2>9 DEF SpuriousWake, FeedReceive, Enqueue, enqueue_price, Notified, StopBegin,
       StopStep, StopFeed, StopVenue, StopNotify, request_manual_close, pause_entries, tradeVars
  <2>10. CASE UNCHANGED vars
    BY <2>4, <2>10 DEF vars
  <2> QED
    BY <1>1, <2>2, <2>3, <2>5, <2>6, <2>7, <2>8, <2>9, <2>10 DEF Next, TraderStep
<1>2. EngineInv /\ [Next]_vars =>
        [(stopper \in {"notify", "returned"}) => Filled' = Filled]_vars
  BY <1>1
<1> QED
  BY <1>2, EngineInvariant, PTL DEF Spec, StopFreezesOrders

\* StopOnlyTightens: evaluate_at never moves the stop of an open position down,
\* but for the first new high under a trailing distance wider than the stop loss.
THEOREM StopAlwaysTightens == Spec => StopOnlyTightens
<1>1. ASSUME EngineInv, [Next]_vars, position.open, position'.open
      PROVE  \/ position'.stop >= position.stop
             \/ Trail > StopLoss /\ position.highest = position.entry
  <2>1. position \in Positions /\ event \in Events /\ PositionInv
    BY <1>1 DEF EngineInv, EngineTypeOK
  <2>2. CASE UNCHANGED position
    BY <2>1, <2>2 DEF Positions
  <2>3. CASE EvaluateOpen /\ Trailed
    BY <1>1, <2>1, <2>3, EngineAssumption DEF Trailed, Positions, Events, PositionInv, LevelsInv
  <2>4. CASE OpenPosition
    BY <1>1, <2>1, <2>4 DEF OpenPosition, PositionInv
  <2>5. CASE close_position /\ ~UNCHANGED position
    BY <1>1, <2>1, <2>5 DEF close_position, tradeVars, Positions
  <2> QED
    BY <1>1, <2>1, <2>2, <2>3, <2>4, <2>5, StepFrame, OpenMoves
<1>2. EngineInv /\ [Next]_vars =>
        [position.open /\ position'.open =>
           \/ position'.stop >= position.stop
           \/ Trail > StopLoss /\ position.highest = position.entry]_vars
  BY <1>1
<1> QED
  BY <1>2, EngineInvariant, PTL DEF Spec, StopOnlyTightens
=============================================================================
