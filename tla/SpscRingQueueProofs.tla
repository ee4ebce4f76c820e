------------------------ MODULE SpscRingQueueProofs ------------------------
(***************************************************************************)
(* The ring is safe for every capacity and every set of values.            *)
(***************************************************************************)
EXTENDS SpscRingQueue, TLAPS

\* The modulo of increment() is a step forward with one wrap at the end.
LEMMA IncrementWraps ==
  ASSUME NEW i \in Index
  PROVE  /\ increment(i) \in Index
         /\ increment(i) = IF i = Capacity - 1 THEN 0 ELSE i + 1
BY CapacityAssumption DEF Index, increment

\* The empty ring of the constructor satisfies the inductive invariant.
LEMMA InitIInv == Init => IInv
BY CapacityAssumption, NoValueAssumption
   DEF Init, IInv, TypeOK, SlotsMatchIndices, PushHasRoom, PopHasValue,
       Occupied, Index

\* Every step of either thread preserves the inductive invariant.
LEMMA NextIInv == IInv /\ [Next]_vars => IInv'
<1> SUFFICES ASSUME IInv, [Next]_vars PROVE IInv'
  OBVIOUS
<1> USE CapacityAssumption, NoValueAssumption
<1> DEFINE inc(i) == IF i = Capacity - 1 THEN 0 ELSE i + 1
<1>0. increment(head) = inc(head) /\ increment(tail) = inc(tail)
      /\ increment(head) \in Index /\ increment(tail) \in Index
  BY IncrementWraps DEF IInv, TypeOK
<1>1. ASSUME NEW v \in Values, PushLoadTail(v) PROVE IInv'
  BY <1>1, <1>0 DEF IInv, TypeOK, SlotsMatchIndices, PushHasRoom, PopHasValue,
     Occupied, PushLoadTail, increment, Index
<1>2. ASSUME PushEmplace PROVE IInv'
  BY <1>2, <1>0 DEF IInv, TypeOK, SlotsMatchIndices, PushHasRoom, PopHasValue,
     Occupied, PushEmplace, increment, Index
<1>3. ASSUME PushPublish PROVE IInv'
  BY <1>3, <1>0 DEF IInv, TypeOK, SlotsMatchIndices, PushHasRoom, PopHasValue,
     Occupied, PushPublish, Index
<1>4. ASSUME PopLoadHead PROVE IInv'
  BY <1>4 DEF IInv, TypeOK, SlotsMatchIndices, PushHasRoom, PopHasValue,
     Occupied, PopLoadHead, empty, increment
<1>5. ASSUME PopMove PROVE IInv'
  BY <1>5 DEF IInv, TypeOK, SlotsMatchIndices, PushHasRoom, PopHasValue,
     Occupied, PopMove, increment, Index
<1>6. ASSUME PopReset PROVE IInv'
  BY <1>6 DEF IInv, TypeOK, SlotsMatchIndices, PushHasRoom, PopHasValue,
     Occupied, PopReset, increment, Index
<1>7. ASSUME PopPublish PROVE IInv'
  BY <1>7, <1>0 DEF IInv, TypeOK, SlotsMatchIndices, PushHasRoom, PopHasValue,
     Occupied, PopPublish, Index
<1>8. CASE UNCHANGED vars
  BY <1>8 DEF IInv, TypeOK, SlotsMatchIndices, PushHasRoom, PopHasValue,
     Occupied, vars, increment
<1> QED
  BY <1>1, <1>2, <1>3, <1>4, <1>5, <1>6, <1>7, <1>8 DEF Next, Push, Pop

\* The inductive invariant holds in every reachable state.
LEMMA SpecIInv == Spec => []IInv
BY InitIInv, NextIInv, PTL DEF Spec

\* Both indices stay inside the array and every slot holds a value or nothing.
THEOREM TypeCorrect == Spec => []TypeOK
<1>1. IInv => TypeOK
  BY DEF IInv
<1> QED
  BY SpecIInv, <1>1, PTL

\* For every capacity: a push never overwrites an unread value, and try_pop
\* never dereferences a disengaged slot.
THEOREM SlotsAlwaysMatch == Spec => []SlotsMatchIndices
<1>1. IInv => SlotsMatchIndices
  BY DEF IInv
<1> QED
  BY SpecIInv, <1>1, PTL

\* For every capacity: the two threads never touch the same slot at once.
THEOREM DataRaceFree == Spec => []NoDataRace
<1>1. IInv => NoDataRace
  BY DEF IInv, PopHasValue, NoDataRace
<1> QED
  BY SpecIInv, <1>1, PTL

\* The k-th oldest value's slot, with the modulo resolved.
LEMMA SlotWraps ==
  ASSUME NEW t \in Index, NEW k \in 1 .. Capacity
  PROVE  (t + k - 1) % Capacity =
           IF t + k - 1 < Capacity THEN t + k - 1 ELSE t + k - 1 - Capacity
<1> USE CapacityAssumption
<1>1. CASE t + k - 1 < Capacity
  BY <1>1 DEF Index
<1>2. CASE t + k - 1 >= Capacity
  <2> DEFINE r == t + k - 1 - Capacity
  <2>1. r \in 0 .. Capacity - 1 /\ t + k - 1 = 1 * Capacity + r
    BY <1>2 DEF Index
  <2> QED
    BY <2>1, <1>2 DEF Index
<1> QED
  BY <1>1, <1>2 DEF Index

\* A sequence is determined by its length and its elements; the same for what
\* Append and Tail return.
LEMMA SeqByElements ==
  ASSUME NEW S, NEW s \in Seq(S), NEW t \in Seq(S)
  PROVE  /\ Len(s) = Len(t) /\ (\A k \in 1 .. Len(t) : s[k] = t[k]) => s = t
         /\ \A e \in S :
              /\ Len(s) = Len(t) + 1
              /\ \A k \in 1 .. Len(t) : s[k] = t[k]
              /\ s[Len(t) + 1] = e
              => s = Append(t, e)
         /\ /\ t # << >> /\ Len(s) = Len(t) - 1
            /\ \A k \in 1 .. Len(s) : s[k] = t[k + 1]
            => s = Tail(t)
<1>1. Len(s) = Len(t) /\ (\A k \in 1 .. Len(t) : s[k] = t[k]) => s = t
  OBVIOUS
<1>2. ASSUME NEW e \in S, Len(s) = Len(t) + 1,
             \A k \in 1 .. Len(t) : s[k] = t[k], s[Len(t) + 1] = e
      PROVE  s = Append(t, e)
  <2> DEFINE u == Append(t, e)
  <2>1. u \in Seq(S) /\ Len(u) = Len(s) /\ \A k \in 1 .. Len(s) : s[k] = u[k]
    BY <1>2
  <2> QED
    BY <2>1
<1>3. ASSUME t # << >>, Len(s) = Len(t) - 1,
             \A k \in 1 .. Len(s) : s[k] = t[k + 1]
      PROVE  s = Tail(t)
  <2> DEFINE u == Tail(t)
  <2>1. u \in Seq(S) /\ Len(u) = Len(s) /\ \A k \in 1 .. Len(s) : s[k] = u[k]
    BY <1>3
  <2> QED
    BY <2>1
<1> QED
  BY <1>1, <1>2, <1>3

\* The slot of the k-th oldest value when the oldest is at t.
SlotAt(t, k) == IF t + k - 1 < Capacity THEN t + k - 1 ELSE t + k - 1 - Capacity

\* The k-th oldest value.
Element(k) == IF k = 1 /\ popPc \in {"reset", "publish"}
              THEN out ELSE slots[SlotAt(tail, k)]

\* What the abstract contents are, without the modulo.
Shape ==
  /\ Held \in 0 .. Capacity - 1
  /\ Contents \in Seq(Values \cup {NoValue})
  /\ Len(Contents) = Held
  /\ \A k \in 1 .. Held : Contents[k] = Element(k)

\* The abstract contents have that shape in every well-typed state.
LEMMA ContentsShape == TypeOK => Shape
<1> SUFFICES ASSUME TypeOK PROVE Shape
  OBVIOUS
<1> USE CapacityAssumption
<1>1. Held \in 0 .. Capacity - 1
  BY DEF TypeOK, Index, Held
<1>2. \A k \in 1 .. Held : (tail + k - 1) % Capacity = SlotAt(tail, k)
  BY <1>1, SlotWraps DEF TypeOK, SlotAt
<1>3. Contents = [k \in 1 .. Held |-> Element(k)]
  BY <1>2 DEF Contents, Element
<1>4. \A k \in 1 .. Held : Element(k) \in Values \cup {NoValue}
  BY <1>1 DEF TypeOK, Index, Element, SlotAt
<1>5. Contents \in [1 .. Held -> Values \cup {NoValue}]
  BY <1>3, <1>4
<1> QED
  BY <1>1, <1>3, <1>5 DEF Shape

\* Every step of the ring is a step of the atomic queue or leaves it alone.
LEMMA StepImplementsFifo ==
  IInv /\ IInv' /\ [Next]_vars => [Fifo!FifoNext]_(Fifo!fifoVars)
<1> SUFFICES ASSUME IInv, IInv', [Next]_vars
             PROVE  [Fifo!FifoNext]_(Fifo!fifoVars)
  OBVIOUS
<1> USE CapacityAssumption, NoValueAssumption
<1>a. Shape
  BY ContentsShape DEF IInv
<1>b. Shape'
  <2>1. TypeOK' => Shape'
    BY ContentsShape, PTL
  <2> QED
    BY <2>1 DEF IInv
<1>c. increment(head) = (IF head = Capacity - 1 THEN 0 ELSE head + 1)
      /\ increment(tail) = (IF tail = Capacity - 1 THEN 0 ELSE tail + 1)
  BY IncrementWraps DEF IInv, TypeOK
<1>1. ASSUME NEW v \in Values, PushLoadTail(v) PROVE [Fifo!FifoNext]_(Fifo!fifoVars)
  <2>1. Contents' = Contents
    BY <1>1 DEF PushLoadTail, Contents, Held
  <2>2. CASE increment(head) = tail
    <3>1. Held = Capacity - 1
      BY <1>c, <2>2 DEF Held, IInv, TypeOK, Index
    <3> QED
      BY <1>1, <2>1, <2>2, <3>1, <1>a
         DEF Shape, PushLoadTail, Fifo!FifoNext, Fifo!PushRefused
  <2>3. CASE increment(head) # tail
    BY <1>1, <2>1, <2>3 DEF PushLoadTail, Fifo!fifoVars
  <2> QED
    BY <2>2, <2>3
<1>2. ASSUME PushEmplace PROVE [Fifo!FifoNext]_(Fifo!fifoVars)
  <2>1. Held' = Held
    BY <1>2 DEF PushEmplace, Held
  <2>2. \A k \in 1 .. Held : SlotAt(tail, k) # head
    BY <1>a DEF SlotAt, Shape, Held, IInv, TypeOK, Index
  <2>3. \A k \in 1 .. Held : Element(k)' = Element(k)
    BY <1>2, <2>2, <1>a DEF Element, SlotAt, Shape, PushEmplace, IInv, TypeOK, Index
  <2>4. Contents' = Contents
    BY <1>a, <1>b, <2>1, <2>3, SeqByElements DEF Shape
  <2> QED
    BY <1>2, <2>4 DEF PushEmplace, Fifo!fifoVars
<1>3. ASSUME PushPublish PROVE [Fifo!FifoNext]_(Fifo!fifoVars)
  <2>1. Held' = Held + 1
    BY <1>3, <1>c DEF PushPublish, Held, IInv, TypeOK, Index, PushHasRoom
  <2>2. SlotAt(tail, Held + 1) = head
    BY DEF SlotAt, Held, IInv, TypeOK, Index
  <2>3. \A k \in 1 .. Held : Element(k)' = Element(k)
    BY <1>3 DEF Element, SlotAt, PushPublish
  <2>a. popPc \in {"reset", "publish"} => Held # 0
    BY DEF IInv, PopHasValue, Held, TypeOK, Index
  <2>b. SlotAt(tail', Held + 1) = head /\ slots' = slots /\ out' = out /\ popPc' = popPc
    BY <1>3, <2>2 DEF PushPublish
  <2>4. \A k \in Nat : k = Held + 1 => Element(k)' = slots[head]
    BY <2>a, <2>b, <1>a, <1>3 DEF Element, Shape, PushPublish
  <2>5. slots[head] \in Values
    BY <1>3 DEF PushPublish, IInv, TypeOK, SlotsMatchIndices
  <2>c. /\ Len(Contents') = Len(Contents) + 1
        /\ \A k \in 1 .. Len(Contents) : Contents'[k] = Contents[k]
        /\ Contents'[Len(Contents) + 1] = slots[head]
    BY <1>a, <1>b, <2>1, <2>3, <2>4 DEF Shape
  <2>6. Contents' = Append(Contents, slots[head])
    BY <1>a, <1>b, <2>c, <2>5, SeqByElements DEF Shape
  <2> QED
    BY <1>3, <1>a, <1>b, <2>1, <2>5, <2>6
       DEF Shape, PushPublish, Fifo!FifoNext, Fifo!PushAccepted
<1>4. ASSUME PopLoadHead PROVE [Fifo!FifoNext]_(Fifo!fifoVars)
  <2>1. Contents' = Contents
    BY <1>4 DEF PopLoadHead, Contents, Held
  <2>2. CASE empty
    <3>1. Held = 0
      BY <2>2 DEF empty, Held, IInv, TypeOK, Index
    <3>2. Contents = << >>
      BY <3>1, <1>a DEF Shape
    <3> QED
      BY <1>4, <2>1, <2>2, <3>2 DEF PopLoadHead, Fifo!FifoNext, Fifo!PopRefused
  <2>3. CASE ~empty
    BY <1>4, <2>1, <2>3 DEF PopLoadHead, Fifo!fifoVars
  <2> QED
    BY <2>2, <2>3
<1>5. ASSUME PopMove PROVE [Fifo!FifoNext]_(Fifo!fifoVars)
  <2>1. Held' = Held
    BY <1>5 DEF PopMove, Held
  <2>2. \A k \in 1 .. Held : Element(k)' = Element(k)
    BY <1>5, <1>a DEF Element, SlotAt, Shape, PopMove, IInv, TypeOK, Index
  <2>3. Contents' = Contents
    BY <1>a, <1>b, <2>1, <2>2, SeqByElements DEF Shape
  <2> QED
    BY <1>5, <2>3 DEF PopMove, Fifo!fifoVars
<1>6. ASSUME PopReset PROVE [Fifo!FifoNext]_(Fifo!fifoVars)
  <2>1. Held' = Held
    BY <1>6 DEF PopReset, Held
  <2>2. \A k \in 2 .. Held : SlotAt(tail, k) # tail
    BY <1>a DEF SlotAt, Shape, IInv, TypeOK, Index
  <2>3. \A k \in 1 .. Held : Element(k)' = Element(k)
    BY <1>6, <2>2, <1>a DEF Element, SlotAt, Shape, PopReset, IInv, TypeOK, Index
  <2>4. Contents' = Contents
    BY <1>a, <1>b, <2>1, <2>3, SeqByElements DEF Shape
  <2> QED
    BY <1>6, <2>4 DEF PopReset, Fifo!fifoVars
<1>7. ASSUME PopPublish PROVE [Fifo!FifoNext]_(Fifo!fifoVars)
  <2>1. Held \in 1 .. Capacity - 1 /\ Held' = Held - 1
    BY <1>7, <1>a, <1>c DEF Shape, PopPublish, Held, IInv, TypeOK, Index, PopHasValue
  <2>2. \A k \in 1 .. Held - 1 : SlotAt(tail', k) = SlotAt(tail, k + 1)
    BY <1>7, <1>a, <1>c DEF SlotAt, Shape, PopPublish, IInv, TypeOK, Index
  <2>3. \A k \in 1 .. Held - 1 : Element(k)' = Element(k + 1)
    BY <1>7, <2>2, <1>a DEF Element, SlotAt, Shape, PopPublish
  <2>4. Contents # << >> /\ Head(Contents) = out
    BY <1>7, <1>a, <2>1 DEF Shape, PopPublish, Element
  <2>5. Contents' = Tail(Contents)
    BY <1>a, <1>b, <2>1, <2>3, SeqByElements DEF Shape
  <2> QED
    BY <1>7, <2>4, <2>5 DEF PopPublish, Fifo!FifoNext, Fifo!PopTaken
<1>8. CASE UNCHANGED vars
  BY <1>8 DEF vars, Contents, Held, Fifo!fifoVars
<1> QED
  BY <1>1, <1>2, <1>3, <1>4, <1>5, <1>6, <1>7, <1>8 DEF Next, Push, Pop

\* For every capacity and every interleaving of the two threads, the lock-free
\* ring is a bounded first-in first-out queue.
THEOREM RingImplementsFifo == Spec => ImplementsFifo
<1>1. Init => Fifo!FifoInit
  <2> SUFFICES ASSUME Init PROVE Fifo!FifoInit
    OBVIOUS
  <2>1. TypeOK
    BY InitIInv DEF IInv
  <2>2. Held = 0
    BY DEF Init, Held
  <2>3. Contents = << >>
    BY <2>1, <2>2, ContentsShape DEF Shape
  <2> QED
    BY <2>3 DEF Init, Fifo!FifoInit
<1>2. IInv /\ IInv' /\ [Next]_vars => [Fifo!FifoNext]_(Fifo!fifoVars)
  BY StepImplementsFifo
<1> QED
  BY <1>1, <1>2, SpecIInv, PTL DEF Spec, ImplementsFifo, Fifo!FifoSpec

=============================================================================
