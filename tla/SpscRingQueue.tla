--------------------------- MODULE SpscRingQueue ---------------------------
(***************************************************************************)
(* market/SpscRingQueue.hpp: the lock-free single-producer single-consumer *)
(* ring between the market-data callback and the SQLite writer.  Every     *)
(* access to a shared location (head_, tail_, a slot) is a step of its     *)
(* own, so all interleavings of one try_push with one try_pop are here.    *)
(* The relaxed loads read the caller's own index, which only the caller    *)
(* writes; the acquire loads and release stores order the slot accesses,   *)
(* so a step sees the latest published index.                              *)
(***************************************************************************)
EXTENDS Integers, Sequences

CONSTANTS Values,    \* values of the template's type T
          Capacity,  \* the template parameter
          NoValue    \* a disengaged std::optional

\* static_assert(Capacity > 1), and a disengaged slot holds no value.
ASSUME CapacityAssumption == Capacity \in Nat /\ Capacity > 1
ASSUME NoValueAssumption == NoValue \notin Values

VARIABLES slots,   \* the optionals of the ring
          head,    \* head_: next slot the producer fills
          tail,    \* tail_: next slot the consumer empties
          pushPc,  \* where the producer is in try_push
          value,   \* try_push's argument
          popPc,   \* where the consumer is in try_pop
          out,     \* what try_pop has moved out of the slot
          pushResult, popResult  \* what the last completed calls returned

vars == <<slots, head, tail, pushPc, value, popPc, out, pushResult, popResult>>

Index == 0 .. Capacity - 1

\* Mutant: increment does not wrap around.
IncrementUnwrapped(i) == i + 1

increment(i) == (i + 1) % Capacity

empty == tail = head

Init ==
  /\ slots = [i \in Index |-> NoValue]
  /\ head = 0 /\ tail = 0
  /\ pushPc = "idle" /\ popPc = "idle"
  /\ value = NoValue /\ out = NoValue
  /\ pushResult = "none" /\ popResult = NoValue

-----------------------------------------------------------------------------
(* try_push, producer thread *)

\* Mutant: try_push does not look at tail_.
PushUnchecked(v) ==
  /\ pushPc = "idle"
  /\ pushPc' = "emplace" /\ value' = v
  /\ UNCHANGED <<slots, head, tail, popPc, out, pushResult, popResult>>

\* Mutant: try_push gives up with one usable slot left.
PushRefusesEarly(v) ==
  /\ pushPc = "idle"
  /\ IF increment(increment(head)) = tail
     THEN pushResult' = "full" /\ UNCHANGED <<pushPc, value>>
     ELSE pushPc' = "emplace" /\ value' = v /\ UNCHANGED pushResult
  /\ UNCHANGED <<slots, head, tail, popPc, out, popResult>>

\* A full ring refuses the value as soon as tail_ has been loaded.
PushLoadTail(v) ==
  /\ pushPc = "idle"
  /\ IF increment(head) = tail
     THEN pushResult' = "full" /\ UNCHANGED <<pushPc, value>>
     ELSE pushPc' = "emplace" /\ value' = v /\ UNCHANGED pushResult
  /\ UNCHANGED <<slots, head, tail, popPc, out, popResult>>

PushEmplace ==
  /\ pushPc = "emplace"
  /\ slots' = [slots EXCEPT ![head] = value]
  /\ pushPc' = "publish"
  /\ UNCHANGED <<head, tail, value, popPc, out, pushResult, popResult>>

PushPublish ==
  /\ pushPc = "publish"
  /\ head' = increment(head)
  /\ pushPc' = "idle" /\ value' = NoValue
  /\ pushResult' = "ok"
  /\ UNCHANGED <<slots, tail, popPc, out, popResult>>

-----------------------------------------------------------------------------
(* try_pop, consumer thread *)

\* Mutant: try_pop does not look at head_.
PopUnchecked ==
  /\ popPc = "idle"
  /\ popPc' = "move"
  /\ UNCHANGED <<slots, head, tail, pushPc, value, out, pushResult, popResult>>

\* An empty ring refuses as soon as head_ has been loaded.
PopLoadHead ==
  /\ popPc = "idle"
  /\ IF empty
     THEN popResult' = "empty" /\ UNCHANGED popPc
     ELSE popPc' = "move" /\ UNCHANGED popResult
  /\ UNCHANGED <<slots, head, tail, pushPc, value, out, pushResult>>

PopMove ==
  /\ popPc = "move"
  /\ out' = slots[tail]
  /\ popPc' = "reset"
  /\ UNCHANGED <<slots, head, tail, pushPc, value, pushResult, popResult>>

\* Mutant: the popped slot is not reset.
PopKeepsSlot ==
  /\ popPc = "reset"
  /\ popPc' = "publish"
  /\ UNCHANGED <<slots, head, tail, pushPc, value, out, pushResult, popResult>>

PopReset ==
  /\ popPc = "reset"
  /\ slots' = [slots EXCEPT ![tail] = NoValue]
  /\ popPc' = "publish"
  /\ UNCHANGED <<head, tail, pushPc, value, out, pushResult, popResult>>

PopPublish ==
  /\ popPc = "publish"
  /\ tail' = increment(tail)
  /\ popResult' = out
  /\ popPc' = "idle" /\ out' = NoValue
  /\ UNCHANGED <<slots, head, pushPc, value, pushResult>>

-----------------------------------------------------------------------------
Push == (\E v \in Values : PushLoadTail(v)) \/ PushEmplace \/ PushPublish
Pop == PopLoadHead \/ PopMove \/ PopReset \/ PopPublish

Next == Push \/ Pop

Spec == Init /\ [][Next]_vars

\* Both threads keep running: the producer finishes a push it began and the
\* writer loop keeps calling try_pop.
FairSpec == Spec /\ WF_vars(PushEmplace \/ PushPublish) /\ WF_vars(Pop)

-----------------------------------------------------------------------------
(* What the ring is for *)

TypeOK ==
  /\ slots \in [Index -> Values \cup {NoValue}]
  /\ head \in Index /\ tail \in Index
  /\ pushPc \in {"idle", "emplace", "publish"}
  /\ popPc \in {"idle", "move", "reset", "publish"}
  /\ value \in Values \cup {NoValue}
  /\ out \in Values \cup {NoValue}
  /\ pushResult \in {"none", "ok", "full"}
  /\ popResult \in Values \cup {NoValue, "empty"}

\* The slots between tail_ and head_, wrapping around the end of the array.
Occupied(i) ==
  IF tail <= head THEN tail <= i /\ i < head ELSE tail <= i \/ i < head

\* The slots hold values exactly where the indices say so, give or take the
\* one slot each thread is working on: emplace never overwrites a value that
\* was not popped, and try_pop never dereferences a disengaged optional.
SlotsMatchIndices ==
  \A i \in Index :
    slots[i] # NoValue <=>
      \/ Occupied(i) /\ ~(popPc = "publish" /\ i = tail)
      \/ pushPc = "publish" /\ i = head

\* The non-atomic slot accesses never race: while the producer is allowed to
\* emplace at head_ and the consumer to move out of tail_, these are two slots.
NoDataRace ==
  pushPc = "emplace" /\ popPc \in {"move", "reset"} => head # tail

\* While a push is under way there is room for it, whatever the consumer does
\* meanwhile: the check made when tail_ was loaded cannot become stale.
PushHasRoom ==
  pushPc # "idle" => increment(head) # tail /\ value \in Values

\* While a pop is under way there is a value for it, whatever the producer does.
PopHasValue ==
  /\ popPc # "idle" => head # tail
  /\ popPc \in {"reset", "publish"} => out \in Values

\* The inductive invariant behind SlotsMatchIndices and NoDataRace.
IInv == TypeOK /\ SlotsMatchIndices /\ PushHasRoom /\ PopHasValue

\* The number of values held, by the indices.
Held == IF head >= tail THEN head - tail ELSE Capacity - (tail - head)

\* The abstract contents: the occupied slots from tail_ on; the oldest value
\* still counts while try_pop has moved it out but not yet published tail_.
Contents ==
  [k \in 1 .. Held |->
     IF k = 1 /\ popPc \in {"reset", "publish"}
     THEN out ELSE slots[(tail + k - 1) % Capacity]]

Fifo == INSTANCE BoundedFifo
          WITH Limit <- Capacity - 1, contents <- Contents

\* Every interleaving of the two threads behaves like the atomic queue: values
\* come out once and in order, a push is refused only by a full ring and a pop
\* only by an empty one.
ImplementsFifo == Fifo!FifoSpec

\* No value is stranded: a filled slot is emptied again.
EveryValueLeaves ==
  \A i \in Index : slots[i] # NoValue ~> slots[i] = NoValue
=============================================================================
