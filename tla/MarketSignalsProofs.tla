------------------------ MODULE MarketSignalsProofs -------------------------
(***************************************************************************)
(* Proofs that the scanner follows the market and that signals come from   *)
(* the window of prices: for every ring capacity, every lookback, period   *)
(* and threshold and any number of symbols and ticks, what MarketDataStore,*)
(* SymbolScanner and the strategies hold is what the history says.         *)
(*                                                                         *)
(* The invariant relates a ring to the history slot by slot, counted back  *)
(* from the newest value; Slot resolves the ring's modulo once and for all.*)
(* The strategies compare fractions in lowest terms, so the second half    *)
(* starts with Euclid's algorithm: gcd satisfies its recursion and divides *)
(* both arguments, by the least counterexample.                            *)
(***************************************************************************)
EXTENDS MarketSignals, SequenceTheorems, FiniteSetTheorems, WellFoundedInduction, TLAPS

Candles == [timestamp : Int, close : Nat \ {0}]

Rings == [data : [0 .. Capacity - 1 -> Candles \cup {NoCandle}], head : 0 .. Capacity - 1,
          size : 0 .. Capacity]

\* Where a ring keeps its k-th newest value.
Slot(size, head, k) == IF k <= head THEN head - k ELSE head + size - k

Smaller(a, b) == IF a <= b THEN a ELSE b

\* The ring b holds the newest candles of the history q.
Holds(b, q) ==
  /\ b.head \in 0 .. Capacity - 1
  /\ DOMAIN b.data = 0 .. Capacity - 1
  /\ b.size = Smaller(Len(q), Capacity)
  /\ \A k \in 1 .. b.size : b.data[Slot(Capacity, b.head, k)] = q[Len(q) - k + 1]

RingsInv ==
  /\ time \in Int
  /\ candles \in [Symbols -> Seq(Candles)]
  /\ ring \in [Symbols -> Rings]
  /\ \A s \in Symbols : Holds(ring[s], candles[s])

\* What the scanner knows is what it learnt at the latest closed candle, and
\* the history only grows, so a return once there is never missing later.
ReturnsInv ==
  /\ closed \in [Symbols -> Seq(Candles)]
  /\ \A s \in Symbols : Len(closed[s]) <= Len(candles[s])
  /\ DOMAIN short = Symbols /\ DOMAIN long = Symbols
  /\ \A s \in Symbols : short[s] = ReturnOf(closed[s], Short) /\ long[s] = ReturnOf(closed[s], Long)

TopInv == Best(short) # {} => top \in Best(short)

\* The inductive invariant.
MarketInv == RingsInv /\ ReturnsInv /\ TopInv

-----------------------------------------------------------------------------
(* Numbers *)

LEMMA MinOfTwo ==
  ASSUME NEW a \in Int, NEW b \in Int
  PROVE  Min({a, b}) = Smaller(a, b)
BY DEF Min, Smaller

LEMMA MaxOfTwo ==
  ASSUME NEW a \in Int, NEW b \in Int
  PROVE  Max({a, b}) = IF a <= b THEN b ELSE a
BY DEF Max

\* An index of a ring that was counted past its end comes round once.
LEMMA Wraps ==
  ASSUME NEW size \in Nat \ {0}, NEW x \in Nat, x < 2 * size
  PROVE  x % size = IF x < size THEN x ELSE x - size
<1>1. CASE x < size
  BY <1>1
<1>2. CASE x >= size
  <2> DEFINE r == x - size
  <2>1. r \in 0 .. size - 1 /\ x = 1 * size + r
    BY <1>2
  <2> QED
    BY <2>1, <1>2
<1> QED
  BY <1>1, <1>2

\* The slots of the candles, as the code computes them.
LEMMA SlotWraps ==
  ASSUME NEW size \in Nat \ {0}, NEW head \in 0 .. size - 1
  PROVE  /\ \A k \in 1 .. size :
              (head + size - k) % size = Slot(size, head, k) /\ Slot(size, head, k) \in 0 .. size - 1
         /\ (head + 1) % size = IF head + 1 < size THEN head + 1 ELSE 0
<1>0. size \in Nat /\ size > 0
  OBVIOUS
<1>1. ASSUME NEW k \in 1 .. size
      PROVE  (head + size - k) % size = Slot(size, head, k) /\ Slot(size, head, k) \in 0 .. size - 1
  <2>1. PICK x \in Nat : x = head + size - k /\ x < 2 * size
    BY <1>0
  <2>2. x % size = IF x < size THEN x ELSE x - size
    BY <2>1, Wraps
  <2> QED
    BY <1>0, <2>1, <2>2 DEF Slot
<1>2. (head + 1) % size = IF head + 1 < size THEN head + 1 ELSE 0
  <2>1. PICK x \in Nat : x = head + 1 /\ x < 2 * size /\ x <= size
    BY <1>0
  <2>2. x % size = IF x < size THEN x ELSE x - size
    BY <2>1, Wraps
  <2> QED
    BY <1>0, <2>1, <2>2
<1> QED
  BY <1>1, <1>2

\* Different candles have different slots, and when the ring's head moves on
\* every candle gets one older.
LEMMA SlotsDiffer ==
  ASSUME NEW size \in Nat \ {0}, NEW head \in 0 .. size - 1
  PROVE  /\ \A j, k \in 1 .. size : Slot(size, head, j) = Slot(size, head, k) => j = k
         /\ \A k \in 1 .. size - 1 : Slot(size, head, k) # head
         /\ LET next == IF head + 1 < size THEN head + 1 ELSE 0
            IN  /\ next \in 0 .. size - 1
                /\ Slot(size, next, 1) = head
                /\ \A k \in 2 .. size : Slot(size, next, k) = Slot(size, head, k - 1)
BY DEF Slot

-----------------------------------------------------------------------------
(* The store *)

\* A history after an update of its latest candle, and after a new one.
LEMMA Replaced ==
  ASSUME NEW q \in Seq(Candles), q # <<>>, NEW c \in Candles
  PROVE  /\ Append(Front(q), c) \in Seq(Candles) /\ Len(Append(Front(q), c)) = Len(q)
         /\ \A i \in 1 .. Len(q) - 1 : Append(Front(q), c)[i] = q[i]
         /\ Append(Front(q), c)[Len(q)] = c
<1>1. Len(q) \in Nat /\ Len(q) > 0 /\ \A i \in 1 .. Len(q) : q[i] \in Candles
  OBVIOUS
<1>2. PICK f : f = Front(q)
  OBVIOUS
<1>3. f \in Seq(Candles) /\ Len(f) = Len(q) - 1 /\ \A i \in 1 .. Len(q) - 1 : f[i] = q[i]
  <2>1. PICK n \in Int : n = Len(q) - 1
    BY <1>1
  <2>2. \A i \in 1 .. n : q[i] \in Candles
    BY <1>1, <2>1
  <2>3. /\ SubSeq(q, 1, n) \in Seq(Candles)
        /\ Len(SubSeq(q, 1, n)) = IF 1 <= n THEN n - 1 + 1 ELSE 0
        /\ \A i \in 1 .. n - 1 + 1 : SubSeq(q, 1, n)[i] = q[1 + i - 1]
    BY <2>2, SubSeqProperties
  <2>4. f = SubSeq(q, 1, n)
    BY <1>2, <2>1 DEF Front
  <2> QED
    BY <1>1, <2>1, <2>3, <2>4
<1>4. /\ Append(f, c) \in Seq(Candles) /\ Len(Append(f, c)) = Len(f) + 1
      /\ \A i \in 1 .. Len(f) : Append(f, c)[i] = f[i]
      /\ Append(f, c)[Len(f) + 1] = c
  BY <1>3
<1>5. /\ Append(f, c) \in Seq(Candles) /\ Len(Append(f, c)) = Len(q)
      /\ \A i \in 1 .. Len(q) - 1 : Append(f, c)[i] = q[i]
      /\ Append(f, c)[Len(q)] = c
  BY <1>1, <1>3, <1>4
<1> QED
  BY <1>2, <1>5, Zenon

LEMMA Extended ==
  ASSUME NEW q \in Seq(Candles), NEW c \in Candles
  PROVE  /\ Append(q, c) \in Seq(Candles) /\ Len(Append(q, c)) = Len(q) + 1
         /\ \A i \in 1 .. Len(q) : Append(q, c)[i] = q[i]
         /\ Append(q, c)[Len(q) + 1] = c
OBVIOUS

\* upsert_buffer does to the ring what the collector's stream does to the history.
LEMMA UpsertHolds ==
  ASSUME NEW b \in Rings, NEW q \in Seq(Candles), Holds(b, q), NEW c \in Candles
  PROVE  LET replaces == q # <<>> /\ Last(q).timestamp = c.timestamp
             longer == Append(IF replaces THEN Front(q) ELSE q, c)
         IN  /\ longer \in Seq(Candles) /\ Upsert(b, c) \in Rings
             /\ Holds(Upsert(b, c), longer)
             /\ Len(q) <= Len(longer) /\ Len(longer) >= 1
<1> DEFINE last == (b.head + Capacity - 1) % Capacity
           replaces == q # <<>> /\ Last(q).timestamp = c.timestamp
           longer == Append(IF replaces THEN Front(q) ELSE q, c)
<1>0. /\ Capacity \in Nat \ {0} /\ Capacity \in Nat /\ Capacity > 0
      /\ Len(q) \in Nat /\ b.head \in 0 .. Capacity - 1
      /\ b.size \in 0 .. Capacity /\ b.size = Smaller(Len(q), Capacity)
      /\ b.data \in [0 .. Capacity - 1 -> Candles \cup {NoCandle}]
  BY SignalsAssumption DEF Rings, Holds
<1>1. last = Slot(Capacity, b.head, 1) /\ last \in 0 .. Capacity - 1
  <2>1. 1 \in 1 .. Capacity
    BY <1>0
  <2>2. \A k \in 1 .. Capacity :
          /\ (b.head + Capacity - k) % Capacity = Slot(Capacity, b.head, k)
          /\ Slot(Capacity, b.head, k) \in 0 .. Capacity - 1
    BY <1>0, SlotWraps, Zenon
  <2> QED
    BY <2>1, <2>2, Zenon
<1>2. (b.size > 0 /\ b.data[last].timestamp = c.timestamp) <=> replaces
  <2>1. b.size > 0 <=> q # <<>>
    BY <1>0 DEF Smaller
  <2>2. b.size > 0 => b.data[last] = q[Len(q)]
    BY <1>0, <1>1 DEF Holds
  <2> QED
    BY <2>1, <2>2 DEF Last
<1> HIDE DEF last, replaces
<1>3. CASE replaces
  <2>1. Upsert(b, c) = [b EXCEPT !.data[last] = c]
    BY <1>2, <1>3 DEF Upsert, last
  <2>2. PICK u : u = Upsert(b, c)
    OBVIOUS
  <2>3. /\ u.head = b.head /\ u.size = b.size /\ u.data = [b.data EXCEPT ![last] = c]
        /\ u \in Rings
    BY <1>0, <1>1, <2>1, <2>2 DEF Rings
  <2>4. PICK p : p = Append(Front(q), c)
    OBVIOUS
  <2>5. q # <<>>
    BY <1>3 DEF replaces
  <2>6. /\ p \in Seq(Candles) /\ Len(p) = Len(q) /\ p[Len(q)] = c
        /\ \A i \in 1 .. Len(q) - 1 : p[i] = q[i]
    BY <2>4, <2>5, Replaced
  <2>7. ASSUME NEW k \in 1 .. u.size
        PROVE  u.data[Slot(Capacity, u.head, k)] = p[Len(p) - k + 1]
    <3>1. k \in 1 .. Capacity /\ k \in 1 .. b.size /\ k <= Len(q) /\ 1 \in 1 .. Capacity
      BY <1>0, <2>3 DEF Smaller
    <3>2. Slot(Capacity, b.head, k) \in 0 .. Capacity - 1
      BY <1>0, <3>1, SlotWraps
    <3>3. CASE k = 1
      BY <1>0, <1>1, <2>3, <2>6, <3>3
    <3>4. CASE k # 1
      <4>1. Slot(Capacity, b.head, k) # last
        BY <1>0, <1>1, <3>1, <3>4, SlotsDiffer
      <4>2. u.data[Slot(Capacity, u.head, k)] = q[Len(q) - k + 1]
        BY <1>0, <2>3, <3>1, <3>2, <4>1 DEF Holds
      <4>3. Len(q) - k + 1 \in 1 .. Len(q) - 1
        BY <1>0, <3>1, <3>4
      <4> QED
        BY <2>6, <4>2, <4>3
    <3> QED
      BY <3>3, <3>4
  <2>8. Holds(u, p)
    <3>1. DOMAIN u.data = 0 .. Capacity - 1 /\ u.size = Smaller(Len(p), Capacity)
      BY <1>0, <2>3, <2>6
    <3> QED
      BY <1>0, <2>3, <2>7, <3>1 DEF Holds
  <2>9. longer = p
    BY <1>3, <2>4
  <2>10. Len(q) <= Len(p) /\ Len(p) >= 1
    BY <1>0, <2>5, <2>6
  <2> QED
    BY <2>2, <2>3, <2>6, <2>8, <2>9, <2>10 DEF replaces
<1>4. CASE ~replaces
  <2>1. Upsert(b, c) = [data |-> [b.data EXCEPT ![b.head] = c],
                        head |-> (b.head + 1) % Capacity,
                        size |-> IF b.size < Capacity THEN b.size + 1 ELSE b.size]
    BY <1>2, <1>4 DEF Upsert, last
  <2>2. PICK u : u = Upsert(b, c)
    OBVIOUS
  <2>3. /\ u.head = (IF b.head + 1 < Capacity THEN b.head + 1 ELSE 0)
        /\ u.size = (IF b.size < Capacity THEN b.size + 1 ELSE b.size)
        /\ u.data = [b.data EXCEPT ![b.head] = c]
    <3>1. (b.head + 1) % Capacity = IF b.head + 1 < Capacity THEN b.head + 1 ELSE 0
      BY <1>0, SlotWraps, Zenon
    <3> QED
      BY <2>1, <2>2, <3>1
  <2>4. u \in Rings /\ u.head \in 0 .. Capacity - 1 /\ u.size \in 0 .. Capacity
    <3>1. u.head \in 0 .. Capacity - 1 /\ u.size \in 0 .. Capacity
      BY <1>0, <2>3
    <3>2. u.data \in [0 .. Capacity - 1 -> Candles \cup {NoCandle}]
      BY <1>0, <2>3
    <3>3. u = [data |-> u.data, head |-> u.head, size |-> u.size]
      BY <2>1, <2>2
    <3> QED
      BY <3>1, <3>2, <3>3 DEF Rings
  <2>5. PICK p : p = Append(q, c)
    OBVIOUS
  <2>6. /\ p \in Seq(Candles) /\ Len(p) = Len(q) + 1 /\ p[Len(q) + 1] = c
        /\ \A i \in 1 .. Len(q) : p[i] = q[i]
    BY <2>5, Extended
  <2>7. ASSUME NEW k \in 1 .. u.size
        PROVE  u.data[Slot(Capacity, u.head, k)] = p[Len(p) - k + 1]
    <3>1. k \in 1 .. Capacity /\ k <= Len(q) + 1
      BY <1>0, <2>3, <2>4 DEF Smaller
    <3>2. CASE k = 1
      <4>1. Slot(Capacity, u.head, 1) = b.head
        BY <1>0, <2>3, SlotsDiffer
      <4> QED
        BY <1>0, <2>3, <2>6, <3>2, <4>1
    <3>3. CASE k # 1
      <4>1. k \in 2 .. Capacity /\ k - 1 \in 1 .. Capacity - 1 /\ k - 1 \in 1 .. b.size
        BY <1>0, <2>3, <3>1, <3>3
      <4>2. Slot(Capacity, u.head, k) = Slot(Capacity, b.head, k - 1) /\ Slot(Capacity, b.head, k - 1) # b.head
        BY <1>0, <2>3, <4>1, SlotsDiffer
      <4>3. Slot(Capacity, b.head, k - 1) \in 0 .. Capacity - 1
        BY <1>0, <4>1 DEF Slot
      <4>4. u.data[Slot(Capacity, u.head, k)] = b.data[Slot(Capacity, b.head, k - 1)]
        BY <1>0, <2>3, <4>2, <4>3
      <4>5. b.data[Slot(Capacity, b.head, k - 1)] = q[Len(q) - (k - 1) + 1]
        BY <4>1 DEF Holds
      <4>6. Len(p) - k + 1 = Len(q) - (k - 1) + 1 /\ Len(p) - k + 1 \in 1 .. Len(q)
        BY <1>0, <2>6, <3>1, <4>1
      <4> QED
        BY <2>6, <4>4, <4>5, <4>6
    <3> QED
      BY <3>2, <3>3
  <2>8. Holds(u, p)
    <3>1. DOMAIN u.data = 0 .. Capacity - 1 /\ u.size = Smaller(Len(p), Capacity)
      BY <1>0, <2>3, <2>6 DEF Smaller
    <3> QED
      BY <2>4, <2>7, <3>1 DEF Holds
  <2>9. longer = p
    BY <1>4, <2>5
  <2>10. Len(q) <= Len(p) /\ Len(p) >= 1
    BY <1>0, <2>6
  <2> QED
    BY <2>2, <2>4, <2>6, <2>8, <2>9, <2>10 DEF replaces
<1> QED
  BY <1>3, <1>4

\* The newest candles of a history.
LEMMA NewestIs ==
  ASSUME NEW q \in Seq(Candles), NEW n \in Nat \ {0}
  PROVE  /\ Newest(q, n) \in Seq(Candles) /\ Len(Newest(q, n)) = Smaller(n, Len(q))
         /\ \A i \in 1 .. Smaller(n, Len(q)) : Newest(q, n)[i] = q[Len(q) - Smaller(n, Len(q)) + i]
<1>1. PICK l \in Nat : l = Len(q) /\ \A i \in 1 .. l : q[i] \in Candles
  OBVIOUS
<1>2. PICK m \in Int : m = Max({1, l - n + 1})
  BY <1>1, MaxOfTwo
<1>3. m = IF n <= l THEN l - n + 1 ELSE 1
  BY <1>1, <1>2, MaxOfTwo
<1>4. PICK w : w = SubSeq(q, m, l)
  OBVIOUS
<1>5. \A i \in m .. l : q[i] \in Candles
  BY <1>1, <1>3
<1>6. /\ w \in Seq(Candles) /\ Len(w) = IF m <= l THEN l - m + 1 ELSE 0
      /\ \A i \in 1 .. l - m + 1 : w[i] = q[m + i - 1]
  BY <1>4, <1>5, SubSeqProperties
<1>7. PICK k \in Nat : k = Smaller(n, l) /\ Len(w) = k /\ l - m + 1 = k /\ m - 1 = l - k
  <2>1. PICK k \in Nat : k = Smaller(n, l)
    BY DEF Smaller
  <2>2. l - m + 1 = k /\ m - 1 = l - k
    BY <1>3, <2>1 DEF Smaller
  <2>3. Len(w) = k
    BY <1>6, <2>2
  <2> QED
    BY <2>1, <2>2, <2>3
<1>8. \A i \in 1 .. k : w[i] = q[l - k + i]
  <2> SUFFICES ASSUME NEW i \in 1 .. k PROVE w[i] = q[l - k + i]
    OBVIOUS
  <2>1. i \in 1 .. l - m + 1 /\ m + i - 1 = l - k + i
    BY <1>7
  <2> QED
    BY <1>6, <2>1
<1>9. Newest(q, n) = w
  BY <1>1, <1>2, <1>4 DEF Newest
<1> QED
  BY <1>1, <1>6, <1>7, <1>8, <1>9

\* latest_buffer returns the newest candles, oldest first.
LEMMA LatestIsNewest ==
  ASSUME NEW b \in Rings, NEW q \in Seq(Candles), Holds(b, q), NEW n \in 1 .. Capacity
  PROVE  Latest(b, n) = Newest(q, n)
<1>0. /\ Capacity \in Nat \ {0} /\ Capacity \in Nat /\ Capacity > 0 /\ Len(q) \in Nat /\ n \in Nat \ {0}
      /\ b.head \in 0 .. Capacity - 1 /\ b.size = Smaller(Len(q), Capacity) /\ b.size \in Nat
  BY SignalsAssumption DEF Rings, Holds, Smaller
<1>1. PICK count \in Nat : count = Min({n, b.size}) /\ count = Smaller(n, Len(q)) /\ count <= b.size
                          /\ count <= Capacity
  BY <1>0, MinOfTwo DEF Smaller
<1>2. PICK start : start = (b.head + Capacity - count) % Capacity
  OBVIOUS
<1>3. Latest(b, n) = [i \in 1 .. count |-> b.data[(start + i - 1) % Capacity]]
  BY <1>1, <1>2 DEF Latest
<1>4. ASSUME NEW i \in 1 .. count
      PROVE  b.data[(start + i - 1) % Capacity] = q[Len(q) - count + i]
  <2>1. PICK k \in 1 .. count : k = count - i + 1
    BY <1>1
  <2>2. count \in 1 .. Capacity /\ k \in 1 .. b.size
    BY <1>0, <1>1
  <2>3. start = Slot(Capacity, b.head, count) /\ start \in 0 .. Capacity - 1
    <3>1. \A j \in 1 .. Capacity :
            /\ (b.head + Capacity - j) % Capacity = Slot(Capacity, b.head, j)
            /\ Slot(Capacity, b.head, j) \in 0 .. Capacity - 1
      BY <1>0, SlotWraps, Zenon
    <3> QED
      BY <1>2, <2>2, <3>1, Zenon
  <2>4. PICK x \in Nat : x = start + i - 1 /\ x < 2 * Capacity
    BY <1>0, <1>1, <2>2, <2>3
  <2>5. x % Capacity = IF x < Capacity THEN x ELSE x - Capacity
    BY <1>0, <2>4, Wraps
  <2>6. x % Capacity = Slot(Capacity, b.head, k)
    <3>1. PICK head \in 0 .. Capacity - 1 : head = b.head
      BY <1>0
    <3>2. PICK y : y = x % Capacity
      OBVIOUS
    <3>3. CASE count <= head
      <4>1. x = head - k /\ x < Capacity /\ k <= head
        <5>1. start = head - count
          BY <2>3, <3>1, <3>3 DEF Slot
        <5> QED
          BY <1>0, <2>1, <2>4, <3>3, <5>1
      <4> QED
        BY <2>5, <3>1, <4>1 DEF Slot
    <3>4. CASE count > head
      <4>1. x = head + Capacity - k
        <5>1. start = head + Capacity - count
          BY <1>0, <2>3, <3>1, <3>4 DEF Slot
        <5> QED
          BY <1>0, <2>1, <2>4, <5>1
      <4>2. y = IF x < Capacity THEN x ELSE x - Capacity
        BY <2>5, <3>2
      <4> QED
        <5>1. y = IF k <= head THEN head - k ELSE head + Capacity - k
          BY <1>0, <4>1, <4>2
        <5> QED
          BY <3>1, <3>2, <5>1 DEF Slot
    <3> QED
      BY <1>0, <3>3, <3>4
  <2>7. b.data[Slot(Capacity, b.head, k)] = q[Len(q) - k + 1]
    BY <2>2 DEF Holds
  <2>8. Len(q) - k + 1 = Len(q) - count + i
    BY <1>0, <2>1
  <2> QED
    BY <2>4, <2>6, <2>7, <2>8
<1>5. PICK w : w = Newest(q, n)
  OBVIOUS
<1>6. w \in Seq(Candles) /\ Len(w) = count /\ \A i \in 1 .. count : w[i] = q[Len(q) - count + i]
  BY <1>0, <1>1, <1>5, NewestIs
<1>7. w = [i \in 1 .. count |-> q[Len(q) - count + i]]
  BY <1>6
<1> QED
  BY <1>3, <1>4, <1>5, <1>7

LEMMA RoundIsInt ==
  ASSUME NEW n \in Int, NEW d \in Nat \ {0}
  PROVE  Round(n, d) \in Int
<1>1. ASSUME NEW m \in Int PROVE (2 * m * RoundFactor + d) \div (2 * d) \in Int
  <2>1. PICK x \in Int : x = 2 * m * RoundFactor + d
    BY SignalsAssumption
  <2>2. PICK y \in Nat \ {0} : y = 2 * d
    OBVIOUS
  <2>3. x \div y \in Int
    OBVIOUS
  <2> QED
    BY <2>1, <2>2, <2>3
<1>2. PICK up, down \in Int : /\ up = (2 * n * RoundFactor + d) \div (2 * d)
                             /\ down = (2 * (0 - n) * RoundFactor + d) \div (2 * d)
  <2>1. 0 - n \in Int
    OBVIOUS
  <2> QED
    BY <1>1, <2>1, Zenon
<1>3. Round(n, d) = IF n < 0 THEN 0 - down ELSE up
  BY <1>2, Zenon DEF Round
<1> QED
  BY <1>3

\* The return from the history: missing for fewer than two candles, and only then.
Counted(q, lookback) == Smaller(lookback, Smaller(Len(q), Capacity))

LEMMA ReturnIs ==
  ASSUME NEW q \in Seq(Candles), NEW lookback \in Nat, 1 < lookback
  PROVE  LET n == Len(q)
             m == Counted(q, lookback)
         IN  /\ m < 2 => ReturnOf(q, lookback) = Absent
             /\ m >= 2 => /\ ReturnOf(q, lookback) =
                               Round(q[n].close - q[n - m + 1].close, q[n - m + 1].close)
                          /\ ReturnOf(q, lookback) \in Int
<1>1. PICK n \in Nat : n = Len(q) /\ \A i \in 1 .. n : q[i] \in Candles
  OBVIOUS
<1>2. PICK k \in Nat \ {0} : k = Min({lookback, Capacity}) /\ k = Smaller(lookback, Capacity)
  BY SignalsAssumption, MinOfTwo DEF Smaller
<1>3. PICK m \in Nat : m = Counted(q, lookback) /\ m = Smaller(k, n) /\ m <= n
  BY SignalsAssumption, <1>1, <1>2 DEF Counted, Smaller
<1>4. PICK w : w = Newest(q, k)
  OBVIOUS
<1>5. w \in Seq(Candles) /\ Len(w) = m /\ \A i \in 1 .. m : w[i] = q[n - m + i]
  <2>1. /\ w \in Seq(Candles) /\ Len(w) = Smaller(k, Len(q))
        /\ \A i \in 1 .. Smaller(k, Len(q)) : w[i] = q[Len(q) - Smaller(k, Len(q)) + i]
    BY <1>4, NewestIs, Zenon
  <2>2. Smaller(k, Len(q)) = m
    BY <1>1, <1>3
  <2> QED
    BY <1>1, <2>1, <2>2, Zenon
<1>6. ReturnOf(q, lookback) =
        IF Len(w) < 2 THEN Absent ELSE Round(Last(w).close - w[1].close, w[1].close)
  BY <1>2, <1>4 DEF ReturnOf
<1>7. CASE m < 2
  BY <1>1, <1>3, <1>5, <1>6, <1>7
<1>8. CASE m >= 2
  <2>1. 1 \in 1 .. m /\ m \in 1 .. m /\ n - m + m = n /\ n - m + 1 \in 1 .. n /\ n \in 1 .. n
    BY <1>3, <1>8
  <2>2. Last(w) = q[n] /\ w[1] = q[n - m + 1]
    BY <1>5, <2>1 DEF Last
  <2>3. q[n].close \in Int /\ q[n - m + 1].close \in Nat \ {0}
    <3>1. \A c \in Candles : c.close \in Int /\ c.close \in Nat \ {0}
      BY DEF Candles
    <3> QED
      BY <1>1, <2>1, <3>1, Zenon
  <2>4. ReturnOf(q, lookback) = Round(q[n].close - q[n - m + 1].close, q[n - m + 1].close)
    BY <1>5, <1>6, <1>8, <2>2
  <2>5. Round(q[n].close - q[n - m + 1].close, q[n - m + 1].close) \in Int
    <3>1. PICK d \in Nat \ {0} : d = q[n - m + 1].close
      BY <2>3
    <3>2. PICK x \in Int : x = q[n].close - d
      BY <2>3
    <3>3. Round(x, d) \in Int
      BY RoundIsInt
    <3> QED
      BY <3>1, <3>2, <3>3
  <2> QED
    BY <1>1, <1>3, <1>8, <2>4, <2>5
<1> QED
  BY <1>3, <1>7, <1>8

\* cumulative_return_buffer computes it from the ring.
LEMMA CumulativeIsReturn ==
  ASSUME NEW b \in Rings, NEW q \in Seq(Candles), Holds(b, q), NEW lookback \in Nat, 1 < lookback
  PROVE  CumulativeReturn(b, lookback) = ReturnOf(q, lookback)
<1>0. /\ Capacity \in Nat \ {0} /\ Capacity \in Nat /\ Capacity > 0 /\ b.head \in 0 .. Capacity - 1
      /\ b.size = Smaller(Len(q), Capacity) /\ b.size \in 0 .. Capacity
  BY SignalsAssumption DEF Rings, Holds
<1>1. PICK n \in Nat : n = Len(q) /\ \A i \in 1 .. n : q[i] \in Candles
  OBVIOUS
<1>2. PICK m \in Nat : m = Min({lookback, b.size}) /\ m = Counted(q, lookback) /\ m <= b.size /\ m <= n
  BY <1>0, <1>1, MinOfTwo DEF Counted, Smaller
<1>3. PICK first, last : /\ first = b.data[(b.head + Capacity - m) % Capacity].close
                         /\ last = b.data[(b.head + Capacity - 1) % Capacity].close
  OBVIOUS
<1>4. CumulativeReturn(b, lookback) = IF m < 2 \/ first <= 0 THEN Absent ELSE Round(last - first, first)
  BY <1>2, <1>3 DEF CumulativeReturn
<1>5. CASE m < 2
  BY <1>2, <1>4, <1>5, ReturnIs
<1>6. CASE m >= 2
  <2>1. /\ 1 \in 1 .. Capacity /\ m \in 1 .. Capacity /\ 1 \in 1 .. b.size /\ m \in 1 .. b.size
        /\ n - m + 1 \in 1 .. n /\ n - 1 + 1 = n
    BY <1>0, <1>1, <1>2, <1>6
  <2>2. \A k \in 1 .. Capacity : (b.head + Capacity - k) % Capacity = Slot(Capacity, b.head, k)
    BY <1>0, SlotWraps
  <2>3. \A k \in 1 .. b.size : b.data[Slot(Capacity, b.head, k)] = q[n - k + 1]
    BY <1>1 DEF Holds
  <2>4. first = q[n - m + 1].close /\ last = q[n].close
    <3>1. (b.head + Capacity - m) % Capacity = Slot(Capacity, b.head, m)
          /\ (b.head + Capacity - 1) % Capacity = Slot(Capacity, b.head, 1)
      BY <2>1, <2>2, Zenon
    <3>2. b.data[Slot(Capacity, b.head, m)] = q[n - m + 1] /\ b.data[Slot(Capacity, b.head, 1)] = q[n - 1 + 1]
      BY <2>1, <2>3, Zenon
    <3> QED
      BY <1>3, <2>1, <3>1, <3>2, Zenon
  <2>5. first \in Nat /\ first > 0
    BY <1>1, <2>1, <2>4 DEF Candles
  <2>6. CumulativeReturn(b, lookback) = Round(q[n].close - q[n - m + 1].close, q[n - m + 1].close)
    BY <1>4, <1>6, <2>4, <2>5
  <2> QED
    BY <1>1, <1>2, <1>6, <2>6, ReturnIs
<1> QED
  BY <1>2, <1>5, <1>6

-----------------------------------------------------------------------------
(* The scanner *)

LEMMA InitMarketInv == Init => MarketInv
<1> SUFFICES ASSUME Init PROVE MarketInv
  OBVIOUS
<1>0. Capacity \in Nat /\ Capacity > 0
  BY SignalsAssumption
<1>1. <<>> \in Seq(Candles) /\ Len(<<>>) = 0
  OBVIOUS
<1>2. RingsInv
  <2>1. EmptyRing \in Rings
    BY <1>0 DEF EmptyRing, Rings
  <2>2. Holds(EmptyRing, <<>>)
    BY <1>0, <1>1 DEF EmptyRing, Holds, Smaller
  <2> QED
    BY <1>1, <2>1, <2>2 DEF Init, RingsInv
<1>3. ReturnOf(<<>>, Short) = Absent /\ ReturnOf(<<>>, Long) = Absent
  <2>1. Counted(<<>>, Short) < 2 /\ Counted(<<>>, Long) < 2
    BY SignalsAssumption, <1>0, <1>1 DEF Counted, Smaller
  <2>2. Short \in Nat /\ 1 < Short /\ Long \in Nat /\ 1 < Long
    BY SignalsAssumption
  <2> QED
    BY <1>1, <2>1, <2>2, ReturnIs
<1>4. ReturnsInv
  BY <1>1, <1>3 DEF Init, ReturnsInv
<1>5. TopInv
  <2>1. Above(short) = {}
    BY DEF Init, Above
  <2> QED
    BY <2>1 DEF TopInv, Best
<1> QED
  BY <1>2, <1>4, <1>5 DEF MarketInv

\* A tick moves the ring and the history of its symbol together.
LEMMA TickKeepsRings ==
  ASSUME RingsInv, NEW s \in Symbols, NEW price \in Prices, NEW elapsed \in {0, 1},
         NEW isClosed \in BOOLEAN, Tick(s, price, elapsed, isClosed)
  PROVE  /\ RingsInv'
         /\ \A t \in Symbols : Len(candles[t]) <= Len(candles'[t])
         /\ \A t \in Symbols \ {s} : candles'[t] = candles[t]
<1>1. PICK c : c = [timestamp |-> time', close |-> price]
  OBVIOUS
<1>2. time' = time + elapsed /\ time' \in Int /\ c \in Candles /\ c.timestamp = time'
  BY <1>1, SignalsAssumption DEF Tick, RingsInv, Candles
<1>3. PICK b, q : b = ring[s] /\ q = candles[s]
  OBVIOUS
<1>4. b \in Rings /\ q \in Seq(Candles) /\ Holds(b, q)
  BY <1>3 DEF RingsInv
<1>5. PICK p : p = Append(IF q # <<>> /\ Last(q).timestamp = c.timestamp THEN Front(q) ELSE q, c)
  OBVIOUS
<1>6. /\ p \in Seq(Candles) /\ Upsert(b, c) \in Rings /\ Holds(Upsert(b, c), p)
      /\ Len(q) <= Len(p)
  BY <1>2, <1>4, <1>5, UpsertHolds
<1>7. ring' = [ring EXCEPT ![s] = Upsert(b, c)] /\ candles' = [candles EXCEPT ![s] = p]
  BY <1>1, <1>2, <1>3, <1>5 DEF Tick, RingsInv
<1>8. ring \in [Symbols -> Rings] /\ candles \in [Symbols -> Seq(Candles)]
  BY DEF RingsInv
<1>9. ring' \in [Symbols -> Rings] /\ candles' \in [Symbols -> Seq(Candles)]
  BY <1>6, <1>7, <1>8
<1>10. /\ ring'[s] = Upsert(b, c) /\ candles'[s] = p
       /\ \A t \in Symbols \ {s} : ring'[t] = ring[t] /\ candles'[t] = candles[t]
  BY <1>7, <1>8
<1>11. ASSUME NEW t \in Symbols
       PROVE  Holds(ring'[t], candles'[t]) /\ Len(candles[t]) <= Len(candles'[t])
  <2>1. CASE t = s
    BY <1>3, <1>6, <1>10, <2>1, Zenon
  <2>2. CASE t # s
    <3>1. ring'[t] = ring[t] /\ candles'[t] = candles[t] /\ Holds(ring[t], candles[t])
      BY <1>10, <2>2 DEF RingsInv
    <3>2. Len(candles[t]) <= Len(candles[t])
      BY <1>8
    <3> QED
      BY <3>1, <3>2, Zenon
  <2> QED
    BY <2>1, <2>2
<1>12. RingsInv'
  <2>1. \A t \in Symbols : Holds(ring[t], candles[t])'
    BY <1>11 DEF Holds
  <2> QED
    BY <1>2, <1>9, <2>1 DEF RingsInv
<1> QED
  BY <1>10, <1>11, <1>12

\* A return missing from a longer history was missing from a shorter one, so
\* that update_cache never leaves a stale entry.
LEMMA CacheFollows ==
  ASSUME NEW cache, DOMAIN cache = Symbols, NEW s \in Symbols, NEW lookback \in Nat, 1 < lookback,
         NEW old \in Seq(Candles), NEW q \in Seq(Candles), Len(old) <= Len(q),
         cache[s] = ReturnOf(old, lookback)
  PROVE  LET new == UpdateCache(cache, s, ReturnOf(q, lookback))
         IN  /\ DOMAIN new = Symbols /\ new[s] = ReturnOf(q, lookback)
             /\ \A t \in Symbols \ {s} : new[t] = cache[t]
<1>0. Len(old) \in Nat /\ Len(q) \in Nat /\ Capacity \in Nat
  BY SignalsAssumption
<1>1. PICK r : r = ReturnOf(q, lookback)
  OBVIOUS
<1>2. CASE r = Absent
  <2>1. Counted(q, lookback) < 2
    <3>1. Counted(q, lookback) \in Nat
      BY <1>0 DEF Counted, Smaller
    <3>2. Counted(q, lookback) >= 2 => r \in Int
      BY <1>1, ReturnIs
    <3> QED
      BY <1>2, <3>1, <3>2, SignalsAssumption
  <2>2. Counted(old, lookback) < 2
    BY <1>0, <2>1 DEF Counted, Smaller
  <2>3. cache[s] = Absent
    BY <2>2, ReturnIs
  <2>4. UpdateCache(cache, s, r) = cache
    BY <1>2 DEF UpdateCache
  <2> QED
    BY <1>1, <1>2, <2>3, <2>4
<1>3. CASE r # Absent
  <2>1. UpdateCache(cache, s, r) = [cache EXCEPT ![s] = r]
    BY <1>3 DEF UpdateCache
  <2>2. PICK new : new = UpdateCache(cache, s, r)
    OBVIOUS
  <2>3. DOMAIN new = Symbols /\ new[s] = r /\ \A t \in Symbols \ {s} : new[t] = cache[t]
    BY <2>1, <2>2
  <2> QED
    BY <1>1, <2>2, <2>3
<1> QED
  BY <1>2, <1>3

LEMMA TickKeepsReturns ==
  ASSUME MarketInv, NEW s \in Symbols, NEW price \in Prices, NEW elapsed \in {0, 1},
         NEW isClosed \in BOOLEAN, Tick(s, price, elapsed, isClosed)
  PROVE  ReturnsInv' /\ TopInv'
<1>0. /\ Short \in Nat /\ 1 < Short /\ Long \in Nat /\ 1 < Long
      /\ RingsInv /\ ReturnsInv /\ TopInv
  BY SignalsAssumption DEF MarketInv
<1>1. /\ RingsInv' /\ \A t \in Symbols : Len(candles[t]) <= Len(candles'[t])
  BY <1>0, TickKeepsRings
<1>2. \A t \in Symbols : /\ candles[t] \in Seq(Candles) /\ candles'[t] \in Seq(Candles)
                         /\ closed[t] \in Seq(Candles)
                         /\ Len(closed[t]) \in Nat /\ Len(candles[t]) \in Nat /\ Len(candles'[t]) \in Nat
                         /\ Len(closed[t]) <= Len(candles[t])
  BY <1>0, <1>1 DEF RingsInv, ReturnsInv
<1>3. \A t \in Symbols : Len(closed[t]) <= Len(candles'[t])
  BY <1>1, <1>2
<1>4. CASE isClosed
  <2>1. PICK b, q : b = ring'[s] /\ q = candles'[s]
    OBVIOUS
  <2>2. b \in Rings /\ q \in Seq(Candles) /\ Holds(b, q)
    BY <1>1, <2>1 DEF RingsInv, Holds
  <2>3. CumulativeReturn(b, Short) = ReturnOf(q, Short) /\ CumulativeReturn(b, Long) = ReturnOf(q, Long)
    BY <1>0, <2>2, CumulativeIsReturn
  <2>4. /\ short' = UpdateCache(short, s, ReturnOf(q, Short))
        /\ long' = UpdateCache(long, s, ReturnOf(q, Long))
        /\ Rank(short')
        /\ closed' = [closed EXCEPT ![s] = q]
    BY <1>4, <2>1, <2>3 DEF Tick, OnMarketEvent
  <2>5. /\ DOMAIN short' = Symbols /\ short'[s] = ReturnOf(q, Short)
        /\ \A t \in Symbols \ {s} : short'[t] = short[t]
    <3>1. DOMAIN short = Symbols /\ short[s] = ReturnOf(closed[s], Short) /\ Len(closed[s]) <= Len(q)
          /\ closed[s] \in Seq(Candles)
      BY <1>0, <1>2, <1>3, <2>1 DEF ReturnsInv
    <3> QED
      BY <1>0, <2>2, <2>4, <3>1, CacheFollows
  <2>6. /\ DOMAIN long' = Symbols /\ long'[s] = ReturnOf(q, Long)
        /\ \A t \in Symbols \ {s} : long'[t] = long[t]
    <3>1. DOMAIN long = Symbols /\ long[s] = ReturnOf(closed[s], Long) /\ Len(closed[s]) <= Len(q)
          /\ closed[s] \in Seq(Candles)
      BY <1>0, <1>2, <1>3, <2>1 DEF ReturnsInv
    <3> QED
      BY <1>0, <2>2, <2>4, <3>1, CacheFollows
  <2>7. /\ closed' \in [Symbols -> Seq(Candles)] /\ closed'[s] = q
        /\ \A t \in Symbols \ {s} : closed'[t] = closed[t]
    BY <1>0, <2>2, <2>4 DEF ReturnsInv
  <2>8. ASSUME NEW t \in Symbols
        PROVE  /\ Len(closed'[t]) <= Len(candles'[t])
               /\ short'[t] = ReturnOf(closed'[t], Short) /\ long'[t] = ReturnOf(closed'[t], Long)
    <3>1. CASE t = s
      <4>1. Len(q) <= Len(q)
        BY <2>2
      <4> QED
        BY <2>1, <2>5, <2>6, <2>7, <3>1, <4>1, Zenon
    <3>2. CASE t # s
      <4>1. /\ closed'[t] = closed[t] /\ short'[t] = short[t] /\ long'[t] = long[t]
            /\ Len(closed[t]) <= Len(candles'[t])
        BY <1>3, <2>5, <2>6, <2>7, <3>2
      <4>2. short[t] = ReturnOf(closed[t], Short) /\ long[t] = ReturnOf(closed[t], Long)
        BY <1>0 DEF ReturnsInv
      <4> QED
        BY <4>1, <4>2, Zenon
    <3> QED
      BY <3>1, <3>2
  <2>9. ReturnsInv'
    <3>1. \A t \in Symbols : (short[t] = ReturnOf(closed[t], Short) /\ long[t] = ReturnOf(closed[t], Long))'
      BY <2>8 DEF ReturnOf
    <3> QED
      BY <2>5, <2>6, <2>7, <2>8, <3>1 DEF ReturnsInv
  <2>10. TopInv'
    <3>1. Best(short') = {} \/ top' \in Best(short')
      BY <2>4 DEF Rank
    <3> QED
      BY <3>1 DEF TopInv, Best, Above
  <2> QED
    BY <2>9, <2>10
<1>5. CASE ~isClosed
  <2>1. UNCHANGED <<short, long, top, closed>>
    BY <1>5 DEF Tick
  <2>2. ReturnsInv'
    BY <1>0, <1>3, <2>1 DEF ReturnsInv, ReturnOf
  <2>3. TopInv'
    BY <1>0, <2>1 DEF TopInv, Best, Above
  <2> QED
    BY <2>2, <2>3
<1> QED
  BY <1>4, <1>5

LEMMA NextMarketInv == MarketInv /\ [Next]_vars => MarketInv'
<1> SUFFICES ASSUME MarketInv, [Next]_vars PROVE MarketInv'
  OBVIOUS
<1>1. ASSUME NEW s \in Symbols, NEW price \in Prices, NEW elapsed \in {0, 1},
             NEW isClosed \in BOOLEAN, Tick(s, price, elapsed, isClosed)
      PROVE  MarketInv'
  <2>1. RingsInv'
    BY <1>1, TickKeepsRings DEF MarketInv
  <2>2. ReturnsInv' /\ TopInv'
    BY <1>1, TickKeepsReturns
  <2> QED
    BY <2>1, <2>2 DEF MarketInv
<1>2. CASE UNCHANGED <<ring, short, long, top, time, candles, closed>>
  <2>1. RingsInv'
    BY <1>2 DEF MarketInv, RingsInv, Holds
  <2>2. ReturnsInv'
    BY <1>2 DEF MarketInv, ReturnsInv, ReturnOf
  <2>3. TopInv'
    BY <1>2 DEF MarketInv, TopInv, Best, Above
  <2> QED
    BY <2>1, <2>2, <2>3 DEF MarketInv
<1>3. CASE ResetStrategy
  BY <1>2, <1>3 DEF ResetStrategy
<1>4. CASE UNCHANGED vars
  BY <1>2, <1>4 DEF vars
<1> QED
  BY <1>1, <1>3, <1>4 DEF Next

LEMMA SpecMarketInv == Spec => []MarketInv
BY InitMarketInv, NextMarketInv, PTL DEF Spec

\* ScannerFollowsMarket, for every capacity of MarketDataStore's rings and every
\* pair of lookbacks of SymbolScanner: candles that wrap the ring, updates of
\* the latest one and hash-map ties included.
THEOREM ScannerAlwaysFollows == Spec => []ScannerFollowsMarket
<1>1. MarketInv => ScannerFollowsMarket
  <2> SUFFICES ASSUME MarketInv PROVE ScannerFollowsMarket
    OBVIOUS
  <2>1. ASSUME NEW s \in Symbols, NEW n \in 1 .. Capacity
        PROVE  Latest(ring[s], n) = Newest(candles[s], n)
    <3>1. ring[s] \in Rings /\ candles[s] \in Seq(Candles) /\ Holds(ring[s], candles[s])
      BY DEF MarketInv, RingsInv
    <3> QED
      BY <3>1, LatestIsNewest
  <2> QED
    BY <2>1 DEF ScannerFollowsMarket, MarketInv, ReturnsInv, TopInv
<1> QED
  BY <1>1, SpecMarketInv, PTL

-----------------------------------------------------------------------------
(* Fractions *)

\* A set of natural numbers has a least one.
LEMMA LeastNatural ==
  ASSUME NEW T \in SUBSET Nat, T # {}
  PROVE  \E x \in T : \A y \in T : x <= y
<1>1. PICK R : R = OpToRel(<, Nat)
  OBVIOUS
<1>2. IsWellFoundedOn(R, Nat)
  BY <1>1, NatLessThanWellFounded
<1>3. \A a, b \in Nat : <<a, b>> \in R <=> a < b
  BY <1>1 DEF OpToRel
<1>4. PICK x \in T : \A y \in T : ~(<<y, x>> \in R)
  BY <1>2, WFMin
<1>5. T \subseteq Nat
  OBVIOUS
<1>6. \A y \in T : y \in Nat /\ x \in Nat /\ ~(y < x)
  BY <1>3, <1>4, <1>5
<1> QED
  BY <1>6

Divides(c, x) == \E k \in Nat : x = c * k

\* A divisor of b divides a exactly if it divides what is left of a.
LEMMA DividesRest ==
  ASSUME NEW a \in Nat, NEW b \in Nat \ {0}, NEW c \in Nat, Divides(c, b)
  PROVE  /\ a % b \in Nat /\ a % b < b
         /\ Divides(c, a) <=> Divides(c, a % b)
<1>1. PICK k \in Nat : b = c * k
  BY DEF Divides
<1>2. PICK q \in Nat, r \in Nat : r = a % b /\ r < b /\ a = b * q + r
  <2>1. a % b \in Nat /\ a % b < b
    OBVIOUS
  <2>2. a \div b \in Nat
    OBVIOUS
  <2>3. a = b * (a \div b) + (a % b)
    OBVIOUS
  <2> QED
    BY <2>1, <2>2, <2>3
<1>3. c > 0
  BY <1>1
<1>4. k * q \in Nat /\ b * q = c * (k * q)
  BY <1>1
<1>5. ASSUME NEW j \in Nat, a = c * j PROVE Divides(c, r)
  <2>1. PICK x \in Nat, i \in Int : x = k * q /\ i = j - x
    BY <1>4
  <2>2. r = c * i
    <3>1. r = c * j - c * x
      <4>1. PICK u \in Int, v \in Int : u = c * x /\ v = c * j
        OBVIOUS
      <4>2. b * q = u /\ a = v
        BY <1>4, <1>5, <2>1, <4>1, Zenon
      <4>3. v = u + r
        BY <1>2, <4>2, Zenon
      <4> QED
        BY <4>1, <4>3
    <3>2. c * j - c * x = c * (j - x)
      OBVIOUS
    <3> QED
      BY <2>1, <3>1, <3>2
  <2>3. i \in Nat
    BY <1>2, <1>3, <2>2
  <2> QED
    BY <2>2, <2>3 DEF Divides
<1>6. ASSUME NEW j \in Nat, r = c * j PROVE Divides(c, a)
  <2>1. PICK x \in Nat, i \in Nat : x = k * q /\ i = x + j
    BY <1>4
  <2>2. a = c * i
    <3>1. a = c * x + c * j
      BY <1>2, <1>4, <1>6, <2>1, Zenon
    <3>2. c * x + c * j = c * (x + j)
      OBVIOUS
    <3> QED
      BY <2>1, <3>1, <3>2
  <2> QED
    BY <2>2 DEF Divides
<1> QED
  BY <1>2, <1>5, <1>6 DEF Divides

\* Numbers that divide each other are equal.
LEMMA DividesBoth ==
  ASSUME NEW x \in Nat, NEW y \in Nat, Divides(x, y), Divides(y, x)
  PROVE  x = y
<1>1. PICK i \in Nat, j \in Nat : y = x * i /\ x = y * j
  BY DEF Divides
<1>2. CASE x = 0 \/ y = 0
  BY <1>1, <1>2
<1>3. CASE x > 0 /\ y > 0
  <2>1. i >= 1 /\ j >= 1
    BY <1>1, <1>3
  <2>2. y >= x
    BY <1>1, <1>3, <2>1
  <2>3. x >= y
    BY <1>1, <1>3, <2>1
  <2> QED
    BY <2>2, <2>3
<1> QED
  BY <1>2, <1>3

\* gcd is the number whose divisors are the common ones.
Common(p) == {c \in Nat : Divides(c, p[1]) /\ Divides(c, p[2])}
DivisorsOf(g) == {c \in Nat : Divides(c, g)}

\* So there is a function that satisfies the recursion.
LEMMA GcdIsDefined ==
  gcd = [p \in Nat \X Nat |-> IF p[2] = 0 THEN p[1] ELSE gcd[<<p[2], p[1] % p[2]>>]]
<1>1. PICK f : f = [p \in Nat \X Nat |-> CHOOSE g \in Nat : Common(p) = DivisorsOf(g)]
  OBVIOUS
<1>2. ASSUME NEW a \in Nat PROVE f[<<a, 0>>] = a
  <2>1. \A c \in Nat : Divides(c, 0)
    BY DEF Divides
  <2>2. Common(<<a, 0>>) = DivisorsOf(a)
    BY <2>1 DEF Common, DivisorsOf
  <2>3. ASSUME NEW g \in Nat, Common(<<a, 0>>) = DivisorsOf(g) PROVE g = a
    <3>1. Divides(g, g) /\ Divides(a, a)
      BY DEF Divides
    <3>2. Divides(g, a) /\ Divides(a, g)
      BY <2>2, <2>3, <3>1 DEF DivisorsOf
    <3> QED
      BY <3>2, DividesBoth
  <2>4. f[<<a, 0>>] = CHOOSE g \in Nat : Common(<<a, 0>>) = DivisorsOf(g)
    BY <1>1
  <2> QED
    BY <2>2, <2>3, <2>4
<1>3. ASSUME NEW a \in Nat, NEW b \in Nat \ {0} PROVE f[<<a, b>>] = f[<<b, a % b>>]
  <2>1. PICK r \in Nat : r = a % b
    OBVIOUS
  <2>2. \A c \in Nat : Divides(c, b) => (Divides(c, a) <=> Divides(c, r))
    BY <2>1, DividesRest
  <2>3. Common(<<a, b>>) = Common(<<b, r>>)
    BY <2>2 DEF Common
  <2>4. /\ f[<<a, b>>] = CHOOSE g \in Nat : Common(<<a, b>>) = DivisorsOf(g)
        /\ f[<<b, r>>] = CHOOSE g \in Nat : Common(<<b, r>>) = DivisorsOf(g)
    BY <1>1
  <2> QED
    BY <2>1, <2>3, <2>4
<1>4. f = [p \in Nat \X Nat |-> IF p[2] = 0 THEN p[1] ELSE f[<<p[2], p[1] % p[2]>>]]
  <2>1. ASSUME NEW p \in Nat \X Nat
        PROVE  f[p] = IF p[2] = 0 THEN p[1] ELSE f[<<p[2], p[1] % p[2]>>]
    <3>1. PICK a \in Nat, b \in Nat : p = <<a, b>> /\ p[1] = a /\ p[2] = b
      OBVIOUS
    <3>2. CASE b = 0
      BY <1>2, <3>1, <3>2
    <3>3. CASE b # 0
      BY <1>3, <3>1, <3>3
    <3> QED
      BY <3>2, <3>3
  <2> QED
    BY <1>1, <2>1
<1> QED
  BY <1>4 DEF gcd

\* Euclid's algorithm returns a common divisor, for every pair of numbers.
LEMMA GcdDivides ==
  ASSUME NEW m \in Nat, NEW n \in Nat
  PROVE  gcd[<<m, n>>] \in Nat /\ Divides(gcd[<<m, n>>], m) /\ Divides(gcd[<<m, n>>], n)
<1> DEFINE P(a, b) == gcd[<<a, b>>] \in Nat /\ Divides(gcd[<<a, b>>], a) /\ Divides(gcd[<<a, b>>], b)
           T == {b \in Nat : \E a \in Nat : ~P(a, b)}
<1>0. \A a, b \in Nat : gcd[<<a, b>>] = IF b = 0 THEN a ELSE gcd[<<b, a % b>>]
  <2> SUFFICES ASSUME NEW a \in Nat, NEW b \in Nat
               PROVE  gcd[<<a, b>>] = IF b = 0 THEN a ELSE gcd[<<b, a % b>>]
    OBVIOUS
  <2>1. <<a, b>> \in Nat \X Nat /\ <<a, b>>[1] = a /\ <<a, b>>[2] = b
    OBVIOUS
  <2> QED
    BY <2>1, GcdIsDefined, Zenon
<1>1. SUFFICES ASSUME T # {} PROVE FALSE
  OBVIOUS
<1>2. PICK b \in T : \A c \in T : b <= c
  <2>1. T \in SUBSET Nat
    OBVIOUS
  <2> QED
    BY <1>1, <2>1, LeastNatural
<1>3. PICK a \in Nat : ~P(a, b)
  BY <1>2
<1>4. CASE b = 0
  <2>1. gcd[<<a, b>>] = a
    BY <1>0, <1>4
  <2>2. a = a * 1 /\ 0 = a * 0
    OBVIOUS
  <2> QED
    BY <1>3, <1>4, <2>1, <2>2 DEF Divides
<1>5. CASE b # 0
  <2>0. b \in Nat \ {0}
    BY <1>5
  <2>1. PICK r \in Nat : r = a % b /\ r < b
    BY <2>0
  <2>2. r \notin T
    BY <1>2, <2>1
  <2>3. P(b, r)
    BY <2>2
  <2>4. gcd[<<a, b>>] = gcd[<<b, r>>]
    BY <1>0, <1>5, <2>1
  <2>5. PICK g \in Nat : g = gcd[<<b, r>>] /\ Divides(g, b) /\ Divides(g, r)
    BY <2>3
  <2>6. Divides(g, a)
    BY <2>0, <2>1, <2>5, DividesRest
  <2> QED
    BY <1>3, <2>4, <2>5, <2>6
<1> QED
  BY <1>4, <1>5

\* Frac divides both by the same positive number.
LEMMA FracIs ==
  ASSUME NEW n \in Int, NEW d \in Nat \ {0}
  PROVE  \E g \in Nat \ {0}, m \in Int, e \in Nat \ {0} :
           Frac(n, d) = <<m, e>> /\ n = g * m /\ d = g * e
<1>0. ASSUME NEW g \in Nat \ {0}, NEW m \in Int PROVE (g * m) \div g = m
  OBVIOUS
<1>1. PICK a \in Nat : a = IF n < 0 THEN -n ELSE n
  OBVIOUS
<1>2. PICK g \in Nat : g = gcd[<<a, d>>] /\ Divides(g, a) /\ Divides(g, d)
  BY GcdDivides
<1>3. PICK k \in Nat, e \in Nat : a = g * k /\ d = g * e
  BY <1>2 DEF Divides
<1>4. g > 0 /\ e > 0
  BY <1>3
<1>5. PICK m \in Int : m = IF n < 0 THEN -k ELSE k
  OBVIOUS
<1>6. n = g * m
  BY <1>1, <1>3, <1>5
<1>7. n \div g = m /\ d \div g = e
  BY <1>0, <1>3, <1>4, <1>6
<1>8. Frac(n, d) = <<m, e>>
  BY <1>1, <1>2, <1>7 DEF Frac
<1> QED
  BY <1>3, <1>4, <1>6, <1>8

Fractions == Int \X (Nat \ {0})

\* A fraction in lowest terms has the sign of its numerator.
LEMMA FracSigns ==
  ASSUME NEW n \in Int, NEW d \in Nat \ {0}
  PROVE  /\ Frac(n, d) \in Fractions
         /\ n = 0 => Frac(n, d)[1] = 0
         /\ n < 0 => Frac(n, d)[1] < 0
<1>1. PICK g \in Nat \ {0}, m \in Int, e \in Nat \ {0} :
        Frac(n, d) = <<m, e>> /\ n = g * m /\ d = g * e
  BY FracIs
<1>2. /\ n = 0 => m = 0
      /\ n < 0 => m < 0
  BY <1>1
<1> QED
  BY <1>1, <1>2 DEF Fractions

\* Sums and products of fractions; nothing comes of nothing.
LEMMA PlusTimes ==
  ASSUME NEW a \in Fractions, NEW b \in Fractions
  PROVE  /\ Plus(a, b) \in Fractions /\ Times(a, b) \in Fractions
         /\ a[1] = 0 /\ b[1] = 0 => Plus(a, b)[1] = 0
         /\ a[1] = 0 => Times(a, b)[1] = 0
<1>1. PICK an \in Int, ad \in Nat \ {0}, bn \in Int, bd \in Nat \ {0} :
        an = a[1] /\ ad = a[2] /\ bn = b[1] /\ bd = b[2]
  BY DEF Fractions
<1>2. PICK d \in Nat \ {0} : d = ad * bd
  BY <1>1
<1>3. PICK s \in Int, t \in Int : s = an * bd + bn * ad /\ t = an * bn
  OBVIOUS
<1>4. Plus(a, b) = Frac(s, d) /\ Times(a, b) = Frac(t, d)
  BY <1>1, <1>2, <1>3 DEF Plus, Times
<1>5. (an = 0 /\ bn = 0 => s = 0) /\ (an = 0 => t = 0)
  BY <1>3
<1> QED
  BY <1>1, <1>4, <1>5, FracSigns

\* A common factor decides nothing.
LEMMA Cancel ==
  ASSUME NEW g \in Nat \ {0}, NEW x \in Int, NEW y \in Int
  PROVE  x <= y <=> g * x <= g * y
<1>1. CASE x <= y
  <2>1. PICK z \in Nat : y = x + z
    BY <1>1
  <2>2. g * y = g * x + g * z /\ g * z \in Nat /\ g * x \in Int
    BY <2>1
  <2> QED
    BY <1>1, <2>2
<1>2. CASE y < x
  <2>1. PICK z \in Nat \ {0} : x = y + z
    BY <1>2
  <2>2. g * x = g * y + g * z /\ g * z \in Nat \ {0} /\ g * y \in Int
    BY <2>1
  <2> QED
    BY <1>2, <2>2
<1> QED
  BY <1>1, <1>2

\* A price against another one raised by a fraction, without denominators.
LEMMA Raised ==
  ASSUME NEW f \in Int, NEW x \in Int, NEW by \in Fractions
  PROVE  /\ AtMost(Times(Int2Frac(f), Plus(Int2Frac(1), by)), Int2Frac(x)) <=>
              f * (by[2] + by[1]) <= x * by[2]
         /\ AtMost(Int2Frac(x), Times(Int2Frac(f), Plus(Int2Frac(1), by))) <=>
              x * by[2] <= f * (by[2] + by[1])
<1>1. PICK t \in Int, w \in Nat \ {0} : t = by[1] /\ w = by[2]
  BY DEF Fractions
<1>2. Plus(Int2Frac(1), by) = Frac(w + t, w)
  BY <1>1 DEF Plus, Int2Frac
<1>3. PICK h \in Nat \ {0}, p \in Int, q \in Nat \ {0} :
        Frac(w + t, w) = <<p, q>> /\ w + t = h * p /\ w = h * q
  <2>1. w + t \in Int
    OBVIOUS
  <2> QED
    BY <2>1, FracIs
<1>4. Times(Int2Frac(f), <<p, q>>) = Frac(f * p, q)
  BY DEF Times, Int2Frac
<1>5. PICK k \in Nat \ {0}, u \in Int, v \in Nat \ {0} :
        Frac(f * p, q) = <<u, v>> /\ f * p = k * u /\ q = k * v
  <2>1. f * p \in Int
    OBVIOUS
  <2> QED
    BY <2>1, FracIs
<1>6. Times(Int2Frac(f), Plus(Int2Frac(1), by)) = <<u, v>>
  BY <1>2, <1>3, <1>4, <1>5, Zenon
<1>7. /\ AtMost(<<u, v>>, Int2Frac(x)) <=> u <= x * v
      /\ AtMost(Int2Frac(x), <<u, v>>) <=> x * v <= u
  BY DEF AtMost, Int2Frac
<1>8. PICK g \in Nat \ {0} : g = h * k
  OBVIOUS
<1>9. g * u = f * (w + t)
  <2>1. g * u = h * (k * u)
    BY <1>8
  <2>2. h * (f * p) = f * (h * p)
    OBVIOUS
  <2> QED
    BY <1>3, <1>5, <2>1, <2>2, Zenon
<1>10. g * (x * v) = x * w
  <2>1. g * (x * v) = x * (h * (k * v))
    BY <1>8
  <2> QED
    BY <1>3, <1>5, <2>1, Zenon
<1>11. /\ u <= x * v <=> f * (w + t) <= x * w
       /\ x * v <= u <=> x * w <= f * (w + t)
  <2>1. PICK y \in Int : y = x * v
    OBVIOUS
  <2>2. /\ u <= y <=> g * u <= g * y
        /\ y <= u <=> g * y <= g * u
    BY Cancel
  <2> QED
    BY <1>9, <1>10, <2>1, <2>2, Zenon
<1> QED
  BY <1>1, <1>6, <1>7, <1>11, Zenon

\* The same for a return.
LEMMA ReturnRaised ==
  ASSUME NEW first \in Nat \ {0}, NEW last \in Int, NEW by \in Fractions
  PROVE  AtMost(by, Frac(last - first, first)) <=> first * (by[2] + by[1]) <= last * by[2]
<1>1. PICK t \in Int, w \in Nat \ {0} : t = by[1] /\ w = by[2]
  BY DEF Fractions
<1>2. PICK g \in Nat \ {0}, m \in Int, e \in Nat \ {0} :
        Frac(last - first, first) = <<m, e>> /\ last - first = g * m /\ first = g * e
  <2>1. last - first \in Int
    OBVIOUS
  <2> QED
    BY <2>1, FracIs
<1>3. AtMost(by, <<m, e>>) <=> t * e <= m * w
  BY <1>1 DEF AtMost
<1>4. g * (t * e) = first * t
  <2>1. g * (t * e) = (g * e) * t
    OBVIOUS
  <2> QED
    BY <1>2, <2>1, Zenon
<1>5. g * (m * w) = last * w - first * w
  <2>1. g * (m * w) = (g * m) * w
    OBVIOUS
  <2>2. (last - first) * w = last * w - first * w
    OBVIOUS
  <2> QED
    BY <1>2, <2>1, <2>2, Zenon
<1>6. t * e <= m * w <=> g * (t * e) <= g * (m * w)
  <2>1. PICK x \in Int, y \in Int : x = t * e /\ y = m * w
    OBVIOUS
  <2>2. x <= y <=> g * x <= g * y
    BY Cancel
  <2> QED
    BY <2>1, <2>2, Zenon
<1>7. first * t <= last * w - first * w <=> first * (w + t) <= last * w
  <2>1. first * (w + t) = first * w + first * t
    OBVIOUS
  <2>2. PICK x \in Int, y \in Int, z \in Int : x = first * t /\ y = last * w /\ z = first * w
    OBVIOUS
  <2>3. x <= y - z <=> z + x <= y
    OBVIOUS
  <2> QED
    BY <2>1, <2>2, <2>3, Zenon
<1> QED
  BY <1>1, <1>2, <1>3, <1>4, <1>5, <1>6, <1>7, Zenon

\* What the trade engine's stream delivers.
Ticks == [price : Nat \ {0}, time : Nat]

-----------------------------------------------------------------------------
(* Momentum *)

\* The ring of RollingReturn holds the newest prices.
Remembers(r, q) ==
  /\ r \in [values : [0 .. Lookback - 1 -> Int], head : 0 .. Lookback - 1, size : Nat]
  /\ r.size = Smaller(Len(q), Lookback)
  /\ \A k \in 1 .. r.size : r.values[Slot(Lookback, r.head, k)] = q[Len(q) - k + 1].price

\* push() overwrites the oldest price of a full ring.
LEMMA PushRemembers ==
  ASSUME NEW r, NEW q \in Seq(Ticks), Remembers(r, q), NEW x \in Ticks
  PROVE  Remembers(PushReturn(r, x.price), Append(q, x))
<1>0. /\ Lookback \in Nat \ {0} /\ Lookback \in Nat /\ Lookback > 0 /\ Len(q) \in Nat
      /\ r.head \in 0 .. Lookback - 1 /\ r.values \in [0 .. Lookback - 1 -> Int]
      /\ r.size = Smaller(Len(q), Lookback) /\ r.size \in 0 .. Lookback /\ x.price \in Int
  <2>1. Lookback \in Nat \ {0}
    BY StrategyAssumption
  <2>2. Len(q) \in Nat /\ x.price \in Int
    BY DEF Ticks
  <2>3. /\ r.head \in 0 .. Lookback - 1 /\ r.values \in [0 .. Lookback - 1 -> Int]
        /\ r.size = Smaller(Len(q), Lookback)
    BY DEF Remembers
  <2>4. Smaller(Len(q), Lookback) \in 0 .. Lookback
    BY <2>1, <2>2 DEF Smaller
  <2> QED
    BY <2>1, <2>2, <2>3, <2>4
<1>1. PICK u : u = PushReturn(r, x.price)
  OBVIOUS
<1>2. PICK p : p = Append(q, x)
  OBVIOUS
<1>3. Len(p) = Len(q) + 1 /\ p[Len(q) + 1] = x /\ \A i \in 1 .. Len(q) : p[i] = q[i]
  BY <1>2
<1>4. /\ u.head = (IF r.head + 1 < Lookback THEN r.head + 1 ELSE 0)
      /\ u.size = (IF r.size < Lookback THEN r.size + 1 ELSE r.size)
      /\ u.values = [r.values EXCEPT ![r.head] = x.price]
  <2>1. (r.head + 1) % Lookback = IF r.head + 1 < Lookback THEN r.head + 1 ELSE 0
    BY <1>0, SlotWraps, Zenon
  <2> QED
    BY <1>1, <2>1 DEF PushReturn
<1>5. u.head \in 0 .. Lookback - 1 /\ u.size = Smaller(Len(p), Lookback) /\ u.size \in 0 .. Lookback
  BY <1>0, <1>3, <1>4 DEF Smaller
<1>6. u.values \in [0 .. Lookback - 1 -> Int]
  BY <1>0, <1>4
<1>7. ASSUME NEW k \in 1 .. u.size
      PROVE  u.values[Slot(Lookback, u.head, k)] = p[Len(p) - k + 1].price
  <2>1. k \in 1 .. Lookback /\ k <= Len(q) + 1
    BY <1>0, <1>3, <1>5 DEF Smaller
  <2>2. CASE k = 1
    <3>1. Slot(Lookback, u.head, 1) = r.head
      BY <1>0, <1>4, SlotsDiffer
    <3>2. Len(p) - k + 1 = Len(q) + 1
      BY <1>0, <1>3, <2>2
    <3> QED
      BY <1>0, <1>3, <1>4, <2>2, <3>1, <3>2
  <2>3. CASE k # 1
    <3>1. k \in 2 .. Lookback /\ k - 1 \in 1 .. Lookback - 1 /\ k - 1 \in 1 .. r.size
      BY <1>0, <1>4, <2>1, <2>3
    <3>2. /\ Slot(Lookback, u.head, k) = Slot(Lookback, r.head, k - 1)
          /\ Slot(Lookback, r.head, k - 1) # r.head
      BY <1>0, <1>4, <3>1, SlotsDiffer
    <3>3. Slot(Lookback, r.head, k - 1) \in 0 .. Lookback - 1
      <4>1. PICK h \in 0 .. Lookback - 1 : h = r.head
        BY <1>0
      <4>2. Slot(Lookback, h, k - 1) \in 0 .. Lookback - 1
        BY <1>0, <3>1 DEF Slot
      <4> QED
        BY <4>1, <4>2
    <3>4. u.values[Slot(Lookback, u.head, k)] = r.values[Slot(Lookback, r.head, k - 1)]
      BY <1>0, <1>4, <3>2, <3>3
    <3>5. r.values[Slot(Lookback, r.head, k - 1)] = q[Len(q) - (k - 1) + 1].price
      BY <3>1 DEF Remembers
    <3>6. Len(p) - k + 1 = Len(q) - (k - 1) + 1 /\ Len(p) - k + 1 \in 1 .. Len(q)
      BY <1>0, <1>3, <2>1, <3>1
    <3> QED
      BY <1>3, <3>4, <3>5, <3>6
  <2> QED
    BY <2>2, <2>3
<1>8. u \in [values : [0 .. Lookback - 1 -> Int], head : 0 .. Lookback - 1, size : Nat]
  <2>1. u = [values |-> u.values, head |-> u.head, size |-> u.size]
    BY <1>1 DEF PushReturn
  <2>2. u.size \in Nat
    BY <1>0, <1>5
  <2> QED
    BY <1>5, <1>6, <2>1, <2>2
<1> QED
  BY <1>1, <1>2, <1>5, <1>7, <1>8 DEF Remembers

\* The return of a full ring reaches the threshold exactly if the prices rise by it.
LEMMA MomentumJudges ==
  ASSUME NEW r, NEW q \in Seq(Ticks), Remembers(r, q), q # <<>>
  PROVE  LET n == Len(q)
         IN  ReturnReady(r) /\ AtMost(Threshold, ReturnValue(r)) <=>
               n >= Lookback /\ Rises(q[n - Lookback + 1].price, q[n].price, Threshold)
<1>0. /\ Lookback \in Nat \ {0} /\ Lookback \in Nat /\ Lookback > 1
      /\ Threshold \in Fractions /\ r.head \in 0 .. Lookback - 1
      /\ r.size = Smaller(Len(q), Lookback)
  BY StrategyAssumption DEF Fractions, Remembers
<1>1. PICK n \in Nat : n = Len(q)
  OBVIOUS
<1>2. ReturnReady(r) <=> n >= Lookback
  BY <1>0, <1>1 DEF ReturnReady, Smaller
<1>3. ASSUME n >= Lookback
      PROVE  AtMost(Threshold, ReturnValue(r)) <=>
               Rises(q[n - Lookback + 1].price, q[n].price, Threshold)
  <2>1. 1 \in 1 .. r.size /\ Lookback \in 1 .. r.size /\ n - Lookback + 1 \in 1 .. n /\ n \in 1 .. n
        /\ n - 1 + 1 = n
    BY <1>0, <1>1, <1>3 DEF Smaller
  <2>2. Slot(Lookback, r.head, Lookback) = r.head
    BY <1>0 DEF Slot
  <2>3. (r.head + Lookback - 1) % Lookback = Slot(Lookback, r.head, 1)
    <3>1. 1 \in 1 .. Lookback
      BY <1>0
    <3>2. \A k \in 1 .. Lookback : (r.head + Lookback - k) % Lookback = Slot(Lookback, r.head, k)
      BY <1>0, SlotWraps
    <3> QED
      BY <3>1, <3>2, Zenon
  <2>4. PICK first, last : first = q[n - Lookback + 1].price /\ last = q[n].price
    OBVIOUS
  <2>5. first \in Nat \ {0} /\ last \in Nat \ {0}
    <3>1. q[n - Lookback + 1] \in Ticks /\ q[n] \in Ticks
      BY <1>1, <2>1
    <3> QED
      BY <2>4, <3>1 DEF Ticks
  <2>6. r.values[r.head] = first /\ r.values[(r.head + Lookback - 1) % Lookback] = last
    <3>1. \A k \in 1 .. r.size : r.values[Slot(Lookback, r.head, k)] = q[n - k + 1].price
      BY <1>1 DEF Remembers
    <3> QED
      BY <2>1, <2>2, <2>3, <2>4, <3>1, Zenon
  <2>7. ReturnValue(r) = Frac(last - first, first)
    BY <2>5, <2>6 DEF ReturnValue
  <2>8. AtMost(Threshold, Frac(last - first, first)) <=>
          first * (Threshold[2] + Threshold[1]) <= last * Threshold[2]
    <3>1. last \in Int
      BY <2>5
    <3> QED
      BY <1>0, <2>5, <3>1, ReturnRaised
  <2>9. Rises(first, last, Threshold) <=>
          first * (Threshold[2] + Threshold[1]) <= last * Threshold[2]
    <3>1. first \in Int /\ last \in Int
      BY <2>5
    <3> QED
      BY <1>0, <3>1, Raised DEF Rises
  <2> QED
    BY <2>4, <2>7, <2>8, <2>9, Zenon
<1> QED
  BY <1>1, <1>2, <1>3

-----------------------------------------------------------------------------
(* Numbers that are the greatest or the least of a set *)

\* Max and Min of the community modules choose it.
LEMMA MaxIs ==
  ASSUME NEW S \in SUBSET Int, NEW m \in S, \A x \in S : x <= m
  PROVE  Max(S) = m
<1>1. \A x \in S : x \in Int
  OBVIOUS
<1>2. \A y \in S : (\A x \in S : y >= x) => y = m
  BY <1>1
<1>3. \A x \in S : m >= x
  BY <1>1
<1> QED
  BY <1>2, <1>3 DEF Max

LEMMA MinIs ==
  ASSUME NEW S \in SUBSET Int, NEW m \in S, \A x \in S : m <= x
  PROVE  Min(S) = m
<1>1. \A x \in S : x \in Int
  OBVIOUS
<1>2. \A y \in S : (\A x \in S : y <= x) => y = m
  BY <1>1
<1> QED
  BY <1>2 DEF Min

\* A bounded set of numbers has a greatest one.
LEMMA GreatestExists ==
  ASSUME NEW n \in Nat, NEW S \in SUBSET (0 .. n), S # {}
  PROVE  Max(S) \in S /\ \A x \in S : x <= Max(S)
<1>0. \A x \in S : x \in 0 .. n
  OBVIOUS
<1>1. PICK T : T = {n - x : x \in S}
  OBVIOUS
<1>2. T \in SUBSET Nat /\ T # {}
  BY <1>0, <1>1
<1>3. PICK t \in T : \A y \in T : t <= y
  BY <1>2, LeastNatural
<1>4. PICK m \in S : t = n - m
  BY <1>1, <1>3
<1>5. \A x \in S : x <= m
  <2> SUFFICES ASSUME NEW x \in S PROVE x <= m
    OBVIOUS
  <2>1. n - x \in T
    BY <1>1
  <2>2. t <= n - x
    BY <1>3, <2>1
  <2> QED
    BY <1>0, <1>4, <2>2
<1>6. Max(S) = m
  <2>1. S \in SUBSET Int
    BY <1>0
  <2> QED
    BY <1>5, <2>1, MaxIs
<1> QED
  BY <1>5, <1>6

\* So has a sequence of numbers.
LEMMA HighestExists ==
  ASSUME NEW n \in Nat \ {0}, NEW b, \A i \in 1 .. n : b[i] \in Int
  PROVE  \E i \in 1 .. n : Max({b[j] : j \in 1 .. n}) = b[i] /\ \A j \in 1 .. n : b[j] <= b[i]
<1> DEFINE Top(m) == \E i \in 1 .. m : \A j \in 1 .. m : b[j] <= b[i]
           T == {m \in 1 .. n : ~Top(m)}
<1>1. T = {}
  <2> SUFFICES ASSUME T # {} PROVE FALSE
    OBVIOUS
  <2>1. PICK m \in T : \A k \in T : m <= k
    <3>1. T \in SUBSET Nat
      OBVIOUS
    <3> QED
      BY <3>1, LeastNatural
  <2>2. CASE m = 1
    <3>1. \A j \in 1 .. m : j = 1 /\ b[j] <= b[1]
      BY <2>2
    <3>2. 1 \in 1 .. m
      BY <2>2
    <3> QED
      BY <2>1, <3>1, <3>2
  <2>3. CASE m # 1
    <3>1. m - 1 \in 1 .. n /\ m \in 1 .. n /\ ~(m <= m - 1)
      BY <2>1, <2>3
    <3>2. Top(m - 1)
      BY <2>1, <3>1
    <3>3. PICK i \in 1 .. m - 1 : \A j \in 1 .. m - 1 : b[j] <= b[i]
      BY <3>2
    <3>4. b[i] \in Int /\ b[m] \in Int /\ i \in 1 .. m /\ m \in 1 .. m
          /\ \A j \in 1 .. m : j = m \/ j \in 1 .. m - 1
      BY <3>1, <3>3
    <3>5. CASE b[m] <= b[i]
      BY <2>1, <3>3, <3>4, <3>5
    <3>6. CASE b[i] < b[m]
      <4>1. ASSUME NEW j \in 1 .. m PROVE b[j] <= b[m]
        <5>1. CASE j = m
          BY <3>4, <5>1
        <5>2. CASE j \in 1 .. m - 1
          <6>1. b[j] \in Int /\ b[j] <= b[i]
            BY <3>1, <3>3, <5>2
          <6> QED
            BY <3>4, <3>6, <6>1
        <5> QED
          BY <3>4, <5>1, <5>2
      <4> QED
        BY <2>1, <3>4, <4>1
    <3> QED
      BY <3>4, <3>5, <3>6
  <2> QED
    BY <2>2, <2>3
<1>2. Top(n)
  BY <1>1
<1>3. PICK i \in 1 .. n : \A j \in 1 .. n : b[j] <= b[i]
  BY <1>2
<1>4. PICK S : S = {b[j] : j \in 1 .. n}
  OBVIOUS
<1>5. S \in SUBSET Int /\ b[i] \in S /\ \A x \in S : x <= b[i]
  BY <1>3, <1>4
<1>6. Max(S) = b[i]
  BY <1>5, MaxIs
<1> QED
  BY <1>3, <1>4, <1>6

-----------------------------------------------------------------------------
(* Breakout *)

\* The window of a breakout holds the newest prices.
Shows(b, q) ==
  /\ b \in Seq(Nat \ {0}) /\ Len(b) = Smaller(Len(q), Lookback)
  /\ \A i \in 1 .. Len(b) : b[i] = q[Len(q) - Len(b) + i].price

\* A full window loses its oldest price.
LEMMA BreakoutShows ==
  ASSUME NEW s, NEW q \in Seq(Ticks), Shows(s.window, q), NEW x \in Ticks
  PROVE  Shows(Breakout(s, x.price).window, Append(q, x))
<1>1. PICK b, n, c : b = s.window /\ n = Len(q) /\ c = x.price
  OBVIOUS
<1>2. /\ b \in Seq(Nat \ {0}) /\ Len(b) = Smaller(n, Lookback) /\ n \in Nat /\ Len(b) \in Nat
      /\ \A i \in 1 .. Len(b) : b[i] = q[n - Len(b) + i].price
      /\ Lookback \in Nat /\ Lookback > 1 /\ c \in Nat \ {0}
  <2>1. n \in Nat /\ c \in Nat \ {0}
    BY <1>1 DEF Ticks
  <2>2. Lookback \in Nat /\ Lookback > 1
    BY StrategyAssumption
  <2>3. /\ b \in Seq(Nat \ {0}) /\ Len(b) = Smaller(n, Lookback)
        /\ \A i \in 1 .. Len(b) : b[i] = q[n - Len(b) + i].price
    BY <1>1 DEF Shows
  <2>4. Len(b) \in Nat
    BY <2>3
  <2> QED
    BY <2>1, <2>2, <2>3, <2>4
<1>3. PICK p : p = Append(q, x)
  OBVIOUS
<1>4. Len(p) = n + 1 /\ p[n + 1] = x /\ \A i \in 1 .. n : p[i] = q[i]
  BY <1>1, <1>3
<1>5. CASE Len(b) < Lookback
  <2>1. Breakout(s, c).window = Append(b, c)
    BY <1>1, <1>5 DEF Breakout
  <2>2. PICK w : w = Append(b, c)
    OBVIOUS
  <2>3. /\ w \in Seq(Nat \ {0}) /\ Len(w) = Len(b) + 1 /\ w[Len(b) + 1] = c
        /\ \A i \in 1 .. Len(b) : w[i] = b[i]
    BY <1>2, <2>2
  <2>4. Len(b) = n /\ Len(w) = Smaller(n + 1, Lookback)
    BY <1>2, <1>5, <2>3 DEF Smaller
  <2>5. ASSUME NEW i \in 1 .. Len(w) PROVE w[i] = p[Len(p) - Len(w) + i].price
    <3>0. Len(p) - Len(w) + i = i /\ i \in 1 .. n + 1
      BY <1>2, <1>4, <2>3, <2>4
    <3>1. CASE i = n + 1
      BY <1>1, <1>4, <2>3, <2>4, <3>0, <3>1
    <3>2. CASE i # n + 1
      <4>1. i \in 1 .. Len(b) /\ i \in 1 .. n /\ n - Len(b) + i = i
        BY <1>2, <2>4, <3>0, <3>2
      <4> QED
        BY <1>2, <1>4, <2>3, <3>0, <4>1
    <3> QED
      BY <3>1, <3>2
  <2>6. Shows(w, p)
    <3>1. Len(w) = Smaller(Len(p), Lookback)
      BY <1>4, <2>4
    <3> QED
      BY <2>5, <2>3, <3>1 DEF Shows
  <2> QED
    BY <1>1, <1>3, <2>1, <2>2, <2>6
<1>6. CASE ~(Len(b) < Lookback)
  <2>1. Breakout(s, c).window = Append(Tail(b), c)
    BY <1>1, <1>6 DEF Breakout
  <2>2. PICK w : w = Append(Tail(b), c)
    OBVIOUS
  <2>3. Len(b) = Lookback /\ n >= Lookback
    BY <1>2, <1>6 DEF Smaller
  <2>4. PICK t : t = Tail(b)
    OBVIOUS
  <2>5. t \in Seq(Nat \ {0}) /\ Len(t) = Lookback - 1 /\ \A i \in 1 .. Lookback - 1 : t[i] = b[i + 1]
    <3>1. b # <<>>
      BY <1>2, <2>3
    <3> QED
      BY <1>2, <2>3, <2>4, <3>1
  <2>6. /\ w \in Seq(Nat \ {0}) /\ Len(w) = Lookback /\ w[Lookback] = c
        /\ \A i \in 1 .. Lookback - 1 : w[i] = b[i + 1]
    <3>1. /\ w \in Seq(Nat \ {0}) /\ Len(w) = Len(t) + 1 /\ w[Len(t) + 1] = c
          /\ \A i \in 1 .. Len(t) : w[i] = t[i]
      BY <1>2, <2>2, <2>4, <2>5
    <3> QED
      BY <1>2, <2>5, <3>1
  <2>7. Len(w) = Smaller(n + 1, Lookback)
    BY <1>2, <2>3, <2>6 DEF Smaller
  <2>8. ASSUME NEW i \in 1 .. Len(w) PROVE w[i] = p[Len(p) - Len(w) + i].price
    <3>1. CASE i = Lookback
      <4>1. Len(p) - Len(w) + i = n + 1
        BY <1>2, <1>4, <2>6, <3>1
      <4> QED
        BY <1>1, <1>4, <2>6, <3>1, <4>1
    <3>2. CASE i # Lookback
      <4>1. /\ i \in 1 .. Lookback - 1 /\ i + 1 \in 1 .. Len(b)
            /\ Len(p) - Len(w) + i = n - Len(b) + (i + 1) /\ n - Len(b) + (i + 1) \in 1 .. n
        BY <1>2, <1>4, <2>3, <2>6, <3>2
      <4>2. b[i + 1] = q[n - Len(b) + (i + 1)].price
        BY <1>2, <4>1
      <4> QED
        BY <1>4, <2>6, <4>1, <4>2
    <3> QED
      BY <3>1, <3>2
  <2>9. Shows(w, p)
    <3>1. Len(w) = Smaller(Len(p), Lookback)
      BY <1>4, <2>7
    <3> QED
      BY <2>8, <2>6, <3>1 DEF Shows
  <2> QED
    BY <1>1, <1>3, <2>1, <2>2, <2>9
<1> QED
  BY <1>5, <1>6

\* A price is above each one of the window raised by the buffer exactly if it is
\* above the highest one raised by it.
LEMMA BreakoutJudges ==
  ASSUME NEW s, NEW q \in Seq(Ticks), Shows(s.window, q), NEW x \in Ticks
  PROVE  /\ Breakout(s, x.price).signal.buy \in BOOLEAN
         /\ Breakout(s, x.price).signal.buy <=>
              /\ Len(q) >= Lookback
              /\ \A i \in Len(q) + 1 - Lookback .. Len(q) :
                   ~AtMost(Int2Frac(x.price), Times(Int2Frac(q[i].price), Plus(Int2Frac(1), Buffer)))
<1>1. PICK b, n, c : b = s.window /\ n = Len(q) /\ c = x.price
  OBVIOUS
<1>2. /\ Len(b) = Smaller(n, Lookback) /\ n \in Nat /\ c \in Nat \ {0} /\ c \in Int
      /\ Lookback \in Nat \ {0} /\ Buffer \in Fractions /\ Buffer[1] \in Nat /\ Buffer[2] \in Nat
  <2>1. n \in Nat /\ c \in Nat \ {0}
    BY <1>1 DEF Ticks
  <2>2. Lookback \in Nat \ {0} /\ Buffer \in (Nat \ {0}) \X (Nat \ {0})
    BY StrategyAssumption
  <2> QED
    BY <1>1, <2>1, <2>2 DEF Fractions, Shows
<1>3. CASE Len(b) < Lookback
  <2>1. Breakout(s, c).signal = None
    BY <1>1, <1>3 DEF Breakout
  <2>2. ~(n >= Lookback) /\ None.buy = FALSE
    BY <1>2, <1>3 DEF None, Smaller
  <2> QED
    BY <1>1, <2>1, <2>2
<1>4. CASE ~(Len(b) < Lookback)
  <2>1. Len(b) = Lookback /\ n >= Lookback
    BY <1>2, <1>4 DEF Smaller
  <2>2. \A j \in 1 .. Lookback : b[j] \in Int /\ b[j] = q[n - Lookback + j].price
    BY <1>1, <2>1 DEF Shows
  <2>3. PICK h \in 1 .. Lookback : /\ Max({b[j] : j \in 1 .. Lookback}) = b[h]
                                  /\ \A j \in 1 .. Lookback : b[j] <= b[h]
    BY <1>2, <2>2, HighestExists
  <2>4. PICK high \in Int : high = b[h] /\ \A j \in 1 .. Lookback : b[j] <= high
    BY <2>2, <2>3
  <2>5. Breakout(s, c).signal =
          IF AtMost(Int2Frac(c), Times(Int2Frac(high), Plus(Int2Frac(1), Buffer))) THEN None
          ELSE Buy(Confidence(Frac(c - high, high), Buffer))
    BY <1>1, <1>4, <2>3, <2>4 DEF Breakout
  <2>6. Breakout(s, c).signal.buy =
          ~AtMost(Int2Frac(c), Times(Int2Frac(high), Plus(Int2Frac(1), Buffer)))
    <3> DEFINE low == AtMost(Int2Frac(c), Times(Int2Frac(high), Plus(Int2Frac(1), Buffer)))
               confidence == Confidence(Frac(c - high, high), Buffer)
    <3>0. low \in BOOLEAN
      BY DEF AtMost
    <3>1. None.buy = FALSE /\ Buy(confidence).buy = TRUE
      BY DEF None, Buy
    <3> HIDE DEF low, confidence
    <3>2. Breakout(s, c).signal = IF low THEN None ELSE Buy(confidence)
      BY <2>5 DEF low, confidence
    <3>3. Breakout(s, c).signal.buy = ~low
      BY <3>0, <3>1, <3>2
    <3> QED
      BY <3>3 DEF low
  <2>7. PICK v \in Nat, w \in Int : v = Buffer[2] + Buffer[1] /\ w = c * Buffer[2]
    BY <1>2
  <2>8. ASSUME NEW y \in Int
        PROVE  AtMost(Int2Frac(c), Times(Int2Frac(y), Plus(Int2Frac(1), Buffer))) <=> w <= y * v
    <3>1. AtMost(Int2Frac(c), Times(Int2Frac(y), Plus(Int2Frac(1), Buffer))) <=>
            c * Buffer[2] <= y * (Buffer[2] + Buffer[1])
      BY <1>2, Raised
    <3> QED
      BY <2>7, <3>1, Zenon
  <2>9. ASSUME NEW y \in Int, y <= high, w <= y * v PROVE w <= high * v
    <3>1. PICK z \in Nat : high = y + z
      BY <2>9
    <3>2. high * v = y * v + z * v /\ z * v \in Nat /\ y * v \in Int
      BY <3>1
    <3> QED
      BY <2>9, <3>2
  <2>10. (\A j \in 1 .. Lookback : ~(w <= b[j] * v)) <=> ~(w <= high * v)
    BY <2>2, <2>4, <2>9, <2>3
  <2>11. (\A j \in 1 .. Lookback :
            ~AtMost(Int2Frac(c), Times(Int2Frac(b[j]), Plus(Int2Frac(1), Buffer)))) <=>
         (\A i \in n + 1 - Lookback .. n :
            ~AtMost(Int2Frac(c), Times(Int2Frac(q[i].price), Plus(Int2Frac(1), Buffer))))
    <3>1. ASSUME NEW i \in n + 1 - Lookback .. n
          PROVE  \E j \in 1 .. Lookback : b[j] = q[i].price
      <4>1. PICK j \in 1 .. Lookback : j = i - n + Lookback /\ n - Lookback + j = i
        BY <1>2
      <4> QED
        BY <2>2, <4>1
    <3>2. ASSUME NEW j \in 1 .. Lookback
          PROVE  \E i \in n + 1 - Lookback .. n : b[j] = q[i].price
      <4>1. n - Lookback + j \in n + 1 - Lookback .. n
        BY <1>2
      <4> QED
        BY <2>2, <4>1
    <3> QED
      BY <3>1, <3>2, Zenon
  <2>12. (\A j \in 1 .. Lookback :
            ~AtMost(Int2Frac(c), Times(Int2Frac(b[j]), Plus(Int2Frac(1), Buffer)))) <=>
         ~AtMost(Int2Frac(c), Times(Int2Frac(high), Plus(Int2Frac(1), Buffer)))
    BY <2>2, <2>8, <2>10, Zenon
  <2> QED
    BY <1>1, <2>1, <2>6, <2>11, <2>12, Zenon
<1> QED
  BY <1>3, <1>4

-----------------------------------------------------------------------------
(* Histories and signals *)

\* A history grows by one price at its end.
LEMMA HistoryGrows ==
  ASSUME NEW q \in Seq(Ticks), NEW x \in Ticks
  PROVE  /\ Append(q, x) \in Seq(Ticks) /\ Append(q, x) # <<>>
         /\ Len(q) \in Nat /\ Len(Append(q, x)) = Len(q) + 1
         /\ Append(q, x)[Len(q) + 1] = x
         /\ \A i \in 1 .. Len(q) : Append(q, x)[i] = q[i] /\ q[i] \in Ticks
OBVIOUS

\* The signal of a rule with a condition that keeps it from buying.
LEMMA NoneOrBuy ==
  ASSUME NEW b \in BOOLEAN, NEW c
  PROVE  /\ (IF b THEN None ELSE Buy(c)).buy = ~b
         /\ (IF b THEN Buy(c) ELSE None).buy = b
         /\ None.buy = FALSE
BY DEF None, Buy

-----------------------------------------------------------------------------
(* Mean reversion *)

Falls(q) == \E i \in 1 .. Len(q) - 1 : q[i + 1].price < q[i].price

\* What Rsi keeps of the prices; an average loss needs a fall.
Averages(r, q) ==
  /\ q = <<>> => r = NewRsi
  /\ q # <<>> => /\ r.on = TRUE /\ r.previous = q[Len(q)].price
                 /\ r.samples = Smaller(Len(q) - 1, RsiPeriod)
  /\ r.loss \in Fractions /\ (r.loss[1] = 0 \/ Falls(q))

\* A price after the first one adds a gain or a loss.
LEMMA PushAverages ==
  ASSUME NEW r, NEW q \in Seq(Ticks), Averages(r, q), NEW x \in Ticks
  PROVE  Averages(PushRsi(r, x.price), Append(q, x))
<1>1. PICK p : p = Append(q, x)
  OBVIOUS
<1>2. PICK n \in Nat : n = Len(q)
  OBVIOUS
<1>3. /\ p \in Seq(Ticks) /\ p # <<>> /\ Len(p) = n + 1 /\ p[n + 1] = x /\ x.price \in Nat
      /\ \A i \in 1 .. n : p[i] = q[i] /\ q[i] \in Ticks
  <2>1. x.price \in Nat
    BY DEF Ticks
  <2> QED
    BY <1>1, <1>2, <2>1, HistoryGrows
<1>4. RsiPeriod \in Nat \ {0}
  BY StrategyAssumption
<1>5. CASE q = <<>>
  <2>1. r = NewRsi /\ n = 0
    BY <1>2, <1>5 DEF Averages
  <2>2. PushRsi(r, x.price) = [NewRsi EXCEPT !.on = TRUE, !.previous = x.price]
    BY <2>1 DEF PushRsi, NewRsi
  <2>3. PICK u : u = PushRsi(r, x.price)
    OBVIOUS
  <2>4. u.on = TRUE /\ u.previous = x.price /\ u.samples = 0 /\ u.loss = Zero
    BY <2>2, <2>3 DEF NewRsi
  <2>5. Smaller(Len(p) - 1, RsiPeriod) = 0
    BY <1>3, <1>4, <2>1 DEF Smaller
  <2>6. Zero \in Fractions /\ Zero[1] = 0
    BY DEF Zero, Int2Frac, Fractions
  <2> QED
    BY <1>1, <1>3, <2>1, <2>3, <2>4, <2>5, <2>6 DEF Averages
<1>6. CASE q # <<>>
  <2>0. n \in 1 .. n /\ q[n] \in Ticks /\ n >= 1
    BY <1>2, <1>3, <1>6
  <2>1. /\ r.on = TRUE /\ r.previous = q[n].price /\ r.samples = Smaller(n - 1, RsiPeriod)
        /\ r.loss \in Fractions /\ (r.loss[1] = 0 \/ Falls(q)) /\ r.previous \in Nat
    BY <1>2, <1>6, <2>0 DEF Averages, Ticks
  <2>2. PICK u : u = PushRsi(r, x.price)
    OBVIOUS
  <2>3. PICK down : down = Int2Frac(IF x.price < r.previous THEN r.previous - x.price ELSE 0)
    OBVIOUS
  <2>4. /\ u.on = TRUE /\ u.previous = x.price
        /\ u.samples = (IF r.samples < RsiPeriod THEN r.samples + 1 ELSE r.samples)
        /\ u.loss = IF r.samples = RsiPeriod
             THEN Times(Plus(Times(r.loss, Int2Frac(RsiPeriod - 1)), down), <<1, RsiPeriod>>)
             ELSE Times(Plus(r.loss, down), <<1, IF r.samples + 1 = RsiPeriod THEN RsiPeriod ELSE 1>>)
    BY <2>1, <2>2, <2>3 DEF PushRsi
  <2>5. u.samples = Smaller(Len(p) - 1, RsiPeriod)
    BY <1>3, <1>4, <2>0, <2>1, <2>4 DEF Smaller
  <2>6. down \in Fractions /\ (x.price >= r.previous => down[1] = 0)
    BY <1>3, <2>1, <2>3 DEF Int2Frac, Fractions
  <2>7. /\ Int2Frac(RsiPeriod - 1) \in Fractions /\ <<1, RsiPeriod>> \in Fractions
        /\ <<1, IF r.samples + 1 = RsiPeriod THEN RsiPeriod ELSE 1>> \in Fractions
    BY <1>4 DEF Int2Frac, Fractions
  <2>8. u.loss \in Fractions /\ (r.loss[1] = 0 /\ down[1] = 0 => u.loss[1] = 0)
    <3>1. PICK a : a = Times(r.loss, Int2Frac(RsiPeriod - 1))
      OBVIOUS
    <3>2. a \in Fractions /\ (r.loss[1] = 0 => a[1] = 0)
      BY <2>1, <2>7, <3>1, PlusTimes
    <3>3. /\ Plus(a, down) \in Fractions /\ (a[1] = 0 /\ down[1] = 0 => Plus(a, down)[1] = 0)
          /\ Plus(r.loss, down) \in Fractions
          /\ (r.loss[1] = 0 /\ down[1] = 0 => Plus(r.loss, down)[1] = 0)
      BY <2>1, <2>6, <3>2, PlusTimes
    <3>4. CASE r.samples = RsiPeriod
      <4>1. u.loss = Times(Plus(a, down), <<1, RsiPeriod>>)
        BY <2>4, <3>1, <3>4
      <4>2. PICK b : b = Plus(a, down)
        OBVIOUS
      <4>3. b \in Fractions /\ (a[1] = 0 /\ down[1] = 0 => b[1] = 0)
        BY <3>3, <4>2
      <4>4. Times(b, <<1, RsiPeriod>>) \in Fractions
            /\ (b[1] = 0 => Times(b, <<1, RsiPeriod>>)[1] = 0)
        BY <2>7, <4>3, PlusTimes
      <4> QED
        BY <3>2, <4>1, <4>2, <4>3, <4>4
    <3>5. CASE r.samples # RsiPeriod
      <4>1. PICK w \in Fractions : w = <<1, IF r.samples + 1 = RsiPeriod THEN RsiPeriod ELSE 1>>
        BY <2>7, Zenon
      <4>2. u.loss = Times(Plus(r.loss, down), w)
        BY <2>4, <3>5, <4>1
      <4>3. PICK b : b = Plus(r.loss, down)
        OBVIOUS
      <4>4. b \in Fractions /\ (r.loss[1] = 0 /\ down[1] = 0 => b[1] = 0)
        BY <3>3, <4>3
      <4>5. Times(b, w) \in Fractions /\ (b[1] = 0 => Times(b, w)[1] = 0)
        BY <4>1, <4>4, PlusTimes
      <4> QED
        BY <4>2, <4>3, <4>4, <4>5
    <3> QED
      BY <3>4, <3>5
  <2>9. u.loss[1] = 0 \/ Falls(p)
    <3>1. CASE r.loss[1] = 0 /\ down[1] = 0
      BY <2>8, <3>1
    <3>2. CASE Falls(q)
      <4>1. PICK i \in 1 .. n - 1 : q[i + 1].price < q[i].price
        BY <1>2, <3>2 DEF Falls
      <4>2. i \in 1 .. n /\ i + 1 \in 1 .. n /\ i \in 1 .. Len(p) - 1
        BY <1>3, <4>1
      <4> QED
        BY <1>3, <4>1, <4>2 DEF Falls
    <3>3. CASE down[1] # 0
      <4>1. x.price < r.previous
        BY <1>3, <2>1, <2>6, <3>3
      <4>2. n \in 1 .. Len(p) - 1 /\ p[n + 1].price < p[n].price
        BY <1>3, <2>0, <2>1, <4>1
      <4> QED
        BY <4>2 DEF Falls
    <3> QED
      BY <2>1, <3>1, <3>2, <3>3
  <2>10. u.previous = p[Len(p)].price
    BY <1>3, <2>4
  <2> QED
    BY <1>1, <1>3, <2>2, <2>4, <2>5, <2>8, <2>9, <2>10 DEF Averages
<1> QED
  BY <1>5, <1>6

\* Without a fall the index is 100, far above any oversold level.
LEMMA MeanReversionJudges ==
  ASSUME NEW s, NEW c, NEW q \in Seq(Ticks), q # <<>>, Averages(PushRsi(s.rsi, c), q),
         MeanReversion(s, c).signal.buy
  PROVE  Len(q) > RsiPeriod /\ Falls(q)
<1>1. PICK r : r = PushRsi(s.rsi, c)
  OBVIOUS
<1>2. PICK below : below = Minus(Int2Frac(Oversold), RsiValue(r))
  OBVIOUS
<1>3. MeanReversion(s, c).signal =
        IF r.samples < RsiPeriod \/ below[1] < 0 THEN None ELSE Buy(Over(below, Int2Frac(Oversold)))
  BY <1>1, <1>2 DEF MeanReversion
<1>4. ~(r.samples < RsiPeriod) /\ ~(below[1] < 0)
  <2>1. None.buy = FALSE
    BY DEF None
  <2> QED
    BY <1>3, <2>1
<1>5. RsiPeriod \in Nat \ {0} /\ Oversold \in Nat \ {0} /\ Oversold < 50
  BY StrategyAssumption
<1>6. PICK n \in Nat : n = Len(q) /\ n >= 1
  OBVIOUS
<1>7. r.samples = Smaller(n - 1, RsiPeriod) /\ (r.loss[1] = 0 \/ Falls(q))
  BY <1>1, <1>6 DEF Averages
<1>8. r.samples = RsiPeriod /\ n > RsiPeriod
  BY <1>4, <1>5, <1>6, <1>7 DEF Smaller
<1>9. ASSUME r.loss[1] = 0 PROVE FALSE
  <2>1. r.loss[1] <= 0 /\ ~(r.samples < RsiPeriod)
    BY <1>4, <1>9
  <2>2. RsiValue(r) = Int2Frac(100)
    BY <1>8, <2>1 DEF RsiValue
  <2>3. below = Frac(Oversold - 100, 1)
    BY <1>2, <1>5, <2>2 DEF Minus, Int2Frac
  <2>4. PICK k \in Int : k = Oversold - 100 /\ k < 0
    BY <1>5
  <2>5. below[1] < 0
    BY <2>3, <2>4, FracSigns
  <2> QED
    BY <1>4, <2>5
<1> QED
  BY <1>6, <1>7, <1>8, <1>9

\* Trend needs as many prices as its slow average is long.
LEMMA TrendJudges ==
  ASSUME NEW s, NEW c, s.samples \in Nat
  PROVE  /\ Trend(s, c).samples = s.samples + 1
         /\ Trend(s, c).signal.buy => s.samples + 1 >= SlowPeriod
<1>1. SlowPeriod \in Nat
  BY StrategyAssumption
<1>2. PICK fast, slow : fast = PushEma(s.fast, FastPeriod, c) /\ slow = PushEma(s.slow, SlowPeriod, c)
  OBVIOUS
<1>3. /\ Trend(s, c).samples = s.samples + 1
      /\ Trend(s, c).signal = IF s.samples + 1 < SlowPeriod THEN None ELSE Crossed(fast.value, slow.value)
  BY <1>2 DEF Trend
<1>4. None.buy = FALSE
  BY DEF None
<1>5. CASE s.samples + 1 < SlowPeriod
  BY <1>3, <1>4, <1>5
<1>6. CASE ~(s.samples + 1 < SlowPeriod)
  BY <1>1, <1>3, <1>6
<1> QED
  BY <1>5, <1>6

-----------------------------------------------------------------------------
(* Frames *)

Run(q, from, end) == {q[i].price : i \in from .. end}

\* c summarises the prices of q from one place to another.
IsFrame(c, q, seconds, from, end) ==
  \E high, low \in Run(q, from, end) :
    /\ \A y \in Run(q, from, end) : low <= y /\ y <= high
    /\ c = [bucket |-> q[end].time \div seconds, open |-> q[from].price, close |-> q[end].price,
            high |-> high, low |-> low]

\* Where the run under way starts.
Start(q, seconds) == Max({0} \cup RunEnds(q, seconds)) + 1

\* What a TimeframeAggregator keeps of the prices.
FramesHold(a, seconds, q) ==
  /\ a = [current |-> a.current, closed |-> LastFrame(q, seconds)]
  /\ q = <<>> => a.current = NoFrame
  /\ q # <<>> => IsFrame(a.current, q, seconds, Start(q, seconds), Len(q))

\* Runs end before the latest price, and one starts after each end.
LEMMA RunsBounded ==
  ASSUME NEW q \in Seq(Ticks), q # <<>>, NEW seconds
  PROVE  /\ RunEnds(q, seconds) \in SUBSET (1 .. Len(q) - 1)
         /\ Start(q, seconds) \in 1 .. Len(q)
<1>1. PICK E : E = RunEnds(q, seconds)
  OBVIOUS
<1>2. PICK n \in Nat : n = Len(q) /\ n >= 1
  OBVIOUS
<1>3. E \in SUBSET (1 .. n - 1)
  BY <1>1, <1>2 DEF RunEnds
<1>4. PICK S : S = {0} \cup E
  OBVIOUS
<1>5. n - 1 \in Nat /\ S \in SUBSET (0 .. n - 1) /\ S # {}
  BY <1>2, <1>3, <1>4
<1>6. Max(S) \in S
  BY <1>5, GreatestExists
<1>7. Max(S) \in 0 .. n - 1
  BY <1>5, <1>6
<1>8. Max(S) + 1 \in 1 .. n
  BY <1>2, <1>7
<1> QED
  BY <1>1, <1>2, <1>3, <1>4, <1>8 DEF Start

\* A new price ends the run under way exactly if its bucket is another one.
LEMMA RunsGrow ==
  ASSUME NEW q \in Seq(Ticks), q # <<>>, NEW x \in Ticks, NEW seconds
  PROVE  RunEnds(Append(q, x), seconds) =
           RunEnds(q, seconds) \cup
           (IF q[Len(q)].time \div seconds # x.time \div seconds THEN {Len(q)} ELSE {})
<1>1. PICK p : p = Append(q, x)
  OBVIOUS
<1>2. PICK n \in Nat : n = Len(q) /\ n >= 1
  OBVIOUS
<1>3. Len(p) = n + 1 /\ p[n + 1] = x /\ \A i \in 1 .. n : p[i] = q[i]
  BY <1>1, <1>2, HistoryGrows
<1> DEFINE Ends(h, i) == h[i].time \div seconds # h[i + 1].time \div seconds
<1>4. \A i \in 1 .. n - 1 : Ends(p, i) <=> Ends(q, i)
  <2> SUFFICES ASSUME NEW i \in 1 .. n - 1 PROVE p[i] = q[i] /\ p[i + 1] = q[i + 1]
    OBVIOUS
  <2>1. i \in 1 .. n /\ i + 1 \in 1 .. n
    BY <1>2
  <2> QED
    BY <1>3, <2>1
<1>5. Ends(p, n) <=> q[n].time \div seconds # x.time \div seconds
  <2>1. n \in 1 .. n
    BY <1>2
  <2> QED
    BY <1>3, <2>1
<1>6. /\ RunEnds(p, seconds) = {i \in 1 .. n : Ends(p, i)}
      /\ RunEnds(q, seconds) = {i \in 1 .. n - 1 : Ends(q, i)}
  <2>1. Len(p) - 1 = n /\ Len(q) - 1 = n - 1
    BY <1>2, <1>3
  <2> QED
    BY <2>1 DEF RunEnds
<1> HIDE DEF Ends
<1>7. \A i : i \in 1 .. n <=> i \in 1 .. n - 1 \/ i = n
  BY <1>2
<1>8. ~(n \in 1 .. n - 1)
  BY <1>2
<1>9. CASE Ends(p, n)
  <2>1. RunEnds(p, seconds) = RunEnds(q, seconds) \cup {n}
    BY <1>4, <1>6, <1>7, <1>9, Zenon
  <2> QED
    BY <1>1, <1>2, <1>5, <1>9, <2>1, Zenon
<1>10. CASE ~Ends(p, n)
  <2>1. RunEnds(p, seconds) = RunEnds(q, seconds) \cup {}
    BY <1>4, <1>6, <1>7, <1>10, Zenon
  <2> QED
    BY <1>1, <1>2, <1>5, <1>10, <2>1, Zenon
<1> QED
  BY <1>9, <1>10

\* A frame has the highest and the lowest price of its run.
LEMMA FrameIs ==
  ASSUME NEW q \in Seq(Ticks), NEW seconds, NEW from \in 1 .. Len(q), NEW end \in 1 .. Len(q),
         NEW c, IsFrame(c, q, seconds, from, end)
  PROVE  c = [bucket |-> q[end].time \div seconds, open |-> q[from].price, close |-> q[end].price,
              high |-> Max(Run(q, from, end)), low |-> Min(Run(q, from, end))]
<1>1. PICK S : S = Run(q, from, end)
  OBVIOUS
<1>2. S \in SUBSET Int
  <2>1. \A i \in from .. end : q[i].price \in Int
    <3> SUFFICES ASSUME NEW i \in from .. end PROVE q[i].price \in Int
      OBVIOUS
    <3>1. q[i] \in Ticks
      OBVIOUS
    <3> QED
      BY <3>1 DEF Ticks
  <2> QED
    BY <1>1, <2>1 DEF Run
<1>3. PICK high \in S, low \in S :
        /\ \A y \in S : low <= y /\ y <= high
        /\ c = [bucket |-> q[end].time \div seconds, open |-> q[from].price, close |-> q[end].price,
                high |-> high, low |-> low]
  BY <1>1 DEF IsFrame
<1>4. Max(S) = high
  BY <1>2, <1>3, MaxIs
<1>5. Min(S) = low
  BY <1>2, <1>3, MinIs
<1> QED
  BY <1>1, <1>3, <1>4, <1>5

\* Later prices change neither a run nor its frame.
LEMMA FrameStays ==
  ASSUME NEW q \in Seq(Ticks), NEW x \in Ticks, NEW seconds, NEW c,
         NEW from \in 1 .. Len(q), NEW end \in 1 .. Len(q)
  PROVE  /\ Run(Append(q, x), from, end) = Run(q, from, end)
         /\ Append(q, x)[from] = q[from] /\ Append(q, x)[end] = q[end]
         /\ IsFrame(c, Append(q, x), seconds, from, end) <=> IsFrame(c, q, seconds, from, end)
<1>1. PICK p : p = Append(q, x)
  OBVIOUS
<1>2. \A i \in 1 .. Len(q) : p[i] = q[i]
  BY <1>1, HistoryGrows
<1>3. \A i \in from .. end : p[i] = q[i]
  BY <1>2
<1>4. Run(p, from, end) = Run(q, from, end)
  BY <1>3, Zenon DEF Run
<1>5. p[from] = q[from] /\ p[end] = q[end]
  BY <1>2
<1>6. IsFrame(c, p, seconds, from, end) <=> IsFrame(c, q, seconds, from, end)
  BY <1>4, <1>5, Zenon DEF IsFrame
<1> QED
  BY <1>1, <1>4, <1>5, <1>6

\* The frame closed last is the same while no run ends.
LEMMA LastFrameStays ==
  ASSUME NEW q \in Seq(Ticks), q # <<>>, NEW x \in Ticks, NEW seconds,
         RunEnds(Append(q, x), seconds) = RunEnds(q, seconds)
  PROVE  LastFrame(Append(q, x), seconds) = LastFrame(q, seconds)
<1>1. PICK p, E : p = Append(q, x) /\ E = RunEnds(q, seconds) /\ E = RunEnds(p, seconds)
  OBVIOUS
<1>2. PICK n \in Nat : n = Len(q) /\ n >= 1
  OBVIOUS
<1>3. E \in SUBSET (1 .. n - 1)
  BY <1>1, <1>2, RunsBounded
<1>4. CASE E = {}
  BY <1>1, <1>4 DEF LastFrame
<1>5. CASE E # {}
  <2>1. PICK end, F, from : /\ end = Max(E) /\ F = {0} \cup (E \ {end}) /\ from = Max(F) + 1
    OBVIOUS
  <2>2. n - 1 \in Nat /\ E \in SUBSET (0 .. n - 1) /\ F \in SUBSET (0 .. n - 1) /\ F # {}
    <3>1. n - 1 \in Nat /\ 0 \in 0 .. n - 1 /\ \A i \in E : i \in 0 .. n - 1
      BY <1>2, <1>3
    <3>2. F \in SUBSET (0 .. n - 1) /\ F # {}
      BY <2>1, <3>1
    <3> QED
      BY <3>1, <3>2
  <2>3. end \in E /\ Max(F) \in F
    BY <1>5, <2>1, <2>2, GreatestExists
  <2>4. end \in 1 .. n /\ from \in 1 .. n
    BY <1>2, <1>3, <2>1, <2>2, <2>3
  <2>5. Run(p, from, end) = Run(q, from, end) /\ p[from] = q[from] /\ p[end] = q[end]
    BY <1>1, <1>2, <2>4, FrameStays
  <2>6. ASSUME NEW h, RunEnds(h, seconds) = E
        PROVE  LastFrame(h, seconds) =
                 [bucket |-> h[end].time \div seconds, open |-> h[from].price, close |-> h[end].price,
                  high |-> Max(Run(h, from, end)), low |-> Min(Run(h, from, end))]
    BY <1>5, <2>1, <2>6, Zenon DEF LastFrame, Run
  <2> QED
    BY <1>1, <2>5, <2>6, Zenon
<1> QED
  BY <1>1, <1>4, <1>5

\* The frame under way becomes the one closed last when its run ends.
LEMMA LastFrameCloses ==
  ASSUME NEW q \in Seq(Ticks), q # <<>>, NEW x \in Ticks, NEW seconds, NEW c,
         IsFrame(c, q, seconds, Start(q, seconds), Len(q)),
         q[Len(q)].time \div seconds # x.time \div seconds
  PROVE  LastFrame(Append(q, x), seconds) = c /\ Start(Append(q, x), seconds) = Len(q) + 1
<1>1. PICK p, E, from : p = Append(q, x) /\ E = RunEnds(q, seconds) /\ from = Start(q, seconds)
  OBVIOUS
<1>2. PICK n \in Nat : n = Len(q) /\ n >= 1
  OBVIOUS
<1>3. E \in SUBSET (1 .. n - 1) /\ from \in 1 .. n
  BY <1>1, <1>2, RunsBounded
<1>4. PICK D : D = RunEnds(p, seconds)
  OBVIOUS
<1>5. D = E \cup {n}
  BY <1>1, <1>2, <1>4, RunsGrow
<1>6. Max(D) = n /\ D # {} /\ D \ {n} = E /\ Max({0} \cup D) = n
  <2>1. D \in SUBSET Int /\ n \in D /\ (\A i \in D : i <= n) /\ D \ {n} = E
    BY <1>3, <1>5
  <2>2. {0} \cup D \in SUBSET Int /\ n \in {0} \cup D /\ \A i \in {0} \cup D : i <= n
    BY <1>2, <2>1
  <2> QED
    BY <2>1, <2>2, MaxIs
<1>7. Start(p, seconds) = n + 1
  BY <1>4, <1>6 DEF Start
<1>8. from = Max({0} \cup (D \ {n})) + 1
  BY <1>1, <1>6 DEF Start
<1>9. LastFrame(p, seconds) =
        [bucket |-> p[n].time \div seconds, open |-> p[from].price, close |-> p[n].price,
         high |-> Max(Run(p, from, n)), low |-> Min(Run(p, from, n))]
  BY <1>4, <1>6, <1>8, Zenon DEF LastFrame, Run
<1>10. n \in 1 .. n /\ IsFrame(c, q, seconds, from, n)
  BY <1>1, <1>2
<1>11. Run(p, from, n) = Run(q, from, n) /\ p[from] = q[from] /\ p[n] = q[n]
  BY <1>1, <1>2, <1>3, <1>10, FrameStays
<1>12. c = [bucket |-> q[n].time \div seconds, open |-> q[from].price, close |-> q[n].price,
            high |-> Max(Run(q, from, n)), low |-> Min(Run(q, from, n))]
  BY <1>2, <1>3, <1>10, FrameIs
<1> QED
  BY <1>1, <1>2, <1>7, <1>9, <1>11, <1>12

\* A price alone is a frame.
LEMMA FrameStarts ==
  ASSUME NEW q \in Seq(Ticks), NEW seconds, NEW n \in 1 .. Len(q)
  PROVE  IsFrame([bucket |-> q[n].time \div seconds, open |-> q[n].price, high |-> q[n].price,
                  low |-> q[n].price, close |-> q[n].price], q, seconds, n, n)
<1>1. q[n].price \in Int
  <2>1. q[n] \in Ticks
    OBVIOUS
  <2> QED
    BY <2>1 DEF Ticks
<1>2. \A i \in n .. n : i = n
  OBVIOUS
<1>3. n \in n .. n
  OBVIOUS
<1>4. Run(q, n, n) = {q[n].price}
  BY <1>2, <1>3, Zenon DEF Run
<1>5. q[n].price \in Run(q, n, n) /\ \A y \in Run(q, n, n) : q[n].price <= y /\ y <= q[n].price
  BY <1>1, <1>4
<1> QED
  BY <1>5 DEF IsFrame

\* A frame with one more price of its bucket.
LEMMA FrameGrows ==
  ASSUME NEW q \in Seq(Ticks), q # <<>>, NEW x \in Ticks, NEW seconds, NEW c,
         NEW from \in 1 .. Len(q), IsFrame(c, q, seconds, from, Len(q)),
         q[Len(q)].time \div seconds = x.time \div seconds
  PROVE  IsFrame([c EXCEPT !.high = IF x.price > c.high THEN x.price ELSE c.high,
                           !.low = IF x.price < c.low THEN x.price ELSE c.low,
                           !.close = x.price],
                 Append(q, x), seconds, from, Len(q) + 1)
<1>1. PICK p : p = Append(q, x)
  OBVIOUS
<1>2. PICK n \in Nat : n = Len(q) /\ n >= 1
  OBVIOUS
<1>3. PICK S : S = Run(q, from, n)
  OBVIOUS
<1>4. /\ Len(p) = n + 1 /\ p[n + 1] = x /\ p[from] = q[from]
      /\ \A i \in 1 .. n : p[i] = q[i] /\ q[i] \in Ticks
  BY <1>1, <1>2, HistoryGrows
<1>5. PICK high \in S, low \in S :
        /\ \A y \in S : low <= y /\ y <= high
        /\ c = [bucket |-> q[n].time \div seconds, open |-> q[from].price, close |-> q[n].price,
                high |-> high, low |-> low]
  BY <1>2, <1>3 DEF IsFrame
<1>6. \A y \in S : y \in Int
  <2>1. \A i \in from .. n : q[i].price \in Int
    <3> SUFFICES ASSUME NEW i \in from .. n PROVE q[i].price \in Int
      OBVIOUS
    <3>1. q[i] \in Ticks
      BY <1>2, <1>4
    <3> QED
      BY <3>1 DEF Ticks
  <2> QED
    BY <1>3, <2>1 DEF Run
<1>7. PICK y \in Int : y = x.price
  BY DEF Ticks
<1>8. Run(p, from, n + 1) = S \cup {y}
  <2>1. \A i : i \in from .. n + 1 <=> i \in from .. n \/ i = n + 1
    BY <1>2
  <2>2. \A i \in from .. n : p[i] = q[i]
    BY <1>2, <1>4
  <2> QED
    BY <1>3, <1>4, <1>7, <2>1, <2>2, Zenon DEF Run
<1>9. PICK h, l : h = (IF y > high THEN y ELSE high) /\ l = (IF y < low THEN y ELSE low)
  OBVIOUS
<1>10. high \in Int /\ low \in Int
  BY <1>5, <1>6
<1>11. h \in S \cup {y} /\ l \in S \cup {y} /\ \A z \in S \cup {y} : l <= z /\ z <= h
  <2>1. h \in S \cup {y} /\ l \in S \cup {y}
    BY <1>5, <1>9
  <2>2. h \in Int /\ l \in Int /\ y <= h /\ l <= y /\ high <= h /\ l <= low
    BY <1>9, <1>10
  <2>3. ASSUME NEW z \in S PROVE l <= z /\ z <= h
    <3>1. z \in Int /\ low <= z /\ z <= high
      BY <1>5, <1>6
    <3> QED
      BY <1>10, <2>2, <3>1
  <2> QED
    BY <2>1, <2>2, <2>3
<1>12. [c EXCEPT !.high = IF x.price > c.high THEN x.price ELSE c.high,
                 !.low = IF x.price < c.low THEN x.price ELSE c.low,
                 !.close = x.price] =
         [bucket |-> p[n + 1].time \div seconds, open |-> p[from].price, close |-> p[n + 1].price,
          high |-> h, low |-> l]
  <2>1. c.high = high /\ c.low = low
    BY <1>5
  <2>2. q[n].time \div seconds = p[n + 1].time \div seconds
    BY <1>2, <1>4
  <2>3. [c EXCEPT !.high = h, !.low = l, !.close = y] =
          [bucket |-> q[n].time \div seconds, open |-> q[from].price, close |-> y, high |-> h, low |-> l]
    <3>1. PICK b, o, k : b = q[n].time \div seconds /\ o = q[from].price /\ k = q[n].price
      OBVIOUS
    <3>2. c = [bucket |-> b, open |-> o, close |-> k, high |-> high, low |-> low]
      BY <1>5, <3>1, Zenon
    <3>3. [c EXCEPT !.high = h, !.low = l, !.close = y] =
            [bucket |-> b, open |-> o, close |-> y, high |-> h, low |-> l]
      <4>1. PICK d : d = [c EXCEPT !.high = h, !.low = l, !.close = y]
        OBVIOUS
      <4>2. DOMAIN d = {"bucket", "open", "close", "high", "low"} /\ d = [f \in DOMAIN d |-> d[f]]
        BY <3>2, <4>1
      <4>3. d.bucket = b /\ d.open = o /\ d.close = y /\ d.high = h /\ d.low = l
        BY <3>2, <4>1
      <4>4. d = [bucket |-> b, open |-> o, close |-> y, high |-> h, low |-> l]
        BY <4>2, <4>3
      <4> QED
        BY <4>1, <4>4, Zenon
    <3> QED
      BY <3>1, <3>3, Zenon
  <2>4. y = p[n + 1].price /\ q[from].price = p[from].price
    BY <1>4, <1>7
  <2>5. h = (IF x.price > c.high THEN x.price ELSE c.high) /\ l = (IF x.price < c.low THEN x.price ELSE c.low)
    BY <1>7, <1>9, <2>1
  <2> QED
    BY <1>7, <2>2, <2>3, <2>4, <2>5, Zenon
<1>13. IsFrame([bucket |-> p[n + 1].time \div seconds, open |-> p[from].price, close |-> p[n + 1].price,
                high |-> h, low |-> l], p, seconds, from, n + 1)
  BY <1>8, <1>11, Zenon DEF IsFrame
<1> QED
  BY <1>1, <1>2, <1>12, <1>13

\* push() of an aggregator, whether the price starts, continues or ends a run.
LEMMA PushHolds ==
  ASSUME NEW a, NEW seconds \in Nat \ {0}, NEW q \in Seq(Ticks), FramesHold(a, seconds, q),
         NEW x \in Ticks
  PROVE  /\ FramesHold(PushFrame(a, seconds, x.price, x.time), seconds, Append(q, x))
         /\ Closes(a, x.time \div seconds) <=>
              q # <<>> /\ q[Len(q)].time \div seconds # x.time \div seconds
<1>1. PICK p : p = Append(q, x)
  OBVIOUS
<1>2. PICK n \in Nat : n = Len(q)
  OBVIOUS
<1>3. /\ p \in Seq(Ticks) /\ p # <<>> /\ Len(p) = n + 1 /\ p[n + 1] = x
      /\ \A i \in 1 .. n : p[i] = q[i] /\ q[i] \in Ticks
  BY <1>1, <1>2, HistoryGrows
<1>4. PICK c : /\ a = [current |-> c, closed |-> LastFrame(q, seconds)]
               /\ q = <<>> => c = NoFrame
               /\ q # <<>> => IsFrame(c, q, seconds, Start(q, seconds), n)
  BY <1>2 DEF FramesHold
<1>5. PICK bucket \in Nat : bucket = x.time \div seconds
  BY DEF Ticks
<1>6. PICK new : new = [bucket |-> bucket, open |-> x.price, high |-> x.price, low |-> x.price,
                        close |-> x.price]
  OBVIOUS
<1>7. IsFrame(new, p, seconds, n + 1, n + 1)
  <2>1. n + 1 \in 1 .. Len(p)
    BY <1>3
  <2> QED
    BY <1>3, <1>5, <1>6, <2>1, FrameStarts
<1>8. CASE q = <<>>
  <2>1. n = 0 /\ c = NoFrame /\ ~(c.bucket >= 0) /\ c.bucket < 0
    BY <1>2, <1>4, <1>8 DEF NoFrame
  <2>2. ~Closes(a, bucket)
    BY <1>4, <2>1 DEF Closes
  <2>3. PushFrame(a, seconds, x.price, x.time) = [current |-> new, closed |-> LastFrame(q, seconds)]
    BY <1>4, <1>5, <1>6, <2>1, <2>2 DEF PushFrame
  <2>4. RunEnds(q, seconds) = {} /\ RunEnds(p, seconds) = {}
    BY <1>2, <1>3, <2>1 DEF RunEnds
  <2>5. LastFrame(p, seconds) = LastFrame(q, seconds)
    BY <2>4 DEF LastFrame
  <2>6. Start(p, seconds) = 1
    <3>1. {0} \in SUBSET Int /\ 0 \in {0} /\ \A i \in {0} : i <= 0
      OBVIOUS
    <3>2. Max({0}) = 0 /\ {0} \cup {} = {0}
      BY <3>1, MaxIs
    <3> QED
      BY <2>4, <3>2 DEF Start
  <2>7. IsFrame(new, p, seconds, Start(p, seconds), Len(p))
    BY <1>3, <1>7, <2>1, <2>6
  <2> QED
    BY <1>1, <1>3, <1>5, <1>8, <2>2, <2>3, <2>5, <2>7 DEF FramesHold
<1>9. CASE q # <<>>
  <2>1. n >= 1 /\ n \in 1 .. n /\ q[n] \in Ticks
    BY <1>2, <1>3, <1>9
  <2>2. PICK from : from = Start(q, seconds) /\ from \in 1 .. n
    BY <1>2, <1>9, RunsBounded
  <2>3. IsFrame(c, q, seconds, from, n)
    BY <1>4, <1>9, <2>2
  <2>4. c.bucket = q[n].time \div seconds /\ c.bucket \in Nat
    <3>1. c.bucket = q[n].time \div seconds
      BY <2>3 DEF IsFrame
    <3>2. q[n].time \in Nat
      BY <2>1 DEF Ticks
    <3> QED
      BY <3>1, <3>2
  <2>5. Closes(a, bucket) <=> c.bucket # bucket
    BY <1>4, <2>4 DEF Closes
  <2>6. CASE c.bucket # bucket
    <3>1. PushFrame(a, seconds, x.price, x.time) = [current |-> new, closed |-> c]
      BY <1>4, <1>5, <1>6, <2>5, <2>6 DEF PushFrame
    <3>2. LastFrame(p, seconds) = c /\ Start(p, seconds) = n + 1
      BY <1>1, <1>2, <1>5, <1>9, <2>2, <2>3, <2>4, <2>6, LastFrameCloses
    <3> QED
      BY <1>1, <1>2, <1>3, <1>5, <1>7, <1>9, <2>4, <2>5, <2>6, <3>1, <3>2 DEF FramesHold
  <2>7. CASE c.bucket = bucket
    <3>1. PICK d : d = [c EXCEPT !.high = IF x.price > c.high THEN x.price ELSE c.high,
                                 !.low = IF x.price < c.low THEN x.price ELSE c.low,
                                 !.close = x.price]
      OBVIOUS
    <3>2. PushFrame(a, seconds, x.price, x.time) = [current |-> d, closed |-> LastFrame(q, seconds)]
      <4>1. ~Closes(a, bucket) /\ ~(c.bucket < 0)
        BY <2>4, <2>5, <2>7
      <4>2. PICK h, l : /\ h = (IF x.price > c.high THEN x.price ELSE c.high)
                        /\ l = (IF x.price < c.low THEN x.price ELSE c.low)
        OBVIOUS
      <4>3. PushFrame(a, seconds, x.price, x.time) =
              [a EXCEPT !.current.high = h, !.current.low = l, !.current.close = x.price]
        BY <1>4, <1>5, <4>1, <4>2 DEF PushFrame
      <4>4. d = [c EXCEPT !.high = h, !.low = l, !.close = x.price]
        BY <3>1, <4>2
      <4> QED
        BY <1>4, <4>3, <4>4
    <3>3. IsFrame(d, p, seconds, from, n + 1)
      BY <1>1, <1>2, <1>5, <1>9, <2>2, <2>3, <2>4, <2>7, <3>1, FrameGrows
    <3>4. RunEnds(p, seconds) = RunEnds(q, seconds)
      <4>1. q[Len(q)].time \div seconds = x.time \div seconds
        BY <1>2, <1>5, <2>4, <2>7
      <4>2. RunEnds(p, seconds) = RunEnds(q, seconds) \cup {}
        BY <1>1, <1>9, <4>1, RunsGrow
      <4> QED
        BY <4>2
    <3>5. LastFrame(p, seconds) = LastFrame(q, seconds)
      BY <1>1, <1>9, <3>4, LastFrameStays
    <3>6. Start(p, seconds) = from
      BY <2>2, <3>4 DEF Start
    <3>7. FramesHold([current |-> d, closed |-> LastFrame(q, seconds)], seconds, p)
      BY <1>3, <3>3, <3>5, <3>6 DEF FramesHold
    <3> QED
      BY <1>1, <1>2, <1>5, <1>9, <2>4, <2>5, <2>7, <3>2, <3>7
  <2> QED
    BY <2>6, <2>7
<1> QED
  BY <1>8, <1>9

\* Every end of a run counts once.
LEMMA RunsCounted ==
  ASSUME NEW q \in Seq(Ticks), NEW x \in Ticks, NEW seconds
  PROVE  /\ Cardinality(RunEnds(q, seconds)) \in Nat
         /\ Cardinality(RunEnds(Append(q, x), seconds)) =
              IF q # <<>> /\ q[Len(q)].time \div seconds # x.time \div seconds
              THEN Cardinality(RunEnds(q, seconds)) + 1 ELSE Cardinality(RunEnds(q, seconds))
<1>1. PICK p : p = Append(q, x)
  OBVIOUS
<1>2. PICK n \in Nat : n = Len(q)
  OBVIOUS
<1>3. CASE q = <<>>
  <2>1. Len(q) = 0 /\ Len(p) = 1
    BY <1>1, <1>3
  <2>2. RunEnds(q, seconds) = {} /\ RunEnds(p, seconds) = {}
    BY <2>1 DEF RunEnds
  <2>3. Cardinality({}) = 0
    BY FS_EmptySet
  <2> QED
    BY <1>1, <1>3, <2>2, <2>3
<1>4. CASE q # <<>>
  <2>1. PICK E : E = RunEnds(q, seconds)
    OBVIOUS
  <2>2. E \in SUBSET (1 .. n - 1) /\ n \notin 1 .. n - 1
    BY <1>2, <1>4, <2>1, RunsBounded
  <2>3. IsFiniteSet(1 .. n - 1)
    <3>1. 1 \in Int /\ n - 1 \in Int
      OBVIOUS
    <3> QED
      BY <3>1, FS_Interval
  <2>4. IsFiniteSet(E) /\ Cardinality(E) \in Nat
    BY <2>2, <2>3, FS_Subset, FS_CardinalityType
  <2>5. n \notin E
    BY <2>2
  <2>6. Cardinality(E \cup {n}) = Cardinality(E) + 1
    BY <2>4, <2>5, FS_AddElement
  <2>7. RunEnds(p, seconds) =
          E \cup (IF q[n].time \div seconds # x.time \div seconds THEN {n} ELSE {})
    BY <1>1, <1>2, <1>4, <2>1, RunsGrow
  <2>8. CASE q[n].time \div seconds # x.time \div seconds
    <3>1. RunEnds(p, seconds) = E \cup {n}
      BY <2>7, <2>8
    <3> QED
      BY <1>1, <1>2, <1>4, <2>1, <2>4, <2>6, <2>8, <3>1
  <2>9. CASE q[n].time \div seconds = x.time \div seconds
    <3>1. RunEnds(p, seconds) = E
      BY <2>7, <2>9
    <3> QED
      BY <1>1, <1>2, <1>4, <2>1, <2>4, <2>9, <3>1
  <2> QED
    BY <2>8, <2>9
<1> QED
  BY <1>3, <1>4

\* The multi-timeframe strategy: its frames, the slow frames it counted and
\* that it waits for enough of them.
LEMMA MultiTimeframeJudges ==
  ASSUME NEW s, NEW q \in Seq(Ticks), NEW x \in Ticks,
         FramesHold(s.fast, FastFrame, q), FramesHold(s.slow, SlowFrame, q),
         s.slowSamples = Cardinality(RunEnds(q, SlowFrame))
  PROVE  LET m == MultiTimeframe(s, x.price, x.time)
             p == Append(q, x)
         IN  /\ FramesHold(m.fast, FastFrame, p) /\ FramesHold(m.slow, SlowFrame, p)
             /\ m.slowSamples = Cardinality(RunEnds(p, SlowFrame))
             /\ m.signal.buy => Cardinality(RunEnds(p, SlowFrame)) >= EmaPeriod
<1>1. PICK p, m : p = Append(q, x) /\ m = MultiTimeframe(s, x.price, x.time)
  OBVIOUS
<1>2. FastFrame \in Nat \ {0} /\ SlowFrame \in Nat \ {0} /\ EmaPeriod \in Nat
  BY StrategyAssumption
<1>3. /\ m.fast = PushFrame(s.fast, FastFrame, x.price, x.time)
      /\ m.slow = PushFrame(s.slow, SlowFrame, x.price, x.time)
      /\ m.slowSamples = IF Closes(s.slow, x.time \div SlowFrame) THEN s.slowSamples + 1 ELSE s.slowSamples
  BY <1>1 DEF MultiTimeframe
<1>4. \E b : m.signal = IF m.fastSamples < EmaPeriod \/ m.slowSamples < EmaPeriod THEN None ELSE b
  BY <1>1 DEF MultiTimeframe
<1>5. FramesHold(m.fast, FastFrame, p) /\ FramesHold(m.slow, SlowFrame, p)
  BY <1>1, <1>2, <1>3, PushHolds
<1>6. m.slowSamples = Cardinality(RunEnds(p, SlowFrame)) /\ m.slowSamples \in Nat
  <2>1. Closes(s.slow, x.time \div SlowFrame) <=>
          q # <<>> /\ q[Len(q)].time \div SlowFrame # x.time \div SlowFrame
    BY <1>2, PushHolds
  <2>2. /\ s.slowSamples \in Nat
        /\ Cardinality(RunEnds(p, SlowFrame)) =
              IF q # <<>> /\ q[Len(q)].time \div SlowFrame # x.time \div SlowFrame
              THEN s.slowSamples + 1 ELSE s.slowSamples
    BY <1>1, RunsCounted
  <2>3. m.slowSamples = Cardinality(RunEnds(p, SlowFrame))
    BY <1>3, <2>1, <2>2, Zenon
  <2> QED
    BY <2>2, <2>3
<1>7. m.signal.buy => m.slowSamples >= EmaPeriod
  <2>1. None.buy = FALSE
    BY DEF None
  <2>2. m.slowSamples < EmaPeriod => m.signal = None
    BY <1>4
  <2> QED
    BY <1>2, <1>6, <2>1, <2>2
<1> QED
  BY <1>1, <1>5, <1>6, <1>7

\* The ensemble adds up nothing when no member buys.
LEMMA EnsembleJudges ==
  ASSUME NEW s, \A m \in Members : ~s[m].signal.buy, EnsembleThreshold[1] > 0
  PROVE  ~EnsembleSignal(s).buy
<1>1. PICK z : z = Zero
  OBVIOUS
<1>2. z \in Fractions /\ z[1] = 0
  BY <1>1 DEF Zero, Int2Frac, Fractions
<1>3. PICK sum : sum = Plus(Plus(Plus(Plus(z, z), z), z), z)
  OBVIOUS
<1>4. sum \in Fractions /\ sum[1] = 0
  <2>1. Plus(z, z) \in Fractions /\ Plus(z, z)[1] = 0
    BY <1>2, PlusTimes
  <2>2. PICK b \in Fractions : b = Plus(z, z) /\ b[1] = 0
    BY <2>1
  <2>3. PICK d \in Fractions : d = Plus(b, z) /\ d[1] = 0
    BY <1>2, <2>2, PlusTimes
  <2>4. PICK e \in Fractions : e = Plus(d, z) /\ e[1] = 0
    BY <1>2, <2>3, PlusTimes
  <2>5. Plus(e, z) \in Fractions /\ Plus(e, z)[1] = 0
    BY <1>2, <2>4, PlusTimes
  <2> QED
    BY <1>3, <2>2, <2>3, <2>4, <2>5
<1>5. PICK score : score = Times(sum, <<1, 5>>)
  OBVIOUS
<1>6. score \in Fractions /\ score[1] = 0
  <2>1. <<1, 5>> \in Fractions
    BY DEF Fractions
  <2> QED
    BY <1>4, <1>5, <2>1, PlusTimes
<1>7. EnsembleSignal(s) = IF AtMost(EnsembleThreshold, score) THEN Buy(score) ELSE None
  BY <1>1, <1>3, <1>5 DEF EnsembleSignal, Members
<1>8. ~AtMost(EnsembleThreshold, score)
  <2>1. PICK t \in Int, e \in Nat \ {0} : t = EnsembleThreshold[1] /\ e = EnsembleThreshold[2] /\ t > 0
    BY StrategyAssumption
  <2>2. PICK d \in Nat \ {0} : d = score[2]
    BY <1>6 DEF Fractions
  <2>3. t * d > 0 /\ 0 * e = 0
    BY <2>1, <2>2
  <2> QED
    BY <1>6, <2>1, <2>2, <2>3 DEF AtMost
<1> QED
  BY <1>7, <1>8 DEF None

-----------------------------------------------------------------------------
(* The strategies together *)

MomentumInv == Remembers(strategy.momentum.window, prices) /\ MomentumIsRise
BreakoutInv == Shows(strategy.breakout.window, prices) /\ BreakoutIsHigh
TrendInv == strategy.trend.samples = Len(prices) /\ (Buys("trend") => Len(prices) >= SlowPeriod)
MeanReversionInv ==
  /\ Averages(strategy.meanReversion.rsi, prices)
  /\ Buys("meanReversion") => Len(prices) > RsiPeriod /\ Falls(prices)
MultiTimeframeInv ==
  /\ FramesHold(strategy.multiTimeframe.fast, FastFrame, prices)
  /\ FramesHold(strategy.multiTimeframe.slow, SlowFrame, prices)
  /\ strategy.multiTimeframe.slowSamples = Cardinality(RunEnds(prices, SlowFrame))
  /\ Buys("multiTimeframe") => Cardinality(RunEnds(prices, SlowFrame)) >= EmaPeriod

StrategiesInv ==
  MomentumInv /\ BreakoutInv /\ TrendInv /\ MeanReversionInv /\ MultiTimeframeInv

\* The inductive invariant: every strategy's state is a function of the prices
\* since the last reset.
SignalsInv ==
  /\ time \in Nat /\ prices \in Seq(Ticks)
  /\ StrategiesInv

\* A price of the traded symbol's stream.
Arrives(x) ==
  /\ strategy' = OnPrice(strategy, x.price, x.time)
  /\ prices' = Append(prices, x)

\* Each strategy keeps its part when a price arrives.
LEMMA MomentumKeeps ==
  ASSUME prices \in Seq(Ticks), MomentumInv, NEW x \in Ticks, Arrives(x)
  PROVE  MomentumInv'
<1>1. PICK m, q, p : m = strategy.momentum /\ q = prices /\ p = Append(q, x)
  OBVIOUS
<1>2. PICK w : w = PushReturn(m.window, x.price)
  OBVIOUS
<1>3. Remembers(m.window, q) /\ q \in Seq(Ticks)
  BY <1>1 DEF MomentumInv
<1>4. Remembers(w, p)
  BY <1>1, <1>2, <1>3, PushRemembers
<1>5. p \in Seq(Ticks) /\ p # <<>>
  BY <1>1, <1>3, HistoryGrows
<1>6. prices' = p /\ strategy'.momentum = Momentum(m, x.price)
  BY <1>1 DEF Arrives, OnPrice
<1>7. /\ Momentum(m, x.price).window = w
      /\ Momentum(m, x.price).signal =
           IF ReturnReady(w) /\ AtMost(Threshold, ReturnValue(w))
           THEN Buy(Confidence(ReturnValue(w), Threshold)) ELSE None
  BY <1>2 DEF Momentum
<1>8. Momentum(m, x.price).signal.buy <=> ReturnReady(w) /\ AtMost(Threshold, ReturnValue(w))
  <2>1. PICK b \in BOOLEAN : b <=> ReturnReady(w) /\ AtMost(Threshold, ReturnValue(w))
    OBVIOUS
  <2>2. PICK c : c = Confidence(ReturnValue(w), Threshold)
    OBVIOUS
  <2>3. Momentum(m, x.price).signal = IF b THEN Buy(c) ELSE None
    BY <1>7, <2>1, <2>2
  <2>4. Momentum(m, x.price).signal.buy = b
    BY <2>3, NoneOrBuy
  <2> QED
    BY <2>1, <2>4
<1>9. LET n == Len(p)
      IN  ReturnReady(w) /\ AtMost(Threshold, ReturnValue(w)) <=>
            n >= Lookback /\ Rises(p[n - Lookback + 1].price, p[n].price, Threshold)
  BY <1>4, <1>5, MomentumJudges
<1>10. MomentumIsRise'
  BY <1>6, <1>8, <1>9, Zenon DEF MomentumIsRise, Buys
<1> QED
  BY <1>4, <1>6, <1>7, <1>10 DEF MomentumInv

LEMMA BreakoutKeeps ==
  ASSUME prices \in Seq(Ticks), BreakoutInv, NEW x \in Ticks, Arrives(x)
  PROVE  BreakoutInv'
<1>1. PICK s, q, p : s = strategy.breakout /\ q = prices /\ p = Append(q, x)
  OBVIOUS
<1>2. Shows(s.window, q) /\ q \in Seq(Ticks)
  BY <1>1 DEF BreakoutInv
<1>3. prices' = p /\ strategy'.breakout = Breakout(s, x.price)
  BY <1>1 DEF Arrives, OnPrice
<1>4. Shows(Breakout(s, x.price).window, p)
  BY <1>1, <1>2, BreakoutShows
<1>5. PICK n \in Nat : n = Len(q)
  BY <1>2
<1>6. Len(p) = n + 1 /\ p[n + 1] = x /\ \A i \in 1 .. n : p[i] = q[i]
  BY <1>1, <1>2, <1>5, HistoryGrows
<1> DEFINE Clears(i, h) ==
      ~AtMost(Int2Frac(x.price), Times(Int2Frac(h[i].price), Plus(Int2Frac(1), Buffer)))
<1>7. Breakout(s, x.price).signal.buy <=> n >= Lookback /\ \A i \in n + 1 - Lookback .. n : Clears(i, q)
  BY <1>2, <1>5, BreakoutJudges
<1>8. n >= Lookback => \A i \in n + 1 - Lookback .. n : Clears(i, q) <=> Clears(i, p)
  <2> SUFFICES ASSUME n >= Lookback, NEW i \in n + 1 - Lookback .. n PROVE p[i] = q[i]
    OBVIOUS
  <2>1. Lookback \in Nat
    BY StrategyAssumption
  <2>2. i \in 1 .. n
    BY <2>1
  <2> QED
    BY <1>6, <2>2
<1>9. PICK k : k = Len(p)
  OBVIOUS
<1>10. /\ n >= Lookback <=> k > Lookback
       /\ n + 1 - Lookback = k - Lookback /\ n = k - 1
  <2>1. Lookback \in Nat
    BY StrategyAssumption
  <2> QED
    BY <1>6, <1>9, <2>1
<1>11. Breakout(s, x.price).signal.buy <=> k > Lookback /\ \A i \in k - Lookback .. k - 1 : Clears(i, p)
  <2> HIDE DEF Clears
  <2>1. (n >= Lookback /\ \A i \in n + 1 - Lookback .. n : Clears(i, q)) <=>
        (n >= Lookback /\ \A i \in n + 1 - Lookback .. n : Clears(i, p))
    BY <1>8
  <2> QED
    BY <1>7, <1>10, <2>1, Zenon
<1>12. x = p[k]
  BY <1>6, <1>9
<1>13. BreakoutIsHigh'
  BY <1>3, <1>9, <1>11, <1>12, Zenon DEF BreakoutIsHigh, Buys
<1> QED
  BY <1>3, <1>4, <1>13 DEF BreakoutInv

LEMMA AveragesKeep ==
  ASSUME prices \in Seq(Ticks), TrendInv, MeanReversionInv, NEW x \in Ticks, Arrives(x)
  PROVE  TrendInv' /\ MeanReversionInv'
<1>1. PICK t, s, q, p : /\ t = strategy.trend /\ s = strategy.meanReversion
                        /\ q = prices /\ p = Append(q, x)
  OBVIOUS
<1>2. /\ prices' = p /\ strategy'.trend = Trend(t, x.price)
      /\ strategy'.meanReversion = MeanReversion(s, x.price)
  BY <1>1 DEF Arrives, OnPrice
<1>3. q \in Seq(Ticks) /\ t.samples = Len(q) /\ t.samples \in Nat /\ Averages(s.rsi, q)
  BY <1>1 DEF TrendInv, MeanReversionInv
<1>4. p \in Seq(Ticks) /\ p # <<>> /\ Len(p) = Len(q) + 1
  BY <1>1, <1>3, HistoryGrows
<1>5. TrendInv'
  <2>1. /\ Trend(t, x.price).samples = Len(p)
        /\ Trend(t, x.price).signal.buy => Len(p) >= SlowPeriod
    BY <1>3, <1>4, TrendJudges
  <2> QED
    BY <1>2, <2>1, Zenon DEF TrendInv, Buys
<1>6. MeanReversionInv'
  <2>1. Averages(PushRsi(s.rsi, x.price), p)
    BY <1>1, <1>3, PushAverages
  <2>2. MeanReversion(s, x.price).rsi = PushRsi(s.rsi, x.price)
    BY DEF MeanReversion
  <2>3. MeanReversion(s, x.price).signal.buy => Len(p) > RsiPeriod /\ Falls(p)
    BY <1>4, <2>1, MeanReversionJudges
  <2> QED
    BY <1>2, <2>1, <2>2, <2>3, Zenon DEF MeanReversionInv, Buys
<1> QED
  BY <1>5, <1>6

LEMMA MultiTimeframeKeeps ==
  ASSUME prices \in Seq(Ticks), MultiTimeframeInv, NEW x \in Ticks, Arrives(x)
  PROVE  MultiTimeframeInv'
<1>1. PICK s, q, p, m : /\ s = strategy.multiTimeframe /\ q = prices /\ p = Append(q, x)
                        /\ m = MultiTimeframe(s, x.price, x.time)
  OBVIOUS
<1>2. prices' = p /\ strategy'.multiTimeframe = m
  BY <1>1 DEF Arrives, OnPrice
<1>3. /\ q \in Seq(Ticks) /\ FramesHold(s.fast, FastFrame, q) /\ FramesHold(s.slow, SlowFrame, q)
      /\ s.slowSamples = Cardinality(RunEnds(q, SlowFrame))
  BY <1>1 DEF MultiTimeframeInv
<1>4. /\ FramesHold(m.fast, FastFrame, p) /\ FramesHold(m.slow, SlowFrame, p)
      /\ m.slowSamples = Cardinality(RunEnds(p, SlowFrame))
      /\ m.signal.buy => Cardinality(RunEnds(p, SlowFrame)) >= EmaPeriod
  BY <1>1, <1>3, MultiTimeframeJudges
<1> QED
  BY <1>2, <1>4, Zenon DEF MultiTimeframeInv, Buys

\* The strategies as the constructors or reset() leave them, without a price yet.
Fresh ==
  /\ prices = <<>>
  /\ \E r : /\ Remembers(r, <<>>)
            /\ strategy = [NewStrategies EXCEPT !.momentum = [window |-> r, signal |-> None]]

LEMMA FreshStrategies == Fresh => StrategiesInv
<1> SUFFICES ASSUME Fresh PROVE StrategiesInv
  OBVIOUS
<1>0. PICK r : /\ Remembers(r, <<>>) /\ prices = <<>>
               /\ strategy = [NewStrategies EXCEPT !.momentum = [window |-> r, signal |-> None]]
  BY DEF Fresh
<1>1. /\ strategy.momentum = [window |-> r, signal |-> None]
      /\ strategy.trend = NewTrend /\ strategy.meanReversion = NewMeanReversion
      /\ strategy.breakout = NewBreakout /\ strategy.multiTimeframe = NewMultiTimeframe
  BY <1>0 DEF NewStrategies
<1>2. \A m \in Members : Buys(m) = FALSE
  <2>1. None.buy = FALSE
    BY DEF None
  <2>2. strategy.momentum.signal = None
    BY <1>1
  <2>3. strategy.trend.signal = None /\ strategy.meanReversion.signal = None
    BY <1>1 DEF NewTrend, NewMeanReversion
  <2>4. strategy.breakout.signal = None /\ strategy.multiTimeframe.signal = None
    BY <1>1 DEF NewBreakout, NewMultiTimeframe
  <2> QED
    BY <2>1, <2>2, <2>3, <2>4 DEF Members, Buys
<1>3. prices \in Seq(Ticks) /\ Len(prices) = 0 /\ Lookback \in Nat /\ Lookback > 1
  BY <1>0, StrategyAssumption
<1>4. MomentumInv
  <2>1. ~(Len(prices) >= Lookback) /\ Buys("momentum") = FALSE
    BY <1>2, <1>3 DEF Members
  <2> QED
    BY <1>0, <1>1, <2>1 DEF MomentumInv, MomentumIsRise
<1>5. BreakoutInv
  <2>1. ~(Len(prices) > Lookback) /\ Buys("breakout") = FALSE
    BY <1>2, <1>3 DEF Members
  <2>2. Shows(<<>>, <<>>)
    BY <1>3 DEF Shows, Smaller
  <2>3. strategy.breakout.window = <<>>
    BY <1>1 DEF NewBreakout
  <2> QED
    BY <1>0, <2>1, <2>2, <2>3 DEF BreakoutInv, BreakoutIsHigh
<1>6. TrendInv
  <2>1. Buys("trend") = FALSE /\ strategy.trend.samples = 0
    BY <1>1, <1>2 DEF Members, NewTrend
  <2> QED
    BY <1>3, <2>1 DEF TrendInv
<1>7. MeanReversionInv
  <2>1. Buys("meanReversion") = FALSE /\ strategy.meanReversion.rsi = NewRsi
    BY <1>1, <1>2 DEF Members, NewMeanReversion
  <2>2. Averages(NewRsi, <<>>)
    BY DEF Averages, NewRsi, Fractions, Zero, Int2Frac
  <2> QED
    BY <1>0, <2>1, <2>2 DEF MeanReversionInv
<1>8. MultiTimeframeInv
  <2>1. /\ Buys("multiTimeframe") = FALSE /\ strategy.multiTimeframe.fast = NewFrames
        /\ strategy.multiTimeframe.slow = NewFrames /\ strategy.multiTimeframe.slowSamples = 0
    BY <1>1, <1>2 DEF Members, NewMultiTimeframe
  <2>2. ASSUME NEW seconds PROVE RunEnds(prices, seconds) = {}
    BY <1>3 DEF RunEnds
  <2>3. ASSUME NEW seconds PROVE FramesHold(NewFrames, seconds, prices)
    BY <1>0, <2>2 DEF FramesHold, NewFrames, LastFrame
  <2>4. Cardinality({}) = 0
    BY FS_EmptySet
  <2> QED
    BY <2>1, <2>2, <2>3, <2>4 DEF MultiTimeframeInv
<1> QED
  BY <1>4, <1>5, <1>6, <1>7, <1>8 DEF StrategiesInv

\* The constructors leave empty windows.
LEMMA InitSignalsInv == Init => SignalsInv
<1> SUFFICES ASSUME Init PROVE SignalsInv
  OBVIOUS
<1>1. Lookback \in Nat /\ Lookback > 1
  BY StrategyAssumption
<1>2. Remembers(NewReturn, <<>>)
  BY <1>1 DEF Remembers, NewReturn, Smaller
<1>3. NewStrategies = [NewStrategies EXCEPT !.momentum = [window |-> NewReturn, signal |-> None]]
  BY DEF NewStrategies, NewMomentum
<1>4. strategy = NewStrategies /\ prices = <<>> /\ time = 0
  BY DEF Init
<1>5. StrategiesInv
  BY <1>2, <1>3, <1>4, FreshStrategies DEF Fresh
<1> QED
  BY <1>4, <1>5 DEF SignalsInv

\* Without a price the signals stay what they are.
LEMMA SignalsStay ==
  ASSUME SignalsInv, strategy' = strategy, prices' = prices, time' \in Nat
  PROVE  SignalsInv'
<1>1. /\ MomentumInv' <=> MomentumInv
      /\ BreakoutInv' <=> BreakoutInv
      /\ TrendInv' <=> TrendInv
      /\ MeanReversionInv' <=> MeanReversionInv
      /\ MultiTimeframeInv' <=> MultiTimeframeInv
  BY DEF MomentumInv, BreakoutInv, TrendInv, MeanReversionInv, MultiTimeframeInv,
         MomentumIsRise, BreakoutIsHigh, Buys
<1> QED
  BY <1>1 DEF SignalsInv, StrategiesInv

\* Only a price of the traded symbol reaches the strategies.
LEMMA TickKeepsSignals ==
  ASSUME SignalsInv, NEW s \in Symbols, NEW price \in Prices, NEW elapsed \in {0, 1},
         NEW isClosed \in BOOLEAN, Tick(s, price, elapsed, isClosed)
  PROVE  SignalsInv'
<1>1. time' = time + elapsed /\ time' \in Nat /\ price \in Nat \ {0} /\ prices \in Seq(Ticks)
  BY SignalsAssumption DEF SignalsInv, Tick
<1>2. CASE s = Traded
  <2>1. PICK x : x = [price |-> price, time |-> time']
    OBVIOUS
  <2>2. x \in Ticks /\ x.price = price /\ x.time = time'
    BY <1>1, <2>1 DEF Ticks
  <2>3. strategy' = OnPrice(strategy, price, time') /\ prices' = Append(prices, [price |-> price, time |-> time'])
    BY <1>2 DEF Tick
  <2>4. Arrives(x)
    BY <2>1, <2>2, <2>3 DEF Arrives
  <2>5. prices' \in Seq(Ticks)
    BY <1>1, <2>2, <2>4, HistoryGrows DEF Arrives
  <2>6. MomentumInv' /\ BreakoutInv'
    BY <1>1, <2>2, <2>4, MomentumKeeps, BreakoutKeeps DEF SignalsInv, StrategiesInv
  <2>7. TrendInv' /\ MeanReversionInv' /\ MultiTimeframeInv'
    BY <1>1, <2>2, <2>4, AveragesKeep, MultiTimeframeKeeps DEF SignalsInv, StrategiesInv
  <2> QED
    BY <1>1, <2>5, <2>6, <2>7 DEF SignalsInv, StrategiesInv
<1>3. CASE s # Traded
  <2>1. strategy' = strategy /\ prices' = prices
    BY <1>3 DEF Tick
  <2> QED
    BY <1>1, <2>1, SignalsStay
<1> QED
  BY <1>2, <1>3

\* reset() after an exit: the momentum ring keeps old values, but counts none of them.
LEMMA ResetKeepsSignals ==
  ASSUME SignalsInv, ResetStrategy
  PROVE  SignalsInv'
<1>1. PICK r : r = strategy.momentum.window
  OBVIOUS
<1>2. Remembers(r, prices)
  BY <1>1 DEF SignalsInv, StrategiesInv, MomentumInv
<1>3. Remembers(ResetReturn(r), <<>>)
  <2>1. r \in [values : [0 .. Lookback - 1 -> Int], head : 0 .. Lookback - 1, size : Nat]
    BY <1>2 DEF Remembers
  <2>2. Lookback \in Nat /\ Lookback > 1
    BY StrategyAssumption
  <2>3. PICK u : u = ResetReturn(r)
    OBVIOUS
  <2>4. u \in [values : [0 .. Lookback - 1 -> Int], head : 0 .. Lookback - 1, size : Nat] /\ u.size = 0
    <3>1. u = [values |-> r.values, head |-> 0, size |-> 0]
      BY <2>1, <2>3 DEF ResetReturn
    <3>2. r.values \in [0 .. Lookback - 1 -> Int] /\ 0 \in 0 .. Lookback - 1
      BY <2>1, <2>2
    <3> QED
      BY <3>1, <3>2
  <2>5. Smaller(Len(<<>>), Lookback) = 0
    BY <2>2 DEF Smaller
  <2> QED
    BY <2>3, <2>4, <2>5 DEF Remembers
<1>4. /\ strategy' = [NewStrategies EXCEPT !.momentum = [window |-> ResetReturn(r), signal |-> None]]
      /\ prices' = <<>> /\ time' = time
  BY <1>1 DEF ResetStrategy, Reset
<1>5. Fresh'
  BY <1>3, <1>4 DEF Fresh
<1>6. StrategiesInv'
  BY <1>5, FreshStrategies, PTL
<1> QED
  BY <1>4, <1>6 DEF SignalsInv

\* Every step keeps the inductive invariant.
LEMMA NextSignalsInv == SignalsInv /\ [Next]_vars => SignalsInv'
<1> SUFFICES ASSUME SignalsInv, [Next]_vars PROVE SignalsInv'
  OBVIOUS
<1>1. ASSUME NEW s \in Symbols, NEW price \in Prices, NEW elapsed \in {0, 1},
             NEW isClosed \in BOOLEAN, Tick(s, price, elapsed, isClosed)
      PROVE  SignalsInv'
  BY <1>1, TickKeepsSignals
<1>2. CASE ResetStrategy
  BY <1>2, ResetKeepsSignals
<1>3. CASE UNCHANGED vars
  <2>1. strategy' = strategy /\ prices' = prices /\ time' = time
    BY <1>3 DEF vars
  <2>2. time' \in Nat
    BY <2>1 DEF SignalsInv
  <2> QED
    BY <2>1, <2>2, SignalsStay
<1> QED
  BY <1>1, <1>2, <1>3 DEF Next

\* The inductive invariant is more than the property.
LEMMA SignalsInvImplies == SignalsInv => SignalsComeFromWindow
<1> SUFFICES ASSUME SignalsInv PROVE SignalsComeFromWindow
  OBVIOUS
<1>1. MomentumIsRise /\ BreakoutIsHigh
  BY DEF SignalsInv, StrategiesInv, MomentumInv, BreakoutInv
<1>2. SignalsAreWarm
  BY DEF SignalsInv, StrategiesInv, TrendInv, MeanReversionInv, MultiTimeframeInv, SignalsAreWarm, Falls
<1>3. FramesAreRuns
  BY DEF SignalsInv, StrategiesInv, MultiTimeframeInv, FramesHold, FramesAreRuns
<1>4. EnsembleHasMember
  BY EnsembleJudges DEF EnsembleHasMember, Buys
<1> QED
  BY <1>1, <1>2, <1>3, <1>4 DEF SignalsComeFromWindow

(* For all periods, thresholds and prices: a strategy signals exactly when, or  *)
(* only when, the prices since the last reset say so.                           *)
THEOREM SignalsAlwaysComeFromWindow == Spec => []SignalsComeFromWindow
<1>1. Init => SignalsInv
  BY InitSignalsInv
<1>2. SignalsInv /\ [Next]_vars => SignalsInv'
  BY NextSignalsInv
<1>3. SignalsInv => SignalsComeFromWindow
  BY SignalsInvImplies
<1> QED
  BY <1>1, <1>2, <1>3, PTL DEF Spec
=============================================================================
