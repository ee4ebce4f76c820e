---------------------------- MODULE MarketSignals ---------------------------
(***************************************************************************)
(* What Sentum makes of market prices: market/MarketDataStore.hpp keeps    *)
(* the candles of each symbol in a ring, scanner/SymbolScanner.cpp ranks   *)
(* the symbols whenever a candle closes, and the strategies judge the      *)
(* prices of the traded symbol.  A tick is one second candle of the        *)
(* collector's stream, delivered by its thread to the store, the event bus *)
(* and so the scanner; a tick of the traded symbol is also a price of the  *)
(* trade engine's stream.                                                  *)
(***************************************************************************)
EXTENDS Strategies, SequencesExt

CONSTANTS Symbols, Traded,
          Absent,        \* no entry in a map, no symbol
          Prices,        \* closing prices
          Capacity,      \* capacity_per_symbol_
          Short, Long,   \* lookbacks of returns_30_ and returns_60_
          MinReturn,     \* min_return_threshold, in units of 1 / RoundFactor
          RoundFactor,   \* ROUND_FACTOR
          MaxTicks       \* bound: ticks

ASSUME SignalsAssumption ==
  /\ Traded \in Symbols /\ Prices \subseteq Nat \ {0}
  /\ Capacity \in Nat \ {0} /\ RoundFactor \in Nat \ {0} /\ Absent \notin Int
  /\ Short \in Nat /\ Long \in Nat /\ 1 < Short /\ Short <= Long

VARIABLES
  ring,      \* the RingBuffer of each symbol
  short, long, \* returns_30_ and returns_60_, Absent where there is no entry
  top,       \* last_top_symbol_, the symbol top_changed_handler_ was called with last
  strategy,  \* the traded symbol's strategies
  time,      \* second of the latest tick
  ticks,     \* ticks so far
  candles,   \* history: every candle of each symbol
  closed,    \* history: the candles at the symbol's latest closed one
  prices     \* history: prices and their seconds since the strategies were reset

vars == <<ring, short, long, top, strategy, time, ticks, candles, closed, prices>>

NoCandle == [timestamp |-> -1, close |-> 0]
EmptyRing == [data |-> [i \in 0 .. Capacity - 1 |-> NoCandle], head |-> 0, size |-> 0]

Init ==
  /\ ring = [s \in Symbols |-> EmptyRing]
  /\ short = [s \in Symbols |-> Absent] /\ long = [s \in Symbols |-> Absent]
  /\ top = Absent
  /\ strategy = NewStrategies
  /\ time = 0 /\ ticks = 0
  /\ candles = [s \in Symbols |-> <<>>] /\ closed = [s \in Symbols |-> <<>>]
  /\ prices = <<>>

-----------------------------------------------------------------------------
(* MarketDataStore *)

\* Mutant: an update of the latest candle is stored as another one.
Upsert_Appends(b, candle) ==
  [data |-> [b.data EXCEPT ![b.head] = candle],
   head |-> (b.head + 1) % Capacity,
   size |-> IF b.size < Capacity THEN b.size + 1 ELSE b.size]

\* upsert_buffer: a candle with the timestamp of the latest replaces it.
Upsert(b, candle) ==
  LET last == (b.head + Capacity - 1) % Capacity
  IN  IF b.size > 0 /\ b.data[last].timestamp = candle.timestamp
      THEN [b EXCEPT !.data[last] = candle]
      ELSE [data |-> [b.data EXCEPT ![b.head] = candle],
            head |-> (b.head + 1) % Capacity,
            size |-> IF b.size < Capacity THEN b.size + 1 ELSE b.size]

\* latest_buffer
Latest(b, limit) ==
  LET count == Min({limit, b.size})
      start == (b.head + Capacity - count) % Capacity
  IN  [i \in 1 .. count |-> b.data[(start + i - 1) % Capacity]]

\* cumulative_return_buffer, as the scanner rounds it: half away from zero.
Round(n, d) ==
  LET Up(m) == (2 * m * RoundFactor + d) \div (2 * d) IN IF n < 0 THEN 0 - Up(0 - n) ELSE Up(n)

CumulativeReturn(b, lookback) ==
  LET count == Min({lookback, b.size})
      first == b.data[(b.head + Capacity - count) % Capacity].close
      last == b.data[(b.head + Capacity - 1) % Capacity].close
  IN  IF count < 2 \/ first <= 0 THEN Absent ELSE Round(last - first, first)

-----------------------------------------------------------------------------
(* SymbolScanner *)

\* update_cache: without a return the old entry stays.
UpdateCache(cache, s, value) == IF value = Absent THEN cache ELSE [cache EXCEPT ![s] = value]

\* fetch_top_performers, as the set of its possible first entries.
Above(cache) == {s \in Symbols : cache[s] # Absent /\ cache[s] > MinReturn}
Best(cache) == {s \in Above(cache) : \A t \in Above(cache) : cache[t] <= cache[s]}

\* on_market_event: the handler is called when the top symbol is another one;
\* ties go to the order of a hash map.
Rank(cache) ==
  \/ Best(cache) = {} /\ UNCHANGED top
  \/ top' \in Best(cache)

OnMarketEvent(s) ==
  LET newShort == UpdateCache(short, s, CumulativeReturn(ring'[s], Short))
  IN  /\ short' = newShort
      /\ long' = UpdateCache(long, s, CumulativeReturn(ring'[s], Long))
      /\ Rank(newShort)

-----------------------------------------------------------------------------
\* The collector's handler: store, and for a closed candle the event bus.
Tick(s, price, elapsed, isClosed) ==
  /\ ticks < MaxTicks /\ ticks' = ticks + 1
  /\ time' = time + elapsed
  /\ LET candle == [timestamp |-> time', close |-> price]
         replaces == candles[s] # <<>> /\ Last(candles[s]).timestamp = time'
     IN  /\ ring' = [ring EXCEPT ![s] = Upsert(@, candle)]
         /\ candles' = [candles EXCEPT ![s] = Append(IF replaces THEN Front(@) ELSE @, candle)]
  /\ IF isClosed
     THEN OnMarketEvent(s) /\ closed' = [closed EXCEPT ![s] = candles'[s]]
     ELSE UNCHANGED <<short, long, top, closed>>
  /\ IF s = Traded
     THEN /\ strategy' = OnPrice(strategy, price, time')
          /\ prices' = Append(prices, [price |-> price, time |-> time'])
     ELSE UNCHANGED <<strategy, prices>>

\* The trade engine resets its strategy after an exit.
ResetStrategy ==
  /\ prices # <<>>
  /\ strategy' = Reset(strategy) /\ prices' = <<>>
  /\ UNCHANGED <<ring, short, long, top, time, ticks, candles, closed>>

Next ==
  \/ \E s \in Symbols, price \in Prices, elapsed \in {0, 1}, isClosed \in BOOLEAN :
       Tick(s, price, elapsed, isClosed)
  \/ ResetStrategy

Spec == Init /\ [][Next]_vars

-----------------------------------------------------------------------------
Newest(q, n) == SubSeq(q, Max({1, Len(q) - n + 1}), Len(q))

\* The return over the newest candles, straight from the history.
ReturnOf(q, lookback) ==
  LET w == Newest(q, Min({lookback, Capacity}))
  IN  IF Len(w) < 2 THEN Absent ELSE Round(Last(w).close - w[1].close, w[1].close)

(* The ring of a symbol holds its newest candles in order, whatever number of   *)
(* updates each had and however often the ring wrapped; the scanner's returns   *)
(* are those at the symbol's latest closed candle; and the symbol the           *)
(* coordinator was told of last is a best one, as long as there is one above    *)
(* the threshold.                                                               *)
ScannerFollowsMarket ==
  /\ \A s \in Symbols, n \in 1 .. Capacity : Latest(ring[s], n) = Newest(candles[s], n)
  /\ \A s \in Symbols : short[s] = ReturnOf(closed[s], Short) /\ long[s] = ReturnOf(closed[s], Long)
  /\ Best(short) # {} => top \in Best(short)

\* last is first raised by a fraction, or above that.
Rises(first, last, by) == AtMost(Times(Int2Frac(first), Plus(Int2Frac(1), by)), Int2Frac(last))

\* The frames of a history q of prices: maximal runs of one bucket.
RunEnds(q, seconds) ==
  {i \in 1 .. Len(q) - 1 : q[i].time \div seconds # q[i + 1].time \div seconds}
LastFrame(q, seconds) ==
  IF RunEnds(q, seconds) = {} THEN NoFrame
  ELSE LET end == Max(RunEnds(q, seconds))
           from == Max({0} \cup (RunEnds(q, seconds) \ {end})) + 1
           run == {q[i].price : i \in from .. end}
       IN  [bucket |-> q[end].time \div seconds, open |-> q[from].price, close |-> q[end].price,
            high |-> Max(run), low |-> Min(run)]

Buys(m) == strategy[m].signal.buy

\* Momentum compares the ends of the window.
MomentumIsRise ==
  LET n == Len(prices)
  IN  Buys("momentum") <=>
        n >= Lookback /\ Rises(prices[n - Lookback + 1].price, prices[n].price, Threshold)

\* Breakout compares the newest price with each one of the window before it.
BreakoutIsHigh ==
  LET n == Len(prices)
  IN  Buys("breakout") <=>
        /\ n > Lookback
        /\ \A i \in n - Lookback .. n - 1 :
             ~AtMost(Int2Frac(prices[n].price),
                     Times(Int2Frac(prices[i].price), Plus(Int2Frac(1), Buffer)))

\* No strategy signals before its warm-up, and mean reversion not without a fall.
SignalsAreWarm ==
  LET n == Len(prices)
  IN  /\ Buys("trend") => n >= SlowPeriod
      /\ Buys("meanReversion") =>
           n > RsiPeriod /\ \E i \in 1 .. n - 1 : prices[i + 1].price < prices[i].price
      /\ Buys("multiTimeframe") => Cardinality(RunEnds(prices, SlowFrame)) >= EmaPeriod

\* A closed frame summarises exactly the latest finished run of prices.
FramesAreRuns ==
  /\ strategy["multiTimeframe"].fast.closed = LastFrame(prices, FastFrame)
  /\ strategy["multiTimeframe"].slow.closed = LastFrame(prices, SlowFrame)

\* With a threshold of 0, which the constructor accepts, the ensemble always signals.
EnsembleHasMember ==
  EnsembleSignal(strategy).buy /\ EnsembleThreshold[1] > 0 => \E m \in Members : Buys(m)

(* A signal depends on the prices since the last reset only and on no more of   *)
(* them than the strategy's window: momentum compares the ends of the window,   *)
(* breakout the newest price with the window before it, no strategy signals     *)
(* before its warm-up, frames summarise exactly one run of prices, and an       *)
(* ensemble signals only together with a member.                                *)
SignalsComeFromWindow ==
  MomentumIsRise /\ BreakoutIsHigh /\ SignalsAreWarm /\ FramesAreRuns /\ EnsembleHasMember
=============================================================================
