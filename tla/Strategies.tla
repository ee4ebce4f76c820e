----------------------------- MODULE Strategies -----------------------------
(***************************************************************************)
(* market/IncrementalIndicators.hpp, trader/strategy/MomentumStrategy.hpp  *)
(* and trader/strategy/StrategyFramework.hpp: what each strategy keeps     *)
(* between prices and the signal it gives for one.  A strategy is a record *)
(* with its state and its latest signal.  Prices are positive integers,    *)
(* seconds are integers and every other number is a fraction <<n, d>> with *)
(* d > 0.  Volumes, names and explanations decide nothing and are left out.*)
(***************************************************************************)
EXTENDS Integers, Sequences, FiniteSetsExt

CONSTANTS Lookback,               \* momentum and breakout
          Threshold,              \* momentum, trend and multi-timeframe
          FastPeriod, SlowPeriod, \* trend
          RsiPeriod, Oversold,    \* mean reversion
          Buffer,                 \* breakout
          FastFrame, SlowFrame,   \* multi-timeframe, seconds
          EmaPeriod,              \* multi-timeframe
          EnsembleThreshold       \* ensemble of the five, all of weight 1

\* The constructors throw otherwise or raise a period to the least one allowed;
\* thresholds and buffers of 0 or below are left out.
ASSUME StrategyAssumption ==
  /\ {Lookback, FastPeriod, SlowPeriod, RsiPeriod, FastFrame, SlowFrame, EmaPeriod, Oversold}
       \subseteq Nat \ {0}
  /\ Lookback > 1 /\ FastPeriod < SlowPeriod /\ FastFrame < SlowFrame /\ Oversold < 50
  /\ {Threshold, Buffer} \subseteq (Nat \ {0}) \X (Nat \ {0})
  /\ EnsembleThreshold \in Int \X (Nat \ {0})

(* Fractions, in lowest terms *)
gcd[p \in Nat \X Nat] == IF p[2] = 0 THEN p[1] ELSE gcd[<<p[2], p[1] % p[2]>>]
Frac(n, d) == LET g == gcd[<<IF n < 0 THEN -n ELSE n, d>>] IN <<n \div g, d \div g>>
Int2Frac(n) == <<n, 1>>
Plus(a, b) == Frac(a[1] * b[2] + b[1] * a[2], a[2] * b[2])
Minus(a, b) == Frac(a[1] * b[2] - b[1] * a[2], a[2] * b[2])
Times(a, b) == Frac(a[1] * b[1], a[2] * b[2])
Over(a, b) == Frac(a[1] * b[2], a[2] * b[1])    \* b > 0
AtMost(a, b) == a[1] * b[2] <= b[1] * a[2]
Zero == Int2Frac(0)

(* Signals *)
None == [buy |-> FALSE, confidence |-> Zero]
Buy(confidence) == [buy |-> TRUE, confidence |-> confidence]

\* std::clamp(value / limit, 0, 2) / 2
Confidence(value, limit) ==
  LET ratio == Over(value, limit)
  IN  IF AtMost(ratio, Zero) THEN Zero
      ELSE IF AtMost(Int2Frac(2), ratio) THEN Int2Frac(1) ELSE Times(ratio, <<1, 2>>)

-----------------------------------------------------------------------------
(* RollingReturn: a ring; reset() keeps the old values. *)

NewReturn == [values |-> [i \in 0 .. Lookback - 1 |-> 0], head |-> 0, size |-> 0]

PushReturn(r, price) ==
  [values |-> [r.values EXCEPT ![r.head] = price],
   head |-> (r.head + 1) % Lookback,
   size |-> IF r.size < Lookback THEN r.size + 1 ELSE r.size]

ReturnReady(r) == r.size = Lookback

ReturnValue(r) ==
  LET first == r.values[r.head]
      last == r.values[(r.head + Lookback - 1) % Lookback]
  IN  IF first > 0 THEN Frac(last - first, first) ELSE Zero

\* Mutant: reset() empties nothing.
ResetReturn_Head(r) == [r EXCEPT !.head = 0]

ResetReturn(r) == [r EXCEPT !.head = 0, !.size = 0]

(* Ema *)
NewEma == [on |-> FALSE, value |-> Zero]

PushEma(e, period, price) ==
  [on |-> TRUE,
   value |-> IF ~e.on THEN Int2Frac(price)
             ELSE Plus(e.value, Times(Frac(2, period + 1), Minus(Int2Frac(price), e.value)))]

(* Rsi: plain averages of the first changes, smoothed ones afterwards. *)
NewRsi == [on |-> FALSE, previous |-> 0, samples |-> 0, gain |-> Zero, loss |-> Zero]

PushRsi(r, price) ==
  IF ~r.on THEN [r EXCEPT !.on = TRUE, !.previous = price]
  ELSE LET up == Int2Frac(IF price > r.previous THEN price - r.previous ELSE 0)
           down == Int2Frac(IF price < r.previous THEN r.previous - price ELSE 0)
           Next(average, change) ==
             IF r.samples = RsiPeriod
             THEN Times(Plus(Times(average, Int2Frac(RsiPeriod - 1)), change), <<1, RsiPeriod>>)
             ELSE Times(Plus(average, change), <<1, IF r.samples + 1 = RsiPeriod THEN RsiPeriod ELSE 1>>)
       IN  [on |-> TRUE, previous |-> price,
            samples |-> IF r.samples < RsiPeriod THEN r.samples + 1 ELSE r.samples,
            gain |-> Next(r.gain, up), loss |-> Next(r.loss, down)]

RsiValue(r) ==
  CASE r.samples < RsiPeriod -> Int2Frac(50)
    [] r.samples = RsiPeriod /\ r.loss[1] <= 0 -> Int2Frac(100)
    [] OTHER -> Over(Times(Int2Frac(100), r.gain), Plus(r.gain, r.loss))

(* TimeframeAggregator: the frame under way and the one closed last. *)
NoFrame == [bucket |-> -1, open |-> 0, high |-> 0, low |-> 0, close |-> 0]
NewFrames == [current |-> NoFrame, closed |-> NoFrame]

\* A price of another bucket closes the frame under way.
Closes(a, bucket) == a.current.bucket >= 0 /\ bucket # a.current.bucket

PushFrame(a, seconds, price, time) ==
  LET bucket == time \div seconds
      c == a.current
  IN  IF Closes(a, bucket) \/ c.bucket < 0
      THEN [current |-> [bucket |-> bucket, open |-> price, high |-> price, low |-> price, close |-> price],
            closed |-> IF Closes(a, bucket) THEN c ELSE a.closed]
      ELSE [a EXCEPT !.current.high = IF price > c.high THEN price ELSE c.high,
                     !.current.low = IF price < c.low THEN price ELSE c.low,
                     !.current.close = price]

-----------------------------------------------------------------------------
(* The strategies: their initial state and on_price *)

NewMomentum == [window |-> NewReturn, signal |-> None]
Momentum(m, price) ==
  LET w == PushReturn(m.window, price)
  IN  [window |-> w,
       signal |-> IF ReturnReady(w) /\ AtMost(Threshold, ReturnValue(w))
                  THEN Buy(Confidence(ReturnValue(w), Threshold)) ELSE None]

\* A fast average above a slow one, both positive.
Spread(fast, slow) == Over(Minus(fast, slow), slow)
Crossed(fast, slow) ==
  IF AtMost(slow, Zero) \/ ~AtMost(Threshold, Spread(fast, slow)) THEN None
  ELSE Buy(Confidence(Spread(fast, slow), Threshold))

NewTrend == [fast |-> NewEma, slow |-> NewEma, samples |-> 0, signal |-> None]
Trend(s, price) ==
  LET fast == PushEma(s.fast, FastPeriod, price)
      slow == PushEma(s.slow, SlowPeriod, price)
  IN  [fast |-> fast, slow |-> slow, samples |-> s.samples + 1,
       signal |-> IF s.samples + 1 < SlowPeriod THEN None ELSE Crossed(fast.value, slow.value)]

NewMeanReversion == [rsi |-> NewRsi, signal |-> None]
MeanReversion(s, price) ==
  LET r == PushRsi(s.rsi, price)
      below == Minus(Int2Frac(Oversold), RsiValue(r))
  IN  [rsi |-> r,
       signal |-> IF r.samples < RsiPeriod \/ below[1] < 0 THEN None
                  ELSE Buy(Over(below, Int2Frac(Oversold)))]

NewBreakout == [window |-> <<>>, signal |-> None]
Breakout(s, price) ==
  IF Len(s.window) < Lookback THEN [window |-> Append(s.window, price), signal |-> None]
  ELSE LET high == Max({s.window[i] : i \in 1 .. Lookback})
           level == Times(Int2Frac(high), Plus(Int2Frac(1), Buffer))
       IN  [window |-> Append(Tail(s.window), price),
            signal |-> IF AtMost(Int2Frac(price), level) THEN None
                       ELSE Buy(Confidence(Frac(price - high, high), Buffer))]

NewMultiTimeframe ==
  [fast |-> NewFrames, slow |-> NewFrames, fastEma |-> NewEma, slowEma |-> NewEma,
   fastSamples |-> 0, slowSamples |-> 0, signal |-> None]
MultiTimeframe(s, price, time) ==
  LET fast == PushFrame(s.fast, FastFrame, price, time)
      slow == PushFrame(s.slow, SlowFrame, price, time)
      fastNew == Closes(s.fast, time \div FastFrame)
      slowNew == Closes(s.slow, time \div SlowFrame)
      fastEma == IF fastNew THEN PushEma(s.fastEma, EmaPeriod, fast.closed.close) ELSE s.fastEma
      slowEma == IF slowNew THEN PushEma(s.slowEma, EmaPeriod, slow.closed.close) ELSE s.slowEma
      fastSamples == IF fastNew THEN s.fastSamples + 1 ELSE s.fastSamples
      slowSamples == IF slowNew THEN s.slowSamples + 1 ELSE s.slowSamples
  IN  [fast |-> fast, slow |-> slow, fastEma |-> fastEma, slowEma |-> slowEma,
       fastSamples |-> fastSamples, slowSamples |-> slowSamples,
       signal |-> IF fastSamples < EmaPeriod \/ slowSamples < EmaPeriod THEN None
                  ELSE Crossed(fastEma.value, slowEma.value)]

\* The members' weighted confidences; one of 0 counts as 1.
Members == {"momentum", "trend", "meanReversion", "breakout", "multiTimeframe"}
EnsembleSignal(s) ==
  LET Share(m) == CASE ~s[m].signal.buy -> Zero
                    [] s[m].signal.buy /\ s[m].signal.confidence[1] > 0 -> s[m].signal.confidence
                    [] OTHER -> Int2Frac(1)
      weighted == Plus(Plus(Plus(Plus(Share("momentum"), Share("trend")), Share("meanReversion")),
                            Share("breakout")), Share("multiTimeframe"))
      score == Times(weighted, <<1, 5>>)
  IN  IF AtMost(EnsembleThreshold, score) THEN Buy(score) ELSE None

NewStrategies ==
  [momentum |-> NewMomentum, trend |-> NewTrend, meanReversion |-> NewMeanReversion,
   breakout |-> NewBreakout, multiTimeframe |-> NewMultiTimeframe]

OnPrice(s, price, time) ==
  [momentum |-> Momentum(s.momentum, price), trend |-> Trend(s.trend, price),
   meanReversion |-> MeanReversion(s.meanReversion, price), breakout |-> Breakout(s.breakout, price),
   multiTimeframe |-> MultiTimeframe(s.multiTimeframe, price, time)]

\* Every member is as good as new, but for momentum's ring.
Reset(s) ==
  [NewStrategies EXCEPT !.momentum = [window |-> ResetReturn(s.momentum.window), signal |-> None]]
=============================================================================
