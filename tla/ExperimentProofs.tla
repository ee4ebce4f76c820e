-------------------------- MODULE ExperimentProofs --------------------------
(***************************************************************************)
(* Proofs about an experiment and the parameter research it runs, for any  *)
(* number of events, shares, folds, purge, embargo, trials and workers.    *)
(*                                                                         *)
(* Parameters are selected without the data they are judged by: the        *)
(* arithmetic is in SplitIsSound (the folds fit between the initial        *)
(* training data and the holdout), FoldIsBlind (what one fold trains on,   *)
(* warms up with and trades) and FoldIsDelayed (the same for an embargo    *)
(* that does not wrap around); BlindInv says that the slices on record are *)
(* those of the split.  The ranking does not depend on the workers:        *)
(* WorkersInv accounts for every slot, and the places of a strict total    *)
(* order are a bijection.  An experiment runs its research by the steps of *)
(* that specification, and registers as completed only what is complete.   *)
(***************************************************************************)
EXTENDS Experiment, FiniteSetTheorems, TLAPS

\* What the folds need of the split.
Sound(c) ==
  /\ c.events \in Nat /\ c.holdoutFrom \in Nat /\ c.initial \in Nat
  /\ c.folds \in Nat /\ c.width \in Nat /\ c.purge \in Nat /\ c.embargo \in Nat
  /\ c.initial + c.folds * c.width <= c.holdoutFrom /\ c.holdoutFrom < c.events
  /\ c.events < Modulus

\* The sum of a boundary and the embargo does not wrap around.
Unwrapped(c) == c.events + c.embargo < Modulus

\* The slices of a trial once it was evaluated.
FoldsOf(c, t) == [f \in 0 .. c.folds - 1 |-> Fold(c, f, Lookback[t])]

BlindInv ==
  /\ phase # "load" => Sound(config)
  /\ DOMAIN slices = Trials
  /\ \A t \in Trials : slices[t] = << >> \/ (phase # "load" /\ slices[t] = FoldsOf(config, t))
  /\ holdout # NoSlice => phase # "load" /\ holdout.from = config.holdoutFrom

-----------------------------------------------------------------------------
(* Arithmetic *)

\* Multiplication by a natural number keeps an order.
LEMMA TimesMonotone ==
  ASSUME NEW a \in Nat, NEW b \in Nat, NEW w \in Nat, a <= b
  PROVE  a * w <= b * w
  BY SMT

\* A quotient times the divisor is at most the dividend.
LEMMA QuotientFits ==
  ASSUME NEW r \in Nat, NEW k \in Nat \ {0}
  PROVE  r \div k \in Nat /\ k * (r \div k) <= r
  BY SMT

\* A quotient is at most a bound that the next multiple of the divisor exceeds.
LEMMA QuotientBelow ==
  ASSUME NEW x \in Int, NEW d \in Nat \ {0}, NEW k \in Int, x < (k + 1) * d
  PROVE  x \div d \in Int /\ x \div d <= k
<1>1. PICK y : y = x \div d
  OBVIOUS
<1>2. y \in Int /\ y * d <= x
  BY <1>1, SMT
<1> SUFFICES ASSUME ~(y <= k) PROVE FALSE
  BY <1>1, <1>2
<1>3. k + 1 <= y
  BY <1>2
<1>4. (k + 1) * d <= y * d
  BY <1>2, <1>3, SMT
<1>5. (k + 1) * d \in Int /\ y * d \in Int
  BY <1>2
<1> QED
  BY <1>2, <1>4, <1>5

\* The holdout's share leaves at least two events for research, however it is
\* rounded.
LEMMA ShareLeavesEvents ==
  ASSUME NEW n \in Nat, n >= 50, NEW q \in Nat, 10 * q < 4 * Scale, NEW h \in Share(n, q)
  PROVE  h \in Int /\ h <= n - 2
<1>1. Scale \in Nat \ {0}
  BY ResearchAssumption
<1>2. PICK d \in {-1, 0, 1} : h = (n * q + d) \div Scale
  BY DEF Share
<1>3. n * q \in Nat /\ n * Scale \in Nat /\ n * (10 * q) = 10 * (n * q) /\ n * (4 * Scale) = 4 * (n * Scale)
  BY <1>1, SMT
<1>4. n * (10 * q) <= n * (4 * Scale)
  <2>1. (10 * q) * n <= (4 * Scale) * n
    BY <1>1, TimesMonotone
  <2> QED
    BY <1>1, <2>1
<1>5. 50 * Scale <= n * Scale /\ ((n - 2) + 1) * Scale = n * Scale - Scale
  BY <1>1, TimesMonotone
<1>6. n * q + d < ((n - 2) + 1) * Scale
  BY <1>1, <1>3, <1>4, <1>5
<1>7. n * q + d \in Int /\ n - 2 \in Int
  BY <1>3
<1> QED
  BY <1>1, <1>2, <1>6, <1>7, QuotientBelow

\* The folds of a split lie one after the other between the initial training
\* data and the holdout.
LEMMA SplitIsSound ==
  ASSUME NEW n \in Nat, n >= 50, n < Modulus, NEW h \in Int, h <= n - 2, NEW a \in Int,
         NEW folds \in Nat \ {0}, NEW purge \in Nat, NEW embargo \in Nat
  PROVE  Sound(Split(n, h, a, folds, purge, embargo))
<1> DEFINE end == n - Most(1, h)
           initial == Least(Most(a, 2), end - 1)
           rest == end - initial
           count == Least(folds, rest)
           width == Most(1, rest \div count)
<1>1. end \in Nat /\ end < n /\ initial \in Nat /\ rest \in Nat /\ initial + rest = end
      /\ count \in Nat \ {0} /\ count <= rest
  BY DEF Most, Least
<1> HIDE DEF end, initial, rest, count
<1>2. rest \div count \in Nat /\ count * (rest \div count) <= rest
  BY <1>1, QuotientFits
<1>3. width \in Nat /\ count * width <= rest
  <2>1. CASE rest \div count < 1
    BY <2>1, <1>1, <1>2 DEF Most
  <2>2. CASE ~(rest \div count < 1)
    BY <2>2, <1>1, <1>2 DEF Most
  <2> QED BY <2>1, <2>2
<1> HIDE DEF width
<1>4. count * width \in Nat
  BY <1>1, <1>3
<1>5. Split(n, h, a, folds, purge, embargo) =
        [events |-> n, holdoutFrom |-> end, initial |-> initial, folds |-> count,
         width |-> width, purge |-> purge, embargo |-> embargo]
  BY DEF Split, end, initial, rest, count, width
<1> QED
  BY <1>1, <1>3, <1>4, <1>5 DEF Sound

\* One fold: its parts are those of the code, in terms of where it begins and
\* ends; it trains before its boundary and reads nothing of the holdout.
LEMMA FoldIsBlind ==
  ASSUME NEW c, Sound(c), NEW f \in 0 .. c.folds - 1, NEW lookback \in Nat
  PROVE  LET s == Fold(c, f, lookback)
             boundary == c.initial + f * c.width
         IN  /\ s.train \in Nat /\ s.warm \in Nat /\ s.from \in Nat /\ s.to \in Nat
             /\ boundary \in Nat /\ boundary < c.events
             /\ s.train <= boundary /\ (s.train = 0 \/ s.train + c.purge <= boundary)
             /\ s.from < s.to => s.from = (boundary + c.embargo) % Modulus
             /\ \A i \in Trained(s) \cup s.warm .. s.to - 1 : i < c.holdoutFrom
             /\ f + 1 < c.folds => \A j \in Traded(s) : j < boundary + c.width
<1> DEFINE boundary == c.initial + f * c.width
           end == IF f + 1 = c.folds THEN c.holdoutFrom ELSE Least(c.holdoutFrom, boundary + c.width)
           train == Most(0, boundary - c.purge)
           start == (boundary + c.embargo) % Modulus
           from == Least(end, start)
           s == Fold(c, f, lookback)
<1>1. f \in Nat /\ f + 1 \in Nat /\ f + 1 <= c.folds /\ c.folds \in Nat /\ c.width \in Nat
  BY DEF Sound
<1>2. (f + 1) * c.width <= c.folds * c.width /\ (f + 1) * c.width = f * c.width + c.width
      /\ f * c.width \in Nat
  BY <1>1, TimesMonotone
<1>3. boundary \in Nat /\ boundary + c.width <= c.holdoutFrom /\ c.holdoutFrom \in Nat
      /\ c.purge \in Nat /\ c.embargo \in Nat /\ c.width \in Nat
      /\ c.holdoutFrom < c.events /\ c.events \in Nat /\ boundary < c.events
  BY <1>1, <1>2 DEF Sound
<1> HIDE DEF boundary
<1>4. /\ end \in Nat /\ boundary <= end /\ end <= c.holdoutFrom
      /\ f + 1 < c.folds => end <= boundary + c.width
  BY <1>1, <1>3 DEF Least
<1> HIDE DEF end
<1>5. start \in Nat
  BY <1>3, ResearchAssumption DEF Sound
<1> HIDE DEF start
<1>6. /\ train \in Nat /\ train <= boundary
      /\ train = 0 \/ train + c.purge <= boundary
      /\ from \in Nat /\ from <= end
      /\ from < end => from = start
  BY <1>3, <1>4, <1>5 DEF Least, Most
<1> HIDE DEF train, from
<1>7. s = Warmed(train, from, end, lookback)
  BY DEF Fold, boundary, end, train, from, start
<1>8. CASE from < end
  <2>1. s = [train |-> train, warm |-> from - Least(from, lookback + 1), from |-> from, to |-> end]
    BY <1>7, <1>8 DEF Warmed
  <2>2. from - Least(from, lookback + 1) \in Nat
    BY <1>6 DEF Least
  <2>3. s.train = train /\ s.from = start /\ s.to = end /\ s.warm \in Nat /\ s.from \in Nat
    BY <2>1, <2>2, <1>6, <1>8
  <2>4. \A i \in Trained(s) \cup s.warm .. s.to - 1 : i < c.holdoutFrom
    BY <2>3, <1>3, <1>4, <1>6 DEF Trained
  <2>5. f + 1 < c.folds => \A j \in Traded(s) : j < boundary + c.width
    BY <2>3, <1>3, <1>4, <1>6 DEF Traded
  <2> HIDE DEF s
  <2> QED
    BY <2>3, <2>4, <2>5, <1>3, <1>4, <1>6 DEF boundary, start, s
<1>9. CASE ~(from < end)
  <2>1. s = [train |-> train, warm |-> 0, from |-> 0, to |-> 0]
    BY <1>7, <1>9 DEF Warmed, NoSlice
  <2>2. s.train = train /\ s.warm = 0 /\ s.from = 0 /\ s.to = 0
    BY <2>1
  <2>3. \A i \in Trained(s) \cup s.warm .. s.to - 1 : i < c.holdoutFrom
    BY <2>2, <1>3, <1>4, <1>6 DEF Trained
  <2>4. Traded(s) = {}
    BY <2>2 DEF Traded
  <2> HIDE DEF s
  <2> QED
    BY <2>2, <2>3, <2>4, <1>3, <1>6 DEF boundary, s
<1> QED
  BY <1>8, <1>9

\* Without a wrap, validation begins embargo events after the boundary.
LEMMA FoldIsDelayed ==
  ASSUME NEW c, Sound(c), Unwrapped(c), NEW f \in 0 .. c.folds - 1, NEW lookback \in Nat
  PROVE  LET s == Fold(c, f, lookback)
         IN  /\ \A i \in Trained(s), j \in Traded(s) : j - i > c.purge + c.embargo
             /\ \A j \in Traded(s) : c.initial + f * c.width <= j
<1> DEFINE s == Fold(c, f, lookback)
           boundary == c.initial + f * c.width
<1>1. /\ s.train \in Nat /\ s.from \in Nat /\ s.to \in Nat
      /\ boundary \in Nat /\ boundary < c.events
      /\ s.train <= boundary /\ (s.train = 0 \/ s.train + c.purge <= boundary)
      /\ s.from < s.to => s.from = (boundary + c.embargo) % Modulus
  BY FoldIsBlind
<1>2. c.purge \in Nat /\ c.embargo \in Nat /\ c.events \in Nat /\ Modulus \in Nat
  BY ResearchAssumption DEF Sound
<1> HIDE DEF s, boundary
<1>3. (boundary + c.embargo) % Modulus = boundary + c.embargo
  BY <1>1, <1>2, SMT DEF Unwrapped
<1>4. ASSUME NEW j \in Traded(s)
      PROVE  j \in Int /\ boundary + c.embargo <= j
  BY <1>1, <1>2, <1>3 DEF Traded
<1>5. ASSUME NEW i \in Trained(s), NEW j \in Traded(s)
      PROVE  j - i > c.purge + c.embargo
  BY <1>1, <1>2, <1>4 DEF Trained
<1>6. \A j \in Traded(s) : boundary <= j
  BY <1>1, <1>2, <1>4
<1> QED
  BY <1>5, <1>6 DEF s, boundary

\* Later folds begin where earlier ones end.
LEMMA FoldsAreApart ==
  ASSUME NEW c, Sound(c), Unwrapped(c),
         NEW f \in 0 .. c.folds - 1, NEW g \in 0 .. c.folds - 1, f < g, NEW lookback \in Nat
  PROVE  Traded(Fold(c, f, lookback)) \cap Traded(Fold(c, g, lookback)) = {}
<1>1. f \in Nat /\ g \in Nat /\ f + 1 \in Nat /\ f + 1 <= g /\ f + 1 < c.folds
      /\ c.width \in Nat /\ c.initial \in Nat
  BY DEF Sound
<1>2. (f + 1) * c.width <= g * c.width /\ (f + 1) * c.width = f * c.width + c.width
      /\ f * c.width \in Nat /\ g * c.width \in Nat
  BY <1>1, TimesMonotone
<1>3. c.initial + f * c.width + c.width <= c.initial + g * c.width
  BY <1>1, <1>2
<1>4. \A j \in Traded(Fold(c, f, lookback)) : j < c.initial + f * c.width + c.width
  BY <1>1, FoldIsBlind
<1>5. \A j \in Traded(Fold(c, g, lookback)) : c.initial + g * c.width <= j
  BY FoldIsDelayed
<1>6. Traded(Fold(c, f, lookback)) \subseteq Int /\ Traded(Fold(c, g, lookback)) \subseteq Int
  BY DEF Traded
<1> QED
  BY <1>1, <1>2, <1>3, <1>4, <1>5, <1>6

-----------------------------------------------------------------------------
(* The invariant *)

\* Nothing is loaded, evaluated or judged at the start.
LEMMA InitBlindInv == ResearchInit => BlindInv
  BY DEF ResearchInit, BlindInv

\* Every step keeps the recorded slices those of the split.
LEMMA NextBlindInv == BlindInv /\ [ResearchNext]_researchVars => BlindInv'
<1> SUFFICES ASSUME BlindInv, [ResearchNext]_researchVars PROVE BlindInv'
  OBVIOUS
<1>1. CASE Load
  <2>1. PICK n \in Sizes, p \in TrainParts, q \in HoldoutParts :
          \E a \in Share(n, p), h \in Share(n, q) :
            \E folds \in FoldCounts, purge \in Purges, embargo \in Embargoes :
              config' = Split(n, h, a, folds, purge, embargo)
    BY <1>1 DEF Load
  <2>2. PICK a \in Share(n, p), h \in Share(n, q) :
          \E folds \in FoldCounts, purge \in Purges, embargo \in Embargoes :
            config' = Split(n, h, a, folds, purge, embargo)
    BY <2>1
  <2>3. PICK folds \in FoldCounts, purge \in Purges, embargo \in Embargoes :
          config' = Split(n, h, a, folds, purge, embargo)
    BY <2>2
  <2>4. n \in Nat /\ n >= 50 /\ n < Modulus /\ p \in Nat /\ q \in Nat /\ 10 * q < 4 * Scale
        /\ Scale \in Nat \ {0} /\ folds \in Nat \ {0} /\ purge \in Nat /\ embargo \in Nat
    BY ResearchAssumption
  <2>5. h \in Int /\ h <= n - 2
    BY <2>4, ShareLeavesEvents
  <2>6. a \in Int
    <3>1. n * p \in Nat
      BY <2>4
    <3> QED
      BY <2>4, <3>1 DEF Share
  <2>7. Sound(config')
    BY <2>3, <2>4, <2>5, <2>6, SplitIsSound
  <2> QED
    BY <1>1, <2>7 DEF Load, BlindInv
<1>2. ASSUME NEW w \in Workers, NEW eligible \in BOOLEAN, NEW score \in Scores,
             Evaluate(w, eligible, score)
      PROVE  BlindInv'
  <2> DEFINE t == worker[w]
  <2>1. /\ t \in Trials /\ phase = "pool"
        /\ slices' = [slices EXCEPT ![t] = FoldsOf(config, t)]
        /\ UNCHANGED <<phase, config, holdout>>
    BY <1>2 DEF Evaluate, FoldsOf
  <2>2. \A u \in Trials : slices'[u] = IF u = t THEN FoldsOf(config, t) ELSE slices[u]
    BY <2>1 DEF BlindInv
  <2>3. DOMAIN slices' = Trials
    BY <2>1 DEF BlindInv
  <2>4. \A u \in Trials : slices'[u] = << >> \/ (phase' # "load" /\ slices'[u] = FoldsOf(config', u))
    BY <2>1, <2>2 DEF BlindInv
  <2>5. Sound(config')
    BY <2>1 DEF BlindInv
  <2>6. holdout' # NoSlice => phase' # "load" /\ holdout'.from = config'.holdoutFrom
    BY <2>1 DEF BlindInv
  <2> QED
    BY <2>3, <2>4, <2>5, <2>6 DEF BlindInv
<1>3. CASE Select
  <2>1. /\ phase = "select" /\ phase' = "done" /\ UNCHANGED <<config, slices>>
    BY <1>3 DEF Select
  <2>2. holdout' = holdout \/ \E l : holdout' = Warmed(0, config.holdoutFrom, config.events, l)
    BY <1>3 DEF Select
  <2>3. holdout' # NoSlice => holdout'.from = config.holdoutFrom
    BY <2>1, <2>2 DEF BlindInv, Warmed, NoSlice
  <2> QED
    BY <2>1, <2>3 DEF BlindInv
<1>4. ASSUME NEW w \in Workers, Take(w)
      PROVE  BlindInv'
  BY <1>4 DEF Take, BlindInv
<1>5. CASE Rank
  BY <1>5 DEF Rank, BlindInv
<1>6. CASE UNCHANGED researchVars
  BY <1>6 DEF researchVars, BlindInv
<1> QED
  BY <1>1, <1>2, <1>3, <1>4, <1>5, <1>6 DEF ResearchNext

\* The invariant is what SelectionIsBlind needs.
LEMMA BlindInvSuffices == BlindInv => SelectionIsBlind
<1> SUFFICES ASSUME BlindInv, NEW t \in Trials
             PROVE  /\ \A s \in Folds(t) : \A i \in Trained(s) \cup s.warm .. s.to - 1 :
                         i < config.holdoutFrom /\ (holdout # NoSlice => i \notin Traded(holdout))
                    /\ config.events + config.embargo < Modulus =>
                         /\ \A s \in Folds(t) : \A i \in Trained(s), j \in Traded(s) :
                              j - i > config.purge + config.embargo
                         /\ \A f, g \in DOMAIN slices[t] :
                              f < g => Traded(slices[t][f]) \cap Traded(slices[t][g]) = {}
  BY DEF SelectionIsBlind
<1>1. CASE slices[t] = << >>
  BY <1>1 DEF Folds
<1>2. CASE phase # "load" /\ slices[t] = FoldsOf(config, t)
  <2>1. Sound(config) /\ Lookback[t] \in Nat
    BY <1>2, ResearchAssumption DEF BlindInv, Trials
  <2>2. DOMAIN slices[t] = 0 .. config.folds - 1
        /\ \A f \in 0 .. config.folds - 1 : slices[t][f] = Fold(config, f, Lookback[t])
    BY <1>2 DEF FoldsOf
  <2>3. ASSUME NEW f \in 0 .. config.folds - 1
        PROVE  LET s == Fold(config, f, Lookback[t])
               IN  \A i \in Trained(s) \cup s.warm .. s.to - 1 :
                     i < config.holdoutFrom /\ (holdout # NoSlice => i \notin Traded(holdout))
    <3> DEFINE s == Fold(config, f, Lookback[t])
    <3>2. /\ s.train \in Nat /\ s.warm \in Nat /\ s.to \in Nat
          /\ \A i \in Trained(s) \cup s.warm .. s.to - 1 : i < config.holdoutFrom
      BY <2>1, FoldIsBlind
    <3> HIDE DEF s
    <3>3. \A i \in Trained(s) \cup s.warm .. s.to - 1 : i \in Int
      BY <3>2 DEF Trained
    <3>4. holdout # NoSlice => \A i \in Traded(holdout) : i \in Int /\ config.holdoutFrom <= i
      BY <2>1 DEF BlindInv, Traded, Sound
    <3>5. config.holdoutFrom \in Int
      BY <2>1 DEF Sound
    <3> QED
      BY <3>2, <3>3, <3>4, <3>5 DEF s
  <2>4. ASSUME config.events + config.embargo < Modulus
        PROVE  /\ \A f \in 0 .. config.folds - 1 :
                    \A i \in Trained(slices[t][f]), j \in Traded(slices[t][f]) :
                      j - i > config.purge + config.embargo
               /\ \A f, g \in DOMAIN slices[t] :
                    f < g => Traded(slices[t][f]) \cap Traded(slices[t][g]) = {}
    <3>1. Unwrapped(config)
      BY <2>4 DEF Unwrapped
    <3>2. ASSUME NEW f \in 0 .. config.folds - 1
          PROVE  \A i \in Trained(slices[t][f]), j \in Traded(slices[t][f]) :
                   j - i > config.purge + config.embargo
      BY <2>1, <2>2, <3>1, FoldIsDelayed
    <3>3. ASSUME NEW f \in DOMAIN slices[t], NEW g \in DOMAIN slices[t], f < g
          PROVE  Traded(slices[t][f]) \cap Traded(slices[t][g]) = {}
      BY <2>1, <2>2, <3>1, <3>3, FoldsAreApart
    <3> QED
      BY <3>2, <3>3
  <2> QED
    BY <2>2, <2>3, <2>4 DEF Folds
<1> QED
  BY <1>1, <1>2 DEF BlindInv

\* ResearchRunner::run never selects parameters on the holdout it judges them by,
\* for every size of the data, every pair of fractions and every purge and embargo
\* that load_research_config accepts; and training and validation stay apart by
\* purge and embargo as long as the embargo is not so large that adding it to an
\* index wraps around.
THEOREM SelectionStaysBlind == ResearchSpec => []SelectionIsBlind
<1>1. ResearchSpec => []BlindInv
  BY InitBlindInv, NextBlindInv, PTL DEF ResearchSpec
<1> QED
  BY <1>1, BlindInvSuffices, PTL

-----------------------------------------------------------------------------
(* The ranking *)

Results == [trial : Int, eligible : BOOLEAN, score : Int]

\* Better is a strict weak order, so Before, which breaks ties by slot, is a
\* strict total order.
LEMMA BetterIsOrder ==
  ASSUME NEW a \in Results, NEW b \in Results, NEW c \in Results
  PROVE  /\ ~(Better(a, b) /\ Better(b, a))
         /\ Better(a, b) /\ Better(b, c) => Better(a, c)
         /\ ~Better(a, b) /\ ~Better(b, c) => ~Better(a, c)
<1>1. /\ a.eligible \in BOOLEAN /\ b.eligible \in BOOLEAN /\ c.eligible \in BOOLEAN
      /\ a.score \in Int /\ b.score \in Int /\ c.score \in Int
  BY DEF Results
<1> QED
  BY <1>1 DEF Better

LEMMA BeforeIsOrder ==
  ASSUME results \in [Trials -> Results], NEW i \in Trials, NEW j \in Trials, NEW k \in Trials
  PROVE  /\ ~(Before(i, j) /\ Before(j, i))
         /\ i # j => Before(i, j) \/ Before(j, i)
         /\ Before(i, j) /\ Before(j, k) => Before(i, k)
<1>1. i \in Int /\ j \in Int /\ k \in Int
  BY ResearchAssumption DEF Trials
<1>2. results[i] \in Results /\ results[j] \in Results /\ results[k] \in Results
  OBVIOUS
<1>3. /\ ~(Better(results[i], results[j]) /\ Better(results[j], results[i]))
      /\ Better(results[i], results[j]) /\ Better(results[j], results[k])
           => Better(results[i], results[k])
      /\ ~Better(results[k], results[j]) /\ ~Better(results[j], results[i])
           => ~Better(results[k], results[i])
      /\ Better(results[k], results[i]) /\ Better(results[i], results[j])
           => Better(results[k], results[j])
      /\ Better(results[j], results[k]) /\ Better(results[k], results[i])
           => Better(results[j], results[i])
      /\ ~Better(results[i], results[k]) /\ ~Better(results[k], results[j])
           => ~Better(results[i], results[j])
      /\ ~Better(results[j], results[i]) /\ ~Better(results[i], results[k])
           => ~Better(results[j], results[k])
  BY <1>2, BetterIsOrder
<1> QED
  BY <1>1, <1>3 DEF Before

\* Who comes before a trial, and how many they are.
Predecessors(i) == {j \in Trials : Before(j, i)}

LEMMA TrialsAreFinite ==
  /\ IsFiniteSet(Trials) /\ Cardinality(Trials) = TrialCount
  /\ TrialCount \in Nat \ {0} /\ Trials \subseteq Nat
<1>1. TrialCount \in Nat \ {0} /\ TrialCount - 1 \in Int
  BY ResearchAssumption
<1>2. IsFiniteSet(0 .. TrialCount - 1) /\ Cardinality(0 .. TrialCount - 1) = TrialCount
  BY <1>1, FS_Interval
<1> QED
  BY <1>1, <1>2 DEF Trials

LEMMA PlaceFollowsOrder ==
  ASSUME results \in [Trials -> Results], NEW i \in Trials, NEW j \in Trials
  PROVE  /\ Place(i) \in 1 .. TrialCount
         /\ Before(i, j) <=> Place(i) < Place(j)
         /\ Place(i) = Place(j) => i = j
<1>1. ASSUME NEW k \in Trials
      PROVE  /\ IsFiniteSet(Predecessors(k)) /\ Cardinality(Predecessors(k)) \in Nat
             /\ Cardinality(Predecessors(k)) < TrialCount
             /\ Place(k) = 1 + Cardinality(Predecessors(k))
  <2>1. Predecessors(k) \subseteq Trials \ {k}
    BY BeforeIsOrder DEF Predecessors
  <2>2. IsFiniteSet(Trials \ {k}) /\ Cardinality(Trials \ {k}) = TrialCount - 1
    BY TrialsAreFinite, FS_RemoveElement
  <2>3. IsFiniteSet(Predecessors(k)) /\ Cardinality(Predecessors(k)) <= TrialCount - 1
    BY <2>1, <2>2, FS_Subset
  <2>4. Cardinality(Predecessors(k)) \in Nat
    BY <2>3, FS_CardinalityType
  <2> QED
    BY <2>3, <2>4, TrialsAreFinite DEF Place, Predecessors
<1>2. ASSUME NEW k \in Trials, NEW l \in Trials, Before(k, l)
      PROVE  Place(k) < Place(l)
  <2>1. Predecessors(k) \subseteq Predecessors(l)
    BY <1>2, BeforeIsOrder DEF Predecessors
  <2>2. k \in Predecessors(l) /\ k \notin Predecessors(k)
    BY <1>2, BeforeIsOrder DEF Predecessors
  <2>3. /\ Cardinality(Predecessors(k)) <= Cardinality(Predecessors(l))
        /\ Cardinality(Predecessors(k)) # Cardinality(Predecessors(l))
    BY <1>1, <2>1, <2>2, FS_Subset
  <2> QED
    BY <1>1, <2>3
<1>3. Place(i) \in 1 .. TrialCount /\ Place(j) \in Int
  BY <1>1, TrialsAreFinite
<1>4. i # j => Before(i, j) \/ Before(j, i)
  BY BeforeIsOrder
<1>5. Before(i, j) => Place(i) < Place(j)
  BY <1>2
<1>6. Before(j, i) => Place(j) < Place(i)
  BY <1>2
<1> QED
  BY <1>3, <1>4, <1>5, <1>6

\* The trial at place k.
At(k) == CHOOSE i \in Trials : Place(i) = k

\* Every place is taken: places are as many as trials and no two share one.
LEMMA PlacesAreTaken ==
  ASSUME results \in [Trials -> Results], NEW k \in 1 .. TrialCount
  PROVE  At(k) \in Trials /\ Place(At(k)) = k
<1>1. PICK f : f = [i \in Trials |-> Place(i)]
  OBVIOUS
<1>2. \A i \in Trials : f[i] = Place(i) /\ f[i] \in 1 .. TrialCount
  BY <1>1, PlaceFollowsOrder
<1>3. f \in Injection(Trials, 1 .. TrialCount)
  <2>1. f \in [Trials -> 1 .. TrialCount]
    BY <1>1, <1>2
  <2>2. \A i, j \in Trials : f[i] = f[j] => i = j
    BY <1>2, PlaceFollowsOrder
  <2> QED
    BY <2>1, <2>2 DEF Injection, IsInjective
<1>4. IsFiniteSet(1 .. TrialCount) /\ Cardinality(1 .. TrialCount) = TrialCount
  BY TrialsAreFinite, FS_Interval
<1>5. f \in Surjection(Trials, 1 .. TrialCount)
  BY <1>3, <1>4, TrialsAreFinite, FS_Injection
<1>6. \E i \in Trials : f[i] = k
  BY <1>5 DEF Surjection
<1> QED
  BY <1>2, <1>6 DEF At

LEMMA PlaceOfAt ==
  ASSUME results \in [Trials -> Results], NEW i \in Trials
  PROVE  At(Place(i)) = i
<1>1. Place(i) \in 1 .. TrialCount
  BY PlaceFollowsOrder
<1>2. At(Place(i)) \in Trials /\ Place(At(Place(i))) = Place(i)
  BY <1>1, PlacesAreTaken
<1> QED
  BY <1>2, PlaceFollowsOrder

\* The leaderboard that Rank makes of complete results.
Listed == Least(BoardSize, TrialCount)
Ranking == [k \in 1 .. Listed |-> results[At(k)]]

LEMMA ListedPlaces ==
  Listed \in Nat \ {0} /\ 1 .. Listed \subseteq 1 .. TrialCount
BY ResearchAssumption DEF Listed, Least

\* What a leaderboard owes to complete results.
LEMMA RankingIsRight ==
  ASSUME results \in [Trials -> Results], results = outcome,
         \A t \in Trials : results[t].trial = t, board = Ranking
  PROVE  /\ DOMAIN board = 1 .. Listed
         /\ \A k \in 1 .. Listed :
              /\ board[k].trial = At(k) /\ At(k) \in Trials /\ Place(At(k)) = k
              /\ board[k] = outcome[At(k)]
              /\ \A u \in Trials : Ahead(u, At(k)) <=> \E l \in 1 .. k - 1 : board[l].trial = u
         /\ Cardinality({board[k].trial : k \in DOMAIN board}) = Listed
<1>1. DOMAIN board = 1 .. Listed /\ \A k \in 1 .. Listed : board[k] = results[At(k)]
  BY DEF Ranking
<1>2. \A k \in 1 .. Listed : At(k) \in Trials /\ Place(At(k)) = k
  BY ListedPlaces, PlacesAreTaken
<1>3. \A k \in 1 .. Listed : board[k].trial = At(k) /\ board[k] = outcome[At(k)]
  BY <1>1, <1>2
<1>4. ASSUME NEW k \in 1 .. Listed, NEW u \in Trials
      PROVE  Ahead(u, At(k)) <=> \E l \in 1 .. k - 1 : board[l].trial = u
  <2>1. Ahead(u, At(k)) <=> Place(u) < k
    <3>1. Ahead(u, At(k)) <=> Before(u, At(k))
      BY DEF Ahead, Before
    <3> QED
      BY <3>1, <1>2, PlaceFollowsOrder
  <2>2. ASSUME Place(u) < k PROVE \E l \in 1 .. k - 1 : board[l].trial = u
    <3>1. Place(u) \in 1 .. k - 1 /\ Place(u) \in 1 .. Listed
      BY <2>2, ListedPlaces, PlaceFollowsOrder
    <3>2. board[Place(u)].trial = u
      BY <3>1, <1>3, PlaceOfAt
    <3> QED
      BY <3>1, <3>2
  <2>3. ASSUME NEW l \in 1 .. k - 1, board[l].trial = u PROVE Place(u) < k
    <3>1. l \in 1 .. Listed /\ l < k
      BY ListedPlaces
    <3>2. At(l) = u /\ Place(At(l)) = l
      BY <3>1, <2>3, <1>2, <1>3
    <3> QED
      BY <3>1, <3>2
  <2> QED
    BY <2>1, <2>2, <2>3
<1>5. Cardinality({board[k].trial : k \in DOMAIN board}) = Listed
  <2>1. PICK T : T = {board[k].trial : k \in DOMAIN board}
    OBVIOUS
  <2>2. PICK f : f = [k \in 1 .. Listed |-> board[k].trial]
    OBVIOUS
  <2>3. \A k \in 1 .. Listed : f[k] \in T /\ f[k] = At(k)
    BY <1>1, <1>3, <2>1, <2>2
  <2>4. f \in [1 .. Listed -> T]
    BY <2>2, <2>3
  <2>5. \A k, l \in 1 .. Listed : f[k] = f[l] => k = l
    BY <2>3, <1>2
  <2>6. \A t \in T : \E k \in 1 .. Listed : f[k] = t
    BY <1>1, <2>1, <2>2
  <2>7. f \in Surjection(1 .. Listed, T)
    BY <2>4, <2>6 DEF Surjection
  <2>8. f \in Injection(1 .. Listed, T)
    BY <2>4, <2>5 DEF Injection, IsInjective
  <2>9. IsFiniteSet(1 .. Listed) /\ Cardinality(1 .. Listed) = Listed
    BY ListedPlaces, FS_Interval
  <2>10. Cardinality(T) = Listed
    BY <2>7, <2>8, <2>9, FS_Surjection
  <2> QED
    BY <2>1, <2>10
<1> QED
  BY <1>1, <1>2, <1>3, <1>4, <1>5

-----------------------------------------------------------------------------
(* The workers *)

\* Every slot below the counter is evaluated or held by a worker, and a worker
\* finishes only when the counter is past the last slot.
WorkersInv ==
  /\ next \in Nat
  /\ worker \in [Workers -> Trials \cup {Idle, Finished}]
  /\ results \in [Trials -> Results] /\ results = outcome
  /\ \A t \in Trials : t < next => results[t].trial = t \/ \E w \in Workers : worker[w] = t
  /\ \A w \in Workers : worker[w] = Finished => next >= TrialCount

\* The holdout was spent on the first of the eligible trials, if there is one.
Eligible == {t \in Trials : results[t].eligible}
Spent ==
  \/ Eligible = {} /\ chosen = NoTrial /\ holdout = NoSlice
  \/ /\ chosen \in Eligible /\ holdout # NoSlice
     /\ \A u \in Eligible \ {chosen} : Before(chosen, u)

RankInv ==
  /\ BlindInv /\ WorkersInv
  /\ phase \in {"load", "pool", "select", "done"}
  /\ phase \in {"select", "done"} => (\A t \in Trials : results[t].trial = t) /\ board = Ranking
  /\ phase # "done" => chosen = NoTrial /\ holdout = NoSlice
  /\ phase = "done" => Spent

LEMMA InitRankInv == ResearchInit => RankInv
<1> SUFFICES ASSUME ResearchInit PROVE RankInv
  OBVIOUS
<1>1. BlindInv
  BY InitBlindInv
<1>2. NoResult \in Results
  BY DEF NoResult, Results, NoTrial
<1>3. results \in [Trials -> Results] /\ results = outcome
  BY <1>2 DEF ResearchInit
<1>4. \A t \in Trials : ~(t < next)
  BY TrialsAreFinite DEF ResearchInit
<1>5. worker \in [Workers -> Trials \cup {Idle, Finished}] /\ \A w \in Workers : worker[w] # Finished
  BY DEF ResearchInit, Idle, Finished
<1>6. WorkersInv
  BY <1>3, <1>4, <1>5 DEF WorkersInv, ResearchInit
<1> QED
  BY <1>1, <1>6 DEF RankInv, ResearchInit

\* Steps of the workers' counter and slots.
LEMMA NextWorkersInv == RankInv /\ [ResearchNext]_researchVars => WorkersInv'
<1> SUFFICES ASSUME RankInv, [ResearchNext]_researchVars PROVE WorkersInv'
  OBVIOUS
<1>0. WorkersInv /\ TrialCount \in Nat \ {0} /\ Trials \subseteq Nat /\ Trials = 0 .. TrialCount - 1
  BY TrialsAreFinite DEF RankInv, Trials
<1>1. ASSUME NEW w \in Workers, Take(w) PROVE WorkersInv'
  <2>1. /\ next' = next + 1 /\ worker[w] = Idle /\ UNCHANGED <<results, outcome>>
        /\ worker' = [worker EXCEPT ![w] = IF next \in Trials THEN next ELSE Finished]
    BY <1>1 DEF Take
  <2>2. worker' \in [Workers -> Trials \cup {Idle, Finished}]
    BY <1>0, <2>1 DEF WorkersInv
  <2>3. /\ worker'[w] = IF next \in Trials THEN next ELSE Finished
        /\ \A v \in Workers \ {w} : worker'[v] = worker[v]
    BY <1>0, <2>1 DEF WorkersInv
  <2>4. Idle \notin Trials /\ Finished \notin Trials
    BY <1>0 DEF Idle, Finished
  <2>5. ASSUME NEW t \in Trials, t < next'
        PROVE  results'[t].trial = t \/ \E v \in Workers : worker'[v] = t
    <3>1. CASE t = next
      BY <3>1, <2>3
    <3>2. CASE t < next
      <4>1. results[t].trial = t \/ \E v \in Workers : worker[v] = t
        BY <1>0, <3>2 DEF WorkersInv
      <4> QED
        BY <4>1, <2>1, <2>3, <2>4
    <3> QED
      BY <1>0, <2>1, <2>5, <3>1, <3>2 DEF WorkersInv
  <2>6. ASSUME NEW v \in Workers, worker'[v] = Finished PROVE next' >= TrialCount
    <3>1. CASE v = w
      <4>1. next \notin Trials
        BY <2>3, <2>4, <2>6, <3>1
      <4> QED
        BY <4>1, <1>0, <2>1 DEF WorkersInv
    <3>2. CASE v # w
      <4>1. next >= TrialCount
        BY <1>0, <2>3, <2>6, <3>2 DEF WorkersInv
      <4> QED
        BY <4>1, <1>0, <2>1 DEF WorkersInv
    <3> QED
      BY <3>1, <3>2
  <2> QED
    BY <1>0, <2>1, <2>2, <2>5, <2>6 DEF WorkersInv
<1>2. ASSUME NEW w \in Workers, NEW eligible \in BOOLEAN, NEW score \in Scores,
             Evaluate(w, eligible, score)
      PROVE  WorkersInv'
  <2>1. PICK t \in Trials : t = worker[w]
    BY <1>2 DEF Evaluate
  <2>2. PICK r : r = [trial |-> t, eligible |-> eligible, score |-> score]
    OBVIOUS
  <2>3. /\ results' = [results EXCEPT ![t] = r] /\ outcome' = [outcome EXCEPT ![t] = r]
        /\ worker' = [worker EXCEPT ![w] = Idle] /\ next' = next
    BY <1>2, <2>1, <2>2 DEF Evaluate
  <2>4. r \in Results /\ r.trial = t
    BY <1>0, <2>2, ResearchAssumption DEF Results
  <2>5. results' \in [Trials -> Results] /\ results' = outcome'
    BY <1>0, <2>3, <2>4 DEF WorkersInv
  <2>6. worker' \in [Workers -> Trials \cup {Idle, Finished}]
    BY <1>0, <2>3 DEF WorkersInv
  <2>7. /\ worker'[w] = Idle /\ \A v \in Workers \ {w} : worker'[v] = worker[v]
        /\ results'[t] = r /\ \A u \in Trials \ {t} : results'[u] = results[u]
    BY <1>0, <2>3 DEF WorkersInv
  <2>8. ASSUME NEW u \in Trials, u < next'
        PROVE  results'[u].trial = u \/ \E v \in Workers : worker'[v] = u
    <3>1. CASE u = t
      BY <3>1, <2>4, <2>7
    <3>2. CASE u # t
      <4>1. results[u].trial = u \/ \E v \in Workers : worker[v] = u
        BY <1>0, <2>3, <2>8 DEF WorkersInv
      <4> QED
        BY <4>1, <3>2, <2>1, <2>7
    <3> QED
      BY <3>1, <3>2
  <2>9. \A v \in Workers : worker'[v] = Finished => next' >= TrialCount
    <3>1. Idle # Finished
      BY DEF Idle, Finished
    <3> QED
      BY <1>0, <2>3, <2>7, <3>1 DEF WorkersInv
  <2> QED
    BY <1>0, <2>3, <2>5, <2>6, <2>8, <2>9 DEF WorkersInv
<1>3. CASE UNCHANGED <<next, worker, results, outcome>>
  BY <1>0, <1>3 DEF WorkersInv
<1>4. CASE Load \/ Rank \/ Select \/ UNCHANGED researchVars
  BY <1>3, <1>4 DEF Load, Rank, Select, researchVars
<1> QED
  BY <1>1, <1>2, <1>4 DEF ResearchNext

\* The holdout's slice is not the empty one.
LEMMA HoldoutIsSpent ==
  ASSUME Sound(config), NEW l
  PROVE  Warmed(0, config.holdoutFrom, config.events, l) # NoSlice
<1>1. config.holdoutFrom < config.events /\ config.events # 0
  BY DEF Sound
<1>2. Warmed(0, config.holdoutFrom, config.events, l).to = config.events
  BY <1>1 DEF Warmed
<1>3. NoSlice.to = 0
  BY DEF NoSlice
<1> QED
  BY <1>1, <1>2, <1>3

\* Select takes the trial at the first place, if any trial is eligible.
LEMMA SelectsFirst ==
  ASSUME RankInv, Select
  PROVE  Spent'
<1>1. /\ phase = "select" /\ results \in [Trials -> Results] /\ results = outcome
      /\ \A t \in Trials : results[t].trial = t /\ board = Ranking
      /\ chosen = NoTrial /\ holdout = NoSlice /\ Sound(config)
  BY DEF RankInv, WorkersInv, BlindInv, Select
<1>2. UNCHANGED results
  BY DEF Select
<1>3. board = Ranking
  BY DEF RankInv, Select
<1>4. /\ DOMAIN board = 1 .. Listed
      /\ \A k \in 1 .. Listed : /\ At(k) \in Trials /\ board[k] = results[At(k)]
                                /\ board[k].trial = At(k) /\ Place(At(k)) = k
  BY <1>1, <1>3, RankingIsRight
<1>5. 1 \in 1 .. Listed
  BY ListedPlaces
<1>6. PICK E : E = {k \in DOMAIN board : board[k].eligible}
  OBVIOUS
<1>7. CASE Eligible = {}
  <2>1. E = {}
    BY <1>4, <1>6, <1>7 DEF Eligible
  <2>2. UNCHANGED <<chosen, holdout>>
    BY <1>6, <2>1 DEF Select
  <2>3. Eligible' = {}
    BY <1>2, <1>7 DEF Eligible
  <2> QED
    BY <1>1, <2>2, <2>3 DEF Spent
<1>8. CASE Eligible # {}
  <2>1. PICK t \in Trials : results[t].eligible
    BY <1>8 DEF Eligible
  <2>2. ASSUME NEW u \in Trials, u # At(1) PROVE Before(At(1), u)
    <3>1. Place(At(1)) = 1 /\ At(1) \in Trials
      BY <1>4, <1>5
    <3>2. Place(u) \in 1 .. TrialCount /\ Place(u) # 1
      BY <1>1, <2>2, <3>1, PlaceFollowsOrder
    <3> QED
      BY <1>1, <3>1, <3>2, PlaceFollowsOrder
  <2>3. results[At(1)].eligible
    <3> SUFFICES ASSUME ~results[At(1)].eligible PROVE FALSE
      OBVIOUS
    <3>1. At(1) \in Trials /\ t # At(1)
      BY <1>4, <1>5, <2>1
    <3>2. Better(results[t], results[At(1)])
      BY <2>1 DEF Better
    <3>3. Before(t, At(1))
      BY <3>2 DEF Before
    <3>4. Before(At(1), t)
      BY <2>2, <3>1
    <3> QED
      BY <1>1, <3>1, <3>3, <3>4, BeforeIsOrder
  <2>4. 1 \in E /\ \A l \in E : l \in Nat /\ 1 <= l
    BY <1>4, <1>5, <1>6, <2>3, ListedPlaces
  <2>5. (CHOOSE k \in E : \A l \in E : k <= l) = 1
    <3>1. \A k \in E : (\A l \in E : k <= l) => k = 1
      BY <2>4
    <3>2. \A l \in E : 1 <= l
      BY <2>4
    <3> QED
      BY <2>4, <3>1, <3>2
  <2>6. /\ chosen' = board[1].trial
        /\ holdout' = Warmed(0, config.holdoutFrom, config.events, Lookback[board[1].trial])
    BY <1>6, <2>4, <2>5 DEF Select
  <2>7. chosen' = At(1) /\ At(1) \in Trials
    BY <1>4, <1>5, <2>6
  <2>8. holdout' # NoSlice
    BY <1>1, <2>6, HoldoutIsSpent
  <2>9. (chosen \in Eligible /\ \A u \in Eligible \ {chosen} : Before(chosen, u))'
    BY <1>2, <2>2, <2>3, <2>7 DEF Eligible, Before, Better
  <2> QED
    BY <2>8, <2>9 DEF Spent
<1> QED
  BY <1>7, <1>8

LEMMA NextRankInv == RankInv /\ [ResearchNext]_researchVars => RankInv'
<1> SUFFICES ASSUME RankInv, [ResearchNext]_researchVars PROVE RankInv'
  OBVIOUS
<1>1. BlindInv' /\ WorkersInv'
  BY NextBlindInv, NextWorkersInv DEF RankInv
<1>2. CASE Load
  BY <1>1, <1>2 DEF Load, RankInv
<1>3. ASSUME NEW w \in Workers,
             Take(w) \/ \E eligible \in BOOLEAN, score \in Scores : Evaluate(w, eligible, score)
      PROVE  RankInv'
  <2>1. phase = "pool" /\ UNCHANGED <<phase, chosen, holdout>>
    BY <1>3 DEF Take, Evaluate
  <2> QED
    BY <1>1, <2>1 DEF RankInv
<1>4. CASE Rank
  <2>1. /\ phase = "pool" /\ phase' = "select" /\ UNCHANGED <<results, chosen, holdout>>
        /\ \A w \in Workers : worker[w] = Finished
        /\ board' = [k \in 1 .. Least(BoardSize, Cardinality(Trials)) |->
                       results[CHOOSE i \in Trials : Place(i) = k]]
    BY <1>4 DEF Rank
  <2>2. \A t \in Trials : results[t].trial = t
    <3>1. next \in Nat /\ next >= TrialCount
      BY <2>1, ResearchAssumption DEF RankInv, WorkersInv
    <3>2. \A t \in Trials : t < next /\ t # Finished
      BY <3>1, TrialsAreFinite DEF Trials, Finished
    <3> QED
      BY <2>1, <3>2 DEF RankInv, WorkersInv
  <2>3. board' = Ranking
    BY <2>1, TrialsAreFinite DEF Ranking, Listed, At
  <2>4. Ranking' = Ranking
    BY <2>1 DEF Ranking, At, Place, Before, Better
  <2> QED
    BY <1>1, <2>1, <2>2, <2>3, <2>4 DEF RankInv
<1>5. CASE Select
  <2>1. phase = "select" /\ phase' = "done" /\ UNCHANGED <<results, board>>
    BY <1>5 DEF Select
  <2>2. Ranking' = Ranking
    BY <2>1 DEF Ranking, At, Place, Before, Better
  <2>3. Spent'
    BY <1>5, SelectsFirst
  <2> QED
    BY <1>1, <2>1, <2>2, <2>3 DEF RankInv
<1>6. CASE UNCHANGED researchVars
  <2>1. UNCHANGED <<phase, results, board, chosen, holdout>>
    BY <1>6 DEF researchVars
  <2>2. Ranking' = Ranking
    BY <2>1 DEF Ranking, At, Place, Before, Better
  <2>3. Spent => Spent'
    BY <2>1 DEF Spent, Eligible, Before, Better
  <2> QED
    BY <1>1, <2>1, <2>2, <2>3 DEF RankInv
<1> QED
  BY <1>2, <1>3, <1>4, <1>5, <1>6 DEF ResearchNext

LEMMA RankInvSuffices == RankInv => RankingIgnoresWorkers
<1> SUFFICES ASSUME RankInv, phase \in {"select", "done"} PROVE RankingIgnoresWorkers
  BY DEF RankingIgnoresWorkers
<1>1. /\ results \in [Trials -> Results] /\ results = outcome
      /\ \A t \in Trials : results[t].trial = t
      /\ board = Ranking
  BY DEF RankInv, WorkersInv
<1>2. \A t \in Trials : outcome[t].trial = t
  BY <1>1
<1>3. ASSUME NEW k \in DOMAIN board
      PROVE  /\ board[k] = outcome[board[k].trial]
             /\ \A u \in Trials :
                  Ahead(u, board[k].trial) <=> \E l \in 1 .. k - 1 : board[l].trial = u
  <2>1. k \in 1 .. Listed
    BY <1>1, RankingIsRight
  <2>2. board[k].trial = At(k) /\ board[k] = outcome[At(k)]
    BY <1>1, <2>1, RankingIsRight
  <2>3. \A u \in Trials : Ahead(u, At(k)) <=> \E l \in 1 .. k - 1 : board[l].trial = u
    BY <1>1, <2>1, RankingIsRight
  <2> QED
    BY <2>2, <2>3
<1>4. Cardinality({board[k].trial : k \in DOMAIN board}) = Least(BoardSize, Cardinality(Trials))
  BY <1>1, RankingIsRight, TrialsAreFinite DEF Listed
<1>5. ASSUME phase = "done"
      PROVE  LET eligible == {t \in Trials : outcome[t].eligible}
             IN  /\ (chosen = NoTrial) <=> (eligible = {})
                 /\ chosen # NoTrial =>
                      chosen \in eligible /\ \A u \in eligible \ {chosen} : Ahead(chosen, u)
                 /\ (holdout = NoSlice) <=> (chosen = NoTrial)
  <2>1. Spent
    BY <1>5 DEF RankInv
  <2>2. Eligible = {t \in Trials : outcome[t].eligible} /\ NoTrial \notin Trials
    BY <1>1, TrialsAreFinite DEF Eligible, NoTrial
  <2>3. \A t, u \in Trials : Before(t, u) <=> Ahead(t, u)
    BY <1>1 DEF Before, Ahead
  <2>4. Eligible \subseteq Trials
    BY DEF Eligible
  <2> QED
    BY <2>1, <2>2, <2>3, <2>4 DEF Spent
<1> QED
  BY <1>2, <1>3, <1>4, <1>5 DEF RankingIgnoresWorkers

\* ResearchRunner::run ranks and selects as if one thread had evaluated the
\* trials in their order, for any number of workers, trials and scores.
THEOREM RankingNeverDependsOnWorkers == ResearchSpec => []RankingIgnoresWorkers
<1>1. ResearchSpec => []RankInv
  BY InitRankInv, NextRankInv, PTL DEF ResearchSpec
<1> QED
  BY <1>1, RankInvSuffices, PTL

-----------------------------------------------------------------------------
(* The experiment around the research *)

\* Each step of an experiment is one of the research of its kind, or leaves
\* both alone.
LEMMA StepUsesResearch ==
  [ExperimentNext]_allVars =>
    /\ [ResearchNext]_researchVars /\ [Next]_vars
    /\ UNCHANGED work \/ (pc = "run" /\ UNCHANGED experimentVars)
<1> SUFFICES ASSUME [ExperimentNext]_allVars
             PROVE  /\ [ResearchNext]_researchVars /\ [Next]_vars
                    /\ UNCHANGED work \/ (pc = "run" /\ UNCHANGED experimentVars)
  OBVIOUS
<1>1. CASE UNCHANGED work
  BY <1>1 DEF work
<1>2. CASE Research
  BY <1>2 DEF Research, PortfolioStep, SingleStep
<1>3. CASE UNCHANGED allVars
  BY <1>1, <1>3 DEF allVars
<1>4. CASE CopyInputs \/ Materialize \/ ManifestRemove \/ ManifestRename \/ SaveRun
             \/ SaveDatasets \/ SaveArtifact \/ Saved \/ WriteResults \/ CopyConfig \/ Throw \/ Die
  BY <1>1, <1>4 DEF CopyInputs, Materialize, ManifestRemove, ManifestRename, SaveRun,
     SaveDatasets, SaveArtifact, Saved, WriteResults, CopyConfig, Throw, Die
<1> QED
  BY <1>2, <1>3, <1>4 DEF ExperimentNext

\* ExperimentRunner::run drives both kinds of research only by their own steps:
\* every behaviour of an experiment is one of their specifications.
THEOREM ExperimentUsesResearch == ExperimentSpec => ResearchSpec /\ Spec
<1>1. ExperimentInit => ResearchInit /\ Init
  BY DEF ExperimentInit
<1> QED
  BY <1>1, StepUsesResearch, PTL DEF ExperimentSpec, ResearchSpec, Spec

\* What is proved of parameter research holds in every experiment.
COROLLARY ExperimentSelectsBlindly ==
  ExperimentSpec => [](SelectionIsBlind /\ RankingIgnoresWorkers)
  BY ExperimentUsesResearch, SelectionStaysBlind, RankingNeverDependsOnWorkers, PTL

AllFiles == {"inputs", "datasets", "results", "config"}

\* What is on disk and in the registry at each point of run().
ProgressInv ==
  /\ finished => open = <<>>
  /\ status \in {"started", "failed", "completed"} /\ rows \subseteq files
  /\ pc \in {"copy", "materialize", "remove", "rename", "row", "datasets", "artifacts", "run",
             "config", "done", "threw", "dead"}
  /\ pc \notin {"copy", "threw", "dead"} => "inputs" \in files
  /\ pc \notin {"copy", "materialize", "threw", "dead"} => "datasets" \in files
  /\ pc = "config" => Researched /\ files = AllFiles \ {"config"}
  /\ pc \in {"copy", "materialize", "run", "config"} => status = "started"
  /\ status = "started" /\ pc # "config" => files \subseteq {"inputs", "datasets"} \/ pc = "dead"
  /\ pc = "artifacts" => "datasets" \in rows
  /\ pc \in {"run", "config"} \/ status # "started" => {"inputs", "datasets"} \subseteq rows

\* Only a run that completed is registered as completed, after its manifest.
CompletionInv ==
  /\ status = "completed" =>
       /\ Researched /\ files = AllFiles /\ pc \notin {"copy", "materialize", "run", "config"}
       /\ pc \in {"row", "datasets", "artifacts", "done"} => manifest \in {"completed", "short"}
       /\ pc = "done" => rows = files
  /\ row = "completed" =>
       /\ status = "completed" /\ manifest \in {"completed", "short"}
       /\ pc \in {"datasets", "artifacts", "done", "threw", "dead"}

LEMMA NextProgressInv == ProgressInv /\ [ExperimentNext]_allVars => ProgressInv'
<1> SUFFICES ASSUME ProgressInv, [ExperimentNext]_allVars PROVE ProgressInv'
  OBVIOUS
<1> USE DEF ProgressInv, AllFiles
<1>1. CASE Research
  <2>1. pc = "run" /\ UNCHANGED <<kind, pc, status, files, short, manifest, row, rows>>
    BY <1>1 DEF Research, experimentVars
  <2>2. finished' => open' = <<>>
    <3>1. CASE UNCHANGED vars
      BY <3>1 DEF vars
    <3>2. CASE Next
      BY <3>2 DEF Next, Candidate, Finish
    <3> QED
      BY <1>1, <3>1, <3>2 DEF Research, PortfolioStep, SingleStep
  <2> QED
    BY <2>1, <2>2
<1>2. CASE UNCHANGED work
  <2>1. /\ UNCHANGED <<finished, open, kind, phase>>
        /\ Researched' = Researched
    BY <1>2 DEF work, vars, researchVars, Researched
  <2> USE <2>1 DEF Researched
  <2>2. CASE CopyInputs
    BY <2>2 DEF CopyInputs
  <2>3. CASE Materialize
    BY <2>3 DEF Materialize
  <2>4. CASE ManifestRemove \/ ManifestRename \/ SaveRun
    BY <2>4 DEF ManifestRemove, ManifestRename, SaveRun
  <2>5. CASE SaveDatasets
    BY <2>5 DEF SaveDatasets
  <2>6. CASE SaveArtifact \/ Saved
    BY <2>6 DEF SaveArtifact, Saved, Artifacts, Unsaved
  <2>7. CASE WriteResults
    BY <2>7 DEF WriteResults
  <2>8. CASE CopyConfig
    BY <2>8 DEF CopyConfig
  <2>9. CASE Throw \/ Die
    BY <2>9 DEF Throw, Die
  <2>10. CASE UNCHANGED allVars
    BY <2>10 DEF allVars
  <2> QED
    BY <1>1, <2>2, <2>3, <2>4, <2>5, <2>6, <2>7, <2>8, <2>9, <2>10 DEF ExperimentNext
<1> QED
  BY <1>1, <1>2, StepUsesResearch
     DEF ExperimentNext, CopyInputs, Materialize, ManifestRemove, ManifestRename, SaveRun,
         SaveDatasets, SaveArtifact, Saved, WriteResults, CopyConfig, Throw, Die, allVars

LEMMA NextCompletionInv ==
  ProgressInv /\ CompletionInv /\ [ExperimentNext]_allVars => CompletionInv'
<1> SUFFICES ASSUME ProgressInv, CompletionInv, [ExperimentNext]_allVars PROVE CompletionInv'
  OBVIOUS
<1> USE DEF CompletionInv, AllFiles
<1>1. CASE pc = "run" /\ UNCHANGED experimentVars
  BY <1>1 DEF ProgressInv, experimentVars
<1>2. CASE UNCHANGED work
  <2>1. Researched' = Researched
    BY <1>2 DEF work, vars, researchVars, Researched
  <2> USE <2>1 DEF ProgressInv
  <2>2. CASE CopyInputs \/ Materialize
    BY <2>2 DEF CopyInputs, Materialize
  <2>3. CASE ManifestRemove
    BY <2>3 DEF ManifestRemove
  <2>4. CASE ManifestRename \/ SaveRun
    BY <2>4 DEF ManifestRename, SaveRun
  <2>5. CASE SaveDatasets
    BY <2>5 DEF SaveDatasets
  <2>6. CASE SaveArtifact \/ Saved
    BY <2>6 DEF SaveArtifact, Saved, Artifacts, Unsaved
  <2>7. CASE WriteResults \/ CopyConfig
    BY <2>7 DEF WriteResults, CopyConfig
  <2>8. CASE Throw \/ Die
    BY <2>8 DEF Throw, Die
  <2>9. CASE UNCHANGED allVars
    BY <2>9 DEF allVars
  <2>10. CASE Research
    BY <1>1, <2>10 DEF Research
  <2> QED
    BY <2>2, <2>3, <2>4, <2>5, <2>6, <2>7, <2>8, <2>9, <2>10 DEF ExperimentNext
<1> QED
  BY <1>1, <1>2, StepUsesResearch

\* CompletedIsComplete in every experiment, whichever step throws and wherever
\* the process dies: the registry's completed runs have all they claim.
THEOREM CompletedStaysComplete == ExperimentSpec => []CompletedIsComplete
<1>1. ExperimentInit => ProgressInv /\ CompletionInv
  BY DEF ExperimentInit, Init, ProgressInv, CompletionInv
<1>2. ProgressInv /\ CompletionInv => CompletedIsComplete
  BY DEF ProgressInv, CompletionInv, CompletedIsComplete, AllFiles, Researched
<1> QED
  BY <1>1, <1>2, NextProgressInv, NextCompletionInv, PTL DEF ExperimentSpec
=============================================================================
