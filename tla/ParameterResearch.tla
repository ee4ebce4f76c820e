-------------------------- MODULE ParameterResearch -------------------------
(***************************************************************************)
(* ResearchRunner::run (research/ResearchPlatform.cpp): every parameter    *)
(* set of a grid is a trial, worker threads evaluate the trials on the     *)
(* folds of a walk-forward split, and the best eligible trial is evaluated *)
(* once more on the holdout at the end of the data.  Events are numbers    *)
(* from 0 in the order of their timestamps.  What a trial earns is a       *)
(* choice: whether it made enough validation trades, and a score that      *)
(* stands for the whole ranking of validation score, deflated Sharpe       *)
(* ratio, stability and overfit gap.                                       *)
(***************************************************************************)
EXTENDS Integers, FiniteSets

CONSTANTS Sizes,                           \* numbers of events in the data
          Modulus,                         \* of std::size_t, 2^64
          Scale,                           \* what fractions are counted in
          TrainParts, HoldoutParts,        \* train_fraction, holdout_fraction
          FoldCounts, Purges, Embargoes,   \* walk_forward_folds, purge_events, embargo_events
          TrialCount, Lookback,            \* the grid and the lookback of each trial
          Workers, Scores,
          BoardSize                        \* leaderboard_size

\* Checked by load_research_config and, for the number of events, by run().
\* Neither checks purge_events or embargo_events: any std::size_t is accepted,
\* and a negative number in the file becomes a large one.
ASSUME ResearchAssumption ==
  /\ Modulus \in Nat /\ Sizes \subseteq 50 .. Modulus - 1
  /\ Scale \in Nat \ {0} /\ TrainParts \subseteq Nat /\ HoldoutParts \subseteq Nat \ {0}
  /\ \A p \in TrainParts : 10 * p > Scale /\ 10 * p < 9 * Scale
  /\ \A q \in HoldoutParts : 10 * q < 4 * Scale
  /\ \A p \in TrainParts, q \in HoldoutParts : 100 * (p + q) < 95 * Scale
  /\ FoldCounts \subseteq Nat \ {0}
  /\ Purges \subseteq 0 .. Modulus - 1 /\ Embargoes \subseteq 0 .. Modulus - 1
  /\ TrialCount \in Nat \ {0}
  /\ Lookback \in [0 .. TrialCount - 1 -> Nat] /\ \A t \in 0 .. TrialCount - 1 : Lookback[t] >= 2
  /\ Scores \subseteq Int /\ BoardSize \in Nat \ {0} /\ Workers # {}

VARIABLES
  phase,     \* how far run() is
  config,    \* the split: sizes, folds, purge and embargo
  next,      \* the counter the workers share
  worker,    \* the slot each worker evaluates, Idle or Finished
  results,   \* out.results, by slot
  board,     \* out.leaderboard, by place from 1
  chosen,    \* the selected trial, NoTrial without one
  holdout,   \* the slice the selected trial was evaluated on
  slices,    \* history: the slices each trial was evaluated on, by fold
  outcome    \* history: what each trial earned

researchVars == <<phase, config, next, worker, results, board, chosen, holdout, slices, outcome>>

Trials == 0 .. TrialCount - 1   \* slots of the results
NoTrial == -1
Idle == -1
Finished == -2
NoResult == [trial |-> NoTrial, eligible |-> FALSE, score |-> 0]
NoSlice == [train |-> 0, warm |-> 0, from |-> 0, to |-> 0]
NoConfig == [holdoutFrom |-> 0, events |-> 0, initial |-> 0, folds |-> 0, width |-> 0, purge |-> 0, embargo |-> 0]

ResearchInit ==
  /\ phase = "load" /\ config = NoConfig
  /\ next = 0 /\ worker = [w \in Workers |-> Idle]
  /\ results = [t \in Trials |-> NoResult] /\ outcome = [t \in Trials |-> NoResult]
  /\ board = << >> /\ chosen = NoTrial /\ holdout = NoSlice
  /\ slices = [t \in Trials |-> << >>]

Least(a, b) == IF a < b THEN a ELSE b
Most(a, b) == IF a < b THEN b ELSE a

-----------------------------------------------------------------------------
(* The split *)

\* n * p / Scale in floating point, truncated: rounding the fraction and the
\* product may move it past a whole number, either way.
Share(n, p) == {(n * p + d) \div Scale : d \in {-1, 0, 1}}

\* Data of n events, cut after the holdout's share h and the training share a.
Split(n, h, a, folds, purge, embargo) ==
  LET end == n - Most(1, h)
      initial == Least(Most(a, 2), end - 1)
      count == Least(folds, end - initial)
  IN  [events |-> n, holdoutFrom |-> end, initial |-> initial, folds |-> count,
       width |-> Most(1, (end - initial) \div count), purge |-> purge, embargo |-> embargo]

Load ==
  /\ phase = "load" /\ phase' = "pool"
  /\ \E n \in Sizes, p \in TrainParts, q \in HoldoutParts :
       \E a \in Share(n, p), h \in Share(n, q) :
         \E folds \in FoldCounts, purge \in Purges, embargo \in Embargoes :
           config' = Split(n, h, a, folds, purge, embargo)
  /\ UNCHANGED <<next, worker, results, board, chosen, holdout, slices, outcome>>

\* run_slice with its warm-up: the strategy, but not the engine, sees up to
\* lookback + 1 events before the slice.
Warmed(train, from, to, lookback) ==
  IF from < to THEN [train |-> train, warm |-> from - Least(from, lookback + 1), from |-> from, to |-> to]
  ELSE [NoSlice EXCEPT !.train = train]

\* Mutant: the last fold runs to the end of the data.
Fold_Unbounded(c, f, lookback) ==
  LET boundary == c.initial + f * c.width
      end == IF f + 1 = c.folds THEN c.events ELSE Least(c.holdoutFrom, boundary + c.width)
  IN  Warmed(Most(0, boundary - c.purge), Least(end, (boundary + c.embargo) % Modulus), end, lookback)

\* Training ends purge events before the fold, validation begins embargo events
\* into it, or before it when the unsigned sum wraps around.
Fold(c, f, lookback) ==
  LET boundary == c.initial + f * c.width
      end == IF f + 1 = c.folds THEN c.holdoutFrom ELSE Least(c.holdoutFrom, boundary + c.width)
  IN  Warmed(Most(0, boundary - c.purge), Least(end, (boundary + c.embargo) % Modulus), end, lookback)

-----------------------------------------------------------------------------
(* The workers.  An exception in one of them ends the process. *)

Take(w) ==
  /\ phase = "pool" /\ worker[w] = Idle
  /\ next' = next + 1
  /\ worker' = [worker EXCEPT ![w] = IF next \in Trials THEN next ELSE Finished]
  /\ UNCHANGED <<phase, config, results, board, chosen, holdout, slices, outcome>>

\* Mutant: results are stored in the order of completion.
Evaluate_InOrder(w, eligible, score) ==
  /\ phase = "pool" /\ worker[w] \in Trials
  /\ LET t == worker[w]
         result == [trial |-> t, eligible |-> eligible, score |-> score]
         free == CHOOSE i \in Trials : results[i] = NoResult /\ \A j \in 0 .. i - 1 : results[j] # NoResult
     IN  /\ results' = [results EXCEPT ![free] = result]
         /\ outcome' = [outcome EXCEPT ![t] = result]
         /\ slices' = [slices EXCEPT ![t] = [f \in 0 .. config.folds - 1 |-> Fold(config, f, Lookback[t])]]
  /\ worker' = [worker EXCEPT ![w] = Idle]
  /\ UNCHANGED <<phase, config, next, board, chosen, holdout>>

Evaluate(w, eligible, score) ==
  /\ phase = "pool" /\ worker[w] \in Trials
  /\ LET t == worker[w]
         result == [trial |-> t, eligible |-> eligible, score |-> score]
     IN  /\ results' = [results EXCEPT ![t] = result]
         /\ outcome' = [outcome EXCEPT ![t] = result]
         /\ slices' = [slices EXCEPT ![t] = [f \in 0 .. config.folds - 1 |-> Fold(config, f, Lookback[t])]]
  /\ worker' = [worker EXCEPT ![w] = Idle]
  /\ UNCHANGED <<phase, config, next, board, chosen, holdout>>

-----------------------------------------------------------------------------
(* Ranking and selection, when all workers have been joined *)

\* The order of stable_sort: eligible results first, then better scores, then
\* slots.
Better(a, b) == (a.eligible /\ ~b.eligible) \/ (a.eligible = b.eligible /\ a.score > b.score)
Before(i, j) == Better(results[i], results[j]) \/ (~Better(results[j], results[i]) /\ i < j)
Place(i) == 1 + Cardinality({j \in Trials : Before(j, i)})

Rank ==
  /\ phase = "pool" /\ \A w \in Workers : worker[w] = Finished
  /\ phase' = "select"
  /\ board' = [k \in 1 .. Least(BoardSize, Cardinality(Trials)) |-> results[CHOOSE i \in Trials : Place(i) = k]]
  /\ UNCHANGED <<config, next, worker, results, chosen, holdout, slices, outcome>>

\* The holdout is used for the first eligible result only.
Select ==
  /\ phase = "select" /\ phase' = "done"
  /\ LET eligible == {k \in DOMAIN board : board[k].eligible}
         first == CHOOSE k \in eligible : \A l \in eligible : k <= l
         t == board[first].trial
     IN  IF eligible = {} THEN UNCHANGED <<chosen, holdout>>
         ELSE chosen' = t /\ holdout' = Warmed(0, config.holdoutFrom, config.events, Lookback[t])
  /\ UNCHANGED <<config, next, worker, results, board, slices, outcome>>

ResearchNext ==
  \/ Load \/ Rank \/ Select
  \/ \E w \in Workers : Take(w) \/ \E eligible \in BOOLEAN, score \in Scores : Evaluate(w, eligible, score)

ResearchSpec == ResearchInit /\ [][ResearchNext]_researchVars

-----------------------------------------------------------------------------
Folds(t) == {slices[t][f] : f \in DOMAIN slices[t]}
Trained(s) == 0 .. s.train - 1
Traded(s) == s.from .. s.to - 1

(* No trial is selected on what it is later judged by: no event that was traded, *)
(* trained on or used for warm-up before the selection belongs to the holdout.   *)
(* And unless the embargo is so large that the sum wraps around, the events      *)
(* traded in the validation of a fold are later than its training events by more *)
(* than purge and embargo, and no two folds validate on the same event.          *)
SelectionIsBlind ==
  \A t \in Trials :
    /\ \A s \in Folds(t) : \A i \in Trained(s) \cup s.warm .. s.to - 1 :
         i < config.holdoutFrom /\ (holdout # NoSlice => i \notin Traded(holdout))
    /\ config.events + config.embargo < Modulus =>
         /\ \A s \in Folds(t) : \A i \in Trained(s), j \in Traded(s) : j - i > config.purge + config.embargo
         /\ \A f, g \in DOMAIN slices[t] : f < g => Traded(slices[t][f]) \cap Traded(slices[t][g]) = {}

(* Documented, and not so: an embargo delays validation, so that no position is *)
(* opened before the boundary of the fold.  The embargo is not checked, and a   *)
(* negative one in the configuration makes validation start before the boundary.*)
EmbargoDelays ==
  \A t \in Trials : \A f \in DOMAIN slices[t] :
    \A j \in Traded(slices[t][f]) : config.initial + f * config.width <= j

(* Whichever worker evaluates which trial and however they finish, every trial  *)
(* is evaluated, the leaderboard holds the best ones in their order, ties by    *)
(* trial number, and the holdout is spent on the first of all eligible trials,  *)
(* or on none if there is none.                                                 *)
Ahead(t, u) == Better(outcome[t], outcome[u]) \/ (~Better(outcome[u], outcome[t]) /\ t < u)
RankingIgnoresWorkers ==
  phase \in {"select", "done"} =>
    LET listed == {board[k].trial : k \in DOMAIN board}
        eligible == {t \in Trials : outcome[t].eligible}
    IN  /\ \A t \in Trials : outcome[t].trial = t
        /\ \A k \in DOMAIN board :
             /\ board[k] = outcome[board[k].trial]
             /\ \A u \in Trials : Ahead(u, board[k].trial) <=> \E l \in 1 .. k - 1 : board[l].trial = u
        /\ Cardinality(listed) = Least(BoardSize, Cardinality(Trials))
        /\ phase = "done" =>
             /\ (chosen = NoTrial) <=> (eligible = {})
             /\ chosen # NoTrial => chosen \in eligible /\ \A u \in eligible \ {chosen} : Ahead(chosen, u)
             /\ (holdout = NoSlice) <=> (chosen = NoTrial)
=============================================================================
