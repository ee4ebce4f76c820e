---------------------------- MODULE MCExperiment ----------------------------
(* Portfolio: a volatile symbol sized down, a calm one sized up and           *)
(* correlated with a third; two losses reach either limit.                    *)
(* Single asset: the fewest events, cut so that folds are one to ten events   *)
(* wide, with a purge longer than the training data, an embargo longer than   *)
(* the smallest fold, one that wraps around (251 of 256, a configured -5) and *)
(* a lookback longer than the data.                                           *)
EXTENDS Experiment

MCCorrelated == [s \in Symbols |-> IF s = "volatile" THEN {s} ELSE {"calm", "pair"}]
MCProfits == {-4, 2}
MCSwings == {-10, 10}   \* a day's gain and the next day's loss
MCVolatility == [s \in Symbols |-> CASE s = "volatile" -> 4 [] s = "calm" -> 1 [] OTHER -> 0]
MCLookback == [t \in Trials |-> IF t = 0 THEN 60 ELSE 2]
=============================================================================
