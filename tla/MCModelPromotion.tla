-------------------------- MODULE MCModelPromotion --------------------------
(* Two commands at a time on two researched definitions with a good and a     *)
(* poor holdout, and an edited one no experiment stands behind.               *)
EXTENDS ModelPromotion, TLC

MCResearched == {"good", "poor"}
MCDefinitions == MCResearched \cup {"edited"}
MCHoldout == [d \in MCResearched |-> IF d = "good" THEN 1 ELSE 0]
MCMinScore == [d \in MCDefinitions |-> 1]
\* The commands are interchangeable, and no liveness is checked.
MCSymmetry == Permutations(Processes)
=============================================================================
