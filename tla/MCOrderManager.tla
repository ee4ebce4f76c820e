--------------------------- MODULE MCOrderManager ---------------------------
(* One buy of two units, one sell of one unit an earlier process left open,   *)
(* and a thread that reconciles, kills and resumes as often as it likes.      *)
EXTENDS OrderManager

MCIds == {"buy", "sell"}
MCSideOf == [i \in MCIds |-> IF i = "buy" THEN "Buy" ELSE "Sell"]
MCQtyOf == [i \in MCIds |-> IF i = "buy" THEN 2 ELSE 1]
=============================================================================
