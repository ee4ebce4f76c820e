------------------------- MODULE MCLiveOrderSession -------------------------
(* One order through a session with any two of kill, resume and a failed      *)
(* keepalive, and stop: every pair of the three threads meets.                *)
EXTENDS LiveOrderSession

MCIds == {"buy"}
MCSideOf == [i \in MCIds |-> "Buy"]
MCQtyOf == [i \in MCIds |-> 1]
=============================================================================
