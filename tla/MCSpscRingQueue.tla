-------------------------- MODULE MCSpscRingQueue --------------------------
(* Four slots, so that the indices wrap around and the ring gets full and    *)
(* empty in every position; two values to tell orders apart.                 *)
EXTENDS SpscRingQueue

\* The values are interchangeable for the ring.
MCValues == {"a", "b"}
MCNoValue == "disengaged"
=============================================================================
