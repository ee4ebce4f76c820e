---------------------------- MODULE MCCollector ----------------------------
(* A queue of two candles and batches of two: four messages fill the queue,  *)
(* overflow it and leave a partial batch.                                     *)
EXTENDS Collector
=============================================================================
