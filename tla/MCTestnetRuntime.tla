-------------------------- MODULE MCTestnetRuntime --------------------------
(* The runtime has no parameters; the streams and the operator are free. *)
EXTENDS TestnetRuntime
=============================================================================
