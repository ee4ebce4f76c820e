--------------------------- MODULE MCPaperRuntime ---------------------------
(***************************************************************************)
(* The paper runtime: stop() comes at any time while one trade is closed,  *)
(* or none, and the operator changes the settings or an engine fails.      *)
(***************************************************************************)
EXTENDS PaperRuntime
=============================================================================
