---------------------------- MODULE MCTradeEngine ----------------------------
(* Three price levels around an exit distance of one, a queue of two events   *)
(* and a few prices: enough for two round trips and a full queue.            *)
EXTENDS TradeEngine

MCPrices == 1 .. 3
==============================================================================
