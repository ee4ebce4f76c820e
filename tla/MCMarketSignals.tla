-------------------------- MODULE MCMarketSignals ---------------------------
(* Two symbols and four ticks: rings of three candles and windows of two      *)
(* prices wrap, and each of the strategies signals.                           *)
EXTENDS MarketSignals

MCThreshold == <<1, 5>>
MCBuffer == <<1, 4>>
MCEnsembleThreshold == <<2, 5>>
=============================================================================
