---------------------------- MODULE MCCandleBook ----------------------------
(* The healer, a warmer and a refresher.                                   *)
EXTENDS CandleBook

CONSTANTS f1, w1

One == <<f1>>
=============================================================================
