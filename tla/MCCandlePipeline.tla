-------------------------- MODULE MCCandlePipeline --------------------------
(* The instances of CandlePipeline that TLC checks. *)
EXTENDS CandlePipeline

Prices   == 1 .. 2
Minutes  == 1 .. 3
Sequence == 1 .. 4
=============================================================================
