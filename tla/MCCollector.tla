----------------------------- MODULE MCCollector -----------------------------
(* Small collectors for TLC: every selected bucket but one, and the bounds.    *)
EXTENDS Collector

AllButOne == Buckets \ {1}
===============================================================================
