------------------------------ MODULE MCExitFlow ------------------------------
(* One batch of at most two lots for TLC.                                      *)
EXTENDS ExitFlow

CONSTANT e1

OneSlot == {e1}
===============================================================================
