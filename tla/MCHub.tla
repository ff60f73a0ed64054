--------------------------------- MODULE MCHub --------------------------------
(* Six batches of two hub processes for TLC.                                  *)
EXTENDS Hub
===============================================================================
