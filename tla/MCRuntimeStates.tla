---------------------------- MODULE MCRuntimeStates ---------------------------
(* One symbol that trades and one that only quotes, for TLC.                   *)
EXTENDS RuntimeStates

CONSTANTS a, b

Both  == {a, b}
OnlyA == {a}
OnlyB == {b}

(* Four trades: all in one bucket, over two, or with a bucket between.         *)
Some == {[s \in {a, b} |-> IF s = a THEN t ELSE <<>>] :
           t \in {<<0, 0, 1, 1>>, <<0, 1, 2, 3>>, <<0, 1, 1, 4>>}}
===============================================================================
