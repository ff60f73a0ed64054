---------------------------- MODULE MCAccountState ----------------------------
(* Small accounts for TLC.                                                     *)
EXTENDS AccountState, TLC

CONSTANTS e1, e2, x1, x2, b1, k1

OneEntry   == {e1}
TwoEntries == {e1, e2}
OneExit    == {x1}
TwoExits   == {x1, x2}
OneBatch   == {b1}
OneKey     == {k1}
SameKey    == [b \in {b1} |-> k1]
Flat       == [b \in {b1} |-> 0]
HoldsOne   == [b \in {b1} |-> 1]
HoldsTwo   == [b \in {b1} |-> 2]
Symmetry   == Permutations({e1, e2}) \cup Permutations({x1, x2})
===============================================================================
