--------------------------------- MODULE Lots ---------------------------------
(* What the rest of the system relies on when it trades a position batch: lots *)
(* come in by entries; an exit first keeps some of the lots held, only those   *)
(* are ever sold, and no second exit keeps any until the first one is settled. *)
(* (next_gen/models.py PositionBatch, "reserved lot invariant".)               *)
EXTENDS Integers

CONSTANTS Batches, Start, MaxQty

VARIABLES held, kept
vars == <<held, kept>>

Init == held = Start /\ kept = [b \in Batches |-> 0]

Buy(b, n) == held' = [held EXCEPT ![b] = @ + n] /\ UNCHANGED kept

Keep(b, n) ==
  /\ kept[b] = 0 /\ n <= held[b]
  /\ kept' = [kept EXCEPT ![b] = n]
  /\ UNCHANGED held

(* n of the kept lots are sold; the order goes on, or it is settled and gives  *)
(* back what it did not sell.                                                  *)
Sell(b, n, settled) ==
  /\ n <= kept[b]
  /\ held' = [held EXCEPT ![b] = @ - n]
  /\ kept' = [kept EXCEPT ![b] = IF settled THEN 0 ELSE @ - n]

Next == \E b \in Batches :
          \/ \E n \in 1..MaxQty : Buy(b, n) \/ Keep(b, n)
          \/ \E n \in 0..MaxQty, settled \in BOOLEAN : Sell(b, n, settled)

Spec == Init /\ [][Next]_vars
===============================================================================
