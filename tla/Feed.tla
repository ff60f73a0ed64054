--------------------------------- MODULE Feed ---------------------------------
(* What a subscriber of the market-state hub is promised, whatever happens to  *)
(* the connection, to the queues on both sides and to the hub process: batches *)
(* come in the order they were published and never twice, and a batch is left  *)
(* out only while the subscriber knows that batches may be missing.            *)
EXTENDS Naturals

VARIABLES
  head,     \* the batch published last
  seen,     \* the batch handed over last
  warned    \* the subscriber knows that batches may be missing

vars == <<head, seen, warned>>

Batch == [epoch : Nat, n : Nat]
Later(b, c) == b.epoch > c.epoch \/ (b.epoch = c.epoch /\ b.n > c.n)

Init ==
  /\ head = [epoch |-> 1, n |-> 0] /\ seen = [epoch |-> 0, n |-> 0]
  /\ warned \in BOOLEAN

Publish ==
  /\ head' \in {[epoch |-> head.epoch, n |-> head.n + 1],
                [epoch |-> head.epoch + 1, n |-> 0]}
  /\ warned' \in BOOLEAN /\ UNCHANGED seen

HandOver ==
  /\ seen' = [epoch |-> seen.epoch, n |-> seen.n + 1]
  /\ ~Later(seen', head)
  /\ warned' \in BOOLEAN /\ UNCHANGED head

Skip ==
  /\ warned
  /\ seen' \in Batch /\ Later(seen', seen) /\ ~Later(seen', head)
  /\ warned' \in BOOLEAN /\ UNCHANGED head

Warn == warned' \in BOOLEAN /\ UNCHANGED <<head, seen>>

Next == Publish \/ HandOver \/ Skip \/ Warn

Spec == Init /\ [][Next]_vars
===============================================================================
