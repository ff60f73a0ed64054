------------------------------ MODULE OrderModel ------------------------------
(* The domain objects of next_gen/models.py: the life of one order, and the    *)
(* lot reservation an exit order holds on its position batch.  Everything here *)
(* is a pure operator on records; AccountState gives it steps.  Quantities are *)
(* whole lots; prices, identifiers and timestamps are left out.                *)
(*                                                                             *)
(* An operator named after another one with a suffix (ApplyUpdate_AnyTime) is  *)
(* a slip one could make when changing that code.  Nothing uses it: it stands  *)
(* there to show that some property would notice.                              *)
EXTENDS Integers

Terminal == {"FILLED", "CANCELED", "REJECTED"}
Working  == {"PENDING", "SUBMITTED", "OPEN", "RECONCILING", "PARTIALLY_FILLED"}
OrderStatus == Working \cup Terminal

(* How far along its life a status is; OPEN and RECONCILING rank alike.        *)
STATUS_RANK ==
  [s \in OrderStatus |->
     CASE s = "PENDING"                -> 0
       [] s = "SUBMITTED"              -> 1
       [] s \in {"OPEN", "RECONCILING"} -> 2
       [] s = "PARTIALLY_FILLED"       -> 3
       [] OTHER                        -> 4]

Smaller(a, b) == IF a <= b THEN a ELSE b
Above0(a)     == IF a >= 0 THEN a ELSE 0

-------------------------------------------------------------------------------
(* Order: [batch, qty, filled, status, released, acked].  "acked" says that    *)
(* the exchange's own order id is known; "released" is lot_reservation_released. *)

IsTerminal(o) == o.status \in Terminal

NewOrder(b, q) ==
  [batch |-> b, qty |-> q, filled |-> 0, status |-> "PENDING",
   released |-> FALSE, acked |-> FALSE]

(* The status only moves up in rank and never out of a terminal one; the       *)
(* cumulative fill only grows, is absorbed even by a terminal order, and never *)
(* exceeds what was ordered.                                                   *)
ApplyUpdate_AnyTime(o, new, cum, acked) ==
  [o EXCEPT !.filled = cum, !.status = new, !.acked = @ \/ acked]

ApplyUpdate(o, new, cum, acked) ==
  [batch    |-> o.batch,
   qty      |-> o.qty,
   filled   |-> IF cum > o.filled THEN Smaller(cum, o.qty) ELSE o.filled,
   status   |-> IF ~IsTerminal(o) /\ STATUS_RANK[new] >= STATUS_RANK[o.status]
                THEN new ELSE o.status,
   released |-> o.released,
   acked    |-> o.acked \/ acked]

(* The local verdict that nobody knows what became of the order.               *)
Doubted(o) == [o EXCEPT !.status = "RECONCILING"]

-------------------------------------------------------------------------------
(* Batch: [qty, exiting, status, exitAt].  "ABSENT" is a batch that is not in  *)
(* AccountState.batches; "exitAt" says exit_order_submitted_at is set.         *)
BatchStatus == {"ABSENT", "ACTIVE", "EXITING", "CLOSED"}

NoBatch == [qty |-> 0, exiting |-> 0, status |-> "ABSENT", exitAt |-> FALSE]

CanReserve_AnyLots(b, q) == q > 0

CanReserve(b, q) == q > 0 /\ q <= b.qty - b.exiting

ReserveForExit(b, q) ==
  [qty |-> b.qty, exiting |-> b.exiting + q, status |-> "EXITING", exitAt |-> b.exitAt]

ReleaseExitReservation(b, q) ==
  LET left == b.exiting - Smaller(q, b.exiting)
  IN  IF q <= 0 THEN b
      ELSE [qty     |-> b.qty,
            exiting |-> left,
            status  |-> IF left = 0 /\ b.qty > 0 THEN "ACTIVE" ELSE b.status,
            exitAt  |-> b.exitAt]

(* An order gives its unfilled remainder back at most once.                    *)
ReleaseBatchReservation_WholeOrder(o, b) ==
  IF o.released THEN b ELSE [b EXCEPT !.exiting = @ - o.qty, !.status = "ACTIVE"]

ReleaseBatchReservation(o, b) ==
  IF o.released THEN b ELSE ReleaseExitReservation(b, Above0(o.qty - o.filled))

(* delta more of an exit order was executed; "done" says the order is terminal. *)
ExitFill_KeepsReservation(b, delta, done) == [b EXCEPT !.qty = Above0(@ - delta)]

ExitFill(b, delta, done) ==
  LET q == Above0(b.qty - delta)
      e == Above0(b.exiting - delta)
  IN  [qty     |-> q,
       exiting |-> e,
       status  |-> IF q = 0 THEN "CLOSED"
                   ELSE IF e = 0 /\ done THEN "ACTIVE" ELSE b.status,
       exitAt  |-> b.exitAt]

(* delta more of an entry order was executed: it opens the batch (NoBatch has  *)
(* nothing to add to), extends it, or reopens one that had closed meanwhile.   *)
EntryFill_Replaces(b, delta) == [b EXCEPT !.qty = delta, !.status = "ACTIVE"]

EntryFill(b, delta) ==
  [qty     |-> b.qty + delta,
   exiting |-> b.exiting,
   status  |-> IF b.status \in {"ABSENT", "CLOSED"} THEN "ACTIVE" ELSE b.status,
   exitAt  |-> b.exitAt]
===============================================================================
