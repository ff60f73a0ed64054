-------------------------- MODULE AccountSafetyProofs --------------------------
(* The types and the safety invariants of AccountState for any sets of orders, *)
(* batches and keys and any order size: TypeInv, the gate (ModeInv), what the  *)
(* account may believe of the exchange (ExchangeInv), the locks and            *)
(* reservations (BookInv), the exchange's news (NothingMissed), the rows       *)
(* (Durable, NeverUndone) and the lots of the batches (Lots).                  *)
EXTENDS AccountState, SumTheorems

-------------------------------------------------------------------------------
(* The domain objects keep their types.  An order never fills beyond what was  *)
(* asked, which is what keeps every fill handed to a batch positive.           *)
FillsBounded == \A i \in Ids : orders[i].filled <= orders[i].qty

(* OrderState.apply_update: the order stays an order, fills grow within its    *)
(* quantity, and the status is the old one or the new one.                     *)
LEMMA ApplyUpdateType ==
  ASSUME NEW o \in Order, o.filled <= o.qty,
         NEW new \in OrderStatus, NEW cum \in Nat, NEW acked \in BOOLEAN
  PROVE  LET n == ApplyUpdate(o, new, cum, acked)
         IN  /\ n \in Order
             /\ n.batch = o.batch /\ n.qty = o.qty /\ n.released = o.released
             /\ o.filled <= n.filled /\ n.filled <= n.qty
             /\ cum <= n.filled \/ n.filled = n.qty
             /\ n.filled = o.filled \/ n.filled <= cum
             /\ IsTerminal(o) => n.status = o.status
             /\ n.status = o.status \/ n.status = new
<1>1. (o.acked \/ acked) \in BOOLEAN
  OBVIOUS
<1> QED
  BY <1>1 DEF Order, ApplyUpdate, Smaller, IsTerminal

(* Releasing a reservation leaves a batch.                                     *)
LEMMA ReleaseType ==
  ASSUME NEW b \in Batch, NEW o \in Order
  PROVE  ReleaseBatchReservation(o, b) \in Batch
  BY DEF Order, Batch, ReleaseBatchReservation, ReleaseExitReservation, Smaller,
         Above0, BatchStatus

(* Fills of either side leave a batch.                                         *)
LEMMA FillType ==
  ASSUME NEW b \in Batch, NEW d \in Nat, NEW done \in BOOLEAN
  PROVE  ExitFill(b, d, done) \in Batch /\ EntryFill(b, d) \in Batch
<1>1. ExitFill(b, d, done) \in Batch
  BY DEF Batch, ExitFill, Above0, BatchStatus
<1>2. EntryFill(b, d) \in Batch
  BY DEF Batch, EntryFill, BatchStatus
<1> QED
  BY <1>1, <1>2

(* Writing an order over its row leaves an order row.                          *)
LEMMA UpsertType ==
  ASSUME NEW row \in Order, NEW o \in Order
  PROVE  Upsert(row, o) \in Order
<1>1. (o.acked \/ row.acked) \in BOOLEAN
  OBVIOUS
<1> QED
  BY <1>1 DEF Upsert, Order

(* Closing an order leaves an order.                                           *)
LEMMA ClosedType ==
  ASSUME NEW o \in Order, NEW s \in OrderStatus \cup {"NONE"}, NEW g \in BOOLEAN
  PROVE  Closed(o, s, g) \in Order
<1>1. (o.released \/ g) \in BOOLEAN
  OBVIOUS
<1> QED
  BY <1>1 DEF Closed, Order

(* Doubting an order changes its status and nothing else.                      *)
LEMMA DoubtType ==
  ASSUME NEW o \in Order
  PROVE  /\ Doubted(o) \in Order
         /\ Doubted(o).filled = o.filled /\ Doubted(o).qty = o.qty
         /\ Doubted(o).batch = o.batch /\ Doubted(o).released = o.released
         /\ Doubted(o).status = "RECONCILING"
  BY DEF Doubted, Order, OrderStatus, Working

-------------------------------------------------------------------------------
(* What the shared pieces of the actions do to the types.                      *)
TypeInv == TypeOK /\ FillsBounded

BookType ==
  /\ orders \in [Ids -> Order]
  /\ batches \in [Batches -> Batch]
  /\ entryLock \in [Keys -> EntryIds \cup {None}]
  /\ exitLock \in [Batches -> ExitIds \cup {None}]
  /\ FillsBounded

(* The lock maps stay lock maps.                                               *)
LEMMA ReleaseLockType ==
  ASSUME BookType, NEW i \in Ids, ReleaseLock(i)
  PROVE  /\ entryLock' \in [Keys -> EntryIds \cup {None}]
         /\ exitLock' \in [Batches -> ExitIds \cup {None}]
  BY DEF BookType, ReleaseLock, Unlock

(* The batches stay batches.                                                   *)
LEMMA ReleasedType ==
  ASSUME BookType, NEW i \in Ids, NEW o \in Order
  PROVE  Released(i, o) \in [Batches -> Batch]
  BY ReleaseType DEF BookType, Released

(* Undoing an order keeps the account well typed.                              *)
LEMMA RollbackType ==
  ASSUME BookType, NEW i \in Ids, Rollback(i)
  PROVE  BookType'
<1>1. NoOrder \in Order /\ NoOrder.filled <= NoOrder.qty
  BY DEF NoOrder, Order
<1>2. orders' \in [Ids -> Order] /\ FillsBounded'
  BY <1>1 DEF BookType, Rollback, FillsBounded
<1>3. batches' \in [Batches -> Batch]
  BY ReleasedType DEF BookType, Rollback
<1> QED
  BY <1>2, <1>3, ReleaseLockType DEF BookType, Rollback

(* So does closing a refused one.                                              *)
LEMMA MarkOrderRejectedType ==
  ASSUME BookType, NEW i \in Ids, MarkOrderRejected(i)
  PROVE  BookType'
<1> DEFINE o == Closed(orders[i], "REJECTED", i \in ExitIds)
<1>1. o \in Order
  <2>1. orders[i] \in Order
    BY DEF BookType
  <2>2. "REJECTED" \in OrderStatus \cup {"NONE"} /\ (i \in ExitIds) \in BOOLEAN
    BY DEF OrderStatus, Terminal
  <2> QED
    BY <2>1, <2>2, ClosedType
<1>2. o.filled = orders[i].filled /\ o.qty = orders[i].qty
  BY DEF Closed
<1>3. orders' = [orders EXCEPT ![i] = o]
  BY DEF MarkOrderRejected
<1> HIDE DEF o
<1>4. orders' \in [Ids -> Order] /\ FillsBounded'
  BY <1>1, <1>2, <1>3 DEF BookType, FillsBounded
<1>5. batches' \in [Batches -> Batch]
  BY ReleasedType DEF BookType, MarkOrderRejected
<1> QED
  BY <1>4, <1>5, ReleaseLockType DEF BookType, MarkOrderRejected

(* So does absorbing an update of the exchange.                                *)
LEMMA AbsorbType ==
  ASSUME BookType, NEW i \in Ids, NEW new \in OrderStatus, NEW cum \in Nat,
         NEW acked \in BOOLEAN, Absorb(i, new, cum, acked)
  PROVE  BookType'
<1> DEFINE o     == orders[i]
           n     == ApplyUpdate(o, new, cum, acked)
           delta == n.filled - o.filled
           gives == i \in ExitIds /\ n.status \in {"CANCELED", "REJECTED"}
           freed == IF gives THEN Released(i, n) ELSE batches
           c     == Closed(n, n.status, gives)
<1>1. o \in Order /\ o.filled <= o.qty
  BY DEF BookType, FillsBounded
<1>2. /\ n \in Order /\ n.qty = o.qty
      /\ o.filled <= n.filled /\ n.filled <= n.qty
  BY <1>1, ApplyUpdateType
<1>3. delta \in Nat
  BY <1>1, <1>2 DEF Order
<1>4. freed \in [Batches -> Batch]
  BY <1>2, ReleasedType DEF BookType
<1>5. c \in Order /\ c.filled = n.filled /\ c.qty = n.qty
  <2>1. n.status \in OrderStatus \cup {"NONE"}
    BY <1>2 DEF Order
  <2>2. c \in Order
    BY <1>2, <2>1, ClosedType
  <2> QED
    BY <2>2 DEF Closed
<1>6. /\ orders' = [orders EXCEPT ![i] = c]
      /\ batches' = IF delta = 0 THEN freed
                    ELSE [freed EXCEPT ![o.batch] =
                            IF i \in ExitIds THEN ExitFill(@, delta, IsTerminal(n))
                            ELSE EntryFill(@, delta)]
      /\ IF IsTerminal(n) THEN ReleaseLock(i) ELSE UNCHANGED <<entryLock, exitLock>>
  BY DEF Absorb
<1>7. IsTerminal(n) \in BOOLEAN
  BY DEF IsTerminal
<1> HIDE DEF o, n, delta, gives, freed, c
<1>8. orders' \in [Ids -> Order] /\ FillsBounded'
  BY <1>2, <1>5, <1>6 DEF BookType, FillsBounded
<1>9. batches' \in [Batches -> Batch]
  BY <1>3, <1>4, <1>6, <1>7, FillType
<1> QED
  BY <1>6, <1>8, <1>9, ReleaseLockType DEF BookType

(* Writing one order row keeps the rows well typed.                            *)
LEMMA SaveOrderType ==
  ASSUME TypeOK, NEW i, SaveOrder(i), i \in Ids \cup {None}
  PROVE  dbOrders' \in [Ids -> Order]
<1>1. CASE i \in Ids
  BY <1>1, UpsertType DEF TypeOK, SaveOrder
<1>2. CASE i \notin Ids
  BY <1>2 DEF TypeOK, SaveOrder
<1> QED
  BY <1>1, <1>2

(* So does writing an order and its batch in one transaction.                  *)
LEMMA SaveOrderAndBatchType ==
  ASSUME TypeOK, NEW i, SaveOrderAndBatch(i), i \in Ids \cup {None}
  PROVE  dbOrders' \in [Ids -> Order] /\ dbBatches' \in [Batches -> Batch]
<1>1. dbOrders' \in [Ids -> Order]
  BY SaveOrderType DEF SaveOrderAndBatch
<1>2. dbBatches' \in [Batches -> Batch]
  BY DEF TypeOK, SaveOrderAndBatch
<1> QED
  BY <1>1, <1>2

(* Putting one order in doubt keeps the account well typed.                    *)
LEMMA DoubtedBookType ==
  ASSUME BookType, NEW i \in Ids, orders' = [orders EXCEPT ![i] = Doubted(@)]
  PROVE  orders' \in [Ids -> Order] /\ FillsBounded'
<1> DEFINE d == Doubted(orders[i])
<1>1. orders[i] \in Order
  BY DEF BookType
<1>2. d \in Order /\ d.filled = orders[i].filled /\ d.qty = orders[i].qty
  BY <1>1, DoubtType
<1>3. orders' = [orders EXCEPT ![i] = d]
  OBVIOUS
<1> HIDE DEF d
<1> QED
  BY <1>2, <1>3 DEF BookType, FillsBounded

(* A frame joins the stream only while the link is up; either way the stream   *)
(* holds frames.                                                               *)
LEMMA EmitType ==
  ASSUME stream \in SUBSET Frame, NEW i \in Ids, NEW cum \in Nat,
         NEW s \in {"OPEN", "PARTIALLY_FILLED", "FILLED", "CANCELED"}, Emit(i, s, cum)
  PROVE  stream' \in SUBSET Frame
<1>1. [id |-> i, status |-> s, cum |-> cum] \in Frame
  BY DEF Frame
<1> QED
  BY <1>1 DEF Emit

(* The exchange moves one of its orders on, and its fills stay.                *)
LEMMA EndedType ==
  ASSUME NEW x \in [Ids -> [st : XchStatus, cum : Nat]], NEW i \in Ids,
         NEW s \in {"open", "canceled"}
  PROVE  [x EXCEPT ![i].st = s] \in [Ids -> [st : XchStatus, cum : Nat]]
<1>1. s \in XchStatus
  BY DEF XchStatus
<1>2. [x[i] EXCEPT !.st = s] \in [st : XchStatus, cum : Nat]
  BY <1>1
<1> QED
  BY <1>2

-------------------------------------------------------------------------------
(* Every step preserves the types, whichever handler, timer or outside event   *)
(* it is.                                                                      *)
LEMMA TypeStep ==
  ASSUME TypeInv, [Next]_vars
  PROVE  TypeInv'
<1> USE DEF TypeInv
<1>0. BookType
  BY DEF TypeOK, BookType
<1>1. ASSUME NEW i \in EntryIds, NEW b \in Batches, NEW q \in 1..MaxQty,
             CreateEntry(i, b, q)
      PROVE  TypeInv'
  <2>1. NewOrder(b, q) \in Order /\ NewOrder(b, q).filled <= NewOrder(b, q).qty
    BY <1>1, QtyAssumption DEF NewOrder, Order, OrderStatus, Working
  <2>2. orders' \in [Ids -> Order] /\ FillsBounded'
    BY <1>1, <2>1 DEF CreateEntry, TypeOK, FillsBounded
  <2> QED
    BY <1>1, <2>2, KeyAssumption
       DEF CreateEntry, TypeOK, CallPoint, Ids, health, writer, db, outside
<1>2. ASSUME NEW i \in ExitIds, NEW b \in Batches, NEW q \in 1..MaxQty,
             CreateExit(i, b, q)
      PROVE  TypeInv'
  <2>1. NewOrder(b, q) \in Order /\ NewOrder(b, q).filled <= NewOrder(b, q).qty
    BY <1>2, QtyAssumption DEF NewOrder, Order, OrderStatus, Working
  <2>2. "SUBMITTED" \in OrderStatus /\ 0 \in Nat /\ FALSE \in BOOLEAN
    BY DEF OrderStatus, Working
  <2>3. orders' \in [Ids -> Order] /\ FillsBounded'
    <3> DEFINE n == ApplyUpdate(NewOrder(b, q), "SUBMITTED", 0, FALSE)
    <3>1. n \in Order /\ n.filled <= n.qty
      BY <2>1, <2>2, ApplyUpdateType
    <3>2. orders' = [orders EXCEPT ![i] = n]
      BY <1>2 DEF CreateExit
    <3> HIDE DEF n
    <3> QED
      BY <3>1, <3>2 DEF TypeOK, FillsBounded
  <2>4. Exiting(ReserveForExit(batches[b], q)) \in Batch
    BY <1>2, QtyAssumption DEF TypeOK, Batch, Exiting, ReserveForExit, BatchStatus
  <2> QED
    BY <1>2, <2>3, <2>4
       DEF CreateExit, TypeOK, CallPoint, Ids, health, writer, db, outside
<1>3. ASSUME NEW b \in Batches, BlockedExit(b)
      PROVE  TypeInv'
  <2>1. Exiting(batches[b]) \in Batch
    BY <1>3 DEF TypeOK, Batch, Exiting
  <2> QED
    BY <1>3, <2>1
       DEF BlockedExit, TypeOK, FillsBounded, health, writer, db, outside
<1>4. ASSUME NEW i \in Ids, SettingsDone(i)
      PROVE  TypeInv'
  <2> DEFINE n == ApplyUpdate(orders[i], "SUBMITTED", 0, FALSE)
  <2>1. n \in Order /\ n.filled <= n.qty
    <3>1. "SUBMITTED" \in OrderStatus /\ 0 \in Nat /\ FALSE \in BOOLEAN
      BY DEF OrderStatus, Working
    <3>2. orders[i] \in Order /\ orders[i].filled <= orders[i].qty
      BY DEF TypeOK, FillsBounded
    <3> QED
      BY <3>1, <3>2, ApplyUpdateType
  <2>2. orders' = [orders EXCEPT ![i] = n]
    BY <1>4 DEF SettingsDone
  <2> HIDE DEF n
  <2> QED
    BY <1>4, <2>1, <2>2
       DEF SettingsDone, TypeOK, FillsBounded, CallPoint, health, writer, db, outside
<1>5. ASSUME NEW i \in Ids, SettingsFailed(i)
      PROVE  TypeInv'
  <2>1. BookType'
    BY <1>0, <1>5, RollbackType DEF SettingsFailed, BookType, book, FillsBounded
  <2> QED
    BY <1>5, <2>1
       DEF SettingsFailed, TypeOK, BookType, CallPoint, health, writer, db, outside
<1>6. ASSUME NEW i \in Ids, PrewriteDone(i)
      PROVE  TypeInv'
  <2>1. dbOrders' \in [Ids -> Order] /\ dbBatches' \in [Batches -> Batch]
    BY <1>6, SaveOrderType, SaveOrderAndBatchType DEF PrewriteDone, TypeOK
  <2>2. xch' \in [Ids -> [st : XchStatus, cum : Nat]]
    BY <1>6 DEF PrewriteDone, TypeOK, XchStatus
  <2> QED
    BY <1>6, <2>1, <2>2
       DEF PrewriteDone, TypeOK, FillsBounded, CallPoint, book, health, writer
<1>7. ASSUME NEW i \in Ids, PrewriteFailed(i)
      PROVE  TypeInv'
  <2>1. dbOrders' \in [Ids -> Order] /\ dbBatches' \in [Batches -> Batch]
    BY <1>7, SaveOrderType, SaveOrderAndBatchType DEF PrewriteFailed, TypeOK, db
  <2>2. BookType'
    BY <1>0, <1>7, RollbackType DEF PrewriteFailed
  <2> QED
    BY <1>7, <2>1, <2>2
       DEF PrewriteFailed, TypeOK, BookType, CallPoint, SystemMode, writer, outside
<1>8. ASSUME NEW i \in Ids, PostAccepted(i) \/ PostUnknown(i)
      PROVE  TypeInv'
  BY <1>8 DEF PostAccepted, PostUnknown, TypeOK, FillsBounded, CallPoint, book, health,
              writer, db, outside
<1>9. ASSUME NEW i \in Ids, PostRejected(i)
      PROVE  TypeInv'
  <2>1. BookType'
    BY <1>0, <1>9, MarkOrderRejectedType DEF PostRejected
  <2>2. xch' \in [Ids -> [st : XchStatus, cum : Nat]]
    BY <1>9 DEF PostRejected, TypeOK, XchStatus
  <2> QED
    BY <1>9, <2>1, <2>2
       DEF PostRejected, TypeOK, BookType, CallPoint, health, writer, db
<1>10. ASSUME NEW i \in Ids, PostNotSent(i)
       PROVE  TypeInv'
  <2>1. xch' \in [Ids -> [st : XchStatus, cum : Nat]]
    BY <1>10 DEF PostNotSent, TypeOK, XchStatus
  <2> QED
    BY <1>10, <2>1
       DEF PostNotSent, TypeOK, FillsBounded, CallPoint, book, health, writer, db
<1>11. ASSUME NEW i \in Ids, RejectSaved(i) \/ DoubtSaved(i)
       PROVE  TypeInv'
  <2>1. dbOrders' \in [Ids -> Order]
    BY <1>11, SaveOrderType DEF RejectSaved, DoubtSaved
  <2> QED
    BY <1>11, <2>1
       DEF RejectSaved, DoubtSaved, TypeOK, FillsBounded, CallPoint, book, health,
           writer, outside
<1>12. ASSUME NEW i \in Ids, RejectSaveFailed(i) \/ DoubtSaveFailed(i)
       PROVE  TypeInv'
  BY <1>12 DEF RejectSaveFailed, DoubtSaveFailed, TypeOK, FillsBounded, CallPoint,
               SystemMode, book, writer, db, outside
<1>13. ASSUME NEW i \in Ids, MarkNotSent(i)
       PROVE  TypeInv'
  <2>1. "REJECTED" \in OrderStatus /\ 0 \in Nat /\ FALSE \in BOOLEAN
    BY DEF OrderStatus, Terminal
  <2>2. BookType'
    BY <1>0, <1>13, <2>1, AbsorbType DEF MarkNotSent, BookType, book, FillsBounded
  <2> QED
    BY <1>13, <2>2
       DEF MarkNotSent, TypeOK, BookType, CallPoint, health, writer, db, outside
<1>14. ASSUME NEW i \in Ids, MarkInDoubt(i)
       PROVE  TypeInv'
  <2>1. orders' \in [Ids -> Order] /\ FillsBounded'
    BY <1>0, <1>14, DoubtedBookType DEF MarkInDoubt, TypeOK, FillsBounded
  <2> QED
    BY <1>14, <2>1 DEF MarkInDoubt, TypeOK, CallPoint, SystemMode, writer, db, outside
<1>15. ASSUME NEW i \in Ids, Watchdog(i) \/ CancelUnconfirmed(i)
       PROVE  TypeInv'
  <2>1. orders' \in [Ids -> Order] /\ FillsBounded'
    BY <1>0, <1>15, DoubtedBookType DEF Watchdog, CancelUnconfirmed
  <2> QED
    BY <1>15, <2>1
       DEF Watchdog, CancelUnconfirmed, TypeOK, SystemMode, writer, db, outside
<1>16. ASSUME NEW i \in Ids, XchAccept(i) \/ XchCancel(i)
       PROVE  TypeInv'
  <2>1. xch[i].cum \in Nat
    BY DEF TypeOK
  <2>2. xch' \in [Ids -> [st : XchStatus, cum : Nat]]
    <3>1. PICK s \in {"open", "canceled"} : xch' = [xch EXCEPT ![i].st = s]
      BY <1>16 DEF XchAccept, XchCancel
    <3>2. xch \in [Ids -> [st : XchStatus, cum : Nat]]
      BY DEF TypeOK
    <3> QED
      BY <3>1, <3>2, EndedType
  <2>3. stream' \in SUBSET Frame
    <3>1. CASE Emit(i, "OPEN", 0)
      BY <3>1, EmitType DEF TypeOK
    <3>2. CASE Emit(i, "CANCELED", xch[i].cum)
      BY <3>2, <2>1, EmitType DEF TypeOK
    <3> QED
      BY <1>16, <3>1, <3>2 DEF XchAccept, XchCancel
  <2>4. UNCHANGED <<book, health, call, writer, db, link>>
    BY <1>16 DEF XchAccept, XchCancel
  <2> QED
    BY <2>2, <2>3, <2>4 DEF TypeOK, FillsBounded, book, health, writer, db
<1>17. ASSUME NEW i \in Ids, NEW n \in 1..MaxQty, XchFill(i, n)
       PROVE  TypeInv'
  <2> DEFINE cum == xch[i].cum + n
             st  == IF cum = orders[i].qty THEN "filled" ELSE "open"
             f   == IF cum = orders[i].qty THEN "FILLED" ELSE "PARTIALLY_FILLED"
  <2>1. cum \in Nat
    BY QtyAssumption DEF TypeOK
  <2>2. st \in XchStatus /\ f \in {"OPEN", "PARTIALLY_FILLED", "FILLED", "CANCELED"}
    BY DEF XchStatus
  <2>3. xch' = [xch EXCEPT ![i] = [st |-> st, cum |-> cum]] /\ Emit(i, f, cum)
    BY <1>17 DEF XchFill
  <2>4. UNCHANGED <<book, health, call, writer, db, link>>
    BY <1>17 DEF XchFill
  <2> HIDE DEF cum, st, f
  <2>5. xch' \in [Ids -> [st : XchStatus, cum : Nat]]
    BY <2>1, <2>2, <2>3 DEF TypeOK
  <2>6. stream' \in SUBSET Frame
    BY <2>1, <2>2, <2>3, EmitType DEF TypeOK
  <2> QED
    BY <2>4, <2>5, <2>6 DEF TypeOK, FillsBounded, book, health, writer, db
<1>18. ASSUME NEW f \in stream, Deliver(f)
       PROVE  TypeInv'
  <2>0. f \in Frame
    BY DEF TypeOK
  <2>1. f.id \in Ids /\ f.status \in OrderStatus /\ f.cum \in Nat
    BY <2>0 DEF Frame, OrderStatus, Working, Terminal
  <2>2. stream' \in SUBSET Frame
    BY <1>18 DEF Deliver, TypeOK
  <2>3. Absorb(f.id, f.status, f.cum, TRUE) /\ TRUE \in BOOLEAN
    BY <1>18 DEF Deliver
  <2>4. BookType'
    BY <1>0, <2>1, <2>3, AbsorbType
  <2>5. /\ holder' = f.id /\ phase' = "save1"
        /\ UNCHANGED <<health, call, db, xch, link>>
    BY <1>18 DEF Deliver
  <2> QED
    BY <2>1, <2>2, <2>4, <2>5 DEF TypeOK, BookType, health, db
<1>19. ASSUME DeliverForeign \/ Heartbeat \/ BeginDrain \/ LinkBreaks \/ Reconnected
       PROVE  TypeInv'
  <2>1. CASE DeliverForeign \/ LinkBreaks \/ BeginDrain
    <3>1. UNCHANGED <<book, call, writer, db, xch>>
      BY <2>1 DEF DeliverForeign, LinkBreaks, BeginDrain, outside
    <3>2. /\ mode' \in SystemMode /\ draining' \in BOOLEAN /\ ws' \in BOOLEAN
          /\ gap' \in BOOLEAN /\ fault' \in BOOLEAN
      BY <2>1 DEF DeliverForeign, LinkBreaks, BeginDrain, TypeOK, SystemMode, health
    <3>3. link' \in {"up", "down"} /\ stream' \in SUBSET Frame
      BY <2>1 DEF DeliverForeign, LinkBreaks, BeginDrain, TypeOK, outside
    <3> QED
      BY <3>1, <3>2, <3>3 DEF TypeOK, FillsBounded, book, writer, db
  <2>2. CASE Heartbeat \/ Reconnected
    <3>1. UNCHANGED <<book, call, writer, db, xch>>
      BY <2>2 DEF Heartbeat, Reconnected, outside
    <3>2. /\ mode' \in SystemMode /\ draining' \in BOOLEAN /\ ws' \in BOOLEAN
          /\ gap' \in BOOLEAN /\ fault' \in BOOLEAN
      BY <2>2 DEF Heartbeat, Reconnected, Rechecked, TypeOK, SystemMode, health
    <3>3. link' \in {"up", "down"} /\ stream' \in SUBSET Frame
      BY <2>2 DEF Heartbeat, Reconnected, TypeOK, outside
    <3> QED
      BY <3>1, <3>2, <3>3 DEF TypeOK, FillsBounded, book, writer, db
  <2> QED
    BY <1>19, <2>1, <2>2
<1>20. ASSUME SaveCommitted
       PROVE  TypeInv'
  <2>1. dbOrders' \in [Ids -> Order] /\ dbBatches' \in [Batches -> Batch]
    BY <1>20, SaveOrderAndBatchType DEF SaveCommitted, TypeOK
  <2> QED
    BY <1>20, <2>1
       DEF SaveCommitted, TypeOK, FillsBounded, SystemMode, Rechecked, book, outside
<1>21. ASSUME SaveRetried \/ SaveFailed
       PROVE  TypeInv'
  BY <1>21 DEF SaveRetried, SaveFailed, TypeOK, FillsBounded, SystemMode, book, health,
               db, outside
<1>22. ASSUME ConnectionLost \/ FillSaveFailed
       PROVE  TypeInv'
  <2>1. WsDown
    BY <1>22 DEF ConnectionLost, FillSaveFailed
  <2>2. orders \in [Ids -> Order] /\ FillsBounded
    BY DEF TypeOK
  <2>3. ASSUME orders' = [i \in Ids |-> IF i \in Live THEN Doubted(orders[i])
                                                    ELSE orders[i]]
        PROVE  orders' \in [Ids -> Order] /\ FillsBounded'
    <3>1. ASSUME NEW i \in Ids
          PROVE  orders'[i] \in Order /\ orders'[i].filled <= orders'[i].qty
      <4>1. orders[i] \in Order /\ orders[i].filled <= orders[i].qty
        BY <2>2 DEF FillsBounded
      <4>2. orders'[i] = orders[i] \/ orders'[i] = Doubted(orders[i])
        BY <2>3
      <4> QED
        BY <4>1, <4>2, DoubtType
    <3> QED
      BY <2>3, <3>1 DEF FillsBounded
  <2>4. orders' \in [Ids -> Order] /\ FillsBounded'
    <3>1. CASE UNCHANGED orders
      BY <2>2, <3>1 DEF FillsBounded
    <3> QED
      BY <2>1, <2>3, <3>1 DEF WsDown
  <2>5. gap' \in BOOLEAN /\ mode' \in SystemMode
    BY <2>1 DEF WsDown, TypeOK, SystemMode
  <2> QED
    BY <2>1, <2>4, <2>5 DEF WsDown, TypeOK, writer, db
<1>23. CASE UNCHANGED vars
  BY <1>23 DEF TypeOK, FillsBounded, vars, book, health, writer, db, outside
<1> QED
  BY <1>1, <1>2, <1>3, <1>4, <1>5, <1>6, <1>7, <1>8, <1>9, <1>10, <1>11, <1>12, <1>13,
     <1>14, <1>15, <1>16, <1>17, <1>18, <1>19, <1>20, <1>21, <1>22, <1>23
     DEF Next, Creation, Submission, Saving, Ids

(* The account starts well typed.                                              *)
LEMMA TypeInit == Init => TypeInv
<1> SUFFICES ASSUME Init PROVE TypeInv
  OBVIOUS
<1>1. NoOrder \in Order /\ NoOrder.filled <= NoOrder.qty
  BY DEF NoOrder, Order
<1>2. /\ orders \in [Ids -> Order] /\ FillsBounded
      /\ dbOrders \in [Ids -> Order]
  BY <1>1 DEF Init, FillsBounded
<1>3. batches \in [Batches -> Batch] /\ dbBatches = batches
  BY StartAssumption DEF Init, NoBatch, Batch, BatchStatus
<1> QED
  BY <1>2, <1>3 DEF Init, TypeInv, TypeOK, SystemMode, CallPoint, XchStatus

(* Every reachable state keeps the shape the code gives it, and no order is    *)
(* ever filled beyond its quantity.                                            *)
LEMMA TypeInvariance == Spec => []TypeInv
  BY TypeInit, TypeStep, PTL DEF Spec

(* Type correctness of the account, its rows and its exchange, for every       *)
(* instance: the models.py dataclasses keep their declared fields and domains. *)
THEOREM TypeCorrect == Spec => []TypeOK
<1>1. TypeInv => TypeOK
  BY DEF TypeInv
<1> QED
  BY <1>1, TypeInvariance, PTL

-------------------------------------------------------------------------------
(* The gate.                                                                   *)

(* An update from the exchange puts no order in doubt.                         *)
LEMMA AbsorbDoubtsNothing ==
  ASSUME BookType, NEW i \in Ids, NEW new \in OrderStatus \ {"RECONCILING"},
         NEW cum \in Nat, NEW acked \in BOOLEAN, Absorb(i, new, cum, acked)
  PROVE  InDoubt' \subseteq InDoubt
<1> DEFINE n == ApplyUpdate(orders[i], new, cum, acked)
           c == Closed(n, n.status, i \in ExitIds /\ n.status \in {"CANCELED", "REJECTED"})
<1>1. n.status = orders[i].status \/ n.status = new
  BY DEF ApplyUpdate
<1>2. c.status = n.status
  BY DEF Closed
<1>3. orders' = [orders EXCEPT ![i] = c]
  BY DEF Absorb
<1> HIDE DEF n, c
<1> QED
  BY <1>1, <1>2, <1>3 DEF InDoubt, BookType

(* Nor does undoing an order, or closing a refused one.                        *)
LEMMA EndingDoubtsNothing ==
  ASSUME BookType, NEW i \in Ids, Rollback(i) \/ MarkOrderRejected(i)
  PROVE  InDoubt' \subseteq InDoubt
<1> DEFINE c == Closed(orders[i], "REJECTED", i \in ExitIds)
<1>1. c.status = "REJECTED" /\ NoOrder.status = "NONE"
  BY DEF Closed, NoOrder
<1>2. orders' = [orders EXCEPT ![i] = NoOrder] \/ orders' = [orders EXCEPT ![i] = c]
  BY DEF Rollback, MarkOrderRejected
<1> HIDE DEF c
<1> QED
  BY <1>1, <1>2 DEF InDoubt, BookType

(* Every step keeps RUNNING safe.  DoubtIsHeld is what the step that fails to  *)
(* save a doubt needs: it latches the fault and leaves the mode alone, which   *)
(* is right only because the order in doubt already keeps the mode degraded.   *)
LEMMA ModeStep ==
  ASSUME TypeInv, ModeInv, [Next]_vars
  PROVE  ModeInv'
<1> USE DEF ModeInv
<1>0. TypeOK /\ BookType
  BY DEF TypeInv, TypeOK, BookType
<1>1. ASSUME NEW i \in EntryIds, NEW b \in Batches, NEW q \in 1..MaxQty,
             CreateEntry(i, b, q)
      PROVE  ModeInv'
  <2>1. NewOrder(b, q).status = "PENDING"
    BY DEF NewOrder
  <2>2. InDoubt' \subseteq InDoubt
    BY <1>0, <1>1, <2>1 DEF CreateEntry, InDoubt, BookType
  <2>3. call[i] = "idle"
    BY <1>1 DEF CreateEntry
  <2>4. phase = "doubt" => holder # i
    BY <2>3 DEF DoubtIsHeld
  <2> QED
    BY <1>0, <1>1, <2>2, <2>4
       DEF CreateEntry, DoubtIsHeld, RunningIsSafe, health, writer, TypeOK
<1>2. ASSUME NEW i \in ExitIds, NEW b \in Batches, NEW q \in 1..MaxQty,
             CreateExit(i, b, q)
      PROVE  ModeInv'
  <2> DEFINE o == ApplyUpdate(NewOrder(b, q), "SUBMITTED", 0, FALSE)
  <2>1. o.status = "SUBMITTED"
    BY DEF ApplyUpdate, NewOrder, IsTerminal, Terminal, STATUS_RANK, OrderStatus, Working
  <2>2. orders' = [orders EXCEPT ![i] = o]
    BY <1>2 DEF CreateExit
  <2> HIDE DEF o
  <2>3. InDoubt' \subseteq InDoubt
    BY <1>0, <2>1, <2>2 DEF InDoubt, BookType
  <2>4. phase = "doubt" => holder # i
    BY <1>2 DEF CreateExit, DoubtIsHeld
  <2> QED
    BY <1>0, <1>2, <2>2, <2>3, <2>4
       DEF CreateExit, DoubtIsHeld, RunningIsSafe, health, writer, TypeOK
<1>3. ASSUME NEW b \in Batches, BlockedExit(b)
      PROVE  ModeInv'
  BY <1>3 DEF BlockedExit, DoubtIsHeld, RunningIsSafe, InDoubt, health, writer
<1>4. ASSUME NEW i \in Ids, SettingsDone(i)
      PROVE  ModeInv'
  <2> DEFINE o == ApplyUpdate(orders[i], "SUBMITTED", 0, FALSE)
  <2>1. o.status = "SUBMITTED" \/ o.status = orders[i].status
    BY DEF ApplyUpdate
  <2>2. orders' = [orders EXCEPT ![i] = o]
    BY <1>4 DEF SettingsDone
  <2> HIDE DEF o
  <2>3. InDoubt' \subseteq InDoubt
    BY <1>0, <2>1, <2>2 DEF InDoubt, BookType
  <2>4. phase = "doubt" => holder # i
    BY <1>4 DEF SettingsDone, DoubtIsHeld
  <2> QED
    BY <1>0, <1>4, <2>2, <2>3, <2>4
       DEF SettingsDone, DoubtIsHeld, RunningIsSafe, health, writer, TypeOK
<1>5. ASSUME NEW i \in Ids, SettingsFailed(i)
      PROVE  ModeInv'
  <2>1. InDoubt' \subseteq InDoubt
    <3>1. CASE Rollback(i)
      BY <1>0, <3>1, EndingDoubtsNothing
    <3>2. CASE UNCHANGED book
      BY <3>2 DEF InDoubt, book
    <3> QED
      BY <1>5, <3>1, <3>2 DEF SettingsFailed
  <2>2. phase = "doubt" => holder # i
    BY <1>5 DEF SettingsFailed, DoubtIsHeld
  <2> QED
    BY <1>0, <1>5, <2>1, <2>2
       DEF SettingsFailed, Rollback, DoubtIsHeld, RunningIsSafe, health, writer, book, TypeOK
<1>6. ASSUME NEW i \in Ids, PrewriteDone(i) \/ PostAccepted(i) \/ PostNotSent(i)
                              \/ PostUnknown(i) \/ RejectSaved(i) \/ RejectSaveFailed(i)
      PROVE  ModeInv'
  <2>1. phase = "doubt" => holder # i
    BY <1>6 DEF PrewriteDone, PostAccepted, PostNotSent, PostUnknown, RejectSaved,
                RejectSaveFailed, DoubtIsHeld
  <2> QED
    BY <1>0, <1>6, <2>1
       DEF PrewriteDone, PostAccepted, PostNotSent, PostUnknown, RejectSaved,
           RejectSaveFailed, DoubtIsHeld, RunningIsSafe, InDoubt, book, health, writer, TypeOK
<1>7. ASSUME NEW i \in Ids, PrewriteFailed(i) \/ PostRejected(i)
      PROVE  ModeInv'
  <2>1. InDoubt' \subseteq InDoubt
    BY <1>0, <1>7, EndingDoubtsNothing DEF PrewriteFailed, PostRejected
  <2>2. phase = "doubt" => holder # i
    BY <1>7 DEF PrewriteFailed, PostRejected, DoubtIsHeld
  <2> QED
    BY <1>0, <1>7, <2>1, <2>2
       DEF PrewriteFailed, PostRejected, Rollback, MarkOrderRejected, DoubtIsHeld,
           RunningIsSafe, health, writer, TypeOK
<1>8. ASSUME NEW i \in Ids, MarkNotSent(i)
      PROVE  ModeInv'
  <2>1. InDoubt' \subseteq InDoubt
    <3>1. CASE Absorb(i, "REJECTED", 0, FALSE)
      BY <1>0, <3>1, AbsorbDoubtsNothing DEF OrderStatus, Terminal
    <3>2. CASE UNCHANGED book
      BY <3>2 DEF InDoubt, book
    <3> QED
      BY <1>8, <3>1, <3>2 DEF MarkNotSent
  <2>2. holder = None /\ phase' # "doubt"
    BY <1>8, IdsAssumption DEF MarkNotSent, DoubtIsHeld, writer
  <2> QED
    BY <1>8, <2>1, <2>2 DEF MarkNotSent, DoubtIsHeld, RunningIsSafe, health
<1>9. ASSUME NEW i \in Ids, MarkInDoubt(i)
      PROVE  ModeInv'
  <2>1. CASE orders[i].status \in {"SUBMITTED", "RECONCILING"}
    <3>1. Doubted(orders[i]).status = "RECONCILING"
      BY <1>0, DoubtType DEF BookType
    <3>2. orders'[i].status = "RECONCILING"
      BY <1>0, <1>9, <2>1, <3>1 DEF MarkInDoubt, BookType
    <3> QED
      BY <1>9, <2>1, <3>2 DEF MarkInDoubt, DoubtIsHeld, RunningIsSafe
  <2>2. CASE orders[i].status \notin {"SUBMITTED", "RECONCILING"}
    <3>1. phase # "doubt"
      BY <1>9, IdsAssumption DEF MarkInDoubt, DoubtIsHeld
    <3> QED
      BY <1>9, <2>2, <3>1 DEF MarkInDoubt, DoubtIsHeld, RunningIsSafe, InDoubt, writer
  <2> QED
    BY <2>1, <2>2
<1>10. ASSUME NEW i \in Ids, DoubtSaved(i) \/ DoubtSaveFailed(i)
       PROVE  ModeInv'
  <2>1. i \in InDoubt
    BY <1>10 DEF DoubtSaved, DoubtSaveFailed, DoubtIsHeld, InDoubt
  <2>2. mode' # "RUNNING"
    BY <1>10, <2>1 DEF DoubtSaved, DoubtSaveFailed, RunningIsSafe, health
  <2> QED
    BY <1>10, <2>2 DEF DoubtSaved, DoubtSaveFailed, DoubtIsHeld, RunningIsSafe
<1>11. ASSUME NEW i \in Ids, Watchdog(i) \/ CancelUnconfirmed(i)
       PROVE  ModeInv'
  <2>1. phase = "doubt" => holder # i
    BY <1>11 DEF Watchdog, CancelUnconfirmed, DoubtIsHeld
  <2> QED
    BY <1>0, <1>11, <2>1
       DEF Watchdog, CancelUnconfirmed, DoubtIsHeld, RunningIsSafe, writer, TypeOK
<1>12. ASSUME NEW i \in Ids,
              XchAccept(i) \/ XchCancel(i) \/ \E n \in 1..MaxQty : XchFill(i, n)
       PROVE  ModeInv'
  BY <1>12 DEF XchAccept, XchCancel, XchFill, DoubtIsHeld, RunningIsSafe, InDoubt,
               book, health, writer
<1>13. ASSUME NEW f \in stream, Deliver(f)
       PROVE  ModeInv'
  <2>1. f.id \in Ids /\ f.status \in OrderStatus \ {"RECONCILING"} /\ f.cum \in Nat
    BY <1>0 DEF TypeOK, Frame, OrderStatus, Working, Terminal
  <2>2. InDoubt' \subseteq InDoubt
    BY <1>0, <1>13, <2>1, AbsorbDoubtsNothing DEF Deliver
  <2> QED
    BY <1>13, <2>2 DEF Deliver, DoubtIsHeld, RunningIsSafe, health
<1>14. ASSUME DeliverForeign \/ BeginDrain \/ LinkBreaks \/ Heartbeat \/ Reconnected
       PROVE  ModeInv'
  <2>1. InDoubt' = InDoubt
    BY <1>14 DEF DeliverForeign, BeginDrain, LinkBreaks, Heartbeat, Reconnected, InDoubt,
                 book
  <2>2. DoubtIsHeld'
    BY <1>14 DEF DeliverForeign, BeginDrain, LinkBreaks, Heartbeat, Reconnected,
                 DoubtIsHeld, book, writer
  <2> QED
    BY <1>14, <2>1, <2>2
       DEF DeliverForeign, BeginDrain, LinkBreaks, Heartbeat, Reconnected, Rechecked,
           RunningIsSafe, health
<1>15. ASSUME Saving
       PROVE  ModeInv'
  <2>1. InDoubt' = InDoubt
    BY <1>15 DEF Saving, SaveCommitted, SaveRetried, SaveFailed, InDoubt, book
  <2>2. phase' # "doubt"
    BY <1>15 DEF Saving, SaveCommitted, SaveRetried, SaveFailed
  <2> QED
    BY <1>15, <2>1, <2>2
       DEF Saving, SaveCommitted, SaveRetried, SaveFailed, Rechecked, DoubtIsHeld,
           RunningIsSafe, health
<1>16. ASSUME ConnectionLost \/ FillSaveFailed
       PROVE  ModeInv'
  <2>1. WsDown
    BY <1>16 DEF ConnectionLost, FillSaveFailed
  <2>2. mode' # "RUNNING"
    BY <2>1 DEF WsDown
  <2>3. phase = "doubt" => orders'[holder].status = "RECONCILING"
    <3> SUFFICES ASSUME phase = "doubt"
                 PROVE  orders'[holder].status = "RECONCILING"
      OBVIOUS
    <3>1. holder \in Ids /\ orders[holder].status = "RECONCILING"
      BY DEF DoubtIsHeld
    <3>2. Doubted(orders[holder]).status = "RECONCILING"
      BY <1>0, <3>1, DoubtType DEF BookType
    <3> QED
      BY <2>1, <3>1, <3>2 DEF WsDown
  <2> QED
    BY <2>1, <2>2, <2>3 DEF WsDown, DoubtIsHeld, RunningIsSafe, writer
<1>17. CASE UNCHANGED vars
  BY <1>17 DEF vars, book, health, writer, DoubtIsHeld, RunningIsSafe, InDoubt
<1> QED
  BY <1>1, <1>2, <1>3, <1>4, <1>5, <1>6, <1>7, <1>8, <1>9, <1>10, <1>11, <1>12, <1>13,
     <1>14, <1>15, <1>16, <1>17
     DEF Next, Creation, Submission, Ids

(* The gate is safe when the daemon starts to trade.                           *)
LEMMA ModeInit == Init => ModeInv
  BY DEF Init, ModeInv, DoubtIsHeld, RunningIsSafe, InDoubt, NoOrder

(* Entries are admitted only in the mode RUNNING; in it nothing is in doubt,   *)
(* the stream is up and neither latch is set (engine.recheck_system_mode and   *)
(* every place that degrades the account), whatever interleaves.               *)
THEOREM GateIsSafe == Spec => []RunningIsSafe
<1>1. ModeInv => RunningIsSafe
  BY DEF ModeInv
<1>2. Spec => []ModeInv
  BY ModeInit, ModeStep, TypeInvariance, PTL DEF Spec
<1> QED
  BY <1>1, <1>2, PTL

-------------------------------------------------------------------------------
(* What the account may believe of the exchange.  The invariant speaks of one  *)
(* order at a time, and of the frames under way.                               *)
Taken == {"open", "filled", "canceled"}

OrderSound(i) ==
  /\ IF orders[i].status = "NONE"
     THEN orders[i] = NoOrder /\ call[i] = "idle" /\ xch[i] = [st |-> "none", cum |-> 0]
     ELSE /\ orders[i].batch \in Batches
          /\ orders[i].filled <= xch[i].cum
          /\ IsTerminal(orders[i]) =>
               /\ xch[i].st \in {"filled", "canceled", "refused", "lost"}
               /\ orders[i].filled = xch[i].cum
  /\ xch[i].cum <= orders[i].qty
  /\ xch[i].st \in {"none", "sent", "refused", "lost"} => xch[i].cum = 0
  /\ xch[i].st = "filled" => xch[i].cum = orders[i].qty
  /\ call[i] \in {"settings", "prewrite"} =>
       xch[i].st = "none" /\ orders[i].status \in Working
  /\ call[i] = "prewrite" => orders[i].status # "PENDING"
  /\ call[i] = "notSent" => xch[i].st = "lost"
  /\ call[i] = "refused" => xch[i].st = "refused"
  /\ call[i] \in {"post", "doubt"} => xch[i].st # "none"

FrameSound(f) ==
  /\ f.id \in Known /\ xch[f.id].st \in Taken
  /\ f.cum <= xch[f.id].cum
  /\ f.status = "FILLED"   => f.cum = orders[f.id].qty /\ xch[f.id].st = "filled"
  /\ f.status = "CANCELED" => f.cum = xch[f.id].cum /\ xch[f.id].st = "canceled"

(* The exchange invariant, read order by order.                                *)
LEMMA ByOrder ==
  ExchangeInv <=> (\A i \in Ids : OrderSound(i)) /\ (\A f \in stream : FrameSound(f))
<1>1. ExchangeInv => (\A i \in Ids : OrderSound(i)) /\ (\A f \in stream : FrameSound(f))
  BY DEF ExchangeInv, OrderSound, FrameSound, Taken, Known, UnknownIsFresh,
         ExchangeIsSound, CallsAreSound, FramesAreSound, NeverAheadOfExchange
<1>2. (\A i \in Ids : OrderSound(i)) /\ (\A f \in stream : FrameSound(f)) => ExchangeInv
  <2> SUFFICES ASSUME \A i \in Ids : OrderSound(i), \A f \in stream : FrameSound(f)
               PROVE  ExchangeInv
    OBVIOUS
  <2>1. UnknownIsFresh /\ NeverAheadOfExchange
    BY DEF OrderSound, UnknownIsFresh, NeverAheadOfExchange, Known
  <2>2. ExchangeIsSound /\ CallsAreSound
    BY DEF OrderSound, ExchangeIsSound, CallsAreSound
  <2>3. FramesAreSound
    BY DEF FrameSound, FramesAreSound, Taken
  <2> QED
    BY <2>1, <2>2, <2>3 DEF ExchangeInv
<1> QED
  BY <1>1, <1>2

(* The same of the next state.                                                 *)
LEMMA ByOrderNext ==
  ExchangeInv' <=> ((\A i \in Ids : OrderSound(i)) /\ (\A f \in stream : FrameSound(f)))'
  BY ByOrder, PTL

Only(i) == \A j \in Ids \ {i} :
             orders'[j] = orders[j] /\ call'[j] = call[j] /\ xch'[j] = xch[j]

(* A step about one order leaves the others sound, and the frames too unless   *)
(* it changes what they are compared with.                                     *)
LEMMA OneOrderSteps ==
  ASSUME TypeInv, ExchangeInv, NEW i \in Ids, Only(i), OrderSound(i)',
         stream' \subseteq stream,
         \/ xch[i].st \notin Taken
         \/ /\ xch'[i] = xch[i] /\ orders'[i].qty = orders[i].qty
            /\ orders'[i].status # "NONE"
  PROVE  ExchangeInv'
<1>1. \A j \in Ids \ {i} : OrderSound(j)'
  BY ByOrder DEF Only, OrderSound
<1>2. \A f \in stream' : FrameSound(f)'
  BY ByOrder DEF Only, FrameSound, Known, TypeInv, TypeOK, Frame
<1>3. (\A j \in Ids : OrderSound(j)') /\ (\A f \in stream' : FrameSound(f)')
  BY <1>1, <1>2
<1> QED
  BY <1>3, ByOrderNext

(* Absorbing news keeps an order sound, provided the news are old: a fill the  *)
(* exchange executed, or the end it came to with all it executed.              *)
LEMMA AbsorbSound ==
  ASSUME TypeInv, NEW i \in Ids, OrderSound(i), orders[i].status # "NONE",
         NEW new \in OrderStatus, NEW cum \in Nat, NEW acked \in BOOLEAN,
         Absorb(i, new, cum, acked), xch' = xch, call' \in [Ids -> CallPoint],
         call'[i] \in {call[i], "idle"}, xch[i].st # "none",
         cum <= xch[i].cum,
         new \in Terminal => /\ xch[i].st \in {"filled", "canceled", "refused", "lost"}
                             /\ cum = xch[i].cum
  PROVE  /\ OrderSound(i)'
         /\ \A j \in Ids \ {i} : orders'[j] = orders[j]
         /\ orders'[i].qty = orders[i].qty /\ orders'[i].status # "NONE"
<1> DEFINE o == orders[i]
           n == ApplyUpdate(o, new, cum, acked)
           c == Closed(n, n.status, i \in ExitIds /\ n.status \in {"CANCELED", "REJECTED"})
<1>1. o \in Order /\ o.filled <= o.qty /\ o.status \in OrderStatus
      /\ xch[i].cum \in Nat
  BY DEF TypeInv, TypeOK, FillsBounded, Order
<1>2. /\ n \in Order
      /\ n.batch = o.batch /\ n.qty = o.qty
      /\ o.filled <= n.filled /\ n.filled <= n.qty
      /\ cum <= n.filled \/ n.filled = n.qty
      /\ n.filled = o.filled \/ n.filled <= cum
      /\ IsTerminal(o) => n.status = o.status
      /\ n.status = o.status \/ n.status = new
  BY <1>1, ApplyUpdateType
<1>3. /\ c.batch = n.batch /\ c.qty = n.qty /\ c.filled = n.filled
      /\ c.status = n.status
  BY DEF Closed
<1>4. orders' = [orders EXCEPT ![i] = c]
  BY DEF Absorb
<1> HIDE DEF n, c
<1>5. orders'[i] = c /\ \A j \in Ids \ {i} : orders'[j] = orders[j]
  BY <1>4 DEF TypeInv, TypeOK
<1>6. o.filled \in Nat /\ o.qty \in Nat /\ n.filled \in Nat
  BY <1>1, <1>2 DEF Order
<1>7. n.status # "NONE" /\ o.batch \in Batches
  BY <1>1, <1>2 DEF OrderSound, OrderStatus, Working, Terminal
<1>8. n.filled <= xch[i].cum
  BY <1>1, <1>2, <1>6 DEF OrderSound
<1>9. n.status \in Terminal =>
        /\ xch[i].st \in {"filled", "canceled", "refused", "lost"}
        /\ n.filled = xch[i].cum
  <2>1. CASE o.status \in Terminal
    BY <1>1, <1>2, <1>6, <1>8, <2>1 DEF OrderSound, IsTerminal
  <2>2. CASE o.status \notin Terminal
    BY <1>1, <1>2, <1>6, <1>8, <2>2 DEF OrderSound
  <2> QED
    BY <2>1, <2>2
<1>10. call[i] \notin {"settings", "prewrite"}
  BY DEF OrderSound
<1>11. OrderSound(i)'
  BY <1>2, <1>3, <1>5, <1>7, <1>8, <1>9, <1>10 DEF OrderSound, IsTerminal
<1> QED
  BY <1>2, <1>3, <1>5, <1>7, <1>11

(* An order that was never sent leaves no trace when it is undone.             *)
LEMMA RollbackSound ==
  ASSUME TypeInv, NEW i \in Ids, OrderSound(i), xch[i].st = "none", Rollback(i),
         xch' = xch, call' = [call EXCEPT ![i] = "idle"]
  PROVE  OrderSound(i)' /\ Only(i)
<1>1. orders' = [orders EXCEPT ![i] = NoOrder]
  BY DEF Rollback
<1>2. orders'[i] = NoOrder /\ call'[i] = "idle" /\ Only(i)
  BY <1>1 DEF TypeInv, TypeOK, Only
<1>3. xch[i] = [st |-> "none", cum |-> 0]
  <2>1. xch[i] \in [st : XchStatus, cum : Nat] /\ xch[i].cum = 0
    BY DEF TypeInv, TypeOK, OrderSound
  <2> QED
    BY <2>1
<1>4. NoOrder.status = "NONE" /\ NoOrder.qty = 0
  BY DEF NoOrder
<1> QED
  BY <1>2, <1>3, <1>4 DEF OrderSound

(* Putting a working order in doubt changes nothing it is compared with.       *)
LEMMA DoubtSound ==
  ASSUME TypeInv, NEW i \in Ids, OrderSound(i), orders[i].status \in Working,
         orders'[i] = Doubted(orders[i]), xch'[i] = xch[i], call'[i] = call[i]
  PROVE  OrderSound(i)' /\ orders'[i].status # "NONE" /\ orders'[i].qty = orders[i].qty
<1>1. /\ Doubted(orders[i]).batch = orders[i].batch
      /\ Doubted(orders[i]).qty = orders[i].qty
      /\ Doubted(orders[i]).filled = orders[i].filled
      /\ Doubted(orders[i]).status = "RECONCILING"
  BY DoubtType DEF TypeInv, TypeOK
<1>2. orders[i].status # "NONE"
  BY DEF Working
<1> QED
  BY <1>1, <1>2 DEF OrderSound, IsTerminal, Terminal, Working

(* Every step keeps the account behind the exchange.                           *)
LEMMA ExchangeStep ==
  ASSUME TypeInv, ExchangeInv, [Next]_vars
  PROVE  ExchangeInv'
<1>0. /\ TypeOK /\ BookType
      /\ \A i \in Ids : OrderSound(i)
      /\ \A f \in stream : FrameSound(f)
      /\ Terminal \cap Working = {}
  BY ByOrder DEF TypeInv, TypeOK, BookType, Terminal, Working
<1>1. ASSUME NEW i \in EntryIds, NEW b \in Batches, NEW q \in 1..MaxQty,
             CreateEntry(i, b, q)
      PROVE  ExchangeInv'
  <2> DEFINE o == NewOrder(b, q)
  <2>1. o.status = "PENDING" /\ o.filled = 0 /\ o.qty = q /\ o.batch = b
    BY DEF NewOrder
  <2>2. i \in Ids /\ orders[i] = NoOrder /\ NoOrder.status = "NONE"
    BY <1>1 DEF Ids, CreateEntry, NoOrder
  <2>3. /\ orders' = [orders EXCEPT ![i] = o]
        /\ call' = [call EXCEPT ![i] = "settings"]
        /\ xch' = xch /\ stream' = stream
    BY <1>1 DEF CreateEntry, outside
  <2> HIDE DEF o
  <2>4. Only(i) /\ orders'[i] = o /\ call'[i] = "settings" /\ xch'[i] = xch[i]
    BY <1>0, <2>2, <2>3 DEF Only, TypeOK
  <2>5. xch[i].st = "none" /\ xch[i].cum = 0
    BY <1>0, <2>2 DEF OrderSound
  <2>6. OrderSound(i)'
    BY <2>1, <2>4, <2>5, QtyAssumption DEF OrderSound, IsTerminal, Terminal, Working
  <2> QED
    BY <2>2, <2>3, <2>4, <2>5, <2>6, OneOrderSteps DEF Taken
<1>2. ASSUME NEW i \in ExitIds, NEW b \in Batches, NEW q \in 1..MaxQty,
             CreateExit(i, b, q)
      PROVE  ExchangeInv'
  <2> DEFINE o == ApplyUpdate(NewOrder(b, q), "SUBMITTED", 0, FALSE)
  <2>1. o.status = "SUBMITTED" /\ o.filled = 0 /\ o.qty = q /\ o.batch = b
    BY DEF NewOrder, ApplyUpdate, IsTerminal, Terminal, STATUS_RANK, OrderStatus, Working
  <2>2. i \in Ids /\ orders[i] = NoOrder /\ NoOrder.status = "NONE"
    BY <1>2 DEF Ids, CreateExit, NoOrder
  <2>3. /\ orders' = [orders EXCEPT ![i] = o]
        /\ call' = [call EXCEPT ![i] = "prewrite"]
        /\ xch' = xch /\ stream' = stream
    BY <1>2 DEF CreateExit, outside
  <2> HIDE DEF o
  <2>4. Only(i) /\ orders'[i] = o /\ call'[i] = "prewrite" /\ xch'[i] = xch[i]
    BY <1>0, <2>2, <2>3 DEF Only, TypeOK
  <2>5. xch[i].st = "none" /\ xch[i].cum = 0
    BY <1>0, <2>2 DEF OrderSound
  <2>6. OrderSound(i)'
    BY <2>1, <2>4, <2>5, QtyAssumption DEF OrderSound, IsTerminal, Terminal, Working
  <2> QED
    BY <2>2, <2>3, <2>4, <2>5, <2>6, OneOrderSteps DEF Taken
<1>3. ASSUME NEW i \in Ids, SettingsDone(i)
      PROVE  ExchangeInv'
  <2> DEFINE o == ApplyUpdate(orders[i], "SUBMITTED", 0, FALSE)
  <2>1. orders[i].status \in Working /\ xch[i].st = "none" /\ orders[i] \in Order
        /\ orders[i].filled <= orders[i].qty
    BY <1>0, <1>3 DEF SettingsDone, OrderSound, TypeOK, TypeInv, FillsBounded
  <2>2. /\ o.batch = orders[i].batch /\ o.qty = orders[i].qty
        /\ o.filled = orders[i].filled
        /\ o.status \in Working \ {"PENDING"}
    BY <2>1 DEF ApplyUpdate, STATUS_RANK, OrderStatus, Working, Terminal, IsTerminal, Order
  <2>3. orders' = [orders EXCEPT ![i] = o] /\ call' = [call EXCEPT ![i] = "prewrite"]
        /\ xch' = xch /\ stream' = stream
    BY <1>3 DEF SettingsDone, outside
  <2> HIDE DEF o
  <2>4. Only(i) /\ orders'[i] = o /\ call'[i] = "prewrite" /\ xch'[i] = xch[i]
    BY <1>0, <2>3 DEF Only, TypeOK
  <2>5. orders[i].status # "NONE" /\ o.status # "NONE"
    BY <2>1, <2>2 DEF Working
  <2>6. OrderSound(i)'
    BY <1>0, <2>1, <2>2, <2>4, <2>5 DEF OrderSound, IsTerminal
  <2> QED
    BY <2>1, <2>3, <2>4, <2>6, OneOrderSteps DEF Taken
<1>4. ASSUME NEW i \in Ids, SettingsFailed(i) \/ PrewriteFailed(i)
      PROVE  ExchangeInv'
  <2>1. xch[i].st = "none"
    BY <1>0, <1>4 DEF SettingsFailed, PrewriteFailed, OrderSound
  <2>2. xch' = xch /\ stream' = stream /\ call' = [call EXCEPT ![i] = "idle"]
    BY <1>4 DEF SettingsFailed, PrewriteFailed, outside
  <2>3. OrderSound(i)' /\ Only(i)
    <3>1. CASE Rollback(i)
      BY <1>0, <2>1, <2>2, <3>1, RollbackSound
    <3>2. CASE UNCHANGED orders
      <4>1. call'[i] = "idle" /\ Only(i)
        BY <1>0, <2>2, <3>2 DEF TypeOK, Only
      <4> QED
        BY <1>0, <2>2, <3>2, <4>1 DEF OrderSound
    <3> QED
      BY <1>4, <3>1, <3>2 DEF SettingsFailed, PrewriteFailed, book
  <2> QED
    BY <2>1, <2>2, <2>3, OneOrderSteps DEF Taken
<1>5. ASSUME NEW i \in Ids, PrewriteDone(i)
      PROVE  ExchangeInv'
  <2>1. xch[i].st = "none" /\ orders[i].status \in Working /\ call[i] = "prewrite"
    BY <1>0, <1>5 DEF PrewriteDone, OrderSound
  <2>2. /\ orders' = orders /\ stream' = stream
        /\ call'[i] = "post" /\ xch'[i].st = "sent" /\ xch'[i].cum = xch[i].cum
        /\ Only(i)
    BY <1>0, <1>5 DEF PrewriteDone, book, TypeOK, Only
  <2>3. OrderSound(i)'
    BY <1>0, <2>1, <2>2 DEF OrderSound, IsTerminal, Working
  <2> QED
    BY <2>1, <2>2, <2>3, OneOrderSteps DEF Taken
<1>6. ASSUME NEW i \in Ids, PostRejected(i)
      PROVE  ExchangeInv'
  <2> DEFINE c == Closed(orders[i], "REJECTED", i \in ExitIds)
  <2>1. xch[i].st = "sent" /\ call[i] = "post"
    BY <1>6 DEF PostRejected
  <2>2. c.status = "REJECTED" /\ c.batch = orders[i].batch /\ c.qty = orders[i].qty
        /\ c.filled = orders[i].filled
    BY DEF Closed
  <2>3. orders' = [orders EXCEPT ![i] = c] /\ stream' = stream
    BY <1>6 DEF PostRejected, MarkOrderRejected
  <2> HIDE DEF c
  <2>4. /\ orders'[i] = c /\ call'[i] = "refused"
        /\ xch'[i].st = "refused" /\ xch'[i].cum = xch[i].cum
        /\ Only(i)
    BY <1>0, <1>6, <2>3 DEF PostRejected, TypeOK, Only
  <2>5. orders[i].filled \in Nat
    BY <1>0 DEF TypeOK, Order
  <2>6. OrderSound(i)'
    BY <1>0, <2>1, <2>2, <2>4, <2>5 DEF OrderSound
  <2> QED
    BY <2>1, <2>3, <2>4, <2>6, OneOrderSteps DEF Taken
<1>7. ASSUME NEW i \in Ids, PostNotSent(i)
      PROVE  ExchangeInv'
  <2>1. xch[i].st = "sent" /\ call[i] = "post"
    BY <1>7 DEF PostNotSent
  <2>2. /\ orders' = orders /\ stream' = stream
        /\ call'[i] = "notSent" /\ xch'[i].st = "lost" /\ xch'[i].cum = xch[i].cum
        /\ Only(i)
    BY <1>0, <1>7 DEF PostNotSent, book, TypeOK, Only
  <2>3. OrderSound(i)'
    BY <1>0, <2>1, <2>2 DEF OrderSound
  <2> QED
    BY <2>1, <2>2, <2>3, OneOrderSteps DEF Taken
<1>8. ASSUME NEW i \in Ids, PostAccepted(i) \/ PostUnknown(i) \/ RejectSaved(i)
                              \/ RejectSaveFailed(i) \/ DoubtSaved(i) \/ DoubtSaveFailed(i)
      PROVE  ExchangeInv'
  <2>1. /\ orders' = orders /\ stream' = stream /\ xch' = xch
        /\ \/ call'[i] = "idle"
           \/ call[i] = "post" /\ call'[i] = "doubt"
        /\ Only(i)
    BY <1>0, <1>8 DEF PostAccepted, PostUnknown, RejectSaved, RejectSaveFailed, DoubtSaved,
                      DoubtSaveFailed, book, outside, TypeOK, Only
  <2>2. OrderSound(i)'
    BY <1>0, <2>1 DEF OrderSound
  <2>3. xch[i].st \in Taken => orders[i].status # "NONE"
    BY <1>0 DEF OrderSound, Taken
  <2> QED
    BY <2>1, <2>2, <2>3, OneOrderSteps
<1>9. ASSUME NEW i \in Ids, MarkNotSent(i)
      PROVE  ExchangeInv'
  <2>1. /\ stream' = stream /\ xch' = xch /\ call' = [call EXCEPT ![i] = "idle"]
        /\ xch[i].st = "lost" /\ xch[i].cum = 0
        /\ orders[i].status # "NONE"
    BY <1>0, <1>9 DEF MarkNotSent, outside, OrderSound
  <2>2. call'[i] = "idle" /\ call' \in [Ids -> CallPoint]
        /\ \A j \in Ids \ {i} : call'[j] = call[j]
    BY <1>0, <2>1 DEF TypeOK, CallPoint
  <2>3. OrderSound(i)' /\ Only(i)
    <3>1. CASE Absorb(i, "REJECTED", 0, FALSE)
      <4>1. "REJECTED" \in OrderStatus /\ 0 \in Nat /\ FALSE \in BOOLEAN
        BY DEF OrderStatus, Terminal
      <4>2. /\ OrderSound(i) /\ xch[i].st # "none" /\ 0 <= xch[i].cum
            /\ xch[i].st \in {"filled", "canceled", "refused", "lost"} /\ 0 = xch[i].cum
            /\ call'[i] \in {call[i], "idle"}
        BY <1>0, <2>1, <2>2
      <4>3. OrderSound(i)' /\ \A j \in Ids \ {i} : orders'[j] = orders[j]
        BY <2>1, <2>2, <3>1, <4>1, <4>2, AbsorbSound
      <4> QED
        BY <2>1, <2>2, <4>3 DEF Only
    <3>2. CASE UNCHANGED orders
      BY <1>0, <2>1, <2>2, <3>2 DEF OrderSound, Only
    <3> QED
      BY <1>9, <3>1, <3>2 DEF MarkNotSent, book
  <2> QED
    BY <2>1, <2>3, OneOrderSteps DEF Taken
<1>10. ASSUME NEW i \in Ids, Watchdog(i) \/ CancelUnconfirmed(i)
       PROVE  ExchangeInv'
  <2>1. orders[i].status \in Working
    BY <1>10 DEF Watchdog, CancelUnconfirmed, Working
  <2>2. orders'[i] = Doubted(orders[i]) /\ Only(i)
        /\ stream' = stream /\ xch' = xch /\ call' = call
    BY <1>0, <1>10 DEF Watchdog, CancelUnconfirmed, Only, TypeOK, outside
  <2> QED
    BY <1>0, <2>1, <2>2, DoubtSound, OneOrderSteps
<1>11. ASSUME NEW i \in Ids, MarkInDoubt(i)
       PROVE  ExchangeInv'
  <2>1. stream' = stream /\ xch' = xch
    BY <1>11 DEF MarkInDoubt, outside
  <2>2. CASE orders[i].status \in {"SUBMITTED", "RECONCILING"}
    <3>1. orders[i].status \in Working
      BY <2>2 DEF Working
    <3>2. orders'[i] = Doubted(orders[i]) /\ Only(i) /\ call' = call
      BY <1>0, <1>11, <2>1, <2>2 DEF MarkInDoubt, Only, TypeOK
    <3> QED
      BY <1>0, <2>1, <3>1, <3>2, DoubtSound, OneOrderSteps
  <2>3. CASE orders[i].status \notin {"SUBMITTED", "RECONCILING"}
    <3>1. orders' = orders /\ call'[i] = "idle" /\ Only(i)
      BY <1>0, <1>11, <2>1, <2>3 DEF MarkInDoubt, Only, TypeOK
    <3>2. OrderSound(i)'
      BY <1>0, <2>1, <3>1 DEF OrderSound
    <3>3. xch[i].st \in Taken => orders[i].status # "NONE"
      BY <1>0 DEF OrderSound, Taken
    <3> QED
      BY <2>1, <3>1, <3>2, <3>3, OneOrderSteps
  <2> QED
    BY <2>2, <2>3
<1>12. ASSUME NEW i \in Ids, XchAccept(i)
       PROVE  ExchangeInv'
  <2> DEFINE g == [id |-> i, status |-> "OPEN", cum |-> 0]
  <2>1. /\ orders' = orders /\ call' = call /\ stream' \subseteq stream \cup {g}
        /\ xch[i].st = "sent" /\ xch'[i].st = "open" /\ xch'[i].cum = xch[i].cum
        /\ Only(i)
    BY <1>0, <1>12 DEF XchAccept, Emit, book, TypeOK, Only
  <2>2. /\ xch[i].cum = 0 /\ orders[i].status # "NONE"
        /\ orders[i].status \notin Terminal
    BY <1>0, <2>1 DEF OrderSound, IsTerminal
  <2>3. \A j \in Ids : OrderSound(j)'
    BY <1>0, <2>1, <2>2 DEF OrderSound, IsTerminal, Only
  <2>4. \A f \in stream : FrameSound(f)'
    BY <1>0, <2>1 DEF FrameSound, Taken, Known, Only, TypeOK, Frame
  <2>5. FrameSound(g)'
    BY <2>1, <2>2 DEF FrameSound, Taken, Known
  <2> QED
    BY <2>1, <2>3, <2>4, <2>5, ByOrderNext
<1>13. ASSUME NEW i \in Ids, NEW n \in 1..MaxQty, XchFill(i, n)
       PROVE  ExchangeInv'
  <2> DEFINE cum == xch[i].cum + n
             st  == IF cum = orders[i].qty THEN "filled" ELSE "open"
  <2> PICK g : g = [id |-> i, cum |-> cum,
                    status |-> IF cum = orders[i].qty THEN "FILLED"
                               ELSE "PARTIALLY_FILLED"]
    OBVIOUS
  <2>0. xch[i].cum \in Nat /\ orders[i].qty \in Nat /\ n \in Nat /\ orders[i].filled \in Nat
    BY <1>0, QtyAssumption DEF TypeOK, Order
  <2>1. /\ orders' = orders /\ call' = call /\ stream' \subseteq stream \cup {g}
        /\ xch[i].st = "open" /\ xch'[i].st = st /\ xch'[i].cum = cum
        /\ cum <= orders[i].qty /\ Only(i)
    <3>1. n <= orders[i].qty - xch[i].cum
      BY <1>13, <2>0 DEF XchFill
    <3>2. xch' = [xch EXCEPT ![i] = [st |-> st, cum |-> cum]]
      BY <1>13 DEF XchFill
    <3>3. orders' = orders /\ call' = call /\ stream' \subseteq stream \cup {g}
          /\ xch[i].st = "open"
      BY <1>13 DEF XchFill, Emit, book
    <3>4. cum <= orders[i].qty
      BY <2>0, <3>1
    <3> QED
      BY <1>0, <3>2, <3>3, <3>4 DEF Only, TypeOK
  <2>2. xch[i].cum <= cum /\ (st = "filled" => cum = orders[i].qty)
        /\ st \in {"open", "filled"}
    BY <2>0
  <2>3. orders[i].status # "NONE" /\ orders[i].status \notin Terminal
    BY <1>0, <2>1 DEF OrderSound, IsTerminal
  <2>4. FrameSound(g)'
    BY <2>0, <2>1, <2>3 DEF FrameSound, Taken, Known
  <2> HIDE DEF st, cum
  <2>5. OrderSound(i)'
    BY <1>0, <2>0, <2>1, <2>2, <2>3 DEF OrderSound, IsTerminal, cum
  <2>6. \A j \in Ids : OrderSound(j)'
    BY <1>0, <2>1, <2>5 DEF OrderSound, Only
  <2>7. \A f \in stream : FrameSound(f)'
    <3> SUFFICES ASSUME NEW f \in stream PROVE FrameSound(f)'
      OBVIOUS
    <3>1. FrameSound(f) /\ f.id \in Ids /\ f.cum \in Nat
      BY <1>0 DEF TypeOK, Frame
    <3>2. CASE f.id = i
      BY <2>0, <2>1, <2>2, <2>3, <3>1, <3>2 DEF FrameSound, Taken, Known, cum
    <3>3. CASE f.id # i
      BY <2>1, <3>1, <3>3 DEF FrameSound, Known, Only
    <3> QED
      BY <3>2, <3>3
  <2> QED
    BY <2>1, <2>4, <2>6, <2>7, ByOrderNext
<1>14. ASSUME NEW i \in Ids, XchCancel(i)
       PROVE  ExchangeInv'
  <2> DEFINE g == [id |-> i, status |-> "CANCELED", cum |-> xch[i].cum]
  <2>1. /\ orders' = orders /\ call' = call /\ stream' \subseteq stream \cup {g}
        /\ xch[i].st = "open" /\ xch'[i].st = "canceled" /\ xch'[i].cum = xch[i].cum
        /\ Only(i)
    BY <1>0, <1>14 DEF XchCancel, Emit, book, TypeOK, Only
  <2>2. orders[i].status # "NONE" /\ orders[i].status \notin Terminal
    BY <1>0, <2>1 DEF OrderSound, IsTerminal
  <2>3. \A j \in Ids : OrderSound(j)'
    BY <1>0, <2>1, <2>2 DEF OrderSound, IsTerminal, Only
  <2>4. \A f \in stream : FrameSound(f)'
    BY <1>0, <2>1 DEF FrameSound, Taken, Known, Only, TypeOK, Frame
  <2>5. xch[i].cum <= xch[i].cum
    BY <1>0 DEF TypeOK
  <2>6. FrameSound(g)'
    BY <2>1, <2>2, <2>5 DEF FrameSound, Taken, Known
  <2> QED
    BY <2>1, <2>3, <2>4, <2>6, ByOrderNext
<1>15. ASSUME NEW f \in stream, Deliver(f)
       PROVE  ExchangeInv'
  <2>1. /\ f.id \in Ids /\ f.cum \in Nat /\ TRUE \in BOOLEAN
        /\ f.status \in {"OPEN", "PARTIALLY_FILLED", "FILLED", "CANCELED"}
    BY <1>0 DEF TypeOK, Frame
  <2>2. FrameSound(f) /\ OrderSound(f.id)
    BY <1>0, <2>1
  <2>3. /\ xch' = xch /\ call' = call /\ call' \in [Ids -> CallPoint]
        /\ stream' \subseteq stream /\ Absorb(f.id, f.status, f.cum, TRUE)
    BY <1>0, <1>15 DEF Deliver, TypeOK
  <2>4. f.status \in OrderStatus
    BY <2>1 DEF OrderStatus, Terminal, Working
  <2>5. f.status \in Terminal =>
          /\ xch[f.id].st \in {"filled", "canceled", "refused", "lost"}
          /\ f.cum = xch[f.id].cum
    BY <2>1, <2>2 DEF FrameSound, OrderSound, Terminal
  <2>6. /\ orders[f.id].status # "NONE" /\ xch[f.id].st # "none"
        /\ f.cum <= xch[f.id].cum
    BY <2>2 DEF FrameSound, Known, Taken
  <2>7. /\ OrderSound(f.id)' /\ Only(f.id)
        /\ orders'[f.id].qty = orders[f.id].qty /\ orders'[f.id].status # "NONE"
    BY <2>1, <2>2, <2>3, <2>4, <2>5, <2>6, AbsorbSound DEF Only
  <2> QED
    BY <2>1, <2>3, <2>7, OneOrderSteps
<1>16. ASSUME \/ DeliverForeign \/ BeginDrain \/ LinkBreaks \/ Heartbeat \/ Reconnected
              \/ Saving \/ UNCHANGED vars \/ \E b \in Batches : BlockedExit(b)
       PROVE  ExchangeInv'
  <2>1. orders' = orders /\ call' = call /\ xch' = xch /\ stream' \subseteq stream
    BY <1>16 DEF DeliverForeign, BeginDrain, LinkBreaks, Heartbeat, Reconnected, Saving,
                 SaveCommitted, SaveRetried, SaveFailed, BlockedExit, vars, book, outside
  <2>2. \A i \in Ids : OrderSound(i)'
    BY <1>0, <2>1 DEF OrderSound
  <2>3. \A f \in stream' : FrameSound(f)'
    BY <1>0, <2>1 DEF FrameSound, Known
  <2> QED
    BY <2>2, <2>3, ByOrderNext
<1>17. ASSUME ConnectionLost \/ FillSaveFailed
       PROVE  ExchangeInv'
  <2>1. WsDown
    BY <1>17 DEF ConnectionLost, FillSaveFailed
  <2>2. stream' = {} /\ call' = call /\ xch' = xch
    BY <2>1 DEF WsDown
  <2>3. ASSUME NEW i \in Ids PROVE OrderSound(i)'
    <3>1. CASE orders'[i] = orders[i]
      BY <1>0, <2>2, <3>1 DEF OrderSound
    <3>2. CASE i \in Live /\ orders'[i] = Doubted(orders[i])
      BY <1>0, <2>2, <3>2, DoubtSound DEF Live
    <3> QED
      BY <2>1, <3>1, <3>2 DEF WsDown
  <2> QED
    BY <2>2, <2>3, ByOrderNext
<1> QED
  BY <1>1, <1>2, <1>3, <1>4, <1>5, <1>6, <1>7, <1>8, <1>9, <1>10, <1>11, <1>12, <1>13,
     <1>14, <1>15, <1>16, <1>17
     DEF Next, Creation, Submission

(* The account and the exchange start with nothing between them.               *)
LEMMA ExchangeInit == Init => ExchangeInv
<1> SUFFICES ASSUME Init PROVE ExchangeInv
  OBVIOUS
<1>1. NoOrder.status = "NONE" /\ NoOrder.qty = 0
  BY DEF NoOrder
<1>2. \A i \in Ids : OrderSound(i)
  BY <1>1 DEF Init, OrderSound
<1> QED
  BY <1>2, ByOrder DEF Init

(* The account never runs ahead of the exchange: it has absorbed no fill that  *)
(* did not happen, and no order it calls finished can trade again, however the *)
(* frames are reordered and whatever calls are lost (_apply_order_trade_update,*)
(* mark_order_rejected, mark_submission_not_sent).                             *)
THEOREM BehindTheExchange == Spec => []NeverAheadOfExchange
<1>1. ExchangeInv => NeverAheadOfExchange
  BY DEF ExchangeInv
<1>2. Spec => []ExchangeInv
  BY ExchangeInit, ExchangeStep, TypeInvariance, PTL DEF Spec
<1> QED
  BY <1>1, <1>2, PTL

-------------------------------------------------------------------------------
(* Locks and reservations.  First the arithmetic of one batch.                 *)

(* A working exit that ends gives back what it did not fill.                   *)
LEMMA ReleaseCounts ==
  ASSUME NEW b \in Batch, NEW o \in Order, NEW d \in Nat, ~o.released,
         o.filled <= o.qty, b.exiting = o.qty - o.filled + d
  PROVE  /\ ReleaseBatchReservation(o, b).exiting = d
         /\ ReleaseBatchReservation(o, b).qty = b.qty
  BY DEF Batch, Order, ReleaseBatchReservation, ReleaseExitReservation, Smaller, Above0

(* Fills of an exit are taken from the lots it reserved.                       *)
LEMMA ExitFillCounts ==
  ASSUME NEW b \in Batch, NEW d \in Nat, NEW done \in BOOLEAN,
         d <= b.exiting, b.exiting <= b.qty
  PROVE  /\ ExitFill(b, d, done).exiting = b.exiting - d
         /\ ExitFill(b, d, done).qty = b.qty - d
  BY DEF Batch, ExitFill, Above0

ReservationAt(b) == batches[b].exiting = Owed(b) /\ batches[b].exiting <= batches[b].qty

(* When one order ends, its lock is the one that is freed.                     *)
LEMMA LockFreed ==
  ASSUME TypeInv, LocksMatchOrders, NEW i \in Ids, ReleaseLock(i),
         \A j \in Ids \ {i} : orders'[j] = orders[j],
         orders'[i].status \notin Working
  PROVE  LocksMatchOrders'
<1>0. TypeOK /\ None \notin Ids
  BY IdsAssumption DEF TypeInv
<1>1. CASE i \in ExitIds
  <2>1. exitLock' = Unlock(exitLock, orders[i].batch, i) /\ entryLock' = entryLock
    BY <1>1 DEF ReleaseLock
  <2>2. ASSUME NEW j \in ExitIds, NEW b \in Batches
        PROVE  exitLock'[b] = j <=> j \in Live' /\ orders'[j].batch = b
    <3>0. j \in Ids /\ i # None /\ j # None
      BY <1>0 DEF Ids
    <3>1. exitLock[b] = i => orders[i].batch = b
      BY <1>1 DEF LocksMatchOrders
    <3>2. exitLock[b] = j <=> j \in Live /\ orders[j].batch = b
      BY <3>0 DEF LocksMatchOrders
    <3>3. CASE j = i
      BY <1>0, <2>1, <3>0, <3>1, <3>3 DEF Unlock, Live, TypeOK
    <3>4. CASE j # i
      BY <1>0, <2>1, <3>0, <3>2, <3>4 DEF Unlock, Live, TypeOK
    <3> QED
      BY <3>3, <3>4
  <2>3. ASSUME NEW j \in Ids \ ExitIds, NEW k \in Keys
        PROVE  entryLock'[k] = j <=> j \in Live' /\ KeyOf[orders'[j].batch] = k
    BY <1>1, <2>1, <2>3 DEF LocksMatchOrders, Live, KeyOfOrder
  <2> QED
    BY <2>2, <2>3 DEF LocksMatchOrders, KeyOfOrder
<1>2. CASE i \notin ExitIds
  <2>1. entryLock' = Unlock(entryLock, KeyOf[orders[i].batch], i) /\ exitLock' = exitLock
    BY <1>2 DEF ReleaseLock, KeyOfOrder
  <2>2. ASSUME NEW j \in Ids \ ExitIds, NEW k \in Keys
        PROVE  entryLock'[k] = j <=> j \in Live' /\ KeyOf[orders'[j].batch] = k
    <3>0. i # None /\ j # None
      BY <1>0
    <3>1. entryLock[k] = i => KeyOf[orders[i].batch] = k
      BY <1>2 DEF LocksMatchOrders, KeyOfOrder
    <3>2. entryLock[k] = j <=> j \in Live /\ KeyOf[orders[j].batch] = k
      BY DEF LocksMatchOrders, KeyOfOrder
    <3>3. CASE j = i
      BY <1>0, <2>1, <3>0, <3>1, <3>3 DEF Unlock, Live, TypeOK
    <3>4. CASE j # i
      BY <1>0, <2>1, <3>0, <3>2, <3>4 DEF Unlock, Live, TypeOK
    <3> QED
      BY <3>3, <3>4
  <2>3. ASSUME NEW j \in ExitIds, NEW b \in Batches
        PROVE  exitLock'[b] = j <=> j \in Live' /\ orders'[j].batch = b
    <3>1. j \in Ids /\ j # i
      BY <1>2 DEF Ids
    <3> QED
      BY <2>1, <3>1 DEF LocksMatchOrders, Live
  <2> QED
    BY <2>2, <2>3 DEF LocksMatchOrders, KeyOfOrder
<1> QED
  BY <1>1, <1>2

(* While no order starts or ends the locks stay right.                         *)
LEMMA LocksKept ==
  ASSUME TypeInv, LocksMatchOrders, UNCHANGED <<entryLock, exitLock>>,
         \A j \in Ids : /\ orders'[j].batch = orders[j].batch
                        /\ orders'[j].status \in Working <=> orders[j].status \in Working
  PROVE  LocksMatchOrders'
  BY DEF LocksMatchOrders, Live, KeyOfOrder

(* A batch whose working exit is not the order that changed keeps its balance. *)
LEMMA ReservedElsewhere ==
  ASSUME TypeInv, LocksMatchOrders, ReservationExact,
         NEW i \in Ids, \A j \in Ids \ {i} : orders'[j] = orders[j],
         NEW b \in Batches, ~(i \in ExitIds /\ i \in Live /\ orders[i].batch = b),
         batches'[b].exiting = batches[b].exiting, batches'[b].qty \in Nat,
         batches'[b].qty >= batches[b].qty, exitLock'[b] = exitLock[b]
  PROVE  ReservationAt(b)'
<1>1. exitLock[b] # i
  BY IdsAssumption DEF LocksMatchOrders, TypeInv, TypeOK, Ids
<1>2. exitLock[b] = None \/ exitLock[b] \in Ids \ {i}
  BY <1>1 DEF TypeInv, TypeOK, Ids
<1>3. Owed(b)' = Owed(b)
  BY <1>2 DEF Owed
<1>4. batches[b].exiting \in Nat /\ batches[b].qty \in Nat
  BY DEF TypeInv, TypeOK, Batch
<1> QED
  BY <1>3, <1>4 DEF ReservationExact, ReservationAt

(* An order that ends without any news frees its lock and its reservation.     *)
LEMMA EndedBook ==
  ASSUME TypeInv, BookInv, NEW i \in Live, orders[i].batch \in Batches,
         \/ Rollback(i)
         \/ MarkOrderRejected(i)
  PROVE  BookInv'
<1> DEFINE o == orders[i]
           c == Closed(o, "REJECTED", i \in ExitIds)
<1>0. /\ i \in Ids /\ o \in Order /\ o.filled <= o.qty /\ o.status \in Working
      /\ LocksMatchOrders /\ ReleasedWhenEnded /\ ReservationExact
      /\ i \in ExitIds \/ i \in EntryIds
  BY DEF TypeInv, TypeOK, FillsBounded, Live, BookInv, Ids
<1>1. \/ orders' = [orders EXCEPT ![i] = NoOrder]
      \/ orders' = [orders EXCEPT ![i] = c]
  BY DEF Rollback, MarkOrderRejected
<1>2. /\ NoOrder.status = "NONE"
      /\ c.status = "REJECTED" /\ (i \in ExitIds => c.released)
  BY DEF NoOrder, Closed
<1>3. batches' = Released(i, o) /\ ReleaseLock(i)
  BY DEF Rollback, MarkOrderRejected
<1> HIDE DEF c
<1>4. /\ \A j \in Ids \ {i} : orders'[j] = orders[j]
      /\ orders'[i].status \in {"NONE", "REJECTED"}
      /\ orders'[i].status = "REJECTED" /\ i \in ExitIds => orders'[i].released
  BY <1>0, <1>1, <1>2 DEF TypeInv, TypeOK
<1>5. LocksMatchOrders'
  BY <1>0, <1>3, <1>4, LockFreed DEF Working
<1>6. ReleasedWhenEnded'
  <2> SUFFICES ASSUME NEW j \in ExitIds
               PROVE  /\ orders'[j].status \in Working => ~orders'[j].released
                      /\ orders'[j].status \in {"CANCELED", "REJECTED"}
                           => orders'[j].released
    BY DEF ReleasedWhenEnded
  <2> QED
    BY <1>0, <1>4 DEF ReleasedWhenEnded, Ids, Working
<1>7. ASSUME NEW b \in Batches PROVE ReservationAt(b)'
  <2>1. CASE i \in ExitIds /\ b = o.batch
    <3>1. exitLock[b] = i /\ ~o.released
      BY <1>0, <2>1 DEF LocksMatchOrders, ReleasedWhenEnded
    <3>2. batches[b] \in Batch /\ batches[b].exiting = o.qty - o.filled + 0
      BY <1>0, <2>1, <3>1, IdsAssumption DEF ReservationExact, Owed, TypeInv, TypeOK, Order
    <3>3. batches'[b] = ReleaseBatchReservation(o, batches[b])
      BY <1>0, <1>3, <2>1 DEF Released, TypeInv, TypeOK
    <3>4. batches'[b].exiting = 0 /\ batches'[b].qty = batches[b].qty
      BY <1>0, <3>1, <3>2, <3>3, ReleaseCounts
    <3>5. exitLock'[b] = None
      BY <1>3, <2>1, <3>1 DEF ReleaseLock, Unlock, TypeInv, TypeOK
    <3>6. Owed(b)' = 0
      BY <3>5 DEF Owed
    <3> QED
      BY <3>2, <3>4, <3>6 DEF ReservationAt, Batch
  <2>2. CASE ~(i \in ExitIds /\ b = o.batch)
    <3>1. batches'[b] = batches[b]
      BY <1>3, <2>2 DEF Released, TypeInv, TypeOK
    <3>2. exitLock'[b] = exitLock[b]
      BY <1>3, <2>2 DEF ReleaseLock, Unlock, TypeInv, TypeOK
    <3>3. batches[b].qty \in Nat
      BY DEF TypeInv, TypeOK, Batch
    <3> QED
      BY <1>0, <1>4, <2>2, <3>1, <3>2, <3>3, ReservedElsewhere
  <2> QED
    BY <2>1, <2>2
<1>8. ReservationExact'
  BY <1>7 DEF ReservationExact, ReservationAt
<1> QED
  BY <1>5, <1>6, <1>8 DEF BookInv

(* News absorbed by an order keep locks and reservations right: fills come out *)
(* of the reservation, and an end returns the rest of it.                      *)
LEMMA AbsorbBook ==
  ASSUME TypeInv, BookInv, NEW i \in Ids, orders[i].batch \in Batches,
         orders[i].status # "NONE",
         NEW new \in OrderStatus, NEW cum \in Nat, NEW acked \in BOOLEAN,
         Absorb(i, new, cum, acked),
         new = "FILLED" => cum = orders[i].qty,
         IsTerminal(orders[i]) => cum <= orders[i].filled
  PROVE  BookInv'
<1> DEFINE o     == orders[i]
           n     == ApplyUpdate(o, new, cum, acked)
           delta == n.filled - o.filled
           gives == i \in ExitIds /\ n.status \in {"CANCELED", "REJECTED"}
           c     == Closed(n, n.status, gives)
           freed == IF gives THEN Released(i, n) ELSE batches
           done  == IsTerminal(n)
<1>0. /\ o \in Order /\ o.filled <= o.qty /\ o.status \in OrderStatus
      /\ LocksMatchOrders /\ ReleasedWhenEnded /\ ReservationExact
  BY DEF TypeInv, TypeOK, FillsBounded, BookInv, Order
<1>1. /\ n \in Order
      /\ n.batch = o.batch /\ n.qty = o.qty /\ n.released = o.released
      /\ o.filled <= n.filled /\ n.filled <= n.qty
      /\ cum <= n.filled \/ n.filled = n.qty
      /\ n.filled = o.filled \/ n.filled <= cum
      /\ IsTerminal(o) => n.status = o.status
      /\ n.status = o.status \/ n.status = new
  BY <1>0, ApplyUpdateType
<1>2. o.filled \in Nat /\ o.qty \in Nat /\ n.filled \in Nat /\ n.qty \in Nat
  BY <1>0, <1>1 DEF Order
<1>3. delta \in Nat /\ done \in BOOLEAN
  BY <1>1, <1>2 DEF IsTerminal
<1>4. c.status = n.status /\ c.qty = n.qty /\ c.filled = n.filled
      /\ c.batch = n.batch /\ c.released = (n.released \/ gives)
  BY DEF Closed
<1>5. /\ orders' = [orders EXCEPT ![i] = c]
      /\ batches' = IF delta = 0 THEN freed
                    ELSE [freed EXCEPT ![o.batch] =
                            IF i \in ExitIds THEN ExitFill(@, delta, done)
                            ELSE EntryFill(@, delta)]
      /\ done => ReleaseLock(i)
      /\ ~done => UNCHANGED <<entryLock, exitLock>>
  BY DEF Absorb
<1>6. /\ o.status \in Terminal => delta = 0 /\ n.status = o.status
      /\ o.status \in Working /\ n.status = "FILLED" => n.filled = n.qty
      /\ n.status \in OrderStatus
  BY <1>0, <1>1, <1>2 DEF IsTerminal, Working, Order, OrderStatus, Terminal
<1>7. done <=> n.status \in Terminal
  BY DEF IsTerminal
<1> HIDE DEF c, n, done
<1>8. orders'[i] = c /\ \A j \in Ids \ {i} : orders'[j] = orders[j]
  BY <1>5 DEF TypeInv, TypeOK
<1>9. LocksMatchOrders'
  <2>1. CASE done
    <3>1. c.status \notin Working
      BY <1>4, <1>7, <2>1 DEF Terminal, Working
    <3> QED
      BY <1>0, <1>5, <1>8, <2>1, <3>1, LockFreed
  <2>2. CASE ~done
    <3>1. n.status \in Working /\ o.status \in Working
      BY <1>0, <1>6, <1>7, <2>2 DEF OrderStatus
    <3> QED
      BY <1>0, <1>1, <1>4, <1>5, <1>8, <2>2, <3>1, LocksKept
  <2> QED
    BY <2>1, <2>2
<1>10. ReleasedWhenEnded'
  <2> SUFFICES ASSUME NEW j \in ExitIds
               PROVE  /\ orders'[j].status \in Working => ~orders'[j].released
                      /\ orders'[j].status \in {"CANCELED", "REJECTED"}
                           => orders'[j].released
    BY DEF ReleasedWhenEnded
  <2>1. CASE j = i
    <3>1. gives <=> n.status \in {"CANCELED", "REJECTED"}
      BY <2>1
    <3>2. n.status \in Working => ~o.released
      BY <1>0, <1>6, <2>1 DEF ReleasedWhenEnded, OrderStatus
    <3>3. n.status \in Working => n.status \notin {"CANCELED", "REJECTED"}
      BY DEF Working
    <3> HIDE DEF gives
    <3> QED
      BY <1>1, <1>4, <1>8, <2>1, <3>1, <3>2, <3>3
  <2>2. CASE j # i
    BY <1>0, <1>8, <2>2 DEF ReleasedWhenEnded, Ids
  <2> QED
    BY <2>1, <2>2
<1>11. ASSUME NEW b \in Batches PROVE ReservationAt(b)'
  <2>0. batches[b] \in Batch /\ batches[b].qty \in Nat /\ batches[b].exiting \in Nat
    BY DEF TypeInv, TypeOK, Batch
  <2>1. CASE i \in ExitIds /\ o.status \in Working /\ b = o.batch
    <3>1. i \in Live /\ exitLock[b] = i /\ ~n.released
      BY <1>0, <1>1, <2>1 DEF LocksMatchOrders, ReleasedWhenEnded, Live
    <3>2. batches[b].exiting = o.qty - o.filled /\ batches[b].exiting <= batches[b].qty
      BY <1>0, <2>1, <3>1, IdsAssumption DEF ReservationExact, Owed, Ids
    <3>3. batches[b].exiting = n.qty - n.filled + delta
      BY <1>1, <1>2, <3>2
    <3>4. freed[b] = IF gives THEN ReleaseBatchReservation(n, batches[b]) ELSE batches[b]
      BY <1>1, <2>1 DEF Released, TypeInv, TypeOK
    <3>5. /\ freed[b] \in Batch
          /\ freed[b].qty = batches[b].qty
          /\ freed[b].exiting = IF gives THEN delta ELSE n.qty - n.filled + delta
      <4>1. ReleaseBatchReservation(n, batches[b]) \in Batch
        BY <1>1, <2>0, ReleaseType
      <4>2. /\ ReleaseBatchReservation(n, batches[b]).exiting = delta
            /\ ReleaseBatchReservation(n, batches[b]).qty = batches[b].qty
        BY <1>1, <1>3, <2>0, <3>1, <3>3, ReleaseCounts
      <4> QED
        BY <2>0, <3>3, <3>4, <4>1, <4>2
    <3>6. freed[b].exiting <= freed[b].qty /\ delta <= freed[b].exiting
      BY <1>1, <1>2, <2>0, <3>2, <3>3, <3>5
    <3>7. batches'[b] = IF delta = 0 THEN freed[b] ELSE ExitFill(freed[b], delta, done)
      <4>1. freed \in [Batches -> Batch]
        BY <1>1, ReleasedType DEF TypeInv, TypeOK, BookType
      <4> HIDE DEF freed
      <4> QED
        BY <1>5, <2>1, <4>1
    <3>8. /\ batches'[b].exiting = freed[b].exiting - delta
          /\ batches'[b].qty = freed[b].qty - delta
      <4>1. freed[b].exiting \in Nat /\ freed[b].qty \in Nat
        BY <3>5 DEF Batch
      <4>2. /\ ExitFill(freed[b], delta, done).exiting = freed[b].exiting - delta
            /\ ExitFill(freed[b], delta, done).qty = freed[b].qty - delta
        BY <1>3, <3>5, <3>6, ExitFillCounts
      <4> QED
        BY <3>7, <4>1, <4>2
    <3>9. CASE done
      <4>1. exitLock'[b] = None
        BY <1>5, <2>1, <3>1, <3>9 DEF ReleaseLock, Unlock, TypeInv, TypeOK
      <4>2. Owed(b)' = 0
        BY <4>1 DEF Owed
      <4>3. gives \/ n.filled = n.qty
        BY <1>6, <1>7, <2>1, <3>9 DEF Terminal
      <4>4. batches'[b].exiting = 0
        BY <1>2, <1>3, <3>5, <3>8, <4>3
      <4>5. batches'[b].qty >= 0
        BY <1>3, <3>5, <3>6, <3>8 DEF Batch
      <4> QED
        BY <4>2, <4>4, <4>5 DEF ReservationAt
    <3>10. CASE ~done
      <4>1. exitLock'[b] = i /\ i # None
        BY <1>5, <3>1, <3>10, IdsAssumption DEF Ids
      <4>2. Owed(b)' = n.qty - n.filled
        BY <1>4, <1>8, <4>1 DEF Owed
      <4>3. ~gives
        BY <1>7, <3>10 DEF Terminal
      <4> HIDE DEF freed, gives, delta
      <4>4. freed[b].exiting \in Nat /\ freed[b].qty \in Nat
        BY <3>5 DEF Batch
      <4>5. batches'[b].exiting = n.qty - n.filled
        BY <1>2, <1>3, <3>5, <3>8, <4>3
      <4>6. batches'[b].exiting <= batches'[b].qty
        BY <1>3, <3>6, <3>8, <4>4
      <4> QED
        BY <4>2, <4>5, <4>6 DEF ReservationAt
    <3> QED
      BY <3>9, <3>10
  <2>2. CASE ~(i \in ExitIds /\ o.status \in Working /\ b = o.batch)
    <3>1. ~(i \in ExitIds /\ i \in Live /\ o.batch = b)
      BY <2>2 DEF Live
    <3>2. exitLock'[b] = exitLock[b]
      BY <1>0, <1>5, <3>1 DEF LocksMatchOrders, ReleaseLock, Unlock, TypeInv, TypeOK
    <3>3. batches'[b].exiting = batches[b].exiting /\ batches'[b].qty \in Nat
          /\ batches'[b].qty >= batches[b].qty
      <4>1. CASE i \in ExitIds
        <5>1. CASE o.batch = b
          <6>1. delta = 0 /\ n.status \in Terminal /\ n.status = o.status
            BY <1>0, <1>6, <2>2, <4>1, <5>1 DEF OrderStatus
          <6>2. gives => n.released
            BY <1>0, <1>1, <4>1, <6>1 DEF ReleasedWhenEnded
          <6>3. batches'[b] = batches[b]
            BY <1>5, <6>1, <6>2 DEF Released, ReleaseBatchReservation, TypeInv, TypeOK
          <6> QED
            BY <2>0, <6>3
        <5>2. CASE o.batch # b
          <6>1. batches'[b] = batches[b]
            BY <1>1, <1>5, <5>2 DEF Released, TypeInv, TypeOK
          <6> QED
            BY <2>0, <6>1
        <5> QED
          BY <5>1, <5>2
      <4>2. CASE i \notin ExitIds
        <5>1. batches' = IF delta = 0 THEN batches
                         ELSE [batches EXCEPT ![o.batch] = EntryFill(@, delta)]
          BY <1>5, <4>2
        <5>2. batches'[b] = batches[b] \/ batches'[b] = EntryFill(batches[b], delta)
          BY <5>1 DEF TypeInv, TypeOK
        <5>3. EntryFill(batches[b], delta).exiting = batches[b].exiting
              /\ EntryFill(batches[b], delta).qty = batches[b].qty + delta
          BY DEF EntryFill
        <5> QED
          BY <1>3, <2>0, <5>2, <5>3
      <4> QED
        BY <4>1, <4>2
    <3> QED
      BY <1>0, <1>8, <3>1, <3>2, <3>3, ReservedElsewhere
  <2> QED
    BY <2>1, <2>2
<1>12. ReservationExact'
  BY <1>11 DEF ReservationExact, ReservationAt
<1> QED
  BY <1>9, <1>10, <1>12 DEF BookInv

(* What locks and reservations depend on.                                      *)
SameShape ==
  /\ UNCHANGED <<entryLock, exitLock>>
  /\ \A b \in Batches : /\ batches'[b].exiting = batches[b].exiting
                        /\ batches'[b].qty = batches[b].qty
  /\ \A j \in Ids : /\ orders'[j].batch = orders[j].batch
                    /\ orders'[j].qty = orders[j].qty
                    /\ orders'[j].filled = orders[j].filled
                    /\ orders'[j].released = orders[j].released
                    /\ \/ orders'[j].status = orders[j].status
                       \/ orders'[j].status \in Working /\ orders[j].status \in Working

(* A step that changes none of it keeps the invariant.                         *)
LEMMA ShapeKept ==
  ASSUME TypeInv, BookInv, SameShape
  PROVE  BookInv'
<1>1. LocksMatchOrders'
  BY LocksKept DEF SameShape, BookInv
<1>2. ReleasedWhenEnded'
  BY DEF SameShape, BookInv, ReleasedWhenEnded, Ids, Working
<1>3. \A b \in Batches : Owed(b)' = Owed(b)
  BY DEF SameShape, Owed, TypeInv, TypeOK, Ids
<1>4. ReservationExact'
  BY <1>3 DEF SameShape, ReservationExact, BookInv
<1> QED
  BY <1>1, <1>2, <1>4 DEF BookInv

(* Putting working orders in doubt is such a step.                             *)
LEMMA DoubtKeepsShape ==
  ASSUME TypeInv, UNCHANGED <<batches, entryLock, exitLock>>,
         \A j \in Ids : \/ orders'[j] = orders[j]
                        \/ orders[j].status \in Working /\ orders'[j] = Doubted(orders[j])
  PROVE  SameShape
<1> SUFFICES ASSUME NEW j \in Ids
             PROVE  /\ orders'[j].batch = orders[j].batch
                    /\ orders'[j].qty = orders[j].qty
                    /\ orders'[j].filled = orders[j].filled
                    /\ orders'[j].released = orders[j].released
                    /\ \/ orders'[j].status = orders[j].status
                       \/ orders'[j].status \in Working /\ orders[j].status \in Working
  BY DEF SameShape
<1>1. orders[j] \in Order
  BY DEF TypeInv, TypeOK
<1> QED
  BY <1>1, DoubtType DEF Working

(* Every step keeps locks and reservations right.                              *)
LEMMA BookStep ==
  ASSUME TypeInv, ExchangeInv, BookInv, [Next]_vars
  PROVE  BookInv'
<1>0. /\ TypeOK /\ None \notin Ids
      /\ \A i \in Ids : OrderSound(i)
      /\ \A f \in stream : FrameSound(f)
      /\ LocksMatchOrders /\ ReleasedWhenEnded /\ ReservationExact
  BY ByOrder, IdsAssumption DEF TypeInv, BookInv
<1>1. ASSUME NEW i \in EntryIds, NEW b \in Batches, NEW q \in 1..MaxQty,
             CreateEntry(i, b, q)
      PROVE  BookInv'
  <2> DEFINE o == NewOrder(b, q)
  <2>1. o.status = "PENDING" /\ o.batch = b /\ "PENDING" \in Working
    BY DEF NewOrder, Working
  <2>2. /\ i \in Ids /\ i \notin ExitIds /\ i \notin Live /\ i # None
        /\ entryLock[KeyOf[b]] = None /\ KeyOf[b] \in Keys
    BY <1>0, <1>1, IdsAssumption, KeyAssumption
       DEF Ids, CreateEntry, NoOrder, Live, Working
  <2>3. orders' = [orders EXCEPT ![i] = o] /\ batches' = batches /\ exitLock' = exitLock
        /\ entryLock' = [entryLock EXCEPT ![KeyOf[b]] = i]
    BY <1>1 DEF CreateEntry
  <2> HIDE DEF o
  <2>4. orders'[i] = o /\ \A j \in Ids \ {i} : orders'[j] = orders[j]
    BY <1>0, <2>2, <2>3 DEF TypeOK
  <2>5. ASSUME NEW j \in Ids \ ExitIds, NEW k \in Keys
        PROVE  entryLock'[k] = j <=> j \in Live' /\ KeyOf[orders'[j].batch] = k
    <3>1. entryLock[k] = j <=> j \in Live /\ KeyOf[orders[j].batch] = k
      BY <1>0 DEF LocksMatchOrders, KeyOfOrder
    <3>2. CASE j = i
      BY <1>0, <2>1, <2>2, <2>3, <2>4, <3>1, <3>2 DEF Live, TypeOK
    <3>3. CASE j # i
      BY <1>0, <2>2, <2>3, <2>4, <3>1, <3>3 DEF Live, TypeOK
    <3> QED
      BY <3>2, <3>3
  <2>6. ASSUME NEW j \in ExitIds
        PROVE  j \in Ids /\ orders'[j] = orders[j]
    BY <2>2, <2>4 DEF Ids
  <2>7. LocksMatchOrders'
    BY <1>0, <2>3, <2>5, <2>6 DEF LocksMatchOrders, Live, KeyOfOrder
  <2>8. ReleasedWhenEnded'
    BY <1>0, <2>6 DEF ReleasedWhenEnded
  <2>9. ASSUME NEW c \in Batches PROVE ReservationAt(c)'
    <3>1. batches[c].qty \in Nat
      BY <1>0 DEF TypeOK, Batch
    <3> QED
      BY <1>0, <2>2, <2>3, <2>4, <3>1, ReservedElsewhere
  <2> QED
    BY <2>7, <2>8, <2>9 DEF BookInv, ReservationExact, ReservationAt
<1>2. ASSUME NEW i \in ExitIds, NEW b \in Batches, NEW q \in 1..MaxQty,
             CreateExit(i, b, q)
      PROVE  BookInv'
  <2> DEFINE o == ApplyUpdate(NewOrder(b, q), "SUBMITTED", 0, FALSE)
             r == Exiting(ReserveForExit(batches[b], q))
  <2>1. o.status = "SUBMITTED" /\ o.batch = b /\ o.qty = q /\ o.filled = 0 /\ ~o.released
        /\ "SUBMITTED" \in Working
    BY DEF NewOrder, ApplyUpdate, IsTerminal, Terminal, STATUS_RANK, OrderStatus, Working
  <2>2. /\ i \in Ids /\ i \notin Live /\ i # None
        /\ exitLock[b] = None /\ q \in Nat
    BY <1>0, <1>2, QtyAssumption DEF Ids, CreateExit, NoOrder, Live, Working
  <2>3. r.exiting = batches[b].exiting + q /\ r.qty = batches[b].qty
    BY DEF Exiting, ReserveForExit
  <2>4. orders' = [orders EXCEPT ![i] = o] /\ batches' = [batches EXCEPT ![b] = r]
        /\ entryLock' = entryLock /\ exitLock' = [exitLock EXCEPT ![b] = i]
        /\ q <= batches[b].qty - batches[b].exiting
    BY <1>2 DEF CreateExit, CanReserve
  <2> HIDE DEF o, r
  <2>5. orders'[i] = o /\ \A j \in Ids \ {i} : orders'[j] = orders[j]
    BY <1>0, <2>2, <2>4 DEF TypeOK
  <2>6. ASSUME NEW j \in ExitIds, NEW c \in Batches
        PROVE  exitLock'[c] = j <=> j \in Live' /\ orders'[j].batch = c
    <3>1. j \in Ids /\ (exitLock[c] = j <=> j \in Live /\ orders[j].batch = c)
      BY <1>0 DEF LocksMatchOrders, Ids
    <3>2. CASE j = i
      BY <1>0, <2>1, <2>2, <2>4, <2>5, <3>1, <3>2 DEF Live, TypeOK
    <3>3. CASE j # i
      BY <1>0, <2>2, <2>4, <2>5, <3>1, <3>3 DEF Live, TypeOK
    <3> QED
      BY <3>2, <3>3
  <2>7. LocksMatchOrders'
    BY <1>0, <1>2, <2>4, <2>5, <2>6 DEF LocksMatchOrders, Live, KeyOfOrder
  <2>8. ReleasedWhenEnded'
    <3> SUFFICES ASSUME NEW j \in ExitIds
                 PROVE  /\ orders'[j].status \in Working => ~orders'[j].released
                        /\ orders'[j].status \in {"CANCELED", "REJECTED"}
                             => orders'[j].released
      BY DEF ReleasedWhenEnded
    <3> QED
      BY <1>0, <2>1, <2>5 DEF ReleasedWhenEnded, Ids
  <2>9. ASSUME NEW c \in Batches PROVE ReservationAt(c)'
    <3>0. batches[c].qty \in Nat /\ batches[c].exiting \in Nat
      BY <1>0 DEF TypeOK, Batch
    <3>1. CASE c = b
      <4>1. batches[b].exiting = 0
        BY <1>0, <2>2 DEF ReservationExact, Owed
      <4>2. batches'[b] = r /\ exitLock'[b] = i
        BY <1>0, <2>4 DEF TypeOK
      <4>3. Owed(b)' = q
        BY <2>1, <2>2, <2>5, <4>2 DEF Owed
      <4> QED
        BY <2>2, <2>3, <2>4, <3>0, <3>1, <4>1, <4>2, <4>3 DEF ReservationAt
    <3>2. CASE c # b
      <4>1. batches'[c] = batches[c] /\ exitLock'[c] = exitLock[c]
        BY <1>0, <2>4, <3>2 DEF TypeOK
      <4> QED
        BY <1>0, <2>2, <2>5, <3>0, <4>1, ReservedElsewhere
    <3> QED
      BY <3>1, <3>2
  <2> QED
    BY <2>7, <2>8, <2>9 DEF BookInv, ReservationExact, ReservationAt
<1>3. ASSUME NEW b \in Batches, BlockedExit(b)
      PROVE  BookInv'
  <2>1. Exiting(batches[b]).qty = batches[b].qty
        /\ Exiting(batches[b]).exiting = batches[b].exiting
    BY DEF Exiting
  <2>2. SameShape
    BY <1>0, <1>3, <2>1 DEF BlockedExit, SameShape, TypeOK
  <2> QED
    BY <2>2, ShapeKept
<1>4. ASSUME NEW i \in Ids, SettingsDone(i)
      PROVE  BookInv'
  <2> DEFINE o == ApplyUpdate(orders[i], "SUBMITTED", 0, FALSE)
  <2>1. orders[i].status \in Working /\ orders[i].filled \in Nat
    BY <1>0, <1>4 DEF SettingsDone, OrderSound, TypeOK, Order
  <2>2. /\ o.batch = orders[i].batch /\ o.qty = orders[i].qty
        /\ o.filled = orders[i].filled /\ o.released = orders[i].released
        /\ o.status \in Working
    BY <2>1 DEF ApplyUpdate, Working
  <2>3. orders' = [orders EXCEPT ![i] = o] /\ UNCHANGED <<batches, entryLock, exitLock>>
    BY <1>4 DEF SettingsDone
  <2> HIDE DEF o
  <2>4. SameShape
    BY <1>0, <2>1, <2>2, <2>3 DEF SameShape, TypeOK
  <2> QED
    BY <2>4, ShapeKept
<1>5. ASSUME NEW i \in Ids, Rollback(i), call[i] \in {"settings", "prewrite"}
      PROVE  BookInv'
  <2>1. i \in Live /\ orders[i].batch \in Batches
    BY <1>0, <1>5 DEF OrderSound, Live, Working
  <2> QED
    BY <1>5, <2>1, EndedBook
<1>6. ASSUME NEW i \in Ids, PostRejected(i)
      PROVE  BookInv'
  <2>1. xch[i].st = "sent" /\ OrderSound(i) /\ orders[i] \in Order
    BY <1>0, <1>6 DEF PostRejected, TypeOK
  <2>2. i \in Live /\ orders[i].batch \in Batches
    BY <2>1 DEF OrderSound, Live, IsTerminal, Order, OrderStatus
  <2> QED
    BY <1>6, <2>2, EndedBook DEF PostRejected
<1>7. ASSUME NEW i \in Ids, MarkNotSent(i)
      PROVE  BookInv'
  <2>1. CASE UNCHANGED book
    BY <2>1, ShapeKept DEF book, SameShape
  <2>2. CASE Absorb(i, "REJECTED", 0, FALSE)
             /\ orders[i].status \in {"SUBMITTED", "RECONCILING"}
    <3>1. orders[i].batch \in Batches /\ orders[i].status # "NONE"
          /\ ~IsTerminal(orders[i])
      BY <1>0, <2>2 DEF OrderSound, IsTerminal, Terminal
    <3>2. "REJECTED" \in OrderStatus /\ 0 \in Nat /\ FALSE \in BOOLEAN
      BY DEF OrderStatus, Terminal
    <3> QED
      BY <2>2, <3>1, <3>2, AbsorbBook
  <2> QED
    BY <1>7, <2>1, <2>2 DEF MarkNotSent
<1>8. ASSUME NEW i \in Ids, Watchdog(i) \/ CancelUnconfirmed(i) \/ MarkInDoubt(i)
      PROVE  BookInv'
  <2>1. UNCHANGED <<batches, entryLock, exitLock>>
    BY <1>8 DEF Watchdog, CancelUnconfirmed, MarkInDoubt
  <2>2. \A j \in Ids : \/ orders'[j] = orders[j]
                       \/ orders[j].status \in Working /\ orders'[j] = Doubted(orders[j])
    BY <1>0, <1>8 DEF Watchdog, CancelUnconfirmed, MarkInDoubt, TypeOK, Working
  <2> QED
    BY <2>1, <2>2, DoubtKeepsShape, ShapeKept
<1>9. ASSUME ConnectionLost \/ FillSaveFailed
      PROVE  BookInv'
  <2>1. WsDown
    BY <1>9 DEF ConnectionLost, FillSaveFailed
  <2>2. UNCHANGED <<batches, entryLock, exitLock>>
        /\ \A j \in Ids : \/ orders'[j] = orders[j]
                          \/ orders[j].status \in Working /\ orders'[j] = Doubted(orders[j])
    BY <2>1 DEF WsDown, Live
  <2> QED
    BY <2>2, DoubtKeepsShape, ShapeKept
<1>10. ASSUME NEW f \in stream, Deliver(f)
       PROVE  BookInv'
  <2>1. /\ f.id \in Ids /\ f.cum \in Nat /\ TRUE \in BOOLEAN
        /\ f.status \in OrderStatus /\ FrameSound(f) /\ OrderSound(f.id)
    BY <1>0 DEF TypeOK, Frame, OrderStatus, Terminal, Working
  <2>2. /\ orders[f.id].status # "NONE" /\ orders[f.id].batch \in Batches
        /\ f.status = "FILLED" => f.cum = orders[f.id].qty
        /\ IsTerminal(orders[f.id]) => f.cum <= orders[f.id].filled
    BY <2>1 DEF FrameSound, OrderSound, Known
  <2> QED
    BY <1>10, <2>1, <2>2, AbsorbBook DEF Deliver
<1>11. ASSUME UNCHANGED book
       PROVE  BookInv'
  BY <1>11, ShapeKept DEF book, SameShape
<1>12. ASSUME NEW i \in Ids, SettingsFailed(i) \/ PrewriteFailed(i)
       PROVE  BookInv'
  BY <1>5, <1>11, <1>12 DEF SettingsFailed, PrewriteFailed
<1>13. ASSUME NEW i \in Ids,
              \/ PrewriteDone(i) \/ PostAccepted(i) \/ PostNotSent(i) \/ PostUnknown(i)
              \/ RejectSaved(i) \/ RejectSaveFailed(i) \/ DoubtSaved(i)
              \/ DoubtSaveFailed(i) \/ XchAccept(i) \/ XchCancel(i)
              \/ \E n \in 1..MaxQty : XchFill(i, n)
       PROVE  BookInv'
  <2>1. UNCHANGED book
    BY <1>13 DEF PrewriteDone, PostAccepted, PostNotSent, PostUnknown, RejectSaved,
                 RejectSaveFailed, DoubtSaved, DoubtSaveFailed, XchAccept, XchCancel,
                 XchFill
  <2> QED
    BY <1>11, <2>1
<1>14. ASSUME \/ DeliverForeign \/ BeginDrain \/ LinkBreaks \/ Heartbeat \/ Reconnected
              \/ Saving \/ UNCHANGED vars
       PROVE  BookInv'
  <2>1. UNCHANGED book
    BY <1>14 DEF DeliverForeign, BeginDrain, LinkBreaks, Heartbeat, Reconnected, Saving,
                 SaveCommitted, SaveRetried, SaveFailed, vars
  <2> QED
    BY <1>11, <2>1
<1> QED
  BY <1>1, <1>2, <1>3, <1>4, <1>6, <1>7, <1>8, <1>9, <1>10, <1>12, <1>13, <1>14
     DEF Next, Creation, Submission

(* At the start nothing is locked and nothing reserved.                        *)
LEMMA BookInit == Init => BookInv
<1> SUFFICES ASSUME Init PROVE BookInv
  OBVIOUS
<1>1. \A i \in Ids : orders[i].status = "NONE" /\ i \notin Live
  BY DEF Init, NoOrder, Live, Working
<1>2. LocksMatchOrders /\ ReleasedWhenEnded
  BY <1>1, IdsAssumption DEF Init, LocksMatchOrders, ReleasedWhenEnded, Ids, Working
<1>3. ReservationExact
  <2> SUFFICES ASSUME NEW b \in Batches PROVE ReservationAt(b)
    BY DEF ReservationExact, ReservationAt
  <2>1. batches[b].exiting = 0 /\ batches[b].qty \in Nat /\ exitLock[b] = None
    BY StartAssumption DEF Init, NoBatch
  <2> QED
    BY <2>1 DEF ReservationAt, Owed
<1> QED
  BY <1>2, <1>3 DEF BookInv

(* Locks, reservations and orders agree in every reachable state.              *)
LEMMA BookInvariance == Spec => [](LocksMatchOrders /\ ReservationExact)
<1>1. BookInv => LocksMatchOrders /\ ReservationExact
  BY DEF BookInv
<1>2. Spec => []ExchangeInv
  BY ExchangeInit, ExchangeStep, TypeInvariance, PTL DEF Spec
<1>3. Spec => []BookInv
  BY <1>2, BookInit, BookStep, TypeInvariance, PTL DEF Spec
<1> QED
  BY <1>1, <1>3, PTL

(* An order holds the lock of its kind exactly while it works, so there is one *)
(* entry per key and one exit per batch, whatever ends an order: a frame, a    *)
(* refusal, a rollback (active_entry_orders, active_exit_orders).              *)
THEOREM OneOrderPerLock == Spec => []LocksMatchOrders
  BY BookInvariance, PTL

(* The lots a batch keeps back are exactly what its working exit has not sold, *)
(* and never more than it holds: no path releases a reservation twice or       *)
(* forgets it (reserve_for_exit, release_batch_reservation, fills).            *)
THEOREM ReservationsBalance == Spec => []ReservationExact
  BY BookInvariance, PTL

-------------------------------------------------------------------------------
(* What the pieces of the actions do to one order.                             *)

Others(i) == \A j \in Ids \ {i} : orders'[j] = orders[j]

(* News change one order: its fill grows, a final status stays, and a final    *)
(* status in the news is taken over.                                           *)
LEMMA AbsorbMoves ==
  ASSUME TypeInv, NEW i \in Ids, orders[i].status # "NONE",
         NEW new \in OrderStatus, NEW cum \in Nat, NEW acked \in BOOLEAN,
         Absorb(i, new, cum, acked)
  PROVE  /\ Others(i)
         /\ orders'[i].batch = orders[i].batch /\ orders'[i].qty = orders[i].qty
         /\ orders[i].filled <= orders'[i].filled
         /\ cum <= orders'[i].filled \/ orders'[i].filled = orders[i].qty
         /\ IsTerminal(orders[i]) => orders'[i].status = orders[i].status
         /\ new \in Terminal => orders'[i].status \in Terminal
         /\ orders'[i].status = orders[i].status \/ orders'[i].status = new
         /\ orders'[i].filled \in Nat
<1> DEFINE o == orders[i]
           n == ApplyUpdate(o, new, cum, acked)
           c == Closed(n, n.status, i \in ExitIds /\ n.status \in {"CANCELED", "REJECTED"})
<1>1. o \in Order /\ o.filled <= o.qty /\ o.status \in OrderStatus
  BY DEF TypeInv, TypeOK, FillsBounded, Order
<1>2. /\ n \in Order
      /\ n.batch = o.batch /\ n.qty = o.qty /\ n.released = o.released
      /\ o.filled <= n.filled /\ n.filled <= n.qty
      /\ cum <= n.filled \/ n.filled = n.qty
      /\ n.filled = o.filled \/ n.filled <= cum
      /\ IsTerminal(o) => n.status = o.status
      /\ n.status = o.status \/ n.status = new
  BY <1>1, ApplyUpdateType
<1>3. new \in Terminal => n.status \in Terminal
  <2>1. CASE o.status \in Terminal
    BY <1>2, <2>1 DEF IsTerminal
  <2>2. CASE o.status \notin Terminal
    <3>1. o.status \in Working
      BY <1>1, <2>2 DEF OrderStatus
    <3>2. new \in Terminal => STATUS_RANK[new] = 4
      BY DEF STATUS_RANK, Terminal, OrderStatus
    <3>3. STATUS_RANK[o.status] \in 0..3
      BY <3>1 DEF STATUS_RANK, Working, OrderStatus
    <3>4. new \in Terminal => n.status = new
      BY <2>2, <3>2, <3>3 DEF ApplyUpdate, IsTerminal
    <3> QED
      BY <3>4
  <2> QED
    BY <2>1, <2>2
<1>4. /\ c.batch = n.batch /\ c.qty = n.qty /\ c.filled = n.filled
      /\ c.status = n.status
  BY DEF Closed
<1>5. orders' = [orders EXCEPT ![i] = c]
  BY DEF Absorb
<1> HIDE DEF n, c
<1>6. orders'[i] = c /\ Others(i)
  BY <1>5 DEF TypeInv, TypeOK, Others
<1>7. n.filled \in Nat
  BY <1>2 DEF Order
<1> QED
  BY <1>2, <1>3, <1>4, <1>6, <1>7

-------------------------------------------------------------------------------
(* What the exchange did is known, or a frame says so that is still to be read. *)
Told(i) ==
  xch[i].st \in Taken =>
    /\ \/ orders[i].filled = xch[i].cum
       \/ \E f \in stream : f.id = i /\ f.cum = xch[i].cum
    /\ xch[i].st # "open" =>
         \/ IsTerminal(orders[i])
         \/ \E f \in stream : f.id = i /\ f.status \in {"FILLED", "CANCELED"}

(* While the stream is down and no gap latched, no order works: that is when   *)
(* on_ws_status_change need not latch one.                                     *)
NewsInv ==
  /\ ws /\ link = "up" /\ ~gap => \A i \in Ids : Told(i)
  /\ ~ws /\ ~gap => Live = {}
  /\ ~ws => link = "down"

(* A step that hears nothing and drops no frame keeps what is told told.       *)
Quiet ==
  /\ UNCHANGED <<ws, link, gap>> /\ stream \subseteq stream'
  /\ ws \/ Live' \subseteq Live
  /\ \A i \in Ids :
       /\ xch'[i] = xch[i] \/ xch'[i].st \notin Taken
       /\ xch[i].st \in Taken => /\ orders'[i].filled = orders[i].filled
                                 /\ IsTerminal(orders[i]) => IsTerminal(orders'[i])

LEMMA QuietStep ==
  ASSUME NewsInv, Quiet
  PROVE  NewsInv'
<1>1. ASSUME NEW i \in Ids, Told(i) PROVE Told(i)'
  <2>1. CASE xch'[i] = xch[i]
    BY <1>1, <2>1 DEF Quiet, Told
  <2>2. CASE xch'[i].st \notin Taken
    BY <2>2 DEF Told
  <2> QED
    BY <2>1, <2>2 DEF Quiet
<1>2. ~ws /\ ~gap => Live' = {}
  BY DEF NewsInv, Quiet
<1> QED
  BY <1>1, <1>2 DEF NewsInv, Quiet

(* A step that leaves orders, exchange and stream alone is quiet.              *)
LEMMA StillStep ==
  ASSUME NewsInv, UNCHANGED <<orders, ws, gap, link, stream, xch>>
  PROVE  NewsInv'
<1>1. Live' = Live
  BY DEF Live
<1>2. Quiet
  BY <1>1 DEF Quiet
<1> QED
  BY <1>2, QuietStep

(* Putting working orders in doubt is quiet.                                   *)
LEMMA DoubtIsQuiet ==
  ASSUME TypeInv, UNCHANGED <<ws, link, gap, stream, xch>>,
         \A j \in Ids : \/ orders'[j] = orders[j]
                        \/ orders[j].status \in Working /\ orders'[j] = Doubted(orders[j])
  PROVE  Quiet
<1>1. ASSUME NEW j \in Ids
      PROVE  /\ orders'[j].filled = orders[j].filled
             /\ IsTerminal(orders[j]) => IsTerminal(orders'[j])
             /\ orders'[j].status \in Working => orders[j].status \in Working
  <2>1. orders[j] \in Order
    BY DEF TypeInv, TypeOK
  <2>2. Doubted(orders[j]).filled = orders[j].filled
    BY <2>1, DoubtType
  <2> QED
    BY <2>2 DEF IsTerminal, Working, Terminal
<1>2. Live' \subseteq Live
  BY <1>1 DEF Live
<1> QED
  BY <1>1, <1>2 DEF Quiet

(* So is what happens to an order the exchange never took.                     *)
LEMMA UntakenIsQuiet ==
  ASSUME UNCHANGED <<ws, link, gap, stream>>, NEW i \in Ids, Others(i),
         xch[i].st \notin Taken, xch'[i].st \notin Taken,
         \A j \in Ids \ {i} : xch'[j] = xch[j],
         ws \/ (orders'[i].status \in Working => orders[i].status \in Working)
  PROVE  Quiet
<1>1. ws \/ Live' \subseteq Live
  BY DEF Live, Others
<1> QED
  BY <1>1 DEF Quiet, Others

(* A frame that is read is replaced by what it said.                           *)
LEMMA DeliverTells ==
  ASSUME TypeInv, ExchangeInv, NewsInv, NEW f \in stream, Deliver(f)
  PROVE  NewsInv'
<1> DEFINE i == f.id
<1>0. /\ TypeOK /\ i \in Ids /\ f.cum \in Nat /\ f.status \in OrderStatus /\ TRUE \in BOOLEAN
      /\ FrameSound(f) /\ OrderSound(i)
  BY ByOrder DEF TypeInv, TypeOK, Frame, OrderStatus, Terminal, Working
<1>1. /\ orders[i].status # "NONE" /\ xch[i].st \in Taken /\ xch[i].cum \in Nat
      /\ f.cum <= xch[i].cum /\ xch[i].cum <= orders[i].qty
      /\ orders[i].filled \in Nat /\ orders[i].qty \in Nat
  BY <1>0 DEF FrameSound, OrderSound, Known, TypeOK, Order
<1>2. /\ Absorb(i, f.status, f.cum, TRUE)
      /\ UNCHANGED <<ws, gap, link, call, xch>> /\ stream' = stream \ {f} /\ ws
  BY DEF Deliver, health
<1>3. /\ Others(i)
      /\ orders[i].filled <= orders'[i].filled
      /\ f.cum <= orders'[i].filled \/ orders'[i].filled = orders[i].qty
      /\ IsTerminal(orders[i]) => orders'[i].status = orders[i].status
      /\ f.status \in Terminal => orders'[i].status \in Terminal
      /\ orders'[i].filled \in Nat
  BY <1>0, <1>1, <1>2, AbsorbMoves
<1>4. orders'[i].filled <= xch[i].cum
  <2>1. ExchangeInv'
    BY ExchangeStep DEF Next
  <2>2. OrderSound(i)'
    BY <1>0, <2>1, ByOrderNext
  <2>3. xch'[i].cum = xch[i].cum /\ xch'[i].st \in Taken
    BY <1>1, <1>2
  <2> QED
    BY <2>2, <2>3 DEF OrderSound, Taken
<1>5. ASSUME NEW j \in Ids, Told(j) PROVE Told(j)'
  <2>1. CASE j # i
    <3>1. \A g \in stream : g.id = j => g \in stream'
      BY <1>2, <2>1
    <3> QED
      BY <1>2, <1>3, <1>5, <2>1, <3>1 DEF Told, Others
  <2>2. CASE j = i
    <3>1. ASSUME NEW g \in stream, g.cum = xch[i].cum, g.id = i
          PROVE  orders'[i].filled = xch[i].cum \/ g \in stream'
      BY <1>1, <1>2, <1>3, <1>4, <3>1
    <3>2. ASSUME NEW g \in stream, g.status \in {"FILLED", "CANCELED"}, g.id = i
          PROVE  orders'[i].status \in Terminal \/ g \in stream'
      BY <1>2, <1>3, <3>2 DEF Terminal
    <3>3. orders[i].filled = xch[i].cum => orders'[i].filled = xch[i].cum
      BY <1>1, <1>3, <1>4
    <3>4. \/ orders'[i].filled = xch[i].cum
          \/ \E g \in stream' : g.id = i /\ g.cum = xch[i].cum
      BY <1>1, <1>5, <2>2, <3>1, <3>3 DEF Told
    <3>5. xch[i].st # "open" =>
            \/ IsTerminal(orders'[i])
            \/ \E g \in stream' : g.id = i /\ g.status \in {"FILLED", "CANCELED"}
      BY <1>1, <1>3, <1>5, <2>2, <3>2 DEF Told, IsTerminal
    <3> HIDE DEF i
    <3> QED
      BY <1>2, <2>2, <3>4, <3>5 DEF Told
  <2> QED
    BY <2>1, <2>2
<1> QED
  BY <1>2, <1>5 DEF NewsInv

(* What the exchange does next it tells, as long as the link carries it.       *)
LEMMA ExchangeTells ==
  ASSUME TypeInv, ExchangeInv, NewsInv, NEW i \in Ids,
         XchAccept(i) \/ XchCancel(i) \/ \E n \in 1..MaxQty : XchFill(i, n)
  PROVE  NewsInv'
<1>0. TypeOK /\ OrderSound(i) /\ xch[i] \in [st : XchStatus, cum : Nat]
  BY ByOrder DEF TypeInv, TypeOK
<1>1. /\ UNCHANGED <<orders, ws, gap, link>>
      /\ \A j \in Ids \ {i} : xch'[j] = xch[j]
      /\ link = "up" => stream \subseteq stream'
  <2>1. CASE XchAccept(i)
    BY <1>0, <2>1 DEF XchAccept, Emit, book, health, TypeOK
  <2>2. CASE XchCancel(i)
    BY <1>0, <2>2 DEF XchCancel, Emit, book, health, TypeOK
  <2>3. ASSUME NEW n \in 1..MaxQty, XchFill(i, n)
        PROVE  /\ UNCHANGED <<orders, ws, gap, link>>
               /\ \A j \in Ids \ {i} : xch'[j] = xch[j]
               /\ link = "up" => stream \subseteq stream'
    BY <1>0, <2>3 DEF XchFill, Emit, book, health, TypeOK
  <2> QED
    BY <2>1, <2>2, <2>3
<1>2. ASSUME link = "up" PROVE Told(i)'
  <2>1. CASE XchAccept(i)
    <3>1. xch'[i].st = "open" /\ xch'[i].cum = 0
      BY <1>0, <2>1 DEF XchAccept, OrderSound, TypeOK
    <3>2. orders[i].filled = 0
      BY <1>0, <2>1 DEF XchAccept, OrderSound, TypeOK, Order, NoOrder
    <3> QED
      BY <1>1, <3>1, <3>2 DEF Told
  <2>2. CASE XchCancel(i)
    <3> DEFINE g == [id |-> i, status |-> "CANCELED", cum |-> xch[i].cum]
    <3>1. xch'[i].cum = xch[i].cum
      BY <1>0, <2>2 DEF XchCancel, TypeOK
    <3>2. g \in stream' /\ g.id = i /\ g.cum = xch'[i].cum /\ g.status = "CANCELED"
      BY <1>2, <2>2, <3>1 DEF XchCancel, Emit
    <3> QED
      BY <3>2 DEF Told
  <2>3. ASSUME NEW n \in 1..MaxQty, XchFill(i, n) PROVE Told(i)'
    <3> DEFINE cum  == xch[i].cum + n
               full == cum = orders[i].qty
               g == [id |-> i, status |-> IF full THEN "FILLED" ELSE "PARTIALLY_FILLED",
                     cum |-> cum]
    <3>1. xch'[i].cum = cum /\ xch'[i].st = IF full THEN "filled" ELSE "open"
      BY <1>0, <2>3 DEF XchFill, TypeOK
    <3>2. g \in stream'
      BY <1>2, <2>3 DEF XchFill, Emit
    <3>3. g.id = i /\ g.cum = cum /\ (full => g.status = "FILLED")
      OBVIOUS
    <3> HIDE DEF g, cum
    <3> QED
      BY <3>1, <3>2, <3>3 DEF Told
  <2> QED
    BY <2>1, <2>2, <2>3
<1>3. ASSUME NEW j \in Ids \ {i}, Told(j), link = "up" PROVE Told(j)'
  BY <1>1, <1>3 DEF Told
<1>4. Live' = Live
  BY <1>1 DEF Live
<1> QED
  BY <1>1, <1>2, <1>3, <1>4 DEF NewsInv

(* Every step keeps the account told.                                          *)
LEMMA NewsStep ==
  ASSUME TypeInv, ExchangeInv, NewsInv, [Next]_vars
  PROVE  NewsInv'
<1>0. /\ TypeOK /\ \A i \in Ids : OrderSound(i)
      /\ "none" \notin Taken /\ "sent" \notin Taken /\ "lost" \notin Taken
      /\ "refused" \notin Taken
  BY ByOrder DEF TypeInv, Taken
<1>1. ASSUME NEW i \in Ids, NEW b \in Batches, NEW q \in 1..MaxQty,
             CreateEntry(i, b, q) \/ CreateExit(i, b, q)
      PROVE  NewsInv'
  <2>1. orders[i] = NoOrder /\ NoOrder.status = "NONE"
    BY <1>1 DEF CreateEntry, CreateExit, NoOrder
  <2>2. xch[i].st = "none" /\ ws
    <3>1. xch[i] = [st |-> "none", cum |-> 0]
      BY <1>0, <2>1 DEF OrderSound
    <3>2. ws
      BY <1>1 DEF CreateEntry, CreateExit, CanSubmitEntry, CanSubmitExit
    <3> QED
      BY <3>1, <3>2
  <2>3. Others(i) /\ UNCHANGED <<ws, link, gap, stream, xch>>
    BY <1>0, <1>1 DEF CreateEntry, CreateExit, Others, TypeOK, health, outside
  <2> QED
    BY <1>0, <2>2, <2>3, UntakenIsQuiet, QuietStep
<1>2. ASSUME NEW i \in Ids, SettingsDone(i) \/ SettingsFailed(i) \/ PrewriteFailed(i)
      PROVE  NewsInv'
  <2>1. xch[i].st = "none"
    BY <1>0, <1>2 DEF SettingsDone, SettingsFailed, PrewriteFailed, OrderSound
  <2>2. Others(i) /\ UNCHANGED <<ws, link, gap, stream, xch>>
    BY <1>0, <1>2 DEF SettingsDone, SettingsFailed, PrewriteFailed, Rollback, Others, TypeOK,
       health, outside, book
  <2>3. ws \/ (orders'[i].status \in Working => orders[i].status \in Working)
    <3>1. CASE SettingsDone(i)
      BY <3>1 DEF SettingsDone, CanSubmitEntry
    <3>2. CASE Rollback(i)
      BY <1>0, <3>2 DEF Rollback, NoOrder, Working, TypeOK
    <3>3. CASE UNCHANGED book
      BY <3>3 DEF book
    <3> QED
      BY <1>2, <3>1, <3>2, <3>3 DEF SettingsFailed, PrewriteFailed
  <2> QED
    BY <1>0, <2>1, <2>2, <2>3, UntakenIsQuiet, QuietStep
<1>3. ASSUME NEW i \in Ids, PrewriteDone(i) \/ PostNotSent(i) \/ PostRejected(i)
      PROVE  NewsInv'
  <2>1. xch[i].st \in {"none", "sent"}
    BY <1>0, <1>3 DEF PrewriteDone, PostNotSent, PostRejected, OrderSound
  <2>2. Others(i) /\ UNCHANGED <<ws, link, gap, stream>>
    BY <1>0, <1>3 DEF PrewriteDone, PostNotSent, PostRejected, MarkOrderRejected, Others,
       TypeOK, health, book
  <2>3. xch'[i].st \in {"sent", "lost", "refused"} /\ \A j \in Ids \ {i} : xch'[j] = xch[j]
    BY <1>0, <1>3 DEF PrewriteDone, PostNotSent, PostRejected, TypeOK
  <2>4. orders'[i].status \in Working => orders[i].status \in Working
    <3>1. Closed(orders[i], "REJECTED", i \in ExitIds).status = "REJECTED"
          /\ "REJECTED" \notin Working
      BY DEF Closed, Working
    <3> QED
      BY <1>0, <1>3, <3>1 DEF PrewriteDone, PostNotSent, PostRejected, MarkOrderRejected,
         TypeOK, book
  <2> QED
    BY <1>0, <2>1, <2>2, <2>3, <2>4, UntakenIsQuiet, QuietStep
<1>4. ASSUME NEW i \in Ids, MarkNotSent(i)
      PROVE  NewsInv'
  <2>1. CASE UNCHANGED book
    BY <1>4, <2>1, StillStep DEF MarkNotSent, book, health, outside
  <2>2. CASE Absorb(i, "REJECTED", 0, FALSE)
             /\ orders[i].status \in {"SUBMITTED", "RECONCILING"}
    <3>1. "REJECTED" \in OrderStatus /\ "REJECTED" \in Terminal /\ 0 \in Nat
          /\ FALSE \in BOOLEAN /\ orders[i].status # "NONE"
      BY <2>2 DEF OrderStatus, Terminal
    <3>2. Others(i) /\ orders'[i].status \in Terminal
      BY <2>2, <3>1, AbsorbMoves
    <3>3. xch[i].st = "lost" /\ UNCHANGED <<ws, link, gap, stream, xch>>
      BY <1>0, <1>4 DEF MarkNotSent, OrderSound, health, outside
    <3>4. orders'[i].status \notin Working
      BY <3>2 DEF Terminal, Working
    <3> QED
      BY <1>0, <3>2, <3>3, <3>4, UntakenIsQuiet, QuietStep
  <2> QED
    BY <1>4, <2>1, <2>2 DEF MarkNotSent
<1>5. ASSUME NEW i \in Ids, Watchdog(i) \/ CancelUnconfirmed(i) \/ MarkInDoubt(i)
      PROVE  NewsInv'
  <2>1. UNCHANGED <<ws, link, gap, stream, xch>>
    BY <1>5 DEF Watchdog, CancelUnconfirmed, MarkInDoubt, outside
  <2>2. \A j \in Ids : \/ orders'[j] = orders[j]
                       \/ orders[j].status \in Working /\ orders'[j] = Doubted(orders[j])
    BY <1>0, <1>5 DEF Watchdog, CancelUnconfirmed, MarkInDoubt, TypeOK, Working
  <2> QED
    BY <2>1, <2>2, DoubtIsQuiet, QuietStep
<1>6. ASSUME WsDown PROVE NewsInv'
  <2>1. ws' = FALSE /\ link' = "down"
    BY <1>6 DEF WsDown
  <2>2. ~gap' => Live = {} /\ orders' = orders
    BY <1>6 DEF WsDown
  <2>3. ~gap' => Live' = {}
    BY <2>2 DEF Live
  <2> QED
    BY <2>1, <2>3 DEF NewsInv
<1>7. ASSUME Reconnected PROVE NewsInv'
  <2>1. ~ws /\ ws' = TRUE /\ UNCHANGED <<orders, xch, gap>>
    BY <1>7 DEF Reconnected, book
  <2>2. ASSUME NEW i \in Ids, ~gap, xch[i].st \in Taken
        PROVE  IsTerminal(orders[i]) /\ orders[i].filled = xch[i].cum
    <3>1. orders[i].status \notin Working /\ orders[i] \in Order
      BY <1>0, <2>1, <2>2 DEF NewsInv, Live, TypeOK
    <3>2. orders[i].status # "NONE"
      BY <1>0, <2>2 DEF OrderSound
    <3>3. IsTerminal(orders[i])
      BY <3>1, <3>2 DEF IsTerminal, Order, OrderStatus
    <3> QED
      BY <1>0, <3>2, <3>3 DEF OrderSound
  <2>3. ~gap => \A i \in Ids : Told(i)'
    BY <2>1, <2>2 DEF Told
  <2> QED
    BY <2>1, <2>3 DEF NewsInv
<1>8. ASSUME LinkBreaks PROVE NewsInv'
  BY <1>8 DEF LinkBreaks, NewsInv, health
<1>9. ASSUME NEW i \in Ids,
             \/ PostAccepted(i) \/ PostUnknown(i) \/ RejectSaved(i) \/ RejectSaveFailed(i)
             \/ DoubtSaved(i) \/ DoubtSaveFailed(i)
      PROVE  NewsInv'
  BY <1>9, StillStep DEF PostAccepted, PostUnknown, RejectSaved, RejectSaveFailed,
     DoubtSaved, DoubtSaveFailed, book, health, outside
<1>10. ASSUME \/ DeliverForeign \/ BeginDrain \/ Heartbeat \/ UNCHANGED vars
              \/ \E b \in Batches : BlockedExit(b)
       PROVE  NewsInv'
  BY <1>10, StillStep DEF DeliverForeign, BeginDrain, Heartbeat, BlockedExit, vars, book,
     health, outside
<1>11. ASSUME Saving PROVE NewsInv'
  BY <1>11, StillStep DEF Saving, SaveCommitted, SaveRetried, SaveFailed, book, health,
     outside
<1>12. \A i \in EntryIds \cup ExitIds : i \in Ids
  BY DEF Ids
<1> QED
  BY <1>1, <1>2, <1>3, <1>4, <1>5, <1>6, <1>7, <1>8, <1>9, <1>10, <1>11, <1>12,
     DeliverTells, ExchangeTells
     DEF Next, Creation, Submission, ConnectionLost, FillSaveFailed

(* At the start the exchange has taken nothing.                                *)
LEMMA NewsInit == Init => NewsInv
  BY DEF Init, NewsInv, Told, Taken

(* No loss of frames, of the connection or of a reconnection goes unnoticed:   *)
(* with the stream up, no gap latched and no frame left to read, the account   *)
(* knows every fill and every end (on_ws_status_change, run_stream).           *)
THEOREM NoNewsIsLost == Spec => []NothingMissed
<1>1. NewsInv => NothingMissed
  BY DEF NewsInv, Told, Taken, NothingMissed
<1>2. Spec => []ExchangeInv
  BY ExchangeInit, ExchangeStep, TypeInvariance, PTL DEF Spec
<1>3. Spec => []NewsInv
  BY <1>2, NewsInit, NewsStep, TypeInvariance, PTL DEF Spec
<1> QED
  BY <1>1, <1>3, PTL

-------------------------------------------------------------------------------
(* The rows.  A row is never ahead of memory: its fill is no larger, and a     *)
(* final status in it is the one in memory.                                    *)
Behind(row, o) ==
  row.filled <= o.filled /\ (row.status \in Terminal => o.status = row.status)

(* A row that says what memory says.                                           *)
Says(row, o) ==
  row.filled = o.filled /\ (IsTerminal(o) => row.status = o.status)

Unwritten == {"settings", "prewrite", "refused"}
Writing   == {"save1", "save2"}

(* The handler that holds the lock works for an order that was sent.           *)
HolderInv ==
  /\ phase \in Writing => holder \in Ids
  /\ holder \in Ids => /\ orders[holder].status # "NONE"
                       /\ call[holder] \notin {"settings", "prewrite"}

OrderRows ==
  \A i \in Ids :
    /\ Behind(dbOrders[i], orders[i])
    /\ orders[i].status = "NONE" \/ call[i] \in {"settings", "prewrite"}
         => dbOrders[i] = NoOrder
    /\ orders[i].status # "NONE" /\ i # holder /\ call[i] \notin Unwritten
         => Says(dbOrders[i], orders[i])

BatchRows ==
  \A b \in Batches :
    /\ ~(phase \in Writing /\ b = orders[holder].batch) => dbBatches[b].qty = batches[b].qty
    /\ batches[b].status = "ABSENT" => batches[b].qty = 0 /\ dbBatches[b].qty = 0

RowsInv == HolderInv /\ (~fault => OrderRows /\ BatchRows)

(* An order written over a row that is not ahead of it says what memory says.  *)
LEMMA UpsertSays ==
  ASSUME NEW row \in Order, NEW o \in Order, Behind(row, o)
  PROVE  /\ Behind(Upsert(row, o), o) /\ Says(Upsert(row, o), o)
<1>1. row.filled \in Nat /\ o.filled \in Nat
  BY DEF Order
<1>2. Upsert(row, o).filled = o.filled
      /\ Upsert(row, o).status = IF row.status \in Terminal THEN row.status ELSE o.status
  BY <1>1 DEF Upsert, Behind
<1>3. Behind(Upsert(row, o), o) /\ Says(Upsert(row, o), o)
  BY <1>1, <1>2 DEF Behind, Says, IsTerminal
<1> QED
  BY <1>3

(* What one order owes its row.                                                *)
RowOK(i) ==
  /\ Behind(dbOrders[i], orders[i])
  /\ orders[i].status = "NONE" \/ call[i] \in {"settings", "prewrite"}
       => dbOrders[i] = NoOrder
  /\ orders[i].status # "NONE" /\ i # holder /\ call[i] \notin Unwritten
       => Says(dbOrders[i], orders[i])

LotsOK(b) ==
  /\ ~(phase \in Writing /\ b = orders[holder].batch) => dbBatches[b].qty = batches[b].qty
  /\ batches[b].status = "ABSENT" => batches[b].qty = 0 /\ dbBatches[b].qty = 0

(* A batch whose lots and presence stay, as does the handler at work, is all   *)
(* right whether its row is written or not.                                    *)
SameLots(b) ==
  /\ batches'[b].qty = batches[b].qty
  /\ batches'[b].status = "ABSENT" => batches[b].status = "ABSENT"

(* No operation on a batch but a fill changes how many lots it holds, and none *)
(* makes it absent.                                                            *)
LEMMA ReleaseKeepsLots ==
  ASSUME NEW o, NEW b
  PROVE  LET r == ReleaseBatchReservation(o, b)
         IN  r.qty = b.qty /\ (r.status = "ABSENT" => b.status = "ABSENT")
  BY DEF ReleaseBatchReservation, ReleaseExitReservation

LEMMA ReleasedKeepsLots ==
  ASSUME TypeOK, NEW i \in Ids, NEW o, batches' = Released(i, o), NEW b \in Batches
  PROVE  SameLots(b)
<1>1. batches'[b] = batches[b] \/ batches'[b] = ReleaseBatchReservation(o, batches[b])
  BY DEF Released, TypeOK
<1> QED
  BY <1>1, ReleaseKeepsLots DEF SameLots

(* News change the lots of the batch of their order only, and an absent batch  *)
(* that stays absent has no lots.                                              *)
LEMMA AbsorbLots ==
  ASSUME TypeInv, NEW i \in Ids, orders[i].status # "NONE", orders[i].batch \in Batches,
         NEW new \in OrderStatus, NEW cum \in Nat, NEW acked \in BOOLEAN,
         Absorb(i, new, cum, acked), NEW b \in Batches,
         batches[b].status = "ABSENT" => batches[b].qty = 0
  PROVE  /\ b # orders[i].batch => SameLots(b)
         /\ batches'[b].status = "ABSENT" =>
              batches[b].status = "ABSENT" /\ batches'[b].qty = batches[b].qty
<1> DEFINE o     == orders[i]
           n     == ApplyUpdate(o, new, cum, acked)
           delta == n.filled - o.filled
           gives == i \in ExitIds /\ n.status \in {"CANCELED", "REJECTED"}
           freed == IF gives THEN Released(i, n) ELSE batches
           done  == IsTerminal(n)
<1>0. o \in Order /\ o.filled <= o.qty /\ batches \in [Batches -> Batch]
  BY DEF TypeInv, TypeOK, FillsBounded
<1>1. /\ n \in Order
      /\ n.batch = o.batch /\ n.qty = o.qty /\ n.released = o.released
      /\ o.filled <= n.filled /\ n.filled <= n.qty
      /\ cum <= n.filled \/ n.filled = n.qty
      /\ n.filled = o.filled \/ n.filled <= cum
      /\ IsTerminal(o) => n.status = o.status
      /\ n.status = o.status \/ n.status = new
  BY <1>0, ApplyUpdateType
<1>2. delta \in Nat
  BY <1>0, <1>1 DEF Order
<1>3. batches' = IF delta = 0 THEN freed
                 ELSE [freed EXCEPT ![o.batch] =
                         IF i \in ExitIds THEN ExitFill(@, delta, done)
                         ELSE EntryFill(@, delta)]
  BY DEF Absorb
<1>4. freed \in [Batches -> Batch]
  BY <1>1, ReleasedType DEF TypeInv, TypeOK, BookType
<1>5. /\ freed[b].qty = batches[b].qty
      /\ freed[b].status = "ABSENT" => batches[b].status = "ABSENT"
  <2>1. freed[b] = batches[b] \/ freed[b] = ReleaseBatchReservation(n, batches[b])
    BY <1>0 DEF Released
  <2> QED
    BY <2>1, ReleaseKeepsLots
<1> HIDE DEF freed, done, delta
<1>6. b # o.batch \/ delta = 0 => batches'[b] = freed[b]
  BY <1>3, <1>4
<1>7. b = o.batch /\ delta # 0 =>
        \/ batches'[b] = ExitFill(freed[b], delta, done)
        \/ batches'[b] = EntryFill(freed[b], delta)
  BY <1>3, <1>4
<1>8. /\ EntryFill(freed[b], delta).status # "ABSENT"
      /\ freed[b].qty = 0 => ExitFill(freed[b], delta, done).status # "ABSENT"
      /\ ExitFill(freed[b], delta, done).status = "ABSENT" => freed[b].status = "ABSENT"
  <2>1. EntryFill(freed[b], delta).status # "ABSENT"
    BY DEF EntryFill
  <2>2. freed[b].qty = 0 => Above0(freed[b].qty - delta) = 0
    BY <1>2 DEF Above0
  <2>3. ExitFill(freed[b], delta, done).status =
          IF Above0(freed[b].qty - delta) = 0 THEN "CLOSED"
          ELSE IF Above0(freed[b].exiting - delta) = 0 /\ done THEN "ACTIVE"
          ELSE freed[b].status
    BY DEF ExitFill
  <2> QED
    BY <2>1, <2>2, <2>3
<1>9. batches'[b].status = "ABSENT" => b # o.batch \/ delta = 0
  BY <1>5, <1>7, <1>8
<1> HIDE DEF o
<1> QED
  BY <1>5, <1>6, <1>9 DEF SameLots, o

(* A step that writes no row and starts or ends no handler keeps what it does  *)
(* not touch; the orders it touches are to be shown.                           *)
LEMMA NoRowWritten ==
  ASSUME TypeInv, RowsInv, UNCHANGED <<writer, db>>, fault' = FALSE => fault = FALSE,
         HolderInv',
         holder \in Ids => orders'[holder].batch = orders[holder].batch,
         \A b \in Batches : SameLots(b),
         ~fault => \A i \in Ids : RowOK(i)'
  PROVE  RowsInv'
<1>1. ASSUME ~fault, NEW b \in Batches PROVE LotsOK(b)'
  <2>1. LotsOK(b) /\ SameLots(b)
    BY <1>1 DEF RowsInv, BatchRows, LotsOK
  <2>2. phase \in Writing => orders'[holder].batch = orders[holder].batch
    BY DEF RowsInv, HolderInv
  <2> QED
    BY <2>1, <2>2 DEF LotsOK, SameLots, writer, db
<1>2. fault \in BOOLEAN /\ ~fault' => ~fault
  BY DEF TypeInv, TypeOK
<1> QED
  BY <1>1, <1>2 DEF RowsInv, OrderRows, BatchRows, RowOK, LotsOK

(* An order that a step leaves alone keeps its row right.                      *)
LEMMA RowKept ==
  ASSUME NEW i \in Ids, RowOK(i), orders'[i] = orders[i], call'[i] = call[i],
         dbOrders'[i] = dbOrders[i], i # holder' => i # holder
  PROVE  RowOK(i)'
  BY DEF RowOK

(* A working order put in doubt does too.                                      *)
LEMMA DoubtKeepsRow ==
  ASSUME TypeOK, NEW i \in Ids, RowOK(i), orders[i].status \in Working,
         orders'[i] = Doubted(orders[i]), call'[i] = call[i],
         dbOrders'[i] = dbOrders[i], i # holder' => i # holder
  PROVE  RowOK(i)' /\ orders'[i].status # "NONE" /\ orders'[i].batch = orders[i].batch
<1>1. /\ orders'[i].filled = orders[i].filled /\ orders'[i].status = "RECONCILING"
      /\ orders'[i].batch = orders[i].batch
  BY DoubtType DEF TypeOK
<1>2. orders[i].status \notin Terminal /\ orders[i].status # "NONE"
  BY DEF Working, Terminal
<1>3. "RECONCILING" \notin Terminal
  BY DEF Terminal
<1> QED
  BY <1>1, <1>2, <1>3 DEF RowOK, Behind, Says, IsTerminal

(* News are ahead of the row, and of the batch, until the handler wrote them.  *)
LEMMA NewsAwaitTheirRow ==
  ASSUME TypeInv, RowsInv, holder = None, holder' \in Ids, phase' = "save1",
         UNCHANGED <<db, fault>>,
         orders[holder'].status # "NONE", orders[holder'].batch \in Batches,
         NEW new \in OrderStatus, NEW cum \in Nat, NEW acked \in BOOLEAN,
         Absorb(holder', new, cum, acked),
         call'[holder'] \notin {"settings", "prewrite"},
         \A j \in Ids \ {holder'} : call'[j] = call[j]
  PROVE  RowsInv'
<1> DEFINE i == holder'
<1>0. TypeOK /\ i \in Ids /\ None \notin Ids /\ phase \notin Writing
  BY IdsAssumption DEF TypeInv, RowsInv, HolderInv
<1>1. /\ Others(i)
      /\ orders'[i].batch = orders[i].batch
      /\ orders[i].filled <= orders'[i].filled
      /\ IsTerminal(orders[i]) => orders'[i].status = orders[i].status
      /\ orders'[i].status = orders[i].status \/ orders'[i].status = new
      /\ orders'[i].filled \in Nat
  BY <1>0, AbsorbMoves
<1>2. orders'[i].status # "NONE"
  BY <1>1 DEF OrderStatus, Working, Terminal
<1>3. HolderInv'
  BY <1>0, <1>2 DEF HolderInv
<1>4. ASSUME ~fault, NEW j \in Ids PROVE RowOK(j)'
  <2>1. RowOK(j) /\ dbOrders'[j] = dbOrders[j]
    BY <1>4 DEF RowsInv, OrderRows, RowOK, db
  <2>2. CASE j = i
    <3>1. dbOrders[i].filled \in Nat /\ orders[i].filled \in Nat
      BY <1>0 DEF TypeOK, Order
    <3>2. Behind(dbOrders[i], orders'[i])
      BY <1>1, <2>1, <2>2, <3>1 DEF RowOK, Behind, IsTerminal
    <3> HIDE DEF i
    <3>3. i = holder'
      BY DEF i
    <3> QED
      BY <1>2, <2>1, <2>2, <3>2, <3>3 DEF RowOK
  <2>3. CASE j # i
    <3>1. orders'[j] = orders[j] /\ call'[j] = call[j] /\ j # holder
      BY <1>0, <1>1, <2>3 DEF Others
    <3> QED
      BY <2>1, <3>1, RowKept
  <2> QED
    BY <2>2, <2>3
<1>5. ASSUME ~fault, NEW b \in Batches PROVE LotsOK(b)'
  <2>1. LotsOK(b) /\ dbBatches'[b] = dbBatches[b]
    BY <1>5 DEF RowsInv, BatchRows, LotsOK, db
  <2>2. /\ b # orders[i].batch => SameLots(b)
        /\ batches'[b].status = "ABSENT" =>
             batches[b].status = "ABSENT" /\ batches'[b].qty = batches[b].qty
    BY <1>0, <2>1, AbsorbLots DEF LotsOK
  <2> HIDE DEF i
  <2>3. i = holder'
    BY DEF i
  <2> QED
    BY <1>0, <1>1, <2>1, <2>2, <2>3 DEF LotsOK, SameLots, Writing
<1> QED
  BY <1>3, <1>4, <1>5 DEF RowsInv, OrderRows, BatchRows, RowOK, LotsOK

(* A handler that wrote its order, and its batch if it has changed, leaves     *)
(* rows that say what memory says.                                             *)
LEMMA RowIsWritten ==
  ASSUME TypeInv, RowsInv, ~fault, NEW i \in Ids, SaveOrder(i),
         orders[i].status # "NONE", UNCHANGED <<orders, batches>>,
         call'[i] \notin {"settings", "prewrite"},
         \A j \in Ids \ {i} : call'[j] = call[j] /\ (j # holder' => j # holder)
  PROVE  \A j \in Ids : RowOK(j)'
<1>0. TypeOK /\ \A j \in Ids : RowOK(j)
  BY DEF TypeInv, RowsInv, OrderRows, RowOK
<1>1. dbOrders'[i] = Upsert(dbOrders[i], orders[i])
      /\ \A j \in Ids \ {i} : dbOrders'[j] = dbOrders[j]
  BY <1>0 DEF SaveOrder, TypeOK
<1>2. dbOrders[i] \in Order /\ orders[i] \in Order /\ Behind(dbOrders[i], orders[i])
  BY <1>0 DEF TypeOK, RowOK
<1>3. Behind(dbOrders'[i], orders[i]) /\ Says(dbOrders'[i], orders[i])
  BY <1>1, <1>2, UpsertSays
<1>4. RowOK(i)'
  BY <1>3 DEF RowOK
<1>5. \A j \in Ids \ {i} : RowOK(j)'
  BY <1>0, <1>1, RowKept
<1> QED
  BY <1>4, <1>5

(* While a handler holds the lock its order is neither undone nor back before  *)
(* its request.                                                                *)
LEMMA HolderKept ==
  ASSUME TypeInv, HolderInv, UNCHANGED writer, NEW i \in Ids, Others(i),
         \A j \in Ids \ {i} : call'[j] = call[j],
         i = holder => orders'[i].status # "NONE" /\ call'[i] \notin {"settings", "prewrite"}
  PROVE  HolderInv'
  BY DEF HolderInv, Others, writer

(* Every step keeps the rows right.                                            *)
LEMMA RowsStep ==
  ASSUME TypeInv, ExchangeInv, ModeInv, RowsInv, [Next]_vars
  PROVE  RowsInv'
<1>0. /\ TypeOK /\ \A i \in Ids : OrderSound(i)
      /\ HolderInv /\ None \notin Ids /\ fault \in BOOLEAN
      /\ ~fault => (\A i \in Ids : RowOK(i)) /\ (\A b \in Batches : LotsOK(b))
  BY ByOrder, IdsAssumption
     DEF TypeInv, TypeOK, RowsInv, OrderRows, BatchRows, RowOK, LotsOK
<1>1. ASSUME UNCHANGED <<batches, writer, db, fault>>, HolderInv',
             holder \in Ids => orders'[holder].batch = orders[holder].batch,
             ~fault => \A i \in Ids : RowOK(i)'
      PROVE  RowsInv'
  BY <1>1, NoRowWritten DEF SameLots
<1>2. ASSUME UNCHANGED <<orders, batches, call, writer, db, fault>>
      PROVE  RowsInv'
  <2>1. HolderInv'
    BY <1>0, <1>2 DEF HolderInv, writer
  <2>2. ~fault => \A i \in Ids : RowOK(i)'
    BY <1>0, <1>2 DEF RowOK, writer, db
  <2> QED
    BY <1>1, <1>2, <2>1, <2>2
<1>3. ASSUME NEW i \in Ids, NEW b \in Batches, NEW q \in 1..MaxQty,
             CreateEntry(i, b, q) \/ CreateExit(i, b, q)
      PROVE  RowsInv'
  <2>1. orders[i] = NoOrder /\ dbOrders[i] = NoOrder /\ UNCHANGED <<writer, db, fault>>
    BY <1>3 DEF CreateEntry, CreateExit, health
  <2>2. /\ Others(i) /\ orders'[i].filled = 0
        /\ \A j \in Ids \ {i} : call'[j] = call[j]
        /\ call'[i] \in {"settings", "prewrite"}
    <3>1. NewOrder(b, q).filled = 0
          /\ ApplyUpdate(NewOrder(b, q), "SUBMITTED", 0, FALSE).filled = 0
      BY DEF NewOrder, ApplyUpdate
    <3> QED
      BY <1>0, <1>3, <3>1 DEF CreateEntry, CreateExit, Others, TypeOK
  <2>3. holder # i
    BY <1>0, <2>1 DEF HolderInv, NoOrder
  <2>4. HolderInv'
    BY <1>0, <2>1, <2>2, <2>3, HolderKept
  <2>5. ASSUME ~fault, NEW j \in Ids PROVE RowOK(j)'
    <3>1. CASE j = i
      <4>1. dbOrders'[i] = NoOrder
        BY <2>1 DEF db
      <4>2. NoOrder.filled = 0 /\ NoOrder.status \notin Terminal
        BY DEF NoOrder, Terminal
      <4> QED
        BY <2>2, <3>1, <4>1, <4>2 DEF RowOK, Behind, Unwritten
    <3>2. CASE j # i
      BY <1>0, <2>1, <2>2, <2>5, <3>2, RowKept DEF Others, db, writer
    <3> QED
      BY <3>1, <3>2
  <2>6. ASSUME NEW c \in Batches PROVE SameLots(c)
    <3>1. Exiting(ReserveForExit(batches[b], q)).qty = batches[b].qty
          /\ Exiting(ReserveForExit(batches[b], q)).status = "EXITING"
      BY DEF Exiting, ReserveForExit
    <3> QED
      BY <1>0, <1>3, <3>1 DEF CreateEntry, CreateExit, SameLots, TypeOK
  <2>7. holder \in Ids => orders'[holder].batch = orders[holder].batch
    BY <2>2, <2>3 DEF Others
  <2> QED
    BY <2>1, <2>4, <2>5, <2>6, <2>7, NoRowWritten
<1>4. ASSUME NEW b \in Batches, BlockedExit(b)
      PROVE  RowsInv'
  <2>1. UNCHANGED <<orders, call, writer, db, fault>>
    BY <1>4 DEF BlockedExit, health
  <2>2. Exiting(batches[b]).qty = batches[b].qty
        /\ Exiting(batches[b]).status = batches[b].status
    BY DEF Exiting
  <2>3. \A c \in Batches : SameLots(c)
    BY <1>0, <1>4, <2>2 DEF BlockedExit, SameLots, TypeOK
  <2>4. HolderInv'
    BY <1>0, <2>1 DEF HolderInv, writer
  <2>5. ~fault => \A i \in Ids : RowOK(i)'
    BY <1>0, <2>1 DEF RowOK, writer, db
  <2> QED
    BY <2>1, <2>3, <2>4, <2>5, NoRowWritten
<1>5. ASSUME NEW i \in Ids, SettingsDone(i)
      PROVE  RowsInv'
  <2>1. /\ Others(i) /\ UNCHANGED <<batches, writer, db, fault>>
        /\ \A j \in Ids \ {i} : call'[j] = call[j]
        /\ call'[i] = "prewrite"
    BY <1>0, <1>5 DEF SettingsDone, Others, TypeOK, health
  <2>2. holder # i
    BY <1>0, <1>5 DEF SettingsDone, HolderInv
  <2>3. HolderInv'
    BY <1>0, <2>1, <2>2, HolderKept
  <2>4. ASSUME ~fault, NEW j \in Ids PROVE RowOK(j)'
    <3>1. CASE j = i
      <4>1. dbOrders[i] = NoOrder /\ dbOrders'[i] = NoOrder
        BY <1>0, <1>5, <2>1, <2>4 DEF SettingsDone, RowOK, db
      <4>2. NoOrder.filled = 0 /\ NoOrder.status \notin Terminal
        BY DEF NoOrder, Terminal
      <4>3. orders'[i].filled \in Nat
        <5>1. ApplyUpdate(orders[i], "SUBMITTED", 0, FALSE).filled = orders[i].filled
          BY <1>0 DEF ApplyUpdate, TypeOK, Order
        <5> QED
          BY <1>0, <1>5, <5>1 DEF SettingsDone, TypeOK, Order
      <4> QED
        BY <2>1, <3>1, <4>1, <4>2, <4>3 DEF RowOK, Behind, Unwritten
    <3>2. CASE j # i
      BY <1>0, <2>1, <2>4, <3>2, RowKept DEF Others, db, writer
    <3> QED
      BY <3>1, <3>2
  <2>5. holder \in Ids => orders'[holder].batch = orders[holder].batch
    BY <2>1, <2>2 DEF Others
  <2> QED
    BY <1>1, <2>1, <2>3, <2>4, <2>5
<1>6. ASSUME NEW i \in Ids, SettingsFailed(i)
      PROVE  RowsInv'
  <2>1. /\ Others(i) /\ UNCHANGED <<writer, db, fault>>
        /\ \A j \in Ids \ {i} : call'[j] = call[j]
        /\ call'[i] = "idle" /\ call[i] = "settings"
    BY <1>0, <1>6 DEF SettingsFailed, Rollback, Others, TypeOK, health, book
  <2>2. holder # i
    BY <1>0, <2>1 DEF HolderInv
  <2>3. HolderInv'
    BY <1>0, <2>1, <2>2, HolderKept
  <2>4. orders'[i] = NoOrder \/ orders'[i] = orders[i]
    BY <1>0, <1>6 DEF SettingsFailed, Rollback, TypeOK, book
  <2>5. ASSUME ~fault, NEW j \in Ids PROVE RowOK(j)'
    <3>1. CASE j = i
      <4>1. dbOrders[i] = NoOrder /\ dbOrders'[i] = NoOrder
        BY <1>0, <2>1, <2>5 DEF RowOK, db
      <4>2. NoOrder.filled = 0 /\ NoOrder.status = "NONE" /\ "NONE" \notin Terminal
        BY DEF NoOrder, Terminal
      <4>3. OrderSound(i) /\ orders[i].filled \in Nat
        BY <1>0 DEF TypeOK, Order
      <4>4. /\ orders[i].status \in Working /\ xch[i].st = "none" /\ xch[i].cum = 0
            /\ orders[i].status # "NONE"
        BY <2>1, <4>3 DEF OrderSound, Working
      <4>5. ~IsTerminal(orders[i])
        BY <4>4 DEF IsTerminal, Working, Terminal
      <4>6. orders[i].filled <= 0
        BY <4>3, <4>4 DEF OrderSound
      <4> QED
        BY <2>1, <2>4, <3>1, <4>1, <4>2, <4>3, <4>4, <4>5, <4>6 DEF RowOK, Behind, Says
    <3>2. CASE j # i
      BY <1>0, <2>1, <2>5, <3>2, RowKept DEF Others, db, writer
    <3> QED
      BY <3>1, <3>2
  <2>6. ASSUME NEW c \in Batches PROVE SameLots(c)
    <3>1. CASE Rollback(i)
      BY <1>0, <3>1, ReleasedKeepsLots DEF Rollback
    <3>2. CASE UNCHANGED book
      BY <3>2 DEF book, SameLots
    <3> QED
      BY <1>6, <3>1, <3>2 DEF SettingsFailed
  <2>7. holder \in Ids => orders'[holder].batch = orders[holder].batch
    BY <2>1, <2>2 DEF Others
  <2> QED
    BY <2>1, <2>3, <2>5, <2>6, <2>7, NoRowWritten
<1>7. ASSUME NEW i \in Ids, PrewriteFailed(i) \/ RejectSaveFailed(i) \/ DoubtSaveFailed(i)
      PROVE  RowsInv'
  <2>1. /\ Others(i) /\ fault' = TRUE
        /\ \A j \in Ids \ {i} : call'[j] = call[j]
    BY <1>0, <1>7 DEF PrewriteFailed, RejectSaveFailed, DoubtSaveFailed, Rollback, Others,
       TypeOK, book
  <2>2. CASE PrewriteFailed(i)
    <3>1. holder # i /\ UNCHANGED writer
      BY <1>0, <2>2 DEF PrewriteFailed, HolderInv
    <3> QED
      BY <1>0, <2>1, <3>1, HolderKept DEF RowsInv
  <2>3. CASE RejectSaveFailed(i)
    <3>1. UNCHANGED <<writer, orders>> /\ call'[i] = "idle"
      BY <1>0, <2>3 DEF RejectSaveFailed, book, TypeOK
    <3>2. i = holder => orders'[i].status # "NONE"
      BY <1>0, <3>1 DEF HolderInv
    <3> QED
      BY <1>0, <2>1, <3>1, <3>2, HolderKept DEF RowsInv
  <2>4. CASE DoubtSaveFailed(i)
    BY <1>0, <2>1, <2>4 DEF DoubtSaveFailed, RowsInv, HolderInv, Writing
  <2> QED
    BY <1>7, <2>2, <2>3, <2>4
<1>8. ASSUME NEW i \in Ids, PrewriteDone(i)
      PROVE  RowsInv'
  <2>1. /\ UNCHANGED <<orders, batches, writer, fault>> /\ call[i] = "prewrite"
        /\ call'[i] = "post" /\ \A j \in Ids \ {i} : call'[j] = call[j]
        /\ SaveOrder(i)
    BY <1>0, <1>8 DEF PrewriteDone, SaveOrderAndBatch, TypeOK, book, health
  <2>2. orders[i].status # "NONE" /\ holder # i
    BY <1>0, <2>1 DEF OrderSound, HolderInv
  <2>3. HolderInv'
    BY <1>0, <2>1, <2>2, HolderKept DEF Others
  <2>4. ~fault => \A j \in Ids : RowOK(j)'
    BY <2>1, <2>2, RowIsWritten DEF writer
  <2>5. ASSUME ~fault, NEW b \in Batches PROVE LotsOK(b)'
    <3>1. \/ dbBatches'[b] = dbBatches[b]
          \/ /\ dbBatches'[b] = batches[b]
             /\ batches[b].status # "ABSENT"
      BY <1>0, <1>8 DEF PrewriteDone, SaveOrderAndBatch, TypeOK
    <3> QED
      BY <1>0, <2>1, <2>5, <3>1 DEF LotsOK, writer
  <2> QED
    BY <2>1, <2>3, <2>4, <2>5 DEF RowsInv, OrderRows, BatchRows, RowOK, LotsOK
<1>9. ASSUME NEW i \in Ids, PostAccepted(i) \/ PostUnknown(i) \/ PostNotSent(i)
      PROVE  RowsInv'
  <2>1. /\ UNCHANGED <<orders, batches, writer, db, fault>> /\ call[i] = "post"
        /\ call'[i] \in {"idle", "doubt", "notSent"}
        /\ \A j \in Ids \ {i} : call'[j] = call[j]
    BY <1>0, <1>9 DEF PostAccepted, PostUnknown, PostNotSent, TypeOK, book, health
  <2>2. i = holder => orders'[i].status # "NONE"
    BY <1>0, <2>1 DEF HolderInv
  <2>3. HolderInv'
    BY <1>0, <2>1, <2>2, HolderKept DEF Others
  <2>4. ASSUME ~fault, NEW j \in Ids PROVE RowOK(j)'
    <3>1. CASE j = i
      <4>1. orders[i].status # "NONE"
        BY <1>0, <2>1 DEF OrderSound
      <4> QED
        BY <1>0, <2>1, <2>4, <3>1, <4>1 DEF RowOK, Unwritten, db, writer
    <3>2. CASE j # i
      BY <1>0, <2>1, <2>4, <3>2, RowKept DEF db, writer
    <3> QED
      BY <3>1, <3>2
  <2> QED
    BY <1>1, <2>1, <2>3, <2>4
<1>10. ASSUME NEW i \in Ids, PostRejected(i)
       PROVE  RowsInv'
  <2>1. /\ Others(i) /\ UNCHANGED <<writer, db, fault>>
        /\ call'[i] = "refused" /\ \A j \in Ids \ {i} : call'[j] = call[j]
    BY <1>0, <1>10 DEF PostRejected, MarkOrderRejected, Others, TypeOK, health
  <2>2. /\ orders'[i].filled = orders[i].filled /\ orders'[i].batch = orders[i].batch
        /\ orders'[i].status = "REJECTED"
    <3> DEFINE c == Closed(orders[i], "REJECTED", i \in ExitIds)
    <3>1. c.filled = orders[i].filled /\ c.batch = orders[i].batch /\ c.status = "REJECTED"
      BY DEF Closed
    <3>2. orders' = [orders EXCEPT ![i] = c]
      BY <1>10 DEF PostRejected, MarkOrderRejected
    <3> HIDE DEF c
    <3> QED
      BY <1>0, <3>1, <3>2 DEF TypeOK
  <2>3. HolderInv'
    BY <1>0, <2>1, <2>2, HolderKept
  <2>4. ASSUME ~fault, NEW j \in Ids PROVE RowOK(j)'
    <3>1. CASE j = i
      <4>1. ~IsTerminal(orders[i])
        BY <1>0, <1>10 DEF PostRejected, OrderSound
      <4>2. Behind(dbOrders[i], orders'[i])
        BY <1>0, <2>2, <2>4, <4>1 DEF RowOK, Behind, IsTerminal
      <4> QED
        BY <2>1, <2>2, <3>1, <4>2 DEF RowOK, Unwritten, db
    <3>2. CASE j # i
      BY <1>0, <2>1, <2>4, <3>2, RowKept DEF Others, db, writer
    <3> QED
      BY <3>1, <3>2
  <2>5. \A c \in Batches : SameLots(c)
    BY <1>0, <1>10, ReleasedKeepsLots DEF PostRejected, MarkOrderRejected
  <2>6. holder \in Ids => orders'[holder].batch = orders[holder].batch
    BY <2>1, <2>2 DEF Others
  <2> QED
    BY <2>1, <2>3, <2>4, <2>5, <2>6, NoRowWritten
<1>11. ASSUME NEW i \in Ids, RejectSaved(i)
       PROVE  RowsInv'
  <2>1. /\ UNCHANGED <<orders, batches, dbBatches, writer, fault>> /\ call[i] = "refused"
        /\ call'[i] = "idle" /\ \A j \in Ids \ {i} : call'[j] = call[j]
        /\ SaveOrder(i)
    BY <1>0, <1>11 DEF RejectSaved, TypeOK, book, health
  <2>2. orders[i].status # "NONE"
    BY <1>0, <2>1 DEF OrderSound
  <2>3. HolderInv'
    BY <1>0, <2>1, <2>2, HolderKept DEF Others
  <2>4. ~fault => \A j \in Ids : RowOK(j)'
    BY <2>1, <2>2, RowIsWritten DEF writer
  <2>5. ~fault => \A b \in Batches : LotsOK(b)'
    BY <1>0, <2>1 DEF LotsOK, writer
  <2> QED
    BY <2>1, <2>3, <2>4, <2>5 DEF RowsInv, OrderRows, BatchRows, RowOK, LotsOK
<1>12. ASSUME NEW i \in Ids, MarkNotSent(i)
       PROVE  RowsInv'
  <2>1. /\ call[i] = "notSent" /\ call'[i] = "idle" /\ holder = None
        /\ \A j \in Ids \ {i} : call'[j] = call[j]
        /\ UNCHANGED <<db, fault>>
    BY <1>0, <1>12 DEF MarkNotSent, TypeOK, health
  <2>2. CASE UNCHANGED <<book, writer>>
    <3>1. HolderInv'
      BY <1>0, <2>1, <2>2, HolderKept DEF Others, book
    <3>2. ASSUME ~fault, NEW j \in Ids PROVE RowOK(j)'
      <4>1. CASE j = i
        <5>1. orders[i].status # "NONE"
          BY <1>0, <2>1 DEF OrderSound
        <5> QED
          BY <1>0, <2>1, <2>2, <3>2, <4>1, <5>1 DEF RowOK, Unwritten, db, writer, book
      <4>2. CASE j # i
        BY <1>0, <2>1, <2>2, <3>2, <4>2, RowKept DEF db, writer, book
      <4> QED
        BY <4>1, <4>2
    <3> QED
      BY <1>1, <2>1, <2>2, <3>1, <3>2 DEF book
  <2>3. CASE /\ Absorb(i, "REJECTED", 0, FALSE) /\ holder' = i /\ phase' = "save1"
             /\ orders[i].status \in {"SUBMITTED", "RECONCILING"}
    <3>1. orders[i].batch \in Batches /\ orders[i].status # "NONE"
      BY <1>0, <2>3 DEF OrderSound
    <3>2. "REJECTED" \in OrderStatus /\ 0 \in Nat /\ FALSE \in BOOLEAN
      BY DEF OrderStatus, Terminal
    <3> QED
      BY <2>1, <2>3, <3>1, <3>2, NewsAwaitTheirRow
  <2> QED
    BY <1>12, <2>2, <2>3 DEF MarkNotSent
<1>13. ASSUME NEW f \in stream, Deliver(f)
       PROVE  RowsInv'
  <2>1. /\ f.id \in Ids /\ f.cum \in Nat /\ TRUE \in BOOLEAN
        /\ f.status \in OrderStatus /\ FrameSound(f) /\ OrderSound(f.id)
    BY ByOrder DEF TypeInv, TypeOK, Frame, OrderStatus, Terminal, Working
  <2>2. /\ orders[f.id].status # "NONE" /\ orders[f.id].batch \in Batches
        /\ call[f.id] \notin {"settings", "prewrite"}
    BY <2>1 DEF FrameSound, OrderSound, Known, Taken
  <2>3. /\ holder = None /\ holder' = f.id /\ phase' = "save1"
        /\ UNCHANGED <<db, fault, call>> /\ Absorb(f.id, f.status, f.cum, TRUE)
    BY <1>13 DEF Deliver, health
  <2> QED
    BY <2>1, <2>2, <2>3, NewsAwaitTheirRow
<1>14. ASSUME NEW i \in Ids, MarkInDoubt(i)
       PROVE  RowsInv'
  <2>1. /\ UNCHANGED <<batches, db, fault>> /\ Others(i) /\ holder = None
        /\ call[i] = "doubt" /\ \A j \in Ids \ {i} : call'[j] = call[j]
    BY <1>0, <1>14 DEF MarkInDoubt, Others, TypeOK
  <2>2. orders[i].status # "NONE" /\ i # holder
    BY <1>0, <2>1 DEF OrderSound
  <2>3. CASE UNCHANGED <<orders, mode, writer>> /\ call'[i] = "idle"
    <3>1. HolderInv'
      BY <1>0, <2>1, <2>2, <2>3, HolderKept
    <3>2. ASSUME ~fault, NEW j \in Ids PROVE RowOK(j)'
      <4>1. CASE j = i
        BY <1>0, <2>1, <2>2, <2>3, <3>2, <4>1 DEF RowOK, Unwritten, db, writer
      <4>2. CASE j # i
        BY <1>0, <2>1, <2>3, <3>2, <4>2, RowKept DEF db, writer
      <4> QED
        BY <4>1, <4>2
    <3> QED
      BY <1>1, <2>1, <2>3, <3>1, <3>2
  <2>4. CASE /\ orders' = [orders EXCEPT ![i] = Doubted(@)]
             /\ orders[i].status \in {"SUBMITTED", "RECONCILING"}
             /\ holder' = i /\ phase' = "doubt" /\ call' = call
    <3>1. orders'[i] = Doubted(orders[i]) /\ orders[i].status \in Working
      BY <1>0, <2>4 DEF TypeOK, Working
    <3>2. orders'[i].status # "NONE"
      BY <1>0, <3>1, DoubtType DEF TypeOK
    <3>3. HolderInv'
      BY <2>1, <2>4, <3>2 DEF HolderInv, Writing
    <3>4. ASSUME ~fault, NEW j \in Ids PROVE RowOK(j)'
      <4>1. CASE j = i
        BY <1>0, <2>1, <2>2, <2>4, <3>1, <3>4, <4>1, DoubtKeepsRow DEF db
      <4>2. CASE j # i
        BY <1>0, <2>1, <2>4, <3>4, <4>2, RowKept DEF Others, db
      <4> QED
        BY <4>1, <4>2
    <3>5. ASSUME ~fault, NEW b \in Batches PROVE LotsOK(b)'
      <4>1. phase \notin Writing /\ phase' \notin Writing
        BY <1>0, <2>1, <2>4 DEF HolderInv, Writing
      <4> QED
        BY <1>0, <2>1, <3>5, <4>1 DEF LotsOK, db
    <3> QED
      BY <2>1, <3>3, <3>4, <3>5 DEF RowsInv, OrderRows, BatchRows, RowOK, LotsOK
  <2> QED
    BY <1>0, <1>14, <2>3, <2>4 DEF MarkInDoubt, TypeOK
<1>15. ASSUME UNCHANGED <<batches, call, writer, db, fault>>,
              \A j \in Ids : \/ orders'[j] = orders[j]
                             \/ orders[j].status \in Working
                                /\ orders'[j] = Doubted(orders[j])
       PROVE  RowsInv'
  <2>1. \A j \in Ids : /\ orders'[j].batch = orders[j].batch
                       /\ orders[j].status # "NONE" => orders'[j].status # "NONE"
    BY <1>0, <1>15, DoubtType DEF TypeOK
  <2>2. HolderInv'
    BY <1>0, <1>15, <2>1 DEF HolderInv, writer
  <2>3. ASSUME ~fault, NEW j \in Ids PROVE RowOK(j)'
    <3>1. CASE orders'[j] = orders[j]
      BY <1>0, <1>15, <2>3, <3>1, RowKept DEF db, writer
    <3>2. CASE orders[j].status \in Working /\ orders'[j] = Doubted(orders[j])
      BY <1>0, <1>15, <2>3, <3>2, DoubtKeepsRow DEF db, writer
    <3> QED
      BY <1>15, <3>1, <3>2
  <2> QED
    BY <1>1, <1>15, <2>1, <2>2, <2>3
<1>16. ASSUME NEW i \in Ids, Watchdog(i) \/ CancelUnconfirmed(i)
       PROVE  RowsInv'
  <2>1. UNCHANGED <<batches, call, writer, db, fault>>
    BY <1>16 DEF Watchdog, CancelUnconfirmed
  <2>2. \A j \in Ids : \/ orders'[j] = orders[j]
                       \/ orders[j].status \in Working /\ orders'[j] = Doubted(orders[j])
    BY <1>0, <1>16 DEF Watchdog, CancelUnconfirmed, TypeOK, Working
  <2> QED
    BY <1>15, <2>1, <2>2
<1>17. ASSUME WsDown PROVE RowsInv'
  <2>1. UNCHANGED <<batches, call, writer, db, fault>>
    BY <1>17 DEF WsDown
  <2>2. \A j \in Ids : \/ orders'[j] = orders[j]
                       \/ orders[j].status \in Working /\ orders'[j] = Doubted(orders[j])
    BY <1>17 DEF WsDown, Live
  <2> QED
    BY <1>15, <2>1, <2>2
<1>18. ASSUME NEW i \in Ids, DoubtSaved(i)
       PROVE  RowsInv'
  <2>1. /\ UNCHANGED <<orders, batches, dbBatches, fault>> /\ holder = i /\ phase = "doubt"
        /\ call'[i] = "idle" /\ \A j \in Ids \ {i} : call'[j] = call[j]
        /\ SaveOrder(i) /\ holder' = None /\ phase' = "free"
    BY <1>0, <1>18 DEF DoubtSaved, TypeOK, book, health
  <2>2. orders[i].status # "NONE"
    BY <1>0, <2>1 DEF HolderInv
  <2>3. HolderInv'
    BY <1>0, <2>1 DEF HolderInv, Writing
  <2>4. ~fault => \A j \in Ids : RowOK(j)'
    BY <2>1, <2>2, RowIsWritten
  <2>5. ~fault => \A b \in Batches : LotsOK(b)'
    BY <1>0, <2>1 DEF LotsOK, Writing
  <2> QED
    BY <2>1, <2>3, <2>4, <2>5 DEF RowsInv, OrderRows, BatchRows, RowOK, LotsOK
<1>19. ASSUME SaveCommitted PROVE RowsInv'
  <2>1. /\ UNCHANGED <<orders, batches, call, fault>> /\ phase \in Writing
        /\ SaveOrder(holder) /\ SaveOrderAndBatch(holder)
        /\ holder' = None /\ phase' = "free"
    BY <1>19 DEF SaveCommitted, SaveOrderAndBatch, Writing, book
  <2>2. /\ holder \in Ids /\ orders[holder].status # "NONE"
        /\ call[holder] \notin {"settings", "prewrite"}
    BY <1>0, <2>1 DEF HolderInv
  <2>3. HolderInv'
    BY <1>0, <2>1 DEF HolderInv, Writing
  <2>4. ~fault => \A j \in Ids : RowOK(j)'
    BY <2>1, <2>2, RowIsWritten
  <2>5. ASSUME ~fault, NEW b \in Batches PROVE LotsOK(b)'
    <3> DEFINE h == orders[holder].batch
    <3>1. dbBatches' = IF batches[h].status = "ABSENT" THEN dbBatches
                       ELSE [dbBatches EXCEPT ![h] = batches[h]]
      BY <2>1 DEF SaveOrderAndBatch
    <3>2. CASE b = h
      <4>1. dbBatches'[b].qty = batches[b].qty
        BY <1>0, <2>5, <3>1, <3>2 DEF LotsOK, TypeOK
      <4> QED
        BY <1>0, <2>1, <2>5, <4>1 DEF LotsOK
    <3>3. CASE b # h
      <4>1. dbBatches'[b] = dbBatches[b]
        BY <1>0, <3>1, <3>3 DEF TypeOK
      <4> QED
        BY <1>0, <2>1, <2>5, <3>3, <4>1 DEF LotsOK
    <3> QED
      BY <3>2, <3>3
  <2> QED
    BY <2>1, <2>3, <2>4, <2>5 DEF RowsInv, OrderRows, BatchRows, RowOK, LotsOK
<1>20. ASSUME SaveRetried PROVE RowsInv'
  <2>1. /\ UNCHANGED <<orders, batches, call, holder, db, fault>>
        /\ phase = "save1" /\ phase' = "save2"
    BY <1>20 DEF SaveRetried, book, health
  <2>2. HolderInv'
    BY <1>0, <2>1 DEF HolderInv, Writing
  <2>3. ~fault => \A j \in Ids : RowOK(j)'
    BY <1>0, <2>1 DEF RowOK, db
  <2>4. ~fault => \A b \in Batches : LotsOK(b)'
    BY <1>0, <2>1 DEF LotsOK, Writing, db
  <2> QED
    BY <2>1, <2>2, <2>3, <2>4 DEF RowsInv, OrderRows, BatchRows, RowOK, LotsOK
<1>21. ASSUME SaveFailed \/ DeliverForeign PROVE RowsInv'
  <2>1. fault' = TRUE /\ UNCHANGED <<orders, call>>
    BY <1>21 DEF SaveFailed, DeliverForeign, book
  <2>2. (holder' = None /\ phase' = "free") \/ UNCHANGED writer
    BY <1>21 DEF SaveFailed, DeliverForeign
  <2>3. HolderInv'
    BY <1>0, <2>1, <2>2 DEF HolderInv, Writing, writer
  <2> QED
    BY <2>1, <2>3 DEF RowsInv
<1>22. ASSUME NEW i \in Ids,
              XchAccept(i) \/ XchCancel(i) \/ \E n \in 1..MaxQty : XchFill(i, n)
       PROVE  RowsInv'
  <2>1. UNCHANGED <<orders, batches, call, writer, db, fault>>
    BY <1>22 DEF XchAccept, XchCancel, XchFill, book, health
  <2> QED
    BY <1>2, <2>1
<1>23. ASSUME BeginDrain \/ LinkBreaks \/ Heartbeat \/ Reconnected \/ UNCHANGED vars
       PROVE  RowsInv'
  <2>1. UNCHANGED <<orders, batches, call, writer, db, fault>>
    BY <1>23 DEF BeginDrain, LinkBreaks, Heartbeat, Reconnected, vars, book, health
  <2> QED
    BY <1>2, <2>1
<1>24. \A i \in EntryIds \cup ExitIds : i \in Ids
  BY DEF Ids
<1> QED
  BY <1>3, <1>4, <1>5, <1>6, <1>7, <1>8, <1>9, <1>10, <1>11, <1>12, <1>13, <1>14, <1>16,
     <1>17, <1>18, <1>19, <1>20, <1>21, <1>22, <1>23, <1>24
     DEF Next, Creation, Submission, Saving, ConnectionLost, FillSaveFailed

(* At the start memory has just been loaded from the rows.                     *)
LEMMA RowsInit == Init => RowsInv
<1> SUFFICES ASSUME Init PROVE RowsInv
  OBVIOUS
<1>1. HolderInv
  BY IdsAssumption DEF Init, HolderInv, Writing
<1>2. OrderRows
  BY DEF Init, OrderRows, Behind, NoOrder, Terminal
<1>3. \A b \in Batches : batches[b].status = "ABSENT" => batches[b].qty = 0
  BY DEF Init, NoBatch
<1>4. BatchRows
  BY <1>3 DEF Init, BatchRows
<1> QED
  BY <1>1, <1>2, <1>4 DEF RowsInv

(* Whenever no handler is at work and no write has failed, the rows a restart  *)
(* would load say what memory says, fill by fill and lot by lot                *)
(* (_save_order_update, submit_order, the upserts of persistence.py).          *)
THEOREM RowsFollowMemory == Spec => []Durable
<1>1. RowsInv => Durable
  <2> SUFFICES ASSUME RowsInv, holder = None, ~fault PROVE Durable
    BY DEF Durable
  <2>1. phase \notin Writing /\ None \notin Ids
    BY IdsAssumption DEF RowsInv, HolderInv
  <2>2. \A i \in Known : call[i] \notin Unwritten => Says(dbOrders[i], orders[i])
    BY <2>1 DEF RowsInv, OrderRows, Known
  <2>3. \A b \in Batches : dbBatches[b].qty = batches[b].qty
    BY <2>1 DEF RowsInv, BatchRows
  <2> QED
    BY <2>2, <2>3 DEF Durable, Says, Unwritten
<1>2. Spec => []ExchangeInv
  BY ExchangeInit, ExchangeStep, TypeInvariance, PTL DEF Spec
<1>3. Spec => []ModeInv
  BY ModeInit, ModeStep, TypeInvariance, PTL DEF Spec
<1>4. Spec => []RowsInv
  BY <1>2, <1>3, RowsInit, RowsStep, TypeInvariance, PTL DEF Spec
<1> QED
  BY <1>1, <1>4, PTL
-------------------------------------------------------------------------------
(* Nothing that was sent is undone.                                            *)

Kept(i) ==
  \/ /\ orders'[i].status # "NONE"
     /\ orders'[i].filled >= orders[i].filled
     /\ IsTerminal(orders[i]) => orders'[i].status = orders[i].status
  \/ orders'[i].status = "NONE" /\ xch[i].st = "none"

(* An order a step does not touch, or puts in doubt while it works, is kept.   *)
LEMMA UntouchedIsKept ==
  ASSUME TypeInv, NEW i \in Known,
         \/ orders'[i] = orders[i]
         \/ orders[i].status \in Working /\ orders'[i] = Doubted(orders[i])
  PROVE  Kept(i)
<1>1. orders[i] \in Order /\ orders[i].status # "NONE" /\ orders[i].filled \in Nat
  BY DEF TypeInv, TypeOK, Known, Order
<1>2. CASE orders'[i] = orders[i]
  BY <1>1, <1>2 DEF Kept
<1>3. CASE orders[i].status \in Working /\ orders'[i] = Doubted(orders[i])
  <2>1. /\ Doubted(orders[i]).status = "RECONCILING"
        /\ Doubted(orders[i]).filled = orders[i].filled
    BY <1>1, DoubtType
  <2>2. ~IsTerminal(orders[i])
    BY <1>3 DEF IsTerminal, Terminal, Working
  <2> QED
    BY <1>1, <1>3, <2>1, <2>2 DEF Kept
<1> QED
  BY <1>2, <1>3

(* A step about one order keeps all orders if it keeps that one.               *)
LEMMA OthersAreKept ==
  ASSUME TypeInv, NEW i \in Ids, Others(i), i \in Known => Kept(i)
  PROVE  \A j \in Known : Kept(j)
<1>1. \A j \in Known : j \in Ids
  BY DEF Known
<1>2. ASSUME NEW j \in Known, j # i PROVE Kept(j)
  BY <1>1, <1>2, UntouchedIsKept DEF Others
<1> QED
  BY <1>2

LEMMA AbsorbKeeps ==
  ASSUME TypeInv, NEW i \in Known,
         NEW new \in OrderStatus, NEW cum \in Nat, NEW acked \in BOOLEAN,
         Absorb(i, new, cum, acked)
  PROVE  \A j \in Known : Kept(j)
<1>1. i \in Ids /\ orders[i].status # "NONE" /\ orders[i] \in Order
  BY DEF Known, TypeInv, TypeOK
<1>2. /\ Others(i) /\ orders'[i].filled \in Nat
      /\ orders[i].filled <= orders'[i].filled
      /\ IsTerminal(orders[i]) => orders'[i].status = orders[i].status
      /\ orders'[i].status = orders[i].status \/ orders'[i].status = new
  BY <1>1, AbsorbMoves
<1>3. new # "NONE" /\ orders[i].filled \in Nat
  BY <1>1 DEF OrderStatus, Working, Terminal, Order
<1>4. Kept(i)
  BY <1>1, <1>2, <1>3 DEF Kept
<1> QED
  BY <1>1, <1>2, <1>4, OthersAreKept

LEMMA NothingUndone ==
  ASSUME TypeInv, ExchangeInv, [Next]_vars
  PROVE  \A i \in Known : Kept(i)
<1>0. /\ TypeOK /\ \A i \in Ids : OrderSound(i)
      /\ \A i \in Known : i \in Ids
  BY ByOrder DEF TypeInv, Known
<1>1. ASSUME UNCHANGED orders
      PROVE  \A i \in Known : Kept(i)
  BY <1>0, <1>1, UntouchedIsKept
<1>2. ASSUME NEW i \in Ids, NEW b \in Batches, NEW q \in 1..MaxQty,
             CreateEntry(i, b, q) \/ CreateExit(i, b, q)
      PROVE  \A j \in Known : Kept(j)
  <2>1. orders[i] = NoOrder /\ NoOrder.status = "NONE"
    BY <1>2 DEF CreateEntry, CreateExit, NoOrder
  <2>2. i \notin Known
    BY <2>1 DEF Known
  <2>3. \E o : orders' = [orders EXCEPT ![i] = o]
    BY <1>2 DEF CreateEntry, CreateExit
  <2>4. Others(i)
    BY <1>0, <2>3 DEF Others, TypeOK
  <2> QED
    BY <2>2, <2>4, OthersAreKept
<1>3. ASSUME NEW i \in Ids, SettingsDone(i)
      PROVE  \A j \in Known : Kept(j)
  <2>1. orders[i].status \in Working /\ orders[i] \in Order
        /\ orders[i].filled <= orders[i].qty
    BY <1>0, <1>3 DEF SettingsDone, OrderSound, TypeOK, TypeInv, FillsBounded
  <2> DEFINE o == ApplyUpdate(orders[i], "SUBMITTED", 0, FALSE)
  <2>2. o.filled = orders[i].filled /\ o.status # "NONE" /\ ~IsTerminal(orders[i])
    BY <2>1 DEF ApplyUpdate, IsTerminal, Terminal, Working, Order
  <2>3. orders' = [orders EXCEPT ![i] = o]
    BY <1>3 DEF SettingsDone
  <2> HIDE DEF o
  <2>4. orders'[i] = o /\ Others(i) /\ orders[i].filled \in Nat
    BY <1>0, <2>1, <2>3 DEF Others, TypeOK, Order
  <2>5. Kept(i)
    BY <2>2, <2>4 DEF Kept
  <2> QED
    BY <2>4, <2>5, OthersAreKept
<1>4. ASSUME NEW i \in Ids, SettingsFailed(i) \/ PrewriteFailed(i)
      PROVE  \A j \in Known : Kept(j)
  <2>1. xch[i].st = "none"
    BY <1>0, <1>4 DEF SettingsFailed, PrewriteFailed, OrderSound
  <2>2. CASE Rollback(i)
    <3>1. orders'[i].status = "NONE" /\ Others(i)
      BY <1>0, <2>2 DEF Rollback, NoOrder, Others, TypeOK
    <3> QED
      BY <2>1, <3>1, OthersAreKept DEF Kept
  <2>3. CASE UNCHANGED orders
    BY <1>1, <2>3
  <2> QED
    BY <1>4, <2>2, <2>3 DEF SettingsFailed, PrewriteFailed, book
<1>5. ASSUME NEW i \in Ids, PostRejected(i)
      PROVE  \A j \in Known : Kept(j)
  <2>1. ~IsTerminal(orders[i]) /\ i \in Known
    BY <1>0, <1>5 DEF PostRejected, OrderSound, Known, IsTerminal, Terminal
  <2> DEFINE c == Closed(orders[i], "REJECTED", i \in ExitIds)
  <2>2. c.status = "REJECTED" /\ c.filled = orders[i].filled
    BY DEF Closed
  <2>3. orders' = [orders EXCEPT ![i] = c]
    BY <1>5 DEF PostRejected, MarkOrderRejected
  <2> HIDE DEF c
  <2>4. orders'[i] = c /\ Others(i) /\ orders[i].filled \in Nat
    BY <1>0, <2>3 DEF Others, TypeOK, Order
  <2>5. Kept(i)
    BY <2>1, <2>2, <2>4 DEF Kept
  <2> QED
    BY <2>4, <2>5, OthersAreKept
<1>6. ASSUME NEW i \in Ids, MarkNotSent(i)
      PROVE  \A j \in Known : Kept(j)
  <2>1. CASE UNCHANGED orders
    BY <1>1, <2>1
  <2>2. CASE orders[i].status \in {"SUBMITTED", "RECONCILING"} /\ Absorb(i, "REJECTED", 0, FALSE)
    <3>1. i \in Known /\ "REJECTED" \in OrderStatus
      BY <2>2 DEF Known, OrderStatus, Terminal
    <3> QED
      BY <2>2, <3>1, AbsorbKeeps
  <2> QED
    BY <1>6, <2>1, <2>2 DEF MarkNotSent, book
<1>7. ASSUME NEW f \in stream, Deliver(f)
      PROVE  \A j \in Known : Kept(j)
  <2>1. f.id \in Known /\ f.status \in OrderStatus /\ f.cum \in Nat
    BY <1>0, ByOrder DEF TypeOK, Frame, FrameSound, OrderStatus, Working, Terminal
  <2>2. Absorb(f.id, f.status, f.cum, TRUE)
    BY <1>7 DEF Deliver
  <2> QED
    BY <2>1, <2>2, AbsorbKeeps
<1>8. ASSUME NEW i \in Ids, MarkInDoubt(i) \/ Watchdog(i) \/ CancelUnconfirmed(i)
      PROVE  \A j \in Known : Kept(j)
  <2>1. CASE UNCHANGED orders
    BY <1>1, <2>1
  <2>2. CASE orders[i].status \in Working /\ orders' = [orders EXCEPT ![i] = Doubted(@)]
    BY <1>0, <2>2, UntouchedIsKept DEF TypeOK
  <2> QED
    BY <1>8, <2>1, <2>2 DEF MarkInDoubt, Watchdog, CancelUnconfirmed, Working
<1>9. ASSUME WsDown
      PROVE  \A j \in Known : Kept(j)
  <2>1. CASE UNCHANGED orders
    BY <1>1, <2>1
  <2>2. CASE orders' = [i \in Ids |-> IF i \in Live THEN Doubted(orders[i]) ELSE orders[i]]
    BY <1>0, <2>2, UntouchedIsKept DEF Live
  <2> QED
    BY <1>9, <2>1, <2>2 DEF WsDown
<1>10. ASSUME NEW i \in Ids,
              \/ PrewriteDone(i) \/ PostAccepted(i) \/ PostNotSent(i) \/ PostUnknown(i)
              \/ RejectSaved(i) \/ RejectSaveFailed(i) \/ DoubtSaved(i) \/ DoubtSaveFailed(i)
              \/ XchAccept(i) \/ XchCancel(i) \/ \E n \in 1..MaxQty : XchFill(i, n)
       PROVE  \A j \in Known : Kept(j)
  <2>1. UNCHANGED orders
    BY <1>10 DEF PrewriteDone, PostAccepted, PostNotSent, PostUnknown, RejectSaved,
       RejectSaveFailed, DoubtSaved, DoubtSaveFailed, XchAccept, XchCancel, XchFill, book
  <2> QED
    BY <1>1, <2>1
<1>11. ASSUME \/ \E b \in Batches : BlockedExit(b)
              \/ DeliverForeign \/ Saving \/ LinkBreaks \/ Reconnected
              \/ Heartbeat \/ BeginDrain \/ UNCHANGED vars
       PROVE  \A j \in Known : Kept(j)
  <2>1. UNCHANGED orders
    BY <1>11 DEF BlockedExit, DeliverForeign, Saving, SaveCommitted, SaveRetried, SaveFailed,
       LinkBreaks, Reconnected, Heartbeat, BeginDrain, vars, book
  <2> QED
    BY <1>1, <2>1
<1>12. \A i \in EntryIds \cup ExitIds : i \in Ids
  BY DEF Ids
<1> QED
  BY <1>2, <1>3, <1>4, <1>5, <1>6, <1>7, <1>8, <1>9, <1>10, <1>11, <1>12
     DEF Next, Creation, Submission, ConnectionLost, FillSaveFailed

(* No handler, answer, timer, disconnect or rollback ever shrinks a fill,      *)
(* reopens a finished order, or forgets one that was sent (apply_update,       *)
(* mark_order_rejected, rollback_unsubmitted_order).                           *)
THEOREM NothingIsUndone == Spec => NeverUndone
<1>1. TypeInv /\ ExchangeInv /\ [Next]_vars =>
        [\A i \in Known :
           \/ /\ orders'[i].status # "NONE"
              /\ orders'[i].filled >= orders[i].filled
              /\ IsTerminal(orders[i]) => orders'[i].status = orders[i].status
           \/ orders'[i].status = "NONE" /\ xch[i].st = "none"]_vars
  BY NothingUndone DEF Kept
<1>2. Spec => []ExchangeInv
  BY ExchangeInit, ExchangeStep, TypeInvariance, PTL DEF Spec
<1> QED
  BY <1>1, <1>2, TypeInvariance, PTL DEF Spec, NeverUndone

-------------------------------------------------------------------------------
(* The lots of the batches: AccountState implements Lots, a batch holds what   *)
(* its orders bought and did not sell, and nothing is sold twice.              *)

(* No order asks for more than MaxQty lots.                                    *)
SizesBounded == \A i \in Ids : orders[i].qty <= MaxQty

(* The size of an order is set once.                                           *)
LEMMA SizeStep ==
  ASSUME TypeInv, SizesBounded, [Next]_vars
  PROVE  SizesBounded'
<1>0. /\ TypeOK /\ MaxQty \in Nat
      /\ NoOrder.qty = 0
  BY QtyAssumption DEF TypeInv, NoOrder
<1>1. ASSUME NEW i \in Ids, NEW o, orders' = [orders EXCEPT ![i] = o],
             o.qty = orders[i].qty \/ o.qty \in 0..MaxQty
      PROVE  SizesBounded'
  BY <1>0, <1>1 DEF SizesBounded, TypeOK
<1>2. ASSUME NEW i \in Ids, Rollback(i) \/ MarkOrderRejected(i)
      PROVE  SizesBounded'
  <2>1. Closed(orders[i], "REJECTED", i \in ExitIds).qty = orders[i].qty
    BY DEF Closed
  <2> QED
    BY <1>0, <1>1, <1>2, <2>1 DEF Rollback, MarkOrderRejected
<1>3. ASSUME NEW i \in Ids, NEW new, NEW cum, NEW acked, Absorb(i, new, cum, acked)
      PROVE  SizesBounded'
  <2> DEFINE n == ApplyUpdate(orders[i], new, cum, acked)
             c == Closed(n, n.status, i \in ExitIds /\ n.status \in {"CANCELED", "REJECTED"})
  <2>1. n.qty = orders[i].qty
    BY DEF ApplyUpdate
  <2>2. c.qty = n.qty
    BY DEF Closed
  <2>3. orders' = [orders EXCEPT ![i] = c]
    BY <1>3 DEF Absorb
  <2> HIDE DEF n, c
  <2> QED
    BY <1>1, <2>1, <2>2, <2>3
<1>4. ASSUME orders' = orders
      PROVE  SizesBounded'
  BY <1>4 DEF SizesBounded
<1>5. \A i \in Ids : Doubted(orders[i]).qty = orders[i].qty
  BY <1>0, DoubtType DEF TypeOK
<1>6. ASSUME NEW b \in Batches, NEW q \in 1..MaxQty, NEW i \in Ids,
             (i \in EntryIds /\ CreateEntry(i, b, q)) \/ (i \in ExitIds /\ CreateExit(i, b, q))
      PROVE  SizesBounded'
  <2>1. NewOrder(b, q).qty = q
        /\ ApplyUpdate(NewOrder(b, q), "SUBMITTED", 0, FALSE).qty = q
    BY DEF NewOrder, ApplyUpdate
  <2>2. q \in 0..MaxQty
    OBVIOUS
  <2>3. \/ orders' = [orders EXCEPT ![i] = NewOrder(b, q)]
        \/ orders' = [orders EXCEPT ![i] = ApplyUpdate(NewOrder(b, q), "SUBMITTED", 0, FALSE)]
    BY <1>6 DEF CreateEntry, CreateExit
  <2> QED
    BY <1>1, <2>1, <2>2, <2>3
<1>7. ASSUME NEW i \in Ids, SettingsDone(i)
      PROVE  SizesBounded'
  <2>1. ApplyUpdate(orders[i], "SUBMITTED", 0, FALSE).qty = orders[i].qty
    BY DEF ApplyUpdate
  <2> QED
    BY <1>1, <1>7, <2>1 DEF SettingsDone
<1>8. ASSUME NEW i \in Ids, Watchdog(i) \/ CancelUnconfirmed(i) \/ MarkInDoubt(i)
      PROVE  SizesBounded'
  BY <1>1, <1>4, <1>5, <1>8 DEF Watchdog, CancelUnconfirmed, MarkInDoubt
<1>9. ASSUME WsDown PROVE SizesBounded'
  BY <1>5, <1>9 DEF WsDown, SizesBounded
<1>10. ASSUME NEW i \in Ids, SettingsFailed(i) \/ PrewriteFailed(i) \/ PostRejected(i)
       PROVE  SizesBounded'
  BY <1>2, <1>4, <1>10 DEF SettingsFailed, PrewriteFailed, PostRejected, book
<1>11. ASSUME NEW i \in Ids, MarkNotSent(i)
       PROVE  SizesBounded'
  BY <1>3, <1>4, <1>11 DEF MarkNotSent, book
<1>12. ASSUME NEW f \in stream, Deliver(f)
       PROVE  SizesBounded'
  <2>1. f.id \in Ids
    BY <1>0 DEF TypeOK, Frame
  <2> QED
    BY <1>3, <1>12, <2>1 DEF Deliver
<1>13. ASSUME NEW i \in Ids,
              \/ PrewriteDone(i) \/ PostAccepted(i) \/ PostNotSent(i) \/ PostUnknown(i)
              \/ RejectSaved(i) \/ RejectSaveFailed(i) \/ DoubtSaved(i)
              \/ DoubtSaveFailed(i) \/ XchAccept(i) \/ XchCancel(i)
              \/ \E n \in 1..MaxQty : XchFill(i, n)
       PROVE  SizesBounded'
  <2>1. orders' = orders
    BY <1>13 DEF PrewriteDone, PostAccepted, PostNotSent, PostUnknown, RejectSaved,
                 RejectSaveFailed, DoubtSaved, DoubtSaveFailed, XchAccept, XchCancel,
                 XchFill, book
  <2> QED
    BY <1>4, <2>1
<1>14. ASSUME \/ DeliverForeign \/ BeginDrain \/ LinkBreaks \/ Heartbeat \/ Reconnected
              \/ Saving \/ UNCHANGED vars \/ \E b \in Batches : BlockedExit(b)
       PROVE  SizesBounded'
  <2>1. orders' = orders
    BY <1>14 DEF DeliverForeign, BeginDrain, LinkBreaks, Heartbeat, Reconnected, Saving,
                 SaveCommitted, SaveRetried, SaveFailed, BlockedExit, vars, book
  <2> QED
    BY <1>4, <2>1
<1>15. \A i \in EntryIds \cup ExitIds : i \in Ids
  BY DEF Ids
<1> QED
  BY <1>6, <1>7, <1>8, <1>9, <1>10, <1>11, <1>12, <1>13, <1>14, <1>15
     DEF Next, Creation, Submission, ConnectionLost, FillSaveFailed

-------------------------------------------------------------------------------
(* A step of the account as Lots sees it.                                      *)
LotsStep == [AsLots!Next]_(AsLots!vars)

(* What becomes of the lots of one batch while the others keep theirs.         *)
Becomes(b, q, e) ==
  \A c \in Batches : /\ batches'[c].qty = IF c = b THEN q ELSE batches[c].qty
                     /\ batches'[c].exiting = IF c = b THEN e ELSE batches[c].exiting

(* Lots are compared batch by batch.                                           *)
LEMMA AsMaps ==
  ASSUME NEW b \in Batches, NEW q, NEW e, Becomes(b, q, e)
  PROVE  /\ [c \in Batches |-> batches'[c].qty] =
              [[c \in Batches |-> batches[c].qty] EXCEPT ![b] = q]
         /\ [c \in Batches |-> batches'[c].exiting] =
              [[c \in Batches |-> batches[c].exiting] EXCEPT ![b] = e]
  BY DEF Becomes

(* Lots sold out of those kept are a sale.                                     *)
LEMMA IsSale ==
  ASSUME NEW b \in Batches, NEW n \in 0..MaxQty, NEW settled \in BOOLEAN,
         n <= batches[b].exiting,
         Becomes(b, batches[b].qty - n, IF settled THEN 0 ELSE batches[b].exiting - n)
  PROVE  LotsStep
<1> DEFINE h == [c \in Batches |-> batches[c].qty]
           k == [c \in Batches |-> batches[c].exiting]
           e == IF settled THEN 0 ELSE batches[b].exiting - n
<1>0. h[b] = batches[b].qty /\ k[b] = batches[b].exiting
  OBVIOUS
<1>1. AsLots!Sell(b, n, settled)
  <2> HIDE DEF h, k, e
  <2>1. Becomes(b, batches[b].qty - n, e)
    BY DEF e
  <2>2. /\ [c \in Batches |-> batches'[c].qty] = [h EXCEPT ![b] = batches[b].qty - n]
        /\ [c \in Batches |-> batches'[c].exiting] = [k EXCEPT ![b] = e]
    BY <2>1, AsMaps DEF h, k
  <2>3. /\ [h EXCEPT ![b] = batches[b].qty - n] = [h EXCEPT ![b] = @ - n]
        /\ [k EXCEPT ![b] = e] = [k EXCEPT ![b] = IF settled THEN 0 ELSE @ - n]
    BY <1>0 DEF e
  <2>4. n <= k[b]
    BY <1>0
  <2> QED
    BY <2>2, <2>3, <2>4 DEF AsLots!Sell, h, k
<1> QED
  BY <1>1 DEF LotsStep, AsLots!Next

(* Lots bought are a purchase.                                                 *)
LEMMA IsPurchase ==
  ASSUME NEW b \in Batches, NEW n \in 1..MaxQty,
         Becomes(b, batches[b].qty + n, batches[b].exiting)
  PROVE  LotsStep
<1>1. AsLots!Buy(b, n)
  <2>1. [c \in Batches |-> batches'[c].qty] =
              [[c \in Batches |-> batches[c].qty] EXCEPT ![b] = batches[b].qty + n]
    BY AsMaps
  <2>2. [c \in Batches |-> batches'[c].exiting] = [c \in Batches |-> batches[c].exiting]
    BY DEF Becomes
  <2> QED
    BY <2>1, <2>2 DEF AsLots!Buy
<1> QED
  BY <1>1 DEF LotsStep, AsLots!Next

(* When no batch changes its lots, nothing happens.                            *)
LEMMA IsStutter ==
  ASSUME \A c \in Batches : /\ batches'[c].qty = batches[c].qty
                            /\ batches'[c].exiting = batches[c].exiting
  PROVE  LotsStep
<1>1. /\ [c \in Batches |-> batches'[c].qty] = [c \in Batches |-> batches[c].qty]
      /\ [c \in Batches |-> batches'[c].exiting] = [c \in Batches |-> batches[c].exiting]
  OBVIOUS
<1> QED
  BY <1>1 DEF LotsStep, AsLots!vars

-------------------------------------------------------------------------------
(* Giving lots back changes what is kept, never what is held.                  *)
LEMMA ReleaseHolds ==
  ASSUME NEW o, NEW b
  PROVE  ReleaseBatchReservation(o, b).qty = b.qty
  BY DEF ReleaseBatchReservation, ReleaseExitReservation

(* An exit that ends without news is settled with nothing sold; an entry that  *)
(* does leaves no mark.                                                        *)
LEMMA EndedMaps ==
  ASSUME TypeInv, BookInv, NEW i \in Live, orders[i].batch \in Batches,
         Rollback(i) \/ MarkOrderRejected(i)
  PROVE  LotsStep
<1> DEFINE b == orders[i].batch
<1>0. TypeOK /\ i \in Ids /\ MaxQty \in Nat
  BY QtyAssumption DEF TypeInv, Live
<1>1. batches' = Released(i, orders[i]) /\ ReleaseLock(i)
  BY DEF Rollback, MarkOrderRejected
<1>2. CASE i \in ExitIds
  <2>1. exitLock[b] = i
    BY <1>0, <1>2 DEF BookInv, LocksMatchOrders
  <2>2. exitLock'[b] = None
    BY <1>0, <1>1, <1>2, <2>1 DEF ReleaseLock, Unlock, TypeOK
  <2>3. ReservationExact'
    BY EndedBook DEF BookInv
  <2>4. batches'[b].exiting = 0
    BY <2>2, <2>3 DEF ReservationExact, Owed
  <2>5. batches'[b] = ReleaseBatchReservation(orders[i], batches[b])
        /\ \A c \in Batches \ {b} : batches'[c] = batches[c]
    BY <1>0, <1>1, <1>2 DEF Released, TypeOK
  <2>6. batches'[b].qty = batches[b].qty
    BY <2>5, ReleaseHolds
  <2>7. batches[b].qty \in Nat /\ batches[b].exiting \in Nat
    BY <1>0 DEF TypeOK, Batch
  <2> HIDE DEF b
  <2>8. Becomes(b, batches[b].qty - 0, IF TRUE THEN 0 ELSE batches[b].exiting - 0)
    BY <2>4, <2>5, <2>6, <2>7 DEF Becomes
  <2>9. b \in Batches /\ 0 \in 0..MaxQty /\ TRUE \in BOOLEAN /\ 0 <= batches[b].exiting
    BY <1>0, <2>7 DEF b
  <2> QED
    BY <2>8, <2>9, IsSale
<1>3. CASE i \notin ExitIds
  <2>1. batches' = batches
    BY <1>1, <1>3 DEF Released
  <2> QED
    BY <2>1, IsStutter
<1> QED
  BY <1>2, <1>3

(* News of an exit are lots sold, settled when the order ends; news of an      *)
(* entry are lots bought.                                                      *)
LEMMA AbsorbMaps ==
  ASSUME TypeInv, BookInv, SizesBounded, NEW i \in Ids, orders[i].batch \in Batches,
         orders[i].status # "NONE",
         NEW new \in OrderStatus, NEW cum \in Nat, NEW acked \in BOOLEAN,
         Absorb(i, new, cum, acked),
         new = "FILLED" => cum = orders[i].qty,
         IsTerminal(orders[i]) => cum <= orders[i].filled
  PROVE  LotsStep
<1> DEFINE o     == orders[i]
           b     == o.batch
           n     == ApplyUpdate(o, new, cum, acked)
           delta == n.filled - o.filled
           gives == i \in ExitIds /\ n.status \in {"CANCELED", "REJECTED"}
           c     == Closed(n, n.status, gives)
           freed == IF gives THEN Released(i, n) ELSE batches
           done  == IsTerminal(n)
<1>0. /\ TypeOK /\ o \in Order /\ o.filled <= o.qty /\ o.qty <= MaxQty /\ MaxQty \in Nat
      /\ LocksMatchOrders /\ ReleasedWhenEnded /\ ReservationExact
      /\ b \in Batches /\ batches[b] \in Batch
  BY QtyAssumption DEF TypeInv, TypeOK, FillsBounded, BookInv, SizesBounded
<1>1. /\ n \in Order
      /\ n.batch = b /\ n.qty = o.qty /\ n.released = o.released
      /\ o.filled <= n.filled /\ n.filled <= n.qty
      /\ n.filled = o.filled \/ n.filled <= cum
      /\ IsTerminal(o) => n.status = o.status
  BY <1>0, ApplyUpdateType
<1>2. o.filled \in Nat /\ o.qty \in Nat /\ n.filled \in Nat /\ n.qty \in Nat
  BY <1>0, <1>1 DEF Order
<1>3. delta \in 0..MaxQty /\ delta <= o.qty - o.filled /\ done \in BOOLEAN
  BY <1>0, <1>1, <1>2 DEF IsTerminal
<1>4. c.qty = n.qty /\ c.filled = n.filled
  BY DEF Closed
<1>5. /\ orders' = [orders EXCEPT ![i] = c]
      /\ batches' = IF delta = 0 THEN freed
                    ELSE [freed EXCEPT ![b] =
                            IF i \in ExitIds THEN ExitFill(@, delta, done)
                            ELSE EntryFill(@, delta)]
      /\ done => ReleaseLock(i)
      /\ ~done => UNCHANGED <<entryLock, exitLock>>
  BY DEF Absorb
<1>6. IsTerminal(o) => delta = 0
  BY <1>1, <1>2
<1>7. freed \in [Batches -> Batch]
  BY <1>1, ReleasedType DEF TypeInv, TypeOK, BookType
<1>8. freed[b].qty = batches[b].qty /\ \A d \in Batches \ {b} : freed[d] = batches[d]
  BY <1>0, <1>1, ReleaseHolds DEF Released, TypeOK
<1>9. ReservationExact'
  BY AbsorbBook DEF BookInv
<1> HIDE DEF n, c, freed, done
<1>10. \A d \in Batches \ {b} : batches'[d] = batches[d]
  BY <1>5, <1>7, <1>8
<1>11. CASE i \in ExitIds /\ o.status \in Working
  <2>1. i \in Live /\ exitLock[b] = i /\ i # None
    BY <1>0, <1>11, IdsAssumption DEF LocksMatchOrders, Live
  <2>2. batches[b].exiting = o.qty - o.filled /\ batches[b].exiting <= batches[b].qty
    BY <1>0, <2>1 DEF ReservationExact, Owed
  <2>3. batches[b].exiting \in Nat /\ batches[b].qty \in Nat
    BY <1>0 DEF Batch
  <2>4. delta \in Nat /\ delta <= batches[b].exiting
    BY <1>3, <2>2
  <2>5. batches'[b].qty = batches[b].qty - delta
    <3>1. batches'[b] = IF delta = 0 THEN freed[b] ELSE ExitFill(freed[b], delta, done)
      BY <1>0, <1>5, <1>7, <1>11
    <3>2. ExitFill(freed[b], delta, done).qty = Above0(freed[b].qty - delta)
      BY DEF ExitFill
    <3>3. Above0(freed[b].qty - delta) = batches[b].qty - delta
      BY <1>8, <2>2, <2>3, <2>4 DEF Above0
    <3> HIDE DEF delta
    <3> QED
      BY <1>8, <2>3, <3>1, <3>2, <3>3
  <2>6. batches'[b].exiting = IF done THEN 0 ELSE batches[b].exiting - delta
    <3>1. CASE done
      <4>1. exitLock'[b] = None
        BY <1>0, <1>5, <1>11, <2>1, <3>1 DEF ReleaseLock, Unlock, TypeOK
      <4> QED
        BY <1>0, <1>9, <3>1, <4>1 DEF ReservationExact, Owed
    <3>2. CASE ~done
      <4>1. exitLock'[b] = i /\ orders'[i] = c
        BY <1>0, <1>5, <2>1, <3>2 DEF TypeOK
      <4>2. batches'[b].exiting = n.qty - n.filled
        BY <1>0, <1>4, <1>9, <2>1, <4>1 DEF ReservationExact, Owed
      <4> QED
        BY <1>1, <1>2, <2>2, <3>2, <4>2
    <3> QED
      BY <3>1, <3>2
  <2> HIDE DEF delta, b
  <2>7. Becomes(b, batches[b].qty - delta, IF done THEN 0 ELSE batches[b].exiting - delta)
    BY <1>10, <2>5, <2>6 DEF Becomes
  <2> QED
    BY <1>0, <1>3, <2>4, <2>7, IsSale
<1>12. CASE i \in ExitIds /\ o.status \notin Working
  <2>1. IsTerminal(o) /\ delta = 0 /\ n.status = o.status
    BY <1>0, <1>1, <1>6, <1>12 DEF IsTerminal, Order, OrderStatus
  <2>2. gives => n.released
    BY <1>0, <1>1, <1>12, <2>1 DEF ReleasedWhenEnded
  <2>3. batches'[b] = batches[b]
    BY <1>0, <1>1, <1>5, <2>1, <2>2 DEF freed, Released, ReleaseBatchReservation, TypeOK
  <2> QED
    BY <1>10, <2>3, IsStutter
<1>13. CASE i \notin ExitIds
  <2>1. batches' = IF delta = 0 THEN batches
                   ELSE [batches EXCEPT ![b] = EntryFill(@, delta)]
    BY <1>5, <1>13 DEF freed
  <2>2. CASE delta = 0
    BY <2>1, <2>2, IsStutter
  <2>3. CASE delta # 0
    <3>1. batches'[b] = EntryFill(batches[b], delta)
      BY <1>0, <2>1, <2>3 DEF TypeOK
    <3>2. EntryFill(batches[b], delta).qty = batches[b].qty + delta
          /\ EntryFill(batches[b], delta).exiting = batches[b].exiting
      BY DEF EntryFill
    <3>3. delta \in 1..MaxQty
      BY <1>0, <1>3, <2>3
    <3> HIDE DEF delta, b
    <3>4. Becomes(b, batches[b].qty + delta, batches[b].exiting)
      BY <1>10, <3>1, <3>2 DEF Becomes
    <3> QED
      BY <1>0, <3>3, <3>4, IsPurchase
  <2> QED
    BY <2>2, <2>3
<1> QED
  BY <1>11, <1>12, <1>13

-------------------------------------------------------------------------------
(* Every step of the account is a step of Lots, or none.                       *)
LEMMA StepMaps ==
  ASSUME TypeInv, ExchangeInv, BookInv, SizesBounded, [Next]_vars
  PROVE  LotsStep
<1>0. /\ TypeOK
      /\ \A i \in Ids : OrderSound(i)
      /\ \A f \in stream : FrameSound(f)
      /\ LocksMatchOrders /\ ReservationExact
  BY ByOrder DEF TypeInv, BookInv
<1>1. ASSUME batches' = batches
      PROVE  LotsStep
  BY <1>1, IsStutter
<1>2. ASSUME NEW i \in ExitIds, NEW b \in Batches, NEW q \in 1..MaxQty,
             CreateExit(i, b, q)
      PROVE  LotsStep
  <2> DEFINE h == [c \in Batches |-> batches[c].qty]
             k == [c \in Batches |-> batches[c].exiting]
             r == Exiting(ReserveForExit(batches[b], q))
  <2>1. batches[b].exiting = 0 /\ batches[b].qty \in Nat
    BY <1>0, <1>2 DEF CreateExit, ReservationExact, Owed, TypeOK, Batch
  <2>2. batches' = [batches EXCEPT ![b] = r] /\ q <= batches[b].qty - batches[b].exiting
    BY <1>2 DEF CreateExit, CanReserve
  <2>3. r.qty = batches[b].qty /\ r.exiting = batches[b].exiting + q
    BY DEF Exiting, ReserveForExit
  <2> HIDE DEF r
  <2>4. Becomes(b, batches[b].qty, q)
    BY <1>0, <2>1, <2>2, <2>3 DEF Becomes, TypeOK
  <2>5. [c \in Batches |-> batches'[c].exiting] = [k EXCEPT ![b] = q]
    BY <2>4, AsMaps
  <2>6. [c \in Batches |-> batches'[c].qty] = h
    BY <2>4 DEF Becomes
  <2>7. k[b] = 0 /\ q <= h[b]
    BY <2>1, <2>2
  <2>8. AsLots!Keep(b, q)
    BY <2>5, <2>6, <2>7 DEF AsLots!Keep
  <2> QED
    BY <2>8 DEF LotsStep, AsLots!Next
<1>3. ASSUME NEW b \in Batches, BlockedExit(b)
      PROVE  LotsStep
  <2>1. Exiting(batches[b]).qty = batches[b].qty
        /\ Exiting(batches[b]).exiting = batches[b].exiting
    BY DEF Exiting
  <2> QED
    BY <1>0, <1>3, <2>1, IsStutter DEF BlockedExit, TypeOK
<1>4. ASSUME NEW i \in Ids, SettingsFailed(i) \/ PrewriteFailed(i)
      PROVE  LotsStep
  <2>1. CASE Rollback(i)
    <3>1. i \in Live /\ orders[i].batch \in Batches
      BY <1>0, <1>4 DEF SettingsFailed, PrewriteFailed, OrderSound, Live, Working
    <3> QED
      BY <2>1, <3>1, EndedMaps
  <2>2. CASE UNCHANGED book
    BY <1>1, <2>2 DEF book
  <2> QED
    BY <1>4, <2>1, <2>2 DEF SettingsFailed, PrewriteFailed
<1>5. ASSUME NEW i \in Ids, PostRejected(i)
      PROVE  LotsStep
  <2>1. xch[i].st = "sent" /\ OrderSound(i) /\ orders[i] \in Order
    BY <1>0, <1>5 DEF PostRejected, TypeOK
  <2>2. i \in Live /\ orders[i].batch \in Batches
    BY <2>1 DEF OrderSound, Live, IsTerminal, Order, OrderStatus
  <2> QED
    BY <1>5, <2>2, EndedMaps DEF PostRejected
<1>6. ASSUME NEW i \in Ids, MarkNotSent(i)
      PROVE  LotsStep
  <2>1. CASE UNCHANGED book
    BY <1>1, <2>1 DEF book
  <2>2. CASE Absorb(i, "REJECTED", 0, FALSE)
             /\ orders[i].status \in {"SUBMITTED", "RECONCILING"}
    <3>1. orders[i].batch \in Batches /\ orders[i].status # "NONE"
          /\ ~IsTerminal(orders[i])
      BY <1>0, <2>2 DEF OrderSound, IsTerminal, Terminal
    <3>2. "REJECTED" \in OrderStatus /\ 0 \in Nat /\ FALSE \in BOOLEAN
      BY DEF OrderStatus, Terminal
    <3> QED
      BY <2>2, <3>1, <3>2, AbsorbMaps
  <2> QED
    BY <1>6, <2>1, <2>2 DEF MarkNotSent
<1>7. ASSUME NEW f \in stream, Deliver(f)
      PROVE  LotsStep
  <2>1. /\ f.id \in Ids /\ f.cum \in Nat /\ TRUE \in BOOLEAN
        /\ f.status \in OrderStatus /\ FrameSound(f) /\ OrderSound(f.id)
    BY <1>0 DEF TypeOK, Frame, OrderStatus, Terminal, Working
  <2>2. /\ orders[f.id].status # "NONE" /\ orders[f.id].batch \in Batches
        /\ f.status = "FILLED" => f.cum = orders[f.id].qty
        /\ IsTerminal(orders[f.id]) => f.cum <= orders[f.id].filled
    BY <2>1 DEF FrameSound, OrderSound, Known
  <2> QED
    BY <1>7, <2>1, <2>2, AbsorbMaps DEF Deliver
<1>8. ASSUME NEW i \in Ids,
             \/ SettingsDone(i) \/ PrewriteDone(i) \/ PostAccepted(i) \/ PostNotSent(i)
             \/ PostUnknown(i) \/ RejectSaved(i) \/ RejectSaveFailed(i) \/ MarkInDoubt(i)
             \/ DoubtSaved(i) \/ DoubtSaveFailed(i) \/ Watchdog(i) \/ CancelUnconfirmed(i)
             \/ XchAccept(i) \/ XchCancel(i) \/ \E n \in 1..MaxQty : XchFill(i, n)
      PROVE  LotsStep
  <2>1. batches' = batches
    BY <1>8 DEF SettingsDone, PrewriteDone, PostAccepted, PostNotSent, PostUnknown,
                RejectSaved, RejectSaveFailed, MarkInDoubt, DoubtSaved, DoubtSaveFailed,
                Watchdog, CancelUnconfirmed, XchAccept, XchCancel, XchFill, book
  <2> QED
    BY <1>1, <2>1
<1>9. ASSUME \/ \E b \in Batches, q \in 1..MaxQty, i \in EntryIds : CreateEntry(i, b, q)
             \/ DeliverForeign \/ Saving \/ LinkBreaks \/ ConnectionLost
             \/ FillSaveFailed \/ Reconnected \/ Heartbeat \/ BeginDrain
             \/ UNCHANGED vars
      PROVE  LotsStep
  <2>1. batches' = batches
    BY <1>9 DEF CreateEntry, DeliverForeign, Saving, SaveCommitted, SaveRetried,
                SaveFailed, LinkBreaks, ConnectionLost, FillSaveFailed, WsDown,
                Reconnected, Heartbeat, BeginDrain, book, vars
  <2> QED
    BY <1>1, <2>1
<1> QED
  BY <1>2, <1>3, <1>4, <1>5, <1>6, <1>7, <1>8, <1>9 DEF Next, Creation, Submission

(* Both start with the lots the batches hold and none kept.                    *)
LEMMA InitMaps == Init => AsLots!Init
<1> SUFFICES ASSUME Init PROVE AsLots!Init
  OBVIOUS
<1>1. \A b \in Batches : batches[b].qty = Start[b] /\ batches[b].exiting = 0
  BY StartAssumption DEF Init, NoBatch
<1>2. [b \in Batches |-> batches[b].qty] = Start
      /\ [b \in Batches |-> batches[b].exiting] = [b \in Batches |-> 0]
  BY <1>1, StartAssumption
<1> QED
  BY <1>2 DEF AsLots!Init

(* Whatever fills, refusals, time-outs, rollbacks and cancellations do to the  *)
(* orders of a batch, and in whatever order, its lots are only bought by       *)
(* entries, kept for one exit at a time, and sold out of those kept            *)
(* (create_exit_order, rollback_unsubmitted_order, mark_order_rejected,        *)
(* _apply_order_trade_update).                                                 *)
THEOREM AccountImplementsLots == Spec => ImplementsLots
<1>1. Spec => []ExchangeInv
  BY ExchangeInit, ExchangeStep, TypeInvariance, PTL DEF Spec
<1>2. Spec => []BookInv
  BY <1>1, BookInit, BookStep, TypeInvariance, PTL DEF Spec
<1>3. Init => SizesBounded
  BY QtyAssumption DEF Init, SizesBounded, NoOrder
<1>4. Spec => []SizesBounded
  BY <1>3, SizeStep, TypeInvariance, PTL DEF Spec
<1>5. TypeInv /\ ExchangeInv /\ BookInv /\ SizesBounded /\ [Next]_vars
        => [AsLots!Next]_(AsLots!vars)
  BY StepMaps DEF LotsStep
<1> QED
  BY <1>1, <1>2, <1>4, <1>5, InitMaps, TypeInvariance, PTL
     DEF Spec, ImplementsLots, AsLots!Spec

-------------------------------------------------------------------------------
(* The sums over the orders of a batch.  They are finite because every order   *)
(* was created, one at a time.                                                 *)
LotsInv == IsFiniteSet(Known) /\ BatchesAddUp

(* What order i adds to the fills of one side of batch b.                      *)
Part(S, b, i) == IF i \in S /\ orders[i].batch = b THEN orders[i].filled ELSE 0

LEMMA OrdersAreFinite ==
  ASSUME ExchangeInv, IsFiniteSet(Known), NEW S \in SUBSET Ids, NEW b \in Batches
  PROVE  IsFiniteSet(OrdersOf(S, b))
<1>1. \A i \in Ids : orders[i].batch = b => i \in Known
  BY IdsAssumption DEF ExchangeInv, UnknownIsFresh, NoOrder, Known
<1>2. OrdersOf(S, b) \subseteq Known
  BY <1>1 DEF OrdersOf
<1> QED
  BY <1>2, FS_Subset

(* When one order changes, the fills of its side change by what it filled.     *)
LEMMA OneOrderFills ==
  ASSUME TypeOK, TypeOK', ExchangeInv, IsFiniteSet(Known), NEW i \in Ids,
         \A j \in Ids \ {i} : orders'[j] = orders[j],
         NEW S \in SUBSET Ids, NEW b \in Batches
  PROVE  /\ FilledBy(S, b)' = FilledBy(S, b) + (Part(S, b, i)' - Part(S, b, i))
         /\ FilledBy(S, b) \in Int /\ FilledBy(S, b)' \in Int
<1> DEFINE A  == OrdersOf(S, b)
           B  == {j \in S : orders'[j].batch = b}
           f  == [j \in Ids |-> orders[j].filled]
           e  == [j \in Ids |-> orders'[j].filled]
           R  == A \ {i}
<1>1. A \subseteq Ids /\ B \subseteq Ids /\ B \ {i} = R /\ B \subseteq A \cup {i}
  BY DEF OrdersOf
<1>2. IsFiniteSet(A) /\ IsFiniteSet(B) /\ IsFiniteSet(R)
  BY <1>1, OrdersAreFinite, FS_AddElement, FS_Subset
<1>3. /\ \A j \in Ids : f[j] \in Int /\ e[j] \in Int
      /\ \A j \in R : e[j] = f[j]
  BY <1>1 DEF TypeOK, Order
<1>4. FilledBy(S, b) = SumFunctionOnSet(f, A) /\ FilledBy(S, b)' = SumFunctionOnSet(e, B)
  BY DEF FilledBy, OrdersOf
<1>5. /\ Part(S, b, i) = IF i \in A THEN f[i] ELSE 0
      /\ Part(S, b, i)' = IF i \in B THEN e[i] ELSE 0
  BY DEF Part, OrdersOf
<1> DEFINE p == Part(S, b, i)
           q == Part(S, b, i)'
           r == SumFunctionOnSet(f, R)
<1> HIDE DEF A, B, f, e, R, p, q, r
<1>6. SumFunctionOnSet(f, A) = p + r
  BY <1>1, <1>2, <1>3, <1>5, SumSplit DEF p, r, R
<1>7. SumFunctionOnSet(e, R) = r
  BY <1>2, <1>3, SumSame DEF r
<1>8. SumFunctionOnSet(e, B) = q + r
  BY <1>1, <1>2, <1>3, <1>5, <1>7, SumSplit DEF q
<1>9. r \in Int
  BY <1>1, <1>2, <1>3, SumInt DEF r, R
<1>10. p \in Int /\ q \in Int
  BY <1>3, <1>5 DEF p, q
<1>11. SumFunctionOnSet(f, A) \in Int /\ SumFunctionOnSet(e, B) \in Int
  BY <1>6, <1>8, <1>9, <1>10
<1>12. q + r = (p + r) + (q - p)
  BY <1>9, <1>10
<1> QED
  BY <1>4, <1>6, <1>8, <1>11, <1>12 DEF p, q

(* So it is enough that the lots of the batches change by as much.             *)
LEMMA OneOrderAddsUp ==
  ASSUME TypeOK, TypeOK', ExchangeInv, LotsInv, NEW i \in Ids,
         \A j \in Ids \ {i} : orders'[j] = orders[j],
         \A b \in Batches :
           batches'[b].qty = batches[b].qty + (Part(EntryIds, b, i)' - Part(EntryIds, b, i))
                                            - (Part(ExitIds, b, i)' - Part(ExitIds, b, i))
  PROVE  LotsInv'
<1>1. Known' \subseteq Known \cup {i}
  BY DEF Known
<1>2. IsFiniteSet(Known')
  BY <1>1, FS_AddElement, FS_Subset DEF LotsInv
<1>3. ASSUME NEW b \in Batches
      PROVE  batches'[b].qty = Start[b] + FilledBy(EntryIds, b)' - FilledBy(ExitIds, b)'
  <2> DEFINE n  == FilledBy(EntryIds, b)
             x  == FilledBy(ExitIds, b)
             dn == Part(EntryIds, b, i)' - Part(EntryIds, b, i)
             dx == Part(ExitIds, b, i)' - Part(ExitIds, b, i)
  <2>1. EntryIds \in SUBSET Ids /\ ExitIds \in SUBSET Ids /\ IsFiniteSet(Known)
    BY DEF Ids, LotsInv
  <2>2. n' = n + dn /\ x' = x + dx /\ n \in Int /\ x \in Int
    BY <2>1, OneOrderFills
  <2>3. dn \in Int /\ dx \in Int
    BY DEF Part, TypeOK, Order
  <2>4. batches[b].qty = Start[b] + n - x /\ Start[b] \in Int
    BY StartAssumption DEF LotsInv, BatchesAddUp
  <2>5. batches'[b].qty = batches[b].qty + dn - dx
    OBVIOUS
  <2> HIDE DEF n, x, dn, dx
  <2>6. batches'[b].qty = Start[b] + n' - x'
    BY <2>2, <2>3, <2>4, <2>5
  <2> QED
    BY <2>6 DEF n, x
<1> QED
  BY <1>2, <1>3 DEF LotsInv, BatchesAddUp

(* Nothing is bought or sold by a step that leaves the fills alone.            *)
LEMMA QuietAddsUp ==
  ASSUME TypeOK, LotsInv,
         \A i \in Ids : /\ orders'[i].filled = orders[i].filled
                        /\ orders'[i].batch = orders[i].batch
                        /\ orders[i].status = "NONE" => orders'[i].status = "NONE",
         \A b \in Batches : batches'[b].qty = batches[b].qty
  PROVE  LotsInv'
<1>1. Known' \subseteq Known
  BY DEF Known
<1>2. IsFiniteSet(Known')
  BY <1>1, FS_Subset DEF LotsInv
<1>3. ASSUME NEW S \in SUBSET Ids, NEW b \in Batches
      PROVE  FilledBy(S, b)' = FilledBy(S, b)
  <2>1. [i \in Ids |-> orders'[i].filled] = [i \in Ids |-> orders[i].filled]
    OBVIOUS
  <2>2. OrdersOf(S, b)' = OrdersOf(S, b)
    BY DEF OrdersOf
  <2> QED
    BY <2>1, <2>2 DEF FilledBy
<1>4. EntryIds \in SUBSET Ids /\ ExitIds \in SUBSET Ids
  BY DEF Ids
<1>5. ASSUME NEW b \in Batches
      PROVE  batches'[b].qty = Start[b] + FilledBy(EntryIds, b)' - FilledBy(ExitIds, b)'
  <2>1. FilledBy(EntryIds, b)' = FilledBy(EntryIds, b)
        /\ FilledBy(ExitIds, b)' = FilledBy(ExitIds, b)
    BY <1>3, <1>4
  <2> QED
    BY <2>1 DEF LotsInv, BatchesAddUp
<1> QED
  BY <1>2, <1>5 DEF LotsInv, BatchesAddUp

(* News of an order change its batch by what they add to its fills: an exit    *)
(* sells no more than it reserved, so the batch never clamps at zero.          *)
LEMMA AbsorbCounts ==
  ASSUME TypeInv, BookInv, NEW i \in Ids, orders[i].batch \in Batches,
         orders[i].status # "NONE",
         NEW new \in OrderStatus, NEW cum \in Nat, NEW acked \in BOOLEAN,
         Absorb(i, new, cum, acked),
         IsTerminal(orders[i]) => cum <= orders[i].filled
  PROVE  \A b \in Batches :
           batches'[b].qty = batches[b].qty + (Part(EntryIds, b, i)' - Part(EntryIds, b, i))
                                            - (Part(ExitIds, b, i)' - Part(ExitIds, b, i))
<1>b. PICK b \in Batches : b = orders[i].batch
  OBVIOUS
<1> DEFINE o     == orders[i]
           n     == ApplyUpdate(o, new, cum, acked)
           delta == n.filled - o.filled
           gives == i \in ExitIds /\ n.status \in {"CANCELED", "REJECTED"}
           c     == Closed(n, n.status, gives)
           freed == IF gives THEN Released(i, n) ELSE batches
           done  == IsTerminal(n)
<1>0. /\ TypeOK /\ o \in Order /\ o.filled <= o.qty
      /\ LocksMatchOrders /\ ReservationExact
      /\ o.batch = b /\ batches[b] \in Batch
  BY <1>b DEF TypeInv, TypeOK, FillsBounded, BookInv
<1>1. /\ n \in Order /\ n.batch = b
      /\ o.filled <= n.filled /\ n.filled <= n.qty /\ n.qty = o.qty
      /\ n.filled = o.filled \/ n.filled <= cum
  BY <1>0, ApplyUpdateType
<1>2. o.filled \in Nat /\ o.qty \in Nat /\ n.filled \in Nat
  BY <1>0, <1>1 DEF Order
<1>3. delta \in Nat /\ delta <= o.qty - o.filled /\ (IsTerminal(o) => delta = 0)
  BY <1>0, <1>1, <1>2
<1>4. c.batch = b /\ c.filled = n.filled
  BY <1>1 DEF Closed
<1>5. /\ orders' = [orders EXCEPT ![i] = c]
      /\ batches' = IF delta = 0 THEN freed
                    ELSE [freed EXCEPT ![b] =
                            IF i \in ExitIds THEN ExitFill(@, delta, done)
                            ELSE EntryFill(@, delta)]
  BY <1>b DEF Absorb
<1>6. freed \in [Batches -> Batch]
  BY <1>1, ReleasedType DEF TypeInv, TypeOK, BookType
<1>7. freed[b].qty = batches[b].qty /\ \A d \in Batches \ {b} : freed[d] = batches[d]
  BY <1>0, <1>1, ReleaseHolds DEF Released, TypeOK
<1>8. orders'[i] = c
  BY <1>0, <1>5 DEF TypeOK
<1> HIDE DEF n, c, freed, done
<1>9. \A d \in Batches \ {b} : batches'[d] = batches[d]
  BY <1>5, <1>6, <1>7
<1>10. batches[b].qty \in Nat
  BY <1>0 DEF Batch
<1>11. batches'[b].qty = batches[b].qty + (IF i \in ExitIds THEN 0 - delta ELSE delta)
  <2>1. CASE delta = 0
    <3>1. batches'[b].qty = batches[b].qty
      BY <1>5, <1>7, <2>1
    <3> HIDE DEF delta
    <3> QED
      BY <1>10, <2>1, <3>1
  <2>2. CASE delta # 0 /\ i \in ExitIds
    <3>1. o.status \in Working
      BY <1>0, <1>3, <2>2 DEF IsTerminal, Order, OrderStatus
    <3>2. exitLock[b] = i /\ i # None
      BY <1>0, <2>2, <3>1, IdsAssumption DEF LocksMatchOrders, Live
    <3>3. batches[b].exiting = o.qty - o.filled /\ batches[b].exiting <= batches[b].qty
      BY <1>0, <3>2 DEF ReservationExact, Owed
    <3>4. batches'[b] = ExitFill(freed[b], delta, done)
      BY <1>0, <1>5, <1>6, <2>2
    <3>5. ExitFill(freed[b], delta, done).qty = Above0(freed[b].qty - delta)
      BY DEF ExitFill
    <3> HIDE DEF delta
    <3>6. delta <= batches[b].qty
      BY <1>2, <1>3, <1>10, <3>3
    <3>7. Above0(freed[b].qty - delta) = batches[b].qty + (0 - delta)
      BY <1>3, <1>7, <1>10, <3>6 DEF Above0
    <3> QED
      BY <2>2, <3>4, <3>5, <3>7
  <2>3. CASE delta # 0 /\ i \notin ExitIds
    <3>1. batches'[b] = EntryFill(freed[b], delta)
      BY <1>0, <1>5, <1>6, <2>3
    <3>2. EntryFill(freed[b], delta).qty = freed[b].qty + delta
      BY DEF EntryFill
    <3> QED
      BY <1>7, <2>3, <3>1, <3>2
  <2> QED
    BY <2>1, <2>2, <2>3
<1>12. ASSUME NEW d \in Batches \ {b}
       PROVE  batches'[d].qty = batches[d].qty + (Part(EntryIds, d, i)' - Part(EntryIds, d, i))
                                               - (Part(ExitIds, d, i)' - Part(ExitIds, d, i))
  <2>1. /\ Part(EntryIds, d, i) = 0 /\ Part(EntryIds, d, i)' = 0
        /\ Part(ExitIds, d, i) = 0 /\ Part(ExitIds, d, i)' = 0
    BY <1>b, <1>4, <1>8 DEF Part
  <2>2. batches[d].qty \in Int /\ batches'[d] = batches[d]
    BY <1>0, <1>9 DEF TypeOK, Batch
  <2> QED
    BY <2>1, <2>2
<1>13. batches'[b].qty = batches[b].qty + (Part(EntryIds, b, i)' - Part(EntryIds, b, i))
                                        - (Part(ExitIds, b, i)' - Part(ExitIds, b, i))
  <2>1. i \in EntryIds <=> i \notin ExitIds
    BY IdsAssumption DEF Ids
  <2>2. /\ Part(EntryIds, b, i) = IF i \in ExitIds THEN 0 ELSE o.filled
        /\ Part(EntryIds, b, i)' = IF i \in ExitIds THEN 0 ELSE n.filled
        /\ Part(ExitIds, b, i) = IF i \in ExitIds THEN o.filled ELSE 0
        /\ Part(ExitIds, b, i)' = IF i \in ExitIds THEN n.filled ELSE 0
    BY <1>b, <1>4, <1>8, <2>1 DEF Part
  <2> QED
    BY <1>2, <1>10, <1>11, <2>2
<1> QED
  BY <1>12, <1>13

(* An order that ends without news adds nothing: a rolled back one was never   *)
(* sent and has no fills, a refused one keeps the fills it has.                *)
LEMMA LotsInvStep ==
  ASSUME TypeInv, TypeInv', ExchangeInv, BookInv, LotsInv, [Next]_vars
  PROVE  LotsInv'
<1>0. /\ TypeOK /\ TypeOK' /\ None \notin Batches
      /\ \A i \in Ids : OrderSound(i)
      /\ \A f \in stream : FrameSound(f)
  BY ByOrder, IdsAssumption DEF TypeInv
<1>1. ASSUME orders' = orders, batches' = batches
      PROVE  LotsInv'
  BY <1>0, <1>1, QuietAddsUp
<1>2. ASSUME NEW i \in Ids, NEW b \in Batches, NEW q \in 1..MaxQty,
             \/ i \in EntryIds /\ CreateEntry(i, b, q)
             \/ i \in ExitIds /\ CreateExit(i, b, q)
      PROVE  LotsInv'
  <2>1. /\ NewOrder(b, q).filled = 0
        /\ ApplyUpdate(NewOrder(b, q), "SUBMITTED", 0, FALSE).filled = 0
        /\ NoOrder.filled = 0 /\ orders[i] = NoOrder
    BY <1>2 DEF NewOrder, ApplyUpdate, NoOrder, CreateEntry, CreateExit
  <2>2. orders'[i].filled = 0 /\ \A j \in Ids \ {i} : orders'[j] = orders[j]
    BY <1>0, <1>2, <2>1 DEF CreateEntry, CreateExit, TypeOK
  <2>3. Exiting(ReserveForExit(batches[b], q)).qty = batches[b].qty
    BY DEF Exiting, ReserveForExit
  <2>4. \A c \in Batches : batches'[c].qty = batches[c].qty
    BY <1>0, <1>2, <2>3 DEF CreateEntry, CreateExit, TypeOK
  <2>5. \A S \in SUBSET Ids, c \in Batches : Part(S, c, i) = 0 /\ Part(S, c, i)' = 0
    BY <2>1, <2>2 DEF Part
  <2>6. \A c \in Batches : batches[c].qty \in Int
    BY <1>0 DEF TypeOK, Batch
  <2>7. EntryIds \in SUBSET Ids /\ ExitIds \in SUBSET Ids
    BY DEF Ids
  <2>8. \A c \in Batches :
           batches'[c].qty = batches[c].qty + (Part(EntryIds, c, i)' - Part(EntryIds, c, i))
                                            - (Part(ExitIds, c, i)' - Part(ExitIds, c, i))
    BY <2>4, <2>5, <2>6, <2>7
  <2> QED
    BY <1>0, <2>2, <2>8, OneOrderAddsUp
<1>3. ASSUME NEW b \in Batches, BlockedExit(b)
      PROVE  LotsInv'
  <2>1. Exiting(batches[b]).qty = batches[b].qty
    BY DEF Exiting
  <2>2. \A c \in Batches : batches'[c].qty = batches[c].qty
    BY <1>0, <1>3, <2>1 DEF BlockedExit, TypeOK
  <2> QED
    BY <1>0, <1>3, <2>2, QuietAddsUp DEF BlockedExit
<1>4. ASSUME NEW i \in Ids, SettingsFailed(i) \/ PrewriteFailed(i)
      PROVE  LotsInv'
  <2>1. CASE Rollback(i)
    <3>1. xch[i].st = "none" /\ OrderSound(i) /\ orders[i].status \in Working
      BY <1>0, <1>4 DEF SettingsFailed, PrewriteFailed, OrderSound
    <3>2. orders[i].filled = 0
      BY <1>0, <3>1 DEF OrderSound, TypeOK, Order, Working
    <3>3. orders'[i] = NoOrder /\ \A j \in Ids \ {i} : orders'[j] = orders[j]
      BY <1>0, <2>1 DEF Rollback, TypeOK
    <3>4. \A c \in Batches : batches'[c].qty = batches[c].qty
      BY <1>0, <2>1, ReleaseHolds DEF Rollback, Released, TypeOK
    <3>5. \A S \in SUBSET Ids, c \in Batches : Part(S, c, i) = 0 /\ Part(S, c, i)' = 0
      BY <3>2, <3>3 DEF Part, NoOrder
    <3>6. \A c \in Batches : batches[c].qty \in Int
      BY <1>0 DEF TypeOK, Batch
    <3>7. EntryIds \in SUBSET Ids /\ ExitIds \in SUBSET Ids
      BY DEF Ids
    <3>8. \A c \in Batches :
             batches'[c].qty = batches[c].qty + (Part(EntryIds, c, i)' - Part(EntryIds, c, i))
                                              - (Part(ExitIds, c, i)' - Part(ExitIds, c, i))
      BY <3>4, <3>5, <3>6, <3>7
    <3> QED
      BY <1>0, <3>3, <3>8, OneOrderAddsUp
  <2>2. CASE UNCHANGED book
    BY <1>1, <2>2 DEF book
  <2> QED
    BY <1>4, <2>1, <2>2 DEF SettingsFailed, PrewriteFailed
<1>5. ASSUME NEW i \in Ids, PostRejected(i)
      PROVE  LotsInv'
  <2> DEFINE c == Closed(orders[i], "REJECTED", i \in ExitIds)
  <2>1. c.filled = orders[i].filled /\ c.batch = orders[i].batch
    BY DEF Closed
  <2>2. orders' = [orders EXCEPT ![i] = c] /\ batches' = Released(i, orders[i])
    BY <1>5 DEF PostRejected, MarkOrderRejected
  <2>3. orders[i].status # "NONE"
    BY <1>0, <1>5 DEF PostRejected, OrderSound
  <2> HIDE DEF c
  <2>4. \A b \in Batches : batches'[b].qty = batches[b].qty
    BY <1>0, <2>2, ReleaseHolds DEF Released, TypeOK
  <2> QED
    BY <1>0, <2>1, <2>2, <2>3, <2>4, QuietAddsUp DEF TypeOK
<1>6. ASSUME NEW i \in Ids, NEW new \in OrderStatus, NEW cum \in Nat, NEW acked \in BOOLEAN,
             Absorb(i, new, cum, acked), orders[i].status # "NONE",
             IsTerminal(orders[i]) => cum <= orders[i].filled
      PROVE  LotsInv'
  <2>1. orders[i].batch \in Batches
    BY <1>0, <1>6 DEF OrderSound
  <2>2. \A j \in Ids \ {i} : orders'[j] = orders[j]
    BY <1>0, <1>6 DEF Absorb, TypeOK
  <2> QED
    BY <1>0, <1>6, <2>1, <2>2, AbsorbCounts, OneOrderAddsUp
<1>7. ASSUME NEW i \in Ids, MarkNotSent(i)
      PROVE  LotsInv'
  <2>1. CASE Absorb(i, "REJECTED", 0, FALSE)
             /\ orders[i].status \in {"SUBMITTED", "RECONCILING"}
    <3>1. orders[i].status # "NONE" /\ ~IsTerminal(orders[i])
      BY <2>1 DEF IsTerminal, Terminal
    <3>2. "REJECTED" \in OrderStatus /\ 0 \in Nat /\ FALSE \in BOOLEAN
      BY DEF OrderStatus, Terminal
    <3> QED
      BY <1>6, <2>1, <3>1, <3>2
  <2>2. CASE UNCHANGED book
    BY <1>1, <2>2 DEF book
  <2> QED
    BY <1>7, <2>1, <2>2 DEF MarkNotSent
<1>8. ASSUME NEW f \in stream, Deliver(f)
      PROVE  LotsInv'
  <2>1. /\ f.id \in Ids /\ f.cum \in Nat /\ TRUE \in BOOLEAN
        /\ f.status \in OrderStatus /\ FrameSound(f) /\ OrderSound(f.id)
    BY <1>0 DEF TypeOK, Frame, OrderStatus, Terminal, Working
  <2>2. /\ orders[f.id].status # "NONE"
        /\ IsTerminal(orders[f.id]) => f.cum <= orders[f.id].filled
    BY <2>1 DEF FrameSound, OrderSound, Known
  <2> QED
    BY <1>6, <1>8, <2>1, <2>2 DEF Deliver
<1>9. ASSUME NEW i \in Ids,
             SettingsDone(i) \/ MarkInDoubt(i) \/ Watchdog(i) \/ CancelUnconfirmed(i)
      PROVE  LotsInv'
  <2> DEFINE n == ApplyUpdate(orders[i], "SUBMITTED", 0, FALSE)
             d == Doubted(orders[i])
  <2>1. /\ n.filled = orders[i].filled /\ n.batch = orders[i].batch
        /\ d.filled = orders[i].filled /\ d.batch = orders[i].batch
    <3>1. orders[i] \in Order /\ orders[i].filled \in Nat
      BY <1>0 DEF TypeOK, Order
    <3> QED
      BY <3>1 DEF ApplyUpdate, Doubted, Order
  <2> HIDE DEF n, d
  <2>2. /\ batches' = batches
        /\ \/ orders' = orders
           \/ /\ orders' = [orders EXCEPT ![i] = n] \/ orders' = [orders EXCEPT ![i] = d]
              /\ orders[i].status # "NONE"
    BY <1>0, <1>9 DEF SettingsDone, MarkInDoubt, Watchdog, CancelUnconfirmed, n, d,
                      OrderSound, Working
  <2> QED
    BY <1>0, <2>1, <2>2, QuietAddsUp DEF TypeOK
<1>10. ASSUME WsDown
       PROVE  LotsInv'
  <2>1. \A i \in Ids : Doubted(orders[i]).filled = orders[i].filled
                       /\ Doubted(orders[i]).batch = orders[i].batch
    BY <1>0 DEF Doubted, Order, TypeOK
  <2>2. \A i \in Live : orders[i].status # "NONE"
    BY DEF Live, Working
  <2> QED
    BY <1>0, <1>10, <2>1, <2>2, QuietAddsUp DEF WsDown
<1>11. ASSUME NEW i \in Ids,
              \/ PrewriteDone(i) \/ PostAccepted(i) \/ PostNotSent(i) \/ PostUnknown(i)
              \/ RejectSaved(i) \/ RejectSaveFailed(i) \/ DoubtSaved(i)
              \/ DoubtSaveFailed(i) \/ XchAccept(i) \/ XchCancel(i)
              \/ \E n \in 1..MaxQty : XchFill(i, n)
       PROVE  LotsInv'
  <2>1. orders' = orders /\ batches' = batches
    BY <1>11 DEF PrewriteDone, PostAccepted, PostNotSent, PostUnknown, RejectSaved,
                 RejectSaveFailed, DoubtSaved, DoubtSaveFailed, XchAccept, XchCancel,
                 XchFill, book
  <2> QED
    BY <1>1, <2>1
<1>12. ASSUME \/ DeliverForeign \/ BeginDrain \/ LinkBreaks \/ Heartbeat \/ Reconnected
              \/ Saving \/ UNCHANGED vars
       PROVE  LotsInv'
  <2>1. orders' = orders /\ batches' = batches
    BY <1>12 DEF DeliverForeign, BeginDrain, LinkBreaks, Heartbeat, Reconnected, Saving,
                 SaveCommitted, SaveRetried, SaveFailed, vars, book
  <2> QED
    BY <1>1, <2>1
<1>13. \A i \in EntryIds \cup ExitIds : i \in Ids
  BY DEF Ids
<1> QED
  BY <1>2, <1>3, <1>4, <1>5, <1>7, <1>8, <1>9, <1>10, <1>11, <1>12, <1>13
     DEF Next, Creation, Submission, ConnectionLost, FillSaveFailed

LEMMA LotsInvInit == Init => LotsInv
<1> SUFFICES ASSUME Init PROVE LotsInv
  OBVIOUS
<1>1. Known = {} /\ IsFiniteSet(Known)
  BY FS_EmptySet DEF Init, Known, NoOrder
<1>2. \A S \in SUBSET Ids, b \in Batches : FilledBy(S, b) = 0
  <2>1. \A S \in SUBSET Ids, b \in Batches : OrdersOf(S, b) = {}
    BY IdsAssumption DEF Init, OrdersOf, NoOrder
  <2> QED
    BY <2>1, SumEmpty DEF FilledBy
<1>3. \A b \in Batches : batches[b].qty = Start[b] /\ Start[b] \in Nat
  BY StartAssumption DEF Init, NoBatch
<1>4. EntryIds \in SUBSET Ids /\ ExitIds \in SUBSET Ids
  BY DEF Ids
<1> QED
  BY <1>1, <1>2, <1>3, <1>4 DEF LotsInv, BatchesAddUp

LEMMA LotsInvariance == Spec => [](ExchangeInv /\ BookInv /\ LotsInv)
<1>1. Spec => []ExchangeInv
  BY ExchangeInit, ExchangeStep, TypeInvariance, PTL DEF Spec
<1>2. Spec => []BookInv
  BY <1>1, BookInit, BookStep, TypeInvariance, PTL DEF Spec
<1>3. Spec => []LotsInv
  BY <1>1, <1>2, LotsInvInit, LotsInvStep, TypeInvariance, PTL DEF Spec
<1> QED
  BY <1>1, <1>2, <1>3, PTL

(* The lots of every batch are what its entries bought and its exits did not   *)
(* sell, through every fill, refusal, rollback and repeated or late frame      *)
(* (_apply_order_trade_update, PositionBatch.apply_entry_fill and              *)
(* apply_exit_fill).                                                           *)
THEOREM LotsAddUp == Spec => []BatchesAddUp
<1>1. LotsInv => BatchesAddUp
  BY DEF LotsInv
<1> QED
  BY <1>1, LotsInvariance, PTL

-------------------------------------------------------------------------------
(* Nothing is sold twice.  Of the exits of a batch only the working one can    *)
(* still trade; the others are settled, and the account knows all they did.    *)
LEMMA OnlyTheWorkingExit ==
  ASSUME TypeInv, ExchangeInv, BookInv, NEW b \in Batches, NEW i \in OrdersOf(ExitIds, b)
  PROVE  /\ i \in MayStillSell(b) => exitLock[b] = i
         /\ exitLock[b] # i => xch[i].cum = orders[i].filled
         /\ exitLock[b] = i => xch[i].cum <= orders[i].qty
<1>1. /\ i \in ExitIds /\ i \in Ids /\ orders[i].batch = b /\ orders[i] \in Order
      /\ OrderSound(i) /\ NoOrder.batch # b
  BY ByOrder, IdsAssumption DEF OrdersOf, Ids, TypeInv, TypeOK, NoOrder
<1>2. orders[i].status # "NONE"
  BY <1>1 DEF OrderSound
<1>3. i \in Live \/ IsTerminal(orders[i])
  BY <1>1, <1>2 DEF Live, IsTerminal, Order, OrderStatus
<1>4. exitLock[b] = i <=> i \in Live
  BY <1>1 DEF BookInv, LocksMatchOrders
<1> QED
  BY <1>1, <1>2, <1>3, <1>4 DEF OrderSound, MayStillSell

LEMMA SoldOnce ==
  ASSUME TypeInv, ExchangeInv, BookInv, LotsInv
  PROVE  NeverOversold
<1> SUFFICES ASSUME NEW b \in Batches
             PROVE  SumFunctionOnSet([i \in Ids |-> orders[i].qty - xch[i].cum], MayStillSell(b))
                      <= Start[b] + ExecutedBy(EntryIds, b) - ExecutedBy(ExitIds, b)
  BY DEF NeverOversold
<1> DEFINE X    == OrdersOf(ExitIds, b)
           N    == OrdersOf(EntryIds, b)
           W    == MayStillSell(b)
           left == [i \in Ids |-> orders[i].qty - xch[i].cum]
           may  == [i \in Ids |-> IF i \in W THEN left[i] ELSE 0]
           cum  == [i \in Ids |-> xch[i].cum]
           seen == [i \in Ids |-> orders[i].filled]
           owed == [i \in Ids |-> IF i = exitLock[b] THEN orders[i].qty - orders[i].filled ELSE 0]
           both == [i \in Ids |-> may[i] + cum[i]]
           cap  == [i \in Ids |-> owed[i] + seen[i]]
<1>1. /\ IsFiniteSet(X) /\ IsFiniteSet(N) /\ IsFiniteSet(W)
      /\ X \subseteq Ids /\ N \subseteq Ids /\ W \subseteq X
  <2>1. EntryIds \in SUBSET Ids /\ ExitIds \in SUBSET Ids /\ IsFiniteSet(Known)
    BY DEF Ids, LotsInv
  <2>2. IsFiniteSet(X) /\ IsFiniteSet(N)
    BY <2>1, OrdersAreFinite
  <2>3. X \subseteq Ids /\ N \subseteq Ids /\ W \subseteq X
    BY <2>1 DEF OrdersOf, MayStillSell
  <2> QED
    BY <2>2, <2>3, FS_Subset
<1>2. \A i \in Ids : /\ left[i] \in Int /\ may[i] \in Int /\ cum[i] \in Int
                     /\ seen[i] \in Int /\ owed[i] \in Int
                     /\ both[i] = may[i] + cum[i] /\ cap[i] = owed[i] + seen[i]
  <2>1. \A i \in Ids : /\ orders[i].qty \in Nat /\ orders[i].filled \in Nat
                       /\ xch[i].cum \in Nat
    BY DEF TypeInv, TypeOK, Order
  <2> QED
    BY <2>1
<1>3. SumFunctionOnSet(may, X) = SumFunctionOnSet(left, W)
  <2>1. \A i \in X \ W : may[i] = 0
    BY <1>1
  <2>2. \A i \in W : may[i] = left[i]
    BY <1>1
  <2> HIDE DEF may, left, X, W
  <2>3. SumFunctionOnSet(may, X) = SumFunctionOnSet(may, W)
    BY <1>1, <1>2, <2>1, SumSupport
  <2>4. SumFunctionOnSet(may, W) = SumFunctionOnSet(left, W)
    BY <1>1, <2>2, SumSame
  <2> QED
    BY <2>3, <2>4
<1>4. \A i \in X : both[i] <= cap[i]
  <2> SUFFICES ASSUME NEW i \in X PROVE may[i] + cum[i] <= owed[i] + seen[i]
    BY <1>1, <1>2
  <2>1. i \in Ids
    BY <1>1
  <2>2. /\ orders[i].qty \in Nat /\ orders[i].filled \in Nat /\ xch[i].cum \in Nat
        /\ i \in W => exitLock[b] = i
        /\ exitLock[b] # i => xch[i].cum = orders[i].filled
        /\ exitLock[b] = i => xch[i].cum <= orders[i].qty
    BY <2>1, OnlyTheWorkingExit DEF TypeInv, TypeOK, Order
  <2> HIDE DEF X, W
  <2> QED
    BY <2>1, <2>2
<1>5. SumFunctionOnSet(owed, X) <= batches[b].qty
  <2>0. ReservationExact /\ batches[b].qty \in Nat /\ batches[b].exiting \in Nat
    BY DEF BookInv, TypeInv, TypeOK, Batch
  <2>1. CASE exitLock[b] \in X
    <3>1. \A i \in X \ {exitLock[b]} : owed[i] = 0
      BY <1>1
    <3>2. owed[exitLock[b]] = batches[b].exiting
      BY <1>1, <2>0, <2>1, IdsAssumption DEF ReservationExact, Owed
    <3> HIDE DEF owed, X
    <3>3. SumFunctionOnSet(owed, X) = SumFunctionOnSet(owed, {exitLock[b]})
      <4> DEFINE O == {exitLock[b]}
      <4>1. O \subseteq X /\ \A i \in X \ O : owed[i] = 0
        BY <2>1, <3>1
      <4> HIDE DEF O
      <4>2. SumFunctionOnSet(owed, X) = SumFunctionOnSet(owed, O)
        BY <1>1, <1>2, <4>1, SumSupport
      <4> QED
        BY <4>2 DEF O
    <3>4. owed[exitLock[b]] \in Int
      BY <1>1, <1>2, <2>1
    <3>5. SumFunctionOnSet(owed, {exitLock[b]}) = owed[exitLock[b]]
      BY <3>4, SumSingle
    <3> QED
      BY <2>0, <3>2, <3>3, <3>5 DEF ReservationExact
  <2>2. CASE exitLock[b] \notin X
    <3>1. \A i \in X : owed[i] = 0
      BY <1>1, <2>2
    <3> HIDE DEF owed, X
    <3>2. SumFunctionOnSet(owed, X) = 0
      BY <1>1, <3>1, SumZero
    <3> QED
      BY <2>0, <3>2
  <2> QED
    BY <2>1, <2>2
<1>6. \A i \in N : seen[i] <= cum[i]
  <2>1. \A i \in N : i \in Known
    BY IdsAssumption DEF N, OrdersOf, Known, ExchangeInv, UnknownIsFresh, NoOrder, Ids
  <2> QED
    BY <1>1, <2>1 DEF ExchangeInv, NeverAheadOfExchange
<1>7. /\ batches[b].qty = Start[b] + SumFunctionOnSet(seen, N) - SumFunctionOnSet(seen, X)
      /\ Start[b] \in Int
  BY StartAssumption DEF LotsInv, BatchesAddUp, FilledBy
<1>8. /\ ExecutedBy(EntryIds, b) = SumFunctionOnSet(cum, N)
      /\ ExecutedBy(ExitIds, b) = SumFunctionOnSet(cum, X)
  BY DEF ExecutedBy
<1> HIDE DEF X, N, W, left, may, cum, seen, owed, both, cap
<1>9. SumFunctionOnSet(both, X) = SumFunctionOnSet(may, X) + SumFunctionOnSet(cum, X)
  BY <1>1, <1>2, SumPlus
<1>10. SumFunctionOnSet(cap, X) = SumFunctionOnSet(owed, X) + SumFunctionOnSet(seen, X)
  BY <1>1, <1>2, SumPlus
<1>11. SumFunctionOnSet(both, X) <= SumFunctionOnSet(cap, X)
  BY <1>1, <1>2, <1>4, SumMonotone
<1>12. SumFunctionOnSet(seen, N) <= SumFunctionOnSet(cum, N)
  BY <1>1, <1>2, <1>6, SumMonotone
<1>13. /\ SumFunctionOnSet(may, X) \in Int /\ SumFunctionOnSet(cum, X) \in Int
       /\ SumFunctionOnSet(owed, X) \in Int /\ SumFunctionOnSet(seen, X) \in Int
       /\ SumFunctionOnSet(seen, N) \in Int /\ SumFunctionOnSet(cum, N) \in Int
  BY <1>1, <1>2, SumInt
<1>14. SumFunctionOnSet(may, X) <= Start[b] + SumFunctionOnSet(cum, N) - SumFunctionOnSet(cum, X)
  BY <1>5, <1>7, <1>9, <1>10, <1>11, <1>12, <1>13
<1> QED
  BY <1>3, <1>8, <1>14 DEF left, W

(* No interleaving of retries, doubts, lost answers and late frames lets the   *)
(* exchange sell more of a batch than the account holds there: what its exits  *)
(* may still execute never exceeds what entries bought and exits did not sell  *)
(* (one exit order per batch, reserve_for_exit, release_batch_reservation).    *)
THEOREM NothingSoldTwice == Spec => []NeverOversold
  BY SoldOnce, LotsInvariance, TypeInvariance, PTL
===============================================================================
