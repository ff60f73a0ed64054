----------------------------- MODULE AccountState -----------------------------
(* One trading account: the in-memory state of next_gen/engine.py, the order   *)
(* submission of next_gen/executor.py, the rows both of them write, and the    *)
(* exchange they talk to through REST and the private user-data stream.        *)
(*                                                                             *)
(* All of it runs on one asyncio loop, so an action is what a coroutine does   *)
(* between two awaits.  Who creates orders, and when, is left open here: any   *)
(* caller may, under the guards of create_entry_order, create_exit_order and   *)
(* the submission gates; ExitFlow narrows the callers to the real ones.        *)
(*                                                                             *)
(* Abstractions.  Client order ids are taken fresh from EntryIds and ExitIds.  *)
(* Halts, the risk window and the notional limits only ever keep an entry from *)
(* being created, so they are the caller's freedom not to create one.  One     *)
(* database transaction takes effect in one step, between its call and its     *)
(* return.  The stream delivers what it still holds in any order: the code     *)
(* claims to be monotone under reordering and is held to it.                   *)
(*                                                                             *)
(* As in OrderModel, an operator with a suffix (Rollback_KeepsLock) is a slip  *)
(* that nothing uses.                                                          *)
EXTENDS OrderModel, FiniteSets, Functions

CONSTANTS
  EntryIds, ExitIds,  \* client order ids: e_<batch>_<n> and fl_/fm_<batch>_<n>
  Batches,            \* batch ids
  Keys,               \* (symbol, position side) pairs
  KeyOf,              \* the key of each batch
  Start,              \* lots each batch holds when the daemon reaches RUNNING
  MaxQty,             \* bound: the most lots one order asks for
  None                \* no order, no batch

Ids == EntryIds \cup ExitIds

ASSUME IdsAssumption   == EntryIds \cap ExitIds = {} /\ None \notin Ids \cup Batches
ASSUME KeyAssumption   == KeyOf \in [Batches -> Keys]
ASSUME StartAssumption == Start \in [Batches -> Nat]
ASSUME QtyAssumption   == MaxQty \in Nat \ {0}

VARIABLES
  orders,      \* AccountState.orders; status "NONE" is an id not in the dict
  batches,     \* AccountState.batches
  entryLock,   \* active_entry_orders
  exitLock,    \* active_exit_orders
  mode,        \* system_mode
  draining,    \* is_draining
  ws,          \* ws_connected
  gap,         \* private_stream_gap, latched
  fault,       \* has_unrecoverable_fault, latched
  call,        \* where the submit_order coroutine of each order stands
  holder,      \* the order whose handler holds _update_lock, or None
  phase,       \* what that handler is waiting for
  dbOrders,    \* live_orders
  dbBatches,   \* live_position_batches
  xch,         \* what the exchange did with each order
  link,        \* whether the stream's socket still carries frames
  stream       \* frames sent by the exchange and not yet handled

book    == <<orders, batches, entryLock, exitLock>>
health  == <<mode, draining, ws, gap, fault>>
writer  == <<holder, phase>>
db      == <<dbOrders, dbBatches>>
outside == <<xch, link, stream>>
vars    == <<book, health, call, writer, db, outside>>

-------------------------------------------------------------------------------
NoOrder == [batch |-> None, qty |-> 0, filled |-> 0, status |-> "NONE",
            released |-> FALSE, acked |-> FALSE]

Order == [batch : Batches \cup {None}, qty : Nat, filled : Nat,
          status : OrderStatus \cup {"NONE"}, released : BOOLEAN, acked : BOOLEAN]
Batch == [qty : Nat, exiting : Nat, status : BatchStatus, exitAt : BOOLEAN]
Frame == [id : Ids, cum : Nat,
          status : {"OPEN", "PARTIALLY_FILLED", "FILLED", "CANCELED"}]

SystemMode == {"BOOTING", "RUNNING", "DRAINING", "DEGRADED", "STOPPED"}
CallPoint  == {"idle", "settings", "prewrite", "post", "refused", "doubt", "notSent"}
XchStatus  == {"none", "sent", "open", "filled", "canceled", "refused", "lost"}

(* Order ids known to the account, and those still working.                    *)
Known      == {i \in Ids : orders[i].status # "NONE"}
Live       == {i \in Ids : orders[i].status \in Working}
InDoubt    == {i \in Ids : orders[i].status = "RECONCILING"}
KeyOfOrder(i) == KeyOf[orders[i].batch]

Init ==
  /\ orders    = [i \in Ids |-> NoOrder]
  /\ batches   = [b \in Batches |->
                    IF Start[b] = 0 THEN NoBatch
                    ELSE [qty |-> Start[b], exiting |-> 0, status |-> "ACTIVE",
                          exitAt |-> FALSE]]
  /\ entryLock = [k \in Keys |-> None]
  /\ exitLock  = [b \in Batches |-> None]
  /\ mode = "RUNNING" /\ draining = FALSE
  /\ ws = TRUE /\ gap = FALSE /\ fault = FALSE
  /\ call = [i \in Ids |-> "idle"]
  /\ holder = None /\ phase = "free"
  /\ dbOrders  = [i \in Ids |-> NoOrder]
  /\ dbBatches = batches
  /\ xch = [i \in Ids |-> [st |-> "none", cum |-> 0]]
  /\ link = "up" /\ stream = {}

-------------------------------------------------------------------------------
(* The gates.                                                                  *)

CanSubmitEntry == /\ mode = "RUNNING" /\ ~draining
                  /\ ws /\ ~fault /\ ~gap
                  /\ InDoubt = {}

CanSubmitExit(k) == /\ \A i \in InDoubt : KeyOfOrder(i) # k
                    /\ ~fault /\ ~gap /\ ws
                    /\ \/ draining /\ mode \notin {"BOOTING", "STOPPED"}
                       \/ mode \in {"RUNNING", "DEGRADED"}

Rechecked_ForgetsGap(m, connected) ==
  IF m = "DEGRADED" /\ ~draining /\ ~fault /\ connected /\ InDoubt = {}
  THEN "RUNNING" ELSE m

(* recheck_system_mode: DEGRADED ends when nothing it guards against is left.   *)
Rechecked(m, connected) ==
  IF m = "DEGRADED" /\ ~draining /\ ~fault /\ connected /\ ~gap /\ InDoubt = {}
  THEN "RUNNING" ELSE m

Unlock(lock, k, i) == IF lock[k] = i THEN [lock EXCEPT ![k] = None] ELSE lock

(* _release_active_order_lock: each kind of order frees the lock of its kind.  *)
ReleaseLock(i) ==
  IF i \in ExitIds
  THEN exitLock' = Unlock(exitLock, orders[i].batch, i) /\ UNCHANGED entryLock
  ELSE entryLock' = Unlock(entryLock, KeyOfOrder(i), i) /\ UNCHANGED exitLock

(* The batch after order i, now o, gave its reservation back (exits only).     *)
Released(i, o) ==
  IF i \in ExitIds
  THEN [batches EXCEPT ![o.batch] = ReleaseBatchReservation(o, @)]
  ELSE batches

Rollback_KeepsLock(i) ==
  /\ orders'  = [orders EXCEPT ![i] = NoOrder]
  /\ batches' = Released(i, orders[i])
  /\ UNCHANGED <<entryLock, exitLock>>

(* rollback_unsubmitted_order: the order leaves the dict as if never created.  *)
Rollback(i) ==
  /\ orders'  = [orders EXCEPT ![i] = NoOrder]
  /\ batches' = Released(i, orders[i])
  /\ ReleaseLock(i)

Closed(o, status, gives) ==
  [batch |-> o.batch, qty |-> o.qty, filled |-> o.filled, status |-> status,
   released |-> o.released \/ gives, acked |-> o.acked]

(* mark_order_rejected: unconditional, and without _update_lock.               *)
MarkOrderRejected(i) ==
  /\ orders'  = [orders EXCEPT ![i] = Closed(@, "REJECTED", i \in ExitIds)]
  /\ batches' = Released(i, orders[i])
  /\ ReleaseLock(i)

(* The in-memory half of _apply_order_trade_update.                            *)
Absorb(i, new, cum, acked) ==
  LET o     == orders[i]
      n     == ApplyUpdate(o, new, cum, acked)
      delta == n.filled - o.filled
      gives == i \in ExitIds /\ n.status \in {"CANCELED", "REJECTED"}
      freed == IF gives THEN Released(i, n) ELSE batches
  IN  /\ orders'  = [orders EXCEPT ![i] = Closed(n, n.status, gives)]
      /\ batches' = IF delta = 0 THEN freed
                    ELSE [freed EXCEPT ![o.batch] =
                            IF i \in ExitIds THEN ExitFill(@, delta, IsTerminal(n))
                            ELSE EntryFill(@, delta)]
      /\ IF IsTerminal(n) THEN ReleaseLock(i) ELSE UNCHANGED <<entryLock, exitLock>>

(* The upserts of persistence.py.  A terminal row keeps its status and fills   *)
(* only grow; the reservation flag is not stored.                              *)
Upsert(row, o) ==
  [batch    |-> o.batch,
   qty      |-> o.qty,
   filled   |-> IF row.filled > o.filled THEN row.filled ELSE o.filled,
   status   |-> IF row.status \in Terminal THEN row.status ELSE o.status,
   released |-> FALSE,
   acked    |-> o.acked \/ row.acked]

SaveOrder(i) == dbOrders' = [dbOrders EXCEPT ![i] = Upsert(@, orders[i])]

SaveOrderAndBatch(i) ==
  /\ SaveOrder(i)
  /\ dbBatches' = IF batches[orders[i].batch].status = "ABSENT" THEN dbBatches
                  ELSE [dbBatches EXCEPT ![orders[i].batch] = batches[orders[i].batch]]

-------------------------------------------------------------------------------
(* Submission, executor.submit_order.  call[i] names the await it stands at.   *)

(* create_entry_order and the first gate; a closed gate rolls back at once.    *)
CreateEntry(i, b, q) ==
  /\ orders[i] = NoOrder /\ call[i] = "idle" /\ dbOrders[i] = NoOrder
  /\ entryLock[KeyOf[b]] = None
  /\ CanSubmitEntry
  /\ orders'    = [orders EXCEPT ![i] = NewOrder(b, q)]
  /\ entryLock' = [entryLock EXCEPT ![KeyOf[b]] = i]
  /\ call'      = [call EXCEPT ![i] = "settings"]
  /\ UNCHANGED <<batches, exitLock, health, writer, db, outside>>

(* _ensure_symbol_settings returned and the gate is still open.                *)
SettingsDone(i) ==
  /\ call[i] = "settings"
  /\ CanSubmitEntry
  /\ orders' = [orders EXCEPT ![i] = ApplyUpdate(@, "SUBMITTED", 0, FALSE)]
  /\ call'   = [call EXCEPT ![i] = "prewrite"]
  /\ UNCHANGED <<batches, entryLock, exitLock, health, writer, db, outside>>

(* The settings call raised, or the gate closed while it ran.  Only an order   *)
(* that is still PENDING is rolled back.                                       *)
SettingsFailed(i) ==
  /\ call[i] = "settings"
  /\ call' = [call EXCEPT ![i] = "idle"]
  /\ IF orders[i].status = "PENDING" THEN Rollback(i) ELSE UNCHANGED book
  /\ UNCHANGED <<health, writer, db, outside>>

(* exit_order_submitted_at is set by the first exit order of a batch.          *)
Exiting(b) ==
  [qty |-> b.qty, exiting |-> b.exiting, status |-> b.status, exitAt |-> TRUE]

(* create_exit_order reserves the lots, and the open gate lets it be submitted. *)
CreateExit(i, b, q) ==
  /\ orders[i] = NoOrder /\ call[i] = "idle" /\ dbOrders[i] = NoOrder
  /\ exitLock[b] = None
  /\ CanReserve(batches[b], q)
  /\ CanSubmitExit(KeyOf[b])
  /\ orders'   = [orders EXCEPT ![i] =
                    ApplyUpdate(NewOrder(b, q), "SUBMITTED", 0, FALSE)]
  /\ batches'  = [batches EXCEPT ![b] = Exiting(ReserveForExit(@, q))]
  /\ exitLock' = [exitLock EXCEPT ![b] = i]
  /\ call'     = [call EXCEPT ![i] = "prewrite"]
  /\ UNCHANGED <<entryLock, health, writer, db, outside>>

(* The same, but the gate is closed: the reservation is given back before      *)
(* anyone sees it and only the exit deadline stays set.                        *)
BlockedExit(b) ==
  /\ exitLock[b] = None
  /\ CanReserve(batches[b], 1)
  /\ ~CanSubmitExit(KeyOf[b])
  /\ batches' = [batches EXCEPT ![b] = Exiting(@)]
  /\ UNCHANGED <<orders, entryLock, exitLock, health, call, writer, db, outside>>

(* The row is written and the request goes out in the same turn of the loop.   *)
PrewriteDone(i) ==
  /\ call[i] = "prewrite"
  /\ IF i \in ExitIds THEN SaveOrderAndBatch(i) ELSE SaveOrder(i) /\ UNCHANGED dbBatches
  /\ call' = [call EXCEPT ![i] = "post"]
  /\ xch'  = [xch EXCEPT ![i].st = "sent"]
  /\ UNCHANGED <<book, health, writer, link, stream>>

(* The write raised; it may still have been committed.                         *)
PrewriteFailed(i) ==
  /\ call[i] = "prewrite"
  /\ Rollback(i)
  /\ fault' = TRUE /\ mode' = "DEGRADED"
  /\ call' = [call EXCEPT ![i] = "idle"]
  /\ \/ UNCHANGED db
     \/ IF i \in ExitIds THEN SaveOrderAndBatch(i)
        ELSE SaveOrder(i) /\ UNCHANGED dbBatches
  /\ UNCHANGED <<draining, ws, gap, writer, outside>>

(* The four answers of post_order.                                             *)
PostAccepted(i) ==
  /\ call[i] = "post" /\ xch[i].st \in {"open", "filled", "canceled"}
  /\ call' = [call EXCEPT ![i] = "idle"]
  /\ UNCHANGED <<book, health, writer, db, outside>>

PostRejected(i) ==
  /\ call[i] = "post" /\ xch[i].st = "sent"
  /\ MarkOrderRejected(i)
  /\ xch'  = [xch EXCEPT ![i].st = "refused"]
  /\ call' = [call EXCEPT ![i] = "refused"]
  /\ UNCHANGED <<health, writer, db, link, stream>>

PostNotSent(i) ==
  /\ call[i] = "post" /\ xch[i].st = "sent"
  /\ xch'  = [xch EXCEPT ![i].st = "lost"]
  /\ call' = [call EXCEPT ![i] = "notSent"]
  /\ UNCHANGED <<book, health, writer, db, link, stream>>

(* A timeout or a 5xx: the request may or may not have been, or yet be, taken. *)
PostUnknown(i) ==
  /\ call[i] = "post"
  /\ call' = [call EXCEPT ![i] = "doubt"]
  /\ UNCHANGED <<book, health, writer, db, outside>>

(* The rejection is written after the order was closed in memory.              *)
RejectSaved(i) ==
  /\ call[i] = "refused"
  /\ call' = [call EXCEPT ![i] = "idle"]
  /\ SaveOrder(i)
  /\ UNCHANGED <<book, health, writer, dbBatches, outside>>

RejectSaveFailed(i) ==
  /\ call[i] = "refused"
  /\ call' = [call EXCEPT ![i] = "idle"]
  /\ fault' = TRUE /\ mode' = "DEGRADED"
  /\ UNCHANGED <<book, draining, ws, gap, writer, db, outside>>

(* mark_submission_not_sent, once _update_lock is free.                        *)
MarkNotSent(i) ==
  /\ call[i] = "notSent" /\ holder = None
  /\ call' = [call EXCEPT ![i] = "idle"]
  /\ IF /\ orders[i].status \in {"SUBMITTED", "RECONCILING"}
        /\ ~orders[i].acked /\ orders[i].filled = 0
     THEN Absorb(i, "REJECTED", 0, FALSE) /\ holder' = i /\ phase' = "save1"
     ELSE UNCHANGED <<book, writer>>
  /\ UNCHANGED <<health, db, outside>>

MarkInDoubt_AsRejected(i) ==
  /\ call[i] = "doubt" /\ holder = None
  /\ call' = [call EXCEPT ![i] = "idle"]
  /\ IF orders[i].status \in {"SUBMITTED", "RECONCILING"}
     THEN Absorb(i, "REJECTED", 0, FALSE) /\ holder' = i /\ phase' = "save1"
     ELSE UNCHANGED <<book, writer>>
  /\ UNCHANGED <<health, db, outside>>

MarkInDoubt_OnlyIfUnanswered(i) ==
  /\ call[i] = "doubt" /\ holder = None
  /\ orders[i].status \in {"SUBMITTED", "RECONCILING"}
  /\ orders' = [orders EXCEPT ![i] = Doubted(@)]
  /\ mode' = "DEGRADED"
  /\ holder' = i /\ phase' = "doubt"
  /\ UNCHANGED <<batches, entryLock, exitLock, draining, ws, gap, fault, call,
                 db, outside>>

(* mark_submission_in_doubt, once _update_lock is free; it saves under the     *)
(* lock, and an order the stream already answered for is left alone.           *)
MarkInDoubt(i) ==
  /\ call[i] = "doubt" /\ holder = None
  /\ IF orders[i].status \in {"SUBMITTED", "RECONCILING"}
     THEN /\ orders' = [orders EXCEPT ![i] = Doubted(@)]
          /\ mode' = "DEGRADED"
          /\ holder' = i /\ phase' = "doubt"
          /\ UNCHANGED call
     ELSE /\ call' = [call EXCEPT ![i] = "idle"]
          /\ UNCHANGED <<orders, mode, writer>>
  /\ UNCHANGED <<batches, entryLock, exitLock, draining, ws, gap, fault, db, outside>>

DoubtSaved(i) ==
  /\ holder = i /\ phase = "doubt"
  /\ holder' = None /\ phase' = "free"
  /\ call' = [call EXCEPT ![i] = "idle"]
  /\ SaveOrder(i)
  /\ UNCHANGED <<book, health, dbBatches, outside>>

DoubtSaveFailed(i) ==
  /\ holder = i /\ phase = "doubt"
  /\ holder' = None /\ phase' = "free"
  /\ call' = [call EXCEPT ![i] = "idle"]
  /\ fault' = TRUE
  /\ UNCHANGED <<book, mode, draining, ws, gap, db, outside>>

-------------------------------------------------------------------------------
(* Timers.                                                                     *)

(* watch_submission_timeout: three seconds after the row was written the order *)
(* is still unanswered.                                                        *)
Watchdog(i) ==
  /\ orders[i].status = "SUBMITTED" /\ call[i] # "prewrite"
  /\ orders' = [orders EXCEPT ![i] = Doubted(@)]
  /\ mode'   = "DEGRADED"
  /\ UNCHANGED <<batches, entryLock, exitLock, draining, ws, gap, fault, call,
                 writer, db, outside>>

CancelUnconfirmed_AsCanceled(i) ==
  /\ orders[i].status \in Working \ {"RECONCILING"}
  /\ i \in ExitIds => call[i] = "idle"
  /\ Absorb(i, "CANCELED", 0, FALSE)
  /\ UNCHANGED <<health, call, writer, db, outside>>

(* cancel_and_confirm gave up waiting for the terminal event.  Entries are     *)
(* canceled whatever their submission stands at, exits only after it returned. *)
CancelUnconfirmed(i) ==
  /\ orders[i].status \in Working \ {"RECONCILING"}
  /\ i \in ExitIds => call[i] = "idle"
  /\ orders' = [orders EXCEPT ![i] = Doubted(@)]
  /\ mode'   = "DEGRADED"
  /\ UNCHANGED <<batches, entryLock, exitLock, draining, ws, gap, fault, call,
                 writer, db, outside>>

(* The 15 s heartbeat: reading the risk configuration fails, or the mode is    *)
(* re-evaluated.                                                               *)
Heartbeat ==
  /\ \/ mode' = "DEGRADED"
     \/ mode' = Rechecked(mode, ws)
  /\ UNCHANGED <<book, draining, ws, gap, fault, call, writer, db, outside>>

(* _wait_for_stop.                                                             *)
BeginDrain ==
  /\ ~draining
  /\ draining' = TRUE /\ mode' = "DRAINING"
  /\ UNCHANGED <<book, ws, gap, fault, call, writer, db, outside>>

-------------------------------------------------------------------------------
(* The exchange and the stream.                                                *)

Emit(i, status, cum) ==
  stream' = IF link = "up"
            THEN stream \cup {[id |-> i, status |-> status, cum |-> cum]}
            ELSE stream

XchAccept(i) ==
  /\ xch[i].st = "sent"
  /\ xch' = [xch EXCEPT ![i].st = "open"]
  /\ Emit(i, "OPEN", 0)
  /\ UNCHANGED <<book, health, call, writer, db, link>>

XchFill(i, n) ==
  /\ xch[i].st = "open"
  /\ n \in 1..(orders[i].qty - xch[i].cum)
  /\ LET cum  == xch[i].cum + n
         full == cum = orders[i].qty
     IN  /\ xch' = [xch EXCEPT ![i] = [st  |-> IF full THEN "filled" ELSE "open",
                                       cum |-> cum]]
         /\ Emit(i, IF full THEN "FILLED" ELSE "PARTIALLY_FILLED", cum)
  /\ UNCHANGED <<book, health, call, writer, db, link>>

(* Asked for by cancel_and_confirm, by the operator, or an expiry.             *)
XchCancel(i) ==
  /\ xch[i].st = "open"
  /\ xch' = [xch EXCEPT ![i].st = "canceled"]
  /\ Emit(i, "CANCELED", xch[i].cum)
  /\ UNCHANGED <<book, health, call, writer, db, link>>

(* on_order_trade_update for one frame: the fill row, then the in-memory half, *)
(* then the handler waits for its transaction with _update_lock held.          *)
Deliver(f) ==
  /\ ws /\ holder = None
  /\ stream' = stream \ {f}
  /\ Absorb(f.id, f.status, f.cum, TRUE)
  /\ holder' = f.id /\ phase' = "save1"
  /\ UNCHANGED <<health, call, db, xch, link>>

(* An order this account did not create: placed by hand on the exchange.       *)
DeliverForeign ==
  /\ ws /\ link = "up" /\ holder = None
  /\ fault' = TRUE /\ mode' = "DEGRADED"
  /\ UNCHANGED <<book, draining, ws, gap, call, writer, db, outside>>

(* The transaction of the handler commits, or fails once, or fails for good.   *)
SaveCommitted ==
  /\ phase \in {"save1", "save2"}
  /\ SaveOrderAndBatch(holder)
  /\ mode' = Rechecked(mode, ws)
  /\ holder' = None /\ phase' = "free"
  /\ UNCHANGED <<book, draining, ws, gap, fault, call, outside>>

SaveRetried ==
  /\ phase = "save1" /\ phase' = "save2"
  /\ UNCHANGED <<book, health, call, holder, db, outside>>

SaveFailed_Quietly ==
  /\ phase = "save2"
  /\ mode' = Rechecked(mode, ws)
  /\ holder' = None /\ phase' = "free"
  /\ UNCHANGED <<book, draining, ws, gap, fault, call, db, outside>>

SaveFailed ==
  /\ phase = "save2"
  /\ fault' = TRUE /\ mode' = "DEGRADED"
  /\ holder' = None /\ phase' = "free"
  /\ UNCHANGED <<book, draining, ws, gap, call, db, outside>>

WsDown_OnlyPositions ==
  /\ ws' = FALSE /\ link' = "down" /\ stream' = {}
  /\ gap' = (gap \/ \E b \in Batches : batches[b].qty > 0)
  /\ mode' = IF mode = "RUNNING" THEN "DEGRADED" ELSE mode
  /\ UNCHANGED <<book, draining, fault, call, writer, db, xch>>

(* on_ws_status_change(False): with anything at stake the gap is latched and   *)
(* every working order is in doubt.                                            *)
WsDown ==
  /\ ws' = FALSE /\ link' = "down" /\ stream' = {}
  /\ IF Live # {} \/ \E b \in Batches : batches[b].qty > 0
     THEN /\ gap' = TRUE
          /\ orders' = [i \in Ids |-> IF i \in Live THEN Doubted(orders[i]) ELSE orders[i]]
     ELSE UNCHANGED <<gap, orders>>
  /\ mode' = IF mode = "RUNNING" THEN "DEGRADED" ELSE mode
  /\ UNCHANGED <<batches, entryLock, exitLock, draining, fault, call, writer, db, xch>>

(* The socket stops carrying frames; nobody has noticed yet.                   *)
LinkBreaks ==
  /\ ws /\ link = "up" /\ link' = "down"
  /\ \E kept \in SUBSET stream : stream' = kept
  /\ UNCHANGED <<book, health, call, writer, db, xch>>

(* run_stream leaves its socket: it broke, went silent, or the listen key      *)
(* expired.                                                                    *)
ConnectionLost == ws /\ WsDown

(* Writing the fill row raised, so the handler never ran: run_stream drops the *)
(* connection and with it the frame.                                           *)
FillSaveFailed ==
  /\ ws /\ holder = None
  /\ \E f \in stream : f.cum > 0
  /\ WsDown

Reconnected ==
  /\ ~ws
  /\ ws' = TRUE /\ link' = "up" /\ stream' = {}
  /\ mode' = Rechecked(mode, TRUE)
  /\ UNCHANGED <<book, draining, gap, fault, call, writer, db, xch>>

-------------------------------------------------------------------------------
Submission(i) ==
  \/ SettingsDone(i) \/ SettingsFailed(i)
  \/ PrewriteDone(i) \/ PrewriteFailed(i)
  \/ PostAccepted(i) \/ PostRejected(i) \/ PostNotSent(i) \/ PostUnknown(i)
  \/ RejectSaved(i)  \/ RejectSaveFailed(i)
  \/ MarkNotSent(i)  \/ MarkInDoubt(i)
  \/ DoubtSaved(i)   \/ DoubtSaveFailed(i)

Creation ==
  \E b \in Batches :
     \/ \E q \in 1..MaxQty : \/ \E i \in EntryIds : CreateEntry(i, b, q)
                             \/ \E i \in ExitIds  : CreateExit(i, b, q)
     \/ BlockedExit(b)

Saving == SaveCommitted \/ SaveRetried \/ SaveFailed

Next ==
  \/ Creation
  \/ \E i \in Ids : \/ Submission(i)
                    \/ Watchdog(i) \/ CancelUnconfirmed(i)
                    \/ XchAccept(i) \/ XchCancel(i)
                    \/ \E n \in 1..MaxQty : XchFill(i, n)
  \/ \E f \in stream : Deliver(f)
  \/ DeliverForeign \/ Saving
  \/ LinkBreaks \/ ConnectionLost \/ FillSaveFailed \/ Reconnected
  \/ Heartbeat \/ BeginDrain

Spec == Init /\ [][Next]_vars

-------------------------------------------------------------------------------
TypeOK ==
  /\ orders \in [Ids -> Order]
  /\ batches \in [Batches -> Batch]
  /\ entryLock \in [Keys -> EntryIds \cup {None}]
  /\ exitLock \in [Batches -> ExitIds \cup {None}]
  /\ mode \in SystemMode
  /\ draining \in BOOLEAN /\ ws \in BOOLEAN /\ gap \in BOOLEAN /\ fault \in BOOLEAN
  /\ call \in [Ids -> CallPoint]
  /\ holder \in Ids \cup {None}
  /\ phase \in {"free", "save1", "save2", "doubt"}
  /\ dbOrders \in [Ids -> Order]
  /\ dbBatches \in [Batches -> Batch]
  /\ xch \in [Ids -> [st : XchStatus, cum : Nat]]
  /\ link \in {"up", "down"}
  /\ stream \in SUBSET Frame

(* The lots a batch keeps back are exactly the unfilled remainder of its one   *)
(* working exit order, and never more than the batch holds.                    *)
Owed(b) == IF exitLock[b] = None THEN 0
           ELSE orders[exitLock[b]].qty - orders[exitLock[b]].filled

ReservationExact ==
  \A b \in Batches : /\ batches[b].exiting = Owed(b)
                     /\ batches[b].exiting <= batches[b].qty

(* An order holds the lock of its kind exactly while it is working.            *)
LocksMatchOrders ==
  \A i \in Ids : IF i \in ExitIds
    THEN \A b \in Batches : exitLock[b] = i <=> i \in Live /\ orders[i].batch = b
    ELSE \A k \in Keys : entryLock[k] = i <=> i \in Live /\ KeyOfOrder(i) = k

(* RUNNING, the mode in which entries are admitted, means that nothing is in   *)
(* doubt, the stream is up and neither latch is set (recheck_system_mode and   *)
(* every place that degrades the account).                                     *)
RunningIsSafe ==
  mode = "RUNNING" => ws /\ ~gap /\ ~fault /\ InDoubt = {}

(* The account never runs ahead of the exchange: it has absorbed no fill that  *)
(* did not happen, and an order it calls finished will never trade again.      *)
NeverAheadOfExchange ==
  \A i \in Known :
     /\ orders[i].filled <= xch[i].cum
     /\ IsTerminal(orders[i]) =>
          /\ xch[i].st \in {"filled", "canceled", "refused", "lost"}
          /\ orders[i].filled = xch[i].cum

(* What the orders of one side did for a batch, as the account sees it and as  *)
(* the exchange executed it.                                                   *)
OrdersOf(S, b)     == {i \in S : orders[i].batch = b}
FilledBy(S, b)     == SumFunctionOnSet([i \in Ids |-> orders[i].filled], OrdersOf(S, b))
ExecutedBy(S, b)   == SumFunctionOnSet([i \in Ids |-> xch[i].cum], OrdersOf(S, b))
MayStillSell(b)    == {i \in OrdersOf(ExitIds, b) : xch[i].st \in {"sent", "open"}}

(* A batch holds what its entries bought and its exits did not yet sell, as    *)
(* far as the account has seen (every path through _apply_order_trade_update   *)
(* and every release of a reservation).                                        *)
BatchesAddUp ==
  \A b \in Batches :
    batches[b].qty = Start[b] + FilledBy(EntryIds, b) - FilledBy(ExitIds, b)

(* Whatever the account does not know yet, the exits the exchange may still    *)
(* execute for a batch never exceed the position it really has there: no       *)
(* interleaving of retries, doubts and lost answers sells a lot twice.         *)
NeverOversold ==
  \A b \in Batches :
    SumFunctionOnSet([i \in Ids |-> orders[i].qty - xch[i].cum], MayStillSell(b))
      <= Start[b] + ExecutedBy(EntryIds, b) - ExecutedBy(ExitIds, b)

(* Losing frames is always noticed: with the stream up, no gap latched and     *)
(* nothing left to read, the account agrees with the exchange on every order   *)
(* the exchange took.                                                          *)
NothingMissed ==
  ws /\ link = "up" /\ ~gap /\ stream = {} =>
    \A i \in Ids : xch[i].st \in {"open", "filled", "canceled"} =>
       /\ orders[i].filled = xch[i].cum
       /\ xch[i].st # "open" => IsTerminal(orders[i])

(* While no handler is at work and no write has failed, the rows say what      *)
(* memory says: fills, final statuses and the size of every batch.             *)
Durable ==
  holder = None /\ ~fault =>
    /\ \A i \in Known : call[i] \notin {"settings", "prewrite", "refused"} =>
         /\ dbOrders[i].filled = orders[i].filled
         /\ IsTerminal(orders[i]) => dbOrders[i].status = orders[i].status
    /\ \A b \in Batches : dbBatches[b].qty = batches[b].qty

(* No step undoes an order: fills never shrink, a final status is final, and   *)
(* an order is only forgotten if it was never sent.                            *)
NeverUndone ==
  [][\A i \in Known :
       \/ /\ orders'[i].status # "NONE"
          /\ orders'[i].filled >= orders[i].filled
          /\ IsTerminal(orders[i]) => orders'[i].status = orders[i].status
       \/ orders'[i].status = "NONE" /\ xch[i].st = "none"]_vars

(* The account implements Lots: every interleaving of fills, refusals, retries *)
(* and rollbacks only buys lots, keeps lots for one exit, and sells kept ones. *)
AsLots == INSTANCE Lots WITH held <- [b \in Batches |-> batches[b].qty],
                             kept <- [b \in Batches |-> batches[b].exiting]
ImplementsLots == AsLots!Spec

-------------------------------------------------------------------------------
(* What makes the above inductive.                                             *)

(* An id that is not in the dict has left no trace outside.                    *)
UnknownIsFresh ==
  \A i \in Ids :
     IF orders[i].status = "NONE"
     THEN orders[i] = NoOrder /\ call[i] = "idle" /\ xch[i] = [st |-> "none", cum |-> 0]
     ELSE orders[i].batch \in Batches

ExchangeIsSound ==
  \A i \in Ids : /\ xch[i].cum <= orders[i].qty
                 /\ xch[i].st \in {"none", "sent", "refused", "lost"} => xch[i].cum = 0
                 /\ xch[i].st = "filled" => xch[i].cum = orders[i].qty

(* Where a submission stands says what the exchange can have done.             *)
CallsAreSound ==
  \A i \in Ids : /\ call[i] \in {"settings", "prewrite"} =>
                       xch[i].st = "none" /\ orders[i].status \in Working
                 /\ call[i] = "prewrite" => orders[i].status # "PENDING"
                 /\ call[i] = "notSent" => xch[i].st = "lost"
                 /\ call[i] = "refused" => xch[i].st = "refused"
                 /\ call[i] \in {"post", "doubt"} => xch[i].st # "none"

FramesAreSound ==
  \A f \in stream :
     /\ f.id \in Known /\ xch[f.id].st \in {"open", "filled", "canceled"}
     /\ f.cum <= xch[f.id].cum
     /\ f.status = "FILLED"   => f.cum = orders[f.id].qty /\ xch[f.id].st = "filled"
     /\ f.status = "CANCELED" => f.cum = xch[f.id].cum /\ xch[f.id].st = "canceled"

(* An exit gives its reservation back when it ends without being filled, and   *)
(* not before.                                                                 *)
ReleasedWhenEnded ==
  \A i \in ExitIds :
     /\ orders[i].status \in Working => ~orders[i].released
     /\ orders[i].status \in {"CANCELED", "REJECTED"} => orders[i].released

(* mark_submission_in_doubt holds the lock while its order is in doubt.        *)
DoubtIsHeld ==
  phase = "doubt" => /\ holder \in Ids /\ call[holder] = "doubt"
                     /\ orders[holder].status = "RECONCILING"

ExchangeInv == UnknownIsFresh /\ ExchangeIsSound /\ CallsAreSound /\ FramesAreSound
                 /\ NeverAheadOfExchange
BookInv     == LocksMatchOrders /\ ReleasedWhenEnded /\ ReservationExact
ModeInv     == DoubtIsHeld /\ RunningIsSafe

-------------------------------------------------------------------------------
(* Fairness: timers fire, HTTP and database calls return, asyncio.Lock is      *)
(* first come first served, a dead socket is noticed by its ping timeout.      *)
Settle(i) == \/ SettingsDone(i) \/ SettingsFailed(i)
             \/ PrewriteDone(i) \/ PrewriteFailed(i)
             \/ PostAccepted(i) \/ PostRejected(i) \/ PostNotSent(i) \/ PostUnknown(i)
             \/ RejectSaved(i)  \/ RejectSaveFailed(i)
             \/ DoubtSaved(i)   \/ DoubtSaveFailed(i)

Fairness ==
  /\ \A i \in Ids : /\ WF_vars(Settle(i))
                    /\ SF_vars(MarkNotSent(i)) /\ SF_vars(MarkInDoubt(i))
                    /\ SF_vars(\E f \in stream : f.id = i /\ Deliver(f))
  /\ WF_vars(SaveCommitted \/ SaveRetried) /\ WF_vars(SaveCommitted \/ SaveFailed)
  /\ WF_vars(link = "down" /\ ConnectionLost)

FairSpec == Spec /\ Fairness

(* Every submission ends, whatever the network and the database answer.        *)
SubmissionsReturn == \A i \in Ids : call[i] # "idle" ~> call[i] = "idle"

(* What the exchange finished the account learns, or it knows that it may have *)
(* missed it.                                                                  *)
OutcomeLearned ==
  \A i \in Ids : xch[i].st \in {"filled", "canceled"} ~>
                   IsTerminal(orders[i]) \/ gap \/ fault

-------------------------------------------------------------------------------
(* What the code says of itself and its interleavings do not keep.             *)

(* load_active_state refuses rows with two working entries for one key: such   *)
(* rows are never written.                                                     *)
RowsCanBeLoaded ==
  \A i, j \in EntryIds :
     /\ i # j
     /\ dbOrders[i].status \in Working /\ dbOrders[j].status \in Working
     => KeyOf[dbOrders[i].batch] # KeyOf[dbOrders[j].batch]
===============================================================================
