----------------------------- MODULE ExitFlowProofs ----------------------------
(* Theorems about ExitFlow for any number of entry slots, lots and restarts:   *)
(* the batch stays within its limit, and no exit order is created beside       *)
(* another one.                                                                *)
EXTENDS ExitFlow, FiniteSetTheorems, TLAPS

-------------------------------------------------------------------------------
(* The inductive invariant.  At most one entry works, and while it does the    *)
(* batch has room for it: that is why check_notional_limits, asked before the  *)
(* request, still holds when the fill comes.                                   *)
EntriesSound ==
  /\ \A e, f \in EntryIds : entry[e] # "NONE" /\ entry[f] # "NONE" => e = f
  /\ \A e \in EntryIds :
       /\ xe[e] # "none" \/ sub[e] = "prewrite" => entry[e] # "NONE"
       /\ sub[e] = "prewrite" => xe[e] = "none"
       /\ entry[e] # "NONE" => batch.qty < MaxLots

(* What the account believes of an exit order x, and what the exchange did.    *)
Agree(x, y) ==
  /\ x = NoExit \/ (x.kind # "none" /\ x.st \in Working /\ x.filled < x.qty)
  /\ x.filled <= y.cum
  /\ y.st = "none" => y.cum = 0
  /\ y.st # "none" => x # NoExit
  /\ y.st = "filled" => y.cum = x.qty
  /\ y.st \notin {"none", "filled"} => y.cum < x.qty

(* Where the task is on its way to an exit order.                              *)
Creating == {"start", "record", "cancelEntry", "refresh", "recordSweep"}

ExitSound ==
  /\ Agree(exit, xx)
  /\ ExitWorks /\ xx.st = "none" <=> task = "prewrite"
  /\ task \in Creating => ~ExitWorks
  /\ batch.exiting = exit.qty - exit.filled

FlowInv == TypeOK /\ EntriesSound /\ ExitSound

-------------------------------------------------------------------------------
(* The values a step writes.                                                   *)
BatchType == [qty : 0..MaxLots, exiting : 0..MaxLots, status : BatchStatus, exitAt : BOOLEAN]
ExitType == [kind : {"none", "LIMIT", "MARKET"}, qty : 0..MaxLots,
             filled : 0..MaxLots, st : OrderStatus \cup {"NONE"}]
XchType == [st : {"none", "sent", "lost", "open", "live", "filled", "canceled"},
            cum : 0..MaxLots]
JobType == [now : BOOLEAN, fresh : BOOLEAN, retried : BOOLEAN, sweep : 0..MaxLots,
            entry : EntryIds \cup {None}]
EntryType == [EntryIds -> {"NONE", "SUBMITTED", "OPEN", "RECONCILING"}]
XeType == [EntryIds -> {"none", "sent", "lost", "open", "live", "filled", "canceled"}]
TaskPoint == {"idle", "start", "record", "cancelEntry", "prewrite", "post", "refresh",
              "sleep", "cancelExit", "recordSweep"}

LEMMA Constants ==
  /\ NoExit \in ExitType /\ Unsent \in XchType /\ Idle \in JobType /\ NoBatch \in BatchType
  /\ NoExit.st = "NONE" /\ NoExit.qty = 0 /\ NoExit.filled = 0 /\ NoExit.kind = "none"
  /\ NoBatch.exiting = 0 /\ NoBatch.qty = 0
  /\ Unsent.st = "none" /\ Unsent.cum = 0
  /\ FlattenDue \in BOOLEAN
  BY LotsAssumption DEF NoExit, ExitType, Unsent, XchType, Idle, JobType, NoBatch,
     BatchType, BatchStatus, FlattenDue

(* A job with other locals is a job.                                           *)
LEMMA JobTakes ==
  /\ \A now \in BOOLEAN : [Idle EXCEPT !.now = now] \in JobType
  /\ \A now, fresh \in BOOLEAN : [Idle EXCEPT !.now = now, !.fresh = fresh] \in JobType
  /\ \A now, again \in BOOLEAN : [Idle EXCEPT !.now = now, !.retried = again] \in JobType
  /\ \A now \in BOOLEAN, e \in EntryIds : [Idle EXCEPT !.now = now, !.entry = e] \in JobType
  /\ \A n \in 0..MaxLots : [Idle EXCEPT !.sweep = n] \in JobType
<1>1. Idle \in JobType
  BY Constants
<1>2. \A now \in BOOLEAN : [Idle EXCEPT !.now = now] \in JobType
  BY <1>1 DEF JobType
<1>3. \A n \in 0..MaxLots : [Idle EXCEPT !.sweep = n] \in JobType
  BY <1>1 DEF JobType
<1>4. ASSUME NEW now \in BOOLEAN, NEW x \in BOOLEAN
      PROVE  /\ [Idle EXCEPT !.now = now, !.fresh = x] \in JobType
             /\ [Idle EXCEPT !.now = now, !.retried = x] \in JobType
  <2> DEFINE k == [Idle EXCEPT !.now = now]
  <2>1. /\ [Idle EXCEPT !.now = now, !.fresh = x] = [k EXCEPT !.fresh = x]
        /\ [Idle EXCEPT !.now = now, !.retried = x] = [k EXCEPT !.retried = x]
    OBVIOUS
  <2>2. k \in JobType
    BY <1>2
  <2> HIDE DEF k
  <2>3. [k EXCEPT !.fresh = x] \in JobType /\ [k EXCEPT !.retried = x] \in JobType
    BY <2>2 DEF JobType
  <2> QED
    BY <2>1, <2>3
<1>5. ASSUME NEW now \in BOOLEAN, NEW e \in EntryIds
      PROVE  [Idle EXCEPT !.now = now, !.entry = e] \in JobType
  <2> DEFINE k == [Idle EXCEPT !.now = now]
  <2>1. [Idle EXCEPT !.now = now, !.entry = e] = [k EXCEPT !.entry = e]
    OBVIOUS
  <2>2. k \in JobType
    BY <1>2
  <2> HIDE DEF k
  <2>3. [k EXCEPT !.entry = e] \in JobType
    BY <2>2 DEF JobType
  <2> QED
    BY <2>1, <2>3
<1> QED
  BY <1>2, <1>3, <1>4, <1>5

LEMMA ReleaseCounts ==
  ASSUME NEW b \in BatchType, NEW q \in 0..b.exiting
  PROVE  LET r == ReleaseExitReservation(b, q)
         IN  r \in BatchType /\ r.qty = b.qty /\ r.exiting = b.exiting - q
  BY LotsAssumption DEF BatchType, ReleaseExitReservation, Smaller, BatchStatus

LEMMA SaleCounts ==
  ASSUME NEW b \in BatchType, NEW q \in 0..b.exiting, NEW done \in BOOLEAN
  PROVE  LET r == ExitFill(b, q, done)
         IN  r \in BatchType /\ r.qty <= b.qty /\ r.exiting = b.exiting - q
  BY LotsAssumption DEF BatchType, ExitFill, Above0, BatchStatus

LEMMA PurchaseCounts ==
  ASSUME NEW b \in BatchType, NEW q \in 0..(MaxLots - b.qty)
  PROVE  LET r == EntryFill(b, q)
         IN  r \in BatchType /\ r.qty = b.qty + q /\ r.exiting = b.exiting
  BY LotsAssumption DEF BatchType, EntryFill, BatchStatus

(* What the stream tells of the exit leaves order, exchange and batch agreed.  *)
LEMMA ToldAgrees ==
  ASSUME batch \in BatchType, exit \in ExitType, xx \in XchType,
         Agree(exit, xx), batch.exiting = exit.qty - exit.filled,
         xx.st \notin {"none", "sent", "lost"}
  PROVE  /\ BatchSold \in BatchType /\ ExitTold \in ExitType /\ Told \in XchType
         /\ BatchSold.qty <= batch.qty
         /\ BatchSold.exiting = ExitTold.qty - ExitTold.filled
         /\ Agree(ExitTold, Told)
         /\ ExitTold # NoExit <=> Told.st # "none"
<1>1. /\ exit.kind # "none" /\ exit.st \in Working /\ exit.filled < exit.qty
      /\ exit.qty \in 0..MaxLots /\ exit.filled \in 0..MaxLots /\ xx.cum \in 0..MaxLots
      /\ exit.filled <= xx.cum /\ xx.cum <= exit.qty
      /\ batch.exiting = exit.qty - exit.filled
  BY LotsAssumption DEF Agree, ExitType, XchType
<1> DEFINE d == xx.cum - exit.filled
<1>2. d \in 0..batch.exiting /\ exit.qty - xx.cum \in 0..batch.exiting
      /\ exit.filled + d = xx.cum
  BY <1>1, LotsAssumption
<1>3. CASE xx.st = "filled"
  <2>1. xx.cum = exit.qty /\ d # 0 /\ xx.cum # exit.filled
    BY <1>1, <1>3, LotsAssumption DEF Agree
  <2>2. ExitStatus = "FILLED" /\ ExitTold = NoExit /\ Told = Unsent
    BY <1>3 DEF ExitStatus, ExitTold, Told, Terminal
  <2>3. BatchSold = ExitFill(batch, d, "FILLED" \in Terminal)
    BY <1>3, <2>1, <2>2 DEF BatchSold
  <2>4. /\ BatchSold \in BatchType /\ BatchSold.qty <= batch.qty
        /\ BatchSold.exiting = batch.exiting - d
    <3>1. ("FILLED" \in Terminal) \in BOOLEAN
      OBVIOUS
    <3> QED
      BY <1>2, <2>3, <3>1, SaleCounts
  <2>5. BatchSold.exiting = 0
    BY <1>1, <2>1, <2>4
  <2> QED
    BY <2>2, <2>4, <2>5, Constants DEF Agree
<1>4. CASE xx.st = "canceled"
  <2>1. ExitStatus = "CANCELED" /\ ExitTold = NoExit /\ Told = Unsent
    BY <1>4 DEF ExitStatus, ExitTold, Told, Terminal
  <2> DEFINE freed == ReleaseExitReservation(batch, exit.qty - xx.cum)
  <2>2. freed \in BatchType /\ freed.qty = batch.qty /\ freed.exiting = d
    BY <1>1, <1>2, ReleaseCounts
  <2>3. BatchSold = IF xx.cum = exit.filled THEN freed
                    ELSE ExitFill(freed, d, "CANCELED" \in Terminal)
    BY <1>4, <2>1 DEF BatchSold
  <2>4. LET r == ExitFill(freed, d, "CANCELED" \in Terminal)
        IN  r \in BatchType /\ r.qty <= freed.qty /\ r.exiting = 0
    <3>1. ("CANCELED" \in Terminal) \in BOOLEAN
      OBVIOUS
    <3>2. d \in 0..freed.exiting /\ d - d = 0
      BY <1>2, <2>2, <1>1
    <3> HIDE DEF freed
    <3> QED
      BY <2>2, <3>1, <3>2, SaleCounts
  <2>5. /\ BatchSold \in BatchType /\ BatchSold.qty <= batch.qty
        /\ BatchSold.exiting = 0
    <3>1. batch.qty \in 0..MaxLots /\ (xx.cum = exit.filled => d = 0)
      BY <1>1 DEF BatchType
    <3> HIDE DEF freed, d
    <3> QED
      BY <2>2, <2>3, <2>4, <3>1, LotsAssumption
  <2> QED
    BY <2>1, <2>5, Constants DEF Agree
<1>5. CASE xx.st \in {"open", "live"}
  <2>1. xx.cum < exit.qty
    BY <1>5 DEF Agree
  <2>2. /\ ExitStatus \in {"OPEN", "PARTIALLY_FILLED"} /\ ExitStatus \notin Terminal
        /\ ExitTold = [exit EXCEPT !.filled = xx.cum, !.st = ExitStatus]
        /\ Told = [xx EXCEPT !.st = IF @ = "open" THEN "live" ELSE @]
    BY <1>5 DEF ExitStatus, ExitTold, Told, Terminal
  <2>3. /\ ExitTold.kind = exit.kind /\ ExitTold.qty = exit.qty
        /\ ExitTold.filled = xx.cum /\ ExitTold.st = ExitStatus
        /\ ExitTold \in ExitType
    BY <1>1, <2>2 DEF ExitType, OrderStatus, Working
  <2>4. Told.st = "live" /\ Told.cum = xx.cum /\ Told \in XchType
    BY <1>5, <2>2 DEF XchType
  <2>5. BatchSold = IF xx.cum = exit.filled THEN batch
                    ELSE ExitFill(batch, d, ExitStatus \in Terminal)
    BY <1>5 DEF BatchSold
  <2>6. LET r == ExitFill(batch, d, ExitStatus \in Terminal)
        IN  r \in BatchType /\ r.qty <= batch.qty /\ r.exiting = batch.exiting - d
    <3>1. (ExitStatus \in Terminal) \in BOOLEAN
      OBVIOUS
    <3> QED
      BY <1>2, <3>1, SaleCounts
  <2>7. /\ BatchSold \in BatchType /\ BatchSold.qty <= batch.qty
        /\ BatchSold.exiting = exit.qty - xx.cum
    <3>1. batch.qty \in 0..MaxLots /\ (xx.cum = exit.filled => d = 0)
          /\ batch.exiting - d = exit.qty - xx.cum
      BY <1>1 DEF BatchType
    <3> HIDE DEF d
    <3> QED
      BY <1>1, <2>5, <2>6, <3>1, LotsAssumption
  <2>8. ExitTold # NoExit /\ ExitStatus \in Working
    BY <1>1, <2>2, <2>3, Constants DEF Working
  <2> QED
    BY <1>1, <2>1, <2>3, <2>4, <2>7, <2>8 DEF Agree
<1> QED
  BY <1>3, <1>4, <1>5 DEF XchType

-------------------------------------------------------------------------------
(* What a step leaves as it is.                                                *)

LEMMA TypesOf ==
  TypeOK <=> /\ batch \in BatchType /\ exit \in ExitType /\ xx \in XchType
             /\ entry \in EntryType /\ xe \in XeType
             /\ sub \in [EntryIds -> {"idle", "prewrite", "post"}]
             /\ task \in TaskPoint /\ job \in JobType
             /\ pending \in {"none", "LIMIT", "MARKET"} /\ cooling \in BOOLEAN
             /\ due \in BOOLEAN /\ window \in {"open", "blocked", "flatten"}
             /\ loop \in {"idle", "submissions", "entries", "cancel"}
             /\ target \in EntryIds \cup {None}
             /\ flatten \in BOOLEAN /\ fault \in BOOLEAN
             /\ stored \in {"none", "LIMIT", "MARKET"} /\ restarts \in 0..MaxRestarts
  BY DEF TypeOK, BatchType, ExitType, XchType, EntryType, XeType, TaskPoint, JobType

LEMMA TypesOfNext ==
  TypeOK' <=> (/\ batch \in BatchType /\ exit \in ExitType /\ xx \in XchType
               /\ entry \in EntryType /\ xe \in XeType
               /\ sub \in [EntryIds -> {"idle", "prewrite", "post"}]
               /\ task \in TaskPoint /\ job \in JobType
               /\ pending \in {"none", "LIMIT", "MARKET"} /\ cooling \in BOOLEAN
               /\ due \in BOOLEAN /\ window \in {"open", "blocked", "flatten"}
               /\ loop \in {"idle", "submissions", "entries", "cancel"}
               /\ target \in EntryIds \cup {None}
               /\ flatten \in BOOLEAN /\ fault \in BOOLEAN
               /\ stored \in {"none", "LIMIT", "MARKET"} /\ restarts \in 0..MaxRestarts)'
  BY TypesOf, PTL

(* A step that places, ends and buys nothing keeps the entries sound.          *)
LEMMA EntriesKept ==
  ASSUME TypeOK, EntriesSound, UNCHANGED <<entry, sub, xe>>,
         batch'.qty \in Nat, batch'.qty <= batch.qty
  PROVE  EntriesSound'
<1>1. batch.qty \in Nat /\ MaxLots \in Nat
  BY TypesOf, LotsAssumption DEF BatchType
<1> QED
  BY <1>1 DEF EntriesSound

(* So does one that puts some in doubt.                                        *)
LEMMA DoubtKeepsEntries ==
  ASSUME TypeOK, EntriesSound, UNCHANGED <<batch, sub, xe>>,
         \A e \in EntryIds : entry'[e] = "NONE" <=> entry[e] = "NONE"
  PROVE  EntriesSound'
  BY DEF EntriesSound

(* The exit order is only touched by the steps of its task, its news and its   *)
(* clocks; the task may move between the points where it needs none.           *)
Moves ==
  \/ task' = task
  \/ /\ task # "prewrite" /\ task' # "prewrite"
     /\ task' \in Creating => ~ExitWorks

LEMMA ExitKept ==
  ASSUME ExitSound, UNCHANGED <<exit, xx>>, batch'.exiting = batch.exiting, Moves
  PROVE  ExitSound'
  BY DEF ExitSound, Moves, ExitWorks

(* Putting the exit in doubt keeps it sound.                                   *)
LEMMA DoubtKeepsExit ==
  ASSUME TypeOK, ExitSound, ExitWorks, exit' = [exit EXCEPT !.st = "RECONCILING"],
         UNCHANGED <<batch, xx>>, task # "prewrite", task' # "prewrite",
         task' \notin Creating
  PROVE  ExitSound' /\ exit' \in ExitType
<1>1. exit \in ExitType /\ Agree(exit, xx) /\ exit # NoExit
  BY TypesOf DEF ExitSound, ExitWorks
<1>2. /\ exit'.kind = exit.kind /\ exit'.qty = exit.qty /\ exit'.filled = exit.filled
      /\ exit'.st = "RECONCILING" /\ exit' \in ExitType
  BY <1>1 DEF ExitType, OrderStatus, Working
<1>3. exit' # NoExit
  BY <1>2, Constants
<1>4. Agree(exit', xx)
  BY <1>1, <1>2, <1>3 DEF Agree, Working
<1> QED
  BY <1>1, <1>2, <1>3, <1>4 DEF ExitSound, ExitWorks

(* An evaluation starts the task at most where no exit works.                  *)
LEMMA EvaluateMoves ==
  ASSUME TypeOK, NEW rule, Evaluate(rule)
  PROVE  /\ Moves
         /\ task' \in TaskPoint /\ job' \in JobType
         /\ pending' \in {"none", "LIMIT", "MARKET"} /\ cooling' \in BOOLEAN
<1>0. /\ task \in TaskPoint /\ job \in JobType
      /\ pending \in {"none", "LIMIT", "MARKET"} /\ cooling \in BOOLEAN
  BY TypesOf
<1>1. CASE UNCHANGED work
  BY <1>0, <1>1 DEF work, Moves
<1>2. CASE pending' = "none" /\ cooling' = FALSE /\ UNCHANGED <<task, job>>
  BY <1>0, <1>2 DEF Moves
<1>3. CASE ~Forgets /\ ExitGate /\ Free /\ Wanted(rule) /\ Evaluate(rule)
  <2>1. UNCHANGED <<pending, cooling>> /\ task' = "start" /\ task = "idle" /\ ~ExitWorks
    BY <1>3 DEF Evaluate, Free
  <2>2. PICK now, fresh : job' = [Idle EXCEPT !.now = now, !.fresh = fresh]
                          /\ now \in BOOLEAN /\ fresh \in BOOLEAN
    <3> DEFINE n == \/ FlattenDue
                    \/ IF pending = "none" THEN rule = "MARKET"
                       ELSE pending = "MARKET" \/ (batch.exitAt /\ due)
    <3>1. job' = [Idle EXCEPT !.now = n, !.fresh = (pending = "none")]
      BY <1>3 DEF Evaluate
    <3>2. n \in BOOLEAN /\ (pending = "none") \in BOOLEAN
      OBVIOUS
    <3> HIDE DEF n
    <3> QED
      BY <3>1, <3>2
  <2>3. job' \in JobType
    BY <2>2, JobTakes
  <2> QED
    BY <1>0, <2>1, <2>3 DEF Moves, TaskPoint
<1> QED
  BY <1>1, <1>2, <1>3 DEF Evaluate

(* A new exit order: the task creates it where none works, so reserving and    *)
(* creating cannot meet another reservation.                                   *)
LEMMA CreateExitSound ==
  ASSUME FlowInv, ~ExitWorks, task \in Creating \cup {"cancelExit"},
         NEW kind \in {"LIMIT", "MARKET"}, NEW lots \in 0..MaxLots, NEW again \in BOOLEAN,
         CreateExit(kind, lots, again), pending' \in {"none", "LIMIT", "MARKET"}
  PROVE  FlowInv'
<1>0. TypeOK /\ EntriesSound /\ ExitSound /\ batch \in BatchType
  BY TypesOf DEF FlowInv
<1>1. CASE Raises
  <2>1. UNCHANGED <<batch, orders, cooling, clock, pass, boot>> /\ task' = "idle"
        /\ job' = Idle /\ fault' = TRUE
    BY <1>1 DEF Raises, Ends
  <2>2. TypeOK'
    BY <1>0, <2>1, Constants, TypesOf, TypesOfNext DEF orders, clock, pass, boot, TaskPoint
  <2>3. EntriesSound' /\ ExitSound'
    <3>1. batch'.qty \in Nat /\ batch'.qty <= batch.qty
      BY <1>0, <2>1, LotsAssumption DEF BatchType
    <3>2. Moves
      BY <2>1 DEF Moves, Creating
    <3> QED
      BY <1>0, <2>1, <3>1, <3>2, EntriesKept, ExitKept DEF orders
  <2> QED
    BY <2>2, <2>3 DEF FlowInv
<1>2. CASE ExitGate /\ ~Raises
  <2> DEFINE r == ReserveForExit(batch, lots)
             x == [kind |-> kind, qty |-> lots, filled |-> 0, st |-> "SUBMITTED"]
  <2>1. /\ CanReserve(batch, lots)
        /\ batch' = Exiting(r) /\ exit' = x /\ task' = "prewrite"
        /\ job' = [Idle EXCEPT !.now = (kind = "MARKET"), !.retried = again]
        /\ UNCHANGED <<entry, sub, xe, xx, cooling, clock, pass, fault, boot>>
    BY <1>2 DEF CreateExit
  <2>2. batch.exiting = 0 /\ exit = NoExit /\ xx.st = "none" /\ xx.cum = 0
    BY <1>0, Constants DEF ExitSound, ExitWorks, Agree
  <2>3. lots # 0 /\ lots > 0
    BY <2>1 DEF CanReserve
  <2>4. batch' \in BatchType /\ batch'.qty = batch.qty /\ batch'.exiting = lots
    BY <1>0, <2>1, <2>2, LotsAssumption DEF Exiting, ReserveForExit, BatchType, BatchStatus
  <2>5. x \in ExitType /\ x.qty = lots /\ x.filled = 0 /\ x.kind # "none"
        /\ x.st = "SUBMITTED"
    BY LotsAssumption DEF ExitType, OrderStatus, Working
  <2> HIDE DEF x
  <2>6. x # NoExit
    BY <2>5, Constants
  <2>7. job' \in JobType
    <3>1. (kind = "MARKET") \in BOOLEAN
      OBVIOUS
    <3> QED
      BY <2>1, <3>1, JobTakes
  <2>8. TypeOK'
    BY <1>0, <2>1, <2>4, <2>5, <2>7, TypesOf, TypesOfNext
       DEF clock, pass, boot, TaskPoint
  <2>9. EntriesSound'
    <3>1. batch'.qty \in Nat /\ batch'.qty <= batch.qty
      BY <1>0, <2>4, LotsAssumption DEF BatchType
    <3> QED
      BY <1>0, <2>1, <3>1, EntriesKept
  <2>10. ExitSound'
    <3>1. Agree(x, xx)
      BY <2>2, <2>3, <2>5, <2>6 DEF Agree, Working
    <3>2. lots = lots - 0
      OBVIOUS
    <3> QED
      BY <2>1, <2>2, <2>4, <2>5, <2>6, <3>1, <3>2 DEF ExitSound, ExitWorks, Creating
  <2> QED
    BY <2>8, <2>9, <2>10 DEF FlowInv
<1>3. CASE ~ExitGate /\ ~Raises
  <2>1. /\ batch' = Exiting(batch) /\ task' = "idle" /\ job' = Idle
        /\ UNCHANGED <<exit, entry, sub, xe, xx, cooling, clock, pass, fault, boot>>
    BY <1>3 DEF CreateExit, Ends
  <2>2. batch' \in BatchType /\ batch'.qty = batch.qty /\ batch'.exiting = batch.exiting
    BY <1>0, <2>1 DEF Exiting, BatchType
  <2>3. TypeOK'
    BY <1>0, <2>1, <2>2, Constants, TypesOf, TypesOfNext DEF clock, pass, boot, TaskPoint
  <2>4. EntriesSound' /\ ExitSound'
    <3>1. batch'.qty \in Nat /\ batch'.qty <= batch.qty
      BY <1>0, <2>2, LotsAssumption DEF BatchType
    <3>2. Moves
      BY <2>1 DEF Moves, Creating
    <3> QED
      BY <1>0, <2>1, <2>2, <3>1, <3>2, EntriesKept, ExitKept
  <2> QED
    BY <2>3, <2>4 DEF FlowInv
<1> QED
  BY <1>1, <1>2, <1>3

-------------------------------------------------------------------------------
(* The steps.                                                                  *)

(* One that touches no order and no batch, at most moves the task.             *)
LEMMA QuietStep ==
  ASSUME FlowInv, UNCHANGED <<batch, entry, sub, exit, xe, xx, stored, restarts>>, Moves,
         task' \in TaskPoint, job' \in JobType, pending' \in {"none", "LIMIT", "MARKET"},
         cooling' \in BOOLEAN, due' \in BOOLEAN, window' \in {"open", "blocked", "flatten"},
         loop' \in {"idle", "submissions", "entries", "cancel"},
         target' \in EntryIds \cup {None}, flatten' \in BOOLEAN, fault' \in BOOLEAN
  PROVE  FlowInv'
<1>1. TypeOK /\ EntriesSound /\ ExitSound
  BY DEF FlowInv
<1>2. TypeOK'
  BY <1>1, TypesOf, TypesOfNext
<1>3. batch'.qty \in Nat /\ batch'.qty <= batch.qty
  BY <1>1, TypesOf, LotsAssumption DEF BatchType
<1>4. EntriesSound' /\ ExitSound'
  BY <1>1, <1>3, EntriesKept, ExitKept
<1> QED
  BY <1>2, <1>4 DEF FlowInv

(* One that is about an entry.                                                 *)
LEMMA EntryStep ==
  ASSUME FlowInv, UNCHANGED <<exit, xx, window, loop, cooling, pending>>, Moves,
         batch' \in BatchType, batch'.exiting = batch.exiting,
         entry' \in EntryType, xe' \in XeType,
         sub' \in [EntryIds -> {"idle", "prewrite", "post"}],
         task' \in TaskPoint, job' \in JobType, due' \in BOOLEAN,
         target' \in EntryIds \cup {None}, flatten' \in BOOLEAN, fault' \in BOOLEAN,
         stored' \in {"none", "LIMIT", "MARKET"}, UNCHANGED restarts, EntriesSound'
  PROVE  FlowInv'
<1>1. TypeOK /\ ExitSound
  BY DEF FlowInv
<1>2. TypeOK'
  BY <1>1, TypesOf, TypesOfNext
<1>3. ExitSound'
  BY <1>1, ExitKept
<1> QED
  BY <1>2, <1>3 DEF FlowInv

LEMMA StrategySteps ==
  ASSUME FlowInv, NEW e \in EntryIds, Strategy(e) \/ XchEntry(e) \/ DeliverEntry(e)
  PROVE  FlowInv'
<1>0. /\ TypeOK /\ EntriesSound /\ ExitSound /\ batch \in BatchType
      /\ entry \in EntryType /\ xe \in XeType /\ None \notin EntryIds
      /\ sub \in [EntryIds -> {"idle", "prewrite", "post"}]
  BY TypesOf, SlotAssumption DEF FlowInv
<1>1. /\ task \in TaskPoint /\ job \in JobType /\ due \in BOOLEAN
      /\ target \in EntryIds \cup {None} /\ flatten \in BOOLEAN /\ fault \in BOOLEAN
      /\ stored \in {"none", "LIMIT", "MARKET"}
  BY <1>0, TypesOf
<1>2. CASE CreateEntry(e)
  <2>1. /\ LiveEntries = {} /\ EntryFits
        /\ entry' = [entry EXCEPT ![e] = "SUBMITTED"]
        /\ sub' = [sub EXCEPT ![e] = "prewrite"]
        /\ UNCHANGED <<exit, xe, xx, work, window, pass, fault, restarts>>
    BY <1>2 DEF CreateEntry
  <2>2. \/ UNCHANGED <<batch, due, stored>>
        \/ batch' = NoBatch /\ due' = FALSE /\ stored' = "none" /\ ~ExitWorks
    BY <1>2 DEF CreateEntry, IsOver
  <2>3. batch' \in BatchType /\ batch'.exiting = batch.exiting /\ batch'.qty < MaxLots
        /\ due' \in BOOLEAN /\ stored' \in {"none", "LIMIT", "MARKET"}
    <3>1. CASE UNCHANGED <<batch, due, stored>>
      BY <1>0, <1>1, <2>1, <3>1 DEF EntryFits
    <3>2. CASE batch' = NoBatch /\ due' = FALSE /\ stored' = "none" /\ ~ExitWorks
      <4>1. batch.exiting = 0 - 0
        BY <1>0, <3>2, Constants DEF ExitSound, ExitWorks
      <4>2. batch'.exiting = 0 /\ batch'.qty = 0 /\ batch' \in BatchType
        BY <3>2, Constants
      <4>3. 0 < MaxLots
        BY LotsAssumption
      <4>4. due' \in BOOLEAN /\ stored' \in {"none", "LIMIT", "MARKET"}
        BY <3>2
      <4> QED
        BY <4>1, <4>2, <4>3, <4>4
    <3> QED
      BY <2>2, <3>1, <3>2
  <2>4. entry' \in EntryType /\ sub' \in [EntryIds -> {"idle", "prewrite", "post"}]
    BY <1>0, <2>1 DEF EntryType
  <2>5. EntriesSound'
    <3>1. \A f \in EntryIds : entry[f] = "NONE"
      BY <2>1 DEF LiveEntries
    <3>2. \A f \in EntryIds : xe[f] = "none" /\ sub[f] # "prewrite"
      BY <1>0, <3>1 DEF EntriesSound
    <3> QED
      BY <1>0, <2>1, <2>3, <3>1, <3>2 DEF EntriesSound, EntryType
  <2>6. Moves
    BY <2>1 DEF Moves, work
  <2> QED
    BY <1>0, <1>1, <2>1, <2>3, <2>4, <2>5, <2>6, EntryStep DEF work, pass
<1>3. CASE EntryPrewritten(e)
  <2>1. sub[e] = "prewrite" /\ UNCHANGED <<batch, exit, xx, work, clock, pass, boot>>
    BY <1>3 DEF EntryPrewritten
  <2>2. \/ sub' = [sub EXCEPT ![e] = "post"] /\ xe' = [xe EXCEPT ![e] = "sent"]
           /\ UNCHANGED <<entry, fault>>
        \/ sub' = [sub EXCEPT ![e] = "idle"] /\ entry' = [entry EXCEPT ![e] = "NONE"]
           /\ fault' = TRUE /\ UNCHANGED xe
    BY <1>3 DEF EntryPrewritten
  <2>3. entry' \in EntryType /\ xe' \in XeType /\ fault' \in BOOLEAN
        /\ sub' \in [EntryIds -> {"idle", "prewrite", "post"}]
    BY <1>0, <1>1, <2>2 DEF EntryType, XeType
  <2>4. EntriesSound'
    BY <1>0, <2>1, <2>2 DEF EntriesSound, EntryType, XeType
  <2>5. Moves
    BY <2>1 DEF Moves, work
  <2> QED
    BY <1>0, <1>1, <2>1, <2>3, <2>4, <2>5, EntryStep DEF work, clock, pass, boot
<1>4. CASE EntryPosted(e)
  <2>1. sub[e] = "post" /\ sub' = [sub EXCEPT ![e] = "idle"]
        /\ UNCHANGED <<batch, exit, xx, work, clock, pass, fault, boot>>
    BY <1>4 DEF EntryPosted
  <2>2. \/ UNCHANGED <<entry, xe>>
        \/ entry' = [entry EXCEPT ![e] = "NONE"] /\ xe' = [xe EXCEPT ![e] = "none"]
        \/ entry' = [entry EXCEPT ![e] = IF @ = "SUBMITTED" THEN "RECONCILING" ELSE @]
           /\ UNCHANGED xe
    BY <1>4 DEF EntryPosted
  <2>3. entry' \in EntryType /\ xe' \in XeType
        /\ sub' \in [EntryIds -> {"idle", "prewrite", "post"}]
    BY <1>0, <2>1, <2>2 DEF EntryType, XeType
  <2>4. EntriesSound'
    BY <1>0, <2>1, <2>2 DEF EntriesSound, EntryType, XeType
  <2>5. Moves
    BY <2>1 DEF Moves, work
  <2> QED
    BY <1>0, <1>1, <2>1, <2>3, <2>4, <2>5, EntryStep DEF work, clock, pass, boot
<1>5. CASE EntryDoubted(e)
  <2>1. entry[e] # "NONE" /\ entry' = [entry EXCEPT ![e] = "RECONCILING"]
        /\ UNCHANGED <<batch, sub, exit, xe, xx, work, clock, pass, fault, boot>>
    BY <1>5 DEF EntryDoubted
  <2>2. entry' \in EntryType /\ \A f \in EntryIds : entry'[f] = "NONE" <=> entry[f] = "NONE"
    BY <1>0, <2>1 DEF EntryType
  <2>3. EntriesSound'
    BY <1>0, <2>1, <2>2, DoubtKeepsEntries
  <2>4. Moves
    BY <2>1 DEF Moves, work
  <2> QED
    BY <1>0, <1>1, <2>1, <2>2, <2>3, <2>4, EntryStep DEF work, clock, pass, boot
<1>6. CASE XchEntry(e)
  <2>1. /\ xe[e] # "none" /\ \E s \in {"open", "lost", "filled", "canceled"} :
                               xe' = [xe EXCEPT ![e] = s]
        /\ UNCHANGED <<batch, entry, sub, exit, xx, work, clock, pass, fault, boot>>
    BY <1>6 DEF XchEntry, AtExchange
  <2>2. xe' \in XeType
    BY <1>0, <2>1 DEF XeType
  <2>3. EntriesSound'
    BY <1>0, <2>1 DEF EntriesSound, XeType
  <2>4. Moves
    BY <2>1 DEF Moves, work
  <2> QED
    BY <1>0, <1>1, <2>1, <2>2, <2>3, <2>4, EntryStep DEF work, clock, pass, boot
<1>7. CASE DeliverEntry(e)
  <2>1. /\ xe[e] \in {"open", "filled", "canceled"}
        /\ entry' = [entry EXCEPT ![e] = IF xe[e] = "open" THEN "OPEN" ELSE "NONE"]
        /\ xe' = [xe EXCEPT ![e] = IF @ = "open" THEN "live" ELSE "none"]
        /\ batch' = IF xe[e] = "filled" THEN EntryFill(batch, 1) ELSE batch
        /\ UNCHANGED <<sub, exit, xx, work, clock, pass, fault, boot>>
    BY <1>7 DEF DeliverEntry
  <2>2. entry[e] # "NONE" /\ batch.qty < MaxLots /\ sub[e] # "prewrite"
    BY <1>0, <2>1 DEF EntriesSound
  <2>3. LET r == EntryFill(batch, 1)
        IN  r \in BatchType /\ r.qty = batch.qty + 1 /\ r.exiting = batch.exiting
    <3>1. 1 \in 0..(MaxLots - batch.qty)
      BY <1>0, <2>2, LotsAssumption DEF BatchType
    <3> QED
      BY <1>0, <3>1, PurchaseCounts
  <2>4. batch' \in BatchType /\ batch'.exiting = batch.exiting
        /\ (xe[e] # "filled" => batch' = batch)
    BY <1>0, <2>1, <2>3
  <2>5. entry' \in EntryType /\ xe' \in XeType
    BY <1>0, <2>1 DEF EntryType, XeType
  <2>6. EntriesSound'
    <3>1. \A f \in EntryIds : f # e => /\ entry[f] = "NONE" /\ entry'[f] = "NONE"
                                       /\ xe[f] = "none" /\ xe'[f] = "none"
                                       /\ sub[f] # "prewrite"
      BY <1>0, <2>1, <2>2 DEF EntriesSound, EntryType, XeType
    <3>2. /\ entry'[e] = IF xe[e] = "open" THEN "OPEN" ELSE "NONE"
          /\ xe'[e] = IF xe[e] = "open" THEN "live" ELSE "none"
      BY <1>0, <2>1 DEF EntryType, XeType
    <3>3. sub' = sub
      BY <2>1
    <3> QED
      BY <2>1, <2>2, <2>4, <3>1, <3>2, <3>3 DEF EntriesSound
  <2>7. Moves
    BY <2>1 DEF Moves, work
  <2> QED
    BY <1>0, <1>1, <2>1, <2>4, <2>5, <2>6, <2>7, EntryStep DEF work, clock, pass, boot
<1> QED
  BY <1>2, <1>3, <1>4, <1>5, <1>6, <1>7 DEF Strategy

(* The task from its decision to its first await or its order.                 *)
LEMMA ProceedStep ==
  ASSUME FlowInv, task \in {"start", "record"}, Proceed
  PROVE  FlowInv'
<1> DEFINE now == job.now \/ (batch.exitAt /\ due) \/ FlattenDue
<1>0. /\ TypeOK /\ ExitSound /\ batch \in BatchType /\ job \in JobType /\ ~ExitWorks
      /\ pending \in {"none", "LIMIT", "MARKET"} /\ cooling \in BOOLEAN
      /\ due \in BOOLEAN /\ window \in {"open", "blocked", "flatten"}
      /\ loop \in {"idle", "submissions", "entries", "cancel"}
      /\ target \in EntryIds \cup {None} /\ flatten \in BOOLEAN /\ fault \in BOOLEAN
  BY TypesOf DEF FlowInv, ExitSound, Creating
<1>1. now \in BOOLEAN /\ Kind(now) \in {"LIMIT", "MARKET"}
      /\ Kind(job.now) \in {"LIMIT", "MARKET"}
  BY DEF Kind
<1>2. pending' \in {"none", "LIMIT", "MARKET"}
  BY <1>0, <1>1 DEF Proceed
<1>3. CASE Ends /\ UNCHANGED <<batch, orders, cooling, clock, pass, fault, boot>>
  <2>1. Moves /\ task' \in TaskPoint /\ job' \in JobType
    BY <1>3, Constants DEF Ends, Moves, TaskPoint, Creating
  <2> QED
    BY <1>0, <1>2, <1>3, <2>1, QuietStep DEF orders, clock, pass, boot
<1>4. CASE CreateExit(Kind(now), batch.qty, FALSE)
  <2>1. batch.qty \in 0..MaxLots /\ FALSE \in BOOLEAN /\ task \in Creating \cup {"cancelExit"}
    BY <1>0 DEF BatchType, Creating
  <2> HIDE DEF now
  <2> QED
    BY <1>0, <1>1, <1>2, <1>4, <2>1, CreateExitSound
<1>5. CASE /\ task' = "cancelEntry"
           /\ \E e \in LiveEntries : job' = [Idle EXCEPT !.now = now, !.entry = e]
           /\ UNCHANGED <<batch, orders, cooling, clock, pass, fault, boot>>
  <2>1. PICK e \in EntryIds : job' = [Idle EXCEPT !.now = now, !.entry = e]
    BY <1>5 DEF LiveEntries
  <2> HIDE DEF now
  <2>2. job' \in JobType
    BY <1>1, <2>1, JobTakes
  <2>3. Moves /\ task' \in TaskPoint
    BY <1>0, <1>5 DEF Moves, TaskPoint
  <2> QED
    BY <1>0, <1>2, <1>5, <2>2, <2>3, QuietStep DEF orders, clock, pass, boot
<1> QED
  BY <1>3, <1>4, <1>5 DEF Proceed

(* The exit's news.                                                            *)
LEMMA DeliverExitStep ==
  ASSUME FlowInv, DeliverExit
  PROVE  FlowInv'
<1>0. /\ TypeOK /\ EntriesSound /\ ExitSound
      /\ batch \in BatchType /\ exit \in ExitType /\ xx \in XchType
      /\ Agree(exit, xx) /\ batch.exiting = exit.qty - exit.filled
  BY TypesOf DEF FlowInv, ExitSound
<1>1. /\ xx.st \notin {"none", "sent", "lost"}
      /\ exit' = ExitTold /\ batch' = BatchSold /\ xx' = Told
      /\ UNCHANGED <<entry, sub, xe, work, clock, pass, fault, boot>>
  BY DEF DeliverExit
<1>2. /\ batch' \in BatchType /\ exit' \in ExitType /\ xx' \in XchType
      /\ batch'.qty <= batch.qty
      /\ batch'.exiting = exit'.qty - exit'.filled
      /\ Agree(exit', xx')
      /\ exit' # NoExit <=> xx'.st # "none"
  BY <1>0, <1>1, ToldAgrees
<1>3. TypeOK'
  BY <1>0, <1>1, <1>2, TypesOf, TypesOfNext DEF work, clock, pass, boot
<1>4. EntriesSound'
  <2>1. batch'.qty \in Nat
    BY <1>2, LotsAssumption DEF BatchType
  <2> QED
    BY <1>0, <1>1, <1>2, <2>1, EntriesKept
<1>5. ExitSound'
  <2>1. task' = task /\ task # "prewrite" /\ ExitWorks
    BY <1>0, <1>1 DEF ExitSound, work, Agree, ExitWorks
  <2> QED
    BY <1>0, <1>2, <2>1 DEF ExitSound, ExitWorks
<1> QED
  BY <1>3, <1>4, <1>5 DEF FlowInv

(* The exchange takes, fills or ends the exit; or its watchdog fires.          *)
LEMMA ExchangeSteps ==
  ASSUME FlowInv, XchTakes \/ XchFills \/ XchCancels
  PROVE  FlowInv'
<1>0. /\ TypeOK /\ EntriesSound /\ ExitSound
      /\ exit \in ExitType /\ xx \in XchType /\ Agree(exit, xx)
  BY TypesOf DEF FlowInv, ExitSound
<1>1. UNCHANGED <<batch, entry, sub, exit, xe, work, clock, pass, fault, boot>>
  BY DEF XchTakes, XchFills, XchCancels
<1>2. xx' \in XchType /\ Agree(exit, xx') /\ xx.st # "none" /\ xx'.st # "none"
  <2>1. exit.qty \in 0..MaxLots /\ exit.filled \in 0..MaxLots /\ xx.cum \in 0..MaxLots
    BY <1>0 DEF ExitType, XchType
  <2>2. CASE XchTakes \/ XchCancels
    <3>1. /\ xx.st \in {"sent", "open", "live"}
          /\ \E s \in {"open", "lost", "canceled"} : xx' = [xx EXCEPT !.st = s]
      BY <2>2 DEF XchTakes, XchCancels, AtExchange
    <3>2. xx'.cum = xx.cum /\ xx'.st \in {"open", "lost", "canceled"} /\ xx' \in XchType
      BY <1>0, <3>1 DEF XchType
    <3> QED
      BY <1>0, <3>1, <3>2 DEF Agree
  <2>3. CASE XchFills
    <3>1. xx.st \in {"open", "live"}
      BY <2>3 DEF XchFills, AtExchange
    <3>2. PICK n \in 1..(exit.qty - xx.cum) :
            xx' = [st |-> IF xx.cum + n = exit.qty THEN "filled" ELSE xx.st,
                   cum |-> xx.cum + n]
      BY <2>3 DEF XchFills
    <3>3. /\ xx'.cum = xx.cum + n /\ xx'.cum \in 0..MaxLots
          /\ xx'.st = IF xx'.cum = exit.qty THEN "filled" ELSE xx.st
          /\ xx.cum <= xx'.cum /\ xx'.cum <= exit.qty
      BY <2>1, <3>2, LotsAssumption
    <3>4. xx' \in XchType
      BY <1>0, <3>1, <3>2, <3>3 DEF XchType
    <3> QED
      BY <1>0, <2>1, <3>1, <3>3, <3>4 DEF Agree
  <2> QED
    BY <2>2, <2>3
<1>3. TypeOK'
  BY <1>0, <1>1, <1>2, TypesOf, TypesOfNext DEF work, clock, pass, boot
<1>4. EntriesSound'
  <2>1. batch'.qty \in Nat /\ batch'.qty <= batch.qty
    BY <1>0, <1>1, TypesOf, LotsAssumption DEF BatchType
  <2> QED
    BY <1>0, <1>1, <2>1, EntriesKept
<1>5. ExitSound'
  BY <1>0, <1>1, <1>2 DEF ExitSound, ExitWorks, work
<1> QED
  BY <1>3, <1>4, <1>5 DEF FlowInv

(* The exit order is in doubt, and the task has let go of it or never held it. *)
LEMMA ExitDoubted ==
  ASSUME FlowInv, ExitWorks, exit' = [exit EXCEPT !.st = "RECONCILING"],
         UNCHANGED <<batch, entry, sub, xe, xx, pending, cooling, clock, pass, fault, boot>>,
         task # "prewrite", task' \in {task, "idle"}, job' \in {job, Idle}
  PROVE  FlowInv'
<1>0. /\ TypeOK /\ EntriesSound /\ ExitSound /\ exit \in ExitType
      /\ task \in TaskPoint /\ job \in JobType /\ task \notin Creating
  BY TypesOf DEF FlowInv, ExitSound
<1>1. task' # "prewrite" /\ task' \notin Creating /\ task' \in TaskPoint /\ job' \in JobType
  BY <1>0, Constants DEF Creating, TaskPoint
<1>2. ExitSound' /\ exit' \in ExitType
  BY <1>0, <1>1, DoubtKeepsExit
<1>3. TypeOK'
  BY <1>0, <1>1, <1>2, TypesOf, TypesOfNext DEF clock, pass, boot
<1>4. EntriesSound'
  <2>1. batch'.qty \in Nat /\ batch'.qty <= batch.qty
    BY <1>0, TypesOf, LotsAssumption DEF BatchType
  <2> QED
    BY <1>0, <2>1, EntriesKept
<1> QED
  BY <1>2, <1>3, <1>4 DEF FlowInv

(* The exit leaves memory again and its lots return to the batch.              *)
LEMMA ExitReturns ==
  ASSUME FlowInv, ExitWorks, batch' = Returned, exit' = NoExit, xx'.st = "none",
         xx'.cum = 0, UNCHANGED <<entry, sub, xe>>,
         task' # "prewrite"
  PROVE  batch' \in BatchType /\ EntriesSound' /\ ExitSound'
<1>0. /\ TypeOK /\ EntriesSound /\ ExitSound /\ batch \in BatchType /\ exit \in ExitType
      /\ batch.exiting = exit.qty - exit.filled /\ exit.filled < exit.qty
  BY TypesOf DEF FlowInv, ExitSound, Agree, ExitWorks
<1>1. batch' \in BatchType /\ batch'.qty = batch.qty /\ batch'.exiting = 0
  <2>1. exit.qty - exit.filled \in 0..batch.exiting /\ batch.exiting - batch.exiting = 0
    BY <1>0, LotsAssumption DEF ExitType, BatchType
  <2> QED
    BY <1>0, <2>1, ReleaseCounts DEF Returned
<1>2. EntriesSound'
  <2>1. batch'.qty \in Nat /\ batch'.qty <= batch.qty
    BY <1>0, <1>1, LotsAssumption DEF BatchType
  <2> QED
    BY <1>0, <2>1, EntriesKept
<1>3. ExitSound'
  <2>1. 0 = 0 - 0
    OBVIOUS
  <2> QED
    BY <1>1, <2>1, Constants DEF ExitSound, ExitWorks, Agree
<1> QED
  BY <1>1, <1>2, <1>3

LEMMA TaskSteps ==
  ASSUME FlowInv, ExitTask
  PROVE  FlowInv'
<1>0. /\ TypeOK /\ EntriesSound /\ ExitSound
      /\ batch \in BatchType /\ exit \in ExitType /\ xx \in XchType
      /\ entry \in EntryType /\ xe \in XeType
      /\ sub \in [EntryIds -> {"idle", "prewrite", "post"}]
      /\ task \in TaskPoint /\ job \in JobType
      /\ pending \in {"none", "LIMIT", "MARKET"} /\ cooling \in BOOLEAN
      /\ due \in BOOLEAN /\ window \in {"open", "blocked", "flatten"}
      /\ loop \in {"idle", "submissions", "entries", "cancel"}
      /\ target \in EntryIds \cup {None} /\ flatten \in BOOLEAN /\ fault \in BOOLEAN
      /\ stored \in {"none", "LIMIT", "MARKET"} /\ restarts \in 0..MaxRestarts
  BY TypesOf DEF FlowInv
<1>1. /\ batch.qty \in 0..MaxLots /\ job.now \in BOOLEAN /\ job.sweep \in 0..MaxLots
      /\ Kind(job.now) \in {"LIMIT", "MARKET"}
  BY <1>0 DEF BatchType, JobType, Kind
<1>2. ASSUME Ends, UNCHANGED <<batch, orders, clock, pass, boot>>, task # "prewrite",
             pending' \in {"none", "LIMIT", "MARKET"}, cooling' \in BOOLEAN,
             fault' \in BOOLEAN
      PROVE  FlowInv'
  <2>1. Moves /\ task' \in TaskPoint /\ job' \in JobType
    BY <1>2, Constants DEF Ends, Moves, TaskPoint, Creating
  <2> QED
    BY <1>0, <1>2, <2>1, QuietStep DEF orders, clock, pass, boot
<1>3. CASE TaskStarts
  <2>1. CASE Proceed
    BY <1>3, <2>1, ProceedStep DEF TaskStarts
  <2>2. CASE Ends /\ pending' = "none"
             /\ UNCHANGED <<batch, orders, cooling, clock, pass, fault, boot>>
    BY <1>0, <1>2, <1>3, <2>2 DEF TaskStarts
  <2>3. CASE task' = "record"
             /\ UNCHANGED <<batch, orders, job, pending, cooling, clock, pass, fault, boot>>
    <3>1. Moves /\ task' \in TaskPoint
      BY <1>0, <1>3, <2>3 DEF TaskStarts, Moves, TaskPoint, ExitSound, Creating
    <3> QED
      BY <1>0, <2>3, <3>1, QuietStep DEF orders, clock, pass, boot
  <2> QED
    BY <1>3, <2>1, <2>2, <2>3 DEF TaskStarts
<1>4. CASE Recorded
  <2>1. CASE Proceed
    BY <1>4, <2>1, ProceedStep DEF Recorded
  <2>2. CASE Raises /\ UNCHANGED pending
    BY <1>0, <1>2, <1>4, <2>2 DEF Recorded, Raises
  <2> QED
    BY <1>4, <2>1, <2>2 DEF Recorded
<1>5. CASE EntryIsGone
  <2>1. task = "cancelEntry" /\ ~ExitWorks /\ pending' = pending
    BY <1>0, <1>5 DEF EntryIsGone, ExitSound, Creating
  <2>2. CASE Ends /\ UNCHANGED <<batch, orders, cooling, clock, pass, fault, boot>>
    BY <1>0, <1>2, <2>1, <2>2
  <2>3. CASE CreateExit(Kind(job.now), batch.qty, FALSE)
    <3>1. task \in Creating \cup {"cancelExit"}
      BY <2>1 DEF Creating
    <3> QED
      BY <1>0, <1>1, <2>1, <2>3, <3>1, CreateExitSound
  <2> QED
    BY <1>5, <2>2, <2>3 DEF EntryIsGone
<1>6. CASE EntryStays
  <2>1. /\ task = "cancelEntry" /\ entry[job.entry] # "NONE"
        /\ entry' = [entry EXCEPT ![job.entry] = "RECONCILING"]
        /\ task' = "idle" /\ job' = Idle
        /\ UNCHANGED <<batch, sub, exit, xe, xx, pending, cooling, clock, pass,
                       fault, boot>>
    BY <1>6 DEF EntryStays, Ends
  <2>2. entry' \in EntryType /\ \A f \in EntryIds : entry'[f] = "NONE" <=> entry[f] = "NONE"
    BY <1>0, <2>1 DEF EntryType
  <2>3. EntriesSound'
    BY <1>0, <2>1, <2>2, DoubtKeepsEntries
  <2>4. Moves /\ task' \in TaskPoint /\ job' \in JobType
    BY <2>1, Constants DEF Moves, Creating, TaskPoint
  <2> QED
    BY <1>0, <2>1, <2>2, <2>3, <2>4, EntryStep DEF clock, pass, boot
<1>7. CASE ExitPrewritten
  <2>1. /\ task = "prewrite" /\ ExitWorks /\ xx.st = "none" /\ xx.cum = 0
        /\ exit.filled = 0 /\ 0 < exit.qty /\ exit.kind \in {"LIMIT", "MARKET"}
    <3>1. /\ task = "prewrite" /\ ExitWorks /\ xx.st = "none" /\ xx.cum = 0
          /\ exit.filled <= 0 /\ exit.filled < exit.qty /\ exit.kind # "none"
      BY <1>0, <1>7 DEF ExitPrewritten, ExitSound, Agree, ExitWorks
    <3>2. exit.filled \in Nat /\ exit.kind \in {"none", "LIMIT", "MARKET"}
      BY <1>0, LotsAssumption DEF ExitType
    <3>3. exit.filled = 0
      BY <3>1, <3>2
    <3> QED
      BY <3>1, <3>2, <3>3
  <2>2. UNCHANGED <<entry, sub, xe, pending, cooling, clock, pass, restarts>>
    BY <1>7 DEF ExitPrewritten
  <2>3. CASE /\ xx' = [st |-> "sent", cum |-> 0] /\ stored' = exit.kind /\ task' = "post"
             /\ UNCHANGED <<batch, exit, job, fault>>
    <3>1. xx' \in XchType /\ xx'.st = "sent" /\ xx'.cum = 0
      BY <2>3, LotsAssumption DEF XchType
    <3>2. TypeOK'
      BY <1>0, <2>1, <2>2, <2>3, <3>1, TypesOf, TypesOfNext DEF clock, pass, TaskPoint
    <3>3. EntriesSound'
      <4>1. batch'.qty \in Nat /\ batch'.qty <= batch.qty
        BY <1>0, <2>3, LotsAssumption DEF BatchType
      <4> QED
        BY <1>0, <2>2, <4>1, EntriesKept
    <3>4. ExitSound'
      BY <1>0, <2>1, <2>3, <3>1 DEF ExitSound, ExitWorks, Agree, Creating
    <3> QED
      BY <3>2, <3>3, <3>4 DEF FlowInv
  <2>4. CASE /\ exit' = NoExit /\ batch' = Returned /\ fault' = TRUE
             /\ Ends /\ UNCHANGED <<xx, stored>>
    <3>1. batch' \in BatchType /\ EntriesSound' /\ ExitSound'
      BY <2>1, <2>2, <2>4, ExitReturns DEF Ends
    <3>2. TypeOK'
      BY <1>0, <2>2, <2>4, <3>1, Constants, TypesOf, TypesOfNext
         DEF Ends, clock, pass, TaskPoint
    <3> QED
      BY <3>1, <3>2 DEF FlowInv
  <2> QED
    BY <1>7, <2>3, <2>4 DEF ExitPrewritten
<1>8. ASSUME Stands, UNCHANGED <<batch, orders, pending, clock, pass, fault, boot>>,
             task = "post", cooling' \in BOOLEAN
      PROVE  FlowInv'
  <2>1. Moves /\ task' \in TaskPoint /\ job' \in JobType
    BY <1>8, Constants DEF Stands, Ends, Moves, TaskPoint, Creating
  <2> QED
    BY <1>0, <1>8, <2>1, QuietStep DEF orders, clock, pass, boot
<1>9. CASE ExitAccepted
  <2>1. (cooling /\ ~job.retried) \in BOOLEAN
    OBVIOUS
  <2> QED
    BY <1>8, <1>9, <2>1 DEF ExitAccepted
<1>10. CASE ExitRefused
  <2>1. /\ task = "post" /\ xx.st = "sent" /\ ExitWorks
        /\ xx' = Unsent /\ exit' = NoExit /\ batch' = Returned /\ cooling' = TRUE
        /\ UNCHANGED <<entry, sub, xe, pending, clock, pass, fault, boot>>
    BY <1>0, <1>10 DEF ExitRefused, ExitSound, Agree, ExitWorks
  <2>2. task' \in {"idle", "refresh"} /\ job' = Idle
    BY <1>10 DEF ExitRefused, Ends
  <2>3. batch' \in BatchType /\ EntriesSound' /\ ExitSound'
    <3>1. xx'.st = "none" /\ xx'.cum = 0 /\ task' # "prewrite"
      BY <2>1, <2>2, Constants
    <3> QED
      BY <2>1, <3>1, ExitReturns
  <2>4. TypeOK'
    BY <1>0, <2>1, <2>2, <2>3, Constants, TypesOf, TypesOfNext DEF clock, pass, boot, TaskPoint
  <2> QED
    BY <2>3, <2>4 DEF FlowInv
<1>11. CASE ExitUnknown
  <2>1. task = "post" /\ UNCHANGED <<batch, entry, sub, xe, xx, pending, clock, pass, fault, boot>>
    BY <1>11 DEF ExitUnknown
  <2>2. CASE exit.st \in {"SUBMITTED", "RECONCILING"}
    <3>1. exit' = [exit EXCEPT !.st = "RECONCILING"] /\ Ends /\ UNCHANGED cooling
      BY <1>11, <2>2 DEF ExitUnknown
    <3>2. ExitWorks
      BY <2>2, Constants DEF ExitWorks
    <3> QED
      BY <2>1, <3>1, <3>2, ExitDoubted DEF Ends
  <2>3. CASE exit.st \notin {"SUBMITTED", "RECONCILING"}
    <3>1. Stands /\ cooling' = (cooling /\ ~job.retried) /\ UNCHANGED exit
      BY <1>11, <2>3 DEF ExitUnknown
    <3>2. (cooling /\ ~job.retried) \in BOOLEAN
      OBVIOUS
    <3> QED
      BY <1>8, <2>1, <3>1, <3>2 DEF orders
  <2> QED
    BY <2>2, <2>3
<1>12. CASE Refreshed
  <2>1. task = "refresh" /\ ~ExitWorks /\ pending' = pending
    BY <1>0, <1>12 DEF Refreshed, ExitSound, Creating
  <2>2. CASE Ends /\ UNCHANGED <<batch, orders, cooling, clock, pass, fault, boot>>
    BY <1>0, <1>2, <2>1, <2>2
  <2>3. CASE CreateExit("LIMIT", batch.qty, TRUE)
    <3>1. task \in Creating \cup {"cancelExit"}
      BY <2>1 DEF Creating
    <3> QED
      BY <1>0, <1>1, <2>1, <2>3, <3>1, CreateExitSound
  <2> QED
    BY <1>12, <2>2, <2>3 DEF Refreshed
<1>13. CASE Wakes
  <2>1. task = "sleep" /\ UNCHANGED <<batch, orders, pending, cooling, clock, pass, fault, boot>>
    BY <1>13 DEF Wakes
  <2>2. CASE Ends
    BY <1>0, <1>2, <2>1, <2>2
  <2>3. CASE task' = "cancelExit" /\ UNCHANGED job
    <3>1. Moves /\ task' \in TaskPoint
      BY <2>1, <2>3 DEF Moves, TaskPoint, Creating
    <3> QED
      BY <1>0, <2>1, <2>3, <3>1, QuietStep DEF orders, clock, pass, boot
  <2> QED
    BY <1>13, <2>2, <2>3 DEF Wakes
<1>14. CASE Sweep
  <2>1. task = "cancelExit" /\ ~ExitWorks /\ pending' = pending
    BY <1>14 DEF Sweep
  <2>2. CASE Ends /\ UNCHANGED <<batch, orders, cooling, clock, pass, fault, boot>>
    BY <1>0, <1>2, <2>1, <2>2
  <2>3. CASE /\ task' = "recordSweep" /\ job' = [Idle EXCEPT !.sweep = batch.qty]
             /\ UNCHANGED <<batch, orders, cooling, clock, pass, fault, boot>>
    <3>1. job' \in JobType
      BY <1>1, <2>3, JobTakes
    <3>2. Moves /\ task' \in TaskPoint
      BY <2>1, <2>3 DEF Moves, TaskPoint
    <3> QED
      BY <1>0, <2>1, <2>3, <3>1, <3>2, QuietStep DEF orders, clock, pass, boot
  <2>4. CASE CreateExit("MARKET", batch.qty, FALSE)
    BY <1>0, <1>1, <2>1, <2>4, CreateExitSound
  <2> QED
    BY <1>14, <2>2, <2>3, <2>4 DEF Sweep
<1>15. CASE SweepRecorded
  <2>1. task = "recordSweep" /\ ~ExitWorks /\ pending' = pending
    BY <1>0, <1>15 DEF SweepRecorded, ExitSound, Creating
  <2>2. CASE Raises
    BY <1>0, <1>2, <2>1, <2>2 DEF Raises
  <2>3. CASE CreateExit("MARKET", job.sweep, FALSE)
    <3>1. task \in Creating \cup {"cancelExit"}
      BY <2>1 DEF Creating
    <3> QED
      BY <1>0, <1>1, <2>1, <2>3, <3>1, CreateExitSound
  <2> QED
    BY <1>15, <2>2, <2>3 DEF SweepRecorded
<1>16. CASE ExitStays
  BY <1>16, ExitDoubted DEF ExitStays, Ends
<1> QED
  BY <1>3, <1>4, <1>5, <1>6, <1>7, <1>9, <1>10, <1>11, <1>12, <1>13, <1>14, <1>15, <1>16
     DEF ExitTask

LEMMA LoopSteps ==
  ASSUME FlowInv, RunLoop \/ CandleCloses \/ Time \/ ExitWatchdog
  PROVE  FlowInv'
<1>0. /\ TypeOK /\ EntriesSound /\ batch \in BatchType /\ entry \in EntryType
      /\ xe \in XeType /\ sub \in [EntryIds -> {"idle", "prewrite", "post"}]
      /\ task \in TaskPoint /\ job \in JobType
      /\ pending \in {"none", "LIMIT", "MARKET"} /\ cooling \in BOOLEAN
      /\ due \in BOOLEAN /\ window \in {"open", "blocked", "flatten"}
      /\ loop \in {"idle", "submissions", "entries", "cancel"}
      /\ target \in EntryIds \cup {None} /\ flatten \in BOOLEAN /\ fault \in BOOLEAN
      /\ stored \in {"none", "LIMIT", "MARKET"}
  BY TypesOf DEF FlowInv
<1>1. task' = task => Moves
  BY DEF Moves
<1>2. CASE PassOpens
  <2>1. UNCHANGED <<batch, orders, clock, fault, boot>>
    BY <1>2 DEF PassOpens
  <2>2. CASE /\ flatten' = (flatten \/ window = "flatten")
             /\ loop' = "submissions" /\ UNCHANGED <<target, work>>
    <3>1. (flatten \/ window = "flatten") \in BOOLEAN
      OBVIOUS
    <3>2. flatten' \in BOOLEAN
      BY <2>2, <3>1
    <3> QED
      BY <1>0, <1>1, <2>1, <2>2, <3>2, QuietStep DEF orders, clock, boot, work
  <2>3. CASE UNCHANGED pass /\ Evaluate("none")
    <3>1. /\ Moves /\ task' \in TaskPoint /\ job' \in JobType
          /\ pending' \in {"none", "LIMIT", "MARKET"} /\ cooling' \in BOOLEAN
      BY <1>0, <2>3, EvaluateMoves
    <3> QED
      BY <1>0, <2>1, <2>3, <3>1, QuietStep DEF orders, clock, boot, pass
  <2> QED
    BY <1>2, <2>2, <2>3 DEF PassOpens
<1>3. CASE SubmissionsIdle
  BY <1>0, <1>1, <1>3, QuietStep DEF SubmissionsIdle, orders, work, clock, boot
<1>4. CASE PassCancels
  <2>1. target' \in EntryIds \cup {None}
    BY <1>4 DEF PassCancels, LiveEntries
  <2> QED
    BY <1>0, <1>1, <1>4, <2>1, QuietStep DEF PassCancels, orders, work, clock, boot
<1>5. CASE PassCloses
  <2>1. /\ flatten' = (flatten /\ batch.qty > 0) /\ loop' = "idle" /\ target' = None
        /\ UNCHANGED <<batch, orders, clock, fault, boot>>
    BY <1>5 DEF PassCloses, Finish
  <2>2. (flatten /\ batch.qty > 0) \in BOOLEAN
    OBVIOUS
  <2>3. /\ Moves /\ task' \in TaskPoint /\ job' \in JobType
        /\ pending' \in {"none", "LIMIT", "MARKET"} /\ cooling' \in BOOLEAN
    BY <1>0, <1>5, EvaluateMoves DEF PassCloses
  <2> QED
    BY <1>0, <2>1, <2>2, <2>3, QuietStep DEF orders, clock, boot
<1>6. CASE PassGivesUp
  <2>1. /\ entry[target] # "NONE" /\ entry' = [entry EXCEPT ![target] = "RECONCILING"]
        /\ flatten' = flatten /\ loop' = "idle" /\ target' = None
        /\ UNCHANGED <<batch, sub, exit, xe, xx, clock, fault, boot>>
        /\ UNCHANGED <<task, job>>
    BY <1>6 DEF PassGivesUp, Finish, work
  <2>2. pending' \in {"none", "LIMIT", "MARKET"} /\ cooling' \in BOOLEAN
    BY <1>0, <1>6 DEF PassGivesUp, work
  <2>3. entry' \in EntryType /\ \A f \in EntryIds : entry'[f] = "NONE" <=> entry[f] = "NONE"
    BY <1>0, <2>1 DEF EntryType
  <2>4. EntriesSound'
    BY <1>0, <2>1, <2>3, DoubtKeepsEntries
  <2>5. ExitSound'
    BY <1>1, <2>1, ExitKept DEF FlowInv
  <2>6. TypeOK'
    BY <1>0, <2>1, <2>2, <2>3, TypesOf, TypesOfNext DEF clock, boot
  <2> QED
    BY <2>4, <2>5, <2>6 DEF FlowInv
<1>7. CASE CandleCloses
  <2>1. /\ Moves /\ task' \in TaskPoint /\ job' \in JobType
        /\ pending' \in {"none", "LIMIT", "MARKET"} /\ cooling' \in BOOLEAN
    BY <1>0, <1>7, EvaluateMoves DEF CandleCloses
  <2> QED
    BY <1>0, <1>7, <2>1, QuietStep DEF CandleCloses, orders, clock, pass, boot
<1>8. CASE Time
  <2>1. CASE GraceEnds
    BY <1>0, <1>1, <2>1, QuietStep DEF GraceEnds, orders, work, pass, boot
  <2>2. CASE CoolingEnds
    BY <1>0, <1>1, <2>2, QuietStep DEF CoolingEnds, orders, clock, pass, boot
  <2>3. CASE WindowMoves
    <3>1. window' \in {"open", "blocked", "flatten"}
      BY <2>3 DEF WindowMoves
    <3> QED
      BY <1>0, <1>1, <2>3, <3>1, QuietStep DEF WindowMoves, orders, work, pass, boot
  <2> QED
    BY <1>8, <2>1, <2>2, <2>3 DEF Time
<1>9. CASE ExitWatchdog
  <2>1. ExitWorks
    BY <1>9, Constants DEF ExitWatchdog, ExitWorks
  <2> QED
    BY <1>9, <2>1, ExitDoubted DEF ExitWatchdog, work
<1> QED
  BY <1>2, <1>3, <1>4, <1>5, <1>6, <1>7, <1>8, <1>9 DEF RunLoop

-------------------------------------------------------------------------------
(* The restart.                                                                *)

(* At most one entry filled while nobody listened, and it fits.                *)
LEMMA BoughtAtMostOne ==
  ASSUME TypeOK, EntriesSound
  PROVE  LET S == {e \in EntryIds : xe[e] = "filled"}
         IN  /\ Cardinality(S) \in {0, 1}
             /\ Cardinality(S) = 1 =>
                  /\ batch.qty < MaxLots
                  /\ \A f \in EntryIds : entry[f] # "NONE" => xe[f] = "filled"
<1> DEFINE S == {e \in EntryIds : xe[e] = "filled"}
<1>1. CASE S = {}
  BY <1>1, FS_EmptySet
<1>2. CASE S # {}
  <2>1. PICK e \in S : TRUE
    BY <1>2
  <2>2. \A f \in EntryIds : entry[f] # "NONE" => f = e
    BY <2>1 DEF EntriesSound
  <2>3. \A f \in S : f = e
    BY <2>2 DEF EntriesSound
  <2>4. S = {e}
    BY <2>1, <2>3
  <2>5. Cardinality(S) = 1
    BY <2>4, FS_Singleton
  <2>6. batch.qty < MaxLots
    BY <2>1 DEF EntriesSound
  <2> QED
    BY <2>1, <2>2, <2>5, <2>6
<1> QED
  BY <1>1, <1>2

(* The reloaded exit agrees with the exchange.                                 *)
LEMMA ReloadedAgrees ==
  ASSUME FlowInv
  PROVE  /\ ExitReloaded \in ExitType /\ Told \in XchType
         /\ Agree(ExitReloaded, Told)
         /\ ExitReloaded # NoExit <=> Told.st # "none"
<1>0. /\ batch \in BatchType /\ exit \in ExitType /\ xx \in XchType
      /\ Agree(exit, xx) /\ batch.exiting = exit.qty - exit.filled
  BY TypesOf DEF FlowInv, ExitSound
<1>1. CASE xx.st = "none"
  <2>1. ExitReloaded = NoExit /\ Told = xx
    <3>1. Told = [xx EXCEPT !.st = "none"]
      BY <1>1 DEF Told
    <3> QED
      BY <1>0, <1>1, <3>1 DEF ExitReloaded, XchType
  <2> QED
    BY <1>0, <1>1, <2>1, Constants DEF Agree
<1>2. CASE xx.st \in {"sent", "lost"}
  <2>1. /\ ExitReloaded = [exit EXCEPT !.st = "RECONCILING"]
        /\ Told = [xx EXCEPT !.st = xx.st]
    BY <1>2 DEF ExitReloaded, Told
  <2>2. Told = xx
    BY <1>0, <2>1 DEF XchType
  <2>3. /\ ExitReloaded.kind = exit.kind /\ ExitReloaded.qty = exit.qty
        /\ ExitReloaded.filled = exit.filled /\ ExitReloaded.st = "RECONCILING"
        /\ ExitReloaded \in ExitType
    BY <1>0, <2>1 DEF ExitType, OrderStatus, Working
  <2>4. ExitReloaded # NoExit
    BY <2>3, Constants
  <2> QED
    BY <1>0, <1>2, <2>2, <2>3, <2>4 DEF Agree, Working
<1>3. CASE xx.st \notin {"none", "sent", "lost"}
  <2>1. ExitReloaded = ExitTold
    BY <1>3 DEF ExitReloaded
  <2> QED
    BY <1>0, <1>3, <2>1, ToldAgrees
<1> QED
  BY <1>1, <1>2, <1>3

LEMMA RestartStep ==
  ASSUME FlowInv, Restart
  PROVE  FlowInv'
<1>0. /\ TypeOK /\ EntriesSound /\ ExitSound
      /\ batch \in BatchType /\ exit \in ExitType /\ xx \in XchType
      /\ Agree(exit, xx) /\ batch.exiting = exit.qty - exit.filled
      /\ entry \in EntryType /\ xe \in XeType
      /\ pending \in {"none", "LIMIT", "MARKET"} /\ due \in BOOLEAN
      /\ window \in {"open", "blocked", "flatten"} /\ stored \in {"none", "LIMIT", "MARKET"}
      /\ restarts \in 0..MaxRestarts /\ MaxRestarts \in Nat
  BY TypesOf, LotsAssumption DEF FlowInv, ExitSound
<1>1. /\ restarts < MaxRestarts /\ restarts' = restarts + 1
      /\ exit' = ExitReloaded /\ batch' = BatchReloaded /\ xx' = Told
      /\ sub' = [e \in EntryIds |-> "idle"]
      /\ cooling' = FALSE /\ due' = (due /\ stored # "none")
      /\ loop' = "idle" /\ target' = None /\ flatten' = FALSE /\ fault' = FALSE
      /\ UNCHANGED <<window, stored>>
  BY DEF Restart
<1>2. /\ entry' = [e \in EntryIds |-> EntryReloaded(e)]
      /\ xe' = [e \in EntryIds |-> CASE xe[e] \in {"sent", "lost"} -> xe[e]
                                     [] xe[e] \in AtExchange       -> "live"
                                     [] OTHER                      -> "none"]
      /\ Resumes
  BY DEF Restart
<1>3. \A e \in EntryIds :
        \/ xe[e] \in {"none", "filled", "canceled"} /\ entry'[e] = "NONE" /\ xe'[e] = "none"
        \/ xe[e] \in {"sent", "lost"} /\ entry'[e] = "RECONCILING" /\ xe'[e] = xe[e]
        \/ xe[e] \in {"open", "live"} /\ entry'[e] = "OPEN" /\ xe'[e] = "live"
  BY <1>0, <1>2 DEF XeType, EntryReloaded, AtExchange
<1>4. entry' \in EntryType /\ xe' \in XeType
  BY <1>2, <1>3 DEF EntryType, XeType
<1> DEFINE sold == IF xx.st \in {"none", "sent", "lost"} THEN batch ELSE BatchSold
           bought == Cardinality({e \in EntryIds : xe[e] = "filled"})
           b == IF bought = 0 THEN sold ELSE EntryFill(sold, bought)
<1>5. sold \in BatchType /\ sold.qty <= batch.qty
  <2>1. batch.qty <= batch.qty
    BY <1>0, LotsAssumption DEF BatchType
  <2> QED
    BY <1>0, <2>1, ToldAgrees
<1>6. /\ bought \in {0, 1}
      /\ bought = 1 => /\ batch.qty < MaxLots
                       /\ \A f \in EntryIds : entry[f] # "NONE" => xe[f] = "filled"
  BY <1>0, BoughtAtMostOne
<1>7. b \in BatchType /\ (bought = 0 => b.qty <= batch.qty)
  <2> HIDE DEF sold, bought
  <2>1. CASE bought = 0
    BY <1>5, <2>1
  <2>2. CASE bought = 1
    <3>1. bought \in 0..(MaxLots - sold.qty)
      BY <1>0, <1>5, <1>6, <2>2, LotsAssumption DEF BatchType
    <3> QED
      BY <1>5, <2>2, <3>1, PurchaseCounts
  <2> QED
    BY <1>6, <2>1, <2>2
<1>8. /\ exit' \in ExitType /\ xx' \in XchType /\ Agree(exit', xx')
      /\ exit' # NoExit <=> xx'.st # "none"
  BY <1>1, ReloadedAgrees
<1> DEFINE left == exit'.qty - exit'.filled
<1>9. left \in 0..MaxLots
  BY <1>8, Constants, LotsAssumption DEF ExitType, Agree
<1>10. batch' = [qty |-> b.qty, exiting |-> left, exitAt |-> stored # "none",
                 status |-> IF left > 0 THEN "EXITING"
                            ELSE IF b.qty > 0 THEN "ACTIVE" ELSE b.status]
  BY <1>1 DEF BatchReloaded
<1>11. batch' \in BatchType /\ batch'.qty = b.qty /\ batch'.exiting = left
  <2> HIDE DEF b, left
  <2>1. (stored # "none") \in BOOLEAN /\ b.qty \in 0..MaxLots /\ b.status \in BatchStatus
    BY <1>7 DEF BatchType
  <2> QED
    BY <1>9, <1>10, <2>1 DEF BatchType, BatchStatus
<1>12. EntriesSound'
  <2>1. \A e \in EntryIds : entry'[e] # "NONE" => entry[e] # "NONE" /\ xe[e] # "filled"
    BY <1>0, <1>3 DEF EntriesSound
  <2>2. \A e \in EntryIds : xe'[e] # "none" => entry'[e] # "NONE"
    BY <1>3
  <2>3. \A e \in EntryIds : sub'[e] = "idle"
    BY <1>1
  <2>4. ASSUME NEW e \in EntryIds, entry'[e] # "NONE" PROVE batch'.qty < MaxLots
    <3>1. bought = 0
      BY <1>6, <2>1, <2>4
    <3>2. b.qty <= batch.qty /\ batch.qty < MaxLots /\ b.qty \in Nat /\ batch.qty \in Nat
      BY <1>0, <1>7, <2>1, <2>4, <3>1, LotsAssumption DEF EntriesSound, BatchType
    <3> HIDE DEF b
    <3> QED
      BY <1>11, <3>2, LotsAssumption
  <2> QED
    BY <1>0, <2>1, <2>2, <2>3, <2>4 DEF EntriesSound
<1>13. /\ task' \in {"idle", "start", "sleep"} /\ job' \in JobType
       /\ pending' \in {"none", "LIMIT", "MARKET"}
       /\ task' = "start" => exit' = NoExit
  <2> DEFINE now == stored = "MARKET" \/ due \/ window = "flatten"
  <2>1. now \in BOOLEAN
    OBVIOUS
  <2>2. \/ /\ task' \in {"idle", "sleep"} /\ job' = Idle /\ pending' \in {"none", "LIMIT"}
        \/ /\ ExitReloaded = NoExit /\ pending' = "none"
           /\ task' = "start" /\ job' = [Idle EXCEPT !.now = now]
    BY <1>2 DEF Resumes, Ends
  <2> HIDE DEF now
  <2> QED
    BY <1>1, <2>1, <2>2, JobTakes, Constants
<1>14. ExitSound'
  BY <1>8, <1>11, <1>13 DEF ExitSound, ExitWorks, Creating
<1>15. TypeOK'
  <2>1. (due /\ stored # "none") \in BOOLEAN /\ restarts + 1 \in 0..MaxRestarts
    BY <1>0, <1>1
  <2> QED
    BY <1>0, <1>1, <1>4, <1>8, <1>11, <1>13, <2>1, TypesOfNext DEF TaskPoint
<1> QED
  BY <1>12, <1>14, <1>15 DEF FlowInv

-------------------------------------------------------------------------------
LEMMA FlowInit == Init => FlowInv
<1> SUFFICES ASSUME Init PROVE FlowInv
  OBVIOUS
<1>1. TypeOK
  <2>1. /\ batch \in BatchType /\ exit \in ExitType /\ xx \in XchType /\ job \in JobType
    BY Constants DEF Init
  <2>2. /\ entry \in EntryType /\ xe \in XeType
        /\ sub \in [EntryIds -> {"idle", "prewrite", "post"}]
    BY DEF Init, EntryType, XeType
  <2>3. /\ task \in TaskPoint /\ restarts \in 0..MaxRestarts
    BY LotsAssumption DEF Init, TaskPoint
  <2> QED
    BY <2>1, <2>2, <2>3, TypesOf DEF Init
<1>2. EntriesSound
  BY DEF Init, EntriesSound
<1>3. ExitSound
  <2>1. 0 = 0 - 0
    OBVIOUS
  <2> QED
    BY <2>1, Constants DEF Init, ExitSound, ExitWorks, Agree, Creating
<1> QED
  BY <1>1, <1>2, <1>3 DEF FlowInv

LEMMA FlowStep ==
  ASSUME FlowInv, [Next]_vars
  PROVE  FlowInv'
<1>1. CASE UNCHANGED vars
  <2>1. Moves
    BY <1>1 DEF Moves, vars, work
  <2> QED
    BY <1>1, <2>1, TypesOf, QuietStep
       DEF vars, orders, work, clock, pass, boot, FlowInv
<1>2. CASE \E e \in EntryIds : Strategy(e) \/ XchEntry(e) \/ DeliverEntry(e)
  BY <1>2, StrategySteps
<1>3. CASE CandleCloses \/ RunLoop \/ ExitWatchdog \/ Time
  BY <1>3, LoopSteps
<1>4. CASE ExitTask
  BY <1>4, TaskSteps
<1>5. CASE XchTakes \/ XchFills \/ XchCancels
  BY <1>5, ExchangeSteps
<1>6. CASE DeliverExit
  BY <1>6, DeliverExitStep
<1>7. CASE Restart
  BY <1>7, RestartStep
<1> QED
  BY <1>1, <1>2, <1>3, <1>4, <1>5, <1>6, <1>7 DEF Next

LEMMA FlowInvariance == Spec => []FlowInv
  BY FlowInit, FlowStep, PTL DEF Spec

(* Every variable keeps its type; with it the batch never holds more lots than *)
(* check_notional_limits admits, whatever fills late or while the daemon is    *)
(* down, because one entry at a time works (active_entry_orders).              *)
THEOREM FlowTyped == Spec => []TypeOK
<1>1. FlowInv => TypeOK
  BY DEF FlowInv
<1> QED
  BY <1>1, FlowInvariance, PTL

(* execute_batch_exit, _refresh_and_retry_limit_exit and _complete_limit_exit  *)
(* create an exit order only where none works and no lots are kept back,       *)
(* through every cancel, refusal, retry and restart.                           *)
THEOREM ExitsNeverMeet == Spec => []ExitsNeverCollide
<1>1. FlowInv => ExitsNeverCollide
  <2> SUFFICES ASSUME FlowInv PROVE ExitsNeverCollide
    OBVIOUS
  <2>1. ExitSound /\ 0 = 0 - 0
    BY DEF FlowInv
  <2>2. batch.exiting = IF ExitWorks THEN exit.qty - exit.filled ELSE 0
    BY <2>1, Constants DEF ExitSound, ExitWorks
  <2> QED
    BY <2>1, <2>2 DEF ExitSound, ExitsNeverCollide, Creating
<1> QED
  BY <1>1, FlowInvariance, PTL

-------------------------------------------------------------------------------
(* A pass of the window while the flatten is pending, which it then is until   *)
(* the pass ends, so no entry begins behind its back: once                     *)
(* wait_for_submissions is over none is on its way, and the one it cancels is  *)
(* the only one that works.                                                    *)
PassInv ==
  flatten =>
  /\ loop \in {"entries", "cancel"} => \A e \in EntryIds : sub[e] = "idle"
  /\ loop = "cancel" => target \in EntryIds /\ \A e \in EntryIds \ {target} : entry[e] = "NONE"

LEMMA PassKept ==
  ASSUME PassInv, UNCHANGED <<pass, sub>>,
         \A e \in EntryIds : entry[e] = "NONE" => entry'[e] = "NONE"
  PROVE  PassInv'
  BY DEF PassInv, pass

LEMMA PassStep ==
  ASSUME FlowInv, PassInv, [Next]_vars
  PROVE  PassInv'
<1>t. /\ entry \in EntryType /\ sub \in [EntryIds -> {"idle", "prewrite", "post"}]
      /\ EntriesSound
  BY TypesOf DEF FlowInv
<1>1. CASE UNCHANGED <<pass, sub, entry>>
  BY <1>1, PassKept
<1>2. ASSUME NEW e \in EntryIds, CreateEntry(e)
      PROVE  PassInv'
  <2>1. ~flatten /\ UNCHANGED pass
    BY <1>2 DEF CreateEntry, EntryGate, EntryBlocked
  <2> QED
    BY <2>1 DEF PassInv, pass
<1>3. ASSUME NEW e \in EntryIds, EntryPrewritten(e) \/ EntryPosted(e)
      PROVE  PassInv'
  <2>1. sub[e] # "idle" /\ UNCHANGED pass
    BY <1>3 DEF EntryPrewritten, EntryPosted
  <2>2. flatten => loop \notin {"entries", "cancel"}
    BY <2>1 DEF PassInv
  <2> QED
    BY <2>1, <2>2 DEF PassInv, pass
<1>4. ASSUME NEW e \in EntryIds, EntryDoubted(e)
      PROVE  PassInv'
  <2>1. /\ entry[e] # "NONE" /\ UNCHANGED <<pass, sub>>
        /\ entry' = [entry EXCEPT ![e] = "RECONCILING"]
    BY <1>4 DEF EntryDoubted
  <2>2. \A f \in EntryIds : entry[f] = "NONE" => entry'[f] = "NONE"
    BY <1>t, <2>1 DEF EntryType
  <2> QED
    BY <2>1, <2>2, PassKept
<1>5. ASSUME NEW e \in EntryIds, DeliverEntry(e)
      PROVE  PassInv'
  <2>1. /\ xe[e] # "none" /\ UNCHANGED <<pass, sub>>
        /\ entry' = [entry EXCEPT ![e] = IF xe[e] = "open" THEN "OPEN" ELSE "NONE"]
    BY <1>5 DEF DeliverEntry
  <2>2. entry[e] # "NONE"
    BY <1>t, <2>1 DEF EntriesSound
  <2>3. \A f \in EntryIds : entry[f] = "NONE" => entry'[f] = "NONE"
    BY <1>t, <2>1, <2>2 DEF EntryType
  <2> QED
    BY <2>1, <2>3, PassKept
<1>6. CASE EntryStays
  <2>1. /\ entry[job.entry] # "NONE" /\ UNCHANGED <<pass, sub>>
        /\ entry' = [entry EXCEPT ![job.entry] = "RECONCILING"]
    BY <1>6 DEF EntryStays
  <2>2. \A f \in EntryIds : entry[f] = "NONE" => entry'[f] = "NONE"
    BY <1>t, <2>1 DEF EntryType
  <2> QED
    BY <2>1, <2>2, PassKept
<1>7. CASE PassOpens
  <2>1. /\ UNCHANGED <<entry, sub>>
        /\ loop' = "submissions" \/ UNCHANGED pass
    BY <1>7 DEF PassOpens, orders
  <2> QED
    BY <1>1, <2>1 DEF PassInv
<1>8. CASE SubmissionsIdle
  <2>1. /\ \A e \in EntryIds : sub[e] = "idle"
        /\ loop = "submissions" /\ loop' = "entries" /\ UNCHANGED <<sub, flatten>>
    BY <1>8 DEF SubmissionsIdle, Submitting, orders
  <2> QED
    BY <2>1 DEF PassInv
<1>9. CASE PassCancels
  <2>1. /\ loop = "entries" /\ loop' = "cancel" /\ UNCHANGED <<sub, entry, flatten>>
        /\ target' \in EntryIds /\ entry[target'] # "NONE"
    BY <1>9 DEF PassCancels, LiveEntries, orders
  <2>2. \A e \in EntryIds \ {target'} : entry[e] = "NONE"
    BY <1>t, <2>1 DEF EntriesSound
  <2> QED
    BY <2>1, <2>2 DEF PassInv
<1>10. CASE loop' = "idle"
  BY <1>10 DEF PassInv
<1>11. CASE PassCloses \/ PassGivesUp \/ Restart
  BY <1>10, <1>11 DEF PassCloses, PassGivesUp, Restart, Finish
<1>12. CASE ExitTask /\ ~EntryStays
  <2> USE DEF orders, pass
  <2>1. CASE TaskStarts \/ Recorded
    BY <1>1, <2>1 DEF TaskStarts, Recorded, Proceed, CreateExit, Raises
  <2>2. CASE EntryIsGone \/ Refreshed \/ Sweep \/ SweepRecorded
    BY <1>1, <2>2 DEF EntryIsGone, Refreshed, Sweep, SweepRecorded, CreateExit, Raises
  <2>3. CASE ExitPrewritten \/ ExitAccepted \/ ExitRefused \/ ExitUnknown \/ Wakes \/ ExitStays
    BY <1>1, <2>3 DEF ExitPrewritten, ExitAccepted, ExitRefused, ExitUnknown, Wakes, ExitStays
  <2> QED
    BY <1>12, <2>1, <2>2, <2>3 DEF ExitTask
<1>13. CASE \/ UNCHANGED vars \/ CandleCloses \/ ExitWatchdog \/ Time
            \/ XchTakes \/ XchFills \/ XchCancels \/ DeliverExit
            \/ \E e \in EntryIds : XchEntry(e)
  BY <1>1, <1>13 DEF vars, orders, pass, CandleCloses, ExitWatchdog, Time, GraceEnds,
     CoolingEnds, WindowMoves, XchTakes, XchFills, XchCancels, DeliverExit, XchEntry
<1> QED
  BY <1>2, <1>3, <1>4, <1>5, <1>6, <1>7, <1>8, <1>9, <1>11, <1>12, <1>13
     DEF Next, Strategy, RunLoop

LEMMA PassInvariance == Spec => [](FlowInv /\ PassInv)
<1>1. Init => PassInv
  BY DEF Init, PassInv
<1> QED
  BY <1>1, PassStep, FlowInvariance, PTL DEF Spec

(* The step that withdraws the window closes a pass that found no entry left.  *)
LEMMA PassEndsFlat ==
  ASSUME FlowInv, PassInv, [Next]_vars, flatten, ~flatten', UNCHANGED restarts
  PROVE  batch.qty = 0 /\ \A e \in EntryIds : /\ xe[e] \notin {"sent", "open", "live"}
                                              /\ sub[e] \notin {"prewrite", "post"}
<1>1. flatten' # flatten
  OBVIOUS
<1>2. PassCloses
  <2>1. ~ UNCHANGED pass
    BY <1>1 DEF pass
  <2>2. ~ Restart
    BY LotsAssumption, TypesOf DEF Restart, FlowInv
  <2>3. CASE \E e \in EntryIds : Strategy(e) \/ XchEntry(e) \/ DeliverEntry(e)
    BY <2>1, <2>3 DEF Strategy, CreateEntry, EntryPrewritten, EntryPosted, EntryDoubted,
       XchEntry, DeliverEntry
  <2>4. CASE ExitTask
    <3>1. CASE TaskStarts \/ Recorded
      BY <2>1, <3>1 DEF TaskStarts, Recorded, Proceed, CreateExit, Raises
    <3>2. CASE EntryIsGone \/ Refreshed \/ Sweep \/ SweepRecorded
      BY <2>1, <3>2 DEF EntryIsGone, Refreshed, Sweep, SweepRecorded, CreateExit, Raises
    <3>3. CASE \/ EntryStays \/ ExitPrewritten \/ ExitAccepted \/ ExitRefused \/ ExitUnknown
               \/ Wakes \/ ExitStays
      BY <2>1, <3>3 DEF EntryStays, ExitPrewritten, ExitAccepted, ExitRefused, ExitUnknown,
         Wakes, ExitStays
    <3> QED
      BY <2>4, <3>1, <3>2, <3>3 DEF ExitTask
  <2>5. CASE \/ UNCHANGED vars \/ CandleCloses \/ ExitWatchdog \/ Time
             \/ XchTakes \/ XchFills \/ XchCancels \/ DeliverExit
    BY <2>1, <2>5 DEF vars, CandleCloses, ExitWatchdog, Time, GraceEnds, CoolingEnds,
       WindowMoves, XchTakes, XchFills, XchCancels, DeliverExit
  <2>6. CASE RunLoop
    BY <1>1, <2>1, <2>6 DEF RunLoop, PassOpens, SubmissionsIdle, PassCancels, PassGivesUp, Finish
  <2> QED
    BY <2>2, <2>3, <2>4, <2>5, <2>6 DEF Next
<1>3. batch.qty = 0
  <2>1. batch.qty \in Nat
    BY TypesOf, LotsAssumption DEF FlowInv, BatchType
  <2>2. flatten' = (flatten /\ batch.qty > 0)
    BY <1>2 DEF PassCloses, Finish
  <2>3. ~ (batch.qty > 0)
    BY <2>2, Zenon
  <2> QED
    BY <2>1, <2>3
<1>4. loop \in {"entries", "cancel"} /\ \A e \in EntryIds : entry[e] = "NONE" /\ sub[e] = "idle"
  BY <1>2 DEF PassCloses, PassInv, LiveEntries
<1>5. \A e \in EntryIds : xe[e] = "none"
  BY <1>4 DEF FlowInv, EntriesSound
<1> QED
  BY <1>3, <1>4, <1>5

(* _process_scheduled_window withdraws the pending flatten only from an        *)
(* account that is flat and stays so: no entry works or is on its way.         *)
THEOREM WindowEndsFlat == Spec => FlattenEndsFlat
<1>1. FlowInv /\ PassInv /\ [Next]_vars =>
        [flatten /\ ~flatten' /\ UNCHANGED restarts =>
           batch.qty = 0 /\ \A e \in EntryIds : /\ xe[e] \notin {"sent", "open", "live"}
                                                /\ sub[e] \notin {"prewrite", "post"}]_vars
  BY PassEndsFlat
<1> QED
  BY <1>1, PassInvariance, PTL DEF Spec, FlattenEndsFlat

-------------------------------------------------------------------------------
(* A restart.  An exit order that is still there is the one the daemon knew.   *)
LEMMA RestartTakesUp ==
  ASSUME FlowInv, Restart, stored # "none", batch'.qty > 0
  PROVE  task' # "idle" \/ exit'.kind = "MARKET"
<1>1. /\ exit \in ExitType /\ xx \in XchType /\ Agree(exit, xx)
  BY TypesOf DEF FlowInv, ExitSound
<1>2. exit' = ExitReloaded /\ batch' = BatchReloaded /\ Resumes
  BY DEF Restart
<1>3. CASE ExitReloaded = NoExit
  BY <1>2, <1>3 DEF Resumes
<1>4. CASE ExitReloaded # NoExit
  <2>1. xx.st # "none"
    BY <1>4 DEF ExitReloaded
  <2>2. exit # NoExit /\ exit.kind \in {"LIMIT", "MARKET"}
    BY <1>1, <2>1 DEF Agree, ExitType
  <2>3. ExitReloaded.kind = exit.kind
    <3>1. \/ ExitReloaded = [exit EXCEPT !.st = "RECONCILING"]
          \/ ExitReloaded = [exit EXCEPT !.filled = xx.cum, !.st = ExitStatus]
      BY <1>1, <1>4, <2>1 DEF ExitReloaded, ExitTold, XchType
    <3> QED
      BY <1>1, <3>1 DEF ExitType
  <2> QED
    BY <1>2, <1>4, <2>2, <2>3 DEF Resumes
<1> QED
  BY <1>3, <1>4

LEMMA OnlyRestartCounts ==
  ASSUME [Next]_vars, restarts' # restarts
  PROVE  Restart
<1>1. ~ UNCHANGED boot
  BY DEF boot
<1>2. CASE \E e \in EntryIds : Strategy(e) \/ XchEntry(e) \/ DeliverEntry(e)
  BY <1>1, <1>2 DEF Strategy, CreateEntry, EntryPrewritten, EntryPosted, EntryDoubted,
     XchEntry, DeliverEntry
<1>3. CASE ExitTask
  <2>1. CASE TaskStarts \/ Recorded
    BY <1>1, <2>1 DEF TaskStarts, Recorded, Proceed, CreateExit, Raises
  <2>2. CASE EntryIsGone \/ Refreshed \/ Sweep \/ SweepRecorded
    BY <1>1, <2>2 DEF EntryIsGone, Refreshed, Sweep, SweepRecorded, CreateExit, Raises
  <2>3. CASE \/ EntryStays \/ ExitPrewritten \/ ExitAccepted \/ ExitRefused \/ ExitUnknown
             \/ Wakes \/ ExitStays
    BY <1>1, <2>3 DEF EntryStays, ExitPrewritten, ExitAccepted, ExitRefused, ExitUnknown,
       Wakes, ExitStays
  <2> QED
    BY <1>3, <2>1, <2>2, <2>3 DEF ExitTask
<1>4. CASE \/ UNCHANGED vars \/ CandleCloses \/ ExitWatchdog \/ Time \/ RunLoop
           \/ XchTakes \/ XchFills \/ XchCancels \/ DeliverExit
  BY <1>1, <1>4 DEF vars, CandleCloses, ExitWatchdog, Time, GraceEnds, CoolingEnds,
     WindowMoves, XchTakes, XchFills, XchCancels, DeliverExit, RunLoop, PassOpens,
     SubmissionsIdle, PassCancels, PassCloses, PassGivesUp
<1> QED
  BY <1>2, <1>3, <1>4 DEF Next

(* resume_active_exits: a batch whose exit was ever sent is not left alone by  *)
(* a restart, whatever the order did while the daemon was down.                *)
THEOREM ExitsAreResumed == Spec => RestartResumes
<1>1. FlowInv /\ [Next]_vars =>
        [restarts' # restarts /\ stored # "none" /\ batch'.qty > 0 =>
           task' # "idle" \/ exit'.kind = "MARKET"]_vars
  BY RestartTakesUp, OnlyRestartCounts
<1> QED
  BY <1>1, FlowInvariance, PTL DEF Spec, RestartResumes
===============================================================================
