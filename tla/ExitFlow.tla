------------------------------- MODULE ExitFlow --------------------------------
(* One position batch on its way out: the exit task and the evaluation loop of *)
(* next_gen/exit_manager.py, the scheduled risk window, the entries of         *)
(* next_gen/strategy_engine.py that may join the batch meanwhile, and a daemon *)
(* that may die and start again.                                               *)
(*                                                                             *)
(* AccountState says what one order does to the account whoever places it;     *)
(* here the callers are the real ones.  In exchange one order's own life is    *)
(* coarser: an order that ended is no longer there, an update from the stream  *)
(* is absorbed and stored in one step, a refusal is stored where it is learnt, *)
(* and one latch ("fault") stands for has_unrecoverable_fault and              *)
(* private_stream_gap, which close the same gates.  An entry is one lot, and   *)
(* its symbol settings are in place.  Any order may be cancelled at the        *)
(* exchange at any time: by the cancel request the task waits for, by the      *)
(* strategy's own time limit, by hand.  Timers are flags: "due" says the grace *)
(* period counted from exit_order_submitted_at is over, "cooling" that a       *)
(* refusal is less than thirty seconds old.                                    *)
EXTENDS OrderModel, FiniteSets

CONSTANTS
  EntryIds,     \* slots for entry orders of the batch's symbol and side
  MaxLots,      \* check_notional_limits, in lots; also bounds the batch
  MaxRestarts,  \* bound: how often the daemon dies
  None

ASSUME LotsAssumption == MaxLots \in Nat \ {0} /\ MaxRestarts \in Nat
ASSUME SlotAssumption == None \notin EntryIds /\ "exit" \notin EntryIds

VARIABLES
  batch,     \* the PositionBatch
  entry,     \* status of each working entry order; "NONE" is a free slot
  sub,       \* where submit_order of each entry stands
  exit,      \* the working exit order, active_exit_orders; or NoExit
  xe, xx,    \* what the exchange did with the entries and with the exit
  task,      \* where the batch's exit task stands, _active_exit_tasks
  job,       \* its locals: immediate, fresh reason, retried, lots to sweep, entry
  pending,   \* _pending_exits: "none", or the kind of exit decided on
  cooling,   \* _rejected_exit_until lies ahead
  due,       \* the grace period is over
  loop,      \* where _process_scheduled_window of the run loop stands
  target,    \* the entry that loop cancels
  window,    \* ScheduledRiskWindowConfig: open, entries stopped, or also flattening
  flatten,   \* scheduled_flatten_pending
  fault,     \* the latches
  stored,    \* kind of the last exit order in the database, or "none"
  restarts

orders == <<entry, sub, exit, xe, xx>>
work   == <<task, job, pending, cooling>>
clock  == <<due, window>>
pass   == <<loop, target, flatten>>
boot   == <<stored, restarts>>
vars   == <<batch, orders, work, clock, pass, fault, boot>>

NoExit == [kind |-> "none", qty |-> 0, filled |-> 0, st |-> "NONE"]
Unsent == [st |-> "none", cum |-> 0]
Idle   == [now |-> FALSE, fresh |-> FALSE, retried |-> FALSE, sweep |-> 0,
           entry |-> None]

Init ==
  /\ batch = NoBatch
  /\ entry = [e \in EntryIds |-> "NONE"] /\ sub = [e \in EntryIds |-> "idle"]
  /\ exit = NoExit
  /\ xe = [e \in EntryIds |-> "none"] /\ xx = Unsent
  /\ task = "idle" /\ job = Idle /\ pending = "none" /\ cooling = FALSE
  /\ due = FALSE /\ window = "open"
  /\ loop = "idle" /\ target = None /\ flatten = FALSE
  /\ fault = FALSE /\ stored = "none" /\ restarts = 0

-------------------------------------------------------------------------------
LiveEntries == {e \in EntryIds : entry[e] # "NONE"}
ExitWorks == exit # NoExit
InDoubt == exit.st = "RECONCILING" \/ \E e \in EntryIds : entry[e] = "RECONCILING"

EntryBlocked_WindowOnly == window # "open"
EntryBlocked == flatten \/ window # "open"      \* scheduled_entry_blocked
FlattenDue == flatten \/ window = "flatten"     \* _scheduled_flatten_due
EntryGate == ~fault /\ ~InDoubt /\ ~EntryBlocked
ExitGate == ~fault /\ ~InDoubt

-------------------------------------------------------------------------------
(* The strategy: _submit_candidates and submit_order for an entry.             *)

(* The latest batch that has not started exiting takes the order; otherwise a  *)
(* new batch does, here in the place of one that is over in every respect.     *)
Joins == batch.qty > 0 /\ ~batch.exitAt
IsOver == /\ batch.qty = 0 /\ LiveEntries = {} /\ ~ExitWorks
           /\ task = "idle" /\ loop = "idle" /\ pending = "none" /\ ~cooling

(* check_notional_limits, with an entry of one lot.                            *)
EntryFits == batch.qty < MaxLots

CreateEntry(e) ==
  /\ sub[e] = "idle" /\ e \notin {job.entry, target}
  /\ LiveEntries = {}                                  \* active_entry_orders
  /\ EntryGate /\ EntryFits
  /\ \/ Joins /\ UNCHANGED <<batch, due, stored>>
     \/ /\ ~Joins /\ IsOver
        /\ batch' = NoBatch /\ due' = FALSE /\ stored' = "none"
  /\ entry' = [entry EXCEPT ![e] = "SUBMITTED"]
  /\ sub' = [sub EXCEPT ![e] = "prewrite"]
  /\ UNCHANGED <<exit, xe, xx, work, window, pass, fault, restarts>>

EntryPrewritten(e) ==
  /\ sub[e] = "prewrite"
  /\ \/ sub' = [sub EXCEPT ![e] = "post"] /\ xe' = [xe EXCEPT ![e] = "sent"]
        /\ UNCHANGED <<entry, fault>>
     \/ sub' = [sub EXCEPT ![e] = "idle"] /\ entry' = [entry EXCEPT ![e] = "NONE"]
        /\ fault' = TRUE /\ UNCHANGED xe
  /\ UNCHANGED <<batch, exit, xx, work, clock, pass, boot>>

(* post_order answers: taken, refused, or nobody knows.                        *)
EntryPosted(e) ==
  /\ sub[e] = "post"
  /\ sub' = [sub EXCEPT ![e] = "idle"]
  /\ \/ xe[e] \notin {"sent", "lost"} /\ UNCHANGED <<entry, xe>>
     \/ /\ xe[e] = "sent"
        /\ entry' = [entry EXCEPT ![e] = "NONE"] /\ xe' = [xe EXCEPT ![e] = "none"]
     \/ /\ entry' = [entry EXCEPT ![e] = IF @ = "SUBMITTED" THEN "RECONCILING" ELSE @]
        /\ UNCHANGED xe
  /\ UNCHANGED <<batch, exit, xx, work, clock, pass, fault, boot>>

(* Its watchdog, or cancel_stale_entry_orders, ran out of time.                *)
EntryDoubted(e) ==
  /\ entry[e] \in {"SUBMITTED", "OPEN"}
  /\ entry' = [entry EXCEPT ![e] = "RECONCILING"]
  /\ UNCHANGED <<batch, sub, exit, xe, xx, work, clock, pass, fault, boot>>

-------------------------------------------------------------------------------
(* The evaluation: evaluate_active_batches for this batch.  "rule" is what the *)
(* closed candle says: "none", or the kind of exit its return asks for.        *)

Forgets == batch.status = "CLOSED" \/ batch.qty = 0

Free_IgnoresOrder == ~cooling /\ task = "idle"
Free == ~cooling /\ ~ExitWorks /\ task = "idle"

(* What makes the batch leave: the window, a decision still open, a new one.   *)
Wanted_NewOnly(rule) == FlattenDue \/ rule # "none"
Wanted_NoWindow(rule) == pending # "none" \/ rule # "none"
Wanted(rule) == FlattenDue \/ pending # "none" \/ rule # "none"

Evaluate(rule) ==
  IF ~fault /\ Forgets
  THEN /\ pending' = "none" /\ cooling' = FALSE /\ UNCHANGED <<task, job>>
  ELSE IF ~Forgets /\ ExitGate /\ Free /\ Wanted(rule)
  THEN /\ task' = "start"
       /\ job' = [Idle EXCEPT
            !.now = \/ FlattenDue
                    \/ IF pending = "none" THEN rule = "MARKET"
                       ELSE pending = "MARKET" \/ (batch.exitAt /\ due),
            !.fresh = pending = "none"]
       /\ UNCHANGED <<pending, cooling>>
  ELSE UNCHANGED work

(* A candle closed, or one missed while disconnected was fetched.              *)
CandleCloses ==
  /\ ~FlattenDue
  /\ \E rule \in {"LIMIT", "MARKET"} : Evaluate(rule)
  /\ UNCHANGED <<batch, orders, clock, pass, fault, boot>>

-------------------------------------------------------------------------------
(* One pass of run(): _process_scheduled_window, then an evaluation.           *)

Finish(f) == flatten' = f /\ loop' = "idle" /\ target' = None

Submitting == (\E e \in EntryIds : sub[e] # "idle") \/ task \in {"prewrite", "post"}

PassOpens ==
  /\ loop = "idle"
  /\ IF EntryBlocked
     THEN /\ flatten' = (flatten \/ window = "flatten")
          /\ loop' = "submissions" /\ UNCHANGED <<target, work>>
     ELSE UNCHANGED pass /\ Evaluate("none")
  /\ UNCHANGED <<batch, orders, clock, fault, boot>>

(* wait_for_submissions returned; what it saw may have changed since.          *)
SubmissionsIdle ==
  /\ loop = "submissions" /\ ~Submitting
  /\ loop' = "entries"
  /\ UNCHANGED <<batch, orders, work, clock, target, flatten, fault, boot>>

PassCancels ==
  /\ loop = "entries" /\ LiveEntries # {}
  /\ target' \in LiveEntries
  /\ loop' = "cancel"
  /\ UNCHANGED <<batch, orders, work, clock, flatten, fault, boot>>

PassCloses ==
  /\ \/ loop = "entries" /\ LiveEntries = {}
     \/ loop = "cancel" /\ entry[target] = "NONE"
  /\ Finish(flatten /\ batch.qty > 0)
  /\ Evaluate("none")
  /\ UNCHANGED <<batch, orders, clock, fault, boot>>

(* The cancel was not confirmed in time: the pass ends where it stands, and    *)
(* with an order in doubt the evaluation after it can at most forget.          *)
PassGivesUp ==
  /\ loop = "cancel" /\ entry[target] # "NONE"
  /\ entry' = [entry EXCEPT ![target] = "RECONCILING"]
  /\ Finish(flatten)
  /\ IF ~fault /\ Forgets
     THEN pending' = "none" /\ cooling' = FALSE /\ UNCHANGED <<task, job>>
     ELSE UNCHANGED work
  /\ UNCHANGED <<batch, sub, exit, xe, xx, clock, fault, boot>>

-------------------------------------------------------------------------------
(* The exit task: execute_batch_exit, _submit_exit_order and                   *)
(* _complete_limit_exit.  It ends by returning or, at _exit_task_done, with a  *)
(* fault because something raised.                                             *)

Ends == task' = "idle" /\ job' = Idle

Raises == Ends /\ fault' = TRUE
          /\ UNCHANGED <<batch, orders, cooling, clock, pass, boot>>

Exiting(b) == [qty |-> b.qty, exiting |-> b.exiting, status |-> b.status, exitAt |-> TRUE]

(* create_exit_order, then submit_order up to the write of the row.  A closed  *)
(* gate takes the order back and leaves only the start of the grace period.    *)
CreateExit(kind, lots, again) ==
  IF ExitWorks \/ ~CanReserve(batch, lots) THEN Raises
  ELSE /\ IF ExitGate
          THEN /\ batch' = Exiting(ReserveForExit(batch, lots))
               /\ exit' = [kind |-> kind, qty |-> lots, filled |-> 0, st |-> "SUBMITTED"]
               /\ task' = "prewrite"
               /\ job' = [Idle EXCEPT !.now = kind = "MARKET", !.retried = again]
          ELSE batch' = Exiting(batch) /\ Ends /\ UNCHANGED exit
       /\ UNCHANGED <<entry, sub, xe, xx, cooling, clock, pass, fault, boot>>

Kind(now) == IF now THEN "MARKET" ELSE "LIMIT"

(* From the recorded decision to the first await: note the decision, see that  *)
(* the exit may be sent, and get rid of an entry that could still fill.        *)
Proceed ==
  LET now == job.now \/ (batch.exitAt /\ due) \/ FlattenDue
  IN  /\ pending' = IF pending = "none" THEN Kind(job.now) ELSE pending
      /\ IF ~ExitGate
         THEN Ends /\ UNCHANGED <<batch, orders, cooling, clock, pass, fault, boot>>
         ELSE IF LiveEntries = {} THEN CreateExit(Kind(now), batch.qty, FALSE)
         ELSE /\ task' = "cancelEntry"
              /\ \E e \in LiveEntries : job' = [Idle EXCEPT !.now = now, !.entry = e]
              /\ UNCHANGED <<batch, orders, cooling, clock, pass, fault, boot>>

TaskStarts ==
  /\ task = "start"
  /\ IF batch.qty = 0
     THEN /\ Ends /\ pending' = "none"
          /\ UNCHANGED <<batch, orders, cooling, clock, pass, fault, boot>>
     ELSE IF job.fresh \/ FlattenDue
     THEN /\ task' = "record"
          /\ UNCHANGED <<batch, orders, job, pending, cooling, clock, pass, fault, boot>>
     ELSE Proceed

Recorded ==
  /\ task = "record"
  /\ \/ Proceed
     \/ Raises /\ UNCHANGED pending

(* cancel_and_confirm on the entry returned.                                   *)
EntryIsGone ==
  /\ task = "cancelEntry" /\ entry[job.entry] = "NONE"
  /\ IF batch.qty = 0
     THEN Ends /\ UNCHANGED <<batch, orders, cooling, clock, pass, fault, boot>>
     ELSE CreateExit(Kind(job.now), batch.qty, FALSE)
  /\ UNCHANGED pending

EntryStays ==
  /\ task = "cancelEntry" /\ entry[job.entry] # "NONE"
  /\ entry' = [entry EXCEPT ![job.entry] = "RECONCILING"]
  /\ Ends
  /\ UNCHANGED <<batch, sub, exit, xe, xx, pending, cooling, clock, pass,
                 fault, boot>>

Returned == ReleaseExitReservation(batch, exit.qty - exit.filled)

ExitPrewritten ==
  /\ task = "prewrite"
  /\ \/ /\ xx' = [st |-> "sent", cum |-> 0] /\ stored' = exit.kind
        /\ task' = "post"
        /\ UNCHANGED <<batch, exit, job, fault>>
     \/ /\ exit' = NoExit /\ batch' = Returned /\ fault' = TRUE
        /\ Ends /\ UNCHANGED <<xx, stored>>
  /\ UNCHANGED <<entry, sub, xe, pending, cooling, clock, pass, restarts>>

(* The order stands: a limit order waits out the grace period.                 *)
Stands == IF job.now THEN Ends ELSE task' = "sleep" /\ job' = Idle

ExitAccepted ==
  /\ task = "post" /\ xx.st \notin {"sent", "lost"}
  /\ Stands
  /\ cooling' = (cooling /\ ~job.retried)
  /\ UNCHANGED <<batch, orders, pending, clock, pass, fault, boot>>

(* A business refusal, or the request never left; a limit order refused for    *)
(* its tick size gets one more try after a refresh of the price filters.       *)
ExitRefused ==
  /\ task = "post" /\ xx.st = "sent"
  /\ xx' = Unsent /\ exit' = NoExit /\ batch' = Returned
  /\ cooling' = TRUE
  /\ \/ Ends
     \/ ~job.now /\ ~job.retried /\ task' = "refresh" /\ job' = Idle
  /\ UNCHANGED <<entry, sub, xe, pending, clock, pass, fault, boot>>

(* No answer: unless the stream has spoken first the order is in doubt and the *)
(* task lets go of it.                                                         *)
ExitUnknown ==
  /\ task = "post"
  /\ IF exit.st \in {"SUBMITTED", "RECONCILING"}
     THEN exit' = [exit EXCEPT !.st = "RECONCILING"] /\ Ends /\ UNCHANGED cooling
     ELSE Stands /\ cooling' = (cooling /\ ~job.retried) /\ UNCHANGED exit
  /\ UNCHANGED <<batch, entry, sub, xe, xx, pending, clock, pass, fault, boot>>

ExitWatchdog ==
  /\ exit.st = "SUBMITTED" /\ task # "prewrite"
  /\ exit' = [exit EXCEPT !.st = "RECONCILING"]
  /\ UNCHANGED <<batch, entry, sub, xe, xx, work, clock, pass, fault, boot>>

(* _refresh_and_retry_limit_exit.                                              *)
Refreshed ==
  /\ task = "refresh"
  /\ \/ Ends /\ UNCHANGED <<batch, orders, cooling, clock, pass, fault, boot>>
     \/ batch.qty > 0 /\ CreateExit("LIMIT", batch.qty, TRUE)
  /\ UNCHANGED pending

(* The grace period is over, or the window cuts it short.                      *)
Wakes ==
  /\ task = "sleep" /\ (due \/ FlattenDue)
  /\ IF batch.qty = 0
     THEN Ends
     ELSE task' = "cancelExit" /\ UNCHANGED job
  /\ UNCHANGED <<batch, orders, pending, cooling, clock, pass, fault, boot>>

Sweep ==
  /\ task = "cancelExit" /\ ~ExitWorks
  /\ IF batch.qty = 0 \/ ~ExitGate
     THEN Ends /\ UNCHANGED <<batch, orders, cooling, clock, pass, fault, boot>>
     ELSE IF FlattenDue
     THEN /\ task' = "recordSweep" /\ job' = [Idle EXCEPT !.sweep = batch.qty]
          /\ UNCHANGED <<batch, orders, cooling, clock, pass, fault, boot>>
     ELSE CreateExit("MARKET", batch.qty, FALSE)
  /\ UNCHANGED pending

SweepRecorded ==
  /\ task = "recordSweep"
  /\ CreateExit("MARKET", job.sweep, FALSE) \/ Raises
  /\ UNCHANGED pending

(* The limit order's end was not confirmed: no replacement.                    *)
ExitStays ==
  /\ task = "cancelExit" /\ ExitWorks
  /\ exit' = [exit EXCEPT !.st = "RECONCILING"]
  /\ Ends
  /\ UNCHANGED <<batch, entry, sub, xe, xx, pending, cooling, clock, pass,
                 fault, boot>>

-------------------------------------------------------------------------------
(* The exchange.  "open" is an order whose acceptance the stream has yet to    *)
(* tell, "live" one it has told.                                               *)
AtExchange == {"open", "live"}

XchEntry(e) ==
  /\ \/ xe[e] = "sent" /\ \E s \in {"open", "lost"} : xe' = [xe EXCEPT ![e] = s]
     \/ xe[e] \in AtExchange /\ \E s \in {"filled", "canceled"} : xe' = [xe EXCEPT ![e] = s]
  /\ UNCHANGED <<batch, entry, sub, exit, xx, work, clock, pass, fault, boot>>

XchTakes ==
  /\ xx.st = "sent" /\ \E s \in {"open", "lost"} : xx' = [xx EXCEPT !.st = s]
  /\ UNCHANGED <<batch, entry, sub, exit, xe, work, clock, pass, fault, boot>>

XchFills ==
  /\ xx.st \in AtExchange
  /\ \E n \in 1..(exit.qty - xx.cum) :
       xx' = [st |-> IF xx.cum + n = exit.qty THEN "filled" ELSE xx.st, cum |-> xx.cum + n]
  /\ UNCHANGED <<batch, entry, sub, exit, xe, work, clock, pass, fault, boot>>

(* Cancelled, or what a market order could not trade expires.                  *)
XchCancels ==
  /\ xx.st \in AtExchange /\ xx' = [xx EXCEPT !.st = "canceled"]
  /\ UNCHANGED <<batch, entry, sub, exit, xe, work, clock, pass, fault, boot>>

-------------------------------------------------------------------------------
(* _apply_order_trade_update, for what the exchange did since the last one.    *)
DeliverEntry(e) ==
  /\ xe[e] \in {"open", "filled", "canceled"}
  /\ entry' = [entry EXCEPT ![e] = IF xe[e] = "open" THEN "OPEN" ELSE "NONE"]
  /\ xe' = [xe EXCEPT ![e] = IF @ = "open" THEN "live" ELSE "none"]
  /\ batch' = IF xe[e] = "filled" THEN EntryFill(batch, 1) ELSE batch
  /\ UNCHANGED <<sub, exit, xx, work, clock, pass, fault, boot>>

ExitStatus == IF xx.st = "filled" THEN "FILLED"
              ELSE IF xx.st = "canceled" THEN "CANCELED"
              ELSE IF xx.cum > 0 THEN "PARTIALLY_FILLED" ELSE "OPEN"

(* The batch and the exit order after the exit's latest fills and its end.     *)
BatchSold ==
  LET freed == IF xx.st = "canceled"
               THEN ReleaseExitReservation(batch, exit.qty - xx.cum) ELSE batch
  IN  IF xx.cum = exit.filled THEN freed
      ELSE ExitFill(freed, xx.cum - exit.filled, ExitStatus \in Terminal)

ExitTold == IF ExitStatus \in Terminal THEN NoExit
            ELSE [exit EXCEPT !.filled = xx.cum, !.st = ExitStatus]

Told == IF xx.st \in {"filled", "canceled"} THEN Unsent
        ELSE [xx EXCEPT !.st = IF @ = "open" THEN "live" ELSE @]

DeliverExit ==
  /\ \/ xx.st \in {"open", "filled", "canceled"}
     \/ xx.st = "live" /\ xx.cum > exit.filled
  /\ exit' = ExitTold /\ batch' = BatchSold /\ xx' = Told
  /\ UNCHANGED <<entry, sub, xe, work, clock, pass, fault, boot>>

-------------------------------------------------------------------------------
(* Time.                                                                       *)
GraceEnds ==
  /\ batch.exitAt /\ ~due /\ due' = TRUE
  /\ UNCHANGED <<batch, orders, work, window, pass, fault, boot>>

CoolingEnds ==
  /\ cooling /\ cooling' = FALSE
  /\ UNCHANGED <<batch, orders, task, job, pending, clock, pass, fault, boot>>

WindowMoves ==
  /\ \/ window = "open" /\ window' \in {"blocked", "flatten"}
     \/ window = "blocked" /\ window' = "flatten"
     \/ window = "flatten" /\ window' = "open"
  /\ UNCHANGED <<batch, orders, work, due, pass, fault, boot>>

-------------------------------------------------------------------------------
(* The daemon dies and starts again: load_active_state, restore_startup_state  *)
(* and resume_active_exits.  An order the exchange does not know is in doubt.  *)
EntryReloaded(e) ==
  CASE xe[e] \in {"none", "filled", "canceled"} -> "NONE"
    [] xe[e] \in {"sent", "lost"}               -> "RECONCILING"
    [] OTHER                                    -> "OPEN"

ExitReloaded ==
  CASE xx.st = "none"            -> NoExit
    [] xx.st \in {"sent", "lost"} -> [exit EXCEPT !.st = "RECONCILING"]
    [] OTHER                     -> ExitTold

BatchReloaded ==
  LET sold   == IF xx.st \in {"none", "sent", "lost"} THEN batch ELSE BatchSold
      bought == Cardinality({e \in EntryIds : xe[e] = "filled"})
      b      == IF bought = 0 THEN sold ELSE EntryFill(sold, bought)
      left   == ExitReloaded.qty - ExitReloaded.filled
  IN  [qty |-> b.qty, exiting |-> left, exitAt |-> stored # "none",
       status |-> IF left > 0 THEN "EXITING"
                  ELSE IF b.qty > 0 THEN "ACTIVE" ELSE b.status]

Resumes_WorkingOnly ==
  IF ExitReloaded # NoExit /\ ExitReloaded.kind = "LIMIT"
  THEN task' = "sleep" /\ job' = Idle /\ pending' = "LIMIT"
  ELSE Ends /\ pending' = "none"

Resumes ==
  LET resumed(now) == task' = "start" /\ job' = [Idle EXCEPT !.now = now]
  IN  IF ExitReloaded # NoExit
      THEN IF ExitReloaded.kind = "LIMIT"
           THEN task' = "sleep" /\ job' = Idle /\ pending' = "LIMIT"
           ELSE Ends /\ pending' = "none"
      ELSE /\ pending' = "none"
           /\ IF BatchReloaded.qty > 0 /\ stored # "none"
              THEN resumed(stored = "MARKET" \/ due \/ window = "flatten")
              ELSE Ends

Restart ==
  /\ restarts < MaxRestarts /\ restarts' = restarts + 1
  /\ entry' = [e \in EntryIds |-> EntryReloaded(e)]
  /\ xe' = [e \in EntryIds |-> CASE xe[e] \in {"sent", "lost"} -> xe[e]
                                 [] xe[e] \in AtExchange       -> "live"
                                 [] OTHER                      -> "none"]
  /\ exit' = ExitReloaded /\ batch' = BatchReloaded /\ xx' = Told
  /\ sub' = [e \in EntryIds |-> "idle"]
  /\ Resumes /\ cooling' = FALSE
  /\ due' = (due /\ stored # "none")
  /\ loop' = "idle" /\ target' = None /\ flatten' = FALSE
  /\ fault' = FALSE
  /\ UNCHANGED <<window, stored>>

-------------------------------------------------------------------------------
Strategy(e) == CreateEntry(e) \/ EntryPrewritten(e) \/ EntryPosted(e) \/ EntryDoubted(e)

RunLoop == PassOpens \/ SubmissionsIdle \/ PassCancels \/ PassCloses \/ PassGivesUp

ExitTask == \/ TaskStarts \/ Recorded \/ EntryIsGone \/ EntryStays
            \/ ExitPrewritten \/ ExitAccepted \/ ExitRefused \/ ExitUnknown
            \/ Refreshed \/ Wakes \/ Sweep \/ SweepRecorded \/ ExitStays

Time == GraceEnds \/ CoolingEnds \/ WindowMoves

Next ==
  \/ \E e \in EntryIds : Strategy(e) \/ XchEntry(e) \/ DeliverEntry(e)
  \/ CandleCloses \/ RunLoop \/ ExitTask \/ ExitWatchdog
  \/ XchTakes \/ XchFills \/ XchCancels \/ DeliverExit
  \/ Time \/ Restart

Spec == Init /\ [][Next]_vars

-------------------------------------------------------------------------------
TypeOK ==
  /\ batch \in [qty : 0..MaxLots, exiting : 0..MaxLots, status : BatchStatus,
                exitAt : BOOLEAN]
  /\ entry \in [EntryIds -> {"NONE", "SUBMITTED", "OPEN", "RECONCILING"}]
  /\ sub \in [EntryIds -> {"idle", "prewrite", "post"}]
  /\ exit \in [kind : {"none", "LIMIT", "MARKET"}, qty : 0..MaxLots,
               filled : 0..MaxLots, st : OrderStatus \cup {"NONE"}]
  /\ xe \in [EntryIds -> {"none", "sent", "lost", "open", "live", "filled", "canceled"}]
  /\ xx \in [st : {"none", "sent", "lost", "open", "live", "filled", "canceled"},
             cum : 0..MaxLots]
  /\ task \in {"idle", "start", "record", "cancelEntry", "prewrite", "post", "refresh",
               "sleep", "cancelExit", "recordSweep"}
  /\ job \in [now : BOOLEAN, fresh : BOOLEAN, retried : BOOLEAN, sweep : 0..MaxLots,
              entry : EntryIds \cup {None}]
  /\ pending \in {"none", "LIMIT", "MARKET"} /\ cooling \in BOOLEAN
  /\ due \in BOOLEAN /\ window \in {"open", "blocked", "flatten"}
  /\ loop \in {"idle", "submissions", "entries", "cancel"}
  /\ target \in EntryIds \cup {None}
  /\ flatten \in BOOLEAN /\ fault \in BOOLEAN
  /\ stored \in {"none", "LIMIT", "MARKET"} /\ restarts \in 0..MaxRestarts

(* Wherever the exit task is about to create an order, the batch has no exit   *)
(* order working and keeps no lots back, through every cancel, refusal, retry  *)
(* and restart: create_exit_order never raises on the batch's own account,     *)
(* which would latch the fault and stop every exit of the account.             *)
ExitsNeverCollide ==
  /\ task \in {"start", "record", "cancelEntry", "refresh", "recordSweep"} =>
       ~ExitWorks /\ batch.exiting = 0
  /\ batch.exiting = IF ExitWorks THEN exit.qty - exit.filled ELSE 0

(* scheduled_flatten_pending is only withdrawn from an account that is flat at *)
(* the exchange and cannot become anything else by what is already under way.  *)
FlattenEndsFlat ==
  [][flatten /\ ~flatten' /\ UNCHANGED restarts =>
       batch.qty = 0 /\ \A e \in EntryIds : /\ xe[e] \notin {"sent", "open", "live"}
                                            /\ sub[e] \notin {"prewrite", "post"}]_vars

(* "Resume that responsibility": after a restart a batch whose exit has been   *)
(* sent is not left alone.  Its limit order, or the remainder a finished order *)
(* left, has a task; or a market order is under way.                           *)
RestartResumes ==
  [][restarts' # restarts /\ stored # "none" /\ batch'.qty > 0 =>
       task' # "idle" \/ exit'.kind = "MARKET"]_vars

-------------------------------------------------------------------------------
(* Fairness: coroutines run and HTTP and database calls return, the loop ticks *)
(* and timers end, the stream delivers, a market order ends.  The exchange     *)
(* neither refuses nor loses every order, and the database not every decision. *)
Fairness ==
  /\ WF_vars(ExitTask) /\ WF_vars(RunLoop)
  /\ WF_vars(GraceEnds) /\ WF_vars(CoolingEnds)
  /\ WF_vars(DeliverExit)
  /\ WF_vars(exit.kind = "MARKET" /\ (XchFills \/ XchCancels))
  /\ SF_vars(exit.kind = "MARKET" /\ XchFills /\ xx'.st = "filled")
  /\ SF_vars(XchTakes /\ xx'.st = "open")
  /\ SF_vars(ExitAccepted)
  /\ \A e \in EntryIds : /\ WF_vars(EntryPrewritten(e) \/ EntryPosted(e))
                          /\ WF_vars(DeliverEntry(e))

FairSpec == Spec /\ Fairness

(* Nothing in this process will bring the batch to its end any more: a latch,  *)
(* an order in doubt, or a limit exit no task looks after.                     *)
Unattended == ExitWorks /\ exit.kind = "LIMIT" /\ task = "idle"
Stuck == fault \/ InDoubt \/ Unattended

(* The strategy stops sending entries into the position that is being left.    *)
EntriesEnd == <>[](LiveEntries = {})

(* A decided exit is carried out, however often it is refused, blocked or      *)
(* joined by late entries, unless the account ends up stuck for good or the    *)
(* process dies; a resumed exit is carried out by the next process.            *)
DecisionIsCarriedOut ==
  EntriesEnd => \/ \A r \in 0..MaxRestarts :
                     pending # "none" /\ restarts = r ~> batch.qty = 0 \/ restarts # r
                \/ <>[]Stuck

(* The risk window empties the account.                                        *)
FlattenCompletes ==
  EntriesEnd => (flatten ~> ~flatten) \/ <>[]Stuck

-------------------------------------------------------------------------------
(* What the code says of itself and its interleavings do not keep.             *)

(* "If the batch still holds a position after the grace period, cancel the     *)
(* limit order": the task asks for that, or the account is stuck.              *)
LimitIsWithdrawn ==
  due /\ exit.kind = "LIMIT" /\ xx.st = "live" ~>
    xx.st # "live" \/ task = "cancelExit" \/ fault \/ InDoubt
===============================================================================
