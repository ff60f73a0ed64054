# Verification of crypto-momentum-lab

TLA+ models of the system in this repository, model-checked with TLC, with theorems proved by
TLAPS. All paths below are relative to the repository; the Python package is
`src/crypto_momentum_lab/`, written `cml/` from here on.

Contents: 1 the system · 2 what makes it hard · 3 the modules and how they follow the code ·
4 the runs · 5 bounds · 6 fairness · 7 what is proved · 8 disagreements found ·
9 what is left out · 10 what remains.

## 1. The system

Four kinds of processes share one PostgreSQL database.

**Market data** (`cml/apps/market_data`, `cml/market_data`) keeps WebSocket connections to the
exchange. Every event goes two ways: through a bounded *capture queue* to the raw archive, with gaps
in the trade stream refilled over REST, and through the *aggregation* into 15-second states per
symbol, which go at once to a *hub* with a bounded replay window and, a little later, to the
database.

**Research collector** (`cml/research_collector`) subscribes to the hub, journals what it
receives on disk, materialises it into windows in a file store, and moves a checkpoint.

**Trading daemon** (`cml/next_gen`, one process per account) subscribes to the hub, creates
entries on signals, exits batches on rules and schedules, and follows its orders over REST and
the exchange's private user-data stream. It is the only part that can lose money, and its
account was modelled first; the research collector, which has the hardest crashes, second.

**Everything else**: the operator dashboard (reads), retention and archiving (deletes), health
probes, deployment and research scripts.

| component | state it keeps | operations | talks to |
|---|---|---|---|
| orders and batches, `next_gen/models.py` | status, cumulative fill, released flag; lots held, lots reserved, status, exit deadline | `apply_update`, `reserve_for_exit`, `release_exit_reservation`, `apply_exit_fill` | called by the account |
| account, `next_gen/engine.py` | orders, batches, entry and exit locks, mode, drain flag, stream flag, gap and fault latches | create entry and exit, roll back, absorb stream event, mark in doubt / not sent / rejected, stream up and down, recheck mode, watchdog | executor, stream, repository |
| executor, `next_gen/executor.py` | submissions under way, symbol settings | `submit_order`, cancel and confirm, load and restore at startup, `drain` | account, REST, repository |
| REST client and user stream, `next_gen/client.py` | connection, listen key, last event time | post, cancel, query; `run_stream` | exchange, account |
| repository, `next_gen/persistence.py` | tables `live_orders`, `live_position_batches`, fills | upserts that never undo | PostgreSQL |
| exit manager, `next_gen/exit_manager.py` | one task per batch, deadlines | evaluate, submit, refresh limit, scheduled window, resume | account, executor, risk window |
| strategy, `next_gen/strategy_engine.py` | slots, cancellation of stale entries | submit candidates | account, executor, feed |
| daemon, `next_gen/daemon.py` | tasks, stop event | boot, heartbeat, drain | all of the above |
| hub, `market_data/hub.py` | epoch, sequence, replay window, subscribers | publish, subscribe with a cursor | daemon, collector |
| aggTrade recovery, `market_data/agg_trade_*.py` | last id per symbol, request budget | observe, expand a gap | REST, aggregator |
| aggregation, `market_data/aggregation`, `runtime_states.py` | open bucket per symbol, completeness | add, advance, close | hub, database |
| capture queue, `market_data/capture` | bounded queue, byte count, coalesced values | put, get, close | connections, writers |
| collector, `research_collector` | journal files, manifest, checkpoint, staged windows | accept, materialise, commit, recover, resume | hub, file store |
| raw files, market book, retention, universe | journal and archive; revisions; proofs of archiving; members | append and recover; revise and replay; select and delete; refresh | database, files |

PROJECT.json lists every component with what is, and is not, modelled of it.

What makes each of them correct: the *account* must never believe what the exchange did not do, must
keep reservations, locks and orders consistent through every way an order can end, and may admit
entries only while it knows the state of everything outstanding; the *executor* must leave no
submission without an outcome; the *rows* must let the next process start where this one stopped;
the *exit manager* must exit every batch, and never let two exits compete for its lots; the
*collector* may lose nothing it acknowledged and keep nothing twice; the *hub* must not skip a
sequence a cursor was promised; *aggTrade recovery* must not call a gap closed that is not; the
*queue* must account for every byte; *retention* may delete only what is archived.

## 2. What makes it hard

- Everything in the daemon runs on one asyncio loop, so a step is the code between two awaits, and
  every fact read before an await may be stale after it. `submit_order` awaits three times
  between its gate and the request.
- The answer to a request and the stream's event for the same order race each other, and the
  answer may never come. A request that timed out may be executed later.
- The stream loses frames with each disconnect and never repeats them. The code does not trust
  the order of what it does receive.
- Some handlers hold `_update_lock` while they wait for the database and others do not take it
  at all (`mark_order_rejected`, the watchdog, a disconnect).
- Memory changes first and the row follows; a crash in between leaves what the next start reads.
- An exit order reserves lots. Partial fills, cancellations, rejections, rollbacks and late fills
  each change the reservation, in any order.

- The collector writes five things to disk (journal file, Parquet window, resolution, manifest,
  checkpoint) in an order that must survive a crash between any two, and its next process puts its
  cursors together from three of them.
- A market-data connection may be cut at any await of the event it is delivering, and may be one of
  two that deliver the same trades. A full queue makes producers wait; what wakes them is in the
  hands of the consumer, a timer and the shutdown.
- A bucket of 15 seconds closes twice, first for the hub and then for the database; an event that
  falls between the two must change one copy and not the other, and a gap found later must still
  reach rows already written.
- The hub's subscriber has a queue on each side of the wire, both of which drop what is old, and a
  cursor that belongs to one life of the hub.
- The collector has two sources of the same states, a hub that forgets and a database that lags,
  which do not agree on what a state contains.

The full list, each at the line where it bites, is under "hazards" in PROJECT.json.

## 3. Modules

`OrderModel` – the records of `models.py` as pure operators: the status ranks, `ApplyUpdate`,
`ReserveForExit`, `ReleaseExitReservation`, `ReleaseBatchReservation`, `ExitFill`, `EntryFill`.
Quantities are whole lots.

`AccountState` – one account: memory, rows, the submission coroutines, the exchange and the
stream. State and code:

| variable | code |
|---|---|
| `orders`, `batches` | `AccountState.orders`, `.batches` |
| `entryLock`, `exitLock` | `active_entry_orders` (by symbol and side), `active_exit_orders` (by batch) |
| `mode`, `draining`, `ws`, `gap`, `fault` | `system_mode`, `is_draining`, `ws_connected`, `private_stream_gap`, `has_unrecoverable_fault` |
| `call[i]` | the await at which `submit_order` for order *i* stands: symbol settings, the row, the request, and what follows a refusal, a doubt or a request that did not leave |
| `holder`, `phase` | who holds `_update_lock` and which write it waits for (first try, retry, doubt) |
| `dbOrders`, `dbBatches` | `live_orders`, `live_position_batches` |
| `xch` | what the exchange did with each order and how much it executed |
| `link`, `stream` | whether frames still arrive, and those sent and not yet handled |

Each action is one handler between two awaits, with everything it changes: `Deliver(f)` is
`on_order_trade_update` up to its transaction (absorb, fill the batch, release the reservation,
free the lock, take `_update_lock`), `SaveCommitted` / `SaveRetried` / `SaveFailed` are the three
ways that transaction ends, `WsDown` is `on_ws_status_change(False)` with the doubt it spreads,
and so on. "map" in PROJECT.json gives the lines of every definition.

An order may be in doubt: `RECONCILING` is the local verdict that nobody knows what became of it.
While the daemon runs, nothing resolves a doubt by asking; only the stream does.

`Lots` – what the rest of the system relies on when it trades a batch: lots are bought, kept for one
exit at a time, and only kept lots are sold. `AccountState!ImplementsLots` maps a batch's
quantity to `held` and its reserved lots to `kept`, and TLC checks that every step of the account
is a step of `Lots` or changes neither. The mapping hides all orders: whatever order, answer and
write are involved, a batch is only ever touched in these three ways.

`MCAccountState` – instances for TLC. `AccountSafetyProofs` – theorems, section 7.
`SumTheorems` – facts about sums over finite sets, which `AccountSafetyProofs`, `IngestProofs` and
`CollectorProofs` cite.

### The way out of a position

`ExitFlow` – one batch on its way out, with the callers `AccountState` leaves open: the exit task and
the evaluation loop of `exit_manager.py`, the scheduled risk window, the strategy's entries that may
join the batch meanwhile, and a daemon that may die and start again. The life of one order is
coarser here: an order that ended is gone, an update is absorbed and stored in one step, and one
latch stands for the fault and the gap, which close the same gates.

| variable | code |
|---|---|
| `batch` | the `PositionBatch` |
| `entry`, `sub` | the working entry orders and where `submit_order` of each stands |
| `exit` | the working exit order, `active_exit_orders` |
| `task`, `job` | the await at which the batch's task in `_active_exit_tasks` stands, and its locals |
| `pending`, `cooling` | `_pending_exits`; `_rejected_exit_until` lies ahead |
| `due` | the grace period counted from `exit_order_submitted_at` is over |
| `loop`, `target`, `flatten` | where `_process_scheduled_window` stands, the entry it cancels, `scheduled_flatten_pending` |
| `window` | the phase of `ScheduledRiskWindowConfig` at the current time: open, entries stopped, or flattening, in which entries are stopped as well |
| `fault`, `stored` | the latches; the kind of the last exit order in the database |
| `xe`, `xx` | what the exchange did with the entries and with the exit |

`TaskStarts` to `ExitStays` are the steps of `execute_batch_exit`, `Evaluate` is
`evaluate_active_batches` for the batch, `PassOpens` to `PassGivesUp` are one pass of the scheduled
window, and `Restart` is `load_active_state`, `restore_startup_state` and `resume_active_exits` over
what was stored. Any order may be cancelled at the exchange at any time: by the task, by the
strategy's own time limit, by hand.

`MCExitFlow` – one batch for TLC. `ExitFlowProofs` – theorems.

### The collector

`Archive` – the computations of `journal.py`, `storage.py` and `materializer.py` as operators: how
cursors move (`Accepted`, `Committed`, `Restored`), which records recovery discards
(`AlreadyCommitted`), which copy of a state wins in a window (`Stage`), when a record is done
(`Waiting`, `EmptiesDone`). A state is known by its bucket, a row by its bucket and the source
whose copy it is; the two sources' copies are taken to differ, since equal ones need no rule.

`Collector` – the service around them, with the hub it follows, the database that fills its gaps and
its disk:

| variable | code |
|---|---|
| `hub`, `pg` | `MarketStateHub`: stream id, published batches; the last bucket in `runtime_market_state_15s` |
| `files`, `resolved`, `manifest`, `ckpt`, `archive` | `pending/`, `resolutions.jsonl`, `manifest.json`, the checkpoint file, the Parquet windows |
| `tail` | how `resolutions.jsonl` ends: whole lines, a last line without its newline, or a line somewhere that cannot be parsed |
| `pend`, `cur` | `_pending_records` and the three sequence cursors of `ArchiveJournal` |
| `stream`, `lastSeen`, `lastBucket`, `queue` | `_active_stream_id`, `_last_seen_sequence`, `_last_persisted_bucket`, `_queue` |
| `books` | buffers of the sink; staged, superseded and empty records of the materializer |
| `job` | the worker's or the flush's progress: stage, write window by window, resolve, manifest, unlink, save |
| `phase`, `gap` | where the run loop is; what `_recover_replay_gap` knows |
| `src`, `link` | the source's resume cursor; what the hub sends next |
| `accepted`, `cut` | history: every record ever receipted; an append to `resolutions.jsonl` was cut short and what it left may still be in the way of a start |

An action ends where a write becomes durable or a coroutine awaits, so `Crash` can come between any
two writes. All files but one are replaced by a rename or created whole; `resolutions.jsonl` gets
its lines through a buffered append (`journal.py:405`), so `Crash` may also leave a part of one
(`EndsInAppend`): any first lines of it, the last of them perhaps without a newline, or a broken
line. A broken line raises at each later start, an unended one spoils the next append. `Restart` is
`initialize` with `recover`: it reads what the disk has and nothing else. A missing sequence
(`None`) is -1, below every sequence, which is what the code's comparisons make of it.

`MCCollector` – instance for TLC. `CollectorProofs`, `RestartProofs` – theorems.

### The hub

`Feed` – what a subscriber is promised: batches in the order of their publication, never twice, and
one is left out only while the subscriber knows that batches may be missing.

`Hub` – `MarketStateHub` and one `WebSocketMarketStateSource`, in either of the two ways it is
opened: the live daemon's, which forgets what it missed and asks for its history to be warmed again,
and the collector's, which refuses to go on (`durable`).

| variable | code |
|---|---|
| `epoch`, `seq`, `buffered` | `_stream_id`, `_sequence_by_environment`, the newest batch in the replay buffer |
| `pub` | where `publish` stands: the message is encoded in a thread, then the sequence is committed, then the batch is fanned out |
| `room`, `sq` | the subscriber's queue at the hub, one larger than its replay, and its content |
| `wire`, `ready` | what is sent and not received; the answer to the subscription |
| `client` | the source: down, asking, in the stream, its consumer busy, raised, gone |
| `stream`, `last`, `goal` | the resume cursor, and the sequence up to which it catches up |
| `rq`, `now` | the client's receive queue: batches, a lag or an error; the batch the consumer works on |
| `rewarm`, `up`, `clock` | `_rewarm_required`, the last `on_connection_change`, `StreamAvailabilityClock` |
| `seen`, `recovered` | history: the batch handed over last; nothing handed over since the owner moved the cursor |

`HubRestarts` is a new hub process, `Breaks` a broken connection, `StopsWaiting` the end of the
recovery budget while waiting for a batch. `ImplementsFeed` maps the hub's head to `head`, what was
handed over to `seen`, and unavailability (live) or a raised error (durable) to `warned`. The
queues, the handshake and reconnecting are hidden.

`MCHub` – instance for TLC. `HubProofs` – theorems.

### From a connection to the archive

`Ingest` – connections submit envelopes to `MarketDataCaptureService`, which guards the disk and
fills `BoundedEnvelopeQueue`; `CaptureCoordinator` takes batches out, lets `AggTradeGapRecovery` fill
the gaps between trades, and archives.

| variable | code |
|---|---|
| `queue`, `pending`, `buffer`, `bytes` | the queue, `_pending_by_key`, `_coalescing_buffers`, `_current_bytes` |
| `conn`, `held`, `sent` | each connection: reading, waiting for room, woken, off; the envelope in its `submit`; what it submitted last |
| `service`, `byDisk`, `byOverflow` | `_state`, `_halted_by_disk`, `_halted_by_queue_overflow` |
| `worker`, `batch` | the coordinator's run loop and its batch |
| `stopping` | where `stop()` stands |
| `lastSeen`, `archived`, `gaps` | `_last_seen`; the trades in the archive and those reported missing |
| `first`, `accepted`, `newest` | history: the first trade seen, the trades put in, the last quote kept per key |

Trades are durable and wait for room; quotes of one key are coalesced, may be replaced in the queue
or in the buffer, and are dropped without room. `Archives` is one batch from `expand` to the archive,
in which each jump of ids is refilled exactly or reported; `Breaks` is the same batch cut short by an
exception at any place.

`MCIngest` – instance for TLC. `IngestProofs` – theorems.

### From a connection to the states

`RuntimeStates` – `ClosedMarketStatePublisher`, the continuity tracker in front of it, the queue and
the writer behind it, and the rows.

| variable | code |
|---|---|
| `clock`, `tape`, `sent` | the exchange: its time, when it trades what, what has reached the process |
| `expected`, `last` | `_expected_symbols`, `_last_seen` of the tracker |
| `maxSeen`, `observed`, `lastMat`, `through` | `_max_seen_event_at`, `_observed_symbol_keys`, the two marks of how far empty buckets were made |
| `acc`, `rtDue`, `durDue`, `incomplete` | `_accumulators_by_bucket`, `_realtime_deadlines`, `_durable_deadlines`, `_incomplete_buckets` |
| `step` | the await at which `observe_realtime` stands: the gap command, the hub, many snapshots being built, the rows |
| `queue`, `job`, `dead` | `_durable_queue`, the command its worker has taken, `_durable_failure` |
| `rows`, `gaps` | `runtime_market_state_15s`, the recorded gaps |
| `base`, `start`, `told`, `late`, `unheard`, `unstored` | history: what the properties compare with |

A gap and the rows it reaches into go through one queue but are corrected in two places: a row is
adjusted to the gaps in the database when it is written, and a gap rewrites the rows that are there.
When a bucket closes for the database its deadline is popped first and its accumulator only when all
snapshots are built; with `YieldEvery` or more of them there is an await in between.
`Cut` ends a connection at the await of its event, `Changes` is a membership change, `Restarts` a new
process over the same database.

`MCRuntimeStates` – instance for TLC. `RuntimeStatesProofs` – theorems.

### How they fit together

Events of a connection enter `Ingest` and `RuntimeStates` side by side; the states of
`RuntimeStates` enter `Hub`; what `Feed` promises is what `Collector` and the daemon build on.
`Collector` has its own, coarser hub and database, since its questions need both at once:
its hub hands over in order or reports a reset, as `Feed` promises, and its database lags the hub by
the difference of the two closure delays, which are `RtDelay` and `DurDelay` in `RuntimeStates`.
`ExitFlow` and `AccountState` are two views of one account: the first has the real callers and one
order at a time, the second any callers and every interleaving of one order's life; `OrderModel` is
common to both.

Definitions with a suffix (`Rollback_KeepsLock`) are used by nothing. Each is a slip that one could
make in that piece of code; putting it in place of the definition it is named after makes a
property fail, which is recorded per property under "mutants" in PROJECT.json.

## 4. Runs

| run | question | outcome |
|---|---|---|
| `exit_side` | two exits compete for a batch of two lots: reservations exact, locks and orders agree, nothing sold twice, `Lots` implemented | holds |
| `both_sides` | an entry and an exit on one batch at once: never ahead of the exchange, batches add up, `RUNNING` is safe, lost frames are noticed, rows follow memory, nothing is undone | holds |
| `account_live` | every submission ends; every outcome is learned, or known to be missing | holds under section 6 |
| `unloadable_rows` | the rows can be loaded by the next start | violated |
| `collector_crash` | one crash, signal or error at any point, also inside the append of the resolutions: receipted states are kept, cursors are covered, the journal is accepted at the next start with two named exceptions; every start, pause, stop and replay gap ends | holds, the last under section 6 |
| `collector_reset` | the hub restarts, replay windows are missed, the database keeps up: no hole, hub and ingest in step, better copies stay | holds |
| `stale_manifest` | the write-ahead log keeps what it accepted, across a gap recovery and a restart | violated |
| `exit_flow` | strategy, exit manager and window on one batch, with refusals, lost answers and a restart: exits never compete, flattening ends flat, decisions are carried out, a restart resumes | holds, the liveness under section 6 |
| `limit_orphan` | a LIMIT exit is withdrawn after its grace period | violated |
| `hub_feed` | the hub restarts, queues overflow, connections break: `Feed` implemented, refusals justified, the source catches up | holds, the last under section 6 |
| `ingest` | producers, coalescing, back-pressure, failed writes, a full disk and a stop: bytes exact, trades archived or explained, waiters woken, stop ends | holds, the last under section 6 |
| `runtime_states` | late, lost and repeated trades, a full durable queue, cut connections, membership changes, a dead writer, a restart: completeness is true, rows have one copy, gaps stick, hub and database dense | holds |

What the passing runs mean:

- `ReservationExact`: the lots a batch keeps back are exactly what its one working exit has not
  sold. Violating it takes a partial fill, a cancellation and a late fill, or a rollback in the
  middle, and leads to a batch that can never be exited again or is exited twice.
- `LocksMatchOrders`: a lock is held exactly by the working order of its kind. A lock that is kept
  by an ended order stops a symbol or a batch for good.
- `NeverOversold`: whatever the account has not yet heard, the exits still open at the exchange
  cannot sell more than is held there. This is where treating an unanswered exit as failed would
  show.
- `RunningIsSafe`: the mode that admits entries implies that the stream is up, no gap and no fault
  is latched and no order is in doubt, whichever handler restored it.
- `NothingMissed`: with the stream up, no gap latched and nothing left to read, account and exchange
  agree: a loss of frames is always noticed.
- `Durable`: with no handler at work and no failed write, the rows carry the fills, the final
  statuses and the batch sizes that memory has.
- `NeverUndone`: no step shrinks a fill, reopens a finished order or forgets one that was sent.
- `NeverAheadOfExchange`, `BatchesAddUp`: what the account believes is a part of what happened.
- `OutcomeLearned`: what the exchange finished, the account learns, or it knows of a gap or fault.
- `AcceptedIsKept` (`Collector`): a state with a receipt is in a Parquet file or in a journal file
  that still waits, through crashes, failed unlinks, windows rewritten and copies replaced.
- `CursorIsCovered`: neither the stored nor the running materialized cursor passes a record that
  waits, so resuming from it skips nothing.
- `NeverWedged`: a start rejects what is on disk only where the collector ended inside a gap recovery
  and left a record of the backfill behind, or inside an append to the resolutions (section 8); and a
  recovered gap leaves no record pending, which `_recover_replay_gap` would refuse.
- `NoHoles`: from the first batch the hub delivered, archive and journal together have no selected
  state missing below one they have. `InStep`: what the hub sends next is what ingest expects.
- `ArchiveOnlyImproves`: the database's copy of a row never gives way to the hub's.
- `Settles`, `GapCloses`: a full queue or journal is worked off; a flush that waits for the worker
  and a worker that waits for records do not wait for each other.
- `ExitsNeverCollide`: wherever the task is about to create an exit order, no exit works and no lots
  are kept back. Otherwise `create_exit_order` raises, which latches the fault and stops every exit.
- `FlattenEndsFlat`: `scheduled_flatten_pending` is withdrawn only from an account that is flat at
  the exchange and that nothing under way can change. It is what keeps `entry_blocked` after the
  window.
- `DecisionIsCarriedOut`, `FlattenCompletes`: once the strategy sends no more entries, a decided
  exit empties the batch and the flatten phase ends, however often orders are refused, cancelled or
  partly filled, unless the account is stuck in a way it reports (fault, gap, doubt) or an
  unattended LIMIT order keeps the exit's lock, which is `limit_orphan`.
- `RestartResumes`: a batch whose exit had been sent is taken up by the next process.
- `ImplementsFeed`, `RefusedOnlyIfLost`, `CatchesUp`: the source is told of every loss, is refused
  only for a real one, and reaches the head once it is left alone.
- `BytesAreExact`, `WaitersAreWoken`: an error in the byte count would starve the producers or let
  the queue grow; a producer that waits has somebody left to wake it.
- `ArchivedOrExplained`, `AcceptedIsKept` (`Ingest`): the archived and the reported trades are
  together exactly those from the first to the last seen, and nothing the queue took is left out but
  a trade older than the first one seen.
- `NewestIsTaken`: through replacement, buffer, flush and close the worker gets the newest quote
  kept.
- `StopReturns`: stopping ends, with producers waiting and a worker that is late.
- `CompleteIsWhole`: a state marked complete holds every trade of its bucket the exchange made since
  the first one tracked, but those that came after the durable close.
- `OneCopy`, `GapsStick`: the writer never meets a row of its own that differs, which ends the
  service; a gap reaches rows written before and after it.
- `HubIsDense`, `NothingForgotten`: hub and database get every bucket of a symbol that stays
  expected, unless a cut connection took it. For the database this says where a bucket is: it has a
  durable deadline, its row is on the way, or it is stored. An accumulator alone does not count,
  because nothing comes back to one without a deadline (section 8).

## 5. Bounds

*Account.* Order ids are the bound on how many orders are ever created: two exits, or one entry and
one exit, over one batch and one symbol (two batches of one symbol would only share an entry lock,
and two symbols share nothing but the mode). `MaxQty` bounds an order: 2 lots in `exit_side`, so that
an order can be partly filled, canceled and filled late; 1 lot elsewhere, where a fill is all or
nothing and the interleavings of submission, doubt, disconnect and write are the subject. `SYMMETRY`
permutes order ids in the runs without liveness; nothing distinguishes two ids.

*Exit flow.* Three phases of the risk window (open, entries stopped, flattening; for its users the
configuration's deadline and verifying phases do what flattening does). One entry slot, used again
and again, a batch of two lots and one restart. An exit can then be partly filled, an entry can join
the batch while an exit is being prepared, and every await of the task is reached before and after
the restart. `limit_orphan` needs one lot and no restart.

*Collector.* The market has five buckets, in windows of two, published one or two at a time, with
one bucket (the second) not selected, so that batches are full, empty and spread over two windows.
The hub replays two batches, the queue holds one record and the journal three, or four in
`collector_crash`: each limit is reached. The runs share their faults out: `collector_crash` has one
end of the process (`MaxEnds`), a database one bucket behind (`MaxLag`) and windows that stay open
for two late buckets (`Late`), so that several resolutions are appended at once and a crash can
separate them; `collector_reset` has two lives of the hub (`MaxStreams`). They are kept apart
because their combinations do fail: `AcceptedIsKept` once a hub reset and a restart come together
(`stale_manifest`), `NoHoles` once the database lags, `InStep` after a crash in a commit (section
8). `FirstCursor` says whether the collector had met the hub before.

*Hub.* Six batches in each of two lives of the hub, a window of two, one place in the subscriber's
queue and two in the client's: both queues overflow, a cursor is inside, at the edge of and behind
the window, and a restarted hub publishes sequences the cursor already had.

*Ingest.* Two connections for three trades, so that each can be lost on one, repeated by the other or
missed by both; two updates of one quote, the second larger; two places and three bytes, so that the
queue is full by number and by bytes, with and without the buffer; batches of two. A trade larger
than the whole queue does not occur (all sizes are 1); the branch is in the model.

*Runtime states.* One symbol that trades and one that only quotes, and of buckets two units long
four; a close for the hub one unit after the bucket's end and one for the database two units after
it; a close of two snapshots gives way once (`YieldEvery`, 8 in the code), one of a single snapshot
does not; three tapes: all trades in one bucket, over two, and with a quiet bucket between; one
place in the durable queue; one fault, a cut, a membership change or a restart. With two faults the
run passes as well (5.3 million states).

Every action of every specification is taken in the passing runs, and each of the faults recorded
under "mutants" in PROJECT.json is found within these bounds. `CHECK_DEADLOCK FALSE` is set in every
run, because each of the systems may really stop: a drained account has nothing to do, the clocks of
the market end at their bound, a source may be gone, a service stopped.

## 6. Fairness

`account_live`:

- weak fairness of the steps of a submission (`Settle`): HTTP calls have a timeout and database
  calls return, so an answer or a failure comes;
- strong fairness of the two marks that wait for `_update_lock` and of the delivery of each order's
  frames: `asyncio.Lock` is first come first served, so a waiter is not passed over forever, but
  the lock is not continuously free. Strong fairness of `Deliver` holds only while the frame is
  there: a disconnect may drop it;
- weak fairness of the transaction's end: every handler's write commits or fails;
- weak fairness of noticing a dead socket: the stream has a ping timeout.

Nothing is assumed of the exchange, of reconnecting, of the caller or of the watchdog. An order may
stay open at the exchange forever.

`collector_crash`: weak fairness of the worker's steps and of the steps of gap recovery: both are
tasks of one event loop whose awaits are local file operations or a database query. Nothing is
assumed of the hub, of the market or of the source.

`exit_flow`: weak fairness of the exit task, of the run loop, of the ends of the two timers, and of
the stream's deliveries and the entries' own requests. A MARKET order ends, by a fill or a
cancellation (weak). Strong fairness says that the exchange neither refuses, loses nor cancels
*every* exit: if it is given one again and again, it takes one, answers one and fills one. The code
retries as long as that takes, and nothing less would end it. Nothing is assumed of LIMIT orders or
the strategy. That entries end is a premise of the two properties (`EntriesEnd`), because the
strategy may reopen what was closed.

`hub_feed`: weak fairness of publishing, of the transport and of the source, three loops that never
wait for each other. `CatchesUp` speaks of runs in which connections break only finitely often. A
live source that slept through the whole window is excepted: it asks in vain until its budget ends.

`ingest`: weak fairness of the coordinator's run loop, of `stop()`, and of each connection (a wait
has its time limit, and a connection told to stop ends).

## 7. What is proved

For every value of the constants, from the named assumptions of each module, which say that
constants have their types and that ids of different kinds differ. `RuntimeAssumption` says also
that the durable delay is not smaller than the realtime delay and that they differ by less than a
bucket, as they do in the service's settings.

| module | theorem | says |
|---|---|---|
| `AccountSafetyProofs` | `TypeCorrect` | `TypeOK` of the account |
| | `GateIsSafe` | `RunningIsSafe` |
| | `BehindTheExchange` | `NeverAheadOfExchange` |
| | `OneOrderPerLock` | `LocksMatchOrders` |
| | `ReservationsBalance` | `ReservationExact` |
| | `NoNewsIsLost` | `NothingMissed` |
| | `RowsFollowMemory` | `Durable` |
| | `NothingIsUndone` | `NeverUndone` |
| | `AccountImplementsLots` | the account implements `Lots` |
| | `LotsAddUp` | `BatchesAddUp` |
| | `NothingSoldTwice` | `NeverOversold` |
| `ExitFlowProofs` | `FlowTyped`, `ExitsNeverMeet` | `TypeOK` and `ExitsNeverCollide` |
| | `WindowEndsFlat` | `FlattenEndsFlat` |
| | `ExitsAreResumed` | `RestartResumes` |
| `HubProofs` | `HubTyped` | `TypeOK` of the hub |
| | `SubscriberImplementsFeed` | the hub and its source implement `Feed` |
| | `RefusalMeansLoss` | `RefusedOnlyIfLost` |
| `RuntimeStatesProofs` | `RuntimeTyped`, `GapsAlwaysStick` | `TypeOK` and `GapsStick` |
| | `NoBucketForgotten` | `NothingForgotten` |
| | `HubHearsAll` | `HubIsDense` |
| | `NoConflictOfOurOwn` | `OneCopy` |
| | `CompleteHasAll` | `CompleteIsWhole` |
| `IngestProofs` | `TradesAreExplained` | `ArchivedOrExplained` |
| | `TakenIsKept` | `AcceptedIsKept` |
| | `CountIsExact` | `BytesAreExact` |
| | `NobodySleepsForNothing` | `WaitersAreWoken` |
| | `LastQuoteIsTaken` | `NewestIsTaken` |
| | `LimitsHold` | `TypeOK`, with the limits of the queue |
| `CollectorProofs` | `CollectorTyped` | `TypeOK` of the collector |
| | `NoFileGetsWorse` | `ArchiveOnlyImproves` |
| | `NextIsExpected` | `InStep`, for a collector that never ends |
| | `CommittedIsKept` | what was acknowledged stays archived or waits from the database |
| | `NothingAcceptedIsLost` | `AcceptedIsKept`, while one hub lives |
| | `CursorsStayBehind` | `CursorIsCovered`, while one hub lives |
| | `NothingIsSkipped` | `NoHoles`, for a collector that never ends and a database that keeps up |
| `RestartProofs` | `JournalIsAccepted` | `NeverWedged`, while one hub lives |
| | `NothingIsSkippedByCrashes` | `NoHoles` through every end of the collector, while one hub lives, met at its start, and the database keeps up |

**The account.** Inductive invariants, each preserved by every action given the ones before it.

1. `TypeInv` is `TypeOK` and that no order is filled beyond its quantity. The second part is needed
   for the first: the amount handed to a batch is a difference of fills.
2. `ModeInv` is `RunningIsSafe` and `DoubtIsHeld`. `mark_submission_in_doubt` degrades the mode,
   then waits for its write; if that fails it latches the fault *without* touching the mode. That
   this is right follows only from the order still being in doubt under the lock, which is
   `DoubtIsHeld`.
3. `ExchangeInv` is `NeverAheadOfExchange` and what relates a submission to the exchange: an unknown
   id left no trace, the place a coroutine stands at says what the exchange may have done
   (`CallsAreSound`), a frame never says more than the exchange did and a final frame says all of it
   (`FramesAreSound`). It is proved order by order: a step about one order leaves the others alone
   (`OneOrderSteps`), absorbing old news keeps an order sound (`AbsorbSound`).
4. `BookInv` is `LocksMatchOrders`, `ReservationExact` and `ReleasedWhenEnded`: the flag
   `lot_reservation_released` is set exactly on exits that ended unfilled. It needs `ExchangeInv`
   because a finished order must not be filled further: otherwise a late frame would take lots out
   of a reservation that was already returned. `EndedBook` and `AbsorbBook` are the two lemmas that
   carry the arithmetic.
5. The refinement of `Lots` adds that no order is larger than `MaxQty` (`SizesBounded`), and shows
   action by action that a batch is bought into, reserved, freed, sold out of its reservation, or
   left alone.
6. `NewsInv`: for every order that the exchange took, the account knows its fill and its end or a
   frame is on its way that says so (`Told`), while the stream is up and no gap is latched; while it
   is down and no gap is latched, no order works.
7. `RowsInv`: as long as no fault is latched, every row is behind memory by at most what the holder
   of `_update_lock` is writing (`HolderInv`, `OrderRows`, `BatchRows`).

8. `LotsInv`: finitely many orders were created, and every batch holds what its entries bought less
   what its exits sold (`BatchesAddUp`, over sums). A step changes the fill of one order, and the
   batch by as much (`OneOrderFills`, `OneOrderAddsUp`); how much a frame adds is `AbsorbBook`.

`NeverUndone` follows from 1 to 4 step by step: an order that ended is absorbed only into itself.
`NeverOversold` is no invariant of its own but follows from 1, 3, 4 and 8 (`SoldOnce`): by the lock
at most one exit of a batch can still trade, by `BookInv` the batch keeps back what the account
thinks is left of it, and what the exchange executed beyond that is behind in the account by the same
amount on both sides.

**Sums.** `SumFunctionOnSet` is defined by recursion over subsets, and the library's induction
theorems are out of the provers' reach. `SumTheorems` proves what is needed of it by a smallest
counterexample instead: that the recursion has a solution on every finite set and only one, that the
sum does not depend on the order in which elements are taken out, that it splits over disjoint sets
and sequences, moves along a bijection, is monotone, and changes by what one summand changes.

**The exit flow.** `FlowInv` is `TypeOK`, `EntriesSound` (at most one entry works, and while it does
the batch has room for it: why a limit asked before the request still holds when the fill comes) and
`ExitSound` (what the account believes of the exit agrees with what the exchange did, the batch
keeps back its unsold rest, no exit works where the task is about to create one).

`PassInv` adds what a pass of the window knows while it waits and the flatten is pending: from
`wait_for_submissions` on no entry is on its way, and the entry it cancels is the only one left.
With it the step that withdraws the window finds the account flat (`WindowEndsFlat`).
`ExitsAreResumed` needs no more than `FlowInv`: only a restart counts restarts, and
`resume_active_exits` then reads the order the row speaks of as the exchange left it.

**The hub.** `HubInv` is `TypeOK`, `LinkInv` (what can be under way in which state of the client),
`CursorInv` (the cursor never points past what its hub published, and an answer that refuses it does
so for a real loss), `PipeInv` (receive queue, wire and send queue are sorted, each before the next,
and within what was published), `SeenInv` and `UnwarnedInv` (what was handed over last is the cursor
exactly, unless the owner knows of a loss). The queues may drop anything: that it is noticed rests
on the cursor and on `Gapless`, not on the queues.

**The runtime states.** `RuntimeInv` is `TypeInv` – types, and the shape of what an interrupted
`observe_realtime` still holds – and `KeptInv`: every bucket between a symbol's first one and the
last one materialized has its durable deadline, is among the rows of the event at work, in the
queue, in the writer's job, stored, or taken by a cut. Its core is that materializing the empty
buckets of a quiet symbol leaves none out whichever of the two callers does it. `BuildInv` and
`OpenInv` are about the await between popping a deadline and popping its accumulator: an open
accumulator has its deadline, or its row is being built, or a cut left it behind. `GapsStick` needs
only the types: both orders in which a gap and a row can meet correct the row in the same
transaction.

`MarkInv` and `HubInv` carry `HubHearsAll`: the mark up to which a symbol is materialized is never
behind the realtime mark, so that a bucket that is opened is ahead of both and has not been closed
before; every bucket of a symbol's span is due, told, in the hands of the sink or `unheard`; what is
due is not yet ripe, what was told was. `ObservesParts` takes one event apart for this and for the
two that follow.

`CopyInv` carries `NoConflictOfOurOwn`. A bucket that has left the accumulators is *shut*: the
durable mark has passed it, or, after a restart, everything still to come is later than its end
(`Past`; here `TrackInv` is needed, which ties marks and trades seen to the clock). What is shut is
not opened again (`NotReopened`), so that a bucket is in one command of the line at most, and in one
of line, writer and database, except for a command whose commit was not heard of, which finds what
it wrote itself.

`WholeInv` carries `CompleteHasAll`: a bucket that can still be closed and is not marked incomplete
has every tracked trade, and every state made of one has, unless a gap found later is on its way to
it, stored or lost with a connection. What a trade leaves out is in the buckets its gap covers,
because the tape is in order of time (`WholeGrows`); a trade of a bucket that is shut is late, which
needs `CopyInv`.

**The archive.** `KeptInv` of `IngestProofs`: what moves through the queue is a quote or a trade the
exchange made; the batch is empty unless the worker is busy; archive and reports are exactly the
trades from the first to `_last_seen` while no write failed; a trade the queue accepted is at or
below `_last_seen`, in the queue or in the batch. The main lemma (`Cover`) is that whatever lies
between `_last_seen` and a trade of the batch is either a trade `expand` accepts or inside a jump it
finds, for every order and repetition of ids; it is shown with the least counterexample, since a
batch may hold trades in any order.

`FlowInv` is about the bytes. `QuotesInv` says that a quote is in one place only: buffered, or queued
once under its key and standing for what `_pending_by_key` holds; without it a replacement would
subtract a size that was never counted. `NewestInv` says that what is kept for a key is its last
quote, `BytesInv` that the counter is the sum over the batch, the queue (each place weighing what it
stands for) and the buffers, and `WaitInv` that who waits does so beside bytes. Each step moves the
sums by as much as the counter (`QueueExtends`, `QueueReplaces`, `QueueParts`, `BufferReplaces`,
`CloseSplits`). The limits (`LimitsHold`) rest on the exact count: `put` compares the counter, not
the queue, with `max_bytes`.

**The collector.** `TypeInv` of `CollectorProofs` is `TypeOK`, that files, journal and books are
finite (the cursors are largest and smallest elements of their records), that a record names a life
of the hub that there was, that only a running collector is connected, and which phases wait for a
flush of everything. What the initial staging makes of the records of the journal is a recursive
function over whatever sequence `Orders` picks; `RestagedIn` shows by the least counterexample that
it keeps what one call of `Stage` keeps.

`ImproveInv` carries `NoFileGetsWorse`: the buffer of an open window is at least as good as the file
it will replace, bucket by bucket, because a window is loaded from its file when it is opened and the
hub's copy never wins over the database's; and a flush only writes windows that are open. Nothing
else is needed: it holds for every order of records and every crash.

`StepInv` carries `NextIsExpected`: from the flush of the first start on, `lastSeen` is what the
source resumes after or is ahead of it, and the connection is at most one behind. With `MaxEnds` = 0,
because a commit that was cut short breaks it (section 8).

`SafeInv` carries `CommittedIsKept`. *Safe* is what no restart can lose: the archived states and the
waiting records of the database, which `recover` never discards for their sequence. What the books
leave out they leave out with reason (`BooksSafe`): a row a record no longer waits for is archived or
beaten by a safe copy, an empty receipt holds safe rows only, an open window shows the database's
copy only of safe rows. Staging keeps this (`StageSafe`), so staging everything again at a start
does.

`KeepInv` carries `NothingAcceptedIsLost`, with `MaxStreams = 1`: where a hub's life ends, records
of the next one are discarded by the old cursor (`stale_manifest`). It says of an acknowledged record
that its file is there or that its rows are safe, and needs, each preserved given the ones before it:

- `LogInv`: batches are in order of buckets, the database is behind the hub, and so is what is safe.
- `PlaceInv`: a sequence stands for one batch (`Rec`), and as long as the collector runs every
  pending record is queued, being staged, in the books or among the receipts of the commit.
- `OrderInv`: hub records pass through queue, worker and books in order, so that a record in the
  books is older than one still queued.
- `WindowInv`: a hub's row in a record that waits is buffered in an open window, or beaten; windows
  are written from the oldest on.
- `CursorInv`: what the cursors are to each other, to the log and to the source.
- `WantedInv`: why `recover` may discard a record for its sequence (`seq <= high`) although a commit
  may raise `high` past a record that still waits. Of every batch that is in the journal or may still
  be delivered (`Wanted`) it says: if a cursor has passed it, its rows are safe; if it was accepted,
  its file is there or its rows are safe; and if any later row is safe, its own are (`RowsLow`).
  The last part is what makes the first two inductive: a batch is passed only by a later one that is
  finished, hence safe.
- `BackInv`: what lies between a safe bucket and the next bucket of a backfill is safe, so that a
  record of the database leaves no older row behind.

`CoverInv` adds what `CursorsStayBehind` needs. `AheadInv` strengthens the property: every hub
record that waits is ahead of what a restart would resume after, manifest or checkpoint, and every
one that is pending and not in the commit at work ahead of the cursor in memory. This breaks if a
commit starts behind `cur.mat`, or if a batch at or before it arrives again:

- `TurnInv` says how commits go on. While the source is followed the books hold the hub's batches
  alone and each waits ahead of what is committed (`Orderly`): then batches are finished in their
  sequence (`CommitInOrder`), because windows are written from the oldest on and a batch without
  rows waits for all before it. From a refused replay on (`Lossy`) batches may be finished in any
  order, but none of what waits will be sent again: the hub's replay has passed it (`Gone`).
- `HighInv`: so the two cursors part (`mat < high`) only where the replay has passed `mat`.
- `FreshInv`: what the source delivers as new is ahead of both cursors, or the connection will be
  refused.

`HoleInv` carries `NothingIsSkipped`, over any number of lives of the hub, with `MaxEnds = 0` and
`MaxLag = 0`: the property fails when the database lags (section 8), and when an end of the process
and a reset of the hub come together (`stale_manifest`). *Owed* is what archive and journal may not
leave out below anything they have; nothing that was not owed becomes so (`OwedShrinks`), and what
they have they keep (`HaveGrows`). Besides `OrderedInv`, which is the property for `Owed`, it says:

- `ChainInv`: each batch begins where the one before it ended, also across a restart of the hub, and
  the database has all of them. `HaveInv`: buffers, queue and the checkpoint's bucket speak of what
  is there.
- `LinkInv`, `StreamInv`: the source resumes after what was seen last, nothing arrives twice, and no
  cursor names a life of the hub that has not begun.
- `RunReach`: while the hub is followed, all that is owed is there up to where the next batch
  begins. A sequence of an earlier life says nothing, and is never followed.
- `GapReach`: while a gap is recovered, the same holds up to the next bucket of the backfill, from
  the checkpoint's bucket on, and the backfill ends no earlier than the batch the source resumes
  after. This is where a backfill that begins or ends one bucket off would show, and a batch
  published after the refusal would be lost if it were not ahead of `gap.latest`.

`RestartInv` carries `JournalIsAccepted`, with `MaxStreams = 1`, on top of `CoverInv`. It is about
the numbers of the records that wait on disk (`Awaited`): a start raises "recovered journal has
sequence gap" when they have a hole. As long as records are resolved in the order of their sequences
none can arise, and `Unbroken(n)` says that what waits of the hub from *n* on reaches to the last
batch that came. Three things break that order. An append that a crash cut short resolves some of
its records and not others, which `NeverWedged` excepts by name (`cut`; a start that accepts the
journal ends the exception). The database's copy of a state replaces the hub's, so that a hub record
may be done before an earlier one whose other rows still wait. And a batch may come again after it
was resolved. The proof shows that in the second case the database's record that did it still waits
itself, which is the other exception, and that the third cannot leave a hole.

- `OriginInv`, `BehindInv`: what was accepted is settled – on disk or passed by a cursor on disk –
  and so is every earlier batch that may come again. `HubRowInv`: a hub row in archive or buffers is
  from a batch that came.
- `BackfillInv`, `TurnsInv`: backfills leave no selected bucket out and are resolved bucket by
  bucket; from queue to books the hub's records come before the database's.
- `ComingInv`, `AgainInv`: what is not staged yet is the end of what came, and nothing after a
  waiting record was resolved before it came again.
- `AheadOfOpen`, `AheadOfFiles`, `StagedAhead`: rows that wait are ahead of those buffered and
  archived unless the archive has the database's copy. Hence a hub record that passes an earlier one
  can only have been beaten (`Passing`), and `OverInv` finds the record that beat it.
- `WaitInv`: for each row a record waits for, the hub's records from it on are unbroken, or a record
  of the database waits for that bucket or a later one (`OwesPg`). "Or a later one" makes it
  inductive: windows are written from the oldest on, so a record of the database that is written
  leaves no older row behind. `TailInv` says the same of the whole journal, `RestInv` of the journal
  between two processes, where `recover` discards an initial part of it at most (`FindsNoHole`); it
  also says that resolutions which end in half a line come from a cut append.

`FullInv` carries `NothingIsSkippedByCrashes`, on top of `RestartInv`, and says of every cursor what
it stands for: each batch up to it is in the archive or the journal (`CursorsFull`), for the cursors
of checkpoint, manifest, journal and source alike, since a start may take any of them. It stays so
because a batch above the materialized cursor may still come (`Wanted`), so that a commit which moves
the cursor past it must have finished it (`PassedIsDone`); and because what was journalled stays in
archive or journal through a start that discards it (`AcceptedInv`). `GapFull` says the same of a
backfill, up to its next bucket, and that the batch the source resumes after closed no later than
the backfill ends. `CoveredByLog` says that batches leave no bucket between them, and `AllInOrder`,
which is stronger than `NoHoles`, that nothing selected is missing below anything that is there; it
also gives a backfill the bucket it may begin at. The theorem asks for `MaxStreams = 1`,
`MaxLag = 0` and `FirstCursor = 0`. TLC finds `NoHoles` violated without the second (section 8), and
without the third when a first start crashes twice.

Only model-checked: all liveness (TLAPS does not reason about fairness), and what `Collector`
promises across several lives of the hub when the collector ends in between, where `AcceptedIsKept`
does not hold (`stale_manifest`).

## 8. Disagreements found

Three runs show that the code does not do what it says of itself; PROJECT.json quotes the lines.

1. `unloadable_rows`. A terminal frame frees the entry lock in memory before its status is
   committed, so the next entry of the symbol can be written while the table still shows the first
   as working. After a crash there, `load_active_state` refuses to start.
2. `stale_manifest`. After a gap recovery the checkpoint speaks of the new stream and the manifest of
   the old one, without saying so. A restart before the next commit takes the larger sequence and
   unlinks the new stream's waiting records as already committed; their states are lost.
3. `limit_orphan`. The task of a LIMIT exit ends when the answer to its order is lost. If the stream
   later reports the order open, the doubt is over, but nobody withdraws the order after its grace
   period, and its lock keeps every other exit of the batch out.

Observations made while modelling. They are described by the models or by their bounds, but no run
is devoted to them.

Account and exits:

- `submit_order` rolls back only an order still `PENDING` (`executor.py:306`). A disconnect while it
  awaits the symbol settings has made it `RECONCILING`: never sent, never stored, it keeps its entry
  lock and the account degraded.
- The gate is not asked again after the row is written (`executor.py:369`), so a disconnect during
  the write does not stop the request, although the comment at `engine.py:143` promises it.
- Entries of a batch are cancelled before its exit order is created, but a new one may join during
  the awaits in between (`exit_manager.py:114`). It is swept by the task's later passes.

Collector:

- Recovery backfills to what the database holds and resumes after what the hub last published
  (`service.py:648`). The hub is ahead by the difference of the two closure delays, so the batches
  in between are in neither (`NoHoles` with `MaxLag = 1`).
- A first commit cut between resolution and manifest loses the materialized sequence but not the
  accepted one; each later start begins at the newest batch while ingest expects the next one
  (`service.py:992`; `InStep` with `FirstCursor = -1`, `MaxEnds = 1`). A commit cut between manifest
  and checkpoint has the same symptom once. Where the cut commit is that of a start whose process
  ended before its first checkpoint, the accepted sequence is lost as well, nothing is expected, and
  what was published meanwhile is never asked for (`NoHoles` with `FirstCursor = -1`, `MaxEnds = 2`).

- The records of a backfill have sequence 0 (`source.py:74`), and an empty batch is acknowledged only
  when no waiting record has a smaller sequence (`materializer.py:183`). While a backfilled record
  waits, an empty batch of the hub therefore stays behind although later batches are committed. If
  the collector ends in that gap recovery, the journal keeps, say, batches 2 and 5, and every later
  start raises "recovered journal has sequence gap" (`service.py:348`). `NeverWedged` names the case.
- The append to `resolutions.jsonl` is buffered and has no rename (`journal.py:405`). A crash inside
  it can leave a broken line, and `_iter_resolutions` raises "corrupted materialization resolution"
  at this and every later start (`journal.py:511`); or a line without its newline, which the next
  append continues into a broken one; or the first of several lines, so that, say, batches 2 and 4
  are resolved and 3 and 5 wait, a hole with no record of the database in sight. `NeverWedged` names
  this case too. Beside the two there is none, while one hub lives (`JournalIsAccepted`).

States and archive:

- A connection cut while its event awaits the hub or a full durable queue (`runtime_states.py:609`)
  takes popped states with it: realtime states of all symbols, without a gap in the hub's sequence;
  rows, or a gap's command, for good.
- No queue needs to be full for that. `_build_snapshots` gives way after every eighth snapshot
  (`runtime_states.py:818`), and in the durable half the deadlines are popped before it and the
  accumulators after it. A connection cut there leaves its buckets in `_accumulators_by_bucket`
  without a durable deadline: they are never stored, and never leave the memory. The properties name
  what a cut takes (`unheard`, `unstored`), and hold for all else.
- A trade that comes after the durable close is dropped without a mark, and its row stays complete
  (`late`). The first trade after a start or a membership change is accepted without a gap, so a
  bucket joined in its middle can be marked complete. Gap commands in the queue at a crash are not
  found again.
- A producer that waits for the durable queue when the writer dies goes on waiting, with the lock,
  until the freshness watchdog (`apps/market_data/main.py:322`) ends the service.
- A service halted by the disk does not recover by itself, because its connections stop at the first
  refused envelope (`capture/service.py:169`), and so does one that met a full queue; a quote
  replaced by a smaller one frees bytes without waking anybody, which the next flush or batch makes
  up for.

Hub:

- After a recovery budget has run out, `mark_disrupted` resets the clock, so a live source in
  recovery tries again forever and never raises.
- The live daemon's `MarketDataFeed` subscribes without a cursor and does not look at sequences.

## 9. What is left out

Of the account: prices, margins and notional limits, halts and the risk window (they only keep an
entry from being created, which the model leaves to its environment), daily PnL, the identity of
trades (a repeated fill row is the same row), the sequence numbers of ids. A database transaction
takes effect in one step between its call and its return. Crash and startup are steps of `ExitFlow`;
in `AccountState` `RowsCanBeLoaded` speaks of the rows a crash would leave.

`MarkNotSent` makes its submission idle before its save has finished; nothing depends on the order.

Of the exits: those forced while draining, `close()`, several batches, and the single steps of one
order's life that `AccountState` has. Among these are a prewrite that raises although it was
committed and the failing save of a rejection: `ExitFlow` lets a write that raises leave nothing
behind, and `AccountState` has both. `Restart` is atomic: the stream is up while the stored orders
are compared with the exchange (`executor.py:171`), and a frame that is handled between two awaits
of that, or a REST answer that it overtakes, is not seen here. What one order makes of updates in
any order and repetition is `NeverUndone` of `AccountState`.

Of the collector: a start whose own `unlink` of committed files fails (`journal.py:634`; the unlink
of a commit may), pauses for disk space (a pause that meets the worker ends the process, which
`Crash` covers), a worker that fails while the run loop goes on, the thread that a worker cancelled
by a slow stop leaves behind writing (`service.py:540`), signals during gap recovery, a full queue
found after the record was journalled (ingest is the only producer and looks first), symbols (one
row per bucket), bytes (limits count records) and the warm-up states marked `is_backfill`, which are
never selected. A hub that stops is taken to have stored what it published; the branch of
`_prepare_hub_stream` for a batch of another stream is unreachable, because the source reports the
reset first.

Of the hub: several subscribers (they share the published batches only), more than one environment,
the warm-up batches themselves, `_has_ever_been_ready` of the availability clock (it decides which
time limit applies; `StopsWaiting` may come at any time), TLS and parsing. Of ingest: the
cancellation of a `put` that waits, by a broken connection or the drain's time limit
(`websocket.py:550`, `1109`), which leaves the service as it is, where the model's only way out of a
wait without room halts it; a stop before the coordinator's loop ever ran, on the path of a failed
startup, so that `StopReturns` speaks of services that started; `put_nowait`, the change of symbols,
metrics, the two thresholds of the disk guard, the pages of one refill. Of the states: revisions and
`is_canonical` of the stored rows, prices, volumes and metrics, the drain of `stop()`, and the
branch for a recovered trade that comes late, which the live path never takes. The yield of
`_build_snapshots` in the realtime half is one with the await of the sink behind it: a cut at either
takes the same states. A batch whose publish raises is logged and counts as told, so `HubIsDense` is
about what was handed to the hub.

Whole components, with the reason for each in PROJECT.json:

- *Strategy signals, sizing, symbol rules, quality, normalization, volume, ranking*: arithmetic over
  prices without a protocol. A model would repeat their formulas, and unit tests reach them.
- *Quote hub*: a fan-out of latest values, which promises no history.
- *Retention*: the version fence and the locks guard deletions against dependencies registered by
  another process, but the processes that delete are also the only ones that register, one after the
  other. What is left is SQL over timestamps. (Two things seen on the way: the partitioned path of
  `run_locked_prune` in `deploy/ops/archive_and_trim.py` drops whole partitions without the count
  and fingerprint its docstring promises, and expired partitions are dropped without a plan, so
  without a fence.)
- *Raw files*: one writer, idempotent inserts; the write-ahead pattern is the collector's.
- *Market book*: immutable revisions named by their content; an operation is one call.
- *Universe*: an hourly refresh; its membership changes are inputs of `RuntimeStates`.
- *Applications, health probes, dashboard*: wiring, reports and read-only queries.
- *Operations and research scripts* (`deploy/ops`, `scripts/`): nearly half of the repository's
  lines, offline studies and monitors without shared state.

The models map about 5,900 source lines, 7 % of the repository. They are those with state shared
between coroutines, processes or restarts.

## 10. What remains

In the order of what it would add:

1. The two writers of a slow stop in `Collector`, a failing worker beside a living run loop, and an
   abstract log that hands over every acknowledged state, with its refinement.
2. Several batches in `ExitFlow`, and the drain: forced exits and the order of its steps in
   `daemon.py`.
3. `Collector` over `Feed` itself instead of its own hub, so that what is proved of `Hub` carries
   over.
4. The write-ahead journal of the raw files, and paging inside one refill of `AggTradeGapRecovery`.
