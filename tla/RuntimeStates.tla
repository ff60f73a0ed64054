----------------------------- MODULE RuntimeStates ----------------------------
(* ClosedMarketStatePublisher of market_data/runtime_states.py: trades and     *)
(* quotes of many symbols become one state per symbol and 15 seconds, sent at  *)
(* once to the hub and a little later, through a queue with one writer, to the *)
(* database.  With it the continuity tracker in front of it and the rows       *)
(* runtime_state_repository.py keeps.                                          *)
(*                                                                             *)
(* Time is counted in units of which a bucket has Width.  An event is a trade  *)
(* with its id (its place among the trades of the symbol) or a quote; prices   *)
(* are left out.  observe_realtime holds a lock, so one event is in work at a  *)
(* time; it can be left at an await only: while many snapshots are built, at   *)
(* the realtime sink, and at a durable queue without room.                     *)
EXTENDS Integers, Sequences, FiniteSets

CONSTANTS
  Symbols,
  Tapes,              \* what the exchange may trade: per symbol the times of its trades
  Quoting,            \* the symbols with quotes
  Universe,           \* the symbols the universe may expect
  Width,              \* _BUCKET_SECONDS
  RtDelay,            \* realtime_closure_delay_seconds
  DurDelay,           \* durable_closure_delay_seconds
  QueueRoom,          \* persistence_queue_size
  YieldEvery,         \* _SNAPSHOT_BUILD_YIELD_EVERY
  MaxClock,           \* bound: latest time at the exchange
  MaxFaults           \* bound: cut connections, membership changes and restarts

ASSUME RuntimeAssumption ==
  /\ Quoting \subseteq Symbols /\ Universe \subseteq Symbols
  /\ Tapes \subseteq [Symbols -> Seq(0..MaxClock)]
  /\ \A tp \in Tapes, s \in Symbols : \A m, n \in DOMAIN tp[s] : m <= n => tp[s][m] <= tp[s][n]
  /\ {Width, RtDelay, DurDelay, QueueRoom, YieldEvery} \subseteq Nat \ {0}
  /\ RtDelay <= DurDelay /\ DurDelay - RtDelay < Width
  /\ {MaxClock, MaxFaults} \subseteq Nat

VARIABLES
  clock, tape,     \* the exchange: its time and what it trades when
  sent,            \* id of the trade that reached the process last
  expected,        \* _expected_symbols, also monitored by the tracker
  last,            \* _last_seen; 0: none
  maxSeen,         \* _max_seen_event_at; -1: none
  observed,        \* _observed_symbol_keys
  lastMat,         \* _last_materialized_bucket_by_symbol; -1: none
  through,         \* _last_materialized_empty_buckets_through; -1: none
  acc,             \* _accumulators_by_bucket with the quotes beside them
  rtDue, durDue,   \* _realtime_deadlines, _durable_deadlines
  incomplete,      \* _incomplete_buckets
  step,            \* where observe_realtime stands
  queue, job,      \* _durable_queue, what its worker has taken
  dead,            \* _durable_failure
  rows, gaps,      \* the database
  faults,          \* bound: of these so far
  base, start,     \* history: first trade tracked, first bucket of the baseline
  told,            \* history: states the hub published
  late,            \* history: trades dropped as late
  unheard,         \* history: states for the hub a cut connection took away
  unstored         \* history: buckets whose row or gap it took away

exchange == <<clock, tape>>
memory   == <<expected, last, maxSeen, observed, lastMat, through, acc, rtDue, durDue,
              incomplete>>
writer   == <<queue, job, dead>>
database == <<rows, gaps>>
history  == <<base, start, told, late, unheard, unstored>>
vars     == <<exchange, sent, memory, step, writer, database, faults, history>>

Bucket(t) == t \div Width
End(b)    == (b + 1) * Width
Buckets   == 0..Bucket(MaxClock)
Keys      == Symbols \X Buckets

Most(a, b) == IF a > b THEN a ELSE b
Least(a, b) == IF a < b THEN a ELSE b

NoBucket == [open |-> FALSE, trades |-> {}, quote |-> FALSE]
Empty    == [open |-> TRUE, trades |-> {}, quote |-> FALSE]
Open     == {k \in Keys : acc[k].open}

NoJob  == [kind |-> "none", states |-> {}, gap |-> <<>>]
Rows(S) == [kind |-> "rows", states |-> S, gap |-> <<>>]
Gap(g)  == [kind |-> "gap", states |-> {}, gap |-> g]

Idle         == [at |-> "idle", event |-> <<>>, todo |-> <<>>, states |-> {}]
AtGap(e, g)  == [at |-> "gap", event |-> e, todo |-> <<Gap(g)>>, states |-> {}]
AtBuild(todo) == [at |-> "build", event |-> <<>>, todo |-> todo, states |-> {}]
AtSink(S)    == [at |-> "sink", event |-> <<>>, todo |-> <<>>, states |-> S]
AtRows(todo) == [at |-> "rows", event |-> <<>>, todo |-> todo, states |-> {}]

Init ==
  /\ clock = 0 /\ tape \in Tapes /\ sent = [s \in Symbols |-> 0]
  /\ expected \in SUBSET Universe /\ last = [s \in Symbols |-> 0] /\ maxSeen = -1
  /\ observed = {} /\ lastMat = [s \in Symbols |-> -1] /\ through = -1
  /\ acc = [k \in Keys |-> NoBucket] /\ rtDue = {} /\ durDue = {} /\ incomplete = {}
  /\ step = Idle /\ queue = <<>> /\ job = NoJob /\ dead = FALSE
  /\ rows = {} /\ gaps = {}
  /\ faults = 0
  /\ base = [s \in Symbols |-> 0] /\ start = [s \in Symbols |-> -1]
  /\ told = {} /\ late = {} /\ unheard = {} /\ unstored = {}

-------------------------------------------------------------------------------
(* The exchange.                                                               *)
Made(s) == Cardinality({n \in DOMAIN tape[s] : tape[s][n] <= clock})

TimePasses ==
  /\ clock < MaxClock /\ clock' = clock + 1
  /\ UNCHANGED <<tape, sent, memory, step, writer, database, faults, history>>

-------------------------------------------------------------------------------
(* Materializing the empty buckets of a quiet symbol, both callers: how far    *)
(* _materialize_buckets_until gets with bucket "to" when it last reached m[s], *)
(* and the buckets it adds on the way.                                         *)
Dense(s, obs) == s \in obs /\ s \in expected
Reaching(s, obs, m, to) ==
  IF Dense(s, obs) /\ m[s] # -1 THEN Most(m[s], to) ELSE m[s]
Fills_OneShort(s, obs, m, to) ==
  {<<s, b>> : b \in (m[s] + 1)..(Reaching(s, obs, m, to) - 1)}
Fills(s, obs, m, to) == {<<s, b>> : b \in (m[s] + 1)..Reaching(s, obs, m, to)}

Opened(a, ks) == [k \in Keys |-> IF k \in ks /\ ~a[k].open THEN Empty ELSE a[k]]
Newly(a, ks) == {k \in ks : ~a[k].open}

Through(mark) == Bucket(mark - Width)
Settled(mark) == through # -1 /\ Through(mark) <= through
QuietFills(m, mark) ==
  IF Settled(mark) THEN {}
  ELSE UNION {Fills(s, observed, m, Through(mark)) : s \in Symbols}
QuietReached(m, mark) ==
  IF Settled(mark) THEN m
  ELSE [s \in Symbols |-> Reaching(s, observed, m, Through(mark))]

(* _remember_materialized_bucket                                               *)
Remember(m, k) == [m EXCEPT ![k[1]] = Most(@, k[2])]

(* MarketState15sAccumulator.observe, and the quote kept beside it             *)
Added(a, e) ==
  [a EXCEPT ![<<e.sym, Bucket(e.at)>>] =
     [open |-> TRUE, trades |-> IF e.id = 0 THEN @.trades ELSE @.trades \cup {e.id},
      quote |-> @.quote \/ e.id = 0]]

(* _build_snapshots                                                            *)
Snapshots(a, ks, inc) ==
  {[key |-> k, trades |-> a[k].trades, quote |-> a[k].quote,
    complete |-> k \notin inc] : k \in ks}
Synthetic(st) == st.trades = {} /\ ~st.quote

(* _durable_batches                                                            *)
Batches(S) ==
  LET real == {st \in S : ~Synthetic(st)} IN
  (IF real = {} THEN <<>> ELSE <<Rows(real)>>) \o
  (IF S = real THEN <<>> ELSE <<Rows(S \ real)>>)

(* asyncio.Queue.put: goes on without giving way while there is room.          *)
PutAll_NoWait(q, todo) ==
  /\ queue' = q \o SubSeq(todo, 1, Least(Len(todo), QueueRoom - Len(q)))
  /\ step' = Idle

PutAll(q, todo) ==
  LET n == Least(Len(todo), QueueRoom - Len(q)) IN
  /\ queue' = q \o SubSeq(todo, 1, n)
  /\ step' = IF n = Len(todo) THEN Idle ELSE AtRows(SubSeq(todo, n + 1, Len(todo)))

(* The durable half of _close_ready_buckets, on accumulators a with deadlines  *)
(* due.  The deadlines are popped first, the accumulators when all snapshots   *)
(* are built: in between it gives way once there are many.                     *)
Stores(q, a, ready, inc, todo) ==
  /\ acc' = [k \in Keys |-> IF k \in ready THEN NoBucket ELSE a[k]]
  /\ incomplete' = inc \ ready
  /\ PutAll(q, todo)

ClosesDurably(q, a, due, mark, inc) ==
  LET ready == {k \in due : a[k].open /\ End(k[2]) <= mark}
      kept  == {k \in inc : a[k].open \/ End(k[2]) > mark}
      todo  == Batches(Snapshots(a, ready, inc))
  IN  /\ durDue' = {k \in due : End(k[2]) > mark}
      /\ IF Cardinality(ready) < YieldEvery
         THEN Stores(q, a, ready, kept, todo)
         ELSE /\ acc' = a /\ incomplete' = kept
              /\ queue' = q /\ step' = AtBuild(todo)

(* _observe: event e, the queue being q and the buckets inc incomplete.        *)
Late_Never(b, mark) == FALSE
Late(b, mark) == End(b) <= mark

Observes(e, q, inc) ==
  LET max   == Most(maxSeen, e.at)
      rt    == max - RtDelay
      dur   == max - DurDelay
      key   == <<e.sym, Bucket(e.at)>>
      quiet == QuietFills(lastMat, rt)
      m1    == QuietReached(lastMat, rt)
      a1    == Opened(acc, quiet)
      before == Fills(e.sym, observed \cup {e.sym}, m1, key[2] - 1)
      m2    == [m1 EXCEPT ![e.sym] = Reaching(e.sym, observed \cup {e.sym}, m1, key[2] - 1)]
      a2    == Added(Opened(a1, before), e)
      new   == Newly(acc, quiet) \cup Newly(a1, before) \cup Newly(a1, {key} \ before)
      due   == rtDue \cup new
      ready == {k \in due : End(k[2]) <= rt /\ a2[k].open}
      reach == IF Settled(rt) THEN through
               ELSE IF expected # {} /\ observed # {} THEN Through(rt) ELSE through
  IN  /\ maxSeen' = max
      /\ IF Late(key[2], dur)
         THEN /\ acc' = a1 /\ lastMat' = m1 /\ through' = reach
              /\ rtDue' = rtDue \cup Newly(acc, quiet)
              /\ durDue' = durDue \cup Newly(acc, quiet)
              /\ late' = IF e.id = 0 THEN late ELSE late \cup {<<e.sym, e.id>>}
              /\ incomplete' = inc
              /\ queue' = q /\ step' = Idle
              /\ UNCHANGED <<observed, start>>
         ELSE /\ observed' = observed \cup {e.sym}
              /\ through' = IF e.sym \in observed THEN reach ELSE -1
              /\ lastMat' = Remember(m2, key)
              /\ start' = [start EXCEPT ![e.sym] =
                             IF lastMat[e.sym] = -1 THEN key[2] ELSE @]
              /\ rtDue' = {k \in due : End(k[2]) > rt}
              /\ UNCHANGED late
              /\ IF ready # {}
                 THEN /\ acc' = a2 /\ queue' = q /\ incomplete' = inc
                      /\ durDue' = durDue \cup new
                      /\ step' = AtSink(Snapshots(a2, ready, inc))
                 ELSE ClosesDurably(q, a2, durDue \cup new, dur, inc)
      /\ UNCHANGED <<told, unheard, unstored>>

-------------------------------------------------------------------------------
(* mark_incomplete: what a gap from bucket lo to bucket hi marks in memory.    *)
Marked_OnlyOpen(s, lo, hi) == {k \in {s} \X (lo..hi) : acc[k].open}
Marked(s, lo, hi) ==
  {k \in {s} \X (lo..hi) :
     acc[k].open \/ maxSeen = -1 \/ End(k[2]) > maxSeen - DurDelay}

(* AggTradeContinuityTracker.observe for a trade of a monitored symbol.        *)
Tracked(e) == e.id # 0 /\ e.sym \in expected
Repeated(e) == Tracked(e) /\ last[e.sym] # 0 /\ e.id <= last[e.sym]
AfterGap(e) == Tracked(e) /\ last[e.sym] # 0 /\ e.id > last[e.sym] + 1
GapBefore(e) == [sym |-> e.sym, from |-> last[e.sym], to |-> e.id,
                 lo |-> Bucket(tape[e.sym][last[e.sym]]), hi |-> Bucket(e.at)]

(* observe_realtime up to the first await that gives way.                      *)
Tracks(e) ==
  /\ last' = IF Tracked(e) THEN [last EXCEPT ![e.sym] = e.id] ELSE last
  /\ base' = IF Tracked(e) /\ last[e.sym] = 0 THEN [base EXCEPT ![e.sym] = e.id] ELSE base

Unseen == <<maxSeen, observed, lastMat, through, acc, rtDue, durDue, start, told, late,
            unheard, unstored>>

Arrives(e) ==
  /\ step = Idle
  /\ UNCHANGED <<expected, job, dead, database, faults>>
  /\ IF Repeated(e)
     THEN UNCHANGED <<last, base, Unseen, incomplete, step, queue>>
     ELSE /\ Tracks(e)
          /\ IF dead
             THEN UNCHANGED <<Unseen, incomplete, step, queue>>
             ELSE IF ~AfterGap(e)
             THEN Observes(e, queue, incomplete)
             ELSE LET g   == GapBefore(e)
                      inc == incomplete \cup Marked(g.sym, g.lo, g.hi)
                  IN  IF Len(queue) < QueueRoom
                      THEN Observes(e, Append(queue, Gap(g)), inc)
                      ELSE /\ incomplete' = inc
                           /\ step' = AtGap(e, g)
                           /\ UNCHANGED <<Unseen, queue>>

(* Connections lose trades, and deliver the last one again when they overlap;  *)
(* trades come late against those of other symbols.                            *)
TradeArrives(s) ==
  /\ \E i \in ({last[s]} \ {0}) \cup ((sent[s] + 1)..Made(s)) :
       /\ sent' = [sent EXCEPT ![s] = i]
       /\ Arrives([sym |-> s, id |-> i, at |-> tape[s][i]])
  /\ UNCHANGED exchange

(* A quote carries the exchange's time.                                        *)
QuoteArrives(s) ==
  /\ s \in Quoting
  /\ Arrives([sym |-> s, id |-> 0, at |-> clock])
  /\ UNCHANGED <<exchange, sent>>

(* The gap goes in front of everything its event will close.                   *)
GapGoesIn ==
  /\ step.at = "gap" /\ Len(queue) < QueueRoom
  /\ IF dead
     THEN /\ queue' = Append(queue, step.todo[1]) /\ step' = Idle
          /\ UNCHANGED <<Unseen, incomplete>>
     ELSE Observes(step.event, Append(queue, step.todo[1]), incomplete)
  /\ UNCHANGED <<exchange, sent, expected, last, job, dead, database, faults, base>>

(* The snapshots for the hub are built, and the sink returns, or raises and is *)
(* logged; then the durable half.                                              *)
HubTakes ==
  /\ step.at = "sink"
  /\ told' = told \cup {st.key : st \in step.states}
  /\ ClosesDurably(queue, acc, durDue, maxSeen - DurDelay, incomplete)
  /\ UNCHANGED <<exchange, sent, expected, last, maxSeen, observed, lastMat, through,
                 rtDue, job, dead, database, faults, base, start, late, unheard,
                 unstored>>

Taken(c) == IF c.kind = "rows" THEN {st.key : st \in c.states}
            ELSE {c.gap.sym} \X (c.gap.lo..c.gap.hi)
Closing == UNION {Taken(step.todo[n]) : n \in DOMAIN step.todo}

(* The last of many snapshots is built.                                        *)
RowsAreBuilt ==
  /\ step.at = "build"
  /\ Stores(queue, acc, Closing, incomplete, step.todo)
  /\ UNCHANGED <<exchange, sent, expected, last, maxSeen, observed, lastMat, through,
                 rtDue, durDue, job, dead, database, faults, history>>

RowsGoIn ==
  /\ step.at = "rows" /\ Len(queue) < QueueRoom
  /\ PutAll(queue, step.todo)
  /\ UNCHANGED <<exchange, sent, memory, job, dead, database, faults, history>>

(* The connection whose event is in work ends, and its task is cancelled.      *)
(* Where snapshots were being built, their accumulators stay behind without a  *)
(* deadline.                                                                   *)
Cut ==
  /\ faults < MaxFaults /\ faults' = faults + 1
  /\ step # Idle /\ step' = Idle
  /\ unheard' = unheard \cup {st.key : st \in step.states}
  /\ unstored' = unstored \cup Closing
  /\ UNCHANGED <<exchange, sent, memory, writer, database, base, start, told, late>>

(* set_expected_symbols, from the universe's task, at any await.               *)
Changes(s) ==
  /\ s \in Universe /\ faults < MaxFaults /\ faults' = faults + 1
  /\ expected' = IF s \in expected THEN expected \ {s} ELSE expected \cup {s}
  /\ lastMat' = [lastMat EXCEPT ![s] = -1]
  /\ last' = [x \in Symbols |-> IF x \in expected' THEN last[x] ELSE 0]
  /\ base' = [x \in Symbols |-> IF x \in expected' THEN base[x] ELSE 0]
  /\ start' = [start EXCEPT ![s] = -1]
  /\ through' = -1
  /\ UNCHANGED <<exchange, sent, maxSeen, observed, acc, rtDue, durDue, incomplete, step,
                 writer, database, told, late, unheard, unstored>>

-------------------------------------------------------------------------------
(* The writer: _persist_loop, and save_closed_states and mark_incomplete of    *)
(* the repository, one transaction each.                                       *)
WriterTakes ==
  /\ ~dead /\ job = NoJob /\ queue # <<>>
  /\ job' = Head(queue) /\ queue' = Tail(queue)
  /\ UNCHANGED <<exchange, sent, memory, step, dead, database, faults, history>>

Covers(g, k) == g.sym = k[1] /\ k[2] \in g.lo..g.hi

(* _apply_gap_completeness                                                     *)
Adjusted_AsIs(st) == st
Adjusted(st) ==
  [key |-> st.key, trades |-> st.trades, quote |-> st.quote,
   complete |-> st.complete /\ ~\E g \in gaps : Covers(g, st.key)]

Stored(k) == \E r \in rows : r.key = k
RowOf(k) == CHOOSE r \in rows : r.key = k

(* _insert_batch_idempotent: a real state replaces a synthetic row, never the  *)
(* other way; two different real ones are a conflict.                          *)
Conflicts(S) ==
  \E st \in S : Stored(st.key) /\ RowOf(st.key) # st
                /\ Synthetic(st) = Synthetic(RowOf(st.key))
Wins(st) == ~Stored(st.key) \/ (Synthetic(RowOf(st.key)) /\ ~Synthetic(st))
Merged(S) ==
  LET new == {st \in S : Wins(st)}
  IN  {r \in rows : \A st \in new : st.key # r.key} \cup new

MarkedBy(g) ==
  {[key |-> r.key, trades |-> r.trades, quote |-> r.quote,
    complete |-> r.complete /\ ~Covers(g, r.key)] : r \in rows}

Commits ==
  IF job.kind = "gap"
  THEN IF job.gap \in gaps THEN UNCHANGED database
       ELSE gaps' = gaps \cup {job.gap} /\ rows' = MarkedBy(job.gap)
  ELSE rows' = Merged({Adjusted(st) : st \in job.states}) /\ UNCHANGED gaps

AdjustedJob == {Adjusted(st) : st \in job.states}

Writes ==
  /\ job # NoJob /\ ~Conflicts(AdjustedJob)
  /\ Commits /\ job' = NoJob
  /\ UNCHANGED <<exchange, sent, memory, step, queue, dead, faults, history>>

(* The commit happened, its answer did not come: the command is tried again.   *)
WritesUnheard ==
  /\ job # NoJob /\ ~Conflicts(AdjustedJob)
  /\ Commits /\ database' # database
  /\ UNCHANGED <<exchange, sent, memory, step, writer, faults, history>>

(* A conflict, or an error the database calls permanent.                       *)
WriterFails ==
  /\ job.kind = "rows"
  /\ Conflicts(AdjustedJob) \/ faults < MaxFaults
  /\ dead' = TRUE /\ job' = NoJob
  /\ UNCHANGED <<exchange, sent, memory, step, queue, database, faults, history>>

-------------------------------------------------------------------------------
(* The process ends, by a crash or because the freshness watchdog ended the    *)
(* service, and a new one starts; it hears what the exchange does from now on. *)
Restarts ==
  /\ faults < MaxFaults /\ faults' = faults + 1
  /\ sent' = [s \in Symbols |-> Made(s)]
  /\ last' = [s \in Symbols |-> 0] /\ maxSeen' = -1
  /\ observed' = {} /\ lastMat' = [s \in Symbols |-> -1] /\ through' = -1
  /\ acc' = [k \in Keys |-> NoBucket] /\ rtDue' = {} /\ durDue' = {} /\ incomplete' = {}
  /\ step' = Idle /\ queue' = <<>> /\ job' = NoJob /\ dead' = FALSE
  /\ base' = [s \in Symbols |-> 0] /\ start' = [s \in Symbols |-> -1]
  /\ told' = {} /\ late' = {} /\ unheard' = {} /\ unstored' = {}
  /\ UNCHANGED <<exchange, expected, database>>

Next ==
  \/ TimePasses
  \/ \E s \in Symbols : TradeArrives(s) \/ QuoteArrives(s) \/ Changes(s)
  \/ GapGoesIn \/ HubTakes \/ RowsAreBuilt \/ RowsGoIn \/ Cut
  \/ WriterTakes \/ Writes \/ WritesUnheard \/ WriterFails
  \/ Restarts

Spec == Init /\ [][Next]_vars

-------------------------------------------------------------------------------
State == [key : Keys, trades : SUBSET (Nat), quote : BOOLEAN, complete : BOOLEAN]
GapRow == [sym : Symbols, from : Nat, to : Nat, lo : Buckets, hi : Buckets]
IsCommand(c) == \/ c.kind = "rows" /\ c.states \subseteq State /\ c.states # {}
                \/ c.kind = "gap" /\ c.gap \in GapRow

TypeOK ==
  /\ clock \in 0..MaxClock /\ maxSeen \in -1..MaxClock
  /\ tape \in Tapes
  /\ expected \subseteq Symbols /\ observed \subseteq Symbols
  /\ last \in [Symbols -> Nat] /\ lastMat \in [Symbols -> -1..Bucket(MaxClock)]
  /\ acc \in [Keys -> [open : BOOLEAN, trades : SUBSET (Nat), quote : BOOLEAN]]
  /\ rtDue \subseteq Open /\ durDue \subseteq Open /\ incomplete \subseteq Keys
  /\ step.at \in {"idle", "gap", "sink", "build", "rows"}
  /\ Len(queue) <= QueueRoom
  /\ \A n \in DOMAIN queue : IsCommand(queue[n])
  /\ job = NoJob \/ IsCommand(job)
  /\ rows \subseteq State /\ gaps \subseteq GapRow
  /\ \A r, q \in rows : r.key = q.key => r = q

Coming == {queue[n] : n \in DOMAIN queue} \cup {step.todo[n] : n \in DOMAIN step.todo} \cup {job}
GapComing(k) == \E c \in Coming : c.kind = "gap" /\ Covers(c.gap, k)
RowComing(k) == \E c \in Coming : \E st \in c.states : st.key = k

(* The trades of a bucket which the tracker has let pass or found missing.     *)
Whole(k, trades) ==
  base[k[1]] # 0 =>
    \A i \in base[k[1]]..last[k[1]] :
      Bucket(tape[k[1]][i]) = k[2] => i \in trades \/ <<k[1], i>> \in late

(* A state that says it is complete holds every trade of its bucket from the   *)
(* first one tracked to the last one seen, but for those that came after the   *)
(* durable close: in the database as soon as the gaps found are written, and   *)
(* on the way to the hub.  (A gap whose write a cut connection took is not     *)
(* found again.)                                                               *)
CompleteIsWhole ==
  ~dead =>
    /\ \A st \in step.states : st.complete => Whole(st.key, st.trades)
    /\ \A r \in rows :
         r.complete /\ ~GapComing(r.key) /\ r.key \notin unstored => Whole(r.key, r.trades)

(* A bucket is stored from one copy: the writer never meets a row of its own   *)
(* that differs, which would end the service.                                  *)
OneCopy == ~Conflicts(AdjustedJob)

(* Gap rows and state rows meet in every order and across restarts, and no     *)
(* state a gap reaches into is left complete.                                  *)
GapsStick == \A g \in gaps, r \in rows : Covers(g, r.key) => ~r.complete

Heard == told \cup {st.key : st \in step.states}

(* The hub gets the buckets of a symbol in order, each once, and for a symbol  *)
(* that stays expected every one since its first, but for those in the hands   *)
(* of a connection that was cut.                                               *)
HubIsDense ==
  /\ \A st \in step.states, k \in told : k[1] = st.key[1] => k[2] < st.key[2]
  /\ \A k \in Heard :
       k[1] \in expected /\ start[k[1]] # -1 =>
         \A b \in start[k[1]]..k[2] : <<k[1], b>> \in Heard \cup unheard

(* Every bucket of such a symbol has a deadline, is on its way or stored,      *)
(* unless a connection was cut while its row was built among many or waited    *)
(* for a full queue: an accumulator left without a deadline is never stored.   *)
NothingForgotten ==
  ~dead =>
    \A s \in expected :
      start[s] # -1 =>
        \A b \in start[s]..lastMat[s] :
          LET k == <<s, b>> IN
          k \in durDue \/ RowComing(k) \/ Stored(k) \/ k \in unstored
===============================================================================
