-------------------------------- MODULE Ingest --------------------------------
(* The archival path of the market-data service: websocket connections submit  *)
(* envelopes to MarketDataCaptureService, which guards the disk and fills the  *)
(* BoundedEnvelopeQueue; CaptureCoordinator takes batches from it, lets        *)
(* AggTradeGapRecovery fill the gaps between trades, and archives them         *)
(* (market_data/capture/queue.py, service.py, coordinator.py and               *)
(* market_data/agg_trade_recovery.py).                                         *)
(*                                                                             *)
(* One monitored symbol.  A trade is its aggregate id, a quote the number of   *)
(* its update; quotes of one symbol and 15-second bucket share a key and are   *)
(* coalesced, trades are durable.  The queue's lock is never held over an      *)
(* await, so what runs under it is one step, and so is everything a coroutine  *)
(* does between two awaits.  What a page of the exchange's history held is a   *)
(* choice: the gap is refilled exactly, or reported.                           *)
EXTENDS Integers, Sequences, FiniteSets, SequencesExt

CONSTANTS
  Conns,        \* connections that deliver trades
  QuoteConn,    \* the one that delivers quotes
  Keys,         \* coalescing keys
  TradeSizes,   \* encoded sizes of a trade
  QuoteSize,    \* encoded size of each update of a quote
  MaxEvents, MaxBytes,   \* of the queue
  MaxBatch,     \* max_archive_batch_size
  MaxId,        \* bound: trades the exchange makes
  MaxQuotes,    \* bound: updates of a quote
  None

ASSUME IngestAssumption ==
  /\ TradeSizes \subseteq Nat \ {0} /\ QuoteSize \in [1..MaxQuotes -> Nat \ {0}]
  /\ MaxEvents \in Nat \ {0} /\ MaxBytes \in Nat \ {0}
  /\ MaxBatch \in Nat \ {0} /\ MaxId \in Nat /\ MaxQuotes \in Nat
  /\ QuoteConn \notin Conns /\ None \notin Keys /\ IsFiniteSet(Keys)

VARIABLES
  queue,      \* the asyncio queue
  pending,    \* _pending_by_key: the quote a queued key stands for by now
  buffer,     \* _coalescing_buffers
  bytes,      \* _current_bytes
  conn,       \* each connection: on, paused, waiting, retry, off
  held,       \* the envelope its submit is working on
  sent,       \* the last trade or quote it submitted
  service,    \* _state
  byDisk, byOverflow,   \* _halted_by_disk, _halted_by_queue_overflow
  worker,     \* the coordinator's run loop: idle, busy, failed
  batch,      \* what it works on
  stopping,   \* where stop() stands: no, leaving, joining, stopped
  lastSeen,   \* _last_seen of the symbol; 0 for none
  archived,   \* trades in the archive
  gaps,       \* trades reported as missing
  first,      \* history: the first trade the recovery saw
  accepted,   \* history: trades put into the queue
  newest      \* history: the last quote kept per key

store   == <<queue, pending, buffer, bytes>>
feeds   == <<conn, held, sent>>
halts   == <<service, byDisk, byOverflow>>
results == <<lastSeen, archived, gaps, first>>
vars == <<store, feeds, halts, worker, batch, stopping, results,
          accepted, newest>>

AllConns == Conns \cup {QuoteConn}
Item   == [id : Nat, key : Keys \cup {None}, size : Nat]
NoItem == [id |-> 0, key |-> None, size |-> 0]
IsTrade(item) == item.key = None

Init ==
  /\ queue = <<>> /\ bytes = 0
  /\ pending = [k \in Keys |-> NoItem] /\ buffer = [k \in Keys |-> NoItem]
  /\ conn = [c \in AllConns |-> "on"] /\ held = [c \in AllConns |-> NoItem]
  /\ sent = [c \in AllConns |-> 0]
  /\ service = "READY" /\ byDisk = FALSE /\ byOverflow = FALSE
  /\ worker = "idle" /\ batch = <<>> /\ stopping = "no"
  /\ lastSeen = 0 /\ archived = {} /\ gaps = {} /\ first = 0
  /\ accepted = {} /\ newest = [k \in Keys |-> 0]

-------------------------------------------------------------------------------
(* BoundedEnvelopeQueue.                                                       *)
Buffered == {k \in Keys : buffer[k] # NoItem}
Size == Len(queue) + Cardinality(Buffered)
Full == Len(queue) >= MaxEvents

(* _capacity_available.set(): whoever waits tries again.                       *)
Woken == [c \in AllConns |-> IF conn[c] = "waiting" THEN "retry" ELSE conn[c]]

Fits(item) == ~Full /\ bytes + item.size <= MaxBytes

(* A quote replaces an older one of its key, buffered or queued, or is         *)
(* buffered, if there is room; otherwise it is dropped.                        *)
Replaced_AddsUp(old, item) == bytes + item.size
Replaced(old, item) == bytes - old.size + item.size

KeepQuote(item) ==
  LET k   == item.key
      old == IF buffer[k] # NoItem THEN buffer[k] ELSE pending[k]
  IN  IF Replaced(old, item) > MaxBytes \/ (old = NoItem /\ Size >= MaxEvents)
      THEN UNCHANGED <<pending, buffer, bytes, newest>>
      ELSE /\ bytes' = Replaced(old, item) /\ newest' = [newest EXCEPT ![k] = item.id]
           /\ IF buffer[k] = NoItem /\ pending[k] # NoItem
              THEN pending' = [pending EXCEPT ![k] = item] /\ UNCHANGED buffer
              ELSE buffer' = [buffer EXCEPT ![k] = item] /\ UNCHANGED pending

(* CaptureQueueFull leaves submit: the service halts, and the connection stops *)
(* itself for good.                                                            *)
Overflows(c) ==
  /\ service' = "HALTED" /\ byDisk' = FALSE /\ byOverflow' = TRUE
  /\ conn' = [conn EXCEPT ![c] = "off"] /\ held' = [held EXCEPT ![c] = NoItem]
  /\ UNCHANGED <<store, accepted, newest>>

Keeps(c) ==
  /\ conn' = [conn EXCEPT ![c] = "on"] /\ held' = [held EXCEPT ![c] = NoItem]

(* put; a closed queue has no producers any more.                              *)
Puts(c, item) ==
  IF ~IsTrade(item)
  THEN KeepQuote(item) /\ Keeps(c) /\ UNCHANGED <<queue, halts, accepted>>
  ELSE IF item.size > MaxBytes THEN Overflows(c)
  ELSE IF Fits(item)
  THEN /\ queue' = Append(queue, item) /\ bytes' = bytes + item.size
       /\ accepted' = accepted \cup {item.id}
       /\ Keeps(c) /\ UNCHANGED <<pending, buffer, halts, newest>>
  ELSE /\ conn' = [conn EXCEPT ![c] = "waiting"] /\ held' = [held EXCEPT ![c] = item]
       /\ UNCHANGED <<store, halts, accepted, newest>>

-------------------------------------------------------------------------------
(* MarketDataCaptureService.submit.                                            *)

(* ensure_disk_space, whose reading is a choice, or a healthy reading less than *)
(* a second old; then the queue.                                               *)
DiskFull(c) ==
  /\ byDisk' = TRUE /\ service' = "HALTED"
  /\ conn' = [conn EXCEPT ![c] = "off"] /\ held' = [held EXCEPT ![c] = NoItem]
  /\ UNCHANGED <<store, byOverflow, accepted, newest>>

DiskRecovered(c, item) ==
  /\ service' = "READY" /\ byDisk' = FALSE
  /\ conn' = [conn EXCEPT ![c] = "retry"] /\ held' = [held EXCEPT ![c] = item]
  /\ UNCHANGED <<store, byOverflow, accepted, newest>>

Enters(c, item) ==
  \/ DiskFull(c)
  \/ service = "HALTED" /\ byDisk /\ DiskRecovered(c, item)
  \/ ~(service = "HALTED" /\ byDisk) /\ Puts(c, item)

Half == IF MaxEvents \div 2 > 1 THEN MaxEvents \div 2 ELSE 1
Reopens == byOverflow /\ ~byDisk /\ Size < Half

Submits(c, item) ==
  /\ conn[c] = "on"
  /\ sent' = [sent EXCEPT ![c] = item.id]
  /\ IF service # "HALTED"
     THEN Enters(c, item)
     ELSE IF Reopens
     THEN /\ service' = "READY" /\ byOverflow' = FALSE
          /\ conn' = [conn EXCEPT ![c] = "paused"] /\ held' = [held EXCEPT ![c] = item]
          /\ UNCHANGED <<store, byDisk, accepted, newest>>
     ELSE /\ conn' = [conn EXCEPT ![c] = "off"]
          /\ UNCHANGED <<store, held, halts, accepted, newest>>
  /\ UNCHANGED <<worker, batch, stopping, results>>

(* A connection delivers trades in order; what it misses stays missing, and    *)
(* two connections may both deliver one.                                       *)
TradeArrives(c) ==
  \E i \in (sent[c] + 1)..MaxId, s \in TradeSizes :
    Submits(c, [id |-> i, key |-> None, size |-> s])

QuoteArrives ==
  LET n == sent[QuoteConn] + 1
  IN  n <= MaxQuotes /\ \E k \in Keys :
        Submits(QuoteConn, [id |-> n, key |-> k, size |-> QuoteSize[n]])

(* "queue drained" is stored, and submit goes on.                              *)
Continues(c) ==
  /\ conn[c] = "paused" /\ Enters(c, held[c])
  /\ UNCHANGED <<sent, worker, batch, stopping, results>>

Retries(c) ==
  /\ conn[c] = "retry" /\ Puts(c, held[c])
  /\ UNCHANGED <<sent, worker, batch, stopping, results>>

TimesOut(c) ==
  /\ conn[c] = "waiting" /\ Overflows(c)
  /\ UNCHANGED <<sent, worker, batch, stopping, results>>

-------------------------------------------------------------------------------
(* _flush_coalesced, or close: a buffered quote enters the queue if it can.    *)
Flushes(k) ==
  /\ k \in Buffered /\ stopping \in {"no", "leaving"}
  /\ buffer' = [buffer EXCEPT ![k] = NoItem]
  /\ IF Full
     THEN bytes' = bytes - buffer[k].size /\ UNCHANGED <<queue, pending>>
     ELSE /\ queue' = Append(queue, buffer[k])
          /\ pending' = [pending EXCEPT ![k] = buffer[k]] /\ UNCHANGED bytes
  /\ conn' = Woken
  /\ UNCHANGED <<held, sent, halts, worker, batch, stopping, results,
                 accepted, newest>>

-------------------------------------------------------------------------------
(* CaptureCoordinator: a batch is taken, expanded and archived.                *)
Total(items) == SumFunction([i \in DOMAIN items |-> items[i].size])

Latest_AsQueued(item) == item
Latest(item) ==
  IF IsTrade(item) \/ pending[item.key] = NoItem THEN item ELSE pending[item.key]

(* run goes on until the service stops and the queue is empty.                 *)
Runs_UntilStopping == stopping \in {"no", "leaving"}
Runs == stopping \in {"no", "leaving"} \/ Size > 0

Takes ==
  /\ worker = "idle" /\ Runs /\ queue # <<>>
  /\ LET n == IF Len(queue) < MaxBatch THEN Len(queue) ELSE MaxBatch
         taken == [i \in 1..n |-> Latest(queue[i])]
         keys  == {queue[i].key : i \in 1..n} \ {None}
     IN  /\ batch' = taken
         /\ queue' = SubSeq(queue, n + 1, Len(queue))
         /\ pending' = [k \in Keys |-> IF k \in keys THEN NoItem ELSE pending[k]]
  /\ worker' = "busy" /\ conn' = Woken
  /\ UNCHANGED <<buffer, bytes, held, sent, halts, stopping, results,
                 accepted, newest>>

(* AggTradeGapRecovery.expand: _last_seen runs ahead over the whole batch, a   *)
(* trade at or below it is a duplicate, and every jump is a gap to refill.     *)
Top(S) == CHOOSE x \in S : \A y \in S : y <= x
Ids == {batch[i].id : i \in {j \in DOMAIN batch : IsTrade(batch[j])}}
Before_WholeBatch(i) ==
  Top({lastSeen} \cup {batch[j].id : j \in {j \in DOMAIN batch \ {i} : IsTrade(batch[j])}})
Before(i) == Top({lastSeen} \cup {batch[j].id : j \in {j \in 1..(i - 1) : IsTrade(batch[j])}})
Accepts(i) == IsTrade(batch[i]) /\ batch[i].id > Before(i)
Missing(i) == IF Before(i) = 0 THEN {} ELSE (Before(i) + 1)..(batch[i].id - 1)

New == {i \in DOMAIN batch : Accepts(i)}
Jumps == {i \in New : Missing(i) # {}}
Fresh == {batch[i].id : i \in New}

Seen_OnlyIfRefilled(refilled) ==
  Top({lastSeen} \cup {batch[i].id : i \in New \ (Jumps \ refilled)})
Seen(refilled) == Top({lastSeen} \cup Fresh)

(* expand has run; "refilled" are the jumps whose history came back complete.  *)
Expands(refilled) ==
  /\ lastSeen' = Seen(refilled)
  /\ first' = IF first = 0 /\ New # {} THEN batch[Top({i \in New : \A j \in New : i <= j})].id
              ELSE first

Released_Quietly(n) == bytes' = bytes - n /\ conn' = conn
Released(n) == bytes' = bytes - n /\ conn' = Woken

Archives ==
  /\ worker = "busy" /\ worker' = "idle"
  /\ \E refilled \in SUBSET Jumps :
       /\ Expands(refilled)
       /\ archived' = archived \cup Fresh \cup UNION {Missing(i) : i \in refilled}
       /\ gaps' = gaps \cup UNION {Missing(i) : i \in Jumps \ refilled}
  /\ batch' = <<>> /\ Released(Total(batch))
  /\ UNCHANGED <<queue, pending, buffer, held, sent, halts, stopping,
                 accepted, newest>>

(* Reporting a gap or archiving raises: part of the batch may be in the        *)
(* archive, and the run loop is over.                                          *)
Breaks ==
  /\ worker = "busy" /\ worker' = "failed"
  /\ \E refilled \in SUBSET Jumps, told \in SUBSET Jumps :
       /\ told \cap refilled = {} /\ Expands(refilled)
       /\ gaps' = gaps \cup UNION {Missing(i) : i \in told}
       /\ \E kept \in SUBSET (Fresh \cup UNION {Missing(i) : i \in refilled}) :
            /\ kept # {} => told \cup refilled = Jumps
            /\ archived' = archived \cup kept
  /\ batch' = <<>> /\ Released(Total(batch))
  /\ UNCHANGED <<queue, pending, buffer, held, sent, halts, stopping,
                 accepted, newest>>

-------------------------------------------------------------------------------
(* stop: the connections submit what they have read and end, then the queue is *)
(* closed, its buffers emptied into it, and the worker waited for.             *)
StopBegins ==
  /\ stopping = "no" /\ stopping' = "leaving"
  /\ UNCHANGED <<store, feeds, halts, worker, batch, results, accepted, newest>>

Leaves(c) ==
  /\ stopping # "no" /\ conn[c] = "on" /\ conn' = [conn EXCEPT ![c] = "off"]
  /\ UNCHANGED <<store, held, sent, halts, worker, batch, stopping, results,
                 accepted, newest>>

BuffersClose ==
  /\ stopping = "leaving" /\ stopping' = "joining"
  /\ \A c \in AllConns : conn[c] = "off"
  /\ \E order \in SetToSeqs(Buffered) :
       LET room == MaxEvents - Len(queue)
           n    == IF room < Len(order) THEN (IF room > 0 THEN room ELSE 0) ELSE Len(order)
           in   == {order[i] : i \in 1..n}
           out  == {order[i] : i \in (n + 1)..Len(order)}
       IN  /\ queue' = queue \o [i \in 1..n |-> buffer[order[i]]]
           /\ pending' = [k \in Keys |-> IF k \in in THEN buffer[k] ELSE pending[k]]
           /\ bytes' = bytes - Total([i \in 1..(Len(order) - n) |-> buffer[order[n + i]]])
  /\ buffer' = [k \in Keys |-> NoItem]
  /\ UNCHANGED <<feeds, halts, worker, batch, results, accepted, newest>>

Joined ==
  /\ stopping = "joining" /\ stopping' = "stopped"
  /\ queue = <<>> /\ batch = <<>>
  /\ service' = "STOPPED"
  /\ UNCHANGED <<store, feeds, byDisk, byOverflow, worker, batch, results,
                 accepted, newest>>

-------------------------------------------------------------------------------
Arrivals == (\E c \in Conns : TradeArrives(c)) \/ QuoteArrives
Work     == Takes \/ Archives
Stop     == BuffersClose \/ Joined
Producer(c) == Continues(c) \/ Retries(c) \/ TimesOut(c) \/ Leaves(c)

Next ==
  \/ Arrivals \/ \E c \in AllConns : Producer(c)
  \/ \E k \in Keys : Flushes(k)
  \/ Work \/ Breaks \/ StopBegins \/ Stop

Spec == Init /\ [][Next]_vars

(* The run loop and stop() go on, a wait has its time limit, and a connection  *)
(* that is told to stop ends.                                                  *)
FairSpec == /\ Spec /\ WF_vars(Work) /\ WF_vars(Stop)
            /\ \A c \in AllConns : WF_vars(Producer(c))

-------------------------------------------------------------------------------
TypeOK ==
  /\ queue \in Seq(Item) /\ batch \in Seq(Item) /\ Len(queue) <= MaxEvents
  /\ pending \in [Keys -> Item] /\ buffer \in [Keys -> Item]
  /\ bytes \in 0..MaxBytes
  /\ conn \in [AllConns -> {"on", "paused", "waiting", "retry", "off"}]
  /\ held \in [AllConns -> Item] /\ sent \in [AllConns -> Nat]
  /\ service \in {"READY", "HALTED", "STOPPED"}
  /\ byDisk \in BOOLEAN /\ byOverflow \in BOOLEAN
  /\ worker \in {"idle", "busy", "failed"}
  /\ stopping \in {"no", "leaving", "joining", "stopped"}
  /\ lastSeen \in Nat /\ first \in Nat /\ newest \in [Keys -> Nat]
  /\ archived \subseteq 1..MaxId /\ gaps \subseteq 1..MaxId /\ accepted \subseteq 1..MaxId

(* _current_bytes is the size of what is buffered, queued or being worked on,  *)
(* after every replacement, flush, drop and close: an error in it would starve *)
(* the producers or let the queue grow without bound.                          *)
BytesAreExact ==
  bytes = Total(batch)
          + Total([i \in DOMAIN queue |-> Latest(queue[i])])
          + SumFunction([k \in Keys |-> buffer[k].size])

(* Until the worker breaks every trade from the first one on is in the archive *)
(* or reported as missing, and never both, whatever connections lose or repeat *)
(* and whichever gaps can be refilled.                                         *)
ArchivedOrExplained ==
  /\ worker # "failed" => first = 0 \/ archived \cup gaps = first..lastSeen
  /\ archived \cap gaps = {}

(* A trade the queue took is still in it, in the archive, or reported missing; *)
(* so nothing is left behind once the service has stopped.                     *)
AcceptedIsKept ==
  worker # "failed" =>
    \A i \in accepted :
      \/ i \in archived \cup gaps \/ i < first
      \/ \E j \in DOMAIN queue : IsTrade(queue[j]) /\ queue[j].id = i
      \/ i \in Ids

(* "Keep the latest value": whatever is replaced, buffered, flushed or closed, *)
(* the quote the worker takes is the last one that was kept for its key.       *)
NewestIsTaken ==
  [][batch' # batch =>
       \A i \in DOMAIN batch' : ~IsTrade(batch'[i]) => batch'[i].id = newest[batch'[i].key]]_vars

(* A producer in backpressure always has something to wait for: the flush, the *)
(* batch or the release that wakes it is still to come.  Otherwise it would    *)
(* sleep to its time limit beside an empty queue, and halt the service.        *)
WaitersAreWoken ==
  worker # "failed" => \A c \in Conns : conn[c] = "waiting" => bytes > 0

(* stop() ends: producers in backpressure get through or give up, and what the *)
(* queue holds when it is closed is worked off.                                *)
StopReturns == stopping = "leaving" ~> stopping = "stopped" \/ worker = "failed"
===============================================================================
