------------------------------- MODULE Collector -------------------------------
(* The research collector (research_collector/service.py) between the market-  *)
(* state hub it follows (market_data/hub.py), the database that can fill its   *)
(* gaps, and its disk: journal, resolutions, Parquet files, manifest and       *)
(* checkpoint.  It is the only writer of the archive.                          *)
(*                                                                             *)
(* The run loop (phase) and the materializer (job) interleave; an action ends  *)
(* where a write becomes durable or the coroutine awaits, so that Crash can    *)
(* come between any two writes; files replace each other whole, but for the    *)
(* resolutions, whose append a Crash may also leave unfinished.                *)
(*                                                                             *)
(* Abstractions.  Byte and batch limits count records.  The hub's connection   *)
(* delivers batches in sequence or breaks: the client turns every gap of the   *)
(* live queue into a reconnect.  A materializer that raises ends the process   *)
(* as Crash does.  Pauses for disk space are left out.                         *)
EXTENDS Archive, Sequences, SequencesExt

CONSTANTS
  Selected,      \* buckets whose state the selector keeps
  Replay,        \* batches the hub keeps for replay
  QueueMax,      \* max_queue_batches
  JournalMax,    \* records the journal may hold (max_spool_bytes)
  MaxStreams,    \* bound: lives of the hub
  MaxLag,        \* bound: buckets the hub may be ahead of the database
  MaxEnds,       \* bound: errors, signals and crashes that end the collector
  FirstCursor    \* NoSeq: the collector never ran; 0: it met this hub at its start

ASSUME SelectedAssumption == Selected \subseteq Buckets
ASSUME BoundsAssumption ==
  /\ {Replay, QueueMax, JournalMax, MaxStreams} \subseteq Nat \ {0}
  /\ {MaxLag, MaxEnds} \subseteq Nat
  /\ FirstCursor \in {NoSeq, 0}

VARIABLES
  hub,         \* this life of the hub: stream id, batches published, next bucket
  pg,          \* the last bucket in the database, -1 when there is none
  files,       \* records in the pending directory
  resolved,    \* resolutions.jsonl
  tail,        \* how its last line ends: whole, unended (no newline) or torn
  archive,     \* the Parquet files
  manifest,    \* manifest.json: cursors, without a stream id
  ckpt,        \* the checkpoint file; the collector's copy never differs
  pend,        \* _pending_records
  cur,         \* the journal's cursors
  stream,      \* _active_stream_id, of the service and of its journal
  lastSeen,    \* _last_seen_sequence
  lastBucket,  \* _last_persisted_bucket
  queue,       \* records journalled and not yet staged
  books,       \* the materializer and its sink
  job,         \* the flush in progress
  phase,       \* where the run loop is
  gap,         \* the replay gap being recovered
  src,         \* the source's resume cursor
  link,        \* the next sequence the hub sends; 0 when not connected
  accepted,    \* history: every record that was ever made durable
  ends,        \* history: how often it ended
  cut          \* history: a process ended in an append, and no start since was clean

market == <<hub, pg>>
disk   == <<files, resolved, tail, archive, manifest, ckpt>>
ingest == <<pend, cur, stream, lastSeen, queue>>
writer == <<books, job, lastBucket>>
loop   == <<phase, gap, src, link>>
ghost  == <<accepted, ends, cut>>
vars   == <<market, disk, ingest, writer, loop, ghost>>

Batch   == [first : Buckets, last : Buckets]
NoGap   == [stream |-> NoStream, latest |-> 0, next |-> 0, until |-> -1]
IdleJob == [step |-> "idle", todo |-> <<>>, windows |-> {}, keys |-> {},
            receipts |-> {}, all |-> FALSE, latest |-> -1]

Rows(b)  == (b.first .. b.last) \cap Selected
Latest   == Len(hub.log)
Oldest   == Larger(1, Latest - Replay + 1)
ReplayAvailable(seq) ==
  seq \in {NoSeq, Latest} \/ (seq < Latest /\ seq >= Oldest - 1)

Init ==
  /\ hub = [stream |-> 1, log |-> <<>>, next |-> 0] /\ pg = -1
  /\ files = {} /\ resolved = {} /\ tail = "whole" /\ archive = [b \in Buckets |-> "none"]
  /\ manifest = CursorsAt(NoSeq, NoSeq)
  /\ ckpt = [stream |-> IF FirstCursor = 0 THEN hub.stream ELSE NoStream,
             acc |-> FirstCursor, mat |-> FirstCursor, bucket |-> -1]
  /\ pend = {} /\ cur = CursorsAt(NoSeq, NoSeq) /\ stream = NoStream
  /\ lastSeen = NoSeq /\ lastBucket = -1 /\ queue = <<>>
  /\ books = NoBooks /\ job = IdleJob
  /\ phase = "down" /\ gap = NoGap /\ link = 0
  /\ src = [stream |-> NoStream, seq |-> NoSeq]
  /\ accepted = {} /\ ends = 0 /\ cut = FALSE

-------------------------------------------------------------------------------
(* The market data service.  A watermark that jumps closes several buckets in  *)
(* one batch; the database gets every state later than the hub does.           *)
Publish(n) ==
  LET last == hub.next + n - 1
  IN /\ last <= MaxBucket
     /\ hub' = [hub EXCEPT !.log  = Append(hub.log, [first |-> hub.next, last |-> last]),
                           !.next = last + 1]
     /\ pg' = Larger(pg, last - MaxLag)
     /\ UNCHANGED <<disk, ingest, writer, loop, ghost>>

Persist ==
  /\ pg < hub.next - 1
  /\ pg' = pg + 1
  /\ UNCHANGED <<hub, disk, ingest, writer, loop, ghost>>

(* Its publisher stores what is closed before the process ends.                *)
HubRestart ==
  /\ hub.stream < MaxStreams /\ pg = hub.next - 1
  /\ hub' = [hub EXCEPT !.stream = hub.stream + 1, !.log = <<>>]
  /\ link' = 0
  /\ UNCHANGED <<pg, disk, ingest, writer, phase, gap, src, ghost>>

-------------------------------------------------------------------------------
(* The source: connect and subscribe (hub.py, _iterate_batches).               *)
Connects ==
  /\ phase = "run" /\ link = 0
  /\ src.stream \in {NoStream, hub.stream}
  /\ ReplayAvailable(src.seq)
  /\ link' = IF src.seq = NoSeq THEN Latest + 1 ELSE src.seq + 1
  /\ src' = [src EXCEPT !.stream = hub.stream]
  /\ UNCHANGED <<market, disk, ingest, writer, phase, gap, ghost>>

Drops ==
  /\ link # 0 /\ link' = 0
  /\ UNCHANGED <<market, disk, ingest, writer, phase, gap, src, ghost>>

(* The hub is another one, or no longer has what follows the cursor.           *)
ReplayUnavailable ==
  /\ phase = "run" /\ link = 0
  /\ \/ src.stream \notin {NoStream, hub.stream}
     \/ ~ReplayAvailable(src.seq)
  /\ phase' = "gap"
  /\ gap' = [NoGap EXCEPT !.stream = hub.stream, !.latest = Latest]
  /\ UNCHANGED <<market, disk, ingest, writer, src, link, ghost>>

-------------------------------------------------------------------------------
(* ingest.  Journal(r) is what every accepted record goes through.             *)
HasRoom == Len(queue) < QueueMax
JournalFits(r) == r \in files \/ Cardinality(pend) < JournalMax
Journal(r) ==
  /\ HasRoom /\ JournalFits(r)
  /\ files' = files \cup {r} /\ pend' = pend \cup {r}
  /\ accepted' = accepted \cup {r}
  /\ cur' = Accepted(cur, r)
  /\ queue' = Append(queue, r)

Arrived == hub.log[link]
ArrivedRecord == HubRecord(hub.stream, link, Arrived.last, Rows(Arrived))
Delivered == phase = "run" /\ link \in 1..Latest
IsNew     == lastSeen = NoSeq \/ link > lastSeen
InSequence == lastSeen = NoSeq \/ link = lastSeen + 1

IngestNew ==
  /\ Delivered /\ IsNew /\ InSequence
  /\ Journal(ArrivedRecord)
  /\ stream' = IF stream = NoStream THEN hub.stream ELSE stream
  /\ lastSeen' = link
  /\ src' = [src EXCEPT !.seq = link] /\ link' = link + 1
  /\ UNCHANGED <<market, resolved, tail, archive, manifest, ckpt, writer, phase, gap, ends,
                 cut>>

IngestKnown ==
  /\ Delivered /\ ~IsNew
  /\ src' = [src EXCEPT !.seq = link] /\ link' = link + 1
  /\ UNCHANGED <<market, disk, ingest, writer, phase, gap, ghost>>

(* CollectorPaused: the journal is full, or the queue stayed full too long.    *)
IngestPaused ==
  /\ Delivered /\ IsNew /\ InSequence
  /\ ~HasRoom \/ ~JournalFits(ArrivedRecord)
  /\ phase' = "paused" /\ link' = 0
  /\ UNCHANGED <<market, disk, ingest, writer, gap, src, ghost>>

-------------------------------------------------------------------------------
(* _recover_replay_gap.                                                        *)
PlanBackfill_SkipsOne ==
  /\ phase = "gap" /\ pg # -1
  /\ phase' = "backfill"
  /\ gap' = [gap EXCEPT !.next = ckpt.bucket + 2, !.until = pg]
  /\ UNCHANGED <<market, disk, ingest, writer, src, link, ghost>>
PlanBackfill ==
  /\ phase = "gap" /\ pg # -1
  /\ phase' = "backfill"
  /\ gap' = [gap EXCEPT !.next = ckpt.bucket + 1, !.until = pg]
  /\ UNCHANGED <<market, disk, ingest, writer, src, link, ghost>>

BackfillBatch == BackfillRecord(gap.next, {gap.next} \cap Selected)

Backfill ==
  /\ phase = "backfill" /\ gap.next <= gap.until
  /\ Journal(BackfillBatch)
  /\ gap' = [gap EXCEPT !.next = gap.next + 1]
  /\ UNCHANGED <<market, resolved, tail, archive, manifest, ckpt, stream, lastSeen, writer,
                 phase, src, link, ends, cut>>

Backfilled ==
  /\ phase = "backfill" /\ gap.next > gap.until
  /\ phase' = "drain"
  /\ UNCHANGED <<market, disk, ingest, writer, gap, src, link, ghost>>

ResumeFromHub_KeepsLastSeen ==
  /\ phase = "switch" /\ pend = {}
  /\ stream' = gap.stream
  /\ cur' = CursorsAt(gap.latest, gap.latest)
  /\ ckpt' = [ckpt EXCEPT !.stream = gap.stream, !.acc = gap.latest, !.mat = gap.latest]
  /\ src' = [stream |-> gap.stream, seq |-> gap.latest]
  /\ phase' = "run" /\ gap' = NoGap
  /\ UNCHANGED <<market, files, resolved, tail, archive, manifest, pend, lastSeen, queue,
                 writer, link, ghost>>
ResumeFromHub ==
  /\ phase = "switch" /\ pend = {}
  /\ stream' = gap.stream /\ lastSeen' = gap.latest
  /\ cur' = CursorsAt(gap.latest, gap.latest)
  /\ ckpt' = [ckpt EXCEPT !.stream = gap.stream, !.acc = gap.latest, !.mat = gap.latest]
  /\ src' = [stream |-> gap.stream, seq |-> gap.latest]
  /\ phase' = "run" /\ gap' = NoGap
  /\ UNCHANGED <<market, files, resolved, tail, archive, manifest, pend, queue, writer, link,
                 ghost>>

-------------------------------------------------------------------------------
(* The materializer's worker: stage what is queued, flush the windows that are *)
(* complete, commit, save the checkpoint.                                      *)
WorkerTakes_OnlyRunning ==
  /\ phase = "run" /\ job.step = "idle" /\ queue # <<>>
  /\ job' = [IdleJob EXCEPT !.step = "stage", !.todo = queue]
  /\ queue' = <<>>
  /\ UNCHANGED <<market, disk, pend, cur, stream, lastSeen, books, lastBucket, loop, ghost>>
WorkerTakes ==
  /\ phase \in {"run", "paused", "gap", "backfill", "drain"}
  /\ job.step = "idle" /\ queue # <<>>
  /\ job' = [IdleJob EXCEPT !.step = "stage", !.todo = queue]
  /\ queue' = <<>>
  /\ UNCHANGED <<market, disk, pend, cur, stream, lastSeen, books, lastBucket, loop, ghost>>

StageNext ==
  /\ job.step = "stage" /\ job.todo # <<>>
  /\ LET r == Head(job.todo)
     IN /\ books' = Stage(books, r, archive)
        /\ job' = [job EXCEPT !.todo   = Tail(job.todo),
                              !.latest = Max(r.rows \cup {job.latest})]
  /\ UNCHANGED <<market, disk, ingest, lastBucket, loop, ghost>>

(* Without a selected state there is no clock to flush by.                     *)
Staged ==
  /\ job.step = "stage" /\ job.todo = <<>>
  /\ job' = IF job.latest = -1 THEN [job EXCEPT !.step = "save"]
            ELSE [job EXCEPT !.step = "write", !.windows = ReadyWindows(books, job.latest)]
  /\ UNCHANGED <<market, disk, ingest, books, lastBucket, loop, ghost>>

(* _flush_all_buffers, once the worker has nothing left; stop does not wait    *)
(* for records that are still queued, they stay in the journal.                *)
FlushAll ==
  /\ phase \in {"init", "paused", "drain", "stopping"} /\ job.step = "idle"
  /\ phase = "stopping" \/ queue = <<>>
  /\ job' = [IdleJob EXCEPT !.step = "write", !.windows = books.open, !.all = TRUE]
  /\ UNCHANGED <<market, disk, ingest, books, lastBucket, loop, ghost>>

WriteWindow ==
  /\ job.step = "write" /\ job.windows # {}
  /\ LET w == Min(job.windows)
     IN /\ archive' = Written(archive, books, w)
        /\ books' = Closed(books, w)
        /\ job' = [job EXCEPT !.windows = job.windows \ {w},
                              !.keys    = job.keys \cup KeysIn(books, w)]
  /\ UNCHANGED <<market, files, resolved, tail, manifest, ckpt, ingest, lastBucket, loop,
                 ghost>>

(* _process_flush_result and the first part of commit_materialization: cursors *)
(* move in memory, the resolutions are appended: one line for each that has    *)
(* none yet.  After an unended line they spoil it, which only a start reads.   *)
Resolve ==
  /\ job.step = "write" /\ job.windows = {}
  /\ LET done == Ready(books, job.keys, job.all)
     IN /\ books' = Covered(books, job.keys, job.all)
        /\ resolved' = resolved \cup done
        /\ tail' = IF tail = "unended" /\ ~done \subseteq resolved THEN "torn" ELSE tail
        /\ cur' = Committed(cur, stream, pend, done)
        /\ job' = [job EXCEPT !.receipts = done,
                              !.step = IF done = {} THEN "save" ELSE "manifest"]
  /\ UNCHANGED <<market, files, archive, manifest, ckpt, pend, stream, lastSeen, queue,
                 lastBucket, loop, ghost>>

WriteManifest ==
  /\ job.step = "manifest"
  /\ manifest' = cur
  /\ job' = [job EXCEPT !.step = "unlink"]
  /\ UNCHANGED <<market, files, resolved, tail, archive, ckpt, ingest, books, lastBucket,
                 loop, ghost>>

(* A file that cannot be unlinked is left behind.                              *)
Unlink(r) ==
  /\ job.step = "unlink" /\ r \in job.receipts
  /\ pend' = pend \ {r}
  /\ files' \in {files, files \ {r}}
  /\ job' = [job EXCEPT !.receipts = job.receipts \ {r},
                        !.step = IF job.receipts = {r} THEN "save" ELSE "unlink"]
  /\ UNCHANGED <<market, resolved, tail, archive, manifest, ckpt, cur, stream, lastSeen, queue,
                 books, lastBucket, loop, ghost>>

(* _apply_flush_result and _save_checkpoint; the run loop goes on if it was    *)
(* waiting for this flush.                                                     *)
AfterFlush == [init |-> "run", paused |-> "run", drain |-> "switch", stopping |-> "down"]
SaveCheckpoint ==
  /\ job.step = "save"
  /\ LET top == Max({k[1] : k \in job.keys} \cup {lastBucket})
     IN /\ lastBucket' = top
        /\ ckpt' = [stream |-> stream, acc |-> cur.acc, mat |-> cur.mat,
                    bucket |-> Larger(ckpt.bucket, top)]
  /\ phase' = IF job.all THEN AfterFlush[phase] ELSE phase
  /\ src' = IF job.all /\ phase = "init" THEN [stream |-> stream, seq |-> cur.mat] ELSE src
  /\ job' = IdleJob
  /\ UNCHANGED <<market, files, resolved, tail, archive, manifest, ingest, books, gap, link,
                 ghost>>

-------------------------------------------------------------------------------
(* The end of a process: an error the run loop does not handle, a signal, or a *)
(* crash that takes everything in memory with it.                              *)
Fails ==
  \/ Delivered /\ IsNew /\ ~InSequence             \* CollectorSequenceGap
  \/ phase = "gap" /\ pg = -1                      \* no recovery bucket
  \/ phase = "backfill" /\ gap.next <= gap.until   \* CollectorPaused
       /\ ~(HasRoom /\ JournalFits(BackfillBatch))
  \/ phase = "switch" /\ pend # {}                 \* pending records left

Stop ==
  /\ phase' = "stopping" /\ link' = 0 /\ gap' = NoGap
  /\ UNCHANGED <<market, disk, ingest, writer, src, accepted, cut>>
GivesUp == Fails /\ ends < MaxEnds /\ ends' = ends + 1 /\ Stop
Signaled ==
  /\ phase \in {"run", "paused"} /\ ~job.all
  /\ ends < MaxEnds /\ ends' = ends + 1
  /\ Stop

(* What may be left of an append to the resolutions that was not finished:     *)
(* some of its lines, and a last one that has no newline or is broken off.     *)
(* The lines are those of the staged records, then the empty receipts, each in *)
(* the order they were staged in.                                              *)
NewLines == Ready(books, job.keys, job.all) \ resolved
LineBefore(r, s) ==
  LET empty(x) == x \in books.empties
  IN \/ ~empty(r) /\ empty(s)
     \/ (empty(r) <=> empty(s)) /\ r.kind = s.kind /\ r.at < s.at
Tails(lines) ==
  IF tail # "whole" THEN {"torn"}
  ELSE {"whole"} \cup (IF lines = {} THEN {} ELSE {"unended"})
                 \cup (IF lines = NewLines THEN {} ELSE {"torn"})

EndsInAppend ==
  /\ job.step = "write" /\ job.windows = {} /\ NewLines # {}
  /\ \E lines \in SUBSET NewLines :
       /\ \A r \in NewLines, s \in lines : LineBefore(r, s) => r \in lines
       /\ resolved' = resolved \cup lines
       /\ tail' \in Tails(lines)
  /\ cut' = TRUE

Crash ==
  /\ phase \notin {"down", "wedged"} /\ ends < MaxEnds
  /\ ends' = ends + 1
  /\ phase' = "down" /\ gap' = NoGap /\ link' = 0
  /\ queue' = <<>> /\ books' = NoBooks /\ job' = IdleJob
  /\ EndsInAppend \/ UNCHANGED <<resolved, tail, cut>>
  /\ UNCHANGED <<market, files, archive, manifest, ckpt, pend, cur, stream, lastSeen,
                 lastBucket, src, accepted>>

(* initialize and recover.  Orders(S): what sorted may make of the records S.  *)
InOrder(r, s) ==
  \/ r.at < s.at
  \/ r.at = s.at /\ r.kind = "pg" /\ s.kind = "hub"
  \/ r.at = s.at /\ r.kind = s.kind /\ r.seq < s.seq
Orders(S) == {q \in SetToSeqs(S) : \A i, j \in DOMAIN q : i < j => ~InOrder(q[j], q[i])}
Contiguous(S) == \A n \in S : n = Max(S) \/ n + 1 \in S

(* A torn line of the resolutions raises before anything is changed.           *)
Restart ==
  /\ phase = "down" /\ tail # "torn"
  /\ LET base == Restored(CursorsAt(ckpt.acc, ckpt.mat), manifest)
         kept == {r \in files : ~AlreadyCommitted(r, resolved, ckpt.stream, base.high)}
     IN \E q \in Orders(kept) :
        LET hubs == {i \in DOMAIN q : q[i].kind = "hub"}
            now  == IF ckpt.stream = NoStream /\ hubs # {} THEN q[Min(hubs)].stream
                    ELSE ckpt.stream
            seqs == {r.seq : r \in {x \in kept : x.kind = "hub" /\ x.stream = now}}
        IN /\ files' = kept /\ pend' = kept
           /\ stream' = now
           /\ cur' = [base EXCEPT !.acc = Max(seqs \cup {base.acc})]
           /\ lastSeen' = Max(seqs \cup {ckpt.acc})
           /\ lastBucket' = ckpt.bucket
           /\ queue' = <<>>
           /\ books' = Restaged(q, archive)
           /\ job' = IF kept = {} THEN [IdleJob EXCEPT !.step = "save", !.all = TRUE] ELSE IdleJob
           /\ phase' = IF Contiguous(seqs) THEN "init" ELSE "wedged"
           /\ cut' = (cut /\ (tail # "whole" \/ ~Contiguous(seqs)))
  /\ src' = [stream |-> NoStream, seq |-> NoSeq]
  /\ UNCHANGED <<market, resolved, tail, archive, manifest, ckpt, gap, link, accepted, ends>>

-------------------------------------------------------------------------------
MarketStep == (\E n \in 1..2 : Publish(n)) \/ Persist \/ HubRestart
SourceStep == Connects \/ Drops \/ ReplayUnavailable
IngestStep == IngestNew \/ IngestKnown \/ IngestPaused
GapStep    == PlanBackfill \/ Backfill \/ Backfilled \/ ResumeFromHub
WriterStep == \/ WorkerTakes \/ StageNext \/ Staged \/ FlushAll \/ WriteWindow \/ Resolve
              \/ WriteManifest \/ (\E r \in job.receipts : Unlink(r)) \/ SaveCheckpoint
LifeStep   == GivesUp \/ Signaled \/ Crash \/ Restart

Next == MarketStep \/ SourceStep \/ IngestStep \/ GapStep \/ WriterStep \/ LifeStep
Spec == Init /\ [][Next]_vars

(* The event loop runs every task that can go on: the worker, and the run loop *)
(* while it recovers a gap.  The market, the hub and signals owe nothing.      *)
FairSpec == Spec /\ WF_vars(WriterStep) /\ WF_vars(GapStep)

-------------------------------------------------------------------------------
(* Every variable keeps the shape the code gives it.                           *)
TypeOK ==
  /\ hub \in [stream : 1..MaxStreams, log : Seq(Batch), next : 0..MaxBucket + 1]
  /\ pg \in -1..MaxBucket
  /\ files \subseteq Record /\ resolved \subseteq Record /\ pend \subseteq Record
  /\ archive \in [Buckets -> Version]
  /\ manifest \in Cursors /\ cur \in Cursors
  /\ ckpt \in [stream : 0..MaxStreams, acc : Int, mat : Int, bucket : -1..MaxBucket]
  /\ stream \in 0..MaxStreams /\ lastSeen \in Int /\ lastBucket \in -1..MaxBucket
  /\ queue \in Seq(Record) /\ Len(queue) <= QueueMax
  /\ books \in Books
  /\ job \in [step : {"idle", "stage", "write", "manifest", "unlink", "save"},
              todo : Seq(Record), windows : SUBSET Windows, keys : SUBSET Key,
              receipts : SUBSET Record, all : BOOLEAN, latest : -1..MaxBucket]
  /\ phase \in {"down", "init", "run", "gap", "backfill", "drain", "switch", "paused",
                "stopping", "wedged"}
  /\ gap \in [stream : 0..MaxStreams, latest : Nat, next : Nat, until : -1..MaxBucket]
  /\ src \in [stream : 0..MaxStreams, seq : Int] /\ link \in Nat
  /\ tail \in {"whole", "unended", "torn"} /\ cut \in BOOLEAN
  /\ accepted \subseteq Record /\ ends \in 0..MaxEnds

(* A state whose receipt was given out is in the archive or in a record that   *)
(* still waits in the journal, through every crash, failed unlink, recovery    *)
(* and replacement by the database's copy.                                     *)
Have == {b \in Buckets : archive[b] # "none"} \cup UNION {r.rows : r \in files}
AcceptedIsKept == \A r \in accepted : r.rows \subseteq Have

(* The cursor a restarted collector resumes from, and the one health reports,  *)
(* never pass a record that still waits in the journal.                        *)
CursorIsCovered ==
  \A r \in files \ resolved : r.kind = "hub" =>
    /\ r.stream = ckpt.stream => r.seq > ckpt.mat
    /\ phase # "down" /\ r.stream = stream => r.seq > cur.mat

(* From the first batch on that the hub delivered, archive and journal have no *)
(* hole: what a replay or a backfill skips would never be asked for again.     *)
Promised == {b \in Selected : \E r \in accepted : r.kind = "hub" /\ r.at < b}
NoHoles == \A b \in Promised \ Have : \A y \in Have : y < b

(* The collector does not reject what it left on disk at a start, unless it    *)
(* ended inside a gap recovery and a record of the database still waits: then  *)
(* a batch without rows may be left behind by later ones; or it ended inside   *)
(* an append to the resolutions: then a line may be torn, or a batch left      *)
(* behind by those whose lines were in time.  And a recovered gap leaves       *)
(* nothing pending behind.                                                     *)
Rejected == phase = "wedged" \/ (phase = "down" /\ tail = "torn")
NeverWedged ==
  /\ Rejected => cut \/ \E r \in files : r.kind = "pg"
  /\ phase = "switch" => pend = {}

(* What the hub sends next is what ingest expects next.                        *)
InStep == Delivered /\ IsNew => InSequence

(* The database's copy of a state is never replaced by the hub's, and no       *)
(* archived state disappears.                                                  *)
ArchiveOnlyImproves ==
  [][\A b \in Buckets : /\ archive[b] = "pg"   => archive'[b] = "pg"
                        /\ archive[b] # "none" => archive'[b] # "none"]_vars

(* A start, a pause and a stop each end, whatever the journal and the queue    *)
(* held when they began.                                                       *)
Settles == phase \in {"init", "paused", "stopping"} ~> phase \in {"run", "down", "wedged"}

(* A replay gap closes, unless the database is empty or the journal too small: *)
(* a queue that is full for a moment is no excuse.                             *)
CannotRecover == \/ phase = "gap" /\ pg = -1
                 \/ phase = "backfill" /\ ~JournalFits(BackfillBatch)
GapCloses == phase \in {"gap", "backfill", "drain", "switch"}
               ~> (phase \in {"run", "stopping", "down"} \/ CannotRecover)
===============================================================================
