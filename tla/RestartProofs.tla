---------------------------- MODULE RestartProofs ----------------------------
(* Why the collector does not reject its own journal at a start (NeverWedged), *)
(* for one life of the hub and every value of the other constants.             *)
(*                                                                             *)
(* A start rejects hub records whose sequences have a hole.  What waits has no *)
(* hole as long as a record is resolved only after the ones before it.  Two    *)
(* things break this.  The database's copy of a state replaces the hub's, so   *)
(* that a hub record may be done before an earlier one; then the database's    *)
(* record that replaced it waits as well.  And the lines of one commit are not *)
(* in the order of the sequences, so that an append that ends in the middle    *)
(* resolves some and not the ones before.  NeverWedged excepts both.           *)
(*                                                                             *)
(* With the same invariant, why nothing is skipped (NoHoles) when the process  *)
(* ends and starts again.                                                      *)
EXTENDS CollectorProofs

PgsOf(S)    == {r \in S : r.kind = "pg"}
Seqs(S)     == {r.seq : r \in HubsOf(S)}
Awaited     == files \ resolved
Live        == phase \notin {"down", "init", "wedged"}
KeysNow     == IF job.step = "write" THEN job.keys ELSE {}
InKeys(c)   == \E v \in Kinds : <<c, v>> \in KeysNow
RowOpen(c)  == Window(c) \in books.open /\ books.rows[c] # "none"
Pg(b)       == BackfillRecord(b, {b} \cap Selected)
Noted(b)    == Pg(b) \in files \cup resolved
Settled(r)  == r \in files \cup resolved \/ r.seq <= manifest.high \/ r.seq <= ckpt.mat
HubRow(c)   == \E r \in HubsOf(accepted) : c \in r.rows

(* What was accepted is a batch of the hub or one of the backfill, and is      *)
(* settled: its record is on disk, or a cursor on disk has passed it.          *)
OriginInv ==
  /\ \A r \in HubsOf(accepted) : r.seq \in Sequences /\ r = Rec(r.seq)
  /\ \A r \in PgsOf(accepted) : r = Pg(r.at)
  /\ files \cup resolved \cup Held \subseteq accepted
  /\ Held \subseteq files \cup resolved
  /\ \A r \in HubsOf(accepted) : Settled(r)

(* So is what may come again, if something later was accepted.                 *)
BehindInv ==
  \A n \in Sequences : Wanted(n) =>
    /\ n <= cur.acc => Settled(Rec(n))
    /\ \A r \in HubsOf(accepted) : n < r.seq => Settled(Rec(n))

(* A row of the hub, archived or buffered, comes from a batch that came.       *)
HubRowInv ==
  /\ \A c \in Buckets : archive[c] = "hub" => HubRow(c)
  /\ \A c \in Buckets : Window(c) \in books.open /\ books.rows[c] = "hub" =>
       /\ HubRow(c)
       /\ c \in Archived \/ \E r \in HubsOf(accepted) : r.seq <= lastSeen /\ c \in r.rows

(* Backfills leave no bucket out, and are resolved in the order of the buckets.*)
BackfillInv ==
  /\ \A r \in PgsOf(files \cup resolved) : \A b \in Selected :
       ckpt.bucket < b /\ b < r.at => Noted(b)
  /\ phase = "backfill" =>
       /\ \A b \in Selected : ckpt.bucket < b /\ b < gap.next => Noted(b)
       /\ \A r \in PgsOf(resolved) : \A b \in Selected : gap.next <= b /\ b < r.at => Noted(b)
  /\ Live => \A r \in PgsOf(resolved) : \A s \in PgsOf(Awaited) :
       r.at \in Selected /\ s.at \in Selected => r.at < s.at

(* In queue, worker and books the hub's records come before the database's,    *)
(* and those in the order of their buckets.                                    *)
HubsFirst(q) == \A i, j \in DOMAIN q : i < j /\ q[j].kind = "hub" => q[i].kind = "hub"
Climbs(q) ==
  \A i, j \in DOMAIN q : i < j /\ q[i].kind = "pg" /\ q[j].kind = "pg" => q[i].at < q[j].at
Under(S, T) == \A r \in PgsOf(S) : \A s \in PgsOf(T) : r.at < s.at
TurnsInv == Live =>
  /\ HubsFirst(queue) /\ HubsFirst(job.todo)
  /\ PgsOf(InBooks) # {} => HubsOf(Unstaged) = {}
  /\ PgsOf(Elems(job.todo)) # {} => HubsOf(Elems(queue)) = {}
  /\ Climbs(queue) /\ Climbs(job.todo)
  /\ Under(InBooks, Unstaged) /\ Under(Elems(job.todo), Elems(queue))
  /\ phase = "backfill" => \A r \in PgsOf(Held) : r.at < gap.next
  /\ phase = "gap" => Plain

(* The hub's records that are not staged are the last ones that came, all of   *)
(* them; nothing after a record that waits was resolved before it came again.  *)
ToLast(n, S) == \A k \in Int : n <= k /\ k <= lastSeen => k \in S
ComingInv == Live => \A r \in HubsOf(Unstaged) : ToLast(r.seq, Seqs(Unstaged))
AgainInv == Live => \A r \in HubsOf(Awaited) : \A s \in HubsOf(resolved) :
                      r.seq < s.seq => s.seq <= lastSeen /\ s \notin Unstaged

(* Their rows are ahead of the buffered and of the archived ones, unless the   *)
(* archive has the database's copy.                                            *)
AheadOfOpen == Live =>
  \A r \in HubsOf(Unstaged) : \A d \in r.rows : \A c \in Buckets :
    RowOpen(c) => c \in Archived \/ c < d
AheadOfFiles == Live =>
  \A r \in HubsOf(Unstaged) \ resolved : \A d \in r.rows :
    archive[d] = "pg" \/ \A c \in Archived : c < d
StagedAhead == Live =>
  \A t \in books.staged : t.rec.kind = "hub" /\ t.rec \notin resolved =>
    \A k \in t.left : \A c \in Archived : c < k[1] \/ InKeys(c)

(* A version that was replaced is archived, or waits in the database's record. *)
OverInv == Live =>
  \A k \in books.over : \/ k[1] \in Archived
                        \/ \E u \in books.staged : u.rec.kind = "pg" /\ <<k[1], "pg">> \in u.left

(* Unbroken(n): what waits of the hub from n on is all that came.  OwesPg(b):  *)
(* a record of the database waits for a row at b or later.                     *)
Unbroken(n) == \A r \in HubsOf(Awaited) : n <= r.seq => ToLast(r.seq, Seqs(Awaited))
PgStaged(u) == u \in books.staged /\ u.rec.kind = "pg" /\ u.rec \notin resolved
OwesPg(b)   == \E u \in books.staged : \E d \in Buckets :
                 PgStaged(u) /\ b <= d /\ <<d, "pg">> \in u.left \ KeysNow
WaitInv == Live =>
  \A t \in books.staged : \A k \in t.left \ (KeysNow \cup books.over) :
    Unbroken(t.rec.seq) \/ OwesPg(k[1])
TailInv == Live => Unbroken(0) \/ \E u \in books.staged : PgStaged(u)

(* Where the collector is not at work, its journal has no hole or a record of  *)
(* the database, or an append that was not finished left the hole.             *)
NoHoleIn(S) == \A m, k \in S : \A n \in Int : m <= n /\ n <= k => n \in S
RestInv ==
  /\ ~Live => PgsOf(Awaited) # {} \/ NoHoleIn(Seqs(Awaited)) \/ cut
  /\ phase = "wedged" => PgsOf(files) # {} \/ cut
  /\ tail # "whole" => cut

StockInv == OriginInv /\ BehindInv /\ HubRowInv /\ BackfillInv
WorkInv  == TurnsInv /\ ComingInv /\ AgainInv /\ AheadOfOpen /\ AheadOfFiles /\ StagedAhead
GapInv   == OverInv /\ WaitInv /\ TailInv /\ RestInv
RestartInv == CoverInv /\ StockInv /\ WorkInv /\ GapInv

-------------------------------------------------------------------------------
(* What a step does to the records that the collector holds.                   *)
Quiet ==
  /\ UNCHANGED <<queue, books, resolved, archive, accepted>>
  /\ job'.todo = job.todo /\ KeysNow' = KeysNow /\ Awaited' = Awaited
  /\ (lastSeen' = lastSeen \/ ResumeFromHub)

LEMMA ToldIs ==
  ASSUME TypeInv, JobShape
  PROVE  /\ IngestNew =>
              /\ ArrivedRecord \in Record /\ ArrivedRecord.kind = "hub"
              /\ queue' = Append(queue, ArrivedRecord) /\ Elems(queue') = Elems(queue) \cup {ArrivedRecord}
              /\ Unstaged' = Unstaged \cup {ArrivedRecord} /\ files' = files \cup {ArrivedRecord}
              /\ accepted' = accepted \cup {ArrivedRecord} /\ phase = "run" /\ phase' = "run"
              /\ UNCHANGED <<job, books, resolved, archive, manifest, ckpt, gap, KeysNow>>
         /\ Backfill =>
              /\ BackfillBatch \in Record /\ BackfillBatch.kind = "pg"
              /\ BackfillBatch = Pg(gap.next) /\ BackfillBatch.at = gap.next
              /\ queue' = Append(queue, BackfillBatch) /\ Elems(queue') = Elems(queue) \cup {BackfillBatch}
              /\ Unstaged' = Unstaged \cup {BackfillBatch} /\ files' = files \cup {BackfillBatch}
              /\ accepted' = accepted \cup {BackfillBatch}
              /\ phase = "backfill" /\ phase' = "backfill"
              /\ UNCHANGED <<job, books, resolved, archive, manifest, ckpt, lastSeen, KeysNow>>
<1>1. queue \in Seq(Record)
  BY HeldIs
<1>2. Unstaged' = Elems(queue') \cup Elems(job'.todo)
  BY DEF Unstaged, Elems
<1>3. ASSUME IngestNew
      PROVE  /\ ArrivedRecord \in Record /\ ArrivedRecord.kind = "hub"
             /\ queue' = Append(queue, ArrivedRecord) /\ files' = files \cup {ArrivedRecord}
             /\ accepted' = accepted \cup {ArrivedRecord} /\ phase = "run" /\ phase' = "run"
             /\ UNCHANGED <<job, books, resolved, archive, manifest, ckpt, gap>>
  <2>1. ArrivedRecord \in Record
    BY <1>3, ArrivedIs DEF IngestNew
  <2> QED
    BY <1>3, <2>1 DEF IngestNew, Journal, Delivered, ArrivedRecord, HubRecord, writer
<1>4. ASSUME Backfill
      PROVE  /\ BackfillBatch \in Record /\ BackfillBatch.kind = "pg"
             /\ BackfillBatch = Pg(gap.next) /\ BackfillBatch.at = gap.next
             /\ queue' = Append(queue, BackfillBatch) /\ files' = files \cup {BackfillBatch}
             /\ accepted' = accepted \cup {BackfillBatch}
             /\ phase = "backfill" /\ phase' = "backfill"
             /\ UNCHANGED <<job, books, resolved, archive, manifest, ckpt, lastSeen>>
  <2>1. BackfillBatch \in Record
    BY <1>4, BackfillIs
  <2>2. BackfillBatch = Pg(gap.next) /\ BackfillBatch.kind = "pg" /\ BackfillBatch.at = gap.next
    BY DEF BackfillBatch, BackfillRecord, Pg
  <2> QED
    BY <1>4, <2>1, <2>2 DEF Backfill, Journal, writer
<1>5. IngestNew => Elems(queue') = Elems(queue) \cup {ArrivedRecord}
  BY <1>1, <1>3, ElemsAre
<1>6. Backfill => Elems(queue') = Elems(queue) \cup {BackfillBatch}
  BY <1>1, <1>4, ElemsAre
<1>7. job' = job => KeysNow' = KeysNow
  BY DEF KeysNow
<1>8. IngestNew => Unstaged' = Unstaged \cup {ArrivedRecord}
  BY <1>2, <1>3, <1>5 DEF Unstaged
<1>9. Backfill => Unstaged' = Unstaged \cup {BackfillBatch}
  BY <1>2, <1>4, <1>6 DEF Unstaged
<1> QED
  BY <1>3, <1>4, <1>5, <1>6, <1>7, <1>8, <1>9

LEMMA TakenIs ==
  ASSUME TypeInv, JobShape, WorkerTakes
  PROVE  /\ queue' = <<>> /\ job'.todo = queue /\ job.todo = <<>>
         /\ KeysNow = {} /\ KeysNow' = {} /\ Unstaged' = Unstaged
         /\ Elems(queue') = {} /\ Elems(job'.todo) = Elems(queue) /\ Elems(job.todo) = {}
         /\ UNCHANGED <<books, files, resolved, archive, lastSeen, accepted, phase, gap, ckpt>>
<1>1. JobIs(job', "stage", queue, {}, {}, {}, FALSE, -1)
  BY JobSteps
<1>2. job'.todo = queue /\ job'.step = "stage"
  BY <1>1, JobFields
<1>3. job.step = "idle" /\ queue' = <<>>
  BY DEF WorkerTakes
<1>4. job.todo = <<>>
  BY <1>3 DEF JobShape
<1>5. KeysNow = {} /\ KeysNow' = {}
  BY <1>2, <1>3 DEF KeysNow
<1>6. Elems(queue') = {} /\ Elems(job'.todo) = Elems(queue) /\ Elems(job.todo) = {}
  BY <1>2, <1>3, <1>4, ElemsAre DEF Elems
<1>7. Unstaged' = Elems(queue') \cup Elems(job'.todo)
  BY DEF Unstaged, Elems
<1>8. UNCHANGED <<books, files, resolved, archive, lastSeen, accepted, phase, gap, ckpt>>
  BY DEF WorkerTakes, disk, loop, ghost
<1> QED
  BY <1>2, <1>3, <1>4, <1>5, <1>6, <1>7, <1>8 DEF Unstaged

LEMMA StagedIs ==
  ASSUME TypeInv, JobShape, StageNext
  PROVE  /\ job.todo # <<>> /\ Head(job.todo) \in Record /\ job.todo \in Seq(Record)
         /\ job'.todo = Tail(job.todo) /\ Elems(job.todo) = Elems(job'.todo) \cup {Head(job.todo)}
         /\ Unstaged = Unstaged' \cup {Head(job.todo)}
         /\ StagedAs(books', books, Head(job.todo), archive)
         /\ books \in GoodBooks /\ archive \in [Buckets -> Version]
         /\ InBooks' = InBooks \cup {Head(job.todo)}
         /\ KeysNow = {} /\ KeysNow' = {}
         /\ UNCHANGED <<queue, files, resolved, archive, lastSeen, accepted, phase, gap, ckpt>>
<1>1. /\ job \in Jobs /\ books \in GoodBooks /\ books \in Books /\ job.todo \in Seq(Record)
      /\ archive \in [Buckets -> Version] /\ queue \in Seq(Record)
  BY HeldIs DEF GoodBooks
<1>2. job.todo # <<>> /\ job.step = "stage"
  BY DEF StageNext
<1>3. Head(job.todo) \in Record
  BY <1>2, NextLatestIs
<1>4. JobIs(job', "stage", Tail(job.todo), job.windows, job.keys, job.receipts,
            job.all, NextLatest)
  BY JobSteps
<1>5. job'.todo = Tail(job.todo) /\ job'.step = "stage"
  BY <1>4, JobFields
<1>6. Elems(job.todo) = Elems(Tail(job.todo)) \cup {Head(job.todo)}
  BY <1>1, <1>2, ElemsAre
<1>7. Elems(job'.todo) = Elems(Tail(job.todo))
  BY <1>5
<1>8. /\ books' = Stage(books, Head(job.todo), archive) /\ queue' = queue
      /\ UNCHANGED <<queue, files, resolved, archive, lastSeen, accepted, phase, gap, ckpt>>
  BY DEF StageNext, ingest, disk, loop, ghost
<1>9. StagedAs(books', books, Head(job.todo), archive)
  BY <1>1, <1>3, <1>8, StageParts
<1>10. InBooks' = InBooks \cup {Head(job.todo)}
  BY <1>1, <1>3, <1>8, StageStocks DEF InBooks, Stocked
<1>11. KeysNow = {} /\ KeysNow' = {}
  BY <1>2, <1>5 DEF KeysNow
<1>12. Unstaged' = Elems(queue') \cup Elems(job'.todo) /\ Elems(queue') = Elems(queue)
  BY <1>8 DEF Unstaged, Elems
<1>13. Unstaged = Unstaged' \cup {Head(job.todo)}
  BY <1>6, <1>7, <1>12 DEF Unstaged
<1> QED
  BY <1>1, <1>2, <1>3, <1>5, <1>6, <1>7, <1>8, <1>9, <1>10, <1>11, <1>13

LEMMA WrittenIs ==
  ASSUME SafeInv, JobShape, InRow(books, job), WriteWindow, NEW w, w = Min(job.windows)
  PROVE  /\ books \in GoodBooks /\ archive \in [Buckets -> Version]
         /\ w \in job.windows /\ w \in books.open /\ job.step = "write"
         /\ archive' \in [Buckets -> Version]
         /\ \A b \in Buckets : archive'[b] = IF Window(b) = w THEN books.rows[b] ELSE archive[b]
         /\ books'.open = books.open \ {w}
         /\ \A b \in Buckets : books'.rows[b] = IF Window(b) = w THEN "none" ELSE books.rows[b]
         /\ books'.staged = books.staged /\ books'.over = books.over
         /\ books'.empties = books.empties /\ InBooks' = InBooks
         /\ job'.todo = job.todo /\ Unstaged' = Unstaged
         /\ KeysNow' = KeysNow \cup KeysIn(books, w)
         /\ \A k \in Key : k \in KeysIn(books, w) <=> Window(k[1]) = w /\ books.rows[k[1]] = k[2]
         /\ \A b \in Buckets : Window(b) \in books.open /\ Window(b) <= w => Window(b) = w
         /\ UNCHANGED <<queue, files, resolved, lastSeen, accepted, phase, gap, ckpt, manifest>>
<1>1. /\ TypeInv /\ ImproveInv /\ books \in GoodBooks /\ archive \in [Buckets -> Version]
      /\ job \in Jobs
  BY HeldIs DEF SafeInv, ImproveInv
<1>2. job.step = "write" /\ w \in job.windows /\ job.windows \subseteq Windows
  BY <1>1, FirstWindow DEF WriteWindow, Jobs
<1>3. w \in books.open
  BY <1>1, <1>2 DEF ImproveInv, WritesOpen
<1>4. /\ archive' = Written(archive, books, w) /\ books' = Closed(books, w)
      /\ UNCHANGED <<queue, files, resolved, lastSeen, accepted, phase, gap, ckpt, manifest>>
  BY DEF WriteWindow, ingest, loop, ghost
<1>5. JobIs(job', "write", job.todo, job.windows \ {w}, job.keys \cup KeysIn(books, w),
            job.receipts, job.all, job.latest)
  BY <1>1, JobSteps
<1>6. job'.todo = job.todo /\ job'.step = "write" /\ job'.keys = job.keys \cup KeysIn(books, w)
  BY <1>5, JobFields
<1>7. KeysNow' = KeysNow \cup KeysIn(books, w)
  BY <1>2, <1>6 DEF KeysNow
<1>8. Unstaged' = Unstaged
  <2>1. Unstaged' = Elems(queue') \cup Elems(job'.todo)
    BY DEF Unstaged, Elems
  <2> QED
    BY <1>4, <1>6, <2>1 DEF Unstaged
<1>9. /\ archive' \in [Buckets -> Version]
      /\ \A b \in Buckets : archive'[b] = IF Window(b) = w THEN books.rows[b] ELSE archive[b]
      /\ books'.open = books.open \ {w}
      /\ \A b \in Buckets : books'.rows[b] = IF Window(b) = w THEN "none" ELSE books.rows[b]
      /\ books'.staged = books.staged /\ books'.over = books.over
      /\ books'.empties = books.empties
  BY <1>1, <1>4, WriteGood
<1>10. InBooks' = InBooks
  BY <1>9 DEF InBooks, Stocked
<1>11. \A k \in Key : k \in KeysIn(books, w) <=> Window(k[1]) = w /\ books.rows[k[1]] = k[2]
  BY DEF KeysIn
<1>12. ASSUME NEW b \in Buckets, Window(b) \in books.open, Window(b) <= w
       PROVE  Window(b) = w
  <2>1. Window(b) \in job.windows
    BY <1>2, <1>12 DEF InRow
  <2>2. Windows \subseteq Int /\ IsFiniteSet(job.windows)
    BY <1>2, BucketsAre, FS_Subset
  <2>3. job.windows \subseteq Int /\ w \in Int /\ Window(b) \in Int
    BY <1>2, <2>1, <2>2
  <2>4. w <= Window(b)
    BY <2>1, <2>2, <2>3, MinIs
  <2> QED
    BY <1>12, <2>3, <2>4
<1> QED
  BY <1>1, <1>2, <1>3, <1>4, <1>6, <1>7, <1>8, <1>9, <1>10, <1>11, <1>12

LEMMA ResolvedIs ==
  ASSUME KeepInv, Resolve
  PROVE  /\ books \in GoodBooks /\ job.step = "write" /\ KeysNow = job.keys /\ KeysNow' = {}
         /\ books'.rows = books.rows /\ books'.open = books.open
         /\ books'.staged = Waiting(books, job.keys)
         /\ books'.over = IF Waiting(books, job.keys) = {} THEN {} ELSE books.over
         /\ ResolvedNow \subseteq InBooks /\ InBooks' \subseteq InBooks
         /\ InBooks = InBooks' \cup ResolvedNow
         /\ resolved' = resolved \cup ResolvedNow /\ Awaited' = Awaited \ ResolvedNow
         /\ job'.todo = job.todo /\ job.todo = <<>> /\ job.receipts = {} /\ Unstaged' = Unstaged
         /\ Unstaged = Elems(queue)
         /\ UNCHANGED <<queue, files, archive, lastSeen, accepted, phase, gap, ckpt, manifest>>
<1>1. TypeInv /\ JobShape /\ books \in GoodBooks
  BY KeepParts, HeldIs
<1>2. /\ job.step = "write" /\ resolved' = resolved \cup ResolvedNow
      /\ books' = Covered(books, job.keys, job.all)
      /\ UNCHANGED <<queue, files, archive, lastSeen, accepted, phase, gap, ckpt, manifest>>
  BY DEF Resolve, ResolvedNow, loop, ghost
<1>3. PICK done : done = ResolvedNow
  OBVIOUS
<1>4. JobIs(job', IF done = {} THEN "save" ELSE "manifest", job.todo, job.windows, job.keys, done,
            job.all, job.latest)
  BY <1>1, <1>3, JobSteps DEF ResolvedNow
<1>5. job'.todo = job.todo /\ job'.step # "write"
  BY <1>4, JobFields
<1>6. KeysNow = job.keys /\ KeysNow' = {}
  BY <1>2, <1>5 DEF KeysNow
<1>7. job.todo = <<>> /\ job.receipts = {}
  BY <1>1, <1>2 DEF JobShape
<1>8. /\ books'.rows = books.rows /\ books'.open = books.open
      /\ books'.staged = Waiting(books, job.keys)
      /\ books'.over = IF Waiting(books, job.keys) = {} THEN {} ELSE books.over
      /\ books'.empties = books.empties \ EmptiesDone(books, job.keys, job.all)
  BY <1>1, <1>2, CoveredAre
<1>9. InBooks = InBooks' \cup ResolvedNow
  BY <1>1, <1>2, ResolveStocks DEF InBooks, ResolvedNow, Stocked
<1>10. Unstaged' = Unstaged /\ Unstaged = Elems(queue)
  <2>1. Unstaged' = Elems(queue') \cup Elems(job'.todo)
    BY DEF Unstaged, Elems
  <2> QED
    BY <1>2, <1>5, <1>7, <2>1, ElemsAre DEF Unstaged
<1>11. Awaited' = Awaited \ ResolvedNow
  BY <1>2 DEF Awaited
<1> QED
  BY <1>1, <1>2, <1>5, <1>6, <1>7, <1>8, <1>9, <1>10, <1>11

LEMMA CrashBooks ==
  ASSUME TypeInv, Crash
  PROVE  resolved' \subseteq resolved \cup InBooks
<1>1. books \in GoodBooks
  BY HeldIs
<1>2. Ready(books, job.keys, job.all) \subseteq InBooks
  BY <1>1, ResolveStocks DEF InBooks, Stocked
<1> QED
  BY <1>2, CrashLeaves

LEMMA UnlinkedIs ==
  ASSUME SafeInv, JobShape, NEW x \in job.receipts, Unlink(x)
  PROVE  Quiet /\ files' \cup resolved' = files \cup resolved /\ files' \subseteq files
<1>1. TypeInv /\ x \in resolved
  BY DEF SafeInv, ImproveInv
<1>2. JobIs(job', IF job.receipts = {x} THEN "save" ELSE "unlink", job.todo, job.windows,
            job.keys, job.receipts \ {x}, job.all, job.latest)
  BY <1>1, JobSteps
<1>3. job'.todo = job.todo /\ job'.step # "write" /\ job.step # "write"
  BY <1>2, JobFields DEF Unlink
<1>4. files' \in {files, files \ {x}} /\ UNCHANGED <<queue, books, resolved, archive, accepted, lastSeen>>
  BY DEF Unlink, ghost
<1>5. KeysNow' = KeysNow
  BY <1>3 DEF KeysNow
<1>6. Awaited' = Awaited
  BY <1>1, <1>4 DEF Awaited
<1> QED
  BY <1>1, <1>3, <1>4, <1>5, <1>6 DEF Quiet

LEMMA Flow ==
  ASSUME KeepInv, [Next]_vars
  PROVE  \/ IngestNew \/ Backfill \/ WorkerTakes \/ StageNext \/ WriteWindow \/ Resolve
         \/ Crash \/ Restart \/ Quiet
<1> SUFFICES ASSUME ~IngestNew, ~Backfill, ~WorkerTakes, ~StageNext, ~WriteWindow, ~Resolve,
                    ~Crash, ~Restart
             PROVE  Quiet
  OBVIOUS
<1>1. TypeInv /\ SafeInv /\ JobShape
  BY KeepParts
<1>2. /\ UNCHANGED <<queue, books, resolved, archive, accepted>>
      /\ (files' = files \/ Unlinks) /\ (lastSeen' = lastSeen \/ ResumeFromHub)
      /\ (job' = job \/ WriterStep)
  BY Frames
<1>3. CASE Unlinks
  BY <1>1, <1>3, UnlinkedIs DEF Unlinks
<1>4. CASE job' = job /\ ~Unlinks
  BY <1>2, <1>4 DEF Quiet, KeysNow, Awaited
<1>5. ASSUME ~Unlinks, job'.todo = job.todo, KeysNow' = KeysNow PROVE Quiet
  BY <1>2, <1>5 DEF Quiet, Awaited
<1>6. CASE Staged
  <2>1. job.step = "stage" /\ job.todo = <<>> /\ job.keys = {} /\ ~Unlinks
    BY <1>1, <1>6 DEF Staged, JobShape, Unlinks, Unlink
  <2>2. job'.todo = job.todo /\ job'.keys = job.keys
    BY <1>1, <1>6, JobSteps, JobFields
  <2>3. KeysNow' = {} /\ KeysNow = {}
    BY <2>1, <2>2 DEF KeysNow
  <2> QED
    BY <1>5, <2>1, <2>2, <2>3
<1>7. CASE FlushAll
  <2>1. job.step = "idle" /\ job.todo = <<>> /\ ~Unlinks
    BY <1>1, <1>7 DEF FlushAll, JobShape, Unlinks, Unlink
  <2>2. job'.todo = <<>> /\ job'.keys = {}
    BY <1>7, FlushAllJob
  <2>3. KeysNow' = {} /\ KeysNow = {}
    BY <2>1, <2>2 DEF KeysNow
  <2> QED
    BY <1>5, <2>1, <2>2, <2>3
<1>8. CASE WriteManifest
  <2>1. job.step = "manifest" /\ ~Unlinks
    BY <1>8 DEF WriteManifest, Unlinks, Unlink
  <2>2. job'.todo = job.todo /\ job'.step = "unlink"
    BY <1>1, <1>8, JobSteps, JobFields
  <2>3. KeysNow' = {} /\ KeysNow = {}
    BY <2>1, <2>2 DEF KeysNow
  <2> QED
    BY <1>5, <2>1, <2>2, <2>3
<1>9. CASE SaveCheckpoint
  <2>1. job.step = "save" /\ job.todo = <<>> /\ ~Unlinks
    BY <1>1, <1>9 DEF SaveCheckpoint, JobShape, Unlinks, Unlink
  <2>2. job'.todo = <<>> /\ job'.step = "idle"
    BY <1>1, <1>9, JobSteps, IdleFields
  <2>3. KeysNow' = {} /\ KeysNow = {}
    BY <2>1, <2>2 DEF KeysNow
  <2> QED
    BY <1>5, <2>1, <2>2, <2>3
<1> QED
  BY <1>2, <1>3, <1>4, <1>6, <1>7, <1>8, <1>9 DEF WriterStep, Unlinks

-------------------------------------------------------------------------------
LEMMA RestartParts ==
  ASSUME RestartInv
  PROVE  /\ CoverInv /\ KeepInv /\ TypeInv /\ SafeInv /\ JobShape /\ PlaceInv
         /\ InRow(books, job) /\ WaitsIn(books, job)
         /\ OriginInv /\ BehindInv /\ HubRowInv /\ BackfillInv
         /\ TurnsInv /\ ComingInv /\ AgainInv /\ AheadOfOpen /\ AheadOfFiles /\ StagedAhead
         /\ OverInv /\ WaitInv /\ TailInv /\ RestInv
<1>1. CoverInv /\ KeepInv /\ TypeInv /\ SafeInv /\ JobShape /\ PlaceInv
  BY CoverParts DEF RestartInv
<1>2. InRow(books, job) /\ WaitsIn(books, job)
  BY <1>1, KeepParts, WindowIs
<1> QED
  BY <1>1, <1>2 DEF RestartInv, StockInv, WorkInv, GapInv

(* The collector starts to work, and recovers from a gap, with nothing held.   *)
LEMMA NothingHeld ==
  ASSUME KeepInv, [Next]_vars, Live', ~Live \/ ResumeFromHub
  PROVE  /\ Held = {} /\ pend = {} /\ Held' = {} /\ Awaited' = {}
         /\ queue' = <<>> /\ job'.todo = <<>> /\ Unstaged' = {} /\ InBooks' = {}
         /\ books'.staged = {}
         /\ UNCHANGED <<queue, books, resolved, files, archive, accepted>>
         /\ (SaveCheckpoint /\ job.all) \/ ResumeFromHub
         /\ phase' = "run"
<1>1. TypeInv /\ JobShape /\ PlaceInv /\ phase \in Phases /\ phase' \in Phases
  <2>1. TypeInv'
    BY KeepParts, TypesStep
  <2> QED
    BY <2>1, KeepParts, TypeInvIs DEF LoopTyped
<1>2. (SaveCheckpoint /\ job.all /\ phase = "init") \/ ResumeFromHub
  <2> SUFFICES ASSUME ~Live, ~ResumeFromHub PROVE SaveCheckpoint /\ job.all /\ phase = "init"
    OBVIOUS
  <2>1. phase \in {"down", "init", "wedged"} /\ phase' \notin {"down", "init", "wedged"}
    BY DEF Live
  <2>2. ~Restart
    BY <2>1 DEF Restart
  <2>3. phase # "down"
    BY <1>1, <2>1, <2>2, PhaseIs
  <2>4. ReplayUnavailable \/ IngestPaused \/ PlanBackfill \/ Backfilled \/ GivesUp \/ Signaled
          => phase \notin {"down", "init", "wedged"}
    BY DEF ReplayUnavailable, IngestPaused, Delivered, PlanBackfill, Backfilled, GivesUp, Fails,
           Signaled
  <2>5. ~Crash
    BY <2>1 DEF Crash
  <2>6. SaveCheckpoint /\ job.all
    BY <2>1, <2>2, <2>4, <2>5, PhaseFrom
  <2>7. job.all => phase \in Flushing
    BY <1>1, TypeInvIs DEF FlushTyped
  <2> QED
    BY <2>1, <2>6, <2>7 DEF Flushing
<1>3. Held = {} /\ pend = {} /\ pend' = pend
  <2>1. CASE SaveCheckpoint /\ job.all /\ phase = "init"
    BY <2>1, AllIsSaved
  <2>2. CASE ResumeFromHub
    BY <1>1, <2>2 DEF ResumeFromHub, PlaceInv
  <2> QED
    BY <1>2, <2>1, <2>2
<1>4. queue = <<>> /\ job.todo = <<>> /\ InBooks = {}
  <2>1. queue \in Seq(Record) /\ job.todo \in Seq(Record)
    BY <1>1, HeldIs
  <2>2. Elems(queue) = {} /\ Elems(job.todo) = {} /\ InBooks = {}
    BY <1>3 DEF Held
  <2>3. ASSUME NEW q \in Seq(Record), Elems(q) = {} PROVE q = <<>>
    <3>1. q # <<>> => Head(q) \in Elems(q)
      BY ElemsAre
    <3> QED
      BY <2>3, <3>1
  <2> QED
    BY <2>1, <2>2, <2>3
<1>5. /\ UNCHANGED <<queue, books, resolved, files, archive, accepted>>
      /\ job'.todo = <<>> /\ job'.receipts = {} /\ phase' = "run"
  <2>1. CASE SaveCheckpoint /\ job.all /\ phase = "init"
    <3>1. job' = IdleJob /\ phase' = "run"
      BY <2>1 DEF SaveCheckpoint, AfterFlush
    <3>2. UNCHANGED <<queue, books, resolved, files, archive, accepted>>
      BY <2>1 DEF SaveCheckpoint, ingest, ghost
    <3> QED
      BY <3>1, <3>2, IdleFields
  <2>2. CASE ResumeFromHub
    <3>1. UNCHANGED <<queue, books, resolved, files, archive, accepted, job>> /\ phase' = "run"
      BY <2>2 DEF ResumeFromHub, writer, ghost
    <3>2. job.receipts = {}
      BY <1>3 DEF Held
    <3> QED
      BY <1>4, <3>1, <3>2
  <2> QED
    BY <1>2, <2>1, <2>2
<1>6. Unstaged' = {} /\ InBooks' = {} /\ books'.staged = {}
  <2>1. Unstaged' = Elems(queue') \cup Elems(job'.todo) /\ InBooks' = Stocked(books')
    BY DEF Unstaged, InBooks, Elems, Stocked
  <2>2. books.staged = {}
    BY <1>4 DEF InBooks, Stocked
  <2> QED
    BY <1>4, <1>5, <2>1, <2>2, ElemsAre DEF InBooks
<1>7. Held' = {}
  <2>1. Held' = HeldOf(queue', job'.todo, Stocked(books'), job'.receipts)
    BY <1>1, HeldIs
  <2> QED
    BY <1>4, <1>5, <2>1, ElemsAre DEF HeldOf, InBooks
<1>8. Awaited' = {}
  <2>1. files \ resolved \subseteq pend
    BY <1>1 DEF PlaceInv
  <2> QED
    BY <1>3, <1>5, <2>1 DEF Awaited
<1> QED
  BY <1>2, <1>3, <1>4, <1>5, <1>6, <1>7, <1>8

-------------------------------------------------------------------------------
(* Cursors only go up, so that what is settled stays so.                       *)
LEMMA CursorsClimb ==
  ASSUME CoverInv, [Next]_vars
  PROVE  /\ manifest.high <= manifest'.high /\ ckpt.mat <= ckpt'.mat /\ ckpt.bucket <= ckpt'.bucket
         /\ manifest.high \in Int /\ manifest'.high \in Int /\ ckpt.mat \in Int /\ ckpt'.mat \in Int
         /\ ckpt.bucket \in Int /\ ckpt'.bucket \in Int
<1>1. TypeInv /\ PlaceInv /\ HighInv /\ CursorInv /\ SafeInv
  BY CoverParts
<1>2. TypeInv'
  BY <1>1, TypesStep
<1>3. /\ cur.mat \in Int /\ cur.high \in Int /\ cur.acc \in Int /\ gap.latest \in Int
      /\ manifest.high \in Int /\ ckpt.mat \in Int /\ ckpt.bucket \in Int
  BY <1>1, CursorsAre
<1>4. manifest'.high \in Int /\ ckpt'.mat \in Int /\ ckpt'.bucket \in Int
  <2>1. ckpt' \in Checkpoints /\ manifest' \in Cursors
    BY <1>2, TypeInvIs DEF DiskTyped
  <2>2. \A k \in Checkpoints : k.mat \in Int /\ k.bucket \in Int
    BY BucketsAre DEF Checkpoints
  <2>3. \A c \in Cursors : c.high \in Int
    BY DEF Cursors
  <2> QED
    BY <2>1, <2>2, <2>3
<1>5. phase = "down" => job.step = "idle"
  BY <1>1 DEF PlaceInv
<1>6. manifest.high <= manifest'.high
  <2>1. CASE WriteManifest
    <3>1. manifest' = cur /\ phase # "down"
      BY <1>5, <2>1 DEF WriteManifest
    <3> QED
      BY <1>1, <3>1 DEF HighInv
  <2>2. CASE manifest' = manifest
    BY <1>3, <2>2
  <2> QED
    BY <2>1, <2>2, Frames
<1>7. ckpt.mat <= ckpt'.mat /\ ckpt.bucket <= ckpt'.bucket
  <2>1. CASE SaveCheckpoint
    <3>1. ckpt'.mat = cur.mat /\ phase # "down"
      BY <1>1, <1>5, <2>1, SaveIs
    <3>2. ckpt.mat <= cur.mat
      BY <1>1, <3>1, CursorInvIs DEF CursorFloor
    <3>3. PICK top : /\ lastBucket' = top /\ ckpt'.bucket = Larger(ckpt.bucket, top)
      BY <2>1 DEF SaveCheckpoint
    <3>4. top \in Int
      BY <1>2, <3>3, TypeInvIs, BucketsAre DEF WriterTyped
    <3> QED
      BY <1>3, <3>1, <3>2, <3>3, <3>4, LargerIs
  <2>2. CASE ResumeFromHub
    <3>1. /\ ckpt'.mat = gap.latest /\ ckpt'.bucket = ckpt.bucket /\ phase = "switch"
      BY <1>1, <2>2, ResumeIs
    <3>2. ckpt.mat <= cur.mat /\ cur.mat <= cur.acc /\ cur.acc <= gap.latest
      BY <1>1, <3>1, CursorInvIs DEF CursorFloor, CursorBounds, GapPhases
    <3> QED
      BY <1>3, <3>1, <3>2
  <2>3. CASE ckpt' = ckpt
    BY <1>3, <2>3
  <2> QED
    BY <2>1, <2>2, <2>3, Frames
<1> QED
  BY <1>3, <1>4, <1>6, <1>7

(* A restart drops only what a cursor on disk has passed.                      *)
LEMMA SettledStays ==
  ASSUME MaxStreams = 1, CoverInv, [Next]_vars, NEW r \in Record, Settled(r)
  PROVE  Settled(r)'
<1>1. TypeInv /\ SafeInv /\ JobShape /\ KeepInv /\ r.seq \in Int
  BY CoverParts, RecordsAre
<1>2. resolved \subseteq resolved'
  BY Frames, CrashLeaves DEF Resolve
<1>3. r.seq <= manifest.high \/ r.seq <= ckpt.mat
        => r.seq <= manifest'.high \/ r.seq <= ckpt'.mat
  BY <1>1, CursorsClimb
<1>4. ASSUME r \in files, r \notin files', r \notin resolved' PROVE Settled(r)'
  <2>1. Restart
    <3>1. ASSUME NEW x \in job.receipts, Unlink(x) PROVE FALSE
      BY <1>1, <1>2, <1>4, <3>1 DEF Unlink, SafeInv
    <3>2. IngestNew \/ Backfill => files \subseteq files'
      BY DEF IngestNew, Backfill, Journal
    <3> QED
      BY <1>4, <3>1, <3>2, Frames DEF Unlinks
  <2>2. files' = Kept /\ Base.high \in {ckpt.mat, manifest.high}
    BY <1>1, <2>1, RestartCursors
  <2>3. r \notin Kept
    BY <1>4, <2>2
  <2>4. r.seq <= Base.high
    BY <1>2, <1>4, <2>3 DEF Kept, AlreadyCommitted
  <2> QED
    BY <1>3, <2>2, <2>4 DEF Settled
<1> QED
  BY <1>2, <1>3, <1>4 DEF Settled

LEMMA OriginStep ==
  ASSUME MaxStreams = 1, RestartInv, [Next]_vars
  PROVE  OriginInv'
<1>1. /\ CoverInv /\ KeepInv /\ TypeInv /\ SafeInv /\ JobShape /\ OriginInv
      /\ accepted \subseteq Record
  BY RestartParts, TypeInvIs DEF GhostTyped
<1>2. \A r \in accepted' : \/ r \in accepted
                           \/ IngestNew /\ r = ArrivedRecord /\ r \in files'
                           \/ Backfill /\ r = BackfillBatch /\ r \in files'
  BY <1>1, ToldIs, Frames
<1>3. \A r \in HubsOf(accepted') : r.seq \in Sequences' /\ r = Rec(r.seq)'
  <2> SUFFICES ASSUME NEW r \in HubsOf(accepted') PROVE r.seq \in Sequences' /\ r = Rec(r.seq)'
    OBVIOUS
  <2>1. r.seq \in Sequences /\ r = Rec(r.seq)
    <3>1. CASE r \in accepted
      BY <1>1, <3>1 DEF OriginInv, HubsOf
    <3>2. CASE IngestNew /\ r = ArrivedRecord
      <4>1. ArrivedRecord = Rec(link) /\ link \in Sequences
        BY <1>1, <3>2, AcceptIs
      <4>2. PICK n \in Sequences : n = link
        BY <4>1
      <4>3. Rec(n).seq = n
        BY <1>1, RecIs
      <4> QED
        BY <3>2, <4>1, <4>2, <4>3
    <3>3. ~(Backfill /\ r = BackfillBatch)
      BY <1>1, ToldIs DEF HubsOf
    <3> QED
      BY <1>2, <3>1, <3>2, <3>3 DEF HubsOf
  <2>2. PICK n \in Sequences : n = r.seq
    BY <2>1
  <2>3. Rec(n)' = Rec(n) /\ n \in Sequences'
    BY <1>1, LogGrows
  <2> QED
    BY <2>1, <2>2, <2>3
<1>4. \A r \in PgsOf(accepted') : r = Pg(r.at)
  <2> SUFFICES ASSUME NEW r \in PgsOf(accepted') PROVE r = Pg(r.at)
    OBVIOUS
  <2>1. IngestNew => ArrivedRecord.kind = "hub"
    BY <1>1, ToldIs
  <2>2. Backfill => BackfillBatch = Pg(gap.next) /\ BackfillBatch.at = gap.next
    BY <1>1, ToldIs
  <2>3. r \in accepted => r = Pg(r.at)
    BY <1>1 DEF OriginInv, PgsOf
  <2> QED
    BY <1>2, <2>1, <2>2, <2>3 DEF PgsOf
<1>5. files' \cup resolved' \subseteq accepted'
  <2>1. files' \subseteq accepted'
    <3>1. files' \subseteq files \cup (IF IngestNew THEN {ArrivedRecord} ELSE {})
                             \cup (IF Backfill THEN {BackfillBatch} ELSE {})
      <4>1. Unlinks => files' \subseteq files
        BY DEF Unlinks, Unlink
      <4>2. Restart => files' \subseteq files
        BY <1>1, FilesFrom
      <4> QED
        BY <1>1, <4>1, <4>2, ToldIs, Frames
    <3>2. accepted \subseteq accepted'
      BY <1>1, ToldIs, Frames
    <3>3. (IngestNew => ArrivedRecord \in accepted') /\ (Backfill => BackfillBatch \in accepted')
      BY <1>1, ToldIs
    <3> QED
      BY <1>1, <3>1, <3>2, <3>3 DEF OriginInv
  <2>2. resolved' \subseteq accepted
    <3>1. Resolve => resolved' = resolved \cup ResolvedNow /\ ResolvedNow \subseteq InBooks
      BY <1>1, ResolvedIs
    <3>2. Crash => resolved' \subseteq resolved \cup InBooks
      BY <1>1, CrashBooks
    <3>3. InBooks \subseteq Held
      BY DEF Held
    <3> QED
      BY <1>1, <3>1, <3>2, <3>3, Frames DEF OriginInv
  <2>3. accepted \subseteq accepted'
    BY <1>1, ToldIs, Frames
  <2> QED
    BY <2>1, <2>2, <2>3
<1>6. Held' \subseteq files' \cup resolved'
  <2>1. CASE Restart
    BY <2>1, <1>1, RestartHolds, FilesFrom
  <2>2. CASE Crash
    <3>1. queue' = <<>> /\ books' = NoBooks /\ job' = IdleJob
      BY <2>2 DEF Crash
    <3>2. Held' = HeldOf(queue', job'.todo, Stocked(books'), job'.receipts)
      BY <1>1, HeldIs
    <3>3. Held' = {}
      BY <3>1, <3>2, IdleFields, ElemsAre DEF HeldOf, Stocked, NoBooks
    <3> QED
      BY <3>3
  <2>3. CASE IngestNew \/ Backfill
    <3>1. files \cup resolved \subseteq files' \cup resolved'
      BY <1>1, <2>3, ToldIs
    <3>2. (IngestNew => ArrivedRecord \in files') /\ (Backfill => BackfillBatch \in files')
      BY <1>1, ToldIs
    <3>3. Held' \subseteq Held \cup (IF IngestNew THEN {ArrivedRecord} ELSE {})
                               \cup (IF Backfill THEN {BackfillBatch} ELSE {})
      BY <1>1, HoldsArrived, <2>3
    <3> QED
      BY <1>1, <3>1, <3>2, <3>3 DEF OriginInv
  <2>4. CASE ~Restart /\ ~Crash /\ ~IngestNew /\ ~Backfill
    <3>1. Held' \subseteq Held
      BY <1>1, <2>4, HeldFrom
    <3>2. files \cup resolved \subseteq files' \cup resolved'
      <4>1. Unlinks => files' \cup resolved' = files \cup resolved
        BY <1>1, UnlinkedIs DEF Unlinks
      <4>2. Resolve => resolved' = resolved \cup ResolvedNow /\ files' = files
        BY <1>1, ResolvedIs
      <4>3. files' = files \/ Unlinks
        BY <2>4, Frames
      <4>4. resolved \subseteq resolved'
        BY <2>4, <4>2, Frames
      <4> QED
        BY <4>1, <4>3, <4>4
    <3> QED
      BY <1>1, <3>1, <3>2 DEF OriginInv
  <2> QED
    BY <2>1, <2>2, <2>3, <2>4
<1>7. \A r \in HubsOf(accepted') : Settled(r)'
  <2> SUFFICES ASSUME NEW r \in HubsOf(accepted') PROVE Settled(r)'
    OBVIOUS
  <2>1. r \in accepted => Settled(r)'
    BY <1>1, SettledStays DEF OriginInv, HubsOf
  <2>2. r \in files' => Settled(r)'
    BY DEF Settled
  <2> QED
    BY <1>2, <2>1, <2>2 DEF HubsOf
<1> QED
  <2>1. HubsOf(accepted') = HubsOf(accepted)' /\ PgsOf(accepted') = PgsOf(accepted)'
    BY DEF HubsOf, PgsOf
  <2>2. Held' \subseteq accepted'
    BY <1>5, <1>6
  <2> QED
    BY <1>3, <1>4, <1>5, <1>6, <1>7, <2>1, <2>2 DEF OriginInv

LEMMA BehindStep ==
  ASSUME MaxStreams = 1, RestartInv, [Next]_vars
  PROVE  BehindInv'
<1>1. /\ CoverInv /\ KeepInv /\ TypeInv /\ SafeInv /\ JobShape /\ PlaceInv /\ BehindInv
      /\ OriginInv /\ OriginInv' /\ CursorBounds /\ CursorFloor /\ SourceInv /\ TypeInv'
  BY RestartParts, OriginStep, KeepParts, CursorInvIs, TypesStep
<1>2. /\ cur.acc \in Int /\ cur.mat \in Int /\ ckpt.acc \in Int /\ manifest.acc \in Int
      /\ manifest.mat \in Int /\ ckpt.mat \in Int /\ cur'.acc \in Int
      /\ lastSeen \in Int /\ link \in Nat /\ src.seq \in Int /\ Latest \in Nat
  BY <1>1, CursorsAre, CursorsNext
<1>3. \A n \in Sequences : Rec(n) \in Record /\ Rec(n)' = Rec(n) /\ n \in Nat /\ n >= 1 /\ n <= Latest
                           /\ Rec(n).kind = "hub" /\ Rec(n).seq = n
  <2> SUFFICES ASSUME NEW n \in Sequences
               PROVE  Rec(n) \in Record /\ Rec(n)' = Rec(n) /\ n \in Nat /\ n >= 1 /\ n <= Latest
                      /\ Rec(n).kind = "hub" /\ Rec(n).seq = n
    OBVIOUS
  <2>1. hub.log[n] \in Batch /\ Rows(hub.log[n]) \subseteq Buckets
    BY <1>1, LogIs
  <2>2. hub.log[n].last \in Buckets
    BY <2>1 DEF Batch
  <2>3. Rec(n) \in Record
    BY <1>1, <2>1, <2>2, LogIs DEF Rec, HubRecord, Record, Kinds
  <2> QED
    BY <1>1, <2>3, RecIs, LogGrows
(* What had come before a cursor passed it, or is what arrives now.            *)
<1>4. ASSUME NEW n \in Sequences, Wanted(n)', n <= cur'.acc PROVE Settled(Rec(n))'
  <2>1. n <= cur.acc => Settled(Rec(n))'
    <3>1. Wanted(n)
      BY <1>1, <1>4, WantedFrom
    <3> QED
      BY <1>1, <1>3, <3>1, SettledStays DEF BehindInv
  <2>2. CASE IngestNew
    <3>1. /\ cur'.acc \in {cur.acc, link} /\ link \in Sequences /\ ArrivedRecord = Rec(link)
          /\ phase = "run" /\ src'.seq = link /\ link' = link + 1 /\ cur'.mat = cur.mat
          /\ UNCHANGED <<ckpt, manifest, phase>>
      BY <1>1, <2>2, AcceptIs
    <3>2. ArrivedRecord \in files'
      BY <1>1, <2>2, ToldIs
    <3>3. CASE n = link
      <4>1. Rec(n)' = Rec(n) /\ Rec(n) = ArrivedRecord
        BY <1>3, <3>1, <3>3
      <4>2. Rec(n)' \in files'
        BY <3>2, <4>1
      <4> QED
        BY <4>2 DEF Settled
    <3>4. CASE ~(n <= cur.acc) /\ n # link
      <4>1. cur.acc < n /\ n < link
        BY <1>2, <1>3, <1>4, <3>1, <3>4
      <4>2. src.seq = NoSeq
        <5>1. SUFFICES ASSUME src.seq # NoSeq PROVE FALSE
          OBVIOUS
        <5>2. link = src.seq + 1 /\ src.seq <= cur.acc
          BY <1>1, <1>2, <1>3, <3>1, <4>1, <5>1 DEF SourceInv
        <5> QED
          BY <1>2, <1>3, <4>1, <5>2
      <4>3. cur.mat = NoSeq /\ HubsOf(pend \cup Held) = {}
        BY <1>1, <3>1, <4>2 DEF SourceInv
      <4>4. ckpt.mat <= NoSeq /\ manifest.mat <= NoSeq
        BY <1>1, <3>1, <4>3 DEF CursorFloor
      <4>5. ~After(Resume', n) /\ ~After(cur'.mat, n) /\ ~After(src'.seq, n)
        <5>1. ~(NoSeq < Resume')
          BY <1>2, <3>1, <4>4, BoundsAre DEF Resume, Larger
        <5>2. ~(NoSeq < cur'.mat)
          BY <3>1, <4>3, BoundsAre
        <5>3. ~(src'.seq < n)
          BY <1>2, <1>3, <3>1, <4>1
        <5> QED
          BY <5>1, <5>2, <5>3 DEF After
      <4>6. ~(link' <= n)
        BY <1>2, <1>3, <3>1, <4>1
      <4>7. \A s \in HubsOf(pend' \cup Held') : ~(s.seq <= n)
        <5>1. HubsOf(pend' \cup Held') \subseteq {ArrivedRecord}
          BY <1>1, <2>2, <3>1, <4>3, HubsFrom DEF Restart
        <5> QED
          BY <1>2, <1>3, <3>1, <4>1, <5>1
      <4>8. Rec(n)' \in files'
        BY <1>4, <3>1, <4>5, <4>6, <4>7 DEF Wanted, GapPhases
      <4> QED
        BY <4>8 DEF Settled
    <3> QED
      BY <2>1, <3>3, <3>4
  <2>3. CASE ResumeFromHub
    <3>1. /\ ckpt'.mat = gap.latest /\ cur'.acc = gap.latest
      BY <1>1, <2>3, ResumeIs
    <3> QED
      BY <1>3, <1>4, <3>1 DEF Settled
  <2>4. CASE Restart
    <3>1. /\ cur'.acc \in {ckpt.acc, manifest.acc} \/ \E r \in HubsOf(Kept) : cur'.acc = r.seq
          /\ \A r \in HubsOf(Kept) : r.seq <= lastSeen /\ r \in pend
      BY <1>1, <2>4, RestartCursors
    <3>2. ckpt.acc <= cur.acc \/ ckpt.acc <= 0
      BY <1>1 DEF CursorBounds
    <3>3. manifest.acc <= cur.acc /\ lastSeen <= cur.acc
      BY <1>1 DEF CursorBounds
    <3>4. \A r \in HubsOf(Kept) : r.seq \in Int
      <4> SUFFICES ASSUME NEW r \in HubsOf(Kept) PROVE r.seq \in Int
        OBVIOUS
      <4>1. r \in HubsOf(files \cup pend \cup Held)
        BY <3>1 DEF HubsOf
      <4> QED
        BY <1>1, <4>1, LogIs DEF PlaceInv
    <3>5. n <= cur.acc
      BY <1>2, <1>3, <1>4, <3>1, <3>2, <3>3, <3>4
    <3> QED
      BY <2>1, <3>5
  <2>5. CASE cur'.acc = cur.acc
    BY <1>4, <2>1, <2>5
  <2>6. Resolve => cur'.acc = cur.acc
    BY <1>1, CommitIs
  <2>7. Backfill => cur' = cur
    BY <1>1, BackfillCursors
  <2> QED
    BY <2>2, <2>3, <2>4, <2>5, <2>6, <2>7, Frames
<1>5. ASSUME NEW n \in Sequences, Wanted(n)', NEW r \in HubsOf(accepted'), n < r.seq
      PROVE  Settled(Rec(n))'
  <2>1. Wanted(n)
    BY <1>1, <1>5, WantedFrom
  <2>2. CASE r \in accepted
    <3>1. r \in HubsOf(accepted)
      BY <1>5, <2>2 DEF HubsOf
    <3>2. Settled(Rec(n))
      BY <1>1, <1>5, <2>1, <3>1 DEF BehindInv
    <3> QED
      BY <1>1, <1>3, <3>2, SettledStays
  <2>3. CASE IngestNew /\ r = ArrivedRecord
    <3>1. ArrivedRecord = Rec(link) /\ link \in Sequences /\ cur'.acc >= link
      BY <1>1, <2>3, AcceptIs
    <3>2. r.seq = link
      BY <1>3, <2>3, <3>1
    <3>3. n <= cur'.acc
      BY <1>2, <1>3, <1>5, <3>1, <3>2
    <3> QED
      BY <1>4, <1>5, <3>3
  <2>4. Backfill => accepted' = accepted \cup {BackfillBatch} /\ BackfillBatch.kind = "pg"
    BY <1>1, ToldIs
  <2>5. IngestNew => accepted' = accepted \cup {ArrivedRecord}
    BY <1>1, ToldIs
  <2> QED
    BY <1>5, <2>2, <2>3, <2>4, <2>5, Frames DEF HubsOf
<1>6. ASSUME NEW n \in Sequences', n \notin Sequences
      PROVE  ~(n <= cur'.acc) /\ \A r \in HubsOf(accepted') : ~(n < r.seq)
  <2>1. Publishes
    BY <1>1, <1>6, LogGrows
  <2>2. PICK k \in 1..2 : Publish(k)
    BY <2>1 DEF Publishes
  <2>3. n = Latest + 1 /\ cur' = cur /\ accepted' = accepted
    <3>1. UNCHANGED <<ingest, ghost>> /\ n = Latest + 1
      BY <1>1, <1>6, <2>2, PublishIs
    <3> QED
      BY <3>1 DEF ingest, ghost
  <2>4. cur.acc <= Latest
    BY <1>1 DEF CursorBounds
  <2>5. \A r \in HubsOf(accepted) : r.seq \in Sequences
    BY <1>1 DEF OriginInv
  <2> QED
    BY <1>2, <1>3, <2>3, <2>4, <2>5
<1>7. ASSUME NEW n \in Sequences', Wanted(n)'
      PROVE  /\ n <= cur'.acc => Settled(Rec(n))'
             /\ \A r \in HubsOf(accepted') : n < r.seq => Settled(Rec(n))'
  BY <1>4, <1>5, <1>6, <1>7
<1>8. HubsOf(accepted') = HubsOf(accepted)'
  BY DEF HubsOf
<1> QED
  BY <1>7, <1>8 DEF BehindInv

LEMMA HubsStay ==
  ASSUME RestartInv, [Next]_vars
  PROVE  /\ accepted \subseteq accepted'
         /\ \A c : HubRow(c) => HubRow(c)'
<1>1. TypeInv /\ JobShape
  BY RestartParts
<1>2. accepted \subseteq accepted'
  BY <1>1, ToldIs, Frames
<1> QED
  BY <1>2 DEF HubRow, HubsOf

(* A buffered row of the hub was loaded from its file or comes from a record.  *)
FromHubs(z, a, S) ==
  \A c \in Buckets : Window(c) \in z.open /\ z.rows[c] = "hub"
    => a[c] = "hub" \/ \E r \in HubsOf(S) : c \in r.rows
LEMMA StageFromHubs ==
  ASSUME NEW z \in GoodBooks, NEW r \in Record, NEW a \in [Buckets -> Version], NEW S, r \in S,
         FromHubs(z, a, S)
  PROVE  FromHubs(Stage(z, r, a), a, S)
<1>1. PICK n : n = Stage(z, r, a)
  OBVIOUS
<1>2. StagedAs(n, z, r, a)
  BY <1>1, StageParts DEF GoodBooks
<1> SUFFICES ASSUME NEW c \in Buckets, Window(c) \in n.open, n.rows[c] = "hub"
             PROVE  a[c] = "hub" \/ \E x \in HubsOf(S) : c \in x.rows
  BY <1>1 DEF FromHubs
<1>3. CASE c \in Won(z, r, a)
  <2>1. r.kind = "hub" /\ c \in r.rows
    BY <1>2, <1>3 DEF StagedAs, Won
  <2> QED
    BY <2>1 DEF HubsOf
<1>4. CASE c \notin Won(z, r, a)
  <2>1. Known(z, r, a)[c] = "hub"
    BY <1>2, <1>4 DEF StagedAs
  <2>2. (Window(c) \in z.open /\ z.rows[c] = "hub") \/ a[c] = "hub"
    BY <2>1 DEF Known
  <2> QED
    BY <2>2 DEF FromHubs
<1> QED
  BY <1>3, <1>4

LEMMA RestageFromHubs ==
  ASSUME NEW S, S \subseteq Record, NEW q \in Seq(Record), \A i \in DOMAIN q : q[i] \in S,
         NEW a \in [Buckets -> Version]
  PROVE  FromHubs(Restaged(q, a), a, S)
<1> DEFINE G == {z \in GoodBooks : FromHubs(z, a, S)}
<1>1. NoBooks \in G
  BY NoBooksGood DEF FromHubs, NoBooks
<1>2. ASSUME NEW z \in G, NEW i \in DOMAIN q PROVE Stage(z, q[i], a) \in G
  BY <1>2, StageGood, StageFromHubs
<1> HIDE DEF G
<1>3. Restaged(q, a) \in G
  BY <1>1, <1>2, RestagedIn
<1> QED
  BY <1>3 DEF G

Came(c) == \E r \in HubsOf(accepted) : r.seq <= lastSeen /\ c \in r.rows
LEMMA SeenGrows ==
  ASSUME MaxStreams = 1, CoverInv, [Next]_vars, ~Restart
  PROVE  lastSeen <= lastSeen' /\ lastSeen \in Int /\ lastSeen' \in Int
<1>1. KeepInv /\ TypeInv /\ CursorBounds /\ CursorFloor
  BY CoverParts, CursorInvIs
<1>2. TypeInv' /\ lastSeen \in Int /\ cur.acc \in Int /\ link \in Nat /\ gap.latest \in Nat
  BY <1>1, TypesStep, CursorsAre
<1>3. lastSeen' \in Int
  BY <1>2, CursorsNext
<1>4. CASE IngestNew
  <2>1. lastSeen' = link /\ (lastSeen = NoSeq \/ link > lastSeen)
    BY <1>1, <1>4, AcceptIs DEF IngestNew, IsNew
  <2> QED
    BY <1>2, <1>3, <2>1 DEF NoSeq
<1>5. CASE ResumeFromHub
  <2>1. lastSeen' = gap.latest /\ phase = "switch"
    BY <1>1, <1>5, ResumeIs
  <2>2. cur.acc <= gap.latest /\ lastSeen <= cur.acc
    BY <1>1, <2>1 DEF CursorFloor, CursorBounds, GapPhases
  <2> QED
    BY <1>2, <1>3, <2>1, <2>2
<1> QED
  BY <1>2, <1>3, <1>4, <1>5, Frames

LEMMA HubRowStep ==
  ASSUME MaxStreams = 1, RestartInv, [Next]_vars
  PROVE  HubRowInv'
<1>1. /\ CoverInv /\ KeepInv /\ TypeInv /\ SafeInv /\ JobShape /\ PlaceInv /\ HubRowInv /\ OriginInv
      /\ InRow(books, job) /\ accepted \subseteq Record /\ files \subseteq Record
      /\ IsFiniteSet(files) /\ PlaceInv'
  BY RestartParts, TypeInvIs, PlaceStep DEF GhostTyped, DiskTyped
<1>2. /\ accepted \subseteq accepted' /\ Archived \subseteq Archived'
      /\ \A c : HubRow(c) => HubRow(c)'
  BY <1>1, HubsStay, SafeGrows
<1>3. ASSUME ~Restart, NEW c, Came(c) PROVE Came(c)'
  <2>1. PICK r \in HubsOf(accepted) : r.seq <= lastSeen /\ c \in r.rows
    BY <1>3 DEF Came
  <2>2. r \in HubsOf(accepted') /\ r.seq \in Int
    BY <1>1, <1>2, <2>1, RecordsAre DEF HubsOf
  <2>3. r.seq <= lastSeen'
    BY <1>1, <1>3, <2>1, <2>2, SeenGrows
  <2>4. \E x \in HubsOf(accepted') : x.seq <= lastSeen' /\ c \in x.rows
    BY <2>1, <2>2, <2>3
  <2> QED
    BY <2>4 DEF Came, HubsOf
<1>4. ASSUME NEW c \in Buckets, archive'[c] = "hub" PROVE HubRow(c)'
  <2>1. CASE archive' = archive
    BY <1>1, <1>2, <1>4, <2>1 DEF HubRowInv
  <2>2. CASE WriteWindow
    <3>1. PICK w : w = Min(job.windows)
      OBVIOUS
    <3>2. w \in books.open /\ archive'[c] = IF Window(c) = w THEN books.rows[c] ELSE archive[c]
      BY <1>1, <2>2, <3>1, WrittenIs
    <3> QED
      BY <1>1, <1>2, <1>4, <3>2 DEF HubRowInv
  <2> QED
    BY <2>1, <2>2, Frames
<1> DEFINE Sound(c) == HubRow(c) /\ (c \in Archived \/ Came(c))
<1>5. ASSUME NEW c \in Buckets, Window(c) \in books.open, books.rows[c] = "hub" PROVE Sound(c)
  BY <1>1, <1>5 DEF HubRowInv, Came
<1>6. ASSUME NEW c \in Buckets, archive[c] = "hub" PROVE Sound(c)
  BY <1>1, <1>6 DEF HubRowInv, Archived
<1>7. ASSUME NEW c, Sound(c), ~Restart PROVE Sound(c)'
  BY <1>2, <1>3, <1>7
<1>8. ASSUME NEW c \in Buckets, Window(c) \in books'.open, books'.rows[c] = "hub" PROVE Sound(c)'
  <2>1. CASE StageNext
    <3>1. PICK r : r = Head(job.todo)
      OBVIOUS
    <3>2. /\ StagedAs(books', books, r, archive) /\ r \in Record /\ r \in Unstaged
      BY <1>1, <2>1, <3>1, StagedIs
    <3>3. c \in Won(books, r, archive) => r.kind = "hub" /\ c \in r.rows
      BY <1>8, <3>2 DEF StagedAs, Won
    <3>4. c \notin Won(books, r, archive) => Known(books, r, archive)[c] = "hub"
      BY <1>8, <3>2 DEF StagedAs
    <3>5. r.kind = "hub" /\ c \in r.rows => Sound(c)
      <4>1. r \in Held /\ r \in accepted
        BY <1>1, <3>2 DEF Held, Unstaged, OriginInv
      <4>2. r.kind = "hub" => r \in HubsOf(accepted) /\ r.seq <= lastSeen
        BY <1>1, <4>1 DEF HubsOf, PlaceInv
      <4> QED
        BY <4>2 DEF HubRow, Came
    <3>6. Known(books, r, archive)[c] = "hub" => Sound(c)
      <4>1. Known(books, r, archive)[c] = "hub"
              => (Window(c) \in books.open /\ books.rows[c] = "hub") \/ archive[c] = "hub"
        BY DEF Known
      <4> QED
        BY <1>5, <1>6, <4>1
    <3>7. ~Restart
      BY <1>1, <2>1 DEF StageNext, Restart, PlaceInv
    <3> QED
      BY <1>7, <3>3, <3>4, <3>5, <3>6, <3>7
  <2>2. CASE WriteWindow
    <3>1. PICK w : w = Min(job.windows)
      OBVIOUS
    <3>2. /\ books'.open = books.open \ {w}
          /\ books'.rows[c] = IF Window(c) = w THEN "none" ELSE books.rows[c]
      BY <1>1, <2>2, <3>1, WrittenIs
    <3>3. ~Restart
      BY <1>1, <2>2 DEF WriteWindow, Restart, PlaceInv
    <3> QED
      BY <1>5, <1>7, <1>8, <3>2, <3>3
  <2>3. CASE Resolve
    <3>1. books'.rows = books.rows /\ books'.open = books.open
      BY <1>1, <2>3, ResolvedIs
    <3>2. ~Restart
      BY <1>1, <2>3 DEF Resolve, Restart, PlaceInv
    <3> QED
      BY <1>5, <1>7, <1>8, <3>1, <3>2
  <2>4. CASE Crash
    BY <1>8, <2>4 DEF Crash, NoBooks
  <2>5. CASE Restart
    <3>1. PICK q \in Orders(Kept) : RestartWith(q)
      BY <2>5, RestartIs
    <3>2. Kept \subseteq files /\ q \in Seq(Record) /\ Held' = Kept
      BY <1>1, <2>5, <3>1, RestartTypes, RestartHolds
    <3>3. Kept \subseteq Record /\ IsFiniteSet(Kept)
      BY <1>1, <3>2, FS_Subset
    <3>4. \A i \in DOMAIN q : q[i] \in Kept
      BY <3>1, <3>3, OrdersAre
    <3>5. archive \in [Buckets -> Version] /\ archive' = archive /\ books' = Restaged(q, archive)
      BY <1>1, <2>5, <3>1, HeldIs, RestartCursors DEF RestartWith
    <3>6. FromHubs(books', archive, Kept)
      BY <3>2, <3>3, <3>4, <3>5, RestageFromHubs
    <3>7. archive[c] = "hub" \/ \E r \in HubsOf(Kept) : c \in r.rows
      BY <1>8, <3>6 DEF FromHubs
    <3>8. CASE archive[c] = "hub"
      <4>1. HubRow(c) /\ c \in Archived
        BY <1>1, <3>8 DEF HubRowInv, Archived
      <4> QED
        BY <1>2, <4>1
    <3>9. ASSUME NEW r \in HubsOf(Kept), c \in r.rows PROVE Sound(c)'
      <4>1. r \in accepted' /\ r.kind = "hub"
        BY <1>1, <1>2, <3>2, <3>9 DEF OriginInv, HubsOf
      <4>2. r.seq <= lastSeen'
        BY <1>1, <3>2, <3>9 DEF PlaceInv, HubsOf
      <4>3. HubRow(c)'
        BY <3>9, <4>1 DEF HubRow, HubsOf
      <4>4. Came(c)'
        BY <3>9, <4>1, <4>2 DEF Came, HubsOf
      <4> QED
        BY <4>3, <4>4
    <3> QED
      BY <3>7, <3>8, <3>9
  <2>6. CASE books' = books /\ ~Restart
    BY <1>5, <1>7, <1>8, <2>6
  <2> QED
    BY <2>1, <2>2, <2>3, <2>4, <2>5, <2>6, Frames
<1> QED
  BY <1>4, <1>8 DEF HubRowInv, Came

-------------------------------------------------------------------------------
(* What a resolution leaves waiting, and why.                                  *)
LEMMA StillHeld ==
  ASSUME CoverInv, Resolve, NEW s \in Awaited, s \notin ResolvedNow
  PROVE  Live /\ (s \in Unstaged \/ (s \in InBooks /\ ~job.all))
<1>1. KeepInv /\ TypeInv /\ PlaceInv /\ JobShape /\ FlushShape /\ TurnInv /\ phase \in Phases
  BY CoverParts, TypeInvIs DEF LoopTyped
<1>2. job.step = "write" /\ phase # "down"
  BY <1>1 DEF Resolve, PlaceInv
<1>3. /\ Unstaged = Elems(queue) /\ job.todo = <<>> /\ job.receipts = {}
      /\ InBooks = InBooks' \cup ResolvedNow
  BY <1>1, ResolvedIs
<1>4. s \in Held
  BY <1>1, <1>2 DEF Awaited, PlaceInv
<1>5. s \in Unstaged \/ s \in InBooks
  BY <1>3, <1>4, ElemsAre DEF Held
<1>6. job.all => InBooks' = {}
  <2>1. InBooks' = Stocked(books')
    BY DEF InBooks, Stocked
  <2> QED
    BY <1>1, <2>1, AllIsResolved
<1>7. s \in InBooks => ~job.all
  BY <1>3, <1>6
<1>8. Live
  <2>1. SUFFICES ASSUME ~Live PROVE FALSE
    OBVIOUS
  <2>2. phase \in {"init", "wedged"}
    BY <1>2, <2>1 DEF Live
  <2>3. job.all => queue = <<>>
    BY <1>1, <2>2 DEF FlushShape
  <2>4. job.step # "idle"
    BY <1>2
  <2>5. (job.all => queue = <<>> /\ InBooks' = {}) => s \in ResolvedNow
    <3>1. queue = <<>> => Unstaged = {}
      BY <1>3, ElemsAre
    <3> QED
      BY <1>1, <1>3, <1>5, <2>2, <2>4, <3>1 DEF TurnInv
  <2> QED
    BY <1>6, <2>3, <2>5
<1> QED
  BY <1>5, <1>7, <1>8

LEMMA NotReady ==
  ASSUME KeepInv, Resolve, NEW t \in books.staged, t.rec \notin ResolvedNow
  PROVE  \E u \in books.staged : /\ u.rec = t.rec
                                 /\ \E k \in u.left : k \notin job.keys \cup books.over
<1>1. books \in GoodBooks
  BY ResolvedIs
<1>2. t.rec \in {s.rec : s \in Waiting(books, job.keys)}
  BY DEF ResolvedNow, Ready
<1>3. PICK s \in Waiting(books, job.keys) : s.rec = t.rec
  BY <1>2
<1>4. s.left # {} /\ \E u \in books.staged : s = Less(u, books, job.keys)
  BY <1>1, <1>3, WaitingAre
<1>5. PICK u \in books.staged : s = Less(u, books, job.keys)
  BY <1>4
<1>6. s.rec = u.rec /\ s.left = u.left \ (job.keys \cup books.over)
  BY <1>5 DEF Less
<1> QED
  BY <1>3, <1>4, <1>6

LEMMA OpenAfterKeys ==
  ASSUME RestartInv, Resolve, NEW t \in books.staged, NEW k \in t.left,
         k \notin job.keys \cup books.over
  PROVE  /\ k \in Key /\ k[1] \in Buckets /\ k[1] \in t.rec.rows /\ k[2] = t.rec.kind
         /\ InWindow(books, k)
         /\ \A j \in job.keys : j[1] \in Buckets /\ j[1] < k[1]
<1>1. /\ KeepInv /\ TypeInv /\ WaitsIn(books, job) /\ InRow(books, job) /\ job \in Jobs
      /\ books \in Books
  BY RestartParts, HeldIs DEF GoodBooks
<1>2. job.step = "write" /\ job.windows = {}
  BY DEF Resolve
<1>3. t \in Staging
  BY <1>1, BooksAre
<1>4. k \in Key /\ k[1] \in Buckets
  BY <1>3 DEF Staging, Key
<1>5. k[1] \in t.rec.rows /\ k[2] = t.rec.kind /\ InWindow(books, k)
  BY <1>1, <1>2 DEF WaitsIn, LeftKnown
<1>6. ASSUME NEW j \in job.keys PROVE j[1] \in Buckets /\ j[1] < k[1]
  <2>1. j \in Key
    BY <1>1 DEF Jobs
  <2>2. j[1] \in Buckets
    BY <2>1 DEF Key
  <2>3. ~(Window(k[1]) <= Window(j[1]))
    BY <1>1, <1>2, <1>5 DEF InRow, InWindow
  <2>4. ~(k[1] <= j[1])
    BY <1>4, <2>2, <2>3, WindowsGrow
  <2>5. j[1] \in Int /\ k[1] \in Int
    BY <1>4, <2>2, BucketsAre
  <2> QED
    BY <2>2, <2>4, <2>5
<1> QED
  BY <1>4, <1>5, <1>6

LEMMA PgIs ==
  ASSUME OriginInv, NEW r \in PgsOf(accepted)
  PROVE  r.kind = "pg" /\ r.rows = {r.at} \cap Selected /\ r = Pg(r.at)
<1>1. r = Pg(r.at) /\ r.kind = "pg"
  BY DEF OriginInv, PgsOf
<1>2. PICK b : b = r.at
  OBVIOUS
<1>3. r = BackfillRecord(b, {b} \cap Selected)
  BY <1>1, <1>2 DEF Pg
<1> QED
  BY <1>1, <1>2, <1>3 DEF BackfillRecord

(* A record of the database with a row is staged for it.                       *)
LEMMA PgStagedFor ==
  ASSUME RestartInv, NEW r \in PgsOf(InBooks), r.at \in Selected
  PROVE  /\ r.at \in Buckets /\ r.rows = {r.at} /\ r \notin books.empties
         /\ \E t \in books.staged : t.rec = r
         /\ \A t \in books.staged : t.rec = r => t.left = {<<r.at, "pg">>}
         /\ <<r.at, "pg">> \notin books.over
<1>1. /\ KeepInv /\ TypeInv /\ SafeInv /\ WaitsIn(books, job) /\ OriginInv /\ books \in Books
  BY RestartParts, HeldIs DEF GoodBooks
<1>2. r \in PgsOf(accepted)
  BY <1>1 DEF OriginInv, Held, PgsOf
<1>3. r.rows = {r.at} /\ r.kind = "pg"
  BY <1>1, <1>2, PgIs
<1>4. r.at \in Buckets
  BY SelectedAssumption
<1>5. r \notin books.empties
  BY <1>1, <1>3 DEF SafeInv, BooksSafe, EmptySafe
<1>6. \E t \in books.staged : t.rec = r
  BY <1>5 DEF PgsOf, InBooks, Stocked
<1>7. ASSUME NEW t \in books.staged, t.rec = r PROVE t.left = {<<r.at, "pg">>}
  <2>1. t.left # {} /\ \A k \in t.left : k[1] \in r.rows /\ k[2] = r.kind
    BY <1>1, <1>7 DEF WaitsIn, LeftKnown
  <2>2. t.left \subseteq Key
    BY <1>1, BooksAre DEF Staging
  <2>3. \A k \in t.left : k = <<r.at, "pg">>
    BY <1>3, <2>1, <2>2 DEF Key
  <2> QED
    BY <2>1, <2>3
<1>8. <<r.at, "pg">> \notin books.over
  BY <1>1 DEF SafeInv, BooksSafe, OverSafe
<1> QED
  BY <1>3, <1>4, <1>5, <1>6, <1>7, <1>8

(* A record of the database is not dropped before it is resolved.              *)
LEMMA NotedStays ==
  ASSUME CoverInv, [Next]_vars, NEW b, Noted(b)
  PROVE  Noted(b)'
<1>1. TypeInv /\ SafeInv /\ JobShape
  BY CoverParts
<1>2. PICK r : r = Pg(b)
  OBVIOUS
<1>3. r.kind = "pg" /\ r \in files \cup resolved
  BY <1>2 DEF Noted, Pg, BackfillRecord
<1>4. resolved \subseteq resolved'
  BY Frames, CrashLeaves DEF Resolve
<1>5. ASSUME r \in files, r \notin files' PROVE r \in resolved
  <2>1. Unlinks => files' \cup resolved' = files \cup resolved /\ resolved' = resolved
    BY <1>1, UnlinkedIs DEF Unlinks, Quiet
  <2>2. IngestNew \/ Backfill => files \subseteq files'
    BY DEF IngestNew, Backfill, Journal
  <2>3. Restart => r \in resolved
    <3>1. Restart => files' = Kept
      BY <1>1, FilesFrom
    <3> QED
      BY <1>3, <1>5, <3>1 DEF Kept, AlreadyCommitted, InStream
  <2> QED
    BY <1>5, <2>1, <2>2, <2>3, Frames
<1>6. r \in files' \cup resolved'
  BY <1>3, <1>4, <1>5
<1> QED
  BY <1>2, <1>6 DEF Noted, Pg

LEMMA PgsFrom ==
  ASSUME RestartInv, [Next]_vars
  PROVE  /\ \A r \in PgsOf(files' \cup resolved') : \/ r \in PgsOf(files \cup resolved)
                                                    \/ Backfill /\ r = Pg(gap.next) /\ r.at = gap.next
         /\ \A r \in PgsOf(resolved') : \/ r \in PgsOf(resolved)
                                        \/ Resolve /\ r \in ResolvedNow /\ r \in PgsOf(InBooks)
                                        \/ Crash /\ r \in PgsOf(InBooks)
         /\ \A r \in PgsOf(Awaited') : /\ r \notin resolved'
                                       /\ \/ r \in PgsOf(Awaited)
                                          \/ Backfill /\ r = Pg(gap.next) /\ r.at = gap.next
<1>1. CoverInv /\ KeepInv /\ TypeInv /\ SafeInv /\ JobShape /\ OriginInv
  BY RestartParts
<1>2. Resolve => resolved' = resolved \cup ResolvedNow /\ ResolvedNow \subseteq InBooks
  BY <1>1, ResolvedIs
<1>3. InBooks \subseteq files \cup resolved
  BY <1>1 DEF OriginInv, Held
<1>4. /\ resolved' = resolved \/ Resolve \/ Crash
      /\ Crash => resolved' \subseteq resolved \cup InBooks /\ resolved \subseteq resolved'
  BY <1>1, Frames, CrashBooks, CrashLeaves
<1>5. \A r \in files' : \/ r \in files
                        \/ IngestNew /\ r = ArrivedRecord
                        \/ Backfill /\ r = BackfillBatch
  <2>1. Unlinks => files' \subseteq files
    BY DEF Unlinks, Unlink
  <2>2. Restart => files' \subseteq files
    BY <1>1, FilesFrom
  <2> QED
    BY <1>1, <2>1, <2>2, ToldIs, Frames
<1>6. (IngestNew => ArrivedRecord.kind # "pg") /\ (Backfill => BackfillBatch = Pg(gap.next) /\ BackfillBatch.at = gap.next)
  BY <1>1, ToldIs
<1>7. \A r \in PgsOf(files') : \/ r \in files
                               \/ Backfill /\ r = Pg(gap.next) /\ r.at = gap.next
  BY <1>5, <1>6 DEF PgsOf
<1>8. \A r \in PgsOf(resolved') : \/ r \in PgsOf(resolved)
                                  \/ Resolve /\ r \in ResolvedNow /\ r \in PgsOf(InBooks)
                                  \/ Crash /\ r \in PgsOf(InBooks)
  BY <1>2, <1>4 DEF PgsOf
<1>9. \A r \in PgsOf(files' \cup resolved') : \/ r \in PgsOf(files \cup resolved)
                                              \/ Backfill /\ r = Pg(gap.next) /\ r.at = gap.next
  BY <1>3, <1>7, <1>8 DEF PgsOf
<1>10. \A r \in PgsOf(Awaited') : /\ r \notin resolved'
                                  /\ \/ r \in PgsOf(Awaited)
                                     \/ Backfill /\ r = Pg(gap.next) /\ r.at = gap.next
  <2>1. resolved \subseteq resolved'
    BY <1>2, <1>4
  <2>2. \A r \in PgsOf(Awaited') : r \in PgsOf(files') /\ r \notin resolved' /\ r.kind = "pg"
    BY DEF PgsOf, Awaited
  <2> QED
    BY <1>7, <2>1, <2>2 DEF PgsOf, Awaited
<1> QED
  BY <1>8, <1>9, <1>10

(* Of two records of the database the later one is resolved later.             *)
LEMMA PgsInTurn ==
  ASSUME RestartInv, Resolve, NEW r \in PgsOf(ResolvedNow), NEW s \in PgsOf(Awaited),
         s \notin ResolvedNow, r.at \in Selected, s.at \in Selected
  PROVE  r.at < s.at
<1>1. CoverInv /\ KeepInv /\ TurnsInv
  BY RestartParts
<1>2. r \in PgsOf(InBooks) /\ books \in GoodBooks
  BY <1>1, ResolvedIs DEF PgsOf
<1>3. s \in Awaited /\ s.kind = "pg"
  BY DEF PgsOf
<1>4. Live /\ (s \in Unstaged \/ s \in InBooks)
  BY <1>1, <1>3, StillHeld
<1>5. CASE s \in Unstaged
  BY <1>1, <1>2, <1>3, <1>4, <1>5 DEF TurnsInv, Under, PgsOf
<1>6. CASE s \in InBooks
  <2>1. s \in PgsOf(InBooks)
    BY <1>3, <1>6 DEF PgsOf
  <2>2. /\ r.at \in Buckets /\ r \notin books.empties /\ <<r.at, "pg">> \notin books.over
        /\ \A t \in books.staged : t.rec = r => t.left = {<<r.at, "pg">>}
    BY <1>2, PgStagedFor
  <2>3. /\ s.at \in Buckets /\ \E t \in books.staged : t.rec = s
        /\ \A t \in books.staged : t.rec = s => t.left = {<<s.at, "pg">>}
    BY <2>1, PgStagedFor
  <2>4. <<r.at, "pg">> \in job.keys
    <3>1. r \notin EmptiesDone(books, job.keys, job.all)
      BY <2>2 DEF EmptiesDone
    <3>2. PICK t \in books.staged : t.rec = r /\ t.left \subseteq job.keys \cup books.over
      BY <1>2, <3>1, ReadyAre DEF ResolvedNow, PgsOf
    <3> QED
      BY <2>2, <3>2
  <2>5. PICK t \in books.staged : t.rec = s
    BY <2>3
  <2>6. PICK u \in books.staged : u.rec = s /\ \E k \in u.left : k \notin job.keys \cup books.over
    BY <1>1, <2>5, NotReady
  <2>7. <<s.at, "pg">> \in u.left /\ <<s.at, "pg">> \notin job.keys \cup books.over
    BY <2>3, <2>6
  <2>8. PICK k \in u.left : k = <<s.at, "pg">> /\ k \notin job.keys \cup books.over
    BY <2>7
  <2>9. \A j \in job.keys : j[1] < k[1]
    BY <2>8, OpenAfterKeys
  <2>10. PICK j \in job.keys : j = <<r.at, "pg">>
    BY <2>4
  <2>11. j[1] < k[1]
    BY <2>9
  <2> QED
    BY <2>8, <2>10, <2>11
<1> QED
  BY <1>4, <1>5, <1>6

LEMMA BackfillStep ==
  ASSUME MaxStreams = 1, RestartInv, [Next]_vars
  PROVE  BackfillInv'
<1>1. /\ CoverInv /\ KeepInv /\ TypeInv /\ SafeInv /\ JobShape /\ OriginInv /\ BackfillInv /\ TurnsInv
      /\ gap \in Gaps /\ Selected \subseteq Int
  BY RestartParts, CursorsAre, SelectedAssumption, BucketsAre
<1>2. ckpt.bucket <= ckpt'.bucket /\ ckpt.bucket \in Int /\ ckpt'.bucket \in Int /\ gap.next \in Int
  BY <1>1, CursorsClimb, CursorsAre
<1>3. /\ \A r \in PgsOf(files' \cup resolved') : r.at \in Int
      /\ \A r \in PgsOf(resolved') : r.at \in Int
  <2>1. Record \cap PgsOf(Record) \subseteq {r \in Record : r.at \in Int}
    BY BucketsAre DEF Record, PgsOf
  <2>2. TypeInv'
    BY <1>1, TypesStep
  <2>3. files' \cup resolved' \subseteq Record
    BY <2>2, TypeInvIs DEF DiskTyped
  <2> QED
    BY <2>1, <2>3 DEF PgsOf
<1>4. ASSUME NEW r \in PgsOf(files' \cup resolved'), NEW b \in Selected, ckpt'.bucket < b, b < r.at
      PROVE  Noted(b)'
  <2>1. b \in Int /\ ckpt.bucket < b
    BY <1>1, <1>2, <1>4
  <2>2. CASE r \in PgsOf(files \cup resolved)
    <3>1. Noted(b)
      BY <1>1, <1>4, <2>1, <2>2 DEF BackfillInv
    <3> QED
      BY <1>1, <3>1, NotedStays
  <2>3. CASE Backfill /\ r.at = gap.next
    <3>1. Noted(b)
      BY <1>1, <1>4, <2>1, <2>3 DEF BackfillInv, Backfill
    <3> QED
      BY <1>1, <3>1, NotedStays
  <2> QED
    BY <1>4, <2>2, <2>3, PgsFrom
<1>5. phase' = "backfill" /\ phase # "backfill" => gap'.next = ckpt.bucket + 1 /\ resolved' = resolved
  <2>1. phase' = "backfill" /\ phase # "backfill" => PlanBackfill
    BY <1>1, PhaseIs
  <2>2. PlanBackfill => gap'.next = ckpt.bucket + 1 /\ resolved' = resolved
    BY <1>1 DEF PlanBackfill, disk, Gaps
  <2> QED
    BY <2>1, <2>2
<1>6. phase' = "backfill" /\ phase = "backfill" =>
        gap' = gap \/ (Backfill /\ gap'.next = gap.next + 1)
  <2>1. Backfill => gap'.next = gap.next + 1
    BY <1>1 DEF Backfill, Gaps
  <2> QED
    BY <1>1, <2>1, GapFrom DEF ReplayUnavailable, PlanBackfill
<1>7. ASSUME phase' = "backfill", NEW b \in Selected, ckpt'.bucket < b, b < gap'.next PROVE Noted(b)'
  <2>1. b \in Int /\ ckpt.bucket < b
    BY <1>1, <1>2, <1>7
  <2>2. phase = "backfill"
    BY <1>2, <1>5, <1>7, <2>1
  <2>3. CASE b < gap.next
    <3>1. Noted(b)
      BY <1>1, <2>1, <2>2, <2>3 DEF BackfillInv
    <3> QED
      BY <1>1, <3>1, NotedStays
  <2>4. CASE ~(b < gap.next)
    <3>1. Backfill /\ b = gap.next
      BY <1>2, <1>6, <1>7, <2>1, <2>2, <2>4
    <3>2. BackfillBatch = Pg(gap.next) /\ files' = files \cup {BackfillBatch}
      BY <1>1, <3>1, ToldIs
    <3>3. Pg(b) \in files'
      BY <3>1, <3>2
    <3> QED
      BY <3>3 DEF Noted, Pg
  <2> QED
    BY <2>3, <2>4
<1>8. ASSUME phase' = "backfill", NEW r \in PgsOf(resolved'), NEW b \in Selected,
             gap'.next <= b, b < r.at
      PROVE  Noted(b)'
  <2>0. b \in Int /\ r.at \in Int
    BY <1>1, <1>3
  <2>1. CASE phase # "backfill"
    <3>1. ckpt.bucket < b /\ r \in PgsOf(files \cup resolved)
      BY <1>2, <1>5, <1>8, <2>0, <2>1 DEF PgsOf
    <3>2. Noted(b)
      BY <1>1, <1>8, <3>1 DEF BackfillInv
    <3> QED
      BY <1>1, <3>2, NotedStays
  <2>2. CASE phase = "backfill"
    <3>1. gap.next <= b
      BY <1>2, <1>6, <1>8, <2>0, <2>2
    <3>2. CASE r \in PgsOf(resolved)
      <4>1. Noted(b)
        BY <1>1, <1>8, <2>2, <3>1, <3>2 DEF BackfillInv
      <4> QED
        BY <1>1, <4>1, NotedStays
    <3>3. CASE r \in PgsOf(InBooks)
      <4>1. r.at < gap.next
        BY <1>1, <2>2, <3>3 DEF TurnsInv, Live, PgsOf, Held
      <4> QED
        BY <1>2, <1>8, <2>0, <3>1, <4>1
    <3> QED
      BY <1>8, <3>2, <3>3, PgsFrom
  <2> QED
    BY <2>1, <2>2
<1>9. ASSUME Live', NEW r \in PgsOf(resolved'), NEW s \in PgsOf(Awaited'), r.at \in Selected, s.at \in Selected
      PROVE  r.at < s.at
  <2>0. Live /\ ~Crash
    <3>1. ~Live => Awaited' = {}
      BY <1>1, <1>9, NothingHeld
    <3> QED
      BY <1>9, <3>1 DEF PgsOf, Crash, Live
  <2>1. s \notin resolved'
    BY <1>9, PgsFrom
  <2>2. CASE r \in PgsOf(resolved) /\ s \in PgsOf(Awaited)
    BY <1>1, <1>9, <2>0, <2>2 DEF BackfillInv
  <2>3. CASE r \in PgsOf(resolved) /\ Backfill /\ s = Pg(gap.next) /\ s.at = gap.next
    <3>1. r.at \in Int /\ gap.next \in Selected /\ resolved' = resolved
      BY <1>3, <1>9, <2>0, <2>3, Frames DEF Backfill
    <3>2. r = Pg(r.at)
      BY <1>1, <2>3 DEF OriginInv, PgsOf
    <3>3. r.at # gap.next
      BY <1>9, <2>1, <2>3, <3>2 DEF PgsOf
    <3>4. SUFFICES ASSUME gap.next < r.at PROVE FALSE
      BY <1>2, <2>3, <3>1, <3>3
    <3>5. Noted(gap.next)
      BY <1>1, <1>2, <2>3, <3>1, <3>4 DEF BackfillInv, Backfill
    <3>6. s \in PgsOf(Awaited)
      BY <1>9, <2>1, <2>3, <3>1, <3>5 DEF Noted, PgsOf, Awaited
    <3>7. r.at < gap.next
      BY <1>1, <2>0, <2>3, <3>1, <3>6, <1>9 DEF BackfillInv
    <3> QED
      BY <1>2, <3>1, <3>4, <3>7
  <2>4. CASE Resolve /\ r \in ResolvedNow
    <3>1. ~Backfill
      <4>1. Resolve => UNCHANGED files
        BY DEF Resolve
      <4>2. Resolve => gap' = gap
        BY DEF Resolve, loop
      <4>3. Backfill => gap'.next = gap.next + 1
        BY <1>1 DEF Backfill, Gaps
      <4> QED
        BY <1>2, <2>4, <4>2, <4>3
    <3>2. s \in PgsOf(Awaited) /\ s \notin ResolvedNow
      <4>1. Resolve => resolved' = resolved \cup ResolvedNow
        BY <1>1, ResolvedIs
      <4> QED
        BY <1>9, <2>1, <2>4, <3>1, <4>1, PgsFrom
    <3>3. r \in PgsOf(ResolvedNow)
      BY <1>9, <2>4 DEF PgsOf
    <3> QED
      BY <1>9, <2>4, <3>2, <3>3, PgsInTurn
  <2> QED
    BY <1>9, <2>0, <2>2, <2>3, <2>4, PgsFrom
<1>10. /\ PgsOf(files' \cup resolved') = PgsOf(files \cup resolved)'
       /\ PgsOf(resolved') = PgsOf(resolved)' /\ PgsOf(Awaited') = PgsOf(Awaited)'
  BY DEF PgsOf, Awaited
<1> QED
  BY <1>4, <1>7, <1>8, <1>9, <1>10 DEF BackfillInv

-------------------------------------------------------------------------------
(* The collector at work, between two steps of which neither starts it.        *)
LEMMA Working ==
  ASSUME KeepInv, [Next]_vars, Live', Live, ~ResumeFromHub
  PROVE  /\ \/ IngestNew \/ Backfill \/ WorkerTakes \/ StageNext \/ WriteWindow \/ Resolve
            \/ Quiet /\ lastSeen' = lastSeen
         /\ ~Restart /\ ~Crash /\ phase # "down"
<1>1. ~Crash /\ phase # "down"
  BY DEF Crash, Live
<1>2. ~Restart
  BY DEF Restart, Live
<1>3. Quiet => lastSeen' = lastSeen
  BY DEF Quiet
<1> QED
  BY <1>1, <1>2, <1>3, Flow

LEMMA PlainQueue ==
  ASSUME NEW q \in Seq(Record), PgsOf(Elems(q)) = {}
  PROVE  HubsFirst(q) /\ Climbs(q)
<1>1. ASSUME NEW i \in DOMAIN q PROVE q[i].kind = "hub"
  <2>1. q[i] \in Record /\ q[i] \in Elems(q)
    BY DEF Elems
  <2> QED
    BY <2>1, RecordsAre DEF PgsOf, Kinds
<1> QED
  BY <1>1 DEF HubsFirst, Climbs

LEMMA TurnsAppend ==
  ASSUME NEW q \in Seq(Record), NEW r \in Record, r.kind = "pg", HubsFirst(q), Climbs(q),
         \A x \in PgsOf(Elems(q)) : x.at < r.at
  PROVE  HubsFirst(Append(q, r)) /\ Climbs(Append(q, r))
<1>1. /\ Len(q) \in Nat /\ DOMAIN q = 1..Len(q) /\ DOMAIN Append(q, r) = 1..(Len(q) + 1)
      /\ \A k \in 1..Len(q) : Append(q, r)[k] = q[k]
      /\ Append(q, r)[Len(q) + 1] = r
  OBVIOUS
<1>2. PICK z : z = Append(q, r)
  OBVIOUS
<1>3. /\ DOMAIN z = 1..(Len(q) + 1) /\ \A k \in 1..Len(q) : z[k] = q[k]
      /\ z[Len(q) + 1] = r
  BY <1>1, <1>2
<1>4. ASSUME NEW i \in DOMAIN z, NEW j \in DOMAIN z, i < j
      PROVE  i \in 1..Len(q) /\ (j \in 1..Len(q) \/ z[j] = r)
  BY <1>1, <1>3, <1>4
<1>5. HubsFirst(z)
  <2> SUFFICES ASSUME NEW i \in DOMAIN z, NEW j \in DOMAIN z, i < j, z[j].kind = "hub"
               PROVE  z[i].kind = "hub"
    BY DEF HubsFirst
  <2>1. i \in 1..Len(q) /\ j \in 1..Len(q)
    BY <1>4
  <2> QED
    BY <1>1, <1>3, <2>1 DEF HubsFirst
<1>6. Climbs(z)
  <2> SUFFICES ASSUME NEW i \in DOMAIN z, NEW j \in DOMAIN z, i < j,
                      z[i].kind = "pg", z[j].kind = "pg"
               PROVE  z[i].at < z[j].at
    BY DEF Climbs
  <2>1. i \in 1..Len(q) /\ (j \in 1..Len(q) \/ z[j] = r)
    BY <1>4
  <2>2. CASE j \in 1..Len(q)
    BY <1>1, <1>3, <2>1, <2>2 DEF Climbs
  <2>3. CASE z[j] = r
    <3>1. z[i] \in PgsOf(Elems(q))
      BY <1>1, <1>3, <2>1 DEF PgsOf, Elems
    <3> QED
      BY <2>3, <3>1
  <2> QED
    BY <2>1, <2>2, <2>3
<1> QED
  BY <1>2, <1>5, <1>6

LEMMA TurnsTail ==
  ASSUME NEW q \in Seq(Record), q # <<>>, HubsFirst(q), Climbs(q)
  PROVE  /\ HubsFirst(Tail(q)) /\ Climbs(Tail(q))
         /\ Under({Head(q)}, Elems(Tail(q)))
         /\ Head(q).kind = "pg" => HubsOf(Elems(Tail(q))) = {}
<1>1. /\ DOMAIN q = 1..Len(q) /\ Len(q) \in Nat /\ Len(q) > 0 /\ Head(q) = q[1]
      /\ DOMAIN Tail(q) = 1..(Len(q) - 1)
      /\ \A i \in 1..(Len(q) - 1) : Tail(q)[i] = q[i + 1] /\ i + 1 \in 1..Len(q)
  OBVIOUS
<1>2. PICK z : z = Tail(q)
  OBVIOUS
<1>3. /\ DOMAIN z = 1..(Len(q) - 1)
      /\ \A i \in 1..(Len(q) - 1) : z[i] = q[i + 1] /\ i + 1 \in DOMAIN q /\ 1 < i + 1 /\ 1 \in DOMAIN q
  BY <1>1, <1>2
<1>4. HubsFirst(z)
  <2> SUFFICES ASSUME NEW i \in DOMAIN z, NEW j \in DOMAIN z, i < j, z[j].kind = "hub"
               PROVE  z[i].kind = "hub"
    BY DEF HubsFirst
  <2>1. i + 1 < j + 1 /\ i + 1 \in DOMAIN q /\ j + 1 \in DOMAIN q /\ q[j + 1].kind = "hub"
    BY <1>1, <1>3
  <2>2. q[i + 1].kind = "hub"
    BY <2>1 DEF HubsFirst
  <2> QED
    BY <1>3, <2>2
<1>5. Climbs(z)
  <2> SUFFICES ASSUME NEW i \in DOMAIN z, NEW j \in DOMAIN z, i < j,
                      z[i].kind = "pg", z[j].kind = "pg"
               PROVE  z[i].at < z[j].at
    BY DEF Climbs
  <2>1. i + 1 < j + 1 /\ i + 1 \in DOMAIN q /\ j + 1 \in DOMAIN q
        /\ z[i] = q[i + 1] /\ z[j] = q[j + 1]
    BY <1>1, <1>3
  <2> QED
    BY <2>1 DEF Climbs
<1>6. ASSUME NEW s \in Elems(z) PROVE \E i \in DOMAIN q : s = q[i] /\ 1 < i /\ 1 \in DOMAIN q
  BY <1>3 DEF Elems
<1>7. Under({Head(q)}, Elems(z))
  <2> SUFFICES ASSUME NEW s \in Elems(z), Head(q).kind = "pg", s.kind = "pg" PROVE Head(q).at < s.at
    BY DEF Under, PgsOf
  <2>1. PICK i \in DOMAIN q : s = q[i] /\ 1 < i /\ 1 \in DOMAIN q
    BY <1>6
  <2> QED
    BY <1>1, <2>1 DEF Climbs
<1>8. ASSUME Head(q).kind = "pg" PROVE HubsOf(Elems(z)) = {}
  <2> SUFFICES ASSUME NEW s \in Elems(z), s.kind = "hub" PROVE FALSE
    BY DEF HubsOf
  <2>1. PICK i \in DOMAIN q : s = q[i] /\ 1 < i /\ 1 \in DOMAIN q
    BY <1>6
  <2>2. Head(q).kind = "hub"
    BY <1>1, <2>1 DEF HubsFirst
  <2> QED
    BY <1>8, <2>2
<1> QED
  BY <1>2, <1>4, <1>5, <1>7, <1>8

InTurn(q, t, B) ==
  /\ HubsFirst(q) /\ HubsFirst(t)
  /\ PgsOf(B) # {} => HubsOf(Elems(q) \cup Elems(t)) = {}
  /\ PgsOf(Elems(t)) # {} => HubsOf(Elems(q)) = {}
  /\ Climbs(q) /\ Climbs(t)
  /\ Under(B, Elems(q) \cup Elems(t)) /\ Under(Elems(t), Elems(q))
BackfillsBelow == phase = "backfill" => \A r \in PgsOf(Held) : r.at < gap.next
LEMMA TurnsInvIs ==
  /\ TurnsInv <=> (Live => InTurn(queue, job.todo, InBooks) /\ BackfillsBelow
                           /\ (phase = "gap" => Plain))
  /\ TurnsInv' <=> (Live' => InTurn(queue', job'.todo, InBooks') /\ BackfillsBelow'
                             /\ (phase' = "gap" => Plain'))
<1>1. Unstaged' = Elems(queue') \cup Elems(job'.todo)
  BY DEF Unstaged, Elems
<1>2. /\ HubsFirst(queue') = HubsFirst(queue)' /\ HubsFirst(job'.todo) = HubsFirst(job.todo)'
      /\ Climbs(queue') = Climbs(queue)' /\ Climbs(job'.todo) = Climbs(job.todo)'
  BY DEF HubsFirst, Climbs
<1>3. /\ PgsOf(InBooks') = PgsOf(InBooks)' /\ HubsOf(Unstaged') = HubsOf(Unstaged)'
      /\ PgsOf(Elems(job'.todo)) = PgsOf(Elems(job.todo))'
      /\ HubsOf(Elems(queue')) = HubsOf(Elems(queue))'
  BY DEF PgsOf, HubsOf, Elems
<1>4. /\ Under(InBooks', Unstaged') = Under(InBooks, Unstaged)'
      /\ Under(Elems(job'.todo), Elems(queue')) = Under(Elems(job.todo), Elems(queue))'
  BY DEF Under, PgsOf, Elems
<1>5. TurnsInv <=> (Live => InTurn(queue, job.todo, InBooks) /\ BackfillsBelow
                           /\ (phase = "gap" => Plain))
  BY DEF TurnsInv, InTurn, BackfillsBelow, Unstaged
<1>6. InTurn(queue', job'.todo, InBooks') <=>
        /\ HubsFirst(queue)' /\ HubsFirst(job.todo)'
        /\ PgsOf(InBooks)' # {} => HubsOf(Unstaged)' = {}
        /\ PgsOf(Elems(job.todo))' # {} => HubsOf(Elems(queue))' = {}
        /\ Climbs(queue)' /\ Climbs(job.todo)'
        /\ Under(InBooks, Unstaged)' /\ Under(Elems(job.todo), Elems(queue))'
  BY <1>1, <1>2, <1>3, <1>4 DEF InTurn
<1>7. TurnsInv' <=> (Live' => InTurn(queue', job'.todo, InBooks') /\ BackfillsBelow'
                             /\ (phase' = "gap" => Plain'))
  BY <1>6 DEF TurnsInv, BackfillsBelow
<1> QED
  BY <1>5, <1>7

LEMMA TurnsStage ==
  ASSUME NEW q \in Seq(Record), NEW t \in Seq(Record), NEW B, t # <<>>, InTurn(q, t, B)
  PROVE  InTurn(q, Tail(t), B \cup {Head(t)})
<1>1. /\ HubsFirst(Tail(t)) /\ Climbs(Tail(t)) /\ Under({Head(t)}, Elems(Tail(t)))
      /\ Head(t).kind = "pg" => HubsOf(Elems(Tail(t))) = {}
  BY TurnsTail DEF InTurn
<1>2. Elems(t) = Elems(Tail(t)) \cup {Head(t)}
  BY ElemsAre
<1>3. PICK h, T : h = Head(t) /\ T = Elems(Tail(t))
  OBVIOUS
<1>4. /\ PgsOf(B) # {} => HubsOf(Elems(q) \cup Elems(t)) = {}
      /\ PgsOf(Elems(t)) # {} => HubsOf(Elems(q)) = {}
      /\ Under(B, Elems(q) \cup Elems(t)) /\ Under(Elems(t), Elems(q))
  BY DEF InTurn
<1>5. PgsOf(B \cup {h}) # {} => HubsOf(Elems(q) \cup T) = {}
  BY <1>1, <1>2, <1>3, <1>4 DEF PgsOf, HubsOf
<1>6. PgsOf(T) # {} => HubsOf(Elems(q)) = {}
  BY <1>2, <1>3, <1>4 DEF PgsOf
<1>7. Under(B \cup {h}, Elems(q) \cup T) /\ Under(T, Elems(q))
  BY <1>1, <1>2, <1>3, <1>4 DEF Under, PgsOf
<1> QED
  BY <1>1, <1>3, <1>5, <1>6, <1>7 DEF InTurn

LEMMA TurnsStep ==
  ASSUME MaxStreams = 1, RestartInv, [Next]_vars
  PROVE  TurnsInv'
<1>1. /\ CoverInv /\ KeepInv /\ TypeInv /\ SafeInv /\ JobShape /\ PlaceInv /\ TurnsInv /\ TurnInv
      /\ queue \in Seq(Record) /\ job.todo \in Seq(Record) /\ gap \in Gaps /\ gap.next \in Int
      /\ InRow(books, job)
  BY RestartParts, CoverParts, HeldIs, CursorsAre
<1> SUFFICES ASSUME Live'
             PROVE  InTurn(queue', job'.todo, InBooks') /\ BackfillsBelow' /\ (phase' = "gap" => Plain')
  BY TurnsInvIs
<1>2. CASE ~Live \/ ResumeFromHub
  <2>1. queue' = <<>> /\ job'.todo = <<>> /\ InBooks' = {} /\ phase' = "run"
    BY <1>1, <1>2, NothingHeld
  <2>2. InTurn(<<>>, <<>>, {})
    BY ElemsAre DEF InTurn, HubsFirst, Climbs, Under, HubsOf, PgsOf
  <2> QED
    BY <2>1, <2>2 DEF BackfillsBelow
<1>3. CASE Live /\ ~ResumeFromHub
  <2>1. /\ \/ IngestNew \/ Backfill \/ WorkerTakes \/ StageNext \/ WriteWindow \/ Resolve
           \/ Quiet /\ lastSeen' = lastSeen
        /\ ~Restart /\ ~Crash
    BY <1>1, <1>3, Working
  <2>2. /\ InTurn(queue, job.todo, InBooks) /\ BackfillsBelow /\ (phase = "gap" => Plain)
    BY <1>1, <1>3, TurnsInvIs
  <2>3. InTurn(queue', job'.todo, InBooks')
    <3>1. CASE IngestNew
      <4>1. phase = "run" /\ ~Backfill
        BY <1>1, <3>1, ToldIs DEF Backfill
      <4>2. Plain
        BY <1>1, <4>1 DEF TurnInv, Orderly
      <4>3. Plain'
        BY <1>1, <2>1, <4>1, <4>2, PlainStep
      <4>4. \A r \in Held' : r.kind = "hub"
        BY <4>3 DEF Plain
      <4>5. Held' = HeldOf(queue', job'.todo, Stocked(books'), job'.receipts)
        BY <1>1, HeldIs
      <4>6. InBooks' = Stocked(books')
        BY DEF InBooks, Stocked
      <4>7. PgsOf(Elems(queue')) = {} /\ PgsOf(Elems(job'.todo)) = {} /\ PgsOf(InBooks') = {}
        BY <4>4, <4>5, <4>6 DEF PgsOf, HeldOf
      <4>8. queue' \in Seq(Record) /\ job'.todo \in Seq(Record)
        BY <1>1, <3>1, ToldIs
      <4> QED
        BY <4>7, <4>8, PlainQueue DEF InTurn, Under
    <3>2. CASE Backfill
      <4>1. PICK r : r = BackfillBatch
        OBVIOUS
      <4>2. /\ r \in Record /\ r.kind = "pg" /\ r.at = gap.next /\ queue' = Append(queue, r)
            /\ Elems(queue') = Elems(queue) \cup {r} /\ phase = "backfill"
            /\ job' = job /\ books' = books
        BY <1>1, <3>2, <4>1, ToldIs
      <4>3. \A x \in PgsOf(Elems(queue) \cup Elems(job.todo) \cup InBooks) : x.at < r.at
        BY <2>2, <4>2 DEF BackfillsBelow, Held, PgsOf
      <4>4. \A x \in PgsOf(Elems(queue)) : x.at < r.at
        BY <4>3 DEF PgsOf
      <4>5. HubsFirst(queue') /\ Climbs(queue')
        BY <1>1, <2>2, <4>2, <4>4, TurnsAppend DEF InTurn
      <4>6. InBooks' = InBooks
        BY <4>2 DEF InBooks, Stocked
      <4>7. PgsOf(InBooks) # {} => HubsOf(Elems(queue') \cup Elems(job.todo)) = {}
        BY <2>2, <4>2 DEF InTurn, HubsOf
      <4>8. PgsOf(Elems(job.todo)) # {} => HubsOf(Elems(queue')) = {}
        BY <2>2, <4>2 DEF InTurn, HubsOf
      <4>9. Under(InBooks, Elems(queue') \cup Elems(job.todo)) /\ Under(Elems(job.todo), Elems(queue'))
        BY <2>2, <4>2, <4>3 DEF InTurn, Under, PgsOf
      <4> QED
        BY <2>2, <4>2, <4>5, <4>6, <4>7, <4>8, <4>9 DEF InTurn
    <3>3. CASE WorkerTakes
      <4>1. /\ queue' = <<>> /\ job'.todo = queue /\ job.todo = <<>> /\ books' = books
            /\ Elems(queue') = {} /\ Elems(job.todo) = {}
        BY <1>1, <3>3, TakenIs
      <4>2. InBooks' = InBooks
        BY <4>1 DEF InBooks, Stocked
      <4>3. HubsFirst(queue') /\ Climbs(queue')
        BY <4>1 DEF HubsFirst, Climbs
      <4>4. Elems(queue') \cup Elems(job'.todo) = Elems(queue) \cup Elems(job.todo)
        BY <4>1
      <4>5. HubsOf(Elems(queue')) = {} /\ Under(Elems(job'.todo), Elems(queue'))
        BY <4>1 DEF HubsOf, Under, PgsOf
      <4>6. /\ HubsFirst(job'.todo) /\ Climbs(job'.todo)
            /\ PgsOf(InBooks') # {} => HubsOf(Elems(queue') \cup Elems(job'.todo)) = {}
            /\ Under(InBooks', Elems(queue') \cup Elems(job'.todo))
        BY <2>2, <4>1, <4>2, <4>4 DEF InTurn
      <4> QED
        BY <4>3, <4>5, <4>6 DEF InTurn
    <3>4. CASE StageNext
      <4>1. /\ job.todo # <<>> /\ job'.todo = Tail(job.todo) /\ queue' = queue
            /\ InBooks' = InBooks \cup {Head(job.todo)}
        BY <1>1, <3>4, StagedIs
      <4> QED
        BY <1>1, <2>2, <4>1, TurnsStage
    <3>5. CASE WriteWindow
      <4>1. PICK w : w = Min(job.windows)
        OBVIOUS
      <4>2. queue' = queue /\ job'.todo = job.todo /\ InBooks' = InBooks
        BY <1>1, <3>5, <4>1, WrittenIs
      <4> QED
        BY <2>2, <4>2
    <3>6. CASE Resolve
      <4>1. queue' = queue /\ job'.todo = job.todo /\ InBooks' \subseteq InBooks
        BY <1>1, <3>6, ResolvedIs
      <4>2. PgsOf(InBooks') \subseteq PgsOf(InBooks)
        BY <4>1 DEF PgsOf
      <4> QED
        BY <2>2, <4>1, <4>2 DEF InTurn, Under
    <3>7. CASE Quiet
      <4>1. queue' = queue /\ job'.todo = job.todo /\ books' = books
        BY <3>7 DEF Quiet
      <4>2. InBooks' = InBooks
        BY <4>1 DEF InBooks, Stocked
      <4> QED
        BY <2>2, <4>1, <4>2
    <3> QED
      BY <2>1, <3>1, <3>2, <3>3, <3>4, <3>5, <3>6, <3>7
  <2>4. phase' = "gap" => Plain'
    <3>1. ASSUME phase' = "gap" PROVE phase = "gap" \/ ReplayUnavailable
      <4>1. IngestPaused \/ PlanBackfill \/ Backfilled \/ ResumeFromHub \/ GivesUp \/ Signaled
              => phase' # "gap"
        BY DEF IngestPaused, PlanBackfill, Backfilled, ResumeFromHub, GivesUp, Signaled, Stop
      <4>2. SaveCheckpoint /\ job.all => phase' # "gap"
        <5>1. job.all => phase \in Flushing
          BY <1>1, TypeInvIs DEF FlushTyped
        <5> QED
          BY <5>1 DEF SaveCheckpoint, AfterFlush, Flushing
      <4> QED
        BY <2>1, <3>1, <4>1, <4>2, PhaseFrom
    <3>2. ReplayUnavailable => Plain
      BY <1>1 DEF TurnInv, Orderly, ReplayUnavailable
    <3>3. phase = "gap" \/ ReplayUnavailable => ~Backfill
      BY DEF ReplayUnavailable, Backfill
    <3> QED
      BY <1>1, <2>1, <2>2, <3>1, <3>2, <3>3, PlainStep
  <2>5. BackfillsBelow'
    <3> SUFFICES ASSUME phase' = "backfill", NEW r \in PgsOf(Held') PROVE r.at < gap'.next
      BY DEF BackfillsBelow, PgsOf
    <3>1. CASE phase # "backfill"
      <4>1. PlanBackfill
        BY <1>1, <3>1, PhaseIs
      <4>2. phase = "gap" /\ ~Backfill /\ ~IngestNew
        BY <4>1 DEF PlanBackfill, Backfill, IngestNew, Delivered
      <4>3. Plain'
        BY <1>1, <2>1, <2>2, <4>2, PlainStep
      <4> QED
        BY <4>3 DEF Plain, PgsOf
    <3>2. CASE phase = "backfill"
      <4>1. gap' = gap \/ Backfill
        BY <1>1, <3>2, GapFrom DEF ReplayUnavailable, PlanBackfill
      <4>2. Backfill => gap'.next = gap.next + 1
        BY <1>1 DEF Backfill, Gaps
      <4>3. ~IngestNew
        BY <3>2 DEF IngestNew, Delivered
      <4>4. r \in Held \/ (Backfill /\ r = BackfillBatch)
        BY <1>1, <2>1, <4>3, HeldFrom DEF PgsOf
      <4>5. r \in Held => r.at < gap.next /\ r.at \in Int
        <5>1. r \in Held => r \in Record
          BY <1>1, HeldIs, ElemsAre, TypeInvIs, BooksAre DEF Held, InBooks, Stocked, Jobs, Staging, GoodBooks
        <5>2. r \in Record => r.at \in Int
          BY BucketsAre, RecordsAre
        <5> QED
          BY <2>2, <3>2, <5>1, <5>2 DEF BackfillsBelow, PgsOf
      <4>6. Backfill => BackfillBatch.at = gap.next
        BY <1>1, ToldIs
      <4>7. r \in Held => r.at < gap'.next
        <5>1. r \in Held /\ gap' = gap => r.at < gap'.next
          BY <4>5
        <5>2. r \in Held /\ Backfill => r.at < gap'.next
          BY <1>1, <4>2, <4>5
        <5> QED
          BY <4>1, <5>1, <5>2
      <4> QED
        BY <1>1, <4>2, <4>4, <4>6, <4>7
    <3> QED
      BY <3>1, <3>2
  <2> QED
    BY <2>3, <2>4, <2>5
<1> QED
  BY <1>2, <1>3

LEMMA WorkFrames ==
  ASSUME RestartInv, [Next]_vars, Live', Live, ~ResumeFromHub
  PROVE  /\ ~IngestNew => /\ lastSeen' = lastSeen
                          /\ HubsOf(Unstaged') \subseteq HubsOf(Unstaged)
                          /\ HubsOf(Awaited') \subseteq HubsOf(Awaited)
         /\ ~IngestNew /\ ~StageNext => HubsOf(Unstaged') = HubsOf(Unstaged)
         /\ ~IngestNew /\ ~Resolve => HubsOf(Awaited') = HubsOf(Awaited)
         /\ ~WriteWindow /\ ~Resolve => KeysNow' = KeysNow
         /\ ~StageNext /\ ~WriteWindow /\ ~Resolve => books' = books
         /\ ~WriteWindow => archive' = archive
         /\ ~Resolve => resolved' = resolved
         /\ IngestNew => ~StageNext /\ ~WriteWindow /\ ~Resolve
<1>1. /\ KeepInv /\ TypeInv /\ SafeInv /\ JobShape /\ InRow(books, job)
  BY RestartParts
<1>2. /\ \/ IngestNew \/ Backfill \/ WorkerTakes \/ StageNext \/ WriteWindow \/ Resolve
         \/ Quiet /\ lastSeen' = lastSeen
      /\ ~Restart /\ ~Crash
  BY <1>1, Working
<1>3. /\ ~StageNext /\ ~WriteWindow /\ ~Resolve => books' = books
      /\ ~WriteWindow => archive' = archive
      /\ ~Resolve => resolved' = resolved
  BY <1>2, Frames
<1>4. IngestNew => ~StageNext /\ ~WriteWindow /\ ~Resolve
  <2>1. IngestNew => job' = job
    BY <1>1, ToldIs
  <2>2. StageNext => books' = Stage(books, Head(job.todo), archive) /\ lastSeen' = lastSeen /\ queue' = queue
    BY DEF StageNext, ingest
  <2>3. WriteWindow \/ Resolve => queue' = queue
    BY DEF WriteWindow, Resolve, ingest
  <2>4. IngestNew => Len(queue') = Len(queue) + 1 /\ Len(queue) \in Nat
    <3>1. IngestNew => queue' = Append(queue, ArrivedRecord) /\ ArrivedRecord \in Record
      BY <1>1, ToldIs
    <3>2. queue \in Seq(Record)
      BY <1>1, HeldIs
    <3> QED
      BY <3>1, <3>2
  <2> QED
    BY <2>2, <2>3, <2>4
<1>5. ASSUME Backfill
      PROVE  /\ lastSeen' = lastSeen /\ HubsOf(Unstaged') = HubsOf(Unstaged)
             /\ HubsOf(Awaited') = HubsOf(Awaited) /\ KeysNow' = KeysNow
  <2>1. /\ BackfillBatch.kind = "pg" /\ Unstaged' = Unstaged \cup {BackfillBatch}
        /\ files' = files \cup {BackfillBatch} /\ resolved' = resolved
        /\ lastSeen' = lastSeen /\ KeysNow' = KeysNow
    BY <1>1, <1>5, ToldIs
  <2>2. Awaited' = (files \cup {BackfillBatch}) \ resolved
    BY <2>1 DEF Awaited
  <2> QED
    BY <2>1, <2>2 DEF HubsOf, Awaited
<1>6. ASSUME WorkerTakes
      PROVE  /\ lastSeen' = lastSeen /\ Unstaged' = Unstaged /\ Awaited' = Awaited /\ KeysNow' = KeysNow
  BY <1>1, <1>6, TakenIs DEF Awaited
<1>7. ASSUME StageNext
      PROVE  /\ lastSeen' = lastSeen /\ Unstaged' \subseteq Unstaged /\ Awaited' = Awaited
             /\ KeysNow' = KeysNow
  BY <1>1, <1>7, StagedIs DEF Awaited
<1>8. ASSUME WriteWindow
      PROVE  /\ lastSeen' = lastSeen /\ Unstaged' = Unstaged /\ Awaited' = Awaited
  <2>1. PICK w : w = Min(job.windows)
    OBVIOUS
  <2> QED
    BY <1>1, <1>8, <2>1, WrittenIs DEF Awaited
<1>9. ASSUME Resolve
      PROVE  /\ lastSeen' = lastSeen /\ Unstaged' = Unstaged /\ Awaited' \subseteq Awaited
  BY <1>1, <1>9, ResolvedIs
<1>10. ASSUME Quiet
       PROVE  Unstaged' = Unstaged /\ Awaited' = Awaited /\ KeysNow' = KeysNow
  <2>1. Unstaged' = Elems(queue') \cup Elems(job'.todo)
    BY DEF Unstaged, Elems
  <2> QED
    BY <1>10, <2>1 DEF Quiet, Unstaged
<1>11. ASSUME IngestNew PROVE KeysNow' = KeysNow
  BY <1>1, <1>11, ToldIs
<1>12. /\ Unstaged' \subseteq Unstaged => HubsOf(Unstaged') \subseteq HubsOf(Unstaged)
       /\ Awaited' \subseteq Awaited => HubsOf(Awaited') \subseteq HubsOf(Awaited)
       /\ Unstaged' = Unstaged => HubsOf(Unstaged') = HubsOf(Unstaged)
       /\ Awaited' = Awaited => HubsOf(Awaited') = HubsOf(Awaited)
  BY DEF HubsOf
<1>13. CASE IngestNew
  BY <1>3, <1>4, <1>11, <1>13
<1>14. CASE Backfill /\ ~IngestNew
  BY <1>3, <1>5, <1>14
<1>15. CASE WorkerTakes /\ ~IngestNew
  BY <1>3, <1>6, <1>12, <1>15
<1>16. CASE StageNext /\ ~IngestNew
  BY <1>3, <1>7, <1>12, <1>16
<1>17. CASE WriteWindow /\ ~IngestNew
  BY <1>3, <1>8, <1>12, <1>17
<1>18. CASE Resolve /\ ~IngestNew
  BY <1>3, <1>9, <1>12, <1>18
<1>19. CASE Quiet /\ lastSeen' = lastSeen /\ ~IngestNew
  BY <1>3, <1>10, <1>12, <1>19
<1> QED
  BY <1>2, <1>13, <1>14, <1>15, <1>16, <1>17, <1>18, <1>19

(* What arrives new, and came before, is done.                                 *)
LEMMA Arrives ==
  ASSUME MaxStreams = 1, RestartInv, IngestNew
  PROVE  /\ ArrivedRecord = Rec(link) /\ link \in Sequences /\ link \in Int /\ lastSeen \in Int
         /\ ArrivedRecord.kind = "hub" /\ ArrivedRecord.seq = link
         /\ ArrivedRecord.rows = Rows(hub.log[link])
         /\ lastSeen < link /\ lastSeen' = link
         /\ \A r \in HubsOf(pend \cup Held) : r.seq \in Int /\ r.seq < link /\ link = lastSeen + 1
         /\ \A s \in HubsOf(accepted) : link <= s.seq => Rec(link) \in resolved
         /\ Plain /\ Safe = Archived /\ Good(link)
<1>1. /\ CoverInv /\ KeepInv /\ TypeInv /\ SafeInv /\ PlaceInv /\ BehindInv /\ OriginInv
      /\ TurnInv /\ HighInv /\ CursorFloor /\ WantedInv
  BY RestartParts, CoverParts, KeepParts, CursorInvIs
<1>2. /\ ArrivedRecord = Rec(link) /\ link \in Sequences /\ link \in Int /\ phase = "run"
      /\ lastSeen' = link
  BY <1>1, AcceptIs
<1>3. Delivered /\ IsNew /\ InSequence
  BY DEF IngestNew
<1>4. /\ Rec(link).kind = "hub" /\ Rec(link).seq = link /\ Rec(link).rows = Rows(hub.log[link])
      /\ link >= 1
  BY <1>1, <1>2, RecIs
<1>5. lastSeen < link /\ lastSeen \in Int
  BY <1>1, <1>2, <1>3, <1>4, CursorsAre DEF IsNew, NoSeq
<1>6. ASSUME NEW r \in HubsOf(pend \cup Held) PROVE r.seq \in Int /\ r.seq < link /\ link = lastSeen + 1
  <2>1. r.seq \in Sequences /\ r.seq <= lastSeen
    BY <1>1 DEF PlaceInv, HubsOf
  <2>2. r.seq \in Int /\ r.seq >= 1
    BY <1>1, <2>1, LogIs DEF Sequences
  <2>3. lastSeen # NoSeq
    BY <1>5, <2>1, <2>2 DEF NoSeq
  <2> QED
    BY <1>2, <1>3, <1>5, <2>1, <2>2, <2>3 DEF InSequence
<1>7. ASSUME Settled(Rec(link)) PROVE Rec(link) \in resolved
  <2>1. link > cur.mat /\ link > cur.high
    BY <1>1, <1>3, FreshArrives
  <2>2. manifest.high <= cur.high /\ ckpt.mat <= cur.mat
    BY <1>1, <1>2 DEF HighInv, CursorFloor
  <2>3. cur.mat \in Int /\ cur.high \in Int /\ manifest.high \in Int /\ ckpt.mat \in Int
    BY <1>1, CursorsAre
  <2>4. Rec(link) \in files \cup resolved
    BY <1>2, <1>4, <1>7, <2>1, <2>2, <2>3 DEF Settled
  <2>5. Rec(link) \in files \ resolved => Rec(link) \in HubsOf(pend \cup Held)
    BY <1>1, <1>4 DEF PlaceInv, HubsOf
  <2> QED
    BY <1>2, <1>4, <1>6, <2>4, <2>5
<1>8. Wanted(link)
  BY <1>2, <1>4 DEF Wanted
<1>9. ASSUME NEW s \in HubsOf(accepted), link <= s.seq PROVE Rec(link) \in resolved
  <2>1. s.seq \in Sequences /\ s = Rec(s.seq) /\ Settled(s) /\ s.seq \in Int
    BY <1>1, LogIs DEF OriginInv, Sequences
  <2>2. CASE s.seq = link
    BY <1>7, <2>1, <2>2
  <2>3. CASE link < s.seq
    <3>1. PICK n \in Sequences : n = link
      BY <1>2
    <3>2. Settled(Rec(n))
      BY <1>1, <1>8, <2>3, <3>1 DEF BehindInv
    <3> QED
      BY <1>7, <3>1, <3>2
  <2> QED
    BY <1>2, <1>9, <2>1, <2>2, <2>3
<1>10. Plain
  BY <1>1, <1>2 DEF TurnInv, Orderly
<1>11. Safe = Archived
  <2>1. \A r \in files \ resolved : r.kind # "pg"
    BY <1>1, <1>2, <1>10 DEF PlaceInv, Plain
  <2> QED
    BY <2>1 DEF Safe, Archived
<1>12. Good(link)
  BY <1>1, <1>2, <1>8 DEF WantedInv
<1> QED
  BY <1>2, <1>4, <1>5, <1>6, <1>9, <1>10, <1>11, <1>12

LEMMA ComingStep ==
  ASSUME MaxStreams = 1, RestartInv, [Next]_vars
  PROVE  ComingInv'
<1>1. /\ CoverInv /\ KeepInv /\ TypeInv /\ SafeInv /\ JobShape /\ PlaceInv /\ OrderInv /\ ComingInv
      /\ queue \in Seq(Record) /\ job.todo \in Seq(Record)
  BY RestartParts, KeepParts, HeldIs
<1>2. HubsOf(Unstaged') = HubsOf(Unstaged)' /\ Seqs(Unstaged') = Seqs(Unstaged)'
  BY DEF HubsOf, Seqs
<1> SUFFICES ASSUME Live', NEW r \in HubsOf(Unstaged'), NEW k \in Int, r.seq <= k, k <= lastSeen'
             PROVE  k \in Seqs(Unstaged')
  BY <1>2 DEF ComingInv, ToLast
<1>3. CASE ~Live \/ ResumeFromHub
  <2>1. Unstaged' = {}
    BY <1>1, <1>3, NothingHeld
  <2> QED
    BY <2>1 DEF HubsOf
<1>4. CASE Live /\ ~ResumeFromHub
  <2>1. CASE IngestNew
    <3>1. /\ Unstaged' = Unstaged \cup {ArrivedRecord}
          /\ ArrivedRecord.kind = "hub" /\ ArrivedRecord.seq = link /\ lastSeen' = link
          /\ link \in Int /\ lastSeen \in Int
          /\ \A x \in HubsOf(pend \cup Held) : x.seq < link /\ link = lastSeen + 1
      BY <1>1, <2>1, ToldIs, Arrives
    <3>2. CASE k = link
      <4>1. ArrivedRecord \in HubsOf(Unstaged') /\ ArrivedRecord.seq = k
        BY <3>1, <3>2 DEF HubsOf
      <4> QED
        BY <4>1 DEF Seqs
    <3>3. CASE k # link
      <4>1. k < link
        BY <3>1, <3>3
      <4>2. r # ArrivedRecord
        BY <3>1, <4>1
      <4>3. r \in HubsOf(Unstaged)
        BY <3>1, <4>2 DEF HubsOf
      <4>4. r \in HubsOf(pend \cup Held)
        BY <4>3 DEF HubsOf, Held, Unstaged
      <4>5. k <= lastSeen
        BY <3>1, <4>1, <4>4
      <4>6. k \in Seqs(Unstaged)
        BY <1>1, <1>4, <4>3, <4>5 DEF ComingInv, ToLast
      <4> QED
        BY <3>1, <4>6 DEF Seqs, HubsOf
    <3> QED
      BY <3>2, <3>3
  <2>2. CASE ~IngestNew
    <3>1. lastSeen' = lastSeen /\ r \in HubsOf(Unstaged)
      BY <1>4, <2>2, WorkFrames
    <3>2. k \in Seqs(Unstaged)
      BY <1>1, <1>4, <3>1 DEF ComingInv, ToLast
    <3>3. CASE StageNext
      <4>1. PICK h : h = Head(job.todo)
        OBVIOUS
      <4>2. /\ job.todo # <<>> /\ job'.todo = Tail(job.todo) /\ queue' = queue
            /\ Unstaged = Unstaged' \cup {h} /\ h \in Elems(job.todo)
        BY <1>1, <3>3, <4>1, StagedIs
      <4>3. PICK x \in HubsOf(Unstaged) : x.seq = k
        BY <3>2 DEF Seqs
      <4>4. x \in Unstaged' => k \in Seqs(Unstaged')
        BY <4>3 DEF Seqs, HubsOf
      <4>5. ASSUME x = h PROVE FALSE
        <5>1. Before({h}, Elems(Tail(job.todo))) /\ Before(Elems(job.todo), Elems(queue))
          BY <1>1, <4>1, <4>2, RisingTail DEF OrderInv
        <5>2. Unstaged' = Elems(queue') \cup Elems(job'.todo)
          BY DEF Unstaged, Elems
        <5>3. r \in Elems(queue) \/ r \in Elems(Tail(job.todo))
          BY <4>2, <5>2 DEF HubsOf
        <5>4. h.kind = "hub" /\ r.kind = "hub"
          BY <4>3, <4>5 DEF HubsOf
        <5>5. h.seq < r.seq
          BY <4>2, <5>1, <5>3, <5>4 DEF Before, HubsOf
        <5>6. h.seq \in Int /\ r.seq \in Int
          <6>1. h \in HubsOf(pend \cup Held) /\ r \in HubsOf(pend \cup Held)
            BY <3>1, <4>3, <4>5 DEF HubsOf, Held, Unstaged
          <6> QED
            BY <1>1, <6>1, LogIs DEF PlaceInv, HubsOf
        <5> QED
          BY <4>3, <4>5, <5>5, <5>6
      <4> QED
        BY <4>2, <4>3, <4>4, <4>5 DEF HubsOf
    <3>4. CASE ~StageNext
      <4>1. HubsOf(Unstaged') = HubsOf(Unstaged)
        BY <1>4, <2>2, <3>4, WorkFrames
      <4> QED
        BY <3>2, <4>1 DEF Seqs
    <3> QED
      BY <3>3, <3>4
  <2> QED
    BY <2>1, <2>2
<1> QED
  BY <1>3, <1>4

LEMMA AgainStep ==
  ASSUME MaxStreams = 1, RestartInv, [Next]_vars
  PROVE  AgainInv'
<1>1. /\ CoverInv /\ KeepInv /\ TypeInv /\ SafeInv /\ JobShape /\ PlaceInv /\ OrderInv /\ AgainInv
      /\ OriginInv
  BY RestartParts, KeepParts
<1>2. HubsOf(Awaited') = HubsOf(Awaited)' /\ HubsOf(resolved') = HubsOf(resolved)'
  BY DEF HubsOf, Awaited
<1> SUFFICES ASSUME Live', NEW r \in HubsOf(Awaited'), NEW s \in HubsOf(resolved'), r.seq < s.seq
             PROVE  s.seq <= lastSeen' /\ s \notin Unstaged'
  BY <1>2 DEF AgainInv
<1>3. CASE ~Live \/ ResumeFromHub
  <2>1. Awaited' = {}
    BY <1>1, <1>3, NothingHeld
  <2> QED
    BY <2>1 DEF HubsOf
<1>4. CASE Live /\ ~ResumeFromHub
  <2>1. CASE IngestNew
    <3>1. /\ Unstaged' = Unstaged \cup {ArrivedRecord} /\ files' = files \cup {ArrivedRecord}
          /\ ArrivedRecord.kind = "hub" /\ ArrivedRecord.seq = link /\ lastSeen' = link
          /\ ArrivedRecord = Rec(link)
          /\ link \in Int /\ lastSeen \in Int /\ lastSeen < link /\ resolved' = resolved
          /\ \A x \in HubsOf(accepted) : link <= x.seq => Rec(link) \in resolved
      BY <1>1, <2>1, ToldIs, Arrives
    <3>2. s \in HubsOf(accepted) /\ s \in HubsOf(resolved) /\ s.seq \in Int
      <4>1. s \in HubsOf(accepted) /\ s \in HubsOf(resolved)
        BY <1>1, <3>1 DEF OriginInv, HubsOf
      <4>2. s.seq \in Sequences
        BY <1>1, <4>1 DEF OriginInv
      <4> QED
        BY <1>1, <4>1, <4>2, LogIs
    <3>3. r \in files' /\ r \notin resolved /\ r.kind = "hub"
      BY <3>1 DEF HubsOf, Awaited
    <3>4. r # ArrivedRecord
      <4> SUFFICES ASSUME r = ArrivedRecord PROVE FALSE
        OBVIOUS
      <4>1. link <= s.seq
        BY <3>1, <3>2
      <4> QED
        BY <3>1, <3>2, <3>3, <4>1
    <3>5. r \in HubsOf(Awaited)
      BY <3>1, <3>3, <3>4 DEF HubsOf, Awaited
    <3>6. s.seq <= lastSeen /\ s \notin Unstaged
      BY <1>1, <1>4, <3>2, <3>5 DEF AgainInv
    <3> QED
      BY <3>1, <3>2, <3>6
  <2>2. CASE ~IngestNew
    <3>1. /\ lastSeen' = lastSeen /\ r \in HubsOf(Awaited)
          /\ HubsOf(Unstaged') \subseteq HubsOf(Unstaged)
      BY <1>4, <2>2, WorkFrames
    <3>2. s \in Unstaged' => s \in Unstaged
      BY <3>1 DEF HubsOf
    <3>3. CASE s \in resolved
      <4>1. s.seq <= lastSeen /\ s \notin Unstaged
        BY <1>1, <1>4, <3>1, <3>3 DEF AgainInv, HubsOf
      <4> QED
        BY <3>1, <3>2, <4>1
    <3>4. CASE s \notin resolved
      <4>1. Resolve
        BY <1>4, <3>4, Frames DEF HubsOf, Crash, Live
      <4>2. s \in InBooks
        BY <1>1, <3>4, <4>1, ResolvedIs DEF HubsOf
      <4>3. s \in HubsOf(pend \cup Held)
        BY <4>2 DEF HubsOf, Held
      <4>4. s.seq <= lastSeen /\ s.seq \in Int
        <5>1. s.seq \in Sequences /\ s.seq <= lastSeen
          BY <1>1, <4>3 DEF PlaceInv, HubsOf
        <5> QED
          BY <1>1, <5>1, LogIs
      <4>5. Before(InBooks, Unstaged)
        BY <1>1 DEF OrderInv, Before, HubsOf, Unstaged
      <4>6. s \notin Unstaged
        BY <4>2, <4>4, <4>5 DEF Before, HubsOf
      <4> QED
        BY <3>1, <3>2, <4>4, <4>6
    <3> QED
      BY <3>3, <3>4
  <2> QED
    BY <2>1, <2>2
<1> QED
  BY <1>3, <1>4

LEMMA RowsClimb ==
  ASSUME KeepInv, OriginInv, NEW r \in HubsOf(accepted), NEW s \in HubsOf(accepted),
         NEW c \in r.rows, NEW d \in s.rows
  PROVE  /\ r.seq \in Int /\ s.seq \in Int /\ c \in Int /\ d \in Int
         /\ c \in Buckets /\ d \in Buckets
         /\ r.seq < s.seq => c < d
<1>1. TypeInv
  BY KeepParts
<1>2. r.seq \in Sequences /\ s.seq \in Sequences /\ r = Rec(r.seq) /\ s = Rec(s.seq)
  BY DEF OriginInv
<1>3. PICK m \in Sequences : m = r.seq /\ r = Rec(m)
  BY <1>2
<1>4. PICK n \in Sequences : n = s.seq /\ s = Rec(n)
  BY <1>2
<1>5. /\ m \in Nat /\ n \in Nat /\ r.rows = Rows(hub.log[m]) /\ s.rows = Rows(hub.log[n])
  BY <1>1, <1>3, <1>4, RecIs
<1>6. c \in Buckets /\ d \in Buckets
  BY <1>1, <1>5, LogIs
<1>7. m < n => c < d
  BY <1>5, RowsInOrder
<1> QED
  BY <1>3, <1>4, <1>5, <1>6, <1>7, BucketsAre

LEMMA AheadOfOpenStep ==
  ASSUME MaxStreams = 1, RestartInv, [Next]_vars
  PROVE  AheadOfOpen'
<1>1. /\ CoverInv /\ KeepInv /\ TypeInv /\ SafeInv /\ JobShape /\ PlaceInv /\ OrderInv
      /\ OriginInv /\ HubRowInv /\ AheadOfOpen /\ TurnsInv' /\ InRow(books, job)
      /\ job.todo \in Seq(Record) /\ books \in GoodBooks
  BY RestartParts, KeepParts, HeldIs, TurnsStep
<1>2. HubsOf(Unstaged') = HubsOf(Unstaged)'
  BY DEF HubsOf
<1> SUFFICES ASSUME Live', NEW r \in HubsOf(Unstaged'), NEW d \in r.rows, NEW c \in Buckets,
                    RowOpen(c)'
             PROVE  c \in Archived' \/ c < d
  BY <1>2 DEF AheadOfOpen
<1>3. CASE ~Live \/ ResumeFromHub
  <2>1. Unstaged' = {}
    BY <1>1, <1>3, NothingHeld
  <2> QED
    BY <2>1 DEF HubsOf
<1>4. CASE Live /\ ~ResumeFromHub
  <2>0. Archived \subseteq Archived'
    BY <1>1, SafeGrows
  <2>1. CASE IngestNew
    <3>1. /\ Unstaged' = Unstaged \cup {ArrivedRecord} /\ books' = books
          /\ ArrivedRecord.kind = "hub" /\ ArrivedRecord.seq = link
          /\ ArrivedRecord = Rec(link) /\ link \in Sequences
          /\ ArrivedRecord.rows = Rows(hub.log[link])
          /\ link \in Int /\ lastSeen \in Int /\ lastSeen < link /\ Safe = Archived
      BY <1>1, <2>1, ToldIs, Arrives
    <3>2. RowOpen(c)
      BY <3>1 DEF RowOpen
    <3>3. CASE r = ArrivedRecord
      <4>1. CASE books.rows[c] = "pg"
        <5>1. c \in Safe
          BY <1>1, <3>2, <4>1 DEF SafeInv, BooksSafe, OpenSafe, RowOpen
        <5> QED
          BY <2>0, <3>1, <5>1
      <4>2. CASE books.rows[c] = "hub"
        <5>1. c \in Archived \/ \E x \in HubsOf(accepted) : x.seq <= lastSeen /\ c \in x.rows
          BY <1>1, <3>2, <4>2 DEF HubRowInv, RowOpen
        <5>2. ASSUME NEW x \in HubsOf(accepted), x.seq <= lastSeen, c \in x.rows PROVE c < d
          <6>1. x.seq \in Sequences /\ x = Rec(x.seq)
            BY <1>1 DEF OriginInv
          <6>2. PICK m \in Sequences : m = x.seq /\ x = Rec(m)
            BY <6>1
          <6>3. m \in Int /\ x.rows = Rows(hub.log[m])
            BY <1>1, <6>2, RecIs
          <6>4. m < link
            BY <3>1, <5>2, <6>2, <6>3
          <6>5. c \in Rows(hub.log[m]) /\ d \in Rows(hub.log[link])
            BY <3>1, <3>3, <5>2, <6>3
          <6> QED
            BY <1>1, <3>1, <6>4, <6>5, RowsInOrder
        <5> QED
          BY <2>0, <5>1, <5>2
      <4>3. books.rows[c] \in Version
        BY <1>1, BooksAre DEF GoodBooks
      <4> QED
        BY <3>2, <4>1, <4>2, <4>3 DEF RowOpen, Version, Kinds
    <3>4. CASE r # ArrivedRecord
      <4>1. r \in HubsOf(Unstaged)
        BY <3>1, <3>4 DEF HubsOf
      <4> QED
        BY <1>1, <1>4, <2>0, <3>2, <4>1 DEF AheadOfOpen
    <3> QED
      BY <3>3, <3>4
  <2>2. CASE ~IngestNew
    <3>1. r \in HubsOf(Unstaged)
      BY <1>4, <2>2, WorkFrames
    <3>2. CASE RowOpen(c)
      BY <1>1, <1>4, <2>0, <3>1, <3>2 DEF AheadOfOpen
    <3>3. CASE ~RowOpen(c) /\ StageNext
      <4>1. PICK h : h = Head(job.todo)
        OBVIOUS
      <4>2. /\ job.todo # <<>> /\ job'.todo = Tail(job.todo) /\ queue' = queue
            /\ StagedAs(books', books, h, archive) /\ h \in Record
            /\ Unstaged = Unstaged' \cup {h} /\ h \in Elems(job.todo)
            /\ InBooks' = InBooks \cup {h} /\ archive \in [Buckets -> Version]
        BY <1>1, <3>3, <4>1, StagedIs
      <4>3. CASE c \in Won(books, h, archive)
        <5>1. c \in h.rows
          BY <4>3 DEF Won
        <5>2. h.kind # "pg"
          <6>1. PgsOf(InBooks)' = PgsOf(InBooks') /\ HubsOf(Unstaged') = HubsOf(Unstaged)'
            BY DEF PgsOf, HubsOf
          <6>2. HubsOf(Unstaged') # {}
            OBVIOUS
          <6>3. PgsOf(InBooks') = {}
            BY <1>1, <6>1, <6>2 DEF TurnsInv
          <6> QED
            BY <4>2, <6>3 DEF PgsOf
        <5>3. h.kind = "hub" /\ r.kind = "hub"
          BY <4>2, <5>2, RecordsAre DEF Kinds, HubsOf
        <5>4. h.seq < r.seq
          <6>1. Before({h}, Elems(Tail(job.todo))) /\ Before(Elems(job.todo), Elems(queue))
            BY <1>1, <4>1, <4>2, RisingTail DEF OrderInv
          <6>2. Unstaged' = Elems(queue') \cup Elems(job'.todo)
            BY DEF Unstaged, Elems
          <6>3. r \in Elems(queue) \/ r \in Elems(Tail(job.todo))
            BY <4>2, <6>2 DEF HubsOf
          <6> QED
            BY <4>2, <5>3, <6>1, <6>3 DEF Before, HubsOf
        <5>5. h \in HubsOf(accepted) /\ r \in HubsOf(accepted)
          BY <1>1, <3>1, <4>2, <5>3 DEF OriginInv, HubsOf, Held, Unstaged
        <5> QED
          BY <1>1, <5>1, <5>4, <5>5, RowsClimb
      <4>4. CASE c \notin Won(books, h, archive)
        <5>1. Known(books, h, archive)[c] # "none"
          BY <4>2, <4>4 DEF StagedAs, RowOpen
        <5>2. archive[c] # "none"
          BY <3>3, <5>1 DEF Known, RowOpen
        <5> QED
          BY <2>0, <5>2 DEF Archived
      <4> QED
        BY <4>3, <4>4
    <3>4. CASE ~RowOpen(c) /\ WriteWindow
      <4>1. PICK w : w = Min(job.windows)
        OBVIOUS
      <4>2. /\ books'.open = books.open \ {w}
            /\ \A b \in Buckets : books'.rows[b] = IF Window(b) = w THEN "none" ELSE books.rows[b]
        BY <1>1, <3>4, <4>1, WrittenIs
      <4>3. Window(c) \in books.open \ {w} /\ books'.rows[c] # "none"
        BY <4>2 DEF RowOpen
      <4>4. books'.rows[c] = books.rows[c]
        BY <4>2, <4>3
      <4> QED
        BY <3>4, <4>3, <4>4 DEF RowOpen
    <3>5. CASE ~RowOpen(c) /\ Resolve
      <4>1. books'.rows = books.rows /\ books'.open = books.open
        BY <1>1, <3>5, ResolvedIs
      <4> QED
        BY <3>5, <4>1 DEF RowOpen
    <3>6. CASE ~RowOpen(c) /\ ~StageNext /\ ~WriteWindow /\ ~Resolve
      <4>1. books' = books
        BY <1>4, <3>6, WorkFrames
      <4> QED
        BY <3>6, <4>1 DEF RowOpen
    <3> QED
      BY <3>2, <3>3, <3>4, <3>5, <3>6
  <2> QED
    BY <2>1, <2>2
<1> QED
  BY <1>3, <1>4

LEMMA AheadOfFilesStep ==
  ASSUME MaxStreams = 1, RestartInv, [Next]_vars
  PROVE  AheadOfFiles'
<1>1. /\ CoverInv /\ KeepInv /\ TypeInv /\ SafeInv /\ JobShape /\ OriginInv /\ HubRowInv
      /\ AheadOfOpen /\ AheadOfFiles /\ InRow(books, job) /\ ImproveInv
      /\ archive \in [Buckets -> Version]
  BY RestartParts, HeldIs DEF SafeInv
<1>2. HubsOf(Unstaged') = HubsOf(Unstaged)'
  BY DEF HubsOf
<1> SUFFICES ASSUME Live', NEW r \in HubsOf(Unstaged'), r \notin resolved', NEW d \in r.rows,
                    NEW c \in Archived'
             PROVE  archive'[d] = "pg" \/ c < d
  BY <1>2 DEF AheadOfFiles
<1>3. CASE ~Live \/ ResumeFromHub
  <2>1. Unstaged' = {}
    BY <1>1, <1>3, NothingHeld
  <2> QED
    BY <2>1 DEF HubsOf
<1>4. CASE Live /\ ~ResumeFromHub
  <2>0. resolved \subseteq resolved' /\ c \in Buckets
    BY Frames, CrashLeaves DEF Resolve, Archived
  <2>1. CASE IngestNew
    <3>1. /\ Unstaged' = Unstaged \cup {ArrivedRecord} /\ archive' = archive /\ resolved' = resolved
          /\ ArrivedRecord = Rec(link) /\ link \in Sequences /\ link \in Int
          /\ ArrivedRecord.rows = Rows(hub.log[link])
          /\ Safe = Archived /\ Good(link)
          /\ \A x \in HubsOf(accepted) : link <= x.seq => Rec(link) \in resolved
      BY <1>1, <2>1, ToldIs, Arrives
    <3>2. Archived' = Archived
      BY <3>1 DEF Archived
    <3>3. CASE r = ArrivedRecord
      <4>1. d \in Rows(hub.log[link]) /\ d \in Buckets /\ d \in Int /\ c \in Int /\ Rec(link) \notin resolved
        BY <1>1, <2>0, <3>1, <3>3, LogIs, BucketsAre
      <4>2. CASE archive[d] = "hub"
        <5>1. PICK x \in HubsOf(accepted) : d \in x.rows
          BY <1>1, <4>1, <4>2 DEF HubRowInv, HubRow
        <5>2. x.seq \in Sequences /\ x = Rec(x.seq)
          BY <1>1 DEF OriginInv
        <5>3. PICK m \in Sequences : m = x.seq /\ x = Rec(m)
          BY <5>2
        <5>4. m \in Int /\ d \in Rows(hub.log[m])
          BY <1>1, <5>1, <5>3, RecIs
        <5>5. ~(m < link)
          <6> SUFFICES ASSUME m < link PROVE FALSE
            OBVIOUS
          <6>1. d < d
            BY <1>1, <3>1, <4>1, <5>4, RowsInOrder
          <6> QED
            BY <4>1, <6>1
        <5>6. link <= x.seq
          BY <3>1, <5>3, <5>4, <5>5
        <5> QED
          BY <3>1, <4>1, <5>6
      <4>3. CASE archive[d] = "none"
        <5>1. SUFFICES ASSUME ~(c < d) PROVE FALSE
          OBVIOUS
        <5>2. d <= c
          BY <4>1, <5>1
        <5>3. d \in Safe
          BY <3>1, <3>2, <4>1, <5>2 DEF Good, RowsLow
        <5> QED
          BY <3>1, <4>3, <5>3 DEF Archived
      <4>4. archive[d] \in Version
        BY <1>1, <4>1
      <4> QED
        BY <3>1, <4>2, <4>3, <4>4 DEF Version, Kinds
    <3>4. CASE r # ArrivedRecord
      <4>1. r \in HubsOf(Unstaged) \ resolved
        BY <3>1, <3>4 DEF HubsOf
      <4> QED
        BY <1>1, <1>4, <3>1, <3>2, <4>1 DEF AheadOfFiles
    <3> QED
      BY <3>3, <3>4
  <2>2. CASE ~IngestNew
    <3>1. r \in HubsOf(Unstaged) \ resolved
      BY <1>4, <2>0, <2>2, WorkFrames
    <3>2. archive[d] = "pg" \/ \A b \in Archived : b < d
      BY <1>1, <1>4, <3>1 DEF AheadOfFiles
    <3>3. d \in Buckets
      <4>1. r \in HubsOf(accepted)
        BY <1>1, <3>1 DEF OriginInv, HubsOf, Held, Unstaged
      <4> QED
        BY <1>1, <4>1, RowsClimb
    <3>4. archive[d] = "pg" => archive'[d] = "pg"
      BY <1>1, <3>3, ImproveStep DEF AsGood
    <3>5. CASE c \in Archived
      BY <3>2, <3>4, <3>5
    <3>6. CASE c \notin Archived
      <4>1. WriteWindow
        <5>1. archive' # archive
          BY <3>6 DEF Archived
        <5> QED
          BY <5>1, Frames
      <4>2. PICK w : w = Min(job.windows)
        OBVIOUS
      <4>3. w \in books.open /\ archive'[c] = IF Window(c) = w THEN books.rows[c] ELSE archive[c]
        BY <1>1, <2>0, <4>1, <4>2, WrittenIs
      <4>4. archive[c] = "none" /\ archive'[c] # "none"
        BY <2>0, <3>6 DEF Archived
      <4>5. RowOpen(c)
        BY <4>3, <4>4 DEF RowOpen
      <4> QED
        BY <1>1, <1>4, <2>0, <3>1, <3>6, <4>5 DEF AheadOfOpen
    <3> QED
      BY <3>5, <3>6
  <2> QED
    BY <2>1, <2>2
<1> QED
  BY <1>3, <1>4

LEMMA StagedAheadStep ==
  ASSUME MaxStreams = 1, RestartInv, [Next]_vars
  PROVE  StagedAhead'
<1>1. /\ CoverInv /\ KeepInv /\ TypeInv /\ SafeInv /\ JobShape /\ AheadOfFiles /\ StagedAhead
      /\ InRow(books, job) /\ ImproveInv /\ archive \in [Buckets -> Version] /\ books \in GoodBooks
  BY RestartParts, HeldIs DEF SafeInv
<1> SUFFICES ASSUME Live', NEW t \in books'.staged, t.rec.kind = "hub", t.rec \notin resolved',
                    NEW k \in t.left, NEW c \in Archived'
             PROVE  c < k[1] \/ InKeys(c)'
  BY DEF StagedAhead
<1>2. CASE ~Live \/ ResumeFromHub
  BY <1>1, <1>2, NothingHeld
<1>3. CASE Live /\ ~ResumeFromHub
  <2>0. resolved \subseteq resolved' /\ c \in Buckets
    BY Frames, CrashLeaves DEF Resolve, Archived
  <2>1. ASSUME NEW u \in books.staged, u.rec.kind = "hub", u.rec \notin resolved, NEW j \in u.left,
               NEW b \in Archived
        PROVE  b < j[1] \/ InKeys(b)
    BY <1>1, <1>3, <2>1 DEF StagedAhead
  <2>2. CASE StageNext
    <3>1. PICK h : h = Head(job.todo)
      OBVIOUS
    <3>2. /\ StagedAs(books', books, h, archive) /\ h \in Record /\ archive' = archive
          /\ h \in Unstaged /\ KeysNow' = {} /\ KeysNow = {} /\ resolved' = resolved
      BY <1>1, <2>2, <3>1, StagedIs
    <3>3. Archived' = Archived /\ ~InKeys(c)
      BY <3>2 DEF Archived, InKeys
    <3>4. CASE t \in books.staged
      BY <2>0, <2>1, <3>3, <3>4
    <3>5. CASE t \notin books.staged
      <4>1. t = [rec |-> h, left |-> Won(books, h, archive) \X {h.kind}]
        BY <3>2, <3>5 DEF StagedAs
      <4>2. t.rec = h /\ k[1] \in Won(books, h, archive)
        BY <4>1
      <4>3. PICK d : d = k[1]
        OBVIOUS
      <4>4. d \in h.rows /\ Known(books, h, archive)[d] # "pg" /\ d \in Buckets
        BY <3>2, <4>2, <4>3, RecordsAre DEF Won
      <4>5. archive[d] # "pg"
        <5>1. Known(books, h, archive)[d] = IF Window(d) \in books.open THEN books.rows[d] ELSE archive[d]
          BY <4>4 DEF Known
        <5>2. Window(d) \in books.open /\ archive[d] = "pg" => books.rows[d] = "pg"
          BY <1>1, <4>4 DEF ImproveInv, Improves, AsGood
        <5> QED
          BY <4>4, <5>1, <5>2
      <4>6. h \in HubsOf(Unstaged) \ resolved
        BY <3>2, <4>2 DEF HubsOf
      <4>7. c < d
        BY <1>1, <1>3, <3>3, <4>4, <4>5, <4>6 DEF AheadOfFiles
      <4> QED
        BY <4>3, <4>7
    <3> QED
      BY <3>4, <3>5
  <2>3. CASE WriteWindow
    <3>1. PICK w : w = Min(job.windows)
      OBVIOUS
    <3>2. /\ archive'[c] = IF Window(c) = w THEN books.rows[c] ELSE archive[c]
          /\ books'.staged = books.staged /\ resolved' = resolved
          /\ KeysNow' = KeysNow \cup KeysIn(books, w)
          /\ \A j \in Key : j \in KeysIn(books, w) <=> Window(j[1]) = w /\ books.rows[j[1]] = j[2]
      BY <1>1, <2>0, <2>3, <3>1, WrittenIs
    <3>3. CASE c \in Archived
      <4>1. c < k[1] \/ InKeys(c)
        BY <2>1, <3>2, <3>3
      <4>2. InKeys(c) => InKeys(c)'
        BY <3>2 DEF InKeys
      <4> QED
        BY <4>1, <4>2
    <3>4. CASE c \notin Archived
      <4>1. Window(c) = w /\ books.rows[c] # "none"
        BY <2>0, <3>2, <3>4 DEF Archived
      <4>2. books.rows[c] \in Kinds
        BY <1>1, <2>0, <4>1, BooksAre DEF GoodBooks, Version
      <4>3. PICK v \in Kinds : v = books.rows[c]
        BY <4>2
      <4>4. <<c, v>> \in Key
        BY <2>0 DEF Key
      <4>5. <<c, v>> \in KeysNow'
        BY <3>2, <4>1, <4>3, <4>4
      <4> QED
        BY <4>5 DEF InKeys
    <3> QED
      BY <3>3, <3>4
  <2>4. CASE Resolve
    <3>1. /\ books'.staged = Waiting(books, job.keys) /\ archive' = archive
          /\ KeysNow = job.keys
      BY <1>1, <2>4, ResolvedIs
    <3>2. PICK u \in books.staged : t = Less(u, books, job.keys)
      BY <1>1, <3>1, WaitingAre
    <3>3. t.rec = u.rec /\ k \in u.left /\ k \notin job.keys \cup books.over
      BY <3>2 DEF Less
    <3>4. c \in Archived
      BY <3>1 DEF Archived
    <3>5. c < k[1] \/ InKeys(c)
      BY <2>0, <2>1, <3>3, <3>4
    <3>6. ASSUME InKeys(c) PROVE c < k[1]
      <4>1. PICK v \in Kinds : <<c, v>> \in job.keys
        BY <3>1, <3>6 DEF InKeys
      <4>2. \A j \in job.keys : j[1] < k[1]
        BY <2>4, <3>3, OpenAfterKeys
      <4>3. PICK j \in job.keys : j = <<c, v>>
        BY <4>1
      <4>4. j[1] < k[1] /\ j[1] = c
        BY <4>2, <4>3
      <4> QED
        BY <4>4
    <3> QED
      BY <3>5, <3>6
  <2>5. CASE ~StageNext /\ ~WriteWindow /\ ~Resolve
    <3>1. books' = books /\ archive' = archive /\ resolved' = resolved /\ KeysNow' = KeysNow
      BY <1>3, <2>5, WorkFrames
    <3>2. c \in Archived /\ InKeys(c)' = InKeys(c)
      BY <3>1 DEF Archived, InKeys
    <3> QED
      BY <2>1, <3>1, <3>2
  <2> QED
    BY <2>2, <2>3, <2>4, <2>5
<1> QED
  BY <1>2, <1>3

LEMMA OverStep ==
  ASSUME MaxStreams = 1, RestartInv, [Next]_vars
  PROVE  OverInv'
<1>1. /\ CoverInv /\ KeepInv /\ TypeInv /\ SafeInv /\ JobShape /\ OverInv /\ TurnInv
      /\ InRow(books, job) /\ books \in GoodBooks
  BY RestartParts, CoverParts, HeldIs
<1> SUFFICES ASSUME Live', NEW k \in books'.over
             PROVE  \/ k[1] \in Archived'
                    \/ \E u \in books'.staged : u.rec.kind = "pg" /\ <<k[1], "pg">> \in u.left
  BY DEF OverInv
<1>2. CASE ~Live \/ ResumeFromHub
  <2>1. books' = books /\ ((SaveCheckpoint /\ job.all) \/ ResumeFromHub)
    BY <1>1, <1>2, NothingHeld
  <2>2. SaveCheckpoint /\ job.all => books.over = {}
    BY <1>1 DEF TurnInv, SaveCheckpoint
  <2>3. ResumeFromHub => books.over = {}
    BY <1>1 DEF TurnInv, ResumeFromHub, Plain
  <2> QED
    BY <2>1, <2>2, <2>3
<1>3. CASE Live /\ ~ResumeFromHub
  <2>1. Archived \subseteq Archived'
    BY <1>1, SafeGrows
  <2>2. ASSUME k \in books.over
        PROVE  \/ k[1] \in Archived
               \/ \E u \in books.staged : u.rec.kind = "pg" /\ <<k[1], "pg">> \in u.left
    BY <1>1, <1>3, <2>2 DEF OverInv
  <2>3. CASE StageNext
    <3>1. PICK h : h = Head(job.todo)
      OBVIOUS
    <3>2. StagedAs(books', books, h, archive)
      BY <1>1, <2>3, <3>1, StagedIs
    <3>3. books.staged \subseteq books'.staged
      BY <3>2 DEF StagedAs
    <3>4. CASE k \in books.over
      BY <2>1, <2>2, <3>3, <3>4
    <3>5. CASE k \notin books.over
      <4>1. /\ Won(books, h, archive) # {} /\ k \in Beaten(books, h, archive) \X {"hub"}
        BY <3>2, <3>5 DEF StagedAs
      <4>2. PICK d : d = k[1]
        OBVIOUS
      <4>3. d \in Won(books, h, archive) /\ h.kind = "pg"
        BY <4>1, <4>2 DEF Beaten
      <4>4. PICK u : u = [rec |-> h, left |-> Won(books, h, archive) \X {h.kind}]
        OBVIOUS
      <4>5. u \in books'.staged
        BY <3>2, <4>1, <4>4 DEF StagedAs
      <4>6. u.rec.kind = "pg" /\ <<d, "pg">> \in u.left
        BY <4>3, <4>4
      <4> QED
        BY <4>2, <4>5, <4>6
    <3> QED
      BY <3>4, <3>5
  <2>4. CASE WriteWindow
    <3>1. PICK w : w = Min(job.windows)
      OBVIOUS
    <3>2. books'.staged = books.staged /\ books'.over = books.over
      BY <1>1, <2>4, <3>1, WrittenIs
    <3> QED
      BY <2>1, <2>2, <3>2
  <2>5. CASE Resolve
    <3>1. /\ books'.staged = Waiting(books, job.keys)
          /\ books'.over = IF Waiting(books, job.keys) = {} THEN {} ELSE books.over
      BY <1>1, <2>5, ResolvedIs
    <3>2. k \in books.over
      BY <3>1
    <3>3. CASE k[1] \in Archived
      BY <2>1, <3>3
    <3>4. CASE k[1] \notin Archived
      <4>1. PICK u \in books.staged : u.rec.kind = "pg" /\ <<k[1], "pg">> \in u.left
        BY <2>2, <3>2, <3>4
      <4>2. PICK d : d = k[1]
        OBVIOUS
      <4>3. PICK j : j = <<d, "pg">>
        OBVIOUS
      <4>4. j \notin job.keys
        <5>1. \A i \in job.keys : i[1] \in Archived
          BY <1>1 DEF SafeInv
        <5>2. j[1] = d
          BY <4>3
        <5> QED
          BY <3>4, <4>2, <5>1, <5>2
      <4>5. j \notin books.over
        BY <1>1, <4>3 DEF SafeInv, BooksSafe, OverSafe
      <4>6. PICK s : s = Less(u, books, job.keys)
        OBVIOUS
      <4>7. s.rec = u.rec /\ j \in s.left
        BY <4>1, <4>2, <4>3, <4>4, <4>5, <4>6 DEF Less
      <4>8. s \in Waiting(books, job.keys)
        BY <1>1, <4>6, <4>7, WaitingAre
      <4> QED
        BY <3>1, <4>1, <4>2, <4>3, <4>7, <4>8
    <3> QED
      BY <3>3, <3>4
  <2>6. CASE ~StageNext /\ ~WriteWindow /\ ~Resolve
    <3>1. books' = books
      BY <1>3, <2>6, WorkFrames
    <3> QED
      BY <2>1, <2>2, <3>1
  <2> QED
    BY <2>3, <2>4, <2>5, <2>6
<1> QED
  BY <1>2, <1>3

-------------------------------------------------------------------------------
(* What waits without a hole stays so until something of it is resolved.       *)
LEMMA UnbrokenStays ==
  ASSUME MaxStreams = 1, RestartInv, [Next]_vars, Live', Live, ~ResumeFromHub, ~Resolve,
         NEW n, Unbroken(n)
  PROVE  Unbroken(n)'
<1>1. /\ CoverInv /\ KeepInv /\ TypeInv /\ JobShape /\ PlaceInv /\ AgainInv
  BY RestartParts
<1>2. HubsOf(Awaited') = HubsOf(Awaited)' /\ Seqs(Awaited') = Seqs(Awaited)'
  BY DEF HubsOf, Seqs, Awaited
<1> SUFFICES ASSUME NEW r \in HubsOf(Awaited'), n <= r.seq,
                    NEW k \in Int, r.seq <= k, k <= lastSeen'
             PROVE  k \in Seqs(Awaited')
  BY <1>2 DEF Unbroken, ToLast
<1>3. CASE ~IngestNew
  <2>1. HubsOf(Awaited') = HubsOf(Awaited) /\ lastSeen' = lastSeen
    BY <1>3, WorkFrames
  <2>2. k \in Seqs(Awaited)
    BY <2>1 DEF Unbroken, ToLast
  <2> QED
    BY <2>1, <2>2 DEF Seqs
<1>4. CASE IngestNew
  <2>1. /\ files' = files \cup {ArrivedRecord} /\ resolved' = resolved
        /\ ArrivedRecord.kind = "hub" /\ ArrivedRecord.seq = link /\ lastSeen' = link
        /\ link \in Int /\ lastSeen \in Int /\ lastSeen < link
        /\ \A x \in HubsOf(pend \cup Held) : x.seq < link /\ link = lastSeen + 1
    BY <1>1, <1>4, ToldIs, Arrives
  <2>2. \A x \in HubsOf(Awaited) : x \in HubsOf(pend \cup Held)
    BY <1>1 DEF PlaceInv, HubsOf, Awaited
  <2>3. \A x \in Awaited' : x \in Awaited \/ (x = ArrivedRecord /\ x \notin resolved)
    BY <2>1 DEF Awaited
  <2>4. ArrivedRecord \notin resolved
    <3> SUFFICES ASSUME ArrivedRecord \in resolved PROVE FALSE
      OBVIOUS
    <3>1. r \in HubsOf(Awaited)
      BY <2>3 DEF HubsOf
    <3>2. r.seq < ArrivedRecord.seq /\ ArrivedRecord \in HubsOf(resolved)
      BY <2>1, <2>2, <3>1 DEF HubsOf
    <3>3. ArrivedRecord.seq <= lastSeen
      BY <1>1, <3>1, <3>2 DEF AgainInv
    <3> QED
      BY <2>1, <3>3
  <2>5. ArrivedRecord \in HubsOf(Awaited') /\ Awaited \subseteq Awaited'
    BY <2>1, <2>4 DEF HubsOf, Awaited
  <2>6. CASE k = link
    BY <2>1, <2>5, <2>6 DEF Seqs
  <2>7. CASE k # link
    <3>1. k < link /\ r # ArrivedRecord
      BY <2>1, <2>7
    <3>2. r \in HubsOf(Awaited)
      BY <2>3, <3>1 DEF HubsOf
    <3>3. k <= lastSeen
      BY <2>1, <2>2, <3>1, <3>2
    <3>4. k \in Seqs(Awaited)
      BY <3>2, <3>3 DEF Unbroken, ToLast
    <3> QED
      BY <2>5, <3>4 DEF Seqs, HubsOf
  <2> QED
    BY <2>6, <2>7
<1> QED
  BY <1>3, <1>4

(* A record of the database that is not all written when a flush is resolved.  *)
LEMMA OwesNow ==
  ASSUME RestartInv, Resolve, NEW u \in books.staged, u.rec.kind = "pg", u.rec \notin resolved,
         NEW d \in Buckets, <<d, "pg">> \in u.left, <<d, "pg">> \notin job.keys,
         NEW b, b <= d
  PROVE  OwesPg(b)'
<1>1. KeepInv /\ SafeInv /\ WaitsIn(books, job) /\ books \in GoodBooks
  BY RestartParts, HeldIs
<1>2. PICK j : j = <<d, "pg">>
  OBVIOUS
<1>3. j \notin books.over
  BY <1>1, <1>2 DEF SafeInv, BooksSafe, OverSafe
<1>4. PICK s : s = Less(u, books, job.keys)
  OBVIOUS
<1>5. s.rec = u.rec /\ j \in s.left
  BY <1>2, <1>3, <1>4 DEF Less
<1>6. s \in Waiting(books, job.keys)
  BY <1>1, <1>4, <1>5, WaitingAre
<1>7. /\ books'.staged = Waiting(books, job.keys) /\ KeysNow' = {}
      /\ resolved' = resolved \cup ResolvedNow
  BY <1>1, ResolvedIs
<1>8. u.rec \notin books.empties
  <2>1. d \in u.rec.rows
    <3>1. j[1] \in u.rec.rows
      BY <1>1, <1>2 DEF WaitsIn, LeftKnown
    <3> QED
      BY <1>2, <3>1
  <2> QED
    BY <1>1, <2>1 DEF SafeInv, BooksSafe, EmptySafe
<1>9. u.rec \notin ResolvedNow
  <2>1. u.rec \notin EmptiesDone(books, job.keys, job.all)
    BY <1>8 DEF EmptiesDone
  <2> QED
    BY <1>5, <1>6, <2>1 DEF ResolvedNow, Ready
<1>10. PgStaged(s)'
  BY <1>5, <1>6, <1>7, <1>9 DEF PgStaged
<1>11. s \in books'.staged /\ <<d, "pg">> \in s.left \ KeysNow'
  BY <1>2, <1>5, <1>6, <1>7
<1> QED
  BY <1>10, <1>11 DEF OwesPg

(* A hub record is resolved before an earlier record, of which a row waits,    *)
(* only if its rows were replaced by the database's, which waits as well.      *)
LEMMA Passing ==
  ASSUME MaxStreams = 1, RestartInv, Live, Resolve, NEW t \in books.staged, NEW k \in t.left,
         k \notin job.keys \cup books.over,
         NEW s \in HubsOf(Awaited), s \in ResolvedNow, t.rec.seq <= s.seq
  PROVE  OwesPg(k[1])'
<1>1. /\ CoverInv /\ KeepInv /\ SafeInv /\ TypeInv /\ WaitsIn(books, job) /\ OriginInv
      /\ StagedAhead /\ OverInv /\ books \in GoodBooks /\ books \in Books /\ KeysNow = job.keys
  BY RestartParts, HeldIs, ResolvedIs DEF GoodBooks
<1>2. /\ k \in Key /\ k[1] \in Buckets /\ k[1] \in t.rec.rows /\ k[2] = t.rec.kind
      /\ \A j \in job.keys : j[1] \in Buckets /\ j[1] < k[1]
  BY OpenAfterKeys
<1>3. PICK b : b = k[1]
  OBVIOUS
<1>4. b \in Buckets /\ b \in Int /\ b \in t.rec.rows /\ \A j \in job.keys : j[1] \in Int /\ j[1] < b
  BY <1>2, <1>3, BucketsAre
<1>5. CASE t.rec.kind = "pg" /\ t.rec \notin resolved
  <2>1. k = <<b, "pg">>
    BY <1>2, <1>3, <1>5 DEF Key
  <2>2. <<b, "pg">> \in t.left /\ <<b, "pg">> \notin job.keys /\ b <= b
    BY <1>4, <2>1
  <2>3. OwesPg(b)'
    BY <1>4, <1>5, <2>2, OwesNow
  <2> QED
    BY <1>3, <2>3
<1>6. CASE ~(t.rec.kind = "pg" /\ t.rec \notin resolved)
  <2>1. s.kind = "hub" /\ s \in files /\ s \notin resolved /\ s \in HubsOf(accepted)
    BY <1>1 DEF HubsOf, Awaited, OriginInv
  <2>2. t.rec \in InBooks /\ t.rec \in accepted /\ t.rec.kind \in Kinds
    <3>1. t.rec \in InBooks
      BY DEF InBooks, Stocked
    <3>2. t.rec \in Record
      BY <1>1, BooksAre DEF Staging
    <3> QED
      BY <1>1, <3>1, <3>2, RecordsAre DEF OriginInv, Held
  <2>3. PICK w : w = Less(t, books, job.keys)
    OBVIOUS
  <2>4. w.rec = t.rec /\ k \in w.left
    BY <2>3 DEF Less
  <2>5. w \in Waiting(books, job.keys)
    BY <1>1, <2>3, <2>4, WaitingAre
  <2>6. s.seq \in Int
    <3>1. s.seq \in Sequences
      BY <1>1, <2>1 DEF OriginInv
    <3> QED
      BY <1>1, <3>1, LogIs
  <2>7. s \notin EmptiesDone(books, job.keys, job.all)
    <3>1. ASSUME s.seq < w.rec.seq PROVE FALSE
      <4>1. t.rec.seq \in Int
        BY <1>1, BooksAre, RecordsAre DEF Staging
      <4> QED
        BY <2>4, <2>6, <3>1, <4>1
    <3>2. ~job.all
      BY <1>1, <2>5, AllWaitNot
    <3> QED
      BY <2>5, <3>1, <3>2 DEF EmptiesDone
  <2>8. /\ \E x \in books.staged : x.rec = s
        /\ \A x \in books.staged : x.rec = s => x.left \subseteq job.keys \cup books.over
    BY <1>1, <2>7, ReadyAre DEF ResolvedNow
  <2>9. PICK x \in books.staged : x.rec = s
    BY <2>8
  <2>10. x.left # {} /\ x.left \subseteq Key /\ \A j \in x.left : j[1] \in s.rows /\ j[2] = "hub"
    BY <1>1, <2>1, <2>9, BooksAre DEF WaitsIn, LeftKnown, Staging
  <2>11. PICK j \in x.left : TRUE
    BY <2>10
  <2>12. PICK c : c = j[1]
    OBVIOUS
  <2>13. c \in s.rows /\ c \in Buckets /\ c \in Int /\ j = <<c, "hub">>
    BY <2>10, <2>11, <2>12, BucketsAre DEF Key
  <2>14. \A a \in Archived : a < c \/ InKeys(a)
    BY <1>1, <2>1, <2>9, <2>11, <2>12 DEF StagedAhead
  <2>15. ASSUME NEW a, InKeys(a) PROVE a < b
    <3>1. PICK v \in Kinds : <<a, v>> \in job.keys
      BY <1>1, <2>15 DEF InKeys
    <3>2. PICK i \in job.keys : i = <<a, v>>
      BY <3>1
    <3> QED
      BY <1>4, <3>2
  <2>16. b < c
    <3>1. CASE t.rec.kind = "hub"
      <4>1. t.rec \in HubsOf(accepted)
        BY <2>2, <3>1 DEF HubsOf
      <4>2. t.rec.seq \in Int /\ (t.rec.seq < s.seq => b < c)
        BY <1>1, <1>4, <2>1, <2>13, <4>1, RowsClimb
      <4>3. t.rec.seq # s.seq
        <5>1. t.rec = Rec(t.rec.seq) /\ s = Rec(s.seq)
          BY <1>1, <2>1, <4>1 DEF OriginInv
        <5>2. t.rec # s
          BY <2>8
        <5> QED
          BY <5>1, <5>2
      <4> QED
        BY <2>6, <4>2, <4>3
    <3>2. CASE t.rec.kind = "pg"
      <4>1. t.rec \in resolved
        BY <1>6, <3>2
      <4>2. b \in Archived
        BY <1>1, <1>4, <3>2, <4>1 DEF SafeInv, RowSafe
      <4>3. ~(b < b)
        BY <1>4
      <4> QED
        BY <2>14, <2>15, <4>2, <4>3
    <3> QED
      BY <2>2, <3>1, <3>2 DEF Kinds
  <2>17. \A i \in job.keys : i[1] # c
    BY <1>4, <2>13, <2>16
  <2>18. j \in books.over
    <3>1. j \notin job.keys
      BY <2>12, <2>17
    <3> QED
      BY <2>8, <2>9, <2>11, <3>1
  <2>19. c \notin Archived
    <3> SUFFICES ASSUME c \in Archived PROVE FALSE
      OBVIOUS
    <3>1. ~(c < c) /\ ~(c < b)
      BY <1>4, <2>13, <2>16
    <3> QED
      BY <2>14, <2>15, <3>1
  <2>20. PICK u \in books.staged : u.rec.kind = "pg" /\ <<c, "pg">> \in u.left
    BY <1>1, <2>12, <2>18, <2>19 DEF OverInv
  <2>21. c \in u.rec.rows
    <3>1. PICK i \in u.left : i = <<c, "pg">>
      BY <2>20
    <3>2. i[1] \in u.rec.rows
      BY <1>1 DEF WaitsIn, LeftKnown
    <3> QED
      BY <3>1, <3>2
  <2>22. u.rec \notin resolved
    BY <1>1, <2>19, <2>20, <2>21 DEF SafeInv, RowSafe
  <2>23. <<c, "pg">> \notin job.keys /\ b <= c
    <3>1. \A i \in job.keys : i # <<c, "pg">>
      BY <2>17
    <3> QED
      BY <1>4, <2>13, <2>16, <3>1
  <2>24. OwesPg(b)'
    BY <2>13, <2>20, <2>22, <2>23, OwesNow
  <2> QED
    BY <1>3, <2>24
<1> QED
  BY <1>5, <1>6

(* What is staged next is the last of what waits, or a record of the database. *)
LEMMA HubComes ==
  ASSUME RestartInv, Live, NEW h \in HubsOf(Unstaged)
  PROVE  Unbroken(h.seq)
<1>1. /\ TypeInv /\ PlaceInv /\ OriginInv /\ ComingInv /\ AgainInv
  BY RestartParts
<1> SUFFICES ASSUME NEW r \in HubsOf(Awaited), h.seq <= r.seq,
                    NEW k \in Int, r.seq <= k, k <= lastSeen
             PROVE  k \in Seqs(Awaited)
  BY DEF Unbroken, ToLast
<1>2. r \in HubsOf(files \cup pend \cup Held) /\ h \in HubsOf(files \cup pend \cup Held)
  BY DEF HubsOf, Awaited, Held, Unstaged
<1>3. r.seq \in Int /\ h.seq \in Int
  <2>1. r.seq \in Sequences /\ h.seq \in Sequences
    BY <1>1, <1>2 DEF PlaceInv
  <2> QED
    BY <1>1, <2>1, LogIs
<1>4. k \in Seqs(Unstaged)
  <2>1. h.seq <= k
    BY <1>3
  <2> QED
    BY <1>1, <2>1 DEF ComingInv, ToLast
<1>5. PICK x \in HubsOf(Unstaged) : x.seq = k
  BY <1>4 DEF Seqs
<1>6. x \in files \cup resolved /\ x.kind = "hub"
  BY <1>1, <1>5 DEF OriginInv, Held, Unstaged, HubsOf
<1>7. CASE x \notin resolved
  BY <1>5, <1>6, <1>7 DEF Seqs, HubsOf, Awaited
<1>8. CASE x \in resolved
  <2>1. ~(r.seq < x.seq)
    <3>1. x \in HubsOf(resolved) /\ x \in Unstaged
      BY <1>5, <1>6, <1>8 DEF HubsOf
    <3> QED
      BY <1>1, <3>1 DEF AgainInv
  <2>2. r.seq = k
    BY <1>3, <1>5, <2>1
  <2> QED
    BY <2>2 DEF Seqs
<1> QED
  BY <1>7, <1>8

LEMMA PgComes ==
  ASSUME RestartInv, Live, NEW h \in PgsOf(Unstaged), h \in resolved, h.rows # {}
  PROVE  Unbroken(0)
<1>1. /\ TypeInv /\ OriginInv /\ BackfillInv /\ TurnsInv /\ TailInv /\ WaitsIn(books, job)
      /\ books \in Books
  BY RestartParts, HeldIs DEF GoodBooks
<1> SUFFICES ASSUME ~Unbroken(0) PROVE FALSE
  OBVIOUS
<1>2. PICK u \in books.staged : PgStaged(u)
  BY <1>1 DEF TailInv
<1>3. u.rec \in InBooks /\ u.rec.kind = "pg" /\ u.rec \notin resolved
  BY <1>2 DEF PgStaged, InBooks, Stocked
<1>4. /\ u.rec \in PgsOf(InBooks) /\ u.rec \in PgsOf(Awaited) /\ u.rec \in PgsOf(accepted)
      /\ h \in PgsOf(resolved) /\ h \in PgsOf(accepted)
  BY <1>1, <1>3 DEF OriginInv, Held, PgsOf, Awaited
<1>5. u.rec.rows # {}
  <2>1. PICK k \in u.left : TRUE
    BY <1>1, <1>2 DEF WaitsIn, LeftKnown
  <2> QED
    BY <1>1, <1>2, <2>1 DEF WaitsIn, LeftKnown
<1>6. h.at \in Selected /\ u.rec.at \in Selected
  <2>1. h.rows = {h.at} \cap Selected /\ u.rec.rows = {u.rec.at} \cap Selected
    BY <1>1, <1>4, PgIs
  <2> QED
    BY <1>5, <2>1
<1>7. u.rec.at < h.at
  BY <1>1, <1>4 DEF TurnsInv, Under
<1>8. h.at < u.rec.at
  BY <1>1, <1>4, <1>6 DEF BackfillInv
<1>9. h.at \in Int /\ u.rec.at \in Int
  BY <1>6, BucketsAre, SelectedAssumption
<1> QED
  BY <1>7, <1>8, <1>9

LEMMA NextWaits ==
  ASSUME RestartInv, Live, NEW h \in Unstaged, h.rows # {}
  PROVE  Unbroken(h.seq) \/ (h.kind = "pg" /\ h \notin resolved)
<1>1. TypeInv /\ OriginInv /\ h \in accepted /\ h \in Record
  <2>1. TypeInv /\ OriginInv
    BY RestartParts
  <2>2. h \in accepted
    BY <2>1 DEF OriginInv, Held, Unstaged
  <2> QED
    BY <2>1, <2>2, TypeInvIs DEF GhostTyped
<1>2. h.kind \in {"hub", "pg"}
  BY <1>1, RecordsAre DEF Kinds
<1>3. CASE h.kind = "hub"
  <2>1. h \in HubsOf(Unstaged)
    BY <1>3 DEF HubsOf
  <2> QED
    BY <2>1, HubComes
<1>4. CASE h.kind = "pg" /\ h \in resolved
  <2>1. h \in PgsOf(Unstaged) /\ h \in PgsOf(accepted)
    BY <1>1, <1>4 DEF PgsOf
  <2>2. Unbroken(0)
    BY <1>4, <2>1, PgComes
  <2>3. h.seq = 0
    <3>1. PICK b : b = h.at
      OBVIOUS
    <3>2. h = BackfillRecord(b, {b} \cap Selected)
      BY <1>1, <2>1, <3>1, PgIs DEF Pg
    <3> QED
      BY <3>2 DEF BackfillRecord
  <2> QED
    BY <2>2, <2>3
<1> QED
  BY <1>2, <1>3, <1>4

LEMMA OwesStays ==
  ASSUME books.staged \subseteq books'.staged, KeysNow' = KeysNow, resolved' = resolved,
         NEW b, OwesPg(b)
  PROVE  OwesPg(b)'
<1>1. PICK u \in books.staged, d \in Buckets :
        PgStaged(u) /\ b <= d /\ <<d, "pg">> \in u.left \ KeysNow
  BY DEF OwesPg
<1>2. u \in books'.staged /\ PgStaged(u)'
  BY <1>1 DEF PgStaged
<1> QED
  BY <1>1, <1>2 DEF OwesPg

LEMMA OwesWritten ==
  ASSUME RestartInv, WriteWindow, NEW t \in books.staged, NEW k \in t.left,
         k \notin KeysNow' \cup books.over, OwesPg(k[1])
  PROVE  OwesPg(k[1])'
<1>1. /\ TypeInv /\ SafeInv /\ JobShape /\ InRow(books, job) /\ WaitsIn(books, job)
      /\ books \in Books
  BY RestartParts, HeldIs DEF GoodBooks
<1>2. PICK w : w = Min(job.windows)
  OBVIOUS
<1>3. /\ books'.staged = books.staged /\ KeysNow' = KeysNow \cup KeysIn(books, w)
      /\ \A j \in Key : j \in KeysIn(books, w) <=> Window(j[1]) = w /\ books.rows[j[1]] = j[2]
      /\ \A b \in Buckets : Window(b) \in books.open /\ Window(b) <= w => Window(b) = w
      /\ resolved' = resolved /\ job.step = "write"
  BY <1>1, <1>2, WrittenIs
<1>4. PICK u \in books.staged, d \in Buckets :
        PgStaged(u) /\ k[1] <= d /\ <<d, "pg">> \in u.left \ KeysNow
  BY DEF OwesPg
<1>5. PICK j : j = <<d, "pg">>
  OBVIOUS
<1>6. k \in Key /\ k[1] \in Buckets
  BY <1>1, BooksAre DEF Staging, Key
<1>7. InWindow(books, k)
  BY <1>1, <1>3 DEF WaitsIn, LeftKnown, KeysNow
<1>8. j \notin KeysIn(books, w)
  <2> SUFFICES ASSUME j \in KeysIn(books, w) PROVE FALSE
    OBVIOUS
  <2>1. Window(d) = w
    BY <1>5 DEF KeysIn
  <2>2. Window(k[1]) <= w
    BY <1>4, <1>6, <2>1, WindowsGrow
  <2>3. Window(k[1]) = w
    BY <1>3, <1>6, <1>7, <2>2 DEF InWindow
  <2>4. k \in KeysIn(books, w)
    BY <1>3, <1>6, <1>7, <2>3 DEF InWindow
  <2> QED
    BY <1>3, <2>4
<1>9. PgStaged(u)' /\ u \in books'.staged /\ j \in u.left \ KeysNow'
  BY <1>3, <1>4, <1>5, <1>8 DEF PgStaged
<1> QED
  BY <1>4, <1>5, <1>9 DEF OwesPg

LEMMA WaitResolves ==
  ASSUME MaxStreams = 1, RestartInv, Live, Resolve,
         NEW t \in books'.staged, NEW k \in t.left
  PROVE  Unbroken(t.rec.seq)' \/ OwesPg(k[1])'
<1>1. /\ KeepInv /\ TypeInv /\ PlaceInv /\ WaitInv /\ books \in GoodBooks /\ books \in Books
  BY RestartParts, HeldIs DEF GoodBooks
<1>2. /\ books'.staged = Waiting(books, job.keys) /\ KeysNow = job.keys /\ KeysNow' = {}
      /\ Awaited' = Awaited \ ResolvedNow /\ lastSeen' = lastSeen
  BY <1>1, ResolvedIs
<1>3. PICK v \in books.staged : t = Less(v, books, job.keys)
  BY <1>1, <1>2, WaitingAre
<1>4. t.rec = v.rec /\ t.left = v.left \ (job.keys \cup books.over)
  BY <1>3 DEF Less
<1>5. k \in v.left /\ k \notin job.keys \cup books.over
  BY <1>4
<1>6. PICK n : n = v.rec.seq
  OBVIOUS
<1>7. Unbroken(n) \/ OwesPg(k[1])
  BY <1>1, <1>2, <1>3, <1>5, <1>6 DEF WaitInv
<1>8. CASE OwesPg(k[1])
  <2>1. PICK u \in books.staged, d \in Buckets :
          PgStaged(u) /\ k[1] <= d /\ <<d, "pg">> \in u.left \ job.keys
    BY <1>2, <1>8 DEF OwesPg
  <2>2. PICK b : b = k[1]
    OBVIOUS
  <2>3. /\ u.rec.kind = "pg" /\ u.rec \notin resolved /\ <<d, "pg">> \in u.left
        /\ <<d, "pg">> \notin job.keys /\ b <= d
    BY <2>1, <2>2 DEF PgStaged
  <2>4. OwesPg(b)'
    BY <2>1, <2>3, OwesNow
  <2> QED
    BY <2>2, <2>4
<1>9. CASE Unbroken(n) /\ \E s \in HubsOf(Awaited) : s \in ResolvedNow /\ n <= s.seq
  <2>1. PICK s \in HubsOf(Awaited) : s \in ResolvedNow /\ n <= s.seq
    BY <1>9
  <2>2. OwesPg(k[1])'
    BY <1>3, <1>5, <1>6, <2>1, Passing
  <2> QED
    BY <2>2
<1>10. CASE Unbroken(n) /\ \A s \in HubsOf(Awaited) : n <= s.seq => s \notin ResolvedNow
  <2>1. HubsOf(Awaited') = HubsOf(Awaited)' /\ Seqs(Awaited') = Seqs(Awaited)'
    BY DEF HubsOf, Seqs, Awaited
  <2>2. SUFFICES ASSUME NEW r \in HubsOf(Awaited'), n <= r.seq,
                        NEW m \in Int, r.seq <= m, m <= lastSeen
                 PROVE  m \in Seqs(Awaited')
    <3>1. ASSUME Unbroken(n)' PROVE Unbroken(t.rec.seq)'
      BY <1>4, <1>6, <3>1
    <3> QED
      BY <1>2, <2>1, <3>1 DEF Unbroken, ToLast
  <2>3. r \in HubsOf(Awaited)
    BY <1>2 DEF HubsOf
  <2>4. PICK x \in HubsOf(Awaited) : x.seq = m
    <3>1. m \in Seqs(Awaited)
      BY <1>10, <2>2, <2>3 DEF Unbroken, ToLast
    <3> QED
      BY <3>1 DEF Seqs
  <2>5. n \in Int /\ r.seq \in Int
    <3>1. v.rec \in Record
      BY <1>1, BooksAre DEF Staging
    <3>2. r \in HubsOf(files \cup pend \cup Held)
      BY <2>3 DEF HubsOf, Awaited
    <3>3. r.seq \in Sequences
      BY <1>1, <3>2 DEF PlaceInv
    <3> QED
      BY <1>1, <1>6, <3>1, <3>3, RecordsAre, LogIs
  <2>6. n <= x.seq
    BY <2>2, <2>4, <2>5
  <2>7. x \in HubsOf(Awaited')
    BY <1>2, <1>10, <2>6 DEF HubsOf
  <2> QED
    BY <2>4, <2>7 DEF Seqs
<1> QED
  BY <1>7, <1>8, <1>9, <1>10

LEMMA WaitStages ==
  ASSUME MaxStreams = 1, RestartInv, [Next]_vars, Live, Live', ~ResumeFromHub, StageNext,
         NEW t \in books'.staged, NEW k \in t.left, k \notin books'.over
  PROVE  Unbroken(t.rec.seq)' \/ OwesPg(k[1])'
<1>1. TypeInv /\ JobShape /\ WaitInv /\ OriginInv
  BY RestartParts
<1>2. PICK h : h = Head(job.todo)
  OBVIOUS
<1>3. /\ StagedAs(books', books, h, archive) /\ h \in Unstaged /\ resolved' = resolved
      /\ KeysNow = {} /\ KeysNow' = {}
  BY <1>1, <1>2, StagedIs
<1>4. ~Resolve
  BY DEF StageNext, Resolve
<1>5. PICK n : n = t.rec.seq
  OBVIOUS
<1>6. books.staged \subseteq books'.staged /\ books.over \subseteq books'.over
  BY <1>3 DEF StagedAs
<1>7. ASSUME Unbroken(n) PROVE Unbroken(n)'
  BY <1>4, <1>7, UnbrokenStays
<1>8. ASSUME Unbroken(n) PROVE Unbroken(t.rec.seq)'
  BY <1>5, <1>7, <1>8
<1>9. CASE t \in books.staged
  <2>1. k \notin KeysNow \cup books.over
    BY <1>3, <1>6
  <2>2. Unbroken(n) \/ OwesPg(k[1])
    BY <1>1, <1>5, <1>9, <2>1 DEF WaitInv
  <2>3. ASSUME OwesPg(k[1]) PROVE OwesPg(k[1])'
    <3>1. PICK b : b = k[1]
      OBVIOUS
    <3>2. OwesPg(b)
      BY <2>3, <3>1
    <3>3. OwesPg(b)'
      BY <1>3, <1>6, <3>2, OwesStays
    <3> QED
      BY <3>1, <3>3
  <2> QED
    BY <1>8, <2>2, <2>3
<1>10. CASE t \notin books.staged
  <2>1. PICK W : W = Won(books, h, archive)
    OBVIOUS
  <2>2. W # {} /\ t = [rec |-> h, left |-> W \X {h.kind}]
    BY <1>3, <1>10, <2>1 DEF StagedAs
  <2>3. t.rec = h /\ t.left = W \X {h.kind}
    BY <2>2
  <2>4. W \subseteq h.rows
    BY <2>1 DEF Won
  <2>5. Unbroken(h.seq) \/ (h.kind = "pg" /\ h \notin resolved)
    BY <1>3, <2>2, <2>4, NextWaits
  <2>6. CASE h.kind = "pg" /\ h \notin resolved
    <3>1. PICK d : d = k[1]
      OBVIOUS
    <3>2. k = <<d, "pg">> /\ d \in h.rows
      BY <2>3, <2>4, <2>6, <3>1
    <3>3. PgStaged(t)'
      BY <1>3, <2>3, <2>6 DEF PgStaged
    <3>4. d \in Buckets /\ d <= d
      <4>1. h \in accepted
        BY <1>1, <1>3 DEF OriginInv, Held, Unstaged
      <4>2. h \in Record
        BY <1>1, <4>1, TypeInvIs DEF GhostTyped
      <4>3. d \in Buckets
        BY <3>2, <4>2, RecordsAre
      <4> QED
        BY <4>3, BucketsAre
    <3>5. OwesPg(d)'
      BY <1>3, <3>2, <3>3, <3>4 DEF OwesPg
    <3> QED
      BY <3>1, <3>5
  <2> QED
    BY <1>5, <1>8, <2>3, <2>5, <2>6
<1> QED
  BY <1>9, <1>10

LEMMA WaitStep ==
  ASSUME MaxStreams = 1, RestartInv, [Next]_vars
  PROVE  WaitInv'
<1>1. /\ KeepInv /\ TypeInv /\ SafeInv /\ JobShape /\ InRow(books, job) /\ WaitInv
  BY RestartParts
<1> SUFFICES ASSUME Live', NEW t \in books'.staged, NEW k \in t.left,
                    k \notin KeysNow', k \notin books'.over
             PROVE  Unbroken(t.rec.seq)' \/ OwesPg(k[1])'
  BY DEF WaitInv
<1>2. CASE ~Live \/ ResumeFromHub
  BY <1>1, <1>2, NothingHeld
<1>3. CASE Live /\ ~ResumeFromHub
  <2>1. CASE StageNext
    BY <1>3, <2>1, WaitStages
  <2>2. CASE Resolve
    BY <1>3, <2>2, WaitResolves
  <2>3. CASE ~StageNext /\ ~Resolve
    <3>1. PICK n : n = t.rec.seq
      OBVIOUS
    <3>2. ASSUME Unbroken(n) PROVE Unbroken(t.rec.seq)'
      <4>1. Unbroken(n)'
        BY <1>3, <2>3, <3>2, UnbrokenStays
      <4> QED
        BY <3>1, <4>1
    <3>3. CASE WriteWindow
      <4>1. PICK w : w = Min(job.windows)
        OBVIOUS
      <4>2. /\ books'.staged = books.staged /\ books'.over = books.over
            /\ KeysNow' = KeysNow \cup KeysIn(books, w)
        BY <1>1, <3>3, <4>1, WrittenIs
      <4>3. Unbroken(n) \/ OwesPg(k[1])
        BY <1>1, <1>3, <3>1, <4>2 DEF WaitInv
      <4>4. OwesPg(k[1]) => OwesPg(k[1])'
        BY <3>3, <4>2, OwesWritten
      <4> QED
        BY <3>2, <4>3, <4>4
    <3>4. CASE ~WriteWindow
      <4>1. books' = books /\ KeysNow' = KeysNow /\ resolved' = resolved
        BY <1>3, <2>3, <3>4, WorkFrames
      <4>2. Unbroken(n) \/ OwesPg(k[1])
        BY <1>1, <1>3, <3>1, <4>1 DEF WaitInv
      <4>3. ASSUME OwesPg(k[1]) PROVE OwesPg(k[1])'
        <5>1. PICK b : b = k[1]
          OBVIOUS
        <5>2. OwesPg(b)
          BY <4>3, <5>1
        <5>3. OwesPg(b)'
          BY <4>1, <5>2, OwesStays
        <5> QED
          BY <5>1, <5>3
      <4> QED
        BY <3>2, <4>2, <4>3
    <3> QED
      BY <3>3, <3>4
  <2> QED
    BY <2>1, <2>2, <2>3
<1> QED
  BY <1>2, <1>3

LEMMA TailResolves ==
  ASSUME MaxStreams = 1, RestartInv, Live, Resolve, \A u \in books'.staged : ~PgStaged(u)'
  PROVE  Unbroken(0)'
<1>1. /\ CoverInv /\ KeepInv /\ TypeInv /\ PlaceInv /\ OriginInv /\ ComingInv /\ AgainInv /\ OrderInv
      /\ books \in GoodBooks
  BY RestartParts, KeepParts, HeldIs
<1>2. /\ books'.staged = Waiting(books, job.keys) /\ ResolvedNow \subseteq InBooks
      /\ Awaited' = Awaited \ ResolvedNow /\ lastSeen' = lastSeen
  BY <1>1, ResolvedIs
<1>3. HubsOf(Awaited') = HubsOf(Awaited)' /\ Seqs(Awaited') = Seqs(Awaited)'
  BY DEF HubsOf, Seqs, Awaited
<1> SUFFICES ASSUME NEW r \in HubsOf(Awaited'), NEW m \in Int, r.seq <= m, m <= lastSeen
             PROVE  m \in Seqs(Awaited')
  BY <1>2, <1>3 DEF Unbroken, ToLast
<1>4. r \in Awaited /\ r \notin ResolvedNow /\ r.kind = "hub" /\ r \in HubsOf(Awaited)
  BY <1>2 DEF HubsOf
<1>5. r \in Unstaged \/ (r \in InBooks /\ ~job.all)
  BY <1>1, <1>4, StillHeld
<1>6. CASE r \in InBooks /\ ~job.all
  <2>1. PICK w \in Waiting(books, job.keys) : w.rec.seq <= r.seq
    BY <1>1, <1>4, <1>6, LeftBehind
  <2>2. w \in books'.staged /\ w.left # {}
    BY <1>1, <1>2, <2>1, WaitingAre
  <2>3. PICK k \in w.left : TRUE
    BY <2>2
  <2>4. Unbroken(w.rec.seq)' \/ OwesPg(k[1])'
    BY <2>2, WaitResolves
  <2>5. ~OwesPg(k[1])'
    BY DEF OwesPg
  <2>6. Unbroken(w.rec.seq)'
    BY <2>4, <2>5
  <2> QED
    BY <1>2, <1>3, <2>1, <2>6 DEF Unbroken, ToLast
<1>7. CASE r \in Unstaged
  <2>1. r \in HubsOf(Unstaged)
    BY <1>4, <1>7 DEF HubsOf
  <2>2. m \in Seqs(Unstaged)
    BY <1>1, <2>1 DEF ComingInv, ToLast
  <2>3. PICK x \in HubsOf(Unstaged) : x.seq = m
    BY <2>2 DEF Seqs
  <2>4. x \in files \cup resolved /\ x.kind = "hub" /\ x \in Unstaged
    BY <1>1, <2>3 DEF OriginInv, Held, Unstaged, HubsOf
  <2>5. x \notin ResolvedNow
    <3>1. Before(InBooks, Unstaged)
      BY <1>1 DEF OrderInv, Before, HubsOf, Unstaged
    <3>2. x \in InBooks => x.seq < x.seq
      BY <2>3, <2>4, <3>1 DEF Before, HubsOf
    <3>3. ~(x.seq < x.seq)
      BY <2>3
    <3> QED
      BY <1>2, <3>2, <3>3
  <2>6. CASE x \notin resolved
    BY <1>2, <2>3, <2>4, <2>5, <2>6 DEF Seqs, HubsOf, Awaited
  <2>7. CASE x \in resolved
    <3>1. x \in HubsOf(resolved)
      BY <2>4, <2>7 DEF HubsOf
    <3>2. ~(r.seq < m)
      BY <1>1, <1>4, <2>3, <2>4, <3>1 DEF AgainInv
    <3>3. r.seq \in Int
      <4>1. r \in HubsOf(files \cup pend \cup Held)
        BY <1>4 DEF HubsOf, Awaited
      <4>2. r.seq \in Sequences
        BY <1>1, <4>1 DEF PlaceInv
      <4> QED
        BY <1>1, <4>2, LogIs
    <3>4. r.seq = m
      BY <3>2, <3>3
    <3> QED
      BY <3>4 DEF Seqs
  <2> QED
    BY <2>6, <2>7
<1> QED
  BY <1>5, <1>6, <1>7

LEMMA TailStep ==
  ASSUME MaxStreams = 1, RestartInv, [Next]_vars
  PROVE  TailInv'
<1>1. /\ KeepInv /\ TypeInv /\ SafeInv /\ JobShape /\ InRow(books, job) /\ TailInv
  BY RestartParts
<1> SUFFICES ASSUME Live' PROVE Unbroken(0)' \/ \E u \in books'.staged : PgStaged(u)'
  BY DEF TailInv, PgStaged
<1>2. CASE ~Live \/ ResumeFromHub
  <2>1. Awaited' = {}
    BY <1>1, <1>2, NothingHeld
  <2>2. Unbroken(0)'
    BY <2>1 DEF Unbroken, HubsOf
  <2> QED
    BY <2>2
<1>3. CASE Live /\ ~ResumeFromHub
  <2>1. CASE Resolve
    BY <1>3, <2>1, TailResolves
  <2>2. CASE ~Resolve
    <3>1. resolved' = resolved
      BY <1>3, <2>2, WorkFrames
    <3>2. books.staged \subseteq books'.staged
      <4>1. CASE StageNext
        <5>1. PICK h : h = Head(job.todo)
          OBVIOUS
        <5>2. StagedAs(books', books, h, archive)
          BY <1>1, <4>1, <5>1, StagedIs
        <5> QED
          BY <5>2 DEF StagedAs
      <4>2. CASE WriteWindow
        <5>1. PICK w : w = Min(job.windows)
          OBVIOUS
        <5>2. books'.staged = books.staged
          BY <1>1, <4>2, <5>1, WrittenIs
        <5> QED
          BY <5>2
      <4>3. CASE ~StageNext /\ ~WriteWindow
        <5>1. books' = books
          BY <1>3, <2>2, <4>3, WorkFrames
        <5> QED
          BY <5>1
      <4> QED
        BY <4>1, <4>2, <4>3
    <3>3. CASE Unbroken(0)
      BY <1>3, <2>2, <3>3, UnbrokenStays
    <3>4. CASE \E u \in books.staged : PgStaged(u)
      <4>1. PICK u \in books.staged : PgStaged(u)
        BY <3>4
      <4>2. u \in books'.staged /\ PgStaged(u)'
        BY <3>1, <3>2, <4>1 DEF PgStaged
      <4> QED
        BY <4>2
    <3> QED
      BY <1>1, <1>3, <3>3, <3>4 DEF TailInv
  <2> QED
    BY <2>1, <2>2
<1> QED
  BY <1>2, <1>3

-------------------------------------------------------------------------------
(* What a process leaves in the journal, and what the next one finds there.    *)
LEMMA LeavesNoHole ==
  ASSUME RestartInv, Live
  PROVE  PgsOf(Awaited) # {} \/ NoHoleIn(Seqs(Awaited))
<1>1. /\ TypeInv /\ PlaceInv /\ OriginInv /\ TailInv
  BY RestartParts
<1>2. CASE \E u \in books.staged : PgStaged(u)
  <2>1. PICK u \in books.staged : PgStaged(u)
    BY <1>2
  <2>2. u.rec \in InBooks /\ u.rec.kind = "pg" /\ u.rec \notin resolved
    BY <2>1 DEF PgStaged, InBooks, Stocked
  <2>3. u.rec \in PgsOf(Awaited)
    BY <1>1, <2>2 DEF OriginInv, Held, PgsOf, Awaited
  <2> QED
    BY <2>3
<1>3. CASE Unbroken(0)
  <2> SUFFICES ASSUME NEW m \in Seqs(Awaited), NEW k \in Seqs(Awaited), NEW n \in Int, m <= n, n <= k
               PROVE  n \in Seqs(Awaited)
    BY DEF NoHoleIn
  <2>1. PICK r \in HubsOf(Awaited) : r.seq = m
    BY DEF Seqs
  <2>2. PICK s \in HubsOf(Awaited) : s.seq = k
    BY DEF Seqs
  <2>3. r \in HubsOf(pend \cup Held) /\ s \in HubsOf(pend \cup Held)
    BY <1>1 DEF PlaceInv, HubsOf, Awaited
  <2>4. /\ r.seq \in Sequences /\ s.seq \in Sequences /\ s.seq <= lastSeen
    BY <1>1, <2>3 DEF PlaceInv, HubsOf
  <2>5. /\ m \in Int /\ k \in Int /\ lastSeen \in Int /\ 0 <= m /\ k <= lastSeen
    <3>1. m \in Nat /\ k \in Nat /\ k <= lastSeen
      BY <1>1, <2>1, <2>2, <2>4, LogIs
    <3> QED
      BY <1>1, <3>1, CursorsAre
  <2>6. n <= lastSeen
    BY <2>5
  <2> QED
    BY <1>3, <2>1, <2>5, <2>6 DEF Unbroken, ToLast
<1> QED
  BY <1>1, <1>2, <1>3 DEF TailInv

LEMMA FindsNoHole ==
  ASSUME MaxStreams = 1, RestartInv, Restart
  PROVE  /\ Awaited' = Kept /\ files' = Kept
         /\ PgsOf(Awaited) # {} => PgsOf(Kept) # {}
         /\ NoHoleIn(Seqs(Awaited)) => NoHoleIn(Seqs(Kept))
<1>1. KeepInv /\ TypeInv /\ PlaceInv
  BY RestartParts
<1>2. files' = Kept /\ Kept \subseteq Awaited /\ resolved' = resolved
  BY <1>1, RestartCursors DEF Awaited
<1>3. Awaited' = Kept
  <2>1. Awaited' = files' \ resolved'
    BY DEF Awaited
  <2> QED
    BY <1>2, <2>1 DEF Awaited
<1>4. ASSUME NEW r \in PgsOf(Awaited) PROVE r \in PgsOf(Kept)
  <2>1. r \in files /\ r \notin resolved /\ r.kind = "pg"
    BY DEF PgsOf, Awaited
  <2>2. ~AlreadyCommitted(r, resolved, ckpt.stream, Base.high)
    BY <2>1 DEF AlreadyCommitted, InStream
  <2> QED
    BY <2>1, <2>2 DEF PgsOf, Kept
<1>5. ASSUME NoHoleIn(Seqs(Awaited)), NEW m \in Seqs(Kept), NEW k \in Seqs(Kept),
             NEW n \in Int, m <= n, n <= k
      PROVE  n \in Seqs(Kept)
  <2>1. PICK r \in HubsOf(Kept) : r.seq = m
    BY DEF Seqs
  <2>2. m \in Seqs(Awaited) /\ k \in Seqs(Awaited)
    BY <1>2 DEF Seqs, HubsOf
  <2>3. n \in Seqs(Awaited)
    BY <1>5, <2>2 DEF NoHoleIn
  <2>4. PICK x \in HubsOf(Awaited) : x.seq = n
    BY <2>3 DEF Seqs
  <2>5. /\ r \in HubsOf(files \cup pend \cup Held) /\ x \in HubsOf(files \cup pend \cup Held)
    BY <1>2, <2>1, <2>4 DEF HubsOf, Awaited
  <2>6. r.stream = 1 /\ x.stream = 1 /\ m \in Int
    <3>1. r.seq \in Sequences /\ r = Rec(r.seq) /\ x.seq \in Sequences /\ x = Rec(x.seq)
      BY <1>1, <2>5 DEF PlaceInv
    <3>2. Rec(r.seq).stream = 1 /\ Rec(x.seq).stream = 1 /\ r.seq \in Nat
      BY <1>1, <3>1, RecIs
    <3> QED
      BY <2>1, <3>1, <3>2
  <2>7. r.kind = "hub" /\ x.kind = "hub" /\ x \in files /\ x \notin resolved
    BY <2>1, <2>4 DEF HubsOf, Awaited
  <2>8. InStream(r, ckpt.stream) <=> InStream(x, ckpt.stream)
    BY <2>6, <2>7 DEF InStream
  <2>9. InStream(r, ckpt.stream) => ~(m <= Base.high)
    BY <2>1, <2>7 DEF HubsOf, Kept, AlreadyCommitted
  <2>10. Base.high \in Int
    <3>1. Base.high \in {ckpt.mat, manifest.high}
      BY <1>1, RestartCursors
    <3> QED
      BY <1>1, <3>1, CursorsAre
  <2>11. InStream(x, ckpt.stream) => ~(n <= Base.high)
    BY <2>6, <2>8, <2>9, <2>10, <1>5
  <2>12. x \in Kept
    BY <2>4, <2>7, <2>11 DEF Kept, AlreadyCommitted
  <2> QED
    BY <2>4, <2>7, <2>12 DEF Seqs, HubsOf
<1>6. NoHoleIn(Seqs(Awaited)) => NoHoleIn(Seqs(Kept))
  BY <1>5 DEF NoHoleIn
<1> QED
  BY <1>2, <1>3, <1>4, <1>6

(* The sequences that a start looks at are those of what it keeps.             *)
LEMMA StartSeqs ==
  ASSUME MaxStreams = 1, RestartInv, Restart
  PROVE  /\ Seqs(Kept) \subseteq Int /\ IsFiniteSet(Seqs(Kept))
         /\ phase' = IF Contiguous(Seqs(Kept)) THEN "init" ELSE "wedged"
         /\ cut' = (cut /\ (tail # "whole" \/ ~Contiguous(Seqs(Kept))))
<1>1. KeepInv /\ TypeInv /\ PlaceInv
  BY RestartParts
<1>2. PICK q \in Orders(Kept) :
        RestartWith(q) /\ cut' = (cut /\ (tail # "whole" \/ ~Contiguous(SeqsIn(NowIn(q)))))
  BY DEF Restart, Base, Kept, HubsIn, NowIn, SeqsIn, RestartWith
<1>3. PICK S : S = SeqsIn(NowIn(q))
  OBVIOUS
<1>4. S \subseteq Int /\ IsFiniteSet(S)
  <2>1. S \subseteq Nat /\ IsFiniteSet(S)
    BY <1>1, <1>2, <1>3, RestartTypes
  <2> QED
    BY <2>1
<1>10. \A x \in HubsOf(Kept) : x = Rec(x.seq) /\ x.stream = 1
  <2>1. Kept \subseteq files
    BY <1>1, RestartCursors
  <2> SUFFICES ASSUME NEW x \in HubsOf(Kept) PROVE x = Rec(x.seq) /\ x.stream = 1
    OBVIOUS
  <2>2. x \in HubsOf(files \cup pend \cup Held)
    BY <2>1 DEF HubsOf
  <2>3. x.seq \in Sequences /\ x = Rec(x.seq)
    BY <1>1, <2>2 DEF PlaceInv
  <2>4. Rec(x.seq).stream = 1
    BY <1>1, <2>3, RecIs
  <2> QED
    BY <2>3, <2>4
<1>11. S = Seqs(Kept)
  <2>1. CASE \E r \in Kept : r.kind = "hub"
    <3>1. PICK r \in Kept : r.kind = "hub"
      BY <2>1
    <3>2. NowIn(q) = 1
      BY <1>1, <1>2, <1>10, <3>1, NowIsOne
    <3>3. {x \in Kept : x.kind = "hub" /\ x.stream = 1} = HubsOf(Kept)
      BY <1>10 DEF HubsOf
    <3> QED
      BY <1>3, <3>2, <3>3 DEF SeqsIn, Seqs
  <2>2. CASE ~\E r \in Kept : r.kind = "hub"
    BY <1>3, <2>2 DEF SeqsIn, Seqs, HubsOf
  <2> QED
    BY <2>1, <2>2
<1> QED
  BY <1>2, <1>3, <1>4, <1>11 DEF RestartWith

LEMMA NoHoleIsContiguous ==
  ASSUME NEW S, S \subseteq Int, IsFiniteSet(S)
  PROVE  Contiguous(S) <=> NoHoleIn(S)
<1>1. ASSUME NoHoleIn(S), NEW n \in S PROVE n = Max(S) \/ n + 1 \in S
  <2>1. Max(S) \in S /\ Max(S) >= n
    BY <1>1, MaxIs
  <2>2. PICK k : k = Max(S)
    OBVIOUS
  <2>3. k \in S /\ k \in Int /\ n \in Int /\ k >= n
    BY <1>1, <2>1, <2>2
  <2>4. k # n => n <= n + 1 /\ n + 1 <= k /\ n + 1 \in Int
    BY <2>3
  <2> QED
    BY <1>1, <2>2, <2>3, <2>4 DEF NoHoleIn
<1>2. ASSUME Contiguous(S), NEW m \in S, NEW k \in S, NEW n \in Int, m <= n, n <= k, n \notin S
      PROVE  FALSE
  <2>1. PICK T : T = {x \in S : x < n}
    OBVIOUS
  <2>2. T \subseteq S /\ T \subseteq Int /\ IsFiniteSet(T)
    BY <2>1, FS_Subset
  <2>3. m \in T /\ m \in Int /\ k \in Int
    BY <1>2, <2>1
  <2>4. Max(T) \in T /\ \A y \in T : Max(T) >= y
    BY <2>2, <2>3, MaxIs
  <2>5. PICK x : x = Max(T)
    OBVIOUS
  <2>6. x \in S /\ x \in Int /\ x < n /\ \A y \in T : x >= y
    BY <2>1, <2>2, <2>4, <2>5
  <2>7. x # Max(S)
    <3>1. \A y \in S : Max(S) >= y
      BY <1>2, MaxIs
    <3>2. x = Max(S) => x >= k
      BY <3>1
    <3> QED
      BY <1>2, <2>3, <2>6, <3>2
  <2>8. x + 1 \in S
    BY <1>2, <2>6, <2>7 DEF Contiguous
  <2>9. x + 1 \in T
    BY <1>2, <2>1, <2>6, <2>8
  <2> QED
    BY <2>6, <2>9
<1> QED
  BY <1>1, <1>2 DEF Contiguous, NoHoleIn

(* Only an unfinished append leaves a last line that is not whole.             *)
LEMMA TailFrames ==
  ASSUME [Next]_vars
  PROVE  /\ cut' = cut \/ Crash \/ Restart
         /\ tail' = tail \/ Resolve \/ Crash
         /\ Resolve => cut' = cut /\ (tail' = tail \/ tail # "whole")
<1>1. CASE UNCHANGED vars \/ MarketStep \/ SourceStep \/ IngestStep \/ GapStep
  BY <1>1 DEF vars, disk, ghost, MarketStep, Publish, Persist, HubRestart, SourceStep, Connects,
     Drops, ReplayUnavailable, IngestStep, IngestNew, IngestKnown, IngestPaused, GapStep,
     PlanBackfill, Backfill, Backfilled, ResumeFromHub
<1>2. CASE Resolve
  BY <1>2 DEF Resolve, ghost
<1>3. CASE WriterStep /\ ~Resolve
  <2>1. WorkerTakes \/ StageNext \/ Staged \/ FlushAll => UNCHANGED <<disk, ghost>>
    BY DEF WorkerTakes, StageNext, Staged, FlushAll
  <2>2. WriteWindow \/ WriteManifest \/ SaveCheckpoint => UNCHANGED <<tail, ghost>>
    BY DEF WriteWindow, WriteManifest, SaveCheckpoint
  <2>3. ASSUME NEW r \in job.receipts, Unlink(r) PROVE UNCHANGED <<tail, ghost>>
    BY <2>3 DEF Unlink
  <2>4. UNCHANGED <<tail, ghost>>
    BY <1>3, <2>1, <2>2, <2>3 DEF WriterStep, disk
  <2> QED
    BY <2>4 DEF ghost
<1>4. Resolve => cut' = cut /\ (tail' = tail \/ tail # "whole")
  BY DEF Resolve, ghost
<1>5. CASE LifeStep
  BY <1>4, <1>5 DEF LifeStep, GivesUp, Signaled, Stop, Restart, disk
<1> QED
  BY <1>1, <1>2, <1>3, <1>4, <1>5 DEF Next

LEMMA RestStep ==
  ASSUME MaxStreams = 1, RestartInv, [Next]_vars
  PROVE  RestInv'
<1>1. /\ CoverInv /\ KeepInv /\ TypeInv /\ SafeInv /\ JobShape /\ PlaceInv /\ RestInv /\ TurnInv
      /\ InRow(books, job) /\ FlushTyped
  BY RestartParts, CoverParts, TypeInvIs
<1>2. PgsOf(Awaited') = PgsOf(Awaited)' /\ Seqs(Awaited') = Seqs(Awaited)'
  BY DEF PgsOf, Seqs, HubsOf, Awaited
<1>3. CASE Restart
  <2>1. /\ Awaited' = Kept /\ files' = Kept
        /\ PgsOf(Awaited) # {} => PgsOf(Kept) # {}
        /\ NoHoleIn(Seqs(Awaited)) => NoHoleIn(Seqs(Kept))
    BY <1>3, FindsNoHole
  <2>2. ~Live
    BY <1>3 DEF Restart, Live
  <2>3. PgsOf(Kept) # {} \/ NoHoleIn(Seqs(Kept)) \/ cut
    BY <1>1, <2>1, <2>2 DEF RestInv
  <2>4. /\ phase' = "init" <=> NoHoleIn(Seqs(Kept))
        /\ cut' = (cut /\ (tail # "whole" \/ ~NoHoleIn(Seqs(Kept))))
    BY <1>3, StartSeqs, NoHoleIsContiguous
  <2>5. PgsOf(Kept) # {} \/ NoHoleIn(Seqs(Kept)) \/ cut'
    BY <2>3, <2>4
  <2>6. phase' = "wedged" => PgsOf(Kept) # {} \/ cut'
    BY <2>4, <2>5
  <2>7. tail' # "whole" => cut'
    BY <1>1, <1>3, <2>4 DEF RestInv, Restart
  <2> QED
    BY <1>2, <2>1, <2>5, <2>6, <2>7 DEF RestInv, NoHoleIn, PgsOf
<1>4. CASE ~Restart
  <2>1. ASSUME phase' = "wedged"
        PROVE  phase = "wedged" /\ files' = files /\ cut' = cut
    <3>1. job.all => phase # "wedged"
      BY <1>1 DEF FlushTyped, Flushing
    <3>2. SaveCheckpoint /\ job.all => phase' # "wedged"
      <4>1. SaveCheckpoint /\ job.all => phase' = AfterFlush[phase] /\ phase \in Flushing
        BY <1>1 DEF SaveCheckpoint, FlushTyped
      <4>2. \A p \in Flushing : AfterFlush[p] # "wedged"
        BY DEF Flushing, AfterFlush
      <4> QED
        BY <4>1, <4>2
    <3>3. phase = "wedged"
      <4>1. /\ ReplayUnavailable => phase' # "wedged"
            /\ IngestPaused => phase' # "wedged"
            /\ PlanBackfill => phase' # "wedged"
            /\ Backfilled => phase' # "wedged"
            /\ ResumeFromHub => phase' # "wedged"
            /\ GivesUp => phase' # "wedged"
            /\ Signaled => phase' # "wedged"
            /\ Crash => phase' # "wedged"
        BY DEF ReplayUnavailable, IngestPaused, PlanBackfill, Backfilled, ResumeFromHub, GivesUp,
               Signaled, Crash, Stop
      <4> QED
        BY <1>4, <2>1, <3>2, <4>1, PhaseFrom
    <3>4. job.step = "idle"
      BY <1>1, <3>1, <3>3 DEF TurnInv
    <3>5. ~IngestNew /\ ~Backfill /\ ~Unlinks /\ ~Crash
      BY <3>3, <3>4 DEF IngestNew, Delivered, Backfill, Unlinks, Unlink, Crash
    <3> QED
      BY <1>4, <3>3, <3>5, Frames, TailFrames
  <2>2. ASSUME ~Live', ~cut' PROVE PgsOf(Awaited') # {} \/ NoHoleIn(Seqs(Awaited'))
    <3>0. UNCHANGED resolved \/ ~Crash
      BY <2>2, CrashLeaves
    <3>1. PgsOf(Awaited) # {} \/ NoHoleIn(Seqs(Awaited))
      <4>1. ~cut
        BY <1>4, <2>2, TailFrames, CrashLeaves
      <4> QED
        BY <1>1, <4>1, LeavesNoHole DEF RestInv
    <3>2. CASE Resolve
      <4>1. Awaited' = Awaited \ ResolvedNow /\ phase' = phase
        BY <1>1, <3>2, ResolvedIs
      <4>2. ~Live
        BY <2>2, <4>1 DEF Live
      <4>3. Awaited' = {}
        BY <1>1, <3>2, <4>1, <4>2, StillHeld
      <4> QED
        BY <4>3 DEF NoHoleIn, Seqs, HubsOf
    <3>3. CASE ~Resolve
      <4>1. Awaited' = files' \ resolved'
        BY DEF Awaited
      <4>2. IngestNew => phase' = "run"
        BY <1>1, ToldIs
      <4>3. Backfill => phase' = "backfill"
        BY <1>1, ToldIs
      <4>4. ~IngestNew /\ ~Backfill
        BY <2>2, <4>2, <4>3 DEF Live
      <4>5. WorkerTakes => UNCHANGED <<files, resolved>>
        BY <1>1, TakenIs
      <4>6. StageNext => UNCHANGED <<files, resolved>>
        BY <1>1, StagedIs
      <4>7. WriteWindow => UNCHANGED <<files, resolved>>
        <5>1. PICK w : w = Min(job.windows)
          OBVIOUS
        <5> QED
          BY <1>1, <5>1, WrittenIs
      <4>8. Crash => UNCHANGED <<files, resolved>>
        BY <3>0 DEF Crash
      <4>9. Quiet => Awaited' = Awaited
        BY DEF Quiet
      <4>10. UNCHANGED <<files, resolved>> => Awaited' = Awaited
        BY <4>1 DEF Awaited
      <4>11. Awaited' = Awaited
        BY <1>1, <1>4, <3>3, <4>4, <4>5, <4>6, <4>7, <4>8, <4>9, <4>10, Flow
      <4> QED
        BY <3>1, <4>11
    <3> QED
      BY <3>2, <3>3
  <2>3. phase' = "wedged" => PgsOf(files') # {} \/ cut'
    BY <1>1, <2>1 DEF RestInv
  <2>4. tail' # "whole" => cut'
    <3>1. CASE Resolve
      BY <1>1, <3>1, TailFrames DEF RestInv
    <3>2. CASE Crash
      BY <1>1, <3>2, CrashLeaves DEF RestInv
    <3> QED
      BY <1>1, <1>4, <3>1, <3>2, TailFrames DEF RestInv
  <2> QED
    BY <1>2, <2>2, <2>3, <2>4 DEF RestInv, NoHoleIn, PgsOf
<1> QED
  BY <1>3, <1>4

LEMMA RestartStarts == Init => RestartInv
<1> SUFFICES ASSUME Init PROVE RestartInv
  OBVIOUS
<1>1. CoverInv
  BY CoverStarts
<1>2. /\ phase = "down" /\ files = {} /\ resolved = {} /\ accepted = {} /\ queue = <<>>
      /\ archive = [b \in Buckets |-> "none"]
  BY DEF Init
<1>3. books.open = {} /\ job.receipts = {} /\ job.todo = <<>> /\ InBooks = {}
  BY DEF Init, NoBooks, IdleJob, InBooks, Stocked
<1>4. Held = {}
  BY <1>2, <1>3, ElemsAre DEF Held
<1>5. Sequences = {}
  <2>1. hub.log = <<>>
    BY DEF Init
  <2>2. Latest = 0
    BY <2>1 DEF Latest
  <2> QED
    BY <2>2 DEF Sequences
<1>6. OriginInv
  BY <1>2, <1>4 DEF OriginInv, HubsOf, PgsOf
<1>7. BehindInv
  BY <1>5 DEF BehindInv
<1>8. HubRowInv
  BY <1>2, <1>3 DEF HubRowInv
<1>9. BackfillInv
  BY <1>2 DEF BackfillInv, PgsOf
<1>10. ~Live
  BY <1>2 DEF Live
<1>11. WorkInv
  BY <1>10 DEF WorkInv, TurnsInv, ComingInv, AgainInv, AheadOfOpen, AheadOfFiles, StagedAhead
<1>12. RestInv
  <2>1. Seqs(Awaited) = {} /\ tail = "whole"
    BY <1>2 DEF Init, Seqs, HubsOf, Awaited
  <2> QED
    BY <1>2, <2>1 DEF RestInv, NoHoleIn
<1>13. GapInv
  BY <1>10, <1>12 DEF GapInv, OverInv, WaitInv, TailInv
<1> QED
  BY <1>1, <1>6, <1>7, <1>8, <1>9, <1>11, <1>13 DEF RestartInv, StockInv

LEMMA RestartStep == ASSUME MaxStreams = 1, RestartInv, [Next]_vars PROVE RestartInv'
<1>1. CoverInv'
  BY CoverStep DEF RestartInv
<1>2. StockInv'
  BY OriginStep, BehindStep, HubRowStep, BackfillStep DEF StockInv
<1>3. WorkInv'
  BY TurnsStep, ComingStep, AgainStep, AheadOfOpenStep, AheadOfFilesStep, StagedAheadStep
     DEF WorkInv
<1>4. GapInv'
  BY OverStep, WaitStep, TailStep, RestStep DEF GapInv
<1> QED
  BY <1>1, <1>2, <1>3, <1>4 DEF RestartInv

(* With one life of the hub, whatever crashes, failed unlinks, pauses and      *)
(* replay gaps come, a start does not reject the journal, for a hole in its    *)
(* sequences (ResearchCollector.initialize) or for a torn line of its          *)
(* resolutions (_iter_resolutions), unless a record of the database is in it,  *)
(* or a process ended inside an append to the resolutions and no start since   *)
(* found them whole and the journal without a hole.  And when a recovered gap  *)
(* switches back to the hub nothing is pending.                                *)
THEOREM JournalIsAccepted == ASSUME MaxStreams = 1 PROVE Spec => []NeverWedged
<1>1. ASSUME RestartInv PROVE NeverWedged
  <2>1. RestInv /\ PlaceInv
    BY <1>1, RestartParts
  <2>2. Rejected => cut \/ \E r \in files : r.kind = "pg"
    BY <2>1 DEF Rejected, RestInv, PgsOf
  <2>3. phase = "switch" => pend = {}
    BY <2>1 DEF PlaceInv
  <2> QED
    BY <2>2, <2>3 DEF NeverWedged
<1>2. RestartInv /\ [Next]_vars => RestartInv'
  BY RestartStep
<1> QED
  BY <1>1, <1>2, RestartStarts, PTL DEF Spec

-------------------------------------------------------------------------------
(* No hole, through every end of the collector: it met this hub at its start   *)
(* and the database keeps up.  Up to each cursor, every row is had.            *)
FullBy(k)    == \A n \in Sequences : n <= k => Rows(hub.log[n]) \subseteq Have
FullBelow(p) == \A b \in Selected : b < p => b \in Have
InLog(b)     == \E n \in Sequences : hub.log[n].first <= b /\ b <= hub.log[n].last
AllClosed(k) == \A n \in Sequences : n <= k => hub.log[n].last <= gap.until
CoveredByLog == pg = hub.next - 1 /\ \A b \in Buckets : b < hub.next => InLog(b)
AllInOrder   == \A b \in Selected \ Have : \A y \in Have : y < b
CursorsFull ==
  /\ ckpt.mat >= 0
  /\ FullBy(ckpt.mat) /\ FullBy(manifest.mat)
  /\ phase # "down" => FullBy(cur.mat)
  /\ phase \in {"run", "paused"} => FullBy(src.seq)
GapFull ==
  /\ phase = "backfill" => FullBelow(gap.next)
  /\ phase \in {"drain", "switch"} => FullBelow(gap.until + 1)
  /\ phase \in GapPhases \ {"gap"} => AllClosed(gap.latest)
FullInv == RestartInv /\ CoveredByLog /\ AllInOrder /\ CursorsFull /\ GapFull

LEMMA FullParts ==
  ASSUME FullInv
  PROVE  /\ RestartInv /\ CoverInv /\ KeepInv /\ TypeInv /\ SafeInv /\ JobShape
         /\ PlaceInv /\ CursorInv /\ LogInv /\ OriginInv /\ HubRowInv
         /\ CoveredByLog /\ AllInOrder /\ CursorsFull /\ GapFull
  BY RestartParts, KeepParts DEF FullInv

LEMMA SafeIsHad ==
  ASSUME TypeInv
  PROVE  Safe \subseteq Have /\ Archived \subseteq Have /\ \A r \in files : r.rows \subseteq Have
<1>1. Archived \subseteq Have /\ \A r \in files : r.rows \subseteq Have
  BY DEF Archived, Have
<1>2. Safe \subseteq Have
  BY DEF Safe, Have
<1> QED
  BY <1>1, <1>2

LEMMA CursorsLow ==
  ASSUME FullInv
  PROVE  /\ {ckpt.mat, manifest.mat, cur.mat, cur.acc, ckpt.bucket, src.seq, Latest} \subseteq Int
         /\ ckpt.mat <= Latest /\ manifest.mat <= Latest /\ cur.mat <= Latest /\ cur.acc <= Latest
         /\ phase # "down" => cur.mat >= 0
         /\ phase \in {"run", "paused"} => src.seq # NoSeq /\ src.seq <= Latest
<1>1. TypeInv /\ CursorInv /\ CursorsFull
  BY FullParts
<1>2. {ckpt.mat, ckpt.acc, manifest.mat, manifest.acc, cur.mat, cur.acc, ckpt.bucket, src.seq}
        \subseteq Int
  BY <1>1 DEF TypeInv, TypeOK, Cursors
<1>3. Latest \in Nat
  BY <1>1, LogIs
<1>4. /\ cur.mat <= cur.acc /\ cur.acc <= Latest
      /\ manifest.mat <= manifest.acc /\ manifest.acc <= cur.acc
      /\ ckpt.mat <= ckpt.acc /\ (ckpt.acc <= cur.acc \/ ckpt.acc <= 0)
  BY <1>1 DEF CursorInv
<1>5. /\ phase # "down" => ckpt.mat <= cur.mat
      /\ phase \in {"run", "paused"} => src.seq <= cur.acc /\ (src.seq = NoSeq => cur.mat = NoSeq)
      /\ ckpt.mat >= 0
  BY <1>1 DEF CursorInv, CursorsFull
<1>6. phase # "down" => cur.mat >= 0
  BY <1>2, <1>5
<1>7. phase \in {"run", "paused"} => src.seq # NoSeq
  BY <1>2, <1>5, <1>6 DEF NoSeq
<1> QED
  BY <1>2, <1>3, <1>4, <1>5, <1>6, <1>7

(* Nothing that is had gets lost, and what is new has just arrived.            *)
LEMMA HadGrows ==
  ASSUME MaxStreams = 1, RestartInv, [Next]_vars
  PROVE  Have \subseteq Have'
<1>1. KeepInv /\ OriginInv /\ KeepInv' /\ SafeInv
  <2>1. RestartInv'
    BY RestartStep
  <2>2. KeepInv'
    BY <2>1 DEF RestartInv, CoverInv
  <2> QED
    BY <2>2, RestartParts
<1>2. Safe' \subseteq Have' /\ Archived' \subseteq Have' /\ \A r \in files' : r.rows \subseteq Have'
  <2>1. Archived' \subseteq Have' /\ \A r \in files' : r.rows \subseteq Have'
    BY DEF Archived, Have
  <2>2. Safe' \subseteq Have'
    BY DEF Safe, Have
  <2> QED
    BY <2>1, <2>2
<1>3. Archived \subseteq Archived'
  BY <1>1, SafeGrows
<1>4. \A r \in accepted' : r \in files' \/ r.rows \subseteq Safe'
  BY <1>1 DEF KeepInv, AcceptedInv
<1>5. files \subseteq accepted /\ accepted \subseteq accepted'
  BY <1>1, HubsStay DEF OriginInv
<1>6. \A r \in files : r.rows \subseteq Have'
  BY <1>2, <1>4, <1>5
<1>7. \A y \in Have : y \in Archived \/ \E r \in files : y \in r.rows
  BY DEF Have, Archived
<1> QED
  BY <1>2, <1>3, <1>6, <1>7

LEMMA WritesWhatIsHad ==
  ASSUME FullInv, WriteWindow, NEW y \in Buckets, archive'[y] # "none"
  PROVE  y \in Have
<1>1. SafeInv /\ JobShape /\ TypeInv /\ HubRowInv /\ AcceptedInv
  BY FullParts, KeepParts
<1>2. InRow(books, job)
  BY RestartParts DEF FullInv
<1>3. Safe \subseteq Have /\ Archived \subseteq Have /\ \A r \in files : r.rows \subseteq Have
  BY <1>1, SafeIsHad
<1>4. PICK w : w = Min(job.windows)
  OBVIOUS
<1>5. /\ books \in GoodBooks /\ w \in books.open
      /\ \A b \in Buckets : archive'[b] = IF Window(b) = w THEN books.rows[b] ELSE archive[b]
  BY <1>1, <1>2, <1>4, WrittenIs
<1>6. CASE Window(y) # w
  BY <1>3, <1>5, <1>6 DEF Archived
<1>7. CASE Window(y) = w /\ books.rows[y] = "pg"
  <2>1. OpenSafe(books, Safe)
    BY <1>1 DEF SafeInv, BooksSafe
  <2> QED
    BY <1>3, <1>5, <1>7, <2>1 DEF OpenSafe
<1>8. CASE Window(y) = w /\ books.rows[y] = "hub"
  <2>1. HubRow(y)
    BY <1>1, <1>5, <1>8 DEF HubRowInv
  <2>2. PICK r \in accepted : y \in r.rows
    BY <2>1 DEF HubRow, HubsOf
  <2> QED
    BY <1>1, <1>3, <2>2 DEF AcceptedInv
<1>9. books.rows[y] \in {"hub", "pg", "none"}
  BY <1>5 DEF GoodBooks, Books, Version, Kinds
<1> QED
  BY <1>5, <1>6, <1>7, <1>8, <1>9

LEMMA HadFrom ==
  ASSUME MaxStreams = 1, FullInv, [Next]_vars, NEW y \in Have'
  PROVE  \/ y \in Have
         \/ IngestNew /\ y \in Rows(Arrived)
         \/ Backfill /\ y \in {gap.next} \cap Selected
<1>1. TypeInv /\ SafeInv /\ JobShape
  BY FullParts
<1>2. Archived \subseteq Have /\ \A r \in files : r.rows \subseteq Have
  BY <1>1, SafeIsHad
<1>3. (y \in Buckets /\ archive'[y] # "none") \/ \E r \in files' : y \in r.rows
  BY DEF Have
<1>4. CASE y \in Buckets /\ archive'[y] # "none"
  <2>1. CASE WriteWindow
    BY <1>4, <2>1, WritesWhatIsHad
  <2>2. CASE ~WriteWindow
    <3>1. archive' = archive
      BY <2>2, Frames
    <3> QED
      BY <1>2, <1>4, <3>1 DEF Archived
  <2> QED
    BY <2>1, <2>2
<1>5. CASE \E r \in files' : y \in r.rows
  <2>1. PICK r \in files' : y \in r.rows
    BY <1>5
  <2>2. CASE r \in files
    BY <1>2, <2>1, <2>2
  <2>3. CASE IngestNew /\ r \notin files
    <3>1. r = ArrivedRecord
      BY <1>1, <2>1, <2>3, ToldIs
    <3> QED
      BY <2>1, <2>3, <3>1 DEF ArrivedRecord, HubRecord
  <2>4. CASE Backfill /\ r \notin files
    <3>1. r = BackfillBatch
      BY <1>1, <2>1, <2>4, ToldIs
    <3>2. BackfillBatch.rows = {gap.next} \cap Selected
      BY <1>1, <2>4, BackfillIs
    <3> QED
      BY <2>1, <2>4, <3>1, <3>2
  <2>5. CASE ~IngestNew /\ ~Backfill /\ r \notin files
    <3>1. files' \subseteq files
      <4>1. CASE Restart
        BY <1>1, <4>1, FilesFrom
      <4>2. CASE Unlinks
        BY <1>1, <4>2, UnlinkedIs DEF Unlinks
      <4> QED
        BY <2>5, <4>1, <4>2, Frames
    <3> QED
      BY <2>1, <2>5, <3>1
  <2> QED
    BY <2>2, <2>3, <2>4, <2>5
<1> QED
  BY <1>3, <1>4, <1>5

(* What was full stays full.                                                   *)
LEMMA LogStays ==
  ASSUME MaxStreams = 1, FullInv, [Next]_vars, NEW n \in Sequences', n <= Latest
  PROVE  n \in Sequences /\ Rows(hub'.log[n]) = Rows(hub.log[n]) /\ hub'.log[n] = hub.log[n]
<1>1. TypeInv
  BY FullParts
<1>2. n \in Sequences
  <2>1. n \in 1..Latest' /\ Latest \in Nat /\ Latest' \in Nat
    BY <1>1, LogGrows DEF Sequences
  <2> QED
    BY <2>1 DEF Sequences
<1>3. hub'.log[n] = hub.log[n]
  BY <1>1, <1>2, LogGrows
<1> QED
  BY <1>2, <1>3

LEMMA ByStays ==
  ASSUME MaxStreams = 1, FullInv, [Next]_vars, NEW k \in Int, k <= Latest, FullBy(k)
  PROVE  FullBy(k)'
<1> SUFFICES ASSUME NEW n \in Sequences', n <= k PROVE Rows(hub'.log[n]) \subseteq Have'
  BY DEF FullBy, Rows
<1>1. n <= Latest
  <2>1. n \in 1..Latest' /\ Latest \in Nat /\ Latest' \in Nat
    BY FullParts, LogGrows DEF Sequences
  <2> QED
    BY <2>1
<1>2. n \in Sequences /\ Rows(hub'.log[n]) = Rows(hub.log[n])
  BY <1>1, LogStays
<1>3. Rows(hub.log[n]) \subseteq Have
  BY <1>2 DEF FullBy
<1>4. Have \subseteq Have'
  BY FullParts, HadGrows
<1> QED
  BY <1>2, <1>3, <1>4

LEMMA FilledStays ==
  ASSUME MaxStreams = 1, FullInv, [Next]_vars, NEW p, FullBelow(p)
  PROVE  FullBelow(p)'
<1>1. Have \subseteq Have'
  BY FullParts, HadGrows
<1> QED
  BY <1>1 DEF FullBelow

(* The batch that comes next follows what is full.                             *)
LEMMA ComesNext ==
  ASSUME MaxStreams = 1, FullInv, Delivered
  PROVE  /\ link \in Sequences /\ link \in Int /\ src.seq \in Int /\ link = src.seq + 1
         /\ link <= Latest /\ FullBy(src.seq)
<1>1. phase = "run" /\ link \in Sequences
  BY FullParts, ArrivedIsRec
<1>2. src.seq \in Int /\ src.seq # NoSeq
  BY <1>1, CursorsLow
<1>3. Latest \in Nat /\ link \in 1..Latest
  BY <1>1, FullParts, LogIs DEF Sequences
<1>4. link = src.seq + 1
  BY <1>2, <1>3, FullParts DEF CursorInv
<1>5. FullBy(src.seq)
  BY <1>1, FullParts DEF CursorsFull
<1> QED
  BY <1>1, <1>2, <1>3, <1>4, <1>5

LEMMA ArrivalIsHad ==
  ASSUME MaxStreams = 1, FullInv, IngestNew
  PROVE  Rows(hub.log[link]) \subseteq Have'
<1>1. files' = files \cup {ArrivedRecord}
  BY FullParts, ToldIs
<1>2. ArrivedRecord.rows = Rows(hub.log[link])
  BY DEF ArrivedRecord, HubRecord, Arrived
<1> QED
  BY <1>1, <1>2 DEF Have

LEMMA KnownIsHad ==
  ASSUME MaxStreams = 1, FullInv, IngestKnown
  PROVE  Rows(hub.log[link]) \subseteq Have
<1>1. Delivered
  BY DEF IngestKnown
<1>2. link \in Sequences /\ link \in Int
  BY <1>1, ComesNext
<1>3. link <= cur.acc
  <2>1. link <= lastSeen
    BY FullParts, KnownIs
  <2>2. lastSeen <= cur.acc /\ lastSeen \in Int /\ cur.acc \in Int
    BY FullParts DEF CursorInv, TypeInv, TypeOK, Cursors
  <2> QED
    BY <1>2, <2>1, <2>2
<1>4. Good(link)
  <2>1. link # 0
    BY <1>2, FullParts, LogIs DEF Sequences
  <2>2. Wanted(link)
    BY <1>2, <2>1 DEF Wanted
  <2> QED
    BY <1>2, <2>2, FullParts, KeepParts DEF WantedInv
<1>5. Rec(link) \in files \/ Done(link)
  BY <1>3, <1>4 DEF Good
<1>6. Rec(link).rows = Rows(hub.log[link])
  BY <1>2, FullParts, RecIs
<1> QED
  BY <1>5, <1>6, FullParts, SafeIsHad DEF Done

LEMMA ArrivalFillsBy ==
  ASSUME MaxStreams = 1, FullInv, [Next]_vars, IngestNew \/ IngestKnown, NEW k, k = link
  PROVE  FullBy(k)'
<1>1. Delivered
  BY DEF IngestNew, IngestKnown
<1>2. PICK m : m = src.seq
  OBVIOUS
<1>3. m \in Int /\ k \in Int /\ k = m + 1 /\ k <= Latest /\ FullBy(m) /\ k \in Sequences
  BY <1>1, <1>2, ComesNext
<1>4. Latest \in Int
  BY CursorsLow
<1>5. FullBy(m)'
  BY <1>3, <1>4, ByStays
<1>6. Rows(hub.log[k]) \subseteq Have'
  BY ArrivalIsHad, KnownIsHad, FullParts, HadGrows
<1> SUFFICES ASSUME NEW n \in Sequences', n <= k PROVE Rows(hub'.log[n]) \subseteq Have'
  BY DEF FullBy, Rows
<1>7. n \in Int
  <2>1. n \in 1..Latest' /\ Latest' \in Nat
    BY FullParts, LogGrows DEF Sequences
  <2> QED
    BY <2>1
<1>8. CASE n <= m
  BY <1>5, <1>8 DEF FullBy, Rows
<1>9. CASE n = k
  BY <1>3, <1>6, <1>9, LogStays
<1> QED
  BY <1>3, <1>7, <1>8, <1>9

LEMMA BatchBelow ==
  ASSUME FullInv, NEW b \in Buckets, NEW n \in Sequences, NEW k \in Sequences,
         hub.log[n].first <= b, b <= hub.log[k].last
  PROVE  n \in Int /\ k \in Int /\ n <= k
<1>1. n \in Int /\ k \in Int
  BY FullParts, LogIs
<1>2. /\ hub.log[n].first \in Int /\ hub.log[k].last \in Int /\ b \in Int
  BY FullParts, LogIs DEF Buckets
<1>3. k < n => hub.log[k].last < hub.log[n].first
  BY FullParts DEF LogInv
<1> QED
  BY <1>1, <1>2, <1>3

(* Nothing below the batch that arrives is missing.                            *)
LEMMA ArrivalFillsBelow ==
  ASSUME MaxStreams = 1, FullInv, [Next]_vars, IngestNew,
         NEW b \in Selected, b <= hub.log[link].last
  PROVE  b \in Have'
<1>1. Delivered
  BY DEF IngestNew
<1>2. link \in Sequences /\ link \in Int /\ src.seq \in Int /\ link = src.seq + 1 /\ FullBy(src.seq)
  BY <1>1, ComesNext
<1>3. b \in Buckets /\ b < hub.next
  <2>1. b \in Buckets
    BY SelectedAssumption
  <2>2. hub.log[link].last < hub.next
    BY <1>2, FullParts DEF LogInv
  <2>3. hub.log[link].last \in Int /\ hub.next \in Int /\ b \in Int
    BY <1>2, <2>1, FullParts, LogIs DEF Buckets
  <2> QED
    BY <2>1, <2>2, <2>3
<1>4. PICK n \in Sequences : hub.log[n].first <= b /\ b <= hub.log[n].last
  BY <1>3, FullParts DEF CoveredByLog, InLog
<1>5. n \in Int /\ n <= link
  BY <1>2, <1>3, <1>4, BatchBelow
<1>6. b \in Rows(hub.log[n])
  <2>1. hub.log[n].first \in Int /\ hub.log[n].last \in Int /\ b \in Int
    BY <1>3, FullParts, LogIs DEF Buckets
  <2>2. b \in hub.log[n].first .. hub.log[n].last
    BY <1>4, <2>1
  <2> QED
    BY <2>2 DEF Rows
<1>7. CASE n = link
  BY <1>6, <1>7, ArrivalIsHad
<1>8. CASE n <= src.seq
  BY <1>2, <1>6, <1>8, FullParts, HadGrows DEF FullBy
<1> QED
  BY <1>2, <1>5, <1>7, <1>8

LEMMA LogCoverStep ==
  ASSUME MaxStreams = 1, MaxLag = 0, FullInv, [Next]_vars
  PROVE  CoveredByLog'
<1>1. TypeInv /\ CoveredByLog
  BY FullParts
<1>2. pg = hub.next - 1 /\ hub.next \in Int /\ pg \in Int
  BY <1>1, LogIs DEF CoveredByLog
<1>3. CASE Publishes
  <2>1. PICK k \in 1..2 : Publish(k)
    BY <1>3 DEF Publishes
  <2>2. /\ hub'.next = hub.next + k /\ Sequences' = Sequences \cup {Latest + 1}
        /\ \A n \in Sequences : hub'.log[n] = hub.log[n]
        /\ hub'.log[Latest + 1].first = hub.next
        /\ hub'.log[Latest + 1].last = hub.next + k - 1
    BY <1>1, <2>1, PublishIs
  <2>3. pg' = hub'.next - 1
    <3>1. pg' = Larger(pg, hub.next + k - 1)
      BY <1>2, <2>1 DEF Publish
    <3> QED
      BY <1>2, <2>2, <3>1 DEF Larger
  <2>4. ASSUME NEW b \in Buckets, b < hub'.next PROVE InLog(b)'
    <3>1. CASE b < hub.next
      <4>1. PICK n \in Sequences : hub.log[n].first <= b /\ b <= hub.log[n].last
        BY <1>1, <3>1 DEF CoveredByLog, InLog
      <4>2. n \in Sequences' /\ hub'.log[n] = hub.log[n]
        BY <2>2
      <4> QED
        BY <4>1, <4>2 DEF InLog
    <3>2. CASE hub.next <= b
      <4>1. b <= hub.next + k - 1
        BY <1>2, <2>2, <2>4 DEF Buckets
      <4>2. PICK n : n = Latest + 1
        OBVIOUS
      <4>3. n \in Sequences' /\ hub'.log[n].first <= b /\ b <= hub'.log[n].last
        BY <2>2, <3>2, <4>1, <4>2
      <4> QED
        BY <4>3 DEF InLog
    <3> QED
      BY <1>2, <3>1, <3>2 DEF Buckets
  <2> QED
    BY <2>3, <2>4 DEF CoveredByLog
<1>4. CASE ~Publishes
  <2>1. hub' = hub /\ Sequences' = Sequences
    BY <1>1, <1>4, LogGrows
  <2>2. pg' = pg
    BY <1>2, <1>4, PgFrom
  <2>3. \A b \in Buckets : InLog(b)' <=> InLog(b)
    BY <2>1 DEF InLog
  <2> QED
    BY <1>1, <2>1, <2>2, <2>3 DEF CoveredByLog
<1> QED
  BY <1>3, <1>4

(* What arrives is above what is had, up to the batch or the bucket.           *)
LEMMA AllInOrderStep ==
  ASSUME MaxStreams = 1, FullInv, [Next]_vars
  PROVE  AllInOrder'
<1> SUFFICES ASSUME NEW b \in Selected, b \notin Have', NEW y \in Have' PROVE y < b
  BY DEF AllInOrder
<1>1. b \notin Have /\ b \in Buckets /\ b \in Int
  BY FullParts, HadGrows, SelectedAssumption DEF Buckets
<1>2. CASE y \in Have
  BY <1>1, <1>2, FullParts DEF AllInOrder
<1>3. CASE IngestNew /\ y \in Rows(Arrived)
  <2>1. Arrived = hub.log[link] /\ link \in Sequences
    BY <1>3, ComesNext DEF Arrived, IngestNew
  <2>2. hub.log[link].last \in Int /\ hub.log[link].first \in Int
    BY <2>1, FullParts, LogIs
  <2>3. y \in Int /\ y <= hub.log[link].last
    BY <1>3, <2>1, <2>2 DEF Rows
  <2>4. ~(b <= hub.log[link].last)
    BY <1>3, ArrivalFillsBelow
  <2> QED
    BY <1>1, <2>2, <2>3, <2>4
<1>4. CASE Backfill /\ y \in {gap.next} \cap Selected
  <2>1. phase = "backfill" /\ y = gap.next /\ gap.next \in Buckets
    BY <1>4, FullParts, BackfillIs DEF Backfill
  <2>2. \A c \in Selected : c < gap.next => c \in Have
    BY <2>1, FullParts DEF GapFull, FullBelow
  <2>3. ~(b < y)
    BY <1>1, <2>1, <2>2
  <2>4. b # y
    BY <1>1
  <2> QED
    BY <1>1, <2>1, <2>3, <2>4 DEF Buckets
<1> QED
  BY <1>2, <1>3, <1>4, HadFrom

(* At the end of a gap recovery: the hub's last batch is closed, and full.     *)
LEMMA SwitchIsFull ==
  ASSUME FullInv, phase = "switch"
  PROVE  FullBy(gap.latest) /\ gap.latest \in Int /\ gap.latest <= Latest
<1>1. gap.latest <= Latest
  BY FullParts DEF CursorInv, GapPhases
<1>2. FullBelow(gap.until + 1) /\ AllClosed(gap.latest)
  BY FullParts DEF GapFull, GapPhases
<1>3. gap.latest \in Int /\ gap.until \in Int
  BY FullParts DEF TypeInv, TypeOK
<1>4. ASSUME NEW n \in Sequences, n <= gap.latest, NEW b \in Rows(hub.log[n]) PROVE b \in Have
  <2>1. hub.log[n].last <= gap.until
    BY <1>2, <1>4 DEF AllClosed
  <2>2. b <= hub.log[n].last /\ hub.log[n].last \in Int /\ b \in Buckets
    BY <1>4, FullParts, LogIs
  <2>3. b < gap.until + 1
    BY <1>3, <2>1, <2>2 DEF Buckets
  <2>4. b \in Selected
    BY <1>4 DEF Rows
  <2> QED
    BY <1>2, <2>3, <2>4 DEF FullBelow
<1>5. FullBy(gap.latest)
  BY <1>4 DEF FullBy
<1> QED
  BY <1>1, <1>3, <1>5

(* A cursor of the next state that is one of this state's, or a gap's.         *)
FullAt(k) == k \in Int /\ k <= Latest /\ FullBy(k)
LEMMA FullAts ==
  ASSUME FullInv
  PROVE  /\ FullAt(ckpt.mat) /\ FullAt(manifest.mat)
         /\ phase # "down" => FullAt(cur.mat)
         /\ phase \in {"run", "paused"} => FullAt(src.seq)
         /\ phase = "switch" => FullAt(gap.latest)
  BY FullParts, CursorsLow, SwitchIsFull DEF FullAt, CursorsFull

LEMMA FullAtStays ==
  ASSUME MaxStreams = 1, FullInv, [Next]_vars, NEW k, FullAt(k)
  PROVE  FullBy(k)'
  BY ByStays DEF FullAt

LEMMA SavesFull ==
  ASSUME MaxStreams = 1, FullInv, [Next]_vars
  PROVE  FullBy(ckpt.mat)' /\ FullBy(manifest.mat)'
<1>1. PICK k : k = ckpt'.mat
  OBVIOUS
<1>2. FullAt(k)
  <2>1. CASE SaveCheckpoint
    <3>1. ckpt'.mat = cur.mat /\ job.step = "save"
      BY <2>1, FullParts, SaveIs
    <3>2. phase # "down"
      BY <3>1, FullParts DEF PlaceInv
    <3> QED
      BY <1>1, <3>1, <3>2, FullAts
  <2>2. CASE ResumeFromHub
    BY <1>1, <2>2, FullParts, FullAts, ResumeIs
  <2> QED
    BY <1>1, <2>1, <2>2, FullAts, Frames
<1>3. PICK m : m = manifest'.mat
  OBVIOUS
<1>4. FullAt(m)
  <2>1. CASE WriteManifest
    <3>1. manifest' = cur /\ job.step = "manifest"
      BY <2>1 DEF WriteManifest
    <3>2. phase # "down"
      BY <3>1, FullParts DEF PlaceInv
    <3> QED
      BY <1>3, <3>1, <3>2, FullAts
  <2> QED
    BY <1>3, <2>1, FullAts, Frames
<1>5. FullBy(k)' /\ FullBy(m)'
  BY <1>2, <1>4, FullAtStays
<1> QED
  BY <1>1, <1>3, <1>5 DEF FullBy

LEMMA CommitsFull ==
  ASSUME MaxStreams = 1, FullInv, [Next]_vars, phase' # "down"
  PROVE  FullBy(cur.mat)'
<1>1. PICK k : k = cur'.mat
  OBVIOUS
<1>2. CASE Restart
  <2>1. k = Resume /\ Resume \in {ckpt.mat, manifest.mat}
    BY <1>1, <1>2, FullParts, RestartCursors, ResumeBelow
  <2>2. FullAt(k)
    BY <2>1, FullAts
  <2>3. FullBy(k)'
    BY <2>2, FullAtStays
  <2> QED
    BY <1>1, <2>3 DEF FullBy
<1>3. CASE ~Restart
  <2>1. phase # "down" /\ FullAt(cur.mat) /\ cur.mat \in Int /\ cur.mat >= 0
    BY <1>3, FullParts, NotDown, FullAts, CursorsLow
  <2>2. CASE Resolve
    <3>1. PICK m : m = cur.mat
      OBVIOUS
    <3>2. FullBy(m)'
      BY <2>1, <3>1, FullAtStays
    <3>3. hub' = hub /\ Sequences' = Sequences
      BY <2>2 DEF Resolve, market, Sequences, Latest
    <3>4. ASSUME NEW n \in Sequences, n <= k, m < n PROVE Rows(hub.log[n]) \subseteq Have'
      <4>1. Wanted(n)
        BY <2>1, <3>1, <3>4 DEF Wanted, After, NoSeq
      <4>2. Good(n)
        BY <4>1, FullParts, KeepParts DEF WantedInv
      <4>3. Past(n)'
        BY <1>1, <3>4 DEF Past
      <4>4. Done(n)
        BY <2>2, <4>2, <4>3, FullParts, PassedIsDone
      <4> QED
        BY <4>4, FullParts, SafeIsHad, HadGrows DEF Done
    <3>5. ASSUME NEW n \in Sequences, n <= k PROVE Rows(hub.log[n]) \subseteq Have'
      <4>1. CASE n <= m
        BY <3>2, <3>3, <4>1 DEF FullBy, Rows
      <4>2. n \in Int /\ m \in Int
        BY <2>1, <3>1, FullParts, LogIs
      <4> QED
        BY <3>4, <3>5, <4>1, <4>2
    <3> QED
      BY <1>1, <3>3, <3>5 DEF FullBy, Rows
  <2>3. CASE ~Resolve
    <3>1. FullAt(k)
      <4>1. CASE IngestNew
        BY <1>1, <2>1, <4>1, FullParts, AcceptIs
      <4>2. CASE Backfill
        <5>1. cur' = Accepted(cur, BackfillBatch) /\ BackfillBatch.kind = "pg"
          BY <4>2, FullParts, BackfillIs DEF Backfill, Journal
        <5>2. cur' = cur
          BY <5>1 DEF Accepted
        <5> QED
          BY <1>1, <2>1, <5>2
      <4>3. CASE ResumeFromHub
        BY <1>1, <4>3, FullParts, FullAts, ResumeIs
      <4> QED
        BY <1>1, <1>3, <2>1, <2>3, <4>1, <4>2, <4>3, Frames
    <3>2. FullBy(k)'
      BY <3>1, FullAtStays
    <3> QED
      BY <1>1, <3>2 DEF FullBy
  <2> QED
    BY <2>2, <2>3
<1> QED
  BY <1>2, <1>3

LEMMA FollowsFull ==
  ASSUME MaxStreams = 1, FullInv, [Next]_vars, phase' \in {"run", "paused"}
  PROVE  FullBy(src.seq)'
<1>1. PICK k : k = src'.seq
  OBVIOUS
<1>2. ASSUME FullAt(k) PROVE FullBy(src.seq)'
  <2>1. FullBy(k)'
    BY <1>2, FullAtStays
  <2> QED
    BY <1>1, <2>1 DEF FullBy
<1>3. CASE ResumeFromHub
  BY <1>1, <1>2, <1>3, FullParts, FullAts, ResumeIs
<1>4. CASE SaveCheckpoint /\ ~ResumeFromHub
  <2>1. src' = src \/ (phase = "init" /\ src'.seq = cur.mat)
    BY <1>4, FullParts, SaveIs
  <2>2. phase \in {"run", "paused"} \/ phase = "init"
    BY <1>4, FullParts, PhaseIs
  <2>3. CASE src'.seq = cur.mat /\ phase = "init"
    BY <1>1, <1>2, <2>3, FullAts
  <2>4. CASE phase \in {"run", "paused"}
    <3>1. src' = src
      BY <2>1, <2>4
    <3> QED
      BY <1>1, <1>2, <2>4, <3>1, FullAts
  <2>5. CASE phase = "init" /\ src' = src
    <3>1. job.all
      BY <1>4, <2>5 DEF SaveCheckpoint
    <3>2. src'.seq = cur.mat
      BY <1>4, <2>5, <3>1 DEF SaveCheckpoint
    <3> QED
      BY <2>3, <2>5, <3>2
  <2> QED
    BY <2>1, <2>2, <2>3, <2>4, <2>5
<1>5. CASE IngestNew \/ IngestKnown
  <2>1. k = link
    BY <1>1, <1>5, FullParts, AcceptIs, KnownIs
  <2>2. FullBy(k)'
    BY <1>5, <2>1, ArrivalFillsBy
  <2> QED
    BY <1>1, <2>2 DEF FullBy
<1>6. CASE ~ResumeFromHub /\ ~SaveCheckpoint /\ ~IngestNew /\ ~IngestKnown
  <2>1. ~Restart
    BY FullParts, RestartCursors
  <2>2. src'.seq = src.seq
    <3>1. TypeInv
      BY FullParts
    <3>2. Connects => src'.seq = src.seq
      BY <3>1, SourceIs
    <3> QED
      BY <1>6, <2>1, <3>2, LinkFrom
  <2>3. phase \in {"run", "paused"}
    BY <1>6, FullParts, PhaseIs
  <2> QED
    BY <1>1, <1>2, <2>2, <2>3, FullAts
<1> QED
  BY <1>3, <1>4, <1>5, <1>6

LEMMA CursorsFullStep ==
  ASSUME MaxStreams = 1, FullInv, [Next]_vars
  PROVE  CursorsFull'
<1>1. ckpt'.mat >= 0
  <2>1. ckpt.mat <= ckpt'.mat /\ ckpt.mat \in Int /\ ckpt'.mat \in Int
    BY FullParts, CursorsClimb
  <2>2. ckpt.mat >= 0
    BY FullParts DEF CursorsFull
  <2> QED
    BY <2>1, <2>2
<1>2. FullBy(ckpt.mat)' /\ FullBy(manifest.mat)'
  BY SavesFull
<1>3. phase' # "down" => FullBy(cur.mat)'
  BY CommitsFull
<1>4. phase' \in {"run", "paused"} => FullBy(src.seq)'
  BY FollowsFull
<1> QED
  BY <1>1, <1>2, <1>3, <1>4 DEF CursorsFull

(* A backfill starts after the last bucket of the checkpoint, below which      *)
(* nothing is missing, and ends with the last bucket the hub has closed.       *)
LEMMA PlansFull ==
  ASSUME FullInv, PlanBackfill
  PROVE  /\ FullBelow(gap'.next) /\ gap'.latest = gap.latest /\ phase' = "backfill"
         /\ \A n \in Sequences : hub.log[n].last <= gap'.until
<1>1. gap' = [gap EXCEPT !.next = ckpt.bucket + 1, !.until = pg] /\ phase' = "backfill"
  BY DEF PlanBackfill
<1>2. gap'.next = ckpt.bucket + 1 /\ gap'.until = pg /\ gap'.latest = gap.latest
  BY <1>1, FullParts DEF TypeInv, TypeOK
<1>3. ckpt.bucket \in Int /\ ckpt.bucket \in Archived \cup {-1}
  BY FullParts, CursorsLow DEF CursorInv
<1>4. ASSUME NEW b \in Selected, b < ckpt.bucket + 1 PROVE b \in Have
  <2>1. b \in Nat
    BY SelectedAssumption DEF Buckets
  <2>2. ckpt.bucket \in Have
    BY <1>3, <1>4, <2>1, FullParts, SafeIsHad
  <2>3. ~(ckpt.bucket < b)
    BY <1>3, <1>4, <2>1
  <2> QED
    BY <2>2, <2>3, FullParts DEF AllInOrder
<1>5. ASSUME NEW n \in Sequences PROVE hub.log[n].last <= pg
  <2>1. hub.log[n].last < hub.next /\ pg = hub.next - 1
    BY FullParts DEF LogInv, CoveredByLog
  <2>2. hub.log[n].last \in Int /\ hub.next \in Int
    BY FullParts, LogIs
  <2> QED
    BY <2>1, <2>2
<1> QED
  BY <1>1, <1>2, <1>4, <1>5 DEF FullBelow

LEMMA BackfillIsHad ==
  ASSUME MaxStreams = 1, FullInv, [Next]_vars, Backfill
  PROVE  FullBelow(gap.next)' /\ gap'.latest = gap.latest /\ gap'.until = gap.until
<1>1. gap' = [gap EXCEPT !.next = gap.next + 1] /\ phase = "backfill"
  BY DEF Backfill
<1>2. gap'.next = gap.next + 1 /\ gap'.latest = gap.latest /\ gap'.until = gap.until
  BY <1>1, FullParts DEF TypeInv, TypeOK
<1>3. gap.next \in Int
  BY FullParts, BackfillIs DEF Buckets
<1>4. files' = files \cup {BackfillBatch} /\ BackfillBatch.rows = {gap.next} \cap Selected
  BY FullParts, ToldIs, BackfillIs
<1>5. ASSUME NEW b \in Selected, b < gap.next + 1 PROVE b \in Have'
  <2>1. CASE b = gap.next
    BY <1>4, <2>1 DEF Have
  <2>2. CASE b < gap.next
    BY <1>1, <2>2, FullParts, HadGrows DEF GapFull, FullBelow
  <2>3. b \in Int
    BY SelectedAssumption DEF Buckets
  <2> QED
    BY <1>3, <1>5, <2>1, <2>2, <2>3
<1> QED
  BY <1>2, <1>5 DEF FullBelow

LEMMA GapRecovers ==
  ASSUME MaxStreams = 1, FullInv, [Next]_vars, phase' \in GapPhases \ {"gap"}
  PROVE  \/ PlanBackfill
         \/ Backfill /\ phase' = "backfill"
         \/ /\ gap' = gap /\ phase \in GapPhases \ {"gap"}
            /\ phase' # phase => \/ phase = "backfill" /\ phase' = "drain" /\ Backfilled
                                 \/ phase = "drain" /\ phase' = "switch"
<1>1. gap \in Gaps /\ TypeInv
  BY FullParts DEF TypeInv, TypeOK, Gaps
<1>2. ReplayUnavailable => phase' = "gap"
  BY DEF ReplayUnavailable
<1>3. Backfill => phase' = "backfill"
  BY DEF Backfill
<1>4. gap' = gap \/ PlanBackfill \/ Backfill
  BY <1>1, <1>2, GapFrom DEF GapPhases
<1>5. phase \in GapPhases
  BY <1>1, <1>2, PhaseIs DEF GapPhases
<1>6. phase' = "backfill" /\ phase # "backfill" => PlanBackfill
  BY <1>1, PhaseIs
<1>7. phase' = "switch" /\ phase # "switch" => phase = "drain"
  BY <1>1, PhaseIs
<1>8. ASSUME phase' = "drain", phase # "drain" PROVE Backfilled /\ phase = "backfill"
  <2>1. ~ReplayUnavailable /\ ~IngestPaused /\ ~PlanBackfill /\ ~ResumeFromHub
    BY <1>8 DEF ReplayUnavailable, IngestPaused, PlanBackfill, ResumeFromHub
  <2>2. ~GivesUp /\ ~Signaled /\ ~Crash
    BY <1>8 DEF GivesUp, Signaled, Stop, Crash
  <2>3. ~Restart
    BY <1>8, FullParts, RestartCursors
  <2>4. ~(SaveCheckpoint /\ job.all)
    <3> SUFFICES ASSUME SaveCheckpoint, job.all PROVE FALSE
      OBVIOUS
    <3>1. phase' = AfterFlush[phase] /\ phase \in Flushing
      BY <1>1 DEF SaveCheckpoint, TypeInv
    <3> QED
      BY <1>8, <3>1 DEF AfterFlush, Flushing
  <2>5. Backfilled
    BY <1>8, <2>1, <2>2, <2>3, <2>4, PhaseFrom
  <2> QED
    BY <2>5 DEF Backfilled
<1> QED
  BY <1>3, <1>4, <1>5, <1>6, <1>7, <1>8 DEF GapPhases

LEMMA ClosedStays ==
  ASSUME MaxStreams = 1, FullInv, [Next]_vars, phase \in GapPhases, gap'.latest = gap.latest,
         \A n \in Sequences : n <= gap.latest => hub.log[n].last <= gap'.until
  PROVE  AllClosed(gap.latest)'
<1> SUFFICES ASSUME NEW n \in Sequences', n <= gap.latest PROVE hub'.log[n].last <= gap'.until
  BY DEF AllClosed
<1>1. gap.latest <= Latest /\ gap.latest \in Int /\ Latest \in Nat
  <2>1. gap.latest <= Latest
    BY FullParts DEF CursorInv
  <2>2. gap \in Gaps
    BY FullParts DEF TypeInv, TypeOK, Gaps
  <2> QED
    BY <2>1, <2>2, FullParts, LogIs DEF Gaps
<1>2. n \in Int
  <2>1. n \in 1..Latest' /\ Latest' \in Nat
    BY FullParts, LogGrows DEF Sequences
  <2> QED
    BY <2>1
<1>3. n \in Sequences /\ hub'.log[n] = hub.log[n]
  BY <1>1, <1>2, LogStays
<1> QED
  BY <1>3

LEMMA GapFullStep ==
  ASSUME MaxStreams = 1, FullInv, [Next]_vars
  PROVE  GapFull'
<1> SUFFICES ASSUME phase' \in GapPhases \ {"gap"}
             PROVE  /\ phase' = "backfill" => FullBelow(gap.next)'
                    /\ phase' \in {"drain", "switch"} => FullBelow(gap.until + 1)'
                    /\ AllClosed(gap.latest)'
  BY DEF GapFull, GapPhases
<1>1. CASE PlanBackfill
  <2>1. PICK p : p = gap'.next
    OBVIOUS
  <2>2. /\ FullBelow(p) /\ gap'.latest = gap.latest /\ phase' = "backfill"
        /\ \A n \in Sequences : hub.log[n].last <= gap'.until
    BY <1>1, <2>1, PlansFull
  <2>3. FullBelow(p)'
    BY <2>2, FilledStays
  <2>4. phase \in GapPhases
    BY <1>1 DEF PlanBackfill, GapPhases
  <2>5. AllClosed(gap.latest)'
    BY <2>2, <2>4, ClosedStays
  <2> QED
    BY <2>1, <2>2, <2>3, <2>5 DEF FullBelow
<1>2. CASE Backfill /\ phase' = "backfill"
  <2>1. FullBelow(gap.next)' /\ gap'.latest = gap.latest /\ gap'.until = gap.until
    BY <1>2, BackfillIsHad
  <2>2. phase = "backfill"
    BY <1>2 DEF Backfill
  <2>3. \A n \in Sequences : n <= gap.latest => hub.log[n].last <= gap.until
    BY <2>2, FullParts DEF GapFull, GapPhases, AllClosed
  <2>4. AllClosed(gap.latest)'
    BY <2>1, <2>2, <2>3, ClosedStays DEF GapPhases
  <2> QED
    BY <1>2, <2>1, <2>4
<1>3. CASE /\ gap' = gap /\ phase \in GapPhases \ {"gap"}
           /\ phase' # phase => \/ phase = "backfill" /\ phase' = "drain" /\ Backfilled
                                \/ phase = "drain" /\ phase' = "switch"
  <2>1. \A n \in Sequences : n <= gap.latest => hub.log[n].last <= gap.until
    BY <1>3, FullParts DEF GapFull, AllClosed
  <2>2. AllClosed(gap.latest)'
    BY <1>3, <2>1, ClosedStays
  <2>3. PICK p : p = gap.next
    OBVIOUS
  <2>4. PICK u : u = gap.until + 1
    OBVIOUS
  <2>5. phase' = "backfill" => FullBelow(p)
    BY <1>3, <2>3, FullParts DEF GapFull
  <2>6. phase' \in {"drain", "switch"} => FullBelow(u)
    <3>1. CASE phase \in {"drain", "switch"}
      BY <2>4, <3>1, FullParts DEF GapFull
    <3>2. CASE phase = "backfill" /\ phase' = "drain" /\ Backfilled
      <4>1. gap.next > gap.until /\ FullBelow(gap.next)
        BY <3>2, FullParts DEF GapFull, Backfilled
      <4>2. gap.next \in Int /\ gap.until \in Int
        BY FullParts DEF TypeInv, TypeOK
      <4>3. ASSUME NEW b \in Selected, b < gap.until + 1 PROVE b \in Have
        <5>1. b \in Int
          BY SelectedAssumption DEF Buckets
        <5>2. b < gap.next
          BY <4>1, <4>2, <4>3, <5>1
        <5> QED
          BY <4>1, <5>2 DEF FullBelow
      <4> QED
        BY <2>4, <4>3 DEF FullBelow
    <3> QED
      BY <1>3, <3>1, <3>2 DEF GapPhases
  <2>7. (phase' = "backfill" => FullBelow(p)') /\ (phase' \in {"drain", "switch"} => FullBelow(u)')
    BY <2>5, <2>6, FilledStays
  <2> QED
    BY <1>3, <2>2, <2>3, <2>4, <2>7 DEF FullBelow
<1> QED
  BY <1>1, <1>2, <1>3, GapRecovers

LEMMA FullStarts == ASSUME FirstCursor = 0 PROVE Init => FullInv
<1> SUFFICES ASSUME Init PROVE FullInv
  OBVIOUS
<1>1. hub.log = <<>> /\ hub.next = 0 /\ pg = -1 /\ phase = "down" /\ ckpt.mat = 0
  BY DEF Init
<1>2. Latest = 0
  BY <1>1 DEF Latest
<1>3. Sequences = {}
  BY <1>2 DEF Sequences
<1>4. Have = {}
  BY DEF Init, Have
<1>5. CoveredByLog
  <2>1. \A b \in Buckets : ~(b < 0)
    BY ClockAssumption DEF Buckets
  <2> QED
    BY <1>1, <2>1 DEF CoveredByLog
<1>6. AllInOrder
  BY <1>4 DEF AllInOrder
<1>7. CursorsFull
  BY <1>1, <1>3 DEF CursorsFull, FullBy
<1>8. GapFull
  BY <1>1 DEF GapFull, GapPhases
<1> QED
  BY <1>5, <1>6, <1>7, <1>8, RestartStarts DEF FullInv

LEMMA FullStep ==
  ASSUME MaxStreams = 1, MaxLag = 0, FullInv, [Next]_vars
  PROVE  FullInv'
<1>1. RestartInv'
  BY FullParts, RestartStep
<1> QED
  BY <1>1, LogCoverStep, AllInOrderStep, CursorsFullStep, GapFullStep DEF FullInv

(* While one hub lives, archive and journal have no hole, whatever crashes,    *)
(* signals, failed unlinks, pauses and replay gaps come: what initialize takes *)
(* from checkpoint, manifest and journal, the replay and the backfill leave no *)
(* batch out.  Both of the other conditions are needed.  The collector met the *)
(* hub at its start: a first start that crashes twice, the second time between *)
(* the resolution of its only records and the manifest, has no cursor and goes *)
(* on where the hub is by then.  And the database keeps up: a gap recovery ends*)
(* with the database's last bucket, but resumes after the hub's last batch.    *)
THEOREM NothingIsSkippedByCrashes ==
  ASSUME MaxStreams = 1, MaxLag = 0, FirstCursor = 0
  PROVE  Spec => []NoHoles
<1>1. FullInv => NoHoles
  <2>1. ASSUME FullInv PROVE \A b \in Selected \ Have : \A y \in Have : y < b
    BY <2>1, FullParts DEF AllInOrder
  <2> QED
    BY <2>1 DEF NoHoles, Promised
<1>2. FullInv /\ [Next]_vars => FullInv'
  BY FullStep
<1>3. Init => FullInv
  BY FullStarts
<1> QED
  BY <1>1, <1>2, <1>3, PTL DEF Spec
===============================================================================
