-------------------------------- MODULE Archive --------------------------------
(* What the research collector's journal (journal.py), Parquet sink            *)
(* (storage.py) and materializer (materializer.py) compute, as operators.      *)
(* Collector gives them their place in time and their crashes.                 *)
(*                                                                             *)
(* A market state is known by its bucket alone: symbols are left out, as is    *)
(* everything a state holds but where it came from.  The hub's copy of a state *)
(* and the database's copy are taken to differ, the case that needs a rule.    *)
(*                                                                             *)
(* An operator with a suffix (EmptiesDone_AtOnce) is a slip that nothing uses. *)
EXTENDS Integers, Sequences, FiniteSetsExt

CONSTANTS
  MaxBucket,   \* bound: the last bucket of the market's clock
  WindowLen,   \* buckets in one Parquet file (window_seconds)
  Late         \* buckets a window stays open after its end (late_tolerance)

ASSUME ClockAssumption  == MaxBucket \in Nat /\ WindowLen \in Nat \ {0} /\ Late \in Nat

Buckets == 0..MaxBucket
Kinds   == {"hub", "pg"}      \* SourceKind; also the version of an archived row
NoSeq   == -1                 \* a cursor that is None
NoStream == 0                 \* a stream id that is None

Larger(a, b) == IF a > b THEN a ELSE b

(* A journal record: the batch it keeps, cut down to the selected rows.  at is *)
(* the batch's last bucket, which orders records as published_at does.         *)
Record == [kind : Kinds, stream : Nat, seq : Nat, at : Buckets, rows : SUBSET Buckets]

HubRecord(s, n, at, rows) ==
  [kind |-> "hub", stream |-> s, seq |-> n, at |-> at, rows |-> rows]
BackfillRecord(b, rows) ==
  [kind |-> "pg", stream |-> NoStream, seq |-> 0, at |-> b, rows |-> rows]

InStream(r, stream) == r.kind = "hub" /\ stream \in {NoStream, r.stream}
SeqsOf(S, stream)   == {r.seq : r \in {x \in S : InStream(x, stream)}}

-------------------------------------------------------------------------------
(* The journal's cursors: acc(epted), mat(erialized), high(est committed).     *)
Cursors == [acc : Int, mat : Int, high : Int]
CursorsAt(acc, mat) == [acc |-> acc, mat |-> mat, high |-> mat]

(* accept *)
Accepted(cur, r) ==
  IF r.kind = "hub" THEN [cur EXCEPT !.acc = Larger(cur.acc, r.seq)] ELSE cur

(* commit_materialization: materialized is the covered prefix of what pends.   *)
Committed_OneTooFar(cur, stream, pend, receipts) ==
  LET done == SeqsOf(receipts, stream)
      left == SeqsOf(pend \ receipts, stream)
      high == Max(done \cup {cur.high})
  IN IF done = {} THEN cur
     ELSE [cur EXCEPT !.high = high,
                      !.mat  = Larger(cur.mat, IF left = {} THEN high ELSE Min(left))]
Committed(cur, stream, pend, receipts) ==
  LET done == SeqsOf(receipts, stream)
      left == SeqsOf(pend \ receipts, stream)
      high == Max(done \cup {cur.high})
  IN IF done = {} THEN cur
     ELSE [cur EXCEPT !.high = high,
                      !.mat  = Larger(cur.mat, IF left = {} THEN high ELSE Min(left) - 1)]

(* recover: the manifest only ever raises what the checkpoint said ...         *)
Restored(cur, manifest) ==
  [acc  |-> Larger(cur.acc, manifest.acc),
   mat  |-> Larger(cur.mat, manifest.mat),
   high |-> Larger(cur.high, manifest.high)]

(* ... and tells which of the records found on disk are finished.              *)
AlreadyCommitted(r, resolved, stream, high) ==
  r \in resolved \/ (InStream(r, stream) /\ r.seq <= high)

-------------------------------------------------------------------------------
(* The sink's buffers and the materializer's books: rows and open are the      *)
(* buffered windows, staged the records and the row versions they still wait   *)
(* for, over the versions a better copy replaced, empties the receipts with    *)
(* nothing to write.                                                           *)
Window(b) == b \div WindowLen
Windows   == {Window(b) : b \in Buckets}
Version   == Kinds \cup {"none"}
Key       == Buckets \X Kinds
Books == [rows : [Buckets -> Version], open : SUBSET Windows,
          staged : SUBSET [rec : Record, left : SUBSET Key],
          over : SUBSET Key, empties : SUBSET Record]

NoBooks == [rows |-> [b \in Buckets |-> "none"], open |-> {},
            staged |-> {}, over |-> {}, empties |-> {}]

(* ParquetWindowSink.append and stage_record: a window is loaded from its file *)
(* the first time it is touched; the database's copy replaces the hub's, the   *)
(* hub's never the database's.                                                 *)
Stage_LastWins(z, r, archive) ==
  LET opened == z.open \cup {Window(b) : b \in r.rows}
      known  == [b \in Buckets |-> IF Window(b) \in z.open THEN z.rows[b]
                                   ELSE IF Window(b) \in opened THEN archive[b] ELSE "none"]
  IN IF r.rows = {} THEN [z EXCEPT !.empties = z.empties \cup {r}]
     ELSE [z EXCEPT !.open = opened,
                    !.rows = [b \in Buckets |-> IF b \in r.rows THEN r.kind ELSE known[b]],
                    !.staged = z.staged \cup {[rec |-> r, left |-> r.rows \X {r.kind}]},
                    !.over = z.over \cup (r.rows \X (Kinds \ {r.kind}))]
Stage(z, r, archive) ==
  LET opened == z.open \cup {Window(b) : b \in r.rows}
      known  == [b \in Buckets |-> IF Window(b) \in z.open THEN z.rows[b]
                                   ELSE IF Window(b) \in opened THEN archive[b] ELSE "none"]
      won    == {b \in r.rows : ~(r.kind = "hub" /\ known[b] = "pg")}
      beaten == {b \in won : r.kind = "pg" /\ known[b] = "hub"}
      loaded == [z EXCEPT !.open = opened,
                          !.rows = [b \in Buckets |-> IF b \in won THEN r.kind ELSE known[b]]]
  IN IF won = {} THEN [loaded EXCEPT !.empties = z.empties \cup {r}]
     ELSE [loaded EXCEPT !.staged = z.staged \cup {[rec |-> r, left |-> won \X {r.kind}]},
                         !.over   = z.over \cup (beaten \X {"hub"})]

(* initialize stages what recover returns, one record after the other.         *)
Restaged(q, archive) ==
  LET done[n \in 0..Len(q)] == IF n = 0 THEN NoBooks ELSE Stage(done[n - 1], q[n], archive)
  IN done[Len(q)]

(* flush_ready: the windows that can get no more rows, as of the newest bucket *)
ReadyWindows(z, latest) == {w \in z.open : (w + 1) * WindowLen <= latest - Late}

(* _flush_paths: what one window's file holds once it is replaced.             *)
Written_NewRowsOnly(archive, z, w) ==
  LET fresh == UNION {s.rec.rows : s \in z.staged}
  IN [b \in Buckets |-> IF Window(b) # w THEN archive[b]
                        ELSE IF b \in fresh THEN z.rows[b] ELSE "none"]
Written(archive, z, w) == [b \in Buckets |-> IF Window(b) = w THEN z.rows[b] ELSE archive[b]]
KeysIn(z, w) == {k \in Key : Window(k[1]) = w /\ z.rows[k[1]] = k[2]}
Closed(z, w) ==
  [z EXCEPT !.open = z.open \ {w},
            !.rows = [b \in Buckets |-> IF Window(b) = w THEN "none" ELSE z.rows[b]]]

(* _process_flush_result: a record is done when each of its rows was written   *)
(* or replaced by a better one; an empty receipt is done once everything       *)
(* before it is.                                                               *)
Waiting(z, keys) ==
  {s \in {[rec |-> t.rec, left |-> t.left \ (keys \cup z.over)] : t \in z.staged} : s.left # {}}
EmptiesDone_AtOnce(z, keys, all) == z.empties
EmptiesDone(z, keys, all) ==
  {e \in z.empties : all \/ \A s \in Waiting(z, keys) : e.seq < s.rec.seq}
Ready(z, keys, all) ==
  ({s.rec : s \in z.staged} \ {s.rec : s \in Waiting(z, keys)}) \cup EmptiesDone(z, keys, all)
Covered(z, keys, all) ==
  [z EXCEPT !.staged  = Waiting(z, keys),
            !.over    = IF Waiting(z, keys) = {} THEN {} ELSE z.over,
            !.empties = z.empties \ EmptiesDone(z, keys, all)]
===============================================================================
