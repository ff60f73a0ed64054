------------------------------- MODULE HubProofs ------------------------------
(* Theorems about Hub for any window, any queue sizes and any number of        *)
(* batches and hub processes: the subscriber of either kind implements Feed,   *)
(* and a durable one is refused only when what it needs is gone.               *)
EXTENDS Hub, TLAPS, SequenceTheorems

-------------------------------------------------------------------------------
(* The inductive invariant.  What exists in which state of the client: without *)
(* an answer of the hub nothing is on its way, and the answer a client works   *)
(* with is the running process's unless the client has raised.                 *)
LinkInv ==
  /\ seq = buffered /\ (pub = "encode" => seq < MaxSeq) /\ (pub = "fanout" => seq # 0)
  /\ ready.epoch = 0 => room = 0 /\ sq = <<>> /\ wire = <<>>
  /\ client \in {"down", "gone"} => ready = NoAnswer /\ rq = <<>>
  /\ client = "asking" => rq = <<>> /\ wire = <<>>
  /\ client = "raised" => durable /\ room = 0 /\ sq = <<>> /\ wire = <<>> /\ rq = <<>>
  /\ client # "raised" /\ ready.epoch # 0 => ready.epoch = epoch

(* The resume cursor never points past what its hub process has published.     *)
Attached == client \in {"stream", "busy"}

CursorInv ==
  /\ stream <= epoch /\ last >= NoCursor
  /\ stream = 0 => last = NoCursor
  /\ stream = epoch => last <= seq
  /\ Attached => stream # 0 /\ (ready.epoch # 0 => stream = ready.epoch)
  /\ client = "raised" => ready.epoch # 0 /\ ready.epoch <= epoch /\ stream <= ready.epoch
  /\ client \in {"asking", "raised"} /\ ready.epoch # 0 =>
       /\ stream = ready.epoch => last <= ready.latest
       /\ ready.epoch = epoch => ready.latest <= seq
  /\ client = "asking" /\ ready.epoch # 0 /\ ~ready.available =>
       stream \notin {0, epoch} \/ last + Window < seq

(* Whatever is on its way to the consumer is in order, not older than the      *)
(* cursor, and published.                                                      *)
Floor == IF client = "busy" THEN now ELSE last

Sorted(s) == \A i, j \in DOMAIN s : i <= j => s[i] <= s[j]
Below(s, t) == \A i \in DOMAIN s, j \in DOMAIN t : s[i] <= t[j]
InRange(b) == stream = epoch => Floor <= b /\ b <= seq
Numbers(q) == [i \in DOMAIN q |-> q[i].n]

PipeInv ==
  /\ Sorted(sq) /\ Sorted(Numbers(rq)) /\ Len(wire) <= 1
  /\ Below(wire, sq) /\ Below(Numbers(rq), wire) /\ Below(Numbers(rq), sq)
  /\ \A i \in DOMAIN sq : InRange(sq[i]) /\ sq[i] <= seq
  /\ \A i \in DOMAIN wire : InRange(wire[i]) /\ wire[i] <= seq
  /\ \A i \in DOMAIN rq :
       /\ IF rq[i].kind = "error" THEN rq[i].n = 0 ELSE Floor <= rq[i].n
       /\ stream = epoch => rq[i].n <= seq
  /\ client = "busy" /\ stream = epoch => now <= seq

(* What was handed over last, against the cursor; exactly the cursor while the *)
(* subscriber knows of no loss.                                                *)
SeenInv ==
  /\ seen.epoch <= stream
  /\ client = "busy" => seen.epoch = stream /\ seen.n = now
  /\ client # "busy" /\ seen.epoch = stream /\ stream # 0 =>
       last # NoCursor /\ seen.n <= last

Exact == seen.epoch = stream /\ stream # 0 /\ seen.n = last

UnwarnedInv ==
  client # "busy" =>
    /\ durable /\ ~recovered => Exact
    /\ ~durable /\ (up \/ (~rewarm /\ last # NoCursor)) => Exact

HubInv == TypeOK /\ LinkInv /\ CursorInv /\ PipeInv /\ SeenInv /\ UnwarnedInv

-------------------------------------------------------------------------------
(* Sequences of batches.                                                       *)
LEMMA AppendKeeps ==
  ASSUME NEW s \in Seq(Nat), NEW b \in Nat, Sorted(s), \A i \in DOMAIN s : s[i] <= b
  PROVE  /\ Append(s, b) \in Seq(Nat) /\ Len(Append(s, b)) = Len(s) + 1
         /\ Sorted(Append(s, b))
         /\ \A i \in DOMAIN Append(s, b) :
              Append(s, b)[i] = b \/ (i \in DOMAIN s /\ Append(s, b)[i] = s[i])
  BY DEF Sorted

LEMMA Single ==
  ASSUME NEW S, NEW s \in Seq(S), s # <<>>, Len(s) <= 1
  PROVE  Len(s) = 1 /\ 1 \in DOMAIN s /\ Head(s) = s[1] /\ Head(s) \in S /\ Tail(s) = <<>>
<1>1. Len(s) \in Nat \ {0}
  BY EmptySeq
<1>2. Len(s) = 1
  BY <1>1
<1>3. Tail(s) \in Seq(S) /\ Head(s) \in S /\ Len(Tail(s)) = 0
  BY <1>2, HeadTailProperties
<1>4. Tail(s) = <<>>
  BY <1>3, EmptySeq
<1>5. Head(s) = s[1] /\ 1 \in DOMAIN s
  BY <1>2
<1> QED
  BY <1>2, <1>3, <1>4, <1>5

LEMMA TailKeeps ==
  ASSUME NEW s \in Seq(Nat), s # <<>>, Sorted(s)
  PROVE  /\ Tail(s) \in Seq(Nat) /\ Len(Tail(s)) = Len(s) - 1
         /\ Head(s) = s[1] /\ 1 \in DOMAIN s /\ Sorted(Tail(s))
         /\ \A i \in DOMAIN Tail(s) : i + 1 \in DOMAIN s /\ Tail(s)[i] = s[i + 1]
  BY DEF Sorted

-------------------------------------------------------------------------------
(* The numbers a state is made of.                                             *)
LEMMA Numbering ==
  ASSUME TypeOK
  PROVE  /\ epoch \in Nat \ {0} /\ seq \in Nat /\ stream \in Nat /\ last \in Int /\ now \in Nat
         /\ sq \in Seq(Nat) /\ wire \in Seq(Nat) /\ rq \in Seq(Item) /\ Floor \in Int
         /\ \A i \in DOMAIN sq : sq[i] \in Nat
         /\ \A i \in DOMAIN wire : wire[i] \in Nat
         /\ \A i \in DOMAIN rq : rq[i].n \in Nat
<1>1. /\ epoch \in Nat \ {0} /\ seq \in Nat /\ stream \in Nat /\ last \in Int /\ now \in Nat
      /\ sq \in Seq(Nat) /\ wire \in Seq(Nat) /\ rq \in Seq(Item) /\ Floor \in Int
  BY HubAssumption DEF TypeOK, Floor
<1>2. \A i \in DOMAIN rq : rq[i] \in Item
  BY <1>1
<1> QED
  BY <1>1, <1>2 DEF Item

(* The way to the consumer when nothing on it moves.                           *)
LEMMA PipeStays ==
  ASSUME TypeOK, PipeInv, UNCHANGED <<sq, wire, rq, stream, epoch>>, Floor' = Floor,
         seq' \in Nat, seq <= seq', UNCHANGED <<now, client>>
  PROVE  PipeInv'
<1>1. \A b \in Nat : InRange(b) => InRange(b)'
  BY Numbering DEF InRange
<1>2. \A b \in Nat : b <= seq => b <= seq'
  BY Numbering
<1> QED
  BY <1>1, <1>2, Numbering DEF PipeInv, Sorted, Below, Numbers

LEMMA PipeEmpties ==
  ASSUME sq' = <<>>, wire' = <<>>, rq' = <<>>, client' # "busy"
  PROVE  PipeInv'
  BY DEF PipeInv, Sorted, Below, Numbers

LEMMA EmptyTypes ==
  ASSUME sq' = <<>>, wire' = <<>>, rq' = <<>>, room' = 0
  PROVE  /\ sq' \in Seq(1..MaxSeq) /\ wire' \in Seq(1..MaxSeq) /\ rq' \in Seq(Item)
         /\ room' \in Nat /\ Len(sq') <= room' /\ Len(rq') <= ReadRoom
  BY HubAssumption

LEMMA PublishStartsKeeps == HubInv /\ PublishStarts => HubInv'
<1> SUFFICES ASSUME HubInv, PublishStarts PROVE HubInv'
  OBVIOUS
<1> QED
  BY DEF HubInv, TypeOK, LinkInv, CursorInv, PipeInv, SeenInv, UnwarnedInv, PublishStarts,
         Attached, Floor, InRange, Exact, Numbers, Sorted, Below,
         link, cursor, told, past

LEMMA PublishCommitsKeeps == HubInv /\ PublishCommits => HubInv'
<1> SUFFICES ASSUME HubInv, PublishCommits PROVE HubInv'
  OBVIOUS
<1>1. TypeOK' /\ LinkInv' /\ CursorInv' /\ SeenInv' /\ UnwarnedInv'
  BY HubAssumption
     DEF HubInv, TypeOK, LinkInv, CursorInv, SeenInv, UnwarnedInv, PublishCommits,
         Attached, Exact, link, cursor, told, past
<1>2. PipeInv'
  <2>1. /\ TypeOK /\ PipeInv /\ UNCHANGED <<sq, wire, rq, stream, epoch, now, client>>
        /\ Floor' = Floor /\ seq' \in Nat /\ seq <= seq'
    BY HubAssumption
       DEF HubInv, TypeOK, LinkInv, PublishCommits, Floor, link, cursor, told, past
  <2> QED
    BY <2>1, PipeStays
<1> QED
  BY <1>1, <1>2 DEF HubInv

LEMMA PublishFansOutKeeps == HubInv /\ PublishFansOut => HubInv'
<1> SUFFICES ASSUME HubInv, PublishFansOut PROVE HubInv'
  OBVIOUS
<1>0. sq \in Seq(Nat) /\ seq \in Nat /\ Sorted(sq) /\ \A i \in DOMAIN sq : sq[i] <= seq
  BY HubAssumption DEF HubInv, TypeOK, PipeInv
<1>1. LinkInv' /\ CursorInv' /\ SeenInv' /\ UnwarnedInv'
  BY HubAssumption
     DEF HubInv, TypeOK, LinkInv, CursorInv, SeenInv, UnwarnedInv, PublishFansOut,
         Attached, Exact, link, cursor, told, past
<1>2. /\ seq' = seq /\ rq' = rq /\ wire' = wire /\ stream' = stream /\ epoch' = epoch
      /\ room' = room /\ Floor' = Floor /\ client' = client /\ now' = now
      /\ pub = "fanout" /\ pub' = "idle"
  BY DEF PublishFansOut, cursor, Floor
<1>3. /\ sq' \in Seq(1..MaxSeq) /\ Sorted(sq') /\ Len(sq') <= room
      /\ \A i \in DOMAIN sq' : sq'[i] = seq \/ (i \in DOMAIN sq /\ sq'[i] = sq[i])
  <2>1. CASE sq' = sq
    BY <2>1, <1>0 DEF HubInv, TypeOK
  <2>2. CASE sq' = <<seq>> /\ room # 0
    BY <2>2, <1>0, <1>2 DEF HubInv, TypeOK, LinkInv, Sorted
  <2>3. CASE sq' = Append(sq, seq) /\ room # 0 /\ Len(sq) < room
    <3>1. sq \in Seq(1..MaxSeq) /\ seq \in 1..MaxSeq /\ room \in Nat
      BY <1>2 DEF HubInv, TypeOK, LinkInv
    <3>2. sq' \in Seq(1..MaxSeq) /\ Len(sq') <= room
      BY <2>3, <3>1
    <3> QED
      BY <2>3, <3>2, <1>0, AppendKeeps
  <2>4. \/ sq' = sq
        \/ sq' = <<seq>> /\ room # 0
        \/ sq' = Append(sq, seq) /\ room # 0 /\ Len(sq) < room
    <3>1. Len(sq) \in Nat /\ room \in Nat
      BY DEF HubInv, TypeOK
    <3> QED
      BY <3>1 DEF PublishFansOut, EnqueueLatest
  <2> QED
    BY <2>1, <2>2, <2>3, <2>4
<1>4. TypeOK'
  BY <1>3, <1>2 DEF HubInv, TypeOK, PublishFansOut, cursor, told, past
<1>5. PipeInv'
  <2>1. PipeInv /\ InRange(seq) /\ seq \in Nat
    <3>1. /\ seq \in Nat /\ epoch \in Nat /\ stream \in Nat /\ now \in Nat /\ last \in Int
      BY HubAssumption DEF HubInv, TypeOK
    <3> QED
      BY <3>1 DEF HubInv, PipeInv, CursorInv, InRange, Floor
  <2>2. \A b : InRange(b)' <=> InRange(b)
    BY <1>2 DEF InRange
  <2>3. CASE sq' = <<>>
    BY <1>2, <2>1, <2>2, <2>3 DEF PipeInv, Below, Sorted
  <2>4. CASE sq' # <<>>
    <3>1. ready.epoch # 0
      BY <1>2, <1>3, <2>4 DEF HubInv, LinkInv, TypeOK
    <3>2. rq # <<>> => stream = epoch
      BY <3>1 DEF HubInv, LinkInv, CursorInv, Attached, TypeOK
    <3>3. \A i \in DOMAIN rq : rq[i].n <= seq
      BY <3>1, <3>2, <2>1 DEF PipeInv, HubInv
    <3> QED
      BY <1>2, <1>3, <2>1, <2>2, <3>3 DEF PipeInv, Below, Numbers
  <2> QED
    BY <1>2, <1>3, <2>3, <2>4
<1> QED
  BY <1>1, <1>4, <1>5 DEF HubInv

(* Connecting and the handshake.                                              *)
LEMMA ConnectsKeeps == HubInv /\ Connects => HubInv'
<1> SUFFICES ASSUME HubInv, Connects PROVE HubInv'
  OBVIOUS
<1>1. TypeOK' /\ LinkInv' /\ CursorInv' /\ SeenInv' /\ UnwarnedInv'
  BY DEF HubInv, TypeOK, LinkInv, CursorInv, SeenInv, UnwarnedInv, Connects,
         Attached, Exact, NoAnswer, hub, link, cursor, told, past
<1>2. PipeInv'
  BY PipeEmpties DEF HubInv, LinkInv, Connects, NoAnswer, hub, link
<1> QED
  BY <1>1, <1>2 DEF HubInv

LEMMA ReplayKeeps ==
  ASSUME HubInv, NEW c \in Int, Replayable(c), NoCursor <= c, c <= seq
  PROVE  /\ Replay(c) \in Seq(1..MaxSeq) /\ Sorted(Replay(c))
         /\ \A i \in DOMAIN Replay(c) :
              Replay(c)[i] \in Nat /\ c <= Replay(c)[i] /\ Replay(c)[i] <= seq
<1>1. CASE c \in {NoCursor, seq}
  BY <1>1 DEF Replay, Sorted
<1>2. CASE c \notin {NoCursor, seq}
  <2> DEFINE from == Most(Oldest, c + 1)
             n == buffered - from + 1
  <2>1. /\ from \in Nat \ {0} /\ n \in Nat /\ from >= c + 1 /\ buffered = seq /\ seq \in Nat
        /\ seq <= MaxSeq /\ from + n - 1 = seq /\ MaxSeq \in Nat
    BY <1>2, HubAssumption
       DEF HubInv, TypeOK, LinkInv, Replayable, Oldest, Most, NoCursor
  <2>2. Replay(c) = [i \in 1..n |-> from + i - 1]
    BY <1>2 DEF Replay
  <2> HIDE DEF from, n
  <2>3. \A i \in 1..n : from + i - 1 \in Nat /\ from + i - 1 \in 1..MaxSeq /\ c <= from + i - 1 /\ from + i - 1 <= seq
    BY <2>1
  <2>4. Replay(c) \in Seq(1..MaxSeq)
    BY <2>1, <2>2, <2>3
  <2>5. Sorted(Replay(c))
    BY <2>1, <2>2 DEF Sorted
  <2> QED
    BY <2>1, <2>2, <2>3, <2>4, <2>5
<1> QED
  BY <1>1, <1>2

LEMMA HubAnswersKeeps == HubInv /\ HubAnswers => HubInv'
<1> SUFFICES ASSUME HubInv, HubAnswers PROVE HubInv'
  OBVIOUS
<1> DEFINE c == IF stream # 0 /\ stream # epoch THEN NoCursor ELSE last
<1>0. /\ c \in Int /\ NoCursor <= c /\ c <= seq /\ client = "asking" /\ ready.epoch = 0
      /\ room = 0 /\ sq = <<>> /\ wire = <<>> /\ rq = <<>>
  BY HubAssumption DEF HubInv, TypeOK, LinkInv, CursorInv, HubAnswers, NoCursor
<1>1. /\ ready' = [epoch |-> epoch, latest |-> seq, available |-> Replayable(c)]
      /\ Replayable(c) \in BOOLEAN
      /\ IF Replayable(c) THEN sq' = Replay(c) /\ room' = Most(SendRoom, Len(Replay(c)) + 1)
         ELSE sq' = sq /\ room' = room
      /\ UNCHANGED <<epoch, seq, buffered, pub, wire, durable, client, stream, last, goal, rq, now,
                     rewarm, up, clock, seen, recovered>>
  BY DEF HubAnswers, Replayable, hub, cursor, told, past
<1> HIDE DEF c
<1>2. /\ sq' \in Seq(1..MaxSeq) /\ Sorted(sq') /\ room' \in Nat /\ Len(sq') <= room'
      /\ \A i \in DOMAIN sq' : sq'[i] \in Nat /\ c <= sq'[i] /\ sq'[i] <= seq
  <2>1. CASE Replayable(c)
    BY <1>0, <1>1, <2>1, ReplayKeeps, HubAssumption DEF Most
  <2>2. CASE ~Replayable(c)
    BY <1>0, <1>1, <2>2 DEF Sorted
  <2> QED
    BY <2>1, <2>2
<1>3. TypeOK'
  BY <1>1, <1>2, HubAssumption DEF HubInv, TypeOK
<1>4. LinkInv' /\ SeenInv' /\ UnwarnedInv'
  BY <1>0, <1>1, HubAssumption DEF HubInv, TypeOK, LinkInv, SeenInv, UnwarnedInv, Exact
<1>5. CursorInv'
  BY <1>0, <1>1, HubAssumption
     DEF c, HubInv, TypeOK, LinkInv, CursorInv, Attached, Replayable, Oldest, Most, NoCursor
<1>6. PipeInv'
  <2>1. stream' = epoch' => c = last
    BY <1>1, HubAssumption DEF c, HubInv, TypeOK
  <2>2. Floor' = last /\ UNCHANGED <<stream, epoch, seq, wire, rq>> /\ client' = "asking"
    BY <1>0, <1>1 DEF Floor
  <2>3. \A b \in Nat : c <= b /\ b <= seq => InRange(b)'
    BY <2>1, <2>2 DEF InRange
  <2>4. Below(wire', sq') /\ Below(Numbers(rq)', wire') /\ Below(Numbers(rq)', sq') /\ Sorted(Numbers(rq)')
        /\ Len(wire') <= 1
    BY <1>0, <2>2 DEF Below, Numbers, Sorted
  <2> QED
    BY <1>0, <1>2, <2>2, <2>3, <2>4 DEF PipeInv
<1> QED
  BY <1>3, <1>4, <1>5, <1>6 DEF HubInv
LEMMA ClientHearsKeeps == HubInv /\ ClientHears => HubInv'
<1> SUFFICES ASSUME HubInv, ClientHears PROVE HubInv'
  OBVIOUS
<1>0. /\ client = "asking" /\ ready.epoch = epoch /\ epoch \in Nat \ {0} /\ rq = <<>> /\ wire = <<>>
      /\ UNCHANGED <<epoch, seq, buffered, pub, durable, now, rewarm, seen, recovered>>
  BY HubAssumption DEF HubInv, TypeOK, LinkInv, ClientHears, hub, past
<1>1. CASE Raises
  <2>1. /\ durable /\ goal' = goal
        /\ \/ stream' = stream /\ last' = last
           \/ stream = 0 /\ stream' = epoch /\ last' = NoCursor
    BY <1>0, <1>1 DEF ClientHears, Raises, Drops, cursor
  <2>2. TypeOK'
    <3>1. last' \in Int /\ stream' \in Nat
      BY <1>0, <2>1 DEF HubInv, TypeOK, NoCursor
    <3>2. /\ sq' \in Seq(1..MaxSeq) /\ wire' \in Seq(1..MaxSeq) /\ rq' \in Seq(Item)
          /\ room' \in Nat /\ Len(sq') <= room' /\ Len(rq') <= ReadRoom
      BY <1>1, EmptyTypes DEF Raises
    <3> QED
      BY <1>0, <1>1, <2>1, <3>1, <3>2 DEF Raises, HubInv, TypeOK
  <2>3. LinkInv' /\ CursorInv'
    BY <1>0, <1>1, <2>1 DEF Raises, HubInv, TypeOK, LinkInv, CursorInv, Attached, NoCursor
  <2>4. SeenInv' /\ UnwarnedInv'
    BY <1>0, <1>1, <2>1 DEF Raises, HubInv, TypeOK, CursorInv, SeenInv, UnwarnedInv, Exact, NoCursor
  <2>5. PipeInv'
    BY <1>1, PipeEmpties DEF Raises
  <2> QED
    BY <2>2, <2>3, <2>4, <2>5 DEF HubInv
<1>2. CASE Drops /\ ~durable
  <2>1. /\ goal' = goal /\ stream' = epoch
        /\ last' = (IF stream = epoch THEN last ELSE NoCursor)
    BY <1>0, <1>2 DEF ClientHears, Drops, cursor
  <2>2. TypeOK'
    <3>1. /\ room' = 0 /\ sq' = <<>> /\ wire' = <<>> /\ rq' = <<>> /\ up' = FALSE
          /\ ready' = [epoch |-> 0, latest |-> 0, available |-> FALSE]
          /\ client' \in {"down", "gone"} /\ clock' \in {clock, "disrupted"}
      BY <1>2 DEF Drops, Unlinked, NoAnswer
    <3>2. last' \in Int /\ stream' \in Nat
      BY <1>0, <2>1 DEF HubInv, TypeOK, NoCursor
    <3>3. /\ sq' \in Seq(1..MaxSeq) /\ wire' \in Seq(1..MaxSeq) /\ rq' \in Seq(Item)
          /\ room' \in Nat /\ Len(sq') <= room' /\ Len(rq') <= ReadRoom
      BY <3>1, EmptyTypes
    <3> QED
      BY <1>0, <2>1, <3>1, <3>2, <3>3 DEF HubInv, TypeOK
  <2>3. LinkInv' /\ CursorInv'
    BY <1>0, <1>2, <2>1
       DEF Drops, Unlinked, NoAnswer, HubInv, TypeOK, LinkInv, CursorInv, Attached, NoCursor
  <2>4. SeenInv' /\ UnwarnedInv'
    BY <1>0, <1>2, <2>1
       DEF Drops, HubInv, TypeOK, CursorInv, SeenInv, UnwarnedInv, Exact, NoCursor
  <2>5. PipeInv'
    BY <1>2, PipeEmpties DEF Drops, Unlinked
  <2> QED
    BY <2>2, <2>3, <2>4, <2>5 DEF HubInv
<1>3. CASE client' = "stream"
  <2>1. /\ goal' = ready.latest /\ stream' = epoch /\ UNCHANGED <<room, sq, wire, ready, rq>>
        /\ last' = (IF stream = epoch THEN last ELSE NoCursor)
        /\ up' = (~rewarm /\ last' # NoCursor /\ last' >= ready.latest)
        /\ up' => ~rewarm /\ last' # NoCursor
        /\ durable => stream \in {0, epoch}
        /\ clock' \in {"ready", "connecting", "recovering"}
    BY <1>0, <1>3 DEF ClientHears, Drops, Raises, cursor, link
  <2>2. TypeOK'
    BY <1>0, <1>3, <2>1 DEF HubInv, TypeOK, NoCursor
  <2>3. LinkInv' /\ CursorInv'
    BY <1>0, <1>3, <2>1 DEF HubInv, TypeOK, LinkInv, CursorInv, Attached, NoCursor
  <2>4. SeenInv'
    BY <1>0, <1>3, <2>1 DEF HubInv, TypeOK, CursorInv, SeenInv, NoCursor
  <2>6. UnwarnedInv'
    <3>1. client' # "busy" /\ client # "busy" /\ stream' = epoch /\ epoch # 0
      BY <1>0, <1>3, <2>1
    <3>2. (stream # epoch => last' = NoCursor) /\ (stream = epoch => last' = last)
      BY <2>1
    <3> QED
      BY <1>0, <2>1, <3>1, <3>2 DEF HubInv, CursorInv, SeenInv, UnwarnedInv, Exact
  <2>5. PipeInv'
    <3>1. \A b \in Nat : InRange(b) /\ b <= seq => InRange(b)'
      BY <1>0, <1>3, <2>1, Numbering DEF InRange, Floor, HubInv, NoCursor
    <3>2. \A i \in DOMAIN sq : sq[i] \in Nat /\ InRange(sq[i]) /\ sq[i] <= seq
      BY Numbering DEF HubInv, PipeInv
    <3> QED
      BY <1>0, <1>3, <2>1, <3>1, <3>2 DEF HubInv, PipeInv, Numbers, Sorted, Below
  <2> QED
    BY <2>2, <2>3, <2>4, <2>5, <2>6 DEF HubInv
<1> QED
  BY <1>1, <1>2, <1>3, <1>0 DEF ClientHears

-------------------------------------------------------------------------------
(* Batches on their way.                                                       *)
LEMMA WriterSendsKeeps == HubInv /\ WriterSends => HubInv'
<1> SUFFICES ASSUME HubInv, WriterSends PROVE HubInv'
  OBVIOUS
<1>0. /\ sq # <<>> /\ wire = <<>> /\ wire' = <<Head(sq)>> /\ sq' = Tail(sq) /\ Attached
      /\ ready.epoch # 0 /\ stream = epoch
      /\ UNCHANGED <<epoch, seq, buffered, pub, room, ready, durable, client, stream, last,
                     goal, rq, now, rewarm, up, clock, seen, recovered, Floor>>
  BY DEF WriterSends, HubInv, LinkInv, CursorInv, Attached, Floor, hub, cursor, told, past
<1>1. /\ sq \in Seq(1..MaxSeq) /\ Sorted(sq) /\ sq \in Seq(Nat) /\ rq \in Seq(Item)
  BY Numbering DEF HubInv, TypeOK, PipeInv
<1>2. /\ Len(sq') = Len(sq) - 1 /\ Head(sq) = sq[1] /\ 1 \in DOMAIN sq /\ Sorted(sq')
      /\ \A i \in DOMAIN sq' : i + 1 \in DOMAIN sq /\ sq'[i] = sq[i + 1]
  BY <1>0, <1>1, TailKeeps
<1>3. TypeOK'
  <2>1. sq' \in Seq(1..MaxSeq) /\ wire' \in Seq(1..MaxSeq)
    <3>1. sq' \in Seq(1..MaxSeq) /\ Head(sq) \in 1..MaxSeq
      BY <1>0, <1>1, HeadTailProperties
    <3> QED
      BY <1>0, <3>1
  <2>2. Len(sq') <= room'
    BY <1>0, <1>1, <1>2 DEF HubInv, TypeOK
  <2> QED
    BY <1>0, <2>1, <2>2 DEF HubInv, TypeOK
<1>4. LinkInv' /\ CursorInv' /\ SeenInv' /\ UnwarnedInv'
  BY <1>0 DEF HubInv, LinkInv, CursorInv, SeenInv, UnwarnedInv, Attached, Exact
<1>5. PipeInv'
  <2>1. \A b : InRange(b)' <=> InRange(b)
    BY <1>0 DEF InRange
  <2>2. Below(wire', sq') /\ Below(Numbers(rq'), wire') /\ Below(Numbers(rq'), sq') /\ Len(wire') = 1
    <3>1. \A i, j \in DOMAIN sq : i <= j => sq[i] <= sq[j]
      BY <1>1 DEF Sorted
    <3>2. \A i \in DOMAIN sq' : sq[1] <= sq'[i]
      BY <1>1, <1>2, <3>1
    <3>3. \A i \in DOMAIN rq, j \in DOMAIN sq : rq[i].n <= sq[j]
      BY DEF HubInv, PipeInv, Below, Numbers
    <3>4. DOMAIN wire' = {1} /\ wire'[1] = sq[1] /\ Len(wire') = 1
      BY <1>0, <1>2
    <3> QED
      BY <1>0, <1>2, <3>2, <3>3, <3>4 DEF Below, Numbers
  <2>3. \A i \in DOMAIN sq' : InRange(sq'[i]) /\ sq'[i] <= seq
    BY <1>2 DEF HubInv, PipeInv
  <2>4. \A i \in DOMAIN wire' : InRange(wire'[i]) /\ wire'[i] <= seq
    BY <1>0, <1>2 DEF HubInv, PipeInv
  <2> QED
    BY <1>0, <1>2, <2>1, <2>2, <2>3, <2>4 DEF HubInv, PipeInv, Sorted, Numbers, Below
<1> QED
  BY <1>3, <1>4, <1>5 DEF HubInv
LEMMA ReaderTakesKeeps == HubInv /\ ReaderTakes => HubInv'
<1> SUFFICES ASSUME HubInv, ReaderTakes PROVE HubInv'
  OBVIOUS
<1> DEFINE b == Head(wire)
<1>0. /\ wire \in Seq(1..MaxSeq) /\ wire # <<>> /\ Len(wire) = 1 /\ b = wire[1] /\ b \in Nat
      /\ 1 \in DOMAIN wire /\ wire' = <<>>
  <2>1. wire \in Seq(1..MaxSeq) /\ wire # <<>> /\ Len(wire) <= 1 /\ wire' = Tail(wire)
    BY DEF HubInv, TypeOK, PipeInv, ReaderTakes
  <2>2. Len(wire) = 1 /\ b = wire[1] /\ b \in 1..MaxSeq /\ 1 \in DOMAIN wire /\ Tail(wire) = <<>>
    BY <2>1, Single
  <2> QED
    BY <2>1, <2>2, HubAssumption
<1>1. /\ rq' = Received(rq, b) /\ Attached /\ ready.epoch # 0 /\ stream = epoch
      /\ UNCHANGED <<epoch, seq, buffered, pub, room, sq, ready, durable, client, stream, last,
                     goal, now, rewarm, up, clock, seen, recovered, Floor>>
  <2>1. /\ rq' = Received(rq, b)
        /\ UNCHANGED <<epoch, seq, buffered, pub, room, sq, ready, durable, client, stream, last,
                       goal, now, rewarm, up, clock, seen, recovered, Floor>>
    BY DEF ReaderTakes, Floor, hub, cursor, told, past
  <2>2. ready.epoch # 0 /\ Attached
    BY <1>0 DEF HubInv, TypeOK, LinkInv, Attached, NoAnswer
  <2>3. stream = epoch
    BY <2>2 DEF HubInv, LinkInv, CursorInv, Attached
  <2> QED
    BY <2>1, <2>2, <2>3
<1>2. /\ Floor <= b /\ b <= seq /\ \A j \in DOMAIN sq : b <= sq[j]
      /\ \A i \in DOMAIN rq : rq[i].n <= b
  BY <1>0, <1>1 DEF HubInv, PipeInv, InRange, Below, Numbers
<1> HIDE DEF b
<1>3. /\ rq' \in Seq(Item) /\ Len(rq') <= ReadRoom /\ DOMAIN rq' \subseteq Nat
      /\ \A i \in DOMAIN rq' :
           \/ rq'[i].kind # "error" /\ rq'[i].n = b
           \/ i \in DOMAIN rq /\ rq'[i] = rq[i]
      /\ \A i, j \in DOMAIN rq' : i < j => i \in DOMAIN rq /\ rq'[i] = rq[i]
  <2>0. /\ rq \in Seq(Item) /\ Len(rq) <= ReadRoom /\ Len(rq) \in Nat /\ DOMAIN rq = 1..Len(rq)
        /\ Plain(b) \in Item /\ Lagged(b) \in Item /\ ReadRoom \in Nat \ {0}
    BY <1>0, HubAssumption DEF HubInv, TypeOK, Plain, Lagged, Item
  <2>1. CASE rq' = Append(rq, Plain(b)) /\ Len(rq) < ReadRoom
    <3>1. /\ rq' \in Seq(Item) /\ Len(rq') = Len(rq) + 1 /\ rq'[Len(rq) + 1] = Plain(b)
          /\ DOMAIN rq' = 1..(Len(rq) + 1)
          /\ \A i \in 1..Len(rq) : rq'[i] = rq[i]
      BY <2>0, <2>1
    <3> QED
      BY <2>0, <2>1, <3>1 DEF Plain
  <2>2. CASE rq' = <<Lagged(b)>>
    BY <2>0, <2>2 DEF Lagged
  <2> QED
    BY <1>1, <2>1, <2>2 DEF Received
<1>4. TypeOK'
  BY <1>0, <1>1, <1>3 DEF HubInv, TypeOK
<1>5. LinkInv' /\ CursorInv' /\ SeenInv' /\ UnwarnedInv'
  BY <1>0, <1>1 DEF HubInv, TypeOK, LinkInv, CursorInv, SeenInv, UnwarnedInv, Attached, Exact
<1>6. PipeInv'
  <2>1. \A c : InRange(c)' <=> InRange(c)
    BY <1>1 DEF InRange
  <2>2. \A i \in DOMAIN rq' : rq'[i].n <= b
    BY <1>0, <1>2, <1>3
  <2>3. Sorted(Numbers(rq'))
    <3>1. \A i, j \in DOMAIN rq : i <= j => rq[i].n <= rq[j].n
      BY DEF HubInv, PipeInv, Sorted, Numbers
    <3> SUFFICES ASSUME NEW i \in DOMAIN rq', NEW j \in DOMAIN rq', i <= j
                 PROVE  rq'[i].n <= rq'[j].n
      BY DEF Sorted, Numbers
    <3>2. DOMAIN rq' \subseteq Nat /\ \A k \in DOMAIN rq' : rq'[k].n \in Nat
      BY <1>0, <1>3, Numbering DEF HubInv
    <3>3. CASE i = j
      BY <3>2, <3>3
    <3>4. CASE i < j
      BY <1>0, <1>2, <1>3, <3>1, <3>2, <3>4
    <3> QED
      BY <3>2, <3>3, <3>4
  <2>4. Below(wire', sq') /\ Below(Numbers(rq'), wire') /\ Below(Numbers(rq'), sq') /\ Len(wire') <= 1
    <3>1. \A i \in DOMAIN rq', j \in DOMAIN sq : rq'[i].n <= sq[j]
      <4>1. /\ \A i \in DOMAIN rq' : rq'[i].n \in Nat
            /\ \A j \in DOMAIN sq : sq[j] \in Nat
        BY <1>0, <1>3, Numbering DEF HubInv
      <4> QED
        BY <1>0, <1>2, <2>2, <4>1
    <3> QED
      BY <1>0, <1>1, <3>1 DEF Below, Numbers
  <2>5. \A i \in DOMAIN rq' :
          /\ IF rq'[i].kind = "error" THEN rq'[i].n = 0 ELSE Floor <= rq'[i].n
          /\ rq'[i].n <= seq
    BY <1>0, <1>1, <1>2, <1>3 DEF HubInv, PipeInv
  <2> QED
    BY <1>0, <1>1, <2>1, <2>3, <2>4, <2>5 DEF HubInv, PipeInv, Numbers
<1> QED
  BY <1>4, <1>5, <1>6 DEF HubInv
-------------------------------------------------------------------------------
(* A connection ends, while the same hub process goes on or another starts.    *)
HubGoesOn ==
  \/ UNCHANGED hub
  \/ /\ epoch < MaxEpoch
     /\ epoch' = epoch + 1 /\ seq' = 0 /\ buffered' = 0 /\ pub' = "idle"

(* What Drops may do to the cursor: nothing, or a live source has skipped      *)
(* forward and has to rewarm.                                                  *)
CursorMoves ==
  /\ stream' = stream /\ rewarm' \in BOOLEAN
  /\ \/ last' = last /\ (rewarm' = rewarm \/ rewarm')
     \/ /\ ~durable /\ rewarm' /\ stream # 0
        /\ last' \in Nat /\ last <= last' /\ (stream = epoch => last' <= seq)

LEMMA HubNumbers ==
  ASSUME HubInv, HubGoesOn
  PROVE  /\ epoch' \in 1..MaxEpoch /\ seq' \in 0..MaxSeq /\ buffered' = seq' /\ epoch <= epoch'
         /\ pub' \in {"idle", "encode", "fanout"} /\ (epoch' = epoch => seq' = seq)
         /\ pub' = "encode" => seq' < MaxSeq
         /\ pub' = "fanout" => seq' # 0
<1>1. /\ epoch \in 1..MaxEpoch /\ seq \in 0..MaxSeq /\ buffered = seq
      /\ pub \in {"idle", "encode", "fanout"}
      /\ pub = "encode" => seq < MaxSeq
      /\ pub = "fanout" => seq # 0
  BY DEF HubInv, TypeOK, LinkInv
<1>2. CASE UNCHANGED hub
  BY <1>1, <1>2, HubAssumption DEF hub
<1>3. CASE ~UNCHANGED hub
  BY <1>1, <1>3, HubAssumption DEF HubGoesOn
<1> QED
  BY <1>2, <1>3

LEMMA DropsKeeps ==
  ASSUME HubInv, Drops, HubGoesOn, CursorMoves, UNCHANGED <<durable, goal, now, past>>,
         client # "busy"
  PROVE  HubInv'
<1>0. /\ room' = 0 /\ sq' = <<>> /\ wire' = <<>> /\ rq' = <<>> /\ up' = FALSE
      /\ ready' = [epoch |-> 0, latest |-> 0, available |-> FALSE]
      /\ client' \in {"down", "gone"} /\ clock' \in {clock, "disrupted"}
      /\ UNCHANGED <<durable, goal, now, seen, recovered>>
  BY DEF Drops, Unlinked, NoAnswer, past
<1>1. /\ epoch' \in 1..MaxEpoch /\ seq' \in 0..MaxSeq /\ buffered' = seq' /\ epoch <= epoch'
      /\ pub' \in {"idle", "encode", "fanout"} /\ (epoch' = epoch => seq' = seq)
      /\ pub' = "encode" => seq' < MaxSeq
      /\ pub' = "fanout" => seq' # 0
  BY HubNumbers
<1>2. /\ last' \in Int /\ last <= last' /\ stream' = stream /\ rewarm' \in BOOLEAN
      /\ last' # last => ~durable /\ rewarm' /\ stream # 0 /\ (stream = epoch => last' <= seq)
      /\ ~rewarm' => ~rewarm /\ last' = last
  BY DEF CursorMoves, HubInv, TypeOK
<1>3. TypeOK'
  <2>1. /\ sq' \in Seq(1..MaxSeq) /\ wire' \in Seq(1..MaxSeq) /\ rq' \in Seq(Item)
        /\ room' \in Nat /\ Len(sq') <= room' /\ Len(rq') <= ReadRoom
    BY <1>0, EmptyTypes
  <2> QED
    BY <1>0, <1>1, <1>2, <2>1 DEF HubInv, TypeOK
<1>4. LinkInv'
  BY <1>0, <1>1 DEF LinkInv, NoAnswer
<1>5. CursorInv'
  <2>1. /\ epoch \in Nat /\ stream \in Nat /\ last \in Int /\ seq \in Nat /\ stream <= epoch /\ epoch' \in Nat
        /\ last >= NoCursor /\ NoCursor \in Int /\ (stream = 0 => last = NoCursor)
        /\ (stream = epoch => last <= seq)
    BY <1>1, HubAssumption DEF HubInv, TypeOK, CursorInv, NoCursor
  <2>2. stream' = epoch' => stream = epoch /\ epoch' = epoch /\ seq' = seq
    BY <1>1, <1>2, <2>1
  <2> QED
    BY <1>0, <1>1, <1>2, <2>1, <2>2 DEF CursorInv, Attached
<1>6. PipeInv'
  BY <1>0, PipeEmpties
<1>7. SeenInv'
  <2>1. /\ seen.epoch <= stream /\ seen.n \in Nat /\ last \in Int
        /\ seen.epoch = stream /\ stream # 0 => last # NoCursor /\ seen.n <= last /\ last >= NoCursor
    BY DEF HubInv, TypeOK, SeenInv, CursorInv
  <2> QED
    BY <1>0, <1>2, <2>1 DEF SeenInv, NoCursor
<1>8. UnwarnedInv'
  BY <1>0, <1>2 DEF HubInv, UnwarnedInv, Exact, SeenInv
<1> QED
  BY <1>3, <1>4, <1>5, <1>6, <1>7, <1>8 DEF HubInv

LEMMA ReaderEndsKeeps ==
  ASSUME HubInv, ReaderEnds, HubGoesOn, UNCHANGED <<durable, cursor, goal, now, past>>
  PROVE  HubInv'
<1>1. CASE Attached /\ ready.epoch # 0
  <2>1. /\ room' = 0 /\ sq' = <<>> /\ wire' = <<>>
        /\ ready' = [epoch |-> 0, latest |-> 0, available |-> FALSE]
        /\ rq' = rq \/ rq' = <<Broken>>
        /\ UNCHANGED <<client, rewarm, up, clock, durable, stream, last, goal, now, seen, recovered, Floor>>
    BY <1>1 DEF ReaderEnds, Attached, Unlinked, NoAnswer, told, cursor, past, Floor
  <2>2. /\ epoch' \in 1..MaxEpoch /\ seq' \in 0..MaxSeq /\ buffered' = seq' /\ epoch <= epoch'
        /\ pub' \in {"idle", "encode", "fanout"} /\ (epoch' = epoch => seq' = seq)
        /\ pub' = "encode" => seq' < MaxSeq
        /\ pub' = "fanout" => seq' # 0
    BY HubNumbers
  <2>3. TypeOK'
    <3>0. Broken \in Item /\ rq \in Seq(Item) /\ Len(rq) <= ReadRoom
      BY DEF HubInv, TypeOK, Broken, Item
    <3>1. rq' \in Seq(Item) /\ Len(rq') <= ReadRoom
      <4>1. CASE rq' = rq
        BY <3>0, <4>1
      <4>2. CASE rq' = <<Broken>>
        BY <3>0, <4>2, HubAssumption
      <4> QED
        BY <2>1, <4>1, <4>2
    <3>2. sq' \in Seq(1..MaxSeq) /\ wire' \in Seq(1..MaxSeq) /\ Len(sq') <= room' /\ room' \in Nat
      BY <2>1
    <3> QED
      BY <2>1, <2>2, <3>1, <3>2 DEF HubInv, TypeOK
  <2>4. LinkInv'
    BY <1>1, <2>1, <2>2 DEF LinkInv, NoAnswer, Attached
  <2>5. CursorInv'
    <3>1. /\ epoch \in Nat /\ stream \in Nat /\ last \in Int /\ stream <= epoch /\ epoch' \in Nat
      BY <2>2, HubAssumption DEF HubInv, TypeOK, CursorInv
    <3>2. stream' = epoch' => stream = epoch /\ epoch' = epoch /\ seq' = seq
      BY <2>1, <2>2, <3>1
    <3> QED
      BY <1>1, <2>1, <2>2, <3>1, <3>2 DEF HubInv, CursorInv, Attached
  <2>6. PipeInv'
    <3>1. stream' = epoch' => stream = epoch /\ epoch' = epoch /\ seq' = seq
      BY <2>1, <2>2, HubAssumption DEF HubInv, TypeOK, CursorInv
    <3>2. Sorted(sq') /\ Len(wire') <= 1 /\ Below(wire', sq') /\ Below(Numbers(rq'), wire') /\ Below(Numbers(rq'), sq')
      BY <2>1 DEF Sorted, Below, Numbers
    <3>3. /\ Sorted(Numbers(rq'))
          /\ \A i \in DOMAIN rq' :
               /\ IF rq'[i].kind = "error" THEN rq'[i].n = 0 ELSE Floor <= rq'[i].n
               /\ stream = epoch => rq'[i].n <= seq
      <4>1. CASE rq' = rq
        BY <4>1 DEF HubInv, PipeInv
      <4>2. CASE rq' = <<Broken>>
        BY <4>2, Numbering DEF Broken, Sorted, Numbers, HubInv
      <4> QED
        BY <2>1, <4>1, <4>2
    <3> QED
      BY <2>1, <3>1, <3>2, <3>3 DEF HubInv, PipeInv, Numbers
  <2>7. SeenInv' /\ UnwarnedInv'
    BY <2>1 DEF HubInv, SeenInv, UnwarnedInv, Exact
  <2> QED
    BY <2>3, <2>4, <2>5, <2>6, <2>7 DEF HubInv
<1>2. CASE ~(Attached /\ ready.epoch # 0) /\ client = "asking"
  <2>1. Drops /\ CursorMoves /\ client # "busy"
    BY <1>2 DEF ReaderEnds, Attached, CursorMoves, cursor, HubInv, TypeOK
  <2> QED
    BY <2>1, DropsKeeps
<1>3. CASE ~(Attached /\ ready.epoch # 0) /\ client # "asking"
  <2>1. UNCHANGED <<room, sq, wire, ready, rq, client, rewarm, up, clock, durable, stream, last,
                    goal, now, seen, recovered, Floor>>
    BY <1>3 DEF ReaderEnds, Attached, link, told, cursor, past, Floor
  <2>2. /\ epoch' \in 1..MaxEpoch /\ seq' \in 0..MaxSeq /\ buffered' = seq' /\ epoch <= epoch'
        /\ pub' \in {"idle", "encode", "fanout"} /\ (epoch' = epoch => seq' = seq)
        /\ pub' = "encode" => seq' < MaxSeq
        /\ pub' = "fanout" => seq' # 0
    BY HubNumbers
  <2>3. TypeOK'
    BY <2>1, <2>2 DEF HubInv, TypeOK
  <2>4. sq = <<>> /\ wire = <<>> /\ (client # "raised" => ready.epoch = 0)
    BY <1>3 DEF HubInv, TypeOK, LinkInv, Attached, NoAnswer
  <2>5. LinkInv'
    BY <2>1, <2>2, <2>4 DEF HubInv, LinkInv
  <2>6. /\ epoch \in Nat /\ stream \in Nat /\ last \in Int /\ stream <= epoch /\ epoch' \in Nat
        /\ ready.epoch \in Nat /\ (client = "raised" => ready.epoch <= epoch)
    BY <2>2, HubAssumption DEF HubInv, TypeOK, CursorInv
  <2>7. /\ stream' = epoch' => stream = epoch /\ epoch' = epoch /\ seq' = seq
        /\ client = "raised" /\ ready.epoch = epoch' => epoch' = epoch /\ seq' = seq
    BY <2>1, <2>2, <2>6
  <2>8. CursorInv'
    BY <1>3, <2>1, <2>2, <2>4, <2>6, <2>7 DEF HubInv, CursorInv, Attached
  <2>9. PipeInv'
    BY <2>1, <2>4, <2>7 DEF HubInv, PipeInv, Sorted, Below, Numbers
  <2>10. SeenInv' /\ UnwarnedInv'
    BY <2>1 DEF HubInv, SeenInv, UnwarnedInv, Exact
  <2> QED
    BY <2>3, <2>5, <2>8, <2>9, <2>10 DEF HubInv
<1> QED
  BY <1>1, <1>2, <1>3
LEMMA BreaksKeeps == HubInv /\ Breaks => HubInv'
<1> SUFFICES ASSUME HubInv, Breaks PROVE HubInv'
  OBVIOUS
<1>1. ReaderEnds /\ HubGoesOn /\ UNCHANGED <<durable, cursor, goal, now, past>>
  BY DEF Breaks, HubGoesOn
<1> QED
  BY <1>1, ReaderEndsKeeps

LEMMA HubRestartsKeeps == HubInv /\ HubRestarts => HubInv'
<1> SUFFICES ASSUME HubInv, HubRestarts PROVE HubInv'
  OBVIOUS
<1>1. ReaderEnds /\ HubGoesOn /\ UNCHANGED <<durable, cursor, goal, now, past>>
  BY DEF HubRestarts, HubGoesOn
<1> QED
  BY <1>1, ReaderEndsKeeps

LEMMA StopsWaitingKeeps == HubInv /\ StopsWaiting => HubInv'
<1> SUFFICES ASSUME HubInv, StopsWaiting PROVE HubInv'
  OBVIOUS
<1>1. /\ Drops /\ HubGoesOn /\ CursorMoves /\ UNCHANGED <<durable, goal, now, past>>
      /\ client # "busy"
  BY DEF StopsWaiting, HubGoesOn, CursorMoves, cursor, HubInv, TypeOK
<1> QED
  BY <1>1, DropsKeeps

-------------------------------------------------------------------------------
(* The consumer.  The item it takes, and what is left behind that item.        *)
LEMMA QueueHead ==
  ASSUME HubInv, rq # <<>>
  PROVE  /\ Head(rq) \in Item /\ Head(rq) = rq[1] /\ 1 \in DOMAIN rq
         /\ Tail(rq) \in Seq(Item) /\ Len(Tail(rq)) <= ReadRoom
         /\ \A i \in DOMAIN Tail(rq) : i + 1 \in DOMAIN rq /\ Tail(rq)[i] = rq[i + 1]
         /\ \A i \in DOMAIN rq : Head(rq).n <= rq[i].n
<1>1. rq \in Seq(Item) /\ Len(rq) <= ReadRoom /\ ReadRoom \in Nat
  BY HubAssumption DEF HubInv, TypeOK
<1>2. Head(rq) \in Item /\ Tail(rq) \in Seq(Item) /\ Len(Tail(rq)) = Len(rq) - 1
  BY <1>1, HeadTailProperties
<1>3. Head(rq) = rq[1] /\ 1 \in DOMAIN rq /\ Len(Tail(rq)) <= ReadRoom
  BY <1>1, <1>2
<1>4. \A i \in DOMAIN Tail(rq) : i + 1 \in DOMAIN rq /\ Tail(rq)[i] = rq[i + 1]
  BY <1>1, <1>2
<1>5. \A i \in DOMAIN rq : i \in Nat \ {0} /\ (1 <= i => rq[1].n <= rq[i].n)
  BY <1>1, <1>3 DEF HubInv, PipeInv, Sorted, Numbers
<1> QED
  BY <1>2, <1>3, <1>4, <1>5

(* Leaving the head of the queue behind, and with it perhaps all the cursor    *)
(* has not passed yet, keeps the rest of the way in order.                     *)
LEMMA PipeAdvances ==
  ASSUME HubInv, rq # <<>>, rq' = Tail(rq), UNCHANGED <<epoch, seq, sq, wire, stream>>,
         Floor' = Floor \/ (Head(rq).kind # "error" /\ Floor' = Head(rq).n),
         client' = "busy" => Head(rq).kind # "error" /\ now' = Head(rq).n
  PROVE  PipeInv'
<1>1. /\ \A i \in DOMAIN rq' : i + 1 \in DOMAIN rq /\ rq'[i] = rq[i + 1] /\ i \in Nat
      /\ \A i \in DOMAIN rq : Head(rq).n <= rq[i].n
      /\ Head(rq) = rq[1] /\ 1 \in DOMAIN rq /\ Head(rq).n \in Nat
  <2>1. Tail(rq) \in Seq(Item) /\ Head(rq) \in Item
    BY QueueHead
  <2>2. Head(rq).n \in Nat /\ \A i \in DOMAIN Tail(rq) : i \in Nat
    BY <2>1 DEF Item
  <2> QED
    BY <2>2, QueueHead
<1>2. /\ \A i, j \in DOMAIN rq : i <= j => rq[i].n <= rq[j].n
      /\ \A i \in DOMAIN rq, j \in DOMAIN wire : rq[i].n <= wire[j]
      /\ \A i \in DOMAIN rq, j \in DOMAIN sq : rq[i].n <= sq[j]
      /\ \A i \in DOMAIN rq :
           /\ IF rq[i].kind = "error" THEN rq[i].n = 0 ELSE Floor <= rq[i].n
           /\ stream = epoch => rq[i].n <= seq
  BY DEF HubInv, PipeInv, Sorted, Below, Numbers
<1>3. Sorted(Numbers(rq'))
  BY <1>1, <1>2 DEF Sorted, Numbers
<1>4. Below(Numbers(rq'), wire) /\ Below(Numbers(rq'), sq)
  BY <1>1, <1>2 DEF Below, Numbers
<1>5. \A i \in DOMAIN rq' :
        /\ IF rq'[i].kind = "error" THEN rq'[i].n = 0 ELSE Floor' <= rq'[i].n
        /\ stream = epoch => rq'[i].n <= seq
  BY <1>1, <1>2
<1>6. \A b \in Nat : (Floor' = Floor \/ Head(rq).n <= b) => (InRange(b) => InRange(b)')
  BY <1>1 DEF InRange
<1>7. \A i \in DOMAIN sq : sq[i] \in Nat /\ InRange(sq[i]) /\ sq[i] <= seq /\ Head(rq).n <= sq[i]
  BY <1>1, <1>2, Numbering DEF HubInv, PipeInv
<1>8. \A i \in DOMAIN wire : wire[i] \in Nat /\ InRange(wire[i]) /\ wire[i] <= seq /\ Head(rq).n <= wire[i]
  BY <1>1, <1>2, Numbering DEF HubInv, PipeInv
<1> QED
  BY <1>1, <1>2, <1>3, <1>4, <1>5, <1>6, <1>7, <1>8 DEF HubInv, PipeInv, Numbers

LEMMA ConsumerTakesKeeps == HubInv /\ ConsumerTakes => HubInv'
<1> SUFFICES ASSUME HubInv, ConsumerTakes PROVE HubInv'
  OBVIOUS
<1> DEFINE item == Head(rq)
<1>0. /\ client = "stream" /\ rq # <<>> /\ stream # 0 /\ item \in Item /\ item = rq[1] /\ 1 \in DOMAIN rq
      /\ UNCHANGED <<epoch, seq, buffered, pub, durable, goal>>
      /\ Lags(item) \/ Fails(item) \/ Ignores(item) \/ FindsGap(item) \/ Yields(item)
  BY QueueHead DEF ConsumerTakes, HubInv, CursorInv, Attached, hub
<1>1. /\ item.n \in Nat
      /\ item.kind # "error" => last <= item.n
      /\ stream = epoch => item.n <= seq
  BY <1>0 DEF HubInv, PipeInv, Floor, Item
<1> HIDE DEF item
<1>2. CASE Lags(item)
  <2>1. Drops /\ HubGoesOn /\ UNCHANGED <<durable, goal, now, past>> /\ client # "busy"
    BY <1>0, <1>2 DEF Lags, HubGoesOn, hub
  <2>2. CursorMoves
    BY <1>0, <1>1, <1>2 DEF Lags, CursorMoves
  <2> QED
    BY <2>1, <2>2, DropsKeeps
<1>3. CASE Fails(item) \/ FindsGap(item)
  <2>1. /\ Drops /\ HubGoesOn /\ UNCHANGED <<durable, goal, now, past>> /\ client # "busy"
        /\ CursorMoves
    BY <1>0, <1>3 DEF Fails, FindsGap, HubGoesOn, CursorMoves, cursor, hub, HubInv, TypeOK
  <2> QED
    BY <2>1, DropsKeeps
<1>4. ASSUME Ignores(item) \/ Yields(item)
      PROVE  /\ rq' = Tail(rq) /\ UNCHANGED <<room, sq, wire, ready, stream, last, rewarm, up, clock>>
             /\ rq' \in Seq(Item) /\ Len(rq') <= ReadRoom
             /\ item.kind = "batch"
  BY <1>0, <1>4, QueueHead DEF Ignores, Yields, cursor, link, told
<1>5. CASE Ignores(item)
  <2>1. UNCHANGED <<client, now, seen, recovered, Floor>>
    BY <1>4, <1>5 DEF Ignores, past, Floor
  <2>2. TypeOK'
    BY <1>0, <1>4, <1>5, <2>1 DEF HubInv, TypeOK
  <2>3. LinkInv' /\ CursorInv' /\ SeenInv' /\ UnwarnedInv'
    BY <1>0, <1>4, <1>5, <2>1
       DEF HubInv, LinkInv, CursorInv, SeenInv, UnwarnedInv, Attached, Exact
  <2>4. PipeInv'
    BY <1>0, <1>4, <1>5, <2>1, PipeAdvances
  <2> QED
    BY <2>2, <2>3, <2>4 DEF HubInv
<1>6. CASE Yields(item)
  <2>1. /\ client' = "busy" /\ now' = item.n /\ seen' = [epoch |-> stream, n |-> item.n]
        /\ recovered' = FALSE /\ Floor' = item.n
    BY <1>6 DEF Yields, Floor
  <2>2. TypeOK'
    BY <1>0, <1>1, <1>4, <1>6, <2>1 DEF HubInv, TypeOK
  <2>3. LinkInv' /\ CursorInv'
    BY <1>0, <1>4, <1>6, <2>1 DEF HubInv, LinkInv, CursorInv, Attached
  <2>4. SeenInv' /\ UnwarnedInv'
    BY <1>0, <1>4, <1>6, <2>1 DEF HubInv, TypeOK, SeenInv, UnwarnedInv
  <2>5. PipeInv'
    BY <1>0, <1>4, <1>6, <2>1, PipeAdvances DEF item
  <2> QED
    BY <2>2, <2>3, <2>4, <2>5 DEF HubInv
<1> QED
  BY <1>0, <1>2, <1>3, <1>5, <1>6

LEMMA ConsumerDoneKeeps == HubInv /\ ConsumerDone => HubInv'
<1> SUFFICES ASSUME HubInv, ConsumerDone PROVE HubInv'
  OBVIOUS
<1>0. /\ client' = "stream" /\ last' = now /\ now' = 0 /\ rewarm' = FALSE
      /\ clock' = "ready" /\ now \in Nat
  BY DEF ConsumerDone, HubInv, TypeOK
<1>1. /\ client = "busy" /\ client' = "stream" /\ last' = now /\ now' = 0 /\ rewarm' = FALSE
      /\ clock' = "ready" /\ up' \in BOOLEAN
      /\ UNCHANGED <<epoch, seq, buffered, pub, room, sq, wire, ready, durable, stream, goal, rq,
                     seen, recovered>>
      /\ now \in Nat /\ Floor = now /\ Floor' = now
  BY DEF ConsumerDone, HubInv, TypeOK, Floor, hub, link, past
<1>2. TypeOK'
  <2>1. /\ client' \in {"down", "asking", "stream", "busy", "raised", "gone"}
        /\ clock' \in {"connecting", "ready", "recovering", "disrupted"}
        /\ last' \in Int /\ now' \in Nat
    BY <1>0
  <2>4. up' \in BOOLEAN /\ rewarm' \in BOOLEAN
    BY <1>0, <1>1, Zenon
  <2>2. /\ epoch' \in 1..MaxEpoch /\ seq' \in 0..MaxSeq /\ buffered' \in 0..MaxSeq
        /\ pub' \in {"idle", "encode", "fanout"} /\ durable' \in BOOLEAN
        /\ stream' \in Nat /\ goal' \in Nat /\ recovered' \in BOOLEAN
        /\ seen' \in [epoch : Nat, n : Nat]
        /\ ready' \in [epoch : Nat, latest : Nat, available : BOOLEAN]
    BY <1>1 DEF HubInv, TypeOK
  <2>3. /\ room' \in Nat /\ sq' \in Seq(1..MaxSeq) /\ wire' \in Seq(1..MaxSeq)
        /\ rq' \in Seq(Item) /\ Len(rq') <= ReadRoom /\ Len(sq') <= room'
    BY <1>1 DEF HubInv, TypeOK
  <2> QED
    BY <2>1, <2>2, <2>3, <2>4 DEF TypeOK
<1>3. LinkInv' /\ CursorInv' /\ SeenInv' /\ UnwarnedInv'
  BY <1>1
     DEF HubInv, LinkInv, CursorInv, PipeInv, SeenInv, UnwarnedInv, Attached, Exact, NoCursor
<1>4. PipeInv'
  <2>1. \A b : InRange(b)' <=> InRange(b)
    BY <1>1 DEF InRange
  <2> QED
    BY <1>1, <2>1 DEF HubInv, PipeInv, Sorted, Below, Numbers
<1> QED
  BY <1>2, <1>3, <1>4 DEF HubInv

LEMMA RecoversKeeps == HubInv /\ Recovers => HubInv'
<1> SUFFICES ASSUME HubInv, Recovers PROVE HubInv'
  OBVIOUS
<1>1. /\ client = "raised" /\ client' = "down" /\ stream' = ready.epoch /\ last' = ready.latest
      /\ rewarm' = TRUE /\ recovered' = TRUE
      /\ ready' = [epoch |-> 0, latest |-> 0, available |-> FALSE]
      /\ UNCHANGED <<epoch, seq, buffered, pub, room, sq, wire, durable, goal, rq, now, up, clock, seen>>
  BY DEF Recovers, NoAnswer, hub
<1>2. durable /\ room = 0 /\ sq = <<>> /\ wire = <<>> /\ rq = <<>>
  BY <1>1 DEF HubInv, LinkInv
<1>3. ready.epoch \in Nat /\ ready.latest \in Nat
  BY DEF HubInv, TypeOK
<1>4. TypeOK'
  <2>1. /\ stream' \in Nat /\ last' \in Int /\ rewarm' \in BOOLEAN /\ recovered' \in BOOLEAN
        /\ client' \in {"down", "asking", "stream", "busy", "raised", "gone"}
    BY <1>1, <1>3
  <2>2. ready' \in [epoch : Nat, latest : Nat, available : BOOLEAN]
    BY <1>1
  <2>3. /\ epoch' \in 1..MaxEpoch /\ seq' \in 0..MaxSeq /\ buffered' \in 0..MaxSeq
        /\ pub' \in {"idle", "encode", "fanout"} /\ durable' \in BOOLEAN /\ goal' \in Nat
        /\ now' \in Nat /\ up' \in BOOLEAN /\ seen' \in [epoch : Nat, n : Nat]
        /\ clock' \in {"connecting", "ready", "recovering", "disrupted"}
    BY <1>1 DEF HubInv, TypeOK
  <2>4. /\ room' \in Nat /\ sq' \in Seq(1..MaxSeq) /\ wire' \in Seq(1..MaxSeq)
        /\ rq' \in Seq(Item) /\ Len(rq') <= ReadRoom /\ Len(sq') <= room'
    BY <1>1 DEF HubInv, TypeOK
  <2> QED
    BY <2>1, <2>2, <2>3, <2>4 DEF TypeOK
<1>5. LinkInv' /\ CursorInv'
  BY <1>1, <1>2, <1>3 DEF HubInv, LinkInv, CursorInv, Attached, NoAnswer, NoCursor
<1>6. SeenInv' /\ UnwarnedInv'
  BY <1>1, <1>2, <1>3 DEF HubInv, TypeOK, CursorInv, SeenInv, UnwarnedInv, NoCursor
<1>7. PipeInv'
  BY <1>1, <1>2, PipeEmpties
<1> QED
  BY <1>4, <1>5, <1>6, <1>7 DEF HubInv

-------------------------------------------------------------------------------
LEMMA HubInvStarts == Init => HubInv
<1> SUFFICES ASSUME Init PROVE HubInv
  OBVIOUS
<1>1. TypeOK
  <2>1. /\ room = 0 /\ Len(sq) = 0 /\ Len(rq) = 0 /\ rq \in Seq(Item)
        /\ sq \in Seq(1..MaxSeq) /\ wire \in Seq(1..MaxSeq)
    BY EmptySeq DEF Init
  <2>2. ready \in [epoch : Nat, latest : Nat, available : BOOLEAN]
    BY DEF Init, NoAnswer
  <2>3. /\ epoch \in 1..MaxEpoch /\ seq \in 0..MaxSeq /\ buffered \in 0..MaxSeq
        /\ stream \in Nat /\ last \in Int /\ goal \in Nat /\ now \in Nat
        /\ room \in Nat /\ Len(rq) <= ReadRoom /\ Len(sq) <= room
    BY <2>1, HubAssumption DEF Init, NoCursor
  <2>4. seen \in [epoch : Nat, n : Nat]
    BY DEF Init
  <2>5. /\ pub \in {"idle", "encode", "fanout"} /\ durable \in BOOLEAN
        /\ client \in {"down", "asking", "stream", "busy", "raised", "gone"}
        /\ rewarm \in BOOLEAN /\ up \in BOOLEAN /\ recovered \in BOOLEAN
        /\ clock \in {"connecting", "ready", "recovering", "disrupted"}
    BY DEF Init
  <2> QED
    BY <2>1, <2>2, <2>3, <2>4, <2>5 DEF TypeOK
<1>2. LinkInv /\ CursorInv /\ SeenInv /\ UnwarnedInv
  BY DEF Init, LinkInv, CursorInv, SeenInv, UnwarnedInv, Attached, NoAnswer, NoCursor
<1>3. PipeInv
  BY DEF Init, PipeInv, Sorted, Below, Numbers
<1> QED
  BY <1>1, <1>2, <1>3 DEF HubInv

LEMMA HubInvStays == HubInv /\ [Next]_vars => HubInv'
<1> SUFFICES ASSUME HubInv, [Next]_vars PROVE HubInv'
  OBVIOUS
<1>1. CASE Publisher
  BY <1>1, PublishStartsKeeps, PublishCommitsKeeps, PublishFansOutKeeps DEF Publisher
<1>2. CASE Transport
  BY <1>2, WriterSendsKeeps, ReaderTakesKeeps, HubAnswersKeeps DEF Transport
<1>3. CASE Source
  BY <1>3, ConnectsKeeps, ClientHearsKeeps, ConsumerTakesKeeps, ConsumerDoneKeeps,
     RecoversKeeps DEF Source
<1>4. CASE Breaks \/ HubRestarts \/ StopsWaiting
  BY <1>4, BreaksKeeps, HubRestartsKeeps, StopsWaitingKeeps
<1>5. CASE UNCHANGED vars
  BY <1>5
     DEF HubInv, TypeOK, LinkInv, CursorInv, PipeInv, SeenInv, UnwarnedInv, Attached, Floor,
         InRange, Exact, Sorted, Below, Numbers, vars, hub, link, cursor, told, past
<1> QED
  BY <1>1, <1>2, <1>3, <1>4, <1>5 DEF Next

LEMMA HubInvHolds == Spec => []HubInv
<1> QED
  BY HubInvStarts, HubInvStays, PTL DEF Spec

-------------------------------------------------------------------------------
(* The refinement.  Handing a batch over is the one step that the subscriber   *)
(* notices: without a warning the cursor is exactly the batch handed over last *)
(* (UnwarnedInv) and the next one follows it; with one, it is a later one      *)
(* (SeenInv).  In both cases the hub has published it (PipeInv).               *)
LEMMA YieldMaps ==
  ASSUME HubInv, client = "stream", rq # <<>>, Yields(Head(rq)), UNCHANGED <<hub, durable, goal>>
  PROVE  Subscriber!HandOver \/ Subscriber!Skip
<1> DEFINE b == Head(rq).n
           warned == IF durable THEN recovered ELSE ~up
<1>1. /\ ~Repeated(b) /\ Gapless(b) /\ Head(rq).kind = "batch"
      /\ seen' = [epoch |-> stream, n |-> b] /\ recovered' = FALSE
      /\ UNCHANGED <<epoch, seq, durable, up>>
  BY DEF Yields, hub, told
<1>2. /\ epoch \in Nat /\ seq \in Nat /\ stream \in Nat \ {0} /\ stream <= epoch
      /\ last \in Int /\ seen \in [epoch : Nat, n : Nat]
      /\ durable \in BOOLEAN /\ up \in BOOLEAN /\ recovered \in BOOLEAN
  BY HubAssumption DEF HubInv, TypeOK, CursorInv, Attached
<1>3. b \in Nat /\ (stream = epoch => b <= seq)
  <2>1. Head(rq) \in Item /\ Head(rq) = rq[1] /\ 1 \in DOMAIN rq
    BY DEF HubInv, TypeOK
  <2> QED
    BY <2>1 DEF HubInv, PipeInv, Item
<1> HIDE DEF b
<1>4. /\ ~Subscriber!Later([epoch |-> stream, n |-> b], [epoch |-> epoch, n |-> seq])
      /\ [epoch |-> stream, n |-> b] \in Subscriber!Batch
  BY <1>2, <1>3 DEF Subscriber!Later, Subscriber!Batch
<1>5. warned' \in BOOLEAN /\ warned \in BOOLEAN
  BY <1>1, <1>2
<1>6. CASE warned
  <2>1. Subscriber!Later([epoch |-> stream, n |-> b], seen)
    BY <1>1, <1>2, <1>3 DEF HubInv, SeenInv, Subscriber!Later, Repeated, NoCursor
  <2> QED
    BY <1>1, <1>4, <1>5, <1>6, <2>1 DEF Subscriber!Skip
<1>7. CASE ~warned
  <2>1. Exact
    BY <1>7, <1>2 DEF HubInv, UnwarnedInv
  <2>2. stream = seen.epoch /\ b = seen.n + 1
    BY <2>1, <1>1, <1>2 DEF Exact, Gapless, NoCursor
  <2> QED
    BY <1>1, <1>4, <1>5, <2>2 DEF Subscriber!HandOver
<1> QED
  BY <1>5, <1>6, <1>7

LEMMA OthersMap ==
  ASSUME HubInv, HubInv', UNCHANGED <<epoch, seq, seen>>
  PROVE  Subscriber!Warn
<1>1. (IF durable' THEN recovered' ELSE ~up') \in BOOLEAN
  BY DEF HubInv, TypeOK
<1> QED
  BY <1>1 DEF Subscriber!Warn

LEMMA StepMaps ==
  ASSUME HubInv, HubInv', Next
  PROVE  Subscriber!Next
<1>1. (IF durable' THEN recovered' ELSE ~up') \in BOOLEAN
  BY DEF HubInv, TypeOK
<1>2. CASE PublishCommits
  <2>1. seq' = seq + 1 /\ UNCHANGED <<epoch, seen>>
    BY <1>2 DEF PublishCommits, HubInv, LinkInv, past
  <2> QED
    BY <1>1, <2>1 DEF Subscriber!Next, Subscriber!Publish
<1>3. CASE HubRestarts
  <2>1. epoch' = epoch + 1 /\ seq' = 0 /\ UNCHANGED seen
    BY <1>3 DEF HubRestarts, past
  <2> QED
    BY <1>1, <2>1 DEF Subscriber!Next, Subscriber!Publish
<1>4. CASE ConsumerTakes
  <2>1. UNCHANGED <<hub, durable, goal>> /\ client = "stream" /\ rq # <<>>
    BY <1>4 DEF ConsumerTakes
  <2>2. CASE Yields(Head(rq))
    BY <2>1, <2>2, YieldMaps DEF Subscriber!Next
  <2>3. CASE ~Yields(Head(rq))
    <3>1. UNCHANGED <<epoch, seq, seen>>
      BY <1>4, <2>1, <2>3 DEF ConsumerTakes, Lags, Fails, Ignores, FindsGap, hub, past
    <3> QED
      BY <3>1, OthersMap DEF Subscriber!Next
  <2> QED
    BY <2>2, <2>3
<1>5. CASE PublishStarts \/ PublishFansOut \/ Transport
  <2>1. UNCHANGED <<epoch, seq, seen>>
    BY <1>5 DEF PublishStarts, PublishFansOut, Transport, WriterSends, ReaderTakes, HubAnswers,
                hub, past
  <2> QED
    BY <2>1, OthersMap DEF Subscriber!Next
<1>6. CASE Connects \/ ClientHears \/ ConsumerDone \/ Recovers \/ Breaks \/ StopsWaiting
  <2>1. UNCHANGED <<epoch, seq, seen>>
    BY <1>6 DEF Connects, ClientHears, ConsumerDone, Recovers, Breaks, StopsWaiting, hub, past
  <2> QED
    BY <2>1, OthersMap DEF Subscriber!Next
<1> QED
  BY <1>2, <1>3, <1>4, <1>5, <1>6 DEF Next, Publisher, Source

LEMMA InitMaps == Init => Subscriber!Init
<1> SUFFICES ASSUME Init PROVE Subscriber!Init
  OBVIOUS
<1>1. (IF durable THEN recovered ELSE ~up) \in BOOLEAN
  BY DEF Init
<1> QED
  BY <1>1 DEF Init, Subscriber!Init

(* Whatever happens to the connection, the queues and the hub process, the     *)
(* source hands the published batches over in order, once each, and leaves one *)
(* out only while its owner knows that batches may be missing.                 *)
THEOREM SubscriberImplementsFeed == Spec => ImplementsFeed
<1>1. HubInv /\ HubInv' /\ [Next]_vars => [Subscriber!Next]_(Subscriber!vars)
  <2>1. ASSUME UNCHANGED vars PROVE UNCHANGED Subscriber!vars
    BY <2>1 DEF vars, hub, told, past, Subscriber!vars
  <2> QED
    BY <2>1, StepMaps
<1> QED
  BY <1>1, InitMaps, HubInvHolds, PTL DEF Spec, ImplementsFeed, Subscriber!Spec

(* A durable source is refused only when another hub process runs or the       *)
(* replay window has moved past its cursor: never for a reconnection in time.  *)
THEOREM RefusalMeansLoss == Spec => RefusedOnlyIfLost
<1>1. ASSUME HubInv, [Next]_vars, client' = "raised", client # "raised"
      PROVE  stream # epoch \/ last + Window < seq
  <2>1. ClientHears
    BY <1>1 DEF Next, Publisher, Transport, Source, PublishStarts, PublishCommits,
       PublishFansOut, WriterSends, ReaderTakes, HubAnswers, Connects, ConsumerTakes,
       ConsumerDone, Recovers, Breaks, HubRestarts, StopsWaiting, ReaderEnds, Drops, Lags,
       Fails, Ignores, FindsGap, Yields, vars
  <2>2. client = "asking" /\ ready.epoch # 0 /\ ready.epoch = epoch
    BY <1>1, <2>1 DEF ClientHears, HubInv, LinkInv
  <2>3. stream \notin {0, ready.epoch} \/ ~ready.available
    BY <1>1, <2>1 DEF ClientHears
  <2> QED
    BY <1>1, <2>2, <2>3, HubAssumption DEF HubInv, CursorInv, TypeOK
<1> QED
  BY <1>1, HubInvHolds, PTL DEF Spec, RefusedOnlyIfLost

(* Every variable keeps its type, the queues within their rooms.               *)
THEOREM HubTyped == Spec => []TypeOK
<1> QED
  BY HubInvHolds, PTL DEF HubInv
===============================================================================
