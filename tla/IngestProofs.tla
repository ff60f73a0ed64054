------------------------------ MODULE IngestProofs ------------------------------
(* Theorems about Ingest for any connections, keys, sizes and limits: every    *)
(* trade from the first one on is archived or reported as missing, never both, *)
(* and a trade the queue took is not lost on the way there.                    *)
EXTENDS Ingest, SumTheorems, SequenceTheorems

-------------------------------------------------------------------------------
(* The invariant.  What moves through the queue is a quote or a trade the      *)
(* exchange made, and a quote is kept under its own key; the limits of the     *)
(* queue and its bytes play no part.                                           *)
Good == {x \in Item : x.size > 0 /\ (x.key = None => x.id \in 1..MaxId)}

Filed(f) ==
  /\ f \in [Keys -> Item]
  /\ \A k \in Keys : f[k] # NoItem => f[k].key = k /\ f[k].size > 0

StoreInv ==
  /\ queue \in Seq(Good) /\ batch \in Seq(Good)
  /\ Filed(pending) /\ Filed(buffer)

HeldInv ==
  /\ conn \in [AllConns -> {"on", "paused", "waiting", "retry", "off"}]
  /\ held \in [AllConns -> Item] /\ sent \in [AllConns -> Nat]
  /\ \A c \in AllConns : conn[c] \in {"paused", "waiting", "retry"} => held[c] \in Good

WorkerInv ==
  /\ worker \in {"idle", "busy", "failed"}
  /\ worker # "busy" => batch = <<>>

(* The archive and the reports reach exactly as far as _last_seen, and until a *)
(* write fails they leave nothing out.                                         *)
SeenInv ==
  /\ lastSeen \in 0..MaxId /\ first \in 0..lastSeen
  /\ first = 0 => lastSeen = 0
  /\ archived \subseteq 1..lastSeen /\ gaps \subseteq 1..lastSeen
  /\ archived \cap gaps = {}
  /\ worker # "failed" /\ first # 0 => archived \cup gaps = first..lastSeen

Queued == {queue[j].id : j \in {j \in DOMAIN queue : IsTrade(queue[j])}}

TakenInv ==
  /\ accepted \subseteq 1..MaxId
  /\ \A i \in accepted : i <= lastSeen \/ i \in Queued \/ i \in Ids

KeptInv == StoreInv /\ HeldInv /\ WorkerInv /\ SeenInv /\ TakenInv

-------------------------------------------------------------------------------
(* The greatest number of a set.                                               *)
LEMMA TopIs ==
  ASSUME NEW S, S \subseteq 0..MaxId, S # {}
  PROVE  Top(S) \in S /\ \A y \in S : y <= Top(S)
<1>1. MaxId \in Nat
  BY IngestAssumption
<1> DEFINE T == {MaxId - y : y \in S}
<1>2. T \subseteq Nat /\ T # {}
  <2>1. PICK s \in S : TRUE
    OBVIOUS
  <2>2. MaxId - s \in T
    OBVIOUS
  <2>3. \A y \in S : MaxId - y \in Nat
    BY <1>1
  <2> QED
    BY <2>2, <2>3
<1> HIDE DEF T
<1>3. PICK m \in T : \A y \in T : m <= y
  BY <1>2, Least
<1>4. PICK x \in S : m = MaxId - x
  BY DEF T
<1>5. \A y \in S : MaxId - y \in T
  BY DEF T
<1>6. \A y \in S : MaxId - x <= MaxId - y
  BY <1>3, <1>4, <1>5
<1>7. \A y \in S : y <= x
  BY <1>1, <1>6
<1> QED
  BY <1>7 DEF Top

-------------------------------------------------------------------------------
(* A batch, read from front to back against _last_seen.                        *)
BatchOK == batch \in Seq(Good) /\ lastSeen \in 0..MaxId

Trades == {i \in DOMAIN batch : IsTrade(batch[i])}

LEMMA TradesIn ==
  ASSUME BatchOK
  PROVE  /\ DOMAIN batch = 1..Len(batch) /\ Len(batch) \in Nat
         /\ Trades \subseteq 1..Len(batch)
         /\ \A i \in Trades : batch[i].id \in 1..MaxId
<1>1. Len(batch) \in Nat /\ DOMAIN batch = 1..Len(batch)
  BY LenProperties DEF BatchOK
<1>2. \A i \in 1..Len(batch) : batch[i] \in Good
  BY <1>1, ElementOfSeq DEF BatchOK
<1> QED
  BY <1>1, <1>2 DEF Trades, Good, IsTrade

(* Before(i) is what the recovery has seen of the symbol when it comes to i.   *)
LEMMA BeforeIs ==
  ASSUME BatchOK, NEW i \in DOMAIN batch
  PROVE  /\ Before(i) \in 0..MaxId /\ lastSeen <= Before(i)
         /\ \A j \in Trades : j < i => batch[j].id <= Before(i)
         /\ Before(i) = lastSeen \/ \E j \in Trades : j < i /\ Before(i) = batch[j].id
<1> DEFINE S == {lastSeen} \cup {batch[j].id : j \in {j \in 1..(i - 1) : IsTrade(batch[j])}}
<1>1. i \in 1..Len(batch) /\ Len(batch) \in Nat
  BY TradesIn
<1>2. {j \in 1..(i - 1) : IsTrade(batch[j])} = {j \in Trades : j < i}
  BY <1>1, TradesIn DEF Trades
<1>3. S = {lastSeen} \cup {batch[j].id : j \in {j \in Trades : j < i}}
  BY <1>2
<1>4. MaxId \in Nat /\ lastSeen \in 0..MaxId
  BY IngestAssumption DEF BatchOK
<1>5. S \subseteq 0..MaxId /\ S # {}
  BY <1>3, <1>4, TradesIn
<1>6. Top(S) \in S /\ \A y \in S : y <= Top(S)
  <2> HIDE DEF S
  <2> QED BY <1>5, TopIs
<1>7. Before(i) = Top(S)
  BY DEF Before
<1> HIDE DEF S
<1>8. \A j \in Trades : j < i => batch[j].id \in S
  BY <1>3
<1> QED
  BY <1>3, <1>5, <1>6, <1>7, <1>8

(* Whatever lies between _last_seen and a trade of the batch lies in the jump  *)
(* of an accepted trade, or is one.                                            *)
LEMMA Cover ==
  ASSUME BatchOK, NEW t \in Trades, NEW x \in Int, lastSeen < x, x <= batch[t].id
  PROVE  \E j \in New : Before(j) < x /\ x <= batch[j].id
<1> DEFINE T == {j \in Trades : x <= batch[j].id}
<1>1. T \subseteq Nat /\ T # {}
  BY TradesIn
<1>2. PICK m \in T : \A y \in T : m <= y
  BY <1>1, Least
<1>3. m \in Trades /\ m \in DOMAIN batch /\ x <= batch[m].id /\ m \in Nat
  BY <1>1, TradesIn
<1>4. \A j \in Trades : j < m => batch[j].id < x
  BY <1>2, <1>3, TradesIn
<1>5. Before(m) < x /\ Before(m) \in Int
  BY <1>3, <1>4, BeforeIs
<1>6. m \in New
  BY <1>3, <1>5, TradesIn DEF New, Accepts, Trades
<1> QED
  BY <1>3, <1>5, <1>6

(* Two accepted trades, and the jumps in front of them, do not overlap.        *)
LEMMA Apart ==
  ASSUME BatchOK, NEW i \in New, NEW j \in New, i < j
  PROVE  batch[i].id <= Before(j)
<1>1. i \in Trades /\ j \in DOMAIN batch
  BY DEF New, Accepts, Trades
<1> QED
  BY <1>1, BeforeIs

LEMMA NewIs ==
  ASSUME BatchOK, NEW i \in New
  PROVE  /\ i \in Trades /\ i \in DOMAIN batch /\ i \in Nat
         /\ batch[i].id \in 1..MaxId
         /\ Before(i) \in Nat /\ lastSeen <= Before(i) /\ Before(i) < batch[i].id
<1>1. i \in Trades /\ i \in DOMAIN batch /\ batch[i].id > Before(i)
  BY DEF New, Accepts, Trades
<1> QED
  BY <1>1, TradesIn, BeforeIs

LEMMA MissingIs ==
  ASSUME BatchOK, NEW i \in New
  PROVE  /\ \A x \in Missing(i) : x \in Nat /\ Before(i) < x /\ x < batch[i].id
         /\ Before(i) # 0 =>
              \A x \in Int : Before(i) < x /\ x < batch[i].id => x \in Missing(i)
         /\ Before(i) = 0 => Missing(i) = {}
<1>1. Before(i) \in Nat /\ batch[i].id \in Nat
  BY NewIs
<1> QED
  BY <1>1 DEF Missing

(* Where _last_seen ends.                                                      *)
LEMMA SeenIs ==
  ASSUME BatchOK, NEW refilled
  PROVE  /\ Seen(refilled) \in 0..MaxId /\ lastSeen <= Seen(refilled)
         /\ \A i \in New : batch[i].id <= Seen(refilled)
         /\ Seen(refilled) = lastSeen \/ \E i \in New : Seen(refilled) = batch[i].id
<1> DEFINE S == {lastSeen} \cup Fresh
<1>1. MaxId \in Nat /\ lastSeen \in 0..MaxId
  BY IngestAssumption DEF BatchOK
<1>2. \A i \in New : batch[i].id \in 0..MaxId
  BY <1>1, NewIs
<1>3. S \subseteq 0..MaxId /\ S # {}
  BY <1>1, <1>2 DEF Fresh
<1>4. Top(S) \in S /\ \A y \in S : y <= Top(S)
  <2> HIDE DEF S
  <2> QED BY <1>3, TopIs
<1>5. Seen(refilled) = Top(S)
  BY DEF Seen
<1>6. lastSeen \in S /\ \A i \in New : batch[i].id \in S
  BY DEF Fresh
<1>7. \A y \in S : y = lastSeen \/ \E i \in New : y = batch[i].id
  BY DEF Fresh
<1> HIDE DEF S
<1> QED
  BY <1>3, <1>4, <1>5, <1>6, <1>7

(* Every trade of the batch ends up at or below it.                            *)
LEMMA TradesSeen ==
  ASSUME BatchOK, NEW refilled, NEW t \in Trades
  PROVE  batch[t].id <= Seen(refilled)
<1>1. batch[t].id \in Int /\ lastSeen \in Int /\ Seen(refilled) \in Int
  BY TradesIn, SeenIs DEF BatchOK
<1>2. CASE batch[t].id <= lastSeen
  BY <1>1, <1>2, SeenIs
<1>3. CASE lastSeen < batch[t].id
  <2>1. PICK j \in New : batch[t].id <= batch[j].id
    BY <1>1, <1>3, Cover
  <2> QED
    BY <1>1, <2>1, SeenIs, NewIs
<1> QED
  BY <1>1, <1>2, <1>3

-------------------------------------------------------------------------------
(* What a batch adds: the accepted trades and the jumps in front of them.      *)
Filled(R) == UNION {Missing(i) : i \in R}

LEMMA AddedIs ==
  ASSUME BatchOK, NEW R, R \subseteq Jumps, NEW refilled
  PROVE  \A x \in Fresh \cup Filled(R) :
           x \in Nat /\ lastSeen < x /\ x <= Seen(refilled)
<1>1. \A i \in New : /\ batch[i].id \in Nat /\ lastSeen < batch[i].id
                     /\ batch[i].id <= Seen(refilled)
  BY NewIs, SeenIs DEF BatchOK
<1>2. \A i \in New : \A x \in Missing(i) :
        x \in Nat /\ lastSeen < x /\ x <= Seen(refilled)
  BY <1>1, MissingIs, NewIs, SeenIs DEF BatchOK
<1>3. R \subseteq New
  BY DEF Jumps
<1> QED
  BY <1>1, <1>2, <1>3 DEF Fresh, Filled

LEMMA NoOverlap ==
  ASSUME BatchOK, NEW R, NEW T, R \subseteq Jumps, T \subseteq Jumps, R \cap T = {}
  PROVE  (Fresh \cup Filled(R)) \cap Filled(T) = {}
<1>1. R \subseteq New /\ T \subseteq New
  BY DEF Jumps
<1>2. ASSUME NEW i \in New, NEW j \in New, batch[i].id \in Missing(j)
      PROVE  FALSE
  <2>1. /\ batch[i].id \in Nat /\ batch[j].id \in Nat /\ Before(i) \in Nat /\ Before(j) \in Nat
        /\ i \in Nat /\ j \in Nat /\ Before(i) < batch[i].id
    BY NewIs
  <2>2. Before(j) < batch[i].id /\ batch[i].id < batch[j].id
    BY <1>2, MissingIs
  <2>3. i # j
    BY <2>1, <2>2
  <2>4. CASE i < j
    BY <2>1, <2>2, <2>4, Apart
  <2>5. CASE j < i
    BY <2>1, <2>2, <2>5, Apart
  <2> QED
    BY <2>1, <2>3, <2>4, <2>5
<1>3. ASSUME NEW i \in R, NEW j \in T, NEW x \in Missing(i), x \in Missing(j)
      PROVE  FALSE
  <2>1. /\ i \in New /\ j \in New /\ i \in Nat /\ j \in Nat
        /\ batch[i].id \in Nat /\ batch[j].id \in Nat /\ Before(i) \in Nat /\ Before(j) \in Nat
    BY <1>1, NewIs
  <2>2. x \in Nat /\ Before(i) < x /\ x < batch[i].id /\ Before(j) < x /\ x < batch[j].id
    BY <1>3, <2>1, MissingIs
  <2>3. i # j
    OBVIOUS
  <2>4. CASE i < j
    BY <2>1, <2>2, <2>4, Apart
  <2>5. CASE j < i
    BY <2>1, <2>2, <2>5, Apart
  <2> QED
    BY <2>1, <2>3, <2>4, <2>5
<1> QED
  BY <1>1, <1>2, <1>3 DEF Fresh, Filled

(* The first trade the recovery sees has no jump in front of it.               *)
LEMMA FirstIs ==
  ASSUME BatchOK, lastSeen = 0, New # {}
  PROVE  \E m \in New : /\ Before(m) = 0 /\ \A j \in New : m <= j
                        /\ Top({i \in New : \A j \in New : i <= j}) = m
<1>1. New \subseteq Nat
  BY NewIs
<1>2. PICK m \in New : \A j \in New : m <= j
  BY <1>1, Least
<1>3. {i \in New : \A j \in New : i <= j} = {m}
  <2>1. ASSUME NEW i \in New, \A j \in New : i <= j
        PROVE  i = m
    <3>1. i <= m /\ m <= i /\ i \in Nat /\ m \in Nat
      BY <1>1, <1>2, <2>1
    <3> QED
      BY <3>1
  <2> QED
    BY <1>2, <2>1
<1>4. Top({m}) = m
  BY <1>1 DEF Top
<1>5. Before(m) = 0
  <2>1. SUFFICES ASSUME Before(m) # 0
                 PROVE  FALSE
    OBVIOUS
  <2>2. Before(m) \in Nat /\ Before(m) < batch[m].id /\ m \in DOMAIN batch
    BY NewIs
  <2>3. PICK t \in Trades : Before(m) = batch[t].id
    BY <2>1, <2>2, BeforeIs
  <2>4. PICK j \in New : Before(j) < Before(m) /\ Before(m) <= batch[j].id
    BY <2>1, <2>2, <2>3, Cover
  <2>5. j \in Nat /\ m \in Nat /\ Before(j) \in Nat /\ batch[m].id \in Nat
    BY NewIs
  <2>6. m < j
    BY <1>2, <2>4, <2>5
  <2> QED
    BY <2>2, <2>4, <2>5, <2>6, Apart
<1> QED
  BY <1>2, <1>3, <1>4, <1>5

ReachOK == first \in 0..lastSeen /\ (first = 0 => lastSeen = 0)

(* Where the archive begins and ends after a batch.                            *)
LEMMA ReachIs ==
  ASSUME BatchOK, ReachOK, NEW refilled, Expands(refilled)
  PROVE  /\ lastSeen' = Seen(refilled) /\ lastSeen' \in 0..MaxId /\ lastSeen <= lastSeen'
         /\ first' \in 0..lastSeen' /\ (first' = 0 => lastSeen' = 0)
         /\ first # 0 => first' = first
         /\ first = 0 =>
              \/ New = {} /\ first' = 0
              \/ \E m \in New : /\ first' = batch[m].id /\ Before(m) = 0
                                /\ \A j \in New : m <= j
<1>1. lastSeen' = Seen(refilled)
  BY DEF Expands
<1>2. /\ lastSeen' \in 0..MaxId /\ lastSeen <= lastSeen'
      /\ \A i \in New : batch[i].id <= lastSeen'
      /\ lastSeen' = lastSeen \/ \E i \in New : lastSeen' = batch[i].id
  BY <1>1, SeenIs
<1>3. lastSeen \in Nat /\ first \in Nat /\ first <= lastSeen
  BY DEF BatchOK, ReachOK
<1>4. CASE first # 0
  <2>1. first' = first
    BY <1>4 DEF Expands
  <2> QED
    BY <1>1, <1>2, <1>3, <1>4, <2>1
<1>5. CASE first = 0 /\ New = {}
  <2>1. first' = 0 /\ lastSeen' = 0
    BY <1>2, <1>5 DEF Expands, ReachOK
  <2> QED
    BY <1>1, <1>2, <1>3, <1>5, <2>1
<1>6. CASE first = 0 /\ New # {}
  <2>1. lastSeen = 0
    BY <1>6 DEF ReachOK
  <2>2. PICK m \in New : /\ Before(m) = 0 /\ \A j \in New : m <= j
                         /\ Top({i \in New : \A j \in New : i <= j}) = m
    BY <1>6, <2>1, FirstIs
  <2>3. first' = batch[m].id
    BY <1>6, <2>2 DEF Expands
  <2>4. batch[m].id \in 1..MaxId /\ batch[m].id <= lastSeen'
    BY <1>2, NewIs
  <2>5. first' \in 0..lastSeen' /\ first' # 0
    BY <1>2, <2>3, <2>4
  <2> QED
    BY <1>1, <1>2, <1>6, <2>2, <2>3, <2>5
<1> QED
  BY <1>4, <1>5, <1>6

(* Together, the accepted trades and their jumps are everything from where     *)
(* _last_seen was to where it is; for the first batch, from the first trade.   *)
LEMMA GroundCovered ==
  ASSUME BatchOK, ReachOK, NEW refilled, Expands(refilled)
  PROVE  Fresh \cup Filled(Jumps) = {x \in first'..lastSeen' : lastSeen < x}
<1>1. /\ lastSeen' = Seen(refilled) /\ lastSeen' \in Nat /\ lastSeen <= lastSeen'
      /\ first' \in Nat /\ lastSeen \in Nat /\ first \in Nat /\ first <= lastSeen
  BY ReachIs DEF BatchOK, ReachOK
<1>2. /\ first # 0 => first' = first
      /\ first = 0 =>
           \/ New = {} /\ first' = 0
           \/ \E m \in New : /\ first' = batch[m].id /\ Before(m) = 0
                             /\ \A j \in New : m <= j
  BY ReachIs
<1>3. \A x \in Fresh \cup Filled(Jumps) : x \in Nat /\ lastSeen < x /\ x <= lastSeen'
  BY <1>1, AddedIs
<1>4. ASSUME NEW x \in Fresh \cup Filled(Jumps)
      PROVE  first' <= x
  <2>1. x \in Nat /\ lastSeen < x
    BY <1>3
  <2>2. CASE first # 0
    BY <1>1, <1>2, <2>1, <2>2
  <2>3. CASE first = 0 /\ New = {}
    BY <1>1, <1>2, <2>1, <2>3
  <2>4. ASSUME NEW m \in New, first' = batch[m].id, Before(m) = 0, \A j \in New : m <= j
        PROVE  first' <= x
    <3>1. PICK i \in New : x = batch[i].id \/ x \in Missing(i)
      BY DEF Fresh, Filled, Jumps
    <3>2. /\ i \in Nat /\ m \in Nat /\ Before(i) \in Nat /\ batch[i].id \in Nat
          /\ Before(i) < batch[i].id
      BY NewIs
    <3>3. x = batch[i].id \/ (Before(i) < x /\ Before(i) # 0)
      BY <3>1, MissingIs
    <3>4. CASE i = m
      BY <1>1, <2>1, <2>4, <3>3, <3>4
    <3>5. CASE m < i
      <4>1. batch[m].id <= Before(i)
        BY <3>5, Apart
      <4> QED
        BY <1>1, <2>1, <2>4, <3>2, <3>3, <4>1
    <3> QED
      BY <2>4, <3>2, <3>4, <3>5
  <2> QED
    BY <1>2, <2>2, <2>3, <2>4
<1>5. ASSUME NEW x \in first'..lastSeen', lastSeen < x
      PROVE  x \in Fresh \cup Filled(Jumps)
  <2>1. x \in Nat /\ lastSeen # lastSeen' /\ x <= lastSeen' /\ first' <= x
    BY <1>1, <1>5
  <2>2. PICK t \in New : lastSeen' = batch[t].id
    BY <1>1, <2>1, SeenIs
  <2>3. t \in Trades
    BY NewIs
  <2>4. PICK j \in New : Before(j) < x /\ x <= batch[j].id
    BY <1>1, <1>5, <2>1, <2>2, <2>3, Cover
  <2>5. j \in Nat /\ Before(j) \in Nat /\ lastSeen <= Before(j) /\ batch[j].id \in Nat
    BY NewIs
  <2>6. CASE x = batch[j].id
    BY <2>6 DEF Fresh
  <2>7. CASE x < batch[j].id /\ Before(j) # 0
    <3>1. x \in Missing(j)
      BY <2>1, <2>4, <2>7, MissingIs
    <3> QED
      BY <3>1 DEF Filled, Jumps
  <2>8. CASE x < batch[j].id /\ Before(j) = 0
    <3>1. first = 0 /\ New # {}
      BY <1>1, <2>5, <2>8 DEF ReachOK
    <3>2. PICK m \in New : first' = batch[m].id /\ \A i \in New : m <= i
      BY <1>2, <3>1
    <3>3. m \in Nat /\ batch[m].id \in 1..MaxId /\ m <= j
      BY <3>2, NewIs
    <3>4. CASE m = j
      BY <1>1, <2>1, <2>5, <2>8, <3>2, <3>4
    <3>5. CASE m < j
      <4>1. batch[m].id <= Before(j)
        BY <3>5, Apart
      <4> QED
        BY <2>8, <3>3, <4>1
    <3> QED
      BY <2>5, <3>3, <3>4, <3>5
  <2> QED
    BY <2>1, <2>4, <2>5, <2>6, <2>7, <2>8
<1>6. \A x \in Fresh \cup Filled(Jumps) : x \in first'..lastSeen' /\ lastSeen < x
  BY <1>1, <1>3, <1>4
<1> QED
  BY <1>5, <1>6

-------------------------------------------------------------------------------
(* The worker: a batch that is archived, and one whose writing fails.          *)
LEMMA FilledSplit ==
  ASSUME NEW R, R \subseteq Jumps
  PROVE  Filled(R) \cup Filled(Jumps \ R) = Filled(Jumps)
BY DEF Filled

LEMMA InvFacts ==
  ASSUME KeptInv
  PROVE  BatchOK /\ ReachOK
BY DEF KeptInv, StoreInv, SeenInv, BatchOK, ReachOK

(* Two sets that are apart up to l stay apart when each grows above it.        *)
LEMMA GrowApart ==
  ASSUME NEW A, NEW G, NEW F, NEW H, NEW l \in Nat, NEW m \in Nat, l <= m,
         A \subseteq 1..l, G \subseteq 1..l, A \cap G = {},
         F \subseteq (l + 1)..m, H \subseteq (l + 1)..m, F \cap H = {}
  PROVE  /\ A \cup F \subseteq 1..m /\ G \cup H \subseteq 1..m
         /\ (A \cup F) \cap (G \cup H) = {}
<1>1. \A x \in A \cup G : x \in 1..m /\ x <= l /\ x \in Nat
  OBVIOUS
<1>2. \A x \in F \cup H : x \in 1..m /\ ~ (x <= l)
  OBVIOUS
<1>3. \A x \in A \cup G : x \notin F \cup H
  BY <1>1, <1>2
<1> QED
  BY <1>1, <1>2, <1>3

(* A range grows by what lies above its end.                                   *)
LEMMA GrowWhole ==
  ASSUME NEW U, NEW F, NEW f \in Nat, NEW g \in Nat, NEW l \in Nat, NEW m \in Nat,
         f <= l, l <= m, f # 0 => U = f..l /\ g = f, f = 0 => U = {} /\ l = 0,
         F = {x \in g..m : l < x}, g # 0
  PROVE  U \cup F = g..m
<1>1. CASE f # 0
  <2>1. U = g..l /\ g <= l
    BY <1>1
  <2> QED
    BY <2>1
<1>2. CASE f = 0
  <2>1. U = {} /\ l = 0
    BY <1>2
  <2> QED
    BY <2>1
<1> QED
  BY <1>1, <1>2

(* What was taken stays accounted for, wherever the batch ends.                *)
LEMMA TakenMoves ==
  ASSUME KeptInv, NEW refilled, Expands(refilled), UNCHANGED <<queue, accepted>>
  PROVE  TakenInv'
<1>1. BatchOK /\ ReachOK
  BY InvFacts
<1>2. lastSeen' = Seen(refilled) /\ lastSeen' \in Nat /\ lastSeen <= lastSeen' /\ lastSeen \in Nat
  BY <1>1, ReachIs DEF BatchOK
<1>3. /\ accepted \subseteq 1..MaxId
      /\ \A i \in accepted : i <= lastSeen \/ i \in Queued \/ i \in Ids
  BY DEF KeptInv, TakenInv
<1>4. Queued' = Queued /\ accepted' = accepted
  BY DEF Queued, IsTrade
<1>5. \A i \in Ids : i <= lastSeen'
  BY <1>1, <1>2, TradesSeen DEF Ids, Trades
<1>6. \A i \in accepted : i <= lastSeen => i <= lastSeen'
  BY <1>2, <1>3
<1> QED
  BY <1>3, <1>4, <1>5, <1>6 DEF TakenInv

LEMMA ArchivesKeep ==
  ASSUME KeptInv, Archives
  PROVE  KeptInv'
<1> USE DEF Archives
<1>1. BatchOK /\ ReachOK
  BY InvFacts
<1>2. PICK refilled \in SUBSET Jumps :
        /\ Expands(refilled)
        /\ archived' = archived \cup Fresh \cup UNION {Missing(i) : i \in refilled}
        /\ gaps' = gaps \cup UNION {Missing(i) : i \in Jumps \ refilled}
  OBVIOUS
<1>3. /\ archived' = archived \cup Fresh \cup Filled(refilled)
      /\ gaps' = gaps \cup Filled(Jumps \ refilled)
  BY <1>2 DEF Filled
<1>4. StoreInv'
  <2>1. batch' \in Seq(Good)
    BY EmptySeq
  <2> QED
    BY <2>1 DEF KeptInv, StoreInv, Filed
<1>5. HeldInv'
  BY DEF KeptInv, HeldInv, Released, Woken
<1>6. WorkerInv'
  BY DEF WorkerInv
<1>7. SeenInv'
  <2>1. /\ lastSeen' = Seen(refilled) /\ lastSeen' \in 0..MaxId /\ lastSeen <= lastSeen'
        /\ first' \in 0..lastSeen' /\ (first' = 0 => lastSeen' = 0)
        /\ first # 0 => first' = first
    BY <1>1, <1>2, ReachIs
  <2>2. Fresh \cup Filled(Jumps) = {x \in first'..lastSeen' : lastSeen < x}
    BY <1>1, <1>2, GroundCovered
  <2>3. Filled(refilled) \cup Filled(Jumps \ refilled) = Filled(Jumps)
    BY <1>2, FilledSplit
  <2>4. \A x \in Fresh \cup Filled(Jumps) : x \in Nat /\ lastSeen < x /\ x <= lastSeen'
    BY <1>1, <2>1, AddedIs
  <2>5. (Fresh \cup Filled(refilled)) \cap Filled(Jumps \ refilled) = {}
    <3>1. refilled \subseteq Jumps /\ Jumps \ refilled \subseteq Jumps
      BY <1>2
    <3>2. refilled \cap (Jumps \ refilled) = {}
      OBVIOUS
    <3> QED
      BY <1>1, <3>1, <3>2, NoOverlap
  <2>6. /\ lastSeen \in Nat /\ first \in Nat /\ first <= lastSeen
        /\ archived \subseteq 1..lastSeen /\ gaps \subseteq 1..lastSeen
        /\ archived \cap gaps = {}
        /\ first = 0 => lastSeen = 0
        /\ first # 0 => archived \cup gaps = first..lastSeen
    BY DEF KeptInv, SeenInv
  <2>7. /\ \A x \in Fresh \cup Filled(refilled) : x \in Nat /\ lastSeen < x /\ x <= lastSeen'
        /\ \A x \in Filled(Jumps \ refilled) : x \in Nat /\ lastSeen < x /\ x <= lastSeen'
    BY <2>3, <2>4
  <2>8. /\ archived \cup (Fresh \cup Filled(refilled)) \subseteq 1..lastSeen'
        /\ gaps \cup Filled(Jumps \ refilled) \subseteq 1..lastSeen'
        /\ (archived \cup (Fresh \cup Filled(refilled)))
             \cap (gaps \cup Filled(Jumps \ refilled)) = {}
    <3> DEFINE F == Fresh \cup Filled(refilled)
               H == Filled(Jumps \ refilled)
               m == lastSeen'
    <3>1. m \in Nat /\ lastSeen \in Nat /\ lastSeen <= m
      BY <2>1, <2>6
    <3>2. archived \subseteq 1..lastSeen /\ gaps \subseteq 1..lastSeen /\ archived \cap gaps = {}
      BY <2>6
    <3>3. F \cap H = {}
      BY <2>5
    <3>4. F \subseteq (lastSeen + 1)..m
      BY <2>7, <3>1
    <3>5. H \subseteq (lastSeen + 1)..m
      <4>1. \A x \in H : x \in Nat /\ lastSeen < x /\ x <= m
        BY <2>7
      <4> HIDE DEF H, m
      <4> QED
        BY <3>1, <4>1
    <3> HIDE DEF F, H, m
    <3>6. /\ archived \cup F \subseteq 1..m /\ gaps \cup H \subseteq 1..m
          /\ (archived \cup F) \cap (gaps \cup H) = {}
      BY <3>1, <3>2, <3>3, <3>4, <3>5, GrowApart
    <3> QED
      BY <3>6 DEF F, H, m
  <2>9. archived' = archived \cup (Fresh \cup Filled(refilled))
    BY <1>3
  <2>10. archived' \cup gaps' = (archived \cup gaps) \cup (Fresh \cup Filled(Jumps))
    BY <1>3, <2>3
  <2>11. ASSUME first' # 0
         PROVE  archived' \cup gaps' = first'..lastSeen'
    <3> DEFINE U == archived \cup gaps
               F == Fresh \cup Filled(Jumps)
               m == lastSeen'
               g == first'
    <3>1. m \in Nat /\ g \in Nat /\ lastSeen \in Nat /\ first \in Nat
      BY <2>1, <2>6
    <3>2. first <= lastSeen /\ lastSeen <= m /\ g # 0
      BY <2>1, <2>6, <2>11
    <3>3. first = 0 => U = {} /\ lastSeen = 0
      BY <2>6
    <3>4. first # 0 => U = first..lastSeen /\ g = first
      BY <2>1, <2>6
    <3>5. F = {x \in g..m : lastSeen < x}
      BY <2>2
    <3> HIDE DEF U, F, m, g
    <3>6. U \cup F = g..m
      BY <3>1, <3>2, <3>3, <3>4, <3>5, GrowWhole
    <3>7. U \cup F = first'..lastSeen'
      BY <3>6 DEF g, m
    <3> QED
      BY <2>10, <3>7 DEF U, F
  <2>12. /\ archived' \subseteq 1..lastSeen' /\ gaps' \subseteq 1..lastSeen'
         /\ archived' \cap gaps' = {}
    BY <1>3, <2>8, <2>9
  <2> QED
    BY <2>1, <2>11, <2>12 DEF SeenInv
<1>8. TakenInv'
  BY <1>2, TakenMoves
<1> QED
  BY <1>4, <1>5, <1>6, <1>7, <1>8 DEF KeptInv

LEMMA BreaksKeep ==
  ASSUME KeptInv, Breaks
  PROVE  KeptInv'
<1> USE DEF Breaks
<1>1. BatchOK /\ ReachOK
  BY InvFacts
<1>2. PICK refilled \in SUBSET Jumps, told \in SUBSET Jumps :
        /\ told \cap refilled = {} /\ Expands(refilled)
        /\ gaps' = gaps \cup Filled(told)
        /\ \E kept \in SUBSET (Fresh \cup Filled(refilled)) : archived' = archived \cup kept
  BY DEF Filled
<1>3. PICK kept \in SUBSET (Fresh \cup Filled(refilled)) : archived' = archived \cup kept
  BY <1>2
<1>4. StoreInv'
  <2>1. batch' \in Seq(Good)
    BY EmptySeq
  <2> QED
    BY <2>1 DEF KeptInv, StoreInv, Filed
<1>5. HeldInv'
  BY DEF KeptInv, HeldInv, Released, Woken
<1>6. WorkerInv'
  BY DEF WorkerInv
<1>7. SeenInv'
  <2>1. /\ lastSeen' = Seen(refilled) /\ lastSeen' \in 0..MaxId /\ lastSeen <= lastSeen'
        /\ first' \in 0..lastSeen' /\ (first' = 0 => lastSeen' = 0)
    BY <1>1, <1>2, ReachIs
  <2>2. \A x \in Fresh \cup Filled(refilled) : x \in Nat /\ lastSeen < x /\ x <= lastSeen'
    BY <1>1, <1>2, <2>1, AddedIs
  <2>3. \A x \in Fresh \cup Filled(told) : x \in Nat /\ lastSeen < x /\ x <= lastSeen'
    BY <1>1, <1>2, <2>1, AddedIs
  <2>4. (Fresh \cup Filled(refilled)) \cap Filled(told) = {}
    <3>1. refilled \cap told = {}
      BY <1>2
    <3> QED
      BY <1>1, <1>2, <3>1, NoOverlap
  <2>5. /\ lastSeen \in Nat
        /\ archived \subseteq 1..lastSeen /\ gaps \subseteq 1..lastSeen
        /\ archived \cap gaps = {}
    BY DEF KeptInv, SeenInv
  <2>6. /\ \A x \in kept : x \in Nat /\ lastSeen < x /\ x <= lastSeen'
        /\ \A x \in Filled(told) : x \in Nat /\ lastSeen < x /\ x <= lastSeen'
        /\ kept \cap Filled(told) = {}
    BY <1>3, <2>2, <2>3, <2>4
  <2>7. /\ archived \cup kept \subseteq 1..lastSeen'
        /\ gaps \cup Filled(told) \subseteq 1..lastSeen'
        /\ (archived \cup kept) \cap (gaps \cup Filled(told)) = {}
    <3> DEFINE H == Filled(told)
               m == lastSeen'
    <3>1. m \in Nat /\ lastSeen \in Nat /\ lastSeen <= m
      BY <2>1, <2>5
    <3>2. archived \subseteq 1..lastSeen /\ gaps \subseteq 1..lastSeen /\ archived \cap gaps = {}
      BY <2>5
    <3>3. kept \cap H = {}
      BY <2>6
    <3>4. kept \subseteq (lastSeen + 1)..m
      BY <2>6, <3>1
    <3>5. H \subseteq (lastSeen + 1)..m
      BY <2>6, <3>1
    <3> HIDE DEF H, m
    <3>6. /\ archived \cup kept \subseteq 1..m /\ gaps \cup H \subseteq 1..m
          /\ (archived \cup kept) \cap (gaps \cup H) = {}
      BY <3>1, <3>2, <3>3, <3>4, <3>5, GrowApart
    <3> QED
      BY <3>6 DEF H, m
  <2>8. /\ archived' \subseteq 1..lastSeen' /\ gaps' \subseteq 1..lastSeen'
        /\ archived' \cap gaps' = {}
    BY <1>2, <1>3, <2>7
  <2> QED
    BY <2>1, <2>8 DEF SeenInv
<1>8. TakenInv'
  BY <1>2, TakenMoves
<1> QED
  BY <1>4, <1>5, <1>6, <1>7, <1>8 DEF KeptInv

-------------------------------------------------------------------------------
(* The queue.                                                                  *)
LEMMA TakenStays ==
  ASSUME TakenInv, lastSeen' = lastSeen, accepted' = accepted,
         Queued \cup Ids \subseteq Queued' \cup Ids'
  PROVE  TakenInv'
BY DEF TakenInv

(* What a queued quote stands for is as good as the quote.                     *)
LEMMA LatestIs ==
  ASSUME Filed(pending), NEW item \in Good
  PROVE  /\ Latest(item) \in Good
         /\ item.key = None => Latest(item) = item
<1>1. item \in Item /\ (item.key = None => item.id \in 1..MaxId)
  BY DEF Good
<1>2. CASE item.key = None
  BY <1>2 DEF Latest, IsTrade
<1>3. CASE item.key # None /\ pending[item.key] = NoItem
  BY <1>3 DEF Latest, IsTrade
<1>4. CASE item.key # None /\ pending[item.key] # NoItem
  <2>1. item.key \in Keys
    BY <1>1, <1>4 DEF Item
  <2>2. /\ pending[item.key] \in Item /\ pending[item.key].key = item.key
        /\ pending[item.key].size > 0
    BY <1>4, <2>1 DEF Filed
  <2>3. Latest(item) = pending[item.key]
    BY <1>4 DEF Latest, IsTrade
  <2> QED
    BY <1>4, <2>2, <2>3 DEF Good
<1> QED
  BY <1>2, <1>3, <1>4

(* A batch is cut off the front of the queue, the rest moves up.               *)
Cut(n) ==
  /\ n \in 1..Len(queue)
  /\ batch' = [i \in 1..n |-> Latest(queue[i])]
  /\ batch' \in Seq(Good) /\ DOMAIN batch' = 1..n
  /\ pending' = [k \in Keys |-> IF k \in {queue[i].key : i \in 1..n} \ {None}
                                THEN NoItem ELSE pending[k]]
  /\ queue' \in Seq(Good) /\ Len(queue') = Len(queue) - n
  /\ \A j \in 1..(Len(queue) - n) : queue'[j] = queue[n + j]

LEMMA TakesCut ==
  ASSUME KeptInv, Takes
  PROVE  \E n \in Nat : Cut(n)
<1> DEFINE n == IF Len(queue) < MaxBatch THEN Len(queue) ELSE MaxBatch
           keys == {queue[i].key : i \in 1..n} \ {None}
<1>1. /\ worker = "idle" /\ queue # <<>>
      /\ batch' = [i \in 1..n |-> Latest(queue[i])]
      /\ queue' = SubSeq(queue, n + 1, Len(queue))
      /\ pending' = [k \in Keys |-> IF k \in keys THEN NoItem ELSE pending[k]]
      /\ worker' = "busy" /\ conn' = Woken
      /\ UNCHANGED <<buffer, held, sent, results, accepted>>
  BY DEF Takes
<1>2. /\ queue \in Seq(Good) /\ Filed(pending) /\ Filed(buffer)
  BY DEF KeptInv, StoreInv
<1>3. /\ Len(queue) \in Nat \ {0} /\ DOMAIN queue = 1..Len(queue)
      /\ \A i \in 1..Len(queue) : queue[i] \in Good
  BY <1>1, <1>2, EmptySeq, LenProperties, ElementOfSeq
<1>4. n \in 1..Len(queue)
  BY <1>3, IngestAssumption
<1>5. \A i \in 1..n : i \in 1..Len(queue)
  BY <1>3, <1>4
<1> HIDE DEF n, keys
<1>6. batch' \in Seq(Good) /\ DOMAIN batch' = 1..n
  <2>1. \A i \in 1..n : Latest(queue[i]) \in Good
    BY <1>2, <1>3, <1>5, LatestIs
  <2>2. batch' \in [1..n -> Good] /\ n \in Nat
    BY <1>1, <1>3, <1>4, <2>1
  <2> QED
    BY <2>2, SeqDef
<1>7. /\ queue' \in Seq(Good) /\ Len(queue') = Len(queue) - n
      /\ \A j \in 1..(Len(queue) - n) : queue'[j] = queue[n + j]
  <2>1. n + 1 \in Int /\ Len(queue) \in Int /\ \A i \in (n + 1)..Len(queue) : queue[i] \in Good
    BY <1>3, <1>4
  <2>2. /\ queue' \in Seq(Good)
        /\ Len(queue') = IF n + 1 <= Len(queue) THEN Len(queue) - (n + 1) + 1 ELSE 0
        /\ \A i \in 1..(Len(queue) - (n + 1) + 1) : queue'[i] = queue[n + 1 + i - 1]
    BY <1>1, <2>1, SubSeqProperties
  <2>3. /\ n \in Nat /\ Len(queue) \in Nat /\ n <= Len(queue)
        /\ Len(queue) - (n + 1) + 1 = Len(queue) - n
    BY <1>3, <1>4
  <2>4. Len(queue') = Len(queue) - n
    <3>1. CASE n + 1 <= Len(queue)
      BY <2>2, <2>3, <3>1
    <3>2. CASE ~ (n + 1 <= Len(queue))
      <4>1. Len(queue') = 0
        BY <2>2, <3>2
      <4>2. n = Len(queue)
        <5>1. \A a, b \in Nat : a <= b /\ ~ (a + 1 <= b) => a = b
          OBVIOUS
        <5> QED
          BY <2>3, <3>2, <5>1
      <4>3. Len(queue) - n = 0
        BY <2>3, <4>2
      <4> QED
        BY <4>1, <4>3
    <3> QED
      BY <3>1, <3>2
  <2>5. ASSUME NEW j \in 1..(Len(queue) - n)
        PROVE  queue'[j] = queue[n + j]
    <3>1. n + 1 + j - 1 = n + j
      BY <2>3
    <3>2. j \in 1..(Len(queue) - (n + 1) + 1)
      BY <2>3
    <3> QED
      BY <2>2, <3>1, <3>2
  <2> QED
    BY <2>2, <2>4, <2>5
<1>8. PICK m \in Nat : m = n
  BY <1>3, <1>4
<1>9. Cut(m)
  BY <1>1, <1>3, <1>4, <1>6, <1>7, <1>8 DEF Cut, keys
<1> QED
  BY <1>9

LEMMA TakesKeep ==
  ASSUME KeptInv, Takes
  PROVE  KeptInv'
<1>0. PICK n \in Nat : Cut(n)
  BY TakesCut
<1> DEFINE keys == {queue[i].key : i \in 1..n} \ {None}
<1>1. /\ worker = "idle"
      /\ batch' = [i \in 1..n |-> Latest(queue[i])]
      /\ pending' = [k \in Keys |-> IF k \in keys THEN NoItem ELSE pending[k]]
      /\ worker' = "busy" /\ conn' = Woken
      /\ UNCHANGED <<buffer, held, sent, results, accepted>>
  BY <1>0 DEF Takes, Cut
<1>2. /\ queue \in Seq(Good) /\ Filed(pending) /\ Filed(buffer)
  BY DEF KeptInv, StoreInv
<1>3. /\ Len(queue) \in Nat /\ DOMAIN queue = 1..Len(queue)
      /\ \A i \in 1..Len(queue) : queue[i] \in Good
  BY <1>2, LenProperties, ElementOfSeq
<1> HIDE DEF keys
<1>4. n \in 1..Len(queue)
  BY <1>0 DEF Cut
<1>6. batch' \in Seq(Good) /\ DOMAIN batch' = 1..n
  BY <1>0 DEF Cut
<1>7. /\ queue' \in Seq(Good) /\ Len(queue') = Len(queue) - n
      /\ \A j \in 1..(Len(queue) - n) : queue'[j] = queue[n + j]
  BY <1>0 DEF Cut
<1>8. StoreInv'
  <2>1. pending' \in [Keys -> Item]
    <3>1. NoItem \in Item
      BY DEF NoItem, Item
    <3> QED
      BY <1>1, <1>2, <3>1 DEF Filed
  <2>2. \A k \in Keys : pending'[k] # NoItem => pending'[k].key = k /\ pending'[k].size > 0
    BY <1>1, <1>2 DEF Filed
  <2>3. buffer' = buffer /\ NoItem' = NoItem
    BY <1>1 DEF NoItem
  <2> QED
    BY <1>2, <1>6, <1>7, <2>1, <2>2, <2>3 DEF StoreInv, Filed
<1>9. HeldInv'
  BY <1>1 DEF KeptInv, HeldInv, Woken
<1>10. WorkerInv' /\ SeenInv'
  BY <1>1 DEF KeptInv, WorkerInv, SeenInv, results
<1>11. TakenInv'
  <2>1. lastSeen' = lastSeen /\ accepted' = accepted /\ TakenInv
    BY <1>1 DEF KeptInv, results
  <2>2. Ids = {}
    <3>1. batch = <<>>
      BY <1>1 DEF KeptInv, WorkerInv
    <3> QED
      BY <3>1 DEF Ids
  <2>3. ASSUME NEW j \in 1..Len(queue), queue[j].key = None
        PROVE  queue[j].id \in Queued' \cup Ids'
    <3>1. CASE j <= n
      <4>1. j \in 1..n
        BY <1>3, <1>4, <3>1
      <4>2. batch'[j] = queue[j]
        BY <1>1, <1>2, <1>3, <2>3, <4>1, LatestIs
      <4>3. j \in DOMAIN batch' /\ batch'[j].key = None /\ queue[j].id = batch'[j].id
        BY <1>6, <2>3, <4>1, <4>2
      <4> QED
        BY <4>3 DEF Ids, IsTrade
    <3>2. CASE n < j
      <4>1. j - n \in 1..(Len(queue) - n) /\ n + (j - n) = j
        BY <1>3, <1>4, <3>2
      <4>2. queue'[j - n] = queue[j]
        BY <1>7, <4>1
      <4>3. DOMAIN queue' = 1..(Len(queue) - n)
        BY <1>7, LenProperties
      <4>4. j - n \in DOMAIN queue' /\ queue'[j - n].key = None /\ queue[j].id = queue'[j - n].id
        BY <2>3, <4>1, <4>2, <4>3
      <4> QED
        BY <4>4 DEF Queued, IsTrade
    <3> QED
      BY <1>3, <1>4, <3>1, <3>2
  <2>4. Queued \cup Ids \subseteq Queued' \cup Ids'
    BY <1>3, <2>2, <2>3 DEF Queued, IsTrade
  <2> QED
    BY <2>1, <2>4, TakenStays
<1> QED
  BY <1>8, <1>9, <1>10, <1>11 DEF KeptInv

LEMMA NoItemIs == NoItem \in Item /\ NoItem.key = None
BY DEF NoItem, Item

(* A queue that is only appended to keeps what it held.                        *)
LEMMA QueueGrows ==
  ASSUME KeptInv, NEW s \in Seq(Good), queue' = queue \o s
  PROVE  queue' \in Seq(Good) /\ Queued \subseteq Queued'
<1>1. queue \in Seq(Good)
  BY DEF KeptInv, StoreInv
<1>2. Len(queue) \in Nat /\ Len(s) \in Nat /\ DOMAIN queue = 1..Len(queue)
  BY <1>1, LenProperties
<1>3. /\ queue' \in Seq(Good) /\ Len(queue') = Len(queue) + Len(s)
      /\ \A i \in 1..(Len(queue) + Len(s)) :
           queue'[i] = IF i <= Len(queue) THEN queue[i] ELSE s[i - Len(queue)]
  BY <1>1, ConcatProperties
<1>4. DOMAIN queue' = 1..(Len(queue) + Len(s))
  BY <1>3, LenProperties
<1>5. \A i \in DOMAIN queue : i \in DOMAIN queue' /\ queue'[i] = queue[i]
  BY <1>2, <1>3, <1>4
<1>6. Queued \subseteq Queued'
  BY <1>5 DEF Queued, IsTrade
<1> QED
  BY <1>3, <1>6

LEMMA QueueAppends ==
  ASSUME KeptInv, NEW x \in Good, queue' = Append(queue, x)
  PROVE  /\ queue' \in Seq(Good) /\ Queued \subseteq Queued'
         /\ x.key = None => x.id \in Queued'
<1>1. queue \in Seq(Good)
  BY DEF KeptInv, StoreInv
<1>2. Len(queue) \in Nat /\ DOMAIN queue = 1..Len(queue)
  BY <1>1, LenProperties
<1>3. /\ queue' \in Seq(Good) /\ Len(queue') = Len(queue) + 1
      /\ \A i \in 1..Len(queue) : queue'[i] = queue[i]
      /\ queue'[Len(queue) + 1] = x
  BY <1>1, AppendProperties
<1>4. DOMAIN queue' = 1..(Len(queue) + 1)
  BY <1>3, LenProperties
<1>5. \A i \in DOMAIN queue : i \in DOMAIN queue' /\ queue'[i] = queue[i]
  BY <1>2, <1>3, <1>4
<1>6. Queued \subseteq Queued'
  BY <1>5 DEF Queued, IsTrade
<1>7. Len(queue) + 1 \in DOMAIN queue'
  BY <1>2, <1>4
<1>8. x.key = None => x.id \in Queued'
  BY <1>3, <1>7 DEF Queued, IsTrade
<1> QED
  BY <1>3, <1>6, <1>8

(* A buffered quote is a quote.                                                *)
LEMMA BufferedIs ==
  ASSUME KeptInv, NEW k \in Keys, buffer[k] # NoItem
  PROVE  buffer[k] \in Good /\ buffer[k] \in Item /\ buffer[k].key = k
<1>1. buffer[k] \in Item /\ buffer[k].key = k /\ buffer[k].size > 0
  BY DEF KeptInv, StoreInv, Filed
<1>2. k # None
  BY IngestAssumption
<1> QED
  BY <1>1, <1>2 DEF Good

LEMMA FlushesKeep ==
  ASSUME KeptInv, NEW k \in Keys, Flushes(k)
  PROVE  KeptInv'
<1>1. /\ buffer[k] # NoItem /\ buffer' = [buffer EXCEPT ![k] = NoItem]
      /\ conn' = Woken
      /\ UNCHANGED <<held, sent, worker, batch, results, accepted>>
  BY DEF Flushes, Buffered
<1>2. \/ UNCHANGED <<queue, pending>>
      \/ queue' = Append(queue, buffer[k]) /\ pending' = [pending EXCEPT ![k] = buffer[k]]
  BY DEF Flushes
<1>3. buffer[k] \in Good /\ buffer[k] \in Item /\ buffer[k].key = k
  BY <1>1, BufferedIs
<1>4. Filed(pending) /\ Filed(buffer) /\ batch \in Seq(Good) /\ queue \in Seq(Good)
  BY DEF KeptInv, StoreInv
<1>5. Filed(buffer')
  BY <1>1, <1>4, NoItemIs DEF Filed
<1>6. Filed(pending')
  BY <1>2, <1>3, <1>4 DEF Filed
<1>7. queue' \in Seq(Good) /\ Queued \subseteq Queued'
  <2>1. CASE queue' = queue
    BY <1>4, <2>1 DEF Queued, IsTrade
  <2>2. CASE queue' = Append(queue, buffer[k])
    BY <1>3, <2>2, QueueAppends
  <2> QED
    BY <1>2, <2>1, <2>2
<1>8. StoreInv'
  BY <1>1, <1>4, <1>5, <1>6, <1>7 DEF StoreInv, Filed, NoItem
<1>9. HeldInv'
  BY <1>1 DEF KeptInv, HeldInv, Woken
<1>10. WorkerInv' /\ SeenInv'
  BY <1>1 DEF KeptInv, WorkerInv, SeenInv, results
<1>11. TakenInv'
  <2>1. lastSeen' = lastSeen /\ accepted' = accepted /\ TakenInv
    BY <1>1 DEF KeptInv, results
  <2>2. Ids' = Ids
    BY <1>1 DEF Ids, IsTrade
  <2> QED
    BY <1>7, <2>1, <2>2, TakenStays
<1> QED
  BY <1>8, <1>9, <1>10, <1>11 DEF KeptInv

(* close takes the buffered quotes one by one: n of them enter the queue, the  *)
(* rest is dropped.                                                            *)
Closes(order, n, r) ==
  /\ order \in [1..(n + r) -> Buffered]
  /\ \A i, j \in 1..(n + r) : order[i] = order[j] => i = j
  /\ Buffered = {order[i] : i \in 1..(n + r)}
  /\ queue' = queue \o [i \in 1..n |-> buffer[order[i]]]
  /\ pending' = [k \in Keys |-> IF k \in {order[i] : i \in 1..n} THEN buffer[k] ELSE pending[k]]
  /\ bytes' = bytes - Total([i \in 1..r |-> buffer[order[n + i]]])
  /\ [i \in 1..n |-> buffer[order[i]]] \in Seq(Good)
  /\ [i \in 1..r |-> buffer[order[n + i]]] \in Seq(Good)
  /\ n = 0 \/ Len(queue) + n <= MaxEvents

LEMMA BuffersCloseIn ==
  ASSUME KeptInv, BuffersClose
  PROVE  \E order : \E n, r \in Nat : Closes(order, n, r)
<1> DEFINE room == MaxEvents - Len(queue)
           N(order) == IF room < Len(order) THEN (IF room > 0 THEN room ELSE 0) ELSE Len(order)
<1>1. PICK order \in SetToSeqs(Buffered) :
        /\ queue' = queue \o [i \in 1..N(order) |-> buffer[order[i]]]
        /\ pending' = [k \in Keys |-> IF k \in {order[i] : i \in 1..N(order)}
                                      THEN buffer[k] ELSE pending[k]]
        /\ bytes' = bytes - Total([i \in 1..(Len(order) - N(order)) |->
                                     buffer[order[N(order) + i]]])
  BY DEF BuffersClose
<1>2. IsFiniteSet(Buffered) /\ Cardinality(Buffered) \in Nat
  <2>1. IsFiniteSet(Keys) /\ Buffered \subseteq Keys
    BY IngestAssumption DEF Buffered
  <2> QED
    BY <2>1, FS_Subset, FS_CardinalityType
<1>3. /\ order \in [1..Cardinality(Buffered) -> Buffered]
      /\ \A i, j \in 1..Cardinality(Buffered) : i # j => order[i] # order[j]
  BY <1>1 DEF SetToSeqs
<1>4. Len(order) = Cardinality(Buffered)
  <2>1. order \in Seq(Buffered)
    BY <1>2, <1>3, SeqDef
  <2>2. Len(order) \in Nat /\ DOMAIN order = 1..Len(order)
    BY <2>1, LenProperties
  <2> QED
    BY <1>2, <1>3, <2>2
<1>5. Buffered = {order[i] : i \in 1..Cardinality(Buffered)}
  <2> DEFINE D == 1..Cardinality(Buffered)
  <2>1. IsFiniteSet(D) /\ Cardinality(D) = Cardinality(Buffered)
    BY <1>2, FS_Interval
  <2>2. order \in Injection(D, Buffered)
    BY <1>3 DEF Injection, IsInjective
  <2>3. order \in Surjection(D, Buffered)
    BY <1>2, <2>1, <2>2, FS_Injection
  <2> QED
    BY <2>3 DEF Surjection
<1>6. PICK n \in Nat : n = N(order)
  <2>1. room \in Int
    BY IngestAssumption, LenProperties DEF KeptInv, StoreInv
  <2> HIDE DEF room
  <2> QED
    BY <1>2, <1>4, <2>1
<1>7. PICK r \in Nat : r = Len(order) - N(order)
  <2>1. room \in Int
    BY IngestAssumption, LenProperties DEF KeptInv, StoreInv
  <2> HIDE DEF room
  <2> QED
    BY <1>2, <1>4, <2>1
<1>n. n = 0 \/ Len(queue) + n <= MaxEvents
  <2>1. PICK m \in Nat : m = Len(queue)
    BY LenProperties DEF KeptInv, StoreInv
  <2>2. PICK k \in Nat : k = Len(order)
    BY <1>2, <1>4
  <2>3. n = IF MaxEvents - m < k THEN (IF MaxEvents - m > 0 THEN MaxEvents - m ELSE 0) ELSE k
    BY <1>6, <2>1, <2>2
  <2>4. MaxEvents \in Nat
    BY IngestAssumption
  <2> QED
    BY <2>1, <2>3, <2>4
<1> HIDE DEF N
<1>8. Cardinality(Buffered) = n + r
  BY <1>2, <1>4, <1>6, <1>7
<1>9. \A i \in 1..(n + r) : buffer[order[i]] \in Good
  <2>1. \A k \in Buffered : buffer[k] \in Good
    BY BufferedIs DEF Buffered
  <2> QED
    BY <1>3, <1>8, <2>1
<1>10. [i \in 1..n |-> buffer[order[i]]] \in Seq(Good)
  <2> DEFINE s == [i \in 1..n |-> buffer[order[i]]]
  <2>1. s \in [1..n -> Good]
    BY <1>9
  <2> HIDE DEF s
  <2>2. s \in Seq(Good)
    BY <2>1, SeqDef
  <2> QED
    BY <2>2 DEF s
<1>11. [i \in 1..r |-> buffer[order[n + i]]] \in Seq(Good)
  <2> DEFINE s == [i \in 1..r |-> buffer[order[n + i]]]
  <2>1. s \in [1..r -> Good]
    BY <1>9
  <2> HIDE DEF s
  <2>2. s \in Seq(Good)
    BY <2>1, SeqDef
  <2> QED
    BY <2>2 DEF s
<1>12. /\ queue' = queue \o [i \in 1..n |-> buffer[order[i]]]
       /\ pending' = [k \in Keys |-> IF k \in {order[i] : i \in 1..n} THEN buffer[k] ELSE pending[k]]
       /\ bytes' = bytes - Total([i \in 1..r |-> buffer[order[n + i]]])
  BY <1>1, <1>6, <1>7
<1>13. /\ order \in [1..(n + r) -> Buffered]
       /\ \A i, j \in 1..(n + r) : order[i] = order[j] => i = j
       /\ Buffered = {order[i] : i \in 1..(n + r)}
  BY <1>3, <1>5, <1>8
<1>14. Closes(order, n, r)
  BY <1>n, <1>10, <1>11, <1>12, <1>13 DEF Closes
<1> QED
  BY <1>14

LEMMA BuffersCloseKeep ==
  ASSUME KeptInv, BuffersClose
  PROVE  KeptInv'
<1>1. /\ buffer' = [k \in Keys |-> NoItem]
      /\ UNCHANGED <<conn, held, sent, worker, batch, results, accepted>>
  BY DEF BuffersClose, feeds
<1>2. PICK order : \E n, r \in Nat : Closes(order, n, r)
  BY BuffersCloseIn
<1>3. PICK n \in Nat : \E r \in Nat : Closes(order, n, r)
  BY <1>2
<1>4. PICK in : pending' = [k \in Keys |-> IF k \in in THEN buffer[k] ELSE pending[k]]
  BY <1>3 DEF Closes
<1>5. Filed(pending) /\ Filed(buffer) /\ batch \in Seq(Good) /\ queue \in Seq(Good)
  BY DEF KeptInv, StoreInv
<1>9. queue' \in Seq(Good) /\ Queued \subseteq Queued'
  BY <1>3, QueueGrows DEF Closes
<1>10. Filed(pending') /\ Filed(buffer')
  BY <1>1, <1>4, <1>5, NoItemIs DEF Filed
<1>11. StoreInv'
  BY <1>1, <1>5, <1>9, <1>10 DEF StoreInv, Filed, NoItem
<1>12. HeldInv' /\ WorkerInv' /\ SeenInv'
  BY <1>1 DEF KeptInv, HeldInv, WorkerInv, SeenInv, results
<1>13. TakenInv'
  <2>1. lastSeen' = lastSeen /\ accepted' = accepted /\ TakenInv
    BY <1>1 DEF KeptInv, results
  <2>2. Ids' = Ids
    BY <1>1 DEF Ids, IsTrade
  <2> QED
    BY <1>9, <2>1, <2>2, TakenStays
<1> QED
  BY <1>11, <1>12, <1>13 DEF KeptInv

-------------------------------------------------------------------------------
(* The producers.                                                              *)
LEMMA KeepQuoteKeeps ==
  ASSUME KeptInv, NEW item \in Good, item.key # None, KeepQuote(item)
  PROVE  Filed(pending') /\ Filed(buffer')
<1>1. Filed(pending) /\ Filed(buffer)
  BY DEF KeptInv, StoreInv
<1>2. item \in Item /\ item.key \in Keys /\ item.size > 0
  BY DEF Good, Item
<1>3. /\ pending' = pending \/ pending' = [pending EXCEPT ![item.key] = item]
      /\ buffer' = buffer \/ buffer' = [buffer EXCEPT ![item.key] = item]
  BY DEF KeepQuote
<1> QED
  BY <1>1, <1>2, <1>3 DEF Filed

(* put changes the queue, the quotes and the producer, whose envelope is good. *)
LEMMA PutsKeep ==
  ASSUME KeptInv, NEW c \in AllConns, NEW item \in Good, Puts(c, item),
         UNCHANGED <<worker, batch, results>>, sent' \in [AllConns -> Nat]
  PROVE  KeptInv'
<1>1. Filed(pending) /\ Filed(buffer) /\ batch \in Seq(Good) /\ queue \in Seq(Good)
  BY DEF KeptInv, StoreInv
<1>2. item \in Item /\ (item.key = None => item.id \in 1..MaxId)
  BY DEF Good
<1>3. \/ ~IsTrade(item) /\ KeepQuote(item) /\ Keeps(c) /\ UNCHANGED <<queue, accepted>>
      \/ Overflows(c)
      \/ /\ IsTrade(item) /\ queue' = Append(queue, item)
         /\ accepted' = accepted \cup {item.id} /\ Keeps(c) /\ UNCHANGED <<pending, buffer>>
      \/ /\ conn' = [conn EXCEPT ![c] = "waiting"] /\ held' = [held EXCEPT ![c] = item]
         /\ UNCHANGED <<store, accepted>>
  BY DEF Puts
<1>4. HeldInv'
  <2>1. \/ conn' = [conn EXCEPT ![c] = "on"] /\ held' = [held EXCEPT ![c] = NoItem]
        \/ conn' = [conn EXCEPT ![c] = "off"] /\ held' = [held EXCEPT ![c] = NoItem]
        \/ conn' = [conn EXCEPT ![c] = "waiting"] /\ held' = [held EXCEPT ![c] = item]
    BY <1>3 DEF Keeps, Overflows
  <2> QED
    BY <1>2, <2>1, NoItemIs DEF KeptInv, HeldInv
<1>5. WorkerInv' /\ SeenInv'
  BY DEF KeptInv, WorkerInv, SeenInv, results
<1>6. lastSeen' = lastSeen /\ TakenInv /\ Ids' = Ids
  BY DEF KeptInv, results, Ids, IsTrade
<1>7. CASE ~IsTrade(item) /\ KeepQuote(item) /\ Keeps(c) /\ UNCHANGED <<queue, accepted>>
  <2>1. Filed(pending') /\ Filed(buffer')
    BY <1>7, KeepQuoteKeeps DEF IsTrade
  <2>2. StoreInv'
    BY <1>1, <1>7, <2>1 DEF StoreInv, Filed, NoItem
  <2>3. Queued' = Queued
    BY <1>7 DEF Queued, IsTrade
  <2> QED
    BY <1>4, <1>5, <1>6, <1>7, <2>2, <2>3, TakenStays DEF KeptInv
<1>8. CASE UNCHANGED <<store, accepted>>
  <2>1. StoreInv'
    BY <1>1, <1>8 DEF StoreInv, Filed, NoItem, store
  <2>2. Queued' = Queued
    BY <1>8 DEF Queued, IsTrade, store
  <2> QED
    BY <1>4, <1>5, <1>6, <1>8, <2>1, <2>2, TakenStays DEF KeptInv
<1>9. CASE /\ IsTrade(item) /\ queue' = Append(queue, item)
           /\ accepted' = accepted \cup {item.id} /\ Keeps(c) /\ UNCHANGED <<pending, buffer>>
  <2>1. queue' \in Seq(Good) /\ Queued \subseteq Queued' /\ item.id \in Queued'
    BY <1>9, QueueAppends DEF IsTrade
  <2>2. StoreInv'
    BY <1>1, <1>9, <2>1 DEF StoreInv, Filed, NoItem
  <2>3. TakenInv'
    BY <1>2, <1>6, <1>9, <2>1 DEF TakenInv, IsTrade
  <2> QED
    BY <1>4, <1>5, <2>2, <2>3 DEF KeptInv
<1> QED
  BY <1>3, <1>7, <1>8, <1>9 DEF Overflows

(* submit: the disk, then the queue.                                           *)
LEMMA EntersKeep ==
  ASSUME KeptInv, NEW c \in AllConns, NEW item \in Good, Enters(c, item),
         UNCHANGED <<worker, batch, results>>, sent' \in [AllConns -> Nat]
  PROVE  KeptInv'
<1>1. CASE Puts(c, item)
  BY <1>1, PutsKeep
<1>2. CASE /\ UNCHANGED <<store, accepted>>
           /\ \/ conn' = [conn EXCEPT ![c] = "off"] /\ held' = [held EXCEPT ![c] = NoItem]
              \/ conn' = [conn EXCEPT ![c] = "retry"] /\ held' = [held EXCEPT ![c] = item]
  <2>1. StoreInv' /\ WorkerInv' /\ SeenInv' /\ TakenInv'
    BY <1>2 DEF KeptInv, StoreInv, WorkerInv, SeenInv, TakenInv, Filed, NoItem, Queued, Ids,
                IsTrade, results, store
  <2>2. item \in Item
    BY DEF Good
  <2>3. HeldInv'
    BY <1>2, <2>2, NoItemIs DEF KeptInv, HeldInv
  <2> QED
    BY <2>1, <2>3 DEF KeptInv
<1> QED
  BY <1>1, <1>2 DEF Enters, DiskFull, DiskRecovered

LEMMA SubmitsKeep ==
  ASSUME KeptInv, NEW c \in AllConns, NEW item \in Good, Submits(c, item)
  PROVE  KeptInv'
<1>1. item \in Item /\ item.id \in Nat
  BY DEF Good, Item
<1>2. sent' \in [AllConns -> Nat] /\ UNCHANGED <<worker, batch, results>>
  BY <1>1 DEF Submits, KeptInv, HeldInv
<1>3. CASE Enters(c, item)
  BY <1>2, <1>3, EntersKeep
<1>4. CASE /\ UNCHANGED <<store, accepted>>
           /\ \/ conn' = [conn EXCEPT ![c] = "paused"] /\ held' = [held EXCEPT ![c] = item]
              \/ conn' = [conn EXCEPT ![c] = "off"] /\ UNCHANGED held
  <2>1. StoreInv' /\ WorkerInv' /\ SeenInv' /\ TakenInv'
    BY <1>2, <1>4 DEF KeptInv, StoreInv, WorkerInv, SeenInv, TakenInv, Filed, NoItem, Queued,
                      Ids, IsTrade, results, store
  <2>2. HeldInv'
    BY <1>1, <1>2, <1>4 DEF KeptInv, HeldInv
  <2> QED
    BY <2>1, <2>2 DEF KeptInv
<1> QED
  BY <1>3, <1>4 DEF Submits

(* What arrives is an envelope with a size and, for a trade, an id.            *)
LEMMA ArrivalsSubmit ==
  ASSUME KeptInv, Arrivals
  PROVE  \E c \in AllConns, item \in Good : Submits(c, item)
<1>1. ASSUME NEW c \in Conns, TradeArrives(c)
      PROVE  \E d \in AllConns, item \in Good : Submits(d, item)
  <2>1. PICK i \in (sent[c] + 1)..MaxId, s \in TradeSizes :
          Submits(c, [id |-> i, key |-> None, size |-> s])
    BY <1>1 DEF TradeArrives
  <2>2. c \in AllConns /\ sent[c] \in Nat /\ MaxId \in Nat /\ s \in Nat /\ s > 0
    BY IngestAssumption DEF AllConns, KeptInv, HeldInv
  <2>3. i \in 1..MaxId /\ i \in Nat
    BY <2>2
  <2>4. [id |-> i, key |-> None, size |-> s] \in Good
    BY <2>2, <2>3 DEF Good, Item
  <2> QED
    BY <2>1, <2>2, <2>4
<1>2. ASSUME QuoteArrives
      PROVE  \E d \in AllConns, item \in Good : Submits(d, item)
  <2> DEFINE n == sent[QuoteConn] + 1
  <2>1. QuoteConn \in AllConns /\ n \in Nat \ {0} /\ n <= MaxQuotes
    BY <1>2 DEF AllConns, KeptInv, HeldInv, QuoteArrives
  <2>2. PICK k \in Keys : Submits(QuoteConn, [id |-> n, key |-> k, size |-> QuoteSize[n]])
    BY <1>2 DEF QuoteArrives
  <2> HIDE DEF n
  <2>3. n \in 1..MaxQuotes /\ QuoteSize[n] \in Nat /\ QuoteSize[n] > 0 /\ k # None
    BY <2>1, IngestAssumption
  <2>4. [id |-> n, key |-> k, size |-> QuoteSize[n]] \in Good
    BY <2>1, <2>3 DEF Good, Item
  <2> QED
    BY <2>1, <2>2, <2>4
<1> QED
  BY <1>1, <1>2 DEF Arrivals

LEMMA ArrivalsKeep ==
  ASSUME KeptInv, Arrivals
  PROVE  KeptInv'
BY ArrivalsSubmit, SubmitsKeep

LEMMA ProducerKeeps ==
  ASSUME KeptInv, NEW c \in AllConns, Producer(c)
  PROVE  KeptInv'
<1>1. sent \in [AllConns -> Nat]
  BY DEF KeptInv, HeldInv
<1>2. CASE Continues(c)
  <2>1. held[c] \in Good
    BY <1>2 DEF Continues, KeptInv, HeldInv
  <2>2. Enters(c, held[c]) /\ UNCHANGED <<worker, batch, results>> /\ sent' \in [AllConns -> Nat]
    BY <1>1, <1>2 DEF Continues
  <2> QED
    BY <2>1, <2>2, EntersKeep
<1>3. CASE Retries(c)
  <2>1. held[c] \in Good
    BY <1>3 DEF Retries, KeptInv, HeldInv
  <2>2. Puts(c, held[c]) /\ UNCHANGED <<worker, batch, results>> /\ sent' \in [AllConns -> Nat]
    BY <1>1, <1>3 DEF Retries
  <2> QED
    BY <2>1, <2>2, PutsKeep
<1>4. CASE TimesOut(c) \/ Leaves(c)
  <2>1. UNCHANGED <<store, accepted, worker, batch, results, sent>>
    BY <1>4 DEF TimesOut, Leaves, Overflows
  <2>2. /\ conn' = [conn EXCEPT ![c] = "off"]
        /\ held' = [held EXCEPT ![c] = NoItem] \/ held' = held
    BY <1>4 DEF TimesOut, Leaves, Overflows
  <2>3. StoreInv' /\ WorkerInv' /\ SeenInv' /\ TakenInv'
    BY <2>1 DEF KeptInv, StoreInv, WorkerInv, SeenInv, TakenInv, Filed, NoItem, Queued, Ids,
                IsTrade, results, store
  <2>4. HeldInv'
    BY <2>1, <2>2, NoItemIs DEF KeptInv, HeldInv
  <2> QED
    BY <2>3, <2>4 DEF KeptInv
<1> QED
  BY <1>2, <1>3, <1>4 DEF Producer

-------------------------------------------------------------------------------
(* The theorems.                                                               *)
LEMMA KeptInit ==
  ASSUME Init
  PROVE  KeptInv
<1> USE DEF Init
<1>1. StoreInv
  BY EmptySeq, NoItemIs DEF StoreInv, Filed
<1>2. HeldInv
  BY NoItemIs DEF HeldInv
<1>3. WorkerInv /\ TakenInv
  BY DEF WorkerInv, TakenInv
<1>4. SeenInv
  BY IngestAssumption DEF SeenInv
<1> QED
  BY <1>1, <1>2, <1>3, <1>4 DEF KeptInv

LEMMA KeptNext ==
  ASSUME KeptInv, [Next]_vars
  PROVE  KeptInv'
<1>1. CASE Arrivals
  BY <1>1, ArrivalsKeep
<1>2. CASE \E c \in AllConns : Producer(c)
  BY <1>2, ProducerKeeps
<1>3. CASE \E k \in Keys : Flushes(k)
  BY <1>3, FlushesKeep
<1>4. CASE Takes
  BY <1>4, TakesKeep
<1>5. CASE Archives
  BY <1>5, ArchivesKeep
<1>6. CASE Breaks
  BY <1>6, BreaksKeep
<1>7. CASE BuffersClose
  BY <1>7, BuffersCloseKeep
<1>8. CASE StopBegins \/ Joined \/ UNCHANGED vars
  <2>1. UNCHANGED <<store, feeds, worker, batch, results, accepted>>
    BY <1>8 DEF StopBegins, Joined, vars
  <2> QED
    BY <2>1 DEF KeptInv, StoreInv, HeldInv, WorkerInv, SeenInv, TakenInv, Filed, NoItem,
                Queued, Ids, IsTrade, results, store, feeds
<1> QED
  BY <1>1, <1>2, <1>3, <1>4, <1>5, <1>6, <1>7, <1>8 DEF Next, Work, Stop

LEMMA Keeping == Spec => []KeptInv
<1>1. Init => KeptInv
  BY KeptInit
<1>2. KeptInv /\ [Next]_vars => KeptInv'
  BY KeptNext
<1> QED
  BY <1>1, <1>2, PTL DEF Spec

(* Until the worker breaks, every trade from the first one on is archived or   *)
(* reported as missing, and none is ever both: expand may let _last_seen run   *)
(* over a whole batch, and give up refilling any of its jumps.                 *)
THEOREM TradesAreExplained == Spec => []ArchivedOrExplained
<1>1. KeptInv => ArchivedOrExplained
  BY DEF KeptInv, SeenInv, ArchivedOrExplained
<1> QED
  BY <1>1, Keeping, PTL

(* A trade that put has returned for is in the queue, in the worker's batch,   *)
(* archived, reported, or older than anything archived.                        *)
THEOREM TakenIsKept == Spec => []AcceptedIsKept
<1>1. ASSUME KeptInv
      PROVE  AcceptedIsKept
  <2>1. SUFFICES ASSUME worker # "failed", NEW i \in accepted, i \notin Queued, i \notin Ids
                 PROVE  i \in archived \cup gaps \/ i < first
    BY DEF AcceptedIsKept, Queued
  <2>2. i <= lastSeen /\ i \in 1..MaxId
    BY <1>1, <2>1 DEF KeptInv, TakenInv
  <2>3. /\ lastSeen \in Nat /\ first \in Nat /\ (first = 0 => lastSeen = 0)
        /\ first # 0 => archived \cup gaps = first..lastSeen
    BY <1>1, <2>1 DEF KeptInv, SeenInv
  <2>4. first # 0 /\ i \in Nat
    BY <2>2, <2>3
  <2> QED
    BY <2>2, <2>3, <2>4
<1> QED
  BY <1>1, Keeping, PTL

-------------------------------------------------------------------------------
(* The bytes.  A quote is in one place only: buffered, or queued once under    *)
(* its key and standing for what _pending_by_key holds.                        *)
QuotesInv ==
  /\ \A i \in DOMAIN queue : queue[i].key # None => pending[queue[i].key] # NoItem
  /\ \A i, j \in DOMAIN queue : queue[i].key # None /\ queue[i].key = queue[j].key => i = j
  /\ \A k \in Keys : pending[k] # NoItem =>
       buffer[k] = NoItem /\ \E i \in DOMAIN queue : queue[i].key = k

(* What is kept for a key is the last quote that was.                          *)
NewestInv ==
  /\ newest \in [Keys -> Nat]
  /\ \A k \in Keys : /\ pending[k] # NoItem => pending[k].id = newest[k]
                     /\ buffer[k] # NoItem => buffer[k].id = newest[k]

Weight == [i \in DOMAIN queue |-> Latest(queue[i]).size]
Parked == [k \in Keys |-> buffer[k].size]
QueueSum  == SumFunctionOnSet(Weight, DOMAIN queue)
BufferSum == SumFunctionOnSet(Parked, Keys)

BytesInv == bytes = Total(batch) + QueueSum + BufferSum

WaitInv == \A c \in AllConns : conn[c] = "waiting" => bytes > 0

FlowInv == QuotesInv /\ NewestInv /\ BytesInv /\ WaitInv

LEMMA WeightIs ==
  ASSUME KeptInv
  PROVE  /\ DOMAIN queue = 1..Len(queue) /\ Len(queue) \in Nat
         /\ \A i \in DOMAIN queue :
              /\ queue[i] \in Good /\ queue[i].key \in Keys \cup {None}
              /\ Weight[i] = Latest(queue[i]).size /\ Weight[i] \in Nat /\ Weight[i] > 0
<1>1. queue \in Seq(Good) /\ Filed(pending)
  BY DEF KeptInv, StoreInv
<1>2. DOMAIN queue = 1..Len(queue) /\ Len(queue) \in Nat
  BY <1>1, LenProperties
<1>3. \A i \in DOMAIN queue : queue[i] \in Good
  BY <1>1, <1>2, ElementOfSeq
<1>4. \A i \in DOMAIN queue : Latest(queue[i]) \in Good
  BY <1>1, <1>3, LatestIs
<1>5. \A x \in Good : x.size \in Nat /\ x.size > 0 /\ x.key \in Keys \cup {None}
  BY DEF Good, Item
<1> QED
  BY <1>2, <1>3, <1>4, <1>5 DEF Weight

LEMMA ParkedIs ==
  ASSUME KeptInv
  PROVE  IsFiniteSet(Keys) /\ \A k \in Keys : Parked[k] = buffer[k].size /\ Parked[k] \in Nat
BY IngestAssumption DEF KeptInv, StoreInv, Filed, Item, Parked

LEMMA TotalIs ==
  ASSUME NEW s \in Seq(Good)
  PROVE  /\ \A f : (\A i \in 1..Len(s) : f[i] = s[i].size)
                     => Total(s) = SumFunctionOnSet(f, 1..Len(s))
         /\ Total(s) \in Nat
<1> DEFINE g == [i \in DOMAIN s |-> s[i].size]
<1>1. DOMAIN s = 1..Len(s) /\ Len(s) \in Nat /\ IsFiniteSet(1..Len(s))
  BY LenProperties, FS_Interval
<1>2. \A i \in 1..Len(s) : s[i] \in Good /\ g[i] = s[i].size /\ g[i] \in Nat
  BY <1>1, ElementOfSeq DEF Good, Item
<1>3. Total(s) = SumFunctionOnSet(g, 1..Len(s))
  BY <1>1 DEF Total, SumFunction
<1> HIDE DEF g
<1>4. ASSUME NEW f, \A i \in 1..Len(s) : f[i] = s[i].size
      PROVE  SumFunctionOnSet(g, 1..Len(s)) = SumFunctionOnSet(f, 1..Len(s))
  BY <1>1, <1>2, <1>4, SumSame
<1>5. SumFunctionOnSet(g, 1..Len(s)) \in Nat
  BY <1>1, <1>2, SumNat
<1> QED
  BY <1>3, <1>4, <1>5

LEMMA SumsAre ==
  ASSUME KeptInv
  PROVE  QueueSum \in Nat /\ BufferSum \in Nat /\ Total(batch) \in Nat
<1>1. QueueSum \in Nat
  <2>1. IsFiniteSet(DOMAIN queue) /\ \A i \in DOMAIN queue : Weight[i] \in Nat
    BY WeightIs, FS_Interval
  <2> QED
    BY <2>1, SumNat DEF QueueSum
<1>2. BufferSum \in Nat
  BY ParkedIs, SumNat DEF BufferSum
<1>3. Total(batch) \in Nat
  BY TotalIs DEF KeptInv, StoreInv
<1> QED
  BY <1>1, <1>2, <1>3

LEMMA PartsAre ==
  ASSUME KeptInv
  PROVE  /\ \A i \in DOMAIN queue : Weight[i] <= QueueSum
         /\ \A k \in Keys : buffer[k].size <= BufferSum
<1>1. IsFiniteSet(DOMAIN queue) /\ \A i \in DOMAIN queue : Weight[i] \in Nat
  BY WeightIs, FS_Interval
<1>2. \A i \in DOMAIN queue : Weight[i] <= QueueSum
  BY <1>1, SumMember DEF QueueSum
<1>3. \A k \in Keys : Parked[k] <= BufferSum
  BY ParkedIs, SumMember DEF BufferSum
<1> QED
  BY <1>2, <1>3, ParkedIs

LEMMA BytesAre ==
  ASSUME KeptInv, FlowInv
  PROVE  bytes \in Nat /\ QueueSum <= bytes /\ BufferSum <= bytes /\ (queue # <<>> => bytes > 0)
<1>1. QueueSum \in Nat /\ BufferSum \in Nat /\ Total(batch) \in Nat
  BY SumsAre
<1>2. bytes = Total(batch) + QueueSum + BufferSum
  BY DEF FlowInv, BytesInv
<1>3. ASSUME queue # <<>> PROVE QueueSum > 0
  <2>1. queue \in Seq(Good)
    BY DEF KeptInv, StoreInv
  <2>2. Len(queue) # 0
    BY <1>3, <2>1, EmptySeq
  <2>3. 1 \in DOMAIN queue
    BY <2>2, WeightIs
  <2>4. Weight[1] \in Nat /\ Weight[1] > 0 /\ Weight[1] <= QueueSum
    BY <2>3, WeightIs, PartsAre
  <2> QED
    BY <1>1, <2>4
<1> QED
  BY <1>1, <1>2, <1>3

(* What a place in the queue weighs before and after a step.                   *)
StandsFor(item, f) == IF item.key = None \/ f[item.key] = NoItem THEN item ELSE f[item.key]

LEMMA WeightUnfolds ==
  /\ \A i \in DOMAIN queue : Weight[i] = StandsFor(queue[i], pending).size
  /\ \A i \in DOMAIN queue' : Weight'[i] = StandsFor(queue'[i], pending').size
BY DEF Weight, Latest, IsTrade, NoItem, StandsFor

LEMMA SumsStay ==
  /\ UNCHANGED <<queue, pending>> => QueueSum' = QueueSum
  /\ UNCHANGED buffer => BufferSum' = BufferSum
BY DEF QueueSum, Weight, Latest, IsTrade, NoItem, BufferSum, Parked

(* How the sums move.                                                          *)
LEMMA QueueExtends ==
  ASSUME KeptInv, NEW n \in Nat, NEW g, DOMAIN queue' = 1..(Len(queue) + n),
         \A i \in 1..Len(queue) : Weight'[i] = Weight[i],
         \A i \in 1..n : g[i] \in Int /\ Weight'[Len(queue) + i] = g[i]
  PROVE  QueueSum' = QueueSum + SumFunctionOnSet(g, 1..n)
<1> DEFINE m == Len(queue)
           W == Weight
           V == Weight'
<1>1. m \in Nat /\ DOMAIN queue = 1..m /\ \A i \in 1..m : W[i] \in Int
  BY WeightIs
<1>2. Joins(V, W, m, g, n)
  BY <1>1 DEF Joins
<1>4. /\ QueueSum = SumFunctionOnSet(W, 1..m)
      /\ QueueSum' = SumFunctionOnSet(V, 1..(m + n))
  BY <1>1 DEF QueueSum
<1> HIDE DEF m, W, V
<1>5. SumFunctionOnSet(V, 1..(m + n)) = SumFunctionOnSet(W, 1..m) + SumFunctionOnSet(g, 1..n)
  BY <1>1, <1>2, SumConcat
<1> QED
  BY <1>4, <1>5

LEMMA QueueReplaces ==
  ASSUME KeptInv, DOMAIN queue' = DOMAIN queue, NEW i \in DOMAIN queue,
         Weight'[i] \in Int, \A j \in DOMAIN queue \ {i} : Weight'[j] = Weight[j]
  PROVE  QueueSum' = QueueSum + (Weight'[i] - Weight[i])
<1> DEFINE D == DOMAIN queue
           W == Weight
           V == Weight'
<1>1. D = 1..Len(queue) /\ Len(queue) \in Nat /\ \A j \in D : W[j] \in Int
  BY WeightIs
<1>2. IsFiniteSet(D)
  BY <1>1, FS_Interval
<1>3. /\ i \in D /\ \A j \in D : W[j] \in Int /\ V[j] \in Int
      /\ \A j \in D \ {i} : V[j] = W[j]
  BY <1>1
<1>4. QueueSum = SumFunctionOnSet(W, D) /\ QueueSum' = SumFunctionOnSet(V, D)
  BY DEF QueueSum
<1> HIDE DEF D, W, V
<1>5. SumFunctionOnSet(V, D) = SumFunctionOnSet(W, D) + (V[i] - W[i])
  BY <1>2, <1>3, SumChange
<1> QED
  BY <1>4, <1>5 DEF V, W

LEMMA BufferReplaces ==
  ASSUME KeptInv, NEW k \in Keys, NEW n \in Int, buffer'[k].size = n,
         \A h \in Keys \ {k} : buffer'[h] = buffer[h]
  PROVE  BufferSum' = BufferSum + (n - buffer[k].size)
<1> DEFINE P == Parked
           R == Parked'
<1>1. IsFiniteSet(Keys) /\ \A j \in Keys : P[j] = buffer[j].size /\ P[j] \in Int
  BY ParkedIs
<1>2. R[k] = n /\ P[k] = buffer[k].size
  BY DEF Parked
<1>3. \A j \in Keys \ {k} : R[j] = P[j]
  BY DEF Parked
<1>4. \A j \in Keys : P[j] \in Int /\ R[j] \in Int
  BY <1>1, <1>2, <1>3
<1>5. BufferSum = SumFunctionOnSet(P, Keys) /\ BufferSum' = SumFunctionOnSet(R, Keys)
  BY DEF BufferSum
<1> HIDE DEF P, R
<1>6. SumFunctionOnSet(R, Keys) = SumFunctionOnSet(P, Keys) + (R[k] - P[k])
  BY <1>1, <1>3, <1>4, SumChange
<1> QED
  BY <1>2, <1>5, <1>6

(* What leaves the queue, a part or all of it.                                 *)
LEMMA QueueParts ==
  ASSUME KeptInv, NEW n \in Nat, NEW r \in Nat, Len(queue) = n + r, NEW f, NEW g,
         \A i \in 1..n : f[i] = Weight[i],
         \A i \in 1..r : g[i] = Weight[n + i]
  PROVE  QueueSum = SumFunctionOnSet(f, 1..n) + SumFunctionOnSet(g, 1..r)
<1> DEFINE W == Weight
<1>1. DOMAIN queue = 1..(n + r) /\ \A i \in 1..(n + r) : W[i] \in Int
  BY WeightIs
<1>2. QueueSum = SumFunctionOnSet(W, 1..(n + r))
  BY <1>1 DEF QueueSum
<1>3. Joins(W, f, n, g, r)
  <2>1. \A i \in 1..r : n + i \in 1..(n + r)
    OBVIOUS
  <2> QED
    BY <1>1, <2>1 DEF Joins
<1> HIDE DEF W
<1> QED
  BY <1>2, <1>3, SumConcat

LEMMA QueueAppended ==
  ASSUME KeptInv, NEW x \in Good, queue' = Append(queue, x),
         \A i \in DOMAIN queue : Weight'[i] = Weight[i],
         Weight'[Len(queue) + 1] = x.size
  PROVE  QueueSum' = QueueSum + x.size
<1> DEFINE g == [i \in 1..1 |-> x.size]
<1>1. x.size \in Int /\ 1 \in Nat /\ \A i \in 1..1 : i = 1 /\ g[i] \in Int /\ g[i] = x.size
  BY DEF Good, Item
<1>2. queue \in Seq(Good) /\ DOMAIN queue = 1..Len(queue)
  BY WeightIs DEF KeptInv, StoreInv
<1>3. DOMAIN queue' = 1..(Len(queue) + 1)
  BY <1>2, AppendProperties, LenProperties
<1>4. SumFunctionOnSet(g, 1..1) = x.size
  <2>1. 1..1 = {1} /\ g[1] = x.size
    OBVIOUS
  <2> HIDE DEF g
  <2>2. SumFunctionOnSet(g, {1}) = g[1]
    BY <1>1, <2>1, SumSingle
  <2> QED
    BY <2>1, <2>2
<1> HIDE DEF g
<1>5. \A i \in 1..Len(queue) : Weight'[i] = Weight[i]
  BY <1>2
<1>6. \A i \in 1..1 : g[i] \in Int /\ Weight'[Len(queue) + i] = g[i]
  BY <1>1
<1>7. QueueSum' = QueueSum + SumFunctionOnSet(g, 1..1)
  BY <1>1, <1>3, <1>5, <1>6, QueueExtends
<1> QED
  BY <1>4, <1>7

-------------------------------------------------------------------------------
(* A quote is kept, or not.                                                    *)
LEMMA KeepQuoteFlows ==
  ASSUME KeptInv, FlowInv, NEW item \in Good, item.key # None, KeepQuote(item),
         UNCHANGED <<queue, batch>>
  PROVE  /\ QuotesInv' /\ NewestInv' /\ BytesInv'
         /\ bytes' = bytes \/ bytes' > 0
<1> DEFINE k == item.key
<1>1. /\ k \in Keys /\ k # None /\ item \in Item /\ item.size \in Nat /\ item.size > 0
      /\ NoItem.size = 0 /\ item # NoItem /\ item.id \in Nat
  BY DEF Good, Item, NoItem
<1>2. /\ Filed(pending) /\ Filed(buffer) /\ QuotesInv /\ NewestInv
      /\ bytes = Total(batch) + QueueSum + BufferSum
      /\ newest' = newest \/ newest' = [newest EXCEPT ![k] = item.id]
  BY DEF KeptInv, StoreInv, FlowInv, BytesInv, KeepQuote
<1>3. /\ bytes \in Nat /\ QueueSum <= bytes /\ BufferSum <= bytes
      /\ QueueSum \in Nat /\ BufferSum \in Nat /\ Total(batch) \in Nat
      /\ pending[k].size \in Nat /\ buffer[k].size \in Nat
  BY <1>1, <1>2, BytesAre, SumsAre DEF Filed, Item
<1>n. NoItem' = NoItem
  BY DEF NoItem
<1>4. CASE UNCHANGED <<pending, buffer, bytes, newest>>
  <2>1. QuotesInv' /\ NewestInv'
    BY <1>2, <1>4, <1>n DEF QuotesInv, NewestInv
  <2>2. BytesInv'
    BY <1>2, <1>4, SumsStay DEF BytesInv
  <2> QED
    BY <1>4, <2>1, <2>2
<1>5. CASE /\ buffer[k] = NoItem /\ pending[k] # NoItem
           /\ pending' = [pending EXCEPT ![k] = item] /\ buffer' = buffer
           /\ bytes' = bytes - pending[k].size + item.size
           /\ newest' = [newest EXCEPT ![k] = item.id]
  <2>1. PICK i \in DOMAIN queue : queue[i].key = k
    BY <1>1, <1>2, <1>5 DEF QuotesInv
  <2>2. \A j \in DOMAIN queue \ {i} : queue[j].key # k
    BY <1>1, <1>2, <2>1 DEF QuotesInv
  <2>3. pending'[k] = item /\ \A h \in Keys \ {k} : pending'[h] = pending[h]
    BY <1>1, <1>2, <1>5 DEF Filed
  <2>4. Weight[i] = pending[k].size /\ Weight'[i] = item.size
    BY <1>1, <1>5, <2>1, <2>3, WeightUnfolds DEF StandsFor
  <2>5. \A j \in DOMAIN queue \ {i} : Weight'[j] = Weight[j]
    BY <2>2, <2>3, WeightUnfolds, WeightIs DEF StandsFor
  <2>6. QueueSum' = QueueSum + (item.size - pending[k].size)
    BY <1>1, <2>1, <2>4, <2>5, QueueReplaces
  <2>7. BufferSum' = BufferSum /\ Total(batch)' = Total(batch)
    BY <1>5, SumsStay
  <2>8. BytesInv'
    BY <1>1, <1>2, <1>3, <1>5, <2>6, <2>7 DEF BytesInv
  <2>9. bytes' > 0
    <3>1. pending[k].size <= QueueSum
      BY <2>1, <2>4, PartsAre
    <3> QED
      BY <1>1, <1>3, <1>5, <3>1
  <2>10. QuotesInv'
    BY <1>1, <1>2, <1>5, <1>n, <2>3 DEF QuotesInv
  <2>11. NewestInv'
    BY <1>1, <1>2, <1>5, <1>n, <2>3 DEF NewestInv
  <2> QED
    BY <2>8, <2>9, <2>10, <2>11
<1>6. CASE /\ buffer[k] # NoItem \/ pending[k] = NoItem
           /\ buffer' = [buffer EXCEPT ![k] = item] /\ pending' = pending
           /\ bytes' = bytes - buffer[k].size + item.size
           /\ newest' = [newest EXCEPT ![k] = item.id]
  <2>1. pending[k] = NoItem
    BY <1>1, <1>2, <1>6 DEF QuotesInv
  <2>2. buffer'[k] = item /\ \A h \in Keys \ {k} : buffer'[h] = buffer[h]
    BY <1>1, <1>2, <1>6 DEF Filed
  <2>3. BufferSum' = BufferSum + (item.size - buffer[k].size)
    BY <1>1, <2>2, BufferReplaces
  <2>4. QueueSum' = QueueSum /\ Total(batch)' = Total(batch)
    BY <1>6, SumsStay
  <2>5. BytesInv'
    BY <1>1, <1>2, <1>3, <1>6, <2>3, <2>4 DEF BytesInv
  <2>6. bytes' > 0
    <3>1. buffer[k].size <= BufferSum
      BY <1>1, PartsAre
    <3> QED
      BY <1>1, <1>3, <1>6, <3>1
  <2>7. QuotesInv'
    BY <1>1, <1>2, <1>6, <1>n, <2>1, <2>2 DEF QuotesInv
  <2>8. NewestInv'
    BY <1>1, <1>2, <1>6, <1>n, <2>1, <2>2 DEF NewestInv
  <2> QED
    BY <2>5, <2>6, <2>7, <2>8
<1> QED
  <2>1. CASE buffer[k] = NoItem /\ pending[k] # NoItem
    BY <1>4, <1>5, <2>1 DEF KeepQuote, Replaced
  <2>2. CASE buffer[k] # NoItem
    BY <1>4, <1>6, <2>2 DEF KeepQuote, Replaced
  <2>3. CASE buffer[k] = NoItem /\ pending[k] = NoItem
    BY <1>4, <1>6, <2>3 DEF KeepQuote, Replaced
  <2> QED
    BY <2>1, <2>2, <2>3

(* A step that leaves the store alone, and puts nobody to sleep beside an      *)
(* empty queue.                                                                *)
LEMMA FlowStays ==
  ASSUME FlowInv, UNCHANGED <<store, batch, newest>>,
         \A c \in AllConns : conn'[c] = "waiting" => conn[c] = "waiting" \/ bytes > 0
  PROVE  FlowInv'
<1>1. UNCHANGED <<queue, pending, buffer, bytes, batch, newest>>
  BY DEF store
<1>2. QuotesInv' /\ NewestInv'
  BY <1>1 DEF FlowInv, QuotesInv, NewestInv, NoItem
<1>3. BytesInv'
  BY <1>1, SumsStay DEF FlowInv, BytesInv
<1>4. WaitInv'
  BY <1>1 DEF FlowInv, WaitInv
<1> QED
  BY <1>2, <1>3, <1>4 DEF FlowInv

LEMMA WaitKept ==
  ASSUME WaitInv, bytes' = bytes \/ bytes' > 0,
         \A c \in AllConns : conn'[c] = "waiting" => conn[c] = "waiting"
  PROVE  WaitInv'
BY DEF WaitInv

(* An append that leaves what the queued quotes stand for as it was.           *)
LEMMA AppendFlows ==
  ASSUME KeptInv, FlowInv, NEW x \in Good, queue' = Append(queue, x),
         \/ x.key = None /\ pending' = pending
         \/ /\ x.key # None /\ pending[x.key] = NoItem
            /\ pending' = [pending EXCEPT ![x.key] = x]
  PROVE  /\ QueueSum' = QueueSum + x.size
         /\ \A i \in DOMAIN queue : queue'[i] = queue[i]
         /\ queue'[Len(queue) + 1] = x
         /\ DOMAIN queue' = DOMAIN queue \cup {Len(queue) + 1}
         /\ Len(queue) + 1 \notin DOMAIN queue
         /\ \A i \in DOMAIN queue : queue[i].key = None \/ queue[i].key # x.key
<1>1. queue \in Seq(Good) /\ DOMAIN queue = 1..Len(queue) /\ Len(queue) \in Nat /\ Filed(pending)
  BY WeightIs DEF KeptInv, StoreInv
<1>2. /\ queue' \in Seq(Good) /\ Len(queue') = Len(queue) + 1
      /\ \A i \in 1..Len(queue) : queue'[i] = queue[i]
      /\ queue'[Len(queue) + 1] = x
  BY <1>1, AppendProperties
<1>3. DOMAIN queue' = 1..(Len(queue) + 1)
  BY <1>2, LenProperties
<1>4. /\ DOMAIN queue' = DOMAIN queue \cup {Len(queue) + 1}
      /\ Len(queue) + 1 \notin DOMAIN queue
      /\ \A i \in DOMAIN queue : queue'[i] = queue[i]
  BY <1>1, <1>2, <1>3
<1>5. \A i \in DOMAIN queue : queue[i].key = None \/ queue[i].key # x.key
  BY DEF FlowInv, QuotesInv
<1>6. \A i \in DOMAIN queue : queue[i].key \in Keys \cup {None}
  BY WeightIs
<1>7. \A k \in Keys : k # x.key => pending'[k] = pending[k]
  BY <1>1 DEF Filed
<1>8. \A i \in DOMAIN queue : Weight'[i] = Weight[i]
  BY <1>4, <1>5, <1>6, <1>7, WeightUnfolds DEF StandsFor
<1>9. Weight'[Len(queue) + 1] = x.size
  <2>1. Weight'[Len(queue) + 1] = StandsFor(x, pending').size
    BY <1>2, <1>4, WeightUnfolds
  <2>2. x.key # None => x.key \in Keys
    BY DEF Good, Item
  <2>3. StandsFor(x, pending') = x
    BY <1>1, <2>2 DEF StandsFor, Filed
  <2> QED
    BY <2>1, <2>3
<1>10. QueueSum' = QueueSum + x.size
  BY <1>8, <1>9, QueueAppended
<1> QED
  BY <1>2, <1>4, <1>5, <1>10

LEMMA PutsFlow ==
  ASSUME KeptInv, FlowInv, NEW c \in AllConns, NEW item \in Good, Puts(c, item),
         UNCHANGED batch
  PROVE  FlowInv'
<1>1. conn \in [AllConns -> {"on", "paused", "waiting", "retry", "off"}]
  BY DEF KeptInv, HeldInv
<1>2. CASE ~IsTrade(item) /\ KeepQuote(item) /\ Keeps(c) /\ UNCHANGED queue
  <2>1. /\ QuotesInv' /\ NewestInv' /\ BytesInv'
        /\ bytes' = bytes \/ bytes' > 0
    BY <1>2, KeepQuoteFlows DEF IsTrade
  <2>2. WaitInv'
    BY <1>1, <1>2, <2>1, WaitKept DEF Keeps, FlowInv
  <2> QED
    BY <2>1, <2>2 DEF FlowInv
<1>3. CASE Overflows(c)
  BY <1>1, <1>3, FlowStays DEF Overflows
<1>4. CASE /\ IsTrade(item) /\ Keeps(c) /\ queue' = Append(queue, item)
           /\ bytes' = bytes + item.size /\ UNCHANGED <<pending, buffer, newest>>
  <2>1. item.key = None /\ item.size \in Nat /\ item.size > 0 /\ NoItem' = NoItem
    BY <1>4 DEF IsTrade, Good, Item, NoItem
  <2>2. /\ QueueSum' = QueueSum + item.size
        /\ \A i \in DOMAIN queue : queue'[i] = queue[i]
        /\ queue'[Len(queue) + 1] = item
        /\ DOMAIN queue' = DOMAIN queue \cup {Len(queue) + 1}
    BY <1>4, <2>1, AppendFlows
  <2>3. BytesInv'
    <3>1. BufferSum' = BufferSum /\ Total(batch)' = Total(batch)
      BY <1>4, SumsStay
    <3>2. bytes = Total(batch) + QueueSum + BufferSum
      BY DEF FlowInv, BytesInv
    <3> QED
      BY <1>4, <2>1, <2>2, <3>1, <3>2, SumsAre DEF BytesInv
  <2>4. QuotesInv'
    <3>1. QuotesInv
      BY DEF FlowInv
    <3> QED
      BY <1>4, <2>1, <2>2, <3>1 DEF QuotesInv
  <2>5. NewestInv'
    BY <1>4, <2>1 DEF FlowInv, NewestInv
  <2>6. WaitInv'
    <3>1. bytes' > 0
      BY <1>4, <2>1, BytesAre
    <3> QED
      BY <3>1 DEF WaitInv
  <2> QED
    BY <2>3, <2>4, <2>5, <2>6 DEF FlowInv
<1>5. CASE /\ ~ (item.size > MaxBytes) /\ ~Fits(item) /\ UNCHANGED <<store, newest>>
           /\ conn' = [conn EXCEPT ![c] = "waiting"]
  <2>1. bytes > 0
    <3>1. item.size \in Nat /\ MaxBytes \in Nat /\ MaxEvents \in Nat \ {0} /\ bytes \in Nat
      BY IngestAssumption, BytesAre DEF Good, Item
    <3>2. CASE Full
      <4>1. queue # <<>>
        BY <3>1, <3>2 DEF Full
      <4> QED
        BY <4>1, BytesAre
    <3>3. CASE ~ (bytes + item.size <= MaxBytes)
      BY <1>5, <3>1, <3>3
    <3> QED
      BY <1>5, <3>2, <3>3 DEF Fits
  <2> QED
    BY <1>1, <1>5, <2>1, FlowStays
<1> QED
  BY <1>2, <1>3, <1>4, <1>5 DEF Puts

LEMMA EntersFlow ==
  ASSUME KeptInv, FlowInv, NEW c \in AllConns, NEW item \in Good, Enters(c, item),
         UNCHANGED batch
  PROVE  FlowInv'
<1>1. conn \in [AllConns -> {"on", "paused", "waiting", "retry", "off"}]
  BY DEF KeptInv, HeldInv
<1>2. CASE Puts(c, item)
  BY <1>2, PutsFlow
<1>3. CASE DiskFull(c) \/ DiskRecovered(c, item)
  BY <1>1, <1>3, FlowStays DEF DiskFull, DiskRecovered
<1> QED
  BY <1>2, <1>3 DEF Enters

LEMMA SubmitsFlow ==
  ASSUME KeptInv, FlowInv, NEW c \in AllConns, NEW item \in Good, Submits(c, item)
  PROVE  FlowInv'
<1>1. conn \in [AllConns -> {"on", "paused", "waiting", "retry", "off"}] /\ UNCHANGED batch
  BY DEF KeptInv, HeldInv, Submits
<1>2. CASE Enters(c, item)
  BY <1>1, <1>2, EntersFlow
<1>3. CASE /\ UNCHANGED <<store, newest>>
           /\ \E w \in {"paused", "off"} : conn' = [conn EXCEPT ![c] = w]
  BY <1>1, <1>3, FlowStays
<1> QED
  BY <1>2, <1>3 DEF Submits

LEMMA ArrivalsFlow ==
  ASSUME KeptInv, FlowInv, Arrivals
  PROVE  FlowInv'
BY ArrivalsSubmit, SubmitsFlow

LEMMA ProducerFlows ==
  ASSUME KeptInv, FlowInv, NEW c \in AllConns, Producer(c)
  PROVE  FlowInv'
<1>1. conn \in [AllConns -> {"on", "paused", "waiting", "retry", "off"}]
  BY DEF KeptInv, HeldInv
<1>2. CASE Continues(c)
  BY <1>2, EntersFlow DEF Continues, KeptInv, HeldInv
<1>3. CASE Retries(c)
  BY <1>3, PutsFlow DEF Retries, KeptInv, HeldInv
<1>4. CASE TimesOut(c) \/ Leaves(c)
  BY <1>1, <1>4, FlowStays DEF TimesOut, Leaves, Overflows
<1> QED
  BY <1>2, <1>3, <1>4 DEF Producer

LEMMA WokenWait ==
  ASSUME KeptInv, conn' = Woken
  PROVE  WaitInv'
BY DEF KeptInv, HeldInv, Woken, WaitInv

(* A buffered quote enters the queue, or is dropped.                           *)
LEMMA FlushesFlow ==
  ASSUME KeptInv, FlowInv, NEW k \in Keys, Flushes(k)
  PROVE  FlowInv'
<1>1. /\ k \in Keys /\ buffer[k] # NoItem /\ buffer' = [buffer EXCEPT ![k] = NoItem]
      /\ conn' = Woken /\ UNCHANGED <<batch, newest>>
  BY DEF Flushes, Buffered
<1>2. /\ Filed(pending) /\ Filed(buffer) /\ QuotesInv /\ NewestInv
      /\ bytes = Total(batch) + QueueSum + BufferSum /\ bytes \in Nat
  BY BytesAre DEF KeptInv, StoreInv, FlowInv, BytesInv
<1>3. NoItem' = NoItem /\ NoItem.size = 0 /\ NoItem.size \in Int
  BY DEF NoItem
<1>4. pending[k] = NoItem
  BY <1>1, <1>2 DEF QuotesInv
<1>5. buffer'[k] = NoItem /\ \A h \in Keys \ {k} : buffer'[h] = buffer[h]
  BY <1>1, <1>2 DEF Filed
<1>6. BufferSum' = BufferSum + (0 - buffer[k].size) /\ Total(batch)' = Total(batch)
  BY <1>1, <1>3, <1>5, BufferReplaces
<1>7. /\ QueueSum \in Nat /\ BufferSum \in Nat /\ Total(batch) \in Nat
      /\ buffer[k].size \in Nat
  BY <1>1, <1>2, SumsAre DEF Filed, Item
<1>8. WaitInv'
  BY <1>1, WokenWait
<1>9. CASE bytes' = bytes - buffer[k].size /\ UNCHANGED <<queue, pending>>
  <2>1. BytesInv'
    BY <1>2, <1>6, <1>7, <1>9, SumsStay DEF BytesInv
  <2>2. QuotesInv' /\ NewestInv'
    BY <1>1, <1>2, <1>3, <1>5, <1>9 DEF QuotesInv, NewestInv
  <2> QED
    BY <1>8, <2>1, <2>2 DEF FlowInv
<1>10. CASE /\ queue' = Append(queue, buffer[k])
            /\ pending' = [pending EXCEPT ![k] = buffer[k]] /\ bytes' = bytes
  <2>1. buffer[k] \in Good /\ buffer[k].key = k /\ k # None
    BY <1>1, BufferedIs, IngestAssumption
  <2>2. /\ QueueSum' = QueueSum + buffer[k].size
        /\ \A i \in DOMAIN queue : queue'[i] = queue[i]
        /\ queue'[Len(queue) + 1] = buffer[k]
        /\ DOMAIN queue' = DOMAIN queue \cup {Len(queue) + 1}
        /\ \A i \in DOMAIN queue : queue[i].key = None \/ queue[i].key # k
    BY <1>4, <1>10, <2>1, AppendFlows
  <2>3. BytesInv'
    <3>1. bytes' = bytes /\ QueueSum' = QueueSum + buffer[k].size
      BY <1>10, <2>2
    <3>2. bytes = Total(batch) + QueueSum + BufferSum
      BY <1>2
    <3> QED
      BY <1>6, <1>7, <3>1, <3>2 DEF BytesInv
  <2>4. pending'[k] = buffer[k] /\ \A h \in Keys \ {k} : pending'[h] = pending[h]
    BY <1>2, <1>10 DEF Filed
  <2>5. QuotesInv'
    <3>1. \A i \in DOMAIN queue : queue[i].key \in Keys \cup {None}
      BY WeightIs
    <3>2. \A i \in DOMAIN queue' : queue'[i].key # None => pending'[queue'[i].key] # NoItem
      BY <1>1, <1>2, <2>1, <2>2, <2>4, <3>1 DEF QuotesInv
    <3>3. \A i, j \in DOMAIN queue' :
            queue'[i].key # None /\ queue'[i].key = queue'[j].key => i = j
      BY <1>2, <2>1, <2>2 DEF QuotesInv
    <3>4. \A h \in Keys : pending'[h] # NoItem =>
            buffer'[h] = NoItem /\ \E i \in DOMAIN queue' : queue'[i].key = h
      BY <1>2, <1>5, <2>1, <2>2, <2>4 DEF QuotesInv
    <3> QED
      BY <1>3, <3>2, <3>3, <3>4 DEF QuotesInv
  <2>6. NewestInv'
    BY <1>1, <1>2, <1>3, <1>5, <2>4 DEF NewestInv
  <2> QED
    BY <1>8, <2>3, <2>5, <2>6 DEF FlowInv
<1> QED
  BY <1>9, <1>10 DEF Flushes

LEMMA NothingWeighs == Total(<<>>) = 0
<1>1. <<>> \in Seq(Good) /\ Len(<<>>) = 0 /\ 1..0 = {}
  BY EmptySeq
<1>2. \A f : (\A i \in 1..Len(<<>>) : f[i] = <<>>[i].size)
               => Total(<<>>) = SumFunctionOnSet(f, 1..Len(<<>>))
  BY <1>1, TotalIs
<1>3. Total(<<>>) = SumFunctionOnSet(<<>>, {})
  BY <1>1, <1>2
<1> QED
  BY <1>3, SumEmpty

(* The quotes of a batch: each is the last that was kept for its key.          *)
LEMMA TakenIsNewest ==
  ASSUME KeptInv, FlowInv, NEW n \in Nat, Cut(n)
  PROVE  \A i \in DOMAIN batch' :
           ~IsTrade(batch'[i]) => batch'[i].id = newest[batch'[i].key]
<1>1. /\ DOMAIN batch' = 1..n /\ \A i \in 1..n : batch'[i] = Latest(queue[i])
      /\ n \in 1..Len(queue) /\ DOMAIN queue = 1..Len(queue) /\ Len(queue) \in Nat
      /\ \A i \in DOMAIN queue : queue[i].key \in Keys \cup {None}
  BY WeightIs DEF Cut
<1>2. QuotesInv /\ NewestInv /\ Filed(pending)
  BY DEF KeptInv, StoreInv, FlowInv
<1> SUFFICES ASSUME NEW i \in 1..n, batch'[i].key # None
             PROVE  batch'[i].id = newest[batch'[i].key]
  BY <1>1 DEF IsTrade
<1>3. i \in DOMAIN queue /\ batch'[i] = Latest(queue[i])
  BY <1>1
<1>4. queue[i].key # None
  BY <1>3 DEF Latest, IsTrade
<1> DEFINE k == queue[i].key
<1>5. k \in Keys /\ pending[k] # NoItem
  BY <1>1, <1>2, <1>3, <1>4 DEF QuotesInv
<1>6. batch'[i] = pending[k] /\ pending[k].key = k /\ pending[k].id = newest[k]
  BY <1>2, <1>3, <1>4, <1>5 DEF Latest, IsTrade, Filed, NewestInv
<1> QED
  BY <1>6

(* What stays in the queue stands for what it did.                             *)
LEMMA RestStays ==
  ASSUME KeptInv, FlowInv, NEW n \in Nat, Cut(n), NEW r \in Nat, r = Len(queue) - n
  PROVE  /\ DOMAIN queue' = 1..r
         /\ \A j \in 1..r : n + j \in DOMAIN queue /\ queue'[j] = queue[n + j]
         /\ \A j \in 1..r : queue[n + j].key # None =>
              pending'[queue[n + j].key] = pending[queue[n + j].key]
         /\ \A j \in 1..r : Weight'[j] = Weight[n + j]
<1>1. /\ DOMAIN queue = 1..Len(queue) /\ Len(queue) \in Nat /\ n \in 1..Len(queue)
      /\ \A i \in DOMAIN queue : queue[i].key \in Keys \cup {None}
      /\ queue' \in Seq(Good) /\ Len(queue') = r
      /\ \A j \in 1..r : queue'[j] = queue[n + j]
  BY WeightIs DEF Cut
<1>2. DOMAIN queue' = 1..r
  BY <1>1, LenProperties
<1>3. \A j \in 1..r : n + j \in DOMAIN queue /\ \A i \in 1..n : i \in DOMAIN queue /\ i # n + j
  BY <1>1
<1>4. ASSUME NEW j \in 1..r, queue[n + j].key # None
      PROVE  pending'[queue[n + j].key] = pending[queue[n + j].key]
  <2>1. \A i \in 1..n : queue[i].key # queue[n + j].key
    BY <1>3, <1>4 DEF FlowInv, QuotesInv
  <2>2. queue[n + j].key \in Keys
    BY <1>1, <1>3, <1>4
  <2> QED
    BY <2>1, <2>2 DEF Cut
<1>5. ASSUME NEW j \in 1..r
      PROVE  Weight'[j] = Weight[n + j]
  <2>1. /\ Weight'[j] = StandsFor(queue[n + j], pending').size
        /\ Weight[n + j] = StandsFor(queue[n + j], pending).size
    BY <1>1, <1>2, <1>3, WeightUnfolds
  <2>2. StandsFor(queue[n + j], pending') = StandsFor(queue[n + j], pending)
    BY <1>4 DEF StandsFor
  <2> QED
    BY <2>1, <2>2
<1> QED
  BY <1>1, <1>2, <1>3, <1>4, <1>5

LEMMA TakesFlow ==
  ASSUME KeptInv, FlowInv, Takes
  PROVE  FlowInv'
<1>1. PICK n \in Nat : Cut(n)
  BY TakesCut
<1>2. /\ worker = "idle" /\ conn' = Woken
      /\ UNCHANGED <<buffer, bytes, newest>>
  BY DEF Takes
<1>3. /\ QuotesInv /\ NewestInv /\ bytes = Total(batch) + QueueSum + BufferSum
      /\ NoItem' = NoItem
  BY DEF FlowInv, BytesInv, NoItem
<1>4. /\ n \in 1..Len(queue) /\ Len(queue) \in Nat /\ DOMAIN queue = 1..Len(queue)
      /\ batch' \in Seq(Good) /\ DOMAIN batch' = 1..n
      /\ \A i \in 1..n : batch'[i] = Latest(queue[i])
      /\ pending' = [k \in Keys |-> IF k \in {queue[i].key : i \in 1..n} \ {None}
                                    THEN NoItem ELSE pending[k]]
  BY <1>1, WeightIs DEF Cut
<1>5. PICK r \in Nat : r = Len(queue) - n /\ Len(queue) = n + r
  <2>1. n \in 1..Len(queue) /\ Len(queue) \in Nat
    BY <1>4
  <2>2. Len(queue) - n \in Nat /\ Len(queue) = n + (Len(queue) - n)
    BY <2>1
  <2> QED
    BY <2>2
<1>6. /\ DOMAIN queue' = 1..r /\ Len(queue) = n + r
      /\ \A j \in 1..r : n + j \in DOMAIN queue /\ queue'[j] = queue[n + j]
      /\ \A j \in 1..r : queue[n + j].key # None =>
              pending'[queue[n + j].key] = pending[queue[n + j].key]
      /\ \A j \in 1..r : Weight'[j] = Weight[n + j]
  <2>1. r = Len(queue) - n /\ Len(queue) = n + r
    BY <1>5
  <2>2. /\ DOMAIN queue' = 1..r
        /\ \A j \in 1..r : n + j \in DOMAIN queue /\ queue'[j] = queue[n + j]
        /\ \A j \in 1..r : queue[n + j].key # None =>
              pending'[queue[n + j].key] = pending[queue[n + j].key]
        /\ \A j \in 1..r : Weight'[j] = Weight[n + j]
    BY <1>1, <2>1, RestStays
  <2> QED
    BY <2>1, <2>2
<1>7. BytesInv'
  <2> DEFINE f == [i \in 1..n |-> batch'[i].size]
             g == Weight'
  <2>1. Total(batch) = 0
    BY <1>2, NothingWeighs DEF KeptInv, WorkerInv
  <2>2. Total(batch') = SumFunctionOnSet(f, 1..n)
    <3>1. Len(batch') = n
      BY <1>4, LenProperties
    <3>2. \A i \in 1..Len(batch') : f[i] = batch'[i].size
      BY <3>1
    <3> HIDE DEF f
    <3> QED
      BY <1>4, <3>1, <3>2, TotalIs
  <2>3. \A i \in 1..n : f[i] = Weight[i]
    BY <1>4 DEF Weight
  <2>4. QueueSum' = SumFunctionOnSet(g, 1..r)
    BY <1>6 DEF QueueSum
  <2>5. \A i \in 1..r : g[i] = Weight[n + i]
    BY <1>6
  <2> HIDE DEF f, g
  <2>6. QueueSum = SumFunctionOnSet(f, 1..n) + SumFunctionOnSet(g, 1..r)
    BY <1>6, <2>3, <2>5, QueueParts
  <2>7. QueueSum = Total(batch') + QueueSum'
    BY <2>2, <2>4, <2>6
  <2>8. BufferSum' = BufferSum /\ bytes' = bytes
    BY <1>2, SumsStay
  <2>9. bytes = QueueSum + BufferSum
    BY <1>3, <2>1, SumsAre
  <2> QED
    BY <2>7, <2>8, <2>9 DEF BytesInv
<1>8. QuotesInv'
  <2>1. ASSUME NEW j \in DOMAIN queue', queue'[j].key # None
        PROVE  pending'[queue'[j].key] # NoItem
    BY <1>3, <1>6, <2>1 DEF QuotesInv
  <2>2. ASSUME NEW i \in DOMAIN queue', NEW j \in DOMAIN queue',
               queue'[i].key # None, queue'[i].key = queue'[j].key
        PROVE  i = j
    <3>1. /\ i \in 1..r /\ j \in 1..r
          /\ queue'[i] = queue[n + i] /\ queue'[j] = queue[n + j]
          /\ n + i \in DOMAIN queue /\ n + j \in DOMAIN queue
      BY <1>6
    <3>2. queue[n + i].key # None /\ queue[n + i].key = queue[n + j].key
      BY <2>2, <3>1
    <3>3. n + i = n + j
      BY <1>3, <3>1, <3>2 DEF QuotesInv
    <3>4. \A a, b \in 1..r : n + a = n + b => a = b
      OBVIOUS
    <3> QED
      BY <3>1, <3>3, <3>4
  <2>3. ASSUME NEW k \in Keys, pending'[k] # NoItem
        PROVE  buffer'[k] = NoItem /\ \E j \in DOMAIN queue' : queue'[j].key = k
    <3>1. k \notin {queue[i].key : i \in 1..n} \ {None} /\ pending[k] # NoItem
      BY <1>4, <2>3
    <3>2. k # None
      BY IngestAssumption
    <3>3. PICK i \in DOMAIN queue : buffer[k] = NoItem /\ queue[i].key = k
      BY <1>3, <3>1 DEF QuotesInv
    <3>4. i \notin 1..n
      BY <3>1, <3>2, <3>3
    <3>5. PICK j \in 1..r : i = n + j
      <4>1. i - n \in 1..r /\ i = n + (i - n)
        BY <1>4, <1>6, <3>4
      <4> QED
        BY <4>1
    <3> QED
      BY <1>2, <1>6, <3>3, <3>5
  <2> QED
    BY <1>3, <2>1, <2>2, <2>3 DEF QuotesInv
<1>9. NewestInv'
  BY <1>2, <1>3, <1>4 DEF NewestInv
<1>10. WaitInv'
  BY <1>2, WokenWait
<1> QED
  BY <1>7, <1>8, <1>9, <1>10 DEF FlowInv

(* A batch leaves, and so do its bytes.                                        *)
LEMMA ReleaseFlows ==
  ASSUME KeptInv, FlowInv, Released(Total(batch)), batch' = <<>>,
         UNCHANGED <<queue, pending, buffer, newest>>
  PROVE  FlowInv'
<1>1. bytes' = bytes - Total(batch) /\ WaitInv'
  BY WokenWait DEF Released
<1>2. bytes = Total(batch) + QueueSum + BufferSum
  BY DEF FlowInv, BytesInv
<1>3. Total(batch') = 0
  BY NothingWeighs
<1>4. QueueSum' = QueueSum /\ BufferSum' = BufferSum
  BY SumsStay
<1>5. BytesInv'
  BY <1>1, <1>2, <1>3, <1>4, SumsAre DEF BytesInv
<1>6. QuotesInv' /\ NewestInv'
  BY DEF FlowInv, QuotesInv, NewestInv, NoItem
<1> QED
  BY <1>1, <1>5, <1>6 DEF FlowInv

LEMMA ArchivesFlow ==
  ASSUME KeptInv, FlowInv, Archives \/ Breaks
  PROVE  FlowInv'
BY ReleaseFlows DEF Archives, Breaks

-------------------------------------------------------------------------------
(* The buffers are closed: what they hold enters the queue or is dropped.      *)
LEMMA CloseSplits ==
  ASSUME KeptInv, NEW order, NEW n \in Nat, NEW r \in Nat, Closes(order, n, r),
         NEW a, \A i \in 1..n : a[i] = buffer[order[i]].size
  PROVE  BufferSum = SumFunctionOnSet(a, 1..n)
                       + Total([i \in 1..r |-> buffer[order[n + i]]])
<1> DEFINE D == 1..(n + r)
           out == [i \in 1..r |-> buffer[order[n + i]]]
           v == [i \in D |-> buffer[order[i]].size]
           b == [i \in 1..r |-> out[i].size]
           P == Parked
           B == Buffered
<1>1. /\ order \in [D -> B] /\ \A i, j \in D : order[i] = order[j] => i = j
      /\ B = {order[i] : i \in D} /\ out \in Seq(Good)
  BY DEF Closes
<1>2. /\ IsFiniteSet(Keys) /\ \A k \in Keys : P[k] = buffer[k].size /\ P[k] \in Int
  BY ParkedIs
<1>3. B \subseteq Keys /\ \A k \in Keys \ B : P[k] = 0
  BY <1>2 DEF Buffered, NoItem
<1>4. BufferSum = SumFunctionOnSet(P, B)
  <2>1. BufferSum = SumFunctionOnSet(P, Keys)
    BY DEF BufferSum
  <2> HIDE DEF P, B
  <2> QED
    BY <1>2, <1>3, <2>1, SumSupport
<1>5. SumFunctionOnSet(P, B) = SumFunctionOnSet(v, D)
  <2>1. IsFiniteSet(D)
    BY FS_Interval
  <2>2. \A i \in D : v[i] \in Int /\ P[order[i]] = v[i]
    BY <1>1, <1>2, <1>3
  <2> HIDE DEF P, B, v, D
  <2> QED
    BY <1>1, <2>1, <2>2, SumMoved
<1>6. SumFunctionOnSet(v, D) = SumFunctionOnSet(a, 1..n) + SumFunctionOnSet(b, 1..r)
  <2>1. \A i \in D : v[i] \in Int /\ v[i] = buffer[order[i]].size
    BY <1>1, <1>2, <1>3
  <2>2. \A i \in 1..n : i \in D
    OBVIOUS
  <2>3. \A i \in 1..r : n + i \in D
    OBVIOUS
  <2>4. \A i \in 1..r : b[i] = buffer[order[n + i]].size
    OBVIOUS
  <2> HIDE DEF v, b, D
  <2>5. Joins(v, a, n, b, r)
    BY <2>1, <2>2, <2>3, <2>4 DEF Joins
  <2>6. SumFunctionOnSet(v, 1..(n + r))
          = SumFunctionOnSet(a, 1..n) + SumFunctionOnSet(b, 1..r)
    BY <2>5, SumConcat
  <2> QED
    BY <2>6 DEF D
<1>7. Total(out) = SumFunctionOnSet(b, 1..r)
  <2>1. DOMAIN out = 1..r
    OBVIOUS
  <2>2. Len(out) = r
    BY <1>1, <2>1, LenProperties
  <2>3. \A i \in 1..r : b[i] = out[i].size
    OBVIOUS
  <2> HIDE DEF out, b
  <2> QED
    BY <1>1, <2>2, <2>3, TotalIs
<1> QED
  BY <1>4, <1>5, <1>6, <1>7

(* How the first n of them stand in the queue.                                 *)
Closed(order, n) ==
  /\ DOMAIN queue = 1..Len(queue) /\ DOMAIN queue' = 1..(Len(queue) + n)
  /\ \A i \in 1..Len(queue) : queue'[i] = queue[i]
  /\ \A i \in 1..n : /\ order[i] \in Buffered /\ order[i] \in Keys
                     /\ queue'[Len(queue) + i] = buffer[order[i]]
                     /\ buffer[order[i]].key = order[i]
                     /\ pending[order[i]] = NoItem
                     /\ pending'[order[i]] = buffer[order[i]]
  /\ \A k \in Keys : (\A i \in 1..n : k # order[i]) => pending'[k] = pending[k]
  /\ \A i \in DOMAIN queue, j \in 1..n : queue[i].key # order[j]

LEMMA CloseQueues ==
  ASSUME KeptInv, FlowInv, NEW order, NEW n \in Nat, NEW r \in Nat, Closes(order, n, r)
  PROVE  Closed(order, n)
<1> DEFINE s == [i \in 1..n |-> buffer[order[i]]]
<1>1. /\ queue \in Seq(Good) /\ s \in Seq(Good) /\ queue' = queue \o s
      /\ DOMAIN queue = 1..Len(queue) /\ Len(queue) \in Nat
      /\ \A i \in DOMAIN queue : queue[i].key \in Keys \cup {None}
      /\ Filed(buffer) /\ QuotesInv
  BY WeightIs DEF Closes, KeptInv, StoreInv, FlowInv
<1>2. DOMAIN s = 1..n /\ \A i \in 1..n : s[i] = buffer[order[i]]
  OBVIOUS
<1>3. /\ DOMAIN queue' = 1..(Len(queue) + n)
      /\ \A i \in 1..Len(queue) : queue'[i] = queue[i]
      /\ \A i \in 1..n : queue'[Len(queue) + i] = s[i]
  <2> HIDE DEF s
  <2>1. Len(s) = n
    BY <1>1, <1>2, LenProperties
  <2>2. /\ queue' \in Seq(Good) /\ Len(queue') = Len(queue) + n
        /\ \A i \in 1..(Len(queue) + n) :
             queue'[i] = IF i <= Len(queue) THEN queue[i] ELSE s[i - Len(queue)]
    BY <1>1, <2>1, ConcatProperties
  <2>3. DOMAIN queue' = 1..(Len(queue) + n)
    BY <2>2, LenProperties
  <2>4. ASSUME NEW i \in 1..n
        PROVE  queue'[Len(queue) + i] = s[i]
    <3>1. /\ Len(queue) + i \in 1..(Len(queue) + n) /\ ~ (Len(queue) + i <= Len(queue))
          /\ (Len(queue) + i) - Len(queue) = i
      BY <1>1
    <3> QED
      BY <2>2, <3>1
  <2>5. ASSUME NEW i \in 1..Len(queue)
        PROVE  queue'[i] = queue[i]
    <3>1. i \in 1..(Len(queue) + n) /\ i <= Len(queue)
      BY <1>1
    <3> QED
      BY <2>2, <3>1
  <2> QED
    BY <2>3, <2>4, <2>5
<1>4. ASSUME NEW i \in 1..n
      PROVE  /\ order[i] \in Buffered /\ order[i] \in Keys
             /\ buffer[order[i]].key = order[i] /\ pending[order[i]] = NoItem
             /\ pending'[order[i]] = buffer[order[i]]
  <2>1. order[i] \in Buffered
    <3>1. i \in 1..(n + r)
      OBVIOUS
    <3> QED
      BY <3>1 DEF Closes
  <2>2. order[i] \in Keys /\ buffer[order[i]] # NoItem
    BY <2>1 DEF Buffered
  <2>3. pending[order[i]] = NoItem /\ buffer[order[i]].key = order[i]
    BY <1>1, <2>2 DEF QuotesInv, Filed
  <2>4. pending'[order[i]] = buffer[order[i]]
    BY <2>2 DEF Closes
  <2> QED
    BY <2>1, <2>2, <2>3, <2>4
<1>5. \A k \in Keys : (\A i \in 1..n : k # order[i]) => pending'[k] = pending[k]
  BY DEF Closes
<1>6. \A i \in DOMAIN queue, j \in 1..n : queue[i].key # order[j]
  <2>1. None \notin Keys
    BY IngestAssumption
  <2> QED
    BY <1>1, <1>4, <2>1 DEF QuotesInv
<1> QED
  BY <1>1, <1>2, <1>3, <1>4, <1>5, <1>6 DEF Closed

LEMMA BuffersCloseFlow ==
  ASSUME KeptInv, FlowInv, BuffersClose
  PROVE  FlowInv'
<1>1. /\ buffer' = [k \in Keys |-> NoItem] /\ NoItem' = NoItem
      /\ UNCHANGED <<conn, batch, newest>>
      /\ \A c \in AllConns : conn[c] = "off"
  BY DEF BuffersClose, feeds, NoItem
<1>2. PICK order : \E n, r \in Nat : Closes(order, n, r)
  BY BuffersCloseIn
<1>3. PICK n \in Nat, r \in Nat : Closes(order, n, r)
  BY <1>2
<1>4. /\ DOMAIN queue = 1..Len(queue) /\ DOMAIN queue' = 1..(Len(queue) + n)
      /\ \A i \in 1..Len(queue) : queue'[i] = queue[i]
      /\ \A i \in 1..n : /\ order[i] \in Buffered /\ order[i] \in Keys
                         /\ queue'[Len(queue) + i] = buffer[order[i]]
                         /\ buffer[order[i]].key = order[i]
                         /\ pending[order[i]] = NoItem
                         /\ pending'[order[i]] = buffer[order[i]]
      /\ \A k \in Keys : (\A i \in 1..n : k # order[i]) => pending'[k] = pending[k]
      /\ \A i \in DOMAIN queue, j \in 1..n : queue[i].key # order[j]
  <2>1. Closed(order, n)
    BY <1>3, CloseQueues
  <2> QED
    BY <2>1 DEF Closed
<1>5. /\ QuotesInv /\ NewestInv /\ Filed(buffer)
      /\ bytes = Total(batch) + QueueSum + BufferSum
      /\ \A i \in DOMAIN queue : queue[i].key \in Keys \cup {None}
      /\ Len(queue) \in Nat
  BY WeightIs DEF KeptInv, StoreInv, FlowInv, BytesInv
<1> DEFINE a == [i \in 1..n |-> buffer[order[i]].size]
           lost == Total([i \in 1..r |-> buffer[order[n + i]]])
<1>6. BytesInv'
  <2>1. \A i \in 1..n : a[i] = buffer[order[i]].size
    OBVIOUS
  <2>2. \A i \in 1..n : a[i] \in Int
    BY <1>4, <1>5 DEF Filed, Item
  <2> HIDE DEF a
  <2>3. BufferSum = SumFunctionOnSet(a, 1..n) + lost
    BY <1>3, <2>1, CloseSplits
  <2>4. \A i \in 1..Len(queue) : Weight'[i] = Weight[i]
    <3>1. ASSUME NEW i \in 1..Len(queue)
          PROVE  StandsFor(queue'[i], pending') = StandsFor(queue[i], pending)
      BY <1>4, <1>5 DEF StandsFor
    <3>2. \A i \in 1..Len(queue) : i \in DOMAIN queue /\ i \in DOMAIN queue'
      BY <1>4, <1>5
    <3> QED
      BY <3>1, <3>2, WeightUnfolds
  <2>5. \A i \in 1..n : Weight'[Len(queue) + i] = a[i]
    <3>1. ASSUME NEW i \in 1..n
          PROVE  StandsFor(queue'[Len(queue) + i], pending') = buffer[order[i]]
      BY <1>4 DEF StandsFor
    <3>2. \A i \in 1..n : Len(queue) + i \in DOMAIN queue'
      BY <1>4, <1>5
    <3> QED
      BY <2>1, <3>1, <3>2, WeightUnfolds
  <2>6. QueueSum' = QueueSum + SumFunctionOnSet(a, 1..n)
    BY <1>4, <2>2, <2>4, <2>5, QueueExtends
  <2>7. BufferSum' = 0
    <3> DEFINE P == Parked'
    <3>1. \A k \in Keys : P[k] = 0
      BY <1>1 DEF Parked, NoItem
    <3>2. BufferSum' = SumFunctionOnSet(P, Keys)
      BY DEF BufferSum
    <3>3. IsFiniteSet(Keys)
      BY IngestAssumption
    <3> HIDE DEF P
    <3> QED
      BY <3>1, <3>2, <3>3, SumZero
  <2>8. lost \in Nat /\ bytes' = bytes - lost
    BY <1>3, TotalIs DEF Closes
  <2>9. PICK kept \in Int : kept = SumFunctionOnSet(a, 1..n)
    <3>1. IsFiniteSet(1..n)
      BY FS_Interval
    <3> QED
      BY <2>2, <3>1, SumInt
  <2>10. Total(batch') = Total(batch)
    BY <1>1
  <2> HIDE DEF lost
  <2>11. QueueSum \in Nat /\ Total(batch) \in Nat
    BY SumsAre
  <2>12. bytes = Total(batch) + QueueSum + BufferSum
    BY <1>5
  <2>13. BufferSum = kept + lost /\ QueueSum' = QueueSum + kept
    BY <2>3, <2>6, <2>9
  <2>14. bytes' = Total(batch) + (QueueSum + kept) + 0
    BY <2>8, <2>11, <2>12, <2>13
  <2> QED
    BY <2>7, <2>10, <2>13, <2>14 DEF BytesInv
<1>7. QuotesInv'
  <2>1. \A j \in DOMAIN queue' :
          \/ j \in DOMAIN queue /\ queue'[j] = queue[j]
          \/ \E i \in 1..n : j = Len(queue) + i /\ queue'[j] = buffer[order[i]]
    <3>1. ASSUME NEW j \in DOMAIN queue', j \notin DOMAIN queue
          PROVE  \E i \in 1..n : j = Len(queue) + i
      <4>1. j - Len(queue) \in 1..n /\ j = Len(queue) + (j - Len(queue))
        BY <1>4, <1>5, <3>1
      <4> QED
        BY <4>1
    <3>2. \A j \in DOMAIN queue : queue'[j] = queue[j]
      BY <1>4
    <3>3. \A i \in 1..n : queue'[Len(queue) + i] = buffer[order[i]]
      BY <1>4
    <3>4. ASSUME NEW j \in DOMAIN queue', j \notin DOMAIN queue
          PROVE  \E i \in 1..n : j = Len(queue) + i /\ queue'[j] = buffer[order[i]]
      <4>1. PICK i \in 1..n : j = Len(queue) + i
        BY <3>1, <3>4
      <4>2. queue'[j] = buffer[order[i]]
        BY <3>3, <4>1
      <4> QED
        BY <4>1, <4>2
    <3> QED
      BY <3>2, <3>4, Zenon
  <2>2. ASSUME NEW j \in DOMAIN queue', queue'[j].key # None
        PROVE  pending'[queue'[j].key] # NoItem
    <3>1. CASE j \in DOMAIN queue /\ queue'[j] = queue[j]
      <4>1. queue[j].key \in Keys /\ pending[queue[j].key] # NoItem
        BY <1>5, <2>2, <3>1 DEF QuotesInv
      <4> QED
        BY <1>4, <3>1, <4>1
    <3>2. CASE \E i \in 1..n : j = Len(queue) + i /\ queue'[j] = buffer[order[i]]
      BY <1>4, <3>2 DEF Buffered
    <3> QED
      BY <2>1, <3>1, <3>2
  <2>3. ASSUME NEW i \in DOMAIN queue', NEW j \in DOMAIN queue',
               queue'[i].key # None, queue'[i].key = queue'[j].key
        PROVE  i = j
    <3>1. CASE i \in DOMAIN queue /\ j \in DOMAIN queue
      BY <1>4, <1>5, <2>3, <3>1 DEF QuotesInv
    <3>2. CASE /\ \E x \in 1..n : i = Len(queue) + x /\ queue'[i] = buffer[order[x]]
               /\ \E y \in 1..n : j = Len(queue) + y /\ queue'[j] = buffer[order[y]]
      <4>1. PICK x \in 1..n : i = Len(queue) + x /\ queue'[i] = buffer[order[x]]
        BY <3>2
      <4>2. PICK y \in 1..n : j = Len(queue) + y /\ queue'[j] = buffer[order[y]]
        BY <3>2
      <4>3. order[x] = order[y]
        BY <1>4, <2>3, <4>1, <4>2
      <4>4. x \in 1..(n + r) /\ y \in 1..(n + r)
        OBVIOUS
      <4>5. x = y
        BY <1>3, <4>3, <4>4 DEF Closes
      <4> QED
        BY <4>1, <4>2, <4>5
    <3> QED
      BY <1>4, <2>1, <2>3, <3>1, <3>2
  <2>4. ASSUME NEW k \in Keys, pending'[k] # NoItem
        PROVE  buffer'[k] = NoItem /\ \E j \in DOMAIN queue' : queue'[j].key = k
    <3>1. buffer'[k] = NoItem
      BY <1>1
    <3>2. CASE \E i \in 1..n : k = order[i]
      <4>1. PICK i \in 1..n : k = order[i]
        BY <3>2
      <4>2. Len(queue) + i \in DOMAIN queue'
        BY <1>4, <1>5
      <4> QED
        BY <1>4, <3>1, <4>1, <4>2
    <3>3. CASE \A i \in 1..n : k # order[i]
      <4>1. PICK j \in DOMAIN queue : queue[j].key = k
        BY <1>4, <1>5, <2>4, <3>3 DEF QuotesInv
      <4>2. j \in DOMAIN queue' /\ queue'[j] = queue[j]
        BY <1>4, <1>5
      <4> QED
        BY <3>1, <4>1, <4>2
    <3> QED
      BY <3>2, <3>3
  <2> QED
    BY <1>1, <2>2, <2>3, <2>4 DEF QuotesInv
<1>8. NewestInv'
  <2>1. \A k \in Keys : buffer'[k] = NoItem
    BY <1>1
  <2>2. ASSUME NEW k \in Keys, pending'[k] # NoItem
        PROVE  pending'[k].id = newest[k]
    <3>1. CASE \E i \in 1..n : k = order[i]
      BY <1>4, <1>5, <3>1 DEF NewestInv, Buffered
    <3>2. CASE \A i \in 1..n : k # order[i]
      BY <1>4, <1>5, <2>2, <3>2 DEF NewestInv
    <3> QED
      BY <3>1, <3>2
  <2> QED
    BY <1>1, <1>5, <2>1, <2>2 DEF NewestInv
<1>9. WaitInv'
  BY <1>1 DEF WaitInv
<1> QED
  BY <1>6, <1>7, <1>8, <1>9 DEF FlowInv

LEMMA FlowInit == Init => KeptInv /\ FlowInv
<1> SUFFICES ASSUME Init PROVE KeptInv /\ FlowInv
  OBVIOUS
<1>1. /\ queue = <<>> /\ batch = <<>> /\ bytes = 0
      /\ pending = [k \in Keys |-> NoItem] /\ buffer = [k \in Keys |-> NoItem]
      /\ newest = [k \in Keys |-> 0] /\ conn = [c \in AllConns |-> "on"]
  BY DEF Init
<1>2. KeptInv
  BY KeptInit
<1>3. DOMAIN queue = {}
  BY <1>1
<1>4. QuotesInv /\ NewestInv
  BY <1>1, <1>3 DEF QuotesInv, NewestInv
<1>5. BytesInv
  <2>1. QueueSum = 0
    BY <1>3, SumEmpty DEF QueueSum
  <2>2. BufferSum = 0
    <3>1. \A k \in Keys : Parked[k] = 0
      BY <1>1 DEF Parked, NoItem
    <3> QED
      BY <1>2, <3>1, ParkedIs, SumZero DEF BufferSum
  <2>3. Total(batch) = 0
    BY <1>1, NothingWeighs
  <2> QED
    BY <1>1, <2>1, <2>2, <2>3 DEF BytesInv
<1>6. WaitInv
  BY <1>1 DEF WaitInv
<1> QED
  BY <1>2, <1>4, <1>5, <1>6 DEF FlowInv

LEMMA FlowNext ==
  ASSUME KeptInv, FlowInv, [Next]_vars
  PROVE  FlowInv'
<1>1. CASE Arrivals
  BY <1>1, ArrivalsFlow
<1>2. CASE \E c \in AllConns : Producer(c)
  BY <1>2, ProducerFlows
<1>3. CASE \E k \in Keys : Flushes(k)
  BY <1>3, FlushesFlow
<1>4. CASE Takes
  BY <1>4, TakesFlow
<1>5. CASE Archives \/ Breaks
  BY <1>5, ArchivesFlow
<1>6. CASE BuffersClose
  BY <1>6, BuffersCloseFlow
<1>7. CASE UNCHANGED <<store, batch, newest, conn>>
  BY <1>7, FlowStays
<1>8. CASE Joined \/ StopBegins
  BY <1>7, <1>8 DEF Joined, StopBegins, feeds
<1>9. CASE UNCHANGED vars
  BY <1>7, <1>9 DEF vars, feeds
<1> QED
  BY <1>1, <1>2, <1>3, <1>4, <1>5, <1>6, <1>8, <1>9 DEF Next, Work, Stop

LEMMA Flowing == Spec => []FlowInv
<1>1. Init => FlowInv
  BY FlowInit
<1>2. KeptInv /\ FlowInv /\ [Next]_vars => FlowInv'
  BY FlowNext
<1> QED
  BY <1>1, <1>2, Keeping, PTL DEF Spec

-------------------------------------------------------------------------------
(* _current_bytes is exact, whatever replaces, flushes, drops, takes and       *)
(* releases envelopes, and in whatever order (BoundedEnvelopeQueue.put,        *)
(* _put_coalesced, _flush_coalesced, take_batch, release and close).           *)
THEOREM CountIsExact == Spec => []BytesAreExact
<1>1. KeptInv /\ FlowInv => BytesAreExact
  <2> SUFFICES ASSUME KeptInv, FlowInv PROVE BytesAreExact
    OBVIOUS
  <2> DEFINE s == [i \in DOMAIN queue |-> Latest(queue[i])]
  <2>1. /\ DOMAIN queue = 1..Len(queue) /\ Len(queue) \in Nat
        /\ queue \in Seq(Good) /\ Filed(pending)
        /\ \A i \in DOMAIN queue : queue[i] \in Good
    BY WeightIs DEF KeptInv, StoreInv
  <2>2. \A i \in DOMAIN queue : Latest(queue[i]) \in Good
    BY <2>1, LatestIs
  <2>3. s \in [1..Len(queue) -> Good]
    BY <2>1, <2>2
  <2>4. DOMAIN s = 1..Len(queue) /\ \A i \in DOMAIN queue : s[i].size = Weight[i]
    BY <2>1 DEF Weight
  <2> HIDE DEF s
  <2>5. s \in Seq(Good)
    BY <2>1, <2>3, SeqDef
  <2>6. Len(s) = Len(queue)
    BY <2>1, <2>4, <2>5, LenProperties
  <2>7. \A i \in 1..Len(s) : Weight[i] = s[i].size
    BY <2>1, <2>4, <2>6
  <2>8. Total(s) = SumFunctionOnSet(Weight, 1..Len(s))
    BY <2>5, <2>7, TotalIs
  <2>9. Total(s) = QueueSum
    BY <2>1, <2>6, <2>8 DEF QueueSum
  <2>10. SumFunction(Parked) = BufferSum
    <3>1. DOMAIN Parked = Keys
      BY DEF Parked
    <3> QED
      BY <3>1 DEF SumFunction, BufferSum
  <2>11. bytes = Total(batch) + Total(s) + SumFunction(Parked)
    BY <2>9, <2>10 DEF FlowInv, BytesInv
  <2> QED
    BY <2>11 DEF BytesAreExact, s, Parked
<1> QED
  BY <1>1, Keeping, Flowing, PTL

(* A producer that sleeps for room sleeps beside bytes that have still to be   *)
(* released: with none in the queue, in a buffer or at the worker it would     *)
(* wait for nobody (put, _wait_for_capacity).                                  *)
THEOREM NobodySleepsForNothing == Spec => []WaitersAreWoken
<1>1. FlowInv => WaitersAreWoken
  BY DEF FlowInv, WaitInv, WaitersAreWoken, AllConns
<1> QED
  BY <1>1, Flowing, PTL

(* The quotes of a batch are the last that were kept for their keys: nothing   *)
(* older overtakes them in _pending_by_key or a buffer (take_batch).           *)
THEOREM LastQuoteIsTaken == Spec => NewestIsTaken
<1>1. ASSUME KeptInv, FlowInv, Next, batch' # batch
      PROVE  \A i \in DOMAIN batch' :
               ~IsTrade(batch'[i]) => batch'[i].id = newest[batch'[i].key]
  <2>1. CASE Takes
    BY <1>1, <2>1, TakesCut, TakenIsNewest
  <2>2. CASE batch' = <<>>
    BY <2>2
  <2>3. Takes \/ batch' = <<>>
    <3>1. ASSUME NEW c \in AllConns, Producer(c)
          PROVE  batch' = batch
      BY <3>1 DEF Producer, Continues, Retries, TimesOut, Leaves
    <3>2. ASSUME Arrivals
          PROVE  batch' = batch
      BY <3>2 DEF Arrivals, TradeArrives, QuoteArrives, Submits
    <3> QED
      BY <1>1, <3>1, <3>2 DEF Next, Work, Stop, Flushes, Archives, Breaks, StopBegins,
         BuffersClose, Joined
  <2> QED
    BY <2>1, <2>2, <2>3
<1>2. KeptInv /\ FlowInv /\ [Next]_vars =>
        [batch' # batch =>
           \A i \in DOMAIN batch' :
             ~IsTrade(batch'[i]) => batch'[i].id = newest[batch'[i].key]]_vars
  BY <1>1
<1> QED
  BY <1>2, Keeping, Flowing, PTL DEF Spec, NewestIsTaken

-------------------------------------------------------------------------------
(* The limits of the queue.                                                    *)
LimitInv ==
  /\ Len(queue) <= MaxEvents /\ bytes <= MaxBytes
  /\ service \in {"READY", "HALTED", "STOPPED"}
  /\ byDisk \in BOOLEAN /\ byOverflow \in BOOLEAN
  /\ stopping \in {"no", "leaving", "joining", "stopped"}

Limited == Len(queue) <= MaxEvents /\ bytes <= MaxBytes

LEMMA AppendLimited ==
  ASSUME KeptInv, Len(queue) <= MaxEvents, ~Full, NEW x \in Good, queue' = Append(queue, x)
  PROVE  Len(queue') <= MaxEvents
<1>1. queue \in Seq(Good) /\ Len(queue) \in Nat /\ MaxEvents \in Nat
  BY WeightIs, IngestAssumption DEF KeptInv, StoreInv
<1>2. Len(queue') = Len(queue) + 1
  BY <1>1, AppendProperties
<1>3. ~ (Len(queue) >= MaxEvents)
  BY DEF Full
<1> QED
  BY <1>1, <1>2, <1>3

LEMMA PutsLimited ==
  ASSUME KeptInv, FlowInv, Limited, NEW c \in AllConns, NEW item \in Good, Puts(c, item)
  PROVE  Limited'
<1>1. bytes \in Nat /\ item.size \in Nat /\ MaxBytes \in Nat
  BY BytesAre, IngestAssumption DEF Good, Item
<1>2. CASE ~IsTrade(item) /\ KeepQuote(item) /\ UNCHANGED queue
  <2> DEFINE old == IF buffer[item.key] # NoItem THEN buffer[item.key] ELSE pending[item.key]
  <2>1. item.key \in Keys
    BY <1>2 DEF Good, Item, IsTrade
  <2>2. old.size \in Nat
    BY <2>1 DEF KeptInv, StoreInv, Filed, Item
  <2>3. \/ bytes' = bytes
        \/ bytes' = Replaced(old, item) /\ ~ (Replaced(old, item) > MaxBytes)
    <3>1. CASE Replaced(old, item) > MaxBytes \/ (old = NoItem /\ Size >= MaxEvents)
      BY <1>2, <3>1 DEF KeepQuote
    <3>2. CASE ~ (Replaced(old, item) > MaxBytes \/ (old = NoItem /\ Size >= MaxEvents))
      BY <1>2, <3>2 DEF KeepQuote
    <3> QED
      BY <3>1, <3>2
  <2> HIDE DEF old
  <2>4. bytes' <= MaxBytes
    BY <1>1, <2>2, <2>3 DEF Limited, Replaced
  <2> QED
    BY <1>2, <2>4 DEF Limited
<1>3. CASE Overflows(c) \/ UNCHANGED store
  BY <1>3 DEF Overflows, store, Limited
<1>4. CASE Fits(item) /\ queue' = Append(queue, item) /\ bytes' = bytes + item.size
  <2>1. ~Full /\ bytes' <= MaxBytes
    BY <1>4 DEF Fits
  <2> QED
    BY <1>4, <2>1, AppendLimited DEF Limited
<1> QED
  BY <1>2, <1>3, <1>4 DEF Puts

LEMMA EntersLimited ==
  ASSUME KeptInv, FlowInv, Limited, NEW c \in AllConns, NEW item \in Good, Enters(c, item)
  PROVE  Limited'
<1>1. CASE Puts(c, item)
  BY <1>1, PutsLimited
<1>2. CASE DiskFull(c) \/ DiskRecovered(c, item)
  BY <1>2 DEF DiskFull, DiskRecovered, store, Limited
<1> QED
  BY <1>1, <1>2 DEF Enters

LEMMA ProducersLimited ==
  ASSUME KeptInv, FlowInv, Limited, Arrivals \/ \E c \in AllConns : Producer(c)
  PROVE  Limited'
<1>1. CASE Arrivals
  <2>1. PICK c \in AllConns, item \in Good : Submits(c, item)
    BY <1>1, ArrivalsSubmit
  <2>2. CASE Enters(c, item)
    BY <2>2, EntersLimited
  <2>3. CASE UNCHANGED store
    BY <2>3 DEF store, Limited
  <2> QED
    BY <2>1, <2>2, <2>3 DEF Submits
<1>2. ASSUME NEW c \in AllConns, Producer(c)
      PROVE  Limited'
  <2>1. CASE Continues(c)
    BY <2>1, EntersLimited DEF Continues, KeptInv, HeldInv
  <2>2. CASE Retries(c)
    BY <2>2, PutsLimited DEF Retries, KeptInv, HeldInv
  <2>3. CASE TimesOut(c) \/ Leaves(c)
    BY <2>3 DEF TimesOut, Leaves, Overflows, store, Limited
  <2> QED
    BY <1>2, <2>1, <2>2, <2>3 DEF Producer
<1> QED
  BY <1>1, <1>2

LEMMA WorkLimited ==
  ASSUME KeptInv, FlowInv, Limited, Takes \/ Archives \/ Breaks
  PROVE  Limited'
<1>1. CASE Takes
  <2>1. PICK n \in Nat : Cut(n)
    BY <1>1, TakesCut
  <2>2. Len(queue') = Len(queue) - n /\ Len(queue) \in Nat /\ MaxEvents \in Nat
    BY <2>1, WeightIs, IngestAssumption DEF Cut
  <2>3. Len(queue') <= MaxEvents
    BY <2>2 DEF Limited
  <2>4. bytes' = bytes
    BY <1>1 DEF Takes
  <2> QED
    BY <2>3, <2>4 DEF Limited
<1>2. CASE Archives \/ Breaks
  <2>1. queue' = queue /\ bytes' = bytes - Total(batch)
    BY <1>2 DEF Archives, Breaks, Released
  <2>2. Total(batch) \in Nat /\ bytes \in Nat /\ MaxBytes \in Nat
    BY SumsAre, BytesAre, IngestAssumption
  <2>3. bytes' <= MaxBytes
    BY <2>1, <2>2 DEF Limited
  <2> QED
    BY <2>1, <2>3 DEF Limited
<1> QED
  BY <1>1, <1>2

LEMMA BuffersLimited ==
  ASSUME KeptInv, FlowInv, Limited, BuffersClose \/ \E k \in Keys : Flushes(k)
  PROVE  Limited'
<1>1. bytes \in Nat /\ MaxBytes \in Nat /\ MaxEvents \in Nat /\ Len(queue) \in Nat
  BY BytesAre, WeightIs, IngestAssumption
<1>2. ASSUME NEW k \in Keys, Flushes(k)
      PROVE  Limited'
  <2>1. buffer[k] \in Good /\ buffer[k].size \in Nat
    BY <1>2, BufferedIs DEF Flushes, Buffered, Item
  <2>2. CASE queue' = queue /\ bytes' = bytes - buffer[k].size
    <3>1. bytes' <= MaxBytes
      BY <1>1, <2>1, <2>2 DEF Limited
    <3> QED
      BY <2>2, <3>1 DEF Limited
  <2>3. CASE ~Full /\ queue' = Append(queue, buffer[k]) /\ bytes' = bytes
    BY <2>1, <2>3, AppendLimited DEF Limited
  <2> QED
    BY <1>2, <2>2, <2>3 DEF Flushes
<1>3. CASE BuffersClose
  <2>1. PICK order : \E n, r \in Nat : Closes(order, n, r)
    BY <1>3, BuffersCloseIn
  <2>2. PICK n \in Nat, r \in Nat : Closes(order, n, r)
    BY <2>1
  <2>3. Len(queue') <= MaxEvents
    <3>1. DOMAIN queue' = 1..(Len(queue) + n)
      <4>1. Closed(order, n)
        BY <2>2, CloseQueues
      <4> QED
        BY <4>1 DEF Closed
    <3>2. queue' \in Seq(Good)
      BY <2>2, QueueGrows DEF Closes
    <3>3. Len(queue') = Len(queue) + n
      BY <1>1, <3>1, <3>2, LenProperties
    <3>4. n = 0 \/ Len(queue) + n <= MaxEvents
      BY <2>2 DEF Closes
    <3> QED
      BY <1>1, <3>3, <3>4 DEF Limited
  <2>4. bytes' <= MaxBytes
    <3>1. PICK lost \in Nat : bytes' = bytes - lost
      BY <2>2, TotalIs DEF Closes
    <3> QED
      BY <1>1, <3>1 DEF Limited
  <2> QED
    BY <2>3, <2>4 DEF Limited
<1> QED
  BY <1>2, <1>3

LEMMA LimitNext ==
  ASSUME KeptInv, FlowInv, LimitInv, [Next]_vars
  PROVE  LimitInv'
<1>1. Limited
  BY DEF LimitInv, Limited
<1>2. CASE Arrivals \/ \E c \in AllConns : Producer(c)
  <2>1. Limited'
    BY <1>1, <1>2, ProducersLimited
  <2>2. ASSUME NEW c \in AllConns, NEW item, Puts(c, item)
        PROVE  /\ service' \in {"READY", "HALTED", "STOPPED"}
               /\ byDisk' \in BOOLEAN /\ byOverflow' \in BOOLEAN
    BY <2>2 DEF LimitInv, Puts, Overflows, halts
  <2>3. ASSUME NEW c \in AllConns, NEW item, Enters(c, item)
        PROVE  /\ service' \in {"READY", "HALTED", "STOPPED"}
               /\ byDisk' \in BOOLEAN /\ byOverflow' \in BOOLEAN
    BY <2>2, <2>3 DEF LimitInv, Enters, DiskFull, DiskRecovered
  <2>4. ASSUME NEW c \in AllConns, NEW item, Submits(c, item)
        PROVE  /\ service' \in {"READY", "HALTED", "STOPPED"}
               /\ byDisk' \in BOOLEAN /\ byOverflow' \in BOOLEAN /\ stopping' = stopping
    BY <2>3, <2>4 DEF LimitInv, Submits, halts
  <2>5. ASSUME NEW c \in AllConns, Producer(c)
        PROVE  /\ service' \in {"READY", "HALTED", "STOPPED"}
               /\ byDisk' \in BOOLEAN /\ byOverflow' \in BOOLEAN /\ stopping' = stopping
    BY <2>2, <2>3, <2>5 DEF LimitInv, Producer, Continues, Retries, TimesOut, Leaves,
       Overflows, halts
  <2> QED
    BY <1>2, <2>1, <2>4, <2>5, ArrivalsSubmit DEF LimitInv, Limited
<1>3. CASE BuffersClose \/ \E k \in Keys : Flushes(k)
  BY <1>1, <1>3, BuffersLimited DEF LimitInv, Limited, BuffersClose, Flushes, halts
<1>4. CASE Takes \/ Archives \/ Breaks
  BY <1>1, <1>4, WorkLimited DEF LimitInv, Limited, Takes, Archives, Breaks, halts
<1>5. CASE StopBegins \/ Joined \/ UNCHANGED vars
  BY <1>5 DEF LimitInv, StopBegins, Joined, vars, store, halts
<1> QED
  BY <1>2, <1>3, <1>4, <1>5 DEF Next, Work, Stop

(* The queue keeps its limits: never more envelopes than max_events, never     *)
(* more bytes than max_bytes, with those of the worker counted in, whatever is *)
(* coalesced, flushed or closed; and every variable keeps its type.            *)
THEOREM LimitsHold == Spec => []TypeOK
<1>1. Init => LimitInv
  <2>1. Len(<<>>) = 0 /\ 0 <= MaxEvents /\ 0 <= MaxBytes
    BY IngestAssumption
  <2> QED
    BY <2>1 DEF Init, LimitInv
<1>2. KeptInv /\ FlowInv /\ LimitInv /\ [Next]_vars => LimitInv'
  BY LimitNext
<1>3. KeptInv /\ FlowInv /\ LimitInv => TypeOK
  <2> SUFFICES ASSUME KeptInv, FlowInv, LimitInv PROVE TypeOK
    OBVIOUS
  <2>1. queue \in Seq(Item) /\ batch \in Seq(Item)
    <3>1. \A x \in Good : x \in Item
      BY DEF Good
    <3>2. \A s \in Seq(Good) : s \in Seq(Item)
      BY <3>1, LenProperties, ElementOfSeq, SeqDef
    <3> QED
      BY <3>2 DEF KeptInv, StoreInv
  <2>2. bytes \in 0..MaxBytes
    BY BytesAre, IngestAssumption DEF LimitInv
  <2>3. /\ lastSeen \in Nat /\ first \in Nat
        /\ archived \subseteq 1..MaxId /\ gaps \subseteq 1..MaxId /\ accepted \subseteq 1..MaxId
    <3>1. /\ lastSeen \in 0..MaxId /\ first \in 0..lastSeen /\ MaxId \in Nat
          /\ archived \subseteq 1..lastSeen /\ gaps \subseteq 1..lastSeen
          /\ accepted \subseteq 1..MaxId
      BY IngestAssumption DEF KeptInv, SeenInv, TakenInv
    <3> QED
      BY <3>1
  <2> QED
    BY <2>1, <2>2, <2>3
    DEF TypeOK, LimitInv, KeptInv, StoreInv, Filed, HeldInv, WorkerInv, FlowInv, NewestInv
<1> QED
  BY <1>1, <1>2, <1>3, Keeping, Flowing, PTL DEF Spec
===============================================================================
