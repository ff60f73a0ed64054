-------------------------- MODULE RuntimeStatesProofs -------------------------
(* Theorems about RuntimeStates for any symbols, tapes, delays and queue size: *)
(* types, no stored state that a gap reaches into is left complete, no bucket  *)
(* of a symbol that stays expected is forgotten, the hub hears of every one,   *)
(* the writer never meets a stored state of its own that differs, and what is  *)
(* called complete has every trade of its bucket.                              *)
EXTENDS RuntimeStates, TLAPS, FiniteSetTheorems, SequenceTheorems

-------------------------------------------------------------------------------
(* The typing invariant: TypeOK, what a step waits with, and what is in the    *)
(* queue.  While the hub has the states of the closed buckets, none of those   *)
(* is due any more; nor are, in either order, those whose rows are built.      *)
Event == [sym : Symbols, id : Nat, at : 0..MaxClock]
Kept  == [open : BOOLEAN, trades : SUBSET Nat, quote : BOOLEAN]

Unique(S) == \A r, q \in S : r.key = q.key => r = q

Command ==
  {c \in [kind : {"rows", "gap"}, states : SUBSET State, gap : GapRow \cup {<<>>}] :
     IsCommand(c) /\ Unique(c.states) /\ (c.kind = "gap" => c.states = {})}

BuildInv ==
  /\ \A n \in DOMAIN step.todo : step.todo[n].kind = "rows"
  /\ \A k \in Closing : k \in Keys /\ k \notin durDue /\ End(k[2]) <= maxSeen - DurDelay

StepInv ==
  /\ step \in [at : {"idle", "gap", "sink", "build", "rows"}, event : Event \cup {<<>>},
               todo : Seq(Command), states : SUBSET State]
  /\ step.at \in {"idle", "sink"} => step.todo = <<>>
  /\ step.at = "gap" =>
       step.event \in Event /\ Len(step.todo) = 1 /\ step.todo[1].kind = "gap"
  /\ step.at \in {"sink", "build"} => \A k \in rtDue : End(k[2]) > maxSeen - RtDelay
  /\ step.at = "build" => BuildInv

PlaceInv ==
  /\ sent \in [Symbols -> Nat] /\ start \in [Symbols -> -1..Bucket(MaxClock)]
  /\ \A s \in Symbols : sent[s] <= Len(tape[s]) /\ last[s] <= Len(tape[s])

QueueInv == queue \in Seq(Command) /\ job \in Command \cup {NoJob}

TypeInv == TypeOK /\ StepInv /\ PlaceInv /\ QueueInv

-------------------------------------------------------------------------------
(* Buckets.                                                                    *)
LEMMA BucketMono ==
  ASSUME NEW x \in Int, NEW y \in Int, x <= y
  PROVE  Bucket(x) \in Int /\ Bucket(y) \in Int /\ Bucket(x) <= Bucket(y)
<1>1. Width \in Nat \ {0}
  BY RuntimeAssumption
<1>2. x \div Width \in Int /\ y \div Width \in Int
  BY <1>1
<1>3. x \div Width <= y \div Width
  BY <1>1
<1> QED
  BY <1>2, <1>3 DEF Bucket

LEMMA BucketIn ==
  /\ Bucket(MaxClock) \in Nat
  /\ \A t \in 0..MaxClock : Bucket(t) \in Buckets
<1>1. MaxClock \in Nat /\ Width \in Nat \ {0}
  BY RuntimeAssumption
<1>2. \A t \in Nat : Bucket(t) \in Nat
  BY <1>1 DEF Bucket
<1> QED
  BY <1>1, <1>2, BucketMono DEF Buckets

-------------------------------------------------------------------------------
(* States become commands: one with the real ones, one with the synthetic.     *)
LEMMA SnapshotsAre ==
  ASSUME NEW a \in [Keys -> Kept], NEW ks \in SUBSET Keys, NEW inc
  PROVE  /\ Snapshots(a, ks, inc) \subseteq State /\ Unique(Snapshots(a, ks, inc))
         /\ \A k \in ks : \E st \in Snapshots(a, ks, inc) : st.key = k
<1> DEFINE shot(k) == [key |-> k, trades |-> a[k].trades, quote |-> a[k].quote,
                       complete |-> k \notin inc]
<1>1. Snapshots(a, ks, inc) = {shot(k) : k \in ks}
  BY DEF Snapshots
<1>2. \A k \in ks : shot(k) \in State /\ shot(k).key = k
  <2> SUFFICES ASSUME NEW k \in ks PROVE shot(k) \in State /\ shot(k).key = k
    OBVIOUS
  <2>1. a[k] \in Kept /\ k \in Keys
    OBVIOUS
  <2>2. (k \notin inc) \in BOOLEAN
    OBVIOUS
  <2> QED
    BY <2>1, <2>2 DEF Kept, State
<1> HIDE DEF shot
<1> QED
  BY <1>1, <1>2 DEF Unique

LEMMA RowsAre ==
  ASSUME NEW S \in SUBSET State, Unique(S), S # {}
  PROVE  Rows(S) \in Command /\ Rows(S).states = S /\ <<Rows(S)>> \in Seq(Command)
  BY DEF Rows, Command, IsCommand

LEMMA BatchesAre ==
  ASSUME NEW S \in SUBSET State, Unique(S)
  PROVE  /\ Batches(S) \in Seq(Command)
         /\ \A st \in S : \E n \in DOMAIN Batches(S) : st \in Batches(S)[n].states
<1> DEFINE real == {st \in S : ~Synthetic(st)}
           rest == S \ real
<1>1. real \in SUBSET State /\ rest \in SUBSET State /\ Unique(real) /\ Unique(rest)
      /\ S = real \cup rest /\ (S = real <=> rest = {})
  BY DEF Unique
<1>2. Batches(S) = (IF real = {} THEN <<>> ELSE <<Rows(real)>>) \o
                   (IF rest = {} THEN <<>> ELSE <<Rows(rest)>>)
  BY <1>1 DEF Batches
<1> HIDE DEF real, rest
<1>3. CASE real = {} /\ rest = {}
  <2>1. Batches(S) = <<>> /\ S = {}
    BY <1>1, <1>2, <1>3
  <2>2. <<>> \in Seq(Command)
    OBVIOUS
  <2> QED
    BY <2>1, <2>2
<1>4. CASE real # {} /\ rest = {}
  <2>1. <<Rows(real)>> \in Seq(Command) /\ Rows(real).states = real
    BY <1>1, <1>4, RowsAre
  <2>2. Batches(S) = <<Rows(real)>>
    BY <1>2, <1>4, <2>1
  <2>3. 1 \in DOMAIN Batches(S) /\ Batches(S)[1].states = S
    BY <1>1, <1>4, <2>1, <2>2
  <2> QED
    BY <2>1, <2>2, <2>3
<1>5. CASE real = {} /\ rest # {}
  <2>1. <<Rows(rest)>> \in Seq(Command) /\ Rows(rest).states = rest
    BY <1>1, <1>5, RowsAre
  <2>2. Batches(S) = <<Rows(rest)>>
    BY <1>2, <1>5, <2>1
  <2>3. 1 \in DOMAIN Batches(S) /\ Batches(S)[1].states = S
    BY <1>1, <1>5, <2>1, <2>2
  <2> QED
    BY <2>1, <2>2, <2>3
<1>6. CASE real # {} /\ rest # {}
  <2>1. /\ Rows(real) \in Command /\ Rows(real).states = real
        /\ Rows(rest) \in Command /\ Rows(rest).states = rest
    BY <1>1, <1>6, RowsAre
  <2>2. Batches(S) = <<Rows(real)>> \o <<Rows(rest)>>
    BY <1>2, <1>6
  <2>3. Batches(S) \in Seq(Command) /\ DOMAIN Batches(S) = 1..2
        /\ Batches(S)[1] = Rows(real) /\ Batches(S)[2] = Rows(rest)
    BY <2>1, <2>2
  <2>4. Batches(S)[1].states = real /\ Batches(S)[2].states = rest
        /\ 1 \in DOMAIN Batches(S) /\ 2 \in DOMAIN Batches(S)
    BY <2>1, <2>3
  <2> QED
    BY <1>1, <2>3, <2>4
<1> QED
  BY <1>3, <1>4, <1>5, <1>6

Takes(L) == UNION {Taken(L[n]) : n \in DOMAIN L}

LEMMA BatchesTake ==
  ASSUME NEW S \in SUBSET State
  PROVE  /\ \A n \in DOMAIN Batches(S) : Batches(S)[n].kind = "rows"
         /\ Takes(Batches(S)) = {st.key : st \in S}
<1> DEFINE real == {st \in S : ~Synthetic(st)}
           rest == S \ real
<1>1. S = real \cup rest /\ (S = real <=> rest = {})
  OBVIOUS
<1>2. Batches(S) = (IF real = {} THEN <<>> ELSE <<Rows(real)>>) \o
                   (IF rest = {} THEN <<>> ELSE <<Rows(rest)>>)
  BY <1>1 DEF Batches
<1> HIDE DEF real, rest
<1>3. /\ Rows(real).kind = "rows" /\ Taken(Rows(real)) = {st.key : st \in real}
      /\ Rows(rest).kind = "rows" /\ Taken(Rows(rest)) = {st.key : st \in rest}
  BY DEF Rows, Taken
<1>4. CASE real = {} /\ rest = {}
  <2>1. Batches(S) = <<>> /\ S = {} /\ DOMAIN <<>> = {}
    BY <1>1, <1>2, <1>4
  <2> QED
    BY <2>1 DEF Takes
<1>5. CASE real # {} /\ rest = {}
  <2>1. DOMAIN Batches(S) = {1} /\ Batches(S)[1] = Rows(real) /\ S = real
    BY <1>1, <1>2, <1>5
  <2> QED
    BY <1>3, <2>1 DEF Takes
<1>6. CASE real = {} /\ rest # {}
  <2>1. DOMAIN Batches(S) = {1} /\ Batches(S)[1] = Rows(rest) /\ S = rest
    BY <1>1, <1>2, <1>6
  <2> QED
    BY <1>3, <2>1 DEF Takes
<1>7. CASE real # {} /\ rest # {}
  <2>1. Batches(S) = <<Rows(real)>> \o <<Rows(rest)>>
    BY <1>2, <1>7
  <2>2. DOMAIN Batches(S) = {1, 2} /\ Batches(S)[1] = Rows(real) /\ Batches(S)[2] = Rows(rest)
    BY <2>1
  <2>3. Takes(Batches(S)) = Taken(Rows(real)) \cup Taken(Rows(rest))
    BY <2>2 DEF Takes
  <2> QED
    BY <1>1, <1>3, <2>2, <2>3
<1> QED
  BY <1>4, <1>5, <1>6, <1>7

LEMMA SnapshotKeys ==
  ASSUME NEW a, NEW ks, NEW inc
  PROVE  {st.key : st \in Snapshots(a, ks, inc)} = ks
<1> DEFINE shot(k) == [key |-> k, trades |-> a[k].trades, quote |-> a[k].quote,
                       complete |-> k \notin inc]
<1>1. Snapshots(a, ks, inc) = {shot(k) : k \in ks}
  BY DEF Snapshots
<1>2. \A k \in ks : shot(k).key = k
  OBVIOUS
<1> HIDE DEF shot
<1> QED
  BY <1>1, <1>2

LEMMA SnapshotsTake ==
  ASSUME NEW a \in [Keys -> Kept], NEW ks \in SUBSET Keys, NEW inc
  PROVE  Takes(Batches(Snapshots(a, ks, inc))) = ks
<1>1. Snapshots(a, ks, inc) \subseteq State
  BY SnapshotsAre
<1>2. {st.key : st \in Snapshots(a, ks, inc)} = ks
  BY SnapshotKeys
<1> QED
  BY <1>1, <1>2, BatchesTake

-------------------------------------------------------------------------------
(* Nothing gets lost between the queue and what waits for room in it.          *)
Has(q, c) == \E n \in DOMAIN q : q[n] = c

LEMMA PutAllMoves ==
  ASSUME NEW q \in Seq(Command), NEW todo \in Seq(Command), Len(q) <= QueueRoom,
         PutAll(q, todo)
  PROVE  /\ queue' \in Seq(Command) /\ Len(queue') <= QueueRoom
         /\ step' \in [at : {"idle", "rows"}, event : {<<>>}, todo : Seq(Command), states : {{}}]
         /\ step'.at = "idle" => step'.todo = <<>>
         /\ \A c : Has(q, c) => Has(queue', c)
         /\ \A c : Has(todo, c) => Has(queue', c) \/ Has(step'.todo, c)
<1> DEFINE n == Least(Len(todo), QueueRoom - Len(q))
<1>1. QueueRoom \in Nat /\ Len(q) \in Nat /\ Len(todo) \in Nat
  BY RuntimeAssumption
<1>2. n \in 0..Len(todo) /\ n <= QueueRoom - Len(q)
  BY <1>1 DEF Least
<1>3. queue' = q \o SubSeq(todo, 1, n)
      /\ step' = IF n = Len(todo) THEN Idle ELSE AtRows(SubSeq(todo, n + 1, Len(todo)))
  BY DEF PutAll
<1> HIDE DEF n
<1> DEFINE front == SubSeq(todo, 1, n)
           back  == SubSeq(todo, n + 1, Len(todo))
<1>4. /\ front \in Seq(Command) /\ Len(front) = n
      /\ \A i \in 1..n : front[i] = todo[i]
  BY <1>1, <1>2
<1>5. /\ back \in Seq(Command) /\ Len(back) = Len(todo) - n
      /\ \A i \in (n + 1)..Len(todo) : i - n \in 1..Len(back) /\ back[i - n] = todo[i]
  BY <1>1, <1>2
<1> HIDE DEF front, back
<1>6. /\ queue' \in Seq(Command) /\ Len(queue') = Len(q) + n
      /\ \A i \in 1..Len(q) : queue'[i] = q[i]
      /\ \A i \in 1..n : queue'[Len(q) + i] = front[i]
  BY <1>1, <1>2, <1>3, <1>4 DEF front
<1>7. \A c : Has(q, c) => Has(queue', c)
  <2> SUFFICES ASSUME NEW i \in DOMAIN q PROVE \E j \in DOMAIN queue' : queue'[j] = q[i]
    BY DEF Has
  <2>1. i \in DOMAIN queue' /\ queue'[i] = q[i]
    BY <1>1, <1>2, <1>6
  <2> QED
    BY <2>1
<1>8. \A i \in DOMAIN todo : i <= n => Has(queue', todo[i])
  <2> SUFFICES ASSUME NEW i \in DOMAIN todo, i <= n PROVE Has(queue', todo[i])
    OBVIOUS
  <2>1. Len(q) + i \in DOMAIN queue' /\ queue'[Len(q) + i] = todo[i]
    BY <1>1, <1>2, <1>4, <1>6
  <2> QED
    BY <2>1 DEF Has
<1>9. CASE n = Len(todo)
  <2>1. step' = [at |-> "idle", event |-> <<>>, todo |-> <<>>, states |-> {}]
    BY <1>3, <1>9 DEF Idle
  <2>2. \A c : Has(todo, c) => Has(queue', c)
    BY <1>1, <1>8, <1>9 DEF Has
  <2>3. <<>> \in Seq(Command)
    OBVIOUS
  <2> QED
    BY <1>1, <1>2, <1>6, <1>7, <2>1, <2>2, <2>3
<1>10. CASE n # Len(todo)
  <2>1. step' = [at |-> "rows", event |-> <<>>, todo |-> back, states |-> {}]
    BY <1>3, <1>10 DEF AtRows, back
  <2>2. \A i \in DOMAIN todo : ~(i <= n) => Has(back, todo[i])
    <3> SUFFICES ASSUME NEW i \in DOMAIN todo, ~(i <= n) PROVE Has(back, todo[i])
      OBVIOUS
    <3>1. i \in (n + 1)..Len(todo) /\ DOMAIN back = 1..Len(back)
      BY <1>1, <1>2, <1>5
    <3>2. i - n \in DOMAIN back /\ back[i - n] = todo[i]
      BY <3>1, <1>5
    <3> QED
      BY <3>2 DEF Has
  <2>3. \A c : Has(todo, c) => Has(queue', c) \/ Has(back, c)
    BY <1>8, <2>2 DEF Has
  <2> QED
    BY <1>1, <1>2, <1>5, <1>6, <1>7, <2>1, <2>3
<1> QED
  BY <1>9, <1>10

-------------------------------------------------------------------------------
(* Materializing: whatever the mark passes over is opened.                     *)
Marks == [Symbols -> -1..Bucket(MaxClock)]

LEMMA OpenedAre ==
  ASSUME NEW a \in [Keys -> Kept], NEW ks
  PROVE  /\ Opened(a, ks) \in [Keys -> Kept]
         /\ \A k \in Keys : Opened(a, ks)[k].open <=> a[k].open \/ k \in ks
<1>1. Empty \in Kept /\ Empty.open
  BY DEF Empty, Kept
<1> QED
  BY <1>1 DEF Opened

LEMMA FillsAre ==
  ASSUME NEW m \in Marks, NEW s \in Symbols, NEW obs,
         NEW to \in Int, to <= Bucket(MaxClock)
  PROVE  /\ Reaching(s, obs, m, to) \in -1..Bucket(MaxClock)
         /\ m[s] <= Reaching(s, obs, m, to)
         /\ m[s] = -1 => Reaching(s, obs, m, to) = -1
         /\ Dense(s, obs) /\ m[s] # -1 => to <= Reaching(s, obs, m, to)
         /\ Fills(s, obs, m, to) \subseteq Keys
         /\ \A b \in Int : m[s] < b /\ b <= Reaching(s, obs, m, to) =>
              <<s, b>> \in Fills(s, obs, m, to)
         /\ \A k \in Fills(s, obs, m, to) : k[1] = s
<1>1. /\ Reaching(s, obs, m, to) \in -1..Bucket(MaxClock)
      /\ m[s] <= Reaching(s, obs, m, to) /\ m[s] \in -1..Bucket(MaxClock)
      /\ m[s] = -1 => Reaching(s, obs, m, to) = -1
      /\ Dense(s, obs) /\ m[s] # -1 => to <= Reaching(s, obs, m, to)
  BY BucketIn DEF Reaching, Marks, Most
<1>2. \A b \in (m[s] + 1)..Reaching(s, obs, m, to) : b \in Buckets
  BY <1>1, BucketIn DEF Buckets
<1> QED
  BY <1>1, <1>2 DEF Fills, Keys

LEMMA QuietAre ==
  ASSUME NEW m \in Marks, NEW mark \in Int, mark <= MaxClock
  PROVE  /\ QuietFills(m, mark) \subseteq Keys /\ QuietReached(m, mark) \in Marks
         /\ \A s \in Symbols :
              /\ m[s] <= QuietReached(m, mark)[s]
              /\ m[s] = -1 => QuietReached(m, mark)[s] = -1
              /\ \A b \in Int : m[s] < b /\ b <= QuietReached(m, mark)[s] =>
                   <<s, b>> \in QuietFills(m, mark)
<1>1. Through(mark) \in Int /\ Through(mark) <= Bucket(MaxClock)
  <2>1. Width \in Nat \ {0} /\ MaxClock \in Int /\ mark - Width \in Int /\ mark - Width <= MaxClock
    BY RuntimeAssumption
  <2> QED
    BY <2>1, BucketMono DEF Through
<1> DEFINE r(s) == Reaching(s, observed, m, Through(mark))
           f(s) == Fills(s, observed, m, Through(mark))
<1>2. \A s \in Symbols :
        /\ r(s) \in -1..Bucket(MaxClock) /\ m[s] <= r(s) /\ (m[s] = -1 => r(s) = -1)
        /\ f(s) \subseteq Keys
        /\ \A b \in Int : m[s] < b /\ b <= r(s) => <<s, b>> \in f(s)
  BY <1>1, FillsAre
<1>3. CASE Settled(mark)
  <2>1. QuietFills(m, mark) = {} /\ QuietReached(m, mark) = m
    BY <1>3 DEF QuietFills, QuietReached
  <2>2. \A s \in Symbols : m[s] \in Int
    BY BucketIn DEF Marks
  <2> QED
    BY <2>1, <2>2
<1>4. CASE ~Settled(mark)
  <2>1. /\ QuietFills(m, mark) = UNION {f(s) : s \in Symbols}
        /\ QuietReached(m, mark) = [s \in Symbols |-> r(s)]
    BY <1>4 DEF QuietFills, QuietReached
  <2> HIDE DEF r, f
  <2>2. QuietReached(m, mark) \in Marks
    BY <1>2, <2>1 DEF Marks
  <2> QED
    BY <1>2, <2>1, <2>2
<1> QED
  BY <1>3, <1>4

-------------------------------------------------------------------------------
(* The durable close: a bucket keeps its deadline or its row is on its way.    *)
LEMMA EndIsInt ==
  \A k \in Keys : End(k[2]) \in Int
<1> SUFFICES ASSUME NEW k \in Keys PROVE End(k[2]) \in Int
  OBVIOUS
<1>1. k[2] \in Int /\ Width \in Int
  BY RuntimeAssumption, BucketIn DEF Keys, Buckets
<1> QED
  BY <1>1 DEF End

Queued(k) ==
  \E c : (Has(queue, c) \/ Has(step.todo, c)) /\ \E st \in c.states : st.key = k

AfterStores(q, a, ready, todo) ==
  /\ acc' \in [Keys -> Kept] /\ incomplete' \subseteq Keys
  /\ \A k \in Keys : acc'[k].open <=> a[k].open /\ k \notin ready
  /\ queue' \in Seq(Command) /\ Len(queue') <= QueueRoom
  /\ step' \in [at : {"idle", "rows"}, event : {<<>>}, todo : Seq(Command), states : {{}}]
  /\ step'.at = "idle" => step'.todo = <<>>
  /\ \A c : Has(q, c) => Has(queue', c)
  /\ \A c : Has(todo, c) => Has(queue', c) \/ Has(step'.todo, c)

AfterCloses(q, a, due, mark) ==
  /\ acc' \in [Keys -> Kept] /\ incomplete' \subseteq Keys
  /\ \A k \in Keys : acc'[k].open => a[k].open
  /\ \A k \in Keys : a[k].open /\ ~acc'[k].open => k \in due /\ End(k[2]) <= mark
  /\ \A k \in Keys : k \in durDue' <=> k \in due /\ End(k[2]) > mark
  /\ durDue' \subseteq due
  /\ queue' \in Seq(Command) /\ Len(queue') <= QueueRoom
  /\ step' \in [at : {"idle", "build", "rows"}, event : {<<>>}, todo : Seq(Command),
                states : {{}}]
  /\ step'.at = "idle" => step'.todo = <<>>
  /\ \A c : Has(q, c) => Has(queue', c)
  /\ \A k \in due : k \in durDue' \/ Queued(k)'
  /\ step'.at = "build" =>
       /\ \A n \in DOMAIN step'.todo : step'.todo[n].kind = "rows"
       /\ Closing' = {k \in due : End(k[2]) <= mark}
  /\ \A k \in due : acc'[k].open => k \in durDue' \/ (step'.at = "build" /\ k \in Closing')

LEMMA StoresAre ==
  ASSUME NEW q \in Seq(Command), Len(q) <= QueueRoom, NEW a \in [Keys -> Kept],
         NEW ready \in SUBSET Keys, NEW inc \in SUBSET Keys, NEW todo \in Seq(Command),
         Stores(q, a, ready, inc, todo)
  PROVE  AfterStores(q, a, ready, todo)
<1>1. /\ acc' = [k \in Keys |-> IF k \in ready THEN NoBucket ELSE a[k]]
      /\ incomplete' \subseteq inc /\ PutAll(q, todo)
  BY DEF Stores
<1>2. NoBucket \in Kept /\ ~NoBucket.open
  BY DEF NoBucket, Kept
<1>3. /\ acc' \in [Keys -> Kept]
      /\ \A k \in Keys : acc'[k].open <=> a[k].open /\ k \notin ready
  BY <1>1, <1>2
<1> QED
  BY <1>1, <1>3, PutAllMoves DEF AfterStores

LEMMA ClosesAre ==
  ASSUME NEW q \in Seq(Command), Len(q) <= QueueRoom, NEW a \in [Keys -> Kept],
         NEW due \in SUBSET Keys, \A k \in due : a[k].open,
         NEW mark \in Int, NEW inc \in SUBSET Keys, ClosesDurably(q, a, due, mark, inc)
  PROVE  AfterCloses(q, a, due, mark)
<1> DEFINE ready == {k \in due : a[k].open /\ End(k[2]) <= mark}
           kept  == {k \in inc : a[k].open \/ End(k[2]) > mark}
           shots == Snapshots(a, ready, inc)
           todo  == Batches(shots)
<1>1. /\ durDue' = {k \in due : End(k[2]) > mark}
      /\ \/ Stores(q, a, ready, kept, todo)
         \/ acc' = a /\ incomplete' = kept /\ queue' = q /\ step' = AtBuild(todo)
  BY DEF ClosesDurably
<1>2. /\ ready \in SUBSET Keys /\ ready = {k \in due : End(k[2]) <= mark}
      /\ kept \in SUBSET Keys
      /\ \A k \in due : k \in ready <=> ~(End(k[2]) > mark)
  BY EndIsInt
<1> HIDE DEF ready, kept
<1>3. /\ shots \subseteq State /\ Unique(shots)
      /\ \A k \in ready : \E st \in shots : st.key = k
  <2>1. ready \in SUBSET Keys
    BY <1>2
  <2> QED
    BY <2>1, SnapshotsAre
<1>4. /\ todo \in Seq(Command)
      /\ \A st \in shots : \E n \in DOMAIN todo : st \in todo[n].states
      /\ \A n \in DOMAIN todo : todo[n].kind = "rows"
  BY <1>3, BatchesAre, BatchesTake
<1>5. Takes(todo) = ready
  BY <1>2, SnapshotsTake
<1> HIDE DEF shots, todo
<1>6. ASSUME \A c : Has(todo, c) => Has(queue', c) \/ Has(step'.todo, c)
      PROVE  \A k \in due : k \in durDue' \/ Queued(k)'
  <2> SUFFICES ASSUME NEW k \in ready PROVE Queued(k)'
    BY <1>1, <1>2
  <2>1. PICK st \in shots : st.key = k
    BY <1>3
  <2>2. PICK n \in DOMAIN todo : st \in todo[n].states
    BY <1>4
  <2>3. Has(queue', todo[n]) \/ Has(step'.todo, todo[n])
    BY <1>6 DEF Has
  <2> QED
    BY <2>1, <2>2, <2>3 DEF Queued
<1>7. CASE Stores(q, a, ready, kept, todo)
  <2>1. /\ acc' \in [Keys -> Kept] /\ incomplete' \subseteq Keys
        /\ \A k \in Keys : acc'[k].open <=> a[k].open /\ k \notin ready
        /\ queue' \in Seq(Command) /\ Len(queue') <= QueueRoom
        /\ step' \in [at : {"idle", "rows"}, event : {<<>>}, todo : Seq(Command), states : {{}}]
        /\ step'.at = "idle" => step'.todo = <<>>
        /\ \A c : Has(q, c) => Has(queue', c)
        /\ \A c : Has(todo, c) => Has(queue', c) \/ Has(step'.todo, c)
    <3>1. ready \in SUBSET Keys /\ kept \in SUBSET Keys /\ todo \in Seq(Command)
      BY <1>2, <1>4
    <3>2. Stores(q, a, ready, kept, todo) /\ Len(q) <= QueueRoom
      BY <1>7
    <3>3. AfterStores(q, a, ready, todo)
      BY <3>1, <3>2, StoresAre, Zenon
    <3> QED
      BY <3>3 DEF AfterStores
  <2>2. step' \in [at : {"idle", "build", "rows"}, event : {<<>>}, todo : Seq(Command),
                   states : {{}}] /\ step'.at # "build"
    BY <2>1
  <2>3. \A k \in due : k \in durDue' \/ Queued(k)'
    BY <1>6, <2>1
  <2> QED
    BY <1>1, <1>2, <2>1, <2>2, <2>3 DEF AfterCloses
<1>8. CASE acc' = a /\ incomplete' = kept /\ queue' = q /\ step' = AtBuild(todo)
  <2>1. step' = [at |-> "build", event |-> <<>>, todo |-> todo, states |-> {}]
    BY <1>8 DEF AtBuild
  <2>2. Closing' = ready /\ \A c : Has(todo, c) => Has(step'.todo, c)
    BY <1>5, <2>1 DEF Closing, Takes
  <2>3. \A k \in due : k \in durDue' \/ Queued(k)'
    BY <1>6, <2>2
  <2> QED
    BY <1>1, <1>2, <1>4, <1>8, <2>1, <2>2, <2>3 DEF AfterCloses
<1> QED
  BY <1>1, <1>7, <1>8

-------------------------------------------------------------------------------
(* One event.  Here is where a bucket is that has not been stored.             *)
Here(k) == k \in durDue \/ Queued(k)

(* Why an accumulator is still open: it has its deadline, or its rows are      *)
(* built, or were when the connection was cut.                                 *)
Left(k) ==
  k \in durDue \/ k \in unstored \/ (step.at = "build" /\ k \in Closing)

LEMMA AddedIs ==
  ASSUME NEW a \in [Keys -> Kept], NEW e \in Event
  PROVE  /\ <<e.sym, Bucket(e.at)>> \in Keys
         /\ Added(a, e) \in [Keys -> Kept]
         /\ \A k \in Keys : Added(a, e)[k].open <=> a[k].open \/ k = <<e.sym, Bucket(e.at)>>
<1> DEFINE key == <<e.sym, Bucket(e.at)>>
           new == [open |-> TRUE,
                   trades |-> IF e.id = 0 THEN a[key].trades ELSE a[key].trades \cup {e.id},
                   quote |-> a[key].quote \/ e.id = 0]
<1>1. key \in Keys /\ e.id \in Nat
  BY BucketIn DEF Event, Keys
<1> HIDE DEF key
<1>2. new \in Kept
  <2>1. a[key] \in Kept
    BY <1>1
  <2>2. (a[key].quote \/ e.id = 0) \in BOOLEAN
    OBVIOUS
  <2>3. (IF e.id = 0 THEN a[key].trades ELSE a[key].trades \cup {e.id}) \in SUBSET Nat
    BY <1>1, <2>1 DEF Kept
  <2> QED
    BY <2>2, <2>3 DEF Kept
<1>3. Added(a, e) = [a EXCEPT ![key] = new]
  BY DEF Added, key
<1>4. new.open
  OBVIOUS
<1> HIDE DEF new
<1>5. Added(a, e) \in [Keys -> Kept]
  BY <1>1, <1>2, <1>3
<1>6. \A k \in Keys : Added(a, e)[k].open <=> a[k].open \/ k = key
  BY <1>1, <1>3, <1>4
<1> QED
  BY <1>1, <1>5, <1>6 DEF key

LEMMA ObservesAre ==
  ASSUME TypeInv, NEW e \in Event, NEW q \in Seq(Command), Len(q) <= QueueRoom,
         NEW inc \in SUBSET Keys, Observes(e, q, inc)
  PROVE  /\ maxSeen' \in -1..MaxClock /\ observed' \subseteq Symbols
         /\ lastMat' \in Marks /\ start' \in Marks
         /\ acc' \in [Keys -> Kept] /\ incomplete' \subseteq Keys
         /\ rtDue' \subseteq Keys /\ durDue' \subseteq Keys
         /\ \A k \in rtDue' \cup durDue' : acc'[k].open
         /\ queue' \in Seq(Command) /\ Len(queue') <= QueueRoom
         /\ step' \in [at : {"idle", "sink", "build", "rows"}, event : {<<>>},
                       todo : Seq(Command), states : SUBSET State]
         /\ step'.at \in {"idle", "sink"} => step'.todo = <<>>
         /\ step'.at \in {"sink", "build"} => \A k \in rtDue' : End(k[2]) > maxSeen' - RtDelay
         /\ step'.at = "build" => BuildInv'
         /\ \A c : Has(q, c) => Has(queue', c)
         /\ \A k \in durDue : Here(k)'
         /\ \A k \in Keys : acc'[k].open => (acc[k].open /\ k \notin durDue) \/ Left(k)'
         /\ \A s \in Symbols, b \in Int :
              s \in expected /\ start'[s] # -1 /\ start'[s] <= b /\ b <= lastMat'[s] =>
                \/ start[s] # -1 /\ start[s] <= b /\ b <= lastMat[s]
                \/ Here(<<s, b>>)' \/ (<<s, b>> \in Keys /\ acc[<<s, b>>].open)
<1> DEFINE max   == Most(maxSeen, e.at)
           rt    == max - RtDelay
           dur   == max - DurDelay
           key   == <<e.sym, Bucket(e.at)>>
           quiet == QuietFills(lastMat, rt)
           m1    == QuietReached(lastMat, rt)
           a1    == Opened(acc, quiet)
           obs   == observed \cup {e.sym}
           before == Fills(e.sym, obs, m1, key[2] - 1)
           reached == Reaching(e.sym, obs, m1, key[2] - 1)
           a2    == Added(Opened(a1, before), e)
           new   == Newly(acc, quiet) \cup Newly(a1, before) \cup Newly(a1, {key} \ before)
           due   == rtDue \cup new
           ready == {k \in due : End(k[2]) <= rt /\ a2[k].open}
<1>1. /\ maxSeen' = max
      /\ \/ /\ acc' = a1 /\ lastMat' = m1 /\ rtDue' = rtDue \cup Newly(acc, quiet)
            /\ durDue' = durDue \cup Newly(acc, quiet)
            /\ incomplete' = inc /\ queue' = q /\ step' = Idle
            /\ UNCHANGED <<observed, start>>
         \/ /\ observed' = obs
            /\ lastMat' = Remember([m1 EXCEPT ![e.sym] = reached], key)
            /\ start' = [start EXCEPT ![e.sym] = IF lastMat[e.sym] = -1 THEN key[2] ELSE @]
            /\ rtDue' = {k \in due : End(k[2]) > rt}
            /\ \/ /\ acc' = a2 /\ queue' = q /\ incomplete' = inc
                  /\ durDue' = durDue \cup new
                  /\ step' = AtSink(Snapshots(a2, ready, inc))
               \/ ClosesDurably(q, a2, durDue \cup new, dur, inc)
  BY DEF Observes
<1>2. /\ max \in 0..MaxClock /\ rt \in Int /\ dur \in Int /\ dur <= rt /\ rt <= MaxClock
      /\ e.sym \in Symbols /\ e.at \in 0..MaxClock
  <2>1. RtDelay \in Nat /\ DurDelay \in Nat /\ RtDelay <= DurDelay /\ MaxClock \in Nat
    BY RuntimeAssumption
  <2>2. maxSeen \in -1..MaxClock
    BY DEF TypeInv, TypeOK
  <2>3. e.sym \in Symbols /\ e.at \in 0..MaxClock
    BY DEF Event
  <2>4. max \in 0..MaxClock
    BY <2>1, <2>2, <2>3 DEF Most
  <2> QED
    BY <2>1, <2>3, <2>4
<1>3. key \in Keys /\ key[1] = e.sym /\ key[2] \in 0..Bucket(MaxClock) /\ key = <<e.sym, key[2]>>
  BY <1>2, BucketIn DEF Keys, Buckets
<1>4. /\ lastMat \in Marks /\ start \in Marks /\ acc \in [Keys -> Kept]
      /\ observed \subseteq Symbols /\ rtDue \subseteq Keys /\ durDue \subseteq Keys
      /\ \A k \in rtDue \cup durDue : acc[k].open
  BY DEF TypeInv, TypeOK, PlaceInv, Marks, Kept, Open
<1> HIDE DEF max, rt, dur, key, obs
<1>5. /\ quiet \subseteq Keys /\ m1 \in Marks
      /\ \A s \in Symbols :
           /\ lastMat[s] <= m1[s] /\ (lastMat[s] = -1 => m1[s] = -1)
           /\ \A b \in Int : lastMat[s] < b /\ b <= m1[s] => <<s, b>> \in quiet
  BY <1>2, <1>4, QuietAre
<1> HIDE DEF quiet, m1
<1>6. /\ a1 \in [Keys -> Kept]
      /\ \A k \in Keys : a1[k].open <=> acc[k].open \/ k \in quiet
  BY <1>4, OpenedAre
<1> HIDE DEF a1
<1>7. /\ before \subseteq Keys /\ reached \in -1..Bucket(MaxClock)
      /\ m1[e.sym] <= reached /\ (m1[e.sym] = -1 => reached = -1)
      /\ Dense(e.sym, obs) /\ m1[e.sym] # -1 => key[2] - 1 <= reached
      /\ \A b \in Int : m1[e.sym] < b /\ b <= reached => <<e.sym, b>> \in before
  <2>1. key[2] - 1 \in Int /\ key[2] - 1 <= Bucket(MaxClock)
    BY <1>3, BucketIn
  <2> QED
    BY <1>2, <1>5, <2>1, FillsAre
<1> HIDE DEF before, reached
<1>8. /\ a2 \in [Keys -> Kept]
      /\ \A k \in Keys :
           a2[k].open <=> acc[k].open \/ k \in quiet \/ k \in before \/ k = key
  <2>1. /\ Opened(a1, before) \in [Keys -> Kept]
        /\ \A k \in Keys : Opened(a1, before)[k].open <=> a1[k].open \/ k \in before
    BY <1>6, OpenedAre
  <2> QED
    BY <1>6, <2>1, AddedIs DEF key
<1> HIDE DEF a2
<1>9. /\ due \subseteq Keys /\ durDue \cup new \subseteq Keys
      /\ \A k \in due \cup durDue \cup new : a2[k].open
      /\ \A k \in Keys : a2[k].open => acc[k].open \/ k \in new
  <2>1. /\ new \subseteq Keys /\ \A k \in new : a2[k].open
        /\ \A k \in Keys : a2[k].open => acc[k].open \/ k \in new
    BY <1>3, <1>5, <1>6, <1>7, <1>8 DEF Newly
  <2> HIDE DEF new
  <2> QED
    BY <1>4, <1>8, <2>1
<1>10. /\ Newly(acc, quiet) \subseteq Keys
       /\ \A k \in rtDue \cup durDue \cup Newly(acc, quiet) : a1[k].open
       /\ \A k \in Keys : a1[k].open => acc[k].open \/ k \in Newly(acc, quiet)
  BY <1>4, <1>5, <1>6 DEF Newly
<1> HIDE DEF due, new
<1> DEFINE Spanned(s, b) == start'[s] # -1 /\ start'[s] <= b /\ b <= lastMat'[s]
           Old(s, b) == start[s] # -1 /\ start[s] <= b /\ b <= lastMat[s]
<1>11. CASE /\ acc' = a1 /\ lastMat' = m1 /\ rtDue' = rtDue \cup Newly(acc, quiet)
            /\ durDue' = durDue \cup Newly(acc, quiet)
            /\ incomplete' = inc /\ queue' = q /\ step' = Idle
            /\ UNCHANGED <<observed, start>>
  <2>1. step' = [at |-> "idle", event |-> <<>>, todo |-> <<>>, states |-> {}]
    BY <1>11 DEF Idle
  <2>2. step' \in [at : {"idle", "sink", "build", "rows"}, event : {<<>>},
                   todo : Seq(Command), states : SUBSET State]
        /\ step'.at = "idle" /\ step'.todo = <<>>
    <3>1. <<>> \in Seq(Command)
      OBVIOUS
    <3> QED
      BY <2>1, <3>1
  <2>3. ASSUME NEW s \in Symbols, NEW b \in Int, Spanned(s, b)
        PROVE  Old(s, b) \/ Here(<<s, b>>)' \/ (<<s, b>> \in Keys /\ acc[<<s, b>>].open)
    <3>1. lastMat[s] \in Int /\ m1[s] \in Int
      BY <1>4, <1>5, BucketIn DEF Marks
    <3>2. CASE b <= lastMat[s]
      BY <1>11, <2>3, <3>2
    <3>3. CASE lastMat[s] < b
      <4>1. <<s, b>> \in quiet /\ <<s, b>> \in Keys
        BY <1>5, <1>11, <2>3, <3>3
      <4>2. acc[<<s, b>>].open \/ <<s, b>> \in durDue'
        BY <1>6, <1>10, <1>11, <4>1
      <4> QED
        BY <4>1, <4>2 DEF Here
    <3> QED
      BY <2>3, <3>1, <3>2, <3>3
  <2>4. /\ \A k \in durDue : Here(k)'
        /\ \A k \in Keys : acc'[k].open => (acc[k].open /\ k \notin durDue) \/ Left(k)'
    BY <1>10, <1>11 DEF Here, Left
  <2> HIDE DEF Spanned, Old
  <2>5. maxSeen' \in -1..MaxClock
    BY <1>1, <1>2
  <2>6. /\ rtDue' \subseteq Keys /\ durDue' \subseteq Keys
        /\ \A k \in rtDue' \cup durDue' : acc'[k].open
    BY <1>4, <1>10, <1>11
  <2>7. /\ lastMat' \in Marks /\ start' \in Marks /\ observed' \subseteq Symbols
        /\ acc' \in [Keys -> Kept] /\ incomplete' \subseteq Keys
        /\ queue' \in Seq(Command) /\ Len(queue') <= QueueRoom
        /\ \A c : Has(q, c) => Has(queue', c)
    BY <1>4, <1>5, <1>6, <1>11
  <2> QED
    BY <2>2, <2>3, <2>4, <2>5, <2>6, <2>7 DEF Spanned, Old
<1>12. ASSUME /\ observed' = obs
              /\ lastMat' = Remember([m1 EXCEPT ![e.sym] = reached], key)
              /\ start' = [start EXCEPT ![e.sym] = IF lastMat[e.sym] = -1 THEN key[2] ELSE @]
              /\ rtDue' = {k \in due : End(k[2]) > rt}
       PROVE  /\ observed' \subseteq Symbols /\ lastMat' \in Marks /\ start' \in Marks
              /\ \A s \in Symbols, b \in Int :
                   s \in expected /\ Spanned(s, b) =>
                     Old(s, b) \/ (<<s, b>> \in Keys /\ a2[<<s, b>>].open)
  <2>1. observed' \subseteq Symbols
    BY <1>2, <1>4, <1>12 DEF obs
  <2>2. /\ lastMat' \in Marks /\ lastMat'[e.sym] = Most(reached, key[2])
        /\ \A s \in Symbols : s # e.sym => lastMat'[s] = m1[s]
    BY <1>2, <1>3, <1>5, <1>7, <1>12 DEF Remember, Marks, Most
  <2>3. /\ start' \in Marks
        /\ start'[e.sym] = IF lastMat[e.sym] = -1 THEN key[2] ELSE start[e.sym]
        /\ \A s \in Symbols : s # e.sym => start'[s] = start[s]
    BY <1>2, <1>3, <1>4, <1>12 DEF Marks
  <2>4. ASSUME NEW s \in Symbols, NEW b \in Int, s \in expected, Spanned(s, b)
        PROVE  Old(s, b) \/ (<<s, b>> \in Keys /\ a2[<<s, b>>].open)
    <3>1. lastMat[s] \in -1..Bucket(MaxClock) /\ m1[s] \in -1..Bucket(MaxClock)
          /\ reached \in -1..Bucket(MaxClock) /\ Bucket(MaxClock) \in Nat
      BY <1>4, <1>5, <1>7, BucketIn DEF Marks
    <3>2. lastMat[s] < b /\ b <= m1[s] => <<s, b>> \in Keys /\ a2[<<s, b>>].open
      BY <1>5, <1>8
    <3>3. CASE s # e.sym
      <4>1. start'[s] = start[s] /\ lastMat'[s] = m1[s]
        BY <2>2, <2>3, <3>3
      <4> QED
        BY <2>4, <3>1, <3>2, <4>1
    <3>4. CASE s = e.sym
      <4>1. m1[s] < b /\ b <= reached => <<s, b>> \in Keys /\ a2[<<s, b>>].open
        BY <1>7, <1>8, <3>4
      <4>2. b = key[2] => <<s, b>> \in Keys /\ a2[<<s, b>>].open
        BY <1>3, <1>8, <3>4
      <4>3. CASE lastMat[s] = -1
        <5>1. start'[s] = key[2] /\ reached = -1 /\ lastMat'[s] = key[2]
          BY <1>3, <1>5, <1>7, <2>2, <2>3, <3>4, <4>3 DEF Most
        <5>2. b = key[2]
          BY <1>3, <2>4, <5>1
        <5> QED
          BY <4>2, <5>2
      <4>4. CASE lastMat[s] # -1
        <5>1. start'[s] = start[s] /\ lastMat'[s] = Most(reached, key[2])
          BY <2>2, <2>3, <3>4, <4>4
        <5>2. m1[s] # -1 /\ key[2] - 1 <= reached
          <6>1. m1[s] # -1
            BY <1>5, <3>1, <4>4
          <6>2. Dense(e.sym, obs)
            BY <2>4, <3>4 DEF Dense, obs
          <6> QED
            BY <1>7, <3>4, <6>1, <6>2
        <5>3. b <= reached \/ b = key[2]
          BY <1>3, <2>4, <3>1, <5>1, <5>2 DEF Most
        <5> QED
          BY <2>4, <3>1, <3>2, <4>1, <4>2, <5>1, <5>3
      <4> QED
        BY <4>3, <4>4
    <3> QED
      BY <3>3, <3>4
  <2> QED
    BY <2>1, <2>2, <2>3, <2>4
<1>13. ASSUME /\ rtDue' = {k \in due : End(k[2]) > rt}
              /\ acc' = a2 /\ queue' = q /\ incomplete' = inc
              /\ durDue' = durDue \cup new
              /\ step' = AtSink(Snapshots(a2, ready, inc))
       PROVE  /\ step' \in [at : {"idle", "sink", "build", "rows"}, event : {<<>>},
                            todo : Seq(Command), states : SUBSET State]
              /\ step'.todo = <<>> /\ step'.at = "sink"
              /\ \A k \in durDue \cup new : Here(k)'
              /\ \A k \in Keys : acc'[k].open => (acc[k].open /\ k \notin durDue) \/ Left(k)'
              /\ durDue' \subseteq Keys /\ \A k \in rtDue' \cup durDue' : acc'[k].open
              /\ \A k \in rtDue' : End(k[2]) > rt
  <2>1. ready \in SUBSET Keys
    BY <1>9
  <2> HIDE DEF ready
  <2>2. Snapshots(a2, ready, inc) \subseteq State
    BY <1>8, <2>1, SnapshotsAre
  <2>3. <<>> \in Seq(Command)
    OBVIOUS
  <2>4. step' = [at |-> "sink", event |-> <<>>, todo |-> <<>>,
                 states |-> Snapshots(a2, ready, inc)]
    BY <1>13 DEF AtSink
  <2> QED
    BY <1>9, <1>13, <2>2, <2>3, <2>4 DEF Here, Left
<1>14. ASSUME /\ maxSeen' = max /\ rtDue' = {k \in due : End(k[2]) > rt}
              /\ ClosesDurably(q, a2, durDue \cup new, dur, inc)
       PROVE  /\ acc' \in [Keys -> Kept] /\ incomplete' \subseteq Keys
              /\ queue' \in Seq(Command) /\ Len(queue') <= QueueRoom
              /\ step' \in [at : {"idle", "sink", "build", "rows"}, event : {<<>>},
                            todo : Seq(Command), states : SUBSET State]
              /\ step'.at \in {"idle", "sink"} => step'.todo = <<>>
              /\ step'.at = "build" => BuildInv'
              /\ \A c : Has(q, c) => Has(queue', c)
              /\ \A k \in durDue \cup new : Here(k)'
              /\ \A k \in Keys : acc'[k].open => (acc[k].open /\ k \notin durDue) \/ Left(k)'
              /\ durDue' \subseteq Keys /\ \A k \in rtDue' \cup durDue' : acc'[k].open
              /\ \A k \in rtDue' : End(k[2]) > rt
  <2> DEFINE D == durDue \cup new
  <2>1. D \in SUBSET Keys /\ \A k \in D : a2[k].open
    BY <1>9
  <2>2. ClosesDurably(q, a2, D, dur, inc)
    BY <1>14
  <2>3. \A k \in Keys : a2[k].open => (acc[k].open /\ k \notin durDue) \/ k \in D
    BY <1>9
  <2> HIDE DEF D
  <2>4. /\ acc' \in [Keys -> Kept] /\ incomplete' \subseteq Keys
        /\ \A k \in Keys : acc'[k].open => a2[k].open
        /\ \A k \in Keys : a2[k].open /\ ~acc'[k].open => k \in D /\ End(k[2]) <= dur
        /\ \A k \in Keys : k \in durDue' <=> k \in D /\ End(k[2]) > dur
        /\ durDue' \subseteq D
        /\ queue' \in Seq(Command) /\ Len(queue') <= QueueRoom
        /\ step' \in [at : {"idle", "build", "rows"}, event : {<<>>}, todo : Seq(Command),
                      states : {{}}]
        /\ step'.at = "idle" => step'.todo = <<>>
        /\ \A c : Has(q, c) => Has(queue', c)
        /\ \A k \in D : k \in durDue' \/ Queued(k)'
        /\ step'.at = "build" =>
             /\ \A n \in DOMAIN step'.todo : step'.todo[n].kind = "rows"
             /\ Closing' = {k \in D : End(k[2]) <= dur}
        /\ \A k \in D :
             acc'[k].open => k \in durDue' \/ (step'.at = "build" /\ k \in Closing')
    <3>1. AfterCloses(q, a2, D, dur)
      BY <1>2, <1>8, <2>1, <2>2, ClosesAre
    <3> QED
      BY <3>1 DEF AfterCloses
  <2>5. ASSUME NEW k \in rtDue' PROVE acc'[k].open /\ End(k[2]) > rt
    <3>1. k \in Keys /\ a2[k].open /\ End(k[2]) > rt
      BY <1>9, <1>14, <2>5
    <3>2. ~(End(k[2]) <= dur)
      BY <1>2, <3>1, EndIsInt
    <3> QED
      BY <2>4, <3>1, <3>2
  <2>6. ASSUME NEW k \in durDue' PROVE k \in Keys /\ acc'[k].open
    <3>1. k \in D /\ k \in Keys /\ a2[k].open /\ End(k[2]) > dur
      BY <2>1, <2>4
    <3>2. ~(End(k[2]) <= dur)
      BY <1>2, <3>1, EndIsInt
    <3> QED
      BY <2>4, <3>1, <3>2
  <2>7. step'.at = "build" => BuildInv'
    <3> SUFFICES ASSUME step'.at = "build" PROVE BuildInv'
      OBVIOUS
    <3>1. maxSeen' - DurDelay = dur
      BY <1>14 DEF dur
    <3>2. ASSUME NEW k \in Closing'
          PROVE  k \in Keys /\ k \notin durDue' /\ End(k[2]) <= maxSeen' - DurDelay
      <4>1. k \in D /\ k \in Keys /\ End(k[2]) <= dur
        BY <2>1, <2>4
      <4>2. ~(End(k[2]) > dur)
        BY <1>2, <4>1, EndIsInt
      <4> QED
        BY <2>4, <3>1, <4>1, <4>2
    <3> QED
      BY <2>4, <3>2 DEF BuildInv
  <2>8. /\ step' \in [at : {"idle", "sink", "build", "rows"}, event : {<<>>},
                      todo : Seq(Command), states : SUBSET State]
        /\ step'.at \in {"idle", "sink"} => step'.todo = <<>>
    BY <2>4
  <2>9. \A k \in D : Here(k)'
    BY <2>4 DEF Here
  <2>10. \A k \in Keys : acc'[k].open => (acc[k].open /\ k \notin durDue) \/ Left(k)'
    BY <2>3, <2>4 DEF Left
  <2> QED
    BY <2>4, <2>5, <2>6, <2>7, <2>8, <2>9, <2>10 DEF D
<1>15. CASE ~(/\ acc' = a1 /\ lastMat' = m1 /\ rtDue' = rtDue \cup Newly(acc, quiet)
              /\ durDue' = durDue \cup Newly(acc, quiet)
              /\ incomplete' = inc /\ queue' = q /\ step' = Idle
              /\ UNCHANGED <<observed, start>>)
  <2>1. maxSeen' \in -1..MaxClock /\ maxSeen' - RtDelay = rt
    BY <1>1, <1>2 DEF rt
  <2>2. /\ observed' = obs
        /\ lastMat' = Remember([m1 EXCEPT ![e.sym] = reached], key)
        /\ start' = [start EXCEPT ![e.sym] = IF lastMat[e.sym] = -1 THEN key[2] ELSE @]
        /\ rtDue' = {k \in due : End(k[2]) > rt}
    BY <1>1, <1>15
  <2>3. /\ observed' \subseteq Symbols /\ lastMat' \in Marks /\ start' \in Marks
        /\ \A s \in Symbols, b \in Int :
             s \in expected /\ Spanned(s, b) =>
               Old(s, b) \/ (<<s, b>> \in Keys /\ a2[<<s, b>>].open)
    BY <1>12, <2>2
  <2> HIDE DEF Spanned, Old
  <2>4. \A s \in Symbols, b \in Int :
          s \in expected /\ Spanned(s, b) =>
            Old(s, b) \/ (<<s, b>> \in Keys /\ (acc[<<s, b>>].open \/ <<s, b>> \in new))
    BY <1>9, <2>3
  <2>5. rtDue' \subseteq Keys
    BY <1>9, <2>2
  <2>6. ASSUME \A k \in durDue \cup new : Here(k)'
        PROVE  /\ \A k \in durDue : Here(k)'
               /\ \A s \in Symbols, b \in Int :
                    s \in expected /\ Spanned(s, b) =>
                      Old(s, b) \/ Here(<<s, b>>)' \/ (<<s, b>> \in Keys /\ acc[<<s, b>>].open)
    BY <2>4, <2>6
  <2>7. CASE /\ acc' = a2 /\ queue' = q /\ incomplete' = inc /\ durDue' = durDue \cup new
             /\ step' = AtSink(Snapshots(a2, ready, inc))
    <3>1. /\ step' \in [at : {"idle", "sink", "build", "rows"}, event : {<<>>},
                        todo : Seq(Command), states : SUBSET State]
          /\ step'.todo = <<>> /\ step'.at = "sink"
          /\ \A k \in durDue \cup new : Here(k)'
          /\ \A k \in Keys : acc'[k].open => (acc[k].open /\ k \notin durDue) \/ Left(k)'
          /\ durDue' \subseteq Keys /\ \A k \in rtDue' \cup durDue' : acc'[k].open
          /\ \A k \in rtDue' : End(k[2]) > rt
      BY <1>13, <2>2, <2>7
    <3> HIDE DEF ready
    <3>2. acc' \in [Keys -> Kept] /\ queue' \in Seq(Command) /\ Len(queue') <= QueueRoom
          /\ incomplete' \subseteq Keys
          /\ \A c : Has(q, c) => Has(queue', c)
      BY <1>8, <2>7
    <3> QED
      BY <2>1, <2>3, <2>5, <2>6, <3>1, <3>2 DEF Spanned, Old
  <2>8. CASE ClosesDurably(q, a2, durDue \cup new, dur, inc)
    <3>1. /\ acc' \in [Keys -> Kept] /\ incomplete' \subseteq Keys
          /\ queue' \in Seq(Command) /\ Len(queue') <= QueueRoom
          /\ step' \in [at : {"idle", "sink", "build", "rows"}, event : {<<>>},
                        todo : Seq(Command), states : SUBSET State]
          /\ step'.at \in {"idle", "sink"} => step'.todo = <<>>
          /\ step'.at = "build" => BuildInv'
          /\ \A c : Has(q, c) => Has(queue', c)
          /\ \A k \in durDue \cup new : Here(k)'
          /\ \A k \in Keys : acc'[k].open => (acc[k].open /\ k \notin durDue) \/ Left(k)'
          /\ durDue' \subseteq Keys /\ \A k \in rtDue' \cup durDue' : acc'[k].open
          /\ \A k \in rtDue' : End(k[2]) > rt
      BY <1>1, <1>14, <2>2, <2>8
    <3> QED
      BY <2>1, <2>3, <2>5, <2>6, <3>1 DEF Spanned, Old
  <2> QED
    BY <1>1, <1>15, <2>7, <2>8
<1> QED
  BY <1>11, <1>15

-------------------------------------------------------------------------------
(* The invariant: where the bucket of an expected symbol is.                   *)
InJob(k) == \E st \in job.states : st.key = k
Safe(k) == Here(k) \/ InJob(k) \/ Stored(k) \/ k \in unstored

KeptInv ==
  ~dead =>
    \A s \in expected, b \in Int :
      start[s] # -1 /\ start[s] <= b /\ b <= lastMat[s] => Safe(<<s, b>>)

OpenInv == \A k \in Keys : acc[k].open => Left(k)

RuntimeInv == TypeInv /\ KeptInv /\ OpenInv

LEMMA OpenStays ==
  ASSUME OpenInv, UNCHANGED <<acc, durDue, step, unstored>>
  PROVE  OpenInv'
  BY DEF OpenInv, Left, Closing

LEMMA StepStays ==
  ASSUME StepInv, UNCHANGED <<step, rtDue, durDue, durDue, maxSeen>>
  PROVE  StepInv'
  BY DEF StepInv, BuildInv, Closing

LEMMA RangeInKeys ==
  ASSUME TypeInv, NEW s \in expected, NEW b \in Int,
         start[s] # -1, start[s] <= b, b <= lastMat[s]
  PROVE  <<s, b>> \in Keys
<1>1. s \in Symbols /\ start[s] \in -1..Bucket(MaxClock) /\ lastMat[s] \in -1..Bucket(MaxClock)
  BY DEF TypeInv, TypeOK, PlaceInv
<1> QED
  BY <1>1, BucketIn DEF Keys, Buckets

(* A step that moves no mark keeps the invariant if it loses no bucket.        *)
LEMMA KeptStays ==
  ASSUME TypeInv, KeptInv, UNCHANGED <<expected, start, lastMat>>, ~dead' => ~dead,
         \A k \in Keys : Safe(k) => Safe(k)'
  PROVE  KeptInv'
<1> SUFFICES ASSUME ~dead, NEW s \in expected, NEW b \in Int,
                    start[s] # -1, start[s] <= b, b <= lastMat[s]
             PROVE  Safe(<<s, b>>)'
  BY DEF KeptInv
<1>1. <<s, b>> \in Keys
  BY RangeInKeys
<1>2. Safe(<<s, b>>)
  BY DEF KeptInv
<1> QED
  BY <1>1, <1>2

LEMMA KeptObserving ==
  ASSUME TypeInv, KeptInv, OpenInv, step.at # "build",
         NEW e \in Event, NEW q \in Seq(Command), Len(q) <= QueueRoom,
         NEW inc \in SUBSET Keys, Observes(e, q, inc),
         \A c : Has(queue, c) => Has(q, c),
         \A c : Has(step.todo, c) => c.states = {},
         UNCHANGED <<expected, job, dead, rows>>
  PROVE  KeptInv' /\ OpenInv'
<1>1. /\ \A c : Has(q, c) => Has(queue', c)
      /\ \A k \in durDue : Here(k)'
      /\ \A k \in Keys : acc'[k].open => (acc[k].open /\ k \notin durDue) \/ Left(k)'
      /\ \A s \in Symbols, b \in Int :
           s \in expected /\ start'[s] # -1 /\ start'[s] <= b /\ b <= lastMat'[s] =>
             \/ start[s] # -1 /\ start[s] <= b /\ b <= lastMat[s]
             \/ Here(<<s, b>>)' \/ (<<s, b>> \in Keys /\ acc[<<s, b>>].open)
  BY ObservesAre
<1>2. unstored' = unstored
  BY DEF Observes
<1>3. ASSUME NEW k \in Keys, Safe(k) PROVE Safe(k)'
  <2>1. CASE k \in durDue
    BY <1>1, <2>1 DEF Safe
  <2>2. CASE Queued(k)
    <3>1. PICK c : (Has(queue, c) \/ Has(step.todo, c)) /\ \E st \in c.states : st.key = k
      BY <2>2 DEF Queued
    <3>2. Has(queue', c)
      BY <1>1, <3>1
    <3> QED
      BY <3>1, <3>2 DEF Safe, Here, Queued
  <2>3. CASE InJob(k) \/ Stored(k) \/ k \in unstored
    BY <1>2, <2>3 DEF Safe, InJob, Stored
  <2> QED
    BY <1>3, <2>1, <2>2, <2>3 DEF Safe, Here
<1>7. \A k \in Keys : acc[k].open => k \in durDue \/ k \in unstored
  BY DEF OpenInv, Left
<1>8. OpenInv'
  BY <1>1, <1>2, <1>7 DEF OpenInv, Left
<1> SUFFICES ASSUME ~dead, NEW s \in expected, NEW b \in Int,
                    start'[s] # -1, start'[s] <= b, b <= lastMat'[s]
             PROVE  Safe(<<s, b>>)'
  BY <1>8 DEF KeptInv
<1>4. CASE Here(<<s, b>>)' \/ (<<s, b>> \in Keys /\ acc[<<s, b>>].open)
  BY <1>1, <1>2, <1>4, <1>7 DEF Safe
<1>5. CASE start[s] # -1 /\ start[s] <= b /\ b <= lastMat[s]
  <2>1. <<s, b>> \in Keys /\ Safe(<<s, b>>)
    BY <1>5, RangeInKeys DEF KeptInv
  <2> QED
    BY <1>3, <2>1
<1>6. s \in Symbols
  BY DEF TypeInv, TypeOK
<1> QED
  BY <1>1, <1>4, <1>5, <1>6

-------------------------------------------------------------------------------
(* Types after an event.                                                       *)
LEMMA CommandsAre ==
  \A c \in Command : IsCommand(c) /\ c.states \subseteq State
  BY DEF Command

LEMMA TypesObserving ==
  ASSUME TypeInv, NEW e \in Event, NEW q \in Seq(Command), Len(q) <= QueueRoom,
         NEW inc \in SUBSET Keys, Observes(e, q, inc),
         UNCHANGED <<clock, tape, expected, job, database>>,
         last' \in [Symbols -> Nat], sent' \in [Symbols -> Nat],
         \A s \in Symbols : sent'[s] <= Len(tape[s]) /\ last'[s] <= Len(tape[s])
  PROVE  TypeInv'
<1>1. /\ maxSeen' \in -1..MaxClock /\ observed' \subseteq Symbols
      /\ lastMat' \in Marks /\ start' \in Marks
      /\ acc' \in [Keys -> Kept] /\ incomplete' \subseteq Keys
      /\ rtDue' \subseteq Keys /\ durDue' \subseteq Keys
      /\ \A k \in rtDue' \cup durDue' : acc'[k].open
      /\ queue' \in Seq(Command) /\ Len(queue') <= QueueRoom
      /\ step' \in [at : {"idle", "sink", "build", "rows"}, event : {<<>>},
                    todo : Seq(Command), states : SUBSET State]
      /\ step'.at \in {"idle", "sink"} => step'.todo = <<>>
      /\ step'.at \in {"sink", "build"} => \A k \in rtDue' : End(k[2]) > maxSeen' - RtDelay
      /\ step'.at = "build" => BuildInv'
  BY ObservesAre
<1>2. \A n \in DOMAIN queue' : IsCommand(queue'[n])
  BY <1>1, CommandsAre
<1>3. TypeOK'
  <2>1. /\ clock' \in 0..MaxClock /\ tape' \in Tapes /\ expected' \subseteq Symbols
        /\ (job' = NoJob \/ IsCommand(job')) /\ rows' \subseteq State /\ gaps' \subseteq GapRow
        /\ \A r, p \in rows' : r.key = p.key => r = p
    BY DEF TypeInv, TypeOK, database
  <2>2. step'.at \in {"idle", "gap", "sink", "build", "rows"}
    BY <1>1
  <2>3. rtDue' \subseteq Open' /\ durDue' \subseteq Open'
    BY <1>1 DEF Open
  <2> QED
    BY <1>1, <1>2, <2>1, <2>2, <2>3 DEF TypeOK, Marks, Kept
<1>4. StepInv'
  BY <1>1 DEF StepInv
<1>5. PlaceInv'
  BY <1>1 DEF PlaceInv, Marks
<1>6. QueueInv'
  BY <1>1 DEF QueueInv, TypeInv
<1> QED
  BY <1>3, <1>4, <1>5, <1>6 DEF TypeInv

-------------------------------------------------------------------------------
(* Events that arrive.                                                         *)
LEMMA MadeIs ==
  ASSUME TypeInv, NEW s \in Symbols
  PROVE  /\ tape[s] \in Seq(0..MaxClock) /\ Made(s) \in 0..Len(tape[s])
<1>1. tape[s] \in Seq(0..MaxClock)
  BY RuntimeAssumption DEF TypeInv, TypeOK
<1> DEFINE n == Len(tape[s])
           S == {i \in DOMAIN tape[s] : tape[s][i] <= clock}
<1>2. n \in Nat /\ S \subseteq 1..n
  BY <1>1
<1> HIDE DEF n
<1>3. IsFiniteSet(1..n) /\ Cardinality(1..n) = n
  <2>1. IsFiniteSet(1..n) /\ Cardinality(1..n) = IF 1 > n THEN 0 ELSE n - 1 + 1
    BY <1>2, FS_Interval
  <2> QED
    BY <1>2, <2>1
<1>4. IsFiniteSet(S) /\ Cardinality(S) <= Cardinality(1..n)
  BY <1>2, <1>3, FS_Subset
<1>5. Cardinality(S) \in Nat
  BY <1>4, FS_CardinalityType
<1> QED
  BY <1>1, <1>2, <1>3, <1>4, <1>5 DEF Made, n

LEMMA ElementIs ==
  ASSUME NEW S, NEW q \in Seq(S), NEW i \in 1..Len(q)
  PROVE  q[i] \in S
  OBVIOUS

LEMMA GapIs ==
  ASSUME TypeInv, NEW e \in Event, AfterGap(e)
  PROVE  /\ Gap(GapBefore(e)) \in Command /\ Gap(GapBefore(e)).states = {}
         /\ Gap(GapBefore(e)).kind = "gap"
         /\ Marked(GapBefore(e).sym, GapBefore(e).lo, GapBefore(e).hi) \subseteq Keys
<1>1. e.sym \in Symbols /\ e.id \in Nat /\ e.at \in 0..MaxClock
  BY DEF Event
<1>2. last[e.sym] \in 1..Len(tape[e.sym]) /\ tape[e.sym] \in Seq(0..MaxClock)
  <2>1. tape[e.sym] \in Seq(0..MaxClock)
    BY <1>1, MadeIs
  <2>2. last[e.sym] \in Nat /\ last[e.sym] <= Len(tape[e.sym])
    BY <1>1 DEF TypeInv, TypeOK, PlaceInv
  <2>3. last[e.sym] # 0
    BY DEF AfterGap
  <2> QED
    BY <2>1, <2>2, <2>3
<1>3. Bucket(tape[e.sym][last[e.sym]]) \in Buckets /\ Bucket(e.at) \in Buckets
  <2>1. tape[e.sym][last[e.sym]] \in 0..MaxClock
    BY <1>2, ElementIs
  <2> QED
    BY <1>1, <2>1, BucketIn
<1>4. /\ GapBefore(e) \in GapRow /\ GapBefore(e).sym \in Symbols
      /\ GapBefore(e).lo \in Buckets /\ GapBefore(e).hi \in Buckets
  BY <1>1, <1>2, <1>3 DEF GapBefore, GapRow
<1>5. Gap(GapBefore(e)) \in Command
  BY <1>4 DEF Gap, Command, IsCommand, Unique
<1>6. Marked(GapBefore(e).sym, GapBefore(e).lo, GapBefore(e).hi) \subseteq Keys
  BY <1>4, BucketIn DEF Marked, Keys, Buckets
<1> QED
  BY <1>5, <1>6 DEF Gap

LEMMA AppendIs ==
  ASSUME NEW q \in Seq(Command), NEW c \in Command, Len(q) < QueueRoom
  PROVE  /\ Append(q, c) \in Seq(Command) /\ Len(Append(q, c)) <= QueueRoom
         /\ \A d : Has(q, d) => Has(Append(q, c), d)
         /\ Has(Append(q, c), c)
<1>1. QueueRoom \in Nat
  BY RuntimeAssumption
<1>2. /\ Append(q, c) \in Seq(Command) /\ Len(Append(q, c)) = Len(q) + 1
      /\ \A i \in 1..Len(q) : Append(q, c)[i] = q[i]
      /\ Append(q, c)[Len(q) + 1] = c
  OBVIOUS
<1>3. \A i \in DOMAIN q : i \in DOMAIN Append(q, c) /\ Append(q, c)[i] = q[i]
  BY <1>2
<1>4. Len(q) + 1 \in DOMAIN Append(q, c)
  BY <1>2
<1> QED
  BY <1>1, <1>2, <1>3, <1>4 DEF Has

LEMMA ArrivesKeeps ==
  ASSUME RuntimeInv, NEW e \in Event, e.id <= Len(tape[e.sym]), Arrives(e),
         UNCHANGED exchange, sent' \in [Symbols -> Nat],
         \A s \in Symbols : sent'[s] <= Len(tape[s])
  PROVE  RuntimeInv'
<1>1. /\ step = Idle /\ UNCHANGED <<clock, tape, expected, job, dead, rows, gaps>>
      /\ TypeInv /\ KeptInv /\ OpenInv /\ e.sym \in Symbols /\ e.id \in Nat
  BY DEF Arrives, RuntimeInv, exchange, database, Event
<1>2. /\ last \in [Symbols -> Nat] /\ \A s \in Symbols : last[s] <= Len(tape[s])
      /\ queue \in Seq(Command) /\ Len(queue) <= QueueRoom /\ incomplete \in SUBSET Keys
  BY <1>1 DEF TypeInv, TypeOK, PlaceInv, QueueInv
<1>3. /\ last' \in [Symbols -> Nat] /\ \A s \in Symbols : last'[s] <= Len(tape[s])
  <2>1. last' = last \/ last' = [last EXCEPT ![e.sym] = e.id]
    BY DEF Arrives, Tracks
  <2> QED
    BY <1>1, <1>2, <2>1
<1>4. step.at # "build" /\ \A c : Has(step.todo, c) => c.states = {}
  <2>1. step.todo = <<>> /\ step.at = "idle"
    BY <1>1 DEF Idle
  <2> QED
    BY <2>1 DEF Has
<1>5. CASE UNCHANGED <<Unseen, incomplete, step, queue>>
  <2>1. UNCHANGED <<maxSeen, observed, lastMat, acc, rtDue, durDue, start, unstored, incomplete, step,
                    queue>>
    BY <1>5 DEF Unseen
  <2>2. TypeInv'
    <3>1. TypeOK'
      BY <1>1, <1>3, <2>1 DEF TypeInv, TypeOK, Open
    <3>2. StepInv'
      BY <1>1, <2>1 DEF TypeInv, StepInv, Idle
    <3>3. PlaceInv' /\ QueueInv'
      BY <1>1, <1>3, <2>1 DEF TypeInv, PlaceInv, QueueInv, Made
    <3> QED
      BY <3>1, <3>2, <3>3 DEF TypeInv
  <2>3. \A k \in Keys : Safe(k) => Safe(k)'
    BY <1>1, <2>1 DEF Safe, Here, Queued, InJob, Stored, Has
  <2>4. KeptInv' /\ OpenInv'
    BY <1>1, <2>1, <2>3, KeptStays, OpenStays
  <2> QED
    BY <2>2, <2>4 DEF RuntimeInv
<1>6. ASSUME NEW q \in Seq(Command), Len(q) <= QueueRoom, NEW inc \in SUBSET Keys,
             Observes(e, q, inc), \A c : Has(queue, c) => Has(q, c)
      PROVE  RuntimeInv'
  <2>1. TypeInv'
    BY <1>1, <1>3, <1>6, TypesObserving DEF database
  <2>2. KeptInv' /\ OpenInv'
    BY <1>1, <1>4, <1>6, KeptObserving
  <2> QED
    BY <2>1, <2>2 DEF RuntimeInv
<1>7. CASE Observes(e, queue, incomplete)
  BY <1>2, <1>6, <1>7
<1> DEFINE g == GapBefore(e)
           inc == incomplete \cup Marked(g.sym, g.lo, g.hi)
<1>8. AfterGap(e) => Gap(g) \in Command /\ Gap(g).states = {} /\ Gap(g).kind = "gap" /\ inc \in SUBSET Keys
  BY <1>1, <1>2, GapIs
<1> HIDE DEF g, inc
<1>9. CASE AfterGap(e) /\ Len(queue) < QueueRoom /\ Observes(e, Append(queue, Gap(g)), inc)
  BY <1>2, <1>6, <1>8, <1>9, AppendIs
<1>10. CASE /\ AfterGap(e) /\ incomplete' = inc /\ step' = AtGap(e, g)
            /\ UNCHANGED <<Unseen, queue>>
  <2>1. UNCHANGED <<maxSeen, observed, lastMat, acc, rtDue, durDue, start, unstored, queue>>
    BY <1>10 DEF Unseen
  <2>2. /\ step' \in [at : {"gap"}, event : Event, todo : Seq(Command), states : {{}}]
        /\ Len(step'.todo) = 1 /\ step'.todo[1].kind = "gap"
    BY <1>8, <1>10 DEF AtGap
  <2>3. TypeOK'
    BY <1>1, <1>3, <1>8, <1>10, <2>1, <2>2 DEF TypeInv, TypeOK, Open
  <2>4. StepInv'
    BY <2>2 DEF StepInv
  <2>5. PlaceInv' /\ QueueInv'
    BY <1>1, <1>3, <2>1 DEF TypeInv, PlaceInv, QueueInv
  <2>6. \A k \in Keys : Safe(k) => Safe(k)'
    <3>1. step.todo = <<>>
      BY <1>1 DEF Idle
    <3>2. \A c : ~Has(step.todo, c)
      BY <3>1 DEF Has
    <3> QED
      BY <1>1, <2>1, <3>2 DEF Safe, Here, Queued, InJob, Stored, Has
  <2>7. KeptInv' /\ OpenInv'
    BY <1>1, <1>4, <2>1, <2>6, KeptStays DEF OpenInv, Left
  <2> QED
    BY <2>3, <2>4, <2>5, <2>7 DEF RuntimeInv, TypeInv
<1> QED
  BY <1>5, <1>7, <1>9, <1>10 DEF Arrives, Unseen, g, inc

LEMMA TradeArrivesKeeps ==
  ASSUME RuntimeInv, NEW s \in Symbols, TradeArrives(s) PROVE RuntimeInv'
<1>1. PICK i \in ({last[s]} \ {0}) \cup ((sent[s] + 1)..Made(s)) :
        /\ sent' = [sent EXCEPT ![s] = i]
        /\ Arrives([sym |-> s, id |-> i, at |-> tape[s][i]])
  BY DEF TradeArrives
<1>2. /\ tape[s] \in Seq(0..MaxClock) /\ Made(s) \in 0..Len(tape[s])
      /\ last[s] \in 0..Len(tape[s]) /\ sent \in [Symbols -> Nat]
      /\ \A x \in Symbols : sent[x] <= Len(tape[x])
  <2>1. tape[s] \in Seq(0..MaxClock) /\ Made(s) \in 0..Len(tape[s])
    BY MadeIs DEF RuntimeInv
  <2>2. /\ last[s] \in Nat /\ last[s] <= Len(tape[s]) /\ sent \in [Symbols -> Nat]
        /\ \A x \in Symbols : sent[x] <= Len(tape[x])
    BY DEF RuntimeInv, TypeInv, TypeOK, PlaceInv
  <2> QED
    BY <2>1, <2>2
<1>3. i \in 1..Len(tape[s]) /\ tape[s][i] \in 0..MaxClock
  <2>1. Len(tape[s]) \in Nat /\ sent[s] \in Nat
    BY <1>2
  <2>2. i \in 1..Len(tape[s])
    BY <1>1, <1>2, <2>1
  <2> QED
    BY <1>2, <2>2, ElementIs
<1>4. /\ sent' \in [Symbols -> Nat]
      /\ \A x \in Symbols : sent'[x] <= Len(tape[x])
  BY <1>1, <1>2, <1>3
<1> DEFINE e == [sym |-> s, id |-> i, at |-> tape[s][i]]
<1>5. e \in Event /\ e.id <= Len(tape[e.sym])
  BY <1>3 DEF Event
<1>6. Arrives(e) /\ UNCHANGED exchange
  BY <1>1 DEF TradeArrives
<1> HIDE DEF e
<1> QED
  BY <1>4, <1>5, <1>6, ArrivesKeeps

LEMMA QuoteArrivesKeeps ==
  ASSUME RuntimeInv, NEW s \in Symbols, QuoteArrives(s) PROVE RuntimeInv'
<1> DEFINE e == [sym |-> s, id |-> 0, at |-> clock]
<1>1. Arrives(e) /\ UNCHANGED <<exchange, sent>>
  BY DEF QuoteArrives
<1>2. e \in Event /\ e.id <= Len(tape[e.sym])
  <2>1. Len(tape[s]) \in Nat /\ clock \in 0..MaxClock
    BY MadeIs DEF RuntimeInv, TypeInv, TypeOK
  <2> QED
    BY <2>1 DEF Event
<1>3. sent' \in [Symbols -> Nat] /\ \A x \in Symbols : sent'[x] <= Len(tape[x])
  BY <1>1 DEF RuntimeInv, TypeInv, PlaceInv
<1> HIDE DEF e
<1> QED
  BY <1>1, <1>2, <1>3, ArrivesKeeps

-------------------------------------------------------------------------------
(* The other steps of an event in work.                                        *)
LEMMA GapGoesInKeeps ==
  ASSUME RuntimeInv, GapGoesIn PROVE RuntimeInv'
<1>1. /\ step.at = "gap" /\ Len(queue) < QueueRoom /\ TypeInv /\ KeptInv /\ OpenInv
      /\ UNCHANGED <<clock, tape, sent, expected, last, job, dead, rows, gaps>>
  BY DEF GapGoesIn, RuntimeInv, exchange, database
<1>2. /\ step.event \in Event /\ Len(step.todo) = 1 /\ step.todo \in Seq(Command)
      /\ step.todo[1].kind = "gap" /\ queue \in Seq(Command) /\ incomplete \in SUBSET Keys
  BY <1>1 DEF TypeInv, TypeOK, StepInv, QueueInv
<1>3. step.todo[1] \in Command /\ step.todo[1].states = {}
  <2>1. step.todo[1] \in Command
    BY <1>2, ElementIs
  <2> QED
    BY <1>2, <2>1 DEF Command
<1>4. \A c : Has(step.todo, c) => c.states = {}
  BY <1>2, <1>3 DEF Has
<1> DEFINE q == Append(queue, step.todo[1])
<1>5. /\ q \in Seq(Command) /\ Len(q) <= QueueRoom
      /\ \A c : Has(queue, c) => Has(q, c)
  BY <1>1, <1>2, <1>3, AppendIs
<1>6. CASE dead
  <2>1. /\ queue' = q /\ step' = Idle
        /\ UNCHANGED <<maxSeen, observed, lastMat, acc, rtDue, durDue, start, unstored, incomplete>>
    BY <1>6 DEF GapGoesIn, Unseen
  <2> HIDE DEF q
  <2>2. TypeOK'
    <3>1. \A n \in DOMAIN queue' : IsCommand(queue'[n])
      BY <1>5, <2>1, CommandsAre
    <3>2. step'.at \in {"idle", "gap", "sink", "build", "rows"}
      BY <2>1 DEF Idle
    <3> QED
      BY <1>1, <1>5, <2>1, <3>1, <3>2 DEF TypeInv, TypeOK, Open
  <2>3. StepInv'
    <3>1. step' = [at |-> "idle", event |-> <<>>, todo |-> <<>>, states |-> {}]
          /\ <<>> \in Seq(Command)
      BY <2>1 DEF Idle
    <3> QED
      BY <3>1 DEF StepInv
  <2>4. PlaceInv' /\ QueueInv'
    BY <1>1, <1>5, <2>1 DEF TypeInv, TypeOK, PlaceInv, QueueInv
  <2> QED
    BY <1>1, <1>6, <2>1, <2>2, <2>3, <2>4 DEF RuntimeInv, TypeInv, KeptInv, OpenInv, Left
<1>7. CASE ~dead
  <2>1. Observes(step.event, q, incomplete)
    BY <1>7 DEF GapGoesIn
  <2> HIDE DEF q
  <2>2. /\ last' \in [Symbols -> Nat] /\ sent' \in [Symbols -> Nat]
        /\ \A s \in Symbols : sent'[s] <= Len(tape[s]) /\ last'[s] <= Len(tape[s])
    BY <1>1 DEF TypeInv, TypeOK, PlaceInv
  <2>3. TypeInv'
    BY <1>1, <1>2, <1>5, <2>1, <2>2, TypesObserving DEF database
  <2>4. KeptInv' /\ OpenInv'
    BY <1>1, <1>2, <1>4, <1>5, <2>1, KeptObserving
  <2> QED
    BY <2>3, <2>4 DEF RuntimeInv
<1> QED
  BY <1>6, <1>7

LEMMA HubTakesKeeps ==
  ASSUME RuntimeInv, HubTakes PROVE RuntimeInv'
<1>1. /\ step.at = "sink" /\ TypeInv /\ KeptInv /\ OpenInv
      /\ ClosesDurably(queue, acc, durDue, maxSeen - DurDelay, incomplete)
      /\ UNCHANGED <<clock, tape, sent, expected, last, maxSeen, observed, lastMat, rtDue, job,
                     dead, rows, gaps, start, unstored>>
  BY DEF HubTakes, RuntimeInv, exchange, database
<1>2. /\ queue \in Seq(Command) /\ Len(queue) <= QueueRoom /\ acc \in [Keys -> Kept]
      /\ maxSeen \in Int /\ incomplete \in SUBSET Keys /\ step.todo = <<>>
      /\ rtDue \subseteq Keys /\ durDue \in SUBSET Keys /\ \A k \in durDue : acc[k].open
      /\ \A k \in rtDue : acc[k].open /\ End(k[2]) > maxSeen - RtDelay
  BY <1>1, RuntimeAssumption DEF TypeInv, TypeOK, StepInv, QueueInv, Kept, Open
<1>3. RtDelay \in Nat /\ DurDelay \in Nat /\ RtDelay <= DurDelay /\ maxSeen - DurDelay \in Int
  BY <1>2, RuntimeAssumption
<1> DEFINE mark == maxSeen - DurDelay
<1>4. /\ acc' \in [Keys -> Kept] /\ incomplete' \subseteq Keys
      /\ \A k \in Keys : acc'[k].open => acc[k].open
      /\ \A k \in Keys : acc[k].open /\ ~acc'[k].open => k \in durDue /\ End(k[2]) <= mark
      /\ \A k \in Keys : k \in durDue' <=> k \in durDue /\ End(k[2]) > mark
      /\ durDue' \subseteq durDue
      /\ queue' \in Seq(Command) /\ Len(queue') <= QueueRoom
      /\ step' \in [at : {"idle", "build", "rows"}, event : {<<>>}, todo : Seq(Command),
                    states : {{}}]
      /\ step'.at = "idle" => step'.todo = <<>>
      /\ \A c : Has(queue, c) => Has(queue', c)
      /\ \A k \in durDue : k \in durDue' \/ Queued(k)'
      /\ step'.at = "build" =>
           /\ \A n \in DOMAIN step'.todo : step'.todo[n].kind = "rows"
           /\ Closing' = {k \in durDue : End(k[2]) <= mark}
      /\ \A k \in durDue :
           acc'[k].open => k \in durDue' \/ (step'.at = "build" /\ k \in Closing')
  <2>1. /\ queue \in Seq(Command) /\ Len(queue) <= QueueRoom /\ acc \in [Keys -> Kept]
        /\ durDue \in SUBSET Keys /\ \A k \in durDue : acc[k].open
        /\ mark \in Int /\ incomplete \in SUBSET Keys
    BY <1>2, <1>3
  <2>2. ClosesDurably(queue, acc, durDue, mark, incomplete)
    BY <1>1
  <2> HIDE DEF mark
  <2>3. AfterCloses(queue, acc, durDue, mark)
    BY <2>1, <2>2, ClosesAre, Zenon
  <2> QED
    BY <2>3 DEF AfterCloses
<1>5. TypeOK'
  <2>1. \A n \in DOMAIN queue' : IsCommand(queue'[n])
    BY <1>4, CommandsAre
  <2>2. step'.at \in {"idle", "gap", "sink", "build", "rows"}
    BY <1>4
  <2>3. rtDue' \subseteq Open'
    <3>1. ASSUME NEW k \in rtDue PROVE k \in Keys /\ acc'[k].open
      <4>1. k \in Keys /\ acc[k].open /\ ~(End(k[2]) <= mark)
        BY <1>2, <1>3, EndIsInt
      <4> QED
        BY <1>4, <4>1
    <3> QED
      BY <1>1, <3>1 DEF Open
  <2>4. durDue' \subseteq Open'
    <3>1. ASSUME NEW k \in durDue' PROVE k \in Keys /\ acc'[k].open
      <4>1. k \in Keys /\ acc[k].open /\ End(k[2]) > mark
        BY <1>2, <1>4
      <4>2. ~(End(k[2]) <= mark)
        BY <1>3, <4>1, EndIsInt
      <4> QED
        BY <1>4, <4>1, <4>2
    <3> QED
      BY <3>1 DEF Open
  <2> QED
    BY <1>1, <1>4, <2>1, <2>2, <2>3, <2>4 DEF TypeInv, TypeOK, Kept
<1>6. StepInv'
  <2>1. step'.at = "build" => BuildInv'
    <3>1. ASSUME step'.at = "build", NEW k \in Closing'
          PROVE  k \in Keys /\ k \notin durDue' /\ End(k[2]) <= maxSeen' - DurDelay
      <4>1. k \in Keys /\ End(k[2]) <= mark
        BY <1>2, <1>4, <3>1
      <4>2. ~(End(k[2]) > mark)
        BY <1>3, <4>1, EndIsInt
      <4> QED
        BY <1>1, <1>4, <4>1, <4>2
    <3> QED
      BY <1>4, <3>1 DEF BuildInv
  <2>2. \A k \in rtDue' : End(k[2]) > maxSeen' - RtDelay
    BY <1>1, <1>2
  <2>3. /\ step' \in [at : {"idle", "gap", "sink", "build", "rows"}, event : Event \cup {<<>>},
                      todo : Seq(Command), states : SUBSET State]
        /\ step'.at # "gap" /\ step'.at # "sink"
    BY <1>4
  <2> QED
    BY <1>4, <2>1, <2>2, <2>3 DEF StepInv
<1>7. PlaceInv' /\ QueueInv'
  BY <1>1, <1>4 DEF TypeInv, PlaceInv, QueueInv
<1>8. ASSUME NEW k \in Keys, Safe(k) PROVE Safe(k)'
  <2>1. \A c : ~Has(step.todo, c)
    BY <1>2 DEF Has
  <2> QED
    BY <1>1, <1>4, <1>8, <2>1 DEF Safe, Here, Queued, InJob, Stored
<1>9. KeptInv'
  BY <1>1, <1>8, KeptStays
<1>10. OpenInv'
  BY <1>1, <1>2, <1>4 DEF OpenInv, Left
<1> QED
  BY <1>5, <1>6, <1>7, <1>9, <1>10 DEF RuntimeInv, TypeInv

LEMMA RowsAreBuiltKeeps ==
  ASSUME RuntimeInv, RowsAreBuilt PROVE RuntimeInv'
<1>1. /\ step.at = "build" /\ TypeInv /\ KeptInv /\ OpenInv
      /\ Stores(queue, acc, Closing, incomplete, step.todo)
      /\ UNCHANGED <<clock, tape, sent, expected, last, maxSeen, observed, lastMat, rtDue,
                     durDue, job, dead, rows, gaps, start, unstored>>
  BY DEF RowsAreBuilt, RuntimeInv, exchange, database, history
<1>2. /\ queue \in Seq(Command) /\ Len(queue) <= QueueRoom /\ acc \in [Keys -> Kept]
      /\ maxSeen \in Int /\ incomplete \in SUBSET Keys /\ step.todo \in Seq(Command)
      /\ BuildInv /\ durDue \subseteq Keys /\ \A k \in durDue : acc[k].open
      /\ rtDue \subseteq Keys
      /\ \A k \in rtDue : acc[k].open /\ End(k[2]) > maxSeen - RtDelay
  BY <1>1, RuntimeAssumption DEF TypeInv, TypeOK, StepInv, QueueInv, Kept, Open
<1>3. RtDelay \in Nat /\ DurDelay \in Nat /\ RtDelay <= DurDelay
  BY RuntimeAssumption
<1>4. /\ Closing \in SUBSET Keys /\ \A k \in durDue : k \notin Closing
      /\ \A k \in rtDue : k \notin Closing
  <2>1. ASSUME NEW k \in rtDue, k \in Closing PROVE FALSE
    BY <1>2, <1>3, <2>1, EndIsInt DEF BuildInv
  <2> QED
    BY <1>2, <2>1 DEF BuildInv
<1>5. /\ acc' \in [Keys -> Kept] /\ incomplete' \subseteq Keys
      /\ \A k \in Keys : acc'[k].open <=> acc[k].open /\ k \notin Closing
      /\ queue' \in Seq(Command) /\ Len(queue') <= QueueRoom
      /\ step' \in [at : {"idle", "rows"}, event : {<<>>}, todo : Seq(Command), states : {{}}]
      /\ step'.at = "idle" => step'.todo = <<>>
      /\ \A c : Has(queue, c) => Has(queue', c)
      /\ \A c : Has(step.todo, c) => Has(queue', c) \/ Has(step'.todo, c)
  <2>1. /\ queue \in Seq(Command) /\ Len(queue) <= QueueRoom /\ acc \in [Keys -> Kept]
        /\ Closing \in SUBSET Keys /\ incomplete \in SUBSET Keys
        /\ step.todo \in Seq(Command)
    BY <1>2, <1>4
  <2>2. Stores(queue, acc, Closing, incomplete, step.todo)
    BY <1>1
  <2>3. AfterStores(queue, acc, Closing, step.todo)
    BY <2>1, <2>2, StoresAre, Zenon
  <2> QED
    BY <2>3 DEF AfterStores
<1>6. TypeOK'
  <2>1. \A n \in DOMAIN queue' : IsCommand(queue'[n])
    BY <1>5, CommandsAre
  <2>2. step'.at \in {"idle", "gap", "sink", "build", "rows"}
    BY <1>5
  <2>3. rtDue' \subseteq Open' /\ durDue' \subseteq Open'
    BY <1>1, <1>2, <1>4, <1>5 DEF Open
  <2> QED
    BY <1>1, <1>5, <2>1, <2>2, <2>3 DEF TypeInv, TypeOK, Kept
<1>7. StepInv'
  BY <1>5 DEF StepInv
<1>8. PlaceInv' /\ QueueInv'
  BY <1>1, <1>5 DEF TypeInv, PlaceInv, QueueInv
<1>9. \A k \in Keys : Safe(k) => Safe(k)'
  BY <1>1, <1>5 DEF Safe, Here, Queued, InJob, Stored
<1>10. KeptInv'
  BY <1>1, <1>9, KeptStays
<1>11. OpenInv'
  BY <1>1, <1>5 DEF OpenInv, Left
<1> QED
  BY <1>6, <1>7, <1>8, <1>10, <1>11 DEF RuntimeInv, TypeInv

LEMMA RowsGoInKeeps ==
  ASSUME RuntimeInv, RowsGoIn PROVE RuntimeInv'
<1>1. /\ step.at = "rows" /\ Len(queue) < QueueRoom /\ TypeInv /\ KeptInv /\ OpenInv
      /\ PutAll(queue, step.todo)
      /\ UNCHANGED <<clock, tape, sent, expected, last, maxSeen, observed, lastMat, acc, rtDue, durDue,
                     incomplete, job, dead, rows, gaps, start, unstored>>
  BY DEF RowsGoIn, RuntimeInv, exchange, memory, database, history
<1>2. queue \in Seq(Command) /\ Len(queue) <= QueueRoom /\ step.todo \in Seq(Command)
  BY <1>1 DEF TypeInv, TypeOK, StepInv, QueueInv
<1>3. /\ queue' \in Seq(Command) /\ Len(queue') <= QueueRoom
      /\ step' \in [at : {"idle", "rows"}, event : {<<>>}, todo : Seq(Command), states : {{}}]
      /\ step'.at = "idle" => step'.todo = <<>>
      /\ \A c : Has(queue, c) => Has(queue', c)
      /\ \A c : Has(step.todo, c) => Has(queue', c) \/ Has(step'.todo, c)
  BY <1>1, <1>2, PutAllMoves
<1>4. TypeOK'
  <2>1. \A n \in DOMAIN queue' : IsCommand(queue'[n])
    BY <1>3, CommandsAre
  <2>2. step'.at \in {"idle", "gap", "sink", "build", "rows"}
    BY <1>3
  <2> QED
    BY <1>1, <1>3, <2>1, <2>2 DEF TypeInv, TypeOK, Open
<1>5. StepInv'
  BY <1>3 DEF StepInv
<1>6. PlaceInv' /\ QueueInv'
  BY <1>1, <1>3 DEF TypeInv, PlaceInv, QueueInv
<1>7. \A k \in Keys : Safe(k) => Safe(k)'
  BY <1>1, <1>3 DEF Safe, Here, Queued, InJob, Stored
<1>8. KeptInv' /\ OpenInv'
  BY <1>1, <1>7, KeptStays DEF OpenInv, Left
<1> QED
  BY <1>4, <1>5, <1>6, <1>8 DEF RuntimeInv, TypeInv

LEMMA IdleIs ==
  ASSUME step' = Idle
  PROVE  StepInv' /\ step'.at \in {"idle", "gap", "sink", "build", "rows"}
<1>1. /\ step' = [at |-> "idle", event |-> <<>>, todo |-> <<>>, states |-> {}]
      /\ <<>> \in Seq(Command)
  BY DEF Idle
<1> QED
  BY <1>1 DEF StepInv

LEMMA CutKeeps ==
  ASSUME RuntimeInv, Cut PROVE RuntimeInv'
<1>1. /\ TypeInv /\ KeptInv /\ OpenInv /\ step' = Idle
      /\ unstored' = unstored \cup Closing
      /\ UNCHANGED <<clock, tape, sent, expected, last, maxSeen, observed, lastMat, acc, rtDue, durDue,
                     incomplete, queue, job, dead, rows, gaps, start>>
  BY DEF Cut, RuntimeInv, exchange, memory, database, writer
<1>2. TypeOK' /\ StepInv' /\ PlaceInv' /\ QueueInv'
  BY <1>1, IdleIs DEF TypeInv, TypeOK, Open, PlaceInv, QueueInv
<1>3. ASSUME NEW k \in Keys, Safe(k) PROVE Safe(k)'
  <2>1. CASE \E c : Has(step.todo, c) /\ \E st \in c.states : st.key = k
    <3>1. PICK n \in DOMAIN step.todo : \E st \in step.todo[n].states : st.key = k
      BY <2>1 DEF Has
    <3>2. step.todo \in Seq(Command)
      BY <1>1 DEF TypeInv, StepInv
    <3>3. n \in 1..Len(step.todo)
      BY <3>2
    <3>4. step.todo[n] \in Command
      BY <3>2, <3>3, ElementIs
    <3>5. k \in Taken(step.todo[n])
      BY <3>1, <3>4 DEF Command, Taken
    <3> QED
      BY <1>1, <3>5 DEF Safe, Closing
  <2>2. CASE ~\E c : Has(step.todo, c) /\ \E st \in c.states : st.key = k
    BY <1>1, <1>3, <2>2 DEF Safe, Here, Queued, InJob, Stored
  <2> QED
    BY <2>1, <2>2
<1>4. KeptInv' /\ OpenInv'
  BY <1>1, <1>3, KeptStays DEF OpenInv, Left
<1> QED
  BY <1>2, <1>4 DEF RuntimeInv, TypeInv

LEMMA ChangesKeeps ==
  ASSUME RuntimeInv, NEW s \in Symbols, Changes(s) PROVE RuntimeInv'
<1>1. /\ TypeInv /\ KeptInv /\ OpenInv /\ s \in Universe
      /\ expected' = IF s \in expected THEN expected \ {s} ELSE expected \cup {s}
      /\ lastMat' = [lastMat EXCEPT ![s] = -1]
      /\ last' = [x \in Symbols |-> IF x \in expected' THEN last[x] ELSE 0]
      /\ start' = [start EXCEPT ![s] = -1]
      /\ UNCHANGED <<clock, tape, sent, maxSeen, observed, acc, rtDue, durDue, incomplete, step, queue,
                     job, dead, rows, gaps, unstored>>
  BY DEF Changes, RuntimeInv, exchange, writer, database
<1>2. /\ last \in [Symbols -> Nat] /\ lastMat \in Marks /\ start \in Marks
      /\ \A x \in Symbols : last[x] <= Len(tape[x]) /\ tape[x] \in Seq(0..MaxClock)
  BY <1>1, MadeIs DEF TypeInv, TypeOK, PlaceInv, Marks
<1>3. expected' \subseteq Symbols
  BY <1>1 DEF TypeInv, TypeOK
<1>4. /\ last' \in [Symbols -> Nat] /\ lastMat' \in Marks /\ start' \in Marks
  BY <1>1, <1>2, BucketIn DEF Marks
<1>5. \A x \in Symbols : last'[x] <= Len(tape[x])
  BY <1>1, <1>2
<1>6. TypeOK'
  BY <1>1, <1>3, <1>4 DEF TypeInv, TypeOK, Open, Marks
<1>7. StepInv' /\ PlaceInv' /\ QueueInv'
  BY <1>1, <1>4, <1>5, StepStays DEF TypeInv, PlaceInv, QueueInv, Marks
<1>8. KeptInv'
  <2> SUFFICES ASSUME ~dead, NEW x \in expected', NEW b \in Int,
                      start'[x] # -1, start'[x] <= b, b <= lastMat'[x]
               PROVE  Safe(<<x, b>>)'
    BY <1>1 DEF KeptInv
  <2>1. x # s /\ x \in expected
    BY <1>1, <1>2, <1>3 DEF Marks
  <2>2. start'[x] = start[x] /\ lastMat'[x] = lastMat[x]
    BY <1>1, <1>2, <1>3, <2>1 DEF Marks
  <2>3. Safe(<<x, b>>)
    BY <1>1, <2>1, <2>2 DEF KeptInv
  <2> QED
    BY <1>1, <2>3 DEF Safe, Here, Queued, InJob, Stored, Has
<1>9. OpenInv'
  BY <1>1, OpenStays
<1> QED
  BY <1>6, <1>7, <1>8, <1>9 DEF RuntimeInv, TypeInv

-------------------------------------------------------------------------------
(* The writer.                                                                 *)
LEMMA WriterTakesKeeps ==
  ASSUME RuntimeInv, WriterTakes PROVE RuntimeInv'
<1>1. /\ TypeInv /\ KeptInv /\ OpenInv /\ job = NoJob /\ queue # <<>>
      /\ job' = Head(queue) /\ queue' = Tail(queue)
      /\ UNCHANGED <<clock, tape, sent, expected, last, maxSeen, observed, lastMat, acc, rtDue, durDue,
                     incomplete, step, dead, rows, gaps, start, unstored>>
  BY DEF WriterTakes, RuntimeInv, exchange, memory, database, history
<1>2. queue \in Seq(Command) /\ Len(queue) <= QueueRoom
  BY <1>1 DEF TypeInv, TypeOK, QueueInv
<1>3. /\ Len(queue) \in Nat \ {0} /\ Head(queue) = queue[1] /\ Tail(queue) \in Seq(Command)
      /\ Len(Tail(queue)) = Len(queue) - 1
      /\ \A n \in 1..(Len(queue) - 1) : Tail(queue)[n] = queue[n + 1]
  BY <1>1, <1>2
<1>4. job' \in Command
  BY <1>1, <1>2, <1>3, ElementIs
<1>5. ASSUME NEW c, Has(queue, c) PROVE c = job' \/ Has(queue', c)
  <2>1. PICK n \in 1..Len(queue) : queue[n] = c
    BY <1>2, <1>5 DEF Has
  <2>2. CASE n = 1
    BY <1>1, <1>3, <2>1, <2>2
  <2>3. CASE n # 1
    <3>1. n - 1 \in 1..(Len(queue) - 1) /\ n - 1 + 1 = n
      BY <1>3, <2>1, <2>3
    <3>2. n - 1 \in DOMAIN queue' /\ queue'[n - 1] = c
      BY <1>1, <1>3, <2>1, <3>1
    <3> QED
      BY <3>2 DEF Has
  <2> QED
    BY <2>2, <2>3
<1>6. QueueInv' /\ Len(queue') <= QueueRoom
  <2>1. QueueRoom \in Nat
    BY RuntimeAssumption
  <2> QED
    BY <1>1, <1>2, <1>3, <1>4, <2>1 DEF QueueInv
<1>7. TypeOK'
  <2>1. (\A n \in DOMAIN queue' : IsCommand(queue'[n])) /\ IsCommand(job')
    BY <1>1, <1>3, <1>4, CommandsAre
  <2> QED
    BY <1>1, <1>6, <2>1 DEF TypeInv, TypeOK, Open
<1>8. StepInv' /\ PlaceInv'
  BY <1>1, StepStays DEF TypeInv, PlaceInv
<1>9. ASSUME NEW k \in Keys, Safe(k) PROVE Safe(k)'
  <2>1. ~InJob(k)
    BY <1>1 DEF InJob, NoJob
  <2>2. CASE Queued(k)
    <3>1. PICK c : (Has(queue, c) \/ Has(step.todo, c)) /\ \E st \in c.states : st.key = k
      BY <2>2 DEF Queued
    <3>2. CASE c = job'
      BY <3>1, <3>2 DEF Safe, InJob
    <3>3. CASE Has(queue', c) \/ Has(step'.todo, c)
      BY <3>1, <3>3 DEF Safe, Here, Queued
    <3> QED
      BY <1>1, <1>5, <3>1, <3>2, <3>3
  <2>3. CASE k \in durDue \/ Stored(k) \/ k \in unstored
    BY <1>1, <2>3 DEF Safe, Here, Stored
  <2> QED
    BY <1>9, <2>1, <2>2, <2>3 DEF Safe, Here
<1>10. KeptInv' /\ OpenInv'
  BY <1>1, <1>9, KeptStays, OpenStays
<1> QED
  BY <1>6, <1>7, <1>8, <1>10 DEF RuntimeInv, TypeInv

LEMMA AdjustedIs ==
  ASSUME NEW st \in State
  PROVE  Adjusted(st) \in State /\ Adjusted(st).key = st.key
<1>1. (st.complete /\ ~\E g \in gaps : Covers(g, st.key)) \in BOOLEAN
  OBVIOUS
<1> QED
  BY <1>1 DEF Adjusted, State

(* A commit keeps one state per bucket, and every bucket stored before.        *)
LEMMA CommitsAre ==
  ASSUME TypeInv, job # NoJob, Commits
  PROVE  /\ rows' \subseteq State /\ gaps' \subseteq GapRow
         /\ \A r, p \in rows' : r.key = p.key => r = p
         /\ \A k : Stored(k) => Stored(k)'
         /\ \A k : InJob(k) => Stored(k)'
<1>1. /\ job \in Command /\ rows \subseteq State /\ gaps \subseteq GapRow
      /\ \A r, p \in rows : r.key = p.key => r = p
  BY DEF TypeInv, TypeOK, QueueInv
<1>2. /\ job.states \subseteq State /\ Unique(job.states)
      /\ job.kind = "gap" => job.gap \in GapRow /\ job.states = {}
  BY <1>1 DEF Command, IsCommand
<1>3. CASE job.kind = "gap" /\ UNCHANGED database
  BY <1>1, <1>2, <1>3 DEF database, Stored, InJob
<1>4. CASE job.kind = "gap" /\ gaps' = gaps \cup {job.gap} /\ rows' = MarkedBy(job.gap)
  <2> DEFINE mark(r) == [key |-> r.key, trades |-> r.trades, quote |-> r.quote,
                         complete |-> r.complete /\ ~Covers(job.gap, r.key)]
  <2>1. rows' = {mark(r) : r \in rows}
    BY <1>4 DEF MarkedBy
  <2>2. \A r \in State : mark(r) \in State /\ mark(r).key = r.key
    <3> SUFFICES ASSUME NEW r \in State PROVE mark(r) \in State /\ mark(r).key = r.key
      OBVIOUS
    <3>1. (r.complete /\ ~Covers(job.gap, r.key)) \in BOOLEAN
      OBVIOUS
    <3> QED
      BY <3>1 DEF State
  <2> HIDE DEF mark
  <2>3. rows' \subseteq State /\ \A r, p \in rows' : r.key = p.key => r = p
    BY <1>1, <2>1, <2>2
  <2>4. \A k : Stored(k) => Stored(k)'
    BY <1>1, <2>1, <2>2 DEF Stored
  <2> QED
    BY <1>1, <1>2, <1>4, <2>3, <2>4 DEF InJob
<1>5. CASE rows' = Merged({Adjusted(st) : st \in job.states}) /\ UNCHANGED gaps
  <2> DEFINE S == {Adjusted(st) : st \in job.states}
             new == {st \in S : Wins(st)}
  <2>1. /\ S \subseteq State /\ \A r, p \in S : r.key = p.key => r = p
        /\ \A st \in job.states : \E r \in S : r.key = st.key
    <3>1. \A st \in job.states : Adjusted(st) \in State /\ Adjusted(st).key = st.key
      BY <1>2, AdjustedIs
    <3> QED
      BY <1>2, <3>1 DEF Unique
  <2>2. rows' = {r \in rows : \A st \in new : st.key # r.key} \cup new
    BY <1>5 DEF Merged
  <2>3. new \subseteq S /\ \A st \in S : st \in new \/ Stored(st.key)
    BY DEF Wins
  <2> HIDE DEF S, new
  <2>4. rows' \subseteq State /\ \A r, p \in rows' : r.key = p.key => r = p
    BY <1>1, <2>1, <2>2, <2>3
  <2>5. ASSUME NEW k, Stored(k) PROVE Stored(k)'
    <3>1. PICK r \in rows : r.key = k
      BY <2>5 DEF Stored
    <3>2. CASE \E st \in new : st.key = r.key
      BY <2>2, <3>1, <3>2 DEF Stored
    <3>3. CASE ~\E st \in new : st.key = r.key
      BY <2>2, <3>1, <3>3 DEF Stored
    <3> QED
      BY <3>2, <3>3
  <2>6. ASSUME NEW k, InJob(k) PROVE Stored(k)'
    <3>1. PICK r \in S : r.key = k
      BY <2>1, <2>6 DEF InJob
    <3>2. CASE r \in new
      BY <2>2, <3>1, <3>2 DEF Stored
    <3>3. CASE Stored(r.key)
      BY <2>5, <3>1, <3>3
    <3> QED
      BY <2>3, <3>2, <3>3
  <2> QED
    BY <1>1, <1>5, <2>4, <2>5, <2>6
<1> QED
  BY <1>3, <1>4, <1>5 DEF Commits

LEMMA WritesKeeps ==
  ASSUME RuntimeInv, Writes \/ WritesUnheard PROVE RuntimeInv'
<1>1. /\ TypeInv /\ KeptInv /\ OpenInv /\ job # NoJob /\ Commits /\ (job' = NoJob \/ job' = job)
      /\ UNCHANGED <<clock, tape, sent, expected, last, maxSeen, observed, lastMat, acc, rtDue, durDue,
                     incomplete, step, queue, dead, start, unstored>>
  BY DEF Writes, WritesUnheard, RuntimeInv, exchange, memory, history, writer
<1>2. /\ rows' \subseteq State /\ gaps' \subseteq GapRow
      /\ \A r, p \in rows' : r.key = p.key => r = p
      /\ \A k : Stored(k) => Stored(k)'
      /\ \A k : InJob(k) => Stored(k)'
  BY <1>1, CommitsAre
<1>3. TypeOK' /\ StepInv' /\ PlaceInv' /\ QueueInv'
  BY <1>1, <1>2, StepStays DEF TypeInv, TypeOK, Open, PlaceInv, QueueInv
<1>4. \A k \in Keys : Safe(k) => Safe(k)'
  <2> SUFFICES ASSUME NEW k \in Keys, Safe(k) PROVE Safe(k)'
    OBVIOUS
  <2>1. Here(k) => Here(k)'
    BY <1>1 DEF Here, Queued, Has
  <2>2. InJob(k) \/ Stored(k) => Stored(k)'
    BY <1>2
  <2> QED
    BY <1>1, <2>1, <2>2 DEF Safe
<1>5. KeptInv' /\ OpenInv'
  BY <1>1, <1>4, KeptStays, OpenStays
<1> QED
  BY <1>3, <1>5 DEF RuntimeInv, TypeInv

LEMMA WriterFailsKeeps ==
  ASSUME RuntimeInv, WriterFails PROVE RuntimeInv'
<1>1. /\ TypeInv /\ OpenInv /\ dead' = TRUE /\ job' = NoJob
      /\ UNCHANGED <<clock, tape, sent, expected, last, maxSeen, observed, lastMat, acc, rtDue, durDue,
                     incomplete, step, queue, rows, gaps, start, unstored>>
  BY DEF WriterFails, RuntimeInv, exchange, memory, database, history
<1>2. TypeOK' /\ StepInv' /\ PlaceInv' /\ QueueInv'
  BY <1>1, StepStays DEF TypeInv, TypeOK, Open, PlaceInv, QueueInv
<1> QED
  BY <1>1, <1>2, OpenStays DEF RuntimeInv, TypeInv, KeptInv

-------------------------------------------------------------------------------
(* Time, restarts, and the whole.                                              *)
LEMMA TimePassesKeeps ==
  ASSUME RuntimeInv, TimePasses PROVE RuntimeInv'
<1>1. /\ TypeInv /\ KeptInv /\ OpenInv /\ clock < MaxClock /\ clock' = clock + 1
      /\ UNCHANGED <<tape, sent, expected, last, maxSeen, observed, lastMat, acc, rtDue, durDue,
                     incomplete, step, queue, job, dead, rows, gaps, start, unstored>>
  BY DEF TimePasses, RuntimeInv, memory, writer, database, history
<1>2. clock' \in 0..MaxClock
  BY <1>1, RuntimeAssumption DEF TypeInv, TypeOK
<1>3. TypeOK' /\ StepInv' /\ PlaceInv' /\ QueueInv'
  BY <1>1, <1>2, StepStays DEF TypeInv, TypeOK, Open, PlaceInv, QueueInv
<1>4. \A k \in Keys : Safe(k) => Safe(k)'
  BY <1>1 DEF Safe, Here, Queued, InJob, Stored, Has
<1>5. KeptInv' /\ OpenInv'
  BY <1>1, <1>4, KeptStays, OpenStays
<1> QED
  BY <1>3, <1>5 DEF RuntimeInv, TypeInv

LEMMA NothingIs ==
  /\ [k \in Keys |-> NoBucket] \in [Keys -> Kept]
  /\ [s \in Symbols |-> -1] \in [Symbols -> -1..Bucket(MaxClock)]
  /\ [s \in Symbols |-> 0] \in [Symbols -> Nat]
  /\ -1 \in -1..MaxClock /\ <<>> \in Seq(Command) /\ Len(<<>>) <= QueueRoom
<1>1. NoBucket \in Kept
  BY DEF NoBucket, Kept
<1>2. Bucket(MaxClock) \in Nat /\ MaxClock \in Nat /\ QueueRoom \in Nat
  BY BucketIn, RuntimeAssumption
<1>3. -1 \in -1..Bucket(MaxClock) /\ -1 \in -1..MaxClock
  BY <1>2
<1>4. <<>> \in Seq(Command) /\ Len(<<>>) = 0
  OBVIOUS
<1> QED
  BY <1>1, <1>2, <1>3, <1>4

LEMMA RestartsKeeps ==
  ASSUME RuntimeInv, Restarts PROVE RuntimeInv'
<1>1. /\ TypeInv /\ sent' = [s \in Symbols |-> Made(s)] /\ last' = [s \in Symbols |-> 0]
      /\ maxSeen' = -1 /\ observed' = {} /\ lastMat' = [s \in Symbols |-> -1]
      /\ acc' = [k \in Keys |-> NoBucket] /\ rtDue' = {} /\ durDue' = {} /\ incomplete' = {}
      /\ step' = Idle /\ queue' = <<>> /\ job' = NoJob
      /\ start' = [s \in Symbols |-> -1]
      /\ UNCHANGED <<clock, tape, expected, rows, gaps>>
  BY DEF Restarts, RuntimeInv, exchange, database
<1>2. TypeOK'
  <2>1. step'.at \in {"idle", "gap", "sink", "build", "rows"}
    BY <1>1, IdleIs
  <2>2. /\ lastMat' \in [Symbols -> -1..Bucket(MaxClock)] /\ last' \in [Symbols -> Nat]
        /\ acc' \in [Keys -> Kept] /\ maxSeen' \in -1..MaxClock /\ Len(queue') <= QueueRoom
        /\ \A n \in DOMAIN queue' : IsCommand(queue'[n])
    BY <1>1, NothingIs
  <2>3. /\ clock' \in 0..MaxClock /\ tape' \in Tapes /\ expected' \subseteq Symbols
        /\ rows' \subseteq State /\ gaps' \subseteq GapRow
        /\ \A r, p \in rows' : r.key = p.key => r = p
    BY <1>1 DEF TypeInv, TypeOK
  <2> QED
    BY <1>1, <2>1, <2>2, <2>3 DEF TypeOK, Kept
<1>3. StepInv' /\ QueueInv'
  BY <1>1, IdleIs, NothingIs DEF QueueInv
<1>4. PlaceInv'
  <2>1. \A s \in Symbols : Made(s) \in 0..Len(tape[s]) /\ Len(tape[s]) \in Nat
    BY <1>1, MadeIs
  <2> QED
    BY <1>1, <2>1, NothingIs DEF PlaceInv
<1>6. OpenInv'
  BY <1>1 DEF OpenInv, NoBucket
<1>5. KeptInv'
  <2>1. \A s \in expected' : start'[s] = -1
    BY <1>1 DEF TypeInv, TypeOK
  <2> QED
    BY <2>1 DEF KeptInv
<1> QED
  BY <1>2, <1>3, <1>4, <1>5, <1>6 DEF RuntimeInv, TypeInv

LEMMA RuntimeInvStarts == Init => RuntimeInv
<1> SUFFICES ASSUME Init PROVE RuntimeInv
  OBVIOUS
<1>1. /\ clock = 0 /\ tape \in Tapes /\ sent = [s \in Symbols |-> 0]
      /\ expected \in SUBSET Universe /\ last = [s \in Symbols |-> 0]
      /\ maxSeen = -1 /\ observed = {} /\ lastMat = [s \in Symbols |-> -1]
      /\ acc = [k \in Keys |-> NoBucket] /\ rtDue = {} /\ durDue = {} /\ incomplete = {}
      /\ step = Idle /\ queue = <<>> /\ job = NoJob /\ rows = {} /\ gaps = {}
      /\ start = [s \in Symbols |-> -1]
  BY DEF Init
<1>2. /\ step = [at |-> "idle", event |-> <<>>, todo |-> <<>>, states |-> {}]
      /\ <<>> \in Seq(Command)
  BY <1>1 DEF Idle
<1>3. expected \subseteq Symbols /\ clock \in 0..MaxClock
  BY <1>1, RuntimeAssumption
<1>4. TypeOK
  <2>1. /\ lastMat \in [Symbols -> -1..Bucket(MaxClock)] /\ last \in [Symbols -> Nat]
        /\ acc \in [Keys -> Kept] /\ maxSeen \in -1..MaxClock /\ Len(queue) <= QueueRoom
        /\ \A n \in DOMAIN queue : IsCommand(queue[n])
    BY <1>1, NothingIs
  <2> QED
    BY <1>1, <1>2, <1>3, <2>1 DEF TypeOK, Kept
<1>5. StepInv
  BY <1>2 DEF StepInv
<1>6. QueueInv
  BY <1>1, <1>2 DEF QueueInv
<1>7. PlaceInv
  <2>1. \A s \in Symbols : Len(tape[s]) \in Nat
    BY <1>1, RuntimeAssumption
  <2> QED
    BY <1>1, <2>1, NothingIs DEF PlaceInv
<1>8. KeptInv /\ OpenInv
  BY <1>1, <1>3 DEF KeptInv, OpenInv, NoBucket
<1> QED
  BY <1>4, <1>5, <1>6, <1>7, <1>8 DEF RuntimeInv, TypeInv

LEMMA RuntimeInvStays == RuntimeInv /\ [Next]_vars => RuntimeInv'
<1> SUFFICES ASSUME RuntimeInv, [Next]_vars PROVE RuntimeInv'
  OBVIOUS
<1>1. CASE UNCHANGED vars
  <2>1. UNCHANGED <<clock, tape, sent, expected, last, maxSeen, observed, lastMat, acc, rtDue, durDue,
                    incomplete, step, queue, job, dead, rows, gaps, start, unstored>>
    BY <1>1 DEF vars, exchange, memory, writer, database, history
  <2>2. TypeOK' /\ StepInv' /\ PlaceInv' /\ QueueInv'
    BY <2>1, StepStays DEF RuntimeInv, TypeInv, TypeOK, Open, PlaceInv, QueueInv
  <2>3. \A k \in Keys : Safe(k) => Safe(k)'
    BY <2>1 DEF Safe, Here, Queued, InJob, Stored, Has
  <2>4. KeptInv' /\ OpenInv'
    BY <2>1, <2>3, KeptStays, OpenStays DEF RuntimeInv
  <2> QED
    BY <2>2, <2>4 DEF RuntimeInv, TypeInv
<1>2. CASE \E s \in Symbols : TradeArrives(s) \/ QuoteArrives(s) \/ Changes(s)
  BY <1>2, TradeArrivesKeeps, QuoteArrivesKeeps, ChangesKeeps
<1>3. CASE GapGoesIn \/ HubTakes \/ RowsAreBuilt \/ RowsGoIn \/ Cut
  BY <1>3, GapGoesInKeeps, HubTakesKeeps, RowsAreBuiltKeeps, RowsGoInKeeps, CutKeeps
<1>4. CASE WriterTakes \/ Writes \/ WritesUnheard \/ WriterFails
  BY <1>4, WriterTakesKeeps, WritesKeeps, WriterFailsKeeps
<1>5. CASE TimePasses \/ Restarts
  BY <1>5, TimePassesKeeps, RestartsKeeps
<1> QED
  BY <1>1, <1>2, <1>3, <1>4, <1>5 DEF Next

LEMMA RuntimeInvHolds == Spec => []RuntimeInv
<1> QED
  BY RuntimeInvStarts, RuntimeInvStays, PTL DEF Spec

(* Every variable keeps its type, the queue its bound, and the database one    *)
(* state per bucket.                                                           *)
THEOREM RuntimeTyped == Spec => []TypeOK
<1> QED
  BY RuntimeInvHolds, PTL DEF RuntimeInv, TypeInv

(* Every bucket of a symbol that stays expected, from its first to the latest  *)
(* one materialized, has a deadline, is on its way to the database or stored,  *)
(* unless a connection was cut while its row was built among many or waited    *)
(* for a full queue.                                                           *)
THEOREM NoBucketForgotten == Spec => []NothingForgotten
<1>1. RuntimeInv => NothingForgotten
  <2> SUFFICES ASSUME RuntimeInv, ~dead, NEW s \in expected, start[s] # -1,
                      NEW b \in start[s]..lastMat[s]
               PROVE  \/ <<s, b>> \in durDue \/ RowComing(<<s, b>>) \/ Stored(<<s, b>>)
                      \/ <<s, b>> \in unstored
    BY DEF NothingForgotten
  <2>1. start[s] \in Int /\ lastMat[s] \in Int
    BY DEF RuntimeInv, TypeInv, TypeOK, PlaceInv
  <2>2. Safe(<<s, b>>)
    BY <2>1 DEF RuntimeInv, KeptInv
  <2>3. Queued(<<s, b>>) \/ InJob(<<s, b>>) => RowComing(<<s, b>>)
    BY DEF Queued, InJob, RowComing, Coming, Has
  <2> QED
    BY <2>2, <2>3 DEF Safe, Here
<1> QED
  BY <1>1, RuntimeInvHolds, PTL

(* Whatever the order in which gaps and states are written, and however often: *)
(* no stored state that a stored gap reaches into is complete.                 *)
LEMMA CommitsStick ==
  ASSUME GapsStick, Commits
  PROVE  GapsStick'
<1>1. CASE job.gap \in gaps /\ UNCHANGED database
  BY <1>1 DEF GapsStick, database
<1>2. CASE gaps' = gaps \cup {job.gap} /\ rows' = MarkedBy(job.gap)
  <2> SUFFICES ASSUME NEW g \in gaps', NEW r \in rows', Covers(g, r.key), r.complete
               PROVE  FALSE
    BY DEF GapsStick
  <2>1. PICK p \in rows :
          /\ r = [key |-> p.key, trades |-> p.trades, quote |-> p.quote,
                  complete |-> p.complete /\ ~Covers(job.gap, p.key)]
    BY <1>2 DEF MarkedBy
  <2>2. r.key = p.key /\ (r.complete <=> p.complete /\ ~Covers(job.gap, p.key))
    BY <2>1
  <2>3. g = job.gap \/ g \in gaps
    BY <1>2
  <2> QED
    BY <2>2, <2>3 DEF GapsStick
<1>3. CASE rows' = Merged({Adjusted(st) : st \in job.states}) /\ UNCHANGED gaps
  <2>1. \A r \in rows' : r \in rows \/ \E st \in job.states : r = Adjusted(st)
    BY <1>3 DEF Merged
  <2>2. \A st : Adjusted(st).key = st.key /\
                \A g \in gaps : Covers(g, st.key) => ~Adjusted(st).complete
    BY DEF Adjusted
  <2> QED
    BY <1>3, <2>1, <2>2 DEF GapsStick
<1> QED
  BY <1>1, <1>2, <1>3 DEF Commits, database

THEOREM GapsAlwaysStick == Spec => []GapsStick
<1>1. Init => GapsStick
  BY DEF Init, GapsStick
<1>2. GapsStick /\ [Next]_vars => GapsStick'
  <2> SUFFICES ASSUME GapsStick, [Next]_vars PROVE GapsStick'
    OBVIOUS
  <2>1. CASE Writes \/ WritesUnheard
    BY <2>1, CommitsStick DEF Writes, WritesUnheard
  <2>2. CASE ~(Writes \/ WritesUnheard)
    <3>1. ASSUME NEW s \in Symbols, TradeArrives(s) \/ QuoteArrives(s) \/ Changes(s)
          PROVE  UNCHANGED <<rows, gaps>>
      BY <3>1 DEF TradeArrives, QuoteArrives, Arrives, Changes, database
    <3>2. ASSUME TimePasses \/ GapGoesIn \/ HubTakes \/ RowsAreBuilt \/ RowsGoIn \/ Cut
                 \/ WriterTakes \/ WriterFails \/ Restarts \/ UNCHANGED vars
          PROVE  UNCHANGED <<rows, gaps>>
      BY <3>2 DEF TimePasses, GapGoesIn, HubTakes, RowsAreBuilt, RowsGoIn, Cut, WriterTakes,
                  WriterFails, Restarts, vars, database
    <3>3. UNCHANGED <<rows, gaps>>
      BY <2>2, <3>1, <3>2 DEF Next
    <3> QED
      BY <3>3 DEF GapsStick
  <2> QED
    BY <2>1, <2>2
<1> QED
  BY <1>1, <1>2, PTL DEF Spec

-------------------------------------------------------------------------------
(* Marks and buckets: a mark lets through the buckets that end by it.          *)
LEMMA EndThrough ==
  ASSUME NEW b \in Int, NEW m \in Int
  PROVE  Through(m) \in Int /\ End(b) \in Int /\ (End(b) <= m <=> b <= Through(m))
<1>1. Width \in Nat \ {0}
  BY RuntimeAssumption
<1>2. Through(m) = (m - Width) \div Width /\ End(b) = (b + 1) * Width
  BY DEF Through, Bucket, End
<1> DEFINE q == (m - Width) \div Width
<1>3. q \in Int /\ q * Width <= m - Width /\ m - Width < q * Width + Width
  BY <1>1
<1>4. (b + 1) * Width \in Int /\ (b + 1) * Width = b * Width + Width /\ b * Width \in Int
  BY <1>1
<1> HIDE DEF q
<1>5. ASSUME b <= q PROVE b * Width <= q * Width
  BY <1>1, <1>3, <1>5
<1>6. ASSUME ~(b <= q) PROVE q * Width + Width <= b * Width
  <2>1. q + 1 <= b /\ q + 1 \in Int
    BY <1>3, <1>6
  <2>2. (q + 1) * Width <= b * Width
    BY <1>1, <2>1
  <2>3. (q + 1) * Width = q * Width + Width
    BY <1>1, <1>3
  <2> QED
    BY <2>2, <2>3
<1>7. End(b) <= m <=> b <= q
  BY <1>1, <1>2, <1>3, <1>4, <1>5, <1>6
<1> QED
  BY <1>2, <1>3, <1>4, <1>7 DEF q

LEMMA EndMono ==
  ASSUME NEW b \in Int, NEW c \in Int, b < c
  PROVE  End(b) \in Int /\ End(c) \in Int /\ End(b) + Width <= End(c)
<1>1. Width \in Nat \ {0}
  BY RuntimeAssumption
<1>2. b + 1 + 1 <= c + 1 /\ b + 1 \in Int /\ c + 1 \in Int
  OBVIOUS
<1>3. (b + 1 + 1) * Width <= (c + 1) * Width
  BY <1>1, <1>2
<1>4. (b + 1 + 1) * Width = (b + 1) * Width + Width
      /\ (b + 1) * Width \in Int /\ (c + 1) * Width \in Int
  BY <1>1, <1>2
<1> QED
  BY <1>3, <1>4 DEF End

LEMMA BucketEnds ==
  ASSUME NEW t \in Int, NEW b \in Int
  PROVE  Bucket(t) \in Int /\ t < End(Bucket(t)) /\ (End(b) <= t <=> b < Bucket(t))
<1>1. Width \in Nat \ {0}
  BY RuntimeAssumption
<1>2. Bucket(t) \in Int /\ Bucket(t) * Width <= t /\ t < Bucket(t) * Width + Width
  BY <1>1 DEF Bucket
<1>3. (Bucket(t) + 1) * Width = Bucket(t) * Width + Width /\ Bucket(t) * Width \in Int
  BY <1>1, <1>2
<1>4. ASSUME b < Bucket(t) PROVE End(b) <= t
  <2>1. b + 1 <= Bucket(t) /\ b + 1 \in Int
    BY <1>2, <1>4
  <2>2. (b + 1) * Width <= Bucket(t) * Width
    BY <1>1, <1>2, <2>1
  <2> QED
    BY <1>1, <1>2, <1>3, <2>1, <2>2 DEF End
<1>5. ASSUME ~(b < Bucket(t)) PROVE ~(End(b) <= t)
  <2>1. Bucket(t) + 1 <= b + 1 /\ b + 1 \in Int /\ Bucket(t) + 1 \in Int
    BY <1>2, <1>5
  <2>2. (Bucket(t) + 1) * Width <= (b + 1) * Width
    BY <1>1, <2>1
  <2> QED
    BY <1>1, <1>2, <1>3, <2>1, <2>2 DEF End
<1> QED
  BY <1>1, <1>2, <1>3, <1>4, <1>5 DEF End

-------------------------------------------------------------------------------
(* What observe_realtime's mark has passed: every expected symbol with a       *)
(* baseline is materialized up to there.                                       *)
MarkInv ==
  /\ \A s \in Symbols : lastMat[s] = -1 <=> start[s] = -1
  /\ \A s \in Symbols : lastMat[s] # -1 => s \in observed
  /\ through \in Int
  /\ through # -1 => through <= Through(maxSeen - RtDelay)
  /\ \A s \in expected : lastMat[s] # -1 => Through(maxSeen - RtDelay) <= lastMat[s]

KeyOf(e) == <<e.sym, Bucket(e.at)>>
Ahead(k) == k[1] \in expected /\ lastMat[k[1]] # -1 /\ lastMat[k[1]] < k[2]

(* An event that is late changes nothing but the list of the late ones.        *)
Passes(e, q, inc) ==
  /\ UNCHANGED <<maxSeen, observed, acc, lastMat, rtDue, durDue, start>>
  /\ incomplete' = inc /\ queue' = q /\ step' = Idle
  /\ through' \in Int /\ (through' # -1 => through' <= Through(maxSeen - RtDelay))
  /\ e.at <= maxSeen
  /\ late' = IF e.id = 0 THEN late ELSE late \cup {<<e.sym, e.id>>}

(* One that is not opens its own bucket and some ahead of the marks, a being   *)
(* the accumulators then and due what the realtime mark has to close.          *)
Moves(e) ==
  /\ \A s \in Symbols :
       /\ lastMat[s] <= lastMat'[s]
       /\ s # e.sym => start'[s] = start[s] /\ (lastMat[s] = -1 => lastMat'[s] = -1)
  /\ lastMat'[e.sym] # -1
  /\ lastMat[e.sym] = -1 => lastMat'[e.sym] = Bucket(e.at) /\ start'[e.sym] = Bucket(e.at)
  /\ lastMat[e.sym] # -1 => start'[e.sym] = start[e.sym]
  /\ \A s \in expected : lastMat'[s] # -1 => Through(maxSeen' - RtDelay) <= lastMat'[s]
  /\ through' \in Int /\ (through' # -1 => through' <= Through(maxSeen' - RtDelay))
  /\ observed' = observed \cup {e.sym}

Opens(e, a, due) ==
  /\ a \in [Keys -> Kept] /\ due \subseteq Keys /\ rtDue \subseteq due
  /\ \A k \in Keys : a[k].open <=> acc[k].open \/ k \in due
  /\ a[KeyOf(e)].open
  /\ \A k \in due : k \in rtDue \/ (~acc[k].open /\ (k = KeyOf(e) \/ Ahead(k)))
  /\ \A k \in Keys : acc[k].open \/ acc[k].trades = {} => acc[k].trades \subseteq a[k].trades
  /\ \A k \in Keys : a[k].open \/ a[k] = acc[k]
  /\ e.id # 0 => e.id \in a[KeyOf(e)].trades

Spans(due) ==
  \A s \in expected, b \in Int :
    start'[s] # -1 /\ start'[s] <= b /\ b <= lastMat'[s] =>
      \/ start[s] # -1 /\ start[s] <= b /\ b <= lastMat[s]
      \/ acc[<<s, b>>].open \/ <<s, b>> \in due

Ripe(due) == {k \in due : End(k[2]) <= maxSeen' - RtDelay}
Lasting(due) == durDue \cup (due \ rtDue)

Enters(e, q, inc, a, due) ==
  /\ maxSeen' = Most(maxSeen, e.at) /\ End(Bucket(e.at)) > maxSeen' - DurDelay
  /\ Moves(e) /\ Opens(e, a, due) /\ Spans(due)
  /\ rtDue' = due \ Ripe(due)
  /\ late' = late
  /\ \/ /\ acc' = a /\ queue' = q /\ incomplete' = inc /\ durDue' = Lasting(due)
        /\ step' = AtSink(Snapshots(a, Ripe(due), inc))
     \/ Ripe(due) = {} /\ ClosesDurably(q, a, Lasting(due), maxSeen' - DurDelay, inc)

LEMMA LastingAre ==
  ASSUME TypeInv, NEW e, NEW a, NEW due, Opens(e, a, due)
  PROVE  Lasting(due) \in SUBSET Keys /\ \A k \in Lasting(due) : a[k].open
<1>1. durDue \subseteq Keys /\ \A k \in durDue : acc[k].open
  BY DEF TypeInv, TypeOK, Open
<1> QED
  BY <1>1 DEF Opens, Lasting

LEMMA ObservesParts ==
  ASSUME TypeInv, MarkInv, NEW e \in Event, NEW q, NEW inc, Observes(e, q, inc)
  PROVE  /\ UNCHANGED <<told, unheard, unstored>>
         /\ \/ Passes(e, q, inc)
            \/ \E a \in [Keys -> Kept], due \in SUBSET Keys : Enters(e, q, inc, a, due)
<1> DEFINE max   == Most(maxSeen, e.at)
           rt    == max - RtDelay
           dur   == max - DurDelay
           key   == <<e.sym, Bucket(e.at)>>
           quiet == QuietFills(lastMat, rt)
           m1    == QuietReached(lastMat, rt)
           a1    == Opened(acc, quiet)
           obs   == observed \cup {e.sym}
           before == Fills(e.sym, obs, m1, key[2] - 1)
           reached == Reaching(e.sym, obs, m1, key[2] - 1)
           a2    == Added(Opened(a1, before), e)
           new   == Newly(acc, quiet) \cup Newly(a1, before) \cup Newly(a1, {key} \ before)
           due   == rtDue \cup new
           ready == {k \in due : End(k[2]) <= rt /\ a2[k].open}
           reach == IF Settled(rt) THEN through
                    ELSE IF expected # {} /\ observed # {} THEN Through(rt) ELSE through
<1>1. /\ maxSeen' = max /\ UNCHANGED <<told, unheard, unstored>>
      /\ \/ /\ Late(key[2], dur)
            /\ acc' = a1 /\ lastMat' = m1 /\ through' = reach
            /\ rtDue' = rtDue \cup Newly(acc, quiet)
            /\ durDue' = durDue \cup Newly(acc, quiet)
            /\ late' = IF e.id = 0 THEN late ELSE late \cup {<<e.sym, e.id>>}
            /\ incomplete' = inc /\ queue' = q /\ step' = Idle
            /\ UNCHANGED <<observed, start>>
         \/ /\ ~Late(key[2], dur)
            /\ observed' = obs
            /\ through' = IF e.sym \in observed THEN reach ELSE -1
            /\ lastMat' = Remember([m1 EXCEPT ![e.sym] = reached], key)
            /\ start' = [start EXCEPT ![e.sym] = IF lastMat[e.sym] = -1 THEN key[2] ELSE @]
            /\ rtDue' = {k \in due : End(k[2]) > rt}
            /\ late' = late
            /\ \/ /\ acc' = a2 /\ queue' = q /\ incomplete' = inc
                  /\ durDue' = durDue \cup new
                  /\ step' = AtSink(Snapshots(a2, ready, inc))
               \/ ready = {} /\ ClosesDurably(q, a2, durDue \cup new, dur, inc)
  BY DEF Observes
<1>2. /\ max \in 0..MaxClock /\ rt \in Int /\ dur \in Int /\ dur <= rt /\ rt <= MaxClock
      /\ e.sym \in Symbols /\ e.at \in 0..MaxClock /\ maxSeen \in -1..MaxClock
      /\ maxSeen <= max /\ e.at <= max /\ (max = maxSeen \/ max = e.at)
      /\ rt < dur + Width /\ e.id \in Nat /\ MaxClock \in Nat
      /\ maxSeen - RtDelay \in Int /\ maxSeen - RtDelay <= rt
  <2>1. /\ RtDelay \in Nat /\ DurDelay \in Nat /\ RtDelay <= DurDelay /\ MaxClock \in Nat
        /\ DurDelay - RtDelay < Width /\ Width \in Nat
    BY RuntimeAssumption
  <2>2. maxSeen \in -1..MaxClock
    BY DEF TypeInv, TypeOK
  <2>3. e.sym \in Symbols /\ e.at \in 0..MaxClock /\ e.id \in Nat
    BY DEF Event
  <2>4. max \in 0..MaxClock /\ maxSeen <= max /\ e.at <= max /\ (max = maxSeen \/ max = e.at)
    BY <2>1, <2>2, <2>3 DEF Most
  <2> QED
    BY <2>1, <2>2, <2>3, <2>4
<1>3. key \in Keys /\ key[1] = e.sym /\ key[2] \in 0..Bucket(MaxClock) /\ key[2] = Bucket(e.at)
  BY <1>2, BucketIn DEF Keys, Buckets
<1>4. /\ lastMat \in Marks /\ start \in Marks /\ acc \in [Keys -> Kept]
      /\ observed \subseteq Symbols /\ rtDue \subseteq Keys /\ expected \subseteq Symbols
      /\ \A k \in rtDue : acc[k].open
  BY DEF TypeInv, TypeOK, PlaceInv, Marks, Kept, Open
<1>5. /\ Through(rt) \in Int /\ Through(maxSeen - RtDelay) \in Int
      /\ Through(maxSeen - RtDelay) <= Through(rt)
      /\ through \in Int /\ (through # -1 => through <= Through(maxSeen - RtDelay))
  <2>1. /\ maxSeen - RtDelay - Width \in Int /\ rt - Width \in Int
        /\ maxSeen - RtDelay - Width <= rt - Width
    <3>1. Width \in Int /\ rt \in Int /\ maxSeen - RtDelay \in Int /\ maxSeen - RtDelay <= rt
      BY <1>2, RuntimeAssumption
    <3> HIDE DEF rt
    <3> QED
      BY <3>1
  <2>2. /\ Bucket(maxSeen - RtDelay - Width) \in Int /\ Bucket(rt - Width) \in Int
        /\ Bucket(maxSeen - RtDelay - Width) <= Bucket(rt - Width)
    BY ONLY <2>1, BucketMono
  <2>3. Through(maxSeen - RtDelay) = Bucket(maxSeen - RtDelay - Width)
        /\ Through(rt) = Bucket(rt - Width)
    BY DEF Through
  <2> QED
    BY <2>2, <2>3 DEF MarkInv
<1>6. reach \in Int /\ (reach # -1 => reach <= Through(rt))
  BY <1>5
<1> HIDE DEF max, rt, dur, key, obs, reach
<1>7. /\ quiet \subseteq Keys /\ m1 \in Marks
      /\ \A s \in Symbols :
           /\ lastMat[s] <= m1[s] /\ (lastMat[s] = -1 => m1[s] = -1)
           /\ \A b \in Int : lastMat[s] < b /\ b <= m1[s] => <<s, b>> \in quiet
  BY <1>2, <1>4, QuietAre
<1>8. \A s \in Symbols : lastMat[s] \in -1..Bucket(MaxClock) /\ Bucket(MaxClock) \in Nat
  BY <1>4, BucketIn DEF Marks
<1>9. \A s \in expected : lastMat[s] # -1 => Through(rt) <= m1[s]
  <2> SUFFICES ASSUME NEW s \in expected, lastMat[s] # -1 PROVE Through(rt) <= m1[s]
    OBVIOUS
  <2>1. s \in Symbols /\ s \in observed /\ Through(maxSeen - RtDelay) <= lastMat[s]
    BY <1>4 DEF MarkInv
  <2>2. CASE Settled(rt)
    <3>1. Through(rt) <= through /\ through # -1
      BY <2>2 DEF Settled
    <3>2. lastMat[s] <= m1[s] /\ lastMat[s] \in Int /\ m1[s] \in Int
      BY <1>7, <1>8, <2>1 DEF Marks
    <3> QED
      BY <1>5, <2>1, <3>1, <3>2
  <2>3. CASE ~Settled(rt)
    <3>1. m1[s] = Reaching(s, observed, lastMat, Through(rt))
      BY <2>1, <2>3 DEF QuietReached, m1
    <3>2. Reaching(s, observed, lastMat, Through(rt)) = Most(lastMat[s], Through(rt))
      BY <2>1 DEF Reaching, Dense
    <3> QED
      BY <1>5, <1>8, <2>1, <3>1, <3>2 DEF Most
  <2> QED
    BY <2>2, <2>3
<1>10. \A k \in quiet : Ahead(k)
  <2> SUFFICES ASSUME NEW k \in quiet PROVE Ahead(k)
    OBVIOUS
  <2>1. PICK s \in Symbols : k \in Fills(s, observed, lastMat, Through(rt))
    BY DEF QuietFills
  <2>2. k = <<s, k[2]>> /\ k[2] \in (lastMat[s] + 1)..Reaching(s, observed, lastMat, Through(rt))
    BY <2>1 DEF Fills
  <2>3. Dense(s, observed) /\ lastMat[s] # -1
    <3>1. SUFFICES ASSUME ~(Dense(s, observed) /\ lastMat[s] # -1) PROVE FALSE
      OBVIOUS
    <3>2. Reaching(s, observed, lastMat, Through(rt)) = lastMat[s]
      BY <3>1 DEF Reaching
    <3> QED
      BY <1>8, <2>2, <3>2
  <2>4. k[1] = s /\ lastMat[s] < k[2]
    BY <1>8, <2>2
  <2> QED
    BY <2>3, <2>4 DEF Ahead, Dense
<1> HIDE DEF quiet, m1
<1>11. /\ a1 \in [Keys -> Kept]
       /\ \A k \in Keys : a1[k].open <=> acc[k].open \/ k \in quiet
  BY <1>4, OpenedAre
<1>12. CASE /\ Late(key[2], dur)
            /\ acc' = a1 /\ lastMat' = m1 /\ through' = reach
            /\ rtDue' = rtDue \cup Newly(acc, quiet)
            /\ durDue' = durDue \cup Newly(acc, quiet)
            /\ late' = IF e.id = 0 THEN late ELSE late \cup {<<e.sym, e.id>>}
            /\ incomplete' = inc /\ queue' = q /\ step' = Idle
            /\ UNCHANGED <<observed, start>>
  <2>1. max = maxSeen /\ e.at <= maxSeen
    <3>1. e.at < End(key[2]) /\ End(key[2]) <= dur /\ End(key[2]) \in Int
      <4>1. e.at \in Int /\ key[2] \in Int
        BY <1>2, <1>3
      <4>2. e.at < End(Bucket(e.at)) /\ End(key[2]) \in Int
        BY <4>1, BucketEnds, EndThrough
      <4> QED
        BY <1>3, <1>12, <4>2 DEF Late
    <3>2. DurDelay \in Nat /\ dur = max - DurDelay
      BY RuntimeAssumption DEF dur
    <3> QED
      BY <1>2, <3>1, <3>2
  <2>2. rt = maxSeen - RtDelay
    BY <2>1 DEF rt
  <2>3. quiet = {} /\ m1 = lastMat
    <3>1. ASSUME NEW s \in Symbols
          PROVE  Reaching(s, observed, lastMat, Through(rt)) = lastMat[s]
      <4>1. CASE Dense(s, observed) /\ lastMat[s] # -1
        <5>1. Through(rt) <= lastMat[s]
          BY <2>2, <4>1 DEF MarkInv, Dense
        <5> QED
          BY <1>5, <1>8, <4>1, <5>1 DEF Reaching, Most
      <4>2. CASE ~(Dense(s, observed) /\ lastMat[s] # -1)
        BY <4>2 DEF Reaching
      <4> QED
        BY <4>1, <4>2
    <3>2. \A s \in Symbols : Fills(s, observed, lastMat, Through(rt)) = {}
      <4> SUFFICES ASSUME NEW s \in Symbols PROVE (lastMat[s] + 1)..lastMat[s] = {}
        BY <3>1 DEF Fills
      <4> QED
        BY <1>8
    <3>3. QuietFills(lastMat, rt) = {}
      BY <3>2 DEF QuietFills
    <3>4. \A s \in Symbols : m1[s] = lastMat[s]
      BY <3>1 DEF QuietReached, m1
    <3> QED
      BY <1>4, <1>7, <3>3, <3>4 DEF quiet, Marks
  <2>4. a1 = acc /\ Newly(acc, quiet) = {}
    <3>1. \A k \in Keys : a1[k] = acc[k]
      BY <2>3 DEF Opened, a1
    <3> QED
      BY <1>4, <1>11, <2>3, <3>1 DEF Newly
  <2>5. maxSeen' = maxSeen
    BY <1>1, <2>1
  <2> QED
    BY <1>1, <1>6, <1>12, <2>1, <2>2, <2>3, <2>4, <2>5 DEF Passes
<1>13. CASE /\ ~Late(key[2], dur)
            /\ observed' = obs
            /\ through' = IF e.sym \in observed THEN reach ELSE -1
            /\ lastMat' = Remember([m1 EXCEPT ![e.sym] = reached], key)
            /\ start' = [start EXCEPT ![e.sym] = IF lastMat[e.sym] = -1 THEN key[2] ELSE @]
            /\ rtDue' = {k \in due : End(k[2]) > rt}
            /\ late' = late
            /\ \/ /\ acc' = a2 /\ queue' = q /\ incomplete' = inc
                  /\ durDue' = durDue \cup new
                  /\ step' = AtSink(Snapshots(a2, ready, inc))
               \/ ready = {} /\ ClosesDurably(q, a2, durDue \cup new, dur, inc)
  <2>1. /\ before \subseteq Keys /\ reached \in -1..Bucket(MaxClock)
        /\ m1[e.sym] <= reached /\ (m1[e.sym] = -1 => reached = -1)
        /\ Dense(e.sym, obs) /\ m1[e.sym] # -1 => key[2] - 1 <= reached
        /\ \A b \in Int : m1[e.sym] < b /\ b <= reached => <<e.sym, b>> \in before
    <3>1. key[2] - 1 \in Int /\ key[2] - 1 <= Bucket(MaxClock)
      BY <1>3, BucketIn
    <3> QED
      BY <1>2, <1>7, <3>1, FillsAre
  <2>2. \A k \in before : Ahead(k)
    <3> SUFFICES ASSUME NEW k \in before PROVE Ahead(k)
      OBVIOUS
    <3>1. k = <<e.sym, k[2]>> /\ k[2] \in (m1[e.sym] + 1)..reached
      BY DEF Fills
    <3>2. m1[e.sym] \in Int /\ lastMat[e.sym] <= m1[e.sym] /\ lastMat[e.sym] \in Int
      BY <1>2, <1>7, <1>8 DEF Marks
    <3>3. Dense(e.sym, obs) /\ m1[e.sym] # -1
      <4>1. SUFFICES ASSUME ~(Dense(e.sym, obs) /\ m1[e.sym] # -1) PROVE FALSE
        OBVIOUS
      <4>2. reached = m1[e.sym]
        BY <4>1 DEF Reaching
      <4> QED
        BY <3>1, <3>2, <4>2
    <3>4. k[1] = e.sym /\ lastMat[e.sym] < k[2]
      BY <2>1, <3>1, <3>2
    <3> QED
      BY <1>2, <1>7, <3>3, <3>4 DEF Ahead, Dense
  <2> HIDE DEF before, reached
  <2>3. /\ a2 \in [Keys -> Kept]
        /\ \A k \in Keys :
             a2[k].open <=> acc[k].open \/ k \in quiet \/ k \in before \/ k = key
    <3>1. /\ Opened(a1, before) \in [Keys -> Kept]
          /\ \A k \in Keys : Opened(a1, before)[k].open <=> a1[k].open \/ k \in before
      BY <1>11, OpenedAre
    <3> QED
      BY <1>11, <3>1, AddedIs DEF key
  <2>4. /\ \A k \in Keys : acc[k].open \/ acc[k].trades = {} => acc[k].trades \subseteq a2[k].trades
        /\ e.id # 0 => e.id \in a2[key].trades
        /\ \A k \in Keys : a2[k].open \/ a2[k] = acc[k]
    <3> DEFINE o == Opened(a1, before)
    <3>1. \A k \in Keys : /\ acc[k].open \/ acc[k].trades = {} => acc[k].trades \subseteq o[k].trades
                          /\ o[k].open \/ o[k] = acc[k]
      BY <1>11 DEF Opened, Empty
    <3>2. o \in [Keys -> Kept]
      BY <1>11, OpenedAre
    <3> HIDE DEF o
    <3>3. /\ a2 = [o EXCEPT ![key] = [open |-> TRUE,
                 trades |-> IF e.id = 0 THEN o[key].trades ELSE o[key].trades \cup {e.id},
                 quote |-> o[key].quote \/ e.id = 0]]
      BY DEF Added, key, o
    <3>4. \A k \in Keys : k # key => a2[k] = o[k]
      BY <3>2, <3>3
    <3>5. /\ a2[key].trades = IF e.id = 0 THEN o[key].trades ELSE o[key].trades \cup {e.id}
          /\ a2[key].open
      BY <1>3, <3>2, <3>3
    <3> QED
      BY <1>3, <3>1, <3>4, <3>5
  <2> HIDE DEF a2
  <2>5. /\ due \subseteq Keys /\ rtDue \subseteq due
        /\ \A k \in Keys : a2[k].open <=> acc[k].open \/ k \in due
        /\ \A k \in due : k \in rtDue \/ (~acc[k].open /\ (k = key \/ Ahead(k)))
        /\ Lasting(due) = durDue \cup new
    <3>1. \A k \in due : /\ k \in Keys /\ a2[k].open
                         /\ k \in rtDue \/ (~acc[k].open /\ (k = key \/ Ahead(k)))
      BY <1>3, <1>4, <1>7, <1>10, <1>11, <2>1, <2>2, <2>3 DEF Newly
    <3>2. \A k \in Keys : a2[k].open => acc[k].open \/ k \in due
      BY <1>11, <2>3 DEF Newly
    <3>3. \A k \in new : ~acc[k].open
      <4> SUFFICES ASSUME NEW k \in new PROVE ~acc[k].open
        OBVIOUS
      <4>1. \/ k \in quiet /\ ~acc[k].open
            \/ k \in before /\ ~a1[k].open
            \/ k \in {key} \ before /\ ~a1[k].open
        BY DEF Newly
      <4>2. k \in Keys
        BY <1>7, <2>1, <4>1, <1>3
      <4> QED
        BY <1>11, <4>1, <4>2
    <3>4. Lasting(due) = durDue \cup new
      <4> HIDE DEF new
      <4> QED
        BY <1>4, <3>3 DEF Lasting
    <3> QED
      BY <2>3, <3>1, <3>2, <3>4
  <2> HIDE DEF due, new
  <2>6. End(key[2]) > dur /\ End(key[2]) \in Int
    <3>1. key[2] \in Int
      BY <1>3
    <3>2. End(key[2]) \in Int
      BY <3>1, EndThrough
    <3> QED
      BY <1>2, <1>13, <3>2 DEF Late
  <2>7. /\ lastMat' \in Marks /\ lastMat'[e.sym] = Most(reached, key[2])
        /\ \A s \in Symbols : s # e.sym => lastMat'[s] = m1[s]
    BY <1>2, <1>3, <1>7, <1>13, <2>1 DEF Remember, Marks, Most
  <2>8. /\ start'[e.sym] = IF lastMat[e.sym] = -1 THEN key[2] ELSE start[e.sym]
        /\ \A s \in Symbols : s # e.sym => start'[s] = start[s]
    BY <1>2, <1>3, <1>4, <1>13 DEF Marks
  <2>9. maxSeen' = max /\ maxSeen' - RtDelay = rt /\ maxSeen' - DurDelay = dur
    BY <1>1 DEF rt, dur
  <2>10. Moves(e)
    <3>1. lastMat'[e.sym] # -1 /\ m1[e.sym] <= lastMat'[e.sym] /\ key[2] <= lastMat'[e.sym]
      BY <1>2, <1>3, <1>7, <2>1, <2>7 DEF Most, Marks
    <3>2. \A s \in Symbols : lastMat[s] <= lastMat'[s]
      BY <1>2, <1>7, <1>8, <2>7, <3>1 DEF Marks
    <3>3. lastMat[e.sym] = -1 => lastMat'[e.sym] = key[2]
      BY <1>2, <1>3, <1>7, <2>1, <2>7 DEF Most
    <3>4. Through(rt) <= key[2]
      <4>1. ~(End(key[2] + 1) <= rt)
        <5>1. key[2] \in Int /\ key[2] + 1 \in Int /\ key[2] < key[2] + 1 /\ Width \in Int
          BY <1>3, RuntimeAssumption
        <5>2. End(key[2]) + Width <= End(key[2] + 1) /\ End(key[2] + 1) \in Int
          BY <5>1, EndMono
        <5> QED
          BY <1>2, <2>6, <5>1, <5>2
      <4>2. ~(key[2] + 1 <= Through(rt))
        BY <1>2, <1>3, <4>1, EndThrough
      <4> QED
        BY <1>3, <1>5, <4>2
    <3>5. ASSUME NEW s \in expected, lastMat'[s] # -1 PROVE Through(rt) <= lastMat'[s]
      <4>1. CASE s = e.sym
        <5>1. lastMat'[s] \in Int /\ key[2] \in Int
          BY <1>2, <1>3, <2>7, <4>1, BucketIn DEF Marks
        <5> QED
          BY <1>5, <3>1, <3>4, <4>1, <5>1
      <4>2. CASE s # e.sym
        <5>1. s \in Symbols /\ lastMat'[s] = m1[s] /\ lastMat[s] # -1
          BY <1>4, <1>7, <2>7, <3>5, <4>2
        <5> QED
          BY <1>9, <5>1
      <4> QED
        BY <4>1, <4>2
    <3>6. through' \in Int /\ (through' # -1 => through' <= Through(rt))
      BY <1>6, <1>13
    <3>7. \A s \in Symbols : s # e.sym /\ lastMat[s] = -1 => lastMat'[s] = -1
      BY <1>7, <2>7
    <3> QED
      BY <1>3, <1>13, <2>8, <2>9, <3>1, <3>2, <3>3, <3>5, <3>6, <3>7 DEF Moves, obs
  <2>11. Opens(e, a2, due)
    BY <1>3, <2>3, <2>4, <2>5 DEF Opens, KeyOf, key
  <2>12. Spans(due)
    <3> SUFFICES ASSUME NEW s \in expected, NEW b \in Int,
                        start'[s] # -1, start'[s] <= b, b <= lastMat'[s]
                 PROVE  \/ start[s] # -1 /\ start[s] <= b /\ b <= lastMat[s]
                        \/ acc[<<s, b>>].open \/ <<s, b>> \in due
      BY DEF Spans
    <3>1. /\ s \in Symbols /\ lastMat[s] \in -1..Bucket(MaxClock) /\ m1[s] \in -1..Bucket(MaxClock)
          /\ reached \in -1..Bucket(MaxClock) /\ Bucket(MaxClock) \in Nat
      BY <1>4, <1>7, <2>1, BucketIn DEF Marks
    <3>2. <<s, b>> \in Keys /\ a2[<<s, b>>].open => acc[<<s, b>>].open \/ <<s, b>> \in due
      BY <2>5
    <3>3. lastMat[s] < b /\ b <= m1[s] => <<s, b>> \in Keys /\ a2[<<s, b>>].open
      BY <1>7, <2>3, <3>1
    <3>4. CASE s # e.sym
      <4>1. start'[s] = start[s] /\ lastMat'[s] = m1[s]
        BY <2>7, <2>8, <3>1, <3>4
      <4> QED
        BY <3>1, <3>2, <3>3, <4>1
    <3>5. CASE s = e.sym
      <4>1. m1[s] < b /\ b <= reached => <<s, b>> \in Keys /\ a2[<<s, b>>].open
        BY <2>1, <2>3, <3>5
      <4>2. b = key[2] => <<s, b>> \in Keys /\ a2[<<s, b>>].open
        BY <1>3, <2>3, <3>5 DEF key
      <4>3. CASE lastMat[s] = -1
        <5>1. start'[s] = key[2] /\ reached = -1 /\ lastMat'[s] = key[2]
          BY <1>3, <1>7, <2>1, <2>7, <2>8, <3>1, <3>5, <4>3 DEF Most
        <5>2. b = key[2]
          BY <1>3, <5>1
        <5> QED
          BY <3>2, <4>2, <5>2
      <4>4. CASE lastMat[s] # -1
        <5>1. start'[s] = start[s] /\ lastMat'[s] = Most(reached, key[2])
          BY <2>7, <2>8, <3>5, <4>4
        <5>2. m1[s] # -1 /\ key[2] - 1 <= reached
          <6>1. m1[s] # -1
            BY <1>7, <3>1, <4>4
          <6>2. Dense(e.sym, obs)
            BY <3>5 DEF Dense, obs
          <6> QED
            BY <2>1, <3>5, <6>1, <6>2
        <5>3. b <= reached \/ b = key[2]
          BY <1>3, <3>1, <5>1, <5>2 DEF Most
        <5>4. CASE b <= lastMat[s]
          BY <4>4, <5>1, <5>4
        <5>5. CASE lastMat[s] < b
          BY <3>1, <3>2, <3>3, <4>1, <4>2, <5>3, <5>5
        <5> QED
          BY <3>1, <5>4, <5>5
      <4> QED
        BY <4>3, <4>4
    <3> QED
      BY <3>4, <3>5
  <2>13. Ripe(due) = {k \in due : End(k[2]) <= rt}
    BY <2>9 DEF Ripe
  <2>14. ready = Ripe(due)
    BY <2>5, <2>13
  <2>15. rtDue' = due \ Ripe(due)
    <3>1. \A k \in due : End(k[2]) > rt <=> ~(End(k[2]) <= rt)
      BY <1>2, <2>5, EndIsInt
    <3> QED
      BY <1>13, <2>13, <3>1
  <2> HIDE DEF ready
  <2>16. Enters(e, q, inc, a2, due)
    <3>1. /\ maxSeen' = Most(maxSeen, e.at) /\ End(Bucket(e.at)) > maxSeen' - DurDelay
      BY <1>3, <2>6, <2>9 DEF max
    <3> QED
      BY <1>13, <2>5, <2>9, <2>10, <2>11, <2>12, <2>14, <2>15, <3>1 DEF Enters
  <2> QED
    BY <1>1, <2>3, <2>5, <2>16
<1> QED
  BY <1>1, <1>12, <1>13

-------------------------------------------------------------------------------
(* What the hub was told.  Met(k): bucket k is due, or was told, or was lost   *)
(* with the connection that had it.                                            *)
Met(k) == k \in rtDue \cup Heard \cup unheard

HubInv ==
  /\ step.at # "sink" => step.states = {}
  /\ told \subseteq Keys
  /\ \A k \in rtDue : End(k[2]) > maxSeen - RtDelay
  /\ \A k \in Heard : End(k[2]) <= maxSeen - RtDelay
  /\ \A st \in step.states : acc[st.key].open
  /\ \A k \in told : acc[k].open \/ End(k[2]) <= maxSeen - DurDelay
  /\ \A k \in Keys : acc[k].open => Met(k)
  /\ \A s \in expected, b \in Int :
       start[s] # -1 /\ start[s] <= b /\ b <= lastMat[s] => Met(<<s, b>>)
  /\ \A st \in step.states, k \in told : k[1] = st.key[1] => k[2] < st.key[2]

LEMMA EndOrder ==
  ASSUME NEW b \in Int, NEW c \in Int
  PROVE  End(b) \in Int /\ End(c) \in Int /\ (b <= c <=> End(b) <= End(c))
<1>1. End(b) \in Int /\ End(c) \in Int
  BY EndThrough
<1>2. Width \in Nat \ {0}
  BY RuntimeAssumption
<1>3. b < c => End(b) + Width <= End(c)
  BY EndMono
<1>4. c < b => End(c) + Width <= End(b)
  BY EndMono
<1> QED
  BY <1>1, <1>2, <1>3, <1>4

LEMMA MarkStays ==
  ASSUME MarkInv, UNCHANGED <<maxSeen, observed, lastMat, start, expected>>,
         through' \in Int, through' # -1 => through' <= Through(maxSeen - RtDelay)
  PROVE  MarkInv'
  BY DEF MarkInv

LEMMA HubStays ==
  ASSUME HubInv, UNCHANGED <<maxSeen, lastMat, start, rtDue, acc, expected, told, unheard>>,
         step' = step \/ (step.at # "sink" /\ step'.states = {})
  PROVE  HubInv'
<1>1. step'.states = step.states /\ (step'.at # "sink" => step'.states = {})
  BY DEF HubInv
<1>2. Heard' = Heard
  BY <1>1 DEF Heard
<1>3. \A k : Met(k)' <=> Met(k)
  BY <1>2 DEF Met
<1> QED
  BY <1>1, <1>2, <1>3 DEF HubInv

LEMMA HubObserving ==
  ASSUME TypeInv, MarkInv, HubInv, NEW e \in Event, NEW q \in Seq(Command),
         Len(q) <= QueueRoom, NEW inc \in SUBSET Keys, Observes(e, q, inc),
         expected' = expected, step.at # "sink"
  PROVE  MarkInv' /\ HubInv'
<1>1. /\ UNCHANGED <<told, unheard, unstored>>
      /\ \/ Passes(e, q, inc)
         \/ \E a \in [Keys -> Kept], due \in SUBSET Keys : Enters(e, q, inc, a, due)
  BY ObservesParts
<1>2. CASE Passes(e, q, inc)
  <2>1. MarkInv'
    BY <1>2, MarkStays DEF Passes
  <2>2. step'.states = {}
    BY <1>2 DEF Passes, Idle
  <2>3. HubInv'
    BY <1>1, <1>2, <2>2, HubStays DEF Passes
  <2> QED
    BY <2>1, <2>3
<1>3. ASSUME NEW a \in [Keys -> Kept], NEW due \in SUBSET Keys, Enters(e, q, inc, a, due)
      PROVE  MarkInv' /\ HubInv'
  <2>1. /\ maxSeen' = Most(maxSeen, e.at) /\ End(Bucket(e.at)) > maxSeen' - DurDelay
        /\ Moves(e) /\ Opens(e, a, due) /\ Spans(due) /\ rtDue' = due \ Ripe(due)
    BY <1>3 DEF Enters
  <2>2. /\ maxSeen \in Int /\ maxSeen' \in Int /\ maxSeen <= maxSeen'
        /\ e.sym \in Symbols /\ Bucket(e.at) \in Int /\ KeyOf(e) \in Keys
        /\ expected \subseteq Symbols
        /\ RtDelay \in Nat /\ DurDelay \in Nat /\ RtDelay <= DurDelay
        /\ DurDelay - RtDelay < Width /\ Width \in Nat
    <3>1. e.sym \in Symbols /\ e.at \in 0..MaxClock /\ MaxClock \in Nat
      BY RuntimeAssumption DEF Event
    <3>2. maxSeen \in -1..MaxClock /\ expected \subseteq Symbols
      BY DEF TypeInv, TypeOK
    <3>3. Bucket(e.at) \in Buckets /\ Buckets \subseteq Int
      BY <3>1, BucketIn DEF Buckets
    <3>4. maxSeen \in Int /\ maxSeen' \in Int /\ maxSeen <= maxSeen'
      BY <2>1, <3>1, <3>2 DEF Most
    <3> QED
      BY <3>1, <3>2, <3>3, <3>4, RuntimeAssumption DEF KeyOf, Keys
  <2>3. \A s \in Symbols : lastMat[s] \in Int /\ start[s] \in Int
    BY BucketIn DEF TypeInv, TypeOK, PlaceInv
  <2>4. /\ \A k \in Keys : acc'[k].open => a[k].open
        /\ \A k \in Keys : a[k].open => acc'[k].open \/ End(k[2]) <= maxSeen' - DurDelay
        /\ \A k \in Ripe(due) : k \in Keys /\ acc'[k].open
        /\ {st.key : st \in step'.states} = Ripe(due)
        /\ step'.at # "sink" => step'.states = {}
    <3>1. CASE acc' = a /\ step' = AtSink(Snapshots(a, Ripe(due), inc))
      <4>1. step'.at = "sink" /\ step'.states = Snapshots(a, Ripe(due), inc)
        BY <3>1 DEF AtSink
      <4>2. {st.key : st \in step'.states} = Ripe(due)
        BY <4>1, SnapshotKeys
      <4>3. Ripe(due) \subseteq due /\ \A k \in due : a[k].open
        BY <2>1 DEF Ripe, Opens
      <4> QED
        BY <3>1, <4>1, <4>2, <4>3
    <3>2. CASE Ripe(due) = {} /\ ClosesDurably(q, a, Lasting(due), maxSeen' - DurDelay, inc)
      <4>1. maxSeen' - DurDelay \in Int
        BY <2>2
      <4>2. Lasting(due) \in SUBSET Keys /\ \A k \in Lasting(due) : a[k].open
        BY <2>1, LastingAre
      <4>3. /\ \A k \in Keys : acc'[k].open => a[k].open
            /\ \A k \in Keys : a[k].open /\ ~acc'[k].open => End(k[2]) <= maxSeen' - DurDelay
            /\ step' \in [at : {"idle", "build", "rows"}, event : {<<>>}, todo : Seq(Command),
                          states : {{}}]
        <5>1. /\ q \in Seq(Command) /\ Len(q) <= QueueRoom /\ a \in [Keys -> Kept]
              /\ Lasting(due) \in SUBSET Keys /\ \A k \in Lasting(due) : a[k].open
              /\ maxSeen' - DurDelay \in Int /\ inc \in SUBSET Keys
          BY <4>1, <4>2
        <5>2. ClosesDurably(q, a, Lasting(due), maxSeen' - DurDelay, inc)
          BY <3>2
        <5>3. AfterCloses(q, a, Lasting(due), maxSeen' - DurDelay)
          BY <5>1, <5>2, ClosesAre, Zenon
        <5> QED
          BY <5>3 DEF AfterCloses
      <4>4. step'.states = {}
        BY <4>3
      <4> QED
        BY <3>2, <4>3, <4>4
    <3> QED
      BY <1>3, <3>1, <3>2 DEF Enters
  <2>5. Heard = told /\ Heard' = told \cup Ripe(due)
    BY <1>1, <2>4 DEF Heard, HubInv
  <2>6. /\ rtDue \subseteq due /\ \A k \in Keys : a[k].open <=> acc[k].open \/ k \in due
        /\ \A k \in due : k \in rtDue \/ (~acc[k].open /\ (k = KeyOf(e) \/ Ahead(k)))
    BY <2>1 DEF Opens
  <2>7. /\ \A k \in due : Met(k)'
        /\ \A k : Met(k) => Met(k)'
    BY <1>1, <2>1, <2>5, <2>6 DEF Met
  <2>8. MarkInv'
    <3>1. \A s \in Symbols : lastMat'[s] = -1 <=> start'[s] = -1
      <4> SUFFICES ASSUME NEW s \in Symbols PROVE lastMat'[s] = -1 <=> start'[s] = -1
        OBVIOUS
      <4>0. lastMat[s] <= lastMat'[s] /\ lastMat[s] \in -1..Bucket(MaxClock)
        BY <2>1 DEF Moves, TypeInv, TypeOK
      <4>1. CASE s # e.sym
        BY <2>1, <2>3, <4>0, <4>1, BucketIn DEF Moves, MarkInv
      <4>2. CASE s = e.sym
        BY <2>1, <2>3, <4>0, <4>2 DEF Moves, MarkInv
      <4> QED
        BY <4>1, <4>2
    <3>2. \A s \in Symbols : lastMat'[s] # -1 => s \in observed'
      BY <2>1 DEF Moves, MarkInv
    <3> QED
      BY <2>1, <3>1, <3>2 DEF Moves, MarkInv
  <2>9. \A k \in rtDue' : End(k[2]) > maxSeen' - RtDelay
    BY <2>1, <2>2, EndIsInt DEF Ripe
  <2>10. \A k \in Heard' : End(k[2]) <= maxSeen' - RtDelay
    <3>1. ASSUME NEW k \in told PROVE End(k[2]) <= maxSeen' - RtDelay
      <4>1. End(k[2]) \in Int /\ End(k[2]) <= maxSeen - RtDelay
        BY <2>5, EndIsInt DEF HubInv
      <4> QED
        BY <2>2, <4>1
    <3> QED
      BY <2>5, <3>1 DEF Ripe
  <2>11. \A st \in step'.states : acc'[st.key].open
    BY <2>4
  <2>12. \A k \in told : acc'[k].open \/ End(k[2]) <= maxSeen' - DurDelay
    <3> SUFFICES ASSUME NEW k \in told PROVE acc'[k].open \/ End(k[2]) <= maxSeen' - DurDelay
      OBVIOUS
    <3>1. k \in Keys /\ End(k[2]) \in Int
      BY EndIsInt DEF HubInv
    <3>2. CASE acc[k].open
      BY <2>4, <2>6, <3>1, <3>2
    <3>3. CASE End(k[2]) <= maxSeen - DurDelay
      BY <2>2, <3>1, <3>3
    <3> QED
      BY <3>2, <3>3 DEF HubInv
  <2>13. \A k \in Keys : acc'[k].open => Met(k)'
    BY <2>4, <2>6, <2>7 DEF HubInv
  <2>14. ASSUME NEW s \in expected, NEW b \in Int,
                start'[s] # -1, start'[s] <= b, b <= lastMat'[s]
         PROVE  Met(<<s, b>>)'
    <3>1. \/ start[s] # -1 /\ start[s] <= b /\ b <= lastMat[s]
          \/ acc[<<s, b>>].open \/ <<s, b>> \in due
      BY <2>1, <2>14 DEF Spans
    <3>2. CASE start[s] # -1 /\ start[s] <= b /\ b <= lastMat[s]
      BY <2>7, <3>2 DEF HubInv
    <3>3. CASE acc[<<s, b>>].open /\ <<s, b>> \in Keys
      BY <2>7, <3>3 DEF HubInv
    <3>4. <<s, b>> \in Keys
      <4>1. start'[s] \in -1..Bucket(MaxClock) /\ lastMat'[s] \in -1..Bucket(MaxClock)
        BY <2>2, ObservesAre DEF Marks
      <4> QED
        BY <2>2, <2>14, <4>1, BucketIn DEF Keys, Buckets
    <3> QED
      BY <2>7, <3>1, <3>2, <3>3, <3>4
  <2>15. ASSUME NEW r \in Ripe(due), NEW k \in told, k[1] = r[1]
         PROVE  k[2] < r[2]
    <3>1. /\ k \in Keys /\ r \in Keys /\ k[2] \in Int /\ r[2] \in Int /\ k[1] \in Symbols
          /\ r \in due /\ End(k[2]) \in Int /\ End(r[2]) \in Int
      BY EndIsInt, BucketIn DEF HubInv, Ripe, Keys, Buckets
    <3>2. End(k[2]) <= maxSeen - RtDelay
      BY <2>5 DEF HubInv
    <3>3. CASE r \in rtDue
      <4>1. End(r[2]) > maxSeen - RtDelay
        BY <3>3 DEF HubInv
      <4>2. ~(r[2] <= k[2])
        <5>1. ~(End(r[2]) <= End(k[2]))
          BY <2>2, <3>1, <3>2, <4>1
        <5> QED
          BY <3>1, <5>1, EndOrder
      <4> QED
        BY <3>1, <4>2
    <3>4. CASE ~acc[r].open /\ Ahead(r)
      <4>1. k[2] <= Through(maxSeen - RtDelay) /\ Through(maxSeen - RtDelay) \in Int
        <5>1. maxSeen - RtDelay \in Int
          BY <2>2
        <5> QED
          BY <3>1, <3>2, <5>1, EndThrough
      <4>2. Through(maxSeen - RtDelay) <= lastMat[r[1]] /\ lastMat[r[1]] < r[2]
        BY <3>4 DEF Ahead, MarkInv
      <4> QED
        BY <2>3, <2>15, <3>1, <4>1, <4>2
    <3>5. CASE ~acc[r].open /\ r = KeyOf(e)
      <4>1. r[2] = Bucket(e.at) /\ End(r[2]) > maxSeen' - DurDelay
        BY <2>1, <3>5 DEF KeyOf
      <4>2. k[2] # r[2]
        <5>1. SUFFICES ASSUME k[2] = r[2] PROVE FALSE
          OBVIOUS
        <5>2. k = r
          BY <2>15, <3>1, <5>1 DEF Keys
        <5>3. End(k[2]) <= maxSeen - DurDelay
          BY <3>5, <5>2 DEF HubInv
        <5> QED
          BY <2>2, <3>1, <4>1, <5>2, <5>3
      <4>3. ~(r[2] < k[2])
        <5>1. SUFFICES ASSUME r[2] < k[2] PROVE FALSE
          OBVIOUS
        <5>2. End(r[2]) + Width <= End(k[2])
          BY <3>1, <5>1, EndMono
        <5> QED
          BY <2>2, <3>1, <3>2, <4>1, <5>2
      <4> QED
        BY <3>1, <4>2, <4>3
    <3> QED
      BY <2>6, <3>1, <3>3, <3>4, <3>5
  <2>16. \A st \in step'.states, k \in told' : k[1] = st.key[1] => k[2] < st.key[2]
    BY <1>1, <2>4, <2>15
  <2> QED
    BY <1>1, <2>4, <2>8, <2>9, <2>10, <2>11, <2>12, <2>13, <2>14, <2>16 DEF HubInv
<1> QED
  BY <1>1, <1>2, <1>3

LEMMA TradeIs ==
  ASSUME TypeInv, NEW s \in Symbols, NEW i \in ({last[s]} \ {0}) \cup ((sent[s] + 1)..Made(s))
  PROVE  i \in 1..Len(tape[s]) /\ Len(tape[s]) \in Nat /\ tape[s][i] \in 0..MaxClock
<1>1. tape[s] \in Seq(0..MaxClock) /\ Made(s) \in 0..Len(tape[s])
  BY MadeIs
<1>2. last[s] \in Nat /\ last[s] <= Len(tape[s]) /\ sent[s] \in Nat /\ Len(tape[s]) \in Nat
  BY <1>1 DEF TypeInv, TypeOK, PlaceInv
<1>3. i \in 1..Len(tape[s])
  BY <1>1, <1>2
<1> QED
  BY <1>1, <1>2, <1>3, ElementIs

LEMMA HubArrives ==
  ASSUME RuntimeInv, MarkInv, HubInv, NEW e \in Event, Arrives(e)
  PROVE  MarkInv' /\ HubInv'
<1>1. step = Idle /\ TypeInv /\ expected' = expected /\ step.at # "sink"
  BY DEF Arrives, RuntimeInv, Idle
<1>2. queue \in Seq(Command) /\ Len(queue) <= QueueRoom /\ incomplete \in SUBSET Keys
  BY <1>1 DEF TypeInv, TypeOK, QueueInv
<1>3. CASE UNCHANGED <<Unseen, step>>
  BY <1>1, <1>3, MarkStays, HubStays DEF Unseen, MarkInv
<1>4. CASE Observes(e, queue, incomplete)
  BY <1>1, <1>2, <1>4, HubObserving
<1> DEFINE g == GapBefore(e)
           inc == incomplete \cup Marked(g.sym, g.lo, g.hi)
<1>5. AfterGap(e) => Gap(g) \in Command /\ inc \in SUBSET Keys
  BY <1>1, <1>2, GapIs
<1> HIDE DEF g, inc
<1>6. CASE AfterGap(e) /\ Len(queue) < QueueRoom /\ Observes(e, Append(queue, Gap(g)), inc)
  BY <1>1, <1>2, <1>5, <1>6, AppendIs, HubObserving
<1>7. CASE step' = AtGap(e, g) /\ UNCHANGED Unseen
  <2>1. step'.states = {}
    BY <1>7 DEF AtGap
  <2> QED
    BY <1>1, <1>7, <2>1, MarkStays, HubStays DEF Unseen, MarkInv
<1> QED
  BY <1>3, <1>4, <1>6, <1>7 DEF Arrives, Unseen, g, inc

LEMMA HubHears ==
  ASSUME TypeInv, MarkInv, HubInv, HubTakes PROVE MarkInv' /\ HubInv'
<1>1. /\ step.at = "sink" /\ told' = told \cup {st.key : st \in step.states}
      /\ ClosesDurably(queue, acc, durDue, maxSeen - DurDelay, incomplete)
      /\ UNCHANGED <<maxSeen, observed, lastMat, through, start, rtDue, expected, unheard>>
  BY DEF HubTakes
<1>2. /\ queue \in Seq(Command) /\ Len(queue) <= QueueRoom /\ acc \in [Keys -> Kept]
      /\ maxSeen - DurDelay \in Int /\ incomplete \in SUBSET Keys
      /\ step.states \subseteq State
      /\ durDue \in SUBSET Keys /\ \A k \in durDue : acc[k].open
  <2>1. maxSeen \in -1..MaxClock /\ MaxClock \in Int /\ DurDelay \in Int
    BY RuntimeAssumption DEF TypeInv, TypeOK
  <2>2. maxSeen - DurDelay \in Int
    BY <2>1
  <2> QED
    BY <2>2 DEF TypeInv, TypeOK, StepInv, QueueInv, Kept, Open
<1>3. /\ \A k \in Keys : acc'[k].open => acc[k].open
      /\ \A k \in Keys : acc[k].open /\ ~acc'[k].open => End(k[2]) <= maxSeen - DurDelay
      /\ step' \in [at : {"idle", "build", "rows"}, event : {<<>>}, todo : Seq(Command),
                    states : {{}}]
  <2>1. /\ queue \in Seq(Command) /\ Len(queue) <= QueueRoom /\ acc \in [Keys -> Kept]
        /\ durDue \in SUBSET Keys /\ \A k \in durDue : acc[k].open
        /\ maxSeen - DurDelay \in Int /\ incomplete \in SUBSET Keys
    BY <1>2
  <2>2. ClosesDurably(queue, acc, durDue, maxSeen - DurDelay, incomplete)
    BY <1>1
  <2>3. AfterCloses(queue, acc, durDue, maxSeen - DurDelay)
    BY <2>1, <2>2, ClosesAre, Zenon
  <2> QED
    BY <2>3 DEF AfterCloses
<1>4. step'.states = {}
  BY <1>3
<1>5. Heard' = Heard /\ told' = Heard
  BY <1>1, <1>4 DEF Heard
<1>6. \A k : Met(k)' <=> Met(k)
  BY <1>1, <1>5 DEF Met
<1>7. told' \subseteq Keys
  BY <1>1, <1>2 DEF HubInv, State
<1>8. \A k \in told' : acc'[k].open \/ End(k[2]) <= maxSeen - DurDelay
  <2> SUFFICES ASSUME NEW k \in told' PROVE acc'[k].open \/ End(k[2]) <= maxSeen - DurDelay
    OBVIOUS
  <2>1. k \in Keys /\ End(k[2]) \in Int
    BY <1>7, EndIsInt
  <2>2. acc[k].open \/ End(k[2]) <= maxSeen - DurDelay
    BY <1>1 DEF HubInv
  <2> QED
    BY <1>2, <1>3, <2>1, <2>2
<1>9. MarkInv'
  BY <1>1, MarkStays DEF MarkInv
<1> QED
  BY <1>1, <1>3, <1>4, <1>5, <1>6, <1>7, <1>8, <1>9 DEF HubInv

LEMMA HubBuilt ==
  ASSUME TypeInv, MarkInv, HubInv, RowsAreBuilt PROVE MarkInv' /\ HubInv'
<1>1. /\ step.at = "build" /\ Stores(queue, acc, Closing, incomplete, step.todo)
      /\ UNCHANGED <<maxSeen, observed, lastMat, through, start, rtDue, expected, told, unheard>>
  BY DEF RowsAreBuilt, history
<1>2. /\ queue \in Seq(Command) /\ Len(queue) <= QueueRoom /\ acc \in [Keys -> Kept]
      /\ incomplete \in SUBSET Keys /\ step.todo \in Seq(Command) /\ Closing \in SUBSET Keys
      /\ \A k \in Closing : End(k[2]) <= maxSeen - DurDelay
  BY <1>1 DEF TypeInv, TypeOK, StepInv, BuildInv, QueueInv, Kept
<1>3. /\ \A k \in Keys : acc'[k].open <=> acc[k].open /\ k \notin Closing
      /\ step' \in [at : {"idle", "rows"}, event : {<<>>}, todo : Seq(Command), states : {{}}]
  <2>1. /\ queue \in Seq(Command) /\ Len(queue) <= QueueRoom /\ acc \in [Keys -> Kept]
        /\ Closing \in SUBSET Keys /\ incomplete \in SUBSET Keys
        /\ step.todo \in Seq(Command)
    BY <1>2
  <2>2. Stores(queue, acc, Closing, incomplete, step.todo)
    BY <1>1
  <2>3. AfterStores(queue, acc, Closing, step.todo)
    BY <2>1, <2>2, StoresAre, Zenon
  <2> QED
    BY <2>3 DEF AfterStores
<1>4. step.states = {} /\ step'.states = {}
  BY <1>1, <1>3 DEF HubInv
<1>5. Heard' = Heard /\ \A k : Met(k)' <=> Met(k)
  BY <1>1, <1>4 DEF Heard, Met
<1>6. \A k \in told' : acc'[k].open \/ End(k[2]) <= maxSeen' - DurDelay
  BY <1>1, <1>2, <1>3 DEF HubInv
<1>7. MarkInv'
  BY <1>1, MarkStays DEF MarkInv
<1> QED
  BY <1>1, <1>3, <1>4, <1>5, <1>6, <1>7 DEF HubInv

LEMMA HubCut ==
  ASSUME MarkInv, HubInv, Cut PROVE MarkInv' /\ HubInv'
<1>1. /\ unheard' = unheard \cup {st.key : st \in step.states} /\ step' = Idle
      /\ UNCHANGED <<maxSeen, observed, lastMat, through, start, rtDue, acc, expected, told>>
  BY DEF Cut, memory
<1>2. step'.states = {}
  BY <1>1 DEF Idle
<1>3. Heard' = told /\ told \subseteq Heard
  BY <1>1, <1>2 DEF Heard
<1>4. \A k : Met(k) => Met(k)'
  BY <1>1, <1>3 DEF Met, Heard
<1>5. MarkInv'
  BY <1>1, MarkStays DEF MarkInv
<1> QED
  BY <1>1, <1>2, <1>3, <1>4, <1>5 DEF HubInv

LEMMA HubChanges ==
  ASSUME TypeInv, MarkInv, HubInv, NEW s \in Symbols, Changes(s) PROVE MarkInv' /\ HubInv'
<1>1. /\ expected' = IF s \in expected THEN expected \ {s} ELSE expected \cup {s}
      /\ lastMat' = [lastMat EXCEPT ![s] = -1] /\ start' = [start EXCEPT ![s] = -1]
      /\ through' = -1 /\ UNCHANGED <<maxSeen, observed, acc, rtDue, step, told, unheard>>
  BY DEF Changes
<1>2. lastMat \in Marks /\ start \in Marks
  BY DEF TypeInv, TypeOK, PlaceInv, Marks
<1>3. /\ lastMat'[s] = -1 /\ start'[s] = -1
      /\ \A x \in Symbols : x # s => lastMat'[x] = lastMat[x] /\ start'[x] = start[x]
  BY <1>1, <1>2 DEF Marks
<1>4. expected \subseteq Symbols /\ expected' \subseteq Symbols
      /\ \A x \in expected' : x # s => x \in expected
  BY <1>1 DEF TypeInv, TypeOK
<1>5. Heard' = Heard /\ \A k : Met(k)' <=> Met(k)
  BY <1>1 DEF Heard, Met
<1>6. MarkInv'
  BY <1>1, <1>3, <1>4 DEF MarkInv
<1>7. HubInv'
  BY <1>1, <1>3, <1>4, <1>5 DEF HubInv
<1> QED
  BY <1>6, <1>7

LEMMA HubRestarts ==
  ASSUME TypeInv, Restarts
  PROVE  MarkInv' /\ HubInv'
<1>1. /\ maxSeen' = -1 /\ observed' = {} /\ lastMat' = [s \in Symbols |-> -1] /\ through' = -1
      /\ acc' = [k \in Keys |-> NoBucket] /\ rtDue' = {} /\ step' = Idle
      /\ start' = [s \in Symbols |-> -1] /\ told' = {} /\ unheard' = {}
      /\ expected' \subseteq Symbols
  BY DEF Restarts, TypeInv, TypeOK
<1>2. step'.states = {}
  BY <1>1 DEF Idle
<1>3. Heard' = {}
  BY <1>1, <1>2 DEF Heard
<1>4. MarkInv'
  BY <1>1 DEF MarkInv
<1>5. \A k \in Keys : ~acc'[k].open
  BY <1>1 DEF NoBucket
<1>6. HubInv'
  BY <1>1, <1>2, <1>3, <1>5 DEF HubInv
<1> QED
  BY <1>4, <1>6

LEMMA HubInvStays ==
  ASSUME RuntimeInv, MarkInv, HubInv, [Next]_vars PROVE MarkInv' /\ HubInv'
<1>1. TypeInv /\ clock \in 0..MaxClock
  BY DEF RuntimeInv, TypeInv, TypeOK
<1>2. ASSUME NEW s \in Symbols, TradeArrives(s) PROVE MarkInv' /\ HubInv'
  <2>1. PICK i \in ({last[s]} \ {0}) \cup ((sent[s] + 1)..Made(s)) :
          Arrives([sym |-> s, id |-> i, at |-> tape[s][i]])
    BY <1>2 DEF TradeArrives
  <2>2. i \in Nat /\ tape[s][i] \in 0..MaxClock
    BY <1>1, TradeIs
  <2>3. [sym |-> s, id |-> i, at |-> tape[s][i]] \in Event
    BY <2>2 DEF Event
  <2> QED
    BY <2>1, <2>3, HubArrives
<1>3. ASSUME NEW s \in Symbols, QuoteArrives(s) PROVE MarkInv' /\ HubInv'
  <2>1. [sym |-> s, id |-> 0, at |-> clock] \in Event
    BY <1>1 DEF Event
  <2> QED
    BY <1>3, <2>1, HubArrives DEF QuoteArrives
<1>4. CASE GapGoesIn
  <2>1. /\ step.at = "gap" /\ Len(queue) < QueueRoom /\ expected' = expected
        /\ \/ step' = Idle /\ UNCHANGED Unseen
           \/ Observes(step.event, Append(queue, step.todo[1]), incomplete)
    BY <1>4 DEF GapGoesIn
  <2>2. /\ step.event \in Event /\ step.todo \in Seq(Command) /\ Len(step.todo) = 1
        /\ queue \in Seq(Command) /\ incomplete \in SUBSET Keys
    BY <1>1, <2>1 DEF TypeInv, TypeOK, StepInv, QueueInv
  <2>3. step.todo[1] \in Command
    BY <2>2, ElementIs
  <2>4. /\ Append(queue, step.todo[1]) \in Seq(Command)
        /\ Len(Append(queue, step.todo[1])) <= QueueRoom
    BY <2>1, <2>2, <2>3, AppendIs
  <2>5. CASE step' = Idle /\ UNCHANGED Unseen
    <3>1. step'.states = {}
      BY <2>5 DEF Idle
    <3> QED
      BY <2>1, <2>5, <3>1, MarkStays, HubStays DEF Unseen, MarkInv
  <2>6. CASE Observes(step.event, Append(queue, step.todo[1]), incomplete)
    BY <1>1, <2>1, <2>2, <2>4, <2>6, HubObserving
  <2> QED
    BY <2>1, <2>5, <2>6
<1>5. CASE RowsGoIn
  <2>1. /\ step.at = "rows" /\ step'.states = {}
        /\ UNCHANGED <<maxSeen, observed, lastMat, through, start, rtDue, acc, expected, told,
                       unheard>>
    BY <1>5 DEF RowsGoIn, PutAll, Idle, AtRows, memory, history
  <2> QED
    BY <2>1, MarkStays, HubStays DEF MarkInv
<1>6. CASE TimePasses \/ WriterTakes \/ Writes \/ WritesUnheard \/ WriterFails \/ UNCHANGED vars
  <2>1. UNCHANGED <<maxSeen, observed, lastMat, through, start, rtDue, acc, expected, told,
                    unheard, step>>
    BY <1>6 DEF TimePasses, WriterTakes, Writes, WritesUnheard, WriterFails, vars, memory, history
  <2> QED
    BY <2>1, MarkStays, HubStays DEF MarkInv
<1> QED
  BY <1>1, <1>2, <1>3, <1>4, <1>5, <1>6, HubHears, HubBuilt, HubCut, HubChanges, HubRestarts DEF Next

LEMMA HubInvStarts == Init => MarkInv /\ HubInv
<1> SUFFICES ASSUME Init PROVE MarkInv /\ HubInv
  OBVIOUS
<1>1. /\ maxSeen = -1 /\ observed = {} /\ lastMat = [s \in Symbols |-> -1] /\ through = -1
      /\ acc = [k \in Keys |-> NoBucket] /\ rtDue = {} /\ step = Idle
      /\ start = [s \in Symbols |-> -1] /\ told = {} /\ unheard = {} /\ expected \subseteq Symbols
  BY RuntimeAssumption DEF Init
<1>2. step.states = {}
  BY <1>1 DEF Idle
<1>3. Heard = {}
  BY <1>1, <1>2 DEF Heard
<1>4. \A k \in Keys : ~acc[k].open
  BY <1>1 DEF NoBucket
<1> QED
  BY <1>1, <1>2, <1>3, <1>4 DEF MarkInv, HubInv

LEMMA HubInvHolds == Spec => [](RuntimeInv /\ MarkInv /\ HubInv)
<1> QED
  BY RuntimeInvStarts, RuntimeInvStays, HubInvStarts, HubInvStays, PTL DEF Spec

(* The hub gets the buckets of a symbol in order, each once, and for a symbol  *)
(* that stays expected every one since its first, but for those in the hands   *)
(* of a connection that was cut.                                               *)
THEOREM HubHearsAll == Spec => []HubIsDense
<1>1. RuntimeInv /\ MarkInv /\ HubInv => HubIsDense
  <2> SUFFICES ASSUME RuntimeInv, MarkInv, HubInv, NEW k \in Heard,
                      k[1] \in expected, start[k[1]] # -1, NEW b \in start[k[1]]..k[2]
               PROVE  <<k[1], b>> \in Heard \cup unheard
    BY DEF HubIsDense, HubInv
  <2>1. /\ k \in Keys /\ k[1] \in Symbols /\ k[2] \in Int
        /\ start[k[1]] \in Int /\ lastMat[k[1]] \in Int /\ maxSeen - RtDelay \in Int
    <3>1. k \in Keys
      BY DEF Heard, HubInv, RuntimeInv, TypeInv, StepInv, State
    <3>2. k[1] \in Symbols /\ k[2] \in Int
      BY <3>1, BucketIn DEF Keys, Buckets
    <3>3. /\ start \in Marks /\ lastMat \in Marks /\ maxSeen \in -1..MaxClock
      BY DEF RuntimeInv, TypeInv, TypeOK, PlaceInv, Marks
    <3>4. start[k[1]] \in Int /\ lastMat[k[1]] \in Int
      BY <3>2, <3>3, BucketIn DEF Marks
    <3>5. maxSeen - RtDelay \in Int
      BY <3>3, RuntimeAssumption
    <3> QED
      BY <3>1, <3>2, <3>4, <3>5
  <2>2. b \in Int /\ b <= k[2] /\ start[k[1]] <= b
    BY <2>1
  <2>3. End(k[2]) <= maxSeen - RtDelay
    BY DEF HubInv
  <2>4. k[2] <= Through(maxSeen - RtDelay) /\ Through(maxSeen - RtDelay) \in Int
    BY <2>1, <2>3, EndThrough
  <2>5. Through(maxSeen - RtDelay) <= lastMat[k[1]]
    BY <2>1 DEF MarkInv
  <2>6. b <= lastMat[k[1]]
    BY <2>1, <2>2, <2>4, <2>5
  <2>7. Met(<<k[1], b>>)
    BY <2>2, <2>6 DEF HubInv
  <2>8. <<k[1], b>> \notin rtDue
    <3>1. SUFFICES ASSUME <<k[1], b>> \in rtDue PROVE FALSE
      OBVIOUS
    <3>2. End(b) > maxSeen - RtDelay
      BY <3>1 DEF HubInv
    <3>3. End(b) <= End(k[2]) /\ End(b) \in Int /\ End(k[2]) \in Int
      BY <2>1, <2>2, EndOrder
    <3> QED
      BY <2>1, <2>3, <3>2, <3>3
  <2> QED
    BY <2>7, <2>8 DEF Met
<1> QED
  BY <1>1, HubInvHolds, PTL

-------------------------------------------------------------------------------
(* What the process has seen of the tapes.                                     *)
TrackInv ==
  /\ \A s \in Symbols : last[s] \in {0, sent[s]}
  /\ \A s \in Symbols : s \notin expected => last[s] = 0
  /\ \A s \in Symbols : last[s] # 0 => tape[s][last[s]] <= clock
  /\ maxSeen <= clock
  /\ step.at = "gap" => step.event.at <= clock

(* The trades made are the first ones of the tape.                             *)
LEMMA MadeAre ==
  ASSUME TypeInv, NEW s \in Symbols, NEW i \in 1..Len(tape[s])
  PROVE  /\ Len(tape[s]) \in Nat /\ tape[s][i] \in 0..MaxClock /\ Made(s) \in Nat
         /\ i <= Made(s) <=> tape[s][i] <= clock
<1>1. /\ tape \in Tapes /\ tape[s] \in Seq(0..MaxClock) /\ Made(s) \in Nat /\ clock \in Int
      /\ Len(tape[s]) \in Nat
  <2>1. tape \in Tapes /\ clock \in 0..MaxClock /\ tape[s] \in Seq(0..MaxClock) /\ Made(s) \in 0..Len(tape[s])
    BY MadeIs DEF TypeInv, TypeOK
  <2> QED
    BY <2>1
<1>2. \A m, n \in DOMAIN tape[s] : m <= n => tape[s][m] <= tape[s][n]
  BY <1>1, RuntimeAssumption
<1>3. \A n \in DOMAIN tape[s] : n \in 1..Len(tape[s]) /\ tape[s][n] \in 0..MaxClock
  <2>1. DOMAIN tape[s] = 1..Len(tape[s])
    BY <1>1
  <2>2. \A n \in 1..Len(tape[s]) : tape[s][n] \in 0..MaxClock
    BY <1>1, ElementIs
  <2> QED
    BY <2>1, <2>2
<1>4. MaxClock \in Nat /\ tape[s][i] \in 0..MaxClock /\ i \in DOMAIN tape[s]
      /\ \A n \in DOMAIN tape[s] : tape[s][n] \in Int
  BY <1>1, <1>3, RuntimeAssumption
<1> DEFINE S == {n \in DOMAIN tape[s] : tape[s][n] <= clock}
<1>5. Made(s) = Cardinality(S)
  BY DEF Made
<1>6. IsFiniteSet(1..Len(tape[s])) /\ S \subseteq 1..Len(tape[s])
  <2>1. IsFiniteSet(1..Len(tape[s]))
    <3>1. 1 \in Int /\ Len(tape[s]) \in Int
      BY <1>1
    <3> QED
      BY <3>1, FS_Interval
  <2> QED
    BY <1>3, <2>1
<1>7. IsFiniteSet(S)
  BY <1>6, FS_Subset
<1>8. ASSUME tape[s][i] <= clock PROVE i <= Made(s)
  <2>1. 1..i \subseteq S
    <3> SUFFICES ASSUME NEW n \in 1..i PROVE n \in S
      OBVIOUS
    <3>1. n \in DOMAIN tape[s] /\ n <= i
      BY <1>1
    <3>2. tape[s][n] <= tape[s][i] /\ tape[s][n] \in Int
      BY <1>2, <1>4, <3>1
    <3> QED
      BY <1>1, <1>4, <1>8, <3>1, <3>2
  <2>2. Cardinality(1..i) <= Cardinality(S)
    BY <1>7, <2>1, FS_Subset
  <2>3. Cardinality(1..i) = i
    <3>1. 1 \in Int /\ i \in Int
      OBVIOUS
    <3>2. Cardinality(1..i) = IF 1 > i THEN 0 ELSE i - 1 + 1
      BY <3>1, FS_Interval
    <3> QED
      BY <3>2
  <2> QED
    BY <1>5, <2>2, <2>3
<1>9. ASSUME ~(tape[s][i] <= clock) PROVE ~(i <= Made(s))
  <2>1. S \subseteq 1..(i - 1)
    <3> SUFFICES ASSUME NEW n \in S PROVE n \in 1..(i - 1)
      OBVIOUS
    <3>1. n \in DOMAIN tape[s] /\ tape[s][n] <= clock /\ n \in 1..Len(tape[s])
      BY <1>3
    <3>2. ~(i <= n)
      <4>1. SUFFICES ASSUME i <= n PROVE FALSE
        OBVIOUS
      <4>2. tape[s][i] <= tape[s][n]
        BY <1>2, <1>4, <3>1, <4>1
      <4> QED
        BY <1>1, <1>4, <1>9, <3>1, <4>2
    <3> QED
      BY <1>1, <3>1, <3>2
  <2>2. IsFiniteSet(1..(i - 1)) /\ Cardinality(1..(i - 1)) = i - 1
    <3>1. 1 \in Int /\ i - 1 \in Int
      OBVIOUS
    <3>2. IsFiniteSet(1..(i - 1)) /\ Cardinality(1..(i - 1)) = IF 1 > i - 1 THEN 0 ELSE i - 1 - 1 + 1
      BY <3>1, FS_Interval
    <3> QED
      BY <3>2
  <2>3. Cardinality(S) <= i - 1
    BY <2>1, <2>2, FS_Subset
  <2> QED
    BY <1>1, <1>5, <2>3
<1> QED
  BY <1>1, <1>4, <1>8, <1>9

LEMMA EventIs ==
  ASSUME TypeInv, TrackInv, NEW s \in Symbols,
         NEW i \in ({last[s]} \ {0}) \cup ((sent[s] + 1)..Made(s))
  PROVE  /\ tape[s][i] <= clock /\ i \in 1..Len(tape[s]) /\ sent[s] <= i /\ sent[s] \in Nat
         /\ tape[s][i] \in 0..MaxClock
         /\ (i = last[s] \/ sent[s] < i) /\ (i = last[s] => i = sent[s])
<1>1. i \in 1..Len(tape[s]) /\ Len(tape[s]) \in Nat /\ tape[s][i] \in 0..MaxClock
  BY TradeIs
<1>2. last[s] \in {0, sent[s]} /\ last[s] \in Nat /\ sent[s] \in Nat
      /\ Made(s) \in Nat
      /\ (last[s] # 0 => tape[s][last[s]] <= clock)
  BY <1>1, MadeAre DEF TrackInv, TypeInv, TypeOK, PlaceInv
<1>3. CASE i = last[s]
  BY <1>1, <1>2, <1>3
<1>4. CASE i \in (sent[s] + 1)..Made(s)
  <2>1. i <= Made(s) /\ sent[s] < i
    BY <1>2, <1>4
  <2> QED
    BY <1>1, <1>2, <2>1, MadeAre
<1> QED
  BY <1>3, <1>4

(* Closing, or the end of building, leads to no gap.                           *)
LEMMA ClosesTo ==
  /\ \A q, a, due, mark, inc : ClosesDurably(q, a, due, mark, inc) => step'.at # "gap"
  /\ \A q, a, ready, inc, todo : Stores(q, a, ready, inc, todo) => step'.at # "gap"
<1>1. Idle.at # "gap" /\ \A S : AtBuild(S).at # "gap" /\ AtRows(S).at # "gap"
  BY DEF Idle, AtBuild, AtRows
<1>2. ASSUME NEW q, NEW todo, PutAll(q, todo) PROVE step'.at # "gap"
  <2>1. step' = Idle \/ \E S : step' = AtRows(S)
    BY <1>2 DEF PutAll
  <2> QED
    BY <1>1, <2>1
<1>3. \A q, a, ready, inc, todo : Stores(q, a, ready, inc, todo) => step'.at # "gap"
  BY <1>2 DEF Stores
<1>4. ASSUME NEW q, NEW a, NEW due, NEW mark, NEW inc, ClosesDurably(q, a, due, mark, inc)
      PROVE  step'.at # "gap"
  <2>1. (\E ready, kept, todo : Stores(q, a, ready, kept, todo)) \/ \E S : step' = AtBuild(S)
    BY <1>4 DEF ClosesDurably
  <2> QED
    BY <1>1, <1>3, <2>1
<1> QED
  BY <1>3, <1>4

(* How far everything else has come when an event has arrived.                 *)
LEMMA SeenIs ==
  ASSUME TypeInv, MarkInv, TrackInv, NEW e \in Event, e.at <= clock, NEW q, NEW inc,
         Observes(e, q, inc)
  PROVE  maxSeen' <= clock /\ maxSeen <= maxSeen' /\ maxSeen' \in Int /\ step'.at # "gap"
<1>1. /\ e.at \in Int /\ maxSeen \in Int /\ clock \in Int /\ maxSeen <= clock
  <2>1. /\ e.at \in 0..MaxClock /\ maxSeen \in -1..MaxClock /\ clock \in 0..MaxClock
    BY DEF Event, TypeInv, TypeOK
  <2> QED
    BY <2>1 DEF TrackInv
<1>2. Idle.at # "gap" /\ \A S : AtSink(S).at # "gap"
  BY DEF Idle, AtSink
<1>4. maxSeen' = Most(maxSeen, e.at)
  BY Zenon DEF Observes
<1>5. step' = Idle \/ (\E S : step' = AtSink(S))
      \/ (\E a, due, mark : ClosesDurably(q, a, due, mark, inc))
  BY Zenon DEF Observes
<1>6. step'.at # "gap"
  BY <1>2, <1>5, ClosesTo
<1> QED
  BY <1>1, <1>4, <1>6 DEF Most

LEMMA TrackArrives ==
  ASSUME TypeInv, MarkInv, TrackInv, NEW e \in Event, Arrives(e), UNCHANGED exchange,
         e.at <= clock,
         \/ e.id = 0 /\ sent' = sent
         \/ /\ e.id # 0 /\ e.at = tape[e.sym][e.id] /\ sent' = [sent EXCEPT ![e.sym] = e.id]
            /\ e.id = last[e.sym] => e.id = sent[e.sym]
            /\ e.id = last[e.sym] \/ sent[e.sym] < e.id
  PROVE  TrackInv'
<1>1. /\ UNCHANGED <<clock, tape, expected>> /\ e.sym \in Symbols /\ sent \in [Symbols -> Nat]
      /\ last \in [Symbols -> Nat] /\ step = Idle
  BY DEF exchange, Arrives, Event, TypeInv, TypeOK, PlaceInv
<1>2. CASE Repeated(e)
  <2>1. e.id # 0 /\ e.id <= last[e.sym] /\ last[e.sym] \in {0, sent[e.sym]} /\ e.id \in Nat
    BY <1>1, <1>2 DEF Repeated, Tracked, TrackInv, Event
  <2>2. sent' = sent
    BY <1>1, <2>1
  <2>3. UNCHANGED <<last, maxSeen, step>>
    BY <1>2 DEF Arrives, Unseen
  <2> QED
    BY <1>1, <2>2, <2>3 DEF TrackInv
<1>3. CASE ~Repeated(e)
  <2>1. last' = IF Tracked(e) THEN [last EXCEPT ![e.sym] = e.id] ELSE last
    BY <1>3 DEF Arrives, Tracks
  <2>2. /\ \A s \in Symbols : last'[s] \in {0, sent'[s]}
        /\ \A s \in Symbols : s \notin expected' => last'[s] = 0
        /\ \A s \in Symbols : last'[s] # 0 => tape'[s][last'[s]] <= clock'
    <3>1. CASE Tracked(e)
      <4>1. /\ last' = [last EXCEPT ![e.sym] = e.id] /\ e.id # 0 /\ e.sym \in expected
            /\ sent' = [sent EXCEPT ![e.sym] = e.id] /\ e.at = tape[e.sym][e.id]
        BY <2>1, <3>1 DEF Tracked
      <4>2. /\ last'[e.sym] = e.id /\ sent'[e.sym] = e.id
            /\ \A s \in Symbols : s # e.sym => last'[s] = last[s] /\ sent'[s] = sent[s]
        BY <1>1, <4>1
      <4> QED
        BY <1>1, <4>1, <4>2 DEF TrackInv
    <3>2. CASE ~Tracked(e)
      <4>1. last' = last
        BY <2>1, <3>2
      <4>2. e.id # 0 => last[e.sym] = 0
        BY <1>1, <3>2 DEF Tracked, TrackInv
      <4>3. \A s \in Symbols : s # e.sym \/ e.id = 0 => sent'[s] = sent[s]
        BY <1>1
      <4> QED
        BY <1>1, <4>1, <4>2, <4>3 DEF TrackInv
    <3> QED
      BY <3>1, <3>2
  <2>3. maxSeen' <= clock' /\ (step'.at = "gap" => step'.event.at <= clock')
    <3>1. CASE UNCHANGED <<Unseen, step>>
      BY <1>1, <3>1 DEF Unseen, TrackInv
    <3>2. ASSUME NEW q, NEW inc, Observes(e, q, inc) PROVE maxSeen' <= clock /\ step'.at # "gap"
      BY <3>2, SeenIs
    <3>3. CASE UNCHANGED Unseen /\ step' = AtGap(e, GapBefore(e))
      BY <1>1, <3>3 DEF Unseen, TrackInv, AtGap
    <3> QED
      BY <1>1, <1>3, <3>1, <3>2, <3>3 DEF Arrives, Unseen
  <2> QED
    BY <2>2, <2>3 DEF TrackInv
<1> QED
  BY <1>2, <1>3

LEMMA TrackStays ==
  ASSUME TypeInv, MarkInv, TrackInv, [Next]_vars
  PROVE  TrackInv'
<1>1. CASE UNCHANGED vars \/ RowsGoIn \/ Cut \/ WriterTakes \/ Writes \/ WritesUnheard
           \/ WriterFails
  <2>1. UNCHANGED <<last, sent, tape, clock, maxSeen, expected>> /\ (step'.at = "gap" => step' = step)
    BY <1>1 DEF vars, RowsGoIn, Cut, WriterTakes, Writes, WritesUnheard, WriterFails, exchange,
                memory, PutAll, Idle, AtRows
  <2> QED
    BY <2>1 DEF TrackInv
<1>8. CASE HubTakes \/ RowsAreBuilt
  <2>1. UNCHANGED <<last, sent, tape, clock, maxSeen, expected>> /\ step'.at # "gap"
    BY <1>8, ClosesTo DEF HubTakes, RowsAreBuilt, exchange
  <2> QED
    BY <2>1 DEF TrackInv
<1>2. CASE TimePasses
  <2>1. /\ UNCHANGED <<last, sent, tape, maxSeen, expected, step>> /\ clock' = clock + 1
    BY <1>2 DEF TimePasses, memory
  <2>2. /\ clock \in 0..MaxClock /\ maxSeen \in -1..MaxClock /\ MaxClock \in Nat
        /\ \A s \in Symbols : last[s] # 0 => tape[s][last[s]] \in Int
        /\ step.at = "gap" => step.event.at \in Int
    <3>1. ASSUME NEW s \in Symbols, last[s] # 0 PROVE tape[s][last[s]] \in Int
      <4>1. last[s] \in 1..Len(tape[s])
        <5>1. tape[s] \in Seq(0..MaxClock) /\ last[s] \in Nat /\ last[s] <= Len(tape[s])
          BY MadeIs DEF TypeInv, TypeOK, PlaceInv
        <5> QED
          BY <3>1, <5>1
      <4> QED
        BY <4>1, MadeAre
    <3> QED
      BY <3>1, RuntimeAssumption DEF TypeInv, TypeOK, StepInv, Event
  <2>3. maxSeen' <= clock'
    BY <2>1, <2>2 DEF TrackInv
  <2>4. \A s \in Symbols : last[s] # 0 => tape[s][last[s]] <= clock + 1
    BY <2>2 DEF TrackInv
  <2>5. step.at = "gap" => step.event.at <= clock + 1
    BY <2>2 DEF TrackInv
  <2> QED
    BY <2>1, <2>3, <2>4, <2>5 DEF TrackInv
<1>3. ASSUME NEW s \in Symbols, TradeArrives(s) PROVE TrackInv'
  <2>1. PICK i \in ({last[s]} \ {0}) \cup ((sent[s] + 1)..Made(s)) :
          sent' = [sent EXCEPT ![s] = i] /\ Arrives([sym |-> s, id |-> i, at |-> tape[s][i]])
    BY <1>3 DEF TradeArrives
  <2>2. /\ tape[s][i] <= clock /\ i \in 1..Len(tape[s]) /\ tape[s][i] \in 0..MaxClock
        /\ (i = last[s] \/ sent[s] < i) /\ (i = last[s] => i = sent[s])
    BY EventIs
  <2> DEFINE e == [sym |-> s, id |-> i, at |-> tape[s][i]]
  <2>3. e \in Event /\ e.sym = s /\ e.id = i /\ e.at = tape[s][i] /\ i # 0 /\ Arrives(e)
    BY <2>1, <2>2 DEF Event
  <2>4. UNCHANGED exchange
    BY <1>3 DEF TradeArrives
  <2> HIDE DEF e
  <2> QED
    BY <2>1, <2>2, <2>3, <2>4, TrackArrives
<1>4. ASSUME NEW s \in Symbols, QuoteArrives(s) PROVE TrackInv'
  <2> DEFINE e == [sym |-> s, id |-> 0, at |-> clock]
  <2>1. e \in Event /\ e.id = 0 /\ e.at = clock /\ Arrives(e) /\ UNCHANGED <<exchange, sent>>
    BY <1>4 DEF QuoteArrives, Event, TypeInv, TypeOK
  <2>2. e.at <= clock
    BY <2>1 DEF TypeInv, TypeOK
  <2> HIDE DEF e
  <2> QED
    BY <2>1, <2>2, TrackArrives
<1>5. CASE GapGoesIn
  <2>1. /\ UNCHANGED <<last, sent, tape, clock, expected>> /\ step.at = "gap"
        /\ \/ step' = Idle /\ maxSeen' = maxSeen
           \/ Observes(step.event, Append(queue, step.todo[1]), incomplete)
    BY <1>5 DEF GapGoesIn, exchange, Unseen
  <2>2. step.event \in Event /\ step.event.at <= clock
    BY <2>1 DEF TypeInv, StepInv, TrackInv
  <2>3. maxSeen' <= clock /\ step'.at # "gap"
    <3>1. CASE step' = Idle /\ maxSeen' = maxSeen
      BY <3>1 DEF Idle, TrackInv
    <3>2. CASE Observes(step.event, Append(queue, step.todo[1]), incomplete)
      BY <2>2, <3>2, SeenIs
    <3> QED
      BY <2>1, <3>1, <3>2
  <2> QED
    BY <2>1, <2>3 DEF TrackInv
<1>6. ASSUME NEW s \in Symbols, Changes(s) PROVE TrackInv'
  <2>1. /\ expected' = IF s \in expected THEN expected \ {s} ELSE expected \cup {s}
        /\ last' = [x \in Symbols |-> IF x \in expected' THEN last[x] ELSE 0]
        /\ UNCHANGED <<sent, tape, clock, maxSeen, step>>
    BY <1>6 DEF Changes, exchange
  <2>2. \A x \in Symbols : last'[x] = IF x \in expected' THEN last[x] ELSE 0
    BY <2>1
  <2> QED
    BY <2>1, <2>2 DEF TrackInv
<1>7. CASE Restarts
  <2>1. /\ last' = [s \in Symbols |-> 0] /\ maxSeen' = -1 /\ step' = Idle /\ clock' = clock
    BY <1>7 DEF Restarts, exchange
  <2>2. clock \in 0..MaxClock
    BY DEF TypeInv, TypeOK
  <2> QED
    BY <2>1, <2>2 DEF TrackInv, Idle
<1> QED
  BY <1>1, <1>2, <1>3, <1>4, <1>5, <1>6, <1>7, <1>8 DEF Next

-------------------------------------------------------------------------------
(* The commands on their way to the writer, in order.                          *)
Line == queue \o step.todo

Carries(L, k) == \E n \in DOMAIN L : \E st \in L[n].states : st.key = k

(* No bucket is in two of the commands.                                        *)
Spread(L) ==
  \A m, n \in DOMAIN L : \A st \in L[m].states, tt \in L[n].states :
    st.key = tt.key => m = n

LEMMA ConcatIs ==
  ASSUME NEW p \in Seq(Command), NEW q \in Seq(Command)
  PROVE  /\ p \o q \in Seq(Command) /\ Len(p) \in Nat /\ Len(q) \in Nat
         /\ Len(p \o q) = Len(p) + Len(q)
         /\ DOMAIN p = 1..Len(p) /\ DOMAIN q = 1..Len(q)
         /\ DOMAIN (p \o q) = 1..(Len(p) + Len(q))
         /\ \A n \in 1..Len(p) : (p \o q)[n] = p[n]
         /\ \A n \in 1..Len(q) : (p \o q)[Len(p) + n] = q[n]
         /\ \A n \in 1..(Len(p) + Len(q)) :
              n \in 1..Len(p) \/ (n - Len(p) \in 1..Len(q) /\ (p \o q)[n] = q[n - Len(p)])
  OBVIOUS

LEMMA CarriesBoth ==
  ASSUME NEW p \in Seq(Command), NEW q \in Seq(Command), NEW k
  PROVE  Carries(p \o q, k) <=> Carries(p, k) \/ Carries(q, k)
<1>1. ASSUME Carries(p \o q, k) PROVE Carries(p, k) \/ Carries(q, k)
  <2>1. PICK n \in DOMAIN (p \o q) : \E st \in (p \o q)[n].states : st.key = k
    BY <1>1 DEF Carries
  <2>2. CASE n \in 1..Len(p)
    <3>1. n \in DOMAIN p /\ (p \o q)[n] = p[n]
      BY <2>2, ConcatIs
    <3> QED
      BY <2>1, <3>1 DEF Carries
  <2>3. CASE n - Len(p) \in 1..Len(q) /\ (p \o q)[n] = q[n - Len(p)]
    <3>1. n - Len(p) \in DOMAIN q
      BY <2>3, ConcatIs
    <3> QED
      BY <2>1, <2>3, <3>1 DEF Carries
  <2> QED
    BY <2>1, <2>2, <2>3, ConcatIs
<1>2. ASSUME Carries(p, k) PROVE Carries(p \o q, k)
  <2>1. PICK n \in DOMAIN p : \E st \in p[n].states : st.key = k
    BY <1>2 DEF Carries
  <2>2. n \in DOMAIN (p \o q) /\ (p \o q)[n] = p[n]
    BY ConcatIs
  <2> QED
    BY <2>1, <2>2 DEF Carries
<1>3. ASSUME Carries(q, k) PROVE Carries(p \o q, k)
  <2>1. PICK n \in DOMAIN q : \E st \in q[n].states : st.key = k
    BY <1>3 DEF Carries
  <2>2. n \in 1..Len(q) /\ (p \o q)[Len(p) + n] = q[n]
    BY ConcatIs
  <2>3. Len(p) + n \in DOMAIN (p \o q)
    BY <2>2, ConcatIs
  <2> QED
    BY <2>1, <2>2, <2>3 DEF Carries
<1> QED
  BY <1>1, <1>2, <1>3

LEMMA SpreadBoth ==
  ASSUME NEW p \in Seq(Command), NEW q \in Seq(Command)
  PROVE  /\ Spread(p \o q) => Spread(p) /\ Spread(q)
         /\ Spread(p) /\ Spread(q) /\ (\A k : ~(Carries(p, k) /\ Carries(q, k))) =>
              Spread(p \o q)
<1>1. ASSUME Spread(p \o q) PROVE Spread(p)
  <2> SUFFICES ASSUME NEW m \in DOMAIN p, NEW n \in DOMAIN p, NEW st \in p[m].states,
                      NEW tt \in p[n].states, st.key = tt.key
               PROVE  m = n
    BY DEF Spread
  <2>1. /\ m \in DOMAIN (p \o q) /\ (p \o q)[m] = p[m]
        /\ n \in DOMAIN (p \o q) /\ (p \o q)[n] = p[n]
    BY ConcatIs
  <2> QED
    BY <1>1, <2>1 DEF Spread
<1>2. ASSUME Spread(p \o q) PROVE Spread(q)
  <2> SUFFICES ASSUME NEW m \in DOMAIN q, NEW n \in DOMAIN q, NEW st \in q[m].states,
                      NEW tt \in q[n].states, st.key = tt.key
               PROVE  m = n
    BY DEF Spread
  <2>1. /\ m \in 1..Len(q) /\ (p \o q)[Len(p) + m] = q[m]
        /\ n \in 1..Len(q) /\ (p \o q)[Len(p) + n] = q[n] /\ Len(p) \in Nat
    BY ConcatIs
  <2>2. Len(p) + m \in DOMAIN (p \o q) /\ Len(p) + n \in DOMAIN (p \o q)
    BY <2>1, ConcatIs
  <2>3. Len(p) + m = Len(p) + n
    BY <1>2, <2>1, <2>2 DEF Spread
  <2> QED
    BY <2>1, <2>3
<1>3. ASSUME Spread(p), Spread(q), \A k : ~(Carries(p, k) /\ Carries(q, k))
      PROVE  Spread(p \o q)
  <2> SUFFICES ASSUME NEW m \in DOMAIN (p \o q), NEW n \in DOMAIN (p \o q),
                      NEW st \in (p \o q)[m].states, NEW tt \in (p \o q)[n].states,
                      st.key = tt.key
               PROVE  m = n
    BY DEF Spread
  <2> DEFINE In(i) == i \in DOMAIN p /\ (p \o q)[i] = p[i]
             On(i) == i - Len(p) \in DOMAIN q /\ (p \o q)[i] = q[i - Len(p)]
  <2>1. (In(m) \/ On(m)) /\ (In(n) \/ On(n)) /\ Len(p) \in Nat /\ m \in Int /\ n \in Int
    BY ConcatIs
  <2>2. CASE In(m) /\ In(n)
    BY <1>3, <2>2 DEF Spread
  <2>3. CASE On(m) /\ On(n)
    <3>1. m - Len(p) = n - Len(p)
      BY <1>3, <2>3 DEF Spread
    <3> QED
      BY <2>1, <3>1
  <2>4. CASE In(m) /\ On(n)
    <3>1. Carries(p, st.key) /\ Carries(q, st.key)
      BY <2>4 DEF Carries
    <3> QED
      BY <1>3, <3>1
  <2>5. CASE On(m) /\ In(n)
    <3>1. Carries(p, st.key) /\ Carries(q, st.key)
      BY <2>5 DEF Carries
    <3> QED
      BY <1>3, <3>1
  <2> QED
    BY <2>1, <2>2, <2>3, <2>4, <2>5
<1> QED
  BY <1>1, <1>2, <1>3

LEMMA OneCommand ==
  ASSUME NEW c
  PROVE  /\ Spread(<<c>>) /\ Spread(<<>>)
         /\ \A k : ~Carries(<<>>, k) /\ (Carries(<<c>>, k) <=> \E st \in c.states : st.key = k)
<1>1. DOMAIN <<c>> = {1} /\ <<c>>[1] = c /\ DOMAIN <<>> = {}
  OBVIOUS
<1> QED
  BY <1>1 DEF Spread, Carries

LEMMA BatchesSpread ==
  ASSUME NEW S \in SUBSET State, Unique(S)
  PROVE  /\ Spread(Batches(S)) /\ Batches(S) \in Seq(Command)
         /\ \A k : Carries(Batches(S), k) <=> \E st \in S : st.key = k
<1> DEFINE real == {st \in S : ~Synthetic(st)}
           rest == S \ real
           p == IF real = {} THEN <<>> ELSE <<Rows(real)>>
           q == IF rest = {} THEN <<>> ELSE <<Rows(rest)>>
<1>1. real \in SUBSET State /\ rest \in SUBSET State /\ Unique(real) /\ Unique(rest)
      /\ S = real \cup rest /\ (S = real <=> rest = {})
      /\ \A st \in real, tt \in rest : st.key # tt.key
  BY DEF Unique
<1>2. Batches(S) = p \o q
  BY <1>1 DEF Batches
<1> HIDE DEF real, rest
<1>3. /\ p \in Seq(Command) /\ Spread(p) /\ \A k : Carries(p, k) <=> \E st \in real : st.key = k
  <2>1. CASE real = {}
    <3>1. p = <<>> /\ <<>> \in Seq(Command)
      BY <2>1
    <3> QED
      BY <2>1, <3>1, OneCommand
  <2>2. CASE real # {}
    <3>1. p = <<Rows(real)>> /\ Rows(real).states = real /\ p \in Seq(Command)
      BY <1>1, <2>2, RowsAre
    <3> HIDE DEF p
    <3> QED
      BY <3>1, OneCommand
  <2> QED
    BY <2>1, <2>2
<1>4. /\ q \in Seq(Command) /\ Spread(q) /\ \A k : Carries(q, k) <=> \E st \in rest : st.key = k
  <2>1. CASE rest = {}
    <3>1. q = <<>> /\ <<>> \in Seq(Command)
      BY <2>1
    <3> QED
      BY <2>1, <3>1, OneCommand
  <2>2. CASE rest # {}
    <3>1. q = <<Rows(rest)>> /\ Rows(rest).states = rest /\ q \in Seq(Command)
      BY <1>1, <2>2, RowsAre
    <3> HIDE DEF q
    <3> QED
      BY <3>1, OneCommand
  <2> QED
    BY <2>1, <2>2
<1> HIDE DEF p, q
<1>5. \A k : ~(Carries(p, k) /\ Carries(q, k))
  BY <1>1, <1>3, <1>4
<1>6. Spread(p \o q) /\ p \o q \in Seq(Command)
  BY <1>3, <1>4, <1>5, SpreadBoth, ConcatIs
<1>7. \A k : Carries(p \o q, k) <=> Carries(p, k) \/ Carries(q, k)
  BY <1>3, <1>4, CarriesBoth
<1>8. \A k : (\E st \in S : st.key = k) <=> (\E st \in real : st.key = k) \/ (\E st \in rest : st.key = k)
  BY <1>1
<1> QED
  BY <1>2, <1>3, <1>4, <1>6, <1>7, <1>8

LEMMA PutAllLine ==
  ASSUME NEW q \in Seq(Command), NEW todo \in Seq(Command), Len(q) <= QueueRoom, PutAll(q, todo)
  PROVE  Line' = q \o todo /\ Line' \in Seq(Command)
<1> DEFINE n == Least(Len(todo), QueueRoom - Len(q))
<1>1. QueueRoom \in Nat /\ Len(q) \in Nat /\ Len(todo) \in Nat
  BY RuntimeAssumption
<1>2. n \in 0..Len(todo)
  BY <1>1 DEF Least
<1>3. queue' = q \o SubSeq(todo, 1, n)
      /\ step' = IF n = Len(todo) THEN Idle ELSE AtRows(SubSeq(todo, n + 1, Len(todo)))
  BY DEF PutAll
<1> HIDE DEF n
<1> DEFINE front == SubSeq(todo, 1, n)
           back  == SubSeq(todo, n + 1, Len(todo))
<1>4. front \in Seq(Command) /\ back \in Seq(Command)
  BY <1>1, <1>2
<1>5. front \o back = todo
  <2>1. 1 \in 1..(Len(todo) + 1) /\ n \in (1 - 1)..Len(todo) /\ Len(todo) \in n..Len(todo)
    BY <1>1, <1>2
  <2>2. SubSeq(todo, 1, n) \o SubSeq(todo, n + 1, Len(todo)) = SubSeq(todo, 1, Len(todo))
    BY <2>1, ConcatAdjacentSubSeq
  <2>3. SubSeq(todo, 1, Len(todo)) = todo
    BY SubSeqFull
  <2> QED
    BY <2>2, <2>3
<1>6. step'.todo = back
  <2>1. CASE n = Len(todo)
    <3>1. step'.todo = <<>>
      BY <1>3, <2>1 DEF Idle
    <3>2. back = <<>>
      BY <1>1, <2>1, SubSeqEmpty
    <3> QED
      BY <3>1, <3>2
  <2>2. CASE n # Len(todo)
    BY <1>3, <2>2 DEF AtRows
  <2> QED
    BY <2>1, <2>2
<1> HIDE DEF front, back
<1>7. Line' = (q \o front) \o back
  BY <1>3, <1>6 DEF Line, front
<1>8. (q \o front) \o back = q \o (front \o back)
  BY <1>4, ConcatAssociative
<1> QED
  BY <1>5, <1>7, <1>8, ConcatIs

-------------------------------------------------------------------------------
(* One copy.  Shut(k): bucket k will not be opened again, as the durable mark  *)
(* has passed it, or since a restart nothing that is still to come reaches     *)
(* back to it.                                                                 *)
Past(k) ==
  /\ End(k[2]) <= clock
  /\ \A s \in Symbols :
       /\ \A i \in DOMAIN tape[s] : sent[s] < i => End(k[2]) <= tape[s][i]
       /\ last[s] # 0 => End(k[2]) <= tape[s][last[s]]
       /\ lastMat[s] # -1 => k[2] <= lastMat[s]
  /\ step.at = "gap" => End(k[2]) <= step.event.at

Shut(k) == End(k[2]) <= maxSeen - DurDelay \/ Past(k)

Placed(k) == Carries(Line, k) \/ InJob(k) \/ Stored(k)

(* A bucket on its way to the database is shut and has no deadline any more,   *)
(* and is in one place, or stored by a command whose commit was not heard of.  *)
CopyInv ==
  /\ \A k \in Keys : Placed(k) => Shut(k) /\ k \notin durDue
  /\ Spread(Line)
  /\ \A k \in Keys : Carries(Line, k) => ~InJob(k) /\ ~Stored(k)
  /\ \A st \in job.states, r \in rows : r.key = st.key => r = Adjusted(st)

LEMMA MarksAre ==
  ASSUME TypeInv
  PROVE  /\ maxSeen \in Int /\ clock \in Int /\ maxSeen - DurDelay \in Int
         /\ maxSeen - RtDelay \in Int /\ maxSeen - DurDelay <= maxSeen - RtDelay
         /\ maxSeen - DurDelay <= maxSeen
         /\ queue \in Seq(Command) /\ step.todo \in Seq(Command) /\ Len(queue) <= QueueRoom
         /\ \A s \in Symbols : lastMat[s] \in Int /\ sent[s] \in Nat /\ last[s] \in Nat
<1>1. maxSeen \in -1..MaxClock /\ clock \in 0..MaxClock
  BY DEF TypeInv, TypeOK
<1>2. /\ maxSeen \in Int /\ clock \in Int /\ maxSeen - DurDelay \in Int
      /\ maxSeen - RtDelay \in Int /\ maxSeen - DurDelay <= maxSeen - RtDelay
      /\ maxSeen - DurDelay <= maxSeen
  BY <1>1, RuntimeAssumption
<1>3. \A s \in Symbols : lastMat[s] \in Int /\ sent[s] \in Nat /\ last[s] \in Nat
  BY BucketIn DEF TypeInv, TypeOK, PlaceInv
<1> QED
  BY <1>2, <1>3 DEF TypeInv, TypeOK, StepInv, QueueInv

LEMMA KeyIs ==
  ASSUME NEW k \in Keys
  PROVE  k[1] \in Symbols /\ k[2] \in Int /\ k = <<k[1], k[2]>> /\ End(k[2]) \in Int
  BY EndIsInt, BucketIn DEF Keys, Buckets

(* Time goes on and marks only pass more; no event before a bucket that is     *)
(* past can come.                                                              *)
LEMMA ShutStays ==
  ASSUME TypeInv, tape' = tape, clock' \in Int, clock <= clock', maxSeen' \in Int,
         maxSeen <= maxSeen', NEW k \in Keys, Shut(k),
         \A s \in Symbols :
           /\ sent'[s] \in Nat /\ sent[s] <= sent'[s]
           /\ last'[s] \in {0, last[s]} \/ (Past(k) => End(k[2]) <= tape[s][last'[s]])
           /\ lastMat'[s] \in {-1, lastMat[s]} \/ (Past(k) => k[2] <= lastMat'[s]),
         step'.at = "gap" => step' = step \/ (Past(k) => End(k[2]) <= step'.event.at)
  PROVE  Shut(k)'
<1>1. CASE End(k[2]) <= maxSeen - DurDelay
  <2>1. DurDelay \in Int /\ maxSeen \in Int /\ End(k[2]) \in Int
    BY RuntimeAssumption, MarksAre, KeyIs
  <2>2. End(k[2]) <= maxSeen' - DurDelay
    BY <1>1, <2>1
  <2> QED
    BY <2>2 DEF Shut
<1>2. CASE Past(k)
  <2>1. End(k[2]) <= clock'
    BY <1>2, MarksAre, KeyIs DEF Past
  <2>2. ASSUME NEW s \in Symbols, NEW i \in DOMAIN tape[s], sent'[s] < i
        PROVE  End(k[2]) <= tape[s][i]
    <3>1. i \in Int
      <4>1. tape[s] \in Seq(0..MaxClock)
        BY MadeIs
      <4> QED
        BY <4>1
    <3>2. sent[s] < i
      BY <2>2, <3>1, MarksAre
    <3> QED
      BY <1>2, <3>2 DEF Past
  <2>3. \A s \in Symbols : last'[s] # 0 => End(k[2]) <= tape[s][last'[s]]
    BY <1>2 DEF Past
  <2>4. \A s \in Symbols : lastMat'[s] # -1 => k[2] <= lastMat'[s]
    BY <1>2 DEF Past
  <2>5. step'.at = "gap" => End(k[2]) <= step'.event.at
    BY <1>2 DEF Past
  <2>6. Past(k)'
    BY <2>1, <2>2, <2>3, <2>4, <2>5 DEF Past
  <2> QED
    BY <2>6 DEF Shut
<1> QED
  BY <1>1, <1>2 DEF Shut

(* A command line that only loses commands keeps the invariant.                *)
LEMMA CopyStays ==
  ASSUME CopyInv, UNCHANGED <<job, rows, gaps>>, Spread(Line'),
         \A k \in Keys : k \in durDue' => k \in durDue,
         \A k \in Keys : Carries(Line', k) => Carries(Line, k),
         \A k \in Keys : Shut(k) => Shut(k)'
  PROVE  CopyInv'
<1>1. \A k : (InJob(k)' <=> InJob(k)) /\ (Stored(k)' <=> Stored(k))
  BY DEF InJob, Stored
<1>2. \A k \in Keys : Placed(k)' => Placed(k)
  BY <1>1 DEF Placed
<1>3. \A st : Adjusted(st)' = Adjusted(st)
  BY DEF Adjusted
<1> QED
  BY <1>1, <1>2, <1>3 DEF CopyInv

(* The durable close moves what it closes to the end of the line.              *)
LEMMA ClosesLine ==
  ASSUME NEW q \in Seq(Command), Len(q) <= QueueRoom, NEW a \in [Keys -> Kept],
         NEW due \in SUBSET Keys, \A k \in due : a[k].open, NEW mark \in Int,
         NEW inc \in SUBSET Keys, ClosesDurably(q, a, due, mark, inc),
         Spread(q), \A k \in Keys : Carries(q, k) => k \notin due
  PROVE  /\ Spread(Line')
         /\ \A k \in Keys : /\ k \in durDue' <=> k \in due /\ ~(End(k[2]) <= mark)
                            /\ Carries(Line', k) <=>
                                 Carries(q, k) \/ (k \in due /\ End(k[2]) <= mark)
<1> DEFINE ready == {k \in due : a[k].open /\ End(k[2]) <= mark}
           kept == {k \in inc : a[k].open \/ End(k[2]) > mark}
           S == Snapshots(a, ready, inc)
<1>1. /\ durDue' = {k \in due : End(k[2]) > mark}
      /\ \/ Stores(q, a, ready, kept, Batches(S))
         \/ queue' = q /\ step' = AtBuild(Batches(S))
  BY DEF ClosesDurably
<1>2. \A k \in Keys : k \in durDue' <=> k \in due /\ ~(End(k[2]) <= mark)
  <2>1. \A k \in Keys : End(k[2]) > mark <=> ~(End(k[2]) <= mark)
    BY KeyIs
  <2> QED
    BY <1>1, <2>1
<1>3. ready \in SUBSET Keys /\ \A k : k \in ready <=> k \in due /\ End(k[2]) <= mark
  OBVIOUS
<1> HIDE DEF ready, kept
<1>4. S \in SUBSET State /\ Unique(S) /\ {st.key : st \in S} = ready
  BY <1>3, SnapshotsAre, SnapshotKeys
<1> HIDE DEF S
<1>5. /\ Spread(Batches(S)) /\ Batches(S) \in Seq(Command)
      /\ \A k : Carries(Batches(S), k) <=> k \in ready
  BY <1>4, BatchesSpread
<1>6. Line' = q \o Batches(S)
  <2>1. CASE Stores(q, a, ready, kept, Batches(S))
    <3>1. PutAll(q, Batches(S))
      BY <2>1 DEF Stores
    <3> QED
      BY <1>5, <3>1, PutAllLine
  <2>2. CASE queue' = q /\ step' = AtBuild(Batches(S))
    BY <2>2 DEF Line, AtBuild
  <2> QED
    BY <1>1, <2>1, <2>2
<1>7. \A k : Carries(Line', k) <=> Carries(q, k) \/ k \in ready
  BY <1>5, <1>6, CarriesBoth
<1>8. Spread(Line')
  <2>1. \A k : ~(Carries(q, k) /\ Carries(Batches(S), k))
    BY <1>3, <1>5
  <2> QED
    BY <1>5, <1>6, <2>1, SpreadBoth
<1> QED
  BY <1>2, <1>3, <1>7, <1>8

(* What is shut gets no deadline by an event, wherever it is put.              *)
LEMMA NotReopened ==
  ASSUME TypeInv, MarkInv, NEW e \in Event, NEW q, NEW inc, NEW a \in [Keys -> Kept],
         NEW due \in SUBSET Keys, Enters(e, q, inc, a, due), NEW k \in Keys, Shut(k),
         k \notin durDue, Past(k) => End(k[2]) <= e.at
  PROVE  k \notin Lasting(due)
<1>1. SUFFICES ASSUME k \in due, k \notin rtDue PROVE FALSE
  BY DEF Lasting
<1>2. k = KeyOf(e) \/ Ahead(k)
  BY <1>1 DEF Enters, Opens
<1>3. /\ maxSeen \in Int /\ maxSeen' \in Int /\ maxSeen <= maxSeen' /\ e.at \in Int
      /\ DurDelay \in Nat /\ Bucket(e.at) \in Int
  <2>1. e.at \in 0..MaxClock /\ maxSeen' = Most(maxSeen, e.at)
    BY DEF Event, Enters
  <2>2. e.at \in Int /\ maxSeen \in Int
    BY <2>1, MarksAre
  <2>3. Bucket(e.at) \in Int
    BY <2>2, BucketEnds
  <2> QED
    BY <2>1, <2>2, <2>3, RuntimeAssumption DEF Most
<1>4. CASE k = KeyOf(e)
  <2>1. k[2] = Bucket(e.at) /\ End(k[2]) > maxSeen' - DurDelay
    BY <1>4 DEF KeyOf, Enters
  <2>2. ~(End(k[2]) <= maxSeen - DurDelay)
    BY <1>3, <2>1, KeyIs
  <2>3. End(k[2]) <= e.at
    BY <2>2 DEF Shut
  <2>4. k[2] < Bucket(e.at)
    BY <1>3, <2>3, KeyIs, BucketEnds
  <2> QED
    BY <1>3, <2>1, <2>4
<1>5. CASE Ahead(k)
  <2>1. /\ k[1] \in expected /\ k[1] \in Symbols /\ lastMat[k[1]] # -1 /\ lastMat[k[1]] < k[2]
        /\ lastMat[k[1]] \in Int /\ k[2] \in Int
    BY <1>5, MarksAre, KeyIs DEF Ahead
  <2>2. CASE End(k[2]) <= maxSeen - DurDelay
    <3>1. End(k[2]) <= maxSeen - RtDelay /\ maxSeen - RtDelay \in Int
      BY <2>2, MarksAre, KeyIs
    <3>2. k[2] <= Through(maxSeen - RtDelay) /\ Through(maxSeen - RtDelay) \in Int
      BY <2>1, <3>1, EndThrough
    <3>3. Through(maxSeen - RtDelay) <= lastMat[k[1]]
      BY <2>1 DEF MarkInv
    <3> QED
      BY <2>1, <3>2, <3>3
  <2>3. CASE Past(k)
    BY <2>1, <2>3 DEF Past
  <2> QED
    BY <2>2, <2>3 DEF Shut
<1> QED
  BY <1>2, <1>4, <1>5

LEMMA CopyObserving ==
  ASSUME TypeInv, MarkInv, CopyInv, NEW e \in Event, NEW q \in Seq(Command),
         Len(q) <= QueueRoom, NEW inc \in SUBSET Keys, Observes(e, q, inc),
         Spread(q), \A k \in Keys : Carries(q, k) <=> Carries(Line, k),
         UNCHANGED <<job, rows, gaps>>,
         \A k \in Keys : Shut(k) => Shut(k)',
         \A k \in Keys : Past(k) => End(k[2]) <= e.at
  PROVE  CopyInv'
<1>1. \/ Passes(e, q, inc)
      \/ \E a \in [Keys -> Kept], due \in SUBSET Keys : Enters(e, q, inc, a, due)
  BY ObservesParts
<1>2. q \o <<>> = q
  BY ConcatEmptySeq
<1>3. CASE Passes(e, q, inc)
  <2>1. Line' = q
    BY <1>2, <1>3 DEF Line, Passes, Idle
  <2> QED
    BY <1>3, <2>1, CopyStays DEF Passes
<1>4. ASSUME NEW a \in [Keys -> Kept], NEW due \in SUBSET Keys, Enters(e, q, inc, a, due)
      PROVE  CopyInv'
  <2>1. \A k \in Keys : Placed(k) => Shut(k)' /\ k \notin Lasting(due)
    BY <1>4, NotReopened DEF CopyInv
  <2>2. \A k : (InJob(k)' <=> InJob(k)) /\ (Stored(k)' <=> Stored(k))
    BY DEF InJob, Stored
  <2>3. \A st : Adjusted(st)' = Adjusted(st)
    BY DEF Adjusted
  <2>4. CASE durDue' = Lasting(due) /\ queue' = q /\ step' = AtSink(Snapshots(a, Ripe(due), inc))
    <3>1. Line' = q
      BY <1>2, <2>4 DEF Line, AtSink
    <3>2. \A k \in Keys : Placed(k)' => Placed(k)
      BY <2>2, <3>1 DEF Placed
    <3> QED
      BY <2>1, <2>2, <2>3, <2>4, <3>1, <3>2 DEF CopyInv
  <2>5. CASE ClosesDurably(q, a, Lasting(due), maxSeen' - DurDelay, inc)
    <3>1. maxSeen' - DurDelay \in Int
      <4>1. maxSeen' \in -1..MaxClock
        BY ObservesAre
      <4>2. maxSeen' \in Int /\ DurDelay \in Int
        BY <4>1, RuntimeAssumption
      <4> QED
        BY <4>2
    <3>2. \A k \in Keys : Carries(q, k) => k \notin Lasting(due)
      BY <2>1 DEF Placed
    <3>3. /\ Spread(Line')
          /\ \A k \in Keys : /\ k \in durDue' <=>
                                  k \in Lasting(due) /\ ~(End(k[2]) <= maxSeen' - DurDelay)
                             /\ Carries(Line', k) <=>
                                  Carries(q, k) \/
                                  (k \in Lasting(due) /\ End(k[2]) <= maxSeen' - DurDelay)
      <4>1. Lasting(due) \in SUBSET Keys /\ \A k \in Lasting(due) : a[k].open
        BY <1>4, LastingAre DEF Enters
      <4> QED
        BY <2>5, <3>1, <3>2, <4>1, ClosesLine
    <3>4. ASSUME NEW k \in Keys, Placed(k)' PROVE Shut(k)' /\ k \notin durDue'
      <4>1. CASE Placed(k)
        BY <2>1, <3>3, <4>1
      <4>2. CASE k \in Lasting(due) /\ End(k[2]) <= maxSeen' - DurDelay
        BY <3>3, <4>2 DEF Shut
      <4> QED
        BY <2>2, <3>3, <3>4, <4>1, <4>2 DEF Placed
    <3>5. ASSUME NEW k \in Keys, Carries(Line', k) PROVE ~InJob(k) /\ ~Stored(k)
      <4>1. CASE Carries(q, k)
        BY <4>1 DEF CopyInv
      <4>2. CASE k \in Lasting(due)
        BY <2>1, <4>2 DEF Placed
      <4> QED
        BY <3>3, <3>5, <4>1, <4>2
    <3> QED
      BY <2>2, <2>3, <3>3, <3>4, <3>5 DEF CopyInv
  <2> QED
    BY <1>4, <2>4, <2>5 DEF Enters
<1> QED
  BY <1>1, <1>3, <1>4

LEMMA ShutSeeing ==
  ASSUME TypeInv, MarkInv, TrackInv, NEW e \in Event, e.at <= clock,
         NEW q \in Seq(Command), Len(q) <= QueueRoom, NEW inc \in SUBSET Keys,
         Observes(e, q, inc), UNCHANGED <<clock, tape>>,
         \A s \in Symbols :
           /\ sent'[s] \in Nat /\ sent[s] <= sent'[s]
           /\ last'[s] \in {0, last[s]} \/ tape[s][last'[s]] = e.at,
         NEW k \in Keys, Shut(k), Past(k) => End(k[2]) <= e.at
  PROVE  Shut(k)'
<1>1. maxSeen <= maxSeen' /\ maxSeen' \in Int /\ step'.at # "gap"
  BY SeenIs
<1>2. \/ Passes(e, q, inc)
      \/ \E a \in [Keys -> Kept], due \in SUBSET Keys : Enters(e, q, inc, a, due)
  BY ObservesParts
<1>3. ASSUME NEW s \in Symbols
      PROVE  lastMat'[s] \in {-1, lastMat[s]} \/ (Past(k) => k[2] <= lastMat'[s])
  <2>1. CASE lastMat' = lastMat
    BY <2>1
  <2>2. CASE Moves(e)
    <3>1. SUFFICES ASSUME Past(k), lastMat'[s] # -1 PROVE k[2] <= lastMat'[s]
      OBVIOUS
    <3>2. CASE lastMat[s] # -1
      <4>1. k[2] <= lastMat[s] /\ lastMat[s] <= lastMat'[s] /\ lastMat[s] \in Int /\ k[2] \in Int
        BY <2>2, <3>1, <3>2, MarksAre, KeyIs DEF Past, Moves
      <4>2. lastMat'[s] \in Int
        <5>1. lastMat' \in Marks
          BY ObservesAre
        <5> QED
          BY <5>1, BucketIn DEF Marks
      <4> QED
        BY <4>1, <4>2
    <3>3. CASE lastMat[s] = -1
      <4>1. s = e.sym /\ lastMat'[s] = Bucket(e.at)
        BY <2>2, <3>1, <3>3 DEF Moves
      <4>2. End(k[2]) <= e.at /\ e.at \in Int /\ k[2] \in Int
        BY <3>1, KeyIs DEF Event
      <4>3. k[2] < Bucket(e.at) /\ Bucket(e.at) \in Int
        BY <4>2, BucketEnds
      <4> QED
        BY <4>1, <4>2, <4>3
    <3> QED
      BY <3>2, <3>3
  <2> QED
    BY <1>2, <2>1, <2>2 DEF Passes, Enters
<1>4. clock' \in Int /\ clock <= clock'
  BY MarksAre
<1>5. ASSUME NEW s \in Symbols
      PROVE  last'[s] \in {0, last[s]} \/ (Past(k) => End(k[2]) <= tape[s][last'[s]])
  OBVIOUS
<1> QED
  BY <1>1, <1>3, <1>4, <1>5, ShutStays

(* A queue with a gap behind it carries what it carried.                       *)
LEMMA GapCarriesNothing ==
  ASSUME NEW q \in Seq(Command), NEW c \in Command, c.states = {}
  PROVE  /\ Append(q, c) = q \o <<c>> /\ <<c>> \in Seq(Command)
         /\ \A k : Carries(q \o <<c>>, k) <=> Carries(q, k)
         /\ Spread(q) => Spread(q \o <<c>>)
<1>1. <<c>> \in Seq(Command) /\ Append(q, c) = q \o <<c>>
  OBVIOUS
<1>2. Spread(<<c>>) /\ \A k : ~Carries(<<c>>, k)
  BY OneCommand
<1>3. \A k : Carries(q \o <<c>>, k) <=> Carries(q, k)
  BY <1>1, <1>2, CarriesBoth
<1>4. Spread(q) => Spread(q \o <<c>>)
  BY <1>1, <1>2, SpreadBoth
<1> QED
  BY <1>1, <1>3, <1>4

LEMMA CopyArrives ==
  ASSUME TypeInv, MarkInv, TrackInv, CopyInv, NEW e \in Event, Arrives(e), UNCHANGED exchange,
         e.at <= clock, e.id # 0 => tape[e.sym][e.id] = e.at,
         \A s \in Symbols : sent'[s] \in Nat /\ sent[s] <= sent'[s],
         \A k \in Keys : Past(k) => End(k[2]) <= e.at
  PROVE  CopyInv'
<1>1. /\ step = Idle /\ UNCHANGED <<clock, tape, expected, job, rows, gaps>>
      /\ queue \in Seq(Command) /\ Len(queue) <= QueueRoom /\ incomplete \in SUBSET Keys
      /\ clock \in Int /\ maxSeen \in Int
  BY MarksAre DEF Arrives, exchange, database, TypeInv, TypeOK
<1>2. Line = queue
  <2>1. step.todo = <<>> /\ queue \o <<>> = queue
    BY <1>1, ConcatEmptySeq DEF Idle
  <2> QED
    BY <2>1 DEF Line
<1>3. \A s \in Symbols : last'[s] \in {0, last[s]} \/ tape[s][last'[s]] = e.at
  <2>1. last' = last \/ (last' = [last EXCEPT ![e.sym] = e.id] /\ e.id # 0)
    BY DEF Arrives, Tracks, Tracked
  <2>2. last \in [Symbols -> Nat] /\ e.sym \in Symbols
    BY DEF TypeInv, TypeOK, Event
  <2> QED
    BY <2>1, <2>2
<1>4. CASE UNCHANGED <<Unseen, step, queue>>
  <2>1. UNCHANGED <<maxSeen, durDue, lastMat>> /\ step'.at # "gap"
    BY <1>1, <1>4 DEF Unseen, Idle
  <2>2. \A k \in Keys : Shut(k) => Shut(k)'
    BY <1>1, <1>3, <2>1, ShutStays
  <2>3. Line' = Line
    BY <1>4 DEF Line
  <2> QED
    BY <1>1, <2>1, <2>2, <2>3, CopyStays DEF CopyInv
<1>5. ASSUME NEW q \in Seq(Command), Len(q) <= QueueRoom, NEW inc \in SUBSET Keys,
             Observes(e, q, inc), Spread(q), \A k : Carries(q, k) <=> Carries(queue, k)
      PROVE  CopyInv'
  <2>1. \A k \in Keys : Shut(k) => Shut(k)'
    BY <1>1, <1>3, <1>5, ShutSeeing
  <2> QED
    BY <1>1, <1>2, <1>5, <2>1, CopyObserving
<1>6. Spread(queue)
  BY <1>2 DEF CopyInv
<1>7. CASE Observes(e, queue, incomplete)
  BY <1>1, <1>5, <1>6, <1>7
<1> DEFINE g == GapBefore(e)
           inc == incomplete \cup Marked(g.sym, g.lo, g.hi)
           c == Gap(g)
<1>8. AfterGap(e) => c \in Command /\ inc \in SUBSET Keys /\ c.states = {}
  BY <1>1, GapIs
<1> HIDE DEF inc, c
<1>9. CASE AfterGap(e) /\ Len(queue) < QueueRoom /\ Observes(e, Append(queue, c), inc)
  <2>1. Append(queue, c) \in Seq(Command) /\ Len(Append(queue, c)) <= QueueRoom
    BY <1>1, <1>8, <1>9, AppendIs
  <2>2. Spread(Append(queue, c)) /\ \A k : Carries(Append(queue, c), k) <=> Carries(queue, k)
    <3>1. c \in Command /\ c.states = {} /\ queue \in Seq(Command)
      BY <1>1, <1>8, <1>9
    <3>2. /\ Append(queue, c) = queue \o <<c>> /\ Spread(queue \o <<c>>)
          /\ \A k : Carries(queue \o <<c>>, k) <=> Carries(queue, k)
      BY <1>6, <3>1, GapCarriesNothing
    <3> QED
      BY <3>2
  <2> QED
    BY <1>5, <1>8, <1>9, <2>1, <2>2
<1>10. CASE AfterGap(e) /\ step' = AtGap(e, g) /\ UNCHANGED <<Unseen, queue>>
  <2>1. UNCHANGED <<maxSeen, durDue, lastMat>> /\ step'.event = e /\ step'.todo = <<c>>
    BY <1>10 DEF Unseen, AtGap, c
  <2>2. \A k \in Keys : Shut(k) => Shut(k)'
    BY <1>1, <1>3, <2>1, ShutStays
  <2>3. Line' = queue \o <<c>>
    BY <1>10, <2>1 DEF Line
  <2>4. Spread(Line') /\ \A k : Carries(Line', k) <=> Carries(Line, k)
    BY <1>1, <1>2, <1>6, <1>8, <1>10, <2>3, GapCarriesNothing
  <2> QED
    BY <1>1, <2>1, <2>2, <2>4, CopyStays
<1> QED
  BY <1>4, <1>7, <1>9, <1>10 DEF Arrives, Unseen, g, inc, c

-------------------------------------------------------------------------------
(* The rest of the line, and the writer.                                       *)
LEMMA CopyGapGoesIn ==
  ASSUME TypeInv, MarkInv, TrackInv, CopyInv, GapGoesIn PROVE CopyInv'
<1>1. /\ step.at = "gap" /\ Len(queue) < QueueRoom
      /\ UNCHANGED <<clock, tape, sent, expected, last, job, rows, gaps>>
      /\ \/ /\ queue' = Append(queue, step.todo[1]) /\ step' = Idle
            /\ UNCHANGED <<maxSeen, durDue, lastMat>>
         \/ Observes(step.event, Append(queue, step.todo[1]), incomplete)
  BY DEF GapGoesIn, exchange, database, Unseen
<1>2. /\ step.event \in Event /\ step.todo \in Seq(Command) /\ Len(step.todo) = 1
      /\ queue \in Seq(Command) /\ incomplete \in SUBSET Keys /\ step.event.at <= clock
      /\ clock \in Int /\ maxSeen \in Int
  BY <1>1, MarksAre DEF TypeInv, TypeOK, StepInv, QueueInv, TrackInv
<1>3. step.todo = <<step.todo[1]>>
  BY <1>2
<1>4. step.todo[1] \in Command
  BY <1>2, ElementIs
<1> DEFINE q == Append(queue, step.todo[1])
<1>5. q \in Seq(Command) /\ Len(q) <= QueueRoom
  BY <1>1, <1>2, <1>4, AppendIs
<1>6. q = Line
  <2>1. Append(queue, step.todo[1]) = queue \o <<step.todo[1]>>
    BY <1>2, <1>4
  <2> QED
    BY <1>3, <2>1 DEF Line
<1> HIDE DEF q
<1>7. \A s \in Symbols : sent'[s] \in Nat /\ sent[s] <= sent'[s] /\ last'[s] \in {0, last[s]}
  BY <1>1, MarksAre
<1>8. CASE queue' = q /\ step' = Idle /\ UNCHANGED <<maxSeen, durDue, lastMat>>
  <2>1. Line' = Line
    <3>1. step'.todo = <<>> /\ step'.at # "gap"
      BY <1>8 DEF Idle
    <3>2. Line' = q \o <<>>
      BY <1>8, <3>1 DEF Line
    <3> QED
      BY <1>5, <1>6, <3>2, ConcatEmptySeq
  <2>2. step'.at # "gap"
    BY <1>8 DEF Idle
  <2>3. \A k \in Keys : Shut(k) => Shut(k)'
    BY <1>1, <1>2, <1>7, <1>8, <2>2, ShutStays
  <2> QED
    BY <1>1, <1>8, <2>1, <2>3, CopyStays DEF CopyInv
<1>9. CASE Observes(step.event, q, incomplete)
  <2>1. \A k \in Keys : Past(k) => End(k[2]) <= step.event.at
    BY <1>1 DEF Past
  <2>2. \A k \in Keys : Shut(k) => Shut(k)'
    BY <1>1, <1>2, <1>5, <1>7, <1>9, <2>1, ShutSeeing
  <2>3. Spread(q)
    BY <1>6 DEF CopyInv
  <2> QED
    BY <1>1, <1>2, <1>5, <1>6, <1>9, <2>1, <2>2, <2>3, CopyObserving
<1> QED
  BY <1>1, <1>8, <1>9 DEF q

LEMMA CopyHubTakes ==
  ASSUME TypeInv, CopyInv, HubTakes PROVE CopyInv'
<1>1. /\ step.at = "sink" /\ ClosesDurably(queue, acc, durDue, maxSeen - DurDelay, incomplete)
      /\ UNCHANGED <<clock, tape, sent, last, maxSeen, lastMat, job, rows, gaps>>
  BY DEF HubTakes, exchange, database
<1>2. /\ queue \in Seq(Command) /\ Len(queue) <= QueueRoom /\ acc \in [Keys -> Kept]
      /\ maxSeen - DurDelay \in Int /\ incomplete \in SUBSET Keys /\ step.todo = <<>>
      /\ clock \in Int /\ maxSeen \in Int
      /\ durDue \in SUBSET Keys /\ \A k \in durDue : acc[k].open
  BY <1>1, MarksAre DEF TypeInv, TypeOK, StepInv, Kept, Open
<1>3. Line = queue
  BY <1>2, ConcatEmptySeq DEF Line
<1>4. Spread(queue) /\ \A k \in Keys : Carries(queue, k) => k \notin durDue
  BY <1>3 DEF CopyInv, Placed
<1>5. /\ Spread(Line')
      /\ \A k \in Keys : /\ k \in durDue' <=> k \in durDue /\ ~(End(k[2]) <= maxSeen - DurDelay)
                         /\ Carries(Line', k) <=>
                              Carries(queue, k) \/ (k \in durDue /\ End(k[2]) <= maxSeen - DurDelay)
  BY <1>1, <1>2, <1>4, ClosesLine
<1>6. step'.at # "gap"
  BY <1>1, ClosesTo
<1>7. \A s \in Symbols : sent'[s] \in Nat /\ sent[s] <= sent'[s]
  BY <1>1, MarksAre
<1>8. \A k \in Keys : Shut(k) => Shut(k)'
  BY <1>1, <1>2, <1>6, <1>7, ShutStays
<1>9. \A k : (InJob(k)' <=> InJob(k)) /\ (Stored(k)' <=> Stored(k)) /\ Adjusted(k)' = Adjusted(k)
  BY <1>1 DEF InJob, Stored, Adjusted
<1>10. ASSUME NEW k \in Keys, Placed(k)' PROVE Shut(k)' /\ k \notin durDue'
  <2>1. CASE Placed(k)
    BY <1>5, <1>8, <2>1 DEF CopyInv
  <2>2. CASE k \in durDue /\ End(k[2]) <= maxSeen - DurDelay
    BY <1>1, <1>5, <2>2 DEF Shut
  <2> QED
    BY <1>3, <1>5, <1>9, <1>10, <2>1, <2>2 DEF Placed
<1>11. ASSUME NEW k \in Keys, Carries(Line', k) PROVE ~InJob(k) /\ ~Stored(k)
  BY <1>3, <1>5, <1>11 DEF CopyInv, Placed
<1> QED
  BY <1>1, <1>5, <1>9, <1>10, <1>11 DEF CopyInv

(* Steps that leave the writer, the database and the marks alone.              *)
LEMMA CopyQuiet ==
  ASSUME TypeInv, CopyInv, UNCHANGED <<tape, maxSeen, sent, durDue, job, rows, gaps>>,
         clock' \in Int, clock <= clock', step'.at = "gap" => step' = step,
         \A s \in Symbols : last'[s] \in {0, last[s]} /\ lastMat'[s] \in {-1, lastMat[s]},
         Line' = Line \/ Line' = queue
  PROVE  CopyInv'
<1>1. queue \in Seq(Command) /\ step.todo \in Seq(Command) /\ maxSeen \in Int
  BY MarksAre
<1>2. Spread(Line') /\ \A k \in Keys : Carries(Line', k) => Carries(Line, k)
  <2>1. Spread(Line)
    BY DEF CopyInv
  <2>2. Spread(queue)
    BY <1>1, <2>1, SpreadBoth DEF Line
  <2>3. \A k \in Keys : Carries(queue, k) => Carries(Line, k)
    BY <1>1, CarriesBoth DEF Line
  <2> QED
    BY <2>1, <2>2, <2>3
<1>3. \A s \in Symbols : sent'[s] \in Nat /\ sent[s] <= sent'[s]
  BY MarksAre
<1>4. \A k \in Keys : Shut(k) => Shut(k)'
  BY <1>1, <1>3, ShutStays
<1> QED
  BY <1>2, <1>4, CopyStays

(* What was built goes to the end of the line, where the line had it.          *)
LEMMA CopyRowsAreBuilt ==
  ASSUME TypeInv, CopyInv, RowsAreBuilt PROVE CopyInv'
<1>1. /\ PutAll(queue, step.todo)
      /\ UNCHANGED <<tape, clock, maxSeen, sent, durDue, job, rows, gaps, last, lastMat>>
  BY DEF RowsAreBuilt, Stores, exchange, database
<1>2. queue \in Seq(Command) /\ step.todo \in Seq(Command) /\ Len(queue) <= QueueRoom
  BY MarksAre
<1>3. Line' = Line
  BY <1>1, <1>2, PutAllLine DEF Line
<1>4. step'.at # "gap"
  BY ClosesTo DEF RowsAreBuilt
<1>5. clock' \in Int /\ clock <= clock'
  BY <1>1, MarksAre
<1> QED
  BY <1>1, <1>3, <1>4, <1>5, CopyQuiet

LEMMA SpreadApart ==
  ASSUME NEW p \in Seq(Command), NEW q \in Seq(Command), Spread(p \o q), NEW k,
         Carries(p, k), Carries(q, k)
  PROVE  FALSE
<1>1. PICK m \in DOMAIN p : \E st \in p[m].states : st.key = k
  BY DEF Carries
<1>2. PICK n \in DOMAIN q : \E st \in q[n].states : st.key = k
  BY DEF Carries
<1>3. /\ m \in 1..Len(p) /\ n \in 1..Len(q) /\ Len(p) \in Nat
      /\ m \in DOMAIN (p \o q) /\ (p \o q)[m] = p[m] /\ (p \o q)[Len(p) + n] = q[n]
  BY ConcatIs
<1>4. Len(p) + n \in DOMAIN (p \o q) /\ m # Len(p) + n
  BY <1>3, ConcatIs
<1> QED
  BY <1>1, <1>2, <1>3, <1>4 DEF Spread

LEMMA CopyWriterTakes ==
  ASSUME TypeInv, CopyInv, WriterTakes PROVE CopyInv'
<1>1. /\ job = NoJob /\ queue # <<>> /\ job' = Head(queue) /\ queue' = Tail(queue)
      /\ UNCHANGED <<clock, tape, sent, last, maxSeen, lastMat, durDue, step, rows, gaps>>
  BY DEF WriterTakes, exchange, memory, database
<1>2. queue \in Seq(Command) /\ step.todo \in Seq(Command) /\ maxSeen \in Int /\ clock \in Int
  BY MarksAre
<1>3. /\ job' \in Command /\ queue' \in Seq(Command) /\ <<job'>> \in Seq(Command)
      /\ queue = <<job'>> \o queue'
  <2>1. Head(queue) \in Command /\ Tail(queue) \in Seq(Command)
    BY <1>1, <1>2, HeadTailProperties
  <2>2. queue = <<Head(queue)>> \o Tail(queue)
    BY <1>1, <1>2
  <2> QED
    BY <1>1, <2>1, <2>2
<1>4. Line = <<job'>> \o Line' /\ Line' \in Seq(Command)
  <2>1. ASSUME NEW a \in Seq(Command), NEW b \in Seq(Command), NEW c \in Seq(Command)
        PROVE  (a \o b) \o c = a \o (b \o c)
    BY ConcatAssociative
  <2>2. (<<job'>> \o queue') \o step.todo = <<job'>> \o (queue' \o step.todo)
    <3> DEFINE one == <<job'>>
    <3>1. one \in Seq(Command) /\ queue' \in Seq(Command) /\ step.todo \in Seq(Command)
      BY <1>2, <1>3
    <3> HIDE DEF one
    <3>2. (one \o queue') \o step.todo = one \o (queue' \o step.todo)
      BY <2>1, <3>1
    <3> QED
      BY <3>2 DEF one
  <2>3. Line = queue \o step.todo /\ Line' = queue' \o step.todo
    BY <1>1 DEF Line
  <2>4. queue' \o step.todo \in Seq(Command)
    BY <1>2, <1>3, ConcatIs
  <2> QED
    BY <1>3, <2>2, <2>3, <2>4
<1>5. \A k : InJob(k)' <=> Carries(<<job'>>, k)
  BY OneCommand DEF InJob
<1>6. \A k : Carries(Line, k) <=> InJob(k)' \/ Carries(Line', k)
  BY <1>3, <1>4, <1>5, CarriesBoth
<1>7. Spread(Line') /\ \A k : ~(InJob(k)' /\ Carries(Line', k))
  <2>1. Spread(<<job'>> \o Line')
    BY <1>4 DEF CopyInv
  <2> QED
    BY <1>3, <1>4, <1>5, <2>1, SpreadBoth, SpreadApart
<1>8. \A s \in Symbols : sent'[s] \in Nat /\ sent[s] <= sent'[s]
  BY <1>1, MarksAre
<1>9. \A k \in Keys : Shut(k) => Shut(k)'
  BY <1>1, <1>2, <1>8, ShutStays
<1>10. \A k : Stored(k)' <=> Stored(k)
  BY <1>1 DEF Stored
<1>11. \A k \in Keys : Placed(k)' => Placed(k)
  BY <1>6, <1>10 DEF Placed
<1>12. ASSUME NEW st \in job'.states, NEW r \in rows, r.key = st.key PROVE FALSE
  <2>1. st.key \in Keys
    BY <1>3, CommandsAre DEF State
  <2>2. InJob(st.key)' /\ Stored(st.key)
    BY <1>12 DEF InJob, Stored
  <2> QED
    BY <1>6, <2>1, <2>2 DEF CopyInv
<1> QED
  BY <1>1, <1>6, <1>7, <1>9, <1>10, <1>11, <1>12 DEF CopyInv

LEMMA CommitsCopy ==
  ASSUME TypeInv, CopyInv, job # NoJob, Commits
  PROVE  /\ \A k : Stored(k)' => Stored(k) \/ InJob(k)
         /\ \A st \in job.states, r \in rows' : r.key = st.key => r = Adjusted(st)
         /\ job.states # {} => gaps' = gaps
<1>1. job \in Command /\ job.states \subseteq State /\ Unique(job.states)
      /\ (job.kind = "gap" => job.states = {})
  BY DEF TypeInv, QueueInv, Command, IsCommand
<1>2. CASE job.kind = "gap" /\ UNCHANGED database
  BY <1>1, <1>2 DEF database, Stored
<1>3. CASE job.kind = "gap" /\ rows' = MarkedBy(job.gap)
  <2>1. \A r \in rows' : \E p \in rows : r.key = p.key
    BY <1>3 DEF MarkedBy
  <2> QED
    BY <1>1, <1>3, <2>1 DEF Stored
<1>4. CASE rows' = Merged({Adjusted(st) : st \in job.states}) /\ UNCHANGED gaps
  <2>1. \A r \in rows' : r \in rows \/ \E st \in job.states : r = Adjusted(st)
    BY <1>4 DEF Merged
  <2>2. \A st \in job.states : Adjusted(st).key = st.key
    BY DEF Adjusted
  <2>3. \A st, p \in job.states : st.key = p.key => st = p
    BY <1>1 DEF Unique
  <2>4. \A k : Stored(k)' => Stored(k) \/ InJob(k)
    BY <2>1, <2>2 DEF Stored, InJob
  <2>5. \A st \in job.states, r \in rows' : r.key = st.key => r = Adjusted(st)
    BY <2>1, <2>2, <2>3 DEF CopyInv
  <2> QED
    BY <1>4, <2>4, <2>5
<1> QED
  BY <1>2, <1>3, <1>4 DEF Commits

LEMMA CopyWrites ==
  ASSUME TypeInv, CopyInv, Writes \/ WritesUnheard \/ WriterFails PROVE CopyInv'
<1>1. /\ UNCHANGED <<clock, tape, sent, last, maxSeen, lastMat, durDue, step, queue>>
      /\ job' = NoJob \/ job' = job
      /\ \/ job # NoJob /\ Commits
         \/ job' = NoJob /\ UNCHANGED <<rows, gaps>>
  BY DEF Writes, WritesUnheard, WriterFails, exchange, memory, writer, database
<1>2. /\ \A k : Stored(k)' => Stored(k) \/ InJob(k)
      /\ job' = job => \A st \in job.states, r \in rows' : r.key = st.key => r = Adjusted(st)'
  <2>1. CASE job # NoJob /\ Commits
    <3>1. /\ \A k : Stored(k)' => Stored(k) \/ InJob(k)
          /\ \A st \in job.states, r \in rows' : r.key = st.key => r = Adjusted(st)
          /\ job.states # {} => gaps' = gaps
      BY <2>1, CommitsCopy
    <3>2. gaps' = gaps => \A st : Adjusted(st)' = Adjusted(st)
      BY DEF Adjusted
    <3> QED
      BY <3>1, <3>2
  <2>2. CASE job' = NoJob /\ UNCHANGED <<rows, gaps>>
    BY <2>2 DEF Stored, NoJob, CopyInv, Adjusted
  <2> QED
    BY <1>1, <2>1, <2>2
<1>3. NoJob.states = {}
  BY DEF NoJob
<1>4. \A k : InJob(k)' => InJob(k)
  BY <1>1, <1>3 DEF InJob
<1>5. Line' = Line
  BY <1>1 DEF Line
<1>6. \A s \in Symbols : sent'[s] \in Nat /\ sent[s] <= sent'[s]
  BY <1>1, MarksAre
<1>7. \A k \in Keys : Shut(k) => Shut(k)'
  BY <1>1, <1>6, MarksAre, ShutStays
<1>8. \A k \in Keys : Placed(k)' => Placed(k)
  BY <1>2, <1>4, <1>5 DEF Placed
<1>9. \A k \in Keys : Carries(Line', k) => ~InJob(k)' /\ ~Stored(k)'
  BY <1>2, <1>4, <1>5 DEF CopyInv
<1> QED
  BY <1>1, <1>2, <1>3, <1>5, <1>7, <1>8, <1>9 DEF CopyInv

(* After a restart nothing that is stored is reached by what is still to come. *)
LEMMA CopyRestarts ==
  ASSUME TypeInv, TrackInv, CopyInv, Restarts PROVE CopyInv'
<1>1. /\ sent' = [s \in Symbols |-> Made(s)] /\ last' = [s \in Symbols |-> 0]
      /\ lastMat' = [s \in Symbols |-> -1] /\ durDue' = {}
      /\ step' = Idle /\ queue' = <<>> /\ job' = NoJob
      /\ UNCHANGED <<clock, tape, rows, gaps>>
  BY DEF Restarts, exchange, database
<1>2. /\ clock \in Int /\ maxSeen \in Int /\ maxSeen - DurDelay \in Int
      /\ maxSeen - DurDelay <= maxSeen /\ maxSeen <= clock
  BY MarksAre DEF TrackInv
<1>3. Line' = <<>> /\ step'.at = "idle" /\ job'.states = {}
  <2>1. <<>> \o <<>> = <<>>
    OBVIOUS
  <2> QED
    BY <1>1, <2>1 DEF Line, Idle, NoJob
<1>4. ASSUME NEW k \in Keys, Shut(k) PROVE Past(k)'
  <2>1. End(k[2]) <= clock /\ End(k[2]) \in Int
    BY <1>2, <1>4, KeyIs DEF Shut, Past
  <2>2. ASSUME NEW s \in Symbols, NEW i \in DOMAIN tape[s], Made(s) < i
        PROVE  End(k[2]) <= tape[s][i]
    <3>1. i \in 1..Len(tape[s])
      <4>1. tape[s] \in Seq(0..MaxClock)
        BY MadeIs
      <4> QED
        BY <4>1
    <3>2. /\ Made(s) \in Nat /\ tape[s][i] \in 0..MaxClock
          /\ (i <= Made(s) <=> tape[s][i] <= clock) /\ i \in Int
      BY <3>1, MadeAre
    <3> QED
      BY <1>2, <2>1, <2>2, <3>2
  <2> QED
    BY <1>1, <1>3, <2>1, <2>2 DEF Past
<1>5. \A k : ~Carries(Line', k) /\ ~InJob(k)' /\ (Stored(k)' <=> Stored(k))
  BY <1>1, <1>3, OneCommand DEF InJob, Stored
<1>6. Spread(Line')
  BY <1>3, OneCommand
<1>7. \A k \in Keys : k \notin durDue'
  BY <1>1
<1>8. \A k \in Keys : Placed(k)' => Shut(k)'
  BY <1>4, <1>5 DEF Placed, CopyInv, Shut
<1> QED
  BY <1>3, <1>5, <1>6, <1>7, <1>8 DEF CopyInv

LEMMA CopyInvStays ==
  ASSUME TypeInv, MarkInv, TrackInv, CopyInv, [Next]_vars PROVE CopyInv'
<1>1. ASSUME NEW s \in Symbols, TradeArrives(s) PROVE CopyInv'
  <2>1. PICK i \in ({last[s]} \ {0}) \cup ((sent[s] + 1)..Made(s)) :
          sent' = [sent EXCEPT ![s] = i] /\ Arrives([sym |-> s, id |-> i, at |-> tape[s][i]])
    BY <1>1 DEF TradeArrives
  <2>2. /\ tape[s][i] <= clock /\ i \in 1..Len(tape[s]) /\ tape[s][i] \in 0..MaxClock
        /\ sent[s] <= i /\ (i = last[s] \/ sent[s] < i) /\ (i = last[s] => i = sent[s])
    BY EventIs
  <2> DEFINE e == [sym |-> s, id |-> i, at |-> tape[s][i]]
  <2>3. e \in Event /\ e.sym = s /\ e.id = i /\ e.at = tape[s][i] /\ i # 0 /\ Arrives(e)
    BY <2>1, <2>2 DEF Event
  <2>4. UNCHANGED exchange
    BY <1>1 DEF TradeArrives
  <2>5. \A k \in Keys : Past(k) => End(k[2]) <= tape[s][i]
    <3>1. i \in DOMAIN tape[s]
      <4>1. tape[s] \in Seq(0..MaxClock)
        BY MadeIs
      <4> QED
        BY <2>2, <4>1
    <3> QED
      BY <2>2, <2>3, <3>1 DEF Past
  <2>6. \A x \in Symbols : sent'[x] \in Nat /\ sent[x] <= sent'[x]
    <3>1. sent \in [Symbols -> Nat] /\ i \in Nat
      BY <2>2 DEF TypeInv, PlaceInv
    <3> QED
      BY <2>1, <2>2, <3>1
  <2> HIDE DEF e
  <2> QED
    BY <2>2, <2>3, <2>4, <2>5, <2>6, CopyArrives
<1>2. ASSUME NEW s \in Symbols, QuoteArrives(s) PROVE CopyInv'
  <2> DEFINE e == [sym |-> s, id |-> 0, at |-> clock]
  <2>1. e \in Event /\ e.id = 0 /\ e.at = clock /\ Arrives(e) /\ UNCHANGED <<exchange, sent>>
    BY <1>2 DEF QuoteArrives, Event, TypeInv, TypeOK
  <2>2. e.at <= clock
    BY <2>1, MarksAre
  <2>3. \A k \in Keys : Past(k) => End(k[2]) <= clock
    BY DEF Past
  <2>4. \A x \in Symbols : sent'[x] \in Nat /\ sent[x] <= sent'[x]
    BY <2>1, MarksAre
  <2> HIDE DEF e
  <2> QED
    BY <2>1, <2>2, <2>3, <2>4, CopyArrives
<1>3. CASE UNCHANGED vars \/ RowsGoIn \/ Cut \/ TimePasses
  <2>1. /\ UNCHANGED <<tape, maxSeen, sent, durDue, job, rows, gaps, last, lastMat>>
        /\ clock' = clock \/ clock' = clock + 1
        /\ step'.at = "gap" => step' = step
    BY <1>3 DEF vars, RowsGoIn, Cut, TimePasses, exchange, memory, writer, database, PutAll, Idle, AtRows
  <2>2. Line' = Line \/ Line' = queue
    <3>1. queue \in Seq(Command) /\ step.todo \in Seq(Command) /\ Len(queue) <= QueueRoom
      BY MarksAre
    <3>2. CASE UNCHANGED vars \/ TimePasses
      BY <3>2 DEF vars, TimePasses, writer, Line
    <3>3. CASE RowsGoIn
      BY <3>1, <3>3, PutAllLine DEF RowsGoIn, Line
    <3>4. CASE Cut
      <4>1. queue' = queue /\ step'.todo = <<>>
        BY <3>4 DEF Cut, writer, Idle
      <4> QED
        BY <3>1, <4>1, ConcatEmptySeq DEF Line
    <3> QED
      BY <1>3, <3>2, <3>3, <3>4
  <2>3. clock' \in Int /\ clock <= clock'
    BY <2>1, MarksAre
  <2> QED
    BY <2>1, <2>2, <2>3, CopyQuiet
<1>4. ASSUME NEW s \in Symbols, Changes(s) PROVE CopyInv'
  <2>1. /\ lastMat' = [lastMat EXCEPT ![s] = -1]
        /\ last' = [x \in Symbols |-> IF x \in expected' THEN last[x] ELSE 0]
        /\ UNCHANGED <<tape, clock, maxSeen, sent, durDue, job, queue, step, rows, gaps>>
    BY <1>4 DEF Changes, exchange, writer, database
  <2>2. lastMat \in Marks /\ clock \in Int
    BY MarksAre DEF TypeInv, TypeOK, Marks
  <2>3. \A x \in Symbols : last'[x] \in {0, last[x]} /\ lastMat'[x] \in {-1, lastMat[x]}
    BY <2>1, <2>2 DEF Marks
  <2>4. Line' = Line
    BY <2>1 DEF Line
  <2> QED
    BY <2>1, <2>2, <2>3, <2>4, CopyQuiet
<1> QED
  BY <1>1, <1>2, <1>3, <1>4, CopyGapGoesIn, CopyHubTakes, CopyRowsAreBuilt, CopyWriterTakes,
     CopyWrites, CopyRestarts DEF Next

LEMMA CopyInvStarts == Init => TrackInv /\ CopyInv
<1> SUFFICES ASSUME Init PROVE TrackInv /\ CopyInv
  OBVIOUS
<1>1. /\ clock = 0 /\ sent = [s \in Symbols |-> 0] /\ last = [s \in Symbols |-> 0]
      /\ maxSeen = -1 /\ acc = [k \in Keys |-> NoBucket] /\ step = Idle /\ queue = <<>>
      /\ job = NoJob /\ rows = {}
  BY DEF Init
<1>2. step.at = "idle" /\ step.todo = <<>> /\ job.states = {} /\ <<>> \o <<>> = <<>>
  BY <1>1 DEF Idle, NoJob
<1>3. Line = <<>>
  BY <1>1, <1>2 DEF Line
<1>4. Spread(Line) /\ \A k : ~Carries(Line, k) /\ ~InJob(k) /\ ~Stored(k)
  BY <1>1, <1>2, <1>3, OneCommand DEF InJob, Stored
<1>5. TrackInv
  BY <1>1, <1>2 DEF TrackInv
<1> QED
  BY <1>1, <1>2, <1>4, <1>5 DEF CopyInv, Placed

LEMMA CopyInvHolds == Spec => [](RuntimeInv /\ MarkInv /\ TrackInv /\ CopyInv)
<1>1. RuntimeInv /\ MarkInv /\ HubInv /\ TrackInv /\ CopyInv /\ [Next]_vars =>
        TrackInv' /\ CopyInv'
  BY TrackStays, CopyInvStays DEF RuntimeInv
<1> QED
  BY <1>1, HubInvHolds, CopyInvStarts, PTL DEF Spec

(* A bucket is stored from one copy: the writer never meets a row of its own   *)
(* that differs, whatever is cut off, retried or begun again.                  *)
THEOREM NoConflictOfOurOwn == Spec => []OneCopy
<1>1. RuntimeInv /\ CopyInv => OneCopy
  <2> SUFFICES ASSUME RuntimeInv, CopyInv, NEW st \in job.states,
                      Stored(Adjusted(st).key), RowOf(Adjusted(st).key) # Adjusted(st)
               PROVE  FALSE
    BY DEF OneCopy, Conflicts, AdjustedJob
  <2>1. Adjusted(st).key = st.key
    BY DEF Adjusted
  <2>2. PICK r \in rows : r.key = st.key
    BY <2>1 DEF Stored
  <2>3. RowOf(st.key) \in rows /\ RowOf(st.key).key = st.key
    BY <2>2 DEF RowOf
  <2> QED
    BY <2>1, <2>3 DEF CopyInv
<1> QED
  BY <1>1, CopyInvHolds, PTL

-------------------------------------------------------------------------------

(* What is whole.  Amends(k): a gap that reaches into bucket k is on its way   *)
(* to the database, or is stored, or was lost with the connection that had it. *)
Moving(c) == Has(Line, c) \/ c = job
Amends(k) ==
  \/ \E c : Moving(c) /\ c.kind = "gap" /\ Covers(c.gap, k)
  \/ \E g \in gaps : Covers(g, k)
  \/ k \in unstored

Told(st) == st.complete => Whole(st.key, st.trades)
Owed(st) == st.complete => Whole(st.key, st.trades) \/ Amends(st.key)
Live(k)  == acc[k].open \/ ~(End(k[2]) <= maxSeen - DurDelay)

(* A bucket that can still be closed, and is not marked incomplete, has every  *)
(* trade tracked; so has every state made of one, unless a gap found after it  *)
(* was made is still to reach it.                                              *)
WholeInv ==
  ~dead =>
    /\ base \in [Symbols -> Nat]
    /\ \A k \in Keys : acc[k].open \/ acc[k].trades = {}
    /\ \A k \in Keys : Live(k) /\ k \notin incomplete => Whole(k, acc[k].trades)
    /\ \A st \in step.states : Told(st)
    /\ \A c : Moving(c) => \A st \in c.states : Owed(st)
    /\ \A r \in rows : Owed(r)

LEMMA HasBoth ==
  ASSUME NEW p \in Seq(Command), NEW q \in Seq(Command), NEW c
  PROVE  Has(p \o q, c) <=> Has(p, c) \/ Has(q, c)
<1>1. ASSUME Has(p \o q, c) PROVE Has(p, c) \/ Has(q, c)
  <2>1. PICK n \in DOMAIN (p \o q) : (p \o q)[n] = c
    BY <1>1 DEF Has
  <2>2. CASE n \in 1..Len(p)
    <3>1. n \in DOMAIN p /\ (p \o q)[n] = p[n]
      BY <2>2, ConcatIs
    <3> QED
      BY <2>1, <3>1 DEF Has
  <2>3. CASE n - Len(p) \in 1..Len(q) /\ (p \o q)[n] = q[n - Len(p)]
    <3>1. n - Len(p) \in DOMAIN q
      BY <2>3, ConcatIs
    <3> QED
      BY <2>1, <2>3, <3>1 DEF Has
  <2> QED
    BY <2>1, <2>2, <2>3, ConcatIs
<1>2. ASSUME Has(p, c) PROVE Has(p \o q, c)
  <2>1. PICK n \in DOMAIN p : p[n] = c
    BY <1>2 DEF Has
  <2>2. n \in DOMAIN (p \o q) /\ (p \o q)[n] = p[n]
    BY ConcatIs
  <2> QED
    BY <2>1, <2>2 DEF Has
<1>3. ASSUME Has(q, c) PROVE Has(p \o q, c)
  <2>1. PICK n \in DOMAIN q : q[n] = c
    BY <1>3 DEF Has
  <2>2. n \in 1..Len(q) /\ (p \o q)[Len(p) + n] = q[n]
    BY ConcatIs
  <2>3. Len(p) + n \in DOMAIN (p \o q)
    BY <2>2, ConcatIs
  <2> QED
    BY <2>1, <2>2, <2>3 DEF Has
<1> QED
  BY <1>1, <1>2, <1>3

(* The commands made of some states have no others.                            *)
LEMMA BatchesHold ==
  ASSUME NEW S \in SUBSET State, Unique(S), NEW c, Has(Batches(S), c)
  PROVE  c.states \subseteq S
<1> DEFINE real == {st \in S : ~Synthetic(st)}
           rest == S \ real
           p == IF real = {} THEN <<>> ELSE <<Rows(real)>>
           q == IF rest = {} THEN <<>> ELSE <<Rows(rest)>>
<1>1. real \in SUBSET State /\ rest \in SUBSET State /\ Unique(real) /\ Unique(rest)
      /\ real \subseteq S /\ rest \subseteq S /\ (S = real <=> rest = {})
  BY DEF Unique
<1>2. Batches(S) = p \o q
  BY <1>1 DEF Batches
<1> HIDE DEF real, rest
<1>3. p \in Seq(Command) /\ (Has(p, c) => c.states = real)
  <2>1. CASE real = {}
    <3>1. p = <<>> /\ <<>> \in Seq(Command) /\ DOMAIN <<>> = {}
      BY <2>1
    <3> QED
      BY <3>1 DEF Has
  <2>2. CASE real # {}
    <3>1. /\ p = <<Rows(real)>> /\ Rows(real).states = real /\ p \in Seq(Command)
          /\ DOMAIN p = {1} /\ p[1] = Rows(real)
      BY <1>1, <2>2, RowsAre
    <3> HIDE DEF p
    <3> QED
      BY <3>1 DEF Has
  <2> QED
    BY <2>1, <2>2
<1>4. q \in Seq(Command) /\ (Has(q, c) => c.states = rest)
  <2>1. CASE rest = {}
    <3>1. q = <<>> /\ <<>> \in Seq(Command) /\ DOMAIN <<>> = {}
      BY <2>1
    <3> QED
      BY <3>1 DEF Has
  <2>2. CASE rest # {}
    <3>1. /\ q = <<Rows(rest)>> /\ Rows(rest).states = rest /\ q \in Seq(Command)
          /\ DOMAIN q = {1} /\ q[1] = Rows(rest)
      BY <1>1, <2>2, RowsAre
    <3> HIDE DEF q
    <3> QED
      BY <3>1 DEF Has
  <2> QED
    BY <2>1, <2>2
<1> HIDE DEF p, q
<1> QED
  BY <1>1, <1>2, <1>3, <1>4, HasBoth

LEMMA SnapshotIs ==
  ASSUME NEW a, NEW ks, NEW inc, NEW st \in Snapshots(a, ks, inc)
  PROVE  st.key \in ks /\ st.trades = a[st.key].trades /\ (st.complete => st.key \notin inc)
<1>1. PICK k \in ks : st = [key |-> k, trades |-> a[k].trades, quote |-> a[k].quote,
                            complete |-> k \notin inc]
  BY DEF Snapshots
<1>2. st.key = k /\ st.trades = a[k].trades /\ st.complete = (k \notin inc)
  BY <1>1
<1> QED
  BY <1>2

(* A step that tells nothing new of the tapes keeps the invariant: what is     *)
(* stored has the trades of what was stored or on its way, and a gap that was  *)
(* to reach a bucket still is.                                                 *)
LEMMA WholeStays ==
  ASSUME TypeInv, WholeInv, dead' = dead \/ dead',
         base' \in [Symbols -> Nat] \/ base' = base,
         UNCHANGED <<acc, maxSeen, incomplete>>,
         step'.states \subseteq step.states,
         \A c : Moving(c)' => Moving(c) \/ c.states = {},
         \A r \in rows' : r.complete =>
           \E st : /\ st \in rows \/ \E c : Moving(c) /\ st \in c.states
                   /\ st.key = r.key /\ st.trades = r.trades /\ st.complete,
         \A k \in Keys, T \in SUBSET Nat : Whole(k, T) => Whole(k, T)',
         \A k \in Keys : Amends(k) => Amends(k)',
         \A c : Moving(c) => c.states \subseteq State
  PROVE  WholeInv'
<1> SUFFICES ASSUME ~dead'
             PROVE  /\ base' \in [Symbols -> Nat]
                    /\ \A k \in Keys : acc'[k].open \/ acc'[k].trades = {}
                    /\ \A k \in Keys : Live(k)' /\ k \notin incomplete' => Whole(k, acc[k].trades)'
                    /\ \A st \in step'.states : Told(st)'
                    /\ \A c : Moving(c)' => \A st \in c.states : Owed(st)'
                    /\ \A r \in rows' : Owed(r)'
  BY DEF WholeInv
<1>1. ~dead
  OBVIOUS
<1>2. step.states \subseteq State /\ rows \subseteq State /\ acc \in [Keys -> Kept]
  BY DEF TypeInv, TypeOK, StepInv, Kept
<1>3. \A st \in State : st.key \in Keys /\ st.trades \in SUBSET Nat
  BY DEF State
<1>4. \A k \in Keys : acc[k].trades \in SUBSET Nat
  BY <1>2 DEF Kept
<1>5. base' \in [Symbols -> Nat] /\ \A k \in Keys : acc'[k].open \/ acc'[k].trades = {}
  BY <1>1 DEF WholeInv
<1>6. ASSUME NEW k \in Keys, Live(k)', k \notin incomplete' PROVE Whole(k, acc[k].trades)'
  <2>1. Live(k) /\ k \notin incomplete
    BY <1>6 DEF Live
  <2>2. Whole(k, acc[k].trades)
    BY <1>1, <2>1 DEF WholeInv
  <2>3. PICK T \in SUBSET Nat : T = acc[k].trades
    BY <1>4
  <2>4. Whole(k, T)'
    BY <2>2, <2>3
  <2> QED
    BY <2>3, <2>4 DEF Whole
<1>7. ASSUME NEW st \in step'.states PROVE Told(st)'
  BY <1>1, <1>2, <1>3 DEF WholeInv, Told
<1>8. \A st \in State : Owed(st) => Owed(st)'
  BY <1>3 DEF Owed
<1>9. \A c : Moving(c)' => \A st \in c.states : Owed(st)'
  BY <1>1, <1>8 DEF WholeInv
<1>10. ASSUME NEW r \in rows' PROVE Owed(r)'
  <2>1. SUFFICES ASSUME r.complete PROVE Owed(r)'
    BY DEF Owed
  <2>2. PICK st : /\ st \in rows \/ \E c : Moving(c) /\ st \in c.states
                  /\ st.key = r.key /\ st.trades = r.trades /\ st.complete
    BY <2>1
  <2>3. st \in State /\ Owed(st)
    BY <1>1, <1>2, <2>2 DEF WholeInv
  <2>4. Owed(st)'
    BY <1>8, <2>3
  <2> QED
    BY <2>2, <2>4 DEF Owed
<1> QED
  BY <1>5, <1>6, <1>7, <1>9, <1>10

(* What is whole stays so with more trades, while no other is tracked.         *)
LEMMA WholeKept ==
  ASSUME NEW k \in Keys, NEW T, NEW U, T \subseteq U, Whole(k, T), tape' = tape,
         base'[k[1]] = 0 \/ (base'[k[1]] = base[k[1]] /\ last'[k[1]] = last[k[1]]),
         late \subseteq late'
  PROVE  Whole(k, U)'
<1>1. CASE base'[k[1]] = 0
  BY <1>1 DEF Whole
<1>2. CASE base'[k[1]] = base[k[1]] /\ last'[k[1]] = last[k[1]]
  BY <1>2 DEF Whole
<1> QED
  BY <1>1, <1>2

(* The durable close takes what is whole out of the accumulators.              *)
LEMMA ClosesWhole ==
  ASSUME NEW q \in Seq(Command), Len(q) <= QueueRoom, NEW a \in [Keys -> Kept],
         NEW due \in SUBSET Keys, \A k \in due : a[k].open,
         NEW mark \in Int, NEW inc \in SUBSET Keys, ClosesDurably(q, a, due, mark, inc),
         \A k \in Keys : a[k].open \/ a[k].trades = {},
         \A k \in Keys : (a[k].open \/ ~(End(k[2]) <= mark)) /\ k \notin inc =>
           Whole(k, a[k].trades)'
  PROVE  /\ \A k \in Keys : acc'[k].open \/ acc'[k].trades = {}
         /\ \A k \in Keys : (acc'[k].open \/ ~(End(k[2]) <= mark)) /\ k \notin incomplete' =>
              Whole(k, acc[k].trades)'
         /\ step'.states = {}
         /\ \A c : Has(q, c) => Has(Line', c)
         /\ \A c : Has(Line', c) => Has(q, c) \/ \A st \in c.states : Told(st)'
<1> DEFINE ready == {k \in due : a[k].open /\ End(k[2]) <= mark}
           kept == {k \in inc : a[k].open \/ End(k[2]) > mark}
           S == Snapshots(a, ready, inc)
           Built == /\ acc' = [k \in Keys |-> IF k \in ready THEN NoBucket ELSE a[k]]
                    /\ incomplete' = kept \ ready
                    /\ PutAll(q, Batches(S))
           Building == acc' = a /\ incomplete' = kept /\ queue' = q /\ step' = AtBuild(Batches(S))
<1>1. Built \/ Building
  BY DEF ClosesDurably, Stores
<1>2. /\ \A k \in Keys : k \in ready => a[k].open /\ End(k[2]) <= mark
      /\ \A k \in Keys : k \in kept <=> k \in inc /\ (a[k].open \/ End(k[2]) > mark)
  OBVIOUS
<1>3. ready \in SUBSET Keys
  OBVIOUS
<1>4. \A k \in Keys : End(k[2]) > mark <=> ~(End(k[2]) <= mark)
  BY KeyIs
<1> HIDE DEF ready, kept
<1>5. S \in SUBSET State /\ Unique(S)
  BY <1>3, SnapshotsAre
<1>6. \A st \in S : Told(st)'
  <2> SUFFICES ASSUME NEW st \in S, st.complete PROVE Whole(st.key, st.trades)'
    BY DEF Told
  <2>1. st.key \in ready /\ st.trades = a[st.key].trades /\ st.key \notin inc
    BY SnapshotIs
  <2>2. Whole(st.key, a[st.key].trades)'
    BY <1>2, <1>3, <2>1
  <2> QED
    BY <2>1, <2>2
<1> HIDE DEF S
<1>7. Line' = q \o Batches(S) /\ Batches(S) \in Seq(Command)
  <2>1. Batches(S) \in Seq(Command)
    BY <1>5, BatchesSpread
  <2>2. CASE Built
    BY <2>1, <2>2, PutAllLine
  <2>3. CASE Building
    BY <2>1, <2>3 DEF Line, AtBuild
  <2> QED
    BY <1>1, <2>1, <2>2, <2>3
<1>8. \A c : Has(Line', c) <=> Has(q, c) \/ Has(Batches(S), c)
  BY <1>7, HasBoth
<1>9. \A c : Has(Batches(S), c) => c.states \subseteq S
  BY <1>5, BatchesHold
<1>10. step'.states = {}
  BY <1>1 DEF PutAll, Idle, AtRows, AtBuild
<1>11. NoBucket.trades = {} /\ ~NoBucket.open
  BY DEF NoBucket
<1>12. \A k \in Keys : acc'[k].open \/ acc'[k].trades = {}
  BY <1>1, <1>11
<1>13. ASSUME NEW k \in Keys, acc'[k].open \/ ~(End(k[2]) <= mark), k \notin incomplete'
       PROVE  Whole(k, acc[k].trades)'
  <2>2. acc'[k] = a[k] /\ k \notin inc
    <3>1. CASE Built
      <4>1. k \notin ready
        BY <1>2, <1>11, <1>13, <3>1
      <4> QED
        BY <1>2, <1>4, <1>13, <3>1, <4>1
    <3>2. CASE Building
      BY <1>2, <1>4, <1>13, <3>2
    <3> QED
      BY <1>1, <3>1, <3>2
  <2>3. Whole(k, a[k].trades)'
    BY <1>13, <2>2
  <2> QED
    BY <2>2, <2>3 DEF Whole
<1> QED
  BY <1>6, <1>8, <1>9, <1>10, <1>12, <1>13

LEMMA TapeOrder ==
  ASSUME TypeInv, NEW s \in Symbols, NEW m \in 1..Len(tape[s]), NEW n \in 1..Len(tape[s]), m <= n
  PROVE  tape[s][m] \in Int /\ tape[s][n] \in Int /\ tape[s][m] <= tape[s][n]
<1>1. tape \in Tapes /\ tape[s] \in Seq(0..MaxClock)
  BY MadeIs DEF TypeInv, TypeOK
<1>2. DOMAIN tape[s] = 1..Len(tape[s])
  BY <1>1
<1>3. tape[s][m] \in 0..MaxClock /\ tape[s][n] \in 0..MaxClock
  BY <1>1, ElementIs
<1>4. tape[s][m] <= tape[s][n]
  BY <1>1, <1>2, RuntimeAssumption
<1> QED
  BY <1>3, <1>4

(* A trade tracked is in its bucket, or came late; what was missing before it  *)
(* is in the buckets the gap covers.                                           *)
LEMMA WholeGrows ==
  ASSUME TypeInv, base \in [Symbols -> Nat], NEW e \in Event, Tracks(e), ~Repeated(e),
         tape' = tape, late \subseteq late',
         e.id # 0 => e.id \in 1..Len(tape[e.sym]) /\ tape[e.sym][e.id] = e.at,
         NEW k \in Keys, NEW T, NEW U, T \subseteq U, Whole(k, T),
         k = KeyOf(e) /\ e.id # 0 => e.id \in U \/ <<e.sym, e.id>> \in late' \/ AfterGap(e)
  PROVE  Whole(k, U)' \/ (AfterGap(e) /\ Covers(GapBefore(e), k))
<1> DEFINE s == e.sym
<1>1. /\ s \in Symbols /\ e.id \in Nat /\ last \in [Symbols -> Nat] /\ last[s] \in Nat
      /\ base[s] \in Nat /\ e.at \in Int
      /\ k = <<k[1], k[2]>> /\ k[1] \in Symbols
  BY KeyIs DEF Event, TypeInv, TypeOK
<1> HIDE DEF s
<1>2. CASE ~Tracked(e) \/ k[1] # s
  <2>1. base'[k[1]] = base[k[1]] /\ last'[k[1]] = last[k[1]]
    BY <1>1, <1>2 DEF Tracks, s
  <2> QED
    BY <2>1, WholeKept
<1>3. CASE Tracked(e) /\ k[1] = s
  <2>1. /\ e.id # 0 /\ last'[s] = e.id
        /\ base'[s] = IF last[s] = 0 THEN e.id ELSE base[s]
    BY <1>1, <1>3 DEF Tracks, Tracked, s
  <2> SUFFICES ASSUME ~(AfterGap(e) /\ Covers(GapBefore(e), k)), base'[s] # 0,
                      NEW i \in base'[s]..e.id, Bucket(tape[s][i]) = k[2]
               PROVE  i \in U \/ <<s, i>> \in late'
    BY <1>3, <2>1 DEF Whole
  <2>2. /\ e.id \in 1..Len(tape[s]) /\ tape[s][e.id] = e.at /\ Len(tape[s]) \in Nat
        /\ last[s] # 0 => last[s] < e.id
    <3>1. tape[s] \in Seq(0..MaxClock)
      BY <1>1, MadeIs
    <3> QED
      BY <1>1, <1>3, <2>1, <3>1 DEF Repeated, s
  <2>3. i \in Int /\ i <= e.id
    BY <1>1, <2>1, <2>2
  <2>4. CASE i = e.id
    <3>1. k = KeyOf(e)
      BY <1>1, <1>3, <2>2, <2>4 DEF KeyOf, s
    <3>2. ~AfterGap(e)
      <4>1. SUFFICES ASSUME AfterGap(e) PROVE Covers(GapBefore(e), k)
        OBVIOUS
      <4>2. last[s] # 0 /\ last[s] \in 1..Len(tape[s]) /\ tape[s][last[s]] <= tape[s][e.id]
            /\ tape[s][last[s]] \in Int
        <5>1. last[s] # 0
          BY <4>1 DEF AfterGap, s
        <5>2. last[s] \in 1..Len(tape[s]) /\ last[s] <= e.id
          BY <1>1, <2>2, <5>1
        <5> QED
          BY <1>1, <2>2, <5>1, <5>2, TapeOrder
      <4>3. Bucket(tape[s][last[s]]) <= Bucket(e.at) /\ Bucket(e.at) \in Int
            /\ Bucket(tape[s][last[s]]) \in Int
        BY <1>1, <2>2, <4>2, BucketMono
      <4> QED
        BY <1>1, <1>3, <3>1, <4>3 DEF Covers, GapBefore, KeyOf, s
    <3> QED
      BY <2>1, <2>4, <3>1, <3>2 DEF s
  <2>5. CASE i < e.id
    <3>1. last[s] # 0 /\ base'[s] = base[s]
      BY <1>1, <2>1, <2>3, <2>5
    <3>2. CASE i <= last[s]
      <4>1. i \in base[s]..last[s]
        BY <1>1, <2>3, <3>1, <3>2
      <4> QED
        BY <1>3, <3>1, <4>1 DEF Whole
    <3>3. CASE last[s] < i
      <4>1. AfterGap(e)
        BY <1>1, <1>3, <2>3, <2>5, <3>1, <3>3 DEF AfterGap, s
      <4>2. /\ last[s] \in 1..Len(tape[s]) /\ i \in 1..Len(tape[s]) /\ last[s] <= i
        BY <1>1, <2>2, <2>3, <2>5, <3>1, <3>3
      <4>3. /\ tape[s][last[s]] <= tape[s][i] /\ tape[s][i] <= tape[s][e.id]
            /\ tape[s][last[s]] \in Int /\ tape[s][i] \in Int
        BY <1>1, <2>2, <2>5, <4>2, TapeOrder
      <4>4. /\ Bucket(tape[s][last[s]]) <= Bucket(tape[s][i])
            /\ Bucket(tape[s][i]) <= Bucket(e.at)
            /\ Bucket(tape[s][last[s]]) \in Int /\ Bucket(tape[s][i]) \in Int
            /\ Bucket(e.at) \in Int
        BY <1>1, <2>2, <4>3, BucketMono
      <4>5. Covers(GapBefore(e), k)
        BY <1>3, <4>4 DEF Covers, GapBefore, s
      <4> QED
        BY <4>1, <4>5
    <3> QED
      BY <1>1, <2>3, <3>2, <3>3
  <2> QED
    BY <1>1, <2>3, <2>4, <2>5
<1> QED
  BY <1>2, <1>3

(* What is ahead of a mark is not behind the durable one.                      *)
LEMMA NotBehind ==
  ASSUME TypeInv, MarkInv, NEW k \in Keys, Ahead(k)
  PROVE  ~(End(k[2]) <= maxSeen - DurDelay)
<1>1. SUFFICES ASSUME End(k[2]) <= maxSeen - DurDelay PROVE FALSE
  OBVIOUS
<1>2. /\ k[1] \in expected /\ k[1] \in Symbols /\ lastMat[k[1]] # -1 /\ lastMat[k[1]] < k[2]
      /\ lastMat[k[1]] \in Int /\ k[2] \in Int
  BY MarksAre, KeyIs DEF Ahead
<1>3. End(k[2]) <= maxSeen - RtDelay /\ maxSeen - RtDelay \in Int
  BY <1>1, MarksAre, KeyIs
<1>4. k[2] <= Through(maxSeen - RtDelay) /\ Through(maxSeen - RtDelay) \in Int
  BY <1>2, <1>3, EndThrough
<1>5. Through(maxSeen - RtDelay) <= lastMat[k[1]]
  BY <1>2 DEF MarkInv
<1> QED
  BY <1>2, <1>4, <1>5

(* One event, wherever it is put: given that what is whole of a bucket still   *)
(* to be closed is so with the event added, or the event is late.              *)
LEMMA SeesWhole ==
  ASSUME TypeInv, MarkInv, NEW e \in Event, NEW q \in Seq(Command), Len(q) <= QueueRoom,
         NEW inc \in SUBSET Keys, Observes(e, q, inc),
         \A k \in Keys : acc[k].open \/ acc[k].trades = {},
         \A k \in Keys, T \in SUBSET Nat :
           /\ Live(k) /\ k \notin inc /\ acc[k].trades \subseteq T
           /\ k = KeyOf(e) /\ e.id # 0 => e.id \in T \/ <<e.sym, e.id>> \in late'
           => Whole(k, T)'
  PROVE  /\ \A k \in Keys : acc'[k].open \/ acc'[k].trades = {}
         /\ \A k \in Keys : Live(k)' /\ k \notin incomplete' => Whole(k, acc[k].trades)'
         /\ \A st \in step'.states : Told(st)'
         /\ \A c : Has(q, c) => Has(Line', c)
         /\ \A c : Has(Line', c) => Has(q, c) \/ \A st \in c.states : Told(st)'
<1>1. \/ Passes(e, q, inc)
      \/ \E a \in [Keys -> Kept], due \in SUBSET Keys : Enters(e, q, inc, a, due)
  BY ObservesParts
<1>2. q \o <<>> = q /\ acc \in [Keys -> Kept]
  BY ConcatEmptySeq DEF TypeInv, TypeOK, Kept
<1>3. CASE Passes(e, q, inc)
  <2>1. /\ acc' = acc /\ maxSeen' = maxSeen /\ incomplete' = inc
        /\ queue' = q /\ step' = Idle
        /\ e.id # 0 => <<e.sym, e.id>> \in late'
    BY <1>3 DEF Passes
  <2>2. Line' = q /\ step'.states = {}
    BY <1>2, <2>1 DEF Line, Idle
  <2>3. ASSUME NEW k \in Keys, Live(k)', k \notin incomplete' PROVE Whole(k, acc[k].trades)'
    <3>1. PICK T \in SUBSET Nat : T = acc[k].trades
      BY <1>2 DEF Kept
    <3>2. Live(k) /\ k \notin inc
      BY <2>1, <2>3 DEF Live
    <3>3. Whole(k, T)'
      BY <2>1, <3>1, <3>2
    <3> QED
      BY <2>1, <3>1, <3>3 DEF Whole
  <2> QED
    BY <2>1, <2>2, <2>3
<1>4. ASSUME NEW a \in [Keys -> Kept], NEW due \in SUBSET Keys, Enters(e, q, inc, a, due)
      PROVE  /\ \A k \in Keys : acc'[k].open \/ acc'[k].trades = {}
             /\ \A k \in Keys : Live(k)' /\ k \notin incomplete' => Whole(k, acc[k].trades)'
             /\ \A st \in step'.states : Told(st)'
             /\ \A c : Has(q, c) => Has(Line', c)
             /\ \A c : Has(Line', c) => Has(q, c) \/ \A st \in c.states : Told(st)'
  <2> DEFINE mark == maxSeen' - DurDelay
  <2>1. /\ Opens(e, a, due)
        /\ \/ /\ acc' = a /\ queue' = q /\ incomplete' = inc
              /\ step' = AtSink(Snapshots(a, Ripe(due), inc))
           \/ ClosesDurably(q, a, Lasting(due), mark, inc)
    BY <1>4 DEF Enters
  <2>2. /\ maxSeen \in Int /\ maxSeen' \in Int /\ maxSeen <= maxSeen' /\ mark \in Int
        /\ maxSeen - DurDelay \in Int /\ maxSeen - DurDelay <= mark
    <3>1. e.at \in 0..MaxClock /\ maxSeen' = Most(maxSeen, e.at)
      BY <1>4 DEF Event, Enters
    <3>2. e.at \in Int /\ maxSeen \in Int /\ DurDelay \in Int
      BY <3>1, MarksAre, RuntimeAssumption
    <3> QED
      BY <3>1, <3>2 DEF Most
  <2> HIDE DEF mark
  <2>3. \A k \in Keys : a[k].open \/ a[k].trades = {}
    BY <2>1 DEF Opens
  <2>4. ASSUME NEW k \in Keys, a[k].open \/ ~(End(k[2]) <= mark) PROVE Live(k)
    <3>1. CASE acc[k].open
      BY <3>1 DEF Live
    <3>2. CASE ~(End(k[2]) <= mark)
      <4>1. ~(End(k[2]) <= maxSeen - DurDelay)
        BY <2>2, <3>2, KeyIs
      <4> QED
        BY <4>1 DEF Live
    <3>3. CASE a[k].open /\ ~acc[k].open
      <4>1. k \notin rtDue /\ k \in due
        BY <2>1, <3>3 DEF Opens, TypeInv, TypeOK, Open
      <4>2. k = KeyOf(e) \/ Ahead(k)
        BY <2>1, <4>1 DEF Opens
      <4>3. CASE k = KeyOf(e)
        <5>1. End(k[2]) > mark
          BY <1>4, <4>3 DEF Enters, KeyOf, mark
        <5>2. ~(End(k[2]) <= maxSeen - DurDelay)
          BY <2>2, <5>1, KeyIs
        <5> QED
          BY <5>2 DEF Live
      <4>4. CASE Ahead(k)
        <5>1. ~(End(k[2]) <= maxSeen - DurDelay)
          BY <4>4, NotBehind
        <5> QED
          BY <5>1 DEF Live
      <4> QED
        BY <4>2, <4>3, <4>4
    <3> QED
      BY <2>4, <3>1, <3>2, <3>3
  <2>5. ASSUME NEW k \in Keys, a[k].open \/ ~(End(k[2]) <= mark), k \notin inc
        PROVE  Whole(k, a[k].trades)'
    <3>1. Live(k)
      BY <2>4, <2>5
    <3>2. acc[k].trades \subseteq a[k].trades
      BY <2>1 DEF Opens
    <3>3. k = KeyOf(e) /\ e.id # 0 => e.id \in a[k].trades
      BY <2>1 DEF Opens
    <3>4. a[k].trades \in SUBSET Nat
      BY DEF Kept
    <3> QED
      BY <2>5, <3>1, <3>2, <3>3, <3>4
  <2>6. CASE /\ acc' = a /\ queue' = q /\ incomplete' = inc
             /\ step' = AtSink(Snapshots(a, Ripe(due), inc))
    <3>1. Line' = q /\ step'.states = Snapshots(a, Ripe(due), inc)
      BY <1>2, <2>6 DEF Line, AtSink
    <3>2. ASSUME NEW k \in Keys, Live(k)', k \notin incomplete' PROVE Whole(k, acc[k].trades)'
      <4>1. a[k].open \/ ~(End(k[2]) <= mark)
        BY <2>6, <3>2 DEF Live, mark
      <4>2. Whole(k, a[k].trades)'
        BY <2>5, <2>6, <3>2, <4>1
      <4> QED
        BY <2>6, <4>2 DEF Whole
    <3>3. ASSUME NEW st \in step'.states, st.complete PROVE Whole(st.key, st.trades)'
      <4>1. st.key \in Ripe(due) /\ st.trades = a[st.key].trades /\ st.key \notin inc
        BY <3>1, <3>3, SnapshotIs
      <4>2. st.key \in Keys /\ a[st.key].open
        BY <2>1, <4>1 DEF Ripe, Opens
      <4>3. Whole(st.key, a[st.key].trades)'
        BY <2>5, <4>1, <4>2
      <4> QED
        BY <4>1, <4>3
    <3> QED
      BY <2>3, <2>6, <3>1, <3>2, <3>3 DEF Told
  <2>7. CASE ClosesDurably(q, a, Lasting(due), mark, inc)
    <3>1. /\ \A k \in Keys : acc'[k].open \/ acc'[k].trades = {}
          /\ \A k \in Keys : (acc'[k].open \/ ~(End(k[2]) <= mark)) /\ k \notin incomplete' =>
               Whole(k, acc[k].trades)'
          /\ step'.states = {}
          /\ \A c : Has(q, c) => Has(Line', c)
          /\ \A c : Has(Line', c) => Has(q, c) \/ \A st \in c.states : Told(st)'
      <4>1. Lasting(due) \in SUBSET Keys /\ \A k \in Lasting(due) : a[k].open
        BY <2>1, LastingAre
      <4> QED
        BY <2>2, <2>3, <2>5, <2>7, <4>1, ClosesWhole
    <3>2. \A k \in Keys : Live(k)' <=> acc'[k].open \/ ~(End(k[2]) <= mark)
      BY DEF Live, mark
    <3> QED
      BY <3>1, <3>2
  <2> QED
    BY <2>1, <2>6, <2>7
<1> QED
  BY <1>1, <1>3, <1>4

LEMMA AppendHas ==
  ASSUME NEW q \in Seq(Command), NEW c \in Command, NEW d, Has(Append(q, c), d)
  PROVE  Has(q, d) \/ d = c
<1> DEFINE one == <<c>>
<1>1. one \in Seq(Command) /\ Append(q, c) = q \o one
  OBVIOUS
<1>2. DOMAIN one = {1} /\ one[1] = c
  OBVIOUS
<1> HIDE DEF one
<1>3. Has(q, d) \/ Has(one, d)
  BY <1>1, HasBoth
<1>4. Has(one, d) => d = c
  BY <1>2 DEF Has
<1> QED
  BY <1>3, <1>4

LEMMA MovingAre ==
  ASSUME TypeInv, NEW c, Moving(c)
  PROVE  /\ c.states \subseteq State
         /\ \A st \in c.states : st.key \in Keys /\ Placed(st.key)
<1>1. queue \in Seq(Command) /\ step.todo \in Seq(Command)
  BY MarksAre
<1>2. Line \in Seq(Command)
  BY <1>1, ConcatIs DEF Line
<1>3. CASE Has(Line, c)
  <2>1. PICK n \in DOMAIN Line : Line[n] = c
    BY <1>3 DEF Has
  <2>2. c \in Command
    <3>1. n \in 1..Len(Line)
      BY <1>2
    <3> QED
      BY <1>2, <2>1, <3>1, ElementIs
  <2>3. c.states \subseteq State
    BY <2>2, CommandsAre
  <2>4. \A st \in c.states : Carries(Line, st.key)
    BY <2>1 DEF Carries
  <2> QED
    BY <2>3, <2>4 DEF Placed, State
<1>4. CASE c = job
  <2>1. job.states \subseteq State
    BY CommandsAre DEF TypeInv, QueueInv, NoJob
  <2>2. \A st \in c.states : InJob(st.key)
    BY <1>4 DEF InJob
  <2> QED
    BY <1>4, <2>1, <2>2 DEF Placed, State
<1> QED
  BY <1>3, <1>4 DEF Moving

(* An event that comes in.  What has left the accumulators already is shut, so *)
(* that a trade of its bucket is late.                                         *)
LEMMA WholeArrives ==
  ASSUME TypeInv, MarkInv, CopyInv, WholeInv, NEW e \in Event, Arrives(e), UNCHANGED exchange,
         e.id # 0 => e.id \in 1..Len(tape[e.sym]) /\ tape[e.sym][e.id] = e.at,
         \A k \in Keys : Past(k) => End(k[2]) <= e.at
  PROVE  WholeInv'
<1> SUFFICES ASSUME ~dead' PROVE WholeInv'
  BY DEF WholeInv
<1> DEFINE g == GapBefore(e)
           c == Gap(g)
           marked == incomplete \cup Marked(g.sym, g.lo, g.hi)
<1>1. /\ step = Idle /\ UNCHANGED <<tape, job, dead, rows, gaps>> /\ ~dead
      /\ queue \in Seq(Command) /\ Len(queue) <= QueueRoom /\ incomplete \in SUBSET Keys
  BY MarksAre DEF Arrives, exchange, database, TypeInv, TypeOK
<1>2. Line = queue
  <2>1. step.todo = <<>> /\ queue \o <<>> = queue
    BY <1>1, ConcatEmptySeq DEF Idle
  <2> QED
    BY <2>1 DEF Line
<1>3. /\ base \in [Symbols -> Nat] /\ \A k \in Keys : acc[k].open \/ acc[k].trades = {}
      /\ \A k \in Keys : Live(k) /\ k \notin incomplete => Whole(k, acc[k].trades)
      /\ \A d : Moving(d) => \A st \in d.states : Owed(st)
      /\ \A r \in rows : Owed(r)
  BY <1>1 DEF WholeInv
<1>4. CASE UNCHANGED <<last, base, Unseen, incomplete, step, queue>>
  <2>1. /\ UNCHANGED <<last, base, acc, maxSeen, incomplete, late, unstored, step, queue>>
        /\ Line' = Line
    BY <1>4 DEF Unseen, Line
  <2>2. \A k \in Keys, T \in SUBSET Nat : Whole(k, T) => Whole(k, T)'
    BY <1>1, <2>1, WholeKept
  <2>3. \A d : Moving(d)' => Moving(d)
    BY <1>1, <2>1 DEF Moving
  <2>4. \A k \in Keys : Amends(k) => Amends(k)'
    BY <1>1, <2>1 DEF Amends, Moving
  <2>5. \A d : Moving(d) => d.states \subseteq State
    BY MovingAre
  <2> QED
    BY <1>1, <2>1, <2>2, <2>3, <2>4, <2>5, WholeStays
<1>5. CASE ~Repeated(e) /\ Tracks(e)
  <2>1. base' \in [Symbols -> Nat]
    BY <1>3, <1>5 DEF Tracks, Event
  <2>2. AfterGap(e) => /\ c \in Command /\ c.states = {} /\ c.kind = "gap" /\ c.gap = g
                       /\ marked \in SUBSET Keys
    BY <1>1, GapIs DEF Gap
  <2>3. \A k \in Keys : Live(k) /\ Covers(g, k) => k \in marked
    <3> SUFFICES ASSUME NEW k \in Keys, Live(k), Covers(g, k)
                 PROVE  k \in Marked(g.sym, g.lo, g.hi)
      OBVIOUS
    <3>1. k = <<k[1], k[2]>> /\ k \in {g.sym} \X (g.lo..g.hi)
      BY KeyIs DEF Covers
    <3>2. acc[k].open \/ End(k[2]) > maxSeen - DurDelay
      BY KeyIs, MarksAre DEF Live
    <3> QED
      BY <3>1, <3>2 DEF Marked
  <2> HIDE DEF marked
  <2>4. ASSUME \A d : Has(queue, d) => Has(Line', d),
               AfterGap(e) => Has(Line', c), unstored' = unstored, late \subseteq late',
               \A k \in Keys : k = KeyOf(e) /\ e.id # 0 /\ Placed(k) =>
                 <<e.sym, e.id>> \in late' \/ AfterGap(e),
               NEW st \in State, Placed(st.key), Owed(st)
        PROVE  Owed(st)'
    <3> SUFFICES ASSUME st.complete PROVE Whole(st.key, st.trades)' \/ Amends(st.key)'
      BY DEF Owed
    <3>1. st.key \in Keys
      BY DEF State
    <3>2. CASE Amends(st.key)
      <4>1. \A d : Moving(d) => Moving(d)'
        BY <1>1, <1>2, <2>4 DEF Moving
      <4> QED
        BY <1>1, <2>4, <3>2, <4>1 DEF Amends
    <3>3. CASE Whole(st.key, st.trades)
      <4>1. Whole(st.key, st.trades)' \/ (AfterGap(e) /\ Covers(g, st.key))
        BY <1>1, <1>3, <1>5, <2>4, <3>1, <3>3, WholeGrows
      <4>2. AfterGap(e) /\ Covers(g, st.key) => Amends(st.key)'
        BY <2>2, <2>4 DEF Amends, Moving
      <4> QED
        BY <4>1, <4>2
    <3> QED
      BY <2>4, <3>2, <3>3 DEF Owed
  <2>5. /\ \A r \in rows : r \in State /\ Placed(r.key) /\ Owed(r)
        /\ \A d : Moving(d) => \A st \in d.states : st \in State /\ Placed(st.key) /\ Owed(st)
    BY <1>3, MovingAre DEF TypeInv, TypeOK, Placed, Stored
  <2>6. ASSUME NEW q \in Seq(Command), Len(q) <= QueueRoom, NEW inc \in SUBSET Keys,
               Observes(e, q, inc), \A d : Has(queue, d) => Has(q, d),
               \A d : Has(q, d) => Has(queue, d) \/ d.states = {},
               AfterGap(e) => Has(q, c), incomplete \subseteq inc,
               \A k \in Keys : AfterGap(e) /\ Live(k) /\ Covers(g, k) => k \in inc
        PROVE  WholeInv'
    <3>1. /\ unstored' = unstored
          /\ \/ Passes(e, q, inc)
             \/ \E a \in [Keys -> Kept], due \in SUBSET Keys : Enters(e, q, inc, a, due)
      BY <2>6, ObservesParts
    <3>2. late \subseteq late'
      BY <3>1 DEF Passes, Enters
    <3>3. ASSUME NEW k \in Keys, NEW T \in SUBSET Nat, Live(k), k \notin inc,
                 acc[k].trades \subseteq T,
                 k = KeyOf(e) /\ e.id # 0 => e.id \in T \/ <<e.sym, e.id>> \in late'
          PROVE  Whole(k, T)'
      <4>1. Whole(k, acc[k].trades)
        BY <1>3, <2>6, <3>3
      <4>2. Whole(k, T)' \/ (AfterGap(e) /\ Covers(g, k))
        BY <1>1, <1>3, <1>5, <3>2, <3>3, <4>1, WholeGrows
      <4> QED
        BY <2>6, <3>3, <4>2
    <3>4. /\ \A k \in Keys : acc'[k].open \/ acc'[k].trades = {}
          /\ \A k \in Keys : Live(k)' /\ k \notin incomplete' => Whole(k, acc[k].trades)'
          /\ \A st \in step'.states : Told(st)'
          /\ \A d : Has(q, d) => Has(Line', d)
          /\ \A d : Has(Line', d) => Has(q, d) \/ \A st \in d.states : Told(st)'
      BY <1>3, <2>6, <3>3, SeesWhole
    <3>5. ASSUME NEW k \in Keys, k = KeyOf(e), e.id # 0, Placed(k)
          PROVE  <<e.sym, e.id>> \in late'
      <4>1. k[2] = Bucket(e.at) /\ e.at \in Int /\ k[2] \in Int /\ End(k[2]) \in Int
        BY <3>5, KeyIs DEF KeyOf, Event
      <4>2. e.at < End(k[2])
        BY <4>1, BucketEnds
      <4>3. End(k[2]) <= maxSeen - DurDelay
        BY <3>5, <4>1, <4>2 DEF CopyInv, Shut
      <4>4. ASSUME NEW a \in [Keys -> Kept], NEW due \in SUBSET Keys, Enters(e, q, inc, a, due)
            PROVE  FALSE
        <5>1. End(k[2]) > maxSeen' - DurDelay /\ maxSeen' = Most(maxSeen, e.at)
          BY <4>1, <4>4 DEF Enters
        <5>2. maxSeen \in Int /\ DurDelay \in Int
          BY MarksAre, RuntimeAssumption
        <5> QED
          BY <4>1, <4>3, <5>1, <5>2 DEF Most
      <4> QED
        BY <3>1, <3>5, <4>4 DEF Passes
    <3>6. \A st \in State : Placed(st.key) /\ Owed(st) => Owed(st)'
      BY <2>4, <2>6, <3>1, <3>2, <3>4, <3>5
    <3>7. \A d : Moving(d)' => \A st \in d.states : Owed(st)'
      <4> SUFFICES ASSUME NEW d, Moving(d)', NEW st \in d.states PROVE Owed(st)'
        OBVIOUS
      <4>1. CASE Moving(d)
        BY <2>5, <3>6, <4>1
      <4>2. CASE Told(st)'
        BY <4>2 DEF Told, Owed
      <4>3. Moving(d) \/ Told(st)'
        BY <1>1, <1>2, <2>6, <3>4 DEF Moving
      <4> QED
        BY <4>1, <4>2, <4>3
    <3>8. \A r \in rows' : Owed(r)'
      BY <1>1, <2>5, <3>6
    <3> QED
      BY <2>1, <3>4, <3>7, <3>8 DEF WholeInv
  <2>7. CASE ~AfterGap(e) /\ Observes(e, queue, incomplete)
    BY <1>1, <2>6, <2>7
  <2>8. CASE AfterGap(e) /\ Len(queue) < QueueRoom /\ Observes(e, Append(queue, c), marked)
    <3>1. /\ Append(queue, c) \in Seq(Command) /\ Len(Append(queue, c)) <= QueueRoom
          /\ \A d : Has(queue, d) => Has(Append(queue, c), d)
          /\ Has(Append(queue, c), c)
      BY <1>1, <2>2, <2>8, AppendIs
    <3>2. \A d : Has(Append(queue, c), d) => Has(queue, d) \/ d = c
      BY <1>1, <2>2, <2>8, AppendHas
    <3>3. incomplete \subseteq marked
      BY DEF marked
    <3> QED
      BY <2>2, <2>3, <2>6, <2>8, <3>1, <3>2, <3>3
  <2>9. CASE /\ AfterGap(e) /\ incomplete' = marked /\ step' = AtGap(e, g)
             /\ UNCHANGED <<Unseen, queue>>
    <3>1. /\ UNCHANGED <<acc, maxSeen, late, unstored>>
          /\ step'.todo = <<c>> /\ step'.states = {}
      BY <2>9 DEF Unseen, AtGap, c
    <3>2. Line' = queue \o <<c>> /\ <<c>> \in Seq(Command) /\ Append(queue, c) = queue \o <<c>>
      BY <1>1, <2>2, <2>9, <3>1 DEF Line
    <3>3. /\ \A d : Has(Line', d) <=> Has(queue, d) \/ Has(<<c>>, d)
          /\ \A d : Has(<<c>>, d) <=> d = c
      <4>1. DOMAIN <<c>> = {1} /\ <<c>>[1] = c
        OBVIOUS
      <4> QED
        BY <1>1, <3>2, <4>1, HasBoth DEF Has
    <3>4. \A st \in State : Placed(st.key) /\ Owed(st) => Owed(st)'
      BY <2>4, <2>9, <3>1, <3>3
    <3>5. ASSUME NEW k \in Keys, Live(k)', k \notin incomplete' PROVE Whole(k, acc[k].trades)'
      <4>1. Live(k) /\ k \notin incomplete /\ k \notin marked
        BY <2>9, <3>1, <3>5 DEF Live, marked
      <4>2. PICK T : T = acc[k].trades
        OBVIOUS
      <4>3. Whole(k, T)
        BY <1>3, <4>1, <4>2
      <4>4. Whole(k, T)' \/ (AfterGap(e) /\ Covers(g, k))
        BY <1>1, <1>3, <1>5, <2>9, <3>1, <4>3, WholeGrows
      <4>5. Whole(k, T)'
        BY <2>3, <4>1, <4>4
      <4> QED
        BY <3>1, <4>2, <4>5 DEF Whole
    <3>6. \A d : Moving(d)' => \A st \in d.states : Owed(st)'
      <4> SUFFICES ASSUME NEW d, Moving(d)', NEW st \in d.states PROVE Owed(st)'
        OBVIOUS
      <4>1. Moving(d) \/ d = c
        BY <1>1, <1>2, <3>3 DEF Moving
      <4>2. Moving(d)
        BY <2>2, <2>9, <4>1
      <4> QED
        BY <2>5, <3>4, <4>2
    <3>7. \A r \in rows' : Owed(r)'
      BY <1>1, <2>5, <3>4
    <3>8. \A k \in Keys : acc'[k].open \/ acc'[k].trades = {}
      BY <1>3, <3>1
    <3> QED
      BY <2>1, <3>1, <3>5, <3>6, <3>7, <3>8 DEF WholeInv
  <2> QED
    BY <1>1, <1>5, <2>7, <2>8, <2>9 DEF Arrives, Unseen, marked, Repeated, AfterGap
<1> QED
  BY <1>1, <1>4, <1>5 DEF Arrives

LEMMA WholeGapGoesIn ==
  ASSUME TypeInv, MarkInv, WholeInv, GapGoesIn PROVE WholeInv'
<1> SUFFICES ASSUME ~dead' PROVE WholeInv'
  BY DEF WholeInv
<1> DEFINE e == step.event
           q == Append(queue, step.todo[1])
<1>1. /\ step.at = "gap" /\ Len(queue) < QueueRoom /\ ~dead
      /\ UNCHANGED <<tape, last, base, job, dead, rows, gaps>>
      /\ Observes(e, q, incomplete)
  BY DEF GapGoesIn, exchange, database
<1>2. /\ e \in Event /\ step.todo \in Seq(Command) /\ Len(step.todo) = 1
      /\ queue \in Seq(Command) /\ incomplete \in SUBSET Keys
  BY <1>1, MarksAre DEF TypeInv, TypeOK, StepInv
<1>3. step.todo = <<step.todo[1]>> /\ step.todo[1] \in Command
  <2>1. step.todo[1] \in Command
    BY <1>2, ElementIs
  <2> QED
    BY <1>2, <2>1
<1>4. q \in Seq(Command) /\ Len(q) <= QueueRoom
  BY <1>1, <1>2, <1>3, AppendIs
<1>5. q = Line
  <2>1. Append(queue, step.todo[1]) = queue \o <<step.todo[1]>>
    BY <1>2, <1>3
  <2> QED
    BY <1>3, <2>1 DEF Line
<1> HIDE DEF q, e
<1>6. /\ base \in [Symbols -> Nat] /\ \A k \in Keys : acc[k].open \/ acc[k].trades = {}
      /\ \A k \in Keys : Live(k) /\ k \notin incomplete => Whole(k, acc[k].trades)
      /\ \A d : Moving(d) => \A st \in d.states : Owed(st)
      /\ \A r \in rows : Owed(r)
  BY <1>1 DEF WholeInv
<1>7. unstored' = unstored /\ late \subseteq late'
  <2>1. /\ unstored' = unstored
        /\ \/ Passes(e, q, incomplete)
           \/ \E a \in [Keys -> Kept], due \in SUBSET Keys : Enters(e, q, incomplete, a, due)
    BY <1>1, <1>2, ObservesParts
  <2> QED
    BY <2>1 DEF Passes, Enters
<1>8. \A k \in Keys : \A T, U : T \subseteq U /\ Whole(k, T) => Whole(k, U)'
  BY <1>1, <1>7, WholeKept
<1>9. ASSUME NEW k \in Keys, NEW T \in SUBSET Nat, Live(k), k \notin incomplete,
             acc[k].trades \subseteq T
      PROVE  Whole(k, T)'
  BY <1>6, <1>8, <1>9
<1>10. /\ \A k \in Keys : acc'[k].open \/ acc'[k].trades = {}
       /\ \A k \in Keys : Live(k)' /\ k \notin incomplete' => Whole(k, acc[k].trades)'
       /\ \A st \in step'.states : Told(st)'
       /\ \A d : Has(q, d) => Has(Line', d)
       /\ \A d : Has(Line', d) => Has(q, d) \/ \A st \in d.states : Told(st)'
  BY <1>1, <1>2, <1>4, <1>6, <1>9, SeesWhole
<1>11. ASSUME NEW st \in State, Owed(st) PROVE Owed(st)'
  <2> SUFFICES ASSUME st.complete PROVE Whole(st.key, st.trades)' \/ Amends(st.key)'
    BY DEF Owed
  <2>1. CASE Amends(st.key)
    <3>1. \A d : Moving(d) => Moving(d)'
      BY <1>1, <1>5, <1>10 DEF Moving
    <3> QED
      BY <1>1, <1>7, <2>1, <3>1 DEF Amends
  <2>2. CASE Whole(st.key, st.trades)
    BY <1>8, <2>2 DEF State
  <2> QED
    BY <1>11, <2>1, <2>2 DEF Owed
<1>12. \A d : Moving(d)' => \A st \in d.states : Owed(st)'
  <2> SUFFICES ASSUME NEW d, Moving(d)', NEW st \in d.states PROVE Owed(st)'
    OBVIOUS
  <2>1. CASE Moving(d)
    BY <1>6, <1>11, <2>1, MovingAre
  <2>2. CASE Told(st)'
    BY <2>2 DEF Told, Owed
  <2>3. Moving(d) \/ Told(st)'
    BY <1>1, <1>5, <1>10 DEF Moving
  <2> QED
    BY <2>1, <2>2, <2>3
<1>13. \A r \in rows' : Owed(r)'
  BY <1>1, <1>6, <1>11 DEF TypeInv, TypeOK
<1> QED
  BY <1>1, <1>6, <1>10, <1>12, <1>13 DEF WholeInv

LEMMA WholeHubTakes ==
  ASSUME TypeInv, WholeInv, HubTakes PROVE WholeInv'
<1> SUFFICES ASSUME ~dead' PROVE WholeInv'
  BY DEF WholeInv
<1>1. /\ step.at = "sink" /\ ClosesDurably(queue, acc, durDue, maxSeen - DurDelay, incomplete)
      /\ ~dead
      /\ UNCHANGED <<tape, last, base, late, maxSeen, job, dead, rows, gaps, unstored>>
  BY DEF HubTakes, exchange, database
<1>2. /\ queue \in Seq(Command) /\ Len(queue) <= QueueRoom /\ acc \in [Keys -> Kept]
      /\ maxSeen - DurDelay \in Int /\ incomplete \in SUBSET Keys /\ step.todo = <<>>
      /\ durDue \in SUBSET Keys /\ \A k \in durDue : acc[k].open
  BY <1>1, MarksAre DEF TypeInv, TypeOK, StepInv, Kept, Open
<1>3. Line = queue
  BY <1>2, ConcatEmptySeq DEF Line
<1>4. /\ base \in [Symbols -> Nat] /\ \A k \in Keys : acc[k].open \/ acc[k].trades = {}
      /\ \A k \in Keys : Live(k) /\ k \notin incomplete => Whole(k, acc[k].trades)
      /\ \A d : Moving(d) => \A st \in d.states : Owed(st)
      /\ \A r \in rows : Owed(r)
  BY <1>1 DEF WholeInv
<1>5. \A k \in Keys : \A T : Whole(k, T) => Whole(k, T)'
  BY <1>1, WholeKept
<1>6. PICK a \in [Keys -> Kept] : a = acc
  BY <1>2
<1>7. ASSUME NEW k \in Keys, a[k].open \/ ~(End(k[2]) <= maxSeen - DurDelay), k \notin incomplete
      PROVE  Whole(k, a[k].trades)'
  <2>1. Whole(k, acc[k].trades)
    BY <1>4, <1>6, <1>7 DEF Live
  <2>2. Whole(k, a[k].trades)
    BY <1>6, <2>1
  <2> QED
    BY <1>5, <2>2
<1>8. /\ \A k \in Keys : acc'[k].open \/ acc'[k].trades = {}
      /\ \A k \in Keys : (acc'[k].open \/ ~(End(k[2]) <= maxSeen - DurDelay)) /\ k \notin incomplete' =>
           Whole(k, acc[k].trades)'
      /\ step'.states = {}
      /\ \A d : Has(queue, d) => Has(Line', d)
      /\ \A d : Has(Line', d) => Has(queue, d) \/ \A st \in d.states : Told(st)'
  <2>1. \A k \in Keys : a[k].open \/ a[k].trades = {}
    BY <1>4, <1>6
  <2>2. ClosesDurably(queue, a, durDue, maxSeen - DurDelay, incomplete)
        /\ \A k \in durDue : a[k].open
    BY <1>1, <1>2, <1>6
  <2> QED
    BY <1>2, <1>7, <2>1, <2>2, ClosesWhole
<1>9. ASSUME NEW st \in State, Owed(st) PROVE Owed(st)'
  <2>1. Amends(st.key) => Amends(st.key)'
    <3>1. \A d : Moving(d) => Moving(d)'
      BY <1>1, <1>3, <1>8 DEF Moving
    <3> QED
      BY <1>1, <3>1 DEF Amends
  <2>2. st.key \in Keys
    BY DEF State
  <2> QED
    BY <1>5, <1>9, <2>1, <2>2 DEF Owed
<1>10. \A d : Moving(d)' => \A st \in d.states : Owed(st)'
  <2> SUFFICES ASSUME NEW d, Moving(d)', NEW st \in d.states PROVE Owed(st)'
    OBVIOUS
  <2>1. CASE Moving(d)
    BY <1>4, <1>9, <2>1, MovingAre
  <2>2. CASE Told(st)'
    BY <2>2 DEF Told, Owed
  <2>3. Moving(d) \/ Told(st)'
    BY <1>1, <1>3, <1>8 DEF Moving
  <2> QED
    BY <2>1, <2>2, <2>3
<1>11. \A r \in rows' : Owed(r)'
  BY <1>1, <1>4, <1>9 DEF TypeInv, TypeOK
<1>12. \A k \in Keys : Live(k)' /\ k \notin incomplete' => Whole(k, acc[k].trades)'
  BY <1>1, <1>8 DEF Live
<1> QED
  BY <1>1, <1>4, <1>8, <1>10, <1>11, <1>12 DEF WholeInv

(* What was built leaves the accumulators.                                     *)
LEMMA WholeRowsAreBuilt ==
  ASSUME TypeInv, WholeInv, RowsAreBuilt PROVE WholeInv'
<1> SUFFICES ASSUME ~dead' PROVE WholeInv'
  BY DEF WholeInv
<1>1. /\ step.at = "build" /\ PutAll(queue, step.todo) /\ ~dead
      /\ acc' = [k \in Keys |-> IF k \in Closing THEN NoBucket ELSE acc[k]]
      /\ incomplete' = incomplete \ Closing
      /\ UNCHANGED <<tape, last, base, late, maxSeen, job, dead, rows, gaps, unstored>>
  BY DEF RowsAreBuilt, Stores, exchange, database, history
<1>2. /\ queue \in Seq(Command) /\ step.todo \in Seq(Command) /\ Len(queue) <= QueueRoom
      /\ \A k \in Closing : End(k[2]) <= maxSeen - DurDelay
  BY <1>1, MarksAre DEF TypeInv, StepInv, BuildInv
<1>3. Line' = Line
  BY <1>1, <1>2, PutAllLine DEF Line
<1>4. /\ base \in [Symbols -> Nat] /\ \A k \in Keys : acc[k].open \/ acc[k].trades = {}
      /\ \A k \in Keys : Live(k) /\ k \notin incomplete => Whole(k, acc[k].trades)
      /\ \A d : Moving(d) => \A st \in d.states : Owed(st)
      /\ \A r \in rows : Owed(r)
  BY <1>1 DEF WholeInv
<1>5. \A k \in Keys : \A T : Whole(k, T) => Whole(k, T)'
  BY <1>1, WholeKept
<1>6. NoBucket.trades = {} /\ ~NoBucket.open
  BY DEF NoBucket
<1>7. \A k \in Keys : acc'[k].open \/ acc'[k].trades = {}
  BY <1>1, <1>4, <1>6
<1>8. ASSUME NEW k \in Keys, Live(k)', k \notin incomplete' PROVE Whole(k, acc[k].trades)'
  <2>1. k \notin Closing
    BY <1>1, <1>2, <1>6, <1>8 DEF Live
  <2>2. acc'[k] = acc[k] /\ k \notin incomplete
    BY <1>1, <1>8, <2>1
  <2>3. Live(k)
    BY <1>1, <1>8, <2>2 DEF Live
  <2> QED
    BY <1>4, <1>5, <2>2, <2>3 DEF Whole
<1>9. \A d : Moving(d)' <=> Moving(d)
  BY <1>1, <1>3 DEF Moving
<1>10. \A k : Amends(k)' <=> Amends(k)
  BY <1>1, <1>9 DEF Amends
<1>11. ASSUME NEW st \in State, Owed(st) PROVE Owed(st)'
  BY <1>5, <1>10, <1>11 DEF Owed, State
<1>12. \A d : Moving(d)' => \A st \in d.states : Owed(st)'
  BY <1>4, <1>9, <1>11, MovingAre
<1>13. \A r \in rows' : Owed(r)'
  BY <1>1, <1>4, <1>11 DEF TypeInv, TypeOK
<1>14. step'.states = {}
  BY <1>1 DEF PutAll, Idle, AtRows
<1> QED
  BY <1>1, <1>4, <1>7, <1>8, <1>12, <1>13, <1>14 DEF WholeInv

(* A gap that a cut connection takes is lost: its buckets are unstored.        *)
LEMMA WholeCut ==
  ASSUME TypeInv, WholeInv, Cut PROVE WholeInv'
<1>1. /\ UNCHANGED <<tape, last, base, late, acc, maxSeen, incomplete, queue, job, dead, rows, gaps>>
      /\ step' = Idle
      /\ unstored' = unstored \cup UNION {Taken(step.todo[n]) : n \in DOMAIN step.todo}
  BY DEF Cut, Closing, exchange, memory, writer, database
<1>2. queue \in Seq(Command) /\ step.todo \in Seq(Command)
  BY MarksAre
<1>3. Line' = queue
  <2>1. step'.todo = <<>> /\ queue \o <<>> = queue
    BY <1>1, <1>2, ConcatEmptySeq DEF Idle
  <2> QED
    BY <1>1, <2>1 DEF Line
<1>4. \A d : Has(Line, d) <=> Has(queue, d) \/ Has(step.todo, d)
  BY <1>2, HasBoth DEF Line
<1>5. \A d : Moving(d)' => Moving(d)
  BY <1>1, <1>3, <1>4 DEF Moving
<1>6. \A k \in Keys, T \in SUBSET Nat : Whole(k, T) => Whole(k, T)'
  BY <1>1, WholeKept
<1>7. ASSUME NEW k \in Keys, Amends(k) PROVE Amends(k)'
  <2>1. CASE k \in unstored \/ \E x \in gaps : Covers(x, k)
    BY <1>1, <2>1 DEF Amends
  <2>2. ASSUME NEW c, Moving(c), c.kind = "gap", Covers(c.gap, k) PROVE Amends(k)'
    <3>1. CASE Moving(c)'
      BY <2>2, <3>1 DEF Amends
    <3>2. CASE ~Moving(c)'
      <4>1. Has(step.todo, c)
        BY <1>1, <1>3, <1>4, <2>2, <3>2 DEF Moving
      <4>2. PICK n \in DOMAIN step.todo : step.todo[n] = c
        BY <4>1 DEF Has
      <4>3. k \in Taken(c)
        <5>1. k \in {c.gap.sym} \X (c.gap.lo..c.gap.hi)
          BY <2>2, KeyIs DEF Covers
        <5> QED
          BY <2>2, <5>1 DEF Taken
      <4>4. k \in unstored'
        BY <1>1, <4>2, <4>3
      <4> QED
        BY <4>4 DEF Amends
    <3> QED
      BY <3>1, <3>2
  <2> QED
    BY <1>7, <2>1, <2>2 DEF Amends
<1>8. step'.states = {}
  BY <1>1 DEF Idle
<1>9. \A d : Moving(d) => d.states \subseteq State
  BY MovingAre
<1> QED
  BY <1>1, <1>5, <1>6, <1>7, <1>8, <1>9, WholeStays

(* Steps that move a command on, or tell the tracker to begin again.           *)
LEMMA WholeQuiet ==
  ASSUME TypeInv, WholeInv,
         UNCHANGED <<tape, late, acc, maxSeen, incomplete, dead, rows, gaps, unstored>>,
         base' \in [Symbols -> Nat] \/ base' = base,
         \A s \in Symbols : base'[s] = 0 \/ (base'[s] = base[s] /\ last'[s] = last[s]),
         step'.states \subseteq step.states,
         \A c : Moving(c)' => Moving(c) \/ c = NoJob,
         \A c : Moving(c) => Moving(c)' \/ c = NoJob
  PROVE  WholeInv'
<1>1. NoJob.states = {} /\ NoJob.kind # "gap"
  BY DEF NoJob
<1>2. \A k \in Keys, T \in SUBSET Nat : Whole(k, T) => Whole(k, T)'
  BY KeyIs, WholeKept
<1>3. \A k \in Keys : Amends(k) => Amends(k)'
  BY <1>1 DEF Amends
<1>4. \A d : Moving(d) => d.states \subseteq State
  BY MovingAre
<1> QED
  BY <1>1, <1>2, <1>3, <1>4, WholeStays

LEMMA WholeWriterTakes ==
  ASSUME TypeInv, WholeInv, WriterTakes PROVE WholeInv'
<1>1. /\ job = NoJob /\ queue # <<>> /\ job' = Head(queue) /\ queue' = Tail(queue)
      /\ UNCHANGED <<tape, base, last, late, acc, maxSeen, incomplete, step, dead, rows, gaps, unstored>>
  BY DEF WriterTakes, exchange, memory, database, history
<1>2. queue \in Seq(Command) /\ step.todo \in Seq(Command)
  BY MarksAre
<1>3. queue' \in Seq(Command) /\ <<job'>> \in Seq(Command) /\ queue = <<job'>> \o queue'
  <2>1. Head(queue) \in Command /\ Tail(queue) \in Seq(Command)
    BY <1>1, <1>2, HeadTailProperties
  <2>2. queue = <<Head(queue)>> \o Tail(queue)
    BY <1>1, <1>2
  <2> QED
    BY <1>1, <2>1, <2>2
<1>4. \A c : Has(Line, c) <=> Has(queue, c) \/ Has(step.todo, c)
  BY <1>2, HasBoth DEF Line
<1>5. \A c : Has(Line', c) <=> Has(queue', c) \/ Has(step.todo, c)
  <2>1. Line' = queue' \o step.todo
    BY <1>1 DEF Line
  <2> QED
    BY <1>2, <1>3, <2>1, HasBoth
<1>6. \A c : Has(queue, c) <=> c = job' \/ Has(queue', c)
  <2>1. \A c : Has(queue, c) <=> Has(<<job'>>, c) \/ Has(queue', c)
    BY <1>3, HasBoth
  <2>2. DOMAIN <<job'>> = {1} /\ <<job'>>[1] = job'
    OBVIOUS
  <2>3. \A c : Has(<<job'>>, c) <=> c = job'
    BY <2>2 DEF Has
  <2> QED
    BY <2>1, <2>3
<1>7. /\ \A c : Moving(c)' => Moving(c)
      /\ \A c : Moving(c) => Moving(c)' \/ c = NoJob
  BY <1>1, <1>4, <1>5, <1>6 DEF Moving
<1> QED
  BY <1>1, <1>7, WholeQuiet

LEMMA WholeWrites ==
  ASSUME TypeInv, WholeInv, Writes \/ WritesUnheard PROVE WholeInv'
<1>1. /\ UNCHANGED <<tape, base, last, late, acc, maxSeen, incomplete, step, queue, dead, unstored>>
      /\ job' = NoJob \/ job' = job
      /\ job # NoJob /\ Commits
  BY DEF Writes, WritesUnheard, exchange, memory, writer, history
<1>2. Line' = Line
  BY <1>1 DEF Line
<1>3. \A c : Moving(c)' => Moving(c) \/ c.states = {}
  BY <1>1, <1>2 DEF Moving, NoJob
<1>4. \A k \in Keys, T \in SUBSET Nat : Whole(k, T) => Whole(k, T)'
  BY <1>1, WholeKept
<1>5. \A d : Moving(d) => d.states \subseteq State
  BY MovingAre
<1>6. gaps \subseteq gaps' /\ (job.kind = "gap" => job.gap \in gaps')
  BY <1>1 DEF Commits, database
<1>7. ASSUME NEW k \in Keys, Amends(k) PROVE Amends(k)'
  <2>1. CASE k \in unstored \/ \E x \in gaps : Covers(x, k)
    BY <1>1, <1>6, <2>1 DEF Amends
  <2>2. ASSUME NEW c, Moving(c), c.kind = "gap", Covers(c.gap, k) PROVE Amends(k)'
    <3>1. CASE Has(Line, c)
      BY <1>2, <2>2, <3>1 DEF Amends, Moving
    <3>2. CASE c = job
      BY <1>6, <2>2, <3>2 DEF Amends
    <3> QED
      BY <2>2, <3>1, <3>2 DEF Moving
  <2> QED
    BY <1>7, <2>1, <2>2 DEF Amends
<1>8. ASSUME NEW r \in rows', r.complete
      PROVE  \E st : /\ st \in rows \/ \E c : Moving(c) /\ st \in c.states
                     /\ st.key = r.key /\ st.trades = r.trades /\ st.complete
  <2>1. CASE r \in rows
    BY <1>8, <2>1
  <2>2. CASE r \in MarkedBy(job.gap)
    <3>1. PICK p \in rows : r = [key |-> p.key, trades |-> p.trades, quote |-> p.quote,
                                 complete |-> p.complete /\ ~Covers(job.gap, p.key)]
      BY <2>2 DEF MarkedBy
    <3>2. r.key = p.key /\ r.trades = p.trades /\ (r.complete = (p.complete /\ ~Covers(job.gap, p.key)))
      BY <3>1
    <3> QED
      BY <1>8, <3>2
  <2>3. CASE \E st \in job.states : r = Adjusted(st)
    <3>1. PICK st \in job.states : r = Adjusted(st)
      BY <2>3
    <3>2. r.key = st.key /\ r.trades = st.trades
          /\ (r.complete = (st.complete /\ ~\E x \in gaps : Covers(x, st.key)))
      BY <3>1 DEF Adjusted
    <3> QED
      BY <1>8, <3>2 DEF Moving
  <2> QED
    BY <1>1, <1>8, <2>1, <2>2, <2>3 DEF Commits, Merged, database
<1> QED
  BY <1>1, <1>3, <1>4, <1>5, <1>7, <1>8, WholeStays

LEMMA WholeRestarts ==
  ASSUME TypeInv, Restarts PROVE WholeInv'
<1>1. /\ base' = [s \in Symbols |-> 0] /\ acc' = [k \in Keys |-> NoBucket]
      /\ step' = Idle /\ queue' = <<>> /\ job' = NoJob /\ rows' = rows
  BY DEF Restarts, database
<1>2. Line' = <<>> /\ step'.states = {} /\ job'.states = {} /\ NoBucket.trades = {}
  <2>1. <<>> \o <<>> = <<>>
    OBVIOUS
  <2> QED
    BY <1>1, <2>1 DEF Line, Idle, NoJob, NoBucket
<1>3. \A c : Moving(c)' => c.states = {}
  BY <1>1, <1>2 DEF Moving, Has
<1>4. \A k \in Keys : /\ \A T : Whole(k, T)'
                      /\ Whole(k, acc[k].trades)'
  BY <1>1, KeyIs DEF Whole
<1>5. \A r \in rows' : Owed(r)'
  BY <1>1, <1>4 DEF Owed, TypeInv, TypeOK, State
<1>6. base' \in [Symbols -> Nat] /\ \A k \in Keys : acc'[k].open \/ acc'[k].trades = {}
  BY <1>1, <1>2
<1> QED
  BY <1>2, <1>3, <1>4, <1>5, <1>6 DEF WholeInv

LEMMA WholeInvStays ==
  ASSUME TypeInv, MarkInv, TrackInv, CopyInv, WholeInv, [Next]_vars PROVE WholeInv'
<1>1. ASSUME NEW s \in Symbols, TradeArrives(s) PROVE WholeInv'
  <2>1. PICK i \in ({last[s]} \ {0}) \cup ((sent[s] + 1)..Made(s)) :
          Arrives([sym |-> s, id |-> i, at |-> tape[s][i]])
    BY <1>1 DEF TradeArrives
  <2>2. /\ i \in 1..Len(tape[s]) /\ tape[s][i] \in 0..MaxClock
        /\ (i = last[s] \/ sent[s] < i) /\ (i = last[s] => i = sent[s])
    BY EventIs
  <2> DEFINE e == [sym |-> s, id |-> i, at |-> tape[s][i]]
  <2>3. e \in Event /\ e.sym = s /\ e.id = i /\ e.at = tape[s][i] /\ Arrives(e)
    BY <2>1, <2>2 DEF Event
  <2>4. UNCHANGED exchange
    BY <1>1 DEF TradeArrives
  <2>5. \A k \in Keys : Past(k) => End(k[2]) <= tape[s][i]
    <3>1. i \in DOMAIN tape[s]
      <4>1. tape[s] \in Seq(0..MaxClock)
        BY MadeIs
      <4> QED
        BY <2>2, <4>1
    <3>2. i # 0
      BY <2>2
    <3> QED
      BY <2>2, <3>1, <3>2 DEF Past
  <2> HIDE DEF e
  <2> QED
    BY <2>2, <2>3, <2>4, <2>5, WholeArrives
<1>2. ASSUME NEW s \in Symbols, QuoteArrives(s) PROVE WholeInv'
  <2> DEFINE e == [sym |-> s, id |-> 0, at |-> clock]
  <2>1. e \in Event /\ e.id = 0 /\ e.at = clock /\ Arrives(e) /\ UNCHANGED exchange
    BY <1>2 DEF QuoteArrives, Event, TypeInv, TypeOK
  <2>2. \A k \in Keys : Past(k) => End(k[2]) <= clock
    BY DEF Past
  <2> HIDE DEF e
  <2> QED
    BY <2>1, <2>2, WholeArrives
<1>3. CASE UNCHANGED vars \/ TimePasses
  <2>1. UNCHANGED <<tape, base, last, late, acc, maxSeen, incomplete, step, queue, job, dead,
                    rows, gaps, unstored>>
    BY <1>3 DEF vars, TimePasses, exchange, memory, writer, database, history
  <2>2. \A c : Moving(c)' <=> Moving(c)
    BY <2>1 DEF Moving, Line
  <2> QED
    BY <2>1, <2>2, WholeQuiet
<1>4. CASE RowsGoIn
  <2>1. /\ UNCHANGED <<tape, base, last, late, acc, maxSeen, incomplete, job, dead, rows, gaps,
                       unstored>>
        /\ PutAll(queue, step.todo)
    BY <1>4 DEF RowsGoIn, exchange, memory, database, history
  <2>2. queue \in Seq(Command) /\ step.todo \in Seq(Command) /\ Len(queue) <= QueueRoom
    BY MarksAre
  <2>3. Line' = Line
    BY <2>1, <2>2, PutAllLine DEF Line
  <2>4. step'.states = {}
    BY <2>1 DEF PutAll, Idle, AtRows
  <2>5. \A c : Moving(c)' <=> Moving(c)
    BY <2>1, <2>3 DEF Moving
  <2> QED
    BY <2>1, <2>4, <2>5, WholeQuiet
<1>5. ASSUME NEW s \in Symbols, Changes(s) PROVE WholeInv'
  <2>1. /\ base' = [x \in Symbols |-> IF x \in expected' THEN base[x] ELSE 0]
        /\ last' = [x \in Symbols |-> IF x \in expected' THEN last[x] ELSE 0]
        /\ UNCHANGED <<tape, late, acc, maxSeen, incomplete, step, queue, job, dead, rows, gaps,
                       unstored>>
    BY <1>5 DEF Changes, exchange, writer, database
  <2>2. CASE dead
    BY <2>1, <2>2 DEF WholeInv
  <2>3. CASE ~dead
    <3>1. base' \in [Symbols -> Nat]
      BY <2>1, <2>3 DEF WholeInv
    <3>2. \A x \in Symbols : base'[x] = 0 \/ (base'[x] = base[x] /\ last'[x] = last[x])
      BY <2>1
    <3>3. \A c : Moving(c)' <=> Moving(c)
      BY <2>1 DEF Moving, Line
    <3> QED
      BY <2>1, <3>1, <3>2, <3>3, WholeQuiet
  <2> QED
    BY <2>2, <2>3
<1>6. CASE WriterFails
  BY <1>6 DEF WriterFails, WholeInv
<1> QED
  BY <1>1, <1>2, <1>3, <1>4, <1>5, <1>6, WholeGapGoesIn, WholeHubTakes,
     WholeRowsAreBuilt, WholeCut, WholeWriterTakes, WholeWrites, WholeRestarts DEF Next

LEMMA WholeInvStarts == Init => WholeInv
<1> SUFFICES ASSUME Init PROVE WholeInv
  OBVIOUS
<1>1. /\ base = [s \in Symbols |-> 0] /\ acc = [k \in Keys |-> NoBucket]
      /\ step = Idle /\ queue = <<>> /\ job = NoJob /\ rows = {}
  BY DEF Init
<1>2. Line = <<>> /\ step.states = {} /\ job.states = {} /\ NoBucket.trades = {}
  <2>1. <<>> \o <<>> = <<>>
    OBVIOUS
  <2> QED
    BY <1>1, <2>1 DEF Line, Idle, NoJob, NoBucket
<1>3. \A c : Moving(c) => c.states = {}
  BY <1>1, <1>2 DEF Moving, Has
<1>4. \A k \in Keys : Whole(k, acc[k].trades)
  BY <1>1, KeyIs DEF Whole
<1> QED
  BY <1>1, <1>2, <1>3, <1>4 DEF WholeInv

LEMMA WholeInvHolds == Spec => [](RuntimeInv /\ WholeInv)
<1>1. RuntimeInv /\ MarkInv /\ TrackInv /\ CopyInv /\ WholeInv /\ [Next]_vars => WholeInv'
  BY WholeInvStays DEF RuntimeInv
<1> QED
  BY <1>1, CopyInvHolds, WholeInvStarts, PTL DEF Spec

(* A state that says it is complete has every trade of its bucket that was     *)
(* tracked, unless it came late: on the way to the hub, and stored, once the   *)
(* gaps found after it are.                                                    *)
THEOREM CompleteHasAll == Spec => []CompleteIsWhole
<1>1. RuntimeInv /\ WholeInv /\ GapsStick => CompleteIsWhole
  <2> SUFFICES ASSUME RuntimeInv, WholeInv, GapsStick, ~dead
               PROVE  /\ \A st \in step.states : st.complete => Whole(st.key, st.trades)
                      /\ \A r \in rows :
                           r.complete /\ ~GapComing(r.key) /\ r.key \notin unstored =>
                             Whole(r.key, r.trades)
    BY DEF CompleteIsWhole
  <2>1. TypeInv
    BY DEF RuntimeInv
  <2>2. ASSUME NEW r \in rows, r.complete, ~GapComing(r.key), r.key \notin unstored,
               ~Whole(r.key, r.trades)
        PROVE  FALSE
    <3>1. Amends(r.key)
      BY <2>2 DEF WholeInv, Owed
    <3>2. PICK c : Moving(c) /\ c.kind = "gap" /\ Covers(c.gap, r.key)
      BY <2>2, <3>1 DEF Amends, GapsStick
    <3>3. Has(queue, c) \/ Has(step.todo, c) \/ c = job
      BY <2>1, <3>2, MarksAre, HasBoth DEF Moving, Line
    <3>4. c \in Coming
      BY <3>3 DEF Has, Coming
    <3> QED
      BY <2>2, <3>2, <3>4 DEF GapComing
  <2> QED
    BY <2>2 DEF WholeInv, Told
<1> QED
  BY <1>1, WholeInvHolds, GapsAlwaysStick, PTL
===============================================================================
