---------------------------- MODULE CollectorProofs ----------------------------
(* What the collector does to its archive and its journal, for any clock,      *)
(* window length, limits and number of hub lives and ends.                     *)
EXTENDS Collector, SumTheorems, SequenceTheorems

-------------------------------------------------------------------------------
(* A finite set of integers that is not empty has a largest and a smallest     *)
(* element, so the library's Max and Min are what their names say.             *)
LEMMA MaxIs ==
  ASSUME NEW S, S \subseteq Int, IsFiniteSet(S), S # {}
  PROVE  Max(S) \in S /\ \A y \in S : Max(S) >= y
<1> DEFINE Bad == {s \in SUBSET S : s # {} /\ ~ \E x \in s : \A y \in s : x >= y}
<1>1. Bad = {}
  <2>1. SUFFICES ASSUME Bad # {} PROVE FALSE
    OBVIOUS
  <2>2. PICK s \in Bad : \A x \in s : s \ {x} \notin Bad
    BY <2>1, Smallest
  <2>3. PICK x \in s : TRUE
    OBVIOUS
  <2>4. CASE s \ {x} = {}
    <3>1. \A y \in s : x >= y
      BY <2>3, <2>4
    <3> QED
      BY <2>3, <3>1
  <2>5. CASE s \ {x} # {}
    <3>1. PICK m \in s \ {x} : \A y \in s \ {x} : m >= y
      BY <2>2, <2>3, <2>5
    <3>2. x \in Int /\ m \in Int /\ \A y \in s : y \in Int
      BY <2>3, <3>1
    <3>3. (\A y \in s : x >= y) \/ (\A y \in s : m >= y)
      BY <3>1, <3>2
    <3> QED
      BY <2>3, <3>1, <3>3
  <2> QED
    BY <2>4, <2>5
<1>2. \E x \in S : \A y \in S : x >= y
  BY <1>1
<1> QED
  BY <1>2 DEF Max

LEMMA MinIs ==
  ASSUME NEW S, S \subseteq Int, IsFiniteSet(S), S # {}
  PROVE  Min(S) \in S /\ \A y \in S : Min(S) <= y
<1> DEFINE Bad == {s \in SUBSET S : s # {} /\ ~ \E x \in s : \A y \in s : x <= y}
<1>1. Bad = {}
  <2>1. SUFFICES ASSUME Bad # {} PROVE FALSE
    OBVIOUS
  <2>2. PICK s \in Bad : \A x \in s : s \ {x} \notin Bad
    BY <2>1, Smallest
  <2>3. PICK x \in s : TRUE
    OBVIOUS
  <2>4. CASE s \ {x} = {}
    <3>1. \A y \in s : x <= y
      BY <2>3, <2>4
    <3> QED
      BY <2>3, <3>1
  <2>5. CASE s \ {x} # {}
    <3>1. PICK m \in s \ {x} : \A y \in s \ {x} : m <= y
      BY <2>2, <2>3, <2>5
    <3>2. x \in Int /\ m \in Int /\ \A y \in s : y \in Int
      BY <2>3, <3>1
    <3>3. (\A y \in s : x <= y) \/ (\A y \in s : m <= y)
      BY <3>1, <3>2
    <3> QED
      BY <2>3, <3>1, <3>3
  <2> QED
    BY <2>4, <2>5
<1>2. \E x \in S : \A y \in S : x <= y
  BY <1>1
<1> QED
  BY <1>2 DEF Min

(* The largest of a finite set and one number more.                            *)
LEMMA MaxWith ==
  ASSUME NEW S, S \subseteq Int, IsFiniteSet(S), NEW n \in Int
  PROVE  /\ Max(S \cup {n}) \in S \cup {n}
         /\ Max(S \cup {n}) \in Int
         /\ \A y \in S \cup {n} : Max(S \cup {n}) >= y
<1>1. IsFiniteSet(S \cup {n})
  BY FS_Singleton, FS_Union
<1>2. S \cup {n} \subseteq Int /\ S \cup {n} # {}
  OBVIOUS
<1>3. Max(S \cup {n}) \in S \cup {n} /\ \A y \in S \cup {n} : Max(S \cup {n}) >= y
  BY <1>1, <1>2, MaxIs
<1> QED
  BY <1>2, <1>3

LEMMA LargerIs ==
  ASSUME NEW a \in Int, NEW b \in Int
  PROVE  /\ Larger(a, b) \in {a, b} /\ Larger(a, b) \in Int
         /\ Larger(a, b) >= a /\ Larger(a, b) >= b
BY DEF Larger

LEMMA ImageIsFinite ==
  ASSUME NEW S, IsFiniteSet(S), NEW f
  PROVE  IsFiniteSet({f[x] : x \in S})
<1> DEFINE T == {f[x] : x \in S}
           g == [x \in S |-> f[x]]
<1>1. g \in Surjection(S, T)
  BY DEF Surjection
<1> QED
  BY <1>1, FS_Surjection

LEMMA BucketsAre ==
  /\ MaxBucket \in Nat /\ Buckets \subseteq Int /\ IsFiniteSet(Buckets)
  /\ IsFiniteSet(Windows) /\ \A b \in Buckets : Window(b) \in Windows
  /\ Windows \subseteq Int
<1>1. MaxBucket \in Nat
  BY ClockAssumption
<1>2. Buckets \subseteq Int /\ IsFiniteSet(Buckets)
  BY <1>1, FS_Interval DEF Buckets
<1>3. IsFiniteSet(Windows)
  <2> DEFINE f == [b \in Buckets |-> Window(b)]
  <2>1. Windows = {f[b] : b \in Buckets}
    BY DEF Windows
  <2> QED
    BY <1>2, <2>1, ImageIsFinite
<1>4. \A b \in Buckets : Window(b) \in Windows
  BY DEF Windows
<1>5. \A b \in Buckets : Window(b) \in Int
  BY <1>1, ClockAssumption DEF Window, Buckets
<1>6. Windows \subseteq Int
  BY <1>5 DEF Windows
<1> QED
  BY <1>1, <1>2, <1>3, <1>4, <1>6

-------------------------------------------------------------------------------
(* What the operations of Archive make of well-formed books.                   *)
Staging  == [rec : Record, left : SUBSET Key]
Finite(z) == IsFiniteSet(z.staged) /\ IsFiniteSet(z.empties)
GoodBooks == {z \in Books : Finite(z)}

LEMMA BooksAre ==
  ASSUME NEW z \in Books
  PROVE  /\ z.rows \in [Buckets -> Version] /\ z.open \subseteq Windows
         /\ z.staged \subseteq Staging /\ z.over \subseteq Key /\ z.empties \subseteq Record
BY DEF Books, Staging

LEMMA RecordsAre ==
  ASSUME NEW r \in Record
  PROVE  r.kind \in Kinds /\ r.stream \in Nat /\ r.seq \in Nat /\ r.at \in Buckets
         /\ r.rows \subseteq Buckets
BY DEF Record

LEMMA NoBooksGood == NoBooks \in GoodBooks
<1>1. IsFiniteSet(NoBooks.staged) /\ IsFiniteSet(NoBooks.empties)
  BY FS_EmptySet DEF NoBooks
<1>2. NoBooks \in Books
  BY DEF NoBooks, Books, Version
<1> QED
  BY <1>1, <1>2 DEF GoodBooks, Finite

(* Stage, part by part.                                                        *)
Known(z, r, a) ==
  LET opened == z.open \cup {Window(b) : b \in r.rows}
  IN [b \in Buckets |-> IF Window(b) \in z.open THEN z.rows[b]
                        ELSE IF Window(b) \in opened THEN a[b] ELSE "none"]
Won(z, r, a)    == {b \in r.rows : ~(r.kind = "hub" /\ Known(z, r, a)[b] = "pg")}
Beaten(z, r, a) == {b \in Won(z, r, a) : r.kind = "pg" /\ Known(z, r, a)[b] = "hub"}

StagedAs(n, z, r, a) ==
  /\ n.open = z.open \cup {Window(b) : b \in r.rows}
  /\ n.rows = [b \in Buckets |-> IF b \in Won(z, r, a) THEN r.kind ELSE Known(z, r, a)[b]]
  /\ n.empties = IF Won(z, r, a) = {} THEN z.empties \cup {r} ELSE z.empties
  /\ n.staged = IF Won(z, r, a) = {} THEN z.staged
                ELSE z.staged \cup {[rec |-> r, left |-> Won(z, r, a) \X {r.kind}]}
  /\ n.over = IF Won(z, r, a) = {} THEN z.over
              ELSE z.over \cup (Beaten(z, r, a) \X {"hub"})

Fields(n) == [rows : {n.rows}, open : {n.open}, staged : {n.staged},
              over : {n.over}, empties : {n.empties}]

LEMMA StageParts ==
  ASSUME NEW z \in Books, NEW r \in Record, NEW a \in [Buckets -> Version]
  PROVE  StagedAs(Stage(z, r, a), z, r, a) /\ Stage(z, r, a) \in Fields(Stage(z, r, a))
<1> DEFINE opened == z.open \cup {Window(b) : b \in r.rows}
           won == Won(z, r, a)
           rows == [b \in Buckets |-> IF b \in won THEN r.kind ELSE Known(z, r, a)[b]]
           loaded == [z EXCEPT !.open = opened, !.rows = rows]
           beaten == Beaten(z, r, a)
           more == z.staged \cup {[rec |-> r, left |-> won \X {r.kind}]}
           over == z.over \cup (beaten \X {"hub"})
<1>1. Stage(z, r, a) =
        IF won = {} THEN [loaded EXCEPT !.empties = z.empties \cup {r}]
        ELSE [loaded EXCEPT !.staged = more, !.over = over]
  BY DEF Stage, Won, Known, Beaten
<1> HIDE DEF opened, won, rows, beaten, more, over
<1>2. loaded \in [rows : {rows}, open : {opened}, staged : {z.staged}, over : {z.over},
                 empties : {z.empties}]
  BY DEF Books
<1> HIDE DEF loaded
<1>3. CASE won = {}
  <2> DEFINE n == [loaded EXCEPT !.empties = z.empties \cup {r}]
  <2>1. n \in [rows : {rows}, open : {opened}, staged : {z.staged}, over : {z.over},
               empties : {z.empties \cup {r}}]
    BY <1>2
  <2> HIDE DEF n
  <2>2. n.rows = rows /\ n.open = opened /\ n.staged = z.staged /\ n.over = z.over
        /\ n.empties = z.empties \cup {r}
    BY <2>1
  <2>3. n \in Fields(n)
    BY <2>1, <2>2 DEF Fields
  <2>4. Stage(z, r, a) = n
    BY <1>1, <1>3 DEF n
  <2>5. StagedAs(n, z, r, a)
    BY <1>3, <2>2 DEF StagedAs, opened, won, rows
  <2> QED
    BY <2>3, <2>4, <2>5
<1>4. CASE won # {}
  <2> DEFINE n == [loaded EXCEPT !.staged = more, !.over = over]
  <2>1. n \in [rows : {rows}, open : {opened}, staged : {more}, over : {over},
               empties : {z.empties}]
    BY <1>2
  <2> HIDE DEF n
  <2>2. n.rows = rows /\ n.open = opened /\ n.staged = more /\ n.over = over
        /\ n.empties = z.empties
    BY <2>1
  <2>3. n \in Fields(n)
    BY <2>1, <2>2 DEF Fields
  <2>4. Stage(z, r, a) = n
    BY <1>1, <1>4 DEF n
  <2>5. StagedAs(n, z, r, a)
    BY <1>4, <2>2 DEF StagedAs, opened, won, rows, more, over, beaten
  <2> QED
    BY <2>3, <2>4, <2>5
<1> QED
  BY <1>3, <1>4

LEMMA StageGood ==
  ASSUME NEW z \in GoodBooks, NEW r \in Record, NEW a \in [Buckets -> Version]
  PROVE  Stage(z, r, a) \in GoodBooks
<1> DEFINE n == Stage(z, r, a)
           won == Won(z, r, a)
<1>1. z \in Books /\ Finite(z)
  BY DEF GoodBooks
<1>2. Known(z, r, a) \in [Buckets -> Version] /\ won \subseteq Buckets
      /\ Beaten(z, r, a) \subseteq Buckets
  BY <1>1, BooksAre, RecordsAre DEF Known, Version, Won, Beaten
<1>3. /\ StagedAs(n, z, r, a)
      /\ n \in Fields(n)
  BY <1>1, StageParts
<1>4. r.kind \in Kinds /\ r.rows \subseteq Buckets
  BY RecordsAre
<1>5. won \X {r.kind} \subseteq Key /\ Beaten(z, r, a) \X {"hub"} \subseteq Key
  BY <1>2, <1>4 DEF Key, Kinds
<1>6. [rec |-> r, left |-> won \X {r.kind}] \in Staging
  BY <1>5 DEF Staging
<1>7. /\ z.rows \in [Buckets -> Version] /\ z.open \subseteq Windows
      /\ z.staged \subseteq Staging /\ z.over \subseteq Key /\ z.empties \subseteq Record
  BY <1>1, BooksAre
<1>8. \A b \in r.rows : Window(b) \in Windows
  BY <1>4, BucketsAre
<1> HIDE DEF n
<1>9. n.rows \in [Buckets -> Version]
  BY <1>2, <1>3, <1>4 DEF Version, StagedAs
<1>10. n.open \subseteq Windows
  BY <1>3, <1>7, <1>8 DEF StagedAs
<1> HIDE DEF won
<1>11. n.staged \subseteq Staging /\ n.over \subseteq Key /\ n.empties \subseteq Record
  BY <1>3, <1>5, <1>6, <1>7 DEF StagedAs, won
<1>12. n \in Books
  BY <1>3, <1>9, <1>10, <1>11 DEF Books, Staging, Fields
<1>13. Finite(n)
  <2>1. IsFiniteSet(z.staged \cup {[rec |-> r, left |-> won \X {r.kind}]})
        /\ IsFiniteSet(z.empties \cup {r})
    BY <1>1, FS_AddElement DEF Finite
  <2> QED
    BY <1>1, <1>3, <2>1 DEF Finite, StagedAs, won
<1> QED
  BY <1>12, <1>13 DEF GoodBooks, n

-------------------------------------------------------------------------------
LEMMA WriteGood ==
  ASSUME NEW z \in GoodBooks, NEW a \in [Buckets -> Version], NEW w
  PROVE  /\ Written(a, z, w) \in [Buckets -> Version]
         /\ \A b \in Buckets : Written(a, z, w)[b] = IF Window(b) = w THEN z.rows[b] ELSE a[b]
         /\ Closed(z, w) \in GoodBooks
         /\ Closed(z, w).open = z.open \ {w}
         /\ \A b \in Buckets : Closed(z, w).rows[b] = IF Window(b) = w THEN "none" ELSE z.rows[b]
         /\ Closed(z, w).staged = z.staged /\ Closed(z, w).over = z.over
         /\ Closed(z, w).empties = z.empties
         /\ KeysIn(z, w) \subseteq Key
         /\ \A k \in KeysIn(z, w) : Window(k[1]) = w /\ z.rows[k[1]] = k[2]
<1> DEFINE rows == [b \in Buckets |-> IF Window(b) = w THEN "none" ELSE z.rows[b]]
           open == z.open \ {w}
<1>1. z \in Books /\ Finite(z) /\ z.rows \in [Buckets -> Version] /\ z.open \subseteq Windows
  BY BooksAre DEF GoodBooks
<1>2. rows \in [Buckets -> Version] /\ open \subseteq Windows
  BY <1>1 DEF Version
<1>3. \A b \in Buckets : rows[b] = IF Window(b) = w THEN "none" ELSE z.rows[b]
  OBVIOUS
<1>4. Closed(z, w) = [z EXCEPT !.open = open, !.rows = rows]
  BY DEF Closed
<1>5. open = z.open \ {w}
  OBVIOUS
<1> HIDE DEF rows, open
<1>6. /\ Closed(z, w) \in Books /\ Closed(z, w).open = open /\ Closed(z, w).rows = rows
      /\ Closed(z, w).staged = z.staged /\ Closed(z, w).over = z.over
      /\ Closed(z, w).empties = z.empties
  BY <1>1, <1>2, <1>4 DEF Books
<1>7. Closed(z, w) \in GoodBooks
  BY <1>1, <1>6 DEF GoodBooks, Finite
<1>8. Written(a, z, w) \in [Buckets -> Version]
  BY <1>1 DEF Written
<1> QED
  BY <1>3, <1>5, <1>6, <1>7, <1>8 DEF Written, KeysIn

(* Waiting, with a name for what is left of one record.                        *)
Less(t, z, keys) == [rec |-> t.rec, left |-> t.left \ (keys \cup z.over)]

LEMMA WaitingAre ==
  ASSUME NEW z \in GoodBooks, NEW keys
  PROVE  /\ Waiting(z, keys) \subseteq Staging /\ IsFiniteSet(Waiting(z, keys))
         /\ \A s : s \in Waiting(z, keys) <=>
              s.left # {} /\ \E t \in z.staged : s = Less(t, z, keys)
<1> DEFINE all == {Less(t, z, keys) : t \in z.staged}
           f == [t \in z.staged |-> Less(t, z, keys)]
<1>1. z \in Books /\ Finite(z) /\ z.staged \subseteq Staging
  BY BooksAre DEF GoodBooks
<1>2. all = {f[t] : t \in z.staged}
  OBVIOUS
<1>3. IsFiniteSet(all)
  <2> HIDE DEF f, all
  <2>1. IsFiniteSet({f[t] : t \in z.staged})
    BY <1>1, ImageIsFinite DEF Finite
  <2> QED
    BY <1>2, <2>1
<1>4. Waiting(z, keys) = {s \in all : s.left # {}}
  BY DEF Waiting, Less
<1>5. all \subseteq Staging
  BY <1>1 DEF Staging, Less
<1>6. IsFiniteSet(Waiting(z, keys))
  BY <1>3, <1>4, FS_Subset
<1> QED
  BY <1>4, <1>5, <1>6

LEMMA ReadyAre ==
  ASSUME NEW z \in GoodBooks, NEW keys, NEW all
  PROVE  /\ Ready(z, keys, all) \subseteq Record /\ IsFiniteSet(Ready(z, keys, all))
         /\ \A r \in Ready(z, keys, all) :
              \/ /\ \E t \in z.staged : t.rec = r
                 /\ \A t \in z.staged : t.rec = r => t.left \subseteq keys \cup z.over
              \/ r \in EmptiesDone(z, keys, all)
         /\ EmptiesDone(z, keys, all) \subseteq z.empties
<1> DEFINE recs == {t.rec : t \in z.staged}
           f == [t \in z.staged |-> t.rec]
<1>1. z \in Books /\ Finite(z) /\ z.staged \subseteq Staging /\ z.empties \subseteq Record
  BY BooksAre DEF GoodBooks
<1>2. recs = {f[t] : t \in z.staged}
  OBVIOUS
<1>3. IsFiniteSet(recs)
  <2> HIDE DEF f, recs
  <2>1. IsFiniteSet({f[t] : t \in z.staged})
    BY <1>1, ImageIsFinite DEF Finite
  <2> QED
    BY <1>2, <2>1
<1>4. recs \subseteq Record
  BY <1>1 DEF Staging
<1>5. EmptiesDone(z, keys, all) \subseteq z.empties
  BY DEF EmptiesDone
<1>6. /\ IsFiniteSet(recs \ {s.rec : s \in Waiting(z, keys)})
      /\ IsFiniteSet(EmptiesDone(z, keys, all))
  BY <1>1, <1>3, <1>5, FS_Subset, FS_Difference DEF Finite
<1>7. Ready(z, keys, all)
        = (recs \ {s.rec : s \in Waiting(z, keys)}) \cup EmptiesDone(z, keys, all)
  BY DEF Ready
<1>8. Ready(z, keys, all) \subseteq Record /\ IsFiniteSet(Ready(z, keys, all))
  BY <1>1, <1>4, <1>5, <1>6, <1>7, FS_Union
<1>9. ASSUME NEW r \in Ready(z, keys, all), r \notin EmptiesDone(z, keys, all)
      PROVE  /\ \E t \in z.staged : t.rec = r
             /\ \A t \in z.staged : t.rec = r => t.left \subseteq keys \cup z.over
  <2>1. r \in recs /\ \A s \in Waiting(z, keys) : s.rec # r
    BY <1>7, <1>9
  <2>2. ASSUME NEW t \in z.staged, t.rec = r, ~(t.left \subseteq keys \cup z.over) PROVE FALSE
    <3>1. Less(t, z, keys).left # {} /\ Less(t, z, keys).rec = r
      BY <2>2 DEF Less
    <3>2. Less(t, z, keys) \in Waiting(z, keys)
      BY <3>1, WaitingAre
    <3> QED
      BY <2>1, <3>1, <3>2
  <2> QED
    BY <2>1, <2>2
<1> QED
  BY <1>5, <1>8, <1>9

LEMMA CoveredAre ==
  ASSUME NEW z \in GoodBooks, NEW keys, NEW all
  PROVE  LET n == Covered(z, keys, all)
         IN /\ n \in GoodBooks
            /\ n.rows = z.rows /\ n.open = z.open
            /\ n.staged = Waiting(z, keys)
            /\ n.over = IF Waiting(z, keys) = {} THEN {} ELSE z.over
            /\ n.empties = z.empties \ EmptiesDone(z, keys, all)
<1> DEFINE over == IF Waiting(z, keys) = {} THEN {} ELSE z.over
           empties == z.empties \ EmptiesDone(z, keys, all)
           n == [z EXCEPT !.staged = Waiting(z, keys), !.over = over, !.empties = empties]
<1>1. z \in Books /\ Finite(z) /\ z.over \subseteq Key /\ z.empties \subseteq Record
  BY BooksAre DEF GoodBooks
<1>2. /\ over \subseteq Key /\ empties \subseteq Record /\ IsFiniteSet(empties)
      /\ Waiting(z, keys) \subseteq Staging /\ IsFiniteSet(Waiting(z, keys))
  BY <1>1, WaitingAre, FS_Difference DEF Finite
<1>3. Covered(z, keys, all) = n
  BY DEF Covered
<1> HIDE DEF over, empties
<1>4. /\ n \in Books
      /\ n.rows = z.rows /\ n.open = z.open
      /\ n.staged = Waiting(z, keys)
      /\ n.over = over /\ n.empties = empties
  BY <1>1, <1>2 DEF Books, Staging
<1>5. n \in GoodBooks
  BY <1>2, <1>4 DEF GoodBooks, Finite
<1> QED
  BY <1>3, <1>4, <1>5 DEF over, empties

-------------------------------------------------------------------------------
(* What holds of empty books and is kept by staging holds of restaged ones.    *)
LEMMA RestagedThrough ==
  ASSUME NEW q \in Seq(Record), NEW a, NEW F, NoBooks \in F[0],
         \A n \in 1..Len(q) : \A z \in F[n - 1] : Stage(z, q[n], a) \in F[n]
  PROVE  Restaged(q, a) \in F[Len(q)]
<1> DEFINE Step(g, n) == IF n = 0 THEN NoBooks ELSE Stage(g[n - 1], q[n], a)
           Solved(g) == g = [n \in 0..Len(q) |-> Step(g, n)]
           UpTo(m) == \E h : \A n \in 0..m : h[n] = Step(h, n)
           Bad == {m \in Nat : ~ UpTo(m)}
<1>1. Len(q) \in Nat /\ DOMAIN q = 1..Len(q)
  OBVIOUS
<1>2. UpTo(0)
  <2> DEFINE h == [n \in {0} |-> NoBooks]
  <2>1. \A n \in 0..0 : n = 0
    OBVIOUS
  <2>2. h[0] = Step(h, 0)
    OBVIOUS
  <2> HIDE DEF h, Step
  <2>3. \A n \in 0..0 : h[n] = Step(h, n)
    BY <2>1, <2>2
  <2> QED
    BY <2>3
<1>3. ASSUME NEW m \in Nat, UpTo(m) PROVE UpTo(m + 1)
  <2>1. PICK h : \A n \in 0..m : h[n] = Step(h, n)
    BY <1>3
  <2> DEFINE k == [n \in 0..(m + 1) |-> Step(h, n)]
  <2>2. \A n \in 0..m : k[n] = h[n]
    BY <2>1
  <2>3. \A n \in 0..(m + 1) : Step(k, n) = Step(h, n)
    <3> HIDE DEF k
    <3>1. ASSUME NEW n \in 0..(m + 1) PROVE Step(k, n) = Step(h, n)
      <4>1. n # 0 => n - 1 \in 0..m
        BY <1>3
      <4>2. n # 0 => k[n - 1] = h[n - 1]
        BY <2>2, <4>1
      <4> QED
        BY <4>2
    <3> QED
      BY <3>1
  <2>4. \A n \in 0..(m + 1) : k[n] = Step(h, n)
    OBVIOUS
  <2> HIDE DEF k, Step
  <2>5. \A n \in 0..(m + 1) : k[n] = Step(k, n)
    BY <2>3, <2>4
  <2> QED
    BY <2>5
<1>4. Bad = {}
  <2> HIDE DEF UpTo
  <2>1. SUFFICES ASSUME Bad # {} PROVE FALSE
    OBVIOUS
  <2>2. PICK m \in Bad : \A y \in Bad : m <= y
    BY <2>1, Least
  <2>3. m # 0 /\ m - 1 \in Nat
    BY <1>2, <2>2
  <2>4. UpTo(m - 1)
    BY <2>2, <2>3
  <2>5. UpTo((m - 1) + 1)
    BY <1>3, <2>3, <2>4
  <2> QED
    BY <2>2, <2>3, <2>5
<1>5. PICK h : \A n \in 0..Len(q) : h[n] = Step(h, n)
  BY <1>1, <1>4
<1> DEFINE g == [n \in 0..Len(q) |-> Step(h, n)]
<1>6. Solved(g)
  <2>1. \A n \in 0..Len(q) : g[n] = h[n]
    BY <1>5
  <2>2. ASSUME NEW n \in 0..Len(q) PROVE Step(g, n) = Step(h, n)
    <3>1. CASE n = 0
      BY <3>1
    <3>2. CASE n # 0
      <4>1. n - 1 \in 0..Len(q)
        BY <1>1, <3>2
      <4> QED
        BY <2>1, <3>2, <4>1
    <3> QED
      BY <3>1, <3>2
  <2> QED
    BY <2>2
<1> DEFINE f == CHOOSE x : Solved(x)
<1>7. Solved(f)
  <2> HIDE DEF g, Solved
  <2> QED
    BY <1>6
<1>8. Restaged(q, a) = f[Len(q)]
  BY DEF Restaged
<1> HIDE DEF f, g
<1>9. \A n \in 0..Len(q) : f[n] = Step(f, n)
  BY <1>7
<1> DEFINE Out == {n \in 0..Len(q) : f[n] \notin F[n]}
<1>10. Out = {}
  <2>1. SUFFICES ASSUME Out # {} PROVE FALSE
    OBVIOUS
  <2>2. Out \subseteq Nat
    BY <1>1
  <2>3. PICK m \in Out : \A y \in Out : m <= y
    BY <2>1, <2>2, Least
  <2>4. m # 0
    BY <1>9, <2>3
  <2>5. m - 1 \in 0..Len(q) /\ m \in 1..Len(q)
    BY <1>1, <2>3, <2>4
  <2>6. f[m - 1] \in F[m - 1]
    BY <2>3, <2>5
  <2>7. f[m] = Stage(f[m - 1], q[m], a)
    BY <1>9, <2>3, <2>4
  <2> QED
    BY <2>3, <2>5, <2>6, <2>7
<1> QED
  BY <1>1, <1>8, <1>10

LEMMA RestagedIn ==
  ASSUME NEW G, NoBooks \in G, NEW q \in Seq(Record), NEW a,
         \A z \in G : \A i \in DOMAIN q : Stage(z, q[i], a) \in G
  PROVE  Restaged(q, a) \in G
<1>1. Len(q) \in Nat /\ DOMAIN q = 1..Len(q)
  OBVIOUS
<1>2. PICK F : \A n \in 0..Len(q) : F[n] = G
  <2> DEFINE F == [n \in 0..Len(q) |-> G]
  <2>1. \A n \in 0..Len(q) : F[n] = G
    OBVIOUS
  <2> QED
    BY <2>1
<1>3. \A n \in 1..Len(q) : n \in 0..Len(q) /\ n - 1 \in 0..Len(q)
  BY <1>1
<1>4. \A n \in 1..Len(q) : \A z \in F[n - 1] : Stage(z, q[n], a) \in F[n]
  BY <1>1, <1>2, <1>3
<1>5. NoBooks \in F[0] /\ Len(q) \in 0..Len(q) /\ 0 \in 0..Len(q)
  BY <1>1, <1>2
<1>6. Restaged(q, a) \in F[Len(q)]
  BY <1>4, <1>5, RestagedThrough
<1> QED
  BY <1>2, <1>5, <1>6

(* The sequences of Orders hold each record once.                              *)
LEMMA OrdersAre ==
  ASSUME NEW S, S \subseteq Record, IsFiniteSet(S), NEW q \in Orders(S)
  PROVE  /\ q \in Seq(Record) /\ \A i \in DOMAIN q : q[i] \in S
         /\ \A i, j \in DOMAIN q : i # j => q[i] # q[j]
         /\ \A r \in S : \E i \in DOMAIN q : q[i] = r
         /\ \A i, j \in DOMAIN q : i < j => ~InOrder(q[j], q[i])
<1>1. Cardinality(S) \in Nat
  BY FS_CardinalityType
<1> DEFINE D == 1..Cardinality(S)
<1>2. q \in [D -> S] /\ \A i, j \in D : i # j => q[i] # q[j]
  BY DEF Orders, SetToSeqs
<1>3. q \in Seq(Record) /\ DOMAIN q = D
  BY <1>1, <1>2
<1>4. \A r \in S : \E i \in D : q[i] = r
  <2>1. q \in Injection(D, S)
    BY <1>2 DEF Injection, IsInjective
  <2>2. IsFiniteSet(D) /\ Cardinality(D) = Cardinality(S)
    BY <1>1, FS_Interval
  <2>3. q \in Surjection(D, S)
    BY <2>1, <2>2, FS_Injection
  <2> QED
    BY <2>3 DEF Surjection
<1> QED
  BY <1>2, <1>3, <1>4 DEF Orders

-------------------------------------------------------------------------------
(* Types, and which steps of a flush go with which phases of the run loop.     *)
Flushing == {"init", "paused", "drain", "stopping"}
Streams(S) == \A r \in S : r.stream \in 0..MaxStreams
TypeInv ==
  /\ TypeOK /\ Streams(files)
  /\ IsFiniteSet(files) /\ IsFiniteSet(pend) /\ Finite(books)
  /\ link # 0 => phase = "run"
  /\ job.all => phase \in Flushing

LEMMA BoundsAre ==
  /\ MaxStreams \in Nat /\ MaxStreams >= 1 /\ QueueMax \in Nat /\ MaxEnds \in Nat
  /\ Replay \in Nat /\ MaxLag \in Nat /\ FirstCursor \in Int /\ NoSeq \in Int
BY BoundsAssumption DEF NoSeq

LEMMA TypeStarts == Init => TypeInv
<1> SUFFICES ASSUME Init PROVE TypeInv
  OBVIOUS
<1> USE DEF NoSeq, NoStream
<1>1. /\ hub \in [stream : 1..MaxStreams, log : Seq(Batch), next : 0..MaxBucket + 1]
      /\ pg \in -1..MaxBucket
  BY BoundsAre, BucketsAre DEF Init
<1>2. /\ files \subseteq Record /\ resolved \subseteq Record /\ pend \subseteq Record
      /\ archive \in [Buckets -> Version]
  BY DEF Init, Version
<1>3. /\ manifest \in Cursors /\ cur \in Cursors
      /\ ckpt \in [stream : 0..MaxStreams, acc : Int, mat : Int, bucket : -1..MaxBucket]
  BY BoundsAre, BucketsAre DEF Init, Cursors, CursorsAt
<1>4. /\ stream \in 0..MaxStreams /\ lastSeen \in Int /\ lastBucket \in -1..MaxBucket
      /\ queue \in Seq(Record) /\ Len(queue) <= QueueMax
  BY BoundsAre, BucketsAre DEF Init
<1>5. books \in Books /\ Finite(books)
  BY NoBooksGood DEF Init, GoodBooks
<1>6. /\ job \in [step : {"idle", "stage", "write", "manifest", "unlink", "save"},
                  todo : Seq(Record), windows : SUBSET Windows, keys : SUBSET Key,
                  receipts : SUBSET Record, all : BOOLEAN, latest : -1..MaxBucket]
      /\ ~job.all
  BY BucketsAre DEF Init, IdleJob
<1>7. /\ gap \in [stream : 0..MaxStreams, latest : Nat, next : Nat, until : -1..MaxBucket]
      /\ src \in [stream : 0..MaxStreams, seq : Int] /\ link = 0
      /\ phase = "down" /\ accepted \subseteq Record /\ ends \in 0..MaxEnds
  BY BoundsAre, BucketsAre DEF Init, NoGap
<1>8. IsFiniteSet(files) /\ IsFiniteSet(pend) /\ Streams(files)
  BY FS_EmptySet DEF Init, Streams
<1>9. tail \in {"whole", "unended", "torn"} /\ cut \in BOOLEAN
  BY DEF Init
<1> QED
  BY <1>1, <1>2, <1>3, <1>4, <1>5, <1>6, <1>7, <1>8, <1>9 DEF TypeInv, TypeOK

Jobs == [step : {"idle", "stage", "write", "manifest", "unlink", "save"},
         todo : Seq(Record), windows : SUBSET Windows, keys : SUBSET Key,
         receipts : SUBSET Record, all : BOOLEAN, latest : -1..MaxBucket]
Phases == {"down", "init", "run", "gap", "backfill", "drain", "switch", "paused",
           "stopping", "wedged"}
Checkpoints == [stream : 0..MaxStreams, acc : Int, mat : Int, bucket : -1..MaxBucket]
Gaps == [stream : 0..MaxStreams, latest : Nat, next : Nat, until : -1..MaxBucket]
Sources == [stream : 0..MaxStreams, seq : Int]

(* The types, in the groups that a step changes or leaves alone as a whole.    *)
MarketTyped ==
  /\ hub \in [stream : 1..MaxStreams, log : Seq(Batch), next : 0..MaxBucket + 1]
  /\ pg \in -1..MaxBucket
DiskTyped ==
  /\ files \subseteq Record /\ IsFiniteSet(files) /\ Streams(files) /\ resolved \subseteq Record
  /\ archive \in [Buckets -> Version] /\ manifest \in Cursors /\ ckpt \in Checkpoints
  /\ tail \in {"whole", "unended", "torn"}
IngestTyped ==
  /\ pend \subseteq Record /\ IsFiniteSet(pend) /\ cur \in Cursors
  /\ stream \in 0..MaxStreams /\ lastSeen \in Int
  /\ queue \in Seq(Record) /\ Len(queue) <= QueueMax
WriterTyped == books \in GoodBooks /\ job \in Jobs /\ lastBucket \in -1..MaxBucket
LoopTyped ==
  /\ phase \in Phases /\ gap \in Gaps /\ src \in Sources /\ link \in Nat
  /\ link # 0 => phase = "run"
GhostTyped == accepted \subseteq Record /\ ends \in 0..MaxEnds /\ cut \in BOOLEAN
FlushTyped == job.all => phase \in Flushing

LEMMA TypeInvIs ==
  /\ TypeInv <=> MarketTyped /\ DiskTyped /\ IngestTyped /\ WriterTyped /\ LoopTyped
                 /\ GhostTyped /\ FlushTyped
  /\ TypeInv' <=> MarketTyped' /\ DiskTyped' /\ IngestTyped' /\ WriterTyped' /\ LoopTyped'
                 /\ GhostTyped' /\ FlushTyped'
BY DEF TypeInv, TypeOK, MarketTyped, DiskTyped, IngestTyped, WriterTyped, LoopTyped,
       GhostTyped, FlushTyped, GoodBooks, Jobs, Phases, Checkpoints, Gaps, Sources

LEMMA TypedSame ==
  /\ TypeInv /\ UNCHANGED market => MarketTyped'
  /\ TypeInv /\ UNCHANGED disk => DiskTyped'
  /\ TypeInv /\ UNCHANGED ingest => IngestTyped'
  /\ TypeInv /\ UNCHANGED writer => WriterTyped'
  /\ TypeInv /\ UNCHANGED loop => LoopTyped'
  /\ TypeInv /\ UNCHANGED ghost => GhostTyped'
BY TypeInvIs DEF MarketTyped, DiskTyped, IngestTyped, WriterTyped, LoopTyped, GhostTyped, Streams,
       market, disk, ingest, writer, loop, ghost

-------------------------------------------------------------------------------
(* Records with some fields replaced.                                          *)
LEMMA CheckpointWith ==
  ASSUME NEW k \in Checkpoints, NEW s \in 0..MaxStreams, NEW m \in Int
  PROVE  [k EXCEPT !.stream = s, !.acc = m, !.mat = m] \in Checkpoints
<1> DEFINE bs == -1..MaxBucket
<1>1. k \in [stream : 0..MaxStreams, acc : Int, mat : Int, bucket : bs]
  BY DEF Checkpoints
<1> HIDE DEF bs
<1>2. [k EXCEPT !.stream = s, !.acc = m, !.mat = m]
        \in [stream : 0..MaxStreams, acc : Int, mat : Int, bucket : bs]
  BY <1>1
<1> QED
  BY <1>2 DEF Checkpoints, bs

LEMMA GapWith ==
  ASSUME NEW g \in Gaps, NEW s \in 0..MaxStreams, NEW m \in Nat, NEW u \in -1..MaxBucket
  PROVE  /\ [g EXCEPT !.stream = s, !.latest = m] \in Gaps
         /\ [g EXCEPT !.next = m, !.until = u] \in Gaps
<1> DEFINE bs == -1..MaxBucket
           ss == 0..MaxStreams
<1>1. g \in [stream : ss, latest : Nat, next : Nat, until : bs]
  BY DEF Gaps
<1> HIDE DEF bs, ss
<1>2. /\ [g EXCEPT !.stream = s, !.latest = m] \in [stream : {s}, latest : {m}, next : Nat, until : bs]
      /\ [g EXCEPT !.next = m, !.until = u] \in [stream : ss, latest : Nat, next : {m}, until : {u}]
  BY <1>1
<1> QED
  BY <1>2 DEF Gaps, bs, ss

LEMMA CursorsWith ==
  ASSUME NEW c \in Cursors, NEW m \in Int, NEW h \in Int
  PROVE  /\ [c EXCEPT !.acc = m] \in Cursors
         /\ [c EXCEPT !.high = h, !.mat = m] \in Cursors
BY DEF Cursors

LEMMA MarketTypes ==
  ASSUME TypeInv, MarketStep PROVE TypeInv'
<1>1. MarketTyped /\ LoopTyped /\ FlushTyped /\ MaxBucket \in Nat
  BY TypeInvIs, BucketsAre
<1>2. ASSUME NEW n \in 1..2, Publish(n) PROVE TypeInv'
  <2> DEFINE last == hub.next + n - 1
             b == [first |-> hub.next, last |-> last]
  <2>1. hub.next \in 0..MaxBucket /\ last \in 0..MaxBucket /\ b \in Batch
    BY <1>1, <1>2 DEF Publish, MarketTyped, Batch, Buckets
  <2>2. hub' = [hub EXCEPT !.log = Append(hub.log, b), !.next = last + 1]
    BY <1>2 DEF Publish
  <2>3. pg' \in -1..MaxBucket
    <3>1. PICK d \in Int : d = last - MaxLag /\ d <= MaxBucket
      BY <1>1, <2>1, BoundsAre DEF MarketTyped
    <3>2. pg \in Int /\ pg >= -1 /\ pg <= MaxBucket
      BY <1>1 DEF MarketTyped
    <3>3. pg' = Larger(pg, d)
      BY <1>2, <3>1 DEF Publish
    <3>4. pg' \in {pg, d} /\ pg' >= pg
      BY <3>2, <3>3, LargerIs
    <3> QED
      BY <1>1, <3>1, <3>2, <3>4
  <2>4. last + 1 \in 0..MaxBucket + 1
    BY <1>1, <2>1
  <2> DEFINE log == Append(hub.log, b)
             next == last + 1
  <2>6. log \in Seq(Batch)
    BY <1>1, <2>1 DEF MarketTyped
  <2> HIDE DEF last, b, log, next
  <2>7. [hub EXCEPT !.log = log, !.next = next]
          \in [stream : 1..MaxStreams, log : Seq(Batch), next : 0..MaxBucket + 1]
    BY <1>1, <2>4, <2>6 DEF MarketTyped, next
  <2>8. hub' = [hub EXCEPT !.log = log, !.next = next]
    BY <2>2 DEF log, next
  <2>5. MarketTyped'
    BY <2>3, <2>7, <2>8 DEF MarketTyped
  <2>9. UNCHANGED <<disk, ingest, writer, loop, ghost>>
    BY <1>2 DEF Publish
  <2>10. FlushTyped'
    BY <1>1, <2>9 DEF FlushTyped, writer, loop
  <2> QED
    BY <2>5, <2>9, <2>10, TypeInvIs, TypedSame
<1>3. CASE Persist
  <2>1. MarketTyped'
    BY <1>1, <1>3 DEF Persist, MarketTyped
  <2>2. UNCHANGED <<disk, ingest, writer, loop, ghost>>
    BY <1>3 DEF Persist
  <2>3. FlushTyped'
    BY <1>1, <2>2 DEF FlushTyped, writer, loop
  <2> QED
    BY <2>1, <2>2, <2>3, TypeInvIs, TypedSame
<1>4. CASE HubRestart
  <2>3. hub.stream + 1 \in 1..MaxStreams
    <3>1. hub.stream \in 1..MaxStreams
      BY <1>1 DEF MarketTyped
    <3>2. hub.stream < MaxStreams
      BY <1>4 DEF HubRestart
    <3> QED
      BY <3>1, <3>2, BoundsAre
  <2> DEFINE s == hub.stream + 1
             nexts == 0..MaxBucket + 1
             streams == 1..MaxStreams
             none == <<>>
  <2>4. hub' = [hub EXCEPT !.stream = s, !.log = none] /\ s \in streams /\ none \in Seq(Batch)
    BY <1>4, <2>3 DEF HubRestart
  <2>5. hub \in [stream : streams, log : Seq(Batch), next : nexts]
    BY <1>1 DEF MarketTyped
  <2> HIDE DEF s, nexts, streams, none
  <2>6. [hub EXCEPT !.stream = s, !.log = none] \in [stream : streams, log : Seq(Batch), next : nexts]
    BY <2>4, <2>5
  <2>1. MarketTyped'
    <3>1. hub' \in [stream : 1..MaxStreams, log : Seq(Batch), next : 0..MaxBucket + 1]
      BY <2>4, <2>6 DEF nexts, streams
    <3>2. pg' = pg
      BY <1>4 DEF HubRestart
    <3> QED
      BY <1>1, <3>1, <3>2 DEF MarketTyped
  <2>2. LoopTyped'
    BY <1>1, <1>4 DEF HubRestart, LoopTyped
  <2>7. /\ UNCHANGED <<disk, ingest, writer, ghost>>
        /\ phase' = phase
    BY <1>4 DEF HubRestart
  <2>8. FlushTyped'
    BY <1>1, <1>4, <2>7 DEF HubRestart, FlushTyped, writer
  <2>9. DiskTyped' /\ IngestTyped' /\ WriterTyped' /\ GhostTyped'
    BY <2>7, TypedSame
  <2> QED
    BY <2>1, <2>2, <2>8, <2>9, TypeInvIs
<1> QED
  BY <1>2, <1>3, <1>4 DEF MarketStep

LEMMA SourceTypes ==
  ASSUME TypeInv, SourceStep PROVE TypeInv'
<1>1. MarketTyped /\ LoopTyped /\ FlushTyped
  BY TypeInvIs
<1>2. Latest \in Nat
  BY <1>1 DEF MarketTyped, Latest
<1>3. CASE Connects
  <2>1. hub.stream \in 0..MaxStreams /\ src.seq \in Int /\ (src.seq = NoSeq \/ src.seq \in Nat)
    BY <1>1, <1>2, <1>3, BoundsAre DEF Connects, MarketTyped, LoopTyped, Sources, ReplayAvailable,
       Oldest, Larger, NoSeq
  <2>2. link' \in Nat /\ src' \in Sources
    BY <1>1, <1>2, <1>3, <2>1 DEF Connects, LoopTyped, Sources
  <2>3. LoopTyped'
    BY <1>1, <1>3, <2>2 DEF Connects, LoopTyped
  <2> QED
    BY <1>1, <1>3, <2>3, TypeInvIs, TypedSame DEF Connects, FlushTyped, writer
<1>4. CASE Drops
  <2>1. LoopTyped'
    BY <1>1, <1>4 DEF Drops, LoopTyped
  <2> QED
    BY <1>1, <1>4, <2>1, TypeInvIs, TypedSame DEF Drops, FlushTyped, writer
<1>5. CASE ReplayUnavailable
  <2>1. hub.stream \in 0..MaxStreams
    BY <1>1 DEF MarketTyped
  <2>2. gap' \in Gaps
    <3>1. NoGap \in Gaps /\ 0 \in -1..MaxBucket
      BY BoundsAre, BucketsAre DEF Gaps, NoGap, NoStream
    <3> QED
      BY <1>2, <1>5, <2>1, <3>1, GapWith DEF ReplayUnavailable
  <2>3. LoopTyped' /\ FlushTyped'
    BY <1>1, <1>5, <2>2 DEF ReplayUnavailable, LoopTyped, Phases, FlushTyped, Flushing, writer
  <2> QED
    BY <1>1, <1>5, <2>3, TypeInvIs, TypedSame DEF ReplayUnavailable
<1> QED
  BY <1>3, <1>4, <1>5 DEF SourceStep

LEMMA JournalTypes ==
  ASSUME TypeInv, NEW r \in Record, r.stream \in 0..MaxStreams, Journal(r)
  PROVE  /\ files' \subseteq Record /\ IsFiniteSet(files') /\ Streams(files')
         /\ pend' \subseteq Record /\ IsFiniteSet(pend') /\ cur' \in Cursors
         /\ queue' \in Seq(Record) /\ Len(queue') <= QueueMax /\ Len(queue') = Len(queue) + 1
         /\ accepted' \subseteq Record
<1>1. DiskTyped /\ IngestTyped /\ GhostTyped
  BY TypeInvIs
<1>2. IsFiniteSet(files') /\ IsFiniteSet(pend')
  BY <1>1, FS_AddElement DEF Journal, DiskTyped, IngestTyped
<1>5. Streams(files')
  BY <1>1 DEF Journal, DiskTyped, Streams
<1>3. cur' \in Cursors
  <2>1. cur \in Cursors /\ cur.acc \in Int /\ r.seq \in Int
    BY <1>1, RecordsAre DEF IngestTyped, Cursors
  <2>2. Larger(cur.acc, r.seq) \in Int
    BY <2>1, LargerIs
  <2> QED
    BY <2>1, <2>2, CursorsWith DEF Journal, Accepted
<1>4. queue' \in Seq(Record) /\ Len(queue') = Len(queue) + 1 /\ Len(queue') <= QueueMax
  BY <1>1, BoundsAre DEF Journal, HasRoom, IngestTyped
<1> QED
  BY <1>1, <1>2, <1>3, <1>4, <1>5 DEF Journal, DiskTyped, IngestTyped, GhostTyped

LEMMA ArrivedIs ==
  ASSUME TypeInv, Delivered
  PROVE  /\ Arrived \in Batch /\ ArrivedRecord \in Record
         /\ ArrivedRecord.stream \in 0..MaxStreams
         /\ link \in Nat /\ phase = "run" /\ hub.stream \in 1..MaxStreams
<1>1. MarketTyped /\ LoopTyped
  BY TypeInvIs
<1>2. link \in Nat /\ phase = "run" /\ Arrived \in Batch /\ hub.stream \in 1..MaxStreams
  BY <1>1 DEF MarketTyped, LoopTyped, Delivered, Latest, Arrived
<1>3. Arrived.last \in Buckets /\ Rows(Arrived) \subseteq Buckets
  BY <1>2, SelectedAssumption DEF Batch, Rows
<1>4. ArrivedRecord \in Record
  BY <1>2, <1>3, BoundsAre DEF ArrivedRecord, HubRecord, Record, Kinds
<1>5. ArrivedRecord.stream \in 0..MaxStreams
  BY <1>2, BoundsAre DEF ArrivedRecord, HubRecord
<1> QED
  BY <1>2, <1>4, <1>5

LEMMA IngestTypes ==
  ASSUME TypeInv, IngestStep PROVE TypeInv'
<1>1. DiskTyped /\ IngestTyped /\ LoopTyped /\ FlushTyped /\ GhostTyped
  BY TypeInvIs
<1>2. CASE IngestNew
  <2>1. Delivered /\ Journal(ArrivedRecord)
    BY <1>2 DEF IngestNew
  <2>2. /\ ArrivedRecord \in Record /\ ArrivedRecord.stream \in 0..MaxStreams
        /\ link \in Nat /\ phase = "run" /\ hub.stream \in 0..MaxStreams
    BY <2>1, ArrivedIs
  <2>3. /\ files' \subseteq Record /\ IsFiniteSet(files') /\ Streams(files')
        /\ pend' \subseteq Record /\ IsFiniteSet(pend') /\ cur' \in Cursors
        /\ queue' \in Seq(Record) /\ Len(queue') <= QueueMax /\ accepted' \subseteq Record
    BY <2>1, <2>2, JournalTypes
  <2>4. DiskTyped' /\ IngestTyped' /\ GhostTyped'
    BY <1>1, <1>2, <2>2, <2>3 DEF IngestNew, DiskTyped, IngestTyped, GhostTyped
  <2>5. LoopTyped' /\ FlushTyped'
    BY <1>1, <1>2, <2>2 DEF IngestNew, LoopTyped, Sources, FlushTyped, writer
  <2> QED
    BY <1>2, <2>4, <2>5, TypeInvIs, TypedSame DEF IngestNew
<1>3. CASE IngestKnown
  <2>1. link \in Nat /\ phase = "run"
    BY <1>3, ArrivedIs DEF IngestKnown
  <2>2. LoopTyped' /\ FlushTyped'
    BY <1>1, <1>3, <2>1 DEF IngestKnown, LoopTyped, Sources, FlushTyped, writer
  <2> QED
    BY <1>3, <2>2, TypeInvIs, TypedSame DEF IngestKnown
<1>4. CASE IngestPaused
  <2>1. LoopTyped' /\ FlushTyped'
    BY <1>1, <1>4 DEF IngestPaused, LoopTyped, Phases, FlushTyped, Flushing, writer
  <2> QED
    BY <1>4, <2>1, TypeInvIs, TypedSame DEF IngestPaused
<1> QED
  BY <1>2, <1>3, <1>4 DEF IngestStep

LEMMA GapTypes ==
  ASSUME TypeInv, GapStep PROVE TypeInv'
<1>1. /\ DiskTyped /\ IngestTyped /\ LoopTyped /\ FlushTyped /\ GhostTyped /\ MarketTyped
      /\ MaxBucket \in Nat
  BY TypeInvIs, BucketsAre
<1>2. CASE PlanBackfill
  <2>1. gap' \in Gaps
    <3>1. ckpt.bucket + 1 \in Nat /\ pg \in -1..MaxBucket /\ gap \in Gaps
      BY <1>1 DEF LoopTyped, DiskTyped, Checkpoints, MarketTyped
    <3>2. 0 \in 0..MaxStreams
      BY BoundsAre
    <3> QED
      BY <1>2, <3>1, <3>2, GapWith DEF PlanBackfill
  <2>2. LoopTyped' /\ FlushTyped'
    BY <1>1, <1>2, <2>1 DEF PlanBackfill, LoopTyped, Phases, FlushTyped, Flushing, writer
  <2> QED
    BY <1>2, <2>2, TypeInvIs, TypedSame DEF PlanBackfill
<1>3. CASE Backfill
  <2>1. gap.next \in Buckets /\ gap.next \in Nat
    BY <1>1, <1>3 DEF Backfill, LoopTyped, Gaps, Buckets
  <2>2. BackfillBatch \in Record /\ BackfillBatch.stream \in 0..MaxStreams
    BY <2>1, BoundsAre DEF BackfillBatch, BackfillRecord, Record, Kinds, NoStream
  <2>3. /\ files' \subseteq Record /\ IsFiniteSet(files') /\ Streams(files')
        /\ pend' \subseteq Record /\ IsFiniteSet(pend') /\ cur' \in Cursors
        /\ queue' \in Seq(Record) /\ Len(queue') <= QueueMax /\ accepted' \subseteq Record
    BY <1>3, <2>2, JournalTypes DEF Backfill
  <2>4. DiskTyped' /\ IngestTyped' /\ GhostTyped'
    BY <1>1, <1>3, <2>3 DEF Backfill, DiskTyped, IngestTyped, GhostTyped
  <2>5. gap' \in Gaps
    BY <1>1, <1>3, <2>1 DEF Backfill, LoopTyped, Gaps
  <2>6. LoopTyped' /\ FlushTyped'
    BY <1>1, <1>3, <2>5 DEF Backfill, LoopTyped, FlushTyped, writer
  <2> QED
    BY <1>3, <2>4, <2>6, TypeInvIs, TypedSame DEF Backfill
<1>4. CASE Backfilled
  <2>1. LoopTyped' /\ FlushTyped'
    BY <1>1, <1>4 DEF Backfilled, LoopTyped, Phases, FlushTyped, Flushing, writer
  <2> QED
    BY <1>4, <2>1, TypeInvIs, TypedSame DEF Backfilled
<1>5. CASE ResumeFromHub
  <2>1. gap.stream \in 0..MaxStreams /\ gap.latest \in Nat
    BY <1>1 DEF LoopTyped, Gaps
  <2>2. IngestTyped'
    BY <1>1, <1>5, <2>1 DEF ResumeFromHub, IngestTyped, CursorsAt, Cursors
  <2>3. DiskTyped'
    <3>1. ckpt' \in Checkpoints
      <4>1. ckpt' = [ckpt EXCEPT !.stream = gap.stream, !.acc = gap.latest, !.mat = gap.latest]
        BY <1>5 DEF ResumeFromHub
      <4>2. ckpt \in Checkpoints /\ gap.latest \in Int
        BY <1>1, <2>1 DEF DiskTyped
      <4> QED
        BY <2>1, <4>1, <4>2, CheckpointWith
    <3> QED
      BY <1>1, <1>5, <3>1 DEF ResumeFromHub, DiskTyped
  <2>4. NoGap \in Gaps
    BY <1>1, BoundsAre DEF NoGap, Gaps, NoStream
  <2>5. LoopTyped' /\ FlushTyped'
    BY <1>1, <1>5, <2>1, <2>4 DEF ResumeFromHub, LoopTyped, Sources, Phases, FlushTyped,
       Flushing, writer
  <2> QED
    BY <1>5, <2>2, <2>3, <2>5, TypeInvIs, TypedSame DEF ResumeFromHub
<1> QED
  BY <1>2, <1>3, <1>4, <1>5 DEF GapStep

-------------------------------------------------------------------------------
(* A job with some fields replaced, field by field.                            *)
Steps == {"idle", "stage", "write", "manifest", "unlink", "save"}
JobIs(j, st, t, w, k, rs, al, l) ==
  j \in [step : {st}, todo : {t}, windows : {w}, keys : {k}, receipts : {rs},
         all : {al}, latest : {l}]

JobGood(st, t, w, k, rs, al, l) ==
  /\ st \in Steps /\ t \in Seq(Record) /\ w \subseteq Windows /\ k \subseteq Key
  /\ rs \subseteq Record /\ al \in BOOLEAN /\ l \in -1..MaxBucket

LEMMA JobFields ==
  ASSUME NEW j, NEW st, NEW t, NEW w, NEW k, NEW rs, NEW al, NEW l,
         JobIs(j, st, t, w, k, rs, al, l)
  PROVE  /\ j.step = st /\ j.todo = t /\ j.windows = w /\ j.keys = k
         /\ j.receipts = rs /\ j.all = al /\ j.latest = l
         /\ JobGood(st, t, w, k, rs, al, l) => j \in Jobs
<1>1. /\ j.step = st /\ j.todo = t /\ j.windows = w /\ j.keys = k
      /\ j.receipts = rs /\ j.all = al /\ j.latest = l
  BY DEF JobIs
<1>2. ASSUME JobGood(st, t, w, k, rs, al, l) PROVE j \in Jobs
  <2> DEFINE ls == -1..MaxBucket
  <2> HIDE DEF ls
  <2>1. j \in [step : Steps, todo : Seq(Record), windows : SUBSET Windows, keys : SUBSET Key,
               receipts : SUBSET Record, all : BOOLEAN, latest : ls]
    BY <1>2 DEF JobIs, JobGood, ls
  <2> QED
    BY <2>1 DEF Jobs, ls, Steps
<1> QED
  BY <1>1, <1>2

LEMMA IdleFields ==
  /\ IdleJob.step = "idle" /\ IdleJob.todo = <<>> /\ IdleJob.windows = {} /\ IdleJob.keys = {}
  /\ IdleJob.receipts = {} /\ IdleJob.all = FALSE /\ IdleJob.latest = -1
  /\ IdleJob \in Jobs
BY BucketsAre DEF IdleJob, Jobs

LEMMA JobWith ==
  ASSUME NEW j \in Jobs, NEW st, NEW t, NEW w, NEW k, NEW rs, NEW l
  PROVE  /\ JobIs([j EXCEPT !.step = st], st, j.todo, j.windows, j.keys, j.receipts,
                  j.all, j.latest)
         /\ JobIs([j EXCEPT !.step = st, !.windows = w], st, j.todo, w, j.keys, j.receipts,
                  j.all, j.latest)
         /\ JobIs([j EXCEPT !.step = st, !.todo = t], st, t, j.windows, j.keys, j.receipts,
                  j.all, j.latest)
         /\ JobIs([j EXCEPT !.todo = t, !.latest = l], j.step, t, j.windows, j.keys, j.receipts,
                  j.all, l)
         /\ JobIs([j EXCEPT !.windows = w, !.keys = k], j.step, j.todo, w, k, j.receipts,
                  j.all, j.latest)
         /\ JobIs([j EXCEPT !.receipts = rs, !.step = st], st, j.todo, j.windows, j.keys, rs,
                  j.all, j.latest)
         /\ JobIs([j EXCEPT !.step = st, !.all = TRUE], st, j.todo, j.windows, j.keys, j.receipts,
                  TRUE, j.latest)
         /\ JobIs([j EXCEPT !.step = st, !.windows = w, !.all = TRUE], st, j.todo, w, j.keys,
                  j.receipts, TRUE, j.latest)
<1> DEFINE ls == -1..MaxBucket
<1>1. j \in [step : Steps, todo : Seq(Record), windows : SUBSET Windows, keys : SUBSET Key,
             receipts : SUBSET Record, all : BOOLEAN, latest : ls]
  BY DEF Jobs, Steps
<1> HIDE DEF ls
<1> QED
  BY <1>1 DEF JobIs

-------------------------------------------------------------------------------
(* What the steps of the writer make of the job.                               *)
NextLatest == Max(Head(job.todo).rows \cup {job.latest})
LEMMA FlushAllJob ==
  ASSUME FlushAll
  PROVE  /\ JobIs(job', "write", <<>>, books.open, {}, {}, TRUE, -1)
         /\ job'.step = "write" /\ job'.todo = <<>> /\ job'.windows = books.open
         /\ job'.keys = {} /\ job'.receipts = {} /\ job'.latest = -1 /\ job'.all
<1> DEFINE w == books.open
<1>1. job' = [step |-> "write", todo |-> <<>>, windows |-> w, keys |-> {},
              receipts |-> {}, all |-> TRUE, latest |-> -1]
  BY DEF FlushAll, IdleJob
<1> HIDE DEF w
<1>2. JobIs(job', "write", <<>>, w, {}, {}, TRUE, -1)
  BY <1>1 DEF JobIs
<1>3. /\ job'.step = "write" /\ job'.todo = <<>> /\ job'.windows = w
      /\ job'.keys = {} /\ job'.receipts = {} /\ job'.latest = -1 /\ job'.all
  BY <1>1
<1> QED
  BY <1>2, <1>3 DEF w

LEMMA JobSteps ==
  ASSUME TypeInv
  PROVE
    /\ WorkerTakes => JobIs(job', "stage", queue, {}, {}, {}, FALSE, -1)
    /\ StageNext => JobIs(job', "stage", Tail(job.todo), job.windows, job.keys, job.receipts,
                          job.all, NextLatest)
    /\ Staged => \/ /\ job.latest = -1
                    /\ JobIs(job', "save", job.todo, job.windows, job.keys, job.receipts,
                             job.all, job.latest)
                 \/ JobIs(job', "write", job.todo, ReadyWindows(books, job.latest), job.keys,
                          job.receipts, job.all, job.latest)
    /\ FlushAll => JobIs(job', "write", <<>>, books.open, {}, {}, TRUE, -1)
    /\ WriteWindow => LET w == Min(job.windows)
                      IN JobIs(job', "write", job.todo, job.windows \ {w},
                               job.keys \cup KeysIn(books, w), job.receipts, job.all, job.latest)
    /\ Resolve => LET done == Ready(books, job.keys, job.all)
                  IN JobIs(job', IF done = {} THEN "save" ELSE "manifest", job.todo, job.windows,
                           job.keys, done, job.all, job.latest)
    /\ WriteManifest => JobIs(job', "unlink", job.todo, job.windows, job.keys, job.receipts,
                              job.all, job.latest)
    /\ \A r \in job.receipts : Unlink(r) =>
         JobIs(job', IF job.receipts = {r} THEN "save" ELSE "unlink", job.todo, job.windows,
               job.keys, job.receipts \ {r}, job.all, job.latest)
    /\ SaveCheckpoint => job' = IdleJob
<1>1. job \in Jobs
  BY TypeInvIs DEF WriterTyped
<1>2. ASSUME WorkerTakes PROVE JobIs(job', "stage", queue, {}, {}, {}, FALSE, -1)
  <2>1. job' = [step |-> "stage", todo |-> queue, windows |-> {}, keys |-> {},
                receipts |-> {}, all |-> FALSE, latest |-> -1]
    BY <1>2 DEF WorkerTakes, IdleJob
  <2> QED
    BY <2>1 DEF JobIs
<1>3. ASSUME StageNext
      PROVE  JobIs(job', "stage", Tail(job.todo), job.windows, job.keys, job.receipts,
                   job.all, NextLatest)
  BY <1>1, <1>3, JobWith DEF StageNext, NextLatest
<1>4. ASSUME Staged
      PROVE  \/ /\ job.latest = -1
                /\ JobIs(job', "save", job.todo, job.windows, job.keys, job.receipts,
                         job.all, job.latest)
             \/ JobIs(job', "write", job.todo, ReadyWindows(books, job.latest), job.keys,
                      job.receipts, job.all, job.latest)
  BY <1>1, <1>4, JobWith DEF Staged
<1>5. FlushAll => JobIs(job', "write", <<>>, books.open, {}, {}, TRUE, -1)
  BY FlushAllJob
<1>6. ASSUME WriteWindow
      PROVE  JobIs(job', "write", job.todo, job.windows \ {Min(job.windows)},
                   job.keys \cup KeysIn(books, Min(job.windows)), job.receipts, job.all, job.latest)
  <2> DEFINE ws == job.windows \ {Min(job.windows)}
             ks == job.keys \cup KeysIn(books, Min(job.windows))
  <2>1. job' = [job EXCEPT !.windows = ws, !.keys = ks] /\ job.step = "write"
    BY <1>6 DEF WriteWindow
  <2> HIDE DEF ws, ks
  <2>2. JobIs(job', job.step, job.todo, ws, ks, job.receipts, job.all, job.latest)
    BY <1>1, <2>1, JobWith
  <2> QED
    BY <2>1, <2>2 DEF ws, ks
<1>7. ASSUME Resolve
      PROVE  JobIs(job', IF Ready(books, job.keys, job.all) = {} THEN "save" ELSE "manifest",
                   job.todo, job.windows, job.keys, Ready(books, job.keys, job.all), job.all,
                   job.latest)
  BY <1>1, <1>7, JobWith DEF Resolve
<1>8. WriteManifest => JobIs(job', "unlink", job.todo, job.windows, job.keys, job.receipts,
                             job.all, job.latest)
  BY <1>1, JobWith DEF WriteManifest
<1>9. ASSUME NEW r \in job.receipts, Unlink(r)
      PROVE  JobIs(job', IF job.receipts = {r} THEN "save" ELSE "unlink", job.todo, job.windows,
                   job.keys, job.receipts \ {r}, job.all, job.latest)
  BY <1>1, <1>9, JobWith DEF Unlink
<1>10. SaveCheckpoint => job' = IdleJob
  BY DEF SaveCheckpoint
<1> QED
  BY <1>2, <1>3, <1>4, <1>5, <1>6, <1>7, <1>8, <1>9, <1>10

LEMMA NextLatestIs ==
  ASSUME TypeInv, job.todo # <<>>
  PROVE  /\ Head(job.todo) \in Record /\ Tail(job.todo) \in Seq(Record)
         /\ NextLatest \in -1..MaxBucket
<1>1. job \in Jobs /\ MaxBucket \in Nat
  BY TypeInvIs, BucketsAre DEF WriterTyped
<1>2. job.todo \in Seq(Record) /\ job.latest \in -1..MaxBucket
  BY <1>1 DEF Jobs
<1>3. Head(job.todo) \in Record /\ Tail(job.todo) \in Seq(Record)
  BY <1>2
<1> DEFINE S == Head(job.todo).rows
<1>4. S \subseteq Buckets /\ S \subseteq Int /\ IsFiniteSet(S)
  BY <1>3, RecordsAre, BucketsAre, FS_Subset
<1> HIDE DEF S
<1>8. PICK l \in Int : l = job.latest
  BY <1>1, <1>2
<1>9. Max(S \cup {l}) \in S \cup {l}
  BY <1>4, MaxWith
<1>5. Max(S \cup {job.latest}) \in S \cup {job.latest}
  BY <1>8, <1>9
<1>6. \A b \in Buckets : b \in -1..MaxBucket
  BY <1>1 DEF Buckets
<1>7. Max(S \cup {job.latest}) \in -1..MaxBucket
  BY <1>2, <1>4, <1>5, <1>6
<1> QED
  BY <1>3, <1>7 DEF NextLatest, S

-------------------------------------------------------------------------------
LEMMA SeqsAre ==
  ASSUME NEW S, S \subseteq Record, IsFiniteSet(S), NEW s
  PROVE  SeqsOf(S, s) \subseteq Nat /\ IsFiniteSet(SeqsOf(S, s))
<1> DEFINE P == {x \in S : InStream(x, s)}
           f == [x \in P |-> x.seq]
<1>1. IsFiniteSet(P)
  BY FS_Subset
<1>2. SeqsOf(S, s) = {f[x] : x \in P}
  BY DEF SeqsOf
<1>3. \A x \in P : x.seq \in Nat
  BY RecordsAre
<1>4. SeqsOf(S, s) \subseteq Nat
  BY <1>3 DEF SeqsOf
<1>5. IsFiniteSet({f[x] : x \in P})
  <2> HIDE DEF f, P
  <2> QED
    BY <1>1, ImageIsFinite
<1> QED
  BY <1>2, <1>4, <1>5

(* What commit_materialization makes of the cursors; it never lowers one.      *)
CommittedAs(n, c, s, p, d) ==
  /\ n \in Cursors /\ n.acc = c.acc /\ n.high >= c.high /\ n.mat >= c.mat
  /\ SeqsOf(d, s) = {} => n = c
  /\ \A x \in SeqsOf(d, s) : n.high >= x
  /\ n.high \in SeqsOf(d, s) \cup {c.high}
  /\ SeqsOf(d, s) # {} =>
       /\ SeqsOf(p \ d, s) = {} => n.mat = Larger(c.mat, n.high)
       /\ SeqsOf(p \ d, s) # {} => n.mat = Larger(c.mat, Min(SeqsOf(p \ d, s)) - 1)

LEMMA CommittedIs ==
  ASSUME NEW c \in Cursors, NEW s, NEW p, p \subseteq Record, IsFiniteSet(p),
         NEW d, d \subseteq Record, IsFiniteSet(d)
  PROVE  CommittedAs(Committed(c, s, p, d), c, s, p, d)
<1> DEFINE done == SeqsOf(d, s)
           left == SeqsOf(p \ d, s)
           high == Max(done \cup {c.high})
           low  == IF left = {} THEN high ELSE Min(left) - 1
           mat  == Larger(c.mat, low)
           n == Committed(c, s, p, d)
<1>1. c.high \in Int /\ c.mat \in Int /\ c.acc \in Int
  BY DEF Cursors
<1>2. /\ done \subseteq Int /\ IsFiniteSet(done)
      /\ left \subseteq Int /\ IsFiniteSet(left)
  <2>1. p \ d \subseteq Record /\ IsFiniteSet(p \ d)
    BY FS_Difference
  <2> QED
    BY <2>1, SeqsAre
<1>3. high \in Int /\ high \in done \cup {c.high} /\ \A y \in done \cup {c.high} : high >= y
  <2> HIDE DEF done
  <2>1. PICK h \in Int : h = c.high
    BY <1>1
  <2>2. /\ Max(done \cup {h}) \in Int /\ Max(done \cup {h}) \in done \cup {h}
        /\ \A y \in done \cup {h} : Max(done \cup {h}) >= y
    BY <1>2, MaxWith
  <2> QED
    BY <2>1, <2>2
<1>4. low \in Int
  <2> HIDE DEF left, high
  <2>1. left # {} => Min(left) \in Int
    BY <1>2, MinIs
  <2> QED
    BY <1>3, <2>1
<1> HIDE DEF low
<1>5. mat \in Int /\ mat >= c.mat
  BY <1>1, <1>4, LargerIs
<1>6. n = IF done = {} THEN c ELSE [c EXCEPT !.high = high, !.mat = mat]
  BY DEF Committed, low
<1> DEFINE Goal ==
             /\ n \in Cursors /\ n.acc = c.acc /\ n.high >= c.high /\ n.mat >= c.mat
             /\ done = {} => n = c
             /\ \A x \in done : n.high >= x
             /\ n.high \in done \cup {c.high}
             /\ done # {} =>
                  /\ left = {} => n.mat = Larger(c.mat, n.high)
                  /\ left # {} => n.mat = Larger(c.mat, Min(left) - 1)
<1> SUFFICES Goal
  BY DEF CommittedAs
<1> HIDE DEF n, high, mat
<1>7. CASE done = {}
  BY <1>1, <1>6, <1>7
<1>8. CASE done # {}
  <2>1. n \in Cursors /\ n.acc = c.acc /\ n.high = high /\ n.mat = mat
    BY <1>3, <1>5, <1>6, <1>8 DEF Cursors
  <2>2. mat = Larger(c.mat, IF left = {} THEN n.high ELSE Min(left) - 1)
    BY <2>1 DEF mat, low
  <2> QED
    BY <1>3, <1>5, <1>8, <2>1, <2>2
<1> QED
  BY <1>7, <1>8

LEMMA FirstWindow ==
  ASSUME TypeInv, WriteWindow PROVE Min(job.windows) \in job.windows
<1>1. job.windows \subseteq Windows /\ job.windows # {}
  BY TypeInvIs DEF WriterTyped, Jobs, WriteWindow
<1>2. job.windows \subseteq Int /\ IsFiniteSet(job.windows)
  BY <1>1, BucketsAre, FS_Subset
<1> DEFINE W == job.windows
<1>3. Min(W) \in W
  <2> HIDE DEF W
  <2> SUFFICES ASSUME W # {}, W \subseteq Int, IsFiniteSet(W) PROVE Min(W) \in W
    BY <1>1, <1>2 DEF W
  <2> QED
    BY MinIs
<1> QED
  BY <1>3

LEMMA WriterTypes ==
  ASSUME TypeInv, WriterStep PROVE TypeInv'
<1>1. /\ DiskTyped /\ IngestTyped /\ LoopTyped /\ FlushTyped /\ GhostTyped /\ WriterTyped
      /\ MaxBucket \in Nat
  BY TypeInvIs, BucketsAre
<1>2. /\ job.step \in Steps /\ job.todo \in Seq(Record) /\ job.windows \subseteq Windows
      /\ job.keys \subseteq Key /\ job.receipts \subseteq Record /\ job.all \in BOOLEAN
      /\ job.latest \in -1..MaxBucket /\ books \in GoodBooks /\ books \in Books
      /\ books.open \subseteq Windows
  BY <1>1, BooksAre DEF WriterTyped, Jobs, Steps, GoodBooks
<1>3. CASE WorkerTakes
  <2>1. job' \in Jobs /\ job'.all = FALSE
    <3>1. JobIs(job', "stage", queue, {}, {}, {}, FALSE, -1)
      BY <1>3, JobSteps
    <3>2. JobGood("stage", queue, {}, {}, {}, FALSE, -1)
      BY <1>1 DEF IngestTyped, JobGood, Steps
    <3> QED
      BY <3>1, <3>2, JobFields
  <2>2. WriterTyped' /\ IngestTyped'
    BY <1>1, <1>3, <2>1, BoundsAre DEF WorkerTakes, WriterTyped, IngestTyped
  <2> QED
    BY <1>1, <1>3, <2>1, <2>2, TypeInvIs, TypedSame DEF WorkerTakes, FlushTyped
<1>4. CASE StageNext
  <2>1. job.todo # <<>>
    BY <1>4 DEF StageNext
  <2>2. job' \in Jobs /\ job'.all = job.all
    <3>1. JobIs(job', "stage", Tail(job.todo), job.windows, job.keys, job.receipts, job.all,
                NextLatest)
      BY <1>4, JobSteps
    <3>2. JobGood("stage", Tail(job.todo), job.windows, job.keys, job.receipts, job.all,
                  NextLatest)
      BY <1>2, <2>1, NextLatestIs DEF JobGood, Steps
    <3> QED
      BY <3>1, <3>2, JobFields
  <2>3. books' \in GoodBooks
    <3>1. Head(job.todo) \in Record /\ archive \in [Buckets -> Version]
      BY <1>1, <2>1, NextLatestIs DEF DiskTyped
    <3> QED
      BY <1>2, <1>4, <3>1, StageGood DEF StageNext
  <2>4. WriterTyped'
    BY <1>1, <1>4, <2>2, <2>3 DEF StageNext, WriterTyped
  <2> QED
    BY <1>1, <1>4, <2>2, <2>4, TypeInvIs, TypedSame DEF StageNext, FlushTyped, loop
<1>5. CASE Staged
  <2>1. job' \in Jobs /\ job'.all = job.all
    <3>1. ReadyWindows(books, job.latest) \subseteq Windows
      BY <1>2 DEF ReadyWindows
    <3>2. CASE JobIs(job', "save", job.todo, job.windows, job.keys, job.receipts, job.all,
                     job.latest)
      <4>1. JobGood("save", job.todo, job.windows, job.keys, job.receipts, job.all, job.latest)
        BY <1>2 DEF JobGood, Steps
      <4> QED
        BY <3>2, <4>1, JobFields
    <3>3. CASE JobIs(job', "write", job.todo, ReadyWindows(books, job.latest), job.keys,
                      job.receipts, job.all, job.latest)
      <4>1. JobGood("write", job.todo, ReadyWindows(books, job.latest), job.keys, job.receipts,
                    job.all, job.latest)
        BY <1>2, <3>1 DEF JobGood, Steps
      <4> QED
        BY <3>3, <4>1, JobFields
    <3> QED
      BY <1>5, <3>2, <3>3, JobSteps
  <2>2. WriterTyped'
    BY <1>1, <1>5, <2>1 DEF Staged, WriterTyped
  <2> QED
    BY <1>1, <1>5, <2>1, <2>2, TypeInvIs, TypedSame DEF Staged, FlushTyped, loop
<1>6. CASE FlushAll
  <2>1. job' \in Jobs
    <3> DEFINE w == books.open
               ls == -1..MaxBucket
    <3>1. w \subseteq Windows /\ <<>> \in Seq(Record) /\ -1 \in ls
      BY <1>1, <1>2, BucketsAre
    <3>2. job' = [step |-> "write", todo |-> <<>>, windows |-> w, keys |-> {},
                  receipts |-> {}, all |-> TRUE, latest |-> -1]
      BY <1>6 DEF FlushAll, IdleJob
    <3> HIDE DEF w, ls
    <3>3. job' \in [step : Steps, todo : Seq(Record), windows : SUBSET Windows, keys : SUBSET Key,
                    receipts : SUBSET Record, all : BOOLEAN, latest : ls]
      BY <3>1, <3>2 DEF Steps
    <3> QED
      BY <3>3 DEF Jobs, ls, Steps
  <2>2. WriterTyped' /\ phase' \in Flushing
    BY <1>1, <1>6, <2>1 DEF FlushAll, WriterTyped, Flushing, loop
  <2> QED
    BY <1>1, <1>6, <2>2, TypeInvIs, TypedSame DEF FlushAll, FlushTyped
<1>7. CASE WriteWindow
  <2> DEFINE w == Min(job.windows)
  <2>1. w \in job.windows
    BY <1>7, FirstWindow
  <2>2. /\ archive' = Written(archive, books, w) /\ books' = Closed(books, w)
        /\ archive \in [Buckets -> Version]
    BY <1>1, <1>7 DEF WriteWindow, DiskTyped
  <2>3. JobIs(job', "write", job.todo, job.windows \ {w}, job.keys \cup KeysIn(books, w),
              job.receipts, job.all, job.latest)
    BY <1>7, JobSteps
  <2> HIDE DEF w
  <2>4. archive' \in [Buckets -> Version] /\ books' \in GoodBooks /\ KeysIn(books, w) \subseteq Key
    BY <1>2, <2>2, WriteGood
  <2>5. job' \in Jobs /\ job'.all = job.all
    <3>1. JobGood("write", job.todo, job.windows \ {w}, job.keys \cup KeysIn(books, w),
                  job.receipts, job.all, job.latest)
      BY <1>2, <2>4 DEF JobGood, Steps
    <3> QED
      BY <2>3, <3>1, JobFields
  <2>6. WriterTyped' /\ DiskTyped'
    BY <1>1, <1>7, <2>4, <2>5 DEF WriteWindow, WriterTyped, DiskTyped
  <2> QED
    BY <1>1, <1>7, <2>5, <2>6, TypeInvIs, TypedSame DEF WriteWindow, FlushTyped, loop
<1>8. CASE Resolve
  <2> DEFINE done == Ready(books, job.keys, job.all)
  <2>1. /\ books' = Covered(books, job.keys, job.all) /\ resolved' = resolved \cup done
        /\ cur' = Committed(cur, stream, pend, done)
    BY <1>8 DEF Resolve
  <2>2. JobIs(job', IF done = {} THEN "save" ELSE "manifest", job.todo, job.windows,
              job.keys, done, job.all, job.latest)
    BY <1>8, JobSteps
  <2>3. done \subseteq Record /\ IsFiniteSet(done)
    BY <1>2, ReadyAre
  <2>4. books' \in GoodBooks
    BY <1>2, <2>1, CoveredAre
  <2> HIDE DEF done
  <2>5. job' \in Jobs /\ job'.all = job.all
    <3>1. JobGood(IF done = {} THEN "save" ELSE "manifest", job.todo, job.windows, job.keys,
                  done, job.all, job.latest)
      BY <1>2, <2>3 DEF JobGood, Steps
    <3> QED
      BY <2>2, <3>1, JobFields
  <2>6. cur' \in Cursors
    BY <1>1, <2>1, <2>3, CommittedIs DEF IngestTyped, CommittedAs
  <2>7. WriterTyped' /\ DiskTyped' /\ IngestTyped'
    BY <1>1, <1>8, <2>1, <2>3, <2>4, <2>5, <2>6 DEF Resolve, WriterTyped, DiskTyped, IngestTyped
  <2> QED
    BY <1>1, <1>8, <2>5, <2>7, TypeInvIs, TypedSame DEF Resolve, FlushTyped, loop
<1>9. CASE WriteManifest
  <2>1. job' \in Jobs /\ job'.all = job.all
    <3>1. JobIs(job', "unlink", job.todo, job.windows, job.keys, job.receipts, job.all,
                job.latest)
      BY <1>9, JobSteps
    <3>2. JobGood("unlink", job.todo, job.windows, job.keys, job.receipts, job.all, job.latest)
      BY <1>2 DEF JobGood, Steps
    <3> QED
      BY <3>1, <3>2, JobFields
  <2>2. WriterTyped' /\ DiskTyped'
    BY <1>1, <1>9, <2>1 DEF WriteManifest, WriterTyped, DiskTyped, IngestTyped
  <2> QED
    BY <1>1, <1>9, <2>1, <2>2, TypeInvIs, TypedSame DEF WriteManifest, FlushTyped, loop
<1>10. ASSUME NEW r \in job.receipts, Unlink(r) PROVE TypeInv'
  <2>1. JobIs(job', IF job.receipts = {r} THEN "save" ELSE "unlink", job.todo, job.windows,
              job.keys, job.receipts \ {r}, job.all, job.latest)
    BY <1>10, JobSteps
  <2>2. job' \in Jobs /\ job'.all = job.all
    <3>1. JobGood(IF job.receipts = {r} THEN "save" ELSE "unlink", job.todo, job.windows,
                  job.keys, job.receipts \ {r}, job.all, job.latest)
      BY <1>2 DEF JobGood, Steps
    <3> QED
      BY <2>1, <3>1, JobFields
  <2>3. IsFiniteSet(pend') /\ IsFiniteSet(files')
    <3>1. IsFiniteSet(pend) /\ IsFiniteSet(files)
      BY <1>1 DEF DiskTyped, IngestTyped
    <3>2. IsFiniteSet(pend \ {r}) /\ IsFiniteSet(files \ {r})
      BY <3>1, FS_Difference
    <3> QED
      BY <1>10, <3>1, <3>2 DEF Unlink
  <2>5. Streams(files')
    BY <1>1, <1>10 DEF Unlink, DiskTyped, Streams
  <2>4. WriterTyped' /\ DiskTyped' /\ IngestTyped'
    BY <1>1, <1>10, <2>2, <2>3, <2>5 DEF Unlink, WriterTyped, DiskTyped, IngestTyped
  <2> QED
    BY <1>1, <1>10, <2>2, <2>4, TypeInvIs, TypedSame DEF Unlink, FlushTyped, loop
<1>11. CASE SaveCheckpoint
  <2> DEFINE tops == {k[1] : k \in job.keys}
             top == Max(tops \cup {lastBucket})
  <2>1. top \in -1..MaxBucket
    <3>1. tops \subseteq Buckets /\ lastBucket \in -1..MaxBucket
      BY <1>1, <1>2 DEF Key, WriterTyped
    <3>5. IsFiniteSet(tops)
      BY <3>1, BucketsAre, FS_Subset
    <3>6. \A b \in Buckets : b \in -1..MaxBucket
      BY <1>1 DEF Buckets
    <3>2. tops \subseteq Int /\ IsFiniteSet(tops) /\ \A b \in tops : b \in -1..MaxBucket
      BY <3>1, <3>5, <3>6, BucketsAre
    <3>3. PICK l \in Int : l = lastBucket
      BY <3>1
    <3> HIDE DEF tops
    <3>4. Max(tops \cup {l}) \in tops \cup {l}
      BY <3>2, MaxWith
    <3> QED
      BY <3>1, <3>2, <3>3, <3>4
  <2>2. /\ lastBucket' = top
        /\ ckpt' = [stream |-> stream, acc |-> cur.acc, mat |-> cur.mat,
                    bucket |-> Larger(ckpt.bucket, top)]
    BY <1>11 DEF SaveCheckpoint
  <2> HIDE DEF top
  <2>3. ckpt' \in Checkpoints
    <3>1. ckpt.bucket \in -1..MaxBucket
      BY <1>1 DEF DiskTyped, Checkpoints
    <3>2. Larger(ckpt.bucket, top) \in -1..MaxBucket
      BY <2>1, <3>1 DEF Larger
    <3> QED
      BY <1>1, <2>2, <3>2 DEF IngestTyped, Cursors, Checkpoints
  <2>4. DiskTyped' /\ WriterTyped'
    BY <1>1, <1>11, <2>1, <2>2, <2>3, IdleFields DEF SaveCheckpoint, DiskTyped, WriterTyped
  <2>5. phase' \in Phases /\ (phase # phase' => job.all)
    <3>1. \A p \in Flushing : AfterFlush[p] \in Phases
      BY DEF AfterFlush, Flushing, Phases
    <3> QED
      BY <1>1, <1>11, <3>1 DEF SaveCheckpoint, LoopTyped, FlushTyped
  <2>6. link # 0 => phase' = "run"
    <3>1. phase = "run" => ~job.all
      BY <1>1 DEF FlushTyped, Flushing
    <3> QED
      BY <1>1, <2>5, <3>1 DEF LoopTyped
  <2>7. src' \in Sources
    BY <1>1, <1>11 DEF SaveCheckpoint, LoopTyped, IngestTyped, Sources, Cursors
  <2>8. LoopTyped'
    BY <1>1, <1>11, <2>5, <2>6, <2>7 DEF SaveCheckpoint, LoopTyped
  <2> QED
    BY <1>11, <2>4, <2>8, IdleFields, TypeInvIs, TypedSame DEF SaveCheckpoint, FlushTyped
<1> QED
  BY <1>3, <1>4, <1>5, <1>6, <1>7, <1>8, <1>9, <1>10, <1>11 DEF WriterStep

-------------------------------------------------------------------------------
(* Restart, with a name for each of its parts.                                 *)
Base == Restored(CursorsAt(ckpt.acc, ckpt.mat), manifest)
Kept == {r \in files : ~AlreadyCommitted(r, resolved, ckpt.stream, Base.high)}
HubsIn(q) == {i \in DOMAIN q : q[i].kind = "hub"}
NowIn(q) == IF ckpt.stream = NoStream /\ HubsIn(q) # {} THEN q[Min(HubsIn(q))].stream
            ELSE ckpt.stream
SeqsIn(s) == {r.seq : r \in {x \in Kept : x.kind = "hub" /\ x.stream = s}}
RestartWith(q) ==
  /\ files' = Kept /\ pend' = Kept
  /\ stream' = NowIn(q)
  /\ cur' = [Base EXCEPT !.acc = Max(SeqsIn(NowIn(q)) \cup {Base.acc})]
  /\ lastSeen' = Max(SeqsIn(NowIn(q)) \cup {ckpt.acc})
  /\ lastBucket' = ckpt.bucket
  /\ queue' = <<>>
  /\ books' = Restaged(q, archive)
  /\ job' = IF Kept = {} THEN [IdleJob EXCEPT !.step = "save", !.all = TRUE] ELSE IdleJob
  /\ phase' = IF Contiguous(SeqsIn(NowIn(q))) THEN "init" ELSE "wedged"

LEMMA RestartIs ==
  ASSUME Restart PROVE \E q \in Orders(Kept) : RestartWith(q)
BY DEF Restart, Base, Kept, HubsIn, NowIn, SeqsIn, RestartWith

LEMMA RestartTypes ==
  ASSUME TypeInv, Restart, NEW q \in Orders(Kept), RestartWith(q)
  PROVE  /\ TypeInv'
         /\ Base \in Cursors /\ Kept \subseteq files /\ q \in Seq(Record)
         /\ SeqsIn(NowIn(q)) \subseteq Nat /\ IsFiniteSet(SeqsIn(NowIn(q)))
         /\ JobIs(job', IF Kept = {} THEN "save" ELSE "idle", <<>>, {}, {}, {},
                  Kept = {}, -1)
<1>1. /\ DiskTyped /\ IngestTyped /\ LoopTyped /\ FlushTyped /\ GhostTyped /\ WriterTyped
      /\ MaxBucket \in Nat
  BY TypeInvIs, BucketsAre
<1>2. /\ ckpt.stream \in 0..MaxStreams /\ ckpt.acc \in Int /\ ckpt.mat \in Int
      /\ ckpt.bucket \in -1..MaxBucket
      /\ manifest.acc \in Int /\ manifest.mat \in Int /\ manifest.high \in Int
  BY <1>1 DEF DiskTyped, Checkpoints, Cursors
<1>3. Base \in Cursors /\ Base.acc \in Int
  BY <1>2, LargerIs DEF Base, Restored, CursorsAt, Cursors
<1>4. Kept \subseteq files /\ Kept \subseteq Record /\ IsFiniteSet(Kept) /\ Streams(Kept)
  <2>1. Kept \subseteq files
    BY DEF Kept
  <2> QED
    BY <1>1, <2>1, FS_Subset DEF DiskTyped, Streams
<1>5. q \in Seq(Record) /\ \A i \in DOMAIN q : q[i] \in Kept
  BY <1>4, OrdersAre
<1>6. NowIn(q) \in 0..MaxStreams
  <2>1. ASSUME HubsIn(q) # {} PROVE q[Min(HubsIn(q))].stream \in 0..MaxStreams
    <3>1. HubsIn(q) \subseteq DOMAIN q /\ DOMAIN q = 1..Len(q) /\ Len(q) \in Nat
      BY <1>5 DEF HubsIn
    <3>2. IsFiniteSet(DOMAIN q)
      BY <3>1, FS_Interval
    <3>3. IsFiniteSet(HubsIn(q)) /\ HubsIn(q) \subseteq Int
      BY <3>1, <3>2, FS_Subset
    <3> DEFINE H == HubsIn(q)
    <3>4. Min(H) \in H
      <4> HIDE DEF H
      <4>1. H # {} /\ H \subseteq Int /\ IsFiniteSet(H)
        BY <2>1, <3>3 DEF H
      <4> QED
        BY <4>1, MinIs
    <3>5. Min(H) \in DOMAIN q
      BY <3>1, <3>4
    <3> QED
      BY <1>4, <1>5, <3>5 DEF Streams
  <2> QED
    BY <1>2, <2>1 DEF NowIn
<1> DEFINE N == SeqsIn(NowIn(q))
<1>7. N \subseteq Nat /\ IsFiniteSet(N)
  <2> DEFINE P == {x \in Kept : x.kind = "hub" /\ x.stream = NowIn(q)}
             f == [x \in P |-> x.seq]
  <2>1. IsFiniteSet(P)
    BY <1>4, FS_Subset
  <2>2. N = {f[x] : x \in P}
    BY DEF SeqsIn
  <2>3. \A x \in P : x.seq \in Nat
    BY <1>4, RecordsAre
  <2>4. IsFiniteSet({f[x] : x \in P})
    <3> HIDE DEF f, P
    <3> QED
      BY <2>1, ImageIsFinite
  <2> QED
    BY <2>2, <2>3, <2>4 DEF SeqsIn
<1> HIDE DEF N
<1>8. cur' \in Cursors /\ lastSeen' \in Int
  <2>1. PICK m \in Int, l \in Int : m = Base.acc /\ l = ckpt.acc
    BY <1>2, <1>3
  <2>2. N \subseteq Int
    BY <1>7
  <2>3. Max(N \cup {m}) \in Int /\ Max(N \cup {l}) \in Int
    BY <1>7, <2>2, MaxWith
  <2>4. cur' = [Base EXCEPT !.acc = Max(N \cup {m})] /\ lastSeen' = Max(N \cup {l})
    BY <2>1 DEF RestartWith, N
  <2> QED
    BY <1>3, <2>3, <2>4, CursorsWith
<1>9. books' \in GoodBooks
  <2>1. PICK a \in [Buckets -> Version] : a = archive
    BY <1>1 DEF DiskTyped
  <2>2. \A i \in DOMAIN q : q[i] \in Record
    BY <1>4, <1>5
  <2>3. \A z \in GoodBooks : \A i \in DOMAIN q : Stage(z, q[i], a) \in GoodBooks
    BY <2>2, StageGood
  <2>4. Restaged(q, a) \in GoodBooks
    BY <1>5, <2>3, NoBooksGood, RestagedIn
  <2> QED
    BY <2>1, <2>4 DEF RestartWith
<1>10. JobIs(job', IF Kept = {} THEN "save" ELSE "idle", <<>>, {}, {}, {}, Kept = {}, -1)
  <2>1. CASE Kept = {}
    BY <2>1, IdleFields, JobWith DEF RestartWith
  <2>2. CASE Kept # {}
    BY <2>2, IdleFields DEF RestartWith, JobIs, IdleJob
  <2> QED
    BY <2>1, <2>2
<1>11. job' \in Jobs
  <2>1. JobGood(IF Kept = {} THEN "save" ELSE "idle", <<>>, {}, {}, {}, Kept = {}, -1)
    BY <1>1 DEF JobGood, Steps
  <2> QED
    BY <1>10, <2>1, JobFields
<1>19. UNCHANGED <<resolved, tail, archive, manifest, ckpt>>
  BY DEF Restart
<1>20. /\ files' = Kept /\ pend' = Kept /\ stream' = NowIn(q) /\ queue' = <<>>
       /\ lastBucket' = ckpt.bucket
  BY DEF RestartWith
<1>12. WriterTyped' /\ IngestTyped' /\ DiskTyped'
  <2>1. queue' \in Seq(Record) /\ Len(queue') <= QueueMax
    BY <1>20, BoundsAre
  <2>2. IngestTyped'
    BY <1>4, <1>6, <1>8, <1>20, <2>1 DEF IngestTyped
  <2>3. DiskTyped'
    BY <1>1, <1>4, <1>19, <1>20 DEF DiskTyped
  <2>4. WriterTyped'
    BY <1>2, <1>9, <1>11, <1>20 DEF WriterTyped
  <2> QED
    BY <2>2, <2>3, <2>4
<1>13. MarketTyped' /\ GhostTyped'
  <2>1. UNCHANGED <<accepted, ends>> /\ cut' \in BOOLEAN
    BY DEF Restart
  <2> QED
    BY <1>1, <2>1, TypedSame, TypeInvIs DEF Restart, GhostTyped
<1>14. phase' \in {"init", "wedged"}
  BY DEF RestartWith
<1>15. link' = 0
  BY <1>1 DEF Restart, LoopTyped
<1>16. src' \in Sources /\ gap' \in Gaps /\ link' \in Nat
  BY <1>1, <1>15, BoundsAre DEF Restart, LoopTyped, Sources, NoStream, NoSeq
<1>17. LoopTyped'
  BY <1>14, <1>15, <1>16 DEF LoopTyped, Phases
<1>18. FlushTyped'
  <2>1. job'.all => Kept = {}
    BY <1>10, JobFields
  <2>2. ASSUME Kept = {} PROVE phase' = "init"
    <3>1. SeqsIn(NowIn(q)) = {}
      BY <2>2 DEF SeqsIn
    <3>2. Contiguous({})
      BY DEF Contiguous
    <3> QED
      BY <3>1, <3>2 DEF RestartWith
  <2> QED
    BY <2>1, <2>2 DEF FlushTyped, Flushing
<1> QED
  BY <1>3, <1>4, <1>5, <1>7, <1>10, <1>12, <1>13, <1>17, <1>18, TypeInvIs DEF N

(* A crash keeps the files; inside an append it may leave some of its lines.   *)
LEMMA CrashLeaves ==
  ASSUME Crash
  PROVE  /\ resolved \subseteq resolved'
         /\ resolved' \subseteq resolved \cup Ready(books, job.keys, job.all)
         /\ resolved' # resolved => job.step = "write" /\ job.windows = {}
         /\ UNCHANGED <<resolved, tail, cut>> \/ cut'
         /\ tail \in {"whole", "unended", "torn"} => tail' \in {"whole", "unended", "torn"}
         /\ cut \in BOOLEAN => cut' \in BOOLEAN
<1>1. CASE UNCHANGED <<resolved, tail, cut>>
  BY <1>1
<1>2. CASE EndsInAppend
  <2>1. PICK lines \in SUBSET NewLines : resolved' = resolved \cup lines /\ tail' \in Tails(lines)
    BY <1>2 DEF EndsInAppend
  <2>2. tail' \in {"whole", "unended", "torn"}
    BY <2>1 DEF Tails
  <2>3. lines \subseteq Ready(books, job.keys, job.all)
    BY <2>1 DEF NewLines
  <2> QED
    BY <1>2, <2>1, <2>2, <2>3 DEF EndsInAppend
<1> QED
  BY <1>1, <1>2 DEF Crash

LEMMA LifeTypes ==
  ASSUME TypeInv, LifeStep PROVE TypeInv'
<1>1. /\ DiskTyped /\ IngestTyped /\ LoopTyped /\ FlushTyped /\ GhostTyped /\ WriterTyped
      /\ MaxBucket \in Nat
  BY TypeInvIs, BucketsAre
<1>2. NoGap \in Gaps
  BY <1>1, BoundsAre DEF NoGap, Gaps, NoStream
<1>3. CASE GivesUp \/ Signaled
  <2>1. Stop /\ ends' = ends + 1 /\ ends < MaxEnds
    BY <1>3 DEF GivesUp, Signaled
  <2>2. LoopTyped' /\ FlushTyped' /\ GhostTyped'
    BY <1>1, <1>2, <2>1, BoundsAre DEF Stop, LoopTyped, Phases, FlushTyped, Flushing, GhostTyped
  <2>3. UNCHANGED <<market, disk, ingest, writer>>
    BY <2>1 DEF Stop
  <2> QED
    BY <2>2, <2>3, TypeInvIs, TypedSame
<1>4. CASE Crash
  <2>1. WriterTyped'
    BY <1>1, <1>4, NoBooksGood, IdleFields DEF Crash, WriterTyped
  <2>2. IngestTyped'
    BY <1>1, <1>4, BoundsAre DEF Crash, IngestTyped
  <2>3. LoopTyped' /\ FlushTyped'
    BY <1>1, <1>2, <1>4, IdleFields DEF Crash, LoopTyped, Phases, FlushTyped
  <2>4. GhostTyped'
    BY <1>1, <1>4, BoundsAre, CrashLeaves DEF Crash, GhostTyped
  <2>5. Ready(books, job.keys, job.all) \subseteq Record
    BY <1>1, ReadyAre DEF WriterTyped
  <2>6. DiskTyped'
    BY <1>1, <1>4, <2>5, CrashLeaves DEF Crash, DiskTyped, Streams
  <2> QED
    BY <1>4, <2>1, <2>2, <2>3, <2>4, <2>6, TypeInvIs, TypedSame DEF Crash
<1>5. CASE Restart
  BY <1>5, RestartIs, RestartTypes
<1> QED
  BY <1>3, <1>4, <1>5 DEF LifeStep

LEMMA TypesStep == TypeInv /\ [Next]_vars => TypeInv'
<1>1. ASSUME TypeInv, UNCHANGED vars PROVE TypeInv'
  <2>1. UNCHANGED <<market, disk, ingest, writer, loop, ghost>>
    BY <1>1 DEF vars
  <2>2. MarketTyped' /\ DiskTyped' /\ IngestTyped' /\ WriterTyped' /\ LoopTyped' /\ GhostTyped'
    BY <1>1, <2>1, TypedSame
  <2>3. FlushTyped'
    BY <1>1, <2>1, TypeInvIs DEF FlushTyped, writer, loop
  <2> QED
    BY <2>2, <2>3, TypeInvIs
<1> QED
  BY <1>1, MarketTypes, SourceTypes, IngestTypes, GapTypes, WriterTypes, LifeTypes DEF Next

(* Every variable keeps its shape, whatever the bounds are: what the files and *)
(* the books hold stays finite, so that the largest and smallest cursors that  *)
(* recover and commit_materialization look for exist.                          *)
THEOREM CollectorTyped == Spec => []TypeOK
<1>1. Spec => []TypeInv
  BY TypeStarts, TypesStep, PTL DEF Spec
<1> QED
  BY <1>1, PTL DEF TypeInv

-------------------------------------------------------------------------------
(* The archive only improves: an open window's buffer is at least as good as   *)
(* the file that it replaces, and a flush writes only windows that are open.   *)
AsGood(v, w) == (v = "pg" => w = "pg") /\ (v # "none" => w # "none")
Improves(z, a) == \A b \in Buckets : Window(b) \in z.open => AsGood(a[b], z.rows[b])
WritesOpen == job.step = "write" => job.windows \subseteq books.open
ImproveInv == TypeInv /\ Improves(books, archive) /\ WritesOpen

LEMMA StageImproves ==
  ASSUME NEW z \in GoodBooks, NEW r \in Record, NEW a \in [Buckets -> Version], Improves(z, a)
  PROVE  Improves(Stage(z, r, a), a) /\ z.open \subseteq Stage(z, r, a).open
<1> DEFINE n == Stage(z, r, a)
<1>1. z \in Books
  BY DEF GoodBooks
<1>2. StagedAs(n, z, r, a)
  BY <1>1, StageParts
<1> HIDE DEF n
<1>3. n.open = z.open \cup {Window(b) : b \in r.rows}
  BY <1>2 DEF StagedAs
<1>4. ASSUME NEW b \in Buckets, Window(b) \in n.open
      PROVE  AsGood(a[b], n.rows[b])
  <2>1. Known(z, r, a)[b] = IF Window(b) \in z.open THEN z.rows[b] ELSE a[b]
    BY <1>3, <1>4 DEF Known
  <2>2. AsGood(a[b], Known(z, r, a)[b])
    BY <1>4, <2>1 DEF Improves, AsGood
  <2>3. n.rows[b] = IF b \in Won(z, r, a) THEN r.kind ELSE Known(z, r, a)[b]
    BY <1>2, <1>4 DEF StagedAs
  <2>4. b \in Won(z, r, a) => r.kind = "pg" \/ (r.kind = "hub" /\ Known(z, r, a)[b] # "pg")
    BY RecordsAre DEF Won, Kinds
  <2>5. a[b] \in {"hub", "pg", "none"}
    BY <1>4 DEF Version, Kinds
  <2> QED
    BY <2>2, <2>3, <2>4, <2>5 DEF AsGood
<1> QED
  BY <1>3, <1>4 DEF Improves, n

LEMMA ImproveStarts == Init => ImproveInv
<1> SUFFICES ASSUME Init PROVE ImproveInv
  OBVIOUS
<1>1. books.open = {} /\ job.step = "idle"
  BY IdleFields DEF Init, NoBooks
<1> QED
  BY <1>1, TypeStarts DEF ImproveInv, Improves, WritesOpen

LEMMA ImproveStep ==
  ASSUME ImproveInv, [Next]_vars
  PROVE  /\ ImproveInv'
         /\ \A b \in Buckets : AsGood(archive[b], archive'[b])
<1>1. TypeInv /\ TypeInv' /\ DiskTyped /\ WriterTyped
  BY TypesStep, TypeInvIs DEF ImproveInv
<1>2. books \in GoodBooks /\ archive \in [Buckets -> Version]
  BY <1>1 DEF DiskTyped, WriterTyped
<1> DEFINE Goal == /\ Improves(books, archive)' /\ WritesOpen'
                   /\ \A b \in Buckets : AsGood(archive[b], archive'[b])
<1>3. ASSUME UNCHANGED <<archive, books, job>> PROVE Goal
  BY <1>3 DEF ImproveInv, Improves, WritesOpen, AsGood
<1>4. ASSUME UNCHANGED <<archive, books>>, WritesOpen' PROVE Goal
  BY <1>4 DEF ImproveInv, Improves, AsGood
<1> SUFFICES Goal
  BY <1>1 DEF ImproveInv
<1>5. CASE MarketStep \/ SourceStep \/ IngestStep \/ GapStep \/ UNCHANGED vars
  <2>1. UNCHANGED <<archive, books, job>>
    BY <1>5 DEF MarketStep, SourceStep, IngestStep, GapStep, Publish, Persist, HubRestart, Connects,
       Drops, ReplayUnavailable, IngestNew, IngestKnown, IngestPaused, PlanBackfill, Backfill,
       Backfilled, ResumeFromHub, vars, disk, writer
  <2> QED
    BY <1>3, <2>1
<1>6. CASE WorkerTakes
  <2>1. job'.step = "stage"
    BY <1>1, <1>6, JobSteps, JobFields
  <2> QED
    BY <1>4, <1>6, <2>1 DEF WorkerTakes, WritesOpen, disk
<1>7. CASE StageNext
  <2>1. job'.step = "stage"
    BY <1>1, <1>7, JobSteps, JobFields
  <2>2. Head(job.todo) \in Record
    BY <1>1, <1>7, NextLatestIs DEF StageNext
  <2>3. books' = Stage(books, Head(job.todo), archive) /\ archive' = archive
    BY <1>7 DEF StageNext, disk
  <2>4. Improves(Stage(books, Head(job.todo), archive), archive)
    BY <1>2, <2>2, StageImproves DEF ImproveInv
  <2>5. Improves(books, archive)'
    BY <2>3, <2>4
  <2> QED
    BY <2>1, <2>3, <2>5 DEF WritesOpen, AsGood
<1>8. CASE Staged
  <2>1. UNCHANGED <<archive, books>>
    BY <1>8 DEF Staged, disk
  <2>2. job'.step = "save" \/ (job'.windows = ReadyWindows(books, job.latest))
    BY <1>1, <1>8, JobSteps, JobFields
  <2>3. ReadyWindows(books, job.latest) \subseteq books.open
    BY DEF ReadyWindows
  <2> QED
    BY <1>4, <2>1, <2>2, <2>3 DEF WritesOpen
<1>9. CASE FlushAll
  <2>1. UNCHANGED <<archive, books>>
    BY <1>9 DEF FlushAll, disk
  <2>2. job'.windows = books.open
    BY <1>9, FlushAllJob
  <2> QED
    BY <1>4, <2>1, <2>2 DEF WritesOpen
<1>10. CASE WriteWindow
  <2> DEFINE w == Min(job.windows)
  <2>1. w \in job.windows /\ w \in books.open
    BY <1>1, <1>10, FirstWindow DEF WriteWindow, ImproveInv, WritesOpen
  <2>2. archive' = Written(archive, books, w) /\ books' = Closed(books, w)
    BY <1>10 DEF WriteWindow
  <2>3. job'.windows = job.windows \ {w}
    BY <1>1, <1>10, JobSteps, JobFields
  <2> HIDE DEF w
  <2>4. /\ \A b \in Buckets : archive'[b] = IF Window(b) = w THEN books.rows[b] ELSE archive[b]
        /\ books'.open = books.open \ {w}
        /\ \A b \in Buckets : books'.rows[b] = IF Window(b) = w THEN "none" ELSE books.rows[b]
    BY <1>2, <2>2, WriteGood
  <2>5. \A b \in Buckets : AsGood(archive[b], archive'[b])
    BY <2>1, <2>4 DEF ImproveInv, Improves, AsGood
  <2>6. Improves(books', archive')
    BY <2>4 DEF ImproveInv, Improves
  <2>7. job'.windows \subseteq books'.open
    BY <1>10, <2>3, <2>4 DEF WriteWindow, ImproveInv, WritesOpen
  <2> QED
    BY <2>5, <2>6, <2>7 DEF WritesOpen
<1>11. CASE Resolve
  <2>1. books' = Covered(books, job.keys, job.all) /\ archive' = archive
    BY <1>11 DEF Resolve
  <2>2. books'.open = books.open /\ books'.rows = books.rows
    BY <1>2, <2>1, CoveredAre
  <2>3. job'.step # "write"
    <3>1. job'.step = IF Ready(books, job.keys, job.all) = {} THEN "save" ELSE "manifest"
      BY <1>1, <1>11, JobSteps, JobFields
    <3> QED
      BY <3>1
  <2> QED
    BY <2>1, <2>2, <2>3 DEF ImproveInv, Improves, WritesOpen, AsGood
<1>12. CASE WriteManifest
  <2>1. job'.step = "unlink"
    BY <1>1, <1>12, JobSteps, JobFields
  <2> QED
    BY <1>4, <1>12, <2>1 DEF WriteManifest, WritesOpen
<1>13. ASSUME NEW r \in job.receipts, Unlink(r) PROVE Goal
  <2>1. job'.step = IF job.receipts = {r} THEN "save" ELSE "unlink"
    <3>1. JobIs(job', IF job.receipts = {r} THEN "save" ELSE "unlink", job.todo, job.windows,
                job.keys, job.receipts \ {r}, job.all, job.latest)
      BY <1>1, <1>13, JobSteps
    <3> QED
      BY <3>1, JobFields
  <2> QED
    BY <1>4, <1>13, <2>1 DEF Unlink, WritesOpen
<1>14. CASE SaveCheckpoint
  BY <1>4, <1>14, IdleFields DEF SaveCheckpoint, WritesOpen
<1>15. CASE GivesUp \/ Signaled
  BY <1>3, <1>15 DEF GivesUp, Signaled, Stop, disk, writer
<1>16. CASE Crash
  <2>1. books'.open = {} /\ job'.step = "idle" /\ archive' = archive
    BY <1>16, IdleFields DEF Crash, NoBooks, disk
  <2> QED
    BY <2>1 DEF Improves, WritesOpen, AsGood
<1>17. CASE Restart
  <2>1. PICK q \in Orders(Kept) : RestartWith(q)
    BY <1>17, RestartIs
  <2>2. /\ Kept \subseteq Record /\ IsFiniteSet(Kept) /\ q \in Seq(Record)
        /\ \A i \in DOMAIN q : q[i] \in Record
    <3>1. Kept \subseteq files /\ files \subseteq Record /\ IsFiniteSet(files)
      BY <1>1 DEF Kept, DiskTyped
    <3> QED
      BY <3>1, FS_Subset, OrdersAre
  <2>3. PICK a \in [Buckets -> Version] : a = archive
    BY <1>2
  <2> DEFINE G == {z \in GoodBooks : Improves(z, a)}
  <2>4. NoBooks \in G
    BY NoBooksGood DEF Improves, NoBooks
  <2>5. \A z \in G : \A i \in DOMAIN q : Stage(z, q[i], a) \in G
    BY <2>2, StageGood, StageImproves
  <2>6. Restaged(q, a) \in G
    <3> HIDE DEF G
    <3> QED
      BY <2>2, <2>4, <2>5, RestagedIn
  <2>7. books' = Restaged(q, a) /\ archive' = archive
    BY <1>17, <2>1, <2>3 DEF RestartWith, Restart
  <2>8. job'.step # "write"
    <3>1. job'.step = IF Kept = {} THEN "save" ELSE "idle"
      BY <1>1, <1>17, <2>1, RestartTypes, JobFields
    <3> QED
      BY <3>1
  <2>9. Improves(books', archive')
    BY <2>3, <2>6, <2>7
  <2> QED
    BY <2>7, <2>8, <2>9 DEF WritesOpen, AsGood
<1> QED
  BY <1>5, <1>6, <1>7, <1>8, <1>9, <1>10, <1>11, <1>12, <1>13, <1>14, <1>15, <1>16, <1>17
     DEF Next, WriterStep, LifeStep

(* No file of the archive ever loses a state, or the database's copy of one,   *)
(* whatever the order of hub and backfill records, the crashes between two     *)
(* windows of one flush and the records staged again at a start.               *)
THEOREM NoFileGetsWorse == Spec => ArchiveOnlyImproves
<1>1. ImproveInv /\ [Next]_vars
        => [\A b \in Buckets : /\ archive[b] = "pg"   => archive'[b] = "pg"
                               /\ archive[b] # "none" => archive'[b] # "none"]_vars
  BY ImproveStep DEF AsGood
<1>2. ImproveInv /\ [Next]_vars => ImproveInv'
  BY ImproveStep
<1> QED
  BY <1>1, <1>2, ImproveStarts, PTL DEF Spec, ArchiveOnlyImproves

-------------------------------------------------------------------------------
(* While nothing ends the collector, the source never asks for more than one   *)
(* batch beyond the last one seen.                                             *)
Fresh == /\ files = {} /\ manifest = CursorsAt(NoSeq, NoSeq)
         /\ ckpt.acc = ckpt.mat /\ ckpt.mat \in {NoSeq, 0} /\ job.step = "idle"
Starting  == job.step = "save" /\ job.all /\ cur.mat = lastSeen
Following == /\ src.seq = NoSeq => lastSeen = NoSeq
             /\ lastSeen # NoSeq => src.seq <= lastSeen
StepInv ==
  /\ TypeInv /\ ends = 0
  /\ phase \notin {"stopping", "wedged"}
  /\ phase = "down" => Fresh
  /\ phase = "init" => Starting
  /\ phase \notin {"down", "init"} => Following
  /\ link # 0 /\ lastSeen # NoSeq => link <= lastSeen + 1

LEMMA StepInvStarts == Init => StepInv
<1> SUFFICES ASSUME Init PROVE StepInv
  OBVIOUS
<1>1. Fresh
  BY IdleFields, BoundsAssumption DEF Init, Fresh
<1> QED
  BY <1>1, TypeStarts DEF Init, StepInv

LEMMA StepInvStep == ASSUME MaxEnds = 0, StepInv, [Next]_vars PROVE StepInv'
<1>1. TypeInv /\ TypeInv' /\ LoopTyped /\ IngestTyped /\ DiskTyped
  BY TypesStep, TypeInvIs DEF StepInv
<1>2. /\ lastSeen \in Int /\ src.seq \in Int /\ link \in Nat /\ gap.latest \in Nat
      /\ src \in Sources /\ NoSeq = -1
      /\ link # 0 => phase = "run"
  BY <1>1 DEF LoopTyped, IngestTyped, Sources, Gaps, NoSeq
<1> DEFINE Goal == /\ phase' \notin {"stopping", "wedged"} /\ ends' = 0
                   /\ phase' = "down" => Fresh'
                   /\ phase' = "init" => Starting'
                   /\ phase' \notin {"down", "init"} => Following'
                   /\ link' # 0 /\ lastSeen' # NoSeq => link' <= lastSeen' + 1
<1> SUFFICES Goal
  BY <1>1 DEF StepInv
<1>3. CASE MarketStep \/ UNCHANGED vars
  <2>1. UNCHANGED <<disk, ingest, writer, phase, gap, src, ghost>> /\ link' \in {link, 0}
    BY <1>3 DEF MarketStep, Publish, Persist, HubRestart, loop, vars
  <2> QED
    BY <2>1 DEF StepInv, Fresh, Starting, Following, disk, ingest, writer, ghost
<1>4. CASE Connects
  <2>1. /\ phase = "run" /\ phase' = "run" /\ lastSeen' = lastSeen /\ src'.seq = src.seq
        /\ ends' = ends
        /\ src.seq # NoSeq => link' = src.seq + 1
    BY <1>2, <1>4 DEF Connects, Sources, ingest, ghost
  <2>2. Following
    BY <2>1 DEF StepInv
  <2> QED
    BY <1>2, <2>1, <2>2 DEF StepInv, Following
<1>5. CASE Drops \/ ReplayUnavailable
  <2>1. /\ UNCHANGED <<disk, ingest, writer, src, ghost>> /\ link' = 0
        /\ phase' = phase \/ (phase = "run" /\ phase' = "gap")
    BY <1>5 DEF Drops, ReplayUnavailable
  <2> QED
    BY <2>1 DEF StepInv, Fresh, Starting, Following, disk, ingest, writer, ghost
<1>6. CASE IngestNew
  <2>1. /\ phase = "run" /\ phase' = "run" /\ lastSeen' = link /\ src'.seq = link
        /\ link' = link + 1 /\ ends' = ends /\ link \in 1..Latest
    BY <1>2, <1>6 DEF IngestNew, Delivered, Sources
  <2> QED
    BY <1>2, <2>1 DEF StepInv, Following
<1>7. CASE IngestKnown
  <2>1. /\ phase = "run" /\ phase' = "run" /\ lastSeen' = lastSeen /\ src'.seq = link
        /\ link' = link + 1 /\ ends' = ends
        /\ link <= lastSeen /\ lastSeen # NoSeq /\ link # 0
    BY <1>2, <1>7 DEF IngestKnown, Delivered, IsNew, Sources, ingest, ghost
  <2> QED
    BY <1>2, <2>1 DEF StepInv, Following
<1>8. CASE IngestPaused
  BY <1>8 DEF IngestPaused, Delivered, StepInv, Following, ingest, ghost
<1>9. CASE PlanBackfill \/ Backfill \/ Backfilled
  <2>1. /\ phase \in {"gap", "backfill"} /\ phase' \in {"backfill", "drain"} /\ link' = link
        /\ lastSeen' = lastSeen /\ src' = src /\ ends' = ends
    BY <1>9 DEF PlanBackfill, Backfill, Backfilled, ingest, ghost
  <2> QED
    BY <2>1 DEF StepInv, Following
<1>10. CASE ResumeFromHub
  <2>1. /\ phase = "switch" /\ phase' = "run" /\ lastSeen' = gap.latest /\ src'.seq = gap.latest
        /\ link' = link /\ ends' = ends
    BY <1>10 DEF ResumeFromHub, ghost
  <2> QED
    BY <1>2, <2>1 DEF StepInv, Following
<1>11. CASE WorkerTakes \/ StageNext \/ Staged \/ FlushAll \/ WriteWindow \/ Resolve
            \/ WriteManifest \/ \E r \in job.receipts : Unlink(r)
  <2>1. UNCHANGED <<phase, src, link, lastSeen, ends>>
    BY <1>11 DEF WorkerTakes, StageNext, Staged, FlushAll, WriteWindow, Resolve, WriteManifest,
       Unlink, loop, ingest, ghost
  <2>2. phase \notin {"down", "init"}
    <3>1. phase = "down" => job.step = "idle"
      BY DEF StepInv, Fresh
    <3>2. phase = "init" => job.step = "save"
      BY DEF StepInv, Starting
    <3> QED
      BY <1>11, <3>1, <3>2 DEF WorkerTakes, StageNext, Staged, FlushAll, WriteWindow, Resolve,
         WriteManifest, Unlink
  <2> QED
    BY <2>1, <2>2 DEF StepInv, Following
<1>12. CASE SaveCheckpoint
  <2>1. /\ UNCHANGED <<lastSeen, link, ends>>
        /\ phase' = IF job.all THEN AfterFlush[phase] ELSE phase
        /\ src' = IF job.all /\ phase = "init" THEN [stream |-> stream, seq |-> cur.mat] ELSE src
        /\ job.step = "save"
    BY <1>12 DEF SaveCheckpoint, ingest, ghost
  <2>2. phase # "down"
    BY <2>1 DEF StepInv, Fresh
  <2>3. job.all => phase \in {"init", "paused", "drain"}
    BY <1>1, TypeInvIs DEF FlushTyped, Flushing, StepInv
  <2>4. CASE phase = "init"
    <3>1. phase' = "run" /\ src'.seq = lastSeen
      BY <2>1, <2>4 DEF StepInv, Starting, AfterFlush
    <3> QED
      BY <1>2, <2>1, <2>4, <3>1 DEF StepInv, Following
  <2>5. CASE phase # "init"
    <3>1. phase' \in {phase, "run", "switch"} /\ src' = src
      BY <2>1, <2>3, <2>5 DEF AfterFlush
    <3> QED
      BY <2>1, <2>2, <2>5, <3>1 DEF StepInv, Following
  <2> QED
    BY <2>4, <2>5
<1>13. CASE GivesUp \/ Signaled \/ Crash
  BY <1>13 DEF GivesUp, Signaled, Crash, StepInv
<1>14. CASE Restart
  <2>1. PICK q \in Orders(Kept) : RestartWith(q)
    BY <1>14, RestartIs
  <2>2. phase = "down" /\ Fresh
    BY <1>14 DEF Restart, StepInv
  <2>3. Kept = {} /\ SeqsIn(NowIn(q)) = {}
    BY <2>2 DEF Fresh, Kept, SeqsIn
  <2>4. /\ JobIs(job', IF Kept = {} THEN "save" ELSE "idle", <<>>, {}, {}, {}, Kept = {}, -1)
        /\ Base \in Cursors
    BY <1>1, <1>14, <2>1, RestartTypes
  <2>5. job'.step = "save" /\ job'.all
    <3>1. JobIs(job', "save", <<>>, {}, {}, {}, Kept = {}, -1)
      BY <2>3, <2>4
    <3>2. job'.step = "save" /\ job'.all = (Kept = {})
      BY <3>1, JobFields
    <3> QED
      BY <2>3, <3>2
  <2>6. Base.mat = ckpt.mat /\ ckpt.mat \in Int
    <3>1. ckpt.mat \in {-1, 0} /\ manifest.mat = -1
      BY <2>2 DEF Fresh, CursorsAt, NoSeq
    <3>2. Base.mat = Larger(ckpt.mat, manifest.mat)
      BY DEF Base, Restored, CursorsAt
    <3> QED
      BY <3>1, <3>2 DEF Larger
  <2>7. lastSeen' = ckpt.acc
    <3>1. PICK l \in Int : l = ckpt.acc
      BY <2>2, <2>6 DEF Fresh
    <3>2. Max({} \cup {l}) \in {} \cup {l}
      BY FS_EmptySet, MaxWith
    <3>3. lastSeen' = Max({} \cup {l})
      BY <2>1, <2>3, <3>1 DEF RestartWith
    <3> QED
      BY <3>1, <3>2, <3>3
  <2>8. cur'.mat = Base.mat
    BY <2>1, <2>4 DEF RestartWith, Cursors
  <2>9. phase' = "init"
    BY <2>1, <2>3 DEF RestartWith, Contiguous
  <2>10. link' = 0 /\ ends' = 0
    BY <1>2, <1>14, <2>2 DEF Restart, StepInv, ghost
  <2> QED
    BY <2>2, <2>5, <2>6, <2>7, <2>8, <2>9, <2>10 DEF Starting, Fresh
<1> QED
  BY <1>3, <1>4, <1>5, <1>6, <1>7, <1>8, <1>9, <1>10, <1>11, <1>12, <1>13, <1>14
     DEF Next, SourceStep, IngestStep, GapStep, WriterStep, LifeStep

(* While nothing ends the collector, the batch the hub sends next is the one   *)
(* that ingest expects, through reconnects, replay, lives of the hub and       *)
(* recovered gaps.  (After a crash in a commit it need not be: see the run.)   *)
THEOREM NextIsExpected == ASSUME MaxEnds = 0 PROVE Spec => []InStep
<1>1. StepInv => InStep
  <2> SUFFICES ASSUME StepInv, Delivered, IsNew PROVE InSequence
    BY DEF InStep
  <2>1. link \in Nat /\ lastSeen \in Int /\ link # 0
    BY TypeInvIs DEF StepInv, LoopTyped, IngestTyped, Delivered
  <2> QED
    BY <2>1 DEF StepInv, IsNew, InSequence
<1>2. StepInv /\ [Next]_vars => StepInv'
  BY StepInvStep
<1> QED
  BY <1>1, <1>2, StepInvStarts, PTL DEF Spec

-------------------------------------------------------------------------------
(* Safe is what no restart can lose: the archived states, and those of the     *)
(* database's records that wait, which are never discarded for their sequence. *)
Archived == {b \in Buckets : archive[b] # "none"}
Safe == {b \in Buckets : archive[b] # "none"
                         \/ \E r \in files \ resolved : r.kind = "pg" /\ b \in r.rows}

(* What the books leave out they leave out with reason: A is what is archived, *)
(* S what is safe.                                                             *)
OpenSafe(z, S)  == \A b \in Buckets : Window(b) \in z.open /\ z.rows[b] = "pg" => b \in S
RowSafe(r, b, A, S) == IF r.kind = "pg" THEN b \in A ELSE b \in S
StagedSafe(z, A, S) ==
  \A t \in z.staged : \A b \in t.rec.rows : <<b, t.rec.kind>> \in t.left \/ RowSafe(t.rec, b, A, S)
EmptySafe(z, S) == \A e \in z.empties : e.rows \subseteq S /\ (e.kind = "pg" => e.rows = {})
OverSafe(z, S)  == \A k \in z.over : k[2] = "hub" /\ k[1] \in S
BooksSafe(z, A, S) ==
  OpenSafe(z, S) /\ StagedSafe(z, A, S) /\ EmptySafe(z, S) /\ OverSafe(z, S)

LEMMA SafeMore ==
  ASSUME NEW z, NEW A, NEW B, NEW S, NEW T, A \subseteq B, S \subseteq T, BooksSafe(z, A, S)
  PROVE  BooksSafe(z, B, T)
<1>1. OpenSafe(z, T)
  BY DEF BooksSafe, OpenSafe
<1>2. StagedSafe(z, B, T)
  BY DEF BooksSafe, StagedSafe, RowSafe
<1>3. EmptySafe(z, T) /\ OverSafe(z, T)
  BY DEF BooksSafe, EmptySafe, OverSafe
<1> QED
  BY <1>1, <1>2, <1>3 DEF BooksSafe

LEMMA StageSafe ==
  ASSUME NEW z \in GoodBooks, NEW r \in Record, NEW a \in [Buckets -> Version], NEW A, NEW S,
         A \subseteq S, \A b \in Buckets : a[b] # "none" => b \in A,
         r.kind = "pg" => r.rows \subseteq S, BooksSafe(z, A, S)
  PROVE  BooksSafe(Stage(z, r, a), A, S)
<1> DEFINE n == Stage(z, r, a)
           won == Won(z, r, a)
           beaten == Beaten(z, r, a)
<1>1. z \in Books
  BY DEF GoodBooks
<1>2. StagedAs(n, z, r, a)
  BY <1>1, StageParts
<1>3. r.kind \in {"hub", "pg"} /\ r.rows \subseteq Buckets
  BY RecordsAre DEF Kinds
<1>4. /\ won \subseteq r.rows /\ (r.kind = "pg" => won = r.rows)
      /\ beaten \subseteq won /\ (beaten # {} => r.kind = "pg")
  BY DEF Won, Beaten
<1>5. ASSUME NEW b \in Buckets, Known(z, r, a)[b] = "pg", Window(b) \in n.open PROVE b \in S
  <2>1. CASE Window(b) \in z.open
    <3>1. Known(z, r, a)[b] = z.rows[b]
      BY <2>1 DEF Known
    <3> QED
      BY <1>5, <2>1, <3>1 DEF BooksSafe, OpenSafe
  <2>2. CASE Window(b) \notin z.open
    <3>1. Known(z, r, a)[b] = a[b] \/ Known(z, r, a)[b] = "none"
      BY <2>2 DEF Known
    <3> QED
      BY <1>5, <3>1
  <2> QED
    BY <2>1, <2>2
<1>6. ASSUME NEW b \in r.rows, b \notin won PROVE r.kind = "hub" /\ b \in S
  <2>1. r.kind = "hub" /\ Known(z, r, a)[b] = "pg"
    BY <1>6 DEF Won
  <2>2. Window(b) \in n.open /\ b \in Buckets
    BY <1>2, <1>3 DEF StagedAs
  <2> QED
    BY <1>5, <2>1, <2>2
<1> HIDE DEF n, won, beaten
<1>7. OpenSafe(n, S)
  <2> SUFFICES ASSUME NEW b \in Buckets, Window(b) \in n.open, n.rows[b] = "pg" PROVE b \in S
    BY DEF OpenSafe
  <2>1. n.rows[b] = IF b \in won THEN r.kind ELSE Known(z, r, a)[b]
    BY <1>2 DEF StagedAs, won
  <2> QED
    BY <1>4, <1>5, <2>1
<1>8. StagedSafe(n, A, S)
  <2> DEFINE t == [rec |-> r, left |-> won \X {r.kind}]
  <2>1. n.staged \subseteq z.staged \cup {t}
    BY <1>2 DEF StagedAs, won
  <2>2. \A b \in r.rows : <<b, r.kind>> \in won \X {r.kind} \/ RowSafe(r, b, A, S)
    BY <1>4, <1>6 DEF RowSafe
  <2>3. t.rec = r /\ t.left = won \X {r.kind}
    OBVIOUS
  <2> HIDE DEF t
  <2> QED
    BY <2>1, <2>2, <2>3 DEF StagedSafe, BooksSafe
<1>9. EmptySafe(n, S)
  <2>1. n.empties = IF won = {} THEN z.empties \cup {r} ELSE z.empties
    BY <1>2 DEF StagedAs, won
  <2>2. won = {} => r.rows \subseteq S /\ (r.kind = "pg" => r.rows = {})
    BY <1>4, <1>6
  <2> QED
    BY <2>1, <2>2 DEF EmptySafe, BooksSafe
<1>10. OverSafe(n, S)
  <2>1. n.over \subseteq z.over \cup (beaten \X {"hub"})
    BY <1>2 DEF StagedAs, beaten
  <2>2. \A k \in beaten \X {"hub"} : k[2] = "hub" /\ k[1] \in S
    BY <1>4
  <2> QED
    BY <2>1, <2>2 DEF OverSafe, BooksSafe
<1> QED
  BY <1>7, <1>8, <1>9, <1>10 DEF BooksSafe, n

(* A record is ready only with good reason, and what it leaves is accounted    *)
(* for; K is what the flush wrote.                                             *)
LEMMA ReadySafe ==
  ASSUME NEW z \in GoodBooks, NEW keys, NEW all, NEW A, NEW S, A \subseteq S,
         \A k \in keys : k[1] \in A, BooksSafe(z, A, S)
  PROVE  /\ \A r \in Ready(z, keys, all) : \A b \in r.rows : RowSafe(r, b, A, S)
         /\ BooksSafe(Covered(z, keys, all), A, S)
<1>1. ASSUME NEW t \in z.staged, NEW b \in t.rec.rows, <<b, t.rec.kind>> \in keys \cup z.over
      PROVE  RowSafe(t.rec, b, A, S)
  <2> DEFINE k == <<b, t.rec.kind>>
  <2>1. k[1] = b /\ k[2] = t.rec.kind /\ k \in keys \cup z.over
    BY <1>1
  <2> HIDE DEF k
  <2>2. k \in keys => b \in A
    BY <2>1
  <2>3. k \in z.over => t.rec.kind = "hub" /\ b \in S
    BY <2>1 DEF BooksSafe, OverSafe
  <2> QED
    BY <2>1, <2>2, <2>3 DEF RowSafe
<1>2. ASSUME NEW r \in Ready(z, keys, all), NEW b \in r.rows PROVE RowSafe(r, b, A, S)
  <2>1. CASE r \in EmptiesDone(z, keys, all)
    <3>1. r \in z.empties
      BY <2>1 DEF EmptiesDone
    <3> QED
      BY <1>2, <3>1 DEF BooksSafe, EmptySafe, RowSafe
  <2>2. CASE r \notin EmptiesDone(z, keys, all)
    <3>1. PICK t \in z.staged : t.rec = r /\ t.left \subseteq keys \cup z.over
      BY <1>2, <2>2, ReadyAre
    <3>2. <<b, r.kind>> \in t.left \/ RowSafe(r, b, A, S)
      BY <1>2, <3>1 DEF BooksSafe, StagedSafe
    <3> QED
      BY <1>1, <1>2, <3>1, <3>2
  <2> QED
    BY <2>1, <2>2
<1> DEFINE n == Covered(z, keys, all)
<1>3. /\ n.rows = z.rows /\ n.open = z.open /\ n.staged = Waiting(z, keys)
      /\ n.over \subseteq z.over /\ n.empties \subseteq z.empties
  BY CoveredAre
<1> HIDE DEF n
<1>4. StagedSafe(n, A, S)
  <2> SUFFICES ASSUME NEW s \in n.staged, NEW b \in s.rec.rows, <<b, s.rec.kind>> \notin s.left
               PROVE  RowSafe(s.rec, b, A, S)
    BY DEF StagedSafe
  <2>1. PICK t \in z.staged : s = Less(t, z, keys)
    BY <1>3, WaitingAre
  <2>2. s.rec = t.rec /\ s.left = t.left \ (keys \cup z.over)
    BY <2>1 DEF Less
  <2>3. <<b, t.rec.kind>> \in t.left \/ RowSafe(t.rec, b, A, S)
    BY <2>2 DEF BooksSafe, StagedSafe
  <2> QED
    BY <1>1, <2>2, <2>3
<1>5. OpenSafe(n, S) /\ EmptySafe(n, S) /\ OverSafe(n, S)
  BY <1>3 DEF BooksSafe, OpenSafe, EmptySafe, OverSafe
<1> QED
  BY <1>2, <1>4, <1>5 DEF BooksSafe, n

-------------------------------------------------------------------------------
QueueSafe(q, S) == \A i \in DOMAIN q : q[i].kind = "pg" => q[i].rows \subseteq S
SafeInv ==
  /\ ImproveInv
  /\ BooksSafe(books, Archived, Safe)
  /\ QueueSafe(queue, Safe) /\ QueueSafe(job.todo, Safe)
  /\ \A k \in job.keys : k[1] \in Archived
  /\ \A r \in resolved : \A b \in r.rows : RowSafe(r, b, Archived, Safe)
  /\ job.receipts \subseteq resolved

LEMMA SafeSets ==
  /\ Archived \subseteq Safe /\ Safe \subseteq Buckets
  /\ \A b \in Buckets : archive[b] # "none" => b \in Archived
  /\ \A r \in files \ resolved : r \in Record /\ r.kind = "pg" => r.rows \subseteq Safe
BY RecordsAre DEF Archived, Safe

LEMMA SafeStarts == Init => SafeInv
<1> SUFFICES ASSUME Init PROVE SafeInv
  OBVIOUS
<1>1. BooksSafe(books, Archived, Safe)
  BY DEF Init, NoBooks, BooksSafe, OpenSafe, StagedSafe, EmptySafe, OverSafe
<1>2. job.keys = {} /\ job.receipts = {} /\ job.todo = <<>> /\ queue = <<>> /\ resolved = {}
  BY IdleFields DEF Init
<1>3. QueueSafe(<<>>, Safe)
  BY DEF QueueSafe
<1> QED
  BY <1>1, <1>2, <1>3, ImproveStarts DEF SafeInv

(* What Resolve finishes, and the books it leaves.                             *)
LEMMA FinishedSafe ==
  ASSUME SafeInv
  PROVE  \A r \in Ready(books, job.keys, job.all) : \A b \in r.rows :
            RowSafe(r, b, Archived, Safe)
<1>1. books \in GoodBooks
  BY TypeInvIs DEF SafeInv, ImproveInv, WriterTyped
<1>3. Archived \subseteq Safe /\ \A k \in job.keys : k[1] \in Archived
  BY SafeSets DEF SafeInv
<1>4. PICK A, S : A = Archived /\ S = Safe
  OBVIOUS
<1>5. BooksSafe(books, A, S)
  BY <1>4 DEF SafeInv
<1> QED
  BY <1>1, <1>3, <1>4, <1>5, ReadySafe

LEMMA ResolveSafe ==
  ASSUME SafeInv, Resolve
  PROVE  /\ \A r \in Ready(books, job.keys, job.all) : \A b \in r.rows :
              RowSafe(r, b, Archived, Safe)
         /\ BooksSafe(books', Archived, Safe)
<1>1. books \in GoodBooks
  BY TypeInvIs DEF SafeInv, ImproveInv, WriterTyped
<1>2. books' = Covered(books, job.keys, job.all)
  BY DEF Resolve
<1>3. Archived \subseteq Safe /\ \A k \in job.keys : k[1] \in Archived
  BY SafeSets DEF SafeInv
<1>4. PICK A, S : A = Archived /\ S = Safe
  OBVIOUS
<1>5. BooksSafe(books, A, S)
  BY <1>4 DEF SafeInv
<1> QED
  BY <1>1, <1>2, <1>3, <1>4, <1>5, ReadySafe

LEMMA SafeGrows ==
  ASSUME SafeInv, [Next]_vars
  PROVE  Archived \subseteq Archived' /\ Safe \subseteq Safe'
<1>1. \A b \in Buckets : archive[b] # "none" => archive'[b] # "none"
  BY ImproveStep DEF SafeInv, AsGood
<1>2. Archived \subseteq Archived'
  BY <1>1 DEF Archived
<1>3. TypeInv /\ files \subseteq Record
  BY TypeInvIs DEF SafeInv, ImproveInv, DiskTyped
<1> DEFINE Lasts(r) == r \in files' \ resolved' \/ r.rows \subseteq Archived'
<1> SUFFICES ASSUME NEW r \in files \ resolved, r.kind = "pg" PROVE Lasts(r)
  BY <1>1, <1>2 DEF Safe, Archived
<1>4. CASE resolved' = resolved /\ files \subseteq files'
  BY <1>4
<1>5. CASE Resolve \/ Crash
  <2>1. r \in Ready(books, job.keys, job.all) => r.rows \subseteq Archived
    BY FinishedSafe DEF RowSafe
  <2>2. files' = files /\ resolved' \subseteq resolved \cup Ready(books, job.keys, job.all)
    BY <1>5, CrashLeaves DEF Resolve, Crash
  <2> QED
    BY <1>2, <2>1, <2>2
<1>6. ASSUME NEW x \in job.receipts, Unlink(x) PROVE Lasts(r)
  <2>1. x \in resolved /\ r # x
    BY <1>6 DEF SafeInv
  <2> QED
    BY <1>6, <2>1 DEF Unlink
<1>7. CASE Restart
  <2>1. files' = Kept /\ resolved' = resolved
    BY <1>7, RestartIs DEF RestartWith, Restart
  <2>2. r \in Kept
    BY DEF Kept, AlreadyCommitted, InStream
  <2> QED
    BY <2>1, <2>2
<1>8. CASE MarketStep \/ SourceStep \/ IngestStep \/ GapStep \/ UNCHANGED vars
  <2>1. resolved' = resolved /\ files \subseteq files'
    BY <1>8 DEF MarketStep, SourceStep, IngestStep, GapStep, Publish, Persist, HubRestart, Connects,
       Drops, ReplayUnavailable, IngestNew, IngestKnown, IngestPaused, PlanBackfill, Backfill,
       Backfilled, ResumeFromHub, Journal, vars, disk
  <2> QED
    BY <1>4, <2>1
<1>9. CASE \/ WorkerTakes \/ StageNext \/ Staged \/ FlushAll \/ WriteWindow \/ WriteManifest
           \/ SaveCheckpoint \/ GivesUp \/ Signaled
  <2>1. resolved' = resolved /\ files \subseteq files'
    BY <1>9 DEF WorkerTakes, StageNext, Staged, FlushAll, WriteWindow, WriteManifest,
       SaveCheckpoint, GivesUp, Signaled, Stop, disk
  <2> QED
    BY <1>4, <2>1
<1> QED
  BY <1>5, <1>6, <1>7, <1>8, <1>9 DEF Next, WriterStep, LifeStep

(* What stays true of the same books, queues and keys because Safe grows.      *)
LEMMA SafeStays ==
  ASSUME SafeInv, [Next]_vars
  PROVE  /\ UNCHANGED books => BooksSafe(books, Archived, Safe)'
         /\ \A q : QueueSafe(q, Safe) => QueueSafe(q, Safe')
         /\ \A r : \A b : RowSafe(r, b, Archived, Safe) => RowSafe(r, b, Archived', Safe')
<1>1. Archived \subseteq Archived' /\ Safe \subseteq Safe'
  BY SafeGrows
<1>2. BooksSafe(books, Archived', Safe')
  <2>1. PICK A, B, S, T : A = Archived /\ B = Archived' /\ S = Safe /\ T = Safe'
    OBVIOUS
  <2>2. BooksSafe(books, A, S)
    BY <2>1 DEF SafeInv
  <2> QED
    BY <1>1, <2>1, <2>2, SafeMore
<1>3. UNCHANGED books => BooksSafe(books, Archived, Safe)'
  BY <1>2 DEF BooksSafe, OpenSafe, StagedSafe, EmptySafe, OverSafe
<1> QED
  BY <1>1, <1>3 DEF QueueSafe, RowSafe

LEMMA SafeStep == SafeInv /\ [Next]_vars => SafeInv'
<1> SUFFICES ASSUME SafeInv, [Next]_vars PROVE SafeInv'
  OBVIOUS
<1>1. /\ ImproveInv' /\ TypeInv /\ DiskTyped /\ IngestTyped /\ WriterTyped
      /\ books \in GoodBooks /\ archive \in [Buckets -> Version] /\ job \in Jobs
      /\ queue \in Seq(Record) /\ job.todo \in Seq(Record)
  BY ImproveStep, TypeInvIs DEF SafeInv, ImproveInv, DiskTyped, WriterTyped, IngestTyped, Jobs
<1>2. /\ Archived \subseteq Archived' /\ Safe \subseteq Safe' /\ Archived \subseteq Safe
      /\ Safe' \subseteq Buckets
  BY SafeGrows, SafeSets DEF Safe
<1>3. UNCHANGED books => BooksSafe(books, Archived, Safe)'
  BY SafeStays
<1>4. QueueSafe(queue, Safe') /\ QueueSafe(job.todo, Safe') /\ QueueSafe(<<>>, Safe')
  BY SafeStays DEF SafeInv, QueueSafe
<1>5. resolved' = resolved => \A r \in resolved' : \A b \in r.rows : RowSafe(r, b, Archived', Safe')
  BY SafeStays DEF SafeInv
<1>6. \A k \in job.keys : k[1] \in Archived'
  BY <1>2 DEF SafeInv
<1>7. job.receipts \subseteq resolved
  BY DEF SafeInv
<1> DEFINE Goal == /\ BooksSafe(books, Archived, Safe)'
                   /\ QueueSafe(queue, Safe)' /\ QueueSafe(job.todo, Safe)'
                   /\ \A k \in job'.keys : k[1] \in Archived'
                   /\ \A r \in resolved' : \A b \in r.rows : RowSafe(r, b, Archived', Safe')
                   /\ job'.receipts \subseteq resolved'
<1> SUFFICES Goal
  BY <1>1 DEF SafeInv
<1> HIDE DEF ImproveInv
<1>8. CASE UNCHANGED <<books, job, queue, resolved>>
  BY <1>3, <1>4, <1>5, <1>6, <1>7, <1>8 DEF QueueSafe
<1>9. CASE MarketStep \/ SourceStep \/ IngestKnown \/ IngestPaused \/ PlanBackfill \/ Backfilled
           \/ ResumeFromHub \/ GivesUp \/ Signaled \/ UNCHANGED vars
  BY <1>8, <1>9 DEF MarketStep, SourceStep, Publish, Persist, HubRestart, Connects, Drops,
     ReplayUnavailable, IngestKnown, IngestPaused, PlanBackfill, Backfilled, ResumeFromHub,
     GivesUp, Signaled, Stop, vars, disk, ingest, writer
<1>10. ASSUME NEW r \in Record, Journal(r), UNCHANGED <<books, job, resolved>> PROVE Goal
  <2>1. queue' = Append(queue, r) /\ r \in files'
    BY <1>10 DEF Journal
  <2>2. r.kind = "pg" => r.rows \subseteq Safe'
    <3>1. CASE r \in resolved
      <4>1. r.kind = "pg" => r.rows \subseteq Archived
        BY <3>1 DEF SafeInv, RowSafe
      <4> QED
        BY <1>2, <4>1
    <3>2. CASE r \notin resolved
      <4>1. r \in files' \ resolved'
        BY <1>10, <2>1, <3>2
      <4> QED
        BY <4>1, RecordsAre DEF Safe
    <3> QED
      BY <3>1, <3>2
  <2>3. QueueSafe(queue', Safe')
    <3>1. PICK q \in Seq(Record), S \in SUBSET Buckets : q = queue /\ S = Safe'
      BY <1>1, <1>2
    <3>2. QueueSafe(Append(q, r), S)
      BY <1>4, <2>2, <3>1 DEF QueueSafe
    <3> QED
      BY <2>1, <3>1, <3>2
  <2> QED
    BY <1>3, <1>4, <1>5, <1>6, <1>7, <1>10, <2>3 DEF QueueSafe
<1>11. CASE IngestNew
  <2>1. ArrivedRecord \in Record /\ Journal(ArrivedRecord)
    BY <1>1, <1>11, ArrivedIs DEF IngestNew
  <2> QED
    BY <1>10, <1>11, <2>1 DEF IngestNew, writer
<1>12. CASE Backfill
  <2>1. BackfillBatch \in Record /\ Journal(BackfillBatch)
    <3>1. gap.next \in Buckets
      <4>1. /\ gap.next \in Nat /\ gap.until \in -1..MaxBucket /\ gap.next <= gap.until
            /\ MaxBucket \in Nat
        BY <1>1, <1>12, TypeInvIs, BucketsAre DEF Backfill, LoopTyped, Gaps
      <4> QED
        BY <4>1 DEF Buckets
    <3>2. BackfillBatch \in Record
      BY <3>1, SelectedAssumption DEF BackfillBatch, BackfillRecord, Record, Kinds, NoStream
    <3> QED
      BY <1>12, <3>2 DEF Backfill
  <2> QED
    BY <1>10, <1>12, <2>1 DEF Backfill, writer
<1>13. CASE WorkerTakes
  <2>1. job'.todo = queue /\ job'.keys = {} /\ job'.receipts = {}
    <3>1. JobIs(job', "stage", queue, {}, {}, {}, FALSE, -1)
      BY <1>1, <1>13, JobSteps
    <3> QED
      BY <3>1 DEF JobIs
  <2>2. UNCHANGED <<books, resolved>> /\ queue' = <<>>
    BY <1>13 DEF WorkerTakes, disk
  <2> QED
    BY <1>3, <1>4, <1>5, <2>1, <2>2 DEF QueueSafe
<1>14. CASE StageNext
  <2> DEFINE r == Head(job.todo)
  <2>1. /\ job'.todo = Tail(job.todo) /\ job'.keys = job.keys /\ job'.receipts = job.receipts
    BY <1>1, <1>14, JobSteps, JobFields
  <2>2. /\ UNCHANGED <<archive, resolved, queue>> /\ Archived' = Archived
        /\ Safe' = Safe /\ books' = Stage(books, r, archive) /\ job.todo # <<>>
    BY <1>14 DEF StageNext, disk, ingest, Archived, Safe
  <2>3. r \in Record /\ (r.kind = "pg" => r.rows \subseteq Safe)
    BY <1>1, <2>2, NextLatestIs DEF SafeInv, QueueSafe
  <2>4. BooksSafe(books', Archived', Safe')
    <3>1. PICK A, S : A = Archived /\ S = Safe
      OBVIOUS
    <3>2. BooksSafe(books, A, S) /\ A \subseteq S /\ \A b \in Buckets : archive[b] # "none" => b \in A
      BY <1>2, <3>1, SafeSets DEF SafeInv
    <3>3. BooksSafe(Stage(books, r, archive), A, S)
      BY <1>1, <2>3, <3>1, <3>2, StageSafe
    <3> QED
      BY <2>2, <3>1, <3>3
  <2>5. QueueSafe(job'.todo, Safe')
    <3>1. PICK q \in Seq(Record), S \in SUBSET Buckets : q = job.todo /\ S = Safe'
      BY <1>1, <1>2
    <3>2. q # <<>> => QueueSafe(Tail(q), S)
      BY <1>4, <3>1 DEF QueueSafe
    <3> QED
      BY <2>1, <2>2, <3>1, <3>2
  <2> QED
    BY <1>4, <1>5, <1>6, <1>7, <2>1, <2>2, <2>4, <2>5 DEF BooksSafe, QueueSafe, OpenSafe, StagedSafe,
       EmptySafe, OverSafe
<1>15. CASE Staged
  <2>1. job'.todo = job.todo /\ job'.keys = job.keys /\ job'.receipts = job.receipts
    BY <1>1, <1>15, JobSteps, JobFields
  <2>2. UNCHANGED <<books, resolved, queue>>
    BY <1>15 DEF Staged, disk, ingest
  <2> QED
    BY <1>3, <1>4, <1>5, <1>6, <1>7, <2>1, <2>2 DEF QueueSafe
<1>16. CASE FlushAll
  <2>1. job'.todo = <<>> /\ job'.keys = {} /\ job'.receipts = {}
    <3>1. JobIs(job', "write", <<>>, books.open, {}, {}, TRUE, -1)
      BY <1>1, <1>16, JobSteps
    <3> QED
      BY <3>1 DEF JobIs
  <2>2. UNCHANGED <<books, resolved, queue>>
    BY <1>16 DEF FlushAll, disk, ingest
  <2> QED
    BY <1>3, <1>4, <1>5, <2>1, <2>2 DEF QueueSafe
<1>17. CASE WriteWindow
  <2> DEFINE w == Min(job.windows)
  <2>1. /\ job'.todo = job.todo /\ job'.keys = job.keys \cup KeysIn(books, w)
        /\ job'.receipts = job.receipts
    BY <1>1, <1>17, JobSteps, JobFields
  <2>2. /\ UNCHANGED <<resolved, queue>> /\ archive' = Written(archive, books, w)
        /\ books' = Closed(books, w)
    BY <1>17 DEF WriteWindow, ingest
  <2> HIDE DEF w
  <2>3. /\ \A b \in Buckets : archive'[b] = IF Window(b) = w THEN books.rows[b] ELSE archive[b]
        /\ books'.open = books.open \ {w}
        /\ \A b \in Buckets : books'.rows[b] = IF Window(b) = w THEN "none" ELSE books.rows[b]
        /\ books'.staged = books.staged /\ books'.over = books.over
        /\ books'.empties = books.empties
        /\ KeysIn(books, w) \subseteq Key
        /\ \A k \in KeysIn(books, w) : Window(k[1]) = w /\ books.rows[k[1]] = k[2]
    BY <1>1, <2>2, WriteGood
  <2>4. BooksSafe(books', Archived', Safe')
    <3>1. PICK A, B, S, T : A = Archived /\ B = Archived' /\ S = Safe /\ T = Safe'
      OBVIOUS
    <3>2. BooksSafe(books, A, S)
      BY <3>1 DEF SafeInv
    <3>3. BooksSafe(books, B, T)
      BY <1>2, <3>1, <3>2, SafeMore
    <3>4. StagedSafe(books', B, T) /\ EmptySafe(books', T) /\ OverSafe(books', T)
      BY <2>3, <3>3 DEF BooksSafe, StagedSafe, EmptySafe, OverSafe
    <3>5. OpenSafe(books', T)
      BY <2>3, <3>3 DEF BooksSafe, OpenSafe
    <3> QED
      BY <3>1, <3>4, <3>5 DEF BooksSafe
  <2>5. \A k \in KeysIn(books, w) : k[1] \in Archived'
    <3> SUFFICES ASSUME NEW k \in KeysIn(books, w) PROVE k[1] \in Archived'
      OBVIOUS
    <3>1. k \in Key /\ Window(k[1]) = w /\ books.rows[k[1]] = k[2]
      BY <2>3
    <3>2. k[1] \in Buckets /\ k[2] # "none"
      BY <3>1 DEF Key, Kinds
    <3> QED
      BY <2>3, <3>1, <3>2 DEF Archived
  <2>6. \A k \in job'.keys : k[1] \in Archived'
    BY <1>6, <2>1, <2>5
  <2> QED
    BY <1>4, <1>5, <1>7, <2>1, <2>2, <2>4, <2>6 DEF BooksSafe, QueueSafe, OpenSafe, StagedSafe,
       EmptySafe, OverSafe
<1>18. CASE Resolve
  <2> DEFINE done == Ready(books, job.keys, job.all)
  <2>1. job'.todo = job.todo /\ job'.keys = job.keys /\ job'.receipts = done
    BY <1>1, <1>18, JobSteps, JobFields
  <2>2. resolved' = resolved \cup done /\ queue' = queue
    BY <1>18 DEF Resolve
  <2>3. /\ \A r \in done : \A b \in r.rows : RowSafe(r, b, Archived, Safe)
        /\ BooksSafe(books', Archived, Safe)
    BY <1>18, ResolveSafe
  <2> HIDE DEF done
  <2>4. \A r \in resolved' : \A b \in r.rows : RowSafe(r, b, Archived', Safe')
    <3>1. \A r \in resolved' : \A b \in r.rows : RowSafe(r, b, Archived, Safe)
      BY <2>2, <2>3 DEF SafeInv
    <3> QED
      BY <3>1, SafeStays
  <2>5. BooksSafe(books', Archived', Safe')
    <3>1. PICK A, B, S, T : A = Archived /\ B = Archived' /\ S = Safe /\ T = Safe'
      OBVIOUS
    <3> QED
      BY <1>2, <2>3, <3>1, SafeMore
  <2> QED
    BY <1>4, <1>6, <2>1, <2>2, <2>4, <2>5 DEF BooksSafe, QueueSafe, OpenSafe, StagedSafe,
       EmptySafe, OverSafe
<1>19. CASE WriteManifest
  <2>1. job'.todo = job.todo /\ job'.keys = job.keys /\ job'.receipts = job.receipts
    BY <1>1, <1>19, JobSteps, JobFields
  <2>2. UNCHANGED <<books, resolved, queue>>
    BY <1>19 DEF WriteManifest, ingest
  <2> QED
    BY <1>3, <1>4, <1>5, <1>6, <1>7, <2>1, <2>2 DEF QueueSafe
<1>20. ASSUME NEW r \in job.receipts, Unlink(r) PROVE Goal
  <2>1. JobIs(job', IF job.receipts = {r} THEN "save" ELSE "unlink", job.todo, job.windows,
              job.keys, job.receipts \ {r}, job.all, job.latest)
    BY <1>1, <1>20, JobSteps
  <2>2. job'.todo = job.todo /\ job'.keys = job.keys /\ job'.receipts = job.receipts \ {r}
    BY <2>1, JobFields
  <2>3. UNCHANGED <<books, resolved, queue>>
    BY <1>20 DEF Unlink
  <2> QED
    BY <1>3, <1>4, <1>5, <1>6, <1>7, <2>2, <2>3 DEF QueueSafe
<1>21. CASE SaveCheckpoint
  <2>1. UNCHANGED <<books, resolved, queue>> /\ job' = IdleJob
    BY <1>21 DEF SaveCheckpoint, ingest
  <2> QED
    BY <1>3, <1>4, <1>5, <2>1, IdleFields DEF QueueSafe
<1>22. CASE Crash
  <2>1. books' = NoBooks /\ queue' = <<>> /\ job' = IdleJob
    BY <1>22 DEF Crash
  <2>2. BooksSafe(books', Archived', Safe')
    BY <2>1 DEF NoBooks, BooksSafe, OpenSafe, StagedSafe, EmptySafe, OverSafe
  <2>3. ASSUME NEW r \in resolved', NEW b \in r.rows
        PROVE  RowSafe(r, b, Archived', Safe')
    <3>1. RowSafe(r, b, Archived, Safe)
      BY <1>22, <2>3, CrashLeaves, FinishedSafe DEF SafeInv
    <3> QED
      BY <3>1, SafeStays
  <2>4. QueueSafe(queue', Safe') /\ QueueSafe(job'.todo, Safe')
    BY <1>4, <2>1, IdleFields
  <2>5. job'.keys = {} /\ job'.receipts = {}
    BY <2>1, IdleFields
  <2>6. QueueSafe(queue, Safe)' /\ QueueSafe(job.todo, Safe)' /\ BooksSafe(books, Archived, Safe)'
    BY <2>2, <2>4 DEF QueueSafe, BooksSafe, OpenSafe, StagedSafe, EmptySafe, OverSafe
  <2> QED
    BY <2>3, <2>5, <2>6
<1>23. CASE Restart
  <2>1. PICK q \in Orders(Kept) : RestartWith(q)
    BY <1>23, RestartIs
  <2>2. /\ Kept \subseteq Record /\ IsFiniteSet(Kept) /\ q \in Seq(Record)
        /\ \A i \in DOMAIN q : q[i] \in Kept
    <3>1. Kept \subseteq files /\ files \subseteq Record /\ IsFiniteSet(files)
      BY <1>1 DEF Kept, DiskTyped
    <3> QED
      BY <3>1, FS_Subset, OrdersAre
  <2>3. PICK a \in [Buckets -> Version], A \in SUBSET Buckets, S \in SUBSET Buckets :
          a = archive /\ A = Archived' /\ S = Safe'
    BY <1>1, <1>2 DEF Archived
  <2>4. archive' = archive /\ resolved' = resolved /\ files' = Kept /\ queue' = <<>>
    BY <1>23, <2>1 DEF RestartWith, Restart
  <2>5. A \subseteq S /\ \A b \in Buckets : a[b] # "none" => b \in A
    BY <2>3, <2>4 DEF Archived, Safe
  <2>6. \A i \in DOMAIN q : q[i].kind = "pg" => q[i].rows \subseteq S
    <3> SUFFICES ASSUME NEW i \in DOMAIN q, q[i].kind = "pg" PROVE q[i].rows \subseteq S
      OBVIOUS
    <3>1. q[i] \in Kept /\ q[i] \notin resolved /\ q[i].rows \subseteq Buckets
      BY <2>2, RecordsAre DEF Kept, AlreadyCommitted
    <3> QED
      BY <2>3, <2>4, <3>1 DEF Safe
  <2> DEFINE G == {z \in GoodBooks : BooksSafe(z, A, S)}
  <2>7. NoBooks \in G
    BY NoBooksGood DEF NoBooks, BooksSafe, OpenSafe, StagedSafe, EmptySafe, OverSafe
  <2>8. \A z \in G : \A i \in DOMAIN q : Stage(z, q[i], a) \in G
    BY <2>2, <2>5, <2>6, StageGood, StageSafe
  <2>9. Restaged(q, a) \in G
    <3> HIDE DEF G
    <3> QED
      BY <2>2, <2>7, <2>8, RestagedIn
  <2>10. BooksSafe(books', Archived', Safe')
    BY <2>1, <2>3, <2>9 DEF RestartWith
  <2>11. job'.todo = <<>> /\ job'.keys = {} /\ job'.receipts = {}
    BY <1>1, <1>23, <2>1, RestartTypes, JobFields
  <2> QED
    BY <1>4, <1>5, <2>4, <2>10, <2>11 DEF QueueSafe, BooksSafe, OpenSafe, StagedSafe,
       EmptySafe, OverSafe
<1> QED
  BY <1>9, <1>11, <1>12, <1>13, <1>14, <1>15, <1>16, <1>17, <1>18, <1>19, <1>20, <1>21, <1>22, <1>23
     DEF Next, IngestStep, GapStep, WriterStep, LifeStep

(* What the collector has once acknowledged as materialized, and may therefore *)
(* discard wherever it finds it again, is in the archive or in one of the      *)
(* database's records that still wait (commit_materialization): the windows of *)
(* one flush, a better copy staged later and the loss of memory change nothing *)
(* about that.                                                                 *)
CommittedKept == \A r \in resolved : r.rows \subseteq Have
THEOREM CommittedIsKept == Spec => []CommittedKept
<1>1. SafeInv => CommittedKept
  <2> SUFFICES ASSUME SafeInv, NEW r \in resolved, NEW b \in r.rows PROVE b \in Have
    BY DEF CommittedKept
  <2>1. Safe \subseteq Have /\ Archived \subseteq Safe
    BY DEF Safe, Have, Archived
  <2>2. RowSafe(r, b, Archived, Safe)
    BY DEF SafeInv
  <2> QED
    BY <2>1, <2>2 DEF RowSafe
<1>2. SafeInv /\ [Next]_vars => SafeInv'
  BY SafeStep
<1> QED
  BY <1>1, <1>2, SafeStarts, PTL DEF Spec

-------------------------------------------------------------------------------
(* One life of the hub (MaxStreams = 1): a sequence stands for one batch.      *)
Rec(n)  == HubRecord(1, n, hub.log[n].last, Rows(hub.log[n]))
Done(n) == Rows(hub.log[n]) \subseteq Safe
Sequences == 1..Latest

GapPhases == {"gap", "backfill", "drain", "switch"}

(* Buckets go up with the sequence, and nothing is safe that was not closed.   *)
LogInv ==
  /\ \A n \in Sequences : hub.log[n].last < hub.next
  /\ \A m, n \in Sequences : m < n => hub.log[m].last < hub.log[n].first
  /\ pg < hub.next /\ (phase \in GapPhases => gap.until < hub.next)
  /\ \A c \in Safe : c < hub.next

(* Held: the records that the process still has to do something with.          *)
Elems(q)  == {q[i] : i \in DOMAIN q}
Stocked(z) == {t.rec : t \in z.staged} \cup z.empties
InBooks   == Stocked(books)
Held      == Elems(queue) \cup Elems(job.todo) \cup InBooks \cup job.receipts
HubsOf(S) == {r \in S : r.kind = "hub"}
JobShape ==
  /\ job.step # "stage" => job.todo = <<>>
  /\ job.step \notin {"manifest", "unlink"} => job.receipts = {}
  /\ job.step = "stage" => job.keys = {}
FlushShape ==
  job.all => /\ job.step \in {"write", "manifest", "unlink", "save"}
             /\ phase # "stopping" => queue = <<>>
             /\ job.step = "write" => job.windows = books.open
             /\ job.step # "write" => InBooks = {}
PlaceInv ==
  /\ \A r \in HubsOf(files \cup pend \cup Held) : r.seq \in Sequences /\ r = Rec(r.seq)
  /\ files \ resolved \subseteq pend
  /\ phase # "down" => pend \subseteq Held
  /\ \A r \in HubsOf(pend \cup Held) : r.seq <= lastSeen
  /\ JobShape
  /\ FlushShape
  /\ phase = "switch" => Held = {}
  /\ phase = "down" => job.step = "idle"

(* Hub records go through queue, worker and books in sequence.                 *)
Rising(q) == \A i, j \in DOMAIN q : i < j /\ q[i].kind = "hub" /\ q[j].kind = "hub"
                                      => q[i].seq < q[j].seq
Before(S, T) == \A r \in HubsOf(S) : \A s \in HubsOf(T) : r.seq < s.seq
OrderInv ==
  /\ Rising(queue) /\ Rising(job.todo)
  /\ Before(InBooks, Elems(job.todo)) /\ Before(InBooks, Elems(queue))
  /\ Before(Elems(job.todo), Elems(queue))

(* What a staged record waits for is in an open window; flushed windows come   *)
(* before the open ones.                                                       *)
InWindow(z, k) == Window(k[1]) \in z.open /\ z.rows[k[1]] = k[2]
LeftKnown(z, K) ==
  \A t \in z.staged : t.left # {} /\ \A k \in t.left :
    /\ k[1] \in t.rec.rows /\ k[2] = t.rec.kind
    /\ k \in z.over \/ k \in K \/ InWindow(z, k)
HubRowsKnown(z, S) ==
  \A c \in Buckets : Window(c) \in z.open /\ z.rows[c] = "hub"
    => c \in S \/ \E t \in z.staged : t.rec.kind = "hub" /\ c \in t.rec.rows
WindowInv ==
  /\ LeftKnown(books, IF job.step = "write" THEN job.keys ELSE {})
  /\ HubRowsKnown(books, Safe)
  /\ job.step = "write" => 
       /\ \A w \in job.windows : \A v \in books.open : v <= w => v \in job.windows
       /\ \A k \in job.keys : \A v \in books.open : v <= Window(k[1]) => v \in job.windows

(* The cursors, in memory and on disk.                                         *)
Resume == Larger(ckpt.mat, manifest.mat)
CursorInv ==
  /\ cur.mat <= cur.acc /\ cur.high <= cur.acc /\ cur.acc <= Latest
  /\ manifest.mat <= manifest.acc /\ manifest.high <= manifest.acc /\ manifest.acc <= cur.acc
  /\ ckpt.mat <= ckpt.acc /\ (ckpt.acc <= cur.acc \/ ckpt.acc <= 0)
  /\ lastSeen <= cur.acc
  /\ phase # "down" => ckpt.mat <= cur.mat /\ manifest.mat <= cur.mat
  /\ phase \in GapPhases => cur.acc <= gap.latest /\ gap.latest <= Latest
  /\ {ckpt.bucket, lastBucket} \subseteq Archived \cup {-1}
  /\ link # 0 /\ src.seq # NoSeq => link = src.seq + 1
  /\ phase \in {"run", "paused"} =>
       /\ src.seq <= cur.acc
       /\ src.seq = NoSeq => cur.mat = NoSeq /\ HubsOf(pend \cup Held) = {}

(* A batch that may still come, or come again, or be discarded: RowsLow: what  *)
(* is safe above it, it is safe below; Past: a cursor has passed it.           *)
RowsLow(n) == \A b \in Rows(hub.log[n]) : \A c \in Safe : b <= c => b \in Safe
Past(n) == \/ n <= cur.high \/ n <= cur.mat
           \/ n <= ckpt.mat \/ n <= manifest.high \/ n <= manifest.mat
Good(n) ==
  /\ RowsLow(n)
  /\ Past(n) => Done(n)
  /\ n <= cur.acc => Rec(n) \in files \/ Done(n)
After(seq, n) == NoSeq < seq /\ seq < n
Wanted(n) ==
  \/ Rec(n) \in files
  \/ \E s \in HubsOf(pend \cup Held) : s.seq <= n
  \/ After(Resume, n)
  \/ phase # "down" /\ After(cur.mat, n)
  \/ phase \in {"run", "paused"} /\ After(src.seq, n)
  \/ link # 0 /\ link <= n
  \/ phase \in GapPhases /\ gap.latest < n
WantedInv == \A n \in Sequences : Wanted(n) => Good(n)

BackInv ==
  phase = "backfill" => \E c \in Safe \cup {-1} :
    \A b \in Selected : c < b /\ b < gap.next => b \in Safe
AcceptedInv == \A r \in accepted : r \in files \/ r.rows \subseteq Safe
KeepInv ==
  /\ SafeInv /\ LogInv /\ PlaceInv /\ OrderInv /\ WindowInv /\ CursorInv
  /\ WantedInv /\ BackInv /\ AcceptedInv

-------------------------------------------------------------------------------
(* What every step leaves of the log and adds to what is safe.                 *)
Publishes == \E k \in 1..2 : Publish(k)

LEMMA LogIs ==
  ASSUME TypeInv
  PROVE  /\ hub.log \in Seq(Batch) /\ Latest \in Nat /\ hub.next \in 0..MaxBucket + 1 /\ pg \in Int
         /\ Sequences \subseteq Nat /\ MaxBucket \in Nat
         /\ \A n \in Sequences : /\ hub.log[n] \in Batch
                                 /\ hub.log[n].first \in Int /\ hub.log[n].last \in Int
                                 /\ Rows(hub.log[n]) \subseteq Buckets
                                 /\ \A b \in Rows(hub.log[n]) :
                                      hub.log[n].first <= b /\ b <= hub.log[n].last
<1>1. /\ hub.log \in Seq(Batch) /\ hub.next \in 0..MaxBucket + 1 /\ pg \in Int /\ MaxBucket \in Nat
  BY TypeInvIs, BucketsAre DEF MarketTyped
<1>2. Latest \in Nat /\ Sequences = 1..Len(hub.log) /\ Len(hub.log) \in Nat
  BY <1>1 DEF Latest, Sequences
<1>3. ASSUME NEW n \in Sequences
      PROVE  /\ hub.log[n] \in Batch
             /\ hub.log[n].first \in Int /\ hub.log[n].last \in Int
             /\ Rows(hub.log[n]) \subseteq Buckets
             /\ \A b \in Rows(hub.log[n]) : hub.log[n].first <= b /\ b <= hub.log[n].last
  <2>1. hub.log[n] \in Batch
    BY <1>1, <1>2, <1>3
  <2>2. PICK x \in Batch : x = hub.log[n]
    BY <2>1
  <2>3. x.first \in Buckets /\ x.last \in Buckets
    BY <2>2 DEF Batch
  <2>4. Rows(x) \subseteq Buckets /\ \A b \in Rows(x) : x.first <= b /\ b <= x.last
    BY <2>3, SelectedAssumption, BucketsAre DEF Rows
  <2> QED
    BY <2>1, <2>2, <2>3, <2>4, BucketsAre
<1> QED
  BY <1>1, <1>2, <1>3

LEMMA HubStays ==
  ASSUME MaxStreams = 1, TypeInv, [Next]_vars, ~Publishes
  PROVE  hub' = hub
<1>1. hub.stream = 1
  BY TypeInvIs DEF MarketTyped
<1>2. ~HubRestart
  BY <1>1 DEF HubRestart
<1>3. CASE UNCHANGED vars
  BY <1>3 DEF vars, market
<1>4. CASE MarketStep
  BY <1>2, <1>4 DEF MarketStep, Publishes, Persist
<1>5. CASE SourceStep \/ IngestStep \/ GapStep
  BY <1>5 DEF SourceStep, IngestStep, GapStep, Connects, Drops, ReplayUnavailable, IngestNew,
     IngestKnown, IngestPaused, PlanBackfill, Backfill, Backfilled, ResumeFromHub, market
<1>6. CASE WriterStep
  BY <1>6 DEF WriterStep, WorkerTakes, StageNext, Staged, FlushAll, WriteWindow, Resolve,
     WriteManifest, Unlink, SaveCheckpoint, market
<1>7. CASE LifeStep
  BY <1>7 DEF LifeStep, GivesUp, Signaled, Stop, Crash, Restart, market
<1> QED
  BY <1>3, <1>4, <1>5, <1>6, <1>7 DEF Next

LEMMA PublishIs ==
  ASSUME TypeInv, NEW k \in 1..2, Publish(k)
  PROVE  /\ Latest' = Latest + 1 /\ \A n \in Sequences : hub'.log[n] = hub.log[n]
         /\ hub'.log[Latest + 1].first = hub.next
         /\ hub'.log[Latest + 1].last = hub.next + k - 1
         /\ hub'.next = hub.next + k /\ hub'.log \in Seq(Batch)
         /\ Sequences' = Sequences \cup {Latest + 1} /\ Latest + 1 \notin Sequences
         /\ UNCHANGED <<disk, ingest, writer, loop, ghost>>
         /\ (pg' = pg \/ pg' < hub.next + k)
<1> DEFINE last == hub.next + k - 1
           b == [first |-> hub.next, last |-> last]
           log == Append(hub.log, b)
           nx == last + 1
<1>1. hub.log \in Seq(Batch) /\ hub.next \in Int /\ Len(hub.log) = Latest /\ Latest \in Nat
  BY LogIs DEF Latest
<1>2. hub' = [hub EXCEPT !.log = log, !.next = nx] /\ last <= MaxBucket
  BY DEF Publish
<1>3. hub \in [stream : 1..MaxStreams, log : Seq(Batch), next : 0..MaxBucket + 1]
  BY TypeInvIs DEF MarketTyped
<1>4. hub'.log = log /\ hub'.next = nx
  <2> HIDE DEF log, nx
  <2> QED
    BY <1>2, <1>3
<1>5. b.first = hub.next /\ b.last = last /\ nx = hub.next + k
  BY <1>1
<1>6. b \in Batch
  BY <1>2, LogIs DEF Batch, Buckets
<1> HIDE DEF b, last, nx
<1>7. /\ Len(log) = Latest + 1 /\ log[Latest + 1] = b /\ log \in Seq(Batch)
      /\ \A n \in 1..Latest : log[n] = hub.log[n]
  BY <1>1, <1>6
<1>8. UNCHANGED <<disk, ingest, writer, loop, ghost>>
  BY DEF Publish
<1> HIDE DEF log
<1>9. Latest' = Latest + 1 /\ Sequences' = 1..(Latest + 1)
  BY <1>4, <1>7 DEF Latest, Sequences
<1>10. Sequences' = Sequences \cup {Latest + 1} /\ Latest + 1 \notin Sequences
  BY <1>1, <1>9 DEF Sequences
<1>11. \A n \in Sequences : hub'.log[n] = hub.log[n]
  BY <1>4, <1>7 DEF Sequences
<1>12. hub'.log[Latest + 1] = b
  BY <1>4, <1>7
<1>13. last = hub.next + k - 1
  BY DEF last
<1>14. hub'.log[Latest + 1].first = hub.next /\ hub'.log[Latest + 1].last = hub.next + k - 1
  BY <1>5, <1>12, <1>13
<1>15. pg' = pg \/ pg' < hub.next + k
  <2>1. pg' = Larger(pg, last - MaxLag)
    BY DEF Publish, last
  <2>2. pg' = pg \/ pg' = last - MaxLag
    BY <2>1 DEF Larger
  <2>3. MaxLag \in Nat /\ last \in Int
    BY <1>1, <1>13, BoundsAre
  <2> QED
    BY <1>1, <1>13, <2>2, <2>3
<1> QED
  BY <1>4, <1>5, <1>7, <1>8, <1>9, <1>10, <1>11, <1>14, <1>15

LEMMA LogGrows ==
  ASSUME MaxStreams = 1, TypeInv, [Next]_vars
  PROVE  /\ \A n \in Sequences : hub'.log[n] = hub.log[n] /\ Rec(n)' = Rec(n)
         /\ Sequences \subseteq Sequences' /\ Latest <= Latest' /\ hub.next <= hub'.next
         /\ hub.next \in Int /\ hub'.next \in Int /\ Latest \in Nat /\ Latest' \in Nat
         /\ ~Publishes => hub' = hub /\ Latest' = Latest /\ Sequences' = Sequences
<1>1. CASE Publishes
  <2>1. PICK k \in 1..2 : Publish(k)
    BY <1>1 DEF Publishes
  <2>2. \A n \in Sequences : hub'.log[n] = hub.log[n]
    BY <2>1, PublishIs
  <2>3. \A n \in Sequences : Rec(n)' = Rec(n)
    BY <2>2 DEF Rec
  <2>4. Latest' = Latest + 1 /\ hub'.next = hub.next + k /\ Sequences \subseteq Sequences'
    BY <2>1, PublishIs
  <2>5. Latest \in Nat /\ hub.next \in Int
    BY LogIs
  <2> QED
    BY <1>1, <2>2, <2>3, <2>4, <2>5
<1>2. CASE ~Publishes
  <2>1. hub' = hub
    BY <1>2, HubStays
  <2> QED
    BY <1>2, <2>1, LogIs DEF Rec, Latest, Sequences
<1> QED
  BY <1>1, <1>2

-------------------------------------------------------------------------------
(* Which steps touch what.                                                     *)
Unlinks == \E r \in job.receipts : Unlink(r)
LEMMA Frames ==
  ASSUME [Next]_vars
  PROVE  /\ archive' = archive \/ WriteWindow
         /\ resolved' = resolved \/ Resolve \/ Crash
         /\ manifest' = manifest \/ WriteManifest
         /\ ckpt' = ckpt \/ SaveCheckpoint \/ ResumeFromHub
         /\ files' = files \/ IngestNew \/ Backfill \/ Restart \/ Unlinks
         /\ pend' = pend \/ IngestNew \/ Backfill \/ Restart \/ Unlinks
         /\ cur' = cur \/ IngestNew \/ Backfill \/ Restart \/ Resolve \/ ResumeFromHub
         /\ lastSeen' = lastSeen \/ IngestNew \/ Restart \/ ResumeFromHub
         /\ lastBucket' = lastBucket \/ SaveCheckpoint \/ Restart
         /\ queue' = queue \/ IngestNew \/ Backfill \/ Restart \/ WorkerTakes \/ Crash
         /\ books' = books \/ StageNext \/ WriteWindow \/ Resolve \/ Restart \/ Crash
         /\ job' = job \/ WriterStep \/ Restart \/ Crash
         /\ accepted' = accepted \/ IngestNew \/ Backfill
<1>1. CASE UNCHANGED vars
  BY <1>1 DEF vars, disk, ingest, writer, ghost
<1>2. CASE MarketStep \/ SourceStep \/ GivesUp \/ Signaled
  BY <1>2 DEF MarketStep, Publish, Persist, HubRestart, SourceStep, Connects, Drops,
     ReplayUnavailable, GivesUp, Signaled, Stop, disk, ingest, writer, ghost
<1>3. CASE IngestStep
  BY <1>3 DEF IngestStep, IngestNew, IngestKnown, IngestPaused, disk, ingest, writer, ghost
<1>4. CASE GapStep
  BY <1>4 DEF GapStep, PlanBackfill, Backfill, Backfilled, ResumeFromHub, disk, ingest, writer,
     ghost
<1>5. CASE WorkerTakes \/ StageNext \/ Staged \/ FlushAll \/ WriteWindow
  BY <1>5 DEF WorkerTakes, StageNext, Staged, FlushAll, WriteWindow, disk, ingest, writer, ghost,
     WriterStep
<1>6. CASE Resolve \/ WriteManifest \/ SaveCheckpoint
  BY <1>6 DEF Resolve, WriteManifest, SaveCheckpoint, disk, ingest, writer, ghost, WriterStep
<1>7. CASE Unlinks
  BY <1>7 DEF Unlinks, Unlink, disk, ingest, writer, ghost, WriterStep
<1>8. CASE Crash \/ Restart
  BY <1>8 DEF Crash, Restart, disk, ingest, writer, ghost
<1> QED
  BY <1>1, <1>2, <1>3, <1>4, <1>5, <1>6, <1>7, <1>8 DEF Next, WriterStep, LifeStep, Unlinks

(* A state becomes safe when its window is written, or when a backfill         *)
(* journals it.                                                                *)
LEMMA SafeFrom ==
  ASSUME SafeInv, [Next]_vars, NEW c \in Safe'
  PROVE  \/ c \in Safe
         \/ WriteWindow /\ Window(c) = Min(job.windows) /\ InWindow(books, <<c, "hub">>)
         \/ Backfill /\ c = gap.next /\ c \in Selected
<1>1. TypeInv /\ c \in Buckets
  BY DEF SafeInv, ImproveInv, Safe
<1>2. CASE archive'[c] # "none"
  <2>1. CASE archive' = archive
    BY <1>1, <1>2, <2>1 DEF Safe
  <2>2. CASE WriteWindow
    <3> DEFINE w == Min(job.windows)
    <3>1. w \in job.windows /\ job.windows \subseteq books.open
      BY <1>1, <2>2, FirstWindow DEF SafeInv, ImproveInv, WritesOpen, WriteWindow
    <3>2. books \in GoodBooks /\ archive \in [Buckets -> Version]
      BY <1>1, TypeInvIs DEF WriterTyped, DiskTyped
    <3>3. archive' = Written(archive, books, w)
      BY <2>2 DEF WriteWindow
    <3> HIDE DEF w
    <3>4. archive'[c] = IF Window(c) = w THEN books.rows[c] ELSE archive[c]
      BY <1>1, <3>2, <3>3, WriteGood
    <3>5. CASE Window(c) # w
      BY <1>1, <1>2, <3>4, <3>5 DEF Safe
    <3>6. CASE Window(c) = w
      <4>1. books.rows[c] \in Version
        BY <1>1, <3>2, BooksAre DEF GoodBooks
      <4>2. Window(c) \in books.open
        BY <3>1, <3>6
      <4>3. books.rows[c] = "pg" => c \in Safe
        BY <1>1, <4>2 DEF SafeInv, BooksSafe, OpenSafe
      <4>4. books.rows[c] = "hub" => InWindow(books, <<c, "hub">>)
        BY <4>2 DEF InWindow
      <4> QED
        BY <1>2, <2>2, <3>4, <3>6, <4>1, <4>3, <4>4 DEF Version, Kinds, w
    <3> QED
      BY <3>5, <3>6
  <2> QED
    BY <2>1, <2>2, Frames
<1>3. CASE archive'[c] = "none"
  <2>1. PICK r \in files' \ resolved' : r.kind = "pg" /\ c \in r.rows
    BY <1>3 DEF Safe
  <2>2. r \notin resolved
    BY <2>1, Frames, CrashLeaves DEF Resolve
  <2>3. CASE r \in files
    BY <1>1, <2>1, <2>2, <2>3 DEF Safe
  <2>4. CASE r \notin files
    <3>1. CASE IngestNew
      <4>1. r = ArrivedRecord
        BY <2>1, <2>4, <3>1 DEF IngestNew, Journal
      <4> QED
        BY <2>1, <4>1 DEF ArrivedRecord, HubRecord
    <3>2. CASE Backfill
      <4>1. r = BackfillBatch
        BY <2>1, <2>4, <3>2 DEF Backfill, Journal
      <4> QED
        BY <2>1, <3>2, <4>1 DEF BackfillBatch, BackfillRecord
    <3>3. ~Unlinks /\ ~Restart
      BY <2>1, <2>4 DEF Unlinks, Unlink, Restart
    <3> QED
      BY <2>1, <2>4, <3>1, <3>2, <3>3, Frames
  <2> QED
    BY <2>3, <2>4
<1> QED
  BY <1>2, <1>3

-------------------------------------------------------------------------------
(* What a sequence, the books and the process hold.                            *)
LEMMA ElemsAre ==
  /\ Elems(<<>>) = {}
  /\ \A q \in Seq(Record) : /\ Elems(q) \subseteq Record
                            /\ \A r \in Record : Elems(Append(q, r)) = Elems(q) \cup {r}
                            /\ q # <<>> => Elems(q) = Elems(Tail(q)) \cup {Head(q)}
<1>1. Elems(<<>>) = {}
  BY DEF Elems
<1>2. ASSUME NEW q \in Seq(Record), NEW r \in Record
      PROVE  Elems(Append(q, r)) = Elems(q) \cup {r}
  <2>1. /\ DOMAIN q = 1..Len(q) /\ DOMAIN Append(q, r) = 1..(Len(q) + 1) /\ Len(q) \in Nat
        /\ \A i \in 1..Len(q) : Append(q, r)[i] = q[i]
        /\ Append(q, r)[Len(q) + 1] = r
    OBVIOUS
  <2>2. 1..(Len(q) + 1) = 1..Len(q) \cup {Len(q) + 1}
    BY <2>1
  <2> HIDE DEF Elems
  <2> QED
    BY <2>1, <2>2 DEF Elems
<1>3. ASSUME NEW q \in Seq(Record), q # <<>>
      PROVE  Elems(q) = Elems(Tail(q)) \cup {Head(q)}
  <2>1. /\ DOMAIN q = 1..Len(q) /\ Len(q) \in Nat /\ Len(q) > 0 /\ Head(q) = q[1]
        /\ DOMAIN Tail(q) = 1..(Len(q) - 1)
        /\ \A i \in 1..(Len(q) - 1) : Tail(q)[i] = q[i + 1]
    BY <1>3
  <2>2. ASSUME NEW x \in Elems(q) PROVE x \in Elems(Tail(q)) \cup {Head(q)}
    <3>1. PICK i \in 1..Len(q) : x = q[i]
      BY <2>1 DEF Elems
    <3>2. CASE i = 1
      BY <2>1, <3>1, <3>2
    <3>3. CASE i # 1
      <4>1. i - 1 \in 1..(Len(q) - 1) /\ (i - 1) + 1 = i
        BY <2>1, <3>3
      <4>2. Tail(q)[i - 1] = x
        BY <2>1, <3>1, <4>1
      <4> QED
        BY <2>1, <4>1, <4>2 DEF Elems
    <3> QED
      BY <3>2, <3>3
  <2>3. ASSUME NEW x \in Elems(Tail(q)) PROVE x \in Elems(q)
    <3>1. PICK i \in 1..(Len(q) - 1) : x = Tail(q)[i]
      BY <2>1, <2>3 DEF Elems
    <3>2. i + 1 \in 1..Len(q) /\ x = q[i + 1]
      BY <2>1, <3>1
    <3> QED
      BY <2>1, <3>2 DEF Elems
  <2>4. Head(q) \in Elems(q)
    BY <2>1 DEF Elems
  <2> QED
    BY <2>2, <2>3, <2>4
<1>4. ASSUME NEW q \in Seq(Record) PROVE Elems(q) \subseteq Record
  BY <1>4 DEF Elems
<1> QED
  BY <1>1, <1>2, <1>3, <1>4

LEMMA StageStocks ==
  ASSUME NEW z \in Books, NEW r \in Record, NEW a \in [Buckets -> Version]
  PROVE  Stocked(Stage(z, r, a)) = Stocked(z) \cup {r}
<1>1. PICK n : n = Stage(z, r, a)
  OBVIOUS
<1>2. StagedAs(n, z, r, a)
  BY <1>1, StageParts
<1>3. CASE Won(z, r, a) = {}
  BY <1>1, <1>2, <1>3 DEF StagedAs, Stocked
<1>4. CASE Won(z, r, a) # {}
  <2> DEFINE t == [rec |-> r, left |-> Won(z, r, a) \X {r.kind}]
  <2>1. n.staged = z.staged \cup {t} /\ n.empties = z.empties /\ t.rec = r
    BY <1>2, <1>4 DEF StagedAs
  <2> HIDE DEF t
  <2> QED
    BY <1>1, <2>1 DEF Stocked
<1> QED
  BY <1>3, <1>4

LEMMA ResolveStocks ==
  ASSUME NEW z \in GoodBooks, NEW keys, NEW all
  PROVE  Stocked(z) = Stocked(Covered(z, keys, all)) \cup Ready(z, keys, all)
<1>1. PICK n : n = Covered(z, keys, all)
  OBVIOUS
<1>2. n.staged = Waiting(z, keys) /\ n.empties = z.empties \ EmptiesDone(z, keys, all)
  BY <1>1, CoveredAre
<1>3. \A s : s \in Waiting(z, keys) <=> s.left # {} /\ \E t \in z.staged : s = Less(t, z, keys)
  BY WaitingAre
<1>4. \A t : Less(t, z, keys).rec = t.rec
  BY DEF Less
<1>5. {s.rec : s \in Waiting(z, keys)} \subseteq {t.rec : t \in z.staged}
  BY <1>3, <1>4
<1>6. EmptiesDone(z, keys, all) \subseteq z.empties
  BY DEF EmptiesDone
<1> QED
  BY <1>1, <1>2, <1>5, <1>6 DEF Stocked, Ready

LEMMA RestageStocks ==
  ASSUME NEW q \in Seq(Record), NEW a \in [Buckets -> Version]
  PROVE  Stocked(Restaged(q, a)) = Elems(q)
<1>1. Len(q) \in Nat /\ DOMAIN q = 1..Len(q) /\ \A i \in 1..Len(q) : q[i] \in Record
  OBVIOUS
<1> DEFINE Fam(n) == {z \in GoodBooks : Stocked(z) = {q[i] : i \in 1..n}}
           F == [n \in 0..Len(q) |-> Fam(n)]
<1>2. \A n \in 0..Len(q) : F[n] = Fam(n)
  OBVIOUS
<1> HIDE DEF F
<1>3. NoBooks \in F[0]
  <2>1. Stocked(NoBooks) = {}
    BY DEF NoBooks, Stocked
  <2> QED
    BY <1>1, <1>2, <2>1, NoBooksGood
<1>4. ASSUME NEW n \in 1..Len(q), NEW z \in F[n - 1] PROVE Stage(z, q[n], a) \in F[n]
  <2>1. n - 1 \in 0..Len(q) /\ n \in 0..Len(q) /\ q[n] \in Record /\ 1..n = 1..(n - 1) \cup {n}
    BY <1>1
  <2>2. z \in GoodBooks /\ Stocked(z) = {q[i] : i \in 1..(n - 1)}
    BY <1>2, <2>1
  <2>3. Stage(z, q[n], a) \in GoodBooks
    BY <2>1, <2>2, StageGood
  <2>4. Stocked(Stage(z, q[n], a)) = Stocked(z) \cup {q[n]}
    BY <2>1, <2>2, StageStocks DEF GoodBooks
  <2>5. {q[i] : i \in 1..n} = {q[i] : i \in 1..(n - 1)} \cup {q[n]}
    BY <2>1
  <2> QED
    BY <1>2, <2>1, <2>2, <2>3, <2>4, <2>5
<1>5. Restaged(q, a) \in F[Len(q)]
  BY <1>3, <1>4, RestagedThrough
<1> QED
  BY <1>1, <1>2, <1>5 DEF Elems

-------------------------------------------------------------------------------
LEMMA BackfillIs ==
  ASSUME TypeInv, Backfill
  PROVE  /\ BackfillBatch \in Record /\ BackfillBatch.kind = "pg" /\ BackfillBatch.seq = 0
         /\ BackfillBatch.rows = {gap.next} \cap Selected
         /\ gap.next \in Buckets
<1>1. gap \in Gaps /\ gap.next <= gap.until
  BY TypeInvIs DEF LoopTyped, Backfill
<1>2. gap.next \in Buckets
  BY <1>1, BucketsAre DEF Gaps, Buckets
<1> QED
  BY <1>2, SelectedAssumption, BoundsAre
     DEF BackfillBatch, BackfillRecord, Record, Kinds, NoStream

(* What the process holds changes only when a record is journalled, unlinked,  *)
(* or read again at a start.                                                   *)
HeldOf(q, t, s, r) == Elems(q) \cup Elems(t) \cup s \cup r
LEMMA HeldIs ==
  ASSUME TypeInv
  PROVE  /\ Held  = HeldOf(queue, job.todo, Stocked(books), job.receipts)
         /\ Held' = HeldOf(queue', job'.todo, Stocked(books'), job'.receipts)
         /\ job \in Jobs /\ books \in GoodBooks /\ queue \in Seq(Record)
         /\ job.todo \in Seq(Record) /\ archive \in [Buckets -> Version]
<1>1. job \in Jobs /\ books \in GoodBooks /\ queue \in Seq(Record) /\ archive \in [Buckets -> Version]
  BY TypeInvIs DEF WriterTyped, IngestTyped, DiskTyped
<1>2. job.todo \in Seq(Record)
  BY <1>1 DEF Jobs
<1> QED
  BY <1>1, <1>2 DEF Held, HeldOf, InBooks

LEMMA HeldByWriter ==
  ASSUME TypeInv, JobShape, WriterStep
  PROVE  /\ ~Unlinks => Held' = Held
         /\ \A r \in job.receipts : Unlink(r) => Held' \subseteq Held /\ Held \ {r} \subseteq Held'
<1>1. /\ Held  = HeldOf(queue, job.todo, Stocked(books), job.receipts)
      /\ Held' = HeldOf(queue', job'.todo, Stocked(books'), job'.receipts)
      /\ job \in Jobs /\ books \in GoodBooks /\ queue \in Seq(Record)
      /\ job.todo \in Seq(Record) /\ archive \in [Buckets -> Version] /\ books \in Books
  BY HeldIs DEF GoodBooks
<1>2. CASE WorkerTakes
  <2>1. job.todo = <<>> /\ job.receipts = {} /\ queue' = <<>> /\ books' = books
    BY <1>2 DEF WorkerTakes, JobShape
  <2>2. job'.todo = queue /\ job'.receipts = {}
    <3>1. JobIs(job', "stage", queue, {}, {}, {}, FALSE, -1)
      BY <1>2, JobSteps
    <3> QED
      BY <3>1 DEF JobIs
  <2>3. ~Unlinks
    BY <1>2 DEF WorkerTakes, Unlinks, Unlink
  <2> QED
    BY <1>1, <2>1, <2>2, <2>3, ElemsAre DEF HeldOf, Unlinks
<1>3. CASE StageNext
  <2>1. queue' = queue /\ job.todo # <<>> /\ books' = Stage(books, Head(job.todo), archive)
    BY <1>3 DEF StageNext, ingest
  <2>2. Head(job.todo) \in Record
    BY <2>1, NextLatestIs
  <2>3. Stocked(books') = Stocked(books) \cup {Head(job.todo)}
    BY <1>1, <2>1, <2>2, StageStocks
  <2>4. job'.todo = Tail(job.todo) /\ job'.receipts = job.receipts
    BY <1>3, JobSteps, JobFields
  <2>5. Elems(job.todo) = Elems(Tail(job.todo)) \cup {Head(job.todo)}
    BY <1>1, <2>1, ElemsAre
  <2>6. ~Unlinks
    BY <1>3 DEF StageNext, Unlinks, Unlink
  <2> QED
    BY <1>1, <2>1, <2>3, <2>4, <2>5, <2>6 DEF HeldOf, Unlinks
<1>4. CASE Staged
  <2>1. queue' = queue /\ books' = books
    BY <1>4 DEF Staged, ingest
  <2>2. job'.todo = job.todo /\ job'.receipts = job.receipts
    BY <1>4, JobSteps, JobFields
  <2>3. ~Unlinks
    BY <1>4 DEF Staged, Unlinks, Unlink
  <2> QED
    BY <1>1, <2>1, <2>2, <2>3 DEF Unlinks
<1>5. CASE FlushAll
  <2>1. queue' = queue /\ books' = books /\ job.todo = <<>> /\ job.receipts = {}
    BY <1>5 DEF FlushAll, ingest, JobShape
  <2>2. job'.todo = <<>> /\ job'.receipts = {}
    <3>1. JobIs(job', "write", <<>>, books.open, {}, {}, TRUE, -1)
      BY <1>5, JobSteps
    <3> QED
      BY <3>1 DEF JobIs
  <2>3. ~Unlinks
    BY <1>5 DEF FlushAll, Unlinks, Unlink
  <2> QED
    BY <1>1, <2>1, <2>2, <2>3 DEF Unlinks
<1>6. CASE WriteWindow
  <2>1. queue' = queue /\ books' = Closed(books, Min(job.windows))
    BY <1>6 DEF WriteWindow, ingest
  <2>2. job'.todo = job.todo /\ job'.receipts = job.receipts
    <3>1. PICK w : w = Min(job.windows)
      OBVIOUS
    <3> QED
      BY <1>6, JobSteps, JobFields
  <2>3. Stocked(books') = Stocked(books)
    BY <1>1, <2>1, WriteGood DEF Stocked
  <2>4. ~Unlinks
    BY <1>6 DEF WriteWindow, Unlinks, Unlink
  <2> QED
    BY <1>1, <2>1, <2>2, <2>3, <2>4 DEF Unlinks
<1>7. CASE Resolve
  <2>1. queue' = queue /\ books' = Covered(books, job.keys, job.all) /\ job.receipts = {}
    BY <1>7 DEF Resolve, ingest, JobShape
  <2>2. job'.todo = job.todo /\ job'.receipts = Ready(books, job.keys, job.all)
    BY <1>7, JobSteps, JobFields
  <2>3. Stocked(books) = Stocked(books') \cup Ready(books, job.keys, job.all)
    BY <1>1, <2>1, ResolveStocks
  <2>4. ~Unlinks
    BY <1>7 DEF Resolve, Unlinks, Unlink
  <2> QED
    BY <1>1, <2>1, <2>2, <2>3, <2>4 DEF HeldOf, Unlinks
<1>8. CASE WriteManifest
  <2>1. queue' = queue /\ books' = books
    BY <1>8 DEF WriteManifest, ingest
  <2>2. job'.todo = job.todo /\ job'.receipts = job.receipts
    BY <1>8, JobSteps, JobFields
  <2>3. ~Unlinks
    BY <1>8 DEF WriteManifest, Unlinks, Unlink
  <2> QED
    BY <1>1, <2>1, <2>2, <2>3 DEF Unlinks
<1>9. CASE SaveCheckpoint
  <2>1. queue' = queue /\ books' = books /\ job.todo = <<>> /\ job.receipts = {} /\ job' = IdleJob
    BY <1>9 DEF SaveCheckpoint, ingest, JobShape
  <2>2. ~Unlinks
    BY <1>9 DEF SaveCheckpoint, Unlinks, Unlink
  <2> QED
    BY <1>1, <2>1, <2>2, IdleFields DEF Unlinks
<1>10. ASSUME NEW x \in job.receipts, Unlink(x)
       PROVE  Held' \subseteq Held /\ Held \ {x} \subseteq Held'
  <2>1. queue' = queue /\ books' = books
    BY <1>10 DEF Unlink
  <2>2. job'.todo = job.todo /\ job'.receipts = job.receipts \ {x}
    <3>1. JobIs(job', IF job.receipts = {x} THEN "save" ELSE "unlink", job.todo, job.windows,
                job.keys, job.receipts \ {x}, job.all, job.latest)
      BY <1>10, JobSteps
    <3> QED
      BY <3>1, JobFields
  <2> QED
    BY <1>1, <2>1, <2>2 DEF HeldOf
<1> QED
  BY <1>2, <1>3, <1>4, <1>5, <1>6, <1>7, <1>8, <1>9, <1>10 DEF WriterStep, Unlinks

LEMMA RestartHolds == ASSUME TypeInv, Restart PROVE Held' = Kept
<1>1. /\ Held' = HeldOf(queue', job'.todo, Stocked(books'), job'.receipts)
      /\ archive \in [Buckets -> Version]
  BY HeldIs
<1>2. PICK q \in Orders(Kept) : RestartWith(q)
  BY RestartIs
<1>3. q \in Seq(Record) /\ Kept \subseteq files
      /\ JobIs(job', IF Kept = {} THEN "save" ELSE "idle", <<>>, {}, {}, {}, Kept = {}, -1)
  BY <1>2, RestartTypes
<1>4. job'.todo = <<>> /\ job'.receipts = {}
  BY <1>3, JobFields
<1>5. files \subseteq Record /\ IsFiniteSet(files)
  BY TypeInvIs DEF DiskTyped
<1>6. Kept \subseteq Record /\ IsFiniteSet(Kept)
  BY <1>3, <1>5, FS_Subset
<1>7. Elems(q) = Kept
  BY <1>2, <1>6, OrdersAre DEF Elems
<1>8. queue' = <<>> /\ Stocked(books') = Elems(q)
  BY <1>1, <1>2, <1>3, RestageStocks DEF RestartWith
<1> QED
  BY <1>1, <1>4, <1>7, <1>8, ElemsAre DEF HeldOf

LEMMA HeldFrom ==
  ASSUME TypeInv, JobShape, [Next]_vars
  PROVE  \/ Held' = Held
         \/ IngestNew /\ Held' = Held \cup {ArrivedRecord}
         \/ Backfill /\ Held' = Held \cup {BackfillBatch}
         \/ \E r \in job.receipts : Unlink(r) /\ Held' \subseteq Held /\ Held \ {r} \subseteq Held'
         \/ Restart /\ Held' = Kept
         \/ Crash /\ Held' = {}
<1>1. /\ Held  = HeldOf(queue, job.todo, Stocked(books), job.receipts)
      /\ Held' = HeldOf(queue', job'.todo, Stocked(books'), job'.receipts)
      /\ job \in Jobs /\ books \in GoodBooks /\ queue \in Seq(Record)
      /\ job.todo \in Seq(Record) /\ archive \in [Buckets -> Version] /\ books \in Books
  BY HeldIs DEF GoodBooks
<1>2. CASE queue' = queue /\ books' = books /\ job' = job
  BY <1>1, <1>2
<1>3. CASE WriterStep
  BY <1>3, HeldByWriter DEF Unlinks
<1>4. CASE IngestNew
  <2>1. ArrivedRecord \in Record
    BY <1>4, ArrivedIs DEF IngestNew
  <2>2. queue' = Append(queue, ArrivedRecord) /\ books' = books /\ job' = job
    BY <1>4 DEF IngestNew, Journal, writer
  <2> QED
    BY <1>1, <1>4, <2>1, <2>2, ElemsAre DEF HeldOf
<1>5. CASE Backfill
  <2>1. BackfillBatch \in Record
    BY <1>5, BackfillIs
  <2>2. queue' = Append(queue, BackfillBatch) /\ books' = books /\ job' = job
    BY <1>5 DEF Backfill, Journal, writer
  <2> QED
    BY <1>1, <1>5, <2>1, <2>2, ElemsAre DEF HeldOf
<1>6. CASE Crash
  <2>1. queue' = <<>> /\ books' = NoBooks /\ job' = IdleJob
    BY <1>6 DEF Crash
  <2> QED
    BY <1>1, <1>6, <2>1, IdleFields, ElemsAre DEF HeldOf, Stocked, NoBooks
<1>7. CASE Restart
  BY <1>7, RestartHolds
<1> QED
  BY <1>2, <1>3, <1>4, <1>5, <1>6, <1>7, Frames DEF Unlinks, WriterStep

-------------------------------------------------------------------------------
LEMMA PhaseFrom ==
  ASSUME [Next]_vars
  PROVE  \/ phase' = phase
         \/ /\ ReplayUnavailable \/ IngestPaused \/ PlanBackfill \/ Backfilled \/ ResumeFromHub
         \/ /\ SaveCheckpoint /\ job.all
         \/ GivesUp \/ Signaled \/ Crash \/ Restart
<1>1. CASE UNCHANGED vars
  BY <1>1 DEF vars, loop
<1>2. CASE MarketStep \/ Connects \/ Drops \/ IngestNew \/ IngestKnown \/ Backfill
  BY <1>2 DEF MarketStep, Publish, Persist, HubRestart, Connects, Drops, IngestNew, IngestKnown,
     Backfill, loop
<1>3. CASE WriterStep
  BY <1>3 DEF WriterStep, WorkerTakes, StageNext, Staged, FlushAll, WriteWindow, Resolve,
     WriteManifest, Unlink, SaveCheckpoint, loop
<1> QED
  BY <1>1, <1>2, <1>3 DEF Next, SourceStep, IngestStep, GapStep, LifeStep

LEMMA PhaseIs ==
  ASSUME TypeInv, [Next]_vars
  PROVE  /\ phase = "down" /\ phase' # "down" => Restart
         /\ phase' = "switch" /\ phase # "switch" => SaveCheckpoint /\ job.all /\ phase = "drain"
         /\ phase = "stopping" /\ phase' # "stopping" => SaveCheckpoint \/ Crash
         /\ phase' \in {"run", "paused"} /\ phase \notin {"run", "paused"}
              => ResumeFromHub \/ (SaveCheckpoint /\ job.all /\ phase = "init")
         /\ phase' \in GapPhases /\ phase \notin GapPhases => ReplayUnavailable
         /\ phase' = "backfill" /\ phase # "backfill" => PlanBackfill
         /\ phase' = "down" /\ phase # "down" => SaveCheckpoint \/ Crash
<1>1. job.all => phase \in {"init", "paused", "drain", "stopping"}
  BY TypeInvIs DEF FlushTyped, Flushing
<1>2. SaveCheckpoint /\ job.all =>
        /\ phase = "init"     => phase' = "run"
        /\ phase = "paused"   => phase' = "run"
        /\ phase = "drain"    => phase' = "switch"
        /\ phase = "stopping" => phase' = "down"
  BY DEF SaveCheckpoint, AfterFlush
<1>3. Restart => phase = "down" /\ phase' \in {"init", "wedged"}
  BY DEF Restart
<1>4. GivesUp \/ Signaled =>
        /\ phase' = "stopping" /\ phase \in {"run", "gap", "backfill", "switch", "paused"}
  BY DEF GivesUp, Signaled, Stop, Fails, Delivered
<1>5. Crash => phase' = "down" /\ phase # "down"
  BY DEF Crash
<1>6. /\ ReplayUnavailable => phase = "run" /\ phase' = "gap"
      /\ IngestPaused => phase = "run" /\ phase' = "paused"
      /\ PlanBackfill => phase = "gap" /\ phase' = "backfill"
      /\ Backfilled => phase = "backfill" /\ phase' = "drain"
      /\ ResumeFromHub => phase = "switch" /\ phase' = "run"
  BY DEF ReplayUnavailable, IngestPaused, PlanBackfill, Backfilled, ResumeFromHub, Delivered
<1>7. CASE phase' = phase
  BY <1>7
<1>8. CASE ReplayUnavailable \/ IngestPaused \/ PlanBackfill \/ Backfilled \/ ResumeFromHub
  BY <1>6, <1>8 DEF GapPhases
<1>9. CASE SaveCheckpoint /\ job.all
  BY <1>1, <1>2, <1>9 DEF GapPhases
<1>10. CASE GivesUp \/ Signaled \/ Crash \/ Restart
  BY <1>3, <1>4, <1>5, <1>10 DEF GapPhases
<1> QED
  BY <1>7, <1>8, <1>9, <1>10, PhaseFrom

LEMMA PgFrom ==
  ASSUME [Next]_vars, ~Publishes
  PROVE  pg' = pg \/ (pg < hub.next - 1 /\ pg' = pg + 1)
<1>1. CASE MarketStep
  BY <1>1 DEF MarketStep, Publishes, Persist, HubRestart
<1>2. CASE UNCHANGED vars
  BY <1>2 DEF vars, market
<1>3. CASE SourceStep \/ IngestStep \/ GapStep
  BY <1>3 DEF SourceStep, IngestStep, GapStep, Connects, Drops, ReplayUnavailable, IngestNew,
     IngestKnown, IngestPaused, PlanBackfill, Backfill, Backfilled, ResumeFromHub, market
<1>4. CASE WriterStep
  BY <1>4 DEF WriterStep, WorkerTakes, StageNext, Staged, FlushAll, WriteWindow, Resolve,
     WriteManifest, Unlink, SaveCheckpoint, market
<1>5. CASE LifeStep
  BY <1>5 DEF LifeStep, GivesUp, Signaled, Stop, Crash, Restart, market
<1> QED
  BY <1>1, <1>2, <1>3, <1>4, <1>5 DEF Next

LEMMA GapFrom ==
  ASSUME gap \in Gaps, [Next]_vars
  PROVE  /\ gap' # gap =>
              \/ gap'.until \in {-1, pg}
              \/ gap'.until = gap.until /\ phase = "backfill"
         /\ \/ gap' = gap
            \/ gap' = NoGap /\ phase' \in {"run", "stopping", "down"}
            \/ ReplayUnavailable /\ gap'.latest = Latest
            \/ PlanBackfill /\ gap' = [gap EXCEPT !.next = ckpt.bucket + 1, !.until = pg]
            \/ Backfill /\ gap' = [gap EXCEPT !.next = gap.next + 1]
<1>1. CASE UNCHANGED vars
  BY <1>1 DEF vars, loop
<1>2. CASE MarketStep \/ Connects \/ Drops \/ IngestStep \/ Backfilled
  BY <1>2 DEF MarketStep, Publish, Persist, HubRestart, Connects, Drops, IngestStep, IngestNew,
     IngestKnown, IngestPaused, Backfilled, loop
<1>3. CASE WriterStep
  BY <1>3 DEF WriterStep, WorkerTakes, StageNext, Staged, FlushAll, WriteWindow, Resolve,
     WriteManifest, Unlink, SaveCheckpoint, loop
<1>4. CASE ReplayUnavailable
  <2>1. gap' = [NoGap EXCEPT !.stream = hub.stream, !.latest = Latest]
    BY <1>4 DEF ReplayUnavailable
  <2>2. gap'.until = -1 /\ gap'.latest = Latest
    BY <2>1 DEF NoGap
  <2> QED
    BY <1>4, <2>2
<1>5. CASE PlanBackfill
  <2>1. gap' = [gap EXCEPT !.next = ckpt.bucket + 1, !.until = pg]
    BY <1>5 DEF PlanBackfill
  <2>2. gap'.until = pg
    BY <2>1 DEF Gaps
  <2> QED
    BY <1>5, <2>1, <2>2
<1>6. CASE Backfill
  BY <1>6 DEF Backfill, Gaps
<1>7. CASE ResumeFromHub \/ GivesUp \/ Signaled \/ Crash
  <2>1. gap' = NoGap /\ NoGap.until = -1 /\ phase' \in {"run", "stopping", "down"}
    BY <1>7 DEF ResumeFromHub, GivesUp, Signaled, Stop, Crash, NoGap
  <2> QED
    BY <2>1
<1>8. CASE Restart
  BY <1>8 DEF Restart
<1> QED
  BY <1>1, <1>2, <1>3, <1>4, <1>5, <1>6, <1>7, <1>8 DEF Next, SourceStep, GapStep, LifeStep

(* The hub's records in this one life.                                         *)
LEMMA RecIs ==
  ASSUME TypeInv, NEW n \in Sequences
  PROVE  /\ Rec(n).kind = "hub" /\ Rec(n).seq = n /\ Rec(n).stream = 1
         /\ Rec(n).rows = Rows(hub.log[n]) /\ n \in Nat /\ n >= 1 /\ n <= Latest
BY LogIs DEF Rec, HubRecord, Sequences

LEMMA ArrivedIsRec ==
  ASSUME MaxStreams = 1, TypeInv, Delivered
  PROVE  ArrivedRecord = Rec(link) /\ link \in Sequences /\ phase = "run"
<1>1. hub.stream = 1
  BY TypeInvIs DEF MarketTyped
<1> QED
  BY <1>1 DEF ArrivedRecord, Arrived, Rec, Delivered, Sequences

LEMMA FilesFrom ==
  ASSUME TypeInv, [Next]_vars
  PROVE  /\ \A r \in files' \cup pend' : \/ r \in files \cup pend
                                         \/ IngestNew /\ r = ArrivedRecord
                                         \/ Backfill /\ r = BackfillBatch
         /\ Restart => files' = Kept /\ pend' = Kept /\ Kept \subseteq files
<1>1. Restart => files' = Kept /\ pend' = Kept
  BY RestartIs DEF RestartWith
<1>2. Kept \subseteq files
  BY DEF Kept
<1>3. Unlinks => files' \subseteq files /\ pend' \subseteq pend
  BY DEF Unlinks, Unlink
<1>4. IngestNew => files' = files \cup {ArrivedRecord} /\ pend' = pend \cup {ArrivedRecord}
  BY DEF IngestNew, Journal
<1>5. Backfill => files' = files \cup {BackfillBatch} /\ pend' = pend \cup {BackfillBatch}
  BY DEF Backfill, Journal
<1>6. \A r \in files' : \/ r \in files \cup pend
                        \/ IngestNew /\ r = ArrivedRecord
                        \/ Backfill /\ r = BackfillBatch
  BY <1>1, <1>2, <1>3, <1>4, <1>5, Frames
<1>7. \A r \in pend' : \/ r \in files \cup pend
                       \/ IngestNew /\ r = ArrivedRecord
                       \/ Backfill /\ r = BackfillBatch
  BY <1>1, <1>2, <1>3, <1>4, <1>5, Frames
<1> QED
  BY <1>1, <1>2, <1>6, <1>7

LEMMA HubsFrom ==
  ASSUME TypeInv, JobShape, [Next]_vars
  PROVE  /\ HubsOf(files' \cup pend' \cup Held') \subseteq
              HubsOf(files \cup pend \cup Held) \cup (IF IngestNew THEN {ArrivedRecord} ELSE {})
         /\ \/ HubsOf(pend' \cup Held') \subseteq
                 HubsOf(pend \cup Held) \cup (IF IngestNew THEN {ArrivedRecord} ELSE {})
            \/ Restart /\ pend' = Kept /\ Held' = Kept
<1>1. Backfill => BackfillBatch.kind = "pg"
  BY BackfillIs
<1>2. \A r \in Held' : \/ r \in Held \cup files
                       \/ IngestNew /\ r = ArrivedRecord
                       \/ Backfill /\ r = BackfillBatch
  BY HeldFrom, FilesFrom
<1>3. Restart \/ \A r \in Held' : \/ r \in Held
                                  \/ IngestNew /\ r = ArrivedRecord
                                  \/ Backfill /\ r = BackfillBatch
  BY HeldFrom
<1>4. Restart \/ \A r \in pend' : \/ r \in pend
                                  \/ IngestNew /\ r = ArrivedRecord
                                  \/ Backfill /\ r = BackfillBatch
  <2>1. IngestNew => pend' = pend \cup {ArrivedRecord}
    BY DEF IngestNew, Journal
  <2>2. Backfill => pend' = pend \cup {BackfillBatch}
    BY DEF Backfill, Journal
  <2>3. Unlinks => pend' \subseteq pend
    BY DEF Unlinks, Unlink
  <2> QED
    BY <2>1, <2>2, <2>3, Frames
<1>5. Restart => pend' = Kept /\ Held' = Kept
  <2> SUFFICES ASSUME Restart PROVE pend' = Kept /\ Held' = Kept
    OBVIOUS
  <2>1. phase = "down" /\ phase' # "down" /\ job'.step \notin {"manifest", "unlink"}
    <3>1. PICK q \in Orders(Kept) : RestartWith(q)
      BY RestartIs
    <3>2. JobIs(job', IF Kept = {} THEN "save" ELSE "idle", <<>>, {}, {}, {}, Kept = {}, -1)
      BY <3>1, RestartTypes
    <3> QED
      BY <3>2, JobFields DEF Restart
  <2>2. ~IngestNew /\ ~Backfill /\ ~Crash
    BY <2>1 DEF IngestNew, Backfill, Crash, Delivered
  <2>3. pend' = Kept
    BY FilesFrom
  <2>4. Held' = Kept
    BY RestartHolds
  <2> QED
    BY <2>3, <2>4
<1> QED
  BY <1>1, <1>2, <1>3, <1>4, <1>5, FilesFrom DEF HubsOf

-------------------------------------------------------------------------------
LEMMA KeepParts ==
  ASSUME KeepInv
  PROVE  /\ TypeInv /\ SafeInv /\ JobShape /\ FlushShape
         /\ LogInv /\ PlaceInv /\ OrderInv /\ WindowInv /\ CursorInv
         /\ WantedInv /\ BackInv /\ AcceptedInv
BY DEF KeepInv, SafeInv, ImproveInv, PlaceInv

LEMMA HubRowIn ==
  ASSUME KeepInv, NEW c \in Buckets, InWindow(books, <<c, "hub">>), c \notin Safe
  PROVE  \E n \in Sequences : /\ c \in Rows(hub.log[n]) /\ Rec(n) \in InBooks
                              /\ \E t \in books.staged : t.rec = Rec(n)
<1>1. HubRowsKnown(books, Safe) /\ PlaceInv /\ TypeInv
  BY KeepParts DEF WindowInv
<1>2. PICK t \in books.staged : t.rec.kind = "hub" /\ c \in t.rec.rows
  BY <1>1 DEF HubRowsKnown, InWindow
<1>3. t.rec \in InBooks
  BY <1>2 DEF InBooks, Stocked
<1>4. t.rec \in HubsOf(files \cup pend \cup Held)
  BY <1>2, <1>3 DEF Held, HubsOf
<1>5. t.rec.seq \in Sequences /\ t.rec = Rec(t.rec.seq)
  BY <1>1, <1>4 DEF PlaceInv
<1>6. Rec(t.rec.seq).rows = Rows(hub.log[t.rec.seq])
  BY <1>1, <1>5, RecIs
<1>7. t.rec.rows = Rows(hub.log[t.rec.seq])
  BY <1>5, <1>6
<1> QED
  BY <1>2, <1>3, <1>5, <1>7

LEMMA LogStep == ASSUME MaxStreams = 1, KeepInv, [Next]_vars PROVE LogInv'
<1>1. TypeInv /\ SafeInv /\ LogInv
  BY KeepParts
<1>2. /\ \A n \in Sequences : hub'.log[n] = hub.log[n]
      /\ Sequences \subseteq Sequences' /\ hub.next <= hub'.next
      /\ hub.next \in Int /\ hub'.next \in Int
      /\ ~Publishes => hub' = hub /\ Sequences' = Sequences
  BY <1>1, LogGrows
<1>3. /\ \A n \in Sequences : hub.log[n].first \in Int /\ hub.log[n].last \in Int
      /\ \A n \in Sequences : \A b \in Rows(hub.log[n]) : b <= hub.log[n].last
      /\ Sequences \subseteq Nat /\ pg \in Int
  BY <1>1, LogIs
<1>4. /\ \A n \in Sequences : hub.log[n].last < hub.next
      /\ \A m, n \in Sequences : m < n => hub.log[m].last < hub.log[n].first
      /\ pg < hub.next /\ (phase \in GapPhases => gap.until < hub.next)
      /\ \A c \in Safe : c < hub.next
  BY <1>1 DEF LogInv
<1>5. gap \in Gaps /\ gap' \in Gaps /\ Safe \subseteq Int /\ Safe' \subseteq Int
  BY <1>1, TypesStep, TypeInvIs, BucketsAre DEF LoopTyped, Safe
<1>6. /\ \A n \in Sequences' : hub'.log[n].last < hub'.next
      /\ \A m, n \in Sequences' : m < n => hub'.log[m].last < hub'.log[n].first
      /\ pg' < hub'.next
  <2>1. CASE Publishes
    <3>1. PICK k \in 1..2 : Publish(k)
      BY <2>1 DEF Publishes
    <3>2. /\ Sequences' = Sequences \cup {Latest + 1} /\ Sequences = 1..Latest /\ Latest \in Nat
          /\ hub'.log[Latest + 1].first = hub.next
          /\ hub'.log[Latest + 1].last = hub.next + k - 1
          /\ hub'.next = hub.next + k
          /\ pg' = pg \/ pg' < hub.next + k
      BY <1>1, <3>1, PublishIs, LogIs DEF Sequences
    <3>3. ASSUME NEW n \in Sequences' PROVE hub'.log[n].last < hub'.next
      <4>1. CASE n \in Sequences
        <5>1. hub'.log[n].last = hub.log[n].last
          BY <1>2, <4>1
        <5>2. hub.log[n].last \in Int /\ hub.log[n].last < hub.next
          BY <1>3, <1>4, <4>1
        <5>3. hub.next <= hub'.next /\ hub.next \in Int /\ hub'.next \in Int
          BY <1>2
        <5> QED
          BY <5>1, <5>2, <5>3
      <4>2. CASE n = Latest + 1
        BY <1>2, <3>2, <4>2
      <4> QED
        BY <3>2, <4>1, <4>2
    <3>4. \A m, n \in Sequences' : m < n => hub'.log[m].last < hub'.log[n].first
      <4> SUFFICES ASSUME NEW m \in Sequences', NEW n \in Sequences', m < n
                   PROVE  hub'.log[m].last < hub'.log[n].first
        OBVIOUS
      <4>1. m \in Sequences
        BY <3>2
      <4>2. CASE n \in Sequences
        BY <1>2, <1>4, <4>1, <4>2
      <4>3. CASE n = Latest + 1
        BY <1>2, <1>4, <3>2, <4>1, <4>3
      <4> QED
        BY <3>2, <4>2, <4>3
    <3> QED
      BY <1>2, <1>3, <1>4, <3>2, <3>3, <3>4
  <2>2. CASE ~Publishes
    <3>1. pg' = pg \/ (pg < hub.next - 1 /\ pg' = pg + 1)
      BY <2>2, PgFrom
    <3> QED
      BY <1>2, <1>3, <1>4, <2>2, <3>1
  <2> QED
    BY <2>1, <2>2
<1>7. phase' \in GapPhases => gap'.until < hub'.next
  <2> SUFFICES ASSUME phase' \in GapPhases PROVE gap'.until < hub'.next
    OBVIOUS
  <2>1. CASE phase \in GapPhases /\ gap' = gap
    BY <1>2, <1>4, <1>5, <2>1 DEF Gaps
  <2>2. CASE gap' # gap
    <3>1. gap'.until \in {-1, pg} \/ (gap'.until = gap.until /\ phase = "backfill")
      BY <1>5, <2>2, GapFrom
    <3>2. hub.next >= 0
      BY <1>1, LogIs
    <3> QED
      BY <1>2, <1>3, <1>4, <1>5, <3>1, <3>2 DEF GapPhases, Gaps
  <2>3. CASE phase \notin GapPhases
    <3>1. ReplayUnavailable
      BY <1>1, <2>3, PhaseIs
    <3>2. gap'.until = -1 /\ hub.next >= 0
      BY <1>1, <3>1, LogIs DEF ReplayUnavailable, NoGap
    <3> QED
      BY <1>2, <3>2
  <2> QED
    BY <2>1, <2>2, <2>3
<1>8. \A c \in Safe' : c < hub'.next
  <2> SUFFICES ASSUME NEW c \in Safe' PROVE c < hub.next
    BY <1>2, <1>5
  <2>1. CASE c \in Safe
    BY <1>4, <2>1
  <2>2. CASE InWindow(books, <<c, "hub">>) /\ c \notin Safe
    <3>1. PICK n \in Sequences : c \in Rows(hub.log[n])
      BY <2>2, HubRowIn DEF Safe
    <3> QED
      BY <1>2, <1>3, <1>4, <1>5, <3>1
  <2>3. CASE Backfill /\ c = gap.next
    BY <1>2, <1>4, <1>5, <2>3 DEF Backfill, Gaps, GapPhases
  <2> QED
    BY <1>1, <2>1, <2>2, <2>3, SafeFrom
<1> QED
  BY <1>6, <1>7, <1>8 DEF LogInv

-------------------------------------------------------------------------------
LEMMA JobShapeStep == ASSUME TypeInv, JobShape, [Next]_vars PROVE JobShape'
<1>1. CASE job' = job
  BY <1>1 DEF JobShape
<1>2. CASE Restart
  <2>1. PICK q \in Orders(Kept) : RestartWith(q)
    BY <1>2, RestartIs
  <2>2. JobIs(job', IF Kept = {} THEN "save" ELSE "idle", <<>>, {}, {}, {}, Kept = {}, -1)
    BY <1>2, <2>1, RestartTypes
  <2> QED
    BY <2>2, JobFields DEF JobShape
<1>3. CASE Crash \/ SaveCheckpoint
  BY <1>3, IdleFields DEF Crash, SaveCheckpoint, JobShape
<1>4. CASE WorkerTakes
  <2>1. JobIs(job', "stage", queue, {}, {}, {}, FALSE, -1)
    BY <1>4, JobSteps
  <2> QED
    BY <2>1 DEF JobIs, JobShape
<1>5. CASE StageNext
  <2>1. JobIs(job', "stage", Tail(job.todo), job.windows, job.keys, job.receipts,
                    job.all, NextLatest)
    BY <1>5, JobSteps
  <2> QED
    BY <1>5, <2>1, JobFields DEF JobShape, StageNext
<1>6. CASE Staged
  <2>1. /\ job'.step \in {"save", "write"} /\ job'.todo = job.todo
        /\ job'.receipts = job.receipts
    BY <1>6, JobSteps, JobFields
  <2> QED
    BY <1>6, <2>1 DEF JobShape, Staged
<1>7. CASE FlushAll
  <2>1. JobIs(job', "write", <<>>, books.open, {}, {}, TRUE, -1)
    BY <1>7, JobSteps
  <2> QED
    BY <2>1 DEF JobIs, JobShape
<1>8. CASE WriteWindow
  <2>1. /\ job'.step = "write" /\ job'.todo = job.todo /\ job'.receipts = job.receipts
    <3>1. PICK w : w = Min(job.windows)
      OBVIOUS
    <3> QED
      BY <1>8, JobSteps, JobFields
  <2> QED
    BY <1>8, <2>1 DEF JobShape, WriteWindow
<1>9. CASE Resolve
  <2>1. PICK done : done = Ready(books, job.keys, job.all)
    OBVIOUS
  <2>2. /\ job'.step = IF done = {} THEN "save" ELSE "manifest"
        /\ job'.todo = job.todo /\ job'.receipts = done
    BY <1>9, <2>1, JobSteps, JobFields
  <2> QED
    BY <1>9, <2>2 DEF JobShape, Resolve
<1>10. CASE WriteManifest
  <2>1. job'.step = "unlink" /\ job'.todo = job.todo /\ job'.receipts = job.receipts
    BY <1>10, JobSteps, JobFields
  <2> QED
    BY <1>10, <2>1 DEF JobShape, WriteManifest
<1>11. ASSUME NEW x \in job.receipts, Unlink(x) PROVE JobShape'
  <2>1. JobIs(job', IF job.receipts = {x} THEN "save" ELSE "unlink", job.todo, job.windows,
              job.keys, job.receipts \ {x}, job.all, job.latest)
    BY <1>11, JobSteps
  <2>2. /\ job'.step = IF job.receipts = {x} THEN "save" ELSE "unlink"
        /\ job'.todo = job.todo /\ job'.receipts = job.receipts \ {x}
    BY <2>1, JobFields
  <2> QED
    BY <1>11, <2>2 DEF JobShape, Unlink
<1> QED
  BY <1>1, <1>2, <1>3, <1>4, <1>5, <1>6, <1>7, <1>8, <1>9, <1>10, <1>11, Frames DEF WriterStep

LEMMA NothingLeft ==
  ASSUME NEW z \in GoodBooks, NEW keys, NEW all, Waiting(z, keys) = {},
         EmptiesDone(z, keys, all) = z.empties
  PROVE  Stocked(Covered(z, keys, all)) = {}
<1>1. PICK n : n = Covered(z, keys, all)
  OBVIOUS
<1>2. n.staged = {} /\ n.empties = {}
  BY <1>1, CoveredAre
<1> QED
  BY <1>1, <1>2 DEF Stocked

(* A flush of everything leaves nothing staged.                                *)
LEMMA AllIsResolved ==
  ASSUME KeepInv, Resolve, job.all
  PROVE  Stocked(books') = {}
<1>1. /\ TypeInv /\ FlushShape /\ LeftKnown(books, job.keys)
      /\ job.step = "write" /\ job.windows = {}
      /\ books' = Covered(books, job.keys, job.all)
  BY KeepParts DEF WindowInv, Resolve
<1>2. books \in GoodBooks /\ books.open = {}
  BY <1>1, TypeInvIs DEF WriterTyped, FlushShape
<1>3. Waiting(books, job.keys) = {}
  <2> SUFFICES ASSUME NEW s \in Waiting(books, job.keys) PROVE FALSE
    OBVIOUS
  <2>1. s.left # {} /\ \E t \in books.staged : s = Less(t, books, job.keys)
    BY <1>2, WaitingAre
  <2>2. PICK t \in books.staged : s = Less(t, books, job.keys)
    BY <2>1
  <2>3. s.left = t.left \ (job.keys \cup books.over)
    BY <2>2 DEF Less
  <2>4. PICK k \in t.left : k \notin job.keys /\ k \notin books.over
    BY <2>1, <2>3
  <2> QED
    BY <1>1, <1>2, <2>4 DEF LeftKnown, InWindow
<1>4. EmptiesDone(books, job.keys, job.all) = books.empties
  BY DEF EmptiesDone
<1> QED
  BY <1>1, <1>2, <1>3, <1>4, NothingLeft

LEMMA AllStays ==
  ASSUME TypeInv
  PROVE  StageNext \/ Staged \/ WriteWindow \/ Resolve \/ WriteManifest \/ Unlinks
           => job'.all = job.all
<1>1. StageNext => job'.all = job.all
  <2>1. StageNext => JobIs(job', "stage", Tail(job.todo), job.windows, job.keys, job.receipts,
                           job.all, NextLatest)
    BY JobSteps
  <2> QED
    BY <2>1, JobFields
<1>2. Staged => job'.all = job.all
  <2>1. Staged => \/ JobIs(job', "save", job.todo, job.windows, job.keys, job.receipts,
                             job.all, job.latest)
                  \/ JobIs(job', "write", job.todo, ReadyWindows(books, job.latest), job.keys,
                             job.receipts, job.all, job.latest)
    BY JobSteps
  <2> QED
    BY <2>1, JobFields
<1>3. WriteWindow => job'.all = job.all
  <2>1. PICK w : w = Min(job.windows)
    OBVIOUS
  <2>2. WriteWindow => JobIs(job', "write", job.todo, job.windows \ {w},
                         job.keys \cup KeysIn(books, w), job.receipts, job.all, job.latest)
    BY <2>1, JobSteps
  <2> QED
    BY <2>2, JobFields
<1>4. Resolve => job'.all = job.all
  <2>1. PICK done : done = Ready(books, job.keys, job.all)
    OBVIOUS
  <2>2. Resolve => JobIs(job', IF done = {} THEN "save" ELSE "manifest", job.todo, job.windows,
                     job.keys, done, job.all, job.latest)
    BY <2>1, JobSteps
  <2> QED
    BY <2>2, JobFields
<1>5. WriteManifest => job'.all = job.all
  <2>1. WriteManifest => JobIs(job', "unlink", job.todo, job.windows, job.keys, job.receipts,
                              job.all, job.latest)
    BY JobSteps
  <2> QED
    BY <2>1, JobFields
<1>6. Unlinks => job'.all = job.all
  <2> SUFFICES ASSUME NEW x \in job.receipts, Unlink(x) PROVE job'.all = job.all
    BY DEF Unlinks
  <2>1. JobIs(job', IF job.receipts = {x} THEN "save" ELSE "unlink", job.todo, job.windows,
              job.keys, job.receipts \ {x}, job.all, job.latest)
    BY JobSteps
  <2> QED
    BY <2>1, JobFields
<1> QED
  BY <1>1, <1>2, <1>3, <1>4, <1>5, <1>6

LEMMA FlushShapeStep == ASSUME KeepInv, [Next]_vars PROVE FlushShape'
<1> SUFFICES ASSUME job'.all PROVE FlushShape'
  BY DEF FlushShape
<1>1. TypeInv /\ JobShape /\ FlushShape /\ job \in Jobs
  BY KeepParts, TypeInvIs DEF WriterTyped
<1>2. job.all => phase \in {"init", "paused", "drain", "stopping"}
  BY <1>1, TypeInvIs DEF FlushTyped, Flushing
<1>3. books \in GoodBooks
  BY <1>1, TypeInvIs DEF WriterTyped
<1>4. CASE job' = job /\ books' = books
  <2>1. queue' = queue
    <3>1. ~IngestNew /\ ~Backfill /\ ~WorkerTakes
      <4>1. WorkerTakes => job'.all = FALSE
        <5>1. WorkerTakes => JobIs(job', "stage", queue, {}, {}, {}, FALSE, -1)
          BY <1>1, JobSteps
        <5> QED
          BY <5>1 DEF JobIs
      <4> QED
        BY <1>2, <1>4, <4>1 DEF IngestNew, Backfill, Delivered
    <3>2. ~Crash
      BY IdleFields DEF Crash
    <3>3. Restart => queue' = queue
      <4>1. Restart => phase = "down"
        BY DEF Restart
      <4> QED
        BY <1>2, <1>4, <4>1
    <3> QED
      BY <3>1, <3>2, <3>3, Frames
  <2>2. phase = "stopping" => phase' = "stopping"
    <3>1. ~SaveCheckpoint /\ ~Crash
      BY <1>1, IdleFields DEF SaveCheckpoint, Crash
    <3> QED
      BY <1>1, <3>1, PhaseIs
  <2> QED
    BY <1>1, <1>4, <2>1, <2>2 DEF FlushShape, InBooks
<1>5. CASE Restart
  <2>1. PICK q \in Orders(Kept) : RestartWith(q)
    BY <1>5, RestartIs
  <2>2. JobIs(job', IF Kept = {} THEN "save" ELSE "idle", <<>>, {}, {}, {}, Kept = {}, -1)
    BY <1>1, <1>5, <2>1, RestartTypes
  <2>3. job'.step = "save" /\ Kept = {}
    BY <2>2, JobFields
  <2>4. Held' = {}
    BY <1>1, <1>5, <2>3, RestartHolds
  <2>5. queue' = <<>> /\ Stocked(books') = {}
    BY <2>1, <2>4 DEF RestartWith, Held, InBooks
  <2> QED
    BY <2>3, <2>5 DEF FlushShape, InBooks
<1>6. ~Crash /\ ~SaveCheckpoint
  BY IdleFields DEF Crash, SaveCheckpoint
<1>7. ~WorkerTakes
  <2>1. WorkerTakes => JobIs(job', "stage", queue, {}, {}, {}, FALSE, -1)
    BY <1>1, JobSteps
  <2> QED
    BY <2>1 DEF JobIs
<1>8. ~StageNext /\ ~Staged
  <2>1. StageNext \/ Staged => job.all
    BY <1>1, AllStays
  <2> QED
    BY <1>1, <2>1 DEF StageNext, Staged, FlushShape
<1>9. CASE FlushAll
  <2>1. JobIs(job', "write", <<>>, books.open, {}, {}, TRUE, -1)
    BY <1>1, <1>9, JobSteps
  <2>2. job'.step = "write" /\ job'.windows = books.open
    BY <2>1 DEF JobIs
  <2>3. queue' = queue /\ books' = books /\ phase' = phase /\ (phase = "stopping" \/ queue = <<>>)
    BY <1>9 DEF FlushAll, ingest, loop
  <2> QED
    BY <2>2, <2>3 DEF FlushShape
<1>10. CASE WriteWindow
  <2>1. PICK w : w = Min(job.windows)
    OBVIOUS
  <2>2. job.all /\ job'.step = "write" /\ job'.windows = job.windows \ {w}
    <3>1. JobIs(job', "write", job.todo, job.windows \ {w},
                job.keys \cup KeysIn(books, w), job.receipts, job.all, job.latest)
      BY <1>1, <1>10, <2>1, JobSteps
    <3>2. job'.step = "write" /\ job'.windows = job.windows \ {w}
      BY <3>1, JobFields
    <3> QED
      BY <1>1, <1>10, <3>2, AllStays
  <2>3. queue' = queue /\ phase' = phase /\ books' = Closed(books, w) /\ job.step = "write"
    BY <1>10, <2>1 DEF WriteWindow, ingest, loop
  <2>4. books'.open = books.open \ {w}
    <3>1. archive \in [Buckets -> Version]
      BY <1>1, TypeInvIs DEF DiskTyped
    <3> QED
      BY <1>3, <2>3, <3>1, WriteGood
  <2> QED
    BY <1>1, <2>2, <2>3, <2>4 DEF FlushShape
<1>11. CASE Resolve
  <2>1. PICK done : done = Ready(books, job.keys, job.all)
    OBVIOUS
  <2>2. job.all /\ job'.step \in {"save", "manifest"}
    <3>1. JobIs(job', IF done = {} THEN "save" ELSE "manifest", job.todo, job.windows,
                job.keys, done, job.all, job.latest)
      BY <1>1, <1>11, <2>1, JobSteps
    <3>2. job'.step \in {"save", "manifest"}
      BY <3>1, JobFields
    <3> QED
      BY <1>1, <1>11, <3>2, AllStays
  <2>3. queue' = queue /\ phase' = phase
    BY <1>11 DEF Resolve, ingest, loop
  <2>4. Stocked(books') = {}
    BY <1>11, <2>2, AllIsResolved
  <2> QED
    BY <1>1, <2>2, <2>3, <2>4 DEF FlushShape, InBooks
<1>12. CASE WriteManifest
  <2>1. job.all /\ job'.step = "unlink"
    <3>1. job'.step = "unlink"
      BY <1>1, <1>12, JobSteps, JobFields
    <3> QED
      BY <1>1, <1>12, <3>1, AllStays
  <2>2. queue' = queue /\ phase' = phase /\ books' = books /\ job.step = "manifest"
    BY <1>12 DEF WriteManifest, ingest, loop
  <2> QED
    BY <1>1, <2>1, <2>2 DEF FlushShape, InBooks
<1>13. ASSUME NEW x \in job.receipts, Unlink(x) PROVE FlushShape'
  <2>1. JobIs(job', IF job.receipts = {x} THEN "save" ELSE "unlink", job.todo, job.windows,
              job.keys, job.receipts \ {x}, job.all, job.latest)
    BY <1>1, <1>13, JobSteps
  <2>2. job.all /\ job'.step \in {"save", "unlink"}
    <3>1. job'.step \in {"save", "unlink"}
      BY <2>1, JobFields
    <3> QED
      BY <1>1, <1>13, <3>1, AllStays DEF Unlinks
  <2>3. queue' = queue /\ phase' = phase /\ books' = books /\ job.step = "unlink"
    BY <1>13 DEF Unlink, loop
  <2> QED
    BY <1>1, <2>2, <2>3 DEF FlushShape, InBooks
<1>14. WriterStep \/ (job' = job /\ books' = books) \/ Restart
  <2>1. StageNext \/ WriteWindow \/ Resolve => WriterStep
    BY DEF WriterStep
  <2> QED
    BY <1>6, <2>1, Frames
<1> QED
  BY <1>4, <1>5, <1>6, <1>7, <1>8, <1>9, <1>10, <1>11, <1>12, <1>13, <1>14 DEF WriterStep

LEMMA HoldsArrived ==
  ASSUME TypeInv
  PROVE  /\ IngestNew => Held' = Held \cup {ArrivedRecord}
         /\ Backfill => Held' = Held \cup {BackfillBatch}
<1>1. /\ Held  = HeldOf(queue, job.todo, Stocked(books), job.receipts)
      /\ Held' = HeldOf(queue', job'.todo, Stocked(books'), job'.receipts)
      /\ queue \in Seq(Record)
  BY HeldIs
<1>2. ASSUME IngestNew PROVE Held' = Held \cup {ArrivedRecord}
  <2>1. ArrivedRecord \in Record
    BY <1>2, ArrivedIs DEF IngestNew
  <2>2. queue' = Append(queue, ArrivedRecord) /\ books' = books /\ job' = job
    BY <1>2 DEF IngestNew, Journal, writer
  <2> QED
    BY <1>1, <2>1, <2>2, ElemsAre DEF HeldOf
<1>3. ASSUME Backfill PROVE Held' = Held \cup {BackfillBatch}
  <2>1. BackfillBatch \in Record
    BY <1>3, BackfillIs
  <2>2. queue' = Append(queue, BackfillBatch) /\ books' = books /\ job' = job
    BY <1>3 DEF Backfill, Journal, writer
  <2> QED
    BY <1>1, <2>1, <2>2, ElemsAre DEF HeldOf
<1> QED
  BY <1>2, <1>3

(* With one life of the hub, a start finds the stream of its records.          *)
LEMMA NowIsOne ==
  ASSUME MaxStreams = 1, TypeInv, Restart, NEW q \in Orders(Kept), RestartWith(q),
         NEW r \in Kept, r.kind = "hub", \A x \in HubsOf(Kept) : x = Rec(x.seq)
  PROVE  NowIn(q) = 1
<1>1. ckpt.stream \in 0..1
  BY TypeInvIs DEF DiskTyped, Checkpoints
<1>2. CASE ckpt.stream # 0
  BY <1>1, <1>2 DEF NowIn, NoStream
<1>3. CASE ckpt.stream = 0
  <2>1. files \subseteq Record /\ IsFiniteSet(files) /\ Kept \subseteq files /\ q \in Seq(Record)
    BY RestartTypes, TypeInvIs DEF DiskTyped
  <2>2. IsFiniteSet(Kept) /\ Kept \subseteq Record
    BY <2>1, FS_Subset
  <2>3. \A i \in DOMAIN q : q[i] \in Kept
    BY <2>2, OrdersAre
  <2>4. \E i \in DOMAIN q : q[i] = r
    BY <2>2, OrdersAre
  <2>5. HubsIn(q) # {}
    BY <2>4 DEF HubsIn
  <2>6. HubsIn(q) \subseteq Int /\ IsFiniteSet(HubsIn(q))
    <3>1. HubsIn(q) \subseteq 1..Len(q) /\ Len(q) \in Nat
      BY <2>1 DEF HubsIn
    <3>2. IsFiniteSet(1..Len(q))
      BY <3>1, FS_Interval
    <3> QED
      BY <3>1, <3>2, FS_Subset
  <2>7. Min(HubsIn(q)) \in HubsIn(q)
    BY <2>5, <2>6, MinIs
  <2>8. PICK i \in HubsIn(q) : i = Min(HubsIn(q))
    BY <2>7
  <2>9. q[i] \in HubsOf(Kept)
    BY <2>3 DEF HubsIn, HubsOf
  <2>10. q[i].stream = 1
    BY <2>9 DEF Rec, HubRecord
  <2> QED
    BY <1>3, <2>5, <2>8, <2>10 DEF NowIn, NoStream
<1> QED
  BY <1>2, <1>3

-------------------------------------------------------------------------------
LEMMA PlaceStep == ASSUME MaxStreams = 1, KeepInv, [Next]_vars PROVE PlaceInv'
<1>1. TypeInv /\ SafeInv /\ PlaceInv /\ JobShape /\ FlushShape
  BY KeepParts
<1>2. /\ \A r \in HubsOf(files \cup pend \cup Held) : r.seq \in Sequences /\ r = Rec(r.seq)
      /\ files \ resolved \subseteq pend
      /\ phase # "down" => pend \subseteq Held
      /\ \A r \in HubsOf(pend \cup Held) : r.seq <= lastSeen
      /\ phase = "switch" => Held = {}
  BY <1>1 DEF PlaceInv
<1>3. /\ Sequences \subseteq Sequences' /\ \A n \in Sequences : Rec(n)' = Rec(n)
      /\ Sequences \subseteq Nat
  BY <1>1, LogGrows, LogIs
<1>4. IngestNew => /\ ArrivedRecord = Rec(link) /\ link \in Sequences /\ phase = "run"
                   /\ lastSeen' = link /\ link > lastSeen
  <2>1. IngestNew => lastSeen = -1 \/ link > lastSeen
    BY DEF IngestNew, IsNew, NoSeq
  <2> QED
    BY <1>1, <1>3, <2>1, ArrivedIsRec DEF IngestNew, Sequences
<1>5. ASSUME NEW r \in HubsOf(files' \cup pend' \cup Held')
      PROVE  r.seq \in Sequences' /\ r = Rec(r.seq)'
  <2>1. CASE r \in HubsOf(files \cup pend \cup Held)
    <3>1. r.seq \in Sequences /\ r = Rec(r.seq)
      BY <1>2, <2>1
    <3>2. PICK n \in Sequences : n = r.seq
      BY <3>1
    <3>3. Rec(n)' = Rec(n) /\ n \in Sequences'
      BY <1>3
    <3> QED
      BY <3>1, <3>2, <3>3
  <2>2. CASE IngestNew /\ r = ArrivedRecord
    <3>1. PICK n \in Sequences : n = link
      BY <1>4, <2>2
    <3>2. Rec(n).seq = n
      BY <1>1, RecIs
    <3>3. Rec(n)' = Rec(n) /\ n \in Sequences'
      BY <1>3
    <3>4. r = Rec(n)
      BY <1>4, <2>2, <3>1
    <3>5. r.seq = n
      BY <3>2, <3>4
    <3> QED
      BY <3>3, <3>4, <3>5
  <2> QED
    BY <1>1, <1>5, <2>1, <2>2, HubsFrom
<1>6. files' \ resolved' \subseteq pend'
  <2>1. resolved \subseteq resolved' /\ job.receipts \subseteq resolved
    BY <1>1, Frames, CrashLeaves DEF Resolve, SafeInv
  <2>2. CASE IngestNew \/ Backfill
    BY <1>2, <2>1, <2>2 DEF IngestNew, Backfill, Journal
  <2>3. CASE Restart
    BY <1>1, <2>3, FilesFrom
  <2>4. ASSUME NEW x \in job.receipts, Unlink(x) PROVE files' \ resolved' \subseteq pend'
    BY <1>2, <2>1, <2>4 DEF Unlink
  <2>5. CASE files' = files /\ pend' = pend
    BY <1>2, <2>1, <2>5
  <2> QED
    BY <2>2, <2>3, <2>4, <2>5, Frames DEF Unlinks
<1>7. ASSUME phase' # "down" PROVE pend' \subseteq Held'
  <2>1. CASE Restart
    BY <1>1, <2>1, RestartHolds, FilesFrom
  <2>2. CASE ~Restart
    <3>1. phase # "down"
      BY <1>1, <1>7, <2>2, PhaseIs
    <3>2. ~Crash
      BY <1>7 DEF Crash
    <3>3. CASE IngestNew
      <4>1. pend' = pend \cup {ArrivedRecord} /\ Held' = Held \cup {ArrivedRecord}
        BY <1>1, <3>3, HoldsArrived DEF IngestNew, Journal
      <4> QED
        BY <1>2, <3>1, <4>1
    <3>4. CASE Backfill
      <4>1. pend' = pend \cup {BackfillBatch} /\ Held' = Held \cup {BackfillBatch}
        BY <1>1, <3>4, HoldsArrived DEF Backfill, Journal
      <4> QED
        BY <1>2, <3>1, <4>1
    <3>5. ASSUME NEW x \in job.receipts, Unlink(x) PROVE pend' \subseteq Held'
      <4>1. Held \ {x} \subseteq Held' /\ pend' = pend \ {x}
        BY <1>1, <3>5, HeldByWriter DEF WriterStep, Unlink
      <4> QED
        BY <1>2, <3>1, <4>1
    <3>6. CASE ~IngestNew /\ ~Backfill /\ ~Unlinks
      <4>1. Held' = Held /\ pend' = pend
        BY <1>1, <2>2, <3>2, <3>6, HeldFrom, Frames DEF Unlinks
      <4> QED
        BY <1>2, <3>1, <4>1
    <3> QED
      BY <3>3, <3>4, <3>5, <3>6 DEF Unlinks
  <2> QED
    BY <2>1, <2>2
<1>8. \A r \in HubsOf(pend' \cup Held') : r.seq <= lastSeen'
  <2>1. lastSeen \in Int /\ lastSeen' \in Int
    BY <1>1, TypesStep, TypeInvIs DEF IngestTyped
  <2>2. CASE Restart
    <3>1. PICK q \in Orders(Kept) : RestartWith(q)
      BY <2>2, RestartIs
    <3>2. /\ SeqsIn(NowIn(q)) \subseteq Nat /\ IsFiniteSet(SeqsIn(NowIn(q)))
      BY <1>1, <2>2, <3>1, RestartTypes
    <3>3. pend' = Kept /\ Held' = Kept /\ Kept \subseteq files
      BY <1>1, <2>2, RestartHolds, FilesFrom
    <3>4. ckpt.acc \in Int /\ lastSeen' = Max(SeqsIn(NowIn(q)) \cup {ckpt.acc})
      BY <1>1, <3>1, TypeInvIs DEF DiskTyped, Checkpoints, RestartWith
    <3>5. \A y \in SeqsIn(NowIn(q)) : lastSeen' >= y
      <4>1. SeqsIn(NowIn(q)) \subseteq Int
        BY <3>2
      <4> QED
        BY <3>2, <3>4, <4>1, MaxWith
    <3>6. \A r \in HubsOf(Kept) : r.seq \in SeqsIn(NowIn(q))
      <4> SUFFICES ASSUME NEW r \in Kept, r.kind = "hub" PROVE r.seq \in SeqsIn(NowIn(q))
        BY DEF HubsOf
      <4>1. r.stream = 1
        BY <1>1, <1>2, <3>3, RecIs DEF HubsOf
      <4>2. NowIn(q) = 1
        <5>1. \A x \in HubsOf(Kept) : x = Rec(x.seq)
          BY <1>2, <3>3 DEF HubsOf
        <5> QED
          BY <1>1, <2>2, <3>1, <5>1, NowIsOne
      <4> QED
        BY <4>1, <4>2 DEF SeqsIn
    <3> QED
      BY <2>1, <3>2, <3>3, <3>5, <3>6
  <2>3. CASE ~Restart
    <3>1. HubsOf(pend' \cup Held') \subseteq
                 HubsOf(pend \cup Held) \cup (IF IngestNew THEN {ArrivedRecord} ELSE {})
      BY <1>1, <2>3, HubsFrom
    <3>2. CASE IngestNew
      <4>1. ArrivedRecord.seq = link
        BY <1>1, <1>4, <3>2, RecIs
      <4>2. \A r \in HubsOf(pend \cup Held) : r.seq \in Nat
        BY <1>2, <1>3 DEF HubsOf
      <4>3. lastSeen' = link /\ link > lastSeen
        BY <1>4, <3>2
      <4> SUFFICES ASSUME NEW r \in HubsOf(pend' \cup Held') PROVE r.seq <= lastSeen'
        OBVIOUS
      <4>4. CASE r \in HubsOf(pend \cup Held)
        <5>1. r.seq <= lastSeen /\ r.seq \in Nat
          BY <1>2, <4>2, <4>4
        <5> QED
          BY <2>1, <4>3, <5>1
      <4>5. CASE r = ArrivedRecord
        BY <2>1, <4>1, <4>3, <4>5
      <4> QED
        BY <3>1, <3>2, <4>4, <4>5
    <3>3. CASE ResumeFromHub
      <4>1. phase = "switch" /\ pend = {} /\ Held = {}
        BY <1>2, <3>3 DEF ResumeFromHub
      <4>2. ~IngestNew
        BY <1>4, <4>1
      <4> QED
        BY <3>1, <4>1, <4>2 DEF HubsOf
    <3>4. CASE lastSeen' = lastSeen /\ ~IngestNew
      BY <1>2, <3>1, <3>4
    <3> QED
      BY <2>3, <3>2, <3>3, <3>4, Frames
  <2> QED
    BY <2>2, <2>3
<1>9. ASSUME phase' = "switch" PROVE Held' = {}
  <2>1. ~Restart /\ ~Crash /\ ~IngestNew /\ ~Backfill
    BY <1>4, <1>9 DEF Restart, Crash, IngestNew, Backfill
  <2>2. Held' \subseteq Held
    BY <1>1, <2>1, HeldFrom
  <2>3. CASE phase = "switch"
    BY <1>2, <2>2, <2>3
  <2>4. CASE SaveCheckpoint /\ job.all /\ phase = "drain"
    <3>1. job.step = "save"
      BY <2>4 DEF SaveCheckpoint
    <3>2. queue = <<>> /\ job.todo = <<>> /\ job.receipts = {} /\ InBooks = {}
      BY <1>1, <2>4, <3>1 DEF JobShape, FlushShape
    <3> QED
      BY <2>2, <3>2, ElemsAre DEF Held
  <2> QED
    BY <1>1, <1>9, <2>3, <2>4, PhaseIs
<1>10. JobShape' /\ FlushShape'
  BY <1>1, JobShapeStep, FlushShapeStep
<1>11. ASSUME phase' = "down" PROVE job'.step = "idle"
  <2>1. SaveCheckpoint \/ Crash => job'.step = "idle"
    BY IdleFields DEF SaveCheckpoint, Crash
  <2>2. ~Restart
    BY <1>11 DEF Restart
  <2>3. CASE phase # "down"
    BY <1>1, <1>11, <2>1, <2>3, PhaseIs
  <2>4. CASE phase = "down"
    <3>1. job.step = "idle"
      BY <1>1, <2>4 DEF PlaceInv
    <3>2. ~WriterStep
      BY <2>4, <3>1 DEF WriterStep, WorkerTakes, StageNext, Staged, FlushAll, WriteWindow, Resolve,
         WriteManifest, Unlink, SaveCheckpoint
    <3> QED
      BY <2>1, <2>2, <3>1, <3>2, Frames
  <2> QED
    BY <2>3, <2>4
<1> QED
  BY <1>5, <1>6, <1>7, <1>8, <1>9, <1>10, <1>11 DEF PlaceInv

-------------------------------------------------------------------------------
LEMMA RisingAppend ==
  ASSUME NEW q \in Seq(Record), NEW r \in Record, Rising(q),
         r.kind = "hub" => \A x \in HubsOf(Elems(q)) : x.seq < r.seq
  PROVE  Rising(Append(q, r))
<1> SUFFICES ASSUME NEW i \in DOMAIN Append(q, r), NEW j \in DOMAIN Append(q, r), i < j,
                    Append(q, r)[i].kind = "hub", Append(q, r)[j].kind = "hub"
             PROVE  Append(q, r)[i].seq < Append(q, r)[j].seq
  BY DEF Rising
<1>1. /\ Len(q) \in Nat /\ DOMAIN q = 1..Len(q) /\ DOMAIN Append(q, r) = 1..(Len(q) + 1)
      /\ \A k \in 1..Len(q) : Append(q, r)[k] = q[k]
      /\ Append(q, r)[Len(q) + 1] = r
  OBVIOUS
<1>2. i \in 1..Len(q)
  BY <1>1
<1>3. CASE j \in 1..Len(q)
  BY <1>1, <1>2, <1>3 DEF Rising
<1>4. CASE j = Len(q) + 1
  <2>1. q[i] \in HubsOf(Elems(q)) /\ r.kind = "hub"
    BY <1>1, <1>2, <1>4 DEF HubsOf, Elems
  <2> QED
    BY <1>1, <1>2, <1>4, <2>1
<1> QED
  BY <1>1, <1>3, <1>4

LEMMA RisingTail ==
  ASSUME NEW q \in Seq(Record), q # <<>>, Rising(q)
  PROVE  Rising(Tail(q)) /\ Before({Head(q)}, Elems(Tail(q)))
<1>1. /\ DOMAIN q = 1..Len(q) /\ Len(q) \in Nat /\ Len(q) > 0 /\ Head(q) = q[1]
      /\ DOMAIN Tail(q) = 1..(Len(q) - 1)
      /\ \A i \in 1..(Len(q) - 1) : Tail(q)[i] = q[i + 1] /\ i + 1 \in 1..Len(q)
  OBVIOUS
<1>2. Rising(Tail(q))
  <2> SUFFICES ASSUME NEW i \in 1..(Len(q) - 1), NEW j \in 1..(Len(q) - 1), i < j,
                      Tail(q)[i].kind = "hub", Tail(q)[j].kind = "hub"
               PROVE  Tail(q)[i].seq < Tail(q)[j].seq
    BY <1>1 DEF Rising
  <2>1. i + 1 < j + 1
    BY <1>1
  <2> QED
    BY <1>1, <2>1 DEF Rising
<1>3. ASSUME Head(q).kind = "hub", NEW s \in HubsOf(Elems(Tail(q))) PROVE Head(q).seq < s.seq
  <2>1. PICK i \in 1..(Len(q) - 1) : s = Tail(q)[i]
    BY <1>1 DEF Elems, HubsOf
  <2>2. 1 < i + 1 /\ 1 \in DOMAIN q /\ i + 1 \in DOMAIN q /\ s.kind = "hub" /\ s = q[i + 1]
    BY <1>1, <1>3, <2>1 DEF HubsOf
  <2> QED
    BY <1>1, <1>3, <2>2 DEF Rising
<1> QED
  BY <1>2, <1>3 DEF Before, HubsOf

LEMMA OrderStep == ASSUME MaxStreams = 1, KeepInv, [Next]_vars PROVE OrderInv'
<1>1. /\ TypeInv /\ PlaceInv /\ JobShape /\ OrderInv
      /\ queue \in Seq(Record) /\ job.todo \in Seq(Record) /\ books \in GoodBooks
      /\ books \in Books /\ archive \in [Buckets -> Version] /\ job \in Jobs
  BY KeepParts, HeldIs DEF GoodBooks
<1>2. /\ Rising(queue) /\ Rising(job.todo)
      /\ Before(InBooks, Elems(job.todo)) /\ Before(InBooks, Elems(queue))
      /\ Before(Elems(job.todo), Elems(queue))
  BY <1>1 DEF OrderInv
<1>3. Rising(<<>>) /\ \A S : Before(S, Elems(<<>>)) /\ Before(Elems(<<>>), S)
  BY ElemsAre DEF Rising, Before, HubsOf
<1>4. InBooks' = Stocked(books') /\ InBooks = Stocked(books)
  BY DEF InBooks
<1>5. CASE queue' = queue /\ job'.todo = job.todo /\ InBooks' \subseteq InBooks
  BY <1>2, <1>5 DEF OrderInv, Before, HubsOf
<1>6. CASE job'.todo = <<>> /\ queue' = <<>>
  BY <1>3, <1>6 DEF OrderInv
<1>7. CASE queue' = queue /\ books' = books /\ job' = job
  BY <1>4, <1>5, <1>7
<1>8. CASE IngestNew
  <2>1. /\ ArrivedRecord = Rec(link) /\ link \in Sequences /\ ArrivedRecord \in Record
        /\ link \in Nat
    BY <1>1, <1>8, ArrivedIsRec, ArrivedIs DEF IngestNew
  <2>2. ArrivedRecord.seq = link
    BY <1>1, <2>1, RecIs
  <2>3. \A r \in HubsOf(Held) : r.seq < link
    <3>1. \A r \in HubsOf(Held) : r.seq <= lastSeen /\ r.seq \in Nat
      BY <1>1, LogIs DEF PlaceInv, HubsOf
    <3>2. lastSeen \in Int /\ (lastSeen = -1 \/ link > lastSeen)
      BY <1>1, <1>8, TypeInvIs DEF IngestTyped, IngestNew, IsNew, NoSeq
    <3> QED
      BY <2>1, <3>1, <3>2
  <2>4. queue' = Append(queue, ArrivedRecord) /\ books' = books /\ job' = job
    BY <1>8 DEF IngestNew, Journal, writer
  <2>5. Elems(queue') = Elems(queue) \cup {ArrivedRecord}
    BY <1>1, <2>1, <2>4, ElemsAre
  <2>6. Rising(queue')
    <3>1. \A x \in HubsOf(Elems(queue)) : x.seq < ArrivedRecord.seq
      BY <2>2, <2>3 DEF HubsOf, Held
    <3> QED
      BY <1>1, <1>2, <2>1, <2>4, <3>1, RisingAppend
  <2>7. \A r \in HubsOf(InBooks \cup Elems(job.todo)) : r.seq < ArrivedRecord.seq
    BY <2>2, <2>3 DEF HubsOf, Held
  <2>8. Before(InBooks, Elems(queue')) /\ Before(Elems(job.todo), Elems(queue'))
    BY <1>2, <2>5, <2>7 DEF Before, HubsOf
  <2> QED
    BY <1>2, <1>4, <2>4, <2>6, <2>8 DEF OrderInv
<1>9. CASE Backfill
  <2>1. BackfillBatch \in Record /\ BackfillBatch.kind = "pg"
    BY <1>1, <1>9, BackfillIs
  <2>2. queue' = Append(queue, BackfillBatch) /\ books' = books /\ job' = job
    BY <1>9 DEF Backfill, Journal, writer
  <2>3. Elems(queue') = Elems(queue) \cup {BackfillBatch}
    BY <1>1, <2>1, <2>2, ElemsAre
  <2>4. Rising(queue')
    BY <1>1, <1>2, <2>1, <2>2, RisingAppend
  <2>5. Before(InBooks, Elems(queue')) /\ Before(Elems(job.todo), Elems(queue'))
    BY <1>2, <2>1, <2>3 DEF Before, HubsOf
  <2> QED
    BY <1>2, <1>4, <2>2, <2>4, <2>5 DEF OrderInv
<1>10. CASE Restart
  <2>1. PICK q \in Orders(Kept) : RestartWith(q)
    BY <1>10, RestartIs
  <2>2. JobIs(job', IF Kept = {} THEN "save" ELSE "idle", <<>>, {}, {}, {}, Kept = {}, -1)
    BY <1>1, <1>10, <2>1, RestartTypes
  <2> QED
    BY <1>6, <2>1, <2>2, JobFields DEF RestartWith
<1>11. CASE Crash
  BY <1>6, <1>11, IdleFields DEF Crash
<1>12. CASE WorkerTakes
  <2>1. JobIs(job', "stage", queue, {}, {}, {}, FALSE, -1)
    BY <1>1, <1>12, JobSteps
  <2>2. job'.todo = queue /\ queue' = <<>> /\ books' = books
    BY <1>12, <2>1 DEF JobIs, WorkerTakes
  <2> QED
    BY <1>2, <1>3, <1>4, <2>2 DEF OrderInv
<1>13. CASE StageNext
  <2>1. queue' = queue /\ job.todo # <<>> /\ books' = Stage(books, Head(job.todo), archive)
    BY <1>13 DEF StageNext, ingest
  <2>2. Head(job.todo) \in Record
    BY <1>1, <2>1, NextLatestIs
  <2>3. InBooks' = InBooks \cup {Head(job.todo)}
    BY <1>1, <1>4, <2>1, <2>2, StageStocks
  <2>4. job'.todo = Tail(job.todo)
    BY <1>1, <1>13, JobSteps, JobFields
  <2>5. Elems(job.todo) = Elems(Tail(job.todo)) \cup {Head(job.todo)}
    BY <1>1, <2>1, ElemsAre
  <2>6. Rising(Tail(job.todo)) /\ Before({Head(job.todo)}, Elems(Tail(job.todo)))
    BY <1>1, <1>2, <2>1, RisingTail
  <2>7. Before(InBooks', Elems(job'.todo))
    BY <1>2, <2>3, <2>4, <2>5, <2>6 DEF Before, HubsOf
  <2>8. Before(InBooks', Elems(queue)) /\ Before(Elems(job'.todo), Elems(queue))
    BY <1>2, <2>3, <2>4, <2>5 DEF Before, HubsOf
  <2> QED
    BY <1>2, <2>1, <2>4, <2>6, <2>7, <2>8 DEF OrderInv
<1>14. CASE Staged
  <2>1. job'.todo = job.todo
    BY <1>1, <1>14, JobSteps, JobFields
  <2> QED
    BY <1>4, <1>5, <1>14, <2>1 DEF Staged, ingest
<1>15. CASE FlushAll
  <2>1. JobIs(job', "write", <<>>, books.open, {}, {}, TRUE, -1)
    BY <1>1, <1>15, JobSteps
  <2>2. job'.todo = <<>> /\ job.todo = <<>>
    BY <1>1, <1>15, <2>1 DEF JobIs, JobShape, FlushAll
  <2> QED
    BY <1>4, <1>5, <1>15, <2>2 DEF FlushAll, ingest
<1>16. CASE WriteWindow
  <2>1. PICK w : w = Min(job.windows)
    OBVIOUS
  <2>2. job'.todo = job.todo
    BY <1>1, <1>16, <2>1, JobSteps, JobFields
  <2>3. books' = Closed(books, w) /\ queue' = queue
    BY <1>16, <2>1 DEF WriteWindow, ingest
  <2>4. InBooks' = InBooks
    BY <1>1, <1>4, <2>3, WriteGood DEF Stocked
  <2> QED
    BY <1>5, <2>2, <2>3, <2>4
<1>17. CASE Resolve
  <2>1. job'.todo = job.todo
    BY <1>1, <1>17, JobSteps, JobFields
  <2>2. books' = Covered(books, job.keys, job.all) /\ queue' = queue
    BY <1>17 DEF Resolve, ingest
  <2>3. InBooks' \subseteq InBooks
    BY <1>1, <1>4, <2>2, ResolveStocks
  <2> QED
    BY <1>5, <2>1, <2>2, <2>3
<1>18. CASE WriteManifest
  <2>1. job'.todo = job.todo
    BY <1>1, <1>18, JobSteps, JobFields
  <2> QED
    BY <1>4, <1>5, <1>18, <2>1 DEF WriteManifest, ingest
<1>19. ASSUME NEW x \in job.receipts, Unlink(x) PROVE OrderInv'
  <2>1. JobIs(job', IF job.receipts = {x} THEN "save" ELSE "unlink", job.todo, job.windows,
              job.keys, job.receipts \ {x}, job.all, job.latest)
    BY <1>1, <1>19, JobSteps
  <2>2. job'.todo = job.todo
    BY <2>1, JobFields
  <2> QED
    BY <1>4, <1>5, <1>19, <2>2 DEF Unlink
<1>20. CASE SaveCheckpoint
  <2>1. job'.todo = <<>> /\ job.todo = <<>>
    BY <1>1, <1>20, IdleFields DEF SaveCheckpoint, JobShape
  <2> QED
    BY <1>4, <1>5, <1>20, <2>1 DEF SaveCheckpoint, ingest
<1> QED
  BY <1>7, <1>8, <1>9, <1>10, <1>11, <1>12, <1>13, <1>14, <1>15, <1>16, <1>17, <1>18, <1>19, <1>20,
     Frames DEF WriterStep

-------------------------------------------------------------------------------
LEMMA StageWindow ==
  ASSUME NEW z \in GoodBooks, NEW r \in Record, NEW a \in [Buckets -> Version], NEW S,
         \A b \in Buckets : a[b] # "none" => b \in S,
         LeftKnown(z, {}), HubRowsKnown(z, S)
  PROVE  LeftKnown(Stage(z, r, a), {}) /\ HubRowsKnown(Stage(z, r, a), S)
<1> DEFINE n == Stage(z, r, a)
           won == Won(z, r, a)
           t0 == [rec |-> r, left |-> won \X {r.kind}]
<1>1. z \in Books /\ z.staged \subseteq Staging
  BY BooksAre DEF GoodBooks
<1>2. StagedAs(n, z, r, a)
  BY <1>1, StageParts
<1>3. r.kind \in {"hub", "pg"} /\ r.rows \subseteq Buckets
  BY RecordsAre DEF Kinds
<1>4. /\ won \subseteq r.rows /\ Beaten(z, r, a) \subseteq won
      /\ \A b \in won : r.kind = "hub" => Known(z, r, a)[b] # "pg"
      /\ \A b \in won : r.kind = "pg" /\ Known(z, r, a)[b] = "hub" => b \in Beaten(z, r, a)
  BY DEF Won, Beaten
<1>5. /\ n.open = z.open \cup {Window(b) : b \in r.rows}
      /\ \A b \in Buckets : n.rows[b] = IF b \in won THEN r.kind ELSE Known(z, r, a)[b]
      /\ n.staged \subseteq z.staged \cup {t0}
      /\ z.staged \subseteq n.staged
      /\ won # {} => t0 \in n.staged
      /\ t0 \in n.staged /\ t0 \notin z.staged => won # {}
      /\ z.over \subseteq n.over
      /\ \A b \in Beaten(z, r, a) : <<b, "hub">> \in n.over
  <2>1. Beaten(z, r, a) # {} => won # {}
    BY <1>4
  <2>2. /\ n.open = z.open \cup {Window(b) : b \in r.rows}
        /\ n.rows = [b \in Buckets |-> IF b \in won THEN r.kind ELSE Known(z, r, a)[b]]
        /\ n.staged = IF won = {} THEN z.staged ELSE z.staged \cup {t0}
        /\ n.over = IF won = {} THEN z.over ELSE z.over \cup (Beaten(z, r, a) \X {"hub"})
    BY <1>2 DEF StagedAs
  <2> HIDE DEF n, won, t0
  <2> QED
    BY <2>1, <2>2
<1>6. t0.rec = r /\ t0.left = won \X {r.kind}
  OBVIOUS
<1>7. \A b \in Buckets : /\ Window(b) \in z.open => Known(z, r, a)[b] = z.rows[b]
                         /\ Window(b) \notin z.open => Known(z, r, a)[b] \in {a[b], "none"}
  BY DEF Known
<1> HIDE DEF n, won, t0
<1>8. ASSUME NEW k \in Key, InWindow(z, k) PROVE k \in n.over \/ InWindow(n, k)
  <2>1. k[1] \in Buckets /\ k[2] \in {"hub", "pg"} /\ k = <<k[1], k[2]>>
    BY DEF Key, Kinds
  <2>2. Known(z, r, a)[k[1]] = k[2] /\ Window(k[1]) \in n.open
    BY <1>5, <1>7, <1>8, <2>1 DEF InWindow
  <2>3. CASE k[1] \notin won
    BY <1>5, <2>1, <2>2, <2>3 DEF InWindow
  <2>4. CASE k[1] \in won /\ r.kind = k[2]
    BY <1>5, <2>1, <2>2, <2>4 DEF InWindow
  <2>5. CASE k[1] \in won /\ r.kind # k[2]
    <3>1. r.kind = "pg" /\ k[2] = "hub"
      BY <1>3, <1>4, <2>1, <2>2, <2>5
    <3>2. k[1] \in Beaten(z, r, a)
      BY <1>4, <2>2, <2>5, <3>1
    <3> QED
      BY <1>5, <2>1, <3>1, <3>2
  <2> QED
    BY <2>3, <2>4, <2>5
<1>9. LeftKnown(n, {})
  <2> SUFFICES ASSUME NEW t \in n.staged
               PROVE  t.left # {} /\ \A k \in t.left :
                        /\ k[1] \in t.rec.rows /\ k[2] = t.rec.kind
                        /\ k \in n.over \/ InWindow(n, k)
    BY DEF LeftKnown
  <2>1. CASE t \in z.staged
    <3>1. t.left # {} /\ t.left \subseteq Key
      BY <1>1, <2>1 DEF LeftKnown, Staging
    <3>2. \A k \in t.left : /\ k[1] \in t.rec.rows /\ k[2] = t.rec.kind
                            /\ k \in z.over \/ InWindow(z, k)
      BY <2>1 DEF LeftKnown
    <3> QED
      BY <1>5, <1>8, <3>1, <3>2
  <2>2. CASE t = t0 /\ t0 \notin z.staged
    <3>1. won # {} /\ t.rec = r /\ t.left = won \X {r.kind}
      BY <1>5, <1>6, <2>2
    <3>2. t.left # {}
      <4>1. PICK b : b \in won
        BY <3>1
      <4>2. <<b, r.kind>> \in t.left
        BY <3>1, <4>1
      <4> QED
        BY <4>2
    <3>3. ASSUME NEW k \in t.left PROVE k[1] \in r.rows /\ k[2] = r.kind /\ InWindow(n, k)
      <4>1. k[1] \in won /\ k[2] = r.kind
        BY <3>1
      <4>2. k[1] \in r.rows /\ k[1] \in Buckets
        BY <1>3, <1>4, <4>1
      <4>3. Window(k[1]) \in n.open
        BY <1>5, <4>2
      <4> QED
        BY <1>5, <4>1, <4>2, <4>3 DEF InWindow
    <3> QED
      BY <3>1, <3>2, <3>3
  <2> QED
    BY <1>5, <2>1, <2>2
<1>10. HubRowsKnown(n, S)
  <2> SUFFICES ASSUME NEW c \in Buckets, Window(c) \in n.open, n.rows[c] = "hub"
               PROVE  c \in S \/ \E t \in n.staged : t.rec.kind = "hub" /\ c \in t.rec.rows
    BY DEF HubRowsKnown
  <2>1. CASE c \in won
    <3>1. t0 \in n.staged /\ r.kind = "hub" /\ c \in r.rows
      BY <1>4, <1>5, <2>1
    <3> QED
      BY <1>6, <3>1
  <2>2. CASE c \notin won
    <3>1. Known(z, r, a)[c] = "hub"
      BY <1>5, <2>2
    <3>2. CASE Window(c) \in z.open
      BY <1>5, <1>7, <3>1, <3>2 DEF HubRowsKnown
    <3>3. CASE Window(c) \notin z.open
      BY <1>7, <3>1, <3>3
    <3> QED
      BY <3>2, <3>3
  <2> QED
    BY <2>1, <2>2
<1> QED
  BY <1>9, <1>10 DEF n

LEMMA CoveredWindow ==
  ASSUME NEW z \in GoodBooks, NEW keys, NEW all, NEW A, NEW S, A \subseteq S,
         \A k \in keys : k[1] \in A, BooksSafe(z, A, S),
         LeftKnown(z, keys), HubRowsKnown(z, S)
  PROVE  LeftKnown(Covered(z, keys, all), {}) /\ HubRowsKnown(Covered(z, keys, all), S)
<1>1. PICK n : n = Covered(z, keys, all)
  OBVIOUS
<1>2. /\ n.rows = z.rows /\ n.open = z.open /\ n.staged = Waiting(z, keys)
  BY <1>1, CoveredAre
<1>3. n.staged # {} => n.over = z.over
  BY <1>1, CoveredAre
<1>4. \A s : s \in n.staged <=> s.left # {} /\ \E t \in z.staged : s = Less(t, z, keys)
  BY <1>2, WaitingAre
<1>5. \A t : Less(t, z, keys).rec = t.rec /\ Less(t, z, keys).left = t.left \ (keys \cup z.over)
  BY DEF Less
<1>6. LeftKnown(n, {})
  <2> SUFFICES ASSUME NEW s \in n.staged
               PROVE  s.left # {} /\ \A k \in s.left :
                        /\ k[1] \in s.rec.rows /\ k[2] = s.rec.kind
                        /\ k \in n.over \/ InWindow(n, k)
    BY DEF LeftKnown
  <2>1. PICK t \in z.staged : s = Less(t, z, keys) /\ s.left # {}
    BY <1>4
  <2>2. s.rec = t.rec /\ s.left = t.left \ (keys \cup z.over)
    BY <1>5, <2>1
  <2>3. \A k \in t.left : /\ k[1] \in t.rec.rows /\ k[2] = t.rec.kind
                          /\ k \in z.over \/ k \in keys \/ InWindow(z, k)
    BY DEF LeftKnown
  <2>4. \A k : InWindow(z, k) => InWindow(n, k)
    BY <1>2 DEF InWindow
  <2> QED
    BY <2>1, <2>2, <2>3, <2>4
<1>7. HubRowsKnown(n, S)
  <2> SUFFICES ASSUME NEW c \in Buckets, Window(c) \in n.open, n.rows[c] = "hub", c \notin S
               PROVE  \E t \in n.staged : t.rec.kind = "hub" /\ c \in t.rec.rows
    BY DEF HubRowsKnown
  <2>1. PICK t \in z.staged : t.rec.kind = "hub" /\ c \in t.rec.rows
    BY <1>2 DEF HubRowsKnown
  <2>2. <<c, "hub">> \in t.left
    BY <2>1 DEF BooksSafe, StagedSafe, RowSafe
  <2>3. <<c, "hub">> \notin keys /\ <<c, "hub">> \notin z.over
    BY DEF BooksSafe, OverSafe
  <2>4. Less(t, z, keys).left # {}
    BY <1>5, <2>2, <2>3
  <2>5. Less(t, z, keys) \in n.staged
    BY <1>4, <2>4
  <2> QED
    BY <1>5, <2>1, <2>5
<1> QED
  BY <1>1, <1>6, <1>7

LEMMA TimesGrow == ASSUME NEW n \in Nat, NEW a \in Int, NEW b \in Int, a <= b PROVE a * n <= b * n
OBVIOUS

LEMMA ReadyBelow ==
  ASSUME NEW z \in GoodBooks, NEW l \in Int, NEW w \in ReadyWindows(z, l), NEW v \in z.open, v <= w
  PROVE  v \in ReadyWindows(z, l)
<1>1. z.open \subseteq Int /\ w \in z.open
  BY BooksAre, BucketsAre DEF GoodBooks, ReadyWindows
<1>2. w \in Int /\ v \in Int /\ WindowLen \in Nat /\ Late \in Nat
  BY <1>1, ClockAssumption
<1>3. (w + 1) * WindowLen <= l - Late
  BY DEF ReadyWindows
<1>4. v + 1 \in Int /\ w + 1 \in Int /\ v + 1 <= w + 1
  BY <1>2
<1>5. (v + 1) * WindowLen <= (w + 1) * WindowLen
  BY <1>2, <1>4, TimesGrow
<1>6. (v + 1) * WindowLen <= l - Late
  <2>1. (v + 1) * WindowLen \in Int /\ (w + 1) * WindowLen \in Int
    BY <1>2, <1>4
  <2> QED
    BY <1>2, <1>3, <1>5, <2>1
<1> QED
  BY <1>6 DEF ReadyWindows

LEMMA RestageWindow ==
  ASSUME NEW q \in Seq(Record), NEW a \in [Buckets -> Version], NEW S,
         \A b \in Buckets : a[b] # "none" => b \in S
  PROVE  LeftKnown(Restaged(q, a), {}) /\ HubRowsKnown(Restaged(q, a), S)
<1> DEFINE G == {z \in GoodBooks : LeftKnown(z, {}) /\ HubRowsKnown(z, S)}
<1>1. NoBooks \in G
  BY NoBooksGood DEF NoBooks, LeftKnown, HubRowsKnown
<1>2. \A z \in G : \A i \in DOMAIN q : Stage(z, q[i], a) \in G
  BY StageGood, StageWindow
<1> HIDE DEF G
<1>3. Restaged(q, a) \in G
  BY <1>1, <1>2, RestagedIn
<1> QED
  BY <1>3 DEF G

-------------------------------------------------------------------------------
WaitsIn(z, j) == LeftKnown(z, IF j.step = "write" THEN j.keys ELSE {})
InRow(z, j) ==
  j.step = "write" =>
    /\ \A w \in j.windows : \A v \in z.open : v <= w => v \in j.windows
    /\ \A k \in j.keys : \A v \in z.open : v <= Window(k[1]) => v \in j.windows
LEMMA WindowIs ==
  /\ WindowInv <=> WaitsIn(books, job) /\ HubRowsKnown(books, Safe) /\ InRow(books, job)
  /\ WindowInv' <=> WaitsIn(books', job') /\ HubRowsKnown(books', Safe') /\ InRow(books', job')
BY DEF WindowInv, WaitsIn, InRow

LEMMA WindowStep == ASSUME KeepInv, [Next]_vars PROVE WindowInv'
<1>1. /\ TypeInv /\ SafeInv /\ JobShape
      /\ WaitsIn(books, job) /\ HubRowsKnown(books, Safe) /\ InRow(books, job)
      /\ books \in GoodBooks /\ archive \in [Buckets -> Version] /\ job \in Jobs
      /\ job.todo \in Seq(Record)
  BY KeepParts, WindowIs, HeldIs
<1>2. /\ Safe \subseteq Safe' /\ Archived \subseteq Safe
      /\ \A b \in Buckets : archive[b] # "none" => b \in Safe
  BY <1>1, SafeGrows, SafeSets
<1>3. \A z : HubRowsKnown(z, Safe) => HubRowsKnown(z, Safe')
  BY <1>2 DEF HubRowsKnown
<1>4. HubRowsKnown(books, Safe')
  BY <1>1, <1>3
<1>5. CASE books' = books /\ job' = job
  BY <1>1, <1>4, <1>5, WindowIs
<1>6. CASE Restart
  <2>1. PICK q \in Orders(Kept) : RestartWith(q)
    BY <1>6, RestartIs
  <2>2. /\ JobIs(job', IF Kept = {} THEN "save" ELSE "idle", <<>>, {}, {}, {}, Kept = {}, -1)
        /\ q \in Seq(Record)
    BY <1>1, <1>6, <2>1, RestartTypes
  <2>3. job'.step # "write" /\ books' = Restaged(q, archive)
    BY <2>1, <2>2, JobFields DEF RestartWith
  <2>4. LeftKnown(books', {}) /\ HubRowsKnown(books', Safe)
    BY <1>1, <1>2, <2>2, <2>3, RestageWindow
  <2> QED
    BY <1>3, <2>3, <2>4, WindowIs DEF WaitsIn, InRow
<1>7. CASE Crash
  <2>1. books' = NoBooks /\ job'.step = "idle"
    BY <1>7, IdleFields DEF Crash
  <2> QED
    BY <2>1, WindowIs DEF WaitsIn, InRow, NoBooks, LeftKnown, HubRowsKnown
<1>8. CASE WorkerTakes
  <2>1. JobIs(job', "stage", queue, {}, {}, {}, FALSE, -1)
    BY <1>1, <1>8, JobSteps
  <2>2. job'.step = "stage" /\ books' = books /\ job.step = "idle"
    BY <1>8, <2>1 DEF JobIs, WorkerTakes
  <2> QED
    BY <1>1, <1>4, <2>2, WindowIs DEF WaitsIn, InRow
<1>9. CASE StageNext
  <2>1. job.step = "stage" /\ job.todo # <<>> /\ books' = Stage(books, Head(job.todo), archive)
    BY <1>9 DEF StageNext
  <2>2. Head(job.todo) \in Record
    BY <1>1, <2>1, NextLatestIs
  <2>3. job'.step = "stage"
    BY <1>1, <1>9, JobSteps, JobFields
  <2>4. LeftKnown(books, {})
    BY <1>1, <2>1 DEF WaitsIn
  <2>5. LeftKnown(books', {}) /\ HubRowsKnown(books', Safe)
    BY <1>1, <1>2, <2>1, <2>2, <2>4, StageWindow
  <2> QED
    BY <1>3, <2>3, <2>5, WindowIs DEF WaitsIn, InRow
<1>10. CASE Staged
  <2>1. books' = books /\ job.step = "stage" /\ job.keys = {}
    BY <1>1, <1>10 DEF Staged, JobShape
  <2>2. \/ job'.step = "save"
        \/ /\ job'.step = "write" /\ job'.keys = {}
           /\ job'.windows = ReadyWindows(books, job.latest)
    BY <1>1, <1>10, <2>1, JobSteps, JobFields
  <2>3. LeftKnown(books, {})
    BY <1>1, <2>1 DEF WaitsIn
  <2>4. job.latest \in Int
    BY <1>1, BucketsAre DEF Jobs
  <2>5. WaitsIn(books', job')
    BY <2>1, <2>2, <2>3 DEF WaitsIn
  <2>6. InRow(books', job')
    BY <1>1, <2>1, <2>2, <2>4, ReadyBelow DEF InRow
  <2> QED
    BY <1>4, <2>1, <2>5, <2>6, WindowIs
<1>11. CASE FlushAll
  <2>1. JobIs(job', "write", <<>>, books.open, {}, {}, TRUE, -1)
    BY <1>1, <1>11, JobSteps
  <2>2. job'.step = "write" /\ job'.windows = books.open /\ job'.keys = {}
    BY <2>1 DEF JobIs
  <2>3. books' = books /\ job.step = "idle"
    BY <1>11 DEF FlushAll
  <2> QED
    BY <1>1, <1>4, <2>2, <2>3, WindowIs DEF WaitsIn, InRow
<1>12. CASE WriteWindow
  <2>1. PICK w : w = Min(job.windows)
    OBVIOUS
  <2>2. /\ books' = Closed(books, w) /\ job.step = "write" /\ w \in job.windows
        /\ job.windows \subseteq books.open
    BY <1>1, <1>12, <2>1, FirstWindow DEF WriteWindow, SafeInv, ImproveInv, WritesOpen
  <2>3. /\ job'.step = "write" /\ job'.windows = job.windows \ {w}
        /\ job'.keys = job.keys \cup KeysIn(books, w)
    <3>1. JobIs(job', "write", job.todo, job.windows \ {w},
                job.keys \cup KeysIn(books, w), job.receipts, job.all, job.latest)
      BY <1>1, <1>12, <2>1, JobSteps
    <3> QED
      BY <3>1, JobFields
  <2>4. /\ books'.open = books.open \ {w} /\ books'.staged = books.staged
        /\ books'.over = books.over
        /\ \A b \in Buckets : Window(b) # w => books'.rows[b] = books.rows[b]
        /\ \A k \in KeysIn(books, w) : Window(k[1]) = w
    BY <1>1, <2>2, WriteGood
  <2>5. WaitsIn(books', job')
    <3> SUFFICES ASSUME NEW t \in books.staged
                 PROVE  t.left # {} /\ \A k \in t.left :
                          /\ k[1] \in t.rec.rows /\ k[2] = t.rec.kind
                          /\ k \in books'.over \/ k \in job'.keys \/ InWindow(books', k)
      BY <2>3, <2>4 DEF WaitsIn, LeftKnown
    <3>1. t.left # {} /\ \A k \in t.left :
                          /\ k[1] \in t.rec.rows /\ k[2] = t.rec.kind
                          /\ k \in books.over \/ k \in job.keys \/ InWindow(books, k)
      BY <1>1, <2>2 DEF WaitsIn, LeftKnown
    <3>2. t.left \subseteq Key
      BY <1>1, BooksAre DEF GoodBooks, Staging
    <3>3. ASSUME NEW k \in Key, InWindow(books, k)
          PROVE  k \in job'.keys \/ InWindow(books', k)
      <4>1. k[1] \in Buckets
        BY DEF Key
      <4>2. CASE Window(k[1]) = w
        BY <2>3, <3>3, <4>2 DEF InWindow, KeysIn
      <4>3. CASE Window(k[1]) # w
        BY <2>4, <3>3, <4>1, <4>3 DEF InWindow
      <4> QED
        BY <4>2, <4>3
    <3> QED
      BY <2>3, <2>4, <3>1, <3>2, <3>3
  <2>6. HubRowsKnown(books', Safe')
    BY <1>4, <2>4 DEF HubRowsKnown
  <2>7. InRow(books', job')
    <3>1. /\ \A x \in job.windows : \A v \in books.open : v <= x => v \in job.windows
          /\ \A k \in job.keys : \A v \in books.open : v <= Window(k[1]) => v \in job.windows
      BY <1>1, <2>2 DEF InRow
    <3>2. \A x \in job'.windows : \A v \in books'.open : v <= x => v \in job'.windows
      BY <2>3, <2>4, <3>1
    <3>3. \A k \in job'.keys : \A v \in books'.open : v <= Window(k[1]) => v \in job'.windows
      BY <2>2, <2>3, <2>4, <3>1
    <3> QED
      BY <3>2, <3>3 DEF InRow
  <2> QED
    BY <2>5, <2>6, <2>7, WindowIs
<1>13. CASE Resolve
  <2>1. PICK done : done = Ready(books, job.keys, job.all)
    OBVIOUS
  <2>2. job'.step \in {"save", "manifest"}
    <3>1. JobIs(job', IF done = {} THEN "save" ELSE "manifest", job.todo, job.windows,
                job.keys, done, job.all, job.latest)
      BY <1>1, <1>13, <2>1, JobSteps
    <3> QED
      BY <3>1, JobFields
  <2>3. books' = Covered(books, job.keys, job.all) /\ job.step = "write"
    BY <1>13 DEF Resolve
  <2>4. LeftKnown(books, job.keys) /\ \A k \in job.keys : k[1] \in Archived
    BY <1>1, <2>3 DEF WaitsIn, SafeInv
  <2>5. BooksSafe(books, Archived, Safe)
    BY <1>1 DEF SafeInv
  <2>6. PICK A, S : A = Archived /\ S = Safe
    OBVIOUS
  <2>7. LeftKnown(books', {}) /\ HubRowsKnown(books', S)
    BY <1>1, <1>2, <2>3, <2>4, <2>5, <2>6, CoveredWindow
  <2> QED
    BY <1>3, <2>2, <2>6, <2>7, WindowIs DEF WaitsIn, InRow
<1>14. CASE WriteManifest
  <2>1. job'.step = "unlink"
    BY <1>1, <1>14, JobSteps, JobFields
  <2>2. books' = books /\ job.step = "manifest"
    BY <1>14 DEF WriteManifest
  <2> QED
    BY <1>1, <1>4, <2>1, <2>2, WindowIs DEF WaitsIn, InRow
<1>15. ASSUME NEW x \in job.receipts, Unlink(x) PROVE WindowInv'
  <2>1. JobIs(job', IF job.receipts = {x} THEN "save" ELSE "unlink", job.todo, job.windows,
              job.keys, job.receipts \ {x}, job.all, job.latest)
    BY <1>1, <1>15, JobSteps
  <2>2. job'.step \in {"save", "unlink"}
    BY <2>1, JobFields
  <2>3. books' = books /\ job.step = "unlink"
    BY <1>15 DEF Unlink
  <2> QED
    BY <1>1, <1>4, <2>2, <2>3, WindowIs DEF WaitsIn, InRow
<1>16. CASE SaveCheckpoint
  <2>1. books' = books /\ job.step = "save" /\ job'.step = "idle"
    BY <1>16, IdleFields DEF SaveCheckpoint
  <2> QED
    BY <1>1, <1>4, <2>1, WindowIs DEF WaitsIn, InRow
<1>17. WriterStep \/ (books' = books /\ job' = job) \/ Restart \/ Crash
  <2>1. StageNext \/ WriteWindow \/ Resolve => WriterStep
    BY DEF WriterStep
  <2> QED
    BY <2>1, Frames
<1> QED
  BY <1>5, <1>6, <1>7, <1>8, <1>9, <1>10, <1>11, <1>12, <1>13, <1>14, <1>15, <1>16, <1>17
     DEF WriterStep

-------------------------------------------------------------------------------
(* How the cursors move.                                                       *)
LEMMA CursorsAre ==
  ASSUME TypeInv
  PROVE  /\ cur \in Cursors /\ manifest \in Cursors /\ ckpt \in Checkpoints
         /\ cur.acc \in Int /\ cur.mat \in Int /\ cur.high \in Int
         /\ manifest.acc \in Int /\ manifest.mat \in Int /\ manifest.high \in Int
         /\ ckpt.acc \in Int /\ ckpt.mat \in Int /\ ckpt.bucket \in Int
         /\ lastSeen \in Int /\ link \in Nat /\ src.seq \in Int /\ src \in Sources
         /\ gap \in Gaps /\ gap.latest \in Nat /\ gap.next \in Nat /\ Latest \in Nat
         /\ link # 0 => phase = "run"
BY TypeInvIs, LogIs, BucketsAre DEF DiskTyped, IngestTyped, LoopTyped, Cursors, Checkpoints, Sources,
   Gaps

LEMMA LinkFrom ==
  ASSUME [Next]_vars
  PROVE  \/ src' = src /\ link' \in {0, link}
         \/ Connects \/ IngestNew \/ IngestKnown \/ ResumeFromHub \/ SaveCheckpoint \/ Restart
<1>1. CASE UNCHANGED vars
  BY <1>1 DEF vars, loop
<1>2. CASE MarketStep \/ SourceStep
  BY <1>2 DEF MarketStep, SourceStep, Publish, Persist, HubRestart, Connects, Drops,
     ReplayUnavailable, loop
<1>3. CASE IngestStep \/ GapStep
  BY <1>3 DEF IngestStep, IngestNew, IngestKnown, IngestPaused, GapStep, PlanBackfill, Backfill,
     Backfilled, ResumeFromHub, loop
<1>4. CASE WriterStep
  BY <1>4 DEF WriterStep, WorkerTakes, StageNext, Staged, FlushAll, WriteWindow, Resolve,
     WriteManifest, Unlink, SaveCheckpoint, loop
<1>5. CASE LifeStep
  BY <1>5 DEF LifeStep, GivesUp, Signaled, Stop, Crash, Restart
<1> QED
  BY <1>1, <1>2, <1>3, <1>4, <1>5 DEF Next

LEMMA AcceptIs ==
  ASSUME MaxStreams = 1, TypeInv, IngestNew
  PROVE  /\ cur'.mat = cur.mat /\ cur'.high = cur.high
         /\ cur'.acc \in {cur.acc, link} /\ cur'.acc >= cur.acc /\ cur'.acc >= link
         /\ lastSeen' = link /\ src'.seq = link /\ link' = link + 1 /\ link \in Sequences
         /\ phase = "run" /\ link \in Int /\ ArrivedRecord = Rec(link)
         /\ UNCHANGED <<manifest, ckpt, phase, gap, job, books, resolved, archive>>
<1>1. ArrivedRecord = Rec(link) /\ link \in Sequences /\ phase = "run"
  BY ArrivedIsRec DEF IngestNew
<1>2. ArrivedRecord.kind = "hub" /\ ArrivedRecord.seq = link
  BY <1>1, RecIs
<1>3. /\ cur \in Cursors /\ cur.acc \in Int /\ link \in Int /\ src \in Sources
  BY CursorsAre
<1>4. cur' = [cur EXCEPT !.acc = Larger(cur.acc, link)]
  BY <1>2 DEF IngestNew, Journal, Accepted
<1>5. /\ Larger(cur.acc, link) \in {cur.acc, link}
      /\ Larger(cur.acc, link) >= cur.acc /\ Larger(cur.acc, link) >= link
  BY <1>3, LargerIs
<1>6. cur'.acc = Larger(cur.acc, link) /\ cur'.mat = cur.mat /\ cur'.high = cur.high
  BY <1>3, <1>4 DEF Cursors
<1>7. src'.seq = link
  BY <1>3 DEF IngestNew, Sources
<1> QED
  BY <1>1, <1>3, <1>5, <1>6, <1>7 DEF IngestNew, writer

LEMMA BackfillCursors ==
  ASSUME TypeInv, Backfill
  PROVE  cur' = cur
BY BackfillIs DEF Backfill, Journal, Accepted

LEMMA KnownIs ==
  ASSUME TypeInv, IngestKnown
  PROVE  src'.seq = link /\ link' = link + 1 /\ link <= lastSeen
<1>1. link \in Nat /\ lastSeen \in Int /\ src \in Sources
  BY CursorsAre
<1> QED
  BY <1>1 DEF IngestKnown, IsNew, Sources

LEMMA ResumeIs ==
  ASSUME TypeInv, ResumeFromHub
  PROVE  /\ cur'.acc = gap.latest /\ cur'.mat = gap.latest /\ cur'.high = gap.latest
         /\ ckpt'.acc = gap.latest /\ ckpt'.mat = gap.latest /\ ckpt'.bucket = ckpt.bucket
         /\ lastSeen' = gap.latest /\ src'.seq = gap.latest /\ link' = 0 /\ phase' = "run"
         /\ phase = "switch" /\ UNCHANGED <<manifest, lastBucket, archive>>
<1>1. ckpt \in Checkpoints /\ (link # 0 => phase = "run")
  BY CursorsAre
<1>2. ckpt' = [ckpt EXCEPT !.stream = gap.stream, !.acc = gap.latest, !.mat = gap.latest]
  BY DEF ResumeFromHub
<1>3. ckpt'.acc = gap.latest /\ ckpt'.mat = gap.latest /\ ckpt'.bucket = ckpt.bucket
  BY <1>1, <1>2 DEF Checkpoints
<1>4. cur' = CursorsAt(gap.latest, gap.latest)
  BY DEF ResumeFromHub
<1>5. cur'.acc = gap.latest /\ cur'.mat = gap.latest /\ cur'.high = gap.latest
  BY <1>4 DEF CursorsAt
<1>6. src'.seq = gap.latest
  BY DEF ResumeFromHub
<1>7. link' = 0
  BY <1>1 DEF ResumeFromHub
<1> QED
  BY <1>3, <1>5, <1>6, <1>7 DEF ResumeFromHub, writer

-------------------------------------------------------------------------------
ResolvedNow == Ready(books, job.keys, job.all)
Left == pend \ ResolvedNow

(* A commit moves the cursors over what it finished, and no further than to    *)
(* the first record that still waits.                                          *)
LEMMA CommitIs ==
  ASSUME MaxStreams = 1, KeepInv, Resolve
  PROVE  /\ cur'.acc = cur.acc /\ cur'.high >= cur.high /\ cur'.mat >= cur.mat
         /\ cur'.high = cur.high \/ \E r \in HubsOf(ResolvedNow) : cur'.high = r.seq
         /\ HubsOf(ResolvedNow) = {} => cur' = cur
         /\ \/ cur'.mat = cur.mat
            \/ \E r \in HubsOf(ResolvedNow) : r.seq <= cur'.high /\ cur'.mat = cur'.high
            \/ \E r \in HubsOf(Left) : cur'.mat = r.seq - 1
         /\ \A r \in HubsOf(Left) : cur'.mat < r.seq \/ cur'.mat = cur.mat
         /\ HubsOf(ResolvedNow) # {} =>
              \/ HubsOf(Left) = {} /\ cur'.mat >= cur'.high
              \/ \E r \in HubsOf(Left) : cur'.mat = Larger(cur.mat, r.seq - 1)
         /\ ResolvedNow \subseteq InBooks /\ ResolvedNow \subseteq Record
         /\ resolved' = resolved \cup ResolvedNow /\ pend' = pend /\ files' = files
         /\ cur'.acc \in Int /\ cur'.mat \in Int /\ cur'.high \in Int
         /\ job.step = "write" /\ job.windows = {}
         /\ UNCHANGED <<lastSeen, manifest, ckpt, phase, gap, src, link, archive, lastBucket>>
<1>1. TypeInv /\ PlaceInv
  BY KeepParts
<1>2. books \in GoodBooks /\ stream \in 0..MaxStreams /\ pend \subseteq Record /\ IsFiniteSet(pend)
  BY <1>1, TypeInvIs DEF WriterTyped, IngestTyped
<1>3. ResolvedNow \subseteq Record /\ IsFiniteSet(ResolvedNow)
  BY <1>2, ReadyAre DEF ResolvedNow
<1>4. ResolvedNow \subseteq InBooks
  <2>1. Stocked(books) = Stocked(Covered(books, job.keys, job.all)) \cup ResolvedNow
    BY <1>2, ResolveStocks DEF ResolvedNow
  <2> QED
    BY <2>1 DEF InBooks
<1>5. \A r \in HubsOf(pend \cup InBooks) : InStream(r, stream) /\ r.seq \in Nat
  <2> SUFFICES ASSUME NEW r \in HubsOf(pend \cup InBooks)
               PROVE  InStream(r, stream) /\ r.seq \in Nat
    OBVIOUS
  <2>1. r \in HubsOf(files \cup pend \cup Held)
    BY DEF HubsOf, Held
  <2>2. r.seq \in Sequences /\ r = Rec(r.seq)
    BY <1>1, <2>1 DEF PlaceInv
  <2>3. PICK n \in Sequences : n = r.seq
    BY <2>2
  <2>4. r.kind = "hub" /\ r.stream = 1 /\ n \in Nat
    BY <1>1, <2>2, <2>3, RecIs
  <2> QED
    BY <1>2, <2>3, <2>4 DEF InStream, NoStream
<1>6. /\ SeqsOf(ResolvedNow, stream) = {r.seq : r \in HubsOf(ResolvedNow)}
      /\ SeqsOf(Left, stream) = {r.seq : r \in HubsOf(Left)}
  <2>1. ASSUME NEW S, S \subseteq pend \cup InBooks
        PROVE  SeqsOf(S, stream) = {r.seq : r \in HubsOf(S)}
    <3>1. {x \in S : InStream(x, stream)} = HubsOf(S)
      BY <1>5, <2>1 DEF HubsOf, InStream
    <3> QED
      BY <3>1 DEF SeqsOf
  <2> QED
    BY <1>4, <2>1 DEF Left
<1>7. cur' = Committed(cur, stream, pend, ResolvedNow)
  BY DEF Resolve, ResolvedNow
<1>8. cur \in Cursors /\ cur.acc \in Int /\ cur.mat \in Int /\ cur.high \in Int
  BY <1>1, CursorsAre
<1>9. /\ cur' \in Cursors /\ cur'.acc = cur.acc /\ cur'.high >= cur.high /\ cur'.mat >= cur.mat
      /\ SeqsOf(ResolvedNow, stream) = {} => cur' = cur
      /\ \A x \in SeqsOf(ResolvedNow, stream) : cur'.high >= x
      /\ cur'.high \in SeqsOf(ResolvedNow, stream) \cup {cur.high}
      /\ SeqsOf(ResolvedNow, stream) # {} =>
           /\ SeqsOf(Left, stream) = {} => cur'.mat = Larger(cur.mat, cur'.high)
           /\ SeqsOf(Left, stream) # {} => cur'.mat = Larger(cur.mat, Min(SeqsOf(Left, stream)) - 1)
  <2>1. PICK R, c, s, p : R = ResolvedNow /\ c = cur /\ s = stream /\ p = pend
    OBVIOUS
  <2>2. PICK n : n = Committed(c, s, p, R)
    OBVIOUS
  <2>4. /\ c \in Cursors /\ p \subseteq Record /\ IsFiniteSet(p)
        /\ R \subseteq Record /\ IsFiniteSet(R)
    BY <1>2, <1>3, <1>8, <2>1
  <2>3. CommittedAs(n, c, s, p, R)
    BY <2>2, <2>4, CommittedIs
  <2> QED
    BY <1>7, <2>1, <2>2, <2>3 DEF Left, CommittedAs
<1>10. cur'.acc \in Int /\ cur'.mat \in Int /\ cur'.high \in Int
  BY <1>9 DEF Cursors
<1>11. cur'.high = cur.high \/ \E r \in HubsOf(ResolvedNow) : cur'.high = r.seq
  BY <1>6, <1>9
<1>12. HubsOf(ResolvedNow) = {} => cur' = cur
  BY <1>6, <1>9
<1>13. Left \subseteq Record /\ IsFiniteSet(Left)
  BY <1>2, FS_Difference DEF Left
<1>14. ASSUME SeqsOf(Left, stream) # {}
       PROVE  /\ \E r \in HubsOf(Left) : Min(SeqsOf(Left, stream)) = r.seq
              /\ \A r \in HubsOf(Left) : Min(SeqsOf(Left, stream)) <= r.seq
              /\ Min(SeqsOf(Left, stream)) \in Int
  <2>1. PICK S : S = SeqsOf(Left, stream)
    OBVIOUS
  <2>2. S \subseteq Int /\ IsFiniteSet(S) /\ S # {}
    BY <1>13, <1>14, <2>1, SeqsAre
  <2>3. Min(S) \in S /\ \A y \in S : Min(S) <= y
    BY <2>2, MinIs
  <2> QED
    BY <1>6, <2>1, <2>2, <2>3
<1>15. /\ \/ cur'.mat = cur.mat
          \/ \E r \in HubsOf(ResolvedNow) : r.seq <= cur'.high /\ cur'.mat = cur'.high
          \/ \E r \in HubsOf(Left) : cur'.mat = r.seq - 1
       /\ \A r \in HubsOf(Left) : cur'.mat < r.seq \/ cur'.mat = cur.mat
  <2>1. CASE HubsOf(ResolvedNow) = {}
    BY <1>12, <2>1
  <2>2. CASE HubsOf(ResolvedNow) # {} /\ SeqsOf(Left, stream) = {}
    <3>1. cur'.mat = Larger(cur.mat, cur'.high)
      BY <1>6, <1>9, <2>2
    <3>2. cur'.mat = cur.mat \/ cur'.mat = cur'.high
      BY <3>1 DEF Larger
    <3>3. HubsOf(Left) = {}
      BY <1>6, <2>2
    <3>4. \E r \in HubsOf(ResolvedNow) : r.seq <= cur'.high
      <4>1. PICK r : r \in HubsOf(ResolvedNow)
        BY <2>2
      <4>2. r.seq \in SeqsOf(ResolvedNow, stream)
        BY <1>6, <4>1
      <4>3. cur'.high >= r.seq /\ r.seq \in Nat
        BY <1>4, <1>5, <1>9, <4>1, <4>2 DEF HubsOf
      <4> QED
        BY <1>10, <4>1, <4>3
    <3> QED
      BY <3>2, <3>3, <3>4
  <2>3. CASE HubsOf(ResolvedNow) # {} /\ SeqsOf(Left, stream) # {}
    <3>1. PICK m \in Int : /\ m = Min(SeqsOf(Left, stream))
                           /\ \E r \in HubsOf(Left) : m = r.seq
                           /\ \A r \in HubsOf(Left) : m <= r.seq
      BY <1>14, <2>3
    <3>2. cur'.mat = Larger(cur.mat, m - 1)
      BY <1>6, <1>9, <2>3, <3>1
    <3>3. cur'.mat = cur.mat \/ cur'.mat = m - 1
      BY <3>2 DEF Larger
    <3>4. \A r \in HubsOf(Left) : r.seq \in Nat
      BY <1>5 DEF Left, HubsOf
    <3>5. \A r \in HubsOf(Left) : m - 1 < r.seq
      BY <3>1, <3>4
    <3> QED
      BY <3>1, <3>3, <3>5
  <2> QED
    BY <2>1, <2>2, <2>3
<1>16. ASSUME HubsOf(ResolvedNow) # {}
       PROVE  \/ HubsOf(Left) = {} /\ cur'.mat >= cur'.high
              \/ \E r \in HubsOf(Left) : cur'.mat = Larger(cur.mat, r.seq - 1)
  <2>1. CASE SeqsOf(Left, stream) = {}
    <3>1. cur'.mat = Larger(cur.mat, cur'.high)
      BY <1>6, <1>9, <1>16, <2>1
    <3>2. cur'.mat >= cur'.high
      BY <1>8, <1>10, <3>1 DEF Larger
    <3>3. HubsOf(Left) = {}
      BY <1>6, <2>1
    <3> QED
      BY <3>2, <3>3
  <2>2. CASE SeqsOf(Left, stream) # {}
    <3>1. cur'.mat = Larger(cur.mat, Min(SeqsOf(Left, stream)) - 1)
      BY <1>6, <1>9, <1>16, <2>2
    <3> QED
      BY <1>14, <2>2, <3>1
  <2> QED
    BY <2>1, <2>2
<1>17. /\ resolved' = resolved \cup ResolvedNow /\ pend' = pend /\ files' = files
       /\ job.step = "write" /\ job.windows = {}
       /\ UNCHANGED <<lastSeen, manifest, ckpt, phase, gap, src, link, archive, lastBucket>>
  BY DEF Resolve, ResolvedNow, loop
<1> QED
  BY <1>3, <1>4, <1>9, <1>10, <1>11, <1>12, <1>15, <1>16, <1>17

-------------------------------------------------------------------------------
LEMMA SaveIs ==
  ASSUME SafeInv, SaveCheckpoint
  PROVE  /\ ckpt'.acc = cur.acc /\ ckpt'.mat = cur.mat
         /\ ckpt'.bucket \in {ckpt.bucket, lastBucket'}
         /\ lastBucket' \in Archived \cup {lastBucket}
         /\ src' = src \/ (job.all /\ phase = "init" /\ src'.seq = cur.mat)
         /\ job.step = "save"
         /\ UNCHANGED <<cur, manifest, lastSeen, gap, link, archive, pend, files, resolved>>
<1>1. TypeInv /\ \A k \in job.keys : k[1] \in Archived
  BY DEF SafeInv, ImproveInv
<1> DEFINE S == {k[1] : k \in job.keys}
           top == Max(S \cup {lastBucket})
<1>2. S \subseteq Archived /\ S \subseteq Int /\ IsFiniteSet(S) /\ lastBucket \in Int
  <2>1. S \subseteq Archived /\ Archived \subseteq Buckets
    BY <1>1 DEF Archived
  <2>2. lastBucket \in Int
    BY <1>1, TypeInvIs, BucketsAre DEF WriterTyped
  <2> QED
    BY <2>1, <2>2, BucketsAre, FS_Subset
<1>3. top \in S \cup {lastBucket}
  <2> HIDE DEF S
  <2>1. PICK n \in Int : n = lastBucket
    BY <1>2
  <2>2. Max(S \cup {n}) \in S \cup {n}
    BY <1>2, MaxWith
  <2> QED
    BY <2>1, <2>2
<1>4. /\ lastBucket' = top
      /\ ckpt' = [stream |-> stream, acc |-> cur.acc, mat |-> cur.mat,
                  bucket |-> Larger(ckpt.bucket, top)]
  BY DEF SaveCheckpoint
<1> HIDE DEF top
<1>5. ckpt'.acc = cur.acc /\ ckpt'.mat = cur.mat /\ ckpt'.bucket = Larger(ckpt.bucket, top)
  BY <1>4
<1>6. ckpt'.bucket \in {ckpt.bucket, lastBucket'}
  BY <1>4, <1>5 DEF Larger
<1>7. lastBucket' \in Archived \cup {lastBucket}
  BY <1>2, <1>3, <1>4
<1>8. src' = src \/ (job.all /\ phase = "init" /\ src'.seq = cur.mat)
  BY DEF SaveCheckpoint
<1> QED
  BY <1>5, <1>6, <1>7, <1>8 DEF SaveCheckpoint, ingest

(* A start takes up what the manifest and the checkpoint say, and the          *)
(* sequences of the records it kept.                                           *)
LEMMA RestartCursors ==
  ASSUME MaxStreams = 1, KeepInv, Restart
  PROVE  /\ cur'.mat = Resume /\ cur'.high \in {ckpt.mat, manifest.high}
         /\ cur'.acc >= ckpt.acc /\ cur'.acc >= manifest.acc /\ lastSeen' <= cur'.acc
         /\ cur'.acc \in {ckpt.acc, manifest.acc} \/ \E r \in HubsOf(Kept) : cur'.acc = r.seq
         /\ cur'.acc \in Int /\ lastSeen' \in Int
         /\ \A r \in HubsOf(Kept) : r.seq <= lastSeen /\ r.seq <= Latest /\ r \in pend
         /\ Kept \subseteq files \ resolved /\ Kept \subseteq pend
         /\ Base.high \in {ckpt.mat, manifest.high} /\ files' = Kept
         /\ phase = "down" /\ phase' \in {"init", "wedged"} /\ lastBucket' = ckpt.bucket
         /\ src'.seq = NoSeq /\ link' = 0
         /\ UNCHANGED <<manifest, ckpt, archive, resolved, gap>>
<1>1. TypeInv /\ PlaceInv
  BY KeepParts
<1>2. PICK q \in Orders(Kept) : RestartWith(q)
  BY RestartIs
<1>3. /\ ckpt.acc \in Int /\ ckpt.mat \in Int /\ manifest.acc \in Int /\ manifest.mat \in Int
      /\ manifest.high \in Int /\ (link # 0 => phase = "run") /\ lastSeen \in Int
  BY <1>1, CursorsAre
<1>4. /\ Base.acc = Larger(ckpt.acc, manifest.acc) /\ Base.mat = Resume
      /\ Base.high = Larger(ckpt.mat, manifest.high) /\ Base \in Cursors
  <2>1. Base \in Cursors
    BY <1>1, <1>2, RestartTypes
  <2> QED
    BY <2>1 DEF Base, Restored, CursorsAt, Resume
<1>5. /\ Base.acc \in {ckpt.acc, manifest.acc} /\ Base.acc >= ckpt.acc
      /\ Base.acc >= manifest.acc /\ Base.acc \in Int
      /\ Base.high \in {ckpt.mat, manifest.high}
  <2>1. PICK a \in Int, b \in Int, c \in Int, d \in Int :
          a = ckpt.acc /\ b = manifest.acc /\ c = ckpt.mat /\ d = manifest.high
    BY <1>3
  <2>2. /\ Larger(a, b) \in {a, b} /\ Larger(a, b) >= a /\ Larger(a, b) >= b
        /\ Larger(a, b) \in Int /\ Larger(c, d) \in {c, d}
    BY LargerIs
  <2> QED
    BY <1>4, <2>1, <2>2
<1>6. Kept \subseteq files \ resolved /\ Kept \subseteq pend
  BY <1>1 DEF Kept, AlreadyCommitted, PlaceInv
<1>7. \A r \in HubsOf(Kept) : r.seq <= lastSeen /\ r.seq <= Latest /\ r \in pend
  <2> SUFFICES ASSUME NEW r \in HubsOf(Kept)
               PROVE  r.seq <= lastSeen /\ r.seq <= Latest /\ r \in pend
    OBVIOUS
  <2>1. r \in HubsOf(pend \cup Held) /\ r \in HubsOf(files \cup pend \cup Held)
    BY <1>6 DEF HubsOf
  <2>2. r.seq <= lastSeen /\ r.seq \in Sequences
    BY <1>1, <2>1 DEF PlaceInv
  <2> QED
    BY <1>1, <1>6, <2>2, LogIs DEF Sequences, HubsOf
<1> DEFINE N == SeqsIn(NowIn(q))
<1>8. N \subseteq Nat /\ IsFiniteSet(N)
  BY <1>1, <1>2, RestartTypes
<1>9. \A n \in N : \E r \in HubsOf(Kept) : n = r.seq
  BY DEF SeqsIn, HubsOf
<1>10. /\ cur' = [Base EXCEPT !.acc = Max(N \cup {Base.acc})]
       /\ lastSeen' = Max(N \cup {ckpt.acc}) /\ lastBucket' = ckpt.bucket /\ files' = Kept
       /\ phase' \in {"init", "wedged"}
  BY <1>2 DEF RestartWith
<1> HIDE DEF N
<1>11. /\ Max(N \cup {Base.acc}) \in N \cup {Base.acc} /\ Max(N \cup {Base.acc}) \in Int
       /\ \A y \in N \cup {Base.acc} : Max(N \cup {Base.acc}) >= y
  <2>1. PICK m \in Int : m = Base.acc
    BY <1>5
  <2>2. N \subseteq Int
    BY <1>8
  <2>3. /\ Max(N \cup {m}) \in N \cup {m} /\ Max(N \cup {m}) \in Int
        /\ \A y \in N \cup {m} : Max(N \cup {m}) >= y
    BY <1>8, <2>2, MaxWith
  <2> QED
    BY <2>1, <2>3
<1>12. lastSeen' \in N \cup {ckpt.acc}
  <2>1. PICK m \in Int : m = ckpt.acc
    BY <1>3
  <2>2. N \subseteq Int
    BY <1>8
  <2>3. Max(N \cup {m}) \in N \cup {m}
    BY <1>8, <2>2, MaxWith
  <2> QED
    BY <1>10, <2>1, <2>3
<1>13. cur'.acc = Max(N \cup {Base.acc}) /\ cur'.mat = Base.mat /\ cur'.high = Base.high
  BY <1>4, <1>10 DEF Cursors
<1>14. cur'.acc >= Base.acc /\ cur'.acc \in N \cup {Base.acc} /\ cur'.acc \in Int
       /\ \A y \in N : cur'.acc >= y
  BY <1>11, <1>13
<1>15. cur'.acc >= ckpt.acc /\ cur'.acc >= manifest.acc
  BY <1>3, <1>5, <1>14
<1>16. lastSeen' <= cur'.acc /\ lastSeen' \in Int
  BY <1>3, <1>8, <1>12, <1>14, <1>15
<1>17. cur'.acc \in {ckpt.acc, manifest.acc} \/ \E r \in HubsOf(Kept) : cur'.acc = r.seq
  BY <1>5, <1>9, <1>14
<1>18. /\ phase = "down" /\ src'.seq = NoSeq /\ link' = 0
       /\ UNCHANGED <<manifest, ckpt, archive, resolved, gap>>
  BY <1>3 DEF Restart
<1> QED
  BY <1>4, <1>5, <1>6, <1>7, <1>10, <1>13, <1>14, <1>15, <1>16, <1>17, <1>18

-------------------------------------------------------------------------------
(* The cursors keep their order through every step.                            *)
CursorBounds ==
  /\ cur.mat <= cur.acc /\ cur.high <= cur.acc /\ cur.acc <= Latest
  /\ manifest.mat <= manifest.acc /\ manifest.high <= manifest.acc /\ manifest.acc <= cur.acc
  /\ ckpt.mat <= ckpt.acc /\ (ckpt.acc <= cur.acc \/ ckpt.acc <= 0)
  /\ lastSeen <= cur.acc
CursorFloor ==
  /\ phase # "down" => ckpt.mat <= cur.mat /\ manifest.mat <= cur.mat
  /\ phase \in GapPhases => cur.acc <= gap.latest /\ gap.latest <= Latest
  /\ {ckpt.bucket, lastBucket} \subseteq Archived \cup {-1}
SourceInv ==
  /\ link # 0 /\ src.seq # NoSeq => link = src.seq + 1
  /\ phase \in {"run", "paused"} =>
       /\ src.seq <= cur.acc
       /\ src.seq = NoSeq => cur.mat = NoSeq /\ HubsOf(pend \cup Held) = {}
LEMMA CursorInvIs ==
  /\ CursorInv <=> CursorBounds /\ CursorFloor /\ SourceInv
  /\ CursorInv' <=> CursorBounds' /\ CursorFloor' /\ SourceInv'
BY DEF CursorInv, CursorBounds, CursorFloor, SourceInv

LEMMA CursorsNext ==
  ASSUME TypeInv'
  PROVE  /\ cur'.acc \in Int /\ cur'.mat \in Int /\ cur'.high \in Int
         /\ manifest'.acc \in Int /\ manifest'.mat \in Int /\ manifest'.high \in Int
         /\ ckpt'.acc \in Int /\ ckpt'.mat \in Int /\ lastSeen' \in Int /\ link' \in Nat
         /\ src'.seq \in Int /\ gap'.latest \in Nat
BY TypeInvIs DEF DiskTyped, IngestTyped, LoopTyped, Cursors, Checkpoints, Sources, Gaps

LEMMA BoundsStep == ASSUME MaxStreams = 1, KeepInv, [Next]_vars PROVE CursorBounds'
<1>1. TypeInv /\ PlaceInv /\ SafeInv /\ TypeInv'
  BY KeepParts, TypesStep
<1>2. /\ cur.mat <= cur.acc /\ cur.high <= cur.acc /\ cur.acc <= Latest
      /\ manifest.mat <= manifest.acc /\ manifest.high <= manifest.acc
      /\ manifest.acc <= cur.acc
      /\ ckpt.mat <= ckpt.acc /\ (ckpt.acc <= cur.acc \/ ckpt.acc <= 0)
      /\ lastSeen <= cur.acc
      /\ phase \in GapPhases => cur.acc <= gap.latest /\ gap.latest <= Latest
  BY KeepParts DEF CursorInv
<1>3. /\ cur.acc \in Int /\ cur.mat \in Int /\ cur.high \in Int
      /\ manifest.acc \in Int /\ manifest.mat \in Int /\ manifest.high \in Int
      /\ ckpt.acc \in Int /\ ckpt.mat \in Int /\ lastSeen \in Int /\ gap.latest \in Nat
  BY <1>1, CursorsAre
<1>4. /\ cur'.acc \in Int /\ cur'.mat \in Int /\ cur'.high \in Int
      /\ manifest'.acc \in Int /\ ckpt'.acc \in Int /\ lastSeen' \in Int
  BY <1>1, CursorsNext
<1>5. Latest <= Latest' /\ Latest \in Nat /\ Latest' \in Nat
  BY <1>1, LogGrows
<1>6. CASE UNCHANGED <<cur, lastSeen, manifest, ckpt>>
  <2>1. cur'.acc <= Latest'
    BY <1>2, <1>3, <1>5, <1>6
  <2> QED
    BY <1>2, <1>6, <2>1 DEF CursorBounds
<1>7. CASE IngestNew
  <2>1. /\ cur'.mat = cur.mat /\ cur'.high = cur.high
        /\ cur'.acc \in {cur.acc, link} /\ cur'.acc >= cur.acc /\ cur'.acc >= link
        /\ lastSeen' = link /\ link \in Sequences /\ link \in Int
        /\ manifest' = manifest /\ ckpt' = ckpt
    BY <1>1, <1>7, AcceptIs
  <2>2. link <= Latest
    BY <2>1, <1>5 DEF Sequences
  <2>3. cur'.acc <= Latest'
    BY <1>2, <1>3, <1>4, <1>5, <2>1, <2>2
  <2>4. /\ cur'.mat <= cur'.acc /\ cur'.high <= cur'.acc /\ manifest'.acc <= cur'.acc
        /\ lastSeen' <= cur'.acc
    BY <1>2, <1>3, <1>4, <2>1
  <2>5. ckpt'.acc <= cur'.acc \/ ckpt'.acc <= 0
    BY <1>2, <1>3, <1>4, <2>1
  <2> QED
    BY <1>2, <2>1, <2>3, <2>4, <2>5 DEF CursorBounds
<1>8. CASE Backfill
  BY <1>1, <1>6, <1>8, BackfillCursors DEF Backfill
<1>9. CASE Resolve
  <2>1. /\ cur'.acc = cur.acc
        /\ cur'.high = cur.high \/ \E r \in HubsOf(ResolvedNow) : cur'.high = r.seq
        /\ \/ cur'.mat = cur.mat
           \/ \E r \in HubsOf(ResolvedNow) : r.seq <= cur'.high /\ cur'.mat = cur'.high
           \/ \E r \in HubsOf(Left) : cur'.mat = r.seq - 1
        /\ ResolvedNow \subseteq InBooks
        /\ UNCHANGED <<lastSeen, manifest, ckpt>>
    BY <1>9, CommitIs
  <2>2. \A r \in HubsOf(ResolvedNow) \cup HubsOf(Left) : r.seq <= lastSeen /\ r.seq \in Nat
    <3> SUFFICES ASSUME NEW r \in HubsOf(ResolvedNow) \cup HubsOf(Left)
                 PROVE  r.seq <= lastSeen /\ r.seq \in Nat
      OBVIOUS
    <3>1. r \in HubsOf(pend \cup Held) /\ r \in HubsOf(files \cup pend \cup Held)
      BY <2>1 DEF HubsOf, Left, Held
    <3> QED
      BY <1>1, <3>1, LogIs DEF PlaceInv
  <2>3. cur'.high <= cur.acc
    BY <1>2, <1>3, <2>1, <2>2
  <2>4. CASE \E r \in HubsOf(Left) : cur'.mat = r.seq - 1
    <3>1. PICK r \in HubsOf(Left) : cur'.mat = r.seq - 1
      BY <2>4
    <3>2. r.seq <= lastSeen /\ r.seq \in Nat
      BY <2>2
    <3>3. cur'.mat <= cur.acc
      BY <1>2, <1>3, <3>1, <3>2
    <3> QED
      BY <1>2, <1>5, <2>1, <2>3, <3>3, <1>3 DEF CursorBounds
  <2>5. CASE cur'.mat = cur.mat \/ cur'.mat = cur'.high
    BY <1>2, <1>3, <1>5, <2>1, <2>3, <2>5 DEF CursorBounds
  <2> QED
    BY <2>1, <2>4, <2>5
<1>10. CASE ResumeFromHub
  <2>1. /\ cur'.acc = gap.latest /\ cur'.mat = gap.latest /\ cur'.high = gap.latest
        /\ ckpt'.acc = gap.latest /\ ckpt'.mat = gap.latest
        /\ lastSeen' = gap.latest /\ phase = "switch" /\ manifest' = manifest
    BY <1>1, <1>10, ResumeIs
  <2>2. cur.acc <= gap.latest /\ gap.latest <= Latest
    BY <1>2, <2>1 DEF GapPhases
  <2>3. gap.latest <= Latest' /\ manifest'.acc <= gap.latest /\ gap.latest <= gap.latest
    BY <1>2, <1>3, <1>5, <2>1, <2>2
  <2> QED
    BY <1>2, <2>1, <2>3 DEF CursorBounds
<1>11. CASE WriteManifest
  <2>1. manifest' = cur /\ UNCHANGED <<cur, lastSeen, ckpt>>
    BY <1>11 DEF WriteManifest, ingest
  <2> QED
    BY <1>2, <1>3, <1>5, <2>1 DEF CursorBounds
<1>12. CASE SaveCheckpoint
  <2>1. ckpt'.acc = cur.acc /\ ckpt'.mat = cur.mat /\ UNCHANGED <<cur, lastSeen, manifest>>
    BY <1>1, <1>12, SaveIs
  <2>2. cur'.acc <= Latest' /\ ckpt'.acc <= cur'.acc
    BY <1>2, <1>3, <1>5, <2>1
  <2> QED
    BY <1>2, <2>1, <2>2 DEF CursorBounds
<1>13. CASE Restart
  <2>1. /\ cur'.mat = Resume /\ cur'.high \in {ckpt.mat, manifest.high}
        /\ cur'.acc >= ckpt.acc /\ cur'.acc >= manifest.acc /\ lastSeen' <= cur'.acc
        /\ cur'.acc \in {ckpt.acc, manifest.acc} \/ \E r \in HubsOf(Kept) : cur'.acc = r.seq
        /\ \A r \in HubsOf(Kept) : r.seq <= Latest
        /\ UNCHANGED <<manifest, ckpt>>
    BY <1>13, RestartCursors
  <2>2. Resume \in {ckpt.mat, manifest.mat}
    BY DEF Resume, Larger
  <2>3. cur'.mat <= cur'.acc /\ cur'.high <= cur'.acc
    BY <1>2, <1>3, <1>4, <2>1, <2>2
  <2>4. cur'.acc <= Latest
    BY <1>2, <1>3, <1>4, <1>5, <2>1
  <2>5. cur'.acc <= Latest' /\ manifest'.acc <= cur'.acc /\ ckpt'.acc <= cur'.acc
    BY <1>3, <1>4, <1>5, <2>1, <2>4
  <2> QED
    BY <1>2, <2>1, <2>3, <2>5 DEF CursorBounds
<1> QED
  BY <1>6, <1>7, <1>8, <1>9, <1>10, <1>11, <1>12, <1>13, Frames

-------------------------------------------------------------------------------
LEMMA FloorStep == ASSUME MaxStreams = 1, KeepInv, [Next]_vars PROVE CursorFloor'
<1>1. TypeInv /\ PlaceInv /\ SafeInv /\ CursorBounds /\ CursorFloor
  BY KeepParts, CursorInvIs
<1>2. /\ phase # "down" => ckpt.mat <= cur.mat /\ manifest.mat <= cur.mat
      /\ phase \in GapPhases => cur.acc <= gap.latest /\ gap.latest <= Latest
      /\ {ckpt.bucket, lastBucket} \subseteq Archived \cup {-1}
  BY <1>1 DEF CursorFloor
<1>3. /\ cur.acc \in Int /\ cur.mat \in Int /\ manifest.acc \in Int /\ manifest.mat \in Int
      /\ ckpt.mat \in Int /\ gap.latest \in Nat /\ gap \in Gaps
      /\ Latest <= Latest' /\ Latest \in Nat /\ Latest' \in Nat
  BY <1>1, CursorsAre, LogGrows
<1>4. IngestNew => /\ cur'.mat = cur.mat /\ phase = "run" /\ phase' = "run"
                   /\ UNCHANGED <<ckpt, manifest>>
  BY <1>1, AcceptIs DEF IngestNew
<1>5. Backfill => cur' = cur /\ phase = "backfill"
  BY <1>1, BackfillCursors DEF Backfill
<1>6. Resolve => /\ cur'.acc = cur.acc /\ cur'.mat >= cur.mat /\ cur'.mat \in Int
                 /\ UNCHANGED <<phase, gap, ckpt, manifest>>
  BY CommitIs
<1>7. ResumeFromHub => /\ cur'.mat = gap.latest /\ ckpt'.mat = gap.latest /\ phase' = "run"
                       /\ ckpt'.bucket = ckpt.bucket /\ lastBucket' = lastBucket
                       /\ phase = "switch" /\ manifest' = manifest
  BY <1>1, ResumeIs
<1>8. Restart => /\ cur'.mat = Resume /\ phase' \in {"init", "wedged"} /\ phase = "down"
                 /\ lastBucket' = ckpt.bucket /\ UNCHANGED <<manifest, ckpt>>
  BY RestartCursors
<1>9. SaveCheckpoint => /\ ckpt'.mat = cur.mat /\ ckpt'.bucket \in {ckpt.bucket, lastBucket'}
                        /\ lastBucket' \in Archived \cup {lastBucket}
                        /\ UNCHANGED <<cur, manifest, gap>>
  BY <1>1, SaveIs
<1>10. ASSUME phase' # "down" PROVE ckpt'.mat <= cur'.mat /\ manifest'.mat <= cur'.mat
  <2>1. CASE Restart
    <3>1. Resume \in Int /\ ckpt.mat <= Resume /\ manifest.mat <= Resume
      BY <1>3, LargerIs DEF Resume
    <3> QED
      BY <1>8, <2>1, <3>1
  <2>2. CASE ~Restart
    <3>1. phase # "down"
      BY <1>1, <1>10, <2>2, PhaseIs
    <3>2. ckpt.mat <= cur.mat /\ manifest.mat <= cur.mat
      BY <1>2, <3>1
    <3>3. CASE IngestNew
      BY <1>4, <3>2, <3>3
    <3>4. CASE Resolve
      BY <1>3, <1>6, <3>2, <3>4
    <3>5. CASE ResumeFromHub
      <4>1. cur.acc <= gap.latest /\ manifest.mat <= manifest.acc /\ manifest.acc <= cur.acc
        BY <1>1, <1>2, <1>7, <3>5 DEF GapPhases, CursorBounds
      <4> QED
        BY <1>3, <1>7, <3>5, <4>1
    <3>6. CASE WriteManifest
      <4>1. manifest' = cur /\ cur' = cur /\ ckpt' = ckpt
        BY <3>6 DEF WriteManifest, ingest
      <4> QED
        BY <1>3, <3>2, <4>1
    <3>7. CASE SaveCheckpoint
      BY <1>3, <1>9, <3>2, <3>7
    <3>8. CASE UNCHANGED <<cur, manifest, ckpt>>
      BY <3>2, <3>8
    <3>9. Backfill => UNCHANGED <<manifest, ckpt>>
      BY DEF Backfill
    <3> QED
      BY <1>5, <2>2, <3>3, <3>4, <3>5, <3>6, <3>7, <3>8, <3>9, Frames
  <2> QED
    BY <2>1, <2>2
<1>11. ASSUME phase' \in GapPhases PROVE cur'.acc <= gap'.latest /\ gap'.latest <= Latest'
  <2>1. ~IngestNew /\ ~ResumeFromHub /\ ~Restart
    BY <1>4, <1>7, <1>8, <1>11 DEF GapPhases
  <2>2. cur'.acc = cur.acc
    BY <1>5, <1>6, <2>1, Frames
  <2>3. CASE ReplayUnavailable
    <3>1. gap' = [NoGap EXCEPT !.stream = hub.stream, !.latest = Latest]
      BY <2>3 DEF ReplayUnavailable
    <3>2. gap'.latest = Latest
      BY <3>1 DEF NoGap
    <3> QED
      BY <1>1, <1>3, <2>2, <3>2 DEF CursorBounds
  <2>4. CASE ~ReplayUnavailable
    <3>1. phase \in GapPhases
      BY <1>1, <1>11, <2>4, PhaseIs
    <3>2. gap'.latest = gap.latest
      <4>1. gap' = gap \/ ReplayUnavailable \/ PlanBackfill \/ Backfill
        BY <1>3, <1>11, GapFrom DEF GapPhases
      <4>2. CASE PlanBackfill
        BY <1>3, <4>2 DEF PlanBackfill, Gaps
      <4>3. CASE Backfill
        BY <1>3, <4>3 DEF Backfill, Gaps
      <4> QED
        BY <2>4, <4>1, <4>2, <4>3
    <3> QED
      BY <1>2, <1>3, <2>2, <3>1, <3>2
  <2> QED
    BY <2>3, <2>4
<1>12. {ckpt'.bucket, lastBucket'} \subseteq Archived' \cup {-1}
  <2>1. Archived \subseteq Archived'
    BY <1>1, SafeGrows
  <2>2. {ckpt'.bucket, lastBucket'} \subseteq Archived \cup {-1}
    BY <1>2, <1>7, <1>8, <1>9, Frames
  <2> QED
    BY <2>1, <2>2
<1> QED
  BY <1>10, <1>11, <1>12 DEF CursorFloor

LEMMA SourceInvStep == ASSUME MaxStreams = 1, KeepInv, [Next]_vars PROVE SourceInv'
<1>1. TypeInv /\ PlaceInv /\ SafeInv /\ JobShape /\ FlushShape /\ CursorBounds /\ SourceInv
  BY KeepParts, CursorInvIs
<1>2. /\ link # 0 /\ src.seq # NoSeq => link = src.seq + 1
      /\ phase \in {"run", "paused"} =>
           /\ src.seq <= cur.acc
           /\ src.seq = NoSeq => cur.mat = NoSeq /\ HubsOf(pend \cup Held) = {}
  BY <1>1 DEF SourceInv
<1>3. /\ cur.acc \in Int /\ cur.mat \in Int /\ link \in Nat /\ src.seq \in Int /\ src \in Sources
      /\ lastSeen \in Int /\ gap.latest \in Nat /\ lastSeen <= cur.acc /\ cur.mat <= cur.acc
      /\ Latest \in Nat /\ (link # 0 => phase = "run")
  BY <1>1, CursorsAre DEF CursorBounds
<1>4. IngestNew => /\ src'.seq = link /\ link' = link + 1 /\ cur'.acc >= link /\ link >= 1
                   /\ phase = "run" /\ cur'.mat = cur.mat /\ phase' = phase
  <2>1. IngestNew => link \in Sequences
    BY <1>1, AcceptIs
  <2> QED
    BY <1>1, <1>3, <2>1, AcceptIs DEF Sequences
<1>5. IngestKnown => /\ src'.seq = link /\ link' = link + 1 /\ link <= cur.acc /\ link >= 1
                     /\ cur' = cur
  <2>1. IngestKnown => link \in 1..Latest /\ cur' = cur
    BY DEF IngestKnown, Delivered, ingest
  <2> QED
    BY <1>1, <1>3, <2>1, KnownIs
<1>6. Connects => /\ src'.seq = src.seq /\ (src.seq # NoSeq => link' = src.seq + 1)
                  /\ phase = "run" /\ phase' = "run" /\ UNCHANGED <<cur, pend>>
  BY <1>3 DEF Connects, Sources, ingest
<1>7. ResumeFromHub => /\ cur'.acc = gap.latest /\ src'.seq = gap.latest /\ link' = 0
                       /\ phase = "switch"
  BY <1>1, ResumeIs
<1>8. SaveCheckpoint => /\ src' = src \/ (job.all /\ phase = "init" /\ src'.seq = cur.mat)
                        /\ job.step = "save" /\ UNCHANGED <<cur, link, pend>>
  BY <1>1, SaveIs
<1>9. Restart => src'.seq = NoSeq /\ link' = 0 /\ phase' \notin {"run", "paused"}
  BY RestartCursors
<1>10. ASSUME link' # 0, src'.seq # NoSeq PROVE link' = src'.seq + 1
  <2>1. CASE src' = src /\ link' \in {0, link}
    BY <1>2, <1>10, <2>1
  <2>2. CASE SaveCheckpoint
    <3>1. phase # "init"
      BY <1>3, <1>8, <1>10, <2>2
    <3> QED
      BY <1>2, <1>8, <1>10, <2>2, <3>1
  <2> QED
    BY <1>4, <1>5, <1>6, <1>7, <1>9, <1>10, <2>1, <2>2, LinkFrom
<1>11. CASE ResumeFromHub
  BY <1>3, <1>7, <1>10, <1>11 DEF SourceInv, NoSeq
<1>12. CASE SaveCheckpoint /\ job.all /\ phase = "init"
  <2>1. queue = <<>> /\ job.todo = <<>> /\ job.receipts = {} /\ InBooks = {}
    BY <1>1, <1>8, <1>12 DEF JobShape, FlushShape
  <2>2. Held = {}
    BY <2>1, ElemsAre DEF Held
  <2>3. pend = {}
    BY <1>1, <1>12, <2>2 DEF PlaceInv
  <2>4. Held' \subseteq Held
    <3>1. WriterStep /\ ~Unlinks
      BY <1>8, <1>12 DEF WriterStep, Unlinks, Unlink
    <3> QED
      BY <1>1, <3>1, HeldByWriter
  <2>5. pend' \cup Held' = {}
    BY <1>8, <1>12, <2>2, <2>3, <2>4
  <2>6. HubsOf(pend' \cup Held') = {}
    BY <2>5 DEF HubsOf
  <2>7. src'.seq = cur.mat \/ src' = src
    BY <1>8, <1>12
  <2>8. src'.seq = cur.mat
    BY <1>12 DEF SaveCheckpoint
  <2>9. src'.seq <= cur'.acc /\ (src'.seq = NoSeq => cur'.mat = NoSeq)
    BY <1>3, <1>8, <1>12, <2>8
  <2> QED
    BY <1>10, <2>6, <2>9 DEF SourceInv
<1>13. ASSUME ~ResumeFromHub, ~(SaveCheckpoint /\ job.all /\ phase = "init"),
              phase' \in {"run", "paused"}
       PROVE  /\ src'.seq <= cur'.acc
              /\ src'.seq = NoSeq => cur'.mat = NoSeq /\ HubsOf(pend' \cup Held') = {}
  <2>1. phase \in {"run", "paused"} /\ ~Restart /\ ~Backfill
    BY <1>1, <1>9, <1>13, PhaseIs DEF Backfill
  <2>2. CASE IngestNew
    BY <1>3, <1>4, <2>2 DEF NoSeq
  <2>3. CASE IngestKnown
    BY <1>3, <1>5, <2>3 DEF NoSeq
  <2>4. CASE ~IngestNew /\ ~IngestKnown
    <3>1. src'.seq = src.seq
      BY <1>6, <1>8, <1>13, <2>1, <2>4, LinkFrom
    <3>2. cur'.acc = cur.acc
      BY <1>13, <2>1, <2>4, Frames, CommitIs
    <3>3. ASSUME src.seq = NoSeq PROVE cur'.mat = NoSeq /\ HubsOf(pend' \cup Held') = {}
      <4>1. cur.mat = NoSeq /\ HubsOf(pend \cup Held) = {}
        BY <1>2, <2>1, <3>3
      <4>2. HubsOf(pend' \cup Held') \subseteq HubsOf(pend \cup Held)
        BY <1>1, <2>1, <2>4, HubsFrom
      <4>3. CASE Resolve
        <5>1. HubsOf(ResolvedNow) \subseteq HubsOf(pend \cup Held)
          BY <4>3, CommitIs DEF HubsOf, Held
        <5> QED
          BY <4>1, <4>2, <4>3, <5>1, CommitIs
      <4> QED
        BY <1>13, <2>1, <2>4, <4>1, <4>2, <4>3, Frames
    <3> QED
      BY <1>2, <2>1, <3>1, <3>2, <3>3
  <2> QED
    BY <2>2, <2>3, <2>4
<1> QED
  BY <1>10, <1>11, <1>12, <1>13 DEF SourceInv

LEMMA CursorStep == ASSUME MaxStreams = 1, KeepInv, [Next]_vars PROVE CursorInv'
BY BoundsStep, FloorStep, SourceInvStep, CursorInvIs

-------------------------------------------------------------------------------
(* No step makes a batch wanted that was not wanted before.                    *)
LEMMA WantedFrom ==
  ASSUME MaxStreams = 1, KeepInv, [Next]_vars, NEW n \in Sequences, Wanted(n)'
  PROVE  Wanted(n)
<1>1. TypeInv /\ PlaceInv /\ SafeInv /\ JobShape /\ CursorBounds /\ CursorFloor /\ SourceInv
  BY KeepParts, CursorInvIs
<1>2. /\ cur.acc \in Int /\ cur.mat \in Int /\ cur.high \in Int /\ manifest.mat \in Int
      /\ ckpt.mat \in Int /\ link \in Nat /\ src.seq \in Int /\ src \in Sources
      /\ gap \in Gaps /\ gap.latest \in Nat /\ Latest \in Nat /\ (link # 0 => phase = "run")
      /\ n \in Nat /\ n >= 1 /\ n <= Latest
  BY <1>1, CursorsAre, LogIs DEF Sequences
<1>3. /\ link' \in Nat /\ cur'.mat \in Int /\ src'.seq \in Int
      /\ manifest'.mat \in Int /\ ckpt'.mat \in Int
  BY <1>1, TypesStep, CursorsNext
<1>4. job.step # "idle" => phase # "down"
  BY <1>1 DEF PlaceInv
<1>5. phase # "down" => ckpt.mat <= cur.mat /\ manifest.mat <= cur.mat
  BY <1>1 DEF CursorFloor
<1>6. /\ Rec(n)' = Rec(n) /\ Rec(n).kind = "hub" /\ Rec(n).seq = n
  BY <1>1, LogGrows, RecIs
<1>7. ASSUME IngestNew, link <= n PROVE Wanted(n)
  <2>1. link # 0
    BY <1>2, <1>7 DEF IngestNew, Delivered
  <2> QED
    BY <1>7, <2>1 DEF Wanted
<1>8. CASE Rec(n)' \in files'
  <2>1. Rec(n) \in files'
    BY <1>6, <1>8
  <2>2. CASE Rec(n) \in files
    BY <2>2 DEF Wanted
  <2>3. CASE Rec(n) \notin files
    <3>1. CASE IngestNew
      <4>1. Rec(n) = ArrivedRecord
        BY <2>1, <2>3, <3>1 DEF IngestNew, Journal
      <4>2. ArrivedRecord = Rec(link) /\ link \in Sequences
        BY <1>1, <3>1, AcceptIs
      <4>3. PICK m \in Sequences : m = link
        BY <4>2
      <4>4. Rec(m).seq = m
        BY <1>1, RecIs
      <4>5. link = n
        BY <1>6, <4>1, <4>2, <4>3, <4>4
      <4> QED
        BY <1>2, <1>7, <3>1, <4>5
    <3>2. CASE Backfill
      <4>1. Rec(n) = BackfillBatch
        BY <2>1, <2>3, <3>2 DEF Backfill, Journal
      <4> QED
        BY <1>1, <1>6, <3>2, <4>1, BackfillIs
    <3>3. ~Unlinks /\ ~Restart
      BY <2>1, <2>3 DEF Unlinks, Unlink, Restart
    <3> QED
      BY <2>1, <2>3, <3>1, <3>2, <3>3, Frames
  <2> QED
    BY <2>2, <2>3
<1>9. ASSUME NEW s \in HubsOf(pend' \cup Held'), s.seq <= n PROVE Wanted(n)
  <2>1. CASE s \in HubsOf(pend \cup Held)
    BY <1>9, <2>1 DEF Wanted
  <2>2. CASE IngestNew /\ s = ArrivedRecord
    <3>1. ArrivedRecord = Rec(link) /\ link \in Sequences
      BY <1>1, <2>2, AcceptIs
    <3>2. PICK m \in Sequences : m = link
      BY <3>1
    <3>3. Rec(m).seq = m
      BY <1>1, RecIs
    <3>4. link <= n
      BY <1>9, <2>2, <3>1, <3>2, <3>3
    <3> QED
      BY <1>7, <2>2, <3>4
  <2>3. CASE Restart /\ s \in HubsOf(Kept)
    <3>1. s \in HubsOf(pend \cup Held)
      BY <2>3, RestartCursors DEF HubsOf
    <3> QED
      BY <2>1, <3>1
  <2> QED
    BY <1>1, <1>9, <2>1, <2>2, <2>3, HubsFrom
<1>10. ASSUME phase # "down", After(cur.mat, n) PROVE Wanted(n)
  BY <1>10 DEF Wanted
<1>11. ASSUME phase \in GapPhases, gap.latest < n PROVE Wanted(n)
  BY <1>11 DEF Wanted
<1>12. ASSUME After(Resume', n) PROVE Wanted(n)
  <2>1. CASE Resume' = Resume
    BY <1>12, <2>1 DEF Wanted
  <2>2. CASE WriteManifest
    <3>1. manifest'.mat = cur.mat /\ ckpt'.mat = ckpt.mat /\ phase # "down"
      BY <1>4, <2>2 DEF WriteManifest
    <3>2. Resume' = cur.mat
      <4>1. ckpt.mat <= cur.mat
        BY <1>5, <3>1
      <4> QED
        BY <1>2, <3>1, <4>1 DEF Resume, Larger
    <3> QED
      BY <1>10, <1>12, <3>1, <3>2
  <2>3. CASE SaveCheckpoint
    <3>1. ckpt'.mat = cur.mat /\ manifest' = manifest /\ phase # "down"
      BY <1>1, <1>4, <2>3, SaveIs
    <3>2. Resume' = cur.mat
      <4>1. manifest.mat <= cur.mat
        BY <1>5, <3>1
      <4> QED
        BY <1>2, <3>1, <4>1 DEF Resume, Larger
    <3> QED
      BY <1>10, <1>12, <3>1, <3>2
  <2>4. CASE ResumeFromHub
    <3>1. ckpt'.mat = gap.latest /\ manifest' = manifest /\ phase = "switch"
      BY <1>1, <2>4, ResumeIs
    <3>2. manifest.mat <= gap.latest
      <4>1. manifest.mat <= cur.mat /\ cur.mat <= cur.acc /\ cur.acc <= gap.latest
        BY <1>1, <3>1 DEF CursorFloor, CursorBounds, GapPhases
      <4> QED
        BY <1>2, <4>1
    <3>3. Resume' = gap.latest
      BY <1>2, <3>1, <3>2 DEF Resume, Larger
    <3>4. gap.latest < n
      BY <1>12, <3>3 DEF After
    <3> QED
      BY <1>11, <3>1, <3>4 DEF GapPhases
  <2> QED
    BY <2>1, <2>2, <2>3, <2>4, Frames DEF Resume
<1>13. ASSUME phase' # "down", After(cur'.mat, n) PROVE Wanted(n)
  <2>1. CASE Restart
    <3>1. After(Resume, n)
      BY <1>13, <2>1, RestartCursors
    <3> QED
      BY <3>1 DEF Wanted
  <2>2. CASE ResumeFromHub
    <3>1. cur'.mat = gap.latest /\ phase = "switch"
      BY <1>1, <2>2, ResumeIs
    <3>2. gap.latest < n
      BY <1>13, <3>1 DEF After
    <3> QED
      BY <1>11, <3>1, <3>2 DEF GapPhases
  <2>3. CASE cur'.mat = cur.mat /\ ~Restart
    <3>1. phase # "down"
      BY <1>1, <1>13, <2>3, PhaseIs
    <3> QED
      BY <1>10, <1>13, <2>3, <3>1
  <2>4. CASE Resolve
    <3>1. phase # "down" /\ cur'.mat >= cur.mat
      BY <1>4, <2>4, CommitIs
    <3>2. cur'.mat < n
      BY <1>13 DEF After
    <3>3. CASE cur'.mat = cur.mat
      BY <1>10, <1>13, <3>1, <3>3
    <3>4. ASSUME NEW r \in HubsOf(ResolvedNow), r.seq <= cur'.high, cur'.mat = cur'.high
          PROVE  Wanted(n)
      <4>1. r \in HubsOf(pend \cup Held) /\ r \in HubsOf(files \cup pend \cup Held)
        BY <2>4, <3>4, CommitIs DEF HubsOf, Held
      <4>2. r.seq \in Nat
        BY <1>1, <4>1, LogIs DEF PlaceInv
      <4>3. r.seq <= n
        BY <1>2, <1>3, <3>2, <3>4, <4>2
      <4> QED
        BY <4>1, <4>3 DEF Wanted
    <3>5. ASSUME NEW r \in HubsOf(Left), cur'.mat = r.seq - 1
          PROVE  Wanted(n)
      <4>1. r \in HubsOf(pend \cup Held) /\ r \in HubsOf(files \cup pend \cup Held)
        BY <3>5 DEF HubsOf, Held, Left
      <4>2. r.seq \in Nat
        BY <1>1, <4>1, LogIs DEF PlaceInv
      <4>3. r.seq <= n
        BY <1>2, <1>3, <3>2, <3>5, <4>2
      <4> QED
        BY <4>1, <4>3 DEF Wanted
    <3> QED
      BY <2>4, <3>3, <3>4, <3>5, CommitIs
  <2>5. IngestNew => cur'.mat = cur.mat
    BY <1>1, AcceptIs
  <2>6. Backfill => cur' = cur
    BY <1>1, BackfillCursors
  <2> QED
    BY <2>1, <2>2, <2>3, <2>4, <2>5, <2>6, Frames
<1>14. ASSUME phase' \in {"run", "paused"}, After(src'.seq, n) PROVE Wanted(n)
  <2>1. CASE ResumeFromHub
    <3>1. src'.seq = gap.latest /\ phase = "switch"
      BY <1>1, <2>1, ResumeIs
    <3>2. gap.latest < n
      BY <1>14, <3>1 DEF After
    <3> QED
      BY <1>11, <3>1, <3>2 DEF GapPhases
  <2>2. CASE SaveCheckpoint /\ src'.seq = cur.mat
    <3>1. phase # "down"
      BY <1>4, <2>2 DEF SaveCheckpoint
    <3> QED
      BY <1>10, <1>14, <2>2, <3>1
  <2>3. CASE IngestNew
    <3>1. src'.seq = link
      BY <1>1, <2>3, AcceptIs
    <3> QED
      BY <1>2, <1>7, <1>14, <2>3, <3>1 DEF After
  <2>4. CASE IngestKnown
    <3>1. src'.seq = link /\ link # 0
      BY <1>1, <1>2, <2>4, KnownIs DEF IngestKnown, Delivered
    <3>2. link <= n
      BY <1>2, <1>14, <3>1 DEF After
    <3> QED
      BY <3>1, <3>2 DEF Wanted
  <2>5. CASE /\ src'.seq = src.seq /\ ~ResumeFromHub
             /\ ~(SaveCheckpoint /\ job.all /\ phase = "init")
    <3>1. phase \in {"run", "paused"}
      BY <1>1, <1>14, <2>5, PhaseIs
    <3> QED
      BY <1>14, <2>5, <3>1 DEF Wanted
  <2>6. CASE Restart
    BY <1>14, <2>6, RestartCursors
  <2>7. Connects => src'.seq = src.seq
    BY <1>2 DEF Connects, Sources
  <2>8. SaveCheckpoint => src' = src \/ src'.seq = cur.mat
    BY <1>1, SaveIs
  <2>9. SaveCheckpoint /\ job.all /\ phase = "init" => src'.seq = cur.mat
    BY DEF SaveCheckpoint
  <2> QED
    BY <2>1, <2>2, <2>3, <2>4, <2>5, <2>6, <2>7, <2>8, <2>9, LinkFrom
<1>15. ASSUME link' # 0, link' <= n PROVE Wanted(n)
  <2>1. CASE link' = link
    BY <1>15, <2>1 DEF Wanted
  <2>2. CASE Connects
    <3>1. phase = "run" /\ link' = IF src.seq = NoSeq THEN Latest + 1 ELSE src.seq + 1
      BY <2>2 DEF Connects
    <3>2. link' = src.seq + 1 /\ src.seq # NoSeq
      BY <1>2, <1>15, <3>1
    <3>3. NoSeq < src.seq /\ src.seq < n
      BY <1>2, <1>3, <1>15, <3>2 DEF NoSeq
    <3> QED
      BY <3>1, <3>3 DEF Wanted, After
  <2>3. CASE IngestNew \/ IngestKnown
    <3>1. link' = link + 1 /\ link # 0
      BY <1>2, <2>3 DEF IngestNew, IngestKnown, Delivered
    <3>2. link <= n
      BY <1>2, <1>15, <3>1
    <3> QED
      BY <3>1, <3>2 DEF Wanted
  <2>4. ResumeFromHub \/ Restart => link' = 0
    BY <1>1, ResumeIs, RestartCursors
  <2>5. SaveCheckpoint => link' = link
    BY DEF SaveCheckpoint
  <2> QED
    BY <1>15, <2>1, <2>2, <2>3, <2>4, <2>5, LinkFrom
<1>16. ASSUME phase' \in GapPhases, gap'.latest < n PROVE Wanted(n)
  <2>1. CASE ReplayUnavailable
    <3>1. gap' = [NoGap EXCEPT !.stream = hub.stream, !.latest = Latest]
      BY <2>1 DEF ReplayUnavailable
    <3>2. gap'.latest = Latest
      BY <3>1 DEF NoGap
    <3> QED
      BY <1>2, <1>16, <3>2
  <2>2. CASE ~ReplayUnavailable
    <3>1. phase \in GapPhases
      BY <1>1, <1>16, <2>2, PhaseIs
    <3>2. gap' = gap \/ PlanBackfill \/ Backfill
      BY <1>2, <1>16, <2>2, GapFrom DEF GapPhases
    <3>3. gap'.latest = gap.latest
      BY <1>2, <3>2 DEF PlanBackfill, Backfill, Gaps
    <3> QED
      BY <1>11, <1>16, <3>1, <3>3
  <2> QED
    BY <2>1, <2>2
<1> QED
  BY <1>8, <1>9, <1>12, <1>13, <1>14, <1>15, <1>16 DEF Wanted

-------------------------------------------------------------------------------
LEMMA QuotientsGrow ==
  ASSUME NEW x \in Nat, NEW y \in Nat, NEW w \in Nat \ {0}, x <= y
  PROVE  x \div w <= y \div w
<1>1. PICK p \in Int, q \in Int : p = x \div w /\ q = y \div w
  OBVIOUS
<1>2. p * w <= x /\ x < p * w + w /\ q * w <= y /\ y < q * w + w
  BY <1>1
<1>3. p * w \in Int /\ q * w \in Int /\ (q + 1) * w \in Int /\ q + 1 \in Int
  OBVIOUS
<1>4. (q + 1) * w = q * w + w
  OBVIOUS
<1>5. q + 1 <= p => (q + 1) * w <= p * w
  BY <1>3, TimesGrow
<1>6. ~(q + 1 <= p)
  BY <1>2, <1>3, <1>4, <1>5
<1> QED
  BY <1>1, <1>6

(* Whatever keeps a row of a journalled batch from being safe: the batch is    *)
(* still queued, or staged with that row in an open window.                    *)
Waits(t, n, b) ==
  /\ t.rec = Rec(n) /\ <<b, "hub">> \in t.left
  /\ <<b, "hub">> \notin job.keys \cup books.over /\ InWindow(books, <<b, "hub">>)

LEMMA Unresolved ==
  ASSUME KeepInv, NEW n \in Sequences, NEW b \in Rows(hub.log[n]), b \notin Safe
  PROVE  /\ Rec(n) \notin resolved
         /\ Rec(n) \in files => Rec(n) \in pend
<1>1. TypeInv /\ SafeInv /\ PlaceInv
  BY KeepParts
<1>2. Rec(n).rows = Rows(hub.log[n]) /\ Rec(n).kind = "hub"
  BY <1>1, RecIs
<1>3. Rec(n) \notin resolved
  <2> SUFFICES ASSUME Rec(n) \in resolved PROVE FALSE
    OBVIOUS
  <2>1. RowSafe(Rec(n), b, Archived, Safe)
    BY <1>1, <1>2 DEF SafeInv
  <2> QED
    BY <1>2, <2>1 DEF RowSafe
<1> QED
  BY <1>1, <1>3 DEF PlaceInv

LEMMA StillWaits ==
  ASSUME KeepInv, job.step = "write", NEW n \in Sequences,
         Rec(n) \in files, NEW b \in Rows(hub.log[n]), b \notin Safe
  PROVE  Rec(n) \in Elems(queue) \/ \E t \in books.staged : Waits(t, n, b)
<1>1. TypeInv /\ SafeInv /\ PlaceInv /\ JobShape /\ WindowInv
  BY KeepParts
<1>2. Rec(n).rows = Rows(hub.log[n]) /\ Rec(n).kind = "hub"
  BY <1>1, RecIs
<1>3. Rec(n) \in Held
  BY <1>1, Unresolved DEF PlaceInv
<1>4. job.todo = <<>> /\ job.receipts = {}
  BY <1>1 DEF JobShape
<1>5. Rec(n) \in Elems(queue) \/ Rec(n) \in InBooks
  BY <1>3, <1>4, ElemsAre DEF Held
<1>6. BooksSafe(books, Archived, Safe) /\ Archived \subseteq Safe
  BY <1>1, SafeSets DEF SafeInv
<1>7. Rec(n) \notin books.empties
  BY <1>2, <1>6 DEF BooksSafe, EmptySafe
<1>8. ASSUME NEW t \in books.staged, t.rec = Rec(n) PROVE Waits(t, n, b)
  <2>1. <<b, "hub">> \in t.left
    <3>1. <<b, t.rec.kind>> \in t.left \/ RowSafe(t.rec, b, Archived, Safe)
      BY <1>2, <1>6, <1>8 DEF BooksSafe, StagedSafe
    <3> QED
      BY <1>2, <1>8, <3>1 DEF RowSafe
  <2>2. <<b, "hub">> \notin books.over
    BY <1>6 DEF BooksSafe, OverSafe
  <2>3. <<b, "hub">> \notin job.keys
    BY <1>1, <1>6 DEF SafeInv
  <2>4. LeftKnown(books, job.keys)
    BY <1>1 DEF WindowInv
  <2>5. InWindow(books, <<b, "hub">>)
    BY <2>1, <2>2, <2>3, <2>4 DEF LeftKnown
  <2> QED
    BY <1>8, <2>1, <2>2, <2>3, <2>5 DEF Waits
<1> QED
  BY <1>5, <1>7, <1>8 DEF InBooks, Stocked

(* Of two journalled batches, the earlier one is not behind in the queue once  *)
(* the later one is in the books.                                              *)
LEMMA LaterIsBehind ==
  ASSUME KeepInv, NEW m \in Sequences, NEW n \in Sequences, Rec(m) \in InBooks,
         Rec(n) \in Elems(queue)
  PROVE  m < n
<1>1. TypeInv /\ OrderInv
  BY KeepParts
<1>2. /\ Rec(m).kind = "hub" /\ Rec(m).seq = m /\ Rec(n).kind = "hub" /\ Rec(n).seq = n
  BY <1>1, RecIs
<1>3. Before(InBooks, Elems(queue))
  BY <1>1 DEF OrderInv
<1>4. Rec(m) \in HubsOf(InBooks) /\ Rec(n) \in HubsOf(Elems(queue))
  BY <1>2 DEF HubsOf
<1>5. Rec(m).seq < Rec(n).seq
  BY <1>3, <1>4 DEF Before
<1> QED
  BY <1>2, <1>5

LEMMA RowsInOrder ==
  ASSUME KeepInv, NEW m \in Sequences, NEW n \in Sequences, m < n,
         NEW b \in Rows(hub.log[m]), NEW c \in Rows(hub.log[n])
  PROVE  b < c
<1>1. /\ hub.log[m].last \in Int /\ hub.log[n].first \in Int /\ b \in Int /\ c \in Int
      /\ b <= hub.log[m].last /\ hub.log[n].first <= c
  BY KeepParts, LogIs, BucketsAre
<1>2. hub.log[m].last < hub.log[n].first
  BY KeepParts DEF LogInv
<1> QED
  BY <1>1, <1>2

LEMMA RowsLowStep ==
  ASSUME MaxStreams = 1, KeepInv, [Next]_vars, NEW n \in Sequences, Good(n)
  PROVE  RowsLow(n)'
<1>1. TypeInv /\ SafeInv /\ PlaceInv /\ WindowInv /\ BackInv /\ CursorBounds
  BY KeepParts, CursorInvIs
<1>2. hub'.log[n] = hub.log[n] /\ Safe \subseteq Safe' /\ Safe \subseteq Buckets
  BY <1>1, LogGrows, SafeGrows, SafeSets
<1>3. Rows(hub.log[n]) \subseteq Buckets /\ Rows(hub.log[n]) \subseteq Selected
  BY <1>1, LogIs DEF Rows
<1> SUFFICES ASSUME NEW b \in Rows(hub.log[n]), NEW c \in Safe', b <= c
             PROVE  b \in Safe'
  BY <1>2 DEF RowsLow, Rows
<1>4. b \in Int /\ c \in Int /\ b \in Buckets
  <2>1. Safe' \subseteq Buckets
    BY DEF Safe
  <2> QED
    BY <1>3, <2>1, BucketsAre
<1>5. CASE c \in Safe
  BY <1>2, <1>5 DEF Good, RowsLow
<1>6. CASE b = c \/ b \in Safe
  BY <1>2, <1>6
<1>7. CASE Backfill /\ c = gap.next /\ b # c /\ b \notin Safe
  <2>1. PICK d \in Safe \cup {-1} : \A x \in Selected : d < x /\ x < gap.next => x \in Safe
    BY <1>1, <1>7 DEF BackInv, Backfill
  <2>2. d \in Int
    BY <1>2, BucketsAre
  <2>3. b < gap.next
    BY <1>4, <1>7
  <2>4. ~(d < b)
    BY <1>3, <1>7, <2>1, <2>3
  <2>5. b <= d
    BY <1>4, <2>2, <2>4
  <2>6. b >= 0
    BY <1>4 DEF Buckets
  <2>7. d \in Safe
    BY <1>4, <2>1, <2>2, <2>5, <2>6
  <2> QED
    BY <1>7, <2>5, <2>7 DEF Good, RowsLow
<1>8. CASE /\ WriteWindow /\ Window(c) = Min(job.windows) /\ InWindow(books, <<c, "hub">>)
           /\ c \notin Safe /\ b # c /\ b \notin Safe
  <2>1. c \in Buckets /\ job.step = "write" /\ b < c
    <3>1. c \in Buckets
      BY DEF Safe
    <3> QED
      BY <1>4, <1>8, <3>1 DEF WriteWindow
  <2>2. PICK m \in Sequences : c \in Rows(hub.log[m]) /\ Rec(m) \in InBooks
    BY <1>8, <2>1, HubRowIn
  <2>3. ~(m < n) /\ n \in Int /\ m \in Int
    <3>1. ASSUME m < n PROVE FALSE
      <4>1. c < b
        BY <2>2, <3>1, RowsInOrder
      <4> QED
        BY <1>4, <2>1, <4>1
    <3> QED
      BY <1>1, <3>1, LogIs
  <2>4. n <= m
    BY <2>3
  <2>5. n <= cur.acc
    <3>1. Rec(m).kind = "hub" /\ Rec(m).seq = m
      BY <1>1, RecIs
    <3>2. Rec(m) \in HubsOf(pend \cup Held)
      BY <2>2, <3>1 DEF HubsOf, Held
    <3>3. Rec(m).seq <= lastSeen
      BY <1>1, <3>2 DEF PlaceInv
    <3>4. lastSeen <= cur.acc /\ lastSeen \in Int /\ cur.acc \in Int
      BY <1>1, CursorsAre DEF CursorBounds
    <3> QED
      BY <2>3, <2>4, <3>1, <3>3, <3>4
  <2>6. Rec(n) \in files
    BY <1>8, <2>5 DEF Good, Done
  <2>7. Rec(n) \notin Elems(queue)
    BY <2>2, <2>3, LaterIsBehind
  <2>8. PICK t \in books.staged : Waits(t, n, b)
    BY <1>8, <2>1, <2>6, <2>7, StillWaits
  <2>9. Window(b) \in books.open /\ books.rows[b] = "hub"
    BY <2>8 DEF Waits, InWindow
  <2>10. Window(b) \in Int /\ Window(c) \in Int /\ Window(b) <= Window(c)
    <3>1. WindowLen \in Nat \ {0}
      BY ClockAssumption
    <3>2. Window(b) \in Int /\ Window(c) \in Int
      BY <1>4, <2>1, BucketsAre
    <3>3. b \div WindowLen <= c \div WindowLen
      BY <1>4, <2>1, <3>1, QuotientsGrow DEF Buckets
    <3> QED
      BY <3>2, <3>3 DEF Window
  <2>11. Window(b) \in job.windows /\ Min(job.windows) \in job.windows
    <3>1. Window(c) \in job.windows /\ Min(job.windows) \in job.windows
      BY <1>1, <1>8, FirstWindow
    <3> QED
      BY <1>1, <2>1, <2>9, <2>10, <3>1 DEF WindowInv
  <2>12. Window(b) = Min(job.windows)
    <3>1. PICK W : W = job.windows
      OBVIOUS
    <3>2. W \subseteq Int /\ IsFiniteSet(W) /\ W # {}
      <4>1. job.windows \subseteq Windows
        BY <1>1, TypeInvIs DEF WriterTyped, Jobs
      <4> QED
        BY <2>11, <3>1, <4>1, BucketsAre, FS_Subset
    <3>3. Min(W) <= Window(b)
      BY <2>11, <3>1, <3>2, MinIs
    <3> QED
      BY <1>8, <2>10, <3>1, <3>3
  <2>13. archive'[b] = books.rows[b]
    <3>1. books \in GoodBooks /\ archive \in [Buckets -> Version]
      BY <1>1, TypeInvIs DEF WriterTyped, DiskTyped
    <3>2. archive' = Written(archive, books, Min(job.windows))
      BY <1>8 DEF WriteWindow
    <3> QED
      BY <1>4, <2>12, <3>1, <3>2, WriteGood
  <2> QED
    BY <1>4, <2>9, <2>13 DEF Safe
<1> QED
  BY <1>1, <1>5, <1>6, <1>7, <1>8, SafeFrom

-------------------------------------------------------------------------------
(* A batch that a commit passes, and that is still wanted, is safe.            *)
LEMMA PassedIsDone ==
  ASSUME MaxStreams = 1, KeepInv, Resolve, NEW n \in Sequences, Good(n), Past(n)'
  PROVE  Done(n)
<1>1. TypeInv /\ SafeInv /\ PlaceInv /\ WindowInv /\ CursorBounds
  BY KeepParts, CursorInvIs
<1>2. /\ cur'.acc = cur.acc
      /\ cur'.high = cur.high \/ \E r \in HubsOf(ResolvedNow) : cur'.high = r.seq
      /\ \A r \in HubsOf(Left) : cur'.mat < r.seq \/ cur'.mat = cur.mat
      /\ \/ cur'.mat = cur.mat
         \/ \E r \in HubsOf(ResolvedNow) : r.seq <= cur'.high /\ cur'.mat = cur'.high
         \/ \E r \in HubsOf(Left) : cur'.mat = r.seq - 1
      /\ ResolvedNow \subseteq InBooks /\ ResolvedNow \subseteq Record
      /\ cur'.mat \in Int /\ cur'.high \in Int
      /\ job.step = "write" /\ job.windows = {} /\ ckpt' = ckpt /\ manifest' = manifest
  BY CommitIs
<1>3. cur.acc \in Int /\ cur.mat \in Int /\ cur.high \in Int /\ lastSeen \in Int /\ n \in Nat
  BY <1>1, CursorsAre, LogIs
<1>4. cur.mat <= cur.acc /\ cur.high <= cur.acc /\ lastSeen <= cur.acc
  BY <1>1 DEF CursorBounds
<1>5. \A r \in HubsOf(ResolvedNow) \cup HubsOf(Left) :
        r.seq \in Sequences /\ r.seq \in Nat /\ r = Rec(r.seq) /\ r.seq <= lastSeen
  <2> SUFFICES ASSUME NEW r \in HubsOf(ResolvedNow) \cup HubsOf(Left)
               PROVE  /\ r.seq \in Sequences /\ r.seq \in Nat /\ r = Rec(r.seq)
                      /\ r.seq <= lastSeen
    OBVIOUS
  <2>1. r \in HubsOf(pend \cup Held) /\ r \in HubsOf(files \cup pend \cup Held)
    BY <1>2 DEF HubsOf, Left, Held
  <2> QED
    BY <1>1, <2>1, LogIs DEF PlaceInv
<1>6. CASE Past(n)
  BY <1>6 DEF Good
<1>7. CASE ~Past(n)
  <2> SUFFICES ASSUME NEW b \in Rows(hub.log[n]), b \notin Safe PROVE FALSE
    BY DEF Done
  <2>1. ~(n <= cur.mat) /\ ~(n <= cur.high)
    BY <1>7 DEF Past
  <2>2. n <= cur'.high \/ n <= cur'.mat
    BY <1>2, <1>7 DEF Past
  <2>3. n <= cur.acc
    <3>1. cur'.high <= cur.acc
      BY <1>2, <1>3, <1>4, <1>5
    <3>2. ASSUME NEW r \in HubsOf(Left), cur'.mat = r.seq - 1 PROVE cur'.mat <= cur.acc
      <4>1. r.seq \in Nat /\ r.seq <= lastSeen
        BY <1>5, <3>2
      <4> QED
        BY <1>3, <1>4, <3>2, <4>1
    <3>3. cur'.mat <= cur.acc
      BY <1>2, <1>4, <3>1, <3>2
    <3> QED
      BY <1>2, <1>3, <2>2, <3>1, <3>3
  <2>4. Rec(n) \in files /\ Rec(n) \in pend /\ Rec(n) \notin resolved
    BY <2>3, Unresolved DEF Good, Done
  <2>5. Rec(n).kind = "hub" /\ Rec(n).seq = n /\ Rec(n).rows = Rows(hub.log[n])
    BY <1>1, RecIs
  <2>6. Rec(n) \notin ResolvedNow
    <3>1. SUFFICES ASSUME Rec(n) \in ResolvedNow PROVE FALSE
      OBVIOUS
    <3>2. \A r \in Ready(books, job.keys, job.all) : \A x \in r.rows : RowSafe(r, x, Archived, Safe)
      BY <1>1, ResolveSafe
    <3>3. RowSafe(Rec(n), b, Archived, Safe)
      BY <2>5, <3>1, <3>2 DEF ResolvedNow
    <3> QED
      BY <2>5, <3>3 DEF RowSafe
  <2>7. cur'.mat < n
    <3>1. Rec(n) \in HubsOf(Left)
      BY <2>4, <2>5, <2>6 DEF Left, HubsOf
    <3> QED
      BY <1>2, <1>3, <2>1, <2>5, <3>1
  <2>8. PICK r \in HubsOf(ResolvedNow) : n <= r.seq
    BY <1>2, <1>3, <2>1, <2>2, <2>7
  <2>9. PICK m \in Sequences : m = r.seq /\ r = Rec(m) /\ m \in Nat
    BY <1>5
  <2>10. n < m /\ Rec(m) \in ResolvedNow /\ Rec(m) \in InBooks
    <3>1. n # m
      BY <2>6, <2>9 DEF HubsOf
    <3> QED
      BY <1>2, <1>3, <2>8, <2>9, <3>1 DEF HubsOf
  <2>11. Rec(n) \notin Elems(queue)
    <3>1. Rec(n) \in Elems(queue) => m < n
      BY <2>10, LaterIsBehind
    <3> QED
      BY <1>3, <2>9, <2>10, <3>1
  <2>12. PICK t \in books.staged : Waits(t, n, b)
    BY <1>2, <2>4, <2>11, StillWaits
  <2>13. books \in GoodBooks /\ Archived \subseteq Safe
    BY <1>1, TypeInvIs, SafeSets DEF WriterTyped
  <2>14. CASE \E u \in books.staged : u.rec = Rec(m) /\ u.left \subseteq job.keys \cup books.over
    <3>1. PICK u \in books.staged : u.rec = Rec(m) /\ u.left \subseteq job.keys \cup books.over
      BY <2>14
    <3>2. LeftKnown(books, job.keys)
      BY <1>1, <1>2 DEF WindowInv
    <3>3. PICK k \in u.left : k[1] \in u.rec.rows
      BY <3>2 DEF LeftKnown
    <3>4. k[1] \in Safe
      <4>1. \A x \in job.keys : x[1] \in Archived
        BY <1>1 DEF SafeInv
      <4>2. \A x \in books.over : x[1] \in Safe
        BY <1>1 DEF SafeInv, BooksSafe, OverSafe
      <4> QED
        BY <2>13, <3>1, <4>1, <4>2
    <3>5. k[1] \in Rows(hub.log[m])
      BY <1>1, <3>1, <3>3, RecIs
    <3>6. b < k[1]
      BY <2>10, <3>5, RowsInOrder
    <3>7. b \in Int /\ k[1] \in Int
      BY <1>1, <3>5, LogIs, BucketsAre
    <3> QED
      BY <3>4, <3>6, <3>7 DEF Good, RowsLow
  <2>15. CASE Rec(m) \in EmptiesDone(books, job.keys, job.all)
    <3>1. job.all \/ \A s \in Waiting(books, job.keys) : Rec(m).seq < s.rec.seq
      BY <2>15 DEF EmptiesDone
    <3>2. CASE job.all
      <4>1. job.windows = books.open
        BY <1>2, <3>2, KeepParts DEF FlushShape
      <4> QED
        BY <1>2, <2>12, <4>1 DEF Waits, InWindow
    <3>3. CASE \A s \in Waiting(books, job.keys) : Rec(m).seq < s.rec.seq
      <4>1. PICK s : s = Less(t, books, job.keys)
        OBVIOUS
      <4>2. s.rec = Rec(n) /\ <<b, "hub">> \in s.left
        BY <2>12, <4>1 DEF Less, Waits
      <4>3. s \in Waiting(books, job.keys)
        BY <2>12, <2>13, <4>1, <4>2, WaitingAre
      <4>4. Rec(m).seq < Rec(n).seq
        BY <3>3, <4>2, <4>3
      <4>5. Rec(m).seq = m
        BY <1>1, RecIs
      <4> QED
        BY <1>3, <2>5, <2>9, <2>10, <4>4, <4>5
    <3> QED
      BY <3>1, <3>2, <3>3
  <2> QED
    BY <2>10, <2>13, <2>14, <2>15, ReadyAre DEF ResolvedNow
<1> QED
  BY <1>6, <1>7

-------------------------------------------------------------------------------
LEMMA DoneStays ==
  ASSUME MaxStreams = 1, KeepInv, [Next]_vars, NEW n \in Sequences
  PROVE  Done(n) => Done(n)'
<1>1. hub'.log[n] = hub.log[n] /\ Safe \subseteq Safe'
  BY KeepParts, LogGrows, SafeGrows
<1> QED
  BY <1>1 DEF Done, Rows

LEMMA ResolvedIsDone ==
  ASSUME KeepInv, NEW n \in Sequences, Rec(n) \in resolved
  PROVE  Done(n)
BY Unresolved DEF Done

(* When a recovered gap is left behind nothing waits, and what the hub sends   *)
(* next comes after it.                                                        *)
LEMMA WantedAfterGap ==
  ASSUME MaxStreams = 1, KeepInv, ResumeFromHub, [Next]_vars, NEW n \in Sequences, Wanted(n)',
         n <= gap.latest
  PROVE  Done(n)
<1>1. TypeInv /\ PlaceInv /\ SafeInv /\ JobShape /\ CursorBounds /\ CursorFloor
  BY KeepParts, CursorInvIs
<1>2. /\ cur'.mat = gap.latest /\ ckpt'.mat = gap.latest /\ src'.seq = gap.latest /\ link' = 0
      /\ phase' = "run" /\ phase = "switch" /\ manifest' = manifest
  BY <1>1, ResumeIs
<1>3. /\ gap.latest \in Nat /\ manifest.mat \in Int /\ cur.mat \in Int /\ cur.acc \in Int
      /\ n \in Nat
  BY <1>1, CursorsAre, LogIs
<1>4. pend = {} /\ Held = {} /\ pend' = pend /\ files' = files
  BY <1>1, <1>2 DEF PlaceInv, ResumeFromHub
<1>5. Held' = {}
  <2>1. queue' = queue /\ job' = job /\ books' = books
    BY DEF ResumeFromHub, writer
  <2> QED
    BY <1>4, <2>1 DEF Held, InBooks
<1>6. Resume' = gap.latest
  <2>1. manifest.mat <= cur.mat /\ cur.mat <= cur.acc /\ cur.acc <= gap.latest
    BY <1>1, <1>2 DEF CursorFloor, CursorBounds, GapPhases
  <2>2. manifest.mat <= gap.latest
    BY <1>3, <2>1
  <2> QED
    BY <1>2, <1>3, <2>2 DEF Resume, Larger
<1>7. ~(gap.latest < n)
  BY <1>3
<1>8. HubsOf(pend' \cup Held') = {}
  BY <1>4, <1>5 DEF HubsOf
<1>9. Rec(n)' \in files'
  BY <1>2, <1>6, <1>7, <1>8 DEF Wanted, After, GapPhases
<1>10. Rec(n) \in files
  BY <1>1, <1>4, <1>9, LogGrows
<1>11. Rec(n) \in resolved
  BY <1>1, <1>4, <1>10 DEF PlaceInv
<1> QED
  BY <1>11, ResolvedIsDone

LEMMA PastStep ==
  ASSUME MaxStreams = 1, KeepInv, [Next]_vars, NEW n \in Sequences, Good(n), Wanted(n)', Past(n)'
  PROVE  Done(n)
<1>1. TypeInv /\ SafeInv
  BY KeepParts
<1>2. Past(n) => Done(n)
  BY DEF Good
<1>3. CASE IngestNew
  BY <1>1, <1>2, <1>3, AcceptIs DEF Past
<1>4. CASE Backfill
  <2>1. cur' = cur /\ UNCHANGED <<ckpt, manifest>>
    BY <1>1, <1>4, BackfillCursors DEF Backfill
  <2> QED
    BY <1>2, <2>1 DEF Past
<1>5. CASE Resolve
  BY <1>5, PassedIsDone
<1>6. CASE ResumeFromHub
  <2>1. /\ cur'.mat = gap.latest /\ cur'.high = gap.latest /\ ckpt'.mat = gap.latest
        /\ manifest' = manifest
    BY <1>1, <1>6, ResumeIs
  <2>2. n <= gap.latest \/ Past(n)
    BY <2>1 DEF Past
  <2> QED
    BY <1>2, <1>6, <2>2, WantedAfterGap
<1>7. CASE Restart
  <2>1. /\ cur'.mat = Resume /\ cur'.high \in {ckpt.mat, manifest.high}
        /\ UNCHANGED <<ckpt, manifest>>
    BY <1>7, RestartCursors
  <2> QED
    BY <1>2, <2>1 DEF Past, Resume, Larger
<1>8. CASE WriteManifest
  <2>1. manifest' = cur /\ UNCHANGED <<cur, ckpt>>
    BY <1>8 DEF WriteManifest, ingest
  <2> QED
    BY <1>2, <2>1 DEF Past
<1>9. CASE SaveCheckpoint
  BY <1>1, <1>2, <1>9, SaveIs DEF Past
<1>10. CASE UNCHANGED <<cur, ckpt, manifest>>
  BY <1>2, <1>10 DEF Past
<1> QED
  BY <1>3, <1>4, <1>5, <1>6, <1>7, <1>8, <1>9, <1>10, Frames

LEMMA AcceptedStays ==
  ASSUME MaxStreams = 1, KeepInv, [Next]_vars, NEW n \in Sequences, Good(n), Wanted(n)',
         n <= cur'.acc
  PROVE  Rec(n) \in files' \/ Done(n)
<1>1. TypeInv /\ SafeInv /\ PlaceInv /\ CursorBounds /\ CursorFloor /\ SourceInv
  BY KeepParts, CursorInvIs
<1>2. /\ cur.acc \in Int /\ cur.mat \in Int /\ ckpt.acc \in Int /\ manifest.acc \in Int
      /\ manifest.mat \in Int /\ ckpt.mat \in Int
      /\ lastSeen \in Int /\ n \in Nat /\ n >= 1 /\ link \in Nat /\ src.seq \in Int
  BY <1>1, CursorsAre, LogIs DEF Sequences
<1>3. /\ ckpt.acc <= cur.acc \/ ckpt.acc <= 0
      /\ manifest.acc <= cur.acc /\ lastSeen <= cur.acc
  BY <1>1 DEF CursorBounds
<1>4. n <= cur.acc => Rec(n) \in files \/ Done(n)
  BY DEF Good
<1>5. CASE IngestNew
  <2>1. /\ cur'.acc \in {cur.acc, link} /\ link \in Sequences /\ ArrivedRecord = Rec(link)
        /\ phase = "run" /\ src'.seq = link /\ link' = link + 1 /\ cur'.mat = cur.mat
        /\ UNCHANGED <<ckpt, manifest, phase>>
    BY <1>1, <1>5, AcceptIs
  <2>2. files' = files \cup {ArrivedRecord}
    BY <1>5 DEF IngestNew, Journal
  <2>3. CASE n <= cur.acc
    BY <1>4, <2>2, <2>3
  <2>4. CASE n = link
    BY <2>1, <2>2, <2>4
  <2>5. CASE ~(n <= cur.acc) /\ n # link
    <3>1. cur.acc < n /\ n < link
      BY <1>2, <1>5, <2>1, <2>5
    <3>2. src.seq = NoSeq
      <4>1. SUFFICES ASSUME src.seq # NoSeq PROVE FALSE
        OBVIOUS
      <4>2. link = src.seq + 1 /\ src.seq <= cur.acc
        BY <1>1, <1>2, <2>1, <3>1, <4>1 DEF SourceInv
      <4> QED
        BY <1>2, <3>1, <4>2
    <3>3. cur.mat = NoSeq /\ HubsOf(pend \cup Held) = {}
      BY <1>1, <2>1, <3>2 DEF SourceInv
    <3>4. ckpt.mat <= NoSeq /\ manifest.mat <= NoSeq
      BY <1>1, <2>1, <3>3 DEF CursorFloor
    <3>5. ~After(Resume', n) /\ ~After(cur'.mat, n) /\ ~After(src'.seq, n)
      <4>1. ~(NoSeq < Resume')
        BY <1>2, <2>1, <3>4, BoundsAre DEF Resume, Larger
      <4>2. ~(NoSeq < cur'.mat)
        BY <2>1, <3>3, BoundsAre
      <4>3. ~(src'.seq < n)
        BY <1>2, <2>1, <3>1
      <4> QED
        BY <4>1, <4>2, <4>3 DEF After
    <3>6. ~(link' <= n)
      BY <1>2, <2>1, <3>1
    <3>7. \A s \in HubsOf(pend' \cup Held') : ~(s.seq <= n)
      <4>1. HubsOf(pend' \cup Held') \subseteq {ArrivedRecord}
        BY <1>1, <1>5, <2>1, <3>3, HubsFrom, KeepParts DEF Restart
      <4>2. PICK m \in Sequences : m = link
        BY <2>1
      <4>3. Rec(m).seq = m
        BY <1>1, RecIs
      <4> QED
        BY <1>2, <2>1, <3>1, <4>1, <4>2, <4>3
    <3>8. Rec(n)' \in files'
      BY <2>1, <3>5, <3>6, <3>7 DEF Wanted, GapPhases
    <3> QED
      BY <1>1, <3>8, LogGrows
  <2> QED
    BY <2>3, <2>4, <2>5
<1>6. CASE ResumeFromHub
  BY <1>1, <1>6, ResumeIs, WantedAfterGap
<1>7. CASE Restart
  <2>1. /\ cur'.acc \in {ckpt.acc, manifest.acc} \/ \E r \in HubsOf(Kept) : cur'.acc = r.seq
        /\ \A r \in HubsOf(Kept) : r.seq <= lastSeen /\ r.seq <= Latest /\ r \in pend
        /\ Base.high \in {ckpt.mat, manifest.high} /\ files' = Kept
    BY <1>7, RestartCursors
  <2>2. \A r \in HubsOf(Kept) : r.seq \in Int
    <3> SUFFICES ASSUME NEW r \in HubsOf(Kept) PROVE r.seq \in Int
      OBVIOUS
    <3>1. r \in HubsOf(files \cup pend \cup Held)
      BY <2>1 DEF HubsOf
    <3> QED
      BY <1>1, <3>1, LogIs DEF PlaceInv
  <2>3. n <= cur.acc
    BY <1>2, <1>3, <2>1, <2>2
  <2>4. CASE Done(n)
    BY <2>4
  <2>5. CASE Rec(n) \in files
    <3>1. CASE Rec(n) \in Kept
      BY <2>1, <3>1
    <3>2. CASE Rec(n) \notin Kept
      <4>1. Rec(n) \in resolved \/ Rec(n).seq <= Base.high
        BY <2>5, <3>2 DEF Kept, AlreadyCommitted
      <4>2. Rec(n).seq <= Base.high => Past(n)
        BY <1>1, <2>1, RecIs DEF Past
      <4> QED
        BY <4>1, <4>2, ResolvedIsDone DEF Good
    <3> QED
      BY <3>1, <3>2
  <2> QED
    BY <1>4, <2>3, <2>4, <2>5
<1>8. CASE cur'.acc = cur.acc /\ ~Restart
  <2>1. CASE files \subseteq files'
    BY <1>4, <1>8, <2>1
  <2>2. ASSUME NEW r \in job.receipts, Unlink(r) PROVE Rec(n) \in files' \/ Done(n)
    <3>1. files \ {r} \subseteq files' /\ r \in resolved
      BY <1>1, <2>2 DEF Unlink, SafeInv
    <3> QED
      BY <1>4, <1>8, <3>1, ResolvedIsDone
  <2>3. IngestNew \/ Backfill => files \subseteq files'
    BY DEF IngestNew, Backfill, Journal
  <2> QED
    BY <1>8, <2>1, <2>2, <2>3, Frames DEF Unlinks
<1>9. Resolve => cur'.acc = cur.acc
  BY CommitIs
<1>10. Backfill => cur' = cur
  BY <1>1, BackfillCursors
<1> QED
  BY <1>5, <1>6, <1>7, <1>8, <1>9, <1>10, Frames

LEMMA FreshIsGood ==
  ASSUME MaxStreams = 1, KeepInv, [Next]_vars, NEW n \in Sequences', n \notin Sequences
  PROVE  Good(n)'
<1>1. TypeInv /\ SafeInv /\ CursorBounds /\ LogInv
  BY KeepParts, CursorInvIs
<1>2. Publishes
  BY <1>1, LogGrows
<1>3. PICK k \in 1..2 : Publish(k)
  BY <1>2 DEF Publishes
<1>4. /\ n = Latest + 1 /\ hub'.log[n].first = hub.next
      /\ UNCHANGED <<disk, ingest, writer, loop, ghost>>
  BY <1>1, <1>3, PublishIs
<1>5. Safe' = Safe /\ cur' = cur /\ ckpt' = ckpt /\ manifest' = manifest
  BY <1>4 DEF disk, ingest, Safe
<1>6. RowsLow(n)'
  <2> SUFFICES ASSUME NEW b \in Rows(hub'.log[n]), NEW c \in Safe', b <= c PROVE FALSE
    BY DEF RowsLow, Rows
  <2>1. c < hub.next /\ c \in Int /\ hub.next \in Int
    <3>1. c \in Safe /\ Safe \subseteq Buckets
      BY <1>1, <1>5, SafeSets
    <3> QED
      BY <1>1, <3>1, LogIs, BucketsAre DEF LogInv
  <2>2. b \in Int /\ hub.next <= b
    <3>1. TypeInv'
      BY <1>1, TypesStep
    <3>2. hub' \in [stream : 1..MaxStreams, log : Seq(Batch), next : 0..MaxBucket + 1]
      BY <3>1, TypeInvIs DEF MarketTyped
    <3>3. n \in 1..Len(hub'.log)
      BY DEF Sequences, Latest
    <3>4. PICK x \in Batch : x = hub'.log[n]
      BY <3>2, <3>3
    <3>5. x.first \in Int /\ x.last \in Int
      BY BucketsAre DEF Batch
    <3>6. b \in x.first..x.last
      BY <3>4 DEF Rows
    <3> QED
      BY <1>4, <3>4, <3>5, <3>6
  <2> QED
    BY <2>1, <2>2
<1>7. ~(n <= cur.acc) /\ ~Past(n)
  <2>1. /\ cur.mat <= cur.acc /\ cur.high <= cur.acc /\ cur.acc <= Latest
        /\ manifest.mat <= manifest.acc /\ manifest.high <= manifest.acc
        /\ manifest.acc <= cur.acc
        /\ ckpt.mat <= ckpt.acc /\ (ckpt.acc <= cur.acc \/ ckpt.acc <= 0)
    BY <1>1 DEF CursorBounds
  <2>2. /\ cur.acc \in Int /\ cur.mat \in Int /\ cur.high \in Int /\ manifest.acc \in Int
        /\ manifest.mat \in Int /\ manifest.high \in Int /\ ckpt.acc \in Int
        /\ ckpt.mat \in Int /\ Latest \in Nat
    BY <1>1, CursorsAre
  <2>3. ckpt.acc <= Latest
    BY <2>1, <2>2
  <2> QED
    BY <1>4, <2>1, <2>2, <2>3 DEF Past
<1> QED
  BY <1>5, <1>6, <1>7 DEF Good, Past

LEMMA WantedStep == ASSUME MaxStreams = 1, KeepInv, [Next]_vars PROVE WantedInv'
<1> SUFFICES ASSUME NEW n \in Sequences', Wanted(n)' PROVE Good(n)'
  BY DEF WantedInv
<1>1. CASE n \notin Sequences
  BY <1>1, FreshIsGood
<1>2. CASE n \in Sequences
  <2>1. Wanted(n)
    BY <1>2, WantedFrom
  <2>2. Good(n)
    BY <1>2, <2>1, KeepParts DEF WantedInv
  <2>3. RowsLow(n)'
    BY <1>2, <2>2, RowsLowStep
  <2>4. Past(n)' => Done(n)'
    BY <1>2, <2>2, PastStep, DoneStays
  <2>5. n <= cur'.acc => Rec(n)' \in files' \/ Done(n)'
    <3>1. Rec(n)' = Rec(n)
      BY <1>2, KeepParts, LogGrows
    <3> QED
      BY <1>2, <2>2, <3>1, AcceptedStays, DoneStays
  <2> QED
    BY <2>3, <2>4, <2>5 DEF Good
<1> QED
  BY <1>1, <1>2

-------------------------------------------------------------------------------
LEMMA BackStep == ASSUME KeepInv, [Next]_vars PROVE BackInv'
<1>1. TypeInv /\ SafeInv /\ SafeInv' /\ CursorFloor
  BY KeepParts, CursorInvIs, SafeStep
<1>2. Safe \subseteq Safe' /\ Archived \subseteq Safe
  BY <1>1, SafeGrows, SafeSets
<1>3. gap \in Gaps /\ ckpt.bucket \in Int /\ gap.next \in Nat
  BY <1>1, CursorsAre
<1> SUFFICES ASSUME phase' = "backfill"
             PROVE  \E c \in Safe' \cup {-1} :
                      \A b \in Selected : c < b /\ b < gap'.next => b \in Safe'
  BY DEF BackInv
<1>4. \A b \in Selected : b \in Int
  BY SelectedAssumption, BucketsAre
<1>5. CASE PlanBackfill
  <2>1. gap'.next = ckpt.bucket + 1
    BY <1>3, <1>5 DEF PlanBackfill, Gaps
  <2>2. ckpt.bucket \in Safe' \cup {-1}
    BY <1>1, <1>2 DEF CursorFloor
  <2>3. \A b \in Selected : ~(ckpt.bucket < b /\ b < gap'.next)
    BY <1>3, <1>4, <2>1
  <2> QED
    BY <2>2, <2>3
<1>6. CASE ~PlanBackfill
  <2>1. phase = "backfill"
    BY <1>1, <1>6, PhaseIs
  <2>2. PICK c \in Safe \cup {-1} : \A b \in Selected : c < b /\ b < gap.next => b \in Safe
    BY <2>1, KeepParts DEF BackInv
  <2>3. CASE gap' = gap
    BY <1>2, <2>2, <2>3
  <2>4. CASE Backfill
    <3>1. gap'.next = gap.next + 1
      BY <1>3, <2>4 DEF Backfill, Gaps
    <3>2. gap.next \in Selected => gap.next \in Safe'
      <4>1. SUFFICES ASSUME gap.next \in Selected PROVE gap.next \in Safe'
        OBVIOUS
      <4>2. /\ BackfillBatch \in Record /\ BackfillBatch.kind = "pg"
            /\ gap.next \in BackfillBatch.rows /\ gap.next \in Buckets
        BY <1>1, <2>4, <4>1, BackfillIs
      <4>3. BackfillBatch \in files'
        BY <2>4 DEF Backfill, Journal
      <4>4. CASE BackfillBatch \in resolved'
        <5>1. resolved' = resolved /\ archive' = archive
          BY <2>4 DEF Backfill
        <5>2. RowSafe(BackfillBatch, gap.next, Archived, Safe)
          BY <1>1, <4>2, <4>4, <5>1 DEF SafeInv
        <5> QED
          BY <1>2, <4>2, <5>2 DEF RowSafe
      <4>5. CASE BackfillBatch \notin resolved'
        BY <4>2, <4>3, <4>5 DEF Safe
      <4> QED
        BY <4>4, <4>5
    <3>3. \A b \in Selected : b < gap.next + 1 => b < gap.next \/ b = gap.next
      BY <1>3, <1>4
    <3> QED
      BY <1>2, <2>2, <3>1, <3>2, <3>3
  <2>5. ~ReplayUnavailable
    BY <2>1 DEF ReplayUnavailable
  <2> QED
    BY <1>1, <1>3, <1>6, <2>3, <2>4, <2>5, GapFrom
<1> QED
  BY <1>5, <1>6

LEMMA AcceptedStep == ASSUME MaxStreams = 1, KeepInv, [Next]_vars PROVE AcceptedInv'
<1>1. TypeInv /\ SafeInv /\ PlaceInv
  BY KeepParts
<1>2. Safe \subseteq Safe' /\ Archived \subseteq Safe
  BY <1>1, SafeGrows, SafeSets
<1> SUFFICES ASSUME NEW r \in accepted' PROVE r \in files' \/ r.rows \subseteq Safe'
  BY DEF AcceptedInv
<1>3. CASE r \notin accepted
  BY <1>3, Frames DEF IngestNew, Backfill, Journal
<1>4. CASE r \in accepted /\ r.rows \subseteq Safe
  BY <1>2, <1>4
<1>5. ASSUME r \in files, r \in resolved PROVE r.rows \subseteq Safe
  BY <1>1, <1>2, <1>5 DEF SafeInv, RowSafe
<1>6. CASE r \in files
  <2>1. CASE files \subseteq files'
    BY <1>6, <2>1
  <2>2. ASSUME NEW x \in job.receipts, Unlink(x) PROVE r \in files' \/ r.rows \subseteq Safe
    <3>1. files \ {x} \subseteq files' /\ x \in resolved
      BY <1>1, <2>2 DEF Unlink, SafeInv
    <3> QED
      BY <1>5, <1>6, <3>1
  <2>3. ASSUME Restart, r \notin files' PROVE r.rows \subseteq Safe
    <3>1. files' = Kept /\ Base.high \in {ckpt.mat, manifest.high}
      BY <2>3, RestartCursors
    <3>2. r \in resolved \/ (r.kind = "hub" /\ r.seq <= Base.high)
      BY <1>6, <2>3, <3>1 DEF Kept, AlreadyCommitted, InStream
    <3>3. ASSUME r.kind = "hub", r.seq <= Base.high PROVE r.rows \subseteq Safe
      <4>1. r \in HubsOf(files \cup pend \cup Held)
        BY <1>6, <3>3 DEF HubsOf
      <4>2. r.seq \in Sequences /\ r = Rec(r.seq)
        BY <1>1, <4>1 DEF PlaceInv
      <4>3. PICK n \in Sequences : n = r.seq
        BY <4>2
      <4>4. r = Rec(n) /\ r.rows = Rows(hub.log[n])
        BY <1>1, <4>2, <4>3, RecIs
      <4>5. Good(n)
        BY <1>6, <4>4, KeepParts DEF WantedInv, Wanted
      <4>6. Past(n)
        BY <3>1, <3>3, <4>3 DEF Past
      <4> QED
        BY <4>4, <4>5, <4>6 DEF Good, Done
    <3> QED
      BY <1>5, <1>6, <3>2, <3>3
  <2>4. IngestNew \/ Backfill => files \subseteq files'
    BY DEF IngestNew, Backfill, Journal
  <2> QED
    BY <1>2, <2>1, <2>2, <2>3, <2>4, Frames DEF Unlinks
<1> QED
  BY <1>3, <1>4, <1>6, KeepParts DEF AcceptedInv

LEMMA KeepStarts == Init => KeepInv
<1> SUFFICES ASSUME Init PROVE KeepInv
  OBVIOUS
<1>1. SafeInv /\ TypeInv
  BY SafeStarts DEF SafeInv, ImproveInv
<1>2. /\ hub.log = <<>> /\ hub.next = 0 /\ pg = -1 /\ files = {} /\ resolved = {} /\ pend = {}
      /\ phase = "down" /\ queue = <<>> /\ books = NoBooks /\ job = IdleJob /\ link = 0
      /\ lastSeen = NoSeq /\ lastBucket = -1 /\ src.seq = NoSeq /\ accepted = {}
      /\ manifest = CursorsAt(NoSeq, NoSeq) /\ cur = CursorsAt(NoSeq, NoSeq)
      /\ ckpt.acc = FirstCursor /\ ckpt.mat = FirstCursor /\ ckpt.bucket = -1
      /\ \A b \in Buckets : archive[b] = "none"
  BY DEF Init
<1>3. Latest = 0 /\ Sequences = {}
  BY <1>2 DEF Latest, Sequences
<1>4. Safe = {}
  BY <1>2 DEF Safe
<1>5. Elems(queue) = {} /\ Elems(job.todo) = {} /\ InBooks = {} /\ job.receipts = {} /\ Held = {}
  <2>1. Elems(queue) = {} /\ Elems(job.todo) = {} /\ job.receipts = {}
    BY <1>2, ElemsAre, IdleFields
  <2>2. InBooks = {}
    BY <1>2 DEF InBooks, Stocked, NoBooks
  <2> QED
    BY <2>1, <2>2 DEF Held
<1>6. LogInv
  BY <1>2, <1>3, <1>4 DEF LogInv, GapPhases
<1>7. PlaceInv
  BY <1>2, <1>5, IdleFields DEF PlaceInv, HubsOf, JobShape, FlushShape
<1>8. OrderInv
  BY <1>2, <1>5, IdleFields DEF OrderInv, Rising, Before, HubsOf
<1>9. WindowInv
  BY <1>2, <1>4, IdleFields DEF WindowInv, LeftKnown, HubRowsKnown, NoBooks
<1>10. CursorInv
  <2>1. cur.mat = -1 /\ cur.acc = -1 /\ cur.high = -1
    BY <1>2 DEF CursorsAt, NoSeq
  <2>2. manifest.mat = -1 /\ manifest.acc = -1 /\ manifest.high = -1
    BY <1>2 DEF CursorsAt, NoSeq
  <2>3. FirstCursor \in {-1, 0}
    BY BoundsAssumption DEF NoSeq
  <2> QED
    BY <1>2, <1>3, <2>1, <2>2, <2>3 DEF CursorInv, GapPhases, NoSeq
<1>11. WantedInv /\ BackInv /\ AcceptedInv
  BY <1>2, <1>3 DEF WantedInv, BackInv, AcceptedInv
<1> QED
  BY <1>1, <1>6, <1>7, <1>8, <1>9, <1>10, <1>11 DEF KeepInv

LEMMA KeepStep == ASSUME MaxStreams = 1, KeepInv, [Next]_vars PROVE KeepInv'
<1>1. SafeInv'
  BY KeepParts, SafeStep
<1> QED
  BY <1>1, LogStep, PlaceStep, OrderStep, WindowStep, CursorStep, WantedStep, BackStep,
     AcceptedStep DEF KeepInv

(* A state whose receipt was given out is in the archive or in a record that   *)
(* still waits in the journal (accept, commit_materialization, recover), while *)
(* the market data service lives on: every crash, failed unlink, recovery and  *)
(* replacement by the database's copy keeps it, whatever the limits and        *)
(* however often the collector ends.                                           *)
THEOREM NothingAcceptedIsLost == ASSUME MaxStreams = 1 PROVE Spec => []AcceptedIsKept
<1>1. KeepInv => AcceptedIsKept
  <2> SUFFICES ASSUME KeepInv, NEW r \in accepted, NEW b \in r.rows PROVE b \in Have
    BY DEF AcceptedIsKept
  <2>1. r \in files \/ r.rows \subseteq Safe
    BY KeepParts DEF AcceptedInv
  <2>2. Safe \subseteq Have
    BY DEF Safe, Have
  <2> QED
    BY <2>1, <2>2 DEF Have
<1>2. KeepInv /\ [Next]_vars => KeepInv'
  BY KeepStep
<1> QED
  BY <1>1, <1>2, KeepStarts, PTL DEF Spec

-------------------------------------------------------------------------------
(* The cursors and what still waits.  Open: pending and not in the commit at   *)
(* work.  Gone: what follows a cursor is no longer in the hub's replay.        *)
Open    == pend \ job.receipts
Gone(k) == k # NoSeq /\ k < Oldest - 1

(* Records wait ahead of the cursors in memory and on disk.                    *)
AheadInv ==
  /\ \A r \in HubsOf(files \ resolved) : r.seq > Resume
  /\ phase # "down" => \A r \in HubsOf(Open) : r.seq > cur.mat

(* A commit leaves a batch behind only where the hub will not send it again.   *)
HighInv ==
  /\ phase # "down" => /\ manifest.high <= cur.high
                       /\ cur.mat < cur.high => Gone(cur.mat)
  /\ Resume < manifest.high => Gone(Resume)

(* Orderly: the hub's batches alone, each ahead of what is committed.  Lossy:  *)
(* none of what waits will be sent again.                                      *)
Plain   == books.over = {} /\ \A r \in Held : r.kind = "hub"
Below   == \A r \in HubsOf(pend \cup Held) : r.seq <= src.seq
Orderly == Plain /\ \A r \in HubsOf(Open) : r.seq > cur.high
Lossy   == Gone(src.seq) /\ Below
TurnInv ==
  /\ phase \in {"run", "paused"} => Orderly /\ Below
  /\ phase \in GapPhases => Lossy
  /\ phase = "switch" => Plain
  /\ phase = "stopping" => Orderly \/ Lossy
  /\ job.all /\ job.step # "write" => books.over = {}
  /\ phase \in {"init", "wedged"} /\ job.step # "idle" => job.all

(* What arrives new is ahead of what is committed.                             *)
FreshInv ==
  phase \in {"run", "paused"} =>
    \/ cur.high <= Larger(lastSeen, src.seq) /\ cur.mat <= Larger(lastSeen, src.seq)
    \/ link = 0 /\ Gone(src.seq)
CoverInv == KeepInv /\ AheadInv /\ HighInv /\ TurnInv /\ FreshInv

LEMMA OldestIs ==
  ASSUME TypeInv
  PROVE  /\ Oldest \in Int /\ Oldest >= 1 /\ Oldest <= Larger(1, Latest) /\ Replay \in Nat \ {0}
<1>1. PICK l \in Nat : l = Latest
  BY LogIs
<1>2. PICK n \in Nat \ {0} : n = Replay
  BY BoundsAssumption
<1>3. Oldest = IF 1 > l - n + 1 THEN 1 ELSE l - n + 1
  BY <1>1, <1>2 DEF Oldest, Larger
<1>4. Larger(1, Latest) = IF 1 > l THEN 1 ELSE l
  BY <1>1 DEF Larger
<1> QED
  BY <1>2, <1>3, <1>4

OldestAt(l) == Larger(1, l - Replay + 1)
LEMMA OldestGrows ==
  ASSUME NEW l \in Int, NEW m \in Int, l <= m
  PROVE  OldestAt(l) <= OldestAt(m) /\ OldestAt(l) \in Int /\ OldestAt(m) \in Int
<1>1. PICK n \in Int : n = Replay
  BY BoundsAssumption
<1> QED
  BY <1>1 DEF Larger, OldestAt

LEMMA GoneStays ==
  ASSUME MaxStreams = 1, TypeInv, [Next]_vars, NEW k \in Int, Gone(k)
  PROVE  k # NoSeq /\ k < Oldest' - 1
<1>1. Latest <= Latest' /\ Latest \in Nat /\ Latest' \in Nat
  BY LogGrows
<1>2. PICK l \in Int, m \in Int : l = Latest /\ m = Latest' /\ l <= m
  BY <1>1
<1>3. PICK a \in Int, b \in Int : a = OldestAt(l) /\ b = OldestAt(m) /\ a <= b
  BY <1>2, OldestGrows
<1>4. Oldest = a /\ Oldest' = b
  BY <1>2, <1>3 DEF Oldest, OldestAt
<1>5. k # NoSeq /\ k < a - 1
  BY <1>4 DEF Gone
<1>6. k < b - 1
  BY <1>3, <1>5
<1> QED
  BY <1>4, <1>5, <1>6

LEMMA GoneIs ==
  ASSUME TypeInv, NEW k \in Int
  PROVE  /\ Gone(k) => ~ReplayAvailable(k) /\ k < Latest
         /\ ~ReplayAvailable(k) /\ k <= Latest => Gone(k)
<1>1. Oldest \in Int /\ Oldest >= 1 /\ Latest \in Nat /\ Oldest <= Larger(1, Latest)
  BY OldestIs, LogIs
<1>2. NoSeq \in Int
  BY DEF NoSeq
<1>3. Gone(k) => k < Latest
  <2> SUFFICES ASSUME Gone(k) PROVE k < Latest
    OBVIOUS
  <2>1. CASE Latest = 0
    <3>1. Oldest = 1 /\ k < 0
      BY <1>1, <2>1 DEF Larger, Gone
    <3> QED
      BY <2>1, <3>1
  <2>2. CASE Latest >= 1
    BY <1>1, <2>2 DEF Larger, Gone
  <2> QED
    BY <1>1, <2>1, <2>2
<1> QED
  BY <1>1, <1>2, <1>3 DEF Gone, ReplayAvailable

LEMMA ReceiptsFrom ==
  ASSUME TypeInv, JobShape, [Next]_vars
  PROVE  \/ job'.receipts = job.receipts
         \/ \E r \in job.receipts : /\ Unlink(r) /\ job'.receipts = job.receipts \ {r}
                                    /\ pend' = pend \ {r} /\ phase' = phase
         \/ Resolve /\ job.receipts = {} /\ job'.receipts = ResolvedNow
         \/ (Restart \/ Crash) /\ job'.receipts = {}
<1>1. CASE job' = job
  BY <1>1
<1>2. CASE Restart
  <2>1. PICK q \in Orders(Kept) : RestartWith(q)
    BY <1>2, RestartIs
  <2>2. JobIs(job', IF Kept = {} THEN "save" ELSE "idle", <<>>, {}, {}, {}, Kept = {}, -1)
    BY <1>2, <2>1, RestartTypes
  <2> QED
    BY <1>2, <2>2, JobFields
<1>3. CASE Crash \/ SaveCheckpoint
  BY <1>3, IdleFields DEF Crash, SaveCheckpoint, JobShape
<1>4. CASE WorkerTakes
  <2>1. JobIs(job', "stage", queue, {}, {}, {}, FALSE, -1)
    BY <1>4, JobSteps
  <2>2. job'.receipts = {}
    BY <2>1, JobFields
  <2>3. job.receipts = {}
    BY <1>4 DEF WorkerTakes, JobShape
  <2> QED
    BY <2>2, <2>3
<1>5. CASE StageNext
  <2>1. JobIs(job', "stage", Tail(job.todo), job.windows, job.keys, job.receipts,
              job.all, NextLatest)
    BY <1>5, JobSteps
  <2> QED
    BY <2>1, JobFields
<1>6. CASE Staged
  BY <1>6, JobSteps, JobFields
<1>7. CASE FlushAll
  <2>1. JobIs(job', "write", <<>>, books.open, {}, {}, TRUE, -1)
    BY <1>7, JobSteps
  <2>2. job'.receipts = {}
    BY <2>1, JobFields
  <2>3. job.receipts = {}
    BY <1>7 DEF FlushAll, JobShape
  <2> QED
    BY <2>2, <2>3
<1>8. CASE WriteWindow
  <2>1. PICK w : w = Min(job.windows)
    OBVIOUS
  <2> QED
    BY <1>8, JobSteps, JobFields
<1>9. CASE Resolve
  <2>1. PICK done : done = Ready(books, job.keys, job.all)
    OBVIOUS
  <2>2. job'.receipts = done
    BY <1>9, <2>1, JobSteps, JobFields
  <2> QED
    BY <1>9, <2>1, <2>2 DEF Resolve, JobShape, ResolvedNow
<1>10. CASE WriteManifest
  <2>1. JobIs(job', "unlink", job.todo, job.windows, job.keys, job.receipts,
              job.all, job.latest)
    BY <1>10, JobSteps
  <2> QED
    BY <2>1, JobFields
<1>11. ASSUME NEW x \in job.receipts, Unlink(x)
       PROVE  job'.receipts = job.receipts \ {x} /\ pend' = pend \ {x} /\ phase' = phase
  <2>1. JobIs(job', IF job.receipts = {x} THEN "save" ELSE "unlink", job.todo, job.windows,
              job.keys, job.receipts \ {x}, job.all, job.latest)
    BY <1>11, JobSteps
  <2>2. job'.receipts = job.receipts \ {x}
    BY <2>1, JobFields
  <2> QED
    BY <1>11, <2>2 DEF Unlink, loop
<1> QED
  BY <1>1, <1>2, <1>3, <1>4, <1>5, <1>6, <1>7, <1>8, <1>9, <1>10, <1>11, Frames
     DEF WriterStep, Unlinks

-------------------------------------------------------------------------------
LEMMA OpenFrom ==
  ASSUME TypeInv, JobShape, [Next]_vars, ~Restart, ~Crash
  PROVE  \A r \in Open' : \/ r \in Open
                          \/ IngestNew /\ r = ArrivedRecord
                          \/ Backfill /\ r = BackfillBatch
<1> SUFFICES ASSUME NEW r \in pend', r \notin job'.receipts
             PROVE  \/ r \in Open
                    \/ IngestNew /\ r = ArrivedRecord
                    \/ Backfill /\ r = BackfillBatch
  BY DEF Open
<1>1. r \in pend \/ (IngestNew /\ r = ArrivedRecord) \/ (Backfill /\ r = BackfillBatch)
  <2>1. IngestNew => pend' = pend \cup {ArrivedRecord}
    BY DEF IngestNew, Journal
  <2>2. Backfill => pend' = pend \cup {BackfillBatch}
    BY DEF Backfill, Journal
  <2>3. Unlinks => pend' \subseteq pend
    BY DEF Unlinks, Unlink
  <2> QED
    BY <2>1, <2>2, <2>3, Frames
<1>2. ASSUME NEW x \in job.receipts, job'.receipts = job.receipts \ {x}, pend' = pend \ {x}
      PROVE  r \notin job.receipts
  BY <1>2
<1>3. r \in pend => r \notin job.receipts
  BY <1>2, ReceiptsFrom
<1> QED
  BY <1>1, <1>3 DEF Open

LEMMA HubsOpen ==
  ASSUME TypeInv, JobShape, [Next]_vars, ~Restart, ~Crash
  PROVE  /\ HubsOf(Open') \subseteq HubsOf(Open) \cup (IF IngestNew THEN {ArrivedRecord} ELSE {})
         /\ HubsOf(Open) \subseteq HubsOf(pend \cup Held)
<1>1. Backfill => BackfillBatch.kind = "pg"
  BY BackfillIs
<1> QED
  BY <1>1, OpenFrom DEF HubsOf, Open

LEMMA CommitOpens ==
  ASSUME KeepInv, Resolve
  PROVE  Open = pend /\ Open' = Left /\ Left \subseteq pend
<1>1. TypeInv /\ JobShape
  BY KeepParts
<1>2. job.receipts = {}
  BY <1>1 DEF JobShape, Resolve
<1>3. PICK done : done = ResolvedNow
  OBVIOUS
<1>4. job'.receipts = done
  BY <1>1, <1>3, JobSteps, JobFields DEF ResolvedNow
<1>5. pend' = pend
  BY DEF Resolve
<1> QED
  BY <1>2, <1>3, <1>4, <1>5 DEF Open, Left

(* After a flush of everything nothing is pending or held, unless the          *)
(* collector stops.                                                            *)
LEMMA AllIsSaved ==
  ASSUME KeepInv, SaveCheckpoint, job.all, phase # "stopping"
  PROVE  Held = {} /\ pend = {} /\ Held' = {} /\ pend' = {} /\ Open' = {}
<1>1. TypeInv /\ JobShape /\ FlushShape /\ PlaceInv
  BY KeepParts
<1>2. job.step = "save" /\ pend' = pend /\ (job.all => phase \in Flushing)
  BY <1>1, TypeInvIs DEF SaveCheckpoint, ingest, FlushTyped
<1>3. queue = <<>> /\ job.todo = <<>> /\ job.receipts = {} /\ InBooks = {}
  BY <1>1, <1>2 DEF JobShape, FlushShape
<1>4. Held = {}
  BY <1>3, ElemsAre DEF Held
<1>5. pend = {}
  BY <1>1, <1>2, <1>4 DEF PlaceInv, Flushing
<1>6. Held' = Held
  <2>1. WriterStep /\ ~Unlinks
    BY <1>2 DEF WriterStep, Unlinks, Unlink
  <2> QED
    BY <1>1, <2>1, HeldByWriter
<1> QED
  BY <1>2, <1>4, <1>5, <1>6 DEF Open

(* Without the database's records nothing is beaten.                           *)
LEMMA PlainStep ==
  ASSUME KeepInv, [Next]_vars, Plain, ~Restart, ~Backfill
  PROVE  Plain'
<1>1. TypeInv /\ JobShape
  BY KeepParts
<1>2. books \in GoodBooks /\ books \in Books /\ archive \in [Buckets -> Version] /\ books.over = {}
  BY <1>1, HeldIs DEF GoodBooks, Plain
<1>3. \A r \in Held' : r.kind = "hub"
  <2>1. IngestNew => ArrivedRecord.kind = "hub"
    BY DEF ArrivedRecord, HubRecord
  <2> QED
    BY <1>1, <2>1, HeldFrom DEF Plain
<1>4. books'.over = {}
  <2>1. CASE books' = books
    BY <1>2, <2>1
  <2>2. CASE Crash
    BY <2>2 DEF Crash, NoBooks
  <2>3. CASE WriteWindow
    BY <1>2, <2>3, WriteGood DEF WriteWindow
  <2>4. CASE Resolve
    <3>1. PICK n : n = Covered(books, job.keys, job.all)
      OBVIOUS
    <3>2. n.over = IF Waiting(books, job.keys) = {} THEN {} ELSE books.over
      BY <1>2, <3>1, CoveredAre
    <3>3. books' = n
      BY <2>4, <3>1 DEF Resolve
    <3> QED
      BY <1>2, <3>2, <3>3
  <2>5. CASE StageNext
    <3>1. PICK r : r = Head(job.todo)
      OBVIOUS
    <3>2. job.todo # <<>> /\ r \in Record
      BY <1>1, <2>5, <3>1, NextLatestIs DEF StageNext
    <3>3. r \in Held
      BY <1>1, <3>1, <3>2, ElemsAre, HeldIs DEF Held
    <3>4. r.kind = "hub"
      BY <3>3 DEF Plain
    <3>5. books' = Stage(books, r, archive)
      BY <2>5, <3>1 DEF StageNext
    <3>6. StagedAs(books', books, r, archive)
      BY <1>2, <3>2, <3>5, StageParts
    <3>7. Beaten(books, r, archive) = {}
      BY <3>4 DEF Beaten
    <3> QED
      BY <1>2, <3>6, <3>7 DEF StagedAs
  <2> QED
    BY <2>1, <2>2, <2>3, <2>4, <2>5, Frames
<1> QED
  BY <1>3, <1>4 DEF Plain

-------------------------------------------------------------------------------
LEMMA CoverParts ==
  ASSUME CoverInv
  PROVE  /\ KeepInv /\ AheadInv /\ HighInv /\ TurnInv /\ FreshInv
         /\ TypeInv /\ SafeInv /\ PlaceInv /\ JobShape /\ FlushShape /\ CursorInv
BY KeepParts DEF CoverInv

LEMMA ResumeBelow ==
  ASSUME KeepInv
  PROVE  /\ Resume \in Int /\ Resume \in {ckpt.mat, manifest.mat}
         /\ ckpt.mat <= Resume /\ manifest.mat <= Resume
         /\ phase # "down" => Resume <= cur.mat
<1>1. ckpt.mat \in Int /\ manifest.mat \in Int /\ cur.mat \in Int
  BY KeepParts, CursorsAre
<1>2. phase # "down" => ckpt.mat <= cur.mat /\ manifest.mat <= cur.mat
  BY KeepParts DEF CursorInv
<1> QED
  BY <1>1, <1>2 DEF Resume, Larger

LEMMA WaitsOpen ==
  ASSUME KeepInv
  PROVE  files \ resolved \subseteq Open
BY KeepParts DEF PlaceInv, SafeInv, Open

LEMMA FreshArrives ==
  ASSUME MaxStreams = 1, CoverInv, Delivered, IsNew
  PROVE  link > cur.mat /\ link > cur.high
<1>1. /\ link \in Nat /\ link >= 1 /\ src.seq \in Int /\ lastSeen \in Int
      /\ cur.mat \in Int /\ cur.high \in Int /\ phase = "run" /\ Latest \in Nat
  BY CoverParts, CursorsAre DEF Delivered
<1>2. cur.high <= Larger(lastSeen, src.seq) /\ cur.mat <= Larger(lastSeen, src.seq)
  BY <1>1, CoverParts DEF FreshInv
<1>3. lastSeen = NoSeq \/ link > lastSeen
  BY DEF IsNew
<1>4. src.seq # NoSeq => link = src.seq + 1
  BY <1>1, CoverParts DEF CursorInv
<1>5. lastSeen < link /\ src.seq < link
  BY <1>1, <1>3, <1>4 DEF NoSeq
<1> QED
  BY <1>1, <1>2, <1>5 DEF Larger

LEMMA NotDown ==
  ASSUME TypeInv, [Next]_vars, phase' # "down", ~Restart
  PROVE  phase # "down" /\ ~Crash
BY PhaseIs DEF Crash

LEMMA OpenAhead ==
  ASSUME MaxStreams = 1, CoverInv, [Next]_vars, phase' # "down", NEW r \in HubsOf(Open')
  PROVE  r.seq > cur'.mat
<1>1. KeepInv /\ TypeInv /\ JobShape /\ PlaceInv /\ AheadInv
  BY CoverParts
<1>2. CASE Restart
  <2>1. /\ cur'.mat = Resume /\ Kept \subseteq files \ resolved
    BY <1>1, <1>2, RestartCursors
  <2>2. pend' = Kept
    BY <1>1, <1>2, FilesFrom
  <2>3. r \in HubsOf(files \ resolved)
    BY <2>1, <2>2 DEF Open, HubsOf
  <2> QED
    BY <1>1, <2>1, <2>3 DEF AheadInv
<1>3. CASE ~Restart
  <2>1. phase # "down" /\ ~Crash
    BY <1>1, <1>3, NotDown
  <2>2. r \in HubsOf(Open) \/ (IngestNew /\ r = ArrivedRecord)
    BY <1>1, <1>3, <2>1, HubsOpen
  <2>3. r \in HubsOf(Open) => r.seq > cur.mat
    BY <1>1, <2>1 DEF AheadInv
  <2>4. CASE IngestNew
    <3>1. cur'.mat = cur.mat /\ ArrivedRecord = Rec(link) /\ link \in Sequences
      BY <1>1, <2>4, AcceptIs
    <3>2. ArrivedRecord.seq = link
      BY <1>1, <3>1, RecIs
    <3>3. link > cur.mat
      BY <2>4, FreshArrives DEF IngestNew
    <3> QED
      BY <2>2, <2>3, <3>1, <3>2, <3>3
  <2>5. CASE Resolve
    <3>1. r \in HubsOf(Left) /\ r \in HubsOf(Open)
      BY <1>1, <2>5, CommitOpens DEF HubsOf
    <3>2. r.seq \in Nat /\ cur'.mat \in Int
      <4>1. r \in HubsOf(files \cup pend \cup Held)
        BY <3>1 DEF HubsOf, Open
      <4> QED
        BY <1>1, <2>5, <4>1, LogIs, CommitIs DEF PlaceInv
    <3>3. cur'.mat < r.seq \/ cur'.mat = cur.mat
      BY <1>1, <2>5, <3>1, CommitIs
    <3> QED
      BY <2>3, <3>1, <3>2, <3>3
  <2>6. CASE ResumeFromHub
    <3>1. pend' = {}
      BY <2>6 DEF ResumeFromHub
    <3> QED
      BY <3>1 DEF Open, HubsOf
  <2>7. CASE cur' = cur /\ ~IngestNew
    BY <2>2, <2>3, <2>7
  <2> QED
    BY <1>1, <1>3, <2>4, <2>5, <2>6, <2>7, Frames, BackfillCursors
<1> QED
  BY <1>2, <1>3

LEMMA AheadStep ==
  ASSUME MaxStreams = 1, CoverInv, [Next]_vars PROVE AheadInv'
<1>1. KeepInv /\ KeepInv' /\ TypeInv /\ PlaceInv /\ AheadInv
  BY CoverParts, KeepStep
<1>2. phase' # "down" => \A r \in HubsOf(Open') : r.seq > cur'.mat
  BY OpenAhead
<1>3. ASSUME NEW r \in HubsOf(files' \ resolved') PROVE r.seq > Resume'
  <2>1. r.seq \in Int
    <3>1. files' \subseteq Record
      BY <1>1, TypesStep, TypeInvIs DEF DiskTyped
    <3> QED
      BY <3>1, RecordsAre DEF HubsOf
  <2>2. CASE phase' # "down"
    <3>1. files' \ resolved' \subseteq Open'
      BY <1>1 DEF KeepInv, PlaceInv, SafeInv, Open
    <3>2. Resume' <= cur'.mat /\ Resume' \in Int /\ cur'.mat \in Int
      <4>1. ckpt'.mat <= cur'.mat /\ manifest'.mat <= cur'.mat
        BY <1>1, <2>2 DEF KeepInv, CursorInv
      <4>2. cur'.mat \in Int /\ ckpt'.mat \in Int /\ manifest'.mat \in Int
        BY <1>1, TypesStep, CursorsNext
      <4> QED
        BY <4>1, <4>2 DEF Resume, Larger
    <3>3. r.seq > cur'.mat
      BY <1>2, <2>2, <3>1 DEF HubsOf
    <3> QED
      BY <2>1, <3>2, <3>3
  <2>3. CASE phase' = "down" /\ SaveCheckpoint
    <3>1. ckpt'.mat = cur.mat /\ UNCHANGED <<cur, manifest, files, resolved>> /\ job.step = "save"
      BY <1>1, <2>3, CoverParts, SaveIs
    <3>2. phase # "down"
      BY <1>1, <3>1 DEF PlaceInv
    <3>3. r \in HubsOf(Open)
      BY <1>1, <3>1, WaitsOpen DEF HubsOf
    <3>4. r.seq > cur.mat /\ manifest.mat <= cur.mat
      BY <1>1, <3>2, <3>3, CoverParts DEF AheadInv, CursorInv
    <3>5. Resume' = Larger(cur.mat, manifest.mat)
      BY <3>1 DEF Resume
    <3>6. cur.mat \in Int /\ manifest.mat \in Int
      BY <1>1, CursorsAre
    <3> QED
      BY <2>1, <3>4, <3>5, <3>6 DEF Larger
  <2>4. CASE phase' = "down" /\ ~SaveCheckpoint
    <3>1. phase = "down" \/ Crash
      BY <1>1, <2>4, PhaseIs
    <3>2. UNCHANGED <<files, manifest, ckpt>> /\ resolved \subseteq resolved'
      <4>1. ~Restart /\ ~IngestNew /\ ~Backfill /\ ~ResumeFromHub
        BY <2>4, <3>1 DEF Restart, IngestNew, Delivered, Backfill, ResumeFromHub, Crash
      <4>2. Crash => UNCHANGED <<files, manifest, ckpt>> /\ resolved \subseteq resolved'
        BY CrashLeaves DEF Crash
      <4>3. phase = "down" => ~Unlinks /\ ~Resolve /\ ~WriteManifest
        BY <1>1 DEF PlaceInv, Unlinks, Unlink, Resolve, WriteManifest
      <4> QED
        BY <2>4, <3>1, <4>1, <4>2, <4>3, Frames
    <3>3. r \in HubsOf(files \ resolved) /\ Resume' = Resume
      BY <3>2 DEF Resume, HubsOf
    <3> QED
      BY <1>1, <3>3 DEF AheadInv
  <2> QED
    BY <2>2, <2>3, <2>4
<1> QED
  BY <1>2, <1>3 DEF AheadInv

-------------------------------------------------------------------------------
LEMMA WindowsGrow ==
  ASSUME NEW b \in Buckets, NEW c \in Buckets, b <= c
  PROVE  Window(b) <= Window(c)
BY QuotientsGrow, ClockAssumption DEF Window, Buckets

LEMMA CoveredStaged ==
  ASSUME NEW z \in GoodBooks, NEW keys, NEW all
  PROVE  Covered(z, keys, all).staged = Waiting(z, keys)
<1>1. PICK n : n = Covered(z, keys, all)
  OBVIOUS
<1>2. n.staged = Waiting(z, keys)
  BY <1>1, CoveredAre
<1> QED
  BY <1>1, <1>2

LEMMA AllWaitNot ==
  ASSUME KeepInv, Resolve, job.all
  PROVE  Waiting(books, job.keys) = {} /\ Stocked(books') = {}
<1>1. Stocked(books') = {}
  BY AllIsResolved
<1>2. books \in GoodBooks
  BY KeepParts, TypeInvIs DEF WriterTyped, GoodBooks
<1>3. Covered(books, job.keys, job.all).staged = Waiting(books, job.keys)
  BY <1>2, CoveredStaged
<1>4. books'.staged = Waiting(books, job.keys)
  BY <1>3 DEF Resolve
<1> QED
  BY <1>1, <1>4 DEF Stocked

(* What a commit leaves in the books waits behind a record with rows.          *)
LEMMA LeftBehind ==
  ASSUME KeepInv, Resolve, NEW r \in InBooks, r \notin ResolvedNow, ~job.all
  PROVE  \E s \in Waiting(books, job.keys) : s.rec.seq <= r.seq
<1>1. books \in GoodBooks /\ books \in Books
  BY KeepParts, TypeInvIs DEF WriterTyped, GoodBooks
<1>2. Stocked(books) = Stocked(Covered(books, job.keys, job.all)) \cup ResolvedNow
  BY <1>1, ResolveStocks DEF ResolvedNow
<1>3. PICK n : n = Covered(books, job.keys, job.all)
  OBVIOUS
<1>4. /\ n.staged = Waiting(books, job.keys)
      /\ n.empties = books.empties \ EmptiesDone(books, job.keys, job.all)
  BY <1>1, <1>3, CoveredAre
<1>5. r \in Stocked(n)
  BY <1>2, <1>3 DEF InBooks
<1>6. Waiting(books, job.keys) \subseteq Staging /\ books.empties \subseteq Record
  BY <1>1, WaitingAre, BooksAre
<1>7. CASE \E s \in Waiting(books, job.keys) : s.rec = r
  <2>1. PICK s \in Waiting(books, job.keys) : s.rec = r
    BY <1>7
  <2>2. r.seq \in Nat
    BY <1>6, <2>1, RecordsAre DEF Staging
  <2> QED
    BY <2>1, <2>2
<1>8. CASE r \in books.empties /\ r \notin EmptiesDone(books, job.keys, job.all)
  <2>1. PICK s \in Waiting(books, job.keys) : ~(r.seq < s.rec.seq)
    BY <1>8 DEF EmptiesDone
  <2>2. r.seq \in Nat /\ s.rec.seq \in Nat
    BY <1>6, <1>8, <2>1, RecordsAre DEF Staging
  <2> QED
    BY <2>1, <2>2
<1> QED
  BY <1>4, <1>5, <1>7, <1>8 DEF Stocked

(* As long as the books hold the hub's batches alone, they are finished in     *)
(* their sequence.                                                             *)
LEMMA CommitInOrder ==
  ASSUME MaxStreams = 1, KeepInv, Plain, Resolve,
         NEW s \in HubsOf(ResolvedNow), NEW r \in HubsOf(Left)
  PROVE  s.seq < r.seq
<1>1. /\ TypeInv /\ PlaceInv /\ JobShape /\ WindowInv /\ books.over = {}
      /\ job.step = "write" /\ job.windows = {} /\ ResolvedNow \subseteq InBooks
  BY KeepParts, CommitIs DEF Plain
<1>2. books \in GoodBooks /\ books \in Books
  BY <1>1, TypeInvIs DEF WriterTyped, GoodBooks
<1>3. /\ s \in HubsOf(files \cup pend \cup Held) /\ r \in HubsOf(files \cup pend \cup Held)
      /\ s \in InBooks /\ r \in pend /\ r \notin ResolvedNow
  BY <1>1 DEF HubsOf, Held, Left
<1>4. /\ s.seq \in Sequences /\ s = Rec(s.seq) /\ r.seq \in Sequences /\ r = Rec(r.seq)
  BY <1>1, <1>3 DEF PlaceInv
<1>5. PICK m \in Sequences, n \in Sequences : /\ m = s.seq /\ s = Rec(m) /\ m \in Int
                                              /\ n = r.seq /\ r = Rec(n) /\ n \in Int
  BY <1>1, <1>4, LogIs
<1>6. m # n
  BY <1>3, <1>5 DEF HubsOf
<1> SUFFICES ASSUME n < m PROVE FALSE
  BY <1>5, <1>6
<1>7. r \in InBooks
  <2>1. phase # "down" /\ job.todo = <<>> /\ job.receipts = {}
    BY <1>1 DEF PlaceInv, JobShape
  <2>2. r \in Elems(queue) \cup InBooks
    BY <1>1, <1>3, <2>1, ElemsAre DEF PlaceInv, Held
  <2>3. r \in Elems(queue) => m < n
    BY <1>3, <1>5, LaterIsBehind
  <2> QED
    BY <1>5, <2>2, <2>3
<1>8. ~job.all
  <2>1. job.all => Stocked(books') = {} /\ Stocked(books) = Stocked(books') \cup ResolvedNow
    BY <1>2, AllWaitNot, ResolveStocks DEF Resolve, ResolvedNow
  <2> QED
    BY <1>3, <1>7, <2>1 DEF InBooks
<1>9. PICK w \in Waiting(books, job.keys) : w.rec.seq <= r.seq
  BY <1>3, <1>7, <1>8, LeftBehind
<1>10. PICK t \in books.staged : w = Less(t, books, job.keys)
  BY <1>2, WaitingAre
<1>11. w.rec = t.rec /\ w.left = t.left \ (job.keys \cup books.over) /\ w.left # {}
  BY <1>2, <1>10, WaitingAre DEF Less
<1>12. t.rec \in HubsOf(files \cup pend \cup Held)
  <2>1. t.rec \in Held
    BY DEF Held, InBooks, Stocked
  <2> QED
    BY <2>1 DEF Plain, HubsOf
<1>13. PICK p \in Sequences : p = t.rec.seq /\ t.rec = Rec(p) /\ p \in Int
  BY <1>1, <1>12, LogIs DEF PlaceInv
<1>14. p < m
  BY <1>5, <1>9, <1>11, <1>13
<1>15. LeftKnown(books, job.keys)
  BY <1>1 DEF WindowInv
<1>16. PICK k \in t.left : k \notin job.keys /\ k \notin books.over
  BY <1>11
<1>17. k[1] \in Rows(hub.log[p]) /\ Window(k[1]) \in books.open
  <2>1. k[1] \in t.rec.rows /\ InWindow(books, k)
    BY <1>15, <1>16 DEF LeftKnown
  <2> QED
    BY <1>1, <1>13, <2>1, RecIs DEF InWindow
<1>18. CASE s \in EmptiesDone(books, job.keys, job.all)
  <2>1. s.seq < w.rec.seq
    BY <1>8, <1>9, <1>18 DEF EmptiesDone
  <2> QED
    BY <1>5, <1>11, <1>13, <1>14, <2>1
<1>19. CASE \E u \in books.staged : u.rec = s /\ u.left \subseteq job.keys \cup books.over
  <2>1. PICK u \in books.staged : u.rec = s /\ u.left \subseteq job.keys \cup books.over
    BY <1>19
  <2>2. PICK l \in u.left : l[1] \in u.rec.rows
    BY <1>15 DEF LeftKnown
  <2>3. l \in job.keys /\ l[1] \in Rows(hub.log[m])
    BY <1>1, <1>5, <2>1, <2>2, RecIs
  <2>4. k[1] < l[1]
    BY <1>14, <1>17, <2>3, RowsInOrder
  <2>5. PICK b \in Buckets, c \in Buckets : b = k[1] /\ c = l[1] /\ b \in Int /\ c \in Int
    BY <1>1, <1>17, <2>3, LogIs, BucketsAre
  <2>6. Window(k[1]) <= Window(l[1])
    BY <2>4, <2>5, WindowsGrow
  <2>7. Window(k[1]) \in job.windows
    BY <1>1, <1>17, <2>3, <2>6 DEF WindowInv
  <2> QED
    BY <1>1, <2>7
<1> QED
  BY <1>2, <1>18, <1>19, ReadyAre DEF ResolvedNow, HubsOf

-------------------------------------------------------------------------------
LEMMA RestartHigh ==
  ASSUME TypeInv, Restart
  PROVE  /\ cur'.mat = Resume /\ cur'.high = Larger(ckpt.mat, manifest.high)
         /\ UNCHANGED <<hub, manifest, ckpt>>
<1>1. PICK q \in Orders(Kept) : RestartWith(q)
  BY RestartIs
<1>2. Base \in Cursors
  BY <1>1, RestartTypes
<1>3. Base.mat = Resume /\ Base.high = Larger(ckpt.mat, manifest.high)
  BY <1>2 DEF Base, Restored, CursorsAt, Resume
<1>4. PICK m : m = Max(SeqsIn(NowIn(q)) \cup {Base.acc})
  OBVIOUS
<1>5. cur' = [Base EXCEPT !.acc = m]
  BY <1>1, <1>4 DEF RestartWith
<1> QED
  BY <1>2, <1>3, <1>5 DEF Restart, Cursors, market

LEMMA GoneNext ==
  ASSUME MaxStreams = 1, TypeInv, [Next]_vars, NEW k \in Int
  PROVE  /\ Gone(k) => k # NoSeq /\ k < Oldest' - 1
         /\ hub' = hub => Oldest' = Oldest
BY GoneStays DEF Oldest, Latest

(* A flush of everything leaves nothing behind, unless the collector stops.    *)
LEMMA AllLeavesNone ==
  ASSUME KeepInv, Resolve, job.all, phase # "stopping"
  PROVE  Left = {}
<1>1. TypeInv /\ JobShape /\ FlushShape /\ PlaceInv
  BY KeepParts
<1>2. phase # "down" /\ job.todo = <<>> /\ job.receipts = {} /\ queue = <<>>
  BY <1>1 DEF PlaceInv, JobShape, FlushShape, Resolve
<1>3. pend \subseteq InBooks
  BY <1>1, <1>2, ElemsAre DEF PlaceInv, Held
<1>4. books \in GoodBooks
  BY <1>1, TypeInvIs DEF WriterTyped, GoodBooks
<1>5. Stocked(books) = Stocked(books') \cup ResolvedNow
  BY <1>4, ResolveStocks DEF Resolve, ResolvedNow
<1> QED
  BY <1>3, <1>5, AllIsResolved DEF InBooks, Left

LEMMA CommitHigh ==
  ASSUME MaxStreams = 1, CoverInv, Resolve
  PROVE  cur'.mat < cur'.high => Gone(cur'.mat)
<1>1. /\ KeepInv /\ TypeInv /\ PlaceInv /\ AheadInv /\ TurnInv /\ HighInv
      /\ phase # "down" /\ job.step = "write"
  BY CoverParts DEF PlaceInv, Resolve
<1>2. /\ cur'.mat \in Int /\ cur'.high \in Int /\ cur.mat \in Int /\ cur.high \in Int
      /\ src.seq \in Int /\ Oldest \in Int
  BY <1>1, CommitIs, CursorsAre, OldestIs
<1>3. CASE HubsOf(ResolvedNow) = {}
  BY <1>1, <1>3, CommitIs DEF HighInv
<1>4. CASE HubsOf(Left) = {} /\ cur'.mat >= cur'.high
  BY <1>2, <1>4
<1>5. CASE \E r \in HubsOf(Left) : cur'.mat = Larger(cur.mat, r.seq - 1)
  <2>1. PICK r \in HubsOf(Left) : cur'.mat = Larger(cur.mat, r.seq - 1)
    BY <1>5
  <2>2. r \in HubsOf(Open) /\ r \in HubsOf(pend \cup Held) /\ r \in HubsOf(files \cup pend \cup Held)
    BY <1>1, <2>1, CommitOpens DEF HubsOf
  <2>3. PICK n \in Int : n = r.seq /\ n >= 1
    BY <1>1, <2>2, RecIs DEF PlaceInv
  <2>4. cur'.mat = n - 1
    BY <1>1, <1>2, <2>1, <2>2, <2>3 DEF AheadInv, Larger
  <2>5. CASE Orderly
    <3>1. cur.high < n /\ Plain
      BY <1>2, <2>2, <2>3, <2>5 DEF Orderly
    <3>2. \A s \in HubsOf(ResolvedNow) : s.seq < n
      BY <1>1, <2>1, <2>3, <3>1, CommitInOrder
    <3>3. cur'.high < n
      BY <1>1, <3>1, <3>2, CommitIs
    <3> QED
      BY <1>2, <2>3, <2>4, <3>3
  <2>6. CASE Lossy
    <3>1. n <= src.seq /\ src.seq < Oldest - 1
      BY <2>2, <2>3, <2>6 DEF Lossy, Below, Gone
    <3> QED
      BY <1>2, <2>3, <2>4, <3>1 DEF Gone, NoSeq
  <2>7. CASE phase \in {"init", "wedged"}
    BY <1>1, <2>1, <2>7, AllLeavesNone DEF TurnInv, HubsOf
  <2>8. phase \in {"init", "wedged", "run", "paused", "stopping"} \cup GapPhases
    BY <1>1, TypeInvIs DEF LoopTyped, Phases, GapPhases
  <2> QED
    BY <1>1, <2>5, <2>6, <2>7, <2>8 DEF TurnInv
<1> QED
  BY <1>1, <1>3, <1>4, <1>5, CommitIs

LEMMA CommitsBelow ==
  ASSUME MaxStreams = 1, CoverInv, [Next]_vars, phase' # "down"
  PROVE  /\ manifest'.high <= cur'.high
         /\ cur'.mat < cur'.high => cur'.mat # NoSeq /\ cur'.mat < Oldest' - 1
<1>1. KeepInv /\ TypeInv /\ HighInv /\ CursorInv /\ JobShape
  BY CoverParts
<1>2. /\ cur.mat \in Int /\ cur.high \in Int /\ cur.acc \in Int /\ manifest.high \in Int
      /\ manifest.acc \in Int /\ ckpt.mat \in Int /\ Resume \in Int /\ gap.latest \in Int
      /\ ckpt.mat <= Resume
  BY <1>1, CursorsAre, ResumeBelow
<1>3. CASE Restart
  <2>1. /\ cur'.mat = Resume /\ cur'.high = Larger(ckpt.mat, manifest.high)
        /\ manifest' = manifest /\ hub' = hub
    BY <1>1, <1>3, RestartHigh
  <2>2. Resume < manifest.high => Gone(Resume)
    BY <1>1 DEF HighInv
  <2> QED
    BY <1>1, <1>2, <2>1, <2>2, GoneNext DEF Larger
<1>4. CASE ~Restart
  <2>1. phase # "down" /\ ~Crash
    BY <1>1, <1>4, NotDown
  <2>2. manifest.high <= cur.high /\ (cur.mat < cur.high => Gone(cur.mat))
    BY <1>1, <2>1 DEF HighInv
  <2>3. CASE Resolve
    <3>1. /\ cur'.high >= cur.high /\ manifest' = manifest /\ cur'.mat \in Int /\ cur'.high \in Int
          /\ cur'.mat < cur'.high => Gone(cur'.mat)
      BY <1>1, <2>3, CommitIs, CommitHigh
    <3>2. PICK m \in Int, h \in Int : m = cur'.mat /\ h = cur'.high
      BY <3>1
    <3> QED
      BY <1>1, <1>2, <2>2, <3>1, <3>2, GoneNext
  <2>4. CASE ResumeFromHub
    <3>1. cur' = CursorsAt(gap.latest, gap.latest) /\ manifest' = manifest /\ phase = "switch"
      BY <2>4 DEF ResumeFromHub
    <3>2. cur'.mat = gap.latest /\ cur'.high = gap.latest
      BY <3>1 DEF CursorsAt
    <3>3. cur.acc <= gap.latest /\ manifest.high <= manifest.acc /\ manifest.acc <= cur.acc
      BY <1>1, <3>1 DEF CursorInv, GapPhases
    <3> QED
      BY <1>2, <3>1, <3>2, <3>3
  <2>5. CASE WriteManifest
    <3>1. manifest' = cur /\ cur' = cur
      BY <2>5 DEF WriteManifest, ingest
    <3> QED
      BY <1>1, <1>2, <2>2, <3>1, GoneNext
  <2>6. CASE IngestNew
    BY <1>1, <1>2, <2>2, <2>6, AcceptIs, GoneNext
  <2>7. CASE cur' = cur /\ manifest' = manifest
    BY <1>1, <1>2, <2>2, <2>7, GoneNext
  <2>8. CASE Backfill
    <3>1. cur' = cur /\ manifest' = manifest
      BY <1>1, <2>8, BackfillCursors DEF Backfill
    <3> QED
      BY <2>7, <3>1
  <2> QED
    BY <1>1, <1>4, <2>3, <2>4, <2>5, <2>6, <2>7, <2>8, Frames
<1> QED
  BY <1>3, <1>4

LEMMA ResumeCommits ==
  ASSUME MaxStreams = 1, CoverInv, [Next]_vars, Resume' < manifest'.high
  PROVE  Resume' # NoSeq /\ Resume' < Oldest' - 1
<1>1. KeepInv /\ TypeInv /\ HighInv /\ CursorInv /\ PlaceInv /\ SafeInv
  BY CoverParts
<1>2. /\ cur.mat \in Int /\ cur.high \in Int /\ cur.acc \in Int /\ manifest.high \in Int
      /\ manifest.mat \in Int /\ manifest.acc \in Int /\ ckpt.mat \in Int /\ Resume \in Int
      /\ gap.latest \in Int
  BY <1>1, CursorsAre, ResumeBelow
<1>3. phase # "down" => /\ manifest.high <= cur.high /\ (cur.mat < cur.high => Gone(cur.mat))
                        /\ ckpt.mat <= cur.mat /\ manifest.mat <= cur.mat
  BY <1>1 DEF HighInv, CursorInv
<1>4. CASE WriteManifest
  <2>1. manifest' = cur /\ ckpt' = ckpt /\ phase # "down"
    BY <1>1, <1>4 DEF WriteManifest, PlaceInv
  <2>2. Resume' = cur.mat
    BY <1>2, <1>3, <2>1 DEF Resume, Larger
  <2> QED
    BY <1>1, <1>2, <1>3, <2>1, <2>2, GoneNext
<1>5. CASE SaveCheckpoint
  <2>1. manifest' = manifest /\ ckpt'.mat = cur.mat /\ phase # "down"
    BY <1>1, <1>5, SaveIs DEF PlaceInv
  <2>2. Resume' = cur.mat
    BY <1>2, <1>3, <2>1 DEF Resume, Larger
  <2> QED
    BY <1>1, <1>2, <1>3, <2>1, <2>2, GoneNext
<1>6. CASE ResumeFromHub
  <2>1. /\ ckpt' = [ckpt EXCEPT !.stream = gap.stream, !.acc = gap.latest, !.mat = gap.latest]
        /\ manifest' = manifest /\ phase = "switch"
    BY <1>6 DEF ResumeFromHub
  <2>2. ckpt'.mat = gap.latest
    BY <1>1, <2>1, CursorsAre DEF Checkpoints
  <2>3. cur.acc <= gap.latest /\ manifest.high <= manifest.acc /\ manifest.acc <= cur.acc
    BY <1>1, <2>1 DEF CursorInv, GapPhases
  <2>4. Resume' >= gap.latest
    BY <1>2, <2>1, <2>2 DEF Resume, Larger
  <2>5. Resume' \in Int
    BY <1>2, <2>1, <2>2 DEF Resume, Larger
  <2> QED
    BY <1>2, <2>1, <2>3, <2>4, <2>5
<1>7. CASE ckpt' = ckpt /\ manifest' = manifest
  <2>1. Resume' = Resume /\ Resume < manifest.high
    BY <1>7 DEF Resume
  <2>2. Gone(Resume)
    BY <1>1, <2>1 DEF HighInv
  <2> QED
    BY <1>1, <1>2, <2>1, <2>2, GoneNext
<1> QED
  BY <1>4, <1>5, <1>6, <1>7, Frames

LEMMA HighStep ==
  ASSUME MaxStreams = 1, CoverInv, [Next]_vars PROVE HighInv'
BY CommitsBelow, ResumeCommits DEF HighInv, Gone

-------------------------------------------------------------------------------
CursorsSeen == cur.high <= Larger(lastSeen, src.seq) /\ cur.mat <= Larger(lastSeen, src.seq)
Abandoned   == link = 0 /\ Gone(src.seq)

LEMMA LargerGrows ==
  ASSUME NEW a \in Int, NEW b \in Int, NEW c \in Int, NEW d \in Int, NEW k \in Int,
         a <= c, b <= d, k <= Larger(a, b)
  PROVE  k <= Larger(c, d)
BY DEF Larger

(* A connection that asked for what is gone never opens again.                 *)
LEMMA AbandonedStays ==
  ASSUME MaxStreams = 1, CoverInv, [Next]_vars, phase \in {"run", "paused"}, Abandoned,
         phase' \in {"run", "paused"}
  PROVE  Abandoned'
<1>1. KeepInv /\ TypeInv /\ JobShape /\ src.seq \in Int /\ link \in Nat /\ src \in Sources
  BY CoverParts, CursorsAre
<1>2. ~IngestNew /\ ~IngestKnown /\ ~ResumeFromHub /\ ~Restart
  BY DEF IngestNew, IngestKnown, Delivered, ResumeFromHub, Restart, Abandoned
<1>3. ~Connects
  BY <1>1, GoneIs DEF Connects, Abandoned
<1>4. SaveCheckpoint => src' = src /\ link' = link
  BY DEF SaveCheckpoint
<1>5. src' = src /\ link' = 0
  BY <1>2, <1>3, <1>4, LinkFrom DEF Abandoned
<1>6. src.seq # NoSeq /\ src.seq < Oldest' - 1
  BY <1>1, GoneStays DEF Abandoned
<1> QED
  BY <1>5, <1>6 DEF Abandoned, Gone

LEMMA FreshStays ==
  ASSUME MaxStreams = 1, CoverInv, [Next]_vars, phase \in {"run", "paused"}, CursorsSeen,
         phase' \in {"run", "paused"}
  PROVE  CursorsSeen'
<1>1. KeepInv /\ TypeInv /\ JobShape /\ CursorInv /\ PlaceInv
  BY CoverParts
<1>2. /\ cur.mat \in Int /\ cur.high \in Int /\ src.seq \in Int /\ lastSeen \in Int
      /\ link \in Nat /\ src \in Sources
  BY <1>1, CursorsAre
<1>3. ~ResumeFromHub /\ ~Restart /\ ~Backfill
  BY DEF ResumeFromHub, Restart, Backfill
<1>4. CASE IngestNew
  <2>1. IsNew /\ Delivered
    BY <1>4 DEF IngestNew
  <2>2. /\ cur'.mat = cur.mat /\ cur'.high = cur.high /\ lastSeen' = link /\ src'.seq = link
    BY <1>1, <1>4, AcceptIs
  <2>3. link > cur.mat /\ link > cur.high
    BY <2>1, FreshArrives
  <2> QED
    BY <1>2, <2>2, <2>3 DEF CursorsSeen, Larger
<1>5. CASE ~IngestNew
  <2>1. lastSeen' = lastSeen
    BY <1>3, <1>5, Frames
  <2>2. src'.seq \in Int /\ src.seq <= src'.seq
    <3>1. IngestKnown => src'.seq = link /\ src.seq <= link
      <4>1. IngestKnown => link # 0
        BY DEF IngestKnown, Delivered
      <4>2. src.seq = NoSeq \/ (IngestKnown => link = src.seq + 1)
        BY <1>1, <4>1 DEF CursorInv
      <4>3. IngestKnown => src'.seq = link
        BY <1>1, KnownIs
      <4> QED
        BY <1>2, <4>2, <4>3 DEF NoSeq
    <3>2. Connects => src'.seq = src.seq
      <4>1. Connects => src' = [src EXCEPT !.stream = hub.stream]
        BY DEF Connects
      <4> QED
        BY <1>2, <4>1 DEF Sources
    <3>3. SaveCheckpoint => src' = src
      BY DEF SaveCheckpoint
    <3> QED
      BY <1>2, <1>3, <1>5, <3>1, <3>2, <3>3, LinkFrom
  <2>3. /\ cur'.high <= Larger(lastSeen, src.seq) /\ cur'.mat <= Larger(lastSeen, src.seq)
        /\ cur'.high \in Int /\ cur'.mat \in Int
    <3>1. CASE Resolve
      <4>1. \A r \in HubsOf(ResolvedNow) \cup HubsOf(Left) : r.seq <= lastSeen /\ r.seq \in Int
        <5>1. ResolvedNow \subseteq Held
          BY <1>1, <3>1, CommitIs DEF Held
        <5>2. HubsOf(ResolvedNow) \cup HubsOf(Left) \subseteq HubsOf(pend \cup Held)
          BY <5>1 DEF HubsOf, Left
        <5>3. HubsOf(pend \cup Held) \subseteq HubsOf(files \cup pend \cup Held)
          BY DEF HubsOf
        <5>4. \A r \in HubsOf(pend \cup Held) : r.seq \in Sequences /\ r.seq <= lastSeen
          BY <1>1, <5>3 DEF PlaceInv
        <5>5. Sequences \subseteq Nat
          BY <1>1, LogIs
        <5> SUFFICES ASSUME NEW r \in HubsOf(ResolvedNow) \cup HubsOf(Left)
                     PROVE  r.seq <= lastSeen /\ r.seq \in Int
          OBVIOUS
        <5>6. r.seq \in Sequences /\ r.seq <= lastSeen
          BY <5>2, <5>4
        <5>7. r.seq \in Nat
          BY <5>5, <5>6
        <5> QED
          BY <5>6, <5>7
      <4>2. PICK l \in Int : l = Larger(lastSeen, src.seq) /\ lastSeen <= l
        BY <1>2 DEF Larger
      <4>3. cur.high <= l /\ cur.mat <= l
        BY <4>2 DEF CursorsSeen
      <4>4. \A r \in HubsOf(ResolvedNow) \cup HubsOf(Left) : r.seq <= l /\ r.seq - 1 <= l
        BY <1>2, <4>1, <4>2
      <4>5. cur'.high = cur.high \/ \E r \in HubsOf(ResolvedNow) : cur'.high = r.seq
        BY <1>1, <3>1, CommitIs
      <4>6. cur'.high <= l
        BY <4>3, <4>4, <4>5
      <4>7. \/ cur'.mat = cur.mat
            \/ cur'.mat = cur'.high
            \/ \E r \in HubsOf(Left) : cur'.mat = r.seq - 1
        BY <1>1, <3>1, CommitIs
      <4>8. cur'.mat <= l
        BY <4>3, <4>4, <4>6, <4>7
      <4>9. cur'.high \in Int /\ cur'.mat \in Int
        BY <1>1, <3>1, CommitIs
      <4> QED
        BY <4>2, <4>6, <4>8, <4>9
    <3>2. CASE ~Resolve
      BY <1>2, <1>3, <1>5, <3>2, Frames DEF CursorsSeen
    <3> QED
      BY <3>1, <3>2
  <2> QED
    BY <1>2, <2>1, <2>2, <2>3, LargerGrows DEF CursorsSeen
<1> QED
  BY <1>4, <1>5

LEMMA FreshStep ==
  ASSUME MaxStreams = 1, CoverInv, [Next]_vars PROVE FreshInv'
<1> SUFFICES ASSUME phase' \in {"run", "paused"} PROVE CursorsSeen' \/ Abandoned'
  BY DEF FreshInv, CursorsSeen, Abandoned
<1>1. KeepInv /\ TypeInv /\ SafeInv /\ HighInv /\ PlaceInv
  BY CoverParts
<1>2. /\ cur.mat \in Int /\ cur.high \in Int /\ src.seq \in Int /\ lastSeen \in Int
      /\ link \in Nat /\ gap.latest \in Nat /\ (link # 0 => phase = "run")
  BY <1>1, CursorsAre
<1>3. CASE phase \in {"run", "paused"}
  <2>1. CursorsSeen \/ Abandoned
    BY <1>3, CoverParts DEF FreshInv, CursorsSeen, Abandoned
  <2> QED
    BY <1>3, <2>1, FreshStays, AbandonedStays
<1>4. CASE ResumeFromHub
  BY <1>1, <1>2, <1>4, ResumeIs DEF CursorsSeen, Larger
<1>5. CASE SaveCheckpoint /\ job.all /\ phase = "init"
  <2>1. cur' = cur /\ src'.seq = cur.mat /\ link' = link /\ lastSeen' = lastSeen
    <3>1. src' = [stream |-> stream, seq |-> cur.mat]
      BY <1>5 DEF SaveCheckpoint
    <3> QED
      BY <1>1, <1>5, <3>1, SaveIs
  <2>2. link = 0
    BY <1>2, <1>5
  <2>3. CASE cur.mat < cur.high
    <3>1. cur.mat # NoSeq /\ cur.mat < Oldest' - 1
      BY <1>1, <1>2, <1>5, <2>3, GoneStays DEF HighInv
    <3> QED
      BY <2>1, <2>2, <3>1 DEF Abandoned, Gone
  <2>4. CASE ~(cur.mat < cur.high)
    <3>1. cur.high <= cur.mat
      BY <1>2, <2>4
    <3> QED
      BY <1>2, <2>1, <3>1 DEF CursorsSeen, Larger
  <2> QED
    BY <2>3, <2>4
<1> QED
  BY <1>1, <1>3, <1>4, <1>5, PhaseIs

-------------------------------------------------------------------------------
(* The source only moves on, but for the start that sets it.                   *)
LEMMA SourceGrows ==
  ASSUME MaxStreams = 1, CoverInv, [Next]_vars, phase # "init", ~Restart, ~ResumeFromHub
  PROVE  /\ src'.seq \in Int /\ src.seq <= src'.seq
         /\ phase # "run" => src' = src
         /\ IngestNew => src'.seq = link
<1>1. KeepInv /\ TypeInv /\ CursorInv /\ src.seq \in Int /\ link \in Nat /\ src \in Sources
  BY CoverParts, CursorsAre
<1>2. IngestNew \/ IngestKnown => src'.seq = link /\ phase = "run" /\ link # 0
  BY <1>1, AcceptIs, KnownIs DEF IngestNew, IngestKnown, Delivered
<1>3. IngestNew \/ IngestKnown => src.seq <= link
  BY <1>1, <1>2 DEF CursorInv, NoSeq
<1>4. Connects => src'.seq = src.seq /\ phase = "run"
  <2>1. Connects => src' = [src EXCEPT !.stream = hub.stream] /\ phase = "run"
    BY DEF Connects
  <2> QED
    BY <1>1, <2>1 DEF Sources
<1>5. SaveCheckpoint => src' = src
  BY DEF SaveCheckpoint
<1> QED
  BY <1>1, <1>2, <1>3, <1>4, <1>5, LinkFrom

LEMMA BelowStays ==
  ASSUME MaxStreams = 1, CoverInv, [Next]_vars, Below, phase # "init", ~Restart, ~ResumeFromHub
  PROVE  Below'
<1>1. TypeInv /\ JobShape /\ PlaceInv /\ src.seq \in Int /\ link \in Nat
  BY CoverParts, CursorsAre
<1> SUFFICES ASSUME NEW r \in HubsOf(pend' \cup Held') PROVE r.seq <= src'.seq
  BY DEF Below
<1>2. r \in HubsOf(pend \cup Held) \/ (IngestNew /\ r = ArrivedRecord)
  BY <1>1, HubsFrom
<1>3. CASE r \in HubsOf(pend \cup Held)
  <2>1. r \in HubsOf(files \cup pend \cup Held)
    BY <1>3 DEF HubsOf
  <2>2. r.seq \in Sequences /\ Sequences \subseteq Nat
    BY <1>1, <2>1, LogIs DEF PlaceInv
  <2>3. r.seq \in Nat /\ r.seq <= src.seq
    BY <1>3, <2>2 DEF Below
  <2> QED
    BY <1>1, <2>3, SourceGrows
<1>4. CASE IngestNew /\ r = ArrivedRecord
  <2>1. ArrivedRecord = Rec(link) /\ link \in Sequences
    BY <1>1, <1>4, AcceptIs
  <2>2. r.seq = link
    BY <1>1, <1>4, <2>1, RecIs
  <2> QED
    BY <1>1, <1>4, <2>2, SourceGrows
<1> QED
  BY <1>2, <1>3, <1>4

LEMMA LossyStays ==
  ASSUME MaxStreams = 1, CoverInv, [Next]_vars, Lossy, phase \in GapPhases \cup {"stopping"},
         ~ResumeFromHub
  PROVE  Lossy'
<1>1. TypeInv /\ src.seq \in Int
  BY CoverParts, CursorsAre
<1>2. phase \notin {"init", "run", "down"} /\ ~Restart
  BY DEF GapPhases, Restart
<1>3. Gone(src.seq) /\ Below
  BY DEF Lossy
<1>4. src' = src
  BY <1>2, SourceGrows
<1>5. src.seq # NoSeq /\ src.seq < Oldest' - 1
  BY <1>1, <1>3, GoneStays
<1>6. Below'
  BY <1>2, <1>3, BelowStays
<1> QED
  BY <1>4, <1>5, <1>6 DEF Lossy, Gone

LEMMA OrderlyStays ==
  ASSUME MaxStreams = 1, CoverInv, [Next]_vars, Orderly, phase \in {"run", "paused", "stopping"},
         ~Crash
  PROVE  Orderly'
<1>1. KeepInv /\ TypeInv /\ JobShape /\ PlaceInv
  BY CoverParts
<1>2. ~Restart /\ ~Backfill /\ ~ResumeFromHub
  BY DEF Restart, Backfill, ResumeFromHub
<1>3. Plain'
  BY <1>1, <1>2, PlainStep DEF Orderly
<1>4. ASSUME NEW r \in HubsOf(Open') PROVE r.seq > cur'.high
  <2>1. r \in HubsOf(Open) \/ (IngestNew /\ r = ArrivedRecord)
    BY <1>1, <1>2, HubsOpen
  <2>2. r \in HubsOf(Open) => r.seq > cur.high
    BY DEF Orderly
  <2>3. CASE IngestNew
    <3>1. /\ cur'.high = cur.high /\ ArrivedRecord = Rec(link) /\ link \in Sequences
      BY <1>1, <2>3, AcceptIs
    <3>2. ArrivedRecord.seq = link
      BY <1>1, <3>1, RecIs
    <3>3. link > cur.high
      BY <2>3, FreshArrives DEF IngestNew
    <3> QED
      BY <2>1, <2>2, <3>1, <3>2, <3>3
  <2>4. CASE Resolve
    <3>1. r \in HubsOf(Left) /\ r \in HubsOf(Open)
      BY <1>1, <2>4, CommitOpens DEF HubsOf
    <3>2. \A s \in HubsOf(ResolvedNow) : s.seq < r.seq
      BY <1>1, <2>4, <3>1, CommitInOrder DEF Orderly
    <3>3. r.seq \in Nat /\ cur.high \in Int /\ cur'.high \in Int
      <4>1. r \in HubsOf(files \cup pend \cup Held)
        BY <3>1 DEF HubsOf, Open
      <4> QED
        BY <1>1, <2>4, <4>1, LogIs, CommitIs, CursorsAre DEF PlaceInv
    <3>4. cur'.high = cur.high \/ \E s \in HubsOf(ResolvedNow) : cur'.high = s.seq
      BY <1>1, <2>4, CommitIs
    <3>5. PICK n \in Int, h \in Int : n = r.seq /\ h = cur'.high
      BY <3>3
    <3>6. h < n
      BY <2>2, <3>1, <3>2, <3>4, <3>5
    <3> QED
      BY <3>5, <3>6
  <2>5. CASE ~IngestNew /\ ~Resolve
    <3>1. cur' = cur
      BY <1>2, <2>5, Frames
    <3> QED
      BY <2>1, <2>2, <2>5, <3>1
  <2> QED
    BY <2>3, <2>4, <2>5
<1> QED
  BY <1>3, <1>4 DEF Orderly

-------------------------------------------------------------------------------
LEMMA EmptyBooks ==
  ASSUME TypeInv, Restart, Kept = {}
  PROVE  books' = NoBooks
<1>1. PICK q \in Orders(Kept) : RestartWith(q)
  BY RestartIs
<1>2. q \in Seq(Record) /\ Kept \subseteq Record /\ IsFiniteSet(Kept)
  <2>1. q \in Seq(Record) /\ Kept \subseteq files
    BY <1>1, RestartTypes
  <2>2. files \subseteq Record /\ IsFiniteSet(files)
    BY TypeInvIs DEF DiskTyped
  <2>3. PICK K : K = Kept
    OBVIOUS
  <2>4. K \subseteq Record /\ IsFiniteSet(K)
    BY <2>1, <2>2, <2>3, FS_Subset
  <2> QED
    BY <2>1, <2>3, <2>4
<1>3. \A i \in DOMAIN q : FALSE
  <2>1. PICK S : S = Kept
    OBVIOUS
  <2>2. \A i \in DOMAIN q : q[i] \in S
    BY <1>1, <1>2, <2>1, OrdersAre
  <2> QED
    BY <2>1, <2>2
<1>4. PICK G : G = {NoBooks}
  OBVIOUS
<1>5. NoBooks \in G /\ \A z \in G : \A i \in DOMAIN q : Stage(z, q[i], archive) \in G
  BY <1>3, <1>4
<1>6. Restaged(q, archive) \in G
  BY <1>2, <1>5, RestagedIn
<1>7. books' = NoBooks
  BY <1>1, <1>4, <1>6 DEF RestartWith
<1> QED
  BY <1>7

(* Once everything was resolved no better copy is left in the books.           *)
LEMMA AllIsPlain ==
  ASSUME MaxStreams = 1, CoverInv, [Next]_vars
  PROVE  job'.all /\ job'.step # "write" => books'.over = {}
<1>1. KeepInv /\ TypeInv /\ JobShape /\ FlushShape
  BY CoverParts
<1>2. /\ job.all /\ job.step # "write" => books.over = {}
      /\ job.all => job.step \in {"write", "manifest", "unlink", "save"}
  BY <1>1, CoverParts DEF TurnInv, FlushShape
<1>3. CASE Restart
  <2>1. PICK q \in Orders(Kept) : RestartWith(q)
    BY <1>3, RestartIs
  <2>2. JobIs(job', IF Kept = {} THEN "save" ELSE "idle", <<>>, {}, {}, {}, Kept = {}, -1)
    BY <1>1, <1>3, <2>1, RestartTypes
  <2>3. job'.all = (Kept = {})
    BY <2>2, JobFields
  <2>4. Kept = {} => books' = NoBooks
    BY <1>1, <1>3, EmptyBooks
  <2>5. NoBooks.over = {}
    BY DEF NoBooks
  <2> QED
    BY <2>3, <2>4, <2>5
<1>4. CASE Crash \/ SaveCheckpoint
  BY <1>4, IdleFields DEF Crash, SaveCheckpoint
<1>5. CASE WorkerTakes
  <2>1. JobIs(job', "stage", queue, {}, {}, {}, FALSE, -1)
    BY <1>1, <1>5, JobSteps
  <2> QED
    BY <2>1, JobFields
<1>6. CASE StageNext
  <2>1. JobIs(job', "stage", Tail(job.todo), job.windows, job.keys, job.receipts,
              job.all, NextLatest)
    BY <1>1, <1>6, JobSteps
  <2>2. job'.all = job.all /\ job.step = "stage"
    BY <1>6, <2>1, JobFields DEF StageNext
  <2> QED
    BY <1>2, <2>2
<1>7. CASE Staged
  <2>1. job'.all = job.all /\ job.step = "stage"
    BY <1>1, <1>7, JobSteps, JobFields DEF Staged
  <2> QED
    BY <1>2, <2>1
<1>8. CASE FlushAll
  <2>1. JobIs(job', "write", <<>>, books.open, {}, {}, TRUE, -1)
    BY <1>1, <1>8, JobSteps
  <2> QED
    BY <2>1, JobFields
<1>9. CASE WriteWindow
  <2>1. PICK w : w = Min(job.windows)
    OBVIOUS
  <2>2. job'.step = "write"
    BY <1>1, <1>9, <2>1, JobSteps, JobFields
  <2> QED
    BY <2>2
<1>10. CASE Resolve
  <2>1. PICK done : done = Ready(books, job.keys, job.all)
    OBVIOUS
  <2>2. job'.all = job.all
    BY <1>1, <1>10, <2>1, JobSteps, JobFields
  <2>3. PICK n : n = Covered(books, job.keys, job.all)
    OBVIOUS
  <2>4. books \in GoodBooks
    BY <1>1, HeldIs
  <2>5. n.over = IF Waiting(books, job.keys) = {} THEN {} ELSE books.over
    BY <2>3, <2>4, CoveredAre
  <2>6. job.all => Waiting(books, job.keys) = {}
    BY <1>1, <1>10, AllWaitNot
  <2>7. books' = n
    BY <1>10, <2>3 DEF Resolve
  <2> QED
    BY <2>2, <2>5, <2>6, <2>7
<1>11. CASE WriteManifest
  <2>1. JobIs(job', "unlink", job.todo, job.windows, job.keys, job.receipts,
              job.all, job.latest)
    BY <1>1, <1>11, JobSteps
  <2>2. job'.all = job.all /\ job.step = "manifest" /\ books' = books
    BY <1>11, <2>1, JobFields DEF WriteManifest
  <2> QED
    BY <1>2, <2>2
<1>12. ASSUME NEW x \in job.receipts, Unlink(x) 
       PROVE  job'.all /\ job'.step # "write" => books'.over = {}
  <2>1. JobIs(job', IF job.receipts = {x} THEN "save" ELSE "unlink", job.todo, job.windows,
              job.keys, job.receipts \ {x}, job.all, job.latest)
    BY <1>1, <1>12, JobSteps
  <2>2. job'.all = job.all /\ job.step = "unlink" /\ books' = books
    BY <1>12, <2>1, JobFields DEF Unlink
  <2> QED
    BY <1>2, <2>2
<1>13. CASE job' = job /\ books' = books
  BY <1>2, <1>13
<1> QED
  BY <1>3, <1>4, <1>5, <1>6, <1>7, <1>8, <1>9, <1>10, <1>11, <1>12, <1>13, Frames
     DEF WriterStep, Unlinks

(* Before the run loop goes on, every flush is one of everything.              *)
LEMMA StartsWithAll ==
  ASSUME MaxStreams = 1, CoverInv, [Next]_vars
  PROVE  phase' \in {"init", "wedged"} /\ job'.step # "idle" => job'.all
<1>1. KeepInv /\ TypeInv /\ JobShape
  BY CoverParts
<1>2. phase \in {"init", "wedged"} /\ job.step # "idle" => job.all
  BY CoverParts DEF TurnInv
<1>3. phase' \in {"init", "wedged"} /\ ~Restart => phase' = phase
  <2>1. SaveCheckpoint /\ job.all => phase' \notin {"init", "wedged"}
    <3>1. job.all => phase \in {"init", "paused", "drain", "stopping"}
      BY <1>1, TypeInvIs DEF FlushTyped, Flushing
    <3> QED
      BY <3>1 DEF SaveCheckpoint, AfterFlush
  <2> QED
    BY <2>1, PhaseFrom DEF ReplayUnavailable, IngestPaused, PlanBackfill, Backfilled,
       ResumeFromHub, GivesUp, Signaled, Stop, Crash
<1>4. CASE Restart
  <2>1. PICK q \in Orders(Kept) : RestartWith(q)
    BY <1>4, RestartIs
  <2>2. JobIs(job', IF Kept = {} THEN "save" ELSE "idle", <<>>, {}, {}, {}, Kept = {}, -1)
    BY <1>1, <1>4, <2>1, RestartTypes
  <2>3. /\ job'.step = IF Kept = {} THEN "save" ELSE "idle"
        /\ job'.all = (Kept = {})
    BY <2>2, JobFields
  <2> QED
    BY <2>3
<1>5. CASE ~Restart /\ (Crash \/ SaveCheckpoint)
  BY <1>5, IdleFields DEF Crash, SaveCheckpoint
<1>6. CASE ~Restart /\ WorkerTakes
  BY <1>3, <1>6 DEF WorkerTakes, loop
<1>7. CASE FlushAll
  BY <1>7, FlushAllJob
<1>8. CASE ~Restart /\ job.step # "idle" /\ job'.all = job.all
  BY <1>2, <1>3, <1>8
<1>9. StageNext => job'.all = job.all /\ job.step # "idle"
  <2>1. StageNext => JobIs(job', "stage", Tail(job.todo), job.windows, job.keys, job.receipts,
                           job.all, NextLatest)
    BY <1>1, JobSteps
  <2> QED
    BY <2>1, JobFields DEF StageNext
<1>10. Staged => job'.all = job.all /\ job.step # "idle"
  BY <1>1, JobSteps, JobFields DEF Staged
<1>11. WriteWindow => job'.all = job.all /\ job.step # "idle"
  <2>1. PICK w : w = Min(job.windows)
    OBVIOUS
  <2> QED
    BY <1>1, <2>1, JobSteps, JobFields DEF WriteWindow
<1>12. Resolve => job'.all = job.all /\ job.step # "idle"
  <2>1. PICK done : done = Ready(books, job.keys, job.all)
    OBVIOUS
  <2>2. Resolve => job'.all = job.all
    BY <1>1, <2>1, JobSteps, JobFields
  <2> QED
    BY <2>2 DEF Resolve
<1>13. WriteManifest => job'.all = job.all /\ job.step # "idle"
  <2>1. WriteManifest => JobIs(job', "unlink", job.todo, job.windows, job.keys, job.receipts,
                               job.all, job.latest)
    BY <1>1, JobSteps
  <2> QED
    BY <2>1, JobFields DEF WriteManifest
<1>14. Unlinks => job'.all = job.all /\ job.step # "idle"
  <2> SUFFICES ASSUME NEW x \in job.receipts, Unlink(x)
               PROVE  job'.all = job.all /\ job.step # "idle"
    BY DEF Unlinks
  <2>1. JobIs(job', IF job.receipts = {x} THEN "save" ELSE "unlink", job.todo, job.windows,
              job.keys, job.receipts \ {x}, job.all, job.latest)
    BY <1>1, JobSteps
  <2> QED
    BY <2>1, JobFields DEF Unlink
<1>15. CASE ~Restart /\ job' = job
  BY <1>2, <1>3, <1>15
<1> QED
  BY <1>4, <1>5, <1>6, <1>7, <1>8, <1>9, <1>10, <1>11, <1>12, <1>13, <1>14, <1>15, Frames
     DEF WriterStep, Unlinks

-------------------------------------------------------------------------------
LEMMA RunsOrderly ==
  ASSUME MaxStreams = 1, CoverInv, [Next]_vars, phase' \in {"run", "paused"}
  PROVE  Orderly' /\ Below'
<1>1. KeepInv /\ TypeInv /\ JobShape /\ PlaceInv /\ TurnInv
  BY CoverParts
<1>2. CASE phase \in {"run", "paused"}
  <2>1. Orderly /\ Below /\ ~Crash /\ ~Restart /\ ~ResumeFromHub
    BY <1>1, <1>2 DEF TurnInv, Crash, Restart, ResumeFromHub
  <2> QED
    BY <1>2, <2>1, OrderlyStays, BelowStays
<1>3. CASE ResumeFromHub
  <2>1. pend' = {} /\ books' = books /\ job' = job /\ queue' = queue /\ phase = "switch"
    BY <1>3 DEF ResumeFromHub, writer
  <2>2. Held = {} /\ Plain
    BY <1>1, <2>1 DEF PlaceInv, TurnInv
  <2>3. Held' = {}
    BY <1>1, <2>1, <2>2, HeldIs
  <2> QED
    BY <2>1, <2>2, <2>3 DEF Orderly, Plain, Below, Open, HubsOf
<1>4. CASE SaveCheckpoint /\ job.all /\ phase = "init"
  <2>1. Held' = {} /\ pend' = {} /\ Open' = {}
    BY <1>1, <1>4, AllIsSaved
  <2>2. books' = books /\ books.over = {}
    BY <1>1, <1>4 DEF SaveCheckpoint, TurnInv
  <2> QED
    BY <2>1, <2>2 DEF Orderly, Plain, Below, HubsOf
<1> QED
  BY <1>1, <1>2, <1>3, <1>4, PhaseIs

LEMMA GapsAreLossy ==
  ASSUME MaxStreams = 1, CoverInv, [Next]_vars, phase' \in GapPhases
  PROVE  Lossy'
<1>1. KeepInv /\ TypeInv /\ TurnInv /\ CursorInv
  BY CoverParts
<1>2. CASE phase \in GapPhases
  <2>1. Lossy /\ ~ResumeFromHub
    BY <1>1, <1>2 DEF TurnInv, ResumeFromHub, GapPhases
  <2> QED
    BY <1>2, <2>1, LossyStays
<1>3. CASE ReplayUnavailable
  <2>1. phase = "run" /\ src' = src /\ ~Restart /\ ~ResumeFromHub
    BY <1>3 DEF ReplayUnavailable, Restart, ResumeFromHub
  <2>2. src.seq \in Int /\ cur.acc \in Int /\ Latest \in Nat /\ src \in Sources
    BY <1>1, CursorsAre
  <2>3. src.stream \in {NoStream, hub.stream}
    <3>1. src.stream \in {0, 1} /\ hub.stream = 1
      BY <1>1, <2>2, TypeInvIs DEF Sources, MarketTyped
    <3> QED
      BY <3>1 DEF NoStream
  <2>4. ~ReplayAvailable(src.seq)
    BY <1>3, <2>3 DEF ReplayUnavailable
  <2>5. src.seq <= Latest
    BY <1>1, <2>1, <2>2 DEF CursorInv
  <2>6. Gone(src.seq)
    BY <1>1, <2>2, <2>4, <2>5, GoneIs
  <2>7. src.seq # NoSeq /\ src.seq < Oldest' - 1
    BY <1>1, <2>2, <2>6, GoneStays
  <2>8. Below'
    BY <1>1, <2>1, BelowStays DEF TurnInv
  <2> QED
    BY <2>1, <2>7, <2>8 DEF Lossy, Gone
<1> QED
  BY <1>1, <1>2, <1>3, PhaseIs

LEMMA SwitchIsPlain ==
  ASSUME MaxStreams = 1, CoverInv, [Next]_vars, phase' = "switch"
  PROVE  Plain'
<1>1. KeepInv /\ TypeInv /\ TurnInv
  BY CoverParts
<1>2. CASE phase = "switch"
  <2>1. Plain /\ ~Restart /\ ~Backfill
    BY <1>1, <1>2 DEF TurnInv, Restart, Backfill
  <2> QED
    BY <1>1, <2>1, PlainStep
<1>3. CASE SaveCheckpoint /\ job.all /\ phase = "drain"
  <2>1. Held' = {}
    BY <1>1, <1>3, AllIsSaved
  <2>2. books' = books /\ books.over = {}
    BY <1>1, <1>3 DEF SaveCheckpoint, TurnInv
  <2> QED
    BY <2>1, <2>2 DEF Plain
<1> QED
  BY <1>1, <1>2, <1>3, PhaseIs

LEMMA StopsEitherWay ==
  ASSUME MaxStreams = 1, CoverInv, [Next]_vars, phase' = "stopping"
  PROVE  Orderly' \/ Lossy'
<1>1. TypeInv /\ TurnInv
  BY CoverParts
<1>2. phase \in {"run", "paused", "stopping"} \cup GapPhases /\ ~Crash /\ ~ResumeFromHub
  <2>1. SaveCheckpoint /\ job.all => phase' # "stopping"
    <3>1. job.all => phase \in {"init", "paused", "drain", "stopping"}
      BY <1>1, TypeInvIs DEF FlushTyped, Flushing
    <3> QED
      BY <3>1 DEF SaveCheckpoint, AfterFlush
  <2>2. GivesUp \/ Signaled => phase \in {"run", "paused"} \cup GapPhases
    BY DEF GivesUp, Signaled, Fails, Delivered, GapPhases
  <2> QED
    BY <2>1, <2>2, PhaseFrom DEF ReplayUnavailable, IngestPaused, PlanBackfill, Backfilled,
       ResumeFromHub, Crash, Restart
<1>3. CASE phase \in {"run", "paused"}
  <2>1. Orderly
    BY <1>1, <1>3 DEF TurnInv
  <2> QED
    BY <1>2, <1>3, <2>1, OrderlyStays
<1>4. CASE phase \in GapPhases
  <2>1. Lossy
    BY <1>1, <1>4 DEF TurnInv
  <2> QED
    BY <1>2, <1>4, <2>1, LossyStays
<1>5. CASE phase = "stopping"
  <2>1. Orderly \/ Lossy
    BY <1>1, <1>5 DEF TurnInv
  <2> QED
    BY <1>2, <1>5, <2>1, OrderlyStays, LossyStays
<1> QED
  BY <1>2, <1>3, <1>4, <1>5

LEMMA TurnStep ==
  ASSUME MaxStreams = 1, CoverInv, [Next]_vars PROVE TurnInv'
<1>1. phase' \in {"run", "paused"} => Orderly' /\ Below'
  BY RunsOrderly
<1>2. phase' \in GapPhases => Lossy'
  BY GapsAreLossy
<1>3. phase' = "switch" => Plain'
  BY SwitchIsPlain
<1>4. phase' = "stopping" => Orderly' \/ Lossy'
  BY StopsEitherWay
<1> QED
  BY <1>1, <1>2, <1>3, <1>4, AllIsPlain, StartsWithAll DEF TurnInv

LEMMA CoverStarts == Init => CoverInv
<1> SUFFICES ASSUME Init PROVE CoverInv
  OBVIOUS
<1>1. KeepInv
  BY KeepStarts
<1>2. phase = "down" /\ files = {} /\ job.step = "idle" /\ job.all = FALSE
  BY IdleFields DEF Init
<1>3. manifest.high = NoSeq /\ manifest.mat = NoSeq /\ ckpt.mat = FirstCursor
  BY DEF Init, CursorsAt
<1>4. ~(Resume < manifest.high)
  <2>1. FirstCursor \in {-1, 0}
    BY BoundsAssumption DEF NoSeq
  <2> QED
    BY <1>3, <2>1 DEF Resume, Larger, NoSeq
<1>5. AheadInv
  BY <1>2 DEF AheadInv, HubsOf
<1>6. HighInv /\ FreshInv
  BY <1>2, <1>4 DEF HighInv, FreshInv
<1>7. TurnInv
  BY <1>2 DEF TurnInv, GapPhases
<1> QED
  BY <1>1, <1>5, <1>6, <1>7 DEF CoverInv

LEMMA CoverStep == ASSUME MaxStreams = 1, CoverInv, [Next]_vars PROVE CoverInv'
<1>1. KeepInv'
  BY CoverParts, KeepStep
<1> QED
  BY <1>1, AheadStep, HighStep, TurnStep, FreshStep DEF CoverInv

LEMMA AheadCovers == ASSUME CoverInv PROVE CursorIsCovered
<1>1. KeepInv /\ TypeInv /\ AheadInv
  BY CoverParts
<1> SUFFICES ASSUME NEW r \in HubsOf(files \ resolved)
             PROVE  r.seq > ckpt.mat /\ (phase # "down" => r.seq > cur.mat)
  BY DEF CursorIsCovered, HubsOf
<1>2. r.seq > Resume
  BY <1>1 DEF AheadInv
<1>3. r.seq \in Nat /\ ckpt.mat \in Int /\ Resume \in Int /\ ckpt.mat <= Resume
  <2>1. files \subseteq Record
    BY <1>1, TypeInvIs DEF DiskTyped
  <2> QED
    BY <1>1, <2>1, RecordsAre, CursorsAre, ResumeBelow DEF HubsOf
<1>4. r \in HubsOf(Open)
  BY <1>1, WaitsOpen DEF HubsOf
<1> QED
  BY <1>1, <1>2, <1>3, <1>4 DEF AheadInv

(* The cursor a restarted collector resumes from, and the one health reports,  *)
(* never pass a record that still waits in the journal (commit_materialization *)
(* and recover), while the market data service lives on: in whatever order     *)
(* records are finished, and wherever between two writes the collector ends.   *)
THEOREM CursorsStayBehind == ASSUME MaxStreams = 1 PROVE Spec => []CursorIsCovered
<1>1. Init => CoverInv
  BY CoverStarts
<1>2. CoverInv /\ [Next]_vars => CoverInv'
  BY CoverStep
<1>3. CoverInv => CursorIsCovered
  BY AheadCovers
<1> QED
  BY <1>1, <1>2, <1>3, PTL DEF Spec

-------------------------------------------------------------------------------
(* No holes, for any number of hub lives, while nothing ends the collector and *)
(* the database keeps up with the hub.  Owed: what archive and journal may not *)
(* leave out below anything they have; NextBucket: where the batch after       *)
(* sequence k begins.                                                          *)
Hubs == HubsOf(accepted)
Owed == IF Hubs = {} THEN Selected ELSE Promised
FullTo(p) == \A b \in Owed : b < p => b \in Have
NextBucket(k) == IF k < Latest THEN hub.log[k + 1].first ELSE hub.next
Met(k) == \E r \in Hubs : r.at < NextBucket(k)

ChainInv ==
  /\ pg = hub.next - 1
  /\ \A n \in Sequences : /\ hub.log[n].first <= hub.log[n].last
                          /\ hub.log[n].last < hub.next
                          /\ NextBucket(n) = hub.log[n].last + 1
  /\ \A r \in Hubs : r.at < hub.next
Unstaged == Elems(queue) \cup Elems(job.todo)
HaveInv ==
  /\ \A r \in Unstaged : r.rows \subseteq Have
  /\ \A b \in Buckets : books.rows[b] # "none" => b \in Have
  /\ {ckpt.bucket, lastBucket} \subseteq Archived \cup {-1}
OrderedInv == \A b \in Owed \ Have : \A y \in Have : y < b
LinkInv ==
  /\ phase \in {"down", "init"} => accepted = {}
  /\ phase \notin {"down", "init"} => src.seq = lastSeen
  /\ link # 0 => src.stream = hub.stream /\ (src.seq # NoSeq => link = src.seq + 1)
StreamInv == {stream, ckpt.stream, src.stream, gap.stream} \subseteq 0..hub.stream
RunReach ==
  phase \in {"run", "paused"} /\ Hubs # {} =>
    /\ src.stream # NoStream
    /\ src.stream = hub.stream =>
         src.seq \in 0..Latest /\ FullTo(NextBucket(src.seq)) /\ Met(src.seq)
GapReach ==
  phase \in GapPhases =>
    /\ gap.stream # NoStream
    /\ gap.stream = hub.stream => gap.latest <= Latest /\ (Hubs # {} => Met(gap.latest))
    /\ phase = "backfill" => FullTo(gap.next)
    /\ phase \in {"drain", "switch"} => FullTo(gap.until + 1)
    /\ phase # "gap" /\ gap.stream = hub.stream => NextBucket(gap.latest) <= gap.until + 1
HoleInv ==
  /\ SafeInv /\ StepInv
  /\ ChainInv /\ HaveInv /\ OrderedInv /\ LinkInv /\ StreamInv /\ RunReach /\ GapReach

LEMMA HoleParts ==
  ASSUME HoleInv
  PROVE  /\ SafeInv /\ StepInv /\ TypeInv
         /\ ChainInv /\ HaveInv /\ OrderedInv /\ LinkInv /\ StreamInv /\ RunReach /\ GapReach
BY DEF HoleInv, StepInv

LEMMA HubFrom ==
  ASSUME [Next]_vars, ~Publishes, ~HubRestart
  PROVE  hub' = hub
<1>1. CASE UNCHANGED vars
  BY <1>1 DEF vars, market
<1>2. CASE MarketStep
  BY <1>2 DEF MarketStep, Publishes, Persist
<1>3. CASE SourceStep \/ IngestStep \/ GapStep
  BY <1>3 DEF SourceStep, IngestStep, GapStep, Connects, Drops, ReplayUnavailable, IngestNew,
     IngestKnown, IngestPaused, PlanBackfill, Backfill, Backfilled, ResumeFromHub, market
<1>4. CASE WriterStep
  BY <1>4 DEF WriterStep, WorkerTakes, StageNext, Staged, FlushAll, WriteWindow, Resolve,
     WriteManifest, Unlink, SaveCheckpoint, market
<1>5. CASE LifeStep
  BY <1>5 DEF LifeStep, GivesUp, Signaled, Stop, Crash, Restart, market
<1> QED
  BY <1>1, <1>2, <1>3, <1>4, <1>5 DEF Next

(* A collector that nothing ends starts once, with nothing on disk.            *)
LEMMA NeverEnds ==
  ASSUME MaxEnds = 0, StepInv, [Next]_vars
  PROVE  /\ ~Crash /\ ~GivesUp /\ ~Signaled
         /\ Restart => Kept = {} /\ files = {} /\ files' = {} /\ books' = NoBooks
                       /\ lastBucket' = ckpt.bucket /\ ckpt' = ckpt /\ archive' = archive
         /\ phase \notin {"stopping", "wedged"}
<1>1. ends = 0
  BY DEF StepInv
<1>2. ~Crash /\ ~GivesUp /\ ~Signaled
  BY <1>1 DEF Crash, GivesUp, Signaled
<1>3. ASSUME Restart
      PROVE  /\ Kept = {} /\ files = {} /\ files' = {} /\ books' = NoBooks
             /\ lastBucket' = ckpt.bucket /\ ckpt' = ckpt /\ archive' = archive
  <2>1. files = {}
    BY <1>3 DEF StepInv, Fresh, Restart
  <2>2. Kept = {}
    BY <2>1 DEF Kept
  <2>3. PICK q \in Orders(Kept) : RestartWith(q)
    BY <1>3, RestartIs
  <2>4. books' = NoBooks
    BY <1>3, <2>2, EmptyBooks DEF StepInv
  <2> QED
    BY <1>3, <2>1, <2>2, <2>3, <2>4 DEF RestartWith, Restart
<1> QED
  BY <1>2, <1>3 DEF StepInv

(* What archive and journal have, they keep.                                   *)
LEMMA HaveGrows ==
  ASSUME MaxEnds = 0, SafeInv, StepInv, [Next]_vars
  PROVE  Have \subseteq Have' /\ Archived \subseteq Archived'
<1>1. Archived \subseteq Archived' /\ Safe \subseteq Safe' /\ Archived \subseteq Safe
  BY SafeGrows, SafeSets
<1>2. Archived' \subseteq Have' /\ Safe' \subseteq Have'
  BY DEF Archived, Safe, Have
<1>3. ASSUME NEW r \in files, NEW b \in r.rows PROVE b \in Have'
  <2>1. CASE r \in files'
    BY <2>1 DEF Have
  <2>2. CASE r \notin files'
    <3>1. ~Restart /\ ~IngestNew /\ ~Backfill
      <4>1. ~Restart
        BY NeverEnds
      <4> QED
        BY <2>2, <4>1 DEF IngestNew, Backfill, Journal
    <3>2. r \in job.receipts
      BY <2>2, <3>1, Frames DEF Unlinks, Unlink
    <3>3. RowSafe(r, b, Archived, Safe)
      BY <3>2 DEF SafeInv
    <3> QED
      BY <1>1, <1>2, <3>3 DEF RowSafe
  <2> QED
    BY <2>1, <2>2
<1>4. Have = Archived \cup UNION {r.rows : r \in files}
  BY DEF Have, Archived
<1> QED
  BY <1>1, <1>2, <1>3, <1>4

LEMMA HaveFrom ==
  ASSUME MaxEnds = 0, HoleInv, [Next]_vars, NEW y \in Have'
  PROVE  \/ y \in Have
         \/ IngestNew /\ y \in Rows(Arrived)
         \/ Backfill /\ y \in {gap.next} \cap Selected
<1>1. TypeInv /\ HaveInv /\ StepInv /\ archive \in [Buckets -> Version] /\ Archived \subseteq Have
  BY HoleParts, HeldIs DEF Archived, Have
<1>2. CASE y \in Archived'
  <2>1. y \in Buckets /\ archive'[y] # "none"
    BY <1>2 DEF Archived
  <2>2. CASE archive' = archive
    BY <1>1, <2>1, <2>2 DEF Archived
  <2>3. CASE WriteWindow
    <3>1. PICK w : archive' = Written(archive, books, w)
      BY <2>3 DEF WriteWindow
    <3>2. archive'[y] \in {books.rows[y], archive[y]}
      BY <2>1, <3>1 DEF Written
    <3> QED
      BY <1>1, <2>1, <3>2 DEF HaveInv, Archived
  <2> QED
    BY <2>2, <2>3, Frames
<1>3. CASE \E r \in files' : y \in r.rows
  <2>1. PICK r \in files' : y \in r.rows
    BY <1>3
  <2>2. r \in files => y \in Have
    BY <2>1 DEF Have
  <2>3. IngestNew => files' = files \cup {ArrivedRecord} /\ ArrivedRecord.rows = Rows(Arrived)
    BY DEF IngestNew, Journal, ArrivedRecord, HubRecord
  <2>4. Backfill => files' = files \cup {BackfillBatch} /\ BackfillBatch.rows = {gap.next} \cap Selected
    BY DEF Backfill, Journal, BackfillBatch, BackfillRecord
  <2>5. Unlinks => files' \subseteq files
    BY DEF Unlinks, Unlink
  <2>6. Restart => files' = {}
    BY <1>1, NeverEnds
  <2> QED
    BY <2>1, <2>2, <2>3, <2>4, <2>5, <2>6, Frames
<1>4. Have' = Archived' \cup UNION {r.rows : r \in files'}
  BY DEF Have, Archived
<1> QED
  BY <1>2, <1>3, <1>4

-------------------------------------------------------------------------------
LEMMA PromisedIs == Promised = {b \in Selected : \E r \in Hubs : r.at < b}
BY DEF Promised, Hubs, HubsOf

LEMMA ArrivalIs ==
  ASSUME HoleInv, Delivered
  PROVE  /\ link \in Sequences /\ Arrived.first \in Int /\ Arrived.last \in Int
         /\ Arrived.first <= Arrived.last /\ Arrived.last < hub.next
         /\ NextBucket(link) = Arrived.last + 1
         /\ Rows(Arrived) = (Arrived.first .. Arrived.last) \cap Selected
         /\ ArrivedRecord.kind = "hub" /\ ArrivedRecord.at = Arrived.last
         /\ src.stream = hub.stream
         /\ Hubs # {} => FullTo(Arrived.first) /\ \E r \in Hubs : r.at < Arrived.first
<1>1. TypeInv /\ ChainInv /\ LinkInv /\ RunReach
  BY HoleParts
<1>2. link \in Sequences /\ link \in Nat /\ link # 0 /\ Latest \in Nat /\ phase = "run"
  BY <1>1, LogIs DEF Delivered, Sequences
<1>3. /\ Arrived.first \in Int /\ Arrived.last \in Int /\ Arrived.first <= Arrived.last
      /\ Arrived.last < hub.next /\ NextBucket(link) = Arrived.last + 1
  BY <1>1, <1>2, LogIs DEF Arrived, ChainInv
<1>4. src.stream = hub.stream /\ (src.seq # NoSeq => link = src.seq + 1)
  BY <1>1, <1>2 DEF LinkInv
<1>5. ASSUME Hubs # {} PROVE FullTo(Arrived.first) /\ \E r \in Hubs : r.at < Arrived.first
  <2>1. src.seq \in 0..Latest /\ FullTo(NextBucket(src.seq)) /\ Met(src.seq)
    BY <1>1, <1>2, <1>4, <1>5 DEF RunReach
  <2>2. link = src.seq + 1 /\ src.seq < Latest
    BY <1>2, <1>4, <2>1 DEF NoSeq, Sequences
  <2>3. NextBucket(src.seq) = Arrived.first
    BY <2>2 DEF NextBucket, Arrived
  <2> QED
    BY <2>1, <2>3 DEF Met
<1> QED
  BY <1>2, <1>3, <1>4, <1>5 DEF Rows, ArrivedRecord, HubRecord

LEMMA HubsNext ==
  ASSUME TypeInv, [Next]_vars
  PROVE  /\ IngestNew => Hubs' = Hubs \cup {ArrivedRecord}
         /\ ~IngestNew => Hubs' = Hubs
<1>1. IngestNew => accepted' = accepted \cup {ArrivedRecord} /\ ArrivedRecord.kind = "hub"
  BY DEF IngestNew, Journal, ArrivedRecord, HubRecord
<1>2. Backfill => accepted' = accepted \cup {BackfillBatch} /\ BackfillBatch.kind = "pg"
  BY BackfillIs DEF Backfill, Journal
<1>3. accepted' = accepted \/ IngestNew \/ Backfill
  BY Frames
<1>4. IngestNew => Hubs' = Hubs \cup {ArrivedRecord}
  BY <1>1 DEF Hubs, HubsOf
<1>5. Backfill => Hubs' = Hubs
  BY <1>2 DEF Hubs, HubsOf
<1>6. accepted' = accepted => Hubs' = Hubs
  BY DEF Hubs, HubsOf
<1> QED
  BY <1>3, <1>4, <1>5, <1>6

(* Nothing that was not owed before is owed after a step.                      *)
LEMMA OwedShrinks ==
  ASSUME HoleInv, [Next]_vars
  PROVE  /\ Owed' \subseteq Owed /\ Owed \subseteq Selected
         /\ ~IngestNew => Owed' = Owed
<1>1. TypeInv
  BY HoleParts
<1>2. Promised' = {b \in Selected : \E r \in Hubs' : r.at < b}
  BY DEF Promised, Hubs, HubsOf
<1>3. ~IngestNew => Owed' = Owed
  BY <1>1, <1>2, HubsNext, PromisedIs DEF Owed
<1>4. ASSUME IngestNew, NEW b \in Owed' PROVE b \in Owed
  <2>1. Hubs' = Hubs \cup {ArrivedRecord} /\ ArrivedRecord.at = Arrived.last
    BY <1>1, <1>4, HubsNext, ArrivalIs DEF IngestNew
  <2>2. b \in Selected /\ \E r \in Hubs' : r.at < b
    BY <1>2, <1>4, <2>1 DEF Owed
  <2>3. CASE Hubs = {}
    BY <2>2, <2>3 DEF Owed
  <2>4. CASE Hubs # {}
    <3>1. PICK r \in Hubs : r.at < Arrived.first
      BY <1>4, <2>4, ArrivalIs DEF IngestNew
    <3>2. /\ Arrived.first \in Int /\ Arrived.last \in Int /\ Arrived.first <= Arrived.last
      BY <1>4, ArrivalIs DEF IngestNew
    <3>3. r.at \in Int /\ b \in Int
      <4>1. r \in Record
        BY <1>1, <3>1, TypeInvIs DEF GhostTyped, Hubs, HubsOf
      <4> QED
        BY <2>2, <4>1, RecordsAre, BucketsAre, SelectedAssumption
    <3>4. PICK s \in Hubs' : s.at < b
      BY <2>2
    <3>5. s \in Hubs \/ s.at = Arrived.last
      BY <2>1, <3>4
    <3>6. \E x \in Hubs : x.at < b
      <4>1. s.at = Arrived.last => r.at < b
        BY <3>1, <3>2, <3>3, <3>4
      <4> QED
        BY <3>1, <3>4, <3>5, <4>1
    <3> QED
      BY <2>2, <2>4, <3>6, PromisedIs DEF Owed
  <2> QED
    BY <2>3, <2>4
<1> QED
  BY <1>3, <1>4, PromisedIs DEF Owed

LEMMA FullStays ==
  ASSUME MaxEnds = 0, HoleInv, [Next]_vars, NEW p, FullTo(p)
  PROVE  \A b \in Owed' : b < p => b \in Have'
BY HoleParts, OwedShrinks, HaveGrows DEF FullTo

(* Once a batch arrived, everything owed up to its end is there.               *)
LEMMA ArrivalFills ==
  ASSUME MaxEnds = 0, HoleInv, [Next]_vars, IngestNew, NEW b \in Owed', b <= Arrived.last
  PROVE  b \in Have'
<1>1. TypeInv /\ SafeInv /\ StepInv /\ Delivered
  BY HoleParts DEF IngestNew
<1>2. /\ Arrived.first \in Int /\ Arrived.last \in Int /\ ArrivedRecord.at = Arrived.last
      /\ Rows(Arrived) = (Arrived.first .. Arrived.last) \cap Selected
      /\ Hubs # {} => FullTo(Arrived.first)
  BY <1>1, ArrivalIs
<1>3. b \in Owed /\ b \in Selected /\ b \in Int
  BY OwedShrinks, BucketsAre, SelectedAssumption
<1>4. CASE b >= Arrived.first
  <2>1. b \in Rows(Arrived)
    BY <1>2, <1>3, <1>4
  <2>2. ArrivedRecord \in files' /\ ArrivedRecord.rows = Rows(Arrived)
    BY DEF IngestNew, Journal, ArrivedRecord, HubRecord
  <2> QED
    BY <2>1, <2>2 DEF Have
<1>5. CASE b < Arrived.first
  <2>1. CASE Hubs # {}
    BY <1>1, <1>2, <1>3, <1>5, <2>1, HaveGrows DEF FullTo
  <2>2. CASE Hubs = {}
    <3>1. Hubs' = {ArrivedRecord}
      BY <1>1, <2>2, HubsNext
    <3>2. Promised' = {c \in Selected : \E r \in Hubs' : r.at < c}
      BY DEF Promised, Hubs, HubsOf
    <3>3. Arrived.last < b
      BY <1>2, <3>1, <3>2 DEF Owed
    <3> QED
      BY <1>2, <1>3, <3>3
  <2> QED
    BY <2>1, <2>2
<1> QED
  BY <1>2, <1>3, <1>4, <1>5

LEMMA OrderedStep ==
  ASSUME MaxEnds = 0, HoleInv, [Next]_vars PROVE OrderedInv'
<1>1. TypeInv /\ SafeInv /\ StepInv /\ OrderedInv /\ GapReach
  BY HoleParts
<1> SUFFICES ASSUME NEW b \in Owed', b \notin Have', NEW y \in Have' PROVE y < b
  BY DEF OrderedInv
<1>2. b \in Owed /\ b \notin Have /\ b \in Int
  BY <1>1, OwedShrinks, HaveGrows, BucketsAre, SelectedAssumption
<1>3. CASE y \in Have
  BY <1>1, <1>2, <1>3 DEF OrderedInv
<1>4. CASE IngestNew /\ y \in Rows(Arrived)
  <2>1. Arrived.first \in Int /\ Arrived.last \in Int /\ y \in Int /\ y <= Arrived.last
    BY <1>4, ArrivalIs DEF IngestNew
  <2>2. ~(b <= Arrived.last)
    BY <1>4, ArrivalFills
  <2> QED
    BY <1>2, <2>1, <2>2
<1>5. CASE Backfill /\ y \in {gap.next} \cap Selected
  <2>1. FullTo(gap.next)
    BY <1>1, <1>5 DEF GapReach, GapPhases, Backfill
  <2>2. ~(b < gap.next)
    BY <1>2, <2>1 DEF FullTo
  <2>3. b # gap.next /\ gap.next \in Int
    BY <1>5, BucketsAre, SelectedAssumption
  <2> QED
    BY <1>2, <1>5, <2>2, <2>3
<1> QED
  BY <1>3, <1>4, <1>5, HaveFrom

-------------------------------------------------------------------------------
LEMMA UnstagedFrom ==
  ASSUME TypeInv, [Next]_vars, NEW r \in Unstaged'
  PROVE  \/ r \in Unstaged
         \/ IngestNew /\ r = ArrivedRecord
         \/ Backfill /\ r = BackfillBatch
<1>1. /\ queue \in Seq(Record) /\ job.todo \in Seq(Record) /\ job \in Jobs
      /\ Elems(<<>>) = {}
  BY HeldIs, ElemsAre
<1>2. Unstaged' = Elems(queue') \cup Elems(job'.todo)
  BY DEF Unstaged, Elems
<1>3. CASE IngestNew
  <2>1. ArrivedRecord \in Record /\ queue' = Append(queue, ArrivedRecord) /\ job' = job
    BY <1>3, ArrivedIs DEF IngestNew, Journal, writer
  <2>2. Elems(queue') = Elems(queue) \cup {ArrivedRecord}
    BY <1>1, <2>1, ElemsAre
  <2> QED
    BY <1>2, <1>3, <2>1, <2>2 DEF Unstaged
<1>4. CASE Backfill
  <2>1. BackfillBatch \in Record /\ queue' = Append(queue, BackfillBatch) /\ job' = job
    BY <1>4, BackfillIs DEF Backfill, Journal, writer
  <2>2. Elems(queue') = Elems(queue) \cup {BackfillBatch}
    BY <1>1, <2>1, ElemsAre
  <2> QED
    BY <1>2, <1>4, <2>1, <2>2 DEF Unstaged
<1>5. CASE Restart
  <2>1. PICK q \in Orders(Kept) : RestartWith(q)
    BY <1>5, RestartIs
  <2>2. queue' = <<>> /\ job'.todo = <<>>
    BY <1>5, <2>1, RestartTypes, JobFields DEF RestartWith
  <2> QED
    BY <1>1, <1>2, <2>2
<1>6. CASE Crash
  BY <1>1, <1>2, <1>6, IdleFields DEF Crash
<1>7. CASE WorkerTakes
  <2>1. queue' = <<>> /\ job'.todo = queue
    BY <1>7, JobSteps, JobFields DEF WorkerTakes
  <2> QED
    BY <1>1, <1>2, <2>1 DEF Unstaged
<1>8. CASE WriterStep /\ ~WorkerTakes
  <2>1. queue' = queue
    BY <1>8, Frames DEF WriterStep, StageNext, Staged, FlushAll, WriteWindow, Resolve,
     WriteManifest, Unlink, SaveCheckpoint, ingest
  <2>2. job'.todo \in {<<>>, job.todo} \/ (StageNext /\ job'.todo = Tail(job.todo))
    <3>1. StageNext => job'.todo = Tail(job.todo)
      BY <1>1, JobSteps, JobFields
    <3>2. Staged \/ WriteManifest => job'.todo = job.todo
      BY <1>1, JobSteps, JobFields
    <3>3. FlushAll => job'.todo = <<>>
      BY JobSteps, JobFields
    <3>7. SaveCheckpoint => job'.todo = <<>>
      BY JobSteps, IdleFields
    <3>4. ASSUME WriteWindow PROVE job'.todo = job.todo
      <4>1. PICK w : w = Min(job.windows)
        OBVIOUS
      <4> QED
        BY <3>4, <4>1, JobSteps, JobFields
    <3>5. ASSUME Resolve PROVE job'.todo = job.todo
      <4>1. PICK d : d = Ready(books, job.keys, job.all)
        OBVIOUS
      <4> QED
        BY <3>5, <4>1, JobSteps, JobFields
    <3>6. ASSUME NEW x \in job.receipts, Unlink(x) PROVE job'.todo = job.todo
      <4>1. JobIs(job', IF job.receipts = {x} THEN "save" ELSE "unlink", job.todo, job.windows,
                  job.keys, job.receipts \ {x}, job.all, job.latest)
        BY <3>6, JobSteps
      <4> QED
        BY <4>1 DEF JobIs
    <3> QED
      BY <1>8, <3>1, <3>2, <3>3, <3>4, <3>5, <3>6, <3>7 DEF WriterStep
  <2>3. StageNext => Elems(Tail(job.todo)) \subseteq Elems(job.todo)
    BY <1>1, ElemsAre DEF StageNext
  <2> QED
    BY <1>1, <1>2, <2>1, <2>2, <2>3 DEF Unstaged
<1>9. CASE queue' = queue /\ job' = job
  BY <1>9 DEF Unstaged, Elems
<1> QED
  BY <1>3, <1>4, <1>5, <1>6, <1>7, <1>8, <1>9, Frames

LEMMA StageRows ==
  ASSUME NEW z \in GoodBooks, NEW r \in Record, NEW a \in [Buckets -> Version],
         NEW b \in Buckets, Stage(z, r, a).rows[b] # "none"
  PROVE  b \in r.rows \/ z.rows[b] # "none" \/ a[b] # "none"
<1>1. StagedAs(Stage(z, r, a), z, r, a)
  BY StageParts DEF GoodBooks
<1> QED
  BY <1>1 DEF StagedAs, Won, Known

LEMMA HaveStep ==
  ASSUME MaxEnds = 0, HoleInv, [Next]_vars PROVE HaveInv'
<1>1. TypeInv /\ SafeInv /\ StepInv /\ HaveInv
  BY HoleParts
<1>2. /\ Have \subseteq Have' /\ Archived \subseteq Archived' /\ Archived \subseteq Have
      /\ books \in GoodBooks /\ job.todo \in Seq(Record) /\ archive \in [Buckets -> Version]
  BY <1>1, HaveGrows, HeldIs DEF Archived, Have
<1>3. ASSUME NEW r \in Unstaged' PROVE r.rows \subseteq Have'
  <2>1. IngestNew => ArrivedRecord \in files'
    BY DEF IngestNew, Journal
  <2>2. Backfill => BackfillBatch \in files'
    BY DEF Backfill, Journal
  <2>3. \A x \in files' : x.rows \subseteq Have'
    BY DEF Have
  <2> QED
    BY <1>1, <1>2, <1>3, <2>1, <2>2, <2>3, UnstagedFrom DEF HaveInv
<1>4. ASSUME NEW b \in Buckets, books'.rows[b] # "none" PROVE b \in Have'
  <2>1. CASE books' = books
    BY <1>1, <1>2, <1>4, <2>1 DEF HaveInv
  <2>2. CASE StageNext
    <3>1. PICK r : r = Head(job.todo)
      OBVIOUS
    <3>2. r \in Elems(job.todo) /\ r \in Record /\ books' = Stage(books, r, archive)
      BY <1>1, <1>2, <2>2, <3>1, NextLatestIs, ElemsAre DEF StageNext
    <3>3. b \in r.rows \/ books.rows[b] # "none" \/ archive[b] # "none"
      BY <1>2, <1>4, <3>2, StageRows
    <3> QED
      BY <1>1, <1>2, <3>2, <3>3 DEF HaveInv, Unstaged, Archived
  <2>3. CASE WriteWindow
    <3>1. PICK w : books' = Closed(books, w)
      BY <2>3 DEF WriteWindow
    <3>2. books.rows[b] # "none"
      BY <1>2, <1>4, <3>1, WriteGood
    <3> QED
      BY <1>1, <1>2, <3>2 DEF HaveInv
  <2>4. CASE Resolve
    <3>1. books' = Covered(books, job.keys, job.all)
      BY <2>4 DEF Resolve
    <3>2. books'.rows = books.rows
      BY <1>2, <3>1, CoveredAre
    <3> QED
      BY <1>1, <1>2, <1>4, <3>2 DEF HaveInv
  <2>5. CASE Restart
    BY <1>1, <1>4, <2>5, NeverEnds DEF NoBooks
  <2> QED
    BY <1>1, <2>1, <2>2, <2>3, <2>4, <2>5, NeverEnds, Frames
<1>5. {ckpt'.bucket, lastBucket'} \subseteq Archived' \cup {-1}
  <2>1. SaveCheckpoint => /\ ckpt'.bucket \in {ckpt.bucket, lastBucket'}
                          /\ lastBucket' \in Archived \cup {lastBucket}
    BY <1>1, SaveIs
  <2>2. ResumeFromHub => ckpt'.bucket = ckpt.bucket /\ lastBucket' = lastBucket
    BY <1>1, ResumeIs
  <2>3. Restart => ckpt'.bucket = ckpt.bucket /\ lastBucket' = ckpt.bucket
    BY <1>1, NeverEnds
  <2> QED
    BY <1>1, <1>2, <2>1, <2>2, <2>3, Frames DEF HaveInv
<1> QED
  BY <1>3, <1>4, <1>5 DEF HaveInv

-------------------------------------------------------------------------------
LEMMA BucketAhead ==
  ASSUME TypeInv, NEW k \in Nat, k <= Latest
  PROVE  NextBucket(k) \in Int
<1>1. k < Latest => k + 1 \in Sequences
  BY LogIs DEF Sequences
<1> QED
  BY <1>1, LogIs, BucketsAre DEF NextBucket

(* While the database keeps up, every batch starts where the last one ended.   *)
LEMMA PublishChains ==
  ASSUME MaxLag = 0, TypeInv, ChainInv, NEW k \in 1..2, Publish(k)
  PROVE  /\ pg' = hub'.next - 1 /\ hub.next < hub'.next /\ hub.next \in Int /\ hub'.next \in Int
         /\ \A n \in 0..Latest : NextBucket(n)' = NextBucket(n)
         /\ NextBucket(Latest) = hub.next /\ \A n : n = Latest + 1 => NextBucket(n)' = hub'.next
<1>1. /\ Latest' = Latest + 1 /\ \A n \in Sequences : hub'.log[n] = hub.log[n]
      /\ hub'.log[Latest + 1].first = hub.next /\ hub'.next = hub.next + k
      /\ Latest \in Nat /\ hub.next \in Int /\ pg \in Int /\ Sequences = 1..Latest
  BY PublishIs, LogIs DEF Sequences
<1>2. pg' = Larger(pg, hub.next + k - 1)
  BY <1>1 DEF Publish
<1>3. pg' = hub'.next - 1
  BY <1>1, <1>2 DEF ChainInv, Larger
<1>4. ASSUME NEW n \in 0..Latest PROVE NextBucket(n)' = NextBucket(n)
  <2>1. CASE n < Latest
    <3>1. n + 1 \in Sequences
      BY <1>1, <2>1
    <3> QED
      BY <1>1, <2>1, <3>1 DEF NextBucket
  <2>2. CASE n = Latest
    BY <1>1, <2>2 DEF NextBucket
  <2> QED
    BY <1>1, <2>1, <2>2
<1>5. NextBucket(Latest) = hub.next /\ \A n : n = Latest + 1 => NextBucket(n)' = hub'.next
  BY <1>1 DEF NextBucket
<1> QED
  BY <1>1, <1>3, <1>4, <1>5

LEMMA AcceptedAt ==
  ASSUME TypeInv, NEW r \in Hubs
  PROVE  r.at \in Int
BY TypeInvIs, RecordsAre, BucketsAre DEF GhostTyped, Hubs, HubsOf

LEMMA ChainStep ==
  ASSUME MaxLag = 0, HoleInv, [Next]_vars PROVE ChainInv'
<1>1. TypeInv /\ ChainInv /\ hub.next \in Int
  BY HoleParts, LogIs
<1>2. CASE Publishes
  <2>1. PICK k \in 1..2 : Publish(k)
    BY <1>2 DEF Publishes
  <2>2. /\ \A n \in Sequences : hub'.log[n] = hub.log[n]
        /\ hub'.log[Latest + 1].first = hub.next
        /\ hub'.log[Latest + 1].last = hub.next + k - 1 /\ hub'.next = hub.next + k
        /\ Sequences' = Sequences \cup {Latest + 1} /\ Latest \in Nat /\ Sequences = 1..Latest
    BY <1>1, <2>1, PublishIs, LogIs DEF Sequences
  <2>3. /\ pg' = hub'.next - 1 /\ hub.next < hub'.next /\ hub'.next \in Int
        /\ \A n \in 0..Latest : NextBucket(n)' = NextBucket(n)
        /\ \A n : n = Latest + 1 => NextBucket(n)' = hub'.next
    BY <1>1, <2>1, PublishChains
  <2>4. ~IngestNew
    BY <1>1, <2>1, <2>3 DEF IngestNew, market
  <2>5. Hubs' = Hubs
    BY <1>1, <2>4, HubsNext
  <2>6. ASSUME NEW n \in Sequences'
        PROVE  /\ hub'.log[n].first <= hub'.log[n].last
               /\ hub'.log[n].last < hub'.next
               /\ NextBucket(n)' = hub'.log[n].last + 1
    <3>1. CASE n \in Sequences
      <4>5. Sequences = 1..Latest /\ Latest \in Nat
        BY <2>2
      <4>6. n \in 0..Latest
        BY <3>1, <4>5
      <4>1. n \in 0..Latest /\ hub.log[n].last \in Int
        BY <1>1, <3>1, <4>6, LogIs
      <4>2. NextBucket(n)' = NextBucket(n) /\ hub'.log[n] = hub.log[n]
        BY <2>2, <2>3, <3>1, <4>1
      <4>3. /\ hub.log[n].first <= hub.log[n].last /\ hub.log[n].last < hub.next
            /\ NextBucket(n) = hub.log[n].last + 1
        BY <1>1, <3>1 DEF ChainInv
      <4>4. hub.log[n].last < hub'.next
        BY <1>1, <2>3, <4>1, <4>3
      <4> QED
        BY <4>2, <4>3, <4>4
    <3>2. CASE n = Latest + 1
      <4>1. /\ hub'.log[n].first = hub.next /\ hub'.log[n].last = hub.next + k - 1
            /\ hub'.next = hub.next + k
        BY <2>2, <3>2
      <4>2. NextBucket(n)' = hub'.next
        BY <2>3, <3>2
      <4> QED
        BY <1>1, <4>1, <4>2
    <3>3. n \in Sequences \/ n = Latest + 1
      BY <2>2
    <3> QED
      BY <3>1, <3>2, <3>3
  <2>8. \A r \in Hubs : r.at < hub'.next
    BY <1>1, <2>3, AcceptedAt DEF ChainInv
  <2> QED
    BY <2>3, <2>5, <2>6, <2>8 DEF ChainInv
<1>3. CASE HubRestart
  <2>1. hub'.log = <<>> /\ hub'.next = hub.next /\ pg' = pg /\ accepted' = accepted
    BY <1>1, <1>3, TypeInvIs DEF HubRestart, ghost, MarketTyped
  <2>2. Sequences' = {} /\ Hubs' = Hubs
    BY <2>1 DEF Sequences, Latest, Hubs
  <2> QED
    BY <1>1, <2>1, <2>2 DEF ChainInv
<1>4. CASE ~Publishes /\ ~HubRestart
  <2>1. hub' = hub
    BY <1>4, HubFrom
  <2>2. pg' = pg
    BY <1>1, <1>4, PgFrom, LogIs DEF ChainInv
  <2>3. Sequences' = Sequences /\ \A n : NextBucket(n)' = NextBucket(n)
    BY <2>1 DEF Sequences, NextBucket, Latest
  <2>4. \A r \in Hubs' : r.at < hub.next
    <3>1. IngestNew => ArrivedRecord.at = Arrived.last /\ Arrived.last < hub.next
      BY ArrivalIs DEF IngestNew
    <3> QED
      BY <1>1, <3>1, HubsNext DEF ChainInv
  <2> QED
    BY <1>1, <2>1, <2>2, <2>3, <2>4 DEF ChainInv
<1> QED
  BY <1>2, <1>3, <1>4

(* Nothing names a life of the hub that has not begun.                         *)
LEMMA StreamStep ==
  ASSUME MaxEnds = 0, HoleInv, [Next]_vars PROVE StreamInv'
<1>1. TypeInv /\ SafeInv /\ StepInv /\ StreamInv
  BY HoleParts
<1>2. /\ hub.stream \in Nat /\ hub.stream >= 1 /\ src \in Sources /\ gap \in Gaps
      /\ ckpt \in Checkpoints
      /\ 0..hub.stream \subseteq 0..hub'.stream /\ hub.stream <= hub'.stream /\ hub'.stream \in Int
  <2>1. /\ hub.stream \in Nat /\ hub.stream >= 1 /\ src \in Sources /\ gap \in Gaps
        /\ ckpt \in Checkpoints
    BY <1>1, BoundsAre, TypeInvIs DEF MarketTyped, LoopTyped, DiskTyped
  <2>2. hub'.stream \in {hub.stream, hub.stream + 1}
    <3>1. CASE Publishes
      BY <1>1, <3>1, TypeInvIs DEF Publishes, Publish, MarketTyped
    <3>2. CASE HubRestart
      BY <1>1, <3>2, TypeInvIs DEF HubRestart, MarketTyped
    <3> QED
      BY <3>1, <3>2, HubFrom
  <2> QED
    BY <2>1, <2>2
<1>3. stream' \in 0..hub'.stream
  <2>1. CASE Restart
    <3>1. PICK q \in Orders(Kept) : RestartWith(q)
      BY <2>1, RestartIs
    <3>2. DOMAIN q = {}
      <4>1. IsFiniteSet({}) /\ Kept = {}
        BY <1>1, <2>1, NeverEnds, FS_EmptySet
      <4> QED
        BY <3>1, <4>1, OrdersAre
    <3>3. stream' = ckpt.stream
      BY <3>1, <3>2 DEF RestartWith, NowIn, HubsIn
    <3> QED
      BY <1>1, <1>2, <3>3 DEF StreamInv
  <2>2. CASE IngestNew
    BY <1>1, <1>2, <2>2 DEF IngestNew, StreamInv
  <2>3. CASE ResumeFromHub
    BY <1>1, <1>2, <2>3 DEF ResumeFromHub, StreamInv
  <2>4. stream' = stream \/ IngestNew \/ Restart \/ ResumeFromHub
    BY DEF Next, vars, MarketStep, SourceStep, IngestStep, GapStep, WriterStep, LifeStep,
       Publish, Persist, HubRestart, Connects, Drops, ReplayUnavailable, IngestKnown,
       IngestPaused, PlanBackfill, Backfill, Backfilled, WorkerTakes, StageNext, Staged,
       FlushAll, WriteWindow, Resolve, WriteManifest, Unlink, SaveCheckpoint, GivesUp,
       Signaled, Stop, Crash, ingest
  <2> QED
    BY <1>1, <1>2, <2>1, <2>2, <2>3, <2>4 DEF StreamInv
<1>4. ckpt'.stream \in 0..hub'.stream
  <2>1. SaveCheckpoint => ckpt'.stream = stream
    BY DEF SaveCheckpoint
  <2>2. ResumeFromHub => ckpt'.stream = gap.stream
    BY <1>2 DEF ResumeFromHub, Checkpoints
  <2> QED
    BY <1>1, <1>2, <2>1, <2>2, Frames DEF StreamInv
<1>5. src'.stream \in 0..hub'.stream
  <2>1. Connects => src'.stream = hub.stream
    BY <1>2 DEF Connects, Sources
  <2>2. ResumeFromHub => src'.stream = gap.stream
    BY DEF ResumeFromHub
  <2>3. IngestNew \/ IngestKnown => src'.stream = src.stream
    BY <1>2 DEF IngestNew, IngestKnown, Sources
  <2>4. SaveCheckpoint => src'.stream \in {src.stream, stream}
    BY DEF SaveCheckpoint
  <2>5. Restart => src'.stream = 0
    BY DEF Restart, NoStream
  <2> QED
    BY <1>1, <1>2, <2>1, <2>2, <2>3, <2>4, <2>5, LinkFrom DEF StreamInv
<1>6. gap'.stream \in 0..hub'.stream
  <2>1. ReplayUnavailable => gap'.stream = hub.stream
    BY DEF ReplayUnavailable, NoGap
  <2>2. PlanBackfill \/ Backfill => gap'.stream = gap.stream
    BY <1>2 DEF PlanBackfill, Backfill, Gaps
  <2>3. NoGap.stream = 0
    BY DEF NoGap, NoStream
  <2>4. \/ gap' = gap \/ gap' = NoGap \/ ReplayUnavailable \/ PlanBackfill \/ Backfill
    BY <1>2, GapFrom
  <2> QED
    BY <1>1, <1>2, <2>1, <2>2, <2>3, <2>4 DEF StreamInv
<1> QED
  BY <1>3, <1>4, <1>5, <1>6 DEF StreamInv

-------------------------------------------------------------------------------
LEMMA StartsOnce ==
  ASSUME MaxEnds = 0, HoleInv, [Next]_vars, phase \notin {"down", "init"}
  PROVE  phase' \notin {"down", "init"} /\ ~Restart
<1>1. TypeInv /\ StepInv /\ ~Crash /\ ~GivesUp /\ ~Signaled /\ phase # "stopping" /\ ~Restart
  BY HoleParts, NeverEnds DEF Restart
<1>2. SaveCheckpoint /\ job.all => phase' = AfterFlush[phase] /\ phase \in {"paused", "drain"}
  BY <1>1, TypeInvIs DEF SaveCheckpoint, FlushTyped, Flushing
<1>3. SaveCheckpoint /\ job.all => phase' \in {"run", "switch"}
  BY <1>2 DEF AfterFlush
<1>4. ReplayUnavailable \/ IngestPaused \/ PlanBackfill \/ Backfilled \/ ResumeFromHub
        => phase' \in {"gap", "paused", "backfill", "drain", "run"}
  BY DEF ReplayUnavailable, IngestPaused, PlanBackfill, Backfilled, ResumeFromHub
<1> QED
  BY <1>1, <1>3, <1>4, PhaseFrom

LEMMA StartsWith ==
  ASSUME MaxEnds = 0, HoleInv, [Next]_vars, phase \in {"down", "init"}, phase' \notin {"down", "init"}
  PROVE  phase = "init" /\ SaveCheckpoint /\ phase' = "run" /\ src'.seq = lastSeen
<1>1. /\ TypeInv /\ StepInv /\ ~Crash /\ ~GivesUp /\ ~Signaled /\ job.all \in BOOLEAN
      /\ lastSeen \in Int
  BY HoleParts, NeverEnds, TypeInvIs, CursorsAre DEF WriterTyped, Jobs
<1>2. ~Restart
  <2>1. phase' # "wedged"
    BY <1>1, HoleParts, StepInvStep DEF StepInv
  <2>2. Restart => phase' \in {"init", "wedged"}
    BY DEF Restart
  <2> QED
    BY <2>1, <2>2
<1>3. SaveCheckpoint /\ job.all
  <2>1. ~(ReplayUnavailable \/ IngestPaused \/ PlanBackfill \/ Backfilled \/ ResumeFromHub)
    BY DEF ReplayUnavailable, IngestPaused, Delivered, PlanBackfill, Backfilled, ResumeFromHub
  <2> QED
    BY <1>1, <1>2, <2>1, PhaseFrom
<1>4. phase = "init"
  BY <1>1, <1>3, TypeInvIs DEF FlushTyped, Flushing
<1>5. phase' = "run"
  BY <1>3, <1>4 DEF SaveCheckpoint, AfterFlush
<1>6. src'.seq = lastSeen
  BY <1>1, <1>3, <1>4 DEF SaveCheckpoint, StepInv, Starting
<1> QED
  BY <1>3, <1>4, <1>5, <1>6

LEMMA NoneKnown ==
  ASSUME HoleInv PROVE ~IngestKnown
<1> SUFFICES ASSUME IngestKnown PROVE FALSE
  OBVIOUS
<1>1. TypeInv /\ LinkInv /\ lastSeen \in Int /\ link \in Nat
  BY HoleParts, CursorsAre
<1>2. phase = "run" /\ link # 0 /\ lastSeen # NoSeq /\ link <= lastSeen
  BY <1>1, LogIs DEF IngestKnown, Delivered, IsNew
<1> QED
  BY <1>1, <1>2 DEF LinkInv

LEMMA SourceIs ==
  ASSUME TypeInv, [Next]_vars
  PROVE  /\ Connects => /\ src'.stream = hub.stream /\ src'.seq = src.seq
                        /\ src.seq # NoSeq => link' = src.seq + 1
         /\ IngestNew => src'.stream = src.stream /\ src'.seq = link /\ link' = link + 1
         /\ SaveCheckpoint => link' = link /\ (src' = src \/ phase = "init")
         /\ ResumeFromHub => link' = link /\ phase = "switch"
         /\ Restart => link' = link /\ phase = "down"
         /\ link # 0 => phase = "run"
<1>1. src \in Sources /\ (link # 0 => phase = "run")
  BY CursorsAre
<1> QED
  BY <1>1 DEF Sources, Connects, IngestNew, SaveCheckpoint, ResumeFromHub, Restart

LEMMA LinkStep ==
  ASSUME MaxEnds = 0, HoleInv, [Next]_vars PROVE LinkInv'
<1>1. TypeInv /\ StepInv /\ LinkInv /\ ~IngestKnown /\ lastSeen \in Int /\ link \in Nat
  BY HoleParts, NoneKnown, CursorsAre
<1>2. ASSUME phase' \in {"down", "init"} PROVE accepted' = {}
  <2>1. phase \in {"down", "init"}
    BY <1>2, StartsOnce
  <2>2. ~IngestNew /\ ~Backfill
    BY <2>1 DEF IngestNew, Delivered, Backfill
  <2> QED
    BY <1>1, <2>1, <2>2, Frames DEF LinkInv
<1>3. ASSUME phase' \notin {"down", "init"} PROVE src'.seq = lastSeen'
  <2>1. CASE phase \in {"down", "init"}
    <3>1. SaveCheckpoint /\ src'.seq = lastSeen
      BY <1>3, <2>1, StartsWith
    <3>2. lastSeen' = lastSeen
      BY <3>1 DEF SaveCheckpoint, ingest
    <3> QED
      BY <3>1, <3>2
  <2>2. CASE phase \notin {"down", "init"}
    <3>1. src.seq = lastSeen /\ ~Restart
      BY <1>1, <2>2, StartsOnce DEF LinkInv
    <3>2. CASE IngestNew
      BY <1>1, <3>2, SourceIs DEF IngestNew
    <3>3. CASE ResumeFromHub
      BY <3>3 DEF ResumeFromHub
    <3>4. CASE ~IngestNew /\ ~ResumeFromHub
      <4>1. lastSeen' = lastSeen
        BY <3>1, <3>4, Frames
      <4>2. src' = src \/ Connects
        BY <1>1, <2>2, <3>1, <3>4, LinkFrom, SourceIs
      <4> QED
        BY <1>1, <3>1, <4>1, <4>2, SourceIs
    <3> QED
      BY <3>2, <3>3, <3>4
  <2> QED
    BY <2>1, <2>2
<1>4. ASSUME link' # 0
      PROVE  src'.stream = hub'.stream /\ (src'.seq # NoSeq => link' = src'.seq + 1)
  <2>1. hub'.stream = hub.stream
    <3>1. ~HubRestart
      BY <1>4 DEF HubRestart
    <3>2. Publishes => hub'.stream = hub.stream
      BY <1>1, TypeInvIs DEF Publishes, Publish, MarketTyped
    <3> QED
      BY <3>1, <3>2, HubFrom
  <2>2. CASE Connects
    BY <1>1, <2>1, <2>2, SourceIs
  <2>3. CASE IngestNew
    <3>1. link # 0
      BY <1>1, <2>3, LogIs DEF IngestNew, Delivered
    <3> QED
      BY <1>1, <2>1, <2>3, <3>1, SourceIs DEF LinkInv
  <2>4. CASE ~Connects /\ ~IngestNew
    <3>1. link' = link /\ src' = src
      BY <1>1, <1>4, <2>4, LinkFrom, SourceIs
    <3> QED
      BY <1>1, <1>4, <2>1, <3>1 DEF LinkInv
  <2> QED
    BY <2>2, <2>3, <2>4
<1> QED
  BY <1>2, <1>3, <1>4 DEF LinkInv

-------------------------------------------------------------------------------
(* Within one life of the hub what a sequence stands for does not change.      *)
LEMMA BucketStays ==
  ASSUME MaxLag = 0, HoleInv, [Next]_vars, ~HubRestart, NEW k \in 0..Latest
  PROVE  NextBucket(k)' = NextBucket(k) /\ Latest <= Latest' /\ NextBucket(k) \in Int
<1>1. TypeInv /\ ChainInv /\ Latest \in Nat
  BY HoleParts, LogIs
<1>2. CASE Publishes
  BY <1>1, <1>2, PublishIs, PublishChains, BucketAhead DEF Publishes
<1>3. CASE ~Publishes
  <2>1. hub' = hub
    BY <1>3, HubFrom
  <2> QED
    BY <1>1, <2>1, BucketAhead DEF NextBucket, Latest
<1> QED
  BY <1>2, <1>3

LEMMA BucketBelow ==
  ASSUME TypeInv, ChainInv, NEW k \in 0..Latest
  PROVE  NextBucket(k) <= hub.next
<1>1. hub.next \in Int
  BY LogIs
<1>2. CASE k < Latest
  <2>1. k + 1 \in Sequences
    BY <1>2, LogIs DEF Sequences
  <2>2. PICK n \in Sequences : n = k + 1
    BY <2>1
  <2>3. /\ hub.log[n].first \in Int /\ hub.log[n].last \in Int
        /\ hub.log[n].first <= hub.log[n].last /\ hub.log[n].last < hub.next
    BY LogIs DEF ChainInv
  <2>4. NextBucket(k) = hub.log[n].first
    BY <1>2, <2>2 DEF NextBucket
  <2> QED
    BY <1>1, <2>3, <2>4
<1>3. CASE ~(k < Latest)
  BY <1>1, <1>3 DEF NextBucket
<1> QED
  BY <1>2, <1>3

LEMMA MetStays ==
  ASSUME MaxLag = 0, HoleInv, [Next]_vars, ~HubRestart, NEW k \in 0..Latest, Met(k)
  PROVE  Met(k)'
<1>1. PICK r \in Hubs : r.at < NextBucket(k)
  BY DEF Met
<1>2. r \in Hubs' /\ NextBucket(k)' = NextBucket(k)
  BY <1>1, HoleParts, HubsNext, BucketStays
<1> QED
  BY <1>1, <1>2 DEF Met

Reached(k) == k \in 0..Latest /\ FullTo(NextBucket(k)) /\ Met(k)

LEMMA ReachedStays ==
  ASSUME MaxEnds = 0, MaxLag = 0, HoleInv, [Next]_vars, ~HubRestart, NEW k, Reached(k)
  PROVE  Reached(k)'
<1>1. /\ k \in 0..Latest /\ Latest \in Nat /\ Latest' \in Nat /\ Latest <= Latest'
      /\ NextBucket(k)' = NextBucket(k)
  <2>1. TypeInv /\ TypeInv' /\ k \in 0..Latest
    BY HoleParts, TypesStep DEF Reached
  <2>2. Latest \in Nat /\ Latest' \in Nat
    BY <2>1, TypeInvIs DEF MarketTyped, Latest
  <2> QED
    BY <2>1, <2>2, BucketStays
<1>2. PICK p : p = NextBucket(k)
  OBVIOUS
<1>3. \A b \in Owed' : b < p => b \in Have'
  BY <1>2, FullStays DEF Reached
<1>4. FullTo(NextBucket(k))'
  BY <1>1, <1>2, <1>3 DEF FullTo
<1>5. Met(k)'
  BY <1>1, MetStays DEF Reached
<1> QED
  BY <1>1, <1>4, <1>5 DEF Reached

LEMMA ArrivalReaches ==
  ASSUME MaxEnds = 0, MaxLag = 0, HoleInv, [Next]_vars, IngestNew, NEW k, k = link
  PROVE  Reached(k)'
<1>1. Delivered /\ hub' = hub /\ TypeInv
  BY HoleParts DEF IngestNew, market
<1>2. /\ k \in 0..Latest /\ Arrived.last \in Int /\ NextBucket(k) = Arrived.last + 1
      /\ ArrivedRecord.at = Arrived.last /\ ArrivedRecord \in Hubs'
  BY <1>1, ArrivalIs, HubsNext, LogIs DEF Sequences
<1>3. Latest' = Latest /\ NextBucket(k)' = NextBucket(k)
  BY <1>1 DEF Latest, NextBucket
<1>4. PICK p : p = NextBucket(k)
  OBVIOUS
<1>5. ASSUME NEW b \in Owed', b < p PROVE b \in Have'
  <2>1. b \in Int
    BY OwedShrinks, BucketsAre, SelectedAssumption
  <2> QED
    BY <1>2, <1>4, <1>5, <2>1, ArrivalFills
<1>6. FullTo(NextBucket(k))'
  BY <1>3, <1>4, <1>5 DEF FullTo
<1>7. Met(k)'
  BY <1>2, <1>3 DEF Met
<1> QED
  BY <1>2, <1>3, <1>6, <1>7 DEF Reached

LEMMA GapReaches ==
  ASSUME HoleInv, phase = "switch", gap.stream = hub.stream, Hubs # {}, NEW k, k = gap.latest
  PROVE  Reached(k)
<1>1. TypeInv /\ GapReach /\ "switch" \in GapPhases /\ phase \notin {"gap", "backfill"}
  BY HoleParts DEF GapPhases
<1>2. /\ k <= Latest /\ Met(k) /\ FullTo(gap.until + 1) /\ NextBucket(k) <= gap.until + 1
  BY <1>1 DEF GapReach
<1>3. gap.until \in Int /\ k \in Nat /\ Latest \in Nat
  BY <1>1, TypeInvIs, BucketsAre, LogIs DEF LoopTyped, Gaps
<1>4. ASSUME NEW b \in Owed, b < NextBucket(k) PROVE b \in Have
  <2>1. b \in Int /\ NextBucket(k) \in Int
    BY <1>1, <1>2, <1>3, BucketAhead, BucketsAre, SelectedAssumption, PromisedIs DEF Owed
  <2> QED
    BY <1>2, <1>3, <1>4, <2>1 DEF FullTo
<1> QED
  BY <1>2, <1>3, <1>4 DEF Reached, FullTo

LEMMA RunReachStep ==
  ASSUME MaxEnds = 0, MaxLag = 0, HoleInv, [Next]_vars PROVE RunReach'
<1>1. /\ TypeInv /\ StepInv /\ LinkInv /\ StreamInv /\ RunReach /\ GapReach
      /\ hub.stream \in Nat /\ hub.stream >= 1
      /\ src.stream \in Int /\ src.stream <= hub.stream /\ gap.stream <= hub.stream
      /\ gap.stream \in Int
  BY HoleParts, TypeInvIs, BoundsAre DEF MarketTyped, StreamInv
<1> SUFFICES ASSUME phase' \in {"run", "paused"}, Hubs' # {}
             PROVE  /\ src'.stream # NoStream
                    /\ src'.stream = hub'.stream => \A k : k = src'.seq => Reached(k)'
  BY DEF RunReach, Reached
<1>2. HubRestart => hub'.stream = hub.stream + 1
  BY <1>1, TypeInvIs DEF HubRestart, MarketTyped
<1>3. ~HubRestart => hub'.stream = hub.stream
  <2>1. Publishes => hub'.stream = hub.stream
    BY <1>1, TypeInvIs DEF Publishes, Publish, MarketTyped
  <2> QED
    BY <2>1, HubFrom
<1>4. CASE IngestNew
  <2>1. src'.stream = hub.stream /\ src'.seq = link
    BY <1>1, <1>4, ArrivalIs, SourceIs DEF IngestNew
  <2>2. \A k : k = link => Reached(k)'
    BY <1>4, ArrivalReaches
  <2> QED
    BY <1>1, <2>1, <2>2 DEF NoStream
<1>5. CASE ResumeFromHub
  <2>1. /\ src'.stream = gap.stream /\ src'.seq = gap.latest /\ phase = "switch"
        /\ hub' = hub
    BY <1>5 DEF ResumeFromHub, market
  <2>2. Hubs' = Hubs
    <3>1. ~IngestNew
      BY <2>1 DEF IngestNew, Delivered
    <3> QED
      BY <1>1, <3>1, HubsNext
  <2>3. gap.stream # NoStream
    BY <1>1, <2>1 DEF GapReach, GapPhases
  <2>4. ASSUME gap.stream = hub.stream, NEW k, k = gap.latest PROVE Reached(k)'
    <3>1. Reached(k)
      BY <2>1, <2>2, <2>4, GapReaches
    <3>2. ~HubRestart
      BY <1>1, <1>2, <2>1
    <3> QED
      BY <3>1, <3>2, ReachedStays
  <2> QED
    BY <2>1, <2>3, <2>4
<1>6. CASE ~IngestNew /\ ~ResumeFromHub
  <2>1. Hubs' = Hubs /\ Hubs # {}
    BY <1>1, <1>6, HubsNext
  <2>2. phase \in {"run", "paused"}
    <3>1. phase \notin {"down", "init"}
      BY <1>1, <2>1 DEF LinkInv, Hubs, HubsOf
    <3> QED
      BY <1>1, <1>6, <3>1, PhaseIs
  <2>3. /\ src.stream # NoStream
        /\ src.stream = hub.stream => \A k : k = src.seq => Reached(k)
    BY <1>1, <2>1, <2>2 DEF RunReach, Reached
  <2>4. src'.stream = src.stream /\ src'.seq = src.seq
    <3>1. ~IngestKnown /\ ~Restart
      BY <2>2, NoneKnown DEF Restart
    <3>2. SaveCheckpoint => src' = src
      BY <1>1, <2>2, SourceIs
    <3>3. Connects => src'.stream = hub.stream /\ src'.seq = src.seq /\ src.stream = hub.stream
      BY <1>1, <2>3, SourceIs DEF Connects
    <3> QED
      BY <1>6, <3>1, <3>2, <3>3, LinkFrom
  <2>5. ASSUME src.stream = hub'.stream, NEW k, k = src.seq PROVE Reached(k)'
    <3>1. ~HubRestart /\ src.stream = hub.stream
      BY <1>1, <1>2, <1>3, <2>5
    <3> QED
      BY <2>3, <2>5, <3>1, ReachedStays
  <2> QED
    BY <2>3, <2>4, <2>5
<1> QED
  BY <1>4, <1>5, <1>6

-------------------------------------------------------------------------------
(* The facts on types that the two lemmas on gaps need.                        *)
LEMMA GapTypesAre ==
  ASSUME HoleInv, [Next]_vars
  PROVE  /\ gap \in Gaps /\ gap.latest \in Nat /\ gap.next \in Int /\ gap.until \in Int
         /\ Latest \in Nat /\ Latest' \in Nat /\ hub.next \in Int
         /\ hub.stream \in Nat /\ hub.stream >= 1
         /\ gap.stream \in Int /\ gap.stream <= hub.stream
         /\ HubRestart => hub'.stream = hub.stream + 1
         /\ ~HubRestart => hub'.stream = hub.stream
<1>1. TypeInv /\ TypeInv' /\ StreamInv
  BY HoleParts, TypesStep
<1>2. gap \in Gaps /\ gap.latest \in Nat /\ gap.next \in Int /\ gap.until \in Int
  BY <1>1, TypeInvIs, BucketsAre DEF LoopTyped, Gaps
<1>3. Latest \in Nat /\ hub.next \in Int
  BY <1>1, LogIs
<1>4. Latest' \in Nat
  BY <1>1, TypeInvIs DEF MarketTyped, Latest
<1>5. hub.stream \in Nat /\ hub.stream >= 1
  BY <1>1, TypeInvIs, BoundsAre DEF MarketTyped
<1>6. gap.stream \in Int /\ gap.stream <= hub.stream
  BY <1>1, <1>5 DEF StreamInv
<1>7. HubRestart => hub'.stream = hub.stream + 1
  BY <1>1, TypeInvIs DEF HubRestart, MarketTyped
<1>8. ~HubRestart => hub'.stream = hub.stream
  <2>1. Publishes => hub'.stream = hub.stream
    BY <1>1, TypeInvIs DEF Publishes, Publish, MarketTyped
  <2> QED
    BY <2>1, HubFrom
<1> QED
  BY <1>2, <1>3, <1>4, <1>5, <1>6, <1>7, <1>8

(* What a step leaves of a gap that is being recovered.                        *)
LEMMA GapStays ==
  ASSUME MaxLag = 0, HoleInv, [Next]_vars, phase \in GapPhases, NEW k, k = gap.latest
  PROVE  /\ gap.stream # NoStream
         /\ gap.stream = hub'.stream =>
              /\ k <= Latest' /\ (Hubs' # {} => Met(k)')
              /\ phase # "gap" => NextBucket(k)' <= gap.until + 1
<1>1. /\ TypeInv /\ GapReach /\ k \in Nat /\ Latest \in Nat /\ Latest' \in Nat
      /\ hub.stream \in Nat /\ gap.stream \in Int /\ gap.stream <= hub.stream
      /\ gap.until \in Int
  BY HoleParts, GapTypesAre
<1>2. gap.stream # NoStream
  BY <1>1 DEF GapReach
<1>3. ASSUME gap.stream = hub'.stream
      PROVE  /\ k <= Latest' /\ (Hubs' # {} => Met(k)')
             /\ phase # "gap" => NextBucket(k)' <= gap.until + 1
  <2>1. ~HubRestart
    BY <1>1, <1>3, GapTypesAre
  <2>2. hub'.stream = hub.stream
    BY <2>1, GapTypesAre
  <2>3. /\ k <= Latest /\ (Hubs # {} => Met(k))
        /\ phase # "gap" => NextBucket(k) <= gap.until + 1
    BY <1>1, <1>3, <2>2 DEF GapReach
  <2>4. k \in 0..Latest
    BY <1>1, <2>3
  <2>5. NextBucket(k)' = NextBucket(k) /\ Latest <= Latest'
    BY <2>1, <2>4, BucketStays
  <2>6. Hubs' = Hubs
    <3>1. ~IngestNew
      BY DEF IngestNew, Delivered, GapPhases
    <3> QED
      BY <1>1, <3>1, HubsNext
  <2> QED
    BY <1>1, <2>1, <2>3, <2>4, <2>5, <2>6, MetStays
<1> QED
  BY <1>2, <1>3

(* Up to the checkpoint's bucket nothing that is owed is missing.              *)
LEMMA CheckpointIsFull ==
  ASSUME HoleInv PROVE FullTo(ckpt.bucket + 1)
<1>1. TypeInv /\ HaveInv /\ OrderedInv /\ ckpt.bucket \in Int
  BY HoleParts, CursorsAre
<1> SUFFICES ASSUME NEW b \in Owed, b < ckpt.bucket + 1, b \notin Have PROVE FALSE
  BY DEF FullTo
<1>2. b \in Int /\ b >= 0
  BY PromisedIs, SelectedAssumption, BucketsAre DEF Owed, Buckets
<1>3. ckpt.bucket \in Have
  BY <1>1, <1>2 DEF HaveInv, Archived, Have
<1> QED
  BY <1>1, <1>2, <1>3 DEF OrderedInv

LEMMA BackfillFills ==
  ASSUME MaxEnds = 0, HoleInv, [Next]_vars, Backfill, NEW b \in Owed', b < gap.next + 1
  PROVE  b \in Have'
<1>1. TypeInv /\ SafeInv /\ StepInv /\ GapReach
  BY HoleParts
<1>2. b \in Owed /\ b \in Selected /\ b \in Int /\ gap.next \in Int
  BY <1>1, OwedShrinks, BucketsAre, SelectedAssumption, BackfillIs
<1>3. CASE b < gap.next
  <2>1. FullTo(gap.next)
    BY <1>1 DEF Backfill, GapReach, GapPhases
  <2> QED
    BY <1>1, <1>2, <1>3, <2>1, HaveGrows DEF FullTo
<1>4. CASE b = gap.next
  <2>1. BackfillBatch \in files' /\ b \in BackfillBatch.rows
    BY <1>1, <1>2, <1>4, BackfillIs DEF Backfill, Journal
  <2> QED
    BY <2>1 DEF Have
<1> QED
  BY <1>2, <1>3, <1>4

LEMMA GapReachStep ==
  ASSUME MaxEnds = 0, MaxLag = 0, HoleInv, [Next]_vars PROVE GapReach'
<1>1. /\ TypeInv /\ TypeInv' /\ StepInv /\ ChainInv /\ StreamInv /\ GapReach
      /\ gap \in Gaps /\ gap.next \in Int /\ gap.until \in Int
      /\ hub.stream \in Nat /\ hub.stream >= 1 /\ hub.next \in Int
  BY HoleParts, TypesStep, GapTypesAre
<1> SUFFICES ASSUME phase' \in GapPhases, NEW s, s = gap'.stream, NEW k, k = gap'.latest,
                    NEW n, n = gap'.next, NEW u, u = gap'.until
             PROVE  /\ s # NoStream
                    /\ s = hub'.stream => k <= Latest' /\ (Hubs' # {} => Met(k)')
                    /\ phase' = "backfill" => \A b \in Owed' : b < n => b \in Have'
                    /\ phase' \in {"drain", "switch"} =>
                         \A b \in Owed' : b < u + 1 => b \in Have'
                    /\ phase' # "gap" /\ s = hub'.stream => NextBucket(k)' <= u + 1
  BY DEF GapReach, FullTo
<1>2. CASE phase \notin GapPhases
  <2>1. ReplayUnavailable
    BY <1>1, <1>2, PhaseIs
  <2>2. /\ phase' = "gap" /\ s = hub.stream /\ k = Latest /\ hub' = hub
    BY <2>1 DEF ReplayUnavailable, NoGap, market
  <2>3. Hubs' = Hubs
    <3>1. ~IngestNew
      BY <2>1 DEF IngestNew, ReplayUnavailable
    <3> QED
      BY <1>1, <3>1, HubsNext
  <2>4. Latest' = Latest /\ NextBucket(k) = hub.next /\ NextBucket(k)' = NextBucket(k)
        /\ Latest \in Nat
    BY <1>1, <2>2, LogIs DEF Latest, NextBucket
  <2>5. Hubs' # {} => Met(k)'
    BY <1>1, <2>2, <2>3, <2>4 DEF Met, ChainInv
  <2> QED
    BY <1>1, <2>2, <2>4, <2>5 DEF NoStream
<1>3. CASE phase \in GapPhases
  <2>1. /\ gap.stream # NoStream
        /\ \A m : m = gap.latest /\ gap.stream = hub'.stream =>
             /\ m <= Latest' /\ (Hubs' # {} => Met(m)')
             /\ phase # "gap" => NextBucket(m)' <= gap.until + 1
    BY <1>3, GapStays
  <2>2. CASE PlanBackfill
    <3>1. /\ s = gap.stream /\ k = gap.latest /\ n = ckpt.bucket + 1 /\ u = pg
          /\ phase' = "backfill" /\ hub' = hub
      BY <1>1, <2>2 DEF PlanBackfill, Gaps, market
    <3>2. \A b \in Owed' : b < n => b \in Have'
      BY <3>1, CheckpointIsFull, FullStays
    <3>3. ASSUME s = hub'.stream PROVE NextBucket(k)' <= u + 1
      <4>1. k \in 0..Latest /\ hub.stream = gap.stream
        BY <1>1, <1>3, <3>1, <3>3, LogIs DEF GapReach, Gaps
      <4>2. NextBucket(k) <= hub.next /\ hub.next = u + 1
        BY <1>1, <3>1, <4>1, BucketBelow DEF ChainInv
      <4>3. NextBucket(k)' = NextBucket(k)
        BY <3>1 DEF NextBucket, Latest
      <4> QED
        BY <4>2, <4>3
    <3> QED
      BY <2>1, <3>1, <3>2, <3>3
  <2>3. CASE Backfill
    <3>1. /\ s = gap.stream /\ k = gap.latest /\ n = gap.next + 1 /\ u = gap.until
          /\ phase' = "backfill" /\ phase = "backfill"
      BY <1>1, <2>3 DEF Backfill, Gaps
    <3>2. \A b \in Owed' : b < n => b \in Have'
      BY <2>3, <3>1, BackfillFills
    <3> QED
      BY <2>1, <3>1, <3>2
  <2>4. CASE ~PlanBackfill /\ ~Backfill
    <3>1. ~ReplayUnavailable /\ "run" \notin GapPhases /\ "stopping" \notin GapPhases
          /\ "down" \notin GapPhases
      BY <1>3 DEF ReplayUnavailable, GapPhases
    <3>2. gap' = gap
      BY <1>1, <2>4, <3>1, GapFrom
    <3>3. /\ phase' \in {"drain", "switch"} => \A b \in Owed' : b < u + 1 => b \in Have'
          /\ phase' = "backfill" => \A b \in Owed' : b < n => b \in Have'
          /\ phase' # "gap" => phase # "gap"
      <4>1. CASE phase' = phase
        BY <1>1, <1>3, <3>2, <4>1, FullStays DEF GapReach
      <4>2. CASE Backfilled
        <5>1. phase' = "drain" /\ phase = "backfill" /\ FullTo(n) /\ n > u
          BY <1>1, <1>3, <3>2, <4>2 DEF Backfilled, GapReach
        <5>2. \A b \in Owed' : b \in Int
          BY OwedShrinks, BucketsAre, SelectedAssumption
        <5> QED
          BY <1>1, <3>2, <5>1, <5>2, FullStays
      <4>3. CASE SaveCheckpoint /\ job.all
        <5>1. phase = "drain" /\ phase' = "switch"
          BY <1>1, <1>3, <4>3, TypeInvIs
             DEF SaveCheckpoint, AfterFlush, FlushTyped, Flushing, GapPhases
        <5> QED
          BY <1>1, <1>3, <3>2, <5>1, FullStays DEF GapReach
      <4>4. phase' = phase \/ Backfilled \/ (SaveCheckpoint /\ job.all)
        <5>1. ~IngestPaused /\ ~Restart /\ ~ResumeFromHub
          BY <1>3, <3>1 DEF IngestPaused, Delivered, Restart, ResumeFromHub, GapPhases
        <5> QED
          BY <1>1, <2>4, <3>1, <5>1, NeverEnds, PhaseFrom
      <4> QED
        BY <4>1, <4>2, <4>3, <4>4
    <3> QED
      BY <2>1, <3>2, <3>3
  <2> QED
    BY <2>2, <2>3, <2>4
<1> QED
  BY <1>2, <1>3

-------------------------------------------------------------------------------
LEMMA HoleStarts == Init => HoleInv
<1> SUFFICES ASSUME Init PROVE HoleInv
  OBVIOUS
<1>1. SafeInv /\ StepInv /\ TypeInv
  BY SafeStarts, StepInvStarts, TypeStarts
<1>2. /\ hub.log = <<>> /\ hub.next = 0 /\ pg = -1 /\ hub.stream = 1 /\ Hubs = {}
      /\ Have = {} /\ Archived = {} /\ Unstaged = {}
  BY ElemsAre, IdleFields DEF Init, Hubs, HubsOf, Have, Archived, Unstaged
<1>3. Sequences = {}
  BY <1>2 DEF Sequences, Latest
<1>4. ChainInv
  BY <1>2, <1>3 DEF ChainInv
<1>5. HaveInv
  BY <1>2 DEF Init, HaveInv, NoBooks
<1>6. OrderedInv
  BY <1>2 DEF OrderedInv
<1>7. LinkInv /\ RunReach /\ GapReach
  BY DEF Init, LinkInv, RunReach, GapReach, GapPhases
<1>8. StreamInv
  BY <1>2 DEF Init, StreamInv, NoGap, NoStream
<1> QED
  BY <1>1, <1>4, <1>5, <1>6, <1>7, <1>8 DEF HoleInv

LEMMA HoleStep ==
  ASSUME MaxEnds = 0, MaxLag = 0, HoleInv, [Next]_vars PROVE HoleInv'
<1>1. SafeInv' /\ StepInv'
  BY HoleParts, SafeStep, StepInvStep
<1>2. ChainInv' /\ HaveInv' /\ OrderedInv' /\ LinkInv' /\ StreamInv'
  BY ChainStep, HaveStep, OrderedStep, LinkStep, StreamStep
<1>3. RunReach' /\ GapReach'
  BY RunReachStep, GapReachStep
<1> QED
  BY <1>1, <1>2, <1>3 DEF HoleInv

(* From the first batch on that the hub delivered, archive and journal have no *)
(* hole, whatever the hub lost, however often it restarted and whatever the    *)
(* selector kept: the replay of the hub and the backfill from the database     *)
(* (_recover_replay_gap) meet without leaving a bucket out.  Nothing ends the  *)
(* collector, and the database has what the hub published: with a database     *)
(* that is behind, or an end together with a new hub, holes do come.           *)
THEOREM NothingIsSkipped == ASSUME MaxEnds = 0, MaxLag = 0 PROVE Spec => []NoHoles
<1>1. Init => HoleInv
  BY HoleStarts
<1>2. HoleInv /\ [Next]_vars => HoleInv'
  BY HoleStep
<1>3. HoleInv => NoHoles
  BY HoleParts DEF OrderedInv, Owed, NoHoles, Promised, Hubs, HubsOf
<1> QED
  BY <1>1, <1>2, <1>3, PTL DEF Spec
===============================================================================
