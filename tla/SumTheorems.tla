------------------------------ MODULE SumTheorems ------------------------------
(* Facts about SumFunctionOnSet, the sum of a function over a finite set.      *)
(*                                                                             *)
(* The library defines the sum by recursion over the subsets of the set.  The  *)
(* facts are proved from a smallest counterexample: a finite set that has a    *)
(* bad subset has one all of whose smaller subsets are good.                   *)
EXTENDS Functions, FiniteSets, FiniteSetTheorems, WellFoundedInduction, TLAPS

(* A set of natural numbers that is not empty has a least element.             *)
LEMMA Least ==
  ASSUME NEW T, T \subseteq Nat, T # {}
  PROVE  \E m \in T : \A y \in T : m <= y
<1>1. PICK m \in T : \A y \in T : ~ (<<y, m>> \in OpToRel(<, Nat))
  BY WFMin, NatLessThanWellFounded
<1>2. \A y \in T : <<y, m>> \in Nat \X Nat
  OBVIOUS
<1>3. \A y \in T : ~ (y < m)
  BY <1>1, <1>2 DEF OpToRel
<1> QED
  BY <1>3

(* Bad subsets of a finite set include one that is good less any element.      *)
LEMMA Smallest ==
  ASSUME NEW U, IsFiniteSet(U), NEW Bad, Bad \subseteq SUBSET U, Bad # {}
  PROVE  \E s \in Bad : \A x \in s : s \ {x} \notin Bad
<1> DEFINE Sizes == {Cardinality(s) : s \in Bad}
<1>1. \A s \in SUBSET U : IsFiniteSet(s) /\ Cardinality(s) \in Nat
  BY FS_Subset, FS_CardinalityType
<1>2. Sizes \subseteq Nat /\ Sizes # {}
  BY <1>1
<1>3. PICK n \in Sizes : \A y \in Sizes : n <= y
  BY <1>2, Least
<1>4. PICK s \in Bad : Cardinality(s) = n
  OBVIOUS
<1>5. ASSUME NEW x \in s PROVE s \ {x} \notin Bad
  <2>1. Cardinality(s \ {x}) = n - 1
    BY <1>1, <1>4, FS_RemoveElement
  <2>2. ~ (n <= n - 1)
    BY <1>2
  <2> QED
    BY <1>3, <2>1, <2>2
<1> QED
  BY <1>5

-------------------------------------------------------------------------------
(* The equation the library's sum is the solution of.                          *)
Pick(s) == CHOOSE x \in s : TRUE
Solves(g, f, S) ==
  g = [s \in SUBSET S |-> IF s = {} THEN 0 ELSE f[Pick(s)] + g[s \ {Pick(s)}]]

LEMMA SumIsSolution ==
  ASSUME NEW f, NEW S
  PROVE  SumFunctionOnSet(f, S) = (CHOOSE g : Solves(g, f, S))[S]
BY DEF SumFunctionOnSet, FoldFunctionOnSet, MapThenFoldSet, Solves, Pick

(* It has a solution: one up to size n is extended to size n + 1.              *)
LEMMA SolutionExists ==
  ASSUME NEW f, NEW S, IsFiniteSet(S)
  PROVE  \E g : Solves(g, f, S)
<1> DEFINE UpTo(n) == {s \in SUBSET S : Cardinality(s) <= n}
           Step(g, s) == IF s = {} THEN 0 ELSE f[Pick(s)] + g[s \ {Pick(s)}]
           Good(n) == \E g : \A s \in UpTo(n) : g[s] = Step(g, s)
           Bad == {n \in Nat : ~ Good(n)}
<1>1. \A s \in SUBSET S : IsFiniteSet(s) /\ Cardinality(s) \in Nat
  BY FS_Subset, FS_CardinalityType
<1>2. \A s \in SUBSET S : s # {} => /\ Pick(s) \in s
                                    /\ Cardinality(s \ {Pick(s)}) = Cardinality(s) - 1
  BY <1>1, FS_RemoveElement DEF Pick
<1>3. Good(0)
  <2>1. \A s \in UpTo(0) : s = {}
    BY <1>1, FS_EmptySet
  <2>2. \A s \in UpTo(0) : [t \in {{}} |-> 0][s] = 0
    BY <2>1
  <2> QED
    BY <2>1, <2>2
<1>4. ASSUME NEW n \in Nat, Good(n) PROVE Good(n + 1)
  <2>1. PICK g : \A s \in UpTo(n) : g[s] = Step(g, s)
    BY <1>4
  <2> DEFINE h == [s \in UpTo(n + 1) |-> Step(g, s)]
  <2>2. ASSUME NEW s \in UpTo(n + 1), s # {} PROVE h[s] = f[Pick(s)] + h[s \ {Pick(s)}]
    <3>1. s \ {Pick(s)} \in UpTo(n) /\ s \ {Pick(s)} \in UpTo(n + 1)
      BY <1>1, <1>2, <2>2
    <3>2. h[s \ {Pick(s)}] = g[s \ {Pick(s)}]
      BY <2>1, <3>1
    <3>3. h[s] = f[Pick(s)] + g[s \ {Pick(s)}]
      BY <2>2
    <3> QED
      BY <3>2, <3>3
  <2>3. \A s \in UpTo(n + 1) : s = {} => h[s] = 0
    OBVIOUS
  <2>4. \A s \in UpTo(n + 1) : h[s] = Step(h, s)
    BY <2>2, <2>3
  <2> HIDE DEF h
  <2> QED
    BY <2>4
<1>5. Bad = {}
  <2>1. SUFFICES ASSUME Bad # {} PROVE FALSE
    OBVIOUS
  <2> HIDE DEF Good
  <2>2. PICK m \in Bad : \A y \in Bad : m <= y
    BY <2>1, Least
  <2>3. m # 0 /\ m \in Nat
    BY <1>3
  <2>4. m - 1 \in Nat /\ m - 1 \notin Bad
    BY <2>2, <2>3
  <2>5. Good((m - 1) + 1)
    BY <1>4, <2>4
  <2> QED
    BY <2>3, <2>5
<1>6. PICK g : \A s \in UpTo(Cardinality(S)) : g[s] = Step(g, s)
  BY <1>1, <1>5
<1>7. \A s \in SUBSET S : s \in UpTo(Cardinality(S))
  BY FS_Subset
<1> DEFINE h == [s \in SUBSET S |-> g[s]]
<1>8. \A s \in SUBSET S : h[s] = Step(h, s)
  <2>1. \A s \in SUBSET S : h[s] = Step(g, s)
    BY <1>6, <1>7
  <2>2. \A s \in SUBSET S : h[s \ {Pick(s)}] = g[s \ {Pick(s)}]
    OBVIOUS
  <2> QED
    BY <2>1, <2>2
<1>9. h = [s \in SUBSET S |-> Step(h, s)]
  BY <1>8
<1> HIDE DEF h
<1> QED
  BY <1>9 DEF Solves

LEMMA SolutionUnfolds ==
  ASSUME NEW f, NEW S, NEW g, Solves(g, f, S)
  PROVE  \A s \in SUBSET S :
           /\ s = {} => g[s] = 0
           /\ s # {} => Pick(s) \in s /\ g[s] = f[Pick(s)] + g[s \ {Pick(s)}]
<1> SUFFICES ASSUME NEW s \in SUBSET S
             PROVE  /\ s = {} => g[s] = 0
                    /\ s # {} => Pick(s) \in s /\ g[s] = f[Pick(s)] + g[s \ {Pick(s)}]
  OBVIOUS
<1>1. s # {} => Pick(s) \in s
  BY DEF Pick
<1>2. g[s] = IF s = {} THEN 0 ELSE f[Pick(s)] + g[s \ {Pick(s)}]
  BY DEF Solves
<1> QED
  BY <1>1, <1>2

(* Two functions that agree on s have the same sum there, whatever the sets    *)
(* the two sums are subsets of.                                                *)
LEMMA SolutionsAgree ==
  ASSUME NEW f, NEW S, NEW g, Solves(g, f, S),
         NEW e, NEW T, NEW h, Solves(h, e, T),
         NEW U, IsFiniteSet(U), U \subseteq S, U \subseteq T,
         \A x \in U : f[x] = e[x]
  PROVE  g[U] = h[U]
<1>u. \A s \in SUBSET S :
        /\ s = {} => g[s] = 0
        /\ s # {} => Pick(s) \in s /\ g[s] = f[Pick(s)] + g[s \ {Pick(s)}]
  BY SolutionUnfolds
<1>v. \A s \in SUBSET T :
        /\ s = {} => h[s] = 0
        /\ s # {} => Pick(s) \in s /\ h[s] = e[Pick(s)] + h[s \ {Pick(s)}]
  BY SolutionUnfolds
<1> DEFINE Bad == {s \in SUBSET U : g[s] # h[s]}
<1>1. SUFFICES ASSUME Bad # {} PROVE FALSE
  OBVIOUS
<1>2. PICK s \in Bad : \A x \in s : s \ {x} \notin Bad
  BY <1>1, Smallest
<1>3. s \in SUBSET S /\ s \in SUBSET T /\ s \in SUBSET U
  OBVIOUS
<1>4. CASE s = {}
  BY <1>3, <1>4, <1>u, <1>v
<1>5. CASE s # {}
  <2>1. Pick(s) \in s /\ g[s] = f[Pick(s)] + g[s \ {Pick(s)}]
    BY <1>3, <1>5, <1>u
  <2>2. h[s] = e[Pick(s)] + h[s \ {Pick(s)}]
    BY <1>3, <1>5, <1>v
  <2>3. g[s \ {Pick(s)}] = h[s \ {Pick(s)}]
    BY <1>2, <2>1
  <2>4. f[Pick(s)] = e[Pick(s)]
    BY <1>3, <2>1
  <2> QED
    BY <2>1, <2>2, <2>3, <2>4
<1> QED
  BY <1>4, <1>5

LEMMA SolutionInt ==
  ASSUME NEW f, NEW S, IsFiniteSet(S), NEW g, Solves(g, f, S),
         \A x \in S : f[x] \in Int
  PROVE  \A s \in SUBSET S : g[s] \in Int
<1>u. \A s \in SUBSET S :
        /\ s = {} => g[s] = 0
        /\ s # {} => Pick(s) \in s /\ g[s] = f[Pick(s)] + g[s \ {Pick(s)}]
  BY SolutionUnfolds
<1> DEFINE Bad == {s \in SUBSET S : g[s] \notin Int}
<1>1. SUFFICES ASSUME Bad # {} PROVE FALSE
  OBVIOUS
<1>2. PICK s \in Bad : \A x \in s : s \ {x} \notin Bad
  BY <1>1, Smallest
<1>3. CASE s = {}
  <2>1. g[s] = 0 /\ g[s] \notin Int
    BY <1>3, <1>u
  <2> QED
    BY <2>1
<1>4. CASE s # {}
  <2>1. Pick(s) \in s /\ g[s] = f[Pick(s)] + g[s \ {Pick(s)}]
    BY <1>4, <1>u
  <2> QED
    BY <1>2, <2>1
<1> QED
  BY <1>3, <1>4

(* Whichever element is taken out first, the sum is the same.                  *)
LEMMA SolutionRemoves ==
  ASSUME NEW f, NEW S, IsFiniteSet(S), NEW g, Solves(g, f, S),
         \A x \in S : f[x] \in Int
  PROVE  \A s \in SUBSET S : \A x \in s : g[s] = f[x] + g[s \ {x}]
<1>u. \A s \in SUBSET S :
        /\ s = {} => g[s] = 0
        /\ s # {} => Pick(s) \in s /\ g[s] = f[Pick(s)] + g[s \ {Pick(s)}]
  BY SolutionUnfolds
<1> DEFINE Bad == {s \in SUBSET S : ~ \A x \in s : g[s] = f[x] + g[s \ {x}]}
<1>1. SUFFICES ASSUME Bad # {} PROVE FALSE
  OBVIOUS
<1>2. PICK s \in Bad : \A x \in s : s \ {x} \notin Bad
  BY <1>1, Smallest
<1>3. PICK x \in s : g[s] # f[x] + g[s \ {x}]
  OBVIOUS
<1> DEFINE p == Pick(s)
<1>4. p \in s /\ g[s] = f[p] + g[s \ {p}]
  BY <1>u
<1>5. x # p
  BY <1>3, <1>4
<1>6. g[s \ {p}] = f[x] + g[(s \ {p}) \ {x}]
  BY <1>2, <1>4, <1>5
<1>7. g[s \ {x}] = f[p] + g[(s \ {x}) \ {p}]
  BY <1>2, <1>4, <1>5
<1>8. (s \ {p}) \ {x} = (s \ {x}) \ {p}
  OBVIOUS
<1>9. f[x] \in Int /\ f[p] \in Int /\ g[(s \ {x}) \ {p}] \in Int
  BY <1>4, SolutionInt
<1>10. \A a, b, c \in Int : a + (b + c) = b + (a + c)
  OBVIOUS
<1>11. f[p] + (f[x] + g[(s \ {x}) \ {p}]) = f[x] + (f[p] + g[(s \ {x}) \ {p}])
  BY <1>9, <1>10
<1> HIDE DEF p
<1> QED
  BY <1>3, <1>4, <1>6, <1>7, <1>8, <1>11

-------------------------------------------------------------------------------
(* What the sum itself gives.                                                  *)
LEMMA SumSolves ==
  ASSUME NEW f, NEW S, IsFiniteSet(S)
  PROVE  \E g : Solves(g, f, S) /\ SumFunctionOnSet(f, S) = g[S]
BY SolutionExists, SumIsSolution

LEMMA SumEmpty ==
  ASSUME NEW f
  PROVE  SumFunctionOnSet(f, {}) = 0
<1>1. IsFiniteSet({})
  BY FS_EmptySet
<1>2. PICK g : Solves(g, f, {}) /\ SumFunctionOnSet(f, {}) = g[{}]
  BY <1>1, SumSolves
<1>3. \A s \in SUBSET {} : s = {} => g[s] = 0
  BY <1>2, SolutionUnfolds
<1> QED
  BY <1>2, <1>3

LEMMA SumInt ==
  ASSUME NEW f, NEW S, IsFiniteSet(S), \A x \in S : f[x] \in Int
  PROVE  SumFunctionOnSet(f, S) \in Int
<1>1. PICK g : Solves(g, f, S) /\ SumFunctionOnSet(f, S) = g[S]
  BY SumSolves
<1> QED
  BY <1>1, SolutionInt

(* Functions that agree on a set have the same sum over it.                    *)
LEMMA SumSame ==
  ASSUME NEW f, NEW e, NEW S, IsFiniteSet(S), \A x \in S : f[x] = e[x]
  PROVE  SumFunctionOnSet(f, S) = SumFunctionOnSet(e, S)
<1>1. PICK g : Solves(g, f, S) /\ SumFunctionOnSet(f, S) = g[S]
  BY SumSolves
<1>2. PICK h : Solves(h, e, S) /\ SumFunctionOnSet(e, S) = h[S]
  BY SumSolves
<1>3. g[S] = h[S]
  BY <1>1, <1>2, SolutionsAgree
<1> QED
  BY <1>1, <1>2, <1>3

(* The sum over a set is one value and the sum over the rest.                  *)
LEMMA SumRemove ==
  ASSUME NEW f, NEW S, IsFiniteSet(S), \A x \in S : f[x] \in Int, NEW y \in S
  PROVE  SumFunctionOnSet(f, S) = f[y] + SumFunctionOnSet(f, S \ {y})
<1>1. IsFiniteSet(S \ {y})
  BY FS_Subset
<1>2. PICK g : Solves(g, f, S) /\ SumFunctionOnSet(f, S) = g[S]
  BY SumSolves
<1>3. PICK h : Solves(h, f, S \ {y}) /\ SumFunctionOnSet(f, S \ {y}) = h[S \ {y}]
  BY <1>1, SumSolves
<1>4. g[S] = f[y] + g[S \ {y}]
  BY <1>2, SolutionRemoves
<1>5. g[S \ {y}] = h[S \ {y}]
  BY <1>1, <1>2, <1>3, SolutionsAgree
<1> QED
  BY <1>2, <1>3, <1>4, <1>5

(* A sum in which one value changed.                                           *)
LEMMA SumChange ==
  ASSUME NEW f, NEW e, NEW S, IsFiniteSet(S), NEW y \in S,
         \A x \in S : f[x] \in Int /\ e[x] \in Int,
         \A x \in S \ {y} : e[x] = f[x]
  PROVE  SumFunctionOnSet(e, S) = SumFunctionOnSet(f, S) + (e[y] - f[y])
<1> DEFINE rest == SumFunctionOnSet(f, S \ {y})
<1>1. IsFiniteSet(S \ {y})
  BY FS_Subset
<1>2. rest \in Int
  BY <1>1, SumInt
<1>3. SumFunctionOnSet(e, S \ {y}) = rest
  BY <1>1, SumSame
<1>4. SumFunctionOnSet(e, S) = e[y] + rest
  BY <1>3, SumRemove
<1>5. SumFunctionOnSet(f, S) = f[y] + rest
  BY SumRemove
<1> HIDE DEF rest
<1> QED
  BY <1>2, <1>4, <1>5

(* Values that are nowhere larger add up to no more.                           *)
LEMMA SumMonotone ==
  ASSUME NEW f, NEW e, NEW S, IsFiniteSet(S),
         \A x \in S : f[x] \in Int /\ e[x] \in Int /\ f[x] <= e[x]
  PROVE  SumFunctionOnSet(f, S) <= SumFunctionOnSet(e, S)
<1> DEFINE Sf(s) == SumFunctionOnSet(f, s)
           Se(s) == SumFunctionOnSet(e, s)
           Bad == {s \in SUBSET S : ~ (Sf(s) <= Se(s))}
<1>1. SUFFICES ASSUME Bad # {} PROVE FALSE
  OBVIOUS
<1>2. PICK s \in Bad : \A x \in s : s \ {x} \notin Bad
  BY <1>1, Smallest
<1>3. \A r \in SUBSET S : IsFiniteSet(r)
  BY FS_Subset
<1>4. s # {}
  BY SumEmpty
<1>5. PICK x \in s : TRUE
  BY <1>4
<1>6. Sf(s) = f[x] + Sf(s \ {x}) /\ Se(s) = e[x] + Se(s \ {x})
  BY <1>3, SumRemove
<1>7. Sf(s \ {x}) \in Int /\ Se(s \ {x}) \in Int
  BY <1>3, SumInt
<1>8. Sf(s \ {x}) <= Se(s \ {x})
  BY <1>2, <1>5
<1>9. f[x] \in Int /\ e[x] \in Int /\ f[x] <= e[x] /\ ~ (Sf(s) <= Se(s))
  OBVIOUS
<1> HIDE DEF Sf, Se, Bad
<1> QED
  BY <1>6, <1>7, <1>8, <1>9

(* Values that are all zero add up to zero, and the sum of one is its value.   *)
LEMMA SumZero ==
  ASSUME NEW f, NEW S, IsFiniteSet(S), \A x \in S : f[x] = 0
  PROVE  SumFunctionOnSet(f, S) = 0
<1> DEFINE Bad == {s \in SUBSET S : SumFunctionOnSet(f, s) # 0}
<1>1. SUFFICES ASSUME Bad # {} PROVE FALSE
  OBVIOUS
<1>2. PICK s \in Bad : \A x \in s : s \ {x} \notin Bad
  BY <1>1, Smallest
<1>3. IsFiniteSet(s)
  BY FS_Subset
<1>4. s # {}
  BY SumEmpty
<1>5. PICK x \in s : TRUE
  BY <1>4
<1>6. SumFunctionOnSet(f, s) = f[x] + SumFunctionOnSet(f, s \ {x})
  BY <1>3, SumRemove
<1> QED
  BY <1>2, <1>5, <1>6

LEMMA SumNat ==
  ASSUME NEW f, NEW S, IsFiniteSet(S), \A x \in S : f[x] \in Nat
  PROVE  SumFunctionOnSet(f, S) \in Nat
<1> DEFINE z == [x \in S |-> 0]
<1>1. SumFunctionOnSet(z, S) = 0
  BY SumZero
<1>2. SumFunctionOnSet(z, S) <= SumFunctionOnSet(f, S)
  BY SumMonotone
<1>3. SumFunctionOnSet(f, S) \in Int
  BY SumInt
<1> QED
  BY <1>1, <1>2, <1>3

(* The sum with one element taken out, be it there or not.                     *)
LEMMA SumSplit ==
  ASSUME NEW f, NEW S, IsFiniteSet(S), \A x \in S : f[x] \in Int, NEW y
  PROVE  SumFunctionOnSet(f, S) =
           (IF y \in S THEN f[y] ELSE 0) + SumFunctionOnSet(f, S \ {y})
<1>1. CASE y \in S
  BY <1>1, SumRemove
<1>2. CASE y \notin S
  <2>1. S \ {y} = S
    BY <1>2
  <2>2. SumFunctionOnSet(f, S) \in Int /\ \A n \in Int : n = 0 + n
    BY SumInt
  <2>3. SumFunctionOnSet(f, S) = 0 + SumFunctionOnSet(f, S \ {y})
    BY <2>1, <2>2
  <2> QED
    BY <1>2, <2>3
<1> QED
  BY <1>1, <1>2

(* Only the elements whose value is not zero count.                            *)
LEMMA SumSupport ==
  ASSUME NEW f, NEW S, IsFiniteSet(S), \A x \in S : f[x] \in Int,
         NEW T, T \subseteq S, \A x \in S \ T : f[x] = 0
  PROVE  SumFunctionOnSet(f, S) = SumFunctionOnSet(f, T)
<1> DEFINE All(s) == SumFunctionOnSet(f, s)
           Some(s) == SumFunctionOnSet(f, s \cap T)
           Bad == {s \in SUBSET S : All(s) # Some(s)}
<1>1. SUFFICES ASSUME Bad # {} PROVE FALSE
  <2>1. S \in SUBSET S /\ S \cap T = T
    OBVIOUS
  <2> QED
    BY <2>1
<1>2. PICK s \in Bad : \A x \in s : s \ {x} \notin Bad
  BY <1>1, Smallest
<1>3. \A r \in SUBSET S : IsFiniteSet(r)
  BY FS_Subset
<1>4. s # {}
  <2>1. {} \cap T = {}
    OBVIOUS
  <2> QED
    BY <2>1
<1>5. PICK x \in s : TRUE
  BY <1>4
<1>6. All(s) = f[x] + All(s \ {x}) /\ All(s \ {x}) \in Int
  BY <1>3, SumRemove, SumInt
<1>7. All(s \ {x}) = Some(s \ {x})
  BY <1>2, <1>5
<1>8. CASE x \in T
  <2>1. s \cap T \in SUBSET S /\ x \in s \cap T /\ (s \cap T) \ {x} = (s \ {x}) \cap T
    BY <1>8
  <2>2. Some(s) = f[x] + SumFunctionOnSet(f, (s \cap T) \ {x})
    BY <1>3, <2>1, SumRemove
  <2> QED
    BY <1>6, <1>7, <2>1, <2>2
<1>9. CASE x \notin T
  <2>1. s \cap T = (s \ {x}) \cap T /\ f[x] = 0 /\ \A n \in Int : n = 0 + n
    BY <1>9
  <2>2. All(s) = All(s \ {x})
    BY <1>6, <2>1
  <2>3. Some(s) = Some(s \ {x})
    BY <2>1
  <2>4. All(s) # Some(s)
    OBVIOUS
  <2> QED
    BY <1>7, <2>2, <2>3, <2>4
<1> QED
  BY <1>8, <1>9

(* The sum of sums, value by value.                                            *)
LEMMA SumPlus ==
  ASSUME NEW f, NEW e, NEW g, NEW S, IsFiniteSet(S),
         \A x \in S : f[x] \in Int /\ e[x] \in Int /\ g[x] = f[x] + e[x]
  PROVE  SumFunctionOnSet(g, S) = SumFunctionOnSet(f, S) + SumFunctionOnSet(e, S)
<1> DEFINE Sf(s) == SumFunctionOnSet(f, s)
           Se(s) == SumFunctionOnSet(e, s)
           Sg(s) == SumFunctionOnSet(g, s)
           Bad == {s \in SUBSET S : Sg(s) # Sf(s) + Se(s)}
<1>1. SUFFICES ASSUME Bad # {} PROVE FALSE
  OBVIOUS
<1>2. PICK s \in Bad : \A x \in s : s \ {x} \notin Bad
  BY <1>1, Smallest
<1>3. \A r \in SUBSET S : IsFiniteSet(r)
  BY FS_Subset
<1>4. s # {}
  <2>1. Sf({}) = 0 /\ Se({}) = 0 /\ Sg({}) = 0
    BY SumEmpty
  <2>2. 0 = 0 + 0 /\ Sg(s) # Sf(s) + Se(s)
    OBVIOUS
  <2> QED
    BY <2>1, <2>2
<1>5. PICK x \in s : TRUE
  BY <1>4
<1>6. \A y \in s : f[y] \in Int /\ e[y] \in Int /\ g[y] \in Int
  OBVIOUS
<1>7. /\ Sf(s) = f[x] + Sf(s \ {x})
      /\ Se(s) = e[x] + Se(s \ {x})
      /\ Sg(s) = g[x] + Sg(s \ {x})
  BY <1>3, <1>6, SumRemove
<1>8. Sf(s \ {x}) \in Int /\ Se(s \ {x}) \in Int
  BY <1>3, SumInt
<1>9. Sg(s \ {x}) = Sf(s \ {x}) + Se(s \ {x})
  BY <1>2, <1>5
<1>10. f[x] \in Int /\ e[x] \in Int /\ g[x] = f[x] + e[x] /\ Sg(s) # Sf(s) + Se(s)
  OBVIOUS
<1> HIDE DEF Sf, Se, Sg, Bad
<1> QED
  BY <1>7, <1>8, <1>9, <1>10

LEMMA SumSingle ==
  ASSUME NEW f, NEW y, f[y] \in Int
  PROVE  SumFunctionOnSet(f, {y}) = f[y]
<1>1. IsFiniteSet({y}) /\ y \in {y} /\ {y} \ {y} = {}
  BY FS_Singleton
<1>2. SumFunctionOnSet(f, {y}) = f[y] + SumFunctionOnSet(f, {y} \ {y})
  BY <1>1, SumRemove
<1> QED
  BY <1>1, <1>2, SumEmpty

(* The sum over two sets that share nothing.                                   *)
LEMMA SumUnion ==
  ASSUME NEW f, NEW S, NEW T, IsFiniteSet(S), IsFiniteSet(T), S \cap T = {},
         \A x \in S \cup T : f[x] \in Int
  PROVE  SumFunctionOnSet(f, S \cup T) = SumFunctionOnSet(f, S) + SumFunctionOnSet(f, T)
<1> DEFINE Both(s) == SumFunctionOnSet(f, S \cup s)
           One(s) == SumFunctionOnSet(f, s)
           Bad == {s \in SUBSET T : Both(s) # One(S) + One(s)}
<1>1. SUFFICES ASSUME Bad # {} PROVE FALSE
  OBVIOUS
<1>2. PICK s \in Bad : \A x \in s : s \ {x} \notin Bad
  BY <1>1, Smallest
<1>3. \A r \in SUBSET T : IsFiniteSet(r) /\ IsFiniteSet(S \cup r)
  BY FS_Subset, FS_Union
<1>4. One(S) \in Int /\ \A r \in SUBSET T : One(r) \in Int
  BY <1>3, SumInt
<1>5. s # {}
  <2>1. One({}) = 0 /\ S \cup {} = S
    BY SumEmpty
  <2>2. \A n \in Int : n = n + 0
    OBVIOUS
  <2>3. Both({}) = One(S) + One({})
    BY <1>4, <2>1, <2>2
  <2> QED
    BY <2>3
<1>6. PICK x \in s : TRUE
  BY <1>5
<1>7. x \in S \cup s /\ (S \cup s) \ {x} = S \cup (s \ {x})
  OBVIOUS
<1>8. Both(s) = f[x] + Both(s \ {x})
  BY <1>3, <1>7, SumRemove
<1>9. One(s) = f[x] + One(s \ {x})
  BY <1>3, SumRemove
<1>10. Both(s \ {x}) = One(S) + One(s \ {x})
  BY <1>2, <1>6
<1>11. f[x] \in Int /\ One(s \ {x}) \in Int /\ Both(s) # One(S) + One(s)
  BY <1>4
<1> HIDE DEF Both, One, Bad
<1>12. \A a, b, c \in Int : a + (b + c) = b + (a + c)
  OBVIOUS
<1> QED
  BY <1>4, <1>8, <1>9, <1>10, <1>11, <1>12

(* A sum does not depend on where its values stand.                            *)
LEMMA SumMoved ==
  ASSUME NEW f, NEW e, NEW h, NEW S, IsFiniteSet(S),
         \A x \in S : f[x] \in Int /\ e[h[x]] = f[x],
         \A x, y \in S : h[x] = h[y] => x = y,
         NEW T, T = {h[x] : x \in S}
  PROVE  SumFunctionOnSet(e, T) = SumFunctionOnSet(f, S)
<1> DEFINE At(s) == {h[x] : x \in s}
           Old(s) == SumFunctionOnSet(f, s)
           Moved(s) == SumFunctionOnSet(e, At(s))
           Bad == {s \in SUBSET S : Moved(s) # Old(s)}
<1>1. SUFFICES ASSUME Bad # {} PROVE FALSE
  OBVIOUS
<1>2. PICK s \in Bad : \A x \in s : s \ {x} \notin Bad
  BY <1>1, Smallest
<1>3. \A r \in SUBSET S : IsFiniteSet(r) /\ IsFiniteSet(At(r))
  <2>1. \A r \in SUBSET S : IsFiniteSet(r)
    BY FS_Subset
  <2>2. ASSUME NEW r \in SUBSET S PROVE IsFiniteSet(At(r))
    <3>1. [x \in r |-> h[x]] \in Surjection(r, At(r))
      BY DEF Surjection
    <3> QED
      BY <2>1, <3>1, FS_Surjection
  <2> QED
    BY <2>1, <2>2
<1>4. s # {}
  <2>1. At({}) = {} /\ Old({}) = 0 /\ SumFunctionOnSet(e, {}) = 0
    BY SumEmpty
  <2>2. Moved({}) = Old({})
    BY <2>1
  <2> QED
    BY <2>2
<1>5. PICK x \in s : TRUE
  BY <1>4
<1>6. h[x] \in At(s) /\ At(s) \ {h[x]} = At(s \ {x})
  OBVIOUS
<1>7. \A y \in At(s) : e[y] \in Int
  OBVIOUS
<1>8. Moved(s) = e[h[x]] + Moved(s \ {x})
  BY <1>3, <1>6, <1>7, SumRemove
<1>9. Old(s) = f[x] + Old(s \ {x})
  BY <1>3, SumRemove
<1>10. Moved(s \ {x}) = Old(s \ {x})
  BY <1>2, <1>5
<1>11. e[h[x]] = f[x] /\ Moved(s) # Old(s)
  OBVIOUS
<1> HIDE DEF Moved, Old, Bad
<1> QED
  BY <1>8, <1>9, <1>10, <1>11

(* One run of values behind another.                                           *)
Joins(e, f, m, g, n) ==
  /\ \A i \in 1..m : f[i] \in Int /\ e[i] = f[i]
  /\ \A i \in 1..n : g[i] \in Int /\ e[m + i] = g[i]

LEMMA SumConcat ==
  ASSUME NEW m \in Nat, NEW n \in Nat, NEW e, NEW f, NEW g, Joins(e, f, m, g, n)
  PROVE  SumFunctionOnSet(e, 1..(m + n)) =
           SumFunctionOnSet(f, 1..m) + SumFunctionOnSet(g, 1..n)
<1> DEFINE h == [i \in 1..n |-> m + i]
           Back == {h[i] : i \in 1..n}
<1>j. /\ \A i \in 1..m : f[i] \in Int /\ e[i] = f[i]
      /\ \A i \in 1..n : g[i] \in Int /\ e[m + i] = g[i]
  BY DEF Joins
<1>1. IsFiniteSet(1..m) /\ IsFiniteSet(1..n)
  BY FS_Interval
<1>2. /\ \A i \in 1..n : g[i] \in Int /\ e[h[i]] = g[i]
      /\ \A i, j \in 1..n : h[i] = h[j] => i = j
  BY <1>j
<1>3. SumFunctionOnSet(e, Back) = SumFunctionOnSet(g, 1..n)
  <2> HIDE DEF h
  <2> DEFINE D == 1..n
  <2>1. /\ IsFiniteSet(D) /\ Back = {h[i] : i \in D}
        /\ \A i \in D : g[i] \in Int /\ e[h[i]] = g[i]
        /\ \A i, j \in D : h[i] = h[j] => i = j
    BY <1>1, <1>2
  <2> HIDE DEF D, Back
  <2>2. SumFunctionOnSet(e, Back) = SumFunctionOnSet(g, D)
    BY <2>1, SumMoved
  <2> QED BY <2>2 DEF D
<1>4. Back = (m + 1)..(m + n)
  <2>1. ASSUME NEW y \in (m + 1)..(m + n) PROVE y \in Back
    <3>1. y - m \in 1..n /\ h[y - m] = y
      OBVIOUS
    <3> QED BY <3>1
  <2> QED BY <2>1
<1>5. SumFunctionOnSet(e, 1..m) = SumFunctionOnSet(f, 1..m)
  BY <1>1, <1>j, SumSame
<1>6. /\ 1..m \cap Back = {} /\ 1..m \cup Back = 1..(m + n)
      /\ IsFiniteSet(Back)
  <2> HIDE DEF Back
  <2>1. m + 1 \in Int /\ m + n \in Int
    OBVIOUS
  <2>2. IsFiniteSet(Back)
    BY <1>4, <2>1, FS_Interval
  <2>3. 1..m \cap Back = {} /\ 1..m \cup Back = 1..(m + n)
    BY <1>4
  <2> QED BY <2>2, <2>3
<1>7. \A i \in 1..m \cup Back : e[i] \in Int
  BY <1>2, <1>j
<1> HIDE DEF Back, h
<1>8. SumFunctionOnSet(e, 1..m \cup Back) = SumFunctionOnSet(e, 1..m) + SumFunctionOnSet(e, Back)
  BY <1>1, <1>6, <1>7, SumUnion
<1> QED
  BY <1>3, <1>5, <1>6, <1>8

(* A sum of natural numbers is no less than any of them.                       *)
LEMMA SumMember ==
  ASSUME NEW f, NEW S, IsFiniteSet(S), \A x \in S : f[x] \in Nat, NEW y \in S
  PROVE  f[y] <= SumFunctionOnSet(f, S)
<1>1. IsFiniteSet(S \ {y})
  BY FS_Subset
<1>2. SumFunctionOnSet(f, S \ {y}) \in Nat
  BY <1>1, SumNat
<1>3. SumFunctionOnSet(f, S) = f[y] + SumFunctionOnSet(f, S \ {y})
  BY SumRemove
<1>4. f[y] \in Nat /\ \A a, b \in Nat : a <= a + b
  OBVIOUS
<1> QED
  BY <1>2, <1>3, <1>4
===============================================================================
