------------------------------ MODULE SetSums ------------------------------
(***************************************************************************)
(* Facts about sums over finite sets, MapThenSumSet of FiniteSetsExt.      *)
(*                                                                         *)
(* MapThenSumSet is a recursive function on the subsets of the set, which  *)
(* is the CHOOSE of its defining equation: a function with that equation   *)
(* must be shown to exist.  In place of an induction, a set of             *)
(* counterexamples has a smallest element (WFMin), which is none.          *)
(***************************************************************************)
EXTENDS Integers, FiniteSets, FiniteSetsExt, FiniteSetTheorems, WellFoundedInduction, TLAPS

(* The sum of c over T, as the modules write it.                             *)
Total(c, T) == MapThenSumSet(LAMBDA x : c[x], T)

(* x is taken out of a set by the CHOOSE of MapThenSumSet. *)
First(u) == CHOOSE x \in u : TRUE

(* g sums c over every subset of S of at most n elements. *)
SumsUpTo(g, c, S, n) ==
  \A u \in SUBSET S : Cardinality(u) <= n =>
    g[u] = IF u = {} THEN 0 ELSE c[First(u)] + g[u \ {First(u)}]

(* It is an element.                                                        *)
LEMMA FirstIn ==
  ASSUME NEW u, u # {}
  PROVE  First(u) \in u
  BY DEF First

(* Among sets of subsets of a finite set there is a smallest one: the        *)
(* induction principle of this module.                                      *)
LEMMA MinimalSubset ==
  ASSUME NEW S, IsFiniteSet(S), NEW T, T \subseteq SUBSET S, T # {}
  PROVE  \E u \in T : \A v \in T : v \subseteq u => v = u
  <1>1. IsWellFoundedOn(StrictSubsetOrdering(S), SUBSET S)
    BY FS_StrictSubsetOrderingWellFounded, FS_FiniteSubsetsOfFinite
  <1>2. PICK u \in T : \A v \in T : <<v, u>> \notin StrictSubsetOrdering(S)
    BY <1>1, WFMin
  <1>3. QED
    BY <1>2 DEF StrictSubsetOrdering

(* A function that sums up to n elements gives one that sums one more.      *)
LEMMA SumStep ==
  ASSUME NEW S, IsFiniteSet(S), NEW c, \A x \in S : c[x] \in Int, NEW n \in Nat,
         NEW g \in [SUBSET S -> Int], SumsUpTo(g, c, S, n)
  PROVE  \E h \in [SUBSET S -> Int] : SumsUpTo(h, c, S, n + 1)
  <1> DEFINE h == [u \in SUBSET S |-> IF u = {} THEN 0 ELSE c[First(u)] + g[u \ {First(u)}]]
  <1>1. ASSUME NEW u \in SUBSET S, u # {}
        PROVE  /\ First(u) \in S /\ u \ {First(u)} \in SUBSET S
               /\ IsFiniteSet(u) 
               /\ Cardinality(u \ {First(u)}) = Cardinality(u) - 1
               /\ Cardinality(u) \in Nat
    BY <1>1, FirstIn, FS_RemoveElement, FS_Subset, FS_CardinalityType
  <1>2. h \in [SUBSET S -> Int]
    <2>1. ASSUME NEW u \in SUBSET S, u # {} PROVE c[First(u)] + g[u \ {First(u)}] \in Int
      <3>1. c[First(u)] \in Int /\ g[u \ {First(u)}] \in Int
        BY <1>1, <2>1
      <3>2. QED
        BY <3>1
    <2>2. QED
      BY <2>1
  <1>3. ASSUME NEW u \in SUBSET S, Cardinality(u) <= n + 1
        PROVE  h[u] = IF u = {} THEN 0 ELSE c[First(u)] + h[u \ {First(u)}]
    <2>1. CASE u = {}
      BY <2>1
    <2>2. CASE u # {}
      <3> DEFINE v == u \ {First(u)}
      <3>1. v \in SUBSET S /\ Cardinality(v) <= n
        <4>1. v \in SUBSET S /\ Cardinality(v) = Cardinality(u) - 1 /\ Cardinality(u) \in Nat
          BY <1>1, <2>2
        <4>2. QED
          BY <1>3, <4>1
      <3>2. g[v] = IF v = {} THEN 0 ELSE c[First(v)] + g[v \ {First(v)}]
        BY <3>1 DEF SumsUpTo
      <3>3. h[v] = g[v]
        BY <3>1, <3>2
      <3>4. QED
        BY <2>2, <3>3
    <2>3. QED
      BY <2>1, <2>2
  <1>4. SumsUpTo(h, c, S, n + 1)
    BY <1>3 DEF SumsUpTo
  <1>5. QED
    BY <1>2, <1>4

(* So there is one for every n.                                             *)
LEMMA SumExistsUpTo ==
  ASSUME NEW S, IsFiniteSet(S), NEW c, \A x \in S : c[x] \in Int, NEW n \in Nat
  PROVE  \E g \in [SUBSET S -> Int] : SumsUpTo(g, c, S, n)
  <1> DEFINE Bad == {k \in Nat : ~ \E g \in [SUBSET S -> Int] : SumsUpTo(g, c, S, k)}
  <1>0. SUFFICES ASSUME Bad # {} PROVE FALSE
    OBVIOUS
  <1>1. PICK k \in Bad : \A j \in Bad : <<j, k>> \notin OpToRel(<, Nat)
    BY <1>0, NatLessThanWellFounded, WFMin
  <1>2. k # 0
    <2>1. SUFFICES ASSUME k = 0 PROVE FALSE
      OBVIOUS
    <2> DEFINE z == [u \in SUBSET S |-> 0]
    <2>2. z \in [SUBSET S -> Int]
      OBVIOUS
    <2>3. SumsUpTo(z, c, S, 0)
      <3>1. ASSUME NEW u \in SUBSET S, Cardinality(u) <= 0 PROVE u = {}
        BY <3>1, FS_Subset, FS_EmptySet, FS_CardinalityType
      <3>2. QED
        BY <3>1 DEF SumsUpTo
    <2>4. QED
      BY <2>1, <2>2, <2>3
  <1>3. k - 1 \in Nat /\ k - 1 \notin Bad
    <2>1. k \in Nat /\ k - 1 \in Nat /\ k - 1 < k
      BY <1>2
    <2>2. <<k - 1, k>> \in OpToRel(<, Nat)
      BY <2>1 DEF OpToRel
    <2>3. QED
      BY <1>1, <2>1, <2>2
  <1>4. PICK g \in [SUBSET S -> Int] : SumsUpTo(g, c, S, k - 1)
    BY <1>3
  <1>5. \E h \in [SUBSET S -> Int] : SumsUpTo(h, c, S, k)
    <2>1. k = (k - 1) + 1
      OBVIOUS
    <2>2. \E h \in [SUBSET S -> Int] : SumsUpTo(h, c, S, (k - 1) + 1)
      BY <1>3, <1>4, SumStep
    <2>3. QED
      BY <2>1, <2>2
  <1>6. QED
    BY <1>5

(* MapThenSumSet over a finite set is what a function with its recursion     *)
(* says of the set.                                                         *)
LEMMA SumUnfold ==
  ASSUME NEW S, IsFiniteSet(S), NEW c, \A x \in S : c[x] \in Int,
         NEW g, \A u \in SUBSET S :
           g[u] = IF u = {} THEN 0 ELSE c[First(u)] + g[u \ {First(u)}]
  PROVE  Total(c, S) = g[S]
  <1> DEFINE E(h) == h = [u \in SUBSET S |->
                IF u = {} THEN 0
                ELSE LET x == CHOOSE x \in u : TRUE IN c[x] + h[u \ {x}]]
             G == [u \in SUBSET S |-> g[u]]
             m == CHOOSE h : E(h)
  <1>1. E(G)
    <2>1. ASSUME NEW u \in SUBSET S, u # {}
          PROVE  G[u] = c[First(u)] + G[u \ {First(u)}]
      <3>1. u \ {First(u)} \in SUBSET S
        OBVIOUS
      <3>2. QED
        BY <2>1, <3>1
    <2>2. QED
      BY <2>1 DEF First
  <1>2. E(m)
    <2> HIDE DEF E
    <2> QED BY <1>1
  <1>3. Total(c, S) = m[S]
    BY Zenon DEF Total, MapThenSumSet, MapThenFoldSet
  <1>4. ASSUME NEW u \in SUBSET S
        PROVE  m[u] = IF u = {} THEN 0 ELSE c[First(u)] + m[u \ {First(u)}]
    <2> HIDE DEF m
    <2> QED BY <1>2 DEF First
  <1> HIDE DEF m, E, G
  <1> DEFINE Bad == {u \in SUBSET S : m[u] # g[u]}
  <1>5. SUFFICES ASSUME Bad # {} PROVE FALSE
    BY <1>3
  <1>6. PICK u \in Bad : \A v \in Bad : v \subseteq u => v = u
    <2>1. Bad \subseteq SUBSET S
      OBVIOUS
    <2> HIDE DEF Bad
    <2> QED BY <1>5, <2>1, MinimalSubset
  <1>7. u # {}
    BY <1>4
  <1>8. u \ {First(u)} \notin Bad
    BY <1>6, <1>7, FirstIn
  <1>9. QED
    BY <1>4, <1>7, <1>8

(* g is the sum of c over the subsets of S, in any order.                   *)
IsSum(g, c, S) ==
  /\ g \in [SUBSET S -> Int]
  /\ g[{}] = 0
  /\ \A u \in SUBSET S : \A x \in u : g[u] = c[x] + g[u \ {x}]

(* The sum over the subsets of a finite set.                                *)
THEOREM SumOverSet ==
  ASSUME NEW S, IsFiniteSet(S), NEW c, \A x \in S : c[x] \in Int
  PROVE  \E g : IsSum(g, c, S)
                /\ \A T \in SUBSET S : Total(c, T) = g[T]
  <1>1. PICK g \in [SUBSET S -> Int] : SumsUpTo(g, c, S, Cardinality(S))
    BY SumExistsUpTo, FS_CardinalityType
  <1>2. ASSUME NEW u \in SUBSET S
        PROVE  g[u] = IF u = {} THEN 0 ELSE c[First(u)] + g[u \ {First(u)}]
    BY <1>1, FS_Subset DEF SumsUpTo
  <1>3. ASSUME NEW T \in SUBSET S
        PROVE  Total(c, T) = g[T]
    <2>1. IsFiniteSet(T) /\ \A x \in T : c[x] \in Int
      BY FS_Subset
    <2>2. \A u \in SUBSET T :
            g[u] = IF u = {} THEN 0 ELSE c[First(u)] + g[u \ {First(u)}]
      BY <1>2
    <2>3. QED
      BY <2>1, <2>2, SumUnfold
  <1>4. \A u \in SUBSET S : \A x \in u : g[u] = c[x] + g[u \ {x}]
    <2> DEFINE Bad == {u \in SUBSET S : ~ \A x \in u : g[u] = c[x] + g[u \ {x}]}
    <2>1. SUFFICES ASSUME Bad # {} PROVE FALSE
      OBVIOUS
    <2>2. PICK u \in Bad : \A v \in Bad : v \subseteq u => v = u
      <3>1. Bad \subseteq SUBSET S
        OBVIOUS
      <3> HIDE DEF Bad
      <3> QED BY <2>1, <3>1, MinimalSubset
    <2>3. PICK y \in u : g[u] # c[y] + g[u \ {y}]
      OBVIOUS
    <2> DEFINE x == First(u)
    <2>4. x \in u /\ g[u] = c[x] + g[u \ {x}]
      BY <1>2, <2>3, FirstIn
    <2> HIDE DEF x
    <2>5. x # y
      BY <2>3, <2>4
    <2>6. g[u \ {x}] = c[y] + g[(u \ {x}) \ {y}]
      <3>1. u \ {x} \in SUBSET S /\ u \ {x} # u /\ y \in u \ {x}
        BY <2>4, <2>5
      <3>2. u \ {x} \notin Bad
        BY <2>2, <3>1
      <3> QED BY <3>1, <3>2
    <2>7. g[u \ {y}] = c[x] + g[(u \ {y}) \ {x}]
      <3>1. u \ {y} \in SUBSET S /\ u \ {y} # u /\ x \in u \ {y}
        BY <2>4, <2>5
      <3>2. u \ {y} \notin Bad
        BY <2>2, <3>1
      <3> QED BY <3>1, <3>2
    <2>8. (u \ {x}) \ {y} = (u \ {y}) \ {x}
      OBVIOUS
    <2>9. /\ c[x] \in Int /\ c[y] \in Int
          /\ g[(u \ {y}) \ {x}] \in Int
      <3>1. x \in S /\ y \in S /\ (u \ {y}) \ {x} \in SUBSET S
        BY <2>4
      <3>2. QED
        BY <3>1
    <2> DEFINE rest == g[(u \ {y}) \ {x}]
    <2>10. g[u] = c[x] + (c[y] + rest) /\ g[u \ {y}] = c[x] + rest
      BY <2>4, <2>6, <2>7, <2>8
    <2>11. c[x] + (c[y] + rest) = c[y] + (c[x] + rest)
      <3> HIDE DEF rest
      <3> QED BY <2>9 DEF rest
    <2>12. QED
      BY <2>3, <2>10, <2>11
  <1>5. g[{}] = 0
    BY <1>2
  <1>6. QED
    BY <1>3, <1>4, <1>5 DEF IsSum

(* The sum of integers over a finite set is an integer, 0 for the empty     *)
(* set, and grows by the element that is added.                             *)
THEOREM TotalProperties ==
  ASSUME NEW T, IsFiniteSet(T), NEW c, \A x \in T : c[x] \in Int
  PROVE  /\ Total(c, T) \in Int
         /\ Total(c, {}) = 0
         /\ \A x \in T : Total(c, T \ {x}) \in Int /\ Total(c, T) = c[x] + Total(c, T \ {x})
  <1>1. PICK g : IsSum(g, c, T)
                 /\ \A U \in SUBSET T : Total(c, U) = g[U]
    BY SumOverSet
  <1>2. QED
    BY <1>1 DEF IsSum

(* The same with every set below a finite one.                              *)
LEMMA TotalOfSubset ==
  ASSUME NEW T, IsFiniteSet(T), NEW c, \A x \in T : c[x] \in Int, NEW U \in SUBSET T
  PROVE  /\ Total(c, U) \in Int
         /\ Total(c, {}) = 0
         /\ \A x \in U : Total(c, U \ {x}) \in Int /\ Total(c, U) = c[x] + Total(c, U \ {x})
  <1>1. IsFiniteSet(U) /\ \A x \in U : c[x] \in Int
    BY FS_Subset
  <1>2. QED
    BY <1>1, TotalProperties

(* A larger sum: of more elements, none of them negative or smaller.        *)
THEOREM TotalMonotone ==
  ASSUME NEW T, IsFiniteSet(T), NEW U \in SUBSET T,
         NEW c, \A x \in T : c[x] \in Nat,
         NEW d, \A x \in U : d[x] \in Int /\ d[x] <= c[x]
  PROVE  Total(d, U) <= Total(c, T)
  <1> DEFINE Bad == {V \in SUBSET T : ~ (Total(d, U \intersect V) <= Total(c, V))}
  <1>1. SUFFICES ASSUME Bad # {} PROVE FALSE
    <2>1. T \notin Bad /\ U \intersect T = U
      BY <1>1
    <2>2. QED
      BY <2>1
  <1>2. PICK V \in Bad : \A W \in Bad : W \subseteq V => W = V
    <2>1. Bad \subseteq SUBSET T
      OBVIOUS
    <2> HIDE DEF Bad
    <2> QED BY <1>1, <2>1, MinimalSubset
  <1>3. \A x \in T : c[x] \in Int
    OBVIOUS
  <1>4. IsFiniteSet(U)
    BY FS_Subset
  <1>5. V # {}
    <2>1. U \intersect {} = {} /\ Total(c, {}) = 0 /\ Total(d, {}) = 0
      BY <1>3, <1>4, TotalProperties
    <2>2. QED
      BY <2>1
  <1>6. PICK x \in V : TRUE
    BY <1>5
  <1>7. V \ {x} \notin Bad /\ V \ {x} \in SUBSET T
    BY <1>2, <1>6
  <1>8. Total(d, U \intersect (V \ {x})) <= Total(c, V \ {x})
    BY <1>7
  <1>9. /\ Total(c, V) = c[x] + Total(c, V \ {x}) /\ Total(c, V \ {x}) \in Int /\ c[x] \in Nat
    BY <1>3, <1>6, TotalOfSubset
  <1>10. CASE x \in U
    <2>1. /\ U \intersect V \in SUBSET U /\ x \in U \intersect V
          /\ (U \intersect V) \ {x} = U \intersect (V \ {x})
      BY <1>6, <1>10
    <2>2. /\ Total(d, U \intersect V) = d[x] + Total(d, U \intersect (V \ {x}))
          /\ Total(d, U \intersect (V \ {x})) \in Int
      BY <1>4, <2>1, TotalOfSubset
    <2> DEFINE dv == Total(d, U \intersect (V \ {x}))
               cv == Total(c, V \ {x})
    <2>3. d[x] + dv <= c[x] + cv
      <3>1. d[x] \in Int /\ d[x] <= c[x] /\ c[x] \in Nat /\ dv \in Int /\ cv \in Int /\ dv <= cv
        BY <1>8, <1>9, <1>10, <2>2
      <3> HIDE DEF dv, cv
      <3> QED BY <3>1
    <2>4. QED
      BY <1>9, <2>2, <2>3
  <1>11. CASE x \notin U
    <2>1. U \intersect (V \ {x}) = U \intersect V /\ U \intersect V \in SUBSET U
      BY <1>11
    <2>2. Total(d, U \intersect V) \in Int
      BY <1>4, <2>1, TotalOfSubset
    <2> DEFINE dv == Total(d, U \intersect V)
               cv == Total(c, V \ {x})
    <2>3. dv <= c[x] + cv
      <3>1. c[x] \in Nat /\ dv \in Int /\ cv \in Int /\ dv <= cv
        BY <1>8, <1>9, <2>1, <2>2
      <3> HIDE DEF dv, cv
      <3> QED BY <3>1
    <2>4. QED
      BY <1>9, <2>3
  <1>12. QED
    BY <1>10, <1>11

(* Only the values on the set matter.                                       *)
THEOREM TotalSame ==
  ASSUME NEW T, IsFiniteSet(T), NEW c, NEW d, \A x \in T : c[x] \in Int /\ d[x] = c[x]
  PROVE  Total(d, T) = Total(c, T)
  <1> DEFINE Bad == {V \in SUBSET T : Total(d, V) # Total(c, V)}
  <1>1. SUFFICES ASSUME Bad # {} PROVE FALSE
    BY <1>1
  <1>2. PICK V \in Bad : \A W \in Bad : W \subseteq V => W = V
    <2>1. Bad \subseteq SUBSET T
      OBVIOUS
    <2> HIDE DEF Bad
    <2> QED BY <1>1, <2>1, MinimalSubset
  <1>3. \A x \in T : d[x] \in Int
    OBVIOUS
  <1>4. V # {}
    BY <1>3, TotalProperties
  <1>5. PICK x \in V : TRUE
    BY <1>4
  <1>6. V \ {x} \notin Bad /\ V \ {x} \in SUBSET T
    BY <1>2, <1>5
  <1>7. Total(c, V) = c[x] + Total(c, V \ {x}) /\ Total(d, V) = d[x] + Total(d, V \ {x})
    BY <1>3, <1>5, TotalOfSubset
  <1>8. QED
    BY <1>2, <1>5, <1>6, <1>7

(* A sum of zeros.                                                          *)
THEOREM TotalZero ==
  ASSUME NEW T, IsFiniteSet(T), NEW c, \A x \in T : c[x] = 0
  PROVE  Total(c, T) = 0
  <1> DEFINE Bad == {V \in SUBSET T : Total(c, V) # 0}
  <1>1. SUFFICES ASSUME Bad # {} PROVE FALSE
    BY <1>1
  <1>2. PICK V \in Bad : \A W \in Bad : W \subseteq V => W = V
    <2>1. Bad \subseteq SUBSET T
      OBVIOUS
    <2> HIDE DEF Bad
    <2> QED BY <1>1, <2>1, MinimalSubset
  <1>3. \A x \in T : c[x] \in Int
    OBVIOUS
  <1>4. V # {}
    BY <1>3, TotalProperties
  <1>5. PICK x \in V : TRUE
    BY <1>4
  <1>6. V \ {x} \notin Bad /\ V \ {x} \in SUBSET T
    BY <1>2, <1>5
  <1>7. Total(c, V) = c[x] + Total(c, V \ {x})
    BY <1>3, <1>5, TotalOfSubset
  <1>8. QED
    BY <1>5, <1>6, <1>7

(* Changing one value changes the sum by as much.                           *)
THEOREM TotalChanged ==
  ASSUME NEW T, IsFiniteSet(T), NEW c, NEW d, NEW x \in T,
         \A y \in T : c[y] \in Int /\ d[y] \in Int,
         \A y \in T \ {x} : d[y] = c[y]
  PROVE  Total(d, T) = Total(c, T) + (d[x] - c[x])
  <1>1. IsFiniteSet(T \ {x})
    BY FS_RemoveElement
  <1>2. Total(d, T \ {x}) = Total(c, T \ {x})
    BY <1>1, TotalSame
  <1>3. /\ Total(c, T) = c[x] + Total(c, T \ {x})
        /\ Total(d, T) = d[x] + Total(d, T \ {x})
        /\ Total(c, T \ {x}) \in Int /\ c[x] \in Int /\ d[x] \in Int
    BY TotalProperties
  <1>4. QED
    BY <1>2, <1>3

(* A sum of numbers that are not negative is none.                          *)
THEOREM TotalNatural ==
  ASSUME NEW T, IsFiniteSet(T), NEW c, \A x \in T : c[x] \in Nat
  PROVE  Total(c, T) \in Nat
  <1>1. Total(c, {}) <= Total(c, T)
    BY TotalMonotone
  <1>2. Total(c, {}) = 0 /\ Total(c, T) \in Int
    BY TotalProperties
  <1>3. QED
    BY <1>1, <1>2

(* Where a function is a natural number, it has a least value.              *)
THEOREM LeastValue ==
  ASSUME NEW T, T # {}, NEW f, \A x \in T : f[x] \in Nat
  PROVE  \E x \in T : \A y \in T : f[x] <= f[y]
  <1> DEFINE N == {f[x] : x \in T}
  <1>1. N \subseteq Nat /\ N # {}
    OBVIOUS
  <1>2. PICK n \in N : \A m \in N : <<m, n>> \notin OpToRel(<, Nat)
    <2> HIDE DEF N
    <2> QED BY <1>1, NatLessThanWellFounded, WFMin
  <1>3. \A m \in N : ~ (m < n)
    BY <1>1, <1>2 DEF OpToRel
  <1>4. PICK x \in T : n = f[x]
    BY <1>2
  <1>5. ASSUME NEW y \in T PROVE f[x] <= f[y]
    <2>1. f[x] \in Nat /\ f[y] \in Nat /\ ~ (f[y] < f[x])
      BY <1>3, <1>4
    <2>2. QED
      BY <2>1
  <1>6. QED
    BY <1>5
=============================================================================
