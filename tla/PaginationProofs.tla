-------------------------- MODULE PaginationProofs --------------------------
(***************************************************************************)
(* Proofs about Pagination.tla: what a walk through the pages may miss or   *)
(* repeat, and how many pages it asks for.                                 *)
(***************************************************************************)
EXTENDS Pagination, FiniteSetTheorems, SequenceTheorems, TLAPS

-----------------------------------------------------------------------------
(* Sequences without repetition, and their beginnings.                     *)

(* The first k elements of s. *)
Beginning(s, k) == {s[i] : i \in {j \in 1..Len(s) : j <= k}}

(* s is t without its m-th element. *)
Without(s, t, m) ==
  /\ Len(t) = Len(s) + 1
  /\ m \in 1..Len(t)
  /\ \A i \in 1..Len(s) : s[i] = IF i < m THEN t[i] ELSE t[i + 1]

(* The order of the query. *)
Listed(s, order) == IF order = "ASC" THEN s ELSE Reverse(s)

(* A long enough beginning is everything.                                   *)
LEMMA BeginningIsAll ==
  ASSUME NEW S, NEW s \in Seq(S), NEW k \in Int, Len(s) <= k
  PROVE  Beginning(s, k) = ToSet(s)
  <1>1. Len(s) \in Nat /\ DOMAIN s = 1..Len(s)
    BY LenProperties
  <1> QED BY <1>1 DEF Beginning, ToSet

(* A beginning consists of elements.                                        *)
LEMMA BeginningIsPart ==
  ASSUME NEW S, NEW s \in Seq(S), NEW k \in Int
  PROVE  Beginning(s, k) \subseteq ToSet(s) /\ ToSet(s) \subseteq S
  <1>1. Len(s) \in Nat /\ DOMAIN s = 1..Len(s) /\ s \in [1..Len(s) -> S]
    BY LenProperties
  <1> QED BY <1>1 DEF Beginning, ToSet

(* The next beginning has at most one element more.                         *)
LEMMA BeginningGrows ==
  ASSUME NEW S, NEW s \in Seq(S), NEW k \in Int
  PROVE  \E z : Beginning(s, k + 1) \subseteq Beginning(s, k) \union {z}
  <1>1. Len(s) \in Nat
    BY LenProperties
  <1>2. Beginning(s, k + 1) \subseteq Beginning(s, k) \union {s[k + 1]}
    <2> SUFFICES ASSUME NEW i \in 1..Len(s), i <= k + 1
                 PROVE  s[i] \in Beginning(s, k) \union {s[k + 1]}
      BY DEF Beginning
    <2>1. CASE i = k + 1
      BY <2>1
    <2>2. CASE i <= k
      BY <2>2 DEF Beginning
    <2> QED BY <1>1, <2>1, <2>2
  <1> QED BY <1>2

(* What one element more or less does to beginnings.                        *)
LEMMA WithoutShifts ==
  ASSUME NEW S, NEW s \in Seq(S), NEW t \in Seq(S), NEW m, Without(s, t, m),
         NEW k \in Int
  PROVE  /\ ToSet(t) = ToSet(s) \union {t[m]}
         /\ Beginning(s, k) \subseteq Beginning(t, k + 1)
         /\ Beginning(t, k) \subseteq Beginning(s, k) \union {t[m]}
         /\ \/ Beginning(s, k) \subseteq Beginning(t, k)
            \/ t[m] \in Beginning(t, k)
  <1>1. /\ Len(s) \in Nat /\ Len(t) = Len(s) + 1 /\ m \in 1..Len(t)
        /\ DOMAIN s = 1..Len(s) /\ DOMAIN t = 1..Len(t)
    BY LenProperties DEF Without
  <1>2. \A i \in 1..Len(s) : s[i] = IF i < m THEN t[i] ELSE t[i + 1]
    BY DEF Without
  <1>3. ASSUME NEW i \in 1..Len(s)
        PROVE  \/ s[i] = t[i] /\ i < m
               \/ s[i] = t[i + 1] /\ i >= m
    BY <1>1, <1>2
  <1>4. ASSUME NEW i \in 1..Len(t)
        PROVE  \/ i < m /\ i \in 1..Len(s) /\ t[i] = s[i]
               \/ i = m
               \/ i > m /\ i - 1 \in 1..Len(s) /\ t[i] = s[i - 1]
    BY <1>1, <1>2
  <1>5. ToSet(t) = ToSet(s) \union {t[m]}
    <2>1. ToSet(t) \subseteq ToSet(s) \union {t[m]}
      BY <1>1, <1>4 DEF ToSet
    <2>2. ToSet(s) \subseteq ToSet(t)
      BY <1>1, <1>3 DEF ToSet
    <2>3. t[m] \in ToSet(t)
      BY <1>1 DEF ToSet
    <2> QED BY <2>1, <2>2, <2>3
  <1>6. Beginning(s, k) \subseteq Beginning(t, k + 1)
    <2> SUFFICES ASSUME NEW i \in 1..Len(s), i <= k
                 PROVE  s[i] \in Beginning(t, k + 1)
      BY DEF Beginning
    <2>1. i \in 1..Len(t) /\ i + 1 \in 1..Len(t) /\ i <= k + 1 /\ i + 1 <= k + 1
      BY <1>1
    <2>2. t[i] \in Beginning(t, k + 1) /\ t[i + 1] \in Beginning(t, k + 1)
      BY <2>1 DEF Beginning
    <2> QED BY <1>3, <2>2
  <1>7. Beginning(t, k) \subseteq Beginning(s, k) \union {t[m]}
    <2> SUFFICES ASSUME NEW i \in 1..Len(t), i <= k
                 PROVE  t[i] \in Beginning(s, k) \union {t[m]}
      BY DEF Beginning
    <2>1. CASE i < m /\ i \in 1..Len(s) /\ t[i] = s[i]
      BY <2>1 DEF Beginning
    <2>2. CASE i > m /\ i - 1 \in 1..Len(s) /\ t[i] = s[i - 1]
      <3>1. i - 1 <= k
        BY <1>1
      <3> QED BY <2>2, <3>1 DEF Beginning
    <2> QED BY <1>4, <2>1, <2>2
  <1>8. CASE k < m
    <2> SUFFICES ASSUME NEW i \in 1..Len(s), i <= k
                 PROVE  s[i] \in Beginning(t, k)
      BY <1>5, <1>6, <1>7 DEF Beginning
    <2>1. i < m /\ i \in 1..Len(t)
      BY <1>1, <1>8
    <2>2. s[i] = t[i]
      BY <1>2, <2>1
    <2> QED BY <2>1, <2>2 DEF Beginning
  <1>9. CASE m <= k
    <2>1. t[m] \in Beginning(t, k)
      BY <1>1, <1>9 DEF Beginning
    <2> QED BY <1>5, <1>6, <1>7, <2>1
  <1> QED BY <1>1, <1>8, <1>9

(* One element less leaves no repetition, a new one adds none.              *)
LEMMA WithoutInjective ==
  ASSUME NEW S, NEW s \in Seq(S), NEW t \in Seq(S), NEW m, Without(s, t, m)
  PROVE  /\ IsInjective(t) => IsInjective(s) /\ t[m] \notin ToSet(s)
         /\ IsInjective(s) /\ t[m] \notin ToSet(s) => IsInjective(t)
  <1>1. /\ Len(s) \in Nat /\ Len(t) = Len(s) + 1 /\ m \in 1..Len(t)
        /\ DOMAIN s = 1..Len(s) /\ DOMAIN t = 1..Len(t)
    BY LenProperties DEF Without
  <1>2. \A i \in 1..Len(s) : s[i] = IF i < m THEN t[i] ELSE t[i + 1]
    BY DEF Without
  <1>3. ASSUME IsInjective(t) PROVE IsInjective(s) /\ t[m] \notin ToSet(s)
    <2>1. \A a, b \in 1..Len(t) : t[a] = t[b] => a = b
      BY <1>1, <1>3 DEF IsInjective
    <2>2. ASSUME NEW a \in 1..Len(s), NEW b \in 1..Len(s), s[a] = s[b]
          PROVE  a = b
      BY <1>1, <1>2, <2>1, <2>2
    <2>3. ASSUME NEW a \in 1..Len(s) PROVE s[a] # t[m]
      BY <1>1, <1>2, <2>1
    <2> QED BY <1>1, <2>2, <2>3 DEF IsInjective, ToSet
  <1>4. ASSUME IsInjective(s), t[m] \notin ToSet(s) PROVE IsInjective(t)
    <2>1. \A a, b \in 1..Len(s) : s[a] = s[b] => a = b
      BY <1>1, <1>4 DEF IsInjective
    <2>2. \A a \in 1..Len(s) : s[a] # t[m]
      BY <1>1, <1>4 DEF ToSet
    <2>3. \A a \in 1..Len(t) :
             \/ a < m /\ a \in 1..Len(s) /\ t[a] = s[a]
             \/ a = m
             \/ a > m /\ a - 1 \in 1..Len(s) /\ t[a] = s[a - 1]
      BY <1>1, <1>2
    <2>4. ASSUME NEW a \in 1..Len(t), NEW b \in 1..Len(t), t[a] = t[b]
          PROVE  a = b
      <3>1. a \in Int /\ b \in Int
        OBVIOUS
      <3>2. CASE a = m \/ b = m
        BY <2>2, <2>3, <2>4, <3>2
      <3>3. CASE a # m /\ b # m
        <4> DEFINE c == IF a < m THEN a ELSE a - 1
        <4> DEFINE d == IF b < m THEN b ELSE b - 1
        <4>1. c \in 1..Len(s) /\ t[a] = s[c]
          BY <1>1, <2>3, <3>1, <3>3
        <4>2. d \in 1..Len(s) /\ t[b] = s[d]
          BY <1>1, <2>3, <3>1, <3>3
        <4>3. c = d
          BY <2>1, <2>4, <4>1, <4>2
        <4> QED BY <1>1, <3>1, <3>3, <4>3
      <3> QED BY <3>2, <3>3
    <2> QED BY <1>1, <2>4 DEF IsInjective
  <1> QED BY <1>3, <1>4
(* Either order lists the same elements.                                    *)
LEMMA ListedSame ==
  ASSUME NEW S, NEW s \in Seq(S), NEW order
  PROVE  /\ Listed(s, order) \in Seq(S)
         /\ Len(Listed(s, order)) = Len(s)
         /\ ToSet(Listed(s, order)) = ToSet(s)
         /\ IsInjective(s) => IsInjective(Listed(s, order))
  <1>1. Len(s) \in Nat /\ DOMAIN s = 1..Len(s) /\ \A i \in 1..Len(s) : s[i] \in S
    BY LenProperties, ElementOfSeq
  <1> DEFINE r == [i \in 1..Len(s) |-> s[(Len(s) - i) + 1]]
  <1>2. \A i \in 1..Len(s) : (Len(s) - i) + 1 \in 1..Len(s)
    BY <1>1
  <1>3. r \in Seq(S) /\ Len(r) = Len(s)
    <2>1. r \in [1..Len(s) -> S]
      BY <1>1, <1>2
    <2>2. r \in Seq(S)
      BY <1>1, <2>1, SeqDef
    <2>3. DOMAIN r = 1..Len(r) /\ Len(r) \in Nat
      BY <2>2, LenProperties
    <2> QED BY <1>1, <2>2, <2>3
  <1>4. ToSet(r) = ToSet(s)
    <2>1. ToSet(r) \subseteq ToSet(s)
      BY <1>1, <1>2 DEF ToSet
    <2>2. ASSUME NEW i \in 1..Len(s) PROVE s[i] \in ToSet(r)
      <3>1. (Len(s) - i) + 1 \in 1..Len(s) /\ (Len(s) - ((Len(s) - i) + 1)) + 1 = i
        BY <1>1
      <3>2. r[(Len(s) - i) + 1] = s[i]
        BY <3>1
      <3> QED BY <3>1, <3>2 DEF ToSet
    <2>3. ToSet(s) \subseteq ToSet(r)
      BY <1>1, <2>2 DEF ToSet
    <2> QED BY <2>1, <2>3
  <1>5. ASSUME IsInjective(s) PROVE IsInjective(r)
    <2> SUFFICES ASSUME NEW a \in 1..Len(s), NEW b \in 1..Len(s), r[a] = r[b]
                 PROVE  a = b
      BY DEF IsInjective
    <2>1. (Len(s) - a) + 1 = (Len(s) - b) + 1
      BY <1>1, <1>2, <1>5 DEF IsInjective
    <2> QED BY <1>1, <2>1
  <1>6. Reverse(s) = r
    BY DEF Reverse
  <1>7. CASE order = "ASC"
    BY <1>7 DEF Listed
  <1>8. CASE order # "ASC"
    <2>1. Listed(s, order) = r
      BY <1>6, <1>8 DEF Listed
    <2> QED BY <1>3, <1>4, <1>5, <2>1
  <1> QED BY <1>7, <1>8

(* What is missing is so in either order.                                   *)
LEMMA WithoutListed ==
  ASSUME NEW S, NEW s \in Seq(S), NEW t \in Seq(S), NEW k, Without(s, t, k), NEW order
  PROVE  \E m : /\ Without(Listed(s, order), Listed(t, order), m)
                /\ Listed(t, order)[m] = t[k]
  <1>1. /\ Len(s) \in Nat /\ Len(t) = Len(s) + 1 /\ k \in 1..Len(t)
        /\ \A i \in 1..Len(s) : s[i] = IF i < k THEN t[i] ELSE t[i + 1]
    BY LenProperties DEF Without
  <1>2. CASE order = "ASC"
    BY <1>2 DEF Listed
  <1>3. CASE order # "ASC"
    <2>1. Listed(s, order) = Reverse(s) /\ Listed(t, order) = Reverse(t)
      BY <1>3 DEF Listed
    <2>2. Len(Reverse(s)) = Len(s) /\ Len(Reverse(t)) = Len(t)
      BY <1>1, <2>1, ListedSame
    <2> DEFINE m == Len(t) - k + 1
    <2>3. ASSUME NEW i \in 1..Len(s)
          PROVE  Reverse(s)[i] = IF i < m THEN Reverse(t)[i] ELSE Reverse(t)[i + 1]
      <3>1. i \in 1..Len(t) /\ i + 1 \in 1..Len(t)
        BY <1>1
      <3>2. /\ Reverse(s)[i] = s[(Len(s) - i) + 1]
            /\ Reverse(t)[i] = t[(Len(t) - i) + 1]
            /\ Reverse(t)[i + 1] = t[(Len(t) - (i + 1)) + 1]
        BY <3>1 DEF Reverse
      <3>3. (Len(s) - i) + 1 = Len(t) - i /\ Len(t) - i \in 1..Len(s)
        BY <1>1
      <3>4. Reverse(s)[i] = IF Len(t) - i < k THEN t[Len(t) - i] ELSE t[(Len(t) - i) + 1]
        BY <1>1, <3>2, <3>3
      <3>5. (Len(t) - (i + 1)) + 1 = Len(t) - i /\ (Len(t) - i < k <=> ~(i < m))
        BY <1>1
      <3> QED BY <3>2, <3>4, <3>5
    <2>4. m \in 1..Len(t) /\ (Len(t) - m) + 1 = k
      BY <1>1
    <2>5. Reverse(t)[m] = t[k]
      BY <2>4 DEF Reverse
    <2>6. Without(Reverse(s), Reverse(t), m)
      BY <1>1, <2>2, <2>3, <2>4 DEF Without
    <2> QED BY <2>1, <2>5, <2>6
  <1> QED BY <1>2, <1>3

(* The parts of a sequence before and from a place on.                      *)
LEMMA Parts ==
  ASSUME NEW S, NEW s \in Seq(S), NEW k \in 1..Len(s) + 1
  PROVE  /\ Len(s) \in Nat
         /\ SubSeq(s, 1, k - 1) \in Seq(S)
         /\ Len(SubSeq(s, 1, k - 1)) = k - 1
         /\ \A i \in 1..k - 1 : SubSeq(s, 1, k - 1)[i] = s[i]
         /\ SubSeq(s, k, Len(s)) \in Seq(S)
         /\ Len(SubSeq(s, k, Len(s))) = Len(s) - k + 1
         /\ \A i \in 1..Len(s) - k + 1 : SubSeq(s, k, Len(s))[i] = s[k + i - 1]
  <1>1. Len(s) \in Nat /\ k \in Int /\ \A i \in 1..Len(s) : s[i] \in S
    BY LenProperties, ElementOfSeq
  <1>2. /\ SubSeq(s, 1, k - 1) \in Seq(S)
        /\ Len(SubSeq(s, 1, k - 1)) = IF 1 <= k - 1 THEN k - 1 - 1 + 1 ELSE 0
        /\ \A i \in 1..k - 1 - 1 + 1 : SubSeq(s, 1, k - 1)[i] = s[1 + i - 1]
    <2>1. \A i \in 1..k - 1 : s[i] \in S
      BY <1>1
    <2> QED BY <1>1, <2>1, SubSeqProperties
  <1>3. /\ SubSeq(s, k, Len(s)) \in Seq(S)
        /\ Len(SubSeq(s, k, Len(s))) = IF k <= Len(s) THEN Len(s) - k + 1 ELSE 0
        /\ \A i \in 1..Len(s) - k + 1 : SubSeq(s, k, Len(s))[i] = s[k + i - 1]
    <2>1. \A i \in k..Len(s) : s[i] \in S
      BY <1>1
    <2> QED BY <1>1, <2>1, SubSeqProperties
  <1>4. ASSUME NEW i \in 1..k - 1 PROVE SubSeq(s, 1, k - 1)[i] = s[i]
    <2>1. i \in 1..k - 1 - 1 + 1 /\ 1 + i - 1 = i
      BY <1>1
    <2> QED BY <1>2, <2>1
  <1>5. /\ Len(SubSeq(s, 1, k - 1)) = k - 1
        /\ Len(SubSeq(s, k, Len(s))) = Len(s) - k + 1
    BY <1>1, <1>2, <1>3
  <1> QED BY <1>1, <1>2, <1>3, <1>4, <1>5

(* A row that is inserted is the only new one.                              *)
LEMMA InsertIs ==
  ASSUME NEW S, NEW s \in Seq(S), NEW k \in 1..Len(s) + 1, NEW x \in S
  PROVE  /\ InsertAt(s, k, x) \in Seq(S)
         /\ Without(s, InsertAt(s, k, x), k)
         /\ InsertAt(s, k, x)[k] = x
  <1> DEFINE u == SubSeq(s, 1, k - 1)
  <1> DEFINE v == SubSeq(s, k, Len(s))
  <1> DEFINE w == Append(u, x)
  <1> DEFINE t == w \o v
  <1>1. /\ Len(s) \in Nat /\ k \in Int
        /\ u \in Seq(S) /\ Len(u) = k - 1 /\ \A i \in 1..k - 1 : u[i] = s[i]
        /\ v \in Seq(S) /\ Len(v) = Len(s) - k + 1
        /\ \A i \in 1..Len(s) - k + 1 : v[i] = s[k + i - 1]
    BY Parts
  <1>2. InsertAt(s, k, x) = t
    <2>1. u \o <<x>> = w
      BY <1>1, AppendIsConcat
    <2> QED BY <2>1 DEF InsertAt
  <1> HIDE DEF u, v
  <1>3. /\ w \in Seq(S) /\ Len(w) = k /\ w[k] = x
        /\ \A i \in 1..k - 1 : w[i] = s[i]
    BY <1>1, AppendProperties
  <1> HIDE DEF w
  <1>4. /\ t \in Seq(S) /\ Len(t) = Len(w) + Len(v)
        /\ \A i \in 1..Len(w) + Len(v) : t[i] = IF i <= Len(w) THEN w[i] ELSE v[i - Len(w)]
    BY <1>1, <1>3, ConcatProperties
  <1> HIDE DEF t
  <1>5. Len(t) = Len(s) + 1 /\ k \in 1..Len(t)
    BY <1>1, <1>3, <1>4
  <1>6. \A i \in 1..Len(s) + 1 : t[i] = IF i <= k THEN w[i] ELSE v[i - k]
    BY <1>1, <1>3, <1>4
  <1>7. t[k] = x
    BY <1>3, <1>5, <1>6
  <1>8. ASSUME NEW i \in 1..Len(s) PROVE s[i] = IF i < k THEN t[i] ELSE t[i + 1]
    <2>1. CASE i < k
      <3>1. i \in 1..k - 1 /\ i \in 1..Len(s) + 1
        BY <1>1, <2>1
      <3> QED BY <1>1, <1>3, <1>6, <2>1, <3>1
    <2>2. CASE i >= k
      <3>1. /\ i + 1 \in 1..Len(s) + 1 /\ ~(i + 1 <= k)
            /\ i + 1 - k \in 1..Len(s) - k + 1 /\ k + (i + 1 - k) - 1 = i
        BY <1>1, <2>2
      <3>2. t[i + 1] = v[i + 1 - k]
        BY <1>6, <3>1
      <3>3. v[i + 1 - k] = s[k + (i + 1 - k) - 1]
        BY <1>1, <3>1
      <3> QED BY <1>1, <2>2, <3>1, <3>2, <3>3
    <2> QED BY <1>1, <2>1, <2>2
  <1> QED BY <1>2, <1>4, <1>5, <1>7, <1>8 DEF Without

(* A row that is deleted is the only one missing.                           *)
LEMMA RemoveIs ==
  ASSUME NEW S, NEW s \in Seq(S), NEW k \in 1..Len(s)
  PROVE  /\ RemoveAt(s, k) \in Seq(S)
         /\ Without(RemoveAt(s, k), s, k)
  <1> DEFINE u == SubSeq(s, 1, k - 1)
  <1> DEFINE v == SubSeq(s, k + 1, Len(s))
  <1> DEFINE t == u \o v
  <1>1. Len(s) \in Nat /\ k \in Int /\ k \in 1..Len(s) + 1 /\ k + 1 \in 1..Len(s) + 1
    BY LenProperties
  <1>2. /\ u \in Seq(S) /\ Len(u) = k - 1 /\ \A i \in 1..k - 1 : u[i] = s[i]
    BY <1>1, Parts
  <1>3. /\ v \in Seq(S) /\ Len(v) = Len(s) - k
        /\ \A i \in 1..Len(s) - k : v[i] = s[k + i]
    <2>1. /\ v \in Seq(S) /\ Len(v) = Len(s) - (k + 1) + 1
          /\ \A i \in 1..Len(s) - (k + 1) + 1 : v[i] = s[(k + 1) + i - 1]
      BY <1>1, Parts
    <2>2. Len(s) - (k + 1) + 1 = Len(s) - k
      BY <1>1
    <2>3. ASSUME NEW i \in 1..Len(s) - k PROVE v[i] = s[k + i]
      <3>1. (k + 1) + i - 1 = k + i
        BY <1>1
      <3> QED BY <2>1, <2>2, <3>1
    <2> QED BY <2>1, <2>2, <2>3
  <1>4. RemoveAt(s, k) = t
    BY DEF RemoveAt
  <1> HIDE DEF u, v
  <1>5. /\ t \in Seq(S) /\ Len(t) = Len(u) + Len(v)
        /\ \A i \in 1..Len(u) + Len(v) : t[i] = IF i <= Len(u) THEN u[i] ELSE v[i - Len(u)]
    BY <1>2, <1>3, ConcatProperties
  <1> HIDE DEF t
  <1>6. Len(s) = Len(t) + 1
    BY <1>1, <1>2, <1>3, <1>5
  <1>7. ASSUME NEW i \in 1..Len(t) PROVE t[i] = IF i < k THEN s[i] ELSE s[i + 1]
    <2>1. t[i] = IF i <= k - 1 THEN u[i] ELSE v[i - (k - 1)]
      BY <1>1, <1>2, <1>3, <1>5, <1>6
    <2>2. CASE i < k
      BY <1>1, <1>2, <2>1, <2>2
    <2>3. CASE i >= k
      <3>1. i - (k - 1) \in 1..Len(s) - k /\ k + (i - (k - 1)) = i + 1 /\ ~(i <= k - 1)
        BY <1>1, <1>6, <2>3
      <3>2. v[i - (k - 1)] = s[k + (i - (k - 1))]
        BY <1>3, <3>1
      <3> QED BY <1>1, <2>1, <2>3, <3>1, <3>2
    <2> QED BY <1>1, <2>2, <2>3
  <1> QED BY <1>4, <1>5, <1>6, <1>7 DEF Without

(* A sequence without repetition has as many elements as it is long.        *)
LEMMA LengthCounts ==
  ASSUME NEW S, NEW s \in Seq(S), IsInjective(s)
  PROVE  /\ IsFiniteSet(ToSet(s))
         /\ Cardinality(ToSet(s)) = Len(s)
  <1>1. Len(s) \in Nat /\ s \in [1..Len(s) -> S] /\ DOMAIN s = 1..Len(s)
    BY LenProperties
  <1>2. s \in [1..Len(s) -> ToSet(s)]
    BY <1>1 DEF ToSet
  <1>3. s \in Injection(1..Len(s), ToSet(s)) /\ s \in Surjection(1..Len(s), ToSet(s))
    BY <1>1, <1>2 DEF Injection, Surjection, ToSet
  <1>4. IsFiniteSet(1..Len(s)) /\ Cardinality(1..Len(s)) = Len(s)
    BY <1>1, FS_Interval
  <1> QED BY <1>3, <1>4, FS_Surjection

(* The page of at most take rows after the first k. *)
Cut(s, k, take) ==
  SubSeq(s, k + 1, IF Len(s) < k + take THEN Len(s) ELSE k + take)

(* A page cut after the first k rows shows the next ones and no others.     *)
LEMMA PageCut ==
  ASSUME NEW S, NEW s \in Seq(S), IsInjective(s), NEW k \in Nat, NEW take \in Nat
  PROVE  LET d == Cut(s, k, take)
         IN  /\ d \in Seq(S)
             /\ ToSet(d) \union Beginning(s, k) = Beginning(s, k + take)
             /\ ToSet(d) \intersect Beginning(s, k) = {}
             /\ Cardinality(ToSet(d)) = Len(d)
             /\ Len(d) < take => Len(s) < k + take
  <1>1. PICK n : n = IF Len(s) < k + take THEN Len(s) ELSE k + take
    OBVIOUS
  <1>2. PICK d : d = SubSeq(s, k + 1, n)
    OBVIOUS
  <1>3. d = Cut(s, k, take)
    BY <1>1, <1>2 DEF Cut
  <1>4. PICK l \in Nat : l = Len(s) /\ DOMAIN s = 1..l /\ \A i \in 1..l : s[i] \in S
    BY LenProperties, ElementOfSeq
  <1>5. n \in Nat /\ n <= l /\ n <= k + take /\ (n = l \/ n = k + take)
    BY <1>4, <1>1
  <1>6. /\ d \in Seq(S)
        /\ Len(d) = IF k + 1 <= n THEN n - (k + 1) + 1 ELSE 0
        /\ \A i \in 1..n - (k + 1) + 1 : d[i] = s[k + 1 + i - 1]
    <2>1. \A i \in k + 1..n : s[i] \in S
      BY <1>4, <1>5
    <2>2. k + 1 \in Int /\ n \in Int
      BY <1>5
    <2> QED BY <1>2, <2>1, <2>2, SubSeqProperties
  <1>7. PICK e \in Nat : /\ e = Len(d) /\ DOMAIN d = 1..e
                         /\ \/ k <= n /\ e = n - k
                            \/ k > n /\ e = 0
    <2>1. Len(d) = IF k <= n THEN n - k ELSE 0
      BY <1>5, <1>6
    <2>2. Len(d) \in Nat /\ DOMAIN d = 1..Len(d)
      BY <1>6, LenProperties
    <2>3. (k <= n /\ Len(d) = n - k) \/ (k > n /\ Len(d) = 0)
      <3>1. CASE k <= n
        BY <2>1, <3>1
      <3>2. CASE ~(k <= n)
        <4>1. k > n
          BY <1>5, <3>2
        <4> QED BY <2>1, <3>2, <4>1
      <3> QED BY <3>1, <3>2
    <2> QED BY <2>2, <2>3
  <1>8. ASSUME NEW i \in 1..e PROVE d[i] = s[k + i] /\ k + i \in 1..l /\ k + i <= n
    <2>1. i \in 1..n - (k + 1) + 1 /\ k + 1 + i - 1 = k + i
      BY <1>5, <1>7
    <2>2. k + i \in 1..l /\ k + i <= n
      BY <1>5, <1>7
    <2> QED BY <1>6, <2>1, <2>2
  <1>9. ASSUME NEW j \in 1..l, k < j, j <= k + take
        PROVE  j - k \in 1..e /\ d[j - k] = s[j]
    <2>1. j - k \in 1..e /\ k + (j - k) = j
      BY <1>5, <1>7, <1>9
    <2> QED BY <1>8, <2>1
  <1>10. ToSet(d) \union Beginning(s, k) = Beginning(s, k + take)
    <2>1. ASSUME NEW i \in 1..e PROVE d[i] \in Beginning(s, k + take)
      <3>1. k + i \in 1..Len(s) /\ k + i <= k + take /\ d[i] = s[k + i]
        <4>1. k + i <= n /\ n <= k + take /\ i \in Nat
          BY <1>5, <1>7, <1>8
        <4> QED BY <1>4, <1>5, <1>8, <4>1
      <3> QED BY <3>1 DEF Beginning
    <2>2. Beginning(s, k) \subseteq Beginning(s, k + take)
      BY <1>4 DEF Beginning
    <2>3. ASSUME NEW j \in 1..l, j <= k + take
          PROVE  s[j] \in ToSet(d) \union Beginning(s, k)
      <3>1. CASE j <= k
        BY <1>4, <3>1 DEF Beginning
      <3>2. CASE k < j
        BY <1>7, <1>9, <2>3, <3>2 DEF ToSet
      <3> QED BY <3>1, <3>2
    <2>4. Beginning(s, k + take) \subseteq ToSet(d) \union Beginning(s, k)
      BY <1>4, <2>3 DEF Beginning
    <2>5. ToSet(d) \subseteq Beginning(s, k + take)
      BY <1>7, <2>1 DEF ToSet
    <2> QED BY <2>2, <2>4, <2>5
  <1>11. ToSet(d) \intersect Beginning(s, k) = {}
    <2> SUFFICES ASSUME NEW i \in 1..e, NEW j \in 1..l, j <= k, d[i] = s[j]
                 PROVE  FALSE
      BY <1>4, <1>7 DEF ToSet, Beginning
    <2>1. k + i = j
      BY <1>4, <1>8 DEF IsInjective
    <2> QED BY <1>7, <2>1
  <1>12. Cardinality(ToSet(d)) = Len(d)
    <2>1. ASSUME NEW a \in 1..e, NEW b \in 1..e, d[a] = d[b] PROVE a = b
      <3>1. /\ k + a \in DOMAIN s /\ k + b \in DOMAIN s
            /\ s[k + a] = s[k + b]
        BY <1>4, <1>8, <2>1
      <3>2. k + a = k + b
        BY <3>1 DEF IsInjective
      <3> QED BY <1>7, <3>2
    <2>2. IsInjective(d)
      BY <1>7, <2>1 DEF IsInjective
    <2> QED BY <1>6, <2>2, LengthCounts
  <1>13. Len(d) < take => Len(s) < k + take
    <2>1. e < take => l < k + take
      BY <1>5, <1>7
    <2> QED BY <1>4, <1>7, <2>1
  <1> QED BY <1>3, <1>6, <1>10, <1>11, <1>12, <1>13

(* One element more counts for one.                                         *)
LEMMA OneMore ==
  ASSUME NEW A, NEW B, IsFiniteSet(B), NEW z, A \subseteq B \union {z}
  PROVE  /\ Cardinality(A) \in Nat /\ Cardinality(B) \in Nat
         /\ Cardinality(A) <= Cardinality(B) + 1
         /\ A \subseteq B => Cardinality(A) <= Cardinality(B)
  <1>1. /\ IsFiniteSet(B \union {z})
        /\ Cardinality(B \union {z}) <= Cardinality(B) + 1
        /\ Cardinality(B) \in Nat
    BY FS_AddElement, FS_CardinalityType
  <1>2. IsFiniteSet(A) /\ Cardinality(A) <= Cardinality(B \union {z})
    BY <1>1, FS_Subset
  <1>3. Cardinality(A) \in Nat /\ Cardinality(B \union {z}) \in Nat
    BY <1>1, <1>2, FS_CardinalityType
  <1>4. A \subseteq B => Cardinality(A) <= Cardinality(B)
    BY FS_Subset
  <1> QED BY <1>1, <1>2, <1>3, <1>4

(* The number of pages grows with the number of rows.                       *)
LEMMA PageCountMonotone ==
  ASSUME NEW n \in Nat, NEW m \in Nat, n <= m, NEW take \in 1..MaxTake
  PROVE  /\ PageCount(n, take) \in Nat
         /\ PageCount(n, take) <= PageCount(m, take)
  BY MaxTakeAssumption DEF PageCount

(* Fewer rows than a page shows fill no page more.                          *)
LEMMA PageCountExact ==
  ASSUME NEW n \in Nat, NEW take \in 1..MaxTake, NEW page \in Nat \ {0}
  PROVE  /\ page >= PageCount(n, take) => n <= page * take
         /\ n <= page * take => PageCount(n, take) <= page
  BY MaxTakeAssumption, SMTT(30) DEF PageCount

-----------------------------------------------------------------------------
(* The invariants.                                                         *)

Seen == ToSet(got) \union ToSet(data)

(* How far into the list the pages reach that were asked for so far, and the *)
(* rows they were to show.  A page that came back partly filled was the last *)
(* one when it was cut, and showed all that was left.                      *)
Reach == Skip(options) + IF asked THEN options.take ELSE 0
First(k) == Beginning(Ordered, k)
Partial == asked /\ Len(data) < options.take
Reached == IF Partial THEN ToSet(rows) ELSE First(Reach)

TypeInv ==
  /\ rows \in Seq(Items) /\ got \in Seq(Items) /\ data \in Seq(Items)
  /\ IsInjective(rows)
  /\ stayed \subseteq ToSet(rows) /\ ever \subseteq Items
  /\ ToSet(rows) \subseteq ever /\ Seen \subseteq ever
  /\ inserts \in Nat /\ deletes \in Nat
  /\ options \in [order : {"ASC", "DESC"}, page : Nat \ {0}, take : 1..MaxTake]
  /\ asked \in BOOLEAN /\ done \in BOOLEAN
  /\ ~asked => data = <<>>
  /\ done => ~asked

(* Every row that was there all the time and is within reach has been seen,  *)
(* except one for each that was deleted.                                   *)
MissedInv ==
  /\ ~done => Cardinality((stayed \intersect Reached) \ Seen) <= deletes
  /\ MissedForDeletes

(* A row is listed again only if it was pushed beyond the reach by an insert, *)
(* or came back there itself: each insert counts for one row.              *)
Pushed == (Seen \intersect ToSet(rows)) \ First(Reach)
Repeats == Len(got) + Len(data) - Cardinality(Seen)

RepeatedInv ==
  /\ ~done => Repeats + Cardinality(Pushed) <= inserts
  /\ RepeatedForInserts
-----------------------------------------------------------------------------
(* What the steps do to the list.                                          *)

LEMMA OrderedIs == Ordered = Listed(rows, options.order)
  BY DEF Ordered, Listed

(* Arithmetic of page ends.                                                 *)
LEMMA Products ==
  ASSUME NEW page \in Nat \ {0}, NEW take \in Nat
  PROVE  /\ (page - 1) * take \in Nat /\ page * take \in Nat
         /\ (page - 1) * take + take = page * take
  BY SMTT(30)

(* A page ends where the next one begins.                                   *)
LEMMA PageEnds ==
  ASSUME TypeInv
  PROVE  /\ options.page \in Nat \ {0} /\ options.take \in Nat
         /\ Skip(options) \in Nat /\ options.page * options.take \in Nat
         /\ Skip(options) + options.take = options.page * options.take
  <1>1. options.page \in Nat \ {0} /\ options.take \in Nat
    BY MaxTakeAssumption DEF TypeInv
  <1> QED BY <1>1, Products DEF Skip

(* An inserted row is the only new one; it or the row it pushes leaves a     *)
(* given beginning.                                                        *)
LEMMA InsertRows ==
  ASSUME TypeInv, NEW i \in Items \ ToSet(rows), NEW j \in 1..Len(rows) + 1,
         rows' = InsertAt(rows, j, i), options' = options, NEW k \in Int
  PROVE  /\ rows' \in Seq(Items) /\ IsInjective(rows')
         /\ ToSet(rows') = ToSet(rows) \union {i}
         /\ First(k)' \subseteq First(k) \union {i}
         /\ \E z : First(k) \union {i} \subseteq First(k)' \union {z}
  <1>1. rows \in Seq(Items) /\ IsInjective(rows) /\ i \notin ToSet(rows)
    BY DEF TypeInv
  <1>2. rows' \in Seq(Items) /\ Without(rows, rows', j) /\ rows'[j] = i
    BY <1>1, InsertIs
  <1> DEFINE s == Listed(rows, options.order)
  <1> DEFINE t == Listed(rows', options.order)
  <1>3. /\ s \in Seq(Items) /\ t \in Seq(Items)
        /\ ToSet(s) = ToSet(rows) /\ ToSet(t) = ToSet(rows')
    BY <1>1, <1>2, ListedSame
  <1>4. PICK m : Without(s, t, m) /\ t[m] = i
    <2>1. ASSUME NEW order
          PROVE  \E m : /\ Without(Listed(rows, order), Listed(rows', order), m)
                        /\ Listed(rows', order)[m] = rows'[j]
      <3>1. PICK u : u = rows'
        OBVIOUS
      <3>2. u \in Seq(Items) /\ Without(rows, u, j)
        BY <1>2, <3>1
      <3>3. \E m : /\ Without(Listed(rows, order), Listed(u, order), m)
                   /\ Listed(u, order)[m] = u[j]
        BY <1>1, <3>2, WithoutListed
      <3> QED BY <3>1, <3>3
    <2> QED BY <1>2, <2>1
  <1>5. Ordered = s /\ Ordered' = t
    BY DEF Ordered, Listed
  <1> HIDE DEF s, t
  <1>6. /\ ToSet(t) = ToSet(s) \union {i}
        /\ Beginning(s, k) \subseteq Beginning(t, k + 1)
        /\ Beginning(t, k) \subseteq Beginning(s, k) \union {i}
        /\ Beginning(s, k) \subseteq Beginning(t, k) \/ i \in Beginning(t, k)
    BY <1>3, <1>4, WithoutShifts
  <1>7. PICK y : Beginning(t, k + 1) \subseteq Beginning(t, k) \union {y}
    BY <1>3, BeginningGrows
  <1>8. \E z : Beginning(s, k) \union {i} \subseteq Beginning(t, k) \union {z}
    <2>1. CASE i \in Beginning(t, k)
      <3>1. Beginning(s, k) \union {i} \subseteq Beginning(t, k) \union {y}
        BY <1>6, <1>7, <2>1
      <3> QED BY <3>1
    <2>2. CASE Beginning(s, k) \subseteq Beginning(t, k)
      <3>1. Beginning(s, k) \union {i} \subseteq Beginning(t, k) \union {i}
        BY <2>2
      <3> QED BY <3>1
    <2> QED BY <1>6, <2>1, <2>2
  <1>9. IsInjective(rows')
    BY <1>1, <1>2, WithoutInjective
  <1> QED
    BY <1>2, <1>3, <1>5, <1>6, <1>8, <1>9 DEF First

(* A deleted row is the only one missing, and lets at most one other move    *)
(* to before a given place.                                                *)
LEMMA DeleteRows ==
  ASSUME TypeInv, NEW j \in DOMAIN rows, rows' = RemoveAt(rows, j), options' = options,
         NEW k \in Int
  PROVE  /\ rows' \in Seq(Items) /\ IsInjective(rows')
         /\ ToSet(rows') \subseteq ToSet(rows)
         /\ ToSet(rows) \ {rows[j]} \subseteq ToSet(rows')
         /\ \E z : First(k)' \subseteq First(k) \union {z}
         /\ First(k) \intersect ToSet(rows') \subseteq First(k)'
  <1>1. rows \in Seq(Items) /\ IsInjective(rows) /\ j \in 1..Len(rows)
    BY LenProperties DEF TypeInv
  <1> DEFINE s == Listed(rows', options.order)
  <1> DEFINE t == Listed(rows, options.order)
  <1>2. rows' \in Seq(Items) /\ Without(rows', rows, j)
    BY <1>1, RemoveIs
  <1>3. PICK m : Without(s, t, m) /\ t[m] = rows[j]
    <2>1. ASSUME NEW order
          PROVE  \E m : /\ Without(Listed(rows', order), Listed(rows, order), m)
                        /\ Listed(rows, order)[m] = rows[j]
      BY <1>1, <1>2, WithoutListed
    <2> QED BY <2>1
  <1>4. /\ s \in Seq(Items) /\ t \in Seq(Items)
        /\ ToSet(s) = ToSet(rows') /\ ToSet(t) = ToSet(rows)
        /\ IsInjective(t)
    BY <1>1, <1>2, ListedSame
  <1>5. Ordered = t /\ Ordered' = s
    BY DEF Ordered, Listed
  <1> HIDE DEF s, t
  <1>6. /\ ToSet(t) = ToSet(s) \union {t[m]}
        /\ Beginning(s, k) \subseteq Beginning(t, k + 1)
        /\ Beginning(t, k) \subseteq Beginning(s, k) \union {t[m]}
        /\ t[m] \notin ToSet(s)
    BY <1>3, <1>4, WithoutShifts, WithoutInjective
  <1>7. \E z : Beginning(t, k + 1) \subseteq Beginning(t, k) \union {z}
    BY <1>4, BeginningGrows
  <1>8. IsInjective(rows')
    BY <1>1, <1>2, WithoutInjective
  <1> QED
    BY <1>2, <1>3, <1>4, <1>5, <1>6, <1>7, <1>8 DEF First

(* The first query shows the rows beyond the ones that were shown, and a page *)
(* that is not full shows the last of them.                                *)
LEMMA FindRows ==
  ASSUME TypeInv, FindPage
  PROVE  /\ data' \in Seq(Items)
         /\ ToSet(data') \subseteq ToSet(rows)
         /\ Reach \in Nat /\ Reach' \in Nat
         /\ ToSet(data') \union First(Reach) = First(Reach')
         /\ ToSet(data') \intersect First(Reach) = {}
         /\ Cardinality(ToSet(data')) = Len(data')
         /\ Partial' => First(Reach') = ToSet(rows)
  <1>1. /\ rows \in Seq(Items) /\ IsInjective(rows)
        /\ options.page \in Nat \ {0} /\ options.take \in Nat
    BY MaxTakeAssumption DEF TypeInv
  <1>2. Skip(options) \in Nat
    BY PageEnds
  <1>3. Reach = Skip(options) /\ Reach' = Skip(options) + options.take
    BY <1>1, <1>2 DEF FindPage, Reach
  <1>4. /\ Ordered \in Seq(Items) /\ IsInjective(Ordered)
        /\ Len(Ordered) = Len(rows) /\ ToSet(Ordered) = ToSet(rows)
    BY <1>1, OrderedIs, ListedSame
  <1> DEFINE n == IF Len(rows) < Skip(options) + options.take
                  THEN Len(rows) ELSE Skip(options) + options.take
  <1>5. data' = SubSeq(Ordered, Skip(options) + 1, n)
    BY DEF FindPage
  <1>6. n = IF Len(Ordered) < Skip(options) + options.take
            THEN Len(Ordered) ELSE Skip(options) + options.take
    BY <1>4
  <1> HIDE DEF n
  <1>7. /\ data' \in Seq(Items)
        /\ ToSet(data') \union First(Skip(options)) = First(Skip(options) + options.take)
        /\ ToSet(data') \intersect First(Skip(options)) = {}
        /\ Cardinality(ToSet(data')) = Len(data')
        /\ Len(data') < options.take => Len(Ordered) < Skip(options) + options.take
    <2>1. data' = Cut(Ordered, Skip(options), options.take)
      BY <1>5, <1>6 DEF Cut
    <2> QED BY <1>1, <1>2, <1>4, <2>1, PageCut DEF First
  <1>8. Skip(options) + options.take \in Nat
    BY <1>1, <1>2
  <1>9. First(Skip(options) + options.take) \subseteq ToSet(rows)
    BY <1>4, <1>8, BeginningIsPart DEF First
  <1>10. ASSUME Partial' PROVE First(Skip(options) + options.take) = ToSet(rows)
    <2>1. Len(data') < options.take
      BY <1>10 DEF FindPage, Partial
    <2>2. Len(Ordered) <= Skip(options) + options.take
      BY <1>4, <1>7, <1>8, <2>1, LenProperties
    <2> QED BY <1>4, <1>8, <2>2, BeginningIsAll DEF First
  <1> QED
    BY <1>2, <1>3, <1>7, <1>8, <1>9, <1>10
-----------------------------------------------------------------------------
(* Types.                                                                  *)

(* The client has what the pages showed.                                    *)
LEMMA ReturnRows ==
  ASSUME TypeInv, ReturnPage
  PROVE  /\ got' \in Seq(Items) /\ data' = <<>> /\ Len(data') = 0
         /\ Len(got') = Len(got) + Len(data)
         /\ ToSet(got') = Seen /\ Seen' = Seen
  <1>1. /\ got \in Seq(Items) /\ data \in Seq(Items)
        /\ got' = got \o data /\ data' = <<>>
    BY DEF TypeInv, ReturnPage
  <1>2. /\ got' \in Seq(Items) /\ Len(got') = Len(got) + Len(data)
        /\ \A i \in 1..Len(got) + Len(data) :
             got'[i] = IF i <= Len(got) THEN got[i] ELSE data[i - Len(got)]
    BY <1>1, ConcatProperties
  <1>3. /\ Len(got) \in Nat /\ DOMAIN got = 1..Len(got)
        /\ Len(data) \in Nat /\ DOMAIN data = 1..Len(data)
        /\ DOMAIN got' = 1..Len(got')
    BY <1>1, <1>2, LenProperties
  <1>4. ToSet(got') \subseteq Seen
    <2> SUFFICES ASSUME NEW i \in 1..Len(got) + Len(data) PROVE got'[i] \in Seen
      BY <1>2, <1>3 DEF ToSet
    <2>1. CASE i <= Len(got)
      BY <1>2, <1>3, <2>1 DEF Seen, ToSet
    <2>2. CASE i > Len(got)
      <3>1. i - Len(got) \in 1..Len(data)
        BY <1>3, <2>2
      <3>2. got'[i] = data[i - Len(got)]
        BY <1>2, <1>3, <2>2
      <3> QED BY <1>3, <3>1, <3>2 DEF Seen, ToSet
    <2> QED BY <1>3, <2>1, <2>2
  <1>5. ASSUME NEW i \in 1..Len(got) PROVE got[i] \in ToSet(got')
    BY <1>2, <1>3 DEF ToSet
  <1>6. ASSUME NEW i \in 1..Len(data) PROVE data[i] \in ToSet(got')
    <2>1. Len(got) + i \in 1..Len(got) + Len(data) /\ ~(Len(got) + i <= Len(got))
          /\ (Len(got) + i) - Len(got) = i
      BY <1>3
    <2>2. got'[Len(got) + i] = data[i]
      BY <1>2, <2>1
    <2> QED BY <1>2, <1>3, <2>1, <2>2 DEF ToSet
  <1>7. Seen \subseteq ToSet(got')
    <2>1. ToSet(got) \subseteq ToSet(got')
      BY <1>3, <1>5 DEF ToSet
    <2>2. ToSet(data) \subseteq ToSet(got')
      BY <1>3, <1>6 DEF ToSet
    <2> QED BY <2>1, <2>2 DEF Seen
  <1>8. Len(data') = 0 /\ ToSet(data') = {}
    <2>1. Len(data') = 0 /\ DOMAIN data' = {}
      BY <1>1
    <2> QED BY <2>1 DEF ToSet
  <1>9. Seen' = ToSet(got') \union ToSet(data')
    BY DEF Seen
  <1> QED BY <1>1, <1>2, <1>4, <1>7, <1>8, <1>9

(* The sets are finite.                                                     *)
LEMMA Finite ==
  ASSUME TypeInv
  PROVE  /\ IsFiniteSet(ever) /\ IsFiniteSet(stayed) /\ IsFiniteSet(Seen)
         /\ IsFiniteSet(ToSet(rows))
         /\ Len(got) \in Nat /\ Len(data) \in Nat /\ Len(rows) \in Nat
         /\ Len(rows) = Cardinality(ToSet(rows))
         /\ Len(rows) <= Cardinality(ever) /\ Cardinality(ever) \in Nat
  <1>1. IsFiniteSet(ever)
    BY ItemsAssumption, FS_Subset DEF TypeInv
  <1>2. /\ IsFiniteSet(stayed) /\ IsFiniteSet(Seen) /\ IsFiniteSet(ToSet(rows))
        /\ Cardinality(ToSet(rows)) <= Cardinality(ever)
    BY <1>1, FS_Subset DEF TypeInv
  <1>3. Len(rows) = Cardinality(ToSet(rows))
    BY LengthCounts DEF TypeInv
  <1>4. Len(got) \in Nat /\ Len(data) \in Nat /\ Len(rows) \in Nat
    BY LenProperties DEF TypeInv
  <1> QED BY <1>1, <1>2, <1>3, <1>4, FS_CardinalityType

(* Either the walk is over or it goes on with the next page.                *)
LEMMA ReturnOptions ==
  ASSUME TypeInv, ReturnPage
  PROVE  /\ done' \in BOOLEAN
         /\ options' \in [order : {"ASC", "DESC"}, page : Nat \ {0}, take : 1..MaxTake]
         /\ options'.order = options.order /\ options'.take = options.take
         /\ \E itemCount \in ItemCount :
              IF done' THEN ~HasNextPage(options, itemCount) /\ options'.page = options.page
              ELSE HasNextPage(options, itemCount) /\ options'.page = options.page + 1
  <1>1. PICK itemCount \in ItemCount :
          /\ done' = ~HasNextPage(options, itemCount)
          /\ options' = [options EXCEPT !.page =
                           IF HasNextPage(options, itemCount) THEN @ + 1 ELSE @]
    BY DEF ReturnPage
  <1>2. options \in [order : {"ASC", "DESC"}, page : Nat \ {0}, take : 1..MaxTake]
    BY DEF TypeInv
  <1>3. HasNextPage(options, itemCount) \in BOOLEAN
    BY DEF HasNextPage
  <1>4. CASE HasNextPage(options, itemCount)
    <2>1. options' = [options EXCEPT !.page = options.page + 1] /\ done' = FALSE
      BY <1>1, <1>4
    <2>2. options.page + 1 \in Nat \ {0}
      BY <1>2
    <2> QED BY <1>2, <1>4, <2>1, <2>2
  <1>5. CASE ~HasNextPage(options, itemCount)
    BY <1>1, <1>2, <1>5
  <1> QED BY <1>3, <1>4, <1>5

LEMMA TypeInit == Init => TypeInv
  <1> SUFFICES ASSUME Init PROVE TypeInv
    OBVIOUS
  <1>1. PICK n \in 0..Cardinality(Items) : rows \in [1..n -> Items] /\ OldestFirst(rows)
    BY DEF Init
  <1>2. n \in Nat
    BY ItemsAssumption, FS_CardinalityType
  <1>3. rows \in [1..n -> Items] /\ IsInjective(rows)
    <2> SUFFICES ASSUME NEW i \in 1..n, NEW j \in 1..n, rows[i] = rows[j] PROVE i = j
      BY <1>1 DEF IsInjective
    <2>1. /\ rows[i] \in Items /\ rows[j] \in Items
          /\ i \in Int /\ j \in Int
      BY <1>1, <1>2
    <2>2. rows[i] \in Int /\ rows[j] \in Int
      BY <2>1, ItemsAssumption
    <2>3. ~(i < j) /\ ~(j < i)
      BY <1>1, <2>1, <2>2 DEF OldestFirst
    <2> QED BY <2>1, <2>3
  <1>4. rows \in Seq(Items)
    BY <1>1, <1>2, SeqDef
  <1>5. ToSet(rows) \subseteq Items
    BY <1>3 DEF ToSet
  <1>6. <<>> \in Seq(Items) /\ ToSet(<<>>) = {}
    BY EmptySeq DEF ToSet
  <1>7. options \in [order : {"ASC", "DESC"}, page : Nat \ {0}, take : 1..MaxTake]
    BY DEF Init
  <1> QED BY <1>3, <1>4, <1>5, <1>6, <1>7 DEF Init, TypeInv, Seen

LEMMA TypeStep ==
  ASSUME TypeInv, [Next]_vars
  PROVE  TypeInv'
  <1>1. ASSUME FindPage PROVE TypeInv'
    <2>1. data' \in Seq(Items) /\ ToSet(data') \subseteq ToSet(rows)
      BY <1>1, FindRows
    <2>2. ~done /\ asked' = TRUE /\ UNCHANGED <<rows, stayed, ever, inserts, deletes, options, got, done>>
      BY <1>1 DEF FindPage
    <2> QED BY <2>1, <2>2 DEF TypeInv, Seen
  <1>2. ASSUME ReturnPage PROVE TypeInv'
    <2>1. got' \in Seq(Items) /\ data' = <<>> /\ Seen' = Seen
      BY <1>2, ReturnRows
    <2>2. asked' = FALSE /\ UNCHANGED <<rows, stayed, ever, inserts, deletes>>
      BY <1>2 DEF ReturnPage
    <2>3. /\ done' \in BOOLEAN
          /\ options' \in [order : {"ASC", "DESC"}, page : Nat \ {0}, take : 1..MaxTake]
      BY <1>2, ReturnOptions
    <2>4. <<>> \in Seq(Items)
      BY EmptySeq
    <2> QED BY <2>1, <2>2, <2>3, <2>4 DEF TypeInv
  <1>3. ASSUME Insert PROVE TypeInv'
    <2>1. PICK i \in Items \ ToSet(rows), j \in 1..Len(rows) + 1 :
            rows' = InsertAt(rows, j, i) /\ ever' = ever \union {i}
      BY <1>3 DEF Insert
    <2>2. /\ UNCHANGED <<stayed, deletes, options, data, asked, got, done>>
          /\ inserts' = inserts + 1
      BY <1>3 DEF Insert
    <2>3. /\ rows' \in Seq(Items) /\ IsInjective(rows')
          /\ ToSet(rows') = ToSet(rows) \union {i}
      BY <2>1, <2>2, InsertRows, 0 \in Int
    <2> QED BY <2>1, <2>2, <2>3 DEF TypeInv, Seen
  <1>4. ASSUME Delete PROVE TypeInv'
    <2>1. PICK j \in DOMAIN rows : rows' = RemoveAt(rows, j) /\ stayed' = stayed \ {rows[j]}
      BY <1>4 DEF Delete
    <2>2. /\ UNCHANGED <<ever, inserts, options, data, asked, got, done>>
          /\ deletes' = deletes + 1
      BY <1>4 DEF Delete
    <2>3. /\ rows' \in Seq(Items) /\ IsInjective(rows')
          /\ ToSet(rows') \subseteq ToSet(rows)
          /\ ToSet(rows) \ {rows[j]} \subseteq ToSet(rows')
      BY <2>1, <2>2, DeleteRows, 0 \in Int
    <2> QED BY <2>1, <2>2, <2>3 DEF TypeInv, Seen
  <1>5. ASSUME UNCHANGED vars PROVE TypeInv'
    BY <1>5 DEF TypeInv, vars, Seen
  <1> QED BY <1>1, <1>2, <1>3, <1>4, <1>5 DEF Next

(* The list holds no row twice and nothing that was not there; the client    *)
(* has seen nothing else.                                                  *)
THEOREM Typing == Spec => []TypeInv
  <1>1. TypeInv /\ [Next]_vars => TypeInv'
    BY TypeStep
  <1> QED BY <1>1, TypeInit, PTL DEF Spec

-----------------------------------------------------------------------------
(* The walk is short.                                                      *)

(* A page that has a successor is not the last one of everything.           *)
LEMMA NextPageExists ==
  ASSUME TypeInv, asked, NEW itemCount \in ItemCount, HasNextPage(options, itemCount)
  PROVE  options.page + 1 <= PageCount(Cardinality(ever), options.take)
  <1>1. /\ options.take \in 1..MaxTake /\ options.page \in Nat \ {0}
        /\ options.take \in Nat
    BY MaxTakeAssumption DEF TypeInv
  <1>2. CASE itemCount = Len(rows)
    <2>1. /\ PageCount(itemCount, options.take) \in Nat
          /\ PageCount(itemCount, options.take) <= PageCount(Cardinality(ever), options.take)
      BY <1>1, <1>2, Finite, PageCountMonotone
    <2>2. options.page < PageCount(itemCount, options.take)
      BY DEF HasNextPage
    <2>3. PageCount(Cardinality(ever), options.take) \in Nat
      BY <1>1, Finite, PageCountMonotone
    <2> QED BY <1>1, <2>1, <2>2, <2>3
  <1>3. CASE itemCount = Skip(options) + Len(data) /\ Len(data) < options.take
    <2>1. itemCount \in Nat /\ itemCount <= options.page * options.take
      <3>1. Len(data) \in Nat
        BY Finite
      <3>2. PICK skip \in Nat, end \in Nat, take \in Nat :
              /\ skip = Skip(options) /\ take = options.take
              /\ end = options.page * options.take /\ skip + take = end
        BY PageEnds
      <3> QED BY <1>3, <3>1, <3>2
    <2>2. PageCount(itemCount, options.take) <= options.page
      BY <1>1, <2>1, PageCountExact
    <2>3. PageCount(itemCount, options.take) \in Nat
      BY <1>1, <2>1, PageCountMonotone
    <2> QED BY <1>1, <2>2, <2>3 DEF HasNextPage
  <1> QED BY <1>2, <1>3 DEF ItemCount

(* Whatever appears and disappears, a walk asks for no more pages than what  *)
(* was ever listed fills.                                                  *)
THEOREM WalkIsShortHolds == Spec => []WalkIsShort
  <1>1. Init => WalkIsShort
    BY DEF Init, WalkIsShort
  <1>2. TypeInv /\ WalkIsShort /\ [Next]_vars => WalkIsShort'
    <2> SUFFICES ASSUME TypeInv, WalkIsShort, [Next]_vars PROVE WalkIsShort'
      OBVIOUS
    <2>1. ASSUME FindPage \/ Delete \/ UNCHANGED vars PROVE WalkIsShort'
      BY <2>1 DEF FindPage, Delete, vars, WalkIsShort
    <2>2. ASSUME ReturnPage PROVE WalkIsShort'
      <3>1. PICK itemCount \in ItemCount :
              \/ options'.page = options.page
              \/ HasNextPage(options, itemCount) /\ options'.page = options.page + 1
        BY <2>2, ReturnOptions
      <3>2. ever' = ever /\ asked /\ options'.take = options.take
        BY <2>2, ReturnOptions DEF ReturnPage
      <3>3. CASE options'.page = options.page
        BY <3>2, <3>3 DEF WalkIsShort
      <3>4. CASE HasNextPage(options, itemCount) /\ options'.page = options.page + 1
        BY <3>2, <3>4, NextPageExists DEF WalkIsShort
      <3> QED BY <3>1, <3>3, <3>4
    <2>3. ASSUME Insert PROVE WalkIsShort'
      <3>1. options' = options /\ ever \subseteq ever' /\ TypeInv'
        BY <2>3, TypeStep DEF Insert
      <3>2. IsFiniteSet(ever') 
        BY <3>1, ItemsAssumption, FS_Subset DEF TypeInv
      <3>3. /\ Cardinality(ever) \in Nat /\ Cardinality(ever') \in Nat
            /\ Cardinality(ever) <= Cardinality(ever')
        BY <3>1, <3>2, FS_Subset, FS_CardinalityType
      <3>4. /\ options.take \in 1..MaxTake /\ options.page \in Nat
        BY DEF TypeInv
      <3>5. PageCount(Cardinality(ever), options.take) <= PageCount(Cardinality(ever'), options.take)
        BY <3>3, <3>4, PageCountMonotone
      <3>6. /\ PageCount(Cardinality(ever), options.take) \in Nat
            /\ PageCount(Cardinality(ever'), options.take) \in Nat
        BY <3>3, <3>4, PageCountMonotone
      <3> QED BY <3>1, <3>4, <3>5, <3>6 DEF WalkIsShort
    <2> QED BY <2>1, <2>2, <2>3 DEF Next
  <1> QED BY <1>1, <1>2, Typing, PTL DEF Spec
-----------------------------------------------------------------------------
(* What a walk misses.                                                     *)

(* What the reach depends on is the same before and after the client has    *)
(* received a page that is not the last.                                   *)
LEMMA ReturnReach ==
  ASSUME TypeInv, ReturnPage, ~done'
  PROVE  /\ Reach' = Reach /\ Reach \in Nat
         /\ First(Reach)' = First(Reach)
  <1>1. /\ options.page \in Nat \ {0} /\ options.take \in Nat
    BY MaxTakeAssumption DEF TypeInv
  <1>2. /\ options'.order = options.order /\ options'.take = options.take
        /\ options'.page = options.page + 1
    BY ReturnOptions
  <1>3. asked = TRUE /\ asked' = FALSE /\ rows' = rows
    BY DEF ReturnPage, TypeInv
  <1>4. Reach = options.page * options.take /\ Reach \in Nat
    BY <1>3, PageEnds DEF Reach
  <1>5. Reach' = options.page * options.take
    <2>1. Skip(options') = options.page * options.take
      BY <1>1, <1>2 DEF Skip
    <2> QED BY <1>3, <1>4, <2>1, PageEnds DEF Reach
  <1>6. Reach' = Reach /\ Reach \in Nat
    BY <1>4, <1>5
  <1> QED BY <1>2, <1>3, <1>6 DEF First, Ordered

(* When there is no further page, all that is left is within reach.         *)
LEMMA LastPage ==
  ASSUME TypeInv, ReturnPage, done'
  PROVE  Reached = ToSet(rows)
  <1>1. /\ options.page \in Nat \ {0} /\ options.take \in 1..MaxTake
        /\ options.take \in Nat
    BY MaxTakeAssumption DEF TypeInv
  <1>2. asked = TRUE
    BY DEF ReturnPage, TypeInv
  <1>3. PICK itemCount \in ItemCount : ~HasNextPage(options, itemCount)
    BY ReturnOptions
  <1>4. CASE Partial
    BY <1>4 DEF Reached
  <1>5. CASE ~Partial
    <2>1. itemCount = Len(rows)
      BY <1>2, <1>3, <1>5 DEF ItemCount, Partial
    <2>2. Len(rows) \in Nat
      BY Finite
    <2>3. options.page >= PageCount(Len(rows), options.take)
      BY <1>1, <1>3, <2>1, <2>2, PageCountMonotone DEF HasNextPage
    <2>4. Len(rows) <= options.page * options.take
      BY <1>1, <2>2, <2>3, PageCountExact
    <2>5. Reach = options.page * options.take /\ Reach \in Int
      BY <1>2, PageEnds DEF Reach
    <2>6. /\ Ordered \in Seq(Items)
          /\ Len(Ordered) = Len(rows) /\ ToSet(Ordered) = ToSet(rows)
      BY OrderedIs, ListedSame DEF TypeInv
    <2>7. First(Reach) = ToSet(rows)
      BY <2>4, <2>5, <2>6, BeginningIsAll DEF First
    <2> QED BY <1>5, <2>7 DEF Reached
  <1> QED BY <1>4, <1>5

(* The reach does not go beyond the list.                                   *)
LEMMA ReachedIsListed ==
  ASSUME TypeInv
  PROVE  Reach \in Nat /\ First(Reach) \subseteq Reached /\ Reached \subseteq ToSet(rows)
  <1>1. /\ options.page \in Nat \ {0} /\ options.take \in Nat
    BY MaxTakeAssumption DEF TypeInv
  <1>2. Skip(options) \in Nat
    BY PageEnds
  <1>3. Reach \in Nat
    BY <1>1, <1>2 DEF Reach
  <1>4. Ordered \in Seq(Items) /\ ToSet(Ordered) = ToSet(rows)
    BY OrderedIs, ListedSame DEF TypeInv
  <1>5. First(Reach) \subseteq ToSet(rows)
    BY <1>3, <1>4, BeginningIsPart DEF First
  <1> QED BY <1>3, <1>5 DEF Reached

LEMMA MissedStep ==
  ASSUME TypeInv, MissedInv, [Next]_vars
  PROVE  MissedInv'
  <1> DEFINE missed == (stayed \intersect Reached) \ Seen
  <1>1. IsFiniteSet(missed) /\ Cardinality(missed) \in Nat /\ deletes \in Nat
    BY Finite, FS_Subset, FS_CardinalityType DEF TypeInv
  <1>2. ASSUME NEW A, A \subseteq missed
        PROVE  Cardinality(A) \in Nat /\ Cardinality(A) <= Cardinality(missed)
    BY <1>1, <1>2, FS_Subset, FS_CardinalityType
  <1>3. ASSUME FindPage PROVE MissedInv'
    <2>1. /\ ~asked /\ ~done /\ ~done' /\ UNCHANGED <<stayed, deletes, got, rows>>
      BY <1>3 DEF FindPage
    <2>2. Seen = ToSet(got) /\ Seen' = Seen \union ToSet(data')
      <3>1. ToSet(<<>>) = {}
        BY DEF ToSet
      <3> QED BY <2>1, <3>1 DEF Seen, TypeInv
    <2>3. Reached' = First(Reach')
      <3>1. First(Reach)' = First(Reach')
        BY <1>3 DEF First, Ordered, FindPage
      <3> QED BY <1>3, <2>1, <3>1, FindRows DEF Reached
    <2>4. Reached = First(Reach)
      BY <2>1 DEF Reached, Partial
    <2>5. missed' \subseteq missed
      BY <1>3, <2>1, <2>2, <2>3, <2>4, FindRows
    <2> HIDE DEF missed
    <2>6. Cardinality(missed') <= deletes'
      BY <1>1, <1>2, <2>1, <2>5 DEF MissedInv, missed
    <2> QED BY <2>1, <2>6 DEF MissedInv, MissedForDeletes, missed
  <1>4. ASSUME ReturnPage PROVE MissedInv'
    <2>1. /\ ~done /\ UNCHANGED <<stayed, deletes, rows>>
          /\ ToSet(got') = Seen /\ Seen' = Seen
      BY <1>4, ReturnRows DEF ReturnPage, TypeInv
    <2>2. CASE done'
      <3>1. Reached = ToSet(rows)
        BY <1>4, <2>2, LastPage
      <3>2. stayed \ Seen = (stayed \intersect Reached) \ Seen
        BY <3>1 DEF TypeInv
      <3> QED BY <2>1, <2>2, <3>2 DEF MissedInv, MissedForDeletes
    <2>3. CASE ~done'
      <3>1. First(Reach)' = First(Reach) /\ ~asked'
        BY <1>4, <2>3, ReturnReach DEF ReturnPage
      <3>2. Reached' \subseteq Reached
        BY <3>1, ReachedIsListed DEF Reached, Partial
      <3>3. missed' \subseteq missed
        BY <2>1, <3>2
      <3> HIDE DEF missed
      <3>4. Cardinality(missed') <= deletes'
        BY <1>1, <1>2, <2>1, <3>3 DEF MissedInv, missed
      <3> QED BY <2>3, <3>4 DEF MissedInv, MissedForDeletes, missed
    <2> QED BY <2>2, <2>3
  <1>5. ASSUME Insert PROVE MissedInv'
    <2>1. PICK i \in Items \ ToSet(rows), j \in 1..Len(rows) + 1 : rows' = InsertAt(rows, j, i)
      BY <1>5 DEF Insert
    <2>2. /\ ~done /\ UNCHANGED <<stayed, deletes, options, data, asked, got, done>>
      BY <1>5 DEF Insert
    <2>3. Reach' = Reach /\ Reach \in Int /\ Seen' = Seen /\ Partial' = Partial
      BY <2>2, ReachedIsListed DEF Reach, Seen, Partial
    <2>4. /\ ToSet(rows') = ToSet(rows) \union {i}
          /\ First(Reach)' \subseteq First(Reach) \union {i}
      <3>1. PICK k \in Int : k = Reach
        BY <2>3
      <3>2. First(k)' \subseteq First(k) \union {i} /\ ToSet(rows') = ToSet(rows) \union {i}
        BY <2>1, <2>2, InsertRows
      <3> QED BY <2>3, <3>1, <3>2 DEF First
    <2>5. Reached' \subseteq Reached \union {i}
      BY <2>3, <2>4 DEF Reached
    <2>6. i \notin stayed
      BY <2>1 DEF TypeInv
    <2>7. missed' \subseteq missed
      BY <2>2, <2>3, <2>5, <2>6
    <2> HIDE DEF missed
    <2>8. Cardinality(missed') <= deletes'
      <3>1. Cardinality(missed) <= deletes
        BY <2>2 DEF MissedInv, missed
      <3>2. Cardinality(missed') \in Nat /\ Cardinality(missed') <= Cardinality(missed)
        BY <1>2, <2>7
      <3>3. deletes' = deletes
        BY <2>2
      <3> QED BY <1>1, <3>1, <3>2, <3>3
    <2> QED BY <2>2, <2>8 DEF MissedInv, MissedForDeletes, missed
  <1>6. ASSUME Delete PROVE MissedInv'
    <2>1. PICK j \in DOMAIN rows : rows' = RemoveAt(rows, j)
      BY <1>6 DEF Delete
    <2>2. /\ ~done /\ stayed' \subseteq stayed /\ UNCHANGED <<options, data, asked, got, done>>
          /\ deletes' = deletes + 1
      BY <1>6 DEF Delete
    <2>3. Reach' = Reach /\ Reach \in Int /\ Seen' = Seen /\ Partial' = Partial
      BY <2>2, ReachedIsListed DEF Reach, Seen, Partial
    <2>4. /\ ToSet(rows') \subseteq ToSet(rows)
          /\ \E z : First(Reach)' \subseteq First(Reach) \union {z}
      <3>1. PICK k \in Int : k = Reach
        BY <2>3
      <3>2. /\ \E z : First(k)' \subseteq First(k) \union {z}
            /\ ToSet(rows') \subseteq ToSet(rows)
        BY <2>1, <2>2, DeleteRows
      <3> QED BY <2>3, <3>1, <3>2 DEF First
    <2>5. PICK z : Reached' \subseteq Reached \union {z}
      BY <2>3, <2>4 DEF Reached
    <2>6. missed' \subseteq missed \union {z}
      BY <2>2, <2>3, <2>5
    <2> HIDE DEF missed
    <2>7. Cardinality(missed') <= Cardinality(missed) + 1 /\ Cardinality(missed') \in Nat
      BY <1>1, <2>6, OneMore
    <2>8. Cardinality(missed') <= deletes'
      BY <1>1, <2>2, <2>7 DEF MissedInv, missed
    <2> QED BY <2>2, <2>8 DEF MissedInv, MissedForDeletes, missed
  <1>7. ASSUME UNCHANGED vars PROVE MissedInv'
    BY <1>7 DEF vars, MissedInv, MissedForDeletes, Reached, Partial, First, Ordered, Reach, Seen
  <1> QED BY <1>3, <1>4, <1>5, <1>6, <1>7 DEF Next

(* A walk misses no item that was there all the time, except one for each    *)
(* that was deleted, whatever is inserted and in either order.             *)
THEOREM MissedForDeletesHolds == Spec => []MissedForDeletes
  <1>1. Init => MissedInv
    <2> SUFFICES ASSUME Init PROVE MissedInv
      OBVIOUS
    <2>1. TypeInv /\ ~done /\ ~asked /\ options.page = 1 /\ deletes = 0
      BY TypeInit DEF Init
    <2>2. Reach = 0
      <3>1. options.take \in Nat
        BY <2>1, MaxTakeAssumption DEF TypeInv
      <3> QED BY <2>1, <3>1 DEF Reach, Skip
    <2>3. Reached = {}
      <3>1. Len(Ordered) \in Nat
        BY <2>1, OrderedIs, ListedSame, LenProperties DEF TypeInv
      <3> QED BY <2>1, <2>2, <3>1 DEF Reached, Partial, First, Beginning
    <2>4. Cardinality((stayed \intersect Reached) \ Seen) = 0
      BY <2>3, FS_EmptySet
    <2> QED BY <2>1, <2>4 DEF MissedInv, MissedForDeletes
  <1>2. TypeInv /\ MissedInv /\ [Next]_vars => MissedInv'
    BY MissedStep
  <1>3. MissedInv => MissedForDeletes
    BY DEF MissedInv
  <1> QED BY <1>1, <1>2, <1>3, Typing, PTL DEF Spec

-----------------------------------------------------------------------------
(* What a walk repeats.                                                    *)

LEMMA RepeatedStep ==
  ASSUME TypeInv, RepeatedInv, [Next]_vars
  PROVE  RepeatedInv'
  <1>1. /\ IsFiniteSet(Pushed) /\ Cardinality(Pushed) \in Nat
        /\ IsFiniteSet(Seen) /\ Cardinality(Seen) \in Nat
        /\ Len(got) \in Nat /\ Len(data) \in Nat
    BY Finite, FS_Subset, FS_CardinalityType DEF Pushed
  <1>2. Repeats \in Int /\ inserts \in Nat
    BY <1>1 DEF Repeats, TypeInv
  <1>3. ASSUME NEW A, A \subseteq Pushed
        PROVE  Cardinality(A) \in Nat /\ Cardinality(A) <= Cardinality(Pushed)
    BY <1>1, <1>3, FS_Subset, FS_CardinalityType
  <1>4. ASSUME FindPage PROVE RepeatedInv'
    <2>1. /\ ~asked /\ ~done /\ ~done' /\ data = <<>>
          /\ UNCHANGED <<rows, inserts, options, got>>
      BY <1>4 DEF FindPage, TypeInv
    <2>2. Seen = ToSet(got) /\ Seen' = Seen \union ToSet(data') /\ Len(data) = 0
      <3>1. ToSet(<<>>) = {} /\ Len(<<>>) = 0
        BY DEF ToSet
      <3> QED BY <2>1, <3>1 DEF Seen
    <2>3. First(Reach)' = First(Reach')
      BY <2>1 DEF First, Ordered
    <2> DEFINE again == Seen \intersect ToSet(data')
    <2>4. /\ Pushed' \union again \subseteq Pushed
          /\ Pushed' \intersect again = {}
      BY <1>4, <2>1, <2>2, <2>3, FindRows DEF Pushed
    <2>5. /\ IsFiniteSet(Pushed') /\ IsFiniteSet(again)
          /\ Cardinality(Pushed') \in Nat /\ Cardinality(again) \in Nat
      BY <1>1, <2>4, FS_Subset, FS_CardinalityType
    <2>6. Cardinality(Pushed') + Cardinality(again) <= Cardinality(Pushed)
      <3>1. Cardinality(Pushed' \union again) <= Cardinality(Pushed)
        BY <1>1, <2>4, FS_Subset
      <3>2. Cardinality(Pushed' \union again)
              = Cardinality(Pushed') + Cardinality(again) - Cardinality({})
        BY <2>4, <2>5, FS_Union
      <3> QED BY <2>5, <3>1, <3>2, FS_EmptySet
    <2>7. /\ IsFiniteSet(ToSet(data')) /\ Cardinality(ToSet(data')) = Len(data')
          /\ Len(data') \in Nat
      <3>1. ToSet(data') \subseteq ToSet(rows) /\ Cardinality(ToSet(data')) = Len(data')
        BY <1>4, FindRows
      <3> QED BY <3>1, Finite, FS_Subset, FS_CardinalityType
    <2>8. Cardinality(Seen') = Cardinality(Seen) + Len(data') - Cardinality(again)
      BY <1>1, <2>2, <2>7, FS_Union
    <2>9. Repeats' = Len(got) + Len(data') - Cardinality(Seen')
      BY <2>1 DEF Repeats
    <2>10. Repeats' = Repeats + Cardinality(again)
      <3>1. Repeats = Len(got) - Cardinality(Seen)
        BY <1>1, <2>2 DEF Repeats
      <3> HIDE DEF again
      <3> QED BY <1>1, <2>5, <2>7, <2>8, <2>9, <3>1
    <2>11. inserts' = inserts
      BY <2>1
    <2>12. Repeats' + Cardinality(Pushed') <= inserts'
      <3>1. Repeats + Cardinality(Pushed) <= inserts
        BY <2>1 DEF RepeatedInv
      <3> HIDE DEF again
      <3> QED BY <1>1, <1>2, <2>5, <2>6, <2>10, <2>11, <3>1
    <2>13. RepeatedForInserts'
      BY <2>1 DEF RepeatedInv, RepeatedForInserts
    <2> QED BY <2>12, <2>13 DEF RepeatedInv
  <1>5. ASSUME ReturnPage PROVE RepeatedInv'
    <2>1. /\ ~done /\ UNCHANGED <<inserts, rows>>
      BY <1>5 DEF ReturnPage, TypeInv
    <2>2. /\ Len(got') = Len(got) + Len(data) /\ Len(data') = 0
          /\ ToSet(got') = Seen /\ Seen' = Seen
      BY <1>5, ReturnRows
    <2>3. Repeats' = Repeats /\ inserts' = inserts
      BY <1>1, <2>1, <2>2 DEF Repeats
    <2>4. Repeats <= inserts /\ Repeats + Cardinality(Pushed) <= inserts
      BY <1>1, <1>2, <2>1 DEF RepeatedInv
    <2>5. ~done' => Pushed' = Pushed
      BY <1>5, <2>1, <2>2, ReturnReach DEF Pushed
    <2>6. RepeatedForInserts'
      <3>1. Len(got') - Cardinality(ToSet(got')) = Repeats
        BY <1>1, <2>2 DEF Repeats
      <3> QED BY <2>3, <2>4, <3>1 DEF RepeatedForInserts
    <2> QED BY <2>3, <2>4, <2>5, <2>6 DEF RepeatedInv
  <1>6. ASSUME Insert PROVE RepeatedInv'
    <2>1. PICK i \in Items \ ToSet(rows), j \in 1..Len(rows) + 1 : rows' = InsertAt(rows, j, i)
      BY <1>6 DEF Insert
    <2>2. /\ ~done /\ UNCHANGED <<options, data, asked, got, done>>
          /\ inserts' = inserts + 1
      BY <1>6 DEF Insert
    <2>3. Reach' = Reach /\ Reach \in Int /\ Seen' = Seen /\ Repeats' = Repeats
      BY <2>2, ReachedIsListed DEF Reach, Seen, Repeats
    <2>4. /\ ToSet(rows') = ToSet(rows) \union {i}
          /\ \E z : First(Reach) \union {i} \subseteq First(Reach)' \union {z}
      <3>1. PICK k \in Int : k = Reach
        BY <2>3
      <3>2. /\ ToSet(rows') = ToSet(rows) \union {i}
            /\ \E z : First(k) \union {i} \subseteq First(k)' \union {z}
        BY <2>1, <2>2, InsertRows
      <3> QED BY <2>3, <3>1, <3>2 DEF First
    <2>5. PICK z : Pushed' \subseteq Pushed \union {z}
      BY <2>3, <2>4 DEF Pushed
    <2>6. /\ Cardinality(Pushed') \in Nat
          /\ Cardinality(Pushed') <= Cardinality(Pushed) + 1
      BY <1>1, <2>5, OneMore
    <2>7. Repeats' + Cardinality(Pushed') <= inserts'
      <3>1. Repeats + Cardinality(Pushed) <= inserts
        BY <2>2 DEF RepeatedInv
      <3> QED BY <1>1, <1>2, <2>2, <2>3, <2>6, <3>1
    <2>8. RepeatedForInserts'
      <3>1. Cardinality(ToSet(got)) \in Nat
        BY <1>1, FS_Subset, FS_CardinalityType DEF Seen
      <3> QED BY <1>1, <1>2, <2>2, <3>1 DEF RepeatedInv, RepeatedForInserts
    <2> QED BY <2>7, <2>8 DEF RepeatedInv
  <1>7. ASSUME Delete PROVE RepeatedInv'
    <2>1. PICK j \in DOMAIN rows : rows' = RemoveAt(rows, j)
      BY <1>7 DEF Delete
    <2>2. /\ ~done /\ UNCHANGED <<inserts, options, data, asked, got, done>>
      BY <1>7 DEF Delete
    <2>3. /\ Reach' = Reach /\ Reach \in Int /\ Seen' = Seen /\ Repeats' = Repeats
      BY <2>2, ReachedIsListed DEF Reach, Seen, Repeats
    <2>4. /\ ToSet(rows') \subseteq ToSet(rows)
          /\ First(Reach) \intersect ToSet(rows') \subseteq First(Reach)'
      <3>1. PICK k \in Int : k = Reach
        BY <2>3
      <3>2. /\ ToSet(rows') \subseteq ToSet(rows)
            /\ First(k) \intersect ToSet(rows') \subseteq First(k)'
        BY <2>1, <2>2, DeleteRows
      <3> QED BY <2>3, <3>1, <3>2 DEF First
    <2>5. Pushed' \subseteq Pushed
      BY <2>3, <2>4 DEF Pushed
    <2>6. Cardinality(Pushed') \in Nat /\ Cardinality(Pushed') <= Cardinality(Pushed)
      BY <1>3, <2>5
    <2>7. Repeats' + Cardinality(Pushed') <= inserts'
      BY <1>1, <1>2, <2>2, <2>3, <2>6 DEF RepeatedInv
    <2>8. RepeatedForInserts'
      BY <2>2 DEF RepeatedInv, RepeatedForInserts
    <2> QED BY <2>7, <2>8 DEF RepeatedInv
  <1>8. ASSUME UNCHANGED vars PROVE RepeatedInv'
    BY <1>8 DEF vars, RepeatedInv, RepeatedForInserts, Repeats, Pushed, First, Ordered, Reach, Seen
  <1> QED BY <1>4, <1>5, <1>6, <1>7, <1>8 DEF Next

(* No item is listed twice, except one for each that was inserted, anywhere  *)
(* in the list or back in it, whatever is deleted.                         *)
THEOREM RepeatedForInsertsHolds == Spec => []RepeatedForInserts
  <1>1. Init => RepeatedInv
    <2> SUFFICES ASSUME Init PROVE RepeatedInv
      OBVIOUS
    <2>1. got = <<>> /\ data = <<>> /\ inserts = 0
      BY DEF Init
    <2>2. /\ Len(got) = 0 /\ Len(data) = 0 /\ ToSet(got) = {} /\ Seen = {}
          /\ Pushed = {}
      BY <2>1 DEF Seen, ToSet, Pushed
    <2>3. /\ Cardinality(Seen) = 0 /\ Cardinality(ToSet(got)) = 0
          /\ Cardinality(Pushed) = 0
      BY <2>2, FS_EmptySet
    <2>4. Repeats = 0 /\ Cardinality(Pushed) = 0
      BY <2>2, <2>3 DEF Repeats
    <2>5. RepeatedForInserts
      BY <2>1, <2>2, <2>3 DEF RepeatedForInserts
    <2> QED BY <2>1, <2>4, <2>5 DEF RepeatedInv
  <1>2. TypeInv /\ RepeatedInv /\ [Next]_vars => RepeatedInv'
    BY RepeatedStep
  <1>3. RepeatedInv => RepeatedForInserts
    BY DEF RepeatedInv
  <1> QED BY <1>1, <1>2, <1>3, Typing, PTL DEF Spec
=============================================================================
