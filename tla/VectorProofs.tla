---------------------------- MODULE VectorProofs -----------------------------
(***************************************************************************)
(* Lemmas about sorted vectors and about folds, for the proofs of the      *)
(* modules that use them.  The library's induction theorems take an        *)
(* operator, which the provers cannot instantiate; induction here is the   *)
(* least-number principle for sets, NatMin.                                *)
(***************************************************************************)
EXTENDS SortedVector, SequencesExt, FiniteSetTheorems, SequenceTheorems,
        WellFoundedInduction, TLAPS

(* A set of numbers that is not empty has a least one, and a greatest one  *)
(* if it has a bound.                                                      *)
LEMMA NatMin ==
  ASSUME NEW S \in SUBSET Nat, S # {}
  PROVE  \E m \in S : \A n \in S : m <= n
<1> DEFINE R == OpToRel(<, Nat)
<1>1. IsWellFoundedOn(R, Nat)
  BY NatLessThanWellFounded
<1>2. PICK m \in S : \A n \in S : ~(<<n, m>> \in R)
  <2> HIDE DEF R
  <2> QED
    BY <1>1, WFMin
<1>3. \A n \in S : ~(n < m)
  BY <1>2 DEF OpToRel
<1> QED
  BY <1>3

(* A bounded set of numbers has a greatest element.                        *)
LEMMA NatMax ==
  ASSUME NEW S \in SUBSET Nat, S # {}, NEW b \in Nat, \A n \in S : n <= b
  PROVE  \E m \in S : \A n \in S : n <= m
<1> DEFINE T == {k \in Nat : b - k \in S}
<1>1. T # {}
  <2>1. PICK n \in S : TRUE
    OBVIOUS
  <2>2. b - n \in Nat /\ b - (b - n) = n
    BY <2>1
  <2> QED
    BY <2>2
<1>2. PICK k \in T : \A j \in T : k <= j
  <2> HIDE DEF T
  <2>1. T \in SUBSET Nat
    BY DEF T
  <2> QED
    BY <1>1, <2>1, NatMin
<1>3. b - k \in S
  OBVIOUS
<1>4. \A n \in S : n <= b - k
  <2> TAKE n \in S
  <2>1. b - n \in Nat /\ b - (b - n) = n
    OBVIOUS
  <2>2. b - n \in T
    BY <2>1
  <2> QED
    BY <1>2, <2>2
<1> QED
  BY <1>3, <1>4

-----------------------------------------------------------------------------
Rank(S, x) == Cardinality({y \in S : y < x})

(* Elements of a set have the ranks 0, 1, ..., in their order. *)
LEMMA Ranks ==
  ASSUME NEW S \in SUBSET Nat, IsFiniteSet(S)
  PROVE  /\ Cardinality(S) \in Nat
         /\ \A x \in S : Rank(S, x) \in 0..(Cardinality(S) - 1)
         /\ \A x, y \in S : x < y => Rank(S, x) < Rank(S, y)
         /\ \A r \in 0..(Cardinality(S) - 1) : \E x \in S : Rank(S, x) = r
<1> DEFINE Below(x) == {y \in S : y < x}
           N == Cardinality(S)
<1>1. N \in Nat
  BY FS_CardinalityType
<1>2. \A x \in S : IsFiniteSet(Below(x)) /\ Rank(S, x) \in Nat
  BY FS_Subset, FS_CardinalityType DEF Rank
<1>3. \A x, y \in S : x < y => Rank(S, x) < Rank(S, y)
  <2> SUFFICES ASSUME NEW x \in S, NEW y \in S, x < y PROVE Rank(S, x) < Rank(S, y)
    OBVIOUS
  <2>1. Below(x) \in SUBSET Below(y) /\ x \in Below(y) /\ x \notin Below(x)
    <3>1. x \in Nat /\ y \in Nat /\ \A z \in S : z \in Nat
      OBVIOUS
    <3>2. \A z \in S : z < x => z < y
      BY <3>1
    <3>3. ~(x < x)
      BY <3>1
    <3> QED
      BY <3>2, <3>3
  <2>2. Cardinality(Below(x)) <= Cardinality(Below(y)) /\ Below(x) # Below(y)
    BY <1>2, <2>1, FS_Subset
  <2>3. Cardinality(Below(x)) # Cardinality(Below(y))
    BY <1>2, <2>1, <2>2, FS_Subset
  <2> QED
    BY <1>2, <2>2, <2>3 DEF Rank
<1>4. \A x \in S : Rank(S, x) < N
  <2> SUFFICES ASSUME NEW x \in S PROVE Rank(S, x) < N
    OBVIOUS
  <2>1. Below(x) \in SUBSET S /\ Below(x) # S
    OBVIOUS
  <2>2. Cardinality(Below(x)) <= N /\ Cardinality(Below(x)) # N
    BY <2>1, FS_Subset
  <2> QED
    BY <1>1, <1>2, <2>2 DEF Rank
<1>5. \A x \in S : Rank(S, x) \in 0..(N - 1)
  <2> TAKE x \in S
  <2>1. Rank(S, x) \in Nat /\ Rank(S, x) < N
    BY <1>2, <1>4
  <2> QED
    BY <1>1, <2>1
<1>6. \A r \in 0..(N - 1) : \E x \in S : Rank(S, x) = r
  <2> DEFINE f == [x \in S |-> Rank(S, x)]
  <2>1. f \in [S -> 0..(N - 1)]
    BY <1>5
  <2>2. \A x, y \in S : f[x] = f[y] => x = y
    <3> TAKE x, y \in S
    <3> HAVE f[x] = f[y]
    <3>1. ~(x < y) /\ ~(y < x)
      <4>1. Rank(S, x) = Rank(S, y) /\ Rank(S, x) \in Nat
        BY <1>2
      <4> QED
        BY <1>3, <4>1
    <3>2. x \in Nat /\ y \in Nat
      OBVIOUS
    <3> QED
      BY <3>1, <3>2
  <2>3. f \in Injection(S, 0..(N - 1))
    <3> HIDE DEF f
    <3> QED
      BY <2>1, <2>2 DEF Injection, IsInjective
  <2>4. IsFiniteSet(0..(N - 1)) /\ Cardinality(0..(N - 1)) = N
    <3> HIDE DEF N
    <3>1. 0 \in Int /\ N - 1 \in Int /\ (0 > N - 1 => N = 0)
      BY <1>1
    <3> QED
      BY <1>1, <3>1, FS_Interval
  <2>5. f \in Surjection(S, 0..(N - 1))
    <3> HIDE DEF f
    <3> QED
      BY <2>3, <2>4, FS_Injection
  <2> QED
    BY <2>5 DEF Surjection
<1> QED
  BY <1>1, <1>3, <1>5, <1>6

Ascending(s) == \A i, j \in DOMAIN s : i < j => s[i] < s[j]

(* The vector of a set has its elements, each once, in ascending order.    *)
LEMMA VectorProperties ==
  ASSUME NEW S \in SUBSET Nat, IsFiniteSet(S)
  PROVE  /\ Vector(S) \in Seq(S) /\ Vector(S) \in Seq(Nat)
         /\ Cardinality(S) \in Nat /\ Len(Vector(S)) = Cardinality(S)
         /\ DOMAIN Vector(S) = 1..Cardinality(S)
         /\ ToSet(Vector(S)) = S
         /\ Ascending(Vector(S))
<1> DEFINE v == Vector(S)
           N == Cardinality(S)
<1>1. N \in Nat /\ DOMAIN v = 1..N
  BY Ranks DEF Vector
<1>2. ASSUME NEW i \in 1..N
      PROVE  v[i] \in S /\ Rank(S, v[i]) = i - 1
  <2>1. i - 1 \in 0..(N - 1)
    BY <1>1
  <2>2. \E x \in S : Cardinality({y \in S : y < x}) = i - 1
    BY <2>1, Ranks DEF Rank
  <2>3. v[i] = CHOOSE x \in S : Cardinality({y \in S : y < x}) = i - 1
    BY DEF Vector, Ranked
  <2> QED
    BY <2>2, <2>3 DEF Rank
<1>3. v = [i \in 1..N |-> Ranked(S, i - 1)]
  BY DEF Vector
<1> HIDE DEF v
<1>4. v \in [1..N -> S]
  BY <1>1, <1>2, <1>3
<1>5. v \in Seq(S) /\ Len(v) = N
  BY <1>1, <1>4, SeqDef, LenProperties
<1>6. \A x \in S : \E i \in 1..N : v[i] = x
  <2> TAKE x \in S
  <2>1. Rank(S, x) + 1 \in 1..N
    BY <1>1, Ranks
  <2>2. Rank(S, v[Rank(S, x) + 1]) = Rank(S, x) /\ v[Rank(S, x) + 1] \in S
    BY <1>2, <2>1, Ranks
  <2>3. v[Rank(S, x) + 1] = x
    <3> DEFINE z == v[Rank(S, x) + 1]
    <3>1. ~(z < x) /\ ~(x < z)
      <4> HIDE DEF z
      <4>1. z \in S /\ Rank(S, z) = Rank(S, x) /\ Rank(S, x) \in 0..(N - 1)
        BY <2>2, Ranks DEF z
      <4> QED
        BY <4>1, Ranks
    <3>2. z \in Nat /\ x \in Nat
      BY <2>2
    <3> QED
      BY <3>1, <3>2
  <2> QED
    BY <2>1, <2>3
<1>7. ToSet(v) = S
  BY <1>1, <1>2, <1>6 DEF ToSet
<1>8. Ascending(v)
  <2> SUFFICES ASSUME NEW i \in 1..N, NEW j \in 1..N, i < j PROVE v[i] < v[j]
    BY <1>1 DEF Ascending
  <2>1. v[i] \in S /\ v[j] \in S /\ Rank(S, v[i]) < Rank(S, v[j])
    BY <1>1, <1>2
  <2>2. v[i] \in Nat /\ v[j] \in Nat
    BY <2>1
  <2> QED
    BY <2>1, <2>2, Ranks
<1>9. v \in Seq(Nat)
  BY <1>5, SeqMonotonic
<1> QED
  BY <1>1, <1>5, <1>7, <1>8, <1>9 DEF v

(* An ascending sequence is the vector of the set of its elements.         *)
LEMMA VectorUnique ==
  ASSUME NEW s \in Seq(Nat), Ascending(s)
  PROVE  /\ ToSet(s) \in SUBSET Nat /\ IsFiniteSet(ToSet(s))
         /\ Cardinality(ToSet(s)) = Len(s)
         /\ s = Vector(ToSet(s))
<1> DEFINE S == ToSet(s)
<1>1. /\ Len(s) \in Nat /\ DOMAIN s = 1..Len(s) /\ \A i \in 1..Len(s) : s[i] \in Nat
      /\ s = [i \in 1..Len(s) |-> s[i]]
  BY LenProperties, ElementOfSeq
<1>2. S = {s[i] : i \in 1..Len(s)}
  BY <1>1 DEF ToSet
<1>3. \A i, j \in 1..Len(s) : s[i] < s[j] <=> i < j
  <2> TAKE i, j \in 1..Len(s)
  <2>1. s[i] \in Nat /\ s[j] \in Nat /\ i \in Nat /\ j \in Nat
    BY <1>1
  <2> QED
    BY <1>1, <2>1 DEF Ascending
<1>4. ASSUME NEW k \in 0..Len(s), NEW T, T = {s[i] : i \in 1..k}
      PROVE  IsFiniteSet(T) /\ Cardinality(T) = k
  <2> DEFINE f == [i \in 1..k |-> s[i]]
  <2>1. k \in Nat /\ 1..k \subseteq 1..Len(s)
    BY <1>1
  <2>2. \A i, j \in 1..k : s[i] = s[j] => i = j
    <3> TAKE i, j \in 1..k
    <3> HAVE s[i] = s[j]
    <3>1. ~(i < j) /\ ~(j < i)
      <4>1. s[i] \in Nat /\ s[j] \in Nat
        BY <1>1, <2>1
      <4>2. ~(s[i] < s[j]) /\ ~(s[j] < s[i])
        BY <4>1
      <4> QED
        BY <1>3, <2>1, <4>2
    <3> QED
      BY <3>1
  <2>3. f \in [1..k -> T] /\ (\A i, j \in 1..k : f[i] = f[j] => i = j)
        /\ (\A x \in T : \E i \in 1..k : f[i] = x)
    BY <1>4, <2>2
  <2>4. f \in Bijection(1..k, T)
    <3> HIDE DEF f
    <3> QED
      BY <2>3 DEF Bijection, Injection, Surjection, IsInjective
  <2>5. ExistsBijection(1..k, T)
    BY <2>4 DEF ExistsBijection
  <2> QED
    BY <2>1, <2>5, FS_CountingElements, FS_NatBijection
<1>5. S \in SUBSET Nat /\ IsFiniteSet(S) /\ Cardinality(S) = Len(s)
  <2>1. Len(s) \in 0..Len(s)
    BY <1>1
  <2> QED
    BY <1>1, <1>2, <1>4, <2>1
<1>6. ASSUME NEW i \in 1..Len(s)
      PROVE  Rank(S, s[i]) = i - 1
  <2>1. {y \in S : y < s[i]} = {s[j] : j \in 1..(i - 1)}
    <3>1. \A j \in 1..(i - 1) : j \in 1..Len(s) /\ j < i
      BY <1>1
    <3>2. \A j \in 1..Len(s) : j < i => j \in 1..(i - 1)
      BY <1>1
    <3> QED
      BY <1>2, <1>3, <3>1, <3>2
  <2>2. i - 1 \in 0..Len(s)
    BY <1>1
  <2> QED
    BY <1>4, <2>1, <2>2 DEF Rank
<1>7. ASSUME NEW i \in 1..Len(s)
      PROVE  Ranked(S, i - 1) = s[i]
  <2>1. s[i] \in S /\ Cardinality({y \in S : y < s[i]}) = i - 1
    BY <1>2, <1>6 DEF Rank
  <2>2. \A x \in S : Cardinality({y \in S : y < x}) = i - 1 => x = s[i]
    <3> SUFFICES ASSUME NEW j \in 1..Len(s), Rank(S, s[j]) = i - 1 PROVE s[j] = s[i]
      BY <1>2 DEF Rank
    <3>1. j - 1 = i - 1 /\ i \in Nat /\ j \in Nat
      BY <1>1, <1>6
    <3> QED
      BY <3>1
  <2> QED
    BY <2>1, <2>2 DEF Ranked
<1>8. Vector(S) = s
  BY <1>1, <1>5, <1>7 DEF Vector
<1> QED
  BY <1>5, <1>8

-----------------------------------------------------------------------------
(* The elements of a sequence that grows by one. *)
LEMMA ToSetAppend ==
  ASSUME NEW A, NEW s \in Seq(A), NEW x \in A
  PROVE  ToSet(Append(s, x)) = ToSet(s) \cup {x}
<1>1. PICK a : a = Append(s, x)
  OBVIOUS
<1>2. /\ Len(s) \in Nat /\ DOMAIN s = 1..Len(s)
      /\ a \in Seq(A) /\ Len(a) = Len(s) + 1 /\ DOMAIN a = 1..(Len(s) + 1)
      /\ \A j \in 1..Len(s) : a[j] = s[j]
      /\ a[Len(s) + 1] = x
  BY <1>1, LenProperties, AppendProperties
<1>3. \A j : j \in 1..(Len(s) + 1) <=> j \in 1..Len(s) \/ j = Len(s) + 1
  BY <1>2
<1> QED
  BY <1>1, <1>2, <1>3 DEF ToSet

(* Appending to the second part of a sequence.  (A name for the equation:  *)
(* the provers do not find their way through it when it is cited.)         *)
AppendsToBoth(p, q, x) == Append(p \o q, x) = p \o Append(q, x)

(* Appending to the second part appends to both.                           *)
LEMMA AppendConcat ==
  ASSUME NEW A, NEW p \in Seq(A), NEW q \in Seq(A), NEW x \in A
  PROVE  AppendsToBoth(p, q, x)
<1>1. p \o q \in Seq(A) /\ Append(q, x) \in Seq(A)
  BY ConcatProperties, AppendProperties
<1>2. Append(p \o q, x) \in Seq(A) /\ p \o Append(q, x) \in Seq(A)
  BY <1>1, ConcatProperties, AppendProperties
<1>3. /\ Len(p) \in Nat /\ Len(q) \in Nat
      /\ Len(Append(p \o q, x)) = Len(p) + Len(q) + 1
      /\ Len(p \o Append(q, x)) = Len(p) + Len(q) + 1
  BY <1>1, LenProperties, ConcatProperties, AppendProperties
<1>4. ASSUME NEW k \in 1..(Len(p) + Len(q) + 1)
      PROVE  Append(p \o q, x)[k] = (p \o Append(q, x))[k]
  BY <1>1, <1>3, ConcatProperties, AppendProperties
<1> QED
  BY <1>2, <1>3, <1>4, SeqEqual DEF AppendsToBoth

-----------------------------------------------------------------------------
(* Induction along an interval, for the numbers in a set. *)
LEMMA IntervalInduction ==
  ASSUME NEW n \in Nat, NEW T, 0 \in T, \A k \in 0..(n - 1) : k \in T => k + 1 \in T
  PROVE  \A k \in 0..n : k \in T
<1> DEFINE Bad == {k \in 0..n : k \notin T}
<1> SUFFICES ASSUME Bad # {} PROVE FALSE
  OBVIOUS
<1>1. PICK m \in Bad : \A k \in Bad : m <= k
  <2>1. Bad \in SUBSET Nat
    OBVIOUS
  <2> HIDE DEF Bad
  <2> QED
    BY <2>1, NatMin
<1>2. m \in 0..n /\ m # 0 /\ m - 1 \in 0..(n - 1) /\ m - 1 \notin Bad /\ (m - 1) + 1 = m
  BY <1>1
<1>3. m - 1 \in T
  BY <1>2
<1> QED
  BY <1>1, <1>2, <1>3

(* The greatest element of a part of an interval. *)
LEMMA IntervalMax ==
  ASSUME NEW n \in Nat, NEW ss \in SUBSET (1..n)
  PROVE  /\ IsFiniteSet(ss) /\ Cardinality(ss) \in 0..n
         /\ ss # {} => /\ Max(ss) \in 1..n /\ ss \ {Max(ss)} \in SUBSET (1..n)
                       /\ Cardinality(ss \ {Max(ss)}) = Cardinality(ss) - 1
<1>1. IsFiniteSet(1..n) /\ Cardinality(1..n) = n
  BY FS_Interval
<1>2. IsFiniteSet(ss) /\ Cardinality(ss) \in 0..n
  <2>1. IsFiniteSet(ss) /\ Cardinality(ss) <= Cardinality(1..n)
    BY <1>1, FS_Subset
  <2>2. Cardinality(ss) \in Nat
    BY <2>1, FS_CardinalityType
  <2> QED
    BY <1>1, <2>1, <2>2
<1>3. ASSUME ss # {}
      PROVE  Max(ss) \in ss
  <2>1. \E m \in ss : \A k \in ss : k <= m
    <3>1. ss \in SUBSET Nat /\ \A k \in ss : k <= n
      OBVIOUS
    <3> QED
      BY <1>3, <3>1, NatMax
  <2>2. \E m \in ss : \A k \in ss : m >= k
    BY <2>1
  <2> QED
    BY <2>2 DEF Max
<1> QED
  BY <1>2, <1>3, FS_RemoveElement

(* A recursion over the subsets of an interval that takes out the greatest *)
(* element has a solution: this is the recursion of FoldLeft.              *)
TakesMax(g, n, base, step) ==
  /\ g[{}] = base
  /\ \A ss \in SUBSET (1..n) : ss # {} => g[ss] = step[<<g[ss \ {Max(ss)}], Max(ss)>>]

(* Taking the greatest element away, again and again, defines one value    *)
(* for every part of 1..n.                                                 *)
LEMMA SubsetRecursion ==
  ASSUME NEW n \in Nat, NEW A, NEW base \in A, NEW step \in [A \X (1..n) -> A]
  PROVE  \E g \in [SUBSET (1..n) -> A] : TakesMax(g, n, base, step)
<1> DEFINE Dom == SUBSET (1..n)
           Next(g) == [ss \in Dom |->
                         IF ss = {} THEN base ELSE step[<<g[ss \ {Max(ss)}], Max(ss)>>]]
           T == {k \in 0..n : \E g \in [Dom -> A] :
                   \A ss \in Dom : Cardinality(ss) <= k => g[ss] = Next(g)[ss]}
<1>1. ASSUME NEW ss \in Dom
      PROVE  /\ IsFiniteSet(ss) /\ Cardinality(ss) \in 0..n
             /\ ss # {} => /\ Max(ss) \in 1..n /\ ss \ {Max(ss)} \in Dom
                           /\ Cardinality(ss \ {Max(ss)}) = Cardinality(ss) - 1
  BY IntervalMax
<1>2. ASSUME NEW g \in [Dom -> A]
      PROVE  Next(g) \in [Dom -> A]
  <2> SUFFICES ASSUME NEW ss \in Dom, ss # {}
               PROVE  step[<<g[ss \ {Max(ss)}], Max(ss)>>] \in A
    OBVIOUS
  <2>1. Max(ss) \in 1..n /\ ss \ {Max(ss)} \in Dom
    BY <1>1
  <2>2. g[ss \ {Max(ss)}] \in A
    BY <2>1
  <2>3. <<g[ss \ {Max(ss)}], Max(ss)>> \in A \X (1..n)
    BY <2>1, <2>2
  <2> QED
    BY <2>3
<1>3. ASSUME NEW ss \in Dom, Cardinality(ss) = 0
      PROVE  ss = {}
  BY <1>1, <1>3, FS_EmptySet
<1>4. 0 \in T
  <2> DEFINE g == [ss \in Dom |-> base]
  <2>1. g \in [Dom -> A] /\ 0 \in 0..n
    OBVIOUS
  <2>2. \A ss \in Dom : Cardinality(ss) <= 0 => g[ss] = Next(g)[ss]
    <3> TAKE ss \in Dom
    <3> HAVE Cardinality(ss) <= 0
    <3>1. Cardinality(ss) \in 0..n
      BY <1>1
    <3>2. Cardinality(ss) = 0
      BY <3>1
    <3>3. ss = {}
      BY <1>3, <3>2
    <3> QED
      BY <3>3
  <2> HIDE DEF g, Next
  <2> QED
    BY <2>1, <2>2
<1>5. ASSUME NEW k \in 0..(n - 1), k \in T
      PROVE  k + 1 \in T
  <2>1. PICK g \in [Dom -> A] : \A ss \in Dom : Cardinality(ss) <= k => g[ss] = Next(g)[ss]
    BY <1>5
  <2> DEFINE h == Next(g)
  <2>2. ASSUME NEW ss \in Dom, Cardinality(ss) <= k + 1
        PROVE  h[ss] = Next(h)[ss]
    <3>1. CASE ss = {}
      BY <3>1
    <3>2. CASE ss # {}
      <4>1. ss \ {Max(ss)} \in Dom /\ Cardinality(ss \ {Max(ss)}) = Cardinality(ss) - 1
            /\ Cardinality(ss) \in 0..n
        BY <1>1, <3>2
      <4>2. Cardinality(ss \ {Max(ss)}) <= k
        BY <2>2, <4>1
      <4>3. g[ss \ {Max(ss)}] = h[ss \ {Max(ss)}]
        BY <2>1, <4>1, <4>2
      <4> QED
        BY <3>2, <4>1, <4>3
    <3> QED
      BY <3>1, <3>2
  <2>3. h \in [Dom -> A]
    BY <1>2
  <2>4. k + 1 \in 0..n
    OBVIOUS
  <2> HIDE DEF h, Next
  <2> QED
    BY <2>2, <2>3, <2>4
<1>6. n \in T
  <2> HIDE DEF T
  <2>1. n \in 0..n
    OBVIOUS
  <2> QED
    BY <1>4, <1>5, <2>1, IntervalInduction
<1>7. PICK g \in [Dom -> A] : \A ss \in Dom : Cardinality(ss) <= n => g[ss] = Next(g)[ss]
  BY <1>6
<1>8. \A ss \in Dom : g[ss] = Next(g)[ss]
  <2> TAKE ss \in Dom
  <2>1. Cardinality(ss) \in 0..n
    BY <1>1
  <2>2. Cardinality(ss) <= n
    BY <2>1
  <2> HIDE DEF Next
  <2> QED
    BY <1>7, <2>2
<1>9. TakesMax(g, n, base, step)
  <2>1. {} \in Dom
    OBVIOUS
  <2> QED
    BY <1>8, <2>1 DEF TakesMax
<1> HIDE DEF T, Next
<1> QED
  BY <1>9

(* The subsets that recursion meets from 1..n on are the intervals.        *)
LEMMA PrefixIntervals ==
  ASSUME NEW n \in Nat
  PROVE  /\ 1..0 = {}
         /\ \A k \in 0..n : 1..k \in SUBSET (1..n)
         /\ \A k \in 1..n : 1..k # {} /\ Max(1..k) = k /\ (1..k) \ {k} = 1..(k - 1)
<1>1. ASSUME NEW k \in 1..n
      PROVE  Max(1..k) = k
  <2>1. k \in 1..k /\ \A y \in 1..k : k >= y
    OBVIOUS
  <2>2. \A x \in 1..k : (\A y \in 1..k : x >= y) => x = k
    BY <2>1
  <2> QED
    BY <2>1, <2>2 DEF Max
<1>2. ASSUME NEW k \in 1..n
      PROVE  1..k # {} /\ (1..k) \ {k} = 1..(k - 1)
  <2>1. k \in 1..k
    OBVIOUS
  <2>2. \A x : x \in (1..k) \ {k} <=> x \in 1..(k - 1)
    OBVIOUS
  <2> QED
    BY <2>1, <2>2
<1>3. \A k \in 0..n : 1..k \in SUBSET (1..n)
  OBVIOUS
<1>4. 1..0 = {}
  OBVIOUS
<1>5. \A k \in 1..n : 1..k # {} /\ Max(1..k) = k /\ (1..k) \ {k} = 1..(k - 1)
  BY <1>1, <1>2
<1> QED
  BY <1>3, <1>4, <1>5
-----------------------------------------------------------------------------
(* A walk along 1..n that goes on from p at to[p], never back, until it    *)
(* stays where it is: the function of its ends exists, ...                 *)
NeverBack(to, n) == \A p \in 1..n : p <= to[p]
Ends(g, n, to) == \A p \in 1..n : g[p] = IF to[p] = p THEN p ELSE g[to[p]]

(* A walk that never goes back ends somewhere, from every place.           *)
LEMMA WalkEnds ==
  ASSUME NEW n \in Nat, NEW to \in [1..n -> 1..n], NeverBack(to, n)
  PROVE  \E g \in [1..n -> 1..n] : Ends(g, n, to)
<1> DEFINE Step(g) == [p \in 1..n |-> IF to[p] = p THEN p ELSE g[to[p]]]
           T == {k \in 0..n : \E g \in [1..n -> 1..n] :
                   \A p \in 1..n : n - p < k => g[p] = Step(g)[p]}
<1>1. 0 \in T
  <2> DEFINE g == [p \in 1..n |-> p]
  <2>1. g \in [1..n -> 1..n] /\ 0 \in 0..n /\ \A p \in 1..n : ~(n - p < 0)
    OBVIOUS
  <2> HIDE DEF g, Step
  <2> QED
    BY <2>1
<1>2. ASSUME NEW k \in 0..(n - 1), k \in T
      PROVE  k + 1 \in T
  <2>1. PICK g \in [1..n -> 1..n] : \A p \in 1..n : n - p < k => g[p] = Step(g)[p]
    BY <1>2
  <2> DEFINE h == Step(g)
  <2>2. h \in [1..n -> 1..n]
    OBVIOUS
  <2>3. ASSUME NEW p \in 1..n, n - p < k + 1
        PROVE  h[p] = Step(h)[p]
    <3>1. CASE to[p] = p
      BY <3>1
    <3>2. CASE to[p] # p
      <4>1. to[p] \in 1..n /\ n - to[p] < k
        <5>1. PICK x \in 1..n : x = to[p] /\ p <= x /\ p # x
          BY <3>2 DEF NeverBack
        <5>2. p < x
          BY <5>1
        <5> QED
          BY <2>3, <5>1, <5>2
      <4>2. g[to[p]] = h[to[p]]
        BY <2>1, <4>1
      <4> QED
        BY <3>2, <4>1, <4>2
    <3> QED
      BY <3>1, <3>2
  <2>4. k + 1 \in 0..n
    OBVIOUS
  <2> HIDE DEF h, Step
  <2> QED
    BY <2>2, <2>3, <2>4
<1>3. n \in T
  <2> HIDE DEF T
  <2>1. n \in 0..n
    OBVIOUS
  <2> QED
    BY <1>1, <1>2, <2>1, IntervalInduction
<1>4. PICK g \in [1..n -> 1..n] : \A p \in 1..n : n - p < n => g[p] = Step(g)[p]
  BY <1>3
<1>5. \A p \in 1..n : g[p] = Step(g)[p]
  <2>1. \A p \in 1..n : n - p < n
    OBVIOUS
  <2> HIDE DEF Step
  <2> QED
    BY <1>4, <2>1
<1> QED
  BY <1>5 DEF Ends

(* ... and a walk comes to rest, with all it has passed over in between in *)
(* Past, if that is so for every leap of it.                               *)
Leaps(to, n, Past) == \A p \in 1..n : \A q \in p..(to[p] - 1) : q \in Past
Rests(g, p, n, to, Past) ==
  /\ g[p] \in p..n /\ to[g[p]] = g[p]
  /\ \A q \in p..(g[p] - 1) : q \in Past

(* It rests where it ends, and passes only what it may leap over.          *)
LEMMA WalkPasses ==
  ASSUME NEW n \in Nat, NEW to \in [1..n -> 1..n], NeverBack(to, n),
         NEW g, Ends(g, n, to),
         NEW Past, Leaps(to, n, Past)
  PROVE  \A p \in 1..n : Rests(g, p, n, to, Past)
<1> DEFINE T == {k \in 0..n : \A p \in 1..n : n - p < k => Rests(g, p, n, to, Past)}
<1>1. 0 \in T
  <2>1. 0 \in 0..n /\ \A p \in 1..n : ~(n - p < 0)
    OBVIOUS
  <2> QED
    BY <2>1
<1>2. ASSUME NEW k \in 0..(n - 1), k \in T
      PROVE  k + 1 \in T
  <2>1. ASSUME NEW p \in 1..n, n - p < k + 1
        PROVE  Rests(g, p, n, to, Past)
    <3>1. CASE to[p] = p
      <4>1. g[p] = p
        BY <3>1 DEF Ends
      <4>2. (\A q \in p..(p - 1) : q \in Past) /\ p \in p..n
        OBVIOUS
      <4> QED
        BY <3>1, <4>1, <4>2 DEF Rests
    <3>2. CASE to[p] # p
      <4>1. PICK x \in 1..n : x = to[p] /\ p < x /\ n - x < k
        <5>1. PICK x \in 1..n : x = to[p] /\ p <= x /\ p # x
          BY <3>2 DEF NeverBack
        <5>2. p < x
          BY <5>1
        <5>3. n - x < k
          BY <2>1, <5>2
        <5> QED
          BY <5>1, <5>2, <5>3
      <4>2. Rests(g, x, n, to, Past)
        BY <1>2, <4>1
      <4>3. g[p] = g[x]
        BY <3>2, <4>1 DEF Ends
      <4>4. PICK y \in x..n : y = g[x] /\ to[y] = y /\ \A q \in x..(y - 1) : q \in Past
        BY <4>2 DEF Rests
      <4>5. y \in p..n
        <5>1. p < x
          BY <4>1
        <5> QED
          BY <5>1
      <4>6. \A q \in p..(x - 1) : q \in Past
        BY <4>1 DEF Leaps
      <4>7. \A q \in p..(y - 1) : q \in p..(x - 1) \/ q \in x..(y - 1)
        <5>1. p < x
          BY <4>1
        <5> QED
          BY <5>1
      <4>8. \A q \in p..(y - 1) : q \in Past
        BY <4>4, <4>6, <4>7
      <4> QED
        BY <4>3, <4>4, <4>5, <4>8 DEF Rests
    <3> QED
      BY <3>1, <3>2
  <2>2. k + 1 \in 0..n
    OBVIOUS
  <2> QED
    BY <2>1, <2>2
<1>3. n \in T
  <2> HIDE DEF T
  <2>1. n \in 0..n
    OBVIOUS
  <2> QED
    BY <1>1, <1>2, <2>1, IntervalInduction
<1>4. \A p \in 1..n : n - p < n
  OBVIOUS
<1> QED
  BY <1>3, <1>4
=============================================================================
