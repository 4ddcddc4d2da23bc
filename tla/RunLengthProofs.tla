-------------------------- MODULE RunLengthProofs ---------------------------
(***************************************************************************)
(* Proofs about RunLength, for every string of runs that encode accepts.   *)
(* A string is taken as the code of a list of runs (Coded) with a          *)
(* terminator or, where a last run of 1s has grown over it, without.       *)
(* BlocksOf reads the runs back; each arm of set exchanges the code of a   *)
(* few neighbouring runs for that of others that are canonical too and     *)
(* differ in one position; an iterator yields the 1s in order.             *)
(***************************************************************************)
EXTENDS RunLength, VectorProofs

-----------------------------------------------------------------------------
(* Sequences one after the other.                                          *)

(* The sequences that FlattenSeq builds up, one for each prefix. *)
Flattens(f, seqs) ==
  f = [i \in 1..Len(seqs) |-> IF i = 1 THEN seqs[i] ELSE f[i - 1] \o seqs[i]]

(* The recursion of FlattenSeq has a solution. *)
LEMMA FlattensExists ==
  ASSUME NEW A, NEW seqs \in Seq(Seq(A)), seqs # <<>>
  PROVE  \E f \in [1..Len(seqs) -> Seq(A)] : Flattens(f, seqs)
<1> DEFINE n == Len(seqs)
           T == {k \in 0..n : \E f \in [1..n -> Seq(A)] :
                   \A i \in 1..k : f[i] = IF i = 1 THEN seqs[i] ELSE f[i - 1] \o seqs[i]}
<1>1. n \in Nat /\ \A i \in 1..n : seqs[i] \in Seq(A)
  BY LenProperties, ElementOfSeq
<1>2. 0 \in T
  <2> DEFINE f == [i \in 1..n |-> seqs[i]]
  <2>1. f \in [1..n -> Seq(A)]
    BY <1>1
  <2>2. 0 \in 0..n /\ \A i \in 1..0 : FALSE
    BY <1>1
  <2> QED
    BY <2>1, <2>2
<1>3. ASSUME NEW k \in 0..(n - 1), k \in T
      PROVE  k + 1 \in T
  <2>1. PICK f \in [1..n -> Seq(A)] :
          \A i \in 1..k : f[i] = IF i = 1 THEN seqs[i] ELSE f[i - 1] \o seqs[i]
    BY <1>3
  <2> DEFINE x == IF k = 0 THEN seqs[1] ELSE f[k] \o seqs[k + 1]
             g == [i \in 1..n |-> IF i = k + 1 THEN x ELSE f[i]]
  <2>2. k + 1 \in 1..n /\ k \in Nat /\ (k # 0 => k \in 1..n)
    BY <1>1
  <2>3. x \in Seq(A)
    <3>1. CASE k = 0
      BY <1>1, <2>2, <3>1
    <3>2. CASE k # 0
      <4>1. f[k] \in Seq(A) /\ seqs[k + 1] \in Seq(A)
        BY <1>1, <2>2, <3>2
      <4> QED
        BY <3>2, <4>1, ConcatProperties
    <3> QED
      BY <3>1, <3>2
  <2>4. g \in [1..n -> Seq(A)] /\ g[k + 1] = x /\ \A i \in 1..k : g[i] = f[i]
    <3> HIDE DEF x
    <3> QED
      BY <1>1, <2>2, <2>3
  <2>5. ASSUME NEW i \in 1..(k + 1)
        PROVE  g[i] = IF i = 1 THEN seqs[i] ELSE g[i - 1] \o seqs[i]
    <3> HIDE DEF g
    <3>1. CASE i = k + 1
      <4>1. CASE k = 0
        BY <2>4, <3>1, <4>1
      <4>2. CASE k # 0
        <5>1. i # 1 /\ i - 1 = k /\ k \in 1..k
          BY <2>2, <3>1, <4>2
        <5> QED
          BY <2>4, <3>1, <4>2, <5>1
      <4> QED
        BY <4>1, <4>2
    <3>2. CASE i # k + 1
      <4>1. i \in 1..k /\ (i # 1 => i - 1 \in 1..k)
        BY <2>2, <3>2
      <4> QED
        BY <2>1, <2>4, <4>1
    <3> QED
      BY <3>1, <3>2
  <2>6. k + 1 \in 0..n
    BY <2>2
  <2> HIDE DEF g
  <2> QED
    BY <2>4, <2>5, <2>6
<1>4. n \in T
  <2> HIDE DEF T
  <2>1. n \in 0..n
    BY <1>1
  <2> QED
    BY <1>1, <1>2, <1>3, <2>1, IntervalInduction
<1>5. PICK f \in [1..n -> Seq(A)] :
        \A i \in 1..n : f[i] = IF i = 1 THEN seqs[i] ELSE f[i - 1] \o seqs[i]
  BY <1>4
<1> QED
  BY <1>5 DEF Flattens

FlatFun(seqs) == CHOOSE f : Flattens(f, seqs)

(* FlattenSeq is its recursion: each prefix is the one before it and one   *)
(* sequence more.                                                          *)
LEMMA FlattenRecursion ==
  ASSUME NEW A, NEW seqs \in Seq(Seq(A))
  PROVE  /\ seqs = <<>> => FlattenSeq(seqs) = <<>>
         /\ seqs # <<>> => /\ FlattenSeq(seqs) = FlatFun(seqs)[Len(seqs)]
                           /\ Len(seqs) \in Nat \ {0}
                           /\ \A i \in 1..Len(seqs) : FlatFun(seqs)[i] \in Seq(A)
                           /\ FlatFun(seqs)[1] = seqs[1]
                           /\ \A i \in 2..Len(seqs) :
                                FlatFun(seqs)[i] = FlatFun(seqs)[i - 1] \o seqs[i]
<1>1. Len(seqs) \in Nat /\ (seqs = <<>> <=> Len(seqs) = 0)
  BY LenProperties, EmptySeq
<1>2. CASE seqs = <<>>
  BY <1>1, <1>2 DEF FlattenSeq
<1>3. CASE seqs # <<>>
  <2>1. FlattenSeq(seqs) = FlatFun(seqs)[Len(seqs)]
    BY <1>1, <1>3, Zenon DEF FlattenSeq, FlatFun, Flattens
  <2>2. \E f \in [1..Len(seqs) -> Seq(A)] : Flattens(f, seqs)
    BY <1>3, FlattensExists
  <2>3. PICK g : g = FlatFun(seqs) /\ Flattens(g, seqs)
    BY <2>2, Zenon DEF FlatFun
  <2>4. PICK f \in [1..Len(seqs) -> Seq(A)] : Flattens(f, seqs)
    BY <2>2
  <2>5. \A i \in 1..Len(seqs) : g[i] = IF i = 1 THEN seqs[i] ELSE g[i - 1] \o seqs[i]
    BY <2>3 DEF Flattens
  <2>6. ASSUME NEW i \in 1..Len(seqs) PROVE g[i] \in Seq(A)
    <3> DEFINE S == {k \in 0..Len(seqs) : \A j \in 1..k : g[j] = f[j]}
    <3>1. 0 \in S
      BY <1>1
    <3>2. ASSUME NEW k \in 0..(Len(seqs) - 1), k \in S
          PROVE  k + 1 \in S
      <4>1. k + 1 \in 0..Len(seqs) /\ k + 1 \in 1..Len(seqs) /\ \A j \in 1..k : g[j] = f[j]
        BY <1>1, <3>2
      <4>2. g[k + 1] = f[k + 1]
        <5>1. f[k + 1] = IF k + 1 = 1 THEN seqs[k + 1] ELSE f[(k + 1) - 1] \o seqs[k + 1]
          BY <2>4, <4>1 DEF Flattens
        <5>2. g[k + 1] = IF k + 1 = 1 THEN seqs[k + 1] ELSE g[(k + 1) - 1] \o seqs[k + 1]
          BY <2>5, <4>1
        <5>3. CASE k = 0
          BY <5>1, <5>2, <5>3
        <5>4. CASE k # 0
          <6>1. (k + 1) - 1 = k /\ k \in 1..k /\ k + 1 # 1
            BY <5>4
          <6>2. g[k] = f[k]
            BY <4>1, <6>1
          <6> QED
            BY <5>1, <5>2, <6>1, <6>2
        <5> QED
          BY <5>3, <5>4
      <4>3. \A j \in 1..(k + 1) : j \in 1..k \/ j = k + 1
        OBVIOUS
      <4> QED
        BY <4>1, <4>2, <4>3
    <3>3. Len(seqs) \in S
      <4> HIDE DEF S
      <4>1. Len(seqs) \in 0..Len(seqs)
        BY <1>1
      <4> QED
        BY <1>1, <3>1, <3>2, <4>1, IntervalInduction
    <3> QED
      BY <3>3
  <2>7. 1 \in 1..Len(seqs) /\ \A i \in 2..Len(seqs) : i \in 1..Len(seqs) /\ i # 1
    BY <1>1, <1>3
  <2> QED
    BY <1>1, <1>3, <2>1, <2>3, <2>5, <2>6, <2>7
<1> QED
  BY <1>2, <1>3

(* Sequences over A, one after the other, are a sequence over A. *)
LEMMA FlattenType ==
  ASSUME NEW A, NEW seqs \in Seq(Seq(A))
  PROVE  FlattenSeq(seqs) \in Seq(A)
<1>1. CASE seqs = <<>>
  BY <1>1, FlattenRecursion, EmptySeq
<1>2. CASE seqs # <<>>
  <2>1. /\ FlattenSeq(seqs) = FlatFun(seqs)[Len(seqs)] /\ Len(seqs) \in Nat \ {0}
        /\ \A i \in 1..Len(seqs) : FlatFun(seqs)[i] \in Seq(A)
    BY <1>2, FlattenRecursion
  <2>2. Len(seqs) \in 1..Len(seqs)
    BY <2>1
  <2> QED
    BY <2>1, <2>2
<1> QED
  BY <1>1, <1>2

(* Flattening a sequence with one more element, and one of one element. *)
LEMMA FlattenAppend ==
  ASSUME NEW A, NEW s \in Seq(Seq(A)), NEW x \in Seq(A)
  PROVE  /\ s \o <<x>> \in Seq(Seq(A))
         /\ FlattenSeq(s \o <<x>>) = FlattenSeq(s) \o x
         /\ FlattenSeq(<<x>>) = x
<1> DEFINE t == s \o <<x>>
<1>1. /\ Len(s) \in Nat /\ (s = <<>> <=> Len(s) = 0)
      /\ <<x>> \in Seq(Seq(A)) /\ Len(<<x>>) = 1 /\ <<x>>[1] = x
  BY LenProperties, EmptySeq
<1>2. /\ t \in Seq(Seq(A)) /\ Len(t) = Len(s) + 1 /\ t # <<>>
      /\ \A i \in 1..Len(s) : t[i] = s[i]
      /\ t[Len(s) + 1] = x
  <2>1. /\ t \in Seq(Seq(A)) /\ Len(t) = Len(s) + 1
        /\ \A i \in 1..(Len(s) + 1) : t[i] = IF i <= Len(s) THEN s[i] ELSE <<x>>[i - Len(s)]
    BY <1>1, ConcatProperties
  <2>2. t # <<>>
    BY <1>1, <2>1, EmptySeq
  <2> HIDE DEF t
  <2> QED
    BY <1>1, <2>1, <2>2
<1>3. FlattenSeq(<<x>>) = x
  <2>1. <<x>> # <<>>
    BY <1>1, EmptySeq
  <2> QED
    BY <1>1, <2>1, FlattenRecursion
<1> HIDE DEF t
<1>4. FlattenSeq(t) = FlattenSeq(s) \o x
  <2>1. CASE s = <<>>
    <3>1. Len(t) = 1 /\ t[1] = x
      BY <1>1, <1>2, <2>1
    <3>2. FlattenSeq(t) = x
      BY <1>2, <3>1, FlattenRecursion
    <3>3. FlattenSeq(s) = <<>>
      BY <2>1, FlattenRecursion
    <3> QED
      BY <3>2, <3>3, ConcatEmptySeq
  <2>2. CASE s # <<>>
    <3> DEFINE n == Len(s)
               S == {k \in 0..n : \A j \in 1..k : FlatFun(t)[j] = FlatFun(s)[j]}
    <3>1. PICK f : f = FlatFun(s)
      OBVIOUS
    <3>2. PICK g : g = FlatFun(t)
      OBVIOUS
    <3>3. /\ n \in Nat \ {0} /\ f[1] = s[1] /\ \A i \in 2..n : f[i] = f[i - 1] \o s[i]
          /\ FlattenSeq(s) = f[n]
      BY <2>2, <3>1, FlattenRecursion
    <3>4. /\ Len(t) = n + 1 /\ g[1] = t[1] /\ \A i \in 2..(n + 1) : g[i] = g[i - 1] \o t[i]
          /\ FlattenSeq(t) = g[n + 1]
      BY <1>2, <3>2, FlattenRecursion
    <3>5. 0 \in S
      BY <3>3
    <3>6. ASSUME NEW k \in 0..(n - 1), k \in S
          PROVE  k + 1 \in S
      <4>1. k + 1 \in 0..n /\ k + 1 \in 1..n /\ \A j \in 1..k : g[j] = f[j]
        BY <3>1, <3>2, <3>3, <3>6
      <4>2. g[k + 1] = f[k + 1]
        <5>1. CASE k = 0
          BY <1>2, <3>3, <3>4, <4>1, <5>1
        <5>2. CASE k # 0
          <6>1. (k + 1) - 1 = k /\ k \in 1..k /\ k + 1 \in 2..n /\ k + 1 \in 2..(n + 1)
            BY <4>1, <5>2
          <6>2. g[k + 1] = g[k] \o t[k + 1] /\ f[k + 1] = f[k] \o s[k + 1]
            BY <3>3, <3>4, <6>1
          <6> QED
            BY <1>2, <4>1, <6>1, <6>2
        <5> QED
          BY <5>1, <5>2
      <4>3. \A j \in 1..(k + 1) : j \in 1..k \/ j = k + 1
        OBVIOUS
      <4> QED
        BY <3>1, <3>2, <4>1, <4>2, <4>3
    <3>7. n \in S
      <4> HIDE DEF S
      <4>1. n \in 0..n
        BY <1>1
      <4> QED
        BY <1>1, <3>5, <3>6, <4>1, IntervalInduction
    <3>8. g[n] = f[n] /\ n + 1 \in 2..(n + 1) /\ (n + 1) - 1 = n
      BY <3>1, <3>2, <3>3, <3>7
    <3> QED
      BY <1>2, <3>3, <3>4, <3>8
  <2> QED
    BY <2>1, <2>2
<1> QED
  BY <1>2, <1>3, <1>4 DEF t

(* The equation, under a name.                                              *)
FlattensToBoth(s, t) == FlattenSeq(s \o t) = FlattenSeq(s) \o FlattenSeq(t)

(* Flattening distributes over concatenation. *)
LEMMA FlattenConcat ==
  ASSUME NEW A, NEW s \in Seq(Seq(A)), NEW t \in Seq(Seq(A))
  PROVE  FlattensToBoth(s, t)
<1> DEFINE n == Len(t)
           part(k) == SubSeq(t, 1, k)
           S == {k \in 0..n : FlattensToBoth(s, part(k))}
<1>1. n \in Nat /\ \A k \in 0..n : part(k) \in Seq(Seq(A))
  <2>1. n \in Nat /\ \A i \in 1..n : t[i] \in Seq(A)
    BY LenProperties, ElementOfSeq
  <2>2. ASSUME NEW k \in 0..n PROVE part(k) \in Seq(Seq(A))
    <3>1. k \in Int /\ 1 \in Int /\ \A i \in 1..k : t[i] \in Seq(A)
      BY <2>1
    <3> QED
      BY <3>1, SubSeqProperties
  <2> QED
    BY <2>1, <2>2
<1>2. 0 \in S
  <2>1. part(0) = <<>>
    BY SubSeqEmpty
  <2>2. FlattenSeq(<<>>) = <<>>
    <3>1. <<>> \in Seq(Seq(A))
      BY EmptySeq
    <3> QED
      BY <3>1, FlattenRecursion
  <2>3. s \o <<>> = s
    BY ConcatEmptySeq
  <2>4. FlattenSeq(s) \o <<>> = FlattenSeq(s)
    BY FlattenType, ConcatEmptySeq
  <2>5. FlattensToBoth(s, <<>>)
    BY <2>2, <2>3, <2>4 DEF FlattensToBoth
  <2>6. 0 \in 0..n
    BY <1>1
  <2>7. FlattensToBoth(s, part(0))
    BY <2>1, <2>5
  <2> HIDE DEF part
  <2> QED
    BY <2>6, <2>7
<1>3. ASSUME NEW k \in 0..(n - 1), k \in S
      PROVE  k + 1 \in S
  <2>1. /\ k \in 0..n /\ k + 1 \in 0..n /\ k + 1 \in 1..n /\ k \in Nat
        /\ FlattensToBoth(s, part(k))
    BY <1>1, <1>3
  <2>2. PICK x : x = t[k + 1]
    OBVIOUS
  <2>3. x \in Seq(A)
    BY <2>1, <2>2, ElementOfSeq
  <2>4. part(k + 1) = part(k) \o <<x>>
    <3>1. 1 \in 1..Len(t) /\ k + 1 \in 1..Len(t) /\ (k + 1) - 1 = k
      BY <1>1, <2>1
    <3> QED
      BY <2>2, <3>1, SubSeqRecursiveSecond
  <2>5. PICK p \in Seq(Seq(A)) : p = part(k)
    BY <1>1, <2>1
  <2>6. s \o (p \o <<x>>) = (s \o p) \o <<x>>
    <3>1. <<x>> \in Seq(Seq(A))
      BY <2>3
    <3> QED
      BY <3>1, ConcatAssociative
  <2>7. s \o p \in Seq(Seq(A)) /\ FlattenSeq(s) \in Seq(A) /\ FlattenSeq(p) \in Seq(A)
    BY FlattenType, ConcatProperties
  <2>8. FlattenSeq(s \o (p \o <<x>>)) = (FlattenSeq(s) \o FlattenSeq(p)) \o x
    <3>1. FlattenSeq((s \o p) \o <<x>>) = FlattenSeq(s \o p) \o x
      BY <2>3, <2>7, FlattenAppend
    <3>2. FlattenSeq(s \o p) = FlattenSeq(s) \o FlattenSeq(p)
      BY <2>1, <2>5 DEF FlattensToBoth
    <3> QED
      BY <2>6, <3>1, <3>2
  <2>9. (FlattenSeq(s) \o FlattenSeq(p)) \o x = FlattenSeq(s) \o FlattenSeq(p \o <<x>>)
    <3>1. FlattenSeq(p \o <<x>>) = FlattenSeq(p) \o x
      BY <2>3, FlattenAppend
    <3>2. (FlattenSeq(s) \o FlattenSeq(p)) \o x = FlattenSeq(s) \o (FlattenSeq(p) \o x)
      BY <2>3, <2>7, ConcatAssociative
    <3> QED
      BY <3>1, <3>2
  <2>10. FlattensToBoth(s, p \o <<x>>)
    BY <2>8, <2>9 DEF FlattensToBoth
  <2> QED
    BY <2>1, <2>4, <2>5, <2>10
<1>4. n \in S
  <2> HIDE DEF S
  <2>1. n \in 0..n
    BY <1>1
  <2> QED
    BY <1>1, <1>2, <1>3, <2>1, IntervalInduction
<1>5. part(n) = t
  BY SubSeqFull
<1> QED
  BY <1>4, <1>5

-----------------------------------------------------------------------------
(* The bytes of a block.                                                   *)

(* A run of equal bits, as long as encode() accepts. *)
Bytes == 0..255
MaxRun == 2^29 - 1
Runs == [bit : 0..1, run : 1..MaxRun]

Enc(x) == encode(x.bit, x.run)

(* The powers of two that the coding uses. *)
LEMMA Powers ==
  /\ 2^5 = 32 /\ 2^7 = 128 /\ 2^8 = 256 /\ 2^13 = 8192 /\ 2^21 = 2097152 /\ 2^29 = 536870912
  /\ 2^(8 * 1 - 3) = 32 /\ 2^(8 * 2 - 3) = 8192 /\ 2^(8 * 3 - 3) = 2097152
  /\ 2^(8 * 2 - 11) = 32 /\ 2^(8 * 3 - 11) = 8192 /\ 2^(8 * 4 - 11) = 2097152
BY SMT

(* The width of a block, with the powers worked out. *)
LEMMA BlockLengths ==
  ASSUME NEW r \in Nat
  PROVE  /\ blocklength(r) \in 1..4
         /\ blocklength(r) = IF r < 32 THEN 1 ELSE IF r < 8192 THEN 2
                             ELSE IF r < 2097152 THEN 3 ELSE 4
BY SMT, Powers DEF blocklength

(* encode returns as many bytes as blocklength says. *)
LEMMA EncodeBytes ==
  ASSUME NEW bit \in 0..1, NEW r \in Nat
  PROVE  /\ encode(bit, r) \in Seq(Bytes)
         /\ Len(encode(bit, r)) = blocklength(r)
         /\ \A k \in 1..blocklength(r) : encode(bit, r)[k] = ByteOf(bit, r, blocklength(r), k)
<1> DEFINE l == blocklength(r)
<1>1. l \in 1..4
  BY SMT, BlockLengths
<1> HIDE DEF l
<1>2. /\ ByteOf(bit, r, l, 1) = bit * 128 + (l - 1) * 32 + (r % 32)
      /\ ByteOf(bit, r, l, 2) = (r \div 32) % 256
      /\ ByteOf(bit, r, l, 3) = (r \div 8192) % 256
      /\ ByteOf(bit, r, l, 4) = (r \div 2097152) % 256
  BY SMT, Powers DEF ByteOf
<1>3. r % 32 \in 0..31 /\ \A d \in {32, 8192, 2097152} : (r \div d) % 256 \in Bytes
  BY SMT DEF Bytes
<1>4. \A k \in 1..l : ByteOf(bit, r, l, k) \in Bytes
  <2>1. ByteOf(bit, r, l, 1) \in Bytes
    BY SMT, <1>1, <1>2, <1>3 DEF Bytes
  <2>2. \A k \in 1..l : k = 1 \/ k = 2 \/ k = 3 \/ k = 4
    BY SMT, <1>1
  <2> QED
    BY SMT, <1>2, <1>3, <2>1, <2>2
<1>5. encode(bit, r) = [k \in 1..l |-> ByteOf(bit, r, l, k)]
  BY SMT DEF encode, l
<1>6. encode(bit, r) \in Seq(Bytes) /\ Len(encode(bit, r)) = l
  <2>1. encode(bit, r) \in [1..l -> Bytes] /\ DOMAIN encode(bit, r) = 1..l /\ l \in Nat
    BY SMT, <1>1, <1>4, <1>5
  <2> QED
    BY SMT, <2>1, SeqDef, LenProperties
<1> QED
  BY SMT, <1>1, <1>2, <1>5, <1>6 DEF l

(* The three parts of the first byte of a block can be told apart. *)
LEMMA ByteParts ==
  ASSUME NEW bit \in 0..1, NEW l \in 1..4, NEW m \in 0..31, NEW b, b = bit * 128 + (l - 1) * 32 + m
  PROVE  b \div 128 = bit /\ ((b \div 32) % 4) + 1 = l /\ b % 32 = m
<1>1. (bit = 0 \/ bit = 1) /\ (l = 1 \/ l = 2 \/ l = 3 \/ l = 4)
  BY SMT
<1>2. CASE bit = 0
  <2>1. b = (l - 1) * 32 + m
    BY SMT, <1>2
  <2> QED
    BY SMT, <1>1, <1>2, <2>1
<1>3. CASE bit = 1
  <2>1. b = 128 + (l - 1) * 32 + m
    BY SMT, <1>3
  <2> QED
    BY SMT, <1>1, <1>3, <2>1
<1> QED
  BY SMT, <1>1, <1>2, <1>3

(* The bytes of such a run stand at p. *)
Stands(data, p, bit, r) ==
  \A k \in 1..blocklength(r) : Byte(data, p + k - 1) = encode(bit, r)[k]

(* A reader of an encoded run finds the run again. *)
LEMMA Decodes ==
  ASSUME NEW bit \in 0..1, NEW r \in 1..MaxRun, NEW data, NEW p \in Nat, NEW v,
         Stands(data, p, bit, r)
  PROVE  block(data, p, v)
           = [at |-> p, value |-> v, length |-> blocklength(r), bit |-> bit, run |-> r]
<1> DEFINE l == blocklength(r)
           b == Byte(data, p)
<1>1. l \in 1..4 /\ r \in Nat
  BY SMT, BlockLengths DEF MaxRun
<1>2. /\ b = bit * 128 + (l - 1) * 32 + (r % 32)
      /\ l >= 2 => Byte(data, p + 1) = (r \div 32) % 256
      /\ l >= 3 => Byte(data, p + 2) = (r \div 8192) % 256
      /\ l >= 4 => Byte(data, p + 3) = (r \div 2097152) % 256
  <2>1. 1 \in 1..l /\ (l >= 2 => 2 \in 1..l) /\ (l >= 3 => 3 \in 1..l) /\ (l >= 4 => 4 \in 1..l)
    BY SMT, <1>1
  <2>2. PICK e : e = encode(bit, r)
    BY SMT
  <2>3. \A k \in 1..l : Byte(data, p + k - 1) = e[k]
    BY SMT, <2>2 DEF Stands
  <2>4. Byte(data, p) = e[1]
    <3>1. p + 1 - 1 = p
      BY SMT
    <3> QED
      BY SMT, <2>1, <2>3, <3>1
  <2>5. l >= 2 => Byte(data, p + 1) = e[2]
    <3>1. p + 2 - 1 = p + 1
      BY SMT
    <3> QED
      BY SMT, <2>1, <2>3, <3>1
  <2>6. l >= 3 => Byte(data, p + 2) = e[3]
    <3>1. p + 3 - 1 = p + 2
      BY SMT
    <3> QED
      BY SMT, <2>1, <2>3, <3>1
  <2>7. l >= 4 => Byte(data, p + 3) = e[4]
    <3>1. p + 4 - 1 = p + 3
      BY SMT
    <3> QED
      BY SMT, <2>1, <2>3, <3>1
  <2> HIDE DEF b
  <2>8. \A k \in 1..l : e[k] = ByteOf(bit, r, l, k)
    BY <1>1, <2>2, EncodeBytes
  <2>9. /\ e[1] = bit * 128 + (l - 1) * 32 + (r % 32)
        /\ l >= 2 => e[2] = (r \div 32) % 256
        /\ l >= 3 => e[3] = (r \div 8192) % 256
        /\ l >= 4 => e[4] = (r \div 2097152) % 256
    <3>1. /\ ByteOf(bit, r, l, 1) = bit * 128 + (l - 1) * 32 + (r % 32)
          /\ ByteOf(bit, r, l, 2) = (r \div 32) % 256
          /\ ByteOf(bit, r, l, 3) = (r \div 8192) % 256
          /\ ByteOf(bit, r, l, 4) = (r \div 2097152) % 256
      <4> HIDE DEF l
      <4> QED
        BY SMT, Powers DEF ByteOf
    <3> HIDE DEF l
    <3> QED
      BY SMT, <2>1, <2>8, <3>1
  <2> QED
    BY SMT, <2>4, <2>5, <2>6, <2>7, <2>9 DEF b
<1>3. r % 32 \in 0..31
  BY SMT, <1>1
<1>4. b \div 128 = bit /\ ((b \div 32) % 4) + 1 = l /\ b % 32 = r % 32
  <2> HIDE DEF b, l
  <2> QED
    BY SMT, <1>1, <1>2, <1>3, ByteParts
<1>5. /\ l = 1 => r = r % 32
      /\ l = 2 => r = (r % 32) + ((r \div 32) % 256) * 32
      /\ l = 3 => r = (r % 32) + ((r \div 32) % 256) * 32 + ((r \div 8192) % 256) * 8192
      /\ l = 4 => r = (r % 32) + ((r \div 32) % 256) * 32 + ((r \div 8192) % 256) * 8192
                        + ((r \div 2097152) % 256) * 2097152
  BY SMT, <1>1, BlockLengths DEF MaxRun
<1> DEFINE further(k) == IF k < l THEN Byte(data, p + k) * 2^(8 * k - 3) ELSE 0
<1>6. r = (b % 32) + further(1) + further(2) + further(3)
  <2>1. /\ l < 2 => further(1) = 0
        /\ l >= 2 => further(1) = ((r \div 32) % 256) * 32
        /\ l < 3 => further(2) = 0
        /\ l >= 3 => further(2) = ((r \div 8192) % 256) * 8192
        /\ l < 4 => further(3) = 0
        /\ l >= 4 => further(3) = ((r \div 2097152) % 256) * 2097152
    BY SMT, <1>1, <1>2, Powers
  <2> HIDE DEF further, l, b
  <2>2. l = 1 \/ l = 2 \/ l = 3 \/ l = 4
    BY SMT, <1>1
  <2> QED
    BY SMT, <1>1, <1>4, <1>5, <2>1, <2>2
<1>7. block(data, p, v) = [at |-> p, value |-> v, length |-> ((b \div 32) % 4) + 1,
                           bit |-> b \div 128, run |-> (b % 32) + further(1) + further(2) + further(3)]
  <2>1. ((b \div 2^5) % 4) + 1 = l /\ b \div 2^7 = b \div 128 /\ b % 2^5 = b % 32
    BY SMT, <1>4, Powers
  <2> QED
    BY SMT, <1>4, <2>1 DEF block
<1> QED
  BY SMT, <1>4, <1>6, <1>7

-----------------------------------------------------------------------------
(* Runs of equal bits, and the string that codes them.                     *)

(* A sequence each element of which stands for a sequence, spelled out. *)
Speller(F, D, A) == F \in [D -> Seq(A)]
Mapped(F, s) == [n \in 1..Len(s) |-> F[s[n]]]
Spelled(F, s) == FlattenSeq(Mapped(F, s))

(* A function on 1..n is a sequence. *)
LEMMA IntervalSeq ==
  ASSUME NEW S, NEW n \in Nat, NEW f \in [1..n -> S]
  PROVE  f \in Seq(S) /\ Len(f) = n
BY SeqDef, LenProperties

(* What spelling out makes of the elements. *)
LEMMA MappedType ==
  ASSUME NEW D, NEW A, NEW F, Speller(F, D, A), NEW s \in Seq(D)
  PROVE  /\ Mapped(F, s) \in Seq(Seq(A)) /\ Len(Mapped(F, s)) = Len(s)
         /\ \A n \in 1..Len(s) : Mapped(F, s)[n] = F[s[n]]
<1>1. Len(s) \in Nat /\ \A n \in 1..Len(s) : s[n] \in D
  BY LenProperties, ElementOfSeq
<1>2. Mapped(F, s) \in [1..Len(s) -> Seq(A)]
  BY <1>1 DEF Mapped, Speller
<1>3. Mapped(F, s) \in Seq(Seq(A)) /\ Len(Mapped(F, s)) = Len(s)
  BY <1>1, <1>2, IntervalSeq
<1>4. \A n \in 1..Len(s) : Mapped(F, s)[n] = F[s[n]]
  BY DEF Mapped
<1> QED
  BY <1>3, <1>4

(* Spelling out goes element by element. *)
LEMMA MappedConcat ==
  ASSUME NEW D, NEW A, NEW F, Speller(F, D, A), NEW s \in Seq(D), NEW t \in Seq(D)
  PROVE  Mapped(F, s \o t) = Mapped(F, s) \o Mapped(F, t)
<1>1. /\ s \o t \in Seq(D) /\ Len(s \o t) = Len(s) + Len(t) /\ Len(s) \in Nat /\ Len(t) \in Nat
      /\ \A n \in 1..(Len(s) + Len(t)) : (s \o t)[n] = IF n <= Len(s) THEN s[n] ELSE t[n - Len(s)]
  BY LenProperties, ConcatProperties
<1>2. PICK st \in Seq(D) : st = s \o t
  BY <1>1
<1>3. PICK ms \in Seq(Seq(A)) : ms = Mapped(F, s)
  BY MappedType
<1>4. PICK mt \in Seq(Seq(A)) : mt = Mapped(F, t)
  BY MappedType
<1>5. PICK mst \in Seq(Seq(A)) : mst = Mapped(F, st)
  BY MappedType
<1>6. Len(ms) = Len(s) /\ \A n \in 1..Len(s) : ms[n] = F[s[n]]
  <2>1. Len(Mapped(F, s)) = Len(s)
    BY MappedType
  <2>2. \A n \in 1..Len(s) : Mapped(F, s)[n] = F[s[n]]
    BY MappedType
  <2> QED
    BY <1>3, <2>1, <2>2
<1>7. Len(mt) = Len(t) /\ \A n \in 1..Len(t) : mt[n] = F[t[n]]
  <2>1. Len(Mapped(F, t)) = Len(t)
    BY MappedType
  <2>2. \A n \in 1..Len(t) : Mapped(F, t)[n] = F[t[n]]
    BY MappedType
  <2> QED
    BY <1>4, <2>1, <2>2
<1>8. Len(mst) = Len(st) /\ \A n \in 1..Len(st) : mst[n] = F[st[n]]
  <2>1. Len(Mapped(F, st)) = Len(st)
    BY MappedType
  <2>2. \A n \in 1..Len(st) : Mapped(F, st)[n] = F[st[n]]
    BY MappedType
  <2> QED
    BY <1>5, <2>1, <2>2
<1>9. PICK c \in Seq(Seq(A)) : c = ms \o mt
  BY ConcatProperties
<1>10. /\ Len(c) = Len(ms) + Len(mt)
       /\ \A n \in 1..(Len(ms) + Len(mt)) : c[n] = IF n <= Len(ms) THEN ms[n] ELSE mt[n - Len(ms)]
  BY <1>9, ConcatProperties
<1>11. /\ Len(st) = Len(s) + Len(t)
       /\ \A n \in 1..(Len(s) + Len(t)) : st[n] = IF n <= Len(s) THEN s[n] ELSE t[n - Len(s)]
  BY <1>1, <1>2
<1>12. ASSUME NEW n \in 1..Len(mst)
       PROVE  mst[n] = c[n]
  <2>1. n \in 1..(Len(s) + Len(t)) /\ n \in 1..Len(st) /\ n \in 1..(Len(ms) + Len(mt))
    BY <1>6, <1>7, <1>8, <1>11
  <2>2. mst[n] = F[st[n]]
    BY <1>8, <2>1
  <2>3. CASE n <= Len(s)
    <3>1. n \in 1..Len(s)
      BY <1>1, <2>3
    <3>2. c[n] = ms[n] /\ st[n] = s[n]
      BY <1>6, <1>10, <1>11, <2>1, <2>3
    <3> QED
      BY <1>6, <2>2, <3>1, <3>2
  <2>4. CASE ~(n <= Len(s))
    <3>1. n - Len(s) \in 1..Len(t)
      BY <1>1, <2>1, <2>4
    <3>2. c[n] = mt[n - Len(s)] /\ st[n] = t[n - Len(s)]
      BY <1>6, <1>10, <1>11, <2>1, <2>4
    <3> QED
      BY <1>7, <2>2, <3>1, <3>2
  <2> QED
    BY <2>3, <2>4
<1>13. mst = c
  <2>1. Len(mst) = Len(c)
    BY <1>6, <1>7, <1>8, <1>10, <1>11
  <2> QED
    BY <1>12, <2>1, SeqEqual
<1> QED
  BY <1>2, <1>3, <1>4, <1>5, <1>9, <1>13

(* Spelling out a longer sequence spells out its parts one after the       *)
(* other.                                                                  *)
LEMMA SpelledProperties ==
  ASSUME NEW D, NEW A, NEW F, Speller(F, D, A)
  PROVE  /\ \A s \in Seq(D) : Spelled(F, s) \in Seq(A)
         /\ Spelled(F, <<>>) = <<>>
         /\ \A x \in D : Spelled(F, <<x>>) = F[x]
         /\ \A s, t \in Seq(D) : Spelled(F, s \o t) = Spelled(F, s) \o Spelled(F, t)
<1>1. \A s \in Seq(D) : Spelled(F, s) \in Seq(A)
  BY MappedType, FlattenType DEF Spelled
<1>2. Spelled(F, <<>>) = <<>>
  <2>1. PICK e \in Seq(D) : e = <<>> /\ Len(e) = 0
    BY EmptySeq
  <2>2. Mapped(F, e) \in Seq(Seq(A)) /\ Len(Mapped(F, e)) = Len(e)
    BY MappedType
  <2>3. Mapped(F, e) = <<>>
    BY <2>1, <2>2, EmptySeq
  <2>4. FlattenSeq(Mapped(F, e)) = <<>>
    BY <2>2, <2>3, FlattenRecursion
  <2> QED
    BY <2>1, <2>4 DEF Spelled
<1>3. ASSUME NEW x \in D
      PROVE  Spelled(F, <<x>>) = F[x]
  <2>1. <<x>> \in Seq(D) /\ Len(<<x>>) = 1 /\ <<x>>[1] = x
    OBVIOUS
  <2>2. Mapped(F, <<x>>) = <<F[x]>>
    BY <2>1 DEF Mapped
  <2>4. F[x] \in Seq(A) /\ <<>> \in Seq(Seq(A))
    BY EmptySeq DEF Speller
  <2> QED
    BY <2>2, <2>4, FlattenAppend DEF Spelled
<1>4. ASSUME NEW s \in Seq(D), NEW t \in Seq(D)
      PROVE  Spelled(F, s \o t) = Spelled(F, s) \o Spelled(F, t)
  <2>1. Mapped(F, s \o t) = Mapped(F, s) \o Mapped(F, t)
    BY MappedConcat
  <2>2. Mapped(F, s) \in Seq(Seq(A)) /\ Mapped(F, t) \in Seq(Seq(A))
    BY MappedType
  <2>3. FlattensToBoth(Mapped(F, s), Mapped(F, t))
    BY <2>2, FlattenConcat
  <2> QED
    BY <2>1, <2>3, Zenon DEF Spelled, FlattensToBoth
<1> QED
  BY <1>1, <1>2, <1>3, <1>4

-----------------------------------------------------------------------------
(* The bytes and the bits of a sequence of runs. *)
Coder == [x \in Runs |-> encode(x.bit, x.run)]
Coded(R) == Spelled(Coder, R)
Repeater == [x \in Runs |-> [i \in 1..x.run |-> x.bit]]
Span(R) == Len(Spelled(Repeater, R))

(* The fields of a run. *)
LEMMA RunsType ==
  ASSUME NEW x \in Runs
  PROVE  /\ x.bit \in 0..1 /\ x.run \in Nat \ {0} /\ x.run \in 1..MaxRun
         /\ x = [bit |-> x.bit, run |-> x.run]
<1>1. x.run \in 1..MaxRun /\ x.bit \in 0..1 /\ x = [bit |-> x.bit, run |-> x.run]
  BY DEF Runs
<1>2. x.run \in Nat \ {0}
  BY SMT, <1>1, Powers DEF MaxRun
<1> QED
  BY <1>1, <1>2

(* The bytes of runs one after the other are the bytes of each. *)
LEMMA CodedProperties ==
  /\ \A R \in Seq(Runs) : Coded(R) \in Seq(Bytes) /\ Len(Coded(R)) \in Nat
  /\ Coded(<<>>) = <<>>
  /\ \A x \in Runs : Coded(<<x>>) = encode(x.bit, x.run) /\ Len(Coded(<<x>>)) = blocklength(x.run)
  /\ \A R, S \in Seq(Runs) : /\ Coded(R \o S) = Coded(R) \o Coded(S)
                             /\ Len(Coded(R \o S)) = Len(Coded(R)) + Len(Coded(S))
<1>1. Speller(Coder, Runs, Bytes)
  BY RunsType, EncodeBytes DEF Coder, Speller
<1>2. \A x \in Runs : Coder[x] = encode(x.bit, x.run)
  BY DEF Coder
<1>3. \A R \in Seq(Runs) : Coded(R) \in Seq(Bytes) /\ Len(Coded(R)) \in Nat
  BY <1>1, SpelledProperties, LenProperties DEF Coded
<1>4. Coded(<<>>) = <<>>
  BY <1>1, SpelledProperties DEF Coded
<1>5. ASSUME NEW x \in Runs PROVE Coded(<<x>>) = encode(x.bit, x.run)
  <2>1. Spelled(Coder, <<x>>) = Coder[x]
    BY <1>1, SpelledProperties
  <2> QED
    BY <1>2, <2>1 DEF Coded
<1>6. \A R, S \in Seq(Runs) : Coded(R \o S) = Coded(R) \o Coded(S)
  BY <1>1, SpelledProperties DEF Coded
<1>7. ASSUME NEW x \in Runs PROVE Len(Coded(<<x>>)) = blocklength(x.run)
  <2>1. Len(encode(x.bit, x.run)) = blocklength(x.run)
    BY RunsType, EncodeBytes
  <2> QED
    BY <1>5, <2>1
<1>8. \A R, S \in Seq(Runs) : Len(Coded(R \o S)) = Len(Coded(R)) + Len(Coded(S))
  BY <1>3, <1>6, ConcatProperties
<1> QED
  BY <1>3, <1>4, <1>5, <1>6, <1>7, <1>8

(* The bits of a run, one by one. *)
LEMMA RepeaterSpeller == Speller(Repeater, Runs, 0..1)
<1>1. ASSUME NEW x \in Runs
      PROVE  [i \in 1..x.run |-> x.bit] \in Seq(0..1)
  <2> DEFINE f == [i \in 1..x.run |-> x.bit]
  <2>1. f \in [1..x.run -> 0..1] /\ x.run \in Nat
    BY RunsType
  <2> HIDE DEF f
  <2> QED
    BY <2>1, SeqDef DEF f
<1> QED
  BY <1>1 DEF Repeater, Speller

(* The positions that runs cover add up. *)
LEMMA SpanProperties ==
  /\ \A R \in Seq(Runs) : Span(R) \in Nat
  /\ Span(<<>>) = 0
  /\ \A x \in Runs : Span(<<x>>) = x.run
  /\ \A R, S \in Seq(Runs) : Span(R \o S) = Span(R) + Span(S)
<1>1. ASSUME NEW x \in Runs
      PROVE  Len([i \in 1..x.run |-> x.bit]) = x.run
  <2> DEFINE f == [i \in 1..x.run |-> x.bit]
  <2>1. f \in [1..x.run -> 0..1] /\ x.run \in Nat /\ DOMAIN f = 1..x.run
    BY RunsType
  <2> HIDE DEF f
  <2>2. Len(f) = x.run
    BY <2>1, SeqDef, LenProperties
  <2> QED
    BY <2>2 DEF f
<1>2. Speller(Repeater, Runs, 0..1)
  BY RepeaterSpeller
<1>3. \A x \in Runs : Repeater[x] = [i \in 1..x.run |-> x.bit]
  BY DEF Repeater
<1>4. \A R \in Seq(Runs) : Spelled(Repeater, R) \in Seq(0..1) /\ Span(R) \in Nat
  BY <1>2, SpelledProperties, LenProperties DEF Span
<1>5. Span(<<>>) = 0
  BY <1>2, SpelledProperties DEF Span
<1>6. ASSUME NEW x \in Runs PROVE Span(<<x>>) = x.run
  <2>1. Spelled(Repeater, <<x>>) = Repeater[x]
    BY <1>2, SpelledProperties
  <2> QED
    BY <1>1, <1>3, <2>1 DEF Span
<1>7. ASSUME NEW R \in Seq(Runs), NEW S \in Seq(Runs)
      PROVE  Span(R \o S) = Span(R) + Span(S)
  <2>1. Spelled(Repeater, R \o S) = Spelled(Repeater, R) \o Spelled(Repeater, S)
    BY <1>2, SpelledProperties
  <2> QED
    BY <1>4, <2>1, ConcatProperties DEF Span
<1> QED
  BY <1>4, <1>5, <1>6, <1>7

-----------------------------------------------------------------------------
(* Reading a string block by block.                                        *)

(* A recursion that reads on from next[d], further along each time. *)
ReadsOn(f, D, Stop, head, next) ==
  f = [d \in D |-> IF d \in Stop THEN head[d] ELSE head[d] \o f[next[d]]]
GoesOn(D, Stop, next, rank, N) ==
  /\ \A d \in D : rank[d] \in 0..N
  /\ \A d \in D \ Stop : next[d] \in D /\ rank[d] < rank[next[d]]

(* A recursion that goes on to a smaller rank each time has a solution. *)
LEMMA ReadingEnds ==
  ASSUME NEW D, NEW Stop, NEW head, NEW next, NEW rank, NEW N \in Nat,
         GoesOn(D, Stop, next, rank, N)
  PROVE  \E f : ReadsOn(f, D, Stop, head, next)
<1> DEFINE Body(f) == [d \in D |-> IF d \in Stop THEN head[d] ELSE head[d] \o f[next[d]]]
           T == {k \in 0..(N + 1) : \E f : \A d \in D : N - rank[d] < k => f[d] = Body(f)[d]}
<1>1. \A d \in D : rank[d] \in 0..N
  BY DEF GoesOn
<1>2. \A d \in D \ Stop : next[d] \in D /\ rank[d] < rank[next[d]]
  BY DEF GoesOn
<1>3. 0 \in T
  <2>1. 0 \in 0..(N + 1) /\ \A d \in D : ~(N - rank[d] < 0)
    BY <1>1
  <2> QED
    BY <2>1
<1>4. ASSUME NEW k \in 0..((N + 1) - 1), k \in T
      PROVE  k + 1 \in T
  <2>1. PICK f : \A d \in D : N - rank[d] < k => f[d] = Body(f)[d]
    BY <1>4
  <2> DEFINE h == Body(f)
  <2>2. ASSUME NEW d \in D, N - rank[d] < k + 1
        PROVE  h[d] = Body(h)[d]
    <3>1. CASE d \in Stop
      BY <3>1
    <3>2. CASE d \notin Stop
      <4>1. PICK e \in D : e = next[d] /\ rank[d] < rank[e]
        BY <1>2, <3>2
      <4>2. N - rank[e] < k
        <5>1. rank[d] \in Nat /\ rank[e] \in Nat
          BY <1>1
        <5> QED
          BY <2>2, <4>1, <5>1
      <4>3. f[e] = h[e]
        BY <2>1, <4>2
      <4> QED
        BY <3>2, <4>1, <4>3
    <3> QED
      BY <3>1, <3>2
  <2>3. k + 1 \in 0..(N + 1)
    OBVIOUS
  <2> HIDE DEF h, Body
  <2> QED
    BY <2>2, <2>3
<1>5. N + 1 \in T
  <2> HIDE DEF T
  <2>1. N + 1 \in Nat /\ N + 1 \in 0..(N + 1)
    OBVIOUS
  <2> QED
    BY <1>3, <1>4, <2>1, IntervalInduction
<1>6. PICK f : \A d \in D : N - rank[d] < N + 1 => f[d] = Body(f)[d]
  BY <1>5
<1>7. \A d \in D : f[d] = Body(f)[d]
  <2>1. \A d \in D : N - rank[d] < N + 1
    BY <1>1
  <2> HIDE DEF Body
  <2> QED
    BY <1>6, <2>1
<1>8. Body(f) = Body(Body(f))
  <2>1. \A d \in D \ Stop : f[next[d]] = Body(f)[next[d]]
    <3> HIDE DEF Body
    <3> QED
      BY <1>2, <1>7
  <2>2. PICK g : g = Body(f)
    OBVIOUS
  <2>3. \A d \in D \ Stop : f[next[d]] = g[next[d]]
    BY <2>1, <2>2, Zenon
  <2>4. Body(f) = Body(g)
    BY <2>3
  <2> QED
    BY <2>2, <2>4, Zenon
<1> QED
  BY <1>8 DEF ReadsOn

-----------------------------------------------------------------------------
(* What any reader sees anywhere in a string of bytes. *)
LEMMA BlockAnywhere ==
  ASSUME NEW data \in Seq(Bytes), NEW p \in Nat \ {0}, NEW v \in Nat
  PROVE  /\ block(data, p, v).at = p /\ block(data, p, v).value = v
         /\ block(data, p, v).length \in 1..4 /\ block(data, p, v).run \in Nat
         /\ block(data, p, v).bit \in 0..1
         /\ block(data, p, v).run # 0 => p <= Len(data)
<1> DEFINE B(q) == Byte(data, q)
<1>1. \A q \in Nat \ {0} : B(q) \in Bytes
  <2>1. \A q \in 1..Len(data) : data[q] \in Bytes
    BY ElementOfSeq
  <2>2. Len(data) \in Nat /\ 0 \in Bytes
    BY LenProperties DEF Bytes
  <2> QED
    BY <2>1, <2>2 DEF Byte
<1>2. p > Len(data) => B(p) = 0
  <2>1. Len(data) \in Nat
    BY LenProperties
  <2> QED
    BY <2>1 DEF Byte
<1> DEFINE l == ((B(p) \div 2^5) % 4) + 1
           further(k) == IF k < l THEN B(p + k) * 2^(8 * k - 3) ELSE 0
<1>3. block(data, p, v) = [at |-> p, value |-> v, length |-> l, bit |-> B(p) \div 2^7,
                           run |-> (B(p) % 2^5) + further(1) + further(2) + further(3)]
  BY DEF block
<1> HIDE DEF B
<1>4. PICK b \in Bytes : b = B(p)
  BY <1>1
<1>5. l \in 1..4 /\ b \div 2^7 \in 0..1 /\ b % 2^5 \in Nat /\ (b = 0 => l = 1 /\ b % 2^5 = 0)
  <2>1. PICK c \in 0..255 : c = B(p)
    BY <1>4 DEF Bytes
  <2>2. l = ((c \div 32) % 4) + 1 /\ b \div 2^7 = c \div 128 /\ b % 2^5 = c % 32 /\ b = c
    BY SMT, <1>4, <2>1, Powers
  <2>3. /\ ((c \div 32) % 4) + 1 \in 1..4 /\ c \div 128 \in 0..1 /\ c % 32 \in Nat
        /\ c = 0 => ((c \div 32) % 4) + 1 = 1 /\ c % 32 = 0
    BY SMT
  <2> HIDE DEF l
  <2> QED
    BY <2>2, <2>3
<1>6. further(1) \in Nat /\ further(2) \in Nat /\ further(3) \in Nat
  <2>1. p + 1 \in Nat \ {0} /\ p + 2 \in Nat \ {0} /\ p + 3 \in Nat \ {0}
    OBVIOUS
  <2>2. B(p + 1) \in Nat /\ B(p + 2) \in Nat /\ B(p + 3) \in Nat
    <3>1. B(p + 1) \in Bytes /\ B(p + 2) \in Bytes /\ B(p + 3) \in Bytes
      BY <1>1, <2>1
    <3>2. \A x \in Bytes : x \in Nat
      BY DEF Bytes
    <3> QED
      BY <3>1, <3>2
  <2>3. \A x \in Nat : x * 32 \in Nat /\ x * 8192 \in Nat /\ x * 2097152 \in Nat
    BY SMT
  <2>4. /\ B(p + 1) * 2^(8 * 1 - 3) \in Nat
        /\ B(p + 2) * 2^(8 * 2 - 3) \in Nat
        /\ B(p + 3) * 2^(8 * 3 - 3) \in Nat
    BY SMT, <2>2, <2>3, Powers
  <2> HIDE DEF l
  <2> QED
    BY <2>4
<1>7. l = 1 => further(1) = 0 /\ further(2) = 0 /\ further(3) = 0
  <2> HIDE DEF l
  <2> QED
    OBVIOUS
<1> HIDE DEF further, l
<1>8. (b % 2^5) + further(1) + further(2) + further(3) \in Nat
  BY <1>5, <1>6
<1>9. p > Len(data) => (b % 2^5) + further(1) + further(2) + further(3) = 0
  BY <1>2, <1>4, <1>5, <1>7
<1>10. Len(data) \in Nat
  BY LenProperties
<1> QED
  BY <1>3, <1>4, <1>5, <1>8, <1>9, <1>10

(* The places a reader may be at, and how it goes on. *)
Places(data) == (1..(Len(data) + 4)) \X Nat
Found(data, pv) == block(data, pv[1], pv[2])
Onward(data) ==
  [pv \in Places(data) |-> <<blockend(Found(data, pv)), Found(data, pv).value + Found(data, pv).run>>]
Single(data) == [pv \in Places(data) |-> <<Found(data, pv)>>]
Ended(data) == {pv \in Places(data) : Found(data, pv).run = 0}
Reader(data) == CHOOSE f : ReadsOn(f, Places(data), Ended(data), Single(data), Onward(data))

(* BlocksOf is its recursion: a reader goes on from the end of a block. *)
LEMMA ReaderRecursion ==
  ASSUME NEW data \in Seq(Bytes)
  PROVE  /\ \A v : BlocksOf(data, v) = Reader(data)[<<1, v>>]
         /\ ReadsOn(Reader(data), Places(data), Ended(data), Single(data), Onward(data))
<1> DEFINE D == Places(data)
           F(f) == [pv \in D |-> LET b == block(data, pv[1], pv[2])
                                 IN IF b.run = 0 THEN <<b>>
                                    ELSE <<b>> \o f[<<blockend(b), b.value + b.run>>]]
           G(f) == [pv \in D |-> IF pv \in Ended(data) THEN Single(data)[pv]
                                 ELSE Single(data)[pv] \o f[Onward(data)[pv]]]
<1>1. ASSUME NEW f PROVE F(f) = G(f)
  <2>1. ASSUME NEW pv \in D PROVE F(f)[pv] = G(f)[pv]
    <3>1. /\ Single(data)[pv] = <<Found(data, pv)>>
          /\ Onward(data)[pv]
               = <<blockend(Found(data, pv)), Found(data, pv).value + Found(data, pv).run>>
          /\ (pv \in Ended(data) <=> Found(data, pv).run = 0)
      BY DEF Single, Onward, Ended
    <3> QED
      BY <3>1 DEF Found
  <2> QED
    BY <2>1
<1>2. \A v : BlocksOf(data, v) = (CHOOSE f : f = F(f))[<<1, v>>]
  BY Zenon DEF BlocksOf, Places
<1>3. \A f : f = F(f) <=> ReadsOn(f, D, Ended(data), Single(data), Onward(data))
  <2> HIDE DEF F, D
  <2> QED
    BY <1>1, Zenon DEF ReadsOn, G
<1>4. (CHOOSE f : f = F(f)) = Reader(data)
  <2> HIDE DEF F
  <2> QED
    BY <1>3 DEF Reader
<1>5. \E f : ReadsOn(f, D, Ended(data), Single(data), Onward(data))
  <2> DEFINE rank == [pv \in D |-> pv[1]]
             N == Len(data) + 4
  <2>1. N \in Nat /\ Len(data) \in Nat
    BY LenProperties
  <2>2. \A pv \in D : pv[1] \in 1..N /\ pv[2] \in Nat /\ pv[1] \in Nat \ {0}
    BY <2>1 DEF Places
  <2>3. ASSUME NEW pv \in D \ Ended(data)
        PROVE  Onward(data)[pv] \in D /\ rank[pv] < rank[Onward(data)[pv]]
    <3>1. PICK b : b = Found(data, pv)
      OBVIOUS
    <3>2. /\ b.at = pv[1] /\ b.value = pv[2] /\ b.length \in 1..4 /\ b.run \in Nat
          /\ b.run # 0 /\ pv[1] <= Len(data)
      BY <2>2, <3>1, BlockAnywhere DEF Found, Ended
    <3>3. blockend(b) \in 1..N /\ pv[1] < blockend(b) /\ b.value + b.run \in Nat
      BY <2>1, <2>2, <3>2 DEF blockend
    <3>4. Onward(data)[pv] = <<blockend(b), b.value + b.run>>
      BY <3>1 DEF Onward
    <3>5. <<blockend(b), b.value + b.run>> \in D
      BY <3>3 DEF Places
    <3> HIDE DEF D
    <3> QED
      BY <3>3, <3>4, <3>5
  <2>4. GoesOn(D, Ended(data), Onward(data), rank, N)
    <3>1. \A pv \in D : rank[pv] \in 0..N
      BY <2>1, <2>2
    <3> HIDE DEF rank, D
    <3> QED
      BY <2>3, <3>1 DEF GoesOn
  <2> HIDE DEF rank, D, N
  <2> QED
    BY <2>1, <2>4, ReadingEnds
<1>6. ReadsOn(Reader(data), D, Ended(data), Single(data), Onward(data))
  BY <1>5, Zenon DEF Reader
<1> QED
  BY <1>2, <1>4, <1>6

-----------------------------------------------------------------------------
(* Where the blocks of a string are, in bytes and in positions.            *)

(* Three sequences in a row. *)
Row(x, y, z) == (x \o y) \o z

(* A sequence, parted at one of its elements. *)
LEMMA Parting ==
  ASSUME NEW S, NEW R \in Seq(S), NEW n \in 1..Len(R)
  PROVE  /\ SubSeq(R, 1, n - 1) \in Seq(S) /\ Len(SubSeq(R, 1, n - 1)) = n - 1
         /\ SubSeq(R, n + 1, Len(R)) \in Seq(S) /\ Len(SubSeq(R, n + 1, Len(R))) = Len(R) - n
         /\ R[n] \in S /\ <<R[n]>> \in Seq(S)
         /\ SubSeq(R, 1, n) = SubSeq(R, 1, n - 1) \o <<R[n]>>
         /\ R = Row(SubSeq(R, 1, n - 1), <<R[n]>>, SubSeq(R, n + 1, Len(R)))
         /\ SubSeq(R, 1, n) \in Seq(S)
<1>1. Len(R) \in Nat /\ \A i \in 1..Len(R) : R[i] \in S
  BY LenProperties, ElementOfSeq
<1>2. SubSeq(R, 1, n - 1) \in Seq(S) /\ Len(SubSeq(R, 1, n - 1)) = n - 1
  <2>1. 1 \in Int /\ n - 1 \in Int /\ \A i \in 1..(n - 1) : R[i] \in S
    BY <1>1
  <2> QED
    BY <1>1, <2>1, SubSeqProperties
<1>3. SubSeq(R, n + 1, Len(R)) \in Seq(S) /\ Len(SubSeq(R, n + 1, Len(R))) = Len(R) - n
  <2>1. n + 1 \in Int /\ Len(R) \in Int /\ \A i \in (n + 1)..Len(R) : R[i] \in S
    BY <1>1
  <2> QED
    BY <1>1, <2>1, SubSeqProperties
<1>4. SubSeq(R, 1, n) = SubSeq(R, 1, n - 1) \o <<R[n]>>
  <2>1. 1 \in 1..Len(R) /\ n \in 1..Len(R)
    BY <1>1
  <2> QED
    BY <2>1, SubSeqRecursiveSecond
<1>5. R = SubSeq(R, 1, n) \o SubSeq(R, n + 1, Len(R))
  <2>1. /\ 1 \in 1..(Len(R) + 1) /\ n \in (1 - 1)..Len(R) /\ Len(R) \in n..Len(R)
    BY <1>1
  <2>2. SubSeq(R, 1, n) \o SubSeq(R, n + 1, Len(R)) = SubSeq(R, 1, Len(R))
    BY <2>1, ConcatAdjacentSubSeq
  <2> QED
    BY <2>2, SubSeqFull
<1>6. R[n] \in S /\ <<R[n]>> \in Seq(S)
  BY <1>1
<1>7. SubSeq(R, 1, n) \in Seq(S)
  BY <1>2, <1>4, <1>6, ConcatProperties
<1>8. R = Row(SubSeq(R, 1, n - 1), <<R[n]>>, SubSeq(R, n + 1, Len(R)))
  BY <1>4, <1>5, Zenon DEF Row
<1> QED
  BY <1>2, <1>3, <1>4, <1>6, <1>7, <1>8

-----------------------------------------------------------------------------
(* Where the n-th run is, in the string and in the array; the blocks that  *)
(* a reader finds.                                                         *)
At(R, n) == 1 + Len(Coded(SubSeq(R, 1, n - 1)))
Val(R, v, n) == v + Span(SubSeq(R, 1, n - 1))
BlockFor(R, v, n) ==
  [at |-> At(R, n), value |-> Val(R, v, n),
   length |-> IF n <= Len(R) THEN blocklength(R[n].run) ELSE 1,
   bit |-> IF n <= Len(R) THEN R[n].bit ELSE 0, run |-> IF n <= Len(R) THEN R[n].run ELSE 0]
BlocksFor(R, v) == [n \in 1..(Len(R) + 1) |-> BlockFor(R, v, n)]
Terminators == {<<>>, <<0>>}

(* Where each run begins, in bytes and in positions. *)
LEMMA Places1 ==
  ASSUME NEW R \in Seq(Runs), NEW v \in Nat
  PROVE  /\ At(R, 1) = 1 /\ Val(R, v, 1) = v
         /\ \A n \in 1..(Len(R) + 1) : At(R, n) \in Nat \ {0} /\ Val(R, v, n) \in Nat
         /\ \A n \in 1..Len(R) : /\ At(R, n + 1) = At(R, n) + blocklength(R[n].run)
                                 /\ Val(R, v, n + 1) = Val(R, v, n) + R[n].run
         /\ At(R, Len(R) + 1) = 1 + Len(Coded(R))
         /\ Val(R, v, Len(R) + 1) = v + Span(R)
<1>1. Len(R) \in Nat /\ \A n \in 1..Len(R) : R[n] \in Runs
  BY LenProperties, ElementOfSeq
<1>2. SubSeq(R, 1, 1 - 1) = <<>>
  BY SubSeqEmpty
<1>3. At(R, 1) = 1 /\ Val(R, v, 1) = v
  <2>1. Len(Coded(SubSeq(R, 1, 1 - 1))) = 0
    BY <1>2, CodedProperties, EmptySeq
  <2>2. Span(SubSeq(R, 1, 1 - 1)) = 0
    BY <1>2, SpanProperties
  <2> QED
    BY <2>1, <2>2 DEF At, Val
<1>4. ASSUME NEW n \in 1..(Len(R) + 1)
      PROVE  At(R, n) \in Nat \ {0} /\ Val(R, v, n) \in Nat
  <2>1. PICK P \in Seq(Runs) : P = SubSeq(R, 1, n - 1)
    <3>1. \A i \in 1..(n - 1) : R[i] \in Runs
      BY <1>1
    <3>2. 1 \in Int /\ n - 1 \in Int
      BY <1>1
    <3> QED
      BY <3>1, <3>2, SubSeqProperties
  <2>2. Len(Coded(P)) \in Nat /\ Span(P) \in Nat
    BY CodedProperties, SpanProperties
  <2> QED
    BY <2>1, <2>2 DEF At, Val
<1>5. ASSUME NEW n \in 1..Len(R)
      PROVE  /\ At(R, n + 1) = At(R, n) + blocklength(R[n].run)
             /\ Val(R, v, n + 1) = Val(R, v, n) + R[n].run
  <2>1. PICK P \in Seq(Runs) : P = SubSeq(R, 1, n - 1)
    BY Parting
  <2>2. SubSeq(R, 1, n) = P \o <<R[n]>>
    BY <2>1, Parting
  <2>3. R[n] \in Runs /\ <<R[n]>> \in Seq(Runs) /\ (n + 1) - 1 = n
    BY <1>1
  <2>4. /\ Len(Coded(P \o <<R[n]>>)) = Len(Coded(P)) + blocklength(R[n].run)
        /\ Span(P \o <<R[n]>>) = Span(P) + R[n].run
    BY <2>3, CodedProperties, SpanProperties
  <2>5. Len(Coded(P)) \in Nat /\ Span(P) \in Nat /\ R[n].run \in Nat /\ blocklength(R[n].run) \in Nat
    <3>1. R[n].run \in Nat
      BY <2>3, RunsType
    <3>2. blocklength(R[n].run) \in 1..4
      BY <3>1, BlockLengths
    <3> QED
      BY <3>1, <3>2, CodedProperties, SpanProperties
  <2>6. /\ At(R, n) = 1 + Len(Coded(P)) /\ At(R, n + 1) = 1 + Len(Coded(P \o <<R[n]>>))
        /\ Val(R, v, n) = v + Span(P) /\ Val(R, v, n + 1) = v + Span(P \o <<R[n]>>)
    <3>1. SubSeq(R, 1, (n + 1) - 1) = P \o <<R[n]>>
      BY <2>2, <2>3, Zenon
    <3> QED
      BY <2>1, <3>1, Zenon DEF At, Val
  <2>7. PICK S \in Seq(Runs) : S = P \o <<R[n]>>
    BY <2>3, ConcatProperties
  <2> QED
    BY <2>4, <2>5, <2>6, <2>7
<1>6. At(R, Len(R) + 1) = 1 + Len(Coded(R)) /\ Val(R, v, Len(R) + 1) = v + Span(R)
  <2>1. (Len(R) + 1) - 1 = Len(R)
    BY <1>1
  <2>2. SubSeq(R, 1, Len(R)) = R
    BY SubSeqFull
  <2> QED
    BY <2>1, <2>2 DEF At, Val
<1> QED
  BY <1>3, <1>4, <1>5, <1>6

(* The next run begins where this one ends.                               *)
LEMMA NextPlace ==
  ASSUME NEW R \in Seq(Runs), NEW v \in Nat, NEW n \in 1..Len(R)
  PROVE  Val(R, v, n + 1) = Val(R, v, n) + R[n].run
BY Places1

(* What stands at a position of three strings in a row. *)
LEMMA MiddleOf ==
  ASSUME NEW A, NEW x \in Seq(A), NEW y \in Seq(A), NEW z \in Seq(A)
  PROVE  /\ Row(x, y, z) \in Seq(A)
         /\ Len(Row(x, y, z)) = Len(x) + Len(y) + Len(z)
         /\ \A k \in 1..Len(y) : (Row(x, y, z))[Len(x) + k] = y[k]
         /\ \A k \in 1..Len(z) : (Row(x, y, z))[Len(x) + Len(y) + k] = z[k]
<1>1. Len(x) \in Nat /\ Len(y) \in Nat /\ Len(z) \in Nat
  BY LenProperties
<1>2. PICK w \in Seq(A) : w = x \o y
  BY ConcatProperties
<1>3. /\ Len(w) = Len(x) + Len(y)
      /\ \A i \in 1..(Len(x) + Len(y)) : w[i] = IF i <= Len(x) THEN x[i] ELSE y[i - Len(x)]
  BY <1>2, ConcatProperties
<1>4. PICK u \in Seq(A) : u = w \o z
  BY ConcatProperties
<1>5. /\ Len(u) = Len(w) + Len(z)
      /\ \A i \in 1..(Len(w) + Len(z)) : u[i] = IF i <= Len(w) THEN w[i] ELSE z[i - Len(w)]
  BY <1>4, ConcatProperties
<1>6. ASSUME NEW k \in 1..Len(y) PROVE u[Len(x) + k] = y[k]
  <2>1. /\ Len(x) + k \in 1..(Len(x) + Len(y)) /\ Len(x) + k \in 1..(Len(w) + Len(z))
        /\ Len(x) + k <= Len(w) /\ ~(Len(x) + k <= Len(x)) /\ (Len(x) + k) - Len(x) = k
    BY <1>1, <1>3
  <2> QED
    BY <1>3, <1>5, <2>1
<1>7. ASSUME NEW k \in 1..Len(z) PROVE u[Len(x) + Len(y) + k] = z[k]
  <2>1. /\ Len(x) + Len(y) + k \in 1..(Len(w) + Len(z))
        /\ ~(Len(x) + Len(y) + k <= Len(w)) /\ (Len(x) + Len(y) + k) - Len(w) = k
    BY <1>1, <1>3
  <2> QED
    BY <1>5, <2>1
<1> QED
  <2>1. u = Row(x, y, z)
    BY <1>2, <1>4, Zenon DEF Row
  <2> QED
    BY <1>3, <1>5, <1>6, <1>7, <2>1

(* The bytes of three parts, one after the other. *)
LEMMA CodedRow ==
  ASSUME NEW x \in Seq(Runs), NEW y \in Seq(Runs), NEW z \in Seq(Runs)
  PROVE  Coded(Row(x, y, z)) = Row(Coded(x), Coded(y), Coded(z))
<1>1. PICK w \in Seq(Runs) : w = x \o y
  BY ConcatProperties
<1>2. Coded(w) = Coded(x) \o Coded(y)
  BY <1>1, CodedProperties
<1>3. Coded(w \o z) = Coded(w) \o Coded(z)
  BY CodedProperties
<1> QED
  BY <1>1, <1>2, <1>3, Zenon DEF Row

RowTakes(x, y, z, t) == Row(x, y, z) \o t = Row(x, y, z \o t)

(* A fourth part, appended to three. *)
LEMMA RowTail ==
  ASSUME NEW A, NEW x \in Seq(A), NEW y \in Seq(A), NEW z \in Seq(A), NEW t \in Seq(A)
  PROVE  RowTakes(x, y, z, t)
<1>1. PICK w \in Seq(A) : w = x \o y
  BY ConcatProperties
<1>2. (w \o z) \o t = w \o (z \o t)
  BY ConcatAssociative
<1> QED
  BY <1>1, <1>2, Zenon DEF Row, RowTakes

(* A reader at the place of the n-th run finds it. *)
LEMMA BlockRead ==
  ASSUME NEW R \in Seq(Runs), NEW T \in Terminators, NEW v \in Nat, NEW w \in Nat,
         NEW n \in 1..(Len(R) + 1)
  PROVE  /\ Coded(R) \o T \in Seq(Bytes)
         /\ block(Coded(R) \o T, At(R, n), w)
              = [at |-> At(R, n), value |-> w,
                 length |-> IF n <= Len(R) THEN blocklength(R[n].run) ELSE 1,
                 bit |-> IF n <= Len(R) THEN R[n].bit ELSE 0,
                 run |-> IF n <= Len(R) THEN R[n].run ELSE 0]
         /\ At(R, n) <= Len(Coded(R)) + 1
<1>1. T \in Seq(Bytes) /\ (T = <<>> \/ T = <<0>>)
  <2>1. <<>> \in Seq(Bytes) /\ <<0>> \in Seq(Bytes)
    BY EmptySeq DEF Bytes
  <2> QED
    BY <2>1 DEF Terminators
<1>2. Coded(R) \in Seq(Bytes) /\ Len(Coded(R)) \in Nat /\ Len(R) \in Nat
  BY CodedProperties, LenProperties
<1>3. PICK data \in Seq(Bytes) : data = Coded(R) \o T
  BY <1>1, <1>2, ConcatProperties
<1>4. CASE n <= Len(R)
  <2>0. n \in 1..Len(R)
    BY <1>2, <1>4
  <2>1. PICK P \in Seq(Runs) : P = SubSeq(R, 1, n - 1)
    BY <2>0, Parting
  <2>2. PICK Q \in Seq(Runs) : Q = SubSeq(R, n + 1, Len(R))
    BY <2>0, Parting
  <2>3. PICK x \in Runs : x = R[n]
    BY <2>0, Parting
  <2>4. R = Row(P, <<x>>, Q)
    <3>1. R = Row(SubSeq(R, 1, n - 1), <<R[n]>>, SubSeq(R, n + 1, Len(R)))
      BY <2>0, Parting
    <3> QED
      BY <2>1, <2>2, <2>3, <3>1
  <2>5. <<x>> \in Seq(Runs) /\ P \o <<x>> \in Seq(Runs)
    BY ConcatProperties
  <2>6. PICK cp \in Seq(Bytes) : cp = Coded(P)
    BY CodedProperties
  <2>7. PICK cx \in Seq(Bytes) : cx = encode(x.bit, x.run) /\ cx = Coded(<<x>>) /\ Len(cx) = blocklength(x.run)
    <3>1. Coded(<<x>>) \in Seq(Bytes)
      BY <2>5, CodedProperties
    <3> QED
      BY <3>1, CodedProperties
  <2>8. PICK cq \in Seq(Bytes) : cq = Coded(Q)
    BY CodedProperties
  <2>9. Coded(R) = Row(cp, cx, cq)
    <3>1. Coded(Row(P, <<x>>, Q)) = Row(Coded(P), Coded(<<x>>), Coded(Q))
      BY <2>5, CodedRow
    <3> QED
      BY <2>4, <2>6, <2>7, <2>8, <3>1
  <2>10. data = Row(cp, cx, cq \o T)
    <3>1. PICK t \in Seq(Bytes) : t = T
      BY <1>1
    <3>2. RowTakes(cp, cx, cq, t)
      BY RowTail
    <3> QED
      BY <1>3, <2>9, <3>1, <3>2, Zenon DEF RowTakes
  <2>11. cq \o T \in Seq(Bytes) /\ Len(cq \o T) \in Nat /\ Len(cp) \in Nat /\ Len(cx) \in Nat
    BY <1>1, ConcatProperties, LenProperties
  <2>12. /\ Len(data) = Len(cp) + Len(cx) + Len(cq \o T)
         /\ \A k \in 1..Len(cx) : data[Len(cp) + k] = cx[k]
    <3>1. PICK z \in Seq(Bytes) : z = cq \o T
      BY <2>11
    <3>2. /\ Len(Row(cp, cx, z)) = Len(cp) + Len(cx) + Len(z)
          /\ \A k \in 1..Len(cx) : Row(cp, cx, z)[Len(cp) + k] = cx[k]
      BY MiddleOf
    <3> QED
      BY <2>10, <3>1, <3>2
  <2>13. At(R, n) = 1 + Len(cp)
    BY <2>1, <2>6 DEF At
  <2>14. \A k \in 1..blocklength(x.run) : Byte(data, At(R, n) + k - 1) = encode(x.bit, x.run)[k]
    <3>1. ASSUME NEW k \in 1..Len(cx) PROVE Byte(data, (1 + Len(cp)) + k - 1) = cx[k]
      <4>1. (1 + Len(cp)) + k - 1 = Len(cp) + k /\ Len(cp) + k <= Len(data)
        BY <2>11, <2>12
      <4> QED
        BY <2>12, <4>1 DEF Byte
    <3> QED
      BY <2>7, <2>13, <3>1
  <2>15. block(data, At(R, n), w)
           = [at |-> At(R, n), value |-> w, length |-> blocklength(x.run), bit |-> x.bit, run |-> x.run]
    <3>1. PICK b \in 0..1 : b = x.bit
      BY RunsType
    <3>2. PICK r \in 1..MaxRun : r = x.run
      BY RunsType
    <3>3. PICK p \in Nat : p = At(R, n)
      BY <2>11, <2>13
    <3>4. Stands(data, p, b, r)
      BY <2>14, <3>1, <3>2, <3>3 DEF Stands
    <3>5. block(data, p, w)
            = [at |-> p, value |-> w, length |-> blocklength(r), bit |-> b, run |-> r]
      BY <3>4, Decodes
    <3> QED
      BY <3>1, <3>2, <3>3, <3>5
  <2>16. At(R, n) <= Len(Coded(R)) + 1
    <3>1. Len(Row(cp, cx, cq)) = Len(cp) + Len(cx) + Len(cq) /\ Len(cq) \in Nat
      BY MiddleOf, LenProperties
    <3> QED
      BY <2>9, <2>11, <2>13, <3>1
  <2> QED
    BY <1>3, <1>4, <2>3, <2>15, <2>16
<1>5. CASE ~(n <= Len(R))
  <2>1. n = Len(R) + 1
    BY <1>2, <1>5
  <2>2. At(R, n) = 1 + Len(Coded(R))
    BY <2>1, Places1
  <2>3. PICK p \in Nat \ {0} : p = At(R, n) /\ p = 1 + Len(Coded(R))
    BY <1>2, <2>2
  <2>4. Byte(data, p) = 0
    <3>1. CASE T = <<>>
      <4>1. Len(data) = Len(Coded(R))
        BY <1>2, <1>3, <3>1, ConcatEmptySeq
      <4> QED
        BY <1>2, <2>3, <4>1 DEF Byte
    <3>2. CASE T = <<0>>
      <4>1. Len(T) = 1 /\ T[1] = 0
        BY <3>2
      <4>2. Len(data) = Len(Coded(R)) + 1 /\ data[Len(Coded(R)) + 1] = T[1]
        <5>1. PICK c \in Seq(Bytes) : c = Coded(R)
          BY <1>2
        <5>2. /\ Len(data) = Len(c) + Len(T)
              /\ \A i \in 1..(Len(c) + Len(T)) : data[i] = IF i <= Len(c) THEN c[i] ELSE T[i - Len(c)]
          BY <1>1, <1>3, <5>1, ConcatProperties
        <5>3. Len(c) \in Nat /\ Len(c) + 1 \in 1..(Len(c) + 1) /\ ~(Len(c) + 1 <= Len(c)) /\ (Len(c) + 1) - Len(c) = 1
          BY <1>2, <5>1
        <5> QED
          BY <4>1, <5>1, <5>2, <5>3
      <4> QED
        BY <1>2, <2>3, <4>1, <4>2 DEF Byte
    <3> QED
      BY <1>1, <3>1, <3>2
  <2>5. block(data, p, w) = [at |-> p, value |-> w, length |-> 1, bit |-> 0, run |-> 0]
    <3>1. 0 \div 2^7 = 0 /\ ((0 \div 2^5) % 4) + 1 = 1 /\ 0 % 2^5 = 0
      BY SMT, Powers
    <3>2. (0 + 0) + 0 + 0 = 0 /\ ~(1 < 1) /\ ~(2 < 1) /\ ~(3 < 1)
      OBVIOUS
    <3> QED
      BY <2>4, <3>1, <3>2 DEF block
  <2> QED
    BY <1>3, <1>5, <2>3, <2>5
<1> QED
  BY <1>4, <1>5

BlockSet == [at : Nat \ {0}, value : Nat, length : 1..4, bit : 0..1, run : Nat]

(* The blocks of a string of runs: one for each run, and the terminator. *)
LEMMA BlocksForType ==
  ASSUME NEW R \in Seq(Runs), NEW v \in Nat
  PROVE  /\ BlocksFor(R, v) \in Seq(BlockSet) /\ Len(BlocksFor(R, v)) = Len(R) + 1
         /\ DOMAIN BlocksFor(R, v) = 1..(Len(R) + 1)
         /\ \A n \in 1..(Len(R) + 1) : BlocksFor(R, v)[n] = BlockFor(R, v, n)
<1>1. Len(R) \in Nat
  BY LenProperties
<1>2. ASSUME NEW n \in 1..(Len(R) + 1)
      PROVE  BlockFor(R, v, n) \in BlockSet
  <2>1. At(R, n) \in Nat \ {0} /\ Val(R, v, n) \in Nat
    BY Places1
  <2>2. n <= Len(R) => R[n].bit \in 0..1 /\ R[n].run \in Nat /\ blocklength(R[n].run) \in 1..4
    <3>1. SUFFICES ASSUME n <= Len(R) PROVE R[n].bit \in 0..1 /\ R[n].run \in Nat /\ blocklength(R[n].run) \in 1..4
      OBVIOUS
    <3>2. R[n] \in Runs
      <4>1. n \in 1..Len(R)
        BY <1>1, <3>1
      <4> QED
        BY <4>1, ElementOfSeq
    <3> QED
      BY <3>2, RunsType, BlockLengths
  <2> QED
    BY <2>1, <2>2 DEF BlockFor, BlockSet
<1>3. BlocksFor(R, v) \in [1..(Len(R) + 1) -> BlockSet]
  BY <1>2 DEF BlocksFor
<1>4. BlocksFor(R, v) \in Seq(BlockSet) /\ Len(BlocksFor(R, v)) = Len(R) + 1
  <2>1. Len(R) + 1 \in Nat
    BY <1>1
  <2> QED
    BY <1>3, <2>1, IntervalSeq
<1>5. \A n \in 1..(Len(R) + 1) : BlocksFor(R, v)[n] = BlockFor(R, v, n)
  BY DEF BlocksFor
<1> QED
  BY <1>3, <1>4, <1>5

(* Reading a string of coded runs finds those runs, then the terminator,   *)
(* whether or not it is there.                                             *)
LEMMA BlocksRead ==
  ASSUME NEW R \in Seq(Runs), NEW T \in Terminators, NEW v \in Nat
  PROVE  BlocksOf(Coded(R) \o T, v) = BlocksFor(R, v)
<1>1. Len(R) \in Nat
  BY LenProperties
<1>2. PICK data \in Seq(Bytes) : data = Coded(R) \o T
  <2>1. 1 \in 1..(Len(R) + 1)
    BY <1>1
  <2> QED
    BY <2>1, BlockRead
<1> DEFINE N == Len(R) + 1
<1>3. PICK B \in Seq(BlockSet) : B = BlocksFor(R, v)
  BY BlocksForType
<1>4. Len(B) = N /\ \A n \in 1..N : B[n] = BlockFor(R, v, n)
  BY <1>3, BlocksForType
<1>5. PICK f : f = Reader(data)
  OBVIOUS
<1>6. /\ BlocksOf(data, v) = f[<<1, v>>]
      /\ ReadsOn(f, Places(data), Ended(data), Single(data), Onward(data))
  BY <1>5, ReaderRecursion
<1> DEFINE pv(n) == <<At(R, n), Val(R, v, n)>>
<1>7. ASSUME NEW n \in 1..N
      PROVE  pv(n) \in Places(data) /\ Found(data, pv(n)) = B[n]
  <2>1. PICK w \in Nat : w = Val(R, v, n)
    BY Places1
  <2>2. block(data, At(R, n), w)
          = [at |-> At(R, n), value |-> w,
             length |-> IF n <= Len(R) THEN blocklength(R[n].run) ELSE 1,
             bit |-> IF n <= Len(R) THEN R[n].bit ELSE 0,
             run |-> IF n <= Len(R) THEN R[n].run ELSE 0]
    BY <1>2, BlockRead
  <2>3. Found(data, pv(n)) = B[n]
    BY <1>4, <2>1, <2>2 DEF Found, BlockFor
  <2>4. At(R, n) <= Len(Coded(R)) + 1 /\ At(R, n) \in Nat \ {0}
    BY BlockRead, Places1
  <2>5. Len(Coded(R)) \in Nat /\ Len(data) \in Nat /\ Len(Coded(R)) <= Len(data)
    <3>1. PICK c \in Seq(Bytes) : c = Coded(R)
      BY CodedProperties
    <3>2. PICK t \in Seq(Bytes) : t = T
      <4>1. <<>> \in Seq(Bytes) /\ <<0>> \in Seq(Bytes)
        BY EmptySeq DEF Bytes
      <4> QED
        BY <4>1 DEF Terminators
    <3>3. Len(c \o t) = Len(c) + Len(t) /\ Len(c) \in Nat /\ Len(t) \in Nat
      BY ConcatProperties, LenProperties
    <3> QED
      BY <1>2, <3>1, <3>2, <3>3
  <2>6. At(R, n) \in 1..(Len(data) + 4)
    BY <2>4, <2>5
  <2> QED
    BY <2>1, <2>3, <2>6 DEF Places
<1> DEFINE S == {k \in 0..Len(R) : f[pv(N - k)] = SubSeq(B, N - k, N)}
<1>8. ASSUME NEW n \in 1..N
      PROVE  f[pv(n)] = IF n = N THEN <<B[n]>> ELSE <<B[n]>> \o f[pv(n + 1)]
  <2>1. PICK b \in BlockSet : b = B[n]
    BY <1>4, ElementOfSeq
  <2>2. PICK q \in Places(data) : q = pv(n) /\ Found(data, q) = b
    BY <1>7, <2>1
  <2>3. f[q] = IF q \in Ended(data) THEN Single(data)[q] ELSE Single(data)[q] \o f[Onward(data)[q]]
    BY <1>6 DEF ReadsOn
  <2>4. Single(data)[q] = <<b>>
    BY <2>2 DEF Single
  <2>5. b.run = 0 <=> n = N
    <3>1. CASE n = N
      BY <1>1, <1>4, <2>1, <3>1 DEF BlockFor
    <3>2. CASE n # N
      <4>1. n <= Len(R) /\ n \in 1..Len(R)
        BY <1>1, <3>2
      <4>2. R[n] \in Runs
        BY <4>1, ElementOfSeq
      <4>3. b.run = R[n].run
        BY <1>4, <2>1, <4>1 DEF BlockFor
      <4> QED
        BY <3>2, <4>2, <4>3, RunsType
    <3> QED
      BY <3>1, <3>2
  <2>6. q \in Ended(data) <=> n = N
    BY <2>2, <2>5 DEF Ended
  <2>7. ASSUME n # N PROVE Onward(data)[q] = pv(n + 1)
    <3>1. n <= Len(R) /\ n \in 1..Len(R)
      BY <1>1, <2>7
    <3>2. b.at = At(R, n) /\ b.value = Val(R, v, n) /\ b.length = blocklength(R[n].run) /\ b.run = R[n].run
      BY <1>4, <2>1, <3>1 DEF BlockFor
    <3>3. Onward(data)[q] = <<blockend(b), b.value + b.run>>
      BY <2>2 DEF Onward
    <3>4. At(R, n + 1) = blockend(b) /\ Val(R, v, n + 1) = b.value + b.run
      BY <3>1, <3>2, Places1 DEF blockend
    <3> QED
      BY <3>3, <3>4
  <2> HIDE DEF pv
  <2> QED
    BY <2>1, <2>2, <2>3, <2>4, <2>6, <2>7
<1> HIDE DEF pv
<1>9. 0 \in S
  <2>1. N - 0 = N /\ N \in 1..N /\ N \in 1..Len(B) /\ N \in N..Len(B) /\ 0 \in 0..Len(R)
    BY <1>1, <1>4
  <2>2. f[pv(N)] = <<B[N]>>
    BY <1>8, <2>1
  <2>3. SubSeq(B, N, N) = <<B[N]>> \o SubSeq(B, N + 1, N)
    BY <2>1, SubSeqRecursiveFirst
  <2>4. SubSeq(B, N + 1, N) = <<>>
    BY <1>1, SubSeqEmpty
  <2>5. <<B[N]>> \o <<>> = <<B[N]>>
    <3>1. <<B[N]>> \in Seq(BlockSet)
      BY <2>1, ElementOfSeq
    <3> QED
      BY <3>1, ConcatEmptySeq
  <2>6. f[pv(N)] = SubSeq(B, N, N)
    BY <2>2, <2>3, <2>4, <2>5, Zenon
  <2> QED
    BY <2>1, <2>6
<1>10. ASSUME NEW k \in 0..(Len(R) - 1), k \in S
       PROVE  k + 1 \in S
  <2>1. PICK n \in 1..N : n = N - (k + 1)
    <3>1. N - (k + 1) \in 1..N
      BY <1>1
    <3> QED
      BY <3>1
  <2>2. /\ n + 1 = N - k /\ n # N /\ n \in 1..Len(B) /\ N \in n..Len(B) /\ k + 1 \in 0..Len(R)
        /\ f[pv(n + 1)] = SubSeq(B, n + 1, N)
    BY <1>1, <1>4, <1>10, <2>1
  <2>3. f[pv(n)] = <<B[n]>> \o f[pv(n + 1)]
    BY <1>8, <2>2
  <2>4. SubSeq(B, n, N) = <<B[n]>> \o SubSeq(B, n + 1, N)
    BY <2>2, SubSeqRecursiveFirst
  <2>5. f[pv(n)] = SubSeq(B, n, N)
    BY <2>2, <2>3, <2>4, Zenon
  <2> QED
    BY <2>1, <2>2, <2>5
<1>11. Len(R) \in S
  <2> HIDE DEF S
  <2>1. Len(R) \in 0..Len(R)
    BY <1>1
  <2> QED
    BY <1>1, <1>9, <1>10, <2>1, IntervalInduction
<1>12. f[pv(1)] = SubSeq(B, 1, N)
  <2>1. N - Len(R) = 1
    BY <1>1
  <2> QED
    BY <1>11, <2>1
<1>13. pv(1) = <<1, v>>
  BY Places1 DEF pv
<1>14. SubSeq(B, 1, N) = B
  BY <1>4, SubSeqFull
<1> QED
  BY <1>2, <1>3, <1>6, <1>12, <1>13, <1>14

-----------------------------------------------------------------------------
(* The positions of the 1s.                                                *)

(* The positions of the 1s of runs from v on. *)
Ones(R, v) == {i \in v..(v + Span(R) - 1) : Spelled(Repeater, R)[i - v + 1] = 1}
OnesAdd(R, S, v) == Ones(R \o S, v) = Ones(R, v) \cup Ones(S, v + Span(R))

(* The positions of the 1s lie in the span and add up. *)
LEMMA OnesProperties ==
  ASSUME NEW v \in Nat
  PROVE  /\ \A R \in Seq(Runs) : Ones(R, v) \subseteq v..(v + Span(R) - 1) /\ Ones(R, v) \subseteq Nat
         /\ Ones(<<>>, v) = {}
         /\ \A x \in Runs : Ones(<<x>>, v) = IF x.bit = 1 THEN v..(v + x.run - 1) ELSE {}
         /\ \A R, S \in Seq(Runs) : OnesAdd(R, S, v)
<1>1. \A R \in Seq(Runs) : Ones(R, v) \subseteq v..(v + Span(R) - 1) /\ Ones(R, v) \subseteq Nat
  <2>1. \A R : Ones(R, v) \subseteq v..(v + Span(R) - 1)
    BY DEF Ones
  <2>2. \A R \in Seq(Runs) : Span(R) \in Nat
    BY SpanProperties
  <2>3. \A m \in Nat : v..(v + m - 1) \subseteq Nat
    OBVIOUS
  <2> QED
    BY <2>1, <2>2, <2>3
<1>2. Ones(<<>>, v) = {}
  <2>1. v..(v + 0 - 1) = {}
    OBVIOUS
  <2> QED
    BY <2>1, SpanProperties DEF Ones
<1>3. ASSUME NEW x \in Runs
      PROVE  Ones(<<x>>, v) = IF x.bit = 1 THEN v..(v + x.run - 1) ELSE {}
  <2>1. Span(<<x>>) = x.run /\ x.run \in Nat
    BY SpanProperties, RunsType
  <2>2. Spelled(Repeater, <<x>>) = [i \in 1..x.run |-> x.bit]
    <3>1. Spelled(Repeater, <<x>>) = Repeater[x]
      BY RepeaterSpeller, SpelledProperties
    <3> QED
      BY <3>1 DEF Repeater
  <2>3. ASSUME NEW i \in v..(v + x.run - 1)
        PROVE  Spelled(Repeater, <<x>>)[i - v + 1] = x.bit
    <3>1. i - v + 1 \in 1..x.run
      BY <2>1
    <3> QED
      BY <2>2, <3>1
  <2> QED
    BY <2>1, <2>3 DEF Ones
<1>4. ASSUME NEW R \in Seq(Runs), NEW S \in Seq(Runs)
      PROVE  OnesAdd(R, S, v)
  <2>1. PICK r \in Seq(0..1) : r = Spelled(Repeater, R)
    BY RepeaterSpeller, SpelledProperties
  <2>2. PICK s \in Seq(0..1) : s = Spelled(Repeater, S)
    BY RepeaterSpeller, SpelledProperties
  <2>3. Spelled(Repeater, R \o S) = r \o s
    <3>1. \A R1, S1 \in Seq(Runs) :
            Spelled(Repeater, R1 \o S1) = Spelled(Repeater, R1) \o Spelled(Repeater, S1)
      BY RepeaterSpeller, SpelledProperties
    <3> QED
      BY <2>1, <2>2, <3>1, Zenon
  <2>4. PICK rs : rs = r \o s
    OBVIOUS
  <2>5. /\ Len(rs) = Len(r) + Len(s)
        /\ \A i \in 1..(Len(r) + Len(s)) : rs[i] = IF i <= Len(r) THEN r[i] ELSE s[i - Len(r)]
        /\ Len(r) \in Nat /\ Len(s) \in Nat
    BY <2>4, ConcatProperties, LenProperties
  <2>6. Span(R) = Len(r) /\ Span(S) = Len(s) /\ Span(R \o S) = Len(rs)
    BY <2>1, <2>2, <2>3, <2>4 DEF Span
  <2>7. /\ Ones(R, v) = {i \in v..(v + Len(r) - 1) : r[i - v + 1] = 1}
        /\ Ones(S, v + Span(R))
             = {i \in (v + Len(r))..(v + Len(r) + Len(s) - 1) : s[i - (v + Len(r)) + 1] = 1}
        /\ Ones(R \o S, v) = {i \in v..(v + (Len(r) + Len(s)) - 1) : rs[i - v + 1] = 1}
    BY <2>1, <2>2, <2>3, <2>4, <2>5, <2>6 DEF Ones
  <2>8. ASSUME NEW i \in v..(v + (Len(r) + Len(s)) - 1)
        PROVE  rs[i - v + 1] = IF i <= v + Len(r) - 1 THEN r[i - v + 1] ELSE s[i - (v + Len(r)) + 1]
    <3>1. i - v + 1 \in 1..(Len(r) + Len(s))
      BY <2>5
    <3>2. (i - v + 1 <= Len(r) <=> i <= v + Len(r) - 1) /\ (i - v + 1) - Len(r) = i - (v + Len(r)) + 1
      BY <2>5
    <3> QED
      BY <2>5, <3>1, <3>2
  <2>9. v..(v + (Len(r) + Len(s)) - 1) = (v..(v + Len(r) - 1)) \cup ((v + Len(r))..(v + Len(r) + Len(s) - 1))
    BY <2>5
  <2>10. /\ \A i \in v..(v + Len(r) - 1) : i <= v + Len(r) - 1
         /\ \A i \in (v + Len(r))..(v + Len(r) + Len(s) - 1) : ~(i <= v + Len(r) - 1)
    BY <2>5
  <2>11. Ones(R \o S, v) = Ones(R, v) \cup Ones(S, v + Span(R))
    BY <2>7, <2>8, <2>9, <2>10
  <2> QED
    BY <2>11 DEF OnesAdd
<1> QED
  BY <1>1, <1>2, <1>3, <1>4

(* ... and of three sequences of runs in a row. *)
LEMMA OnesRow ==
  ASSUME NEW x \in Seq(Runs), NEW y \in Seq(Runs), NEW z \in Seq(Runs), NEW v \in Nat
  PROVE  /\ Row(x, y, z) \in Seq(Runs)
         /\ Span(Row(x, y, z)) = Span(x) + Span(y) + Span(z)
         /\ Ones(Row(x, y, z), v)
              = Ones(x, v) \cup Ones(y, v + Span(x)) \cup Ones(z, v + Span(x) + Span(y))
<1>1. PICK w \in Seq(Runs) : w = x \o y
  BY ConcatProperties
<1>2. Span(w) = Span(x) + Span(y) /\ OnesAdd(x, y, v)
  BY <1>1, SpanProperties, OnesProperties
<1>3. w \o z \in Seq(Runs) /\ Span(w \o z) = Span(w) + Span(z) /\ OnesAdd(w, z, v)
  BY ConcatProperties, SpanProperties, OnesProperties
<1>4. PICK u \in Seq(Runs) : u = w \o z /\ u = Row(x, y, z)
  BY <1>1, <1>3, Zenon DEF Row
<1>5. Ones(w, v) = Ones(x, v) \cup Ones(y, v + Span(x))
  BY <1>1, <1>2, Zenon DEF OnesAdd
<1>6. Ones(u, v) = Ones(w, v) \cup Ones(z, v + Span(w))
  BY <1>3, <1>4, Zenon DEF OnesAdd
<1>7. Span(u) = Span(w) + Span(z)
  BY <1>3, <1>4, Zenon
<1>8. Span(x) \in Nat /\ Span(y) \in Nat /\ Span(z) \in Nat
  BY SpanProperties
<1>9. v + Span(w) = v + Span(x) + Span(y) /\ Span(u) = Span(x) + Span(y) + Span(z)
  BY <1>2, <1>7, <1>8
<1> QED
  BY <1>4, <1>5, <1>6, <1>9

(* Runs further on. *)
LEMMA OnesShift ==
  ASSUME NEW R \in Seq(Runs), NEW v \in Nat
  PROVE  Ones(R, v + 1) = {b + 1 : b \in Ones(R, v)}
<1>1. PICK m \in Nat : m = Span(R)
  BY SpanProperties
<1>2. PICK r : r = Spelled(Repeater, R)
  OBVIOUS
<1>3. /\ Ones(R, v) = {i \in v..(v + m - 1) : r[i - v + 1] = 1}
      /\ Ones(R, v + 1) = {i \in (v + 1)..(v + 1 + m - 1) : r[i - (v + 1) + 1] = 1}
  BY <1>1, <1>2 DEF Ones
<1>4. ASSUME NEW i \in Ones(R, v + 1)
      PROVE  i \in {b + 1 : b \in Ones(R, v)}
  <2>1. i \in (v + 1)..(v + 1 + m - 1) /\ r[i - (v + 1) + 1] = 1
    BY <1>3
  <2>2. i - 1 \in v..(v + m - 1) /\ (i - 1) - v + 1 = i - (v + 1) + 1 /\ i = (i - 1) + 1
    BY <2>1
  <2>3. i - 1 \in Ones(R, v)
    BY <1>3, <2>1, <2>2
  <2> QED
    BY <2>2, <2>3
<1>5. ASSUME NEW b \in Ones(R, v)
      PROVE  b + 1 \in Ones(R, v + 1)
  <2>1. b \in v..(v + m - 1) /\ r[b - v + 1] = 1
    BY <1>3
  <2>2. b + 1 \in (v + 1)..(v + 1 + m - 1) /\ (b + 1) - (v + 1) + 1 = b - v + 1
    BY <2>1
  <2> QED
    BY <1>3, <2>1, <2>2
<1> QED
  BY <1>4, <1>5

-----------------------------------------------------------------------------
(* A sequence of runs, seen from its n-th. *)
PartsAt(R, v, n, P, Q) ==
  /\ Len(P) = n - 1 /\ Len(Q) = Len(R) - n /\ R = Row(P, <<R[n]>>, Q)
  /\ P = SubSeq(R, 1, n - 1) /\ Q = SubSeq(R, n + 1, Len(R))
  /\ Val(R, v, n) = v + Span(P) /\ At(R, n) = 1 + Len(Coded(P))
  /\ Ones(R, v) = Ones(P, v) \cup Ones(<<R[n]>>, Val(R, v, n)) \cup Ones(Q, Val(R, v, n) + R[n].run)
  /\ v + Span(R) = Val(R, v, n) + R[n].run + Span(Q)

(* A list of runs can be taken apart at any of them. *)
LEMMA AtRun ==
  ASSUME NEW R \in Seq(Runs), NEW v \in Nat, NEW n \in 1..Len(R)
  PROVE  \E P, Q \in Seq(Runs) : PartsAt(R, v, n, P, Q)
<1>1. PICK P \in Seq(Runs) : P = SubSeq(R, 1, n - 1)
  BY Parting
<1>2. PICK Q \in Seq(Runs) : Q = SubSeq(R, n + 1, Len(R))
  BY Parting
<1>3. PICK x \in Runs : x = R[n]
  BY Parting
<1>4. R = Row(P, <<x>>, Q)
  <2>1. R = Row(SubSeq(R, 1, n - 1), <<R[n]>>, SubSeq(R, n + 1, Len(R)))
    BY Parting
  <2> QED
    BY <1>1, <1>2, <1>3, <2>1
<1>5. Len(P) = n - 1 /\ Len(Q) = Len(R) - n
  BY <1>1, <1>2, Parting
<1>6. Val(R, v, n) = v + Span(P) /\ At(R, n) = 1 + Len(Coded(P))
  BY <1>1 DEF Val, At
<1>7. <<x>> \in Seq(Runs) /\ Span(<<x>>) = x.run
  BY SpanProperties
<1>8. /\ Span(Row(P, <<x>>, Q)) = Span(P) + Span(<<x>>) + Span(Q)
      /\ Ones(Row(P, <<x>>, Q), v)
           = Ones(P, v) \cup Ones(<<x>>, v + Span(P)) \cup Ones(Q, v + Span(P) + Span(<<x>>))
  <2>1. PICK y \in Seq(Runs) : y = <<x>>
    BY <1>7
  <2>2. /\ Span(Row(P, y, Q)) = Span(P) + Span(y) + Span(Q)
        /\ Ones(Row(P, y, Q), v) = Ones(P, v) \cup Ones(y, v + Span(P)) \cup Ones(Q, v + Span(P) + Span(y))
    BY OnesRow
  <2> QED
    BY <2>1, <2>2, Zenon
<1>9. Span(P) \in Nat /\ Span(Q) \in Nat /\ x.run \in Nat
  BY SpanProperties, RunsType
<1>10. v + Span(R) = Val(R, v, n) + x.run + Span(Q)
  BY <1>4, <1>6, <1>7, <1>8, <1>9
<1>11. Ones(R, v) = Ones(P, v) \cup Ones(<<x>>, Val(R, v, n)) \cup Ones(Q, Val(R, v, n) + x.run)
  BY <1>4, <1>6, <1>7, <1>8
<1> QED
  BY <1>1, <1>2, <1>3, <1>4, <1>5, <1>6, <1>10, <1>11, Zenon DEF PartsAt

(* The bits a reader of the string finds are those 1s. *)
LEMMA BitsRead ==
  ASSUME NEW R \in Seq(Runs), NEW T \in Terminators, NEW v \in Nat
  PROVE  BitsOf(Coded(R) \o T, v) = Ones(R, v)
<1> DEFINE B == BlocksFor(R, v)
           I(n) == IF R[n].bit = 1 THEN Val(R, v, n)..(Val(R, v, n) + R[n].run - 1) ELSE {}
           S == {k \in 0..Len(R) : Ones(SubSeq(R, 1, k), v) = UNION {I(n) : n \in 1..k}}
<1>1. Len(R) \in Nat /\ \A n \in 1..Len(R) : R[n] \in Runs
  BY LenProperties, ElementOfSeq
<1>2. BitsOf(Coded(R) \o T, v) = UNION {B[n].value..(B[n].value + B[n].run - 1) :
                                          n \in {m \in DOMAIN B : B[m].bit = 1}}
  <2>1. BlocksOf(Coded(R) \o T, v) = B
    BY BlocksRead
  <2> HIDE DEF B
  <2> QED
    BY <2>1 DEF BitsOf
<1>3. UNION {B[n].value..(B[n].value + B[n].run - 1) : n \in {m \in DOMAIN B : B[m].bit = 1}}
        = UNION {I(n) : n \in 1..Len(R)}
  <2>1. DOMAIN B = 1..(Len(R) + 1) /\ \A n \in 1..(Len(R) + 1) : B[n] = BlockFor(R, v, n)
    BY BlocksForType
  <2>2. \A n \in 1..(Len(R) + 1) :
          /\ n \in 1..Len(R) => B[n].bit = R[n].bit /\ B[n].value = Val(R, v, n) /\ B[n].run = R[n].run
          /\ n \notin 1..Len(R) => B[n].bit = 0
    <3>1. \A n \in 1..(Len(R) + 1) : n \in 1..Len(R) <=> n <= Len(R)
      BY <1>1
    <3> QED
      BY <2>1, <3>1 DEF BlockFor
  <2>3. \A n \in 1..Len(R) : n \in 1..(Len(R) + 1)
    BY <1>1
  <2> HIDE DEF B
  <2> QED
    BY <2>1, <2>2, <2>3
<1>4. 0 \in S
  <2>1. SubSeq(R, 1, 0) = <<>>
    BY SubSeqEmpty
  <2>2. 1..0 = {} /\ 0 \in 0..Len(R)
    BY <1>1
  <2>3. Ones(SubSeq(R, 1, 0), v) = {}
    BY <2>1, OnesProperties
  <2> QED
    BY <2>2, <2>3
<1>5. ASSUME NEW k \in 0..(Len(R) - 1), k \in S
      PROVE  k + 1 \in S
  <2>1. PICK n \in 1..Len(R) : n = k + 1 /\ n - 1 = k /\ n \in 0..Len(R)
    BY <1>1
  <2>2. PICK P \in Seq(Runs) : P = SubSeq(R, 1, n - 1)
    BY Parting
  <2>3. SubSeq(R, 1, n) = P \o <<R[n]>>
    BY <2>2, Parting
  <2>4. R[n] \in Runs /\ <<R[n]>> \in Seq(Runs)
    BY <1>1
  <2>5. OnesAdd(P, <<R[n]>>, v)
    BY <2>4, OnesProperties
  <2>6. Ones(SubSeq(R, 1, n), v) = Ones(P, v) \cup Ones(<<R[n]>>, v + Span(P))
    BY <2>3, <2>5, Zenon DEF OnesAdd
  <2>7. Ones(<<R[n]>>, Val(R, v, n)) = I(n)
    <3>1. Val(R, v, n) \in Nat
      <4>1. n \in 1..(Len(R) + 1)
        BY <1>1
      <4> QED
        BY <4>1, Places1
    <3> QED
      BY <2>4, <3>1, OnesProperties
  <2>8. Val(R, v, n) = v + Span(P)
    BY <2>2 DEF Val
  <2>9. Ones(P, v) = UNION {I(m) : m \in 1..k}
    BY <1>5, <2>1, <2>2
  <2>10. \A m \in 1..n : m \in 1..k \/ m = n
    BY <2>1
  <2>11. \A m \in 1..k : m \in 1..n
    BY <2>1
  <2>12. Ones(SubSeq(R, 1, n), v) = UNION {I(m) : m \in 1..n}
    <3>1. UNION {I(m) : m \in 1..n} = (UNION {I(m) : m \in 1..k}) \cup I(n)
      <4> HIDE DEF I
      <4>1. n \in 1..n
        OBVIOUS
      <4> QED
        BY <2>10, <2>11, <4>1
    <3> HIDE DEF I
    <3> QED
      BY <2>6, <2>7, <2>8, <2>9, <3>1, Zenon
  <2> QED
    BY <2>1, <2>12
<1>6. Len(R) \in S
  <2> HIDE DEF S
  <2>1. Len(R) \in 0..Len(R)
    BY <1>1
  <2> QED
    BY <1>1, <1>4, <1>5, <2>1, IntervalInduction
<1>7. SubSeq(R, 1, Len(R)) = R
  BY SubSeqFull
<1> QED
  BY <1>2, <1>3, <1>6, <1>7

(* What set() finds for an index at or beyond the first position. *)
LEMMA Finds ==
  ASSUME NEW R \in Seq(Runs), NEW v \in Nat, NEW index \in Nat, v <= index
  PROVE  \E n \in 1..(Len(R) + 1) :
           /\ FoundIn(BlocksFor(R, v), index) = n
           /\ Val(R, v, n) <= index
           /\ n <= Len(R) => index < Val(R, v, n) + R[n].run
           /\ BlocksFor(R, v)[n].bit = IF index \in Ones(R, v) THEN 1 ELSE 0
<1> DEFINE N == Len(R) + 1
<1>1. Len(R) \in Nat /\ \A n \in 1..Len(R) : R[n] \in Runs
  BY LenProperties, ElementOfSeq
<1>2. PICK B \in Seq(BlockSet) : B = BlocksFor(R, v)
  BY BlocksForType
<1>3. DOMAIN B = 1..N /\ \A n \in 1..N : B[n] = BlockFor(R, v, n)
  BY <1>2, BlocksForType
<1> DEFINE Stop(n) == B[n].run = 0 \/ B[n].value + B[n].run > index
<1>4. \A n \in 1..N : /\ B[n].run \in Nat /\ B[n].value \in Nat /\ B[n].value = Val(R, v, n)
                      /\ n <= Len(R) => B[n].run = R[n].run /\ B[n].run # 0 /\ B[n].bit = R[n].bit
                      /\ ~(n <= Len(R)) => B[n].run = 0 /\ B[n].bit = 0
  <2> TAKE n \in 1..N
  <2>1. B[n].value = Val(R, v, n) /\ Val(R, v, n) \in Nat
    BY <1>3, Places1 DEF BlockFor
  <2>2. CASE n <= Len(R)
    <3>1. R[n] \in Runs
      BY <1>1, <2>2
    <3>2. R[n].run \in Nat \ {0}
      BY <3>1, RunsType
    <3> QED
      BY <1>3, <2>1, <2>2, <3>2 DEF BlockFor
  <2>3. CASE ~(n <= Len(R))
    BY <1>3, <2>1, <2>3 DEF BlockFor
  <2> QED
    BY <2>2, <2>3
<1>5. PICK n \in 1..N : FoundIn(B, index) = n /\ Stop(n) /\ \A m \in 1..(n - 1) : B[m].value + B[m].run <= index
  <2> DEFINE Z == {n \in 1..N : Stop(n)}
  <2>1. Z \in SUBSET Nat /\ N \in Z
    BY <1>1, <1>4
  <2>2. PICK k \in Z : \A m \in Z : k <= m
    <3> HIDE DEF Z
    <3> QED
      BY <2>1, NatMin
  <2>3. \A m \in 1..(k - 1) : B[m].value + B[m].run <= index
    <3> TAKE m \in 1..(k - 1)
    <3>1. m \in 1..N /\ ~(k <= m)
      BY <1>1, <2>2
    <3>2. m \notin Z
      BY <2>2, <3>1
    <3>3. B[m].value \in Nat /\ B[m].run \in Nat /\ ~(B[m].value + B[m].run > index)
      BY <1>4, <3>1, <3>2
    <3> QED
      BY <3>3
  <2>4. k \in DOMAIN B /\ Stop(k)
    BY <1>3, <2>2
  <2>5. \E j \in DOMAIN B : Stop(j) /\ \A m \in 1..(j - 1) : B[m].value + B[m].run <= index
    BY <2>3, <2>4
  <2>6. FoundIn(B, index)
          = CHOOSE j \in DOMAIN B : Stop(j) /\ \A m \in 1..(j - 1) : B[m].value + B[m].run <= index
    BY Zenon DEF FoundIn
  <2> HIDE DEF Stop
  <2> QED
    BY <1>3, <2>5, <2>6
<1>6. Val(R, v, n) <= index
  <2>1. CASE n = 1
    BY <2>1, Places1
  <2>2. CASE n # 1
    <3>1. PICK m \in 1..Len(R) : m = n - 1 /\ m \in 1..(n - 1) /\ m \in 1..N /\ m + 1 = n /\ m <= Len(R)
      BY <1>1, <2>2
    <3>2. Val(R, v, m + 1) = Val(R, v, m) + R[m].run
      BY Places1
    <3>3. B[m].value + B[m].run <= index /\ B[m].value = Val(R, v, m) /\ B[m].run = R[m].run
      BY <1>4, <1>5, <3>1
    <3> QED
      BY <3>1, <3>2, <3>3
  <2> QED
    BY <2>1, <2>2
<1>7. n <= Len(R) => index < Val(R, v, n) + R[n].run
  <2>1. SUFFICES ASSUME n <= Len(R) PROVE index < Val(R, v, n) + R[n].run
    OBVIOUS
  <2>2. B[n].value + B[n].run > index /\ B[n].value \in Nat /\ B[n].run \in Nat
    BY <1>4, <1>5, <2>1
  <2> QED
    BY <1>4, <2>1, <2>2
<1>8. B[n].bit = IF index \in Ones(R, v) THEN 1 ELSE 0
  <2>1. CASE n <= Len(R)
    <3>0. n \in 1..Len(R)
      BY <1>1, <2>1
    <3>1. PICK P, Q \in Seq(Runs) : PartsAt(R, v, n, P, Q)
      BY <3>0, AtRun
    <3>2. PICK w \in Nat : w = Val(R, v, n)
      BY Places1
    <3>3. PICK x \in Runs : x = R[n]
      BY <1>1, <3>0
    <3>4. x.run \in Nat /\ x.bit \in 0..1 /\ w <= index /\ index < w + x.run /\ w = v + Span(P)
      BY <1>6, <1>7, <2>1, <3>1, <3>2, <3>3, RunsType DEF PartsAt
    <3>5. Ones(P, v) \subseteq v..(v + Span(P) - 1)
      BY OnesProperties
    <3>6. Ones(Q, w + x.run) \subseteq (w + x.run)..(w + x.run + Span(Q) - 1)
      <4>1. w + x.run \in Nat
        BY <3>4
      <4> QED
        BY <4>1, OnesProperties
    <3>7. Ones(<<x>>, w) = IF x.bit = 1 THEN w..(w + x.run - 1) ELSE {}
      BY OnesProperties
    <3>8. index \notin Ones(P, v) /\ index \notin Ones(Q, w + x.run)
      <4>1. Span(P) \in Nat /\ Span(Q) \in Nat
        BY SpanProperties
      <4>2. index \notin v..(v + Span(P) - 1) /\ index \notin (w + x.run)..(w + x.run + Span(Q) - 1)
        BY <3>4, <4>1
      <4> QED
        BY <3>5, <3>6, <4>2
    <3>9. index \in w..(w + x.run - 1)
      BY <3>4
    <3>10. index \in Ones(R, v) <=> x.bit = 1
      <4>1. Ones(R, v) = Ones(P, v) \cup Ones(<<x>>, w) \cup Ones(Q, w + x.run)
        BY <3>1, <3>2, <3>3, Zenon DEF PartsAt
      <4> QED
        BY <3>7, <3>8, <3>9, <4>1
    <3>11. B[n].bit = x.bit
      BY <1>4, <2>1, <3>3
    <3> QED
      BY <3>4, <3>10, <3>11
  <2>2. CASE ~(n <= Len(R))
    <3>1. n = Len(R) + 1
      BY <1>1, <2>2
    <3>2. v + Span(R) <= index
      BY <1>6, <3>1, Places1
    <3>3. index \notin Ones(R, v)
      <4>1. Ones(R, v) \subseteq v..(v + Span(R) - 1) /\ Span(R) \in Nat
        BY OnesProperties, SpanProperties
      <4>2. index \notin v..(v + Span(R) - 1)
        BY <3>2, <4>1
      <4> QED
        BY <4>1, <4>2
    <3> QED
      BY <1>4, <2>2, <3>3
  <2> QED
    BY <2>1, <2>2
<1> QED
  BY <1>2, <1>5, <1>6, <1>7, <1>8

-----------------------------------------------------------------------------
(* Exchanging a part of a canonical list of runs.                          *)

(* Runs of 0s and of 1s alternate, and the first is of 0s. *)
Alternates(R) == \A n \in 2..Len(R) : R[n].bit # R[n - 1].bit
Canon(R) == R # <<>> /\ R[1].bit = 0 /\ Alternates(R)

(* The elements of three sequences in a row. *)
Rowed(r, x, y, z) ==
  /\ r = Row(x, y, z)
  /\ Len(r) = Len(x) + Len(y) + Len(z) /\ Len(x) \in Nat /\ Len(y) \in Nat /\ Len(z) \in Nat
  /\ \A k \in 1..Len(x) : r[k] = x[k]
  /\ \A k \in (Len(x) + 1)..(Len(x) + Len(y)) : r[k] = y[k - Len(x)]
  /\ \A k \in (Len(x) + Len(y) + 1)..Len(r) : r[k] = z[k - (Len(x) + Len(y))]

(* The elements of three parts in a row. *)
LEMMA RowElements ==
  ASSUME NEW A, NEW x \in Seq(A), NEW y \in Seq(A), NEW z \in Seq(A)
  PROVE  \E r \in Seq(A) : Rowed(r, x, y, z)
<1>1. Len(x) \in Nat /\ Len(y) \in Nat /\ Len(z) \in Nat
  BY LenProperties
<1>2. PICK w \in Seq(A) : w = x \o y
  BY ConcatProperties
<1>3. /\ Len(w) = Len(x) + Len(y)
      /\ \A i \in 1..(Len(x) + Len(y)) : w[i] = IF i <= Len(x) THEN x[i] ELSE y[i - Len(x)]
  BY <1>2, ConcatProperties
<1>4. PICK r \in Seq(A) : r = w \o z
  BY ConcatProperties
<1>5. /\ Len(r) = Len(w) + Len(z)
      /\ \A i \in 1..(Len(w) + Len(z)) : r[i] = IF i <= Len(w) THEN w[i] ELSE z[i - Len(w)]
  BY <1>4, ConcatProperties
<1>6. r = Row(x, y, z)
  BY <1>2, <1>4, Zenon DEF Row
<1>7. \A k \in 1..Len(x) : r[k] = x[k]
  BY <1>1, <1>3, <1>5
<1>8. \A k \in (Len(x) + 1)..(Len(x) + Len(y)) : r[k] = y[k - Len(x)]
  BY <1>1, <1>3, <1>5
<1>9. \A k \in (Len(x) + Len(y) + 1)..Len(r) : r[k] = z[k - (Len(x) + Len(y))]
  BY <1>1, <1>3, <1>5
<1> QED
  BY <1>1, <1>3, <1>5, <1>6, <1>7, <1>8, <1>9 DEF Rowed

(* Alternation survives the exchange of runs in the middle. *)
SameEnds(M, N, Q) ==
  /\ M # <<>> /\ N # <<>> /\ Alternates(N)
  /\ N[1].bit = M[1].bit
  /\ Q = <<>> \/ N[Len(N)].bit = M[Len(M)].bit

(* Runs stay canonical when a part gives way to one that begins and ends   *)
(* alike.                                                                  *)
LEMMA CanonExchange ==
  ASSUME NEW P \in Seq(Runs), NEW M \in Seq(Runs), NEW N \in Seq(Runs), NEW Q \in Seq(Runs),
         Canon(Row(P, M, Q)), SameEnds(M, N, Q)
  PROVE  Canon(Row(P, N, Q))
<1>a. PICK r \in Seq(Runs) : Rowed(r, P, M, Q)
  BY RowElements
<1>b. PICK s \in Seq(Runs) : Rowed(s, P, N, Q)
  BY RowElements
<1>1. /\ r = Row(P, M, Q)
      /\ Len(r) = Len(P) + Len(M) + Len(Q) /\ Len(P) \in Nat /\ Len(M) \in Nat /\ Len(Q) \in Nat
      /\ \A k \in 1..Len(P) : r[k] = P[k]
      /\ \A k \in (Len(P) + 1)..(Len(P) + Len(M)) : r[k] = M[k - Len(P)]
      /\ \A k \in (Len(P) + Len(M) + 1)..Len(r) : r[k] = Q[k - (Len(P) + Len(M))]
  BY <1>a DEF Rowed
<1>2. /\ s = Row(P, N, Q)
      /\ Len(s) = Len(P) + Len(N) + Len(Q) /\ Len(P) \in Nat /\ Len(N) \in Nat /\ Len(Q) \in Nat
      /\ \A k \in 1..Len(P) : s[k] = P[k]
      /\ \A k \in (Len(P) + 1)..(Len(P) + Len(N)) : s[k] = N[k - Len(P)]
      /\ \A k \in (Len(P) + Len(N) + 1)..Len(s) : s[k] = Q[k - (Len(P) + Len(N))]
  BY <1>b DEF Rowed
<1>3. /\ r[1].bit = 0 /\ \A n \in 2..Len(r) : r[n].bit # r[n - 1].bit
      /\ \A n \in 2..Len(N) : N[n].bit # N[n - 1].bit
      /\ N[1].bit = M[1].bit
      /\ Q = <<>> \/ N[Len(N)].bit = M[Len(M)].bit
  BY <1>1, Zenon DEF Canon, SameEnds, Alternates
<1>4. Len(M) >= 1 /\ Len(N) >= 1 /\ (Q = <<>> => Len(Q) = 0)
  <2>1. M # <<>> /\ N # <<>>
    BY DEF SameEnds
  <2> QED
    BY <1>1, <1>2, <2>1, EmptySeq
<1>5. s # <<>> /\ s[1].bit = 0
  <2>1. CASE Len(P) = 0
    <3>1. s[1] = N[1 - Len(P)] /\ r[1] = M[1 - Len(P)]
      <4>1. 1 \in (Len(P) + 1)..(Len(P) + Len(N)) /\ 1 \in (Len(P) + 1)..(Len(P) + Len(M))
        BY <1>1, <1>2, <1>4, <2>1
      <4> QED
        BY <1>1, <1>2, <4>1
    <3> QED
      BY <1>2, <1>3, <1>4, <2>1, <3>1, EmptySeq
  <2>2. CASE Len(P) # 0
    <3>1. 1 \in 1..Len(P)
      BY <1>1, <2>2
    <3> QED
      BY <1>1, <1>2, <1>3, <1>4, <3>1, EmptySeq
  <2> QED
    BY <2>1, <2>2
<1>6. ASSUME NEW n \in 2..Len(s)
      PROVE  s[n].bit # s[n - 1].bit
  <2>1. CASE n <= Len(P)
    <3>1. n \in 1..Len(P) /\ n - 1 \in 1..Len(P) /\ n \in 2..Len(r)
      BY <1>1, <2>1
    <3>2. s[n] = r[n] /\ s[n - 1] = r[n - 1]
      BY <1>1, <1>2, <3>1
    <3> QED
      BY <1>3, <3>1, <3>2
  <2>2. CASE n = Len(P) + 1
    <3>1. /\ n \in (Len(P) + 1)..(Len(P) + Len(N)) /\ n \in (Len(P) + 1)..(Len(P) + Len(M))
          /\ n - 1 \in 1..Len(P) /\ n \in 2..Len(r) /\ n - Len(P) = 1
      BY <1>1, <1>2, <1>4, <2>2
    <3>2. s[n] = N[1] /\ r[n] = M[1] /\ s[n - 1] = P[n - 1] /\ r[n - 1] = P[n - 1]
      BY <1>1, <1>2, <3>1
    <3> QED
      BY <1>3, <3>1, <3>2
  <2>3. CASE n > Len(P) + 1 /\ n <= Len(P) + Len(N)
    <3>1. /\ n \in (Len(P) + 1)..(Len(P) + Len(N)) /\ n - 1 \in (Len(P) + 1)..(Len(P) + Len(N))
          /\ n - Len(P) \in 2..Len(N) /\ (n - 1) - Len(P) = (n - Len(P)) - 1
      BY <1>1, <1>2, <2>3
    <3>2. s[n] = N[n - Len(P)] /\ s[n - 1] = N[(n - Len(P)) - 1]
      BY <1>2, <3>1
    <3> QED
      BY <1>3, <3>1, <3>2
  <2>4. CASE n = Len(P) + Len(N) + 1
    <3> DEFINE k == Len(P) + Len(M) + 1
    <3>1. /\ n - 1 \in (Len(P) + 1)..(Len(P) + Len(N)) /\ (n - 1) - Len(P) = Len(N)
          /\ n \in (Len(P) + Len(N) + 1)..Len(s) /\ n - (Len(P) + Len(N)) = 1
          /\ k - 1 \in (Len(P) + 1)..(Len(P) + Len(M)) /\ (k - 1) - Len(P) = Len(M)
          /\ k \in (Len(P) + Len(M) + 1)..Len(r) /\ k - (Len(P) + Len(M)) = 1
          /\ k \in 2..Len(r) /\ Len(Q) # 0
      BY <1>1, <1>2, <1>4, <2>4
    <3>2. s[n - 1] = N[Len(N)] /\ s[n] = Q[1] /\ r[k - 1] = M[Len(M)] /\ r[k] = Q[1]
      BY <1>1, <1>2, <3>1
    <3> HIDE DEF k
    <3> QED
      BY <1>3, <1>4, <3>1, <3>2
  <2>5. CASE n > Len(P) + Len(N) + 1
    <3> DEFINE k == n - Len(N) + Len(M)
    <3>1. /\ n - 1 \in (Len(P) + Len(N) + 1)..Len(s) /\ n \in (Len(P) + Len(N) + 1)..Len(s)
          /\ k - 1 \in (Len(P) + Len(M) + 1)..Len(r) /\ k \in (Len(P) + Len(M) + 1)..Len(r)
          /\ n - (Len(P) + Len(N)) = k - (Len(P) + Len(M))
          /\ (n - 1) - (Len(P) + Len(N)) = (k - 1) - (Len(P) + Len(M))
          /\ k \in 2..Len(r)
      BY <1>1, <1>2, <1>4, <2>5
    <3>2. s[n - 1] = r[k - 1] /\ s[n] = r[k]
      BY <1>1, <1>2, <3>1
    <3> HIDE DEF k
    <3> QED
      BY <1>3, <3>1, <3>2
  <2>6. n <= Len(P) \/ n = Len(P) + 1 \/ (n > Len(P) + 1 /\ n <= Len(P) + Len(N))
          \/ n = Len(P) + Len(N) + 1 \/ n > Len(P) + Len(N) + 1
    BY <1>2
  <2> QED
    BY <2>1, <2>2, <2>3, <2>4, <2>5, <2>6
<1> QED
  BY <1>2, <1>5, <1>6 DEF Canon, Alternates

-----------------------------------------------------------------------------
(* Replacing bytes is exchanging the middle of three strings. *)
LEMMA ReplacedMiddle ==
  ASSUME NEW A, NEW x \in Seq(A), NEW y \in Seq(A), NEW z \in Seq(A), NEW new
  PROVE  Replaced(Row(x, y, z), Len(x) + 1, Len(x) + Len(y) + 1, new) = Row(x, new, z)
<1>a. PICK r \in Seq(A) : Rowed(r, x, y, z)
  BY RowElements
<1>1. /\ r = Row(x, y, z)
      /\ Len(r) = Len(x) + Len(y) + Len(z) /\ Len(x) \in Nat /\ Len(y) \in Nat /\ Len(z) \in Nat
      /\ \A k \in 1..Len(x) : r[k] = x[k]
      /\ \A k \in (Len(x) + 1)..(Len(x) + Len(y)) : r[k] = y[k - Len(x)]
      /\ \A k \in (Len(x) + Len(y) + 1)..Len(r) : r[k] = z[k - (Len(x) + Len(y))]
  BY <1>a DEF Rowed
<1>2. SubSeq(r, 1, Len(x)) = x
  <2>1. \A i \in 1..Len(x) : r[i] \in A
    BY <1>1, ElementOfSeq
  <2>2. /\ SubSeq(r, 1, Len(x)) \in Seq(A) /\ Len(SubSeq(r, 1, Len(x))) = IF 1 <= Len(x) THEN Len(x) - 1 + 1 ELSE 0
        /\ \A i \in 1..(Len(x) - 1 + 1) : SubSeq(r, 1, Len(x))[i] = r[1 + i - 1]
    <3>1. 1 \in Int /\ Len(x) \in Int
      BY <1>1
    <3> QED
      BY <2>1, <3>1, SubSeqProperties
  <2>3. Len(SubSeq(r, 1, Len(x))) = Len(x)
    BY <1>1, <2>2
  <2>4. \A i \in 1..Len(x) : SubSeq(r, 1, Len(x))[i] = x[i]
    <3> TAKE i \in 1..Len(x)
    <3>1. i \in 1..(Len(x) - 1 + 1) /\ 1 + i - 1 = i
      BY <1>1
    <3> QED
      BY <1>1, <2>2, <3>1
  <2> QED
    BY <2>2, <2>3, <2>4, SeqEqual
<1>3. SubSeq(r, Len(x) + Len(y) + 1, Len(r)) = z
  <2> DEFINE m == Len(x) + Len(y) + 1
  <2>1. \A i \in m..Len(r) : r[i] \in A
    <3>1. \A i \in m..Len(r) : i \in 1..Len(r)
      BY <1>1
    <3> QED
      BY <3>1, ElementOfSeq
  <2>2. m \in Int /\ Len(r) \in Int
    BY <1>1
  <2>3. /\ SubSeq(r, m, Len(r)) \in Seq(A) /\ Len(SubSeq(r, m, Len(r))) = IF m <= Len(r) THEN Len(r) - m + 1 ELSE 0
        /\ \A i \in 1..(Len(r) - m + 1) : SubSeq(r, m, Len(r))[i] = r[m + i - 1]
    <3> HIDE DEF m
    <3> QED
      BY <2>1, <2>2, SubSeqProperties
  <2>4. Len(SubSeq(r, m, Len(r))) = Len(z)
    BY <1>1, <2>3
  <2>5. \A i \in 1..Len(z) : SubSeq(r, m, Len(r))[i] = z[i]
    <3> TAKE i \in 1..Len(z)
    <3>1. /\ i \in 1..(Len(r) - m + 1) /\ m + i - 1 \in (Len(x) + Len(y) + 1)..Len(r)
          /\ (m + i - 1) - (Len(x) + Len(y)) = i
      BY <1>1
    <3> HIDE DEF m
    <3> QED
      BY <1>1, <2>3, <3>1
  <2> HIDE DEF m
  <2>6. SubSeq(r, m, Len(r)) = z
    BY <2>3, <2>4, <2>5, SeqEqual
  <2> QED
    BY <2>6 DEF m
<1>4. (Len(x) + 1) - 1 = Len(x)
  BY <1>1
<1>5. Replaced(r, Len(x) + 1, Len(x) + Len(y) + 1, new)
        = (SubSeq(r, 1, Len(x)) \o new) \o SubSeq(r, Len(x) + Len(y) + 1, Len(r))
  BY <1>4 DEF Replaced
<1> QED
  BY <1>1, <1>2, <1>3, <1>5, Zenon DEF Row

Exchanges(P, M, N, Q, T) ==
  Replaced(Coded(Row(P, M, Q)) \o T, 1 + Len(Coded(P)), 1 + Len(Coded(P)) + Len(Coded(M)), Coded(N))
    = Coded(Row(P, N, Q)) \o T

TailCoded(P, M, Q, T) == Coded(Row(P, M, Q)) \o T = Row(Coded(P), Coded(M), Coded(Q) \o T)

(* The bytes of three parts in front of a terminator. *)
LEMMA CodedTail ==
  ASSUME NEW P \in Seq(Runs), NEW M \in Seq(Runs), NEW Q \in Seq(Runs), NEW T \in Seq(Bytes)
  PROVE  /\ TailCoded(P, M, Q, T)
         /\ Coded(P) \in Seq(Bytes) /\ Coded(M) \in Seq(Bytes) /\ Coded(Q) \o T \in Seq(Bytes)
<1>1. PICK p \in Seq(Bytes) : p = Coded(P)
  BY CodedProperties
<1>2. PICK m \in Seq(Bytes) : m = Coded(M)
  BY CodedProperties
<1>3. PICK q \in Seq(Bytes) : q = Coded(Q)
  BY CodedProperties
<1>4. RowTakes(p, m, q, T)
  BY RowTail
<1>5. Coded(Row(P, M, Q)) = Row(p, m, q)
  BY <1>1, <1>2, <1>3, CodedRow
<1>6. Coded(Row(P, M, Q)) \o T = Row(p, m, q \o T)
  BY <1>4, <1>5, Zenon DEF RowTakes
<1>7. q \o T \in Seq(Bytes)
  BY ConcatProperties
<1>8. TailCoded(P, M, Q, T)
  BY <1>1, <1>2, <1>3, <1>6, Zenon DEF TailCoded
<1> QED
  BY <1>1, <1>2, <1>3, <1>7, <1>8

(* Replaced exchanges the bytes of a part for those of another part. *)
LEMMA CodedExchange ==
  ASSUME NEW P \in Seq(Runs), NEW M \in Seq(Runs), NEW N \in Seq(Runs), NEW Q \in Seq(Runs),
         NEW T \in Seq(Bytes)
  PROVE  Exchanges(P, M, N, Q, T)
<1>1. PICK p \in Seq(Bytes) : p = Coded(P)
  BY CodedProperties
<1>2. PICK m \in Seq(Bytes) : m = Coded(M)
  BY CodedProperties
<1>3. PICK z \in Seq(Bytes) : z = Coded(Q) \o T
  BY CodedTail
<1>4. Coded(Row(P, M, Q)) \o T = Row(p, m, z)
  <2>1. TailCoded(P, M, Q, T)
    BY CodedTail
  <2> QED
    BY <1>1, <1>2, <1>3, <2>1, Zenon DEF TailCoded
<1>5. Coded(Row(P, N, Q)) \o T = Row(p, Coded(N), z)
  <2>1. TailCoded(P, N, Q, T)
    BY CodedTail
  <2> QED
    BY <1>1, <1>3, <2>1, Zenon DEF TailCoded
<1>6. Replaced(Row(p, m, z), Len(p) + 1, Len(p) + Len(m) + 1, Coded(N)) = Row(p, Coded(N), z)
  BY ReplacedMiddle
<1>7. Len(p) + 1 = 1 + Len(p) /\ Len(p) + Len(m) + 1 = 1 + Len(p) + Len(m)
  BY LenProperties
<1> QED
  BY <1>1, <1>2, <1>4, <1>5, <1>6, <1>7, Zenon DEF Exchanges

Changed(S, i, newval) == IF newval = 1 THEN S \cup {i} ELSE S \ {i}

(* Runs of 0s that other runs follow begin below m. *)
ZerosBelow(R, v, m) == \A n \in 1..(Len(R) - 1) : R[n].bit = 0 => Val(R, v, n) < m

(* Runs that alternate and end below a maximum have their inner 0s below   *)
(* it.                                                                     *)
LEMMA ZerosFollowed ==
  ASSUME NEW R \in Seq(Runs), NEW v \in Nat, NEW m \in Nat, Alternates(R),
         \A b \in Ones(R, v) : b <= m
  PROVE  ZerosBelow(R, v, m)
<1> SUFFICES ASSUME NEW n \in 1..(Len(R) - 1), R[n].bit = 0
             PROVE  Val(R, v, n) < m
  BY DEF ZerosBelow
<1>1. Len(R) \in Nat /\ \A k \in 1..Len(R) : R[k] \in Runs
  BY LenProperties, ElementOfSeq
<1>2. PICK k \in 1..Len(R) : k = n + 1 /\ k \in 2..Len(R) /\ k - 1 = n /\ n \in 1..Len(R)
  BY <1>1
<1>3. R[k].bit # R[k - 1].bit
  BY <1>2 DEF Alternates
<1>4. R[k].bit = 1 /\ R[k].run \in Nat \ {0} /\ R[n].run \in Nat \ {0} /\ R[k] \in Runs
  <2>1. R[k].bit \in 0..1 /\ R[k].run \in Nat \ {0} /\ R[n].run \in Nat \ {0} /\ R[k] \in Runs
    BY <1>1, <1>2, RunsType
  <2> QED
    BY <1>2, <1>3, <2>1
<1>5. PICK P, Q \in Seq(Runs) : PartsAt(R, v, k, P, Q)
  BY AtRun
<1>6. PICK w \in Nat : w = Val(R, v, k)
  <2>1. k \in 1..(Len(R) + 1)
    BY <1>1
  <2> QED
    BY <2>1, Places1
<1>7. Ones(<<R[k]>>, w) = w..(w + R[k].run - 1)
  BY <1>4, OnesProperties
<1>8. w \in Ones(R, v)
  <2>1. w \in w..(w + R[k].run - 1)
    BY <1>4
  <2>2. Ones(R, v) = Ones(P, v) \cup Ones(<<R[k]>>, w) \cup Ones(Q, w + R[k].run)
    BY <1>5, <1>6, Zenon DEF PartsAt
  <2> QED
    BY <1>7, <2>1, <2>2
<1>9. w = Val(R, v, n) + R[n].run /\ Val(R, v, n) \in Nat
  <2>1. n \in 1..(Len(R) + 1)
    BY <1>1
  <2> QED
    BY <1>2, <1>6, <2>1, Places1
<1>10. w <= m
  BY <1>8
<1> QED
  BY <1>4, <1>9, <1>10

(* What set(index, newval) is to make of the runs; the bit lands over      *)
(* positions beyond index.                                                 *)
Becomes(R, v, index, newval, over, R2) ==
  /\ Canon(R2)
  /\ Ones(R2, v) = Changed(Ones(R, v), index + over, newval)
  /\ v + Span(R2) <= v + Span(R) \/ v + Span(R2) <= 2 * index
  /\ \A m \in Nat : index <= m /\ (\A b \in Ones(R, v) : b <= m) => ZerosBelow(R2, v, m)
Rewrites(R, v, index, newval, over, data) ==
  \E R2 \in Seq(Runs), T \in Terminators :
    data = Coded(R2) \o T /\ Becomes(R, v, index, newval, over, R2)

(* A terminator is a byte or nothing. *)
LEMMA TerminatorBytes == \A T \in Terminators : T \in Seq(Bytes)
<1>1. <<>> \in Seq(Bytes) /\ <<0>> \in Seq(Bytes)
  BY EmptySeq DEF Bytes
<1> QED
  BY <1>1 DEF Terminators

(* An exchange in the middle that changes one bit. *)
LEMMA Interior ==
  ASSUME NEW P \in Seq(Runs), NEW M \in Seq(Runs), NEW N \in Seq(Runs), NEW Q \in Seq(Runs),
         NEW T \in Terminators, NEW v \in Nat, NEW index \in Nat, NEW newval \in 0..1,
         Canon(Row(P, M, Q)), SameEnds(M, N, Q), Span(N) = Span(M),
         v + Span(P) <= index, index < v + Span(P) + Span(M),
         Ones(N, v + Span(P)) = Changed(Ones(M, v + Span(P)), index, newval)
  PROVE  Rewrites(Row(P, M, Q), v, index, newval, 0,
                  Replaced(Coded(Row(P, M, Q)) \o T, 1 + Len(Coded(P)),
                           1 + Len(Coded(P)) + Len(Coded(M)), Coded(N)))
<1>1. PICK R \in Seq(Runs) : R = Row(P, M, Q)
  BY OnesRow
<1>2. PICK R2 \in Seq(Runs) : R2 = Row(P, N, Q)
  BY OnesRow
<1>3. Span(P) \in Nat /\ Span(M) \in Nat /\ Span(N) \in Nat /\ Span(Q) \in Nat
  BY SpanProperties
<1>4. PICK w \in Nat : w = v + Span(P)
  BY <1>3
<1>5. PICK u \in Nat : u = w + Span(M)
  BY <1>3
<1>6. Span(R) = Span(R2)
  BY <1>1, <1>2, <1>3, OnesRow
<1>7. /\ Ones(R, v) = Ones(P, v) \cup Ones(M, w) \cup Ones(Q, u)
      /\ Ones(R2, v) = Ones(P, v) \cup Ones(N, w) \cup Ones(Q, u)
  <2>1. Ones(Row(P, M, Q), v) = Ones(P, v) \cup Ones(M, v + Span(P)) \cup Ones(Q, v + Span(P) + Span(M))
    BY OnesRow
  <2>2. Ones(Row(P, N, Q), v) = Ones(P, v) \cup Ones(N, v + Span(P)) \cup Ones(Q, v + Span(P) + Span(N))
    BY OnesRow
  <2> QED
    BY <1>1, <1>2, <1>4, <1>5, <2>1, <2>2
<1>8. index \notin Ones(P, v) /\ index \notin Ones(Q, u)
  <2>1. Ones(P, v) \subseteq v..(v + Span(P) - 1) /\ Ones(Q, u) \subseteq u..(u + Span(Q) - 1)
    BY OnesProperties
  <2>2. index \notin v..(v + Span(P) - 1) /\ index \notin u..(u + Span(Q) - 1)
    BY <1>3, <1>4, <1>5
  <2> QED
    BY <2>1, <2>2
<1>9. Ones(R2, v) = Changed(Ones(R, v), index, newval)
  <2>1. Ones(N, w) = Changed(Ones(M, w), index, newval)
    BY <1>4
  <2> QED
    BY <1>7, <1>8, <2>1 DEF Changed
<1>10. Canon(R2)
  BY <1>2, CanonExchange
<1>11. ASSUME NEW m \in Nat, index <= m, \A b \in Ones(R, v) : b <= m
       PROVE  ZerosBelow(R2, v, m)
  <2>1. \A b \in Ones(R2, v) : b <= m
    BY <1>9, <1>11 DEF Changed
  <2>2. Alternates(R2)
    BY <1>10 DEF Canon
  <2> QED
    BY <2>1, <2>2, ZerosFollowed
<1>12. Becomes(R, v, index, newval, 0, R2)
  <2>1. index + 0 = index /\ Span(R) \in Nat /\ Span(R2) \in Nat
    BY SpanProperties
  <2> QED
    BY <1>6, <1>9, <1>10, <1>11, <2>1 DEF Becomes
<1>13. Replaced(Coded(R) \o T, 1 + Len(Coded(P)), 1 + Len(Coded(P)) + Len(Coded(M)), Coded(N))
         = Coded(R2) \o T
  <2>1. PICK t \in Seq(Bytes) : t = T
    BY TerminatorBytes
  <2>2. Exchanges(P, M, N, Q, t)
    BY CodedExchange
  <2> QED
    BY <1>1, <1>2, <2>1, <2>2, Zenon DEF Exchanges
<1>14. Rewrites(R, v, index, newval, 0,
                Replaced(Coded(R) \o T, 1 + Len(Coded(P)), 1 + Len(Coded(P)) + Len(Coded(M)), Coded(N)))
  BY <1>12, <1>13, Zenon DEF Rewrites
<1> QED
  BY <1>1, <1>14, Zenon

-----------------------------------------------------------------------------
(* One, two and three runs in a row. *)
LEMMA TuplesInRow ==
  ASSUME NEW S, NEW x \in S, NEW y \in S, NEW z \in S
  PROVE  <<x>> \o <<y>> = <<x, y>> /\ <<x, y>> \o <<z>> = <<x, y, z>>
<1>1. /\ <<x>> \in Seq(S) /\ Len(<<x>>) = 1 /\ <<x>>[1] = x
      /\ <<y>> \in Seq(S) /\ Len(<<y>>) = 1 /\ <<y>>[1] = y
      /\ <<z>> \in Seq(S) /\ Len(<<z>>) = 1 /\ <<z>>[1] = z
      /\ <<x, y>> \in Seq(S) /\ Len(<<x, y>>) = 2 /\ <<x, y>>[1] = x /\ <<x, y>>[2] = y
      /\ <<x, y, z>> \in Seq(S) /\ Len(<<x, y, z>>) = 3
      /\ <<x, y, z>>[1] = x /\ <<x, y, z>>[2] = y /\ <<x, y, z>>[3] = z
  OBVIOUS
<1>2. PICK a \in Seq(S) : a = <<x>>
  BY <1>1
<1>3. PICK b \in Seq(S) : b = <<y>>
  BY <1>1
<1>4. PICK c \in Seq(S) : c = <<z>>
  BY <1>1
<1>5. PICK d \in Seq(S) : d = <<x, y>>
  BY <1>1
<1>6. PICK e \in Seq(S) : e = <<x, y, z>>
  BY <1>1
<1>7. a \o b = d
  <2>1. /\ a \o b \in Seq(S) /\ Len(a \o b) = Len(a) + Len(b)
        /\ \A i \in 1..(Len(a) + Len(b)) : (a \o b)[i] = IF i <= Len(a) THEN a[i] ELSE b[i - Len(a)]
    BY ConcatProperties
  <2>2. PICK ab \in Seq(S) : ab = a \o b
    BY <2>1
  <2>3. Len(ab) = 2 /\ Len(d) = 2 /\ ab[1] = x /\ ab[2] = y /\ d[1] = x /\ d[2] = y
    BY <1>1, <1>2, <1>3, <1>5, <2>1, <2>2
  <2>4. \A i \in 1..Len(ab) : ab[i] = d[i]
    BY <2>3
  <2> QED
    BY <2>2, <2>3, <2>4, SeqEqual
<1>8. d \o c = e
  <2>1. /\ d \o c \in Seq(S) /\ Len(d \o c) = Len(d) + Len(c)
        /\ \A i \in 1..(Len(d) + Len(c)) : (d \o c)[i] = IF i <= Len(d) THEN d[i] ELSE c[i - Len(d)]
    BY ConcatProperties
  <2>2. PICK dc \in Seq(S) : dc = d \o c
    BY <2>1
  <2>3. Len(dc) = 3 /\ Len(e) = 3 /\ dc[1] = x /\ dc[2] = y /\ dc[3] = z /\ e[1] = x /\ e[2] = y /\ e[3] = z
    BY <1>1, <1>4, <1>5, <1>6, <2>1, <2>2
  <2>4. \A i \in 1..Len(dc) : dc[i] = e[i]
    BY <2>3
  <2> QED
    BY <2>2, <2>3, <2>4, SeqEqual
<1> QED
  BY <1>2, <1>3, <1>4, <1>5, <1>6, <1>7, <1>8, Zenon

Ivl(x, w) == IF x.bit = 1 THEN w..(w + x.run - 1) ELSE {}
Single1(x) ==
  /\ <<x>> \in Seq(Runs) /\ <<x>> # <<>> /\ Alternates(<<x>>)
  /\ Len(<<x>>) = 1 /\ <<x>>[1] = x
  /\ Span(<<x>>) = x.run /\ \A w \in Nat : Ones(<<x>>, w) = Ivl(x, w)
  /\ Coded(<<x>>) = encode(x.bit, x.run)
  /\ Len(Coded(<<x>>)) = blocklength(x.run)
Pair(x, y) ==
  /\ <<x, y>> \in Seq(Runs) /\ <<x, y>> # <<>> /\ (x.bit # y.bit => Alternates(<<x, y>>))
  /\ Len(<<x, y>>) = 2 /\ <<x, y>>[1] = x /\ <<x, y>>[2] = y
  /\ Span(<<x, y>>) = x.run + y.run
  /\ \A w \in Nat : Ones(<<x, y>>, w) = Ivl(x, w) \cup Ivl(y, w + x.run)
  /\ Coded(<<x, y>>) = encode(x.bit, x.run) \o encode(y.bit, y.run)
  /\ Len(Coded(<<x, y>>)) = blocklength(x.run) + blocklength(y.run)
Triple(x, y, z) ==
  /\ <<x, y, z>> \in Seq(Runs) /\ <<x, y, z>> # <<>>
  /\ x.bit # y.bit /\ y.bit # z.bit => Alternates(<<x, y, z>>)
  /\ Len(<<x, y, z>>) = 3 /\ <<x, y, z>>[1] = x /\ <<x, y, z>>[2] = y /\ <<x, y, z>>[3] = z
  /\ Span(<<x, y, z>>) = x.run + y.run + z.run
  /\ \A w \in Nat : Ones(<<x, y, z>>, w)
                      = Ivl(x, w) \cup Ivl(y, w + x.run) \cup Ivl(z, w + x.run + y.run)
  /\ Coded(<<x, y, z>>) = encode(x.bit, x.run) \o encode(y.bit, y.run) \o encode(z.bit, z.run)
  /\ Len(Coded(<<x, y, z>>)) = blocklength(x.run) + blocklength(y.run) + blocklength(z.run)

(* What a list of one run is. *)
LEMMA SingleRun ==
  ASSUME NEW x \in Runs
  PROVE  Single1(x)
<1>1. <<x>> \in Seq(Runs) /\ <<x>> # <<>> /\ Len(<<x>>) = 1 /\ <<x>>[1] = x
  OBVIOUS
<1>2. Alternates(<<x>>)
  BY <1>1 DEF Alternates
<1>3. \A w \in Nat : Ones(<<x>>, w) = Ivl(x, w)
  BY OnesProperties DEF Ivl
<1> QED
  BY <1>1, <1>2, <1>3, SpanProperties, CodedProperties, Zenon DEF Single1

(* What a list of two runs is. *)
LEMMA PairOfRuns ==
  ASSUME NEW x \in Runs, NEW y \in Runs
  PROVE  Pair(x, y)
<1>1. /\ <<x, y>> \in Seq(Runs) /\ <<x, y>> # <<>> /\ Len(<<x, y>>) = 2
      /\ <<x, y>>[1] = x /\ <<x, y>>[2] = y
  OBVIOUS
<1>2. x.bit # y.bit => Alternates(<<x, y>>)
  <2>1. \A n \in 2..2 : n = 2 /\ n - 1 = 1
    OBVIOUS
  <2> QED
    BY <1>1, <2>1 DEF Alternates
<1>3. <<x>> \in Seq(Runs) /\ <<y>> \in Seq(Runs) /\ <<x, y>> = <<x>> \o <<y>>
  <2>1. <<x>> \in Seq(Runs) /\ <<y>> \in Seq(Runs)
    OBVIOUS
  <2> QED
    BY <2>1, TuplesInRow, Zenon
<1>4. PICK s \in Seq(Runs) : s = <<x>>
  BY <1>3
<1>5. PICK t \in Seq(Runs) : t = <<y>>
  BY <1>3
<1>6. PICK st \in Seq(Runs) : st = <<x, y>> /\ st = s \o t
  BY <1>1, <1>3, <1>4, <1>5, Zenon
<1>7. Span(s) = x.run /\ Span(t) = y.run /\ Span(st) = Span(s) + Span(t)
  BY <1>4, <1>5, <1>6, SpanProperties
<1>8. /\ Coded(s) = encode(x.bit, x.run) /\ Coded(t) = encode(y.bit, y.run)
      /\ Coded(st) = Coded(s) \o Coded(t) /\ Len(Coded(st)) = Len(Coded(s)) + Len(Coded(t))
      /\ Len(Coded(s)) = blocklength(x.run) /\ Len(Coded(t)) = blocklength(y.run)
  BY <1>4, <1>5, <1>6, CodedProperties
<1>9. ASSUME NEW w \in Nat
      PROVE  Ones(st, w) = Ivl(x, w) \cup Ivl(y, w + x.run)
  <2>1. PICK u \in Nat : u = w + x.run
    BY RunsType
  <2>2. OnesAdd(s, t, w)
    BY OnesProperties
  <2>3. Ones(st, w) = Ones(s, w) \cup Ones(t, u)
    BY <1>6, <1>7, <2>1, <2>2, Zenon DEF OnesAdd
  <2>4. Ones(s, w) = Ivl(x, w) /\ Ones(t, u) = Ivl(y, u)
    BY <1>4, <1>5, OnesProperties DEF Ivl
  <2> QED
    BY <2>1, <2>3, <2>4
<1> QED
  BY <1>1, <1>2, <1>6, <1>7, <1>8, <1>9, Zenon DEF Pair

(* What a list of three runs is. *)
LEMMA TripleOfRuns ==
  ASSUME NEW x \in Runs, NEW y \in Runs, NEW z \in Runs
  PROVE  Triple(x, y, z)
<1>1. /\ <<x, y, z>> \in Seq(Runs) /\ <<x, y, z>> # <<>> /\ Len(<<x, y, z>>) = 3
      /\ <<x, y, z>>[1] = x /\ <<x, y, z>>[2] = y /\ <<x, y, z>>[3] = z
  OBVIOUS
<1>2. x.bit # y.bit /\ y.bit # z.bit => Alternates(<<x, y, z>>)
  <2>1. \A n \in 2..3 : (n = 2 /\ n - 1 = 1) \/ (n = 3 /\ n - 1 = 2)
    OBVIOUS
  <2> QED
    BY <1>1, <2>1 DEF Alternates
<1>3. <<x, y>> \in Seq(Runs) /\ <<z>> \in Seq(Runs) /\ <<x, y, z>> = <<x, y>> \o <<z>>
  <2>1. <<x, y>> \in Seq(Runs) /\ <<z>> \in Seq(Runs)
    OBVIOUS
  <2> QED
    BY <2>1, TuplesInRow, Zenon
<1>4. PICK s \in Seq(Runs) : s = <<x, y>>
  BY <1>3
<1>5. PICK t \in Seq(Runs) : t = <<z>>
  BY <1>3
<1>6. PICK st \in Seq(Runs) : st = <<x, y, z>> /\ st = s \o t
  BY <1>1, <1>3, <1>4, <1>5, Zenon
<1>p. Pair(x, y)
  BY PairOfRuns
<1>7. Span(s) = x.run + y.run /\ Span(t) = z.run /\ Span(st) = Span(s) + Span(t)
  <2>1. Span(s) = x.run + y.run
    BY <1>p, <1>4, Zenon DEF Pair
  <2> QED
    BY <1>5, <1>6, <2>1, SpanProperties
<1>8. /\ Coded(s) = encode(x.bit, x.run) \o encode(y.bit, y.run) /\ Coded(t) = encode(z.bit, z.run)
      /\ Coded(st) = Coded(s) \o Coded(t) /\ Len(Coded(st)) = Len(Coded(s)) + Len(Coded(t))
      /\ Len(Coded(s)) = blocklength(x.run) + blocklength(y.run) /\ Len(Coded(t)) = blocklength(z.run)
  <2>1. Coded(s) = encode(x.bit, x.run) \o encode(y.bit, y.run) /\ Len(Coded(s)) = blocklength(x.run) + blocklength(y.run)
    BY <1>p, <1>4, Zenon DEF Pair
  <2>2. Coded(t) = encode(z.bit, z.run) /\ Len(Coded(t)) = blocklength(z.run)
    BY <1>5, CodedProperties
  <2>3. Coded(st) = Coded(s) \o Coded(t) /\ Len(Coded(st)) = Len(Coded(s)) + Len(Coded(t))
    BY <1>6, CodedProperties
  <2> QED
    BY <2>1, <2>2, <2>3
<1>9. ASSUME NEW w \in Nat
      PROVE  Ones(st, w) = Ivl(x, w) \cup Ivl(y, w + x.run) \cup Ivl(z, w + x.run + y.run)
  <2>1. PICK u \in Nat : u = w + x.run + y.run /\ u = w + (x.run + y.run)
    BY RunsType
  <2>2. OnesAdd(s, t, w)
    BY OnesProperties
  <2>3. Ones(st, w) = Ones(s, w) \cup Ones(t, u)
    BY <1>6, <1>7, <2>1, <2>2, Zenon DEF OnesAdd
  <2>4. Ones(s, w) = Ivl(x, w) \cup Ivl(y, w + x.run) /\ Ones(t, u) = Ivl(z, u)
    <3>1. Ones(t, u) = Ivl(z, u)
      BY <1>5, OnesProperties DEF Ivl
    <3>2. Ones(s, w) = Ivl(x, w) \cup Ivl(y, w + x.run)
      BY <1>p, <1>4, Zenon DEF Pair
    <3> QED
      BY <3>1, <3>2
  <2> QED
    BY <2>1, <2>3, <2>4
<1>10. Coded(st) = (encode(x.bit, x.run) \o encode(y.bit, y.run)) \o encode(z.bit, z.run)
  BY <1>8, Zenon
<1>11. Span(st) = x.run + y.run + z.run
  BY <1>7, Zenon
<1>12. Len(Coded(st)) = blocklength(x.run) + blocklength(y.run) + blocklength(z.run)
  BY <1>8, Zenon
<1> QED
  BY <1>1, <1>2, <1>6, <1>9, <1>10, <1>11, <1>12, Zenon DEF Triple

-----------------------------------------------------------------------------
(* Two and three runs of a sequence. *)
Around(R, v, a, P, M, Q) ==
  /\ P \in Seq(Runs) /\ M \in Seq(Runs) /\ Q \in Seq(Runs)
  /\ R = Row(P, M, Q)
  /\ Val(R, v, a) = v + Span(P) /\ At(R, a) = 1 + Len(Coded(P))
  /\ Len(P) = a - 1 /\ Len(P) + Len(M) + Len(Q) = Len(R) /\ (Len(Q) = 0 => Q = <<>>)

(* A list of runs around a part of it. *)
LEMMA AroundPart ==
  ASSUME NEW R \in Seq(Runs), NEW v \in Nat, NEW a \in 1..Len(R), NEW b \in a..Len(R)
  PROVE  Around(R, v, a, SubSeq(R, 1, a - 1), SubSeq(R, a, b), SubSeq(R, b + 1, Len(R)))
<1>1. Len(R) \in Nat /\ \A i \in 1..Len(R) : R[i] \in Runs
  BY LenProperties, ElementOfSeq
<1>2. PICK P \in Seq(Runs) : P = SubSeq(R, 1, a - 1) /\ Len(P) = a - 1
  <2>1. SubSeq(R, 1, a - 1) \in Seq(Runs) /\ Len(SubSeq(R, 1, a - 1)) = a - 1
    BY Parting
  <2> QED
    BY <2>1
<1>3. PICK M \in Seq(Runs) : M = SubSeq(R, a, b) /\ Len(M) = b - a + 1
  <2>1. \A i \in a..b : R[i] \in Runs
    BY <1>1
  <2>2. a \in Int /\ b \in Int /\ a <= b
    BY <1>1
  <2> QED
    BY <2>1, <2>2, SubSeqProperties
<1>4. PICK Q \in Seq(Runs) : Q = SubSeq(R, b + 1, Len(R)) /\ Len(Q) = Len(R) - b
  <2>1. b \in 1..Len(R)
    BY <1>1
  <2>2. SubSeq(R, b + 1, Len(R)) \in Seq(Runs) /\ Len(SubSeq(R, b + 1, Len(R))) = Len(R) - b
    BY <2>1, Parting
  <2> QED
    BY <2>2
<1>5. R = Row(P, M, Q)
  <2>1. P \o M = SubSeq(R, 1, b)
    <3>1. 1 \in 1..(Len(R) + 1) /\ a - 1 \in (1 - 1)..Len(R) /\ b \in (a - 1)..Len(R) /\ (a - 1) + 1 = a
      BY <1>1
    <3>2. SubSeq(R, 1, a - 1) \o SubSeq(R, (a - 1) + 1, b) = SubSeq(R, 1, b)
      BY <3>1, ConcatAdjacentSubSeq
    <3> QED
      BY <1>2, <1>3, <3>1, <3>2
  <2>2. SubSeq(R, 1, b) \o Q = R
    <3>1. 1 \in 1..(Len(R) + 1) /\ b \in (1 - 1)..Len(R) /\ Len(R) \in b..Len(R)
      BY <1>1
    <3>2. SubSeq(R, 1, b) \o SubSeq(R, b + 1, Len(R)) = SubSeq(R, 1, Len(R))
      BY <3>1, ConcatAdjacentSubSeq
    <3> QED
      BY <1>4, <3>2, SubSeqFull
  <2> QED
    BY <2>1, <2>2, Zenon DEF Row
<1>6. Val(R, v, a) = v + Span(P) /\ At(R, a) = 1 + Len(Coded(P))
  BY <1>2 DEF Val, At
<1>7. Len(P) + Len(M) + Len(Q) = Len(R) /\ (Len(Q) = 0 => Q = <<>>)
  <2>1. Len(Q) = 0 => Q = <<>>
    BY EmptySeq
  <2>2. (a - 1) + (b - a + 1) + (Len(R) - b) = Len(R)
    BY <1>1
  <2> QED
    BY <1>2, <1>3, <1>4, <2>1, <2>2
<1> QED
  BY <1>2, <1>3, <1>4, <1>5, <1>6, <1>7, Zenon DEF Around

(* A list of runs around one of them. *)
LEMMA AroundOne ==
  ASSUME NEW R \in Seq(Runs), NEW v \in Nat, NEW a \in 1..Len(R)
  PROVE  \E P, Q \in Seq(Runs) : Around(R, v, a, P, <<R[a]>>, Q)
<1>1. Len(R) \in Nat
  BY LenProperties
<1>2. a \in a..Len(R)
  BY <1>1
<1>3. Around(R, v, a, SubSeq(R, 1, a - 1), SubSeq(R, a, a), SubSeq(R, a + 1, Len(R)))
  BY <1>2, AroundPart
<1>4. SubSeq(R, a, a) = <<R[a]>>
  <2>1. SubSeq(R, a, a) = <<R[a]>> \o SubSeq(R, a + 1, a)
    BY <1>2, SubSeqRecursiveFirst
  <2>2. SubSeq(R, a + 1, a) = <<>>
    BY SubSeqEmpty
  <2>3. <<R[a]>> \in Seq(Runs)
    BY ElementOfSeq
  <2>4. <<R[a]>> \o <<>> = <<R[a]>>
    BY <2>3, ConcatEmptySeq
  <2> QED
    BY <2>1, <2>2, <2>4, Zenon
<1> QED
  BY <1>3, <1>4, Zenon DEF Around

(* A list of runs around two neighbours. *)
LEMMA AroundTwo ==
  ASSUME NEW R \in Seq(Runs), NEW v \in Nat, NEW a \in 1..(Len(R) - 1)
  PROVE  \E P, Q \in Seq(Runs) : Around(R, v, a, P, <<R[a], R[a + 1]>>, Q)
<1>1. Len(R) \in Nat
  BY LenProperties
<1>2. a \in 1..Len(R) /\ a + 1 \in a..Len(R) /\ a + 1 \in 1..Len(R) /\ (a + 1) - 1 = a /\ a \in a..Len(R)
  BY <1>1
<1>3. Around(R, v, a, SubSeq(R, 1, a - 1), SubSeq(R, a, a + 1), SubSeq(R, (a + 1) + 1, Len(R)))
  BY <1>2, AroundPart
<1>4. SubSeq(R, a, a + 1) = <<R[a], R[a + 1]>>
  <2>1. SubSeq(R, a, a + 1) = SubSeq(R, a, (a + 1) - 1) \o <<R[a + 1]>>
    BY <1>2, SubSeqRecursiveSecond
  <2>2. SubSeq(R, a, a) = <<R[a]>>
    <3>1. SubSeq(R, a, a) = <<R[a]>> \o SubSeq(R, a + 1, a)
      BY <1>2, SubSeqRecursiveFirst
    <3>2. SubSeq(R, a + 1, a) = <<>>
      BY SubSeqEmpty
    <3>3. <<R[a]>> \in Seq(Runs)
      BY <1>2, ElementOfSeq
    <3>4. <<R[a]>> \o <<>> = <<R[a]>>
      BY <3>3, ConcatEmptySeq
    <3> QED
      BY <3>1, <3>2, <3>4, Zenon
  <2>t. R[a] \in Runs /\ R[a + 1] \in Runs
    BY <1>2, ElementOfSeq
  <2>3. <<R[a]>> \o <<R[a + 1]>> = <<R[a], R[a + 1]>>
    BY <2>t, TuplesInRow, Zenon
  <2> QED
    BY <1>2, <2>1, <2>2, <2>3, Zenon
<1> QED
  BY <1>3, <1>4, Zenon DEF Around

(* A list of runs around three neighbours. *)
LEMMA AroundThree ==
  ASSUME NEW R \in Seq(Runs), NEW v \in Nat, NEW a \in 1..(Len(R) - 2)
  PROVE  \E P, Q \in Seq(Runs) : Around(R, v, a, P, <<R[a], R[a + 1], R[a + 2]>>, Q)
<1>1. Len(R) \in Nat
  BY LenProperties
<1>2. /\ a \in 1..Len(R) /\ a + 1 \in a..Len(R) /\ a + 1 \in 1..Len(R) /\ (a + 1) - 1 = a /\ a \in a..Len(R)
      /\ a + 2 \in a..Len(R) /\ (a + 2) - 1 = a + 1 /\ a + 2 \in 1..Len(R)
  BY <1>1
<1>3. Around(R, v, a, SubSeq(R, 1, a - 1), SubSeq(R, a, a + 2), SubSeq(R, (a + 2) + 1, Len(R)))
  BY <1>2, AroundPart
<1>4. SubSeq(R, a, a + 2) = <<R[a], R[a + 1], R[a + 2]>>
  <2>1. SubSeq(R, a, a + 2) = SubSeq(R, a, (a + 2) - 1) \o <<R[a + 2]>>
    BY <1>2, SubSeqRecursiveSecond
  <2>2. SubSeq(R, a, a + 1) = SubSeq(R, a, (a + 1) - 1) \o <<R[a + 1]>>
    BY <1>2, SubSeqRecursiveSecond
  <2>3. SubSeq(R, a, a) = <<R[a]>>
    <3>1. SubSeq(R, a, a) = <<R[a]>> \o SubSeq(R, a + 1, a)
      BY <1>2, SubSeqRecursiveFirst
    <3>2. SubSeq(R, a + 1, a) = <<>>
      BY SubSeqEmpty
    <3>3. <<R[a]>> \in Seq(Runs)
      BY <1>2, ElementOfSeq
    <3>4. <<R[a]>> \o <<>> = <<R[a]>>
      BY <3>3, ConcatEmptySeq
    <3> QED
      BY <3>1, <3>2, <3>4, Zenon
  <2>t. R[a] \in Runs /\ R[a + 1] \in Runs /\ R[a + 2] \in Runs
    BY <1>2, ElementOfSeq
  <2>4. <<R[a]>> \o <<R[a + 1]>> = <<R[a], R[a + 1]>>
    BY <2>t, TuplesInRow, Zenon
  <2>5. <<R[a], R[a + 1]>> \o <<R[a + 2]>> = <<R[a], R[a + 1], R[a + 2]>>
    BY <2>t, TuplesInRow, Zenon
  <2> QED
    BY <1>2, <2>1, <2>2, <2>3, <2>4, <2>5, Zenon
<1> QED
  BY <1>3, <1>4, Zenon DEF Around

-----------------------------------------------------------------------------
(* The arms of set between runs.                                           *)

(* The blocks found, field by field. *)
LEMMA Fields ==
  ASSUME NEW R \in Seq(Runs), NEW v \in Nat, NEW B, B = BlocksFor(R, v)
  PROVE  /\ Len(B) = Len(R) + 1 /\ B[Len(B)] = B[Len(R) + 1] /\ Last(B) = B[Len(R) + 1]
         /\ Len(R) \in Nat
         /\ \A n \in 1..Len(R) :
              /\ R[n] \in Runs /\ R[n].run \in Nat \ {0} /\ R[n].bit \in 0..1
              /\ B[n].at = At(R, n) /\ B[n].value = Val(R, v, n)
              /\ B[n].length = blocklength(R[n].run) /\ B[n].bit = R[n].bit /\ B[n].run = R[n].run
              /\ blockend(B[n]) = At(R, n) + blocklength(R[n].run)
         /\ B[Len(R) + 1].at = At(R, Len(R) + 1) /\ B[Len(R) + 1].value = Val(R, v, Len(R) + 1)
         /\ B[Len(R) + 1].run = 0 /\ B[Len(R) + 1].bit = 0 /\ B[Len(R) + 1].length = 1
<1>1. Len(R) \in Nat /\ \A n \in 1..Len(R) : R[n] \in Runs
  BY LenProperties, ElementOfSeq
<1>2. Len(B) = Len(R) + 1 /\ \A n \in 1..(Len(R) + 1) : B[n] = BlockFor(R, v, n)
  BY BlocksForType
<1>3. Last(B) = B[Len(R) + 1] /\ B[Len(B)] = B[Len(R) + 1]
  BY <1>2 DEF Last
<1>4. ASSUME NEW n \in 1..Len(R)
      PROVE  /\ R[n] \in Runs /\ R[n].run \in Nat \ {0} /\ R[n].bit \in 0..1
             /\ B[n].at = At(R, n) /\ B[n].value = Val(R, v, n)
             /\ B[n].length = blocklength(R[n].run) /\ B[n].bit = R[n].bit /\ B[n].run = R[n].run
             /\ blockend(B[n]) = At(R, n) + blocklength(R[n].run)
  <2>1. R[n] \in Runs /\ R[n].run \in Nat \ {0} /\ R[n].bit \in 0..1
    BY <1>1, RunsType
  <2>2. n \in 1..(Len(R) + 1) /\ n <= Len(R)
    BY <1>1
  <2>3. B[n].at = At(R, n) /\ B[n].value = Val(R, v, n)
        /\ B[n].length = blocklength(R[n].run) /\ B[n].bit = R[n].bit /\ B[n].run = R[n].run
    BY <1>2, <2>2 DEF BlockFor
  <2> QED
    BY <2>1, <2>3 DEF blockend
<1>5. Len(R) + 1 \in 1..(Len(R) + 1) /\ ~(Len(R) + 1 <= Len(R))
  BY <1>1
<1>6. /\ B[Len(R) + 1].at = At(R, Len(R) + 1) /\ B[Len(R) + 1].value = Val(R, v, Len(R) + 1)
      /\ B[Len(R) + 1].run = 0 /\ B[Len(R) + 1].bit = 0 /\ B[Len(R) + 1].length = 1
  BY <1>2, <1>5 DEF BlockFor
<1> QED
  BY <1>1, <1>2, <1>3, <1>4, <1>6

(* The situation in which set() rewrites at the n-th block. *)
Hit(R, v, index, newval, n) ==
  /\ Canon(R) /\ v < index /\ v + Span(R) <= MaxRun /\ 2 * index <= MaxRun
  /\ Val(R, v, n) <= index
  /\ n <= Len(R) => index < Val(R, v, n) + R[n].run /\ R[n].bit # newval
  /\ n = Len(R) + 1 => newval = 1

(* What the runs around the n-th are. *)
LEMMA HitFacts ==
  ASSUME NEW R \in Seq(Runs), NEW v \in Nat, NEW index \in Nat, NEW newval \in 0..1,
         NEW n \in 1..(Len(R) + 1), Hit(R, v, index, newval, n)
  PROVE  /\ Len(R) \in Nat \ {0}
         /\ Val(R, v, n) = index => n \in 2..(Len(R) + 1)
         /\ n \in 2..Len(R) => R[n - 1].bit = newval /\ Val(R, v, n) = Val(R, v, n - 1) + R[n - 1].run
         /\ n \in 1..(Len(R) - 1) => R[n + 1].bit = newval
         /\ \A k \in 1..Len(R) : R[k].run <= MaxRun /\ R[k].bit \in 0..1 /\ R[k].run \in Nat \ {0}
         /\ \A k \in 1..(Len(R) + 1) : Val(R, v, k) \in Nat /\ At(R, k) \in Nat \ {0}
         /\ \A k \in 1..Len(R) : /\ Val(R, v, k + 1) = Val(R, v, k) + R[k].run
                                 /\ At(R, k + 1) = At(R, k) + blocklength(R[k].run)
<1>1. /\ Canon(R) /\ v < index /\ Val(R, v, n) <= index
      /\ n <= Len(R) => index < Val(R, v, n) + R[n].run /\ R[n].bit # newval
  BY DEF Hit
<1>2. Len(R) \in Nat /\ \A k \in 1..Len(R) : R[k] \in Runs
  BY LenProperties, ElementOfSeq
<1>3. R # <<>> /\ \A k \in 2..Len(R) : R[k].bit # R[k - 1].bit
  BY <1>1 DEF Canon, Alternates
<1>4. Len(R) # 0
  BY <1>2, <1>3, EmptySeq
<1>5. \A k \in 1..Len(R) : R[k].run <= MaxRun /\ R[k].bit \in 0..1 /\ R[k].run \in Nat \ {0}
  <2> TAKE k \in 1..Len(R)
  <2>1. R[k].run \in 1..MaxRun /\ R[k].bit \in 0..1 /\ R[k].run \in Nat \ {0}
    BY <1>2, RunsType
  <2> QED
    BY <2>1
<1>6. /\ Val(R, v, 1) = v
      /\ \A k \in 1..(Len(R) + 1) : Val(R, v, k) \in Nat /\ At(R, k) \in Nat \ {0}
      /\ \A k \in 1..Len(R) : /\ Val(R, v, k + 1) = Val(R, v, k) + R[k].run
                              /\ At(R, k + 1) = At(R, k) + blocklength(R[k].run)
  BY Places1
<1>7. Val(R, v, n) = index => n \in 2..(Len(R) + 1)
  BY <1>1, <1>2, <1>6
<1>8. n \in 2..Len(R) => R[n - 1].bit = newval /\ Val(R, v, n) = Val(R, v, n - 1) + R[n - 1].run
  <2> SUFFICES ASSUME n \in 2..Len(R)
               PROVE  R[n - 1].bit = newval /\ Val(R, v, n) = Val(R, v, n - 1) + R[n - 1].run
    OBVIOUS
  <2>1. PICK k \in 1..Len(R) : k = n - 1 /\ k + 1 = n
    BY <1>2
  <2>2. R[n].bit # R[k].bit /\ R[n].bit # newval /\ R[n].bit \in 0..1 /\ R[k].bit \in 0..1
    BY <1>1, <1>3, <1>5, <2>1
  <2>3. Val(R, v, k + 1) = Val(R, v, k) + R[k].run
    BY <1>6
  <2> QED
    BY <2>1, <2>2, <2>3
<1>9. n \in 1..(Len(R) - 1) => R[n + 1].bit = newval
  <2> SUFFICES ASSUME n \in 1..(Len(R) - 1)
               PROVE  R[n + 1].bit = newval
    OBVIOUS
  <2>1. PICK k \in 2..Len(R) : k = n + 1 /\ k - 1 = n
    BY <1>2
  <2>2. R[k].bit # R[n].bit /\ R[n].bit # newval /\ R[n].bit \in 0..1 /\ R[k].bit \in 0..1
    BY <1>1, <1>3, <1>5, <2>1
  <2> QED
    BY <2>1, <2>2
<1> QED
  BY <1>2, <1>4, <1>5, <1>6, <1>7, <1>8, <1>9

(* One run made of others. *)
Run(b, r) == [bit |-> b, run |-> r]

(* A run that encode accepts. *)
LEMMA RunIn ==
  ASSUME NEW b \in 0..1, NEW r \in Nat, r # 0, r <= MaxRun
  PROVE  Run(b, r) \in Runs /\ Run(b, r).bit = b /\ Run(b, r).run = r
<1>1. r \in 1..MaxRun
  BY DEF MaxRun
<1> QED
  BY <1>1 DEF Run, Runs

(* A run is no longer than all of them, nor two or three neighbours. *)
LEMMA RunsFit ==
  ASSUME NEW R \in Seq(Runs), NEW v \in Nat, NEW a, NEW P, NEW M, NEW Q, Around(R, v, a, P, M, Q)
  PROVE  /\ v + Span(P) + Span(M) <= v + Span(R)
         /\ Span(P) \in Nat /\ Span(M) \in Nat /\ Span(Q) \in Nat
<1>1. P \in Seq(Runs) /\ M \in Seq(Runs) /\ Q \in Seq(Runs) /\ R = Row(P, M, Q)
  BY DEF Around
<1>2. Span(R) = Span(P) + Span(M) + Span(Q)
  BY <1>1, OnesRow
<1>3. Span(P) \in Nat /\ Span(M) \in Nat /\ Span(Q) \in Nat
  BY <1>1, SpanProperties
<1> QED
  BY <1>2, <1>3

(* Interior, with the places of the runs as the code has them. *)
Fitting(R, v, a, P, M, Q, N, index, newval) ==
  /\ Around(R, v, a, P, M, Q) /\ Canon(R) /\ N \in Seq(Runs)
  /\ SameEnds(M, N, Q) /\ Span(N) = Span(M)
  /\ Val(R, v, a) <= index /\ index < Val(R, v, a) + Span(M)
  /\ Ones(N, Val(R, v, a)) = Changed(Ones(M, Val(R, v, a)), index, newval)

(* An arm of set that exchanges a part in the middle does what set should  *)
(* do.                                                                     *)
LEMMA ArmInside ==
  ASSUME NEW R \in Seq(Runs), NEW T \in Terminators, NEW v \in Nat, NEW index \in Nat,
         NEW newval \in 0..1, NEW a, NEW P, NEW M, NEW Q, NEW N,
         Fitting(R, v, a, P, M, Q, N, index, newval)
  PROVE  Rewrites(R, v, index, newval, 0,
                  Replaced(Coded(R) \o T, At(R, a), At(R, a) + Len(Coded(M)), Coded(N)))
<1>1. /\ P \in Seq(Runs) /\ M \in Seq(Runs) /\ Q \in Seq(Runs) /\ N \in Seq(Runs)
      /\ R = Row(P, M, Q) /\ Val(R, v, a) = v + Span(P) /\ At(R, a) = 1 + Len(Coded(P))
      /\ SameEnds(M, N, Q) /\ Span(N) = Span(M) /\ Canon(R)
      /\ Val(R, v, a) <= index /\ index < Val(R, v, a) + Span(M)
      /\ Ones(N, Val(R, v, a)) = Changed(Ones(M, Val(R, v, a)), index, newval)
  BY Zenon DEF Fitting, Around
<1>2. /\ v + Span(P) <= index /\ index < v + Span(P) + Span(M)
      /\ Ones(N, v + Span(P)) = Changed(Ones(M, v + Span(P)), index, newval)
      /\ Canon(Row(P, M, Q))
  BY <1>1, Zenon
<1>3. Rewrites(Row(P, M, Q), v, index, newval, 0,
               Replaced(Coded(Row(P, M, Q)) \o T, 1 + Len(Coded(P)),
                        1 + Len(Coded(P)) + Len(Coded(M)), Coded(N)))
  BY <1>1, <1>2, Interior
<1> QED
  BY <1>1, <1>3, Zenon

(* The longest run that encode accepts. *)
LEMMA MaxRunType == MaxRun \in Nat /\ 1 <= MaxRun
BY SMT DEF MaxRun

(* The 1s of a run of r bits from w on. *)
BitsFrom(b, w, r) == IF b = 1 THEN w..(w + r - 1) ELSE {}

(* The 1s of one run. *)
LEMMA IvlBits ==
  ASSUME NEW x, NEW b, NEW r, x.bit = b, x.run = r, NEW w
  PROVE  Ivl(x, w) = BitsFrom(b, w, r)
BY DEF Ivl, BitsFrom

SplitsBits(w, index, r1, r2, r, b, newval) ==
  BitsFrom(b, w, r1) \cup BitsFrom(newval, w + r1, 1) \cup BitsFrom(b, w + r1 + 1, r2)
    = Changed(BitsFrom(b, w, r), index, newval)

(* Splitting a run changes one bit. *)
LEMMA SplitBits ==
  ASSUME NEW w \in Nat, NEW index \in Nat, NEW r1 \in Nat, NEW r2 \in Nat, NEW r \in Nat,
         NEW b \in 0..1, NEW newval \in 0..1, b # newval, r1 = index - w, r1 + 1 + r2 = r
  PROVE  SplitsBits(w, index, r1, r2, r, b, newval)
<1> USE DEF SplitsBits
<1>1. CASE b = 1
  BY <1>1 DEF BitsFrom, Changed
<1>2. CASE b = 0
  BY <1>2 DEF BitsFrom, Changed
<1>3. b = 1 \/ b = 0
  OBVIOUS
<1> QED
  BY <1>1, <1>2, <1>3, Zenon

TradesBack(w, p, r, b, newval) ==
  BitsFrom(newval, w, p + 1) \cup BitsFrom(b, w + (p + 1), r - 1)
    = Changed(BitsFrom(newval, w, p) \cup BitsFrom(b, w + p, r), w + p, newval)

(* Trading one position with the run before changes one bit. *)
LEMMA TradePrevBits ==
  ASSUME NEW w \in Nat, NEW p \in Nat, NEW r \in Nat, p # 0, r > 1,
         NEW b \in 0..1, NEW newval \in 0..1, b # newval
  PROVE  TradesBack(w, p, r, b, newval)
<1> USE DEF TradesBack
<1>1. CASE b = 1
  <2>1. ((w + p)..(w + p + r - 1)) \ {w + p} = (w + (p + 1))..(w + (p + 1) + (r - 1) - 1)
    OBVIOUS
  <2> QED
    BY <1>1, <2>1 DEF BitsFrom, Changed
<1>2. CASE b = 0
  <2>1. (w..(w + p - 1)) \cup {w + p} = w..(w + (p + 1) - 1)
    OBVIOUS
  <2>2. /\ BitsFrom(newval, w, p + 1) = w..(w + (p + 1) - 1) /\ BitsFrom(newval, w, p) = w..(w + p - 1)
        /\ BitsFrom(b, w + (p + 1), r - 1) = {} /\ BitsFrom(b, w + p, r) = {} /\ newval = 1
    BY <1>2 DEF BitsFrom
  <2> QED
    BY <2>1, <2>2, Zenon DEF Changed
<1>3. b = 1 \/ b = 0
  OBVIOUS
<1> QED
  BY <1>1, <1>2, <1>3, Zenon

TradesOn(w, p, r, b, newval) ==
  BitsFrom(b, w, r - 1) \cup BitsFrom(newval, w + (r - 1), p + 1)
    = Changed(BitsFrom(b, w, r) \cup BitsFrom(newval, w + r, p), w + r - 1, newval)

(* Trading one position with the run behind changes one bit. *)
LEMMA TradeNextBits ==
  ASSUME NEW w \in Nat, NEW p \in Nat, NEW r \in Nat, r > 1,
         NEW b \in 0..1, NEW newval \in 0..1, b # newval
  PROVE  TradesOn(w, p, r, b, newval)
<1> USE DEF TradesOn
<1>1. CASE b = 1
  <2>1. (w..(w + r - 1)) \ {w + r - 1} = w..(w + (r - 1) - 1)
    OBVIOUS
  <2> QED
    BY <1>1, <2>1 DEF BitsFrom, Changed
<1>2. CASE b = 0
  <2>1. ((w + r)..(w + r + p - 1)) \cup {w + r - 1} = (w + (r - 1))..(w + (r - 1) + (p + 1) - 1)
    OBVIOUS
  <2>2. /\ BitsFrom(newval, w + (r - 1), p + 1) = (w + (r - 1))..(w + (r - 1) + (p + 1) - 1)
        /\ BitsFrom(newval, w + r, p) = (w + r)..(w + r + p - 1)
        /\ BitsFrom(b, w, r - 1) = {} /\ BitsFrom(b, w, r) = {} /\ newval = 1
    BY <1>2 DEF BitsFrom
  <2> QED
    BY <2>1, <2>2, Zenon DEF Changed
<1>3. b = 1 \/ b = 0
  OBVIOUS
<1> QED
  BY <1>1, <1>2, <1>3, Zenon

JoinsBits(w, p, q, b, newval) ==
  BitsFrom(newval, w, p + 1 + q)
    = Changed(BitsFrom(newval, w, p) \cup BitsFrom(b, w + p, 1) \cup BitsFrom(newval, w + p + 1, q),
              w + p, newval)

(* Joining two runs around a run of one position changes one bit. *)
LEMMA JoinBits ==
  ASSUME NEW w \in Nat, NEW p \in Nat, NEW q \in Nat,
         NEW b \in 0..1, NEW newval \in 0..1, b # newval
  PROVE  JoinsBits(w, p, q, b, newval)
<1> USE DEF JoinsBits
<1>1. CASE b = 1
  <2>1. ((w + p)..(w + p + 1 - 1)) \ {w + p} = {}
    OBVIOUS
  <2> QED
    BY <1>1, <2>1 DEF BitsFrom, Changed
<1>2. CASE b = 0
  <2>1. (w..(w + p - 1)) \cup ((w + p + 1)..(w + p + 1 + q - 1)) \cup {w + p} = w..(w + (p + 1 + q) - 1)
    OBVIOUS
  <2>2. /\ BitsFrom(newval, w, p) = w..(w + p - 1) /\ BitsFrom(b, w + p, 1) = {}
        /\ BitsFrom(newval, w + p + 1, q) = (w + p + 1)..(w + p + 1 + q - 1)
        /\ BitsFrom(newval, w, p + 1 + q) = w..(w + (p + 1 + q) - 1) /\ newval = 1
    BY <1>2 DEF BitsFrom
  <2> QED
    BY <2>1, <2>2, Zenon DEF Changed
<1>3. b = 1 \/ b = 0
  OBVIOUS
<1> QED
  BY <1>1, <1>2, <1>3, Zenon

(* The block of a run has its place, its width and its length. *)
LEMMA BlockAt ==
  ASSUME NEW R \in Seq(Runs), NEW v \in Nat, NEW B, B = BlocksFor(R, v), NEW n \in 1..Len(R)
  PROVE  /\ R[n] \in Runs /\ R[n].run \in Nat \ {0} /\ R[n].bit \in 0..1
         /\ B[n].at = At(R, n) /\ B[n].value = Val(R, v, n)
         /\ B[n].length = blocklength(R[n].run) /\ B[n].bit = R[n].bit /\ B[n].run = R[n].run
         /\ blockend(B[n]) = At(R, n) + blocklength(R[n].run)
BY Fields

(* The n-th run, its numbers by themselves. *)
Shape(R, v, n, x, b, r, w) ==
  /\ x = R[n] /\ x \in Runs /\ x.bit = b /\ x.run = r /\ w = Val(R, v, n)
  /\ b \in 0..1 /\ r \in Nat /\ r # 0 /\ w \in Nat

(* What a run of a list is, and where it lies. *)
LEMMA ShapeOf ==
  ASSUME NEW R \in Seq(Runs), NEW v \in Nat, NEW n \in 1..Len(R)
  PROVE  \E x \in Runs, b \in 0..1, r \in Nat, w \in Nat : Shape(R, v, n, x, b, r, w)
<1>1. n \in 1..(Len(R) + 1)
  BY LenProperties
<1>2. Val(R, v, n) \in Nat
  BY <1>1, Places1
<1>3. R[n] \in Runs
  BY ElementOfSeq
<1>4. R[n].bit \in 0..1 /\ R[n].run \in Nat /\ R[n].run # 0
  BY <1>3, RunsType
<1>5. Shape(R, v, n, R[n], R[n].bit, R[n].run, Val(R, v, n))
  BY <1>2, <1>3, <1>4 DEF Shape
<1> QED
  BY <1>2, <1>3, <1>4, <1>5, Zenon

(* There is a run of every length that encode accepts. *)
LEMMA RunsMade ==
  ASSUME NEW b \in 0..1, NEW r \in Nat, NEW m \in Nat, r # 0, r <= m, m = MaxRun
  PROVE  \E a \in Runs : a.bit = b /\ a.run = r
BY RunIn

(* Where in the run the index is. *)
InRun(R, v, index, n) ==
  R[n].run # 1 /\ Val(R, v, n) # index /\ Val(R, v, n) + R[n].run - 1 # index
AtFirst(R, v, index, n) ==
  /\ R[n].run # 1 /\ Val(R, v, n) = index
  /\ blocklength(R[n].run - 1) = blocklength(R[n].run)

(* "split block in 3" changes the bit asked for and no other. *)
LEMMA SplitArm ==
  ASSUME NEW R \in Seq(Runs), NEW T \in Terminators, NEW v \in Nat, NEW index \in Nat,
         NEW newval \in 0..1, NEW n \in 1..Len(R), Hit(R, v, index, newval, n),
         NEW B, B = BlocksFor(R, v),
         InRun(R, v, index, n)
  PROVE  Rewrites(R, v, index, newval, 0, Split(Coded(R) \o T, B[n], index, newval))
<1>0. n \in 1..(Len(R) + 1) /\ n <= Len(R)
  BY LenProperties
<1>1. PICK x \in Runs, bit \in 0..1, r \in Nat, w \in Nat : Shape(R, v, n, x, bit, r, w)
  BY ShapeOf
<1>2. /\ x = R[n] /\ x \in Runs /\ x.bit = bit /\ x.run = r /\ w = Val(R, v, n)
      /\ bit \in 0..1 /\ r \in Nat /\ r # 0 /\ w \in Nat
  BY <1>1, Zenon DEF Shape
<1>3. PICK most \in Nat : most = MaxRun /\ 1 <= most
  BY MaxRunType
<1>4. r <= most
  BY <1>0, <1>2, <1>3, HitFacts
<1>5. bit # newval /\ Canon(R)
  BY <1>0, <1>2, Zenon DEF Hit
<1>a. r # 0 /\ w <= index /\ index < w + r /\ w # index /\ w + r - 1 # index
  BY <1>0, <1>2, Zenon DEF Hit, InRun
<1>6. PICK r1 \in Nat : r1 = index - w /\ r1 # 0 /\ r1 < r
  BY <1>a
<1>7. PICK r2 \in Nat : r2 = w + r - index - 1 /\ r2 # 0 /\ r2 < r /\ r1 + 1 + r2 = r
  <2>1. w + r - index - 1 \in Nat /\ w + r - index - 1 # 0 /\ w + r - index - 1 < r
        /\ r1 + 1 + (w + r - index - 1) = r
    BY <1>a, <1>6
  <2> QED
    BY <2>1
<1>8. PICK a \in Runs : a.bit = bit /\ a.run = r1
  <2>1. r1 <= most
    BY <1>4, <1>6
  <2> QED
    BY <1>2, <1>3, <1>6, <2>1, RunsMade
<1>9. PICK b \in Runs : b.bit = newval /\ b.run = 1
  BY <1>3, RunsMade
<1>10. PICK c \in Runs : c.bit = bit /\ c.run = r2
  <2>1. r2 <= most
    BY <1>4, <1>7
  <2> QED
    BY <1>2, <1>3, <1>7, <2>1, RunsMade, SMTT(30)
<1>11. PICK P, Q \in Seq(Runs) : Around(R, v, n, P, <<x>>, Q)
  BY <1>2, AroundOne
<1>12. Single1(x) /\ Triple(a, b, c)
  BY <1>2, SingleRun, TripleOfRuns
<1>13. /\ <<a, b, c>> \in Seq(Runs) /\ <<a, b, c>> # <<>> /\ Alternates(<<a, b, c>>)
       /\ Len(<<a, b, c>>) = 3 /\ <<a, b, c>>[1] = a /\ <<a, b, c>>[3] = c
       /\ Span(<<a, b, c>>) = r1 + 1 + r2
       /\ Ones(<<a, b, c>>, w) = Ivl(a, w) \cup Ivl(b, w + r1) \cup Ivl(c, w + r1 + 1)
       /\ Coded(<<a, b, c>>) = encode(bit, r1) \o encode(newval, 1) \o encode(bit, r2)
  BY <1>2, <1>5, <1>8, <1>9, <1>10, <1>12, Zenon DEF Triple
<1>14. /\ <<x>> # <<>> /\ Len(<<x>>) = 1 /\ <<x>>[1] = x /\ Span(<<x>>) = r
       /\ Ones(<<x>>, w) = Ivl(x, w) /\ Len(Coded(<<x>>)) = blocklength(r)
  BY <1>2, <1>12, Zenon DEF Single1
<1>15. SameEnds(<<x>>, <<a, b, c>>, Q)
  BY <1>2, <1>8, <1>10, <1>13, <1>14, Zenon DEF SameEnds
<1>16. Ivl(a, w) \cup Ivl(b, w + r1) \cup Ivl(c, w + r1 + 1) = Changed(Ivl(x, w), index, newval)
  <2>1. /\ Ivl(a, w) = BitsFrom(bit, w, r1) /\ Ivl(b, w + r1) = BitsFrom(newval, w + r1, 1)
        /\ Ivl(c, w + r1 + 1) = BitsFrom(bit, w + r1 + 1, r2) /\ Ivl(x, w) = BitsFrom(bit, w, r)
    BY <1>2, <1>8, <1>9, <1>10, Zenon DEF Ivl, BitsFrom
  <2>2. SplitsBits(w, index, r1, r2, r, bit, newval)
    BY <1>5, <1>6, <1>7, SplitBits
  <2> QED
    BY <2>1, <2>2, Zenon DEF SplitsBits
<1>17. Fitting(R, v, n, P, <<x>>, Q, <<a, b, c>>, index, newval)
  BY <1>2, <1>5, <1>a, <1>7, <1>11, <1>13, <1>14, <1>15, <1>16, Zenon DEF Fitting
<1>18. Rewrites(R, v, index, newval, 0,
                Replaced(Coded(R) \o T, At(R, n), At(R, n) + Len(Coded(<<x>>)), Coded(<<a, b, c>>)))
  BY <1>17, ArmInside
<1>19. /\ B[n].at = At(R, n) /\ B[n].value = w /\ B[n].bit = bit /\ B[n].run = r
       /\ blockend(B[n]) = At(R, n) + blocklength(r)
  <2>1. /\ B[n].at = At(R, n) /\ B[n].value = Val(R, v, n) /\ B[n].bit = R[n].bit /\ B[n].run = R[n].run
        /\ blockend(B[n]) = At(R, n) + blocklength(R[n].run)
    BY BlockAt
  <2> QED
    BY <1>2, <2>1, Zenon
<1>20. Split(Coded(R) \o T, B[n], index, newval)
         = Replaced(Coded(R) \o T, At(R, n), At(R, n) + Len(Coded(<<x>>)), Coded(<<a, b, c>>))
  BY <1>6, <1>7, <1>13, <1>14, <1>19, Zenon DEF Split
<1> QED
  BY <1>18, <1>20, Zenon

(* "shorten this block, lengthen the prev block" changes the bit asked for *)
(* and no other, if no width changes.                                      *)
LEMMA TradeWithPrevArm ==
  ASSUME NEW R \in Seq(Runs), NEW T \in Terminators, NEW v \in Nat, NEW index \in Nat,
         NEW newval \in 0..1, NEW n \in 1..Len(R), Hit(R, v, index, newval, n),
         NEW B, B = BlocksFor(R, v),
         AtFirst(R, v, index, n)
  PROVE  Rewrites(R, v, index, newval, 0, TradeWithPrev(Coded(R) \o T, B, n))
<1>0. n \in 1..(Len(R) + 1) /\ n <= Len(R) /\ Len(R) \in Nat
  BY LenProperties
<1>1. n \in 2..(Len(R) + 1)
  BY <1>0, HitFacts DEF AtFirst
<1>2. PICK m \in 1..(Len(R) - 1) : m = n - 1 /\ m + 1 = n /\ m \in 1..Len(R) /\ n \in 2..Len(R) /\ m \in 1..(Len(R) + 1)
  BY <1>0, <1>1
<1>3. PICK x \in Runs, xb \in 0..1, p \in Nat, w \in Nat : Shape(R, v, m, x, xb, p, w)
  BY <1>2, ShapeOf
<1>4. /\ x = R[m] /\ x \in Runs /\ x.bit = xb /\ x.run = p /\ w = Val(R, v, m)
      /\ xb \in 0..1 /\ p \in Nat /\ p # 0 /\ w \in Nat
  BY <1>3, Zenon DEF Shape
<1>5. PICK y \in Runs, bit \in 0..1, r \in Nat, u \in Nat : Shape(R, v, n, y, bit, r, u)
  BY ShapeOf
<1>6. /\ y = R[n] /\ y \in Runs /\ y.bit = bit /\ y.run = r /\ u = Val(R, v, n)
      /\ bit \in 0..1 /\ r \in Nat /\ r # 0 /\ u \in Nat
  BY <1>5, Zenon DEF Shape
<1>7. PICK most \in Nat : most = MaxRun /\ 1 <= most
  BY MaxRunType
<1>8. bit # newval /\ Canon(R) /\ v + Span(R) <= most
  BY <1>0, <1>6, <1>7, Zenon DEF Hit
<1>9. xb = newval /\ u = w + p /\ r <= most
  <2>1. R[n - 1].bit = newval /\ Val(R, v, n) = Val(R, v, n - 1) + R[n - 1].run /\ R[n].run <= MaxRun
    BY <1>0, <1>2, HitFacts
  <2> QED
    BY <1>2, <1>4, <1>6, <1>7, <2>1, Zenon
<1>a. p # 0 /\ r # 0
  BY <1>4, <1>6
<1>b. bit # newval
  BY <1>8
<1>10. index = w + p /\ r # 1 /\ blocklength(r - 1) = blocklength(r)
  BY <1>6, <1>9, Zenon DEF AtFirst
<1>11. PICK P, Q \in Seq(Runs) : Around(R, v, m, P, <<x, y>>, Q)
  <2>1. <<R[m], R[m + 1]>> = <<x, y>>
    BY <1>2, <1>4, <1>6
  <2> QED
    BY <2>1, AroundTwo, Zenon
<1>12. Pair(x, y)
  BY <1>4, <1>6, PairOfRuns
<1>13. /\ <<x, y>> \in Seq(Runs) /\ <<x, y>> # <<>> /\ Len(<<x, y>>) = 2 /\ <<x, y>>[1] = x /\ <<x, y>>[2] = y
       /\ Span(<<x, y>>) = p + r
       /\ Ones(<<x, y>>, w) = Ivl(x, w) \cup Ivl(y, w + p)
       /\ Len(Coded(<<x, y>>)) = blocklength(p) + blocklength(r)
  BY <1>4, <1>6, <1>12, Zenon DEF Pair
<1>14. p + 1 <= most
  <2>1. v + Span(P) + (p + r) <= v + Span(R) /\ Span(P) \in Nat /\ Span(R) \in Nat
    BY <1>11, <1>13, RunsFit, SpanProperties
  <2> QED
    BY <1>4, <1>6, <1>8, <2>1, SMTT(30)
<1>15. PICK a \in Runs : a.bit = newval /\ a.run = p + 1
  <2>1. p + 1 \in Nat /\ p + 1 # 0
    BY <1>4
  <2> QED
    BY <1>7, <1>14, <2>1, RunsMade
<1>16. PICK c \in Runs : c.bit = bit /\ c.run = r - 1
  <2>1. r - 1 \in Nat /\ r - 1 # 0 /\ r - 1 <= most
    BY <1>6, <1>9, <1>10
  <2> QED
    BY <1>6, <1>7, <2>1, RunsMade
<1>17. Pair(a, c)
  BY PairOfRuns
<1>18. /\ <<a, c>> \in Seq(Runs) /\ <<a, c>> # <<>> /\ Alternates(<<a, c>>)
       /\ Len(<<a, c>>) = 2 /\ <<a, c>>[1] = a /\ <<a, c>>[2] = c
       /\ Span(<<a, c>>) = (p + 1) + (r - 1)
       /\ Ones(<<a, c>>, w) = Ivl(a, w) \cup Ivl(c, w + (p + 1))
       /\ Coded(<<a, c>>) = encode(newval, p + 1) \o encode(bit, r - 1)
  BY <1>4, <1>8, <1>15, <1>16, <1>17, Zenon DEF Pair
<1>19. SameEnds(<<x, y>>, <<a, c>>, Q)
  BY <1>4, <1>6, <1>9, <1>13, <1>15, <1>16, <1>18, Zenon DEF SameEnds
<1>20. Ivl(a, w) \cup Ivl(c, w + (p + 1)) = Changed(Ivl(x, w) \cup Ivl(y, w + p), index, newval)
  <2>1. /\ Ivl(a, w) = BitsFrom(newval, w, p + 1) /\ Ivl(c, w + (p + 1)) = BitsFrom(bit, w + (p + 1), r - 1)
        /\ Ivl(x, w) = BitsFrom(newval, w, p) /\ Ivl(y, w + p) = BitsFrom(bit, w + p, r)
    BY <1>4, <1>6, <1>9, <1>15, <1>16, Zenon DEF Ivl, BitsFrom
  <2>2. r > 1
    BY <1>6, <1>10
  <2>3. TradesBack(w, p, r, bit, newval)
    BY <1>a, <1>b, <2>2, TradePrevBits
  <2> QED
    BY <1>10, <2>1, <2>3, Zenon DEF TradesBack
<1>21. w <= index /\ index < w + (p + r) /\ (p + 1) + (r - 1) = p + r
  BY <1>4, <1>6, <1>10
<1>22. Fitting(R, v, m, P, <<x, y>>, Q, <<a, c>>, index, newval)
  BY <1>4, <1>8, <1>11, <1>13, <1>18, <1>19, <1>20, <1>21, Zenon DEF Fitting
<1>23. Rewrites(R, v, index, newval, 0,
                Replaced(Coded(R) \o T, At(R, m), At(R, m) + Len(Coded(<<x, y>>)), Coded(<<a, c>>)))
  BY <1>22, ArmInside
<1>24. B[n].at = At(R, n) /\ B[n].bit = bit /\ B[n].run = r
  <2>1. B[n].at = At(R, n) /\ B[n].bit = R[n].bit /\ B[n].run = R[n].run
    BY BlockAt
  <2> QED
    BY <1>6, <2>1, Zenon
<1>25. B[n - 1].at = At(R, m) /\ B[n - 1].bit = newval /\ B[n - 1].run = p
  <2>1. B[m].at = At(R, m) /\ B[m].bit = R[m].bit /\ B[m].run = R[m].run
    <3>1. m \in 1..Len(R)
      BY <1>2
    <3> QED
      BY <3>1, BlockAt
  <2> QED
    BY <1>2, <1>4, <1>9, <2>1, Zenon
<1>26. At(R, n) + blocklength(r - 1) = At(R, m) + (blocklength(p) + blocklength(r))
  <2>1. At(R, n) = At(R, m) + blocklength(p) /\ At(R, m) \in Nat
    <3>1. At(R, m + 1) = At(R, m) + blocklength(R[m].run) /\ At(R, m) \in Nat
      BY <1>2, Places1
    <3> QED
      BY <1>2, <1>4, <3>1
  <2>2. blocklength(p) \in 1..4 /\ blocklength(r) \in 1..4
    BY <1>4, <1>6, BlockLengths
  <2>3. blocklength(r - 1) = blocklength(r)
    BY <1>10
  <2>4. PICK i \in Nat : i = At(R, m)
    BY <2>1
  <2>5. PICK j \in 1..4 : j = blocklength(p)
    BY <2>2
  <2>6. PICK k \in 1..4 : k = blocklength(r)
    BY <2>2
  <2>7. (i + j) + k = i + (j + k)
    OBVIOUS
  <2> QED
    BY <2>1, <2>3, <2>4, <2>5, <2>6, <2>7, Zenon
<1>27. TradeWithPrev(Coded(R) \o T, B, n)
         = Replaced(Coded(R) \o T, At(R, m), At(R, m) + Len(Coded(<<x, y>>)), Coded(<<a, c>>))
  BY <1>13, <1>18, <1>24, <1>25, <1>26, Zenon DEF TradeWithPrev
<1> QED
  BY <1>23, <1>27, Zenon

(* The run before the n-th, and the run after it. *)
AtOnly(R, n) == R[n].run = 1
IsLast(R, n) == n = Len(R)
AtFinal(R, v, index, n) ==
  R[n].run # 1 /\ Val(R, v, n) # index /\ Val(R, v, n) + R[n].run - 1 = index
Kept(r, s) == blocklength(r) = blocklength(s)

(* "join prev and next blocks" at the last run changes the bit asked for   *)
(* and no other.                                                           *)
LEMMA JoinLastArm ==
  ASSUME NEW R \in Seq(Runs), NEW T \in Terminators, NEW v \in Nat, NEW index \in Nat,
         NEW newval \in 0..1, NEW n \in 1..Len(R), Hit(R, v, index, newval, n),
         NEW B, B = BlocksFor(R, v), AtOnly(R, n), IsLast(R, n)
  PROVE  Rewrites(R, v, index, newval, 0, Join(Coded(R) \o T, B, n, newval))
<1>0. n \in 1..(Len(R) + 1) /\ n <= Len(R) /\ Len(R) \in Nat
  BY LenProperties
<1>5. PICK y \in Runs, bit \in 0..1, r \in Nat, u \in Nat : Shape(R, v, n, y, bit, r, u)
  BY ShapeOf
<1>6. y = R[n] /\ y.bit = bit /\ y.run = 1 /\ r = 1 /\ u = Val(R, v, n)
  BY <1>5, Zenon DEF Shape, AtOnly
<1>b. bit # newval
  BY <1>0, <1>6, Zenon DEF Hit
<1>c. index = u
  <2>1. Val(R, v, n) <= index /\ index < Val(R, v, n) + R[n].run
    BY <1>0, Zenon DEF Hit
  <2>2. u <= index /\ index < u + 1
    BY <1>6, <2>1, Zenon
  <2> QED
    BY <2>2
<1>1. n \in 2..(Len(R) + 1)
  BY <1>0, <1>6, <1>c, HitFacts
<1>2. PICK m \in 1..(Len(R) - 1) : m = n - 1 /\ m + 1 = n /\ m \in 1..Len(R) /\ n \in 2..Len(R) /\ m \in 1..(Len(R) + 1)
  BY <1>0, <1>1
<1>3. PICK x \in Runs, xb \in 0..1, p \in Nat, w \in Nat : Shape(R, v, m, x, xb, p, w)
  BY <1>2, ShapeOf
<1>4. x = R[m] /\ x.bit = xb /\ x.run = p /\ w = Val(R, v, m) /\ p # 0
  BY <1>3, Zenon DEF Shape
<1>a. p # 0
  BY <1>4
<1>7. PICK most \in Nat : most = MaxRun /\ 1 <= most
  BY MaxRunType
<1>8. Canon(R) /\ v + Span(R) <= most
  BY <1>7, Zenon DEF Hit
<1>9. xb = newval /\ u = w + p
  <2>1. R[n - 1].bit = newval /\ Val(R, v, n) = Val(R, v, n - 1) + R[n - 1].run
    BY <1>0, <1>2, HitFacts
  <2> QED
    BY <1>2, <1>4, <1>6, <2>1, Zenon
<1>10. index = w + p
  BY <1>9, <1>c, Zenon
<1>11. PICK P, Q \in Seq(Runs) : Around(R, v, m, P, <<x, y>>, Q)
  <2>1. <<R[m], R[m + 1]>> = <<x, y>>
    BY <1>2, <1>4, <1>6
  <2> QED
    BY <2>1, AroundTwo, Zenon
<1>12. Pair(x, y)
  BY PairOfRuns
<1>13. /\ <<x, y>> \in Seq(Runs) /\ <<x, y>> # <<>> /\ Len(<<x, y>>) = 2 /\ <<x, y>>[1] = x /\ <<x, y>>[2] = y
       /\ Span(<<x, y>>) = p + 1
       /\ Ones(<<x, y>>, w) = Ivl(x, w) \cup Ivl(y, w + p)
       /\ Len(Coded(<<x, y>>)) = blocklength(p) + blocklength(1)
  BY <1>4, <1>6, <1>12, Zenon DEF Pair
<1>q. Q = <<>>
  <2>1. Len(P) = m - 1 /\ Len(P) + Len(<<x, y>>) + Len(Q) = Len(R) /\ (Len(Q) = 0 => Q = <<>>)
    BY <1>11, Zenon DEF Around
  <2>2. Len(Q) \in Nat
    BY LenProperties
  <2> QED
    BY <1>0, <1>2, <1>13, <2>1, <2>2 DEF IsLast
<1>14. p + 1 <= most
  <2>1. v + Span(P) + (p + 1) <= v + Span(R) /\ Span(P) \in Nat /\ Span(R) \in Nat
    BY <1>11, <1>13, RunsFit, SpanProperties
  <2> QED
    BY <1>8, <2>1
<1>15. PICK a \in Runs : a.bit = newval /\ a.run = p + 1
  <2>1. p + 1 \in Nat /\ p + 1 # 0
    OBVIOUS
  <2> QED
    BY <1>7, <1>14, <2>1, RunsMade
<1>18. /\ <<a>> \in Seq(Runs) /\ <<a>> # <<>> /\ Alternates(<<a>>)
       /\ Len(<<a>>) = 1 /\ <<a>>[1] = a
       /\ Span(<<a>>) = p + 1
       /\ Ones(<<a>>, w) = Ivl(a, w)
       /\ Coded(<<a>>) = encode(newval, p + 1)
  <2>1. Single1(a)
    BY SingleRun
  <2> QED
    BY <1>15, <2>1, Zenon DEF Single1
<1>19. SameEnds(<<x, y>>, <<a>>, Q)
  BY <1>4, <1>9, <1>q, <1>13, <1>15, <1>18, Zenon DEF SameEnds
<1>20. Ivl(a, w) = Changed(Ivl(x, w) \cup Ivl(y, w + p), index, newval)
  <2>1. /\ Ivl(a, w) = BitsFrom(newval, w, p + 1)
        /\ Ivl(x, w) = BitsFrom(newval, w, p) /\ Ivl(y, w + p) = BitsFrom(bit, w + p, 1)
    BY <1>4, <1>6, <1>9, <1>15, Zenon DEF Ivl, BitsFrom
  <2>2. JoinsBits(w, p, 0, bit, newval)
    BY <1>b, JoinBits
  <2>3. BitsFrom(newval, w + p + 1, 0) = {} /\ p + 1 + 0 = p + 1
    BY DEF BitsFrom
  <2>4. \A S : S \cup {} = S
    OBVIOUS
  <2> QED
    BY <1>10, <2>1, <2>2, <2>3, <2>4, Zenon DEF JoinsBits
<1>21. w <= index /\ index < w + (p + 1)
  BY <1>10
<1>22. Fitting(R, v, m, P, <<x, y>>, Q, <<a>>, index, newval)
  BY <1>4, <1>8, <1>11, <1>13, <1>18, <1>19, <1>20, <1>21, Zenon DEF Fitting
<1>23. Rewrites(R, v, index, newval, 0,
                Replaced(Coded(R) \o T, At(R, m), At(R, m) + Len(Coded(<<x, y>>)), Coded(<<a>>)))
  BY <1>22, ArmInside
<1>24. blockend(B[n]) = At(R, n) + blocklength(1)
  <2>1. blockend(B[n]) = At(R, n) + blocklength(R[n].run)
    BY BlockAt
  <2> QED
    BY <1>6, <2>1, Zenon
<1>25. B[n - 1].at = At(R, m) /\ B[n - 1].run = p
  <2>1. B[m].at = At(R, m) /\ B[m].bit = R[m].bit /\ B[m].run = R[m].run
    <3>1. m \in 1..Len(R)
      BY <1>2
    <3> QED
      BY <3>1, BlockAt
  <2> QED
    BY <1>2, <1>4, <1>9, <2>1, Zenon
<1>t. B[n + 1].run = 0
  <2>1. B[Len(R) + 1].run = 0
    BY Fields
  <2> QED
    BY <2>1, Zenon DEF IsLast
<1>26. At(R, n) + blocklength(1) = At(R, m) + (blocklength(p) + blocklength(1))
  <2>1. At(R, n) = At(R, m) + blocklength(p) /\ At(R, m) \in Nat
    <3>1. At(R, m + 1) = At(R, m) + blocklength(R[m].run) /\ At(R, m) \in Nat
      BY <1>2, Places1
    <3> QED
      BY <1>2, <1>4, <3>1
  <2>2. blocklength(p) \in 1..4 /\ blocklength(1) \in 1..4
    BY BlockLengths
  <2>4. PICK i \in Nat : i = At(R, m)
    BY <2>1
  <2>5. PICK j \in 1..4 : j = blocklength(p)
    BY <2>2
  <2>6. PICK k \in 1..4 : k = blocklength(1)
    BY <2>2
  <2>7. (i + j) + k = i + (j + k)
    OBVIOUS
  <2> QED
    BY <2>1, <2>4, <2>5, <2>6, <2>7, Zenon
<1>p. p + 1 + 0 = p + 1
  OBVIOUS
<1>27. Join(Coded(R) \o T, B, n, newval)
         = Replaced(Coded(R) \o T, At(R, m), At(R, m) + Len(Coded(<<x, y>>)), Coded(<<a>>))
  BY <1>13, <1>18, <1>24, <1>25, <1>26, <1>t, <1>p, Zenon DEF Join
<1> QED
  BY <1>23, <1>27, Zenon

(* "join prev and next blocks" between two runs changes the bit asked for  *)
(* and no other.                                                           *)
LEMMA JoinMiddleArm ==
  ASSUME NEW R \in Seq(Runs), NEW T \in Terminators, NEW v \in Nat, NEW index \in Nat,
         NEW newval \in 0..1, NEW n \in 1..(Len(R) - 1), Hit(R, v, index, newval, n),
         NEW B, B = BlocksFor(R, v), AtOnly(R, n)
  PROVE  Rewrites(R, v, index, newval, 0, Join(Coded(R) \o T, B, n, newval))
<1>0. n \in 1..(Len(R) + 1) /\ n <= Len(R) /\ Len(R) \in Nat /\ n \in 1..Len(R)
  BY LenProperties
<1>5. PICK y \in Runs, bit \in 0..1, r \in Nat, u \in Nat : Shape(R, v, n, y, bit, r, u)
  BY <1>0, ShapeOf
<1>6. y = R[n] /\ y.bit = bit /\ y.run = 1 /\ r = 1 /\ u = Val(R, v, n)
  BY <1>5, Zenon DEF Shape, AtOnly
<1>b. bit # newval
  BY <1>0, <1>6, Zenon DEF Hit
<1>c. index = u
  <2>1. Val(R, v, n) <= index /\ index < Val(R, v, n) + R[n].run
    BY <1>0, Zenon DEF Hit
  <2>2. u <= index /\ index < u + 1
    BY <1>6, <2>1, Zenon
  <2> QED
    BY <2>2
<1>1. n \in 2..(Len(R) + 1)
  BY <1>0, <1>6, <1>c, HitFacts
<1>2. PICK m \in 1..(Len(R) - 2) : /\ m = n - 1 /\ m + 1 = n /\ m \in 1..Len(R) /\ n \in 2..Len(R) /\ m \in 1..(Len(R) + 1)
                                   /\ m + 2 = n + 1 /\ n + 1 \in 1..Len(R)
  BY <1>0, <1>1
<1>3. PICK x \in Runs, xb \in 0..1, p \in Nat, w \in Nat : Shape(R, v, m, x, xb, p, w)
  BY <1>2, ShapeOf
<1>4. x = R[m] /\ x.bit = xb /\ x.run = p /\ w = Val(R, v, m) /\ p # 0
  BY <1>3, Zenon DEF Shape
<1>d. PICK z \in Runs, zb \in 0..1, q \in Nat, o \in Nat : Shape(R, v, n + 1, z, zb, q, o)
  BY <1>2, ShapeOf
<1>e. z = R[n + 1] /\ z.bit = zb /\ z.run = q /\ q # 0
  BY <1>d, Zenon DEF Shape
<1>7. PICK most \in Nat : most = MaxRun /\ 1 <= most
  BY MaxRunType
<1>8. Canon(R) /\ v + Span(R) <= most
  BY <1>7, Zenon DEF Hit
<1>9. xb = newval /\ u = w + p /\ zb = newval
  <2>1. R[n - 1].bit = newval /\ Val(R, v, n) = Val(R, v, n - 1) + R[n - 1].run /\ R[n + 1].bit = newval
    BY <1>0, <1>2, HitFacts
  <2> QED
    BY <1>2, <1>4, <1>6, <1>e, <2>1, Zenon
<1>10. index = w + p
  BY <1>9, <1>c, Zenon
<1>11. PICK P, Q \in Seq(Runs) : Around(R, v, m, P, <<x, y, z>>, Q)
  <2>1. <<R[m], R[m + 1], R[m + 2]>> = <<x, y, z>>
    BY <1>2, <1>4, <1>6, <1>e
  <2> QED
    BY <2>1, AroundThree, Zenon
<1>12. Triple(x, y, z)
  BY TripleOfRuns
<1>13. /\ <<x, y, z>> \in Seq(Runs) /\ <<x, y, z>> # <<>> /\ Len(<<x, y, z>>) = 3
       /\ <<x, y, z>>[1] = x /\ <<x, y, z>>[3] = z
       /\ Span(<<x, y, z>>) = p + 1 + q
       /\ Ones(<<x, y, z>>, w) = Ivl(x, w) \cup Ivl(y, w + p) \cup Ivl(z, w + p + 1)
       /\ Len(Coded(<<x, y, z>>)) = blocklength(p) + blocklength(1) + blocklength(q)
  BY <1>4, <1>6, <1>e, <1>12, Zenon DEF Triple
<1>14. p + 1 + q <= most
  <2>1. v + Span(P) + (p + 1 + q) <= v + Span(R) /\ Span(P) \in Nat /\ Span(R) \in Nat
    BY <1>11, <1>13, RunsFit, SpanProperties
  <2> QED
    BY <1>8, <2>1
<1>15. PICK a \in Runs : a.bit = newval /\ a.run = p + 1 + q
  <2>1. p + 1 + q \in Nat /\ p + 1 + q # 0
    OBVIOUS
  <2> QED
    BY <1>7, <1>14, <2>1, RunsMade
<1>18. /\ <<a>> \in Seq(Runs) /\ <<a>> # <<>> /\ Alternates(<<a>>)
       /\ Len(<<a>>) = 1 /\ <<a>>[1] = a
       /\ Span(<<a>>) = p + 1 + q
       /\ Ones(<<a>>, w) = Ivl(a, w)
       /\ Coded(<<a>>) = encode(newval, p + 1 + q)
  <2>1. Single1(a)
    BY SingleRun
  <2> QED
    BY <1>15, <2>1, Zenon DEF Single1
<1>19. SameEnds(<<x, y, z>>, <<a>>, Q)
  BY <1>4, <1>9, <1>e, <1>13, <1>15, <1>18, Zenon DEF SameEnds
<1>20. Ivl(a, w) = Changed(Ivl(x, w) \cup Ivl(y, w + p) \cup Ivl(z, w + p + 1), index, newval)
  <2>1. /\ Ivl(a, w) = BitsFrom(newval, w, p + 1 + q) /\ Ivl(z, w + p + 1) = BitsFrom(newval, w + p + 1, q)
        /\ Ivl(x, w) = BitsFrom(newval, w, p) /\ Ivl(y, w + p) = BitsFrom(bit, w + p, 1)
    BY <1>4, <1>6, <1>9, <1>15, <1>e, Zenon DEF Ivl, BitsFrom
  <2>2. JoinsBits(w, p, q, bit, newval)
    BY <1>b, JoinBits
  <2> QED
    BY <1>10, <2>1, <2>2, Zenon DEF JoinsBits
<1>21. w <= index /\ index < w + (p + 1 + q)
  BY <1>10
<1>22. Fitting(R, v, m, P, <<x, y, z>>, Q, <<a>>, index, newval)
  BY <1>4, <1>8, <1>11, <1>13, <1>18, <1>19, <1>20, <1>21, Zenon DEF Fitting
<1>23. Rewrites(R, v, index, newval, 0,
                Replaced(Coded(R) \o T, At(R, m), At(R, m) + Len(Coded(<<x, y, z>>)), Coded(<<a>>)))
  BY <1>22, ArmInside
<1>24. blockend(B[n + 1]) = At(R, n + 1) + blocklength(q) /\ B[n + 1].run = q
  <2>1. blockend(B[n + 1]) = At(R, n + 1) + blocklength(R[n + 1].run) /\ B[n + 1].run = R[n + 1].run
    BY <1>2, BlockAt
  <2> QED
    BY <1>e, <2>1, Zenon
<1>25. B[n - 1].at = At(R, m) /\ B[n - 1].run = p
  <2>1. B[m].at = At(R, m) /\ B[m].bit = R[m].bit /\ B[m].run = R[m].run
    <3>1. m \in 1..Len(R)
      BY <1>2
    <3> QED
      BY <3>1, BlockAt, SMTT(30)
  <2> QED
    BY <1>2, <1>4, <1>9, <2>1, Zenon
<1>26. At(R, n + 1) + blocklength(q) = At(R, m) + (blocklength(p) + blocklength(1) + blocklength(q))
  <2>1. At(R, n) = At(R, m) + blocklength(p) /\ At(R, m) \in Nat
    <3>1. At(R, m + 1) = At(R, m) + blocklength(R[m].run) /\ At(R, m) \in Nat
      BY <1>2, Places1
    <3> QED
      BY <1>2, <1>4, <3>1
  <2>3. At(R, n + 1) = At(R, n) + blocklength(1)
    <3>1. At(R, n + 1) = At(R, n) + blocklength(R[n].run)
      BY <1>0, Places1
    <3> QED
      BY <1>6, <3>1, Zenon
  <2>2. blocklength(p) \in 1..4 /\ blocklength(1) \in 1..4 /\ blocklength(q) \in 1..4
    BY BlockLengths
  <2>4. PICK i \in Nat : i = At(R, m)
    BY <2>1
  <2>5. PICK j \in 1..4 : j = blocklength(p)
    BY <2>2
  <2>6. PICK k \in 1..4 : k = blocklength(1)
    BY <2>2
  <2>8. PICK l \in 1..4 : l = blocklength(q)
    BY <2>2
  <2>7. ((i + j) + k) + l = i + (j + k + l)
    OBVIOUS
  <2> QED
    BY <2>1, <2>3, <2>4, <2>5, <2>6, <2>7, <2>8, Zenon
<1>27. Join(Coded(R) \o T, B, n, newval)
         = Replaced(Coded(R) \o T, At(R, m), At(R, m) + Len(Coded(<<x, y, z>>)), Coded(<<a>>))
  BY <1>13, <1>18, <1>24, <1>25, <1>26, <1>e, Zenon DEF Join
<1> QED
  BY <1>23, <1>27, Zenon

(* Beginning a run behind the last changes the bit asked for and no other, *)
(* if no width changes.                                                    *)
LEMMA TradeEndArm ==
  ASSUME NEW R \in Seq(Runs), NEW T \in Terminators, NEW v \in Nat, NEW index \in Nat,
         NEW newval \in 0..1, NEW n \in 1..Len(R), Hit(R, v, index, newval, n),
         NEW B, B = BlocksFor(R, v), AtFinal(R, v, index, n), IsLast(R, n), Kept(R[n].run - 1, R[n].run)
  PROVE  Rewrites(R, v, index, newval, 0, TradeWithNext(Coded(R) \o T, B, n, newval))
<1>0. n \in 1..(Len(R) + 1) /\ n <= Len(R) /\ Len(R) \in Nat
  BY LenProperties
<1>1. PICK x \in Runs, bit \in 0..1, r \in Nat, w \in Nat : Shape(R, v, n, x, bit, r, w)
  BY ShapeOf
<1>2. x = R[n] /\ x.bit = bit /\ x.run = r /\ w = Val(R, v, n)
  BY <1>1, Zenon DEF Shape
<1>3. PICK most \in Nat : most = MaxRun /\ 1 <= most
  BY MaxRunType
<1>4. r <= most
  <2>1. R[n].run <= MaxRun
    BY <1>0, HitFacts
  <2> QED
    BY <1>2, <1>3, <2>1, Zenon
<1>a. r # 0 /\ w + r - 1 = index /\ r # 1
  BY <1>1, <1>2, Zenon DEF AtFinal, Shape
<1>b. bit # newval
  BY <1>0, <1>2, Zenon DEF Hit
<1>k. blocklength(r - 1) = blocklength(r)
  BY <1>2, Zenon DEF Kept
<1>5. Canon(R)
  BY Zenon DEF Hit
<1>8. PICK a \in Runs : a.bit = bit /\ a.run = r - 1
  <2>1. r - 1 <= most /\ r - 1 \in Nat /\ r - 1 # 0
    BY <1>4, <1>a
  <2> QED
    BY <1>3, <2>1, RunsMade
<1>9. PICK c \in Runs : c.bit = newval /\ c.run = 1
  <2>1. 1 \in Nat /\ 1 # 0
    OBVIOUS
  <2> QED
    BY <1>3, <2>1, RunsMade
<1>11. PICK P, Q \in Seq(Runs) : Around(R, v, n, P, <<x>>, Q)
  BY <1>2, AroundOne
<1>12. Single1(x) /\ Pair(a, c)
  BY SingleRun, PairOfRuns
<1>13. /\ <<a, c>> \in Seq(Runs) /\ <<a, c>> # <<>> /\ Alternates(<<a, c>>)
       /\ Len(<<a, c>>) = 2 /\ <<a, c>>[1] = a /\ <<a, c>>[2] = c
       /\ Span(<<a, c>>) = (r - 1) + 1
       /\ Ones(<<a, c>>, w) = Ivl(a, w) \cup Ivl(c, w + (r - 1))
       /\ Coded(<<a, c>>) = encode(bit, r - 1) \o encode(newval, 1)
  BY <1>8, <1>9, <1>12, <1>b, Zenon DEF Pair
<1>14. /\ <<x>> # <<>> /\ Len(<<x>>) = 1 /\ <<x>>[1] = x /\ Span(<<x>>) = r
       /\ Ones(<<x>>, w) = Ivl(x, w) /\ Len(Coded(<<x>>)) = blocklength(r)
  BY <1>2, <1>12, Zenon DEF Single1
<1>q. Q = <<>>
  <2>1. Len(P) = n - 1 /\ Len(P) + Len(<<x>>) + Len(Q) = Len(R) /\ (Len(Q) = 0 => Q = <<>>)
    BY <1>11, Zenon DEF Around
  <2>2. Len(Q) \in Nat
    BY LenProperties
  <2> QED
    BY <1>0, <1>14, <2>1, <2>2 DEF IsLast
<1>15. SameEnds(<<x>>, <<a, c>>, Q)
  BY <1>2, <1>8, <1>q, <1>13, <1>14, Zenon DEF SameEnds
<1>16. Ivl(a, w) \cup Ivl(c, w + (r - 1)) = Changed(Ivl(x, w), index, newval)
  <2>1. /\ Ivl(a, w) = BitsFrom(bit, w, r - 1) /\ Ivl(c, w + (r - 1)) = BitsFrom(newval, w + (r - 1), 1)
        /\ Ivl(x, w) = BitsFrom(bit, w, r)
    BY <1>2, <1>8, <1>9, Zenon DEF Ivl, BitsFrom
  <2>2. TradesOn(w, 0, r, bit, newval)
    <3>1. r > 1
      BY <1>a
    <3> QED
      BY <1>b, <3>1, TradeNextBits
  <2>3. BitsFrom(newval, w + r, 0) = {} /\ 0 + 1 = 1
    <3>1. (w + r)..(w + r + 0 - 1) = {}
      OBVIOUS
    <3> QED
      BY <3>1 DEF BitsFrom
  <2>4. \A S : S \cup {} = S
    OBVIOUS
  <2> QED
    BY <1>a, <2>1, <2>2, <2>3, <2>4, Zenon DEF TradesOn
<1>17. w <= index /\ index < w + r /\ (r - 1) + 1 = r
  BY <1>a
<1>18. Fitting(R, v, n, P, <<x>>, Q, <<a, c>>, index, newval)
  BY <1>2, <1>5, <1>11, <1>13, <1>14, <1>15, <1>16, <1>17, Zenon DEF Fitting
<1>19. Rewrites(R, v, index, newval, 0,
                Replaced(Coded(R) \o T, At(R, n), At(R, n) + Len(Coded(<<x>>)), Coded(<<a, c>>)))
  BY <1>18, ArmInside
<1>20. B[n].at = At(R, n) /\ B[n].bit = bit /\ B[n].run = r
  <2>1. B[n].at = At(R, n) /\ B[n].bit = R[n].bit /\ B[n].run = R[n].run
    BY BlockAt
  <2> QED
    BY <1>2, <2>1, Zenon
<1>t. B[n + 1].run = 0
  <2>1. B[Len(R) + 1].run = 0
    BY Fields
  <2> QED
    BY <2>1, Zenon DEF IsLast
<1>21. TradeWithNext(Coded(R) \o T, B, n, newval)
         = Replaced(Coded(R) \o T, At(R, n), At(R, n) + Len(Coded(<<x>>)), Coded(<<a, c>>))
  BY <1>13, <1>14, <1>20, <1>t, <1>k, Zenon DEF TradeWithNext
<1> QED
  BY <1>19, <1>21, Zenon

(* "shorten this block, lengthen next block" changes the bit asked for and *)
(* no other, if no width changes.                                          *)
LEMMA TradeNextArm ==
  ASSUME NEW R \in Seq(Runs), NEW T \in Terminators, NEW v \in Nat, NEW index \in Nat,
         NEW newval \in 0..1, NEW n \in 1..(Len(R) - 1), Hit(R, v, index, newval, n),
         NEW B, B = BlocksFor(R, v), AtFinal(R, v, index, n), Kept(R[n + 1].run + 1, R[n + 1].run)
  PROVE  Rewrites(R, v, index, newval, 0, TradeWithNext(Coded(R) \o T, B, n, newval))
<1>0. n \in 1..(Len(R) + 1) /\ n <= Len(R) /\ Len(R) \in Nat /\ n \in 1..Len(R) /\ n + 1 \in 1..Len(R)
  BY LenProperties
<1>1. PICK x \in Runs, bit \in 0..1, r \in Nat, w \in Nat : Shape(R, v, n, x, bit, r, w)
  BY <1>0, ShapeOf
<1>2. x = R[n] /\ x.bit = bit /\ x.run = r /\ w = Val(R, v, n)
  BY <1>1, Zenon DEF Shape
<1>d. PICK z \in Runs, zb \in 0..1, q \in Nat, o \in Nat : Shape(R, v, n + 1, z, zb, q, o)
  BY <1>0, ShapeOf
<1>e. z = R[n + 1] /\ z.bit = zb /\ z.run = q /\ q # 0
  BY <1>d, Zenon DEF Shape
<1>3. PICK most \in Nat : most = MaxRun /\ 1 <= most
  BY MaxRunType
<1>a. r # 0 /\ w + r - 1 = index /\ r # 1
  BY <1>1, <1>2, Zenon DEF AtFinal, Shape
<1>b. bit # newval
  BY <1>0, <1>2, Zenon DEF Hit
<1>z. zb = newval
  <2>1. R[n + 1].bit = newval
    BY <1>0, HitFacts
  <2> QED
    BY <1>e, <2>1, Zenon
<1>k. blocklength(q + 1) = blocklength(q)
  BY <1>e, Zenon DEF Kept
<1>5. Canon(R) /\ v + Span(R) <= most
  BY <1>3, Zenon DEF Hit
<1>11. PICK P, Q \in Seq(Runs) : Around(R, v, n, P, <<x, z>>, Q)
  <2>1. <<R[n], R[n + 1]>> = <<x, z>>
    BY <1>2, <1>e
  <2> QED
    BY <2>1, AroundTwo, Zenon
<1>12. Pair(x, z)
  BY PairOfRuns
<1>13. /\ <<x, z>> \in Seq(Runs) /\ <<x, z>> # <<>> /\ Len(<<x, z>>) = 2 /\ <<x, z>>[1] = x /\ <<x, z>>[2] = z
       /\ Span(<<x, z>>) = r + q
       /\ Ones(<<x, z>>, w) = Ivl(x, w) \cup Ivl(z, w + r)
       /\ Len(Coded(<<x, z>>)) = blocklength(r) + blocklength(q)
  BY <1>2, <1>e, <1>12, Zenon DEF Pair
<1>4. r <= most /\ q + 1 <= most
  <2>1. v + Span(P) + (r + q) <= v + Span(R) /\ Span(P) \in Nat /\ Span(R) \in Nat
    BY <1>11, <1>13, RunsFit, SpanProperties
  <2>2. v + Span(R) <= most
    BY <1>5
  <2>3. PICK i \in Nat : i = Span(P)
    BY <2>1
  <2>4. PICK j \in Nat : j = Span(R)
    BY <2>1
  <2>5. v + i + (r + q) <= v + j /\ v + j <= most
    BY <2>1, <2>2, <2>3, <2>4, Zenon
  <2> QED
    BY <1>a, <2>5
<1>8. PICK a \in Runs : a.bit = bit /\ a.run = r - 1
  <2>1. r - 1 <= most /\ r - 1 \in Nat /\ r - 1 # 0
    BY <1>4, <1>a
  <2> QED
    BY <1>3, <2>1, RunsMade
<1>9. PICK c \in Runs : c.bit = newval /\ c.run = q + 1
  <2>1. q + 1 \in Nat /\ q + 1 # 0
    OBVIOUS
  <2> QED
    BY <1>3, <1>4, <2>1, RunsMade
<1>14. Pair(a, c)
  BY PairOfRuns
<1>18. /\ <<a, c>> \in Seq(Runs) /\ <<a, c>> # <<>> /\ Alternates(<<a, c>>)
       /\ Len(<<a, c>>) = 2 /\ <<a, c>>[1] = a /\ <<a, c>>[2] = c
       /\ Span(<<a, c>>) = (r - 1) + (q + 1)
       /\ Ones(<<a, c>>, w) = Ivl(a, w) \cup Ivl(c, w + (r - 1))
       /\ Coded(<<a, c>>) = encode(bit, r - 1) \o encode(newval, q + 1)
  BY <1>8, <1>9, <1>14, <1>b, Zenon DEF Pair
<1>19. SameEnds(<<x, z>>, <<a, c>>, Q)
  BY <1>2, <1>e, <1>8, <1>9, <1>z, <1>13, <1>18, Zenon DEF SameEnds
<1>20. Ivl(a, w) \cup Ivl(c, w + (r - 1)) = Changed(Ivl(x, w) \cup Ivl(z, w + r), index, newval)
  <2>1. /\ Ivl(a, w) = BitsFrom(bit, w, r - 1) /\ Ivl(c, w + (r - 1)) = BitsFrom(newval, w + (r - 1), q + 1)
        /\ Ivl(x, w) = BitsFrom(bit, w, r) /\ Ivl(z, w + r) = BitsFrom(newval, w + r, q)
    BY <1>2, <1>e, <1>8, <1>9, <1>z, Zenon DEF Ivl, BitsFrom
  <2>2. TradesOn(w, q, r, bit, newval)
    <3>1. r > 1
      BY <1>a
    <3> QED
      BY <1>b, <3>1, TradeNextBits
  <2> QED
    BY <1>a, <2>1, <2>2, Zenon DEF TradesOn
<1>21. w <= index /\ index < w + (r + q) /\ (r - 1) + (q + 1) = r + q
  BY <1>a
<1>22. Fitting(R, v, n, P, <<x, z>>, Q, <<a, c>>, index, newval)
  BY <1>2, <1>5, <1>11, <1>13, <1>18, <1>19, <1>20, <1>21, Zenon DEF Fitting
<1>23. Rewrites(R, v, index, newval, 0,
                Replaced(Coded(R) \o T, At(R, n), At(R, n) + Len(Coded(<<x, z>>)), Coded(<<a, c>>)))
  BY <1>22, ArmInside
<1>24. B[n].at = At(R, n) /\ B[n].bit = bit /\ B[n].run = r
  <2>1. B[n].at = At(R, n) /\ B[n].bit = R[n].bit /\ B[n].run = R[n].run
    BY <1>0, BlockAt
  <2> QED
    BY <1>2, <2>1, Zenon
<1>25. B[n + 1].at = At(R, n + 1) /\ B[n + 1].bit = newval /\ B[n + 1].run = q
  <2>1. B[n + 1].at = At(R, n + 1) /\ B[n + 1].bit = R[n + 1].bit /\ B[n + 1].run = R[n + 1].run
    BY <1>0, BlockAt
  <2> QED
    BY <1>e, <1>z, <2>1, Zenon
<1>26. At(R, n + 1) + blocklength(q + 1) = At(R, n) + (blocklength(r) + blocklength(q))
  <2>1. At(R, n + 1) = At(R, n) + blocklength(r) /\ At(R, n) \in Nat
    <3>1. At(R, n + 1) = At(R, n) + blocklength(R[n].run) /\ At(R, n) \in Nat
      BY <1>0, Places1
    <3> QED
      BY <1>2, <3>1
  <2>2. blocklength(r) \in 1..4 /\ blocklength(q) \in 1..4
    BY BlockLengths
  <2>4. PICK i \in Nat : i = At(R, n)
    BY <2>1
  <2>5. PICK j \in 1..4 : j = blocklength(r)
    BY <2>2
  <2>6. PICK k \in 1..4 : k = blocklength(q)
    BY <2>2
  <2>7. (i + j) + k = i + (j + k)
    OBVIOUS
  <2> QED
    BY <1>k, <2>1, <2>4, <2>5, <2>6, <2>7, Zenon
<1>27. TradeWithNext(Coded(R) \o T, B, n, newval)
         = Replaced(Coded(R) \o T, At(R, n), At(R, n) + Len(Coded(<<x, z>>)), Coded(<<a, c>>))
  BY <1>13, <1>18, <1>24, <1>25, <1>26, <1>e, Zenon DEF TradeWithNext
<1> QED
  BY <1>23, <1>27, Zenon

-----------------------------------------------------------------------------
(* The arms of set behind the last run.                                    *)

(* Every run ends before a later one begins. *)
LEMMA ValAscends ==
  ASSUME NEW R \in Seq(Runs), NEW v \in Nat, NEW n \in 1..Len(R), NEW k \in (n + 1)..(Len(R) + 1)
  PROVE  Val(R, v, n) + R[n].run <= Val(R, v, k)
<1>1. Len(R) \in Nat /\ R[n].run \in Nat
  BY LenProperties, ElementOfSeq, RunsType
<1>2. /\ \A i \in 1..(Len(R) + 1) : Val(R, v, i) \in Nat
      /\ \A i \in 1..Len(R) : Val(R, v, i + 1) = Val(R, v, i) + R[i].run
  BY Places1
<1>3. PICK e \in Nat : e = Val(R, v, n) + R[n].run
  BY <1>1, <1>2
<1> DEFINE T == {j \in 0..(Len(R) - n) : e <= Val(R, v, n + 1 + j)}
<1>4. Len(R) - n \in Nat
  BY <1>1
<1>5. 0 \in T
  <2>1. n + 1 + 0 = n + 1 /\ 0 \in 0..(Len(R) - n)
    BY <1>4
  <2>2. Val(R, v, n + 1) = e
    BY <1>2, <1>3
  <2>3. e <= e
    OBVIOUS
  <2> QED
    BY <2>1, <2>2, <2>3
<1>6. ASSUME NEW j \in 0..((Len(R) - n) - 1), j \in T
      PROVE  j + 1 \in T
  <2>1. PICK i \in 1..Len(R) : i = n + 1 + j /\ i + 1 = n + 1 + (j + 1) /\ i \in 1..(Len(R) + 1) /\ j + 1 \in 0..(Len(R) - n)
    BY <1>1
  <2>2. PICK a \in Nat : a = Val(R, v, i)
    BY <1>2, <2>1
  <2>3. PICK b \in Nat : b = R[i].run
    BY ElementOfSeq, RunsType
  <2>4. Val(R, v, i + 1) = a + b
    BY <1>2, <2>2, <2>3
  <2>5. e <= a
    BY <1>6, <2>1, <2>2
  <2>6. e <= a + b
    BY <2>5
  <2> QED
    BY <2>1, <2>4, <2>6
<1>7. \A j \in 0..(Len(R) - n) : j \in T
  <2> HIDE DEF T
  <2> QED
    BY <1>4, <1>5, <1>6, IntervalInduction
<1>8. PICK j \in 0..(Len(R) - n) : n + 1 + j = k
  <2>1. PICK l \in Nat : l = Len(R)
    BY <1>1
  <2>2. n \in Nat /\ k \in (n + 1)..(l + 1)
    BY <2>1
  <2>3. k - n - 1 \in 0..(l - n) /\ n + 1 + (k - n - 1) = k
    BY <2>2
  <2> QED
    BY <2>1, <2>3
<1> QED
  BY <1>3, <1>7, <1>8

(* The last run. *)
LEMMA LastPart ==
  ASSUME NEW R \in Seq(Runs), NEW v \in Nat, R # <<>>
  PROVE  \E P \in Seq(Runs) : Around(R, v, Len(R), P, <<R[Len(R)]>>, <<>>) /\ Len(R) \in 1..Len(R)
<1>1. PICK n \in 1..Len(R) : n = Len(R)
  <2>1. Len(R) \in Nat /\ Len(R) # 0
    BY LenProperties, EmptySeq
  <2> QED
    BY <2>1
<1>2. PICK P, Q \in Seq(Runs) : Around(R, v, n, P, <<R[n]>>, Q)
  BY AroundOne
<1>3. Q = <<>>
  <2>1. Len(P) = n - 1 /\ Len(P) + Len(<<R[n]>>) + Len(Q) = Len(R) /\ (Len(Q) = 0 => Q = <<>>)
    BY <1>2, Zenon DEF Around
  <2>2. Len(Q) \in Nat /\ Len(<<R[n]>>) = 1
    BY LenProperties
  <2>3. Len(Q) = 0
    BY <1>1, <2>1, <2>2
  <2> QED
    BY <2>1, <2>3
<1> QED
  BY <1>1, <1>2, <1>3, Zenon

(* An exchange of the last run for others, by the part of the string behind it. *)
LastExchanged(P, x, N, v, R, R2) ==
  /\ P \in Seq(Runs) /\ R = Row(P, <<x>>, <<>>) /\ R2 = Row(P, N, <<>>) /\ R2 \in Seq(Runs)
  /\ Canon(R2) /\ Span(R2) = Span(P) + Span(N) /\ Span(R) = Span(P) + x.run
  /\ Ones(R, v) = Ones(P, v) \cup Ivl(x, v + Span(P))
  /\ Ones(R2, v) = Ones(P, v) \cup Ones(N, v + Span(P))
  /\ Val(R, v, Len(R)) = v + Span(P) /\ At(R, Len(R)) = 1 + Len(Coded(P))
  /\ Len(R2) = Len(P) + Len(N) /\ \A k \in 1..Len(N) : R2[Len(P) + k] = N[k]

(* Runs stay canonical when the last gives way to some that begin alike. *)
LEMMA LastExchange ==
  ASSUME NEW R \in Seq(Runs), NEW v \in Nat, NEW N \in Seq(Runs), NEW x, x = R[Len(R)],
         Canon(R), N # <<>>, Alternates(N), N[1].bit = x.bit
  PROVE  \E P, R2 \in Seq(Runs) : LastExchanged(P, x, N, v, R, R2)
<1>1. R # <<>>
  BY DEF Canon
<1>2. PICK P \in Seq(Runs) : Around(R, v, Len(R), P, <<x>>, <<>>) /\ Len(R) \in 1..Len(R)
  BY <1>1, LastPart
<1>3. x \in Runs /\ <<>> \in Seq(Runs)
  BY <1>2, ElementOfSeq, EmptySeq
<1>4. /\ R = Row(P, <<x>>, <<>>) /\ Val(R, v, Len(R)) = v + Span(P) /\ At(R, Len(R)) = 1 + Len(Coded(P))
      /\ <<x>> \in Seq(Runs)
  BY <1>2, Zenon DEF Around
<1>5. PICK e \in Seq(Runs) : e = <<>> /\ Len(e) = 0
  BY <1>3
<1>6. PICK y \in Seq(Runs) : y = <<x>>
  BY <1>4
<1>7. Single1(x)
  BY <1>3, SingleRun
<1>8. Span(e) = 0 /\ \A w \in Nat : Ones(e, w) = {}
  BY <1>5, SpanProperties, OnesProperties
<1>9. PICK R2 \in Seq(Runs) : Rowed(R2, P, N, e)
  BY RowElements
<1>10. R2 = Row(P, N, e) /\ Len(R2) = Len(P) + Len(N) + Len(e)
       /\ \A k \in (Len(P) + 1)..(Len(P) + Len(N)) : R2[k] = N[k - Len(P)]
  BY <1>9, Zenon DEF Rowed
<1>11. Canon(R2)
  <2>1. SameEnds(y, N, e)
    BY <1>5, <1>6, <1>7 DEF SameEnds, Single1
  <2>2. Canon(Row(P, y, e))
    BY <1>4, <1>5, <1>6
  <2> QED
    BY <1>10, <2>1, <2>2, CanonExchange
<1>12. PICK w \in Nat : w = v + Span(P)
  BY SpanProperties
<1>13. PICK s \in Nat : s = Span(N)
  BY SpanProperties
<1>14. /\ Span(R2) = Span(P) + s + 0
       /\ Ones(R2, v) = Ones(P, v) \cup Ones(N, w) \cup {}
  <2>1. /\ Span(Row(P, N, e)) = Span(P) + Span(N) + Span(e)
        /\ Ones(Row(P, N, e), v) = Ones(P, v) \cup Ones(N, v + Span(P)) \cup Ones(e, v + Span(P) + Span(N))
    BY OnesRow
  <2>2. Ones(e, v + Span(P) + Span(N)) = {}
    <3>1. v + Span(P) + Span(N) \in Nat
      <4>1. Span(P) \in Nat /\ Span(N) \in Nat
        BY SpanProperties
      <4> QED
        BY <4>1
    <3> QED
      BY <1>8, <3>1
  <2> QED
    BY <1>8, <1>10, <1>12, <1>13, <2>1, <2>2
<1>15. /\ Span(R) = Span(P) + x.run + 0
       /\ Ones(R, v) = Ones(P, v) \cup Ivl(x, w) \cup {}
  <2>1. /\ Span(Row(P, y, e)) = Span(P) + Span(y) + Span(e)
        /\ Ones(Row(P, y, e), v) = Ones(P, v) \cup Ones(y, v + Span(P)) \cup Ones(e, v + Span(P) + Span(y))
    BY OnesRow
  <2>2. Ones(e, v + Span(P) + Span(y)) = {}
    <3>1. v + Span(P) + Span(y) \in Nat
      <4>1. Span(P) \in Nat /\ Span(y) \in Nat
        BY SpanProperties
      <4> QED
        BY <4>1
    <3> QED
      BY <1>8, <3>1
  <2>3. Span(y) = x.run /\ Ones(y, w) = Ivl(x, w)
    BY <1>6, <1>7, Zenon DEF Single1
  <2> QED
    BY <1>4, <1>5, <1>6, <1>8, <1>12, <2>1, <2>2, <2>3
<1>16. Span(P) \in Nat /\ x.run \in Nat
  BY <1>3, SpanProperties, RunsType
<1>17. Span(R2) = Span(P) + Span(N) /\ Span(R) = Span(P) + x.run
  <2>1. PICK i \in Nat : i = Span(P)
    BY <1>16
  <2>2. PICK j \in Nat : j = x.run
    BY <1>16
  <2>3. i + s + 0 = i + s /\ i + j + 0 = i + j
    OBVIOUS
  <2> QED
    BY <1>13, <1>14, <1>15, <2>1, <2>2, <2>3, Zenon
<1>18. /\ Ones(R2, v) = Ones(P, v) \cup Ones(N, v + Span(P))
       /\ Ones(R, v) = Ones(P, v) \cup Ivl(x, v + Span(P))
  <2>1. \A S : S \cup {} = S
    OBVIOUS
  <2> QED
    BY <1>12, <1>14, <1>15, <2>1, Zenon
<1>19. /\ Len(R2) = Len(P) + Len(N) /\ \A k \in 1..Len(N) : R2[Len(P) + k] = N[k]
  <2>1. Len(P) \in Nat /\ Len(N) \in Nat
    BY LenProperties
  <2>2. \A k \in 1..Len(N) : Len(P) + k \in (Len(P) + 1)..(Len(P) + Len(N)) /\ (Len(P) + k) - Len(P) = k
    BY <2>1
  <2>3. Len(R2) = Len(P) + Len(N)
    BY <1>5, <1>10, <2>1
  <2> QED
    BY <1>10, <2>2, <2>3
<1>20. R2 = Row(P, N, <<>>)
  BY <1>5, <1>10
<1> QED
  BY <1>4, <1>11, <1>17, <1>18, <1>19, <1>20, Zenon DEF LastExchanged

(* The coming to the end of the string: the last run and the terminator.   *)
ComesToEnd(R, v, B, index, x, b, r, w) ==
  /\ x = R[Len(R)] /\ x \in Runs /\ x.bit = b /\ x.run = r /\ w = Val(R, v, Len(R)) /\ r # 0
  /\ Last(B).value = w + r /\ Last(B).at = 1 + Len(Coded(R)) /\ w + r <= index
  /\ v + Span(R) = w + r /\ At(R, Len(R)) + blocklength(r) = 1 + Len(Coded(R))
  /\ B[Len(B) - 1].bit = b /\ B[Len(B) - 1].run = r /\ B[Len(B) - 1].at = At(R, Len(R))
  /\ B[Len(B) - 1].value = w
  /\ blockend(B[Len(B) - 1]) = At(R, Len(R)) + blocklength(r)
  /\ R # <<>> /\ Canon(R) /\ v < index /\ 2 * index <= MaxRun

(* A position that no run covers lies behind the last run. *)
LEMMA EndsAt ==
  ASSUME NEW R \in Seq(Runs), NEW v \in Nat, NEW index \in Nat, NEW B, B = BlocksFor(R, v),
         Hit(R, v, index, 1, Len(R) + 1)
  PROVE  \E x \in Runs, b \in 0..1, r \in Nat, w \in Nat : ComesToEnd(R, v, B, index, x, b, r, w)
<1>1. Canon(R) /\ v < index /\ 2 * index <= MaxRun /\ Val(R, v, Len(R) + 1) <= index
  BY Zenon DEF Hit
<1>2. R # <<>>
  BY <1>1 DEF Canon
<1>3. PICK n \in 1..Len(R) : n = Len(R) /\ n \in 1..(Len(R) + 1) /\ (Len(R) + 1) - 1 = n
  <2>1. Len(R) \in Nat /\ Len(R) # 0
    BY <1>2, LenProperties, EmptySeq
  <2> QED
    BY <2>1
<1>4. PICK x \in Runs, b \in 0..1, r \in Nat, w \in Nat : Shape(R, v, n, x, b, r, w)
  BY ShapeOf
<1>5. x = R[n] /\ x.bit = b /\ x.run = r /\ w = Val(R, v, n) /\ r # 0
  BY <1>4, Zenon DEF Shape
<1>6. /\ Val(R, v, n + 1) = Val(R, v, n) + R[n].run /\ At(R, n + 1) = At(R, n) + blocklength(R[n].run)
      /\ At(R, Len(R) + 1) = 1 + Len(Coded(R)) /\ Val(R, v, Len(R) + 1) = v + Span(R)
  BY Places1
<1>7. /\ Len(B) = Len(R) + 1 /\ Last(B) = B[Len(R) + 1]
      /\ B[Len(R) + 1].at = At(R, Len(R) + 1) /\ B[Len(R) + 1].value = Val(R, v, Len(R) + 1)
  BY Fields
<1>8. /\ B[n].at = At(R, n) /\ B[n].value = Val(R, v, n)
      /\ B[n].length = blocklength(R[n].run) /\ B[n].bit = R[n].bit /\ B[n].run = R[n].run
      /\ blockend(B[n]) = At(R, n) + blocklength(R[n].run)
  BY BlockAt
<1>9. B[Len(B) - 1] = B[n]
  BY <1>3, <1>7, Zenon
<1> QED
  BY <1>1, <1>2, <1>3, <1>5, <1>6, <1>7, <1>8, <1>9, Zenon DEF ComesToEnd

(* Behind a run of 0s. *)
LEMMA BehindZerosArm ==
  ASSUME NEW R \in Seq(Runs), NEW T \in Terminators, NEW v \in Nat, NEW index \in Nat,
         NEW B, B = BlocksFor(R, v), NEW t \in Terminators,
         NEW x \in Runs, NEW r \in Nat, NEW w \in Nat, ComesToEnd(R, v, B, index, x, 0, r, w)
  PROVE  Rewrites(R, v, index, 1, r - 1, AddAtEnd(Coded(R) \o T, B, index, t))
<1>1. /\ x = R[Len(R)] /\ x.bit = 0 /\ x.run = r /\ w = Val(R, v, Len(R))
      /\ B[Len(B) - 1].bit = 0 /\ B[Len(B) - 1].run = r /\ B[Len(B) - 1].at = At(R, Len(R))
      /\ B[Len(B) - 1].value = w
      /\ blockend(B[Len(B) - 1]) = At(R, Len(R)) + blocklength(r)
      /\ Canon(R) /\ R # <<>>
  BY Zenon DEF ComesToEnd
<1>2. r # 0 /\ w + r <= index /\ v < index
  BY Zenon DEF ComesToEnd
<1>3. PICK most \in Nat : most = MaxRun /\ 1 <= most
  BY MaxRunType
<1>4. 2 * index <= most
  BY <1>3, Zenon DEF ComesToEnd
<1>5. PICK g \in Nat : g = r + index - w - 1 /\ g # 0 /\ g <= most /\ w + g = index + (r - 1) /\ w + g + 1 <= 2 * index
  <2>1. /\ r + index - w - 1 \in Nat /\ r + index - w - 1 # 0 /\ r + index - w - 1 <= most
        /\ w + (r + index - w - 1) = index + (r - 1) /\ w + (r + index - w - 1) + 1 <= 2 * index
    BY <1>2, <1>4
  <2> QED
    BY <2>1
<1>6. PICK a \in Runs : a.bit = 0 /\ a.run = g
  BY <1>3, <1>5, RunsMade
<1>7. PICK c \in Runs : c.bit = 1 /\ c.run = 1
  <2>1. 1 \in Nat /\ 1 # 0 /\ 1 \in 0..1
    OBVIOUS
  <2> QED
    BY <1>3, <2>1, RunsMade
<1>8. Pair(a, c) /\ Single1(x)
  BY SingleRun, PairOfRuns
<1>9. PICK N \in Seq(Runs) : /\ N = <<a, c>> /\ N # <<>> /\ Alternates(N) /\ Len(N) = 2 /\ N[1] = a /\ N[2] = c
                             /\ Span(N) = g + 1 /\ Ones(N, w) = Ivl(a, w) \cup Ivl(c, w + g)
                             /\ Coded(N) = encode(0, g) \o encode(1, 1)
  <2>1. 0 # 1
    OBVIOUS
  <2> QED
    BY <1>6, <1>7, <1>8, <2>1, Zenon DEF Pair
<1>10. PICK P, R2 \in Seq(Runs) : LastExchanged(P, x, N, v, R, R2)
  <2>1. N[1].bit = x.bit
    BY <1>1, <1>6, <1>9, Zenon
  <2> QED
    BY <1>1, <1>9, <2>1, LastExchange
<1>11. /\ R = Row(P, <<x>>, <<>>) /\ R2 = Row(P, N, <<>>) /\ Canon(R2)
       /\ w = v + Span(P) /\ At(R, Len(R)) = 1 + Len(Coded(P))
       /\ Ones(R, v) = Ones(P, v) \cup Ivl(x, w) /\ Ones(R2, v) = Ones(P, v) \cup Ones(N, w)
       /\ Span(R2) = Span(P) + (g + 1) /\ Len(R2) = Len(P) + 2
       /\ \A k \in 1..2 : R2[Len(P) + k] = N[k]
  BY <1>1, <1>9, <1>10, Zenon DEF LastExchanged
<1>12. Span(P) \in Nat /\ Len(P) \in Nat
  BY SpanProperties, LenProperties
<1>13. v + Span(R2) = w + g + 1
  <2>1. PICK i \in Nat : i = Span(P)
    BY <1>12
  <2>2. v + (i + (g + 1)) = (v + i) + g + 1
    OBVIOUS
  <2> QED
    BY <1>11, <2>1, <2>2, Zenon
<1>14. Ones(R2, v) = Changed(Ones(R, v), index + (r - 1), 1)
  <2>1. Ivl(x, w) = {} /\ Ivl(a, w) = {} /\ Ivl(c, w + g) = (w + g)..(w + g + 1 - 1)
    BY <1>1, <1>6, <1>7 DEF Ivl
  <2>2. (w + g)..(w + g + 1 - 1) = {w + g}
    OBVIOUS
  <2>3. \A S : S \cup {} = S /\ {} \cup S = S
    OBVIOUS
  <2>4. Ones(R2, v) = Ones(R, v) \cup {index + (r - 1)}
    BY <1>5, <1>9, <1>11, <2>1, <2>2, <2>3, Zenon
  <2> QED
    BY <2>4, Zenon DEF Changed
<1>15. ASSUME NEW m \in Nat, index <= m
       PROVE  ZerosBelow(R2, v, m)
  <2>l. PICK l \in Nat : l = Len(P)
    BY <1>12
  <2>m. Len(R2) = l + 2
    BY <1>11, <2>l, Zenon
  <2>e. PICK e \in Nat : e = l + 1
    OBVIOUS
  <2>f. e + 1 = l + 2 /\ (l + 2) - 1 = e /\ e \in 1..(l + 2) /\ e + 1 \in 1..(l + 2)
    BY <2>e
  <2>1. /\ e = Len(P) + 1 /\ Len(R2) - 1 = e /\ e \in 1..Len(R2) /\ e + 1 = Len(R2)
        /\ e + 1 \in 1..Len(R2) /\ e + 1 = Len(P) + 2
    BY <2>l, <2>m, <2>e, <2>f, Zenon
  <2>2. R2[e] = a /\ R2[e + 1] = c
    <3>1. 1 \in 1..2 /\ 2 \in 1..2
      OBVIOUS
    <3> QED
      BY <1>9, <1>11, <2>1, <3>1, Zenon
  <2>3. /\ Val(R2, v, e + 1) = Val(R2, v, e) + R2[e].run
        /\ Val(R2, v, Len(R2) + 1) = Val(R2, v, e + 1) + R2[e + 1].run
        /\ Val(R2, v, Len(R2) + 1) = v + Span(R2)
    <3>1. /\ \A n \in 1..Len(R2) : Val(R2, v, n + 1) = Val(R2, v, n) + R2[n].run
          /\ Val(R2, v, Len(R2) + 1) = v + Span(R2)
      BY Places1
    <3> QED
      BY <2>1, <3>1, Zenon
  <2>4. PICK ve \in Nat : ve = Val(R2, v, e)
    <3>1. e \in 1..(Len(R2) + 1)
      BY <2>1
    <3> QED
      BY <3>1, Places1
  <2>5. (ve + g) + 1 = w + g + 1
    BY <1>6, <1>7, <1>13, <2>1, <2>2, <2>3, <2>4, Zenon
  <2>6. ve = w
    BY <2>5
  <2>7. ASSUME NEW n \in 1..(Len(R2) - 1)
        PROVE  Val(R2, v, n) < m
    <3>1. n \in 1..e
      BY <2>1
    <3>2. CASE n = e
      <4>1. w < m
        BY <1>2, <1>15
      <4>2. Val(R2, v, n) = w
        BY <2>4, <2>6, <3>2, Zenon
      <4> QED
        BY <4>1, <4>2, Zenon
    <3>3. CASE n # e
      <4>1. n \in 1..Len(R2) /\ e \in (n + 1)..(Len(R2) + 1) /\ n \in 1..(Len(R2) + 1)
        BY <2>1, <3>1, <3>3
      <4>2. Val(R2, v, n) + R2[n].run <= Val(R2, v, e)
        BY <4>1, ValAscends
      <4>3. PICK i \in Nat : i = Val(R2, v, n)
        BY <4>1, Places1
      <4>4. PICK j \in Nat : j = R2[n].run
        BY <4>1, ElementOfSeq, RunsType
      <4>5. i + j <= w
        BY <2>4, <2>6, <4>2, <4>3, <4>4, Zenon
      <4>6. i < m
        BY <1>2, <1>15, <4>5
      <4> QED
        BY <4>3, <4>6
    <3> QED
      BY <3>2, <3>3
  <2> QED
    BY <2>7, Zenon DEF ZerosBelow
<1>16. Becomes(R, v, index, 1, r - 1, R2)
  <2>1. v + Span(R2) <= 2 * index
    BY <1>5, <1>13
  <2> QED
    BY <1>11, <1>14, <1>15, <2>1, Zenon DEF Becomes
<1>17. Replaced(Coded(R) \o T, At(R, Len(R)), At(R, Len(R)) + blocklength(r), Coded(N)) = Coded(R2) \o T
  <2>1. Len(Coded(<<x>>)) = blocklength(r) /\ <<x>> \in Seq(Runs)
    BY <1>1, <1>8, Zenon DEF Single1
  <2>2. PICK y \in Seq(Runs) : y = <<x>>
    BY <2>1
  <2>3. PICK z \in Seq(Bytes) : z = T
    BY TerminatorBytes
  <2>4. PICK e \in Seq(Runs) : e = <<>>
    BY EmptySeq
  <2>5. Exchanges(P, y, N, e, z)
    BY CodedExchange
  <2> QED
    BY <1>11, <2>1, <2>2, <2>3, <2>4, <2>5, Zenon DEF Exchanges
<1>18. AddAtEnd(Coded(R) \o T, B, index, t) = Coded(R2) \o T
  BY <1>1, <1>5, <1>9, <1>17, Zenon DEF AddAtEnd
<1> QED
  BY <1>16, <1>18, Zenon DEF Rewrites

(* The first and the last of three sequences in a row. *)
LEMMA FrontOfRow ==
  ASSUME NEW A, NEW x \in Seq(A), NEW y \in Seq(A), NEW z \in Seq(A)
  PROVE  SubSeq(Row(x, y, z), 1, Len(x)) = x
<1>a. PICK r \in Seq(A) : Rowed(r, x, y, z)
  BY RowElements
<1>1. r = Row(x, y, z) /\ \A k \in 1..Len(x) : r[k] = x[k]
  BY <1>a, Zenon DEF Rowed
<1>n. PICK i \in Nat : i = Len(x)
  BY LenProperties
<1>2. \A k \in 1..i : r[k] \in A
  BY <1>n, <1>1, ElementOfSeq
<1>3. /\ SubSeq(r, 1, i) \in Seq(A) /\ Len(SubSeq(r, 1, i)) = IF 1 <= i THEN i - 1 + 1 ELSE 0
      /\ \A k \in 1..(i - 1 + 1) : SubSeq(r, 1, i)[k] = r[1 + k - 1]
  <2>1. 1 \in Int /\ i \in Int
    OBVIOUS
  <2> QED
    BY <1>2, <2>1, SubSeqProperties
<1>4. Len(SubSeq(r, 1, i)) = i
  BY <1>3
<1>5. \A k \in 1..i : SubSeq(r, 1, i)[k] = x[k]
  <2> TAKE k \in 1..i
  <2>1. k \in 1..(i - 1 + 1) /\ 1 + k - 1 = k
    OBVIOUS
  <2> QED
    BY <1>n, <1>1, <1>3, <2>1
<1>6. SubSeq(r, 1, i) = x
  BY <1>n, <1>3, <1>4, <1>5, SeqEqual
<1> QED
  BY <1>1, <1>n, <1>6, Zenon

(* The last of three parts in a row. *)
LEMMA BackOfRow ==
  ASSUME NEW A, NEW x \in Seq(A), NEW y \in Seq(A), NEW z \in Seq(A)
  PROVE  SubSeq(Row(x, y, z), Len(x) + Len(y) + 1, Len(Row(x, y, z))) = z
<1>a. PICK r \in Seq(A) : Rowed(r, x, y, z)
  BY RowElements
<1>1. /\ r = Row(x, y, z) /\ Len(r) = Len(x) + Len(y) + Len(z)
      /\ \A k \in (Len(x) + Len(y) + 1)..Len(r) : r[k] = z[k - (Len(x) + Len(y))]
  BY <1>a, Zenon DEF Rowed
<1>i. PICK i \in Nat : i = Len(x) + Len(y)
  <2>1. Len(x) \in Nat /\ Len(y) \in Nat
    BY LenProperties
  <2> QED
    BY <2>1
<1>l. PICK l \in Nat : l = Len(z)
  BY LenProperties
<1>2. Len(r) = i + l /\ \A k \in (i + 1)..(i + l) : r[k] = z[k - i]
  BY <1>1, <1>i, <1>l
<1>m. PICK m \in Int : m = i + 1
  OBVIOUS
<1>n. PICK n \in Int : n = i + l
  OBVIOUS
<1>3. \A k \in m..n : r[k] \in A
  <2> TAKE k \in m..n
  <2>1. k \in (i + 1)..(i + l) /\ k - i \in 1..l
    BY <1>m, <1>n
  <2> QED
    BY <1>2, <1>l, <2>1, ElementOfSeq
<1>4. /\ SubSeq(r, m, n) \in Seq(A) /\ Len(SubSeq(r, m, n)) = IF m <= n THEN n - m + 1 ELSE 0
      /\ \A k \in 1..(n - m + 1) : SubSeq(r, m, n)[k] = r[m + k - 1]
  BY <1>3, SubSeqProperties
<1>5. Len(SubSeq(r, m, n)) = l
  BY <1>m, <1>n, <1>4
<1>6. \A k \in 1..l : SubSeq(r, m, n)[k] = z[k]
  <2> TAKE k \in 1..l
  <2>1. k \in 1..(n - m + 1) /\ m + k - 1 \in (i + 1)..(i + l) /\ (m + k - 1) - i = k
    BY <1>m, <1>n
  <2> QED
    BY <1>2, <1>4, <2>1
<1>7. SubSeq(r, m, n) = z
  BY <1>l, <1>4, <1>5, <1>6, SeqEqual
<1> QED
  BY <1>1, <1>i, <1>2, <1>m, <1>n, <1>7, Zenon

(* A replacement at the very end. *)
LEMMA ReplacedTail ==
  ASSUME NEW p \in Seq(Bytes), NEW m \in Seq(Bytes), NEW T \in Terminators, NEW new
  PROVE  Replaced(Row(p, m, T), Len(p) + 1, Len(p) + Len(m) + 2, new) = Row(p, new, <<>>)
<1>1. PICK e \in Seq(Bytes) : e = <<>> /\ Len(e) = 0
  BY EmptySeq
<1>2. PICK i \in Nat : i = Len(p)
  BY LenProperties
<1>3. PICK j \in Nat : j = Len(m)
  BY LenProperties
<1>4. ASSUME NEW z \in Seq(Bytes), Len(z) \in 0..1
      PROVE  Replaced(Row(p, m, z), i + 1, i + j + 2, new) = Row(p, new, <<>>)
  <2>1. PICK k \in 0..1 : k = Len(z)
    BY <1>4
  <2>2. Row(p, m, z) \in Seq(Bytes) /\ Len(Row(p, m, z)) = i + j + k
    <3>1. Row(p, m, z) \in Seq(Bytes) /\ Len(Row(p, m, z)) = Len(p) + Len(m) + Len(z)
      BY MiddleOf
    <3> QED
      BY <1>2, <1>3, <2>1, <3>1, Zenon
  <2>3. PICK d \in Seq(Bytes) : d = Row(p, m, z) /\ Len(d) = i + j + k
    BY <2>2
  <2>4. SubSeq(d, 1, i) = p
    BY <1>2, <2>3, FrontOfRow
  <2>5. SubSeq(d, i + j + 2, Len(d)) = <<>>
    <3>1. PICK a \in Int : a = i + j + 2
      OBVIOUS
    <3>2. PICK b \in Int : b = i + j + k /\ b < a
      BY <3>1
    <3>3. SubSeq(d, a, b) = <<>>
      BY <3>2, SubSeqEmpty
    <3> QED
      BY <2>3, <3>1, <3>2, <3>3, Zenon
  <2>6. (i + 1) - 1 = i
    OBVIOUS
  <2> QED
    BY <2>3, <2>4, <2>5, <2>6, Zenon DEF Replaced, Row
<1>5. T \in Seq(Bytes) /\ Len(T) \in 0..1
  <2>1. T \in Seq(Bytes)
    BY TerminatorBytes
  <2>2. Len(<<0>>) \in 0..1 /\ Len(<<>>) \in 0..1
    BY EmptySeq
  <2>3. T = <<>> \/ T = <<0>>
    BY DEF Terminators
  <2> QED
    BY <2>1, <2>2, <2>3, Zenon
<1>6. Replaced(Row(p, m, T), i + 1, i + j + 2, new) = Row(p, new, <<>>)
  BY <1>4, <1>5
<1> QED
  BY <1>2, <1>3, <1>6, Zenon

(* What remains to be seen of a rewriting that lands where it should. *)
Lands(R, v, index, newval, R2) ==
  /\ Canon(R2) /\ Ones(R2, v) = Changed(Ones(R, v), index, newval)
  /\ v + Span(R2) <= v + Span(R) \/ v + Span(R2) <= 2 * index

(* A bit set behind all runs leaves the others as they are. *)
LEMMA Landed ==
  ASSUME NEW R \in Seq(Runs), NEW R2 \in Seq(Runs), NEW v \in Nat, NEW index \in Nat, NEW newval,
         Lands(R, v, index, newval, R2)
  PROVE  Becomes(R, v, index, newval, 0, R2)
<1>1. /\ Canon(R2) /\ Ones(R2, v) = Changed(Ones(R, v), index, newval)
      /\ v + Span(R2) <= v + Span(R) \/ v + Span(R2) <= 2 * index
  BY Zenon DEF Lands
<1>2. index + 0 = index
  OBVIOUS
<1>3. ASSUME NEW m \in Nat, index <= m, \A b \in Ones(R, v) : b <= m
      PROVE  ZerosBelow(R2, v, m)
  <2>1. \A b \in Ones(R2, v) : b <= m
    <3>1. Changed(Ones(R, v), index, newval) \subseteq Ones(R, v) \cup {index}
      BY Zenon DEF Changed
    <3> QED
      BY <1>1, <1>3, <3>1, Zenon
  <2>2. Alternates(R2)
    BY <1>1, Zenon DEF Canon
  <2> QED
    BY <2>1, <2>2, ZerosFollowed
<1> QED
  BY <1>1, <1>2, <1>3, Zenon DEF Becomes

(* A run one position longer is at most one byte wider. *)
LEMMA WidthGrows ==
  ASSUME NEW r \in Nat
  PROVE  blocklength(r + 1) = blocklength(r) \/ blocklength(r + 1) = blocklength(r) + 1
<1>1. /\ blocklength(r) = IF r < 32 THEN 1 ELSE IF r < 8192 THEN 2 ELSE IF r < 2097152 THEN 3 ELSE 4
      /\ blocklength(r + 1) = IF r + 1 < 32 THEN 1 ELSE IF r + 1 < 8192 THEN 2
                              ELSE IF r + 1 < 2097152 THEN 3 ELSE 4
  <2>1. r + 1 \in Nat
    OBVIOUS
  <2> QED
    BY <2>1, BlockLengths
<1> QED
  BY SMT, <1>1

(* An interval one position longer. *)
LEMMA IntervalGrows ==
  \A w, r \in Nat : w..(w + r) = (w..(w + r - 1)) \cup {w + r}
OBVIOUS

(* The last run of 1s, extended. *)
AtItsEnd(w, r, index) == w + r = index
(* Extending a last run of 1s sets the bit asked for, taking the           *)
(* terminator along if it gets wider.                                      *)
LEMMA ExtendOnesArm ==
  ASSUME NEW R \in Seq(Runs), NEW T \in Terminators, NEW v \in Nat, NEW index \in Nat,
         NEW B, B = BlocksFor(R, v), NEW t \in Terminators,
         NEW x \in Runs, NEW r \in Nat, NEW w \in Nat, ComesToEnd(R, v, B, index, x, 1, r, w),
         AtItsEnd(w, r, index)
  PROVE  Rewrites(R, v, index, 1, 0, AddAtEnd(Coded(R) \o T, B, index, t))
<1>1. /\ x = R[Len(R)] /\ x.bit = 1 /\ x.run = r /\ w = Val(R, v, Len(R))
      /\ B[Len(B) - 1].bit = 1 /\ B[Len(B) - 1].run = r /\ B[Len(B) - 1].at = At(R, Len(R))
      /\ Last(B).value = w + r /\ w + r = index
      /\ Canon(R) /\ R # <<>> /\ v + Span(R) = w + r
  BY Zenon DEF ComesToEnd, AtItsEnd
<1>2. r # 0
  BY Zenon DEF ComesToEnd
<1>3. PICK most \in Nat : most = MaxRun /\ 1 <= most
  BY MaxRunType
<1>4. 2 * index <= most /\ v < index
  BY <1>3, Zenon DEF ComesToEnd
<1>5. PICK s \in Nat : s = r + 1 /\ s # 0 /\ s <= most
  <2>1. w + r = index
    BY <1>1
  <2>2. r + 1 <= most
    BY <1>2, <1>4, <2>1
  <2> QED
    BY <2>2
<1>6. PICK a \in Runs : a.bit = 1 /\ a.run = s
  <2>1. 1 \in 0..1
    OBVIOUS
  <2> QED
    BY <1>3, <1>5, <2>1, RunsMade
<1>7. Single1(a) /\ Single1(x)
  BY SingleRun
<1>8. PICK N \in Seq(Runs) : /\ N = <<a>> /\ N # <<>> /\ Alternates(N) /\ N[1] = a
                             /\ Span(N) = s /\ Ones(N, w) = Ivl(a, w) /\ Coded(N) = encode(1, s)
  BY <1>6, <1>7, Zenon DEF Single1
<1>9. PICK P, R2 \in Seq(Runs) : LastExchanged(P, x, N, v, R, R2)
  <2>1. N[1].bit = x.bit
    BY <1>1, <1>6, <1>8, Zenon
  <2> QED
    BY <1>1, <1>8, <2>1, LastExchange
<1>10. /\ R = Row(P, <<x>>, <<>>) /\ R2 = Row(P, N, <<>>) /\ Canon(R2)
       /\ w = v + Span(P) /\ At(R, Len(R)) = 1 + Len(Coded(P))
       /\ Ones(R, v) = Ones(P, v) \cup Ivl(x, w) /\ Ones(R2, v) = Ones(P, v) \cup Ivl(a, w)
       /\ Span(R2) = Span(P) + s
  BY <1>1, <1>8, <1>9, Zenon DEF LastExchanged
<1>11. Becomes(R, v, index, 1, 0, R2)
  <2>1. v + Span(R2) <= 2 * index
    <3>1. PICK i \in Nat : i = Span(P)
      BY SpanProperties
    <3>2. w = v + i /\ w + r = index
      BY <1>1, <1>10, <3>1, Zenon
    <3>3. v + (i + s) <= 2 * index
      BY <1>4, <1>5, <3>2
    <3> QED
      BY <1>10, <3>1, <3>3, Zenon
  <2>2. Ones(R2, v) = Changed(Ones(R, v), index, 1)
    <3>1. Ivl(x, w) = w..(w + r - 1) /\ Ivl(a, w) = w..(w + s - 1)
      BY <1>1, <1>6 DEF Ivl
    <3>2. w..(w + s - 1) = (w..(w + r - 1)) \cup {w + r}
      <4>1. w + s - 1 = w + r
        BY <1>5
      <4>2. w..(w + r) = (w..(w + r - 1)) \cup {w + r}
        BY IntervalGrows
      <4> QED
        BY <4>1, <4>2, Zenon
    <3>3. Ones(R2, v) = Ones(R, v) \cup {index}
      BY <1>1, <1>10, <3>1, <3>2, Zenon
    <3> QED
      BY <3>3, Zenon DEF Changed
  <2>3. Lands(R, v, index, 1, R2)
    BY <1>10, <2>1, <2>2, Zenon DEF Lands
  <2> QED
    BY <2>3, Landed
<1>12. PICK l \in Nat : l = blocklength(r)
  BY BlockLengths
<1>13. PICK p \in Seq(Bytes) : p = Coded(P)
  BY CodedProperties
<1>14. PICK y \in Seq(Runs) : y = <<x>>
  BY <1>7, Zenon DEF Single1
<1>15. PICK m \in Seq(Bytes) : m = Coded(y) /\ Len(m) = l
  <2>1. Coded(y) \in Seq(Bytes)
    BY CodedProperties
  <2>2. Len(Coded(y)) = l
    BY <1>1, <1>7, <1>12, <1>14, Zenon DEF Single1
  <2> QED
    BY <2>1, <2>2
<1>16. PICK z \in Seq(Bytes) : z = T
  BY TerminatorBytes
<1>17. PICK e \in Seq(Runs) : e = <<>>
  BY EmptySeq
<1>18. AddAtEnd(Coded(R) \o T, B, index, t)
         = Replaced(Coded(R) \o T, 1 + Len(Coded(P)), 1 + Len(Coded(P)) + blocklength(s), Coded(N))
  <2>1. 1 # 0
    OBVIOUS
  <2> QED
    BY <1>1, <1>5, <1>8, <1>10, <2>1, Zenon DEF AddAtEnd
<1>19. blocklength(s) = l \/ blocklength(s) = l + 1
  BY <1>5, <1>12, WidthGrows, Zenon
<1>20. CASE blocklength(s) = l
  <2>1. Exchanges(P, y, N, e, z)
    BY CodedExchange
  <2>2. AddAtEnd(Coded(R) \o T, B, index, t) = Coded(R2) \o T
    BY <1>10, <1>14, <1>15, <1>16, <1>17, <1>18, <1>20, <2>1, Zenon DEF Exchanges
  <2> QED
    BY <1>11, <2>2, Zenon DEF Rewrites
<1>21. CASE blocklength(s) = l + 1
  <2>1. Coded(R) \o T = Row(p, m, T)
    <3>1. TailCoded(P, y, e, z)
      BY CodedTail
    <3>2. Coded(e) \o z = z
      <4>1. Coded(e) = <<>>
        BY <1>17, CodedProperties
      <4> QED
        BY <4>1, ConcatEmptySeq
    <3> QED
      BY <1>10, <1>13, <1>14, <1>15, <1>16, <1>17, <3>1, <3>2, Zenon DEF TailCoded
  <2>2. Replaced(Row(p, m, T), Len(p) + 1, Len(p) + Len(m) + 2, Coded(N)) = Row(p, Coded(N), <<>>)
    BY ReplacedTail
  <2>3. Len(p) + 1 = 1 + Len(p) /\ Len(p) + Len(m) + 2 = 1 + Len(p) + (l + 1)
    <3>1. PICK i \in Nat : i = Len(p)
      BY LenProperties
    <3>2. i + 1 = 1 + i /\ i + l + 2 = 1 + i + (l + 1)
      OBVIOUS
    <3> QED
      BY <1>15, <3>1, <3>2, Zenon
  <2>4. Row(p, Coded(N), <<>>) = Coded(R2) \o <<>>
    <3>1. PICK q \in Seq(Bytes) : q = <<>>
      BY EmptySeq
    <3>2. TailCoded(P, N, e, q)
      BY CodedTail
    <3>3. Coded(e) \o q = q
      <4>1. Coded(e) = <<>>
        BY <1>17, CodedProperties
      <4> QED
        BY <4>1, ConcatEmptySeq
    <3> QED
      BY <1>10, <1>13, <1>17, <3>1, <3>2, <3>3, Zenon DEF TailCoded
  <2>5. AddAtEnd(Coded(R) \o T, B, index, t) = Coded(R2) \o <<>>
    BY <1>13, <1>18, <1>21, <2>1, <2>2, <2>3, <2>4, Zenon
  <2>6. <<>> \in Terminators
    BY Zenon DEF Terminators
  <2> QED
    BY <1>11, <2>5, <2>6, Zenon DEF Rewrites
<1> QED
  BY <1>19, <1>20, <1>21

(* What is put in the place of a terminator, or before the end. *)
LEMMA ReplacedEnd ==
  ASSUME NEW p \in Seq(Bytes), NEW m \in Seq(Bytes), NEW T \in Terminators, NEW t \in Terminators
  PROVE  \E z \in Terminators :
           Replaced(p \o T, Len(p) + 1, Len(p) + 1 + Len(t), m \o t) = (p \o m) \o z
<1>1. PICK e \in Seq(Bytes) : e = <<>> /\ Len(e) = 0
  BY EmptySeq
<1>2. PICK s \in Seq(Bytes) : s = T
  BY TerminatorBytes
<1>3. PICK q \in Seq(Bytes) : q = m \o t
  <2>1. t \in Seq(Bytes)
    BY TerminatorBytes
  <2> QED
    BY <2>1, ConcatProperties
<1>4. p \o T = Row(p, e, s)
  <2>1. p \o e = p
    BY <1>1, ConcatEmptySeq
  <2> QED
    BY <1>2, <2>1, Zenon DEF Row
<1>5. PICK i \in Nat : i = Len(p)
  BY LenProperties
<1>6. CASE t = <<>>
  <2>1. Replaced(Row(p, e, s), Len(p) + 1, Len(p) + Len(e) + 1, q) = Row(p, q, s)
    BY ReplacedMiddle
  <2>2. Len(p) + Len(e) + 1 = Len(p) + 1 + Len(t)
    <3>1. i + 0 + 1 = i + 1 + 0
      OBVIOUS
    <3> QED
      BY <1>1, <1>5, <1>6, <3>1, Zenon
  <2>3. q = m
    <3>1. m \o e = m
      BY <1>1, ConcatEmptySeq
    <3> QED
      BY <1>1, <1>3, <1>6, <3>1, Zenon
  <2> QED
    BY <1>2, <1>3, <1>4, <2>1, <2>2, <2>3, Zenon DEF Row
<1>7. CASE t = <<0>>
  <2>1. Replaced(Row(p, e, T), Len(p) + 1, Len(p) + Len(e) + 2, q) = Row(p, q, <<>>)
    BY ReplacedTail
  <2>2. Len(p) + Len(e) + 2 = Len(p) + 1 + Len(t)
    <3>1. i + 0 + 2 = i + 1 + 1
      OBVIOUS
    <3>2. Len(<<0>>) = 1
      OBVIOUS
    <3> QED
      BY <1>1, <1>5, <1>7, <3>1, <3>2, Zenon
  <2>3. Row(p, q, <<>>) = (p \o m) \o t
    <3>1. t \in Seq(Bytes)
      BY TerminatorBytes
    <3>2. (p \o m) \o t = p \o (m \o t)
      BY <3>1, ConcatAssociative
    <3>3. PICK pq \in Seq(Bytes) : pq = p \o q
      BY ConcatProperties
    <3>4. pq \o e = pq
      BY <1>1, ConcatEmptySeq
    <3> QED
      BY <1>1, <1>3, <3>2, <3>3, <3>4, Zenon DEF Row
  <2> QED
    BY <1>2, <1>3, <1>4, <2>1, <2>2, <2>3, Zenon
<1>8. t = <<>> \/ t = <<0>>
  BY Zenon DEF Terminators
<1> QED
  BY <1>6, <1>7, <1>8

FourJoined(q, x, y, z) == q \o ((x \o y) \o z) = (q \o x) \o (y \o z)
(* Four parts in a row. *)
LEMMA FourInRow ==
  ASSUME NEW A, NEW q \in Seq(A), NEW x \in Seq(A), NEW y \in Seq(A), NEW z \in Seq(A)
  PROVE  FourJoined(q, x, y, z)
<1>1. (x \o y) \o z = x \o (y \o z)
  BY ConcatAssociative
<1>2. PICK d \in Seq(A) : d = y \o z
  BY ConcatProperties
<1>3. (q \o x) \o d = q \o (x \o d)
  BY ConcatAssociative
<1> QED
  BY <1>1, <1>2, <1>3, Zenon DEF FourJoined

(* Runs of 0s and of 1s behind a last run of 1s. *)
BeyondEnd(w, r, index) == w + r # index
(* A separator and a new 1 behind a last run of 1s set the bit asked for. *)
LEMMA SeparateArm ==
  ASSUME NEW R \in Seq(Runs), NEW T \in Terminators, NEW v \in Nat, NEW index \in Nat,
         NEW B, B = BlocksFor(R, v), NEW t \in Terminators,
         NEW x \in Runs, NEW r \in Nat, NEW w \in Nat, ComesToEnd(R, v, B, index, x, 1, r, w),
         BeyondEnd(w, r, index)
  PROVE  Rewrites(R, v, index, 1, 0, AddAtEnd(Coded(R) \o T, B, index, t))
<1>1. /\ x = R[Len(R)] /\ x.bit = 1 /\ x.run = r /\ w = Val(R, v, Len(R))
      /\ B[Len(B) - 1].bit = 1
      /\ Last(B).value = w + r /\ w + r # index /\ Last(B).at = 1 + Len(Coded(R))
      /\ Canon(R) /\ R # <<>>
  BY Zenon DEF ComesToEnd, BeyondEnd
<1>2. r # 0 /\ w + r <= index /\ w + r # index
  BY Zenon DEF ComesToEnd, BeyondEnd
<1>3. PICK most \in Nat : most = MaxRun /\ 1 <= most
  BY MaxRunType
<1>4. 2 * index <= most /\ v < index
  BY <1>3, Zenon DEF ComesToEnd
<1>5. PICK g \in Nat : g = index - (w + r) /\ g # 0 /\ g <= most /\ w + r + g = index
  <2>1. index - (w + r) \in Nat /\ index - (w + r) # 0 /\ index - (w + r) <= most /\ w + r + (index - (w + r)) = index
    BY <1>2, <1>4
  <2> QED
    BY <2>1
<1>6. PICK a \in Runs : a.bit = 0 /\ a.run = g
  BY <1>3, <1>5, RunsMade
<1>7. PICK c \in Runs : c.bit = 1 /\ c.run = 1
  <2>1. 1 \in Nat /\ 1 # 0 /\ 1 \in 0..1
    OBVIOUS
  <2> QED
    BY <1>3, <2>1, RunsMade
<1>8. Triple(x, a, c) /\ Single1(x)
  BY SingleRun, TripleOfRuns
<1>9. PICK N \in Seq(Runs) : /\ N = <<x, a, c>> /\ N # <<>> /\ Alternates(N) /\ N[1] = x
                             /\ Span(N) = r + g + 1
                             /\ Ones(N, w) = Ivl(x, w) \cup Ivl(a, w + r) \cup Ivl(c, w + r + g)
                             /\ Coded(N) = encode(1, r) \o encode(0, g) \o encode(1, 1)
  <2>1. 0 # 1
    OBVIOUS
  <2> QED
    BY <1>1, <1>6, <1>7, <1>8, <2>1, Zenon DEF Triple
<1>10. PICK P, R2 \in Seq(Runs) : LastExchanged(P, x, N, v, R, R2)
  <2>1. N[1].bit = x.bit
    BY <1>9, Zenon
  <2> QED
    BY <1>1, <1>9, <2>1, LastExchange
<1>11. /\ R = Row(P, <<x>>, <<>>) /\ R2 = Row(P, N, <<>>) /\ Canon(R2)
       /\ w = v + Span(P)
       /\ Ones(R, v) = Ones(P, v) \cup Ivl(x, w)
       /\ Ones(R2, v) = Ones(P, v) \cup (Ivl(x, w) \cup Ivl(a, w + r) \cup Ivl(c, w + r + g))
       /\ Span(R2) = Span(P) + (r + g + 1)
  BY <1>1, <1>9, <1>10, Zenon DEF LastExchanged
<1>12. Becomes(R, v, index, 1, 0, R2)
  <2>1. v + Span(R2) <= 2 * index
    <3>1. PICK i \in Nat : i = Span(P)
      BY SpanProperties
    <3>2. w = v + i
      BY <1>11, <3>1, Zenon
    <3>3. v + (i + (r + g + 1)) <= 2 * index
      BY <1>4, <1>5, <3>2
    <3> QED
      BY <1>11, <3>1, <3>3, Zenon
  <2>2. Ones(R2, v) = Changed(Ones(R, v), index, 1)
    <3>1. Ivl(a, w + r) = {} /\ Ivl(c, index) = index..(index + 1 - 1)
      BY <1>6, <1>7 DEF Ivl
    <3>2. index..(index + 1 - 1) = {index}
      OBVIOUS
    <3>3. \A p, q, s : p \cup (q \cup {} \cup s) = (p \cup q) \cup s
      OBVIOUS
    <3>4. Ones(R2, v) = Ones(R, v) \cup {index}
      BY <1>5, <1>11, <3>1, <3>2, <3>3, Zenon
    <3> QED
      BY <3>4, Zenon DEF Changed
  <2>3. Lands(R, v, index, 1, R2)
    BY <1>11, <2>1, <2>2, Zenon DEF Lands
  <2> QED
    BY <2>3, Landed
<1>13. PICK p \in Seq(Bytes) : p = Coded(R)
  BY CodedProperties
<1>14. PICK m \in Seq(Bytes) : m = encode(0, g) \o encode(1, 1)
  <2>1. encode(0, g) \in Seq(Bytes) /\ encode(1, 1) \in Seq(Bytes)
    <3>1. 0 \in 0..1 /\ 1 \in 0..1 /\ 1 \in Nat
      OBVIOUS
    <3> QED
      BY <3>1, EncodeBytes
  <2> QED
    BY <2>1, ConcatProperties
<1>15. Coded(R2) = p \o m
  <2>1. PICK e \in Seq(Runs) : e = <<>>
    BY EmptySeq
  <2>2. PICK y \in Seq(Runs) : y = <<x>> /\ Coded(y) = encode(1, r)
    BY <1>1, <1>8, Zenon DEF Single1
  <2>3. R = P \o y /\ R2 = P \o N
    <3>1. P \o y \in Seq(Runs) /\ P \o N \in Seq(Runs)
      BY ConcatProperties
    <3>2. (P \o y) \o e = P \o y /\ (P \o N) \o e = P \o N
      BY <2>1, <3>1, ConcatEmptySeq
    <3> QED
      BY <1>11, <2>1, <2>2, <3>2, Zenon DEF Row
  <2>4. Coded(P \o y) = Coded(P) \o Coded(y) /\ Coded(P \o N) = Coded(P) \o Coded(N)
    BY CodedProperties
  <2>5. PICK q \in Seq(Bytes) : q = Coded(P)
    BY CodedProperties
  <2>6. PICK ex \in Seq(Bytes) : ex = encode(1, r)
    BY <2>2, CodedProperties
  <2>7. PICK ea \in Seq(Bytes) : ea = encode(0, g)
    <3>1. 0 \in 0..1
      OBVIOUS
    <3> QED
      BY <3>1, EncodeBytes
  <2>8. PICK ec \in Seq(Bytes) : ec = encode(1, 1)
    <3>1. 1 \in 0..1 /\ 1 \in Nat
      OBVIOUS
    <3> QED
      BY <3>1, EncodeBytes
  <2>9. q \o ((ex \o ea) \o ec) = (q \o ex) \o (ea \o ec)
    <3>1. FourJoined(q, ex, ea, ec)
      BY FourInRow
    <3> QED
      BY <3>1, Zenon DEF FourJoined
  <2> QED
    BY <1>9, <1>13, <1>14, <2>2, <2>3, <2>4, <2>5, <2>6, <2>7, <2>8, <2>9, Zenon
<1>16. PICK z \in Terminators :
         Replaced(p \o T, Len(p) + 1, Len(p) + 1 + Len(t), m \o t) = (p \o m) \o z
  BY ReplacedEnd
<1>17. AddAtEnd(Coded(R) \o T, B, index, t) = Replaced(p \o T, Len(p) + 1, Len(p) + 1 + Len(t), m \o t)
  <2>1. 1 # 0
    OBVIOUS
  <2>2. 1 + Len(p) = Len(p) + 1
    <3>1. PICK i \in Nat : i = Len(p)
      BY LenProperties
    <3>2. 1 + i = i + 1
      OBVIOUS
    <3> QED
      BY <3>1, <3>2, Zenon
  <2> QED
    BY <1>1, <1>5, <1>13, <1>14, <2>1, <2>2, Zenon DEF AddAtEnd
<1>18. AddAtEnd(Coded(R) \o T, B, index, t) = Coded(R2) \o z
  BY <1>15, <1>16, <1>17, Zenon
<1> QED
  BY <1>12, <1>18, Zenon DEF Rewrites

-----------------------------------------------------------------------------
(* set: the arm taken, and what all arms have in common.                   *)

(* A call that changes the bit it finds. *)
Asked(R, v, index, newval) ==
  /\ Canon(R) /\ v < index /\ v + Span(R) <= MaxRun /\ 2 * index <= MaxRun
  /\ BlocksFor(R, v)[FoundIn(BlocksFor(R, v), index)].bit # newval

FindsAt(R, v, index, n) ==
  /\ FoundIn(BlocksFor(R, v), index) = n /\ Val(R, v, n) <= index
  /\ n <= Len(R) => index < Val(R, v, n) + R[n].run
  /\ BlocksFor(R, v)[n].bit = IF index \in Ones(R, v) THEN 1 ELSE 0
  /\ n <= Len(R) => BlocksFor(R, v)[n].bit = R[n].bit
  /\ n = Len(R) + 1 => BlocksFor(R, v)[n].bit = 0 /\ BlocksFor(R, v)[n].run = 0

(* A reader finds the run that covers a position, or the terminator. *)
LEMMA FindsPlace ==
  ASSUME NEW R \in Seq(Runs), NEW v \in Nat, NEW index \in Nat, v <= index
  PROVE  \E n \in 1..(Len(R) + 1) : FindsAt(R, v, index, n)
<1>1. PICK n \in 1..(Len(R) + 1) :
           /\ FoundIn(BlocksFor(R, v), index) = n
           /\ Val(R, v, n) <= index
           /\ n <= Len(R) => index < Val(R, v, n) + R[n].run
           /\ BlocksFor(R, v)[n].bit = IF index \in Ones(R, v) THEN 1 ELSE 0
  BY Finds
<1>2. n <= Len(R) => BlocksFor(R, v)[n].bit = R[n].bit
  <2>1. \A k \in 1..Len(R) : BlocksFor(R, v)[k].bit = R[k].bit
    BY Fields
  <2>2. n <= Len(R) => n \in 1..Len(R)
    BY LenProperties
  <2> QED
    BY <2>1, <2>2, Zenon
<1>3. n = Len(R) + 1 => BlocksFor(R, v)[n].bit = 0 /\ BlocksFor(R, v)[n].run = 0
  <2>1. BlocksFor(R, v)[Len(R) + 1].bit = 0 /\ BlocksFor(R, v)[Len(R) + 1].run = 0
    BY Fields
  <2> QED
    BY <2>1, Zenon
<1> QED
  BY <1>1, <1>2, <1>3, Zenon DEF FindsAt

(* Where set finds a position. *)
LEMMA AskedHits ==
  ASSUME NEW R \in Seq(Runs), NEW v \in Nat, NEW index \in Nat, NEW newval \in 0..1,
         Asked(R, v, index, newval), NEW n \in 1..(Len(R) + 1), FindsAt(R, v, index, n)
  PROVE  Hit(R, v, index, newval, n)
<1>1. newval = 0 \/ newval = 1
  OBVIOUS
<1>2. /\ Canon(R) /\ v < index /\ v + Span(R) <= MaxRun /\ 2 * index <= MaxRun
      /\ BlocksFor(R, v)[n].bit # newval
  BY Zenon DEF Asked, FindsAt
<1>3. n <= Len(R) => index < Val(R, v, n) + R[n].run /\ R[n].bit # newval
  BY <1>2, Zenon DEF FindsAt
<1>4. n = Len(R) + 1 => newval = 1
  BY <1>1, <1>2, Zenon DEF FindsAt
<1>5. Val(R, v, n) <= index
  BY Zenon DEF FindsAt
<1> QED
  BY <1>2, <1>3, <1>4, <1>5, Zenon DEF Hit

(* How far beyond index a set lands: behind the last run only. *)
LEMMA OvershootInside ==
  ASSUME NEW R \in Seq(Runs), NEW v \in Nat, NEW index \in Nat,
         NEW n \in 1..Len(R), FindsAt(R, v, index, n)
  PROVE  Overshoot(BlocksFor(R, v), index) = 0
<1>1. n <= Len(R) /\ Len(R) + 1 \in (n + 1)..(Len(R) + 1) /\ Len(R) + 1 \in 1..(Len(R) + 1)
      /\ n \in 1..(Len(R) + 1)
  BY LenProperties
<1>2. Val(R, v, n) + R[n].run <= Val(R, v, Len(R) + 1)
  BY <1>1, ValAscends
<1>3. PICK w \in Nat : w = Val(R, v, n)
  BY <1>1, Places1
<1>4. PICK r \in Nat : r = R[n].run
  BY ElementOfSeq, RunsType
<1>5. PICK e \in Nat : e = Val(R, v, Len(R) + 1)
  BY <1>1, Places1
<1>6. index < w + r
  BY <1>1, <1>3, <1>4, Zenon DEF FindsAt
<1>7. w + r <= e
  BY <1>2, <1>3, <1>4, <1>5, Zenon
<1>8. ~(e <= index)
  BY <1>6, <1>7
<1>9. Last(BlocksFor(R, v)).value = e
  <2>1. /\ Last(BlocksFor(R, v)) = BlocksFor(R, v)[Len(R) + 1]
        /\ BlocksFor(R, v)[Len(R) + 1].value = Val(R, v, Len(R) + 1)
    BY Fields
  <2> QED
    BY <1>5, <2>1, Zenon
<1> QED
  BY <1>8, <1>9, Zenon DEF Overshoot

(* Behind a last run of 0s a set lands as far beyond as that run is longer *)
(* than 1.                                                                 *)
LEMMA OvershootEnd ==
  ASSUME NEW R \in Seq(Runs), NEW v \in Nat, NEW index \in Nat, NEW B,
         NEW x, NEW b \in 0..1, NEW r, NEW w, ComesToEnd(R, v, B, index, x, b, r, w)
  PROVE  Overshoot(B, index) = IF b = 0 THEN r - 1 ELSE 0
BY Zenon DEF Overshoot, ComesToEnd

(* The conditions under which the arms do not meet a change of widths. *)
Steady(R, v, index, n) ==
  /\ AtFirst(R, v, index, n) \/ R[n].run = 1 \/ Val(R, v, n) # index
  /\ AtFinal(R, v, index, n) /\ n = Len(R) => Kept(R[n].run - 1, R[n].run)
  /\ AtFinal(R, v, index, n) /\ n < Len(R) => Kept(R[n + 1].run + 1, R[n + 1].run)

BlockIs(R, v, B, n) ==
  /\ B[n].value = Val(R, v, n) /\ B[n].length = blocklength(R[n].run) /\ B[n].run = R[n].run
  /\ B[n].at = At(R, n)
(* Each block, and the terminator. *)
LEMMA BlockIsThere ==
  ASSUME NEW R \in Seq(Runs), NEW v \in Nat, NEW B, B = BlocksFor(R, v)
  PROVE  /\ \A n \in 1..Len(R) : BlockIs(R, v, B, n)
         /\ B[Len(R) + 1].run = 0 /\ B[Len(R) + 1].at = At(R, Len(R) + 1)
<1>1. /\ \A n \in 1..Len(R) :
              /\ B[n].at = At(R, n) /\ B[n].value = Val(R, v, n)
              /\ B[n].length = blocklength(R[n].run) /\ B[n].run = R[n].run
      /\ B[Len(R) + 1].run = 0 /\ B[Len(R) + 1].at = At(R, Len(R) + 1)
  BY Fields
<1> QED
  BY <1>1, Zenon DEF BlockIs

(* If no width changes, the arms of set that trade positions keep theirs. *)
LEMMA NotResized ==
  ASSUME NEW R \in Seq(Runs), NEW v \in Nat, NEW index \in Nat, NEW n \in 1..Len(R),
         NEW B, B = BlocksFor(R, v), FoundIn(B, index) = n, ~Resizes(B, index)
  PROVE  Steady(R, v, index, n)
<1>1. PICK r \in Nat : r = R[n].run /\ r # 0
  BY ElementOfSeq, RunsType
<1>2. BlockIs(R, v, B, n) /\ B[Len(R) + 1].run = 0 /\ \A k \in 1..Len(R) : BlockIs(R, v, B, k)
  BY BlockIsThere
<1>3. B[n].value = Val(R, v, n) /\ B[n].length = blocklength(r) /\ B[n].run = r
  BY <1>1, <1>2, Zenon DEF BlockIs
<1>4. r # 1 => r > 1
  BY <1>1
<1>5. n = Len(R) => B[n + 1].run = 0
  BY <1>2, Zenon
<1>6. n < Len(R) => B[n + 1].run = R[n + 1].run /\ R[n + 1].run # 0 /\ B[n + 1].length = blocklength(R[n + 1].run)
  <2> HAVE n < Len(R)
  <2>1. n + 1 \in 1..Len(R)
    BY LenProperties
  <2>2. BlockIs(R, v, B, n + 1)
    BY <1>2, <2>1, Zenon
  <2>3. R[n + 1].run # 0
    BY <2>1, ElementOfSeq, RunsType
  <2> QED
    BY <2>2, <2>3, Zenon DEF BlockIs
<1>7. ~(/\ r > 1
        /\ Val(R, v, n) = index \/ Val(R, v, n) + r - 1 = index
        /\ \/ blocklength(r - 1) # blocklength(r) /\ (Val(R, v, n) = index \/ B[n + 1].run = 0)
           \/ /\ Val(R, v, n) # index /\ B[n + 1].run # 0
              /\ blocklength(B[n + 1].run + 1) # B[n + 1].length)
  BY <1>3, Zenon DEF Resizes
<1>8. AtFirst(R, v, index, n) \/ R[n].run = 1 \/ Val(R, v, n) # index
  BY <1>1, <1>4, <1>7, Zenon DEF AtFirst
<1>9. AtFinal(R, v, index, n) /\ n = Len(R) => Kept(R[n].run - 1, R[n].run)
  BY <1>1, <1>4, <1>5, <1>7, Zenon DEF AtFinal, Kept
<1>10. AtFinal(R, v, index, n) /\ n < Len(R) => Kept(R[n + 1].run + 1, R[n + 1].run)
  BY <1>1, <1>4, <1>6, <1>7, Zenon DEF AtFinal, Kept
<1> QED
  BY <1>8, <1>9, <1>10, Zenon DEF Steady

(* The arm of Rewritten at a block of the string. *)
ArmIs(data, R, v, index, newval, n, B, t) ==
  /\ AtOnly(R, n) => Rewritten(data, B, index, newval, t) = Join(data, B, n, newval)
  /\ R[n].run # 1 /\ Val(R, v, n) = index =>
       Rewritten(data, B, index, newval, t) = TradeWithPrev(data, B, n)
  /\ AtFinal(R, v, index, n) =>
       Rewritten(data, B, index, newval, t) = TradeWithNext(data, B, n, newval)
  /\ InRun(R, v, index, n) =>
       Rewritten(data, B, index, newval, t) = Split(data, B[n], index, newval)
(* Which arm set takes. *)
LEMMA ArmTaken ==
  ASSUME NEW data, NEW R \in Seq(Runs), NEW v \in Nat, NEW index, NEW newval,
         NEW n \in 1..Len(R), NEW B, B = BlocksFor(R, v), FoundIn(B, index) = n, NEW t
  PROVE  ArmIs(data, R, v, index, newval, n, B, t)
<1>1. R[n].run # 0
  BY ElementOfSeq, RunsType
<1>2. B[n].run = R[n].run /\ B[n].value = Val(R, v, n)
  BY BlockIsThere, Zenon DEF BlockIs
<1>3. B[n].run # 0
  BY <1>1, <1>2, Zenon
<1>4. /\ AtOnly(R, n) => B[n].run = 1
      /\ R[n].run # 1 /\ Val(R, v, n) = index => B[n].run # 1 /\ B[n].value = index
      /\ AtFinal(R, v, index, n) =>
           B[n].run # 1 /\ B[n].value # index /\ B[n].value + B[n].run - 1 = index
      /\ InRun(R, v, index, n) =>
           B[n].run # 1 /\ B[n].value # index /\ B[n].value + B[n].run - 1 # index
  BY <1>2, Zenon DEF AtOnly, AtFinal, InRun
<1> HIDE DEF AtOnly, AtFinal, InRun
<1>5. AtOnly(R, n) => Rewritten(data, B, index, newval, t) = Join(data, B, n, newval)
  BY <1>3, <1>4, Zenon DEF Rewritten
<1>6. R[n].run # 1 /\ Val(R, v, n) = index =>
              Rewritten(data, B, index, newval, t) = TradeWithPrev(data, B, n)
  BY <1>3, <1>4, Zenon DEF Rewritten
<1>7. AtFinal(R, v, index, n) =>
              Rewritten(data, B, index, newval, t) = TradeWithNext(data, B, n, newval)
  BY <1>3, <1>4, Zenon DEF Rewritten
<1>8. InRun(R, v, index, n) =>
              Rewritten(data, B, index, newval, t) = Split(data, B[n], index, newval)
  BY <1>3, <1>4, Zenon DEF Rewritten
<1> QED
  BY <1>5, <1>6, <1>7, <1>8, Zenon DEF ArmIs

(* Inside the string. *)
LEMMA RewrittenInside ==
  ASSUME NEW R \in Seq(Runs), NEW T \in Terminators, NEW v \in Nat, NEW index \in Nat,
         NEW newval \in 0..1, NEW n \in 1..Len(R), Hit(R, v, index, newval, n),
         NEW B, B = BlocksFor(R, v), FoundIn(B, index) = n, Steady(R, v, index, n), NEW t
  PROVE  Rewrites(R, v, index, newval, 0, Rewritten(Coded(R) \o T, B, index, newval, t))
<1> DEFINE data == Coded(R) \o T
<1>1. n < Len(R) => n \in 1..(Len(R) - 1)
  BY LenProperties
<1>2. n = Len(R) \/ n < Len(R)
  BY LenProperties
<1>n. n \in 1..(Len(R) + 1)
  BY LenProperties
<1> HIDE DEF data
<1>a. ArmIs(data, R, v, index, newval, n, B, t)
  BY ArmTaken
<1>3. CASE AtOnly(R, n)
  <2>1. Rewritten(data, B, index, newval, t) = Join(data, B, n, newval)
    BY <1>a, <1>3, Zenon DEF ArmIs
  <2>2. CASE n = Len(R)
    <3>1. IsLast(R, n)
      BY <2>2, Zenon DEF IsLast
    <3>2. Rewrites(R, v, index, newval, 0, Join(data, B, n, newval))
      BY <1>3, <3>1, JoinLastArm DEF data
    <3> QED
      BY <2>1, <3>2, Zenon DEF data
  <2>3. CASE n < Len(R)
    <3>1. Rewrites(R, v, index, newval, 0, Join(data, B, n, newval))
      BY <1>1, <1>3, <2>3, JoinMiddleArm DEF data
    <3> QED
      BY <2>1, <3>1, Zenon DEF data
  <2> QED
    BY <1>2, <2>2, <2>3
<1>4. CASE R[n].run # 1 /\ Val(R, v, n) = index
  <2>1. Rewritten(data, B, index, newval, t) = TradeWithPrev(data, B, n)
    BY <1>a, <1>4, Zenon DEF ArmIs
  <2>2. AtFirst(R, v, index, n)
    BY <1>4, Zenon DEF Steady
  <2>3. Rewrites(R, v, index, newval, 0, TradeWithPrev(data, B, n))
    BY <2>2, TradeWithPrevArm DEF data
  <2> QED
    BY <2>1, <2>3, Zenon DEF data
<1>5. CASE AtFinal(R, v, index, n)
  <2>1. Rewritten(data, B, index, newval, t) = TradeWithNext(data, B, n, newval)
    BY <1>a, <1>5, Zenon DEF ArmIs
  <2>2. CASE n = Len(R)
    <3>1. IsLast(R, n) /\ Kept(R[n].run - 1, R[n].run)
      BY <1>5, <2>2, Zenon DEF IsLast, Steady
    <3>2. Rewrites(R, v, index, newval, 0, TradeWithNext(data, B, n, newval))
      BY <1>5, <3>1, TradeEndArm DEF data
    <3> QED
      BY <2>1, <3>2, Zenon DEF data
  <2>3. CASE n < Len(R)
    <3>1. Kept(R[n + 1].run + 1, R[n + 1].run)
      BY <1>5, <2>3, Zenon DEF Steady
    <3>2. Rewrites(R, v, index, newval, 0, TradeWithNext(data, B, n, newval))
      BY <1>1, <1>5, <2>3, <3>1, TradeNextArm DEF data
    <3> QED
      BY <2>1, <3>2, Zenon DEF data
  <2> QED
    BY <1>2, <2>2, <2>3
<1>6. CASE InRun(R, v, index, n)
  <2>1. Rewritten(data, B, index, newval, t) = Split(data, B[n], index, newval)
    BY <1>a, <1>6, Zenon DEF ArmIs
  <2>2. Rewrites(R, v, index, newval, 0, Split(data, B[n], index, newval))
    BY <1>6, SplitArm DEF data
  <2> QED
    BY <2>1, <2>2, Zenon DEF data
<1>7. \/ AtOnly(R, n) \/ (R[n].run # 1 /\ Val(R, v, n) = index)
      \/ AtFinal(R, v, index, n) \/ InRun(R, v, index, n)
  BY Zenon DEF AtOnly, AtFinal, InRun
<1> QED
  BY <1>3, <1>4, <1>5, <1>6, <1>7

(* At the end of the string. *)
LEMMA RewrittenAtEnd ==
  ASSUME NEW R \in Seq(Runs), NEW T \in Terminators, NEW v \in Nat, NEW index \in Nat,
         NEW n, n = Len(R) + 1, Hit(R, v, index, 1, n),
         NEW B, B = BlocksFor(R, v), FoundIn(B, index) = n, NEW t \in Terminators
  PROVE  /\ Rewrites(R, v, index, 1, Overshoot(B, index),
                     Rewritten(Coded(R) \o T, B, index, 1, t))
         /\ Overshoot(B, index) \in Nat
<1> DEFINE data == Coded(R) \o T
<1>1. Rewritten(data, B, index, 1, t) = AddAtEnd(data, B, index, t)
  <2>1. B[n].run = 0
    BY BlockIsThere, Zenon
  <2> HIDE DEF data
  <2> QED
    BY <2>1, Zenon DEF Rewritten
<1>2. Hit(R, v, index, 1, Len(R) + 1)
  BY Zenon
<1>3. PICK x \in Runs, b \in 0..1, r \in Nat, w \in Nat : ComesToEnd(R, v, B, index, x, b, r, w)
  BY <1>2, EndsAt
<1>4. r # 0
  BY <1>3, Zenon DEF ComesToEnd
<1>5. Overshoot(B, index) = IF b = 0 THEN r - 1 ELSE 0
  BY <1>3, OvershootEnd
<1>6. r - 1 \in Nat /\ 0 \in Nat
  BY <1>4
<1>7. CASE b = 0
  <2>1. ComesToEnd(R, v, B, index, x, 0, r, w)
    BY <1>3, <1>7, Zenon
  <2>2. Rewrites(R, v, index, 1, r - 1, AddAtEnd(data, B, index, t))
    BY <2>1, BehindZerosArm
  <2> HIDE DEF data
  <2>3. Overshoot(B, index) = r - 1
    BY <1>5, <1>7, Zenon
  <2>4. Rewrites(R, v, index, 1, Overshoot(B, index), Rewritten(data, B, index, 1, t))
    BY <1>1, <2>2, <2>3, Zenon
  <2> QED
    BY <1>6, <2>3, <2>4, Zenon DEF data
<1>8. CASE b = 1
  <2>1. ComesToEnd(R, v, B, index, x, 1, r, w)
    BY <1>3, <1>8, Zenon
  <2>2. Rewrites(R, v, index, 1, 0, AddAtEnd(data, B, index, t))
    <3>1. CASE w + r = index
      <4>1. AtItsEnd(w, r, index)
        BY <3>1, Zenon DEF AtItsEnd
      <4> QED
        BY <2>1, <4>1, ExtendOnesArm
    <3>2. CASE w + r # index
      <4>1. BeyondEnd(w, r, index)
        BY <3>2, Zenon DEF BeyondEnd
      <4> QED
        BY <2>1, <4>1, SeparateArm
    <3> QED
      BY <3>1, <3>2
  <2> HIDE DEF data
  <2>3. Overshoot(B, index) = 0
    <3>1. 1 # 0
      OBVIOUS
    <3> QED
      BY <1>5, <1>8, <3>1, Zenon
  <2>4. Rewrites(R, v, index, 1, Overshoot(B, index), Rewritten(data, B, index, 1, t))
    BY <1>1, <2>2, <2>3, Zenon
  <2> QED
    BY <1>6, <2>3, <2>4, Zenon DEF data
<1>9. b = 0 \/ b = 1
  OBVIOUS
<1> QED
  BY <1>7, <1>8, <1>9

(* Beyond the last run there are no 1s. *)
LEMMA BeyondNone ==
  ASSUME NEW R \in Seq(Runs), NEW v \in Nat, NEW i \in Nat, v + Span(R) <= i
  PROVE  i \notin Ones(R, v)
<1>1. PICK s \in Nat : s = Span(R)
  BY SpanProperties
<1>2. Ones(R, v) \subseteq v..(v + Span(R) - 1)
  BY OnesProperties
<1>3. i \notin v..(v + s - 1)
  BY <1>1
<1> QED
  BY <1>1, <1>2, <1>3, Zenon

(* What set() makes of a canonical string, where widths are kept. *)
Over(newval, B, index) == IF newval = 1 THEN Overshoot(B, index) ELSE 0
WellRewritten(R, T, v, index, newval, t, B) ==
  /\ ~Resizes(B, index) =>
       Rewrites(R, v, index, newval, Over(newval, B, index), Rewritten(Coded(R) \o T, B, index, newval, t))
  /\ Over(newval, B, index) \in Nat
  /\ newval = 1 => index + Over(newval, B, index) \notin Ones(R, v)
  /\ newval = 0 => index \in Ones(R, v) /\ Over(newval, B, index) = 0

(* set changes the bit asked for, or the one it overshoots to, and no      *)
(* other, as long as it garbles nothing.                                   *)
LEMMA RewritesWell ==
  ASSUME NEW R \in Seq(Runs), NEW T \in Terminators, NEW v \in Nat, NEW index \in Nat,
         NEW newval \in 0..1, Asked(R, v, index, newval), NEW t \in Terminators
  PROVE  WellRewritten(R, T, v, index, newval, t, BlocksFor(R, v))
<1>1. PICK B : B = BlocksFor(R, v)
  OBVIOUS
<1>2. v < index
  BY Zenon DEF Asked
<1>3. PICK n \in 1..(Len(R) + 1) : FindsAt(R, v, index, n)
  BY <1>2, FindsPlace
<1>4. Hit(R, v, index, newval, n)
  BY <1>3, AskedHits
<1>5. FoundIn(B, index) = n
  BY <1>1, <1>3, Zenon DEF FindsAt
<1>6. IF index \in Ones(R, v) THEN newval = 0 ELSE newval = 1
  <2>1. (IF index \in Ones(R, v) THEN 1 ELSE 0) # newval
    BY <1>3, Zenon DEF FindsAt, Asked
  <2>2. newval = 0 \/ newval = 1
    OBVIOUS
  <2> QED
    BY <2>1, <2>2, Zenon
<1>7. 0 # 1 /\ 0 \in Nat /\ index + 0 = index
  OBVIOUS
<1>8. CASE n \in 1..Len(R)
  <2>1. Over(newval, B, index) = 0
    <3>1. Overshoot(B, index) = 0
      BY <1>1, <1>3, <1>8, OvershootInside
    <3> QED
      BY <3>1, Zenon DEF Over
  <2>2. ASSUME ~Resizes(B, index)
        PROVE  Rewrites(R, v, index, newval, 0, Rewritten(Coded(R) \o T, B, index, newval, t))
    <3>1. Steady(R, v, index, n)
      BY <1>1, <1>5, <1>8, <2>2, NotResized
    <3> QED
      BY <1>1, <1>4, <1>5, <1>8, <3>1, RewrittenInside
  <2> QED
    BY <1>1, <1>6, <1>7, <2>1, <2>2, Zenon DEF WellRewritten
<1>9. CASE n = Len(R) + 1
  <2>1. newval = 1
    BY <1>4, <1>9, Zenon DEF Hit
  <2>2. Hit(R, v, index, 1, n)
    BY <1>4, <2>1, Zenon
  <2>3. /\ Rewrites(R, v, index, 1, Overshoot(B, index), Rewritten(Coded(R) \o T, B, index, 1, t))
        /\ Overshoot(B, index) \in Nat
    BY <1>1, <1>5, <1>9, <2>2, RewrittenAtEnd
  <2>4. index + Overshoot(B, index) \notin Ones(R, v)
    <3>1. v + Span(R) <= index
      <4>1. Val(R, v, n) <= index
        BY <1>3, Zenon DEF FindsAt
      <4>2. Val(R, v, Len(R) + 1) = v + Span(R)
        BY Places1
      <4> QED
        BY <1>9, <4>1, <4>2, Zenon
    <3>2. PICK o \in Nat : o = Overshoot(B, index)
      BY <2>3
    <3>3. PICK s \in Nat : s = Span(R)
      BY SpanProperties
    <3>4. index + o \in Nat /\ v + s <= index + o
      BY <3>1, <3>3
    <3>5. index + o \notin Ones(R, v)
      BY <3>3, <3>4, BeyondNone
    <3> QED
      BY <3>2, <3>5, Zenon
  <2> QED
    BY <1>1, <1>7, <2>1, <2>3, <2>4, Zenon DEF WellRewritten, Over
<1>10. n \in 1..Len(R) \/ n = Len(R) + 1
  BY LenProperties
<1> QED
  BY <1>8, <1>9, <1>10

-----------------------------------------------------------------------------
(* Whatever set does leaves bytes.                                         *)

(* Replacing bytes by bytes leaves bytes. *)
LEMMA ReplacedBytes ==
  ASSUME NEW data \in Seq(Bytes), NEW new \in Seq(Bytes), NEW a \in Nat \ {0}, a <= Len(data) + 1,
         NEW b \in Nat \ {0}
  PROVE  Replaced(data, a, b, new) \in Seq(Bytes)
<1>1. PICK l \in Nat : l = Len(data)
  BY LenProperties
<1>2. SubSeq(data, 1, a - 1) \in Seq(Bytes)
  <2>1. \A i \in 1..(a - 1) : i \in 1..Len(data)
    BY <1>1
  <2>2. 1 \in Int /\ a - 1 \in Int
    OBVIOUS
  <2>3. \A i \in 1..(a - 1) : data[i] \in Bytes
    BY <2>1, ElementOfSeq
  <2> QED
    BY <2>2, <2>3, SubSeqProperties
<1>3. SubSeq(data, b, l) \in Seq(Bytes)
  <2>1. \A i \in b..l : i \in 1..Len(data)
    BY <1>1
  <2>2. b \in Int /\ l \in Int
    OBVIOUS
  <2>3. \A i \in b..l : data[i] \in Bytes
    BY <2>1, ElementOfSeq
  <2> QED
    BY <2>2, <2>3, SubSeqProperties
<1>4. SubSeq(data, 1, a - 1) \o new \in Seq(Bytes)
  BY <1>2, ConcatProperties
<1>5. (SubSeq(data, 1, a - 1) \o new) \o SubSeq(data, b, l) \in Seq(Bytes)
  BY <1>3, <1>4, ConcatProperties
<1> QED
  BY <1>1, <1>5, Zenon DEF Replaced

(* Coded runs and a terminator are bytes. *)
LEMMA RewritesBytes ==
  ASSUME NEW R, NEW v, NEW index, NEW newval, NEW over, NEW data,
         Rewrites(R, v, index, newval, over, data)
  PROVE  data \in Seq(Bytes)
<1>1. PICK R2 \in Seq(Runs), T \in Terminators : data = Coded(R2) \o T
  BY Zenon DEF Rewrites
<1>2. Coded(R2) \in Seq(Bytes) /\ T \in Seq(Bytes)
  BY CodedProperties, TerminatorBytes
<1> QED
  BY <1>1, <1>2, ConcatProperties

(* Two encoded runs are bytes. *)
LEMMA EncodesBytes ==
  ASSUME NEW b \in 0..1, NEW r \in Nat, NEW c \in 0..1, NEW s \in Nat
  PROVE  encode(b, r) \o encode(c, s) \in Seq(Bytes)
<1>1. encode(b, r) \in Seq(Bytes) /\ encode(c, s) \in Seq(Bytes)
  BY EncodeBytes
<1> QED
  BY <1>1, ConcatProperties

(* Where a width changes, what is left is a string of bytes all the same. *)
LEMMA RewrittenBytes ==
  ASSUME NEW R \in Seq(Runs), NEW T \in Terminators, NEW v \in Nat, NEW index \in Nat,
         NEW newval \in 0..1, Asked(R, v, index, newval), NEW t \in Terminators
  PROVE  Rewritten(Coded(R) \o T, BlocksFor(R, v), index, newval, t) \in Seq(Bytes)
<1>1. PICK B : B = BlocksFor(R, v)
  OBVIOUS
<1>2. PICK data : data = Coded(R) \o T
  OBVIOUS
<1>3. CASE ~Resizes(B, index)
  <2>1. WellRewritten(R, T, v, index, newval, t, BlocksFor(R, v))
    BY RewritesWell
  <2>2. Rewrites(R, v, index, newval, Over(newval, B, index), Rewritten(data, B, index, newval, t))
    BY <1>1, <1>2, <1>3, <2>1, Zenon DEF WellRewritten
  <2>3. Rewritten(data, B, index, newval, t) \in Seq(Bytes)
    BY <2>2, RewritesBytes
  <2> QED
    BY <1>1, <1>2, <2>3, Zenon
<1>4. CASE Resizes(B, index)
  <2>1. v < index
    BY Zenon DEF Asked
  <2>2. PICK n \in 1..(Len(R) + 1) : FindsAt(R, v, index, n)
    BY <2>1, FindsPlace
  <2>3. Hit(R, v, index, newval, n)
    BY <2>2, AskedHits
  <2>4. FoundIn(B, index) = n
    BY <1>1, <2>2, Zenon DEF FindsAt
  <2>5. B[n].run > 1 /\ (B[n].value = index \/ B[n].value + B[n].run - 1 = index)
    BY <1>4, <2>4, Zenon DEF Resizes
  <2>6. /\ \A k \in 1..Len(R) : BlockIs(R, v, B, k)
        /\ B[Len(R) + 1].run = 0 /\ B[Len(R) + 1].at = At(R, Len(R) + 1)
    BY <1>1, BlockIsThere
  <2>7. n \in 1..Len(R)
    <3>1. n # Len(R) + 1
      <4>1. ~(0 > 1)
        OBVIOUS
      <4> QED
        BY <2>5, <2>6, <4>1, Zenon
    <3> QED
      BY <3>1, LenProperties
  <2>8. BlockIs(R, v, B, n)
    BY <2>6, <2>7
  <2>9. PICK r \in Nat : r = R[n].run /\ r > 1 /\ r # 1 /\ r - 1 \in Nat
    <3>1. PICK r \in Nat : r = R[n].run
      BY <2>7, ElementOfSeq, RunsType
    <3>2. r > 1
      BY <2>5, <2>8, <3>1, Zenon DEF BlockIs
    <3> QED
      BY <3>1, <3>2
  <2>10. data \in Seq(Bytes) /\ Len(data) \in Nat /\ \A k \in 1..Len(R) : At(R, k) \in Nat \ {0} /\ At(R, k) <= Len(data) + 1
    <3>1. data \in Seq(Bytes)
      <4>1. Coded(R) \in Seq(Bytes) /\ T \in Seq(Bytes)
        BY CodedProperties, TerminatorBytes
      <4> QED
        BY <1>2, <4>1, ConcatProperties
    <3>2. PICK l \in Nat : l = Len(Coded(R))
      BY CodedProperties
    <3>3. Len(data) \in Nat /\ l <= Len(data)
      <4>1. Coded(R) \in Seq(Bytes) /\ T \in Seq(Bytes)
        BY CodedProperties, TerminatorBytes
      <4>2. Len(data) = l + Len(T) /\ Len(T) \in Nat
        BY <1>2, <3>2, <4>1, ConcatProperties, LenProperties
      <4> QED
        BY <4>2
    <3>4. ASSUME NEW k \in 1..Len(R)
          PROVE  At(R, k) \in Nat \ {0} /\ At(R, k) <= Len(data) + 1
      <4>1. k \in 1..(Len(R) + 1)
        BY LenProperties
      <4>2. At(R, k) \in Nat \ {0}
        BY <4>1, Places1
      <4>3. At(R, k) <= l + 1
        BY <3>2, <4>1, BlockRead
      <4> QED
        BY <3>3, <4>2, <4>3
    <3> QED
      BY <3>1, <3>3, <3>4
  <2>11. CASE B[n].value = index
    <3>1. R[n].run # 1 /\ Val(R, v, n) = index
      BY <2>8, <2>9, <2>11, Zenon DEF BlockIs
    <3>2. ArmIs(data, R, v, index, newval, n, B, t)
      BY <1>1, <2>4, <2>7, ArmTaken
    <3>3. Rewritten(data, B, index, newval, t) = TradeWithPrev(data, B, n)
      BY <3>1, <3>2, Zenon DEF ArmIs
    <3>4. PICK m \in 1..Len(R) : m = n - 1
      <4>1. n \in 2..(Len(R) + 1)
        BY <2>3, <3>1, HitFacts
      <4> QED
        BY <2>7, <4>1
    <3>5. /\ B[m].at = At(R, m) /\ B[m].run = R[m].run /\ B[m].bit = R[m].bit
          /\ B[n].at = At(R, n) /\ B[n].run = r /\ B[n].bit = R[n].bit
      <4>1. \A k \in 1..Len(R) : B[k].at = At(R, k) /\ B[k].run = R[k].run /\ B[k].bit = R[k].bit
        BY <1>1, Fields
      <4> QED
        BY <2>7, <2>9, <4>1, Zenon
    <3>6. R[m].run + 1 \in Nat /\ R[m].bit \in 0..1 /\ R[n].bit \in 0..1
      BY <2>7, ElementOfSeq, RunsType
    <3>7. PICK p \in Nat \ {0} : p = At(R, n) + blocklength(r - 1)
      <4>1. At(R, n) \in Nat \ {0}
        BY <2>7, <2>10
      <4>2. blocklength(r - 1) \in 1..4
        BY <2>9, BlockLengths
      <4> QED
        BY <4>1, <4>2
    <3>8. PICK new \in Seq(Bytes) : new = encode(R[m].bit, R[m].run + 1) \o encode(R[n].bit, r - 1)
      BY <2>9, <3>6, EncodesBytes
    <3>9. Replaced(data, At(R, m), p, new) \in Seq(Bytes)
      BY <2>10, ReplacedBytes
    <3>10. TradeWithPrev(data, B, n) = Replaced(data, At(R, m), p, new)
      BY <3>4, <3>5, <3>7, <3>8, Zenon DEF TradeWithPrev
    <3> QED
      BY <1>1, <1>2, <3>3, <3>9, <3>10, Zenon
  <2>12. CASE B[n].value # index
    <3>1. AtFinal(R, v, index, n)
      BY <2>5, <2>8, <2>9, <2>12, Zenon DEF BlockIs, AtFinal
    <3>2. ArmIs(data, R, v, index, newval, n, B, t)
      BY <1>1, <2>4, <2>7, ArmTaken
    <3>3. Rewritten(data, B, index, newval, t) = TradeWithNext(data, B, n, newval)
      BY <3>1, <3>2, Zenon DEF ArmIs
    <3>5. B[n].at = At(R, n) /\ B[n].run = r /\ B[n].bit = R[n].bit /\ At(R, n) \in Nat \ {0}
          /\ R[n].bit \in 0..1 /\ At(R, n) <= Len(data) + 1
      <4>1. \A k \in 1..Len(R) : B[k].at = At(R, k) /\ B[k].run = R[k].run /\ B[k].bit = R[k].bit
        BY <1>1, Fields
      <4>2. R[n].bit \in 0..1
        BY <2>7, ElementOfSeq, RunsType
      <4> QED
        BY <2>7, <2>9, <2>10, <4>1, <4>2, Zenon
    <3>6. CASE B[n + 1].run = 0
      <4>1. PICK p \in Nat \ {0} : p = At(R, n) + blocklength(r - 1)
        <5>1. blocklength(r - 1) \in 1..4
          BY <2>9, BlockLengths
        <5> QED
          BY <3>5, <5>1
      <4>2. PICK new \in Seq(Bytes) : new = encode(R[n].bit, r - 1) \o encode(newval, 1)
        <5>1. 1 \in Nat
          OBVIOUS
        <5> QED
          BY <2>9, <3>5, <5>1, EncodesBytes
      <4>3. Replaced(data, At(R, n), p, new) \in Seq(Bytes)
        BY <2>10, <3>5, ReplacedBytes
      <4>4. TradeWithNext(data, B, n, newval) = Replaced(data, At(R, n), p, new)
        BY <3>5, <3>6, <4>1, <4>2, Zenon DEF TradeWithNext
      <4> QED
        BY <1>1, <1>2, <3>3, <4>3, <4>4, Zenon
    <3>7. CASE B[n + 1].run # 0
      <4>1. PICK m \in 1..Len(R) : m = n + 1
        <5>1. n # Len(R)
          BY <2>6, <3>7, Zenon
        <5> QED
          BY <2>7, <5>1, LenProperties
      <4>2. B[m].at = At(R, m) /\ B[m].run = R[m].run /\ B[m].bit = R[m].bit /\ At(R, m) \in Nat \ {0}
        <5>1. \A k \in 1..Len(R) : B[k].at = At(R, k) /\ B[k].run = R[k].run /\ B[k].bit = R[k].bit
          BY <1>1, Fields
        <5> QED
          BY <2>10, <5>1, Zenon
      <4>3. R[m].run + 1 \in Nat /\ R[m].bit \in 0..1
        BY ElementOfSeq, RunsType
      <4>4. PICK p \in Nat \ {0} : p = At(R, m) + blocklength(R[m].run + 1)
        <5>1. blocklength(R[m].run + 1) \in 1..4
          BY <4>3, BlockLengths
        <5> QED
          BY <4>2, <5>1
      <4>5. PICK new \in Seq(Bytes) : new = encode(R[n].bit, r - 1) \o encode(R[m].bit, R[m].run + 1)
        BY <2>9, <3>5, <4>3, EncodesBytes
      <4>6. Replaced(data, At(R, n), p, new) \in Seq(Bytes)
        BY <2>10, <3>5, ReplacedBytes
      <4>7. TradeWithNext(data, B, n, newval) = Replaced(data, At(R, n), p, new)
        BY <3>5, <3>7, <4>1, <4>2, <4>4, <4>5, Zenon DEF TradeWithNext
      <4> QED
        BY <1>1, <1>2, <3>3, <4>6, <4>7, Zenon
    <3> QED
      BY <3>6, <3>7
  <2> QED
    BY <2>11, <2>12
<1> QED
  BY <1>3, <1>4

-----------------------------------------------------------------------------
(* The iterator.                                                           *)

(* The vectors of two sets, the second above the first, in a row. *)
VectorsJoin(S, T) == Vector(S) \o Vector(T) = Vector(S \cup T)
Above(S, T) == \A x \in S, y \in T : x < y
(* A set above another, each in order, are both in order. *)
LEMMA VectorConcat ==
  ASSUME NEW S \in SUBSET Nat, IsFiniteSet(S), NEW T \in SUBSET Nat, IsFiniteSet(T), Above(S, T)
  PROVE  VectorsJoin(S, T)
<1>1. /\ Vector(S) \in Seq(Nat) /\ ToSet(Vector(S)) = S /\ Ascending(Vector(S))
      /\ Vector(T) \in Seq(Nat) /\ ToSet(Vector(T)) = T /\ Ascending(Vector(T))
  BY VectorProperties
<1>2. PICK s \in Seq(Nat) : s = Vector(S)
  BY <1>1
<1>3. PICK t \in Seq(Nat) : t = Vector(T)
  BY <1>1
<1>4. PICK m \in Nat : m = Len(s) /\ DOMAIN s = 1..m
  BY LenProperties
<1>5. PICK n \in Nat : n = Len(t) /\ DOMAIN t = 1..n
  BY LenProperties
<1>6. /\ s \o t \in Seq(Nat) /\ Len(s \o t) = m + n
      /\ \A i \in 1..(m + n) : (s \o t)[i] = IF i <= m THEN s[i] ELSE t[i - m]
  BY <1>4, <1>5, ConcatProperties
<1>7. PICK u \in Seq(Nat) : u = s \o t /\ DOMAIN u = 1..(m + n)
  <2>1. DOMAIN (s \o t) = 1..(m + n)
    BY <1>6, LenProperties
  <2> QED
    BY <1>6, <2>1
<1>8. /\ \A i \in 1..m : u[i] = s[i] /\ s[i] \in S
      /\ \A i \in (m + 1)..(m + n) : u[i] = t[i - m] /\ t[i - m] \in T
  <2>1. ASSUME NEW i \in 1..m PROVE u[i] = s[i] /\ s[i] \in S
    <3>1. i \in 1..(m + n) /\ i <= m
      OBVIOUS
    <3>2. s[i] \in ToSet(s)
      BY <1>4 DEF ToSet
    <3> QED
      BY <1>1, <1>2, <1>6, <1>7, <3>1, <3>2, Zenon
  <2>2. ASSUME NEW i \in (m + 1)..(m + n) PROVE u[i] = t[i - m] /\ t[i - m] \in T
    <3>1. i \in 1..(m + n) /\ ~(i <= m) /\ i - m \in 1..n
      OBVIOUS
    <3>2. t[i - m] \in ToSet(t)
      BY <1>5, <3>1 DEF ToSet
    <3> QED
      BY <1>1, <1>3, <1>6, <1>7, <3>1, <3>2, Zenon
  <2> QED
    BY <2>1, <2>2
<1>9. Ascending(u)
  <2> SUFFICES ASSUME NEW i \in 1..(m + n), NEW j \in 1..(m + n), i < j
               PROVE  u[i] < u[j]
    BY <1>7 DEF Ascending
  <2>1. CASE j <= m
    <3>1. i \in 1..m /\ j \in 1..m
      BY <2>1
    <3>2. s[i] < s[j]
      BY <1>1, <1>2, <1>4, <3>1 DEF Ascending
    <3> QED
      BY <1>8, <3>1, <3>2
  <2>2. CASE i <= m /\ ~(j <= m)
    <3>1. i \in 1..m /\ j \in (m + 1)..(m + n)
      BY <2>2
    <3>2. u[i] \in S /\ u[j] \in T
      BY <1>8, <3>1
    <3> QED
      BY <3>2 DEF Above
  <2>3. CASE ~(i <= m)
    <3>1. i \in (m + 1)..(m + n) /\ j \in (m + 1)..(m + n) /\ i - m \in 1..n /\ j - m \in 1..n /\ i - m < j - m
      BY <2>3
    <3>2. t[i - m] < t[j - m]
      BY <1>1, <1>3, <1>5, <3>1 DEF Ascending
    <3> QED
      BY <1>8, <3>1, <3>2
  <2> QED
    BY <2>1, <2>2, <2>3
<1>10. ToSet(u) = S \cup T
  <2>1. ToSet(u) \subseteq S \cup T
    <3> SUFFICES ASSUME NEW i \in 1..(m + n) PROVE u[i] \in S \cup T
      BY <1>7 DEF ToSet
    <3>1. i \in 1..m \/ i \in (m + 1)..(m + n)
      OBVIOUS
    <3> QED
      BY <1>8, <3>1
  <2>2. ASSUME NEW x \in S PROVE x \in ToSet(u)
    <3>1. PICK i \in 1..m : s[i] = x
      BY <1>1, <1>2, <1>4 DEF ToSet
    <3>2. i \in 1..(m + n) /\ u[i] = x
      BY <1>8, <3>1
    <3> QED
      BY <1>7, <3>2 DEF ToSet
  <2>3. ASSUME NEW x \in T PROVE x \in ToSet(u)
    <3>1. PICK i \in 1..n : t[i] = x
      BY <1>1, <1>3, <1>5 DEF ToSet
    <3>2. i + m \in (m + 1)..(m + n) /\ (i + m) - m = i /\ i + m \in 1..(m + n)
      OBVIOUS
    <3>3. u[i + m] = x
      BY <1>8, <3>1, <3>2
    <3> QED
      BY <1>7, <3>2, <3>3 DEF ToSet
  <2> QED
    BY <2>1, <2>2, <2>3
<1>11. u = Vector(ToSet(u))
  BY <1>9, VectorUnique
<1> QED
  BY <1>2, <1>3, <1>7, <1>10, <1>11, Zenon DEF VectorsJoin

(* The empty set in order. *)
LEMMA VectorEmpty == Vector({}) = <<>> /\ IsFiniteSet({})
<1>1. PICK e \in Seq(Nat) : e = <<>> /\ Len(e) = 0
  BY EmptySeq
<1>2. Ascending(e) /\ ToSet(e) = {}
  <2>1. DOMAIN e = {}
    BY <1>1, LenProperties
  <2> QED
    BY <2>1 DEF Ascending, ToSet
<1>3. e = Vector(ToSet(e)) /\ IsFiniteSet(ToSet(e))
  BY <1>2, VectorUnique
<1> QED
  BY <1>1, <1>2, <1>3, Zenon

(* What an iterator yields in a run of 1s. *)
LEMMA ValuesVector ==
  ASSUME NEW b, NEW w \in Nat, NEW r \in Nat, b.value = w, b.run = r
  PROVE  ValuesOf(b) = Vector(w..(w + r - 1)) /\ IsFiniteSet(w..(w + r - 1))
<1>1. PICK s : s = [progress \in 1..r |-> w + progress - 1]
  OBVIOUS
<1>2. s \in [1..r -> Nat]
  <2>1. \A progress \in 1..r : w + progress - 1 \in Nat
    OBVIOUS
  <2> QED
    BY <1>1, <2>1
<1>3. s \in Seq(Nat) /\ DOMAIN s = 1..r
  BY <1>2, IntervalSeq
<1>4. Ascending(s)
  BY <1>1, <1>3 DEF Ascending
<1>5. ToSet(s) = w..(w + r - 1)
  <2>1. ToSet(s) \subseteq w..(w + r - 1)
    BY <1>1, <1>3 DEF ToSet
  <2>2. ASSUME NEW i \in w..(w + r - 1) PROVE i \in ToSet(s)
    <3>1. i - w + 1 \in 1..r /\ w + (i - w + 1) - 1 = i
      OBVIOUS
    <3>2. s[i - w + 1] = i
      BY <1>1, <3>1
    <3> QED
      BY <1>3, <3>1, <3>2 DEF ToSet
  <2> QED
    BY <2>1, <2>2
<1>6. s = Vector(ToSet(s)) /\ IsFiniteSet(ToSet(s))
  BY <1>3, <1>4, VectorUnique
<1>7. ValuesOf(b) = s
  BY <1>1, Zenon DEF ValuesOf
<1> QED
  BY <1>5, <1>6, <1>7, Zenon

(* The next run of 1s, or the terminator. *)
Ahead(B, n, m) ==
  /\ m \in n..Len(B) /\ (B[m].run = 0 \/ B[m].bit = 1)
  /\ \A k \in n..(m - 1) : B[k].bit = 0 /\ B[k].run # 0
(* An iterator finds the next run of 1s. *)
LEMMA AheadIs ==
  ASSUME NEW B, NEW n \in Nat, NEW m, Ahead(B, n, m), Len(B) \in Nat, \A k \in n..Len(B) : B[k].bit \in 0..1
  PROVE  NextOnes(B, n) = m
<1>1. PICK l \in Nat : l = Len(B)
  OBVIOUS
<1>2. m \in n..l /\ (B[m].run = 0 \/ B[m].bit = 1) /\ \A k \in n..(m - 1) : B[k].bit = 0 /\ B[k].run # 0
  BY <1>1, Zenon DEF Ahead
<1>3. ASSUME NEW q \in n..l, B[q].run = 0 \/ B[q].bit = 1,
             \A k \in n..(q - 1) : B[k].bit = 0 /\ B[k].run # 0
      PROVE  q = m
  <2>1. ~(q \in n..(m - 1))
    BY <1>2, <1>3
  <2>2. ~(m \in n..(q - 1))
    BY <1>2, <1>3
  <2> QED
    BY <1>2, <2>1, <2>2
<1>4. NextOnes(B, n) = CHOOSE q \in n..l : /\ B[q].run = 0 \/ B[q].bit = 1
                                           /\ \A k \in n..(q - 1) : B[k].bit = 0 /\ B[k].run # 0
  BY <1>1, Zenon DEF NextOnes
<1> QED
  BY <1>2, <1>3, <1>4

(* Where the next run of 1s is, in the blocks of runs. *)
NextFacts(R, B, n) ==
  /\ NextOnes(B, n) \in n..(Len(R) + 1)
  /\ n = Len(R) + 1 => NextOnes(B, n) = n
  /\ n <= Len(R) /\ R[n].bit = 1 => NextOnes(B, n) = n
  /\ n <= Len(R) /\ R[n].bit = 0 => NextOnes(B, n) = NextOnes(B, n + 1)

BitsAre(R, B) ==
  /\ Len(B) = Len(R) + 1 /\ B[Len(R) + 1].run = 0 /\ B[Len(R) + 1].bit = 0
  /\ \A n \in 1..Len(R) : B[n].bit = R[n].bit /\ R[n].bit \in 0..1 /\ B[n].run # 0
(* The bits and lengths of the blocks. *)
LEMMA BitsAreThere ==
  ASSUME NEW R \in Seq(Runs), NEW v \in Nat, NEW B, B = BlocksFor(R, v)
  PROVE  BitsAre(R, B)
<1>1. /\ Len(B) = Len(R) + 1 /\ B[Len(R) + 1].run = 0 /\ B[Len(R) + 1].bit = 0
      /\ \A n \in 1..Len(R) : B[n].bit = R[n].bit /\ R[n].bit \in 0..1 /\ B[n].run = R[n].run /\ R[n].run \in Nat \ {0}
  BY Fields
<1>2. \A n \in 1..Len(R) : B[n].run # 0
  BY <1>1
<1> QED
  BY <1>1, <1>2, Zenon DEF BitsAre

(* From each block on an iterator finds the next run of 1s, or the end. *)
LEMMA NextIs ==
  ASSUME NEW R \in Seq(Runs), NEW B, BitsAre(R, B)
  PROVE  \A n \in 1..(Len(R) + 1) : NextFacts(R, B, n)
<1>1. PICK l \in Nat : l = Len(R)
  BY LenProperties
<1>2. /\ Len(B) = l + 1 /\ B[l + 1].run = 0 /\ B[l + 1].bit = 0
      /\ \A n \in 1..l : B[n].bit = R[n].bit /\ R[n].bit \in 0..1 /\ B[n].run # 0
  BY <1>1, Zenon DEF BitsAre
<1>3. ASSUME NEW n \in 1..(l + 1)
      PROVE  \E m \in n..(l + 1) : Ahead(B, n, m)
  <2>s. PICK S : S = {m \in n..(l + 1) : B[m].run = 0 \/ B[m].bit = 1}
    OBVIOUS
  <2>1. S = {m \in n..(l + 1) : B[m].run = 0 \/ B[m].bit = 1} /\ S \in SUBSET Nat
    <3>1. \A m \in n..(l + 1) : m \in Nat
      OBVIOUS
    <3> QED
      BY <2>s, <3>1
  <2>2. l + 1 \in S
    BY <1>2, <2>1
  <2>3. PICK m \in S : \A k \in S : m <= k
    <3>1. S \in SUBSET Nat /\ S # {}
      BY <2>1, <2>2, Zenon
    <3> QED
      BY <3>1, NatMin
  <2>4. m \in n..(l + 1) /\ (B[m].run = 0 \/ B[m].bit = 1)
    BY <2>1
  <2>5. ASSUME NEW k \in n..(m - 1)
        PROVE  B[k].bit = 0 /\ B[k].run # 0
    <3>1. k \notin S /\ k \in 1..l /\ k \in n..(l + 1)
      <4>1. k \notin S
        BY <2>3, <2>4
      <4> QED
        BY <2>4, <4>1
    <3>2. B[k].bit \in 0..1
      BY <1>2, <3>1
    <3>3. B[k].run # 0 /\ B[k].bit # 1
      BY <2>1, <3>1
    <3> QED
      BY <3>2, <3>3
  <2> QED
    BY <1>2, <2>4, <2>5 DEF Ahead
<1>4. ASSUME NEW n \in 1..(l + 1), NEW m, Ahead(B, n, m)
      PROVE  NextOnes(B, n) = m
  <2>1. n \in Nat /\ Len(B) \in Nat
    BY <1>2
  <2>2. \A k \in n..Len(B) : B[k].bit \in 0..1
    <3> TAKE k \in n..Len(B)
    <3>1. k \in 1..l \/ k = l + 1
      BY <1>2
    <3> QED
      BY <1>2, <3>1
  <2> QED
    BY <1>4, <2>1, <2>2, AheadIs
<1>5. \A n \in 1..(l + 1) : NextOnes(B, n) \in n..(l + 1)
  BY <1>3, <1>4
<1>6. NextOnes(B, l + 1) = l + 1
  <2>1. l + 1 \in 1..(l + 1)
    OBVIOUS
  <2> QED
    BY <1>5, <2>1
<1>7. ASSUME NEW n \in 1..l, R[n].bit = 1
      PROVE  NextOnes(B, n) = n
  <2>1. n \in n..(l + 1) /\ n..(n - 1) = {} /\ n \in 1..(l + 1)
    OBVIOUS
  <2>2. B[n].bit = 1
    BY <1>2, <1>7
  <2>3. Ahead(B, n, n)
    BY <1>2, <2>1, <2>2 DEF Ahead
  <2> QED
    BY <1>4, <2>1, <2>3
<1>8. ASSUME NEW n \in 1..l, R[n].bit = 0
      PROVE  NextOnes(B, n) = NextOnes(B, n + 1)
  <2>1. n + 1 \in 1..(l + 1) /\ n \in 1..(l + 1)
    OBVIOUS
  <2>2. PICK m \in (n + 1)..(l + 1) : Ahead(B, n + 1, m)
    BY <1>3, <2>1
  <2>3. B[m].run = 0 \/ B[m].bit = 1
    BY <2>2 DEF Ahead
  <2>4. ASSUME NEW k \in n..(m - 1)
        PROVE  B[k].bit = 0 /\ B[k].run # 0
    <3>1. k = n \/ k \in (n + 1)..(m - 1)
      OBVIOUS
    <3>2. B[n].bit = 0 /\ B[n].run # 0
      BY <1>2, <1>8
    <3>3. \A i \in (n + 1)..(m - 1) : B[i].bit = 0 /\ B[i].run # 0
      BY <2>2 DEF Ahead
    <3> QED
      BY <3>1, <3>2, <3>3
  <2>5. m \in n..(l + 1)
    OBVIOUS
  <2>6. Ahead(B, n, m)
    BY <1>2, <2>3, <2>4, <2>5 DEF Ahead
  <2>7. NextOnes(B, n + 1) = m
    BY <1>4, <2>1, <2>2
  <2>8. NextOnes(B, n) = m
    BY <1>4, <2>1, <2>6
  <2> QED
    BY <2>7, <2>8
<1>9. ASSUME NEW n \in 1..(l + 1)
      PROVE  NextFacts(R, B, n)
  <2>1. n <= l => n \in 1..l
    OBVIOUS
  <2>2. NextOnes(B, n) \in n..(l + 1)
    BY <1>5
  <2>3. n = l + 1 => NextOnes(B, n) = n
    BY <1>6, Zenon
  <2>4. n <= l /\ R[n].bit = 1 => NextOnes(B, n) = n
    BY <1>7, <2>1
  <2>5. n <= l /\ R[n].bit = 0 => NextOnes(B, n) = NextOnes(B, n + 1)
    BY <1>8, <2>1
  <2> QED
    BY <1>1, <2>2, <2>3, <2>4, <2>5, Zenon DEF NextFacts
<1> QED
  BY <1>1, <1>9

(* The 1s from a run on. *)
From(R, v, n) == {i \in Ones(R, v) : Val(R, v, n) <= i}
(* The 1s from each run on. *)
LEMMA OnesFrom ==
  ASSUME NEW R \in Seq(Runs), NEW v \in Nat
  PROVE  /\ From(R, v, 1) = Ones(R, v) /\ From(R, v, Len(R) + 1) = {}
         /\ \A n \in 1..(Len(R) + 1) : From(R, v, n) \in SUBSET Nat
         /\ \A n \in 1..Len(R) : From(R, v, n) = Ivl(R[n], Val(R, v, n)) \cup From(R, v, n + 1)
<1>1. PICK s \in Nat : s = Span(R)
  BY SpanProperties
<1>2. Ones(R, v) \subseteq v..(v + s - 1) /\ Ones(R, v) \subseteq Nat
  BY <1>1, OnesProperties
<1>3. /\ Val(R, v, 1) = v /\ Val(R, v, Len(R) + 1) = v + s
      /\ \A n \in 1..Len(R) : Val(R, v, n + 1) = Val(R, v, n) + R[n].run
      /\ \A n \in 1..(Len(R) + 1) : Val(R, v, n) \in Nat
  BY <1>1, Places1
<1>4. From(R, v, 1) = Ones(R, v)
  <2>1. \A i \in Ones(R, v) : v <= i
    BY <1>2
  <2> QED
    BY <1>3, <2>1 DEF From
<1>5. From(R, v, Len(R) + 1) = {}
  <2>1. \A i \in Ones(R, v) : ~(v + s <= i)
    BY <1>2
  <2> QED
    BY <1>3, <2>1 DEF From
<1>6. \A n \in 1..(Len(R) + 1) : From(R, v, n) \in SUBSET Nat
  BY <1>2 DEF From
<1>7. ASSUME NEW n \in 1..Len(R)
      PROVE  From(R, v, n) = Ivl(R[n], Val(R, v, n)) \cup From(R, v, n + 1)
  <2>1. PICK P, Q \in Seq(Runs) : PartsAt(R, v, n, P, Q)
    BY AtRun
  <2>2. PICK w \in Nat : w = Val(R, v, n)
    <3>1. n \in 1..(Len(R) + 1)
      BY LenProperties
    <3> QED
      BY <1>3, <3>1
  <2>3. R[n] \in Runs
    BY ElementOfSeq
  <2>4. PICK r \in Nat : r = R[n].run
    BY <2>3, RunsType
  <2>5. /\ w = v + Span(P) /\ Val(R, v, n + 1) = w + r
        /\ Ones(R, v) = Ones(P, v) \cup Ones(<<R[n]>>, w) \cup Ones(Q, w + r)
    BY <1>3, <2>1, <2>2, <2>4, Zenon DEF PartsAt
  <2>6. Ones(<<R[n]>>, w) = Ivl(R[n], w)
    <3>1. Single1(R[n])
      BY <2>3, SingleRun
    <3> QED
      BY <3>1, Zenon DEF Single1
  <2>7. Ones(P, v) \subseteq v..(v + Span(P) - 1)
    BY OnesProperties
  <2>8. PICK p \in Nat : p = Span(P)
    BY SpanProperties
  <2>9. PICK q \in Nat : q = Span(Q)
    BY SpanProperties
  <2>10. Ones(Q, w + r) \subseteq (w + r)..(w + r + q - 1)
    <3>1. w + r \in Nat
      OBVIOUS
    <3> QED
      BY <2>9, <3>1, OnesProperties
  <2>11. Ivl(R[n], w) \subseteq w..(w + r - 1)
    BY <2>4 DEF Ivl
  <2>12. \A i \in Ones(P, v) : i \in Int /\ i < w
    BY <2>5, <2>7, <2>8
  <2>13. \A i \in Ivl(R[n], w) : i \in Int /\ w <= i /\ ~(w + r <= i)
    BY <2>11
  <2>14. \A i \in Ones(Q, w + r) : i \in Int /\ w <= i /\ w + r <= i
    BY <2>10
  <2>15. \A i \in Ones(P, v) : ~(w <= i) /\ ~(w + r <= i)
    BY <2>12
  <2>16. PICK X, Y, Z : X = Ones(P, v) /\ Y = Ivl(R[n], w) /\ Z = Ones(Q, w + r)
    OBVIOUS
  <2>17. {i \in X \cup Y \cup Z : w <= i} = Y \cup {i \in X \cup Y \cup Z : w + r <= i}
    BY <2>13, <2>14, <2>15, <2>16, Zenon
  <2> QED
    BY <2>2, <2>5, <2>6, <2>16, <2>17, Zenon DEF From
<1> QED
  BY <1>4, <1>5, <1>6, <1>7

(* The recursion of Walk. *)
Stops(B) == {n \in DOMAIN B : B[n].run = 0}
Goings(B) == [n \in DOMAIN B |-> NextOnes(B, n + 1)]
Yields(B) == [n \in DOMAIN B |-> IF B[n].run = 0 THEN <<>> ELSE ValuesOf(B[n])]
Walker(B) == CHOOSE f : ReadsOn(f, DOMAIN B, Stops(B), Yields(B), Goings(B))

(* Walk is its recursion, from the first run of 1s on. *)
LEMMA WalkRecursion ==
  ASSUME NEW B
  PROVE  Walk(B) = Walker(B)[NextOnes(B, 1)]
<1> DEFINE F(f) == [n \in DOMAIN B |->
                      IF B[n].run = 0 THEN <<>> ELSE ValuesOf(B[n]) \o f[NextOnes(B, n + 1)]]
           G(f) == [n \in DOMAIN B |-> IF n \in Stops(B) THEN Yields(B)[n]
                                       ELSE Yields(B)[n] \o f[Goings(B)[n]]]
<1>1. ASSUME NEW f PROVE F(f) = G(f)
  <2>1. ASSUME NEW n \in DOMAIN B PROVE F(f)[n] = G(f)[n]
    <3>1. /\ Yields(B)[n] = IF B[n].run = 0 THEN <<>> ELSE ValuesOf(B[n])
          /\ Goings(B)[n] = NextOnes(B, n + 1)
          /\ (n \in Stops(B) <=> B[n].run = 0)
      BY DEF Yields, Goings, Stops
    <3> QED
      BY <3>1
  <2> QED
    BY <2>1
<1>2. Walk(B) = (CHOOSE f : f = F(f))[NextOnes(B, 1)]
  BY Zenon DEF Walk
<1>3. \A f : f = F(f) <=> ReadsOn(f, DOMAIN B, Stops(B), Yields(B), Goings(B))
  <2> HIDE DEF F
  <2> QED
    BY <1>1, Zenon DEF ReadsOn, G
<1>4. (CHOOSE f : f = F(f)) = Walker(B)
  <2> HIDE DEF F
  <2> QED
    BY <1>3 DEF Walker
<1> QED
  BY <1>2, <1>4, Zenon

(* An iterator goes through a run of 1s, then on to the next such run. *)
LEMMA WalkerSteps ==
  ASSUME NEW R \in Seq(Runs), NEW v \in Nat, NEW B, B = BlocksFor(R, v)
  PROVE  /\ Walker(B)[Len(R) + 1] = <<>>
         /\ \A n \in 1..Len(R) : Walker(B)[n] = ValuesOf(B[n]) \o Walker(B)[NextOnes(B, n + 1)]
<1>1. PICK l \in Nat : l = Len(R)
  BY LenProperties
<1>2. DOMAIN B = 1..(l + 1)
  BY <1>1, BlocksForType
<1>3. BitsAre(R, B)
  BY BitsAreThere
<1>4. /\ B[l + 1].run = 0 /\ \A n \in 1..l : B[n].run # 0
  BY <1>1, <1>3, Zenon DEF BitsAre
<1>5. \A n \in 1..(l + 1) : NextOnes(B, n) \in n..(l + 1)
  <2>1. \A n \in 1..(l + 1) : NextFacts(R, B, n)
    BY <1>1, <1>3, NextIs
  <2> QED
    BY <1>1, <2>1, Zenon DEF NextFacts
<1>6. \E f : ReadsOn(f, DOMAIN B, Stops(B), Yields(B), Goings(B))
  <2>1. PICK rank : rank = [n \in 1..(l + 1) |-> n]
    OBVIOUS
  <2>2. ASSUME NEW n \in DOMAIN B \ Stops(B)
        PROVE  Goings(B)[n] \in DOMAIN B /\ rank[n] < rank[Goings(B)[n]]
    <3>1. n \in 1..l
      <4>1. n \in 1..(l + 1) /\ n # l + 1
        BY <1>2, <1>4 DEF Stops
      <4> QED
        BY <4>1
    <3>2. n + 1 \in 1..(l + 1) /\ n \in 1..(l + 1)
      BY <3>1
    <3>3. PICK m \in (n + 1)..(l + 1) : m = NextOnes(B, n + 1)
      BY <1>5, <3>2
    <3>4. Goings(B)[n] = m
      BY <1>2, <3>2, <3>3 DEF Goings
    <3>5. m \in 1..(l + 1) /\ n < m
      BY <3>1
    <3> QED
      BY <1>2, <2>1, <3>2, <3>4, <3>5
  <2>3. \A n \in DOMAIN B : rank[n] \in 0..(l + 1)
    BY <1>2, <2>1
  <2>4. GoesOn(DOMAIN B, Stops(B), Goings(B), rank, l + 1)
    BY <2>2, <2>3, Zenon DEF GoesOn
  <2>5. l + 1 \in Nat
    OBVIOUS
  <2> QED
    BY <2>4, <2>5, ReadingEnds
<1>7. ReadsOn(Walker(B), DOMAIN B, Stops(B), Yields(B), Goings(B))
  BY <1>6, Zenon DEF Walker
<1>8. PICK W : W = Walker(B)
  OBVIOUS
<1>9. W = [n \in DOMAIN B |-> IF n \in Stops(B) THEN Yields(B)[n] ELSE Yields(B)[n] \o W[Goings(B)[n]]]
  BY <1>7, <1>8, Zenon DEF ReadsOn
<1>10. W[l + 1] = <<>>
  <2>1. l + 1 \in DOMAIN B
    BY <1>2
  <2>2. l + 1 \in Stops(B) /\ Yields(B)[l + 1] = <<>>
    BY <1>4, <2>1 DEF Stops, Yields
  <2> QED
    BY <1>9, <2>1, <2>2, Zenon
<1>11. ASSUME NEW n \in 1..l
       PROVE  W[n] = ValuesOf(B[n]) \o W[NextOnes(B, n + 1)]
  <2>1. n \in DOMAIN B
    BY <1>2
  <2>2. n \notin Stops(B) /\ Yields(B)[n] = ValuesOf(B[n]) /\ Goings(B)[n] = NextOnes(B, n + 1)
    BY <1>4, <2>1 DEF Stops, Yields, Goings
  <2> QED
    BY <1>9, <2>1, <2>2, Zenon
<1> QED
  BY <1>1, <1>8, <1>10, <1>11, Zenon

(* An iterator meets the 1s, in order and each once. *)
LEMMA Walked ==
  ASSUME NEW R \in Seq(Runs), NEW v \in Nat
  PROVE  Walk(BlocksFor(R, v)) = Vector(Ones(R, v)) /\ IsFiniteSet(Ones(R, v))
<1>1. PICK l \in Nat : l = Len(R)
  BY LenProperties
<1>2. PICK B : B = BlocksFor(R, v)
  OBVIOUS
<1>3. \A n \in 1..(l + 1) : NextFacts(R, B, n)
  BY <1>1, <1>2, BitsAreThere, NextIs
<1>4. /\ From(R, v, 1) = Ones(R, v) /\ From(R, v, l + 1) = {}
      /\ \A n \in 1..(l + 1) : From(R, v, n) \in SUBSET Nat
      /\ \A n \in 1..l : From(R, v, n) = Ivl(R[n], Val(R, v, n)) \cup From(R, v, n + 1)
  BY <1>1, OnesFrom
<1>5. /\ Walker(B)[l + 1] = <<>>
      /\ \A n \in 1..l : Walker(B)[n] = ValuesOf(B[n]) \o Walker(B)[NextOnes(B, n + 1)]
  BY <1>1, <1>2, WalkerSteps
<1> DEFINE Good(n) == Walker(B)[NextOnes(B, n)] = Vector(From(R, v, n)) /\ IsFiniteSet(From(R, v, n))
           T == {k \in 0..l : Good(l + 1 - k)}
<1>6. 0 \in T
  <2>1. l + 1 - 0 = l + 1 /\ 0 \in 0..l /\ l + 1 \in 1..(l + 1)
    OBVIOUS
  <2>2. NextOnes(B, l + 1) = l + 1
    BY <1>1, <1>3, <2>1, Zenon DEF NextFacts
  <2>3. Good(l + 1)
    BY <1>4, <1>5, <2>2, VectorEmpty, Zenon
  <2> HIDE DEF Good
  <2> QED
    BY <2>1, <2>3
<1>7. ASSUME NEW k \in 0..(l - 1), k \in T
      PROVE  k + 1 \in T
  <2>1. PICK n \in 1..l : n = l - k
    OBVIOUS
  <2>2. /\ n + 1 = l + 1 - k /\ n = l + 1 - (k + 1) /\ k + 1 \in 0..l /\ n + 1 \in 1..(l + 1)
        /\ n \in 1..(l + 1) /\ n <= l
    BY <2>1
  <2>3. Good(n + 1)
    <3> HIDE DEF Good
    <3> QED
      BY <1>7, <2>2
  <2>4. NextFacts(R, B, n)
    BY <1>3, <2>2
  <2>5. From(R, v, n) = Ivl(R[n], Val(R, v, n)) \cup From(R, v, n + 1)
    BY <1>4
  <2>6. R[n] \in Runs /\ R[n].bit \in 0..1
    BY <1>1, ElementOfSeq, RunsType
  <2>7. CASE R[n].bit = 0
    <3>1. NextOnes(B, n) = NextOnes(B, n + 1)
      BY <1>1, <2>2, <2>4, <2>7, Zenon DEF NextFacts
    <3>2. From(R, v, n) = From(R, v, n + 1)
      <4>1. Ivl(R[n], Val(R, v, n)) = {}
        BY <2>7 DEF Ivl
      <4>2. \A S : {} \cup S = S
        OBVIOUS
      <4> QED
        BY <2>5, <4>1, <4>2, Zenon
    <3>3. Good(n)
      BY <2>3, <3>1, <3>2, Zenon
    <3> HIDE DEF Good
    <3> QED
      BY <2>2, <3>3
  <2>8. CASE R[n].bit = 1
    <3>1. NextOnes(B, n) = n
      BY <1>1, <2>2, <2>4, <2>8, Zenon DEF NextFacts
    <3>2. PICK w \in Nat : w = Val(R, v, n)
      BY <1>1, <2>2, Places1
    <3>3. PICK r \in Nat : r = R[n].run
      BY <2>6, RunsType
    <3>4. B[n].value = w /\ B[n].run = r
      <4>1. BlockIs(R, v, B, n)
        BY <1>1, <1>2, BlockIsThere
      <4> QED
        BY <3>2, <3>3, <4>1, Zenon DEF BlockIs
    <3>5. PICK S \in SUBSET Nat : S = w..(w + r - 1) /\ ValuesOf(B[n]) = Vector(S) /\ IsFiniteSet(S)
      <4>1. ValuesOf(B[n]) = Vector(w..(w + r - 1)) /\ IsFiniteSet(w..(w + r - 1))
        BY <3>4, ValuesVector
      <4>2. w..(w + r - 1) \in SUBSET Nat
        OBVIOUS
      <4> QED
        BY <4>1, <4>2
    <3>6. PICK U \in SUBSET Nat : U = From(R, v, n + 1) /\ IsFiniteSet(U)
                                  /\ Walker(B)[NextOnes(B, n + 1)] = Vector(U)
      BY <1>4, <2>2, <2>3
    <3>7. Above(S, U)
      <4>1. Val(R, v, n + 1) = w + r
        BY <1>1, <3>2, <3>3, Places1
      <4>2. \A i \in U : w + r <= i
        BY <3>6, <4>1 DEF From
      <4> QED
        BY <3>5, <4>2 DEF Above
    <3>8. VectorsJoin(S, U)
      BY <3>5, <3>6, <3>7, VectorConcat
    <3>9. From(R, v, n) = S \cup U
      BY <2>5, <2>8, <3>2, <3>3, <3>5, <3>6, Zenon DEF Ivl
    <3>10. IsFiniteSet(S \cup U)
      BY <3>5, <3>6, FS_Union
    <3>11. Walker(B)[n] = ValuesOf(B[n]) \o Walker(B)[NextOnes(B, n + 1)]
      BY <1>5
    <3>12. Good(n)
      BY <3>1, <3>5, <3>6, <3>8, <3>9, <3>10, <3>11, Zenon DEF VectorsJoin
    <3> HIDE DEF Good
    <3> QED
      BY <2>2, <3>12
  <2> QED
    BY <2>6, <2>7, <2>8
<1>8. \A k \in 0..l : k \in T
  <2> HIDE DEF T
  <2> QED
    BY <1>6, <1>7, IntervalInduction
<1>9. Good(1)
  <2>1. l \in 0..l /\ l + 1 - l = 1
    OBVIOUS
  <2>2. l \in T
    BY <1>8, <2>1
  <2> HIDE DEF Good
  <2> QED
    BY <2>1, <2>2
<1> QED
  BY <1>2, <1>4, <1>9, WalkRecursion, Zenon

=============================================================================
