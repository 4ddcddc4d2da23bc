------------------------ MODULE SparseVersionsProofs ------------------------
(***************************************************************************)
(* Proofs about both versions of sparse_bit_array, for every set of        *)
(* positions, every sequence of calls and all thresholds from those of     *)
(* FramesAssumption on.  The invariant: each version holds a canonical     *)
(* string, or list of such strings that cover all positions, of exactly    *)
(* what was asked for, as long as it is sound.                             *)
(***************************************************************************)
EXTENDS SparseVersions, RunLengthProofs

-----------------------------------------------------------------------------
(* The first version.                                                      *)

(* A string of runs, and what a reader makes of it. *)
Spells(data, R, T) == R \in Seq(Runs) /\ T \in Terminators /\ data = Coded(R) \o T

(* Canonical runs are a canonical string. *)
LEMMA CanonicalWhen ==
  ASSUME NEW data, NEW R, NEW T, Spells(data, R, T), Canon(R), NEW v \in Nat
  PROVE  CanonicalString(data, v)
<1>1. R \in Seq(Runs) /\ T \in Terminators /\ data = Coded(R) \o T
  BY Zenon DEF Spells
<1>2. PICK B : B = BlocksFor(R, v)
  OBVIOUS
<1>3. BlocksOf(data, v) = B
  BY <1>1, <1>2, BlocksRead
<1>4. PICK l \in Nat : l = Len(R) /\ l # 0
  <2>1. R # <<>>
    BY Zenon DEF Canon
  <2>2. Len(R) \in Nat /\ Len(R) # 0
    BY <1>1, <2>1, LenProperties, EmptySeq
  <2> QED
    BY <2>2
<1>5. /\ Len(B) = l + 1 /\ Last(B) = B[l + 1] /\ B[l + 1].at = 1 + Len(Coded(R))
      /\ \A n \in 1..l : /\ R[n] \in Runs /\ B[n].length = blocklength(R[n].run)
                         /\ B[n].bit = R[n].bit /\ B[n].run = R[n].run
  <2>1. At(R, l + 1) = 1 + Len(Coded(R))
    BY <1>1, <1>4, Places1
  <2>2. /\ Len(B) = Len(R) + 1 /\ Last(B) = B[Len(R) + 1]
        /\ \A n \in 1..Len(R) : /\ R[n] \in Runs /\ B[n].length = blocklength(R[n].run)
                                /\ B[n].bit = R[n].bit /\ B[n].run = R[n].run
        /\ B[Len(R) + 1].at = At(R, Len(R) + 1)
    BY <1>1, <1>2, Fields
  <2> QED
    BY <1>4, <2>1, <2>2, Zenon
<1>6. 1 \in 1..l /\ l + 1 > 1 /\ (l + 1) - 1 = l
  BY <1>4
<1>7. R[1].bit = 0 /\ \A n \in 2..l : R[n].bit # R[n - 1].bit
  BY <1>4, Zenon DEF Canon, Alternates
<1>8. ASSUME NEW n \in 1..l
      PROVE  B[n].length = blocklength(B[n].run) /\ B[n].run < 2^29
  <2>1. R[n].run < 2^29
    <3>1. R[n].run \in 1..MaxRun
      BY <1>5, RunsType
    <3> QED
      BY SMT, <3>1 DEF MaxRun
  <2> QED
    BY <1>5, <2>1, Zenon
<1>9. ASSUME NEW n \in 2..l
      PROVE  B[n].bit # B[n - 1].bit
  <2>1. n \in 1..l /\ n - 1 \in 1..l
    OBVIOUS
  <2> QED
    BY <1>5, <1>7, <2>1, Zenon
<1>10. Last(B).at \in {Len(data), Len(data) + 1}
  <2>1. PICK c \in Seq(Bytes) : c = Coded(R)
    BY <1>1, CodedProperties
  <2>2. PICK i \in Nat : i = Len(c)
    BY LenProperties
  <2>3. Last(B).at = 1 + i
    BY <1>5, <2>1, <2>2, Zenon
  <2>4. T \in Seq(Bytes) /\ Len(T) \in 0..1
    <3>1. T \in Seq(Bytes)
      BY <1>1, TerminatorBytes
    <3>2. Len(<<0>>) \in 0..1 /\ Len(<<>>) \in 0..1
      BY EmptySeq
    <3>3. T = <<>> \/ T = <<0>>
      BY <1>1, Zenon DEF Terminators
    <3> QED
      BY <3>1, <3>2, <3>3, Zenon
  <2>5. PICK t \in Seq(Bytes) : t = T
    BY <2>4
  <2>6. Len(c \o t) = i + Len(t)
    BY <2>2, ConcatProperties
  <2>7. Len(data) = i + Len(t)
    BY <1>1, <2>1, <2>5, <2>6, Zenon
  <2>8. PICK j \in 0..1 : j = Len(t)
    BY <2>4, <2>5
  <2>9. 1 + i = i + j \/ 1 + i = i + j + 1
    OBVIOUS
  <2>10. Len(data) = i + j
    BY <2>7, <2>8, Zenon
  <2> QED
    BY <2>3, <2>9, <2>10, Zenon
<1> QED
  BY <1>3, <1>5, <1>6, <1>7, <1>8, <1>9, <1>10, Zenon DEF CanonicalString

(* The first position of a canonical string is never a 1. *)
LEMMA CanonAbove ==
  ASSUME NEW R \in Seq(Runs), NEW v \in Nat, Canon(R)
  PROVE  /\ \A b \in Ones(R, v) : b \in Nat /\ v < b
         /\ Len(R) \in Nat \ {0} /\ Span(R) \in Nat \ {0}
<1>1. R # <<>> /\ R[1].bit = 0
  BY Zenon DEF Canon
<1>2. PICK l \in Nat : l = Len(R) /\ l # 0
  <2>1. Len(R) \in Nat /\ Len(R) # 0
    BY <1>1, LenProperties, EmptySeq
  <2> QED
    BY <2>1
<1>3. 1 \in 1..l /\ 1 \in 1..(l + 1) /\ l + 1 \in (1 + 1)..(l + 1) /\ 1 + 1 \in 1..(l + 1)
  BY <1>2
<1>4. PICK r \in Nat : r = R[1].run /\ r # 0
  BY <1>2, <1>3, ElementOfSeq, RunsType
<1>5. From(R, v, 1) = Ones(R, v) /\ From(R, v, 1) = Ivl(R[1], Val(R, v, 1)) \cup From(R, v, 1 + 1)
  BY <1>2, <1>3, OnesFrom
<1>6. Ivl(R[1], Val(R, v, 1)) = {}
  BY <1>1 DEF Ivl
<1>7. Val(R, v, 1) = v /\ Val(R, v, 1 + 1) = Val(R, v, 1) + R[1].run
  BY <1>2, <1>3, Places1
<1>8. \A b \in Ones(R, v) : v + r <= b
  <2>1. \A b \in From(R, v, 1 + 1) : v + r <= b
    BY <1>4, <1>7 DEF From
  <2> QED
    BY <1>5, <1>6, <2>1
<1>9. Ones(R, v) \subseteq Nat
  BY OnesProperties
<1>10. \A b \in Ones(R, v) : b \in Nat /\ v < b
  BY <1>4, <1>8, <1>9
<1>11. Span(R) \in Nat \ {0}
  <2>1. Val(R, v, 1) + R[1].run <= Val(R, v, l + 1)
    BY <1>2, <1>3, ValAscends
  <2>2. Val(R, v, l + 1) = v + Span(R)
    BY <1>2, Places1
  <2>3. PICK s \in Nat : s = Span(R)
    BY SpanProperties
  <2>4. v + r <= v + s
    BY <1>4, <1>7, <2>1, <2>2, <2>3, Zenon
  <2>5. s # 0
    BY <1>4, <2>4
  <2> QED
    BY <2>3, <2>5
<1> QED
  BY <1>2, <1>10, <1>11

(* The string an array starts with. *)
LEMMA FirstString ==
  \E R \in Seq(Runs), T \in Terminators :
    /\ encode(0, 1) \o <<0>> = Coded(R) \o T
    /\ Canon(R) /\ Span(R) = 1 /\ \A v \in Nat : Ones(R, v) = {}
<1>1. PICK most \in Nat : most = MaxRun /\ 1 <= most
  BY MaxRunType
<1>2. PICK x \in Runs : x.bit = 0 /\ x.run = 1
  <2>1. 1 \in Nat /\ 1 # 0 /\ 0 \in 0..1
    OBVIOUS
  <2> QED
    BY <1>1, <2>1, RunsMade
<1>3. Single1(x)
  BY SingleRun
<1>4. /\ <<x>> \in Seq(Runs) /\ <<x>> # <<>> /\ Alternates(<<x>>) /\ <<x>>[1] = x
      /\ Span(<<x>>) = 1 /\ Coded(<<x>>) = encode(0, 1)
      /\ \A v \in Nat : Ones(<<x>>, v) = Ivl(x, v)
  BY <1>2, <1>3, Zenon DEF Single1
<1>5. \A v \in Nat : Ivl(x, v) = {}
  BY <1>2 DEF Ivl
<1>6. Canon(<<x>>)
  BY <1>2, <1>4, Zenon DEF Canon
<1>7. <<0>> \in Terminators
  BY Zenon DEF Terminators
<1> QED
  BY <1>4, <1>5, <1>6, <1>7, Zenon

(* The coding is the same for both versions. *)
LEMMA FirstCoding ==
  /\ \A data, v : First!BlocksOf(data, v) = BlocksOf(data, v)
  /\ \A bit, run : First!encode(bit, run) = encode(bit, run)
  /\ \A blocks, index : First!FoundIn(blocks, index) = FoundIn(blocks, index)
<1> USE DEF First!BlocksOf, First!block, First!Byte, First!blockend, BlocksOf, block, Byte, blockend,
            First!encode, First!ByteOf, First!blocklength, encode, ByteOf, blocklength,
            First!FoundIn, FoundIn
<1>1. \A data, v : First!BlocksOf(data, v) = BlocksOf(data, v)
  OBVIOUS
<1>2. \A bit, run : First!encode(bit, run) = encode(bit, run)
  OBVIOUS
<1>3. \A blocks, index : First!FoundIn(blocks, index) = FoundIn(blocks, index)
  OBVIOUS
<1> QED
  BY <1>1, <1>2, <1>3

(* The first version reads the 1s as the second does. *)
LEMMA FirstBits == \A data, v : First!BitsOf(data, v) = BitsOf(data, v)
BY FirstCoding DEF First!BitsOf, BitsOf

(* The first version rewrites as the second does. *)
LEMMA FirstRewriting ==
  ASSUME NEW data, NEW blocks, NEW index, NEW newval, NEW terminator
  PROVE  /\ First!Rewritten(data, blocks, index, newval, terminator)
              = Rewritten(data, blocks, index, newval, terminator)
         /\ First!Resizes(blocks, index) = Resizes(blocks, index)
<1>1. First!Rewritten(data, blocks, index, newval, terminator)
              = Rewritten(data, blocks, index, newval, terminator)
  BY DEF First!Rewritten, Rewritten, First!FoundIn, FoundIn, First!AddAtEnd, AddAtEnd, First!Join, Join, First!TradeWithPrev, TradeWithPrev,
 First!TradeWithNext, TradeWithNext, First!Split, Split, First!Replaced, Replaced, First!encode, encode, First!ByteOf, ByteOf,
 First!blocklength, blocklength, First!blockend, blockend, First!Last, Last
<1>2. First!Resizes(blocks, index) = Resizes(blocks, index)
  BY DEF First!Resizes, Resizes, First!FoundIn, FoundIn, First!blocklength, blocklength
<1> QED
  BY <1>1, <1>2

(* The first version has the iterator of the second. *)
LEMMA FirstWalk == \A blocks : First!Walk(blocks) = Walk(blocks)
BY DEF First!Walk, Walk, First!NextOnes, NextOnes, First!ValuesOf, ValuesOf

(* The first version has the coding of the second. *)
LEMMA FirstCanonical == \A data, v : First!CanonicalString(data, v) = CanonicalString(data, v)
BY DEF First!CanonicalString, CanonicalString, First!BlocksOf, First!block, First!Byte, First!blockend,
       BlocksOf, block, Byte, blockend, First!blocklength, blocklength, First!Last, Last

(* The properties of the first version, in the terms of the second. *)
LEMMA FirstProps ==
  /\ First!Blocks = BlocksOf(rledata, 0)
  /\ First!Bits = BitsOf(rledata, 0)
  /\ First!TypeOK <=> rledata \in Seq(0..255) /\ count \in Nat /\ garbled \in BOOLEAN
  /\ First!Canonical <=> (~garbled => CanonicalString(rledata, 0))
  /\ First!ReadsExact <=>
       (~garbled =>
          /\ count = Cardinality(BitsOf(rledata, 0))
          /\ ToSet(Walk(BlocksOf(rledata, 0))) = BitsOf(rledata, 0)
          /\ \A n \in 2..Len(Walk(BlocksOf(rledata, 0))) :
               Walk(BlocksOf(rledata, 0))[n - 1] < Walk(BlocksOf(rledata, 0))[n])
<1>1. First!Blocks = BlocksOf(rledata, 0)
  BY FirstCoding DEF First!Blocks
<1>2. First!Bits = BitsOf(rledata, 0)
  BY FirstBits DEF First!Bits
<1>3. First!TypeOK <=> rledata \in Seq(0..255) /\ count \in Nat /\ garbled \in BOOLEAN
  BY DEF First!TypeOK
<1>4. First!Canonical <=> (~garbled => CanonicalString(rledata, 0))
  BY FirstCanonical DEF First!Canonical
<1>5. First!ReadsExact <=>
       (~garbled =>
          /\ count = Cardinality(BitsOf(rledata, 0))
          /\ ToSet(Walk(BlocksOf(rledata, 0))) = BitsOf(rledata, 0)
          /\ \A n \in 2..Len(Walk(BlocksOf(rledata, 0))) :
               Walk(BlocksOf(rledata, 0))[n - 1] < Walk(BlocksOf(rledata, 0))[n])
  <2>1. \A s : First!ToSet(s) = ToSet(s)
    BY DEF First!ToSet, ToSet
  <2>2. \A S : First!Cardinality(S) = Cardinality(S)
    BY DEF First!Cardinality, Cardinality
  <2> QED
    BY <1>1, <1>2, <2>1, <2>2, FirstWalk DEF First!ReadsExact
<1> QED
  BY <1>1, <1>2, <1>3, <1>4, <1>5

(* How far a canonical string reaches that no join has lengthened. *)
Reach == MaxRun - MaxJoins - 1

(* How far a set can reach, and that encode accepts runs of that length. *)
LEMMA ReachType ==
  /\ MaxJoins \in Nat \ {0} /\ Reach \in Nat /\ 1 <= Reach /\ Reach + MaxJoins + 1 = MaxRun
  /\ \A index \in Indices : index \in Nat \ {0} /\ 2 * index <= Reach /\ 2 * index <= MaxRun
<1>1. MaxJoins \in Nat \ {0} /\ Indices \subseteq Nat \ {0}
  BY FramesAssumption
<1>2. \A index \in Indices \cup {0} : 2 * index + MaxJoins + 2 < 2^29
  BY FramesAssumption
<1>3. 2 * 0 + MaxJoins + 2 < 536870912
  BY SMT, <1>2, Powers
<1>4. Reach \in Nat /\ 1 <= Reach /\ Reach + MaxJoins + 1 = MaxRun
  <2>1. MaxRun = 536870911
    BY SMT, Powers DEF MaxRun
  <2> QED
    BY SMT, <1>1, <1>3, <2>1 DEF Reach
<1>5. ASSUME NEW index \in Indices
      PROVE  index \in Nat \ {0} /\ 2 * index <= Reach /\ 2 * index <= MaxRun
  <2>1. index \in Nat \ {0}
    BY <1>1
  <2>2. 2 * index + MaxJoins + 2 < 536870912
    BY SMT, <1>2, Powers
  <2>3. MaxRun = 536870911
    BY SMT, Powers DEF MaxRun
  <2> QED
    BY SMT, <1>1, <2>1, <2>2, <2>3 DEF Reach
<1> QED
  BY <1>1, <1>4, <1>5

(* The first version: a canonical string of what was asked for. *)
Holds1(data, S, n) ==
  \E R \in Seq(Runs), T \in Terminators :
    /\ data = Coded(R) \o T /\ Canon(R) /\ Span(R) <= Reach
    /\ S = Ones(R, 0) /\ IsFiniteSet(S) /\ n = Cardinality(S)

FirstInv ==
  /\ rledata \in Seq(Bytes) /\ count \in Nat /\ garbled \in BOOLEAN /\ asked1 \in SUBSET Nat
  /\ ~garbled => Holds1(rledata, asked1, count)

(* A call of the first version that changes a bit, as a whole. *)
Rewrites1(data, S, n, index, newval, data2, S2, n2) ==
  LET B == BlocksOf(data, 0) IN
  /\ B[FoundIn(B, index)].bit # newval
  /\ data2 = Rewritten(data, B, index, newval, <<>>)
  /\ n2 = IF newval = 1 THEN n + 1 ELSE n - 1
  /\ S2 = Changed(S, index + Over(newval, B, index), newval)

Held1(data, S, n, index, data2, S2, n2) ==
  /\ data2 \in Seq(Bytes) /\ n2 \in Nat /\ S2 \in SUBSET Nat
  /\ ~Resizes(BlocksOf(data, 0), index) => Holds1(data2, S2, n2)

(* A bit that changes is counted. *)
LEMMA Counts ==
  ASSUME NEW S \in SUBSET Nat, IsFiniteSet(S), NEW i \in Nat, NEW newval \in 0..1,
         newval = 1 => i \notin S, newval = 0 => i \in S,
         NEW n, n = IF newval = 1 THEN Cardinality(S) + 1 ELSE Cardinality(S) - 1
  PROVE  /\ Changed(S, i, newval) \in SUBSET Nat /\ IsFiniteSet(Changed(S, i, newval))
         /\ n = Cardinality(Changed(S, i, newval)) /\ n \in Nat
<1>1. CASE newval = 1
  <2>1. Changed(S, i, newval) = S \cup {i} /\ n = Cardinality(S) + 1
    BY <1>1, Zenon DEF Changed
  <2>2. IsFiniteSet(S \cup {i}) /\ Cardinality(S \cup {i}) = Cardinality(S) + 1
    BY <1>1, FS_AddElement
  <2>3. Cardinality(S) \in Nat
    BY FS_CardinalityType
  <2> QED
    BY <2>1, <2>2, <2>3
<1>2. CASE newval = 0
  <2>1. Changed(S, i, newval) = S \ {i} /\ n = Cardinality(S) - 1
    <3>1. 0 # 1
      OBVIOUS
    <3> QED
      BY <1>2, <3>1, Zenon DEF Changed
  <2>2. IsFiniteSet(S \ {i}) /\ Cardinality(S \ {i}) = Cardinality(S) - 1
    BY <1>2, FS_RemoveElement
  <2>3. Cardinality(S \ {i}) \in Nat
    BY <2>2, FS_CardinalityType
  <2> QED
    BY <2>1, <2>2, <2>3
<1> QED
  BY <1>1, <1>2

(* A call of the first version that changes a bit keeps a string of what   *)
(* was asked for, or garbles it.                                           *)
LEMMA FirstStep ==
  ASSUME NEW data, NEW S \in SUBSET Nat, NEW n, Holds1(data, S, n), NEW index \in Indices, NEW newval \in 0..1,
         NEW data2, NEW S2, NEW n2, Rewrites1(data, S, n, index, newval, data2, S2, n2)
  PROVE  Held1(data, S, n, index, data2, S2, n2)
<1>1. PICK R \in Seq(Runs), T \in Terminators :
         /\ data = Coded(R) \o T /\ Canon(R) /\ Span(R) <= Reach
         /\ S = Ones(R, 0) /\ IsFiniteSet(S) /\ n = Cardinality(S)
  BY Zenon DEF Holds1
<1>2. PICK B : B = BlocksFor(R, 0)
  OBVIOUS
<1>3. 0 \in Nat
  OBVIOUS
<1>4. BlocksOf(data, 0) = B
  BY <1>1, <1>2, <1>3, BlocksRead
<1>5. /\ B[FoundIn(B, index)].bit # newval
      /\ data2 = Rewritten(data, B, index, newval, <<>>)
      /\ n2 = IF newval = 1 THEN n + 1 ELSE n - 1
      /\ S2 = Changed(S, index + Over(newval, B, index), newval)
  BY <1>4, Zenon DEF Rewrites1
<1>6. index \in Nat \ {0} /\ 2 * index <= Reach /\ 2 * index <= MaxRun
  BY ReachType
<1>7. PICK s \in Nat : s = Span(R)
  BY SpanProperties
<1>8. PICK most \in Nat : most = MaxRun
  BY MaxRunType
<1>9. PICK reach \in Nat : reach = Reach /\ reach <= most
  <2>1. Reach \in Nat /\ MaxJoins \in Nat /\ Reach + MaxJoins + 1 = most
    BY <1>8, ReachType
  <2> QED
    BY <2>1
<1>10. Asked(R, 0, index, newval)
  <2>1. 0 < index
    BY <1>6
  <2>2. 0 + Span(R) <= MaxRun
    <3>1. 0 + s <= most
      BY <1>1, <1>7, <1>9
    <3> QED
      BY <1>7, <1>8, <3>1
  <2> QED
    BY <1>1, <1>2, <1>5, <1>6, <2>1, <2>2, Zenon DEF Asked
<1>11. <<>> \in Terminators
  BY Zenon DEF Terminators
<1>12. WellRewritten(R, T, 0, index, newval, <<>>, B)
  <2>1. index \in Nat
    BY <1>6
  <2> QED
    BY <1>2, <1>3, <1>10, <1>11, <2>1, RewritesWell
<1>13. PICK over \in Nat : over = Over(newval, B, index)
  BY <1>12, Zenon DEF WellRewritten
<1>14. /\ newval = 1 => index + over \notin S
       /\ newval = 0 => index \in S /\ over = 0
  BY <1>1, <1>12, <1>13, Zenon DEF WellRewritten
<1>15. PICK i \in Nat : i = index + over /\ (newval = 1 => i \notin S) /\ (newval = 0 => i \in S)
  <2>1. index + over \in Nat /\ (over = 0 => index + over = index)
    BY <1>6
  <2> QED
    BY <1>14, <2>1
<1>16. /\ S2 \in SUBSET Nat /\ IsFiniteSet(S2) /\ n2 = Cardinality(S2) /\ n2 \in Nat /\ S2 = Changed(S, i, newval)
  <2>1. S2 = Changed(S, i, newval)
    BY <1>5, <1>13, <1>15, Zenon
  <2>2. n2 = IF newval = 1 THEN Cardinality(S) + 1 ELSE Cardinality(S) - 1
    BY <1>1, <1>5, Zenon
  <2> QED
    BY <1>1, <1>15, <2>1, <2>2, Counts
<1>17. data2 \in Seq(Bytes)
  <2>1. index \in Nat
    BY <1>6
  <2>2. Rewritten(Coded(R) \o T, BlocksFor(R, 0), index, newval, <<>>) \in Seq(Bytes)
    BY <1>3, <1>10, <1>11, <2>1, RewrittenBytes
  <2> QED
    BY <1>1, <1>2, <1>5, <2>2, Zenon
<1>18. ASSUME ~Resizes(B, index)
       PROVE  Holds1(data2, S2, n2)
  <2>1. Rewrites(R, 0, index, newval, over, data2)
    BY <1>1, <1>5, <1>12, <1>13, <1>18, Zenon DEF WellRewritten
  <2>2. PICK R2 \in Seq(Runs), T2 \in Terminators :
          data2 = Coded(R2) \o T2 /\ Becomes(R, 0, index, newval, over, R2)
    BY <2>1, Zenon DEF Rewrites
  <2>3. /\ Canon(R2) /\ Ones(R2, 0) = Changed(Ones(R, 0), index + over, newval)
        /\ 0 + Span(R2) <= 0 + Span(R) \/ 0 + Span(R2) <= 2 * index
    BY <2>2, Zenon DEF Becomes
  <2>4. Span(R2) <= Reach
    <3>1. PICK s2 \in Nat : s2 = Span(R2)
      BY SpanProperties
    <3>2. 0 + s2 <= 0 + s \/ 0 + s2 <= 2 * index
      BY <1>7, <2>3, <3>1
    <3>3. s <= reach /\ 2 * index <= reach
      BY <1>1, <1>6, <1>7, <1>9
    <3>4. s2 <= reach
      BY <1>6, <3>2, <3>3
    <3> QED
      BY <1>9, <3>1, <3>4
  <2>5. S2 = Ones(R2, 0)
    BY <1>1, <1>15, <1>16, <2>3, Zenon
  <2> QED
    BY <1>16, <2>2, <2>3, <2>4, <2>5, Zenon DEF Holds1
<1> QED
  BY <1>4, <1>16, <1>17, <1>18, Zenon DEF Held1

(* A call of the first version, whether or not it changes a bit. *)
Stays1(index, newval) ==
  /\ LET B == BlocksOf(rledata, 0) IN
       B[FoundIn(B, index)].bit = newval /\ asked1' = Changed(asked1, index + Over(newval, B, index), newval)
  /\ rledata' = rledata /\ count' = count /\ garbled' = garbled
Calls1(index, newval) ==
  /\ ~garbled
  /\ \/ /\ Rewrites1(rledata, asked1, count, index, newval, rledata', asked1', count')
        /\ garbled' = Resizes(BlocksOf(rledata, 0), index)
     \/ Stays1(index, newval)

(* The calls of both versions are calls of the first. *)
LEMMA FirstCalled ==
  ASSUME NEW index \in Indices
  PROVE  /\ SetBoth(index) => Calls1(index, 1)
         /\ UnsetBoth(index) => Calls1(index, 0)
<1>1. index \in Nat
  BY ReachType
<1>2. index + 0 = index
  BY <1>1
<1>3. 1 # 0
  OBVIOUS
<1>4. PICK B : B = BlocksOf(rledata, 0)
  OBVIOUS
<1>5. First!Blocks = B /\ First!FoundIn(B, index) = FoundIn(B, index)
  BY <1>4, FirstProps, FirstCoding, Zenon
<1>6. First!BitAt(index) = B[FoundIn(B, index)].bit
  BY <1>5, Zenon DEF First!BitAt
<1>7. Beyond1(index) = Over(1, B, index)
  BY <1>4, <1>5, Zenon DEF Beyond1, Over
<1>8. ASSUME NEW newval, First!set(index, newval)
      PROVE  /\ B[FoundIn(B, index)].bit # newval
             /\ rledata' = Rewritten(rledata, B, index, newval, <<>>)
             /\ garbled' = Resizes(B, index)
  BY <1>5, <1>8, FirstRewriting, Zenon DEF First!set
<1>9. SetBoth(index) => Calls1(index, 1)
  <2> SUFFICES ASSUME SetBoth(index) PROVE Calls1(index, 1)
    OBVIOUS
  <2>1. ~garbled /\ asked1' = Changed(asked1, index + Over(1, B, index), 1)
    BY <1>7, Zenon DEF SetBoth, Changed
  <2>2. CASE First!setbit(index)
    <3>1. First!set(index, 1) /\ count' = count + 1
      BY <2>2, Zenon DEF First!setbit
    <3> QED
      BY <1>4, <1>8, <2>1, <3>1, Zenon DEF Calls1, Rewrites1
  <2>3. CASE First!BitAt(index) = 1 /\ UNCHANGED <<rledata, count, garbled>>
    BY <1>4, <1>6, <2>1, <2>3, Zenon DEF Calls1, Stays1
  <2> QED
    BY <2>2, <2>3, Zenon DEF SetBoth
<1>10. UnsetBoth(index) => Calls1(index, 0)
  <2> SUFFICES ASSUME UnsetBoth(index) PROVE Calls1(index, 0)
    OBVIOUS
  <2>0. Over(0, B, index) = 0
    BY <1>3, Zenon DEF Over
  <2>1. ~garbled /\ asked1' = Changed(asked1, index + Over(0, B, index), 0)
    BY <1>2, <1>3, <2>0, Zenon DEF UnsetBoth, Changed
  <2>2. CASE First!unsetbit(index)
    <3>1. First!set(index, 0) /\ count' = count - 1
      BY <2>2, Zenon DEF First!unsetbit
    <3> QED
      BY <1>3, <1>4, <1>8, <2>1, <3>1, Zenon DEF Calls1, Rewrites1
  <2>3. CASE First!BitAt(index) = 0 /\ UNCHANGED <<rledata, count, garbled>>
    BY <1>4, <1>6, <2>1, <2>3, Zenon DEF Calls1, Stays1
  <2> QED
    BY <2>2, <2>3, Zenon DEF UnsetBoth
<1> QED
  BY <1>9, <1>10

(* A call that finds the bit it asks for changes nothing. *)
LEMMA FoundAlready ==
  ASSUME NEW R \in Seq(Runs), NEW v \in Nat, NEW index \in Nat, v <= index, NEW newval \in 0..1,
         NEW B, B = BlocksFor(R, v), B[FoundIn(B, index)].bit = newval
  PROVE  /\ Over(newval, B, index) = 0
         /\ Changed(Ones(R, v), index + Over(newval, B, index), newval) = Ones(R, v)
<1>1. PICK n \in 1..(Len(R) + 1) : FindsAt(R, v, index, n)
  BY FindsPlace
<1>2. /\ B[n].bit = newval /\ B[n].bit = IF index \in Ones(R, v) THEN 1 ELSE 0
      /\ n = Len(R) + 1 => B[n].bit = 0
  BY <1>1, Zenon DEF FindsAt
<1>3. 1 # 0 /\ index + 0 = index /\ (n = Len(R) + 1 \/ n \in 1..Len(R)) /\ (newval = 1 \/ newval = 0)
  BY LenProperties
<1>4. CASE newval = 1
  <2>1. n \in 1..Len(R)
    BY <1>2, <1>3, <1>4, Zenon
  <2>2. Overshoot(B, index) = 0
    BY <1>1, <2>1, OvershootInside
  <2>3. Over(newval, B, index) = 0
    BY <1>4, <2>2, Zenon DEF Over
  <2>4. index \in Ones(R, v)
    BY <1>2, <1>3, <1>4, Zenon
  <2>5. index + Over(newval, B, index) = index
    BY <1>3, <2>3, Zenon
  <2>6. Ones(R, v) \cup {index} = Ones(R, v)
    BY <2>4, Zenon
  <2> QED
    BY <1>4, <2>3, <2>5, <2>6, Zenon DEF Changed
<1>5. CASE newval = 0
  <2>1. Over(newval, B, index) = 0
    BY <1>3, <1>5, Zenon DEF Over
  <2>2. index \notin Ones(R, v)
    BY <1>2, <1>3, <1>5, Zenon
  <2>3. index + Over(newval, B, index) = index
    BY <1>3, <2>1, Zenon
  <2>4. Ones(R, v) \ {index} = Ones(R, v)
    BY <2>2, Zenon
  <2> QED
    BY <1>3, <1>5, <2>1, <2>3, <2>4, Zenon DEF Changed
<1> QED
  BY <1>3, <1>4, <1>5

(* Every call of the first version keeps its invariant. *)
LEMMA FirstInvStep ==
  ASSUME FirstInv, NEW index \in Indices, NEW newval \in 0..1, Calls1(index, newval)
  PROVE  FirstInv'
<1>1. Holds1(rledata, asked1, count) /\ asked1 \in SUBSET Nat /\ ~garbled /\ rledata \in Seq(Bytes)
  BY Zenon DEF FirstInv, Calls1
<1>2. CASE /\ Rewrites1(rledata, asked1, count, index, newval, rledata', asked1', count')
           /\ garbled' = Resizes(BlocksOf(rledata, 0), index)
  <2>1. Held1(rledata, asked1, count, index, rledata', asked1', count')
    BY <1>1, <1>2, FirstStep
  <2>2. Resizes(BlocksOf(rledata, 0), index) \in BOOLEAN
    BY Zenon DEF Resizes
  <2> QED
    BY <1>2, <2>1, <2>2, Zenon DEF FirstInv, Held1
<1>3. CASE Stays1(index, newval)
  <2>1. PICK R \in Seq(Runs), T \in Terminators :
          /\ rledata = Coded(R) \o T /\ Canon(R) /\ Span(R) <= Reach
          /\ asked1 = Ones(R, 0) /\ IsFiniteSet(asked1) /\ count = Cardinality(asked1)
    BY <1>1, Zenon DEF Holds1
  <2>2. 0 \in Nat /\ index \in Nat /\ 0 <= index
    BY ReachType
  <2>3. PICK B : B = BlocksFor(R, 0)
    OBVIOUS
  <2>4. BlocksOf(rledata, 0) = B
    BY <2>1, <2>2, <2>3, BlocksRead
  <2>5. B[FoundIn(B, index)].bit = newval /\ asked1' = Changed(asked1, index + Over(newval, B, index), newval)
    BY <1>3, <2>4, Zenon DEF Stays1
  <2>6. Changed(Ones(R, 0), index + Over(newval, B, index), newval) = Ones(R, 0)
    BY <2>2, <2>3, <2>5, FoundAlready
  <2>7. asked1' = asked1 /\ rledata' = rledata /\ count' = count /\ garbled' = garbled
    BY <1>3, <2>1, <2>5, <2>6, Zenon DEF Stays1
  <2> QED
    BY <2>7, Zenon DEF FirstInv
<1> QED
  BY <1>2, <1>3, Zenon DEF Calls1

(* The first version begins with its invariant. *)
LEMMA FirstInvInit ==
  ASSUME First!Init, asked1 = {}
  PROVE  FirstInv
<1>1. rledata = encode(0, 1) \o <<0>> /\ count = 0 /\ garbled = FALSE
  BY FirstCoding, Zenon DEF First!Init
<1>2. PICK R \in Seq(Runs), T \in Terminators :
         /\ encode(0, 1) \o <<0>> = Coded(R) \o T
         /\ Canon(R) /\ Span(R) = 1 /\ \A v \in Nat : Ones(R, v) = {}
  BY FirstString
<1>3. 0 \in Nat /\ 1 <= Reach /\ {} \in SUBSET Nat
  BY ReachType
<1>4. IsFiniteSet({}) /\ Cardinality({}) = 0
  BY FS_EmptySet
<1>5. Holds1(rledata, asked1, count)
  BY <1>1, <1>2, <1>3, <1>4, Zenon DEF Holds1
<1>6. rledata \in Seq(Bytes)
  <2>1. Coded(R) \in Seq(Bytes) /\ T \in Seq(Bytes)
    BY CodedProperties, TerminatorBytes
  <2>2. Coded(R) \o T \in Seq(Bytes)
    BY <2>1, ConcatProperties
  <2> QED
    BY <1>1, <1>2, <2>2, Zenon
<1> QED
  BY <1>1, <1>3, <1>5, <1>6, Zenon DEF FirstInv

(* A set in order, each element once. *)
LEMMA VectorAsked ==
  ASSUME NEW S \in SUBSET Nat, IsFiniteSet(S), NEW w, w = Vector(S)
  PROVE  ToSet(w) = S /\ Len(w) = Cardinality(S) /\ \A n \in 2..Len(w) : w[n - 1] < w[n]
<1>1. w \in Seq(Nat) /\ Len(w) = Cardinality(S) /\ ToSet(w) = S /\ Ascending(w)
  BY VectorProperties
<1>2. DOMAIN w = 1..Len(w) /\ Len(w) \in Nat
  BY <1>1, LenProperties
<1>3. ASSUME NEW n \in 2..Len(w)
      PROVE  w[n - 1] < w[n]
  <2>1. n - 1 \in 1..Len(w) /\ n \in 1..Len(w) /\ n - 1 < n
    BY <1>2
  <2> QED
    BY <1>1, <1>2, <2>1, Zenon DEF Ascending
<1> QED
  BY <1>1, <1>3

(* What the invariant says of the first version. *)
LEMMA FirstHolds ==
  ASSUME FirstInv
  PROVE  /\ First!TypeOK /\ First!Canonical /\ First!ReadsExact /\ asked1 \subseteq Nat
         /\ ~garbled => First!Bits = asked1 /\ count = Cardinality(asked1)
<1>1. First!TypeOK /\ asked1 \subseteq Nat
  BY FirstProps, Zenon DEF FirstInv, Bytes
<1>2. CASE ~garbled
  <2>1. PICK R \in Seq(Runs), T \in Terminators :
          /\ rledata = Coded(R) \o T /\ Canon(R) /\ Span(R) <= Reach
          /\ asked1 = Ones(R, 0) /\ IsFiniteSet(asked1) /\ count = Cardinality(asked1)
    BY <1>2, Zenon DEF FirstInv, Holds1
  <2>2. 0 \in Nat
    OBVIOUS
  <2>3. Spells(rledata, R, T)
    BY <2>1, Zenon DEF Spells
  <2>4. CanonicalString(rledata, 0)
    BY <2>1, <2>2, <2>3, CanonicalWhen
  <2>5. PICK B : B = BlocksFor(R, 0)
    OBVIOUS
  <2>6. BlocksOf(rledata, 0) = B
    BY <2>1, <2>2, <2>5, BlocksRead
  <2>7. BitsOf(rledata, 0) = asked1
    BY <2>1, <2>2, BitsRead
  <2>8. PICK w : w = Walk(B)
    OBVIOUS
  <2>9. w = Vector(asked1)
    BY <2>1, <2>2, <2>5, <2>8, Walked
  <2>10. ToSet(w) = asked1 /\ \A n \in 2..Len(w) : w[n - 1] < w[n]
    <3>1. asked1 \in SUBSET Nat
      BY Zenon DEF FirstInv
    <3> QED
      BY <2>1, <2>9, <3>1, VectorAsked
  <2>11. First!ReadsExact
    BY <2>1, <2>6, <2>7, <2>8, <2>10, FirstProps, Zenon
  <2> QED
    BY <1>1, <2>1, <2>4, <2>7, <2>11, FirstProps, Zenon
<1>3. CASE garbled
  BY <1>1, <1>3, FirstProps, Zenon DEF FirstInv
<1> QED
  BY <1>2, <1>3

-----------------------------------------------------------------------------
(* Lists of frames that cover all positions.                               *)

(* What the operators on sequences do, element by element. *)
LEMMA Replaces ==
  ASSUME NEW S, NEW s \in Seq(S), NEW i \in 1..Len(s), NEW e \in S
  PROVE  /\ ReplaceAt(s, i, e) \in Seq(S) /\ Len(ReplaceAt(s, i, e)) = Len(s)
         /\ ReplaceAt(s, i, e)[i] = e
         /\ \A j \in 1..Len(s) : j # i => ReplaceAt(s, i, e)[j] = s[j]
<1>1. Len(s) \in Nat /\ DOMAIN s = 1..Len(s) /\ s \in [1..Len(s) -> S]
  BY LenProperties
<1>2. ReplaceAt(s, i, e) = [s EXCEPT ![i] = e]
  BY Zenon DEF ReplaceAt
<1>3. [s EXCEPT ![i] = e] \in [1..Len(s) -> S]
  BY <1>1
<1>4. [s EXCEPT ![i] = e] \in Seq(S) /\ Len([s EXCEPT ![i] = e]) = Len(s)
  BY <1>1, <1>3, IntervalSeq
<1> QED
  BY <1>1, <1>2, <1>4

(* Inserting moves the elements behind by one. *)
LEMMA Inserts ==
  ASSUME NEW S, NEW s \in Seq(S), NEW i \in 1..(Len(s) + 1), NEW e \in S
  PROVE  /\ InsertAt(s, i, e) \in Seq(S) /\ Len(InsertAt(s, i, e)) = Len(s) + 1
         /\ InsertAt(s, i, e)[i] = e
         /\ \A j \in 1..(i - 1) : InsertAt(s, i, e)[j] = s[j]
         /\ \A j \in (i + 1)..(Len(s) + 1) : InsertAt(s, i, e)[j] = s[j - 1]
<1>1. PICK n \in Nat : n = Len(s) /\ i \in 1..(n + 1)
  BY LenProperties
<1>2. PICK x : x = SubSeq(s, 1, i - 1)
  OBVIOUS
<1>3. x \in Seq(S) /\ Len(x) = i - 1 /\ \A j \in 1..(i - 1) : x[j] = s[j]
  BY <1>1, <1>2, SubSeqProperties
<1>4. PICK z : z = SubSeq(s, i, Len(s))
  OBVIOUS
<1>5. z \in Seq(S) /\ Len(z) = n - i + 1 /\ \A j \in 1..(n - i + 1) : z[j] = s[i + j - 1]
  BY <1>1, <1>4, SubSeqProperties
<1>6. <<e>> \in Seq(S) /\ Len(<<e>>) = 1 /\ <<e>>[1] = e
  OBVIOUS
<1>7. InsertAt(s, i, e) = (x \o <<e>>) \o z
  BY <1>2, <1>4, Zenon DEF InsertAt
<1>8. PICK u \in Seq(S) : u = x \o <<e>> /\ Len(u) = i /\ (\A j \in 1..(i - 1) : u[j] = s[j]) /\ u[i] = e
  <2>1. PICK y \in Seq(S) : y = <<e>> /\ Len(y) = 1 /\ y[1] = e
    BY <1>6, Zenon
  <2>2. PICK u \in Seq(S) : u = x \o y
    BY <1>3, <2>1, ConcatProperties
  <2>3. Len(u) = Len(x) + Len(y) /\ \A j \in 1..(Len(x) + Len(y)) : u[j] = IF j <= Len(x) THEN x[j] ELSE y[j - Len(x)]
    BY <1>3, <2>1, <2>2, ConcatProperties
  <2>4. Len(u) = i /\ (\A j \in 1..(i - 1) : u[j] = s[j]) /\ u[i] = e
    BY <1>1, <1>3, <2>1, <2>3
  <2>5. u = x \o <<e>>
    BY <2>1, <2>2, Zenon
  <2> QED
    BY <2>4, <2>5, Zenon
<1>9. PICK w : w = u \o z
  OBVIOUS
<1>10. /\ w \in Seq(S) /\ Len(w) = n + 1
       /\ \A j \in 1..i : w[j] = u[j]
       /\ \A j \in (i + 1)..(n + 1) : w[j] = z[j - i]
  <2>1. /\ w \in Seq(S) /\ Len(w) = Len(u) + Len(z)
        /\ \A j \in 1..(Len(u) + Len(z)) : w[j] = IF j <= Len(u) THEN u[j] ELSE z[j - Len(u)]
    <3>1. u \in Seq(S) /\ z \in Seq(S)
      BY <1>5, <1>8
    <3>2. /\ u \o z \in Seq(S) /\ Len(u \o z) = Len(u) + Len(z)
          /\ \A j \in 1..(Len(u) + Len(z)) : (u \o z)[j] = IF j <= Len(u) THEN u[j] ELSE z[j - Len(u)]
      BY <3>1, ConcatProperties
    <3> QED
      BY <1>9, <3>2, Zenon
  <2>2. Len(u) = i /\ Len(z) = n - i + 1
    BY <1>5, <1>8, Zenon
  <2> QED
    BY <1>1, <2>1, <2>2
<1>11. \A j \in (i + 1)..(n + 1) : w[j] = s[j - 1]
  <2> TAKE j \in (i + 1)..(n + 1)
  <2>1. j - i \in 1..(n - i + 1) /\ i + (j - i) - 1 = j - 1
    BY <1>1
  <2> QED
    BY <1>5, <1>10, <2>1
<1>12. w[i] = e /\ \A j \in 1..(i - 1) : w[j] = s[j]
  BY <1>8, <1>10
<1>13. InsertAt(s, i, e) = w
  BY <1>7, <1>8, <1>9, Zenon
<1> QED
  BY <1>1, <1>10, <1>11, <1>12, <1>13, Zenon

(* Removing moves the elements behind back by one. *)
LEMMA Removes ==
  ASSUME NEW S, NEW s \in Seq(S), NEW i \in 1..Len(s)
  PROVE  /\ RemoveAt(s, i) \in Seq(S) /\ Len(RemoveAt(s, i)) = Len(s) - 1
         /\ \A j \in 1..(i - 1) : RemoveAt(s, i)[j] = s[j]
         /\ \A j \in i..(Len(s) - 1) : RemoveAt(s, i)[j] = s[j + 1]
<1>1. PICK n \in Nat : n = Len(s) /\ i \in 1..n
  BY LenProperties
<1>2. PICK x : x = SubSeq(s, 1, i - 1)
  OBVIOUS
<1>3. x \in Seq(S) /\ Len(x) = i - 1 /\ \A j \in 1..(i - 1) : x[j] = s[j]
  BY <1>1, <1>2, SubSeqProperties
<1>4. PICK z : z = SubSeq(s, i + 1, Len(s))
  OBVIOUS
<1>5. z \in Seq(S) /\ Len(z) = n - i /\ \A j \in 1..(n - i) : z[j] = s[i + j]
  BY <1>1, <1>4, SubSeqProperties
<1>6. RemoveAt(s, i) = x \o z
  BY <1>2, <1>4, Zenon DEF RemoveAt
<1>7. PICK w : w = x \o z
  OBVIOUS
<1>8. /\ w \in Seq(S) /\ Len(w) = n - 1
      /\ \A j \in 1..(i - 1) : w[j] = x[j]
      /\ \A j \in i..(n - 1) : w[j] = z[j - (i - 1)]
  BY <1>1, <1>3, <1>5, <1>7, ConcatProperties
<1>9. \A j \in i..(n - 1) : w[j] = s[j + 1]
  <2> TAKE j \in i..(n - 1)
  <2>1. j - (i - 1) \in 1..(n - i) /\ i + (j - (i - 1)) = j + 1
    BY <1>1
  <2> QED
    BY <1>5, <1>8, <2>1
<1>10. \A j \in 1..(i - 1) : w[j] = s[j]
  BY <1>3, <1>8
<1>11. RemoveAt(s, i) = w
  BY <1>6, <1>7, Zenon
<1> QED
  BY <1>1, <1>8, <1>9, <1>10, <1>11, Zenon

(* The frames cover all positions in order, the last without a limit. *)
FrameSet == [rledata : Seq(Bytes), startvalue : Nat, maxvalue : Nat]
Meets(f, g) == f.maxvalue = g.startvalue /\ f.startvalue < f.maxvalue
Chain(fs) ==
  /\ fs \in Seq(FrameSet) /\ Len(fs) \in Nat \ {0}
  /\ fs[1].startvalue = 0 /\ fs[Len(fs)].maxvalue = 0
  /\ \A k \in 1..(Len(fs) - 1) : Meets(fs[k], fs[k + 1])

(* The frames of a chain: only the last has no limit. *)
LEMMA ChainTypes ==
  ASSUME NEW fs, Chain(fs)
  PROVE  /\ DOMAIN fs = 1..Len(fs) /\ Len(fs) \in Nat \ {0}
         /\ \A k \in 1..Len(fs) : /\ fs[k] \in FrameSet /\ fs[k].startvalue \in Nat
                                  /\ fs[k].maxvalue \in Nat /\ fs[k].rledata \in Seq(Bytes)
         /\ \A k \in 1..Len(fs) : fs[k].maxvalue = 0 <=> k = Len(fs)
<1>1. fs \in Seq(FrameSet) /\ Len(fs) \in Nat \ {0} /\ fs[Len(fs)].maxvalue = 0
  BY Zenon DEF Chain
<1>2. DOMAIN fs = 1..Len(fs)
  BY <1>1, LenProperties
<1>3. ASSUME NEW k \in 1..Len(fs)
      PROVE  /\ fs[k] \in FrameSet /\ fs[k].startvalue \in Nat
             /\ fs[k].maxvalue \in Nat /\ fs[k].rledata \in Seq(Bytes)
  <2>1. fs[k] \in FrameSet
    BY <1>1, ElementOfSeq
  <2> QED
    BY <2>1 DEF FrameSet
<1>4. ASSUME NEW k \in 1..Len(fs), k # Len(fs)
      PROVE  fs[k].maxvalue # 0
  <2>1. k \in 1..(Len(fs) - 1)
    BY <1>1, <1>4
  <2>2. fs[k].startvalue < fs[k].maxvalue
    BY <2>1, Zenon DEF Chain, Meets
  <2> QED
    BY <1>3, <2>2
<1> QED
  BY <1>1, <1>2, <1>3, <1>4

Ordered(fs, i, j) ==
  fs[i].maxvalue <= fs[j].startvalue /\ fs[i].startvalue < fs[j].startvalue

(* A frame begins where, or behind where, those before it end. *)
LEMMA ChainOrder ==
  ASSUME NEW fs, Chain(fs), NEW i \in 1..Len(fs)
  PROVE  \A j \in (i + 1)..Len(fs) : Ordered(fs, i, j)
<1>1. Len(fs) \in Nat \ {0} /\ \A k \in 1..Len(fs) : fs[k].startvalue \in Nat /\ fs[k].maxvalue \in Nat
  BY ChainTypes
<1>2. \A k \in 1..(Len(fs) - 1) : fs[k].maxvalue = fs[k + 1].startvalue /\ fs[k].startvalue < fs[k].maxvalue
  BY Zenon DEF Chain, Meets
<1>3. PICK bad : bad = {j \in (i + 1)..Len(fs) : ~Ordered(fs, i, j)}
  OBVIOUS
<1>4. SUFFICES ASSUME bad # {} PROVE FALSE
  BY <1>3, Zenon
<1>5. bad \in SUBSET Nat
  BY <1>1, <1>3
<1>6. PICK j \in bad : \A k \in bad : j <= k
  BY <1>4, <1>5, NatMin
<1>7. j \in (i + 1)..Len(fs) /\ ~Ordered(fs, i, j)
  BY <1>3, <1>6
<1>8. PICK h \in Nat : h = j - 1 /\ h \in 1..(Len(fs) - 1) /\ h + 1 = j /\ i <= h /\ h \in 1..Len(fs)
  BY <1>1, <1>7
<1>9. fs[h].maxvalue = fs[j].startvalue /\ fs[h].startvalue < fs[h].maxvalue
  BY <1>2, <1>8
<1>10. /\ fs[h].startvalue \in Nat /\ fs[h].maxvalue \in Nat /\ fs[i].startvalue \in Nat
       /\ fs[i].maxvalue \in Nat /\ fs[j].startvalue \in Nat
  BY <1>1, <1>7, <1>8
<1>11. CASE h = i
  BY <1>7, <1>9, <1>10, <1>11 DEF Ordered
<1>12. CASE h # i
  <2>1. h \in (i + 1)..Len(fs) /\ ~(j <= h)
    BY <1>1, <1>7, <1>8, <1>12
  <2>2. Ordered(fs, i, h)
    BY <1>3, <1>6, <2>1
  <2> QED
    BY <1>7, <1>9, <1>10, <2>2 DEF Ordered
<1> QED
  BY <1>11, <1>12

(* The frame of a position. *)
Frames(fs, k, index) ==
  /\ k \in 1..Len(fs) /\ fs[k].startvalue < index
  /\ k # Len(fs) => index <= fs[k].maxvalue

(* "find the frame" finds the frame of a position. *)
LEMMA FrameFound ==
  ASSUME Chain(frames), NEW index \in Nat \ {0}
  PROVE  Frames(frames, FrameOf(index), index)
<1>1. /\ DOMAIN frames = 1..Len(frames) /\ Len(frames) \in Nat \ {0}
      /\ \A k \in 1..Len(frames) : frames[k].startvalue \in Nat
  BY ChainTypes
<1>2. PICK l \in Nat : l = Len(frames) /\ l # 0
  BY <1>1
<1>3. PICK ends : ends = {k \in 1..l : k = l \/ frames[k + 1].startvalue >= index}
  OBVIOUS
<1>4. ends \in SUBSET Nat /\ l \in ends
  BY <1>2, <1>3
<1>5. PICK k \in ends : \A j \in ends : k <= j
  <2>1. ends # {}
    BY <1>4
  <2> QED
    BY <1>4, <2>1, NatMin
<1>6. k \in 1..l /\ (k = l \/ frames[k + 1].startvalue >= index)
  BY <1>3, <1>5
<1>7. ASSUME NEW j \in 2..k
      PROVE  frames[j].startvalue < index
  <2>1. PICK h \in Nat : h = j - 1 /\ h + 1 = j /\ h \in 1..l /\ ~(k <= h) /\ j \in 1..Len(frames)
    BY <1>2, <1>6
  <2>2. h \notin ends
    BY <1>5, <2>1
  <2>3. ~(frames[j].startvalue >= index)
    BY <1>3, <2>1, <2>2
  <2>4. frames[j].startvalue \in Nat
    BY <1>1, <2>1
  <2> QED
    BY <2>3, <2>4
<1>8. \E m \in DOMAIN frames :
        /\ \A j \in 2..m : frames[j].startvalue < index
        /\ m = Len(frames) \/ frames[m + 1].startvalue >= index
  BY <1>1, <1>2, <1>6, <1>7
<1>9. PICK m : m = FrameOf(index)
  OBVIOUS
<1>10. /\ m \in 1..Len(frames) /\ \A j \in 2..m : frames[j].startvalue < index
       /\ m = Len(frames) \/ frames[m + 1].startvalue >= index
  BY <1>1, <1>8, <1>9, Zenon DEF FrameOf
<1>13. m \in 1..l
  BY <1>2, <1>10, Zenon
<1>11. frames[m].startvalue < index
  <2>1. CASE m = 1
    <3>1. frames[1].startvalue = 0
      BY Zenon DEF Chain
    <3> QED
      BY <2>1, <3>1
  <2>2. CASE m # 1
    <3>1. m \in 2..m
      BY <1>13, <2>2
    <3> QED
      BY <1>10, <3>1
  <2> QED
    BY <2>1, <2>2
<1>12. ASSUME m # Len(frames)
       PROVE  index <= frames[m].maxvalue
  <2>0. m # l
    BY <1>2, <1>12, Zenon
  <2>a. m \in 1..(l - 1) /\ m + 1 \in 1..l
    BY <1>13, <2>0
  <2>1. m \in 1..(Len(frames) - 1) /\ m + 1 \in 1..Len(frames)
    BY <1>2, <2>a, Zenon
  <2>2. frames[m].maxvalue = frames[m + 1].startvalue
    BY <2>1, Zenon DEF Chain, Meets
  <2>3. frames[m + 1].startvalue \in Nat /\ frames[m + 1].startvalue >= index
    BY <1>1, <1>10, <1>12, <2>1
  <2> QED
    BY <2>2, <2>3
<1> QED
  BY <1>9, <1>10, <1>11, <1>12, Zenon DEF Frames

(* The frames of a list, those but for the k-th, and their bits. *)
Members(fs) == {fs[j] : j \in 1..Len(fs)}
Rest(fs, k) == {fs[j] : j \in (1..Len(fs)) \ {k}}
Rest2(fs, k) == {fs[j] : j \in (1..Len(fs)) \ {k, k + 1}}
AllBits(M) == UNION {BitsIn(f) : f \in M}

(* The bits of the array are those of its frames. *)
LEMMA BitsAll ==
  ASSUME NEW fs, Chain(fs)
  PROVE  UNION {BitsIn(fs[k]) : k \in DOMAIN fs} = AllBits(Members(fs))
<1>1. DOMAIN fs = 1..Len(fs)
  BY ChainTypes
<1> QED
  BY <1>1, Zenon DEF AllBits, Members

(* One frame and the rest. *)
LEMMA MembersParted ==
  ASSUME NEW fs, NEW k \in 1..Len(fs)
  PROVE  Members(fs) = {fs[k]} \cup Rest(fs, k)
BY Zenon DEF Members, Rest

(* The next frame and the rest of the rest. *)
LEMMA MembersParted2 ==
  ASSUME NEW fs, Len(fs) \in Nat, NEW k \in 1..(Len(fs) - 1)
  PROVE  Rest(fs, k) = {fs[k + 1]} \cup Rest2(fs, k)
<1>1. k + 1 \in 1..Len(fs) /\ k + 1 # k
  OBVIOUS
<1> QED
  BY <1>1, Zenon DEF Rest, Rest2

(* The bits of some frames and of others. *)
LEMMA AllBitsParts ==
  /\ \A M, N : AllBits(M \cup N) = AllBits(M) \cup AllBits(N)
  /\ \A f : AllBits({f}) = BitsIn(f)
  /\ \A f, g : AllBits({f, g}) = BitsIn(f) \cup BitsIn(g)
BY Zenon DEF AllBits

(* A list with the k-th frame exchanged. *)
Exchanged(fs, k, g, fs2) ==
  /\ Chain(fs2) /\ Len(fs2) = Len(fs) /\ fs2[k] = g
  /\ Members(fs2) = {g} \cup Rest(fs, k) /\ Rest(fs2, k) = Rest(fs, k)
  /\ \A j \in 1..Len(fs) : j # k => fs2[j] = fs[j]

(* A chain with a frame exchanged for one of the same range is a chain. *)
LEMMA ChainReplaced ==
  ASSUME NEW fs, Chain(fs), NEW k \in 1..Len(fs), NEW g \in FrameSet,
         g.startvalue = fs[k].startvalue, g.maxvalue = fs[k].maxvalue
  PROVE  Exchanged(fs, k, g, ReplaceAt(fs, k, g))
<1>1. PICK l \in Nat : l = Len(fs) /\ l # 0
  BY Zenon, ChainTypes
<1>2. fs \in Seq(FrameSet)
  BY Zenon DEF Chain
<1>3. PICK s : s = ReplaceAt(fs, k, g)
  OBVIOUS
<1>4. s \in Seq(FrameSet) /\ Len(s) = l /\ s[k] = g /\ \A j \in 1..l : j # k => s[j] = fs[j]
  <2>2. /\ ReplaceAt(fs, k, g) \in Seq(FrameSet) /\ Len(ReplaceAt(fs, k, g)) = Len(fs)
        /\ ReplaceAt(fs, k, g)[k] = g
        /\ \A j \in 1..Len(fs) : j # k => ReplaceAt(fs, k, g)[j] = fs[j]
    BY <1>2, Replaces
  <2> QED
    BY <1>1, <1>3, <2>2, Zenon
<1>5. \A j \in 1..l : s[j].startvalue = fs[j].startvalue /\ s[j].maxvalue = fs[j].maxvalue
  BY <1>4, Zenon
<1>6. 1 \in 1..l /\ l \in 1..l /\ \A j \in 1..(l - 1) : j \in 1..l /\ j + 1 \in 1..l
  BY <1>1
<1>7. s[1].startvalue = 0 /\ s[l].maxvalue = 0
  BY <1>1, <1>5, <1>6, Zenon DEF Chain
<1>8. \A j \in 1..(l - 1) : Meets(s[j], s[j + 1])
  <2> TAKE j \in 1..(l - 1)
  <2>1. Meets(fs[j], fs[j + 1])
    BY <1>1, Zenon DEF Chain
  <2> QED
    BY <1>5, <1>6, <2>1, Zenon DEF Meets
<1>9. Chain(s)
  BY <1>1, <1>4, <1>7, <1>8 DEF Chain
<1>10. Rest(s, k) = Rest(fs, k)
  BY <1>1, <1>4, Zenon DEF Rest
<1>11. Members(s) = {g} \cup Rest(fs, k)
  <2>1. k \in 1..Len(s)
    BY <1>1, <1>4
  <2> QED
    BY <1>4, <1>10, <2>1, MembersParted, Zenon
<1> QED
  BY <1>1, <1>3, <1>4, <1>9, <1>10, <1>11, Zenon DEF Exchanged

(* A list with the k-th frame cut in two. *)
CutInTwo(fs, k, lo, up, fs2) ==
  /\ Chain(fs2) /\ Len(fs2) = Len(fs) + 1 /\ Members(fs2) = {lo, up} \cup Rest(fs, k)

(* A chain with a frame cut in two is a chain. *)
LEMMA ChainInserted ==
  ASSUME NEW fs, Chain(fs), NEW k \in 1..Len(fs), NEW lo \in FrameSet, NEW up \in FrameSet,
         lo.startvalue = fs[k].startvalue, up.maxvalue = fs[k].maxvalue,
         Meets(lo, up), up.maxvalue # 0 => up.startvalue < up.maxvalue
  PROVE  CutInTwo(fs, k, lo, up, InsertAt(ReplaceAt(fs, k, lo), k + 1, up))
<1>1. PICK l \in Nat : l = Len(fs) /\ l # 0
  BY Zenon, ChainTypes
<1>2. fs \in Seq(FrameSet)
  BY Zenon DEF Chain
<1>3. PICK s : s = ReplaceAt(fs, k, lo)
  OBVIOUS
<1>4. s \in Seq(FrameSet) /\ Len(s) = l /\ s[k] = lo /\ \A j \in 1..l : j # k => s[j] = fs[j]
  <2>2. /\ ReplaceAt(fs, k, lo) \in Seq(FrameSet) /\ Len(ReplaceAt(fs, k, lo)) = Len(fs)
        /\ ReplaceAt(fs, k, lo)[k] = lo
        /\ \A j \in 1..Len(fs) : j # k => ReplaceAt(fs, k, lo)[j] = fs[j]
    BY <1>2, Replaces
  <2> QED
    BY <1>1, <1>3, <2>2, Zenon
<1>5. PICK i \in Nat : i = k + 1 /\ i \in 1..(l + 1) /\ i - 1 = k /\ k \in 1..l
  BY <1>1
<1>6. PICK t : t = InsertAt(s, i, up)
  OBVIOUS
<1>7. /\ t \in Seq(FrameSet) /\ Len(t) = l + 1 /\ t[i] = up
      /\ \A j \in 1..k : t[j] = s[j]
      /\ \A j \in (i + 1)..(l + 1) : t[j] = s[j - 1]
  <2>1. i \in 1..(Len(s) + 1)
    BY <1>4, <1>5
  <2>2. /\ InsertAt(s, i, up) \in Seq(FrameSet) /\ Len(InsertAt(s, i, up)) = Len(s) + 1
        /\ InsertAt(s, i, up)[i] = up
        /\ \A j \in 1..(i - 1) : InsertAt(s, i, up)[j] = s[j]
        /\ \A j \in (i + 1)..(Len(s) + 1) : InsertAt(s, i, up)[j] = s[j - 1]
    <3>1. s \in Seq(FrameSet)
      BY <1>4
    <3> QED
      BY <2>1, <3>1, Inserts
  <2> QED
    BY <1>4, <1>5, <1>6, <2>2, Zenon
<1>8. /\ t[k] = lo /\ \A j \in 1..(k - 1) : t[j] = fs[j]
      /\ \A j \in (i + 1)..(l + 1) : t[j] = fs[j - 1]
  <2>1. t[k] = lo
    BY <1>4, <1>5, <1>7
  <2>2. ASSUME NEW j \in 1..(k - 1) PROVE t[j] = fs[j]
    <3>1. j \in 1..k /\ j # k /\ j \in 1..l
      BY <1>5
    <3> QED
      BY <1>4, <1>7, <3>1, Zenon
  <2>3. ASSUME NEW j \in (i + 1)..(l + 1) PROVE t[j] = fs[j - 1]
    <3>1. j - 1 # k /\ j - 1 \in 1..l
      BY <1>5
    <3> QED
      BY <1>4, <1>7, <3>1, Zenon
  <2> QED
    BY <2>1, <2>2, <2>3
<1>9. t[1].startvalue = 0
  <2>1. fs[1].startvalue = 0
    BY Zenon DEF Chain
  <2>2. CASE k = 1
    BY <1>8, <2>1, <2>2, Zenon
  <2>3. CASE k # 1
    <3>1. 1 \in 1..(k - 1)
      BY <1>5, <2>3
    <3> QED
      BY <1>8, <2>1, <3>1, Zenon
  <2> QED
    BY <2>2, <2>3
<1>10. t[l + 1].maxvalue = 0
  <2>1. fs[l].maxvalue = 0
    BY <1>1, Zenon DEF Chain
  <2>2. CASE k = l
    BY <1>5, <1>7, <2>1, <2>2, Zenon
  <2>3. CASE k # l
    <3>1. l + 1 \in (i + 1)..(l + 1) /\ (l + 1) - 1 = l
      BY <1>5, <2>3
    <3> QED
      BY <1>8, <2>1, <3>1, Zenon
  <2> QED
    BY <2>2, <2>3
<1>11. ASSUME NEW j \in 1..l
       PROVE  Meets(t[j], t[j + 1])
  <2>1. CASE j < k - 1
    <3>1. j \in 1..(k - 1) /\ j + 1 \in 1..(k - 1) /\ j \in 1..(l - 1)
      BY <1>5, <2>1
    <3>2. Meets(fs[j], fs[j + 1])
      BY <1>1, <3>1, Zenon DEF Chain
    <3> QED
      BY <1>8, <3>1, <3>2, Zenon
  <2>2. CASE j = k - 1
    <3>1. j \in 1..(k - 1) /\ j + 1 = k /\ j \in 1..(l - 1)
      BY <1>5, <2>2
    <3>2. Meets(fs[j], fs[k])
      BY <1>1, <3>1, Zenon DEF Chain
    <3> QED
      BY <1>8, <3>1, <3>2, Zenon DEF Meets
  <2>3. CASE j = k
    BY <1>5, <1>7, <1>8, <2>3, Zenon
  <2>4. CASE j = i
    <3>1. j + 1 \in (i + 1)..(l + 1) /\ (j + 1) - 1 = k + 1 /\ k \in 1..(l - 1) /\ k # l
      BY <1>5, <2>4
    <3>2. Meets(fs[k], fs[k + 1])
      BY <1>1, <3>1, Zenon DEF Chain
    <3>3. fs[k].maxvalue # 0
      BY <1>1, <3>1, ChainTypes
    <3>4. t[j] = up /\ t[j + 1] = fs[k + 1]
      BY <1>7, <1>8, <2>4, <3>1, Zenon
    <3> QED
      BY <3>2, <3>3, <3>4, Zenon DEF Meets
  <2>5. CASE j > i
    <3>1. j \in (i + 1)..(l + 1) /\ j + 1 \in (i + 1)..(l + 1) /\ (j + 1) - 1 = (j - 1) + 1 /\ j - 1 \in 1..(l - 1)
      BY <1>5, <2>5
    <3>2. Meets(fs[j - 1], fs[(j - 1) + 1])
      BY <1>1, <3>1, Zenon DEF Chain
    <3>3. t[j] = fs[j - 1]
      BY <1>8, <3>1
    <3>4. t[j + 1] = fs[(j - 1) + 1]
      <4>1. PICK m \in (i + 1)..(l + 1) : m = j + 1 /\ m - 1 = (j - 1) + 1
        BY <3>1
      <4>2. t[m] = fs[m - 1]
        BY <1>8, <4>1
      <4> QED
        BY <4>1, <4>2, Zenon
    <3> QED
      BY <3>2, <3>3, <3>4, Zenon
  <2>6. j < k - 1 \/ j = k - 1 \/ j = k \/ j = i \/ j > i
    BY <1>5
  <2> QED
    BY <2>1, <2>2, <2>3, <2>4, <2>5, <2>6
<1>12. Chain(t)
  <2>1. (l + 1) - 1 = l /\ l + 1 \in Nat \ {0}
    OBVIOUS
  <2> QED
    BY <1>7, <1>9, <1>10, <1>11, <2>1, Zenon DEF Chain
<1>13. Members(t) = {lo, up} \cup Rest(fs, k)
  <2>1. ASSUME NEW j \in 1..(l + 1)
        PROVE  t[j] \in {lo, up} \cup Rest(fs, k)
    <3>1. CASE j \in 1..(k - 1)
      <4>1. j \in (1..l) \ {k}
        BY <1>5, <3>1
      <4> QED
        BY <1>1, <1>8, <3>1, <4>1, Zenon DEF Rest
    <3>2. CASE j \in (i + 1)..(l + 1)
      <4>1. j - 1 \in (1..l) \ {k}
        BY <1>5, <3>2
      <4> QED
        BY <1>1, <1>8, <3>2, <4>1, Zenon DEF Rest
    <3>3. j \in 1..(k - 1) \/ j = k \/ j = i \/ j \in (i + 1)..(l + 1)
      BY <1>5
    <3> QED
      BY <1>7, <1>8, <3>1, <3>2, <3>3, Zenon
  <2>2. ASSUME NEW j \in (1..l) \ {k}
        PROVE  \E m \in 1..(l + 1) : t[m] = fs[j]
    <3>1. CASE j < k
      <4>1. j \in 1..(k - 1) /\ j \in 1..(l + 1)
        BY <1>5, <3>1
      <4> QED
        BY <1>8, <4>1, Zenon
    <3>2. CASE j > k
      <4>1. j + 1 \in (i + 1)..(l + 1) /\ (j + 1) - 1 = j /\ j + 1 \in 1..(l + 1)
        BY <1>5, <3>2
      <4> QED
        BY <1>8, <4>1, Zenon
    <3>3. j < k \/ j > k
      BY <1>5
    <3> QED
      BY <3>1, <3>2, <3>3
  <2>3. i \in 1..(l + 1) /\ k \in 1..(l + 1)
    BY <1>5
  <2>4. {lo, up} \subseteq Members(t)
    BY <1>7, <1>8, <2>3, Zenon DEF Members
  <2>5. Rest(fs, k) \subseteq Members(t)
    <3> SUFFICES ASSUME NEW j \in (1..l) \ {k} PROVE fs[j] \in Members(t)
      BY <1>1, Zenon DEF Rest
    <3>1. PICK m \in 1..(l + 1) : t[m] = fs[j]
      BY <2>2
    <3> QED
      BY <1>7, <3>1, Zenon DEF Members
  <2>6. Members(t) \subseteq {lo, up} \cup Rest(fs, k)
    BY <1>7, <2>1, Zenon DEF Members
  <2> QED
    BY <2>4, <2>5, <2>6, Zenon
<1>14. t = InsertAt(ReplaceAt(fs, k, lo), k + 1, up)
  BY <1>3, <1>5, <1>6, Zenon
<1> QED
  BY <1>1, <1>7, <1>12, <1>13, <1>14, Zenon DEF CutInTwo

(* A list with the k-th frame and the next made one. *)
MadeOne(fs, k, g, fs2) ==
  /\ Chain(fs2) /\ Len(fs2) = Len(fs) - 1 /\ Members(fs2) = {g} \cup Rest2(fs, k)

(* A chain with two neighbours made one is a chain. *)
LEMMA ChainRemoved ==
  ASSUME NEW fs, Chain(fs), NEW k \in 1..(Len(fs) - 1), NEW g \in FrameSet,
         g.startvalue = fs[k].startvalue, g.maxvalue = fs[k + 1].maxvalue
  PROVE  MadeOne(fs, k, g, RemoveAt(ReplaceAt(fs, k, g), k + 1))
<1>1. PICK l \in Nat : l = Len(fs) /\ l # 0
  BY Zenon, ChainTypes
<1>2. fs \in Seq(FrameSet)
  BY Zenon DEF Chain
<1>3. PICK s : s = ReplaceAt(fs, k, g)
  OBVIOUS
<1>5. PICK i \in Nat : i = k + 1 /\ i \in 1..l /\ i - 1 = k /\ k \in 1..l /\ k \in 1..(l - 1)
  BY <1>1
<1>4. s \in Seq(FrameSet) /\ Len(s) = l /\ s[k] = g /\ \A j \in 1..l : j # k => s[j] = fs[j]
  <2>1. k \in 1..Len(fs)
    BY <1>1, <1>5
  <2>2. /\ ReplaceAt(fs, k, g) \in Seq(FrameSet) /\ Len(ReplaceAt(fs, k, g)) = Len(fs)
        /\ ReplaceAt(fs, k, g)[k] = g
        /\ \A j \in 1..Len(fs) : j # k => ReplaceAt(fs, k, g)[j] = fs[j]
    BY <1>2, <2>1, Replaces
  <2> QED
    BY <1>1, <1>3, <2>2, Zenon
<1>6. PICK t : t = RemoveAt(s, i)
  OBVIOUS
<1>7. /\ t \in Seq(FrameSet) /\ Len(t) = l - 1
      /\ \A j \in 1..k : t[j] = s[j]
      /\ \A j \in i..(l - 1) : t[j] = s[j + 1]
  <2>1. i \in 1..Len(s)
    BY <1>4, <1>5
  <2> QED
    BY <1>4, <1>5, <1>6, <2>1, Removes
<1>8. /\ t[k] = g /\ \A j \in 1..(k - 1) : t[j] = fs[j]
      /\ \A j \in i..(l - 1) : t[j] = fs[j + 1]
  <2>1. t[k] = g
    BY <1>4, <1>5, <1>7
  <2>2. ASSUME NEW j \in 1..(k - 1) PROVE t[j] = fs[j]
    <3>1. j \in 1..k /\ j # k /\ j \in 1..l
      BY <1>5
    <3> QED
      BY <1>4, <1>7, <3>1, Zenon
  <2>3. ASSUME NEW j \in i..(l - 1) PROVE t[j] = fs[j + 1]
    <3>1. j + 1 # k /\ j + 1 \in 1..l
      BY <1>5
    <3> QED
      BY <1>4, <1>7, <3>1, Zenon
  <2> QED
    BY <2>1, <2>2, <2>3
<1>9. t[1].startvalue = 0
  <2>1. fs[1].startvalue = 0
    BY Zenon DEF Chain
  <2>2. CASE k = 1
    BY <1>8, <2>1, <2>2, Zenon
  <2>3. CASE k # 1
    <3>1. 1 \in 1..(k - 1)
      BY <1>5, <2>3
    <3> QED
      BY <1>8, <2>1, <3>1, Zenon
  <2> QED
    BY <2>2, <2>3
<1>10. t[l - 1].maxvalue = 0
  <2>1. fs[l].maxvalue = 0
    BY <1>1, Zenon DEF Chain
  <2>2. CASE k = l - 1
    <3>1. k + 1 = l
      BY <2>2
    <3> QED
      BY <1>8, <2>1, <2>2, <3>1, Zenon
  <2>3. CASE k # l - 1
    <3>1. l - 1 \in i..(l - 1) /\ (l - 1) + 1 = l
      BY <1>5, <2>3
    <3> QED
      BY <1>8, <2>1, <3>1, Zenon
  <2> QED
    BY <2>2, <2>3
<1>11. ASSUME NEW j \in 1..(l - 2)
       PROVE  Meets(t[j], t[j + 1])
  <2>1. CASE j < k - 1
    <3>1. j \in 1..(k - 1) /\ j + 1 \in 1..(k - 1) /\ j \in 1..(l - 1)
      BY <1>5, <2>1
    <3>2. Meets(fs[j], fs[j + 1])
      BY <1>1, <3>1, Zenon DEF Chain
    <3> QED
      BY <1>8, <3>1, <3>2, Zenon
  <2>2. CASE j = k - 1
    <3>1. j \in 1..(k - 1) /\ j + 1 = k /\ j \in 1..(l - 1)
      BY <1>5, <2>2
    <3>2. Meets(fs[j], fs[k])
      BY <1>1, <3>1, Zenon DEF Chain
    <3> QED
      BY <1>8, <3>1, <3>2, Zenon DEF Meets
  <2>3. CASE j = k
    <3>1. j + 1 \in i..(l - 1) /\ (j + 1) + 1 = i + 1 /\ k \in 1..(l - 1) /\ i \in 1..(l - 1) /\ i \in 1..Len(fs) /\ k \in 1..Len(fs)
      BY <1>1, <1>5, <2>3
    <3>2. Meets(fs[k], fs[i]) /\ Meets(fs[i], fs[i + 1])
      BY <1>1, <1>5, <3>1, Zenon DEF Chain
    <3>3. t[j] = g /\ t[j + 1] = fs[i + 1]
      BY <1>8, <2>3, <3>1, Zenon
    <3>4. /\ fs[k].startvalue \in Nat /\ fs[k].maxvalue \in Nat
          /\ fs[i].startvalue \in Nat /\ fs[i].maxvalue \in Nat
      BY <3>1, ChainTypes
    <3>5. fs[k].startvalue < fs[i].maxvalue
      <4>1. /\ fs[k].maxvalue = fs[i].startvalue /\ fs[k].startvalue < fs[k].maxvalue
            /\ fs[i].startvalue < fs[i].maxvalue
        BY <3>2, Zenon DEF Meets
      <4> QED
        BY <3>4, <4>1
    <3> QED
      BY <1>5, <3>2, <3>3, <3>5, Zenon DEF Meets
  <2>5. CASE j > k
    <3>1. j \in i..(l - 1) /\ j + 1 \in i..(l - 1) /\ j + 1 \in 1..(l - 1)
      BY <1>5, <2>5
    <3>2. Meets(fs[j + 1], fs[(j + 1) + 1])
      BY <1>1, <3>1, Zenon DEF Chain
    <3> QED
      BY <1>8, <3>1, <3>2, Zenon
  <2>6. j < k - 1 \/ j = k - 1 \/ j = k \/ j > k
    BY <1>5
  <2> QED
    BY <2>1, <2>2, <2>3, <2>5, <2>6
<1>12. Chain(t)
  <2>1. (l - 1) - 1 = l - 2 /\ l - 1 \in Nat \ {0}
    BY <1>5
  <2> QED
    BY <1>7, <1>9, <1>10, <1>11, <2>1, Zenon DEF Chain
<1>13. Members(t) = {g} \cup Rest2(fs, k)
  <2>1. ASSUME NEW j \in 1..(l - 1)
        PROVE  t[j] \in {g} \cup Rest2(fs, k)
    <3>1. CASE j \in 1..(k - 1)
      <4>1. j \in (1..l) \ {k, i}
        BY <1>5, <3>1
      <4> QED
        BY <1>1, <1>5, <1>8, <3>1, <4>1, Zenon DEF Rest2
    <3>2. CASE j \in i..(l - 1)
      <4>1. j + 1 \in (1..l) \ {k, i}
        BY <1>5, <3>2
      <4> QED
        BY <1>1, <1>5, <1>8, <3>2, <4>1, Zenon DEF Rest2
    <3>3. j \in 1..(k - 1) \/ j = k \/ j \in i..(l - 1)
      BY <1>5
    <3> QED
      BY <1>8, <3>1, <3>2, <3>3, Zenon
  <2>2. ASSUME NEW j \in (1..l) \ {k, i}
        PROVE  \E m \in 1..(l - 1) : t[m] = fs[j]
    <3>1. CASE j < k
      <4>1. j \in 1..(k - 1) /\ j \in 1..(l - 1)
        BY <1>5, <3>1
      <4> QED
        BY <1>8, <4>1, Zenon
    <3>2. CASE j > i
      <4>1. j - 1 \in i..(l - 1) /\ (j - 1) + 1 = j /\ j - 1 \in 1..(l - 1)
        BY <1>5, <3>2
      <4> QED
        BY <1>8, <4>1, Zenon
    <3>3. j < k \/ j > i
      BY <1>5
    <3> QED
      BY <3>1, <3>2, <3>3
  <2>3. k \in 1..(l - 1)
    BY <1>5
  <2>4. {g} \subseteq Members(t)
    BY <1>7, <1>8, <2>3, Zenon DEF Members
  <2>5. Rest2(fs, k) \subseteq Members(t)
    <3> SUFFICES ASSUME NEW j \in (1..l) \ {k, i} PROVE fs[j] \in Members(t)
      BY <1>1, <1>5, Zenon DEF Rest2
    <3>1. PICK m \in 1..(l - 1) : t[m] = fs[j]
      BY <2>2
    <3> QED
      BY <1>7, <3>1, Zenon DEF Members
  <2>6. Members(t) \subseteq {g} \cup Rest2(fs, k)
    BY <1>7, <2>1, Zenon DEF Members
  <2> QED
    BY <2>4, <2>5, <2>6, Zenon
<1>14. t = RemoveAt(ReplaceAt(fs, k, g), k + 1)
  BY <1>3, <1>5, <1>6, Zenon
<1> QED
  BY <1>1, <1>7, <1>12, <1>13, <1>14, Zenon DEF MadeOne

-----------------------------------------------------------------------------
(* set in a frame.                                                         *)

(* A frame as every call leaves it: a canonical string that ends by lim,   *)
(* runs of 0s between others below the maximum; bits of its range only.    *)
FitBy(f, lim, R, T) ==
  /\ f.rledata = Coded(R) \o T /\ Canon(R) /\ f.startvalue + Span(R) <= lim
  /\ f.maxvalue # 0 => ZerosBelow(R, f.startvalue, f.maxvalue)
Fit(f, lim) == \E R \in Seq(Runs), T \in Terminators : FitBy(f, lim, R, T)
Inside(f) == f.maxvalue # 0 => \A b \in BitsIn(f) : b <= f.maxvalue

(* The fields of a frame. *)
LEMMA FrameFields ==
  /\ \A f \in FrameSet : f.rledata \in Seq(Bytes) /\ f.startvalue \in Nat /\ f.maxvalue \in Nat
  /\ \A d \in Seq(Bytes), v \in Nat, m \in Nat : [rledata |-> d, startvalue |-> v, maxvalue |-> m] \in FrameSet
BY DEF FrameSet

(* What a reader makes of a frame. *)
LEMMA FitFacts ==
  ASSUME NEW f \in FrameSet, NEW lim, NEW R \in Seq(Runs), NEW T \in Terminators, FitBy(f, lim, R, T)
  PROVE  /\ BlocksIn(f) = BlocksFor(R, f.startvalue) /\ BitsIn(f) = Ones(R, f.startvalue)
         /\ \A b \in BitsIn(f) : b \in Nat /\ f.startvalue < b
         /\ BitsIn(f) \in SUBSET Nat /\ IsFiniteSet(BitsIn(f)) /\ Walk(BlocksIn(f)) = Vector(BitsIn(f))
         /\ CanonicalString(f.rledata, f.startvalue)
<1>1. PICK v \in Nat : v = f.startvalue
  BY FrameFields
<1>2. f.rledata = Coded(R) \o T /\ Canon(R)
  BY Zenon DEF FitBy
<1>3. BlocksOf(f.rledata, v) = BlocksFor(R, v)
  BY <1>2, BlocksRead
<1>4. BitsOf(f.rledata, v) = Ones(R, v)
  BY <1>2, BitsRead
<1>5. \A b \in Ones(R, v) : b \in Nat /\ v < b
  BY <1>2, CanonAbove
<1>6. Walk(BlocksFor(R, v)) = Vector(Ones(R, v)) /\ IsFiniteSet(Ones(R, v))
  BY Walked
<1>7. CanonicalString(f.rledata, v)
  <2>1. Spells(f.rledata, R, T)
    BY <1>2, Zenon DEF Spells
  <2> QED
    BY <1>2, <2>1, CanonicalWhen
<1>8. BlocksIn(f) = BlocksFor(R, v) /\ BitsIn(f) = Ones(R, v)
  BY <1>1, <1>3, <1>4, Zenon DEF BlocksIn, BitsIn
<1>9. Ones(R, v) \in SUBSET Nat
  BY <1>5
<1> QED
  BY <1>1, <1>5, <1>6, <1>7, <1>8, <1>9, Zenon

(* A call that changes a bit of the frame. *)
Rewritten2(f, index, newval) ==
  LET g == SetIn(f, index, newval)
      over == Over(newval, BlocksIn(f), index)
      was == HealthOfSet(f, g, index)
  IN /\ g \in FrameSet /\ g.startvalue = f.startvalue /\ g.maxvalue = f.maxvalue
     /\ was \in {"sound", "astray", "garbled"} /\ over \in Nat
     /\ newval = 1 => index + over \notin BitsIn(f)
     /\ newval = 0 => index \in BitsIn(f) /\ over = 0
     /\ was = "sound" => Inside(g)
FitAgain(f, lim, index, newval) ==
  LET g == SetIn(f, index, newval)
      over == Over(newval, BlocksIn(f), index)
  IN HealthOfSet(f, g, index) # "garbled" =>
       Fit(g, lim) /\ BitsIn(g) = Changed(BitsIn(f), index + over, newval)

(* A set in a frame changes the bit asked for and keeps the frame in its   *)
(* range, or is not sound.                                                 *)
LEMMA SetInFrame ==
  ASSUME NEW f \in FrameSet, NEW lim \in Nat, Fit(f, lim), Inside(f), NEW index \in Indices,
         f.startvalue < index, f.maxvalue # 0 => index <= f.maxvalue,
         NEW newval \in 0..1, BlocksIn(f)[FoundIn(BlocksIn(f), index)].bit # newval,
         Reach <= lim, lim <= MaxRun
  PROVE  Rewritten2(f, index, newval) /\ FitAgain(f, lim, index, newval)
<1>1. PICK R \in Seq(Runs), T \in Terminators : FitBy(f, lim, R, T)
  BY Zenon DEF Fit
<1>2. PICK v \in Nat : v = f.startvalue
  BY FrameFields
<1>3. PICK m \in Nat : m = f.maxvalue
  BY FrameFields
<1>4. PICK B : B = BlocksFor(R, v)
  OBVIOUS
<1>5. BlocksIn(f) = B /\ BitsIn(f) = Ones(R, v) /\ \A b \in BitsIn(f) : b \in Nat
  BY <1>1, <1>2, <1>4, FitFacts
<1>6. f.rledata = Coded(R) \o T /\ Canon(R) /\ v + Span(R) <= lim
  BY <1>1, <1>2, Zenon DEF FitBy
<1>7. index \in Nat /\ 2 * index <= Reach /\ 2 * index <= MaxRun
  BY ReachType
<1>8. PICK s \in Nat : s = Span(R)
  BY SpanProperties
<1>9. PICK most \in Nat : most = MaxRun
  BY MaxRunType
<1>10. PICK reach \in Nat : reach = Reach
  BY ReachType
<1>11. Asked(R, v, index, newval)
  <2>1. v < index
    BY <1>2
  <2>2. v + Span(R) <= MaxRun
    <3>1. v + s <= lim /\ lim <= most
      BY <1>6, <1>8, <1>9
    <3>2. v + s <= most
      BY <3>1
    <3> QED
      BY <1>8, <1>9, <3>2
  <2> QED
    BY <1>4, <1>5, <1>6, <1>7, <2>1, <2>2, Zenon DEF Asked
<1>12. <<0>> \in Terminators
  BY Zenon DEF Terminators
<1>13. WellRewritten(R, T, v, index, newval, <<0>>, B)
  BY <1>4, <1>7, <1>11, <1>12, RewritesWell
<1>14. PICK over \in Nat : over = Over(newval, B, index)
  BY <1>13, Zenon DEF WellRewritten
<1>15. PICK data : data = Rewritten(Coded(R) \o T, B, index, newval, <<0>>)
  OBVIOUS
<1>16. data \in Seq(Bytes)
  <2>1. Rewritten(Coded(R) \o T, BlocksFor(R, v), index, newval, <<0>>) \in Seq(Bytes)
    BY <1>7, <1>11, <1>12, RewrittenBytes
  <2> QED
    BY <1>4, <1>15, <2>1, Zenon
<1>17. PICK g : g = SetIn(f, index, newval)
  OBVIOUS
<1>18. g = [f EXCEPT !.rledata = data]
  BY <1>5, <1>6, <1>15, <1>17, Zenon DEF SetIn
<1>19. g \in FrameSet /\ g.startvalue = v /\ g.maxvalue = m /\ g.rledata = data
  BY <1>2, <1>3, <1>16, <1>18 DEF FrameSet
<1>20. PICK was : was = HealthOfSet(f, g, index)
  OBVIOUS
<1>21. /\ was \in {"sound", "astray", "garbled"}
       /\ was # "garbled" => ~Resizes(B, index)
       /\ was = "sound" => ~(m # 0 /\ \E b \in BitsIn(g) : b > m)
  BY <1>3, <1>5, <1>20, Zenon DEF HealthOfSet
<1>22. ASSUME was # "garbled"
       PROVE  /\ Fit(g, lim) /\ BitsIn(g) = Changed(BitsIn(f), index + over, newval)
              /\ BitsIn(g) \in SUBSET Nat
  <2>1. Rewrites(R, v, index, newval, over, data)
    BY <1>13, <1>14, <1>15, <1>21, <1>22, Zenon DEF WellRewritten
  <2>2. PICK R2 \in Seq(Runs), T2 \in Terminators :
          data = Coded(R2) \o T2 /\ Becomes(R, v, index, newval, over, R2)
    BY <2>1, Zenon DEF Rewrites
  <2>3. /\ Canon(R2) /\ Ones(R2, v) = Changed(Ones(R, v), index + over, newval)
        /\ v + Span(R2) <= v + Span(R) \/ v + Span(R2) <= 2 * index
        /\ index <= m /\ (\A b \in Ones(R, v) : b <= m) => ZerosBelow(R2, v, m)
    BY <2>2, Zenon DEF Becomes
  <2>4. v + Span(R2) <= lim
    <3>1. PICK s2 \in Nat : s2 = Span(R2)
      BY SpanProperties
    <3>2. v + s2 <= v + s \/ v + s2 <= 2 * index
      BY <1>8, <2>3, <3>1
    <3>3. v + s <= lim /\ 2 * index <= reach /\ reach <= lim
      BY <1>6, <1>7, <1>8, <1>10
    <3>4. v + s2 <= lim
      BY <1>7, <3>2, <3>3
    <3> QED
      BY <3>1, <3>4
  <2>5. m # 0 => ZerosBelow(R2, v, m)
    <3> SUFFICES ASSUME m # 0 PROVE ZerosBelow(R2, v, m)
      OBVIOUS
    <3>1. index <= m
      BY <1>3
    <3>2. \A b \in Ones(R, v) : b <= m
      BY <1>3, <1>5, Zenon DEF Inside
    <3> QED
      BY <2>3, <3>1, <3>2, Zenon
  <2>6. FitBy(g, lim, R2, T2)
    BY <1>19, <2>2, <2>3, <2>4, <2>5, Zenon DEF FitBy
  <2>7. BitsIn(g) = Ones(R2, v) /\ BitsIn(g) \in SUBSET Nat
    BY <1>19, <2>6, FitFacts
  <2>8. Fit(g, lim)
    BY <2>6, Zenon DEF Fit
  <2> QED
    BY <1>5, <2>3, <2>7, <2>8, Zenon
<1>23. was = "sound" => Inside(g)
  <2> SUFFICES ASSUME was = "sound", m # 0, NEW b \in BitsIn(g) PROVE b <= m
    BY <1>19, Zenon DEF Inside
  <2>1. was # "garbled"
    OBVIOUS
  <2>2. BitsIn(g) \in SUBSET Nat
    BY <1>22, <2>1
  <2>3. b \in Nat /\ ~(b > m)
    BY <1>21, <2>2
  <2> QED
    BY <2>3
<1>24. /\ newval = 1 => index + over \notin BitsIn(f)
       /\ newval = 0 => index \in BitsIn(f) /\ over = 0
  BY <1>5, <1>13, <1>14, Zenon DEF WellRewritten
<1>25. Rewritten2(f, index, newval)
  BY <1>2, <1>3, <1>5, <1>14, <1>17, <1>19, <1>20, <1>21, <1>23, <1>24, Zenon DEF Rewritten2
<1>26. FitAgain(f, lim, index, newval)
  BY <1>5, <1>14, <1>17, <1>20, <1>22, Zenon DEF FitAgain
<1> QED
  BY <1>25, <1>26

-----------------------------------------------------------------------------
(* split.                                                                  *)

(* Part of a canonical string, or a string with the same bits, is          *)
(* canonical if its first run is of 0s.                                    *)
SameBits(R, d, U) ==
  \A k \in 1..Len(U) : k + d \in 1..Len(R) /\ U[k].bit = R[k + d].bit

(* Runs cut out of runs that alternate do, too. *)
LEMMA AlternatesSlice ==
  ASSUME NEW R \in Seq(Runs), NEW d \in Nat, NEW U \in Seq(Runs), Alternates(R), SameBits(R, d, U)
  PROVE  Alternates(U)
<1> SUFFICES ASSUME NEW k \in 2..Len(U) PROVE U[k].bit # U[k - 1].bit
  BY DEF Alternates
<1>1. PICK l \in Nat : l = Len(R)
  BY LenProperties
<1>2. PICK u \in Nat : u = Len(U)
  BY LenProperties
<1>3. PICK h \in 1..u : h = k - 1 /\ k \in 1..u /\ h + d = (k + d) - 1 /\ h + d \in Nat
  BY <1>2
<1>4. k + d \in 1..l /\ h + d \in 1..l /\ U[k].bit = R[k + d].bit /\ U[h].bit = R[h + d].bit
  BY <1>1, <1>2, <1>3, Zenon DEF SameBits
<1>5. k + d \in 2..l
  BY <1>3, <1>4
<1>6. R[k + d].bit # R[(k + d) - 1].bit
  BY <1>1, <1>5, Zenon DEF Alternates
<1> QED
  BY <1>3, <1>4, <1>6, Zenon

(* Alternating runs, joined where the bits differ. *)
LEMMA AlternatesJoin ==
  ASSUME NEW x \in Seq(Runs), NEW y \in Seq(Runs), Alternates(x), Alternates(y),
         Len(x) # 0, Len(y) # 0, x[Len(x)].bit # y[1].bit
  PROVE  Alternates(x \o y)
<1>1. PICK i \in Nat : i = Len(x)
  BY LenProperties
<1>2. PICK j \in Nat : j = Len(y)
  BY LenProperties
<1>3. PICK u : u = x \o y
  OBVIOUS
<1>4. Len(u) = i + j /\ \A k \in 1..(i + j) : u[k] = IF k <= i THEN x[k] ELSE y[k - i]
  <2>1. /\ Len(x \o y) = Len(x) + Len(y)
        /\ \A k \in 1..(Len(x) + Len(y)) : (x \o y)[k] = IF k <= Len(x) THEN x[k] ELSE y[k - Len(x)]
    BY ConcatProperties
  <2> QED
    BY <1>1, <1>2, <1>3, <2>1, Zenon
<1>5. ASSUME NEW k \in 2..(i + j)
      PROVE  u[k].bit # u[k - 1].bit
  <2>1. PICK h \in 1..(i + j) : h = k - 1 /\ k \in 1..(i + j) /\ h + 1 = k
    OBVIOUS
  <2>2. CASE k <= i
    <3>1. k \in 2..i /\ h <= i
      BY <2>1, <2>2
    <3>2. x[k].bit # x[k - 1].bit
      BY <1>1, <3>1, Zenon DEF Alternates
    <3>3. u[k] = x[k] /\ u[h] = x[h]
      BY <1>4, <2>1, <2>2, <3>1
    <3> QED
      BY <2>1, <3>2, <3>3, Zenon
  <2>3. CASE h = i
    <3>1. ~(k <= i) /\ h <= i /\ k - i = 1
      BY <2>1, <2>3
    <3>2. u[k] = y[k - i] /\ u[h] = x[h]
      BY <1>4, <2>1, <3>1
    <3> QED
      BY <1>1, <2>1, <2>3, <3>1, <3>2, Zenon
  <2>4. CASE h > i
    <3>1. ~(k <= i) /\ ~(h <= i) /\ k - i \in 2..j /\ h - i = (k - i) - 1
      BY <2>1, <2>4
    <3>2. y[k - i].bit # y[(k - i) - 1].bit
      BY <1>2, <3>1, Zenon DEF Alternates
    <3>3. u[k] = y[k - i] /\ u[h] = y[h - i]
      BY <1>4, <2>1, <3>1
    <3> QED
      BY <2>1, <3>1, <3>2, <3>3, Zenon
  <2>5. k <= i \/ h = i \/ h > i
    BY <2>1
  <2> QED
    BY <2>2, <2>3, <2>4, <2>5
<1> QED
  BY <1>3, <1>4, <1>5, Zenon DEF Alternates

(* A string of more than 16 bytes is cut at a run of 0s that is neither    *)
(* one of its first two nor its last.                                      *)
FitsAt(R, n, half) == R[n].bit = 0 /\ At(R, n + 1) - 1 >= half

(* Half of 17 bytes or more is behind the first block and two blocks from  *)
(* the end.                                                                *)
LEMMA HalfOf ==
  ASSUME NEW d \in Nat, d >= 17
  PROVE  \E h \in Nat : h = d \div 2 /\ d - 9 >= h /\ h > 4
<1>1. d \div 2 \in Int
  BY SMT
<1>2. d - 9 >= d \div 2
  BY SMT
<1>3. d \div 2 > 4
  BY SMT
<1>4. PICK h \in Int : h = d \div 2
  BY SMT, <1>1
<1>5. d - 9 >= h /\ h > 4
  BY SMT, <1>2, <1>3, <1>4
<1>6. h \in Nat
  BY SMT, <1>5
<1> QED
  BY SMT, <1>4, <1>5, <1>6

(* A block is at most four bytes wide. *)
LEMMA AtGrows ==
  ASSUME NEW R \in Seq(Runs), NEW n \in 1..Len(R), NEW m, m = n + 1, NEW a \in Nat, At(R, n) <= a
  PROVE  At(R, m) \in Nat /\ At(R, m) <= a + 4
<1>1. R[n] \in Runs
  BY ElementOfSeq
<1>2. R[n].run \in Nat
  BY <1>1, RunsType
<1>3. PICK b \in 1..4 : b = blocklength(R[n].run)
  BY <1>2, BlockLengths
<1>4. n \in 1..(Len(R) + 1) /\ 0 \in Nat
  BY LenProperties
<1>5. At(R, n + 1) = At(R, n) + blocklength(R[n].run) /\ At(R, n) \in Nat
  BY <1>4, Places1
<1> QED
  BY <1>3, <1>5

(* From 17 bytes on there is a block of 0s to split at, neither of the     *)
(* first two nor the last.                                                 *)
LEMMA CutPlace ==
  ASSUME NEW R \in Seq(Runs), Canon(R), NEW d \in Nat, d >= 17,
         Len(Coded(R)) >= d - 1, NEW half \in Nat, d - 9 >= half, half > 4
  PROVE  \E n \in 3..(Len(R) - 1) :
           /\ FitsAt(R, n, half) /\ \A m \in 1..(n - 1) : ~FitsAt(R, m, half)
<1>1. half \in Nat /\ d - 9 >= half /\ half > 4
  OBVIOUS
<1>2. PICK l \in Nat : l = Len(R)
  BY LenProperties
<1>3. PICK c \in Nat : c = Len(Coded(R)) /\ c >= d - 1
  BY CodedProperties
<1>4. \A n \in 1..l : /\ R[n].bit \in 0..1 /\ blocklength(R[n].run) \in 1..4
                      /\ At(R, n + 1) = At(R, n) + blocklength(R[n].run)
                      /\ At(R, n) \in Nat \ {0}
  <2> TAKE n \in 1..l
  <2>1. R[n] \in Runs
    BY <1>2, ElementOfSeq
  <2>2. R[n].bit \in 0..1 /\ R[n].run \in Nat
    BY <2>1, RunsType
  <2>3. n \in 1..(Len(R) + 1) /\ n \in 1..Len(R)
    BY <1>2
  <2>4. blocklength(R[n].run) \in 1..4
    BY <2>2, BlockLengths
  <2>5. At(R, n + 1) = At(R, n) + blocklength(R[n].run) /\ At(R, n) \in Nat \ {0}
    <3>1. 0 \in Nat
      OBVIOUS
    <3> QED
      BY <2>3, <3>1, Places1
  <2> QED
    BY <2>2, <2>4, <2>5
<1>5. At(R, 1) = 1 /\ At(R, l + 1) = 1 + c
  BY <1>2, <1>3, Places1
<1>6. R[1].bit = 0 /\ \A n \in 2..l : R[n].bit # R[n - 1].bit
  BY <1>2, Zenon DEF Canon, Alternates
<1>7. l >= 4
  <2>1. At(R, 1) <= 1 /\ 1 \in Nat
    BY <1>5
  <2>2. l >= 1 => At(R, 2) \in Nat /\ At(R, 2) <= 5
    BY <1>2, <2>1, AtGrows
  <2>3. l >= 2 => At(R, 3) \in Nat /\ At(R, 3) <= 9
    BY <1>2, <2>2, AtGrows
  <2>4. l >= 3 => At(R, 4) \in Nat /\ At(R, 4) <= 13
    BY <1>2, <2>3, AtGrows
  <2>5. At(R, l + 1) >= 17
    BY <1>3, <1>5
  <2>6. l # 0 /\ l # 1 /\ l # 2 /\ l # 3
    <3>1. ASSUME l = 0 PROVE FALSE
      <4>1. l + 1 = 1
        BY <3>1
      <4>2. At(R, l + 1) = At(R, 1)
        BY <4>1, Zenon
      <4> QED
        BY <1>5, <2>5, <4>2
    <3>2. ASSUME l = 1 PROVE FALSE
      <4>1. l + 1 = 2
        BY <3>2
      <4>2. At(R, l + 1) = At(R, 2)
        BY <4>1, Zenon
      <4> QED
        BY <2>2, <2>5, <3>2, <4>2
    <3>3. ASSUME l = 2 PROVE FALSE
      <4>1. l + 1 = 3
        BY <3>3
      <4>2. At(R, l + 1) = At(R, 3)
        BY <4>1, Zenon
      <4> QED
        BY <2>3, <2>5, <3>3, <4>2
    <3>4. ASSUME l = 3 PROVE FALSE
      <4>1. l + 1 = 4
        BY <3>4
      <4>2. At(R, l + 1) = At(R, 4)
        BY <4>1, Zenon
      <4> QED
        BY <2>4, <2>5, <3>4, <4>2
    <3> QED
      BY <3>1, <3>2, <3>3, <3>4
  <2> QED
    BY <2>6
<1>8. \E n \in 1..(l - 1) : FitsAt(R, n, half)
  <2>1. /\ l \in 1..l /\ l - 1 \in 1..l /\ l - 2 \in 1..l /\ l \in 2..l /\ l - 1 \in 2..l
        /\ (l - 1) + 1 = l /\ (l - 2) + 1 = l - 1 /\ (l - 1) - 1 = l - 2
        /\ l - 1 \in 1..(l - 1) /\ l - 2 \in 1..(l - 1)
    BY <1>7
  <2>2. /\ R[l].bit \in 0..1 /\ R[l - 1].bit \in 0..1 /\ R[l - 2].bit \in 0..1
        /\ R[l].bit # R[l - 1].bit /\ R[l - 1].bit # R[l - 2].bit
    <3>1. R[l - 1].bit # R[(l - 1) - 1].bit
      BY <1>6, <2>1, Zenon
    <3> QED
      BY <1>4, <1>6, <2>1, <3>1, Zenon
  <2>3. PICK b1 \in 1..4 : At(R, l + 1) = At(R, l) + b1 /\ At(R, l) \in Nat
    BY <1>4, <2>1
  <2>4. PICK b2 \in 1..4 : At(R, l) = At(R, l - 1) + b2 /\ At(R, l - 1) \in Nat
    <3>1. At(R, (l - 1) + 1) = At(R, l - 1) + blocklength(R[l - 1].run) /\ blocklength(R[l - 1].run) \in 1..4
      BY <1>4, <2>1, Zenon
    <3>2. At(R, l - 1) \in Nat
      BY <1>4, <2>1
    <3> QED
      BY <2>1, <3>1, <3>2, Zenon
  <2>5. At(R, l) - 1 >= half /\ At(R, l - 1) - 1 >= half
    BY <1>1, <1>3, <1>5, <2>3, <2>4, SMTT(30)
  <2>6. CASE R[l - 1].bit = 0
    <3>1. FitsAt(R, l - 1, half)
      BY <2>1, <2>5, <2>6, Zenon DEF FitsAt
    <3> QED
      BY <2>1, <3>1, Zenon
  <2>7. CASE R[l - 1].bit = 1
    <3>1. R[l - 2].bit = 0
      BY <2>2, <2>7
    <3>2. FitsAt(R, l - 2, half)
      BY <2>1, <2>5, <3>1, Zenon DEF FitsAt
    <3> QED
      BY <2>1, <3>2, Zenon
  <2> QED
    BY <2>2, <2>6, <2>7
<1>9. PICK S : S = {n \in 1..(l - 1) : FitsAt(R, n, half)}
  OBVIOUS
<1>10. S \in SUBSET Nat /\ S # {}
  <2>1. S \in SUBSET Nat
    BY <1>9
  <2>2. S # {}
    BY <1>8, <1>9, Zenon
  <2> QED
    BY <2>1, <2>2
<1>11. PICK n \in S : \A m \in S : n <= m
  BY <1>10, NatMin
<1>12. n \in 1..(l - 1) /\ FitsAt(R, n, half)
  BY <1>9, <1>11
<1>13. \A m \in 1..(n - 1) : ~FitsAt(R, m, half)
  <2> TAKE m \in 1..(n - 1)
  <2>1. m \in 1..(l - 1) /\ ~(n <= m)
    BY <1>12
  <2>2. m \notin S
    BY <1>11, <2>1
  <2> QED
    BY <1>9, <2>1, <2>2, Zenon
<1>14. n # 1
  <2> SUFFICES ASSUME n = 1 PROVE FALSE
    OBVIOUS
  <2>1. At(R, 1 + 1) - 1 >= half
    BY <1>12, Zenon DEF FitsAt
  <2>2. 1 \in 1..l
    BY <1>7
  <2>3. PICK b1 \in 1..4 : At(R, 1 + 1) = 1 + b1
    BY <1>4, <1>5, <2>2
  <2> QED
    BY <1>1, <2>1, <2>3
<1>15. n # 2
  <2> SUFFICES ASSUME n = 2 PROVE FALSE
    OBVIOUS
  <2>1. R[2].bit = 0
    BY <1>12, Zenon DEF FitsAt
  <2>2. 2 \in 2..l /\ 2 - 1 = 1
    BY <1>7
  <2>3. R[2].bit # R[1].bit
    BY <1>6, <2>2, Zenon
  <2> QED
    BY <1>6, <2>1, <2>3
<1>16. n \in 3..(l - 1)
  BY <1>12, <1>14, <1>15
<1> QED
  BY <1>2, <1>12, <1>13, <1>16, Zenon

(* The block at which a frame is split, by its place among the runs.       *)
FitsBlock(b, half) == b.bit = 0 /\ b.run # 0 /\ blockend(b) - 1 >= half

(* The block that split chooses. *)
LEMMA SplitBlockIs ==
  ASSUME NEW f, NEW B, B = BlocksIn(f), NEW half, half = Len(f.rledata) \div 2
  PROVE  SplitBlock(f) = B[CHOOSE n \in DOMAIN B : FitsBlock(B[n], half)
                                     /\ \A m \in 1..(n - 1) : ~FitsBlock(B[m], half)]
BY DEF SplitBlock, FitsBlock

CutAt(R, v, n, cur) ==
  /\ n \in 3..(Len(R) - 1) /\ n \in 1..Len(R) /\ R[n].bit = 0
  /\ cur.at = At(R, n) /\ cur.value = Val(R, v, n)
  /\ cur.length = blocklength(R[n].run) /\ cur.run = R[n].run

(* The block that split chooses is that of a run of 0s in the middle. *)
LEMMA CutBlock ==
  ASSUME NEW f \in FrameSet, NEW lim, NEW R \in Seq(Runs), NEW T \in Terminators, FitBy(f, lim, R, T),
         NEW v \in Nat, v = f.startvalue, Len(f.rledata) >= 17
  PROVE  \E n \in Nat : CutAt(R, v, n, SplitBlock(f))
<1>1. PICK B : B = BlocksFor(R, v)
  OBVIOUS
<1>2. BlocksIn(f) = B /\ Canon(R) /\ f.rledata = Coded(R) \o T
  BY <1>1, FitFacts, Zenon DEF FitBy
<1>3. PICK d \in Nat : d = Len(f.rledata) /\ d >= 17
  <2>1. f.rledata \in Seq(Bytes)
    BY FrameFields
  <2>2. Len(f.rledata) \in Nat
    BY <2>1, LenProperties
  <2> QED
    BY <2>2
<1>4. PICK half \in Nat : half = d \div 2 /\ d - 9 >= half /\ half > 4
  BY <1>3, HalfOf
<1>5. Len(Coded(R)) >= d - 1
  <2>1. Coded(R) \in Seq(Bytes) /\ T \in Seq(Bytes)
    BY CodedProperties, TerminatorBytes
  <2>2. Len(Coded(R) \o T) = Len(Coded(R)) + Len(T)
    BY <2>1, ConcatProperties
  <2>3. Len(T) \in 0..1
    <3>1. Len(<<0>>) \in 0..1 /\ Len(<<>>) \in 0..1
      BY EmptySeq
    <3>2. T = <<>> \/ T = <<0>>
      BY Zenon DEF Terminators
    <3> QED
      BY <3>1, <3>2, Zenon
  <2>4. Len(Coded(R)) \in Nat
    BY CodedProperties
  <2>5. d = Len(Coded(R)) + Len(T)
    BY <1>2, <1>3, <2>2, Zenon
  <2>6. PICK c \in Nat : c = Len(Coded(R))
    BY <2>4
  <2>7. PICK t \in 0..1 : t = Len(T)
    BY <2>3
  <2>8. d = c + t
    BY <2>5, <2>6, <2>7, Zenon
  <2>9. c >= d - 1
    BY <2>8
  <2> QED
    BY <2>6, <2>9
<1>6. PICK n \in 3..(Len(R) - 1) : FitsAt(R, n, half) /\ \A m \in 1..(n - 1) : ~FitsAt(R, m, half)
  BY <1>2, <1>3, <1>4, <1>5, CutPlace
<1>7. PICK l \in Nat : l = Len(R)
  BY LenProperties
<1>8. n \in 3..(l - 1) /\ n \in 1..l /\ n \in 1..(l + 1)
  BY <1>6, <1>7
<1>9. DOMAIN B = 1..(l + 1)
  BY <1>1, <1>7, BlocksForType
<1>10. ASSUME NEW m \in 1..l
       PROVE  FitsBlock(B[m], half) <=> FitsAt(R, m, half)
  <2>1. m \in 1..Len(R) /\ m \in 1..(Len(R) + 1) /\ 0 \in Nat
    BY <1>7
  <2>2. /\ B[m].bit = R[m].bit /\ B[m].run = R[m].run /\ R[m].run # 0
        /\ blockend(B[m]) = At(R, m) + blocklength(R[m].run)
    BY <1>1, <2>1, Fields
  <2>3. At(R, m + 1) = At(R, m) + blocklength(R[m].run)
    BY <2>1, Places1
  <2> QED
    BY <2>2, <2>3, Zenon DEF FitsBlock, FitsAt
<1>11. FitsBlock(B[n], half) /\ \A m \in 1..(n - 1) : ~FitsBlock(B[m], half)
  <2>1. \A m \in 1..(n - 1) : m \in 1..l
    BY <1>8
  <2> QED
    BY <1>6, <1>8, <1>10, <2>1
<1>12. ASSUME NEW k \in DOMAIN B, FitsBlock(B[k], half), \A m \in 1..(k - 1) : ~FitsBlock(B[m], half)
       PROVE  k = n
  <2>1. k \in 1..(l + 1)
    BY <1>9
  <2>2. ~(k < n)
    <3>1. k < n => k \in 1..(n - 1)
      BY <1>8, <2>1
    <3> QED
      BY <1>11, <1>12, <3>1
  <2>3. ~(n < k)
    <3>1. n < k => n \in 1..(k - 1)
      BY <1>8, <2>1
    <3> QED
      BY <1>11, <1>12, <3>1
  <2> QED
    BY <1>8, <2>1, <2>2, <2>3
<1>13. PICK c : c = CHOOSE k \in DOMAIN B : FitsBlock(B[k], half) /\ \A m \in 1..(k - 1) : ~FitsBlock(B[m], half)
  OBVIOUS
<1>14. n \in DOMAIN B
  BY <1>8, <1>9
<1>15. c = n
  BY <1>11, <1>12, <1>13, <1>14
<1>16. SplitBlock(f) = B[n]
  <2>1. SplitBlock(f) = B[CHOOSE k \in DOMAIN B : FitsBlock(B[k], half)
                                     /\ \A m \in 1..(k - 1) : ~FitsBlock(B[m], half)]
    <3>1. half = Len(f.rledata) \div 2
      BY SMT, <1>3, <1>4
    <3> QED
      BY <1>2, <3>1, SplitBlockIs
  <2> QED
    BY <1>13, <1>15, <2>1, Zenon
<1>17. /\ B[n].at = At(R, n) /\ B[n].value = Val(R, v, n)
       /\ B[n].length = blocklength(R[n].run) /\ B[n].run = R[n].run
  <2>1. n \in 1..Len(R)
    BY <1>7, <1>8
  <2> QED
    BY <1>1, <2>1, Fields
<1>18. R[n].bit = 0 /\ n \in 1..Len(R) /\ n \in 3..(Len(R) - 1) /\ n \in Nat
  <2>1. R[n].bit = 0
    BY <1>6, Zenon DEF FitsAt
  <2> QED
    BY <1>7, <1>8, <2>1
<1> QED
  BY <1>16, <1>17, <1>18, Zenon DEF CutAt

(* The two halves of a string cut at a run of 0s; the second begins one    *)
(* position before it.                                                     *)
UpperHalf(R, n, Q) == <<Run(0, R[n].run + 1)>> \o Q
LowerIs(P, R, v, w) ==
  /\ P \in Seq(Runs) /\ Canon(P) /\ v + Span(P) = w /\ v + 2 <= w /\ w \in Nat
  /\ \A b \in Ones(P, v) : b <= w - 1
UpperIs(P, U, R, v, w) ==
  /\ U \in Seq(Runs) /\ Canon(U) /\ (w - 1) + Span(U) = v + Span(R)
  /\ Ones(P, v) \cup Ones(U, w - 1) = Ones(R, v)

(* The lower half of a split holds the runs before the cut. *)
LEMMA LowerRuns ==
  ASSUME NEW R \in Seq(Runs), NEW v \in Nat, Canon(R), NEW n \in 1..Len(R), n \in 3..(Len(R) - 1),
         NEW P \in Seq(Runs), NEW Q, PartsAt(R, v, n, P, Q)
  PROVE  LowerIs(P, R, v, Val(R, v, n))
<1>1. /\ Len(P) = n - 1 /\ P = SubSeq(R, 1, n - 1) /\ Val(R, v, n) = v + Span(P)
  BY Zenon DEF PartsAt
<1>2. PICK l \in Nat : l = Len(R) /\ n \in 3..(l - 1) /\ n \in 1..l
  BY LenProperties
<1>3. PICK s \in Nat : s = Span(P)
  BY SpanProperties
<1>4. \A k \in 1..(n - 1) : k \in 1..l /\ P[k] = R[k]
  <2>1. \A k \in 1..(n - 1) : k \in 1..l /\ R[k] \in Runs
    BY <1>2, ElementOfSeq
  <2>2. \A k \in 1..(n - 1) : SubSeq(R, 1, n - 1)[k] = R[1 + k - 1]
    BY <2>1, SubSeqProperties
  <2>3. \A k \in 1..(n - 1) : 1 + k - 1 = k
    OBVIOUS
  <2> QED
    BY <1>1, <2>1, <2>2, <2>3
<1>5. Canon(P)
  <2>1. SameBits(R, 0, P)
    <3>1. \A k \in 1..(n - 1) : k + 0 = k
      OBVIOUS
    <3> QED
      BY <1>1, <1>2, <1>4, <3>1, Zenon DEF SameBits
  <2>2. Alternates(R) /\ R[1].bit = 0 /\ 0 \in Nat
    BY Zenon DEF Canon
  <2>3. Alternates(P)
    BY <2>1, <2>2, AlternatesSlice
  <2>4. 1 \in 1..(n - 1)
    BY <1>2
  <2>5. P[1].bit = 0
    BY <1>4, <2>2, <2>4, Zenon
  <2>6. P # <<>>
    <3>1. Len(P) # 0 /\ Len(<<>>) = 0
      BY <1>1, <1>2, EmptySeq
    <3> QED
      BY <3>1, Zenon
  <2> QED
    BY <2>3, <2>5, <2>6, Zenon DEF Canon
<1>6. v + 2 <= v + s
  <2>1. /\ 1 \in 1..Len(R) /\ 2 \in 1..Len(R) /\ 1 + 1 = 2 /\ 2 + 1 = 3
        /\ n \in (2 + 1)..(Len(R) + 1)
    BY <1>2
  <2>2. Val(R, v, 1) = v /\ Val(R, v, 1 + 1) = Val(R, v, 1) + R[1].run
    BY <2>1, Places1
  <2>3. Val(R, v, 2) + R[2].run <= Val(R, v, n)
    BY <2>1, ValAscends
  <2>4. R[1].run \in Nat \ {0} /\ R[2].run \in Nat \ {0}
    BY <2>1, ElementOfSeq, RunsType
  <2>5. PICK r1 \in Nat \ {0} : r1 = R[1].run
    BY <2>4
  <2>6. PICK r2 \in Nat \ {0} : r2 = R[2].run
    BY <2>4
  <2>7. Val(R, v, 2) = v + r1
    BY <2>1, <2>2, <2>5, Zenon
  <2>8. (v + r1) + r2 <= v + s
    BY <1>1, <1>3, <2>3, <2>6, <2>7, Zenon
  <2> QED
    BY <2>8
<1>7. \A b \in Ones(P, v) : b <= (v + s) - 1
  <2>1. Ones(P, v) \subseteq v..(v + Span(P) - 1)
    BY OnesProperties
  <2>2. Ones(P, v) \subseteq v..(v + s - 1)
    BY <1>3, <2>1, Zenon
  <2> QED
    BY <2>2
<1>8. v + s \in Nat
  OBVIOUS
<1> QED
  BY <1>1, <1>3, <1>5, <1>6, <1>7, <1>8, Zenon DEF LowerIs

(* The upper half of a split holds the runs from the cut on. *)
LEMMA UpperRuns ==
  ASSUME NEW R \in Seq(Runs), NEW v \in Nat, Canon(R), NEW n \in 1..Len(R), n \in 3..(Len(R) - 1),
         NEW P \in Seq(Runs), NEW Q \in Seq(Runs), PartsAt(R, v, n, P, Q), R[n].bit = 0,
         v + Span(R) <= MaxRun
  PROVE  UpperIs(P, UpperHalf(R, n, Q), R, v, Val(R, v, n))
<1>1. /\ Len(P) = n - 1 /\ Len(Q) = Len(R) - n /\ Q = SubSeq(R, n + 1, Len(R))
      /\ Val(R, v, n) = v + Span(P)
      /\ Ones(R, v) = Ones(P, v) \cup Ones(<<R[n]>>, Val(R, v, n)) \cup Ones(Q, Val(R, v, n) + R[n].run)
      /\ v + Span(R) = Val(R, v, n) + R[n].run + Span(Q)
  BY Zenon DEF PartsAt
<1>2. PICK l \in Nat : l = Len(R) /\ n \in 3..(l - 1) /\ n \in 1..l
  BY LenProperties
<1>3. LowerIs(P, R, v, Val(R, v, n))
  BY LowerRuns
<1>4. PICK w \in Nat : w = Val(R, v, n) /\ v + 2 <= w
  BY <1>3, Zenon DEF LowerIs
<1>5. R[n] \in Runs
  BY ElementOfSeq
<1>6. PICK r \in Nat \ {0} : r = R[n].run
  BY <1>5, RunsType
<1>7. PICK q \in Nat : q = Span(Q)
  BY SpanProperties
<1>8. v + Span(R) = w + r + q
  BY <1>1, <1>4, <1>6, <1>7, Zenon
<1>9. PICK most \in Nat : most = MaxRun
  BY MaxRunType
<1>10. PICK c : c = Run(0, r + 1)
  OBVIOUS
<1>11. c \in Runs /\ c.bit = 0 /\ c.run = r + 1
  <2>1. w + r + q <= most
    BY <1>8, <1>9, Zenon
  <2>2. r + 1 <= most /\ r + 1 \in Nat /\ r + 1 # 0 /\ 0 \in 0..1
    BY <1>4, <2>1
  <2>3. r + 1 <= MaxRun
    BY <1>9, <2>2, Zenon
  <2> QED
    BY <1>10, <2>2, <2>3, RunIn
<1>12. PICK C \in Seq(Runs) : C = <<c>> /\ Len(C) = 1 /\ C[1] = c /\ Alternates(C) /\ Span(C) = r + 1
  <2>1. Single1(c)
    BY <1>11, SingleRun
  <2>2. Span(<<c>>) = c.run
    BY <1>11, SpanProperties
  <2> QED
    BY <1>11, <2>1, <2>2, Zenon DEF Single1
<1>13. PICK U : U = C \o Q
  OBVIOUS
<1>14. U = UpperHalf(R, n, Q) /\ U \in Seq(Runs)
  <2>1. U = UpperHalf(R, n, Q)
    BY <1>6, <1>10, <1>12, <1>13, Zenon DEF UpperHalf
  <2>2. C \o Q \in Seq(Runs)
    BY ConcatProperties
  <2> QED
    BY <1>13, <2>1, <2>2, Zenon
<1>15. PICK d \in Nat : d = n /\ d - 1 \in Nat
  BY <1>2
<1>16. Canon(U)
  <2>1. Len(Q) = l - n /\ \A k \in 1..(l - n) : Q[k] = R[k + n] /\ k + n \in 1..l
    <3>1. \A k \in (n + 1)..l : R[k] \in Runs
      <4>1. \A k \in (n + 1)..l : k \in 1..l
        BY <1>2
      <4> QED
        BY <1>2, <4>1, ElementOfSeq
    <3>2. \A k \in 1..(l - (n + 1) + 1) : SubSeq(R, n + 1, l)[k] = R[(n + 1) + k - 1]
      BY <1>2, <3>1, SubSeqProperties
    <3>3. \A k \in 1..(l - n) : k \in 1..(l - (n + 1) + 1) /\ (n + 1) + k - 1 = k + n /\ k + n \in 1..l
      BY <1>2
    <3>4. Q = SubSeq(R, n + 1, l)
      BY <1>1, <1>2, Zenon
    <3>5. ASSUME NEW k \in 1..(l - n) PROVE Q[k] = R[k + n]
      <4>1. SubSeq(R, n + 1, l)[k] = R[(n + 1) + k - 1]
        BY <3>2, <3>3
      <4> QED
        BY <3>3, <3>4, <4>1, Zenon
    <3> QED
      BY <1>1, <1>2, <3>3, <3>5, Zenon
  <2>2. SameBits(R, n, Q)
    BY <1>2, <2>1, Zenon DEF SameBits
  <2>3. Alternates(R) /\ n \in Nat
    <3>1. n \in Nat
      BY <1>2
    <3> QED
      BY <3>1, Zenon DEF Canon
  <2>4. Alternates(Q)
    BY <2>2, <2>3, AlternatesSlice
  <2>5. C[Len(C)].bit # Q[1].bit
    <3>1. 1 \in 1..(l - n) /\ 1 + n \in 2..l /\ (1 + n) - 1 = n
      BY <1>2
    <3>2. R[1 + n].bit # R[(1 + n) - 1].bit
      BY <1>2, <2>3, <3>1, Zenon DEF Alternates
    <3>3. Q[1] = R[1 + n]
      BY <2>1, <3>1
    <3> QED
      BY <1>11, <1>12, <3>1, <3>2, <3>3, Zenon
  <2>6. Len(C) # 0 /\ Len(Q) # 0
    BY <1>2, <1>12, <2>1
  <2>7. Alternates(C \o Q)
    BY <1>12, <2>4, <2>5, <2>6, AlternatesJoin
  <2>8. (C \o Q)[1] = c /\ Len(C \o Q) # 0
    <3>1. Len(C) \in Nat /\ Len(Q) \in Nat
      BY LenProperties
    <3>2. 1 \in 1..(Len(C) + Len(Q)) /\ 1 <= Len(C) /\ Len(C) + Len(Q) # 0
      BY <1>12, <3>1
    <3> QED
      BY <1>12, <3>2, ConcatProperties
  <2>9. C \o Q # <<>>
    BY <2>8, EmptySeq, Zenon
  <2> QED
    BY <1>11, <1>13, <2>7, <2>8, <2>9, Zenon DEF Canon
<1>17. (w - 1) + Span(U) = v + Span(R)
  <2>1. Span(C \o Q) = Span(C) + Span(Q)
    BY SpanProperties
  <2>2. Span(U) = (r + 1) + q
    BY <1>7, <1>12, <1>13, <2>1, Zenon
  <2>3. (w - 1) + ((r + 1) + q) = w + r + q
    OBVIOUS
  <2> QED
    BY <1>8, <2>2, <2>3, Zenon
<1>18. Ones(P, v) \cup Ones(U, w - 1) = Ones(R, v)
  <2>1. PICK a \in Nat : a = w - 1
    BY <1>4
  <2>2. OnesAdd(C, Q, a) /\ Ones(<<c>>, a) = IF c.bit = 1 THEN a..(a + c.run - 1) ELSE {}
    BY <1>11, OnesProperties
  <2>3. Ones(C \o Q, a) = Ones(C, a) \cup Ones(Q, a + Span(C))
    BY <2>2, Zenon DEF OnesAdd
  <2>4. 0 # 1 /\ a + (r + 1) = w + r
    BY <2>1
  <2>5. Ones(C, a) = {}
    BY <1>11, <1>12, <2>2, <2>4, Zenon
  <2>6. Ones(U, a) = Ones(Q, w + r)
    BY <1>12, <1>13, <2>3, <2>4, <2>5, Zenon
  <2>7. Ones(<<R[n]>>, w) = IF R[n].bit = 1 THEN w..(w + R[n].run - 1) ELSE {}
    BY <1>5, OnesProperties
  <2>8. Ones(<<R[n]>>, w) = {}
    BY <2>4, <2>7, Zenon
  <2>9. Ones(R, v) = Ones(P, v) \cup Ones(Q, w + r)
    BY <1>1, <1>4, <1>6, <2>8, Zenon
  <2> QED
    BY <2>1, <2>6, <2>9, Zenon
<1> QED
  BY <1>4, <1>14, <1>16, <1>17, <1>18, Zenon DEF UpperIs

(* A frame cut in two: the frames meet, whatever width is used; with the   *)
(* old width each has its part of the bits.                                *)
CutWell(f, cur, width) ==
  LET lo == Lower(f, cur)
      up == Upper(f, cur, width)
  IN /\ lo \in FrameSet /\ up \in FrameSet
     /\ lo.startvalue = f.startvalue /\ up.maxvalue = f.maxvalue
     /\ Meets(lo, up) /\ (up.maxvalue # 0 => up.startvalue < up.maxvalue)
CutBits(f, lim, cur) ==
  LET lo == Lower(f, cur)
      up == Upper(f, cur, cur.length)
  IN /\ BitsIn(lo) \cup BitsIn(up) = BitsIn(f)
     /\ Inside(f) => Fit(lo, lim) /\ Inside(lo) /\ Fit(up, lim) /\ Inside(up)

HalvesOf(data, P, x, Q, T, a) ==
  /\ SubSeq(data, 1, a - 1) = Coded(P)
  /\ SubSeq(data, a + blocklength(x.run), Len(data)) = Coded(Q) \o T

(* The bytes before and behind a run. *)
LEMMA HalvesRead ==
  ASSUME NEW P \in Seq(Runs), NEW x \in Runs, NEW Q \in Seq(Runs), NEW T \in Terminators,
         NEW R, R = Row(P, <<x>>, Q), NEW data, data = Coded(R) \o T,
         NEW a, a = 1 + Len(Coded(P))
  PROVE  HalvesOf(data, P, x, Q, T, a)
<1>1. T \in Seq(Bytes)
  BY TerminatorBytes
<1>2. <<x>> \in Seq(Runs) /\ Len(Coded(<<x>>)) = blocklength(x.run)
  BY CodedProperties
<1>3. /\ TailCoded(P, <<x>>, Q, T)
      /\ Coded(P) \in Seq(Bytes) /\ Coded(<<x>>) \in Seq(Bytes) /\ Coded(Q) \o T \in Seq(Bytes)
  BY <1>1, <1>2, CodedTail
<1>4. data = Row(Coded(P), Coded(<<x>>), Coded(Q) \o T)
  BY <1>3, Zenon DEF TailCoded
<1>5. PICK c \in Seq(Bytes) : c = Coded(P)
  BY <1>3
<1>6. PICK m \in Seq(Bytes) : m = Coded(<<x>>)
  BY <1>3
<1>7. PICK z \in Seq(Bytes) : z = Coded(Q) \o T
  BY <1>3
<1>8. PICK i \in Nat : i = Len(c)
  BY LenProperties
<1>9. SubSeq(Row(c, m, z), 1, Len(c)) = c
  BY FrontOfRow
<1>10. SubSeq(Row(c, m, z), Len(c) + Len(m) + 1, Len(Row(c, m, z))) = z
  BY BackOfRow
<1>11. PICK j \in Nat : j = Len(m)
  BY LenProperties
<1>12. (1 + i) - 1 = i /\ (1 + i) + j = i + j + 1
  OBVIOUS
<1>13. a = 1 + i /\ j = blocklength(x.run) /\ data = Row(c, m, z)
  BY <1>2, <1>4, <1>5, <1>6, <1>7, <1>8, <1>11, Zenon
<1>14. SubSeq(data, 1, a - 1) = Coded(P)
  BY <1>5, <1>8, <1>9, <1>12, <1>13, Zenon
<1>15. SubSeq(data, a + blocklength(x.run), Len(data)) = Coded(Q) \o T
  BY <1>7, <1>8, <1>10, <1>11, <1>12, <1>13, Zenon
<1> QED
  BY <1>14, <1>15, Zenon DEF HalvesOf

(* The bytes of the upper half. *)
UpperCoded(R, n, Q, T) ==
  encode(0, R[n].run + 1) \o (Coded(Q) \o T) = Coded(UpperHalf(R, n, Q)) \o T

(* The bytes of the upper half. *)
LEMMA UpperBytes ==
  ASSUME NEW R, NEW n, NEW Q \in Seq(Runs), NEW T \in Terminators, Run(0, R[n].run + 1) \in Runs
  PROVE  UpperCoded(R, n, Q, T)
<1>1. PICK c \in Runs : c = Run(0, R[n].run + 1)
  OBVIOUS
<1>2. c.bit = 0 /\ c.run = R[n].run + 1
  BY <1>1 DEF Run
<1>3. Coded(<<c>>) = encode(0, R[n].run + 1) /\ <<c>> \in Seq(Runs)
  <2>1. Coded(<<c>>) = encode(c.bit, c.run) /\ <<c>> \in Seq(Runs)
    BY CodedProperties
  <2> QED
    BY <1>2, <2>1, Zenon
<1>4. Coded(<<c>> \o Q) = Coded(<<c>>) \o Coded(Q)
  BY <1>3, CodedProperties
<1>5. Coded(<<c>>) \in Seq(Bytes) /\ Coded(Q) \in Seq(Bytes) /\ T \in Seq(Bytes)
  BY <1>3, CodedProperties, TerminatorBytes
<1>6. PICK x \in Seq(Bytes) : x = Coded(<<c>>)
  BY <1>5
<1>7. PICK y \in Seq(Bytes) : y = Coded(Q)
  BY <1>5
<1>8. (x \o y) \o T = x \o (y \o T)
  BY <1>5, ConcatAssociative
<1>9. UpperHalf(R, n, Q) = <<c>> \o Q
  BY <1>1, Zenon DEF UpperHalf
<1> QED
  BY <1>3, <1>4, <1>6, <1>7, <1>8, <1>9, Zenon DEF UpperCoded

(* The frames a frame is cut in. *)
LEMMA CutFrame ==
  ASSUME NEW f \in FrameSet, NEW lim \in Nat, lim <= MaxRun, Fit(f, lim), Len(f.rledata) >= 17,
         NEW cur, cur = SplitBlock(f)
  PROVE  /\ \A width \in {cur.length, blocklength(cur.run + 1)} : CutWell(f, cur, width)
         /\ CutBits(f, lim, cur)
<1>1. PICK R \in Seq(Runs), T \in Terminators : FitBy(f, lim, R, T)
  BY Zenon DEF Fit
<1>2. PICK v \in Nat : v = f.startvalue
  BY FrameFields
<1>3. PICK m \in Nat : m = f.maxvalue
  BY FrameFields
<1>4. PICK data \in Seq(Bytes) : data = f.rledata
  BY FrameFields
<1>5. /\ data = Coded(R) \o T /\ Canon(R) /\ v + Span(R) <= lim
      /\ m # 0 => ZerosBelow(R, v, m)
      /\ BitsIn(f) = Ones(R, v)
  BY <1>1, <1>2, <1>3, <1>4, FitFacts, Zenon DEF FitBy
<1>6. PICK n \in Nat : CutAt(R, v, n, cur)
  BY <1>1, <1>2, CutBlock
<1>7. /\ n \in 3..(Len(R) - 1) /\ n \in 1..Len(R) /\ R[n].bit = 0
      /\ cur.at = At(R, n) /\ cur.value = Val(R, v, n)
      /\ cur.length = blocklength(R[n].run) /\ cur.run = R[n].run
  BY <1>6, Zenon DEF CutAt
<1>8. PICK P, Q \in Seq(Runs) : PartsAt(R, v, n, P, Q)
  BY <1>7, AtRun
<1>9. R = Row(P, <<R[n]>>, Q) /\ At(R, n) = 1 + Len(Coded(P)) /\ v + Span(P) = Val(R, v, n)
  BY <1>8, Zenon DEF PartsAt
<1>10. LowerIs(P, R, v, Val(R, v, n))
  BY <1>5, <1>7, <1>8, LowerRuns
<1>11. PICK w \in Nat : w = Val(R, v, n) /\ v + 2 <= w
  BY <1>10, Zenon DEF LowerIs
<1>12. PICK s \in Nat : s = Span(R)
  BY SpanProperties
<1>13. PICK most \in Nat : most = MaxRun
  BY MaxRunType
<1>14. v + Span(R) <= MaxRun
  <2>1. v + s <= lim /\ lim <= most
    BY <1>5, <1>12, <1>13
  <2>2. v + s <= most
    BY <2>1
  <2> QED
    BY <1>12, <1>13, <2>2, Zenon
<1>15. PICK U : U = UpperHalf(R, n, Q)
  OBVIOUS
<1>16. UpperIs(P, U, R, v, w)
  BY <1>5, <1>7, <1>8, <1>11, <1>14, <1>15, UpperRuns
<1>17. U \in Seq(Runs) /\ Canon(U) /\ (w - 1) + Span(U) = v + Span(R) /\ Ones(P, v) \cup Ones(U, w - 1) = Ones(R, v)
  BY <1>16, Zenon DEF UpperIs
<1>18. P \in Seq(Runs) /\ Canon(P) /\ v + Span(P) = w /\ \A b \in Ones(P, v) : b <= w - 1
  BY <1>10, <1>11, Zenon DEF LowerIs
<1>19. PICK x \in Runs : x = R[n]
  BY <1>7, ElementOfSeq
<1>20. PICK r \in Nat \ {0} : r = x.run
  BY RunsType
<1>21. PICK a \in Nat : a = At(R, n) /\ a # 0
  <2>1. n \in 1..(Len(R) + 1) /\ 0 \in Nat
    BY <1>7, LenProperties
  <2>2. At(R, n) \in Nat \ {0}
    BY <2>1, Places1
  <2> QED
    BY <2>2
<1>22. HalvesOf(data, P, x, Q, T, a)
  BY <1>5, <1>9, <1>19, <1>21, HalvesRead
<1>23. PICK e \in Nat : e = w - 1 /\ v < e /\ e < w
  BY <1>11
<1>24. PICK lo : lo = Lower(f, cur)
  OBVIOUS
<1>25. lo = [f EXCEPT !.rledata = Coded(P) \o <<0>>, !.maxvalue = e]
  <2>1. SubSeq(data, 1, a - 1) = Coded(P)
    BY <1>22, Zenon DEF HalvesOf
  <2>2. SubSeq(f.rledata, 1, cur.at - 1) = Coded(P) /\ cur.value - 1 = e
    BY <1>4, <1>7, <1>11, <1>21, <1>23, <2>1, Zenon
  <2> QED
    BY <1>24, <2>2, Zenon DEF Lower
<1>26. Coded(P) \o <<0>> \in Seq(Bytes) /\ <<0>> \in Terminators
  <2>1. <<0>> \in Terminators
    BY Zenon DEF Terminators
  <2>2. Coded(P) \in Seq(Bytes) /\ <<0>> \in Seq(Bytes)
    BY <2>1, CodedProperties, TerminatorBytes
  <2> QED
    BY <2>1, <2>2, ConcatProperties
<1>27. lo \in FrameSet /\ lo.startvalue = v /\ lo.maxvalue = e /\ lo.rledata = Coded(P) \o <<0>>
  <2>1. PICK d \in Seq(Bytes) : d = Coded(P) \o <<0>>
    BY <1>26
  <2>2. lo = [f EXCEPT !.rledata = d, !.maxvalue = e]
    BY <1>25, <2>1, Zenon
  <2>3. lo \in FrameSet /\ lo.startvalue = v /\ lo.maxvalue = e /\ lo.rledata = d
    BY <1>2, <2>2 DEF FrameSet
  <2> QED
    BY <2>1, <2>3, Zenon
<1>28. PICK z \in Seq(Bytes) : z = encode(0, r + 1)
  <2>1. 0 \in 0..1 /\ r + 1 \in Nat
    OBVIOUS
  <2> QED
    BY <2>1, EncodeBytes
<1>29. ASSUME NEW width \in {cur.length, blocklength(cur.run + 1)}
       PROVE  CutWell(f, cur, width)
  <2>1. width \in Nat
    <3>1. blocklength(r) \in 1..4 /\ blocklength(r + 1) \in 1..4
      <4>1. r \in Nat /\ r + 1 \in Nat
        OBVIOUS
      <4> QED
        BY <4>1, BlockLengths
    <3>2. width = blocklength(r) \/ width = blocklength(r + 1)
      BY <1>7, <1>19, <1>20, Zenon
    <3> QED
      BY <3>1, <3>2
  <2>2. PICK y : y = SubSeq(data, a + width, Len(data))
    OBVIOUS
  <2>3. y \in Seq(Bytes)
    <3>1. PICK d \in Nat : d = Len(data)
      BY LenProperties
    <3>2. PICK b \in Nat \ {0} : b = a + width
      BY <1>21, <2>1
    <3>3. \A i \in b..d : i \in 1..Len(data)
      BY <3>1
    <3>4. \A i \in b..d : data[i] \in Bytes
      BY <3>3, ElementOfSeq
    <3>5. SubSeq(data, b, d) \in Seq(Bytes)
      BY <3>4, SubSeqProperties
    <3> QED
      BY <2>2, <3>1, <3>2, <3>5, Zenon
  <2>4. PICK d \in Seq(Bytes) : d = z \o y
    BY <2>3, ConcatProperties
  <2>5. PICK up : up = Upper(f, cur, width)
    OBVIOUS
  <2>6. up = [f EXCEPT !.rledata = d, !.startvalue = e]
    <3>1. encode(0, cur.run + 1) \o SubSeq(f.rledata, cur.at + width, Len(f.rledata)) = d /\ cur.value - 1 = e
      BY <1>4, <1>7, <1>11, <1>19, <1>20, <1>21, <1>23, <1>28, <2>2, <2>4, Zenon
    <3> QED
      BY <2>5, <3>1, Zenon DEF Upper
  <2>7. up \in FrameSet /\ up.startvalue = e /\ up.maxvalue = m
    BY <1>3, <2>6 DEF FrameSet
  <2>8. m # 0 => e < m
    <3> SUFFICES ASSUME m # 0 PROVE e < m
      OBVIOUS
    <3>1. n \in 1..(Len(R) - 1)
      BY <1>7
    <3>2. w < m
      BY <1>5, <1>7, <1>11, <3>1, Zenon DEF ZerosBelow
    <3> QED
      BY <1>23, <3>2
  <2>9. Meets(lo, up)
    BY <1>23, <1>27, <2>7, Zenon DEF Meets
  <2> QED
    BY <1>2, <1>3, <1>24, <1>27, <2>5, <2>7, <2>8, <2>9, Zenon DEF CutWell
<1>30. CutBits(f, lim, cur)
  <2>1. PICK up : up = Upper(f, cur, cur.length)
    OBVIOUS
  <2>2. up \in FrameSet /\ up.maxvalue = m
    <3>1. cur.length \in {cur.length, blocklength(cur.run + 1)}
      OBVIOUS
    <3>2. CutWell(f, cur, cur.length)
      BY <1>29, <3>1
    <3> QED
      BY <1>3, <2>1, <3>2, Zenon DEF CutWell
  <2>3. up.rledata = Coded(U) \o T /\ up.startvalue = e
    <3>1. UpperCoded(R, n, Q, T)
      <4>1. Run(0, R[n].run + 1) \in Runs
        <5>2. v + Span(R) = w + r + Span(Q)
          BY <1>8, <1>11, <1>19, <1>20, Zenon DEF PartsAt
        <5>3. PICK q \in Nat : q = Span(Q)
          BY SpanProperties
        <5>4. w + r + q <= most
          BY <1>13, <1>14, <5>2, <5>3, Zenon
        <5>5. r + 1 <= most /\ r + 1 \in Nat /\ r + 1 # 0 /\ 0 \in 0..1
          BY <1>11, <5>4
        <5>6. Run(0, r + 1) \in Runs
          BY <1>13, <5>5, RunIn
        <5> QED
          BY <1>19, <1>20, <5>6, Zenon
      <4> QED
        BY <4>1, UpperBytes
    <3>2. SubSeq(data, a + blocklength(x.run), Len(data)) = Coded(Q) \o T
      BY <1>22, Zenon DEF HalvesOf
    <3>3. encode(0, cur.run + 1) \o SubSeq(f.rledata, cur.at + cur.length, Len(f.rledata)) = Coded(U) \o T
      BY <1>4, <1>7, <1>15, <1>19, <1>21, <3>1, <3>2, Zenon DEF UpperCoded
    <3>4. PICK d : d = Coded(U) \o T
      OBVIOUS
    <3>5. up = [f EXCEPT !.rledata = d, !.startvalue = e]
      <4>1. cur.value - 1 = e
        BY <1>7, <1>11, <1>23, Zenon
      <4> QED
        BY <2>1, <3>3, <3>4, <4>1, Zenon DEF Upper
    <3>6. up.rledata = d /\ up.startvalue = e
      BY <3>5 DEF FrameSet
    <3> QED
      BY <3>4, <3>6, Zenon
  <2>4. BitsIn(lo) = Ones(P, v) /\ BitsIn(up) = Ones(U, e)
    <3>1. BitsOf(Coded(P) \o <<0>>, v) = Ones(P, v) /\ BitsOf(Coded(U) \o T, e) = Ones(U, e)
      BY <1>17, <1>18, <1>26, BitsRead
    <3> QED
      BY <1>27, <2>3, <3>1, Zenon DEF BitsIn
  <2>5. BitsIn(lo) \cup BitsIn(up) = BitsIn(f)
    BY <1>5, <1>17, <1>23, <2>4, Zenon
  <2>6. ASSUME Inside(f)
        PROVE  Fit(lo, lim) /\ Inside(lo) /\ Fit(up, lim) /\ Inside(up)
    <3>1. PICK p \in Nat : p = Span(P)
      BY SpanProperties
    <3>2. \A b \in Ones(P, v) : b <= e
      BY <1>18, <1>23, Zenon
    <3>3. v + Span(P) <= lim
      <4>1. PICK q \in Nat : q = Span(Q)
        BY SpanProperties
      <4>2. v + Span(R) = w + r + Span(Q)
        BY <1>8, <1>11, <1>19, <1>20, Zenon DEF PartsAt
      <4>3. w + r + q <= lim
        BY <1>5, <4>1, <4>2, Zenon
      <4>4. w <= lim
        BY <1>11, <4>3
      <4> QED
        BY <1>18, <4>4, Zenon
    <3>4. ZerosBelow(P, v, e)
      <4>1. Alternates(P)
        BY <1>18, Zenon DEF Canon
      <4> QED
        BY <1>18, <3>2, <4>1, ZerosFollowed
    <3>5. FitBy(lo, lim, P, <<0>>)
      BY <1>18, <1>27, <3>3, <3>4, Zenon DEF FitBy
    <3>6. Fit(lo, lim)
      BY <1>18, <1>26, <3>5, Zenon DEF Fit
    <3>7. Inside(lo)
      BY <1>27, <2>4, <3>2, Zenon DEF Inside
    <3>8. Inside(up)
      BY <1>3, <2>2, <2>5, <2>6, Zenon DEF Inside
    <3>9. m # 0 => ZerosBelow(U, e, m)
      <4>1. Alternates(U)
        BY <1>17, Zenon DEF Canon
      <4>2. m # 0 => \A b \in Ones(U, e) : b <= m
        BY <2>2, <2>4, <3>8, Zenon DEF Inside
      <4> QED
        BY <1>17, <4>1, <4>2, ZerosFollowed
    <3>10. e + Span(U) <= lim
      BY <1>5, <1>17, <1>23, Zenon
    <3>11. FitBy(up, lim, U, T)
      BY <1>17, <2>2, <2>3, <3>9, <3>10, Zenon DEF FitBy
    <3>12. Fit(up, lim)
      BY <1>17, <3>11, Zenon DEF Fit
    <3> QED
      BY <3>6, <3>7, <3>8, <3>12
  <2> QED
    BY <1>24, <2>1, <2>5, <2>6, Zenon DEF CutBits
<1> QED
  BY <1>29, <1>30

-----------------------------------------------------------------------------
(* join.                                                                   *)

(* The blocks that join looks at, by their places among the runs.          *)
LastIs(b, R, v) ==
  /\ b.at = At(R, Len(R)) /\ b.value = Val(R, v, Len(R))
  /\ b.run = R[Len(R)].run /\ b.bit = R[Len(R)].bit
  /\ b.value + b.run = v + Span(R) /\ b.run \in Nat \ {0} /\ b.value \in Nat /\ b.bit \in 0..1
  /\ Len(R) \in 1..Len(R)
NextIs2(m, b, R, v) ==
  /\ blockend(m) = 1 + blocklength(R[1].run) /\ R[1] \in Runs /\ R[1].bit = 0
  /\ b.value = v + R[1].run /\ b.at = At(R, 2)
  /\ Len(R) = 1 => b.run = 0 /\ blockend(b) = At(R, 2) + 1
  /\ Len(R) > 1 => /\ b.run = R[2].run /\ blockend(b) = At(R, 2) + blocklength(R[2].run)
                   /\ R[2] \in Runs /\ R[2].bit = 1

(* The last block that join looks at, and whether the terminator is there. *)
LEMMA LastRead ==
  ASSUME NEW f \in FrameSet, NEW lim, NEW R \in Seq(Runs), NEW T \in Terminators, FitBy(f, lim, R, T),
         NEW v \in Nat, v = f.startvalue
  PROVE  /\ LastIs(LastBlock(f), R, v)
         /\ Unended(f) <=> T = <<>>
<1>1. PICK B : B = BlocksFor(R, v)
  OBVIOUS
<1>2. BlocksIn(f) = B /\ Canon(R) /\ f.rledata = Coded(R) \o T
  BY <1>1, FitFacts, Zenon DEF FitBy
<1>3. PICK l \in Nat \ {0} : l = Len(R)
  <2>1. Len(R) \in Nat \ {0}
    BY <1>2, CanonAbove
  <2> QED
    BY <2>1
<1>4. /\ Len(B) = l + 1 /\ Last(B) = B[l + 1] /\ B[l].at = At(R, l) /\ B[l].value = Val(R, v, l)
      /\ B[l].run = R[l].run /\ B[l].bit = R[l].bit /\ R[l].run \in Nat \ {0} /\ R[l].bit \in 0..1
      /\ B[l + 1].at = At(R, l + 1)
  <2>1. l \in 1..Len(R)
    BY <1>3
  <2>2. /\ Len(B) = Len(R) + 1 /\ Last(B) = B[Len(R) + 1] /\ B[l].at = At(R, l) /\ B[l].value = Val(R, v, l)
        /\ B[l].run = R[l].run /\ B[l].bit = R[l].bit /\ R[l].run \in Nat \ {0} /\ R[l].bit \in 0..1
    BY <1>1, <2>1, Fields, SMTT(30)
  <2>3. B[Len(R) + 1].at = At(R, Len(R) + 1)
    BY <1>1, BlockIsThere
  <2> QED
    BY <1>3, <2>2, <2>3, Zenon
<1>5. (l + 1) - 1 = l /\ l \in 1..l
  BY <1>3
<1>6. LastBlock(f) = B[l]
  BY <1>2, <1>4, <1>5, Zenon DEF LastBlock
<1>7. Val(R, v, l) + R[l].run = v + Span(R) /\ Val(R, v, l) \in Nat /\ At(R, l + 1) = 1 + Len(Coded(R))
  <2>1. l \in 1..Len(R) /\ l \in 1..(Len(R) + 1)
    BY <1>3
  <2>2. Val(R, v, l + 1) = Val(R, v, l) + R[l].run /\ Val(R, v, l) \in Nat
    BY <2>1, Places1
  <2>3. Val(R, v, Len(R) + 1) = v + Span(R) /\ At(R, Len(R) + 1) = 1 + Len(Coded(R))
    BY Places1
  <2> QED
    BY <1>3, <2>2, <2>3, Zenon
<1>8. LastIs(LastBlock(f), R, v)
  BY <1>3, <1>4, <1>5, <1>6, <1>7, Zenon DEF LastIs
<1>9. PICK c \in Nat : c = Len(Coded(R))
  BY CodedProperties
<1>10. Len(f.rledata) = c + Len(T)
  <2>1. Coded(R) \in Seq(Bytes) /\ T \in Seq(Bytes)
    BY CodedProperties, TerminatorBytes
  <2>2. Len(Coded(R) \o T) = Len(Coded(R)) + Len(T)
    BY <2>1, ConcatProperties
  <2> QED
    BY <1>2, <1>9, <2>2, Zenon
<1>11. Last(BlocksIn(f)).at = 1 + c
  BY <1>2, <1>4, <1>7, <1>9, Zenon
<1>12. Unended(f) <=> (1 + c) > (c + Len(T))
  BY <1>10, <1>11, Zenon DEF Unended
<1>13. (T = <<>> => Len(T) = 0) /\ (T = <<0>> => Len(T) = 1) /\ (T = <<>> \/ T = <<0>>)
  BY EmptySeq DEF Terminators
<1>14. 1 + c > c + 0 /\ ~(1 + c > c + 1)
  OBVIOUS
<1>15. <<0>> # <<>>
  OBVIOUS
<1>16. Unended(f) <=> T = <<>>
  BY <1>12, <1>13, <1>14, <1>15, Zenon
<1> QED
  BY <1>8, <1>16

(* The first two blocks that join looks at in the other frame. *)
LEMMA NextRead ==
  ASSUME NEW f \in FrameSet, NEW lim, NEW R \in Seq(Runs), NEW T \in Terminators, FitBy(f, lim, R, T),
         NEW v \in Nat, v = f.startvalue
  PROVE  NextIs2(Middle(f), NextBlock(f), R, v)
<1>1. PICK B : B = BlocksFor(R, v)
  OBVIOUS
<1>2. BlocksIn(f) = B /\ Canon(R) /\ f.rledata = Coded(R) \o T
  BY <1>1, FitFacts, Zenon DEF FitBy
<1>3. PICK l \in Nat \ {0} : l = Len(R)
  <2>1. Len(R) \in Nat \ {0}
    BY <1>2, CanonAbove
  <2> QED
    BY <2>1
<1>4. Middle(f) = B[1] /\ NextBlock(f) = B[2]
  BY <1>2, Zenon DEF Middle, NextBlock
<1>5. 1 \in 1..Len(R) /\ 1 \in 1..l /\ 1 + 1 = 2 /\ (l = 1 \/ l > 1) /\ (l = 1 => ~(l > 1))
  BY <1>3
<1>6. blockend(B[1]) = At(R, 1) + blocklength(R[1].run) /\ R[1] \in Runs /\ R[1].bit \in 0..1
  BY <1>1, <1>5, Fields
<1>7. R[1].bit = 0 /\ \A n \in 2..Len(R) : R[n].bit # R[n - 1].bit
  BY <1>2, Zenon DEF Canon, Alternates
<1>8. At(R, 1) = 1 /\ Val(R, v, 2) = v + R[1].run
  <2>1. At(R, 1) = 1 /\ Val(R, v, 1) = v /\ Val(R, v, 1 + 1) = Val(R, v, 1) + R[1].run
    BY <1>5, Places1
  <2> QED
    BY <1>5, <2>1, Zenon
<1>9. B[2].value = Val(R, v, 2) /\ B[2].at = At(R, 2)
  <2>1. 2 \in 1..(Len(R) + 1)
    BY <1>3
  <2>2. B[2] = BlockFor(R, v, 2)
    BY <1>1, <2>1, BlocksForType
  <2> QED
    BY <2>2 DEF BlockFor
<1>10. ASSUME l = 1
       PROVE  B[2].run = 0 /\ blockend(B[2]) = At(R, 2) + 1
  <2>1. 2 \in 1..(Len(R) + 1) /\ ~(2 <= Len(R))
    BY <1>3, <1>10
  <2>2. B[2] = BlockFor(R, v, 2)
    BY <1>1, <2>1, BlocksForType
  <2>3. B[2].run = 0 /\ B[2].length = 1
    BY <2>1, <2>2 DEF BlockFor
  <2> QED
    BY <1>9, <2>3, Zenon DEF blockend
<1>11. ASSUME l > 1
       PROVE  /\ B[2].run = R[2].run /\ blockend(B[2]) = At(R, 2) + blocklength(R[2].run)
              /\ R[2] \in Runs /\ R[2].bit = 1
  <2>1. 2 \in 1..Len(R) /\ 2 \in 2..Len(R) /\ 2 - 1 = 1
    BY <1>3, <1>11
  <2>2. /\ B[2].run = R[2].run /\ blockend(B[2]) = At(R, 2) + blocklength(R[2].run)
        /\ R[2] \in Runs /\ R[2].bit \in 0..1
    BY <1>1, <2>1, Fields
  <2>3. R[2].bit # R[1].bit
    BY <1>7, <2>1, Zenon
  <2>4. R[2].bit = 1
    BY <1>7, <2>2, <2>3
  <2> QED
    BY <2>2, <2>4
<1> QED
  BY <1>3, <1>4, <1>6, <1>7, <1>8, <1>9, <1>10, <1>11, Zenon DEF NextIs2

(* What of the string is before and behind one of its runs, and before     *)
(* and behind its end.                                                     *)
LEMMA AroundRun ==
  ASSUME NEW R \in Seq(Runs), NEW T \in Terminators, NEW v, NEW n, NEW P \in Seq(Runs), NEW Q \in Seq(Runs),
         PartsAt(R, v, n, P, Q), n \in 1..Len(R), NEW data, data = Coded(R) \o T
  PROVE  HalvesOf(data, P, R[n], Q, T, At(R, n))
<1>1. PICK x \in Runs : x = R[n]
  BY ElementOfSeq
<1>2. PICK a : a = At(R, n)
  OBVIOUS
<1>3. R = Row(P, <<x>>, Q) /\ a = 1 + Len(Coded(P))
  BY <1>1, <1>2, Zenon DEF PartsAt
<1>4. HalvesOf(data, P, x, Q, T, a)
  BY <1>3, HalvesRead
<1> QED
  BY <1>1, <1>2, <1>4, Zenon

EndOf(data, R, T) ==
  /\ T = <<0>> => SubSeq(data, 1, Len(data) - 1) = Coded(R)
  /\ SubSeq(data, Len(Coded(R)) + 2, Len(data)) = <<>>

(* The bytes before the terminator, and before the last run. *)
LEMMA AroundEnd ==
  ASSUME NEW R \in Seq(Runs), NEW T \in Terminators, NEW data, data = Coded(R) \o T
  PROVE  EndOf(data, R, T)
<1>1. PICK c \in Seq(Bytes) : c = Coded(R)
  BY CodedProperties
<1>2. PICK l \in Nat : l = Len(c)
  BY LenProperties
<1>3. T \in Seq(Bytes) /\ data = c \o T
  BY <1>1, TerminatorBytes
<1>4. data \in Seq(Bytes) /\ Len(data) = l + Len(T) /\ \A i \in 1..l : data[i] = c[i]
  BY <1>2, <1>3, ConcatProperties
<1>5. PICK d \in Nat : d = Len(data)
  BY <1>4, LenProperties
<1>6. (T = <<>> => Len(T) = 0) /\ (T = <<0>> => Len(T) = 1) /\ (T = <<>> \/ T = <<0>>)
  BY EmptySeq DEF Terminators
<1>t. PICK t \in 0..1 : t = Len(T) /\ (T = <<0>> => t = 1)
  BY <1>6
<1>7. d = l + t
  BY <1>4, <1>5, <1>t
<1>8. SubSeq(data, 1, l) = c
  <2>1. <<>> \in Seq(Bytes) /\ data \o <<>> = data
    BY <1>4, ConcatEmptySeq, EmptySeq
  <2>2. Row(c, T, <<>>) = data
    BY <1>3, <2>1, Zenon DEF Row
  <2>3. SubSeq(Row(c, T, <<>>), 1, Len(c)) = c
    BY <1>3, <2>1, FrontOfRow
  <2> QED
    BY <1>2, <2>2, <2>3, Zenon
<1>9. SubSeq(data, l + 2, d) = <<>>
  <2>1. l + 2 \in Int /\ d \in Int /\ d < l + 2
    BY <1>7
  <2> QED
    BY <2>1, SubSeqEmpty
<1>10. T = <<0>> => d - 1 = l
  BY <1>7, <1>t
<1> QED
  BY <1>1, <1>2, <1>5, <1>8, <1>9, <1>10, Zenon DEF EndOf

(* A part of some bytes. *)
LEMMA PartBytes ==
  ASSUME NEW data \in Seq(Bytes), NEW a \in Nat \ {0}, NEW b \in Nat, b <= Len(data)
  PROVE  SubSeq(data, a, b) \in Seq(Bytes)
<1>1. PICK d \in Nat : d = Len(data)
  BY LenProperties
<1>2. \A i \in a..b : i \in 1..Len(data)
  BY <1>1
<1>3. \A i \in a..b : data[i] \in Bytes
  BY <1>2, ElementOfSeq
<1> QED
  BY <1>3, SubSeqProperties

(* The two ways in which the bytes of frames are joined. *)
After(b, other) == SubSeq(other.rledata, blockend(b), Len(other.rledata))
Glued(f, other) ==
  Row(SubSeq(f.rledata, 1, LastBlock(f).at - 1),
      encode(1, LastBlock(f).run + NextBlock(other).run), After(NextBlock(other), other))
Spaced(f, other) ==
  Row(SubSeq(f.rledata, 1, Len(f.rledata) - 1), encode(0, Diff(f, other)), After(Middle(other), other))

(* The frame that join makes. *)
LEMMA JoinedIs ==
  ASSUME NEW f \in FrameSet, NEW other \in FrameSet, NEW d \in Seq(Bytes),
         d = IF Diff(f, other) = 0 THEN Glued(f, other) ELSE Spaced(f, other)
  PROVE  /\ Joined(f, other) \in FrameSet /\ (Joined(f, other)).rledata = d
         /\ (Joined(f, other)).startvalue = f.startvalue /\ (Joined(f, other)).maxvalue = other.maxvalue
<1>1. PICK m \in Nat : m = other.maxvalue
  BY FrameFields
<1>2. Joined(f, other) = [f EXCEPT !.rledata = d, !.maxvalue = m]
  BY <1>1, Zenon DEF Joined, Glued, Spaced, Row, After
<1>3. [f EXCEPT !.rledata = d, !.maxvalue = m] \in FrameSet
  BY DEF FrameSet
<1>4. /\ [f EXCEPT !.rledata = d, !.maxvalue = m].rledata = d
      /\ [f EXCEPT !.rledata = d, !.maxvalue = m].startvalue = f.startvalue
      /\ [f EXCEPT !.rledata = d, !.maxvalue = m].maxvalue = m
  BY DEF FrameSet
<1> QED
  BY <1>1, <1>2, <1>3, <1>4

(* Frames joined with 0s between: what the other held moves up by one.     *)
JoinGap(R1, v1, R2, v2, diff) == diff = v2 + R2[1].run + 1 - (v1 + Span(R1))
SpacedIs(R1, v1, R2, v2, T2, S) ==
  /\ S \in Seq(Runs) /\ Ones(S, v1) = Ones(R1, v1) \cup Ones(R2, v2 + 1)
  /\ v1 + Span(S) = v2 + Span(R2) + 1
  /\ R1[Len(R1)].bit = 1 => Canon(S)

(* Runs, 0s between, and the runs of the next frame behind its leading 0s  *)
(* are canonical.                                                          *)
LEMMA SpacedRuns ==
  ASSUME NEW R1 \in Seq(Runs), NEW v1 \in Nat, Canon(R1), NEW R2 \in Seq(Runs), NEW v2 \in Nat, Canon(R2),
         NEW diff \in Nat, diff # 0, diff <= MaxRun, JoinGap(R1, v1, R2, v2, diff),
         NEW P, NEW Q \in Seq(Runs), PartsAt(R2, v2, 1, P, Q), NEW T2
  PROVE  /\ Run(0, diff) \in Runs
         /\ SpacedIs(R1, v1, R2, v2, T2, Row(R1, <<Run(0, diff)>>, Q))
<1>1. PICK g \in Runs : g = Run(0, diff) /\ g.bit = 0 /\ g.run = diff
  <2>1. 0 \in 0..1
    OBVIOUS
  <2> QED
    BY <2>1, RunIn
<1>2. Single1(g) /\ <<g>> \in Seq(Runs) /\ Len(<<g>>) = 1 /\ <<g>>[1] = g /\ Span(<<g>>) = diff
  BY <1>1, SingleRun DEF Single1
<1>3. PICK s1 \in Nat : s1 = Span(R1)
  BY SpanProperties
<1>4. PICK s2 \in Nat : s2 = Span(R2)
  BY SpanProperties
<1>5. PICK q \in Nat : q = Span(Q)
  BY SpanProperties
<1>6. PICK l \in Nat \ {0} : l = Len(R2)
  <2>1. Len(R2) \in Nat \ {0}
    BY CanonAbove
  <2> QED
    BY <2>1
<1>7. 1 \in 1..Len(R2) /\ l \in 1..l
  BY <1>6
<1>8. PICK x \in Runs : x = R2[1]
  BY <1>7, ElementOfSeq
<1>9. PICK r \in Nat : r = x.run
  BY RunsType
<1>10. Val(R2, v2, 1) = v2 /\ x.bit = 0
  <2>1. Val(R2, v2, 1) = v2
    BY Places1
  <2> QED
    BY <1>8, <2>1, Zenon DEF Canon
<1>11. /\ Ones(R2, v2) = Ones(P, v2) \cup Ones(<<x>>, v2) \cup Ones(Q, v2 + r)
       /\ v2 + s2 = v2 + r + q
       /\ Len(Q) = l - 1 /\ Q = SubSeq(R2, 2, Len(R2)) /\ Len(P) = 0
  <2>1. 1 - 1 = 0 /\ 1 + 1 = 2
    OBVIOUS
  <2> QED
    BY <1>4, <1>5, <1>6, <1>8, <1>9, <1>10, <2>1, Zenon DEF PartsAt
<1>12. P = <<>> /\ R2 = <<x>> \o Q
  <2>1. PICK p \in Seq(Runs) : p = P
    <3>1. 1 \in Nat \ {0} /\ 0 \in Nat
      OBVIOUS
    <3>2. P = SubSeq(R2, 1, 1 - 1)
      BY Zenon DEF PartsAt
    <3>3. SubSeq(R2, 1, 1 - 1) \in Seq(Runs)
      BY <1>7, Parting
    <3> QED
      BY <3>2, <3>3
  <2>2. p = <<>>
    BY <1>11, <2>1, EmptySeq
  <2>3. R2 = Row(P, <<x>>, Q)
    BY <1>8, Zenon DEF PartsAt
  <2>4. <<x>> \in Seq(Runs) /\ <<>> \o <<x>> = <<x>>
    BY SingleRun, ConcatEmptySeq DEF Single1
  <2> QED
    BY <2>1, <2>2, <2>3, <2>4, Zenon DEF Row
<1>13. v1 + s1 + diff = v2 + r + 1 /\ v2 + r \in Nat /\ v2 + 1 + r = v2 + r + 1 /\ v1 + s1 \in Nat
  <2>1. diff = v2 + r + 1 - (v1 + s1)
    BY <1>3, <1>8, <1>9, Zenon DEF JoinGap
  <2> QED
    BY <2>1
<1>14. PICK S : S = Row(R1, <<g>>, Q)
  OBVIOUS
<1>s. <<g>> \in Seq(Runs)
  BY <1>2
<1>15. /\ S \in Seq(Runs) /\ Span(S) = s1 + diff + q
       /\ Ones(S, v1) = Ones(R1, v1) \cup Ones(<<g>>, v1 + s1) \cup Ones(Q, v1 + s1 + diff)
  <2>1. PICK y \in Seq(Runs) : y = <<g>>
    BY <1>s
  <2>2. /\ Row(R1, y, Q) \in Seq(Runs)
        /\ Span(Row(R1, y, Q)) = Span(R1) + Span(y) + Span(Q)
        /\ Ones(Row(R1, y, Q), v1)
             = Ones(R1, v1) \cup Ones(y, v1 + Span(R1)) \cup Ones(Q, v1 + Span(R1) + Span(y))
    BY OnesRow
  <2> QED
    BY <1>2, <1>3, <1>5, <1>14, <2>1, <2>2, Zenon
<1>16. Ones(<<g>>, v1 + s1) = {}
  <2>1. \A y \in Runs : Ones(<<y>>, v1 + s1) = IF y.bit = 1 THEN (v1 + s1)..(v1 + s1 + y.run - 1) ELSE {}
    BY <1>13, OnesProperties
  <2>2. g.bit # 1
    BY <1>1
  <2> QED
    BY <2>1, <2>2, Zenon
<1>17. Ones(R2, v2 + 1) = Ones(Q, v2 + r + 1)
  <2>1. v2 + 1 \in Nat
    OBVIOUS
  <2>2. \A y \in Runs : Ones(<<y>>, v2 + 1) = IF y.bit = 1 THEN (v2 + 1)..(v2 + 1 + y.run - 1) ELSE {}
    BY <2>1, OnesProperties
  <2>3. x.bit # 1
    BY <1>10
  <2>4. Ones(<<x>>, v2 + 1) = {}
    BY <2>2, <2>3, Zenon
  <2>5. <<x>> \in Seq(Runs) /\ Span(<<x>>) = r
    BY <1>9, SingleRun DEF Single1
  <2>6. OnesAdd(<<x>>, Q, v2 + 1)
    BY <2>1, <2>5, OnesProperties
  <2>7. Ones(R2, v2 + 1) = {} \cup Ones(Q, v2 + 1 + r)
    BY <1>12, <2>4, <2>5, <2>6, Zenon DEF OnesAdd
  <2> QED
    BY <1>13, <2>7, Zenon
<1>18. Ones(S, v1) = Ones(R1, v1) \cup Ones(R2, v2 + 1)
  <2>1. Ones(S, v1) = Ones(R1, v1) \cup {} \cup Ones(Q, v2 + r + 1)
    BY <1>13, <1>15, <1>16, Zenon
  <2> QED
    BY <1>17, <2>1, Zenon
<1>19. v1 + Span(S) = v2 + Span(R2) + 1
  <2>1. v1 + (s1 + diff + q) = v2 + s2 + 1
    BY <1>11, <1>13
  <2> QED
    BY <1>4, <1>15, <2>1, Zenon
<1>20. ASSUME R1[Len(R1)].bit = 1
       PROVE  Canon(S)
  <2>1. <<g>> \o Q \in Seq(Runs) /\ Len(<<g>> \o Q) = l
    <3>1. Len(<<g>> \o Q) = Len(<<g>>) + Len(Q) /\ <<g>> \o Q \in Seq(Runs)
      BY <1>2, ConcatProperties
    <3>2. Len(<<g>> \o Q) = 1 + (l - 1)
      BY <1>2, <1>11, <3>1, Zenon
    <3> QED
      BY <3>1, <3>2
  <2>2. PICK U \in Seq(Runs) : U = <<g>> \o Q
    BY <2>1
  <2>3. U[1] = g /\ \A i \in 2..l : U[i] = R2[i]
    <3>1. \A i \in 1..(Len(<<g>>) + Len(Q)) : (<<g>> \o Q)[i] = IF i <= Len(<<g>>) THEN <<g>>[i] ELSE Q[i - Len(<<g>>)]
      BY <1>2, ConcatProperties
    <3>2. \A i \in 1..(Len(<<x>>) + Len(Q)) : (<<x>> \o Q)[i] = IF i <= Len(<<x>>) THEN <<x>>[i] ELSE Q[i - Len(<<x>>)]
      <4>1. <<x>> \in Seq(Runs)
        BY SingleRun DEF Single1
      <4> QED
        BY <4>1, ConcatProperties
    <3>3. Len(<<x>>) = 1 /\ 1 + (l - 1) = l /\ 1 <= 1 /\ \A i \in 2..l : i \in 1..l /\ ~(i <= 1)
      BY SingleRun DEF Single1
    <3>4. \A i \in 1..l : U[i] = IF i <= 1 THEN <<g>>[i] ELSE Q[i - 1]
      BY <1>2, <1>11, <2>2, <3>1, <3>3, ZenonT(30)
    <3>5. \A i \in 1..l : R2[i] = IF i <= 1 THEN <<x>>[i] ELSE Q[i - 1]
      BY <1>11, <1>12, <3>2, <3>3, Zenon
    <3>6. 1 \in 1..l /\ 1 <= 1
      BY <1>6
    <3>7. U[1] = <<g>>[1]
      BY <3>4, <3>6, Zenon
    <3>8. \A i \in 2..l : U[i] = Q[i - 1] /\ R2[i] = Q[i - 1]
      BY <3>3, <3>4, <3>5, Zenon
    <3> QED
      BY <1>2, <3>7, <3>8, Zenon
  <2>4. SameBits(R2, 0, U)
    <3>1. \A k \in 1..Len(U) : k + 0 = k /\ k \in 1..Len(R2) /\ (k = 1 \/ k \in 2..l)
      BY <1>6, <2>1, <2>2
    <3>2. U[1].bit = R2[1].bit
      BY <1>1, <1>8, <1>10, <2>3, Zenon
    <3> QED
      BY <2>3, <3>1, <3>2, Zenon DEF SameBits
  <2>5. Alternates(U) /\ Alternates(R1)
    <3>1. Alternates(R2) /\ Alternates(R1) /\ 0 \in Nat
      BY DEF Canon
    <3> QED
      BY <2>4, <3>1, AlternatesSlice
  <2>6. R1[Len(R1)].bit # U[1].bit /\ Len(U) # 0 /\ Len(R1) # 0
    <3>1. Len(R1) \in Nat \ {0}
      BY CanonAbove
    <3>2. Len(U) # 0
      BY <1>6, <2>1, <2>2
    <3>3. U[1].bit = 0
      BY <1>1, <2>3, Zenon
    <3> QED
      BY <1>20, <3>1, <3>2, <3>3
  <2>7. Alternates(R1 \o U)
    BY <2>5, <2>6, AlternatesJoin
  <2>8. S = R1 \o U
    <3>1. (R1 \o <<g>>) \o Q = R1 \o (<<g>> \o Q)
      BY <1>s, ConcatAssociative
    <3> QED
      BY <1>14, <2>2, <3>1, Zenon DEF Row
  <2>9. S[1].bit = 0 /\ S # <<>>
    <3>1. Len(S) = Len(R1) + Len(U) /\ \A i \in 1..(Len(R1) + Len(U)) :
            S[i] = IF i <= Len(R1) THEN R1[i] ELSE U[i - Len(R1)]
      BY <2>8, ConcatProperties
    <3>2. PICK m \in Nat \ {0} : m = Len(R1)
      <4>1. Len(R1) \in Nat \ {0}
        BY CanonAbove
      <4> QED
        BY <4>1
    <3>3. PICK u \in Nat : u = Len(U)
      BY LenProperties
    <3>4. 1 \in 1..(m + u) /\ 1 <= m /\ m + u # 0
      BY <3>2
    <3>5. S[1] = R1[1]
      BY <3>1, <3>2, <3>3, <3>4, Zenon
    <3>6. Len(S) # 0 /\ S \in Seq(Runs)
      BY <1>15, <3>1, <3>2, <3>3, <3>4, Zenon
    <3>7. S # <<>>
      BY <3>6, EmptySeq
    <3> QED
      BY <3>5, <3>7, Zenon DEF Canon
  <2> QED
    BY <2>7, <2>8, <2>9, Zenon DEF Canon
<1>21. S = Row(R1, <<Run(0, diff)>>, Q)
  BY <1>1, <1>14, Zenon
<1>22. SpacedIs(R1, v1, R2, v2, T2, S)
  BY <1>15, <1>18, <1>19, <1>20, Zenon DEF SpacedIs
<1> QED
  BY <1>1, <1>21, <1>22, Zenon

(* Strings of bytes in a row; the run between them spelled out.            *)
LEMMA RowBytes ==
  ASSUME NEW x \in Seq(Bytes), NEW y \in Seq(Bytes), NEW z \in Seq(Bytes)
  PROVE  Row(x, y, z) \in Seq(Bytes)
BY MiddleOf

(* Any gap, and any runs, join to a string of bytes.                       *)
LEMMA JoinedBytes ==
  ASSUME NEW f \in FrameSet, NEW other \in FrameSet, NEW lim,
         NEW R1 \in Seq(Runs), NEW T1 \in Terminators, FitBy(f, lim, R1, T1),
         NEW R2 \in Seq(Runs), NEW T2 \in Terminators, FitBy(other, lim, R2, T2)
  PROVE  /\ Glued(f, other) \in Seq(Bytes)
         /\ Diff(f, other) \in Nat => Spaced(f, other) \in Seq(Bytes)
<1>1. PICK v1 \in Nat : v1 = f.startvalue
  BY FrameFields
<1>2. PICK v2 \in Nat : v2 = other.startvalue
  BY FrameFields
<1>3. LastIs(LastBlock(f), R1, v1)
  BY <1>1, LastRead
<1>4. NextIs2(Middle(other), NextBlock(other), R2, v2)
  BY <1>2, NextRead
<1>5. PICK data1 \in Seq(Bytes) : data1 = f.rledata
  BY FrameFields
<1>6. PICK data2 \in Seq(Bytes) : data2 = other.rledata
  BY FrameFields
<1>7. PICK r \in Nat : r = LastBlock(f).run
  BY <1>3 DEF LastIs
<1>8. PICK l \in Nat \ {0} : l = Len(R2)
  <2>1. Canon(R2)
    BY Zenon DEF FitBy
  <2>2. Len(R2) \in Nat \ {0}
    BY <2>1, CanonAbove
  <2> QED
    BY <2>2
<1>9. l = 1 \/ l > 1
  BY <1>8
<1>10. At(R2, 2) \in Nat
  <2>1. 2 \in 1..(Len(R2) + 1) /\ 0 \in Nat
    BY <1>8
  <2>2. At(R2, 2) \in Nat \ {0}
    BY <2>1, Places1
  <2> QED
    BY <2>2
<1>11. \E s \in Nat, a \in Nat \ {0} : s = NextBlock(other).run /\ a = blockend(NextBlock(other))
  <2>1. CASE l = 1
    <3>1. NextBlock(other).run = 0 /\ blockend(NextBlock(other)) = At(R2, 2) + 1
      BY <1>4, <1>8, <2>1, Zenon DEF NextIs2
    <3>2. 0 \in Nat /\ At(R2, 2) + 1 \in Nat \ {0}
      BY <1>10
    <3> QED
      BY <3>1, <3>2, Zenon
  <2>2. CASE l > 1
    <3>1. PICK x \in Runs : x = R2[2]
      BY <1>4, <1>8, <2>2, Zenon DEF NextIs2
    <3>2. PICK s \in Nat : s = x.run
      BY RunsType
    <3>3. blocklength(s) \in 1..4
      BY BlockLengths
    <3>4. NextBlock(other).run = s /\ blockend(NextBlock(other)) = At(R2, 2) + blocklength(s)
      BY <1>4, <1>8, <2>2, <3>1, <3>2, Zenon DEF NextIs2
    <3>5. At(R2, 2) + blocklength(s) \in Nat \ {0}
      BY <1>10, <3>3
    <3> QED
      BY <3>4, <3>5, Zenon
  <2> QED
    BY <1>9, <2>1, <2>2
<1>12. PICK s \in Nat, a \in Nat \ {0} : s = NextBlock(other).run /\ a = blockend(NextBlock(other))
  BY <1>11
<1>13. PICK c \in Nat \ {0} : c = blockend(Middle(other))
  <2>1. PICK x \in Runs : x = R2[1]
    BY <1>4, Zenon DEF NextIs2
  <2>2. PICK q \in Nat : q = x.run
    BY RunsType
  <2>3. blocklength(q) \in 1..4
    BY BlockLengths
  <2>4. blockend(Middle(other)) = 1 + blocklength(q)
    BY <1>4, <2>1, <2>2, Zenon DEF NextIs2
  <2>5. 1 + blocklength(q) \in Nat \ {0}
    BY <2>3
  <2> QED
    BY <2>4, <2>5
<1>14. PICK d1 \in Nat : d1 = Len(data1)
  BY LenProperties
<1>15. PICK d2 \in Nat : d2 = Len(data2)
  BY LenProperties
<1>16. \A b \in Nat \ {0} : SubSeq(data2, b, Len(data2)) \in Seq(Bytes)
  <2> TAKE b \in Nat \ {0}
  <2>1. d2 <= Len(data2)
    BY <1>15
  <2>2. SubSeq(data2, b, d2) \in Seq(Bytes)
    BY <2>1, PartBytes
  <2> QED
    BY <1>15, <2>2
<1>17. After(NextBlock(other), other) \in Seq(Bytes) /\ After(Middle(other), other) \in Seq(Bytes)
  BY <1>6, <1>12, <1>13, <1>16, Zenon DEF After
<1>18. PICK p \in Nat : p = LastBlock(f).at - 1 /\ p <= d1
  <2>1. PICK n \in 1..Len(R1) : n = Len(R1)
    BY <1>3, Zenon DEF LastIs
  <2>2. PICK c1 \in Nat : c1 = Len(Coded(R1))
    BY CodedProperties
  <2>3. At(R1, n) \in Nat \ {0} /\ At(R1, n) <= c1 + 1
    <3>1. n \in 1..(Len(R1) + 1) /\ 0 \in Nat
      BY LenProperties
    <3>2. At(R1, n) \in Nat \ {0}
      BY <3>1, Places1
    <3>3. At(R1, n) <= Len(Coded(R1)) + 1
      BY <3>1, BlockRead
    <3> QED
      BY <2>2, <3>2, <3>3
  <2>4. d1 >= c1
    <3>1. Coded(R1) \in Seq(Bytes) /\ T1 \in Seq(Bytes)
      BY CodedProperties, TerminatorBytes
    <3>2. Len(Coded(R1) \o T1) = Len(Coded(R1)) + Len(T1) /\ Len(T1) \in Nat
      BY <3>1, ConcatProperties, LenProperties
    <3>3. data1 = Coded(R1) \o T1
      BY <1>5, Zenon DEF FitBy
    <3>4. PICK t \in Nat : t = Len(T1)
      BY <3>2
    <3>5. d1 = c1 + t
      BY <1>14, <2>2, <3>2, <3>3, <3>4, Zenon
    <3> QED
      BY <3>5
  <2>5. LastBlock(f).at = At(R1, n)
    BY <1>3, <2>1, Zenon DEF LastIs
  <2> QED
    BY <2>3, <2>4, <2>5
<1>19. SubSeq(data1, 1, p) \in Seq(Bytes)
  BY <1>14, <1>18, PartBytes
<1>20. encode(1, r + s) \in Seq(Bytes)
  <2>1. 1 \in 0..1 /\ r + s \in Nat
    OBVIOUS
  <2> QED
    BY <2>1, EncodeBytes
<1>21. Glued(f, other) \in Seq(Bytes)
  <2>1. Row(SubSeq(data1, 1, p), encode(1, r + s), After(NextBlock(other), other)) \in Seq(Bytes)
    BY <1>17, <1>19, <1>20, RowBytes
  <2> QED
    BY <1>5, <1>7, <1>12, <1>18, <2>1, Zenon DEF Glued
<1>22. ASSUME Diff(f, other) \in Nat
       PROVE  Spaced(f, other) \in Seq(Bytes)
  <2>1. encode(0, Diff(f, other)) \in Seq(Bytes)
    <3>1. 0 \in 0..1
      OBVIOUS
    <3> QED
      BY <1>22, <3>1, EncodeBytes
  <2>2. SubSeq(data1, 1, d1 - 1) \in Seq(Bytes)
    <3>1. CASE d1 = 0
      <4>1. d1 - 1 \in Int /\ 1 \in Int /\ d1 - 1 < 1
        BY <3>1
      <4>2. SubSeq(data1, 1, d1 - 1) = <<>>
        BY <4>1, SubSeqEmpty
      <4>3. <<>> \in Seq(Bytes)
        BY EmptySeq
      <4> QED
        BY <4>2, <4>3, Zenon
    <3>2. CASE d1 # 0
      <4>1. PICK e \in Nat : e = d1 - 1 /\ e <= d1
        BY <3>2
      <4>2. SubSeq(data1, 1, e) \in Seq(Bytes)
        BY <1>14, <4>1, PartBytes
      <4> QED
        BY <4>1, <4>2
    <3> QED
      BY <3>1, <3>2
  <2>3. Row(SubSeq(data1, 1, d1 - 1), encode(0, Diff(f, other)), After(Middle(other), other)) \in Seq(Bytes)
    BY <1>17, <2>1, <2>2, RowBytes
  <2> QED
    BY <1>5, <1>14, <2>3, Zenon DEF Spaced
<1> QED
  BY <1>21, <1>22

(* The gap, in terms of runs.                                              *)
LEMMA GapIs ==
  ASSUME NEW f, NEW other, NEW R1 \in Seq(Runs), NEW v1 \in Nat, LastIs(LastBlock(f), R1, v1),
         NEW R2 \in Seq(Runs), NEW v2 \in Nat, NextIs2(Middle(other), NextBlock(other), R2, v2)
  PROVE  /\ JoinGap(R1, v1, R2, v2, Diff(f, other))
         /\ Diff(f, other) \in Int
<1>1. PICK x \in Runs : x = R2[1]
  BY Zenon DEF NextIs2
<1>2. PICK r \in Nat : r = x.run
  BY RunsType
<1>3. PICK s \in Nat : s = Span(R1)
  BY SpanProperties
<1>4. PICK w \in Nat : w = LastBlock(f).value
  BY Zenon DEF LastIs
<1>5. PICK q \in Nat : q = LastBlock(f).run
  BY DEF LastIs
<1>6. w + q = v1 + s
  BY <1>3, <1>4, <1>5, Zenon DEF LastIs
<1>7. Diff(f, other) = v2 + r + 1 - w - q
  BY <1>1, <1>2, <1>4, <1>5, Zenon DEF Diff, NextIs2
<1>8. v2 + r + 1 - w - q = v2 + r + 1 - (v1 + s) /\ v2 + r + 1 - w - q \in Int
  BY <1>6
<1> QED
  BY <1>1, <1>2, <1>3, <1>7, <1>8, Zenon DEF JoinGap

(* join with 0s between spells out such runs. *)
LEMMA SpacedFrame ==
  ASSUME NEW f \in FrameSet, NEW other \in FrameSet, NEW lim,
         NEW R1 \in Seq(Runs), FitBy(f, lim, R1, << 0 >>), << 0 >> \in Terminators,
         NEW R2 \in Seq(Runs), NEW T2 \in Terminators, FitBy(other, lim, R2, T2),
         NEW v1 \in Nat, v1 = f.startvalue, NEW v2 \in Nat, v2 = other.startvalue,
         NEW diff \in Nat, diff = Diff(f, other), diff # 0, diff <= MaxRun
  PROVE  \E S \in Seq(Runs) : Spaced(f, other) = Coded(S) \o T2 /\ SpacedIs(R1, v1, R2, v2, T2, S)
<1>1. LastIs(LastBlock(f), R1, v1)
  BY LastRead
<1>2. NextIs2(Middle(other), NextBlock(other), R2, v2)
  BY NextRead
<1>3. JoinGap(R1, v1, R2, v2, diff)
  BY <1>1, <1>2, GapIs
<1>4. Canon(R1) /\ Canon(R2) /\ f.rledata = Coded(R1) \o <<0>> /\ other.rledata = Coded(R2) \o T2
  BY Zenon DEF FitBy
<1>5. 1 \in 1..Len(R2)
  <2>1. Len(R2) \in Nat \ {0}
    BY <1>4, CanonAbove
  <2> QED
    BY <2>1
<1>6. PICK P, Q \in Seq(Runs) : PartsAt(R2, v2, 1, P, Q)
  BY <1>5, AtRun
<1>7. PICK S : S = Row(R1, <<Run(0, diff)>>, Q)
  OBVIOUS
<1>8. Run(0, diff) \in Runs /\ SpacedIs(R1, v1, R2, v2, T2, S)
  BY <1>3, <1>4, <1>6, <1>7, SpacedRuns
<1>9. PICK g \in Runs : g = Run(0, diff) /\ g.bit = 0 /\ g.run = diff
  BY <1>8 DEF Run
<1>10. Coded(<<g>>) = encode(0, diff) /\ <<g>> \in Seq(Runs)
  BY <1>9, SingleRun, Zenon DEF Single1
<1>11. HalvesOf(other.rledata, P, R2[1], Q, T2, At(R2, 1))
  BY <1>4, <1>5, <1>6, AroundRun
<1>12. At(R2, 1) = 1
  BY Places1
<1>13. SubSeq(other.rledata, 1 + blocklength(R2[1].run), Len(other.rledata)) = Coded(Q) \o T2
  BY <1>11, <1>12, Zenon DEF HalvesOf
<1>14. After(Middle(other), other) = Coded(Q) \o T2
  BY <1>2, <1>13, Zenon DEF After, NextIs2
<1>15. EndOf(f.rledata, R1, <<0>>)
  BY <1>4, AroundEnd
<1>16. Spaced(f, other) = Row(Coded(R1), Coded(<<g>>), Coded(Q) \o T2)
  BY <1>10, <1>14, <1>15, Zenon DEF EndOf, Spaced
<1>17. TailCoded(R1, <<g>>, Q, T2)
  <2>1. T2 \in Seq(Bytes)
    BY TerminatorBytes
  <2> QED
    BY <1>10, <2>1, CodedTail
<1>18. Spaced(f, other) = Coded(S) \o T2
  BY <1>7, <1>9, <1>16, <1>17, Zenon DEF TailCoded
<1>19. S \in Seq(Runs)
  BY <1>8, Zenon DEF SpacedIs
<1> QED
  BY <1>8, <1>18, <1>19, Zenon

(* What follows the leading 0s of a string, if it were one position        *)
(* further on: a run of s 1s from u on, then the rest.                     *)
NextPart(other, R, v, u, s, Q, T) ==
  /\ NextBlock(other).run = s /\ After(NextBlock(other), other) = Coded(Q) \o T
  /\ Ones(R, v + 1) = u..(u + s - 1) \cup Ones(Q, u + s)
  /\ u + s <= v + 1 + Span(R) /\ u = v + R[1].run + 1 /\ v + 2 <= u

(* The part of the next frame that join appends. *)
LEMMA NextPartOf ==
  ASSUME NEW other \in FrameSet, NEW lim,
         NEW R \in Seq(Runs), NEW T \in Terminators, FitBy(other, lim, R, T),
         NEW v \in Nat, v = other.startvalue
  PROVE  \E u \in Nat, s \in Nat, Q \in Seq(Runs), T2 \in Terminators : NextPart(other, R, v, u, s, Q, T2)
<1>1. NextIs2(Middle(other), NextBlock(other), R, v)
  BY NextRead
<1>2. Canon(R) /\ other.rledata = Coded(R) \o T
  BY Zenon DEF FitBy
<1>3. PICK l \in Nat \ {0} : l = Len(R)
  <2>1. Len(R) \in Nat \ {0}
    BY <1>2, CanonAbove
  <2> QED
    BY <2>1
<1>4. 1 \in 1..Len(R) /\ (l = 1 \/ l > 1)
  BY <1>3
<1>5. PICK x \in Runs : x = R[1] /\ x.bit = 0
  BY <1>1, Zenon DEF NextIs2
<1>6. PICK r \in Nat \ {0} : r = x.run
  BY RunsType
<1>7. PICK P, Q \in Seq(Runs) : PartsAt(R, v + 1, 1, P, Q)
  <2>1. v + 1 \in Nat
    OBVIOUS
  <2> QED
    BY <1>4, <2>1, AtRun
<1>8. Val(R, v + 1, 1) = v + 1 /\ v + 1 \in Nat /\ v + 1 + r \in Nat
  <2>1. v + 1 \in Nat /\ v + 1 + r \in Nat
    OBVIOUS
  <2> QED
    BY <2>1, Places1
<1>9. PICK q \in Nat : q = Span(Q)
  BY SpanProperties
<1>10. /\ Ones(R, v + 1) = Ones(P, v + 1) \cup Ones(<<x>>, v + 1) \cup Ones(Q, v + 1 + r)
       /\ v + 1 + Span(R) = v + 1 + r + q
       /\ Len(P) = 1 - 1 /\ Len(Q) = l - 1
  BY <1>3, <1>5, <1>6, <1>7, <1>8, <1>9, Zenon DEF PartsAt
<1>11. Ones(P, v + 1) = {}
  <2>1. P = <<>>
    BY <1>10, EmptySeq
  <2>2. Ones(<<>>, v + 1) = {}
    BY <1>8, OnesProperties
  <2> QED
    BY <2>1, <2>2, Zenon
<1>12. Ones(<<x>>, v + 1) = {}
  <2>1. \A y \in Runs : Ones(<<y>>, v + 1) = IF y.bit = 1 THEN (v + 1)..(v + 1 + y.run - 1) ELSE {}
    BY <1>8, OnesProperties
  <2>2. x.bit # 1
    BY <1>5
  <2> QED
    BY <2>1, <2>2, Zenon
<1>13. PICK u \in Nat : u = v + 1 + r /\ u = v + r + 1 /\ v + 2 <= u
  <2>1. v + 1 + r \in Nat /\ v + 1 + r = v + r + 1 /\ v + 2 <= v + 1 + r
    OBVIOUS
  <2> QED
    BY <2>1, Zenon
<1>14. Ones(R, v + 1) = Ones(Q, u)
  BY <1>10, <1>11, <1>12, <1>13, Zenon
<1>15. PICK z \in Nat : z = Span(R) /\ v + 1 + z = u + q
  <2>1. PICK z \in Nat : z = Span(R)
    BY SpanProperties
  <2>2. v + 1 + z = u + q
    BY <1>10, <1>13, <2>1, Zenon
  <2> QED
    BY <2>1, <2>2
<1>16. CASE l = 1
  <2>1. NextBlock(other).run = 0 /\ blockend(NextBlock(other)) = At(R, 2) + 1
    BY <1>1, <1>3, <1>16, Zenon DEF NextIs2
  <2>2. At(R, 2) + 1 = Len(Coded(R)) + 2
    <3>1. PICK c \in Nat : c = Len(Coded(R))
      BY CodedProperties
    <3>2. At(R, Len(R) + 1) = 1 + c /\ l + 1 = 2
      BY <1>16, <3>1, Places1
    <3>3. At(R, 2) = 1 + c
      BY <1>3, <3>2, Zenon
    <3>4. 1 + c + 1 = c + 2
      OBVIOUS
    <3> QED
      BY <3>1, <3>3, <3>4, Zenon
  <2>3. EndOf(other.rledata, R, T)
    BY <1>2, AroundEnd
  <2>4. <<>> \in Terminators /\ <<>> \in Seq(Runs)
    BY EmptySeq DEF Terminators
  <2>5. Coded(<<>>) \o <<>> = <<>>
    <3>1. Coded(<<>>) = <<>> /\ <<>> \in Seq(Bytes)
      BY CodedProperties, EmptySeq
    <3>2. <<>> \o <<>> = <<>>
      BY <3>1, ConcatEmptySeq
    <3> QED
      BY <3>1, <3>2, Zenon
  <2>6. After(NextBlock(other), other) = Coded(<<>>) \o <<>>
    BY <2>1, <2>2, <2>3, <2>5, Zenon DEF After, EndOf
  <2>7. Ones(R, v + 1) = u..(u + 0 - 1) \cup Ones(<<>>, u + 0)
    <3>1. Q = <<>>
      BY <1>10, <1>16, EmptySeq
    <3>2. Ones(<<>>, u) = {}
      BY OnesProperties
    <3>3. u + 0 = u /\ u..(u + 0 - 1) = {}
      OBVIOUS
    <3> QED
      BY <1>14, <3>1, <3>2, <3>3, Zenon
  <2>8. u + 0 <= v + 1 + Span(R)
    <3>1. u + 0 <= v + 1 + z
      BY <1>15
    <3> QED
      BY <1>15, <3>1, Zenon
  <2>9. NextPart(other, R, v, u, 0, <<>>, <<>>)
    BY <1>5, <1>6, <1>13, <2>1, <2>6, <2>7, <2>8, Zenon DEF NextPart
  <2>10. 0 \in Nat
    OBVIOUS
  <2> QED
    BY <2>4, <2>9, <2>10, Zenon
<1>17. CASE l > 1
  <2>1. PICK y \in Runs : y = R[2] /\ y.bit = 1
    BY <1>1, <1>3, <1>17, Zenon DEF NextIs2
  <2>2. PICK s \in Nat : s = y.run
    BY RunsType
  <2>3. NextBlock(other).run = s /\ blockend(NextBlock(other)) = At(R, 2) + blocklength(s)
    BY <1>1, <1>3, <1>17, <2>1, <2>2, Zenon DEF NextIs2
  <2>4. 2 \in 1..Len(R) /\ 2 - 1 = 1 /\ 1 + 1 = 2
    BY <1>3, <1>17
  <2>5. PICK P2, Q2 \in Seq(Runs) : PartsAt(R, v + 1, 2, P2, Q2)
    BY <1>8, <2>4, AtRun
  <2>6. HalvesOf(other.rledata, P2, R[2], Q2, T, At(R, 2))
    BY <1>2, <2>4, <2>5, AroundRun
  <2>7. After(NextBlock(other), other) = Coded(Q2) \o T
    BY <2>1, <2>2, <2>3, <2>6, Zenon DEF After, HalvesOf
  <2>8. Val(R, v + 1, 2) = u
    <3>a. PICK b \in Nat : b = v + 1
      OBVIOUS
    <3>b. 1 \in 1..Len(R)
      BY <1>3, <1>17
    <3>c. Val(R, b, 1 + 1) = Val(R, b, 1) + R[1].run
      BY <3>b, NextPlace
    <3>1. Val(R, v + 1, 1 + 1) = Val(R, v + 1, 1) + R[1].run
      BY <3>a, <3>c, Zenon
    <3> QED
      BY <1>5, <1>6, <1>8, <1>13, <2>4, <3>1, Zenon
  <2>9. PICK q2 \in Nat : q2 = Span(Q2)
    BY SpanProperties
  <2>10. /\ Ones(R, v + 1) = Ones(P2, v + 1) \cup Ones(<<y>>, u) \cup Ones(Q2, u + s)
         /\ v + 1 + Span(R) = u + s + q2 /\ P2 = SubSeq(R, 1, 1)
    BY <2>1, <2>2, <2>4, <2>5, <2>8, <2>9, Zenon DEF PartsAt
  <2>11. Ones(P2, v + 1) = {}
    <3>1. SubSeq(R, 1, 1) = SubSeq(R, 1, 1 - 1) \o <<R[1]>>
      BY <1>4, Parting
    <3>2. P = SubSeq(R, 1, 1 - 1)
      BY <1>7, Zenon DEF PartsAt
    <3>3. P = <<>>
      BY <1>10, EmptySeq
    <3>4. <<x>> \in Seq(Runs) /\ <<>> \o <<x>> = <<x>>
      BY SingleRun, ConcatEmptySeq DEF Single1
    <3> QED
      BY <1>5, <1>12, <2>10, <3>1, <3>2, <3>3, <3>4, Zenon
  <2>12. Ones(<<y>>, u) = u..(u + s - 1)
    <3>1. \A i \in Runs : Ones(<<i>>, u) = IF i.bit = 1 THEN u..(u + i.run - 1) ELSE {}
      BY OnesProperties
    <3> QED
      BY <2>1, <2>2, <3>1, Zenon
  <2>13. Ones(R, v + 1) = u..(u + s - 1) \cup Ones(Q2, u + s)
    BY <2>10, <2>11, <2>12, Zenon
  <2>14. u + s <= v + 1 + Span(R)
    <3>1. u + s <= u + s + q2
      OBVIOUS
    <3> QED
      BY <2>10, <3>1, Zenon
  <2>15. NextPart(other, R, v, u, s, Q2, T)
    BY <1>5, <1>6, <1>13, <2>3, <2>7, <2>13, <2>14, Zenon DEF NextPart
  <2> QED
    BY <2>15
<1> QED
  BY <1>4, <1>16, <1>17

(* Two intervals that meet are one. *)
LEMMA IntervalsMeet ==
  ASSUME NEW w \in Nat, NEW r \in Nat, NEW u, u = w + r, NEW s \in Nat
  PROVE  w..(w + (r + s) - 1) = w..(w + r - 1) \cup u..(u + s - 1)
OBVIOUS

(* Frames joined without a gap: a run of 1s made of two.                   *)
GluesTo(f, other, R1, v1, R2, v2, S, T) ==
  Glued(f, other) = Coded(S) \o T /\ Ones(S, v1) = Ones(R1, v1) \cup Ones(R2, v2 + 1)

(* join without 0s between makes one run of the 1s that meet. *)
LEMMA GluedFrame ==
  ASSUME NEW f \in FrameSet, NEW other \in FrameSet, NEW lim \in Nat, lim + 1 <= MaxRun,
         NEW R1 \in Seq(Runs), NEW T1 \in Terminators, FitBy(f, lim, R1, T1),
         NEW R2 \in Seq(Runs), NEW T2 \in Terminators, FitBy(other, lim, R2, T2),
         NEW v1 \in Nat, v1 = f.startvalue, NEW v2 \in Nat, v2 = other.startvalue,
         Diff(f, other) = 0, LastBlock(f).bit = 1
  PROVE  \E S \in Seq(Runs), T \in Terminators : GluesTo(f, other, R1, v1, R2, v2, S, T)
<1>1. LastIs(LastBlock(f), R1, v1)
  BY LastRead
<1>2. PICK u \in Nat, s \in Nat, Q \in Seq(Runs), T \in Terminators : NextPart(other, R2, v2, u, s, Q, T)
  BY NextPartOf
<1>3. f.rledata = Coded(R1) \o T1 /\ Canon(R1) /\ v2 + Span(R2) <= lim
  BY Zenon DEF FitBy
<1>4. PICK n \in 1..Len(R1) : n = Len(R1)
  BY <1>1, Zenon DEF LastIs
<1>5. PICK P, Q1 \in Seq(Runs) : PartsAt(R1, v1, n, P, Q1)
  BY AtRun
<1>6. PICK x \in Runs : x = R1[n] /\ x.bit = 1
  <2>1. PICK x \in Runs : x = R1[n]
    BY ElementOfSeq
  <2>2. x.bit = 1
    BY <1>1, <1>4, <2>1, Zenon DEF LastIs
  <2> QED
    BY <2>1, <2>2
<1>7. PICK r \in Nat : r = x.run
  BY RunsType
<1>8. PICK w \in Nat : w = v1 + Span(P)
  <2>1. Span(P) \in Nat
    BY SpanProperties
  <2> QED
    BY <2>1
<1>9. /\ Val(R1, v1, n) = w
      /\ Ones(R1, v1) = Ones(P, v1) \cup Ones(<<x>>, w) \cup Ones(Q1, w + r)
      /\ Len(Q1) = Len(R1) - n
  BY <1>5, <1>6, <1>7, <1>8, Zenon DEF PartsAt
<1>10. Ones(Q1, w + r) = {}
  <2>1. PICK k \in Nat : k = Len(R1)
    BY LenProperties
  <2>2. k - k = 0 /\ w + r \in Nat
    OBVIOUS
  <2>3. Len(Q1) = 0
    BY <1>4, <1>9, <2>1, <2>2, Zenon
  <2>4. Q1 = <<>>
    BY <2>3, EmptySeq
  <2>5. Ones(<<>>, w + r) = {}
    BY <2>2, OnesProperties
  <2> QED
    BY <2>4, <2>5, Zenon
<1>11. Ones(<<x>>, w) = w..(w + r - 1)
  <2>1. \A i \in Runs : Ones(<<i>>, w) = IF i.bit = 1 THEN w..(w + i.run - 1) ELSE {}
    BY OnesProperties
  <2> QED
    BY <1>6, <1>7, <2>1, Zenon
<1>12. u = w + r
  <2>1. NextIs2(Middle(other), NextBlock(other), R2, v2)
    BY NextRead
  <2>2. JoinGap(R1, v1, R2, v2, 0)
    BY <1>1, <2>1, GapIs
  <2>3. w + r = v1 + Span(R1)
    BY <1>1, <1>4, <1>6, <1>7, <1>9, Zenon DEF LastIs
  <2>4. PICK z \in Nat : z = R2[1].run
    <3>1. PICK i \in Runs : i = R2[1]
      BY <2>1, Zenon DEF NextIs2
    <3>2. i.run \in Nat
      BY RunsType
    <3> QED
      BY <3>1, <3>2
  <2>5. u = v2 + z + 1
    BY <1>2, <2>4, Zenon DEF NextPart
  <2>6. PICK e : e = v1 + Span(R1)
    OBVIOUS
  <2>7. 0 = v2 + z + 1 - e
    BY <2>2, <2>4, <2>6, Zenon DEF JoinGap
  <2>8. e = w + r
    BY <2>3, <2>6, Zenon
  <2>9. PICK i \in Nat : i = w + r
    OBVIOUS
  <2>10. 0 = v2 + z + 1 - i
    BY <2>7, <2>8, <2>9, Zenon
  <2>11. v2 + z + 1 = i
    BY <2>10, SMTT(30)
  <2> QED
    BY <2>5, <2>9, <2>11, Zenon
<1>13. PICK y \in Runs : y = Run(1, r + s) /\ y.bit = 1 /\ y.run = r + s
  <2>1. PICK most \in Nat : most = MaxRun
    BY MaxRunType
  <2>2. PICK z \in Nat : z = Span(R2)
    BY SpanProperties
  <2>3. u + s <= v2 + 1 + z
    BY <1>2, <2>2, Zenon DEF NextPart
  <2>4. v2 + z <= lim
    BY <1>3, <2>2, Zenon
  <2>5. lim + 1 <= most
    BY <2>1
  <2>6. r # 0
    BY <1>6, <1>7, RunsType
  <2>7. 1 \in 0..1 /\ r + s \in Nat /\ r + s # 0 /\ r + s <= most
    BY <1>12, <2>3, <2>4, <2>5, <2>6, SMTT(30)
  <2> QED
    BY <2>1, <2>7, RunIn
<1>14. PICK Y \in Seq(Runs) : Y = <<y>>
  BY SingleRun DEF Single1
<1>15. Span(Y) = r + s /\ Coded(Y) = encode(1, r + s) /\ Ones(Y, w) = w..(w + (r + s) - 1)
  <2>1. Span(Y) = r + s /\ Coded(Y) = encode(1, r + s)
    BY <1>13, <1>14, SingleRun, Zenon DEF Single1
  <2>2. \A i \in Runs : Ones(<<i>>, w) = IF i.bit = 1 THEN w..(w + i.run - 1) ELSE {}
    BY OnesProperties
  <2>3. Ones(Y, w) = w..(w + (r + s) - 1)
    BY <1>13, <1>14, <2>2, Zenon
  <2> QED
    BY <2>1, <2>3
<1>16. PICK S \in Seq(Runs) : S = Row(P, Y, Q)
  BY OnesRow
<1>17. Ones(S, v1) = Ones(P, v1) \cup Ones(Y, w) \cup Ones(Q, u + s)
  <2>1. Ones(Row(P, Y, Q), v1) = Ones(P, v1) \cup Ones(Y, v1 + Span(P)) \cup Ones(Q, v1 + Span(P) + Span(Y))
    BY OnesRow
  <2>2. w + (r + s) = u + s
    BY <1>12
  <2> QED
    BY <1>8, <1>15, <1>16, <2>1, <2>2, Zenon
<1>18. Ones(S, v1) = Ones(R1, v1) \cup Ones(R2, v2 + 1)
  <2>1. w..(w + (r + s) - 1) = w..(w + r - 1) \cup u..(u + s - 1)
    BY <1>12, IntervalsMeet, SMTT(30)
  <2>2. Ones(R2, v2 + 1) = u..(u + s - 1) \cup Ones(Q, u + s)
    BY <1>2, Zenon DEF NextPart
  <2> QED
    BY <1>9, <1>10, <1>11, <1>15, <1>17, <2>1, <2>2, Zenon
<1>19. HalvesOf(f.rledata, P, R1[n], Q1, T1, At(R1, n))
  BY <1>3, <1>5, AroundRun
<1>20. Glued(f, other) = Row(Coded(P), Coded(Y), Coded(Q) \o T)
  <2>1. LastBlock(f).at = At(R1, n) /\ LastBlock(f).run = r
    BY <1>1, <1>4, <1>6, <1>7, Zenon DEF LastIs
  <2>2. SubSeq(f.rledata, 1, LastBlock(f).at - 1) = Coded(P)
    BY <1>19, <2>1, Zenon DEF HalvesOf
  <2>3. NextBlock(other).run = s /\ After(NextBlock(other), other) = Coded(Q) \o T
    BY <1>2, Zenon DEF NextPart
  <2> QED
    BY <1>15, <2>1, <2>2, <2>3, Zenon DEF Glued
<1>21. TailCoded(P, Y, Q, T)
  <2>1. T \in Seq(Bytes)
    BY TerminatorBytes
  <2> QED
    BY <2>1, CodedTail
<1>22. Glued(f, other) = Coded(S) \o T
  BY <1>16, <1>20, <1>21, Zenon DEF TailCoded
<1> QED
  BY <1>18, <1>22, Zenon DEF GluesTo

(* What join makes of two frames that meet.                                *)
Torn(f, other) ==
  \/ LastBlock(f).bit = 0 /\ Diff(f, other) = 0
  \/ Unended(f) /\ Diff(f, other) # 0
Moved(S) == {b + 1 : b \in S}
JoinWell(f, other) ==
  /\ Joined(f, other) \in FrameSet
  /\ (Joined(f, other)).startvalue = f.startvalue /\ (Joined(f, other)).maxvalue = other.maxvalue
JoinKeeps(f, other) ==
  ~Torn(f, other) => BitsIn(Joined(f, other)) = BitsIn(f) \cup Moved(BitsIn(other))
JoinSound(f, other, lim) ==
  ~Torn(f, other) /\ LastBlock(f).bit # 0 /\ BitsIn(other) = {} /\ Inside(f) =>
    Fit(Joined(f, other), lim + 1) /\ Inside(Joined(f, other))

(* A frame joined to the next keeps its bits, moves those of the next up   *)
(* by one, and stays canonical, or is garbled.                             *)
LEMMA JoinFrame ==
  ASSUME NEW f \in FrameSet, NEW other \in FrameSet, NEW lim \in Nat, lim + 1 <= MaxRun,
         Fit(f, lim), Fit(other, lim), Meets(f, other),
         other.maxvalue # 0 => other.startvalue < other.maxvalue,
         ~(Diff(f, other) < 0)
  PROVE  JoinWell(f, other) /\ JoinKeeps(f, other) /\ JoinSound(f, other, lim)
<1>1. PICK R1 \in Seq(Runs), T1 \in Terminators : FitBy(f, lim, R1, T1)
  BY Zenon DEF Fit
<1>2. PICK R2 \in Seq(Runs), T2 \in Terminators : FitBy(other, lim, R2, T2)
  BY Zenon DEF Fit
<1>3. PICK v1 \in Nat : v1 = f.startvalue
  BY FrameFields
<1>4. PICK v2 \in Nat : v2 = other.startvalue
  BY FrameFields
<1>5. PICK m2 \in Nat : m2 = other.maxvalue
  BY FrameFields
<1>6. LastIs(LastBlock(f), R1, v1) /\ (Unended(f) <=> T1 = <<>>)
  BY <1>1, <1>3, LastRead
<1>7. NextIs2(Middle(other), NextBlock(other), R2, v2)
  BY <1>2, <1>4, NextRead
<1>8. JoinGap(R1, v1, R2, v2, Diff(f, other)) /\ Diff(f, other) \in Int
  BY <1>6, <1>7, GapIs
<1>9. PICK diff \in Nat : diff = Diff(f, other)
  BY <1>8
<1>10. /\ Canon(R1) /\ Canon(R2) /\ v2 + Span(R2) <= lim
       /\ BitsIn(f) = Ones(R1, v1) /\ BitsIn(other) = Ones(R2, v2)
       /\ \A b \in BitsIn(f) : b \in Nat /\ v1 < b
  <2>1. BitsIn(f) = Ones(R1, v1) /\ \A b \in BitsIn(f) : b \in Nat /\ v1 < b
    BY <1>1, <1>3, FitFacts
  <2>2. BitsIn(other) = Ones(R2, v2)
    BY <1>2, <1>4, FitFacts
  <2> QED
    BY <1>1, <1>2, <1>4, <2>1, <2>2, Zenon DEF FitBy
<1>11. Glued(f, other) \in Seq(Bytes) /\ Spaced(f, other) \in Seq(Bytes)
  BY <1>1, <1>2, <1>9, JoinedBytes
<1>12. PICK d \in Seq(Bytes) : d = IF Diff(f, other) = 0 THEN Glued(f, other) ELSE Spaced(f, other)
  BY <1>11
<1>13. PICK g : g = Joined(f, other)
  OBVIOUS
<1>14. g \in FrameSet /\ g.rledata = d /\ g.startvalue = v1 /\ g.maxvalue = m2
  BY <1>3, <1>5, <1>12, <1>13, JoinedIs
<1>15. JoinWell(f, other)
  BY <1>3, <1>5, <1>13, <1>14, Zenon DEF JoinWell
<1>16. Ones(R2, v2 + 1) = Moved(BitsIn(other))
  BY <1>10, OnesShift DEF Moved
<1>17. \A S \in Seq(Runs), T \in Terminators : d = Coded(S) \o T => BitsIn(g) = Ones(S, v1)
  <2> SUFFICES ASSUME NEW S \in Seq(Runs), NEW T \in Terminators, d = Coded(S) \o T
               PROVE  BitsIn(g) = Ones(S, v1)
    OBVIOUS
  <2>1. BitsOf(Coded(S) \o T, v1) = Ones(S, v1)
    BY BitsRead
  <2> QED
    BY <1>14, <2>1, Zenon DEF BitsIn
<1>18. LastBlock(f).bit \in 0..1
  BY <1>6, Zenon DEF LastIs
<1>19. diff <= MaxRun
  <2>1. PICK most \in Nat : most = MaxRun
    BY MaxRunType
  <2>2. PICK z \in Nat : z = Span(R2)
    BY SpanProperties
  <2>3. PICK e \in Nat : e = v1 + Span(R1)
    <3>1. Span(R1) \in Nat
      BY SpanProperties
    <3> QED
      BY <3>1
  <2>4. PICK x \in Runs : x = R2[1]
    BY <1>7, Zenon DEF NextIs2
  <2>5. PICK r \in Nat : r = x.run
    BY RunsType
  <2>6. diff = v2 + r + 1 - e
    BY <1>8, <1>9, <2>3, <2>4, <2>5, Zenon DEF JoinGap
  <2>7. r <= z
    <3>1. 1 \in 1..Len(R2)
      <4>1. Len(R2) \in Nat \ {0}
        BY <1>10, CanonAbove
      <4> QED
        BY <4>1
    <3>2. PICK P, Q \in Seq(Runs) : PartsAt(R2, v2, 1, P, Q)
      BY <3>1, AtRun
    <3>3. Val(R2, v2, 1) = v2
      BY Places1
    <3>4. PICK q \in Nat : q = Span(Q)
      BY SpanProperties
    <3>5. v2 + z = v2 + r + q
      BY <2>2, <2>4, <2>5, <3>2, <3>3, <3>4, Zenon DEF PartsAt
    <3> QED
      BY <3>5
  <2>8. lim + 1 <= most /\ v2 + z <= lim
    BY <1>10, <2>1, <2>2, Zenon
  <2>9. diff <= most
    BY <2>6, <2>7, <2>8
  <2> QED
    BY <2>1, <2>9
<1>20. ASSUME ~Torn(f, other), diff # 0
       PROVE  \E S \in Seq(Runs) : d = Coded(S) \o T2 /\ SpacedIs(R1, v1, R2, v2, T2, S)
  <2>1. T1 = <<0>>
    <3>1. T1 # <<>>
      BY <1>6, <1>9, <1>20, Zenon DEF Torn
    <3> QED
      BY <3>1 DEF Terminators
  <2>2. FitBy(f, lim, R1, <<0>>) /\ <<0>> \in Terminators
    BY <1>1, <2>1, Zenon
  <2>3. \E S \in Seq(Runs) : Spaced(f, other) = Coded(S) \o T2 /\ SpacedIs(R1, v1, R2, v2, T2, S)
    BY <1>2, <1>3, <1>4, <1>9, <1>19, <1>20, <2>2, SpacedFrame
  <2>4. d = Spaced(f, other)
    BY <1>9, <1>12, <1>20, Zenon
  <2> QED
    BY <2>3, <2>4, Zenon
<1>21. ASSUME ~Torn(f, other)
       PROVE  BitsIn(g) = BitsIn(f) \cup Moved(BitsIn(other))
  <2>1. CASE diff = 0
    <3>1. LastBlock(f).bit = 1
      <4>1. LastBlock(f).bit # 0
        BY <1>9, <1>21, <2>1, Zenon DEF Torn
      <4> QED
        BY <1>18, <4>1
    <3>2. PICK S \in Seq(Runs), T \in Terminators : GluesTo(f, other, R1, v1, R2, v2, S, T)
      <4>1. Diff(f, other) = 0
        BY <1>9, <2>1
      <4> QED
        BY <1>1, <1>2, <1>3, <1>4, <3>1, <4>1, GluedFrame
    <3>3. d = Coded(S) \o T /\ Ones(S, v1) = Ones(R1, v1) \cup Ones(R2, v2 + 1)
      BY <1>9, <1>12, <2>1, <3>2, Zenon DEF GluesTo
    <3> QED
      BY <1>10, <1>16, <1>17, <3>3, Zenon
  <2>2. CASE diff # 0
    <3>1. PICK S \in Seq(Runs) : d = Coded(S) \o T2 /\ SpacedIs(R1, v1, R2, v2, T2, S)
      BY <1>20, <1>21, <2>2
    <3> QED
      BY <1>10, <1>16, <1>17, <3>1, Zenon DEF SpacedIs
  <2> QED
    BY <2>1, <2>2
<1>22. JoinKeeps(f, other)
  BY <1>13, <1>21, Zenon DEF JoinKeeps
<1>23. ASSUME ~Torn(f, other), LastBlock(f).bit # 0, BitsIn(other) = {}, Inside(f)
       PROVE  Fit(g, lim + 1) /\ Inside(g)
  <2>1. f.maxvalue = v2 /\ v2 # 0
    BY <1>3, <1>4 DEF Meets
  <2>2. \A b \in BitsIn(f) : b <= v2
    BY <1>23, <2>1, Zenon DEF Inside
  <2>3. BitsIn(g) = BitsIn(f)
    <3>1. Moved({}) = {}
      BY DEF Moved
    <3> QED
      BY <1>21, <1>23, <3>1, Zenon
  <2>4. m2 # 0 => \A b \in BitsIn(g) : b <= m2
    <3>1. m2 # 0 => v2 < m2
      BY <1>4, <1>5, Zenon
    <3>2. \A b \in BitsIn(g) : b \in Nat /\ b <= v2
      BY <1>10, <2>2, <2>3, Zenon
    <3> QED
      BY <3>1, <3>2
  <2>5. Inside(g)
    BY <1>14, <2>4, Zenon DEF Inside
  <2>6. diff # 0
    <3> SUFFICES ASSUME diff = 0 PROVE FALSE
      OBVIOUS
    <3>1. PICK n \in 1..Len(R1) : n = Len(R1)
      BY <1>6, Zenon DEF LastIs
    <3>2. PICK P, Q \in Seq(Runs) : PartsAt(R1, v1, n, P, Q)
      BY AtRun
    <3>3. PICK x \in Runs : x = R1[n]
      BY ElementOfSeq
    <3>4. PICK r \in Nat \ {0} : r = x.run
      BY RunsType
    <3>5. PICK w \in Nat : w = Val(R1, v1, n)
      <4>1. n \in 1..(Len(R1) + 1)
        BY LenProperties
      <4>2. Val(R1, v1, n) \in Nat
        BY <4>1, Places1
      <4> QED
        BY <4>2
    <3>6. PICK e \in Nat : e = v1 + Span(R1)
      <4>1. Span(R1) \in Nat
        BY SpanProperties
      <4> QED
        BY <4>1
    <3>7. w + r = e /\ x.bit = 1
      <4>1. w + r = e /\ x.bit = LastBlock(f).bit
        BY <1>6, <3>1, <3>3, <3>4, <3>5, <3>6, Zenon DEF LastIs
      <4>2. LastBlock(f).bit = 1
        BY <1>18, <1>23
      <4> QED
        BY <4>1, <4>2
    <3>8. w..(w + r - 1) \subseteq Ones(R1, v1)
      <4>1. \A i \in Runs : Ones(<<i>>, w) = IF i.bit = 1 THEN w..(w + i.run - 1) ELSE {}
        BY OnesProperties
      <4>2. Ones(<<x>>, w) = w..(w + r - 1)
        BY <3>3, <3>4, <3>7, <4>1, Zenon
      <4>3. Ones(R1, v1) = Ones(P, v1) \cup Ones(<<x>>, w) \cup Ones(Q, w + r)
        BY <3>2, <3>3, <3>4, <3>5, Zenon DEF PartsAt
      <4> QED
        BY <4>2, <4>3, Zenon
    <3>9. w + r - 1 \in w..(w + r - 1)
      OBVIOUS
    <3>10. w + r - 1 <= v2
      BY <1>10, <2>2, <3>8, <3>9, Zenon
    <3>11. PICK y \in Runs : y = R2[1]
      BY <1>7, Zenon DEF NextIs2
    <3>12. PICK r2 \in Nat \ {0} : r2 = y.run
      BY RunsType
    <3>13. diff = v2 + r2 + 1 - e
      BY <1>8, <1>9, <3>6, <3>11, <3>12, Zenon DEF JoinGap
    <3> QED
      BY <3>7, <3>10, <3>13
  <2>7. PICK S \in Seq(Runs) : d = Coded(S) \o T2 /\ SpacedIs(R1, v1, R2, v2, T2, S)
    BY <1>20, <1>23, <2>6
  <2>8. Canon(S)
    <3>1. R1[Len(R1)].bit = 1
      <4>1. R1[Len(R1)].bit = LastBlock(f).bit
        BY <1>6, Zenon DEF LastIs
      <4> QED
        BY <1>18, <1>23, <4>1
    <3> QED
      BY <2>7, <3>1, Zenon DEF SpacedIs
  <2>9. BitsIn(g) = Ones(S, v1)
    BY <1>17, <2>7
  <2>10. v1 + Span(S) <= lim + 1
    <3>1. PICK z \in Nat : z = Span(R2)
      BY SpanProperties
    <3>2. v1 + Span(S) = v2 + z + 1
      BY <2>7, <3>1, Zenon DEF SpacedIs
    <3>3. v2 + z <= lim
      BY <1>10, <3>1, Zenon
    <3>4. v2 + z + 1 <= lim + 1
      BY <3>3
    <3> QED
      BY <3>2, <3>4, Zenon
  <2>11. m2 # 0 => ZerosBelow(S, v1, m2)
    <3>1. Alternates(S)
      BY <2>8, Zenon DEF Canon
    <3> QED
      BY <2>4, <2>9, <3>1, ZerosFollowed
  <2>12. FitBy(g, lim + 1, S, T2)
    BY <1>14, <2>7, <2>8, <2>10, <2>11, Zenon DEF FitBy
  <2>13. Fit(g, lim + 1)
    BY <2>12, Zenon DEF Fit
  <2> QED
    BY <2>5, <2>13
<1>24. JoinSound(f, other, lim)
  BY <1>13, <1>23, Zenon DEF JoinSound
<1> QED
  BY <1>15, <1>22, <1>24

-----------------------------------------------------------------------------
(* A call of the second version.                                           *)

(* All frames as a sound array has them.                                   *)
AllFit(fs, lim) == \A f \in Members(fs) : Fit(f, lim) /\ Inside(f)
InRange(f, b) == f.startvalue < b /\ (f.maxvalue # 0 => b <= f.maxvalue)

(* A frame within a limit is within a further one. *)
LEMMA FitMore ==
  ASSUME NEW f \in FrameSet, NEW lim \in Nat, Fit(f, lim)
  PROVE  Fit(f, lim + 1)
<1>1. PICK R \in Seq(Runs), T \in Terminators : FitBy(f, lim, R, T)
  BY Zenon DEF Fit
<1>2. PICK v \in Nat : v = f.startvalue
  BY FrameFields
<1>3. PICK s \in Nat : s = Span(R)
  BY SpanProperties
<1>4. v + s <= lim
  BY <1>1, <1>2, <1>3, Zenon DEF FitBy
<1>5. v + s <= lim + 1
  BY <1>4
<1>6. FitBy(f, lim + 1, R, T)
  BY <1>1, <1>2, <1>3, <1>5, Zenon DEF FitBy
<1> QED
  BY <1>6, Zenon DEF Fit

(* The bits of a frame are finitely many and of its range. *)
LEMMA FitBits ==
  ASSUME NEW f \in FrameSet, NEW lim, Fit(f, lim), Inside(f)
  PROVE  /\ BitsIn(f) \in SUBSET Nat /\ IsFiniteSet(BitsIn(f))
         /\ \A b \in BitsIn(f) : b \in Nat /\ InRange(f, b)
<1>1. PICK R \in Seq(Runs), T \in Terminators : FitBy(f, lim, R, T)
  BY Zenon DEF Fit
<1>2. /\ BitsIn(f) \in SUBSET Nat /\ IsFiniteSet(BitsIn(f))
      /\ \A b \in BitsIn(f) : b \in Nat /\ f.startvalue < b
  BY <1>1, FitFacts
<1> QED
  BY <1>2, Zenon DEF InRange, Inside

(* A position of the range of one frame is in no other.                    *)
LEMMA OwnRange ==
  ASSUME NEW fs, Chain(fs), NEW i \in 1..Len(fs), NEW j \in 1..Len(fs), i # j,
         NEW b \in Nat, InRange(fs[i], b)
  PROVE  ~InRange(fs[j], b)
<1>1. PICK n \in Nat : n = Len(fs)
  BY ChainTypes
<1>2. \A k \in 1..n : fs[k].startvalue \in Nat /\ fs[k].maxvalue \in Nat /\ (fs[k].maxvalue = 0 <=> k = n)
  BY <1>1, ChainTypes
<1>3. ASSUME NEW p \in 1..n, NEW q \in 1..n, p < q, InRange(fs[p], b), InRange(fs[q], b)
      PROVE  FALSE
  <2>1. q \in (p + 1)..Len(fs)
    BY <1>1, <1>3
  <2>2. Ordered(fs, p, q)
    BY <1>1, <2>1, ChainOrder
  <2>3. p # n
    BY <1>3
  <2>4. b <= fs[p].maxvalue
    BY <1>2, <1>3, <2>3, Zenon DEF InRange
  <2>5. fs[q].startvalue < b /\ fs[p].maxvalue <= fs[q].startvalue
    BY <1>3, <2>2, Zenon DEF InRange, Ordered
  <2>6. fs[q].startvalue \in Nat /\ fs[p].maxvalue \in Nat
    BY <1>2
  <2> QED
    BY <2>4, <2>5, <2>6
<1>4. i < j \/ j < i
  OBVIOUS
<1>5. i \in 1..n /\ j \in 1..n
  BY <1>1
<1> QED
  BY <1>3, <1>4, <1>5

(* The bits of other frames are not of the range of this one.              *)
Apart(fs, k) ==
  /\ \A b \in Nat : InRange(fs[k], b) => b \notin AllBits(Rest(fs, k))
  /\ k < Len(fs) => /\ \A b \in BitsIn(fs[k + 1]) : b \notin BitsIn(fs[k]) /\ b \notin AllBits(Rest2(fs, k))

(* No other frame has a bit of the range of this one. *)
LEMMA FramesApart ==
  ASSUME NEW fs, Chain(fs), NEW k \in 1..Len(fs), NEW lim, AllFit(fs, lim)
  PROVE  Apart(fs, k)
<1>1. PICK n \in Nat : n = Len(fs)
  BY ChainTypes
<1>2. \A j \in 1..n : fs[j] \in FrameSet /\ \A b \in BitsIn(fs[j]) : b \in Nat /\ InRange(fs[j], b)
  <2> TAKE j \in 1..n
  <2>1. fs[j] \in FrameSet
    BY <1>1, ChainTypes
  <2>2. Fit(fs[j], lim) /\ Inside(fs[j])
    BY <1>1, Zenon DEF AllFit, Members
  <2> QED
    BY <2>1, <2>2, FitBits
<1>3. ASSUME NEW b \in Nat, InRange(fs[k], b), b \in AllBits(Rest(fs, k))
      PROVE  FALSE
  <2>1. PICK j \in (1..Len(fs)) \ {k} : b \in BitsIn(fs[j])
    BY <1>3, Zenon DEF AllBits, Rest
  <2>2. InRange(fs[j], b)
    BY <1>1, <1>2, <2>1
  <2>3. j \in 1..Len(fs) /\ k # j
    BY <2>1
  <2> QED
    BY <1>3, <2>2, <2>3, OwnRange
<1>4. ASSUME k < Len(fs), NEW b \in BitsIn(fs[k + 1])
      PROVE  b \notin BitsIn(fs[k]) /\ b \notin AllBits(Rest2(fs, k))
  <2>1. k + 1 \in 1..n /\ k + 1 # k /\ k \in 1..n
    BY <1>1, <1>4
  <2>2. b \in Nat /\ InRange(fs[k + 1], b)
    BY <1>2, <1>4, <2>1
  <2>3. \A j \in 1..n : j # k + 1 => ~InRange(fs[j], b)
    BY <1>1, <2>1, <2>2, OwnRange
  <2>4. b \notin BitsIn(fs[k])
    BY <1>2, <2>1, <2>3
  <2>5. b \notin AllBits(Rest2(fs, k))
    <3> SUFFICES ASSUME b \in AllBits(Rest2(fs, k)) PROVE FALSE
      OBVIOUS
    <3>1. PICK j \in (1..Len(fs)) \ {k, k + 1} : b \in BitsIn(fs[j])
      BY Zenon DEF AllBits, Rest2
    <3>2. j \in 1..n /\ j # k + 1
      BY <1>1, <3>1
    <3> QED
      BY <1>2, <2>3, <3>1, <3>2
  <2> QED
    BY <2>4, <2>5
<1> QED
  BY <1>3, <1>4, Zenon DEF Apart

(* What a call makes of the frame of its position, whether or not it       *)
(* changes a bit.                                                          *)
Finds2(f, index) == BlocksIn(f)[FoundIn(BlocksIn(f), index)].bit
Taken(f, index, newval) == IF Finds2(f, index) = newval THEN f ELSE SetIn(f, index, newval)
Becoming(f, index, newval) ==
  IF Finds2(f, index) = newval THEN "sound" ELSE HealthOfSet(f, SetIn(f, index, newval), index)
Beyond(f, index, newval) == Over(newval, BlocksIn(f), index)
SetFrame(f, lim, index, newval, g, was, i) ==
  /\ g \in FrameSet /\ g.startvalue = f.startvalue /\ g.maxvalue = f.maxvalue
  /\ was \in {"sound", "astray", "garbled"} /\ i \in Nat /\ (newval = 0 => i = index)
  /\ was = "sound" => Inside(g)
  /\ was # "garbled" => Fit(g, lim) /\ BitsIn(g) = Changed(BitsIn(f), i, newval)
  /\ Finds2(f, index) = newval => BitsIn(g) = BitsIn(f)
  /\ Finds2(f, index) # newval => (newval = 1 => i \notin BitsIn(f)) /\ (newval = 0 => i \in BitsIn(f))

(* What a call makes of the frame of its position. *)
LEMMA SetOnFrame ==
  ASSUME NEW f \in FrameSet, NEW lim \in Nat, Fit(f, lim), Inside(f), NEW index \in Indices,
         InRange(f, index), NEW newval \in 0..1, Reach <= lim, lim <= MaxRun
  PROVE  SetFrame(f, lim, index, newval, Taken(f, index, newval), Becoming(f, index, newval),
                  index + Beyond(f, index, newval))
<1>1. PICK g : g = Taken(f, index, newval)
  OBVIOUS
<1>2. PICK was : was = Becoming(f, index, newval)
  OBVIOUS
<1>3. PICK over : over = Beyond(f, index, newval)
  OBVIOUS
<1>4. index \in Nat
  BY ReachType
<1>5. index + 0 = index
  BY <1>4
<1>6. CASE Finds2(f, index) = newval
  <2>1. PICK R \in Seq(Runs), T \in Terminators : FitBy(f, lim, R, T)
    BY Zenon DEF Fit
  <2>2. PICK v \in Nat : v = f.startvalue
    BY FrameFields
  <2>3. PICK B : B = BlocksFor(R, v)
    OBVIOUS
  <2>4. BlocksIn(f) = B /\ BitsIn(f) = Ones(R, v)
    BY <2>1, <2>2, <2>3, FitFacts
  <2>5. B[FoundIn(B, index)].bit = newval
    BY <1>6, <2>4, Zenon DEF Finds2
  <2>6. v <= index
    <3>1. v < index
      BY <2>2, Zenon DEF InRange
    <3> QED
      BY <1>4, <3>1
  <2>7. Over(newval, B, index) = 0 /\ Changed(Ones(R, v), index + Over(newval, B, index), newval) = Ones(R, v)
    BY <1>4, <2>3, <2>5, <2>6, FoundAlready
  <2>8. over = 0 /\ Changed(BitsIn(f), index + over, newval) = BitsIn(f)
    BY <1>3, <2>4, <2>7, Zenon DEF Beyond
  <2>9. g = f /\ was = "sound"
    BY <1>1, <1>2, <1>6, Zenon DEF Taken, Becoming
  <2>10. f.startvalue = f.startvalue /\ "sound" \in {"sound", "astray", "garbled"}
    OBVIOUS
  <2>11. SetFrame(f, lim, index, newval, g, was, index + over)
    BY <1>4, <1>5, <1>6, <2>8, <2>9, <2>10, Zenon DEF SetFrame
  <2> QED
    BY <1>1, <1>2, <1>3, <2>11, Zenon
<1>7. CASE Finds2(f, index) # newval
  <2>1. Rewritten2(f, index, newval) /\ FitAgain(f, lim, index, newval)
    <3>1. f.startvalue < index /\ (f.maxvalue # 0 => index <= f.maxvalue)
      BY Zenon DEF InRange
    <3>2. BlocksIn(f)[FoundIn(BlocksIn(f), index)].bit # newval
      BY <1>7, Zenon DEF Finds2
    <3> QED
      BY <3>1, <3>2, SetInFrame
  <2>2. g = SetIn(f, index, newval) /\ was = HealthOfSet(f, g, index)
    BY <1>1, <1>2, <1>7, Zenon DEF Taken, Becoming
  <2>3. /\ g \in FrameSet /\ g.startvalue = f.startvalue /\ g.maxvalue = f.maxvalue
        /\ was \in {"sound", "astray", "garbled"} /\ over \in Nat
        /\ newval = 1 => index + over \notin BitsIn(f)
        /\ newval = 0 => index \in BitsIn(f) /\ over = 0
        /\ was = "sound" => Inside(g)
    BY <1>3, <2>1, <2>2, Zenon DEF Rewritten2, Beyond
  <2>4. was # "garbled" => Fit(g, lim) /\ BitsIn(g) = Changed(BitsIn(f), index + over, newval)
    BY <1>3, <2>1, <2>2, Zenon DEF FitAgain, Beyond
  <2>5. index + over \in Nat
    BY <1>4, <2>3
  <2>6. SetFrame(f, lim, index, newval, g, was, index + over)
    BY <1>5, <1>7, <2>3, <2>4, <2>5, Zenon DEF SetFrame
  <2> QED
    BY <1>1, <1>2, <1>3, <2>6, Zenon
<1> QED
  BY <1>6, <1>7

(* The array with that frame in its place, before it is resized; n is the  *)
(* count, and S the bits that are to be there.                             *)
MidFrames(fs, k, lim, g, was, fs2) ==
  /\ Exchanged(fs, k, g, fs2) /\ was \in {"sound", "astray", "garbled"}
  /\ was # "garbled" => (\A f \in Members(fs2) : Fit(f, lim)) /\ (\A f \in Rest(fs, k) : Inside(f))
  /\ was = "sound" => AllFit(fs2, lim)
MidBits(fs, fs2, was, i, newval, n, n2) ==
  LET S == AllBits(Members(fs))
      S2 == Changed(S, i, newval)
  IN /\ n2 \in Nat /\ i \in Nat /\ S2 \in SUBSET Nat
     /\ was # "garbled" => AllBits(Members(fs2)) = S2
     /\ was = "sound" => IsFiniteSet(S2) /\ n2 = Cardinality(S2)

(* The frames between the rewriting and the resizing. *)
LEMMA MidFramesHold ==
  ASSUME NEW fs, Chain(fs), NEW k \in 1..Len(fs), NEW lim, AllFit(fs, lim), NEW index, NEW newval,
         NEW g, NEW was, NEW i, SetFrame(fs[k], lim, index, newval, g, was, i)
  PROVE  MidFrames(fs, k, lim, g, was, ReplaceAt(fs, k, g))
<1>1. PICK fs2 : fs2 = ReplaceAt(fs, k, g)
  OBVIOUS
<1>2. g \in FrameSet /\ g.startvalue = fs[k].startvalue /\ g.maxvalue = fs[k].maxvalue
  BY Zenon DEF SetFrame
<1>3. Exchanged(fs, k, g, fs2)
  BY <1>1, <1>2, ChainReplaced
<1>4. Members(fs2) = {g} \cup Rest(fs, k)
  BY <1>3, Zenon DEF Exchanged
<1>5. Members(fs) = {fs[k]} \cup Rest(fs, k)
  BY MembersParted
<1>6. \A f \in Rest(fs, k) : Fit(f, lim) /\ Inside(f)
  BY <1>5, Zenon DEF AllFit
<1>7. was # "garbled" => Fit(g, lim)
  BY Zenon DEF SetFrame
<1>8. was = "sound" => Inside(g) /\ Fit(g, lim)
  <2>1. "sound" # "garbled"
    OBVIOUS
  <2> QED
    BY <1>7, <2>1, Zenon DEF SetFrame
<1>9. was \in {"sound", "astray", "garbled"}
  BY Zenon DEF SetFrame
<1>10. was = "sound" => AllFit(fs2, lim)
  BY <1>4, <1>6, <1>8, Zenon DEF AllFit
<1>11. was # "garbled" => \A f \in Members(fs2) : Fit(f, lim)
  BY <1>4, <1>6, <1>7, Zenon
<1> QED
  BY <1>1, <1>3, <1>6, <1>9, <1>10, <1>11, Zenon DEF MidFrames

(* The bits and the count between the rewriting and the resizing. *)
LEMMA MidBitsHold ==
  ASSUME NEW fs, Chain(fs), NEW k \in 1..Len(fs), NEW lim, AllFit(fs, lim), NEW index \in Indices,
         InRange(fs[k], index), NEW newval \in 0..1,
         NEW g, NEW was, NEW i, SetFrame(fs[k], lim, index, newval, g, was, i),
         NEW S, S = AllBits(Members(fs)), S \in SUBSET Nat, IsFiniteSet(S), NEW n, n = Cardinality(S),
         NEW n2, n2 = IF Finds2(fs[k], index) = newval THEN n
                      ELSE IF newval = 1 THEN n + 1 ELSE n - 1
  PROVE  MidBits(fs, ReplaceAt(fs, k, g), was, i, newval, n, n2)
<1>1. PICK fs2 : fs2 = ReplaceAt(fs, k, g)
  OBVIOUS
<1>2. MidFrames(fs, k, lim, g, was, fs2)
  BY <1>1, MidFramesHold
<1>3. Members(fs2) = {g} \cup Rest(fs, k)
  BY <1>2, Zenon DEF Exchanged, MidFrames
<1>4. PICK F : F = BitsIn(fs[k])
  OBVIOUS
<1>5. PICK O : O = AllBits(Rest(fs, k))
  OBVIOUS
<1>6. S = F \cup O
  <2>1. Members(fs) = {fs[k]} \cup Rest(fs, k)
    BY MembersParted
  <2>2. AllBits({fs[k]} \cup Rest(fs, k)) = AllBits({fs[k]}) \cup AllBits(Rest(fs, k))
    BY AllBitsParts, Zenon
  <2>3. AllBits({fs[k]}) = BitsIn(fs[k])
    BY AllBitsParts, Zenon
  <2>4. S = AllBits({fs[k]} \cup Rest(fs, k))
    BY <2>1, Zenon
  <2> QED
    BY <1>4, <1>5, <2>2, <2>3, <2>4, Zenon
<1>7. AllBits(Members(fs2)) = BitsIn(g) \cup O
  <2>2. AllBits({g} \cup Rest(fs, k)) = AllBits({g}) \cup AllBits(Rest(fs, k))
    BY AllBitsParts, Zenon
  <2>3. AllBits({g}) = BitsIn(g)
    BY AllBitsParts, Zenon
  <2> QED
    BY <1>3, <1>5, <2>2, <2>3, Zenon
<1>8. index \notin O /\ index \in Nat
  <2>1. index \in Nat
    BY ReachType
  <2>2. Apart(fs, k)
    BY FramesApart
  <2> QED
    BY <1>5, <2>1, <2>2, Zenon DEF Apart
<1>9. i \in Nat /\ (newval = 0 => i = index)
  BY Zenon DEF SetFrame
<1>10. PICK S2 : S2 = Changed(S, i, newval)
  OBVIOUS
<1>11. S2 = Changed(F, i, newval) \cup O
  <2>1. CASE newval = 1
    BY <1>6, <1>10, <2>1, Zenon DEF Changed
  <2>2. CASE newval = 0
    <3>1. newval # 1 /\ i \notin O
      BY <1>8, <1>9, <2>2
    <3>2. S2 = S \ {i} /\ Changed(F, i, newval) = F \ {i}
      BY <1>10, <3>1, Zenon DEF Changed
    <3> QED
      BY <1>6, <3>1, <3>2, Zenon
  <2>3. newval = 0 \/ newval = 1
    OBVIOUS
  <2> QED
    BY <2>1, <2>2, <2>3
<1>12. was # "garbled" => AllBits(Members(fs2)) = S2
  BY <1>4, <1>7, <1>11, Zenon DEF SetFrame
<1>13. S2 \in SUBSET Nat
  BY <1>9, <1>10, Zenon DEF Changed
<1>14. n \in Nat
  BY FS_CardinalityType
<1>15. ASSUME Finds2(fs[k], index) = newval
       PROVE  n2 \in Nat /\ (was = "sound" => IsFiniteSet(S2) /\ n2 = Cardinality(S2))
  <2>1. n2 = n
    BY <1>15
  <2>2. ASSUME was = "sound" PROVE S2 = S
    <3>1. BitsIn(g) = F
      BY <1>4, <1>15, Zenon DEF SetFrame
    <3>2. was # "garbled"
      BY <2>2
    <3> QED
      BY <1>6, <1>7, <1>12, <3>1, <3>2, Zenon
  <2> QED
    BY <1>14, <2>1, <2>2, Zenon
<1>16. ASSUME Finds2(fs[k], index) # newval
       PROVE  n2 \in Nat /\ (was = "sound" => IsFiniteSet(S2) /\ n2 = Cardinality(S2))
  <2>1. n2 = IF newval = 1 THEN Cardinality(S) + 1 ELSE Cardinality(S) - 1
    BY <1>16
  <2>2. CASE newval = 0
    <3>1. i \in S
      BY <1>4, <1>6, <1>16, <2>2, Zenon DEF SetFrame
    <3>2. newval # 1
      BY <2>2
    <3>3. IsFiniteSet(Changed(S, i, newval)) /\ n2 = Cardinality(Changed(S, i, newval)) /\ n2 \in Nat
      BY <1>9, <2>1, <3>1, <3>2, Counts
    <3> QED
      BY <1>10, <3>3, Zenon
  <2>3. CASE newval = 1
    <3>1. n2 \in Nat
      BY <1>14, <1>16, <2>3
    <3>2. ASSUME was = "sound"
          PROVE  IsFiniteSet(S2) /\ n2 = Cardinality(S2)
      <4>1. i \notin F
        BY <1>4, <1>16, <2>3, Zenon DEF SetFrame
      <4>2. was # "garbled" /\ newval # 0
        BY <2>3, <3>2
      <4>3. Fit(g, lim) /\ Inside(g) /\ BitsIn(g) = Changed(F, i, newval)
        BY <1>4, <3>2, <4>2, Zenon DEF SetFrame
      <4>4. i \in BitsIn(g)
        BY <2>3, <4>3, Zenon DEF Changed
      <4>5. g \in FrameSet /\ g.startvalue = fs[k].startvalue /\ g.maxvalue = fs[k].maxvalue
        BY Zenon DEF SetFrame
      <4>6. InRange(g, i)
        BY <4>3, <4>4, <4>5, FitBits
      <4>7. InRange(fs[k], i)
        BY <4>5, <4>6, Zenon DEF InRange
      <4>8. i \notin O
        <5>1. Apart(fs, k)
          BY FramesApart
        <5> QED
          BY <1>5, <1>9, <4>7, <5>1, Zenon DEF Apart
      <4>9. i \notin S
        BY <1>6, <4>1, <4>8, Zenon
      <4>10. IsFiniteSet(Changed(S, i, newval)) /\ n2 = Cardinality(Changed(S, i, newval))
        BY <1>9, <2>1, <4>2, <4>9, Counts
      <4> QED
        BY <1>10, <4>10, Zenon
    <3> QED
      BY <3>1, <3>2
  <2>4. newval = 0 \/ newval = 1
    OBVIOUS
  <2> QED
    BY <2>2, <2>3, <2>4
<1>17. n2 \in Nat /\ (was = "sound" => IsFiniteSet(S2) /\ n2 = Cardinality(S2))
  BY <1>15, <1>16
<1>18. MidBits(fs, fs2, was, i, newval, n, n2)
  BY <1>9, <1>10, <1>12, <1>13, <1>17, Zenon DEF MidBits
<1> QED
  BY <1>1, <1>18, Zenon

(* What resizing makes of the frames fs, was being their health so far:    *)
(* all bits kept, or the frames k and k + 1 joined.                        *)
Healths == {"sound", "astray", "garbled", "aborted"}
Keeps(fs, lim, was, fs2, h) ==
  /\ Chain(fs2) /\ h \in Healths /\ Len(fs2) \in {Len(fs), Len(fs) + 1}
  /\ h \in {"sound", "astray"} => AllBits(Members(fs2)) = AllBits(Members(fs))
  /\ h = "sound" => was = "sound" /\ AllFit(fs2, lim)
JoinsUp(fs, k, lim, was, fs2, h) ==
  /\ Chain(fs2) /\ h \in Healths /\ k < Len(fs) /\ Len(fs2) = Len(fs) - 1
  /\ h \in {"sound", "astray"} =>
       AllBits(Members(fs2)) = BitsIn(fs[k]) \cup Moved(BitsIn(fs[k + 1])) \cup AllBits(Rest2(fs, k))
  /\ h = "sound" => was = "sound" /\ BitsIn(fs[k + 1]) = {} /\ AllFit(fs2, lim + 1)

(* The bits of one frame and of others. *)
LEMMA AllBitsTwo == \A f, M : AllBits({f} \cup M) = BitsIn(f) \cup AllBits(M)
<1>1. ASSUME NEW f, NEW M
      PROVE  AllBits({f} \cup M) = BitsIn(f) \cup AllBits(M)
  <2>1. AllBits({f} \cup M) = AllBits({f}) \cup AllBits(M)
    BY AllBitsParts, Zenon
  <2>2. AllBits({f}) = BitsIn(f)
    BY AllBitsParts, Zenon
  <2> QED
    BY <2>1, <2>2, Zenon
<1> QED
  BY <1>1, Zenon

(* A split moves no bit. *)
LEMMA SplitKeeps ==
  ASSUME NEW fs, Chain(fs), NEW k \in 1..Len(fs), NEW lim \in Nat, lim <= MaxRun,
         NEW was, was \in {"sound", "astray"}, \A f \in Members(fs) : Fit(f, lim),
         was = "sound" => AllFit(fs, lim),
         Len(fs[k].rledata) >= 17, SplitFrame(k, fs, was)
  PROVE  Keeps(fs, lim, was, frames', health')
<1>1. PICK f \in FrameSet : f = fs[k]
  BY ChainTypes
<1>2. Fit(f, lim) /\ Members(fs) = {f} \cup Rest(fs, k)
  BY <1>1, MembersParted, Zenon DEF Members
<1>3. PICK cur : cur = SplitBlock(f)
  OBVIOUS
<1>4. PICK width \in {cur.length, blocklength(cur.run + 1)} :
        /\ frames' = InsertAt(ReplaceAt(fs, k, Lower(f, cur)), k + 1, Upper(f, cur, width))
        /\ health' = IF width = cur.length THEN was ELSE "garbled"
  BY <1>1, <1>3, Zenon DEF SplitFrame
<1>5. Len(f.rledata) >= 17
  BY <1>1
<1>6. /\ \A w \in {cur.length, blocklength(cur.run + 1)} : CutWell(f, cur, w)
      /\ CutBits(f, lim, cur)
  BY <1>2, <1>3, <1>5, CutFrame
<1>7. PICK lo : lo = Lower(f, cur)
  OBVIOUS
<1>8. PICK up : up = Upper(f, cur, width)
  OBVIOUS
<1>9. /\ lo \in FrameSet /\ up \in FrameSet
      /\ lo.startvalue = fs[k].startvalue /\ up.maxvalue = fs[k].maxvalue
      /\ Meets(lo, up) /\ (up.maxvalue # 0 => up.startvalue < up.maxvalue)
  BY <1>1, <1>4, <1>6, <1>7, <1>8, Zenon DEF CutWell
<1>10. CutInTwo(fs, k, lo, up, InsertAt(ReplaceAt(fs, k, lo), k + 1, up))
  BY <1>9, ChainInserted
<1>11. Chain(frames') /\ Len(frames') = Len(fs) + 1 /\ Members(frames') = {lo, up} \cup Rest(fs, k)
  BY <1>4, <1>7, <1>8, <1>10, Zenon DEF CutInTwo
<1>12. health' \in {"sound", "astray", "garbled"} /\ (health' # "garbled" => width = cur.length /\ health' = was)
  BY <1>4
<1>13. ASSUME health' # "garbled"
       PROVE  AllBits(Members(frames')) = AllBits(Members(fs))
  <2>1. BitsIn(lo) \cup BitsIn(up) = BitsIn(f)
    BY <1>6, <1>7, <1>8, <1>12, <1>13, Zenon DEF CutBits
  <2>2. AllBits({lo, up} \cup Rest(fs, k)) = (BitsIn(lo) \cup BitsIn(up)) \cup AllBits(Rest(fs, k))
    <3>1. AllBits({lo, up} \cup Rest(fs, k)) = AllBits({lo, up}) \cup AllBits(Rest(fs, k))
      BY AllBitsParts, Zenon
    <3>2. AllBits({lo, up}) = BitsIn(lo) \cup BitsIn(up)
      BY AllBitsParts, Zenon
    <3> QED
      BY <3>1, <3>2, Zenon
  <2>3. AllBits({f} \cup Rest(fs, k)) = BitsIn(f) \cup AllBits(Rest(fs, k))
    BY AllBitsTwo, Zenon
  <2> QED
    BY <1>2, <1>11, <2>1, <2>2, <2>3, Zenon
<1>14. ASSUME health' = "sound"
       PROVE  was = "sound" /\ AllFit(frames', lim)
  <2>1. health' # "garbled"
    BY <1>14
  <2>2. was = "sound" /\ width = cur.length
    BY <1>12, <1>14, <2>1
  <2>3. Inside(f) /\ \A x \in Rest(fs, k) : Fit(x, lim) /\ Inside(x)
    BY <1>2, <2>2, Zenon DEF AllFit
  <2>4. Fit(lo, lim) /\ Inside(lo) /\ Fit(up, lim) /\ Inside(up)
    BY <1>6, <1>7, <1>8, <2>2, <2>3, Zenon DEF CutBits
  <2> QED
    BY <1>11, <2>2, <2>3, <2>4, Zenon DEF AllFit
<1>15. health' \in Healths /\ (health' \in {"sound", "astray"} => health' # "garbled")
  BY <1>12 DEF Healths
<1> QED
  BY <1>11, <1>13, <1>14, <1>15, Zenon DEF Keeps

(* A join moves the bits of the frame joined on up by one, and no other. *)
LEMMA JoinKeepsUp ==
  ASSUME NEW fs, Chain(fs), NEW k \in 1..Len(fs), k < Len(fs), NEW lim \in Nat, lim + 1 <= MaxRun,
         NEW was, was \in {"sound", "astray"}, \A f \in Members(fs) : Fit(f, lim),
         was = "sound" => AllFit(fs, lim), JoinFrames(k, fs, was)
  PROVE  Keeps(fs, lim, was, frames', health') \/ JoinsUp(fs, k, lim, was, frames', health')
<1>1. PICK f \in FrameSet : f = fs[k]
  BY ChainTypes
<1>2. k + 1 \in 1..Len(fs) /\ k \in 1..(Len(fs) - 1) /\ Len(fs) \in Nat
  BY LenProperties, ChainTypes
<1>3. PICK other \in FrameSet : other = fs[k + 1]
  BY <1>2, ChainTypes
<1>4. Fit(f, lim) /\ Fit(other, lim)
  BY <1>1, <1>2, <1>3, Zenon DEF Members
<1>5. Members(fs) = {f} \cup Rest(fs, k) /\ Rest(fs, k) = {other} \cup Rest2(fs, k)
  BY <1>1, <1>2, <1>3, MembersParted, MembersParted2
<1>6. CASE Diff(f, other) < 0
  <2>1. frames' = fs /\ health' = "aborted"
    BY <1>1, <1>3, <1>6, Zenon DEF JoinFrames
  <2>2. "aborted" \in Healths /\ "aborted" # "sound" /\ "aborted" \notin {"sound", "astray"}
    BY DEF Healths
  <2>3. Len(fs) \in {Len(fs), Len(fs) + 1}
    OBVIOUS
  <2> QED
    BY <2>1, <2>2, <2>3, Zenon DEF Keeps
<1>7. CASE ~(Diff(f, other) < 0)
  <2>1. Meets(f, other)
    BY <1>1, <1>2, <1>3, Zenon DEF Chain
  <2>2. other.maxvalue # 0 => other.startvalue < other.maxvalue
    <3> SUFFICES ASSUME other.maxvalue # 0 PROVE other.startvalue < other.maxvalue
      OBVIOUS
    <3>1. k + 1 # Len(fs)
      BY <1>2, <1>3, ChainTypes
    <3>2. k + 1 \in 1..(Len(fs) - 1)
      BY <1>2, <3>1
    <3> QED
      BY <1>3, <3>2, Zenon DEF Chain, Meets
  <2>3. JoinWell(f, other) /\ JoinKeeps(f, other) /\ JoinSound(f, other, lim)
    BY <1>4, <1>7, <2>1, <2>2, JoinFrame
  <2>4. PICK g : g = Joined(f, other)
    OBVIOUS
  <2>5. /\ frames' = RemoveAt(ReplaceAt(fs, k, g), k + 1)
        /\ health' = IF Torn(f, other) THEN "garbled"
                     ELSE IF LastBlock(f).bit = 0 \/ BitsIn(other) # {} THEN "astray" ELSE was
    BY <1>1, <1>3, <1>7, <2>4, Zenon DEF JoinFrames, Torn
  <2>6. g \in FrameSet /\ g.startvalue = fs[k].startvalue /\ g.maxvalue = fs[k + 1].maxvalue
    BY <1>1, <1>3, <2>3, <2>4, Zenon DEF JoinWell
  <2>7. MadeOne(fs, k, g, RemoveAt(ReplaceAt(fs, k, g), k + 1))
    BY <1>2, <2>6, ChainRemoved
  <2>8. Chain(frames') /\ Len(frames') = Len(fs) - 1 /\ Members(frames') = {g} \cup Rest2(fs, k)
    BY <2>5, <2>7, Zenon DEF MadeOne
  <2>9. health' \in {"sound", "astray", "garbled"} /\ (health' # "garbled" => ~Torn(f, other))
    BY <2>5
  <2>10. ASSUME health' # "garbled"
         PROVE  AllBits(Members(frames')) = BitsIn(fs[k]) \cup Moved(BitsIn(fs[k + 1])) \cup AllBits(Rest2(fs, k))
    <3>1. BitsIn(g) = BitsIn(f) \cup Moved(BitsIn(other))
      BY <2>3, <2>4, <2>9, <2>10, Zenon DEF JoinKeeps
    <3>2. AllBits({g} \cup Rest2(fs, k)) = BitsIn(g) \cup AllBits(Rest2(fs, k))
      BY AllBitsTwo, Zenon
    <3> QED
      BY <1>1, <1>3, <2>8, <3>1, <3>2, Zenon
  <2>11. ASSUME health' = "sound"
         PROVE  was = "sound" /\ BitsIn(fs[k + 1]) = {} /\ AllFit(frames', lim + 1)
    <3>1. ~Torn(f, other) /\ LastBlock(f).bit # 0 /\ BitsIn(other) = {} /\ was = "sound"
      <4>1. "garbled" # "sound" /\ "astray" # "sound"
        OBVIOUS
      <4> QED
        BY <2>5, <2>11, <4>1, Zenon
    <3>2. Inside(f) /\ \A x \in Rest2(fs, k) : Fit(x, lim) /\ Inside(x)
      BY <1>5, <3>1, Zenon DEF AllFit
    <3>3. Fit(g, lim + 1) /\ Inside(g)
      BY <2>3, <2>4, <3>1, <3>2, Zenon DEF JoinSound
    <3>4. \A x \in Rest2(fs, k) : x \in FrameSet
      <4>1. \A j \in 1..Len(fs) : fs[j] \in FrameSet
        BY ChainTypes
      <4> QED
        BY <4>1, Zenon DEF Rest2
    <3>5. \A x \in Rest2(fs, k) : Fit(x, lim + 1)
      BY <3>2, <3>4, FitMore
    <3> QED
      BY <1>3, <2>8, <3>1, <3>2, <3>3, <3>5, Zenon DEF AllFit
  <2>12. health' \in Healths /\ (health' \in {"sound", "astray"} => health' # "garbled")
    BY <2>9 DEF Healths
  <2> QED
    BY <2>8, <2>10, <2>11, <2>12, Zenon DEF JoinsUp
<1> QED
  BY <1>6, <1>7

(* Resizing moves no bit, or is a join. *)
LEMMA Resizing ==
  ASSUME NEW fs, Chain(fs), NEW k \in 1..Len(fs), NEW lim \in Nat, lim + 1 <= MaxRun,
         NEW was, was \in {"sound", "astray"}, \A f \in Members(fs) : Fit(f, lim),
         was = "sound" => AllFit(fs, lim), Resize(k, fs, was)
  PROVE  Keeps(fs, lim, was, frames', health') \/ JoinsUp(fs, k, lim, was, frames', health')
<1>1. CASE TooLong(k, fs) /\ SplitFrame(k, fs, was)
  <2>1. PICK s \in Nat : s = Len(fs[k].rledata)
    <3>1. fs[k].rledata \in Seq(Bytes)
      BY ChainTypes
    <3> QED
      BY <3>1, LenProperties
  <2>2. s > splitthreshhold
    BY <1>1, <2>1, Zenon DEF TooLong
  <2>3. s >= 17
    BY <2>2, FramesAssumption
  <2>4. Len(fs[k].rledata) >= 17
    BY <2>1, <2>3
  <2>5. lim <= MaxRun
    <3>1. PICK most \in Nat : most = MaxRun
      BY MaxRunType
    <3>2. lim <= most
      BY <3>1
    <3> QED
      BY <3>1, <3>2
  <2> QED
    BY <1>1, <2>4, <2>5, SplitKeeps
<1>2. CASE TooShort(k, fs) /\ JoinFrames(k, fs, was)
  <2>1. k < Len(fs)
    BY <1>2, Zenon DEF TooShort
  <2> QED
    BY <1>2, <2>1, JoinKeepsUp
<1>3. CASE frames' = fs /\ health' = was
  <2>1. health' \in Healths /\ Len(frames') \in {Len(fs), Len(fs) + 1}
    BY <1>3 DEF Healths
  <2> QED
    BY <1>3, <2>1, Zenon DEF Keeps
<1> QED
  BY <1>1, <1>2, <1>3, Zenon DEF Resize

-----------------------------------------------------------------------------
(* The invariant of the second version.                                    *)

(* The second version: a chain of frames with what was asked for.          *)
Sound2 == AllFit(frames, Reach + joins) /\ IsFiniteSet(asked2) /\ numitems = Cardinality(asked2)
FramesInv ==
  /\ Chain(frames) /\ joins \in 0..MaxJoins /\ numitems \in Nat /\ health \in Healths
  /\ asked2 \in SUBSET Nat
  /\ health = "sound" => Sound2
  /\ health \in {"sound", "astray"} => AllBits(Members(frames)) = asked2

(* What was asked for after a call. *)
Asks2(index, newval) ==
  asked2' = IF newval = 1 THEN Shifted(asked2, index) \cup {index + Beyond2(index)}
            ELSE Shifted(asked2 \ {index}, index)
AskedAfter(S, moved, i, newval) ==
  IF newval = 1 THEN ((S \ moved) \cup Moved(moved)) \cup {i}
  ELSE ((S \ {i}) \ moved) \cup Moved(moved)

JoinsWith(S, F, moved, O, i, newval) ==
  /\ S = F \cup (moved \cup O) /\ (\A b \in moved : b \notin F /\ b \notin O)
  /\ (newval = 1 \/ i \notin O)
AskedJoined(S, F, moved, O, i, newval) ==
  AskedAfter(S, moved, i, newval) = Changed(F, i, newval) \cup Moved(moved) \cup O

(* What was asked for, after a join. *)
LEMMA JoinedSets ==
  ASSUME NEW F, NEW moved, NEW O, NEW S, NEW newval, NEW i, JoinsWith(S, F, moved, O, i, newval)
  PROVE  AskedJoined(S, F, moved, O, i, newval)
<1>1. PICK D : D = Moved(moved)
  OBVIOUS
<1> USE DEF JoinsWith
<1>2. CASE newval = 1
  <2>1. ((S \ moved) \cup D) \cup {i} = (F \cup {i}) \cup D \cup O
    OBVIOUS
  <2> QED
    BY <1>1, <1>2, <2>1, Zenon DEF AskedAfter, Changed, AskedJoined
<1>3. CASE newval # 1
  <2>1. i \notin O
    BY <1>3
  <2>2. ((S \ {i}) \ moved) \cup D = (F \ {i}) \cup D \cup O
    BY <2>1
  <2> QED
    BY <1>1, <1>3, <2>2, Zenon DEF AskedAfter, Changed, AskedJoined
<1> QED
  BY <1>2, <1>3

(* The parts of a call. *)
SetParts(index, newval, k, f, g, was, fs) ==
  /\ k = FrameOf(index) /\ f = frames[k] /\ g = Taken(f, index, newval)
  /\ was = Becoming(f, index, newval) /\ fs = ReplaceAt(frames, k, g)
  /\ health = "sound" /\ joins < MaxJoins
  /\ \/ was = "garbled" /\ frames' = fs /\ health' = was
     \/ was # "garbled" /\ Resize(k, fs, was)
  /\ numitems' = IF Finds2(f, index) = newval THEN numitems
                 ELSE IF newval = 1 THEN numitems + 1 ELSE numitems - 1
  /\ joins' = IF Len(frames') < Len(frames) THEN joins + 1 ELSE joins

(* A call in its parts. *)
LEMMA SetIs ==
  ASSUME NEW index, NEW newval, set(index, newval)
  PROVE  \E k, f, g, was, fs : SetParts(index, newval, k, f, g, was, fs)
<1>1. PICK k : k = FrameOf(index)
  OBVIOUS
<1>2. PICK f : f = frames[k]
  OBVIOUS
<1>3. BitAt(index) = Finds2(f, index)
  BY <1>1, <1>2, Zenon DEF BitAt, Finds2
<1>4. PICK g : g = Taken(f, index, newval)
  OBVIOUS
<1>5. PICK was : was = Becoming(f, index, newval)
  OBVIOUS
<1>6. (IF BitAt(index) = newval THEN f ELSE SetIn(f, index, newval)) = g
  BY <1>3, <1>4, Zenon DEF Taken
<1>7. (IF BitAt(index) = newval THEN "sound" ELSE HealthOfSet(f, g, index)) = was
  <2>1. CASE BitAt(index) = newval
    BY <1>3, <1>5, <2>1, Zenon DEF Becoming
  <2>2. CASE BitAt(index) # newval
    BY <1>3, <1>4, <1>5, <2>2, Zenon DEF Becoming, Taken
  <2> QED
    BY <2>1, <2>2
<1>8. PICK fs : fs = ReplaceAt(frames, k, g)
  OBVIOUS
<1>9. /\ health = "sound" /\ joins < MaxJoins
      /\ IF was = "garbled" THEN frames' = fs /\ health' = was ELSE Resize(k, fs, was)
      /\ numitems' = IF Finds2(f, index) = newval THEN numitems
                     ELSE IF newval = 1 THEN numitems + 1 ELSE numitems - 1
      /\ joins' = IF Len(frames') < Len(frames) THEN joins + 1 ELSE joins
  BY <1>1, <1>2, <1>3, <1>6, <1>7, <1>8, Zenon DEF set
<1>10. SetParts(index, newval, k, f, g, was, fs)
  BY <1>1, <1>2, <1>4, <1>5, <1>8, <1>9, Zenon DEF SetParts
<1> QED
  BY <1>10, Zenon

(* What was asked for, in terms of the frames. *)
LEMMA AskedIs ==
  ASSUME NEW index \in Indices, NEW newval \in 0..1, Asks2(index, newval), NEW k, k = FrameOf(index),
         NEW f, f = frames[k], NEW i, i = index + Beyond(f, index, newval)
  PROVE  /\ Len(frames') # Len(frames) - 1 => asked2' = Changed(asked2, i, newval)
         /\ Len(frames') = Len(frames) - 1 => asked2' = AskedAfter(asked2, BitsIn(frames[k + 1]), i, newval)
<1>1. CASE newval = 1
  <2>1. i = index + Beyond2(index)
    BY <1>1, Zenon DEF Beyond2, Beyond, Over
  <2>2. asked2' = Shifted(asked2, index) \cup {i}
    BY <1>1, <2>1, Zenon DEF Asks2
  <2>3. ASSUME Len(frames') # Len(frames) - 1 PROVE asked2' = Changed(asked2, i, newval)
    BY <1>1, <2>2, <2>3, Zenon DEF Shifted, Changed
  <2>4. ASSUME Len(frames') = Len(frames) - 1
        PROVE  asked2' = AskedAfter(asked2, BitsIn(frames[k + 1]), i, newval)
    BY <1>1, <2>2, <2>4, Zenon DEF Shifted, AskedAfter, Moved
  <2> QED
    BY <2>3, <2>4
<1>2. CASE newval = 0
  <2>1. newval # 1 /\ index + 0 = index
    BY <1>2, ReachType
  <2>2. i = index
    BY <2>1, Zenon DEF Beyond, Over
  <2>3. asked2' = Shifted(asked2 \ {i}, index)
    BY <2>1, <2>2, Zenon DEF Asks2
  <2>4. ASSUME Len(frames') # Len(frames) - 1 PROVE asked2' = Changed(asked2, i, newval)
    BY <2>1, <2>3, <2>4, Zenon DEF Shifted, Changed
  <2>5. ASSUME Len(frames') = Len(frames) - 1
        PROVE  asked2' = AskedAfter(asked2, BitsIn(frames[k + 1]), i, newval)
    BY <2>1, <2>3, <2>5, Zenon DEF Shifted, AskedAfter, Moved
  <2> QED
    BY <2>4, <2>5
<1> QED
  BY <1>1, <1>2

(* A step of the second version, in its three outcomes.                    *)
CallFacts(index, newval, k, f, g, was, fs, i, lim) ==
  /\ k \in 1..Len(frames) /\ InRange(f, index) /\ f = frames[k] /\ f \in FrameSet
  /\ SetFrame(f, lim, index, newval, g, was, i)
  /\ MidFrames(frames, k, lim, g, was, fs)
  /\ MidBits(frames, fs, was, i, newval, numitems, numitems')
  /\ Apart(frames, k) /\ asked2 = AllBits(Members(frames))

(* What a call of the second version makes of its frame and of the list. *)
LEMMA CallHolds ==
  ASSUME FramesInv, NEW index \in Indices, NEW newval \in 0..1,
         NEW k, NEW f, NEW g, NEW was, NEW fs, SetParts(index, newval, k, f, g, was, fs),
         NEW i, i = index + Beyond(f, index, newval), NEW lim, lim = Reach + joins
  PROVE  /\ CallFacts(index, newval, k, f, g, was, fs, i, lim)
         /\ lim \in Nat /\ lim + 1 <= MaxRun
<1>1. Chain(frames) /\ Sound2 /\ joins \in 0..MaxJoins /\ asked2 \in SUBSET Nat /\ joins < MaxJoins
      /\ AllBits(Members(frames)) = asked2
  <2>1. health = "sound" /\ joins < MaxJoins
    BY Zenon DEF SetParts
  <2>2. health \in {"sound", "astray"}
    BY <2>1
  <2> QED
    BY <2>1, <2>2, Zenon DEF FramesInv
<1>2. lim \in Nat /\ Reach <= lim /\ lim + 1 <= MaxRun /\ lim <= MaxRun
  <2>1. PICK reach \in Nat : reach = Reach
    BY ReachType
  <2>2. PICK most \in Nat : most = MaxRun
    BY MaxRunType
  <2>3. reach + MaxJoins + 1 = most /\ MaxJoins \in Nat
    BY <2>1, <2>2, ReachType
  <2>4. lim = reach + joins
    BY <2>1
  <2>5. lim \in Nat /\ reach <= lim /\ lim + 1 <= most /\ lim <= most
    BY <1>1, <2>3, <2>4
  <2> QED
    BY <2>1, <2>2, <2>5
<1>3. AllFit(frames, lim)
  BY <1>1, Zenon DEF Sound2
<1>4. index \in Nat \ {0}
  BY ReachType
<1>5. Frames(frames, FrameOf(index), index)
  BY <1>1, <1>4, FrameFound
<1>6. k = FrameOf(index) /\ f = frames[k] /\ g = Taken(f, index, newval)
      /\ was = Becoming(f, index, newval) /\ fs = ReplaceAt(frames, k, g)
      /\ numitems' = IF Finds2(f, index) = newval THEN numitems
                     ELSE IF newval = 1 THEN numitems + 1 ELSE numitems - 1
  BY Zenon DEF SetParts
<1>7. k \in 1..Len(frames) /\ f.startvalue < index /\ (k # Len(frames) => index <= f.maxvalue)
  BY <1>5, <1>6, Zenon DEF Frames
<1>8. InRange(f, index) /\ f \in FrameSet
  <2>1. f \in FrameSet /\ (f.maxvalue = 0 <=> k = Len(frames))
    BY <1>1, <1>6, <1>7, ChainTypes
  <2> QED
    BY <1>7, <2>1, Zenon DEF InRange
<1>9. Fit(f, lim) /\ Inside(f)
  BY <1>3, <1>6, <1>7, Zenon DEF AllFit, Members
<1>10. SetFrame(f, lim, index, newval, g, was, i)
  BY <1>2, <1>6, <1>8, <1>9, SetOnFrame
<1>11. SetFrame(frames[k], lim, index, newval, g, was, i) /\ InRange(frames[k], index)
  BY <1>6, <1>8, <1>10, Zenon
<1>12. MidFrames(frames, k, lim, g, was, ReplaceAt(frames, k, g))
  BY <1>1, <1>3, <1>7, <1>11, MidFramesHold
<1>13. MidBits(frames, ReplaceAt(frames, k, g), was, i, newval, numitems, numitems')
  <2>1. PICK S : S = AllBits(Members(frames))
    OBVIOUS
  <2>2. S \in SUBSET Nat /\ IsFiniteSet(S) /\ numitems = Cardinality(S)
    BY <1>1, <2>1, Zenon DEF Sound2
  <2>3. PICK n : n = numitems
    OBVIOUS
  <2>4. PICK n2 : n2 = numitems'
    OBVIOUS
  <2>5. n2 = (IF Finds2(frames[k], index) = newval THEN n ELSE IF newval = 1 THEN n + 1 ELSE n - 1)
        /\ n = Cardinality(S)
    BY <1>6, <2>2, <2>3, <2>4, Zenon
  <2>6. MidBits(frames, ReplaceAt(frames, k, g), was, i, newval, n, n2)
    BY <1>1, <1>3, <1>7, <1>11, <2>1, <2>2, <2>5, MidBitsHold
  <2> QED
    BY <2>3, <2>4, <2>6, Zenon
<1>14. Apart(frames, k)
  BY <1>1, <1>3, <1>7, FramesApart
<1> QED
  BY <1>1, <1>2, <1>6, <1>7, <1>8, <1>10, <1>12, <1>13, <1>14, Zenon DEF CallFacts

(* A step keeps the invariant; a sound one does not move what was asked.   *)
FramesAsked(index, newval) ==
  health' = "sound" =>
    asked2' = Changed(asked2, index + Beyond(frames[FrameOf(index)], index, newval), newval)
    /\ numitems' = Cardinality(asked2')

(* Every call of the second version keeps its invariant. *)
LEMMA FramesInvStep ==
  ASSUME FramesInv, NEW index \in Indices, NEW newval \in 0..1, set(index, newval), Asks2(index, newval)
  PROVE  FramesInv' /\ FramesAsked(index, newval)
<1>1. PICK k, f, g, was, fs : SetParts(index, newval, k, f, g, was, fs)
  BY SetIs, Zenon
<1>2. PICK i : i = index + Beyond(f, index, newval)
  OBVIOUS
<1>3. PICK lim : lim = Reach + joins
  OBVIOUS
<1>4. CallFacts(index, newval, k, f, g, was, fs, i, lim) /\ lim \in Nat /\ lim + 1 <= MaxRun
  BY <1>1, <1>2, <1>3, CallHolds
<1>5. k = FrameOf(index) /\ f = frames[k] /\ joins' = (IF Len(frames') < Len(frames) THEN joins + 1 ELSE joins)
      /\ ((was = "garbled" /\ frames' = fs /\ health' = was) \/ (was # "garbled" /\ Resize(k, fs, was)))
  BY <1>1, Zenon DEF SetParts
<1>6. /\ k \in 1..Len(frames) /\ Chain(fs) /\ Len(fs) = Len(frames) /\ fs[k] = g
      /\ was \in {"sound", "astray", "garbled"}
      /\ was # "garbled" => \A x \in Members(fs) : Fit(x, lim)
      /\ was = "sound" => AllFit(fs, lim)
      /\ \A j \in 1..Len(frames) : j # k => fs[j] = frames[j]
  BY <1>4, Zenon DEF CallFacts, MidFrames, Exchanged
<1>7. PICK S2 : S2 = Changed(asked2, i, newval)
  OBVIOUS
<1>8. /\ numitems' \in Nat /\ i \in Nat /\ S2 \in SUBSET Nat
      /\ was # "garbled" => AllBits(Members(fs)) = S2
      /\ was = "sound" => IsFiniteSet(S2) /\ numitems' = Cardinality(S2)
  BY <1>4, <1>7, Zenon DEF CallFacts, MidBits
<1>9. /\ Len(frames') # Len(frames) - 1 => asked2' = S2
      /\ Len(frames') = Len(frames) - 1 => asked2' = AskedAfter(asked2, BitsIn(frames[k + 1]), i, newval)
  BY <1>2, <1>5, <1>7, AskedIs
<1>10. PICK n \in Nat \ {0} : n = Len(frames)
  <2>1. Chain(frames)
    BY DEF FramesInv
  <2> QED
    BY <2>1, ChainTypes
<1>11. joins \in 0..MaxJoins /\ joins < MaxJoins /\ MaxJoins \in Nat
  BY <1>1, ReachType DEF SetParts, FramesInv
<1>12. CASE was = "garbled" \/ Keeps(fs, lim, was, frames', health')
  <2>1. /\ Chain(frames') /\ health' \in Healths /\ Len(frames') \in {n, n + 1}
        /\ health' \in {"sound", "astray"} => AllBits(Members(frames')) = AllBits(Members(fs)) /\ was # "garbled"
        /\ health' = "sound" => was = "sound" /\ AllFit(frames', lim)
    <3>1. CASE was = "garbled"
      <4>1. frames' = fs /\ health' = "garbled"
        BY <1>5, <3>1, Zenon
      <4>2. "garbled" \in Healths /\ "garbled" \notin {"sound", "astray"} /\ "garbled" # "sound"
        BY DEF Healths
      <4>3. Len(frames') \in {n, n + 1}
        BY <1>6, <1>10, <4>1
      <4> QED
        BY <1>6, <4>1, <4>2, <4>3, Zenon
    <3>2. CASE was # "garbled"
      BY <1>6, <1>10, <1>12, <3>2, Zenon DEF Keeps
    <3> QED
      BY <3>1, <3>2
  <2>2. ~(Len(frames') < Len(frames)) /\ Len(frames') # Len(frames) - 1
    BY <1>10, <2>1
  <2>3. joins' = joins /\ asked2' = S2
    BY <1>5, <1>9, <2>2, Zenon
  <2>4. health' \in {"sound", "astray"} => AllBits(Members(frames')) = asked2'
    BY <1>8, <2>1, <2>3, Zenon
  <2>5. health' = "sound" =>
          AllFit(frames', Reach + joins') /\ IsFiniteSet(asked2') /\ numitems' = Cardinality(asked2')
    BY <1>3, <1>8, <2>1, <2>3, Zenon
  <2>6. FramesInv'
    BY <1>8, <1>11, <2>1, <2>3, <2>4, <2>5, Zenon DEF FramesInv, Sound2
  <2>7. FramesAsked(index, newval)
    BY <1>2, <1>5, <1>7, <2>3, <2>5, Zenon DEF FramesAsked
  <2> QED
    BY <2>6, <2>7
<1>13. CASE JoinsUp(fs, k, lim, was, frames', health') /\ was # "garbled"
  <2>1. /\ Chain(frames') /\ health' \in Healths /\ k < Len(frames) /\ Len(frames') = Len(frames) - 1
        /\ health' \in {"sound", "astray"} =>
             AllBits(Members(frames')) = BitsIn(g) \cup Moved(BitsIn(fs[k + 1])) \cup AllBits(Rest2(fs, k))
        /\ health' = "sound" => was = "sound" /\ BitsIn(fs[k + 1]) = {} /\ AllFit(frames', lim + 1)
    BY <1>6, <1>13, Zenon DEF JoinsUp
  <2>2. k + 1 \in 1..Len(frames) /\ k + 1 # k /\ k \in 1..(Len(frames) - 1) /\ Len(frames) \in Nat
    BY <1>6, <1>10, <2>1
  <2>3. PICK moved : moved = BitsIn(frames[k + 1])
    OBVIOUS
  <2>4. fs[k + 1] = frames[k + 1]
    BY <1>6, <2>2, Zenon
  <2>5. Rest2(fs, k) = Rest2(frames, k)
    <3>1. \A j \in (1..Len(frames)) \ {k, k + 1} : fs[j] = frames[j]
      BY <1>6
    <3>2. Rest2(fs, k) = {fs[j] : j \in (1..Len(frames)) \ {k, k + 1}}
      BY <1>6, Zenon DEF Rest2
    <3>3. {fs[j] : j \in (1..Len(frames)) \ {k, k + 1}} = {frames[j] : j \in (1..Len(frames)) \ {k, k + 1}}
      BY <3>1
    <3> QED
      BY <3>2, <3>3, Zenon DEF Rest2
  <2>6. PICK O : O = AllBits(Rest2(frames, k))
    OBVIOUS
  <2>7. PICK F : F = BitsIn(f)
    OBVIOUS
  <2>8. asked2 = F \cup (moved \cup O) /\ AllBits(Rest(frames, k)) = moved \cup O
    <3>1. Members(frames) = {f} \cup Rest(frames, k)
      BY <1>5, <1>6, MembersParted
    <3>2. Rest(frames, k) = {frames[k + 1]} \cup Rest2(frames, k)
      BY <2>2, MembersParted2
    <3>3. AllBits({f} \cup Rest(frames, k)) = BitsIn(f) \cup AllBits(Rest(frames, k))
      BY AllBitsTwo, Zenon
    <3>4. AllBits({frames[k + 1]} \cup Rest2(frames, k)) = BitsIn(frames[k + 1]) \cup AllBits(Rest2(frames, k))
      BY AllBitsTwo, Zenon
    <3>5. asked2 = AllBits(Members(frames))
      BY <1>4, Zenon DEF CallFacts
    <3>6. AllBits(Rest(frames, k)) = moved \cup O
      BY <2>3, <2>6, <3>2, <3>4, Zenon
    <3>7. asked2 = BitsIn(f) \cup AllBits(Rest(frames, k))
      BY <3>1, <3>3, <3>5, Zenon
    <3> QED
      BY <2>7, <3>6, <3>7, Zenon
  <2>9. \A b \in moved : b \notin F /\ b \notin O
    BY <1>4, <1>5, <2>1, <2>3, <2>6, <2>7, Zenon DEF CallFacts, Apart
  <2>10. newval = 0 => i \notin O
    <3> SUFFICES ASSUME newval = 0 PROVE i \notin O
      OBVIOUS
    <3>1. i = index /\ InRange(frames[k], i)
      BY <1>4, <1>5, Zenon DEF CallFacts, SetFrame
    <3>2. i \notin AllBits(Rest(frames, k))
      BY <1>4, <1>8, <3>1, Zenon DEF CallFacts, Apart
    <3> QED
      BY <2>8, <3>2, Zenon
  <2>11. asked2' = AskedAfter(asked2, moved, i, newval)
    BY <1>9, <2>1, <2>3, Zenon
  <2>12. AskedAfter(asked2, moved, i, newval) = Changed(F, i, newval) \cup Moved(moved) \cup O
    <3>1. JoinsWith(asked2, F, moved, O, i, newval)
      <4>1. newval = 1 \/ newval = 0
        OBVIOUS
      <4>2. newval = 1 \/ i \notin O
        BY <2>10, <4>1
      <4> QED
        BY <2>8, <2>9, <4>2, Zenon DEF JoinsWith
    <3>2. AskedJoined(asked2, F, moved, O, i, newval)
      BY <3>1, JoinedSets
    <3> QED
      BY <3>2, Zenon DEF AskedJoined
  <2>13. BitsIn(g) = Changed(F, i, newval)
    BY <1>4, <1>13, <2>7, Zenon DEF CallFacts, SetFrame
  <2>14. health' \in {"sound", "astray"} => AllBits(Members(frames')) = asked2'
    BY <2>1, <2>3, <2>4, <2>5, <2>6, <2>11, <2>12, <2>13, Zenon
  <2>15. moved \in SUBSET Nat /\ asked2 \in SUBSET Nat
    <3>1. asked2 \in SUBSET Nat
      BY Zenon DEF FramesInv
    <3> QED
      BY <2>8, <3>1, Zenon
  <2>16. asked2' \in SUBSET Nat
    <3>1. Moved(moved) \in SUBSET Nat
      BY <2>15 DEF Moved
    <3>2. AskedAfter(asked2, moved, i, newval) \in SUBSET Nat
      <4>1. CASE newval = 1
        BY <1>8, <2>15, <3>1, <4>1, Zenon DEF AskedAfter
      <4>2. CASE newval # 1
        BY <1>8, <2>15, <3>1, <4>2, Zenon DEF AskedAfter
      <4> QED
        BY <4>1, <4>2
    <3> QED
      BY <2>11, <3>2
  <2>17. Len(frames') < Len(frames)
    BY <1>10, <2>1
  <2>18. joins' = joins + 1 /\ joins' \in 0..MaxJoins /\ Reach + joins' = lim + 1
    <3>1. joins' = joins + 1
      BY <1>5, <2>17, Zenon
    <3>2. Reach \in Nat
      BY ReachType
    <3> QED
      BY <1>3, <1>11, <3>1, <3>2
  <2>19. health' = "sound" => asked2' = S2
    <3> SUFFICES ASSUME health' = "sound" PROVE asked2' = S2
      OBVIOUS
    <3>1. moved = {}
      BY <2>1, <2>3, <2>4, Zenon
    <3>2. Moved(moved) = {}
      BY <3>1 DEF Moved
    <3>3. CASE newval = 1
      <4>1. asked2' = ((asked2 \ moved) \cup Moved(moved)) \cup {i} /\ S2 = asked2 \cup {i}
        BY <1>7, <2>11, <3>3, Zenon DEF AskedAfter, Changed
      <4> QED
        BY <3>1, <3>2, <4>1, Zenon
    <3>4. CASE newval # 1
      <4>1. asked2' = ((asked2 \ {i}) \ moved) \cup Moved(moved) /\ S2 = asked2 \ {i}
        BY <1>7, <2>11, <3>4, Zenon DEF AskedAfter, Changed
      <4> QED
        BY <3>1, <3>2, <4>1, Zenon
    <3> QED
      BY <3>3, <3>4
  <2>20. health' = "sound" =>
           AllFit(frames', Reach + joins') /\ IsFiniteSet(asked2') /\ numitems' = Cardinality(asked2')
    BY <1>8, <2>1, <2>18, <2>19, Zenon
  <2>21. FramesInv'
    BY <1>8, <2>1, <2>14, <2>16, <2>18, <2>20, Zenon DEF FramesInv, Sound2
  <2>22. FramesAsked(index, newval)
    BY <1>2, <1>5, <1>7, <2>19, <2>20, Zenon DEF FramesAsked
  <2> QED
    BY <2>21, <2>22
<1>14. was = "garbled" \/ Keeps(fs, lim, was, frames', health')
         \/ (JoinsUp(fs, k, lim, was, frames', health') /\ was # "garbled")
  <2> SUFFICES ASSUME was # "garbled"
               PROVE  Keeps(fs, lim, was, frames', health') \/ JoinsUp(fs, k, lim, was, frames', health')
    OBVIOUS
  <2>1. was \in {"sound", "astray"} /\ k \in 1..Len(fs)
    BY <1>6
  <2>2. Resize(k, fs, was)
    BY <1>5
  <2> QED
    BY <1>4, <1>6, <2>1, <2>2, Resizing
<1> QED
  BY <1>12, <1>13, <1>14

(* A list of one. *)
LEMMA OneElement ==
  ASSUME NEW S, NEW e \in S
  PROVE  <<e>> \in Seq(S) /\ Len(<<e>>) = 1 /\ <<e>>[1] = e
OBVIOUS

(* At the start there is one frame without a limit and without bits.       *)
LEMMA FramesInvInit ==
  ASSUME Init, asked2 = {}
  PROVE  FramesInv
<1>1. PICK R \in Seq(Runs), T \in Terminators :
         /\ encode(0, 1) \o <<0>> = Coded(R) \o T
         /\ Canon(R) /\ Span(R) = 1 /\ \A v \in Nat : Ones(R, v) = {}
  BY FirstString
<1>2. PICK data : data = encode(0, 1) \o <<0>>
  OBVIOUS
<1>3. data \in Seq(Bytes)
  <2>1. Coded(R) \in Seq(Bytes) /\ T \in Seq(Bytes)
    BY CodedProperties, TerminatorBytes
  <2>2. Coded(R) \o T \in Seq(Bytes)
    BY <2>1, ConcatProperties
  <2> QED
    BY <1>1, <1>2, <2>2, Zenon
<1>4. PICK f : f = [rledata |-> data, startvalue |-> 0, maxvalue |-> 0]
  OBVIOUS
<1>5. f \in FrameSet /\ f.rledata = data /\ f.startvalue = 0 /\ f.maxvalue = 0
  BY <1>3, <1>4 DEF FrameSet
<1>6. frames = <<f>> /\ numitems = 0 /\ health = "sound" /\ joins = 0
  BY <1>2, <1>4, Zenon DEF Init
<1>7. PICK fs \in Seq(FrameSet) : fs = <<f>> /\ Len(fs) = 1 /\ fs[1] = f
  <2>1. f \in FrameSet
    BY <1>5
  <2>2. <<f>> \in Seq(FrameSet) /\ Len(<<f>>) = 1 /\ <<f>>[1] = f
    BY <2>1, OneElement
  <2> QED
    BY <2>2, Zenon
<1>8. frames = fs
  BY <1>6, <1>7, Zenon
<1>9. Chain(fs)
  <2>1. 1..(Len(fs) - 1) = {} /\ Len(fs) \in Nat \ {0}
    BY <1>7
  <2> QED
    BY <1>5, <1>7, <2>1, Zenon DEF Chain
<1>10. Members(fs) = {f}
  <2>1. Members(fs) = {fs[j] : j \in 1..Len(fs)}
    BY Zenon DEF Members
  <2>2. 1..Len(fs) = {1}
    BY <1>7
  <2> QED
    BY <1>7, <2>1, <2>2, Zenon
<1>11. PICK lim \in Nat : lim = Reach + joins /\ lim = Reach
  <2>1. PICK reach \in Nat : reach = Reach
    BY ReachType
  <2>2. reach + 0 = reach
    OBVIOUS
  <2> QED
    BY <1>6, <2>1, <2>2, Zenon
<1>12. FitBy(f, lim, R, T)
  <2>1. 0 + 1 <= Reach
    BY ReachType
  <2>2. f.startvalue + Span(R) <= lim
    BY <1>1, <1>5, <1>11, <2>1, Zenon
  <2> QED
    BY <1>1, <1>2, <1>5, <2>2, Zenon DEF FitBy
<1>13. BitsIn(f) = {}
  <2>1. BitsIn(f) = Ones(R, f.startvalue)
    BY <1>5, <1>12, FitFacts
  <2>2. 0 \in Nat
    OBVIOUS
  <2> QED
    BY <1>1, <1>5, <2>1, <2>2, Zenon
<1>14. AllBits(Members(frames)) = {}
  <2>1. AllBits({f}) = BitsIn(f)
    BY AllBitsParts, Zenon
  <2> QED
    BY <1>8, <1>10, <1>13, <2>1, Zenon
<1>15. AllFit(frames, Reach + joins)
  <2>1. Fit(f, lim) /\ Inside(f)
    BY <1>5, <1>12, Zenon DEF Fit, Inside
  <2>2. \A x \in {f} : Fit(x, lim) /\ Inside(x)
    BY <2>1
  <2> QED
    BY <1>8, <1>10, <1>11, <2>2, Zenon DEF AllFit
<1>16. IsFiniteSet({}) /\ Cardinality({}) = 0
  BY FS_EmptySet
<1>17. Sound2
  BY <1>6, <1>15, <1>16, Zenon DEF Sound2
<1>18. joins \in 0..MaxJoins /\ numitems \in Nat /\ health \in Healths /\ asked2 \in SUBSET Nat
  BY <1>6, ReachType DEF Healths
<1>19. Chain(frames)
  BY <1>8, <1>9
<1> QED
  BY <1>14, <1>17, <1>18, <1>19, Zenon DEF FramesInv

(* The calls of both versions are calls of the second.                     *)
LEMMA SecondCalled ==
  ASSUME NEW index \in Indices
  PROVE  /\ SetBoth(index) => set(index, 1) /\ Asks2(index, 1)
         /\ UnsetBoth(index) => set(index, 0) /\ Asks2(index, 0)
<1>1. 1 # 0
  OBVIOUS
<1>2. ASSUME SetBoth(index) PROVE set(index, 1) /\ Asks2(index, 1)
  BY <1>2, Zenon DEF SetBoth, setbit, Asks2
<1>3. ASSUME UnsetBoth(index) PROVE set(index, 0) /\ Asks2(index, 0)
  BY <1>1, <1>3, Zenon DEF UnsetBoth, unsetbit, Asks2
<1> QED
  BY <1>2, <1>3

-----------------------------------------------------------------------------
(* Both versions beside each other.                                        *)
VersionsInv ==
  /\ FirstInv /\ FramesInv
  /\ ~parted => health = "sound" /\ ~garbled /\ asked1 = asked2

(* Both versions begin with the invariant. *)
LEMMA VersionsInvInit ==
  ASSUME VersionsInit
  PROVE  VersionsInv
<1>1. Init /\ First!Init /\ asked1 = {} /\ asked2 = {} /\ parted = FALSE
  BY Zenon DEF VersionsInit
<1>2. FirstInv
  BY <1>1, FirstInvInit
<1>3. FramesInv
  BY <1>1, FramesInvInit
<1>4. health = "sound" /\ ~garbled
  <2>1. garbled = FALSE
    BY <1>1, FirstCoding, Zenon DEF First!Init
  <2> QED
    BY <1>1, <2>1, Zenon DEF Init
<1> QED
  BY <1>1, <1>2, <1>3, <1>4, Zenon DEF VersionsInv

(* One call of both versions.                                              *)
CallsBoth(index, newval) ==
  /\ Calls1(index, newval) /\ set(index, newval) /\ Asks2(index, newval)
  /\ parted' = (parted \/ Parts(index))

(* A step is one call of both versions. *)
LEMMA BothCalled ==
  ASSUME VersionsNext
  PROVE  \E index \in Indices, newval \in 0..1 : CallsBoth(index, newval)
<1>1. PICK index \in Indices : SetBoth(index) \/ UnsetBoth(index)
  BY Zenon DEF VersionsNext
<1>2. 1 \in 0..1 /\ 0 \in 0..1
  OBVIOUS
<1>3. CASE SetBoth(index)
  <2>1. parted' = (parted \/ Parts(index))
    BY <1>3, Zenon DEF SetBoth
  <2>2. CallsBoth(index, 1)
    BY <1>3, <2>1, FirstCalled, SecondCalled, Zenon DEF CallsBoth
  <2> QED
    BY <1>2, <2>2
<1>4. CASE UnsetBoth(index)
  <2>1. parted' = (parted \/ Parts(index))
    BY <1>4, Zenon DEF UnsetBoth
  <2>2. CallsBoth(index, 0)
    BY <1>4, <2>1, FirstCalled, SecondCalled, Zenon DEF CallsBoth
  <2> QED
    BY <1>2, <2>2
<1> QED
  BY <1>1, <1>3, <1>4

(* A call that does not part the versions asks the same of both.           *)
LEMMA SameAsked ==
  ASSUME NEW index \in Indices, NEW newval \in 0..1, Calls1(index, newval), FramesAsked(index, newval),
         ~Parts(index), asked1 = asked2
  PROVE  asked1' = asked2'
<1>1. ~garbled' /\ health' = "sound" /\ Beyond1(index) = Beyond2(index)
  BY Zenon DEF Parts
<1>2. PICK B : B = BlocksOf(rledata, 0)
  OBVIOUS
<1>3. PICK f : f = frames[FrameOf(index)]
  OBVIOUS
<1>4. asked1' = Changed(asked1, index + Over(newval, B, index), newval)
  BY <1>2, Zenon DEF Calls1, Rewrites1, Stays1
<1>5. asked2' = Changed(asked2, index + Over(newval, BlocksIn(f), index), newval)
  BY <1>1, <1>3, Zenon DEF FramesAsked, Beyond
<1>6. Over(newval, B, index) = Over(newval, BlocksIn(f), index)
  <2>1. First!Blocks = B
    BY <1>2, FirstProps, FirstCoding, Zenon
  <2>2. Overshoot(B, index) = Overshoot(BlocksIn(f), index)
    BY <1>1, <1>3, <2>1, Zenon DEF Beyond1, Beyond2
  <2> QED
    BY <2>2, Zenon DEF Over
<1> QED
  BY <1>4, <1>5, <1>6, Zenon

(* A call of both versions keeps the invariant. *)
LEMMA VersionsInvStep ==
  ASSUME VersionsInv, VersionsNext
  PROVE  VersionsInv'
<1>1. PICK index \in Indices, newval \in 0..1 : CallsBoth(index, newval)
  BY BothCalled
<1>2. /\ Calls1(index, newval) /\ set(index, newval) /\ Asks2(index, newval)
      /\ parted' = (parted \/ Parts(index))
  BY <1>1, Zenon DEF CallsBoth
<1>3. FirstInv /\ FramesInv
  BY Zenon DEF VersionsInv
<1>4. FirstInv'
  BY <1>2, <1>3, FirstInvStep
<1>5. FramesInv' /\ FramesAsked(index, newval)
  BY <1>2, <1>3, FramesInvStep
<1>6. ASSUME ~(parted')
      PROVE  health' = "sound" /\ ~(garbled') /\ asked1' = asked2'
  <2>1. ~parted /\ ~Parts(index)
    BY <1>2, <1>6
  <2>2. asked1 = asked2
    BY <2>1, Zenon DEF VersionsInv
  <2>3. asked1' = asked2'
    BY <1>2, <1>5, <2>1, <2>2, SameAsked
  <2> QED
    BY <2>1, <2>3, Zenon DEF Parts
<1> QED
  BY <1>4, <1>5, <1>6, Zenon DEF VersionsInv

(* A step that changes nothing keeps the invariant. *)
LEMMA VersionsInvStutter ==
  ASSUME VersionsInv, UNCHANGED allvars
  PROVE  VersionsInv'
<1>1. /\ frames' = frames /\ numitems' = numitems /\ health' = health /\ joins' = joins
      /\ rledata' = rledata /\ count' = count /\ garbled' = garbled
      /\ asked1' = asked1 /\ asked2' = asked2 /\ parted' = parted
  BY DEF allvars
<1>2. FirstInv'
  BY <1>1, Zenon DEF VersionsInv, FirstInv
<1>3. Sound2 => Sound2'
  BY <1>1, Zenon DEF Sound2
<1>4. FramesInv'
  BY <1>1, <1>3, Zenon DEF VersionsInv, FramesInv
<1> QED
  BY <1>1, <1>2, <1>4, Zenon DEF VersionsInv

-----------------------------------------------------------------------------
(* What the invariant says of the second version.                          *)

(* What the invariant says of the frames.                                  *)
LEMMA FramesSet ==
  ASSUME FramesInv
  PROVE  Bits = AllBits(Members(frames))
<1>1. Chain(frames)
  BY Zenon DEF FramesInv
<1> QED
  BY <1>1, BitsAll, Zenon DEF Bits

(* The frames are bytes and numbers. *)
LEMMA FramesType ==
  ASSUME FramesInv
  PROVE  TypeOK
<1>1. Chain(frames) /\ joins \in 0..MaxJoins /\ numitems \in Nat /\ health \in Healths
  BY Zenon DEF FramesInv
<1>2. DOMAIN frames = 1..Len(frames)
  BY <1>1, ChainTypes
<1>3. ASSUME NEW k \in DOMAIN frames
      PROVE  frames[k].rledata \in Seq(0..255) /\ frames[k].startvalue \in Nat /\ frames[k].maxvalue \in Nat
  <2>1. frames[k].rledata \in Seq(Bytes) /\ frames[k].startvalue \in Nat /\ frames[k].maxvalue \in Nat
    BY <1>1, <1>2, ChainTypes
  <2> QED
    BY <2>1, Zenon DEF Bytes
<1> QED
  BY <1>1, <1>3, Zenon DEF TypeOK, Healths

(* Each frame of a sound array.                                            *)
LEMMA SoundFrame ==
  ASSUME FramesInv, health = "sound", NEW k \in DOMAIN frames
  PROVE  /\ k \in 1..Len(frames) /\ frames[k] \in FrameSet
         /\ Fit(frames[k], Reach + joins) /\ Inside(frames[k])
<1>1. Chain(frames) /\ Sound2
  BY Zenon DEF FramesInv
<1>2. DOMAIN frames = 1..Len(frames)
  BY <1>1, ChainTypes
<1>3. k \in 1..Len(frames)
  BY <1>2
<1>4. frames[k] \in FrameSet
  BY <1>1, <1>3, ChainTypes
<1>5. frames[k] \in Members(frames)
  BY <1>3, Zenon DEF Members
<1> QED
  BY <1>1, <1>3, <1>4, <1>5, Zenon DEF Sound2, AllFit

(* Every frame of a sound array is coded canonically. *)
LEMMA FramesCanonical ==
  ASSUME FramesInv
  PROVE  Canonical
<1>1. ASSUME health = "sound", NEW k \in DOMAIN frames
      PROVE  CanonicalString(frames[k].rledata, frames[k].startvalue)
  <2>1. frames[k] \in FrameSet /\ Fit(frames[k], Reach + joins)
    BY <1>1, SoundFrame
  <2>2. PICK f \in FrameSet : f = frames[k]
    BY <2>1
  <2>3. PICK R \in Seq(Runs), T \in Terminators : FitBy(f, Reach + joins, R, T)
    BY <2>1, <2>2, Zenon DEF Fit
  <2>4. CanonicalString(f.rledata, f.startvalue)
    BY <2>3, FitFacts
  <2> QED
    BY <2>2, <2>4, Zenon
<1> QED
  BY <1>1, Zenon DEF Canonical

(* The frames cover all positions, and each holds bits of its own range. *)
LEMMA FramesParted ==
  ASSUME FramesInv
  PROVE  FramesPartition
<1>1. Chain(frames)
  BY Zenon DEF FramesInv
<1>2. PICK n \in Nat : n = Len(frames)
  BY <1>1, ChainTypes
<1>3. /\ frames[1].startvalue = 0 /\ frames[n].maxvalue = 0
      /\ \A k \in 1..(n - 1) : /\ frames[k].maxvalue = frames[k + 1].startvalue
                               /\ frames[k].startvalue < frames[k].maxvalue
  BY <1>1, <1>2, Zenon DEF Chain, Meets
<1>4. ASSUME health = "sound", NEW k \in DOMAIN frames, NEW b \in BitsIn(frames[k])
      PROVE  b > frames[k].startvalue /\ (k < n => b <= frames[k].maxvalue)
  <2>1. /\ k \in 1..Len(frames) /\ frames[k] \in FrameSet
        /\ Fit(frames[k], Reach + joins) /\ Inside(frames[k])
    BY <1>4, SoundFrame
  <2>2. b \in Nat /\ InRange(frames[k], b)
    BY <1>4, <2>1, FitBits
  <2>3. frames[k].startvalue \in Nat /\ (frames[k].maxvalue = 0 <=> k = n)
    BY <1>1, <1>2, <2>1, ChainTypes
  <2>4. frames[k].startvalue < b /\ (frames[k].maxvalue # 0 => b <= frames[k].maxvalue)
    BY <2>2, Zenon DEF InRange
  <2>5. b > frames[k].startvalue
    BY <2>2, <2>3, <2>4
  <2>6. k < n => frames[k].maxvalue # 0
    BY <1>2, <2>1, <2>3
  <2> QED
    BY <2>4, <2>5, <2>6
<1> QED
  BY <1>2, <1>3, <1>4, Zenon DEF FramesPartition

(* The bits of the first frames, and which of these have none.             *)
BitsUpTo(fs, k) == UNION {BitsIn(fs[j]) : j \in 1..k}
Bare(fs, k) == {j \in 1..k : BitsIn(fs[j]) = {}}
WalksOf(fs) == [k \in DOMAIN fs |-> Walk(BlocksIn(fs[k]))]
YieldsOf(fs) == [k \in DOMAIN fs |-> FrameValues(fs[k])]
ValuesIn(fs) == Nat \cup {Last(BlocksIn(fs[j])).value : j \in DOMAIN fs}

(* What an iterator yields of one frame.                                   *)
FrameYields(f, A) ==
  /\ BitsIn(f) \in SUBSET Nat /\ IsFiniteSet(BitsIn(f))
  /\ Walk(BlocksIn(f)) = Vector(BitsIn(f)) /\ Walk(BlocksIn(f)) \in Seq(Nat)
  /\ FrameValues(f) \in Seq(A)
  /\ Len(FrameValues(f)) = IF BitsIn(f) = {} THEN Len(Walk(BlocksIn(f))) + 1 ELSE Len(Walk(BlocksIn(f)))

(* An iterator yields the bits of a frame in order, or one value if there  *)
(* are none.                                                               *)
LEMMA FrameReads ==
  ASSUME NEW f \in FrameSet, NEW lim, Fit(f, lim), NEW A, Nat \subseteq A, Last(BlocksIn(f)).value \in A
  PROVE  FrameYields(f, A)
<1>1. PICK R \in Seq(Runs), T \in Terminators : FitBy(f, lim, R, T)
  BY Zenon DEF Fit
<1>2. BitsIn(f) \in SUBSET Nat /\ IsFiniteSet(BitsIn(f)) /\ Walk(BlocksIn(f)) = Vector(BitsIn(f))
  BY <1>1, FitFacts
<1>3. PICK w : w = Walk(BlocksIn(f))
  OBVIOUS
<1>4. w \in Seq(Nat) /\ Len(w) = Cardinality(BitsIn(f)) /\ Cardinality(BitsIn(f)) \in Nat
  <2>1. Vector(BitsIn(f)) \in Seq(Nat) /\ Len(Vector(BitsIn(f))) = Cardinality(BitsIn(f))
        /\ Cardinality(BitsIn(f)) \in Nat
    BY <1>2, VectorProperties
  <2> QED
    BY <1>2, <1>3, <2>1, Zenon
<1>5. BitsIn(f) = {} <=> w = <<>>
  <2>1. BitsIn(f) = {} <=> Cardinality(BitsIn(f)) = 0
    BY <1>2, FS_EmptySet
  <2>2. w = <<>> <=> Len(w) = 0
    BY <1>4, EmptySeq
  <2> QED
    BY <1>4, <2>1, <2>2
<1>6. CASE w = <<>>
  <2>1. PICK e : e = Last(BlocksIn(f)).value
    OBVIOUS
  <2>2. e \in A
    BY <2>1
  <2>3. <<e>> \in Seq(A) /\ Len(<<e>>) = 1
    BY <2>2, OneElement
  <2>4. FrameValues(f) = <<e>>
    BY <1>3, <1>6, <2>1, Zenon DEF FrameValues
  <2>5. Len(w) + 1 = 1
    BY <1>6, EmptySeq
  <2> QED
    BY <1>2, <1>3, <1>4, <1>5, <1>6, <2>3, <2>4, <2>5, Zenon DEF FrameYields
<1>7. CASE w # <<>>
  <2>1. FrameValues(f) = w
    BY <1>3, <1>7, Zenon DEF FrameValues
  <2>2. w \in Seq(A)
    BY <1>4
  <2> QED
    BY <1>2, <1>3, <1>4, <1>5, <1>7, <2>1, <2>2, Zenon DEF FrameYields
<1> QED
  BY <1>6, <1>7

(* The frames one after the other.                                         *)
LEMMA FramesRise ==
  ASSUME NEW fs, Chain(fs), NEW lim, AllFit(fs, lim), NEW k \in 1..Len(fs), NEW h \in Nat, h < k
  PROVE  Above(BitsUpTo(fs, h), BitsIn(fs[k])) /\ BitsUpTo(fs, h) \in SUBSET Nat
<1>1. PICK n \in Nat : n = Len(fs)
  BY ChainTypes
<1>2. \A j \in 1..n : fs[j].startvalue \in Nat /\ fs[j].maxvalue \in Nat /\ (fs[j].maxvalue = 0 <=> j = n)
  BY <1>1, ChainTypes
<1>3. \A j \in 1..n : \A b \in BitsIn(fs[j]) : b \in Nat /\ InRange(fs[j], b)
  <2> TAKE j \in 1..n
  <2>1. fs[j] \in FrameSet
    BY <1>1, ChainTypes
  <2>2. Fit(fs[j], lim) /\ Inside(fs[j])
    BY <1>1, Zenon DEF AllFit, Members
  <2> QED
    BY <2>1, <2>2, FitBits
<1>4. ASSUME NEW x \in BitsUpTo(fs, h)
      PROVE  x \in Nat /\ \A y \in BitsIn(fs[k]) : x < y
  <2>1. PICK j \in 1..h : x \in BitsIn(fs[j])
    BY <1>4, Zenon DEF BitsUpTo
  <2>2. j \in 1..n /\ k \in (j + 1)..Len(fs) /\ j # n /\ k \in 1..n
    BY <1>1
  <2>3. x \in Nat /\ x <= fs[j].maxvalue
    BY <1>2, <1>3, <2>1, <2>2, Zenon DEF InRange
  <2>4. fs[j].maxvalue <= fs[k].startvalue
    BY <1>1, <2>2, ChainOrder, Zenon DEF Ordered
  <2>5. ASSUME NEW y \in BitsIn(fs[k])
        PROVE  x < y
    <3>1. y \in Nat /\ fs[k].startvalue < y
      BY <1>3, <2>2, <2>5, Zenon DEF InRange
    <3>2. fs[k].startvalue \in Nat /\ fs[j].maxvalue \in Nat
      BY <1>2, <2>2
    <3> QED
      BY <2>3, <2>4, <3>1, <3>2
  <2> QED
    BY <2>3, <2>5
<1>5. Above(BitsUpTo(fs, h), BitsIn(fs[k]))
  BY <1>4, Zenon DEF Above
<1>6. BitsUpTo(fs, h) \in SUBSET Nat
  BY <1>4
<1> QED
  BY <1>5, <1>6

(* The bits of one frame more. *)
LEMMA OneMore ==
  ASSUME NEW fs, NEW k \in Nat \ {0}
  PROVE  /\ BitsUpTo(fs, k) = BitsUpTo(fs, k - 1) \cup BitsIn(fs[k])
         /\ IsFiniteSet(Bare(fs, k)) /\ Cardinality(Bare(fs, k)) \in Nat
         /\ Cardinality(Bare(fs, k))
              = IF BitsIn(fs[k]) = {} THEN Cardinality(Bare(fs, k - 1)) + 1 ELSE Cardinality(Bare(fs, k - 1))
<1>1. PICK h \in Nat : h = k - 1 /\ 1..k = (1..h) \cup {k} /\ k \notin 1..h /\ IsFiniteSet(1..h) /\ IsFiniteSet(1..k)
  BY FS_Interval
<1>2. BitsUpTo(fs, k) = BitsUpTo(fs, h) \cup BitsIn(fs[k])
  BY <1>1, Zenon DEF BitsUpTo
<1>3. IsFiniteSet(Bare(fs, h)) /\ IsFiniteSet(Bare(fs, k)) /\ k \notin Bare(fs, h)
  <2>1. Bare(fs, h) \subseteq 1..h /\ Bare(fs, k) \subseteq 1..k
    BY Zenon DEF Bare
  <2> QED
    BY <1>1, <2>1, FS_Subset
<1>4. Cardinality(Bare(fs, h)) \in Nat /\ Cardinality(Bare(fs, k)) \in Nat
  BY <1>3, FS_CardinalityType
<1>5. CASE BitsIn(fs[k]) = {}
  <2>1. Bare(fs, k) = Bare(fs, h) \cup {k}
    BY <1>1, <1>5, Zenon DEF Bare
  <2>2. Cardinality(Bare(fs, h) \cup {k}) = Cardinality(Bare(fs, h)) + 1
    BY <1>3, FS_AddElement
  <2> QED
    BY <1>1, <1>2, <1>3, <1>4, <1>5, <2>1, <2>2, Zenon
<1>6. CASE BitsIn(fs[k]) # {}
  <2>1. Bare(fs, k) = Bare(fs, h)
    BY <1>1, <1>6, Zenon DEF Bare
  <2> QED
    BY <1>1, <1>2, <1>3, <1>4, <1>6, <2>1, Zenon
<1> QED
  BY <1>5, <1>6

(* What the iterator yields of the first frames.                           *)
ReadTo(fs, k, ones, all) ==
  /\ ones = Vector(BitsUpTo(fs, k)) /\ IsFiniteSet(BitsUpTo(fs, k)) /\ ones \in Seq(Nat)
  /\ all \in Seq(ValuesIn(fs)) /\ Len(all) = Len(ones) + Cardinality(Bare(fs, k))

(* An iterator begins with the first frame. *)
LEMMA FirstRead ==
  ASSUME NEW fs, FrameYields(fs[1], ValuesIn(fs))
  PROVE  ReadTo(fs, 1, Walk(BlocksIn(fs[1])), FrameValues(fs[1]))
<1>1. PICK f : f = fs[1]
  OBVIOUS
<1>2. 1 \in Nat \ {0} /\ 1 - 1 = 0 /\ 1..0 = {}
  OBVIOUS
<1>3. BitsUpTo(fs, 0) = {} /\ Bare(fs, 0) = {}
  BY <1>2, Zenon DEF BitsUpTo, Bare
<1>4. BitsUpTo(fs, 1) = BitsIn(f)
  <2>1. BitsUpTo(fs, 1) = {} \cup BitsIn(f)
    BY <1>1, <1>2, <1>3, OneMore, Zenon
  <2> QED
    BY <2>1, Zenon
<1>5. Cardinality(Bare(fs, 1)) = IF BitsIn(f) = {} THEN 0 + 1 ELSE 0
  <2>1. Cardinality({}) = 0
    BY FS_EmptySet
  <2>2. PICK k \in Nat \ {0} : k = 1
    BY <1>2
  <2>3. Cardinality(Bare(fs, k))
          = IF BitsIn(fs[k]) = {} THEN Cardinality(Bare(fs, k - 1)) + 1 ELSE Cardinality(Bare(fs, k - 1))
    BY OneMore
  <2>4. k - 1 = 0
    BY <2>2
  <2> QED
    BY <1>1, <1>3, <2>1, <2>2, <2>3, <2>4, Zenon
<1>6. PICK w \in Seq(Nat) : w = Walk(BlocksIn(f))
  BY <1>1, Zenon DEF FrameYields
<1>7. PICK u : u = FrameValues(f)
  OBVIOUS
<1>8. /\ w = Vector(BitsIn(f)) /\ IsFiniteSet(BitsIn(f)) /\ u \in Seq(ValuesIn(fs))
      /\ Len(u) = IF BitsIn(f) = {} THEN Len(w) + 1 ELSE Len(w)
  BY <1>1, <1>6, <1>7, Zenon DEF FrameYields
<1>9. Len(u) = Len(w) + Cardinality(Bare(fs, 1))
  <2>1. PICK c : c = Cardinality(Bare(fs, 1))
    OBVIOUS
  <2>2. Len(w) \in Nat
    BY LenProperties
  <2>3. CASE BitsIn(f) = {}
    <3>1. c = 1 /\ Len(u) = Len(w) + 1
      BY <1>5, <1>8, <2>1, <2>3
    <3> QED
      BY <2>1, <3>1
  <2>4. CASE BitsIn(f) # {}
    <3>1. c = 0 /\ Len(u) = Len(w)
      BY <1>5, <1>8, <2>1, <2>4
    <3>2. Len(w) + 0 = Len(w)
      BY <2>2
    <3> QED
      BY <2>1, <3>1, <3>2
  <2> QED
    BY <2>3, <2>4
<1> QED
  BY <1>1, <1>4, <1>6, <1>7, <1>8, <1>9, Zenon DEF ReadTo

(* An iterator goes on to the next frame. *)
LEMMA NextReads ==
  ASSUME NEW fs, NEW k \in Nat \ {0}, FrameYields(fs[k], ValuesIn(fs)),
         NEW ones, NEW all, ReadTo(fs, k - 1, ones, all),
         Above(BitsUpTo(fs, k - 1), BitsIn(fs[k])), BitsUpTo(fs, k - 1) \in SUBSET Nat
  PROVE  ReadTo(fs, k, ones \o Walk(BlocksIn(fs[k])), all \o FrameValues(fs[k]))
<1>1. PICK f : f = fs[k]
  OBVIOUS
<1>2. PICK S : S = BitsUpTo(fs, k - 1)
  OBVIOUS
<1>3. PICK T : T = BitsIn(f)
  OBVIOUS
<1>4. BitsUpTo(fs, k) = S \cup T
  BY <1>1, <1>2, <1>3, OneMore, Zenon
<1>5. PICK c : c = Cardinality(Bare(fs, k - 1))
  OBVIOUS
<1>6. PICK c2 \in Nat : c2 = Cardinality(Bare(fs, k))
  BY OneMore
<1>7. c2 = IF T = {} THEN c + 1 ELSE c
  BY <1>1, <1>3, <1>5, <1>6, OneMore, Zenon
<1>8. PICK A : A = ValuesIn(fs)
  OBVIOUS
<1>9. PICK w \in Seq(Nat) : w = Walk(BlocksIn(f))
  BY <1>1, Zenon DEF FrameYields
<1>10. PICK u \in Seq(A) : u = FrameValues(f)
  BY <1>1, <1>8, Zenon DEF FrameYields
<1>11. /\ T \in SUBSET Nat /\ IsFiniteSet(T) /\ w = Vector(T)
       /\ Len(u) = IF T = {} THEN Len(w) + 1 ELSE Len(w)
  BY <1>1, <1>3, <1>8, <1>9, <1>10, Zenon DEF FrameYields
<1>12. PICK o \in Seq(Nat), a \in Seq(A) : o = ones /\ a = all
  BY <1>8, Zenon DEF ReadTo
<1>13. /\ o = Vector(S) /\ IsFiniteSet(S) /\ S \in SUBSET Nat /\ Len(a) = Len(o) + c /\ Above(S, T)
  BY <1>1, <1>2, <1>3, <1>5, <1>12, Zenon DEF ReadTo
<1>14. PICK o2 : o2 = o \o w
  OBVIOUS
<1>15. PICK a2 : a2 = a \o u
  OBVIOUS
<1>16. o2 \in Seq(Nat) /\ Len(o2) = Len(o) + Len(w)
  <2>1. o \o w \in Seq(Nat) /\ Len(o \o w) = Len(o) + Len(w)
    BY ConcatProperties
  <2> QED
    BY <1>14, <2>1, Zenon
<1>17. a2 \in Seq(A) /\ Len(a2) = Len(a) + Len(u)
  <2>1. a \o u \in Seq(A) /\ Len(a \o u) = Len(a) + Len(u)
    BY ConcatProperties
  <2> QED
    BY <1>15, <2>1, Zenon
<1>18. o2 = Vector(S \cup T)
  <2>1. VectorsJoin(S, T)
    BY <1>11, <1>13, VectorConcat
  <2> QED
    BY <1>11, <1>13, <1>14, <2>1, Zenon DEF VectorsJoin
<1>19. IsFiniteSet(S \cup T)
  BY <1>11, <1>13, FS_Union
<1>20. Len(a2) = Len(o2) + c2
  <2>1. PICK lo \in Nat, lw \in Nat : lo = Len(o) /\ lw = Len(w)
    BY LenProperties
  <2>2. PICK la \in Nat, lu \in Nat : la = Len(a) /\ lu = Len(u)
    BY LenProperties
  <2>3. PICK d \in Nat : d = c
    <3>1. IsFiniteSet(Bare(fs, k - 1))
      <4>1. IsFiniteSet(1..(k - 1))
        BY FS_Interval
      <4>2. Bare(fs, k - 1) \subseteq 1..(k - 1)
        BY Zenon DEF Bare
      <4> QED
        BY <4>1, <4>2, FS_Subset
    <3> QED
      BY <1>5, <3>1, FS_CardinalityType
  <2>4. lu = (IF T = {} THEN lw + 1 ELSE lw) /\ c2 = (IF T = {} THEN d + 1 ELSE d) /\ la = lo + d
    BY <1>7, <1>11, <1>13, <2>1, <2>2, <2>3, Zenon
  <2>5. la + lu = (lo + lw) + c2
    BY <2>4
  <2> QED
    BY <1>16, <1>17, <2>1, <2>2, <2>5
<1>21. ReadTo(fs, k, o2, a2)
  BY <1>4, <1>6, <1>8, <1>16, <1>17, <1>18, <1>19, <1>20, Zenon DEF ReadTo
<1> QED
  BY <1>1, <1>9, <1>10, <1>12, <1>14, <1>15, <1>21, Zenon

(* An iterator goes through all frames. *)
LEMMA AllRead ==
  ASSUME NEW fs, Chain(fs), NEW lim, AllFit(fs, lim)
  PROVE  ReadTo(fs, Len(fs), FlattenSeq(WalksOf(fs)), FlattenSeq(YieldsOf(fs)))
<1>1. PICK n \in Nat \ {0} : n = Len(fs) /\ DOMAIN fs = 1..n
  BY ChainTypes
<1>2. PICK A : A = ValuesIn(fs)
  OBVIOUS
<1>3. \A k \in 1..n : FrameYields(fs[k], A)
  <2> TAKE k \in 1..n
  <2>1. fs[k] \in FrameSet
    BY <1>1, ChainTypes
  <2>2. Fit(fs[k], lim)
    BY <1>1, Zenon DEF AllFit, Members
  <2>3. Nat \subseteq A
    BY <1>2, Zenon DEF ValuesIn
  <2>4. Last(BlocksIn(fs[k])).value \in A
    BY <1>1, <1>2, Zenon DEF ValuesIn
  <2> QED
    BY <2>1, <2>2, <2>3, <2>4, FrameReads
<1>4. PICK ws : ws = WalksOf(fs)
  OBVIOUS
<1>5. PICK ys : ys = YieldsOf(fs)
  OBVIOUS
<1>6. ws \in Seq(Seq(Nat)) /\ Len(ws) = n /\ \A k \in 1..n : ws[k] = Walk(BlocksIn(fs[k]))
  <2>1. ws = [k \in 1..n |-> Walk(BlocksIn(fs[k]))]
    BY <1>1, <1>4, Zenon DEF WalksOf
  <2>2. \A k \in 1..n : Walk(BlocksIn(fs[k])) \in Seq(Nat)
    BY <1>3, Zenon DEF FrameYields
  <2>3. ws \in [1..n -> Seq(Nat)] /\ \A k \in 1..n : ws[k] = Walk(BlocksIn(fs[k]))
    BY <2>1, <2>2
  <2> QED
    BY <2>3, IntervalSeq
<1>7. ys \in Seq(Seq(A)) /\ Len(ys) = n /\ \A k \in 1..n : ys[k] = FrameValues(fs[k])
  <2>1. ys = [k \in 1..n |-> FrameValues(fs[k])]
    BY <1>1, <1>5, Zenon DEF YieldsOf
  <2>2. \A k \in 1..n : FrameValues(fs[k]) \in Seq(A)
    BY <1>3, Zenon DEF FrameYields
  <2>3. ys \in [1..n -> Seq(A)] /\ \A k \in 1..n : ys[k] = FrameValues(fs[k])
    BY <2>1, <2>2
  <2> QED
    BY <2>3, IntervalSeq
<1>8. ws # <<>> /\ ys # <<>>
  <2>1. (ws = <<>> <=> Len(ws) = 0) /\ (ys = <<>> <=> Len(ys) = 0)
    BY <1>6, <1>7, EmptySeq
  <2> QED
    BY <1>6, <1>7, <2>1
<1>9. PICK F : F = FlatFun(ws)
  OBVIOUS
<1>10. PICK G : G = FlatFun(ys)
  OBVIOUS
<1>11. /\ FlattenSeq(ws) = F[n] /\ F[1] = ws[1]
       /\ \A i \in 2..n : F[i] = F[i - 1] \o ws[i]
  BY <1>6, <1>8, <1>9, FlattenRecursion
<1>12. /\ FlattenSeq(ys) = G[n] /\ G[1] = ys[1]
       /\ \A i \in 2..n : G[i] = G[i - 1] \o ys[i]
  BY <1>7, <1>8, <1>10, FlattenRecursion
<1>13. PICK bad : bad = {k \in 1..n : ~ReadTo(fs, k, F[k], G[k])}
  OBVIOUS
<1>14. bad = {}
  <2> SUFFICES ASSUME bad # {} PROVE FALSE
    OBVIOUS
  <2>1. bad \in SUBSET Nat
    BY <1>13
  <2>2. PICK k \in bad : \A j \in bad : k <= j
    BY <2>1, NatMin
  <2>3. k \in 1..n /\ ~ReadTo(fs, k, F[k], G[k])
    BY <1>13, <2>2
  <2>4. CASE k = 1
    <3>1. ReadTo(fs, 1, Walk(BlocksIn(fs[1])), FrameValues(fs[1]))
      BY <1>2, <1>3, <2>3, <2>4, FirstRead
    <3>2. F[k] = Walk(BlocksIn(fs[1])) /\ G[k] = FrameValues(fs[1])
      BY <1>6, <1>7, <1>11, <1>12, <2>3, <2>4, Zenon
    <3> QED
      BY <2>3, <2>4, <3>1, <3>2, Zenon
  <2>5. CASE k # 1
    <3>1. k \in 2..n /\ k - 1 \in 1..n /\ ~(k <= k - 1) /\ k \in Nat \ {0} /\ k - 1 \in Nat /\ k - 1 < k
      BY <2>3, <2>5
    <3>2. ReadTo(fs, k - 1, F[k - 1], G[k - 1])
      BY <1>13, <2>2, <3>1
    <3>3. Above(BitsUpTo(fs, k - 1), BitsIn(fs[k])) /\ BitsUpTo(fs, k - 1) \in SUBSET Nat
      BY <1>1, <2>3, <3>1, FramesRise
    <3>4. FrameYields(fs[k], ValuesIn(fs))
      BY <1>2, <1>3, <2>3
    <3>5. PICK o, a : o = F[k - 1] /\ a = G[k - 1]
      OBVIOUS
    <3>6. ReadTo(fs, k - 1, o, a)
      BY <3>2, <3>5
    <3>7. ReadTo(fs, k, o \o Walk(BlocksIn(fs[k])), a \o FrameValues(fs[k]))
      BY <3>1, <3>3, <3>4, <3>6, NextReads
    <3>8. F[k] = o \o Walk(BlocksIn(fs[k])) /\ G[k] = a \o FrameValues(fs[k])
      BY <1>6, <1>7, <1>11, <1>12, <2>3, <3>1, <3>5, Zenon
    <3> QED
      BY <2>3, <3>7, <3>8, Zenon
  <2> QED
    BY <2>4, <2>5
<1>15. n \in 1..n
  OBVIOUS
<1>16. ReadTo(fs, n, F[n], G[n])
  BY <1>13, <1>14, <1>15
<1> QED
  BY <1>1, <1>4, <1>5, <1>11, <1>12, <1>16, Zenon

(* Every string of a sound array is read to its end, and only once.        *)
LEMMA FramesRead ==
  ASSUME FramesInv
  PROVE  ReadsExact
<1>1. SUFFICES ASSUME health = "sound" PROVE ReadsExact
  BY Zenon DEF ReadsExact
<1>2. Chain(frames) /\ Sound2 /\ AllBits(Members(frames)) = asked2
  <2>1. health \in {"sound", "astray"}
    BY <1>1
  <2> QED
    BY <1>1, <2>1, Zenon DEF FramesInv
<1>3. PICK ones : ones = FlattenSeq(WalksOf(frames))
  OBVIOUS
<1>4. PICK all : all = FlattenSeq(YieldsOf(frames))
  OBVIOUS
<1>5. ReadTo(frames, Len(frames), ones, all)
  BY <1>2, <1>3, <1>4, AllRead, Zenon DEF Sound2
<1>6. DOMAIN frames = 1..Len(frames)
  BY <1>2, ChainTypes
<1>7. BitsUpTo(frames, Len(frames)) = Bits /\ Bare(frames, Len(frames)) = {k \in DOMAIN frames : BitsIn(frames[k]) = {}}
  BY <1>6, Zenon DEF BitsUpTo, Bare, Bits
<1>8. Bits = asked2 /\ asked2 \in SUBSET Nat /\ IsFiniteSet(asked2) /\ numitems = Cardinality(asked2)
  BY <1>2, FramesSet, Zenon DEF FramesInv, Sound2
<1>9. /\ ones = Vector(Bits)
      /\ Len(all) = Len(ones) + Cardinality({k \in DOMAIN frames : BitsIn(frames[k]) = {}})
  BY <1>5, <1>7, Zenon DEF ReadTo
<1>10. ToSet(ones) = Bits /\ Len(ones) = Cardinality(Bits) /\ \A n \in 2..Len(ones) : ones[n - 1] < ones[n]
  BY <1>8, <1>9, VectorAsked
<1>11. /\ ones = FlattenSeq([k \in DOMAIN frames |-> Walk(BlocksIn(frames[k]))])
       /\ all = Values
  BY <1>3, <1>4, Zenon DEF WalksOf, YieldsOf, Values
<1>12. /\ numitems = Cardinality(Bits)
       /\ Len(Values) = numitems + Cardinality({k \in DOMAIN frames : BitsIn(frames[k]) = {}})
  BY <1>8, <1>9, <1>10, <1>11, Zenon
<1> QED
  BY <1>10, <1>11, <1>12, Zenon DEF ReadsExact

(* What the invariant says of both versions.                               *)
LEMMA VersionsHold ==
  ASSUME VersionsInv
  PROVE  BothTypesOK /\ BothCanonical /\ FramesPartition /\ BothReadExact /\ BitsAsAsked /\ VersionsAgree
<1>1. FirstInv /\ FramesInv
  BY Zenon DEF VersionsInv
<1>2. /\ First!TypeOK /\ First!Canonical /\ First!ReadsExact /\ asked1 \subseteq Nat
      /\ ~garbled => First!Bits = asked1 /\ count = Cardinality(asked1)
  BY <1>1, FirstHolds
<1>3. TypeOK /\ Canonical /\ FramesPartition /\ ReadsExact
  BY <1>1, FramesType, FramesCanonical, FramesParted, FramesRead
<1>4. asked2 \subseteq Nat /\ (health \in {"sound", "astray"} => Bits = asked2)
  BY <1>1, FramesSet, Zenon DEF FramesInv
<1>5. VersionsAgree
  <2> SUFFICES ASSUME ~parted PROVE Bits = First!Bits /\ numitems = count
    BY Zenon DEF VersionsAgree
  <2>1. health = "sound" /\ ~garbled /\ asked1 = asked2
    BY Zenon DEF VersionsInv
  <2>2. Sound2
    BY <1>1, <2>1, Zenon DEF FramesInv
  <2>3. Bits = asked2
    BY <1>4, <2>1
  <2> QED
    BY <1>2, <2>1, <2>2, <2>3, Zenon DEF Sound2
<1> QED
  BY <1>2, <1>3, <1>4, <1>5, Zenon DEF BothTypesOK, BothCanonical, BothReadExact, BitsAsAsked

(* Inductive invariant: each version holds a canonical string, or chain of *)
(* canonical strings, of what was asked for.                               *)
THEOREM VersionsInvariant == VersionsSpec => []VersionsInv
<1>1. VersionsInit => VersionsInv
  BY VersionsInvInit
<1>2. VersionsInv /\ [VersionsNext]_allvars => VersionsInv'
  <2>1. ASSUME VersionsInv, VersionsNext PROVE VersionsInv'
    BY <2>1, VersionsInvStep
  <2>2. ASSUME VersionsInv, UNCHANGED allvars PROVE VersionsInv'
    BY <2>2, VersionsInvStutter
  <2> QED
    BY <2>1, <2>2
<1> QED
  BY <1>1, <1>2, PTL DEF VersionsSpec

(* No order of calls takes a count below 0 or leaves anything but bytes.   *)
THEOREM VersionsTypesOK == VersionsSpec => []BothTypesOK
BY VersionsInvariant, VersionsHold, PTL

(* Every string that either version keeps is coded canonically, as long as *)
(* no trade has garbled it.                                                *)
THEOREM VersionsStayCanonical == VersionsSpec => []BothCanonical
BY VersionsInvariant, VersionsHold, PTL

(* The frames cover all positions in order, and those of a sound array     *)
(* hold bits of their own range only.                                      *)
THEOREM FramesPartitionPositions == VersionsSpec => []FramesPartition
BY VersionsInvariant, VersionsHold, PTL

(* size() is the number of 1s, and an iterator meets each 1 once and in    *)
(* order.                                                                  *)
THEOREM VersionsReadExactly == VersionsSpec => []BothReadExact
BY VersionsInvariant, VersionsHold, PTL

(* Each version holds exactly the positions the calls asked for, but for   *)
(* the three defects that the history follows.                             *)
THEOREM VersionsHoldWhatWasAsked == VersionsSpec => []BitsAsAsked
BY VersionsInvariant, VersionsHold, PTL

(* Framing is invisible: until one of the defects has told them apart, the *)
(* versions agree on every bit and on size().                              *)
THEOREM VersionsAgreeUnlessParted == VersionsSpec => []VersionsAgree
BY VersionsInvariant, VersionsHold, PTL

=============================================================================
