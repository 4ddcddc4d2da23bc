------------------------ MODULE UserSetCombineProofs -------------------------
(***************************************************************************)
(* Proofs for UserSetCombine, for any set of slots, any number of sets and *)
(* any skip: the result fits its room, an intersection misses nothing, and *)
(* the merge of all the sets agrees with merging them one by one.          *)
(***************************************************************************)
EXTENDS UserSetCombine, VectorProofs

(* What combine is given: at least two sorted vectors of slots.            *)
Given ==
  /\ intersect \in BOOLEAN
  /\ lists \in Seq(Seq(Values)) /\ numlists >= 2
  /\ \A n \in DOMAIN lists : Ascending(lists[n])

(* The lists and what is in them. *)
LEMMA GivenLists ==
  ASSUME Given
  PROVE  /\ numlists \in Nat /\ DOMAIN lists = 1..numlists
         /\ \A n \in DOMAIN lists :
              /\ lists[n] \in Seq(Values) /\ lists[n] \in Seq(Nat)
              /\ Len(lists[n]) \in Nat /\ DOMAIN lists[n] = 1..Len(lists[n])
              /\ \A p \in 1..Len(lists[n]) : lists[n][p] \in Values /\ lists[n][p] \in Nat
              /\ ToSet(lists[n]) = {lists[n][p] : p \in 1..Len(lists[n])}
              /\ ToSet(lists[n]) \subseteq Values
<1>1. numlists \in Nat /\ DOMAIN lists = 1..numlists
  BY LenProperties DEF Given, numlists
<1>2. ASSUME NEW n \in DOMAIN lists
      PROVE  /\ lists[n] \in Seq(Values) /\ lists[n] \in Seq(Nat)
             /\ Len(lists[n]) \in Nat /\ DOMAIN lists[n] = 1..Len(lists[n])
             /\ \A p \in 1..Len(lists[n]) : lists[n][p] \in Values /\ lists[n][p] \in Nat
             /\ ToSet(lists[n]) = {lists[n][p] : p \in 1..Len(lists[n])}
             /\ ToSet(lists[n]) \subseteq Values
  <2>1. lists[n] \in Seq(Values)
    BY <1>1, <1>2, ElementOfSeq DEF Given, numlists
  <2>2. Len(lists[n]) \in Nat /\ DOMAIN lists[n] = 1..Len(lists[n])
    BY <2>1, LenProperties
  <2>3. \A p \in 1..Len(lists[n]) : lists[n][p] \in Values /\ lists[n][p] \in Nat
    BY <2>1, ElementOfSeq, CombineAssumption
  <2>4. lists[n] \in Seq(Nat)
    BY <2>1, SeqMonotonic, CombineAssumption
  <2>5. ToSet(lists[n]) = {lists[n][p] : p \in 1..Len(lists[n])}
    BY <2>2 DEF ToSet
  <2>6. ToSet(lists[n]) \subseteq Values
    BY <2>3, <2>5
  <2> QED
    BY <2>1, <2>2, <2>3, <2>4, <2>5, <2>6
<1> QED
  BY <1>1, <1>2

-----------------------------------------------------------------------------
(* The two inner loops come to rest at the first value not below cur.      *)
ComesToRest(list, from, p) ==
  /\ p \in from..(Len(list) + 1)
  /\ \A q \in from..(p - 1) : list[q] < cur
  /\ p <= Len(list) => list[p] >= cur

(* The leaps alone pass over nothing that is not below cur, ... *)
LEMMA LeapsAhead ==
  ASSUME NEW list \in Seq(Nat), Ascending(list), cur \in Nat, NEW from \in 1..(Len(list) + 1)
  PROVE  /\ SkipAhead(list, from) \in from..(Len(list) + 1)
         /\ \A q \in from..(SkipAhead(list, from) - 1) : list[q] < cur
<1> DEFINE n == Len(list) + 1
           Leap(p) == p + skip <= Len(list) /\ list[p + skip] < cur
           F(leap) == [p \in 1..n |-> IF Leap(p) THEN leap[p + skip + 1] ELSE p]
           leap0 == CHOOSE leap : leap = F(leap)
           to == [p \in 1..n |-> IF Leap(p) THEN p + skip + 1 ELSE p]
           Past == {q \in Nat : list[q] < cur}
<1>1. Len(list) \in Nat /\ n \in Nat /\ DOMAIN list = 1..Len(list) /\ skip \in Nat
      /\ \A p \in 1..Len(list) : list[p] \in Nat
  BY LenProperties, ElementOfSeq, CombineAssumption
<1>2. \A p \in 1..n : Leap(p) => p + skip + 1 \in 1..n
  BY <1>1
<1>3. to \in [1..n -> 1..n] /\ NeverBack(to, n)
  <2>1. ASSUME NEW p \in 1..n
        PROVE  to[p] \in 1..n /\ p <= to[p]
    BY <1>1, <1>2
  <2> QED
    BY <2>1 DEF NeverBack
<1>4. \A p \in 1..n : to[p] = (IF Leap(p) THEN p + skip + 1 ELSE p) /\ (Leap(p) <=> to[p] # p)
  BY <1>1
<1>5. Leaps(to, n, Past)
  <2>1. ASSUME NEW p \in 1..n, NEW q \in p..(to[p] - 1)
        PROVE  q \in Past
    <3>1. Leap(p) /\ q \in p..(p + skip)
      BY <1>1, <1>4
    <3>2. q \in 1..Len(list) /\ p + skip \in 1..Len(list) /\ q <= p + skip
      BY <1>1, <3>1
    <3>3. list[q] <= list[p + skip]
      <4>1. PICK x \in 1..Len(list) : x = p + skip /\ (q < x \/ q = x)
        BY <1>1, <3>2
      <4>2. q \in DOMAIN list /\ x \in DOMAIN list
        BY <1>1, <3>2
      <4>3. q < x => list[q] < list[x]
        BY <4>2 DEF Ascending
      <4>4. list[q] \in Nat /\ list[x] \in Nat
        BY <1>1, <3>2
      <4>5. list[q] <= list[x]
        BY <4>1, <4>3, <4>4
      <4> QED
        BY <4>1, <4>5
    <3> QED
      BY <1>1, <3>1, <3>2, <3>3
  <2> QED
    BY <2>1 DEF Leaps
<1>6. PICK g \in [1..n -> 1..n] : Ends(g, n, to)
  <2> HIDE DEF to, n
  <2> QED
    BY <1>1, <1>3, WalkEnds
<1>7. g = F(g)
  <2>1. ASSUME NEW p \in 1..n
        PROVE  g[p] = F(g)[p]
    <3>1. g[p] = IF to[p] = p THEN p ELSE g[to[p]]
      BY <1>6 DEF Ends
    <3>2. g[p] = IF Leap(p) THEN g[p + skip + 1] ELSE p
      <4> HIDE DEF Leap, to
      <4> QED
        BY <1>4, <3>1
    <3> QED
      BY <3>2
  <2> HIDE DEF F
  <2>2. g = [p \in 1..n |-> g[p]]
    BY <1>6
  <2>3. F(g) = [p \in 1..n |-> F(g)[p]]
    BY DEF F
  <2> QED
    BY <2>1, <2>2, <2>3
<1>8. leap0 = F(leap0)
  <2> HIDE DEF F
  <2> QED
    BY <1>7
<1>9. Ends(leap0, n, to)
  <2>1. ASSUME NEW p \in 1..n
        PROVE  leap0[p] = IF to[p] = p THEN p ELSE leap0[to[p]]
    <3>1. leap0[p] = F(leap0)[p]
      <4> HIDE DEF F, leap0
      <4> QED
        BY <1>8
    <3> HIDE DEF leap0
    <3>2. leap0[p] = IF Leap(p) THEN leap0[p + skip + 1] ELSE p
      BY <3>1
    <3> HIDE DEF Leap, to
    <3> QED
      BY <1>4, <3>2
  <2> HIDE DEF leap0, to
  <2> QED
    BY <2>1 DEF Ends
<1>10. Rests(leap0, from, n, to, Past)
  <2>1. from \in 1..n
    OBVIOUS
  <2> HIDE DEF leap0, to, n, Past
  <2> QED
    BY <1>1, <1>3, <1>5, <1>9, <2>1, WalkPasses
<1>11. SkipAhead(list, from) = leap0[from]
  BY Zenon DEF SkipAhead
<1> HIDE DEF leap0
<1> QED
  BY <1>10, <1>11 DEF Rests

(* ... and the single steps go on to the first value that is not. *)
LEMMA StepsAhead ==
  ASSUME NEW list \in Seq(Nat), Ascending(list), cur \in Nat, NEW from \in 1..(Len(list) + 1)
  PROVE  ComesToRest(list, from, FindIn(list, from))
<1> DEFINE n == Len(list) + 1
           Low(p) == p <= Len(list) /\ list[p] < cur
           F(walk) == [p \in 1..n |-> IF Low(p) THEN walk[p + 1] ELSE p]
           walk0 == CHOOSE walk : walk = F(walk)
           to == [p \in 1..n |-> IF Low(p) THEN p + 1 ELSE p]
           start == SkipAhead(list, from)
           Past == {q \in Nat : list[q] < cur}
<1>0. start \in from..n /\ \A q \in from..(start - 1) : list[q] < cur
  BY LeapsAhead
<1>1. Len(list) \in Nat /\ n \in Nat /\ DOMAIN list = 1..Len(list) /\ skip \in Nat
      /\ \A p \in 1..Len(list) : list[p] \in Nat
  BY LenProperties, ElementOfSeq, CombineAssumption
<1>2. \A p \in 1..n : Low(p) => p + 1 \in 1..n
  BY <1>1
<1>3. to \in [1..n -> 1..n] /\ NeverBack(to, n)
  <2>1. ASSUME NEW p \in 1..n
        PROVE  to[p] \in 1..n /\ p <= to[p]
    BY <1>1, <1>2
  <2> QED
    BY <2>1 DEF NeverBack
<1>4. \A p \in 1..n : to[p] = (IF Low(p) THEN p + 1 ELSE p) /\ (Low(p) <=> to[p] # p)
  BY <1>1
<1>5. Leaps(to, n, Past)
  <2>1. ASSUME NEW p \in 1..n, NEW q \in p..(to[p] - 1)
        PROVE  q \in Past
    BY <1>1, <1>4
  <2> QED
    BY <2>1 DEF Leaps
<1>6. PICK g \in [1..n -> 1..n] : Ends(g, n, to)
  <2> HIDE DEF to, n
  <2> QED
    BY <1>1, <1>3, WalkEnds
<1>7. g = F(g)
  <2>1. ASSUME NEW p \in 1..n
        PROVE  g[p] = F(g)[p]
    <3>1. g[p] = IF to[p] = p THEN p ELSE g[to[p]]
      BY <1>6 DEF Ends
    <3>2. g[p] = IF Low(p) THEN g[p + 1] ELSE p
      <4> HIDE DEF Low, to
      <4> QED
        BY <1>4, <3>1
    <3> QED
      BY <3>2
  <2> HIDE DEF F
  <2>2. g = [p \in 1..n |-> g[p]]
    BY <1>6
  <2>3. F(g) = [p \in 1..n |-> F(g)[p]]
    BY DEF F
  <2> QED
    BY <2>1, <2>2, <2>3
<1>8. walk0 = F(walk0)
  <2> HIDE DEF F
  <2> QED
    BY <1>7
<1>9. Ends(walk0, n, to)
  <2>1. ASSUME NEW p \in 1..n
        PROVE  walk0[p] = IF to[p] = p THEN p ELSE walk0[to[p]]
    <3>1. walk0[p] = F(walk0)[p]
      <4> HIDE DEF F, walk0
      <4> QED
        BY <1>8
    <3> HIDE DEF walk0
    <3>2. walk0[p] = IF Low(p) THEN walk0[p + 1] ELSE p
      BY <3>1
    <3> HIDE DEF Low, to
    <3> QED
      BY <1>4, <3>2
  <2> HIDE DEF walk0, to
  <2> QED
    BY <2>1 DEF Ends
<1>10. Rests(walk0, start, n, to, Past)
  <2>1. start \in 1..n
    BY <1>1, <1>0
  <2> HIDE DEF walk0, to, n, Past, start
  <2> QED
    BY <1>1, <1>3, <1>5, <1>9, <2>1, WalkPasses
<1>11. FindIn(list, from) = walk0[start]
  BY Zenon DEF FindIn
<1> HIDE DEF walk0, start, n
<1>12. PICK y \in start..n : /\ y = walk0[start] /\ to[y] = y
                            /\ \A q \in start..(y - 1) : q \in Past
  BY <1>10 DEF Rests
<1>13. y \in from..n /\ n \in Nat /\ ~Low(y)
  <2>1. n \in Nat
    BY <1>1
  <2>2. y \in 1..n
    BY <1>0, <1>12, <2>1
  <2>3. y \in from..n
    BY <1>0, <1>12, <2>1
  <2>4. ~Low(y)
    <3> HIDE DEF Low, to
    <3> QED
      BY <1>4, <1>12, <2>2
  <2> QED
    BY <2>1, <2>3, <2>4
<1>14. \A q \in from..(y - 1) : q \in from..(start - 1) \/ q \in start..(y - 1)
  BY <1>0, <1>12, <1>13
<1>15. \A q \in from..(y - 1) : list[q] < cur
  BY <1>0, <1>12, <1>14
<1>16. y <= Len(list) => list[y] >= cur
  BY <1>1, <1>13 DEF n
<1> QED
  BY <1>11, <1>12, <1>13, <1>15, <1>16 DEF ComesToRest, n

-----------------------------------------------------------------------------
(* How many turns ago list m was last looked at. *)
Behind(m) == IF m < it THEN it - m ELSE it + numlists - m

(* Types, and that the iterators and the result are in order.              *)
Merging == Given /\ TypeOK /\ its \in [DOMAIN lists -> Nat] /\ Ascending(newlist)

(* In the loop of an intersection every list before its iterator is below  *)
(* cur, the lists looked at last are at cur, and the result is what is     *)
(* common and below cur.                                                   *)
Passed == \A n \in DOMAIN lists : \A p \in 1..(its[n] - 1) : lists[n][p] < cur
FoundRunning == \A m \in DOMAIN lists : Behind(m) <= found => ~AtEnd(m) /\ Here(m) = cur
NewlistIs(b) == \A x : x \in ToSet(newlist) <=> x \in Common /\ x < b

Intersecting ==
  intersect =>
    /\ pc = "loop" => found < numlists /\ Passed /\ FoundRunning /\ NewlistIs(cur)
    /\ pc # "early" => \A n \in DOMAIN lists : lists[n] # <<>>
    /\ pc = "done" => ToSet(newlist) = Common

(* In a union the result is what the iterators have passed, all of it      *)
(* below what is ahead of them.                                            *)
Consumed == {x \in Values : \E n \in DOMAIN lists : \E p \in 1..(its[n] - 1) : lists[n][p] = x}
AllAhead ==
  \A n \in DOMAIN lists : \A p \in its[n]..Len(lists[n]) :
    \A y \in ToSet(newlist) : y < lists[n][p]

Uniting ==
  ~intersect /\ pc # "early" =>
    /\ ToSet(newlist) = Consumed
    /\ AllAhead
    /\ pc = "loop" <=> \E n \in DOMAIN lists : ~AtEnd(n)

MInv == Merging /\ Intersecting /\ Uniting /\ (pc = "early" => newlist = <<>>)

-----------------------------------------------------------------------------
(* Room is made for something iff there is something to merge.             *)
LEMMA MinSize ==
  ASSUME Given
  PROVE  /\ minsize \in Nat
         /\ \E n \in DOMAIN lists : minsize = Len(lists[n])
         /\ \A n \in DOMAIN lists : minsize <= Len(lists[n])
<1>1. 1 \in DOMAIN lists
  BY GivenLists DEF Given
<1>2. Sizes \in SUBSET Nat /\ Sizes # {}
  BY <1>1, GivenLists DEF Sizes
<1>3. \E m \in Sizes : \A k \in Sizes : m <= k
  BY <1>2, NatMin
<1>4. minsize \in Sizes /\ \A k \in Sizes : minsize <= k
  BY <1>3 DEF minsize
<1>5. PICK n \in DOMAIN lists : minsize = Len(lists[n])
  BY <1>4 DEF Sizes
<1>6. \A m \in DOMAIN lists : minsize <= Len(lists[m])
  BY <1>4 DEF Sizes
<1> QED
  BY <1>2, <1>4, <1>5, <1>6

(* totalsize by its turns. *)
TotalByTurns(h) ==
  /\ h[0] = 0 /\ h[numlists] = totalsize
  /\ \A k \in 1..numlists : h[k] = h[k - 1] + Len(lists[k])

(* The fold of totalsize has a value after each list. *)
LEMMA TotalRecursion ==
  ASSUME Given
  PROVE  \E h \in [0..numlists -> Nat] : TotalByTurns(h)
<1> DEFINE n == numlists
           Dom == SUBSET (1..n)
           F(iter) == [ss \in Dom |->
                         IF ss = {} THEN 0
                         ELSE LET x == Max(ss) IN iter[ss \ {x}] + Len(lists[x])]
           step == [p \in Nat \X (1..n) |-> p[1] + Len(lists[p[2]])]
           iter0 == CHOOSE iter : iter = F(iter)
           h == [k \in 0..n |-> iter0[1..k]]
<1>1. n \in Nat /\ DOMAIN lists = 1..n /\ \A k \in 1..n : Len(lists[k]) \in Nat
  BY GivenLists
<1>2. totalsize = iter0[1..n]
  <2>1. totalsize = iter0[DOMAIN lists]
    BY <1>1, Zenon DEF totalsize, FoldLeft, MapThenFoldSet
  <2> QED
    BY <1>1, <2>1
<1>3. step \in [Nat \X (1..n) -> Nat]
  BY <1>1
<1>5. PICK g \in [Dom -> Nat] : TakesMax(g, n, 0, step)
  <2> HIDE DEF step
  <2> QED
    BY <1>1, <1>3, SubsetRecursion
<1>6. \A ss \in Dom : ss # {} => Max(ss) \in 1..n /\ ss \ {Max(ss)} \in Dom
  BY <1>1, IntervalMax
<1>7. g = F(g)
  <2>1. ASSUME NEW ss \in Dom
        PROVE  g[ss] = F(g)[ss]
    <3>1. CASE ss = {}
      BY <1>5, <3>1 DEF TakesMax
    <3>2. CASE ss # {}
      <4>1. g[ss] = step[<<g[ss \ {Max(ss)}], Max(ss)>>]
        <5> HIDE DEF step
        <5> QED
          BY <1>5, <3>2 DEF TakesMax
      <4>2. <<g[ss \ {Max(ss)}], Max(ss)>> \in Nat \X (1..n)
        BY <1>6, <3>2
      <4>3. g[ss] = g[ss \ {Max(ss)}] + Len(lists[Max(ss)])
        BY <4>1, <4>2, Zenon
      <4> QED
        BY <3>2, <4>3
    <3> QED
      BY <3>1, <3>2
  <2>2. g = [ss \in Dom |-> g[ss]]
    BY <1>5
  <2>3. F(g) = [ss \in Dom |-> F(g)[ss]]
    OBVIOUS
  <2> HIDE DEF F
  <2> QED
    BY <2>1, <2>2, <2>3
<1>8. iter0 = F(iter0)
  <2> HIDE DEF F
  <2> QED
    BY <1>7
<1>9. /\ iter0[{}] = 0
      /\ \A k \in 1..n : iter0[1..k] = iter0[1..(k - 1)] + Len(lists[k])
  <2>1. {} \in Dom
    OBVIOUS
  <2>2. iter0[{}] = F(iter0)[{}]
    <3> HIDE DEF F, iter0
    <3> QED
      BY <1>8
  <2>3. iter0[{}] = 0
    <3> HIDE DEF iter0
    <3> QED
      BY <2>1, <2>2
  <2>4. ASSUME NEW k \in 1..n
        PROVE  iter0[1..k] = iter0[1..(k - 1)] + Len(lists[k])
    <3>1. 1..k \in Dom /\ 1..k # {} /\ Max(1..k) = k /\ (1..k) \ {k} = 1..(k - 1)
      <4>1. k \in 0..n
        BY <1>1
      <4> QED
        BY <1>1, <4>1, PrefixIntervals
    <3>2. iter0[1..k] = F(iter0)[1..k]
      <4> HIDE DEF F, iter0
      <4> QED
        BY <1>8
    <3> HIDE DEF iter0
    <3> QED
      BY <3>1, <3>2
  <2> QED
    BY <2>3, <2>4
<1>10. 1..0 = {}
  BY PrefixIntervals
<1> HIDE DEF iter0
<1>11. /\ h[0] = 0 /\ h[n] = totalsize
       /\ \A k \in 1..n : h[k] = h[k - 1] + Len(lists[k])
  <2>1. 0 \in 0..n /\ n \in 0..n /\ \A k \in 1..n : k \in 0..n /\ k - 1 \in 0..n
    BY <1>1
  <2> QED
    BY <1>2, <1>9, <1>10, <2>1
<1>12. \A k \in 0..n : h[k] \in Nat
  <2> DEFINE T == {k \in 0..n : h[k] \in Nat}
  <2>1. 0 \in T
    <3>1. 0 \in 0..n
      BY <1>1
    <3> HIDE DEF h
    <3> QED
      BY <1>11, <3>1
  <2>2. ASSUME NEW k \in 0..(n - 1), k \in T
        PROVE  k + 1 \in T
    <3>1. k + 1 \in 1..n /\ (k + 1) - 1 = k /\ k + 1 \in 0..n
      BY <1>1
    <3>2. h[k + 1] = h[k] + Len(lists[k + 1])
      <4> HIDE DEF h
      <4> QED
        BY <1>11, <3>1
    <3>3. Len(lists[k + 1]) \in Nat /\ h[k] \in Nat
      BY <1>1, <2>2, <3>1
    <3> HIDE DEF h
    <3> QED
      BY <3>1, <3>2, <3>3
  <2> HIDE DEF T
  <2>3. \A k \in 0..n : k \in T
    BY <1>1, <2>1, <2>2, IntervalInduction
  <2> QED
    BY <2>3 DEF T
<1>13. h \in [0..n -> Nat]
  BY <1>12
<1> HIDE DEF h
<1> QED
  BY <1>11, <1>13 DEF TotalByTurns

(* There is room for every element of a list, and none if all are empty.   *)
AllOf == {x \in Values : \E n \in DOMAIN lists : x \in ToSet(lists[n])}

(* The sum of the sizes bounds what any union of the lists can hold.       *)
LEMMA TotalSize ==
  ASSUME Given
  PROVE  /\ totalsize \in Nat
         /\ totalsize # 0 => \E n \in DOMAIN lists : lists[n] # <<>>
         /\ \A S : S \subseteq AllOf => IsFiniteSet(S) /\ Cardinality(S) <= totalsize
<1>1. PICK h \in [0..numlists -> Nat] : TotalByTurns(h)
  BY TotalRecursion
<1>2. /\ h[0] = 0 /\ h[numlists] = totalsize
      /\ \A k \in 1..numlists : h[k] = h[k - 1] + Len(lists[k])
  BY <1>1 DEF TotalByTurns
<1>3. numlists \in Nat /\ DOMAIN lists = 1..numlists
  BY GivenLists
<1>4. totalsize \in Nat
  BY <1>2, <1>3
<1> DEFINE Upto(k) == {x \in Values : \E j \in 1..k : x \in ToSet(lists[j])}
           T == {k \in 0..numlists : IsFiniteSet(Upto(k)) /\ Cardinality(Upto(k)) <= h[k]}
<1>5. ASSUME NEW k \in 1..numlists
      PROVE  /\ IsFiniteSet(ToSet(lists[k])) /\ Cardinality(ToSet(lists[k])) = Len(lists[k])
             /\ ToSet(lists[k]) \subseteq Values /\ Len(lists[k]) \in Nat
  <2>1. lists[k] \in Seq(Nat) /\ Ascending(lists[k])
    BY <1>3, GivenLists DEF Given
  <2>2. IsFiniteSet(ToSet(lists[k])) /\ Cardinality(ToSet(lists[k])) = Len(lists[k])
    BY <2>1, VectorUnique
  <2>3. ToSet(lists[k]) \subseteq Values /\ Len(lists[k]) \in Nat
    BY <1>3, GivenLists
  <2> QED
    BY <2>2, <2>3
<1>6. 0 \in T
  <2>1. Upto(0) = {} /\ 0 \in 0..numlists
    BY <1>3
  <2>2. IsFiniteSet({}) /\ Cardinality({}) = 0
    BY FS_EmptySet
  <2> HIDE DEF Upto
  <2> QED
    BY <1>2, <2>1, <2>2
<1>7. ASSUME NEW k \in 0..(numlists - 1), k \in T
      PROVE  k + 1 \in T
  <2>1. k + 1 \in 1..numlists /\ k + 1 \in 0..numlists /\ (k + 1) - 1 = k /\ k \in 0..numlists
    BY <1>3
  <2> DEFINE R == ToSet(lists[k + 1])
  <2>2. Upto(k + 1) = Upto(k) \cup R
    <3>1. \A j : j \in 1..(k + 1) <=> j \in 1..k \/ j = k + 1
      BY <2>1
    <3>2. R \subseteq Values
      BY <1>5, <2>1
    <3> QED
      BY <3>1, <3>2
  <2> HIDE DEF Upto, R
  <2>3. IsFiniteSet(Upto(k)) /\ Cardinality(Upto(k)) <= h[k]
    BY <1>7
  <2>4. IsFiniteSet(R) /\ Cardinality(R) = Len(lists[k + 1]) /\ Len(lists[k + 1]) \in Nat
    BY <1>5, <2>1 DEF R
  <2>5. /\ IsFiniteSet(Upto(k) \cup R)
        /\ Cardinality(Upto(k) \cup R) = Cardinality(Upto(k)) + Cardinality(R) - Cardinality(Upto(k) \cap R)
    BY <2>3, <2>4, FS_Union
  <2>6. IsFiniteSet(Upto(k) \cap R)
    BY <2>3, FS_Intersection
  <2>7. Cardinality(Upto(k) \cap R) \in Nat /\ Cardinality(Upto(k)) \in Nat
    BY <2>3, <2>6, FS_CardinalityType
  <2>8. h[k + 1] = h[k] + Len(lists[k + 1]) /\ h[k] \in Nat
    BY <1>2, <2>1
  <2>9. Cardinality(Upto(k + 1)) <= h[k + 1]
    <3>1. PICK c \in Nat, d \in Nat, e \in Nat :
            c = Cardinality(Upto(k)) /\ d = Cardinality(Upto(k) \cap R) /\ e = Len(lists[k + 1])
      BY <2>4, <2>7
    <3>2. Cardinality(Upto(k + 1)) = c + e - d
      BY <2>2, <2>4, <2>5, <3>1, Zenon
    <3>3. h[k + 1] = h[k] + e /\ c <= h[k]
      BY <2>3, <2>8, <3>1
    <3> HIDE DEF T
    <3> QED
      BY <2>8, <3>2, <3>3
  <2> QED
    BY <2>1, <2>2, <2>5, <2>9
<1>8. numlists \in T
  <2> HIDE DEF T
  <2>1. numlists \in 0..numlists
    BY <1>3
  <2> QED
    BY <1>3, <1>6, <1>7, <2>1, IntervalInduction
<1>9. ASSUME NEW S, S \subseteq AllOf
      PROVE  IsFiniteSet(S) /\ Cardinality(S) <= totalsize
  <2>1. S \subseteq Upto(numlists)
    BY <1>3, <1>9 DEF AllOf
  <2>2. IsFiniteSet(Upto(numlists)) /\ Cardinality(Upto(numlists)) <= totalsize
    BY <1>2, <1>8
  <2> HIDE DEF Upto
  <2>3. IsFiniteSet(S) /\ Cardinality(S) <= Cardinality(Upto(numlists))
    BY <2>1, <2>2, FS_Subset
  <2>4. Cardinality(S) \in Nat /\ Cardinality(Upto(numlists)) \in Nat
    BY <2>2, <2>3, FS_CardinalityType
  <2> QED
    BY <1>4, <2>2, <2>3, <2>4
<1>10. ASSUME \A n \in DOMAIN lists : lists[n] = <<>>
       PROVE  totalsize = 0
  <2> DEFINE Z == {k \in 0..numlists : h[k] = 0}
  <2>1. 0 \in Z
    BY <1>2, <1>3
  <2>2. ASSUME NEW k \in 0..(numlists - 1), k \in Z
        PROVE  k + 1 \in Z
    <3>1. k + 1 \in 1..numlists /\ k + 1 \in 0..numlists /\ (k + 1) - 1 = k
      BY <1>3
    <3>2. Len(lists[k + 1]) = 0
      BY <1>3, <1>10, <3>1, EmptySeq
    <3> QED
      BY <1>2, <2>2, <3>1, <3>2
  <2> HIDE DEF Z
  <2>3. numlists \in Z
    <3>1. numlists \in 0..numlists
      BY <1>3
    <3> QED
      BY <1>3, <2>1, <2>2, <3>1, IntervalInduction
  <2> QED
    BY <1>2, <2>3 DEF Z
<1> QED
  BY <1>4, <1>9, <1>10

(* Past the early return, no set of an intersection is empty, and some set *)
(* of a union is not.                                                      *)
LEMMA RoomForAll ==
  ASSUME Given
  PROVE  /\ room \in Nat
         /\ room # 0 /\ intersect => \A n \in DOMAIN lists : lists[n] # <<>>
         /\ room # 0 /\ ~intersect => \E n \in DOMAIN lists : lists[n] # <<>>
<1>1. room \in Nat
  BY MinSize, TotalSize DEF room
<1>2. ASSUME room # 0, intersect, NEW n \in DOMAIN lists
      PROVE  lists[n] # <<>>
  <2>1. minsize # 0 /\ minsize \in Nat /\ minsize <= Len(lists[n]) /\ Len(lists[n]) \in Nat
    BY <1>2, MinSize, GivenLists DEF room
  <2>2. Len(<<>>) = 0
    BY EmptySeq
  <2>3. Len(lists[n]) # 0
    BY <2>1
  <2> QED
    BY <2>2, <2>3
<1>3. room # 0 /\ ~intersect => \E n \in DOMAIN lists : lists[n] # <<>>
  BY TotalSize DEF room
<1> QED
  BY <1>1, <1>2, <1>3

-----------------------------------------------------------------------------
(* The invariant holds at first, ... *)
LEMMA MInvInit ==
  ASSUME Init
  PROVE  MInv
<1> USE DEF Init
<1>1. PICK n \in 2..MaxLists : \E sets \in [1..n -> SUBSET Values] :
        lists = [m \in 1..n |-> Vector(sets[m])]
  OBVIOUS
<1>2. PICK sets \in [1..n -> SUBSET Values] : lists = [m \in 1..n |-> Vector(sets[m])]
  BY <1>1
<1>3. ASSUME NEW m \in 1..n
      PROVE  Vector(sets[m]) \in Seq(Values) /\ Ascending(Vector(sets[m]))
  <2>1. sets[m] \subseteq Values /\ sets[m] \in SUBSET Nat /\ IsFiniteSet(sets[m])
    BY FS_Subset, CombineAssumption
  <2>2. Vector(sets[m]) \in Seq(sets[m]) /\ Ascending(Vector(sets[m]))
    BY <2>1, VectorProperties
  <2> QED
    BY <2>1, <2>2, SeqMonotonic
<1>4. n \in Nat /\ n >= 2
  BY CombineAssumption
<1>5. lists \in Seq(Seq(Values)) /\ numlists = n /\ DOMAIN lists = 1..n
  <2> DEFINE vs == [m \in 1..n |-> Vector(sets[m])]
  <2>1. vs \in Seq(Seq(Values))
    BY <1>3, <1>4, SeqDef
  <2>2. DOMAIN lists = 1..n
    BY <1>2
  <2>3. lists \in Seq(Seq(Values))
    BY <1>2, <2>1
  <2>4. Len(lists) = n
    <3>1. Len(lists) \in Nat /\ 1..Len(lists) = 1..n
      BY <2>2, <2>3, LenProperties
    <3> QED
      BY <1>4, <3>1
  <2> QED
    BY <2>2, <2>3, <2>4 DEF numlists
<1>6. Given
  BY <1>2, <1>3, <1>4, <1>5 DEF Given
<1>7. Merging
  <2>1. newlist \in Seq(Values) /\ Ascending(newlist)
    BY EmptySeq DEF Ascending
  <2>2. \A m \in DOMAIN lists : its[m] \in 1..(Len(lists[m]) + 1)
    BY <1>6, GivenLists
  <2>3. its \in [DOMAIN lists -> Nat]
    OBVIOUS
  <2>4. it \in DOMAIN lists /\ found \in 0..numlists
    BY <1>4, <1>5
  <2>5. pc \in {"loop", "done", "early"}
    OBVIOUS
  <2> QED
    BY <1>6, <2>1, <2>2, <2>3, <2>4, <2>5 DEF Merging, TypeOK
<1>8. Intersecting
  <2> SUFFICES ASSUME intersect, pc = "loop"
               PROVE  /\ found < numlists /\ Passed /\ FoundRunning /\ NewlistIs(cur)
                      /\ \A m \in DOMAIN lists : lists[m] # <<>>
    BY DEF Intersecting
  <2>1. found < numlists
    BY <1>4, <1>5
  <2>2. Passed
    BY DEF Passed
  <2>3. FoundRunning
    <3>1. \A m \in DOMAIN lists : Behind(m) >= 1
      BY <1>4, <1>5 DEF Behind
    <3>2. \A m \in DOMAIN lists : ~(Behind(m) <= found)
      <4>1. \A m \in DOMAIN lists : Behind(m) \in Int
        BY <1>4, <1>5 DEF Behind
      <4> QED
        BY <3>1, <4>1
    <3> QED
      BY <3>2 DEF FoundRunning
  <2>4. NewlistIs(cur)
    <3>1. ToSet(newlist) = {}
      BY EmptySeq DEF ToSet
    <3>2. \A x \in Common : ~(x < 0)
      BY CombineAssumption DEF Common
    <3> QED
      BY <3>1, <3>2 DEF NewlistIs
  <2>5. \A m \in DOMAIN lists : lists[m] # <<>>
    BY <1>6, RoomForAll
  <2> QED
    BY <2>1, <2>2, <2>3, <2>4, <2>5
<1>9. Uniting
  <2> SUFFICES ASSUME ~intersect, pc = "loop"
               PROVE  /\ ToSet(newlist) = Consumed /\ AllAhead
                      /\ \E m \in DOMAIN lists : ~AtEnd(m)
    BY DEF Uniting
  <2>1. ToSet(newlist) = {}
    BY EmptySeq DEF ToSet
  <2>2. Consumed = {}
    BY DEF Consumed
  <2>3. PICK m \in DOMAIN lists : lists[m] # <<>>
    BY <1>6, RoomForAll
  <2>4. ~AtEnd(m)
    <3>1. lists[m] \in Seq(Values) /\ Len(lists[m]) \in Nat /\ Len(lists[m]) # 0
      BY <1>6, <2>3, GivenLists, EmptySeq
    <3>2. its[m] = 1
      OBVIOUS
    <3> QED
      BY <3>1, <3>2 DEF AtEnd
  <2> QED
    BY <2>1, <2>2, <2>4 DEF AllAhead
<1> QED
  BY <1>7, <1>8, <1>9 DEF MInv

-----------------------------------------------------------------------------
(* ... and every turn keeps it.  The next list of an intersection is the   *)
(* one looked at longest ago, and the others recede by one.                *)
LEMMA Recedes ==
  ASSUME Given, it \in DOMAIN lists, it' = NextList, lists' = lists
  PROVE  /\ it' \in DOMAIN lists
         /\ \A m \in DOMAIN lists :
              /\ Behind(m) \in 1..numlists
              /\ m # it => Behind(m) < numlists
              /\ Behind(m)' = IF m = it THEN 1 ELSE Behind(m) + 1
<1>1. numlists \in Nat /\ numlists >= 2 /\ DOMAIN lists = 1..numlists /\ numlists' = numlists
  BY GivenLists DEF Given, numlists
<1>2. it' = IF it = numlists THEN 1 ELSE it + 1
  BY <1>1 DEF NextList
<1>3. ASSUME NEW m \in DOMAIN lists
      PROVE  /\ Behind(m) \in 1..numlists
             /\ m # it => Behind(m) < numlists
             /\ Behind(m)' = IF m = it THEN 1 ELSE Behind(m) + 1
  BY <1>1, <1>2 DEF Behind
<1>4. it' \in DOMAIN lists
  BY <1>1, <1>2
<1> QED
  BY <1>3, <1>4

(* Where FindIn leaves the iterator of the list an intersection looks at.  *)
LEMMA Landed ==
  ASSUME MInv, intersect, pc = "loop", NEW p, p = FindIn(lists[it], its[it])
  PROVE  /\ it \in DOMAIN lists /\ cur \in Nat
         /\ p \in 1..(Len(lists[it]) + 1) /\ its[it] <= p
         /\ \A q \in 1..(p - 1) : lists[it][q] < cur
         /\ p <= Len(lists[it]) => lists[it][p] >= cur
<1>1. it \in DOMAIN lists /\ cur \in Nat /\ its[it] \in 1..(Len(lists[it]) + 1)
  BY CombineAssumption DEF MInv, Merging, TypeOK
<1>2. lists[it] \in Seq(Nat) /\ Ascending(lists[it]) /\ Len(lists[it]) \in Nat
  BY <1>1, GivenLists DEF MInv, Merging, Given
<1>3. ComesToRest(lists[it], its[it], p)
  BY <1>1, <1>2, StepsAhead
<1>4. p \in its[it]..(Len(lists[it]) + 1)
  BY <1>3 DEF ComesToRest
<1>5. \A q \in 1..(p - 1) : q \in 1..(its[it] - 1) \/ q \in its[it]..(p - 1)
  BY <1>1, <1>2, <1>4
<1>6. \A q \in 1..(its[it] - 1) : lists[it][q] < cur
  BY <1>1 DEF MInv, Intersecting, Passed
<1> QED
  BY <1>1, <1>2, <1>3, <1>4, <1>5, <1>6 DEF ComesToRest

(* What a turn of an intersection does to the iterators. *)
MovesTo(e) == its' = [its EXCEPT ![it] = e] /\ UNCHANGED <<intersect, lists>>

(* What such a move leaves in order, whatever the turn is.                 *)
LEMMA MovedTo ==
  ASSUME MInv, NEW e, MovesTo(e), e \in 1..(Len(lists[it]) + 1)
  PROVE  /\ Given' /\ numlists' = numlists /\ Common' = Common
         /\ its' \in [DOMAIN lists -> Nat] /\ its'[it] = e
         /\ \A n \in DOMAIN lists : n # it => its'[n] = its[n]
         /\ \A n \in DOMAIN lists : its'[n] \in 1..(Len(lists[n]) + 1)
<1>1. Given' /\ numlists' = numlists /\ Common' = Common
  BY DEF MInv, Merging, Given, numlists, Common, MovesTo
<1>2. /\ its \in [DOMAIN lists -> Nat] /\ it \in DOMAIN lists
      /\ \A n \in DOMAIN lists : its[n] \in 1..(Len(lists[n]) + 1)
  BY DEF MInv, Merging, TypeOK
<1>3. e \in Nat
  BY <1>2, GivenLists DEF MInv, Merging
<1> QED
  BY <1>1, <1>2, <1>3 DEF MovesTo

(* At the end of a list there is nothing common any more. *)
LEMMA KeepsReachEnd ==
  ASSUME MInv, intersect, pc = "loop", NEW p, p = FindIn(lists[it], its[it]),
         MovesTo(p), ReachEnd(p)
  PROVE  MInv'
<1> USE DEF ReachEnd
<1>1. /\ it \in DOMAIN lists /\ p \in 1..(Len(lists[it]) + 1)
      /\ \A q \in 1..(p - 1) : lists[it][q] < cur
  BY Landed
<1>2. /\ Given' /\ Common' = Common /\ numlists' = numlists
      /\ its' \in [DOMAIN lists -> Nat]
      /\ \A n \in DOMAIN lists : its'[n] \in 1..(Len(lists[n]) + 1)
  BY <1>1, MovedTo
<1>3. lists' = lists /\ intersect' = intersect
  BY DEF MovesTo
<1>4. Merging'
  BY <1>2, <1>3 DEF MInv, Merging, TypeOK, Ascending
<1>5. ToSet(newlist) = Common
  <2>1. \A x \in Common : x < cur
    <3>1. Len(lists[it]) \in Nat /\ ToSet(lists[it]) = {lists[it][q] : q \in 1..Len(lists[it])}
      BY <1>1, GivenLists DEF MInv, Merging
    <3>2. \A q \in 1..Len(lists[it]) : lists[it][q] < cur
      BY <1>1, <3>1
    <3> QED
      BY <1>1, <3>1, <3>2 DEF Common
  <2> QED
    BY <2>1 DEF MInv, Intersecting, NewlistIs
<1>6. Intersecting'
  BY <1>2, <1>3, <1>5 DEF MInv, Intersecting
<1> QED
  BY <1>3, <1>4, <1>6 DEF MInv, Uniting

(* One more list is at cur. *)
LEMMA KeepsFindAgain ==
  ASSUME MInv, intersect, pc = "loop", NEW p, p = FindIn(lists[it], its[it]),
         MovesTo(p), FindAgain(p)
  PROVE  MInv'
<1> USE DEF FindAgain
<1>1. /\ it \in DOMAIN lists /\ p \in 1..(Len(lists[it]) + 1)
      /\ \A q \in 1..(p - 1) : lists[it][q] < cur
  BY Landed
<1>2. /\ Given' /\ Common' = Common /\ numlists' = numlists
      /\ its' \in [DOMAIN lists -> Nat] /\ its'[it] = p
      /\ \A n \in DOMAIN lists : n # it => its'[n] = its[n]
      /\ \A n \in DOMAIN lists : its'[n] \in 1..(Len(lists[n]) + 1)
  BY <1>1, MovedTo
<1>3. lists' = lists /\ intersect' = intersect
  BY DEF MovesTo
<1>4. /\ it' \in DOMAIN lists
      /\ \A m \in DOMAIN lists :
           Behind(m) \in 1..numlists /\ Behind(m)' = IF m = it THEN 1 ELSE Behind(m) + 1
  BY <1>1, <1>3, Recedes DEF MInv, Merging
<1>5. found < numlists /\ found \in Nat /\ found' \in Nat /\ found' < numlists /\ numlists \in Nat
  BY GivenLists DEF MInv, Merging, Intersecting, TypeOK
<1>6. Merging'
  BY <1>2, <1>3, <1>4, <1>5 DEF MInv, Merging, TypeOK, Ascending
<1>7. Passed'
  <2>1. ASSUME NEW n \in DOMAIN lists, NEW q \in 1..(its'[n] - 1)
        PROVE  lists[n][q] < cur
    <3>1. CASE n = it
      BY <1>1, <1>2, <3>1
    <3>2. CASE n # it
      BY <1>2, <3>2 DEF MInv, Intersecting, Passed
    <3> QED
      BY <3>1, <3>2
  <2> QED
    BY <1>3, <2>1 DEF Passed
<1>8. FoundRunning'
  <2>1. ASSUME NEW m \in DOMAIN lists, Behind(m)' <= found'
        PROVE  ~AtEnd(m)' /\ Here(m)' = cur'
    <3>1. CASE m = it
      <4>1. ~(p > Len(lists[it]))
        BY <1>1, GivenLists DEF MInv, Merging
      <4> QED
        BY <1>2, <1>3, <3>1, <4>1 DEF AtEnd, Here
    <3>2. CASE m # it
      <4>1. Behind(m) <= found
        BY <1>4, <1>5, <2>1, <3>2
      <4>2. ~AtEnd(m) /\ Here(m) = cur
        BY <4>1 DEF MInv, Intersecting, FoundRunning
      <4> QED
        BY <1>2, <1>3, <3>2, <4>2 DEF AtEnd, Here
    <3> QED
      BY <3>1, <3>2
  <2> QED
    BY <1>3, <2>1 DEF FoundRunning
<1>9. NewlistIs(cur)'
  BY <1>2 DEF MInv, Intersecting, NewlistIs
<1>10. Intersecting'
  BY <1>2, <1>3, <1>5, <1>7, <1>8, <1>9 DEF MInv, Intersecting
<1> QED
  BY <1>3, <1>6, <1>10 DEF MInv, Uniting

(* A larger value: nothing common lies between cur and it.                 *)
LEMMA KeepsFindLarger ==
  ASSUME MInv, intersect, pc = "loop", NEW p, p = FindIn(lists[it], its[it]),
         MovesTo(p), FindLarger(p)
  PROVE  MInv'
<1> USE DEF FindLarger
<1>1. /\ it \in DOMAIN lists /\ p \in 1..(Len(lists[it]) + 1) /\ cur \in Nat
      /\ \A q \in 1..(p - 1) : lists[it][q] < cur
  BY Landed
<1>2. /\ Given' /\ Common' = Common /\ numlists' = numlists
      /\ its' \in [DOMAIN lists -> Nat] /\ its'[it] = p
      /\ \A n \in DOMAIN lists : n # it => its'[n] = its[n]
      /\ \A n \in DOMAIN lists : its'[n] \in 1..(Len(lists[n]) + 1)
  BY <1>1, MovedTo
<1>3. lists' = lists /\ intersect' = intersect
  BY DEF MovesTo
<1>4. /\ it' \in DOMAIN lists
      /\ \A m \in DOMAIN lists :
           Behind(m) \in 1..numlists /\ Behind(m)' = IF m = it THEN 1 ELSE Behind(m) + 1
  BY <1>1, <1>3, Recedes DEF MInv, Merging
<1>5. /\ numlists \in Nat /\ numlists >= 2 /\ DOMAIN lists = 1..numlists
      /\ \A n \in DOMAIN lists :
           /\ Len(lists[n]) \in Nat
           /\ \A q \in 1..Len(lists[n]) : lists[n][q] \in Nat /\ lists[n][q] \in Values
  BY GivenLists DEF MInv, Merging, Given
<1>6. p \in 1..Len(lists[it]) /\ cur' \in Values /\ cur' \in Nat /\ cur < cur'
  BY <1>1, <1>5
<1>7. Merging'
  <2>1. newlist' = newlist /\ pc' = pc /\ found' = 1
    OBVIOUS
  <2>2. /\ newlist \in Seq(Values) /\ Ascending(newlist)
        /\ intersect \in BOOLEAN /\ pc \in {"loop", "done", "early"}
    BY DEF MInv, Merging, TypeOK
  <2>3. Ascending(newlist)'
    BY <2>1, <2>2 DEF Ascending
  <2>4. TypeOK'
    BY <1>2, <1>3, <1>4, <1>5, <1>6, <2>1, <2>2 DEF TypeOK
  <2> QED
    BY <1>2, <1>3, <2>3, <2>4 DEF Merging
<1>8. Passed'
  <2>1. ASSUME NEW n \in DOMAIN lists, NEW q \in 1..(its'[n] - 1)
        PROVE  lists[n][q] < cur'
    <3>1. q \in 1..Len(lists[n])
      BY <1>2, <1>5
    <3>2. lists[n][q] < cur
      <4>1. CASE n = it
        BY <1>1, <1>2, <4>1
      <4>2. CASE n # it
        BY <1>2, <4>2 DEF MInv, Intersecting, Passed
      <4> QED
        BY <4>1, <4>2
    <3>3. lists[n][q] \in Nat
      BY <1>5, <3>1
    <3> QED
      BY <1>1, <1>6, <3>2, <3>3
  <2> QED
    BY <1>3, <2>1 DEF Passed
<1>9. FoundRunning'
  <2>1. ASSUME NEW m \in DOMAIN lists, Behind(m)' <= found'
        PROVE  ~AtEnd(m)' /\ Here(m)' = cur'
    <3>1. m = it
      BY <1>4, <1>5, <2>1
    <3>2. ~(p > Len(lists[it]))
      BY <1>1, <1>5
    <3> QED
      BY <1>2, <1>3, <3>1, <3>2 DEF AtEnd, Here
  <2> QED
    BY <1>3, <2>1 DEF FoundRunning
<1>10. NewlistIs(cur')
  <2>1. ASSUME NEW x \in Common, x < cur'
        PROVE  x < cur
    <3>1. PICK q \in 1..Len(lists[it]) : x = lists[it][q]
      BY <1>1, GivenLists DEF Common, MInv, Merging
    <3>2. q < p
      <4>1. Ascending(lists[it]) /\ DOMAIN lists[it] = 1..Len(lists[it])
        BY <1>1, GivenLists DEF MInv, Merging, Given
      <4>2. p < q => lists[it][p] < lists[it][q]
        BY <1>6, <4>1 DEF Ascending
      <4>3. cur' = lists[it][p] /\ lists[it][q] \in Nat /\ lists[it][q] < cur'
        BY <1>1, <1>5, <2>1, <3>1
      <4>4. ~(p < q) /\ p # q
        BY <1>6, <4>2, <4>3
      <4> QED
        BY <1>5, <1>6, <4>4
    <3> QED
      BY <1>1, <3>1, <3>2
  <2>2. \A x \in Common : x < cur => x < cur'
    <3>1. Common \subseteq Nat
      BY CombineAssumption DEF Common
    <3> QED
      BY <1>1, <1>6, <3>1
  <2> QED
    BY <2>1, <2>2 DEF MInv, Intersecting, NewlistIs
<1>11. NewlistIs(cur)'
  BY <1>2, <1>10 DEF NewlistIs
<1>12. Intersecting'
  BY <1>2, <1>3, <1>5, <1>8, <1>9, <1>11 DEF MInv, Intersecting
<1> QED
  BY <1>3, <1>7, <1>12 DEF MInv, Uniting

(* The end of an ascending sequence. *)
LEMMA AppendLarger ==
  ASSUME Merging, NEW x \in Values, \A y \in ToSet(newlist) : y < x
  PROVE  /\ Append(newlist, x) \in Seq(Values) /\ Ascending(Append(newlist, x))
         /\ ToSet(Append(newlist, x)) = ToSet(newlist) \cup {x}
<1> DEFINE s == Append(newlist, x)
<1>1. newlist \in Seq(Values) /\ s \in Seq(Values)
  BY AppendProperties DEF Merging, TypeOK
<1>2. /\ Len(newlist) \in Nat /\ DOMAIN newlist = 1..Len(newlist)
      /\ DOMAIN s = 1..(Len(newlist) + 1)
      /\ \A i \in 1..Len(newlist) : s[i] = newlist[i]
      /\ s[Len(newlist) + 1] = x
  BY <1>1, LenProperties, AppendProperties
<1>3. ToSet(s) = ToSet(newlist) \cup {x}
  BY <1>1, ToSetAppend
<1>4. ASSUME NEW i \in DOMAIN s, NEW j \in DOMAIN s, i < j
      PROVE  s[i] < s[j]
  <2>1. i \in 1..Len(newlist) /\ newlist[i] \in ToSet(newlist)
    BY <1>2, <1>4 DEF ToSet
  <2>2. CASE j = Len(newlist) + 1
    BY <1>2, <2>1, <2>2
  <2>3. CASE j # Len(newlist) + 1
    <3>1. j \in 1..Len(newlist)
      BY <1>2, <2>3
    <3>2. newlist[i] < newlist[j]
      BY <1>2, <1>4, <2>1, <3>1 DEF Merging, Ascending
    <3> QED
      BY <1>2, <2>1, <3>1, <3>2
  <2> QED
    BY <2>2, <2>3
<1> HIDE DEF s
<1>5. Ascending(s)
  BY <1>4 DEF Ascending
<1> QED
  BY <1>1, <1>3, <1>5 DEF s

(* The last list that was missing is at cur: it is common, and the next    *)
(* value of that list is the next to look for.                             *)
LEMMA KeepsFindInAll ==
  ASSUME MInv, intersect, pc = "loop", NEW p, p = FindIn(lists[it], its[it]),
         MovesTo(p + 1), FindInAll(p)
  PROVE  MInv'
<1> USE DEF FindInAll
<1> DEFINE L == lists[it]
<1>1. /\ it \in DOMAIN lists /\ p \in 1..(Len(L) + 1) /\ cur \in Nat
      /\ \A q \in 1..(p - 1) : L[q] < cur
  BY Landed
<1>2. /\ numlists \in Nat /\ numlists >= 2 /\ DOMAIN lists = 1..numlists
      /\ \A n \in DOMAIN lists :
           /\ Len(lists[n]) \in Nat
           /\ \A q \in 1..Len(lists[n]) : lists[n][q] \in Nat /\ lists[n][q] \in Values
  BY GivenLists DEF MInv, Merging, Given
<1>3. p \in 1..Len(L) /\ L[p] = cur /\ cur \in Values /\ p + 1 \in 1..(Len(L) + 1)
  BY <1>1, <1>2
<1>4. /\ Given' /\ Common' = Common /\ numlists' = numlists
      /\ its' \in [DOMAIN lists -> Nat] /\ its'[it] = p + 1
      /\ \A n \in DOMAIN lists : n # it => its'[n] = its[n]
      /\ \A n \in DOMAIN lists : its'[n] \in 1..(Len(lists[n]) + 1)
  BY <1>3, MovedTo
<1>5. lists' = lists /\ intersect' = intersect
  BY DEF MovesTo
<1>6. found < numlists /\ found \in Nat /\ found + 1 = numlists /\ NewlistIs(cur)
  BY <1>2 DEF MInv, Merging, Intersecting, TypeOK
<1>7. \A m \in DOMAIN lists : m # it => ~AtEnd(m) /\ Here(m) = cur
  <2>1. ASSUME NEW m \in DOMAIN lists, m # it
        PROVE  Behind(m) <= found
    BY <1>1, <1>2, <1>6, <2>1 DEF Behind
  <2> QED
    BY <2>1 DEF MInv, Intersecting, FoundRunning
<1>8. cur \in Common
  <2>1. ASSUME NEW m \in DOMAIN lists
        PROVE  cur \in ToSet(lists[m])
    <3>1. CASE m = it
      BY <1>3, <3>1, <2>1, GivenLists DEF MInv, Merging
    <3>2. CASE m # it
      <4>1. its[m] \in 1..Len(lists[m]) /\ lists[m][its[m]] = cur
        BY <1>2, <1>7, <3>2 DEF AtEnd, Here, MInv, Merging, TypeOK
      <4> QED
        BY <4>1, <2>1, GivenLists DEF MInv, Merging
    <3> QED
      BY <3>1, <3>2
  <2> QED
    BY <1>3, <2>1 DEF Common
<1>9. /\ newlist' \in Seq(Values) /\ Ascending(newlist')
      /\ ToSet(newlist') = ToSet(newlist) \cup {cur}
  <2>1. \A y \in ToSet(newlist) : y < cur
    BY <1>6 DEF NewlistIs
  <2> QED
    BY <1>3, <2>1, AppendLarger DEF MInv
<1>10. \A x \in Common : \E q \in 1..Len(L) : x = L[q] /\ (q <= p => x <= cur) /\ (p < q => cur < x)
  <2>1. ASSUME NEW x \in Common
        PROVE  \E q \in 1..Len(L) : x = L[q] /\ (q <= p => x <= cur) /\ (p < q => cur < x)
    <3>1. PICK q \in 1..Len(L) : x = L[q]
      BY <1>1, GivenLists DEF Common, MInv, Merging
    <3>2. Ascending(L) /\ DOMAIN L = 1..Len(L)
      BY <1>1, GivenLists DEF MInv, Merging, Given
    <3>3. p < q => cur < x
      BY <1>3, <3>1, <3>2 DEF Ascending
    <3>4. q <= p => x <= cur
      <4>1. CASE q < p
        BY <1>1, <1>2, <1>3, <3>1, <4>1
      <4>2. CASE q = p
        BY <1>1, <1>3, <3>1, <4>2
      <4> QED
        BY <1>3, <4>1, <4>2
    <3> QED
      BY <3>1, <3>3, <3>4
  <2> QED
    BY <2>1
<1>11. Common \subseteq Nat
  BY CombineAssumption DEF Common
<1>12. \A n \in DOMAIN lists : \A q \in 1..(its'[n] - 1) : q \in 1..Len(lists[n]) /\ lists[n][q] <= cur
  <2>1. ASSUME NEW n \in DOMAIN lists, NEW q \in 1..(its'[n] - 1)
        PROVE  q \in 1..Len(lists[n]) /\ lists[n][q] <= cur
    <3>1. q \in 1..Len(lists[n]) /\ lists[n][q] \in Nat
      BY <1>2, <1>4
    <3>2. CASE n = it
      BY <1>1, <1>3, <1>4, <3>1, <3>2
    <3>3. CASE n # it
      <4>1. lists[n][q] < cur
        BY <1>4, <3>3 DEF MInv, Intersecting, Passed
      <4> QED
        BY <1>1, <3>1, <4>1
    <3> QED
      BY <3>2, <3>3
  <2> QED
    BY <2>1
<1>13. CASE p < Len(L)
  <2>1. /\ cur' = L[p + 1] /\ found' = 1 /\ it' = NextList /\ pc' = pc
        /\ p + 1 \in 1..Len(L)
    BY <1>2, <1>3, <1>13
  <2>2. /\ it' \in DOMAIN lists
        /\ \A m \in DOMAIN lists :
             Behind(m) \in 1..numlists /\ Behind(m)' = IF m = it THEN 1 ELSE Behind(m) + 1
    BY <1>1, <1>5, <2>1, Recedes DEF MInv, Merging
  <2>3. cur' \in Values /\ cur' \in Nat /\ cur < cur'
    <3>1. Ascending(L) /\ DOMAIN L = 1..Len(L)
      BY <1>1, GivenLists DEF MInv, Merging, Given
    <3>2. L[p] < L[p + 1]
      BY <1>3, <2>1, <3>1 DEF Ascending
    <3> QED
      BY <1>1, <1>2, <1>3, <2>1, <3>2
  <2>4. Merging'
    <3>1. found' \in 0..numlists' /\ pc' \in {"loop", "done", "early"} /\ intersect' \in BOOLEAN
      BY <1>2, <1>4, <1>5, <2>1 DEF MInv, Merging, TypeOK
    <3>2. it' \in DOMAIN lists' /\ cur' \in Values \cup {0}
      BY <1>5, <2>2, <2>3
    <3>3. \A n \in DOMAIN lists' : its'[n] \in 1..(Len(lists'[n]) + 1)
      BY <1>4, <1>5
    <3>4. TypeOK'
      BY <1>9, <3>1, <3>2, <3>3 DEF TypeOK
    <3> QED
      BY <1>4, <1>5, <1>9, <3>4 DEF Merging
  <2>5. Passed'
    <3>1. ASSUME NEW n \in DOMAIN lists, NEW q \in 1..(its'[n] - 1)
          PROVE  lists[n][q] < cur'
      <4>1. lists[n][q] \in Nat /\ lists[n][q] <= cur
        BY <1>2, <1>12
      <4> QED
        BY <1>1, <2>3, <4>1
    <3> QED
      BY <1>5, <3>1 DEF Passed
  <2>6. FoundRunning'
    <3>1. ASSUME NEW m \in DOMAIN lists, Behind(m)' <= found'
          PROVE  ~AtEnd(m)' /\ Here(m)' = cur'
      <4>1. m = it
        BY <1>2, <2>1, <2>2, <3>1
      <4>2. ~(p + 1 > Len(L))
        BY <1>1, <1>2, <2>1
      <4> QED
        BY <1>4, <1>5, <2>1, <4>1, <4>2 DEF AtEnd, Here
    <3> QED
      BY <1>5, <3>1 DEF FoundRunning
  <2>7. \A x : x \in ToSet(newlist') <=> x \in Common /\ x < cur'
    <3>1. ASSUME NEW x \in Common
          PROVE  x < cur' <=> x < cur \/ x = cur
      <4>1. PICK q \in 1..Len(L) : x = L[q] /\ (q <= p => x <= cur) /\ (p < q => cur < x)
        BY <1>10
      <4>2. CASE q <= p
        BY <1>1, <1>11, <2>3, <4>1, <4>2
      <4>3. CASE ~(q <= p)
        <5>1. p < q /\ p + 1 <= q
          BY <1>3, <4>3
        <5>2. Ascending(L) /\ DOMAIN L = 1..Len(L)
          BY <1>1, GivenLists DEF MInv, Merging, Given
        <5>3. p + 1 < q => cur' < x
          BY <2>1, <4>1, <5>2 DEF Ascending
        <5>4. cur' <= x
          BY <1>3, <1>11, <2>1, <2>3, <4>1, <5>1, <5>3
        <5> QED
          BY <1>1, <1>11, <2>3, <4>1, <5>1, <5>4
      <4> QED
        BY <4>2, <4>3
    <3>2. \A x : x \in ToSet(newlist) <=> x \in Common /\ x < cur
      BY <1>6 DEF NewlistIs
    <3> QED
      BY <1>8, <1>9, <3>1, <3>2
  <2>8. NewlistIs(cur)'
    BY <1>4, <2>7 DEF NewlistIs
  <2>9. Intersecting'
    BY <1>2, <1>4, <1>5, <2>1, <2>5, <2>6, <2>8 DEF MInv, Intersecting
  <2> QED
    BY <1>5, <2>1, <2>4, <2>9 DEF MInv, Uniting
<1>14. CASE ~(p < Len(L))
  <2>1. pc' = "done" /\ found' = numlists /\ cur' = cur /\ it' = it /\ p = Len(L)
    BY <1>2, <1>3, <1>14
  <2>2. Merging'
    BY <1>1, <1>2, <1>3, <1>4, <1>5, <1>9, <2>1 DEF MInv, Merging, TypeOK
  <2>3. ToSet(newlist') = Common
    <3>1. \A x \in Common : x < cur \/ x = cur
      BY <1>1, <1>10, <1>11, <2>1
    <3>2. \A x : x \in ToSet(newlist) <=> x \in Common /\ x < cur
      BY <1>6 DEF NewlistIs
    <3> QED
      BY <1>8, <1>9, <3>1, <3>2
  <2>4. Intersecting'
    BY <1>4, <1>5, <2>1, <2>3 DEF MInv, Intersecting
  <2> QED
    BY <1>5, <2>1, <2>2, <2>4 DEF MInv, Uniting
<1> QED
  BY <1>13, <1>14

(* The smallest value any set of a union is at. *)
LEMMA SmallestHead ==
  ASSUME MInv, ~intersect, pc = "loop", UnionTurn
  PROVE  /\ cur' \in Values /\ \E n \in DOMAIN lists : Taken(n)
         /\ \A n \in DOMAIN lists : ~AtEnd(n) => cur' <= Here(n)
<1> DEFINE heads == {Here(n) : n \in {m \in DOMAIN lists : ~AtEnd(m)}}
<1>1. \A n \in DOMAIN lists : ~AtEnd(n) => its[n] \in 1..Len(lists[n])
  BY GivenLists DEF MInv, Merging, TypeOK, AtEnd
<1>2. heads \subseteq Values /\ heads \in SUBSET Nat
  BY <1>1, GivenLists, CombineAssumption DEF MInv, Merging, Here
<1>3. heads # {}
  BY DEF MInv, Uniting
<1>4. \E x \in heads : \A y \in heads : x <= y
  <2> HIDE DEF heads
  <2> QED
    BY <1>2, <1>3, NatMin
<1>5. cur' = CHOOSE x \in heads : \A y \in heads : x <= y
  BY DEF UnionTurn
<1>6. cur' \in heads /\ \A y \in heads : cur' <= y
  <2> HIDE DEF heads
  <2> QED
    BY <1>4, <1>5
<1>7. \E n \in DOMAIN lists : Taken(n)
  BY <1>6 DEF Taken
<1> QED
  BY <1>2, <1>6, <1>7

(* A turn of the union takes the smallest head off every list that has it. *)
LEMMA KeepsUnionTurn ==
  ASSUME MInv, UnionTurn
  PROVE  MInv'
<1>1. /\ ~intersect /\ pc = "loop" /\ newlist' = Append(newlist, cur')
      /\ its' = [n \in DOMAIN lists |-> IF Taken(n) THEN its[n] + 1 ELSE its[n]]
      /\ pc' = IF \A n \in DOMAIN lists : its'[n] > Len(lists[n]) THEN "done" ELSE pc
      /\ intersect' = intersect /\ lists' = lists /\ it' = it /\ found' = found
  BY DEF UnionTurn
<1>2. /\ cur' \in Values /\ \E n \in DOMAIN lists : Taken(n)
      /\ \A n \in DOMAIN lists : ~AtEnd(n) => cur' <= Here(n)
  BY <1>1, SmallestHead
<1>3. cur' \in Nat
  BY <1>2, CombineAssumption
<1>4. /\ DOMAIN lists = 1..numlists
      /\ \A n \in DOMAIN lists :
           /\ Len(lists[n]) \in Nat /\ its[n] \in 1..(Len(lists[n]) + 1)
           /\ \A q \in 1..Len(lists[n]) : lists[n][q] \in Nat /\ lists[n][q] \in Values
  BY GivenLists DEF MInv, Merging, TypeOK
<1>5. /\ ToSet(newlist) = Consumed /\ AllAhead
      /\ \E n \in DOMAIN lists : ~AtEnd(n)
  BY <1>1 DEF MInv, Uniting
<1>6. \A n \in DOMAIN lists : Taken(n) => its[n] \in 1..Len(lists[n]) /\ lists[n][its[n]] = cur'
  BY <1>4 DEF Taken, AtEnd, Here
<1>7. /\ newlist' \in Seq(Values) /\ Ascending(newlist')
      /\ ToSet(newlist') = ToSet(newlist) \cup {cur'}
  <2>1. \A y \in ToSet(newlist) : y < cur'
    <3>1. PICK n \in DOMAIN lists : Taken(n)
      BY <1>2
    <3>2. its[n] \in its[n]..Len(lists[n]) /\ lists[n][its[n]] = cur'
      BY <1>4, <1>6, <3>1
    <3> QED
      BY <1>5, <3>2 DEF AllAhead
  <2> QED
    BY <1>1, <1>2, <2>1, AppendLarger DEF MInv
<1>8. \A n \in DOMAIN lists : its'[n] = IF Taken(n) THEN its[n] + 1 ELSE its[n]
  BY <1>1
<1>9. \A n \in DOMAIN lists : its'[n] \in 1..(Len(lists[n]) + 1)
  BY <1>4, <1>6, <1>8
<1>10. Merging'
  <2>1. Given'
    BY <1>1 DEF MInv, Merging, Given, numlists
  <2>2. TypeOK'
    BY <1>1, <1>2, <1>7, <1>9 DEF MInv, Merging, TypeOK, numlists
  <2>3. its' \in [DOMAIN lists -> Nat]
    BY <1>1, <1>9
  <2> QED
    BY <1>1, <1>7, <2>1, <2>2, <2>3 DEF Merging
<1>11. ToSet(newlist)' = Consumed'
  <2>1. ASSUME NEW x \in Values
        PROVE  x \in Consumed' <=> x \in Consumed \/ x = cur'
    <3>1. ASSUME NEW n \in DOMAIN lists, NEW q \in 1..(its'[n] - 1), lists[n][q] = x
          PROVE  x \in Consumed \/ x = cur'
      <4>1. CASE q \in 1..(its[n] - 1)
        BY <2>1, <3>1, <4>1 DEF Consumed
      <4>2. CASE q \notin 1..(its[n] - 1)
        <5>1. Taken(n) /\ q = its[n]
          BY <1>4, <1>8, <3>1, <4>2
        <5> QED
          BY <1>6, <3>1, <5>1
      <4> QED
        BY <4>1, <4>2
    <3>2. ASSUME NEW n \in DOMAIN lists, NEW q \in 1..(its[n] - 1), lists[n][q] = x
          PROVE  x \in Consumed'
      <4>1. q \in 1..(its'[n] - 1)
        <5>1. its'[n] = its[n] \/ its'[n] = its[n] + 1
          BY <1>8
        <5>2. its[n] \in Nat
          BY <1>4
        <5> QED
          BY <3>2, <5>1, <5>2
      <4> QED
        BY <1>1, <2>1, <3>2, <4>1 DEF Consumed
    <3>3. ASSUME x = cur'
          PROVE  x \in Consumed'
      <4>1. PICK n \in DOMAIN lists : Taken(n)
        BY <1>2
      <4>2. its[n] \in 1..(its'[n] - 1) /\ lists[n][its[n]] = x
        BY <1>4, <1>6, <1>8, <3>3, <4>1
      <4> QED
        BY <1>1, <2>1, <4>1, <4>2 DEF Consumed
    <3>4. x \in Consumed' => x \in Consumed \/ x = cur'
      BY <1>1, <3>1 DEF Consumed
    <3>5. x \in Consumed => x \in Consumed'
      <4>1. ASSUME x \in Consumed
            PROVE  \E n \in DOMAIN lists : \E q \in 1..(its[n] - 1) : lists[n][q] = x
        BY <4>1 DEF Consumed
      <4> QED
        BY <3>2, <4>1
    <3> QED
      BY <3>3, <3>4, <3>5
  <2>2. Consumed \subseteq Values /\ Consumed' \subseteq Values
    BY DEF Consumed
  <2>3. ToSet(newlist') = Consumed'
    BY <1>2, <1>5, <1>7, <2>1, <2>2
  <2>4. ToSet(newlist)' = ToSet(newlist')
    BY DEF ToSet
  <2> QED
    BY <2>3, <2>4
<1>12. AllAhead'
  <2>1. ASSUME NEW n \in DOMAIN lists, NEW q \in its'[n]..Len(lists[n])
        PROVE  q \in its[n]..Len(lists[n]) /\ cur' < lists[n][q]
    <3>1. q \in its[n]..Len(lists[n]) /\ q \in 1..Len(lists[n]) /\ its[n] \in 1..Len(lists[n])
      BY <1>4, <1>8, <1>9
    <3>2. Ascending(lists[n]) /\ DOMAIN lists[n] = 1..Len(lists[n])
      BY GivenLists DEF MInv, Merging, Given
    <3>3. its[n] < q => lists[n][its[n]] < lists[n][q]
      BY <3>1, <3>2 DEF Ascending
    <3>4. CASE Taken(n)
      <4>1. its[n] < q
        BY <1>4, <1>8, <3>1, <3>4
      <4> QED
        BY <1>6, <3>1, <3>3, <3>4, <4>1
    <3>5. CASE ~Taken(n)
      <4>1. ~AtEnd(n) /\ Here(n) # cur' /\ cur' <= Here(n)
        BY <1>2, <1>4, <3>1, <3>5 DEF Taken, AtEnd
      <4>2. Here(n) = lists[n][its[n]] /\ Here(n) \in Nat /\ lists[n][q] \in Nat
        BY <1>4, <3>1 DEF Here
      <4>3. its[n] < q \/ its[n] = q
        BY <3>1
      <4> QED
        BY <1>3, <3>1, <3>3, <4>1, <4>2, <4>3
    <3> QED
      BY <3>4, <3>5
  <2>2. ASSUME NEW n \in DOMAIN lists, NEW q \in its'[n]..Len(lists[n]), NEW y \in ToSet(newlist')
        PROVE  y < lists[n][q]
    <3>1. q \in its[n]..Len(lists[n]) /\ cur' < lists[n][q]
      BY <2>1
    <3>2. CASE y = cur'
      BY <3>1, <3>2
    <3>3. CASE y \in ToSet(newlist)
      BY <1>5, <3>1, <3>3 DEF AllAhead
    <3> QED
      BY <1>7, <3>2, <3>3
  <2>3. ToSet(newlist)' = ToSet(newlist')
    BY DEF ToSet
  <2> QED
    BY <1>1, <2>2, <2>3 DEF AllAhead
<1>13. pc' # "early" /\ (pc' = "loop" <=> \E n \in DOMAIN lists : ~AtEnd(n)')
  <2>1. \A n \in DOMAIN lists : AtEnd(n)' <=> its'[n] > Len(lists[n])
    BY <1>1 DEF AtEnd
  <2> QED
    BY <1>1, <2>1
<1>14. Uniting'
  BY <1>1, <1>11, <1>12, <1>13 DEF Uniting
<1> QED
  BY <1>1, <1>10, <1>13, <1>14 DEF MInv, Intersecting

(* A turn of the intersection is one of its four cases. *)
LEMMA KeepsIntersectTurn ==
  ASSUME MInv, IntersectTurn
  PROVE  MInv'
<1> DEFINE p == FindIn(lists[it], its[it])
<1>1. pc = "loop" /\ intersect /\ UNCHANGED <<intersect, lists>>
  BY DEF IntersectTurn
<1>2. its' = [its EXCEPT ![it] =
                IF p <= Len(lists[it]) /\ lists[it][p] = cur /\ found + 1 = numlists
                THEN p + 1 ELSE p]
      /\ (ReachEnd(p) \/ FindAgain(p) \/ FindInAll(p) \/ FindLarger(p))
  BY Zenon DEF IntersectTurn
<1>3. /\ p \in 1..(Len(lists[it]) + 1) /\ cur \in Nat /\ Len(lists[it]) \in Nat
      /\ \A q \in 1..Len(lists[it]) : lists[it][q] \in Nat
  <2> HIDE DEF p
  <2>1. p = FindIn(lists[it], its[it])
    BY DEF p
  <2>2. it \in DOMAIN lists /\ cur \in Nat /\ p \in 1..(Len(lists[it]) + 1)
    BY <1>1, <2>1, Landed
  <2> QED
    BY <2>2, GivenLists DEF MInv, Merging
<1>4. p = FindIn(lists[it], its[it])
  OBVIOUS
<1> HIDE DEF p
<1>5. CASE ReachEnd(p)
  <2>1. MovesTo(p)
    <3>1. ~(p <= Len(lists[it]))
      BY <1>3, <1>5 DEF ReachEnd
    <3> QED
      BY <1>1, <1>2, <3>1 DEF MovesTo
  <2> QED
    BY <1>1, <1>4, <1>5, <2>1, KeepsReachEnd
<1>6. CASE FindAgain(p)
  <2>1. MovesTo(p)
    BY <1>1, <1>2, <1>6 DEF MovesTo, FindAgain
  <2> QED
    BY <1>1, <1>4, <1>6, <2>1, KeepsFindAgain
<1>7. CASE FindInAll(p)
  <2>1. MovesTo(p + 1)
    BY <1>1, <1>2, <1>7 DEF MovesTo, FindInAll
  <2> QED
    BY <1>1, <1>4, <1>7, <2>1, KeepsFindInAll
<1>8. CASE FindLarger(p)
  <2>1. MovesTo(p)
    <3>1. lists[it][p] # cur
      BY <1>3, <1>8 DEF FindLarger
    <3> QED
      BY <1>1, <1>2, <3>1 DEF MovesTo
  <2> QED
    BY <1>1, <1>4, <1>8, <2>1, KeepsFindLarger
<1> QED
  BY <1>2, <1>5, <1>6, <1>7, <1>8

(* A step that changes nothing keeps the invariant. *)
LEMMA MInvStutter ==
  ASSUME MInv, UNCHANGED vars
  PROVE  MInv'
<1>1. /\ intersect' = intersect /\ lists' = lists /\ its' = its /\ it' = it
      /\ cur' = cur /\ found' = found /\ newlist' = newlist /\ pc' = pc
  BY DEF vars
<1> QED
  BY <1>1 DEF MInv, Merging, Given, numlists, TypeOK, Intersecting, Passed, FoundRunning,
     Behind, AtEnd, Here, NewlistIs, Common, Uniting, Consumed, AllAhead

(* The invariant holds in every state of every run of combine.             *)
THEOREM MInvAlways == Spec => []MInv
<1>1. Init => MInv
  BY MInvInit
<1>2. MInv /\ [Next]_vars => MInv'
  <2> SUFFICES ASSUME MInv, [Next]_vars
               PROVE  MInv'
    OBVIOUS
  <2>1. CASE IntersectTurn
    BY <2>1, KeepsIntersectTurn
  <2>2. CASE UnionTurn
    BY <2>2, KeepsUnionTurn
  <2>3. CASE UNCHANGED vars
    BY <2>3, MInvStutter
  <2> QED
    BY <2>1, <2>2, <2>3 DEF Next, Returned
<1> QED
  BY <1>1, <1>2, PTL DEF Spec

(* The iterators stay in their lists and what combine writes are slots.    *)
THEOREM CombineTypes == Spec => []TypeOK
<1>1. MInv => TypeOK
  BY DEF MInv, Merging
<1> QED
  BY <1>1, MInvAlways, PTL

(* An intersection passes over nothing that is in all the sets: what it    *)
(* has not found yet is ahead of every iterator, whatever the skip.        *)
LEMMA MissesNothing ==
  ASSUME MInv
  PROVE  NothingMissed
<1> SUFFICES ASSUME pc = "loop", intersect, NEW x \in Common \ ToSet(newlist)
             PROVE  x >= cur /\ \A n \in DOMAIN lists :
                      \E p \in its[n]..Len(lists[n]) : lists[n][p] = x
  BY DEF NothingMissed
<1>1. x \in Nat /\ cur \in Nat
  BY CombineAssumption DEF Common, MInv, Merging, TypeOK
<1>2. x >= cur
  BY <1>1 DEF MInv, Intersecting, NewlistIs
<1>3. ASSUME NEW n \in DOMAIN lists
      PROVE  \E p \in its[n]..Len(lists[n]) : lists[n][p] = x
  <2>1. PICK p \in 1..Len(lists[n]) : lists[n][p] = x
    BY GivenLists DEF Common, MInv, Merging
  <2>2. its[n] \in Nat /\ Len(lists[n]) \in Nat
    BY GivenLists DEF MInv, Merging, TypeOK
  <2>3. p \notin 1..(its[n] - 1)
    BY <1>1, <1>2, <2>1 DEF MInv, Intersecting, Passed
  <2>4. p \in its[n]..Len(lists[n])
    BY <2>2, <2>3
  <2> QED
    BY <2>1, <2>4
<1> QED
  BY <1>2, <1>3

(* So NothingMissed holds for any number of sets of any slots, with any    *)
(* skip (usersetbase.h: the leaps of combine).                             *)
THEOREM NothingIsMissed == Spec => []NothingMissed
<1>1. MInv => NothingMissed
  BY MissesNothing
<1> QED
  BY <1>1, MInvAlways, PTL

(* The result fits the room made for it: that of the smallest set for an   *)
(* intersection, of all the sets together for a union.                     *)
LEMMA Fits ==
  ASSUME MInv
  PROVE  NewlistFits
<1>1. Given /\ newlist \in Seq(Values) /\ Ascending(newlist) /\ intersect \in BOOLEAN
      /\ pc \in {"loop", "done", "early"}
  BY DEF MInv, Merging, TypeOK
<1>2. Len(newlist) \in Nat /\ Cardinality(ToSet(newlist)) = Len(newlist)
  <2>1. newlist \in Seq(Nat)
    BY <1>1, SeqMonotonic, CombineAssumption
  <2> QED
    BY <1>1, <2>1, LenProperties, VectorUnique
<1>3. CASE pc = "early"
  <2>1. Len(newlist) = 0 /\ room \in Nat
    BY <1>1, <1>3, RoomForAll, EmptySeq DEF MInv
  <2> QED
    BY <2>1 DEF NewlistFits
<1>4. CASE pc # "early" /\ intersect
  <2>1. PICK n \in DOMAIN lists : minsize = Len(lists[n])
    BY <1>1, MinSize
  <2>2. ToSet(newlist) \subseteq ToSet(lists[n])
    <3>1. ToSet(newlist) \subseteq Common
      BY <1>1, <1>4 DEF MInv, Intersecting, NewlistIs
    <3> QED
      BY <3>1 DEF Common
  <2>3. lists[n] \in Seq(Nat) /\ Ascending(lists[n]) /\ Len(lists[n]) \in Nat
    BY <1>1, GivenLists DEF Given
  <2>4. IsFiniteSet(ToSet(lists[n])) /\ Cardinality(ToSet(lists[n])) = Len(lists[n])
    BY <2>3, VectorUnique
  <2>5. Cardinality(ToSet(newlist)) <= Cardinality(ToSet(lists[n]))
    BY <2>2, <2>4, FS_Subset
  <2> QED
    BY <1>2, <1>4, <2>1, <2>4, <2>5 DEF NewlistFits, room
<1>5. CASE pc # "early" /\ ~intersect
  <2>1. ToSet(newlist) \subseteq AllOf
    <3>1. ASSUME NEW x \in Consumed
          PROVE  x \in AllOf
      <4>1. PICK n \in DOMAIN lists : \E q \in 1..(its[n] - 1) : lists[n][q] = x
        BY <3>1 DEF Consumed
      <4>2. PICK q \in 1..(its[n] - 1) : lists[n][q] = x
        BY <4>1
      <4>3. its[n] \in 1..(Len(lists[n]) + 1) /\ Len(lists[n]) \in Nat
        BY <1>1, GivenLists DEF MInv, Merging, TypeOK
      <4>4. q \in 1..Len(lists[n])
        BY <4>3
      <4>5. x \in ToSet(lists[n])
        BY <1>1, <4>2, <4>4, GivenLists
      <4> QED
        BY <3>1, <4>5 DEF AllOf, Consumed
    <3> QED
      BY <1>5, <3>1 DEF MInv, Uniting
  <2>2. Cardinality(ToSet(newlist)) <= totalsize
    BY <1>1, <2>1, TotalSize
  <2> QED
    BY <1>2, <1>5, <2>2 DEF NewlistFits, room
<1> QED
  BY <1>3, <1>4, <1>5

(* So what combine writes never leaves the vector it makes (usersetbase.h).*)
THEOREM ResultFits == Spec => []NewlistFits
<1>1. MInv => NewlistFits
  BY Fits
<1> QED
  BY <1>1, MInvAlways, PTL

-----------------------------------------------------------------------------
(* The other side of the comparison, combining the sets one by one. *)
LEMMA CombineTwo ==
  ASSUME Given, NEW a \in Seq(Values), NEW b \in Seq(Values)
  PROVE  /\ combine_two(a, b) \in Seq(Values)
         /\ Ascending(a) => Ascending(combine_two(a, b))
         /\ ~intersect => ToSet(combine_two(a, b)) = ToSet(a) \cup ToSet(b)
         /\ intersect /\ b # <<>> => ToSet(combine_two(a, b)) = ToSet(a) \cap ToSet(b)
         /\ intersect /\ b = <<>> => combine_two(a, b) = a
<1>1. ToSet(a) \subseteq Values /\ ToSet(b) \subseteq Values
  BY LenProperties, ElementOfSeq DEF ToSet
<1>2. ASSUME NEW S \in SUBSET Values
      PROVE  Vector(S) \in Seq(Values) /\ ToSet(Vector(S)) = S /\ Ascending(Vector(S))
  <2>1. S \in SUBSET Nat /\ IsFiniteSet(S)
    BY CombineAssumption, FS_Subset
  <2>2. Vector(S) \in Seq(S) /\ ToSet(Vector(S)) = S /\ Ascending(Vector(S))
    BY <2>1, VectorProperties
  <2> QED
    BY <2>2, SeqMonotonic
<1>3. ToSet(a) \cap ToSet(b) \in SUBSET Values /\ ToSet(a) \cup ToSet(b) \in SUBSET Values
  BY <1>1
<1>4. CASE ~intersect
  <2>1. combine_two(a, b) = Vector(ToSet(a) \cup ToSet(b))
    BY <1>4 DEF combine_two
  <2> QED
    BY <1>2, <1>3, <1>4, <2>1
<1>5. CASE intersect /\ ~(a = <<>> \/ b = <<>>)
  <2>1. combine_two(a, b) = Vector(ToSet(a) \cap ToSet(b))
    BY <1>5 DEF combine_two
  <2> QED
    BY <1>2, <1>3, <1>5, <2>1
<1>6. CASE intersect /\ (a = <<>> \/ b = <<>>)
  <2>1. combine_two(a, b) = a
    BY <1>6 DEF combine_two
  <2>2. a = <<>> => ToSet(a) = {}
    BY EmptySeq DEF ToSet
  <2> QED
    BY <1>6, <2>1, <2>2
<1> QED
  BY <1>4, <1>5, <1>6

(* Tail(lists) by the numbers of lists. *)
LEMMA RestOfLists ==
  ASSUME Given
  PROVE  /\ numlists - 1 \in Nat /\ DOMAIN Tail(lists) = 1..(numlists - 1)
         /\ \A k \in 1..(numlists - 1) :
              k + 1 \in DOMAIN lists /\ Tail(lists)[k] = lists[k + 1] /\ Tail(lists)[k] \in Seq(Values)
         /\ 1 \in DOMAIN lists /\ Head(lists) = lists[1] /\ Head(lists) \in Seq(Values)
<1>1. /\ numlists \in Nat /\ numlists >= 2 /\ DOMAIN lists = 1..numlists /\ lists \in Seq(Seq(Values))
      /\ \A n \in DOMAIN lists : lists[n] \in Seq(Values)
  BY GivenLists DEF Given
<1>2. lists # <<>>
  BY <1>1, EmptySeq DEF numlists
<1>3. /\ Tail(lists) \in Seq(Seq(Values)) /\ Len(Tail(lists)) = numlists - 1
      /\ \A k \in 1..(numlists - 1) : Tail(lists)[k] = lists[k + 1]
  BY <1>1, <1>2, HeadTailProperties DEF numlists
<1>4. DOMAIN Tail(lists) = 1..(numlists - 1)
  BY <1>3, LenProperties
<1>5. Head(lists) = lists[1]
  BY <1>1, <1>2
<1> QED
  BY <1>1, <1>3, <1>4, <1>5

LinearByTurns(h) ==
  /\ h[0] = Head(lists) /\ h[numlists - 1] = Linear
  /\ \A k \in 1..(numlists - 1) : h[k] = combine_two(h[k - 1], Tail(lists)[k])

(* The fold of Linear has a value after each set. *)
LEMMA LinearRecursion ==
  ASSUME Given
  PROVE  \E h \in [0..(numlists - 1) -> Seq(Values)] : LinearByTurns(h)
<1> DEFINE n == numlists - 1
           first == Head(lists)
           rest == Tail(lists)
           Dom == SUBSET (1..n)
           F(iter) == [ss \in Dom |->
                         IF ss = {} THEN first
                         ELSE LET x == Max(ss) IN combine_two(iter[ss \ {x}], rest[x])]
           step == [p \in Seq(Values) \X (1..n) |-> combine_two(p[1], rest[p[2]])]
           iter0 == CHOOSE iter : iter = F(iter)
           h == [k \in 0..n |-> iter0[1..k]]
<1>1. /\ n \in Nat /\ DOMAIN rest = 1..n /\ \A k \in 1..n : rest[k] \in Seq(Values)
      /\ first \in Seq(Values)
  BY RestOfLists
<1>2. Linear = iter0[1..n]
  <2>1. Linear = iter0[DOMAIN rest]
    BY <1>1, Zenon DEF Linear, FoldLeft, MapThenFoldSet
  <2> QED
    BY <1>1, <2>1
<1>3. step \in [Seq(Values) \X (1..n) -> Seq(Values)]
  BY <1>1, CombineTwo
<1> HIDE DEF first, rest
<1>5. PICK g \in [Dom -> Seq(Values)] : TakesMax(g, n, first, step)
  <2> HIDE DEF step
  <2> QED
    BY <1>1, <1>3, SubsetRecursion
<1>6. \A ss \in Dom : ss # {} => Max(ss) \in 1..n /\ ss \ {Max(ss)} \in Dom
  BY <1>1, IntervalMax
<1>7. g = F(g)
  <2>1. ASSUME NEW ss \in Dom
        PROVE  g[ss] = F(g)[ss]
    <3>1. CASE ss = {}
      BY <1>5, <3>1 DEF TakesMax
    <3>2. CASE ss # {}
      <4>1. g[ss] = step[<<g[ss \ {Max(ss)}], Max(ss)>>]
        <5> HIDE DEF step
        <5> QED
          BY <1>5, <3>2 DEF TakesMax
      <4>2. <<g[ss \ {Max(ss)}], Max(ss)>> \in Seq(Values) \X (1..n)
        BY <1>6, <3>2
      <4>3. g[ss] = combine_two(g[ss \ {Max(ss)}], rest[Max(ss)])
        BY <4>1, <4>2, Zenon
      <4> QED
        BY <3>2, <4>3
    <3> QED
      BY <3>1, <3>2
  <2>2. g = [ss \in Dom |-> g[ss]]
    BY <1>5
  <2>3. F(g) = [ss \in Dom |-> F(g)[ss]]
    OBVIOUS
  <2> HIDE DEF F
  <2> QED
    BY <2>1, <2>2, <2>3
<1>8. iter0 = F(iter0)
  <2> HIDE DEF F
  <2> QED
    BY <1>7
<1>9. /\ iter0[{}] = first
      /\ \A k \in 1..n : iter0[1..k] = combine_two(iter0[1..(k - 1)], rest[k])
  <2>1. {} \in Dom
    OBVIOUS
  <2>2. iter0[{}] = F(iter0)[{}]
    <3> HIDE DEF F, iter0
    <3> QED
      BY <1>8
  <2>3. iter0[{}] = first
    <3> HIDE DEF iter0
    <3> QED
      BY <2>1, <2>2
  <2>4. ASSUME NEW k \in 1..n
        PROVE  iter0[1..k] = combine_two(iter0[1..(k - 1)], rest[k])
    <3>1. 1..k \in Dom /\ 1..k # {} /\ Max(1..k) = k /\ (1..k) \ {k} = 1..(k - 1)
      <4>1. k \in 0..n
        BY <1>1
      <4> QED
        BY <1>1, <4>1, PrefixIntervals
    <3>2. iter0[1..k] = F(iter0)[1..k]
      <4> HIDE DEF F, iter0
      <4> QED
        BY <1>8
    <3> HIDE DEF iter0
    <3> QED
      BY <3>1, <3>2
  <2> QED
    BY <2>3, <2>4
<1>10. 1..0 = {}
  BY PrefixIntervals
<1> HIDE DEF iter0
<1>11. /\ h[0] = first /\ h[n] = Linear
       /\ \A k \in 1..n : h[k] = combine_two(h[k - 1], rest[k])
  <2>1. 0 \in 0..n /\ n \in 0..n /\ \A k \in 1..n : k \in 0..n /\ k - 1 \in 0..n
    BY <1>1
  <2> QED
    BY <1>2, <1>9, <1>10, <2>1
<1>12. \A k \in 0..n : h[k] \in Seq(Values)
  <2> DEFINE T == {k \in 0..n : h[k] \in Seq(Values)}
  <2>1. 0 \in T
    <3>1. 0 \in 0..n
      BY <1>1
    <3> HIDE DEF h
    <3> QED
      BY <1>1, <1>11, <3>1
  <2>2. ASSUME NEW k \in 0..(n - 1), k \in T
        PROVE  k + 1 \in T
    <3>1. k + 1 \in 1..n /\ (k + 1) - 1 = k /\ k + 1 \in 0..n
      BY <1>1
    <3>2. h[k + 1] = combine_two(h[k], rest[k + 1])
      <4> HIDE DEF h
      <4> QED
        BY <1>11, <3>1
    <3>3. rest[k + 1] \in Seq(Values) /\ h[k] \in Seq(Values)
      BY <1>1, <2>2, <3>1
    <3> HIDE DEF h
    <3> QED
      BY <3>1, <3>2, <3>3, CombineTwo
  <2> HIDE DEF T
  <2>3. \A k \in 0..n : k \in T
    BY <1>1, <2>1, <2>2, IntervalInduction
  <2> QED
    BY <2>3 DEF T
<1>13. h \in [0..n -> Seq(Values)]
  BY <1>12
<1> HIDE DEF h
<1> QED
  BY <1>11, <1>13 DEF LinearByTurns, first, rest

(* What is left of this set by all those that are not empty. *)
Narrowed ==
  {x \in ToSet(lists[1]) : \A n \in DOMAIN lists : lists[n] # <<>> => x \in ToSet(lists[n])}

(* What combining one by one gives, without the fold. *)
LEMMA LinearElements ==
  ASSUME Given
  PROVE  /\ Linear \in Seq(Values) /\ Ascending(Linear)
         /\ intersect => ToSet(Linear) = Narrowed
         /\ ~intersect => ToSet(Linear) = AllOf
<1> DEFINE m == numlists - 1
           UptoAll(k) == {x \in ToSet(lists[1]) : \A j \in 1..(k + 1) :
                            lists[j] # <<>> => x \in ToSet(lists[j])}
           UptoAny(k) == {x \in Values : \E j \in 1..(k + 1) : x \in ToSet(lists[j])}
           Is(s, k) == /\ Ascending(s)
                       /\ intersect => ToSet(s) = UptoAll(k)
                       /\ ~intersect => ToSet(s) = UptoAny(k)
<1>1. /\ m \in Nat /\ DOMAIN lists = 1..(m + 1) /\ 1 \in DOMAIN lists
      /\ \A n \in DOMAIN lists : ToSet(lists[n]) \subseteq Values /\ Ascending(lists[n])
  BY GivenLists, RestOfLists DEF Given
<1>2. PICK h \in [0..m -> Seq(Values)] : LinearByTurns(h)
  BY LinearRecursion
<1>3. /\ h[0] = lists[1] /\ h[m] = Linear
      /\ \A k \in 1..m : k + 1 \in DOMAIN lists /\ lists[k + 1] \in Seq(Values)
                         /\ h[k] = combine_two(h[k - 1], lists[k + 1])
  BY <1>2, RestOfLists DEF LinearByTurns
<1> DEFINE T == {k \in 0..m : Is(h[k], k)}
<1>4. 0 \in T
  <2>1. 1..(0 + 1) = {1} /\ 0 \in 0..m
    BY <1>1
  <2>2. ToSet(lists[1]) = UptoAll(0) /\ ToSet(lists[1]) = UptoAny(0)
    BY <1>1, <2>1
  <2> HIDE DEF UptoAll, UptoAny
  <2> QED
    BY <1>1, <1>3, <2>1, <2>2
<1>5. ASSUME NEW k \in 0..(m - 1), k \in T
      PROVE  k + 1 \in T
  <2>1. k + 1 \in 1..m /\ k + 1 \in 0..m /\ k \in 0..m /\ (k + 1) - 1 = k
    BY <1>1
  <2> DEFINE r == lists[(k + 1) + 1]
  <2>2. /\ h[k + 1] = combine_two(h[k], r) /\ h[k] \in Seq(Values) /\ r \in Seq(Values)
        /\ (k + 1) + 1 \in DOMAIN lists
    BY <1>2, <1>3, <2>1
  <2>3. \A j : j \in 1..((k + 1) + 1) <=> j \in 1..(k + 1) \/ j = (k + 1) + 1
    BY <2>1
  <2>4. UptoAll(k + 1) = IF r = <<>> THEN UptoAll(k) ELSE UptoAll(k) \cap ToSet(r)
    <3>1. \A x : (\A j \in 1..((k + 1) + 1) : lists[j] # <<>> => x \in ToSet(lists[j])) <=>
                 /\ \A j \in 1..(k + 1) : lists[j] # <<>> => x \in ToSet(lists[j])
                 /\ r # <<>> => x \in ToSet(r)
      BY <2>3
    <3> HIDE DEF r
    <3> QED
      BY <3>1
  <2>5. UptoAny(k + 1) = UptoAny(k) \cup ToSet(r)
    <3>1. ToSet(r) \subseteq Values
      BY <1>1, <2>2
    <3> QED
      BY <2>3, <3>1
  <2> HIDE DEF UptoAll, UptoAny, r
  <2>6. Is(h[k], k)
    BY <1>5
  <2>7. /\ Ascending(combine_two(h[k], r))
        /\ ~intersect => ToSet(combine_two(h[k], r)) = ToSet(h[k]) \cup ToSet(r)
        /\ intersect /\ r # <<>> => ToSet(combine_two(h[k], r)) = ToSet(h[k]) \cap ToSet(r)
        /\ intersect /\ r = <<>> => combine_two(h[k], r) = h[k]
    BY <2>2, <2>6, CombineTwo
  <2>8. Is(h[k + 1], k + 1)
    BY <2>2, <2>4, <2>5, <2>6, <2>7 DEF Given
  <2> HIDE DEF Is
  <2> QED
    BY <2>1, <2>8
<1>6. Is(h[m], m)
  <2> HIDE DEF T
  <2>1. m \in 0..m
    BY <1>1
  <2>2. m \in T
    BY <1>1, <1>4, <1>5, <2>1, IntervalInduction
  <2> QED
    BY <2>2 DEF T
<1>7. UptoAll(m) = Narrowed /\ UptoAny(m) = AllOf
  BY <1>1 DEF Narrowed, AllOf
<1>8. Linear \in Seq(Values)
  <2>1. m \in 0..m
    BY <1>1
  <2> QED
    BY <1>2, <1>3, <2>1
<1> HIDE DEF UptoAll, UptoAny, m
<1> QED
  BY <1>3, <1>6, <1>7, <1>8

(* combine has returned early iff there was nothing to make room for.      *)
EarlyMeans ==
  pc = "early" =>
    IF intersect THEN \E n \in DOMAIN lists : lists[n] = <<>>
                 ELSE \A n \in DOMAIN lists : lists[n] = <<>>

LEMMA EarlyInit ==
  ASSUME Init
  PROVE  EarlyMeans
<1> SUFFICES ASSUME room = 0
             PROVE  IF intersect THEN \E n \in DOMAIN lists : lists[n] = <<>>
                                 ELSE \A n \in DOMAIN lists : lists[n] = <<>>
  BY DEF Init, EarlyMeans
<1>1. Given
  BY MInvInit DEF MInv, Merging
<1>2. CASE intersect
  <2>1. PICK n \in DOMAIN lists : minsize = Len(lists[n])
    BY <1>1, MinSize
  <2>2. Len(lists[n]) = 0
    BY <1>2, <2>1 DEF room
  <2> QED
    BY <1>1, <1>2, <2>2, GivenLists, EmptySeq
<1>3. CASE ~intersect
  <2>1. totalsize = 0
    BY <1>3 DEF room
  <2>2. IsFiniteSet(AllOf) /\ Cardinality(AllOf) <= 0
    BY <1>1, <2>1, TotalSize
  <2>3. AllOf = {}
    BY <2>2, FS_CardinalityType, FS_EmptySet
  <2>4. ASSUME NEW n \in DOMAIN lists
        PROVE  lists[n] = <<>>
    <3>1. /\ lists[n] \in Seq(Values) /\ Len(lists[n]) \in Nat
          /\ \A p \in 1..Len(lists[n]) : lists[n][p] \in Values /\ lists[n][p] \in ToSet(lists[n])
      BY <1>1, GivenLists
    <3>2. Len(lists[n]) = 0
      <4>1. ASSUME Len(lists[n]) # 0
            PROVE  lists[n][1] \in AllOf
        <5>1. 1 \in 1..Len(lists[n])
          BY <3>1, <4>1
        <5> QED
          BY <3>1, <5>1 DEF AllOf
      <4> QED
        BY <2>3, <4>1
    <3> QED
      BY <3>1, <3>2, EmptySeq
  <2> QED
    BY <1>3, <2>4
<1> QED
  BY <1>2, <1>3

(* No turn of the loop returns early. *)
LEMMA EarlyStep ==
  ASSUME EarlyMeans, [Next]_vars
  PROVE  EarlyMeans'
<1>1. lists' = lists /\ intersect' = intersect
  BY DEF Next, IntersectTurn, UnionTurn, Returned, vars
<1>2. pc' = "early" => pc = "early"
  BY DEF Next, IntersectTurn, ReachEnd, FindAgain, FindInAll, FindLarger, UnionTurn,
         Returned, vars
<1> QED
  BY <1>1, <1>2 DEF EarlyMeans

(* After the early return this set is as it was, and one by one leaves it  *)
(* so too unless there is a set that would have narrowed it down.          *)
LEMMA EarlyAgrees ==
  ASSUME MInv, EarlyMeans, pc = "early"
  PROVE  Result = Linear <=> ~IgnoresSets
<1> DEFINE this == lists[1]
<1>1. Given
  BY DEF MInv, Merging
<1>2. /\ 1 \in DOMAIN lists /\ Head(lists) = this /\ Result = this
      /\ this \in Seq(Nat) /\ Ascending(this)
  BY <1>1, RestOfLists, GivenLists DEF Result, Given
<1>3. /\ Linear \in Seq(Nat) /\ Ascending(Linear)
      /\ intersect => ToSet(Linear) = Narrowed
      /\ ~intersect => ToSet(Linear) = AllOf
  BY <1>1, LinearElements, SeqMonotonic, CombineAssumption
<1>4. this = Vector(ToSet(this)) /\ Linear = Vector(ToSet(Linear))
  BY <1>2, <1>3, VectorUnique
<1> HIDE DEF this
<1>5. this = Linear <=> ToSet(this) = ToSet(Linear)
  BY <1>4
<1>6. CASE intersect
  <2>1. \E n \in DOMAIN lists : lists[n] = <<>>
    BY <1>6 DEF EarlyMeans
  <2>2. IgnoresSets <=> \E n \in DOMAIN lists :
                          lists[n] # <<>> /\ ~(ToSet(this) \subseteq ToSet(lists[n]))
    BY <1>2, <1>6, <2>1 DEF IgnoresSets
  <2>3. ToSet(this) = Narrowed <=>
          \A n \in DOMAIN lists : lists[n] # <<>> => ToSet(this) \subseteq ToSet(lists[n])
    BY DEF Narrowed, this
  <2> QED
    BY <1>2, <1>3, <1>5, <1>6, <2>2, <2>3
<1>7. CASE ~intersect
  <2>1. \A n \in DOMAIN lists : lists[n] = <<>>
    BY <1>7 DEF EarlyMeans
  <2>2. \A n \in DOMAIN lists : ToSet(lists[n]) = {}
    BY <2>1, EmptySeq DEF ToSet
  <2>3. AllOf = {} /\ ToSet(this) = {}
    BY <1>2, <2>2 DEF AllOf, this
  <2> QED
    BY <1>2, <1>3, <1>5, <1>7, <2>3 DEF IgnoresSets
<1> QED
  BY <1>6, <1>7

(* When the loop is done, one combine of all the sets gives what combining *)
(* them one by one gives.                                                  *)
LEMMA DoneAgrees ==
  ASSUME MInv, pc = "done"
  PROVE  newlist = Linear /\ ~IgnoresSets
<1>1. /\ Given /\ newlist \in Seq(Nat) /\ Ascending(newlist)
      /\ intersect => \A n \in DOMAIN lists : lists[n] # <<>>
  BY SeqMonotonic, CombineAssumption DEF MInv, Merging, TypeOK, Intersecting
<1>2. /\ Linear \in Seq(Nat) /\ Ascending(Linear)
      /\ intersect => ToSet(Linear) = Common
      /\ ~intersect => ToSet(Linear) = AllOf
  <2>1. intersect => Narrowed = Common
    <3>1. 1 \in DOMAIN lists /\ ToSet(lists[1]) \subseteq Values
      BY <1>1, RestOfLists, GivenLists
    <3> QED
      BY <1>1, <3>1 DEF Narrowed, Common
  <2> QED
    BY <1>1, <2>1, LinearElements, SeqMonotonic, CombineAssumption
<1>3. intersect => ToSet(newlist) = Common
  BY DEF MInv, Intersecting
<1>4. ~intersect => ToSet(newlist) = AllOf
  <2> SUFFICES ASSUME ~intersect
               PROVE  Consumed = AllOf
    BY DEF MInv, Uniting
  <2>1. \A n \in DOMAIN lists :
          /\ Len(lists[n]) \in Nat /\ its[n] = Len(lists[n]) + 1
          /\ ToSet(lists[n]) = {lists[n][p] : p \in 1..Len(lists[n])}
    <3>1. \A n \in DOMAIN lists : AtEnd(n)
      BY DEF MInv, Uniting
    <3>2. ASSUME NEW n \in DOMAIN lists
          PROVE  Len(lists[n]) \in Nat /\ its[n] = Len(lists[n]) + 1
      <4>1. Len(lists[n]) \in Nat /\ its[n] \in 1..(Len(lists[n]) + 1)
        BY <1>1, GivenLists DEF MInv, Merging, TypeOK
      <4> QED
        BY <3>1, <4>1 DEF AtEnd
    <3> QED
      BY <1>1, <3>2, GivenLists
  <2>2. \A n \in DOMAIN lists : 1..(its[n] - 1) = 1..Len(lists[n])
    <3>1. ASSUME NEW n \in DOMAIN lists
          PROVE  its[n] - 1 = Len(lists[n])
      BY <2>1
    <3> QED
      BY <3>1
  <2>3. \A n \in DOMAIN lists : \A x :
          x \in ToSet(lists[n]) <=> \E p \in 1..(its[n] - 1) : lists[n][p] = x
    BY <2>1, <2>2
  <2> QED
    BY <2>3 DEF Consumed, AllOf
<1>5. ToSet(newlist) = ToSet(Linear)
  BY <1>1, <1>2, <1>3, <1>4
<1>6. newlist = Vector(ToSet(newlist)) /\ Linear = Vector(ToSet(Linear))
  BY <1>1, <1>2, VectorUnique
<1>7. ~IgnoresSets
  BY <1>1 DEF IgnoresSets
<1> QED
  BY <1>5, <1>6, <1>7, Zenon

(* So the comparison of usersetbase.c prints "Union Boom!" for no sets,    *)
(* and "Intersect Boom!" for those, and only those, with an empty set      *)
(* among them and another that would have narrowed the first down, where   *)
(* combine returns early (usersetbase.h:226).                              *)
THEOREM AgreesAlways == Spec => []AgreesWithLinear
<1>1. Spec => []EarlyMeans
  BY EarlyInit, EarlyStep, PTL DEF Spec
<1>2. MInv /\ EarlyMeans => AgreesWithLinear
  <2> SUFFICES ASSUME MInv, EarlyMeans, pc # "loop"
               PROVE  Result = Linear <=> ~IgnoresSets
    BY DEF AgreesWithLinear
  <2>1. pc = "done" \/ pc = "early"
    BY DEF MInv, Merging, TypeOK
  <2> QED
    BY <2>1, EarlyAgrees, DoneAgrees DEF Result
<1> QED
  BY <1>1, <1>2, MInvAlways, PTL
=============================================================================
