--------------------------- MODULE UserSetCombine ----------------------------
(***************************************************************************)
(* userset::combine of one set with several others (usersetbase.h): the    *)
(* merge of any number of sorted vectors, as union_set and intersect_set   *)
(* of a list of sets run it, one turn of its loop at a time.  The two-set  *)
(* combine, which usersetbase.c times it against and compares it with, is  *)
(* combine_two.  Locks are left out: the sets do not change meanwhile.     *)
(***************************************************************************)
EXTENDS SortedVector, Sequences, SequencesExt

CONSTANTS
  Values,    \* the slots in the sets
  MaxLists,  \* bound: the sets combined
  skip       \* how far an intersection leaps in one set, 10 in the code

ASSUME CombineAssumption ==
  /\ IsFiniteSet(Values) /\ Values \subseteq Nat \ {0}
  /\ MaxLists \in Nat /\ MaxLists >= 2
  /\ skip \in Nat

VARIABLES
  intersect,  \* which of the two it is
  lists,      \* the sorted vectors: this set, then the others
  its,        \* list -> position of its iterator, one past the end at most
  it,         \* the list an intersection looks at
  cur,        \* the value looked for, or found last
  found,      \* in how many lists running it was found
  newlist,    \* the result so far
  pc          \* "loop", then "done", or "early" if it returned before

vars == <<intersect, lists, its, it, cur, found, newlist, pc>>

numlists == Len(lists)
Sizes == {Len(lists[n]) : n \in DOMAIN lists}
minsize == CHOOSE m \in Sizes : \A k \in Sizes : m <= k
totalsizeOfOthers ==  \* mutant of totalsize: this set is not counted
  FoldLeft(LAMBDA sum, list : sum + Len(list), 0, Tail(lists))
totalsize == FoldLeft(LAMBDA sum, list : sum + Len(list), 0, lists)
room == IF intersect THEN minsize ELSE totalsize

(* With nothing to make room for it returns at once: right for a union,    *)
(* while an intersection with an empty set leaves this set as it was.      *)
Init ==
  /\ intersect \in BOOLEAN
  /\ \E n \in 2..MaxLists : \E sets \in [1..n -> SUBSET Values] :
       lists = [m \in 1..n |-> Vector(sets[m])]
  /\ its = [n \in DOMAIN lists |-> 1]
  /\ it = 1 /\ cur = 0 /\ found = 0 /\ newlist = <<>>
  /\ pc = IF room = 0 THEN "early" ELSE "loop"

AtEnd(n) == its[n] > Len(lists[n])
Here(n) == lists[n][its[n]]

(* Mutant of SkipAhead: it leaps over the value it looks for. *)
SkipPast(list, from) ==
  LET leap[p \in 1..(Len(list) + 1)] ==
        IF p + skip <= Len(list) /\ list[p + skip] <= cur THEN leap[p + skip + 1] ELSE p
  IN leap[from]

(* The two inner loops of an intersection: leaps, then single steps, to    *)
(* the first value not below cur.                                          *)
SkipAhead(list, from) ==
  LET leap[p \in 1..(Len(list) + 1)] ==
        IF p + skip <= Len(list) /\ list[p + skip] < cur THEN leap[p + skip + 1] ELSE p
  IN leap[from]

FindIn(list, from) ==
  LET walk[p \in 1..(Len(list) + 1)] ==
        IF p <= Len(list) /\ list[p] < cur THEN walk[p + 1] ELSE p
  IN walk[SkipAhead(list, from)]

NextList == (it % numlists) + 1

(* One turn of the intersection, by where the iterator p comes to rest.    *)
ReachEnd(p) ==
  /\ p > Len(lists[it])
  /\ pc' = "done"
  /\ UNCHANGED <<it, cur, found, newlist>>

(* Mutant of FindAgain: it goes on when the value was found everywhere. *)
FindOnceMore(p) ==
  /\ p <= Len(lists[it]) /\ lists[it][p] = cur
  /\ found' = found + 1 /\ it' = NextList
  /\ UNCHANGED <<cur, newlist, pc>>

(* Mutant of FindAgain: it does not count. *)
FindUncounted(p) ==
  /\ p <= Len(lists[it]) /\ lists[it][p] = cur /\ found + 1 # numlists
  /\ it' = NextList
  /\ UNCHANGED <<cur, found, newlist, pc>>

FindAgain(p) ==
  /\ p <= Len(lists[it]) /\ lists[it][p] = cur /\ found + 1 # numlists
  /\ found' = found + 1 /\ it' = NextList
  /\ UNCHANGED <<cur, newlist, pc>>

FindInAll(p) ==
  /\ p <= Len(lists[it]) /\ lists[it][p] = cur /\ found + 1 = numlists
  /\ newlist' = Append(newlist, cur)
  /\ IF p < Len(lists[it])
     THEN cur' = lists[it][p + 1] /\ found' = 1 /\ it' = NextList /\ UNCHANGED pc
     ELSE pc' = "done" /\ found' = numlists /\ UNCHANGED <<cur, it>>

FindLarger(p) ==
  /\ p <= Len(lists[it]) /\ lists[it][p] > cur
  /\ cur' = lists[it][p] /\ found' = 1 /\ it' = NextList
  /\ UNCHANGED <<newlist, pc>>

IntersectTurn ==
  /\ pc = "loop" /\ intersect
  /\ LET p == FindIn(lists[it], its[it])
     IN /\ its' = [its EXCEPT ![it] =
              IF p <= Len(lists[it]) /\ lists[it][p] = cur /\ found + 1 = numlists
              THEN p + 1 ELSE p]
        /\ ReachEnd(p) \/ FindAgain(p) \/ FindInAll(p) \/ FindLarger(p)
  /\ UNCHANGED <<intersect, lists>>

(* Mutant of Taken: only the first set that has the value goes on. *)
TakenFirst(n) == ~AtEnd(n) /\ Here(n) = cur' /\ \A m \in 1..(n - 1) : AtEnd(m) \/ Here(m) # cur'

(* The sets whose iterators a union moves on, all that have the value. *)
Taken(n) == ~AtEnd(n) /\ Here(n) = cur'

(* One turn of the union: the smallest value any set is at.  A set at its  *)
(* end is out of its, which is the code's list of iterators.               *)
UnionTurn ==
  /\ pc = "loop" /\ ~intersect
  /\ LET heads == {Here(n) : n \in {m \in DOMAIN lists : ~AtEnd(m)}}
     IN cur' = CHOOSE x \in heads : \A y \in heads : x <= y
  /\ newlist' = Append(newlist, cur')
  /\ its' = [n \in DOMAIN lists |-> IF Taken(n) THEN its[n] + 1 ELSE its[n]]
  /\ pc' = IF \A n \in DOMAIN lists : its'[n] > Len(lists[n]) THEN "done" ELSE pc
  /\ UNCHANGED <<intersect, lists, it, found>>

(* The set as it stays, once combine has returned. *)
Returned ==
  /\ pc # "loop"
  /\ UNCHANGED vars

Next == IntersectTurn \/ UnionTurn \/ Returned

(* The loop runs. *)
Spec == Init /\ [][Next]_vars /\ WF_vars(IntersectTurn \/ UnionTurn)

-----------------------------------------------------------------------------
(* The two-set combine on sorted vectors, by std::set_union and            *)
(* std::set_intersection, with the same early return.                      *)
combine_two(list, other) ==
  IF intersect
  THEN IF list = <<>> \/ other = <<>> THEN list ELSE Vector(ToSet(list) \cap ToSet(other))
  ELSE Vector(ToSet(list) \cup ToSet(other))

Linear == FoldLeft(combine_two, Head(lists), Tail(lists))

TypeOK ==
  /\ intersect \in BOOLEAN
  /\ \A n \in DOMAIN lists : its[n] \in 1..(Len(lists[n]) + 1)
  /\ it \in DOMAIN lists /\ cur \in Values \cup {0}
  /\ found \in 0..numlists
  /\ newlist \in Seq(Values)
  /\ pc \in {"loop", "done", "early"}

(* The result is written through a pointer into a vector of minsize or     *)
(* totalsize elements: it never leaves it.                                 *)
NewlistFits == Len(newlist) <= room

(* What an intersection still has to find is ahead of every iterator, and  *)
(* what it passed over is in the result: leaping loses nothing.            *)
Common == {x \in Values : \A n \in DOMAIN lists : x \in ToSet(lists[n])}
NothingMissed ==
  pc = "loop" /\ intersect =>
    \A x \in Common \ ToSet(newlist) :
      x >= cur /\ \A n \in DOMAIN lists : \E p \in its[n]..Len(lists[n]) : lists[n][p] = x

(* This set when combine has returned: the result, or what it was. *)
Result == IF pc = "done" THEN newlist ELSE Head(lists)

(* An intersection with an empty set among the others and, among them too, *)
(* a set that would have narrowed this set down: as in {1, 2}, {}, {2}.    *)
IgnoresSets ==
  /\ intersect
  /\ \E n \in DOMAIN lists : lists[n] = <<>>
  /\ \E n \in DOMAIN lists :
       lists[n] # <<>> /\ ~(ToSet(Head(lists)) \subseteq ToSet(lists[n]))

(* The comparison in usersetbase.c ("Union Boom!", "Intersect Boom!"): one *)
(* combine of all the sets gives what combining them one by one gives,     *)
(* except, and always, when the early return of an intersection keeps it   *)
(* from looking at a set that the two-set combines do look at              *)
(* (usersetbase.h:226).                                                    *)
AgreesWithLinear == pc # "loop" => (Result = Linear <=> ~IgnoresSets)

(* It comes to its end. *)
Terminates == <>(pc # "loop")
=============================================================================
