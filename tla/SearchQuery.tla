----------------------------- MODULE SearchQuery -----------------------------
(***************************************************************************)
(* search_data::searchUsers, as a function of the state of SearchData: a   *)
(* search narrows the slots down by userset lists (birthdays, locations,   *)
(* interests, social circles), then scans what is left in slot order,      *)
(* counting the rows that match and collecting one page of userids.        *)
(* Nothing here changes the state; ConcurrentSearch adds the interleaving  *)
(* with the update thread.  What the users asked about are comes from      *)
(* ListHistory, not from the lists that the search goes through.           *)
(***************************************************************************)
EXTENDS ListHistory, SortedVector, SequencesExt

CONSTANT Queries  \* the search_t's asked in every state

(* search_t as searchUsers reads it; the numbers are unsigned. *)
SearchType ==
  [agemin : Nat, agemax : Nat, sex : Nat, active : Nat, pic : Nat,
   single : Nat, sexuality : Nat,
   locs : Seq(Nat), interests : Seq(Nat), socials : Seq(Nat),
   allinterests : BOOLEAN, bday : BOOLEAN,
   quick : BOOLEAN, random : BOOLEAN, rowcount : Nat, offset : Nat]

(* handle_request_search makes a random search quick and cuts it to a row. *)
ASSUME QueryAssumption ==
  /\ Queries \subseteq SearchType
  /\ \A q \in Queries : q.random => q.quick /\ q.offset = 0 /\ q.rowcount = 1

-----------------------------------------------------------------------------
matchUser(user, q) ==
  /\ user["age"] >= q.agemin /\ user["age"] <= q.agemax
  /\ q.sex = 2 \/ user["sex"] = q.sex
  /\ user["active"] >= q.active
  /\ user["pic"] >= q.pic
  /\ user["single"] >= q.single
  /\ q.sexuality = 0 \/ user["sexuality"] = q.sexuality

(* Mutant of intersect_set: an empty operand makes a union of it. *)
union_set(A, B) == A \cup B

(* userset::combine.  A result of size 0 returns early, which is right for *)
(* a union and leaves A as it was for an intersection.                     *)
intersect_set(A, B) == IF A = {} \/ B = {} THEN A ELSE A \cap B

HasInterestList(k) == k < Len(interestlist)

LocsUnion(locs) == UNION {loclist[l] : l \in ToSet(locs) \cap Locations}

InterestsUnion(ks) ==
  UNION {At(interestlist, k) : k \in {k \in ToSet(ks) : HasInterestList(k)}}

(* The "intersect" arm: the test on the second and later interests is the  *)
(* wrong way round, so a defined one empties the set.  An undefined one    *)
(* indexes interestlist past its end: see Undefined.                       *)
InterestsAll(ks) ==
  IF Len(ks) = 1 /\ HasInterestList(ks[1]) THEN At(interestlist, ks[1]) ELSE {}

Undefined(q) ==
  q.allinterests /\ \E n \in 2..Len(q.interests) : ~HasInterestList(q.interests[n])

(* The lists a search intersects, in order.  Nothing ever fills sociallist. *)
Lists(q) ==
  (IF q.bday THEN <<bday>> ELSE <<>>)
  \o (IF q.locs # <<>> THEN <<LocsUnion(q.locs)>> ELSE <<>>)
  \o (IF q.interests = <<>> THEN <<>>
      ELSE IF q.allinterests THEN <<InterestsAll(q.interests)>>
      ELSE <<InterestsUnion(q.interests)>>)
  \o (IF q.socials # <<>> THEN << {} >> ELSE <<>>)

Candidates(q) ==
  IF Lists(q) = <<>> THEN Slots
  ELSE FoldLeft(intersect_set, Head(Lists(q)), Tail(Lists(q)))

(* rand() % 0 with no slot to scan: the process dies. *)
DividesByZero(q) == q.random /\ Lists(q) = <<>> /\ Slots = {}

SlotOrder(q) == Vector(Candidates(q))

(* Mutant of ScanOrders: the scan does not wrap round. *)
ScanTails(q) ==
  LET s == SlotOrder(q) IN
  IF q.random /\ s # <<>> THEN {SubSeq(s, m, Len(s)) : m \in 1..Len(s)} ELSE {s}

(* The order of the scan; a random search starts anywhere and wraps round. *)
ScanOrders(q) ==
  LET s == SlotOrder(q) IN
  IF q.random /\ s # <<>>
  THEN {SubSeq(s, m, Len(s)) \o SubSeq(s, 1, m - 1) : m \in 1..Len(s)}
  ELSE {s}

(* Mutant of ScanRow: the offset is one row off. *)
ScanRowOffByOne(q, acc, i) ==
  IF acc.full \/ ~matchUser(At(userlist, i), q) THEN acc
  ELSE LET total == acc.totalrows + 1
           rows == IF total >= q.offset /\ Len(acc.results) < q.rowcount
                   THEN Append(acc.results, At(usermap, i)) ELSE acc.results
       IN [totalrows |-> total, results |-> rows,
           full |-> q.quick /\ rows # acc.results /\ Len(rows) = q.rowcount]

(* One turn of the loop of scanList and of scanFull, which are the same    *)
(* but for where the slot comes from.                                      *)
ScanRow(q, acc, i) ==
  IF acc.full \/ ~matchUser(At(userlist, i), q) THEN acc
  ELSE LET total == acc.totalrows + 1
           rows == IF total > q.offset /\ Len(acc.results) < q.rowcount
                   THEN Append(acc.results, At(usermap, i)) ELSE acc.results
       IN [totalrows |-> total, results |-> rows,
           full |-> q.quick /\ rows # acc.results /\ Len(rows) = q.rowcount]

Scan(q, order) ==
  FoldLeft(LAMBDA acc, i : ScanRow(q, acc, i),
           [totalrows |-> 0, results |-> <<>>, full |-> FALSE], order)

(* What a search may answer. *)
searchUsers(q) == {Scan(q, order) : order \in ScanOrders(q)}

-----------------------------------------------------------------------------
(* What a search is asked, in terms of users rather than slots.            *)
LivesIn(id, locs) == \E l \in ToSet(locs) : l \in LocPath[users[id]["loc"]]
HasInterest(id, k) == <<id, k + 1>> \in given
HasBday(id) == <<id, 0>> \in given

Asked(q, id) ==
  /\ Exists(id)
  /\ matchUser(users[id], q)
  /\ q.bday => HasBday(id)
  /\ q.locs # <<>> => LivesIn(id, q.locs)
  /\ q.interests # <<>> =>
       IF q.allinterests
       THEN \A n \in DOMAIN q.interests : HasInterest(id, q.interests[n])
       ELSE \E n \in DOMAIN q.interests : HasInterest(id, q.interests[n])
  /\ q.socials = <<>>

Answer(q) == {id \in UserIds : Asked(q, id)}

(* Who is on a list of the search by inheritance, and who has been erased  *)
(* from one of them.                                                       *)
Heirs(q) == {id \in UserIds : \E n \in DOMAIN q.interests : <<id, q.interests[n] + 1>> \in heirs}
Erased(q) ==
  {id \in UserIds : \/ q.bday /\ <<id, 0>> \in erased
                    \/ \E n \in DOMAIN q.interests : <<id, q.interests[n] + 1>> \in erased}

(* All rows in order. *)
WholePage(q) ==
  [q EXCEPT !.quick = FALSE, !.random = FALSE, !.offset = 0, !.rowcount = Len(userlist)]
AllRows(q) == CHOOSE r \in searchUsers(WholePage(q)) : TRUE

Page(rows, offset, rowcount) ==
  LET last == Min({Len(rows), offset + rowcount})
  IN IF offset < last THEN SubSeq(rows, offset + 1, last) ELSE <<>>

(* The cases in which the code does not answer what was asked: criteria    *)
(* that accept the null user find the slots of deleted users, and see      *)
(* EveryListLimits below; and the test for a second interest of an         *)
(* all-interests search is inverted (search.c:595), see InterestsAll.      *)
MatchesNullUsers(q) == matchUser(NullUser, q)
MeetsEmptyList(q) == \E n \in 2..Len(Lists(q)) : Lists(q)[n] = {}
NeedsSeveralInterests(q) == q.allinterests /\ Len(q.interests) > 1
Reliable(q) ==
  ~MatchesNullUsers(q) /\ ~MeetsEmptyList(q) /\ ~NeedsSeveralInterests(q)

(* "array of userids that match", "total rows matched" (search.h:141,142): *)
(* through every history of adds, moves, deletes and slot reuse, a search  *)
(* finds users that are what it asks for, and no user twice, even though   *)
(* it goes through slots and lists of slots.  A user too many is one who   *)
(* came by an interest asked for with its slot, a user missing is one      *)
(* whose entry another's removal has erased from a list asked for.         *)
SearchExact ==
  \A q \in Queries : Reliable(q) =>
    LET r == AllRows(q) IN
    /\ ToSet(r.results) \subseteq Answer(q) \cup Heirs(q)
    /\ Answer(q) \subseteq ToSet(r.results) \cup Erased(q)
    /\ Len(r.results) = Cardinality(ToSet(r.results))
    /\ r.totalrows = Len(r.results)

(* Pages of one search fit together: a page is its part of the whole       *)
(* result, so consecutive pages neither repeat nor skip a user, and        *)
(* "quick", which stops the scan early, changes totalrows only.            *)
PagesFit ==
  \A q \in Queries : ~q.random /\ ~Undefined(q) =>
    \A r \in searchUsers(q) :
      /\ r.results = Page(AllRows(q).results, q.offset, q.rowcount)
      /\ ~q.quick => r.totalrows = AllRows(q).totalrows

(* "return 1 random row" (search.h:136): wherever the scan starts it finds *)
(* a row if there is one, and every row can be the one.                    *)
RandomFindsOne ==
  \A q \in Queries : q.random /\ ~Undefined(q) /\ ~DividesByZero(q) =>
    LET rows == ToSet(AllRows(q).results) IN
    IF rows = {} THEN \A r \in searchUsers(q) : r.results = <<>>
    ELSE /\ \A r \in searchUsers(q) : Len(r.results) = 1
         /\ {r.results[1] : r \in searchUsers(q)} = rows

(* "limit to a subset of the users, as defined above" (search.c:636): a    *)
(* user that fails a criterion of the search is not in its result.         *)
EveryListLimits ==
  \A q \in Queries : ~Undefined(q) =>
    \A n \in DOMAIN Lists(q) : Candidates(q) \subseteq Lists(q)[n]
=============================================================================
