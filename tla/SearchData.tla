----------------------------- MODULE SearchData ------------------------------
(***************************************************************************)
(* class search_data (search.h, search.c): the users of the daemon, held   *)
(* in slots.  userlist and usermap are indexed by slot, useridmap takes a  *)
(* userid to its slot, and slot 0 is a null user, so useridmap = 0 means   *)
(* "no such user".  A deleted user's slot goes on the free stack           *)
(* deluserlist and is handed to the next new user.  Location lists,        *)
(* interest lists and the birthday list are usersets: sets of SLOTS, not   *)
(* of userids, so every one of them must follow a slot's change of owner.  *)
(*                                                                         *)
(* Each action is one whole public method called with the write lock free: *)
(* the update thread is the only caller once loading is over, and loading  *)
(* (loadusers, loadinterests, fillRandom) calls the same methods.          *)
(***************************************************************************)
EXTENDS UserStruct, Sequences, FiniteSets

CONSTANTS
  UserIds,       \* the userids requests speak of (0 is not special to the code)
  Locations,     \* the ids locationtree covers, 0 included
  locationtree,  \* location -> parent, 0 above a root; loaded before any thread runs
  NewUsers,      \* the structs setUser is given
  Changes,       \* the pairs <<field, value>> of single-field updates
  Interests,     \* the interest ids requests speak of
  NoUser         \* the abstract directory's mark for "no user"

(* The locations the parent loop of setLoc and unsetLoc comes to from l. *)
Closed(S) == \A l \in S \ {0} : locationtree[l] \in S
Reach == [l \in Locations |->
            {k \in Locations : \A S \in SUBSET Locations : l \in S /\ Closed(S) => k \in S}]

(* The loop ends: every chain of parents gets to 0. *)
RootedTree == \A l \in Locations : 0 \in Reach[l]

(* The locations of users are locations of the table.  The code relies on  *)
(* it (setLoc indexes locationtree unchecked) and nothing enforces it.     *)
ASSUME DataAssumption ==
  /\ UserIds \subseteq Nat /\ IsFiniteSet(UserIds)
  /\ Interests \subseteq Nat
  /\ 0 \in Locations /\ Locations \subseteq Nat
  /\ locationtree \in [Locations -> Locations]
  /\ RootedTree
  /\ NewUsers \subseteq User
  /\ \A u \in NewUsers : u["loc"] \in Locations
  /\ Changes \subseteq Fields \X Nat
  /\ \A c \in Changes : c[1] = "loc" => c[2] % FieldSize["loc"] \in Locations
  /\ NoUser \notin User

VARIABLES
  userlist,      \* slot -> struct (a vector: At reads it from index 0)
  usermap,       \* slot -> userid
  useridmap,     \* userid -> slot, 0 also beyond the vector's end
  deluserlist,   \* the stack of empty slots
  loclist,       \* location -> slots, {} also beyond the vector's end
  interestlist,  \* interest -> slots (its size matters to unsetInterest)
  bday,          \* slots of the users with a birthday
  bdayStorage,   \* whether bday's vector has ever allocated storage
  crashed        \* the process died reading past the end of a userset

vars == <<userlist, usermap, useridmap, deluserlist,
          loclist, interestlist, bday, bdayStorage, crashed>>

-----------------------------------------------------------------------------
(* Vectors, indexed from 0. *)
At(v, i) == v[i + 1]
Put(v, i, x) == [v EXCEPT ![i + 1] = x]
Bottom(stack) == stack[1]  \* mutant of Top: the wrong end of the stack
Top(stack) == stack[Len(stack)]
PopNothing(stack) == stack  \* mutant of Pop: no pop_back
Pop(stack) == SubSeq(stack, 1, Len(stack) - 1)

Slot(id) == useridmap[id]
Exists(id) == Slot(id) # 0

(* The loop of setLoc and unsetLoc: a location and everything above it. *)
LocPath == [l \in Locations |-> Reach[l] \ {0}]

SetLoc(lists, l, i) ==
  [k \in Locations |-> IF k \in LocPath[l] THEN lists[k] \cup {i} ELSE lists[k]]

(* Mutant of UnsetLoc: the parents keep the slot. *)
UnsetLocAlone(lists, l, i) == IF l = 0 THEN lists ELSE [lists EXCEPT ![l] = @ \ {i}]

(* Every deleteUser issued here finds its slot: that is LocListExact. *)
UnsetLoc(lists, l, i) ==
  [k \in Locations |-> IF k \in LocPath[l] THEN lists[k] \ {i} ELSE lists[k]]

(* Mutant of DeleteOutcomes: a birthday outlives its user. *)
DeleteNothing(S, storage, i) == {<<S, FALSE>>}

(* userset::deleteUser(i) on a set that may lack i, as pairs <<set after,  *)
(* crashed>>.  lower_bound returns end() when i is above every element,    *)
(* and the code reads *end() all the same: a null pointer when the vector  *)
(* has no storage, else a stale word, which erases end() if it equals i.   *)
(* Erasing end() kills the process or drops the last element, according to *)
(* the library (on an empty set: a size of -1, counted as a crash).        *)
DeleteOutcomes(S, storage, i) ==
  IF i \in S THEN {<<S \ {i}, FALSE>>}
  ELSE IF \E x \in S : x > i THEN {<<S, FALSE>>}
  ELSE IF ~storage THEN {<<S, TRUE>>}
  ELSE {<<S, FALSE>>, <<S, TRUE>>}
       \cup {<<S \ {x}, FALSE>> : x \in {y \in S : \A z \in S : z <= y}}

(* The push_back loop of setInterest. *)
Grown(lists, k) ==
  IF k < Len(lists) THEN lists
  ELSE [j \in 1..(k + 1) |-> IF j \in DOMAIN lists THEN lists[j] ELSE {}]

-----------------------------------------------------------------------------
(* The constructor: only the null user. *)
Init ==
  /\ userlist = <<NullUser>>
  /\ usermap = <<0>>
  /\ useridmap = [id \in UserIds |-> 0]
  /\ deluserlist = <<>>
  /\ loclist = [l \in Locations |-> {}]
  /\ interestlist = <<>>
  /\ bday = {}
  /\ bdayStorage = FALSE
  /\ crashed = FALSE

(* setUser, "already exists, put it there". *)
ReplaceUser(id, user) ==
  LET i == Slot(id)
      old == At(userlist, i)["loc"]
  IN
  /\ Exists(id)
  /\ userlist' = Put(userlist, i, user)
  /\ loclist' = IF old = user["loc"] THEN loclist
                ELSE SetLoc(UnsetLoc(loclist, old, i), user["loc"], i)
  /\ UNCHANGED <<usermap, useridmap, deluserlist>>

(* What taking over the slot on top of the free stack does. *)
TakeFreeSlot(id, user) ==
  LET i == Top(deluserlist) IN
  /\ deluserlist # <<>>
  /\ deluserlist' = Pop(deluserlist)
  /\ userlist' = Put(userlist, i, user)
  /\ useridmap' = [useridmap EXCEPT ![id] = i]
  /\ loclist' = SetLoc(loclist, user["loc"], i)

(* Mutants of ReuseSlot: usermap keeps its 0; an existing user is moved.  *)
ReuseSlotUnnamed(id, user) ==
  ~Exists(id) /\ TakeFreeSlot(id, user) /\ UNCHANGED usermap
ReuseSlotAlways(id, user) ==
  TakeFreeSlot(id, user) /\ usermap' = Put(usermap, Top(deluserlist), id)

(* setUser, "space exists from a previous user". *)
ReuseSlot(id, user) ==
  /\ ~Exists(id)
  /\ TakeFreeSlot(id, user)
  /\ usermap' = Put(usermap, Top(deluserlist), id)

(* What a new slot takes; by itself a mutant of AppendUser that ignores    *)
(* the free slots.                                                         *)
PushUser(id, user) ==
  LET i == Len(userlist) IN
  /\ ~Exists(id)
  /\ userlist' = Append(userlist, user)
  /\ usermap' = Append(usermap, id)
  /\ useridmap' = [useridmap EXCEPT ![id] = i]
  /\ loclist' = SetLoc(loclist, user["loc"], i)
  /\ UNCHANGED deluserlist

(* setUser, "make space". *)
AppendUser(id, user) == deluserlist = <<>> /\ PushUser(id, user)

setUser(id, user) ==
  /\ ~crashed
  /\ ReplaceUser(id, user) \/ ReuseSlot(id, user) \/ AppendUser(id, user)
  /\ UNCHANGED <<interestlist, bday, bdayStorage, crashed>>

(* updateUser with UF_LOC: leave the old lists, store, join the new ones. *)
updateLoc(id, val) ==
  LET i == Slot(id)
      user == SetField(At(userlist, i), "loc", val)
  IN
  /\ ~crashed /\ Exists(id)
  /\ userlist' = Put(userlist, i, user)
  /\ loclist' = SetLoc(UnsetLoc(loclist, At(userlist, i)["loc"], i), user["loc"], i)
  /\ UNCHANGED <<usermap, useridmap, deluserlist, interestlist, bday, bdayStorage, crashed>>

(* updateUser with any other field of the struct. *)
updateField(id, f, val) ==
  LET i == Slot(id) IN
  /\ ~crashed /\ Exists(id)
  /\ f # "loc"
  /\ userlist' = Put(userlist, i, SetField(At(userlist, i), f, val))
  /\ UNCHANGED <<usermap, useridmap, deluserlist, loclist, interestlist,
                 bday, bdayStorage, crashed>>

(* updateUser with UF_ADD_INTEREST; the loader calls setInterest directly. *)
setInterest(id, k) ==
  LET lists == Grown(interestlist, k) IN
  /\ ~crashed /\ Exists(id)
  /\ interestlist' = Put(lists, k, At(lists, k) \cup {Slot(id)})
  /\ UNCHANGED <<userlist, usermap, useridmap, deluserlist, loclist,
                 bday, bdayStorage, crashed>>

(* updateUser with UF_DEL_INTEREST.  The index is not checked against the  *)
(* vector's size: beyond it the process dies or nothing is changed.  Which *)
(* lists have storage is not tracked (growing the vector copies the lists, *)
(* and a copied empty list has none): the outcomes with storage include    *)
(* the crash of a list without.                                            *)
unsetInterest(id, k) ==
  /\ ~crashed /\ Exists(id)
  /\ IF k < Len(interestlist)
     THEN \E d \in DeleteOutcomes(At(interestlist, k), TRUE, Slot(id)) :
            /\ interestlist' = Put(interestlist, k, d[1])
            /\ crashed' = d[2]
     ELSE crashed' \in BOOLEAN /\ UNCHANGED interestlist
  /\ UNCHANGED <<userlist, usermap, useridmap, deluserlist, loclist, bday, bdayStorage>>

(* updateUser with UF_ADD_BDAY.  No handler sends it today. *)
addBday(id) ==
  /\ ~crashed /\ Exists(id)
  /\ bday' = bday \cup {Slot(id)}
  /\ bdayStorage' = TRUE
  /\ UNCHANGED <<userlist, usermap, useridmap, deluserlist, loclist, interestlist, crashed>>

(* updateUser with UF_DEL_BDAY. *)
delBday(id) ==
  /\ ~crashed /\ Exists(id)
  /\ \E d \in DeleteOutcomes(bday, bdayStorage, Slot(id)) :
       bday' = d[1] /\ crashed' = d[2]
  /\ UNCHANGED <<userlist, usermap, useridmap, deluserlist, loclist, interestlist, bdayStorage>>

(* delUser.  The interest lists are not touched. *)
delUser(id) ==
  LET i == Slot(id) IN
  /\ ~crashed /\ Exists(id)
  /\ loclist' = UnsetLoc(loclist, At(userlist, i)["loc"], i)
  /\ useridmap' = [useridmap EXCEPT ![id] = 0]
  /\ usermap' = Put(usermap, i, 0)
  /\ userlist' = Put(userlist, i, NullUser)
  /\ deluserlist' = Append(deluserlist, i)
  /\ \E d \in DeleteOutcomes(bday, bdayStorage, i) :
       bday' = d[1] /\ crashed' = d[2]
  /\ UNCHANGED <<interestlist, bdayStorage>>

Next ==
  \E id \in UserIds :
    \/ \E user \in NewUsers : setUser(id, user)
    \/ \E c \in Changes : c[1] = "loc" /\ updateLoc(id, c[2])
    \/ \E c \in Changes : updateField(id, c[1], c[2])
    \/ \E k \in Interests : setInterest(id, k) \/ unsetInterest(id, k)
    \/ addBday(id) \/ delBday(id)
    \/ delUser(id)

Spec == Init /\ [][Next]_vars

-----------------------------------------------------------------------------
Slots == 1..(Len(userlist) - 1)
LiveSlots == {Slot(id) : id \in UserIds} \ {0}
FreeSlots == {deluserlist[n] : n \in DOMAIN deluserlist}

(* Every variable holds a value of its C++ type, the null user is there,   *)
(* and users live at locations of the table.                               *)
TypeOK ==
  /\ userlist \in Seq(User) /\ userlist # <<>>
  /\ \A i \in Slots : At(userlist, i)["loc"] \in Locations
  /\ usermap \in Seq(UserIds \cup {0})
  /\ useridmap \in [UserIds -> Nat]
  /\ deluserlist \in Seq(Nat)
  /\ loclist \in [Locations -> SUBSET Nat]
  /\ interestlist \in Seq(SUBSET Nat)
  /\ bday \subseteq Nat
  /\ bdayStorage \in BOOLEAN
  /\ crashed \in BOOLEAN

(* "assume usermap and useridmap are already correct" (search.c:152): the  *)
(* two lookup vectors stay each other's inverse through every order of     *)
(* adding, deleting and reusing slots, so a search that finds a slot       *)
(* reports the userid whose struct it matched, and no two userids share a  *)
(* slot.                                                                   *)
MapsAgree ==
  /\ Len(usermap) = Len(userlist)
  /\ \A id \in UserIds : Exists(id) => Slot(id) \in Slots /\ At(usermap, Slot(id)) = id

(* deluserlist, "list of user objs that are empty" (search.h:172), is      *)
(* exact: it holds each slot without an owner, once, and no other; such a  *)
(* slot is a null user.  One entry too many gives two users one slot, one  *)
(* too few wastes the slot for ever.                                       *)
FreeStackExact ==
  /\ FreeSlots = Slots \ LiveSlots
  /\ \A m, n \in DOMAIN deluserlist : deluserlist[m] = deluserlist[n] => m = n
  /\ \A i \in FreeSlots : At(userlist, i) = NullUser /\ At(usermap, i) = 0

(* The lists of loclist follow every add, replace, move, delete and reuse: *)
(* the list of a location is the slots of the users there or in one of its *)
(* sub locations ("list of userids of this location and all sub            *)
(* locations", search.h:164), and slots nobody owns are on none.           *)
LocListExact ==
  \A l \in Locations :
    loclist[l] = {i \in Slots : l \in LocPath[At(userlist, i)["loc"]]}

(* The userset lists never name a slot outside userlist, which a search    *)
(* would read past the end, and the birthday list, which delUser does      *)
(* maintain, names only slots with an owner.                               *)
ListsInRange ==
  /\ \A k \in DOMAIN interestlist : interestlist[k] \subseteq Slots
  /\ bday \subseteq LiveSlots

(* "no wasted space for deleted users": however many adds and deletes,     *)
(* there are never more slots than userids that requests speak of.         *)
NoWastedSpace == Len(userlist) - 1 <= Cardinality(UserIds)

(* /deleteuser is an ordinary request (usersearch.c:381): serving it does  *)
(* not kill the process.                                                   *)
DeletingIsSafe == [][(\E id \in UserIds : delUser(id)) => ~crashed']_vars

(* What a user has is not lost or passed on by somebody else's request: a  *)
(* step moves no user that it leaves alive to another slot, keeps every    *)
(* slot, and hands a slot from one user to another only by way of the free *)
(* stack.                                                                  *)
StableStep ==
  /\ Len(userlist) <= Len(userlist')
  /\ \A id \in UserIds :
       /\ Exists(id) /\ Exists(id)' => Slot(id)' = Slot(id)
       /\ ~Exists(id) /\ Exists(id)' =>
            Slot(id)' \in FreeSlots \/ (FreeSlots = {} /\ Slot(id)' = Len(userlist))
SlotsStable == [][StableStep]_vars

(* The dictionary of users behind the slots: reading a userid through      *)
(* useridmap and userlist gives the struct last stored for that userid,    *)
(* and a request for one user never changes another's.                     *)
users == [id \in UserIds |-> IF Exists(id) THEN At(userlist, Slot(id)) ELSE NoUser]
Directory == INSTANCE UserDirectory
ImplementsDirectory == Directory!Spec
=============================================================================
