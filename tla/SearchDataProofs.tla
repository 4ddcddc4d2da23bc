-------------------------- MODULE SearchDataProofs --------------------------
(***************************************************************************)
(* Proofs about the search data, for every set of users, interests and     *)
(* locations.                                                              *)
(*                                                                         *)
(* SearchData: the inductive invariant of the table of users and of the    *)
(* lists, and that the table implements a dictionary.                      *)
(* Loader: loading is a run of SearchData, so that all of this holds of    *)
(* the daemon from its first row on, and the lists loaded are the rows of  *)
(* the files.                                                              *)
(* ListHistory: which user is on which list of interests or birthdays is   *)
(* told by the calls that gave and took them, the interests inherited with *)
(* a slot, and the entries erased with another's.                          *)
(* SearchQuery: on those invariants, for every set of queries, a search    *)
(* finds who was asked for, but for heirs and the erased, its pages fit    *)
(* together, and a random search finds a row.                              *)
(***************************************************************************)
EXTENDS Loader, SearchQuery, VectorProofs

-----------------------------------------------------------------------------
(* The struct.                                                             *)

(* Every field has at least one value. *)
LEMMA FieldSizePositive == \A f \in Fields : FieldSize[f] \in Nat \ {0}
BY DEF Fields, FieldSize

LEMMA NullUserType == NullUser \in User
BY FieldSizePositive DEF NullUser, User

(* An assignment to a field, of a number of any width, leaves a user_t. *)
LEMMA SetFieldType ==
  ASSUME NEW u \in User, NEW f \in Fields, NEW val \in Nat
  PROVE  /\ SetField(u, f, val) \in User
         /\ \A g \in Fields \ {f} : SetField(u, f, val)[g] = u[g]
         /\ SetField(u, f, val)[f] = val % FieldSize[f]
<1>1. val % FieldSize[f] \in Nat /\ val % FieldSize[f] < FieldSize[f]
  BY FieldSizePositive
<1>2. QED
  BY <1>1 DEF SetField, User

-----------------------------------------------------------------------------
(* Vectors.                                                                *)

LEMMA PutSeq ==
  ASSUME NEW S, NEW v \in Seq(S), NEW i \in 0..(Len(v) - 1), NEW x \in S
  PROVE  /\ Put(v, i, x) \in Seq(S)
         /\ Len(Put(v, i, x)) = Len(v)
         /\ \A j \in 0..(Len(v) - 1) :
              At(Put(v, i, x), j) = IF j = i THEN x ELSE At(v, j)
<1>1. i + 1 \in 1..Len(v)
  OBVIOUS
<1>2. QED
  BY <1>1, ExceptSeq DEF Put, At

LEMMA AppendSeq ==
  ASSUME NEW S, NEW v \in Seq(S), NEW x \in S
  PROVE  /\ Append(v, x) \in Seq(S)
         /\ Len(Append(v, x)) = Len(v) + 1
         /\ At(Append(v, x), Len(v)) = x
         /\ \A j \in 0..(Len(v) - 1) : At(Append(v, x), j) = At(v, j)
BY AppendProperties DEF At

LEMMA PopSeq ==
  ASSUME NEW S, NEW v \in Seq(S), v # <<>>
  PROVE  /\ Pop(v) \in Seq(S)
         /\ Len(v) \in Nat \ {0}
         /\ Len(Pop(v)) = Len(v) - 1
         /\ \A n \in 1..(Len(v) - 1) : Pop(v)[n] = v[n]
         /\ Top(v) = v[Len(v)] /\ Top(v) \in S
<1>1. Len(v) \in Nat \ {0}
  BY EmptySeq
<1>2. \A n \in 1..Len(v) : v[n] \in S
  BY ElementOfSeq
<1>3. Len(v) - 1 \in Int /\ Len(v) - 1 = (Len(v) - 1) - 1 + 1 /\ 1 \in Int
  BY <1>1
<1>4. \A n \in 1..(Len(v) - 1) : v[n] \in S
  BY <1>1, <1>2
<1>5. /\ Pop(v) \in Seq(S)
      /\ Len(Pop(v)) = IF 1 <= Len(v) - 1 THEN (Len(v) - 1) - 1 + 1 ELSE 0
      /\ \A n \in 1..((Len(v) - 1) - 1 + 1) : Pop(v)[n] = v[1 + n - 1]
  BY <1>3, <1>4, SubSeqProperties DEF Pop
<1>6. Len(Pop(v)) = Len(v) - 1
  <2>1. ASSUME NEW n \in Nat \ {0} PROVE (IF 1 <= n - 1 THEN (n - 1) - 1 + 1 ELSE 0) = n - 1
    OBVIOUS
  <2>2. QED
    BY <1>1, <1>5, <2>1
<1>7. ASSUME NEW n \in 1..(Len(v) - 1) PROVE Pop(v)[n] = v[n]
  <2>1. n \in 1..((Len(v) - 1) - 1 + 1) /\ 1 + n - 1 = n
    BY <1>1
  <2>2. QED
    BY <2>1, <1>5
<1>8. QED
  BY <1>1, <1>2, <1>5, <1>6, <1>7 DEF Top

-----------------------------------------------------------------------------
(* The parent loop of setLoc and unsetLoc.                                 *)

(* No location is above 0: the loop stops there. *)
LEMMA LocPathRoot == LocPath[0] = {}
<1>1. 0 \in Locations /\ 0 \in {0} /\ Closed({0})
  BY DataAssumption DEF Closed
<1>2. \A k \in Reach[0] : k = 0
  BY <1>1, DataAssumption DEF Reach
<1>3. QED
  BY <1>2, DataAssumption DEF LocPath

(* The loop visits a location and then what it visits from the parent.     *)
LEMMA LocPathStep ==
  ASSUME NEW l \in Locations \ {0}
  PROVE  LocPath[l] = {l} \cup LocPath[locationtree[l]]
<1> DEFINE p == locationtree[l]
<1>0. p \in Locations
  BY DataAssumption
<1>1. ASSUME NEW k \in Reach[l], k # l
      PROVE  k \in Reach[p]
  <2> SUFFICES ASSUME NEW S \in SUBSET Locations, p \in S, Closed(S)
               PROVE  k \in S
    BY <1>0, <1>1 DEF Reach
  <2>1. Closed(S \cup {l}) /\ l \in S \cup {l} /\ S \cup {l} \in SUBSET Locations
    BY DEF Closed
  <2>2. k \in S \cup {l}
    BY <2>1 DEF Reach
  <2>3. QED
    BY <2>2, <1>1
<1>2. ASSUME NEW k \in Reach[p]
      PROVE  k \in Reach[l]
  BY <1>0, <1>2 DEF Reach, Closed
<1>3. l \in Reach[l]
  BY DEF Reach
<1>4. QED
  BY <1>0, <1>1, <1>2, <1>3 DEF LocPath

-----------------------------------------------------------------------------
(* The inductive invariant: no part of it is inductive without the others. *)
(* Reusing a slot keeps the maps inverse because the free stack holds only *)
(* slots without an owner, and keeps the location lists exact because such *)
(* a slot is a null user, at location 0.                                   *)
IInv ==
  /\ TypeOK
  /\ MapsAgree
  /\ FreeStackExact
  /\ LocListExact
  /\ ListsInRange

LEMMA InitIInv == Init => IInv
<1> SUFFICES ASSUME Init PROVE IInv
  OBVIOUS
<1>1. Len(userlist) = 1 /\ Slots = {} /\ LiveSlots = {} /\ FreeSlots = {}
  BY DEF Init, Slots, LiveSlots, FreeSlots, Slot
<1>2. TypeOK
  <2>1. userlist \in Seq(User) /\ userlist # <<>> /\ usermap \in Seq(UserIds \cup {0})
    BY NullUserType DEF Init
  <2>2. deluserlist \in Seq(Nat) /\ interestlist \in Seq(SUBSET Nat)
    BY EmptySeq DEF Init
  <2>3. QED
    BY <1>1, <2>1, <2>2 DEF Init, TypeOK
<1>3. MapsAgree
  BY <1>1 DEF Init, MapsAgree, Exists, Slot
<1>4. FreeStackExact
  BY <1>1 DEF Init, FreeStackExact
<1>5. LocListExact
  BY <1>1 DEF Init, LocListExact
<1>6. ListsInRange
  BY <1>1 DEF Init, ListsInRange
<1>7. QED
  BY <1>2, <1>3, <1>4, <1>5, <1>6 DEF IInv

(* An existing user's slot is a slot, named by its entry in usermap, and   *)
(* not on the free stack.                                                  *)
LEMMA OwnedSlot ==
  ASSUME IInv, NEW id \in UserIds, Exists(id)
  PROVE  /\ Len(userlist) \in Nat \ {0}
         /\ Slot(id) \in Slots /\ Slot(id) \in LiveSlots
         /\ Slot(id) \notin FreeSlots
         /\ Slot(id) \in 0..(Len(userlist) - 1) /\ Slot(id) # 0
         /\ At(usermap, Slot(id)) = id
         /\ At(userlist, Slot(id)) \in User
         /\ At(userlist, Slot(id))["loc"] \in Locations
<1>1. Len(userlist) \in Nat \ {0}
  BY EmptySeq DEF IInv, TypeOK
<1>2. Slot(id) \in Slots /\ At(usermap, Slot(id)) = id /\ Slot(id) \in LiveSlots
  BY DEF IInv, MapsAgree, LiveSlots, Exists
<1>3. Slot(id) + 1 \in 1..Len(userlist)
  BY <1>1, <1>2 DEF Slots
<1>4. At(userlist, Slot(id)) \in User
  BY <1>3, ElementOfSeq DEF IInv, TypeOK, At
<1>5. QED
  BY <1>1, <1>2, <1>4 DEF IInv, FreeStackExact, TypeOK, Slots

(* Storing a struct in an owned slot while the location lists are moved    *)
(* from the old struct's location to the new one's.                        *)
LEMMA StoreInOwnedSlot ==
  ASSUME IInv, NEW id \in UserIds, Exists(id),
         NEW user \in User, user["loc"] \in Locations,
         userlist' = Put(userlist, Slot(id), user),
         UNCHANGED <<usermap, useridmap, deluserlist, interestlist, bday,
                     bdayStorage, crashed>>,
         \/ /\ user["loc"] = At(userlist, Slot(id))["loc"]
            /\ loclist' = loclist
         \/ loclist' = SetLoc(UnsetLoc(loclist, At(userlist, Slot(id))["loc"], Slot(id)),
                              user["loc"], Slot(id))
  PROVE  IInv'
<1> DEFINE i == Slot(id)
           old == At(userlist, i)["loc"]
           new == user["loc"]
<1>1. /\ Len(userlist) \in Nat \ {0} /\ userlist \in Seq(User)
      /\ i \in Slots /\ i \in 0..(Len(userlist) - 1) /\ i \notin FreeSlots
      /\ old \in Locations
  BY OwnedSlot DEF IInv, TypeOK
<1>2. /\ userlist' \in Seq(User) /\ Len(userlist') = Len(userlist)
      /\ \A j \in 0..(Len(userlist) - 1) :
           At(userlist, j)' = IF j = i THEN user ELSE At(userlist, j)
  <2>1. userlist \in Seq(User) /\ i \in 0..(Len(userlist) - 1) /\ user \in User
    BY <1>1
  <2>2. userlist' = Put(userlist, i, user)
    OBVIOUS
  <2> HIDE DEF i
  <2>3. /\ Put(userlist, i, user) \in Seq(User)
        /\ Len(Put(userlist, i, user)) = Len(userlist)
        /\ \A j \in 0..(Len(userlist) - 1) :
             At(Put(userlist, i, user), j) = IF j = i THEN user ELSE At(userlist, j)
    BY ONLY <2>1, PutSeq
  <2>4. QED
    BY <2>2, <2>3 DEF At
<1>3. Slots' = Slots /\ LiveSlots' = LiveSlots /\ FreeSlots' = FreeSlots
  BY <1>2 DEF Slots, LiveSlots, FreeSlots, Slot
<1>4. \A j \in Slots : At(userlist, j)' = IF j = i THEN user ELSE At(userlist, j)
  BY <1>1, <1>2 DEF Slots
<1>5. loclist' \in [Locations -> SUBSET Nat]
  BY <1>1 DEF IInv, TypeOK, SetLoc, UnsetLoc, Slots
<1>6. TypeOK'
  <2>1. userlist' # <<>>
    BY <1>1, <1>2, EmptySeq
  <2>2. \A j \in Slots' : (At(userlist, j)["loc"])' \in Locations
    BY <1>3, <1>4 DEF IInv, TypeOK
  <2>3. QED
    BY <1>2, <1>5, <2>1, <2>2 DEF IInv, TypeOK
<1>7. MapsAgree'
  BY <1>2, <1>3 DEF IInv, MapsAgree, Exists, Slot, At
<1>8. FreeStackExact'
  BY <1>1, <1>3, <1>4 DEF IInv, FreeStackExact, At
<1>9. LocListExact'
  <2> SUFFICES ASSUME NEW l \in Locations
               PROVE  loclist'[l] = {j \in Slots : l \in LocPath[(At(userlist, j)["loc"])']}
    BY <1>3 DEF LocListExact
  <2>1. loclist[l] = {j \in Slots : l \in LocPath[At(userlist, j)["loc"]]}
    BY DEF IInv, LocListExact
  <2>2. \A j \in Slots : (At(userlist, j)["loc"])' = IF j = i THEN new ELSE At(userlist, j)["loc"]
    BY <1>4
  <2>3. CASE new = old /\ loclist' = loclist
    BY <2>1, <2>2, <2>3
  <2>4. CASE loclist' = SetLoc(UnsetLoc(loclist, old, i), new, i)
    <3>1. loclist'[l] = IF l \in LocPath[new] THEN (loclist[l] \ {i}) \cup {i}
                        ELSE loclist[l] \ {i}
      BY <2>1, <2>4, <1>1 DEF SetLoc, UnsetLoc
    <3>2. QED
      BY <2>1, <2>2, <3>1, <1>1
  <2>5. QED
    BY <2>3, <2>4
<1>10. ListsInRange'
  BY <1>3 DEF IInv, ListsInRange
<1>11. QED
  BY <1>6, <1>7, <1>8, <1>9, <1>10 DEF IInv

(* A new user in the slot on top of the free stack. *)
LEMMA ReuseSlotIInv ==
  ASSUME IInv, NEW id \in UserIds, NEW user \in NewUsers, ReuseSlot(id, user),
         UNCHANGED <<interestlist, bday, bdayStorage, crashed>>
  PROVE  IInv'
<1> DEFINE i == Top(deluserlist)
<1>0. /\ userlist \in Seq(User) /\ usermap \in Seq(UserIds \cup {0})
      /\ useridmap \in [UserIds -> Nat]
      /\ deluserlist \in Seq(Nat) /\ deluserlist # <<>>
      /\ Len(usermap) = Len(userlist) /\ Len(userlist) \in Nat \ {0}
      /\ user \in User /\ user["loc"] \in Locations
  BY DataAssumption, EmptySeq DEF IInv, TypeOK, MapsAgree, ReuseSlot, TakeFreeSlot
<1>1. /\ Pop(deluserlist) \in Seq(Nat) /\ Len(deluserlist) \in Nat \ {0}
      /\ Len(Pop(deluserlist)) = Len(deluserlist) - 1
      /\ \A n \in 1..(Len(deluserlist) - 1) : Pop(deluserlist)[n] = deluserlist[n]
      /\ i = deluserlist[Len(deluserlist)]
      /\ DOMAIN deluserlist = 1..Len(deluserlist)
      /\ DOMAIN Pop(deluserlist) = 1..(Len(deluserlist) - 1)
  <2>1. deluserlist \in Seq(Nat) /\ deluserlist # <<>>
    BY <1>0
  <2>2. /\ Pop(deluserlist) \in Seq(Nat) /\ Len(deluserlist) \in Nat \ {0}
        /\ Len(Pop(deluserlist)) = Len(deluserlist) - 1
        /\ \A n \in 1..(Len(deluserlist) - 1) : Pop(deluserlist)[n] = deluserlist[n]
        /\ Top(deluserlist) = deluserlist[Len(deluserlist)]
    BY ONLY <2>1, PopSeq
  <2>3. DOMAIN deluserlist = 1..Len(deluserlist)
    BY ONLY <2>1, LenProperties
  <2>4. DOMAIN Pop(deluserlist) = 1..(Len(deluserlist) - 1)
    BY ONLY <2>2, LenProperties
  <2>5. QED
    BY <2>2, <2>3, <2>4
<1>2. deluserlist' = Pop(deluserlist)
  BY DEF ReuseSlot, TakeFreeSlot
<1>3. FreeSlots' = FreeSlots \ {i} /\ i \in FreeSlots
  <2>1. \A m, n \in DOMAIN deluserlist : deluserlist[m] = deluserlist[n] => m = n
    BY DEF IInv, FreeStackExact
  <2>2. QED
    BY <1>1, <1>2, <2>1 DEF FreeSlots
<1>4. /\ i \in Slots /\ i \notin LiveSlots /\ At(userlist, i) = NullUser
      /\ i # 0 /\ i \in 0..(Len(userlist) - 1) /\ i \in Nat
  BY <1>0, <1>3 DEF IInv, FreeStackExact, Slots
<1> HIDE DEF i
<1>5. /\ userlist' \in Seq(User) /\ Len(userlist') = Len(userlist)
      /\ \A j \in 0..(Len(userlist) - 1) :
           At(userlist, j)' = IF j = i THEN user ELSE At(userlist, j)
  <2>1. /\ Put(userlist, i, user) \in Seq(User)
        /\ Len(Put(userlist, i, user)) = Len(userlist)
        /\ \A j \in 0..(Len(userlist) - 1) :
             At(Put(userlist, i, user), j) = IF j = i THEN user ELSE At(userlist, j)
    <3>1. userlist \in Seq(User) /\ user \in User /\ i \in 0..(Len(userlist) - 1)
      BY <1>0, <1>4
    <3>2. QED
      BY ONLY <3>1, PutSeq
  <2>2. QED
    BY <2>1 DEF ReuseSlot, TakeFreeSlot, At, i
<1>6. /\ usermap' \in Seq(UserIds \cup {0}) /\ Len(usermap') = Len(userlist)
      /\ \A j \in 0..(Len(userlist) - 1) :
           At(usermap, j)' = IF j = i THEN id ELSE At(usermap, j)
  <2>1. /\ Put(usermap, i, id) \in Seq(UserIds \cup {0})
        /\ Len(Put(usermap, i, id)) = Len(usermap)
        /\ \A j \in 0..(Len(usermap) - 1) :
             At(Put(usermap, i, id), j) = IF j = i THEN id ELSE At(usermap, j)
    <3> DEFINE Ids == UserIds \cup {0}
    <3>1. usermap \in Seq(Ids) /\ id \in Ids /\ i \in 0..(Len(usermap) - 1)
      BY <1>0, <1>4
    <3> HIDE DEF Ids
    <3>2. /\ Put(usermap, i, id) \in Seq(Ids)
          /\ Len(Put(usermap, i, id)) = Len(usermap)
          /\ \A j \in 0..(Len(usermap) - 1) :
               At(Put(usermap, i, id), j) = IF j = i THEN id ELSE At(usermap, j)
      BY ONLY <3>1, PutSeq
    <3>3. QED
      BY <3>2 DEF Ids
  <2>2. QED
    BY <1>0, <2>1 DEF ReuseSlot, TakeFreeSlot, At, i
<1>7. /\ useridmap' = [useridmap EXCEPT ![id] = i] /\ useridmap[id] = 0
      /\ loclist' = SetLoc(loclist, user["loc"], i)
  BY DEF ReuseSlot, TakeFreeSlot, i, Exists, Slot
<1>8. Slots' = Slots /\ LiveSlots' = LiveSlots \cup {i}
  BY <1>0, <1>4, <1>5, <1>7 DEF Slots, LiveSlots, Slot
<1>9. TypeOK'
  <2>1. userlist' # <<>>
    BY <1>0, <1>5, EmptySeq
  <2>2. \A j \in Slots' : (At(userlist, j)["loc"])' \in Locations
    <3>1. \A j \in Slots : j \in 0..(Len(userlist) - 1) /\ At(userlist, j)["loc"] \in Locations
      BY <1>0 DEF IInv, TypeOK, Slots
    <3>2. QED
      BY <1>0, <1>5, <1>8, <3>1
  <2>3. useridmap' \in [UserIds -> Nat] /\ loclist' \in [Locations -> SUBSET Nat]
    BY <1>0, <1>4, <1>7 DEF IInv, TypeOK, SetLoc
  <2>4. QED
    BY <1>1, <1>2, <1>5, <1>6, <2>1, <2>2, <2>3 DEF IInv, TypeOK
<1>10. MapsAgree'
  <2> SUFFICES ASSUME NEW k \in UserIds, useridmap'[k] # 0
               PROVE  useridmap'[k] \in Slots /\ At(usermap, useridmap[k])' = k
    BY <1>0, <1>5, <1>6, <1>8 DEF MapsAgree, Exists, Slot, At
  <2>1. CASE k = id
    BY <2>1, <1>0, <1>4, <1>6, <1>7 DEF At
  <2>2. CASE k # id
    <3>1. useridmap'[k] = useridmap[k] /\ useridmap[k] # 0
      BY <2>2, <1>0, <1>7
    <3>2. useridmap[k] \in Slots /\ useridmap[k] \in LiveSlots /\ At(usermap, useridmap[k]) = k
      BY <3>1 DEF IInv, MapsAgree, Exists, Slot, LiveSlots
    <3>3. useridmap[k] # i /\ useridmap[k] \in 0..(Len(userlist) - 1)
      BY <3>2, <1>0, <1>4 DEF Slots
    <3>4. QED
      BY <3>1, <3>2, <3>3, <1>6 DEF At
  <2>3. QED
    BY <2>1, <2>2
<1>11. FreeStackExact'
  <2>1. FreeSlots' = Slots' \ LiveSlots'
    BY <1>3, <1>8 DEF IInv, FreeStackExact
  <2>2. \A m, n \in DOMAIN deluserlist' : deluserlist'[m] = deluserlist'[n] => m = n
    BY <1>1, <1>2 DEF IInv, FreeStackExact
  <2>3. ASSUME NEW j \in FreeSlots'
        PROVE  At(userlist, j)' = NullUser /\ At(usermap, j)' = 0
    BY <1>0, <1>3, <1>5, <1>6 DEF IInv, FreeStackExact, Slots
  <2>4. QED
    BY <2>1, <2>2, <2>3 DEF FreeStackExact
<1>12. LocListExact'
  <2> SUFFICES ASSUME NEW l \in Locations
               PROVE  loclist'[l] = {j \in Slots : l \in LocPath[(At(userlist, j)["loc"])']}
    BY <1>8 DEF LocListExact
  <2>1. loclist[l] = {j \in Slots : l \in LocPath[At(userlist, j)["loc"]]}
    BY DEF IInv, LocListExact
  <2>2. \A j \in Slots : (At(userlist, j)["loc"])' =
                          IF j = i THEN user["loc"] ELSE At(userlist, j)["loc"]
    BY <1>0, <1>5 DEF Slots
  <2>3. LocPath[At(userlist, i)["loc"]] = {}
    BY <1>4, LocPathRoot DEF NullUser, Fields
  <2>4. loclist'[l] = IF l \in LocPath[user["loc"]] THEN loclist[l] \cup {i} ELSE loclist[l]
    BY <1>7 DEF SetLoc
  <2>5. QED
    BY <1>4, <2>1, <2>2, <2>3, <2>4
<1>13. ListsInRange'
  BY <1>8 DEF IInv, ListsInRange
<1>14. QED
  BY <1>9, <1>10, <1>11, <1>12, <1>13 DEF IInv

(* A new user in a new slot: nothing was free, so every old slot is owned. *)
LEMMA AppendUserIInv ==
  ASSUME IInv, NEW id \in UserIds, NEW user \in NewUsers, AppendUser(id, user),
         UNCHANGED <<interestlist, bday, bdayStorage, crashed>>
  PROVE  IInv'
<1> DEFINE i == Len(userlist)
           Ids == UserIds \cup {0}
<1>0. /\ userlist \in Seq(User) /\ usermap \in Seq(Ids) /\ id \in Ids
      /\ useridmap \in [UserIds -> Nat]
      /\ Len(usermap) = i /\ i \in Nat \ {0}
      /\ user \in User /\ user["loc"] \in Locations
  BY DataAssumption, EmptySeq DEF IInv, TypeOK, MapsAgree
<1>1. /\ useridmap' = [useridmap EXCEPT ![id] = i] /\ useridmap[id] = 0
      /\ loclist' = SetLoc(loclist, user["loc"], i)
      /\ userlist' = Append(userlist, user) /\ usermap' = Append(usermap, id)
      /\ deluserlist' = deluserlist /\ deluserlist = <<>>
  BY DEF AppendUser, PushUser, Exists, Slot
<1> HIDE DEF Ids
<1>2. /\ Append(userlist, user) \in Seq(User) /\ Len(Append(userlist, user)) = Len(userlist) + 1
      /\ At(Append(userlist, user), Len(userlist)) = user
      /\ \A j \in 0..(Len(userlist) - 1) : At(Append(userlist, user), j) = At(userlist, j)
  <2>1. userlist \in Seq(User) /\ user \in User
    BY <1>0
  <2>2. QED
    BY ONLY <2>1, AppendSeq
<1>3. /\ Append(usermap, id) \in Seq(Ids) /\ Len(Append(usermap, id)) = Len(usermap) + 1
      /\ At(Append(usermap, id), Len(usermap)) = id
      /\ \A j \in 0..(Len(usermap) - 1) : At(Append(usermap, id), j) = At(usermap, j)
  <2>1. usermap \in Seq(Ids) /\ id \in Ids
    BY <1>0
  <2>2. QED
    BY ONLY <2>1, AppendSeq
<1> HIDE DEF i
<1>4. /\ userlist' \in Seq(User) /\ Len(userlist') = i + 1 /\ At(userlist', i) = user
      /\ usermap' \in Seq(Ids) /\ Len(usermap') = i + 1 /\ At(usermap', i) = id
      /\ \A j \in 0..(i - 1) : At(userlist, j)' = At(userlist, j)
                              /\ At(usermap, j)' = At(usermap, j)
  <2>1. userlist' \in Seq(User) /\ Len(userlist') = i + 1 /\ At(userlist', i) = user
    BY <1>1, <1>2 DEF At, i
  <2>2. usermap' \in Seq(Ids) /\ Len(usermap') = i + 1 /\ At(usermap', i) = id
    BY <1>0, <1>1, <1>3 DEF At, i
  <2>3. \A j \in 0..(i - 1) : At(userlist, j)' = At(userlist, j)
    BY <1>1, <1>2 DEF At, i
  <2>4. \A j \in 0..(i - 1) : At(usermap, j)' = At(usermap, j)
    BY <1>0, <1>1, <1>3 DEF At, i
  <2>5. QED
    BY <2>1, <2>2, <2>3, <2>4
<1>5. /\ Slots = 1..(i - 1) /\ Slots' = Slots \cup {i} /\ i \notin Slots
      /\ i \in Slots' /\ \A j \in Slots : j \in 0..(i - 1)
  BY <1>0, <1>4 DEF Slots, i
<1>6. FreeSlots = {} /\ FreeSlots' = {} /\ Slots \subseteq LiveSlots
  BY <1>1 DEF IInv, FreeStackExact, FreeSlots
<1>7. LiveSlots' = LiveSlots \cup {i}
  BY <1>0, <1>1 DEF LiveSlots, Slot
<1>8. \A j \in Slots' : (At(userlist, j)["loc"])' =
                       IF j = i THEN user["loc"] ELSE At(userlist, j)["loc"]
  <2>1. ASSUME NEW j \in Slots' PROVE At(userlist, j)' = IF j = i THEN user ELSE At(userlist, j)
    <3>1. CASE j = i
      BY <3>1, <1>4 DEF At
    <3>2. CASE j # i
      BY <3>2, <1>4, <1>5
    <3>3. QED
      BY <3>1, <3>2
  <2>2. QED
    BY <2>1
<1>14. TypeOK'
  <2>1. userlist' # <<>>
    BY <1>0, <1>4, EmptySeq
  <2>2. \A j \in Slots' : (At(userlist, j)["loc"])' \in Locations
    <3>1. \A j \in Slots : At(userlist, j)["loc"] \in Locations
      BY DEF IInv, TypeOK
    <3>2. QED
      BY <3>1, <1>0, <1>5, <1>8
  <2>3. useridmap' \in [UserIds -> Nat] /\ loclist' \in [Locations -> SUBSET Nat]
    BY <1>0, <1>1 DEF IInv, TypeOK, SetLoc
  <2>4. QED
    BY <1>1, <1>4, <2>1, <2>2, <2>3 DEF IInv, TypeOK, Ids
<1>9. MapsAgree'
  <2> SUFFICES ASSUME NEW k \in UserIds, useridmap'[k] # 0
               PROVE  useridmap'[k] \in Slots' /\ At(usermap, useridmap[k])' = k
    BY <1>4 DEF MapsAgree, Exists, Slot, At
  <2>1. CASE k = id
    BY <2>1, <1>0, <1>1, <1>4, <1>5 DEF At
  <2>2. CASE k # id
    <3>1. useridmap'[k] = useridmap[k] /\ useridmap[k] # 0
      BY <2>2, <1>0, <1>1
    <3>2. useridmap[k] \in Slots /\ At(usermap, useridmap[k]) = k
      BY <3>1 DEF IInv, MapsAgree, Exists, Slot
    <3>3. QED
      BY <3>1, <3>2, <1>4, <1>5 DEF At
  <2>3. QED
    BY <2>1, <2>2
<1>10. FreeStackExact'
  <2>1. Slots \cup {i} \subseteq LiveSlots'
    BY <1>6, <1>7
  <2>2. QED
    BY <1>1, <1>5, <1>6, <2>1 DEF FreeStackExact
<1>11. LocListExact'
  <2> SUFFICES ASSUME NEW l \in Locations
               PROVE  loclist'[l] = {j \in Slots' : l \in LocPath[(At(userlist, j)["loc"])']}
    BY DEF LocListExact
  <2>1. loclist[l] = {j \in Slots : l \in LocPath[At(userlist, j)["loc"]]}
    BY DEF IInv, LocListExact
  <2>2. loclist'[l] = IF l \in LocPath[user["loc"]] THEN loclist[l] \cup {i} ELSE loclist[l]
    BY <1>1 DEF SetLoc
  <2>3. QED
    BY <1>5, <1>8, <2>1, <2>2
<1>12. ListsInRange'
  BY <1>5, <1>7 DEF IInv, ListsInRange
<1>13. QED
  BY <1>9, <1>10, <1>11, <1>12, <1>14 DEF IInv

(* Whatever deleteUser does to a set that lacks the slot, it adds nothing, *)
(* and the slot is not in the set afterwards.                              *)
LEMMA DeleteOutcomesShrink ==
  ASSUME NEW S, NEW storage \in BOOLEAN, NEW i,
         NEW d \in DeleteOutcomes(S, storage, i)
  PROVE  d[1] \subseteq S \ {i} /\ d[2] \in BOOLEAN
<1>1. CASE d = <<S \ {i}, FALSE>>
  BY <1>1
<1>2. CASE i \notin S /\ d \in {<<S, FALSE>>, <<S, TRUE>>}
  <2>1. CASE d = <<S, FALSE>>
    BY <1>2, <2>1
  <2>2. CASE d = <<S, TRUE>>
    BY <1>2, <2>2
  <2>3. QED
    BY <1>2, <2>1, <2>2
<1>3. CASE i \notin S /\ \E x \in S : d = <<S \ {x}, FALSE>>
  BY <1>3
<1>4. \/ d = <<S \ {i}, FALSE>>
      \/ i \notin S /\ d \in {<<S, FALSE>>, <<S, TRUE>>}
      \/ i \notin S /\ \E x \in S : d = <<S \ {x}, FALSE>>
  BY Zenon DEF DeleteOutcomes
<1>5. QED
  BY <1>1, <1>2, <1>3, <1>4

(* Only the interest lists, the birthday list or the process change, and   *)
(* the lists stay in range.                                                *)
LEMMA ListsOnlyIInv ==
  ASSUME IInv,
         UNCHANGED <<userlist, usermap, useridmap, deluserlist, loclist>>,
         interestlist' \in Seq(SUBSET Nat),
         \A k \in DOMAIN interestlist' : interestlist'[k] \subseteq Slots,
         bday' \subseteq LiveSlots,
         bdayStorage' \in BOOLEAN, crashed' \in BOOLEAN
  PROVE  IInv'
<1>1. /\ Slots' = Slots /\ LiveSlots' = LiveSlots /\ FreeSlots' = FreeSlots
      /\ LiveSlots \subseteq Nat
  BY DEF Slots, LiveSlots, FreeSlots, Slot, IInv, TypeOK
<1>2. TypeOK'
  BY <1>1 DEF IInv, TypeOK, At
<1>3. MapsAgree'
  BY <1>1 DEF IInv, MapsAgree, Exists, Slot, At
<1>4. FreeStackExact'
  BY <1>1 DEF IInv, FreeStackExact, At
<1>5. LocListExact'
  BY <1>1 DEF IInv, LocListExact, At
<1>6. ListsInRange'
  BY <1>1 DEF ListsInRange
<1>7. QED
  BY <1>2, <1>3, <1>4, <1>5, <1>6 DEF IInv

LEMMA setInterestIInv ==
  ASSUME IInv, NEW id \in UserIds, NEW k \in Interests, setInterest(id, k)
  PROVE  IInv'
<1> DEFINE lists == Grown(interestlist, k)
           i == Slot(id)
<1>1. k \in Nat /\ i \in Slots /\ Slots \subseteq Nat
  BY DataAssumption, OwnedSlot DEF setInterest, Slots
<1>2. /\ interestlist \in Seq(SUBSET Slots) /\ Len(interestlist) \in Nat
      /\ DOMAIN interestlist = 1..Len(interestlist)
  <2>1. /\ interestlist \in [1..Len(interestlist) -> SUBSET Nat] /\ Len(interestlist) \in Nat
        /\ DOMAIN interestlist = 1..Len(interestlist)
    BY LenProperties DEF IInv, TypeOK
  <2>2. \A n \in 1..Len(interestlist) : interestlist[n] \in SUBSET Slots
    BY <2>1 DEF IInv, ListsInRange
  <2>3. interestlist \in [1..Len(interestlist) -> SUBSET Slots]
    BY <2>1, <2>2
  <2>4. QED
    BY <2>1, <2>3, SeqDef
<1>3. lists \in Seq(SUBSET Slots) /\ k \in 0..(Len(lists) - 1)
  <2>1. CASE k < Len(interestlist)
    BY <1>1, <1>2, <2>1 DEF Grown
  <2>2. CASE ~(k < Len(interestlist))
    <3>1. lists = [j \in 1..(k + 1) |-> IF j \in DOMAIN interestlist THEN interestlist[j] ELSE {}]
      BY <2>2 DEF Grown
    <3>2. \A j \in 1..(k + 1) :
            (IF j \in DOMAIN interestlist THEN interestlist[j] ELSE {}) \in SUBSET Slots
      BY <1>2, ElementOfSeq
    <3>3. lists \in [1..(k + 1) -> SUBSET Slots]
      BY <3>1, <3>2
    <3>4. k + 1 \in Nat
      BY <1>1
    <3>5. lists \in Seq(SUBSET Slots) /\ Len(lists) = k + 1
      BY <3>1, <3>3, <3>4, SeqDef
    <3>6. QED
      BY <1>1, <3>5
  <2>3. QED
    BY <2>1, <2>2
<1>4. interestlist' = Put(lists, k, At(lists, k) \cup {i})
  BY DEF setInterest
<1> HIDE DEF lists, i
<1>5. At(lists, k) \cup {i} \in SUBSET Slots
  <2>1. k + 1 \in 1..Len(lists)
    BY <1>1, <1>3
  <2>2. QED
    BY <1>1, <1>3, <2>1, ElementOfSeq DEF At
<1>6. interestlist' \in Seq(SUBSET Slots)
  BY ONLY <1>3, <1>4, <1>5, PutSeq
<1>7. /\ interestlist' \in Seq(SUBSET Nat)
      /\ \A n \in DOMAIN interestlist' : interestlist'[n] \subseteq Slots
  <2>1. SUBSET Slots \subseteq SUBSET Nat
    BY <1>1
  <2>2. interestlist' \in Seq(SUBSET Nat)
    BY <1>6, <2>1, SeqMonotonic
  <2>3. \A n \in DOMAIN interestlist' : interestlist'[n] \in SUBSET Slots
    BY <1>6, ElementOfSeq, LenProperties
  <2>4. QED
    BY <2>2, <2>3
<1>8. QED
  BY <1>7, ListsOnlyIInv DEF IInv, TypeOK, ListsInRange, setInterest

LEMMA unsetInterestIInv ==
  ASSUME IInv, NEW id \in UserIds, NEW k \in Interests, unsetInterest(id, k)
  PROVE  IInv'
<1> DEFINE i == Slot(id)
<1>1. CASE k < Len(interestlist)
  <2>1. PICK d \in DeleteOutcomes(At(interestlist, k), TRUE, i) :
               interestlist' = Put(interestlist, k, d[1]) /\ crashed' = d[2]
    BY <1>1 DEF unsetInterest
  <2>2. d[1] \subseteq At(interestlist, k) /\ d[2] \in BOOLEAN
    BY DeleteOutcomesShrink
  <2>3. /\ interestlist \in Seq(SUBSET Nat) /\ Len(interestlist) \in Nat
        /\ DOMAIN interestlist = 1..Len(interestlist)
    BY LenProperties DEF IInv, TypeOK
  <2>4. k \in 0..(Len(interestlist) - 1) /\ k + 1 \in 1..Len(interestlist)
    BY <1>1, <2>3, DataAssumption
  <2>5. d[1] \in SUBSET Nat
    BY <2>2, <2>3, <2>4, ElementOfSeq DEF At
  <2>6. interestlist' = [interestlist EXCEPT ![k + 1] = d[1]]
    BY <2>1 DEF Put
  <2>7. interestlist' \in Seq(SUBSET Nat)
    BY <2>3, <2>4, <2>5, <2>6, ExceptSeq
  <2>8. \A n \in DOMAIN interestlist' : interestlist'[n] \subseteq Slots
    BY <2>2, <2>3, <2>4, <2>6 DEF IInv, ListsInRange, At
  <2>9. QED
    BY <2>1, <2>2, <2>7, <2>8, ListsOnlyIInv DEF IInv, TypeOK, ListsInRange, unsetInterest
<1>2. CASE ~(k < Len(interestlist))
  <2>1. interestlist' = interestlist /\ crashed' \in BOOLEAN
    BY <1>2 DEF unsetInterest
  <2>2. QED
    BY <2>1, ListsOnlyIInv DEF IInv, TypeOK, ListsInRange, unsetInterest
<1>3. QED
  BY <1>1, <1>2

LEMMA bdayIInv ==
  ASSUME IInv, NEW id \in UserIds, addBday(id) \/ delBday(id)
  PROVE  IInv'
<1> DEFINE i == Slot(id)
<1>1. CASE addBday(id)
  <2>1. i \in LiveSlots
    BY <1>1, OwnedSlot DEF addBday
  <2>2. bday' \subseteq LiveSlots /\ bdayStorage' \in BOOLEAN
    BY <1>1, <2>1 DEF addBday, IInv, ListsInRange
  <2>3. QED
    BY <1>1, <2>2, ListsOnlyIInv DEF IInv, TypeOK, ListsInRange, addBday
<1>2. CASE delBday(id)
  <2>1. PICK d \in DeleteOutcomes(bday, bdayStorage, i) : bday' = d[1] /\ crashed' = d[2]
    BY <1>2 DEF delBday
  <2>2. d[1] \subseteq bday /\ d[2] \in BOOLEAN
    BY DeleteOutcomesShrink DEF IInv, TypeOK
  <2>3. QED
    BY <1>2, <2>1, <2>2, ListsOnlyIInv DEF IInv, TypeOK, ListsInRange, delBday
<1>3. QED
  BY <1>1, <1>2

LEMMA delUserIInv ==
  ASSUME IInv, NEW id \in UserIds, delUser(id)
  PROVE  IInv'
<1> DEFINE i == Slot(id)
           Ids == UserIds \cup {0}
<1>0. /\ userlist \in Seq(User) /\ usermap \in Seq(Ids) /\ 0 \in Ids
      /\ useridmap \in [UserIds -> Nat]
      /\ deluserlist \in Seq(Nat)
      /\ Len(usermap) = Len(userlist) /\ Len(userlist) \in Nat \ {0}
      /\ i \in Slots /\ i \in LiveSlots /\ i \notin FreeSlots
      /\ i \in 0..(Len(userlist) - 1) /\ i # 0 /\ i \in Nat
      /\ At(usermap, i) = id /\ At(userlist, i)["loc"] \in Locations
  BY OwnedSlot DEF IInv, TypeOK, MapsAgree, delUser
<1>1. /\ useridmap' = [useridmap EXCEPT ![id] = 0]
      /\ usermap' = Put(usermap, i, 0)
      /\ userlist' = Put(userlist, i, NullUser)
      /\ deluserlist' = Append(deluserlist, i)
      /\ loclist' = UnsetLoc(loclist, At(userlist, i)["loc"], i)
      /\ useridmap[id] = i
      /\ interestlist' = interestlist /\ bdayStorage' = bdayStorage
  BY DEF delUser, Slot
<1>2. bday' \subseteq LiveSlots \ {i} /\ crashed' \in BOOLEAN
  <2>1. PICK d \in DeleteOutcomes(bday, bdayStorage, i) : bday' = d[1] /\ crashed' = d[2]
    BY DEF delUser
  <2>2. d[1] \subseteq bday \ {i} /\ d[2] \in BOOLEAN
    BY DeleteOutcomesShrink DEF IInv, TypeOK
  <2>3. QED
    BY <2>1, <2>2 DEF IInv, ListsInRange
<1> HIDE DEF i, Ids
<1>3. /\ userlist' \in Seq(User) /\ Len(userlist') = Len(userlist)
      /\ \A j \in 0..(Len(userlist) - 1) :
           At(userlist, j)' = IF j = i THEN NullUser ELSE At(userlist, j)
  <2>1. userlist \in Seq(User) /\ NullUser \in User /\ i \in 0..(Len(userlist) - 1)
    BY <1>0, NullUserType
  <2>2. \A u \in User :
          /\ Put(userlist, i, u) \in Seq(User)
          /\ Len(Put(userlist, i, u)) = Len(userlist)
          /\ \A j \in 0..(Len(userlist) - 1) :
               At(Put(userlist, i, u), j) = IF j = i THEN u ELSE At(userlist, j)
    BY ONLY <2>1, PutSeq
  <2>3. QED
    BY <1>1, <2>1, <2>2 DEF At
<1>4. /\ usermap' \in Seq(Ids) /\ Len(usermap') = Len(userlist)
      /\ \A j \in 0..(Len(userlist) - 1) :
           At(usermap, j)' = IF j = i THEN 0 ELSE At(usermap, j)
  <2>1. usermap \in Seq(Ids) /\ 0 \in Ids /\ i \in 0..(Len(usermap) - 1)
    BY <1>0
  <2>2. \A k \in Ids :
          /\ Put(usermap, i, k) \in Seq(Ids)
          /\ Len(Put(usermap, i, k)) = Len(usermap)
          /\ \A j \in 0..(Len(usermap) - 1) :
               At(Put(usermap, i, k), j) = IF j = i THEN k ELSE At(usermap, j)
    BY ONLY <2>1, PutSeq
  <2>3. QED
    BY <1>0, <1>1, <2>1, <2>2 DEF At
<1>5. /\ deluserlist' \in Seq(Nat)
      /\ DOMAIN deluserlist = 1..Len(deluserlist) /\ Len(deluserlist) \in Nat
      /\ DOMAIN deluserlist' = 1..(Len(deluserlist) + 1)
      /\ deluserlist'[Len(deluserlist) + 1] = i
      /\ \A n \in 1..Len(deluserlist) : deluserlist'[n] = deluserlist[n]
  BY <1>0, <1>1, AppendProperties, LenProperties
<1>6. FreeSlots' = FreeSlots \cup {i}
  <2>1. 1..(Len(deluserlist) + 1) = 1..Len(deluserlist) \cup {Len(deluserlist) + 1}
    BY <1>5
  <2>2. QED
    BY <1>5, <2>1 DEF FreeSlots
<1>7. Slots' = Slots
  BY <1>3 DEF Slots
<1>8. \A k \in UserIds :
        /\ k = id => useridmap'[k] = 0
        /\ k # id => useridmap'[k] = useridmap[k]
        /\ k # id => useridmap[k] # i
  <2>1. \A k \in UserIds : useridmap[k] = i => At(usermap, i) = k
    BY <1>0 DEF IInv, MapsAgree, Exists, Slot
  <2>2. QED
    BY <1>0, <1>1, <2>1
<1>9. LiveSlots' = LiveSlots \ {i}
  <2>1. LiveSlots' = {useridmap'[k] : k \in UserIds} \ {0}
    BY DEF LiveSlots, Slot
  <2>2. LiveSlots = {useridmap[k] : k \in UserIds} \ {0}
    BY DEF LiveSlots, Slot
  <2>3. QED
    BY <1>0, <1>1, <1>8, <2>1, <2>2
<1>10. TypeOK'
  <2>1. userlist' # <<>>
    BY <1>0, <1>3, EmptySeq
  <2>2. \A j \in Slots' : (At(userlist, j)["loc"])' \in Locations
    <3>1. \A j \in Slots : j \in 0..(Len(userlist) - 1) /\ At(userlist, j)["loc"] \in Locations
      BY <1>0 DEF IInv, TypeOK, Slots
    <3>2. NullUser["loc"] \in Locations
      BY DataAssumption DEF NullUser, Fields
    <3>3. QED
      BY <1>3, <1>7, <3>1, <3>2
  <2>3. useridmap' \in [UserIds -> Nat] /\ loclist' \in [Locations -> SUBSET Nat]
    BY <1>0, <1>1 DEF IInv, TypeOK, UnsetLoc
  <2>4. bday' \subseteq Nat /\ crashed' \in BOOLEAN
    BY <1>2 DEF LiveSlots, Slot, IInv, TypeOK
  <2>5. QED
    BY <1>1, <1>3, <1>4, <1>5, <2>1, <2>2, <2>3, <2>4 DEF IInv, TypeOK, Ids
<1>11. MapsAgree'
  <2> SUFFICES ASSUME NEW k \in UserIds, useridmap'[k] # 0
               PROVE  useridmap'[k] \in Slots /\ At(usermap, useridmap[k])' = k
    BY <1>3, <1>4, <1>7 DEF MapsAgree, Exists, Slot, At
  <2>1. k # id /\ useridmap'[k] = useridmap[k]
    BY <1>8
  <2>5. useridmap[k] # 0 /\ useridmap[k] # i
    BY <1>8, <2>1
  <2>2. useridmap[k] \in Slots /\ At(usermap, useridmap[k]) = k
    BY <2>5 DEF IInv, MapsAgree, Exists, Slot
  <2>3. useridmap[k] \in 0..(Len(userlist) - 1)
    BY <1>0, <2>2 DEF Slots
  <2>4. QED
    BY <1>4, <2>1, <2>2, <2>3, <2>5 DEF At
<1>12. FreeStackExact'
  <2>1. FreeSlots' = Slots' \ LiveSlots'
    BY <1>0, <1>6, <1>7, <1>9 DEF IInv, FreeStackExact
  <2>2. \A m, n \in DOMAIN deluserlist' : deluserlist'[m] = deluserlist'[n] => m = n
    <3>1. \A m, n \in 1..Len(deluserlist) : deluserlist[m] = deluserlist[n] => m = n
      BY <1>5 DEF IInv, FreeStackExact
    <3>2. \A n \in 1..Len(deluserlist) : deluserlist[n] # i
      BY <1>0, <1>5 DEF FreeSlots
    <3>3. QED
      BY <1>5, <3>1, <3>2
  <2>3. ASSUME NEW j \in FreeSlots'
        PROVE  At(userlist, j)' = NullUser /\ At(usermap, j)' = 0
    <3>1. j \in 0..(Len(userlist) - 1)
      BY <1>0, <1>6, <2>3 DEF IInv, FreeStackExact, Slots
    <3>2. QED
      BY <1>3, <1>4, <1>6, <2>3, <3>1 DEF IInv, FreeStackExact
  <2>4. QED
    BY <2>1, <2>2, <2>3 DEF FreeStackExact
<1>13. LocListExact'
  <2> SUFFICES ASSUME NEW l \in Locations
               PROVE  loclist'[l] = {j \in Slots : l \in LocPath[(At(userlist, j)["loc"])']}
    BY <1>7 DEF LocListExact
  <2>1. loclist[l] = {j \in Slots : l \in LocPath[At(userlist, j)["loc"]]}
    BY DEF IInv, LocListExact
  <2>2. \A j \in Slots : LocPath[(At(userlist, j)["loc"])'] =
                          IF j = i THEN {} ELSE LocPath[At(userlist, j)["loc"]]
    <3>1. LocPath[NullUser["loc"]] = {}
      BY LocPathRoot DEF NullUser, Fields
    <3>2. \A j \in Slots : At(userlist, j)' = IF j = i THEN NullUser ELSE At(userlist, j)
      BY <1>0, <1>3 DEF Slots
    <3>3. QED
      BY <3>1, <3>2
  <2>3. loclist'[l] = IF l \in LocPath[At(userlist, i)["loc"]] THEN loclist[l] \ {i} ELSE loclist[l]
    BY <1>1 DEF UnsetLoc
  <2>4. QED
    BY <1>0, <2>1, <2>2, <2>3
<1>14. ListsInRange'
  BY <1>1, <1>2, <1>7, <1>9 DEF IInv, ListsInRange
<1>15. QED
  BY <1>10, <1>11, <1>12, <1>13, <1>14 DEF IInv

LEMMA setUserIInv ==
  ASSUME IInv, NEW id \in UserIds, NEW user \in NewUsers, setUser(id, user)
  PROVE  IInv'
<1>1. CASE ReplaceUser(id, user)
  <2>1. user \in User /\ user["loc"] \in Locations
    BY DataAssumption
  <2>2. QED
    BY <1>1, <2>1, StoreInOwnedSlot DEF ReplaceUser, setUser
<1>2. CASE ReuseSlot(id, user)
  BY <1>2, ReuseSlotIInv DEF setUser
<1>3. CASE AppendUser(id, user)
  BY <1>3, AppendUserIInv DEF setUser
<1>4. QED
  BY <1>1, <1>2, <1>3 DEF setUser

(* A single-field update stores the old struct with that field changed.    *)
LEMMA updateIInv ==
  ASSUME IInv, NEW id \in UserIds, NEW c \in Changes,
         (c[1] = "loc" /\ updateLoc(id, c[2])) \/ updateField(id, c[1], c[2])
  PROVE  IInv'
<1> DEFINE old == At(userlist, Slot(id))
<1>1. Exists(id) /\ old \in User /\ old["loc"] \in Locations
  BY OwnedSlot DEF updateLoc, updateField
<1>2. c[1] \in Fields /\ c[2] \in Nat /\ "loc" \in Fields
  BY DataAssumption DEF Fields
<1> HIDE DEF old
<1>3. CASE c[1] = "loc" /\ updateLoc(id, c[2])
  <2>1. /\ SetField(old, "loc", c[2]) \in User
        /\ SetField(old, "loc", c[2])["loc"] \in Locations
    BY <1>1, <1>2, <1>3, SetFieldType, DataAssumption
  <2>2. QED
    BY <1>1, <1>3, <2>1, StoreInOwnedSlot DEF updateLoc, old
<1>4. CASE updateField(id, c[1], c[2])
  <2>1. /\ SetField(old, c[1], c[2]) \in User
        /\ SetField(old, c[1], c[2])["loc"] = old["loc"]
    <3>1. "loc" \in Fields \ {c[1]}
      BY <1>2, <1>4 DEF updateField
    <3>2. QED
      BY <1>1, <1>2, <3>1, SetFieldType
  <2>2. QED
    BY <1>1, <1>4, <2>1, StoreInOwnedSlot DEF updateField, old
<1>5. QED
  BY <1>3, <1>4

LEMMA StutterIInv == IInv /\ UNCHANGED vars => IInv'
BY DEF vars, IInv, TypeOK, MapsAgree, FreeStackExact, LocListExact, ListsInRange,
       Slots, LiveSlots, FreeSlots, Exists, Slot, At

LEMMA NextIInv == IInv /\ [Next]_vars => IInv'
<1> SUFFICES ASSUME IInv, [Next]_vars PROVE IInv'
  OBVIOUS
<1>1. CASE UNCHANGED vars
  BY <1>1, StutterIInv
<1>2. ASSUME NEW id \in UserIds, NEW user \in NewUsers, setUser(id, user)
      PROVE  IInv'
  BY <1>2, setUserIInv
<1>3. ASSUME NEW id \in UserIds, NEW c \in Changes,
             (c[1] = "loc" /\ updateLoc(id, c[2])) \/ updateField(id, c[1], c[2])
      PROVE  IInv'
  BY <1>3, updateIInv
<1>4. ASSUME NEW id \in UserIds, NEW k \in Interests,
             setInterest(id, k) \/ unsetInterest(id, k)
      PROVE  IInv'
  BY <1>4, setInterestIInv, unsetInterestIInv
<1>5. ASSUME NEW id \in UserIds, addBday(id) \/ delBday(id)
      PROVE  IInv'
  BY <1>5, bdayIInv
<1>6. ASSUME NEW id \in UserIds, delUser(id)
      PROVE  IInv'
  BY <1>6, delUserIInv
<1>7. QED
  BY <1>1, <1>2, <1>3, <1>4, <1>5, <1>6 DEF Next

-----------------------------------------------------------------------------
(* The inductive invariant holds of every run of search_data.              *)
THEOREM Invariance == Spec => []IInv
BY InitIInv, NextIInv, PTL DEF Spec

(* Every variable keeps its type; bit fields never overflow into each      *)
(* other and users never leave the location table.                         *)
THEOREM TypeCorrect == Spec => []TypeOK
<1>1. IInv => TypeOK
  BY DEF IInv
<1>2. QED
  BY <1>1, Invariance, PTL

(* usermap and useridmap are inverse to each other in every run.           *)
THEOREM MapsCorrect == Spec => []MapsAgree
<1>1. IInv => MapsAgree
  BY DEF IInv
<1>2. QED
  BY <1>1, Invariance, PTL

(* The free stack holds each unowned slot exactly once, in every run.      *)
THEOREM FreeStackCorrect == Spec => []FreeStackExact
<1>1. IInv => FreeStackExact
  BY DEF IInv
<1>2. QED
  BY <1>1, Invariance, PTL

(* The location lists name exactly the users at or below each location,    *)
(* for every rooted location table, in every run.                          *)
THEOREM LocListCorrect == Spec => []LocListExact
<1>1. IInv => LocListExact
  BY DEF IInv
<1>2. QED
  BY <1>1, Invariance, PTL

(* No list ever names a slot outside userlist, in every run.               *)
THEOREM ListsCorrect == Spec => []ListsInRange
<1>1. IInv => ListsInRange
  BY DEF IInv
<1>2. QED
  BY <1>1, Invariance, PTL

-----------------------------------------------------------------------------
(* The dictionary.                                                         *)

(* What the three cases of setUser have in common, seen by userid.         *)
LEMMA setUserView ==
  ASSUME IInv, NEW id \in UserIds, NEW user \in NewUsers, setUser(id, user)
  PROVE  /\ users' = [users EXCEPT ![id] = user]
         /\ StableStep
<1> DEFINE N == Len(userlist)
           PutAt(i) ==
             /\ useridmap' = [useridmap EXCEPT ![id] = i]
             /\ Len(userlist') >= N /\ Len(userlist') \in Nat
             /\ \/ i = useridmap[id]
                \/ i \in FreeSlots /\ useridmap[id] = 0
                \/ i = N /\ FreeSlots = {} /\ useridmap[id] = 0
             /\ At(userlist', i) = user
             /\ \A j \in 0..(N - 1) \ {i} : At(userlist', j) = At(userlist, j)
<1>0. /\ userlist \in Seq(User) /\ N \in Nat \ {0}
      /\ useridmap \in [UserIds -> Nat] /\ user \in User
  BY DataAssumption, EmptySeq DEF IInv, TypeOK
<1>1. \A k \in UserIds : useridmap[k] # 0 =>
        useridmap[k] \in 0..(N - 1) /\ useridmap[k] \notin FreeSlots
  BY OwnedSlot DEF Exists, Slot
<1>2. \A k, m \in UserIds : useridmap[k] # 0 /\ useridmap[k] = useridmap[m] => k = m
  BY DEF IInv, MapsAgree, Exists, Slot
<1>3. PICK i \in Nat \ {0} : PutAt(i)
  <2>1. CASE ReplaceUser(id, user)
    <3> DEFINE i == useridmap[id]
    <3>1. /\ i \in 0..(N - 1) /\ i # 0 /\ userlist' = Put(userlist, i, user)
          /\ useridmap' = useridmap
      BY <2>1, <1>1 DEF ReplaceUser, Exists, Slot
    <3>2. userlist \in Seq(User) /\ user \in User /\ i \in 0..(Len(userlist) - 1)
      BY <1>0, <3>1
    <3> HIDE DEF i
    <3>3. /\ Len(Put(userlist, i, user)) = Len(userlist)
          /\ \A j \in 0..(Len(userlist) - 1) :
               At(Put(userlist, i, user), j) = IF j = i THEN user ELSE At(userlist, j)
      BY ONLY <3>2, PutSeq
    <3>4. useridmap' = [useridmap EXCEPT ![id] = i]
      BY <1>0, <3>1 DEF i
    <3>5. i = useridmap[id]
      BY DEF i
    <3>6. userlist' = Put(userlist, i, user) /\ i \in Nat \ {0} /\ i \in 0..(Len(userlist) - 1)
      BY <1>0, <3>1
    <3>7. /\ Len(userlist') >= N /\ Len(userlist') \in Nat /\ At(userlist', i) = user
          /\ \A j \in 0..(N - 1) \ {i} : At(userlist', j) = At(userlist, j)
      BY <1>0, <3>3, <3>6
    <3>8. PutAt(i)
      BY <3>4, <3>5, <3>7
    <3>9. QED
      BY <3>6, <3>8
  <2>2. CASE ReuseSlot(id, user)
    <3> DEFINE i == Top(deluserlist)
    <3>1. /\ deluserlist # <<>> /\ deluserlist \in Seq(Nat)
          /\ userlist' = Put(userlist, i, user)
          /\ useridmap' = [useridmap EXCEPT ![id] = i] /\ useridmap[id] = 0
      BY <2>2 DEF ReuseSlot, TakeFreeSlot, IInv, TypeOK, Exists, Slot
    <3>2. i \in FreeSlots
      <4>1. Len(deluserlist) \in DOMAIN deluserlist
        BY <3>1, EmptySeq, LenProperties
      <4>2. QED
        BY <4>1 DEF FreeSlots, Top
    <3>3. i \in 0..(N - 1) /\ i # 0 /\ i \in Nat
      BY <1>0, <3>2 DEF IInv, FreeStackExact, Slots
    <3>4. userlist \in Seq(User) /\ user \in User /\ i \in 0..(Len(userlist) - 1)
      BY <1>0, <3>3
    <3> HIDE DEF i
    <3>5. /\ Len(Put(userlist, i, user)) = Len(userlist)
          /\ \A j \in 0..(Len(userlist) - 1) :
               At(Put(userlist, i, user), j) = IF j = i THEN user ELSE At(userlist, j)
      BY ONLY <3>4, PutSeq
    <3>6. PutAt(i)
      BY <1>0, <3>1, <3>2, <3>3, <3>5
    <3>7. QED
      BY <3>3, <3>6
  <2>3. CASE AppendUser(id, user)
    <3>1. /\ userlist' = Append(userlist, user) /\ deluserlist = <<>>
          /\ useridmap' = [useridmap EXCEPT ![id] = N] /\ useridmap[id] = 0
      BY <2>3 DEF AppendUser, PushUser, Exists, Slot
    <3>2. FreeSlots = {}
      BY <3>1 DEF FreeSlots
    <3>3. userlist \in Seq(User) /\ user \in User
      BY <1>0
    <3>4. /\ Len(Append(userlist, user)) = Len(userlist) + 1
          /\ At(Append(userlist, user), Len(userlist)) = user
          /\ \A j \in 0..(Len(userlist) - 1) : At(Append(userlist, user), j) = At(userlist, j)
      BY ONLY <3>3, AppendSeq
    <3>5. PutAt(N)
      BY <1>0, <3>1, <3>2, <3>4
    <3>6. QED
      BY <1>0, <3>5
  <2>4. QED
    BY <2>1, <2>2, <2>3 DEF setUser
<1>4. StableStep
  BY <1>0, <1>3 DEF StableStep, Exists, Slot
<1>5. \A k \in UserIds : users'[k] = IF k = id THEN user ELSE users[k]
  <2> SUFFICES ASSUME NEW k \in UserIds
               PROVE  users'[k] = IF k = id THEN user ELSE users[k]
    OBVIOUS
  <2>1. users'[k] = IF useridmap'[k] # 0 THEN At(userlist', useridmap'[k]) ELSE NoUser
    BY DEF users, Exists, Slot, At
  <2>2. users[k] = IF useridmap[k] # 0 THEN At(userlist, useridmap[k]) ELSE NoUser
    BY DEF users, Exists, Slot
  <2>3. CASE k = id
    BY <1>0, <1>3, <2>1, <2>3
  <2>4. CASE k # id
    <3>1. useridmap'[k] = useridmap[k]
      BY <1>0, <1>3, <2>4
    <3>2. useridmap[k] # 0 => useridmap[k] \in 0..(N - 1) \ {i}
      BY <1>0, <1>1, <1>2, <1>3, <2>4
    <3>3. QED
      BY <1>3, <2>1, <2>2, <2>4, <3>1, <3>2
  <2>5. QED
    BY <2>3, <2>4
<1>6. users' = [k \in UserIds |-> users'[k]] /\ users = [k \in UserIds |-> users[k]]
  BY DEF users
<1>7. users' = [users EXCEPT ![id] = user]
  BY <1>5, <1>6, Zenon
<1>8. QED
  BY <1>4, <1>7

(* A single-field update, seen by userid.                                  *)
LEMMA updateView ==
  ASSUME IInv, NEW id \in UserIds, NEW f \in Fields, NEW val,
         Exists(id),
         userlist' = Put(userlist, Slot(id), SetField(At(userlist, Slot(id)), f, val)),
         useridmap' = useridmap,
         SetField(At(userlist, Slot(id)), f, val) \in User
  PROVE  /\ users' = [users EXCEPT ![id] = SetField(@, f, val)]
         /\ users[id] # NoUser
         /\ StableStep
<1> DEFINE N == Len(userlist)
           i == Slot(id)
           user == SetField(At(userlist, i), f, val)
<1>1. /\ userlist \in Seq(User) /\ user \in User /\ i \in 0..(Len(userlist) - 1)
      /\ i # 0 /\ useridmap[id] = i /\ At(userlist, i) \in User
  BY OwnedSlot DEF IInv, TypeOK, Slot
<1>2. \A k \in UserIds : useridmap[k] # 0 =>
        useridmap[k] \in 0..(N - 1) /\ At(usermap, useridmap[k]) = k
  BY OwnedSlot DEF Exists, Slot
<1>3. users[id] = At(userlist, i) /\ users[id] # NoUser
  BY <1>1, DataAssumption DEF users, Exists, Slot
<1>4. userlist' = Put(userlist, i, user)
  OBVIOUS
<1>9. SetField(At(userlist, i), f, val) = user
  OBVIOUS
<1> HIDE DEF i, user
<1>5. /\ Len(userlist') = N /\ N \in Nat
      /\ \A j \in 0..(N - 1) : At(userlist', j) = IF j = i THEN user ELSE At(userlist, j)
  <2>1. userlist \in Seq(User) /\ user \in User /\ i \in 0..(Len(userlist) - 1)
    BY <1>1
  <2>2. /\ Len(Put(userlist, i, user)) = Len(userlist)
        /\ \A j \in 0..(Len(userlist) - 1) :
             At(Put(userlist, i, user), j) = IF j = i THEN user ELSE At(userlist, j)
    BY ONLY <2>1, PutSeq
  <2>3. Len(userlist) \in Nat
    BY <2>1
  <2>4. QED
    BY <1>4, <2>2, <2>3
<1>6. StableStep
  BY <1>5 DEF StableStep, Exists, Slot
<1>7. \A k \in UserIds : users'[k] = IF k = id THEN user ELSE users[k]
  <2> SUFFICES ASSUME NEW k \in UserIds
               PROVE  users'[k] = IF k = id THEN user ELSE users[k]
    OBVIOUS
  <2>1. users'[k] = IF useridmap[k] # 0 THEN At(userlist', useridmap[k]) ELSE NoUser
    BY DEF users, Exists, Slot, At
  <2>2. users[k] = IF useridmap[k] # 0 THEN At(userlist, useridmap[k]) ELSE NoUser
    BY DEF users, Exists, Slot
  <2>3. k # id /\ useridmap[k] # 0 => useridmap[k] # i
    BY <1>1, <1>2
  <2>4. QED
    BY <1>1, <1>2, <1>5, <2>1, <2>2, <2>3
<1>8. users' = [k \in UserIds |-> users'[k]] /\ users = [k \in UserIds |-> users[k]]
  BY DEF users
<1>10. users' = [users EXCEPT ![id] = user]
  BY <1>7, <1>8, Zenon
<1>11. user = SetField(users[id], f, val)
  BY <1>3, <1>9
<1>12. QED
  BY <1>3, <1>6, <1>8, <1>10, <1>11, Zenon

(* Deleting a user, seen by userid.                                        *)
LEMMA delUserView ==
  ASSUME IInv, NEW id \in UserIds, delUser(id)
  PROVE  /\ users' = [users EXCEPT ![id] = NoUser]
         /\ users[id] # NoUser
         /\ StableStep
<1> DEFINE N == Len(userlist)
           i == Slot(id)
<1>1. /\ userlist \in Seq(User) /\ i \in 0..(Len(userlist) - 1) /\ NullUser \in User
      /\ i # 0 /\ useridmap[id] = i /\ At(userlist, i) \in User
      /\ useridmap \in [UserIds -> Nat]
  BY OwnedSlot, NullUserType DEF IInv, TypeOK, Slot, delUser
<1>2. \A k \in UserIds : useridmap[k] # 0 =>
        useridmap[k] \in 0..(N - 1) /\ At(usermap, useridmap[k]) = k
  BY OwnedSlot DEF Exists, Slot
<1>3. users[id] = At(userlist, i) /\ users[id] # NoUser
  BY <1>1, DataAssumption DEF users, Exists, Slot
<1>4. userlist' = Put(userlist, i, NullUser) /\ useridmap' = [useridmap EXCEPT ![id] = 0]
  BY DEF delUser
<1> HIDE DEF i
<1>5. /\ Len(userlist') = N /\ N \in Nat
      /\ \A j \in 0..(N - 1) \ {i} : At(userlist', j) = At(userlist, j)
  <2>1. userlist \in Seq(User) /\ NullUser \in User /\ i \in 0..(Len(userlist) - 1)
    BY <1>1
  <2>2. \A u \in User :
          /\ Len(Put(userlist, i, u)) = Len(userlist)
          /\ \A j \in 0..(Len(userlist) - 1) :
               At(Put(userlist, i, u), j) = IF j = i THEN u ELSE At(userlist, j)
    BY ONLY <2>1, PutSeq
  <2>3. Len(userlist) \in Nat
    BY <2>1
  <2>4. QED
    BY <1>1, <1>4, <2>2, <2>3
<1>6. StableStep
  BY <1>1, <1>4, <1>5 DEF StableStep, Exists, Slot
<1>7. \A k \in UserIds : users'[k] = IF k = id THEN NoUser ELSE users[k]
  <2> SUFFICES ASSUME NEW k \in UserIds
               PROVE  users'[k] = IF k = id THEN NoUser ELSE users[k]
    OBVIOUS
  <2>1. users'[k] = IF useridmap'[k] # 0 THEN At(userlist', useridmap'[k]) ELSE NoUser
    BY DEF users, Exists, Slot, At
  <2>2. users[k] = IF useridmap[k] # 0 THEN At(userlist, useridmap[k]) ELSE NoUser
    BY DEF users, Exists, Slot
  <2>3. CASE k = id
    BY <1>1, <1>4, <2>1, <2>3
  <2>4. CASE k # id
    <3>1. useridmap'[k] = useridmap[k]
      BY <1>1, <1>4, <2>4
    <3>2. useridmap[k] # 0 => useridmap[k] \in 0..(N - 1) \ {i}
      BY <1>1, <1>2, <2>4
    <3>3. QED
      BY <1>5, <2>1, <2>2, <2>4, <3>1, <3>2
  <2>5. QED
    BY <2>3, <2>4
<1>8. users' = [k \in UserIds |-> users'[k]] /\ users = [k \in UserIds |-> users[k]]
  BY DEF users
<1>9. users' = [users EXCEPT ![id] = NoUser]
  BY <1>7, <1>8, Zenon
<1>10. QED
  BY <1>3, <1>6, <1>9

(* Steps that leave userlist and useridmap alone change no user.           *)
LEMMA ListsOnlyView ==
  ASSUME UNCHANGED <<userlist, useridmap>>, IInv
  PROVE  UNCHANGED users /\ StableStep
<1>1. Len(userlist) \in Nat
  BY DEF IInv, TypeOK
<1>2. QED
  BY <1>1 DEF users, StableStep, Exists, Slot, At

(* Every step is a step of the dictionary or leaves it alone, and keeps    *)
(* the slots.                                                              *)
LEMMA NextView ==
  ASSUME IInv, [Next]_vars
  PROVE  [Directory!Next]_users /\ StableStep
<1>1. CASE UNCHANGED vars
  BY <1>1, ListsOnlyView DEF vars
<1>2. ASSUME NEW id \in UserIds, NEW user \in NewUsers, setUser(id, user)
      PROVE  [Directory!Next]_users /\ StableStep
  BY <1>2, setUserView DEF Directory!Next, Directory!Set
<1>3. ASSUME NEW id \in UserIds, NEW c \in Changes,
             (c[1] = "loc" /\ updateLoc(id, c[2])) \/ updateField(id, c[1], c[2])
      PROVE  [Directory!Next]_users /\ StableStep
  <2>1. c[1] \in Fields /\ c[2] \in Nat
    BY DataAssumption
  <2>2. /\ Exists(id) /\ useridmap' = useridmap
        /\ userlist' = Put(userlist, Slot(id), SetField(At(userlist, Slot(id)), c[1], c[2]))
    BY <1>3 DEF updateLoc, updateField
  <2>3. SetField(At(userlist, Slot(id)), c[1], c[2]) \in User
    BY <2>1, <2>2, OwnedSlot, SetFieldType
  <2>4. Directory!Update(id, c[1], c[2]) /\ StableStep
    <3>1. /\ users' = [users EXCEPT ![id] = SetField(@, c[1], c[2])]
          /\ users[id] # NoUser /\ StableStep
      BY <2>1, <2>2, <2>3, updateView
    <3>2. SetField(users[id], c[1], c[2]) = Directory!SetField(users[id], c[1], c[2])
      BY DEF SetField, Directory!SetField, FieldSize, Directory!FieldSize,
             Fields, Directory!Fields
    <3>3. QED
      BY <3>1, <3>2 DEF Directory!Update
  <2>5. QED
    BY <2>4 DEF Directory!Next
<1>4. ASSUME NEW id \in UserIds, NEW k \in Interests,
             setInterest(id, k) \/ unsetInterest(id, k)
      PROVE  [Directory!Next]_users /\ StableStep
  BY <1>4, ListsOnlyView DEF setInterest, unsetInterest
<1>5. ASSUME NEW id \in UserIds, addBday(id) \/ delBday(id)
      PROVE  [Directory!Next]_users /\ StableStep
  BY <1>5, ListsOnlyView DEF addBday, delBday
<1>6. ASSUME NEW id \in UserIds, delUser(id)
      PROVE  [Directory!Next]_users /\ StableStep
  BY <1>6, delUserView DEF Directory!Next, Directory!Remove
<1>7. QED
  BY <1>1, <1>2, <1>3, <1>4, <1>5, <1>6 DEF Next

(* A user keeps its slot as long as it lives, and a new user gets a slot   *)
(* that is free or new, in every run.                                      *)
THEOREM SlotsStay == Spec => SlotsStable
BY Invariance, NextView, PTL DEF Spec, SlotsStable

(* search_data implements the dictionary, for any number of userids.       *)
THEOREM Refinement == Spec => ImplementsDirectory
<1>1. Init => Directory!Init
  BY DEF Init, Directory!Init, users, Exists, Slot
<1>2. QED
  BY <1>1, Invariance, NextView, PTL DEF Spec, ImplementsDirectory, Directory!Spec

-----------------------------------------------------------------------------
(* Space.                                                                  *)

(* With no free slot there are no more slots than userids: useridmap takes *)
(* the existing userids onto the slots.                                    *)
LEMMA FullSpace ==
  ASSUME IInv, FreeSlots = {}
  PROVE  NoWastedSpace
<1> DEFINE N == Len(userlist)
           Ids == {id \in UserIds : useridmap[id] # 0}
           f == [id \in Ids |-> useridmap[id]]
<1>1. N \in Nat \ {0}
  BY EmptySeq DEF IInv, TypeOK
<1>2. \A id \in Ids : useridmap[id] \in 1..(N - 1)
  BY DEF IInv, MapsAgree, Exists, Slot, Slots
<1>3. \A i \in 1..(N - 1) : \E id \in Ids : useridmap[id] = i
  <2>1. 1..(N - 1) \subseteq LiveSlots
    BY DEF IInv, FreeStackExact, Slots
  <2>2. QED
    BY <2>1 DEF LiveSlots, Slot
<1>4. f \in [Ids -> 1..(N - 1)] /\ \A i \in 1..(N - 1) : \E id \in Ids : f[id] = i
  BY <1>2, <1>3
<1>5. IsFiniteSet(UserIds) /\ Ids \in SUBSET UserIds
  BY DataAssumption
<1> HIDE DEF Ids, f, N
<1>6. f \in Surjection(Ids, 1..(N - 1))
  BY <1>4 DEF Surjection
<1>7. /\ IsFiniteSet(Ids) /\ Cardinality(Ids) <= Cardinality(UserIds)
      /\ Cardinality(Ids) \in Nat /\ Cardinality(UserIds) \in Nat
  BY <1>5, FS_Subset, FS_CardinalityType
<1>8. Cardinality(1..(N - 1)) <= Cardinality(Ids)
  BY <1>6, <1>7, FS_Surjection
<1>9. Cardinality(1..(N - 1)) = N - 1
  <2>1. 1 \in Int /\ N - 1 \in Int
    BY <1>1
  <2>2. Cardinality(1..(N - 1)) = IF 1 > N - 1 THEN 0 ELSE (N - 1) - 1 + 1
    BY <2>1, FS_Interval
  <2>3. QED
    BY <1>1, <2>2
<1>10. N - 1 <= Cardinality(UserIds)
  BY <1>1, <1>7, <1>8, <1>9
<1>11. QED
  BY <1>10 DEF N, NoWastedSpace

(* Storing in a slot adds no slot.                                         *)
LEMMA PutLen ==
  ASSUME IInv, NEW i, NEW x, i \in 0..(Len(userlist) - 1), x \in User,
         userlist' = Put(userlist, i, x)
  PROVE  Len(userlist') = Len(userlist)
<1>1. userlist \in Seq(User)
  BY DEF IInv, TypeOK
<1>2. i \in 0..(Len(userlist) - 1) /\ x \in User
  OBVIOUS
<1>3. Len(Put(userlist, i, x)) = Len(userlist)
  BY ONLY <1>1, <1>2, PutSeq
<1>4. QED
  BY <1>3

(* A slot is added only when none is free.                                 *)
LEMMA GrowOnlyWhenFull ==
  ASSUME IInv, [Next]_vars
  PROVE  Len(userlist') = Len(userlist) \/ FreeSlots' = {}
<1>1. ASSUME NEW id \in UserIds, NEW user \in NewUsers, setUser(id, user)
      PROVE  Len(userlist') = Len(userlist) \/ FreeSlots' = {}
  <2>0. user \in User
    BY DataAssumption
  <2>1. CASE ReplaceUser(id, user)
    BY <2>0, <2>1, OwnedSlot, PutLen DEF ReplaceUser
  <2>2. CASE ReuseSlot(id, user)
    <3>1. deluserlist \in Seq(Nat) /\ deluserlist # <<>>
      BY <2>2 DEF ReuseSlot, TakeFreeSlot, IInv, TypeOK
    <3>2. Len(deluserlist) \in DOMAIN deluserlist
      BY <3>1, EmptySeq, LenProperties
    <3>3. Top(deluserlist) \in Slots /\ Len(userlist) \in Nat \ {0}
      BY <3>2, EmptySeq DEF FreeSlots, Top, IInv, FreeStackExact, TypeOK
    <3>4. Top(deluserlist) \in 0..(Len(userlist) - 1)
      BY <3>3 DEF Slots
    <3>5. QED
      BY <2>0, <2>2, <3>4, PutLen DEF ReuseSlot, TakeFreeSlot
  <2>3. CASE AppendUser(id, user)
    BY <2>3 DEF AppendUser, PushUser, FreeSlots
  <2>4. QED
    BY <1>1, <2>1, <2>2, <2>3 DEF setUser
<1>2. ASSUME NEW id \in UserIds, NEW c \in Changes,
             (c[1] = "loc" /\ updateLoc(id, c[2])) \/ updateField(id, c[1], c[2])
      PROVE  Len(userlist') = Len(userlist)
  <2>1. c[1] \in Fields /\ c[2] \in Nat
    BY DataAssumption
  <2>2. /\ Exists(id)
        /\ userlist' = Put(userlist, Slot(id), SetField(At(userlist, Slot(id)), c[1], c[2]))
    BY <1>2 DEF updateLoc, updateField
  <2>3. SetField(At(userlist, Slot(id)), c[1], c[2]) \in User
    BY <2>1, <2>2, OwnedSlot, SetFieldType
  <2>4. QED
    BY <2>2, <2>3, OwnedSlot, PutLen
<1>3. ASSUME NEW id \in UserIds, delUser(id)
      PROVE  Len(userlist') = Len(userlist)
  BY <1>3, OwnedSlot, NullUserType, PutLen DEF delUser
<1>4. QED
  BY <1>1, <1>2, <1>3 DEF Next, vars, setInterest, unsetInterest, addBday, delBday

(* "no wasted space for deleted users", for any number of userids and any  *)
(* run of adds and deletes.                                                *)
THEOREM SpaceBound == Spec => []NoWastedSpace
<1>1. Init => NoWastedSpace
  <2>1. Cardinality(UserIds) \in Nat
    BY DataAssumption, FS_CardinalityType
  <2>2. QED
    BY <2>1 DEF Init, NoWastedSpace
<1>2. IInv /\ NoWastedSpace /\ [Next]_vars => NoWastedSpace' \/ (FreeSlots = {})'
  BY GrowOnlyWhenFull DEF NoWastedSpace
<1>3. IInv /\ FreeSlots = {} => NoWastedSpace
  BY FullSpace
<1>4. QED
  BY <1>1, <1>2, <1>3, Invariance, PTL DEF Spec

-----------------------------------------------------------------------------
(* Loader. *)

(* A row of the file of users gives setUser a struct. *)
LEMMA UserRowIsSetUser ==
  ASSUME NEW id \in UserIds, NEW row \in UserRows, UserRow(id, row)
  PROVE  Next
BY RowsAssumption DEF UserRow, Next

LEMMA InterestRowIsSetInterest ==
  ASSUME NEW id \in UserIds, NEW k \in Interests, InterestRow(id, k)
  PROVE  [Next]_vars
BY DEF InterestRow, LoadInterest, Next

LEMMA LoadStep == Load => [Next]_vars
<1>1. ASSUME NEW id \in UserIds, NEW row \in UserRows, UserRow(id, row)
      PROVE  Next
  BY <1>1, UserRowIsSetUser
<1>2. ASSUME NEW id \in UserIds, NEW k \in Interests, InterestRow(id, k)
      PROVE  [Next]_vars
  BY <1>2, InterestRowIsSetInterest
<1>3. ASSUME NEW id \in UserIds, NEW user \in NewUsers, RandomUser(id, user)
      PROVE  Next
  BY <1>3 DEF RandomUser, Next
<1>4. ASSUME NEW id \in UserIds, NEW k \in Interests, RandomInterest(id, k)
      PROVE  Next
  BY <1>4 DEF RandomInterest, Next
<1>5. ASSUME NEW row \in LocationRows, LocationRow(row[1], row[2])
      PROVE  UNCHANGED vars
  BY <1>5 DEF LocationRow
<1>6. StartFiles \/ NoSource \/ Reject \/ LocationsEnd \/ UsersEnd \/ InterestsEnd
        \/ StartRandom \/ RandomEnd => UNCHANGED vars
  BY DEF StartFiles, NoSource, Reject, LocationsEnd, UsersEnd, InterestsEnd,
         StartRandom, RandomEnd, Proceed
<1>7. QED
  BY <1>1, <1>2, <1>3, <1>4, <1>5, <1>6 DEF Load

LEMMA LoaderStep == [LoaderNext]_loadervars => [Next]_vars
<1>1. Serve => Next
  BY DEF Serve
<1>2. UNCHANGED loadervars => UNCHANGED vars
  BY DEF loadervars
<1>3. QED
  BY <1>1, <1>2, LoadStep DEF LoaderNext

(* The loader and the service that follows are a run of search_data.       *)
THEOREM LoaderImplementsData == LoaderSpec => Spec
<1>1. LoaderInit => Init
  BY DEF LoaderInit
<1>2. QED
  BY <1>1, LoaderStep, PTL DEF LoaderSpec, Spec

(* So from the first row on the maps, the free stack and the lists of      *)
(* locations are exact, and the lists of interests and birthdays name only *)
(* slots there are (search.c: loadusers, fillRandom).  Whose interests the *)
(* slots on a list are is another matter: see LoadedExact for the rows,    *)
(* HistoryTellsLists for the requests that follow.                         *)
THEOREM LoaderKeepsData ==
  LoaderSpec => [](TypeOK /\ MapsAgree /\ FreeStackExact /\ LocListExact /\ ListsInRange)
BY LoaderImplementsData, TypeCorrect, MapsCorrect, FreeStackCorrect, LocListCorrect,
   ListsCorrect, PTL

-----------------------------------------------------------------------------
(* The lists loaded.  The rows read are remembered with what makes the     *)
(* next one fit: a list exists for every row of a user there is, and the   *)
(* random users are in the slots of their own numbers, so that the next is *)
(* new and has no row yet.                                                 *)
Loading == phase \in {"start", "locations", "users", "interests", "random"}

RowsOf(k) == {i \in UserIds : Exists(i) /\ <<i, k - 1>> \in interestrows}

ListsAreRows ==
  \A k \in DOMAIN interestlist : interestlist[k] = {Slot(id) : id \in RowsOf(k)}

RowsHaveLists ==
  /\ interestrows \subseteq UserIds \X Interests
  /\ \A row \in interestrows : Exists(row[1]) => row[2] < Len(interestlist)

RandomInPlace ==
  /\ \A id \in UserIds : Exists(id) => Slot(id) = id
  /\ \A row \in interestrows : Exists(row[1])

LInv ==
  Loading =>
    /\ deluserlist = <<>>
    /\ ListsAreRows /\ RowsHaveLists
    /\ phase \in {"start", "locations", "users"} => interestlist = <<>> /\ interestrows = {}
    /\ phase = "start" => \A id \in UserIds : ~Exists(id)
    /\ phase = "random" => RandomInPlace

(* setInterest makes room for the list and adds the slot to it alone.      *)
LEMMA InterestAdded ==
  ASSUME IInv, NEW id \in UserIds, NEW k \in Interests, setInterest(id, k)
  PROVE  /\ Exists(id) /\ useridmap' = useridmap /\ deluserlist' = deluserlist
         /\ k \in Nat /\ Len(interestlist') \in Nat
         /\ DOMAIN interestlist' = 1..Len(interestlist')
         /\ k < Len(interestlist') /\ Len(interestlist) <= Len(interestlist')
         /\ \A j \in DOMAIN interestlist' :
              interestlist'[j] = (IF j \in DOMAIN interestlist THEN interestlist[j] ELSE {})
                                   \cup (IF j = k + 1 THEN {Slot(id)} ELSE {})
<1> DEFINE lists == Grown(interestlist, k)
<1>1. k \in Nat
  BY DataAssumption
<1>2. Len(interestlist) \in Nat /\ DOMAIN interestlist = 1..Len(interestlist)
  BY LenProperties DEF IInv, TypeOK
<1>3. /\ DOMAIN lists = 1..Len(lists) /\ Len(lists) \in Nat
      /\ k < Len(lists) /\ Len(interestlist) <= Len(lists)
      /\ \A j \in DOMAIN lists :
           lists[j] = IF j \in DOMAIN interestlist THEN interestlist[j] ELSE {}
  <2>1. CASE k < Len(interestlist)
    BY <1>1, <1>2, <2>1 DEF Grown
  <2>2. CASE ~(k < Len(interestlist))
    <3>1. lists = [j \in 1..(k + 1) |-> IF j \in DOMAIN interestlist THEN interestlist[j] ELSE {}]
      BY <2>2 DEF Grown
    <3>2. k + 1 \in Nat
      BY <1>1
    <3>3. Len(lists) = k + 1 /\ DOMAIN lists = 1..(k + 1)
      BY <3>1, <3>2
    <3>4. QED
      BY <1>1, <1>2, <2>2, <3>1, <3>3
  <2>3. QED
    BY <2>1, <2>2
<1>4. interestlist' = [lists EXCEPT ![k + 1] = lists[k + 1] \cup {Slot(id)}]
  BY DEF setInterest, Put, At
<1> HIDE DEF lists
<1>5. /\ DOMAIN interestlist' = DOMAIN lists
      /\ \A j \in DOMAIN lists :
           interestlist'[j] = IF j = k + 1 THEN lists[j] \cup {Slot(id)} ELSE lists[j]
  BY <1>1, <1>3, <1>4
<1>6. Len(interestlist') = Len(lists)
  BY <1>3, <1>5
<1>7. QED
  BY <1>1, <1>2, <1>3, <1>5, <1>6 DEF setInterest

(* A row of an existing user puts the user's slot on the list, as the rows *)
(* say.                                                                    *)
LEMMA InterestRowKeeps ==
  ASSUME IInv, ListsAreRows, RowsHaveLists,
         NEW id \in UserIds, NEW k \in Interests, setInterest(id, k),
         interestrows' = interestrows \cup {<<id, k>>}
  PROVE  ListsAreRows' /\ RowsHaveLists'
<1>1. /\ Exists(id) /\ useridmap' = useridmap
      /\ k \in Nat /\ Len(interestlist') \in Nat
      /\ DOMAIN interestlist' = 1..Len(interestlist')
      /\ k < Len(interestlist') /\ Len(interestlist) <= Len(interestlist')
      /\ \A j \in DOMAIN interestlist' :
           interestlist'[j] = (IF j \in DOMAIN interestlist THEN interestlist[j] ELSE {})
                                \cup (IF j = k + 1 THEN {Slot(id)} ELSE {})
  BY InterestAdded
<1>2. Len(interestlist) \in Nat /\ DOMAIN interestlist = 1..Len(interestlist)
  BY LenProperties DEF IInv, TypeOK
<1>3. \A i \in UserIds : (Exists(i))' = Exists(i) /\ Slot(i)' = Slot(i)
  BY <1>1 DEF Exists, Slot
<1>4. ASSUME NEW j \in DOMAIN interestlist'
      PROVE  interestlist'[j] = {Slot(i)' : i \in RowsOf(j)'}
  <2>1. j \in Nat /\ (j - 1 = k <=> j = k + 1)
    BY <1>1
  <2>2. RowsOf(j)' = RowsOf(j) \cup (IF j = k + 1 THEN {id} ELSE {})
    BY <1>1, <1>3, <2>1 DEF RowsOf
  <2>3. j \notin DOMAIN interestlist => RowsOf(j) = {}
    BY <1>1, <1>2, <2>1 DEF RowsHaveLists, RowsOf
  <2>4. (IF j \in DOMAIN interestlist THEN interestlist[j] ELSE {}) = {Slot(i) : i \in RowsOf(j)}
    BY <2>3 DEF ListsAreRows
  <2>5. {Slot(i)' : i \in RowsOf(j)'} = {Slot(i) : i \in RowsOf(j)'}
    BY <1>1 DEF Slot
  <2>6. QED
    BY <1>1, <2>2, <2>4, <2>5
<1>5. ListsAreRows'
  BY <1>4 DEF ListsAreRows
<1>6. interestrows' \subseteq UserIds \X Interests
  BY DEF RowsHaveLists
<1>7. ASSUME NEW row \in interestrows', (Exists(row[1]))'
      PROVE  row[2] < Len(interestlist')
  <2>1. CASE row = <<id, k>>
    BY <1>1, <2>1
  <2>2. CASE row \in interestrows
    <3>1. row[1] \in UserIds /\ row[2] \in Nat
      BY <2>2, DataAssumption DEF RowsHaveLists
    <3>2. row[2] < Len(interestlist)
      BY <1>3, <1>7, <2>2, <3>1 DEF RowsHaveLists
    <3>3. QED
      BY <1>1, <1>2, <3>1, <3>2
  <2>3. QED
    BY <2>1, <2>2
<1>8. QED
  BY <1>5, <1>6, <1>7 DEF RowsHaveLists

(* A row of a userid without a user changes nothing but what was read.     *)
LEMMA StrayRowKeeps ==
  ASSUME ListsAreRows, RowsHaveLists,
         NEW id \in UserIds, NEW k \in Interests, ~Exists(id), UNCHANGED vars,
         interestrows' = interestrows \cup {<<id, k>>}
  PROVE  ListsAreRows' /\ RowsHaveLists'
<1>1. interestlist' = interestlist /\ useridmap' = useridmap
  BY DEF vars
<1>2. \A j : RowsOf(j)' = RowsOf(j)
  BY <1>1 DEF RowsOf, Exists, Slot
<1>3. ListsAreRows'
  BY <1>1, <1>2 DEF ListsAreRows, Slot
<1>4. RowsHaveLists'
  BY <1>1 DEF RowsHaveLists, Exists, Slot
<1>5. QED
  BY <1>3, <1>4

(* With no slot free, setUser stores in the user's slot or a new one.      *)
LEMMA UserLoaded ==
  ASSUME NEW id \in UserIds, NEW user, setUser(id, user), deluserlist = <<>>
  PROVE  /\ deluserlist' = <<>> /\ interestlist' = interestlist
         /\ \/ Exists(id) /\ useridmap' = useridmap
            \/ ~Exists(id) /\ useridmap' = [useridmap EXCEPT ![id] = Len(userlist)]
BY DEF setUser, ReplaceUser, ReuseSlot, TakeFreeSlot, AppendUser, PushUser

LEMMA UserRowLInv ==
  ASSUME LInv, NEW id \in UserIds, NEW row \in UserRows, UserRow(id, row)
  PROVE  LInv'
<1>1. /\ phase = "users" /\ phase' = "users" /\ interestrows' = interestrows
      /\ setUser(id, Stored(row))
  BY DEF UserRow
<1>2. deluserlist = <<>> /\ interestlist = <<>> /\ interestrows = {}
  BY <1>1 DEF LInv, Loading
<1>3. deluserlist' = <<>> /\ interestlist' = <<>> /\ interestrows' = {}
  BY <1>1, <1>2, UserLoaded
<1>4. ListsAreRows' /\ RowsHaveLists'
  BY <1>3 DEF ListsAreRows, RowsHaveLists
<1>5. QED
  BY <1>1, <1>3, <1>4 DEF LInv

(* The next random user is new: its number is that of the next slot.       *)
LEMMA RandomUserLInv ==
  ASSUME IInv, LInv, NEW id \in UserIds, NEW user \in NewUsers, RandomUser(id, user)
  PROVE  LInv'
<1>1. /\ phase = "random" /\ phase' = "random" /\ interestrows' = interestrows
      /\ id = Len(userlist) /\ setUser(id, user)
  BY DEF RandomUser
<1>2. deluserlist = <<>> /\ ListsAreRows /\ RowsHaveLists /\ RandomInPlace
  BY <1>1 DEF LInv, Loading
<1>3. useridmap \in [UserIds -> Nat] /\ Len(userlist) \in Nat
  BY LenProperties DEF IInv, TypeOK
<1>4. ~Exists(id)
  <2>1. SUFFICES ASSUME Exists(id) PROVE FALSE
    OBVIOUS
  <2>2. Slot(id) = id /\ Slot(id) \in Slots
    BY <1>2, <2>1 DEF RandomInPlace, IInv, MapsAgree
  <2>3. QED
    BY <1>1, <1>3, <2>2 DEF Slots
<1>5. /\ deluserlist' = <<>> /\ interestlist' = interestlist
      /\ useridmap' = [useridmap EXCEPT ![id] = id]
  BY <1>1, <1>2, <1>4, UserLoaded
<1>6. /\ Slot(id)' = id
      /\ \A i \in UserIds \ {id} : Slot(i)' = Slot(i) /\ (Exists(i))' = Exists(i)
  BY <1>3, <1>5 DEF Slot, Exists
<1>7. \A row \in interestrows : row[1] \in UserIds \ {id}
  BY <1>2, <1>4 DEF RandomInPlace, RowsHaveLists
<1>8. \A k : RowsOf(k)' = RowsOf(k) /\ id \notin RowsOf(k)
  BY <1>1, <1>4, <1>6, <1>7 DEF RowsOf
<1>9. ListsAreRows'
  <2>1. ASSUME NEW k \in DOMAIN interestlist
        PROVE  interestlist'[k] = {Slot(i)' : i \in RowsOf(k)'}
    <3>1. \A i \in RowsOf(k) : Slot(i)' = Slot(i)
      BY <1>6, <1>8 DEF RowsOf
    <3>2. {Slot(i)' : i \in RowsOf(k)'} = {Slot(i) : i \in RowsOf(k)}
      BY <1>8, <3>1
    <3>3. QED
      BY <1>2, <1>5, <3>2 DEF ListsAreRows
  <2>2. QED
    BY <1>5, <2>1 DEF ListsAreRows
<1>10. RowsHaveLists'
  BY <1>1, <1>2, <1>5, <1>6, <1>7 DEF RowsHaveLists
<1>11. RandomInPlace'
  BY <1>1, <1>2, <1>6, <1>7 DEF RandomInPlace
<1>12. QED
  BY <1>1, <1>5, <1>9, <1>10, <1>11 DEF LInv

LEMMA InterestRowLInv ==
  ASSUME IInv, LInv, NEW id \in UserIds, NEW k \in Interests, InterestRow(id, k)
  PROVE  LInv'
<1>1. /\ phase = "interests" /\ phase' = "interests"
      /\ interestrows' = interestrows \cup {<<id, k>>}
      /\ setInterest(id, k) \/ (~Exists(id) /\ UNCHANGED vars)
  BY DEF InterestRow, LoadInterest
<1>2. deluserlist = <<>> /\ ListsAreRows /\ RowsHaveLists
  BY <1>1 DEF LInv, Loading
<1>3. ListsAreRows' /\ RowsHaveLists'
  BY <1>1, <1>2, InterestRowKeeps, StrayRowKeeps
<1>4. deluserlist' = <<>>
  BY <1>1, <1>2 DEF setInterest, vars
<1>5. QED
  BY <1>1, <1>3, <1>4 DEF LInv

LEMMA RandomInterestLInv ==
  ASSUME IInv, LInv, NEW id \in UserIds, NEW k \in Interests, RandomInterest(id, k)
  PROVE  LInv'
<1>1. /\ phase = "random" /\ phase' = "random"
      /\ interestrows' = interestrows \cup {<<id, k>>} /\ setInterest(id, k)
  BY DEF RandomInterest
<1>2. deluserlist = <<>> /\ ListsAreRows /\ RowsHaveLists /\ RandomInPlace
  BY <1>1 DEF LInv, Loading
<1>3. ListsAreRows' /\ RowsHaveLists'
  BY <1>1, <1>2, InterestRowKeeps
<1>4. Exists(id) /\ deluserlist' = <<>> /\ useridmap' = useridmap
  BY <1>1, <1>2 DEF setInterest
<1>5. RandomInPlace'
  BY <1>1, <1>2, <1>4 DEF RandomInPlace, Exists, Slot
<1>6. QED
  BY <1>1, <1>3, <1>4, <1>5 DEF LInv

(* The steps from one phase to the next, and those that touch no user.     *)
LEMMA PhaseLInv ==
  ASSUME LInv, UNCHANGED vars, interestrows' = interestrows,
         \/ phase' = phase
         \/ <<phase, phase'>> \in {<<"start", "locations">>, <<"locations", "users">>,
                                   <<"users", "interests">>, <<"start", "random">>}
  PROVE  LInv'
<1>1. /\ interestlist' = interestlist /\ useridmap' = useridmap
      /\ deluserlist' = deluserlist
  BY DEF vars
<1>2. ListsAreRows => ListsAreRows'
  BY <1>1 DEF ListsAreRows, RowsOf, Exists, Slot
<1>3. RowsHaveLists => RowsHaveLists'
  BY <1>1 DEF RowsHaveLists, Exists, Slot
<1>4. \A id : Slot(id)' = Slot(id) /\ (Exists(id))' = Exists(id)
  BY <1>1 DEF Exists, Slot
<1>5. RandomInPlace => RandomInPlace'
  BY <1>1 DEF RandomInPlace, Exists, Slot
<1>6. interestrows = {} /\ (\A id \in UserIds : ~Exists(id)) => RandomInPlace
  BY DEF RandomInPlace
<1>7. CASE phase' = phase
  BY <1>1, <1>2, <1>3, <1>4, <1>5, <1>7 DEF LInv, Loading
<1>8. CASE phase' # phase
  BY <1>1, <1>2, <1>3, <1>4, <1>5, <1>6, <1>8 DEF LInv, Loading
<1>9. QED
  BY <1>7, <1>8

LEMMA NextLInv == IInv /\ LInv /\ [LoaderNext]_loadervars => LInv'
<1> SUFFICES ASSUME IInv, LInv, [LoaderNext]_loadervars
             PROVE  LInv'
  OBVIOUS
<1>1. ASSUME NEW id \in UserIds, NEW row \in UserRows, UserRow(id, row)
      PROVE  LInv'
  BY <1>1, UserRowLInv
<1>2. ASSUME NEW id \in UserIds, NEW user \in NewUsers, RandomUser(id, user)
      PROVE  LInv'
  BY <1>2, RandomUserLInv
<1>3. ASSUME NEW id \in UserIds, NEW k \in Interests,
             InterestRow(id, k) \/ RandomInterest(id, k)
      PROVE  LInv'
  BY <1>3, InterestRowLInv, RandomInterestLInv
<1>4. ASSUME NEW row \in LocationRows, LocationRow(row[1], row[2])
      PROVE  LInv'
  BY <1>4, PhaseLInv DEF LocationRow
<1>5. StartFiles \/ LocationsEnd \/ UsersEnd \/ StartRandom => LInv'
  BY PhaseLInv DEF StartFiles, LocationsEnd, UsersEnd, StartRandom, Proceed
<1>6. NoSource \/ Reject \/ InterestsEnd \/ RandomEnd \/ Serve => LInv'
  BY DEF NoSource, Reject, InterestsEnd, RandomEnd, Serve, Proceed, LInv, Loading
<1>7. UNCHANGED loadervars => LInv'
  BY PhaseLInv DEF loadervars
<1>8. QED
  BY <1>1, <1>2, <1>3, <1>4, <1>5, <1>6, <1>7 DEF LoaderNext, Load

LEMMA InitLInv == LoaderInit => LInv
BY DEF LoaderInit, Init, LInv, ListsAreRows, RowsHaveLists, RandomInPlace, Exists, Slot

(* While the daemon loads, the lists are what the rows say, whatever the   *)
(* files hold.                                                             *)
THEOREM LoadedExact == LoaderSpec => []LoadedAsWritten
<1>1. LoaderSpec => []IInv
  BY LoaderImplementsData, Invariance, PTL
<1>2. LoaderSpec => []LInv
  <2>1. QED
    BY <1>1, InitLInv, NextLInv, PTL DEF LoaderSpec
<1>3. IInv /\ LInv => LoadedAsWritten
  <2> SUFFICES ASSUME IInv, LInv, phase \in {"users", "interests", "random"}
               PROVE  /\ ListsAreRows
                      /\ LiveSlots = Slots
    BY DEF LoadedAsWritten, ListsAreRows, RowsOf
  <2>1. deluserlist = <<>> /\ ListsAreRows
    BY DEF LInv, Loading
  <2>2. FreeSlots = {} /\ FreeSlots = Slots \ LiveSlots
    BY <2>1 DEF FreeSlots, IInv, FreeStackExact
  <2>3. LiveSlots \subseteq Slots
    BY DEF LiveSlots, IInv, MapsAgree, Exists
  <2>4. QED
    BY <2>1, <2>2, <2>3
<1>4. QED
  BY <1>1, <1>2, <1>3, PTL

-----------------------------------------------------------------------------
(* The history.  Remembering what was asked for changes nothing.           *)
LEMMA HistoryStep == [HistNext]_histvars => [Next]_vars
<1>1. ASSUME NEW id \in UserIds, NEW user \in NewUsers, HistSetUser(id, user)
      PROVE  Next
  BY <1>1 DEF HistSetUser, Next
<1>2. ASSUME NEW id \in UserIds, NEW c \in Changes, HistUpdate(id, c)
      PROVE  Next
  BY <1>2 DEF HistUpdate, Next
<1>3. ASSUME NEW id \in UserIds, NEW k \in Interests,
             HistSetInterest(id, k) \/ HistUnsetInterest(id, k)
      PROVE  Next
  BY <1>3 DEF HistSetInterest, HistUnsetInterest, Next
<1>4. ASSUME NEW id \in UserIds, HistAddBday(id) \/ HistDelBday(id) \/ HistDelUser(id)
      PROVE  Next
  BY <1>4 DEF HistAddBday, HistDelBday, HistDelUser, Next
<1>5. UNCHANGED histvars => UNCHANGED vars
  BY DEF histvars
<1>6. QED
  BY <1>1, <1>2, <1>3, <1>4, <1>5 DEF HistNext

(* A run with its history is a run of search_data.                         *)
THEOREM HistoryImplementsData == HistSpec => Spec
<1>1. HistInit => Init
  BY DEF HistInit
<1>2. QED
  BY <1>1, HistoryStep, PTL DEF HistSpec, Spec

(* Who is on which list, told from the calls: those who were given it and  *)
(* not erased, and those who inherited it.  Nobody inherits a birthday,    *)
(* and nothing is remembered of a user that is gone.                       *)
Told(id, n) == <<id, n>> \in heirs \/ (<<id, n>> \in given /\ <<id, n>> \notin erased)

ToldRight(id, n) ==
  /\ Exists(id) => (Slot(id) \in Listed(n) <=> Told(id, n))
  /\ ~Exists(id) => <<id, n>> \notin given \cup heirs \cup erased
  /\ <<id, 0>> \notin heirs

HInv == \A id \in UserIds, n \in Nat : ToldRight(id, n)

LEMMA InitHInv == HistInit => HInv
BY DEF HistInit, Init, HInv, ToldRight, Told, Exists, Slot

(* Two users have two slots. *)
LEMMA SlotsDistinct ==
  ASSUME IInv, NEW j \in UserIds, NEW id \in UserIds, Exists(id), Slot(j) = Slot(id)
  PROVE  j = id
BY DEF IInv, MapsAgree, Exists, Slot

(* A new user's slot is nobody's, so it is on no list of birthdays.        *)
LEMMA NewSlot ==
  ASSUME IInv, NEW id \in UserIds, NEW user \in NewUsers, setUser(id, user), ~Exists(id)
  PROVE  /\ useridmap'[id] # 0 /\ useridmap'[id] \notin bday
         /\ \A j \in UserIds \ {id} : useridmap'[j] = useridmap[j]
<1>0. useridmap \in [UserIds -> Nat] /\ userlist \in Seq(User) /\ userlist # <<>>
      /\ Len(userlist) \in Nat \ {0}
  <2>1. useridmap \in [UserIds -> Nat] /\ userlist \in Seq(User) /\ userlist # <<>>
    BY DEF IInv, TypeOK
  <2> QED
    BY <2>1, LenProperties, EmptySeq
<1>1. CASE ReuseSlot(id, user)
  <2> DEFINE i == Top(deluserlist)
  <2>1. deluserlist # <<>> /\ useridmap' = [useridmap EXCEPT ![id] = i]
    BY <1>1 DEF ReuseSlot, TakeFreeSlot
  <2>2. deluserlist \in Seq(Nat)
    BY DEF IInv, TypeOK
  <2>3. i \in FreeSlots
    <3>1. Len(deluserlist) \in DOMAIN deluserlist
      BY <2>1, <2>2, LenProperties, EmptySeq
    <3> QED
      BY <3>1 DEF FreeSlots, Top
  <2> HIDE DEF i
  <2>4. i \in Slots /\ i \notin LiveSlots
    BY <2>3 DEF IInv, FreeStackExact
  <2>5. i # 0 /\ i \notin bday
    BY <2>4 DEF IInv, ListsInRange, Slots
  <2> QED
    BY <1>0, <2>1, <2>5
<1>2. CASE AppendUser(id, user)
  <2> DEFINE i == Len(userlist)
  <2>1. useridmap' = [useridmap EXCEPT ![id] = i]
    BY <1>2 DEF AppendUser, PushUser
  <2>2. i \notin Slots /\ i # 0
    BY <1>0 DEF Slots
  <2>3. LiveSlots \subseteq Slots
    BY DEF IInv, MapsAgree, LiveSlots, Exists, Slot
  <2>4. i \notin bday
    BY <2>2, <2>3 DEF IInv, ListsInRange
  <2> HIDE DEF i
  <2> QED
    BY <1>0, <2>1, <2>2, <2>4
<1>3. QED
  BY <1>1, <1>2 DEF setUser, ReplaceUser

(* A list that has anybody on it is the birthday list or that of an        *)
(* interest with a list.                                                   *)
LEMMA ListedRange ==
  ASSUME IInv, NEW n \in Nat, NEW i \in Listed(n)
  PROVE  n \in 0..Len(interestlist)
<1>1. Len(interestlist) \in Nat /\ DOMAIN interestlist = 1..Len(interestlist)
  BY LenProperties DEF IInv, TypeOK
<1>2. QED
  BY <1>1 DEF Listed

LEMMA HistSetUserHInv ==
  ASSUME IInv, HInv, NEW id \in UserIds, NEW user \in NewUsers, HistSetUser(id, user)
  PROVE  HInv'
<1>1. /\ given' = given /\ erased' = erased
      /\ interestlist' = interestlist /\ bday' = bday /\ setUser(id, user)
  BY DEF HistSetUser, setUser
<1>2. \A n : Listed(n)' = Listed(n)
  BY <1>1 DEF Listed
<1>3. CASE Exists(id)
  <2>1. useridmap' = useridmap /\ heirs' = heirs
    BY <1>3 DEF HistSetUser, setUser, ReplaceUser, ReuseSlot, AppendUser, PushUser
  <2>2. ASSUME NEW j \in UserIds, NEW n \in Nat
        PROVE  ToldRight(j, n)'
    BY <1>1, <1>2, <2>1 DEF HInv, ToldRight, Told, Exists, Slot
  <2> QED
    BY <2>2 DEF HInv
<1>4. CASE ~Exists(id)
  <2> DEFINE i == useridmap'[id]
  <2>1. i # 0 /\ i \notin bday /\ \A j \in UserIds \ {id} : useridmap'[j] = useridmap[j]
    BY <1>1, <1>4, NewSlot
  <2>2. heirs' = heirs \cup {<<id, n>> : n \in {m \in 0..Len(interestlist) : i \in Listed(m)}}
    BY <1>4 DEF HistSetUser
  <2> HIDE DEF i
  <2>3. \A j \in UserIds \ {id}, n \in Nat : <<j, n>> \in heirs' <=> <<j, n>> \in heirs
    BY <2>2
  <2>4. \A n \in Nat : <<id, n>> \in heirs' <=> i \in Listed(n)
    <3>1. \A n \in Nat : i \in Listed(n) => n \in 0..Len(interestlist)
      BY ListedRange
    <3>2. \A n \in Nat : <<id, n>> \notin heirs
      BY <1>4 DEF HInv, ToldRight
    <3> QED
      BY <2>2, <3>1, <3>2
  <2>5. ASSUME NEW j \in UserIds \ {id}, NEW n \in Nat
        PROVE  ToldRight(j, n)'
    BY <1>1, <1>2, <2>1, <2>3 DEF HInv, ToldRight, Told, Exists, Slot
  <2>6. ASSUME NEW n \in Nat
        PROVE  ToldRight(id, n)'
    <3>1. Slot(id)' = i /\ Exists(id)'
      BY <2>1 DEF Exists, Slot, i
    <3>2. <<id, n>> \notin given
      BY <1>4 DEF HInv, ToldRight
    <3>3. i \notin Listed(0)
      BY <2>1 DEF Listed
    <3> QED
      BY <1>1, <1>2, <2>4, <3>1, <3>2, <3>3 DEF ToldRight, Told
  <2> QED
    BY <2>5, <2>6 DEF HInv
<1>5. QED
  BY <1>3, <1>4

LEMMA HistUpdateHInv ==
  ASSUME IInv, HInv, NEW id \in UserIds, NEW c \in Changes, HistUpdate(id, c)
  PROVE  HInv'
<1>1. UNCHANGED <<useridmap, interestlist, bday, given, heirs, erased>>
  BY DEF HistUpdate, updateLoc, updateField, history
<1>2. ASSUME NEW j \in UserIds, NEW n \in Nat
      PROVE  ToldRight(j, n)'
  BY <1>1 DEF HInv, ToldRight, Told, Exists, Slot, Listed
<1>3. QED
  BY <1>2 DEF HInv

(* A place on a list given to a user by its slot. *)
LEMMA GiveHInv ==
  ASSUME IInv, HInv, NEW id \in UserIds, Exists(id), useridmap' = useridmap,
         NEW m \in Nat, Give(id, m),
         \A n \in Nat : Listed(n)' = IF n = m THEN Listed(n) \cup {Slot(id)} ELSE Listed(n)
  PROVE  HInv'
<1> SUFFICES ASSUME NEW j \in UserIds, NEW n \in Nat
             PROVE  ToldRight(j, n)'
  BY DEF HInv
<1>1. Slot(j)' = Slot(j) /\ Exists(j)' = Exists(j)
  BY DEF Exists, Slot
<1>2. /\ given' = given \cup {<<id, m>>} /\ erased' = erased \ {<<id, m>>} /\ heirs' = heirs
  BY DEF Give
<1>3. CASE j = id /\ n = m
  <2>1. Slot(j)' \in Listed(n)'
    BY <1>1, <1>3
  <2>2. <<j, n>> \in given' /\ <<j, n>> \notin erased' /\ <<j, 0>> \notin heirs'
    BY <1>2, <1>3 DEF HInv, ToldRight
  <2> QED
    BY <1>1, <1>3, <2>1, <2>2 DEF ToldRight, Told
<1>4. CASE ~(j = id /\ n = m)
  <2>1. /\ <<j, n>> \in given' <=> <<j, n>> \in given
        /\ <<j, n>> \in erased' <=> <<j, n>> \in erased
    BY <1>2, <1>4
  <2>2. Exists(j) => (Slot(j) \in Listed(n)' <=> Slot(j) \in Listed(n))
    BY <1>4, SlotsDistinct
  <2> QED
    BY <1>1, <1>2, <2>1, <2>2 DEF HInv, ToldRight, Told
<1>5. QED
  BY <1>3, <1>4

LEMMA HistSetInterestHInv ==
  ASSUME IInv, HInv, NEW id \in UserIds, NEW k \in Interests, HistSetInterest(id, k)
  PROVE  HInv'
<1> DEFINE i == Slot(id)
           lists == Grown(interestlist, k)
           after == Put(lists, k, At(lists, k) \cup {i})
           ListOf(v, n) == IF n \in DOMAIN v THEN v[n] ELSE {}
<1>1. /\ useridmap' = useridmap /\ bday' = bday /\ Exists(id)
      /\ interestlist' = after /\ Give(id, k + 1)
  BY DEF HistSetInterest, setInterest
<1>2. k \in Nat /\ Len(interestlist) \in Nat /\ DOMAIN interestlist = 1..Len(interestlist)
  BY DataAssumption, LenProperties DEF IInv, TypeOK
<1> HIDE DEF i
<1>3. \A n \in Nat : ListOf(lists, n) = ListOf(interestlist, n)
  BY <1>2 DEF Grown
<1>4. k + 1 \in DOMAIN lists
  BY <1>2 DEF Grown
<1> HIDE DEF lists
<1>5. \A n \in Nat : ListOf(after, n) = IF n = k + 1 THEN ListOf(lists, n) \cup {i}
                                        ELSE ListOf(lists, n)
  BY <1>2, <1>4 DEF Put, At
<1>6. \A n \in Nat : Listed(n)' = IF n = k + 1 THEN Listed(n) \cup {i} ELSE Listed(n)
  <2> HIDE DEF after
  <2>1. \A n \in Nat : Listed(n) = IF n = 0 THEN bday ELSE ListOf(interestlist, n)
    BY DEF Listed
  <2>2. \A n \in Nat : Listed(n)' = IF n = 0 THEN bday ELSE ListOf(after, n)
    BY <1>1 DEF Listed
  <2> HIDE DEF ListOf
  <2> QED
    BY <1>2, <1>3, <1>5, <2>1, <2>2
<1>7. QED
  BY <1>1, <1>2, <1>6, GiveHInv DEF i

LEMMA HistAddBdayHInv ==
  ASSUME IInv, HInv, NEW id \in UserIds, HistAddBday(id)
  PROVE  HInv'
<1>1. /\ useridmap' = useridmap /\ interestlist' = interestlist /\ Exists(id)
      /\ bday' = bday \cup {Slot(id)} /\ Give(id, 0)
  BY DEF HistAddBday, addBday
<1>2. \A n \in Nat : Listed(n)' = IF n = 0 THEN Listed(n) \cup {Slot(id)} ELSE Listed(n)
  BY <1>1 DEF Listed
<1>3. QED
  BY <1>1, <1>2, GiveHInv

(* deleteUser takes the slot off, and at most the end of the list with it. *)
LEMMA DeleteOutcomesTake ==
  ASSUME NEW S, NEW storage \in BOOLEAN, NEW i, NEW d \in DeleteOutcomes(S, storage, i)
  PROVE  S \ d[1] \subseteq {i} \cup AtEnd(S, i)
<1>1. CASE i \in S \/ \E x \in S : x > i
  <2>1. d \in {<<S \ {i}, FALSE>>, <<S, FALSE>>}
    BY <1>1, Zenon DEF DeleteOutcomes
  <2>2. CASE d = <<S \ {i}, FALSE>>
    BY <2>2
  <2>3. CASE d = <<S, FALSE>>
    BY <2>3
  <2> QED
    BY <2>1, <2>2, <2>3
<1>2. CASE ~(i \in S \/ \E x \in S : x > i)
  <2>1. AtEnd(S, i) = {x \in S : \A y \in S : y <= x}
    BY <1>2, Zenon DEF AtEnd
  <2>2. \/ d \in {<<S, FALSE>>, <<S, TRUE>>}
        \/ \E x \in AtEnd(S, i) : d = <<S \ {x}, FALSE>>
    BY <1>2, <2>1, Zenon DEF DeleteOutcomes
  <2> HIDE DEF AtEnd
  <2>3. CASE \E x \in AtEnd(S, i) : d = <<S \ {x}, FALSE>>
    BY <2>3
  <2>4. CASE d \in {<<S, FALSE>>, <<S, TRUE>>}
    <3>1. CASE d = <<S, FALSE>>
      BY <3>1
    <3>2. CASE d = <<S, TRUE>>
      BY <3>2
    <3> QED
      BY <2>4, <3>1, <3>2
  <2> QED
    BY <2>2, <2>3, <2>4
<1>3. QED
  BY <1>1, <1>2

(* A list that the slot of id is taken off, and perhaps somebody's entry   *)
(* with it: the victims are those whose entry it is.                       *)
LEMMA VictimsLose ==
  ASSUME IInv, NEW id \in UserIds, NEW m \in Nat, NEW j \in UserIds \ {id},
         Listed(m)' \subseteq Listed(m) \ {Slot(id)},
         Listed(m) \ Listed(m)' \subseteq {Slot(id)} \cup AtEnd(Listed(m), Slot(id)),
         Exists(id), Exists(j)
  PROVE  /\ <<j, m>> \in Victims(m, Slot(id)) => Slot(j) \in Listed(m) /\ Slot(j) \notin Listed(m)'
         /\ <<j, m>> \notin Victims(m, Slot(id)) => (Slot(j) \in Listed(m)' <=> Slot(j) \in Listed(m))
<1> DEFINE i == Slot(id)
           end == AtEnd(Listed(m), i)
<1>1. \A x : x \in end => x \in Listed(m)
  BY DEF AtEnd
<1>2. <<j, m>> \in Victims(m, i) <=> Slot(j) \in end \ Listed(m)'
  BY DEF Victims
<1>3. Slot(j) # i
  BY SlotsDistinct
<1> HIDE DEF end, i
<1>4. QED
  BY <1>1, <1>2, <1>3 DEF i, end

LEMMA VictimsOnList ==
  ASSUME NEW m, NEW i, NEW p \in Victims(m, i)
  PROVE  p[2] = m /\ p[1] \in UserIds /\ p = <<p[1], m>> /\ i # Slot(p[1])
<1>1. PICK j \in UserIds : Slot(j) \in AtEnd(Listed(m), i) /\ p = <<j, m>>
  BY DEF Victims
<1>2. i \notin AtEnd(Listed(m), i)
  BY DEF AtEnd
<1>3. QED
  BY <1>1, <1>2

LEMMA TakeBackHInv ==
  ASSUME IInv, HInv, NEW id \in UserIds, Exists(id), useridmap' = useridmap,
         NEW m \in Nat, TakeBack(id, m),
         \A n \in Nat \ {m} : Listed(n)' = Listed(n),
         Listed(m)' \subseteq Listed(m) \ {Slot(id)},
         Listed(m) \ Listed(m)' \subseteq {Slot(id)} \cup AtEnd(Listed(m), Slot(id))
  PROVE  HInv'
<1> SUFFICES ASSUME NEW j \in UserIds, NEW n \in Nat
             PROVE  ToldRight(j, n)'
  BY DEF HInv
<1> DEFINE victims == Victims(m, Slot(id))
<1>1. Slot(j)' = Slot(j) /\ Exists(j)' = Exists(j)
  BY DEF Exists, Slot
<1>2. /\ given' = given \ {<<id, m>>}
      /\ heirs' = heirs \ (victims \cup {<<id, m>>})
      /\ erased' = (erased \cup victims) \ {<<id, m>>}
  BY DEF TakeBack
<1>3. \A k \in UserIds, l \in Nat : <<k, l>> \in victims => l = m /\ Slot(k) # Slot(id)
  BY VictimsOnList
<1>4. ~Exists(j) => <<j, n>> \notin victims
  <2>1. ASSUME <<j, n>> \in victims
        PROVE  Exists(j)
    <3>1. Slot(j) \in Listed(m) /\ n = m
      <4>1. PICK k \in UserIds : Slot(k) \in AtEnd(Listed(m), Slot(id)) /\ <<j, n>> = <<k, m>>
        BY <2>1 DEF Victims
      <4> QED
        BY <4>1 DEF AtEnd
    <3>2. Listed(m) \subseteq Slots
      <4>1. LiveSlots \subseteq Slots
        BY DEF IInv, MapsAgree, LiveSlots, Exists, Slot
      <4> QED
        BY <4>1 DEF Listed, IInv, ListsInRange
    <3> QED
      BY <3>1, <3>2 DEF Exists, Slots
  <2> QED
    BY <2>1
<1>5. <<j, 0>> \notin heirs'
  BY <1>2 DEF HInv, ToldRight
<1> HIDE DEF victims
<1>6. CASE ~Exists(j)
  BY <1>1, <1>2, <1>4, <1>5, <1>6 DEF HInv, ToldRight
<1>7. CASE Exists(j) /\ j = id /\ n = m
  <2>1. Slot(j)' \notin Listed(n)'
    BY <1>1, <1>7
  <2>2. <<j, n>> \notin heirs' /\ <<j, n>> \notin given'
    BY <1>2, <1>7
  <2> QED
    BY <1>1, <1>5, <1>7, <2>1, <2>2 DEF ToldRight, Told
<1>8. CASE Exists(j) /\ j # id /\ n = m
  <2>1. /\ <<j, n>> \in given' <=> <<j, n>> \in given
        /\ <<j, n>> \in heirs' <=> <<j, n>> \in heirs /\ <<j, n>> \notin victims
        /\ <<j, n>> \in erased' <=> <<j, n>> \in erased \/ <<j, n>> \in victims
    BY <1>2, <1>8
  <2>2. /\ <<j, n>> \in victims => Slot(j) \notin Listed(n)'
        /\ <<j, n>> \notin victims => (Slot(j) \in Listed(n)' <=> Slot(j) \in Listed(n))
    BY <1>8, VictimsLose DEF victims
  <2>3. Slot(j) \in Listed(n) <=> Told(j, n)
    BY <1>8 DEF HInv, ToldRight
  <2> QED
    BY <1>1, <1>5, <1>8, <2>1, <2>2, <2>3 DEF ToldRight, Told
<1>9. CASE Exists(j) /\ n # m
  <2>1. /\ <<j, n>> \in given' <=> <<j, n>> \in given
        /\ <<j, n>> \in heirs' <=> <<j, n>> \in heirs
        /\ <<j, n>> \in erased' <=> <<j, n>> \in erased
    BY <1>2, <1>3, <1>9
  <2>2. Slot(j) \in Listed(n) <=> Told(j, n)
    BY <1>9 DEF HInv, ToldRight
  <2>3. Listed(n)' = Listed(n)
    BY <1>9
  <2> QED
    BY <1>1, <1>5, <1>9, <2>1, <2>2, <2>3 DEF ToldRight, Told
<1>10. QED
  BY <1>6, <1>7, <1>8, <1>9

LEMMA HistUnsetInterestHInv ==
  ASSUME IInv, HInv, NEW id \in UserIds, NEW k \in Interests, HistUnsetInterest(id, k)
  PROVE  HInv'
<1> DEFINE i == Slot(id)
           m == k + 1
<1>1. useridmap' = useridmap /\ bday' = bday /\ Exists(id) /\ TakeBack(id, m)
  BY DEF HistUnsetInterest, unsetInterest
<1>2. k \in Nat /\ m \in Nat \ {0} /\ Len(interestlist) \in Nat
      /\ DOMAIN interestlist = 1..Len(interestlist)
  BY DataAssumption, LenProperties DEF IInv, TypeOK
<1>3. CASE k < Len(interestlist)
  <2>1. PICK d \in DeleteOutcomes(At(interestlist, k), TRUE, i) :
               interestlist' = Put(interestlist, k, d[1])
    BY <1>3 DEF HistUnsetInterest, unsetInterest
  <2>2. At(interestlist, k) = Listed(m) /\ m \in DOMAIN interestlist
    BY <1>2, <1>3 DEF At, Listed
  <2>3. d[1] \subseteq Listed(m) \ {i} /\ Listed(m) \ d[1] \subseteq {i} \cup AtEnd(Listed(m), i)
    BY <2>2, DeleteOutcomesShrink, DeleteOutcomesTake
  <2>4. interestlist' = [interestlist EXCEPT ![m] = d[1]]
    BY <2>1 DEF Put
  <2>5. Listed(m)' = d[1]
    BY <1>2, <2>2, <2>4 DEF Listed
  <2>6. \A n \in Nat \ {m} : Listed(n)' = Listed(n)
    BY <1>1, <2>4 DEF Listed
  <2> HIDE DEF m, i
  <2> QED
    BY <1>1, <1>2, <2>3, <2>5, <2>6, TakeBackHInv DEF i
<1>4. CASE ~(k < Len(interestlist))
  <2>1. interestlist' = interestlist
    BY <1>4 DEF HistUnsetInterest, unsetInterest
  <2>2. \A n : Listed(n)' = Listed(n)
    BY <1>1, <2>1 DEF Listed
  <2>3. Listed(m) = {}
    BY <1>2, <1>4 DEF Listed
  <2> HIDE DEF m
  <2> QED
    BY <1>1, <1>2, <2>2, <2>3, TakeBackHInv
<1>5. QED
  BY <1>3, <1>4

LEMMA HistDelBdayHInv ==
  ASSUME IInv, HInv, NEW id \in UserIds, HistDelBday(id)
  PROVE  HInv'
<1>1. /\ useridmap' = useridmap /\ interestlist' = interestlist /\ Exists(id)
      /\ TakeBack(id, 0) /\ bdayStorage \in BOOLEAN
  BY DEF HistDelBday, delBday, IInv, TypeOK
<1>2. PICK d \in DeleteOutcomes(bday, bdayStorage, Slot(id)) : bday' = d[1]
  BY DEF HistDelBday, delBday
<1>3. d[1] \subseteq bday \ {Slot(id)} /\ bday \ d[1] \subseteq {Slot(id)} \cup AtEnd(bday, Slot(id))
  BY <1>1, DeleteOutcomesShrink, DeleteOutcomesTake
<1>4. Listed(0) = bday /\ Listed(0)' = bday' /\ \A n \in Nat \ {0} : Listed(n)' = Listed(n)
  BY <1>1 DEF Listed
<1>5. QED
  BY <1>1, <1>2, <1>3, <1>4, TakeBackHInv

LEMMA HistDelUserHInv ==
  ASSUME IInv, HInv, NEW id \in UserIds, HistDelUser(id)
  PROVE  HInv'
<1> DEFINE i == Slot(id)
           victims == Victims(0, i)
<1>1. /\ useridmap' = [useridmap EXCEPT ![id] = 0] /\ interestlist' = interestlist
      /\ Exists(id) /\ bdayStorage \in BOOLEAN /\ useridmap \in [UserIds -> Nat]
  BY DEF HistDelUser, delUser, IInv, TypeOK
<1>2. PICK d \in DeleteOutcomes(bday, bdayStorage, i) : bday' = d[1]
  BY DEF HistDelUser, delUser
<1>3. d[1] \subseteq bday \ {i} /\ bday \ d[1] \subseteq {i} \cup AtEnd(bday, i)
  BY <1>1, DeleteOutcomesShrink, DeleteOutcomesTake
<1>4. Listed(0) = bday /\ Listed(0)' = bday' /\ \A n \in Nat \ {0} : Listed(n)' = Listed(n)
  BY <1>1 DEF Listed
<1>5. /\ given' = given \ PairsOf(id, given)
      /\ heirs' = heirs \ (victims \cup PairsOf(id, heirs))
      /\ erased' = (erased \cup victims) \ PairsOf(id, erased)
  BY DEF HistDelUser
<1>6. \A k \in UserIds, l \in Nat : <<k, l>> \in victims =>
        l = 0 /\ Slot(k) # i /\ Slot(k) \in bday
  <2>1. ASSUME NEW k \in UserIds, NEW l \in Nat, <<k, l>> \in victims
        PROVE  l = 0 /\ Slot(k) # i /\ Slot(k) \in bday
    <3>1. PICK h \in UserIds : Slot(h) \in AtEnd(bday, i) /\ <<k, l>> = <<h, 0>>
      BY <1>4, <2>1 DEF Victims
    <3> QED
      BY <3>1 DEF AtEnd
  <2> QED
    BY <2>1
<1> SUFFICES ASSUME NEW j \in UserIds, NEW n \in Nat
             PROVE  ToldRight(j, n)'
  BY DEF HInv
<1>7. <<j, 0>> \notin heirs'
  BY <1>5 DEF HInv, ToldRight
<1>8. CASE j = id
  <2>1. ~Exists(j)'
    BY <1>1, <1>8 DEF Exists, Slot
  <2>2. <<j, n>> \notin victims
    BY <1>6, <1>8
  <2> HIDE DEF victims
  <2>3. /\ <<j, n>> \in given => <<j, n>> \in PairsOf(id, given)
        /\ <<j, n>> \in heirs => <<j, n>> \in PairsOf(id, heirs)
        /\ <<j, n>> \in erased => <<j, n>> \in PairsOf(id, erased)
    BY <1>8 DEF PairsOf
  <2> QED
    BY <1>5, <1>7, <2>1, <2>2, <2>3 DEF ToldRight
<1>9. CASE j # id
  <2>1. Slot(j)' = Slot(j) /\ Exists(j)' = Exists(j)
    BY <1>1, <1>9 DEF Exists, Slot
  <2>2. <<j, n>> \notin PairsOf(id, given) \cup PairsOf(id, heirs) \cup PairsOf(id, erased)
    BY <1>9 DEF PairsOf
  <2>3. /\ <<j, n>> \in given' <=> <<j, n>> \in given
        /\ <<j, n>> \in heirs' <=> <<j, n>> \in heirs /\ <<j, n>> \notin victims
        /\ <<j, n>> \in erased' <=> <<j, n>> \in erased \/ <<j, n>> \in victims
    BY <1>5, <2>2
  <2>4. CASE ~Exists(j)
    <3>1. <<j, n>> \notin victims
      <4>1. 0 \notin bday
        BY DEF IInv, ListsInRange, LiveSlots
      <4> QED
        BY <1>6, <2>4, <4>1 DEF Exists
    <3> HIDE DEF victims
    <3> QED
      BY <1>7, <2>1, <2>3, <2>4, <3>1 DEF HInv, ToldRight
  <2>5. CASE Exists(j) /\ n = 0
    <3>1. /\ <<j, 0>> \in victims => Slot(j) \notin Listed(0)'
          /\ <<j, 0>> \notin victims => (Slot(j) \in Listed(0)' <=> Slot(j) \in Listed(0))
      BY <1>1, <1>2, <1>3, <1>4, <1>9, <2>5, VictimsLose
    <3> HIDE DEF victims
    <3>2. Slot(j) \in Listed(0) <=> Told(j, 0)
      BY <2>5 DEF HInv, ToldRight
    <3> QED
      BY <1>7, <2>1, <2>3, <2>5, <3>1, <3>2 DEF ToldRight, Told
  <2>6. CASE Exists(j) /\ n # 0
    <3>1. <<j, n>> \notin victims /\ Listed(n)' = Listed(n)
      BY <1>4, <1>6, <2>6
    <3> HIDE DEF victims
    <3>2. Slot(j) \in Listed(n) <=> Told(j, n)
      BY <2>6 DEF HInv, ToldRight
    <3> QED
      BY <1>7, <2>1, <2>3, <2>6, <3>1, <3>2 DEF ToldRight, Told
  <2> QED
    BY <2>4, <2>5, <2>6
<1>10. QED
  BY <1>8, <1>9

LEMMA NextHInv == IInv /\ HInv /\ [HistNext]_histvars => HInv'
<1> SUFFICES ASSUME IInv, HInv, [HistNext]_histvars
             PROVE  HInv'
  OBVIOUS
<1>1. ASSUME NEW id \in UserIds, NEW user \in NewUsers, HistSetUser(id, user)
      PROVE  HInv'
  BY <1>1, HistSetUserHInv
<1>2. ASSUME NEW id \in UserIds, NEW c \in Changes, HistUpdate(id, c)
      PROVE  HInv'
  BY <1>2, HistUpdateHInv
<1>3. ASSUME NEW id \in UserIds, NEW k \in Interests, HistSetInterest(id, k)
      PROVE  HInv'
  BY <1>3, HistSetInterestHInv
<1>4. ASSUME NEW id \in UserIds, NEW k \in Interests, HistUnsetInterest(id, k)
      PROVE  HInv'
  BY <1>4, HistUnsetInterestHInv
<1>5. ASSUME NEW id \in UserIds, HistAddBday(id) \/ HistDelBday(id) \/ HistDelUser(id)
      PROVE  HInv'
  BY <1>5, HistAddBdayHInv, HistDelBdayHInv, HistDelUserHInv
<1>6. ASSUME UNCHANGED histvars
      PROVE  HInv'
  <2>1. ASSUME NEW j \in UserIds, NEW n \in Nat
        PROVE  ToldRight(j, n)'
    BY <1>6 DEF histvars, vars, history, HInv, ToldRight, Told, Listed, Exists, Slot
  <2> QED
    BY <2>1 DEF HInv
<1>7. QED
  BY <1>1, <1>2, <1>3, <1>4, <1>5, <1>6 DEF HistNext

(* So the lists are told by the history, in every run: a user is on a list *)
(* it was given and not erased from, or that it inherited.                 *)
THEOREM HistoryTellsLists == HistSpec => [](IInv /\ HInv)
<1>1. HistSpec => []IInv
  BY HistoryImplementsData, Invariance, PTL
<1>2. HistSpec => []HInv
  BY <1>1, InitHInv, NextHInv, PTL DEF HistSpec
<1>3. QED
  BY <1>1, <1>2, PTL

-----------------------------------------------------------------------------
(* SearchQuery. *)

Ids == UserIds \cup {0}
Acc == [totalrows : Nat, results : Seq(Ids), full : BOOLEAN]
Matches(q, i) == matchUser(At(userlist, i), q)

(* What is in a slot. *)
LEMMA SlotTypes ==
  ASSUME IInv
  PROVE  /\ Len(userlist) \in Nat \ {0} /\ Slots \in SUBSET Nat /\ IsFiniteSet(Slots)
         /\ \A i \in Slots : At(usermap, i) \in Ids /\ At(userlist, i) \in User
<1>1. Len(userlist) \in Nat \ {0} /\ Len(usermap) = Len(userlist)
  BY EmptySeq DEF IInv, TypeOK, MapsAgree
<1>2. IsFiniteSet(Slots)
  BY <1>1, FS_Interval DEF Slots
<1>3. ASSUME NEW i \in Slots
      PROVE  At(usermap, i) \in Ids /\ At(userlist, i) \in User
  <2>1. i + 1 \in 1..Len(userlist)
    BY <1>1 DEF Slots
  <2> QED
    BY <1>1, <2>1, ElementOfSeq DEF IInv, TypeOK, At, Ids
<1> QED
  BY <1>1, <1>2, <1>3 DEF Slots

(* The paging fields are numbers and flags, and one turn of the scan       *)
(* keeps the types.                                                        *)
LEMMA QueryTypes ==
  ASSUME NEW q \in SearchType
  PROVE  q.offset \in Nat /\ q.rowcount \in Nat /\ q.quick \in BOOLEAN /\ q.random \in BOOLEAN
BY DEF SearchType

(* One turn of the scan keeps the types of its counters.                   *)
LEMMA ScanRowType ==
  ASSUME IInv, NEW q \in SearchType, NEW acc \in Acc, NEW i \in Slots
  PROVE  ScanRow(q, acc, i) \in Acc
<1> DEFINE total == acc.totalrows + 1
           rows == IF total > q.offset /\ Len(acc.results) < q.rowcount
                   THEN Append(acc.results, At(usermap, i)) ELSE acc.results
           full == q.quick /\ rows # acc.results /\ Len(rows) = q.rowcount
<1>1. CASE acc.full \/ ~Matches(q, i)
  BY <1>1 DEF ScanRow, Matches
<1>2. CASE ~(acc.full \/ ~Matches(q, i))
  <2>1. total \in Nat /\ acc.results \in Seq(Ids) /\ At(usermap, i) \in Ids
    BY SlotTypes DEF Acc
  <2>2. rows \in Seq(Ids)
    BY <2>1, AppendProperties
  <2>3. full \in BOOLEAN
    BY QueryTypes
  <2>4. ScanRow(q, acc, i) = [totalrows |-> total, results |-> rows, full |-> full]
    BY <1>2, Zenon DEF ScanRow, Matches
  <2> HIDE DEF total, rows, full
  <2> QED
    BY <2>1, <2>2, <2>3, <2>4 DEF Acc
<1> QED
  BY <1>1, <1>2

(* The scan by its turns. *)
Start == [totalrows |-> 0, results |-> <<>>, full |-> FALSE]
ScanByTurns(h, q, s) ==
  /\ h[0] = Start /\ h[Len(s)] = Scan(q, s)
  /\ \A k \in 1..Len(s) : h[k] = ScanRow(q, h[k - 1], s[k])

(* The fold of Scan is the loop of scanList, turn after turn.              *)
LEMMA ScanRecursion ==
  ASSUME IInv, NEW q \in SearchType, NEW s \in Seq(Slots)
  PROVE  \E h \in [0..Len(s) -> Acc] : ScanByTurns(h, q, s)
<1> DEFINE n == Len(s)
           Dom == SUBSET (1..n)
           F(iter) == [ss \in Dom |->
                         IF ss = {} THEN Start
                         ELSE LET x == Max(ss) IN ScanRow(q, iter[ss \ {x}], s[x])]
           step == [p \in Acc \X (1..n) |-> ScanRow(q, p[1], s[p[2]])]
           iter0 == CHOOSE iter : iter = F(iter)
           h == [k \in 0..n |-> iter0[1..k]]
<1>1. n \in Nat /\ DOMAIN s = 1..n /\ \A k \in 1..n : s[k] \in Slots
  BY LenProperties, ElementOfSeq
<1>2. Scan(q, s) = iter0[1..n]
  <2>1. Scan(q, s) = iter0[DOMAIN s]
    BY <1>1, Zenon DEF Scan, Start, FoldLeft, MapThenFoldSet
  <2> QED
    BY <1>1, <2>1
<1>3. step \in [Acc \X (1..n) -> Acc]
  BY <1>1, ScanRowType
<1>4. Start \in Acc
  BY EmptySeq DEF Start, Acc
<1>5. PICK g \in [Dom -> Acc] : TakesMax(g, n, Start, step)
  <2> HIDE DEF step
  <2> QED
    BY <1>1, <1>3, <1>4, SubsetRecursion
<1>6. \A ss \in Dom : ss # {} => Max(ss) \in 1..n /\ ss \ {Max(ss)} \in Dom
  BY <1>1, IntervalMax
<1>7. g = F(g)
  <2>1. ASSUME NEW ss \in Dom
        PROVE  g[ss] = F(g)[ss]
    <3>1. CASE ss = {}
      BY <1>5, <3>1 DEF TakesMax
    <3>2. CASE ss # {}
      <4>1. g[ss] = step[<<g[ss \ {Max(ss)}], Max(ss)>>]
        <5> HIDE DEF step
        <5> QED
          BY <1>5, <3>2 DEF TakesMax
      <4>2. <<g[ss \ {Max(ss)}], Max(ss)>> \in Acc \X (1..n)
        BY <1>6, <3>2
      <4>3. g[ss] = ScanRow(q, g[ss \ {Max(ss)}], s[Max(ss)])
        BY <4>1, <4>2, Zenon
      <4> QED
        BY <3>2, <4>3
    <3> QED
      BY <3>1, <3>2
  <2>2. g = [ss \in Dom |-> g[ss]]
    BY <1>5
  <2>3. F(g) = [ss \in Dom |-> F(g)[ss]]
    OBVIOUS
  <2> HIDE DEF F
  <2> QED
    BY <2>1, <2>2, <2>3
<1>8. iter0 = F(iter0)
  <2> HIDE DEF F
  <2> QED
    BY <1>7
<1>9. /\ iter0[{}] = Start
      /\ \A k \in 1..n : iter0[1..k] = ScanRow(q, iter0[1..(k - 1)], s[k])
  <2>1. {} \in Dom
    OBVIOUS
  <2>2. iter0[{}] = F(iter0)[{}]
    <3> HIDE DEF F, iter0
    <3> QED
      BY <1>8
  <2>3. iter0[{}] = Start
    <3> HIDE DEF iter0
    <3> QED
      BY <2>1, <2>2
  <2>4. ASSUME NEW k \in 1..n
        PROVE  iter0[1..k] = ScanRow(q, iter0[1..(k - 1)], s[k])
    <3>1. 1..k \in Dom /\ 1..k # {} /\ Max(1..k) = k /\ (1..k) \ {k} = 1..(k - 1)
      <4>1. k \in 0..n
        BY <1>1
      <4> QED
        BY <1>1, <4>1, PrefixIntervals
    <3>2. iter0[1..k] = F(iter0)[1..k]
      <4> HIDE DEF F, iter0
      <4> QED
        BY <1>8
    <3> HIDE DEF iter0
    <3> QED
      BY <3>1, <3>2
  <2> QED
    BY <2>3, <2>4
<1>10. 1..0 = {}
  BY PrefixIntervals
<1> HIDE DEF iter0
<1>11. /\ h[0] = Start /\ h[n] = Scan(q, s)
       /\ \A k \in 1..n : h[k] = ScanRow(q, h[k - 1], s[k])
  <2>1. 0 \in 0..n /\ n \in 0..n /\ \A k \in 1..n : k \in 0..n /\ k - 1 \in 0..n
    BY <1>1
  <2> QED
    BY <1>2, <1>9, <1>10, <2>1
<1>12. \A k \in 0..n : h[k] \in Acc
  <2> DEFINE T == {k \in 0..n : h[k] \in Acc}
  <2>1. 0 \in T
    <3>1. 0 \in 0..n
      BY <1>1
    <3> HIDE DEF h
    <3> QED
      BY <1>4, <1>11, <3>1
  <2>2. ASSUME NEW k \in 0..(n - 1), k \in T
        PROVE  k + 1 \in T
    <3>1. k + 1 \in 1..n /\ (k + 1) - 1 = k /\ k + 1 \in 0..n
      BY <1>1
    <3>2. h[k + 1] = ScanRow(q, h[k], s[k + 1])
      <4> HIDE DEF h
      <4> QED
        BY <1>11, <3>1
    <3>3. s[k + 1] \in Slots /\ h[k] \in Acc
      BY <1>1, <2>2, <3>1
    <3> HIDE DEF h
    <3> QED
      BY <3>1, <3>2, <3>3, ScanRowType
  <2> HIDE DEF T
  <2>3. \A k \in 0..n : k \in T
    BY <1>1, <2>1, <2>2, IntervalInduction
  <2> QED
    BY <2>3 DEF T
<1>13. h \in [0..n -> Acc]
  BY <1>12
<1> HIDE DEF h
<1> QED
  BY <1>11, <1>13 DEF ScanByTurns

-----------------------------------------------------------------------------
(* A page of rows, by its length and its elements. *)
PageLen(n, offset, rowcount) ==
  IF n <= offset THEN 0 ELSE IF n <= offset + rowcount THEN n - offset ELSE rowcount
IsPage(p, rows, offset, rowcount) ==
  /\ p \in Seq(Ids)
  /\ Len(p) = PageLen(Len(rows), offset, rowcount)
  /\ \A j \in 1..Len(p) : p[j] = rows[offset + j]

(* Page is that page, ...                                                  *)
LEMMA PageIsPage ==
  ASSUME NEW rows \in Seq(Ids), NEW offset \in Nat, NEW rowcount \in Nat
  PROVE  IsPage(Page(rows, offset, rowcount), rows, offset, rowcount)
<1> DEFINE n == Len(rows)
           last == Min({n, offset + rowcount})
<1>1. n \in Nat /\ \A j \in 1..n : rows[j] \in Ids
  BY LenProperties, ElementOfSeq
<1>2. last = IF n <= offset + rowcount THEN n ELSE offset + rowcount
  <2> DEFINE S == {n, offset + rowcount}
             m == IF n <= offset + rowcount THEN n ELSE offset + rowcount
  <2>1. m \in S /\ \A x \in S : m <= x
    BY <1>1
  <2>2. \A y \in S : (\A x \in S : y <= x) => y = m
    BY <1>1
  <2>3. Min(S) = m
    <3> HIDE DEF S, m
    <3> QED
      BY <2>1, <2>2 DEF Min
  <2> QED
    BY <2>3
<1>3. Page(rows, offset, rowcount) =
        IF offset < last THEN SubSeq(rows, offset + 1, last) ELSE <<>>
  BY Zenon DEF Page
<1> HIDE DEF last, n
<1>4. last \in Nat /\ last <= n
  BY <1>1, <1>2
<1>5. CASE offset < last
  <2>1. \A j \in (offset + 1)..last : rows[j] \in Ids
    BY <1>1, <1>4
  <2>2. /\ SubSeq(rows, offset + 1, last) \in Seq(Ids)
        /\ Len(SubSeq(rows, offset + 1, last)) = last - offset
        /\ \A j \in 1..(last - offset) : SubSeq(rows, offset + 1, last)[j] = rows[offset + j]
    <3>1. /\ offset + 1 \in Int /\ last \in Int /\ offset + 1 <= last
          /\ last - (offset + 1) + 1 = last - offset
          /\ \A j \in 1..(last - offset) : offset + 1 + j - 1 = offset + j
      BY <1>4, <1>5
    <3>2. /\ SubSeq(rows, offset + 1, last) \in Seq(Ids)
          /\ Len(SubSeq(rows, offset + 1, last)) =
               IF offset + 1 <= last THEN last - (offset + 1) + 1 ELSE 0
          /\ \A j \in 1..(last - (offset + 1) + 1) :
               SubSeq(rows, offset + 1, last)[j] = rows[offset + 1 + j - 1]
      BY <2>1, <3>1, SubSeqProperties
    <3> QED
      BY <3>1, <3>2
  <2>3. last - offset = PageLen(n, offset, rowcount)
    BY <1>1, <1>2, <1>5 DEF PageLen
  <2> QED
    BY <1>3, <1>5, <2>2, <2>3 DEF IsPage, n
<1>6. CASE ~(offset < last)
  <2>1. PageLen(n, offset, rowcount) = 0
    BY <1>1, <1>2, <1>6 DEF PageLen
  <2>2. <<>> \in Seq(Ids) /\ Len(<<>>) = 0 /\ \A j \in 1..0 : FALSE
    BY EmptySeq
  <2> QED
    BY <1>3, <1>6, <2>1, <2>2 DEF IsPage, n
<1> QED
  BY <1>5, <1>6

(* ... and nothing else is.                                                *)
LEMMA PageUnique ==
  ASSUME NEW rows \in Seq(Ids), NEW offset \in Nat, NEW rowcount \in Nat,
         NEW p, IsPage(p, rows, offset, rowcount)
  PROVE  p = Page(rows, offset, rowcount)
<1> DEFINE r == Page(rows, offset, rowcount)
<1>1. IsPage(r, rows, offset, rowcount)
  BY PageIsPage
<1> HIDE DEF r
<1>2. p \in Seq(Ids) /\ r \in Seq(Ids) /\ Len(p) = Len(r)
  BY <1>1 DEF IsPage
<1>3. \A j \in 1..Len(p) : p[j] = r[j]
  BY <1>1, <1>2 DEF IsPage
<1>4. p = r
  BY <1>2, <1>3, SeqEqual
<1> QED
  BY <1>4 DEF r

(* One row more. *)
LEMMA PageGrows ==
  ASSUME NEW rows \in Seq(Ids), NEW offset \in Nat, NEW rowcount \in Nat, NEW id \in Ids,
         NEW p, IsPage(p, rows, offset, rowcount)
  PROVE  IF Len(rows) + 1 > offset /\ Len(p) < rowcount
         THEN IsPage(Append(p, id), Append(rows, id), offset, rowcount)
         ELSE IsPage(p, Append(rows, id), offset, rowcount)
<1> DEFINE longer == Append(rows, id)
<1>1. /\ Len(rows) \in Nat /\ Len(longer) = Len(rows) + 1
      /\ \A j \in 1..Len(rows) : longer[j] = rows[j]
      /\ longer[Len(rows) + 1] = id
  BY LenProperties, AppendProperties
<1>2. /\ p \in Seq(Ids) /\ Len(p) \in Nat /\ Len(p) = PageLen(Len(rows), offset, rowcount)
      /\ \A j \in 1..Len(p) : p[j] = rows[offset + j]
  BY LenProperties DEF IsPage
<1> HIDE DEF longer
<1>3. \A j \in 1..Len(p) : p[j] = longer[offset + j]
  <2>1. ASSUME NEW j \in 1..Len(p)
        PROVE  offset + j \in 1..Len(rows)
    BY <1>1, <1>2 DEF PageLen
  <2> QED
    BY <1>1, <1>2, <2>1
<1>4. CASE Len(rows) + 1 > offset /\ Len(p) < rowcount
  <2>1. Len(rows) >= offset /\ Len(p) = Len(rows) - offset
    BY <1>1, <1>2, <1>4 DEF PageLen
  <2>2. PageLen(Len(rows) + 1, offset, rowcount) = Len(p) + 1
    BY <1>1, <1>2, <1>4, <2>1 DEF PageLen
  <2> DEFINE r == Append(p, id)
  <2>3. r \in Seq(Ids) /\ Len(r) = Len(p) + 1 /\ r[Len(p) + 1] = id
        /\ \A j \in 1..Len(p) : r[j] = p[j]
    <3>1. p \in Seq(Ids) /\ Len(p) \in Nat
      BY <1>2
    <3> QED
      BY <3>1, AppendProperties
  <2> HIDE DEF r
  <2>4. ASSUME NEW j \in 1..Len(r)
        PROVE  r[j] = longer[offset + j]
    <3>1. CASE j = Len(p) + 1
      <4>1. offset + j = Len(rows) + 1
        BY <1>1, <2>1, <3>1
      <4> QED
        BY <1>1, <2>3, <3>1, <4>1
    <3>2. CASE j # Len(p) + 1
      <4>1. j \in 1..Len(p)
        BY <1>2, <2>3, <3>2
      <4> QED
        BY <1>3, <2>3, <4>1
    <3> QED
      BY <3>1, <3>2
  <2>5. IsPage(r, longer, offset, rowcount)
    BY <1>1, <2>2, <2>3, <2>4 DEF IsPage
  <2> QED
    BY <1>4, <2>5 DEF r, longer
<1>5. CASE ~(Len(rows) + 1 > offset /\ Len(p) < rowcount)
  <2>1. PageLen(Len(rows) + 1, offset, rowcount) = Len(p)
    BY <1>1, <1>2, <1>5 DEF PageLen
  <2>2. IsPage(p, longer, offset, rowcount)
    BY <1>1, <1>2, <1>3, <2>1 DEF IsPage
  <2> QED
    BY <1>5, <2>2 DEF longer
<1> QED
  BY <1>4, <1>5

-----------------------------------------------------------------------------
(* The rows a search matches, in the order of its scan, by the turns.      *)
RowsByTurns(R, q, s) ==
  /\ R[0] = <<>>
  /\ \A k \in 1..Len(s) :
       R[k] = IF Matches(q, s[k]) THEN Append(R[k - 1], At(usermap, s[k])) ELSE R[k - 1]

(* A scan collects its page of them, and counts them all unless it stops.  *)
LEMMA ScanGivesPage ==
  ASSUME IInv, NEW q \in SearchType, NEW s \in Seq(Slots),
         NEW R \in [0..Len(s) -> Seq(Ids)], RowsByTurns(R, q, s)
  PROVE  /\ Scan(q, s).results = Page(R[Len(s)], q.offset, q.rowcount)
         /\ ~q.quick => Scan(q, s).totalrows = Len(R[Len(s)])
<1>1. PICK h \in [0..Len(s) -> Acc] : ScanByTurns(h, q, s)
  BY ScanRecursion
<1>2. /\ h[0] = Start /\ h[Len(s)] = Scan(q, s)
      /\ \A k \in 1..Len(s) : h[k] = ScanRow(q, h[k - 1], s[k])
  BY <1>1 DEF ScanByTurns
<1>3. Len(s) \in Nat /\ \A k \in 1..Len(s) : s[k] \in Slots
  BY LenProperties, ElementOfSeq
<1>4. q.offset \in Nat /\ q.rowcount \in Nat /\ q.quick \in BOOLEAN
  BY QueryTypes
<1> DEFINE Is(acc, rows) ==
             /\ IsPage(acc.results, rows, q.offset, q.rowcount)
             /\ acc.full => q.quick /\ Len(acc.results) = q.rowcount
             /\ ~acc.full => acc.totalrows = Len(rows)
           T == {k \in 0..Len(s) : Is(h[k], R[k])}
<1>5. 0 \in T
  <2>1. h[0].results = <<>> /\ h[0].totalrows = 0 /\ h[0].full = FALSE /\ R[0] = <<>>
    BY <1>2 DEF Start, RowsByTurns
  <2>2. Len(<<>>) = 0 /\ <<>> \in Seq(Ids)
    BY EmptySeq
  <2>3. PageLen(0, q.offset, q.rowcount) = 0
    BY <1>4 DEF PageLen
  <2>4. IsPage(<<>>, <<>>, q.offset, q.rowcount)
    BY <2>2, <2>3 DEF IsPage
  <2>5. 0 \in 0..Len(s)
    BY <1>3
  <2> QED
    BY <2>1, <2>2, <2>4, <2>5
<1>6. ASSUME NEW k \in 0..(Len(s) - 1), k \in T
      PROVE  k + 1 \in T
  <2>1. k + 1 \in 1..Len(s) /\ k + 1 \in 0..Len(s) /\ (k + 1) - 1 = k /\ k \in 0..Len(s)
    BY <1>3
  <2> DEFINE i == s[k + 1]
             a == h[k]
             rows == R[k]
             p == a.results
             id == At(usermap, i)
  <2>2. a \in Acc /\ rows \in Seq(Ids) /\ i \in Slots /\ id \in Ids
    BY <1>3, <2>1, SlotTypes
  <2>3. p \in Seq(Ids) /\ a.totalrows \in Nat /\ a.full \in BOOLEAN /\ Len(p) \in Nat /\ Len(rows) \in Nat
    BY <2>2, LenProperties DEF Acc
  <2>4. h[k + 1] = ScanRow(q, a, i)
    BY <1>2, <2>1
  <2>5. R[k + 1] = IF Matches(q, i) THEN Append(rows, id) ELSE rows
    BY <2>1 DEF RowsByTurns
  <2>6. Is(a, rows)
    BY <1>6
  <2> HIDE DEF i, a, rows, p, id
  <2>7. IF Len(rows) + 1 > q.offset /\ Len(p) < q.rowcount
        THEN IsPage(Append(p, id), Append(rows, id), q.offset, q.rowcount)
        ELSE IsPage(p, Append(rows, id), q.offset, q.rowcount)
    BY <1>4, <2>2, <2>6, PageGrows DEF p
  <2>8. Len(Append(rows, id)) = Len(rows) + 1 /\ Len(Append(p, id)) = Len(p) + 1
    BY <2>2, <2>3, AppendProperties
  <2>9. Is(h[k + 1], R[k + 1])
    <3>1. CASE ~Matches(q, i)
      <4>1. h[k + 1] = a /\ R[k + 1] = rows
        BY <2>4, <2>5, <3>1 DEF ScanRow, Matches
      <4> QED
        BY <2>6, <4>1
    <3>2. CASE Matches(q, i) /\ a.full
      <4>1. h[k + 1] = a /\ R[k + 1] = Append(rows, id)
        BY <2>4, <2>5, <3>2 DEF ScanRow
      <4>2. ~(Len(p) < q.rowcount)
        BY <1>4, <2>3, <2>6, <3>2 DEF p
      <4>3. IsPage(p, Append(rows, id), q.offset, q.rowcount)
        BY <2>7, <4>2
      <4> QED
        BY <2>6, <3>2, <4>1, <4>3 DEF p
    <3>3. CASE Matches(q, i) /\ ~a.full
      <4> DEFINE new == IF a.totalrows + 1 > q.offset /\ Len(p) < q.rowcount
                        THEN Append(p, id) ELSE p
                 full == q.quick /\ new # p /\ Len(new) = q.rowcount
      <4>1. R[k + 1] = Append(rows, id) /\ a.totalrows = Len(rows)
        BY <2>5, <2>6, <3>3
      <4>2. h[k + 1] = [totalrows |-> a.totalrows + 1, results |-> new, full |-> full]
        <5>1. ~(a.full \/ ~matchUser(At(userlist, i), q))
          BY <3>3 DEF Matches
        <5> QED
          BY <2>4, <5>1, Zenon DEF ScanRow, p, id
      <4>3. IsPage(new, Append(rows, id), q.offset, q.rowcount)
        BY <2>7, <4>1
      <4>4. full => q.quick /\ Len(new) = q.rowcount
        OBVIOUS
      <4> HIDE DEF new, full
      <4>5. h[k + 1].results = new /\ h[k + 1].full = full /\ h[k + 1].totalrows = Len(rows) + 1
        BY <4>1, <4>2
      <4> QED
        BY <2>8, <4>1, <4>3, <4>4, <4>5
    <3> QED
      BY <3>1, <3>2, <3>3
  <2> HIDE DEF Is
  <2> QED
    BY <2>1, <2>9
<1>7. Is(h[Len(s)], R[Len(s)])
  <2> HIDE DEF T
  <2>1. Len(s) \in 0..Len(s)
    BY <1>3
  <2>2. Len(s) \in T
    BY <1>3, <1>5, <1>6, <2>1, IntervalInduction
  <2> QED
    BY <2>2 DEF T
<1>8. R[Len(s)] \in Seq(Ids)
  BY <1>3
<1>9. Scan(q, s).results = Page(R[Len(s)], q.offset, q.rowcount)
  BY <1>2, <1>4, <1>7, <1>8, PageUnique
<1> QED
  BY <1>2, <1>7, <1>9

-----------------------------------------------------------------------------
(* The whole page asks for the same users. *)
LEMMA WholePageSame ==
  ASSUME IInv, NEW q \in SearchType
  PROVE  /\ WholePage(q) \in SearchType
         /\ WholePage(q).quick = FALSE /\ WholePage(q).random = FALSE
         /\ WholePage(q).offset = 0 /\ WholePage(q).rowcount = Len(userlist)
         /\ Lists(WholePage(q)) = Lists(q) /\ SlotOrder(WholePage(q)) = SlotOrder(q)
         /\ \A i : Matches(WholePage(q), i) <=> Matches(q, i)
<1> DEFINE w == WholePage(q)
<1>1. Len(userlist) \in Nat
  BY SlotTypes
<1>2. w \in SearchType
  BY <1>1 DEF WholePage, SearchType
<1>3. w.quick = FALSE /\ w.random = FALSE /\ w.offset = 0 /\ w.rowcount = Len(userlist)
  BY DEF WholePage, SearchType
<1>4. /\ w.agemin = q.agemin /\ w.agemax = q.agemax /\ w.sex = q.sex /\ w.active = q.active
      /\ w.pic = q.pic /\ w.single = q.single /\ w.sexuality = q.sexuality
      /\ w.locs = q.locs /\ w.interests = q.interests /\ w.socials = q.socials
      /\ w.allinterests = q.allinterests /\ w.bday = q.bday
  BY DEF WholePage, SearchType
<1> HIDE DEF w
<1>5. Lists(w) = Lists(q)
  BY <1>4, Zenon DEF Lists
<1>6. SlotOrder(w) = SlotOrder(q)
  BY <1>5, Zenon DEF SlotOrder, Candidates
<1>7. \A i : Matches(w, i) <=> Matches(q, i)
  BY <1>4, Zenon DEF Matches, matchUser
<1> QED
  BY <1>2, <1>3, <1>5, <1>6, <1>7 DEF w

(* Scanning for the whole page collects and counts every row.              *)
LEMMA WholeRows ==
  ASSUME IInv, NEW q \in SearchType, NEW s \in Seq(Slots), Len(s) < Len(userlist)
  PROVE  \E R \in [0..Len(s) -> Seq(Ids)] :
           /\ RowsByTurns(R, q, s)
           /\ Scan(WholePage(q), s).results = R[Len(s)]
           /\ Scan(WholePage(q), s).totalrows = Len(R[Len(s)])
<1> DEFINE w == WholePage(q)
<1>1. /\ w \in SearchType /\ w.quick = FALSE /\ w.offset = 0 /\ w.rowcount = Len(userlist)
      /\ \A i : Matches(w, i) <=> Matches(q, i)
  BY WholePageSame
<1> HIDE DEF w
<1>2. PICK h \in [0..Len(s) -> Acc] : ScanByTurns(h, w, s)
  BY <1>1, ScanRecursion
<1>3. /\ h[0] = Start /\ h[Len(s)] = Scan(w, s)
      /\ \A k \in 1..Len(s) : h[k] = ScanRow(w, h[k - 1], s[k])
  BY <1>2 DEF ScanByTurns
<1>4. /\ Len(s) \in Nat /\ \A k \in 1..Len(s) : s[k] \in Slots
      /\ Len(userlist) \in Nat
  BY LenProperties, ElementOfSeq, SlotTypes
<1> DEFINE Is(acc, k) == /\ acc.full = FALSE /\ acc.totalrows = Len(acc.results)
                         /\ Len(acc.results) <= k
           T == {k \in 0..Len(s) : Is(h[k], k)}
           R == [k \in 0..Len(s) |-> h[k].results]
           Turn(a, b, i) == b.results = IF Matches(q, i) THEN Append(a.results, At(usermap, i)) ELSE a.results
<1>5. 0 \in T
  <2>1. h[0].results = <<>> /\ h[0].totalrows = 0 /\ h[0].full = FALSE
    BY <1>3 DEF Start
  <2>2. Len(<<>>) = 0 /\ 0 \in 0..Len(s)
    BY <1>4, EmptySeq
  <2> QED
    BY <2>1, <2>2
<1>6. ASSUME NEW k \in 0..(Len(s) - 1), k \in T
      PROVE  k + 1 \in T /\ Turn(h[k], h[k + 1], s[k + 1])
  <2>1. k + 1 \in 1..Len(s) /\ k + 1 \in 0..Len(s) /\ (k + 1) - 1 = k /\ k \in 0..Len(s)
    BY <1>4
  <2> DEFINE i == s[k + 1]
             a == h[k]
             p == a.results
             id == At(usermap, i)
  <2>2. a \in Acc /\ i \in Slots /\ id \in Ids
    BY <1>4, <2>1, SlotTypes
  <2>3. p \in Seq(Ids) /\ a.totalrows \in Nat /\ Len(p) \in Nat
    BY <2>2, LenProperties DEF Acc
  <2>4. h[k + 1] = ScanRow(w, a, i)
    BY <1>3, <2>1
  <2>5. Is(a, k)
    BY <1>6
  <2>6. Is(h[k + 1], k + 1) /\ Turn(a, h[k + 1], i)
    <3>1. CASE ~Matches(q, i)
      <4>1. h[k + 1] = a
        <5>1. ~matchUser(At(userlist, i), w)
          BY <1>1, <3>1 DEF Matches
        <5> HIDE DEF i, a
        <5> QED
          BY <2>4, <5>1, Zenon DEF ScanRow
      <4> HIDE DEF a, i
      <4>2. Len(a.results) <= k + 1
        BY <2>3, <2>5 DEF p
      <4> QED
        BY <2>5, <3>1, <4>1, <4>2
    <3>2. CASE Matches(q, i)
      <4> DEFINE new == IF a.totalrows + 1 > w.offset /\ Len(p) < w.rowcount
                        THEN Append(p, id) ELSE p
                 full == w.quick /\ new # p /\ Len(new) = w.rowcount
      <4>1. h[k + 1] = [totalrows |-> a.totalrows + 1, results |-> new, full |-> full]
        <5>1. ~(a.full \/ ~matchUser(At(userlist, i), w))
          BY <1>1, <2>5, <3>2 DEF Matches
        <5> HIDE DEF a, i
        <5> QED
          BY <2>4, <5>1, Zenon DEF ScanRow, p, id
      <4>2. a.totalrows + 1 > w.offset /\ Len(p) < w.rowcount
        <5> HIDE DEF a
        <5> QED
          BY <1>1, <1>4, <2>3, <2>5 DEF p
      <4>3. new = Append(p, id) /\ full = FALSE
        <5> HIDE DEF p, id
        <5> QED
          BY <1>1, <4>2
      <4> HIDE DEF new, full
      <4>4. /\ h[k + 1].results = Append(p, id) /\ h[k + 1].full = FALSE
            /\ h[k + 1].totalrows = a.totalrows + 1
        BY <4>1, <4>3
      <4> HIDE DEF a, p, id, i
      <4>5. Len(Append(p, id)) = Len(p) + 1
        BY <2>2, <2>3, AppendProperties
      <4>6. Len(p) + 1 <= k + 1 /\ a.totalrows + 1 = Len(p) + 1
        BY <2>3, <2>5 DEF p
      <4> QED
        BY <3>2, <4>4, <4>5, <4>6 DEF p, id
    <3> QED
      BY <3>1, <3>2
  <2> HIDE DEF Is, Turn
  <2> QED
    BY <2>1, <2>6
<1>7. \A k \in 0..Len(s) : k \in T
  <2> HIDE DEF T, Turn
  <2>1. \A k \in 0..(Len(s) - 1) : k \in T => k + 1 \in T
    BY <1>6
  <2> QED
    BY <1>4, <1>5, <2>1, IntervalInduction
<1>8. R \in [0..Len(s) -> Seq(Ids)]
  BY DEF Acc
<1>9. RowsByTurns(R, q, s)
  <2>1. ASSUME NEW k \in 1..Len(s)
        PROVE  R[k] = IF Matches(q, s[k]) THEN Append(R[k - 1], At(usermap, s[k])) ELSE R[k - 1]
    <3>1. k - 1 \in 0..(Len(s) - 1) /\ k - 1 \in 0..Len(s) /\ (k - 1) + 1 = k /\ k \in 0..Len(s)
      BY <1>4
    <3>2. Turn(h[k - 1], h[k], s[k])
      <4> HIDE DEF Turn, T
      <4> QED
        BY <1>6, <1>7, <3>1
    <3>3. R[k] = h[k].results /\ R[k - 1] = h[k - 1].results
      BY <3>1
    <3> HIDE DEF R
    <3> QED
      BY <3>2, <3>3
  <2>2. R[0] = <<>>
    <3>1. 0 \in 0..Len(s) /\ h[0].results = <<>>
      BY <1>3, <1>4 DEF Start
    <3> QED
      BY <3>1
  <2> HIDE DEF R
  <2> QED
    BY <2>1, <2>2 DEF RowsByTurns
<1>10. Scan(w, s).results = R[Len(s)] /\ Scan(w, s).totalrows = Len(R[Len(s)])
  <2>1. Len(s) \in 0..Len(s)
    BY <1>4
  <2>2. Is(h[Len(s)], Len(s))
    <3> HIDE DEF Is
    <3> QED
      BY <1>7, <2>1
  <2> QED
    BY <1>3, <2>1, <2>2
<1> HIDE DEF R
<1> QED
  BY <1>8, <1>9, <1>10 DEF w

-----------------------------------------------------------------------------
(* The lists of a search hold slots, ... *)
LEMMA ListsHoldSlots ==
  ASSUME IInv, NEW q \in SearchType
  PROVE  /\ bday \subseteq Slots
         /\ LocsUnion(q.locs) \subseteq Slots
         /\ InterestsUnion(q.interests) \subseteq Slots
         /\ InterestsAll(q.interests) \subseteq Slots
<1>1. LiveSlots \subseteq Slots
  BY OwnedSlot DEF LiveSlots, Exists
<1>2. bday \subseteq Slots
  BY <1>1 DEF IInv, ListsInRange
<1>3. LocsUnion(q.locs) \subseteq Slots
  BY DEF LocsUnion, IInv, LocListExact
<1>4. ASSUME NEW k \in Nat, HasInterestList(k)
      PROVE  At(interestlist, k) \subseteq Slots
  <2>1. Len(interestlist) \in Nat /\ DOMAIN interestlist = 1..Len(interestlist)
    BY LenProperties DEF IInv, TypeOK
  <2>2. k + 1 \in DOMAIN interestlist
    BY <1>4, <2>1 DEF HasInterestList
  <2> QED
    BY <2>2 DEF At, IInv, ListsInRange
<1>5. ToSet(q.interests) \subseteq Nat /\ (Len(q.interests) = 1 => q.interests[1] \in Nat)
  <2>1. q.interests \in Seq(Nat)
    BY DEF SearchType
  <2>2. Len(q.interests) \in Nat /\ DOMAIN q.interests = 1..Len(q.interests)
        /\ \A n \in 1..Len(q.interests) : q.interests[n] \in Nat
    BY <2>1, LenProperties, ElementOfSeq
  <2> QED
    BY <2>2 DEF ToSet
<1>6. InterestsUnion(q.interests) \subseteq Slots
  BY <1>4, <1>5 DEF InterestsUnion
<1>7. InterestsAll(q.interests) \subseteq Slots
  BY <1>4, <1>5 DEF InterestsAll
<1> QED
  BY <1>2, <1>3, <1>6, <1>7

(* ... and a slot is in all of them iff it is in each that is there.       *)
InAll(i, lists) == \A n \in DOMAIN lists : i \in lists[n]
InBoth(s, t) ==
  /\ s \o t \in Seq(SUBSET Slots)
  /\ \A i : InAll(i, s \o t) <=> InAll(i, s) /\ InAll(i, t)

(* A slot is in all lists of two parts iff it is in all of each.           *)
LEMMA InBothParts ==
  ASSUME NEW s \in Seq(SUBSET Slots), NEW t \in Seq(SUBSET Slots)
  PROVE  InBoth(s, t)
<1> DEFINE r == s \o t
<1>1. /\ r \in Seq(SUBSET Slots) /\ Len(r) = Len(s) + Len(t)
      /\ \A n \in 1..(Len(s) + Len(t)) :
           r[n] = IF n <= Len(s) THEN s[n] ELSE t[n - Len(s)]
  BY ConcatProperties
<1>2. /\ Len(s) \in Nat /\ Len(t) \in Nat /\ DOMAIN s = 1..Len(s) /\ DOMAIN t = 1..Len(t)
  BY LenProperties
<1> HIDE DEF r
<1>3. DOMAIN r = 1..(Len(s) + Len(t))
  BY <1>1, LenProperties
<1>4. \A n \in DOMAIN s : n \in DOMAIN r /\ r[n] = s[n]
  BY <1>1, <1>2, <1>3
<1>5. \A n \in DOMAIN t : n + Len(s) \in DOMAIN r /\ r[n + Len(s)] = t[n]
  <2>1. ASSUME NEW n \in DOMAIN t
        PROVE  n + Len(s) \in DOMAIN r /\ r[n + Len(s)] = t[n]
    <3>1. /\ n + Len(s) \in 1..(Len(s) + Len(t)) /\ ~(n + Len(s) <= Len(s))
          /\ (n + Len(s)) - Len(s) = n
      BY <1>2
    <3> QED
      BY <1>1, <1>3, <3>1
  <2> QED
    BY <2>1
<1>6. \A n \in DOMAIN r : (n \in DOMAIN s /\ r[n] = s[n])
                          \/ (n - Len(s) \in DOMAIN t /\ r[n] = t[n - Len(s)])
  BY <1>1, <1>2, <1>3
<1>7. ASSUME NEW i
      PROVE  InAll(i, r) <=> InAll(i, s) /\ InAll(i, t)
  BY <1>4, <1>5, <1>6 DEF InAll
<1> QED
  BY <1>1, <1>7 DEF InBoth, r

OneOrNone(c, S) == IF c THEN <<S>> ELSE <<>>

(* A list that is only there under a condition limits only under it.       *)
LEMMA InOneOrNone ==
  ASSUME NEW c \in BOOLEAN, NEW S \in SUBSET Slots
  PROVE  /\ OneOrNone(c, S) \in Seq(SUBSET Slots)
         /\ \A i : InAll(i, OneOrNone(c, S)) <=> (c => i \in S)
<1>1. CASE c
  <2>1. OneOrNone(c, S) = <<S>>
    BY <1>1 DEF OneOrNone
  <2>2. <<S>> \in Seq(SUBSET Slots) /\ DOMAIN <<S>> = {1} /\ <<S>>[1] = S
    OBVIOUS
  <2> QED
    BY <1>1, <2>1, <2>2 DEF InAll
<1>2. CASE ~c
  <2>1. OneOrNone(c, S) = <<>>
    BY <1>2 DEF OneOrNone
  <2>2. <<>> \in Seq(SUBSET Slots) /\ DOMAIN <<>> = {}
    BY EmptySeq
  <2> QED
    BY <1>2, <2>1, <2>2 DEF InAll
<1> QED
  BY <1>1, <1>2

InterestsList(q) == IF q.allinterests THEN InterestsAll(q.interests) ELSE InterestsUnion(q.interests)

(* What it means to be on every list of a search.                          *)
LEMMA ListsMean ==
  ASSUME IInv, NEW q \in SearchType
  PROVE  /\ Lists(q) \in Seq(SUBSET Slots)
         /\ \A i : InAll(i, Lists(q)) <=>
              /\ q.bday => i \in bday
              /\ q.locs # <<>> => i \in LocsUnion(q.locs)
              /\ q.interests # <<>> => i \in InterestsList(q)
              /\ q.socials = <<>>
<1> DEFINE b == OneOrNone(q.bday, bday)
           l == OneOrNone(q.locs # <<>>, LocsUnion(q.locs))
           k == OneOrNone(q.interests # <<>>, InterestsList(q))
           s == OneOrNone(q.socials # <<>>, {})
<1>1. q.bday \in BOOLEAN
  BY DEF SearchType
<1>2. /\ b \in Seq(SUBSET Slots) /\ \A i : InAll(i, b) <=> (q.bday => i \in bday)
  BY <1>1, ListsHoldSlots, InOneOrNone
<1>3. /\ l \in Seq(SUBSET Slots)
      /\ \A i : InAll(i, l) <=> (q.locs # <<>> => i \in LocsUnion(q.locs))
  BY ListsHoldSlots, InOneOrNone
<1>4. /\ k \in Seq(SUBSET Slots)
      /\ \A i : InAll(i, k) <=> (q.interests # <<>> => i \in InterestsList(q))
  <2>1. InterestsList(q) \in SUBSET Slots
    BY ListsHoldSlots DEF InterestsList
  <2> QED
    BY <2>1, InOneOrNone
<1>5. /\ s \in Seq(SUBSET Slots) /\ \A i : InAll(i, s) <=> (q.socials # <<>> => i \in {})
  <2>1. {} \in SUBSET Slots
    OBVIOUS
  <2>2. /\ OneOrNone(q.socials # <<>>, {}) \in Seq(SUBSET Slots)
        /\ \A i : InAll(i, OneOrNone(q.socials # <<>>, {})) <=> (q.socials # <<>> => i \in {})
    BY <2>1, InOneOrNone
  <2> QED
    BY <2>2
<1>6. Lists(q) = ((b \o l) \o k) \o s
  BY Zenon DEF Lists, OneOrNone, InterestsList
<1> HIDE DEF b, l, k, s
<1>7. InBoth(b, l)
  BY <1>2, <1>3, InBothParts
<1>8. InBoth(b \o l, k)
  BY <1>4, <1>7, InBothParts DEF InBoth
<1>9. InBoth((b \o l) \o k, s)
  BY <1>5, <1>8, InBothParts DEF InBoth
<1>10. Lists(q) \in Seq(SUBSET Slots)
  BY <1>6, <1>9, Zenon DEF InBoth
<1>11. ASSUME NEW i
       PROVE  InAll(i, Lists(q)) <=> InAll(i, b) /\ InAll(i, l) /\ InAll(i, k) /\ InAll(i, s)
  BY <1>6, <1>7, <1>8, <1>9, Zenon DEF InBoth
<1> QED
  BY <1>2, <1>3, <1>4, <1>5, <1>10, <1>11

-----------------------------------------------------------------------------
(* The fold of Candidates, by its turns. *)
FoldOf(lists) == FoldLeft(intersect_set, Head(lists), Tail(lists))
CandidatesByTurns(h, lists) ==
  /\ h[0] = Head(lists) /\ h[Len(lists) - 1] = FoldOf(lists)
  /\ \A k \in 1..(Len(lists) - 1) : h[k] = intersect_set(h[k - 1], Tail(lists)[k])

(* The lists after the first, by their numbers.                            *)
LEMMA RestOfLists ==
  ASSUME NEW lists \in Seq(SUBSET Slots), lists # <<>>
  PROVE  /\ Len(lists) - 1 \in Nat /\ DOMAIN Tail(lists) = 1..(Len(lists) - 1)
         /\ DOMAIN lists = 1..Len(lists)
         /\ \A k \in 1..(Len(lists) - 1) :
              k + 1 \in DOMAIN lists /\ Tail(lists)[k] = lists[k + 1] /\ Tail(lists)[k] \in SUBSET Slots
         /\ 1 \in DOMAIN lists /\ Head(lists) = lists[1] /\ Head(lists) \in SUBSET Slots
<1>1. /\ Len(lists) \in Nat \ {0} /\ DOMAIN lists = 1..Len(lists)
      /\ \A n \in 1..Len(lists) : lists[n] \in SUBSET Slots
  BY EmptySeq, LenProperties, ElementOfSeq
<1>2. /\ Tail(lists) \in Seq(SUBSET Slots) /\ Len(Tail(lists)) = Len(lists) - 1
      /\ \A k \in 1..(Len(lists) - 1) : Tail(lists)[k] = lists[k + 1]
  BY HeadTailProperties
<1>3. DOMAIN Tail(lists) = 1..(Len(lists) - 1)
  BY <1>2, LenProperties
<1>4. Head(lists) = lists[1]
  OBVIOUS
<1>5. \A k \in 1..(Len(lists) - 1) : k + 1 \in 1..Len(lists)
  BY <1>1
<1> QED
  BY <1>1, <1>2, <1>3, <1>4, <1>5

(* Intersecting lists of slots gives a list of slots.                      *)
LEMMA IntersectType ==
  ASSUME NEW A \in SUBSET Slots, NEW B \in SUBSET Slots
  PROVE  intersect_set(A, B) \in SUBSET Slots
BY DEF intersect_set

(* The fold of Candidates takes the lists one after the other.             *)
LEMMA CandidatesRecursion ==
  ASSUME NEW lists \in Seq(SUBSET Slots), lists # <<>>
  PROVE  \E h \in [0..(Len(lists) - 1) -> SUBSET Slots] : CandidatesByTurns(h, lists)
<1> DEFINE n == Len(lists) - 1
           first == Head(lists)
           rest == Tail(lists)
           Dom == SUBSET (1..n)
           F(iter) == [ss \in Dom |->
                         IF ss = {} THEN first
                         ELSE LET x == Max(ss) IN intersect_set(iter[ss \ {x}], rest[x])]
           step == [p \in (SUBSET Slots) \X (1..n) |-> intersect_set(p[1], rest[p[2]])]
           iter0 == CHOOSE iter : iter = F(iter)
           h == [k \in 0..n |-> iter0[1..k]]
<1>1. /\ n \in Nat /\ DOMAIN rest = 1..n /\ \A k \in 1..n : rest[k] \in SUBSET Slots
      /\ first \in SUBSET Slots
  BY RestOfLists
<1>2. FoldOf(lists) = iter0[1..n]
  <2>1. FoldOf(lists) = iter0[DOMAIN rest]
    BY <1>1, Zenon DEF FoldOf, FoldLeft, MapThenFoldSet
  <2> QED
    BY <1>1, <2>1
<1>3. step \in [(SUBSET Slots) \X (1..n) -> SUBSET Slots]
  BY <1>1, IntersectType
<1> HIDE DEF first, rest
<1>5. PICK g \in [Dom -> SUBSET Slots] : TakesMax(g, n, first, step)
  <2> HIDE DEF step
  <2> QED
    BY <1>1, <1>3, SubsetRecursion
<1>6. \A ss \in Dom : ss # {} => Max(ss) \in 1..n /\ ss \ {Max(ss)} \in Dom
  BY <1>1, IntervalMax
<1>7. g = F(g)
  <2>1. ASSUME NEW ss \in Dom
        PROVE  g[ss] = F(g)[ss]
    <3>1. CASE ss = {}
      BY <1>5, <3>1 DEF TakesMax
    <3>2. CASE ss # {}
      <4>1. g[ss] = step[<<g[ss \ {Max(ss)}], Max(ss)>>]
        <5> HIDE DEF step
        <5> QED
          BY <1>5, <3>2 DEF TakesMax
      <4>2. <<g[ss \ {Max(ss)}], Max(ss)>> \in (SUBSET Slots) \X (1..n)
        BY <1>6, <3>2
      <4>3. g[ss] = intersect_set(g[ss \ {Max(ss)}], rest[Max(ss)])
        BY <4>1, <4>2, Zenon
      <4> QED
        BY <3>2, <4>3
    <3> QED
      BY <3>1, <3>2
  <2>2. g = [ss \in Dom |-> g[ss]]
    BY <1>5
  <2>3. F(g) = [ss \in Dom |-> F(g)[ss]]
    OBVIOUS
  <2> HIDE DEF F
  <2> QED
    BY <2>1, <2>2, <2>3
<1>8. iter0 = F(iter0)
  <2> HIDE DEF F
  <2> QED
    BY <1>7
<1>9. /\ iter0[{}] = first
      /\ \A k \in 1..n : iter0[1..k] = intersect_set(iter0[1..(k - 1)], rest[k])
  <2>1. {} \in Dom
    OBVIOUS
  <2>2. iter0[{}] = F(iter0)[{}]
    <3> HIDE DEF F, iter0
    <3> QED
      BY <1>8
  <2>3. iter0[{}] = first
    <3> HIDE DEF iter0
    <3> QED
      BY <2>1, <2>2
  <2>4. ASSUME NEW k \in 1..n
        PROVE  iter0[1..k] = intersect_set(iter0[1..(k - 1)], rest[k])
    <3>1. 1..k \in Dom /\ 1..k # {} /\ Max(1..k) = k /\ (1..k) \ {k} = 1..(k - 1)
      <4>1. k \in 0..n
        BY <1>1
      <4> QED
        BY <1>1, <4>1, PrefixIntervals
    <3>2. iter0[1..k] = F(iter0)[1..k]
      <4> HIDE DEF F, iter0
      <4> QED
        BY <1>8
    <3> HIDE DEF iter0
    <3> QED
      BY <3>1, <3>2
  <2> QED
    BY <2>3, <2>4
<1>10. 1..0 = {}
  BY PrefixIntervals
<1> HIDE DEF iter0
<1>11. /\ h[0] = first /\ h[n] = FoldOf(lists)
       /\ \A k \in 1..n : h[k] = intersect_set(h[k - 1], rest[k])
  <2>1. 0 \in 0..n /\ n \in 0..n /\ \A k \in 1..n : k \in 0..n /\ k - 1 \in 0..n
    BY <1>1
  <2> QED
    BY <1>2, <1>9, <1>10, <2>1
<1>12. \A k \in 0..n : h[k] \in SUBSET Slots
  <2> DEFINE T == {k \in 0..n : h[k] \in SUBSET Slots}
  <2>1. 0 \in T
    <3>1. 0 \in 0..n
      BY <1>1
    <3> HIDE DEF h
    <3> QED
      BY <1>1, <1>11, <3>1
  <2>2. ASSUME NEW k \in 0..(n - 1), k \in T
        PROVE  k + 1 \in T
    <3>1. k + 1 \in 1..n /\ (k + 1) - 1 = k /\ k + 1 \in 0..n
      BY <1>1
    <3>2. h[k + 1] = intersect_set(h[k], rest[k + 1])
      <4> HIDE DEF h
      <4> QED
        BY <1>11, <3>1
    <3>3. rest[k + 1] \in SUBSET Slots /\ h[k] \in SUBSET Slots
      BY <1>1, <2>2, <3>1
    <3> HIDE DEF h
    <3> QED
      BY <3>1, <3>2, <3>3, IntersectType
  <2> HIDE DEF T
  <2>3. \A k \in 0..n : k \in T
    BY <1>1, <2>1, <2>2, IntervalInduction
  <2> QED
    BY <2>3 DEF T
<1>13. h \in [0..n -> SUBSET Slots]
  BY <1>12
<1> HIDE DEF h
<1> QED
  BY <1>11, <1>13 DEF CandidatesByTurns, first, rest

(* Without an empty list after the first, what is left is in every list.   *)
LEMMA CandidatesInAll ==
  ASSUME IInv, NEW q \in SearchType
  PROVE  /\ Candidates(q) \subseteq Slots
         /\ ~MeetsEmptyList(q) =>
              \A i : i \in Candidates(q) <=> i \in Slots /\ InAll(i, Lists(q))
<1> DEFINE lists == Lists(q)
<1>1. lists \in Seq(SUBSET Slots)
  BY ListsMean
<1>2. CASE lists = <<>>
  <2>1. Candidates(q) = Slots
    BY <1>2 DEF Candidates
  <2>2. DOMAIN lists = {}
    BY <1>2
  <2> QED
    BY <2>1, <2>2 DEF InAll
<1>3. CASE lists # <<>>
  <2> DEFINE m == Len(lists) - 1
             Upto(k) == {i \in Slots : \A n \in 1..(k + 1) : i \in lists[n]}
             Is(S, k) == ~MeetsEmptyList(q) => S = Upto(k)
  <2>1. Candidates(q) = FoldOf(lists)
    BY <1>3, Zenon DEF Candidates, FoldOf
  <2>2. MeetsEmptyList(q) <=> \E n \in 2..Len(lists) : lists[n] = {}
    BY DEF MeetsEmptyList
  <2> HIDE DEF lists
  <2>3. PICK h \in [0..m -> SUBSET Slots] : CandidatesByTurns(h, lists)
    BY <1>1, <1>3, CandidatesRecursion
  <2>4. /\ m \in Nat /\ m + 1 = Len(lists) /\ DOMAIN lists = 1..(m + 1)
        /\ h[0] = lists[1] /\ h[0] \in SUBSET Slots /\ h[m] = FoldOf(lists)
        /\ \A k \in 1..m : h[k] = intersect_set(h[k - 1], lists[k + 1])
                           /\ lists[k + 1] \in SUBSET Slots
    BY <1>1, <1>3, <2>3, RestOfLists DEF CandidatesByTurns
  <2> HIDE DEF m
  <2> DEFINE T == {k \in 0..m : Is(h[k], k)}
  <2>5. 0 \in T
    <3>1. 1..(0 + 1) = {1} /\ 0 \in 0..m
      BY <2>4
    <3>2. lists[1] = Upto(0)
      BY <2>4, <3>1
    <3> HIDE DEF Upto
    <3> QED
      BY <2>4, <3>1, <3>2
  <2>6. ASSUME NEW k \in 0..(m - 1), k \in T
        PROVE  k + 1 \in T
    <3>1. k + 1 \in 1..m /\ k + 1 \in 0..m /\ k \in 0..m /\ (k + 1) - 1 = k
      BY <2>4
    <3> DEFINE r == lists[(k + 1) + 1]
    <3>2. h[k + 1] = intersect_set(h[k], r) /\ r \in SUBSET Slots
      BY <2>4, <3>1
    <3>3. \A j : j \in 1..((k + 1) + 1) <=> j \in 1..(k + 1) \/ j = (k + 1) + 1
      BY <3>1
    <3>4. Upto(k + 1) = Upto(k) \cap r
      BY <3>3
    <3>5. ~MeetsEmptyList(q) => r # {}
      <4>1. (k + 1) + 1 \in 2..Len(lists)
        BY <2>4, <3>1
      <4> QED
        BY <2>2, <4>1
    <3>6. Is(h[k], k)
      BY <2>6
    <3> HIDE DEF Upto, r
    <3>7. Is(h[k + 1], k + 1)
      BY <3>2, <3>4, <3>5, <3>6 DEF intersect_set
    <3> HIDE DEF Is
    <3> QED
      BY <3>1, <3>7
  <2>7. m \in 0..m /\ m \in T
    <3> HIDE DEF T
    <3>1. m \in 0..m
      BY <2>4
    <3> QED
      BY <2>4, <2>5, <2>6, <3>1, IntervalInduction
  <2>8. Is(Candidates(q), m)
    BY <2>1, <2>4, <2>7
  <2>9. Candidates(q) \subseteq Slots
    BY <2>1, <2>3, <2>4, <2>7
  <2>10. \A i : i \in Upto(m) <=> i \in Slots /\ InAll(i, lists)
    BY <2>4 DEF InAll
  <2> HIDE DEF Upto
  <2> QED
    BY <2>8, <2>9, <2>10 DEF lists
<1> QED
  BY <1>2, <1>3

-----------------------------------------------------------------------------
(* The order of the scan, and what the rows of an order are. *)
LEMMA OrderProperties ==
  ASSUME IInv, NEW q \in SearchType
  PROVE  /\ SlotOrder(q) \in Seq(Slots) /\ Len(SlotOrder(q)) < Len(userlist)
         /\ ToSet(SlotOrder(q)) = Candidates(q)
         /\ Ascending(SlotOrder(q))
<1>1. Candidates(q) \subseteq Slots
  BY CandidatesInAll
<1>2. Slots \in SUBSET Nat /\ IsFiniteSet(Slots) /\ Len(userlist) \in Nat \ {0}
      /\ Cardinality(Slots) = Len(userlist) - 1
  <2>1. Slots \in SUBSET Nat /\ IsFiniteSet(Slots) /\ Len(userlist) \in Nat \ {0}
    BY SlotTypes
  <2>2. Cardinality(1..(Len(userlist) - 1)) =
          IF 1 <= Len(userlist) - 1 THEN (Len(userlist) - 1) - 1 + 1 ELSE 0
    BY <2>1, FS_Interval
  <2> QED
    BY <2>1, <2>2 DEF Slots
<1>3. /\ Candidates(q) \in SUBSET Nat /\ IsFiniteSet(Candidates(q))
      /\ Cardinality(Candidates(q)) <= Cardinality(Slots)
  BY <1>1, <1>2, FS_Subset
<1>4. /\ SlotOrder(q) \in Seq(Candidates(q)) /\ ToSet(SlotOrder(q)) = Candidates(q)
      /\ Len(SlotOrder(q)) = Cardinality(Candidates(q)) /\ Ascending(SlotOrder(q))
      /\ Cardinality(Candidates(q)) \in Nat
  BY <1>3, VectorProperties DEF SlotOrder
<1>5. SlotOrder(q) \in Seq(Slots)
  BY <1>1, <1>4, SeqMonotonic
<1>6. Len(SlotOrder(q)) < Len(userlist)
  BY <1>2, <1>3, <1>4
<1> QED
  BY <1>4, <1>5, <1>6

(* The rows of an order are the owners of its slots that match, the first  *)
(* one first, and each once if the slots have different owners.            *)
LEMMA RowsProperties ==
  ASSUME IInv, NEW q \in SearchType, NEW s \in Seq(Slots),
         NEW R \in [0..Len(s) -> Seq(Ids)], RowsByTurns(R, q, s)
  PROVE  /\ \A id : id \in ToSet(R[Len(s)]) <=>
              \E j \in 1..Len(s) : Matches(q, s[j]) /\ At(usermap, s[j]) = id
         /\ Len(s) > 0 /\ Matches(q, s[1]) =>
              Len(R[Len(s)]) > 0 /\ R[Len(s)][1] = At(usermap, s[1])
         /\ (\A i, j \in 1..Len(s) : i # j /\ Matches(q, s[i]) /\ Matches(q, s[j]) =>
               At(usermap, s[i]) # At(usermap, s[j])) =>
            Cardinality(ToSet(R[Len(s)])) = Len(R[Len(s)])
<1> DEFINE n == Len(s)
           Found(k, id) == \E j \in 1..k : Matches(q, s[j]) /\ At(usermap, s[j]) = id
           First == Matches(q, s[1])
           Distinct == \A i, j \in 1..n : i # j /\ Matches(q, s[i]) /\ Matches(q, s[j]) =>
                         At(usermap, s[i]) # At(usermap, s[j])
           Is(rows, k) ==
             /\ \A id : id \in ToSet(rows) <=> Found(k, id)
             /\ k > 0 /\ First => Len(rows) > 0 /\ rows[1] = At(usermap, s[1])
             /\ Distinct => IsFiniteSet(ToSet(rows)) /\ Cardinality(ToSet(rows)) = Len(rows)
           T == {k \in 0..n : Is(R[k], k)}
<1>1. n \in Nat /\ \A k \in 1..n : s[k] \in Slots
  BY LenProperties, ElementOfSeq
<1>2. /\ R[0] = <<>>
      /\ \A k \in 1..n :
           R[k] = IF Matches(q, s[k]) THEN Append(R[k - 1], At(usermap, s[k])) ELSE R[k - 1]
  BY DEF RowsByTurns
<1> HIDE DEF n, First, Distinct
<1>3. 0 \in T
  <2>1. ToSet(R[0]) = {} /\ Len(R[0]) = 0
    <3>1. ToSet(<<>>) = {} /\ Len(<<>>) = 0
      BY EmptySeq DEF ToSet
    <3> QED
      BY <1>2, <3>1
  <2>2. IsFiniteSet({}) /\ Cardinality({}) = 0
    BY FS_EmptySet
  <2>3. \A id : ~Found(0, id)
    OBVIOUS
  <2>4. 0 \in 0..n
    BY <1>1
  <2> HIDE DEF Found
  <2> QED
    BY <2>1, <2>2, <2>3, <2>4
<1>4. ASSUME NEW k \in 0..(n - 1), k \in T
      PROVE  k + 1 \in T
  <2>1. k + 1 \in 1..n /\ k + 1 \in 0..n /\ k \in 0..n /\ (k + 1) - 1 = k /\ k \in Nat
    BY <1>1
  <2> DEFINE i == s[k + 1]
             rows == R[k]
             id0 == At(usermap, i)
  <2>2. rows \in Seq(Ids) /\ id0 \in Ids /\ i \in Slots
    BY <1>1, <2>1, SlotTypes DEF n
  <2>3. R[k + 1] = IF Matches(q, i) THEN Append(rows, id0) ELSE rows
    BY <1>2, <2>1
  <2>4. \A id : Found(k + 1, id) <=> Found(k, id) \/ (Matches(q, i) /\ id0 = id)
    <3>1. \A j : j \in 1..(k + 1) <=> j \in 1..k \/ j = k + 1
      BY <2>1
    <3> QED
      BY <3>1
  <2>5. Is(rows, k)
    BY <1>4
  <2>6. k = 0 => i = s[1] /\ rows = <<>>
    BY <1>2, <2>1
  <2>7. Distinct /\ Matches(q, i) => ~Found(k, id0)
    <3>1. \A j \in 1..k : j \in 1..n /\ j # k + 1
      BY <1>1, <2>1
    <3> QED
      BY <2>1, <3>1 DEF Distinct
  <2> HIDE DEF i, rows, id0, Found
  <2>8. CASE ~Matches(q, i)
    <3>1. R[k + 1] = rows
      BY <2>3, <2>8
    <3>2. First => k > 0
      BY <2>1, <2>6, <2>8 DEF First
    <3> QED
      BY <2>1, <2>4, <2>5, <2>8, <3>1, <3>2
  <2>9. CASE Matches(q, i)
    <3> DEFINE more == Append(rows, id0)
    <3>1. ToSet(more) = ToSet(rows) \cup {id0}
      BY <2>2, ToSetAppend
    <3>2. /\ Len(rows) \in Nat /\ Len(more) = Len(rows) + 1
          /\ \A j \in 1..Len(rows) : more[j] = rows[j]
          /\ more[Len(rows) + 1] = id0
      BY <2>2, LenProperties, AppendProperties
    <3>3. R[k + 1] = more
      BY <2>3, <2>9
    <3> HIDE DEF more
    <3>4. \A id : id \in ToSet(more) <=> Found(k + 1, id)
      BY <2>4, <2>5, <2>9, <3>1
    <3>5. First => Len(more) > 0 /\ more[1] = At(usermap, s[1])
      <4>1. CASE k = 0
        <5>1. Len(rows) = 0 /\ id0 = At(usermap, s[1])
          BY <2>6, <4>1, EmptySeq DEF id0
        <5> QED
          BY <3>2, <5>1
      <4>2. CASE k # 0
        <5>1. k > 0
          BY <2>1, <4>2
        <5>2. First => Len(rows) > 0 /\ rows[1] = At(usermap, s[1])
          BY <2>5, <5>1
        <5> QED
          BY <3>2, <5>2
      <4> QED
        BY <4>1, <4>2
    <3>6. ASSUME Distinct
          PROVE  IsFiniteSet(ToSet(more)) /\ Cardinality(ToSet(more)) = Len(more)
      <4>1. IsFiniteSet(ToSet(rows)) /\ Cardinality(ToSet(rows)) = Len(rows) /\ id0 \notin ToSet(rows)
        BY <2>5, <2>7, <2>9, <3>6
      <4>2. /\ IsFiniteSet(ToSet(rows) \cup {id0})
            /\ Cardinality(ToSet(rows) \cup {id0}) = Cardinality(ToSet(rows)) + 1
        BY <4>1, FS_AddElement
      <4> QED
        BY <3>1, <3>2, <4>1, <4>2
    <3> QED
      BY <2>1, <3>3, <3>4, <3>5, <3>6
  <2> QED
    BY <2>8, <2>9
<1>5. Is(R[n], n)
  <2> HIDE DEF T
  <2>1. n \in 0..n
    BY <1>1
  <2>2. n \in T
    BY <1>1, <1>3, <1>4, <2>1, IntervalInduction
  <2> QED
    BY <2>2 DEF T
<1>6. n > 0 /\ First => Len(R[n]) > 0 /\ R[n][1] = At(usermap, s[1])
  BY <1>5
<1>7. Distinct => Cardinality(ToSet(R[n])) = Len(R[n])
  BY <1>5
<1>8. \A id : id \in ToSet(R[n]) <=> Found(n, id)
  BY <1>5
<1> QED
  BY <1>6, <1>7, <1>8 DEF n, First, Distinct

(* All the rows of a search come from the scan of its order.               *)
LEMMA AllRowsScan ==
  ASSUME IInv, NEW q \in SearchType
  PROVE  AllRows(q) = Scan(WholePage(q), SlotOrder(q))
<1> DEFINE w == WholePage(q)
<1>1. w.random = FALSE /\ SlotOrder(w) = SlotOrder(q)
  BY WholePageSame
<1> HIDE DEF w
<1>2. ScanOrders(w) = {SlotOrder(q)}
  BY <1>1 DEF ScanOrders
<1>3. searchUsers(w) = {Scan(w, SlotOrder(q))}
  BY <1>2 DEF searchUsers
<1>4. AllRows(q) \in searchUsers(w)
  BY <1>3 DEF AllRows, w
<1> QED
  BY <1>3, <1>4 DEF w

(* Pages fit in every state of the invariant.                              *)
LEMMA PagesFitThere ==
  ASSUME IInv
  PROVE  PagesFit
<1> SUFFICES ASSUME NEW q \in Queries, ~q.random, NEW r \in searchUsers(q)
             PROVE  /\ r.results = Page(AllRows(q).results, q.offset, q.rowcount)
                    /\ ~q.quick => r.totalrows = AllRows(q).totalrows
  BY DEF PagesFit
<1> DEFINE s == SlotOrder(q)
<1>1. q \in SearchType
  BY QueryAssumption
<1>2. s \in Seq(Slots) /\ Len(s) < Len(userlist)
  BY <1>1, OrderProperties
<1>3. ScanOrders(q) = {s}
  BY DEF ScanOrders
<1>4. r = Scan(q, s)
  BY <1>3 DEF searchUsers
<1>5. AllRows(q) = Scan(WholePage(q), s)
  BY <1>1, AllRowsScan
<1> HIDE DEF s
<1>6. PICK R \in [0..Len(s) -> Seq(Ids)] :
        /\ RowsByTurns(R, q, s)
        /\ Scan(WholePage(q), s).results = R[Len(s)]
        /\ Scan(WholePage(q), s).totalrows = Len(R[Len(s)])
  BY <1>1, <1>2, WholeRows
<1>7. /\ Scan(q, s).results = Page(R[Len(s)], q.offset, q.rowcount)
      /\ ~q.quick => Scan(q, s).totalrows = Len(R[Len(s)])
  BY <1>1, <1>2, <1>6, ScanGivesPage
<1> QED
  BY <1>4, <1>5, <1>6, <1>7

(* So pages fit together for any set of searches: a page is its part of    *)
(* the whole result, and quick changes totalrows only (search.c: scanList, *)
(* scanFull).                                                              *)
THEOREM PagesFitTogether == HistSpec => []PagesFit
<1>1. IInv => PagesFit
  BY PagesFitThere
<1> QED
  BY <1>1, HistoryImplementsData, Invariance, PTL

-----------------------------------------------------------------------------
(* An order that starts at its m-th slot and wraps round. *)
Rotated(s, m) == SubSeq(s, m, Len(s)) \o SubSeq(s, 1, m - 1)

(* It has the slots of the order, from the m-th on.                        *)
LEMMA RotatedProperties ==
  ASSUME NEW s \in Seq(Slots), NEW m \in 1..Len(s)
  PROVE  /\ Rotated(s, m) \in Seq(Slots) /\ Len(Rotated(s, m)) = Len(s)
         /\ Rotated(s, m)[1] = s[m]
         /\ \A k \in 1..Len(s) : \E j \in 1..Len(s) : Rotated(s, m)[k] = s[j]
         /\ \A j \in 1..Len(s) : \E k \in 1..Len(s) : Rotated(s, m)[k] = s[j]
<1> DEFINE n == Len(s)
           a == SubSeq(s, m, n)
           b == SubSeq(s, 1, m - 1)
           r == Rotated(s, m)
<1>1. n \in Nat /\ m \in 1..n /\ \A k \in 1..n : s[k] \in Slots
  BY LenProperties, ElementOfSeq
<1> HIDE DEF n
<1>2. /\ a \in Seq(Slots) /\ Len(a) = n - m + 1
      /\ \A k \in 1..(n - m + 1) : a[k] = s[m + k - 1]
  <2>1. m \in Int /\ n \in Int /\ m <= n /\ \A k \in m..n : s[k] \in Slots
    BY <1>1
  <2> QED
    BY <2>1, SubSeqProperties
<1>3. /\ b \in Seq(Slots) /\ Len(b) = m - 1
      /\ \A k \in 1..(m - 1) : b[k] = s[k]
  <2>1. 1 \in Int /\ m - 1 \in Int /\ \A k \in 1..(m - 1) : s[k] \in Slots
    BY <1>1
  <2>2. /\ b \in Seq(Slots) /\ Len(b) = IF 1 <= m - 1 THEN (m - 1) - 1 + 1 ELSE 0
        /\ \A k \in 1..((m - 1) - 1 + 1) : b[k] = s[1 + k - 1]
    BY <2>1, SubSeqProperties
  <2>3. /\ (IF 1 <= m - 1 THEN (m - 1) - 1 + 1 ELSE 0) = m - 1 /\ (m - 1) - 1 + 1 = m - 1
        /\ \A k \in 1..(m - 1) : 1 + k - 1 = k
    BY <1>1
  <2> HIDE DEF b
  <2> QED
    BY <2>2, <2>3
<1> HIDE DEF a, b
<1>4. r = a \o b
  BY DEF Rotated, a, b, n
<1> HIDE DEF r
<1>5. /\ r \in Seq(Slots) /\ Len(r) = Len(a) + Len(b)
      /\ \A k \in 1..(Len(a) + Len(b)) : r[k] = IF k <= Len(a) THEN a[k] ELSE b[k - Len(a)]
  BY <1>2, <1>3, <1>4, ConcatProperties
<1>6. Len(a) + Len(b) = n
  BY <1>1, <1>2, <1>3
<1>7. r[1] = s[m]
  <2>1. 1 \in 1..n /\ 1 <= Len(a) /\ 1 \in 1..(n - m + 1) /\ m + 1 - 1 = m
    BY <1>1, <1>2
  <2> QED
    BY <1>2, <1>5, <1>6, <2>1
<1>8. ASSUME NEW k \in 1..n
      PROVE  \E j \in 1..n : r[k] = s[j]
  <2>1. CASE k <= Len(a)
    <3>1. k \in 1..(n - m + 1) /\ m + k - 1 \in 1..n
      BY <1>1, <1>2, <2>1
    <3> QED
      BY <1>2, <1>5, <1>6, <2>1, <3>1
  <2>2. CASE ~(k <= Len(a))
    <3>1. k - Len(a) \in 1..(m - 1) /\ k - Len(a) \in 1..n
      BY <1>1, <1>2, <2>2
    <3> QED
      BY <1>3, <1>5, <1>6, <2>2, <3>1
  <2> QED
    BY <2>1, <2>2
<1>9. ASSUME NEW j \in 1..n
      PROVE  \E k \in 1..n : r[k] = s[j]
  <2>1. CASE j >= m
    <3>1. /\ j - m + 1 \in 1..n /\ j - m + 1 \in 1..(n - m + 1) /\ j - m + 1 <= Len(a)
          /\ m + (j - m + 1) - 1 = j
      BY <1>1, <1>2, <2>1
    <3>2. r[j - m + 1] = s[j]
      BY <1>2, <1>5, <1>6, <3>1
    <3> QED
      BY <3>1, <3>2
  <2>2. CASE ~(j >= m)
    <3>1. /\ j + Len(a) \in 1..n /\ j \in 1..(m - 1) /\ ~(j + Len(a) <= Len(a))
          /\ (j + Len(a)) - Len(a) = j
      BY <1>1, <1>2, <2>2
    <3>2. r[j + Len(a)] = s[j]
      BY <1>3, <1>5, <1>6, <3>1
    <3> QED
      BY <3>1, <3>2
  <2> QED
    BY <2>1, <2>2
<1> QED
  BY <1>5, <1>6, <1>7, <1>8, <1>9 DEF n, r

(* A scan for one row from the first on finds one iff there is one.        *)
LEMMA FindsOne ==
  ASSUME IInv, NEW q \in SearchType, q.offset = 0, q.rowcount = 1,
         NEW s \in Seq(Slots), Len(s) < Len(userlist)
  PROVE  LET p == Scan(q, s).results IN
         /\ Len(p) = 1 => \E j \in 1..Len(s) : Matches(q, s[j]) /\ p[1] = At(usermap, s[j])
         /\ Len(p) # 1 => p = <<>> /\ \A j \in 1..Len(s) : ~Matches(q, s[j])
         /\ Len(s) > 0 /\ Matches(q, s[1]) => Len(p) = 1 /\ p[1] = At(usermap, s[1])
<1> DEFINE p == Scan(q, s).results
           n == Len(s)
<1>1. PICK R \in [0..n -> Seq(Ids)] : RowsByTurns(R, q, s)
  BY WholeRows
<1>2. n \in Nat /\ n \in 0..n
  BY LenProperties
<1> DEFINE rows == R[n]
<1>3. rows \in Seq(Ids) /\ p = Page(rows, 0, 1)
  BY <1>1, <1>2, ScanGivesPage
<1>4. /\ \A id : id \in ToSet(rows) <=>
           \E j \in 1..n : Matches(q, s[j]) /\ At(usermap, s[j]) = id
      /\ n > 0 /\ Matches(q, s[1]) => Len(rows) > 0 /\ rows[1] = At(usermap, s[1])
  BY <1>1, RowsProperties
<1> HIDE DEF rows, p, n
<1>5. IsPage(p, rows, 0, 1)
  BY <1>3, PageIsPage
<1>6. /\ Len(rows) \in Nat /\ DOMAIN rows = 1..Len(rows)
      /\ p \in Seq(Ids) /\ Len(p) = IF Len(rows) = 0 THEN 0 ELSE 1
      /\ \A j \in 1..Len(p) : p[j] = rows[0 + j]
  <2>1. Len(rows) \in Nat /\ DOMAIN rows = 1..Len(rows)
    BY <1>3, LenProperties
  <2>2. PageLen(Len(rows), 0, 1) = IF Len(rows) = 0 THEN 0 ELSE 1
    BY <2>1 DEF PageLen
  <2> QED
    BY <1>5, <2>1, <2>2 DEF IsPage
<1>7. ASSUME Len(rows) # 0
      PROVE  Len(p) = 1 /\ p[1] = rows[1] /\ rows[1] \in ToSet(rows)
  <2>1. Len(p) = 1 /\ p[1] = rows[0 + 1]
    BY <1>6, <1>7
  <2>2. 1 \in DOMAIN rows
    BY <1>6, <1>7
  <2> QED
    BY <2>1, <2>2 DEF ToSet
<1>8. ASSUME Len(rows) = 0
      PROVE  Len(p) = 0 /\ p = <<>> /\ ToSet(rows) = {}
  <2>1. Len(p) = 0
    BY <1>6, <1>8
  <2>2. p = <<>>
    BY <1>6, <2>1, EmptySeq
  <2>3. DOMAIN rows = {}
    BY <1>6, <1>8
  <2> QED
    BY <2>1, <2>2, <2>3 DEF ToSet
<1>9. Len(p) = 1 => \E j \in 1..n : Matches(q, s[j]) /\ p[1] = At(usermap, s[j])
  BY <1>4, <1>7, <1>8
<1>10. Len(p) # 1 => p = <<>> /\ \A j \in 1..n : ~Matches(q, s[j])
  BY <1>4, <1>7, <1>8
<1>11. n > 0 /\ Matches(q, s[1]) => Len(p) = 1 /\ p[1] = At(usermap, s[1])
  <2>1. Len(rows) > 0 => Len(rows) # 0
    OBVIOUS
  <2> QED
    BY <1>4, <1>7, <2>1
<1> QED
  BY <1>9, <1>10, <1>11 DEF p, n

(* A random search finds a row in every state of the invariant.            *)
LEMMA RandomFindsOneThere ==
  ASSUME IInv
  PROVE  RandomFindsOne
<1> SUFFICES ASSUME NEW q \in Queries, q.random
             PROVE  LET rows == ToSet(AllRows(q).results) IN
                    IF rows = {} THEN \A r \in searchUsers(q) : r.results = <<>>
                    ELSE /\ \A r \in searchUsers(q) : Len(r.results) = 1
                         /\ {r.results[1] : r \in searchUsers(q)} = rows
  BY Zenon DEF RandomFindsOne
<1> DEFINE s == SlotOrder(q)
           n == Len(s)
           rows == ToSet(AllRows(q).results)
<1>1. q \in SearchType /\ q.offset = 0 /\ q.rowcount = 1
  BY QueryAssumption
<1>2. s \in Seq(Slots) /\ n < Len(userlist)
  BY <1>1, OrderProperties
<1>3. n \in Nat /\ (n = 0 <=> s = <<>>)
  BY <1>2, LenProperties, EmptySeq
<1>4. \A id : id \in rows <=> \E j \in 1..n : Matches(q, s[j]) /\ At(usermap, s[j]) = id
  <2>1. AllRows(q) = Scan(WholePage(q), s)
    BY <1>1, AllRowsScan
  <2> HIDE DEF s
  <2>2. PICK R \in [0..n -> Seq(Ids)] :
          RowsByTurns(R, q, s) /\ Scan(WholePage(q), s).results = R[n]
    BY <1>1, <1>2, WholeRows
  <2>3. \A id : id \in ToSet(R[n]) <=>
          \E j \in 1..n : Matches(q, s[j]) /\ At(usermap, s[j]) = id
    BY <1>1, <1>2, <2>2, RowsProperties
  <2> QED
    BY <2>1, <2>2, <2>3
<1>5. ScanOrders(q) = IF s # <<>> THEN {Rotated(s, m) : m \in 1..n} ELSE {s}
  BY DEF ScanOrders, Rotated
<1>6. searchUsers(q) = {Scan(q, order) : order \in ScanOrders(q)}
  BY DEF searchUsers
<1> HIDE DEF s, n, rows
<1>7. CASE s = <<>>
  <2>1. n = 0 /\ rows = {}
    BY <1>3, <1>4, <1>7
  <2>2. searchUsers(q) = {Scan(q, s)}
    BY <1>5, <1>6, <1>7
  <2>3. Scan(q, s).results = <<>>
    <3>1. \A j \in 1..Len(s) : FALSE
      BY <2>1 DEF n
    <3> QED
      BY <1>1, <1>2, <3>1, FindsOne DEF n
  <2> QED
    BY <2>1, <2>2, <2>3 DEF rows
<1>8. CASE s # <<>>
  <2>1. ASSUME NEW m \in 1..n
        PROVE  /\ Rotated(s, m) \in Seq(Slots) /\ Len(Rotated(s, m)) = n /\ n > 0
               /\ Rotated(s, m)[1] = s[m]
               /\ \A k \in 1..n : \E j \in 1..n : Rotated(s, m)[k] = s[j]
    <3>1. s \in Seq(Slots) /\ m \in 1..Len(s)
      BY <1>2, <2>1 DEF n
    <3>2. /\ Rotated(s, m) \in Seq(Slots) /\ Len(Rotated(s, m)) = Len(s)
          /\ Rotated(s, m)[1] = s[m]
          /\ \A k \in 1..Len(s) : \E j \in 1..Len(s) : Rotated(s, m)[k] = s[j]
      BY <3>1, RotatedProperties
    <3>3. n > 0
      BY <1>3
    <3> QED
      BY <3>2, <3>3 DEF n
  <2>2. ASSUME NEW m \in 1..n
        PROVE  LET p == Scan(q, Rotated(s, m)).results IN
               /\ Len(p) = 1 => \E j \in 1..n : Matches(q, s[j]) /\ p[1] = At(usermap, s[j])
               /\ Len(p) # 1 => p = <<>> /\ ~Matches(q, s[m])
               /\ Matches(q, s[m]) => Len(p) = 1 /\ p[1] = At(usermap, s[m])
    <3> DEFINE t == Rotated(s, m)
               p == Scan(q, t).results
    <3>1. t \in Seq(Slots) /\ Len(t) = n /\ n > 0 /\ t[1] = s[m] /\ n < Len(userlist)
          /\ \A k \in 1..n : \E j \in 1..n : t[k] = s[j]
      BY <1>2, <2>1
    <3> HIDE DEF t
    <3>2. /\ Len(p) = 1 => \E j \in 1..Len(t) : Matches(q, t[j]) /\ p[1] = At(usermap, t[j])
          /\ Len(p) # 1 => p = <<>> /\ \A j \in 1..Len(t) : ~Matches(q, t[j])
          /\ Len(t) > 0 /\ Matches(q, t[1]) => Len(p) = 1 /\ p[1] = At(usermap, t[1])
      BY <1>1, <3>1, FindsOne
    <3> HIDE DEF p
    <3>3. Len(p) = 1 => \E j \in 1..n : Matches(q, s[j]) /\ p[1] = At(usermap, s[j])
      BY <3>1, <3>2
    <3>4. Matches(q, s[m]) => Len(p) = 1 /\ p[1] = At(usermap, s[m])
      BY <3>1, <3>2
    <3> QED
      BY <3>2, <3>3, <3>4 DEF p, t
  <2>3. \A r \in searchUsers(q) : \E m \in 1..n : r = Scan(q, Rotated(s, m))
    BY <1>5, <1>6, <1>8
  <2>4. \A m \in 1..n : Scan(q, Rotated(s, m)) \in searchUsers(q)
    BY <1>5, <1>6, <1>8
  <2>5. CASE rows = {}
    <3>1. \A j \in 1..n : ~Matches(q, s[j])
      BY <1>4, <2>5
    <3>2. ASSUME NEW m \in 1..n
          PROVE  Scan(q, Rotated(s, m)).results = <<>>
      BY <2>2, <3>1
    <3> QED
      BY <2>3, <2>5, <3>2 DEF rows
  <2>6. CASE rows # {}
    <3>1. ASSUME NEW m \in 1..n
          PROVE  /\ Len(Scan(q, Rotated(s, m)).results) = 1
                 /\ Scan(q, Rotated(s, m)).results[1] \in rows
      <4> DEFINE t == Rotated(s, m)
                 p == Scan(q, t).results
      <4>1. t \in Seq(Slots) /\ Len(t) = n
        BY <2>1
      <4>2. \E k \in 1..n : Matches(q, t[k])
        <5>1. PICK j \in 1..n : Matches(q, s[j])
          BY <1>4, <2>6
        <5>2. PICK k \in 1..n : t[k] = s[j]
          BY <1>2, RotatedProperties DEF n
        <5> QED
          BY <5>1, <5>2
      <4> HIDE DEF t
      <4>3. Len(p) # 1 => \A k \in 1..Len(t) : ~Matches(q, t[k])
        BY <1>1, <1>2, <4>1, FindsOne
      <4>4. Len(p) = 1
        BY <4>1, <4>2, <4>3
      <4>5. \E j \in 1..n : Matches(q, s[j]) /\ p[1] = At(usermap, s[j])
        BY <2>2, <4>4 DEF t
      <4> HIDE DEF p
      <4>6. p[1] \in rows
        BY <1>4, <4>5
      <4> QED
        BY <4>4, <4>6 DEF p, t
    <3>2. \A r \in searchUsers(q) : Len(r.results) = 1 /\ r.results[1] \in rows
      BY <2>3, <3>1
    <3>3. ASSUME NEW id \in rows
          PROVE  \E r \in searchUsers(q) : r.results[1] = id
      <4>1. PICK m \in 1..n : Matches(q, s[m]) /\ At(usermap, s[m]) = id
        BY <1>4, <3>3
      <4>2. Scan(q, Rotated(s, m)).results[1] = id
        BY <2>2, <4>1
      <4> QED
        BY <2>4, <4>2
    <3>4. {r.results[1] : r \in searchUsers(q)} = rows
      BY <3>2, <3>3
    <3> QED
      BY <2>6, <3>2, <3>4 DEF rows
  <2> QED
    BY <2>5, <2>6
<1> QED
  BY <1>7, <1>8

(* So a random search finds one row if there is one, wherever it starts,   *)
(* and any row can be the one, for any set of searches (search.c:          *)
(* searchUsers).                                                           *)
THEOREM RandomFinds == HistSpec => []RandomFindsOne
<1>1. IInv => RandomFindsOne
  BY RandomFindsOneThere
<1> QED
  BY <1>1, HistoryImplementsData, Invariance, PTL

-----------------------------------------------------------------------------
(* Slots and users.  A slot that criteria match which no null user matches *)
(* has an owner, and usermap names it.                                     *)
LEMMA MatchedSlotIsOwned ==
  ASSUME IInv, NEW q, ~MatchesNullUsers(q), NEW i \in Slots, Matches(q, i)
  PROVE  \E id \in UserIds : Exists(id) /\ Slot(id) = i /\ At(usermap, i) = id
<1>1. i \notin FreeSlots
  BY DEF IInv, FreeStackExact, MatchesNullUsers, Matches
<1>2. i \in LiveSlots
  BY <1>1 DEF IInv, FreeStackExact
<1>3. PICK id \in UserIds : Slot(id) = i /\ Slot(id) # 0
  BY <1>2 DEF LiveSlots
<1> QED
  BY <1>3 DEF IInv, MapsAgree, Exists

(* A user lives in one of the locations iff its slot is on one of their    *)
(* lists.                                                                  *)
LEMMA LivesInLists ==
  ASSUME IInv, NEW locs, NEW id \in UserIds, Exists(id)
  PROVE  LivesIn(id, locs) <=> Slot(id) \in LocsUnion(locs)
<1> DEFINE i == Slot(id)
           here == At(userlist, i)["loc"]
<1>1. i \in Slots /\ here \in Locations
  BY OwnedSlot
<1>2. users[id]["loc"] = here
  BY DEF users
<1>3. LocPath[here] \subseteq Locations
  BY <1>1 DEF LocPath, Reach
<1>4. \A l \in Locations : i \in loclist[l] <=> l \in LocPath[here]
  BY <1>1 DEF IInv, LocListExact
<1> HIDE DEF i, here
<1>5. LivesIn(id, locs) <=> \E l \in ToSet(locs) : l \in LocPath[here]
  BY <1>2 DEF LivesIn
<1>6. i \in LocsUnion(locs) <=> \E l \in ToSet(locs) \cap Locations : i \in loclist[l]
  BY DEF LocsUnion
<1> QED
  BY <1>3, <1>4, <1>5, <1>6 DEF i

(* The list made for the interests of a search has the slots that are on   *)
(* the lists of those interests.                                           *)
OnInterests(i, q) ==
  IF q.allinterests
  THEN \A n \in DOMAIN q.interests : i \in Listed(q.interests[n] + 1)
  ELSE \E n \in DOMAIN q.interests : i \in Listed(q.interests[n] + 1)

LEMMA InterestsInLists ==
  ASSUME IInv, NEW q \in SearchType, ~NeedsSeveralInterests(q), q.interests # <<>>, NEW i
  PROVE  OnInterests(i, q) <=> i \in InterestsList(q)
<1> DEFINE ks == q.interests
<1>1. ks \in Seq(Nat)
  BY DEF SearchType
<1>2. Len(ks) \in Nat \ {0} /\ DOMAIN ks = 1..Len(ks) /\ \A n \in DOMAIN ks : ks[n] \in Nat
  BY <1>1, LenProperties, EmptySeq, ElementOfSeq
<1>3. ASSUME NEW k \in Nat
      PROVE  i \in Listed(k + 1) <=> HasInterestList(k) /\ i \in At(interestlist, k)
  <2>1. Len(interestlist) \in Nat /\ DOMAIN interestlist = 1..Len(interestlist)
    BY LenProperties DEF IInv, TypeOK
  <2> QED
    BY <2>1 DEF Listed, HasInterestList, At
<1>4. CASE q.allinterests
  <2>1. Len(ks) = 1
    <3>1. ~(Len(ks) > 1)
      BY <1>4, Zenon DEF NeedsSeveralInterests
    <3> HIDE DEF ks
    <3> QED
      BY <1>2, <3>1
  <2>2. DOMAIN ks = {1} /\ ks[1] \in Nat
    BY <1>2, <2>1
  <2>3. OnInterests(i, q) <=> i \in Listed(ks[1] + 1)
    BY <1>4, <2>2 DEF OnInterests
  <2>4. i \in InterestsList(q) <=> HasInterestList(ks[1]) /\ i \in At(interestlist, ks[1])
    BY <1>4, <2>1 DEF InterestsList, InterestsAll
  <2> QED
    BY <1>3, <2>2, <2>3, <2>4
<1>5. CASE ~q.allinterests
  <2>1. OnInterests(i, q) <=> \E n \in DOMAIN ks : i \in Listed(ks[n] + 1)
    BY <1>5 DEF OnInterests
  <2>2. i \in InterestsList(q) <=>
          \E n \in DOMAIN ks : HasInterestList(ks[n]) /\ i \in At(interestlist, ks[n])
    BY <1>5 DEF InterestsList, InterestsUnion, ToSet
  <2> HIDE DEF ks
  <2> QED
    BY <1>2, <1>3, <2>1, <2>2
<1> QED
  BY <1>4, <1>5

(* What the lists of a search say of a user.                               *)
LEMMA OnListsOfSearch ==
  ASSUME IInv, NEW q \in SearchType, ~NeedsSeveralInterests(q),
         NEW id \in UserIds, Exists(id)
  PROVE  InAll(Slot(id), Lists(q)) <=>
           /\ q.bday => Slot(id) \in Listed(0)
           /\ q.locs # <<>> => LivesIn(id, q.locs)
           /\ q.interests # <<>> => OnInterests(Slot(id), q)
           /\ q.socials = <<>>
<1>1. Listed(0) = bday
  BY DEF Listed
<1> QED
  BY <1>1, ListsMean, LivesInLists, InterestsInLists

HasInterests(id, q) ==
  IF q.allinterests
  THEN \A n \in DOMAIN q.interests : HasInterest(id, q.interests[n])
  ELSE \E n \in DOMAIN q.interests : HasInterest(id, q.interests[n])

LEMMA AskedMeans ==
  ASSUME NEW q \in SearchType, NEW id \in UserIds, Exists(id)
  PROVE  Asked(q, id) <=>
           /\ Matches(q, Slot(id))
           /\ q.bday => <<id, 0>> \in given
           /\ q.locs # <<>> => LivesIn(id, q.locs)
           /\ q.interests # <<>> => HasInterests(id, q)
           /\ q.socials = <<>>
<1>1. matchUser(users[id], q) <=> Matches(q, Slot(id))
  BY DEF users, Matches
<1>2. HasBday(id) <=> <<id, 0>> \in given
  BY DEF HasBday
<1> QED
  BY <1>1, <1>2, Zenon DEF Asked, HasInterests

(* So a user that matches and is on every list is asked for or has come by *)
(* an interest that is asked for.                                          *)
LEMMA FoundIsAskedOrHeir ==
  ASSUME IInv, HInv, NEW q \in SearchType, ~NeedsSeveralInterests(q),
         NEW id \in UserIds, Exists(id),
         Matches(q, Slot(id)), InAll(Slot(id), Lists(q))
  PROVE  id \in Answer(q) \/ id \in Heirs(q)
<1>1. \A n \in Nat : Slot(id) \in Listed(n) => <<id, n>> \in heirs \/ <<id, n>> \in given
  BY DEF HInv, ToldRight, Told
<1>2. <<id, 0>> \notin heirs
  BY DEF HInv, ToldRight
<1>3. q.interests \in Seq(Nat) /\ \A n \in DOMAIN q.interests : q.interests[n] + 1 \in Nat
  <2>1. q.interests \in Seq(Nat)
    BY DEF SearchType
  <2> QED
    BY <2>1, LenProperties, ElementOfSeq
<1> SUFFICES ASSUME id \notin Heirs(q)
             PROVE  Asked(q, id)
  BY DEF Answer
<1>4. \A n \in DOMAIN q.interests : <<id, q.interests[n] + 1>> \notin heirs
  BY DEF Heirs
<1>5. \A n \in DOMAIN q.interests :
        Slot(id) \in Listed(q.interests[n] + 1) => HasInterest(id, q.interests[n])
  BY <1>1, <1>3, <1>4 DEF HasInterest
<1>6. OnInterests(Slot(id), q) => HasInterests(id, q)
  BY <1>5 DEF OnInterests, HasInterests
<1> QED
  BY <1>1, <1>2, <1>6, OnListsOfSearch, AskedMeans

(* And a user that is asked for matches and is on every list, unless it    *)
(* has been erased from one.                                               *)
LEMMA AskedIsFoundOrErased ==
  ASSUME IInv, HInv, NEW q \in SearchType, ~NeedsSeveralInterests(q),
         NEW id \in UserIds, Exists(id), Asked(q, id), id \notin Erased(q)
  PROVE  Matches(q, Slot(id)) /\ InAll(Slot(id), Lists(q))
<1>1. \A n \in Nat : <<id, n>> \in given /\ <<id, n>> \notin erased => Slot(id) \in Listed(n)
  BY DEF HInv, ToldRight, Told
<1>2. \A n \in DOMAIN q.interests : q.interests[n] + 1 \in Nat
  <2>1. q.interests \in Seq(Nat)
    BY DEF SearchType
  <2> QED
    BY <2>1, LenProperties, ElementOfSeq
<1>3. /\ q.bday => <<id, 0>> \notin erased
      /\ \A n \in DOMAIN q.interests : <<id, q.interests[n] + 1>> \notin erased
  BY DEF Erased
<1>4. \A n \in DOMAIN q.interests :
        HasInterest(id, q.interests[n]) => Slot(id) \in Listed(q.interests[n] + 1)
  BY <1>1, <1>2, <1>3 DEF HasInterest
<1>5. HasInterests(id, q) => OnInterests(Slot(id), q)
  BY <1>4 DEF OnInterests, HasInterests
<1> QED
  BY <1>1, <1>3, <1>5, OnListsOfSearch, AskedMeans

(* A search is exact in every state of the invariant.                      *)
LEMMA SearchExactThere ==
  ASSUME IInv, HInv
  PROVE  SearchExact
<1> SUFFICES ASSUME NEW q \in Queries, Reliable(q)
             PROVE  LET r == AllRows(q) IN
                    /\ ToSet(r.results) \subseteq Answer(q) \cup Heirs(q)
                    /\ Answer(q) \subseteq ToSet(r.results) \cup Erased(q)
                    /\ Len(r.results) = Cardinality(ToSet(r.results))
                    /\ r.totalrows = Len(r.results)
  BY Zenon DEF SearchExact
<1> DEFINE s == SlotOrder(q)
           n == Len(s)
<1>1. q \in SearchType /\ ~MatchesNullUsers(q) /\ ~MeetsEmptyList(q) /\ ~NeedsSeveralInterests(q)
  BY QueryAssumption DEF Reliable
<1>2. /\ s \in Seq(Slots) /\ n < Len(userlist) /\ Ascending(s)
      /\ \A i : i \in ToSet(s) <=> i \in Slots /\ InAll(i, Lists(q))
  BY <1>1, OrderProperties, CandidatesInAll
<1>3. AllRows(q) = Scan(WholePage(q), s)
  BY <1>1, AllRowsScan
<1> HIDE DEF s
<1>4. PICK R \in [0..n -> Seq(Ids)] :
        /\ RowsByTurns(R, q, s)
        /\ Scan(WholePage(q), s).results = R[n]
        /\ Scan(WholePage(q), s).totalrows = Len(R[n])
  BY <1>1, <1>2, WholeRows
<1>5. /\ n \in Nat /\ DOMAIN s = 1..n /\ Slots \in SUBSET Nat
      /\ \A j \in 1..n : s[j] \in Slots /\ s[j] \in ToSet(s)
  <2>1. n \in Nat /\ DOMAIN s = 1..n /\ \A j \in 1..n : s[j] \in Slots
    BY <1>2, LenProperties, ElementOfSeq
  <2> QED
    BY <2>1, SlotTypes DEF ToSet
<1>6. \A id : id \in ToSet(R[n]) <=> \E j \in 1..n : Matches(q, s[j]) /\ At(usermap, s[j]) = id
  BY <1>1, <1>2, <1>4, RowsProperties
<1>7. ASSUME NEW id \in ToSet(R[n])
      PROVE  id \in Answer(q) \cup Heirs(q)
  <2>1. PICK j \in 1..n : Matches(q, s[j]) /\ At(usermap, s[j]) = id
    BY <1>6, <1>7
  <2>2. s[j] \in Slots /\ InAll(s[j], Lists(q))
    BY <1>2, <1>5
  <2>3. id \in UserIds /\ Exists(id) /\ Slot(id) = s[j]
    BY <1>1, <2>1, <2>2, MatchedSlotIsOwned
  <2> QED
    BY <1>1, <2>1, <2>2, <2>3, FoundIsAskedOrHeir
<1>8. ASSUME NEW id \in Answer(q), id \notin Erased(q)
      PROVE  id \in ToSet(R[n])
  <2>1. id \in UserIds /\ Asked(q, id) /\ Exists(id)
    BY DEF Answer, Asked
  <2>2. Matches(q, Slot(id)) /\ InAll(Slot(id), Lists(q))
    BY <1>1, <1>8, <2>1, AskedIsFoundOrErased
  <2>3. Slot(id) \in Slots /\ At(usermap, Slot(id)) = id
    BY <2>1, OwnedSlot
  <2>4. PICK j \in 1..n : s[j] = Slot(id)
    BY <1>2, <1>5, <2>2, <2>3 DEF ToSet
  <2> QED
    BY <1>6, <2>2, <2>3, <2>4
<1>9. ToSet(R[n]) \subseteq Answer(q) \cup Heirs(q) /\ Answer(q) \subseteq ToSet(R[n]) \cup Erased(q)
  BY <1>7, <1>8
<1>10. ASSUME NEW i \in 1..n, NEW j \in 1..n, i # j, Matches(q, s[i]), Matches(q, s[j])
       PROVE  At(usermap, s[i]) # At(usermap, s[j])
  <2>1. s[i] # s[j]
    <3>1. s[i] \in Nat /\ s[j] \in Nat
      BY <1>5
    <3>2. (i < j => s[i] < s[j]) /\ (j < i => s[j] < s[i])
      BY <1>2, <1>5 DEF Ascending
    <3> QED
      BY <1>5, <1>10, <3>1, <3>2
  <2>2. PICK id1 \in UserIds : Slot(id1) = s[i] /\ At(usermap, s[i]) = id1
    BY <1>1, <1>5, <1>10, MatchedSlotIsOwned
  <2>3. PICK id2 \in UserIds : Slot(id2) = s[j] /\ At(usermap, s[j]) = id2
    BY <1>1, <1>5, <1>10, MatchedSlotIsOwned
  <2> QED
    BY <2>1, <2>2, <2>3
<1>11. Cardinality(ToSet(R[n])) = Len(R[n])
  BY <1>1, <1>2, <1>4, <1>10, RowsProperties
<1> QED
  BY <1>3, <1>4, <1>9, <1>11

(* So for any set of searches and any table of locations, through every    *)
(* history of adds, moves, deletes and reuse of slots, a search whose      *)
(* criteria are reliable finds each user that was given what it asks for,  *)
(* once, except those whose entry in a list was erased with another's, and *)
(* nobody else, except those who inherited an interest with their slot     *)
(* (search.c: searchUsers, delUser).                                       *)
THEOREM SearchesAreExact == HistSpec => []SearchExact
<1>1. IInv /\ HInv => SearchExact
  BY SearchExactThere
<1> QED
  BY <1>1, HistoryTellsLists, PTL
=============================================================================
