-------------------------- MODULE ConcurrentProofs ---------------------------
(***************************************************************************)
(* Proofs about updates and searches, for any tree of locations and any    *)
(* number of users, updates and threads.  The location lists, which are    *)
(* changed one by one inside an update, are exact whenever none is under   *)
(* way (IInv); the rows of a scan are those of one instant, and a search   *)
(* is exact about the users no update touches while it runs (SInv).        *)
(***************************************************************************)
EXTENDS ConcurrentSearch, VectorProofs, FiniteSetTheorems, SequenceTheorems, TLAPS

(* Slot i is to be on the list of l. *)
Belongs(l, i) == usermap[i] # 0 /\ l \in ToSet(LocPath[userlist[i].loc])

(* What remains to be done to a list about a slot, if anything, ends with  *)
(* what is to be; if nothing remains, the list is as it is to be.  This    *)
(* carries ListsSettle through an update.                                  *)
About(n, l, i) == steps[n][2] = l /\ steps[n][3] = i
Agrees(n, l, i) == (steps[n][1] = "set") <=> Belongs(l, i)
EndsRight(l, i) ==
  \E n \in DOMAIN steps :
    /\ About(n, l, i)
    /\ \A m \in DOMAIN steps : m >= n /\ About(m, l, i) => Agrees(m, l, i)
IsRight(l, i) ==
  /\ \A n \in DOMAIN steps : ~About(n, l, i)
  /\ i \in loclist[l] <=> Belongs(l, i)
StepsLead == \A l \in Locations, i \in Slots : EndsRight(l, i) \/ IsRight(l, i)

(* The slots in use are the first ones; those among them that have no      *)
(* owner are on the stack, each once.                                      *)
SlotsPacked ==
  \E n \in 0..Cardinality(Users) :
    /\ \A i \in Slots : usermap[i] # 0 => i <= n
    /\ \A i \in 1..n : usermap[i] = 0 <=> i \in ToSet(deluserlist)
    /\ ToSet(deluserlist) \subseteq 1..n
    /\ \A j, k \in DOMAIN deluserlist : deluserlist[j] = deluserlist[k] => j = k

StepItem == {"set", "unset"} \X Locations \X Slots

DataTypes ==
  /\ userlist \in [Slots \cup {0} -> Structs \cup {NullUser}]
  /\ usermap \in [Slots -> Users \cup {0}]
  /\ \A i \in Slots : usermap[i] # 0 => userlist[i] \in Structs
  /\ deluserlist \in Seq(Slots)
  /\ loclist \in [Locations -> SUBSET Slots]
  /\ writing \in BOOLEAN
  /\ steps \in Seq(StepItem)
  /\ steps # <<>> => writing

(* The inductive invariant. *)
IInv == DataTypes /\ SlotsPacked /\ StepsLead

-----------------------------------------------------------------------------
(* Slots are positive, 0 is no user, and the null user is no user's struct. *)
LEMMA SlotsFinite ==
  /\ Cardinality(Users) \in Nat /\ Slots \subseteq Nat \ {0} /\ 0 \notin Users
  /\ NullUser \notin Structs
<1>1. Cardinality(Users) \in Nat
  BY ConcurrentAssumption, FS_CardinalityType
<1>2. NullUser \notin Structs
  BY ConcurrentAssumption DEF NullUser, Structs
<1> QED
  BY <1>1, <1>2, ConcurrentAssumption DEF Slots

(* A user that exists has a slot of its own, with its id in it.            *)
LEMMA SlotOfLive ==
  ASSUME DataTypes, NEW id \in Users, Live(id)
  PROVE  /\ SlotOf(id) \in Slots /\ usermap[SlotOf(id)] = id
         /\ usermap[SlotOf(id)] # 0 /\ userlist[SlotOf(id)] \in Structs
<1>1. SlotOf(id) \in Slots /\ usermap[SlotOf(id)] = id
  BY DEF Live, SlotOf
<1> QED
  BY <1>1, SlotsFinite DEF DataTypes

(* A slot with an owner belongs on the lists of the path of its location.  *)
LEMMA PathType ==
  ASSUME NEW user \in Structs
  PROVE  /\ LocPath[user.loc] \in Seq(Locations) /\ user.loc \in Locations
         /\ ToSet(LocPath[user.loc]) \subseteq Locations
<1>1. user.loc \in Locations
  BY DEF Structs
<1>2. LocPath[user.loc] \in Seq(Locations)
  BY <1>1, ConcurrentAssumption
<1> QED
  BY <1>1, <1>2 DEF ToSet

(* With no steps left, every list is as it is to be. *)
LEMMA NothingLeft ==
  ASSUME steps = <<>>, StepsLead, NEW l \in Locations, NEW i \in Slots
  PROVE  i \in loclist[l] <=> Belongs(l, i)
BY DEF StepsLead, EndsRight, IsRight

-----------------------------------------------------------------------------
(* A sequence in two parts, by position. *)
LEMMA TwoParts ==
  ASSUME NEW S, NEW s \in Seq(S), NEW t \in Seq(S)
  PROVE  /\ s \o t \in Seq(S) /\ Len(s \o t) = Len(s) + Len(t)
         /\ \A n \in 1..Len(s) : (s \o t)[n] = s[n]
         /\ \A n \in 1..Len(t) : (s \o t)[n + Len(s)] = t[n]
<1>1. Len(s) \in Nat /\ Len(t) \in Nat
  BY LenProperties
<1>2. /\ s \o t \in Seq(S) /\ Len(s \o t) = Len(s) + Len(t)
      /\ \A n \in 1..(Len(s) + Len(t)) :
           (s \o t)[n] = IF n <= Len(s) THEN s[n] ELSE t[n - Len(s)]
  BY ConcatProperties
<1>3. \A n \in 1..Len(s) : n \in 1..(Len(s) + Len(t)) /\ n <= Len(s)
  BY <1>1
<1>4. \A n \in 1..Len(t) : /\ n + Len(s) \in 1..(Len(s) + Len(t)) /\ ~(n + Len(s) <= Len(s))
                           /\ n + Len(s) - Len(s) = n
  BY <1>1
<1> QED
  BY <1>2, <1>3, <1>4

(* The steps about slot i for one path. *)
Marks(kind, p, i) == [n \in DOMAIN p |-> <<kind, p[n], i>>]

(* One step for each location of a path.                                   *)
LEMMA StepsOfPath ==
  ASSUME NEW i \in Slots, NEW p \in Seq(Locations), NEW kind \in {"set", "unset"}
  PROVE  /\ Marks(kind, p, i) \in Seq(StepItem)
         /\ Len(Marks(kind, p, i)) = Len(p)
         /\ \A n \in 1..Len(p) : Marks(kind, p, i)[n] = <<kind, p[n], i>>
<1>1. DOMAIN p = 1..Len(p) /\ Len(p) \in Nat /\ \A n \in DOMAIN p : p[n] \in Locations
  BY LenProperties, ElementOfSeq
<1>2. Marks(kind, p, i) \in [1..Len(p) -> StepItem]
  BY <1>1 DEF Marks, StepItem
<1>3. Marks(kind, p, i) \in Seq(StepItem)
  BY <1>1, <1>2, SeqDef
<1> QED
  BY <1>1, <1>2, <1>3, LenProperties DEF Marks

(* The steps s take slot i off the lists of p, then put it on those of q.  *)
OffThenOn(s, p, q, i) ==
  /\ s \in Seq(StepItem)
  /\ DOMAIN s = 1..(Len(p) + Len(q))
  /\ \A n \in DOMAIN p : s[n] = <<"unset", p[n], i>>
  /\ \A n \in DOMAIN q : s[n + Len(p)] = <<"set", q[n], i>>

(* The steps off one path and then onto another, by their numbers.         *)
LEMMA StepsInTwoParts ==
  ASSUME NEW i \in Slots, NEW p \in Seq(Locations), NEW q \in Seq(Locations)
  PROVE  OffThenOn(Marks("unset", p, i) \o Marks("set", q, i), p, q, i)
<1>1. PICK off : off = Marks("unset", p, i)
  OBVIOUS
<1>2. PICK on : on = Marks("set", q, i)
  OBVIOUS
<1>3. /\ off \in Seq(StepItem) /\ Len(off) = Len(p)
      /\ \A n \in 1..Len(p) : off[n] = <<"unset", p[n], i>>
  BY <1>1, StepsOfPath
<1>4. /\ on \in Seq(StepItem) /\ Len(on) = Len(q)
      /\ \A n \in 1..Len(q) : on[n] = <<"set", q[n], i>>
  BY <1>2, StepsOfPath
<1>5. off \in Seq(StepItem) /\ on \in Seq(StepItem)
  BY <1>3, <1>4
<1>6. off \o on \in Seq(StepItem)
  BY <1>5, TwoParts
<1>7. Len(off \o on) = Len(off) + Len(on)
  BY <1>5, TwoParts
<1>8. \A n \in 1..Len(off) : (off \o on)[n] = off[n]
  BY <1>5, TwoParts
<1>9. \A n \in 1..Len(on) : (off \o on)[n + Len(off)] = on[n]
  BY <1>5, TwoParts
<1>10. DOMAIN p = 1..Len(p) /\ DOMAIN q = 1..Len(q)
  BY LenProperties
<1>11. DOMAIN (off \o on) = 1..(Len(p) + Len(q))
  BY <1>3, <1>4, <1>6, <1>7, LenProperties
<1> QED
  BY <1>1, <1>2, <1>3, <1>4, <1>6, <1>8, <1>9, <1>10, <1>11 DEF OffThenOn

(* An update with such steps keeps StepsLead. *)
LEMMA StepsOfUpdate ==
  ASSUME NEW i \in Slots, NEW p \in Seq(Locations), NEW q \in Seq(Locations),
         DataTypes, StepsLead, steps = <<>>,
         steps' = Marks("unset", p, i) \o Marks("set", q, i),
         UNCHANGED loclist,
         \A l \in Locations, j \in Slots \ {i} : Belongs(l, j)' <=> Belongs(l, j),
         \A l \in Locations : Belongs(l, i)' <=> l \in ToSet(q),
         \A l \in Locations : Belongs(l, i) => l \in ToSet(p)
  PROVE  StepsLead' /\ steps' \in Seq(StepItem)
<1>3. /\ Len(p) \in Nat /\ DOMAIN p = 1..Len(p)
      /\ Len(q) \in Nat /\ DOMAIN q = 1..Len(q)
  BY LenProperties
<1>4. /\ steps' \in Seq(StepItem)
      /\ DOMAIN (steps') = 1..(Len(p) + Len(q))
      /\ \A n \in DOMAIN p : (steps')[n] = <<"unset", p[n], i>>
      /\ \A n \in DOMAIN q : (steps')[n + Len(p)] = <<"set", q[n], i>>
  <2>1. OffThenOn(steps', p, q, i)
    BY StepsInTwoParts
  <2> QED
    BY <2>1 DEF OffThenOn
<1>5. \A n \in DOMAIN (steps') :
        \/ n \in DOMAIN p
        \/ n - Len(p) \in DOMAIN q /\ n = (n - Len(p)) + Len(p) /\ ~(n \in DOMAIN p)
  BY <1>3, <1>4
<1>6. ASSUME NEW l \in Locations, NEW j \in Slots
      PROVE  EndsRight(l, j)' \/ IsRight(l, j)'
  <2>1. CASE j # i
    <3>1. \A n \in DOMAIN (steps') : (steps')[n][3] = i
      BY <1>4, <1>5
    <3>2. j \in loclist[l] <=> Belongs(l, j)
      BY NothingLeft
    <3> QED
      BY <2>1, <3>1, <3>2 DEF IsRight, About
  <2>2. CASE j = i /\ l \in ToSet(q)
    <3>1. PICK k \in DOMAIN q : q[k] = l
      BY <2>2 DEF ToSet
    <3>2. k + Len(p) \in DOMAIN (steps') /\ About(k + Len(p), l, j)'
      BY <1>3, <1>4, <2>2, <3>1 DEF About
    <3>3. ASSUME NEW m \in DOMAIN (steps'), m >= k + Len(p) PROVE Agrees(m, l, j)'
      <4>1. m - Len(p) \in DOMAIN q /\ m = (m - Len(p)) + Len(p)
        BY <1>3, <1>5, <3>1, <3>3
      <4>2. (steps')[m][1] = "set"
        BY <1>4, <4>1
      <4> QED
        BY <2>2, <4>2 DEF Agrees
    <3> QED
      BY <3>2, <3>3 DEF EndsRight
  <2>3. CASE j = i /\ l \notin ToSet(q) /\ l \in ToSet(p)
    <3>1. PICK k \in DOMAIN p : p[k] = l
      BY <2>3 DEF ToSet
    <3>2. k \in DOMAIN (steps') /\ About(k, l, j)'
      BY <1>3, <1>4, <2>3, <3>1 DEF About
    <3>3. ASSUME NEW m \in DOMAIN (steps'), About(m, l, j)' PROVE Agrees(m, l, j)'
      <4>1. m \in DOMAIN p
        BY <1>4, <1>5, <2>3, <3>3 DEF About, ToSet
      <4>2. (steps')[m][1] = "unset"
        BY <1>4, <4>1
      <4> QED
        BY <2>3, <4>2 DEF Agrees
    <3> QED
      BY <3>2, <3>3 DEF EndsRight
  <2>4. CASE j = i /\ l \notin ToSet(q) /\ l \notin ToSet(p)
    <3>1. \A n \in DOMAIN (steps') : (steps')[n][2] # l
      BY <1>4, <1>5, <2>4 DEF ToSet
    <3>2. i \notin loclist[l]
      BY <2>4, NothingLeft
    <3> QED
      BY <2>4, <3>1, <3>2 DEF IsRight, About
  <2> QED
    BY <2>1, <2>2, <2>3, <2>4
<1> QED
  BY <1>4, <1>6 DEF StepsLead

(* An update that leaves the lists alone. *)
LEMMA StepsOfQuietUpdate ==
  ASSUME StepsLead, steps = <<>>, steps' = <<>>, UNCHANGED loclist,
         \A l \in Locations, j \in Slots : Belongs(l, j)' <=> Belongs(l, j)
  PROVE  StepsLead'
<1> SUFFICES ASSUME NEW l \in Locations, NEW j \in Slots PROVE IsRight(l, j)'
  BY DEF StepsLead
<1>1. j \in loclist[l] <=> Belongs(l, j)
  BY NothingLeft
<1> QED
  BY <1>1 DEF IsRight

(* One turn of the loop of setLoc or unsetLoc. *)
LEMMA StepsOfListStep ==
  ASSUME DataTypes, StepsLead, ListStep
  PROVE  StepsLead' /\ loclist' \in [Locations -> SUBSET Slots]
                    /\ steps' \in Seq(StepItem)
<1>1. steps \in Seq(StepItem) /\ steps # <<>> /\ steps' = Tail(steps)
  BY DEF ListStep, DataTypes
<1>2. /\ Len(steps) \in Nat /\ Len(steps) >= 1 /\ DOMAIN steps = 1..Len(steps)
      /\ Head(steps) = steps[1] /\ steps[1] \in StepItem
  BY <1>1, LenProperties, EmptySeq, HeadTailProperties, ElementOfSeq
<1>3. /\ steps' \in Seq(StepItem) /\ DOMAIN (steps') = 1..(Len(steps) - 1)
      /\ \A n \in 1..(Len(steps) - 1) : (steps')[n] = steps[n + 1]
  BY <1>1, HeadTailProperties, LenProperties
<1>4. \A l \in Locations, j \in Slots : Belongs(l, j)' <=> Belongs(l, j)
  BY DEF ListStep, Belongs
<1>5. loclist' = [loclist EXCEPT ![steps[1][2]] =
        IF steps[1][1] = "set" THEN @ \cup {steps[1][3]} ELSE @ \ {steps[1][3]}]
  BY <1>2 DEF ListStep
<1>6. loclist' \in [Locations -> SUBSET Slots]
  BY <1>2, <1>5 DEF DataTypes, StepItem
<1>7. ASSUME NEW l \in Locations, NEW j \in Slots
      PROVE  EndsRight(l, j)' \/ IsRight(l, j)'
  <2>1. \A n \in DOMAIN (steps') :
          /\ n + 1 \in DOMAIN steps
          /\ About(n, l, j)' <=> About(n + 1, l, j)
          /\ Agrees(n, l, j)' <=> Agrees(n + 1, l, j)
    <3> TAKE n \in DOMAIN (steps')
    <3>1. n + 1 \in DOMAIN steps /\ (steps')[n] = steps[n + 1]
      BY <1>2, <1>3
    <3>2. Belongs(l, j)' <=> Belongs(l, j)
      BY <1>4
    <3> QED
      BY <3>1, <3>2 DEF About, Agrees
  <2>2. CASE IsRight(l, j)
    <3>1. ~(steps[1][2] = l /\ steps[1][3] = j)
      BY <1>2, <2>2 DEF IsRight, About
    <3>2. j \in loclist'[l] <=> j \in loclist[l]
      BY <1>2, <1>5, <3>1 DEF DataTypes
    <3> QED
      BY <1>4, <2>1, <2>2, <3>2 DEF IsRight
  <2>3. CASE EndsRight(l, j)
    <3>1. PICK n \in DOMAIN steps :
            /\ About(n, l, j)
            /\ \A m \in DOMAIN steps : m >= n /\ About(m, l, j) => Agrees(m, l, j)
      BY <2>3 DEF EndsRight
    <3>2. CASE n # 1
      <4>1. n - 1 \in DOMAIN (steps') /\ (n - 1) + 1 = n
        BY <1>2, <1>3, <3>2
      <4>2. \A m \in DOMAIN (steps') : m >= n - 1 /\ About(m, l, j)' => Agrees(m, l, j)'
        BY <1>3, <2>1, <3>1, <1>2
      <4> QED
        BY <2>1, <3>1, <4>1, <4>2 DEF EndsRight
    <3>3. CASE n = 1 /\ \E k \in DOMAIN (steps') : About(k, l, j)'
      <4>1. PICK k \in DOMAIN (steps') : About(k, l, j)'
        BY <3>3
      <4>2. \A m \in DOMAIN (steps') : m >= k /\ About(m, l, j)' => Agrees(m, l, j)'
        BY <1>2, <1>3, <2>1, <3>1, <3>3
      <4> QED
        BY <4>1, <4>2 DEF EndsRight
    <3>4. CASE n = 1 /\ \A k \in DOMAIN (steps') : ~About(k, l, j)'
      <4>1. steps[1][2] = l /\ steps[1][3] = j /\ ((steps[1][1] = "set") <=> Belongs(l, j))
        BY <3>1, <3>4 DEF About, Agrees
      <4>2. j \in loclist'[l] <=> steps[1][1] = "set"
        BY <1>5, <4>1 DEF DataTypes
      <4> QED
        BY <1>4, <3>4, <4>1, <4>2 DEF IsRight
    <3> QED
      BY <3>2, <3>3, <3>4
  <2> QED
    BY <2>2, <2>3 DEF StepsLead
<1> QED
  BY <1>3, <1>6, <1>7 DEF StepsLead

-----------------------------------------------------------------------------
(* The daemon starts with consistent data.                                 *)
LEMMA InitIInv == Init => IInv
<1> SUFFICES ASSUME Init PROVE IInv
  OBVIOUS
<1> USE SlotsFinite
<1>1. PICK n \in 0..Cardinality(Users) : \E us \in [1..n -> Users \X Structs] : Loaded(us)
  BY DEF Init
<1>2. PICK us \in [1..n -> Users \X Structs] : Loaded(us)
  BY <1>1
<1>3. us \in Seq(Users \X Structs) /\ Len(us) = n /\ DOMAIN us = 1..n
  BY <1>1, SeqDef, LenProperties
<1>4. \A i \in 1..n : i \in Slots /\ us[i][1] \in Users /\ us[i][2] \in Structs
  BY <1>1 DEF Slots
<1>5. /\ usermap = [i \in Slots |-> IF i <= n THEN us[i][1] ELSE 0]
      /\ userlist = [i \in Slots \cup {0} |-> IF i \in 1..n THEN us[i][2] ELSE NullUser]
      /\ loclist = [l \in Locations |-> {i \in 1..n : l \in ToSet(LocPath[us[i][2].loc])}]
  BY <1>2, <1>3 DEF Loaded
<1>6. \A i \in Slots : i <= n <=> i \in 1..n
  BY <1>1 DEF Slots
<1>7. deluserlist = <<>> /\ writing = FALSE /\ steps = <<>>
  BY DEF Init
<1>8. DataTypes
  <2>1. usermap \in [Slots -> Users \cup {0}]
    BY <1>4, <1>5, <1>6
  <2>2. userlist \in [Slots \cup {0} -> Structs \cup {NullUser}]
    BY <1>4, <1>5
  <2>3. \A i \in Slots : usermap[i] # 0 => userlist[i] \in Structs
    BY <1>4, <1>5, <1>6
  <2>4. loclist \in [Locations -> SUBSET Slots]
    BY <1>4, <1>5
  <2>5. deluserlist \in Seq(Slots) /\ steps \in Seq(StepItem)
    BY <1>7, EmptySeq
  <2> QED
    BY <1>7, <2>1, <2>2, <2>3, <2>4, <2>5 DEF DataTypes
<1>9. SlotsPacked
  <2>1. ToSet(deluserlist) = {} /\ DOMAIN deluserlist = {}
    BY <1>7 DEF ToSet
  <2>2. \A i \in Slots : usermap[i] # 0 => i <= n
    BY <1>5
  <2>3. \A i \in 1..n : usermap[i] # 0
    BY <1>4, <1>5, <1>6
  <2> QED
    BY <1>1, <2>1, <2>2, <2>3 DEF SlotsPacked
<1>10. StepsLead
  <2> SUFFICES ASSUME NEW l \in Locations, NEW i \in Slots PROVE IsRight(l, i)
    BY DEF StepsLead
  <2>1. i \in loclist[l] <=> Belongs(l, i)
    <3>1. CASE i \in 1..n
      <4>1. usermap[i] # 0 /\ userlist[i] = us[i][2]
        BY <1>4, <1>5, <1>6, <3>1
      <4> QED
        BY <1>5, <3>1, <4>1 DEF Belongs
    <3>2. CASE i \notin 1..n
      BY <1>5, <1>6, <3>2 DEF Belongs
    <3> QED
      BY <3>1, <3>2
  <2> QED
    BY <1>7, <2>1 DEF IsRight
<1> QED
  BY <1>8, <1>9, <1>10 DEF IInv

(* Updates of a user that exists keep the slots as they are. *)
LEMMA ReplaceUserIInv ==
  ASSUME IInv, NEW id \in Users, NEW user \in Structs, ReplaceUser(id, user)
  PROVE  IInv'
<1>a. PICK i : i = SlotOf(id)
  OBVIOUS
<1>b. PICK old : old = userlist[i].loc
  OBVIOUS
<1>1. /\ i \in Slots /\ usermap[i] # 0 /\ userlist[i] \in Structs
  BY <1>a, SlotOfLive DEF IInv, ReplaceUser
<1>2. /\ userlist' = [userlist EXCEPT ![i] = user]
      /\ steps' = IF old = user.loc THEN <<>> ELSE Unset(old, i) \o Set(user.loc, i)
      /\ UNCHANGED <<usermap, deluserlist, loclist>> /\ writing' = TRUE /\ ~writing
  BY <1>a, <1>b DEF ReplaceUser, StartUpdate, CanWrite
<1>3. steps = <<>>
  BY <1>2 DEF IInv, DataTypes
<1>4. userlist'[i] = user /\ \A j \in Slots \ {i} : userlist'[j] = userlist[j]
  BY <1>1, <1>2 DEF IInv, DataTypes
<1>5. \A l \in Locations, j \in Slots \ {i} : Belongs(l, j)' <=> Belongs(l, j)
  BY <1>2, <1>4 DEF Belongs
<1>6. \A l \in Locations : Belongs(l, i)' <=> l \in ToSet(LocPath[user.loc])
  BY <1>1, <1>2, <1>4 DEF Belongs
<1>7. \A l \in Locations : Belongs(l, i) => l \in ToSet(LocPath[old])
  BY <1>b DEF Belongs
<1>8. StepsLead' /\ steps' \in Seq(StepItem)
  <2>1. CASE old = user.loc
    <3>1. \A l \in Locations : Belongs(l, i) <=> l \in ToSet(LocPath[old])
      BY <1>1, <1>b DEF Belongs
    <3>2. \A l \in Locations, j \in Slots : Belongs(l, j)' <=> Belongs(l, j)
      BY <1>5, <1>6, <2>1, <3>1
    <3>3. steps' = <<>>
      BY <1>2, <2>1
    <3> QED
      BY <1>2, <1>3, <3>2, <3>3, StepsOfQuietUpdate, EmptySeq DEF IInv
  <2>2. CASE old # user.loc
    <3>1. steps' = Marks("unset", LocPath[old], i) \o Marks("set", LocPath[user.loc], i)
      BY <1>2, <2>2 DEF Set, Unset, Marks
    <3>2. LocPath[old] \in Seq(Locations) /\ LocPath[user.loc] \in Seq(Locations)
      BY <1>1, <1>b, PathType
    <3> QED
      BY <1>1, <1>2, <1>3, <1>5, <1>6, <1>7, <3>1, <3>2, StepsOfUpdate DEF IInv
  <2> QED
    BY <2>1, <2>2
<1>9. DataTypes'
  <2>1. userlist' \in [Slots \cup {0} -> Structs \cup {NullUser}]
    BY <1>2 DEF IInv, DataTypes
  <2>2. \A j \in Slots : usermap'[j] # 0 => userlist'[j] \in Structs
    BY <1>2, <1>4 DEF IInv, DataTypes
  <2> QED
    BY <1>2, <1>8, <2>1, <2>2 DEF IInv, DataTypes
<1>10. SlotsPacked'
  BY <1>2 DEF IInv, SlotsPacked
<1> QED
  BY <1>8, <1>9, <1>10 DEF IInv

(* Moving a user to another location keeps the data consistent.            *)
LEMMA MoveUserIInv ==
  ASSUME IInv, NEW id \in Users, NEW loc \in Locations, MoveUser(id, loc)
  PROVE  IInv'
<1>a. PICK i : i = SlotOf(id)
  OBVIOUS
<1>b. PICK old : old = userlist[i].loc
  OBVIOUS
<1>1. /\ i \in Slots /\ usermap[i] # 0 /\ userlist[i] \in Structs
  BY <1>a, SlotOfLive DEF IInv, MoveUser
<1>2. /\ userlist' = [userlist EXCEPT ![i].loc = loc]
      /\ steps' = Unset(old, i) \o Set(loc, i)
      /\ UNCHANGED <<usermap, deluserlist, loclist>> /\ writing' = TRUE /\ ~writing
  BY <1>a, <1>b DEF MoveUser, StartUpdate, CanWrite
<1>3. steps = <<>>
  BY <1>2 DEF IInv, DataTypes
<1>4. /\ userlist'[i] = [userlist[i] EXCEPT !.loc = loc]
      /\ \A j \in Slots \ {i} : userlist'[j] = userlist[j]
  BY <1>1, <1>2 DEF IInv, DataTypes
<1>5. userlist'[i] \in Structs /\ userlist'[i].loc = loc
  BY <1>1, <1>4 DEF Structs
<1>6. StepsLead' /\ steps' \in Seq(StepItem)
  <2>1. steps' = Marks("unset", LocPath[old], i) \o Marks("set", LocPath[loc], i)
    BY <1>2 DEF Set, Unset, Marks
  <2>2. LocPath[old] \in Seq(Locations) /\ LocPath[loc] \in Seq(Locations)
    BY <1>1, <1>b, PathType, ConcurrentAssumption
  <2>3. \A l \in Locations, j \in Slots \ {i} : Belongs(l, j)' <=> Belongs(l, j)
    BY <1>2, <1>4 DEF Belongs
  <2>4. \A l \in Locations : Belongs(l, i)' <=> l \in ToSet(LocPath[loc])
    BY <1>1, <1>2, <1>5 DEF Belongs
  <2>5. \A l \in Locations : Belongs(l, i) => l \in ToSet(LocPath[old])
    BY <1>b DEF Belongs
  <2> QED
    BY <1>1, <1>2, <1>3, <2>1, <2>2, <2>3, <2>4, <2>5, StepsOfUpdate DEF IInv
<1>7. DataTypes'
  <2>1. userlist' \in [Slots \cup {0} -> Structs \cup {NullUser}]
    <3>1. userlist' = [userlist EXCEPT ![i] = userlist'[i]]
      BY <1>1, <1>2, <1>4 DEF IInv, DataTypes
    <3> QED
      BY <1>5, <3>1 DEF IInv, DataTypes
  <2>2. \A j \in Slots : usermap'[j] # 0 => userlist'[j] \in Structs
    BY <1>2, <1>4, <1>5 DEF IInv, DataTypes
  <2> QED
    BY <1>2, <1>6, <2>1, <2>2 DEF IInv, DataTypes
<1>8. SlotsPacked'
  BY <1>2 DEF IInv, SlotsPacked
<1> QED
  BY <1>6, <1>7, <1>8 DEF IInv

(* So does changing a field, ...                                           *)
LEMMA ChangeUserIInv ==
  ASSUME IInv, NEW id \in Users, NEW ok \in BOOLEAN, ChangeUser(id, ok)
  PROVE  IInv'
<1>a. PICK i : i = SlotOf(id)
  OBVIOUS
<1>1. /\ i \in Slots /\ usermap[i] # 0 /\ userlist[i] \in Structs
  BY <1>a, SlotOfLive DEF IInv, ChangeUser
<1>2. /\ userlist' = [userlist EXCEPT ![i].ok = ok] /\ steps' = <<>>
      /\ UNCHANGED <<usermap, deluserlist, loclist>> /\ writing' = TRUE /\ ~writing
  BY <1>a DEF ChangeUser, StartUpdate, CanWrite
<1>3. steps = <<>>
  BY <1>2 DEF IInv, DataTypes
<1>4. /\ userlist'[i] = [userlist[i] EXCEPT !.ok = ok]
      /\ \A j \in Slots \ {i} : userlist'[j] = userlist[j]
  BY <1>1, <1>2 DEF IInv, DataTypes
<1>5. userlist'[i] \in Structs /\ userlist'[i].loc = userlist[i].loc
  BY <1>1, <1>4 DEF Structs
<1>6. StepsLead' /\ steps' \in Seq(StepItem)
  <2>1. \A l \in Locations, j \in Slots : Belongs(l, j)' <=> Belongs(l, j)
    BY <1>2, <1>4, <1>5 DEF Belongs
  <2> QED
    BY <1>2, <1>3, <2>1, StepsOfQuietUpdate, EmptySeq DEF IInv
<1>7. DataTypes'
  <2>1. userlist' \in [Slots \cup {0} -> Structs \cup {NullUser}]
    <3>1. userlist' = [userlist EXCEPT ![i] = userlist'[i]]
      BY <1>1, <1>2, <1>4 DEF IInv, DataTypes
    <3> QED
      BY <1>5, <3>1 DEF IInv, DataTypes
  <2>2. \A j \in Slots : usermap'[j] # 0 => userlist'[j] \in Structs
    BY <1>2, <1>4, <1>5 DEF IInv, DataTypes
  <2> QED
    BY <1>2, <1>6, <2>1, <2>2 DEF IInv, DataTypes
<1>8. SlotsPacked'
  BY <1>2 DEF IInv, SlotsPacked
<1> QED
  BY <1>6, <1>7, <1>8 DEF IInv

(* The stack, after a slot is taken off and after one is put on. *)
LEMMA StackFront ==
  ASSUME NEW s \in Seq(Slots), s # <<>>,
         \A j, k \in DOMAIN s : s[j] = s[k] => j = k
  PROVE  /\ Front(s) \in Seq(Slots) /\ Last(s) \in ToSet(s)
         /\ ToSet(Front(s)) = ToSet(s) \ {Last(s)}
         /\ \A j, k \in DOMAIN Front(s) : Front(s)[j] = Front(s)[k] => j = k
<1>1. /\ Len(s) \in Nat /\ Len(s) >= 1 /\ DOMAIN s = 1..Len(s)
      /\ \A j \in 1..Len(s) : s[j] \in Slots
  BY LenProperties, EmptySeq, ElementOfSeq
<1>2. PICK f : f = SubSeq(s, 1, Len(s) - 1)
  OBVIOUS
<1>3. f \in Seq(Slots) /\ Len(f) = Len(s) - 1 /\ \A j \in 1..(Len(s) - 1) : f[j] = s[j]
  BY <1>1, <1>2, SubSeqProperties
<1>4. DOMAIN f = 1..(Len(s) - 1)
  BY <1>3, LenProperties
<1>5. Front(s) = f /\ Last(s) = s[Len(s)]
  BY <1>2 DEF Front, Last
<1>6. ToSet(f) = ToSet(s) \ {s[Len(s)]}
  BY <1>1, <1>3, <1>4 DEF ToSet
<1> QED
  BY <1>1, <1>3, <1>4, <1>5, <1>6 DEF ToSet

(* A slot pushed on the stack is there once, with what was there.          *)
LEMMA StackAppend ==
  ASSUME NEW s \in Seq(Slots), NEW i \in Slots, i \notin ToSet(s),
         \A j, k \in DOMAIN s : s[j] = s[k] => j = k
  PROVE  /\ Append(s, i) \in Seq(Slots) /\ ToSet(Append(s, i)) = ToSet(s) \cup {i}
         /\ \A j, k \in DOMAIN Append(s, i) : Append(s, i)[j] = Append(s, i)[k] => j = k
<1>1. Len(s) \in Nat /\ DOMAIN s = 1..Len(s)
  BY LenProperties
<1>2. PICK a : a = Append(s, i)
  OBVIOUS
<1>3. /\ a \in Seq(Slots) /\ Len(a) = Len(s) + 1
      /\ \A j \in 1..Len(s) : a[j] = s[j]
      /\ a[Len(s) + 1] = i
  BY <1>2, AppendProperties
<1>4. DOMAIN a = 1..(Len(s) + 1)
  BY <1>3, LenProperties
<1>5. \A j \in DOMAIN a : j \in DOMAIN s \/ j = Len(s) + 1
  BY <1>1, <1>4
<1>6. \A j \in DOMAIN s : j \in DOMAIN a /\ a[j] = s[j] /\ s[j] # i
  BY <1>1, <1>3, <1>4 DEF ToSet
<1>7. Len(s) + 1 \in DOMAIN a
  BY <1>1, <1>4
<1>8. ToSet(a) = ToSet(s) \cup {i}
  BY <1>3, <1>5, <1>6, <1>7 DEF ToSet
<1> QED
  BY <1>2, <1>3, <1>5, <1>6, <1>8

(* The slot setUser takes has no owner, and packs the slots no less. *)
LEMMA AddUserSlot ==
  ASSUME DataTypes, SlotsPacked, NEW i \in Slots, NEW id \in Users,
         usermap' = [usermap EXCEPT ![i] = id],
         IF deluserlist # <<>>
         THEN i = Last(deluserlist) /\ deluserlist' = Front(deluserlist)
         ELSE /\ i = Cardinality({j \in Slots : usermap[j] # 0}) + 1
              /\ UNCHANGED deluserlist
  PROVE  usermap[i] = 0 /\ SlotsPacked' /\ deluserlist' \in Seq(Slots)
<1> USE SlotsFinite
<1>1. PICK n \in 0..Cardinality(Users) :
        /\ \A j \in Slots : usermap[j] # 0 => j <= n
        /\ \A j \in 1..n : usermap[j] = 0 <=> j \in ToSet(deluserlist)
        /\ ToSet(deluserlist) \subseteq 1..n
        /\ \A j, k \in DOMAIN deluserlist : deluserlist[j] = deluserlist[k] => j = k
  BY DEF SlotsPacked
<1>2. 1..n \subseteq Slots /\ n \in Nat
  BY DEF Slots
<1>3. /\ deluserlist \in Seq(Slots) /\ usermap'[i] = id /\ id # 0
      /\ \A j \in Slots \ {i} : usermap'[j] = usermap[j]
  BY DEF DataTypes
<1>4. CASE deluserlist # <<>>
  <2>1. PICK f : f = Front(deluserlist)
    OBVIOUS
  <2>2. /\ f \in Seq(Slots) /\ i \in ToSet(deluserlist)
        /\ ToSet(f) = ToSet(deluserlist) \ {i}
        /\ \A j, k \in DOMAIN f : f[j] = f[k] => j = k
    BY <1>1, <1>3, <1>4, <2>1, StackFront
  <2>3. deluserlist' = f
    BY <1>4, <2>1
  <2>4. usermap[i] = 0 /\ i \in 1..n
    BY <1>1, <2>2
  <2>5. \A j \in Slots : usermap'[j] # 0 => j <= n
    BY <1>1, <1>2, <1>3, <2>4
  <2>6. \A j \in 1..n : usermap'[j] = 0 <=> j \in ToSet(f)
    BY <1>1, <1>2, <1>3, <2>2
  <2>7. ToSet(f) \subseteq 1..n
    BY <1>1, <2>2
  <2> QED
    BY <2>2, <2>3, <2>4, <2>5, <2>6, <2>7 DEF SlotsPacked
<1>5. CASE deluserlist = <<>>
  <2>1. ToSet(deluserlist) = {} /\ deluserlist' = <<>> /\ deluserlist' \in Seq(Slots)
    BY <1>5, EmptySeq DEF ToSet
  <2>2. {j \in Slots : usermap[j] # 0} = 1..n
    BY <1>1, <1>2, <2>1 DEF Slots
  <2>3. Cardinality(1..n) = n
    BY <1>2, FS_Interval
  <2>4. i = n + 1 /\ n + 1 \in 0..Cardinality(Users)
    <3>1. i = Cardinality({j \in Slots : usermap[j] # 0}) + 1
      BY <1>5
    <3>2. i = n + 1
      BY <2>2, <2>3, <3>1
    <3>3. i \in 1..Cardinality(Users)
      BY DEF Slots
    <3>4. \A c : i \in 1..c => i \in 0..c
      OBVIOUS
    <3> QED
      BY <3>2, <3>3, <3>4
  <2>5. usermap[i] = 0
    BY <1>1, <1>2, <2>4
  <2>6. \A j \in Slots : usermap'[j] # 0 => j <= n + 1
    BY <1>1, <1>2, <1>3, <2>4
  <2>7. \A j \in 1..(n + 1) : usermap'[j] # 0
    <3> TAKE j \in 1..(n + 1)
    <3>1. CASE j = i
      BY <1>3, <3>1
    <3>2. CASE j # i
      BY <1>1, <1>2, <1>3, <2>1, <2>4, <3>2
    <3> QED
      BY <3>1, <3>2
  <2>8. ToSet(deluserlist') = {} /\ DOMAIN (deluserlist') = {}
    BY <2>1 DEF ToSet
  <2> QED
    BY <2>1, <2>4, <2>5, <2>6, <2>7, <2>8 DEF SlotsPacked
<1> QED
  BY <1>4, <1>5

(* ... adding a user, ...                                                  *)
LEMMA AddUserIInv ==
  ASSUME IInv, NEW id \in Users, NEW user \in Structs, AddUser(id, user)
  PROVE  IInv'
<1>1. PICK i \in Slots :
        /\ IF deluserlist # <<>>
           THEN i = Last(deluserlist) /\ deluserlist' = Front(deluserlist)
           ELSE /\ i = Cardinality({j \in Slots : usermap[j] # 0}) + 1
                /\ UNCHANGED deluserlist
        /\ userlist' = [userlist EXCEPT ![i] = user]
        /\ usermap' = [usermap EXCEPT ![i] = id]
        /\ steps' = Set(user.loc, i)
  BY DEF AddUser
<1>2. UNCHANGED loclist /\ writing' = TRUE /\ ~writing
  BY DEF AddUser, StartUpdate, CanWrite
<1>3. usermap[i] = 0 /\ SlotsPacked' /\ deluserlist' \in Seq(Slots)
  BY <1>1, AddUserSlot DEF IInv
<1>4. steps = <<>>
  BY <1>2 DEF IInv, DataTypes
<1>5. /\ userlist'[i] = user /\ usermap'[i] # 0
      /\ \A j \in Slots \ {i} : userlist'[j] = userlist[j] /\ usermap'[j] = usermap[j]
  BY <1>1, SlotsFinite DEF IInv, DataTypes
<1>6. StepsLead' /\ steps' \in Seq(StepItem)
  <2>1. /\ LocPath[user.loc] \in Seq(Locations) /\ <<>> \in Seq(Locations)
        /\ ToSet(<<>>) = {}
    BY PathType, EmptySeq DEF ToSet
  <2>2. Marks("set", LocPath[user.loc], i) \in Seq(StepItem)
    BY <2>1, StepsOfPath
  <2>3. steps' = Marks("unset", <<>>, i) \o Marks("set", LocPath[user.loc], i)
    <3>1. Marks("unset", <<>>, i) = <<>>
      BY DEF Marks
    <3>2. steps' = Marks("set", LocPath[user.loc], i)
      BY <1>1 DEF Set, Marks
    <3> QED
      BY <2>2, <3>1, <3>2, ConcatEmptySeq
  <2>4. \A l \in Locations, j \in Slots \ {i} : Belongs(l, j)' <=> Belongs(l, j)
    BY <1>5 DEF Belongs
  <2>5. \A l \in Locations : Belongs(l, i)' <=> l \in ToSet(LocPath[user.loc])
    BY <1>5 DEF Belongs
  <2>6. \A l \in Locations : ~Belongs(l, i)
    BY <1>3 DEF Belongs
  <2> QED
    BY <1>2, <1>4, <2>1, <2>3, <2>4, <2>5, <2>6, StepsOfUpdate DEF IInv
<1>7. DataTypes'
  <2>1. /\ userlist' \in [Slots \cup {0} -> Structs \cup {NullUser}]
        /\ usermap' \in [Slots -> Users \cup {0}]
    BY <1>1 DEF IInv, DataTypes
  <2>2. \A j \in Slots : usermap'[j] # 0 => userlist'[j] \in Structs
    BY <1>5 DEF IInv, DataTypes
  <2> QED
    BY <1>2, <1>3, <1>6, <2>1, <2>2 DEF IInv, DataTypes
<1> QED
  BY <1>3, <1>6, <1>7 DEF IInv

(* ... deleting one, ...                                                   *)
LEMMA DeleteUserIInv ==
  ASSUME IInv, NEW id \in Users, DeleteUser(id)
  PROVE  IInv'
<1> USE SlotsFinite
<1>a. PICK i : i = SlotOf(id)
  OBVIOUS
<1>1. /\ i \in Slots /\ usermap[i] # 0 /\ userlist[i] \in Structs
  BY <1>a, SlotOfLive DEF IInv, DeleteUser
<1>2. /\ userlist' = [userlist EXCEPT ![i] = NullUser]
      /\ usermap' = [usermap EXCEPT ![i] = 0]
      /\ deluserlist' = Append(deluserlist, i)
      /\ steps' = Unset(userlist[i].loc, i)
      /\ UNCHANGED loclist /\ writing' = TRUE /\ ~writing
  BY <1>a DEF DeleteUser, StartUpdate, CanWrite
<1>3. steps = <<>>
  BY <1>2 DEF IInv, DataTypes
<1>4. /\ usermap'[i] = 0
      /\ \A j \in Slots \ {i} : userlist'[j] = userlist[j] /\ usermap'[j] = usermap[j]
  BY <1>1, <1>2 DEF IInv, DataTypes
<1>5. StepsLead' /\ steps' \in Seq(StepItem)
  <2>0. PICK old : old = LocPath[userlist[i].loc]
    OBVIOUS
  <2>1. old \in Seq(Locations) /\ <<>> \in Seq(Locations) /\ ToSet(<<>>) = {}
    BY <1>1, <2>0, PathType, EmptySeq DEF ToSet
  <2>2. Marks("unset", old, i) \in Seq(StepItem)
    BY <1>1, <2>1, StepsOfPath
  <2>3. steps' = Marks("unset", old, i) \o Marks("set", <<>>, i)
    <3>1. Marks("set", <<>>, i) = <<>>
      BY DEF Marks
    <3>2. steps' = Marks("unset", old, i)
      BY <1>2, <2>0 DEF Unset, Marks
    <3> QED
      BY <2>2, <3>1, <3>2, ConcatEmptySeq
  <2>4. \A l \in Locations, j \in Slots \ {i} : Belongs(l, j)' <=> Belongs(l, j)
    BY <1>4 DEF Belongs
  <2>5. \A l \in Locations : ~Belongs(l, i)'
    BY <1>4 DEF Belongs
  <2>6. \A l \in Locations : Belongs(l, i) => l \in ToSet(old)
    BY <2>0 DEF Belongs
  <2> QED
    BY <1>1, <1>2, <1>3, <2>1, <2>3, <2>4, <2>5, <2>6, StepsOfUpdate DEF IInv
<1>6. PICK n \in 0..Cardinality(Users) :
        /\ \A j \in Slots : usermap[j] # 0 => j <= n
        /\ \A j \in 1..n : usermap[j] = 0 <=> j \in ToSet(deluserlist)
        /\ ToSet(deluserlist) \subseteq 1..n
        /\ \A j, k \in DOMAIN deluserlist : deluserlist[j] = deluserlist[k] => j = k
  BY DEF IInv, SlotsPacked
<1>7. 1..n \subseteq Slots /\ i \in 1..n
  BY <1>1, <1>6 DEF Slots
<1>8. i \notin ToSet(deluserlist) /\ deluserlist \in Seq(Slots)
  BY <1>1, <1>6, <1>7 DEF IInv, DataTypes
<1>9. PICK s : s = Append(deluserlist, i)
  OBVIOUS
<1>10. /\ s \in Seq(Slots) /\ ToSet(s) = ToSet(deluserlist) \cup {i}
       /\ \A j, k \in DOMAIN s : s[j] = s[k] => j = k
  BY <1>1, <1>6, <1>8, <1>9, StackAppend
<1>11. deluserlist' = s
  BY <1>2, <1>9
<1>12. SlotsPacked'
  <2>1. \A j \in Slots : usermap'[j] # 0 => j <= n
    BY <1>4, <1>6
  <2>2. \A j \in 1..n : usermap'[j] = 0 <=> j \in ToSet(s)
    BY <1>4, <1>6, <1>7, <1>10
  <2>3. ToSet(s) \subseteq 1..n
    BY <1>6, <1>7, <1>10
  <2> QED
    BY <1>10, <1>11, <2>1, <2>2, <2>3 DEF SlotsPacked
<1>13. DataTypes'
  <2>1. /\ userlist' \in [Slots \cup {0} -> Structs \cup {NullUser}]
        /\ usermap' \in [Slots -> Users \cup {0}]
    BY <1>2 DEF IInv, DataTypes
  <2>2. \A j \in Slots : usermap'[j] # 0 => userlist'[j] \in Structs
    BY <1>4 DEF IInv, DataTypes
  <2> QED
    BY <1>2, <1>5, <1>10, <1>11, <2>1, <2>2 DEF IInv, DataTypes
<1> QED
  BY <1>5, <1>12, <1>13 DEF IInv

(* ... and one step of an update's lists.                                  *)
LEMMA ListStepIInv ==
  ASSUME IInv, ListStep
  PROVE  IInv'
<1>1. UNCHANGED <<userlist, usermap, deluserlist, writing>> /\ writing
  BY DEF ListStep
<1>2. StepsLead' /\ loclist' \in [Locations -> SUBSET Slots] /\ steps' \in Seq(StepItem)
  BY StepsOfListStep DEF IInv
<1>3. DataTypes'
  BY <1>1, <1>2, SlotsFinite DEF IInv, DataTypes
<1>4. SlotsPacked'
  BY <1>1 DEF IInv, SlotsPacked
<1> QED
  BY <1>2, <1>3, <1>4 DEF IInv

(* Searches change none of it, nor does the unlock. *)
LEMMA OthersIInv ==
  ASSUME IInv, UNCHANGED <<data, steps>>, writing' = writing \/ (writing' = FALSE /\ steps = <<>>)
  PROVE  IInv'
<1>1. DataTypes'
  BY DEF IInv, DataTypes, data
<1>2. SlotsPacked'
  BY DEF IInv, SlotsPacked, data
<1>3. StepsLead'
  BY DEF IInv, StepsLead, EndsRight, IsRight, About, Agrees, Belongs, data
<1> QED
  BY <1>1, <1>2, <1>3 DEF IInv

(* No step of any thread spoils the data.                                  *)
LEMMA NextIInv == IInv /\ [Next]_vars => IInv'
<1> SUFFICES ASSUME IInv, [Next]_vars PROVE IInv'
  OBVIOUS
<1>1. CASE BeginUpdate
  <2>1. PICK id \in Users :
          \/ \E user \in Structs : ReplaceUser(id, user) \/ AddUser(id, user)
          \/ \E loc \in Locations : MoveUser(id, loc)
          \/ \E ok \in BOOLEAN : ChangeUser(id, ok)
          \/ DeleteUser(id)
    BY <1>1 DEF BeginUpdate
  <2> QED
    BY <2>1, ReplaceUserIInv, AddUserIInv, MoveUserIInv, ChangeUserIInv, DeleteUserIInv
<1>2. CASE ListStep
  BY <1>2, ListStepIInv
<1>3. CASE Unlock
  BY <1>3, OthersIInv DEF Unlock, data
<1>4. ASSUME NEW t \in Threads, SearchStep(t) PROVE IInv'
  <2>1. UNCHANGED <<data, steps, writing>>
    BY <1>4 DEF SearchStep, MeasureList, UnionList, ReadLock, ScanSlot, Finish, updater
  <2> QED
    BY <2>1, OthersIInv
<1>5. ASSUME NEW t \in Threads, NEW locs \in Wanted, Begin(t, locs) PROVE IInv'
  BY <1>5, OthersIInv DEF Begin, updater
<1>6. CASE UNCHANGED vars
  BY <1>6, OthersIInv DEF vars, updater
<1> QED
  BY <1>1, <1>2, <1>3, <1>4, <1>5, <1>6 DEF Next

(* So they are consistent at all times.                                    *)
LEMMA Inductive == Spec => []IInv
BY InitIInv, NextIInv, PTL DEF Spec

-----------------------------------------------------------------------------
(* Whenever no update is under way, each list of locations holds exactly   *)
(* the slots of the users in that location or below, however many updates  *)
(* there have been and whatever searches have run meanwhile: no update     *)
(* leaves a list half changed (search.c:206-229, search.h:164).            *)
THEOREM ListsSettled == Spec => []ListsSettle
<1>1. IInv => ListsSettle
  <2> SUFFICES ASSUME IInv, ~writing, NEW l \in Locations
               PROVE  loclist[l] = {i \in Slots :
                        usermap[i] # 0 /\ l \in ToSet(LocPath[userlist[i].loc])}
    BY DEF ListsSettle
  <2>1. steps = <<>> /\ loclist[l] \subseteq Slots
    BY DEF IInv, DataTypes
  <2>2. \A i \in Slots : i \in loclist[l] <=> Belongs(l, i)
    BY <2>1, NothingLeft DEF IInv
  <2> QED
    BY <2>1, <2>2 DEF Belongs
<1> QED
  BY <1>1, Inductive, PTL

-----------------------------------------------------------------------------
AnySlot == Slots \cup {0}

(* A slot has the null user iff it has no owner; so has "slot" 0, which    *)
(* searches meet after a union that did not fit.                           *)
NullSlots ==
  /\ userlist[0] = NullUser
  /\ \A i \in Slots : usermap[i] = 0 <=> userlist[i] = NullUser

(* A slot that matches has an owner, so a turn adds at most a user.        *)
LEMMA RowType ==
  ASSUME DataTypes, NullSlots, NEW i \in AnySlot
  PROVE  /\ userlist[i].ok => i \in Slots /\ usermap[i] \in Users
         /\ \A rows \in Seq(Users) : Row(rows, i) \in Seq(Users)
<1>1. ~NullUser.ok
  BY DEF NullUser
<1>2. userlist[i].ok => i \in Slots /\ usermap[i] \in Users
  BY <1>1, SlotsFinite DEF NullSlots, DataTypes, AnySlot
<1> QED
  BY <1>2, AppendProperties DEF Row

(* The rows of a scan, by its turns: the fold of Rows has a value after    *)
(* each slot of the order, and the next slot adds its Row.                 *)
RowsByTurns(h, s) ==
  /\ h[0] = <<>> /\ h[Len(s)] = Rows(s)
  /\ \A k \in 1..Len(s) : h[k] = Row(h[k - 1], s[k])

(* The fold of Rows is the loop of scanList, turn after turn.              *)
LEMMA RowsRecursion ==
  ASSUME DataTypes, NullSlots, NEW s \in Seq(AnySlot)
  PROVE  \E h \in [0..Len(s) -> Seq(Users)] : RowsByTurns(h, s)
<1> DEFINE n == Len(s)
           Dom == SUBSET (1..n)
           F(iter) == [ss \in Dom |->
                         IF ss = {} THEN <<>>
                         ELSE LET x == Max(ss) IN Row(iter[ss \ {x}], s[x])]
           step == [p \in Seq(Users) \X (1..n) |-> Row(p[1], s[p[2]])]
           iter0 == CHOOSE iter : iter = F(iter)
           h == [k \in 0..n |-> iter0[1..k]]
<1>1. n \in Nat /\ DOMAIN s = 1..n /\ \A k \in 1..n : s[k] \in AnySlot
  BY LenProperties, ElementOfSeq
<1>2. Rows(s) = iter0[1..n]
  <2>1. Rows(s) = iter0[DOMAIN s]
    BY <1>1, Zenon DEF Rows, FoldLeft, MapThenFoldSet
  <2> QED
    BY <1>1, <2>1
<1>3. step \in [Seq(Users) \X (1..n) -> Seq(Users)]
  BY <1>1, RowType
<1>4. <<>> \in Seq(Users)
  BY EmptySeq
<1>5. PICK g \in [Dom -> Seq(Users)] : TakesMax(g, n, <<>>, step)
  <2> HIDE DEF step
  <2> QED
    BY <1>1, <1>3, <1>4, SubsetRecursion
<1>6. \A ss \in Dom : ss # {} => Max(ss) \in 1..n /\ ss \ {Max(ss)} \in Dom
  BY <1>1, IntervalMax
<1>7. g = F(g)
  <2>1. ASSUME NEW ss \in Dom
        PROVE  g[ss] = F(g)[ss]
    <3>1. CASE ss = {}
      BY <1>5, <3>1 DEF TakesMax
    <3>2. CASE ss # {}
      <4>1. g[ss] = step[<<g[ss \ {Max(ss)}], Max(ss)>>]
        <5> HIDE DEF step
        <5> QED
          BY <1>5, <3>2 DEF TakesMax
      <4>2. <<g[ss \ {Max(ss)}], Max(ss)>> \in Seq(Users) \X (1..n)
        BY <1>6, <3>2
      <4>3. g[ss] = Row(g[ss \ {Max(ss)}], s[Max(ss)])
        BY <4>1, <4>2, Zenon
      <4> QED
        BY <3>2, <4>3
    <3> QED
      BY <3>1, <3>2
  <2>2. g = [ss \in Dom |-> g[ss]]
    BY <1>5
  <2>3. F(g) = [ss \in Dom |-> F(g)[ss]]
    OBVIOUS
  <2> HIDE DEF F
  <2> QED
    BY <2>1, <2>2, <2>3
<1>8. iter0 = F(iter0)
  <2> HIDE DEF F
  <2> QED
    BY <1>7
<1>9. /\ iter0[{}] = <<>>
      /\ \A k \in 1..n : iter0[1..k] = Row(iter0[1..(k - 1)], s[k])
  <2>1. {} \in Dom
    OBVIOUS
  <2>2. iter0[{}] = F(iter0)[{}]
    <3> HIDE DEF F, iter0
    <3> QED
      BY <1>8
  <2>3. iter0[{}] = <<>>
    <3> HIDE DEF iter0
    <3> QED
      BY <2>1, <2>2
  <2>4. ASSUME NEW k \in 1..n
        PROVE  iter0[1..k] = Row(iter0[1..(k - 1)], s[k])
    <3>1. 1..k \in Dom /\ 1..k # {} /\ Max(1..k) = k /\ (1..k) \ {k} = 1..(k - 1)
      <4>1. k \in 0..n
        BY <1>1
      <4> QED
        BY <1>1, <4>1, PrefixIntervals
    <3>2. iter0[1..k] = F(iter0)[1..k]
      <4> HIDE DEF F, iter0
      <4> QED
        BY <1>8
    <3> HIDE DEF iter0
    <3> QED
      BY <3>1, <3>2
  <2> QED
    BY <2>3, <2>4
<1>10. 1..0 = {}
  BY PrefixIntervals
<1> HIDE DEF iter0
<1>11. /\ h[0] = <<>> /\ h[n] = Rows(s)
       /\ \A k \in 1..n : h[k] = Row(h[k - 1], s[k])
  <2>1. 0 \in 0..n /\ n \in 0..n /\ \A k \in 1..n : k \in 0..n /\ k - 1 \in 0..n
    BY <1>1
  <2> QED
    BY <1>2, <1>9, <1>10, <2>1
<1>12. \A k \in 0..n : h[k] \in Seq(Users)
  <2> DEFINE T == {k \in 0..n : h[k] \in Seq(Users)}
  <2>1. 0 \in T
    <3>1. 0 \in 0..n
      BY <1>1
    <3> HIDE DEF h
    <3> QED
      BY <1>4, <1>11, <3>1
  <2>2. ASSUME NEW k \in 0..(n - 1), k \in T
        PROVE  k + 1 \in T
    <3>1. k + 1 \in 1..n /\ (k + 1) - 1 = k /\ k + 1 \in 0..n
      BY <1>1
    <3>2. h[k + 1] = Row(h[k], s[k + 1])
      <4> HIDE DEF h
      <4> QED
        BY <1>11, <3>1
    <3>3. s[k + 1] \in AnySlot /\ h[k] \in Seq(Users)
      BY <1>1, <2>2, <3>1
    <3> HIDE DEF h
    <3> QED
      BY <3>1, <3>2, <3>3, RowType
  <2> HIDE DEF T
  <2>3. \A k \in 0..n : k \in T
    BY <1>1, <2>1, <2>2, IntervalInduction
  <2> QED
    BY <2>3 DEF T
<1>13. h \in [0..n -> Seq(Users)]
  BY <1>12
<1> HIDE DEF h
<1> QED
  BY <1>11, <1>13 DEF RowsByTurns

(* What the fold computes, without the fold. *)
LEMMA RowsProperties ==
  ASSUME DataTypes, NullSlots, NEW s \in Seq(AnySlot)
  PROVE  /\ Rows(s) \in Seq(Users)
         /\ s = <<>> => Rows(s) = <<>>
         /\ \A id : id \in ToSet(Rows(s)) <=>
              \E i \in ToSet(s) : userlist[i].ok /\ usermap[i] = id
<1>1. PICK h \in [0..Len(s) -> Seq(Users)] : RowsByTurns(h, s)
  BY RowsRecursion
<1> USE DEF RowsByTurns
<1>2. /\ Len(s) \in Nat /\ DOMAIN s = 1..Len(s) /\ \A k \in 1..Len(s) : s[k] \in AnySlot
      /\ s = <<>> => Len(s) = 0
  BY LenProperties, ElementOfSeq, EmptySeq
<1> DEFINE Found(k, id) == \E j \in 1..k : userlist[s[j]].ok /\ usermap[s[j]] = id
           T == {k \in 0..Len(s) : \A id : id \in ToSet(h[k]) <=> Found(k, id)}
<1>3. 0 \in T
  <2>1. 0 \in 0..Len(s) /\ 1..0 = {}
    BY <1>2
  <2>2. ToSet(h[0]) = {}
    BY <1>1 DEF ToSet
  <2> QED
    BY <2>1, <2>2
<1>4. ASSUME NEW k \in 0..(Len(s) - 1), k \in T
      PROVE  k + 1 \in T
  <2>1. k + 1 \in 1..Len(s) /\ k + 1 \in 0..Len(s) /\ (k + 1) - 1 = k /\ k \in Nat
    BY <1>2
  <2>2. h[k + 1] = Row(h[k], s[k + 1]) /\ h[k] \in Seq(Users) /\ s[k + 1] \in AnySlot
    BY <1>1, <1>2, <2>1
  <2>3. \A id : id \in ToSet(h[k + 1]) <=>
          id \in ToSet(h[k]) \/ (userlist[s[k + 1]].ok /\ usermap[s[k + 1]] = id)
    <3>1. CASE userlist[s[k + 1]].ok
      <4>1. h[k + 1] = Append(h[k], usermap[s[k + 1]]) /\ usermap[s[k + 1]] \in Users
        BY <2>2, <3>1, RowType DEF Row
      <4>2. ToSet(Append(h[k], usermap[s[k + 1]])) = ToSet(h[k]) \cup {usermap[s[k + 1]]}
        BY <2>2, <4>1, ToSetAppend
      <4> QED
        BY <3>1, <4>1, <4>2
    <3>2. CASE ~userlist[s[k + 1]].ok
      BY <2>2, <3>2 DEF Row
    <3> QED
      BY <3>1, <3>2
  <2>4. \A id : Found(k + 1, id) <=>
          Found(k, id) \/ (userlist[s[k + 1]].ok /\ usermap[s[k + 1]] = id)
    <3>1. \A j : j \in 1..(k + 1) <=> j \in 1..k \/ j = k + 1
      BY <2>1
    <3> QED
      BY <3>1
  <2>5. \A id : id \in ToSet(h[k]) <=> Found(k, id)
    BY <1>4
  <2> HIDE DEF Found
  <2> QED
    BY <2>1, <2>3, <2>4, <2>5
<1>5. Len(s) \in T
  <2> HIDE DEF T
  <2>1. Len(s) \in 0..Len(s)
    BY <1>2
  <2> QED
    BY <1>2, <1>3, <1>4, <2>1, IntervalInduction
<1>6. \A id : id \in ToSet(Rows(s)) <=> Found(Len(s), id)
  BY <1>1, <1>5
<1>7. \A id : Found(Len(s), id) <=> \E i \in ToSet(s) : userlist[i].ok /\ usermap[i] = id
  BY <1>2 DEF ToSet
<1>8. Rows(s) \in Seq(Users)
  <2>1. Len(s) \in 0..Len(s)
    BY <1>2
  <2> QED
    BY <1>1, <2>1
<1>9. s = <<>> => Rows(s) = <<>>
  BY <1>1, <1>2
<1> HIDE DEF Found
<1> QED
  BY <1>6, <1>7, <1>8, <1>9

(* A turn of the scan takes the first slot off the order. *)
LEMMA RowsHead ==
  ASSUME DataTypes, NullSlots, NEW s \in Seq(AnySlot), s # <<>>, NEW r \in Seq(Users)
  PROVE  r \o Rows(s) = Row(r, Head(s)) \o Rows(Tail(s))
<1> DEFINE n == Len(s)
           tl == Tail(s)
<1>1. /\ n \in Nat /\ n >= 1 /\ s[1] \in AnySlot /\ Head(s) = s[1]
      /\ tl \in Seq(AnySlot) /\ Len(tl) = n - 1 /\ \A k \in 1..(n - 1) : tl[k] = s[k + 1]
  BY LenProperties, ElementOfSeq, EmptySeq, HeadTailProperties
<1>2. PICK h \in [0..n -> Seq(Users)] :
        h[0] = <<>> /\ h[n] = Rows(s) /\ \A k \in 1..n : h[k] = Row(h[k - 1], s[k])
  <2>1. PICK h \in [0..n -> Seq(Users)] : RowsByTurns(h, s)
    BY RowsRecursion
  <2> QED
    BY <2>1 DEF RowsByTurns
<1>3. PICK g \in [0..(n - 1) -> Seq(Users)] :
        /\ g[0] = <<>> /\ g[n - 1] = Rows(tl)
        /\ \A k \in 1..(n - 1) : g[k] = Row(g[k - 1], tl[k])
  <2> HIDE DEF tl
  <2>1. PICK g \in [0..Len(tl) -> Seq(Users)] : RowsByTurns(g, tl)
    BY <1>1, RowsRecursion
  <2> QED
    BY <1>1, <2>1 DEF RowsByTurns
<1>4. ASSUME NEW p \in Seq(Users), NEW q \in Seq(Users), NEW i \in AnySlot
      PROVE  Row(p \o q, i) = p \o Row(q, i)
  <2>1. ASSUME NEW x \in Users
        PROVE  Append(p \o q, x) = p \o Append(q, x)
    <3>1. AppendsToBoth(p, q, x)
      BY AppendConcat
    <3> QED
      BY <3>1, Zenon DEF AppendsToBoth
  <2>2. CASE userlist[i].ok
    <3>1. PICK x \in Users : x = usermap[i]
      BY <2>2, RowType
    <3>2. Row(p \o q, i) = Append(p \o q, x) /\ Row(q, i) = Append(q, x)
      BY <2>2, <3>1 DEF Row
    <3>3. Append(p \o q, x) = p \o Append(q, x)
      BY <2>1
    <3> QED
      BY <3>2, <3>3, Zenon
  <2>3. CASE ~userlist[i].ok
    BY <2>3 DEF Row
  <2> QED
    BY <2>2, <2>3
<1> DEFINE f == Row(r, s[1])
           T == {k \in 0..(n - 1) : r \o h[k + 1] = f \o g[k]}
<1>5. f \in Seq(Users)
  BY <1>1, RowType
<1>6. 0 \in T
  <2>1. 0 \in 0..(n - 1) /\ 0 + 1 = 1 /\ 1 \in 1..n /\ 1 - 1 = 0
    BY <1>1
  <2>2. h[1] = Row(<<>>, s[1]) /\ <<>> \in Seq(Users)
    BY <1>2, <2>1, EmptySeq
  <2>3. r \o h[1] = Row(r \o <<>>, s[1])
    BY <1>1, <1>4, <2>2, Zenon
  <2>5. r \o <<>> = r
    BY ConcatEmptySeq
  <2>4. f \o g[0] = f
    <3> HIDE DEF f
    <3> QED
      BY <1>3, <1>5, ConcatEmptySeq
  <2> QED
    BY <2>1, <2>3, <2>4, <2>5
<1>7. ASSUME NEW k \in 0..(n - 2), k \in T
      PROVE  k + 1 \in T
  <2>1. /\ k + 1 \in 1..(n - 1) /\ k + 1 \in 0..(n - 1) /\ (k + 1) - 1 = k
        /\ (k + 1) + 1 \in 1..n /\ ((k + 1) + 1) - 1 = k + 1 /\ k + 1 \in 0..n
        /\ k \in 0..(n - 1) /\ (k + 1) + 1 \in 0..n
    BY <1>1
  <2>2. h[(k + 1) + 1] = Row(h[k + 1], s[(k + 1) + 1]) /\ h[k + 1] \in Seq(Users)
    BY <1>2, <2>1
  <2>3. g[k + 1] = Row(g[k], s[(k + 1) + 1]) /\ g[k] \in Seq(Users)
    BY <1>1, <1>3, <2>1
  <2>4. s[(k + 1) + 1] \in AnySlot
    BY <2>1, ElementOfSeq
  <2>5. r \o h[k + 1] = f \o g[k]
    BY <1>7
  <2>6. Row(r \o h[k + 1], s[(k + 1) + 1]) = r \o h[(k + 1) + 1]
    BY <1>4, <2>2, <2>4
  <2>7. Row(f \o g[k], s[(k + 1) + 1]) = f \o g[k + 1]
    <3> HIDE DEF f
    <3> QED
      BY <1>4, <1>5, <2>3, <2>4
  <2> HIDE DEF f
  <2> QED
    BY <2>1, <2>5, <2>6, <2>7
<1>8. n - 1 \in T
  <2> HIDE DEF T
  <2>1. n - 1 \in Nat /\ n - 1 \in 0..(n - 1) /\ (n - 1) - 1 = n - 2
    BY <1>1
  <2> QED
    BY <1>6, <1>7, <2>1, IntervalInduction
<1>9. (n - 1) + 1 = n
  BY <1>1
<1> HIDE DEF f, tl
<1> QED
  BY <1>1, <1>2, <1>3, <1>8, <1>9 DEF f, tl

-----------------------------------------------------------------------------
(* The searches.  Their own state: *)
SearchTypes ==
  /\ count \in 0..MaxUpdates
  /\ pc \in [Threads -> {"idle", "gather", "union", "scan"}]
  /\ want \in [Threads -> Seq(Locations)]
  /\ next \in [Threads -> Nat \ {0}]
  /\ room \in [Threads -> Nat]
  /\ users \in [Threads -> SUBSET AnySlot]
  /\ left \in [Threads -> Seq(AnySlot)]
  /\ results \in [Threads -> Seq(Users)]
  /\ overrun \in [Threads -> BOOLEAN]
  /\ snapshot \in [Threads -> Seq(Users)]
  /\ steady \in [Threads -> SUBSET Users]

AtList(t) ==
  /\ pc[t] = "union" => next[t] \in DOMAIN want[t]
  /\ pc[t] = "scan" => next[t] \notin DOMAIN want[t]

(* A scan has the rows of the slots before the turn it is at, and the rest *)
(* of the snapshot is what the slots that are left have now.               *)
ScanExact(t) ==
  /\ pc[t] \in {"gather", "union"} => results[t] = <<>>
  /\ pc[t] = "scan" => /\ results[t] \o Rows(left[t]) = snapshot[t]
                       /\ snapshot[t] = Rows(Vector(users[t]))

(* Slot i has a user no update has touched since the search began.  Then   *)
(* nothing is left to do about the slot, so the lists that have been and   *)
(* will be read are right about it, whatever is half done about others.    *)
Steady(t, i) == pc[t] # "idle" /\ usermap[i] \in steady[t]

Gathered(t, i) ==
  /\ \A n \in DOMAIN steps : steps[n][3] # i
  /\ i \in users[t] => \E j \in DOMAIN want[t] : Belongs(want[t][j], i)
  /\ ~overrun[t] => \A j \in DOMAIN want[t] :
                      j < next[t] /\ Belongs(want[t][j], i) => i \in users[t]

Searching(t) == AtList(t) /\ ScanExact(t) /\ \A i \in Slots : Steady(t, i) => Gathered(t, i)

(* The inductive invariant, with the searches. *)
SInv == SearchTypes /\ NullSlots /\ \A t \in Threads : Searching(t)

(* At first nobody searches.                                               *)
LEMMA InitSInv == Init => SInv
<1> SUFFICES ASSUME Init PROVE SInv
  OBVIOUS
<1> USE SlotsFinite
<1>1. SearchTypes
  <2>1. \A S : <<>> \in Seq(S)
    BY EmptySeq
  <2> QED
    BY <2>1, ConcurrentAssumption DEF Init, SearchTypes
<1>2. NullSlots
  <2>1. PICK n \in 0..Cardinality(Users) : \E us \in [1..n -> Users \X Structs] : Loaded(us)
    BY DEF Init
  <2>2. PICK us \in [1..n -> Users \X Structs] : Loaded(us)
    BY <2>1
  <2>3. us \in Seq(Users \X Structs) /\ Len(us) = n /\ DOMAIN us = 1..n
    BY <2>1, SeqDef, LenProperties
  <2>4. \A i \in 1..n : i \in Slots /\ us[i][1] \in Users /\ us[i][2] \in Structs
    BY <2>1 DEF Slots
  <2>5. /\ usermap = [i \in Slots |-> IF i <= n THEN us[i][1] ELSE 0]
        /\ userlist = [i \in Slots \cup {0} |-> IF i \in 1..n THEN us[i][2] ELSE NullUser]
    BY <2>2, <2>3 DEF Loaded
  <2>6. \A i \in Slots : i <= n <=> i \in 1..n
    BY <2>1 DEF Slots
  <2>7. 0 \notin 1..n
    OBVIOUS
  <2> QED
    BY <2>4, <2>5, <2>6, <2>7 DEF NullSlots
<1>3. \A t \in Threads : Searching(t)
  <2>1. \A t \in Threads : pc[t] = "idle"
    BY DEF Init
  <2> QED
    BY <2>1 DEF Searching, AtList, ScanExact, Steady
<1> QED
  BY <1>1, <1>2, <1>3 DEF SInv

-----------------------------------------------------------------------------
(* An update is about one user and one slot: no other slot changes, the    *)
(* slot is that user's or nobody's afterwards, and what is left to do to   *)
(* the lists is about it.  No search is in its scan.                       *)
Updates(id, i) ==
  /\ \A t \in Threads : pc[t] # "scan"
  /\ steady' = [t \in Threads |-> steady[t] \ {id}]
  /\ count < MaxUpdates /\ count' = count + 1
  /\ UNCHANGED search
  /\ usermap'[i] \in {0, id} /\ (usermap'[i] = 0 <=> userlist'[i] = NullUser)
  /\ \A j \in AnySlot \ {i} : userlist'[j] = userlist[j]
  /\ \A j \in Slots \ {i} : usermap'[j] = usermap[j]
  /\ \A n \in DOMAIN (steps') : (steps')[n][3] = i

(* The steps off one path and onto another are for one slot, ...           *)
LEMMA StepsOfSlot ==
  ASSUME NEW i \in Slots, NEW p \in Seq(Locations), NEW q \in Seq(Locations),
         NEW s, OffThenOn(s, p, q, i)
  PROVE  \A n \in DOMAIN s : s[n][3] = i
<1> SUFFICES ASSUME NEW n \in DOMAIN s PROVE s[n][3] = i
  OBVIOUS
<1>2. /\ DOMAIN s = 1..(Len(p) + Len(q)) /\ DOMAIN p = 1..Len(p) /\ DOMAIN q = 1..Len(q)
      /\ Len(p) \in Nat /\ Len(q) \in Nat
      /\ \A k \in DOMAIN p : s[k] = <<"unset", p[k], i>>
      /\ \A k \in DOMAIN q : s[k + Len(p)] = <<"set", q[k], i>>
  BY LenProperties DEF OffThenOn
<1>3. CASE n <= Len(p)
  BY <1>2, <1>3
<1>4. CASE ~(n <= Len(p))
  <2>1. n - Len(p) \in DOMAIN q /\ (n - Len(p)) + Len(p) = n
    BY <1>2, <1>4
  <2> QED
    BY <1>2, <2>1
<1> QED
  BY <1>3, <1>4

(* ... and so are those of one path.                                       *)
LEMMA StepsOfPathSlot ==
  ASSUME NEW i \in Slots, NEW p \in Seq(Locations), NEW kind \in {"set", "unset"}
  PROVE  \A n \in DOMAIN Marks(kind, p, i) : Marks(kind, p, i)[n][3] = i
BY DEF Marks

(* Every update of the users is about one user and one slot.               *)
LEMMA UpdateOfSlot ==
  ASSUME IInv, NullSlots, BeginUpdate
  PROVE  \E id \in Users, i \in Slots : Updates(id, i)
<1> USE SlotsFinite
<1>1. PICK id \in Users :
        \/ \E user \in Structs : ReplaceUser(id, user) \/ AddUser(id, user)
        \/ \E loc \in Locations : MoveUser(id, loc)
        \/ \E ok \in BOOLEAN : ChangeUser(id, ok)
        \/ DeleteUser(id)
  BY DEF BeginUpdate
<1>2. /\ \A t \in Threads : pc[t] # "scan"
      /\ steady' = [t \in Threads |-> steady[t] \ {id}]
      /\ count < MaxUpdates /\ count' = count + 1
      /\ UNCHANGED search
  BY <1>1 DEF ReplaceUser, AddUser, MoveUser, ChangeUser, DeleteUser, StartUpdate, CanWrite,
              Observe
<1>3. id # 0
  OBVIOUS
<1>4. ASSUME NEW user \in Structs, ReplaceUser(id, user)
      PROVE  \E i \in Slots : Updates(id, i)
  <2>1. PICK i : i = SlotOf(id)
    OBVIOUS
  <2>2. i \in Slots /\ usermap[i] = id /\ userlist[i] \in Structs
    BY <1>4, <2>1, SlotOfLive DEF IInv, ReplaceUser
  <2>3. /\ userlist' = [userlist EXCEPT ![i] = user] /\ UNCHANGED usermap
        /\ steps' = IF userlist[i].loc = user.loc THEN <<>>
                    ELSE Unset(userlist[i].loc, i) \o Set(user.loc, i)
    BY <1>4, <2>1 DEF ReplaceUser
  <2>4. \A n \in DOMAIN (steps') : (steps')[n][3] = i
    <3>1. CASE userlist[i].loc = user.loc
      BY <2>3, <3>1
    <3>2. CASE userlist[i].loc # user.loc
      <4>1. LocPath[userlist[i].loc] \in Seq(Locations) /\ LocPath[user.loc] \in Seq(Locations)
        BY <2>2, PathType
      <4>2. OffThenOn(steps', LocPath[userlist[i].loc], LocPath[user.loc], i)
        <5>1. steps' = Marks("unset", LocPath[userlist[i].loc], i)
                       \o Marks("set", LocPath[user.loc], i)
          BY <2>3, <3>2 DEF Set, Unset, Marks
        <5> QED
          BY <2>2, <4>1, <5>1, StepsInTwoParts
      <4> QED
        BY <2>2, <4>1, <4>2, StepsOfSlot
    <3> QED
      BY <3>1, <3>2
  <2>5. userlist'[i] = user /\ \A j \in AnySlot \ {i} : userlist'[j] = userlist[j]
    BY <2>2, <2>3 DEF IInv, DataTypes, AnySlot
  <2> QED
    BY <1>2, <1>3, <2>2, <2>3, <2>4, <2>5 DEF Updates
<1>5. ASSUME NEW user \in Structs, AddUser(id, user)
      PROVE  \E i \in Slots : Updates(id, i)
  <2>1. PICK i \in Slots :
          /\ userlist' = [userlist EXCEPT ![i] = user]
          /\ usermap' = [usermap EXCEPT ![i] = id]
          /\ steps' = Set(user.loc, i)
    BY <1>5 DEF AddUser
  <2>2. steps' = Marks("set", LocPath[user.loc], i) /\ LocPath[user.loc] \in Seq(Locations)
    BY <2>1, PathType DEF Set, Marks
  <2>3. \A n \in DOMAIN (steps') : (steps')[n][3] = i
    BY <2>2, StepsOfPathSlot
  <2>4. userlist'[i] = user /\ \A j \in AnySlot \ {i} : userlist'[j] = userlist[j]
    BY <2>1 DEF IInv, DataTypes, AnySlot
  <2>5. usermap'[i] = id /\ \A j \in Slots \ {i} : usermap'[j] = usermap[j]
    BY <2>1 DEF IInv, DataTypes
  <2> QED
    BY <1>2, <1>3, <2>3, <2>4, <2>5 DEF Updates
<1>6. ASSUME NEW loc \in Locations, MoveUser(id, loc)
      PROVE  \E i \in Slots : Updates(id, i)
  <2>1. PICK i : i = SlotOf(id)
    OBVIOUS
  <2>2. i \in Slots /\ usermap[i] = id /\ userlist[i] \in Structs
    BY <1>6, <2>1, SlotOfLive DEF IInv, MoveUser
  <2>3. /\ userlist' = [userlist EXCEPT ![i].loc = loc] /\ UNCHANGED usermap
        /\ steps' = Unset(userlist[i].loc, i) \o Set(loc, i)
    BY <1>6, <2>1 DEF MoveUser
  <2>4. LocPath[userlist[i].loc] \in Seq(Locations) /\ LocPath[loc] \in Seq(Locations)
    BY <2>2, PathType, ConcurrentAssumption
  <2>5. OffThenOn(steps', LocPath[userlist[i].loc], LocPath[loc], i)
    <3>1. steps' = Marks("unset", LocPath[userlist[i].loc], i) \o Marks("set", LocPath[loc], i)
      BY <2>3 DEF Set, Unset, Marks
    <3> QED
      BY <2>2, <2>4, <3>1, StepsInTwoParts
  <2>6. \A n \in DOMAIN (steps') : (steps')[n][3] = i
    BY <2>2, <2>4, <2>5, StepsOfSlot
  <2>7. /\ userlist'[i] = [userlist[i] EXCEPT !.loc = loc]
        /\ \A j \in AnySlot \ {i} : userlist'[j] = userlist[j]
    BY <2>2, <2>3 DEF IInv, DataTypes, AnySlot
  <2>8. userlist'[i] \in Structs
    BY <2>2, <2>7 DEF Structs
  <2> QED
    BY <1>2, <1>3, <2>2, <2>3, <2>6, <2>7, <2>8 DEF Updates
<1>7. ASSUME NEW ok \in BOOLEAN, ChangeUser(id, ok)
      PROVE  \E i \in Slots : Updates(id, i)
  <2>1. PICK i : i = SlotOf(id)
    OBVIOUS
  <2>2. i \in Slots /\ usermap[i] = id /\ userlist[i] \in Structs
    BY <1>7, <2>1, SlotOfLive DEF IInv, ChangeUser
  <2>3. userlist' = [userlist EXCEPT ![i].ok = ok] /\ UNCHANGED usermap /\ steps' = <<>>
    BY <1>7, <2>1 DEF ChangeUser
  <2>4. /\ userlist'[i] = [userlist[i] EXCEPT !.ok = ok]
        /\ \A j \in AnySlot \ {i} : userlist'[j] = userlist[j]
    BY <2>2, <2>3 DEF IInv, DataTypes, AnySlot
  <2>5. userlist'[i] \in Structs
    BY <2>2, <2>4 DEF Structs
  <2> QED
    BY <1>2, <1>3, <2>2, <2>3, <2>4, <2>5 DEF Updates
<1>8. ASSUME DeleteUser(id)
      PROVE  \E i \in Slots : Updates(id, i)
  <2>1. PICK i : i = SlotOf(id)
    OBVIOUS
  <2>2. i \in Slots /\ usermap[i] = id /\ userlist[i] \in Structs
    BY <1>8, <2>1, SlotOfLive DEF IInv, DeleteUser
  <2>3. /\ userlist' = [userlist EXCEPT ![i] = NullUser]
        /\ usermap' = [usermap EXCEPT ![i] = 0]
        /\ steps' = Unset(userlist[i].loc, i)
    BY <1>8, <2>1 DEF DeleteUser
  <2>4. /\ steps' = Marks("unset", LocPath[userlist[i].loc], i)
        /\ LocPath[userlist[i].loc] \in Seq(Locations)
    BY <2>2, <2>3, PathType DEF Unset, Marks
  <2>5. \A n \in DOMAIN (steps') : (steps')[n][3] = i
    BY <2>2, <2>4, StepsOfPathSlot
  <2>6. userlist'[i] = NullUser /\ \A j \in AnySlot \ {i} : userlist'[j] = userlist[j]
    BY <2>2, <2>3 DEF IInv, DataTypes, AnySlot
  <2>7. usermap'[i] = 0 /\ \A j \in Slots \ {i} : usermap'[j] = usermap[j]
    BY <2>2, <2>3 DEF IInv, DataTypes
  <2> QED
    BY <1>2, <2>2, <2>5, <2>6, <2>7 DEF Updates
<1> QED
  BY <1>1, <1>4, <1>5, <1>6, <1>7, <1>8

-----------------------------------------------------------------------------
(* What a scan has found stays what it was found to be, ...                *)
LEMMA RowsUnchanged ==
  ASSUME NEW o, UNCHANGED <<userlist, usermap>>
  PROVE  Rows(o)' = Rows(o)
BY Zenon DEF Rows, Row, FoldLeft, MapThenFoldSet

(* ... and so does what a slot has to do with a search.                    *)
LEMMA BelongsUnchanged ==
  ASSUME NEW i, userlist'[i] = userlist[i], usermap'[i] = usermap[i]
  PROVE  \A l : Belongs(l, i)' <=> Belongs(l, i)
BY DEF Belongs

(* Thread t is where it was, and nobody has changed users or added steps.  *)
Still(t) ==
  /\ UNCHANGED <<userlist, usermap>>
  /\ \A n \in DOMAIN (steps') : \E m \in DOMAIN steps : (steps')[n][3] = steps[m][3]
  /\ pc'[t] = pc[t] /\ want'[t] = want[t] /\ next'[t] = next[t]
  /\ users'[t] = users[t] /\ left'[t] = left[t] /\ results'[t] = results[t]
  /\ overrun'[t] = overrun[t] /\ snapshot'[t] = snapshot[t] /\ steady'[t] = steady[t]

(* A step of somebody else leaves a search where it is.                    *)
LEMMA StillSearching ==
  ASSUME NEW t \in Threads, Searching(t), Still(t)
  PROVE  Searching(t)'
<1>1. AtList(t)'
  BY DEF Searching, AtList, Still
<1>2. ScanExact(t)'
  <2>1. PICK o : o = left[t]
    OBVIOUS
  <2>2. PICK v : v = Vector(users[t])
    OBVIOUS
  <2>3. Rows(o)' = Rows(o) /\ Rows(v)' = Rows(v)
    BY RowsUnchanged DEF Still
  <2>4. Rows(left[t])' = Rows(o)' /\ Rows(Vector(users[t]))' = Rows(v)'
    BY <2>1, <2>2 DEF Still
  <2> QED
    BY <2>1, <2>2, <2>3, <2>4 DEF Searching, ScanExact, Still
<1>3. \A i \in Slots : Steady(t, i)' => Gathered(t, i)'
  <2> SUFFICES ASSUME NEW i \in Slots, Steady(t, i)' PROVE Gathered(t, i)'
    OBVIOUS
  <2>1. Gathered(t, i)
    BY DEF Searching, Steady, Still
  <2>2. \A l : Belongs(l, i)' <=> Belongs(l, i)
    BY BelongsUnchanged DEF Still
  <2> QED
    BY <2>1, <2>2 DEF Gathered, Still
<1> QED
  BY <1>1, <1>2, <1>3 DEF Searching

(* The update thread disturbs no search.                                   *)
LEMMA UpdateSInv ==
  ASSUME IInv, SInv, BeginUpdate
  PROVE  SInv'
<1> USE SlotsFinite
<1>1. PICK id \in Users, i \in Slots : Updates(id, i)
  BY UpdateOfSlot DEF SInv
<1>2. SearchTypes'
  <2>1. count' \in 0..MaxUpdates
    BY <1>1, ConcurrentAssumption DEF SInv, SearchTypes, Updates
  <2>2. steady' \in [Threads -> SUBSET Users]
    BY <1>1 DEF SInv, SearchTypes, Updates
  <2> QED
    BY <1>1, <2>1, <2>2 DEF SInv, SearchTypes, Updates, search
<1>3. NullSlots'
  <2>1. 0 # i /\ 0 \in AnySlot /\ Slots \subseteq AnySlot
    BY DEF AnySlot
  <2> QED
    BY <1>1, <2>1 DEF SInv, NullSlots, Updates
<1>4. ASSUME NEW t \in Threads
      PROVE  Searching(t)'
  <2>1. Searching(t) /\ pc'[t] = pc[t] /\ pc[t] # "scan"
    BY <1>1 DEF SInv, Updates, search
  <2>2. AtList(t)' /\ ScanExact(t)'
    BY <1>1, <2>1 DEF Searching, AtList, ScanExact, Updates, search
  <2>3. ASSUME NEW j \in Slots, Steady(t, j)'
        PROVE  Gathered(t, j)'
    <3>1. steady'[t] = steady[t] \ {id} /\ steady[t] \subseteq Users
      BY <1>1 DEF Updates, SInv, SearchTypes
    <3>2. j # i
      BY <1>1, <2>3, <3>1 DEF Updates, Steady
    <3>3. userlist'[j] = userlist[j] /\ usermap'[j] = usermap[j]
      BY <1>1, <3>2 DEF Updates, AnySlot
    <3>4. Gathered(t, j)
      BY <2>1, <2>3, <3>1, <3>3 DEF Searching, Steady
    <3>5. \A l : Belongs(l, j)' <=> Belongs(l, j)
      BY <3>3, BelongsUnchanged
    <3>6. UNCHANGED <<users, want, next, overrun>>
      BY <1>1 DEF Updates, search
    <3>7. \A n \in DOMAIN (steps') : (steps')[n][3] # j
      BY <1>1, <3>2 DEF Updates
    <3> QED
      BY <3>4, <3>5, <3>6, <3>7 DEF Gathered
  <2> QED
    BY <2>2, <2>3 DEF Searching
<1> QED
  BY <1>2, <1>3, <1>4 DEF SInv

(* The rest of an update; search threads stand still. *)
LEMMA ListStepSInv ==
  ASSUME IInv, SInv, ListStep \/ Unlock \/ UNCHANGED vars
  PROVE  SInv'
<1>1. \A n \in DOMAIN (steps') : \E m \in DOMAIN steps : (steps')[n][3] = steps[m][3]
  <2>1. CASE ListStep
    <3>1. steps \in Seq(StepItem) /\ steps # <<>> /\ steps' = Tail(steps)
      BY <2>1 DEF ListStep, IInv, DataTypes
    <3>2. /\ Len(steps) \in Nat /\ DOMAIN steps = 1..Len(steps)
          /\ steps' \in Seq(StepItem) /\ DOMAIN (steps') = 1..(Len(steps) - 1)
          /\ \A n \in 1..(Len(steps) - 1) : (steps')[n] = steps[n + 1]
      BY <3>1, HeadTailProperties, LenProperties
    <3>3. \A n \in DOMAIN (steps') : n + 1 \in DOMAIN steps /\ (steps')[n] = steps[n + 1]
      BY <3>2
    <3> QED
      BY <3>3
  <2>2. CASE Unlock \/ UNCHANGED vars
    BY <2>2 DEF Unlock, vars, updater
  <2> QED
    BY <2>1, <2>2
<1>2. UNCHANGED <<userlist, usermap, count, search, history>>
  BY DEF ListStep, Unlock, vars, data, updater
<1>3. SearchTypes' /\ NullSlots'
  BY <1>2 DEF SInv, SearchTypes, NullSlots, search, history
<1>4. \A t \in Threads : Still(t)
  BY <1>1, <1>2 DEF Still, search, history
<1> QED
  BY <1>3, <1>4, StillSearching DEF SInv

(* A step of a search thread leaves the others where they are. *)
OthersStill(t) == \A s \in Threads \ {t} : Still(s)

(* A search disturbs no other search.                                      *)
LEMMA SearchOthers ==
  ASSUME IInv, SInv, NEW t \in Threads,
         SearchStep(t) \/ \E locs \in Wanted : Begin(t, locs)
  PROVE  /\ OthersStill(t) /\ UNCHANGED <<userlist, usermap, loclist, steps, count>>
         /\ NullSlots'
<1>1. UNCHANGED <<userlist, usermap, loclist, steps, count>>
  BY DEF SearchStep, MeasureList, UnionList, ReadLock, ScanSlot, Finish, Begin, data, updater
<1>2. ASSUME NEW s \in Threads \ {t}
      PROVE  Still(s)
  <2>1. CASE MeasureList(t)
    BY <1>1, <2>1 DEF MeasureList, Still, SInv, SearchTypes, history
  <2>2. CASE UnionList(t)
    BY <1>1, <2>2 DEF UnionList, Still, SInv, SearchTypes, history
  <2>3. CASE ReadLock(t)
    BY <1>1, <2>3 DEF ReadLock, Still, SInv, SearchTypes, history
  <2>4. CASE ScanSlot(t)
    BY <1>1, <2>4 DEF ScanSlot, Still, SInv, SearchTypes, history
  <2>5. CASE Finish(t)
    BY <1>1, <2>5 DEF Finish, Still, SInv, SearchTypes, history
  <2>6. CASE \E locs \in Wanted : Begin(t, locs)
    BY <1>1, <2>6 DEF Begin, Still, SInv, SearchTypes
  <2> QED
    BY <2>1, <2>2, <2>3, <2>4, <2>5, <2>6 DEF SearchStep
<1>3. NullSlots'
  BY <1>1 DEF SInv, NullSlots
<1> QED
  BY <1>1, <1>2, <1>3 DEF OthersStill

(* What is left of SInv' after a step of t, for the steps below. *)
LEMMA SearchDone ==
  ASSUME IInv, SInv, NEW t \in Threads,
         SearchStep(t) \/ \E locs \in Wanted : Begin(t, locs),
         SearchTypes', Searching(t)'
  PROVE  SInv'
<1>1. OthersStill(t) /\ NullSlots'
  BY SearchOthers
<1>2. \A s \in Threads \ {t} : Searching(s)'
  BY <1>1, StillSearching DEF OthersStill, SInv
<1> QED
  BY <1>1, <1>2 DEF SInv

(* A search begins with nothing gathered.                                  *)
LEMMA BeginSInv ==
  ASSUME IInv, SInv, NEW t \in Threads, NEW locs \in Wanted, Begin(t, locs)
  PROVE  SInv'
<1>1. /\ pc'[t] = "gather" /\ want'[t] = locs /\ next'[t] = 1 /\ users'[t] = {}
      /\ results'[t] = <<>>
  BY DEF Begin, SInv, SearchTypes
<1>2. SearchTypes'
  <2>1. locs \in Seq(Locations) /\ <<>> \in Seq(Users) /\ 1 \in Nat \ {0}
    BY ConcurrentAssumption, EmptySeq
  <2> QED
    BY <2>1 DEF Begin, SInv, SearchTypes, updater
<1>3. steps' = <<>>
  BY DEF Begin, IInv, DataTypes, updater
<1>4. Searching(t)'
  <2>1. \A j \in DOMAIN locs : j \in Nat /\ ~(j < 1)
    <3>1. locs \in Seq(Locations)
      BY ConcurrentAssumption
    <3>2. DOMAIN locs = 1..Len(locs) /\ Len(locs) \in Nat
      BY <3>1, LenProperties
    <3> QED
      BY <3>2
  <2> QED
    BY <1>1, <1>3, <2>1 DEF Searching, AtList, ScanExact, Gathered
<1> QED
  BY <1>2, <1>4, SearchDone

(* The list about to be read is right about a steady slot. *)
LEMMA ListOfSteady ==
  ASSUME IInv, SInv, NEW t \in Threads, NEW i \in Slots, Steady(t, i),
         next[t] \in DOMAIN want[t]
  PROVE  /\ want[t][next[t]] \in Locations /\ ListAt(t) \subseteq Slots
         /\ i \in ListAt(t) <=> Belongs(want[t][next[t]], i)
<1>1. want[t][next[t]] \in Locations
  BY ElementOfSeq, LenProperties DEF SInv, SearchTypes
<1>2. Gathered(t, i)
  BY DEF SInv, Searching
<1>3. IsRight(want[t][next[t]], i)
  BY <1>1, <1>2 DEF IInv, StepsLead, EndsRight, About, Gathered
<1> QED
  BY <1>1, <1>3 DEF IsRight, ListAt, IInv, DataTypes

(* What a thread has gathered are slots.                                   *)
LEMMA SlotsOfThread ==
  ASSUME IInv, SInv, NEW t \in Threads
  PROVE  /\ IsFiniteSet(users[t]) /\ users[t] \in SUBSET Nat /\ users[t] \subseteq AnySlot
         /\ next[t] \in DOMAIN want[t] =>
              /\ IsFiniteSet(ListAt(t)) /\ ListAt(t) \subseteq AnySlot /\ ListAt(t) \in SUBSET Nat
<1>1. IsFiniteSet(AnySlot) /\ AnySlot \subseteq Nat
  <2>1. IsFiniteSet(Slots)
    BY SlotsFinite, FS_Interval DEF Slots
  <2> QED
    BY <2>1, SlotsFinite, FS_AddElement DEF AnySlot
<1>2. users[t] \subseteq AnySlot
  BY DEF SInv, SearchTypes
<1>3. next[t] \in DOMAIN want[t] => ListAt(t) \subseteq AnySlot
  <2>1. next[t] \in DOMAIN want[t] => want[t][next[t]] \in Locations
    BY ElementOfSeq, LenProperties DEF SInv, SearchTypes
  <2> QED
    BY <2>1 DEF ListAt, IInv, DataTypes, AnySlot
<1> QED
  BY <1>1, <1>2, <1>3, FS_Subset

(* A thread that has taken the next list in, or found nothing in it. *)
LEMMA GatheredNext ==
  ASSUME IInv, SInv, NEW t \in Threads, NEW i \in Slots, Steady(t, i),
         next[t] \in DOMAIN want[t],
         UNCHANGED <<userlist, usermap, steps, want>>, next'[t] = next[t] + 1,
         users'[t] \subseteq users[t] \cup ListAt(t) \cup {0},
         ~overrun'[t] => ~overrun[t] /\ users[t] \cup ListAt(t) \subseteq users'[t]
  PROVE  Gathered(t, i)'
<1> USE SlotsFinite
<1>1. Gathered(t, i)
  BY DEF SInv, Searching
<1>2. i \in ListAt(t) <=> Belongs(want[t][next[t]], i)
  BY ListOfSteady
<1>3. \A l : Belongs(l, i)' <=> Belongs(l, i)
  BY BelongsUnchanged
<1>4. \A n \in DOMAIN (steps') : (steps')[n][3] # i
  BY <1>1 DEF Gathered
<1>5. i \in users'[t] => \E j \in DOMAIN want[t] : Belongs(want[t][j], i)
  <2>1. i # 0
    OBVIOUS
  <2> QED
    BY <1>1, <1>2, <2>1 DEF Gathered
<1>6. ASSUME ~overrun'[t], NEW j \in DOMAIN want[t], j < next'[t], Belongs(want[t][j], i)
      PROVE  i \in users'[t]
  <2>1. j \in Nat /\ next[t] \in Nat
    <3>1. want[t] \in Seq(Locations) /\ next[t] \in Nat
      BY DEF SInv, SearchTypes
    <3>2. DOMAIN want[t] = 1..Len(want[t]) /\ Len(want[t]) \in Nat
      BY <3>1, LenProperties
    <3> QED
      BY <3>1, <3>2
  <2>2. j < next[t] \/ j = next[t]
    BY <1>6, <2>1
  <2> QED
    BY <1>1, <1>2, <1>6, <2>2 DEF Gathered
<1> QED
  BY <1>3, <1>4, <1>5, <1>6 DEF Gathered

(* Measuring a list, ...                                                   *)
LEMMA MeasureListSInv ==
  ASSUME IInv, SInv, NEW t \in Threads, MeasureList(t)
  PROVE  SInv'
<1> DEFINE size == Cardinality(users[t]) + Cardinality(ListAt(t))
<1>1. pc[t] = "gather" /\ next[t] \in DOMAIN want[t] /\ next[t] \in Nat
  BY DEF MeasureList, SInv, SearchTypes
<1>2. Cardinality(users[t]) \in Nat /\ Cardinality(ListAt(t)) \in Nat
  BY <1>1, SlotsOfThread, FS_CardinalityType
<1>3. size \in Nat /\ (size = 0 => users[t] = {} /\ ListAt(t) = {})
  BY <1>1, <1>2, SlotsOfThread, FS_EmptySet
<1>4. /\ UNCHANGED <<userlist, usermap, loclist, steps, count, want, users, left, results,
                     overrun, snapshot, steady>>
      /\ IF size = 0 THEN next' = [next EXCEPT ![t] = @ + 1] /\ UNCHANGED <<pc, room>>
         ELSE /\ room' = [room EXCEPT ![t] = size]
              /\ pc' = [pc EXCEPT ![t] = "union"]
              /\ UNCHANGED next
  BY DEF MeasureList, data, updater, history
<1> HIDE DEF size
<1>5. SearchTypes'
  <2>1. CASE size = 0
    <3>1. next[t] + 1 \in Nat \ {0}
      BY <1>1
    <3> QED
      BY <1>4, <2>1, <3>1 DEF SInv, SearchTypes
  <2>2. CASE size # 0
    BY <1>3, <1>4, <2>2 DEF SInv, SearchTypes
  <2> QED
    BY <2>1, <2>2
<1>6. Searching(t)'
  <2>1. CASE size = 0
    <3>1. pc'[t] = "gather" /\ next'[t] = next[t] + 1
      BY <1>1, <1>4, <2>1 DEF SInv, SearchTypes
    <3>2. ASSUME NEW i \in Slots, Steady(t, i)'
          PROVE  Gathered(t, i)'
      <4>1. Steady(t, i)
        BY <1>1, <1>4, <3>2 DEF Steady
      <4>2. /\ users'[t] \subseteq users[t] \cup ListAt(t) \cup {0}
            /\ users[t] \cup ListAt(t) \subseteq users'[t] /\ overrun'[t] = overrun[t]
        BY <1>3, <1>4, <2>1
      <4>3. UNCHANGED <<userlist, usermap, steps, want>>
        BY <1>4
      <4> QED
        BY <1>1, <3>1, <4>1, <4>2, <4>3, GatheredNext
    <3>3. AtList(t)' /\ ScanExact(t)'
      BY <1>1, <1>4, <3>1 DEF AtList, ScanExact, SInv, Searching
    <3> QED
      BY <3>2, <3>3 DEF Searching
  <2>2. CASE size # 0
    <3>1. pc'[t] = "union" /\ next'[t] = next[t]
      BY <1>1, <1>4, <2>2 DEF SInv, SearchTypes
    <3>2. ASSUME NEW i \in Slots, Steady(t, i)'
          PROVE  Gathered(t, i)'
      <4>1. Steady(t, i) /\ Gathered(t, i)
        BY <1>1, <1>4, <3>2 DEF Steady, SInv, Searching
      <4>2. \A l : Belongs(l, i)' <=> Belongs(l, i)
        BY <1>4, BelongsUnchanged
      <4> QED
        BY <1>4, <3>1, <4>1, <4>2 DEF Gathered
    <3>3. AtList(t)' /\ ScanExact(t)'
      BY <1>1, <1>4, <3>1 DEF AtList, ScanExact, SInv, Searching
    <3> QED
      BY <3>2, <3>3 DEF Searching
  <2> QED
    BY <2>1, <2>2
<1> QED
  BY <1>5, <1>6, SearchDone DEF SearchStep

(* ... taking it in, ...                                                   *)
LEMMA UnionListSInv ==
  ASSUME IInv, SInv, NEW t \in Threads, UnionList(t)
  PROVE  SInv'
<1> DEFINE both == users[t] \cup ListAt(t)
           cut == ToSet(SubSeq(Vector(both), 1, room[t]))
<1>1. /\ pc[t] = "union" /\ next[t] \in DOMAIN want[t] /\ next[t] \in Nat
      /\ results[t] = <<>>
  BY DEF UnionList, SInv, SearchTypes, Searching, AtList, ScanExact
<1>2. both \in SUBSET Nat /\ IsFiniteSet(both) /\ both \subseteq AnySlot
  BY <1>1, SlotsOfThread, FS_Union
<1>3. /\ UNCHANGED <<userlist, usermap, loclist, steps, count, want, room, left, results,
                     snapshot, steady>>
      /\ next' = [next EXCEPT ![t] = @ + 1]
      /\ pc' = [pc EXCEPT ![t] = "gather"]
  BY DEF UnionList, data, updater, history
<1>4. IF Cardinality(both) <= room[t]
      THEN users' = [users EXCEPT ![t] = both] /\ UNCHANGED overrun
      ELSE /\ users' = [users EXCEPT ![t] = cut \cup {0}]
           /\ overrun' = [overrun EXCEPT ![t] = TRUE]
  BY DEF UnionList
<1>5. cut \subseteq both \/ Cardinality(both) <= room[t]
  <2> HIDE DEF both
  <2>1. /\ Vector(both) \in Seq(both) /\ Len(Vector(both)) = Cardinality(both)
        /\ Cardinality(both) \in Nat /\ ToSet(Vector(both)) = both
    BY <1>2, VectorProperties
  <2>2. room[t] \in Nat
    BY DEF SInv, SearchTypes
  <2>3. ASSUME ~(Cardinality(both) <= room[t])
        PROVE  cut \subseteq both
    <3>1. 1 \in 1..(Len(Vector(both)) + 1) /\ room[t] \in 0..Len(Vector(both))
      BY <2>1, <2>2, <2>3
    <3>2. SubSeq(Vector(both), 1, room[t]) \in Seq(both)
      BY <2>1, <3>1, SubSeqProperties
    <3> QED
      BY <3>2, ElementOfSeq, LenProperties DEF ToSet
  <2> QED
    BY <2>3
<1>6. /\ users'[t] \subseteq both \cup {0} /\ users' \in [Threads -> SUBSET AnySlot]
      /\ ~overrun'[t] => ~overrun[t] /\ both \subseteq users'[t]
      /\ overrun' \in [Threads -> BOOLEAN] /\ next'[t] = next[t] + 1 /\ pc'[t] = "gather"
  <2> HIDE DEF both, cut
  <2>1. next'[t] = next[t] + 1 /\ pc'[t] = "gather"
    BY <1>3 DEF SInv, SearchTypes
  <2>2. CASE Cardinality(both) <= room[t]
    BY <1>2, <1>4, <2>1, <2>2 DEF SInv, SearchTypes
  <2>3. CASE ~(Cardinality(both) <= room[t])
    <3>1. cut \cup {0} \subseteq AnySlot
      BY <1>2, <1>5, <2>3 DEF AnySlot
    <3> QED
      BY <1>4, <1>5, <2>1, <2>3, <3>1 DEF SInv, SearchTypes
  <2> QED
    BY <2>2, <2>3
<1> HIDE DEF cut
<1>7. SearchTypes'
  <2>1. next[t] + 1 \in Nat \ {0}
    BY <1>1
  <2> QED
    BY <1>3, <1>6, <2>1 DEF SInv, SearchTypes
<1>8. ASSUME NEW i \in Slots, Steady(t, i)'
      PROVE  Gathered(t, i)'
  <2>1. Steady(t, i)
    BY <1>1, <1>3, <1>8 DEF Steady
  <2>2. UNCHANGED <<userlist, usermap, steps, want>>
    BY <1>3
  <2> QED
    BY <1>1, <1>6, <2>1, <2>2, GatheredNext
<1>9. AtList(t)' /\ ScanExact(t)'
  BY <1>1, <1>3, <1>6 DEF AtList, ScanExact
<1> QED
  BY <1>7, <1>8, <1>9, SearchDone DEF SearchStep, Searching

(* Gathered is about no more than a thread's set and the lists behind it.  *)
LEMMA GatheredStill ==
  ASSUME SInv, NEW t \in Threads,
         UNCHANGED <<userlist, usermap, steps, want, next, users, overrun, steady>>,
         pc[t] # "idle"
  PROVE  \A i \in Slots : Steady(t, i)' => Gathered(t, i)'
<1> SUFFICES ASSUME NEW i \in Slots, Steady(t, i)' PROVE Gathered(t, i)'
  OBVIOUS
<1>1. Gathered(t, i)
  BY DEF Steady, SInv, Searching
<1>2. \A l : Belongs(l, i)' <=> Belongs(l, i)
  BY BelongsUnchanged
<1> QED
  BY <1>1, <1>2 DEF Gathered

(* ... taking the read lock, ...                                           *)
LEMMA ReadLockSInv ==
  ASSUME IInv, SInv, NEW t \in Threads, ReadLock(t)
  PROVE  SInv'
<1>1. PICK v : v = Vector(users[t])
  OBVIOUS
<1>2. v \in Seq(AnySlot)
  <2>1. v \in Seq(users[t]) /\ users[t] \subseteq AnySlot
    BY <1>1, SlotsOfThread, VectorProperties
  <2> QED
    BY <2>1, SeqMonotonic
<1>3. /\ pc[t] = "gather" /\ next[t] \notin DOMAIN want[t] /\ results[t] = <<>>
      /\ UNCHANGED <<userlist, usermap, loclist, steps, count, want, next, room, users, results,
                     overrun, steady>>
      /\ pc' = [pc EXCEPT ![t] = "scan"] /\ left' = [left EXCEPT ![t] = v]
  BY <1>1 DEF ReadLock, data, updater, history, SInv, Searching, ScanExact
<1>4. pc'[t] = "scan" /\ left'[t] = v
  BY <1>3 DEF SInv, SearchTypes
<1>5. snapshot' = [snapshot EXCEPT ![t] = Rows(v)]
  BY <1>4 DEF ReadLock
<1>6. Rows(v) \in Seq(Users) /\ snapshot'[t] = Rows(v)
  BY <1>2, <1>5, RowsProperties DEF IInv, SInv, SearchTypes
<1>7. SearchTypes'
  BY <1>2, <1>3, <1>5, <1>6 DEF SInv, SearchTypes
<1>8. ScanExact(t)'
  <2>1. Rows(v)' = Rows(v)
    BY <1>3, RowsUnchanged
  <2>2. Rows(left[t])' = Rows(v)' /\ Rows(Vector(users[t]))' = Rows(v)'
    BY <1>1, <1>3, <1>4
  <2>3. results'[t] = <<>> /\ <<>> \o Rows(v) = Rows(v)
    BY <1>3, <1>6, ConcatEmptySeq
  <2> QED
    BY <1>4, <1>6, <2>1, <2>2, <2>3 DEF ScanExact
<1>9. AtList(t)'
  BY <1>3, <1>4 DEF AtList
<1>10. \A i \in Slots : Steady(t, i)' => Gathered(t, i)'
  BY <1>3, GatheredStill
<1> QED
  BY <1>7, <1>8, <1>9, <1>10, SearchDone DEF SearchStep, Searching

(* ... scanning a slot, ...                                                *)
LEMMA ScanSlotSInv ==
  ASSUME IInv, SInv, NEW t \in Threads, ScanSlot(t)
  PROVE  SInv'
<1>1. PICK s : s = left[t]
  OBVIOUS
<1>2. PICK r : r = results[t]
  OBVIOUS
<1>3. s \in Seq(AnySlot) /\ s # <<>> /\ r \in Seq(Users) /\ pc[t] = "scan"
  BY <1>1, <1>2 DEF ScanSlot, SInv, SearchTypes
<1>4. Head(s) \in AnySlot /\ Tail(s) \in Seq(AnySlot)
  BY <1>3, HeadTailProperties
<1>5. UNCHANGED <<userlist, usermap, loclist, steps, count, pc, want, next, room, users,
                  overrun, snapshot, steady>>
  BY DEF ScanSlot, data, updater, history
<1>6. /\ results' = [results EXCEPT ![t] = Row(r, Head(s))]
      /\ left' = [left EXCEPT ![t] = Tail(s)]
  BY <1>1, <1>2 DEF ScanSlot
<1>7. PICK q : q = Row(r, Head(s))
  OBVIOUS
<1>8. q \in Seq(Users)
  BY <1>3, <1>4, <1>7, RowType DEF IInv, SInv
<1>9. results'[t] = q /\ left'[t] = Tail(s)
  BY <1>6, <1>7 DEF SInv, SearchTypes
<1>10. SearchTypes'
  BY <1>4, <1>5, <1>6, <1>7, <1>8 DEF SInv, SearchTypes
<1>11. ScanExact(t)'
  <2>1. PICK tl : tl = Tail(s)
    OBVIOUS
  <2>2. PICK v : v = Vector(users[t])
    OBVIOUS
  <2>3. Rows(tl)' = Rows(tl) /\ Rows(v)' = Rows(v)
    BY <1>5, RowsUnchanged
  <2>4. Rows(left[t])' = Rows(tl)' /\ Rows(Vector(users[t]))' = Rows(v)'
    BY <1>5, <1>9, <2>1, <2>2
  <2>5. r \o Rows(s) = snapshot[t] /\ snapshot[t] = Rows(v)
    BY <1>1, <1>2, <1>3, <2>2 DEF SInv, Searching, ScanExact
  <2>6. r \o Rows(s) = q \o Rows(tl)
    <3>1. r \o Rows(s) = Row(r, Head(s)) \o Rows(Tail(s))
      BY <1>3, RowsHead DEF IInv, SInv
    <3> QED
      BY <1>7, <2>1, <3>1, Zenon
  <2> QED
    BY <1>3, <1>5, <1>9, <2>3, <2>4, <2>5, <2>6 DEF ScanExact
<1>12. AtList(t)'
  BY <1>5 DEF AtList, SInv, Searching
<1>13. \A i \in Slots : Steady(t, i)' => Gathered(t, i)'
  BY <1>3, <1>5, GatheredStill
<1> QED
  BY <1>10, <1>11, <1>12, <1>13, SearchDone DEF SearchStep, Searching

(* ... and giving the answer keep what is known of a search.               *)
LEMMA FinishSInv ==
  ASSUME IInv, SInv, NEW t \in Threads, Finish(t)
  PROVE  SInv'
<1>1. pc' = [pc EXCEPT ![t] = "idle"] /\ pc'[t] = "idle"
  BY DEF Finish, SInv, SearchTypes
<1>2. SearchTypes'
  BY <1>1 DEF Finish, SInv, SearchTypes, updater, history
<1>3. Searching(t)'
  BY <1>1 DEF Searching, AtList, ScanExact, Steady
<1> QED
  BY <1>2, <1>3, SearchDone DEF SearchStep

(* No step of any thread spoils it.                                        *)
LEMMA NextSInv == IInv /\ SInv /\ [Next]_vars => SInv'
<1> SUFFICES ASSUME IInv, SInv, [Next]_vars PROVE SInv'
  OBVIOUS
<1>1. CASE BeginUpdate
  BY <1>1, UpdateSInv
<1>2. CASE ListStep \/ Unlock \/ UNCHANGED vars
  BY <1>2, ListStepSInv
<1>3. ASSUME NEW t \in Threads, SearchStep(t) PROVE SInv'
  BY <1>3, MeasureListSInv, UnionListSInv, ReadLockSInv, ScanSlotSInv, FinishSInv
     DEF SearchStep
<1>4. ASSUME NEW t \in Threads, NEW locs \in Wanted, Begin(t, locs) PROVE SInv'
  BY <1>4, BeginSInv
<1> QED
  BY <1>1, <1>2, <1>3, <1>4 DEF Next

(* So it holds at all times.                                               *)
LEMMA SearchInductive == Spec => [](IInv /\ SInv)
<1>1. Init => IInv /\ SInv
  BY InitIInv, InitSInv
<1>2. IInv /\ SInv /\ [Next]_vars => (IInv /\ SInv)'
  BY NextIInv, NextSInv
<1> QED
  BY <1>1, <1>2, PTL DEF Spec

-----------------------------------------------------------------------------
(* The maps, lists, stacks and searches always have their types; a slot    *)
(* has the null user iff it has no owner, and a search finds only userids  *)
(* (search.c:154-262, 600-777).                                            *)
THEOREM ConcurrentTypes == Spec => []TypeOK
<1>1. IInv /\ SInv => TypeOK
  BY DEF IInv, SInv, DataTypes, SearchTypes, NullSlots, TypeOK, AnySlot, StepItem
<1> QED
  BY <1>1, SearchInductive, PTL

(* The rows of a scan are those of one instant, the moment it took the     *)
(* lock for reading: no update comes between its turns (search.c:662-688). *)
THEOREM ScansAreSnapshots == Spec => []ScanIsSnapshot
<1>1. SInv => ScanIsSnapshot
  BY DEF SInv, Searching, ScanExact, ScanIsSnapshot
<1> QED
  BY <1>1, SearchInductive, PTL

(* A user no update touches while a search runs is found if and only if it *)
(* matches, whatever updates of other users do meanwhile to the very lists *)
(* the search collects, unless a union overran its vector                  *)
(* (search.c:206-229, 620-688, usersetbase.h:205-236).                     *)
THEOREM SteadyUsersExact == Spec => []SteadyExact
<1>1. IInv /\ SInv => SteadyExact
  <2> SUFFICES ASSUME IInv, SInv, NEW t \in Threads, Done(t), NEW id \in steady[t]
               PROVE  /\ id \in ToSet(results[t]) => Matches(t, id)
                      /\ Matches(t, id) /\ ~overrun[t] => id \in ToSet(results[t])
    BY DEF SteadyExact
  <2> USE SlotsFinite
  <2>1. PICK v : v = Vector(users[t])
    OBVIOUS
  <2>2. v \in Seq(AnySlot) /\ ToSet(v) = users[t]
    <3>1. v \in Seq(users[t]) /\ users[t] \subseteq AnySlot /\ ToSet(v) = users[t]
      BY <2>1, SlotsOfThread, VectorProperties
    <3> QED
      BY <3>1, SeqMonotonic
  <2>3. results[t] = Rows(v)
    <3>1. pc[t] = "scan" /\ left[t] = <<>> /\ results[t] \in Seq(Users)
      BY DEF Done, SInv, SearchTypes
    <3>2. results[t] \o Rows(left[t]) = Rows(v)
      BY <2>1, <3>1 DEF SInv, Searching, ScanExact
    <3>3. Rows(<<>>) = <<>>
      BY EmptySeq, RowsProperties DEF IInv, SInv
    <3>4. results[t] \o <<>> = results[t]
      BY <3>1, ConcatEmptySeq
    <3> QED
      BY <3>1, <3>2, <3>3, <3>4
  <2>4. id \in ToSet(results[t]) <=> \E i \in users[t] : userlist[i].ok /\ usermap[i] = id
    BY <2>2, <2>3, RowsProperties DEF IInv, SInv
  <2>5. \A i \in users[t] : userlist[i].ok => i \in Slots
    BY <2>2, RowType, SlotsOfThread DEF IInv, SInv
  <2>6. pc[t] = "scan" /\ id \in Users /\ id # 0
    BY DEF Done, SInv, SearchTypes
  <2>7. \A i \in Slots : usermap[i] = id => Gathered(t, i)
    BY <2>6 DEF SInv, Searching, Steady
  <2>8. \A i \in Slots : usermap[i] = id =>
          \A l : Belongs(l, i) <=> l \in ToSet(LocPath[userlist[i].loc])
    BY <2>6 DEF Belongs
  <2>9. ASSUME id \in ToSet(results[t])
        PROVE  Matches(t, id)
    <3>1. PICK i \in Slots : i \in users[t] /\ userlist[i].ok /\ usermap[i] = id
      BY <2>4, <2>5, <2>9
    <3>2. PICK j \in DOMAIN want[t] : Belongs(want[t][j], i)
      BY <2>7, <3>1 DEF Gathered
    <3>3. want[t][j] \in ToSet(LocPath[userlist[i].loc]) /\ want[t][j] \in ToSet(want[t])
      BY <2>8, <3>1, <3>2 DEF ToSet
    <3> QED
      BY <3>1, <3>3 DEF Matches, Wants
  <2>10. ASSUME Matches(t, id), ~overrun[t]
         PROVE  id \in ToSet(results[t])
    <3>1. PICK i \in Slots : /\ usermap[i] = id /\ userlist[i].ok
                             /\ ToSet(LocPath[userlist[i].loc]) \cap ToSet(want[t]) # {}
      BY <2>10 DEF Matches, Wants
    <3>2. PICK j \in DOMAIN want[t] : want[t][j] \in ToSet(LocPath[userlist[i].loc])
      BY <3>1 DEF ToSet
    <3>3. j < next[t]
      <4>1. next[t] \notin DOMAIN want[t] /\ next[t] \in Nat \ {0}
            /\ want[t] \in Seq(Locations)
        BY <2>6 DEF SInv, Searching, AtList, SearchTypes
      <4>2. DOMAIN want[t] = 1..Len(want[t]) /\ Len(want[t]) \in Nat
        BY <4>1, LenProperties
      <4> QED
        BY <4>1, <4>2
    <3>4. i \in users[t]
      BY <2>7, <2>8, <2>10, <3>1, <3>2, <3>3 DEF Gathered
    <3> QED
      BY <2>4, <3>1, <3>4
  <2> QED
    BY <2>9, <2>10
<1> QED
  BY <1>1, SearchInductive, PTL
=============================================================================
