-------------------------- MODULE ConcurrentSearch --------------------------
(***************************************************************************)
(* Search threads and the update thread on the same search_data.  The      *)
(* update thread holds rwlock for writing through a whole update and       *)
(* changes the location lists one by one inside it.  searchUsers takes     *)
(* rwlock for reading only around the scan: it collects the slots from the *)
(* lists before that, one list after the other, each under the list's own  *)
(* lock at best.  So a search may see an update half done, and scan slots  *)
(* that have changed hands since.                                          *)
(*                                                                         *)
(* A user is reduced to a location and to whether the other criteria of    *)
(* the searches (age, sex, ...) accept it; they do not accept the null     *)
(* user.  Searches here ask for locations; interests take the same path.   *)
(***************************************************************************)
EXTENDS SortedVector, Sequences, SequencesExt

CONSTANTS
  Users,       \* userids, not 0
  Locations,   \* location ids, not 0
  LocPath,     \* location -> itself and what is above it, in that order
  Threads,     \* search threads
  Wanted,      \* the lists of locations searches ask for
  MaxUpdates   \* bound: updates after loading

NullUser == [loc |-> 0, ok |-> FALSE]
Structs == [loc : Locations, ok : BOOLEAN]
Slots == 1..Cardinality(Users)

ASSUME ConcurrentAssumption ==
  /\ IsFiniteSet(Users) /\ Users \subseteq Nat \ {0}
  /\ Locations \subseteq Nat \ {0}
  /\ LocPath \in [Locations -> Seq(Locations)]
  /\ Wanted \subseteq Seq(Locations)
  /\ MaxUpdates \in Nat

VARIABLES
  userlist,    \* slot -> struct, 0 for the null user
  usermap,     \* slot -> userid, 0 if none
  deluserlist, \* the stack of empty slots
  loclist,     \* location -> slots
  writing,     \* the update thread holds rwlock
  steps,       \* what it still has to do to the lists: <<"set" or "unset", location, slot>>
  count,       \* updates so far
  pc,          \* thread -> where searchUsers is
  want,        \* thread -> the locations asked for
  next,        \* thread -> the position in want of the list it is at
  room,        \* thread -> the size of the vector for the union
  users,       \* thread -> the slots collected
  left,        \* thread -> the slots still to scan, in order
  results,     \* thread -> the userids found
  overrun,     \* thread -> its union has written past that vector
  snapshot,    \* thread -> what a scan in one instant, at the rdlock, finds
  matched,     \* thread -> the users that matched at some time of the search
  settled,     \* thread -> those that matched all the time
  steady       \* thread -> the users no update touched during the search

data == <<userlist, usermap, deluserlist, loclist>>
updater == <<writing, steps, count>>
search == <<pc, want, next, room, users, left, results, overrun, snapshot>>
history == <<matched, settled, steady>>
vars == <<data, updater, search, history>>

-----------------------------------------------------------------------------
SlotOf(id) == CHOOSE i \in Slots : usermap[i] = id
Live(id) == \E i \in Slots : usermap[i] = id
Set(l, i) == [n \in DOMAIN LocPath[l] |-> <<"set", LocPath[l][n], i>>]
Unset(l, i) == [n \in DOMAIN LocPath[l] |-> <<"unset", LocPath[l][n], i>>]

(* Whether the user that slot i has, if any, is what a search is for. *)
Wants(locs, list, map, id) ==
  \E i \in Slots :
    /\ map[i] = id /\ list[i].ok
    /\ ToSet(LocPath[list[i].loc]) \cap ToSet(locs) # {}

(* What loading leaves: some users, in any order, in the first slots. *)
Loaded(us) ==
  /\ usermap = [i \in Slots |-> IF i <= Len(us) THEN us[i][1] ELSE 0]
  /\ userlist = [i \in Slots \cup {0} |-> IF i \in DOMAIN us THEN us[i][2] ELSE NullUser]
  /\ loclist = [l \in Locations |->
                  {i \in DOMAIN us : l \in ToSet(LocPath[us[i][2].loc])}]

Init ==
  /\ \E n \in 0..Cardinality(Users) : \E us \in [1..n -> Users \X Structs] :
       /\ \A i, j \in 1..n : us[i][1] = us[j][1] => i = j
       /\ Loaded(us)
  /\ deluserlist = <<>>
  /\ writing = FALSE /\ steps = <<>> /\ count = 0
  /\ pc = [t \in Threads |-> "idle"]
  /\ want = [t \in Threads |-> <<>>] /\ next = [t \in Threads |-> 1]
  /\ room = [t \in Threads |-> 0]
  /\ users = [t \in Threads |-> {}] /\ left = [t \in Threads |-> <<>>]
  /\ results = [t \in Threads |-> <<>>]
  /\ overrun = [t \in Threads |-> FALSE]
  /\ snapshot = [t \in Threads |-> <<>>]
  /\ matched = [t \in Threads |-> {}] /\ settled = [t \in Threads |-> {}]
  /\ steady = [t \in Threads |-> {}]

-----------------------------------------------------------------------------
(* The update thread.  Nobody reads the maps and the structs without       *)
(* rwlock here, so all changes to them are one step, with the wrlock; the  *)
(* changes to the lists follow one by one, in the code's order.            *)

CanWriteAlways == ~writing  \* mutant of CanWrite: readers do not keep a writer out
CanWrite == ~writing /\ \A t \in Threads : pc[t] # "scan"

(* Bookkeeping of the history variables for an update of user id. *)
Observe(id) ==
  /\ steady' = [t \in Threads |-> steady[t] \ {id}]
  /\ matched' = [t \in Threads |-> matched[t] \cup
                  {u \in Users : Wants(want[t], userlist', usermap', u)}]
  /\ settled' = [t \in Threads |->
                  {u \in settled[t] : Wants(want[t], userlist', usermap', u)}]

StartUpdate(id) ==
  /\ CanWrite
  /\ count < MaxUpdates /\ count' = count + 1
  /\ writing' = TRUE
  /\ UNCHANGED <<loclist, search>>
  /\ Observe(id)

(* setUser of a userid that exists. *)
ReplaceUser(id, user) ==
  /\ Live(id)
  /\ LET i == SlotOf(id)
         old == userlist[i].loc
     IN /\ userlist' = [userlist EXCEPT ![i] = user]
        /\ steps' = IF old = user.loc THEN <<>> ELSE Unset(old, i) \o Set(user.loc, i)
  /\ UNCHANGED <<usermap, deluserlist>>
  /\ StartUpdate(id)

(* Mutant of AddUser: usermap keeps the 0 of the slot's last owner. *)
AddUserUnnamed(id, user) ==
  /\ ~Live(id) /\ deluserlist # <<>>
  /\ LET i == Last(deluserlist) IN
       userlist' = [userlist EXCEPT ![i] = user] /\ steps' = Set(user.loc, i)
  /\ deluserlist' = Front(deluserlist)
  /\ UNCHANGED usermap
  /\ StartUpdate(id)

(* setUser of a new userid: the slot of a deleted user, or else a new one. *)
AddUser(id, user) ==
  /\ ~Live(id)
  /\ \E i \in Slots :
       /\ IF deluserlist # <<>> THEN i = Last(deluserlist) /\ deluserlist' = Front(deluserlist)
          ELSE /\ i = Cardinality({j \in Slots : usermap[j] # 0}) + 1
               /\ UNCHANGED deluserlist
       /\ userlist' = [userlist EXCEPT ![i] = user]
       /\ usermap' = [usermap EXCEPT ![i] = id]
       /\ steps' = Set(user.loc, i)
  /\ StartUpdate(id)

(* updateUser, UF_LOC: off every list and on again, the same ones or not.  *)
MoveUser(id, loc) ==
  /\ Live(id)
  /\ LET i == SlotOf(id) IN
       /\ steps' = Unset(userlist[i].loc, i) \o Set(loc, i)
       /\ userlist' = [userlist EXCEPT ![i].loc = loc]
  /\ UNCHANGED <<usermap, deluserlist>>
  /\ StartUpdate(id)

(* updateUser of another field. *)
ChangeUser(id, ok) ==
  /\ Live(id)
  /\ userlist' = [userlist EXCEPT ![SlotOf(id)].ok = ok]
  /\ steps' = <<>>
  /\ UNCHANGED <<usermap, deluserlist>>
  /\ StartUpdate(id)

(* delUser. *)
DeleteUser(id) ==
  /\ Live(id)
  /\ LET i == SlotOf(id) IN
       /\ steps' = Unset(userlist[i].loc, i)
       /\ userlist' = [userlist EXCEPT ![i] = NullUser]
       /\ usermap' = [usermap EXCEPT ![i] = 0]
       /\ deluserlist' = Append(deluserlist, i)
  /\ StartUpdate(id)

(* Mutant of ListStep: taking a slot off a list empties the list. *)
ListStepClears ==
  /\ writing /\ steps # <<>>
  /\ loclist' = [loclist EXCEPT ![Head(steps)[2]] =
       IF Head(steps)[1] = "set" THEN @ \cup {Head(steps)[3]} ELSE {}]
  /\ steps' = Tail(steps)
  /\ UNCHANGED <<userlist, usermap, deluserlist, writing, count, search, history>>

(* One turn of the loop of setLoc or unsetLoc. *)
ListStep ==
  /\ writing /\ steps # <<>>
  /\ loclist' = [loclist EXCEPT ![Head(steps)[2]] =
       IF Head(steps)[1] = "set" THEN @ \cup {Head(steps)[3]} ELSE @ \ {Head(steps)[3]}]
  /\ steps' = Tail(steps)
  /\ UNCHANGED <<userlist, usermap, deluserlist, writing, count, search, history>>

(* Mutant of Unlock: deleting the last user returns with the lock held. *)
UnlockAfterLists ==
  /\ writing /\ steps = <<>> /\ \E i \in Slots : usermap[i] # 0
  /\ writing' = FALSE
  /\ UNCHANGED <<data, steps, count, search, history>>

Unlock ==
  /\ writing /\ steps = <<>>
  /\ writing' = FALSE
  /\ UNCHANGED <<data, steps, count, search, history>>

BeginUpdate ==
  \E id \in Users :
    \/ \E user \in Structs : ReplaceUser(id, user) \/ AddUser(id, user)
    \/ \E loc \in Locations : MoveUser(id, loc)
    \/ \E ok \in BOOLEAN : ChangeUser(id, ok)
    \/ DeleteUser(id)

-----------------------------------------------------------------------------
(* searchUsers, in thread t. *)

(* Not during an update: a search that begins then has read nothing that  *)
(* one begun just before has not, and history starts from settled lists.   *)
Begin(t, locs) ==
  /\ pc[t] = "idle" /\ ~writing
  /\ pc' = [pc EXCEPT ![t] = "gather"]
  /\ want' = [want EXCEPT ![t] = locs] /\ next' = [next EXCEPT ![t] = 1]
  /\ users' = [users EXCEPT ![t] = {}]
  /\ results' = [results EXCEPT ![t] = <<>>]
  /\ overrun' = [overrun EXCEPT ![t] = FALSE]
  /\ LET now == {u \in Users : Wants(locs, userlist, usermap, u)} IN
       matched' = [matched EXCEPT ![t] = now] /\ settled' = [settled EXCEPT ![t] = now]
  /\ steady' = [steady EXCEPT ![t] = Users]
  /\ UNCHANGED <<data, updater, room, left, snapshot>>

ListAt(t) == loclist[want[t][next[t]]]

(* combine(false, other): the sizes are read and the vector for the union  *)
(* is made before the list is locked; nothing to do if both are empty.     *)
MeasureList(t) ==
  /\ pc[t] = "gather" /\ next[t] \in DOMAIN want[t]
  /\ LET size == Cardinality(users[t]) + Cardinality(ListAt(t)) IN
     IF size = 0
     THEN next' = [next EXCEPT ![t] = @ + 1] /\ UNCHANGED <<pc, room>>
     ELSE /\ room' = [room EXCEPT ![t] = size]
          /\ pc' = [pc EXCEPT ![t] = "union"]
          /\ UNCHANGED next
  /\ UNCHANGED <<data, updater, want, users, left, results, overrun, snapshot, history>>

(* Mutant of UnionList: the set collected is replaced. *)
CopyList(t) ==
  /\ pc[t] = "union"
  /\ users' = [users EXCEPT ![t] = ListAt(t)]
  /\ next' = [next EXCEPT ![t] = @ + 1]
  /\ pc' = [pc EXCEPT ![t] = "gather"]
  /\ UNCHANGED <<data, updater, want, room, left, results, overrun, snapshot, history>>

(* set_union under the list's lock, and the swap.  If the list has grown   *)
(* it may write past the vector.  When that does not kill the process, the *)
(* resize that follows copies what was in bounds, all but the last, and    *)
(* appends zeros.                                                          *)
UnionList(t) ==
  /\ pc[t] = "union"
  /\ LET both == users[t] \cup ListAt(t)
     IN IF Cardinality(both) <= room[t]
        THEN users' = [users EXCEPT ![t] = both] /\ UNCHANGED overrun
        ELSE /\ users' = [users EXCEPT ![t] = ToSet(SubSeq(Vector(both), 1, room[t])) \cup {0}]
             /\ overrun' = [overrun EXCEPT ![t] = TRUE]
  /\ next' = [next EXCEPT ![t] = @ + 1]
  /\ pc' = [pc EXCEPT ![t] = "gather"]
  /\ UNCHANGED <<data, updater, want, room, left, results, snapshot, history>>

(* The userids of the slots of order that the other criteria accept. *)
Row(rows, i) == IF userlist[i].ok THEN Append(rows, usermap[i]) ELSE rows
Rows(order) == FoldLeft(Row, <<>>, order)

(* The rdlock. *)
ReadLock(t) ==
  /\ pc[t] = "gather" /\ next[t] \notin DOMAIN want[t]
  /\ ~writing
  /\ pc' = [pc EXCEPT ![t] = "scan"]
  /\ left' = [left EXCEPT ![t] = Vector(users[t])]
  /\ snapshot' = [snapshot EXCEPT ![t] = Rows(left'[t])]
  /\ UNCHANGED <<data, updater, want, next, room, users, results, overrun, history>>

(* One turn of scanList. *)
ScanSlot(t) ==
  /\ pc[t] = "scan" /\ left[t] # <<>>
  /\ LET i == Head(left[t]) IN
       results' = [results EXCEPT ![t] = Row(@, i)]
  /\ left' = [left EXCEPT ![t] = Tail(@)]
  /\ UNCHANGED <<data, updater, pc, want, next, room, users, overrun, snapshot, history>>

(* The unlock, and the return. *)
Finish(t) ==
  /\ pc[t] = "scan" /\ left[t] = <<>>
  /\ pc' = [pc EXCEPT ![t] = "idle"]
  /\ UNCHANGED <<data, updater, want, next, room, users, left, results, overrun, snapshot,
                 history>>

SearchStep(t) == MeasureList(t) \/ UnionList(t) \/ ReadLock(t) \/ ScanSlot(t) \/ Finish(t)

Next ==
  \/ BeginUpdate \/ ListStep \/ Unlock
  \/ \E t \in Threads : SearchStep(t) \/ \E locs \in Wanted : Begin(t, locs)

Spec == Init /\ [][Next]_vars

(* Both threads go on; the update thread may wait for the lock for ever,   *)
(* for nothing here keeps readers from taking turns at it.                 *)
Fairness ==
  /\ WF_vars(ListStep \/ Unlock)
  /\ \A t \in Threads : WF_vars(SearchStep(t))

FairSpec == Spec /\ Fairness

-----------------------------------------------------------------------------
TypeOK ==
  /\ userlist \in [Slots \cup {0} -> Structs \cup {NullUser}]
  /\ usermap \in [Slots -> Users \cup {0}]
  /\ \A i \in Slots : usermap[i] = 0 <=> userlist[i] = NullUser
  /\ deluserlist \in Seq(Slots)
  /\ loclist \in [Locations -> SUBSET Slots]
  /\ writing \in BOOLEAN /\ steps \in Seq({"set", "unset"} \X Locations \X Slots)
  /\ steps # <<>> => writing
  /\ count \in 0..MaxUpdates
  /\ pc \in [Threads -> {"idle", "gather", "union", "scan"}]
  /\ users \in [Threads -> SUBSET (Slots \cup {0})]
  /\ results \in [Threads -> Seq(Users)]

(* "location -> list of userids of this location and all sub locations"    *)
(* (search.h:164), whenever no update is under way.                        *)
ListsSettle ==
  ~writing => \A l \in Locations :
    loclist[l] = {i \in Slots : usermap[i] # 0 /\ l \in ToSet(LocPath[userlist[i].loc])}

(* Although a scan takes many steps, its rows are those of one instant: no *)
(* update comes between, thanks to rwlock.                                 *)
ScanIsSnapshot ==
  \A t \in Threads : pc[t] = "scan" => results[t] \o Rows(left[t]) = snapshot[t]

Done(t) == pc[t] = "scan" /\ left[t] = <<>>
Matches(t, id) == Wants(want[t], userlist, usermap, id)

(* Updates of other users, half done or to come, do not hide a user from a *)
(* search or show one that does not match, even though they change the     *)
(* very lists the search goes through.                                     *)
SteadyExact ==
  \A t \in Threads : Done(t) =>
    \A id \in steady[t] :
      /\ id \in ToSet(results[t]) => Matches(t, id)
      /\ Matches(t, id) /\ ~overrun[t] => id \in ToSet(results[t])

(* A search comes to its end: the update thread lets go of the lock. *)
SearchEnds == \A t \in Threads : pc[t] # "idle" ~> pc[t] = "idle"

(* "array of userids that match" (search.h:142): each user found matched   *)
(* the search at some time while it ran.                                   *)
RowsMatched == \A t \in Threads : Done(t) => ToSet(results[t]) \subseteq matched[t]

(* A user that matched all the time is found, whatever it changed.         *)
SettledFound ==
  \A t \in Threads : Done(t) /\ ~overrun[t] => settled[t] \subseteq ToSet(results[t])

=============================================================================
