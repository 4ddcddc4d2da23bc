------------------------------- MODULE Loader --------------------------------
(***************************************************************************)
(* search_data::loaddata and what follows it: main fills search_data from  *)
(* three files, read one after the other and row by row, or with random    *)
(* users, before any thread runs; then the daemon serves requests.  A row  *)
(* that cannot be read ends the process.  Which rows the files hold is     *)
(* left open, save that they describe the locationtree of SearchData.      *)
(***************************************************************************)
EXTENDS SearchData

CONSTANTS
  LocationRows,  \* the rows <<id, parent>> of the file of locations
  UserRows       \* the values of rows of the file of users, before they are stored

(* The assignments of loadusers keep the low bits of every field. *)
Stored(row) == [f \in Fields |-> row[f] % FieldSize[f]]

ASSUME RowsAssumption ==
  /\ LocationRows \subseteq Locations \X Locations
  /\ UserRows \subseteq [Fields -> Nat]
  /\ \A row \in UserRows : Stored(row) \in NewUsers

VARIABLES
  phase,        \* what is being read, then "serving", or "exited"
  tree,         \* locationtree as it grows, a vector from location 0 on
  interestrows  \* history: the interest rows read, until the daemon serves

loadervars == <<vars, phase, tree, interestrows>>

LoaderInit ==
  /\ Init
  /\ phase = "start" /\ tree = <<>> /\ interestrows = {}

(* A phase is over, and no user has changed. *)
Proceed(from, to) ==
  /\ phase = from /\ phase' = to
  /\ UNCHANGED vars

-----------------------------------------------------------------------------
(* loaddata with a directory or URL.  With no name (-l as last argument,   *)
(* usersearch.c:600) it looks at datasource, which nothing has initialised:*)
(* main returns if it is null, and what else it may be kills the process   *)
(* or, by chance, names files or random users: StartFiles, StartRandom.    *)
StartFiles == Proceed("start", "locations") /\ UNCHANGED <<tree, interestrows>>
NoSource == Proceed("start", "exited") /\ UNCHANGED <<tree, interestrows>>

(* A file is missing, its signature is wrong, or a row has too few values: *)
(* exit(1).                                                                *)
Reject ==
  /\ phase \in {"locations", "users", "interests"} /\ phase' = "exited"
  /\ UNCHANGED <<vars, tree, interestrows>>

(* The loop of loadlocations: room for id, 0s before it, then its parent.  *)
LocationRow(id, parent) ==
  LET size == IF id < Len(tree) THEN Len(tree) ELSE id + 1 IN
  /\ phase = "locations"
  /\ tree' = [n \in 1..size |-> IF n = id + 1 THEN parent
                                ELSE IF n \in DOMAIN tree THEN tree[n] ELSE 0]
  /\ UNCHANGED <<vars, phase, interestrows>>

(* The end of the file.  Bound: one that describes locationtree. *)
LocationsEnd ==
  /\ \A l \in Locations : l + 1 \in DOMAIN tree /\ At(tree, l) = locationtree[l]
  /\ Proceed("locations", "users")
  /\ UNCHANGED <<tree, interestrows>>

(* The loop of loadusers; a userid may come twice. *)
UserRow(id, row) ==
  /\ phase = "users"
  /\ setUser(id, Stored(row))
  /\ UNCHANGED <<phase, tree, interestrows>>

UsersEnd == Proceed("users", "interests") /\ UNCHANGED <<tree, interestrows>>

(* Mutant of LoadInterest: the user is not looked for, and 0 is added. *)
LoadInterestOfAny(id, k) ==
  LET lists == Grown(interestlist, k) IN
  /\ interestlist' = Put(lists, k, At(lists, k) \cup {Slot(id)})
  /\ UNCHANGED <<userlist, usermap, useridmap, deluserlist, loclist, bday, bdayStorage, crashed>>

(* setInterest does nothing for a userid that has no user. *)
LoadInterest(id, k) == setInterest(id, k) \/ (~Exists(id) /\ UNCHANGED vars)

(* The loop of loadinterests. *)
InterestRow(id, k) ==
  /\ phase = "interests"
  /\ LoadInterest(id, k)
  /\ interestrows' = interestrows \cup {<<id, k>>}
  /\ UNCHANGED <<phase, tree>>

InterestsEnd == Proceed("interests", "serving") /\ interestrows' = {} /\ UNCHANGED tree

-----------------------------------------------------------------------------
(* loaddata with "rand:": a random tree in which parents come first.       *)
StartRandom ==
  /\ \A l \in Locations \ {0} : locationtree[l] < l
  /\ Proceed("start", "random")
  /\ tree' = [n \in 1..Cardinality(Locations) |-> locationtree[n - 1]]
  /\ UNCHANGED interestrows

(* fillRandom: users 1, 2, ... in the slots of these numbers, each         *)
(* followed by any number of interests.                                    *)
RandomUser(id, user) ==
  /\ phase = "random"
  /\ id = Len(userlist)
  /\ setUser(id, user)
  /\ UNCHANGED <<phase, tree, interestrows>>

RandomInterest(id, k) ==
  /\ phase = "random"
  /\ id = Len(userlist) - 1
  /\ setInterest(id, k)
  /\ interestrows' = interestrows \cup {<<id, k>>}
  /\ UNCHANGED <<phase, tree>>

RandomEnd == Proceed("random", "serving") /\ interestrows' = {} /\ UNCHANGED tree

(* The threads run. *)
Serve == phase = "serving" /\ Next /\ UNCHANGED <<phase, tree, interestrows>>

Load ==
  \/ StartFiles \/ NoSource \/ Reject
  \/ \E row \in LocationRows : LocationRow(row[1], row[2])
  \/ LocationsEnd
  \/ \E id \in UserIds, row \in UserRows : UserRow(id, row)
  \/ UsersEnd
  \/ \E id \in UserIds, k \in Interests : InterestRow(id, k)
  \/ InterestsEnd
  \/ StartRandom
  \/ \E id \in UserIds, user \in NewUsers : RandomUser(id, user)
  \/ \E id \in UserIds, k \in Interests : RandomInterest(id, k)
  \/ RandomEnd

LoaderNext == Load \/ Serve

LoaderSpec == LoaderInit /\ [][LoaderNext]_loadervars

-----------------------------------------------------------------------------
(* While the daemon loads, the interest lists are what the rows say of the *)
(* users loaded before: a row for a userid that has no user leaves no      *)
(* trace, not even the null slot, a userid given twice keeps its slot, and *)
(* no slot is free or unused.                                              *)
LoadedAsWritten ==
  phase \in {"users", "interests", "random"} =>
    /\ \A k \in DOMAIN interestlist :
         interestlist[k] = {Slot(id) : id \in {i \in UserIds : Exists(i) /\ <<i, k - 1>> \in interestrows}}
    /\ LiveSlots = Slots
=============================================================================
