---------------------------- MODULE UserDirectory ----------------------------
(***************************************************************************)
(* What class search_data promises of its users, with none of its          *)
(* machinery: a dictionary from userids to user structs.  setUser stores a *)
(* struct, updateUser overwrites one field of a user that exists, delUser  *)
(* forgets a user, and no other user's struct is ever touched.  SearchData *)
(* implements it with slots, two lookup vectors and a free list.           *)
(***************************************************************************)
EXTENDS UserStruct

CONSTANTS
  UserIds,   \* the userids requests speak of
  NewUsers,  \* the structs setUser is given
  Changes,   \* the pairs <<field, value>> updateUser assigns
  NoUser     \* marks a userid that has no user

VARIABLE users

Init == users = [id \in UserIds |-> NoUser]

Set(id, user) == users' = [users EXCEPT ![id] = user]

Update(id, f, val) ==
  /\ users[id] # NoUser
  /\ users' = [users EXCEPT ![id] = SetField(@, f, val)]

Remove(id) ==
  /\ users[id] # NoUser
  /\ users' = [users EXCEPT ![id] = NoUser]

Next ==
  \E id \in UserIds :
    \/ \E user \in NewUsers : Set(id, user)
    \/ \E c \in Changes : Update(id, c[1], c[2])
    \/ Remove(id)

Spec == Init /\ [][Next]_users
=============================================================================
