----------------------------- MODULE UserStruct ------------------------------
(***************************************************************************)
(* struct user_t: seven unsigned bit fields.  Assigning a wider value to a *)
(* field keeps its low bits, as the assignments of updateUser and of the   *)
(* request handlers do.                                                    *)
(***************************************************************************)
EXTENDS Naturals

Fields == {"loc", "age", "sex", "active", "pic", "single", "sexuality"}

(* One more than the largest value a field holds. *)
FieldSize ==
  [f \in Fields |-> CASE f = "loc" -> 65536
                      [] f = "age" -> 256
                      [] f \in {"sex", "single"} -> 2
                      [] f \in {"active", "pic", "sexuality"} -> 4]

User == {u \in [Fields -> Nat] : \A f \in Fields : u[f] < FieldSize[f]}

(* user_t(): what an empty slot holds. *)
NullUser == [f \in Fields |-> 0]

(* Mutant of SetField: the mask is off by one. *)
SetFieldOffByOne(user, f, val) == [user EXCEPT ![f] = val % (FieldSize[f] + 1)]

SetField(user, f, val) == [user EXCEPT ![f] = val % FieldSize[f]]
=============================================================================
