---------------------------- MODULE SortedVector -----------------------------
(***************************************************************************)
(* The vector behind a userset (usersetbase.h): its slots in ascending     *)
(* order, each once.  addUser inserts at the lower bound, deleteUser       *)
(* erases there, and the set operations merge, so the vector is a function *)
(* of the set of slots in it.                                              *)
(***************************************************************************)
EXTENDS Naturals, FiniteSets

(* The element that has rank smaller ones below it. *)
Ranked(S, rank) == CHOOSE x \in S : Cardinality({y \in S : y < x}) = rank

Vector(S) == [i \in 1..Cardinality(S) |-> Ranked(S, i - 1)]
=============================================================================
