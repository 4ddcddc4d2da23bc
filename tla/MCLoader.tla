------------------------------ MODULE MCLoader -------------------------------
(* A small instance of Loader, on that of SearchData. *)
EXTENDS Loader, MCSearchData

(* In any order; the second row for 3 is wrong unless it is read first. *)
MCLocationRows == {<<1, 0>>, <<2, 1>>, <<3, 2>>, <<3, 1>>, <<4, 0>>}

(* An age of 270 is stored as 14. *)
MCRow(loc, age) == [MCUser(loc, age) EXCEPT !["sex"] = 2, !["pic"] = 4]
MCUserRows == {MCRow(3, 270), MCRow(4, 60)}
=============================================================================
