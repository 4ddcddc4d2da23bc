---------------------------- MODULE MCSearchData ----------------------------
(* Small instances of SearchData for TLC. *)
EXTENDS SearchData, TLC

(* A country, a province and two cities: 1 <- 2 <- 3, and a root of its own, 4. *)
MCLocations == 0..4
MCLocationtree == (0 :> 0) @@ (1 :> 0) @@ (2 :> 1) @@ (3 :> 2) @@ (4 :> 0)

MCUser(loc, age) == [NullUser EXCEPT !["loc"] = loc, !["age"] = age]
MCNewUsers == {MCUser(3, 14), MCUser(4, 60)}

(* Age 256 is stored as 0, and location 65538 as 2. *)
MCChanges == {<<"loc", 65538>>, <<"age", 256>>}
=============================================================================
