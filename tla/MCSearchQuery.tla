---------------------------- MODULE MCSearchQuery ---------------------------
(* A small instance of SearchQuery for TLC. *)
EXTENDS SearchQuery

(* 2 lies in 1. *)
MCLocations == 0..2
MCLocationtree == (0 :> 0) @@ (1 :> 0) @@ (2 :> 1)

MCUser(loc, age, sex) == [NullUser EXCEPT !["loc"] = loc, !["age"] = age, !["sex"] = sex]
MCNewUsers == {MCUser(2, 20, 0), MCUser(1, 30, 1)}
MCChanges == {<<"loc", 0>>, <<"age", 14>>}

AnyUser ==
  [agemin |-> 14, agemax |-> 60, sex |-> 2, active |-> 0, pic |-> 0, single |-> 0,
   sexuality |-> 0, locs |-> <<>>, interests |-> <<>>, socials |-> <<>>,
   allinterests |-> FALSE, bday |-> FALSE, quick |-> FALSE, random |-> FALSE,
   rowcount |-> 25, offset |-> 0]

(* Each list alone and in company, defined and undefined ids. *)
Criteria ==
  {[AnyUser EXCEPT !.agemin = a] : a \in {0, 14, 20}}
  \cup {[AnyUser EXCEPT !.sex = s] : s \in {0, 1}}
  \cup {[AnyUser EXCEPT !.locs = l, !.interests = k, !.bday = b] :
          l \in {<<>>, <<1>>, <<2, 1>>, <<5>>}, k \in {<<>>, <<1>>, <<0, 1>>},
          b \in BOOLEAN}
  \cup {[AnyUser EXCEPT !.interests = k, !.allinterests = TRUE] :
          k \in {<<0>>, <<1>>, <<0, 1>>}}
  \cup {[AnyUser EXCEPT !.socials = <<1>>]}

(* handle_request_search turns random into quick, first row, one row. *)
OneRandom(q) == [q EXCEPT !.random = TRUE, !.quick = TRUE, !.rowcount = 1]

MCPages ==
  {[q EXCEPT !.quick = k, !.rowcount = n, !.offset = o] :
     q \in {AnyUser, [AnyUser EXCEPT !.locs = <<1>>]},
     k \in BOOLEAN, n \in 0..2, o \in 0..3}
  \cup {OneRandom([AnyUser EXCEPT !.agemin = a, !.locs = l, !.bday = b]) :
          a \in {14, 30}, l \in {<<>>, <<1>>}, b \in BOOLEAN}

MCQueries == Criteria \cup MCPages
=============================================================================
