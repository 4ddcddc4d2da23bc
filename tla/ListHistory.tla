---------------------------- MODULE ListHistory -----------------------------
(***************************************************************************)
(* SearchData with a memory of what its callers asked for: which interests *)
(* and birthdays users have been given, read off the calls and never off   *)
(* the lists.  Two things the code does to the lists set them apart from   *)
(* that, and each is recorded where it happens: a user takes over a slot   *)
(* that delUser has left on lists of interests, and a deleteUser that does *)
(* not find its slot erases the end of a list, somebody else's entry.      *)
(***************************************************************************)
EXTENDS SearchData

VARIABLES
  given,   \* the pairs <<userid, list>> that were added and not taken back
  heirs,   \* the pairs a userid has from an earlier owner of its slot
  erased   \* the pairs the removal of another slot has erased

history == <<given, heirs, erased>>
histvars == <<vars, history>>

(* The lists by number: the birthday list is 0, that of interest k is k + 1.*)
Listed(n) ==
  IF n = 0 THEN bday
  ELSE IF n \in DOMAIN interestlist THEN interestlist[n] ELSE {}

(* What deleting slot i from S can erase in its stead (DeleteOutcomes). *)
AtEnd(S, i) ==
  IF i \in S \/ \E x \in S : x > i THEN {} ELSE {x \in S : \A y \in S : y <= x}

(* Who has lost a place on list n to the removal of slot i from it. *)
Victims(n, i) ==
  {<<id, n>> : id \in {j \in UserIds : Slot(j) \in AtEnd(Listed(n), i) \ Listed(n)'}}

PairsOf(id, pairs) == {p \in pairs : p[1] = id}

-----------------------------------------------------------------------------
HistInit == Init /\ given = {} /\ heirs = {} /\ erased = {}

(* Calls that change no list of interests or birthdays; a new user in an   *)
(* old slot comes by the lists that the slot is on.                        *)
HistSetUser(id, user) ==
  /\ setUser(id, user)
  /\ heirs' = heirs \cup
       (IF Exists(id) THEN {}
        ELSE {<<id, n>> : n \in {m \in 0..Len(interestlist) : useridmap'[id] \in Listed(m)}})
  /\ UNCHANGED <<given, erased>>

HistUpdate(id, c) ==
  /\ (c[1] = "loc" /\ updateLoc(id, c[2])) \/ updateField(id, c[1], c[2])
  /\ UNCHANGED history

Give(id, n) ==
  /\ given' = given \cup {<<id, n>>}
  /\ erased' = erased \ {<<id, n>>}
  /\ UNCHANGED heirs

TakeBack(id, n) ==
  LET victims == Victims(n, Slot(id)) IN
  /\ given' = given \ {<<id, n>>}
  /\ heirs' = heirs \ (victims \cup {<<id, n>>})
  /\ erased' = (erased \cup victims) \ {<<id, n>>}

HistSetInterest(id, k) == setInterest(id, k) /\ Give(id, k + 1)
HistUnsetInterest(id, k) == unsetInterest(id, k) /\ TakeBack(id, k + 1)
HistAddBday(id) == addBday(id) /\ Give(id, 0)
HistDelBday(id) == delBday(id) /\ TakeBack(id, 0)

HistDelUser(id) ==
  LET victims == Victims(0, Slot(id)) IN
  /\ delUser(id)
  /\ given' = given \ PairsOf(id, given)
  /\ heirs' = heirs \ (victims \cup PairsOf(id, heirs))
  /\ erased' = (erased \cup victims) \ PairsOf(id, erased)

HistNext ==
  \E id \in UserIds :
    \/ \E user \in NewUsers : HistSetUser(id, user)
    \/ \E c \in Changes : HistUpdate(id, c)
    \/ \E k \in Interests : HistSetInterest(id, k) \/ HistUnsetInterest(id, k)
    \/ HistAddBday(id) \/ HistDelBday(id)
    \/ HistDelUser(id)

HistSpec == HistInit /\ [][HistNext]_histvars

-----------------------------------------------------------------------------
(* search.h:170: "need reverse mappings so when a user is deleted, the     *)
(* list of locations, interests and social circles can be updated": a user *)
(* is on no list that it was not put on.                                   *)
ListedAsGiven ==
  ~crashed =>
    \A id \in UserIds, n \in 0..Len(interestlist) :
      Exists(id) /\ Slot(id) \in Listed(n) => <<id, n>> \in given
=============================================================================
