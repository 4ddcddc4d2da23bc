--------------------------- MODULE SparseVersions ----------------------------
(***************************************************************************)
(* Both versions of class sparse_bit_array given the same calls, beside    *)
(* the sets of positions that the calls amount to.  The second version was *)
(* written to take the place of the first under the same names             *)
(* (sparsebitarray.c can include either), so a caller should not be able   *)
(* to tell which it has.                                                   *)
(***************************************************************************)
EXTENDS SparseFrames

VARIABLES
  rledata, count, garbled,  \* the first version; count is its numitems
  asked1, asked2,           \* history: the positions set in each version
  parted                    \* history: a defect has told the versions apart

First == INSTANCE SparseBitArray WITH numitems <- count

allvars == <<frames, numitems, health, joins, rledata, count, garbled, asked1, asked2, parted>>

VersionsInit ==
  /\ Init /\ First!Init
  /\ asked1 = {} /\ asked2 = {}
  /\ parted = FALSE

(* How far beyond index a setbit lands, in each version. *)
Beyond1(index) == Overshoot(First!Blocks, index)
Beyond2(index) == Overshoot(BlocksIn(frames[FrameOf(index)]), index)

(* S after this call of the second version: joining moves every bit of the *)
(* frame joined on up by one position.                                     *)
Shifted(S, index) ==
  LET k == FrameOf(index) IN
  IF Len(frames') = Len(frames) - 1
  THEN LET moved == BitsIn(frames[k + 1]) IN (S \ moved) \cup {b + 1 : b \in moved}
  ELSE S

(* What parts the versions, last runs of 0s of two lengths among it. *)
Parts(index) == garbled' \/ health' # "sound" \/ Beyond1(index) # Beyond2(index)

SetBoth(index) ==
  /\ ~garbled /\ setbit(index)
  /\ First!setbit(index) \/ (First!BitAt(index) = 1 /\ UNCHANGED <<rledata, count, garbled>>)
  /\ asked1' = asked1 \cup {index + Beyond1(index)}
  /\ asked2' = Shifted(asked2, index) \cup {index + Beyond2(index)}
  /\ parted' = (parted \/ Parts(index))

UnsetBoth(index) ==
  /\ ~garbled /\ unsetbit(index)
  /\ First!unsetbit(index) \/ (First!BitAt(index) = 0 /\ UNCHANGED <<rledata, count, garbled>>)
  /\ asked1' = asked1 \ {index}
  /\ asked2' = Shifted(asked2 \ {index}, index)
  /\ parted' = (parted \/ Parts(index))

VersionsNext == \E index \in Indices : SetBoth(index) \/ UnsetBoth(index)

VersionsSpec == VersionsInit /\ [][VersionsNext]_allvars

-----------------------------------------------------------------------------
(* Strings of bytes, and counts that no order of calls takes below 0.      *)
BothTypesOK == TypeOK /\ First!TypeOK /\ asked1 \subseteq Nat /\ asked2 \subseteq Nat

(* Every string either version keeps is coded canonically: both set() take *)
(* it for granted that runs of 0s and of 1s alternate behind leading 0s    *)
(* (sparsebitarray.h:137, sparsebitarray2.h:319).                          *)
BothCanonical == Canonical /\ First!Canonical

(* size() is the number of 1s in both, and an iterator meets each 1 once   *)
(* and in order, in the second version with one value more for each frame  *)
(* without 1s: what the test asks (sparsebitarray.c:111-119).              *)
BothReadExact == ReadsExact /\ First!ReadsExact

(* Over any sequence of calls each version holds exactly the positions the *)
(* calls asked for, but for three defects: a set behind a last run of      *)
(* several 0s lands beyond (sparsebitarray.h:168); a join moves the bits   *)
(* of the frame joined on (sparsebitarray2.h:262), which leaves the array  *)
(* astray and is the last call followed; and nothing is said of a string   *)
(* once garbled.                                                           *)
BitsAsAsked ==
  /\ ~garbled => First!Bits = asked1
  /\ health \in {"sound", "astray"} => Bits = asked2

(* Framing is invisible: through splits, and joins with a frame without    *)
(* 1s, the versions agree on every bit and on size(), until one of the     *)
(* defects has told them apart, a join that moves bits being one.          *)
VersionsAgree == ~parted => Bits = First!Bits /\ numitems = count
=============================================================================
