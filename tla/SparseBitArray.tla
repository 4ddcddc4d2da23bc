--------------------------- MODULE SparseBitArray ----------------------------
(***************************************************************************)
(* class sparse_bit_array (sparsebitarray.h): a set of positive numbers as *)
(* a run-length coded string of bits, kept as an alternative to the sorted *)
(* vectors of userset.  setbit and unsetbit rewrite the blocks around one  *)
(* position; an iterator walks the 1s.                                     *)
(***************************************************************************)
EXTENDS RunLength

CONSTANT Indices  \* the positions set and unset: assert(index > 0)

VARIABLES
  rledata,   \* the string of blocks
  numitems,  \* "number of successful sets - number of successful unsets"
  garbled    \* history: a trade has left or taken a byte too many

vars == <<rledata, numitems, garbled>>

Blocks == BlocksOf(rledata, 0)
Bits == BitsOf(rledata, 0)
BitAt(index) == LET blocks == Blocks IN blocks[FoundIn(blocks, index)].bit

Init ==
  /\ rledata = encode(0, 1) \o <<0>>
  /\ numitems = 0
  /\ garbled = FALSE

(* Bound: a string that is garbled is not followed any further.            *)
set(index, newval) ==
  LET blocks == Blocks IN
  /\ ~garbled
  /\ blocks[FoundIn(blocks, index)].bit # newval
  /\ rledata' = Rewritten(rledata, blocks, index, newval, <<>>)
  /\ garbled' = Resizes(blocks, index)

(* Mutant of unsetbit: it counts a bit already 0. *)
unsetbitAgain(index) ==
  /\ set(index, 0) \/ (BitAt(index) = 0 /\ UNCHANGED <<rledata, garbled>>)
  /\ numitems' = numitems - 1

setbit(index) == set(index, 1) /\ numitems' = numitems + 1
unsetbit(index) == set(index, 0) /\ numitems' = numitems - 1

Next == \E index \in Indices : setbit(index) \/ unsetbit(index)

Spec == Init /\ [][Next]_vars

-----------------------------------------------------------------------------
(* A string of bytes and a count that never falls below 0. *)
TypeOK ==
  /\ rledata \in Seq(0..255)
  /\ numitems \in Nat
  /\ garbled \in BOOLEAN

(* The coding stays canonical under every rewriting that does not garble   *)
(* it.  set takes this for granted ("prevblock is also always set"), and   *)
(* an empty run would end the string for every reader.                     *)
Canonical == ~garbled => CanonicalString(rledata, 0)

(* size() is the number of 1s, and an iterator meets exactly the 1s, in    *)
(* order and each once: what the test asks (sparsebitarray.c:111-119).     *)
ReadsExact ==
  ~garbled =>
    LET values == Walk(Blocks)
    IN /\ numitems = Cardinality(Bits)
       /\ ToSet(values) = Bits
       /\ \A n \in 2..Len(values) : values[n - 1] < values[n]

=============================================================================
