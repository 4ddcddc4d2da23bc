---------------------------- MODULE SparseFrames -----------------------------
(***************************************************************************)
(* class sparse_bit_array, second version (sparsebitarray2.h): the string  *)
(* of blocks cut into a list of frames, each with the positions above its  *)
(* startvalue up to its maxvalue, so that a call walks one short string.   *)
(* After every call, even one that changes no bit, a frame that has grown  *)
(* too long is split and a short one is joined with the next.              *)
(*                                                                         *)
(* Left out: the numitems of a frame.  Nothing reads it, and the array     *)
(* calls frame::set, never the frame::setbit that would count.             *)
(***************************************************************************)
EXTENDS RunLength

CONSTANTS
  Indices,          \* the positions set and unset
  splitthreshhold,  \* 100: "when one block exceeds this size, split it into two"
  jointhreshhold,   \* 40: "when two consecutive blocks are smaller than this, join them"
  MaxJoins          \* bound: an array is followed up to this many joins

(* assert(index > 0); encode asserts that a run is shorter than 2^29, and  *)
(* a set can reach twice as far as its index.  From 16 bytes on the block  *)
(* at which a frame is split is neither of its first two nor its last.     *)
ASSUME FramesAssumption ==
  /\ Indices \subseteq Nat \ {0}
  /\ MaxJoins \in Nat \ {0}
  /\ \A index \in Indices \cup {0} : 2 * index + MaxJoins + 2 < 2^29
  /\ splitthreshhold \in Nat /\ splitthreshhold >= 16
  /\ jointhreshhold \in Nat

(* How the array is, a history of its calls:                               *)
(*   sound    as a caller expects, but see Overshoot;                      *)
(*   astray   bits have left their frame's range or moved with a join, or  *)
(*            two blocks of 0s meet;                                       *)
(*   garbled  bytes were left or taken where a width changed or where the  *)
(*            terminator had gone, or a run of 0s was joined on as 1s;     *)
(*   aborted  an assert has failed.                                        *)
VARIABLES
  frames,    \* list of [rledata, startvalue, maxvalue]
  numitems,  \* "number of successful sets - number of successful unsets"
  health,    \* history, as above
  joins      \* history: how many frames have been joined on

vars == <<frames, numitems, health, joins>>

BlocksIn(f) == BlocksOf(f.rledata, f.startvalue)
BitsIn(f) == BitsOf(f.rledata, f.startvalue)
Bits == UNION {BitsIn(frames[k]) : k \in DOMAIN frames}

(* frame(0, 0), in a list of one. *)
Init ==
  /\ frames = <<[rledata |-> encode(0, 1) \o <<0>>, startvalue |-> 0, maxvalue |-> 0]>>
  /\ numitems = 0
  /\ health = "sound"
  /\ joins = 0

(* "find the frame": the last that starts below index. *)
FrameOf(index) ==
  CHOOSE k \in DOMAIN frames :
    /\ \A j \in 2..k : frames[j].startvalue < index
    /\ k = Len(frames) \/ frames[k + 1].startvalue >= index

BitAt(index) ==
  LET blocks == BlocksIn(frames[FrameOf(index)]) IN blocks[FoundIn(blocks, index)].bit

(* frame::set where it changes the bit found. *)
SetIn(f, index, newval) ==
  [f EXCEPT !.rledata = Rewritten(@, BlocksIn(f), index, newval, <<0>>)]

(* What that makes of the array. *)
HealthOfSet(f, after, index) ==
  IF Resizes(BlocksIn(f), index) THEN "garbled"
  ELSE IF f.maxvalue # 0 /\ \E b \in BitsIn(after) : b > f.maxvalue THEN "astray"
  ELSE "sound"

-----------------------------------------------------------------------------
(* frame::split: the first block of 0s in the second half of the bytes     *)
(* begins the new frame, one longer for the position before it.            *)
SplitBlock(f) ==
  LET blocks == BlocksIn(f)
      fits(b) == b.bit = 0 /\ b.run # 0 /\ blockend(b) - 1 >= Len(f.rledata) \div 2
  IN blocks[CHOOSE n \in DOMAIN blocks :
              fits(blocks[n]) /\ \A m \in 1..(n - 1) : ~fits(blocks[m])]

(* Mutants of Lower and Upper: the frames meet one position too late, and  *)
(* the position before the block is forgotten.                             *)
LowerLate(f, cur) ==
  [f EXCEPT !.rledata = SubSeq(@, 1, cur.at - 1) \o <<0>>, !.maxvalue = cur.value]
UpperBare(f, cur, width) ==
  [f EXCEPT !.rledata = encode(0, cur.run) \o SubSeq(@, cur.at + width, Len(@)),
            !.startvalue = cur.value - 1]

Lower(f, cur) ==
  [f EXCEPT !.rledata = SubSeq(@, 1, cur.at - 1) \o <<0>>, !.maxvalue = cur.value - 1]
Upper(f, cur, width) ==
  [f EXCEPT !.rledata = encode(0, cur.run + 1) \o SubSeq(@, cur.at + width, Len(@)),
            !.startvalue = cur.value - 1]

(* frames.insert(iter, cur->split()).  In cur.encode() +                   *)
(* string(cur.blockend(), ...) the operands are evaluated in either order, *)
(* so blockend takes the old width or the new.                             *)
SplitFrame(k, fs, was) ==
  LET cur == SplitBlock(fs[k]) IN
  \E width \in {cur.length, blocklength(cur.run + 1)} :
    /\ frames' = InsertAt(ReplaceAt(fs, k, Lower(fs[k], cur)), k + 1, Upper(fs[k], cur, width))
    /\ health' = IF width = cur.length THEN was ELSE "garbled"

(* The blocks frame::join looks at: prev is the last of the frame, middle  *)
(* the leading 0s of the other, next what follows them.  diff is the       *)
(* length of the 0s between: one more than there are.                      *)
LastBlock(f) == LET blocks == BlocksIn(f) IN blocks[Len(blocks) - 1]
Middle(other) == BlocksIn(other)[1]
NextBlock(other) == BlocksIn(other)[2]
Diff(f, other) == NextBlock(other).value + 1 - LastBlock(f).value - LastBlock(f).run

(* "join them" or "append the middle piece"; then "the rest of the other". *)
Joined(f, other) ==
  LET diff == Diff(f, other)
      after(b) == SubSeq(other.rledata, blockend(b), Len(other.rledata))
  IN [f EXCEPT
       !.rledata = IF diff = 0
                   THEN SubSeq(@, 1, LastBlock(f).at - 1)
                          \o encode(1, LastBlock(f).run + NextBlock(other).run)
                          \o after(NextBlock(other))
                   ELSE SubSeq(@, 1, Len(@) - 1) \o encode(0, diff) \o after(Middle(other)),
       !.maxvalue = other.maxvalue]

(* A last run of 1s extended to a new width has taken the terminator's     *)
(* place (AddAtEnd): join would cut off a byte of the run.                 *)
Unended(f) == Last(BlocksIn(f)).at > Len(f.rledata)

(* cur->join(the next frame), which is then erased.  The 0s too many may   *)
(* reach beyond next.value: a negative diff fails encode's assertion on    *)
(* the length of a run.                                                    *)
JoinFrames(k, fs, was) ==
  LET f == fs[k]
      other == fs[k + 1]
  IN IF Diff(f, other) < 0
     THEN frames' = fs /\ health' = "aborted"
     ELSE /\ frames' = RemoveAt(ReplaceAt(fs, k, Joined(f, other)), k + 1)
          /\ health' = IF \/ LastBlock(f).bit = 0 /\ Diff(f, other) = 0
                          \/ Unended(f) /\ Diff(f, other) # 0 THEN "garbled"
                       ELSE IF LastBlock(f).bit = 0 \/ BitsIn(other) # {} THEN "astray" ELSE was

-----------------------------------------------------------------------------
TooLong(k, fs) ==
  LET size == Len(fs[k].rledata) IN size > splitthreshhold /\ size > Len(fs)

TooShort(k, fs) ==
  /\ k < Len(fs)
  /\ Len(fs[k].rledata) + Len(fs[k + 1].rledata) < jointhreshhold

(* "resize if it's bigger than the min threshhold ...", or join. *)
Resize(k, fs, was) ==
  \/ TooLong(k, fs) /\ SplitFrame(k, fs, was)
  \/ ~TooLong(k, fs) /\ TooShort(k, fs) /\ JoinFrames(k, fs, was)
  \/ ~TooLong(k, fs) /\ ~TooShort(k, fs) /\ frames' = fs /\ health' = was

(* sparse_bit_array::set, with setbit's and unsetbit's count.  The frame   *)
(* is resized when no bit changes, too.  Bounds: an array that is not      *)
(* sound or has had MaxJoins is not followed further, nor is a garbled     *)
(* frame resized.                                                          *)
set(index, newval) ==
  LET k == FrameOf(index)
      f == frames[k]
      after == IF BitAt(index) = newval THEN f ELSE SetIn(f, index, newval)
      was == IF BitAt(index) = newval THEN "sound" ELSE HealthOfSet(f, after, index)
      fs == ReplaceAt(frames, k, after)
  IN
  /\ health = "sound" /\ joins < MaxJoins
  /\ IF was = "garbled" THEN frames' = fs /\ health' = was ELSE Resize(k, fs, was)
  /\ numitems' = IF BitAt(index) = newval THEN numitems
                 ELSE IF newval = 1 THEN numitems + 1 ELSE numitems - 1
  /\ joins' = IF Len(frames') < Len(frames) THEN joins + 1 ELSE joins

setbit(index) == set(index, 1)
unsetbit(index) == set(index, 0)

Next == \E index \in Indices : setbit(index) \/ unsetbit(index)

Spec == Init /\ [][Next]_vars

(* What an iterator yields.  It asks for the end only after a step, so a   *)
(* frame without 1s yields a value all the same, the end of its 0s.        *)
FrameValues(f) ==
  LET values == Walk(BlocksIn(f))
  IN IF values = <<>> THEN <<Last(BlocksIn(f)).value>> ELSE values
Values == FlattenSeq([k \in DOMAIN frames |-> FrameValues(frames[k])])

-----------------------------------------------------------------------------
(* Strings of bytes, and a count of sets that never falls below 0.         *)
TypeOK ==
  /\ \A k \in DOMAIN frames :
       /\ frames[k].rledata \in Seq(0..255)
       /\ frames[k].startvalue \in Nat /\ frames[k].maxvalue \in Nat
  /\ numitems \in Nat
  /\ health \in {"sound", "astray", "garbled", "aborted"}
  /\ joins \in 0..MaxJoins

(* Every frame of a sound array is coded canonically, however it was cut   *)
(* and joined: frame::set takes the leading 0s and the alternation of runs *)
(* for granted ("prev is also always set").                                *)
Canonical ==
  health = "sound" =>
    \A k \in DOMAIN frames : CanonicalString(frames[k].rledata, frames[k].startvalue)

(* "maxvalue ... is equal to the next frames startvalue" (line 137): the   *)
(* frames cover all positions in order, the last without a limit, and each *)
(* holds bits of its own range only, which a call for another position     *)
(* would neither find nor clear elsewhere.                                 *)
FramesPartition ==
  LET n == Len(frames) IN
  /\ frames[1].startvalue = 0 /\ frames[n].maxvalue = 0
  /\ \A k \in 1..(n - 1) :
       /\ frames[k].maxvalue = frames[k + 1].startvalue
       /\ frames[k].startvalue < frames[k].maxvalue
  /\ health = "sound" =>
       \A k \in DOMAIN frames : \A b \in BitsIn(frames[k]) :
         b > frames[k].startvalue /\ (k < n => b <= frames[k].maxvalue)

(* size() is the number of 1s, and an iterator meets each 1, in order, and *)
(* one value more for every frame without 1s.                              *)
ReadsExact ==
  health = "sound" =>
    LET ones == FlattenSeq([k \in DOMAIN frames |-> Walk(BlocksIn(frames[k]))])
    IN /\ numitems = Cardinality(Bits)
       /\ ToSet(ones) = Bits
       /\ \A n \in 2..Len(ones) : ones[n - 1] < ones[n]
       /\ Len(Values) = numitems + Cardinality({k \in DOMAIN frames : BitsIn(frames[k]) = {}})
=============================================================================
