------------------------------ MODULE RunLength ------------------------------
(***************************************************************************)
(* The coding both versions of sparse_bit_array share: a string of blocks, *)
(* each one to four bytes for a run of equal bits, ended by a zero byte,   *)
(* which reads as a run of length 0.  Rewritten is their common set(): it  *)
(* replaces the blocks around one position, and works on the bytes,        *)
(* because encode() stores the width of a block as a side effect and the   *)
(* end of the part to replace is taken from it afterwards.                 *)
(***************************************************************************)
EXTENDS Integers, Sequences, FiniteSets, SequencesExt

(* The bytes of a block: the bit in the top position of the first byte,    *)
(* the number of further bytes in the next two, the low 5 bits of the      *)
(* length of the run, and 8 more of them in each further byte.             *)
blocklength(run) ==
  IF run < 2^5 THEN 1 ELSE IF run < 2^13 THEN 2 ELSE IF run < 2^21 THEN 3 ELSE 4

ByteOf(bit, run, length, k) ==
  IF k = 1 THEN bit * 2^7 + (length - 1) * 2^5 + (run % 2^5)
  ELSE (run \div 2^(8 * k - 11)) % 2^8

encode(bit, run) == [k \in 1..blocklength(run) |-> ByteOf(bit, run, blocklength(run), k)]

(* Behind its last character a std::string has a null. *)
Byte(data, p) == IF p <= Len(data) THEN data[p] ELSE 0

(* The block a reader finds at p, if its first position is value. *)
block(data, p, value) ==
  LET length == ((Byte(data, p) \div 2^5) % 4) + 1
      further(k) == IF k < length THEN Byte(data, p + k) * 2^(8 * k - 3) ELSE 0
  IN [at |-> p, value |-> value, length |-> length, bit |-> Byte(data, p) \div 2^7,
      run |-> (Byte(data, p) % 2^5) + further(1) + further(2) + further(3)]

blockend(b) == b.at + b.length

(* All the blocks from startvalue on, by next(), the terminator included. *)
BlocksOf(data, startvalue) ==
  LET from[pv \in (1..(Len(data) + 4)) \X Nat] ==
        LET b == block(data, pv[1], pv[2])
        IN IF b.run = 0 THEN <<b>> ELSE <<b>> \o from[<<blockend(b), b.value + b.run>>]
  IN from[<<1, startvalue>>]

(* The positions of the 1s. *)
BitsOf(data, startvalue) ==
  LET blocks == BlocksOf(data, startvalue)
  IN UNION {blocks[n].value..(blocks[n].value + blocks[n].run - 1) :
              n \in {m \in DOMAIN blocks : blocks[m].bit = 1}}

(* "find the right block": the one that covers index, or the terminator.   *)
FoundIn(blocks, index) ==
  CHOOSE n \in DOMAIN blocks :
    /\ blocks[n].run = 0 \/ blocks[n].value + blocks[n].run > index
    /\ \A m \in 1..(n - 1) : blocks[m].value + blocks[m].run <= index

-----------------------------------------------------------------------------
(* rledata.replace of the bytes from first to before last. *)
Replaced(data, first, last, new) ==
  SubSeq(data, 1, first - 1) \o new \o SubSeq(data, last, Len(data))

(* The arms of set(index, newval) at block n of blocks, which has the      *)
(* other value.  Where the code encodes a block it then takes the end of,  *)
(* the end is that of the new width: wrong if the width has changed.       *)

(* "got to the end without finding a block", with 1s or 0s before it; the  *)
(* second version repeats the terminator after a separator.  Behind 0s the *)
(* length of the new run of 0s is right only if theirs is 1.               *)
AddAtEnd(data, blocks, index, terminator) ==
  LET cur == Last(blocks)
      prev == blocks[Len(blocks) - 1]
  IN IF prev.bit = 0
     THEN Replaced(data, prev.at, blockend(prev),
                   encode(0, prev.run + index - prev.value - 1) \o encode(1, 1))
     ELSE IF cur.value = index
     THEN Replaced(data, prev.at, prev.at + blocklength(prev.run + 1), encode(1, prev.run + 1))
     ELSE Replaced(data, cur.at, cur.at + Len(terminator),
                   encode(0, index - cur.value) \o encode(1, 1) \o terminator)

(* Mutant of Join: the following run is not joined. *)
JoinBefore(data, blocks, n, newval) ==
  Replaced(data, blocks[n - 1].at, blockend(blocks[n]), encode(newval, blocks[n - 1].run + 1))

(* "join prev and next blocks" around a run of one bit. *)
Join(data, blocks, n, newval) ==
  LET prev == blocks[n - 1]
      next == blocks[n + 1]
  IN Replaced(data, prev.at, IF next.run = 0 THEN blockend(blocks[n]) ELSE blockend(next),
              encode(newval, prev.run + 1 + next.run))

(* Mutant of TradeWithPrev: this block is not shortened. *)
GrowPrev(data, blocks, n) ==
  Replaced(data, blocks[n - 1].at, blockend(blocks[n]),
           encode(blocks[n - 1].bit, blocks[n - 1].run + 1) \o encode(blocks[n].bit, blocks[n].run))

(* "shorten this block, lengthen the prev block" *)
TradeWithPrev(data, blocks, n) ==
  LET prev == blocks[n - 1]
      cur == blocks[n]
  IN Replaced(data, prev.at, cur.at + blocklength(cur.run - 1),
              encode(prev.bit, prev.run + 1) \o encode(cur.bit, cur.run - 1))

(* "shorten this block, lengthen next block", or begin one at the end. *)
TradeWithNext(data, blocks, n, newval) ==
  LET cur == blocks[n]
      next == blocks[n + 1]
  IN IF next.run = 0
     THEN Replaced(data, cur.at, cur.at + blocklength(cur.run - 1),
                   encode(cur.bit, cur.run - 1) \o encode(newval, 1))
     ELSE Replaced(data, cur.at, next.at + blocklength(next.run + 1),
                   encode(cur.bit, cur.run - 1) \o encode(next.bit, next.run + 1))

(* "split block in 3" *)
Split(data, cur, index, newval) ==
  Replaced(data, cur.at, blockend(cur),
           encode(cur.bit, index - cur.value) \o encode(newval, 1)
             \o encode(cur.bit, cur.value + cur.run - index - 1))

(* set(index, newval) where the block found has another bit. *)
Rewritten(data, blocks, index, newval, terminator) ==
  LET n == FoundIn(blocks, index)
      cur == blocks[n]
  IN IF cur.run = 0 THEN AddAtEnd(data, blocks, index, terminator)
     ELSE IF cur.run = 1 THEN Join(data, blocks, n, newval)
     ELSE IF cur.value = index THEN TradeWithPrev(data, blocks, n)
     ELSE IF cur.value + cur.run - 1 = index THEN TradeWithNext(data, blocks, n, newval)
     ELSE Split(data, cur, index, newval)

-----------------------------------------------------------------------------
(* Two conditions under which set() does something else.  A trade in which *)
(* the width of the shortened or the lengthened block changes leaves a     *)
(* stale byte behind or takes the first byte of the next block along.      *)
Resizes(blocks, index) ==
  LET n == FoundIn(blocks, index)
      cur == blocks[n]
  IN /\ cur.run > 1
     /\ cur.value = index \/ cur.value + cur.run - 1 = index
     /\ \/ blocklength(cur.run - 1) # cur.length /\ (cur.value = index \/ blocks[n + 1].run = 0)
        \/ /\ cur.value # index /\ blocks[n + 1].run # 0
           /\ blocklength(blocks[n + 1].run + 1) # blocks[n + 1].length

(* And behind a last run of several 0s, the bit set is that much further   *)
(* on than index.                                                          *)
Overshoot(blocks, index) ==
  LET prev == blocks[Len(blocks) - 1]
  IN IF Last(blocks).value <= index /\ prev.bit = 0 THEN prev.run - 1 ELSE 0

(* The coding is canonical: the first block is a run of 0s (the first      *)
(* position is never set), runs of 0s and of 1s alternate, none is empty,  *)
(* and each has the shortest width.                                        *)
CanonicalString(data, startvalue) ==
  LET blocks == BlocksOf(data, startvalue) IN
  /\ Len(blocks) > 1 /\ blocks[1].bit = 0
  /\ \A n \in 1..(Len(blocks) - 1) :
       blocks[n].length = blocklength(blocks[n].run) /\ blocks[n].run < 2^29
  /\ \A n \in 2..(Len(blocks) - 1) : blocks[n].bit # blocks[n - 1].bit
  /\ Last(blocks).at \in {Len(data), Len(data) + 1}

(* An iterator goes through a run of 1s, then on to the next such run.     *)
NextOnes(blocks, n) ==
  CHOOSE m \in n..Len(blocks) :
    /\ blocks[m].run = 0 \/ blocks[m].bit = 1
    /\ \A k \in n..(m - 1) : blocks[k].bit = 0 /\ blocks[k].run # 0

(* Mutant of ValuesOf: the last 1 of a run is left out. *)
ValuesShort(b) == [progress \in 1..(b.run - 1) |-> b.value + progress - 1]

ValuesOf(b) == [progress \in 1..b.run |-> b.value + progress - 1]

Walk(blocks) ==
  LET from[n \in DOMAIN blocks] ==
        IF blocks[n].run = 0 THEN <<>>
        ELSE ValuesOf(blocks[n]) \o from[NextOnes(blocks, n + 1)]
  IN from[NextOnes(blocks, 1)]
=============================================================================
