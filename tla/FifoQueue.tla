------------------------------ MODULE FifoQueue ------------------------------
(***************************************************************************)
(* What a tqueue promises its threads: every item pushed comes out of pop  *)
(* once, in the order of the pushes, whoever pops it.                      *)
(***************************************************************************)
EXTENDS Sequences

CONSTANT Items  \* what is pushed, each once

VARIABLES queue, delivered

InQueue(x) == \E n \in DOMAIN queue : queue[n] = x
Delivered(x) == \E n \in DOMAIN delivered : delivered[n] = x

Init == queue = <<>> /\ delivered = <<>>

Push(x) ==
  /\ ~InQueue(x) /\ ~Delivered(x)
  /\ queue' = Append(queue, x)
  /\ UNCHANGED delivered

Pop ==
  /\ queue # <<>>
  /\ delivered' = Append(delivered, Head(queue))
  /\ queue' = Tail(queue)

Next == (\E x \in Items : Push(x)) \/ Pop

Spec == Init /\ [][Next]_<<queue, delivered>>
=============================================================================
