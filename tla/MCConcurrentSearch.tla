------------------------- MODULE MCConcurrentSearch -------------------------
(* A small instance of ConcurrentSearch for TLC: 2 and 3 lie in 1. *)
EXTENDS ConcurrentSearch

MCLocPath == <<<<1>>, <<2, 1>>, <<3, 1>>>>
MCWanted == {<<1>>, <<2>>, <<3, 2>>}
=============================================================================
