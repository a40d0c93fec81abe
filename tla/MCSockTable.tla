---------------------------- MODULE MCSockTable ----------------------------
(* Threads are alike.                                                       *)
EXTENDS SockTable, TLC
CONSTANTS a, b, c
Sym == Permutations(Threads)
=============================================================================
