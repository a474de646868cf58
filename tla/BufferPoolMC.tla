---------------------------- MODULE BufferPoolMC ----------------------------
(* Two threads, three page ids, two sub pools of one block each. *)
EXTENDS BufferPool, TLC

CONSTANTS b1, b2

Pools == 1..2
OneBlockEach == <<<<b1>>, <<b2>>>>
ThreadSymmetry == Permutations(Threads)
=============================================================================
