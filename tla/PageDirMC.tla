------------------------------ MODULE PageDirMC ------------------------------
(* Two threads and two names, one a prefix of the other. *)
EXTENDS PageDir, TLC

CONSTANTS t, tab

Prefixes == {<<t, tab>>}
ThreadSymmetry == Permutations(Threads)
=============================================================================
