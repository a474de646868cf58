--------------------------- MODULE GeneralTableMC ---------------------------
(* Two attributes; a data page holds one value of one, two of the other. *)
EXTENDS GeneralTable

OneAndTwo == <<1, 2>>
ValueSymmetry == Permutations(Value)
=============================================================================
