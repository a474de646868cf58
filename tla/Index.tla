-------------------------------- MODULE Index --------------------------------
(***************************************************************************)
(* What an index is for its users: a set of keys, to which insertions add, *)
(* and from which removals take.                                           *)
(***************************************************************************)
CONSTANT Key

VARIABLE keys

\* An index may have been filled before.
Init == keys \in SUBSET Key

Insert(k) == keys' = keys \cup {k}

Remove(k) == keys' = keys \ {k}

\* The index is deleted.
Drop == keys' = {}

Next == Drop \/ \E k \in Key : Insert(k) \/ Remove(k)
=============================================================================
