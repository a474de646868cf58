------------------------------- MODULE Columns -------------------------------
(***************************************************************************)
(* What a general table is for its users: for each attribute, a sequence   *)
(* of values.  A value that is dropped is replaced by the last one.        *)
(***************************************************************************)
EXTENDS Naturals, Sequences

CONSTANTS Attrs, Value

VARIABLE col        \* attribute -> its values, by record

Init == col = [a \in Attrs |-> <<>>]

Add(a, v) == col' = [col EXCEPT ![a] = Append(@, v)]

Drop(a, i) ==
    /\ i \in 1..Len(col[a])
    /\ LET c == col[a]
           n == Len(c)
       IN col' = [col EXCEPT ![a] = SubSeq([c EXCEPT ![i] = c[n]], 1, n - 1)]

Destroy == col' = [a \in Attrs |-> <<>>]

Next ==
    \/ \E a \in Attrs, v \in Value : Add(a, v)
    \/ \E a \in Attrs : \E i \in 1..Len(col[a]) : Drop(a, i)
    \/ Destroy
=============================================================================
