------------------------------- MODULE Catalog -------------------------------
(***************************************************************************)
(* What the page directory is for its users: the tables there are, by      *)
(* name.  Nothing keeps a name from being entered twice.                   *)
(***************************************************************************)
EXTENDS Naturals

CONSTANT Names

VARIABLE tables     \* name -> how many tables have it

Init == tables \in [Names -> Nat]

Enter(n) == tables' = [tables EXCEPT ![n] = @ + 1]

Remove(n) == tables[n] > 0 /\ tables' = [tables EXCEPT ![n] = @ - 1]

Next == \E n \in Names : Enter(n) \/ Remove(n)
=============================================================================
