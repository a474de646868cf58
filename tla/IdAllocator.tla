----------------------------- MODULE IdAllocator -----------------------------
(***************************************************************************)
(* What allocate_pages_id and free_pages_id of src/pool/pool.c promise the *)
(* rest of the buffer pool, without the stack pages they are built on: a   *)
(* call hands out page ids nobody holds, one after the other, or takes     *)
(* back ids that somebody holds.                                           *)
(***************************************************************************)
EXTENDS Naturals, FiniteSets

CONSTANTS
    Id,         \* the page ids
    MaxBatch    \* the largest number of ids one call asks for

VARIABLES
    held,   \* the ids handed out and not taken back
    todo    \* how many ids the running allocation still owes its caller

vars == <<held, todo>>

TypeOK == held \subseteq Id /\ todo \in 0..MaxBatch

Init == held = {} /\ todo = 0

Request(n) == todo = 0 /\ todo' = n /\ UNCHANGED held

Grant(id) ==
    /\ todo > 0
    /\ id \notin held
    /\ held' = held \cup {id}
    /\ todo' = todo - 1

Return(S) ==
    /\ todo = 0
    /\ held' = held \ S
    /\ UNCHANGED todo

Next ==
    \/ \E n \in 1..MaxBatch : Request(n)
    \/ \E id \in Id : Grant(id)
    \/ \E S \in SUBSET held : Return(S)

Spec == Init /\ [][Next]_vars
=============================================================================
