------------------------------ MODULE RecordMap ------------------------------
(***************************************************************************)
(* What a slotted page promises its users: a bounded map from slot numbers *)
(* to entries.  The page picks the slot of a new entry; an entry keeps its *)
(* slot and its value until it is deleted or updated.                      *)
(***************************************************************************)
EXTENDS Naturals, FiniteSets

CONSTANTS
    Slot,   \* the slots of a page
    Value   \* what an entry can hold

VARIABLES
    count,  \* how many entries there are
    seated, \* the slots with an entry
    data    \* slot -> the bytes of its entry, those of a free slot left over

vars == <<count, seated, data>>

Init == count = 0 /\ seated = {} /\ data \in [Slot -> Value]

Insert(i, v) ==
    /\ i \notin seated
    /\ seated' = seated \cup {i}
    /\ count' = count + 1
    /\ data' = [data EXCEPT ![i] = v]

Delete(i) ==
    /\ i \in seated
    /\ seated' = seated \ {i}
    /\ count' = count - 1
    /\ UNCHANGED data

Update(i, v) ==
    /\ i \in seated
    /\ data' = [data EXCEPT ![i] = v]
    /\ UNCHANGED <<count, seated>>

Next ==
    \E i \in Slot :
        \/ \E v \in Value : Insert(i, v) \/ Update(i, v)
        \/ Delete(i)

Spec == Init /\ [][Next]_vars
=============================================================================
