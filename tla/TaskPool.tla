------------------------------ MODULE TaskPool ------------------------------
(***************************************************************************)
(* What a thread pool promises: tasks start in the order they came, each   *)
(* runs once, and a task nobody has started may be withdrawn.              *)
(***************************************************************************)
EXTENDS Sequences, Integers

CONSTANT Tasks

VARIABLES
    pending,    \* the tasks that wait, the oldest first
    status      \* task -> how far it is

vars == <<pending, status>>

Init == pending = <<>> /\ status = [k \in Tasks |-> "new"]

Submit(k) ==
    /\ status[k] = "new"
    /\ pending' = Append(pending, k)
    /\ status' = [status EXCEPT ![k] = "pending"]

Start ==
    /\ pending # <<>>
    /\ status' = [status EXCEPT ![Head(pending)] = "running"]
    /\ pending' = Tail(pending)

Finish(k) ==
    /\ status[k] = "running"
    /\ status' = [status EXCEPT ![k] = "done"]
    /\ UNCHANGED pending

Withdraw(k) ==
    /\ status[k] = "pending"
    /\ \E i \in 1..Len(pending) :
        /\ pending[i] = k
        /\ pending' = SubSeq(pending, 1, i - 1) \o SubSeq(pending, i + 1, Len(pending))
    /\ status' = [status EXCEPT ![k] = "withdrawn"]

Next == Start \/ \E k \in Tasks : Submit(k) \/ Finish(k) \/ Withdraw(k)

Spec == Init /\ [][Next]_vars /\ WF_vars(Start) /\ \A k \in Tasks : WF_vars(Finish(k))
=============================================================================
