------------------------------- MODULE IsdLock -------------------------------
(***************************************************************************)
(* The insert-search-delete lock of an index (src/latch/isdlock.c), and    *)
(* its users in src/interface/interface.c: iinsert and isearch take the IS *)
(* side, iremove the D side.  Each access to an atomic or to flag is one   *)
(* step.  flag has one bit, so flag |= 1 and flag &= ~1 are plain stores.  *)
(* The counters are atomic_char: an addition to the last value gives the   *)
(* first, silently.  Nothing but zero is told apart, so their values are   *)
(* taken as 0 .. Chars - 1.                                                *)
(***************************************************************************)
EXTENDS Integers, FiniteSets

CONSTANTS
    Threads,
    Chars,          \* the number of values of a char, 256 in the program
    MaxOps          \* bound: operations a thread starts

ASSUME ThreadsAssumption == IsFiniteSet(Threads)
ASSUME CharsAssumption == Chars \in Nat \ {0}
ASSUME OpsAssumption == MaxOps \in Nat

VARIABLES
    count_is, count_d, key, flag,
    pc,         \* thread -> the step it is at
    ops,        \* thread -> operations it still may start
    before,     \* history: deleting thread -> the IS threads that were inside
                \* when it raised the flag and have not left
    leaked,     \* the IS and D operations that returned without a release
    wrapped     \* history: count_is has been counted up to zero

vars == <<count_is, count_d, key, flag, pc, ops, before, leaked, wrapped>>

\* Mutant: the counter is as wide as it has to be.
UpWide(c) == c + 1

\* atomic_fetch_add and atomic_fetch_sub of 1
Up(c) == IF c = Chars - 1 THEN 0 ELSE c + 1
Down(c) == IF c = 0 THEN Chars - 1 ELSE c - 1

PC == {"idle", "isWait", "isCount", "isIn",
       "dWait", "dKey", "dTake", "dCount", "dIn", "dUncount", "dTest", "dDown"}

TypeOK ==
    /\ count_is \in 0..(Chars - 1) /\ count_d \in 0..(Chars - 1)
    /\ key \in {0, 1} /\ flag \in {0, 1}
    /\ pc \in [Threads -> PC]
    /\ ops \in [Threads -> 0..MaxOps]
    /\ before \in [Threads -> SUBSET Threads]
    /\ leaked \in [is : Nat, d : Nat]
    /\ wrapped \in BOOLEAN

Inserting == {t \in Threads : pc[t] = "isIn"}
Deleting == {t \in Threads : pc[t] = "dIn"}

\* isd_init
Init ==
    /\ count_is = 0 /\ count_d = 0 /\ key = 0 /\ flag = 0
    /\ pc = [t \in Threads |-> "idle"]
    /\ ops = [t \in Threads |-> MaxOps]
    /\ before = [t \in Threads |-> {}]
    /\ leaked = [is |-> 0, d |-> 0]
    /\ wrapped = FALSE

Move(t, from, to) == pc[t] = from /\ pc' = [pc EXCEPT ![t] = to]

Start(t, to) ==
    /\ ops[t] > 0                                               \* bound
    /\ ops' = [ops EXCEPT ![t] = @ - 1]
    /\ Move(t, "idle", to)

-----------------------------------------------------------------------------
(* isd_is_require and isd_is_release *)

IsStart(t) ==
    /\ Start(t, "isWait")
    /\ UNCHANGED <<count_is, count_d, key, flag, before, leaked, wrapped>>

\* The flag is seen clear; it may be raised before the count goes up.
IsPass(t) ==
    /\ flag = 0
    /\ Move(t, "isWait", "isCount")
    /\ UNCHANGED <<count_is, count_d, key, flag, ops, before, leaked, wrapped>>

IsCount(t) ==
    /\ Move(t, "isCount", "isIn")
    /\ count_is' = Up(count_is)
    /\ wrapped' = (wrapped \/ Up(count_is) = 0)
    /\ UNCHANGED <<count_d, key, flag, ops, before, leaked>>

Left(t) == before' = [d \in Threads |-> before[d] \ {t}]

IsRelease(t) ==
    /\ Move(t, "isIn", "idle")
    /\ count_is' = Down(count_is)
    /\ Left(t)
    /\ UNCHANGED <<count_d, key, flag, ops, leaked, wrapped>>

\* iinsert of a key that is there: it returns with the lock held.
IsLeak(t) ==
    /\ Move(t, "isIn", "idle")
    /\ leaked' = [leaked EXCEPT !.is = @ + 1]
    /\ UNCHANGED <<count_is, count_d, key, flag, ops, before, wrapped>>

-----------------------------------------------------------------------------
(* isd_d_require *)

DStart(t) ==
    /\ Start(t, "dWait")
    /\ flag' = 1
    /\ before' = [before EXCEPT ![t] = Inserting]
    /\ UNCHANGED <<count_is, count_d, key, leaked, wrapped>>

\* Mutant: the count is not waited for.
DWaitSkipped(t) ==
    /\ Move(t, "dWait", "dKey")
    /\ UNCHANGED <<count_is, count_d, key, flag, ops, before, leaked, wrapped>>

DWait(t) ==
    /\ count_is = 0
    /\ Move(t, "dWait", "dKey")
    /\ UNCHANGED <<count_is, count_d, key, flag, ops, before, leaked, wrapped>>

\* The key is seen free, and taken in another step.
DKey(t) ==
    /\ key = 0
    /\ Move(t, "dKey", "dTake")
    /\ UNCHANGED <<count_is, count_d, key, flag, ops, before, leaked, wrapped>>

DTake(t) ==
    /\ Move(t, "dTake", "dCount")
    /\ key' = 1
    /\ UNCHANGED <<count_is, count_d, flag, ops, before, leaked, wrapped>>

DCount(t) ==
    /\ Move(t, "dCount", "dIn")
    /\ count_d' = Up(count_d)
    /\ UNCHANGED <<count_is, key, flag, ops, before, leaked, wrapped>>

\* iremove of a key that is not there: it returns with the lock held.
DLeak(t) ==
    /\ Move(t, "dIn", "idle")
    /\ leaked' = [leaked EXCEPT !.d = @ + 1]
    /\ UNCHANGED <<count_is, count_d, key, flag, ops, before, wrapped>>

-----------------------------------------------------------------------------
(* isd_d_release *)

\* Mutant: the key stays taken.
DReleaseKept(t) ==
    /\ Move(t, "dIn", "dUncount")
    /\ UNCHANGED <<count_is, count_d, key, flag, ops, before, leaked, wrapped>>

DRelease(t) ==
    /\ Move(t, "dIn", "dUncount")
    /\ key' = 0
    /\ UNCHANGED <<count_is, count_d, flag, ops, before, leaked, wrapped>>

DUncount(t) ==
    /\ Move(t, "dUncount", "dTest")
    /\ count_d' = Down(count_d)
    /\ UNCHANGED <<count_is, key, flag, ops, before, leaked, wrapped>>

\* Mutant: the delete that came first clears the flag.
DTestStrict(t) ==
    /\ \/ count_d = 1 /\ Move(t, "dTest", "dDown")
       \/ count_d # 1 /\ Move(t, "dTest", "idle")
    /\ UNCHANGED <<count_is, count_d, key, flag, ops, before, leaked, wrapped>>

DTest(t) ==
    /\ \/ count_d = 0 /\ Move(t, "dTest", "dDown")
       \/ count_d # 0 /\ Move(t, "dTest", "idle")
    /\ UNCHANGED <<count_is, count_d, key, flag, ops, before, leaked, wrapped>>

DDown(t) ==
    /\ Move(t, "dDown", "idle")
    /\ flag' = 0
    /\ UNCHANGED <<count_is, count_d, key, ops, before, leaked, wrapped>>

-----------------------------------------------------------------------------
Operate(t) ==
    \/ IsPass(t) \/ IsCount(t) \/ IsRelease(t) \/ DWait(t) \/ DKey(t)
    \/ DTake(t) \/ DCount(t) \/ DRelease(t) \/ DUncount(t) \/ DTest(t) \/ DDown(t)

Next == \E t \in Threads :
    IsStart(t) \/ DStart(t) \/ Operate(t) \/ IsLeak(t) \/ DLeak(t)

Spec == Init /\ [][Next]_vars

\* A thread inside an operation goes on; a spin ends when what it waits for
\* stays true.
FairSpec == Spec /\ \A t \in Threads : WF_vars(Operate(t))

-----------------------------------------------------------------------------
AllIdle == \A t \in Threads : pc[t] = "idle"
NothingLeaked == leaked.is = 0 /\ leaked.d = 0

\* c is what an atomic_char holds that was counted up n times more than down.
Counts(c, n) == \E laps \in 0..n : n = c + laps * Chars

\* "waiting all of operations in CS they coming before del flag, after they
\* gone the delele opertion will start" (isdlock.h:15): a delete that has the
\* lock has outlived every insert and search that was inside when it asked.
\* So it is until count_is has wrapped: as many insertions and searches inside
\* or gone without release as a char has values look like none.
EarlierOperationsGone ==
    ~wrapped =>
        \A d \in Threads : pc[d] \in {"dKey", "dTake", "dCount", "dIn"} => before[d] = {}

\* Whatever the interleaving of the two sides, and however often the counters
\* wrapped, a lock nobody uses is open, and keeps exactly the counts, as far as
\* a char can, of the operations that forgot to release it.
AtRestUnlocked ==
    AllIdle => /\ Counts(count_is, leaked.is) /\ Counts(count_d, leaked.d)
               /\ leaked.d = 0 => (flag = 0 /\ key = 0)

\* No interleaving locks the index up: with finitely many operations, all of
\* them return, unless one has returned without releasing.
EveryoneGetsThrough == <>[](AllIdle \/ ~NothingLeaked)
=============================================================================
