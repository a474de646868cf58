---------------------------- MODULE IsdLockProofs ----------------------------
(***************************************************************************)
(* Theorems about the insert-search-delete lock, for any finite number of  *)
(* threads and operations and counters of any width.                       *)
(***************************************************************************)
EXTENDS IsdLock, FiniteSetTheorems, TLAPS

\* The threads between the count and the discount of their deletion.
Counted == {t \in Threads : pc[t] \in {"dIn", "dUncount"}}

\* The threads between the raising of the flag and the test that may clear it.
Asking == {t \in Threads : pc[t] \in {"dWait", "dKey", "dTake", "dCount", "dIn", "dUncount",
                                      "dTest", "dDown"}}

\* The counters hold the operations that are inside and the ones that forgot
\* to count themselves out, as far as a char can.
CountsMatch ==
    /\ Counts(count_is, Cardinality(Inserting) + leaked.is)
    /\ Counts(count_d, Cardinality(Counted) + leaked.d)
    /\ ~wrapped => count_is = Cardinality(Inserting) + leaked.is

\* Whom a deletion has to outlive is inside, unless somebody left unseen.
BeforeInside == leaked.is = 0 => \A d \in Threads : before[d] \subseteq Inserting

\* A raised flag and a taken key have somebody who will clear them.
SomebodyClears ==
    leaked.d = 0 =>
        /\ flag = 1 => Asking # {}
        /\ key = 1 => \E t \in Threads : pc[t] \in {"dCount", "dIn"}

IInv ==
    /\ TypeOK
    /\ CountsMatch
    /\ BeforeInside
    /\ EarlierOperationsGone
    /\ SomebodyClears

-----------------------------------------------------------------------------
(* Counting with a char *)

LEMMA LapsMultiply ==
    ASSUME CharsAssumption, NEW laps \in Nat
    PROVE  /\ laps * Chars \in Nat
           /\ (laps + 1) * Chars = laps * Chars + Chars
           /\ laps # 0 => (laps - 1) * Chars = laps * Chars - Chars
BY DEF CharsAssumption

LEMMA CountedUp ==
    ASSUME CharsAssumption, NEW c \in 0..(Chars - 1), NEW n \in Nat, Counts(c, n)
    PROVE  Up(c) \in 0..(Chars - 1) /\ Counts(Up(c), n + 1)
<1>1. PICK laps \in 0..n : n = c + laps * Chars
  BY DEF Counts
<1>2. laps * Chars \in Nat /\ (laps + 1) * Chars = laps * Chars + Chars
  BY <1>1, LapsMultiply
<1>3. CASE c = Chars - 1
  <2>1. Up(c) = 0 /\ laps + 1 \in 0..(n + 1)
    BY <1>1, <1>3 DEF Up
  <2>2. n + 1 = Up(c) + (laps + 1) * Chars
    BY <1>1, <1>2, <1>3, <2>1 DEF CharsAssumption
  <2>5. Up(c) \in 0..(Chars - 1)
    BY <2>1 DEF CharsAssumption
  <2>6. Counts(Up(c), n + 1)
    <3>1. SUFFICES \E l \in 0..(n + 1) : n + 1 = Up(c) + l * Chars
      BY DEF Counts
    <3>2. WITNESS laps + 1 \in 0..(n + 1)
    <3> QED
      BY <2>2
  <2> QED
    BY <2>5, <2>6
<1>4. CASE c # Chars - 1
  <2>1. Up(c) = c + 1 /\ laps \in 0..(n + 1)
    BY <1>1, <1>4 DEF Up
  <2>2. n + 1 = Up(c) + laps * Chars
    BY <1>1, <1>2, <2>1
  <2>5. Up(c) \in 0..(Chars - 1)
    BY <1>4, <2>1 DEF CharsAssumption
  <2>6. Counts(Up(c), n + 1)
    <3>1. SUFFICES \E l \in 0..(n + 1) : n + 1 = Up(c) + l * Chars
      BY DEF Counts
    <3>2. WITNESS laps \in 0..(n + 1)
    <3> QED
      BY <2>2
  <2> QED
    BY <2>5, <2>6
<1> QED
  BY <1>3, <1>4

LEMMA CountedDown ==
    ASSUME CharsAssumption, NEW c \in 0..(Chars - 1), NEW n \in Nat, Counts(c, n), n # 0
    PROVE  Down(c) \in 0..(Chars - 1) /\ Counts(Down(c), n - 1)
<1>1. PICK laps \in 0..n : n = c + laps * Chars
  BY DEF Counts
<1>2. laps * Chars \in Nat /\ (laps # 0 => (laps - 1) * Chars = laps * Chars - Chars)
  BY <1>1, LapsMultiply
<1>3. Chars \in Nat /\ Chars > 0 /\ 0 * Chars = 0
  BY DEF CharsAssumption
<1>4. CASE c = 0
  <2>1. laps # 0
    BY <1>1, <1>3, <1>4
  <2>2. Down(c) = Chars - 1 /\ laps - 1 \in 0..(n - 1)
    BY <1>1, <1>4, <2>1 DEF Down
  <2>3. n - 1 = Down(c) + (laps - 1) * Chars
    BY <1>1, <1>2, <1>3, <1>4, <2>1, <2>2
  <2>5. Down(c) \in 0..(Chars - 1)
    BY <1>3, <2>2 DEF CharsAssumption
  <2>6. Counts(Down(c), n - 1)
    <3>1. SUFFICES \E l \in 0..(n - 1) : n - 1 = Down(c) + l * Chars
      BY DEF Counts
    <3> USE <2>2
    <3>2. WITNESS laps - 1 \in 0..(n - 1)
    <3> QED
      BY <2>3
  <2> QED
    BY <2>5, <2>6
<1>5. CASE c # 0
  <2>1. Down(c) = c - 1
    BY <1>5 DEF Down
  <2>2. n - 1 = Down(c) + laps * Chars
    BY <1>1, <1>2, <2>1
  <2>3. laps # 0 => Chars <= laps * Chars /\ laps <= laps * Chars
    BY <1>1, <1>3
  <2>4. laps \in 0..(n - 1)
    BY <1>1, <1>2, <1>5, <2>3
  <2>5. Down(c) \in 0..(Chars - 1)
    BY <1>3, <1>5, <2>1 DEF CharsAssumption
  <2>6. Counts(Down(c), n - 1)
    <3>1. SUFFICES \E l \in 0..(n - 1) : n - 1 = Down(c) + l * Chars
      BY DEF Counts
    <3>2. WITNESS laps \in 0..(n - 1)
    <3> QED
      BY <2>2
  <2> QED
    BY <2>5, <2>6
<1> QED
  BY <1>4, <1>5

-----------------------------------------------------------------------------
(* Counting the threads at a step *)

LEMMA InsertingCounted ==
    ASSUME ThreadsAssumption
    PROVE  IsFiniteSet(Inserting) /\ Cardinality(Inserting) \in Nat
<1>1. Inserting \in SUBSET Threads
  BY DEF Inserting
<1>2. IsFiniteSet(Inserting)
  BY <1>1, FS_Subset DEF ThreadsAssumption
<1> QED
  BY <1>2, FS_CardinalityType

LEMMA CountedCounted ==
    ASSUME ThreadsAssumption
    PROVE  IsFiniteSet(Counted) /\ Cardinality(Counted) \in Nat
<1>1. Counted \in SUBSET Threads
  BY DEF Counted
<1>2. IsFiniteSet(Counted)
  BY <1>1, FS_Subset DEF ThreadsAssumption
<1> QED
  BY <1>2, FS_CardinalityType

\* A step of a thread changes the number of threads that are inside by one
\* where it comes in or goes out, and not otherwise.
LEMMA InsertingMoved ==
    ASSUME ThreadsAssumption, pc \in [Threads -> PC], NEW t \in Threads,
           NEW from \in PC, NEW to \in PC, Move(t, from, to)
    PROVE  /\ from # "isIn" /\ to # "isIn" => Inserting' = Inserting
           /\ from # "isIn" /\ to = "isIn" =>
                Inserting' = Inserting \cup {t} /\ Cardinality(Inserting') = Cardinality(Inserting) + 1
           /\ from = "isIn" /\ to # "isIn" =>
                /\ Inserting' = Inserting \ {t} /\ t \in Inserting
                /\ Cardinality(Inserting') = Cardinality(Inserting) - 1
<1>1. from # "isIn" /\ to # "isIn" => Inserting' = Inserting
  BY DEF Inserting, Move
<1>2. from # "isIn" /\ to = "isIn" => Inserting' = Inserting \cup {t} /\ t \notin Inserting
  BY DEF Inserting, Move
<1>3. from = "isIn" /\ to # "isIn" => Inserting' = Inserting \ {t} /\ t \in Inserting
  BY DEF Inserting, Move
<1>4. IsFiniteSet(Inserting)
  BY InsertingCounted
<1>5. /\ t \notin Inserting => Cardinality(Inserting \cup {t}) = Cardinality(Inserting) + 1
      /\ t \in Inserting => Cardinality(Inserting \ {t}) = Cardinality(Inserting) - 1
  BY <1>4, FS_AddElement, FS_RemoveElement
<1> QED
  BY <1>1, <1>2, <1>3, <1>5

LEMMA CountedMoved ==
    ASSUME ThreadsAssumption, pc \in [Threads -> PC], NEW t \in Threads,
           NEW from \in PC, NEW to \in PC, Move(t, from, to)
    PROVE  /\ from \notin {"dIn", "dUncount"} /\ to \notin {"dIn", "dUncount"} => Counted' = Counted
           /\ from \in {"dIn", "dUncount"} /\ to \in {"dIn", "dUncount"} => Counted' = Counted
           /\ from \notin {"dIn", "dUncount"} /\ to \in {"dIn", "dUncount"} =>
                Cardinality(Counted') = Cardinality(Counted) + 1
           /\ from \in {"dIn", "dUncount"} /\ to \notin {"dIn", "dUncount"} =>
                Cardinality(Counted') = Cardinality(Counted) - 1
<1>1. from \notin {"dIn", "dUncount"} /\ to \notin {"dIn", "dUncount"} => Counted' = Counted
  BY DEF Counted, Move
<1>2. from \in {"dIn", "dUncount"} /\ to \in {"dIn", "dUncount"} => Counted' = Counted
  BY DEF Counted, Move
<1>3. from \notin {"dIn", "dUncount"} /\ to \in {"dIn", "dUncount"} =>
        Counted' = Counted \cup {t} /\ t \notin Counted
  BY DEF Counted, Move
<1>4. from \in {"dIn", "dUncount"} /\ to \notin {"dIn", "dUncount"} =>
        Counted' = Counted \ {t} /\ t \in Counted
  BY DEF Counted, Move
<1>5. IsFiniteSet(Counted)
  BY CountedCounted
<1>6. /\ t \notin Counted => Cardinality(Counted \cup {t}) = Cardinality(Counted) + 1
      /\ t \in Counted => Cardinality(Counted \ {t}) = Cardinality(Counted) - 1
  BY <1>5, FS_AddElement, FS_RemoveElement
<1> QED
  BY <1>1, <1>2, <1>3, <1>4, <1>6

-----------------------------------------------------------------------------
(* The invariant *)

LEMMA InitIInv ==
    ASSUME ThreadsAssumption, CharsAssumption, OpsAssumption, Init
    PROVE  IInv
<1>1. TypeOK
  <2>1. 0 \in 0..(Chars - 1) /\ MaxOps \in 0..MaxOps
    BY CharsAssumption, OpsAssumption DEF CharsAssumption, OpsAssumption
  <2> QED
    BY <2>1 DEF Init, TypeOK, PC
<1>2. Inserting = {} /\ Counted = {}
  BY DEF Init, Inserting, Counted
<1>3. CountsMatch
  <2>1. Cardinality(Inserting) + leaked.is = 0 /\ Cardinality(Counted) + leaked.d = 0
    BY <1>2, FS_EmptySet DEF Init
  <2>2. Counts(0, 0)
    BY DEF Counts, CharsAssumption
  <2> QED
    BY <2>1, <2>2 DEF Init, CountsMatch
<1>4. BeforeInside
  BY DEF Init, BeforeInside
<1>5. EarlierOperationsGone
  BY DEF Init, EarlierOperationsGone
<1>6. SomebodyClears
  BY DEF Init, SomebodyClears
<1> QED
  BY <1>1, <1>3, <1>4, <1>5, <1>6 DEF IInv

\* A counter that goes down counts somebody.
LEMMA CountsPositive ==
    ASSUME ThreadsAssumption, NEW t \in Threads
    PROVE  /\ pc[t] = "isIn" => Cardinality(Inserting) > 0
           /\ pc[t] \in {"dIn", "dUncount"} => Cardinality(Counted) > 0
<1>1. pc[t] = "isIn" => Inserting # {}
  BY DEF Inserting
<1>2. pc[t] \in {"dIn", "dUncount"} => Counted # {}
  BY DEF Counted
<1>3. /\ Inserting # {} => Cardinality(Inserting) # 0
      /\ Counted # {} => Cardinality(Counted) # 0
  BY InsertingCounted, CountedCounted, FS_EmptySet
<1> QED
  BY <1>1, <1>2, <1>3, InsertingCounted, CountedCounted

LEMMA NextTypeOK ==
    ASSUME CharsAssumption, OpsAssumption, TypeOK, Next
    PROVE  TypeOK'
<1> PICK t \in Threads : IsStart(t) \/ DStart(t) \/ Operate(t) \/ IsLeak(t) \/ DLeak(t)
  BY DEF Next
<1>0. \A c \in 0..(Chars - 1) : Up(c) \in 0..(Chars - 1) /\ Down(c) \in 0..(Chars - 1)
  BY DEF Up, Down, CharsAssumption
<1> USE OpsAssumption DEF TypeOK, Move, PC
<1>1. CASE IsStart(t)
  BY <1>1 DEF IsStart, Start
<1>2. CASE DStart(t)
  BY <1>2 DEF DStart, Start, Inserting
<1>3. CASE IsPass(t) \/ DWait(t) \/ DKey(t)
  BY <1>3 DEF IsPass, DWait, DKey
<1>4. CASE IsCount(t) \/ DTake(t) \/ DCount(t) \/ DRelease(t)
  BY <1>4, <1>0 DEF IsCount, DTake, DCount, DRelease
<1>5. CASE IsRelease(t)
  BY <1>5, <1>0 DEF IsRelease, Left
<1>6. CASE DUncount(t)
  BY <1>6, <1>0 DEF DUncount
<1>7. CASE DTest(t) \/ DDown(t)
  BY <1>7 DEF DTest, DDown
<1>8. CASE IsLeak(t) \/ DLeak(t)
  BY <1>8 DEF IsLeak, DLeak
<1> QED
  BY <1>1, <1>2, <1>3, <1>4, <1>5, <1>6, <1>7, <1>8 DEF Operate

LEMMA NextCountsMatch ==
    ASSUME ThreadsAssumption, CharsAssumption, TypeOK, CountsMatch, Next
    PROVE  CountsMatch'
<1> PICK t \in Threads : IsStart(t) \/ DStart(t) \/ Operate(t) \/ IsLeak(t) \/ DLeak(t)
  BY DEF Next
<1>0. /\ Cardinality(Inserting) \in Nat /\ Cardinality(Counted) \in Nat
      /\ pc \in [Threads -> PC] /\ leaked \in [is : Nat, d : Nat]
      /\ count_is \in 0..(Chars - 1) /\ count_d \in 0..(Chars - 1) /\ wrapped \in BOOLEAN
      /\ leaked.is \in Nat /\ leaked.d \in Nat
  BY InsertingCounted, CountedCounted DEF TypeOK
<1>1. CASE IsStart(t)
  <2>1. Move(t, "idle", "isWait")
    BY <1>1 DEF IsStart, Start
  <2>2. Inserting' = Inserting /\ Counted' = Counted
    BY <1>0, <2>1, InsertingMoved, CountedMoved DEF PC
  <2> QED
    BY <1>1, <2>2 DEF IsStart, CountsMatch
<1>2. CASE DStart(t)
  <2>1. Move(t, "idle", "dWait")
    BY <1>2 DEF DStart, Start
  <2>2. Inserting' = Inserting /\ Counted' = Counted
    BY <1>0, <2>1, InsertingMoved, CountedMoved DEF PC
  <2> QED
    BY <1>2, <2>2 DEF DStart, CountsMatch
<1>3. CASE IsPass(t)
  <2>1. Inserting' = Inserting /\ Counted' = Counted
    BY <1>0, <1>3, InsertingMoved, CountedMoved DEF IsPass, PC
  <2> QED
    BY <1>3, <2>1 DEF IsPass, CountsMatch
<1>4. CASE IsCount(t)
  <2>1. Cardinality(Inserting') = Cardinality(Inserting) + 1
    BY <1>0, <1>4, InsertingMoved DEF IsCount, PC
  <2>2. Counted' = Counted
    BY <1>0, <1>4, CountedMoved DEF IsCount, PC
  <2>3. Counts(Up(count_is), Cardinality(Inserting) + leaked.is + 1)
    BY <1>0, CountedUp DEF CountsMatch
  <2>4. ~wrapped' => ~wrapped /\ Up(count_is) = count_is + 1
    BY <1>0, <1>4 DEF IsCount, Up
  <2>5. Cardinality(Inserting') + leaked'.is = Cardinality(Inserting) + leaked.is + 1
    BY <1>0, <1>4, <2>1 DEF IsCount
  <2> QED
    BY <1>4, <2>2, <2>3, <2>4, <2>5 DEF IsCount, CountsMatch
<1>5. CASE IsRelease(t)
  <2>1. Cardinality(Inserting') = Cardinality(Inserting) - 1
    BY <1>0, <1>5, InsertingMoved DEF IsRelease, PC
  <2>2. Counted' = Counted
    BY <1>0, <1>5, CountedMoved DEF IsRelease, PC
  <2>3. Cardinality(Inserting) > 0
    BY <1>5, CountsPositive DEF IsRelease, Move
  <2>4. Counts(Down(count_is), Cardinality(Inserting) + leaked.is - 1)
    BY <1>0, <2>3, CountedDown DEF CountsMatch
  <2>5. ~wrapped => Down(count_is) = count_is - 1
    BY <1>0, <2>3 DEF CountsMatch, Down
  <2>6. Cardinality(Inserting') + leaked'.is = Cardinality(Inserting) + leaked.is - 1
    BY <1>0, <1>5, <2>1 DEF IsRelease
  <2>7. Counts(count_is', Cardinality(Inserting') + leaked'.is)
    BY <1>5, <2>4, <2>6 DEF IsRelease
  <2>8. Counts(count_d', Cardinality(Counted') + leaked'.d)
    BY <1>5, <2>2 DEF IsRelease, CountsMatch
  <2>9. ~wrapped' => count_is' = Cardinality(Inserting') + leaked'.is
    <3>1. ~wrapped => count_is = Cardinality(Inserting) + leaked.is
      BY DEF CountsMatch
    <3>2. wrapped' = wrapped /\ count_is' = Down(count_is)
      BY <1>5 DEF IsRelease
    <3> QED
      BY <1>0, <2>5, <2>6, <3>1, <3>2
  <2> QED
    BY <2>7, <2>8, <2>9 DEF CountsMatch
<1>6. CASE IsLeak(t)
  <2>1. Cardinality(Inserting') = Cardinality(Inserting) - 1
    BY <1>0, <1>6, InsertingMoved DEF IsLeak, PC
  <2>2. Counted' = Counted
    BY <1>0, <1>6, CountedMoved DEF IsLeak, PC
  <2>3. Cardinality(Inserting') + leaked'.is = Cardinality(Inserting) + leaked.is
    BY <1>0, <1>6, <2>1 DEF IsLeak
  <2>4. leaked'.d = leaked.d
    BY <1>0, <1>6 DEF IsLeak
  <2> QED
    BY <1>6, <2>2, <2>3, <2>4 DEF IsLeak, CountsMatch
<1>7. CASE DWait(t)
  <2>1. Inserting' = Inserting /\ Counted' = Counted
    BY <1>0, <1>7, InsertingMoved, CountedMoved DEF DWait, PC
  <2> QED
    BY <1>7, <2>1 DEF DWait, CountsMatch
<1>8. CASE DKey(t)
  <2>1. Inserting' = Inserting /\ Counted' = Counted
    BY <1>0, <1>8, InsertingMoved, CountedMoved DEF DKey, PC
  <2> QED
    BY <1>8, <2>1 DEF DKey, CountsMatch
<1>9. CASE DTake(t)
  <2>1. Inserting' = Inserting /\ Counted' = Counted
    BY <1>0, <1>9, InsertingMoved, CountedMoved DEF DTake, PC
  <2> QED
    BY <1>9, <2>1 DEF DTake, CountsMatch
<1>10. CASE DCount(t)
  <2>1. Inserting' = Inserting
    BY <1>0, <1>10, InsertingMoved DEF DCount, PC
  <2>2. Cardinality(Counted') = Cardinality(Counted) + 1
    BY <1>0, <1>10, CountedMoved DEF DCount, PC
  <2>3. Counts(Up(count_d), Cardinality(Counted) + leaked.d + 1)
    BY <1>0, CountedUp DEF CountsMatch
  <2>4. Cardinality(Counted') + leaked'.d = Cardinality(Counted) + leaked.d + 1
    BY <1>0, <1>10, <2>2 DEF DCount
  <2> QED
    BY <1>10, <2>1, <2>3, <2>4 DEF DCount, CountsMatch
<1>11. CASE DLeak(t)
  <2>1. Inserting' = Inserting
    BY <1>0, <1>11, InsertingMoved DEF DLeak, PC
  <2>2. Cardinality(Counted') = Cardinality(Counted) - 1
    BY <1>0, <1>11, CountedMoved DEF DLeak, PC
  <2>3. Cardinality(Counted') + leaked'.d = Cardinality(Counted) + leaked.d
    BY <1>0, <1>11, <2>2 DEF DLeak
  <2>4. leaked'.is = leaked.is
    BY <1>0, <1>11 DEF DLeak
  <2> QED
    BY <1>11, <2>1, <2>3, <2>4 DEF DLeak, CountsMatch
<1>12. CASE DRelease(t)
  <2>1. Inserting' = Inserting /\ Counted' = Counted
    BY <1>0, <1>12, InsertingMoved, CountedMoved DEF DRelease, PC
  <2> QED
    BY <1>12, <2>1 DEF DRelease, CountsMatch
<1>13. CASE DUncount(t)
  <2>1. Inserting' = Inserting
    BY <1>0, <1>13, InsertingMoved DEF DUncount, PC
  <2>2. Cardinality(Counted') = Cardinality(Counted) - 1
    BY <1>0, <1>13, CountedMoved DEF DUncount, PC
  <2>3. Cardinality(Counted) > 0
    BY <1>13, CountsPositive DEF DUncount, Move
  <2>4. Counts(Down(count_d), Cardinality(Counted) + leaked.d - 1)
    BY <1>0, <2>3, CountedDown DEF CountsMatch
  <2>5. Cardinality(Counted') + leaked'.d = Cardinality(Counted) + leaked.d - 1
    BY <1>0, <1>13, <2>2 DEF DUncount
  <2> QED
    BY <1>13, <2>1, <2>4, <2>5 DEF DUncount, CountsMatch
<1>14. CASE DTest(t)
  <2>1. Move(t, "dTest", "dDown") \/ Move(t, "dTest", "idle")
    BY <1>14 DEF DTest
  <2>2. Inserting' = Inserting /\ Counted' = Counted
    BY <1>0, <2>1, InsertingMoved, CountedMoved DEF PC
  <2> QED
    BY <1>14, <2>2 DEF DTest, CountsMatch
<1>15. CASE DDown(t)
  <2>1. Inserting' = Inserting /\ Counted' = Counted
    BY <1>0, <1>15, InsertingMoved, CountedMoved DEF DDown, PC
  <2> QED
    BY <1>15, <2>1 DEF DDown, CountsMatch
<1> QED
  BY <1>1, <1>2, <1>3, <1>4, <1>5, <1>6, <1>7, <1>8, <1>9, <1>10, <1>11,
     <1>12, <1>13, <1>14, <1>15 DEF Operate

LEMMA NextBeforeInside ==
    ASSUME TypeOK, BeforeInside, Next
    PROVE  BeforeInside'
<1> PICK t \in Threads : IsStart(t) \/ DStart(t) \/ Operate(t) \/ IsLeak(t) \/ DLeak(t)
  BY DEF Next
<1> USE DEF TypeOK, BeforeInside, Inserting, Move
<1>1. CASE IsStart(t)
  BY <1>1 DEF IsStart, Start
<1>2. CASE DStart(t)
  BY <1>2 DEF DStart, Start
<1>3. CASE IsPass(t) \/ IsCount(t)
  BY <1>3 DEF IsPass, IsCount
<1>4. CASE IsRelease(t)
  BY <1>4 DEF IsRelease, Left
\* From now on somebody has left unseen.
<1>5. CASE IsLeak(t)
  <2>1. leaked'.is # 0
    BY <1>5 DEF IsLeak
  <2> QED
    BY <2>1
<1>6. CASE DLeak(t)
  BY <1>6 DEF DLeak
<1>7. CASE DWait(t) \/ DKey(t) \/ DTake(t) \/ DCount(t)
  BY <1>7 DEF DWait, DKey, DTake, DCount
<1>8. CASE DRelease(t) \/ DUncount(t) \/ DDown(t)
  BY <1>8 DEF DRelease, DUncount, DDown
<1>9. CASE DTest(t)
  BY <1>9 DEF DTest
<1> QED
  BY <1>1, <1>2, <1>3, <1>4, <1>5, <1>6, <1>7, <1>8, <1>9 DEF Operate

LEMMA NextEarlierOperationsGone ==
    ASSUME ThreadsAssumption, CharsAssumption, TypeOK, CountsMatch, BeforeInside,
           EarlierOperationsGone, Next
    PROVE  EarlierOperationsGone'
<1> PICK t \in Threads : IsStart(t) \/ DStart(t) \/ Operate(t) \/ IsLeak(t) \/ DLeak(t)
  BY DEF Next
\* Until it wraps, the count the deletion waits for is zero only if nobody is
\* inside, counted or not.
<1>0. count_is = 0 /\ ~wrapped => Inserting = {} /\ leaked.is = 0
  <2>1. IsFiniteSet(Inserting) /\ Cardinality(Inserting) \in Nat
    BY InsertingCounted
  <2>2. Cardinality(Inserting) = 0 => Inserting = {}
    BY <2>1, FS_EmptySet
  <2> QED
    BY <2>1, <2>2 DEF CountsMatch, TypeOK
<1>1. CASE DWait(t)
  <2>1. ~wrapped => before[t] = {}
    BY <1>0, <1>1 DEF DWait, BeforeInside
  <2> QED
    BY <1>1, <2>1 DEF DWait, Move, EarlierOperationsGone, TypeOK
<1> USE DEF TypeOK, EarlierOperationsGone, Move
<1>2. CASE DStart(t)
  BY <1>2 DEF DStart, Start
<1>3. CASE IsRelease(t)
  BY <1>3 DEF IsRelease, Left
<1>4. CASE IsStart(t)
  BY <1>4 DEF IsStart, Start
<1>5. CASE IsPass(t) \/ IsCount(t) \/ IsLeak(t) \/ DLeak(t)
  BY <1>5 DEF IsPass, IsCount, IsLeak, DLeak
<1>6. CASE DKey(t) \/ DTake(t) \/ DCount(t)
  BY <1>6 DEF DKey, DTake, DCount
<1>7. CASE DRelease(t) \/ DUncount(t) \/ DDown(t)
  BY <1>7 DEF DRelease, DUncount, DDown
<1>8. CASE DTest(t)
  BY <1>8 DEF DTest
<1> QED
  BY <1>1, <1>2, <1>3, <1>4, <1>5, <1>6, <1>7, <1>8 DEF Operate

LEMMA NextSomebodyClears ==
    ASSUME ThreadsAssumption, CharsAssumption, TypeOK, CountsMatch, SomebodyClears, Next
    PROVE  SomebodyClears'
<1> PICK t \in Threads : IsStart(t) \/ DStart(t) \/ Operate(t) \/ IsLeak(t) \/ DLeak(t)
  BY DEF Next
<1>1. CASE DTest(t)
  <2>1. CASE count_d = 0
    BY <1>1, <2>1 DEF DTest, Move, TypeOK, SomebodyClears, Asking
  \* The deletion goes without clearing the flag: another one is counted.
  <2>2. CASE count_d # 0 /\ leaked.d = 0
    <3>1. Cardinality(Counted) # 0
      <4>1. PICK laps \in 0..Cardinality(Counted) : Cardinality(Counted) = count_d + laps * Chars
        BY <2>2, CountedCounted DEF CountsMatch, Counts
      <4>2. laps * Chars \in Nat
        BY <4>1, LapsMultiply
      <4> QED
        BY <2>2, <4>1, <4>2 DEF TypeOK
    <3>2. Counted # {}
      BY <3>1, FS_EmptySet
    <3>3. PICK u \in Threads : pc[u] \in {"dIn", "dUncount"}
      BY <3>2 DEF Counted
    <3>4. u \in Asking'
      BY <1>1, <3>3 DEF DTest, Move, TypeOK, Asking
    <3> QED
      BY <1>1, <2>2, <3>4 DEF DTest, Move, TypeOK, SomebodyClears
  <2>3. CASE leaked.d # 0
    BY <1>1, <2>3 DEF DTest, SomebodyClears
  <2> QED
    BY <2>1, <2>2, <2>3
<1>2. CASE DLeak(t)
  <2>1. leaked'.d # 0
    BY <1>2 DEF DLeak, TypeOK
  <2> QED
    BY <2>1 DEF SomebodyClears
<1> USE DEF TypeOK, SomebodyClears, Asking, Move
<1>3. CASE IsStart(t)
  BY <1>3 DEF IsStart, Start
<1>4. CASE DStart(t)
  BY <1>4 DEF DStart, Start
<1>5. CASE IsPass(t) \/ IsCount(t) \/ IsRelease(t) \/ IsLeak(t)
  BY <1>5 DEF IsPass, IsCount, IsRelease, IsLeak
<1>6. CASE DWait(t) \/ DKey(t)
  BY <1>6 DEF DWait, DKey
<1>7. CASE DTake(t) \/ DCount(t)
  BY <1>7 DEF DTake, DCount
<1>8. CASE DRelease(t)
  BY <1>8 DEF DRelease
<1>9. CASE DUncount(t)
  BY <1>9 DEF DUncount
<1>10. CASE DDown(t)
  BY <1>10 DEF DDown
<1> QED
  BY <1>1, <1>2, <1>3, <1>4, <1>5, <1>6, <1>7, <1>8, <1>9, <1>10 DEF Operate

LEMMA StutterIInv ==
    ASSUME IInv, UNCHANGED vars
    PROVE  IInv'
BY DEF IInv, vars, TypeOK, CountsMatch, BeforeInside, EarlierOperationsGone, SomebodyClears,
       Inserting, Counted, Asking

LEMMA NextIInv ==
    ASSUME ThreadsAssumption, CharsAssumption, OpsAssumption, IInv, [Next]_vars
    PROVE  IInv'
<1>1. CASE Next
  <2>1. TypeOK /\ CountsMatch /\ BeforeInside /\ EarlierOperationsGone /\ SomebodyClears
    BY DEF IInv
  <2>2. TypeOK'
    BY <1>1, <2>1, NextTypeOK
  <2>3. CountsMatch'
    BY <1>1, <2>1, NextCountsMatch
  <2>4. BeforeInside'
    BY <1>1, <2>1, NextBeforeInside
  <2>5. EarlierOperationsGone'
    BY <1>1, <2>1, NextEarlierOperationsGone
  <2>6. SomebodyClears'
    BY <1>1, <2>1, NextSomebodyClears
  <2> QED
    BY <2>2, <2>3, <2>4, <2>5, <2>6 DEF IInv
<1>2. CASE UNCHANGED vars
  BY <1>2, StutterIInv
<1> QED
  BY <1>1, <1>2

LEMMA Invariant == Spec => []IInv
<1>1. Init => IInv
  BY InitIInv, ThreadsAssumption, CharsAssumption, OpsAssumption
<1>2. IInv /\ [Next]_vars => IInv'
  BY NextIInv, ThreadsAssumption, CharsAssumption, OpsAssumption
<1> QED
  BY <1>1, <1>2, PTL DEF Spec

-----------------------------------------------------------------------------
(* The theorems *)

\* The state of the lock stays what isd_lock declares, and every thread at a
\* step of the five functions.
THEOREM TypeCorrect == Spec => []TypeOK
<1>1. IInv => TypeOK
  BY DEF IInv
<1> QED
  BY <1>1, Invariant, PTL

\* A delete that isd_d_require has let go on has outlived every insert and
\* search that was inside when it raised the flag, for any number of threads
\* and any width of the counter, until as many as it can count were inside.
THEOREM EarlierOperationsOutlived == Spec => []EarlierOperationsGone
<1>1. IInv => EarlierOperationsGone
  BY DEF IInv
<1> QED
  BY <1>1, Invariant, PTL

\* A lock that nobody uses holds the counts of the operations that returned
\* without release, modulo the width of the counters and however often they
\* wrapped, and is open if no deletion was one of them.
THEOREM RestIsUnlocked == Spec => []AtRestUnlocked
<1>1. ASSUME IInv
      PROVE  AtRestUnlocked
  <2>1. SUFFICES ASSUME AllIdle
                 PROVE  /\ Counts(count_is, leaked.is) /\ Counts(count_d, leaked.d)
                        /\ leaked.d = 0 => (flag = 0 /\ key = 0)
    BY DEF AtRestUnlocked
  <2>2. Inserting = {} /\ Counted = {} /\ Asking = {}
    BY <2>1 DEF AllIdle, Inserting, Counted, Asking
  <2>3. Counts(count_is, leaked.is) /\ Counts(count_d, leaked.d)
    <3>1. Cardinality(Inserting) + leaked.is = leaked.is /\ Cardinality(Counted) + leaked.d = leaked.d
      BY <1>1, <2>2, FS_EmptySet DEF IInv, TypeOK
    <3> QED
      BY <1>1, <3>1 DEF IInv, CountsMatch
  <2>4. leaked.d = 0 => (flag = 0 /\ key = 0)
    BY <1>1, <2>1, <2>2 DEF IInv, SomebodyClears, TypeOK, AllIdle
  <2> QED
    BY <2>3, <2>4
<1> QED
  BY <1>1, Invariant, PTL
=============================================================================
