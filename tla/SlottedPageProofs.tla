-------------------------- MODULE SlottedPageProofs --------------------------
(***************************************************************************)
(* Theorems about the slotted page, for every page size and entry width.   *)
(***************************************************************************)
EXTENDS SlottedPage, FiniteSetTheorems, TLAPS

\* The two tests of the code agree: is_page_full says n entries fill the page
\* exactly when n reaches get_max_entries.
LEMMA FullMeansMaxEntries ==
    /\ MaxEntries \in Nat \ {0}
    /\ MaxEntries < SLOTNULL
    /\ \A n \in Nat : IsPageFull(n) <=> n >= MaxEntries
<1> DEFINE e == Width + SLOTENTRYSIZE
           q == Space \div e
<1>1. e \in Nat /\ e >= 2 /\ Space \in Nat /\ Space >= e /\ Space < SLOTNULL
  BY PageAssumption DEF SLOTENTRYSIZE
<1>2. q \in Int /\ e * q <= Space /\ Space < e * (q + 1)
  BY <1>1
<1> HIDE DEF e
<1>3. q \in Nat /\ q >= 1 /\ q <= Space
  BY <1>1, <1>2
<1>4. ASSUME NEW n \in Nat PROVE Space < e * (n + 1) <=> n >= q
  <2>1. ASSUME NEW a \in Nat, NEW b \in Nat, a <= b PROVE e * a <= e * b
    <3>1. e * (b - a) >= 0 /\ e * b = e * a + e * (b - a)
      BY <1>1, <2>1
    <3>2. e * a \in Int /\ e * b \in Int /\ e * (b - a) \in Int
      BY <1>1
    <3> QED
      BY <3>1, <3>2
  <2>2. e * (n + 1) \in Int /\ e * q \in Int /\ e * (q + 1) \in Int
    BY <1>1, <1>3
  <2>3. CASE n >= q
    BY <1>1, <1>2, <1>3, <2>1, <2>2, <2>3, e * (q + 1) <= e * (n + 1)
  <2>4. CASE n < q
    BY <1>1, <1>2, <1>3, <2>1, <2>2, <2>4, e * (n + 1) <= e * q
  <2> QED
    BY <1>3, <2>3, <2>4
<1>5. MaxEntries = q /\ \A n \in Nat : IsPageFull(n) <=> Space < e * (n + 1)
  BY DEF MaxEntries, IsPageFull, e
<1> HIDE DEF q
<1> QED
  BY <1>1, <1>3, <1>4, <1>5 DEF SLOTNULL

-----------------------------------------------------------------------------
Counted == IsFiniteSet(Seated) /\ record_num = Cardinality(Seated)

\* Inserting takes the first slot off the list.
LEMMA InsertList ==
    ASSUME TypeOK, NEW c, FreeList(c), c \in [1..Free -> Slots],
           NEW item, Insert(item),
           NEW d, d = [k \in 1..(Free - 1) |-> c[k + 1]]
    PROVE  /\ record_num < MaxEntries
           /\ c[1] \in Slots /\ free_slot_offset = c[1] /\ ~slot[c[1]].seat
           /\ Seated' = Seated \cup {c[1]}
           /\ FreeList(d)'
           /\ d \in [1..Free' -> Slots]
<1> USE FullMeansMaxEntries
<1> DEFINE n == Free
<1>1. n \in Nat /\ record_num \in Nat /\ Free' = n - 1 /\ record_num' = record_num + 1
  <2>1. MaxEntries \in Nat /\ record_num \in Nat /\ record_num <= MaxEntries
    BY DEF TypeOK
  <2>2. record_num' = record_num + 1
    BY DEF Insert
  <2> QED
    BY <2>1, <2>2 DEF Free
<1>2. n # 0 /\ free_slot_offset = c[1]
  BY <1>1 DEF FreeList, Insert
<1>3. 1 \in 1..n /\ c[1] \in Slots /\ ~slot[c[1]].seat
  BY <1>1, <1>2 DEF FreeList
<1>4. /\ slot'[c[1]].seat
      /\ \A i \in Slots : slot'[i].value = slot[i].value
      /\ \A i \in Slots \ {c[1]} : slot'[i] = slot[i]
  BY <1>2, <1>3 DEF Insert, TypeOK
<1>5. Seated' = Seated \cup {c[1]}
  BY <1>3, <1>4 DEF Seated
<1>6. d \in [1..(n - 1) -> Slots] /\ \A k \in 1..(n - 1) : k + 1 \in 1..n /\ d[k] = c[k + 1]
  BY <1>1
<1>7. \A k \in 1..(n - 1) : d[k] # c[1] /\ ~slot'[d[k]].seat
  <2> SUFFICES ASSUME NEW k \in 1..(n - 1)
               PROVE  d[k] # c[1] /\ ~slot'[d[k]].seat
    OBVIOUS
  <2>1. k + 1 \in 1..n /\ k + 1 # 1
    BY <1>1
  <2> QED
    BY <1>3, <1>4, <1>6, <2>1 DEF FreeList
<1>8. \A k, l \in 1..(n - 1) : d[k] = d[l] => k = l
  <2> SUFFICES ASSUME NEW k \in 1..(n - 1), NEW l \in 1..(n - 1), d[k] = d[l]
               PROVE  k = l
    OBVIOUS
  <2>1. k + 1 = l + 1
    BY <1>6 DEF FreeList
  <2> QED
    BY <1>1, <2>1
<1>9. \A i \in Slots \ Seated' : \E k \in 1..(n - 1) : d[k] = i
  <2> SUFFICES ASSUME NEW i \in Slots \ Seated'
               PROVE  \E k \in 1..(n - 1) : d[k] = i
    OBVIOUS
  <2>1. i \in Slots \ Seated /\ i # c[1]
    BY <1>5
  <2>2. PICK k \in 1..n : c[k] = i
    BY <2>1 DEF FreeList
  <2>3. k - 1 \in 1..(n - 1) /\ (k - 1) + 1 = k
    BY <1>1, <2>1, <2>2
  <2> QED
    BY <1>6, <2>2, <2>3
<1>10. \A k \in 1..(n - 2) : slot'[d[k]].value = d[k + 1]
  <2> SUFFICES ASSUME NEW k \in 1..(n - 2) PROVE slot'[d[k]].value = d[k + 1]
    OBVIOUS
  <2>1. k \in 1..(n - 1) /\ k + 1 \in 1..(n - 1) /\ k + 1 + 1 \in 1..n
    BY <1>1
  <2>2. slot[c[k + 1]].value = c[k + 1 + 1]
    BY <2>1 DEF FreeList
  <2> QED
    BY <1>4, <1>6, <2>1, <2>2
<1>11. free_slot_offset' = IF n - 1 = 0 THEN PAGEISFULL ELSE d[1]
  <2>1. IsPageFull(record_num + 1) <=> n - 1 = 0
    BY <1>1, <1>2 DEF Free
  <2>2. CASE n - 1 # 0
    <3>0. 1 \in 1..(n - 1) /\ 1 + 1 = 2
      BY <1>1, <1>2, <2>2
    <3>1. d[1] = c[2] /\ slot[c[1]].value = c[2]
      BY <1>6, <3>0 DEF FreeList
    <3> QED
      BY <1>2, <2>1, <2>2, <3>1 DEF Insert
  <2>3. CASE n - 1 = 0
    BY <2>1, <2>3 DEF Insert
  <2> QED
    BY <2>2, <2>3
<1>12. FreeList(d)'
  <2>1. Free' = n - 1 /\ Free' - 1 = n - 2
    BY <1>1
  <2>2. \A k \in 1..Free' : ~slot'[d[k]].seat
    BY <2>1, <1>7
  <2>3. \A k, l \in 1..Free' : d[k] = d[l] => k = l
    BY <2>1, <1>8
  <2>4. \A i \in Slots \ Seated' : \E k \in 1..Free' : d[k] = i
    BY <2>1, <1>9
  <2>5. \A k \in 1..(Free' - 1) : slot'[d[k]].value = d[k + 1]
    BY <2>1, <1>10
  <2>6. free_slot_offset' = IF Free' = 0 THEN PAGEISFULL ELSE d[1]
    BY <2>1, <1>11
  <2> QED
    BY <2>2, <2>3, <2>4, <2>5, <2>6, Zenon DEF FreeList
<1> QED
  BY <1>1, <1>2, <1>3, <1>5, <1>6, <1>12 DEF Free

\* Deleting puts the slot in front of the list.
LEMMA DeleteList ==
    ASSUME TypeOK, record_num > 0, NEW c, FreeList(c), c \in [1..Free -> Slots],
           NEW index \in Slots, Delete(index),
           NEW d, d = [k \in 1..(Free + 1) |-> IF k = 1 THEN index ELSE c[k - 1]]
    PROVE  /\ index \in Seated
           /\ Seated' = Seated \ {index}
           /\ FreeList(d)'
           /\ d \in [1..Free' -> Slots]
<1> USE FullMeansMaxEntries
<1> DEFINE n == Free
<1>1. n \in Nat /\ record_num \in Nat /\ Free' = n + 1 /\ record_num' = record_num - 1
  <2>1. MaxEntries \in Nat /\ record_num \in Nat /\ record_num <= MaxEntries
    BY DEF TypeOK
  <2>2. record_num' = record_num - 1
    BY DEF Delete
  <2> QED
    BY <2>1, <2>2 DEF Free
<1>2. slot[index].seat /\ index \in Seated
  BY DEF Delete, Seated
<1>3. /\ slot'[index].value = IF free_slot_offset = PAGEISFULL THEN SLOTNULL
                              ELSE free_slot_offset
      /\ ~slot'[index].seat
      /\ \A i \in Slots \ {index} : slot'[i] = slot[i]
  BY DEF Delete, TypeOK
<1>4. Seated' = Seated \ {index}
  BY <1>3 DEF Seated
<1>5. /\ d[1] = index
      /\ \A k \in 2..(n + 1) : k - 1 \in 1..n /\ d[k] = c[k - 1] /\ c[k - 1] \in Slots
  BY <1>1
<1>6. d \in [1..(n + 1) -> Slots]
  BY <1>1
<1>7. \A k \in 2..(n + 1) : d[k] # index /\ d[k] \in Slots /\ ~slot[d[k]].seat
  BY <1>2, <1>5 DEF FreeList
<1>8. \A k \in 1..Free' : ~slot'[d[k]].seat
  <2> SUFFICES ASSUME NEW k \in 1..Free' PROVE ~slot'[d[k]].seat
    OBVIOUS
  <2>1. k = 1 \/ k \in 2..(n + 1)
    BY <1>1
  <2> QED
    BY <2>1, <1>3, <1>5, <1>7
<1>9. \A k, l \in 1..Free' : d[k] = d[l] => k = l
  <2> SUFFICES ASSUME NEW k \in 1..Free', NEW l \in 1..Free', d[k] = d[l]
               PROVE  k = l
    OBVIOUS
  <2>1. (k = 1 \/ k \in 2..(n + 1)) /\ (l = 1 \/ l \in 2..(n + 1))
    BY <1>1
  <2>2. CASE k = 1 \/ l = 1
    BY <2>1, <2>2, <1>5, <1>7
  <2>3. CASE k \in 2..(n + 1) /\ l \in 2..(n + 1)
    <3>0. k - 1 \in 1..n /\ l - 1 \in 1..n /\ c[k - 1] = c[l - 1]
      BY <2>3, <1>5
    <3>1. k - 1 = l - 1
      BY <3>0 DEF FreeList
    <3> QED
      BY <1>1, <3>1, <2>3
  <2> QED
    BY <2>1, <2>2, <2>3
<1>10. \A i \in Slots \ Seated' : \E k \in 1..Free' : d[k] = i
  <2> SUFFICES ASSUME NEW i \in Slots \ Seated'
               PROVE  \E k \in 1..Free' : d[k] = i
    OBVIOUS
  <2>1. CASE i = index
    BY <2>1, <1>1, <1>5, 1 \in 1..Free'
  <2>2. CASE i # index
    <3>1. PICK k \in 1..n : c[k] = i
      BY <2>2, <1>4 DEF FreeList
    <3>2. k + 1 \in 2..(n + 1) /\ k + 1 \in 1..Free' /\ (k + 1) - 1 = k
      BY <1>1
    <3> QED
      BY <3>1, <3>2, <1>5
  <2> QED
    BY <2>1, <2>2
<1>11. \A k \in 1..(Free' - 1) : slot'[d[k]].value = d[k + 1]
  <2> SUFFICES ASSUME NEW k \in 1..(Free' - 1) PROVE slot'[d[k]].value = d[k + 1]
    OBVIOUS
  <2>1. n # 0 /\ k \in 1..n /\ k + 1 \in 2..(n + 1) /\ (k + 1) - 1 = k
    BY <1>1
  <2>2. d[k + 1] = c[k]
    BY <2>1, <1>5
  <2>3. CASE k = 1
    <3>1. free_slot_offset = c[1] /\ c[1] \in Slots
      BY <2>1, <2>3 DEF FreeList
    <3>2. c[1] # PAGEISFULL
      BY <3>1 DEF Slots, PAGEISFULL, SLOTNULL
    <3> QED
      BY <1>3, <1>5, <2>2, <2>3, <3>1, <3>2, ZenonT(60)
  <2>4. CASE k # 1
    <3>1. k \in 2..(n + 1) /\ k - 1 \in 1..(n - 1) /\ (k - 1) + 1 = k
      BY <1>1, <2>1, <2>4
    <3>2. slot[c[k - 1]].value = c[k]
      BY <3>1 DEF FreeList
    <3> QED
      BY <1>3, <1>5, <1>7, <2>2, <3>1, <3>2, ZenonT(60)
  <2> QED
    BY <2>3, <2>4
<1>12. free_slot_offset' = IF Free' = 0 THEN PAGEISFULL ELSE d[1]
  BY <1>1, <1>5 DEF Delete
<1>13. FreeList(d)'
  BY <1>8, <1>9, <1>10, <1>11, <1>12, Zenon DEF FreeList
<1> QED
  BY <1>1, <1>2, <1>4, <1>6, <1>13

-----------------------------------------------------------------------------
\* The list of free slots of a page used as a stack: in order, from
\* record_num on.
InOrder == lifo => FreeList([k \in 1..Free |-> record_num + k - 1])

\* FreeListIsExact and InOrder need each other's setting and the count, so
\* they are proved together.
IndInv == TypeOK /\ Counted /\ FreeListIsExact /\ InOrder

LEMMA InOrderType ==
    ASSUME record_num \in 0..MaxEntries
    PROVE  [k \in 1..Free |-> record_num + k - 1] \in [1..Free -> Slots]
<1>1. ASSUME NEW k \in 1..Free PROVE record_num + k - 1 \in Slots
  BY FullMeansMaxEntries DEF Free, Slots
<1> QED
  BY <1>1

LEMMA InitInv == Init => IndInv
<1> SUFFICES ASSUME Init PROVE IndInv
  OBVIOUS
<1> USE FullMeansMaxEntries
<1>1. TypeOK
  <2>1. MaxEntries \in Nat \ {0} /\ MaxEntries < SLOTNULL /\ SLOTNULL \in Nat
    BY DEF SLOTNULL
  <2>2. \A i \in Slots : (IF i = MaxEntries - 1 THEN 0 ELSE i + 1) \in 0..SLOTNULL
    BY <2>1 DEF Slots
  <2>3. 0 \in 0..MaxEntries /\ 0 \in Slots
    BY <2>1 DEF Slots
  <2> QED
    BY <2>2, <2>3, PageAssumption DEF Init, TypeOK
<1>2. Seated = {} /\ Counted
  BY FS_EmptySet DEF Init, Seated, Counted
<1> DEFINE c == [k \in 1..Free |-> record_num + k - 1]
<1>3. Free = MaxEntries /\ record_num = 0 /\ MaxEntries \in Nat
  BY DEF Free, Init
<1>4. \A k \in 1..Free : c[k] = k - 1 /\ k - 1 \in Slots
  BY <1>3 DEF Slots
<1>5. FreeList(c)
  <2>1. \A k \in 1..Free : ~slot[c[k]].seat
    BY <1>4 DEF Init
  <2>2. \A k, l \in 1..Free : c[k] = c[l] => k = l
    BY <1>3, <1>4
  <2>3. \A i \in Slots \ Seated : \E k \in 1..Free : c[k] = i
    <3> SUFFICES ASSUME NEW i \in Slots PROVE \E k \in 1..Free : c[k] = i
      OBVIOUS
    <3>1. i + 1 \in 1..Free /\ (i + 1) - 1 = i
      BY <1>3 DEF Slots
    <3> QED
      BY <3>1, <1>4
  <2>4. \A k \in 1..(Free - 1) : slot[c[k]].value = c[k + 1]
    <3> SUFFICES ASSUME NEW k \in 1..(Free - 1) PROVE slot[c[k]].value = c[k + 1]
      OBVIOUS
    <3>1. k \in 1..Free /\ k + 1 \in 1..Free /\ k - 1 # MaxEntries - 1 /\ k - 1 + 1 = k + 1 - 1
      BY <1>3
    <3> QED
      BY <3>1, <1>4 DEF Init
  <2>5. free_slot_offset = IF Free = 0 THEN PAGEISFULL ELSE c[1]
    BY <1>3, <1>4 DEF Init
  <2> HIDE DEF c
  <2> QED
    BY <2>1, <2>2, <2>3, <2>4, <2>5 DEF FreeList
<1>6. c \in [1..Free -> Slots]
  BY <1>3, InOrderType
<1> QED
  BY <1>1, <1>2, <1>5, <1>6 DEF IndInv, FreeListIsExact, InOrder

LEMMA InsertInv ==
    ASSUME IndInv, NEW item \in Value \cup {NoItem}, Insert(item)
    PROVE  IndInv'
<1> USE FullMeansMaxEntries DEF IndInv
<1>1. PICK c \in [1..Free -> Slots] : FreeList(c)
  BY DEF FreeListIsExact
<1> DEFINE d == [k \in 1..(Free - 1) |-> c[k + 1]]
<1>2. PICK e : e = d
  OBVIOUS
<1>3. /\ record_num < MaxEntries
      /\ c[1] \in Slots /\ free_slot_offset = c[1] /\ ~slot[c[1]].seat
      /\ Seated' = Seated \cup {c[1]}
      /\ FreeList(e)' /\ e \in [1..Free' -> Slots]
  BY <1>1, <1>2, InsertList
<1>4. FreeListIsExact'
  BY <1>3 DEF FreeListIsExact
<1>5. record_num \in 0..MaxEntries /\ record_num' = record_num + 1
  BY DEF TypeOK, Insert
<1>6. TypeOK'
  <2>1. record_num' \in 0..MaxEntries
    BY <1>3, <1>5
  <2>2. free_slot_offset' \in Slots \cup {PAGEISFULL}
    <3>1. MaxEntries \in Nat /\ record_num \in Nat /\ record_num < MaxEntries
      BY <1>3, <1>5
    <3>a. Free' \in Nat
      BY <1>5, <3>1 DEF Free
    <3>2. Free' # 0 => 1 \in 1..Free'
      BY <3>a
    <3> QED
      BY <1>3, <3>2 DEF FreeList
  <2>3. slot' \in [Slots -> [value : 0..SLOTNULL, seat : BOOLEAN, null : BOOLEAN]]
    <3>1. /\ slot \in [Slots -> [value : 0..SLOTNULL, seat : BOOLEAN, null : BOOLEAN]]
          /\ free_slot_offset \in Slots
      BY <1>3 DEF TypeOK
    <3> DEFINE r == [slot[free_slot_offset] EXCEPT !.seat = TRUE, !.null = @ \/ item = NoItem]
    <3>2. r \in [value : 0..SLOTNULL, seat : BOOLEAN, null : BOOLEAN]
      BY <3>1
    <3>3. slot' = [slot EXCEPT ![free_slot_offset] = r]
      BY <3>1 DEF Insert
    <3> HIDE DEF r
    <3> QED
      BY <3>1, <3>2, <3>3
  <2>4. data' \in [Slots -> Value]
    <3>1. data \in [Slots -> Value] /\ free_slot_offset \in Slots
      BY <1>3 DEF TypeOK
    <3>2. data' = data \/ (item \in Value /\ data' = [data EXCEPT ![free_slot_offset] = item])
      BY DEF Insert
    <3> QED
      BY <3>1, <3>2
  <2> QED
    BY <2>1, <2>2, <2>3, <2>4 DEF TypeOK, Insert
<1>7. Counted'
  <2>1. c[1] \notin Seated
    BY <1>3 DEF Seated
  <2> QED
    BY <1>3, <1>5, <2>1, FS_AddElement DEF Counted
<1>8. InOrder'
  <2> SUFFICES ASSUME lifo' PROVE FreeList([k \in 1..Free |-> record_num + k - 1])'
    BY DEF InOrder
  <2> DEFINE c0 == [k \in 1..Free |-> record_num + k - 1]
  <2>1. FreeList(c0) /\ c0 \in [1..Free -> Slots]
    BY <1>5, InOrderType DEF Insert, InOrder
  <2>2. PICK a : a = c0
    OBVIOUS
  <2>3. PICK b : b = [k \in 1..(Free - 1) |-> a[k + 1]]
    OBVIOUS
  <2> HIDE DEF c0
  <2>a. TypeOK /\ FreeList(a) /\ a \in [1..Free -> Slots]
    BY <2>1, <2>2
  <2>4. FreeList(b)'
    BY <2>a, <2>3, InsertList, ZenonT(60)
  <2> USE DEF c0
  <2>5. b = [k \in 1..Free' |-> record_num' + k - 1]
    <3>1. Free' = Free - 1 /\ Free \in Nat /\ record_num \in Nat
      BY <1>5 DEF Free
    <3>2. \A k \in 1..(Free - 1) : a[k + 1] = record_num' + k - 1
      BY <1>5, <2>2, <3>1
    <3> QED
      BY <2>3, <3>1, <3>2
  <2> QED
    BY <2>4, <2>5
<1> QED
  BY <1>4, <1>6, <1>7, <1>8

LEMMA DeleteInv ==
    ASSUME IndInv, NEW index \in Slots, Delete(index)
    PROVE  IndInv'
<1> USE FullMeansMaxEntries DEF IndInv
<1>1. PICK c \in [1..Free -> Slots] : FreeList(c)
  BY DEF FreeListIsExact
<1>2. PICK e : e = [k \in 1..(Free + 1) |-> IF k = 1 THEN index ELSE c[k - 1]]
  OBVIOUS
<1>3. record_num \in 0..MaxEntries /\ record_num > 0 /\ record_num' = record_num - 1
  <2>1. index \in Seated
    BY DEF Delete, Seated
  <2>2. Cardinality(Seated) \in Nat /\ Cardinality(Seated) # 0
    BY <2>1, FS_EmptySet, FS_CardinalityType DEF Counted
  <2> QED
    BY <2>2 DEF Counted, TypeOK, Delete
<1>4. /\ index \in Seated /\ Seated' = Seated \ {index}
      /\ FreeList(e)' /\ e \in [1..Free' -> Slots]
  <2>1. TypeOK /\ record_num > 0 /\ FreeList(c) /\ c \in [1..Free -> Slots]
    BY <1>1, <1>3
  <2>2. index \in Seated /\ Seated' = Seated \ {index}
    BY <1>2, <2>1, DeleteList, ZenonT(60)
  <2>3. FreeList(e)'
    BY <1>2, <2>1, DeleteList, ZenonT(60)
  <2>4. e \in [1..Free' -> Slots]
    <3>1. Free \in Nat /\ Free' = Free + 1
      BY <1>3 DEF Free, TypeOK
    <3>2. \A k \in 1..(Free + 1) : k # 1 => c[k - 1] \in Slots
      BY <2>1, <3>1
    <3> QED
      BY <1>2, <3>1, <3>2
  <2> QED
    BY <2>2, <2>3, <2>4
<1>5. FreeListIsExact'
  BY <1>4 DEF FreeListIsExact
<1>6. TypeOK'
  <2>1. record_num' \in 0..MaxEntries /\ free_slot_offset' \in Slots
    BY <1>3 DEF Delete
  <2>2. (IF free_slot_offset = PAGEISFULL THEN SLOTNULL ELSE free_slot_offset) \in 0..SLOTNULL
    <3>1. \A s \in Slots : s \in 0..SLOTNULL
      BY DEF Slots, SLOTNULL
    <3>2. free_slot_offset \in Slots \cup {PAGEISFULL}
      BY DEF TypeOK
    <3>3. SLOTNULL \in 0..SLOTNULL
      BY DEF SLOTNULL
    <3> QED
      BY <3>1, <3>2, <3>3
  <2>3. slot' \in [Slots -> [value : 0..SLOTNULL, seat : BOOLEAN, null : BOOLEAN]]
    BY <2>2 DEF Delete, TypeOK
  <2>4. lifo' \in BOOLEAN /\ data' = data
    BY DEF Delete, TypeOK
  <2> QED
    BY <2>1, <2>3, <2>4 DEF TypeOK
<1>7. Counted'
  BY <1>3, <1>4, FS_RemoveElement DEF Counted
<1>8. InOrder'
  <2> SUFFICES ASSUME lifo' PROVE FreeList([k \in 1..Free |-> record_num + k - 1])'
    BY DEF InOrder
  <2> DEFINE c0 == [k \in 1..Free |-> record_num + k - 1]
  <2>1. FreeList(c0) /\ c0 \in [1..Free -> Slots] /\ index = record_num - 1
    BY <1>3, InOrderType DEF Delete, InOrder
  <2>2. PICK a : a = c0
    OBVIOUS
  <2>3. PICK b : b = [k \in 1..(Free + 1) |-> IF k = 1 THEN index ELSE a[k - 1]]
    OBVIOUS
  <2> HIDE DEF c0
  <2>a. TypeOK /\ record_num > 0 /\ FreeList(a) /\ a \in [1..Free -> Slots]
    BY <1>3, <2>1, <2>2
  <2>4. FreeList(b)'
    BY <2>a, <2>3, DeleteList, ZenonT(60)
  <2> USE DEF c0
  <2>5. b = [k \in 1..Free' |-> record_num' + k - 1]
    <3>1. Free' = Free + 1 /\ Free \in Nat /\ record_num \in Nat
      BY <1>3 DEF Free
    <3>2. \A k \in 1..(Free + 1) :
             (IF k = 1 THEN index ELSE a[k - 1]) = record_num' + k - 1
      BY <1>3, <2>1, <2>2, <3>1
    <3> QED
      BY <2>3, <3>1, <3>2
  <2> QED
    BY <2>4, <2>5
<1> QED
  BY <1>5, <1>6, <1>7, <1>8

\* The data of the entries does not matter to the list.
LEMMA SameSlots ==
    ASSUME IndInv, TypeOK',
           UNCHANGED <<record_num, free_slot_offset, slot, lifo>>
    PROVE  IndInv'
<1>1. Seated' = Seated /\ Free' = Free
  BY DEF Seated, Free
<1>2. ASSUME NEW c PROVE FreeList(c)' <=> FreeList(c)
  BY <1>1 DEF FreeList
<1>3. FreeListIsExact'
  BY <1>1, <1>2 DEF IndInv, FreeListIsExact
<1>4. InOrder'
  <2> DEFINE c == [k \in 1..Free |-> record_num + k - 1]
  <2>1. PICK a : a = c
    OBVIOUS
  <2>2. FreeList([k \in 1..Free |-> record_num + k - 1])' <=> FreeList(a)'
    BY <1>1, <2>1
  <2> QED
    BY <1>2, <2>1, <2>2 DEF IndInv, InOrder
<1>5. Counted'
  BY <1>1 DEF IndInv, Counted
<1> QED
  BY <1>3, <1>4, <1>5 DEF IndInv

LEMMA Invariant == Spec => []IndInv
<1>1. IndInv /\ [Next]_vars => IndInv'
  <2> SUFFICES ASSUME IndInv, [Next]_vars PROVE IndInv'
    OBVIOUS
  <2>1. ASSUME NEW index \in Slots, NEW item \in Value, Update(index, item) PROVE IndInv'
    <3>1. TypeOK'
      BY <2>1 DEF Update, IndInv, TypeOK
    <3> QED
      BY <2>1, <3>1, SameSlots DEF Update
  <2>2. CASE UNCHANGED vars
    <3>1. TypeOK'
      BY <2>2 DEF vars, IndInv, TypeOK
    <3> QED
      BY <2>2, <3>1, SameSlots DEF vars
  <2> QED
    BY <2>1, <2>2, InsertInv, DeleteInv DEF Next
<1> QED
  BY <1>1, InitInv, PTL DEF Spec

\* The fields of a page keep their types.
THEOREM TypeCorrect == Spec => []TypeOK
  BY Invariant, PTL DEF IndInv

\* The list of free slots holds exactly the slots without an entry
\* (p_entry_insert, p_entry_delete_by_index).
THEOREM FreeSlotsListed == Spec => []FreeListIsExact
  BY Invariant, PTL DEF IndInv

\* A page whose entries are deleted last slot first keeps them in the slots
\* 0..record_num-1, which the page id manager and the index pages rely on.
THEOREM StackPagesArePacked == Spec => []StackInFront
<1>1. IndInv => StackInFront
  <2> SUFFICES ASSUME IndInv, lifo PROVE Seated = 0..(record_num - 1)
    BY DEF StackInFront
  <2> USE FullMeansMaxEntries DEF IndInv
  <2> DEFINE c == [k \in 1..Free |-> record_num + k - 1]
  <2>1. FreeList(c) /\ record_num \in 0..MaxEntries /\ Free \in Nat
    BY DEF InOrder, TypeOK, Free
  <2>2. ASSUME NEW i \in Slots, i >= record_num PROVE ~slot[i].seat
    <3>1. i - record_num + 1 \in 1..Free /\ c[i - record_num + 1] = i
      BY <2>1, <2>2 DEF Slots, Free
    <3> HIDE DEF c
    <3> QED
      BY <2>1, <3>1 DEF FreeList
  <2>3. ASSUME NEW i \in Slots, i < record_num PROVE slot[i].seat
    <3>1. ASSUME NEW k \in 1..Free PROVE c[k] # i
      BY <2>1, <2>3 DEF Slots
    <3> HIDE DEF c
    <3> QED
      BY <2>1, <3>1 DEF FreeList, Seated, TypeOK
  <2> QED
    BY <2>1, <2>2, <2>3 DEF Seated, Slots
<1> QED
  BY <1>1, Invariant, PTL

-----------------------------------------------------------------------------
\* An insertion into the page is one into the map: the slot it takes has no
\* entry, and a NULL item leaves the bytes that were there.
LEMMA InsertIsInsert ==
    ASSUME IndInv, NEW item \in Value \cup {NoItem}, Insert(item)
    PROVE  Map!Next
<1> USE DEF IndInv
<1>1. PICK c \in [1..Free -> Slots] : FreeList(c)
  BY DEF FreeListIsExact
<1>2. PICK e : e = [k \in 1..(Free - 1) |-> c[k + 1]]
  OBVIOUS
<1>3. /\ c[1] \in Slots /\ free_slot_offset = c[1] /\ ~slot[c[1]].seat
      /\ Seated' = Seated \cup {c[1]}
  BY <1>1, <1>2, InsertList
<1> DEFINE v == IF item = NoItem THEN data[c[1]] ELSE item
<1>4. v \in Value
  BY <1>3 DEF TypeOK
<1>5. data' = [data EXCEPT ![c[1]] = v]
  <2>1. data \in [Slots -> Value]
    BY DEF TypeOK
  <2>2. CASE item = NoItem
    <3>1. data' = data
      BY <2>2 DEF Insert
    <3> QED
      BY <1>3, <2>1, <2>2, <3>1
  <2>3. CASE item # NoItem
    BY <1>3, <2>3 DEF Insert
  <2> QED
    BY <2>2, <2>3
<1>6. record_num' = record_num + 1 /\ c[1] \notin Seated
  BY <1>3 DEF Insert, Seated
<1> HIDE DEF v
<1>7. Map!Insert(c[1], v)
  BY <1>3, <1>5, <1>6 DEF Map!Insert
<1> QED
  BY <1>3, <1>4, <1>7 DEF Map!Next

\* A slotted page is a map from slots to entries: an insertion takes a slot
\* without an entry, and an entry keeps its slot and its bytes until it is
\* deleted or updated (p_entry_insert, p_entry_delete_by_index,
\* p_entry_update_by_index).
THEOREM PageIsRecordMap == Spec => ImplementsRecordMap
<1>1. Init => Map!Init
  BY FullMeansMaxEntries, PageAssumption DEF Init, Map!Init, Seated
<1>2. IndInv /\ [Next]_vars => [Map!Next]_(Map!vars)
  <2> SUFFICES ASSUME IndInv, [Next]_vars PROVE Map!Next \/ UNCHANGED Map!vars
    OBVIOUS
  <2>1. ASSUME NEW item \in Value \cup {NoItem}, Insert(item) PROVE Map!Next
    BY <2>1, InsertIsInsert
  <2>2. ASSUME NEW index \in Slots, Delete(index) PROVE Map!Next
    <3>1. slot \in [Slots -> [value : 0..SLOTNULL, seat : BOOLEAN, null : BOOLEAN]]
      BY DEF IndInv, TypeOK
    <3>2. index \in Seated /\ Seated' = Seated \ {index}
      BY <2>2, <3>1 DEF Delete, Seated
    <3>3. Map!Delete(index)
      BY <2>2, <3>2 DEF Delete, Map!Delete
    <3> QED
      BY <3>3 DEF Map!Next
  <2>3. ASSUME NEW index \in Slots, NEW item \in Value, Update(index, item) PROVE Map!Next
    <3>1. index \in Seated /\ Seated' = Seated
      BY <2>3 DEF Update, Seated
    <3>2. Map!Update(index, item)
      BY <2>3, <3>1 DEF Update, Map!Update
    <3> QED
      BY <3>2 DEF Map!Next
  <2>4. CASE UNCHANGED vars
    <3>1. Seated' = Seated
      BY <2>4 DEF vars, Seated
    <3> QED
      BY <2>4, <3>1 DEF vars, Map!vars
  <2> QED
    BY <2>1, <2>2, <2>3, <2>4 DEF Next
<1> QED
  BY <1>1, <1>2, Invariant, PTL DEF Spec, ImplementsRecordMap, Map!Spec
=============================================================================
