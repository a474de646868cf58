------------------------- MODULE PageIdManagerProofs -------------------------
(***************************************************************************)
(* Theorems about the page id manager, for every number of pages, every    *)
(* capacity of a stack page and every size of a batch.                     *)
(***************************************************************************)
EXTENDS PageIdManager, TLAPS

\* While the pool is closed, the file holds what Reopen will read.
ClosedState ==
    ~running =>
        /\ call = NoCall
        /\ info = [page_counter |-> page_counter, free_top |-> ft.id]
        /\ disk[ft.id] = Stored(ft)

LEMMA StackPageType ==
    ASSUME NEW i \in Ids, NEW p \in Ids \cup {PAGEIDNULL}, NEW s \in Seq(Ids)
    PROVE  [id |-> i, prev |-> p, ids |-> s] \in StackPage
  BY DEF StackPage

LEMMA StoredType ==
    ASSUME NEW p \in StackPage
    PROVE  Stored(p) \in DiskPage
  BY DEF Stored, DiskPage

LEMMA StoredPage ==
    ASSUME NEW d \in DiskPage, d.kind = "stack"
    PROVE  d.page \in StackPage
  BY DEF DiskPage, Blank, Foreign

LEMMA FrontType ==
    ASSUME NEW p \in StackPage, p.ids # <<>>
    PROVE  [p EXCEPT !.ids = SubSeq(@, 1, Len(@) - 1)] \in StackPage
  BY DEF StackPage

LEMMA AppendType ==
    ASSUME NEW p \in StackPage, NEW id \in Ids
    PROVE  [p EXCEPT !.ids = Append(@, id)] \in StackPage
  BY DEF StackPage

LEMMA LastType ==
    ASSUME NEW p \in StackPage, p.ids # <<>>
    PROVE  p.ids[Len(p.ids)] \in Ids
  BY DEF StackPage

LEMMA HandOutType ==
    ASSUME NEW id \in Ids, call \in Calls, Allocating, HandOut(id), SizesAssumption
    PROVE  call' \in Calls /\ call # NoCall
<1>1. call.left - 1 \in 0..MaxBatch
  BY SizesAssumption DEF Calls, Allocating
<1>2. call.ids \cup {id} \in SUBSET Ids
  BY DEF Calls
<1>3. call' \in Calls
  BY <1>1, <1>2 DEF HandOut, Calls
<1>4. call # NoCall
  BY DEF Allocating, NoCall
<1> QED
  BY <1>3, <1>4

\* The variables keep their types, and a closed pool is in the file.
LEMMA Typing == Spec => [](TypeOK /\ ClosedState)
<1>1. Init => TypeOK /\ ClosedState
  BY SizesAssumption DEF Init, TypeOK, ClosedState, Ids, StackPage, DiskPage,
     Calls, NoCall
<1>2. TypeOK /\ ClosedState /\ [Next]_vars => (TypeOK /\ ClosedState)'
  <2> SUFFICES ASSUME TypeOK, ClosedState, [Next]_vars
               PROVE  (TypeOK /\ ClosedState)'
    OBVIOUS
  <2> USE SizesAssumption DEF TypeOK
  <2>1. ASSUME NEW n \in 1..MaxBatch, AllocBegin(n) PROVE (TypeOK /\ ClosedState)'
    BY <2>1 DEF AllocBegin, Calls, ClosedState
  <2>2. CASE AllocFresh
    <3>1. page_counter \in Ids /\ page_counter' \in 3..MaxPages
      BY <2>2 DEF AllocFresh, Ids
    <3>2. call' \in Calls /\ call # NoCall
      BY <2>2, <3>1, HandOutType DEF AllocFresh
    <3> QED
      BY <2>2, <3>1, <3>2 DEF AllocFresh, ClosedState
  <2>3. CASE AllocStackPage
    <3>1. ft.prev \in Ids
      BY <2>3 DEF AllocStackPage, StackPage
    <3>2. ft' \in StackPage
      BY <2>3, <3>1, StoredPage DEF AllocStackPage
    <3>3. ft.id \in Ids
      BY DEF StackPage
    <3> QED
      BY <2>3, <3>2, <3>3, HandOutType DEF AllocStackPage, ClosedState
  <2>4. CASE AllocPop
    <3>1. ft.ids[Len(ft.ids)] \in Ids /\ ft' \in StackPage
      BY <2>4, FrontType, LastType DEF AllocPop
    <3> QED
      BY <2>4, <3>1, HandOutType DEF AllocPop, ClosedState
  <2>5. CASE AllocEnd
    BY <2>5 DEF AllocEnd, Calls, NoCall, ClosedState
  <2>6. ASSUME NEW S \in SUBSET used, FreeBegin(S) PROVE (TypeOK /\ ClosedState)'
    BY <2>6 DEF FreeBegin, Calls, ClosedState
  <2>7. ASSUME NEW id \in call.ids, FreePush(id) PROVE (TypeOK /\ ClosedState)'
    <3>1. id \in Ids
      BY DEF Calls
    <3>2. ft' \in StackPage
      BY <2>7, <3>1, AppendType DEF FreePush
    <3> QED
      BY <2>7, <3>2 DEF FreePush, Calls, ClosedState, NoCall
  <2>8. ASSUME NEW id \in call.ids, FreeSpill(id) PROVE (TypeOK /\ ClosedState)'
    <3>1. id \in Ids /\ ft.id \in Ids
      BY DEF Calls, StackPage
    <3>2. ft' \in StackPage
      BY <2>8, <3>1 DEF FreeSpill, StackPage
    <3>3. disk' \in [Ids -> DiskPage]
      BY <2>8, <3>1, StoredType DEF FreeSpill
    <3> QED
      BY <2>8, <3>2, <3>3 DEF FreeSpill, Calls, ClosedState, NoCall
  <2>9. CASE FreeEnd
    BY <2>9 DEF FreeEnd, Calls, NoCall, ClosedState
  <2>10. ASSUME NEW id \in used, PageSwapOut(id) PROVE (TypeOK /\ ClosedState)'
    BY <2>10 DEF PageSwapOut, DiskPage, ClosedState
  <2>11. CASE Close
    <3>1. ft.id \in Ids
      BY DEF StackPage
    <3>2. disk' \in [Ids -> DiskPage] /\ disk'[ft.id] = Stored(ft)
      BY <2>11, <3>1, StoredType DEF Close
    <3> QED
      BY <2>11, <3>1, <3>2, page_counter \in 0..MaxPages DEF Close, ClosedState
  <2>12. CASE Reopen
    <3>1. page_counter' = page_counter /\ ft' = ft
      BY <2>12 DEF Reopen, ClosedState, Stored
    <3> QED
      BY <2>12, <3>1 DEF Reopen, ClosedState
  <2>13. CASE UNCHANGED vars
    BY <2>13 DEF vars, ClosedState
  <2> QED
    BY <2>1, <2>2, <2>3, <2>4, <2>5, <2>6, <2>7, <2>8, <2>9, <2>10, <2>11, <2>12,
       <2>13 DEF Next, Serve, Step
<1> QED
  BY <1>1, <1>2, PTL DEF Spec

-----------------------------------------------------------------------------
\* Pushing an id that a stack page does not hold adds it, once.
LEMMA PushEntries ==
    ASSUME NEW p \in StackPage, NEW id \in Ids, Distinct(p), id \notin Entries(p),
           NEW q, q = [p EXCEPT !.ids = Append(@, id)]
    PROVE  /\ q.id = p.id /\ q.prev = p.prev
           /\ Entries(q) = Entries(p) \cup {id}
           /\ Distinct(q)
<1>1. p.ids \in Seq(Ids) /\ q.ids = Append(p.ids, id) /\ q.id = p.id /\ q.prev = p.prev
  BY DEF StackPage
<1>2. /\ Len(q.ids) = Len(p.ids) + 1
      /\ \A i \in 1..Len(p.ids) : q.ids[i] = p.ids[i]
      /\ q.ids[Len(p.ids) + 1] = id
  BY <1>1
<1>3. Entries(q) = Entries(p) \cup {id}
  BY <1>1, <1>2 DEF Entries
<1>4. \A i \in 1..Len(p.ids) : q.ids[i] # id
  BY <1>1, <1>2 DEF Entries
<1>5. Distinct(q)
  BY <1>1, <1>2, <1>4 DEF Distinct
<1> QED
  BY <1>1, <1>3, <1>5

\* The first n elements of a sequence.
LEMMA PrefixProperties ==
    ASSUME NEW S, NEW s \in Seq(S), NEW n \in Nat, n <= Len(s)
    PROVE  /\ Len(SubSeq(s, 1, n)) = n
           /\ \A i \in 1..n : SubSeq(s, 1, n)[i] = s[i]
  OBVIOUS

\* Deleting the last entry of a stack page removes that id and no other.
LEMMA PopEntries ==
    ASSUME NEW p \in StackPage, p.ids # <<>>, Distinct(p),
           NEW q, q = [p EXCEPT !.ids = SubSeq(@, 1, Len(@) - 1)]
    PROVE  /\ q.id = p.id /\ q.prev = p.prev
           /\ p.ids[Len(p.ids)] \in Entries(p)
           /\ Entries(q) = Entries(p) \ {p.ids[Len(p.ids)]}
           /\ Distinct(q)
<1>1. /\ p.ids \in Seq(Ids) /\ q.id = p.id /\ q.prev = p.prev
      /\ q.ids = SubSeq(p.ids, 1, Len(p.ids) - 1)
  BY DEF StackPage
<1>2. Len(p.ids) \in Nat /\ Len(p.ids) >= 1
  BY <1>1
<1>3. /\ Len(q.ids) = Len(p.ids) - 1
      /\ \A i \in 1..(Len(p.ids) - 1) : q.ids[i] = p.ids[i]
  <2> Len(p.ids) - 1 \in Nat /\ Len(p.ids) - 1 <= Len(p.ids)
    BY <1>2
  <2> QED
    BY <1>1, <1>2, PrefixProperties
<1>4. Distinct(q)
  <2> SUFFICES ASSUME NEW i \in 1..Len(q.ids), NEW j \in 1..Len(q.ids), q.ids[i] = q.ids[j]
               PROVE  i = j
    BY DEF Distinct
  <2>1. /\ i \in 1..(Len(p.ids) - 1) /\ i \in 1..Len(p.ids)
        /\ j \in 1..(Len(p.ids) - 1) /\ j \in 1..Len(p.ids)
    BY <1>2, <1>3
  <2>2. p.ids[i] = p.ids[j]
    BY <2>1, <1>3
  <2> QED
    BY <2>1, <2>2 DEF Distinct
<1>5. p.ids[Len(p.ids)] \in Entries(p)
  BY <1>2 DEF Entries
<1>6. ASSUME NEW i \in 1..Len(p.ids)
      PROVE  p.ids[i] = p.ids[Len(p.ids)] <=> i = Len(p.ids)
  BY <1>2 DEF Distinct
<1>7. Entries(q) = Entries(p) \ {p.ids[Len(p.ids)]}
  <2> DEFINE n == Len(p.ids)
  <2>1. ASSUME NEW x \in Entries(q) PROVE x \in Entries(p) /\ x # p.ids[n]
    <3>1. PICK i \in 1..(n - 1) : x = p.ids[i]
      BY <1>2, <1>3 DEF Entries
    <3>2. i \in 1..n /\ i # n
      BY <1>2
    <3> QED
      BY <3>1, <3>2, <1>6 DEF Entries
  <2>2. ASSUME NEW x \in Entries(p), x # p.ids[n] PROVE x \in Entries(q)
    <3>1. PICK i \in 1..n : x = p.ids[i]
      BY DEF Entries
    <3>2. i \in 1..(n - 1)
      BY <1>2, <2>2, <3>1
    <3> QED
      BY <3>1, <3>2, <1>3 DEF Entries
  <2> QED
    BY <2>1, <2>2
<1> QED
  BY <1>1, <1>4, <1>5, <1>7

\* An empty page has no entries.
LEMMA NoEntries ==
    ASSUME NEW p, p.ids = <<>>
    PROVE  Entries(p) = {} /\ Distinct(p)
  BY DEF Entries, Distinct

-----------------------------------------------------------------------------
LEMMA FreeIdsMember ==
    ASSUME NEW L, NEW id
    PROVE  id \in FreeIds(L) <=>
             id = ft.id \/ id \in L \/ id \in Entries(ft)
               \/ \E p \in L : id \in Entries(disk[p].page)
  BY DEF FreeIds

\* The same for the next state: a step is described by FreeIds before and after.
LEMMA FreeIdsMemberNext ==
    ASSUME NEW L, NEW id
    PROVE  id \in FreeIds(L)' <=>
             id = ft'.id \/ id \in L \/ id \in Entries(ft')
               \/ \E p \in L : id \in Entries(disk'[p].page)
  BY DEF FreeIds, Entries

\* A step that leaves the stack pages alone leaves the stack alone.
LEMMA StackUnchanged ==
    ASSUME NEW L, Chain(L), NoDuplicates(L),
           ft' = ft, \A p \in L : disk'[p] = disk[p]
    PROVE  Chain(L)' /\ NoDuplicates(L)' /\ FreeIds(L)' = FreeIds(L)
<1>1. Chain(L)'
  BY DEF Chain
<1>2. NoDuplicates(L)'
  <2>1. \A p \in L : disk'[p].page = disk[p].page
    OBVIOUS
  <2> QED
    BY <2>1 DEF NoDuplicates
<1>3. FreeIds(L)' = FreeIds(L)
  <2>1. ASSUME NEW id PROVE id \in FreeIds(L)' <=> id \in FreeIds(L)
    BY FreeIdsMember, FreeIdsMemberNext
  <2> QED
    BY <2>1
<1> QED
  BY <1>1, <1>2, <1>3

\* A step that moves ids only between their holders keeps the partition.
LEMMA SameStack ==
    ASSUME NEW L, PartitionedBy(L),
           ft' = ft, page_counter' = page_counter,
           \A p \in L : disk'[p] = disk[p],
           Held' = Held, used' \cap call'.ids = {}
    PROVE  PartitionedBy(L)'
  BY StackUnchanged DEF PartitionedBy

LEMMA FreshStep ==
    ASSUME NEW L, PartitionedBy(L), TypeOK, AllocFresh
    PROVE  PartitionedBy(L)'
<1>1. Chain(L)' /\ NoDuplicates(L)' /\ FreeIds(L)' = FreeIds(L)
  BY StackUnchanged DEF PartitionedBy, AllocFresh
<1>2. page_counter \notin Held \cup FreeIds(L)
  BY DEF PartitionedBy, TypeOK
<1>3. used' = used /\ call'.ids = call.ids \cup {page_counter}
  BY DEF AllocFresh, HandOut, TypeOK, Calls
<1>4. Held' = Held \cup {page_counter}
  BY <1>3 DEF Held
<1>5. page_counter' = page_counter + 1 /\ page_counter \in Int /\ page_counter >= 3
  BY DEF AllocFresh, TypeOK
<1>6. 2..(page_counter' - 1) = (2..(page_counter - 1)) \cup {page_counter}
  BY <1>5
<1> QED
  BY <1>1, <1>2, <1>3, <1>4, <1>6 DEF PartitionedBy, Held

LEMMA PopStep ==
    ASSUME NEW L, PartitionedBy(L), TypeOK, AllocPop
    PROVE  PartitionedBy(L)'
<1> DEFINE x == ft.ids[Len(ft.ids)]
<1>1. Chain(L) /\ NoDuplicates(L)
  BY DEF PartitionedBy
<1>2. /\ ft'.id = ft.id /\ ft'.prev = ft.prev /\ x \in Entries(ft)
      /\ Entries(ft') = Entries(ft) \ {x} /\ Distinct(ft')
  BY <1>1, PopEntries DEF AllocPop, TypeOK, NoDuplicates
<1>3. disk' = disk /\ page_counter' = page_counter /\ used' = used
  BY DEF AllocPop
<1>4. call'.ids = call.ids \cup {x}
  BY DEF AllocPop, HandOut, TypeOK, Calls
<1>5. Chain(L)'
  BY <1>1, <1>2, <1>3 DEF Chain
<1>6. NoDuplicates(L)'
  BY <1>1, <1>2, <1>3 DEF NoDuplicates
<1>7. FreeIds(L)' = FreeIds(L) \ {x}
  <2>1. x # ft.id /\ x \notin L /\ \A p \in L : x \notin Entries(disk[p].page)
    BY <1>1, <1>2 DEF NoDuplicates
  <2>2. ASSUME NEW id PROVE id \in FreeIds(L)' <=> id \in FreeIds(L) \ {x}
    BY <1>2, <1>3, <2>1, FreeIdsMember, FreeIdsMemberNext
  <2> QED
    BY <2>2
<1>8. x \in FreeIds(L)
  BY <1>2, FreeIdsMember
<1>9. Held' = Held \cup {x}
  BY <1>3, <1>4 DEF Held
<1> QED
  BY <1>3, <1>4, <1>5, <1>6, <1>7, <1>8, <1>9 DEF PartitionedBy, Held

LEMMA StackPageStep ==
    ASSUME NEW L, L \in SUBSET Ids, PartitionedBy(L), TypeOK, AllocStackPage,
           NEW M, M = L \ {ft.prev}
    PROVE  PartitionedBy(M)'
<1> DEFINE p == ft.prev
<1>1. Chain(L) /\ NoDuplicates(L)
  BY DEF PartitionedBy
<1>2. p \in L /\ p # PAGEIDNULL /\ ft' = disk[p].page /\ ft'.id = p
  BY <1>1 DEF AllocStackPage, Chain
<1>3. disk' = disk /\ page_counter' = page_counter /\ used' = used
  BY DEF AllocStackPage
<1>4. call'.ids = call.ids \cup {ft.id}
  BY DEF AllocStackPage, HandOut, TypeOK, Calls
<1>5. Entries(ft) = {}
  BY NoEntries DEF AllocStackPage
<1>6. Chain(M)'
  <2>1. ft'.prev \in M \cup {PAGEIDNULL}
    BY <1>1, <1>2 DEF Chain
  <2>2. \A q \in M : disk[q].page.prev \in M \cup {PAGEIDNULL}
    BY <1>1, <1>2 DEF Chain
  <2>3. \A q \in M : q = ft'.prev \/ \E r \in M : disk[r].page.prev = q
    BY <1>1, <1>2 DEF Chain
  <2>4. \A q \in M : disk[q].page.prev # ft'.prev \/ ft'.prev = PAGEIDNULL
    BY <1>1, <1>2 DEF Chain
  <2> QED
    BY <1>1, <1>3, <2>1, <2>2, <2>3, <2>4 DEF Chain
<1>7. NoDuplicates(M)'
  <2>1. Distinct(ft') /\ \A q \in M : Distinct(disk[q].page)
    BY <1>1, <1>2 DEF NoDuplicates
  <2>2. Entries(ft') \cap ({p} \cup M) = {}
    BY <1>1, <1>2 DEF NoDuplicates
  <2>3. ASSUME NEW q \in M
        PROVE  /\ Entries(disk[q].page) \cap ({p} \cup M) = {}
               /\ Entries(disk[q].page) \cap Entries(ft') = {}
               /\ \A r \in M : q # r => Entries(disk[q].page) \cap Entries(disk[r].page) = {}
    BY <1>1, <1>2 DEF NoDuplicates
  <2> QED
    BY <1>2, <1>3, <2>1, <2>2, <2>3 DEF NoDuplicates
<1>8. FreeIds(M)' = FreeIds(L) \ {ft.id}
  <2>1. ft.id \notin L /\ \A q \in L : ft.id \notin Entries(disk[q].page)
    BY <1>1 DEF NoDuplicates
  <2>2. ASSUME NEW id PROVE id \in FreeIds(M)' <=> id \in FreeIds(L) \ {ft.id}
    <3>1. id \in FreeIds(M)' <=>
            id \in L \/ \E q \in L : id \in Entries(disk[q].page)
      BY <1>2, <1>3, FreeIdsMemberNext
    <3>2. id \in FreeIds(L) <=>
            id = ft.id \/ id \in L \/ \E q \in L : id \in Entries(disk[q].page)
      BY <1>5, FreeIdsMember
    <3> QED
      BY <2>1, <3>1, <3>2
  <2> QED
    BY <2>2
<1>9. ft.id \in FreeIds(L)
  BY FreeIdsMember
<1>10. Held' = Held \cup {ft.id}
  BY <1>3, <1>4 DEF Held
<1> QED
  BY <1>3, <1>4, <1>6, <1>7, <1>8, <1>9, <1>10, ZenonT(60) DEF PartitionedBy, Held

LEMMA PushStep ==
    ASSUME NEW L, PartitionedBy(L), TypeOK, NEW x \in call.ids, FreePush(x)
    PROVE  PartitionedBy(L)'
<1>1. Chain(L) /\ NoDuplicates(L)
  BY DEF PartitionedBy
<1>2. x \in Ids /\ x \notin FreeIds(L)
  BY DEF TypeOK, Calls, PartitionedBy, Held
<1>3. x # ft.id /\ x \notin L /\ x \notin Entries(ft) /\ \A p \in L : x \notin Entries(disk[p].page)
  BY <1>2, FreeIdsMember
<1>4. /\ ft'.id = ft.id /\ ft'.prev = ft.prev
      /\ Entries(ft') = Entries(ft) \cup {x} /\ Distinct(ft')
  BY <1>1, <1>2, <1>3, PushEntries DEF FreePush, TypeOK, NoDuplicates
<1>5. disk' = disk /\ page_counter' = page_counter /\ used' = used
  BY DEF FreePush
<1>6. call'.ids = call.ids \ {x}
  BY DEF FreePush, TypeOK, Calls
<1>7. Chain(L)'
  BY <1>1, <1>4, <1>5 DEF Chain
<1>8. NoDuplicates(L)'
  BY <1>1, <1>3, <1>4, <1>5 DEF NoDuplicates
<1>9. FreeIds(L)' = FreeIds(L) \cup {x}
  <2>1. ASSUME NEW id PROVE id \in FreeIds(L)' <=> id \in FreeIds(L) \cup {x}
    BY <1>4, <1>5, FreeIdsMember, FreeIdsMemberNext
  <2> QED
    BY <2>1
<1>10. Held' = Held \ {x}
  BY <1>5, <1>6 DEF Held, PartitionedBy
<1> QED
  BY <1>5, <1>6, <1>7, <1>8, <1>9, <1>10 DEF PartitionedBy, Held

LEMMA SpillStep ==
    ASSUME NEW L, L \in SUBSET Ids, PartitionedBy(L), TypeOK,
           NEW x \in call.ids, FreeSpill(x), dirty,
           NEW M, M = L \cup {ft.id}
    PROVE  PartitionedBy(M)'
<1>1. Chain(L) /\ NoDuplicates(L)
  BY DEF PartitionedBy
<1>2. x \in Ids /\ x \notin FreeIds(L) /\ ft.id \in Ids
  BY DEF TypeOK, Calls, PartitionedBy, Held, StackPage
<1>3. x # ft.id /\ x \notin L /\ x \notin Entries(ft) /\ \A p \in L : x \notin Entries(disk[p].page)
  BY <1>2, FreeIdsMember
<1>4. ft'.id = x /\ ft'.prev = ft.id /\ ft'.ids = <<>>
  BY DEF FreeSpill
<1>5. Entries(ft') = {} /\ Distinct(ft')
  BY <1>4, NoEntries
<1>6. /\ disk'[ft.id].kind = "stack" /\ disk'[ft.id].page = ft
      /\ \A p \in L : disk'[p] = disk[p]
  BY <1>1, <1>2 DEF FreeSpill, TypeOK, Stored, NoDuplicates
<1>7. page_counter' = page_counter /\ used' = used
  BY DEF FreeSpill
<1>8. call'.ids = call.ids \ {x}
  BY DEF FreeSpill, TypeOK, Calls
<1>9. ft.id # PAGEIDNULL /\ ft.id \notin L /\ PAGEIDNULL \notin L
  BY <1>1, <1>2, SizesAssumption DEF NoDuplicates, Ids
<1>10. Chain(M)'
  <2>1. \A p \in M : disk'[p].kind = "stack" /\ disk'[p].page.id = p
    BY <1>1, <1>6 DEF Chain
  <2>2. \A p \in M : disk'[p].page.prev \in M \cup {PAGEIDNULL}
    BY <1>1, <1>6 DEF Chain
  <2>3. \A p \in M : p = ft'.prev \/ \E q \in M : disk'[q].page.prev = p
    BY <1>1, <1>4, <1>6 DEF Chain
  <2>4. \A p \in M : disk'[p].page.prev # ft'.prev \/ ft'.prev = PAGEIDNULL
    BY <1>1, <1>4, <1>6, <1>9 DEF Chain
  <2>5. \A p, q \in M : disk'[p].page.prev = disk'[q].page.prev
                          => p = q \/ disk'[p].page.prev = PAGEIDNULL
    BY <1>1, <1>6, <1>9 DEF Chain
  <2> QED
    BY <1>4, <2>1, <2>2, <2>3, <2>4, <2>5 DEF Chain
<1>11. NoDuplicates(M)'
  <2>1. \A p \in M : Distinct(disk'[p].page)
    BY <1>1, <1>6 DEF NoDuplicates
  <2>2. ASSUME NEW p \in M
        PROVE  /\ Entries(disk'[p].page) \cap ({x} \cup M) = {}
               /\ \A q \in M : p # q => Entries(disk'[p].page) \cap Entries(disk'[q].page) = {}
    BY <1>1, <1>3, <1>6 DEF NoDuplicates
  <2> QED
    BY <1>3, <1>4, <1>5, <2>1, <2>2 DEF NoDuplicates
<1>12. FreeIds(M)' = FreeIds(L) \cup {x}
  <2>1. ASSUME NEW id PROVE id \in FreeIds(M)' <=> id \in FreeIds(L) \cup {x}
    BY <1>4, <1>5, <1>6, FreeIdsMember, FreeIdsMemberNext
  <2> QED
    BY <2>1
<1>13. Held' = Held \ {x}
  BY <1>7, <1>8 DEF Held, PartitionedBy
<1> QED
  BY <1>7, <1>8, <1>10, <1>11, <1>12, <1>13 DEF PartitionedBy, Held

-----------------------------------------------------------------------------
\* The stack pages of a partition are ids in use; a set that partitions the
\* ids after a step is a witness for Partition'.
LEMMA PartitionWitness ==
    ASSUME NEW M, PartitionedBy(M)'
    PROVE  Partition'
<1>1. M \subseteq FreeIds(M)'
  BY FreeIdsMemberNext
<1>2. M \in SUBSET (2..(page_counter' - 1))
  BY <1>1 DEF PartitionedBy
<1> QED
  BY <1>2 DEF Partition

LEMMA PartitionStep ==
    TypeOK /\ ClosedState /\ Partition /\ [Next]_vars /\ intact' => Partition'
<1> SUFFICES ASSUME TypeOK, ClosedState, Partition, [Next]_vars, intact'
             PROVE  Partition'
  OBVIOUS
<1>1. PICK L \in SUBSET (2..(page_counter - 1)) : PartitionedBy(L)
  BY DEF Partition
<1>2. L \in SUBSET Ids /\ ft.id \notin L /\ used \cap L = {}
  <2>1. L \subseteq FreeIds(L)
    BY FreeIdsMember
  <2>2. L \in SUBSET Ids
    BY <1>1, SizesAssumption DEF TypeOK, Ids
  <2>3. ft.id \notin L
    BY <1>1 DEF PartitionedBy, NoDuplicates
  <2>4. used \cap L = {}
    BY <1>1, <2>1 DEF PartitionedBy, Held
  <2> QED
    BY <2>2, <2>3, <2>4
<1> USE <1>1
<1>3. ASSUME NEW n \in 1..MaxBatch, AllocBegin(n) PROVE Partition'
  <2>1. Held' = Held
    BY <1>3 DEF AllocBegin, NoCall, Held
  <2>2. call'.ids = {}
    BY <1>3 DEF AllocBegin
  <2> QED
    BY <1>3, <2>1, <2>2, SameStack, PartitionWitness DEF AllocBegin
<1>4. CASE AllocFresh
  BY <1>4, FreshStep, PartitionWitness
<1>5. CASE AllocStackPage
  BY <1>2, <1>5, StackPageStep, PartitionWitness
<1>6. CASE AllocPop
  BY <1>6, PopStep, PartitionWitness
<1>7. CASE AllocEnd
  <2>1. Held' = Held /\ call'.ids = {}
    BY <1>7 DEF AllocEnd, NoCall, Held
  <2> QED
    BY <1>7, <2>1, SameStack, PartitionWitness DEF AllocEnd
<1>8. ASSUME NEW S \in SUBSET used, FreeBegin(S) PROVE Partition'
  <2>1. Held' = Held /\ used' \cap call'.ids = {}
    BY <1>8 DEF FreeBegin, NoCall, Held
  <2> QED
    BY <1>8, <2>1, SameStack, PartitionWitness DEF FreeBegin
<1>9. ASSUME NEW id \in call.ids, FreePush(id) PROVE Partition'
  BY <1>9, PushStep, PartitionWitness
<1>10. ASSUME NEW id \in call.ids, FreeSpill(id) PROVE Partition'
  <2>1. dirty
    BY <1>10 DEF FreeSpill
  <2> QED
    BY <1>2, <1>10, <2>1, SpillStep, PartitionWitness
<1>11. CASE FreeEnd
  <2>1. Held' = Held /\ call'.ids = {}
    BY <1>11 DEF FreeEnd, NoCall, Held
  <2> QED
    BY <1>11, <2>1, SameStack, PartitionWitness DEF FreeEnd
<1>12. ASSUME NEW id \in used, PageSwapOut(id) PROVE Partition'
  <2>1. \A p \in L : disk'[p] = disk[p]
    BY <1>2, <1>12 DEF PageSwapOut, TypeOK
  <2>2. Held' = Held /\ used' \cap call'.ids = {}
    BY <1>12 DEF PageSwapOut, Held, PartitionedBy
  <2> QED
    BY <1>12, <2>1, <2>2, SameStack, PartitionWitness DEF PageSwapOut
<1>13. CASE Close
  <2>1. \A p \in L : disk'[p] = disk[p]
    BY <1>2, <1>13 DEF Close, TypeOK
  <2>2. Held' = Held /\ used' \cap call'.ids = {}
    BY <1>13 DEF Close, Held, PartitionedBy
  <2> QED
    BY <1>13, <2>1, <2>2, SameStack, PartitionWitness DEF Close
<1>14. CASE Reopen
  <2>1. page_counter' = page_counter /\ ft' = ft
    BY <1>14 DEF Reopen, ClosedState, Stored
  <2>2. Held' = Held /\ used' \cap call'.ids = {}
    BY <1>14 DEF Reopen, Held, PartitionedBy
  <2> QED
    BY <1>14, <2>1, <2>2, SameStack, PartitionWitness DEF Reopen
<1>15. CASE UNCHANGED vars
  <2>1. Held' = Held /\ used' \cap call'.ids = {}
    BY <1>15 DEF vars, Held, PartitionedBy
  <2> QED
    BY <1>15, <2>1, SameStack, PartitionWitness DEF vars
<1> QED
  BY <1>3, <1>4, <1>5, <1>6, <1>7, <1>8, <1>9, <1>10, <1>11, <1>12, <1>13, <1>14,
     <1>15 DEF Next, Serve, Step

\* A page once lost stays lost.
LEMMA IntactStep ==
    ASSUME intact \in BOOLEAN, [Next]_vars, intact'
    PROVE  intact
  BY DEF Next, Serve, Step, AllocBegin, AllocFresh, AllocStackPage, AllocPop, AllocEnd,
     FreeBegin, FreePush, FreeSpill, FreeEnd, PageSwapOut, Close, Reopen, vars

\* The variables of the page id manager keep their types.
THEOREM TypeCorrect == Spec => []TypeOK
  BY Typing, PTL

\* Unless a stack page is dropped without being written, every page id in use
\* is held by exactly one side: a page of the system, or one place on the
\* stack of free ids (allocate_pages_id, free_pages_id).
THEOREM EveryIdInOnePlace == Spec => []NoIdLostOrDoubled
<1>1. Init => NoIdLostOrDoubled
  <2> SUFFICES ASSUME Init PROVE PartitionedBy({})
    BY DEF NoIdLostOrDoubled, Partition
  <2>1. Chain({}) /\ NoDuplicates({}) /\ Entries(ft) = {}
    BY NoEntries DEF Init, Chain, NoDuplicates
  <2>2. FreeIds({}) = {2}
    BY <2>1 DEF FreeIds, Init
  <2>3. 2..(page_counter - 1) = {2} /\ Held = {} /\ used = {}
    BY DEF Init, Held, NoCall
  <2> QED
    BY <2>1, <2>2, <2>3 DEF PartitionedBy
<1>2. TypeOK /\ ClosedState /\ NoIdLostOrDoubled /\ [Next]_vars => NoIdLostOrDoubled'
  BY PartitionStep, IntactStep DEF NoIdLostOrDoubled, TypeOK
<1> QED
  BY <1>1, <1>2, Typing, PTL DEF Spec

-----------------------------------------------------------------------------
\* Only an allocation owes its caller ids.
OnlyAllocOwes == call.op # "alloc" => call.left = 0

LEMMA OwingStep ==
    ASSUME TypeOK, OnlyAllocOwes, [Next]_vars
    PROVE  OnlyAllocOwes'
<1> USE DEF OnlyAllocOwes
<1>1. ASSUME NEW n \in 1..MaxBatch, AllocBegin(n) PROVE OnlyAllocOwes'
  BY <1>1 DEF AllocBegin
<1>2. ASSUME NEW id, HandOut(id), Allocating PROVE OnlyAllocOwes'
  BY <1>2 DEF HandOut, Allocating, TypeOK, Calls
<1>3. CASE AllocEnd \/ FreeEnd
  BY <1>3 DEF AllocEnd, FreeEnd, NoCall
<1>4. ASSUME NEW S \in SUBSET used, FreeBegin(S) PROVE OnlyAllocOwes'
  BY <1>4 DEF FreeBegin
<1>5. ASSUME NEW id \in call.ids, FreePush(id) \/ FreeSpill(id) PROVE OnlyAllocOwes'
  BY <1>5 DEF FreePush, FreeSpill, TypeOK, Calls
<1>6. ASSUME call' = call PROVE OnlyAllocOwes'
  BY <1>6
<1>7. CASE AllocFresh \/ AllocStackPage \/ AllocPop
  BY <1>2, <1>7 DEF AllocFresh, AllocStackPage, AllocPop
<1> QED
  BY <1>1, <1>3, <1>4, <1>5, <1>6, <1>7
  DEF Next, Serve, Step, PageSwapOut, Close, Reopen, vars

\* Handing out an id that nobody holds is what the allocator may do.
LEMMA GrantStep ==
    ASSUME TypeOK, NEW id \in Ids, id \notin Held, Allocating, HandOut(id), used' = used
    PROVE  Allocator!Next
<1>1. /\ call.op = "alloc" /\ call.left > 0 /\ call'.op = "alloc"
      /\ call'.left = call.left - 1 /\ call'.ids = call.ids \cup {id}
  BY DEF Allocating, HandOut, TypeOK, Calls
<1>2. Held' = Held \cup {id}
  BY <1>1 DEF Held
<1>3. Allocator!Grant(id)
  BY <1>1, <1>2 DEF Allocator!Grant
<1> QED
  BY <1>3 DEF Allocator!Next

\* None of the three ways to find an id finds one that is held.
LEMMA AllocStep ==
    ASSUME TypeOK, Partition, AllocFresh \/ AllocStackPage \/ AllocPop
    PROVE  Allocator!Next
<1>1. PICK L \in SUBSET (2..(page_counter - 1)) : PartitionedBy(L)
  BY DEF Partition
<1>2. ASSUME NEW id \in FreeIds(L) PROVE id \notin Held
  BY <1>1 DEF PartitionedBy
<1>3. CASE AllocFresh
  <2>1. page_counter \in Ids
    BY <1>3, SizesAssumption DEF AllocFresh, TypeOK, Ids
  <2>2. page_counter \notin Held
    BY <1>1 DEF PartitionedBy, TypeOK
  <2> QED
    BY <1>3, <2>1, <2>2, GrantStep DEF AllocFresh
<1>4. CASE AllocStackPage
  <2>1. ft.id \in Ids /\ ft.id \notin Held
    BY <1>2, FreeIdsMember DEF TypeOK, StackPage
  <2> QED
    BY <1>4, <2>1, GrantStep DEF AllocStackPage
<1>5. CASE AllocPop
  <2>1. ft.ids # <<>> /\ ft \in StackPage
    BY <1>5 DEF AllocPop, TypeOK
  <2>2. Distinct(ft)
    BY <1>1 DEF PartitionedBy, NoDuplicates
  <2>3. ft.ids[Len(ft.ids)] \in Entries(ft)
    BY <2>1, <2>2, PopEntries
  <2>4. ft.ids[Len(ft.ids)] \in Ids /\ ft.ids[Len(ft.ids)] \notin Held
    BY <1>2, <2>1, <2>3, FreeIdsMember, LastType
  <2> QED
    BY <1>5, <2>4, GrantStep DEF AllocPop
<1> QED
  BY <1>3, <1>4, <1>5

LEMMA RefinementStep ==
    ASSUME TypeOK, OnlyAllocOwes, Partition, [Next]_vars
    PROVE  Allocator!Next \/ UNCHANGED Allocator!vars
<1> USE DEF OnlyAllocOwes
<1>1. ASSUME NEW n \in 1..MaxBatch, AllocBegin(n) PROVE Allocator!Next
  <2>1. call.op = "none" /\ call.left = 0 /\ Held' = used /\ call'.op = "alloc" /\ call'.left = n
    BY <1>1 DEF AllocBegin, NoCall, Held
  <2>2. Allocator!Request(n)
    BY <2>1 DEF Allocator!Request
  <2> QED
    BY <2>2 DEF Allocator!Next
<1>2. CASE AllocFresh \/ AllocStackPage \/ AllocPop
  BY <1>2, AllocStep
<1>3. CASE AllocEnd
  <2>1. call.op = "alloc" /\ call.left = 0 /\ used' = Held /\ call'.op = "none" /\ call'.left = 0
    BY <1>3 DEF AllocEnd, NoCall, Held
  <2> QED
    BY <2>1 DEF Allocator!vars
<1>4. ASSUME NEW S \in SUBSET used, FreeBegin(S) PROVE Allocator!Next
  <2>1. /\ call.op = "none" /\ call.left = 0 /\ used' = used \ S
        /\ call'.op = "free" /\ call'.left = 0
    BY <1>4 DEF FreeBegin, NoCall
  <2>2. Allocator!Return(S)
    BY <2>1 DEF Allocator!Return
  <2> QED
    BY <2>1, <2>2 DEF Allocator!Next
<1>5. ASSUME NEW id \in call.ids, FreePush(id) \/ FreeSpill(id)
      PROVE  UNCHANGED Allocator!vars
  <2>1. /\ call.op = "free" /\ call'.op = "free" /\ call'.left = call.left /\ used' = used
    BY <1>5 DEF FreePush, FreeSpill, TypeOK, Calls
  <2> QED
    BY <2>1 DEF Allocator!vars
<1>6. CASE FreeEnd
  <2>1. call.op = "free" /\ call.left = 0 /\ call'.op = "none" /\ call'.left = 0 /\ used' = used
    BY <1>6 DEF FreeEnd, NoCall
  <2> QED
    BY <2>1 DEF Allocator!vars
<1>7. ASSUME UNCHANGED <<call, used>> PROVE UNCHANGED Allocator!vars
  BY <1>7 DEF Allocator!vars, Held
<1> QED
  BY <1>1, <1>2, <1>3, <1>4, <1>5, <1>6, <1>7
  DEF Next, Serve, Step, PageSwapOut, Close, Reopen, vars

\* allocate_pages_id and free_pages_id do what the rest of the pool relies on:
\* every step, until a stack page is dropped without being written, hands out
\* an id that nobody holds, takes ids back, or changes nothing a caller sees.
THEOREM ManagerIsAllocator == Spec => ImplementsAllocator
<1>1. Init => Allocator!Init /\ OnlyAllocOwes
  BY DEF Init, NoCall, Allocator!Init, OnlyAllocOwes
<1>2. TypeOK /\ NoIdLostOrDoubled /\ OnlyAllocOwes /\ [Next]_vars
        => OnlyAllocOwes' /\ [intact' => Allocator!Next \/ UNCHANGED Allocator!vars]_vars
  <2> SUFFICES ASSUME TypeOK, NoIdLostOrDoubled, OnlyAllocOwes, [Next]_vars
               PROVE  /\ OnlyAllocOwes'
                      /\ intact' => Allocator!Next \/ UNCHANGED Allocator!vars
    OBVIOUS
  <2>1. intact' => Partition
    BY IntactStep DEF NoIdLostOrDoubled, TypeOK
  <2> QED
    BY <2>1, OwingStep, RefinementStep
<1> QED
  BY <1>1, <1>2, TypeCorrect, EveryIdInOnePlace, PTL DEF Spec, ImplementsAllocator
=============================================================================
