---------------------------- MODULE PageIdManager ----------------------------
(***************************************************************************)
(* The page id manager of the buffer pool (src/pool/pool.c).  Ids that     *)
(* were given back are kept on a stack of pages.  The page on top of the   *)
(* stack, the "free table" page, is in block ft_block; entry 0 of a stack  *)
(* page is the id of the page below it (PAGEIDNULL at the bottom), the     *)
(* other entries are free ids.  The ids of the stack pages themselves are  *)
(* taken from the ids that are given back, so a stack page that is         *)
(* exhausted is handed out as a free id.  Ids never used so far are        *)
(* counted by page_counter.                                                *)
(*                                                                         *)
(* ft_mutex serialises the calls; a call handles several ids, one per      *)
(* step here.  Other pages are written to the file at any time.            *)
(***************************************************************************)
EXTENDS Integers, Sequences, FiniteSets

CONSTANTS
    PAGEIDNULL, \* the null page id, 0xffffffff in include/page.h
    MaxPages,   \* bound: ids 0..MaxPages-1 may come into use
    Capacity,   \* ids a stack page holds besides entry 0 (676 of 4-byte entries)
    MaxBatch    \* bound: ids asked for, or given back, by one call

ASSUME SizesAssumption ==
    /\ MaxPages \in Nat /\ MaxPages >= 3
    /\ Capacity \in Nat \ {0}
    /\ MaxBatch \in Nat \ {0}
    /\ PAGEIDNULL \in Nat /\ PAGEIDNULL >= MaxPages

VARIABLES
    page_counter,   \* pool_mg_s.page_counter: the ids below it have been used
    ft,             \* the stack page in ft_block: [id, prev, ids]
    dirty,          \* the DIRTY bit of ft_block
    disk,           \* page id -> what the file holds at that page
    info,           \* the two fields of page 0 in the file that matter here
    call,           \* the call that holds ft_mutex
    used,           \* ids held by pages of the rest of the system
    running,        \* the pool is open
    intact          \* history: every stack page pushed down so far was written

vars == <<page_counter, ft, dirty, disk, info, call, used, running, intact>>

Ids == 0..(MaxPages - 1)

\* A stack page: its own id, entry 0, and entries 1 .. record_num-1 in order.
StackPage == [id : Ids, prev : Ids \cup {PAGEIDNULL}, ids : Seq(Ids)]

\* What the file holds at a page: nothing, a page of another kind, a stack page.
Blank == [kind |-> "blank"]
Foreign == [kind |-> "foreign"]
Stored(page) == [kind |-> "stack", page |-> page]
DiskPage == {Blank, Foreign} \cup [kind : {"stack"}, page : StackPage]

NoCall == [op |-> "none", left |-> 0, ids |-> {}]
Calls == [op : {"none", "alloc", "free"}, left : 0..MaxBatch, ids : SUBSET Ids]

TypeOK ==
    /\ page_counter \in 3..MaxPages
    /\ ft \in StackPage
    /\ dirty \in BOOLEAN
    /\ disk \in [Ids -> DiskPage]
    /\ info \in [page_counter : 0..MaxPages, free_top : Ids]
    /\ call \in Calls
    /\ used \subseteq Ids
    /\ running \in BOOLEAN
    /\ intact \in BOOLEAN

-----------------------------------------------------------------------------
\* init_db_info: pages 0, 1 and 2 are the system's; page 2 is the bottom of
\* the stack, empty, and dirty because it has never been written.
Init ==
    /\ page_counter = 3
    /\ ft = [id |-> 2, prev |-> PAGEIDNULL, ids |-> <<>>]
    /\ dirty = TRUE
    /\ disk = [id \in Ids |-> Blank]
    /\ info = [page_counter |-> 0, free_top |-> 0]
    /\ call = NoCall
    /\ used = {}
    /\ running = TRUE
    /\ intact = TRUE

-----------------------------------------------------------------------------
\* At the bound: ids the top pages can serve without a new one.
Spare == Len(ft.ids) + (IF ft.prev = PAGEIDNULL THEN 0 ELSE 1)

\* allocate_pages_id(n): ft_mutex is taken.
AllocBegin(n) ==
    /\ running /\ call = NoCall
    /\ page_counter + n <= MaxPages \/ n <= Spare     \* bound
    /\ call' = [op |-> "alloc", left |-> n, ids |-> {}]
    /\ UNCHANGED <<page_counter, ft, dirty, disk, info, used, running, intact>>

\* Mutant: one turn of the loop too many (i <= n).
AllocatingOneMore == call.op = "alloc" /\ call.left >= 0

Allocating == call.op = "alloc" /\ call.left > 0

\* to[i] = id
HandOut(id) == call' = [call EXCEPT !.left = @ - 1, !.ids = @ \cup {id}]

\* The bottom page is empty: an id never used so far.
AllocFresh ==
    /\ Allocating
    /\ ft.ids = <<>> /\ ft.prev = PAGEIDNULL
    /\ page_counter < MaxPages                        \* bound
    /\ HandOut(page_counter)
    /\ page_counter' = page_counter + 1
    /\ UNCHANGED <<ft, dirty, disk, info, used, running, intact>>

\* A page above the bottom is empty: its own id is handed out and the page
\* below it is read into ft_block.  The read repeats until the page found
\* has the id asked for, so it never returns when the file holds none.
AllocStackPage ==
    /\ Allocating
    /\ ft.ids = <<>> /\ ft.prev # PAGEIDNULL
    /\ disk[ft.prev].kind = "stack"
    /\ HandOut(ft.id)
    /\ ft' = disk[ft.prev].page
    /\ UNCHANGED <<page_counter, dirty, disk, info, used, running, intact>>

\* Mutant: the entry handed out is not deleted.
AllocPeek ==
    /\ Allocating
    /\ ft.ids # <<>>
    /\ HandOut(ft.ids[Len(ft.ids)])
    /\ UNCHANGED <<page_counter, ft, dirty, disk, info, used, running, intact>>

\* Otherwise the last entry is handed out and deleted.
AllocPop ==
    /\ Allocating
    /\ ft.ids # <<>>
    /\ HandOut(ft.ids[Len(ft.ids)])
    /\ ft' = [ft EXCEPT !.ids = SubSeq(@, 1, Len(@) - 1)]
    /\ UNCHANGED <<page_counter, dirty, disk, info, used, running, intact>>

\* ft_mutex is released; the caller has its ids.
AllocEnd ==
    /\ call.op = "alloc" /\ call.left = 0
    /\ used' = used \cup call.ids
    /\ call' = NoCall
    /\ UNCHANGED <<page_counter, ft, dirty, disk, info, running, intact>>

-----------------------------------------------------------------------------
\* free_pages_id: the caller gives up the ids S of pages it deletes.
FreeBegin(S) ==
    /\ running /\ call = NoCall
    /\ used' = used \ S
    /\ call' = [op |-> "free", left |-> 0, ids |-> S]
    /\ UNCHANGED <<page_counter, ft, dirty, disk, info, running, intact>>

\* p_entry_insert finds room in the page.
FreePush(id) ==
    /\ call.op = "free" /\ id \in call.ids
    /\ Len(ft.ids) < Capacity
    /\ ft' = [ft EXCEPT !.ids = Append(@, id)]
    /\ call' = [call EXCEPT !.ids = @ \ {id}]
    /\ UNCHANGED <<page_counter, dirty, disk, info, used, running, intact>>

\* Mutant: entry 0 of the new top page is not set to the page below.
FreeSpillUnlinked(id) ==
    /\ call.op = "free" /\ id \in call.ids
    /\ Len(ft.ids) = Capacity
    /\ disk' = IF dirty THEN [disk EXCEPT ![ft.id] = Stored(ft)] ELSE disk
    /\ ft' = [id |-> id, prev |-> PAGEIDNULL, ids |-> <<>>]
    /\ call' = [call EXCEPT !.ids = @ \ {id}]
    /\ intact' = (intact /\ dirty)
    /\ UNCHANGED <<page_counter, dirty, info, used, running>>

\* Mutant: the page is not swapped out before its block is reused.
FreeSpillUnwritten(id) ==
    /\ call.op = "free" /\ id \in call.ids
    /\ Len(ft.ids) = Capacity
    /\ ft' = [id |-> id, prev |-> ft.id, ids |-> <<>>]
    /\ call' = [call EXCEPT !.ids = @ \ {id}]
    /\ intact' = (intact /\ dirty)
    /\ UNCHANGED <<page_counter, dirty, disk, info, used, running>>

\* p_entry_insert answers P_ENTRY_PAGEFULL: page_swap_out writes the page if
\* the block is dirty, and the freed id becomes the new, empty, top page.
FreeSpill(id) ==
    /\ call.op = "free" /\ id \in call.ids
    /\ Len(ft.ids) = Capacity
    /\ disk' = IF dirty THEN [disk EXCEPT ![ft.id] = Stored(ft)] ELSE disk
    /\ ft' = [id |-> id, prev |-> ft.id, ids |-> <<>>]
    /\ call' = [call EXCEPT !.ids = @ \ {id}]
    /\ intact' = (intact /\ dirty)
    /\ UNCHANGED <<page_counter, dirty, info, used, running>>

FreeEnd ==
    /\ call.op = "free" /\ call.ids = {}
    /\ call' = NoCall
    /\ UNCHANGED <<page_counter, ft, dirty, disk, info, used, running, intact>>

-----------------------------------------------------------------------------
\* page_swap_out of a page some table or index owns.
PageSwapOut(id) ==
    /\ running /\ id \in used
    /\ disk' = [disk EXCEPT ![id] = Foreign]
    /\ UNCHANGED <<page_counter, ft, dirty, info, call, used, running, intact>>

\* mp_pool_close, with no call under way: the info page and the stack page
\* are marked dirty and written.
Close ==
    /\ running /\ call = NoCall
    /\ info' = [page_counter |-> page_counter, free_top |-> ft.id]
    /\ disk' = [disk EXCEPT ![ft.id] = Stored(ft)]
    /\ running' = FALSE
    /\ UNCHANGED <<page_counter, ft, dirty, call, used, intact>>

\* mp_pool_open(false): load_info_from_disk reads the info page and the stack
\* page it names; the blocks are clean.
Reopen ==
    /\ ~running
    /\ disk[info.free_top].kind = "stack"
    /\ page_counter' = info.page_counter
    /\ ft' = disk[info.free_top].page
    /\ dirty' = FALSE
    /\ running' = TRUE
    /\ UNCHANGED <<disk, info, call, used, intact>>

\* The steps of the thread that holds ft_mutex.
Step ==
    \/ AllocFresh \/ AllocStackPage \/ AllocPop \/ AllocEnd
    \/ \E id \in call.ids : FreePush(id) \/ FreeSpill(id)
    \/ FreeEnd

Serve ==
    \/ \E n \in 1..MaxBatch : AllocBegin(n)
    \/ \E S \in SUBSET used : Cardinality(S) \in 1..MaxBatch /\ FreeBegin(S)
    \/ Step
    \/ \E id \in used : PageSwapOut(id)

Next == Serve \/ Close \/ Reopen

Spec == Init /\ [][Next]_vars

\* The holder of ft_mutex waits for nobody, so it keeps running.
FairSpec == Spec /\ WF_vars(Step)

-----------------------------------------------------------------------------
Entries(page) == {page.ids[i] : i \in 1..Len(page.ids)}

Distinct(page) ==
    \A i, j \in 1..Len(page.ids) : page.ids[i] = page.ids[j] => i = j

\* L is the set of stack pages below the top: each is in the file, and directly
\* below exactly one other page.
Chain(L) ==
    /\ \A p \in L : disk[p].kind = "stack" /\ disk[p].page.id = p
    /\ ft.prev \in L \cup {PAGEIDNULL}
    /\ \A p \in L : disk[p].page.prev \in L \cup {PAGEIDNULL}
    /\ \A p \in L : p = ft.prev \/ \E q \in L : disk[q].page.prev = p
    /\ \A p \in L : disk[p].page.prev # ft.prev \/ ft.prev = PAGEIDNULL
    /\ \A p, q \in L : disk[p].page.prev = disk[q].page.prev
                         => p = q \/ disk[p].page.prev = PAGEIDNULL

\* The ids that the pages in {ft} and L keep are all different.
NoDuplicates(L) ==
    /\ ft.id \notin L
    /\ Distinct(ft) /\ \A p \in L : Distinct(disk[p].page)
    /\ Entries(ft) \cap ({ft.id} \cup L) = {}
    /\ \A p \in L :
        /\ Entries(disk[p].page) \cap ({ft.id} \cup L) = {}
        /\ Entries(disk[p].page) \cap Entries(ft) = {}
        /\ \A q \in L : p # q => Entries(disk[p].page) \cap Entries(disk[q].page) = {}

FreeIds(L) ==
    {ft.id} \cup L \cup Entries(ft) \cup UNION {Entries(disk[p].page) : p \in L}

Held == used \cup call.ids

\* With L the stack pages below the top: every id in use so far, the two
\* system pages excepted, is held by a page of the system or is on the stack
\* once, and never both.
PartitionedBy(L) ==
    /\ Chain(L)
    /\ NoDuplicates(L)
    /\ used \cap call.ids = {}
    /\ Held \cap FreeIds(L) = {}
    /\ Held \cup FreeIds(L) = 2..(page_counter - 1)

Partition == \E L \in SUBSET (2..(page_counter - 1)) : PartitionedBy(L)

\* allocate_pages_id and free_pages_id neither lose an id nor own one twice,
\* as long as every stack page pushed down was written to the file.
NoIdLostOrDoubled == intact => Partition

\* A call that took ft_mutex gives it back: no allocation reads a page the
\* file does not hold, which dk_read_page_by_pid would repeat for ever.
CallsReturn == (call # NoCall /\ intact) ~> (call = NoCall \/ ~intact)

\* What a caller of the manager relies on, and where it is in IdAllocator.
Allocator ==
    INSTANCE IdAllocator WITH
        Id <- Ids,
        held <- IF call.op = "alloc" THEN Held ELSE used,
        todo <- call.left

\* Every step of the manager, one that loses a page excepted, is a step of
\* the allocator or none: in particular no id is handed out that some page,
\* or the same batch, already has.
ImplementsAllocator ==
    Allocator!Init /\ [][intact' => Allocator!Next \/ UNCHANGED Allocator!vars]_vars
=============================================================================
