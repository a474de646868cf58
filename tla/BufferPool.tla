------------------------------ MODULE BufferPool ------------------------------
(***************************************************************************)
(* The buffer pool (src/pool/pool.c): blocks in sub pools, and the global  *)
(* page table (GPT), an AVL tree of nodes that say which block holds which *)
(* page.  Threads open, create and delete pages at the same time; a step   *)
(* here is a section under one mutex, or an access outside any.            *)
(*                                                                         *)
(* Page ids come from PageIdManager, taken at what IdAllocator promises:   *)
(* an allocation picks any free id.  The users of the pool lock a table    *)
(* before they delete its pages, so nobody opens a page that is being      *)
(* deleted.  No code calls mp_page_close: pages leave the pool only when   *)
(* they are deleted, and reference_count is never read.                    *)
(***************************************************************************)
EXTENDS Integers, Sequences, FiniteSets

CONSTANTS
    Threads,
    Pages,          \* the page ids in play
    SubPools,       \* 1..SUBPOOLS, searched in this order
    BlocksOf,       \* sub pool -> the sequence of its blocks
    Damaged,        \* pages that the file holds only in part
    MaxNodes,       \* bound: GPT nodes allocated at one time
    GoOn,           \* bound: whether operations begin after a mistake (see mistaken)
    NULL

VARIABLES
    empty,      \* sub pool -> the list of its empty blocks, empty_block first
    used_blocks,\* sub pool -> used_blocks
    content,    \* block -> the page its memory holds, NULL when zeroed
    node,       \* node -> [pid, block, state]
    tree,       \* the nodes in the GPT
    freeIds,    \* the ids the page id manager has to give
    exists,     \* the pages of tables and indexes, nobody deleting them
    pc,         \* thread -> where it is
    loc,        \* thread -> its local variables [page, block, node, pool]
    mistaken    \* history: a deletion took the node of the former page with its
                \* id, which another thread is about to remove, for its own

vars == <<empty, used_blocks, content, node, tree, freeIds, exists, pc, loc, mistaken>>

Nodes == 1..MaxNodes
Blocks == UNION {{BlocksOf[i][k] : k \in 1..Len(BlocksOf[i])} : i \in SubPools}

\* pool->block_header is one array, of which each sub pool has a stretch.
ASSUME PoolAssumption ==
    /\ IsFiniteSet(SubPools) /\ SubPools = 1..Cardinality(SubPools)
    /\ BlocksOf \in [SubPools -> Seq(Blocks)]
    /\ \A i, j \in SubPools : \A k \in 1..Len(BlocksOf[i]), l \in 1..Len(BlocksOf[j]) :
          BlocksOf[i][k] = BlocksOf[j][l] => i = j /\ k = l
    /\ MaxNodes \in Nat /\ GoOn \in BOOLEAN
    /\ NULL \notin Blocks \cup Pages \cup Nodes

NodeState == {"LOADING", "FINISH", "DESTROY"}

NoNode == [pid |-> NULL, block |-> NULL, state |-> "FINISH"]

NoLocals == [page |-> NULL, block |-> NULL, node |-> NULL, pool |-> 1]

PC == {"idle", "wait", "openAlloc", "publish", "bringIn", "badPage",
       "loadFail", "opened", "createAlloc", "createId", "create", "ddelete",
       "mdelete", "freeBlock", "zero", "freeId", "remove", "astray"}

TypeOK ==
    /\ empty \in [SubPools -> Seq(Blocks)]
    /\ used_blocks \in [SubPools -> Int]
    /\ content \in [Blocks -> Pages \cup {NULL}]
    /\ node \in [Nodes -> [pid : Pages \cup {NULL}, block : Blocks \cup {NULL}, state : NodeState]]
    /\ tree \subseteq Nodes
    /\ freeIds \subseteq Pages /\ exists \subseteq Pages
    /\ pc \in [Threads -> PC]
    /\ loc \in [Threads -> [page : Pages \cup {NULL}, block : Blocks \cup {NULL},
                            node : Nodes \cup {NULL}, pool : SubPools \cup {Cardinality(SubPools) + 1}]]
    /\ mistaken \in BOOLEAN

-----------------------------------------------------------------------------
\* Pages of earlier sessions are in the file, the other ids are free.
Init ==
    /\ empty = BlocksOf
    /\ used_blocks = [i \in SubPools |-> 0]
    /\ content = [b \in Blocks |-> NULL]
    /\ node = [n \in Nodes |-> NoNode]
    /\ tree = {}
    /\ exists \in SUBSET Pages /\ Damaged \subseteq exists
    /\ freeIds = Pages \ exists
    /\ pc = [t \in Threads |-> "idle"]
    /\ loc = [t \in Threads |-> NoLocals]
    /\ mistaken = FALSE

Goto(t, label) == pc' = [pc EXCEPT ![t] = label]
Return(t) == Goto(t, "idle") /\ loc' = [loc EXCEPT ![t] = NoLocals]

\* malloc: a node nobody refers to.
Allocatable == Nodes \ (tree \cup {loc[t].node : t \in Threads})
NewNode == CHOOSE n \in Allocatable : TRUE

\* gpt_remove, and free: what a freed node held stays where a waiter sees it.
RemoveNode(t) ==
    LET n == loc[t].node IN
    /\ tree' = tree \ {n}
    /\ node' = IF \E u \in Threads \ {t} : loc[u].node = n
               THEN node ELSE [node EXCEPT ![n] = NoNode]

\* avl_search_by_pid: one of the nodes with that id.
Found(p) == {n \in tree : node[n].pid = p}

\* spm_allocate_block of the sub pool a thread has come to: the first empty
\* block, or on to the next sub pool when used_blocks says there is none.
TakeBlock(t, next) ==
    LET i == loc[t].pool IN
    /\ i \in SubPools
    /\ used_blocks[i] # Len(BlocksOf[i])
    /\ used_blocks' = [used_blocks EXCEPT ![i] = @ + 1]
    /\ empty' = [empty EXCEPT ![i] = Tail(@)]
    /\ loc' = [loc EXCEPT ![t].block = Head(empty[i])]
    /\ Goto(t, next)

NextSubPool(t) ==
    LET i == loc[t].pool IN
    /\ i \in SubPools
    /\ used_blocks[i] = Len(BlocksOf[i])
    /\ loc' = [loc EXCEPT ![t].pool = i + 1]
    /\ UNCHANGED <<used_blocks, empty, pc>>

\* spm_free_block: back to the sub pool the block's address belongs to.
SubPoolOf(b) == CHOOSE i \in SubPools : \E k \in 1..Len(BlocksOf[i]) : BlocksOf[i][k] = b

\* Mutant: the counter is forgotten.
FreeBlockUncounted(b) ==
    /\ empty' = [empty EXCEPT ![SubPoolOf(b)] = <<b>> \o @]
    /\ UNCHANGED used_blocks

FreeBlock(b) ==
    LET i == SubPoolOf(b) IN
    /\ used_blocks' = [used_blocks EXCEPT ![i] = @ - 1]
    /\ empty' = [empty EXCEPT ![i] = <<b>> \o @]

-----------------------------------------------------------------------------
(* mp_page_open *)

\* Some operation on page p is under way.  A deletion that has only its node left
\* to remove has given the id back: the page may be another one by now.
Busy(p) == \E t \in Threads : pc[t] \notin {"idle", "remove"} /\ loc[t].page = p

\* Mutant: the new node goes in without a search for one.
OpenUnsearched(t, p) ==
    /\ pc[t] = "idle" /\ p \in exists
    /\ Allocatable # {}
    /\ node' = [node EXCEPT ![NewNode] = [pid |-> p, block |-> NULL, state |-> "LOADING"]]
    /\ tree' = tree \cup {NewNode}
    /\ loc' = [loc EXCEPT ![t] = [page |-> p, block |-> NULL, node |-> NewNode, pool |-> 1]]
    /\ Goto(t, "openAlloc")
    /\ UNCHANGED <<empty, used_blocks, content, freeIds, exists, mistaken>>

\* gpt_open_test_and_set: a new node in state LOADING goes into the GPT ...
OpenMiss(t, p) ==
    /\ pc[t] = "idle" /\ p \in exists
    /\ Found(p) = {}
    /\ Allocatable # {}                                         \* bound
    /\ node' = [node EXCEPT ![NewNode] = [pid |-> p, block |-> NULL, state |-> "LOADING"]]
    /\ tree' = tree \cup {NewNode}
    /\ loc' = [loc EXCEPT ![t] = [page |-> p, block |-> NULL, node |-> NewNode, pool |-> 1]]
    /\ Goto(t, "openAlloc")
    /\ UNCHANGED <<empty, used_blocks, content, freeIds, exists, mistaken>>

\* ... unless there is one: its block is waited for outside gpt_lock ...
OpenHit(t, p) ==
    /\ pc[t] = "idle" /\ p \in exists
    /\ \E n \in Found(p) :
        /\ node[n].state # "DESTROY"
        /\ loc' = [loc EXCEPT ![t] = [NoLocals EXCEPT !.page = p, !.node = n]]
    /\ Goto(t, "wait")
    /\ UNCHANGED <<empty, used_blocks, content, node, tree, freeIds, exists, mistaken>>

\* (A node in state DESTROY makes the open return NULL: nothing changes.)

\* ... until it is no longer LOADING.
OpenWaited(t) ==
    /\ pc[t] = "wait" /\ node[loc[t].node].state # "LOADING"
    /\ loc' = [loc EXCEPT ![t].block = node[loc[t].node].block]
    /\ Goto(t, "opened")
    /\ UNCHANGED <<empty, used_blocks, content, node, tree, freeIds, exists, mistaken>>

OpenAllocate(t) ==
    /\ pc[t] = "openAlloc"
    /\ TakeBlock(t, "publish") \/ NextSubPool(t)
    /\ UNCHANGED <<content, node, tree, freeIds, exists, mistaken>>

\* Every sub pool was full: the node is removed, still LOADING, and freed.
OpenPoolFull(t) ==
    /\ pc[t] = "openAlloc" /\ loc[t].pool \notin SubPools
    /\ RemoveNode(t)
    /\ Return(t)
    /\ UNCHANGED <<empty, used_blocks, content, freeIds, exists, mistaken>>

\* Mutant: the node gets its block and stays LOADING.
OpenPublishLoading(t) ==
    /\ pc[t] = "publish"
    /\ node' = [node EXCEPT ![loc[t].node].block = loc[t].block]
    /\ Goto(t, "bringIn")
    /\ UNCHANGED <<empty, used_blocks, content, tree, freeIds, exists, loc, mistaken>>

\* The node is FINISH before the page is read.
OpenPublish(t) ==
    /\ pc[t] = "publish"
    /\ node' = [node EXCEPT ![loc[t].node].block = loc[t].block,
                            ![loc[t].node].state = "FINISH"]
    /\ Goto(t, "bringIn")
    /\ UNCHANGED <<empty, used_blocks, content, tree, freeIds, exists, loc, mistaken>>

BringIn(t) ==
    /\ pc[t] = "bringIn"
    /\ content' = [content EXCEPT ![loc[t].block] = loc[t].page]
    /\ Goto(t, IF loc[t].page \in Damaged THEN "badPage" ELSE "opened")
    /\ UNCHANGED <<empty, used_blocks, node, tree, freeIds, exists, loc, mistaken>>

\* PAGELOADFAIL: the block goes back first, then the node.
OpenLoadFail(t) ==
    /\ pc[t] = "badPage"
    /\ FreeBlock(loc[t].block)
    /\ Goto(t, "loadFail")
    /\ UNCHANGED <<content, node, tree, freeIds, exists, loc, mistaken>>

OpenLoadFailRemove(t) ==
    /\ pc[t] = "loadFail"
    /\ RemoveNode(t)
    /\ Return(t)
    /\ UNCHANGED <<empty, used_blocks, content, freeIds, exists, mistaken>>

\* The caller has its block.
Opened(t) ==
    /\ pc[t] = "opened"
    /\ Return(t)
    /\ UNCHANGED <<empty, used_blocks, content, node, tree, freeIds, exists, mistaken>>

-----------------------------------------------------------------------------
(* mp_page_create and mp_index_create *)

CreateBegin(t) ==
    /\ pc[t] = "idle"
    /\ freeIds # {}                                             \* bound
    /\ Goto(t, "createAlloc")
    /\ UNCHANGED <<empty, used_blocks, content, node, tree, freeIds, exists, loc, mistaken>>

CreateAllocate(t) ==
    /\ pc[t] = "createAlloc"
    /\ TakeBlock(t, "createId") \/ NextSubPool(t)
    /\ UNCHANGED <<content, node, tree, freeIds, exists, mistaken>>

CreatePoolFull(t) ==
    /\ pc[t] = "createAlloc" /\ loc[t].pool \notin SubPools
    /\ Return(t)
    /\ UNCHANGED <<empty, used_blocks, content, node, tree, freeIds, exists, mistaken>>

\* allocate_pages_id, then a node in state FINISH is pushed to the GPT, where the
\* node of a former page with that id may still be.
CreateId(t) ==
    /\ pc[t] = "createId"
    /\ Allocatable # {}                                         \* bound
    /\ \E p \in freeIds :
        /\ freeIds' = freeIds \ {p}
        /\ node' = [node EXCEPT ![NewNode] =
                     [pid |-> p, block |-> loc[t].block, state |-> "FINISH"]]
        /\ loc' = [loc EXCEPT ![t].page = p, ![t].node = NewNode]
    /\ tree' = tree \cup {NewNode}
    /\ Goto(t, "create")
    /\ UNCHANGED <<empty, used_blocks, content, exists, mistaken>>

\* page_init, blink_leaf_init or blink_pivot_init; the page is its caller's.
Create(t) ==
    /\ pc[t] = "create"
    /\ content' = [content EXCEPT ![loc[t].block] = loc[t].page]
    /\ exists' = exists \cup {loc[t].page}
    /\ Return(t)
    /\ UNCHANGED <<empty, used_blocks, node, tree, freeIds, mistaken>>

-----------------------------------------------------------------------------
(* mp_page_mdelete and mp_page_ddelete *)

\* gpt_close_test_and_set(page id of the block, DESTROY, enforce): whether the
\* node is in state DESTROY already is not looked at.
Removing(n) == \E t \in Threads : pc[t] = "remove" /\ loc[t].node = n

Mistake(n) == mistaken' = (mistaken \/ Removing(n))

Destroy(t, p, n) ==
    /\ Mistake(n)
    /\ node' = [node EXCEPT ![n].state = "DESTROY"]
    /\ loc' = [loc EXCEPT ![t] = [NoLocals EXCEPT !.page = p, !.node = n,
                                                  !.block = node[n].block]]

\* mp_page_ddelete of a page that is in the pool: mp_page_mdelete follows, and
\* takes the page id from the block.
DDelete(t, p) ==
    /\ pc[t] = "idle" /\ p \in exists /\ ~Busy(p)
    /\ exists' = exists \ {p}
    /\ \E n \in Found(p) : Destroy(t, p, n)
    /\ Goto(t, "mdelete")
    /\ UNCHANGED <<empty, used_blocks, content, tree, freeIds>>

\* mp_page_ddelete of a page that is not: only its id is given back.
DDeleteOnDisk(t, p) ==
    /\ pc[t] = "idle" /\ p \in exists /\ ~Busy(p)
    /\ Found(p) = {}
    /\ exists' = exists \ {p}
    /\ loc' = [loc EXCEPT ![t] = [NoLocals EXCEPT !.page = p]]
    /\ Goto(t, "ddelete")
    /\ UNCHANGED <<empty, used_blocks, content, node, tree, freeIds, mistaken>>

DDeleteFreeId(t) ==
    /\ pc[t] = "ddelete"
    /\ freeIds' = freeIds \cup {loc[t].page}
    /\ Return(t)
    /\ UNCHANGED <<empty, used_blocks, content, node, tree, exists, mistaken>>

\* mp_page_mdelete of an open page, called with its block.
MDelete(t, p, b) ==
    /\ pc[t] = "idle" /\ p \in exists /\ ~Busy(p)
    /\ \E n \in tree : node[n] = [pid |-> p, block |-> b, state |-> "FINISH"]
    /\ exists' = exists \ {p}
    /\ loc' = [loc EXCEPT ![t] = [NoLocals EXCEPT !.page = p, !.block = b]]
    /\ Goto(t, "mdelete")
    /\ UNCHANGED <<empty, used_blocks, content, node, tree, freeIds, mistaken>>

\* The node is looked up by the id in the block; nothing happens if none is.
MDeleteDestroy(t) ==
    /\ pc[t] = "mdelete"
    /\ LET p == content[loc[t].block] IN
        \/ /\ Found(p) = {}
           /\ Return(t)
           /\ UNCHANGED <<node, mistaken>>
        \/ \E n \in Found(p) :
            /\ Mistake(n)
            /\ node' = [node EXCEPT ![n].state = "DESTROY"]
            /\ loc' = [loc EXCEPT ![t].page = p, ![t].node = n]
            /\ Goto(t, "freeBlock")
    /\ UNCHANGED <<empty, used_blocks, content, tree, freeIds, exists>>

MDeleteFreeBlock(t) ==
    /\ pc[t] = "freeBlock"
    /\ FreeBlock(loc[t].block)
    /\ Goto(t, "zero")
    /\ UNCHANGED <<content, node, tree, freeIds, exists, loc, mistaken>>

\* memset of the page, after its block was given back.
MDeleteZero(t) ==
    /\ pc[t] = "zero"
    /\ content' = [content EXCEPT ![loc[t].block] = NULL]
    /\ Goto(t, "freeId")
    /\ UNCHANGED <<empty, used_blocks, node, tree, freeIds, exists, loc, mistaken>>

\* Mutant: the id is read from the page, which is zeroed by now.
MDeleteFreeZeroed(t) ==
    /\ pc[t] = "freeId"
    /\ freeIds' = freeIds \cup {content[loc[t].block]}
    /\ Goto(t, "remove")
    /\ UNCHANGED <<empty, used_blocks, content, node, tree, exists, loc, mistaken>>

MDeleteFreeId(t) ==
    /\ pc[t] = "freeId"
    /\ freeIds' = freeIds \cup {loc[t].page}
    /\ Goto(t, "remove")
    /\ UNCHANGED <<empty, used_blocks, content, node, tree, exists, loc, mistaken>>

\* gpt_remove of the node, and free.
MDeleteRemove(t) ==
    /\ pc[t] = "remove"
    /\ RemoveNode(t)
    /\ Return(t)
    /\ UNCHANGED <<empty, used_blocks, content, freeIds, exists, mistaken>>

-----------------------------------------------------------------------------
Begin(t) ==
    /\ mistaken => GoOn                                         \* bound
    /\ \/ \E p \in Pages : OpenMiss(t, p) \/ OpenHit(t, p)
       \/ CreateBegin(t)
       \/ \E p \in Pages : DDelete(t, p) \/ DDeleteOnDisk(t, p)
       \/ \E p \in Pages, b \in Blocks : MDelete(t, p, b)

Go(t) ==
    \/ OpenWaited(t) \/ OpenAllocate(t) \/ OpenPoolFull(t) \/ OpenPublish(t)
    \/ BringIn(t) \/ OpenLoadFail(t) \/ OpenLoadFailRemove(t) \/ Opened(t)
    \/ CreateAllocate(t) \/ CreatePoolFull(t) \/ CreateId(t) \/ Create(t)
    \/ DDeleteFreeId(t) \/ MDeleteDestroy(t) \/ MDeleteFreeBlock(t)
    \/ MDeleteZero(t) \/ MDeleteFreeId(t) \/ MDeleteRemove(t)

\* After a mistake a node is used that is freed or has no block yet, or a block is
\* freed that is empty; and a page in a block that was zeroed late is deleted by
\* the id it finds there, 0, which is the id of a system page.
Listed(b) == \E i \in SubPools : \E k \in 1..Len(empty[i]) : empty[i][k] = b

Astray(t) ==
    \/ pc[t] \in {"openAlloc", "publish", "loadFail", "remove"} /\ loc[t].node \notin tree
    \/ pc[t] \in {"badPage", "freeBlock"} /\ Listed(loc[t].block)
    \/ pc[t] = "mdelete" /\ LET b == loc[t].block IN
          \/ b = NULL \/ content[b] = NULL
          \/ \E n \in Found(content[b]) : node[n].block = NULL

GoAstray(t) ==
    /\ Goto(t, "astray")
    /\ UNCHANGED <<empty, used_blocks, content, node, tree, freeIds, exists, loc, mistaken>>

Step(t) == IF Astray(t) THEN GoAstray(t) ELSE Go(t)

\* The model ends where a thread has gone astray.
Sane == \A t \in Threads : pc[t] # "astray"

Next == Sane /\ \E t \in Threads : Begin(t) \/ Step(t)

Spec == Init /\ [][Next]_vars

FairSpec == Spec /\ \A t \in Threads : WF_vars(Sane /\ Step(t))

-----------------------------------------------------------------------------
\* A node of the GPT that stands for a page in the pool: its loading did not
\* fail and nobody deletes the page.
Live == {n \in tree :
    /\ node[n].state = "FINISH"
    /\ \A t \in Threads : pc[t] = "loadFail" => loc[t].node # n}

\* The blocks that threads have taken, or not yet given back.
InHand(t) ==
    IF pc[t] \in {"publish", "createId", "mdelete", "freeBlock"} THEN {loc[t].block} ELSE {}

\* Every block of a sub pool is in one place at most: the sub pool's list of
\* empty blocks, a page in the GPT, or the hands of one thread; and used_blocks
\* counts the ones that are not in the list.  After a mistake the node of a page
\* can be left with a block that is in the list.
BlocksAccountedFor ==
    \A i \in SubPools :
        /\ used_blocks[i] + Len(empty[i]) = Len(BlocksOf[i])
        /\ \A k, l \in 1..Len(empty[i]) : empty[i][k] = empty[i][l] => k = l
        /\ ~mistaken => \A k \in 1..Len(empty[i]) :
            /\ \A n \in Live : node[n].block # empty[i][k]
            /\ \A t \in Threads : empty[i][k] \notin InHand(t)

\* Two pages in the pool are never the same page and never in the same block,
\* also where the node of a former page with the id of one is still in the GPT;
\* until a deletion mistakes that node for the one of its page.
LivePagesDistinct ==
    ~mistaken => \A m, n \in Live :
        m # n => node[m].pid # node[n].pid /\ node[m].block # node[n].block

\* The block a caller gets from mp_page_open holds the page, as the comment on
\* it says: "If page in pool, return the block, if not load it."  The code
\* gives out the block of a node another thread has published and not read.
OpenedPageIsLoaded ==
    \A t \in Threads : pc[t] = "opened" => content[loc[t].block] = loc[t].page

\* A thread that waits for a page to be loaded stops waiting, unless the
\* loading thread found the pool full and gave up, or a thread went astray.
WaitersAreReleased ==
    \A t \in Threads :
        pc[t] = "wait" ~> (pc[t] # "wait" \/ loc[t].node \notin tree \/ ~Sane)
=============================================================================
