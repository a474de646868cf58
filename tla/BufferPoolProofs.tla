-------------------------- MODULE BufferPoolProofs --------------------------
(***************************************************************************)
(* Theorems about the buffer pool, for any threads and pages, any division *)
(* of blocks into sub pools, and any bound on the nodes.                   *)
(***************************************************************************)
EXTENDS BufferPool, FiniteSetTheorems, TLAPS

\* What the types need, and what holds after a mistake too: a thread that writes a
\* node, a block or an id has one, ...
Held(c, l) ==
    /\ c = "wait" => l.node \in Nodes
    /\ c \in {"publish", "bringIn", "badPage", "freeBlock"} => l.block \in Blocks
    /\ c \in {"create", "ddelete", "freeBlock", "zero", "freeId"} => l.page \in Pages

AllHeld == \A t \in Threads : Held(pc[t], loc[t])

\* ... and no block is in the lists twice.
ListsOf(e, used) ==
    /\ \A i \in SubPools : used[i] + Len(e[i]) = Len(BlocksOf[i])
    /\ \A i, j \in SubPools : \A k \in 1..Len(e[i]), l \in 1..Len(e[j]) :
          e[i][k] = e[j][l] => i = j /\ k = l

ListsRight == ListsOf(empty, used_blocks)

\* Where a thread has a node of the GPT for itself, ...
Loading == {"openAlloc", "publish"}
Reading == {"bringIn", "badPage", "loadFail"}
Deleting == {"freeBlock", "zero", "freeId", "remove"}
HasNode == Loading \cup Reading \cup {"create"} \cup Deleting

\* ... where it has a page id for itself, where it has a block that no node
\* has, and where it has given the block of its node back.
HasPage == (HasNode \ {"remove"}) \cup {"ddelete", "mdelete"}
HasBlock == {"publish", "createId"}
GaveBack == {"loadFail", "zero", "freeId", "remove"}

\* Nodes that have a block, and nodes whose id was given back.
Kept == {n \in tree :
    /\ node[n].state # "LOADING"
    /\ \A t \in Threads : pc[t] \in GaveBack => loc[t].node # n}
Leaving == {n \in tree : \E t \in Threads : pc[t] = "remove" /\ loc[t].node = n}
Takers == {t \in Threads : pc[t] \in HasBlock}

\* What a thread at c with locals l knows of its node, its page and its block.
OwnsId == {"create", "ddelete", "mdelete", "freeBlock", "zero", "freeId"}

Knows(c, l, nodes, tr, kept, ids) ==
    /\ c \in HasNode =>
        /\ l.node \in tr /\ nodes[l.node].pid = l.page
        /\ nodes[l.node].state = IF c \in Loading THEN "LOADING"
                                 ELSE IF c \in Deleting THEN "DESTROY" ELSE "FINISH"
        /\ c \in {"bringIn", "badPage", "loadFail", "create", "freeBlock"} =>
              nodes[l.node].block = l.block
    /\ c = "mdelete" => \E n \in kept : nodes[n].pid = l.page /\ nodes[n].block = l.block
    /\ c = "ddelete" => l.page \in Pages /\ \A n \in tr : nodes[n].pid # l.page
    /\ c \in OwnsId => l.page \notin ids
    /\ c \in {"publish", "bringIn", "badPage", "createId", "create", "mdelete", "freeBlock", "zero"} =>
          l.block \in Blocks

ThreadsKnow ==
    \A t \in Threads : Knows(pc[t], loc[t], node, tree, Kept, exists \cup freeIds)

\* Nobody shares a node or a page id with another.
Apart ==
    \A t, u \in Threads : t # u =>
        /\ pc[t] \in HasNode /\ pc[u] \in HasNode => loc[t].node # loc[u].node
        /\ pc[t] \in HasPage /\ pc[u] \in HasPage => loc[t].page # loc[u].page

NodesRight ==
    /\ \A n \in tree :
        /\ node[n].pid \in Pages
        /\ node[n].state # "LOADING" => node[n].block \in Blocks
        /\ node[n].state = "LOADING" => \E t \in Threads : pc[t] \in Loading /\ loc[t].node = n
        /\ node[n].pid \in freeIds => n \in Leaving
    /\ \A m, n \in tree \ Leaving : node[m].pid = node[n].pid => m = n
    /\ exists \cap freeIds = {}

\* A block is in an empty list, at a node or in a thread's hands, and there once.
Accounted(e, used, kept, nodes, takers, locals) ==
    /\ ListsOf(e, used)
    /\ \A i \in SubPools : \A k \in 1..Len(e[i]) :
        /\ \A n \in kept : nodes[n].block # e[i][k]
        /\ \A t \in takers : locals[t].block # e[i][k]
    /\ \A m, n \in kept : nodes[m].block = nodes[n].block => m = n
    /\ \A t, u \in takers : locals[t].block = locals[u].block => t = u
    /\ \A n \in kept, t \in takers : nodes[n].block # locals[t].block

BlocksInOnePlace == Accounted(empty, used_blocks, Kept, node, Takers, loc)

\* The page of a node is in its block, unless the block was zeroed late or the
\* page is still to be read or to be initialized.
ContentRight ==
    \A n \in Kept :
        \/ content[node[n].block] \in {NULL, node[n].pid}
        \/ \E t \in Threads : pc[t] \in {"bringIn", "create"} /\ loc[t].node = n

Rest == ThreadsKnow /\ Apart /\ NodesRight /\ BlocksInOnePlace /\ ContentRight

\* All of it until the first mistake, the types and the lists ever after.
TypeInv == TypeOK /\ AllHeld /\ ListsRight

Inv == TypeInv /\ (~mistaken => Rest)

-----------------------------------------------------------------------------
(* Blocks move between the lists, the hands of threads, and the nodes.      *)

\* Only the blocks of nodes and threads are looked at.
LEMMA AccountedSame ==
    ASSUME NEW e, NEW used, NEW kept, NEW nodes, NEW takers, NEW locals, NEW nodes2, NEW locals2,
           Accounted(e, used, kept, nodes, takers, locals),
           \A n \in kept : nodes2[n].block = nodes[n].block,
           \A t \in takers : locals2[t].block = locals[t].block
    PROVE  Accounted(e, used, kept, nodes2, takers, locals2)
  BY DEF Accounted

\* The first block of list i goes to thread t; block b comes back to list i.
Lists(e, used) == e \in [SubPools -> Seq(Blocks)] /\ used \in [SubPools -> Int]

TakenBy(t, i, e, used, takers, locals, e2, used2, locals2) ==
    /\ i \in SubPools /\ e[i] # <<>> /\ t \notin takers
    /\ e2[i] = Tail(e[i]) /\ used2[i] = used[i] + 1
    /\ \A j \in SubPools \ {i} : e2[j] = e[j] /\ used2[j] = used[j]
    /\ locals2[t].block = Head(e[i]) /\ \A u \in takers : locals2[u].block = locals[u].block

BackTo(i, b, e, used, e2, used2) ==
    /\ i \in SubPools /\ b \in Blocks
    /\ e2[i] = <<b>> \o e[i] /\ used2[i] = used[i] - 1
    /\ \A j \in SubPools \ {i} : e2[j] = e[j] /\ used2[j] = used[j]

LEMMA AccountedTake ==
    ASSUME NEW e, NEW used, NEW kept, NEW nodes, NEW takers, NEW locals, NEW e2, NEW used2,
           NEW locals2, NEW i, NEW t, Lists(e, used),
           Accounted(e, used, kept, nodes, takers, locals),
           TakenBy(t, i, e, used, takers, locals, e2, used2, locals2)
    PROVE  Accounted(e2, used2, kept, nodes, takers \cup {t}, locals2)
<1>0. /\ e \in [SubPools -> Seq(Blocks)] /\ used \in [SubPools -> Int]
      /\ i \in SubPools /\ e[i] # <<>> /\ t \notin takers
      /\ e2[i] = Tail(e[i]) /\ used2[i] = used[i] + 1
      /\ \A j \in SubPools \ {i} : e2[j] = e[j] /\ used2[j] = used[j]
      /\ locals2[t].block = Head(e[i]) /\ \A u \in takers : locals2[u].block = locals[u].block
  BY DEF Lists, TakenBy
<1> DEFINE at(j, k) == IF j = i THEN k + 1 ELSE k
<1>1. /\ Len(e[i]) \in Nat /\ Len(e[i]) >= 1 /\ Head(e[i]) = e[i][1]
      /\ Len(Tail(e[i])) = Len(e[i]) - 1
      /\ \A k \in 1..(Len(e[i]) - 1) : Tail(e[i])[k] = e[i][k + 1]
  BY <1>0
<1>2. e2[i] = Tail(e[i]) /\ \A j \in SubPools \ {i} : e2[j] = e[j]
  BY <1>0
<1>3. ASSUME NEW j \in SubPools, NEW k \in 1..Len(e2[j])
      PROVE  at(j, k) \in 1..Len(e[j]) /\ e2[j][k] = e[j][at(j, k)] /\ (j = i => at(j, k) # 1)
  <2>1. CASE j = i
    <3>1. e2[j] = Tail(e[i]) /\ at(j, k) = k + 1
      BY <1>2, <2>1
    <3>2. k \in 1..(Len(e[i]) - 1)
      BY <1>1, <3>1
    <3>3. k + 1 \in 1..Len(e[i]) /\ k + 1 # 1 /\ Tail(e[i])[k] = e[i][k + 1]
      BY <1>1, <3>2
    <3> QED
      BY <2>1, <3>1, <3>3
  <2>2. CASE j # i
    BY <1>2, <2>2
  <2> QED
    BY <2>1, <2>2
<1>4. ASSUME NEW j \in SubPools PROVE used2[j] + Len(e2[j]) = Len(BlocksOf[j])
  <2>0. used[j] + Len(e[j]) = Len(BlocksOf[j]) /\ used[j] \in Int
    BY <1>0 DEF Accounted, ListsOf
  <2>1. CASE j = i
    <3>1. used2[j] = used[j] + 1 /\ Len(e2[j]) = Len(e[j]) - 1 /\ Len(e[j]) \in Nat
      BY <1>0, <1>1, <2>1
    <3> QED
      BY <2>0, <3>1
  <2>2. CASE j # i
    BY <1>0, <2>0, <2>2
  <2> QED
    BY <2>1, <2>2
<1>5. ASSUME NEW j \in SubPools, NEW l \in SubPools,
             NEW k \in 1..Len(e2[j]), NEW m \in 1..Len(e2[l]), e2[j][k] = e2[l][m]
      PROVE  j = l /\ k = m
  <2>1. j = l /\ at(j, k) = at(l, m)
    <3>1. /\ at(j, k) \in 1..Len(e[j]) /\ e2[j][k] = e[j][at(j, k)]
          /\ at(l, m) \in 1..Len(e[l]) /\ e2[l][m] = e[l][at(l, m)]
      BY <1>3
    <3>2. e[j][at(j, k)] = e[l][at(l, m)]
      BY <1>5, <3>1
    <3> HIDE DEF at
    <3> QED
      BY <3>1, <3>2 DEF Accounted, ListsOf
  <2> QED
    BY <2>1
<1>6. ASSUME NEW j \in SubPools, NEW k \in 1..Len(e2[j])
      PROVE  /\ \A n \in kept : nodes[n].block # e2[j][k]
             /\ \A u \in takers \cup {t} : locals2[u].block # e2[j][k]
  <2>1. at(j, k) \in 1..Len(e[j]) /\ e2[j][k] = e[j][at(j, k)] /\ (j = i => at(j, k) # 1)
    BY <1>3
  <2>2. \A n \in kept : nodes[n].block # e2[j][k]
    BY <2>1 DEF Accounted, ListsOf
  <2>3. \A u \in takers : locals2[u].block # e2[j][k]
    BY <1>0, <2>1 DEF Accounted, ListsOf
  <2>4. e[i][1] # e[j][at(j, k)]
    <3>1. 1 \in 1..Len(e[i])
      BY <1>1
    <3> HIDE DEF at
    <3> QED
      BY <1>0, <2>1, <3>1 DEF Accounted, ListsOf
  <2> QED
    BY <1>0, <1>1, <2>1, <2>2, <2>3, <2>4
<1>7. /\ \A n \in kept : nodes[n].block # locals2[t].block
      /\ \A u \in takers : locals2[u].block # locals2[t].block
  <2>1. 1 \in 1..Len(e[i]) /\ locals2[t].block = e[i][1]
    BY <1>0, <1>1
  <2> QED
    BY <1>0, <2>1 DEF Accounted, ListsOf
<1>8. /\ \A m, n \in kept : nodes[m].block = nodes[n].block => m = n
      /\ \A u, v \in takers \cup {t} : locals2[u].block = locals2[v].block => u = v
      /\ \A n \in kept, u \in takers \cup {t} : nodes[n].block # locals2[u].block
  BY <1>0, <1>7 DEF Accounted, ListsOf
<1> QED
  BY <1>4, <1>5, <1>6, <1>8 DEF Accounted, ListsOf

\* The block in the hands of thread t goes to node n.
KeptBy(t, n, kept, nodes, nodes2, takers, locals, locals2) ==
    /\ n \notin kept /\ t \in takers /\ nodes2[n].block = locals[t].block
    /\ \A m \in kept : nodes2[m].block = nodes[m].block
    /\ \A u \in takers \ {t} : locals2[u].block = locals[u].block

LEMMA AccountedKeep ==
    ASSUME NEW e, NEW used, NEW kept, NEW nodes, NEW nodes2, NEW takers, NEW locals, NEW locals2,
           NEW n, NEW t, Accounted(e, used, kept, nodes, takers, locals),
           KeptBy(t, n, kept, nodes, nodes2, takers, locals, locals2)
    PROVE  Accounted(e, used, kept \cup {n}, nodes2, takers \ {t}, locals2)
<1> USE DEF KeptBy
<1>1. ASSUME NEW i \in SubPools, NEW k \in 1..Len(e[i])
      PROVE  /\ \A m \in kept \cup {n} : nodes2[m].block # e[i][k]
             /\ \A u \in takers \ {t} : locals2[u].block # e[i][k]
  BY DEF Accounted, ListsOf
<1>2. /\ \A l, m \in kept \cup {n} : nodes2[l].block = nodes2[m].block => l = m
      /\ \A u, v \in takers \ {t} : locals2[u].block = locals2[v].block => u = v
  BY DEF Accounted, ListsOf
<1>3. \A m \in kept \cup {n}, u \in takers \ {t} : nodes2[m].block # locals2[u].block
  BY DEF Accounted, ListsOf
<1> QED
  BY <1>1, <1>2, <1>3 DEF Accounted, ListsOf

\* The block of a node goes back to a list.
LEMMA AccountedFree ==
    ASSUME NEW e, NEW used, NEW kept, NEW nodes, NEW takers, NEW locals, NEW e2, NEW used2,
           NEW i, NEW b, NEW n \in kept, b = nodes[n].block, Lists(e, used),
           Accounted(e, used, kept, nodes, takers, locals),
           BackTo(i, b, e, used, e2, used2)
    PROVE  Accounted(e2, used2, kept \ {n}, nodes, takers, locals)
<1>0. /\ e \in [SubPools -> Seq(Blocks)] /\ used \in [SubPools -> Int]
      /\ i \in SubPools /\ b \in Blocks
      /\ e2[i] = <<b>> \o e[i] /\ used2[i] = used[i] - 1
      /\ \A j \in SubPools \ {i} : e2[j] = e[j] /\ used2[j] = used[j]
  BY DEF Lists, BackTo
<1> DEFINE at(j, k) == IF j = i THEN k - 1 ELSE k
<1>1. /\ Len(e[i]) \in Nat /\ Len(<<b>> \o e[i]) = Len(e[i]) + 1
      /\ (<<b>> \o e[i])[1] = b
      /\ \A k \in 2..(Len(e[i]) + 1) : (<<b>> \o e[i])[k] = e[i][k - 1]
  BY <1>0
<1>2. e2[i] = <<b>> \o e[i] /\ \A j \in SubPools \ {i} : e2[j] = e[j]
  BY <1>0
<1>3. ASSUME NEW j \in SubPools, NEW k \in 1..Len(e2[j])
      PROVE  \/ j = i /\ k = 1 /\ e2[j][k] = b
             \/ /\ ~(j = i /\ k = 1)
                /\ at(j, k) \in 1..Len(e[j]) /\ e2[j][k] = e[j][at(j, k)]
  <2>1. CASE j = i /\ k = 1
    BY <1>1, <1>2, <2>1
  <2>2. CASE j = i /\ k # 1
    BY <1>1, <1>2, <2>2
  <2>3. CASE j # i
    BY <1>2, <2>3
  <2> QED
    BY <2>1, <2>2, <2>3
<1>4. ASSUME NEW j \in SubPools PROVE used2[j] + Len(e2[j]) = Len(BlocksOf[j])
  <2>0. used[j] + Len(e[j]) = Len(BlocksOf[j]) /\ used[j] \in Int
    BY <1>0 DEF Accounted, ListsOf
  <2>1. CASE j = i
    <3>1. used2[j] = used[j] - 1 /\ Len(e2[j]) = Len(e[j]) + 1 /\ Len(e[j]) \in Nat
      BY <1>0, <1>1, <2>1
    <3> QED
      BY <2>0, <3>1
  <2>2. CASE j # i
    BY <1>0, <2>0, <2>2
  <2> QED
    BY <2>1, <2>2
<1>5. ASSUME NEW j \in SubPools, NEW k \in 1..Len(e[j]) PROVE e[j][k] # b
  BY DEF Accounted, ListsOf
<1>6. ASSUME NEW j \in SubPools, NEW l \in SubPools,
             NEW k \in 1..Len(e2[j]), NEW m \in 1..Len(e2[l]), e2[j][k] = e2[l][m]
      PROVE  j = l /\ k = m
  <2>1. CASE j = i /\ k = 1
    BY <1>3, <1>5, <1>6, <2>1
  <2>2. CASE l = i /\ m = 1
    BY <1>3, <1>5, <1>6, <2>2
  <2>3. CASE ~(j = i /\ k = 1) /\ ~(l = i /\ m = 1)
    <3>1. j = l /\ at(j, k) = at(l, m)
      <4>1. /\ at(j, k) \in 1..Len(e[j]) /\ e2[j][k] = e[j][at(j, k)]
            /\ at(l, m) \in 1..Len(e[l]) /\ e2[l][m] = e[l][at(l, m)]
        BY <1>3, <2>3
      <4>2. e[j][at(j, k)] = e[l][at(l, m)]
        BY <1>6, <4>1
      <4> HIDE DEF at
      <4> QED
        BY <4>1, <4>2 DEF Accounted, ListsOf
    <3> QED
      BY <3>1
  <2> QED
    BY <2>1, <2>2, <2>3
<1>7. ASSUME NEW j \in SubPools, NEW k \in 1..Len(e2[j])
      PROVE  /\ \A m \in kept \ {n} : nodes[m].block # e2[j][k]
             /\ \A u \in takers : locals[u].block # e2[j][k]
  <2>1. CASE j = i /\ k = 1
    BY <1>3, <2>1 DEF Accounted, ListsOf
  <2>2. CASE ~(j = i /\ k = 1)
    <3>1. at(j, k) \in 1..Len(e[j]) /\ e2[j][k] = e[j][at(j, k)]
      BY <1>3, <2>2
    <3> HIDE DEF at
    <3> QED
      BY <3>1 DEF Accounted, ListsOf
  <2> QED
    BY <2>1, <2>2
<1>8. /\ \A l, m \in kept \ {n} : nodes[l].block = nodes[m].block => l = m
      /\ \A u, v \in takers : locals[u].block = locals[v].block => u = v
      /\ \A m \in kept \ {n}, u \in takers : nodes[m].block # locals[u].block
  BY DEF Accounted, ListsOf
<1> QED
  BY <1>4, <1>6, <1>7, <1>8 DEF Accounted, ListsOf

-----------------------------------------------------------------------------
(* Types *)

NodeType == [pid : Pages \cup {NULL}, block : Blocks \cup {NULL}, state : NodeState]
LocalsType == [page : Pages \cup {NULL}, block : Blocks \cup {NULL},
               node : Nodes \cup {NULL}, pool : SubPools \cup {Cardinality(SubPools) + 1}]

LEMMA Numbers ==
    ASSUME PoolAssumption
    PROVE  /\ Cardinality(SubPools) \in Nat /\ SubPools = 1..Cardinality(SubPools)
           /\ 1 \in SubPools \cup {Cardinality(SubPools) + 1}
           /\ \A i \in SubPools : i + 1 \in SubPools \cup {Cardinality(SubPools) + 1}
           /\ NoLocals \in LocalsType /\ NoNode \in NodeType
<1>1. Cardinality(SubPools) \in Nat /\ SubPools = 1..Cardinality(SubPools)
  BY FS_CardinalityType DEF PoolAssumption
<1>2. /\ 1 \in SubPools \cup {Cardinality(SubPools) + 1}
      /\ \A i \in SubPools : i + 1 \in SubPools \cup {Cardinality(SubPools) + 1}
  <2>1. ASSUME NEW c \in Nat
        PROVE  1 \in (1..c) \cup {c + 1} /\ \A i \in 1..c : i + 1 \in (1..c) \cup {c + 1}
    OBVIOUS
  <2> QED
    BY <1>1, <2>1
<1>3. NoLocals \in LocalsType /\ NoNode \in NodeType
  BY <1>2 DEF NoLocals, LocalsType, NoNode, NodeType, NodeState
<1> QED
  BY <1>1, <1>2, <1>3

\* malloc returns a node nobody has.
LEMMA Malloc ==
    ASSUME Allocatable # {}
    PROVE  /\ NewNode \in Nodes /\ NewNode \notin tree
           /\ \A t \in Threads : loc[t].node # NewNode
<1>1. NewNode \in Allocatable
  BY Zenon DEF NewNode
<1> QED
  BY <1>1 DEF Allocatable

\* The parts of a state that can be typed one at a time.
PoolType(e, used, c, n) ==
    /\ e \in [SubPools -> Seq(Blocks)] /\ used \in [SubPools -> Int]
    /\ c \in [Blocks -> Pages \cup {NULL}] /\ n \in [Nodes -> NodeType]

ThreadType(l, c) == l \in [Threads -> LocalsType] /\ c \in [Threads -> PC]

PageType(tr, f, x, r) ==
    tr \subseteq Nodes /\ f \subseteq Pages /\ x \subseteq Pages /\ r \in BOOLEAN

LEMMA Typed ==
    /\ TypeOK <=> /\ PoolType(empty, used_blocks, content, node) /\ ThreadType(loc, pc)
                  /\ PageType(tree, freeIds, exists, mistaken)
    /\ TypeOK' <=> /\ PoolType(empty', used_blocks', content', node') /\ ThreadType(loc', pc')
                   /\ PageType(tree', freeIds', exists', mistaken')
  BY DEF TypeOK, PoolType, ThreadType, PageType, NodeType, LocalsType

\* One field of the locals of a thread, or of a node, is written.
LEMMA LocalsTyped ==
    ASSUME NEW l \in LocalsType
    PROVE  /\ \A x \in Blocks \cup {NULL} : [l EXCEPT !.block = x] \in LocalsType
           /\ \A x \in SubPools \cup {Cardinality(SubPools) + 1} : [l EXCEPT !.pool = x] \in LocalsType
           /\ \A x \in Pages \cup {NULL} : [l EXCEPT !.page = x] \in LocalsType
           /\ \A x \in Nodes \cup {NULL} : [l EXCEPT !.node = x] \in LocalsType
  BY DEF LocalsType

LEMMA NodeTyped ==
    ASSUME NEW n \in NodeType
    PROVE  /\ \A x \in Blocks \cup {NULL} : [n EXCEPT !.block = x] \in NodeType
           /\ \A x \in NodeState : [n EXCEPT !.state = x] \in NodeType
  BY DEF NodeType

LEMMA PoolInit == PoolAssumption /\ Init => Inv
<1> SUFFICES ASSUME PoolAssumption, Init PROVE Inv
  OBVIOUS
<1>1. TypeOK
  <2>1. PoolType(empty, used_blocks, content, node)
    BY Numbers DEF Init, PoolType, PoolAssumption
  <2>2. ThreadType(loc, pc)
    BY Numbers DEF Init, ThreadType, PC
  <2>3. PageType(tree, freeIds, exists, mistaken)
    BY DEF Init, PageType
  <2> QED
    BY <2>1, <2>2, <2>3, Typed
<1>2. Kept = {} /\ Leaving = {} /\ Takers = {}
  BY DEF Init, Kept, Leaving, Takers, HasBlock
<1>3. ThreadsKnow /\ Apart
  BY DEF Init, ThreadsKnow, Apart, Knows, HasNode, HasPage, Loading, Reading, Deleting, OwnsId
<1>4. NodesRight /\ ContentRight
  BY <1>2 DEF Init, NodesRight, ContentRight
<1>5. BlocksInOnePlace
  <2>1. \A i \in SubPools : Len(BlocksOf[i]) \in Nat
    BY DEF PoolAssumption
  <2>2. \A i \in SubPools : used_blocks[i] + Len(empty[i]) = Len(BlocksOf[i])
    BY <2>1 DEF Init
  <2> QED
    BY <1>2, <2>2 DEF Init, BlocksInOnePlace, Accounted, ListsOf, PoolAssumption
<1>6. AllHeld
  BY DEF Init, AllHeld, Held
<1> QED
  BY <1>1, <1>3, <1>4, <1>5, <1>6 DEF Inv, TypeInv, Rest, ListsRight, BlocksInOnePlace, Accounted

\* FreeBlock and TakeBlock keep the lists typed.
LEMMA FreeTyped ==
    ASSUME PoolAssumption, PoolType(empty, used_blocks, content, node), NEW b \in Blocks, FreeBlock(b)
    PROVE  PoolType(empty', used_blocks', content, node)
<1>1. \A i \in SubPools : <<b>> \o empty[i] \in Seq(Blocks)
  BY DEF PoolType
<1>2. empty' \in [SubPools -> Seq(Blocks)]
  BY <1>1 DEF FreeBlock, PoolType
<1>3. used_blocks' \in [SubPools -> Int]
  <2>1. used_blocks' = [used_blocks EXCEPT ![SubPoolOf(b)] = @ - 1]
    BY DEF FreeBlock
  <2>2. \A i \in SubPools : used_blocks[i] - 1 \in Int
    BY DEF PoolType
  <2> QED
    BY <2>1, <2>2 DEF PoolType
<1> QED
  BY <1>2, <1>3 DEF PoolType

\* An empty list is one whose blocks are all counted.
LEMMA Takeable ==
    ASSUME TypeOK, ListsRight, NEW t \in Threads, NEW next, TakeBlock(t, next)
    PROVE  /\ loc[t].pool \in SubPools /\ empty[loc[t].pool] # <<>>
           /\ Head(empty[loc[t].pool]) \in Blocks
           /\ empty' = [empty EXCEPT ![loc[t].pool] = Tail(@)]
           /\ used_blocks' = [used_blocks EXCEPT ![loc[t].pool] = @ + 1]
           /\ loc' = [loc EXCEPT ![t] = [loc[t] EXCEPT !.block = Head(empty[loc[t].pool])]]
           /\ pc' = [pc EXCEPT ![t] = next]
<1>1. PICK i \in SubPools : i = loc[t].pool /\ used_blocks[i] # Len(BlocksOf[i])
  BY DEF TakeBlock
<1>2. used_blocks[i] + Len(empty[i]) = Len(BlocksOf[i]) /\ used_blocks[i] \in Int
      /\ empty[i] \in Seq(Blocks)
  BY <1>1 DEF ListsRight, ListsOf, TypeOK
<1>3. empty[i] # <<>> /\ Head(empty[i]) \in Blocks
  BY <1>1, <1>2
<1> QED
  BY <1>1, <1>3 DEF TakeBlock, Goto, TypeOK

LEMMA TakeTyped ==
    ASSUME PoolAssumption, TypeOK, ListsRight, NEW t \in Threads, NEW next \in PC,
           TakeBlock(t, next)
    PROVE  PoolType(empty', used_blocks', content, node) /\ ThreadType(loc', pc')
<1>1. PICK i \in SubPools, b \in Blocks :
          /\ empty[i] # <<>> /\ empty' = [empty EXCEPT ![i] = Tail(@)]
          /\ used_blocks' = [used_blocks EXCEPT ![i] = @ + 1]
          /\ loc' = [loc EXCEPT ![t] = [loc[t] EXCEPT !.block = b]]
          /\ pc' = [pc EXCEPT ![t] = next]
  BY Takeable
<1>2. PoolType(empty, used_blocks, content, node) /\ ThreadType(loc, pc)
  BY Typed
<1>3. Tail(empty[i]) \in Seq(Blocks)
  BY <1>1, <1>2 DEF PoolType
<1>4. [loc[t] EXCEPT !.block = b] \in LocalsType
  BY <1>2, LocalsTyped DEF ThreadType
<1>5. PoolType(empty', used_blocks', content, node)
  BY <1>1, <1>2, <1>3 DEF PoolType
<1>6. ThreadType(loc', pc')
  BY <1>1, <1>2, <1>4 DEF ThreadType
<1> QED
  BY <1>5, <1>6

LEMMA NextPoolTyped ==
    ASSUME PoolAssumption, TypeOK, NEW t \in Threads, NextSubPool(t)
    PROVE  /\ loc' = [loc EXCEPT ![t] = [loc[t] EXCEPT !.pool = loc[t].pool + 1]]
           /\ ThreadType(loc', pc')
<1>1. ThreadType(loc, pc)
  BY Typed
<1>2. [loc[t] EXCEPT !.pool = loc[t].pool + 1] \in LocalsType
  <2>1. loc[t] \in LocalsType /\ loc[t].pool \in SubPools
    BY <1>1 DEF ThreadType, NextSubPool
  <2>2. loc[t].pool + 1 \in SubPools \cup {Cardinality(SubPools) + 1}
    BY <2>1, Numbers
  <2> QED
    BY <2>1, <2>2, LocalsTyped
<1>3. loc' = [loc EXCEPT ![t] = [loc[t] EXCEPT !.pool = loc[t].pool + 1]]
  BY <1>1 DEF NextSubPool, ThreadType
<1> QED
  BY <1>1, <1>2, <1>3 DEF NextSubPool, ThreadType

LEMMA ReturnTyped ==
    ASSUME PoolAssumption, ThreadType(loc, pc), NEW t \in Threads, Return(t)
    PROVE  ThreadType(loc', pc')
  BY Numbers DEF Return, Goto, ThreadType, PC

LEMMA RemoveTyped ==
    ASSUME PoolAssumption, TypeOK, NEW t \in Threads, RemoveNode(t)
    PROVE  PoolType(empty, used_blocks, content, node') /\ PageType(tree', freeIds, exists, mistaken)
<1>1. node' = node \/ node' = [node EXCEPT ![loc[t].node] = NoNode]
  BY DEF RemoveNode
<1>2. node \in [Nodes -> NodeType] /\ NoNode \in NodeType
  BY Typed, Numbers DEF PoolType
<1>3. node' \in [Nodes -> NodeType]
  BY <1>1, <1>2
<1> QED
  BY <1>3, Typed DEF PoolType, PageType, RemoveNode

LEMMA HeldBy ==
    ASSUME AllHeld, NEW t \in Threads
    PROVE  Held(pc[t], loc[t])
  BY DEF AllHeld

LEMMA MistakeTyped == ASSUME mistaken \in BOOLEAN, NEW n, Mistake(n) PROVE mistaken' \in BOOLEAN
  BY Zenon DEF Mistake

LEMMA TypeStep ==
    ASSUME PoolAssumption, TypeInv, Next
    PROVE  TypeOK'
<1> USE PoolAssumption
<1>0. /\ TypeOK /\ ListsRight /\ AllHeld
      /\ PoolType(empty, used_blocks, content, node) /\ ThreadType(loc, pc)
      /\ PageType(tree, freeIds, exists, mistaken)
  BY Typed DEF TypeInv
<1>a. /\ \A t \in Threads : loc[t] \in LocalsType
      /\ \A n \in Nodes : node[n] \in NodeType
      /\ NoLocals \in LocalsType
  BY <1>0, Numbers DEF ThreadType, PoolType
<1>1. ASSUME NEW t \in Threads, NEW p \in Pages, OpenMiss(t, p) PROVE TypeOK'
  <2>1. NewNode \in Nodes
    BY <1>1, Malloc DEF OpenMiss
  <2>2. [pid |-> p, block |-> NULL, state |-> "LOADING"] \in NodeType
    BY DEF NodeType, NodeState
  <2>3. [page |-> p, block |-> NULL, node |-> NewNode, pool |-> 1] \in LocalsType
    BY <2>1, Numbers DEF LocalsType
  <2>4. PoolType(empty', used_blocks', content', node')
    BY <1>0, <1>1, <2>2 DEF OpenMiss, PoolType
  <2>5. ThreadType(loc', pc')
    BY <1>0, <1>1, <2>3 DEF OpenMiss, Goto, ThreadType, PC
  <2>6. PageType(tree', freeIds', exists', mistaken')
    BY <1>0, <1>1, <2>1 DEF OpenMiss, PageType
  <2> QED
    BY <2>4, <2>5, <2>6, Typed
<1>2. ASSUME NEW t \in Threads, NEW p \in Pages, OpenHit(t, p) PROVE TypeOK'
  <2>1. PICK n \in Nodes : loc' = [loc EXCEPT ![t] = [NoLocals EXCEPT !.page = p, !.node = n]]
    BY <1>0, <1>2 DEF OpenHit, Found, PageType
  <2>2. [NoLocals EXCEPT !.page = p, !.node = n] \in LocalsType
    BY <1>a DEF LocalsType, NoLocals
  <2>3. ThreadType(loc', pc')
    BY <1>0, <1>2, <2>1, <2>2 DEF OpenHit, Goto, ThreadType, PC
  <2> QED
    BY <1>0, <1>2, <2>3, Typed DEF OpenHit
<1>3. ASSUME NEW t \in Threads, OpenWaited(t) PROVE TypeOK'
  <2>1. loc[t].node \in Nodes
    BY <1>0, <1>3, HeldBy DEF OpenWaited, Held
  <2>2. node[loc[t].node].block \in Blocks \cup {NULL}
    BY <1>a, <2>1 DEF NodeType
  <2>3. [loc[t] EXCEPT !.block = node[loc[t].node].block] \in LocalsType
    BY <1>a, <2>2, LocalsTyped
  <2>4. ThreadType(loc', pc')
    BY <1>0, <1>3, <2>3 DEF OpenWaited, Goto, ThreadType, PC
  <2> QED
    BY <1>0, <1>3, <2>4, Typed DEF OpenWaited
<1>4. ASSUME NEW t \in Threads, OpenAllocate(t) \/ CreateAllocate(t) PROVE TypeOK'
  <2>0. UNCHANGED <<content, node, tree, freeIds, exists, mistaken>>
    BY <1>4 DEF OpenAllocate, CreateAllocate
  <2>1. ASSUME NEW next \in PC, TakeBlock(t, next) PROVE TypeOK'
    BY <1>0, <2>0, <2>1, TakeTyped, Typed
  <2>2. ASSUME NextSubPool(t) PROVE TypeOK'
    <3>1. UNCHANGED <<used_blocks, empty>>
      BY <2>2 DEF NextSubPool
    <3> QED
      BY <1>0, <2>0, <2>2, <3>1, NextPoolTyped, Typed
  <2> QED
    BY <1>4, <2>1, <2>2 DEF OpenAllocate, CreateAllocate, PC
<1>5. ASSUME NEW t \in Threads, OpenPoolFull(t) \/ OpenLoadFailRemove(t) \/ MDeleteRemove(t) PROVE TypeOK'
  <2>1. /\ RemoveNode(t) /\ Return(t)
        /\ UNCHANGED <<empty, used_blocks, content, freeIds, exists, mistaken>>
    BY <1>5 DEF OpenPoolFull, OpenLoadFailRemove, MDeleteRemove
  <2> QED
    BY <1>0, <2>1, RemoveTyped, ReturnTyped, Typed
<1>6. ASSUME NEW t \in Threads, OpenPublish(t), ~Astray(t) PROVE TypeOK'
  <2>1. loc[t].block \in Blocks \cup {NULL} /\ "FINISH" \in NodeState
    BY <1>a DEF LocalsType, NodeState
  <2>a. PICK n \in Nodes : n = loc[t].node
    BY <1>0, <1>6 DEF OpenPublish, Astray, PageType
  <2>2. [node[n] EXCEPT !.block = loc[t].block, !.state = "FINISH"] \in NodeType
    BY <1>a, <2>1 DEF NodeType
  <2>b. node' = [node EXCEPT ![n] = [node[n] EXCEPT !.block = loc[t].block, !.state = "FINISH"]]
    BY <1>0, <1>6, <2>a DEF OpenPublish, PoolType
  <2>3. node' \in [Nodes -> NodeType]
    BY <1>0, <2>2, <2>b DEF PoolType
  <2>4. PoolType(empty', used_blocks', content', node')
    BY <1>0, <1>6, <2>3 DEF OpenPublish, PoolType
  <2>5. ThreadType(loc', pc')
    BY <1>0, <1>6 DEF OpenPublish, Goto, ThreadType, PC
  <2> QED
    BY <1>0, <1>6, <2>4, <2>5, Typed DEF OpenPublish
<1>7. ASSUME NEW t \in Threads, BringIn(t) \/ MDeleteZero(t) PROVE TypeOK'
  <2>1. loc[t].page \in Pages \cup {NULL}
    BY <1>a DEF LocalsType
  <2>2. content' \in [Blocks -> Pages \cup {NULL}]
    BY <1>0, <1>7, <2>1 DEF BringIn, MDeleteZero, PoolType
  <2>3. ThreadType(loc', pc')
    BY <1>0, <1>7 DEF BringIn, MDeleteZero, Goto, ThreadType, PC
  <2>4. UNCHANGED <<empty, used_blocks, node, tree, freeIds, exists, mistaken>>
    BY <1>7 DEF BringIn, MDeleteZero
  <2>5. PoolType(empty', used_blocks', content', node')
    BY <1>0, <2>2, <2>4 DEF PoolType
  <2> QED
    BY <1>0, <2>3, <2>4, <2>5, Typed
<1>8. ASSUME NEW t \in Threads, OpenLoadFail(t) \/ MDeleteFreeBlock(t) PROVE TypeOK'
  <2>1. loc[t].block \in Blocks /\ FreeBlock(loc[t].block)
    BY <1>0, <1>8, HeldBy DEF OpenLoadFail, MDeleteFreeBlock, Held
  <2>2. UNCHANGED <<content, node, tree, freeIds, exists, loc, mistaken>>
    BY <1>8 DEF OpenLoadFail, MDeleteFreeBlock
  <2>3. ThreadType(loc', pc')
    BY <1>0, <1>8 DEF OpenLoadFail, MDeleteFreeBlock, Goto, ThreadType, PC
  <2> QED
    BY <1>0, <2>1, <2>2, <2>3, FreeTyped, Typed
<1>9. ASSUME NEW t \in Threads, Opened(t) \/ CreatePoolFull(t) PROVE TypeOK'
  <2>1. Return(t) /\ UNCHANGED <<empty, used_blocks, content, node, tree, freeIds, exists, mistaken>>
    BY <1>9 DEF Opened, CreatePoolFull
  <2> QED
    BY <1>0, <2>1, ReturnTyped, Typed
<1>10. ASSUME NEW t \in Threads, CreateBegin(t) PROVE TypeOK'
  <2>1. ThreadType(loc', pc')
    BY <1>0, <1>10 DEF CreateBegin, Goto, ThreadType, PC
  <2> QED
    BY <1>0, <1>10, <2>1, Typed DEF CreateBegin
<1>11. ASSUME NEW t \in Threads, CreateId(t) PROVE TypeOK'
  <2>1. NewNode \in Nodes
    BY <1>11, Malloc DEF CreateId
  <2>2. PICK p \in freeIds :
            /\ freeIds' = freeIds \ {p}
            /\ node' = [node EXCEPT ![NewNode] =
                         [pid |-> p, block |-> loc[t].block, state |-> "FINISH"]]
            /\ loc' = [loc EXCEPT ![t].page = p, ![t].node = NewNode]
    BY <1>11 DEF CreateId
  <2>3. p \in Pages /\ loc[t].block \in Blocks \cup {NULL}
    BY <1>0, <1>a DEF PageType, LocalsType
  <2>4. [pid |-> p, block |-> loc[t].block, state |-> "FINISH"] \in NodeType
    BY <2>3 DEF NodeType, NodeState
  <2>5. [loc[t] EXCEPT !.page = p, !.node = NewNode] \in LocalsType
    BY <1>a, <2>1, <2>3 DEF LocalsType
  <2>6. loc' = [loc EXCEPT ![t] = [loc[t] EXCEPT !.page = p, !.node = NewNode]]
    BY <1>0, <2>2 DEF ThreadType
  <2>7. ThreadType(loc', pc')
    BY <1>0, <1>11, <2>5, <2>6 DEF CreateId, Goto, ThreadType, PC
  <2>8. PoolType(empty', used_blocks', content', node')
    BY <1>0, <1>11, <2>2, <2>4 DEF CreateId, PoolType
  <2>10. PageType(tree', freeIds', exists', mistaken')
    BY <1>0, <1>11, <2>1, <2>2 DEF CreateId, PageType
  <2> QED
    BY <2>7, <2>8, <2>10, Typed
<1>12. ASSUME NEW t \in Threads, Create(t) PROVE TypeOK'
  <2>1. loc[t].page \in Pages
    BY <1>0, <1>12, HeldBy DEF Create, Held
  <2>2. PoolType(empty', used_blocks', content', node') /\ PageType(tree', freeIds', exists', mistaken')
    BY <1>0, <1>12, <2>1 DEF Create, PoolType, PageType
  <2> QED
    BY <1>0, <1>12, <2>2, ReturnTyped, Typed DEF Create
<1>13. ASSUME NEW t \in Threads, NEW p \in Pages, DDelete(t, p) PROVE TypeOK'
  <2>1. PICK n \in Nodes : Destroy(t, p, n)
    BY <1>0, <1>13 DEF DDelete, Found, PageType
  <2>2. [node[n] EXCEPT !.state = "DESTROY"] \in NodeType /\ node[n].block \in Blocks \cup {NULL}
    BY <1>a, NodeTyped DEF NodeState, NodeType
  <2>3. [NoLocals EXCEPT !.page = p, !.node = n, !.block = node[n].block] \in LocalsType
    BY <1>a, <2>2 DEF LocalsType, NoLocals
  <2>4. PoolType(empty', used_blocks', content', node')
    BY <1>0, <1>13, <2>1, <2>2 DEF DDelete, Destroy, PoolType
  <2>5. ThreadType(loc', pc')
    BY <1>0, <1>13, <2>1, <2>3 DEF DDelete, Destroy, Goto, ThreadType, PC
  <2>a. mistaken' \in BOOLEAN
    BY <1>0, <2>1, MistakeTyped DEF PageType, Destroy
  <2>6. PageType(tree', freeIds', exists', mistaken')
    BY <1>0, <1>13, <2>a DEF DDelete, PageType
  <2> QED
    BY <2>4, <2>5, <2>6, Typed
<1>14. ASSUME NEW t \in Threads, NEW p \in Pages,
              DDeleteOnDisk(t, p) \/ \E b \in Blocks : MDelete(t, p, b)
       PROVE  TypeOK'
  <2>1. PICK l \in LocalsType : loc' = [loc EXCEPT ![t] = l]
    <3>1. ASSUME NEW b \in Blocks
          PROVE  /\ [NoLocals EXCEPT !.page = p] \in LocalsType
                 /\ [NoLocals EXCEPT !.page = p, !.block = b] \in LocalsType
      BY <1>a DEF LocalsType, NoLocals
    <3>2. CASE DDeleteOnDisk(t, p)
      <4>1. [NoLocals EXCEPT !.page = p] \in LocalsType
        BY <1>a DEF LocalsType, NoLocals
      <4> QED
        BY <3>2, <4>1 DEF DDeleteOnDisk
    <3>3. CASE \E b \in Blocks : MDelete(t, p, b)
      BY <3>1, <3>3 DEF MDelete
    <3> QED
      BY <1>14, <3>2, <3>3
  <2>3. ThreadType(loc', pc')
    BY <1>0, <1>14, <2>1 DEF DDeleteOnDisk, MDelete, Goto, ThreadType, PC
  <2>4. PageType(tree', freeIds', exists', mistaken')
    BY <1>0, <1>14 DEF DDeleteOnDisk, MDelete, PageType
  <2>5. UNCHANGED <<empty, used_blocks, content, node>>
    BY <1>14 DEF DDeleteOnDisk, MDelete
  <2> QED
    BY <1>0, <2>3, <2>4, <2>5, Typed
<1>15. ASSUME NEW t \in Threads, DDeleteFreeId(t) PROVE TypeOK'
  <2>1. loc[t].page \in Pages
    BY <1>0, <1>15, HeldBy DEF DDeleteFreeId, Held
  <2>2. PageType(tree', freeIds', exists', mistaken')
    BY <1>0, <1>15, <2>1 DEF DDeleteFreeId, PageType
  <2> QED
    BY <1>0, <1>15, <2>2, ReturnTyped, Typed DEF DDeleteFreeId
<1>16. ASSUME NEW t \in Threads, MDeleteFreeId(t) PROVE TypeOK'
  <2>1. loc[t].page \in Pages
    BY <1>0, <1>16, HeldBy DEF MDeleteFreeId, Held
  <2>2. PageType(tree', freeIds', exists', mistaken') /\ ThreadType(loc', pc')
    BY <1>0, <1>16, <2>1 DEF MDeleteFreeId, Goto, PageType, ThreadType, PC
  <2> QED
    BY <1>0, <1>16, <2>2, Typed DEF MDeleteFreeId
<1>17. ASSUME NEW t \in Threads, MDeleteDestroy(t), ~Astray(t) PROVE TypeOK'
  <2>1. CASE Return(t) /\ UNCHANGED <<node, mistaken>>
    BY <1>0, <1>17, <2>1, ReturnTyped, Typed DEF MDeleteDestroy
  <2>2. ASSUME NEW n \in Found(content[loc[t].block]), Mistake(n),
               node' = [node EXCEPT ![n].state = "DESTROY"],
               loc' = [loc EXCEPT ![t].page = content[loc[t].block], ![t].node = n],
               Goto(t, "freeBlock")
        PROVE  TypeOK'
    <3>1. n \in Nodes /\ content[loc[t].block] \in Pages \cup {NULL}
      <4>1. loc[t].block \in Blocks
        BY <1>a, <1>17 DEF MDeleteDestroy, Astray, LocalsType
      <4> QED
        BY <1>0, <2>2, <4>1 DEF Found, PageType, PoolType
    <3>2. [node[n] EXCEPT !.state = "DESTROY"] \in NodeType
      BY <1>a, <3>1, NodeTyped DEF NodeState
    <3>3. [loc[t] EXCEPT !.page = content[loc[t].block], !.node = n] \in LocalsType
      BY <1>a, <3>1 DEF LocalsType
    <3>4. PoolType(empty', used_blocks', content', node')
      BY <1>0, <1>17, <2>2, <3>2 DEF MDeleteDestroy, PoolType
    <3>5. loc' = [loc EXCEPT ![t] = [loc[t] EXCEPT !.page = content[loc[t].block], !.node = n]]
      BY <1>0, <2>2 DEF ThreadType
    <3>6. ThreadType(loc', pc')
      BY <1>0, <2>2, <3>3, <3>5 DEF Goto, ThreadType, PC
    <3>7. mistaken' \in BOOLEAN
      BY <1>0, <2>2, MistakeTyped DEF PageType
    <3>8. PageType(tree', freeIds', exists', mistaken')
      BY <1>0, <1>17, <3>7 DEF MDeleteDestroy, PageType
    <3> QED
      BY <3>4, <3>6, <3>8, Typed
  <2> QED
    BY <1>17, <2>1, <2>2 DEF MDeleteDestroy
<1>18. ASSUME NEW t \in Threads, GoAstray(t) PROVE TypeOK'
  <2>1. ThreadType(loc', pc')
    BY <1>0, <1>18 DEF GoAstray, Goto, ThreadType, PC
  <2> QED
    BY <1>0, <1>18, <2>1, Typed DEF GoAstray
<1> QED
  BY <1>1, <1>2, <1>3, <1>4, <1>5, <1>6, <1>7, <1>8, <1>9, <1>10, <1>11, <1>12, <1>13,
     <1>14, <1>15, <1>16, <1>17, <1>18 DEF Next, Begin, Step, Go

-----------------------------------------------------------------------------
(* What a step of one thread leaves alone *)

\* Only thread t moves, from c to d, and its locals become l.
Moves(t, d, l) ==
    /\ pc'[t] = d /\ loc'[t] = l
    /\ \A u \in Threads \ {t} : pc'[u] = pc[u] /\ loc'[u] = loc[u]

LEMMA MovesBy ==
    ASSUME TypeOK, NEW t \in Threads, NEW d, NEW l,
           Goto(t, d), loc' = [loc EXCEPT ![t] = l]
    PROVE  Moves(t, d, l)
  BY DEF TypeOK, Goto, Moves

LEMMA MovesOnly ==
    ASSUME TypeOK, NEW t \in Threads, NEW d, Goto(t, d), loc' = loc
    PROVE  Moves(t, d, loc[t])
  BY DEF TypeOK, Goto, Moves

LEMMA MovesBack ==
    ASSUME TypeOK, NEW t \in Threads, Return(t)
    PROVE  Moves(t, "idle", NoLocals)
  BY DEF TypeOK, Goto, Return, Moves

\* What the mover needs where it comes to, it has.
LEMMA HeldMoves ==
    ASSUME AllHeld, NEW t \in Threads, NEW d, NEW l, Moves(t, d, l), Held(d, l)
    PROVE  AllHeld'
  BY DEF AllHeld, Moves

\* At most places it needs nothing.
Bare == {"idle", "openAlloc", "loadFail", "opened", "createAlloc", "createId", "mdelete",
         "remove", "astray"}

LEMMA HeldBare ==
    ASSUME TypeOK, AllHeld, NEW t \in Threads, NEW d \in Bare, Goto(t, d),
           loc' = loc \/ \E l : loc' = [loc EXCEPT ![t] = l]
    PROVE  AllHeld'
<1>1. PICK l : Moves(t, d, l)
  <2>1. CASE loc' = loc
    BY <2>1, MovesOnly
  <2>2. ASSUME NEW l, loc' = [loc EXCEPT ![t] = l] PROVE Moves(t, d, l)
    BY <2>2, MovesBy
  <2> QED
    BY <2>1, <2>2
<1>2. Held(d, l)
  BY DEF Held, Bare
<1> QED
  BY <1>1, <1>2, HeldMoves

LEMMA HeldStep ==
    ASSUME PoolAssumption, TypeInv, Next
    PROVE  AllHeld'
<1>0. TypeOK /\ ListsRight /\ AllHeld
  BY DEF TypeInv
<1>a. \A t \in Threads : loc[t] \in LocalsType /\ Held(pc[t], loc[t])
  BY <1>0, Typed, HeldBy DEF ThreadType
<1>1. ASSUME NEW t \in Threads, NEW p \in Pages,
             OpenMiss(t, p) \/ DDelete(t, p) \/ (\E b \in Blocks : MDelete(t, p, b))
      PROVE  AllHeld'
  <2>1. PICK d \in Bare : Goto(t, d)
    BY <1>1 DEF OpenMiss, DDelete, MDelete, Bare
  <2>2. \E l : loc' = [loc EXCEPT ![t] = l]
    <3>1. CASE OpenMiss(t, p)
      BY <3>1 DEF OpenMiss
    <3>2. CASE DDelete(t, p)
      BY <3>2 DEF DDelete, Destroy
    <3>3. ASSUME NEW b \in Blocks, MDelete(t, p, b) PROVE \E l : loc' = [loc EXCEPT ![t] = l]
      BY <3>3 DEF MDelete
    <3> QED
      BY <1>1, <3>1, <3>2, <3>3
  <2> QED
    BY <1>0, <2>1, <2>2, HeldBare
<1>2. ASSUME NEW t \in Threads,
             OpenPoolFull(t) \/ OpenLoadFailRemove(t) \/ Opened(t) \/ CreatePoolFull(t)
             \/ Create(t) \/ DDeleteFreeId(t) \/ MDeleteRemove(t)
      PROVE  AllHeld'
  <2>1. Return(t)
    BY <1>2 DEF OpenPoolFull, OpenLoadFailRemove, Opened, CreatePoolFull, Create,
                DDeleteFreeId, MDeleteRemove
  <2> QED
    BY <1>0, <2>1, HeldBare DEF Return, Bare
<1>3. ASSUME NEW t \in Threads,
             CreateBegin(t) \/ OpenLoadFail(t) \/ MDeleteFreeId(t) \/ GoAstray(t)
      PROVE  AllHeld'
  <2>1. loc' = loc /\ \E d \in Bare : Goto(t, d)
    BY <1>3 DEF CreateBegin, OpenLoadFail, MDeleteFreeId, GoAstray, Bare
  <2> QED
    BY <1>0, <2>1, HeldBare
<1>4. ASSUME NEW t \in Threads, NEW p \in Pages, OpenHit(t, p) PROVE AllHeld'
  <2>1. PICK n \in Nodes : loc' = [loc EXCEPT ![t] = [NoLocals EXCEPT !.page = p, !.node = n]]
    BY <1>0, <1>4 DEF OpenHit, Found, TypeOK
  <2>2. Moves(t, "wait", [NoLocals EXCEPT !.page = p, !.node = n])
    BY <1>0, <1>4, <2>1, MovesBy DEF OpenHit
  <2>3. Held("wait", [NoLocals EXCEPT !.page = p, !.node = n])
    BY DEF Held, NoLocals
  <2> QED
    BY <1>0, <2>2, <2>3, HeldMoves
<1>5. ASSUME NEW t \in Threads, OpenWaited(t) PROVE AllHeld'
  <2>1. \E l : loc' = [loc EXCEPT ![t] = l]
    BY <1>0, <1>5 DEF OpenWaited, TypeOK
  <2> QED
    BY <1>0, <1>5, <2>1, HeldBare DEF OpenWaited, Bare
<1>6. ASSUME NEW t \in Threads, OpenAllocate(t) \/ CreateAllocate(t) PROVE AllHeld'
  <2>1. ASSUME NextSubPool(t), NEW d \in Bare, pc[t] = d PROVE AllHeld'
    <3>1. Goto(t, d)
      BY <1>0, <2>1 DEF NextSubPool, Goto, TypeOK
    <3>2. \E l : loc' = [loc EXCEPT ![t] = l]
      BY <1>0, <2>1, NextPoolTyped
    <3> QED
      BY <1>0, <3>1, <3>2, HeldBare
  <2>2. ASSUME NEW d \in {"publish", "createId"}, TakeBlock(t, d) PROVE AllHeld'
    <3>1. PICK b \in Blocks : /\ loc' = [loc EXCEPT ![t] = [loc[t] EXCEPT !.block = b]]
                              /\ Goto(t, d)
      BY <1>0, <2>2, Takeable DEF Goto
    <3>2. Held(d, [loc[t] EXCEPT !.block = b])
      BY <1>a DEF Held, LocalsType
    <3> QED
      BY <1>0, <3>1, <3>2, MovesBy, HeldMoves
  <2> QED
    BY <1>6, <2>1, <2>2 DEF OpenAllocate, CreateAllocate, Bare
<1>7. ASSUME NEW t \in Threads,
             OpenPublish(t) \/ BringIn(t) \/ MDeleteFreeBlock(t) \/ MDeleteZero(t)
      PROVE  AllHeld'
  <2>1. PICK d : Goto(t, d) /\ loc' = loc /\ (d \in Bare \/ Held(d, loc[t]))
    BY <1>7, <1>a DEF OpenPublish, BringIn, MDeleteFreeBlock, MDeleteZero, Held, Bare
  <2>2. Held(d, loc[t])
    BY <2>1 DEF Held, Bare
  <2> QED
    BY <1>0, <2>1, <2>2, MovesOnly, HeldMoves
<1>8. ASSUME NEW t \in Threads, CreateId(t) PROVE AllHeld'
  <2>1. PICK p \in freeIds : loc' = [loc EXCEPT ![t].page = p, ![t].node = NewNode]
    BY <1>8 DEF CreateId
  <2>2. loc' = [loc EXCEPT ![t] = [loc[t] EXCEPT !.page = p, !.node = NewNode]]
    BY <1>0, <2>1 DEF TypeOK
  <2>3. Held("create", [loc[t] EXCEPT !.page = p, !.node = NewNode])
    BY <1>0, <1>a DEF Held, LocalsType, TypeOK
  <2>4. Goto(t, "create")
    BY <1>8 DEF CreateId
  <2>5. Moves(t, "create", [loc[t] EXCEPT !.page = p, !.node = NewNode])
    BY <1>0, <2>2, <2>4, MovesBy
  <2> QED
    BY <1>0, <2>3, <2>5, HeldMoves
<1>9. ASSUME NEW t \in Threads, NEW p \in Pages, DDeleteOnDisk(t, p) PROVE AllHeld'
  <2>1. Moves(t, "ddelete", [NoLocals EXCEPT !.page = p])
    BY <1>0, <1>9, MovesBy DEF DDeleteOnDisk
  <2>2. Held("ddelete", [NoLocals EXCEPT !.page = p])
    BY DEF Held, NoLocals
  <2> QED
    BY <1>0, <2>1, <2>2, HeldMoves
<1>10. ASSUME NEW t \in Threads, MDeleteDestroy(t), ~Astray(t) PROVE AllHeld'
  <2>1. CASE Return(t)
    BY <1>0, <2>1, HeldBare DEF Return, Bare
  <2>2. ASSUME NEW n, loc' = [loc EXCEPT ![t].page = content[loc[t].block], ![t].node = n],
               Goto(t, "freeBlock")
        PROVE  AllHeld'
    <3>1. loc' = [loc EXCEPT ![t] = [loc[t] EXCEPT !.page = content[loc[t].block], !.node = n]]
      BY <1>0, <2>2 DEF TypeOK
    <3>2. loc[t].block \in Blocks /\ content[loc[t].block] \in Pages
      BY <1>0, <1>a, <1>10 DEF MDeleteDestroy, Astray, LocalsType, TypeOK
    <3>3. Held("freeBlock", [loc[t] EXCEPT !.page = content[loc[t].block], !.node = n])
      BY <1>a, <3>2 DEF Held, LocalsType
    <3> QED
      BY <1>0, <2>2, <3>1, <3>3, MovesBy, HeldMoves
  <2> QED
    BY <1>10, <2>1, <2>2 DEF MDeleteDestroy
<1> QED
  BY <1>1, <1>2, <1>3, <1>4, <1>5, <1>6, <1>7, <1>8, <1>9, <1>10 DEF Next, Begin, Step, Go

\* The sub pool of a block is found by its address.
LEMMA SubPoolFound ==
    ASSUME NEW b \in Blocks
    PROVE  SubPoolOf(b) \in SubPools
<1>1. \E i \in SubPools : \E k \in 1..Len(BlocksOf[i]) : BlocksOf[i][k] = b
  BY DEF Blocks
<1> QED
  BY <1>1, Zenon DEF SubPoolOf

\* The lists after a block is taken or given back: the accounts, with no node, or with
\* one that has the block.
LEMMA ListsTake ==
    ASSUME TypeOK, ListsRight, NEW t \in Threads, NEW next, TakeBlock(t, next)
    PROVE  ListsRight'
<1>1. PICK i \in SubPools :
          /\ empty[i] # <<>> /\ empty' = [empty EXCEPT ![i] = Tail(@)]
          /\ used_blocks' = [used_blocks EXCEPT ![i] = @ + 1]
          /\ loc' = [loc EXCEPT ![t] = [loc[t] EXCEPT !.block = Head(empty[i])]]
  BY Takeable
<1>2. loc'[t].block = Head(empty[i])
  <2>1. loc \in [Threads -> LocalsType]
    BY Typed DEF ThreadType
  <2> QED
    BY <1>1, <2>1 DEF LocalsType
<1>3. Lists(empty, used_blocks)
  BY DEF Lists, TypeOK
<1>4. TakenBy(t, i, empty, used_blocks, {}, loc, empty', used_blocks', loc')
  BY <1>1, <1>2, <1>3 DEF TakenBy, Lists
<1>5. Accounted(empty, used_blocks, {}, node, {}, loc)
  BY DEF Accounted, ListsRight
<1>6. Accounted(empty', used_blocks', {}, node, {} \cup {t}, loc')
  BY <1>3, <1>4, <1>5, AccountedTake
<1> QED
  BY <1>6 DEF Accounted, ListsRight

LEMMA ListsFree ==
    ASSUME TypeOK, ListsRight, NEW b \in Blocks, ~Listed(b), FreeBlock(b)
    PROVE  ListsRight'
<1> DEFINE nodes == [n \in {b} |-> [block |-> b]]
<1>1. Lists(empty, used_blocks) /\ SubPoolOf(b) \in SubPools
  BY SubPoolFound DEF Lists, TypeOK
<1>2. BackTo(SubPoolOf(b), b, empty, used_blocks, empty', used_blocks')
  BY <1>1 DEF BackTo, FreeBlock, Lists
<1>3. Accounted(empty, used_blocks, {b}, nodes, {}, loc)
  BY DEF Accounted, ListsRight, Listed
<1>4. b \in {b} /\ b = nodes[b].block
  OBVIOUS
<1> HIDE DEF nodes
<1>5. Accounted(empty', used_blocks', {b} \ {b}, nodes, {}, loc)
  BY <1>1, <1>2, <1>3, <1>4, AccountedFree
<1> QED
  BY <1>5 DEF Accounted, ListsRight

LEMMA ListsStep ==
    ASSUME PoolAssumption, TypeInv, Next
    PROVE  ListsRight'
<1>0. TypeOK /\ ListsRight /\ AllHeld
  BY DEF TypeInv
<1>1. ASSUME NEW t \in Threads, OpenAllocate(t) \/ CreateAllocate(t) PROVE ListsRight'
  <2>1. CASE NextSubPool(t)
    BY <1>0, <2>1 DEF NextSubPool, ListsRight
  <2> QED
    BY <1>0, <1>1, <2>1, ListsTake DEF OpenAllocate, CreateAllocate
<1>2. ASSUME NEW t \in Threads, OpenLoadFail(t) \/ MDeleteFreeBlock(t), ~Astray(t)
      PROVE  ListsRight'
  <2>1. loc[t].block \in Blocks /\ FreeBlock(loc[t].block) /\ ~Listed(loc[t].block)
    BY <1>0, <1>2, HeldBy DEF OpenLoadFail, MDeleteFreeBlock, Held, Astray
  <2> QED
    BY <1>0, <2>1, ListsFree
<1>3. ASSUME UNCHANGED <<empty, used_blocks>> PROVE ListsRight'
  BY <1>0, <1>3 DEF ListsRight
<1>4. ASSUME NEW t \in Threads, Begin(t) PROVE UNCHANGED <<empty, used_blocks>>
  BY <1>4 DEF Begin, OpenMiss, OpenHit, CreateBegin, DDelete, DDeleteOnDisk, MDelete
<1>5. ASSUME NEW t \in Threads, Go(t), ~(OpenAllocate(t) \/ CreateAllocate(t)),
             ~(OpenLoadFail(t) \/ MDeleteFreeBlock(t))
      PROVE  UNCHANGED <<empty, used_blocks>>
  BY <1>5 DEF Go, OpenWaited, OpenPoolFull, OpenPublish, BringIn, OpenLoadFailRemove, Opened,
              CreatePoolFull, CreateId, Create, DDeleteFreeId, MDeleteDestroy, MDeleteZero,
              MDeleteFreeId, MDeleteRemove
<1> QED
  BY <1>1, <1>2, <1>3, <1>4, <1>5 DEF Next, Step, GoAstray

\* The mover knows what it has to; what the others know still holds.
LEMMA AllKnow ==
    ASSUME ThreadsKnow, NEW t \in Threads, NEW d, NEW l, Moves(t, d, l),
           Knows(d, l, node', tree', Kept', exists' \cup freeIds'),
           \A u \in Threads \ {t} : pc[u] \in HasNode =>
              loc[u].node \in tree' /\ node'[loc[u].node] = node[loc[u].node],
           \A u \in Threads \ {t} : pc[u] = "mdelete" =>
              \A n \in Kept : node[n].pid = loc[u].page =>
                 n \in Kept' /\ node'[n].pid = node[n].pid /\ node'[n].block = node[n].block,
           \A u \in Threads \ {t} : pc[u] = "ddelete" =>
              \A n \in tree' : node'[n].pid # loc[u].page,
           \A u \in Threads \ {t} : pc[u] \in OwnsId => loc[u].page \notin exists' \cup freeIds'
    PROVE  ThreadsKnow'
<1>1. ASSUME NEW u \in Threads \ {t}
      PROVE  Knows(pc'[u], loc'[u], node', tree', Kept', exists' \cup freeIds')
  <2>1. Knows(pc[u], loc[u], node, tree, Kept, exists \cup freeIds) /\ pc'[u] = pc[u] /\ loc'[u] = loc[u]
    BY DEF ThreadsKnow, Moves
  <2>2. Knows(pc[u], loc[u], node', tree', Kept', exists' \cup freeIds')
    BY <2>1 DEF Knows
  <2> QED
    BY <2>1, <2>2
<1>2. Knows(pc'[t], loc'[t], node', tree', Kept', exists' \cup freeIds')
  BY DEF Moves
<1> QED
  BY <1>1, <1>2 DEF ThreadsKnow

LEMMA ApartStays ==
    ASSUME Apart, NEW t \in Threads, NEW d, NEW l, Moves(t, d, l),
           d \in HasNode => pc[t] \in HasNode /\ l.node = loc[t].node,
           d \in HasPage => pc[t] \in HasPage /\ l.page = loc[t].page
    PROVE  Apart'
<1>1. \A u \in Threads \ {t} : pc'[u] = pc[u] /\ loc'[u] = loc[u]
  BY DEF Moves
<1>2. pc'[t] = d /\ loc'[t] = l
  BY DEF Moves
<1>4. ASSUME NEW u \in Threads, NEW v \in Threads, u # v
      PROVE  /\ pc'[u] \in HasNode /\ pc'[v] \in HasNode => loc'[u].node # loc'[v].node
             /\ pc'[u] \in HasPage /\ pc'[v] \in HasPage => loc'[u].page # loc'[v].page
  <2>1. CASE u # t /\ v # t
    BY <1>1, <1>4, <2>1 DEF Apart
  <2>2. CASE u = t
    BY <1>1, <1>2, <1>4, <2>2 DEF Apart
  <2>3. CASE v = t
    BY <1>1, <1>2, <1>4, <2>3 DEF Apart
  <2> QED
    BY <2>1, <2>2, <2>3
<1> QED
  BY <1>4 DEF Apart

LEMMA LeavingStays ==
    ASSUME NEW t \in Threads, NEW d, NEW l, Moves(t, d, l), UNCHANGED tree,
           pc[t] # "remove", d # "remove"
    PROVE  Leaving' = Leaving
  BY DEF Moves, Leaving

LEMMA NodesStay ==
    ASSUME NodesRight, NEW t \in Threads, NEW d, NEW l, Moves(t, d, l),
           UNCHANGED <<node, tree, exists, freeIds>>, pc[t] # "remove", d # "remove",
           pc[t] \in Loading => d \in Loading /\ l.node = loc[t].node
    PROVE  NodesRight'
<1>1. Leaving' = Leaving
  BY LeavingStays
<1>2. ASSUME NEW n \in tree, node[n].state = "LOADING"
      PROVE  \E u \in Threads : pc'[u] \in Loading /\ loc'[u].node = n
  <2>1. PICK u \in Threads : pc[u] \in Loading /\ loc[u].node = n
    BY <1>2 DEF NodesRight
  <2>2. pc'[u] \in Loading /\ loc'[u].node = n
    BY <2>1 DEF Moves
  <2> QED
    BY <2>2
<1> QED
  BY <1>1, <1>2 DEF NodesRight

LEMMA KeptStays ==
    ASSUME NEW t \in Threads, NEW d, NEW l, Moves(t, d, l), UNCHANGED <<node, tree>>,
           pc[t] \in GaveBack <=> d \in GaveBack, d \in GaveBack => l.node = loc[t].node
    PROVE  Kept' = Kept
<1>1. ASSUME NEW n
      PROVE  (\A u \in Threads : pc'[u] \in GaveBack => loc'[u].node # n) <=>
             (\A u \in Threads : pc[u] \in GaveBack => loc[u].node # n)
  BY DEF Moves
<1> QED
  BY <1>1 DEF Kept

LEMMA TakersStay ==
    ASSUME NEW t \in Threads, NEW d, NEW l, Moves(t, d, l), pc[t] \in HasBlock <=> d \in HasBlock
    PROVE  Takers' = Takers
  BY DEF Moves, Takers

LEMMA BlocksStay ==
    ASSUME BlocksInOnePlace, NEW t \in Threads, NEW d, NEW l, Moves(t, d, l),
           UNCHANGED <<empty, used_blocks>>, Kept' = Kept,
           \A n \in Kept : node'[n].block = node[n].block,
           pc[t] \in HasBlock <=> d \in HasBlock, d \in HasBlock => l.block = loc[t].block
    PROVE  BlocksInOnePlace'
<1>1. Takers' = Takers
  BY TakersStay
<1>2. \A u \in Takers : loc'[u].block = loc[u].block
  BY DEF Moves, Takers
<1>3. Accounted(empty, used_blocks, Kept, node', Takers, loc')
  BY <1>2, AccountedSame DEF BlocksInOnePlace
<1> QED
  BY <1>1, <1>3 DEF BlocksInOnePlace

LEMMA ContentStays ==
    ASSUME ContentRight, NEW t \in Threads, NEW d, NEW l, Moves(t, d, l),
           \A n \in Kept' : /\ n \in Kept
                            /\ node'[n].block = node[n].block /\ node'[n].pid = node[n].pid
                            /\ content'[node[n].block] = content[node[n].block],
           pc[t] \notin {"bringIn", "create"}
    PROVE  ContentRight'
<1> SUFFICES ASSUME NEW n \in Kept'
             PROVE  \/ content'[node'[n].block] \in {NULL, node'[n].pid}
                    \/ \E u \in Threads : pc'[u] \in {"bringIn", "create"} /\ loc'[u].node = n
  BY DEF ContentRight
<1>1. CASE content[node[n].block] \in {NULL, node[n].pid}
  BY <1>1
<1>2. ASSUME NEW u \in Threads, pc[u] \in {"bringIn", "create"}, loc[u].node = n
      PROVE  pc'[u] \in {"bringIn", "create"} /\ loc'[u].node = n
  BY <1>2 DEF Moves
<1> QED
  BY <1>1, <1>2 DEF ContentRight

-----------------------------------------------------------------------------
(* The steps, one kind after the other                                      *)

\* A step that touches neither a node nor an id, and lets a thread at most
\* leave its node, its page and its block alone.
LEMMA QuietStep ==
    ASSUME Rest, NEW t \in Threads, NEW d, NEW l, Moves(t, d, l),
           UNCHANGED <<node, tree, exists, freeIds>>,
           Knows(d, l, node, tree, Kept, exists \cup freeIds),
           d \in HasNode => pc[t] \in HasNode /\ l.node = loc[t].node,
           d \in HasPage => pc[t] \in HasPage /\ l.page = loc[t].page,
           d \notin {"mdelete", "remove"}, pc[t] # "remove",
           pc[t] \in Loading => d \in Loading,
           pc[t] \in GaveBack <=> d \in GaveBack
    PROVE  ThreadsKnow' /\ Apart' /\ NodesRight' /\ Kept' = Kept
<1> USE DEF Rest
<1>1. /\ Loading \subseteq HasNode /\ GaveBack \subseteq HasNode
  BY DEF Loading, HasNode, GaveBack, Reading, Deleting
<1>2. Kept' = Kept
  BY <1>1, KeptStays
<1>3. Apart'
  BY ApartStays
<1>4. NodesRight'
  BY <1>1, NodesStay
<1>5. \A u \in Threads \ {t} : Knows(pc[u], loc[u], node, tree, Kept, exists \cup freeIds)
  BY DEF ThreadsKnow
<1>6. ThreadsKnow'
  <2>1. \A u \in Threads \ {t} : pc[u] \in HasNode => loc[u].node \in tree
    BY <1>5 DEF Knows
  <2>2. \A u \in Threads \ {t} : pc[u] = "ddelete" => \A n \in tree : node[n].pid # loc[u].page
    BY <1>5 DEF Knows
  <2>3. \A u \in Threads \ {t} : pc[u] \in OwnsId => loc[u].page \notin exists \cup freeIds
    BY <1>5 DEF Knows
  <2> QED
    BY <1>2, <2>1, <2>2, <2>3, AllKnow
<1> QED
  BY <1>2, <1>3, <1>4, <1>6

\* A thread that is at a place where nothing is its own.
AtEase == {"idle", "wait", "opened", "createAlloc", "astray"}

LEMMA EaseStep ==
    ASSUME Rest, NEW t \in Threads, NEW d \in AtEase, NEW l, Moves(t, d, l),
           UNCHANGED <<node, tree, exists, freeIds, empty, used_blocks, content>>,
           pc[t] \in AtEase \cup {"mdelete"}
    PROVE  Rest'
<1> USE DEF Rest
<1>1. /\ d \notin HasNode \cup HasPage \cup Loading \cup GaveBack \cup HasBlock \cup OwnsId
      /\ d \notin {"mdelete", "remove"}
      /\ pc[t] \notin HasNode \cup Loading \cup GaveBack \cup HasBlock
      /\ pc[t] \notin {"remove", "bringIn", "create"}
  BY DEF AtEase, HasNode, HasPage, Loading, GaveBack, HasBlock, OwnsId, Reading, Deleting
<1>2. Knows(d, l, node, tree, Kept, exists \cup freeIds)
  BY <1>1 DEF Knows, AtEase
<1>3. ThreadsKnow' /\ Apart' /\ NodesRight' /\ Kept' = Kept
  BY <1>1, <1>2, QuietStep
<1>4. BlocksInOnePlace'
  BY <1>1, <1>3, BlocksStay
<1>5. ContentRight'
  BY <1>1, <1>3, ContentStays
<1> QED
  BY <1>3, <1>4, <1>5

\* A sub pool that is full is left for the next.
LEMMA NextPoolStep ==
    ASSUME PoolAssumption, TypeOK, Rest, NEW t \in Threads, pc[t] \in {"openAlloc", "createAlloc"},
           NextSubPool(t), UNCHANGED <<content, node, tree, freeIds, exists, mistaken>>
    PROVE  Rest'
<1> USE DEF Rest
<1> DEFINE l == [loc[t] EXCEPT !.pool = loc[t].pool + 1]
<1>1. loc[t] \in LocalsType /\ UNCHANGED <<empty, used_blocks>>
  BY Typed DEF ThreadType, NextSubPool
<1>2. Moves(t, pc[t], l)
  BY NextPoolTyped DEF NextSubPool, Moves, TypeOK
<1>3. l.page = loc[t].page /\ l.node = loc[t].node /\ l.block = loc[t].block
  BY <1>1 DEF LocalsType
<1>4. pc[t] \notin {"mdelete", "remove", "bringIn", "create"}
  OBVIOUS
<1> HIDE DEF l
<1>5. Knows(pc[t], loc[t], node, tree, Kept, exists \cup freeIds)
  BY DEF ThreadsKnow
<1>6. Knows(pc[t], l, node, tree, Kept, exists \cup freeIds)
  BY <1>3, <1>5 DEF Knows
<1>7. ThreadsKnow' /\ Apart' /\ NodesRight' /\ Kept' = Kept
  BY <1>2, <1>3, <1>4, <1>6, QuietStep
<1>8. BlocksInOnePlace'
  BY <1>1, <1>2, <1>3, <1>7, BlocksStay
<1>9. ContentRight'
  BY <1>2, <1>4, <1>7, ContentStays
<1> QED
  BY <1>7, <1>8, <1>9

\* A thread takes the first empty block.
LEMMA TakeStep ==
    ASSUME PoolAssumption, TypeOK, Rest, NEW t \in Threads, NEW next,
           <<pc[t], next>> \in {<<"openAlloc", "publish">>, <<"createAlloc", "createId">>},
           TakeBlock(t, next), UNCHANGED <<content, node, tree, freeIds, exists, mistaken>>
    PROVE  Rest'
<1> USE DEF Rest
<1>a. ListsRight
  BY DEF BlocksInOnePlace, Accounted, ListsRight
<1>1. PICK i \in SubPools, b \in Blocks :
          /\ empty[i] # <<>> /\ b = Head(empty[i]) /\ empty' = [empty EXCEPT ![i] = Tail(@)]
          /\ used_blocks' = [used_blocks EXCEPT ![i] = @ + 1]
          /\ loc' = [loc EXCEPT ![t] = [loc[t] EXCEPT !.block = b]]
          /\ pc' = [pc EXCEPT ![t] = next]
  <2>1. /\ loc[t].pool \in SubPools /\ empty[loc[t].pool] # <<>>
        /\ Head(empty[loc[t].pool]) \in Blocks
        /\ empty' = [empty EXCEPT ![loc[t].pool] = Tail(@)]
        /\ used_blocks' = [used_blocks EXCEPT ![loc[t].pool] = @ + 1]
        /\ loc' = [loc EXCEPT ![t] = [loc[t] EXCEPT !.block = Head(empty[loc[t].pool])]]
        /\ pc' = [pc EXCEPT ![t] = next]
    BY <1>a, Takeable
  <2> QED
    BY <2>1, Zenon
<1>2. PICK l : l = [loc[t] EXCEPT !.block = b]
  OBVIOUS
<1>3. loc[t] \in LocalsType
  BY Typed DEF ThreadType
<1>4. l.page = loc[t].page /\ l.node = loc[t].node /\ l.block = b
  BY <1>2, <1>3 DEF LocalsType
<1>5. Moves(t, next, l)
  BY <1>1, <1>2, MovesBy DEF Goto
<1>6. /\ next \in HasNode => pc[t] \in HasNode
      /\ next \in HasPage => pc[t] \in HasPage
      /\ next \notin {"mdelete", "remove"} /\ pc[t] \notin {"remove", "bringIn", "create"}
      /\ pc[t] \in Loading => next \in Loading
      /\ pc[t] \notin GaveBack /\ next \notin GaveBack
      /\ pc[t] \notin HasBlock /\ next \in HasBlock
  BY DEF HasNode, HasPage, Loading, Reading, Deleting, GaveBack, HasBlock
<1>7. Knows(next, l, node, tree, Kept, exists \cup freeIds)
  <2>1. Knows(pc[t], loc[t], node, tree, Kept, exists \cup freeIds)
    BY DEF ThreadsKnow
  <2> QED
    BY <1>4, <2>1 DEF Knows, HasNode, Loading, Reading, Deleting, OwnsId
<1>8. ThreadsKnow' /\ Apart' /\ NodesRight' /\ Kept' = Kept
  BY <1>4, <1>5, <1>6, <1>7, QuietStep
<1>9. BlocksInOnePlace'
  <2>1. empty \in [SubPools -> Seq(Blocks)] /\ used_blocks \in [SubPools -> Int]
    BY DEF TypeOK
  <2>2. t \notin Takers /\ Takers' = Takers \cup {t}
    BY <1>5, <1>6 DEF Takers, Moves
  <2>3. loc'[t].block = Head(empty[i]) /\ \A u \in Takers : loc'[u].block = loc[u].block
    BY <1>1, <1>4, <1>5, <2>2 DEF Moves, Takers
  <2>4. Accounted(empty, used_blocks, Kept, node, Takers, loc)
    BY DEF BlocksInOnePlace
  <2>5. Accounted(empty', used_blocks', Kept, node, Takers \cup {t}, loc')
    <3>1. TakenBy(t, i, empty, used_blocks, Takers, loc, empty', used_blocks', loc')
      BY <1>1, <2>1, <2>2, <2>3 DEF TakenBy
    <3>2. Lists(empty, used_blocks)
      BY <2>1 DEF Lists
    <3> QED
      BY <2>4, <3>1, <3>2, AccountedTake
  <2> QED
    BY <1>8, <2>2, <2>5 DEF BlocksInOnePlace
<1>10. ContentRight'
  BY <1>5, <1>6, <1>8, ContentStays
<1> QED
  BY <1>8, <1>9, <1>10

-----------------------------------------------------------------------------
(* What a thread's node is to the others                                    *)

LEMMA Places ==
    /\ HasNode = {"openAlloc", "publish", "bringIn", "badPage", "loadFail", "create",
                  "freeBlock", "zero", "freeId", "remove"}
    /\ HasPage = {"openAlloc", "publish", "bringIn", "badPage", "loadFail", "create",
                  "freeBlock", "zero", "freeId", "ddelete", "mdelete"}
    /\ HasBlock = {"publish", "createId"} /\ Loading = {"openAlloc", "publish"}
    /\ GaveBack = {"loadFail", "zero", "freeId", "remove"}
    /\ Deleting = {"freeBlock", "zero", "freeId", "remove"}
    /\ OwnsId = {"create", "ddelete", "mdelete", "freeBlock", "zero", "freeId"}
  BY DEF HasNode, HasPage, HasBlock, GaveBack, OwnsId, Loading, Reading, Deleting

LEMMA Known ==
    ASSUME ThreadsKnow, NEW t \in Threads
    PROVE  Knows(pc[t], loc[t], node, tree, Kept, exists \cup freeIds)
  BY DEF ThreadsKnow

\* A node that was published and keeps its block.
LEMMA OwnKept ==
    ASSUME Rest, NEW t \in Threads, pc[t] \in {"bringIn", "badPage", "create", "freeBlock"}
    PROVE  /\ loc[t].node \in Kept /\ node[loc[t].node].pid = loc[t].page
           /\ node[loc[t].node].block = loc[t].block /\ loc[t].block \in Blocks
<1>1. Knows(pc[t], loc[t], node, tree, Kept, exists \cup freeIds)
  BY Known DEF Rest
<1>2. /\ pc[t] \in HasNode /\ pc[t] \notin Loading /\ pc[t] \notin GaveBack
      /\ GaveBack \subseteq HasNode
  BY Places
<1>3. /\ loc[t].node \in tree /\ node[loc[t].node].pid = loc[t].page
      /\ node[loc[t].node].state # "LOADING"
      /\ node[loc[t].node].block = loc[t].block /\ loc[t].block \in Blocks
  BY <1>1, <1>2 DEF Knows
<1>4. \A u \in Threads : pc[u] \in GaveBack => loc[u].node # loc[t].node
  BY <1>2 DEF Rest, Apart
<1> QED
  BY <1>3, <1>4 DEF Kept

\* A thread writes the page of its node to the block of its node.
LEMMA ContentWritten ==
    ASSUME TypeOK, Rest, NEW t \in Threads, NEW d, NEW l, Moves(t, d, l),
           pc[t] \in {"bringIn", "create"}, UNCHANGED node, Kept' = Kept,
           content' = [content EXCEPT ![loc[t].block] = loc[t].page]
    PROVE  ContentRight'
<1>1. /\ loc[t].node \in Kept /\ node[loc[t].node].pid = loc[t].page
      /\ node[loc[t].node].block = loc[t].block /\ loc[t].block \in Blocks
  BY OwnKept
<1> SUFFICES ASSUME NEW n \in Kept
             PROVE  \/ content'[node[n].block] \in {NULL, node[n].pid}
                    \/ \E u \in Threads : pc'[u] \in {"bringIn", "create"} /\ loc'[u].node = n
  BY DEF ContentRight
<1>2. CASE n = loc[t].node
  BY <1>1, <1>2 DEF TypeOK
<1>3. CASE n # loc[t].node
  <2>1. node[n].block # loc[t].block
    BY <1>1, <1>3 DEF Rest, BlocksInOnePlace, Accounted
  <2>2. content'[node[n].block] = content[node[n].block]
    BY <2>1 DEF TypeOK
  <2>3. ASSUME NEW u \in Threads, pc[u] \in {"bringIn", "create"}, loc[u].node = n
        PROVE  pc'[u] \in {"bringIn", "create"} /\ loc'[u].node = n
    BY <1>3, <2>3 DEF Moves
  <2> QED
    BY <2>2, <2>3 DEF Rest, ContentRight
<1> QED
  BY <1>2, <1>3

\* The page is read to the block of its own node, and only there.
LEMMA BringInStep ==
    ASSUME TypeOK, Rest, NEW t \in Threads, BringIn(t)
    PROVE  Rest'
<1> USE DEF Rest
<1>1. PICK d \in {"badPage", "opened"} : Goto(t, d)
  BY DEF BringIn
<1>2. /\ pc[t] = "bringIn" /\ UNCHANGED <<empty, used_blocks, node, tree, freeIds, exists, loc, mistaken>>
      /\ content' = [content EXCEPT ![loc[t].block] = loc[t].page]
  BY DEF BringIn
<1>3. Moves(t, d, loc[t])
  BY <1>1, <1>2, MovesOnly
<1>4. Knows(pc[t], loc[t], node, tree, Kept, exists \cup freeIds)
  BY Known
<1>5. Knows(d, loc[t], node, tree, Kept, exists \cup freeIds)
  BY <1>2, <1>4, Places DEF Knows
<1>6. ThreadsKnow' /\ Apart' /\ NodesRight' /\ Kept' = Kept
  BY <1>2, <1>3, <1>5, Places, QuietStep
<1>7. BlocksInOnePlace'
  BY <1>2, <1>3, <1>6, Places, BlocksStay
<1>8. ContentRight'
  BY <1>2, <1>3, <1>6, ContentWritten
<1> QED
  BY <1>6, <1>7, <1>8

\* Whoever has the block by now, a zeroed page is nobody else's page.
LEMMA ZeroStep ==
    ASSUME TypeOK, Rest, NEW t \in Threads, MDeleteZero(t)
    PROVE  Rest'
<1> USE DEF Rest
<1>1. /\ pc[t] = "zero" /\ UNCHANGED <<empty, used_blocks, node, tree, freeIds, exists, loc, mistaken>>
      /\ content' = [content EXCEPT ![loc[t].block] = NULL] /\ Goto(t, "freeId")
  BY DEF MDeleteZero
<1>2. Moves(t, "freeId", loc[t])
  BY <1>1, MovesOnly
<1>3. Knows(pc[t], loc[t], node, tree, Kept, exists \cup freeIds)
  BY Known
<1>4. Knows("freeId", loc[t], node, tree, Kept, exists \cup freeIds)
  BY <1>1, <1>3, Places DEF Knows
<1>5. ThreadsKnow' /\ Apart' /\ NodesRight' /\ Kept' = Kept
  <2>1. /\ "freeId" \notin {"mdelete", "remove"} /\ pc[t] # "remove" /\ pc[t] \notin Loading
        /\ pc[t] \in HasNode \cap HasPage \cap GaveBack /\ "freeId" \in GaveBack
    BY <1>1, Places
  <2> QED
    BY <1>1, <1>2, <1>4, <2>1, QuietStep
<1>6. BlocksInOnePlace'
  BY <1>1, <1>2, <1>5, Places, BlocksStay
<1>7. ContentRight'
  <2> SUFFICES ASSUME NEW n \in Kept
               PROVE  \/ content'[node[n].block] \in {NULL, node[n].pid}
                      \/ \E u \in Threads : pc'[u] \in {"bringIn", "create"} /\ loc[u].node = n
    BY <1>1, <1>5 DEF ContentRight
  <2>1. content'[node[n].block] \in {NULL, content[node[n].block]}
    <3>1. loc[t].block \in Blocks
      BY <1>1, <1>3 DEF Knows
    <3> QED
      BY <1>1, <3>1 DEF TypeOK
  <2>2. ASSUME NEW u \in Threads, pc[u] \in {"bringIn", "create"}, loc[u].node = n
        PROVE  pc'[u] \in {"bringIn", "create"}
    BY <1>1, <1>2, <2>2 DEF Moves
  <2> QED
    BY <2>1, <2>2 DEF ContentRight
<1> QED
  BY <1>5, <1>6, <1>7

\* The block of a node goes back, and the node keeps its place.
LEMMA FreeStep ==
    ASSUME PoolAssumption, TypeOK, Rest, NEW t \in Threads, NEW d,
           <<pc[t], d>> \in {<<"badPage", "loadFail">>, <<"freeBlock", "zero">>},
           FreeBlock(loc[t].block), Goto(t, d),
           UNCHANGED <<content, node, tree, freeIds, exists, loc, mistaken>>
    PROVE  Rest'
<1> USE DEF Rest
<1>1. Moves(t, d, loc[t])
  BY MovesOnly
<1>2. pc[t] \in {"badPage", "freeBlock"} /\ d \in {"loadFail", "zero"}
  OBVIOUS
<1>3. Knows(pc[t], loc[t], node, tree, Kept, exists \cup freeIds)
  BY Known
<1>4. /\ loc[t].node \in Kept /\ node[loc[t].node].pid = loc[t].page
      /\ node[loc[t].node].block = loc[t].block /\ loc[t].block \in Blocks
  BY <1>2, OwnKept
<1>5. Kept' = Kept \ {loc[t].node}
  <2>1. ASSUME NEW n
        PROVE  (\A u \in Threads : pc'[u] \in GaveBack => loc'[u].node # n) <=>
               /\ \A u \in Threads : pc[u] \in GaveBack => loc[u].node # n
               /\ n # loc[t].node
    BY <1>1, <1>2, Places DEF Moves
  <2> QED
    BY <2>1 DEF Kept
<1>6. Apart'
  BY <1>1, <1>2, Places, ApartStays
<1>7. NodesRight'
  BY <1>1, <1>2, Places, NodesStay
<1>8. ThreadsKnow'
  <2>1. Knows(d, loc[t], node, tree, Kept', exists \cup freeIds)
    BY <1>3, Places DEF Knows
  <2>2. ASSUME NEW u \in Threads \ {t} PROVE Knows(pc[u], loc[u], node, tree, Kept, exists \cup freeIds)
    BY Known
  <2>3. \A u \in Threads \ {t} : pc[u] \in HasNode => loc[u].node \in tree
    BY <2>2 DEF Knows
  <2>4. \A u \in Threads \ {t} : pc[u] = "mdelete" =>
           \A n \in Kept : node[n].pid = loc[u].page => n \in Kept'
    BY <1>2, <1>4, <1>5, Places DEF Apart
  <2>5. \A u \in Threads \ {t} : pc[u] = "ddelete" => \A n \in tree : node[n].pid # loc[u].page
    BY <2>2 DEF Knows
  <2>6. \A u \in Threads \ {t} : pc[u] \in OwnsId => loc[u].page \notin exists \cup freeIds
    BY <2>2 DEF Knows
  <2> QED
    BY <1>1, <2>1, <2>3, <2>4, <2>5, <2>6, AllKnow
<1>9. BlocksInOnePlace'
  <2>1. Takers' = Takers
    BY <1>1, <1>2, Places, TakersStay
  <2>2. SubPoolOf(loc[t].block) \in SubPools
    BY <1>4, SubPoolFound
  <2>3. BackTo(SubPoolOf(loc[t].block), loc[t].block, empty, used_blocks, empty', used_blocks')
    BY <1>4, <2>2 DEF BackTo, FreeBlock, TypeOK
  <2>4. Lists(empty, used_blocks) /\ Accounted(empty, used_blocks, Kept, node, Takers, loc)
    BY DEF Lists, TypeOK, BlocksInOnePlace
  <2>5. Accounted(empty', used_blocks', Kept \ {loc[t].node}, node, Takers, loc)
    BY <1>4, <2>3, <2>4, AccountedFree
  <2> QED
    BY <1>5, <2>1, <2>5 DEF BlocksInOnePlace
<1>10. ContentRight'
  BY <1>1, <1>2, <1>5, ContentStays
<1> QED
  BY <1>6, <1>7, <1>8, <1>9, <1>10

\* Page ids come and go, the nodes stay: only a leaving node may have a free id.
LEMMA NodesStayIds ==
    ASSUME NodesRight, NEW t \in Threads, NEW d, NEW l, Moves(t, d, l), UNCHANGED <<node, tree>>,
           Leaving \subseteq Leaving', \A n \in tree : node[n].pid \in freeIds' => n \in Leaving',
           exists' \cap freeIds' = {},
           pc[t] \in Loading => d \in Loading /\ l.node = loc[t].node
    PROVE  NodesRight'
<1>1. ASSUME NEW n \in tree, node[n].state = "LOADING"
      PROVE  \E u \in Threads : pc'[u] \in Loading /\ loc'[u].node = n
  <2>1. PICK u \in Threads : pc[u] \in Loading /\ loc[u].node = n
    BY <1>1 DEF NodesRight
  <2>2. pc'[u] \in Loading /\ loc'[u].node = n
    BY <2>1 DEF Moves
  <2> QED
    BY <2>2
<1> QED
  BY <1>1 DEF NodesRight

\* A step that gives the id a thread has for itself to others.
LEMMA IdStep ==
    ASSUME Rest, NEW t \in Threads, NEW d, NEW l, Moves(t, d, l), UNCHANGED <<node, tree>>,
           exists' \cup freeIds' = exists \cup freeIds \cup {loc[t].page}, pc[t] \in HasPage,
           Knows(d, l, node, tree, Kept, exists' \cup freeIds'),
           d \in HasNode => pc[t] \in HasNode /\ l.node = loc[t].node,
           d \notin HasPage, d = "remove" => l.page = loc[t].page,
           pc[t] \in GaveBack <=> d \in GaveBack
    PROVE  ThreadsKnow' /\ Apart' /\ Kept' = Kept
<1> USE DEF Rest
<1>1. Kept' = Kept
  BY Places, KeptStays
<1>2. Apart'
  BY Places, ApartStays
<1>3. ThreadsKnow'
  <2>2. ASSUME NEW u \in Threads \ {t} PROVE Knows(pc[u], loc[u], node, tree, Kept, exists \cup freeIds)
    BY Known
  <2>3. \A u \in Threads \ {t} : pc[u] \in HasNode => loc[u].node \in tree
    BY <2>2 DEF Knows
  <2>5. \A u \in Threads \ {t} : pc[u] = "ddelete" => \A n \in tree : node[n].pid # loc[u].page
    BY <2>2 DEF Knows
  <2>6. \A u \in Threads \ {t} : pc[u] \in OwnsId => loc[u].page \notin exists' \cup freeIds'
    <3>1. OwnsId \subseteq HasPage
      BY Places
    <3>2. \A u \in Threads \ {t} : pc[u] \in HasPage => loc[u].page # loc[t].page
      BY DEF Apart
    <3>3. \A u \in Threads \ {t} : pc[u] \in OwnsId => loc[u].page \notin exists \cup freeIds
      BY <2>2 DEF Knows
    <3> QED
      BY <3>1, <3>2, <3>3
  <2> QED
    BY <1>1, <2>3, <2>5, <2>6, AllKnow
<1> QED
  BY <1>1, <1>2, <1>3

\* A new page is its caller's.
LEMMA CreateStep ==
    ASSUME TypeOK, Rest, NEW t \in Threads, Create(t)
    PROVE  Rest'
<1> USE DEF Rest
<1>1. /\ pc[t] = "create" /\ UNCHANGED <<empty, used_blocks, node, tree, freeIds, mistaken>>
      /\ content' = [content EXCEPT ![loc[t].block] = loc[t].page]
      /\ exists' = exists \cup {loc[t].page}
  BY DEF Create
<1>2. Moves(t, "idle", NoLocals)
  BY MovesBack DEF Create
<1>3. Knows(pc[t], loc[t], node, tree, Kept, exists \cup freeIds)
  BY Known
<1>4. Knows("idle", NoLocals, node, tree, Kept, exists' \cup freeIds')
  BY Places DEF Knows
<1>5. ThreadsKnow' /\ Apart' /\ Kept' = Kept
  BY <1>1, <1>2, <1>4, Places, IdStep
<1>6. Leaving' = Leaving
  BY <1>1, <1>2, LeavingStays
<1>7. NodesRight'
  <2>1. loc[t].page \notin exists \cup freeIds
    BY <1>1, <1>3, Places DEF Knows
  <2>2. exists' \cap freeIds' = {} /\ \A n \in tree : node[n].pid \in freeIds' => n \in Leaving'
    BY <1>1, <1>6, <2>1 DEF NodesRight
  <2> QED
    BY <1>1, <1>2, <1>6, <2>2, Places, NodesStayIds
<1>8. BlocksInOnePlace'
  BY <1>1, <1>2, <1>5, Places, BlocksStay
<1>9. ContentRight'
  BY <1>1, <1>2, <1>5, ContentWritten
<1> QED
  BY <1>5, <1>7, <1>8, <1>9

\* A page that was not in the pool leaves its id, and nothing else.
LEMMA DDeleteFreeIdStep ==
    ASSUME TypeOK, Rest, NEW t \in Threads, DDeleteFreeId(t)
    PROVE  Rest'
<1> USE DEF Rest
<1>1. /\ pc[t] = "ddelete" /\ UNCHANGED <<empty, used_blocks, content, node, tree, exists, mistaken>>
      /\ freeIds' = freeIds \cup {loc[t].page}
  BY DEF DDeleteFreeId
<1>2. Moves(t, "idle", NoLocals)
  BY MovesBack DEF DDeleteFreeId
<1>3. Knows(pc[t], loc[t], node, tree, Kept, exists \cup freeIds)
  BY Known
<1>4. Knows("idle", NoLocals, node, tree, Kept, exists' \cup freeIds')
  BY Places DEF Knows
<1>5. ThreadsKnow' /\ Apart' /\ Kept' = Kept
  <2>1. /\ "idle" \notin HasNode \cup HasPage \cup GaveBack
        /\ pc[t] \in HasPage /\ pc[t] \notin GaveBack
    BY <1>1, Places
  <2>2. exists' \cup freeIds' = exists \cup freeIds \cup {loc[t].page}
    BY <1>1
  <2> QED
    BY <1>1, <1>2, <1>4, <2>1, <2>2, IdStep
<1>6. Leaving' = Leaving
  BY <1>1, <1>2, LeavingStays
<1>7. NodesRight'
  <2>1. loc[t].page \notin exists \cup freeIds /\ \A n \in tree : node[n].pid # loc[t].page
    BY <1>1, <1>3, Places DEF Knows
  <2>2. exists' \cap freeIds' = {} /\ \A n \in tree : node[n].pid \in freeIds' => n \in Leaving'
    BY <1>1, <1>6, <2>1 DEF NodesRight
  <2> QED
    BY <1>1, <1>2, <1>6, <2>2, Places, NodesStayIds
<1>8. BlocksInOnePlace'
  BY <1>1, <1>2, <1>5, Places, BlocksStay
<1>9. ContentRight'
  BY <1>1, <1>2, <1>5, ContentStays
<1> QED
  BY <1>5, <1>7, <1>8, <1>9

\* The id is free before the node is gone: from here on the node is leaving.
LEMMA MDeleteFreeIdStep ==
    ASSUME TypeOK, Rest, NEW t \in Threads, MDeleteFreeId(t)
    PROVE  Rest'
<1> USE DEF Rest
<1>1. /\ pc[t] = "freeId"
      /\ UNCHANGED <<empty, used_blocks, content, node, tree, exists, loc, mistaken>>
      /\ freeIds' = freeIds \cup {loc[t].page} /\ Goto(t, "remove")
  BY DEF MDeleteFreeId
<1>2. Moves(t, "remove", loc[t])
  BY <1>1, MovesOnly
<1>3. Knows(pc[t], loc[t], node, tree, Kept, exists \cup freeIds)
  BY Known
<1>4. Knows("remove", loc[t], node, tree, Kept, exists' \cup freeIds')
  BY <1>1, <1>3, Places DEF Knows
<1>5. ThreadsKnow' /\ Apart' /\ Kept' = Kept
  <2>1. /\ "remove" \notin HasPage /\ "remove" \in GaveBack
        /\ pc[t] \in HasNode \cap HasPage \cap GaveBack
    BY <1>1, Places
  <2>2. exists' \cup freeIds' = exists \cup freeIds \cup {loc[t].page}
    BY <1>1
  <2> QED
    BY <1>1, <1>2, <1>4, <2>1, <2>2, IdStep
<1>6. loc[t].node \in tree /\ node[loc[t].node].pid = loc[t].page
      /\ loc[t].page \notin exists \cup freeIds
  BY <1>1, <1>3, Places DEF Knows
<1>7. Leaving' = Leaving \cup {loc[t].node}
  BY <1>1, <1>2, <1>6 DEF Moves, Leaving
<1>8. loc[t].node \notin Leaving
  BY <1>1, Places DEF Apart, Leaving
<1>9. NodesRight'
  <2>1. ASSUME NEW n \in tree, node[n].pid \in freeIds' PROVE n \in Leaving'
    BY <1>1, <1>6, <1>7, <1>8, <2>1 DEF NodesRight
  <2>2. exists' \cap freeIds' = {}
    BY <1>1, <1>6 DEF NodesRight
  <2> QED
    BY <1>1, <1>2, <1>7, <2>1, <2>2, Places, NodesStayIds
<1>10. BlocksInOnePlace'
  BY <1>1, <1>2, <1>5, Places, BlocksStay
<1>11. ContentRight'
  BY <1>1, <1>2, <1>5, ContentStays
<1> QED
  BY <1>5, <1>9, <1>10, <1>11

-----------------------------------------------------------------------------
(* A page is deleted                                                        *)

\* The state of a node changes, or its block when it has one at last.
LEMMA NodesChange ==
    ASSUME NodesRight, NEW t \in Threads, NEW d, NEW l, Moves(t, d, l), UNCHANGED tree,
           Leaving' = Leaving, exists' \cap freeIds' = {}, freeIds' = freeIds,
           \A n \in tree : node'[n].pid = node[n].pid,
           \A n \in tree : node'[n].state # "LOADING" => node'[n].block \in Blocks,
           \A n \in tree : node'[n].state = "LOADING" =>
              /\ node[n].state = "LOADING"
              /\ pc[t] \in Loading /\ loc[t].node = n => d \in Loading /\ l.node = n
    PROVE  NodesRight'
<1>1. ASSUME NEW n \in tree, node'[n].state = "LOADING"
      PROVE  \E u \in Threads : pc'[u] \in Loading /\ loc'[u].node = n
  <2>1. PICK u \in Threads : pc[u] \in Loading /\ loc[u].node = n
    BY <1>1 DEF NodesRight
  <2>2. pc'[u] \in Loading /\ loc'[u].node = n
    BY <1>1, <2>1 DEF Moves
  <2> QED
    BY <2>2
<1> QED
  BY <1>1 DEF NodesRight

\* What a thread is to gain must not be another's.
LEMMA ApartMoves ==
    ASSUME Apart, NEW t \in Threads, NEW d, NEW l, Moves(t, d, l),
           d \in HasNode => \A u \in Threads \ {t} : pc[u] \in HasNode => loc[u].node # l.node,
           d \in HasPage => \A u \in Threads \ {t} : pc[u] \in HasPage => loc[u].page # l.page
    PROVE  Apart'
<1>1. \A u \in Threads \ {t} : pc'[u] = pc[u] /\ loc'[u] = loc[u]
  BY DEF Moves
<1>2. pc'[t] = d /\ loc'[t] = l
  BY DEF Moves
<1>3. ASSUME NEW u \in Threads, NEW v \in Threads, u # v
      PROVE  /\ pc'[u] \in HasNode /\ pc'[v] \in HasNode => loc'[u].node # loc'[v].node
             /\ pc'[u] \in HasPage /\ pc'[v] \in HasPage => loc'[u].page # loc'[v].page
  <2>1. CASE u # t /\ v # t
    BY <1>1, <1>3, <2>1 DEF Apart
  <2>2. CASE u = t
    BY <1>1, <1>2, <1>3, <2>2
  <2>3. CASE v = t
    BY <1>1, <1>2, <1>3, <2>3
  <2> QED
    BY <2>1, <2>2, <2>3
<1> QED
  BY <1>3 DEF Apart

\* Nobody has the node of a page on which no operation is under way, unless it is
\* the node of a former page with that id.
LEMMA Undisturbed ==
    ASSUME TypeOK, Rest, NEW p, ~Busy(p), NEW n \in Found(p), n \notin Leaving
    PROVE  /\ n \in Kept /\ n \in Nodes /\ node[n].pid = p /\ node[n].block \in Blocks
           /\ \A u \in Threads : pc[u] \in HasNode => loc[u].node # n
<1>1. n \in tree /\ node[n].pid = p /\ n \in Nodes
  BY DEF Found, TypeOK
<1>2. ASSUME NEW u \in Threads, pc[u] \in HasNode PROVE loc[u].node # n
  <2>1. Knows(pc[u], loc[u], node, tree, Kept, exists \cup freeIds)
    BY Known DEF Rest
  <2>2. node[loc[u].node].pid = loc[u].page
    BY <1>2, <2>1 DEF Knows
  <2>3. pc[u] # "idle"
    BY <1>2, Places
  <2>4. CASE pc[u] = "remove"
    BY <1>1, <2>4 DEF Leaving
  <2> QED
    BY <1>1, <2>2, <2>3, <2>4 DEF Busy
<1>3. node[n].state # "LOADING"
  BY <1>1, <1>2, Places DEF Rest, NodesRight
<1>4. node[n].block \in Blocks
  BY <1>1, <1>3 DEF Rest, NodesRight
<1>5. n \in Kept
  BY <1>1, <1>2, <1>3, Places DEF Kept
<1> QED
  BY <1>1, <1>2, <1>4, <1>5

\* Only the state of a node that nobody has changes.
SameButState ==
    /\ \A n \in tree : node'[n].pid = node[n].pid /\ node'[n].block = node[n].block
    /\ \A n \in tree : node[n].state = "LOADING" <=> node'[n].state = "LOADING"
    /\ \A u \in Threads : pc[u] \in HasNode => node'[loc[u].node] = node[loc[u].node]

LEMMA DestroyChanges ==
    ASSUME TypeOK, Rest, NEW p, ~Busy(p), NEW n \in Found(p), n \notin Leaving,
           node' = [node EXCEPT ![n].state = "DESTROY"]
    PROVE  SameButState
<1>1. n \in Nodes /\ n \in Kept /\ \A u \in Threads : pc[u] \in HasNode => loc[u].node # n
  BY Undisturbed
<1>2. node \in [Nodes -> NodeType] /\ node[n].state # "LOADING" /\ tree \subseteq Nodes
  BY <1>1, Typed DEF PoolType, Kept, PageType
<1>3. node' = [node EXCEPT ![n] = [node[n] EXCEPT !.state = "DESTROY"]]
  BY <1>1, <1>2
<1>4. \A m \in Nodes : m # n => node'[m] = node[m]
  BY <1>2, <1>3
<1>5. node'[n].pid = node[n].pid /\ node'[n].block = node[n].block /\ node'[n].state = "DESTROY"
  BY <1>1, <1>2, <1>3 DEF NodeType
<1>6. ASSUME NEW u \in Threads, pc[u] \in HasNode PROVE node'[loc[u].node] = node[loc[u].node]
  <2>1. loc[u].node \in tree /\ loc[u].node # n
    BY <1>1, <1>6, Known DEF Rest, Knows
  <2> QED
    BY <1>2, <1>4, <2>1
<1> QED
  BY <1>2, <1>4, <1>5, <1>6 DEF SameButState

\* A thread takes a page away from everybody, to delete it.
LEMMA ClaimStep ==
    ASSUME TypeOK, Rest, NEW t \in Threads, NEW p \in exists, pc[t] = "idle", ~Busy(p),
           NEW d, NEW l, Moves(t, d, l), l.page = p,
           \/ d = "ddelete" /\ Found(p) = {}
           \/ d = "mdelete" /\ \E n \in Found(p) \ Leaving : node[n].block = l.block,
           \/ node' = node
           \/ \E n \in Found(p) \ Leaving : node' = [node EXCEPT ![n].state = "DESTROY"],
           exists' = exists \ {p}, UNCHANGED <<tree, freeIds, empty, used_blocks, content>>
    PROVE  Rest'
<1> USE DEF Rest
<1>1. d \in {"ddelete", "mdelete"} /\ p \in Pages
  BY DEF TypeOK
<1>2. \A u \in Threads \ {t} : pc[u] \notin {"idle", "remove"} => loc[u].page # p
  BY DEF Busy
<1>3. SameButState
  <2>1. CASE node' = node
    BY <2>1 DEF SameButState
  <2>2. ASSUME NEW n \in Found(p) \ Leaving, node' = [node EXCEPT ![n].state = "DESTROY"]
        PROVE  SameButState
    BY <2>2, DestroyChanges
  <2> QED
    BY <2>1, <2>2
<1> USE DEF SameButState
<1>4. Kept' = Kept
  <2>1. ASSUME NEW n
        PROVE  (\A u \in Threads : pc'[u] \in GaveBack => loc'[u].node # n) <=>
               (\A u \in Threads : pc[u] \in GaveBack => loc[u].node # n)
    BY <1>1, Places DEF Moves
  <2> QED
    BY <1>3, <2>1 DEF Kept
<1>5. Leaving' = Leaving
  BY <1>1, LeavingStays
<1>6. Apart'
  <2>1. d \notin HasNode /\ "idle" \notin HasPage /\ "remove" \notin HasPage
    BY <1>1, Places
  <2> QED
    BY <1>2, <2>1, ApartMoves
<1>7. NodesRight'
  <2>1. \A n \in tree : node'[n].state # "LOADING" => node'[n].block \in Blocks
    BY <1>3 DEF NodesRight
  <2>2. exists' \cap freeIds' = {} /\ pc[t] \notin Loading
    BY Places DEF NodesRight
  <2> QED
    BY <1>3, <1>5, <2>1, <2>2, NodesChange
<1>8. ThreadsKnow'
  <2>1. Knows(d, l, node', tree', Kept', exists' \cup freeIds')
    <3>1. d \notin HasNode /\ p \notin exists' \cup freeIds'
      BY <1>1, Places DEF NodesRight
    <3>2. d = "ddelete" => \A n \in tree : node'[n].pid # p
      BY <1>3 DEF Found
    <3>3. d = "mdelete" => l.block \in Blocks /\ \E n \in Kept : node'[n].pid = p /\ node'[n].block = l.block
      <4>1. ASSUME NEW n \in Found(p) \ Leaving, node[n].block = l.block
            PROVE  l.block \in Blocks /\ n \in Kept /\ node'[n].pid = p /\ node'[n].block = l.block
        BY <1>3, <4>1, Undisturbed DEF Found
      <4> QED
        BY <4>1
    <3> QED
      BY <1>1, <1>4, <3>1, <3>2, <3>3 DEF Knows
  <2>2. ASSUME NEW u \in Threads \ {t} PROVE Knows(pc[u], loc[u], node, tree, Kept, exists \cup freeIds)
    BY Known
  <2>3. \A u \in Threads \ {t} : pc[u] \in HasNode =>
           loc[u].node \in tree /\ node'[loc[u].node] = node[loc[u].node]
    BY <1>3, <2>2 DEF Knows
  <2>4. \A n \in Kept : n \in Kept' /\ node'[n].pid = node[n].pid /\ node'[n].block = node[n].block
    BY <1>3, <1>4 DEF Kept
  <2>5. \A u \in Threads \ {t} : pc[u] = "ddelete" => \A n \in tree : node'[n].pid # loc[u].page
    BY <1>3, <2>2 DEF Knows
  <2>6. \A u \in Threads \ {t} : pc[u] \in OwnsId => loc[u].page \notin exists' \cup freeIds'
    BY <2>2 DEF Knows
  <2> QED
    BY <2>1, <2>3, <2>4, <2>5, <2>6, AllKnow
<1>9. \A n \in Kept : node'[n].block = node[n].block /\ node'[n].pid = node[n].pid
  BY <1>3 DEF Kept
<1>10. pc[t] \notin HasBlock /\ d \notin HasBlock
  BY <1>1, Places
<1>11. BlocksInOnePlace'
  BY <1>4, <1>9, <1>10, BlocksStay
<1>12. ContentRight'
  BY <1>4, <1>9, ContentStays
<1> QED
  BY <1>6, <1>7, <1>8, <1>11, <1>12

LEMMA Removed == \A n \in tree : n \in Leaving <=> Removing(n)
  BY DEF Leaving, Removing

LEMMA DeleteStep ==
    ASSUME TypeOK, Rest, ~mistaken', NEW t \in Threads, NEW p \in Pages,
           DDelete(t, p) \/ DDeleteOnDisk(t, p) \/ \E b \in Blocks : MDelete(t, p, b)
    PROVE  Rest'
<1>1. CASE DDelete(t, p)
  <2>1. PICK n \in Found(p) : Destroy(t, p, n)
    BY <1>1 DEF DDelete
  <2>2. PICK l : l = [NoLocals EXCEPT !.page = p, !.node = n, !.block = node[n].block]
    OBVIOUS
  <2>3. l.page = p /\ l.block = node[n].block
    BY <2>2 DEF NoLocals
  <2>4. Moves(t, "mdelete", l)
    BY <1>1, <2>1, <2>2, MovesBy DEF DDelete, Destroy
  <2>a. n \notin Leaving
    BY <2>1, Removed DEF Destroy, Mistake, Found
  <2>5. \E m \in Found(p) \ Leaving : node[m].block = l.block
    BY <2>3, <2>a
  <2>6. \E m \in Found(p) \ Leaving : node' = [node EXCEPT ![m].state = "DESTROY"]
    BY <2>1, <2>a DEF Destroy
  <2>7. /\ p \in exists /\ pc[t] = "idle" /\ ~Busy(p) /\ exists' = exists \ {p}
        /\ UNCHANGED <<tree, freeIds, empty, used_blocks, content>>
    BY <1>1 DEF DDelete
  <2> QED
    BY <2>3, <2>4, <2>5, <2>6, <2>7, ClaimStep
<1>2. CASE DDeleteOnDisk(t, p)
  <2>1. PICK l : l = [NoLocals EXCEPT !.page = p]
    OBVIOUS
  <2>2. l.page = p
    BY <2>1 DEF NoLocals
  <2>3. Moves(t, "ddelete", l)
    BY <1>2, <2>1, MovesBy DEF DDeleteOnDisk
  <2>4. /\ p \in exists /\ pc[t] = "idle" /\ ~Busy(p) /\ exists' = exists \ {p} /\ Found(p) = {}
        /\ UNCHANGED <<node, tree, freeIds, empty, used_blocks, content>>
    BY <1>2 DEF DDeleteOnDisk
  <2> QED
    BY <2>2, <2>3, <2>4, ClaimStep
<1>3. ASSUME NEW b \in Blocks, MDelete(t, p, b) PROVE Rest'
  <2>1. PICK n \in tree : node[n] = [pid |-> p, block |-> b, state |-> "FINISH"]
    BY <1>3 DEF MDelete
  <2>2. PICK l : l = [NoLocals EXCEPT !.page = p, !.block = b]
    OBVIOUS
  <2>3. l.page = p /\ l.block = b
    BY <2>2 DEF NoLocals
  <2>4. Moves(t, "mdelete", l)
    BY <1>3, <2>2, MovesBy DEF MDelete
  <2>a. n \notin Leaving
    <3>1. ASSUME NEW u \in Threads, pc[u] = "remove", loc[u].node = n PROVE FALSE
      <4>1. Knows(pc[u], loc[u], node, tree, Kept, exists \cup freeIds)
        BY Known DEF Rest
      <4> QED
        BY <2>1, <3>1, <4>1, Places DEF Knows
    <3> QED
      BY <3>1 DEF Leaving
  <2>5. \E m \in Found(p) \ Leaving : node[m].block = l.block
    BY <2>1, <2>3, <2>a DEF Found
  <2>6. /\ p \in exists /\ pc[t] = "idle" /\ ~Busy(p) /\ exists' = exists \ {p}
        /\ UNCHANGED <<node, tree, freeIds, empty, used_blocks, content>>
    BY <1>3 DEF MDelete
  <2> QED
    BY <2>3, <2>4, <2>5, <2>6, ClaimStep
<1> QED
  BY <1>1, <1>2, <1>3

\* The id read from the block is the id of the page to delete, so the node it
\* finds is the node that has this block, or one that another thread removes.
LEMMA MDeleteDestroyStep ==
    ASSUME PoolAssumption, TypeOK, Rest, ~mistaken', NEW t \in Threads, MDeleteDestroy(t)
    PROVE  Rest'
<1> USE DEF Rest
<1>1. /\ pc[t] = "mdelete"
      /\ UNCHANGED <<empty, used_blocks, content, tree, freeIds, exists>>
  BY DEF MDeleteDestroy
<1>2. CASE Return(t) /\ UNCHANGED node
  <2>1. Moves(t, "idle", NoLocals)
    BY <1>2, MovesBack
  <2> QED
    BY <1>1, <1>2, <2>1, EaseStep DEF AtEase
<1>3. ASSUME NEW n \in Found(content[loc[t].block]), n \notin Leaving,
             node' = [node EXCEPT ![n].state = "DESTROY"],
             loc' = [loc EXCEPT ![t].page = content[loc[t].block], ![t].node = n],
             Goto(t, "freeBlock")
      PROVE  Rest'
  <2>1. Knows(pc[t], loc[t], node, tree, Kept, exists \cup freeIds)
    BY Known
  <2>2. PICK m \in Kept : node[m].pid = loc[t].page /\ node[m].block = loc[t].block
    BY <1>1, <2>1 DEF Knows
  <2>3. \A u \in Threads \ {t} : pc[u] \in HasPage => loc[u].page # loc[t].page
    BY <1>1, Places DEF Apart
  <2>4. \A u \in Threads \ {t} : pc[u] \in HasNode =>
           /\ loc[u].node \in tree /\ node[loc[u].node].pid = loc[u].page
           /\ pc[u] # "remove" => loc[u].page # loc[t].page
    <3>1. HasNode \ {"remove"} \subseteq HasPage
      BY Places
    <3>2. \A u \in Threads \ {t} : Knows(pc[u], loc[u], node, tree, Kept, exists \cup freeIds)
      BY Known
    <3> QED
      BY <2>3, <3>1, <3>2 DEF Knows
  <2>5. content[loc[t].block] = loc[t].page
    <3>1. ASSUME NEW u \in Threads, pc[u] \in {"bringIn", "create"} PROVE loc[u].node # m
      BY <1>1, <2>2, <2>4, <3>1, Places
    <3>2. content[loc[t].block] \in {NULL, loc[t].page}
      BY <2>2, <3>1 DEF ContentRight
    <3>3. content[loc[t].block] # NULL
      BY <1>3 DEF Found, NodesRight, PoolAssumption
    <3> QED
      BY <3>2, <3>3
  <2>6. n = m
    <3>1. m \in tree \ Leaving
      BY <2>2, Places DEF Kept, Leaving
    <3>2. n \in tree /\ node[n].pid = loc[t].page
      BY <1>3, <2>5 DEF Found
    <3> QED
      BY <1>3, <2>2, <3>1, <3>2 DEF NodesRight
  <2>a. \A u \in Threads \ {t} : pc[u] \in HasNode => loc[u].node # n
    <3>1. ASSUME NEW u \in Threads \ {t}, pc[u] = "remove" PROVE loc[u].node # n
      BY <1>3, <2>2, <2>6, <3>1 DEF Leaving, Kept
    <3> QED
      BY <2>2, <2>4, <2>6, <3>1
  <2>7. PICK l : l = [loc[t] EXCEPT !.page = content[loc[t].block], !.node = n]
    OBVIOUS
  <2>8. loc[t] \in LocalsType /\ node \in [Nodes -> NodeType] /\ tree \subseteq Nodes
    BY Typed DEF ThreadType, PoolType, PageType
  <2>9. l.page = loc[t].page /\ l.node = n /\ l.block = loc[t].block
    BY <2>5, <2>7, <2>8 DEF LocalsType
  <2>10. Moves(t, "freeBlock", l)
    <3>1. loc' = [loc EXCEPT ![t] = l]
      BY <1>3, <2>7, <2>8 DEF TypeOK
    <3> QED
      BY <1>3, <3>1, MovesBy
  <2>11. n \in Nodes /\ n \in tree /\ node[n].state # "LOADING" /\ node[n].block \in Blocks
    BY <2>2, <2>6, <2>8 DEF Kept, NodesRight
  <2>12. /\ node'[n].pid = node[n].pid /\ node'[n].block = node[n].block /\ node'[n].state = "DESTROY"
         /\ \A k \in tree \ {n} : node'[k] = node[k]
    <3>1. node' = [node EXCEPT ![n] = [node[n] EXCEPT !.state = "DESTROY"]]
      BY <1>3, <2>8, <2>11
    <3> QED
      BY <2>8, <2>11, <3>1 DEF NodeType
  <2>13. \A k \in tree : node'[k].pid = node[k].pid /\ node'[k].block = node[k].block
    BY <2>12
  <2>14. Kept' = Kept
    <3>1. ASSUME NEW k
          PROVE  (\A u \in Threads : pc'[u] \in GaveBack => loc'[u].node # k) <=>
                 (\A u \in Threads : pc[u] \in GaveBack => loc[u].node # k)
      BY <1>1, <2>10, Places DEF Moves
    <3>2. \A k \in tree : node'[k].state # "LOADING" <=> node[k].state # "LOADING"
      BY <2>11, <2>12
    <3> QED
      BY <1>1, <3>1, <3>2 DEF Kept
  <2>15. Leaving' = Leaving
    BY <1>1, <2>10, LeavingStays
  <2>16. Apart'
    BY <2>3, <2>9, <2>10, <2>a, ApartMoves
  <2>17. NodesRight'
    <3>1. \A k \in tree : node'[k].state # "LOADING" => node'[k].block \in Blocks
      BY <2>11, <2>12 DEF NodesRight
    <3>2. \A k \in tree : node'[k].state = "LOADING" => node[k].state = "LOADING"
      BY <2>12
    <3>3. exists' \cap freeIds' = {} /\ pc[t] \notin Loading
      BY <1>1, Places DEF NodesRight
    <3> QED
      BY <1>1, <2>10, <2>13, <2>15, <3>1, <3>2, <3>3, NodesChange
  <2>18. ThreadsKnow'
    <3>1. Knows("freeBlock", l, node', tree', Kept', exists' \cup freeIds')
      BY <1>1, <2>1, <2>2, <2>6, <2>9, <2>11, <2>12, Places DEF Knows
    <3>2. \A u \in Threads \ {t} : Knows(pc[u], loc[u], node, tree, Kept, exists \cup freeIds)
      BY Known
    <3>3. \A u \in Threads \ {t} : pc[u] \in HasNode =>
             loc[u].node \in tree' /\ node'[loc[u].node] = node[loc[u].node]
      BY <1>1, <2>4, <2>12, <2>a
    <3>4. \A k \in Kept : k \in Kept' /\ node'[k].pid = node[k].pid /\ node'[k].block = node[k].block
      BY <2>13, <2>14 DEF Kept
    <3>5. \A u \in Threads \ {t} : pc[u] = "ddelete" => \A k \in tree' : node'[k].pid # loc[u].page
      BY <1>1, <2>13, <3>2 DEF Knows
    <3>6. \A u \in Threads \ {t} : pc[u] \in OwnsId => loc[u].page \notin exists' \cup freeIds'
      BY <1>1, <3>2 DEF Knows
    <3> QED
      BY <2>10, <3>1, <3>3, <3>4, <3>5, <3>6, AllKnow
  <2>19. \A k \in Kept : node'[k].block = node[k].block /\ node'[k].pid = node[k].pid
    BY <2>13 DEF Kept
  <2>20. pc[t] \notin HasBlock /\ "freeBlock" \notin HasBlock
    BY <1>1, Places
  <2>21. BlocksInOnePlace'
    BY <1>1, <2>10, <2>14, <2>19, <2>20, BlocksStay
  <2>22. ContentRight'
    BY <1>1, <2>10, <2>14, <2>19, ContentStays
  <2> QED
    BY <2>16, <2>17, <2>18, <2>21, <2>22
<1>4. ASSUME NEW n \in Found(content[loc[t].block]), Mistake(n) PROVE n \notin Leaving
  BY <1>4, Removed DEF Mistake, Found
<1> QED
  BY <1>2, <1>3, <1>4 DEF MDeleteDestroy

-----------------------------------------------------------------------------
(* Nodes come and go                                                        *)

\* The node of a thread that is done with it, and has no block, is freed.
LEMMA RemoveStep ==
    ASSUME TypeOK, Rest, NEW t \in Threads, pc[t] \in {"openAlloc", "loadFail", "remove"},
           RemoveNode(t), Return(t),
           UNCHANGED <<empty, used_blocks, content, freeIds, exists, mistaken>>
    PROVE  Rest'
<1> USE DEF Rest
<1>1. Moves(t, "idle", NoLocals)
  BY MovesBack
<1>2. PICK n : n = loc[t].node
  OBVIOUS
<1>3. Knows(pc[t], loc[t], node, tree, Kept, exists \cup freeIds)
  BY Known
<1>4. n \in tree /\ (pc[t] = "openAlloc" => node[n].state = "LOADING")
  BY <1>2, <1>3, Places DEF Knows
<1>5. \A u \in Threads \ {t} : pc[u] \in HasNode => loc[u].node # n
  BY <1>2, Places DEF Apart
<1>6. tree' = tree \ {n} /\ \A m \in tree \ {n} : node'[m] = node[m]
  <2>1. node' = node \/ node' = [node EXCEPT ![n] = NoNode]
    BY <1>2 DEF RemoveNode
  <2> QED
    BY <1>2, <2>1 DEF RemoveNode, TypeOK
<1>7. /\ pc[t] \notin HasBlock \cup {"bringIn", "create"}
      /\ "idle" \notin HasNode \cup HasPage \cup HasBlock \cup GaveBack \cup Loading
  BY Places
<1>8. n \notin Kept
  <2>1. pc[t] # "openAlloc" => pc[t] \in GaveBack
    BY Places
  <2> QED
    BY <1>2, <1>4, <2>1 DEF Kept
<1>9. Kept' = Kept
  <2>1. ASSUME NEW m \in tree \ {n}
        PROVE  (\A u \in Threads : pc'[u] \in GaveBack => loc'[u].node # m) <=>
               (\A u \in Threads : pc[u] \in GaveBack => loc[u].node # m)
    BY <1>1, <1>2, <1>7 DEF Moves
  <2> QED
    BY <1>6, <1>8, <2>1 DEF Kept
<1>10. Leaving' = Leaving \ {n}
  BY <1>1, <1>2, <1>6 DEF Moves, Leaving
<1>11. Apart'
  BY <1>1, <1>7, ApartMoves
<1>12. NodesRight'
  <2>1. ASSUME NEW m \in tree', node'[m].state = "LOADING"
        PROVE  \E u \in Threads : pc'[u] \in Loading /\ loc'[u].node = m
    <3>1. PICK u \in Threads : pc[u] \in Loading /\ loc[u].node = m
      BY <1>6, <2>1 DEF NodesRight
    <3>2. pc'[u] \in Loading /\ loc'[u].node = m
      BY <1>1, <1>2, <1>6, <3>1 DEF Moves
    <3> QED
      BY <3>2
  <2> QED
    BY <1>6, <1>10, <2>1 DEF NodesRight
<1>13. ThreadsKnow'
  <2>1. Knows("idle", NoLocals, node', tree', Kept', exists' \cup freeIds')
    BY <1>7, Places DEF Knows
  <2>2. \A u \in Threads \ {t} : Knows(pc[u], loc[u], node, tree, Kept, exists \cup freeIds)
    BY Known
  <2>3. \A u \in Threads \ {t} : pc[u] \in HasNode =>
           loc[u].node \in tree' /\ node'[loc[u].node] = node[loc[u].node]
    BY <1>5, <1>6, <2>2 DEF Knows
  <2>4. \A m \in Kept : m \in Kept' /\ node'[m].pid = node[m].pid /\ node'[m].block = node[m].block
    BY <1>6, <1>8, <1>9 DEF Kept
  <2>5. \A u \in Threads \ {t} : pc[u] = "ddelete" => \A m \in tree' : node'[m].pid # loc[u].page
    BY <1>6, <2>2 DEF Knows
  <2>6. \A u \in Threads \ {t} : pc[u] \in OwnsId => loc[u].page \notin exists' \cup freeIds'
    BY <2>2 DEF Knows
  <2> QED
    BY <1>1, <2>1, <2>3, <2>4, <2>5, <2>6, AllKnow
<1>14. \A m \in Kept : node'[m] = node[m]
  BY <1>6, <1>8 DEF Kept
<1>15. BlocksInOnePlace'
  BY <1>1, <1>7, <1>9, <1>14, BlocksStay
<1>16. ContentRight'
  BY <1>1, <1>7, <1>9, <1>14, ContentStays
<1> QED
  BY <1>11, <1>12, <1>13, <1>15, <1>16

\* A node gets the block in the hands of thread t.
LEMMA BlockKept ==
    ASSUME BlocksInOnePlace, NEW t \in Threads, NEW d, NEW l, Moves(t, d, l),
           UNCHANGED <<empty, used_blocks>>, pc[t] \in HasBlock, d \notin HasBlock,
           NEW n, n \notin Kept, Kept' = Kept \cup {n}, node'[n].block = loc[t].block,
           \A m \in Kept : node'[m].block = node[m].block
    PROVE  BlocksInOnePlace'
<1>1. Takers' = Takers \ {t} /\ t \in Takers
  BY DEF Moves, Takers
<1>2. \A u \in Takers \ {t} : loc'[u].block = loc[u].block
  BY DEF Moves, Takers
<1>3. KeptBy(t, n, Kept, node, node', Takers, loc, loc')
  BY <1>1, <1>2 DEF KeptBy
<1>4. Accounted(empty, used_blocks, Kept, node, Takers, loc)
  BY DEF BlocksInOnePlace
<1>5. Accounted(empty, used_blocks, Kept \cup {n}, node', Takers \ {t}, loc')
  BY <1>3, <1>4, AccountedKeep
<1> QED
  BY <1>1, <1>5 DEF BlocksInOnePlace

\* The node of a thread that is still to read or to initialize its page.
LEMMA ContentToCome ==
    ASSUME ContentRight, NEW t \in Threads, NEW d \in {"bringIn", "create"}, NEW l, Moves(t, d, l),
           pc[t] \notin {"bringIn", "create"}, NEW n, l.node = n, Kept' = Kept \cup {n},
           UNCHANGED content, \A m \in Kept : m # n => node'[m] = node[m]
    PROVE  ContentRight'
<1> SUFFICES ASSUME NEW m \in Kept'
             PROVE  \/ content[node'[m].block] \in {NULL, node'[m].pid}
                    \/ \E u \in Threads : pc'[u] \in {"bringIn", "create"} /\ loc'[u].node = m
  BY DEF ContentRight
<1>1. CASE m = n
  BY <1>1 DEF Moves
<1>2. CASE m # n
  <2>1. ASSUME NEW u \in Threads, pc[u] \in {"bringIn", "create"}, loc[u].node = m
        PROVE  pc'[u] \in {"bringIn", "create"} /\ loc'[u].node = m
    BY <2>1 DEF Moves
  <2> QED
    BY <1>2, <2>1 DEF ContentRight
<1> QED
  BY <1>1, <1>2

\* The thread that opens a page first has a node, and nobody has the page.
LEMMA OpenMissStep ==
    ASSUME TypeOK, Rest, NEW t \in Threads, NEW p \in Pages, OpenMiss(t, p)
    PROVE  Rest'
<1> USE DEF Rest
<1>1. /\ pc[t] = "idle" /\ p \in exists /\ Found(p) = {} /\ Allocatable # {}
      /\ UNCHANGED <<empty, used_blocks, content, freeIds, exists, mistaken>>
  BY DEF OpenMiss
<1>2. PICK n : n = NewNode
  OBVIOUS
<1>3. n \in Nodes /\ n \notin tree /\ \A u \in Threads : loc[u].node # n
  BY <1>1, <1>2, Malloc
<1>4. PICK l : l = [page |-> p, block |-> NULL, node |-> n, pool |-> 1]
  OBVIOUS
<1>5. l.page = p /\ l.node = n
  BY <1>4
<1>6. Moves(t, "openAlloc", l)
  BY <1>2, <1>4, MovesBy DEF OpenMiss
<1>7. /\ tree' = tree \cup {n} /\ \A m \in tree : node'[m] = node[m]
      /\ node'[n].pid = p /\ node'[n].state = "LOADING"
  BY <1>2, <1>3 DEF OpenMiss, TypeOK
<1>8. /\ pc[t] \notin HasNode \cup HasPage \cup HasBlock \cup GaveBack \cup Loading
      /\ "openAlloc" \in Loading /\ "openAlloc" \notin HasBlock \cup GaveBack \cup OwnsId
      /\ pc[t] \notin {"bringIn", "create"}
  BY <1>1, Places
<1>9. \A u \in Threads \ {t} : Knows(pc[u], loc[u], node, tree, Kept, exists \cup freeIds)
  BY Known
<1>10. \A m \in tree : node[m].pid # p
  BY <1>1 DEF Found
<1>11. Kept' = Kept
  <2>1. ASSUME NEW m
        PROVE  (\A u \in Threads : pc'[u] \in GaveBack => loc'[u].node # m) <=>
               (\A u \in Threads : pc[u] \in GaveBack => loc[u].node # m)
    BY <1>6, <1>8 DEF Moves
  <2> QED
    BY <1>3, <1>7, <2>1 DEF Kept
<1>12. Leaving' = Leaving
  BY <1>1, <1>3, <1>5, <1>6, <1>7 DEF Moves, Leaving
<1>13. Apart'
  <2>1. \A u \in Threads \ {t} : pc[u] \in HasPage => loc[u].page # p
    <3>1. HasPage \subseteq HasNode \cup OwnsId
      BY Places
    <3> QED
      BY <1>1, <1>9, <1>10, <3>1 DEF Knows
  <2> QED
    BY <1>3, <1>5, <1>6, <2>1, ApartMoves
<1>14. NodesRight'
  <2>1. ASSUME NEW m \in tree', node'[m].state = "LOADING"
        PROVE  \E u \in Threads : pc'[u] \in Loading /\ loc'[u].node = m
    <3>1. CASE m = n
      BY <1>5, <1>6, <1>8, <3>1 DEF Moves
    <3>2. CASE m # n
      <4>1. PICK u \in Threads : pc[u] \in Loading /\ loc[u].node = m
        BY <1>7, <2>1, <3>2 DEF NodesRight
      <4>2. pc'[u] \in Loading /\ loc'[u].node = m
        BY <1>6, <1>8, <4>1 DEF Moves
      <4> QED
        BY <4>2
    <3> QED
      BY <3>1, <3>2
  <2>2. p \notin freeIds
    BY <1>1 DEF NodesRight
  <2> QED
    BY <1>1, <1>7, <1>10, <1>12, <2>1, <2>2 DEF NodesRight
<1>15. ThreadsKnow'
  <2>1. Knows("openAlloc", l, node', tree', Kept', exists' \cup freeIds')
    BY <1>5, <1>7, <1>8 DEF Knows
  <2>2. \A u \in Threads \ {t} : pc[u] \in HasNode =>
           loc[u].node \in tree' /\ node'[loc[u].node] = node[loc[u].node]
    BY <1>7, <1>9 DEF Knows
  <2>3. \A m \in Kept : m \in Kept' /\ node'[m].pid = node[m].pid /\ node'[m].block = node[m].block
    BY <1>7, <1>11 DEF Kept
  <2>4. \A u \in Threads \ {t} : pc[u] \in OwnsId => loc[u].page \notin exists' \cup freeIds'
    BY <1>1, <1>9 DEF Knows
  <2>5. \A u \in Threads \ {t} : pc[u] = "ddelete" => \A m \in tree' : node'[m].pid # loc[u].page
    <3>1. "ddelete" \in OwnsId
      BY Places
    <3> QED
      BY <1>1, <1>7, <1>9, <3>1 DEF Knows
  <2> QED
    BY <1>6, <2>1, <2>2, <2>3, <2>4, <2>5, AllKnow
<1>16. \A m \in Kept : node'[m] = node[m]
  BY <1>7 DEF Kept
<1>17. BlocksInOnePlace'
  BY <1>1, <1>6, <1>8, <1>11, <1>16, BlocksStay
<1>18. ContentRight'
  BY <1>1, <1>6, <1>8, <1>11, <1>16, ContentStays
<1> QED
  BY <1>13, <1>14, <1>15, <1>17, <1>18

\* The block is the node's, and everybody may have it, before the page is read.
LEMMA PublishStep ==
    ASSUME TypeOK, Rest, NEW t \in Threads, OpenPublish(t)
    PROVE  Rest'
<1> USE DEF Rest
<1>1. /\ pc[t] = "publish" /\ Goto(t, "bringIn")
      /\ UNCHANGED <<empty, used_blocks, content, tree, freeIds, exists, loc, mistaken>>
  BY DEF OpenPublish
<1>2. Moves(t, "bringIn", loc[t])
  BY <1>1, MovesOnly
<1>3. PICK n : n = loc[t].node
  OBVIOUS
<1>4. Knows(pc[t], loc[t], node, tree, Kept, exists \cup freeIds)
  BY Known
<1>5. /\ n \in tree /\ n \in Nodes /\ node[n].pid = loc[t].page /\ node[n].state = "LOADING"
      /\ loc[t].block \in Blocks
  BY <1>1, <1>3, <1>4, Places DEF Knows, TypeOK
<1>6. \A u \in Threads \ {t} : pc[u] \in HasNode => loc[u].node # n
  BY <1>1, <1>3, Places DEF Apart
<1>7. /\ \A m \in tree \ {n} : node'[m] = node[m]
      /\ node'[n].pid = node[n].pid /\ node'[n].state = "FINISH" /\ node'[n].block = loc[t].block
  <2>1. node \in [Nodes -> NodeType] /\ tree \subseteq Nodes
    BY Typed DEF PoolType, PageType
  <2>2. node' = [node EXCEPT ![n] = [node[n] EXCEPT !.block = loc[t].block, !.state = "FINISH"]]
    BY <1>3, <1>5, <2>1 DEF OpenPublish
  <2> QED
    BY <1>5, <2>1, <2>2 DEF NodeType
<1>8. /\ pc[t] \in HasNode \cap HasPage \cap Loading \cap HasBlock /\ pc[t] \notin GaveBack
      /\ "bringIn" \in HasNode \cap HasPage
      /\ "bringIn" \notin HasBlock \cup GaveBack \cup Loading \cup Deleting \cup OwnsId
      /\ GaveBack \subseteq HasNode
  BY <1>1, Places
<1>9. n \notin Kept /\ Kept' = Kept \cup {n}
  <2>1. ASSUME NEW m
        PROVE  (\A u \in Threads : pc'[u] \in GaveBack => loc'[u].node # m) <=>
               (\A u \in Threads : pc[u] \in GaveBack => loc[u].node # m)
    BY <1>2, <1>8 DEF Moves
  <2>2. \A u \in Threads : pc[u] \in GaveBack => loc[u].node # n
    BY <1>6, <1>8
  <2> QED
    BY <1>1, <1>5, <1>7, <2>1, <2>2 DEF Kept
<1>10. Leaving' = Leaving
  BY <1>1, <1>2, LeavingStays
<1>11. Apart'
  BY <1>2, <1>8, ApartStays
<1>12. NodesRight'
  <2>1. \A m \in tree : node'[m].pid = node[m].pid
    BY <1>7
  <2>2. \A m \in tree : node'[m].state # "LOADING" => node'[m].block \in Blocks
    BY <1>5, <1>7 DEF NodesRight
  <2>3. \A m \in tree : node'[m].state = "LOADING" => node[m].state = "LOADING" /\ m # n
    BY <1>7
  <2>4. exists' \cap freeIds' = {}
    BY <1>1 DEF NodesRight
  <2> QED
    BY <1>1, <1>2, <1>3, <1>10, <2>1, <2>2, <2>3, <2>4, NodesChange
<1>13. ThreadsKnow'
  <2>1. Knows("bringIn", loc[t], node', tree', Kept', exists' \cup freeIds')
    BY <1>1, <1>3, <1>5, <1>7, <1>8 DEF Knows
  <2>2. \A u \in Threads \ {t} : Knows(pc[u], loc[u], node, tree, Kept, exists \cup freeIds)
    BY Known
  <2>3. \A u \in Threads \ {t} : pc[u] \in HasNode =>
           loc[u].node \in tree' /\ node'[loc[u].node] = node[loc[u].node]
    BY <1>1, <1>6, <1>7, <2>2 DEF Knows
  <2>4. \A m \in Kept : m \in Kept' /\ node'[m].pid = node[m].pid /\ node'[m].block = node[m].block
    BY <1>7, <1>9 DEF Kept
  <2>5. \A u \in Threads \ {t} : pc[u] = "ddelete" => \A m \in tree' : node'[m].pid # loc[u].page
    BY <1>1, <1>7, <2>2 DEF Knows
  <2>6. \A u \in Threads \ {t} : pc[u] \in OwnsId => loc[u].page \notin exists' \cup freeIds'
    BY <1>1, <2>2 DEF Knows
  <2> QED
    BY <1>2, <2>1, <2>3, <2>4, <2>5, <2>6, AllKnow
<1>14. \A m \in Kept : node'[m] = node[m]
  BY <1>7, <1>9 DEF Kept
<1>15. BlocksInOnePlace'
  BY <1>1, <1>2, <1>7, <1>8, <1>9, <1>14, BlockKept
<1>16. ContentRight'
  BY <1>1, <1>2, <1>3, <1>9, <1>14, ContentToCome
<1> QED
  BY <1>11, <1>12, <1>13, <1>15, <1>16

\* A new page has an id that nobody has, unless its last node is leaving.
LEMMA CreateIdStep ==
    ASSUME TypeOK, Rest, NEW t \in Threads, CreateId(t)
    PROVE  Rest'
<1> USE DEF Rest
<1>1. /\ pc[t] = "createId" /\ Allocatable # {} /\ Goto(t, "create")
      /\ UNCHANGED <<empty, used_blocks, content, exists>>
  BY DEF CreateId
<1>2. PICK n : n = NewNode
  OBVIOUS
<1>3. n \in Nodes /\ n \notin tree /\ \A u \in Threads : loc[u].node # n
  BY <1>1, <1>2, Malloc
<1>4. PICK p \in freeIds :
          /\ freeIds' = freeIds \ {p}
          /\ node' = [node EXCEPT ![n] = [pid |-> p, block |-> loc[t].block, state |-> "FINISH"]]
          /\ loc' = [loc EXCEPT ![t].page = p, ![t].node = n]
  BY <1>2 DEF CreateId
<1>5. PICK l : l = [loc[t] EXCEPT !.page = p, !.node = n]
  OBVIOUS
<1>6. l.page = p /\ l.node = n /\ l.block = loc[t].block
  BY <1>5, Typed DEF ThreadType, LocalsType
<1>7. Moves(t, "create", l)
  <2>1. loc' = [loc EXCEPT ![t] = l]
    BY <1>4, <1>5, Typed DEF ThreadType
  <2> QED
    BY <1>1, <2>1, MovesBy
<1>8. /\ tree' = tree \cup {n} /\ \A m \in tree : node'[m] = node[m]
      /\ node'[n].pid = p /\ node'[n].state = "FINISH" /\ node'[n].block = loc[t].block
  <2>1. tree' = tree \cup {n}
    BY <1>2 DEF CreateId
  <2> QED
    BY <1>3, <1>4, <2>1 DEF TypeOK
<1>9. /\ pc[t] \notin HasNode \cup HasPage \cup GaveBack \cup Loading /\ pc[t] \in HasBlock
      /\ "create" \in HasNode \cap HasPage
      /\ "create" \notin HasBlock \cup GaveBack \cup Loading \cup Deleting
      /\ HasPage \subseteq (HasNode \ {"remove"}) \cup OwnsId
  BY <1>1, Places
<1>10. \A u \in Threads : Knows(pc[u], loc[u], node, tree, Kept, exists \cup freeIds)
  BY Known
<1>11. p \in Pages /\ p \notin exists /\ loc[t].block \in Blocks
  BY <1>1, <1>10 DEF Knows, NodesRight, TypeOK
<1>12. n \notin Kept /\ Kept' = Kept \cup {n}
  <2>1. ASSUME NEW m
        PROVE  (\A u \in Threads : pc'[u] \in GaveBack => loc'[u].node # m) <=>
               (\A u \in Threads : pc[u] \in GaveBack => loc[u].node # m)
    BY <1>7, <1>9 DEF Moves
  <2> QED
    BY <1>3, <1>8, <2>1 DEF Kept
<1>13. Leaving' = Leaving
  BY <1>1, <1>3, <1>7, <1>8 DEF Moves, Leaving
<1>14. Apart'
  <2>1. ASSUME NEW u \in Threads \ {t}, pc[u] \in HasPage PROVE loc[u].page # p
    <3>1. CASE pc[u] \in OwnsId
      BY <1>10, <3>1 DEF Knows
    <3>2. CASE pc[u] \in HasNode \ {"remove"}
      <4>1. loc[u].node \in tree /\ node[loc[u].node].pid = loc[u].page
        BY <1>10, <3>2 DEF Knows
      <4>2. loc[u].node \notin Leaving
        BY <3>2, Places DEF Apart, Leaving
      <4> QED
        BY <4>1, <4>2 DEF NodesRight
    <3> QED
      BY <1>9, <2>1, <3>1, <3>2
  <2> QED
    BY <1>3, <1>6, <1>7, <2>1, ApartMoves
<1>15. NodesRight'
  <2>1. ASSUME NEW m \in tree', node'[m].state = "LOADING"
        PROVE  \E u \in Threads : pc'[u] \in Loading /\ loc'[u].node = m
    <3>1. m \in tree /\ node[m].state = "LOADING"
      BY <1>8, <2>1
    <3>2. PICK u \in Threads : pc[u] \in Loading /\ loc[u].node = m
      BY <3>1 DEF NodesRight
    <3>3. pc'[u] \in Loading /\ loc'[u].node = m
      BY <1>7, <1>9, <3>2 DEF Moves
    <3> QED
      BY <3>3
  <2>2. \A m \in tree \ Leaving : node[m].pid # p
    BY DEF NodesRight
  <2>3. \A k, m \in tree' \ Leaving' : node'[k].pid = node'[m].pid => k = m
    BY <1>8, <1>13, <2>2 DEF NodesRight
  <2>4. freeIds' \subseteq freeIds /\ p \notin freeIds' /\ exists' \cap freeIds' = {}
    BY <1>1, <1>4 DEF NodesRight
  <2>5. ASSUME NEW m \in tree'
        PROVE  /\ node'[m].pid \in Pages /\ (node'[m].state # "LOADING" => node'[m].block \in Blocks)
               /\ node'[m].pid \in freeIds' => m \in Leaving'
    <3>1. CASE m = n
      BY <1>8, <1>11, <2>4, <3>1
    <3>2. CASE m # n
      BY <1>8, <1>13, <2>4, <3>2 DEF NodesRight
    <3> QED
      BY <3>1, <3>2
  <2> QED
    BY <2>1, <2>3, <2>4, <2>5 DEF NodesRight
<1>16. ThreadsKnow'
  <2>1. Knows("create", l, node', tree', Kept', exists' \cup freeIds')
    BY <1>1, <1>4, <1>6, <1>8, <1>9, <1>11 DEF Knows
  <2>2. \A u \in Threads \ {t} : pc[u] \in HasNode =>
           loc[u].node \in tree' /\ node'[loc[u].node] = node[loc[u].node]
    BY <1>8, <1>10 DEF Knows
  <2>3. \A m \in Kept : m \in Kept' /\ node'[m].pid = node[m].pid /\ node'[m].block = node[m].block
    BY <1>8, <1>12 DEF Kept
  <2>4. \A u \in Threads \ {t} : pc[u] \in OwnsId => loc[u].page \notin exists' \cup freeIds'
    BY <1>1, <1>4, <1>10 DEF Knows
  <2>5. \A u \in Threads \ {t} : pc[u] = "ddelete" => \A m \in tree' : node'[m].pid # loc[u].page
    <3>1. "ddelete" \in OwnsId
      BY Places
    <3> QED
      BY <1>8, <1>10, <3>1 DEF Knows
  <2> QED
    BY <1>7, <2>1, <2>2, <2>3, <2>4, <2>5, AllKnow
<1>17. \A m \in Kept : node'[m] = node[m]
  BY <1>8 DEF Kept
<1>18. BlocksInOnePlace'
  BY <1>1, <1>7, <1>8, <1>9, <1>12, <1>17, BlockKept
<1>19. ContentRight'
  BY <1>1, <1>6, <1>7, <1>12, <1>17, ContentToCome
<1> QED
  BY <1>14, <1>15, <1>16, <1>18, <1>19

-----------------------------------------------------------------------------
(* The invariant, and what it shows                                         *)

\* There is no way back from a mistake.
LEMMA MistakenStays ==
    ASSUME Next, mistaken
    PROVE  mistaken'
<1>1. ASSUME NEW n, Mistake(n) PROVE mistaken'
  BY <1>1 DEF Mistake
<1>2. ASSUME NEW t \in Threads, Begin(t) PROVE mistaken'
  BY <1>1, <1>2 DEF Begin, OpenMiss, OpenHit, CreateBegin, DDelete, Destroy, DDeleteOnDisk, MDelete
<1>3. ASSUME NEW t \in Threads, Go(t) PROVE mistaken'
  BY <1>1, <1>3 DEF Go, OpenWaited, OpenAllocate, OpenPoolFull, OpenPublish, BringIn, OpenLoadFail,
       OpenLoadFailRemove, Opened, CreateAllocate, CreatePoolFull, CreateId, Create, DDeleteFreeId,
       MDeleteDestroy, MDeleteFreeBlock, MDeleteZero, MDeleteFreeId, MDeleteRemove
<1> QED
  BY <1>2, <1>3 DEF Next, Step, GoAstray

\* Until a mistake, the only thread to go astray is one that deletes a page whose
\* block was zeroed late.
LEMMA AstrayStep ==
    ASSUME TypeOK, Rest, NEW t \in Threads, Astray(t), GoAstray(t)
    PROVE  Rest'
<1>1. Knows(pc[t], loc[t], node, tree, Kept, exists \cup freeIds)
  BY Known DEF Rest
<1>2. pc[t] \notin {"openAlloc", "publish", "loadFail", "remove"}
  BY <1>1, Places DEF Astray, Knows
<1>3. pc[t] \notin {"badPage", "freeBlock"}
  <2> SUFFICES ASSUME pc[t] \in {"badPage", "freeBlock"} PROVE FALSE
    OBVIOUS
  <2>1. loc[t].node \in Kept /\ node[loc[t].node].block = loc[t].block
    BY OwnKept
  <2>2. Listed(loc[t].block)
    BY <1>2 DEF Astray
  <2> QED
    BY <2>1, <2>2 DEF Rest, BlocksInOnePlace, Accounted, Listed
<1>4. pc[t] = "mdelete"
  BY <1>2, <1>3 DEF Astray
<1>5. Moves(t, "astray", loc[t])
  BY MovesOnly DEF GoAstray
<1> QED
  BY <1>4, <1>5, EaseStep DEF GoAstray, AtEase

LEMMA RestStep ==
    ASSUME PoolAssumption, TypeOK, Rest, Next, ~mistaken'
    PROVE  Rest'
<1>0. PoolAssumption /\ TypeOK /\ Rest /\ ~mistaken'
  OBVIOUS
<1>1. ASSUME NEW t \in Threads, NEW p \in Pages, OpenMiss(t, p) PROVE Rest'
  BY <1>0, <1>1, OpenMissStep
<1>2. ASSUME NEW t \in Threads, NEW p \in Pages, OpenHit(t, p) PROVE Rest'
  <2>1. PICK n \in Nodes : loc' = [loc EXCEPT ![t] = [NoLocals EXCEPT !.page = p, !.node = n]]
    BY <1>0, <1>2 DEF OpenHit, Found, TypeOK
  <2>2. PICK l : l = [NoLocals EXCEPT !.page = p, !.node = n]
    OBVIOUS
  <2>3. Moves(t, "wait", l)
    BY <1>0, <1>2, <2>1, <2>2, MovesBy DEF OpenHit
  <2>4. /\ UNCHANGED <<node, tree, exists, freeIds, empty, used_blocks, content>>
        /\ pc[t] \in AtEase /\ "wait" \in AtEase
    BY <1>2 DEF OpenHit, AtEase
  <2> QED
    BY <1>0, <2>3, <2>4, EaseStep
<1>3. ASSUME NEW t \in Threads, OpenWaited(t) PROVE Rest'
  <2>1. PICK l : l = [loc[t] EXCEPT !.block = node[loc[t].node].block]
    OBVIOUS
  <2>2. loc' = [loc EXCEPT ![t] = l]
    BY <1>0, <1>3, <2>1 DEF OpenWaited, TypeOK
  <2>3. Moves(t, "opened", l)
    BY <1>0, <1>3, <2>2, MovesBy DEF OpenWaited
  <2>4. /\ UNCHANGED <<node, tree, exists, freeIds, empty, used_blocks, content>>
        /\ pc[t] \in AtEase /\ "opened" \in AtEase
    BY <1>3 DEF OpenWaited, AtEase
  <2> QED
    BY <1>0, <2>3, <2>4, EaseStep
<1>4. ASSUME NEW t \in Threads, OpenAllocate(t) \/ CreateAllocate(t) PROVE Rest'
  <2>1. UNCHANGED <<content, node, tree, freeIds, exists, mistaken>>
    BY <1>4 DEF OpenAllocate, CreateAllocate
  <2>2. CASE NextSubPool(t)
    BY <1>0, <1>4, <2>1, <2>2, NextPoolStep DEF OpenAllocate, CreateAllocate
  <2>3. CASE pc[t] = "openAlloc" /\ TakeBlock(t, "publish")
    BY <1>0, <2>1, <2>3, TakeStep
  <2>4. CASE pc[t] = "createAlloc" /\ TakeBlock(t, "createId")
    BY <1>0, <2>1, <2>4, TakeStep
  <2> QED
    BY <1>4, <2>2, <2>3, <2>4 DEF OpenAllocate, CreateAllocate
<1>5. ASSUME NEW t \in Threads, OpenPoolFull(t) \/ OpenLoadFailRemove(t) \/ MDeleteRemove(t)
      PROVE  Rest'
  <2>1. /\ RemoveNode(t) /\ Return(t) /\ pc[t] \in {"openAlloc", "loadFail", "remove"}
        /\ UNCHANGED <<empty, used_blocks, content, freeIds, exists, mistaken>>
    BY <1>5 DEF OpenPoolFull, OpenLoadFailRemove, MDeleteRemove
  <2> QED
    BY <1>0, <2>1, RemoveStep
<1>6. ASSUME NEW t \in Threads, OpenPublish(t) PROVE Rest'
  BY <1>0, <1>6, PublishStep
<1>7. ASSUME NEW t \in Threads, BringIn(t) PROVE Rest'
  BY <1>0, <1>7, BringInStep
<1>8. ASSUME NEW t \in Threads, OpenLoadFail(t) \/ MDeleteFreeBlock(t) PROVE Rest'
  <2>1. FreeBlock(loc[t].block) /\ UNCHANGED <<content, node, tree, freeIds, exists, loc, mistaken>>
    BY <1>8 DEF OpenLoadFail, MDeleteFreeBlock
  <2>2. \/ pc[t] = "badPage" /\ Goto(t, "loadFail")
        \/ pc[t] = "freeBlock" /\ Goto(t, "zero")
    BY <1>8 DEF OpenLoadFail, MDeleteFreeBlock
  <2>3. CASE pc[t] = "badPage" /\ Goto(t, "loadFail")
    BY <1>0, <2>1, <2>3, FreeStep
  <2>4. CASE pc[t] = "freeBlock" /\ Goto(t, "zero")
    BY <1>0, <2>1, <2>4, FreeStep
  <2> QED
    BY <2>2, <2>3, <2>4
<1>9. ASSUME NEW t \in Threads, Opened(t) \/ CreatePoolFull(t) PROVE Rest'
  <2>1. Moves(t, "idle", NoLocals)
    BY <1>0, <1>9, MovesBack DEF Opened, CreatePoolFull
  <2>2. /\ UNCHANGED <<node, tree, exists, freeIds, empty, used_blocks, content>>
        /\ pc[t] \in AtEase /\ "idle" \in AtEase
    BY <1>9 DEF Opened, CreatePoolFull, AtEase
  <2> QED
    BY <1>0, <2>1, <2>2, EaseStep
<1>10. ASSUME NEW t \in Threads, CreateBegin(t) PROVE Rest'
  <2>1. Moves(t, "createAlloc", loc[t])
    BY <1>0, <1>10, MovesOnly DEF CreateBegin
  <2>2. /\ UNCHANGED <<node, tree, exists, freeIds, empty, used_blocks, content>>
        /\ pc[t] \in AtEase /\ "createAlloc" \in AtEase
    BY <1>10 DEF CreateBegin, AtEase
  <2> QED
    BY <1>0, <2>1, <2>2, EaseStep
<1>11. ASSUME NEW t \in Threads, CreateId(t) PROVE Rest'
  BY <1>0, <1>11, CreateIdStep
<1>12. ASSUME NEW t \in Threads, Create(t) PROVE Rest'
  BY <1>0, <1>12, CreateStep
<1>13. ASSUME NEW t \in Threads, NEW p \in Pages,
              DDelete(t, p) \/ DDeleteOnDisk(t, p) \/ \E b \in Blocks : MDelete(t, p, b)
       PROVE  Rest'
  BY <1>0, <1>13, DeleteStep
<1>14. ASSUME NEW t \in Threads, DDeleteFreeId(t) PROVE Rest'
  BY <1>0, <1>14, DDeleteFreeIdStep
<1>15. ASSUME NEW t \in Threads, MDeleteDestroy(t) PROVE Rest'
  BY <1>0, <1>15, MDeleteDestroyStep
<1>16. ASSUME NEW t \in Threads, MDeleteZero(t) PROVE Rest'
  BY <1>0, <1>16, ZeroStep
<1>17. ASSUME NEW t \in Threads, MDeleteFreeId(t) PROVE Rest'
  BY <1>0, <1>17, MDeleteFreeIdStep
<1>18. ASSUME NEW t \in Threads, Astray(t), GoAstray(t) PROVE Rest'
  BY <1>0, <1>18, AstrayStep
<1> QED
  BY <1>1, <1>2, <1>3, <1>4, <1>5, <1>6, <1>7, <1>8, <1>9, <1>10, <1>11, <1>12, <1>13,
     <1>14, <1>15, <1>16, <1>17, <1>18 DEF Next, Begin, Step, Go

LEMMA InvStep == PoolAssumption /\ Inv /\ [Next]_vars => Inv'
<1> SUFFICES ASSUME PoolAssumption, Inv, [Next]_vars PROVE Inv'
  OBVIOUS
<1>0. TypeInv /\ TypeOK /\ (~mistaken => Rest)
  BY DEF Inv, TypeInv
<1>1. CASE Next
  <2>1. TypeOK' /\ AllHeld' /\ ListsRight'
    BY <1>0, <1>1, TypeStep, HeldStep, ListsStep
  <2>2. ASSUME ~mistaken' PROVE Rest'
    BY <1>0, <1>1, <2>2, MistakenStays, RestStep
  <2> QED
    BY <2>1, <2>2 DEF TypeInv, Inv
<1>2. CASE UNCHANGED vars
  <2>1. /\ UNCHANGED <<empty, used_blocks, content, node, tree>>
        /\ UNCHANGED <<freeIds, exists, pc, loc, mistaken>>
    BY <1>2 DEF vars
  <2>2. Kept' = Kept /\ Leaving' = Leaving /\ Takers' = Takers
    BY <2>1 DEF Kept, Leaving, Takers
  <2>3. TypeInv'
    <3>1. TypeOK'
      BY <1>0, <2>1 DEF TypeOK
    <3>2. AllHeld' /\ ListsRight'
      BY <1>0, <2>1 DEF TypeInv, AllHeld, ListsRight
    <3> QED
      BY <3>1, <3>2 DEF TypeInv
  <2>4. ASSUME Rest PROVE Rest'
    <3>1. ThreadsKnow' /\ Apart'
      BY <2>1, <2>2, <2>4 DEF Rest, ThreadsKnow, Apart
    <3>2. NodesRight' /\ BlocksInOnePlace' /\ ContentRight'
      BY <2>1, <2>2, <2>4 DEF Rest, NodesRight, BlocksInOnePlace, ContentRight
    <3> QED
      BY <3>1, <3>2 DEF Rest
  <2> QED
    BY <1>0, <2>1, <2>3, <2>4 DEF Inv
<1> QED
  BY <1>1, <1>2

LEMMA InvHolds == Spec => []Inv
<1>1. Init => Inv
  BY PoolAssumption, PoolInit
<1>2. Inv /\ [Next]_vars => Inv'
  BY PoolAssumption, InvStep
<1> QED
  BY <1>1, <1>2, PTL DEF Spec

\* Nobody deletes a live page, and its block is not given back.
LEMMA LiveKept ==
    ASSUME Rest
    PROVE  Live \subseteq Kept \ Leaving
<1> SUFFICES ASSUME NEW n \in Live PROVE n \in Kept \ Leaving
  OBVIOUS
<1>1. n \in tree /\ node[n].state = "FINISH"
  BY DEF Live
<1>2. ASSUME NEW t \in Threads, pc[t] \in GaveBack PROVE loc[t].node # n
  <2>1. CASE pc[t] = "loadFail"
    BY <2>1 DEF Live
  <2>2. CASE pc[t] \in Deleting
    <3>1. Knows(pc[t], loc[t], node, tree, Kept, exists \cup freeIds)
      BY Known DEF Rest
    <3>2. node[loc[t].node].state = "DESTROY"
      BY <2>2, <3>1, Places DEF Knows
    <3> QED
      BY <1>1, <3>2
  <2> QED
    BY <1>2, <2>1, <2>2, Places
<1> QED
  BY <1>1, <1>2, Places DEF Kept, Leaving

\* Every variable has its type, after a mistake too: no counter and no list grows
\* beyond its sub pool, and a page is written to a block, an id given back, only
\* where there is one.
THEOREM TypeCorrect == Spec => []TypeOK
<1>1. Inv => TypeOK
  BY DEF Inv, TypeInv
<1> QED
  BY <1>1, InvHolds, PTL

\* No two pages in the pool are one page, or in one block, however the opens,
\* creations and deletions of any number of threads overlap, also where a page
\* has the id of one whose node another thread is about to remove; until a
\* deletion mistakes that node for the one of its page.
THEOREM PagesApart == Spec => []LivePagesDistinct
<1>1. ASSUME Inv PROVE LivePagesDistinct
  <2> SUFFICES ASSUME Rest PROVE \A m, n \in Live :
                 m # n => node[m].pid # node[n].pid /\ node[m].block # node[n].block
    BY <1>1 DEF Inv, LivePagesDistinct
  <2>1. Live \subseteq Kept \ Leaving
    BY LiveKept
  <2>2. Kept \subseteq tree
    BY DEF Kept
  <2> QED
    BY <2>1, <2>2 DEF Rest, NodesRight, BlocksInOnePlace, Accounted
<1> QED
  BY <1>1, InvHolds, PTL

\* used_blocks always counts the blocks that are not empty, and no list names one
\* twice, whatever a mistake led to; until the first mistake no empty block is a
\* page's or in a thread's hands either.
THEOREM EveryBlockAccounted == Spec => []BlocksAccountedFor
<1>1. ASSUME Inv PROVE BlocksAccountedFor
  <2>1. ASSUME NEW i \in SubPools
        PROVE  /\ used_blocks[i] + Len(empty[i]) = Len(BlocksOf[i])
               /\ \A k, l \in 1..Len(empty[i]) : empty[i][k] = empty[i][l] => k = l
    BY <1>1 DEF Inv, TypeInv, ListsRight, ListsOf
  <2>2. ASSUME Rest, NEW i \in SubPools, NEW k \in 1..Len(empty[i])
        PROVE  \A n \in Live : node[n].block # empty[i][k]
    BY <2>2, LiveKept DEF Rest, BlocksInOnePlace, Accounted
  <2>3. ASSUME Rest, NEW i \in SubPools, NEW k \in 1..Len(empty[i]), NEW t \in Threads
        PROVE  empty[i][k] \notin InHand(t)
    <3>0. Accounted(empty, used_blocks, Kept, node, Takers, loc)
      BY <2>3 DEF Rest, BlocksInOnePlace
    <3>1. CASE pc[t] \in {"publish", "createId"}
      <4>1. t \in Takers
        BY <3>1, Places DEF Takers
      <4> QED
        BY <3>0, <3>1, <4>1 DEF Accounted, InHand
    <3>2. CASE pc[t] = "freeBlock"
      <4>1. loc[t].node \in Kept /\ node[loc[t].node].block = loc[t].block
        BY <2>3, <3>2, OwnKept
      <4> QED
        BY <3>0, <3>2, <4>1 DEF Accounted, InHand
    <3>3. CASE pc[t] = "mdelete"
      <4>1. Knows(pc[t], loc[t], node, tree, Kept, exists \cup freeIds)
        BY <2>3, Known DEF Rest
      <4>2. \E n \in Kept : node[n].block = loc[t].block
        BY <3>3, <4>1 DEF Knows
      <4> QED
        BY <3>0, <3>3, <4>2 DEF Accounted, InHand
    <3>4. CASE pc[t] \notin {"publish", "createId", "mdelete", "freeBlock"}
      BY <3>4 DEF InHand
    <3> QED
      BY <3>1, <3>2, <3>3, <3>4
  <2> QED
    BY <1>1, <2>1, <2>2, <2>3 DEF Inv, BlocksAccountedFor
<1> QED
  BY <1>1, InvHolds, PTL
=============================================================================
