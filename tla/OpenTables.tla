------------------------------ MODULE OpenTables ------------------------------
(***************************************************************************)
(* The hash of open tables (src/common/hash_table.c), and the operations   *)
(* that open, create and delete tables (src/interface/interface.c), each   *)
(* performed by a worker.  The page directory is a set here: PageDir has   *)
(* its pages.                                                              *)
(*                                                                         *)
(* A bucket has a mutex, so that a walk along it is one step.  The head of *)
(* the bucket is read before, and a node is freed after, the mutex is      *)
(* held: these are steps of their own.  The model has one bucket, in which *)
(* all names fall: other buckets have nothing to do with it.               *)
(***************************************************************************)
EXTENDS Integers, Sequences, SequencesExt, FiniteSets

CONSTANTS
    Worker,
    Name,
    Stored,         \* the tables that are there when the server starts, each with its id
    Bare,           \* bound: the names under which there are no tables but general ones
                    \* without attributes (db_1_tcreate takes an empty list of them)
    MaxTables,      \* bound: ids of tables, which are not used again
    MaxNodes,       \* bound: nodes of the hash, which are not used again
    NULL,
    Garbage         \* what a pointer is that was never written

VARIABLES
    dir,        \* the page directory: a set of <<name, id>>
    made,       \* how many tables there have been
    node,       \* the nodes of the hash, in the order in which they were allocated
    freed,      \* those that were freed
    head,       \* hash_table[bucket_index]
    tmp,        \* table id -> the insert-search-delete lock of its block, or 0
    inside,     \* lock -> its count of insertions and searches
    op,         \* worker -> the operation it performs
    crossed,    \* history: the tables that one operation was opening while another
                \* changed what is known of them, and those whose node was behind
                \* one that had been taken out when djb2_pop was to take it out
    asTable,    \* history: the names that the hash got from operations on general tables
    broken      \* the model ends where the code does one of these:
                \* "garbage":   follow a pointer that was never written
                \* "freed":     read a node that was freed
                \* "wild":      write through prev before it is set
                \* "no lock":   require the lock of a block that has none
                \* "no table":  use a table that could not be opened
                \* "astray":    go on, in db_1_tdelete, with what is in a page that was
                \*              deleted: the system's pages go, the directory's included

tableVars == <<dir, made, node, freed, head, tmp, inside, op, crossed, asTable, broken>>

Tables == 1..MaxTables
Nodes == 1..MaxNodes

NoOp == [pc |-> "none", do |-> "none", name |-> NULL, cur |-> NULL, tid |-> 0, lock |-> 0]

Creates == {"tcreate", "icreate"}
OfIndex == {"icreate", "iinsert", "isearch"}

TablesTypeOK ==
    /\ dir \subseteq Name \X Tables
    /\ node \in Seq([name : Name, tid : Tables, next : Nodes \cup {NULL, Garbage}])
    /\ freed \subseteq 1..Len(node)
    /\ head \in (1..Len(node)) \cup {NULL, Garbage}
    /\ tmp \in [Tables -> 0..Len(inside)]
    /\ \A w \in Worker : op[w].pc \in {"none", "head", "walk", "lookup", "push", "makelock", "acquire",
                                       "inside", "use", "insert", "remove", "drop", "stray", "free", "over"}

TablesInit ==
    /\ dir = Stored
    /\ made = Cardinality(Stored)
    /\ node = <<>> /\ freed = {} /\ head = NULL
    /\ tmp = [i \in Tables |-> 0]
    /\ inside = <<>>
    /\ op = [w \in Worker |-> NoOp]
    /\ crossed = {} /\ asTable = {}
    /\ broken = "none"

-----------------------------------------------------------------------------
(* The hash *)

\* The nodes from p on: the least set that has p and, with a node, its next.
Follow(S) == \A q \in S : node[q].next \in Nodes => node[q].next \in S
Reach(p) ==
    IF p \notin 1..Len(node) THEN {}
    ELSE {q \in 1..Len(node) : \A S \in SUBSET (1..Len(node)) : p \in S /\ Follow(S) => q \in S}

\* Those with the name, and those that a walk from p reads: none after the first
\* with the name.
Named(S, n) == {q \in S : node[q].name = n}
Seen(p, n) == {q \in Reach(p) : Named(Reach(p), n) \subseteq Reach(q)}
First(p, n) == Named(Seen(p, n), n)

\* What goes wrong on a walk from p to name n.
WalkFault(p, n) ==
    CASE p = Garbage -> "garbage"
      [] Seen(p, n) \cap freed # {} -> "freed"
      [] First(p, n) = {} /\ (\E q \in Reach(p) : node[q].next = Garbage) -> "garbage"
      [] OTHER -> "none"

TAt(w, pc) == broken = "none" /\ op[w].pc = pc
Goto(w, pc) == op' = [op EXCEPT ![w].pc = pc]

\* Worker u is on the way to table n.
Opening(u, n) == op[u].name = n /\ op[u].pc \notin {"none", "acquire", "inside", "use", "over"}

\* Worker w changes what is known of its table.
Touch(w) == crossed' = crossed \cup {n \in {op[w].name} : \E u \in Worker \ {w} : Opening(u, n)}

\* djb2_search and djb2_pop read the head of the bucket, and then take the mutex.
ReadHead(w) ==
    /\ TAt(w, "head")
    /\ op' = [op EXCEPT ![w].pc = "walk", ![w].cur = head]
    /\ UNCHANGED <<dir, made, node, freed, head, tmp, inside, crossed, asTable, broken>>

Breaks(fault) ==
    /\ broken' = fault
    /\ UNCHANGED <<dir, made, node, freed, head, tmp, inside, op, crossed, asTable>>

WalkFails(w) ==
    /\ TAt(w, "walk")
    /\ WalkFault(op[w].cur, op[w].name) # "none"
    /\ Breaks(WalkFault(op[w].cur, op[w].name))

\* A table that was removed from the directory is looked for to get at its
\* pages, and popped when they are gone: its tid is 0 from then on.
Popping(w) == op[w].do = "tdelete" /\ op[w].tid = 0

\* What the hash has for the table that w deletes is no other's, of that name,
\* that was deleted before.
IsOwn(w) == \A q \in First(op[w].cur, op[w].name) : node[q].tid = op[w].tid

\* djb2_search: the table is there, or has to be looked up.
djb2_search(w) ==
    /\ TAt(w, "walk") /\ ~Popping(w)
    /\ WalkFault(op[w].cur, op[w].name) = "none"
    /\ \/ op[w].do = "tdelete" /\ Goto(w, IF IsOwn(w) THEN "drop" ELSE "stray")
       \/ op[w].do # "tdelete" /\ First(op[w].cur, op[w].name) = {} /\ Goto(w, "lookup")
       \/ /\ op[w].do # "tdelete"
          /\ \E q \in First(op[w].cur, op[w].name) :
                op' = [op EXCEPT ![w].pc = IF op[w].do \in OfIndex THEN "acquire" ELSE "use",
                                 ![w].tid = node[q].tid]
    /\ UNCHANGED <<dir, made, node, freed, head, tmp, inside, crossed, asTable, broken>>

\* djb2_push puts a node in front, unless the name is there already.  The first
\* node's next is not written.
djb2_push(w, next) ==
    /\ TAt(w, "push") /\ head # Garbage /\ head \notin freed
    /\ Len(node) < MaxNodes
    /\ next \in (IF head = NULL THEN {NULL, Garbage} ELSE {head})
    /\ IF head # NULL /\ node[head].name = op[w].name THEN UNCHANGED <<node, head>>
       ELSE /\ node' = Append(node, [name |-> op[w].name, tid |-> op[w].tid, next |-> next])
            /\ head' = Len(node')
    /\ Goto(w, IF op[w].do \in OfIndex THEN "makelock" ELSE IF op[w].do = "tcreate" THEN "over" ELSE "use")
    /\ asTable' = IF op[w].do \in OfIndex THEN asTable ELSE asTable \cup {op[w].name}
    /\ Touch(w)
    /\ UNCHANGED <<dir, made, freed, tmp, inside, broken>>

PushFails(w) ==
    /\ TAt(w, "push")
    /\ \/ head = Garbage /\ Breaks("garbage")
       \/ head \in freed /\ Breaks("freed")

\* Mutant: the node is found, and stays.
PopNothing(w) ==
    /\ TAt(w, "walk") /\ Popping(w)
    /\ WalkFault(op[w].cur, op[w].name) = "none"
    /\ Goto(w, "over")
    /\ Touch(w)
    /\ UNCHANGED <<dir, made, node, freed, head, tmp, inside, asTable, broken>>

\* djb2_pop takes the first node with the name out of the bucket; but it stays
\* there when the node before it has been taken out meanwhile.
djb2_pop(w) ==
    /\ TAt(w, "walk") /\ Popping(w)
    /\ WalkFault(op[w].cur, op[w].name) = "none"
    /\ \/ /\ First(op[w].cur, op[w].name) = {}
          /\ Goto(w, "over")
          /\ Touch(w)
          /\ UNCHANGED <<node, head>>
       \/ \E q \in First(op[w].cur, op[w].name) :
          /\ q = head
          /\ head' = node[q].next
          /\ op' = [op EXCEPT ![w].pc = "free", ![w].cur = q]
          /\ Touch(w)
          /\ UNCHANGED node
       \/ \E q \in First(op[w].cur, op[w].name), prev \in Reach(op[w].cur) :
          /\ q # head /\ node[prev].next = q
          /\ node' = [node EXCEPT ![prev].next = node[q].next]
          /\ op' = [op EXCEPT ![w].pc = "free", ![w].cur = q]
          /\ IF prev \in Reach(head) THEN Touch(w) ELSE crossed' = crossed \cup {op[w].name}
          /\ UNCHANGED head
    /\ UNCHANGED <<dir, made, freed, tmp, inside, asTable, broken>>

\* The node was the head when that was read, and another is in front now.
PopFails(w) ==
    /\ TAt(w, "walk") /\ Popping(w)
    /\ WalkFault(op[w].cur, op[w].name) = "none"
    /\ op[w].cur \in First(op[w].cur, op[w].name) /\ head # op[w].cur
    /\ Breaks("wild")

Free(w) ==
    /\ TAt(w, "free")
    /\ freed' = freed \cup {op[w].cur}
    /\ Goto(w, "over")
    /\ UNCHANGED <<dir, made, node, head, tmp, inside, crossed, asTable, broken>>

-----------------------------------------------------------------------------
(* The operations *)

\* Creations search the directory, a deletion takes the table out of it, and
\* the others call db_1_topen.
TableOp(w, do, n) ==
    /\ TAt(w, "none")
    /\ op' = [op EXCEPT ![w] = [NoOp EXCEPT !.do = do, !.name = n,
                                  !.pc = CASE do = "tdelete" -> "remove"
                                           [] do \in Creates -> IF \E e \in dir : e[1] = n THEN "over" ELSE "insert"
                                           [] OTHER -> "head"]]
    /\ UNCHANGED <<dir, made, node, freed, head, tmp, inside, crossed, asTable, broken>>

\* search_table_from_pdir and mp_page_open.
Lookup(w) ==
    /\ TAt(w, "lookup")
    /\ \E e \in dir : e[1] = op[w].name /\ op' = [op EXCEPT ![w].pc = "push", ![w].tid = e[2]]
    /\ UNCHANGED <<dir, made, node, freed, head, tmp, inside, crossed, asTable, broken>>

\* There is no such table.  Only isearch looks at what db_1_topen returns.
Unknown(w) ==
    /\ TAt(w, "lookup")
    /\ \A e \in dir : e[1] # op[w].name
    /\ IF op[w].do = "isearch" THEN Goto(w, "over") /\ UNCHANGED broken
       ELSE broken' = "no table" /\ UNCHANGED op
    /\ UNCHANGED <<dir, made, node, freed, head, tmp, inside, crossed, asTable>>

\* A new lock for the block.
MakeLock(w) ==
    /\ TAt(w, "makelock")
    /\ inside' = Append(inside, 0)
    /\ tmp' = [tmp EXCEPT ![op[w].tid] = Len(inside')]
    /\ Goto(w, IF op[w].do = "icreate" THEN "over" ELSE "acquire")
    /\ Touch(w)
    /\ UNCHANGED <<dir, made, node, freed, head, asTable, broken>>

\* isd_is_require, with the lock that the block has now.
Acquire(w) ==
    /\ TAt(w, "acquire")
    /\ LET l == tmp[op[w].tid]
       IN IF l = 0 THEN broken' = "no lock" /\ UNCHANGED <<inside, op>>
          ELSE /\ inside' = [inside EXCEPT ![l] = @ + 1]
               /\ op' = [op EXCEPT ![w].pc = "inside", ![w].lock = l]
               /\ UNCHANGED broken
    /\ UNCHANGED <<dir, made, node, freed, head, tmp, crossed, asTable>>

\* isd_is_release, with the lock that the block has by then.
Leave(w) ==
    /\ TAt(w, "inside")
    /\ inside' = [inside EXCEPT ![tmp[op[w].tid]] = @ - 1]
    /\ Goto(w, "over")
    /\ UNCHANGED <<dir, made, node, freed, head, tmp, crossed, asTable, broken>>

Use(w) ==
    /\ TAt(w, "use")
    /\ Goto(w, "over")
    /\ UNCHANGED <<dir, made, node, freed, head, tmp, inside, crossed, asTable, broken>>

\* db_create_table and db_1_icreate: a table page, and then its entry in the
\* directory.
InsertTable(w) ==
    /\ TAt(w, "insert")
    /\ made < MaxTables
    /\ made' = made + 1
    /\ dir' = dir \cup {<<op[w].name, made'>>}
    /\ op' = [op EXCEPT ![w].pc = "push", ![w].tid = made']
    /\ Touch(w)
    /\ UNCHANGED <<node, freed, head, tmp, inside, asTable, broken>>

\* remove_table_from_pdir
RemoveTable(w) ==
    /\ TAt(w, "remove")
    /\ IF \E e \in dir : e[1] = op[w].name
       THEN \E e \in dir : /\ e[1] = op[w].name
                           /\ dir' = dir \ {e}
                           /\ op' = [op EXCEPT ![w].pc = "head", ![w].tid = e[2]]
       ELSE Goto(w, "over") /\ UNCHANGED dir
    /\ Touch(w)
    /\ UNCHANGED <<made, node, freed, head, tmp, inside, asTable, broken>>

\* Another worker makes pages.
MakesPages(u) == op[u].do \in {"tcreate", "icreate", "tinsert"} /\ op[u].pc \in {"insert", "push", "use"}

\* The pages of the table are given back.  The next page of an attribute page is
\* read when that has been deleted: the loop ends there if another worker has
\* made a page of its own in the block by then.
Drop(w) ==
    /\ TAt(w, "drop")
    /\ op[w].name \in Bare \/ \E u \in Worker \ {w} : MakesPages(u)
    /\ op' = [op EXCEPT ![w].pc = "head", ![w].tid = 0]
    /\ UNCHANGED <<dir, made, node, freed, head, tmp, inside, crossed, asTable, broken>>

\* Otherwise it goes on with page 0, which the zeroed page has as its next; and
\* page 0 is the one that goes if the table's own page is a zeroed one.
DropAstray(w) ==
    /\ TAt(w, "stray") \/ (TAt(w, "drop") /\ op[w].name \notin Bare)
    /\ Breaks("astray")

TableOpEnds(w) ==
    /\ TAt(w, "over")
    /\ op' = [op EXCEPT ![w] = NoOp]
    /\ UNCHANGED <<dir, made, node, freed, head, tmp, inside, crossed, asTable, broken>>

TableStep(w) ==
    \/ ReadHead(w) \/ WalkFails(w) \/ djb2_search(w)
    \/ \E next \in Nodes \cup {NULL, Garbage} : djb2_push(w, next)
    \/ PushFails(w) \/ djb2_pop(w) \/ PopFails(w) \/ Free(w)
    \/ Lookup(w) \/ Unknown(w) \/ MakeLock(w) \/ Acquire(w) \/ Leave(w) \/ Use(w)
    \/ InsertTable(w) \/ RemoveTable(w) \/ Drop(w) \/ DropAstray(w)

-----------------------------------------------------------------------------
\* What the hash has for table n.
Open(n) == Named(Reach(head), n)

BeingDeleted(n) == \E w \in Worker : op[w].do = "tdelete" /\ op[w].name = n /\ op[w].pc \notin {"remove", "over"}

\* The hash has a table once, as the directory has it, whatever operations on
\* other tables have done to the bucket meanwhile; unless a table was changed
\* while another operation was on the way to it, or djb2_pop found its node
\* behind one that was no longer in the bucket.
CacheMatchesDirectory ==
    broken = "none" =>
        \A n \in Name \ crossed :
            /\ ~BeingDeleted(n) => \A p \in Open(n) : <<n, node[p].tid>> \in dir
            /\ Cardinality(Open(n)) <= 1
            /\ Cardinality({e \in dir : e[1] = n}) <= 1

\* Everybody inside an index has come in through the one lock that its block
\* has, and the lock's count is theirs; and an index has a lock when it is
\* wanted, unless another operation was making the index known meanwhile.
LocksBalance ==
    /\ broken = "none" =>
         \A w \in Worker : op[w].pc = "inside" /\ op[w].name \notin crossed =>
             /\ op[w].lock = tmp[op[w].tid]
             /\ inside[op[w].lock] = Cardinality({u \in Worker : op[u].pc = "inside" /\ op[u].lock = op[w].lock})
    /\ broken = "no lock" => \E w \in Worker :
         /\ op[w].pc = "acquire" /\ tmp[op[w].tid] = 0
         /\ \/ op[w].name \in crossed \cup asTable
            \/ \E u \in Worker : op[u].pc = "makelock" /\ op[u].name = op[w].name
=============================================================================
