------------------------------- MODULE PageDir -------------------------------
(***************************************************************************)
(* The page directory (src/interface/interface.c, lines 24-123): a chain   *)
(* of pages, linked by next_page_id, with an entry for each table.  Many   *)
(* threads insert, search and remove entries.  A page has a lock, and a    *)
(* step here is a section under the lock of one page; page_dir_tail and,   *)
(* between two pages of a search, next_page_id are read without it.        *)
(*                                                                         *)
(* A page is taken at what RecordMap promises: a new entry goes into some  *)
(* free slot.  __strcmp compares as many characters as the name sought     *)
(* has, so a name matches every table it is a prefix of.                   *)
(***************************************************************************)
EXTENDS Integers, FiniteSets

CONSTANTS
    Threads,
    Names,          \* the names threads ask for
    Created,        \* the ones they create tables with
    Other,          \* tables of earlier sessions, which nobody touches
    PrefixOf,       \* pairs <<a, b>>: name a is a proper prefix of name b
    Capacity,       \* entries in a page: 119
    MaxPages,       \* bound: the pages the directory may have
    PAGEIDNULL, NULL

ASSUME DirAssumption ==
    /\ Capacity \in Nat /\ Capacity >= 2
    /\ MaxPages \in Nat \ {0}
    /\ Created \subseteq Names
    /\ PrefixOf \subseteq Names \X Names
    /\ Other \notin Names /\ NULL \notin Names \cup {Other}
    /\ PAGEIDNULL \notin 1..MaxPages

\* The slots of a page a search looks at: 0..TABLEATTRSLIMIT-1, all but one.
TABLEATTRSLIMIT == Capacity - 1
Slots == 0..(Capacity - 1)
Scanned == 0..(TABLEATTRSLIMIT - 1)

VARIABLES
    entry,          \* page -> slot -> the table with an entry there, or NULL
    next_page_id,   \* page -> the next page
    page_dir_tail,
    pages,          \* the pages of the directory created so far are 1..pages
    pc, loc,        \* thread -> where it is, and its [name, goal, page]
    steady,         \* history: searching thread -> the entries that match and
                    \* have been there since the search began
    overtaken       \* history: the tail moved on, and its page filled, after
                    \* an insertion had made sure of it for the second time

vars == <<entry, next_page_id, page_dir_tail, pages, pc, loc, steady, overtaken>>

Page == 1..MaxPages
Seated(p) == {i \in Slots : entry[p][i] # NULL}

TypeOK ==
    /\ entry \in [Page -> [Slots -> Names \cup {Other, NULL}]]
    /\ next_page_id \in [Page -> Page \cup {PAGEIDNULL}]
    /\ pages \in Page /\ page_dir_tail \in 1..pages
    /\ pc \in [Threads -> {"idle", "insert", "lock", "lockAgain", "search", "next",
                           "delete", "notFound", "endless"}]
    /\ loc \in [Threads -> [name : Names \cup {NULL}, page : Page \cup {PAGEIDNULL},
                            goal : {"search", "create", "remove", "insert"}]]
    /\ steady \in [Threads -> SUBSET (Page \X Slots)]
    /\ overtaken \in BOOLEAN

Idle == [name |-> NULL, page |-> PAGEIDNULL, goal |-> "search"]

\* init_db_info, and the tables of earlier sessions in the first page.
Init ==
    /\ \E n \in Slots :
        entry = [p \in Page |-> [i \in Slots |-> IF p = 1 /\ i <= n THEN Other ELSE NULL]]
    /\ next_page_id = [p \in Page |-> PAGEIDNULL]
    /\ page_dir_tail = 1 /\ pages = 1
    /\ pc = [t \in Threads |-> "idle"]
    /\ loc = [t \in Threads |-> Idle]
    /\ steady = [t \in Threads |-> {}]
    /\ overtaken = FALSE

Goto(t, label) == pc' = [pc EXCEPT ![t] = label]
Return(t) ==
    /\ Goto(t, "idle")
    /\ loc' = [loc EXCEPT ![t] = Idle]
    /\ steady' = [steady EXCEPT ![t] = {}]

\* __strcmp(name, table)
Matches(name, table) == name = table \/ <<name, table>> \in PrefixOf

-----------------------------------------------------------------------------
(* insert_table_in_pdir *)

InsertBegin(t, n) ==
    /\ pc[t] = "idle"
    /\ Goto(t, "insert")
    /\ loc' = [loc EXCEPT ![t] = [name |-> n, page |-> PAGEIDNULL, goal |-> "insert"]]
    /\ UNCHANGED <<entry, next_page_id, page_dir_tail, pages, steady, overtaken>>

\* The tail page is opened; page_dir_tail is read without its lock.
InsertOpen(t) ==
    /\ pc[t] = "insert"
    /\ Goto(t, "lock")
    /\ loc' = [loc EXCEPT ![t].page = page_dir_tail]
    /\ UNCHANGED <<entry, next_page_id, page_dir_tail, pages, steady, overtaken>>

\* p_entry_insert, and a new tail when the page is full.
InsertInto(p, n) ==
    \/ \E i \in Slots \ Seated(p) :
        /\ entry' = [entry EXCEPT ![p][i] = n]
        /\ UNCHANGED <<next_page_id, page_dir_tail, pages>>
    \/ /\ Seated(p) = Slots
       /\ pages < MaxPages                                      \* bound
       /\ pages' = pages + 1
       /\ entry' = [entry EXCEPT ![pages'][0] = n]
       /\ next_page_id' = [next_page_id EXCEPT ![p] = pages']
       /\ page_dir_tail' = pages'

\* Mutant: the tail is not compared again under the lock.
InsertUnchecked(t) ==
    /\ pc[t] = "lock"
    /\ InsertInto(loc[t].page, loc[t].name)
    /\ Return(t)
    /\ UNCHANGED overtaken

\* Under the lock the tail is compared again ...
InsertLock(t) ==
    /\ pc[t] = "lock"
    /\ loc[t].page = page_dir_tail
    /\ InsertInto(loc[t].page, loc[t].name)
    /\ Return(t)
    /\ UNCHANGED overtaken

\* ... and opened again when it has moved, and this time nobody checks.
InsertReopen(t) ==
    /\ pc[t] = "lock"
    /\ loc[t].page # page_dir_tail
    /\ loc' = [loc EXCEPT ![t].page = page_dir_tail]
    /\ Goto(t, "lockAgain")
    /\ UNCHANGED <<entry, next_page_id, page_dir_tail, pages, steady, overtaken>>

InsertLockAgain(t) ==
    /\ pc[t] = "lockAgain"
    /\ LET p == loc[t].page IN
        /\ InsertInto(p, loc[t].name)
        /\ overtaken' = (overtaken \/ (p # page_dir_tail /\ Seated(p) = Slots))
    /\ Return(t)

-----------------------------------------------------------------------------
(* search_table_from_pdir *)

Matching(p, n) == {i \in Scanned : entry[p][i] # NULL /\ Matches(n, entry[p][i])}

\* db_1_topen searches, db_1_tcreate inserts if it finds nothing, and
\* remove_table_from_pdir deletes what it finds.
SearchBegin(t, n, goal) ==
    /\ pc[t] = "idle"
    /\ Goto(t, "search")
    /\ loc' = [loc EXCEPT ![t] = [name |-> n, page |-> 1, goal |-> goal]]
    /\ steady' = [steady EXCEPT ![t] = {x \in (1..pages) \X Scanned : x[2] \in Matching(x[1], n)}]
    /\ UNCHANGED <<entry, next_page_id, page_dir_tail, pages, overtaken>>

SearchFound(t) ==
    /\ pc[t] = "search"
    /\ Matching(loc[t].page, loc[t].name) # {}
    /\ \/ loc[t].goal = "remove" /\ Goto(t, "delete") /\ UNCHANGED <<loc, steady>>
       \/ loc[t].goal # "remove" /\ Return(t)
    /\ UNCHANGED <<entry, next_page_id, page_dir_tail, pages, overtaken>>

\* In the last page the loop sees that it has passed every entry.
PassedAll(p) ==
    /\ next_page_id[p] = PAGEIDNULL
    /\ \E i \in Scanned : \A j \in Seated(p) : j < i

\* Mutant: a page that is passed ends the search, the last one or not.
SearchFirstPageOnly(t) ==
    /\ pc[t] = "search"
    /\ Matching(loc[t].page, loc[t].name) = {}
    /\ Goto(t, "notFound")
    /\ UNCHANGED <<entry, next_page_id, page_dir_tail, pages, loc, steady, overtaken>>

SearchNotFound(t) ==
    /\ pc[t] = "search"
    /\ Matching(loc[t].page, loc[t].name) = {}
    /\ PassedAll(loc[t].page)
    /\ Goto(t, "notFound")
    /\ UNCHANGED <<entry, next_page_id, page_dir_tail, pages, loc, steady, overtaken>>

SearchPassed(t) ==
    /\ pc[t] = "search"
    /\ Matching(loc[t].page, loc[t].name) = {}
    /\ ~PassedAll(loc[t].page)
    /\ Goto(t, "next")
    /\ UNCHANGED <<entry, next_page_id, page_dir_tail, pages, loc, steady, overtaken>>

\* next_page_id is read without the lock, and may be PAGEIDNULL: page
\* 0xffffffff is then read again and again.
SearchNext(t) ==
    /\ pc[t] = "next"
    /\ loc' = [loc EXCEPT ![t].page = next_page_id[loc[t].page]]
    /\ Goto(t, IF loc'[t].page = PAGEIDNULL THEN "endless" ELSE "search")
    /\ UNCHANGED <<entry, next_page_id, page_dir_tail, pages, steady, overtaken>>

\* The caller of the search goes on.
NotFound(t) ==
    /\ pc[t] = "notFound"
    /\ \/ loc[t].goal = "create" /\ Goto(t, "insert") /\ UNCHANGED <<loc, steady>>
       \/ loc[t].goal # "create" /\ Return(t)
    /\ UNCHANGED <<entry, next_page_id, page_dir_tail, pages, overtaken>>

-----------------------------------------------------------------------------
(* The second half of remove_table_from_pdir *)

\* Mutant: the loop goes on after a deletion.
DeleteAll(t) ==
    /\ pc[t] = "delete"
    /\ LET p == loc[t].page
           M == Matching(p, loc[t].name)
       IN /\ entry' = [entry EXCEPT ![p] = [i \in Slots |-> IF i \in M THEN NULL ELSE @[i]]]
          /\ Goto(t, "idle")
          /\ loc' = [loc EXCEPT ![t] = Idle]
          /\ steady' = [u \in Threads |-> IF u = t THEN {} ELSE steady[u] \ ({p} \X M)]
    /\ UNCHANGED <<next_page_id, page_dir_tail, pages, overtaken>>

\* Under the write lock the page is searched again for the first match, which
\* another thread may have removed.
Delete(t) ==
    /\ pc[t] = "delete"
    /\ LET p == loc[t].page
           M == Matching(p, loc[t].name)
       IN \/ M = {} /\ UNCHANGED entry /\ Return(t)
          \/ \E i \in M :
              /\ \A j \in M : i <= j
              /\ entry' = [entry EXCEPT ![p][i] = NULL]
              /\ Goto(t, "idle")
              /\ loc' = [loc EXCEPT ![t] = Idle]
              /\ steady' = [u \in Threads |-> IF u = t THEN {} ELSE steady[u] \ {<<p, i>>}]
    /\ UNCHANGED <<next_page_id, page_dir_tail, pages, overtaken>>

-----------------------------------------------------------------------------
Begin(t) ==
    \/ \E n \in Created : InsertBegin(t, n) \/ SearchBegin(t, n, "create")
    \/ \E n \in Names : SearchBegin(t, n, "search") \/ SearchBegin(t, n, "remove")

Step(t) ==
    \/ InsertOpen(t) \/ InsertLock(t) \/ InsertReopen(t) \/ InsertLockAgain(t)
    \/ SearchFound(t) \/ SearchNotFound(t) \/ SearchPassed(t) \/ SearchNext(t)
    \/ NotFound(t) \/ Delete(t)

Next == \E t \in Threads : (~overtaken /\ Begin(t)) \/ Step(t)

Spec == Init /\ [][Next]_vars

-----------------------------------------------------------------------------
\* The pages of the directory are one chain that ends in the tail: concurrent
\* insertions that find the page full do not cut off a page (the reason why the
\* tail is compared again, interface.c:31-40), unless two tails fill up while
\* one insertion is between its checks.
OneChain ==
    overtaken \/ /\ page_dir_tail = pages
                 /\ \A p \in 1..pages :
                     next_page_id[p] = IF p = pages THEN PAGEIDNULL ELSE p + 1

\* Types, and the chain.
WellFormed == TypeOK /\ OneChain

\* A search that reports that there is no such table has not passed one by: a
\* table whose entry was there, in a slot the loop looks at, from the start of
\* the search to its end is found, whatever is inserted and removed meanwhile.
SteadyTablesAreFound ==
    \A t \in Threads : pc[t] = "notFound" => steady[t] = {} \/ overtaken

\* The directory is a Catalog: an insertion adds one entry and loses none, and
\* a removal takes away one entry, or none when another thread was faster.
EntriesOf(n) == {x \in Page \X Slots : entry[x[1]][x[2]] = n}

Tables == INSTANCE Catalog WITH
    Names <- Names \cup {Other},
    tables <- [n \in Names \cup {Other} |-> Cardinality(EntriesOf(n))]

ImplementsCatalog == [][Tables!Next]_entry
=============================================================================
