---------------------------- MODULE PageDirProofs ----------------------------
(***************************************************************************)
(* Theorems about the page directory, for every set of threads and names,  *)
(* every capacity of a page and every number of pages.                     *)
(***************************************************************************)
EXTENDS PageDir, FiniteSetTheorems, TLAPS

\* A thread that is between two steps works for some name, on a page there is.
ThreadsOnPages ==
    \A t \in Threads :
        /\ pc[t] # "idle" => loc[t].name \in Names
        /\ pc[t] \in {"lock", "lockAgain", "search", "next", "delete"} =>
              loc[t].page \in 1..pages

\* A link leads to a page there is, whatever became of the chain.
LinksInside == \A p \in 1..pages : next_page_id[p] \in (1..pages) \cup {PAGEIDNULL}

\* The pages not yet created have no entries and no successors.
Untouched ==
    \A p \in Page : p > pages =>
        /\ next_page_id[p] = PAGEIDNULL
        /\ \A i \in Slots : entry[p][i] = NULL

ChainInv == WellFormed /\ ThreadsOnPages /\ LinksInside /\ Untouched

-----------------------------------------------------------------------------
\* What one insertion does: the new entry goes into a slot that was empty, on
\* the page or on a new tail, and the chain grows at the page only.
LEMMA InsertIntoChain ==
    ASSUME DirAssumption, TypeOK, LinksInside, Untouched,
           NEW p \in 1..pages, NEW n \in Names, InsertInto(p, n)
    PROVE  /\ entry' \in [Page -> [Slots -> Names \cup {Other, NULL}]]
           /\ next_page_id' \in [Page -> Page \cup {PAGEIDNULL}]
           /\ pages' \in Page /\ page_dir_tail' \in 1..pages'
           /\ LinksInside' /\ Untouched'
           /\ 1..pages \subseteq 1..pages'
           /\ p = page_dir_tail \/ Seated(p) # Slots => (OneChain => OneChain' \/ overtaken)
<1> USE DirAssumption DEF TypeOK, Page
<1>1. CASE \E i \in Slots \ Seated(p) :
              /\ entry' = [entry EXCEPT ![p][i] = n]
              /\ UNCHANGED <<next_page_id, page_dir_tail, pages>>
  BY <1>1 DEF LinksInside, Untouched, OneChain
<1>2. CASE /\ Seated(p) = Slots
           /\ pages < MaxPages
           /\ pages' = pages + 1
           /\ entry' = [entry EXCEPT ![pages'][0] = n]
           /\ next_page_id' = [next_page_id EXCEPT ![p] = pages']
           /\ page_dir_tail' = pages'
  <2>1. /\ pages \in 1..MaxPages /\ pages' \in 1..MaxPages /\ p \in 1..MaxPages
        /\ 0 \in Slots
    BY <1>2 DEF Slots
  <2>2. /\ entry' \in [Page -> [Slots -> Names \cup {Other, NULL}]]
        /\ next_page_id' \in [Page -> Page \cup {PAGEIDNULL}]
        /\ page_dir_tail' \in 1..pages'
        /\ 1..pages \subseteq 1..pages'
    BY <1>2, <2>1
  <2>3. ASSUME NEW q \in 1..pages'
        PROVE  next_page_id'[q] = IF q = p THEN pages' ELSE next_page_id[q]
    BY <1>2, <2>1
  <2>4. LinksInside'
    <3> SUFFICES ASSUME NEW q \in 1..pages'
                 PROVE  next_page_id'[q] \in (1..pages') \cup {PAGEIDNULL}
      BY DEF LinksInside
    <3>1. CASE q = pages' /\ q # p
      BY <1>2, <2>1, <2>3, <3>1 DEF Untouched
    <3>2. CASE q # pages'
      BY <1>2, <2>1, <2>3, <3>2 DEF LinksInside
    <3> QED
      BY <2>1, <2>3, <3>1, <3>2
  <2>5. Untouched'
    BY <1>2, <2>1 DEF Untouched
  <2>6. ASSUME p = page_dir_tail, OneChain, ~overtaken PROVE OneChain'
    <3>1. pages' = page_dir_tail' /\ p = pages
      BY <1>2, <2>6 DEF OneChain
    <3>2. ASSUME NEW q \in 1..pages'
          PROVE  next_page_id'[q] = IF q = pages' THEN PAGEIDNULL ELSE q + 1
      <4>1. CASE q = pages'
        BY <1>2, <2>1, <2>3, <3>1, <4>1 DEF Untouched
      <4>2. CASE q # pages'
        BY <1>2, <2>1, <2>3, <2>6, <3>1, <4>2 DEF OneChain
      <4> QED
        BY <4>1, <4>2
    <3> QED
      BY <3>1, <3>2 DEF OneChain
  <2> QED
    BY <1>2, <2>1, <2>2, <2>4, <2>5, <2>6
<1> QED
  BY <1>1, <1>2 DEF InsertInto

LEMMA ChainInit == DirAssumption /\ Init => ChainInv
<1> SUFFICES ASSUME DirAssumption, Init PROVE ChainInv
  OBVIOUS
<1>1. TypeOK
  <2>1. entry \in [Page -> [Slots -> Names \cup {Other, NULL}]]
    BY DEF Init
  <2>2. 1 \in Page /\ 1 \in 1..1
    BY DirAssumption DEF Page
  <2> QED
    BY <2>1, <2>2 DEF Init, TypeOK, Idle
<1>2. OneChain /\ LinksInside
  BY DirAssumption DEF Init, OneChain, LinksInside, Page
<1>3. ThreadsOnPages
  BY DEF Init, ThreadsOnPages
<1>4. Untouched
  BY DEF Init, Untouched, Page
<1> QED
  BY <1>1, <1>2, <1>3, <1>4 DEF ChainInv, WellFormed

\* A step that changes neither the entries nor the links keeps the chain.
LEMMA ChainUntouched ==
    ASSUME ChainInv, UNCHANGED <<entry, next_page_id, page_dir_tail, pages, overtaken>>
    PROVE  /\ OneChain' /\ LinksInside' /\ Untouched'
           /\ entry' \in [Page -> [Slots -> Names \cup {Other, NULL}]]
           /\ next_page_id' \in [Page -> Page \cup {PAGEIDNULL}]
           /\ pages' \in Page /\ page_dir_tail' \in 1..pages' /\ overtaken' \in BOOLEAN
  BY DEF ChainInv, WellFormed, TypeOK, OneChain, LinksInside, Untouched, Page

LEMMA ReturnType ==
    ASSUME TypeOK, ThreadsOnPages, NEW t \in Threads, Return(t), 1..pages \subseteq 1..pages'
    PROVE  /\ pc' \in [Threads -> {"idle", "insert", "lock", "lockAgain", "search", "next",
                                   "delete", "notFound", "endless"}]
           /\ loc' \in [Threads -> [name : Names \cup {NULL}, page : Page \cup {PAGEIDNULL},
                                    goal : {"search", "create", "remove", "insert"}]]
           /\ steady' \in [Threads -> SUBSET (Page \X Slots)]
           /\ ThreadsOnPages'
<1>1. Idle \in [name : Names \cup {NULL}, page : Page \cup {PAGEIDNULL},
                goal : {"search", "create", "remove", "insert"}]
  BY DEF Idle
<1> QED
  BY <1>1 DEF TypeOK, ThreadsOnPages, Return, Goto

\* A thread that goes on to another page.
LEMMA MoveType ==
    ASSUME TypeOK, NEW t \in Threads, NEW p \in Page \cup {PAGEIDNULL},
           loc' = [loc EXCEPT ![t].page = p]
    PROVE  /\ loc' \in [Threads -> [name : Names \cup {NULL}, page : Page \cup {PAGEIDNULL},
                                    goal : {"search", "create", "remove", "insert"}]]
           /\ loc'[t].page = p /\ \A u \in Threads : loc'[u].name = loc[u].name
           /\ \A u \in Threads \ {t} : loc'[u] = loc[u]
<1>1. [loc[t] EXCEPT !.page = p] \in [name : Names \cup {NULL}, page : Page \cup {PAGEIDNULL},
                                      goal : {"search", "create", "remove", "insert"}]
  BY DEF TypeOK
<1> QED
  BY <1>1 DEF TypeOK

LEMMA ChainStep ==
    ASSUME DirAssumption, ChainInv, [Next]_vars
    PROVE  ChainInv'
<1> USE DirAssumption DEF ChainInv, WellFormed
<1>1. ASSUME NEW t \in Threads, NEW n \in Names, InsertBegin(t, n) PROVE ChainInv'
  <2>1. OneChain' /\ LinksInside' /\ Untouched'
    BY <1>1, ChainUntouched DEF InsertBegin
  <2> QED
    BY <1>1, <2>1 DEF InsertBegin, Goto, TypeOK, ThreadsOnPages
<1>2. ASSUME NEW t \in Threads, InsertOpen(t) PROVE ChainInv'
  <2>1. OneChain' /\ LinksInside' /\ Untouched'
    BY <1>2, ChainUntouched DEF InsertOpen
  <2>2. page_dir_tail \in 1..pages /\ 1..pages \subseteq Page
    BY DEF TypeOK, Page
  <2>3. loc' = [loc EXCEPT ![t].page = page_dir_tail]
    BY <1>2 DEF InsertOpen
  <2>4. TypeOK'
    BY <1>2, <2>2, <2>3, MoveType DEF InsertOpen, Goto, TypeOK
  <2>5. ThreadsOnPages'
    BY <1>2, <2>2, <2>3, MoveType DEF InsertOpen, Goto, TypeOK, ThreadsOnPages
  <2> QED
    BY <2>1, <2>4, <2>5
<1>3. ASSUME NEW t \in Threads, InsertLock(t) PROVE ChainInv'
  <2>1. loc[t].page \in 1..pages /\ loc[t].name \in Names
    BY <1>3 DEF InsertLock, ThreadsOnPages
  <2>2. InsertInto(loc[t].page, loc[t].name) /\ Return(t) /\ UNCHANGED overtaken
    BY <1>3 DEF InsertLock
  <2>3. OneChain'
    BY <1>3, <2>1, <2>2, InsertIntoChain DEF InsertLock, OneChain
  <2> QED
    BY <2>1, <2>2, <2>3, InsertIntoChain, ReturnType DEF TypeOK
<1>4. ASSUME NEW t \in Threads, InsertReopen(t) PROVE ChainInv'
  <2>1. OneChain' /\ LinksInside' /\ Untouched'
    BY <1>4, ChainUntouched DEF InsertReopen
  <2>2. page_dir_tail \in 1..pages /\ 1..pages \subseteq Page
    BY DEF TypeOK, Page
  <2>3. loc' = [loc EXCEPT ![t].page = page_dir_tail]
    BY <1>4 DEF InsertReopen
  <2>4. TypeOK'
    BY <1>4, <2>2, <2>3, MoveType DEF InsertReopen, Goto, TypeOK
  <2>5. ThreadsOnPages'
    BY <1>4, <2>2, <2>3, MoveType DEF InsertReopen, Goto, TypeOK, ThreadsOnPages
  <2> QED
    BY <2>1, <2>4, <2>5
<1>5. ASSUME NEW t \in Threads, InsertLockAgain(t) PROVE ChainInv'
  <2>1. loc[t].page \in 1..pages /\ loc[t].name \in Names
    BY <1>5 DEF InsertLockAgain, ThreadsOnPages
  <2>2. /\ InsertInto(loc[t].page, loc[t].name) /\ Return(t)
        /\ overtaken' = (overtaken \/ ( /\ loc[t].page # page_dir_tail
                                        /\ Seated(loc[t].page) = Slots))
    BY <1>5 DEF InsertLockAgain
  <2>3. OneChain'
    BY <2>1, <2>2, InsertIntoChain DEF OneChain
  <2>4. overtaken' \in BOOLEAN
    BY <2>2
  <2> QED
    BY <2>1, <2>2, <2>3, <2>4, InsertIntoChain, ReturnType DEF TypeOK
<1>6. ASSUME NEW t \in Threads, NEW n \in Names,
             NEW g \in {"search", "create", "remove"}, SearchBegin(t, n, g)
      PROVE  ChainInv'
  <2>1. OneChain' /\ LinksInside' /\ Untouched'
    BY <1>6, ChainUntouched DEF SearchBegin
  <2>2. {x \in (1..pages) \X Scanned : x[2] \in Matching(x[1], n)} \in SUBSET (Page \X Slots)
    BY DEF Page, Scanned, Slots, TABLEATTRSLIMIT, TypeOK
  <2>3. 1 \in 1..pages
    BY DEF TypeOK, Page
  <2> QED
    BY <1>6, <2>1, <2>2, <2>3 DEF SearchBegin, Goto, TypeOK, ThreadsOnPages, Page
<1>7. ASSUME NEW t \in Threads, SearchFound(t) PROVE ChainInv'
  <2>1. OneChain' /\ LinksInside' /\ Untouched'
    BY <1>7, ChainUntouched DEF SearchFound
  <2>2. CASE Goto(t, "delete") /\ UNCHANGED <<loc, steady>>
    BY <1>7, <2>1, <2>2 DEF SearchFound, Goto, TypeOK, ThreadsOnPages
  <2>3. CASE Return(t)
    BY <1>7, <2>1, <2>3, ReturnType DEF SearchFound, TypeOK
  <2> QED
    BY <1>7, <2>2, <2>3 DEF SearchFound
<1>8. ASSUME NEW t \in Threads, SearchNotFound(t) \/ SearchPassed(t) PROVE ChainInv'
  <2>1. OneChain' /\ LinksInside' /\ Untouched'
    BY <1>8, ChainUntouched DEF SearchNotFound, SearchPassed
  <2> QED
    BY <1>8, <2>1 DEF SearchNotFound, SearchPassed, Goto, TypeOK, ThreadsOnPages
<1>9. ASSUME NEW t \in Threads, SearchNext(t) PROVE ChainInv'
  <2>1. OneChain' /\ LinksInside' /\ Untouched'
    BY <1>9, ChainUntouched DEF SearchNext
  <2>2. next_page_id[loc[t].page] \in (1..pages) \cup {PAGEIDNULL}
    BY <1>9 DEF SearchNext, ThreadsOnPages, LinksInside
  <2>3. 1..pages \subseteq Page
    BY DEF TypeOK, Page
  <2>4. loc' = [loc EXCEPT ![t].page = next_page_id[loc[t].page]]
    BY <1>9 DEF SearchNext
  <2>5. TypeOK'
    BY <1>9, <2>2, <2>3, <2>4, MoveType DEF SearchNext, Goto, TypeOK
  <2>6. ThreadsOnPages'
    BY <1>9, <2>2, <2>3, <2>4, MoveType DEF SearchNext, Goto, TypeOK, ThreadsOnPages
  <2> QED
    BY <2>1, <2>5, <2>6
<1>10. ASSUME NEW t \in Threads, NotFound(t) PROVE ChainInv'
  <2>1. OneChain' /\ LinksInside' /\ Untouched'
    BY <1>10, ChainUntouched DEF NotFound
  <2>2. CASE Goto(t, "insert") /\ UNCHANGED <<loc, steady>>
    BY <1>10, <2>1, <2>2 DEF NotFound, Goto, TypeOK, ThreadsOnPages
  <2>3. CASE Return(t)
    BY <1>10, <2>1, <2>3, ReturnType DEF NotFound, TypeOK
  <2> QED
    BY <1>10, <2>2, <2>3 DEF NotFound
<1>11. ASSUME NEW t \in Threads, Delete(t) PROVE ChainInv'
  <2>1. UNCHANGED <<next_page_id, page_dir_tail, pages, overtaken>>
    BY <1>11 DEF Delete
  <2>2. OneChain' /\ LinksInside'
    BY <2>1 DEF OneChain, LinksInside
  <2>3. CASE UNCHANGED entry /\ Return(t)
    BY <2>1, <2>2, <2>3, ReturnType DEF TypeOK, Untouched
  <2>4. ASSUME NEW i \in Matching(loc[t].page, loc[t].name),
               entry' = [entry EXCEPT ![loc[t].page][i] = NULL],
               Goto(t, "idle"), loc' = [loc EXCEPT ![t] = Idle],
               steady' = [u \in Threads |-> IF u = t THEN {} ELSE steady[u] \ {<<loc[t].page, i>>}]
        PROVE  ChainInv'
    <3>1. Untouched'
      BY <2>1, <2>4 DEF TypeOK, Untouched
    <3>2. Idle \in [name : Names \cup {NULL}, page : Page \cup {PAGEIDNULL},
                    goal : {"search", "create", "remove", "insert"}]
      BY DEF Idle
    <3>3. TypeOK' /\ ThreadsOnPages'
      BY <2>1, <2>4, <3>2 DEF TypeOK, ThreadsOnPages, Goto
    <3> QED
      BY <2>2, <3>1, <3>3
  <2> QED
    BY <1>11, <2>3, <2>4 DEF Delete
<1>12. CASE UNCHANGED vars
  BY <1>12 DEF vars, TypeOK, OneChain, ThreadsOnPages, LinksInside, Untouched
<1> QED
  BY <1>1, <1>2, <1>3, <1>4, <1>5, <1>6, <1>7, <1>8, <1>9, <1>10, <1>11, <1>12
     DEF Next, Begin, Step

\* The directory is one chain that ends in its tail, however many insertions
\* find the tail full at once (interface.c:31-40), unless one is overtaken
\* between its two looks at the tail.
THEOREM DirectoryWellFormed == Spec => []WellFormed
<1>1. Init => ChainInv
  BY DirAssumption, ChainInit
<1>2. ChainInv /\ [Next]_vars => ChainInv'
  BY DirAssumption, ChainStep
<1>3. ChainInv => WellFormed
  BY DEF ChainInv
<1> QED
  BY <1>1, <1>2, <1>3, PTL DEF Spec

-----------------------------------------------------------------------------
\* What a search of thread t has to find is still there, in a page it has yet
\* to pass; and it has found it if it is through.
Finds(t) ==
    /\ pc[t] \in {"search", "next"} =>
          \A x \in steady[t] : /\ x[1] \in 1..pages /\ x[2] \in Scanned
                               /\ x[2] \in Matching(x[1], loc[t].name)
    /\ overtaken \/ \A x \in steady[t] : /\ pc[t] = "search" => x[1] >= loc[t].page
                                         /\ pc[t] = "next" => x[1] > loc[t].page
    /\ pc[t] = "notFound" => steady[t] = {} \/ overtaken

SearchInv == \A t \in Threads : Finds(t)

\* A thread keeps its search if the entries it has to find stay.
LEMMA FindsKept ==
    ASSUME TypeOK, pages' \in Nat, pages <= pages', overtaken => overtaken',
           NEW u \in Threads, Finds(u), pc'[u] = pc[u], loc'[u] = loc[u],
           steady'[u] \subseteq steady[u],
           pc[u] \in {"search", "next"} =>
               \A x \in steady'[u] : entry'[x[1]][x[2]] = entry[x[1]][x[2]]
    PROVE  Finds(u)'
<1>1. ASSUME pc[u] \in {"search", "next"}, NEW x \in steady'[u]
      PROVE  /\ x[1] \in 1..pages' /\ x[2] \in Scanned
             /\ x[2] \in Matching(x[1], loc[u].name)'
  <2>1. /\ x \in steady[u] /\ x[1] \in 1..pages /\ x[2] \in Scanned
        /\ x[2] \in Matching(x[1], loc[u].name)
        /\ entry'[x[1]][x[2]] = entry[x[1]][x[2]]
    BY <1>1 DEF Finds
  <2>2. x[2] \in Matching(x[1], loc[u].name)'
    BY <2>1 DEF Matching, Matches
  <2> QED
    BY <2>1, <2>2 DEF TypeOK, Page
<1> QED
  BY <1>1 DEF Finds

\* An insertion leaves the entries there are in place.
LEMMA InsertKeeps ==
    ASSUME DirAssumption, TypeOK, NEW p \in 1..pages, NEW n \in Names, InsertInto(p, n),
           NEW q \in 1..pages, NEW i \in Slots, entry[q][i] # NULL
    PROVE  entry'[q][i] = entry[q][i]
<1>1. pages \in 1..MaxPages /\ p \in Page /\ q \in Page /\ 0 \in Slots
  BY DirAssumption DEF TypeOK, Page, Slots
<1>2. ASSUME NEW j \in Slots \ Seated(p), entry' = [entry EXCEPT ![p][j] = n]
      PROVE  entry'[q][i] = entry[q][i]
  <2>1. ~(q = p /\ i = j)
    BY <1>2 DEF Seated
  <2> QED
    BY <1>1, <1>2, <2>1 DEF TypeOK
<1>3. ASSUME pages' = pages + 1, pages < MaxPages, entry' = [entry EXCEPT ![pages'][0] = n]
      PROVE  entry'[q][i] = entry[q][i]
  <2>1. q # pages' /\ pages' \in Page
    BY <1>1, <1>3 DEF Page
  <2> QED
    BY <1>1, <1>3, <2>1 DEF TypeOK
<1> QED
  BY <1>2, <1>3 DEF InsertInto

LEMMA FindsInsert ==
    ASSUME DirAssumption, ChainInv, ChainInv', SearchInv, NEW t \in Threads,
           loc[t].page \in 1..pages, loc[t].name \in Names,
           InsertInto(loc[t].page, loc[t].name), Return(t), overtaken => overtaken'
    PROVE  SearchInv'
<1>1. Finds(t)'
  BY DEF Finds, Return, Goto, ChainInv, WellFormed, TypeOK
<1>2. ASSUME NEW u \in Threads \ {t} PROVE Finds(u)'
  <2>1. /\ pc'[u] = pc[u] /\ loc'[u] = loc[u] /\ steady'[u] = steady[u]
    BY DEF Return, Goto, ChainInv, WellFormed, TypeOK
  <2>2. Finds(u) /\ TypeOK /\ pages' \in Nat
    BY DEF SearchInv, ChainInv, WellFormed, TypeOK, Page
  <2>3. pages <= pages'
    <3>1. pages' = pages \/ pages' = pages + 1
      BY DEF InsertInto
    <3> QED
      BY <2>2, <3>1 DEF TypeOK, Page
  <2>4. ASSUME pc[u] \in {"search", "next"}, NEW x \in steady[u]
        PROVE  entry'[x[1]][x[2]] = entry[x[1]][x[2]]
    <3>1. /\ x[1] \in 1..pages /\ x[2] \in Slots
          /\ entry[x[1]][x[2]] # NULL
      BY <2>2, <2>4 DEF Finds, Matching, Scanned, Slots, TABLEATTRSLIMIT
    <3> QED
      BY <2>2, <3>1, InsertKeeps
  <2> QED
    BY <2>1, <2>2, <2>3, <2>4, FindsKept
<1> QED
  BY <1>1, <1>2 DEF SearchInv

\* A step of t that leaves the directory and the other threads alone.
LEMMA FindsOther ==
    ASSUME ChainInv, SearchInv, NEW t \in Threads, Finds(t)',
           UNCHANGED <<entry, pages, overtaken>>,
           \A u \in Threads \ {t} :
               pc'[u] = pc[u] /\ loc'[u] = loc[u] /\ steady'[u] = steady[u]
    PROVE  SearchInv'
<1>1. ASSUME NEW u \in Threads \ {t} PROVE Finds(u)'
  <2>1. Finds(u) /\ TypeOK /\ pages' \in Nat /\ pages <= pages'
    BY DEF SearchInv, ChainInv, WellFormed, TypeOK, Page
  <2> QED
    BY <2>1, FindsKept
<1> QED
  BY <1>1 DEF SearchInv

LEMMA SearchStep ==
    ASSUME DirAssumption, ChainInv, ChainInv', SearchInv, [Next]_vars
    PROVE  SearchInv'
<1> USE DirAssumption DEF ChainInv, WellFormed
<1> DEFINE Others(t) ==
        \A u \in Threads \ {t} :
            pc'[u] = pc[u] /\ loc'[u] = loc[u] /\ steady'[u] = steady[u]
<1>1. ASSUME NEW t \in Threads, UNCHANGED <<entry, pages, overtaken>>,
             \/ UNCHANGED <<loc, steady>> /\ \E label \in {"delete", "insert"} : Goto(t, label)
             \/ Return(t)
      PROVE  SearchInv'
  <2>1. Others(t) /\ pc'[t] \in {"idle", "delete", "insert"}
    BY <1>1 DEF Return, Goto, TypeOK
  <2>2. Finds(t)'
    BY <2>1 DEF Finds
  <2> QED
    BY <1>1, <2>1, <2>2, FindsOther
<1>2. ASSUME NEW t \in Threads, NEW n \in Names, InsertBegin(t, n) PROVE SearchInv'
  <2>1. Others(t) /\ pc'[t] = "insert"
    BY <1>2 DEF InsertBegin, Goto, TypeOK
  <2>2. Finds(t)'
    BY <2>1 DEF Finds
  <2> QED
    BY <1>2, <2>1, <2>2, FindsOther DEF InsertBegin
<1>3. ASSUME NEW t \in Threads, InsertOpen(t) \/ InsertReopen(t) PROVE SearchInv'
  <2>1. Others(t) /\ pc'[t] \in {"lock", "lockAgain"}
    BY <1>3 DEF InsertOpen, InsertReopen, Goto, TypeOK
  <2>2. Finds(t)'
    BY <2>1 DEF Finds
  <2> QED
    BY <1>3, <2>1, <2>2, FindsOther DEF InsertOpen, InsertReopen
<1>4. ASSUME NEW t \in Threads, InsertLock(t) \/ InsertLockAgain(t) PROVE SearchInv'
  <2>1. loc[t].page \in 1..pages /\ loc[t].name \in Names
    BY <1>4 DEF InsertLock, InsertLockAgain, ThreadsOnPages
  <2>2. InsertInto(loc[t].page, loc[t].name) /\ Return(t)
    BY <1>4 DEF InsertLock, InsertLockAgain
  <2>3. overtaken => overtaken'
    BY <1>4 DEF InsertLock, InsertLockAgain
  <2> QED
    BY <2>1, <2>2, <2>3, FindsInsert
<1>5. ASSUME NEW t \in Threads, NEW n \in Names,
             NEW g \in {"search", "create", "remove"}, SearchBegin(t, n, g)
      PROVE  SearchInv'
  <2>1. /\ Others(t) /\ pc'[t] = "search" /\ loc'[t].name = n /\ loc'[t].page = 1
        /\ steady'[t] = {x \in (1..pages) \X Scanned : x[2] \in Matching(x[1], n)}
    BY <1>5 DEF SearchBegin, Goto, TypeOK
  <2>2. Finds(t)'
    BY <1>5, <2>1 DEF SearchBegin, Finds, Matching
  <2> QED
    BY <1>5, <2>1, <2>2, FindsOther DEF SearchBegin
<1>6. ASSUME NEW t \in Threads, SearchFound(t) PROVE SearchInv'
  BY <1>1, <1>6 DEF SearchFound
<1>7. ASSUME NEW t \in Threads, SearchNotFound(t) PROVE SearchInv'
  <2>1. Others(t) /\ pc'[t] = "notFound" /\ steady'[t] = steady[t] /\ UNCHANGED overtaken
    BY <1>7 DEF SearchNotFound, Goto, TypeOK
  <2>2. ASSUME ~overtaken PROVE loc[t].page = pages
    BY <1>7, <2>2 DEF SearchNotFound, PassedAll, OneChain, ThreadsOnPages, TypeOK, Page
  <2>3. ASSUME ~overtaken, NEW x \in steady[t] PROVE FALSE
    <3>1. /\ x[1] \in 1..pages /\ x[1] >= loc[t].page
          /\ x[2] \in Matching(x[1], loc[t].name)
      BY <1>7, <2>3 DEF SearchNotFound, SearchInv, Finds
    <3>2. x[1] = loc[t].page
      BY <2>2, <2>3, <3>1 DEF TypeOK, Page
    <3> QED
      BY <1>7, <3>1, <3>2 DEF SearchNotFound
  <2>4. Finds(t)'
    BY <2>1, <2>3 DEF Finds
  <2> QED
    BY <1>7, <2>1, <2>4, FindsOther DEF SearchNotFound
<1>8. ASSUME NEW t \in Threads, SearchPassed(t) PROVE SearchInv'
  <2>1. /\ Others(t) /\ pc[t] = "search" /\ pc'[t] = "next"
        /\ UNCHANGED <<entry, loc, steady, pages, overtaken>>
    BY <1>8 DEF SearchPassed, Goto, TypeOK
  <2>2. ASSUME ~overtaken, NEW x \in steady[t] PROVE x[1] > loc[t].page
    <3>1. /\ x[1] \in 1..pages /\ x[1] >= loc[t].page /\ loc[t].page \in 1..pages
          /\ x[2] \in Matching(x[1], loc[t].name)
      BY <2>1, <2>2 DEF SearchInv, Finds, ThreadsOnPages
    <3>2. x[1] # loc[t].page
      BY <1>8, <3>1 DEF SearchPassed
    <3> QED
      BY <3>1, <3>2 DEF TypeOK, Page
  <2>3. Finds(t)
    BY DEF SearchInv
  <2>4. Finds(t)'
    BY <2>1, <2>2, <2>3 DEF Finds, Matching
  <2> QED
    BY <2>1, <2>4, FindsOther
<1>9. ASSUME NEW t \in Threads, SearchNext(t) PROVE SearchInv'
  <2>1. /\ Others(t) /\ pc[t] = "next" /\ UNCHANGED <<entry, steady, pages, overtaken>>
        /\ loc'[t].page = next_page_id[loc[t].page] /\ loc'[t].name = loc[t].name
        /\ pc'[t] = IF loc'[t].page = PAGEIDNULL THEN "endless" ELSE "search"
    BY <1>9 DEF SearchNext, Goto, TypeOK
  <2>2. Finds(t)
    BY DEF SearchInv
  <2>3. CASE loc'[t].page = PAGEIDNULL
    <3>1. pc'[t] = "endless"
      BY <2>1, <2>3
    <3>2. Finds(t)'
      BY <3>1 DEF Finds
    <3> QED
      BY <2>1, <3>2, FindsOther
  <2>4. CASE loc'[t].page # PAGEIDNULL
    <3>1. loc[t].page \in 1..pages
      BY <2>1 DEF ThreadsOnPages
    <3>2. ~overtaken => loc'[t].page = loc[t].page + 1
      BY <2>1, <2>4, <3>1 DEF OneChain
    <3>3. ASSUME ~overtaken, NEW x \in steady[t] PROVE x[1] >= loc'[t].page
      <4>1. x[1] \in 1..pages /\ x[1] > loc[t].page
        BY <2>1, <2>2, <3>3 DEF Finds
      <4> QED
        BY <3>1, <3>2, <3>3, <4>1 DEF TypeOK, Page
    <3>4. pc'[t] = "search"
      BY <2>1, <2>4
    <3>5. ASSUME NEW x \in steady'[t]
          PROVE  /\ x[1] \in 1..pages' /\ x[2] \in Scanned
                 /\ x[2] \in Matching(x[1], loc[t].name)'
      BY <2>1, <2>2, <3>5 DEF Finds, Matching, Matches
    <3>6. Finds(t)'
      BY <2>1, <3>3, <3>4, <3>5 DEF Finds
    <3> QED
      BY <2>1, <3>6, FindsOther
  <2> QED
    BY <2>3, <2>4
<1>10. ASSUME NEW t \in Threads, NotFound(t) PROVE SearchInv'
  BY <1>1, <1>10 DEF NotFound
<1>11. ASSUME NEW t \in Threads, Delete(t) PROVE SearchInv'
  <2>1. UNCHANGED <<pages, overtaken>>
    BY <1>11 DEF Delete
  <2>2. CASE UNCHANGED entry /\ Return(t)
    BY <1>1, <2>1, <2>2
  <2>3. ASSUME NEW i \in Matching(loc[t].page, loc[t].name),
               entry' = [entry EXCEPT ![loc[t].page][i] = NULL],
               Goto(t, "idle"), loc' = [loc EXCEPT ![t] = Idle],
               steady' = [u \in Threads |-> IF u = t THEN {} ELSE steady[u] \ {<<loc[t].page, i>>}]
        PROVE  SearchInv'
    <3>1. Finds(t)'
      BY <2>3 DEF Goto, TypeOK, Finds
    <3>2. ASSUME NEW u \in Threads \ {t} PROVE Finds(u)'
      <4>1. /\ pc'[u] = pc[u] /\ loc'[u] = loc[u] /\ Finds(u)
            /\ steady'[u] = steady[u] \ {<<loc[t].page, i>>}
        BY <2>3 DEF Goto, TypeOK, SearchInv
      <4>2. ASSUME NEW x \in steady'[u] PROVE entry'[x[1]][x[2]] = entry[x[1]][x[2]]
        <5>1. x \in Page \X Slots /\ x # <<loc[t].page, i>>
          BY <4>1, <4>2 DEF TypeOK
        <5>2. ~(x[1] = loc[t].page /\ x[2] = i)
          BY <5>1
        <5> QED
          BY <2>3, <5>1, <5>2 DEF TypeOK
      <4>3. pages' \in Nat /\ pages <= pages'
        BY <2>1 DEF TypeOK, Page
      <4> QED
        BY <2>1, <4>1, <4>2, <4>3, FindsKept
    <3> QED
      BY <3>1, <3>2 DEF SearchInv
  <2> QED
    BY <1>11, <2>2, <2>3 DEF Delete
<1>12. CASE UNCHANGED vars
  BY <1>12 DEF vars, SearchInv, Finds, Matching
<1> QED
  BY <1>2, <1>3, <1>4, <1>5, <1>6, <1>7, <1>8, <1>9, <1>10, <1>11, <1>12
     DEF Next, Begin, Step

\* A table whose entry was there from the start of a search to its end is
\* found, whatever other threads insert and remove meanwhile, unless an
\* insertion was overtaken (search_table_from_pdir goes from page to page with
\* no lock in between, interface.c:60-91).
THEOREM SteadyTablesFound == Spec => []SteadyTablesAreFound
<1>1. Init => ChainInv /\ SearchInv
  <2>1. Init => SearchInv
    BY DEF Init, SearchInv, Finds
  <2> QED
    BY <2>1, DirAssumption, ChainInit
<1>2. ChainInv /\ SearchInv /\ [Next]_vars => (ChainInv /\ SearchInv)'
  BY DirAssumption, ChainStep, SearchStep
<1>3. SearchInv => SteadyTablesAreFound
  BY DEF SearchInv, Finds, SteadyTablesAreFound
<1> QED
  BY <1>1, <1>2, <1>3, PTL DEF Spec

-----------------------------------------------------------------------------
\* A page's slots are finitely many, so the entries with a name can be counted.
LEMMA EntriesFinite ==
    ASSUME DirAssumption, NEW n
    PROVE  IsFiniteSet(EntriesOf(n)) /\ Cardinality(EntriesOf(n)) \in Nat
<1>1. IsFiniteSet(Page) /\ IsFiniteSet(Slots)
  BY DirAssumption, FS_Interval DEF Page, Slots
<1>2. IsFiniteSet(Page \X Slots)
  BY <1>1, FS_Product
<1>3. EntriesOf(n) \in SUBSET (Page \X Slots)
  BY DEF EntriesOf
<1> QED
  BY <1>2, <1>3, FS_Subset, FS_CardinalityType

\* Which entries a name has after one slot was written.
LEMMA EntriesAfter ==
    ASSUME TypeOK, NEW p \in Page, NEW i \in Slots, NEW v,
           entry' = [entry EXCEPT ![p][i] = v], NEW m
    PROVE  {x \in Page \X Slots : entry'[x[1]][x[2]] = m} =
              IF m = v THEN EntriesOf(m) \cup {<<p, i>>} ELSE EntriesOf(m) \ {<<p, i>>}
<1>1. ASSUME NEW q \in Page, NEW j \in Slots
      PROVE  entry'[q][j] = IF <<q, j>> = <<p, i>> THEN v ELSE entry[q][j]
  BY DEF TypeOK
<1>2. ASSUME NEW x \in Page \X Slots
      PROVE  entry'[x[1]][x[2]] = IF x = <<p, i>> THEN v ELSE entry[x[1]][x[2]]
  <2>1. PICK q \in Page, j \in Slots : x = <<q, j>>
    OBVIOUS
  <2>2. x[1] = q /\ x[2] = j
    BY <2>1
  <2> QED
    BY <1>1, <2>1, <2>2
<1>3. <<p, i>> \in Page \X Slots
  OBVIOUS
<1> QED
  BY <1>2, <1>3 DEF EntriesOf

\* A name written into an empty slot is one table more.
LEMMA WriteEnters ==
    ASSUME DirAssumption, TypeOK, NEW p \in Page, NEW i \in Slots, entry[p][i] = NULL,
           NEW n \in Names, entry' = [entry EXCEPT ![p][i] = n]
    PROVE  Tables!Next
<1>1. ASSUME NEW m \in Names \cup {Other}
      PROVE  Cardinality(EntriesOf(m))' =
                IF m = n THEN Cardinality(EntriesOf(m)) + 1 ELSE Cardinality(EntriesOf(m))
  <2>1. IsFiniteSet(EntriesOf(m)) /\ <<p, i>> \notin EntriesOf(m)
    BY DirAssumption, EntriesFinite DEF EntriesOf
  <2>2. EntriesOf(m)' = IF m = n THEN EntriesOf(m) \cup {<<p, i>>} ELSE EntriesOf(m)
    <3>1. EntriesOf(m)' = {x \in Page \X Slots : entry'[x[1]][x[2]] = m}
      BY DEF EntriesOf
    <3>2. {x \in Page \X Slots : entry'[x[1]][x[2]] = m} =
             IF m = n THEN EntriesOf(m) \cup {<<p, i>>} ELSE EntriesOf(m) \ {<<p, i>>}
      BY EntriesAfter
    <3> QED
      BY <2>1, <3>1, <3>2
  <2> QED
    BY <2>1, <2>2, FS_AddElement
<1>2. Tables!Enter(n)
  BY <1>1 DEF Tables!Enter
<1> QED
  BY <1>2 DEF Tables!Next

\* An entry that is cleared is one table less.
LEMMA ClearRemoves ==
    ASSUME DirAssumption, TypeOK, NEW p \in Page, NEW i \in Slots, entry[p][i] # NULL,
           entry' = [entry EXCEPT ![p][i] = NULL]
    PROVE  Tables!Next
<1>1. PICK n \in Names \cup {Other} : entry[p][i] = n
  BY DEF TypeOK
<1>2. ASSUME NEW m \in Names \cup {Other}
      PROVE  Cardinality(EntriesOf(m))' =
                IF m = n THEN Cardinality(EntriesOf(m)) - 1 ELSE Cardinality(EntriesOf(m))
  <2>1. IsFiniteSet(EntriesOf(m)) /\ (<<p, i>> \in EntriesOf(m) <=> m = n)
    BY <1>1, DirAssumption, EntriesFinite DEF EntriesOf
  <2>2. EntriesOf(m)' = EntriesOf(m) \ {<<p, i>>}
    <3>1. EntriesOf(m)' = {x \in Page \X Slots : entry'[x[1]][x[2]] = m}
      BY DEF EntriesOf
    <3>2. {x \in Page \X Slots : entry'[x[1]][x[2]] = m} =
             IF m = NULL THEN EntriesOf(m) \cup {<<p, i>>} ELSE EntriesOf(m) \ {<<p, i>>}
      BY EntriesAfter
    <3> QED
      BY <3>1, <3>2, DirAssumption
  <2>3. CASE m = n
    <3>1. Cardinality(EntriesOf(m) \ {<<p, i>>}) = Cardinality(EntriesOf(m)) - 1
      BY <2>1, <2>3, FS_RemoveElement
    <3> QED
      BY <2>2, <2>3, <3>1
  <2>4. CASE m # n
    <3>1. EntriesOf(m)' = EntriesOf(m)
      BY <2>1, <2>2, <2>4
    <3> QED
      BY <2>4, <3>1
  <2> QED
    BY <2>3, <2>4
<1>3. Cardinality(EntriesOf(n)) > 0
  <2>1. <<p, i>> \in EntriesOf(n)
    BY <1>1 DEF EntriesOf
  <2>2. IsFiniteSet(EntriesOf(n)) /\ Cardinality(EntriesOf(n)) \in Nat
    BY DirAssumption, EntriesFinite
  <2>3. Cardinality(EntriesOf(n)) # 0
    BY <2>1, <2>2, FS_EmptySet
  <2> QED
    BY <2>2, <2>3
<1>4. Tables!Remove(n)
  BY <1>1, <1>2, <1>3 DEF Tables!Remove
<1> QED
  BY <1>1, <1>4 DEF Tables!Next

LEMMA CatalogStep ==
    ASSUME DirAssumption, ChainInv, [Next]_vars
    PROVE  Tables!Next \/ UNCHANGED entry
<1> USE DirAssumption DEF ChainInv, WellFormed
<1>1. ASSUME NEW p \in 1..pages, NEW n \in Names, InsertInto(p, n)
      PROVE  Tables!Next
  <2>1. ASSUME NEW i \in Slots \ Seated(p), entry' = [entry EXCEPT ![p][i] = n]
        PROVE  Tables!Next
    <3>1. p \in Page /\ i \in Slots /\ entry[p][i] = NULL
      BY <2>1 DEF Seated, TypeOK, Page
    <3> QED
      BY <2>1, <3>1, WriteEnters
  <2>2. ASSUME pages < MaxPages, entry' = [entry EXCEPT ![pages + 1][0] = n]
        PROVE  Tables!Next
    <3>1. pages + 1 \in Page /\ 0 \in Slots /\ pages + 1 > pages
      BY <2>2 DEF TypeOK, Page, Slots
    <3>2. entry[pages + 1][0] = NULL
      BY <3>1 DEF Untouched
    <3> QED
      BY <2>2, <3>1, <3>2, WriteEnters
  <2> QED
    BY <1>1, <2>1, <2>2 DEF InsertInto
<1>2. ASSUME NEW t \in Threads, InsertLock(t) \/ InsertLockAgain(t) PROVE Tables!Next
  <2>1. loc[t].page \in 1..pages /\ loc[t].name \in Names
    BY <1>2 DEF InsertLock, InsertLockAgain, ThreadsOnPages
  <2> QED
    BY <1>1, <1>2, <2>1 DEF InsertLock, InsertLockAgain
<1>3. ASSUME NEW t \in Threads, Delete(t) PROVE Tables!Next \/ UNCHANGED entry
  <2>1. loc[t].page \in Page
    BY <1>3 DEF Delete, ThreadsOnPages, TypeOK, Page
  <2>2. ASSUME NEW i \in Matching(loc[t].page, loc[t].name)
        PROVE  i \in Slots /\ entry[loc[t].page][i] # NULL
    BY DEF Matching, Scanned, Slots, TABLEATTRSLIMIT
  <2> QED
    BY <1>3, <2>1, <2>2, ClearRemoves DEF Delete
<1> QED
  BY <1>2, <1>3 DEF Next, Begin, Step, vars, InsertBegin, InsertOpen, InsertReopen,
     SearchBegin, SearchFound, SearchNotFound, SearchPassed, SearchNext, NotFound

\* The directory is a Catalog: an insertion adds one entry to one name and
\* loses none, and a removal takes away one entry or none, even where the
\* chain was cut (insert_table_in_pdir and remove_table_from_pdir).
THEOREM DirectoryIsCatalog == Spec => ImplementsCatalog
<1>1. Init => ChainInv
  BY DirAssumption, ChainInit
<1>2. ChainInv /\ [Next]_vars => ChainInv'
  BY DirAssumption, ChainStep
<1>3. ChainInv /\ [Next]_vars => [Tables!Next]_entry
  BY DirAssumption, CatalogStep
<1> QED
  BY <1>1, <1>2, <1>3, PTL DEF Spec, ImplementsCatalog
=============================================================================
