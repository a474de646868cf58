---------------------------- MODULE GeneralTable ----------------------------
(***************************************************************************)
(* One general table (src/interface/interface.c, lines 130-608).  Its root *)
(* page names an info page and, for each attribute, the first page of a    *)
(* chain of attribute pages.  An entry of an attribute page is the id of a *)
(* data page with values of the attribute, and how many it has.            *)
(*                                                                         *)
(* Calls come one after the other: the code says of them "No-thread safe"  *)
(* (lines 324, 503).  A step is one turn of a call's innermost loop over   *)
(* pages.  A page is taken at what RecordMap and StackInFront promise:     *)
(* only last entries are deleted, so the entries are a sequence.  Every    *)
(* page fits in the pool.                                                  *)
(***************************************************************************)
EXTENDS Integers, Sequences, FiniteSets, SequencesExt

CONSTANTS
    AttrsNum,       \* attributes of the table
    DataEntries,    \* attribute -> the values a data page holds
    AttrEntries,    \* the entries an attribute page holds (508)
    MaxPages,       \* bound: page ids are below it
    MaxRecord,      \* bound: records asked for are up to it
    Value,
    PAGEIDNULL

Attrs == 1..AttrsNum

ASSUME TableAssumption ==
    /\ AttrsNum \in Nat \ {0}
    /\ DataEntries \in [Attrs -> Nat \ {0}]
    /\ AttrEntries \in Nat /\ AttrEntries >= 2
    /\ MaxPages \in Nat /\ MaxPages >= 5 + 2 * AttrsNum
    /\ MaxRecord \in Nat
    /\ PAGEIDNULL \in Nat /\ PAGEIDNULL >= MaxPages

VARIABLES
    page,       \* id -> [next, entries]; for a data page the entries are values
    used,       \* the ids that are not the page id manager's
    record_num, \* entry RECORDNUM of the info page
    call        \* the call under way

vars == <<page, used, record_num, call>>

Ids == 0..(MaxPages - 1)
SystemPages == 0..2
Root == 3
Info == 4

NoCall == [op |-> "none", attr |-> 1, page |-> PAGEIDNULL, record |-> 0, passed |-> 0,
           value |-> PAGEIDNULL]

\* What memset leaves of a deleted page: its next page is page 0.
Zeroed == [next |-> 0, entries |-> <<>>]

NewPage(entries) == [next |-> PAGEIDNULL, entries |-> entries]
Entry(pid, remain) == [pid |-> pid, remain |-> remain]

AttrPage(a) == page[Root].entries[a + 1].pid

TypeOK ==
    /\ \A p \in Ids : page[p].next \in Ids \cup {PAGEIDNULL}
    /\ \A p \in Ids : \A i \in 1..Len(page[p].entries) :
         \/ page[p].entries[i] \in Value
         \/ page[p].entries[i] \in [pid : Ids, remain : Nat]
    /\ used \subseteq Ids
    /\ record_num \in Int
    /\ call.op \in {"none", "insert", "remove", "delete", "endless", "undefined"}
    /\ call.attr \in Attrs
    /\ call.page \in Ids \/ (call.op = "none" /\ call.page = PAGEIDNULL)
    /\ call.record \in Int /\ call.passed \in Nat

\* init_db_info: entries of page 0 name the first free id, the stack page and
\* the tail of the directory.  db_create_table: the root page, the info page,
\* and for each attribute an attribute page with one, empty, data page.
Init ==
    /\ page = [p \in Ids |->
         CASE p = 0 -> NewPage(<<Entry(3, 0), Entry(2, 0), Entry(1, 0)>>)
           [] p = Root -> NewPage(<<Entry(Info, 0)>> \o [a \in Attrs |-> Entry(3 + 2 * a, 0)])
           [] p \in {3 + 2 * a : a \in Attrs} -> NewPage(<<Entry(p + 1, 0)>>)
           [] OTHER -> NewPage(<<>>)]
    /\ used = 0..(4 + 2 * AttrsNum)
    /\ record_num = 0
    /\ call = NoCall

\* mp_page_create: some free id, here the smallest.
Fresh == CHOOSE p \in Ids \ used : \A q \in Ids \ used : p <= q

\* The loop over the attributes comes to attribute a.
At(a, op) == call.op = op /\ call.attr = a

\* Attribute a is done; after the last one the row is counted.
NextAttr(a, counted) ==
    IF a < AttrsNum
    THEN /\ call' = [call EXCEPT !.attr = a + 1, !.page = AttrPage(a + 1), !.passed = 0]
         /\ UNCHANGED record_num
    ELSE /\ call' = NoCall
         /\ record_num' = record_num + counted

Begin(op, record, value) ==
    /\ call.op = "none" /\ Info \in used
    /\ call' = [op |-> op, attr |-> 1, page |-> AttrPage(1), record |-> record, passed |-> 0,
                value |-> value]

-----------------------------------------------------------------------------
(* db_1_tinsert *)

InsertBegin(v) ==
    /\ Cardinality(Ids \ used) >= 2 * AttrsNum                  \* bound
    /\ Begin("insert", 0, v)
    /\ UNCHANGED <<page, used, record_num>>

\* Mutant: the entry of the data page is not updated.
InsertValueUncounted(a) ==
    /\ At(a, "insert")
    /\ LET p == call.page
           n == Len(page[p].entries)
           e == page[p].entries[n]
       IN /\ n \in 1..(AttrEntries - 1)
          /\ e.remain < DataEntries[a]
          /\ page' = [page EXCEPT ![e.pid].entries = Append(@, call.value)]
    /\ NextAttr(a, 1)
    /\ UNCHANGED used

\* The last data page of the attribute page has room for the value.
InsertValue(a) ==
    /\ At(a, "insert")
    /\ LET p == call.page
           n == Len(page[p].entries)
           e == page[p].entries[n]
       IN /\ n \in 1..(AttrEntries - 1)
          /\ e.remain < DataEntries[a]
          /\ page' = [page EXCEPT ![p].entries[n].remain = @ + 1,
                                  ![e.pid].entries = Append(@, call.value)]
    /\ NextAttr(a, 1)
    /\ UNCHANGED used

\* It has none: the attribute page gets one more data page ...
InsertDataPage(a) ==
    /\ At(a, "insert")
    /\ LET p == call.page
           n == Len(page[p].entries)
       IN /\ n \in 1..(AttrEntries - 1)
          /\ page[p].entries[n].remain >= DataEntries[a]
          /\ page' = [page EXCEPT ![p].entries = Append(@, Entry(Fresh, 0)),
                                  ![Fresh] = NewPage(<<>>)]
    /\ used' = used \cup {Fresh}
    /\ UNCHANGED <<call, record_num>>

\* ... or is full, and a second attribute page follows it.
InsertAttrPage(a) ==
    /\ At(a, "insert")
    /\ Len(page[call.page].entries) = AttrEntries
    /\ page[call.page].next = PAGEIDNULL
    /\ LET q == Fresh
           d == CHOOSE p \in Ids \ (used \cup {q}) : \A r \in Ids \ (used \cup {q}) : p <= r
       IN /\ page' = [page EXCEPT ![call.page].next = q,
                                  ![q] = NewPage(<<Entry(d, 0)>>),
                                  ![d] = NewPage(<<>>)]
          /\ used' = used \cup {q, d}
          /\ call' = [call EXCEPT !.page = q]
    /\ UNCHANGED record_num

\* A full attribute page that has a successor is looked at again and again.
InsertEndless(a) ==
    /\ At(a, "insert")
    /\ Len(page[call.page].entries) = AttrEntries
    /\ page[call.page].next # PAGEIDNULL
    /\ call' = [call EXCEPT !.op = "endless"]
    /\ UNCHANGED <<page, used, record_num>>

\* Without a data page, entry -1 is read.
InsertUndefined(a) ==
    /\ At(a, "insert")
    /\ page[call.page].entries = <<>>
    /\ call' = [call EXCEPT !.op = "undefined"]
    /\ UNCHANGED <<page, used, record_num>>

-----------------------------------------------------------------------------
(* db_1_tremove_by_index and __do_rep *)

RemoveBegin(record) ==
    /\ record_num >= 0                                          \* bound
    /\ Begin("remove", record, PAGEIDNULL)
    /\ UNCHANGED <<page, used, record_num>>

\* The values on the first n data pages of an attribute page.
Through(p, n) == FoldLeft(LAMBDA sum, e : sum + e.remain, 0, SubSeq(page[p].entries, 1, n))

\* Mutant: record_index is not decremented first.
WantedFromOne == call.record - call.passed

\* record_index - index, when an attribute page is begun with; records are
\* counted from 0 on.
Wanted == call.record - 1 - call.passed

\* The data pages at which the loop stops.  The record is on the page after
\* the first of them when it is the first one there: < should be <=.
Holders(p) == {n \in 1..Len(page[p].entries) : Through(p, n) >= Wanted}

\* The loop stops at entry n of the attribute page, and the record is the
\* j-th value of that data page.
Found(n, j) ==
    /\ n \in Holders(call.page) /\ \A k \in Holders(call.page) : n <= k
    /\ j = Wanted - Through(call.page, n - 1) + 1
    /\ j \in 1..Len(page[page[call.page].entries[n].pid].entries)

\* The record is not on this attribute page, but there is another one.
RemovePassed(a) ==
    /\ At(a, "remove")
    /\ LET p == call.page IN
        /\ Holders(p) = {}
        /\ page[p].next # PAGEIDNULL
        /\ call' = [call EXCEPT !.page = page[p].next,
                                !.passed = @ + Through(p, Len(page[p].entries))]
    /\ UNCHANGED <<page, used, record_num>>

\* There is no such record; the call ends at once.
RemoveNotFound(a) ==
    /\ At(a, "remove")
    /\ Holders(call.page) = {} /\ page[call.page].next = PAGEIDNULL
    /\ call' = NoCall
    /\ UNCHANGED <<page, used, record_num>>

\* The loop stops at a data page that does not have the record.
RemoveMissed(a) ==
    /\ At(a, "remove")
    /\ Holders(call.page) # {}
    /\ \A n \in Holders(call.page), j \in 1..DataEntries[a] : ~Found(n, j)
    /\ NextAttr(a, -1)
    /\ UNCHANGED <<page, used>>

\* The last attribute page of the chain: there are two at most (InsertEndless).
LastPage(p) == IF page[p].next = PAGEIDNULL THEN p ELSE page[p].next

\* The pages without the last value, on the data page of entry e, the m-th of
\* attribute page q.
WithoutLast(q, m, e) ==
    IF e.remain = 1
    THEN [page EXCEPT ![e.pid] = Zeroed, ![q].entries = Front(@)]
    ELSE [page EXCEPT ![e.pid].entries = Front(@), ![q].entries[m].remain = @ - 1]

\* The last value of the column takes the record's place; a data page that
\* loses its only value is deleted, and so is its entry.
RemoveValue(a) ==
    /\ At(a, "remove")
    /\ \E n \in Holders(call.page), j \in 1..DataEntries[a] :
        /\ Found(n, j)
        /\ LET q == LastPage(call.page)
               m == Len(page[q].entries)
               e == page[q].entries[m]
               d == page[call.page].entries[n].pid
               rest == WithoutLast(q, m, e)
           IN /\ m > 0
              /\ page' = IF j \in 1..Len(rest[d].entries)
                         THEN [rest EXCEPT ![d].entries[j] = Last(page[e.pid].entries)]
                         ELSE rest
              /\ used' = IF e.remain = 1 THEN used \ {e.pid} ELSE used
    /\ NextAttr(a, -1)

\* A last attribute page that lost its entries stays in the chain; its last
\* entry is an uninitialized pointer.
RemoveUndefined(a) ==
    /\ At(a, "remove")
    /\ \E n \in Holders(call.page), j \in 1..DataEntries[a] : Found(n, j)
    /\ page[LastPage(call.page)].entries = <<>>
    /\ call' = [call EXCEPT !.op = "undefined"]
    /\ UNCHANGED <<page, used, record_num>>

-----------------------------------------------------------------------------
(* db_1_tdelete *)

\* The directory has lost the table; the info page goes first.
DeleteBegin ==
    /\ Begin("delete", 0, PAGEIDNULL)
    /\ page' = [page EXCEPT ![Info] = Zeroed]
    /\ used' = used \ {Info}
    /\ UNCHANGED record_num

\* The data pages of an attribute page, and the page itself.  Its next page
\* is read after mp_page_mdelete has zeroed it: the loop goes on with page 0,
\* and deletes the pages its entries name.
DeletePages(a) ==
    /\ At(a, "delete")
    /\ LET p == call.page
           S == {p} \cup {page[p].entries[i].pid : i \in 1..Len(page[p].entries)}
       IN /\ page' = [q \in Ids |-> IF q \in S THEN Zeroed ELSE page[q]]
          /\ used' = used \ S
          /\ call' = IF p \in SystemPages THEN [call EXCEPT !.op = "undefined"]
                     ELSE [call EXCEPT !.page = page'[p].next]
    /\ UNCHANGED record_num

-----------------------------------------------------------------------------
\* A call that reads memory nobody wrote, or that never ends, is the last one.
Next ==
    \/ \E v \in Value : InsertBegin(v)
    \/ \E record \in 1..MaxRecord : RemoveBegin(record)
    \/ DeleteBegin
    \/ \E a \in Attrs :
        \/ InsertValue(a) \/ InsertDataPage(a) \/ InsertAttrPage(a)
        \/ InsertEndless(a) \/ InsertUndefined(a)
        \/ RemovePassed(a) \/ RemoveNotFound(a) \/ RemoveMissed(a)
        \/ RemoveValue(a) \/ RemoveUndefined(a)
        \/ DeletePages(a)

Spec == Init /\ [][Next]_vars

-----------------------------------------------------------------------------
Exists == Info \in used

\* The attribute pages of attribute a, and their entries one after the other.
Chain(a) ==
    LET p == AttrPage(a) IN IF LastPage(p) = p THEN <<p>> ELSE <<p, LastPage(p)>>

Entries(a) == FlattenSeq([i \in 1..Len(Chain(a)) |-> page[Chain(a)[i]].entries])

Column(a) ==
    IF Exists THEN FlattenSeq([i \in 1..Len(Entries(a)) |-> page[Entries(a)[i].pid].entries])
    ELSE <<>>

\* No page of the table is lost, and none is named twice: from call to call,
\* the ids that the page id manager does not have are the system's and the ones
\* the table's entries and links name.
PagesAccountedFor ==
    call.op = "none" /\ Exists =>
        LET ids == <<Root, Info>> \o FlattenSeq([a \in Attrs |->
                       Chain(a) \o [i \in 1..Len(Entries(a)) |-> Entries(a)[i].pid]])
        IN /\ used = SystemPages \cup ToSet(ids)
           /\ SystemPages \cap ToSet(ids) = {} /\ IsInjective(ids)

\* What an entry says of its data page is true, and a data page before one
\* with values is full, which the arithmetic of db_1_tremove_by_index and
\* the insertion at the end rely on; but the last data page of a full
\* attribute page is never used.
EntriesMatchPages ==
    Exists => \A a \in Attrs : \A k \in 1..Len(Entries(a)) :
        LET e == Entries(a)[k] IN
        /\ e.remain = Len(page[e.pid].entries)
        /\ e.remain # DataEntries[a] /\ k # AttrEntries =>
             \A l \in (k + 1)..Len(Entries(a)) : Entries(a)[l].remain = 0

\* Types, the table's pages and what its entries say of them.
TableMatchesPages == TypeOK /\ PagesAccountedFor /\ EntriesMatchPages

columns == [a \in Attrs |-> Column(a)]

Table == INSTANCE Columns WITH col <- columns

\* Each step changes one column, as it was asked to: the value is appended, or
\* the last value takes the place of the record; or the table is deleted.
ImplementsColumns ==
    /\ Table!Init
    /\ [][ \/ call.op = "insert" /\ Table!Add(call.attr, call.value)
           \/ call.op = "remove" /\ Table!Drop(call.attr, call.record)
           \/ call'.op = "delete" /\ Table!Destroy ]_columns

\* Pages 0, 1 and 2 are "for system" (pool.c:138): no call gives their ids back.
\* db_1_tdelete does.
SystemPagesStay == SystemPages \subseteq used
=============================================================================
