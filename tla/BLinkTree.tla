------------------------------ MODULE BLinkTree ------------------------------
(***************************************************************************)
(* Concurrent insertions into a B-link index and searches in it, removals, *)
(* and the deletion of the index (src/interface/interface.c, lines         *)
(* 679-1302).  BLinkPage has the functions of b_page.c.                    *)
(*                                                                         *)
(* Insertions go down without locks, lock the leaf, and go up again if it  *)
(* has to be split: a page stays locked until the one above it is.         *)
(* Searches lock nothing.  A step is what happens under one lock, or one   *)
(* turn of the loop down or up the tree.                                   *)
(*                                                                         *)
(* The insert-search-delete lock of the index (src/latch/isdlock.c) is     *)
(* taken in steps as it is written, with its way out as one step; IsdLock  *)
(* has that, too, in steps.  It lets operations in beside a removal: the   *)
(* model ends where that happens.  Every page fits in the pool.            *)
(***************************************************************************)
EXTENDS BLinkPage

CONSTANTS
    Thread,
    MaxPages,       \* bound: page ids are 1 to it
    Searched,       \* bound: the keys that are looked for
    Trees           \* [leaves, pivots, left]: the keys of the leaves of a tree to begin
                    \* with; how many leaves each page above them has, if there are any;
                    \* and, a bound, the operations [op, key] that change it, in the
                    \* order in which they begin

ASSUME BLinkAssumption ==
    /\ MaxPages \in Nat \ {0}
    /\ Searched \subseteq Key
    /\ PAGEIDNULL > MaxPages

VARIABLES
    page,   \* id -> header and contents
    used,   \* the ids in use
    freed,  \* the ids that were given back; bound: they are not used again
    root,   \* entry B_LINK_PID of the index's page
    lock,   \* id -> the thread that has the page's write lock, or "none"
    th,     \* thread -> where it is, and its locals
    left,   \* bound: the operations still to begin
    done,   \* history: the keys that insertions put in and no removal took out
    isd,    \* the index's lock: its flag, counters and key
    deleted,\* db_1_idelete has ended
    fault   \* the model ends where the code does one of these:
            \* "crowded":    an operation let in beside a removal, or a removal
            \*               beside an operation
            \* "misplaced":  a separator put at the wrong place in a pivot page
            \* "torn":       a page read while another thread writes to it
            \* "two roots":  a page that is not the root split as if it was
            \* "undefined":  a lock released that the thread does not have; a
            \*               neighbour opened that does not exist
            \* "freed":      a page used that was given back
            \* "empty leaf": a key read from a leaf without entries
            \* "last page":  the last leaf merged, its upper bound set to a key
            \* "overflow":   two pages merged that do not fit into one
            \* "above root": a change of keys passed up from the root
            \* "endless":    the search of a pivot page for a key never ends
            \* "lost page":  the first pivot page of a level too small: the page
            \*               given back keeps its entry above, not its neighbour
            \* "old bound":  a kid moved from a pivot page that keeps its bound

vars == <<page, used, freed, root, lock, th, left, done, isd, deleted, fault>>

Ids == 1..MaxPages
IdOrNull == Ids \cup {PAGEIDNULL}
KeyOrNull == Key \cup {PAGEIDNULL}

\* The locals of a removal that go up with it: what is still to be done in the
\* level above (stateB), and with which keys.
NoRm ==
    [state |-> {}, replace |-> PAGEIDNULL, replaced |-> PAGEIDNULL, b_replace |-> PAGEIDNULL,
     b_replaced |-> PAGEIDNULL, remove_key |-> PAGEIDNULL, remove_max |-> PAGEIDNULL,
     page_id |-> PAGEIDNULL, merged |-> FALSE]

Idle == [pc |-> "idle", op |-> "none", key |-> PAGEIDNULL, cur |-> PAGEIDNULL, stack |-> <<>>,
         tmp_key |-> PAGEIDNULL, sibling |-> PAGEIDNULL, old |-> PAGEIDNULL, is_root |-> FALSE,
         known |-> FALSE, rm |-> NoRm]

\* Where a thread is not inside the index.
Outside == {"idle", "gate", "passed", "raised", "alone", "keyed"}

TypeOK ==
    /\ page \in [Ids -> [leaf : BOOLEAN, isroot : BOOLEAN, ppid : IdOrNull, npid : IdOrNull,
                         bpid : IdOrNull, upbound : KeyOrNull, keys : Seq(Key), kids : Seq(Ids)]]
    /\ used \subseteq Ids /\ freed \subseteq Ids \ used /\ root \in used \cup freed
    /\ lock \in [Ids -> Thread \cup {"none"}]
    /\ \A t \in Thread :
        /\ th[t].pc \in Outside \cup {"descend", "lock", "level", "release", "adopt", "walk",
                                     "remove", "up", "delete"}
        /\ th[t].cur \in IdOrNull /\ th[t].sibling \in IdOrNull /\ th[t].old \in IdOrNull
        /\ th[t].stack \in Seq(Ids)
        /\ th[t].rm.state \subseteq {"last", "sibling", "merge"}
    /\ left \in Seq([op : {"insert", "remove", "delete"}, key : KeyOrNull])
    /\ done \subseteq Key
    /\ isd \in [flag : BOOLEAN, count_is : Nat, key : BOOLEAN, count_d : Nat]
    /\ deleted \in BOOLEAN

\* db_1_icreate makes a leaf the root; insertions of ascending keys, one after
\* the other, make the other trees from it: the ids of a level follow each
\* other, and those of the level above follow them.
Init ==
    \E tree \in Trees :
        LET m == Len(tree.leaves)
            k == Len(tree.pivots)
            top == IF k <= 1 THEN m + k ELSE m + k + 1
            Before(j) == FoldLeft(LAMBDA n, l : n + l, 0, SubSeq(tree.pivots, 1, j - 1))
            Bound(i) == IF i = m THEN PAGEIDNULL ELSE Last(tree.leaves[i])
            Above(i) == IF k = 0 THEN PAGEIDNULL
                        ELSE m + (CHOOSE j \in 1..k : Before(j) < i /\ i <= Before(j + 1))
            \* page id between pages lo and hi of its level, with its parent
            Placed(p, id, lo, hi, par) ==
                [p EXCEPT !.ppid = par, !.bpid = IF id = lo THEN PAGEIDNULL ELSE id - 1,
                          !.npid = IF id = hi THEN PAGEIDNULL ELSE id + 1]
            Leaf(i) == Placed([NewLeaf EXCEPT !.keys = tree.leaves[i], !.upbound = Bound(i)],
                              i, 1, m, Above(i))
            Pivot(j) == Placed([NewPivot EXCEPT
                                  !.keys = [i \in 1..tree.pivots[j] - 1 |-> Bound(Before(j) + i)],
                                  !.kids = [i \in 1..tree.pivots[j] |-> Before(j) + i],
                                  !.upbound = Bound(Before(j + 1))],
                               m + j, m + 1, m + k, IF k = 1 THEN PAGEIDNULL ELSE top)
            Top == [NewPivot EXCEPT !.keys = [j \in 1..k - 1 |-> Bound(Before(j + 1))],
                                    !.kids = [j \in 1..k |-> m + j]]
        IN /\ root = top
           /\ used = 1..top
           /\ page = [p \in Ids |-> [CASE p <= m -> Leaf(p)
                                       [] p \in m + 1..m + k -> Pivot(p - m)
                                       [] p = top /\ k > 1 -> Top
                                       [] OTHER -> NewLeaf
                                     EXCEPT !.isroot = (p = top)]]
           /\ left = tree.left
           /\ done = UNION {ToSet(tree.leaves[i]) : i \in 1..m}
    /\ freed = {}
    /\ lock = [p \in Ids |-> "none"]
    /\ th = [t \in Thread |-> Idle]
    /\ isd = [flag |-> FALSE, count_is |-> 0, key |-> FALSE, count_d |-> 0]
    /\ deleted = FALSE
    /\ fault = "none"

-----------------------------------------------------------------------------
(* The way into an operation *)

\* Thread t is at pc.  After a fault nobody moves.
At(t, pc) == fault = "none" /\ th[t].pc = pc
Cur(t) == page[th[t].cur]

\* mp_index_create: some free ids, here the smallest.
Fresh(n) == CHOOSE p \in Ids \ (used \cup freed) :
                Cardinality({q \in Ids \ (used \cup freed) : q < p}) = n - 1

\* What a thread does when it comes to page p on its way down.
Reaching(r, p) ==
    [r EXCEPT !.cur = p,
              !.pc = CASE ~page[p].leaf -> "descend"
                       [] r.op = "insert" -> "lock"
                       [] r.op = "remove" -> "remove"
                       [] OTHER -> "walk"]

\* bound: the next of the operations left
NextIs(op, k) == left # <<>> /\ Head(left) = [op |-> op, key |-> k] /\ left' = Tail(left)

\* An insertion or a removal reads the root's id before it takes the lock, ...
Begin(t, op, k) ==
    /\ At(t, "idle") /\ ~deleted
    /\ th' = [th EXCEPT ![t] = [Idle EXCEPT !.pc = "gate", !.op = op, !.key = k, !.tmp_key = k, !.cur = root]]
    /\ UNCHANGED <<page, used, freed, root, lock, done, isd, deleted, fault>>

InsertBegin(t, k) == NextIs("insert", k) /\ Begin(t, "insert", k)
RemoveBegin(t, k) == NextIs("remove", k) /\ Begin(t, "remove", k)

\* ... a search after that.
SearchBegin(t, k) ==
    /\ At(t, "idle") /\ k \in done /\ ~deleted
    /\ ~isd.flag
    /\ th' = [th EXCEPT ![t] = [Idle EXCEPT !.pc = "passed", !.op = "search", !.key = k, !.tmp_key = k]]
    /\ UNCHANGED <<page, used, freed, root, lock, done, isd, deleted, fault, left>>

AtGate(t, from, to) ==
    /\ At(t, from)
    /\ th' = [th EXCEPT ![t].pc = to]
    /\ UNCHANGED <<page, used, freed, root, lock, done, deleted, fault, left>>

\* isd_is_require: the flag is seen down; ...
PassFlag(t) ==
    /\ AtGate(t, "gate", "passed") /\ th[t].op # "remove"
    /\ ~isd.flag
    /\ UNCHANGED isd

\* isd_d_require: the flag goes up, nobody is counted, the key is seen free; ...
RaiseFlag(t) ==
    /\ AtGate(t, "gate", "raised") /\ th[t].op = "remove"
    /\ isd' = [isd EXCEPT !.flag = TRUE]

SeeNobody(t) == AtGate(t, "raised", "alone") /\ isd.count_is = 0 /\ UNCHANGED isd
SeeKey(t) == AtGate(t, "alone", "keyed") /\ ~isd.key /\ UNCHANGED isd

\* ... and the thread is counted, with the key in its hands if it removes.
Entered(t) ==
    IF th[t].op = "remove" THEN [isd EXCEPT !.key = TRUE, !.count_d = @ + 1]
    ELSE [isd EXCEPT !.count_is = @ + 1]

Crowds(t) ==
    \E u \in Thread \ {t} : th[u].pc \notin Outside /\ "remove" \in {th[t].op, th[u].op}

\* The root a thread goes to.
Entry(t) == IF th[t].op = "search" THEN root ELSE th[t].cur

Enter(t) ==
    /\ At(t, "passed") \/ At(t, "keyed")
    /\ ~Crowds(t) /\ Entry(t) \in used
    /\ th' = [th EXCEPT ![t] = Reaching([@ EXCEPT !.known = th[t].key \in done], Entry(t))]
    /\ isd' = Entered(t)
    /\ UNCHANGED <<page, used, freed, root, lock, done, deleted, fault, left>>

\* Somebody is inside, or the root that was read is no more.
EnterFails(t) ==
    /\ At(t, "passed") \/ At(t, "keyed")
    /\ Crowds(t) \/ Entry(t) \notin used
    /\ fault' = IF Crowds(t) THEN "crowded" ELSE "freed"
    /\ isd' = Entered(t)
    /\ UNCHANGED <<page, used, freed, root, lock, th, done, deleted, left>>

\* isd_is_release, and isd_d_release, where the last one out takes the flag down.
Left(t) ==
    IF th[t].op = "remove"
    THEN [isd EXCEPT !.key = FALSE, !.count_d = @ - 1, !.flag = @ /\ isd.count_d # 1]
    ELSE [isd EXCEPT !.count_is = @ - 1]

\* The operation is over, and gives its side of the lock back ...
Finished(t) == th' = [th EXCEPT ![t] = Idle] /\ isd' = Left(t)

\* ... or goes away with it.
Unreleased(t) == th' = [th EXCEPT ![t] = Idle] /\ UNCHANGED isd

-----------------------------------------------------------------------------
(* db_1_iinsert and db_1_isearch *)

\* Thread t is about to change page p.
Writing(t, p) == At(t, "level") /\ th[t].cur = p /\ th[t].tmp_key \notin ToSet(page[p].keys)

Descend(t) ==
    /\ At(t, "descend")
    /\ th' = [th EXCEPT ![t] =
                Reaching([@ EXCEPT !.stack = IF th[t].op = "search" THEN @ ELSE Append(@, th[t].cur)],
                         blink_pivot_scan(Cur(t), th[t].key))]
    /\ UNCHANGED <<page, used, freed, root, lock, done, isd, deleted, fault, left>>

\* The page is read without its lock, so that a write may be seen half done.
TornRead(t) ==
    /\ At(t, "descend") \/ At(t, "walk")
    /\ \E u \in Thread \ {t} : Writing(u, th[t].cur)
    /\ fault' = "torn"
    /\ UNCHANGED <<page, used, freed, root, lock, th, done, isd, deleted, left>>

\* isearch goes right along the leaves ...
WalkRight(t) ==
    /\ At(t, "walk")
    /\ th[t].key > Cur(t).upbound
    /\ th' = [th EXCEPT ![t].cur = Cur(t).npid]
    /\ UNCHANGED <<page, used, freed, root, lock, done, isd, deleted, fault, left>>

\* Mutant: the search ends at the leaf it comes down to.
SearchEndsEarly(t) ==
    /\ At(t, "walk")
    /\ Finished(t)
    /\ UNCHANGED <<page, used, freed, root, lock, done, deleted, fault, left>>

\* ... to the one that should have the key.
SearchEnd(t) ==
    /\ At(t, "walk")
    /\ th[t].key <= Cur(t).upbound
    /\ Finished(t)
    /\ UNCHANGED <<page, used, freed, root, lock, done, deleted, fault, left>>

\* mp_require_page_wlock and __move_right: the lock is released again when the
\* key belongs further to the right.
MoveRight(t) ==
    /\ At(t, "lock")
    /\ lock[th[t].cur] = "none"
    /\ th[t].tmp_key > Cur(t).upbound
    /\ th' = [th EXCEPT ![t].cur = Cur(t).npid]
    /\ UNCHANGED <<page, used, freed, root, lock, done, isd, deleted, fault, left>>

Lock(t) ==
    /\ At(t, "lock")
    /\ lock[th[t].cur] = "none"
    /\ th[t].tmp_key <= Cur(t).upbound
    /\ lock' = [lock EXCEPT ![th[t].cur] = t]
    /\ th' = [th EXCEPT ![t].pc = IF th[t].old = PAGEIDNULL THEN "level" ELSE "release"]
    /\ UNCHANGED <<page, used, freed, root, done, isd, deleted, fault, left>>

\* The page takes the entry, or the separator: the insertion is over.
InsertEntry(t) ==
    /\ At(t, "level") /\ ~th[t].is_root
    /\ blink_is_node_safe(Cur(t))
    /\ LET r == th[t] IN
        /\ r.tmp_key \notin ToSet(Cur(t).keys)
        /\ page' = [page EXCEPT ![r.cur] =
                      IF @.leaf THEN blink_entry_insert_to_leaf(@, r.tmp_key)
                      ELSE blink_entry_insert_to_pivot(@, r.tmp_key, r.sibling, "SEP")]
        /\ fault' = IF ~Cur(t).leaf /\ Misplaced(Cur(t), r.tmp_key, "SEP") THEN "misplaced" ELSE fault
        /\ lock' = [lock EXCEPT ![r.cur] = "none"]
        /\ done' = done \cup {r.key}
    /\ Finished(t)
    /\ UNCHANGED <<used, freed, root, deleted, left>>

\* The key is there: the insertion returns false, and keeps its side of the
\* index's lock.
InsertDuplicate(t) ==
    /\ At(t, "level") /\ ~th[t].is_root
    /\ blink_is_node_safe(Cur(t))
    /\ th[t].tmp_key \in ToSet(Cur(t).keys)
    /\ lock' = [lock EXCEPT ![th[t].cur] = "none"]
    /\ Unreleased(t)
    /\ UNCHANGED <<page, used, freed, root, done, deleted, fault, left>>

\* The halves of the current page, and the page after them.
Halves(t) ==
    IF Cur(t).leaf THEN blink_leaf_split(Cur(t), th[t].tmp_key)
    ELSE blink_pivot_split(Cur(t), th[t].tmp_key, th[t].sibling)

\* Page p becomes h[1] and h[2], the new page q, linked in behind it.
Linked(p, q, h) ==
    [i \in Ids |->
        CASE i = p -> [h[1] EXCEPT !.npid = q]
          [] i = q -> [h[2] EXCEPT !.npid = page[p].npid, !.bpid = p]
          [] i = page[p].npid -> [page[i] EXCEPT !.bpid = q]
          [] OTHER -> page[i]]

\* up: the page to go on with, or PAGEIDNULL for a new one.
SplitFault(t, up) ==
    CASE ~Cur(t).leaf /\ MisplacedInSplit(Cur(t), th[t].tmp_key) -> "misplaced"
      [] up = PAGEIDNULL /\ ~Cur(t).isroot -> "two roots"
      [] up \in freed -> "freed"
      [] OTHER -> fault

\* A full page without a parent: it gets one, which is nobody's yet.
SplitRoot(t) ==
    /\ At(t, "level") /\ ~th[t].is_root
    /\ ~blink_is_node_safe(Cur(t))
    /\ Cur(t).ppid = PAGEIDNULL
    /\ LET p == th[t].cur
           q == Fresh(1)
           top == Fresh(2)
           h == Halves(t)
       IN /\ page' = [Linked(p, q, h) EXCEPT
                        ![p].ppid = top, ![p].isroot = FALSE,
                        ![top] = [NewPivot EXCEPT !.isroot = TRUE, !.keys = <<h[1].upbound>>,
                                                  !.kids = <<p, q>>]]
          /\ used' = used \cup {q, top}
          /\ th' = [th EXCEPT ![t].pc = "release", ![t].old = p, ![t].cur = top, ![t].sibling = q,
                              ![t].tmp_key = h[1].upbound, ![t].is_root = TRUE]
    /\ fault' = SplitFault(t, PAGEIDNULL)
    /\ UNCHANGED <<freed, root, lock, done, isd, deleted, left>>

\* Any other: the way up is the stack, or the parent's id where the stack is
\* empty because the tree has grown meanwhile.
Split(t) ==
    /\ At(t, "level") /\ ~th[t].is_root
    /\ ~blink_is_node_safe(Cur(t))
    /\ Cur(t).ppid # PAGEIDNULL
    /\ LET r == th[t]
           p == r.cur
           q == Fresh(1)
           h == Halves(t)
           up == IF r.stack = <<>> THEN Cur(t).ppid ELSE Last(r.stack)
       IN /\ page' = [Linked(p, q, h) EXCEPT ![p].ppid = up]
          /\ used' = used \cup {q}
          /\ th' = [th EXCEPT ![t].pc = "lock", ![t].old = p, ![t].cur = up, ![t].sibling = q,
                              ![t].tmp_key = h[1].upbound,
                              ![t].stack = IF @ = <<>> THEN @ ELSE Front(@)]
          /\ fault' = SplitFault(t, up)
    /\ UNCHANGED <<freed, root, lock, done, isd, deleted, left>>

\* Mutant: the page that was split stays locked.
ReleaseForgets(t) ==
    /\ At(t, "release")
    /\ th' = [th EXCEPT ![t].pc = "adopt", ![t].old = PAGEIDNULL]
    /\ UNCHANGED <<page, used, freed, root, lock, done, isd, deleted, fault, left>>

Release(t) ==
    /\ At(t, "release")
    /\ lock' = [lock EXCEPT ![th[t].old] = "none"]
    /\ th' = [th EXCEPT ![t].pc = "adopt", ![t].old = PAGEIDNULL]
    /\ UNCHANGED <<page, used, freed, root, done, isd, deleted, fault, left>>

\* Only now does the new page learn its parent.
Adopt(t) ==
    /\ At(t, "adopt")
    /\ page' = [page EXCEPT ![th[t].sibling].ppid = th[t].cur]
    /\ th' = [th EXCEPT ![t].pc = "level"]
    /\ UNCHANGED <<used, freed, root, lock, done, isd, deleted, fault, left>>

\* Mutant: the id of the parent is entered.
SetRootAbove(t) ==
    /\ At(t, "level") /\ th[t].is_root
    /\ blink_is_node_safe(Cur(t))
    /\ root' = Cur(t).ppid
    /\ done' = done \cup {th[t].key}
    /\ Finished(t)
    /\ UNCHANGED <<page, used, freed, lock, deleted, fault, left>>

\* The index's page gets the id of the new root.
SetRoot(t) ==
    /\ At(t, "level") /\ th[t].is_root
    /\ blink_is_node_safe(Cur(t))
    /\ root' = th[t].cur
    /\ done' = done \cup {th[t].key}
    /\ Finished(t)
    /\ UNCHANGED <<page, used, freed, lock, deleted, fault, left>>

\* Others have filled the new root, which is split without a lock.
RootIsFull(t) ==
    /\ At(t, "level") /\ th[t].is_root
    /\ ~blink_is_node_safe(Cur(t))
    /\ fault' = "undefined"
    /\ UNCHANGED <<page, used, freed, root, lock, th, done, isd, deleted, left>>

-----------------------------------------------------------------------------
(* db_1_iremove.  Nobody else is inside: the model has ended otherwise. *)

\* The side of a merge that is given back: the page to the right.
Gone(t, a) == IF Cur(t).bpid = PAGEIDNULL THEN a ELSE th[t].cur

\* The page next to p that helps out: the one before it, if there is one.
Neighbour(p) == IF p.bpid # PAGEIDNULL THEN p.bpid ELSE p.npid

\* The key is not there: the removal returns false, and keeps its side.
RemoveUnexist(t) ==
    /\ At(t, "remove")
    /\ ~Has(Cur(t), th[t].key)
    /\ Unreleased(t)
    /\ UNCHANGED <<page, used, freed, root, lock, done, deleted, fault, left>>

\* The leaf without the key.
Rest(t) == blink_entry_remove_from_leaf(Cur(t), th[t].key)
LeafIsEnough(t) == Cur(t).isroot \/ RecordEnough(Rest(t), Len(Rest(t).keys))
WasLast(t) == Last(Cur(t).keys) = th[t].key /\ ~Cur(t).isroot

\* A leaf that has lost its last key, which is replaced above ...
LastOut(p, last) == IF last THEN [p EXCEPT !.upbound = Last(p.keys)] ELSE p

RemoveKey(t) ==
    /\ At(t, "remove") /\ Has(Cur(t), th[t].key)
    /\ LeafIsEnough(t)
    /\ page' = [page EXCEPT ![th[t].cur] = LastOut(Rest(t), WasLast(t))]
    /\ done' = done \ {th[t].key}
    /\ IF WasLast(t)
       THEN /\ th' = [th EXCEPT ![t].pc = "up",
                                ![t].rm = [NoRm EXCEPT !.state = {"last"}, !.replaced = th[t].key,
                                                       !.replace = Last(Rest(t).keys)]]
            /\ UNCHANGED isd
       ELSE Finished(t)
    /\ UNCHANGED <<used, freed, root, lock, deleted, fault, left>>

\* The leaf has too few entries: next to it is page a.
TooFew(t, a) ==
    /\ At(t, "remove") /\ Has(Cur(t), th[t].key)
    /\ ~LeafIsEnough(t)
    /\ a = Neighbour(Cur(t))

Lends(a) == RecordEnough(page[a], Len(page[a].keys) - 1)

\* ... with what goes up for it.
LastUp(r, t, p) ==
    IF WasLast(t) THEN [r EXCEPT !.state = @ \cup {"last"}, !.replaced = th[t].key, !.replace = Last(p.keys)]
    ELSE r

\* [cur] <- [a]: the first leaf gets the first entry of the next.
BorrowFromRight(t, a) ==
    /\ TooFew(t, a) /\ a # PAGEIDNULL /\ Lends(a)
    /\ Cur(t).bpid = PAGEIDNULL
    /\ LET k == Head(page[a].keys)
           b_replaced == IF Cur(t).upbound = th[t].key THEN th[t].key ELSE Last(Rest(t).keys)
       IN /\ page' = [page EXCEPT ![th[t].cur] = [blink_entry_insert_to_leaf(Rest(t), k) EXCEPT !.upbound = k],
                                  ![a] = blink_entry_remove_from_leaf(@, k)]
          /\ th' = [th EXCEPT ![t].pc = "up",
                              ![t].rm = [NoRm EXCEPT !.state = {"sibling"}, !.b_replace = k, !.b_replaced = b_replaced]]
    /\ done' = done \ {th[t].key}
    /\ UNCHANGED <<used, freed, root, lock, isd, deleted, fault, left>>

\* [a] -> [cur]: any other gets the last entry of the leaf before it.
BorrowFromLeft(t, a) ==
    /\ TooFew(t, a) /\ a # PAGEIDNULL /\ Lends(a)
    /\ Cur(t).bpid # PAGEIDNULL /\ Rest(t).keys # <<>>
    /\ LET k == Last(page[a].keys)
           lender == blink_entry_remove_from_leaf(page[a], k)
           cur == blink_entry_insert_to_leaf(Rest(t), k)
       IN /\ page' = [page EXCEPT ![th[t].cur] = LastOut(cur, WasLast(t)),
                                  ![a] = [lender EXCEPT !.upbound = Last(lender.keys)]]
          /\ th' = [th EXCEPT ![t].pc = "up",
                              ![t].rm = LastUp([NoRm EXCEPT !.state = {"sibling"}, !.b_replaced = k,
                                                            !.b_replace = Last(lender.keys)], t, cur)]
    /\ done' = done \ {th[t].key}
    /\ UNCHANGED <<used, freed, root, lock, isd, deleted, fault, left>>

\* Mutant: the page after p still has p before it.
UnlinkedOneWay(f, a, p) == [f EXCEPT ![a].npid = f[p].npid]

\* Page p behind page a has gone into it: the page after p is after a now.
Unlinked(f, a, p) ==
    [i \in Ids |-> CASE i = a -> [f[a] EXCEPT !.npid = f[p].npid]
                     [] i = f[p].npid -> [f[i] EXCEPT !.bpid = a]
                     [] OTHER -> f[i]]

\* [cur] <- [a]: the next leaf goes into the first one.
MergeFromRight(t, a) ==
    /\ TooFew(t, a) /\ a # PAGEIDNULL /\ ~Lends(a)
    /\ Cur(t).bpid = PAGEIDNULL
    /\ Len(Rest(t).keys) + Len(page[a].keys) <= LeafEntries
    /\ page[Gone(t, a)].npid # PAGEIDNULL
    /\ page' = Unlinked([page EXCEPT ![th[t].cur] = blink_merge_leaf(page[a], Rest(t))], th[t].cur, a)
    /\ used' = used \ {a} /\ freed' = freed \cup {a}
    /\ th' = [th EXCEPT ![t].pc = "up",
                        ![t].rm = [NoRm EXCEPT !.state = {"merge"}, !.page_id = th[t].cur,
                                               !.remove_key = Cur(t).upbound]]
    /\ done' = done \ {th[t].key}
    /\ UNCHANGED <<root, lock, isd, deleted, fault, left>>

\* [a] <- [cur]: any other goes into the leaf before it, and is given back on
\* the way up.
MergeIntoLeft(t, a) ==
    /\ TooFew(t, a) /\ a # PAGEIDNULL /\ ~Lends(a)
    /\ Cur(t).bpid # PAGEIDNULL /\ Rest(t).keys # <<>>
    /\ Len(Rest(t).keys) + Len(page[a].keys) <= LeafEntries
    /\ page[Gone(t, a)].npid # PAGEIDNULL
    /\ LET to == blink_merge_leaf(Rest(t), page[a])
       IN /\ page' = Unlinked([page EXCEPT ![th[t].cur] = Rest(t), ![a] = to],
                              a, th[t].cur)
          /\ th' = [th EXCEPT ![t].pc = "up",
                              ![t].rm = LastUp([NoRm EXCEPT !.state = {"merge"}, !.page_id = a, !.merged = TRUE,
                                                            !.remove_key = page[a].upbound,
                                                            !.remove_max = to.upbound], t, Rest(t))]
    /\ done' = done \ {th[t].key}
    /\ UNCHANGED <<used, freed, root, lock, isd, deleted, fault, left>>

LeafFault(t, a) ==
    CASE a = PAGEIDNULL -> "undefined"
      [] Cur(t).bpid # PAGEIDNULL /\ Rest(t).keys = <<>> -> "empty leaf"
      [] Lends(a) -> "none"
      [] Len(Rest(t).keys) + Len(page[a].keys) > LeafEntries -> "overflow"
      [] page[Gone(t, a)].npid = PAGEIDNULL -> "last page"
      [] OTHER -> "none"

RemoveFails(t) ==
    \E a \in IdOrNull :
        /\ TooFew(t, a)
        /\ LeafFault(t, a) # "none"
        /\ fault' = LeafFault(t, a)
        /\ UNCHANGED <<page, used, freed, root, lock, th, done, isd, deleted, left>>

\* One level up.  The page there with the key of a last entry replaced, or with
\* its upper bound changed if it is not there ...
Up(t) == Last(th[t].stack)

Replaced(t) ==
    LET r == th[t].rm
        p == page[Up(t)]
    IN IF "last" \notin r.state THEN p
       ELSE IF Has(p, r.replaced) THEN blink_entry_update_pivot_key(p, r.replace, r.replaced)
       ELSE [p EXCEPT !.upbound = r.replace]

\* ... and with the key of a changed neighbour replaced, unless that is under
\* the page to the left, whose upper bound is changed then.
NeighbourIsLeft(t) ==
    /\ "sibling" \in th[t].rm.state
    /\ Replaced(t).bpid # PAGEIDNULL
    /\ th[t].rm.b_replaced < Head(Replaced(t).keys)

Updated(t) ==
    LET r == th[t].rm
    IN IF "sibling" \in r.state /\ ~NeighbourIsLeft(t)
       THEN blink_entry_update_pivot_key(Replaced(t), r.b_replace, r.b_replaced)
       ELSE Replaced(t)

\* What is still to be done above.
StillToDo(t) ==
    LET r == th[t].rm
    IN r.state \ ((IF Has(page[Up(t)], r.replaced) THEN {"last"} ELSE {})
                  \cup (IF NeighbourIsLeft(t) THEN {} ELSE {"sibling"}))

\* The pages with the one above, p; the leaf learns its parent.
PagesAbove(t, p) ==
    [i \in Ids |-> CASE i = Up(t) -> p
                     [] i = th[t].cur -> [page[i] EXCEPT !.ppid = Up(t)]
                     [] i = p.bpid /\ NeighbourIsLeft(t) -> [page[i] EXCEPT !.upbound = th[t].rm.b_replace]
                     [] OTHER -> page[i]]

\* A leaf that was merged into the one before it is given back only now.
Merged(t) == IF th[t].rm.merged THEN {th[t].cur} ELSE {}
GiveBack(ps) == used' = used \ ps /\ freed' = freed \cup ps

\* Thread t goes on with r, or has done all there is.
GoOn(t, r) ==
    IF r.state = {} THEN Finished(t)
    ELSE /\ th' = [th EXCEPT ![t].cur = Up(t), ![t].stack = Front(@), ![t].rm = [r EXCEPT !.merged = FALSE]]
         /\ UNCHANGED isd

KeysEndless(t) ==
    LET r == th[t].rm
        p == page[Up(t)]
    IN \/ "last" \in r.state /\ ~Has(p, r.replaced) /\ UpdateEndless(p, r.replaced)
       \/ /\ "sibling" \in r.state /\ ~NeighbourIsLeft(t)
          /\ ~Has(Replaced(t), r.b_replaced) /\ UpdateEndless(Replaced(t), r.b_replaced)

Above(t) == At(t, "up") /\ th[t].stack # <<>> /\ ~KeysEndless(t)

\* Keys are replaced, and no entry has to go.
RemoveUpdates(t) ==
    /\ Above(t)
    /\ "merge" \notin th[t].rm.state
    /\ page' = PagesAbove(t, Updated(t))
    /\ GoOn(t, [th[t].rm EXCEPT !.state = StillToDo(t)])
    /\ UNCHANGED <<used, freed, root, lock, done, deleted, fault, left>>

\* The entry of the merged pages goes.  A leftest entry stands for a page that
\* was merged into one under the page to the left.
Without(t) == blink_entry_remove_from_pivot(Updated(t), th[t].rm.remove_key)
Leftest(t) == th[t].rm.remove_key < Head(Updated(t).keys)
EntryGoes(t) == Above(t) /\ "merge" \in th[t].rm.state

\* The root may keep few keys.  Without any, its only kid takes its place; that
\* is not marked as a root, and its parent is the page given back.
RemoveFromRoot(t) ==
    /\ EntryGoes(t)
    /\ page[Up(t)].isroot
    /\ page' = PagesAbove(t, Without(t))
    /\ LET empty == Without(t).keys = <<>>
       IN /\ GiveBack(Merged(t) \cup (IF empty THEN {Up(t)} ELSE {}))
          /\ root' = IF empty THEN th[t].rm.page_id ELSE root
    /\ Finished(t)
    /\ UNCHANGED <<lock, done, deleted, fault, left>>

\* A pivot page keeps enough keys.  For a leftest entry the page to the left
\* has a new last key, or a new upper bound.
RemoveFromPivot(t, a) ==
    /\ EntryGoes(t)
    /\ ~page[Up(t)].isroot /\ RecordEnough(Without(t), Len(Without(t).keys))
    /\ a = Neighbour(Without(t)) /\ a # PAGEIDNULL
    /\ LET r == th[t].rm
           inside == Has(page[a], r.remove_key)
           todo == StillToDo(t) \ {"merge"}
       IN /\ Leftest(t) /\ ~inside => ~UpdateEndless(page[a], r.remove_key)
          /\ IF ~Leftest(t) THEN /\ page' = PagesAbove(t, Without(t))
                                 /\ GoOn(t, [r EXCEPT !.state = todo])
             ELSE IF inside
             THEN /\ page' = [PagesAbove(t, Without(t)) EXCEPT
                                ![a] = blink_entry_update_pivot_key(@, r.remove_max, r.remove_key)]
                  /\ GoOn(t, [r EXCEPT !.state = todo])
             ELSE /\ page' = [PagesAbove(t, Without(t)) EXCEPT ![a].upbound = r.remove_max]
                  /\ GoOn(t, [r EXCEPT !.state = todo \cup {"sibling"}, !.b_replace = r.remove_max,
                                       !.b_replaced = r.remove_key])
    /\ GiveBack(Merged(t))
    /\ UNCHANGED <<root, lock, done, deleted, fault, left>>

\* [a] <- [cur]: a pivot page with too few keys goes into the one before it.
MergePivots(t, a) ==
    /\ EntryGoes(t)
    /\ ~page[Up(t)].isroot /\ ~RecordEnough(Without(t), Len(Without(t).keys))
    /\ a = Without(t).bpid /\ a # PAGEIDNULL
    /\ ~RecordEnough(page[a], Len(page[a].keys))
    /\ Len(page[a].keys) + 1 + Len(Without(t).keys) < PAIRENTRYS
    /\ LET r == th[t].rm
           key == IF Leftest(t) THEN r.remove_max ELSE page[a].upbound
           to == blink_merge_pivot(Without(t), page[a], key)
       IN /\ page' = Unlinked([PagesAbove(t, Without(t)) EXCEPT ![a] = to], a, Up(t))
          /\ GoOn(t, [r EXCEPT !.state = StillToDo(t), !.page_id = a, !.remove_max = to.upbound,
                               !.remove_key = IF Leftest(t) THEN @ ELSE page[a].upbound])
          /\ GiveBack(Merged(t) \cup {Up(t)})
    /\ UNCHANGED <<root, lock, done, deleted, fault, left>>

UpFault(t) ==
    LET p == Without(t)
        a == Neighbour(p)
    IN CASE th[t].stack = <<>> -> "above root"
         [] KeysEndless(t) -> "endless"
         [] "merge" \notin th[t].rm.state \/ page[Up(t)].isroot -> "none"
         [] a = PAGEIDNULL -> "undefined"
         [] RecordEnough(p, Len(p.keys)) ->
              IF Leftest(t) /\ ~Has(page[a], th[t].rm.remove_key) /\ UpdateEndless(page[a], th[t].rm.remove_key)
              THEN "endless" ELSE "none"
         [] p.bpid = PAGEIDNULL -> "lost page"
         [] RecordEnough(page[a], Len(page[a].keys)) -> "old bound"
         [] Len(page[a].keys) + 1 + Len(p.keys) >= PAIRENTRYS -> "overflow"
         [] OTHER -> "none"

RemoveUpFails(t) ==
    /\ At(t, "up")
    /\ UpFault(t) # "none"
    /\ fault' = UpFault(t)
    /\ UNCHANGED <<page, used, freed, root, lock, th, done, isd, deleted, left>>

-----------------------------------------------------------------------------
(* db_1_idelete.  It takes no lock; here nothing else is under way. *)

\* The first page of a level has the first page of the level below as a kid.
LeftestKid(p) == IF page[p].leaf THEN PAGEIDNULL ELSE Head(page[p].kids)

DeleteBegin(t) ==
    /\ NextIs("delete", PAGEIDNULL)
    /\ At(t, "idle") /\ \A u \in Thread : th[u].pc = "idle"
    /\ ~deleted
    /\ th' = [th EXCEPT ![t] = [Idle EXCEPT !.pc = "delete", !.op = "delete", !.cur = root,
                                            !.sibling = LeftestKid(root)]]
    /\ done' = {}
    /\ UNCHANGED <<page, used, freed, root, lock, isd, deleted, fault>>

\* Level by level, each from left to right; at last the index's own page.
DeletePage(t) ==
    /\ At(t, "delete")
    /\ GiveBack({th[t].cur})
    /\ \/ /\ Cur(t).npid # PAGEIDNULL
          /\ th' = [th EXCEPT ![t].cur = Cur(t).npid]
          /\ UNCHANGED deleted
       \/ /\ Cur(t).npid = PAGEIDNULL /\ th[t].sibling # PAGEIDNULL
          /\ th' = [th EXCEPT ![t].cur = th[t].sibling, ![t].sibling = LeftestKid(th[t].sibling)]
          /\ UNCHANGED deleted
       \/ /\ Cur(t).npid = PAGEIDNULL /\ th[t].sibling = PAGEIDNULL
          /\ th' = [th EXCEPT ![t] = Idle]
          /\ deleted' = TRUE
    /\ UNCHANGED <<page, root, lock, done, isd, fault, left>>

-----------------------------------------------------------------------------
RemoveStep(t) ==
    \/ RemoveUnexist(t) \/ RemoveKey(t) \/ RemoveFails(t)
    \/ \E a \in Ids : BorrowFromRight(t, a) \/ BorrowFromLeft(t, a) \/ MergeFromRight(t, a) \/ MergeIntoLeft(t, a)
    \/ RemoveUpdates(t) \/ RemoveFromRoot(t)
    \/ \E a \in Ids : RemoveFromPivot(t, a) \/ MergePivots(t, a)
    \/ RemoveUpFails(t)

Step(t) ==
    \/ PassFlag(t) \/ RaiseFlag(t) \/ SeeNobody(t) \/ SeeKey(t) \/ Enter(t) \/ EnterFails(t)
    \/ Descend(t) \/ TornRead(t) \/ WalkRight(t) \/ SearchEnd(t)
    \/ MoveRight(t) \/ Lock(t)
    \/ InsertEntry(t) \/ InsertDuplicate(t) \/ SplitRoot(t) \/ Split(t)
    \/ Release(t) \/ Adopt(t) \/ SetRoot(t) \/ RootIsFull(t)
    \/ RemoveStep(t) \/ DeletePage(t)

Next ==
    \E t \in Thread :
        \/ \E k \in Key : InsertBegin(t, k) \/ RemoveBegin(t, k)
        \/ \E k \in Searched : SearchBegin(t, k)
        \/ DeleteBegin(t)
        \/ Step(t)

Spec == Init /\ [][Next]_vars /\ \A t \in Thread : WF_vars(Step(t))

-----------------------------------------------------------------------------
\* One step of a search for k that has come to page p.
Toward(p, k) ==
    IF ~page[p].leaf THEN blink_pivot_scan(page[p], k)
    ELSE IF k > page[p].upbound /\ page[p].npid # PAGEIDNULL THEN page[p].npid ELSE p

\* The page where it ends: a way is no longer than there are pages.
LeafFor(k) == FoldLeft(LAMBDA p, i : Toward(p, k), root, [i \in 1..Cardinality(used) |-> i])

\* Nobody is changing more than one page.  (Insertions may be: they leave each
\* level in order, and searches go right.)
Steady == fault = "none" /\ ~deleted /\ \A t \in Thread : th[t].pc \notin {"up", "delete"}

\* A key that was inserted is found, whatever insertions are under way, and so
\* is one that was not removed, whatever removals there have been.
KeysAreFound == Steady => \A k \in done : Has(page[LeafFor(k)], k)

\* A removal has gone down from a root that was no root any more when it came in.
FromOldRoot(t) == Head(Append(th[t].stack, th[t].cur)) # root

\* A search or a removal of a key that was there when it came in ends at a leaf
\* that has the key, whatever was split while it was on its way.  A removal
\* does not go right: it may miss the key when the root it waited with was
\* split meanwhile.
KeysAreReached ==
    [][\A t \in Thread : th[t].pc \in {"walk", "remove"} /\ th'[t].pc = "idle" /\ th[t].known =>
          Has(Cur(t), th[t].key) \/ (th[t].op = "remove" /\ FromOldRoot(t))]_vars

\* The pages of a level are one chain in the order of their keys: a page's keys
\* are above the upper bound of the page before it and up to its own.
LevelsInOrder ==
    \A p \in used :
        /\ \A i \in 1..Len(page[p].keys) :
             /\ i > 1 => page[p].keys[i - 1] < page[p].keys[i]
             /\ page[p].keys[i] <= page[p].upbound
        /\ page[p].npid = PAGEIDNULL <=> page[p].upbound = PAGEIDNULL
        /\ page[p].npid # PAGEIDNULL =>
             LET n == page[page[p].npid] IN
             /\ n.bpid = p /\ n.leaf = page[p].leaf
             /\ \A i \in 1..Len(n.keys) : page[p].upbound < n.keys[i]

\* With no insertion under way, each page but one has one entry in the level
\* above, whose key is the page's upper bound.
PivotsMatchPages ==
    (\A t \in Thread : th[t].op # "insert") =>
        /\ \A p \in used : page[p].isroot => \A q \in used : p \notin ToSet(page[q].kids)
        /\ \A p \in used : Cardinality({q \in used : p \in ToSet(page[q].kids)}) <= 1
        /\ Cardinality({p \in used : \A q \in used : p \notin ToSet(page[q].kids)}) = 1
        /\ \A q \in used : ToSet(page[q].kids) \subseteq used
        /\ \A q \in used : \A i \in 1..Len(page[q].kids) :
             page[page[q].kids[i]].upbound =
                 IF i <= Len(page[q].keys) THEN page[q].keys[i] ELSE page[q].upbound

\* The deletion of an index gives back every page of it, and opens none that
\* was given back before.
DeletionIsComplete ==
    /\ deleted => used = {}
    /\ \A t \in Thread : th[t].pc = "delete" => th[t].cur \in used

\* Splits, borrowings and merges leave a tree whose levels agree with each
\* other: no page is out of reach, none is used that was given back.
TreeIsWellFormed == (Steady => LevelsInOrder /\ PivotsMatchPages) /\ DeletionIsComplete

\* An operation went away with its side of the index's lock, and others wait; or
\* another removal took the flag down that a removal waits behind, so that searches
\* can keep it out as long as there are some.
Inside(ops) == {t \in Thread : th[t].op \in ops /\ th[t].pc \notin Outside}

Blocked ==
    \/ isd.count_d > Cardinality(Inside({"remove"}))
    \/ \E t \in Thread : th[t].op = "remove" /\
          \/ isd.count_is > Cardinality(Inside({"insert", "search"}))
          \/ th[t].pc = "raised" /\ ~isd.flag

\* Insertions, searches and removals come to their end: nobody waits for a
\* page's lock for ever, and no way up or to the right leads nowhere.
OperationsReturn ==
    \A t \in Thread : th[t].op # "none" ~> th[t].op = "none" \/ fault # "none" \/ Blocked

Deleting == deleted \/ \E t \in Thread : th[t].pc = "delete"
Contents == IF Deleting THEN {} ELSE UNION {ToSet(page[p].keys) : p \in {q \in used : page[q].leaf}}

Tree == INSTANCE Index WITH keys <- Contents

IndexStep ==
    \/ Deleting' /\ Tree!Drop
    \/ \E t \in Thread : th[t].op = "insert" /\ Tree!Insert(th[t].key)
    \/ \E t \in Thread : th[t].op = "remove" /\ Tree!Remove(th[t].key)

\* Each step adds the one key an insertion is about, takes out the one a removal
\* is about, or none: splits, borrowings and merges lose nothing.
ImplementsIndex == Tree!Init /\ [][IndexStep]_Contents
=============================================================================
