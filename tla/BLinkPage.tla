------------------------------ MODULE BLinkPage ------------------------------
(***************************************************************************)
(* The pages of a B-link index and what the functions of                   *)
(* src/index/b_page.c do to one or two of them.                            *)
(*                                                                         *)
(* A pivot page with n keys has n + 1 kids: kids[i] is for keys up to      *)
(* keys[i], the last one for the others.  Keys are numbers, PAGEIDNULL is  *)
(* the upper bound of the last page of a level.                            *)
(***************************************************************************)
EXTENDS Integers, Sequences, FiniteSets, SequencesExt

CONSTANTS
    Key,
    LeafEntries,    \* the most entries of a leaf
    PAIRENTRYS,     \* the pairs of a pivot page; the last one has no key
    PAGEIDNULL

ASSUME PageAssumption ==
    /\ Key \subseteq Nat \ {0}
    /\ LeafEntries \in Nat /\ LeafEntries >= 3
    /\ PAIRENTRYS \in Nat /\ PAIRENTRYS >= 4
    /\ PAGEIDNULL \in Nat /\ \A k \in Key : k < PAGEIDNULL

\* mp_index_create with blink_leaf_init and blink_pivot_init.
NewLeaf ==
    [leaf |-> TRUE, isroot |-> FALSE, ppid |-> PAGEIDNULL, npid |-> PAGEIDNULL,
     bpid |-> PAGEIDNULL, upbound |-> PAGEIDNULL, keys |-> <<>>, kids |-> <<>>]

NewPivot == [NewLeaf EXCEPT !.leaf = FALSE]

-----------------------------------------------------------------------------
(* Searches *)

\* How many of the keys s are less than k.
Below(s, k) == Cardinality({i \in 1..Len(s) : s[i] < k})

blink_pivot_scan(p, k) == p.kids[Below(p.keys, k) + 1]

Has(p, k) == k \in ToSet(p.keys)

-----------------------------------------------------------------------------
(* Insertions and splits *)

\* A leaf takes one more entry, a pivot page one more key.
blink_is_node_safe(p) ==
    IF p.leaf THEN Len(p.keys) < LeafEntries ELSE Len(p.keys) + 1 < PAIRENTRYS

blink_entry_insert_to_leaf(p, k) ==
    IF Has(p, k) THEN p ELSE [p EXCEPT !.keys = InsertAt(@, Below(@, k) + 1, k)]

\* A key behind the others gets the new page as its right kid.  Any other gets
\* it as its left kid, and for SEP the first two kids change places: right if
\* the key is in front.
blink_entry_insert_to_pivot(p, k, pid, type) ==
    LET i == Below(p.keys, k)
        kids == InsertAt(p.kids, i + 1, pid)
    IN [p EXCEPT !.keys = InsertAt(@, i + 1, k),
                 !.kids = IF i = Len(p.keys) THEN Append(@, pid)
                          ELSE IF type = "SEP" THEN [kids EXCEPT ![1] = kids[2], ![2] = kids[1]]
                          ELSE kids]

\* The new page does not come out to the right of the one that was split.
Misplaced(p, k, type) ==
    LET i == Below(p.keys, k) IN i < Len(p.keys) /\ (type = "MOVE" \/ i > 0)

\* Mutant: the new leaf gets one entry too few.
SplitSkipsOne(p, k) ==
    LET mid == Len(p.keys) \div 2 + 1
        max == p.keys[mid]
        from == [p EXCEPT !.keys = SubSeq(@, 1, mid), !.upbound = max]
        to == [NewLeaf EXCEPT !.keys = SubSeq(p.keys, mid + 2, Len(p.keys)), !.upbound = p.upbound]
    IN IF k > max THEN <<from, blink_entry_insert_to_leaf(to, k)>>
       ELSE <<blink_entry_insert_to_leaf(from, k), to>>

\* The two pages that a full leaf becomes.
blink_leaf_split(p, k) ==
    LET mid == Len(p.keys) \div 2 + 1
        max == p.keys[mid]
        from == [p EXCEPT !.keys = SubSeq(@, 1, mid), !.upbound = max]
        to == [NewLeaf EXCEPT !.keys = SubSeq(p.keys, mid + 1, Len(p.keys)), !.upbound = p.upbound]
    IN IF k > max THEN <<from, blink_entry_insert_to_leaf(to, k)>>
       ELSE <<blink_entry_insert_to_leaf(from, k), to>>

\* The two halves of a full pivot page; the key between them goes up.
PivotHalves(p) ==
    LET mid == Len(p.keys) \div 2 + 1
    IN <<[p EXCEPT !.keys = SubSeq(@, 1, mid - 1), !.kids = SubSeq(@, 1, mid),
                   !.upbound = p.keys[mid]],
         [NewPivot EXCEPT !.keys = SubSeq(p.keys, mid + 1, Len(p.keys)),
                          !.kids = SubSeq(p.kids, mid + 1, Len(p.kids)), !.upbound = p.upbound]>>

blink_pivot_split(p, k, pid) ==
    LET h == PivotHalves(p)
    IN IF k > h[1].upbound THEN <<h[1], blink_entry_insert_to_pivot(h[2], k, pid, "MOVE")>>
       ELSE <<blink_entry_insert_to_pivot(h[1], k, pid, "MOVE"), h[2]>>

MisplacedInSplit(p, k) ==
    LET h == PivotHalves(p) IN Misplaced(IF k > h[1].upbound THEN h[2] ELSE h[1], k, "MOVE")

-----------------------------------------------------------------------------
(* Removals and merges *)

\* IS_LEAF_RECORD_ENOUGH and IS_PIVOT_RECORD_ENOUGH: a page with n keys is let be.
RecordEnough(p, n) == n > (IF p.leaf THEN LeafEntries ELSE PAIRENTRYS) \div 2

blink_entry_remove_from_leaf(p, k) == [p EXCEPT !.keys = SelectSeq(@, LAMBDA x : x # k)]

\* The key goes with the kid to its right; a key below all others stands for
\* the first kid, which goes with the first key.
blink_entry_remove_from_pivot(p, k) ==
    LET i == Below(p.keys, k) + 1
    IN IF k < Head(p.keys) THEN [p EXCEPT !.keys = Tail(@), !.kids = Tail(@)]
       ELSE IF Has(p, k) THEN [p EXCEPT !.keys = RemoveAt(@, i), !.kids = RemoveAt(@, i + 1)]
       ELSE p

blink_entry_update_pivot_key(p, replace, replaced) ==
    IF Has(p, replaced) THEN [p EXCEPT !.keys[Below(p.keys, replaced) + 1] = replace] ELSE p

\* The search of blink_entry_update_pivot_key has no end for a key below the
\* first, and for one above the last of a full page, where the upper bound
\* follows the keys.
UpdateEndless(p, replaced) ==
    \/ replaced < Head(p.keys)
    \/ /\ replaced > Last(p.keys)
       /\ Len(p.keys) = PAIRENTRYS - 1
       /\ replaced >= p.upbound

\* Mutant: the page keeps its upper bound.
MergeKeepsBound(from, to) == [to EXCEPT !.keys = @ \o from.keys]

\* The entries of the page to the right are added to those of "to".
blink_merge_leaf(from, to) == [to EXCEPT !.keys = @ \o from.keys, !.upbound = Last(from.keys)]

\* BLINK_MERGE_GENERAL: the same for pivot pages, with the key between them.
blink_merge_pivot(from, to, k) ==
    [to EXCEPT !.keys = Append(@, k) \o from.keys, !.kids = @ \o from.kids, !.upbound = from.upbound]
=============================================================================
