----------------------------- MODULE SlottedPage -----------------------------
(***************************************************************************)
(* The entries of one page (src/disk/page.c).  Entries grow from the front *)
(* of the page, a table of 2-byte slots from its end.  A slot that is free *)
(* holds the number of the next free slot, so the free slots form a list   *)
(* whose head is free_slot_offset, or PAGEISFULL when the page is full.    *)
(*                                                                         *)
(* Every operation checks the checksum and ends by recomputing it, and     *)
(* nothing else writes these fields, so the checksum always matches.       *)
(***************************************************************************)
EXTENDS Integers, FiniteSets

CONSTANTS
    Space,          \* PAGESIZE - PAGEHEADERSIZE
    Width,          \* data_width: the bytes of an entry
    Value,          \* what the bytes of an entry can be
    Blank,          \* the bytes page_init leaves
    NoItem          \* a NULL item, which p_entry_insert accepts

SLOTENTRYSIZE == 2
PAGEISFULL == 65535     \* 0xffff, of free_slot_offset
SLOTNULL == 8191        \* 0x1fff, all bits of a slot's value

ASSUME PageAssumption ==
    /\ Space \in Nat /\ Width \in Nat
    /\ Space >= Width + SLOTENTRYSIZE   \* at least one entry fits
    /\ Space < SLOTNULL
    /\ Blank \in Value /\ NoItem \notin Value

VARIABLES
    record_num,         \* entries in the page
    free_slot_offset,   \* the first free slot
    slot,               \* slot number -> [value, seat, null]
    data,               \* slot number -> bytes of the entry
    lifo                \* history: every entry deleted was the one with the
                        \* largest slot number, record_num - 1

vars == <<record_num, free_slot_offset, slot, data, lifo>>

\* get_max_entries
MaxEntries == Space \div (Width + SLOTENTRYSIZE)

Slots == 0..(MaxEntries - 1)

\* is_page_full, with n entries in the page
IsPageFull(n) == Space < (Width + SLOTENTRYSIZE) * (n + 1)

TypeOK ==
    /\ record_num \in 0..MaxEntries
    /\ free_slot_offset \in Slots \cup {PAGEISFULL}
    /\ slot \in [Slots -> [value : 0..SLOTNULL, seat : BOOLEAN, null : BOOLEAN]]
    /\ data \in [Slots -> Value]
    /\ lifo \in BOOLEAN

-----------------------------------------------------------------------------
\* page_init: the slots are linked in order, the last one is left 0.
Init ==
    /\ record_num = 0
    /\ free_slot_offset = 0
    /\ slot = [i \in Slots |->
                 [value |-> IF i = MaxEntries - 1 THEN 0 ELSE i + 1,
                  seat |-> FALSE, null |-> FALSE]]
    /\ data = [i \in Slots |-> Blank]
    /\ lifo = TRUE

\* Mutant: fullness is tested before the new entry is counted.
InsertTestsEarly(item) ==
    /\ free_slot_offset # PAGEISFULL
    /\ slot' = [slot EXCEPT ![free_slot_offset].seat = TRUE,
                            ![free_slot_offset].null = @ \/ item = NoItem]
    /\ data' = IF item = NoItem THEN data ELSE [data EXCEPT ![free_slot_offset] = item]
    /\ record_num' = record_num + 1
    /\ free_slot_offset' = IF IsPageFull(record_num) THEN PAGEISFULL
                           ELSE slot[free_slot_offset].value
    /\ UNCHANGED lifo

\* Mutant: the next slot is taken to be free instead of the linked one.
InsertNextSlot(item) ==
    /\ free_slot_offset # PAGEISFULL
    /\ slot' = [slot EXCEPT ![free_slot_offset].seat = TRUE,
                            ![free_slot_offset].null = @ \/ item = NoItem]
    /\ data' = IF item = NoItem THEN data ELSE [data EXCEPT ![free_slot_offset] = item]
    /\ record_num' = record_num + 1
    /\ free_slot_offset' = IF IsPageFull(record_num + 1) THEN PAGEISFULL
                           ELSE (free_slot_offset + 1) % MaxEntries
    /\ UNCHANGED lifo

\* p_entry_insert, with room in the page.  A NULL item leaves the bytes alone
\* and marks the slot.
Insert(item) ==
    /\ free_slot_offset # PAGEISFULL
    /\ slot' = [slot EXCEPT ![free_slot_offset].seat = TRUE,
                            ![free_slot_offset].null = @ \/ item = NoItem]
    /\ data' = IF item = NoItem THEN data ELSE [data EXCEPT ![free_slot_offset] = item]
    /\ record_num' = record_num + 1
    /\ free_slot_offset' = IF IsPageFull(record_num + 1) THEN PAGEISFULL
                           ELSE slot[free_slot_offset].value
    /\ UNCHANGED lifo

\* Mutant: the freed slot does not remember the list behind it.
DeleteUnlinked(index) ==
    /\ slot[index].seat
    /\ slot' = [slot EXCEPT ![index] = [value |-> SLOTNULL, seat |-> FALSE, null |-> FALSE]]
    /\ free_slot_offset' = index
    /\ record_num' = record_num - 1
    /\ lifo' = (lifo /\ index = record_num - 1)
    /\ UNCHANGED data

\* Mutant: the freed slot goes behind the head of the list.
DeleteSecond(index) ==
    /\ slot[index].seat
    /\ IF free_slot_offset = PAGEISFULL
       THEN /\ slot' = [slot EXCEPT ![index] =
                          [value |-> SLOTNULL, seat |-> FALSE, null |-> FALSE]]
            /\ free_slot_offset' = index
       ELSE /\ slot' = [slot EXCEPT ![index] =
                          [value |-> slot[free_slot_offset].value, seat |-> FALSE, null |-> FALSE],
                                     ![free_slot_offset].value = index]
            /\ UNCHANGED free_slot_offset
    /\ record_num' = record_num - 1
    /\ lifo' = (lifo /\ index = record_num - 1)
    /\ UNCHANGED data

\* p_entry_delete_by_index of an entry that exists; the whole slot is
\* overwritten with the link.
Delete(index) ==
    /\ slot[index].seat
    /\ slot' = [slot EXCEPT ![index] =
                  [value |-> IF free_slot_offset = PAGEISFULL THEN SLOTNULL
                             ELSE free_slot_offset,
                   seat |-> FALSE, null |-> FALSE]]
    /\ free_slot_offset' = index
    /\ record_num' = record_num - 1
    /\ lifo' = (lifo /\ index = record_num - 1)
    /\ UNCHANGED data

\* p_entry_update_by_index of an entry that exists.
Update(index, item) ==
    /\ slot[index].seat
    /\ data' = [data EXCEPT ![index] = item]
    /\ UNCHANGED <<record_num, free_slot_offset, slot, lifo>>

Next ==
    \/ \E item \in Value \cup {NoItem} : Insert(item)
    \/ \E index \in Slots : Delete(index) \/ \E item \in Value : Update(index, item)

Spec == Init /\ [][Next]_vars

-----------------------------------------------------------------------------
Seated == {i \in Slots : slot[i].seat}

\* The number of free slots.
Free == MaxEntries - record_num

\* c lists the free slots, each once, in the order the links give.
FreeList(c) ==
    /\ \A k \in 1..Free : ~slot[c[k]].seat
    /\ \A k, l \in 1..Free : c[k] = c[l] => k = l
    /\ \A i \in Slots \ Seated : \E k \in 1..Free : c[k] = i
    /\ \A k \in 1..(Free - 1) : slot[c[k]].value = c[k + 1]
    /\ free_slot_offset = IF Free = 0 THEN PAGEISFULL ELSE c[1]

\* The list of free slots holds exactly the slots without an entry, and the
\* page counts as full exactly when there is none: an insertion can neither
\* overwrite an entry nor be refused while there is room.
FreeListIsExact == \E c \in [1..Free -> Slots] : FreeList(c)

\* A page used as a stack keeps its entries in the slots 0..record_num-1, where
\* the page id manager looks for the last one (src/pool/pool.c, line 208).
StackInFront == lifo => Seated = 0..(record_num - 1)

\* A page is a RecordMap.
Map ==
    INSTANCE RecordMap WITH Slot <- Slots, count <- record_num, seated <- Seated

ImplementsRecordMap == Map!Spec
=============================================================================
