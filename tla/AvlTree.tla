------------------------------- MODULE AvlTree -------------------------------
(***************************************************************************)
(* The AVL tree of the global page table (src/common/avl.c), as the pool   *)
(* uses it (src/pool/pool.c, lines 339-431): nodes are searched, inserted  *)
(* and removed under gpt_lock, one operation at a time; a step is one turn *)
(* of a loop.  Nothing keeps a page from having two nodes: gpt_push does   *)
(* not search.  Nodes are numbered in the order of their pages and, where  *)
(* they have one page, in the order in which they come into the tree.      *)
(***************************************************************************)
EXTENDS Integers, Sequences

CONSTANTS
    Nodes,      \* bound: as many nodes for a page as have its id
    Page,       \* node -> id of its page
    System,     \* the nodes that init_db_info pushes, and nothing removes
    Starts,     \* bound, [first, free, twins]: the pages that are pushed, or removed
                \* when they have a node, one after the other; the pages whose nodes
                \* come and go in any order after that; whether these may have two
    NULL

ASSUME AvlAssumption ==
    /\ Nodes \subseteq Nat /\ Page \in [Nodes -> Nat]
    /\ \A m, n \in Nodes : m < n => Page[m] <= Page[n]
    /\ System \subseteq Nodes /\ {Page[s] : s \in System} = {0, 1, 2}
    /\ NULL \notin Nodes

VARIABLES
    tree,   \* [root, left, right, prev, height]: the fields of the nodes are functions
            \* of the nodes, NULL and 1 outside of the tree
    nodes,  \* history: the nodes that are in the tree
    at,     \* the loop the operation under way is in, "idle" without one, and
            \* "undefined" when it has followed NULL
    key,    \* the page it searches, or the node it inserts or removes
    pivot,  \* its cursor
    twice,  \* history: a removal has rotated twice at one node
    doubled,    \* history: a node has been pushed for a page that had one
    todo    \* bound: a member of Starts, without what is done of first

vars == <<tree, nodes, at, key, pivot, twice, doubled, todo>>

Searching == {"open", "close"}

-----------------------------------------------------------------------------
(* Nodes and rotations *)

Height(t, n) == IF n = NULL THEN 0 ELSE t.height[n]

Diff(t, n) == IF n = NULL THEN 0 ELSE Height(t, t.left[n]) - Height(t, t.right[n])

Larger(a, b) == IF a > b THEN a ELSE b

RealHeight(t, n) == Larger(Height(t, t.left[n]), Height(t, t.right[n])) + 1

Raise(t, n) == [t EXCEPT !.height[n] = RealHeight(t, n)]

Below(t, n, p) == IF n = NULL THEN t ELSE [t EXCEPT !.prev[n] = p]

\* The child old of p, or the root when there is no p, becomes new.
Replace(t, p, old, new) ==
    LET up == Below(t, new, p)
    IN  IF p = NULL THEN [up EXCEPT !.root = new]
        ELSE IF t.left[p] = old THEN [up EXCEPT !.left[p] = new]
        ELSE [up EXCEPT !.right[p] = new]

\* Mutant: x keeps its old parent.
DoLeftUnlinked(t, p) ==
    LET x == t.right[p]
        inner == t.left[x]
        up == [Replace(t, t.prev[p], p, x) EXCEPT !.prev[x] = p]
        down == [up EXCEPT !.left[x] = p, !.prev[p] = x, !.right[p] = inner]
    IN  Raise(Raise(Below(down, inner, p), p), x)

\* x comes up, and its inner subtree goes over to p.
DoLeft(t, p) ==
    LET x == t.right[p]
        inner == t.left[x]
        up == Replace(t, t.prev[p], p, x)
        down == [up EXCEPT !.left[x] = p, !.prev[p] = x, !.right[p] = inner]
    IN  Raise(Raise(Below(down, inner, p), p), x)

Mirror(t) == [t EXCEPT !.left = t.right, !.right = t.left]

DoRight(t, p) == Mirror(DoLeft(Mirror(t), p))

\* The rotations at a node found left-heavy.  The difference is not computed
\* again after the first.
Rotated(t, p, Outer(_), Inner(_)) ==
    LET once == IF Outer(t) THEN DoRight(t, p) ELSE t
    IN  IF Inner(once) THEN DoRight(DoLeft(once, once.left[p]), p) ELSE once

Balanced(t, p, LeftHeavy(_), RightHeavy(_)) ==
    LET t1 == Raise(t, p)
    IN  IF Diff(t, p) > 1 THEN LeftHeavy(t1)
        ELSE IF Diff(t, p) < -1 THEN Mirror(RightHeavy(Mirror(t1)))
        ELSE t1

\* One turn of __insert_balance.  A key with the page of the kid rotates nothing.
InsertTurn(t, p, k) ==
    LET less(s) == s.left[p] # NULL /\ Page[k] < Page[s.left[p]]
        more(s) == s.left[p] # NULL /\ Page[k] > Page[s.left[p]]
        LeftHeavy(s) == Rotated(s, p, less, more)
        RightHeavy(s) == Rotated(s, p, more, less)
    IN  Balanced(t, p, LeftHeavy, RightHeavy)

\* Mutant: nothing is rotated.
RemoveTurnRaised(t, p) == Raise(t, p)

\* One turn of __remove_balance; a mirrored difference has the other sign.
RemoveTurn(t, p) ==
    LET outer(s) == Diff(s, s.left[p]) >= 0
        inner(s) == Diff(s, s.left[p]) < 0
        Heavy(s) == Rotated(s, p, outer, inner)
    IN  Balanced(t, p, Heavy, Heavy)

RotatesTwice(t, p) ==
    LET again(s) == Diff(s, s.left[p]) >= 0 /\ LET o == DoRight(s, p) IN Diff(o, o.left[p]) < 0
    IN  (Diff(t, p) > 1 /\ again(t)) \/ (Diff(t, p) < -1 /\ again(Mirror(t)))

\* Two nodes change places.  (Line 240 takes the parent of a for the one of b;
\* it is not reached: b is the least node on the right of a.)
Switch(t, a, b) ==
    LET other(n) == IF n = a THEN b ELSE IF n = b THEN a ELSE n
        moved(f) == [n \in Nodes |-> other(f[other(n)])]
    IN  [root |-> other(t.root), left |-> moved(t.left), right |-> moved(t.right),
         prev |-> moved(t.prev), height |-> [n \in Nodes |-> t.height[other(n)]]]

-----------------------------------------------------------------------------
Init ==
    /\ LET none == [n \in Nodes |-> NULL]
       IN  tree = [root |-> NULL, left |-> none, right |-> none, prev |-> none,
                   height |-> [n \in Nodes |-> 1]]
    /\ nodes = {} /\ at = "idle" /\ key = NULL /\ pivot = NULL
    /\ twice = FALSE /\ doubled = FALSE
    /\ todo \in Starts

Begin(k, where, from) ==
    /\ at = "idle" /\ at' = where
    /\ key' = k /\ pivot' = from
    /\ UNCHANGED <<tree, nodes, twice>>

Ready == System \subseteq nodes

HasNode(p) == \E n \in nodes : Page[n] = p

\* Bound: the page is the next one of todo.first, or any of the free ones.
NextFirst(p) == todo.first # <<>> /\ p = Head(todo.first)
Free(p) == Ready /\ todo.first = <<>> /\ p \in todo.free
Bounded(p) ==
    \/ ~Ready /\ UNCHANGED todo
    \/ Ready /\ NextFirst(p) /\ todo' = [todo EXCEPT !.first = Tail(@)]
    \/ Free(p) /\ UNCHANGED todo

\* gpt_open_test_and_set searches, and inserts a node where there is none.
Open(p) == Free(p) /\ Begin(p, "open", tree.root) /\ UNCHANGED <<doubled, todo>>

\* gpt_close_test_and_set searches.
Close(p) == Free(p) /\ Begin(p, "close", tree.root) /\ UNCHANGED <<doubled, todo>>

\* A new node has the first name behind those of the page's nodes.
New(n) ==
    /\ n \notin nodes
    /\ \A m \in Nodes : Page[m] = Page[n] =>
            /\ m \in nodes => m < n
            /\ m < n => \E o \in nodes : Page[o] = Page[n] /\ m <= o

\* gpt_push, first of the system's nodes: whether the page has a node already
\* is not looked at.
Push(n) ==
    /\ New(n)
    /\ \A s \in System : s < n => s \in nodes
    /\ Bounded(Page[n])
    /\ HasNode(Page[n]) => Free(Page[n]) /\ todo.twins     \* bound
    /\ doubled' = (doubled \/ HasNode(Page[n]))
    /\ Begin(n, "down", tree.root)

\* gpt_remove of a node that an earlier search has found.
Remove(n) ==
    /\ Ready /\ n \in nodes \ System
    /\ Bounded(Page[n])
    /\ Begin(n, "remove", n)
    /\ UNCHANGED doubled

Return == at' = "idle" /\ key' = NULL /\ pivot' = NULL

\* avl_search_by_pid
SearchTurn ==
    /\ at \in Searching
    /\ pivot # NULL /\ Page[pivot] # key
    /\ pivot' = IF Page[pivot] > key THEN tree.left[pivot] ELSE tree.right[pivot]
    /\ UNCHANGED <<tree, nodes, at, key, twice>>

Found ==
    /\ at \in Searching /\ pivot # NULL /\ Page[pivot] = key
    /\ Return
    /\ UNCHANGED <<tree, nodes, twice>>

\* An open inserts a node for the page.
NotFound ==
    /\ at \in Searching /\ pivot = NULL
    /\ \/ /\ at = "open" /\ at' = "down" /\ pivot' = tree.root
          /\ \E n \in Nodes : Page[n] = key /\ New(n) /\ key' = n
       \/ at = "close" /\ Return
    /\ UNCHANGED <<tree, nodes, twice>>

-----------------------------------------------------------------------------
(* avl_insert.  A node goes to the right of one of the same page, which the *)
(* order of the names agrees with.                                          *)

Kid(p, k) == IF p > k THEN tree.left[p] ELSE tree.right[p]

InsertFirst ==
    /\ at = "down" /\ tree.root = NULL
    /\ tree' = [tree EXCEPT !.root = key]
    /\ nodes' = {key}
    /\ Return
    /\ UNCHANGED twice

InsertDown ==
    /\ at = "down" /\ pivot # NULL /\ Kid(pivot, key) # NULL
    /\ pivot' = Kid(pivot, key)
    /\ UNCHANGED <<tree, nodes, at, key, twice>>

\* Mutant: the free side is taken for the right one.
InsertLinkWrong ==
    /\ at = "down" /\ pivot # NULL /\ Kid(pivot, key) = NULL
    /\ tree' = LET t == [tree EXCEPT !.prev[key] = pivot]
               IN  IF t.left[pivot] = NULL THEN [t EXCEPT !.left[pivot] = key]
                   ELSE [t EXCEPT !.right[pivot] = key]
    /\ nodes' = nodes \cup {key}
    /\ at' = "insertBalance"
    /\ UNCHANGED <<key, pivot, twice>>

InsertLink ==
    /\ at = "down" /\ pivot # NULL /\ Kid(pivot, key) = NULL
    /\ tree' = LET t == [tree EXCEPT !.prev[key] = pivot]
               IN  IF pivot > key THEN [t EXCEPT !.left[pivot] = key]
                   ELSE [t EXCEPT !.right[pivot] = key]
    /\ nodes' = nodes \cup {key}
    /\ at' = "insertBalance"
    /\ UNCHANGED <<key, pivot, twice>>

\* The loop ends at the node that was the root when its turn began.
Up(t) ==
    /\ tree' = t
    /\ IF pivot = tree.root THEN Return ELSE pivot' = t.prev[pivot] /\ UNCHANGED <<at, key>>

\* The kid to be rotated first has nothing to come up: the key went down on
\* the other side, into a tree that was out of balance.
FollowsNull ==
    \/ Diff(tree, pivot) > 1
       /\ LET x == tree.left[pivot] IN Page[key] > Page[x] /\ tree.right[x] = NULL
    \/ Diff(tree, pivot) < -1
       /\ LET x == tree.right[pivot] IN Page[key] < Page[x] /\ tree.left[x] = NULL

InsertUndefined ==
    /\ at = "insertBalance" /\ FollowsNull
    /\ at' = "undefined"
    /\ UNCHANGED <<tree, nodes, key, pivot, twice>>

InsertBalance ==
    /\ at = "insertBalance" /\ ~FollowsNull
    /\ \E t \in {InsertTurn(tree, pivot, key)} : Up(t)
    /\ UNCHANGED <<nodes, twice>>

-----------------------------------------------------------------------------
(* avl_remove_by_addr *)

\* The node, which has at most one kid, leaves the tree t and is freed.
Unlink(t, n) ==
    LET rep == IF t.left[n] # NULL THEN t.left[n] ELSE t.right[n]
        out == Replace(t, t.prev[n], n, rep)
    IN  /\ tree' = [out EXCEPT !.left[n] = NULL, !.right[n] = NULL, !.prev[n] = NULL,
                               !.height[n] = 1]
        /\ nodes' = nodes \ {n}
        /\ at' = "removeBalance"
        /\ pivot' = IF rep # NULL THEN rep ELSE t.prev[n]

RemoveNode ==
    /\ at = "remove"
    /\ IF tree.left[key] = NULL \/ tree.right[key] = NULL THEN Unlink(tree, key)
       ELSE at' = "min" /\ pivot' = tree.right[key] /\ UNCHANGED <<tree, nodes>>
    /\ UNCHANGED <<key, twice>>

FindMin ==
    /\ at = "min" /\ tree.left[pivot] # NULL
    /\ pivot' = tree.left[pivot]
    /\ UNCHANGED <<tree, nodes, at, key, twice>>

RemoveSwitched ==
    /\ at = "min" /\ tree.left[pivot] = NULL
    /\ Unlink(Switch(tree, key, pivot), key)
    /\ UNCHANGED <<key, twice>>

RemoveBalance ==
    /\ at = "removeBalance"
    /\ \E t \in {RemoveTurn(tree, pivot)} : Up(t)
    /\ twice' = (twice \/ RotatesTwice(tree, pivot))
    /\ UNCHANGED nodes

-----------------------------------------------------------------------------
Call == at = "idle" /\ \E n \in Nodes : Open(Page[n]) \/ Close(Page[n]) \/ Push(n) \/ Remove(n)

Turn ==
    \/ SearchTurn \/ Found \/ NotFound
    \/ InsertFirst \/ InsertDown \/ InsertLink \/ InsertBalance \/ InsertUndefined
    \/ RemoveNode \/ FindMin \/ RemoveSwitched \/ RemoveBalance

Next == Call \/ (Turn /\ UNCHANGED <<doubled, todo>>)

Over == at \in {"idle", "undefined"}

\* The thread that has gpt_lock goes on: WF_vars(Turn), written out for a Turn
\* that can be taken until the operation is over (ENABLED takes TLC too long).
Fairness == []<><<Turn>>_vars \/ []<>Over

Spec == Init /\ [][Next]_vars /\ Fairness

-----------------------------------------------------------------------------
\* A search ends at a node of its page if there is one, and never follows a
\* node that is not in the tree, whatever the rotations made of it, and even
\* where pages have two nodes.
SearchesAreRight == at \in Searching => IF pivot = NULL THEN ~HasNode(key) ELSE pivot \in nodes

\* No rotation follows NULL, and between operations every node knows its height
\* and its subtrees differ by one at most; until a removal rotates twice at one
\* node, by a difference that the first rotation has changed, or a page gets a
\* second node, which no rotation is made for.
StaysBalanced ==
    Over /\ ~twice /\ ~doubled =>
        /\ at = "idle"
        /\ \A n \in nodes : tree.height[n] = RealHeight(tree, n) /\ Diff(tree, n) \in -1..1

\* No loop of the tree goes on for ever under the lock.
CallsEnd == []<>Over
=============================================================================
