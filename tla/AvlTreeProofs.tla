---------------------------- MODULE AvlTreeProofs ----------------------------
(***************************************************************************)
(* Theorems about the AVL tree of the global page table, for every set of  *)
(* pages: whatever is inserted, removed and rotated, a search ends at a    *)
(* node of its page, and the tree stays balanced until a removal rotates   *)
(* twice at one node or a page gets a second node.                         *)
(***************************************************************************)
EXTENDS AvlTree, TLAPS

NodeOrNull == Nodes \cup {NULL}

Trees ==
    [root : NodeOrNull, left : [Nodes -> NodeOrNull], right : [Nodes -> NodeOrNull],
     prev : [Nodes -> NodeOrNull], height : [Nodes -> Nat \ {0}]]

\* The nodes in S are linked both ways, and the others are not linked at all.
Linked(t, S) ==
    /\ t \in Trees /\ S \subseteq Nodes
    /\ t.root \in S \cup {NULL} /\ (t.root = NULL <=> S = {})
    /\ t.root # NULL => t.prev[t.root] = NULL
    /\ \A n \in S : t.left[n] \in S \cup {NULL} /\ t.right[n] \in S \cup {NULL}
                      /\ t.prev[n] \in S \cup {NULL}
    /\ \A n \in S : t.left[n] # NULL => t.prev[t.left[n]] = n
    /\ \A n \in S : t.right[n] # NULL => t.prev[t.right[n]] = n
    /\ \A n \in S : n # t.root => /\ t.prev[n] # NULL
                                  /\ n = t.left[t.prev[n]] \/ n = t.right[t.prev[n]]
    /\ \A n \in Nodes \ S : t.left[n] = NULL /\ t.right[n] = NULL /\ t.prev[n] = NULL

Under(D, c) == IF c = NULL THEN {} ELSE D[c]

\* D[n] is the set of the nodes of the subtree of n.
Subtrees(t, S, D) ==
    /\ D \in [Nodes -> SUBSET Nodes]
    /\ \A n \in S : D[n] = {n} \cup Under(D, t.left[n]) \cup Under(D, t.right[n])
    /\ t.root # NULL => D[t.root] = S
    /\ \A m \in S : \A c \in D[m] : c \in S /\ D[c] \subseteq D[m]
    /\ \A m \in S : \A c \in D[m] : c # m => t.prev[c] \in D[m]

\* The nodes on the left of n come before it in the order lt, those on the
\* right after it.  The order is a parameter: a mirrored tree is in the opposite
\* order.
Sorted(t, S, D, lt) ==
    \A n \in S :
        /\ \A c \in Under(D, t.left[n]) : <<c, n>> \in lt
        /\ \A c \in Under(D, t.right[n]) : <<n, c>> \in lt

StrictOrder(lt) ==
    /\ \A a \in Nodes : <<a, a>> \notin lt
    /\ \A a, b, c \in Nodes : <<a, b>> \in lt /\ <<b, c>> \in lt => <<a, c>> \in lt

Ordered(t, S, D, lt) ==
    Linked(t, S) /\ Subtrees(t, S, D) /\ Sorted(t, S, D, lt) /\ StrictOrder(lt)

-----------------------------------------------------------------------------
(* What the functions of avl.c do to the fields of a tree *)

LEMMA HeightIsNat ==
    ASSUME NEW t \in Trees, NEW n \in NodeOrNull
    PROVE  Height(t, n) \in Nat /\ (n # NULL => Height(t, n) > 0)
  BY DEF Trees, Height, NodeOrNull

LEMMA RaiseFields ==
    ASSUME NEW t \in Trees, NEW n \in Nodes
    PROVE  /\ Raise(t, n) \in Trees
           /\ Raise(t, n).root = t.root /\ Raise(t, n).left = t.left
           /\ Raise(t, n).right = t.right /\ Raise(t, n).prev = t.prev
<1>1. t.left[n] \in NodeOrNull /\ t.right[n] \in NodeOrNull
  BY DEF Trees
<1>2. RealHeight(t, n) \in Nat \ {0}
  <2>1. Height(t, t.left[n]) \in Nat /\ Height(t, t.right[n]) \in Nat
    BY <1>1, HeightIsNat
  <2> QED
    BY <2>1 DEF RealHeight, Larger
<1>3. PICK h : h = RealHeight(t, n)
  OBVIOUS
<1>4. Raise(t, n) = [t EXCEPT !.height[n] = h]
  BY <1>3 DEF Raise
<1> QED
  BY <1>2, <1>3, <1>4 DEF Trees

\* r is t with the parent of n, if n is a node, set to p.
Hung(r, t, n, p) ==
    /\ r \in Trees /\ r.root = t.root /\ r.left = t.left /\ r.right = t.right
    /\ \A m \in Nodes : r.prev[m] = IF m = n THEN p ELSE t.prev[m]

LEMMA BelowFields ==
    ASSUME NEW t \in Trees, NEW n \in NodeOrNull, NEW p \in NodeOrNull
    PROVE  Hung(Below(t, n, p), t, n, p)
<1>1. CASE n = NULL
  BY <1>1, AvlAssumption DEF Below, Hung
<1>2. CASE n # NULL
  <2>1. n \in Nodes /\ Below(t, n, p) = [t EXCEPT !.prev[n] = p]
    BY <1>2 DEF Below, NodeOrNull
  <2> QED
    BY <2>1 DEF Trees, Hung
<1> QED
  BY <1>1, <1>2

\* r is t with the child old of p, or the root, replaced by new.
Replaced(r, t, p, old, new) ==
    /\ r \in Trees
    /\ r.root = IF p = NULL THEN new ELSE t.root
    /\ \A m \in Nodes : r.left[m] = IF m = p /\ t.left[p] = old THEN new ELSE t.left[m]
    /\ \A m \in Nodes : r.right[m] = IF m = p /\ t.left[p] # old THEN new ELSE t.right[m]
    /\ \A m \in Nodes : r.prev[m] = IF m = new THEN p ELSE t.prev[m]

LEMMA ReplaceFields ==
    ASSUME NEW t \in Trees, NEW p \in NodeOrNull, NEW old \in Nodes, NEW new \in NodeOrNull
    PROVE  Replaced(Replace(t, p, old, new), t, p, old, new)
<1>0. PICK r : r = Replace(t, p, old, new)
  OBVIOUS
<1>1. PICK u : u = Below(t, new, p)
  OBVIOUS
<1>2. /\ u \in Trees /\ u.root = t.root /\ u.left = t.left /\ u.right = t.right
      /\ \A m \in Nodes : u.prev[m] = IF m = new THEN p ELSE t.prev[m]
  <2>1. Hung(u, t, new, p)
    BY <1>1, BelowFields
  <2> QED
    BY <2>1 DEF Hung
<1>3. ASSUME p = NULL PROVE Replaced(r, t, p, old, new)
  <2>1. r = [u EXCEPT !.root = new]
    BY <1>0, <1>1, <1>3 DEF Replace
  <2> QED
    BY <1>2, <1>3, <2>1, AvlAssumption DEF Trees, Replaced
<1>4. ASSUME p # NULL, t.left[p] = old PROVE Replaced(r, t, p, old, new)
  <2>1. r = [u EXCEPT !.left[p] = new] /\ p \in Nodes
    BY <1>0, <1>1, <1>4 DEF Replace, NodeOrNull
  <2> QED
    BY <1>2, <1>4, <2>1 DEF Trees, Replaced
<1>5. ASSUME p # NULL, t.left[p] # old PROVE Replaced(r, t, p, old, new)
  <2>1. r = [u EXCEPT !.right[p] = new] /\ p \in Nodes
    BY <1>0, <1>1, <1>5 DEF Replace, NodeOrNull
  <2> QED
    BY <1>2, <1>5, <2>1 DEF Trees, Replaced
<1> QED
  BY <1>0, <1>3, <1>4, <1>5

\* r is t rotated to the left at p: x has come up to be the child of g, and its
\* inner subtree i has gone over to p.
RotatedLeft(r, t, p, x, i, g) ==
    /\ r \in Trees
    /\ r.root = IF g = NULL THEN x ELSE t.root
    /\ \A m \in Nodes : r.left[m] = IF m = x THEN p
                                  ELSE IF m = g /\ t.left[g] = p THEN x ELSE t.left[m]
    /\ \A m \in Nodes : r.right[m] = IF m = p THEN i
                                   ELSE IF m = g /\ t.left[g] # p THEN x ELSE t.right[m]
    /\ \A m \in Nodes : r.prev[m] = IF m = x THEN g ELSE IF m = p THEN x
                                  ELSE IF m = i THEN p ELSE t.prev[m]

LEMMA DoLeftFields ==
    ASSUME NEW t \in Trees, NEW p \in Nodes, NEW x \in Nodes, x = t.right[p], x # p,
           NEW i, i = t.left[x], i # p, i # x,
           NEW g, g = t.prev[p], g # p, g # x
    PROVE  RotatedLeft(DoLeft(t, p), t, p, x, i, g)
<1>1. i \in NodeOrNull /\ g \in NodeOrNull /\ p \in NodeOrNull /\ x \in NodeOrNull
  BY DEF Trees, NodeOrNull
<1>2. PICK u : u = Replace(t, g, p, x)
  OBVIOUS
<1>3. Replaced(u, t, g, p, x)
  BY <1>1, <1>2, ReplaceFields
<1>a. u \in Trees
  BY <1>3 DEF Replaced
<1>4. PICK d : d = [u EXCEPT !.left[x] = p, !.prev[p] = x, !.right[p] = i]
  OBVIOUS
<1>5. /\ d \in Trees /\ d.root = u.root
      /\ \A m \in Nodes : d.left[m] = IF m = x THEN p ELSE u.left[m]
      /\ \A m \in Nodes : d.right[m] = IF m = p THEN i ELSE u.right[m]
      /\ \A m \in Nodes : d.prev[m] = IF m = p THEN x ELSE u.prev[m]
  BY <1>1, <1>a, <1>4 DEF Trees
<1>6. PICK b : b = Below(d, i, p)
  OBVIOUS
<1>7. Hung(b, d, i, p)
  BY <1>1, <1>5, <1>6, BelowFields
<1>c. b \in Trees
  BY <1>7 DEF Hung
<1>8. PICK c : c = Raise(b, p)
  OBVIOUS
<1>9. c \in Trees /\ c.root = b.root /\ c.left = b.left /\ c.right = b.right /\ c.prev = b.prev
  BY <1>c, <1>8, RaiseFields
<1>b. PICK r : r = DoLeft(t, p)
  OBVIOUS
<1>10. r = Raise(c, x)
  BY <1>2, <1>4, <1>6, <1>8, <1>b DEF DoLeft
<1>11. r \in Trees /\ r.root = c.root /\ r.left = c.left /\ r.right = c.right /\ r.prev = c.prev
  BY <1>9, <1>10, RaiseFields
<1>12. RotatedLeft(r, t, p, x, i, g)
  BY <1>3, <1>5, <1>7, <1>9, <1>11 DEF Replaced, Hung, RotatedLeft
<1> QED
  BY <1>b, <1>12

-----------------------------------------------------------------------------
(* A rotation keeps the order *)

LEMMA NullIsNoNode ==
    ASSUME NEW t, NEW S, Linked(t, S)
    PROVE  NULL \notin S /\ NULL \notin Nodes /\ S \subseteq Nodes /\ t \in Trees
  BY AvlAssumption DEF Linked

\* p has a right child x, whose left child is i; g is the parent of p.
AtRotation(t, S, D, lt, p, x, i, g) ==
    /\ x = t.right[p] /\ i = t.left[x] /\ g = t.prev[p]
    /\ p \in S /\ x \in S /\ i \in S \cup {NULL} /\ g \in S \cup {NULL}
    /\ x # p /\ i # p /\ i # x /\ g # p /\ g # x
    /\ t.prev[x] = p /\ <<p, x>> \in lt
    /\ t.left[p] # x /\ (i # NULL => t.right[x] # i)
    /\ g # NULL => ~(t.left[g] = p /\ t.right[g] = p)

\* A node is in its own subtree, on one side or the other of any node above it.
OnItsSides(t, S, D, lt, n) ==
    /\ n \in D[n] /\ n \in Nodes
    /\ t.left[n] # NULL => /\ t.left[n] \in S /\ t.left[n] \in D[n]
                           /\ D[t.left[n]] \subseteq D[n]
                           /\ \A c \in D[t.left[n]] : <<c, n>> \in lt /\ c # n
    /\ t.right[n] # NULL => /\ t.right[n] \in S /\ t.right[n] \in D[n]
                            /\ D[t.right[n]] \subseteq D[n]
                            /\ \A c \in D[t.right[n]] : <<n, c>> \in lt /\ c # n

LEMMA ChildrenUnder ==
    ASSUME NEW t, NEW S, NEW D, NEW lt, Ordered(t, S, D, lt), NEW n \in S
    PROVE  OnItsSides(t, S, D, lt, n)
<1>1. NULL \notin S /\ S \subseteq Nodes /\ t.left[n] \in S \cup {NULL} /\ t.right[n] \in S \cup {NULL}
  BY NullIsNoNode DEF Ordered, Linked
<1>2. D[n] = {n} \cup Under(D, t.left[n]) \cup Under(D, t.right[n])
  BY DEF Ordered, Subtrees
<1>3. n \in D[n] /\ n \in Nodes
  BY <1>1, <1>2
<1>4. \A m \in S : m \in D[m]
  BY DEF Ordered, Subtrees
<1>5. <<n, n>> \notin lt
  BY <1>3 DEF Ordered, StrictOrder
<1>6. ASSUME t.left[n] # NULL
      PROVE  /\ t.left[n] \in S /\ t.left[n] \in D[n] /\ D[t.left[n]] \subseteq D[n]
             /\ \A c \in D[t.left[n]] : <<c, n>> \in lt /\ c # n
  <2>1. t.left[n] \in S /\ Under(D, t.left[n]) = D[t.left[n]]
    BY <1>1, <1>6 DEF Under
  <2> QED
    BY <1>2, <1>4, <1>5, <2>1 DEF Ordered, Sorted
<1>7. ASSUME t.right[n] # NULL
      PROVE  /\ t.right[n] \in S /\ t.right[n] \in D[n] /\ D[t.right[n]] \subseteq D[n]
             /\ \A c \in D[t.right[n]] : <<n, c>> \in lt /\ c # n
  <2>1. t.right[n] \in S /\ Under(D, t.right[n]) = D[t.right[n]]
    BY <1>1, <1>7 DEF Under
  <2> QED
    BY <1>2, <1>4, <1>5, <2>1 DEF Ordered, Sorted
<1> QED
  BY <1>3, <1>6, <1>7 DEF OnItsSides

LEMMA RotationFacts ==
    ASSUME NEW t, NEW S, NEW D, NEW lt, Ordered(t, S, D, lt),
           NEW p \in S, NEW x, x = t.right[p], x # NULL,
           NEW i, i = t.left[x], NEW g, g = t.prev[p]
    PROVE  AtRotation(t, S, D, lt, p, x, i, g)
<1>1. NULL \notin S /\ S \subseteq Nodes
  BY NullIsNoNode DEF Ordered
<1>p. OnItsSides(t, S, D, lt, p)
  BY ChildrenUnder
<1>q. x \in S /\ (\A c \in D[x] : <<p, c>> \in lt /\ c # p)
  BY <1>p DEF OnItsSides
<1>x. OnItsSides(t, S, D, lt, x)
  BY <1>q, ChildrenUnder
<1>2. x # p /\ <<p, x>> \in lt /\ t.prev[x] = p
  BY <1>q, <1>x DEF OnItsSides, Ordered, Linked
<1>3. i \in S \cup {NULL} /\ i # p /\ i # x
  <2>1. CASE i = NULL
    BY <1>1, <1>q, <2>1
  <2>2. CASE i # NULL
    <3>1. i \in S /\ i \in D[x] /\ \A c \in D[i] : c # x
      BY <1>x, <2>2 DEF OnItsSides
    <3>2. i \in D[i]
      BY <3>1, ChildrenUnder DEF OnItsSides
    <3> QED
      BY <1>q, <3>1, <3>2
  <2> QED
    BY <2>1, <2>2
<1>4. g \in S \cup {NULL}
  BY DEF Ordered, Linked
<1>5. g # NULL => p \in D[g] /\ p # g
  <2> SUFFICES ASSUME g # NULL PROVE p \in D[g] /\ p # g
    OBVIOUS
  <2>1. g \in S /\ (p = t.left[g] \/ p = t.right[g])
    BY <1>4 DEF Ordered, Linked
  <2>2. p # NULL /\ p \in D[p]
    BY <1>1, <1>p DEF OnItsSides
  <2>3. OnItsSides(t, S, D, lt, g)
    BY <2>1, ChildrenUnder
  <2>4. CASE p = t.left[g]
    BY <2>2, <2>3, <2>4 DEF OnItsSides
  <2>5. CASE p = t.right[g]
    BY <2>2, <2>3, <2>5 DEF OnItsSides
  <2> QED
    BY <2>1, <2>4, <2>5
<1>6. p \notin D[x]
  BY <1>q
<1>7. g # p /\ g # x
  BY <1>1, <1>5, <1>6
<1>8. t.left[p] # x
  <2>1. t.left[p] # NULL => t.left[p] \in D[t.left[p]] /\ <<x, x>> \notin lt
    <3> SUFFICES ASSUME t.left[p] # NULL
                 PROVE  t.left[p] \in D[t.left[p]] /\ <<x, x>> \notin lt
      OBVIOUS
    <3>1. t.left[p] \in S
      BY <1>p DEF OnItsSides
    <3> QED
      BY <1>1, <1>q, <3>1, ChildrenUnder DEF OnItsSides, Ordered, StrictOrder
  <2>2. ASSUME t.left[p] = x PROVE <<x, p>> \in lt /\ <<p, x>> \in lt /\ <<x, x>> \notin lt
    BY <1>1, <1>q, <1>p, <1>2, <2>1, <2>2 DEF OnItsSides
  <2> QED
    BY <1>1, <1>q, <2>2 DEF Ordered, StrictOrder
<1>9. i # NULL => t.right[x] # i
  <2> SUFFICES ASSUME i # NULL, t.right[x] = i PROVE FALSE
    OBVIOUS
  <2>1. i \in S /\ (\A c \in D[i] : <<c, x>> \in lt) /\ (\A c \in D[i] : <<x, c>> \in lt)
    BY <1>x DEF OnItsSides
  <2>2. i \in D[i]
    BY <2>1, ChildrenUnder DEF OnItsSides
  <2> QED
    BY <1>1, <1>q, <2>1, <2>2 DEF Ordered, StrictOrder
<1>10. g # NULL => ~(t.left[g] = p /\ t.right[g] = p)
  <2> SUFFICES ASSUME g # NULL, t.left[g] = p, t.right[g] = p PROVE FALSE
    OBVIOUS
  <2>1. g \in S /\ p # NULL /\ p \in D[p]
    BY <1>1, <1>4, <1>p DEF OnItsSides
  <2>2. <<p, g>> \in lt /\ <<g, p>> \in lt
    BY <2>1, ChildrenUnder DEF OnItsSides
  <2> QED
    BY <1>1, <2>1, <2>2 DEF Ordered, StrictOrder
<1> QED
  BY <1>1, <1>q, <1>2, <1>3, <1>4, <1>7, <1>8, <1>9, <1>10 DEF AtRotation

LEMMA RotationLinked ==
    ASSUME NEW t, NEW S, NEW D, NEW lt, Linked(t, S), NEW p, NEW x, NEW i, NEW g,
           AtRotation(t, S, D, lt, p, x, i, g), NEW r, RotatedLeft(r, t, p, x, i, g)
    PROVE  Linked(r, S)
<1>1. NULL \notin S /\ NULL \notin Nodes /\ S \subseteq Nodes /\ t \in Trees
  BY NullIsNoNode
<1>2. r \in Trees
  BY DEF RotatedLeft
<1>a. /\ p \in S /\ x \in S /\ (i # NULL => i \in S) /\ (g # NULL => g \in S)
      /\ x # p /\ i # p /\ i # x /\ g # p /\ g # x
  BY DEF AtRotation
<1>b. /\ t.right[p] = x /\ t.left[x] = i /\ t.prev[p] = g /\ t.prev[x] = p
      /\ (i # NULL => t.prev[i] = x)
      /\ t.left[p] # x /\ (i # NULL => t.right[x] # i)
  BY DEF AtRotation, Linked
<1>3. g = NULL <=> p = t.root
  BY <1>1, <1>a, <1>b DEF Linked
<1>4. g # NULL => p = t.left[g] \/ p = t.right[g]
  BY <1>1, <1>3, <1>a, <1>b DEF Linked
<1>5. r.root \in S \cup {NULL} /\ (r.root = NULL <=> S = {}) /\ (r.root # NULL => r.prev[r.root] = NULL)
  <2>1. CASE g = NULL
    BY <1>1, <1>2, <1>a, <2>1 DEF RotatedLeft
  <2>2. CASE g # NULL
    <3>1. r.root = t.root /\ t.root # p /\ t.root # NULL /\ t.root \in S /\ t.prev[t.root] = NULL
      BY <1>1, <1>3, <1>a, <2>2 DEF RotatedLeft, Linked
    <3>2. t.root # x /\ t.root # i
      BY <1>1, <1>a, <1>b, <3>1
    <3> QED
      BY <1>1, <1>a, <3>1, <3>2 DEF RotatedLeft
  <2> QED
    BY <2>1, <2>2
<1>l. /\ \A m \in Nodes : m # x /\ m # g => r.left[m] = t.left[m]
      /\ r.left[x] = p
      /\ g # NULL /\ t.left[g] = p => r.left[g] = x
      /\ g # NULL /\ t.left[g] # p => r.left[g] = t.left[g]
  BY <1>1, <1>a DEF RotatedLeft
<1>r. /\ \A m \in Nodes : m # p /\ m # g => r.right[m] = t.right[m]
      /\ r.right[p] = i
      /\ g # NULL /\ t.left[g] # p => r.right[g] = x
      /\ g # NULL /\ t.left[g] = p => r.right[g] = t.right[g]
  BY <1>1, <1>a DEF RotatedLeft
<1>p. /\ \A m \in Nodes : m # x /\ m # p /\ m # i => r.prev[m] = t.prev[m]
      /\ r.prev[x] = g /\ r.prev[p] = x /\ (i # NULL => r.prev[i] = p)
  BY <1>1, <1>a DEF RotatedLeft
<1>6. ASSUME NEW n \in S
      PROVE  /\ r.left[n] \in S \cup {NULL} /\ r.right[n] \in S \cup {NULL}
             /\ r.prev[n] \in S \cup {NULL}
  <2>1. n \in Nodes /\ t.left[n] \in S \cup {NULL} /\ t.right[n] \in S \cup {NULL}
        /\ t.prev[n] \in S \cup {NULL}
    BY <1>1 DEF Linked
  <2>2. r.left[n] = p \/ r.left[n] = x \/ r.left[n] = t.left[n]
    BY <1>1, <1>l, <2>1
  <2>3. r.right[n] = i \/ r.right[n] = x \/ r.right[n] = t.right[n]
    BY <1>1, <1>r, <2>1
  <2>4. r.prev[n] = g \/ r.prev[n] = x \/ r.prev[n] = p \/ r.prev[n] = t.prev[n]
    BY <1>1, <1>p, <2>1
  <2> QED
    BY <1>a, <2>1, <2>2, <2>3, <2>4
<1>7. ASSUME NEW n \in S, r.left[n] # NULL PROVE r.prev[r.left[n]] = n
  <2>1. CASE n = x
    BY <1>l, <1>p, <2>1
  <2>2. CASE n = g /\ t.left[g] = p
    BY <1>1, <1>l, <1>p, <2>2
  <2>3. CASE n # x /\ ~(n = g /\ t.left[g] = p)
    <3>1. n \in Nodes /\ n # NULL
      BY <1>1
    <3>2. r.left[n] = t.left[n]
      BY <1>l, <2>3, <3>1
    <3>3. PICK c \in S : c = t.left[n] /\ t.prev[c] = n /\ c \in Nodes
      BY <1>1, <1>7, <3>2 DEF Linked
    <3>4. c # x
      BY <1>b, <3>3
    <3>5. c # p
      BY <1>b, <2>3, <3>3
    <3>6. c # i
      BY <1>1, <1>b, <2>3, <3>3
    <3>7. r.prev[c] = n
      BY <1>p, <3>3, <3>4, <3>5, <3>6
    <3> QED
      BY <3>2, <3>3, <3>7
  <2> QED
    BY <2>1, <2>2, <2>3
<1>8. ASSUME NEW n \in S, r.right[n] # NULL PROVE r.prev[r.right[n]] = n
  <2>1. CASE n = p
    BY <1>r, <1>p, <1>8, <2>1
  <2>2. CASE n = g /\ t.left[g] # p
    BY <1>1, <1>r, <1>p, <2>2
  <2>3. CASE n # p /\ ~(n = g /\ t.left[g] # p)
    <3>1. n \in Nodes /\ n # NULL
      BY <1>1
    <3>2. r.right[n] = t.right[n]
      BY <1>r, <2>3, <3>1
    <3>3. PICK c \in S : c = t.right[n] /\ t.prev[c] = n /\ c \in Nodes
      BY <1>1, <1>8, <3>2 DEF Linked
    <3>4. c # x
      BY <1>b, <2>3, <3>3
    <3>5. c # p
      <4> SUFFICES ASSUME c = p PROVE FALSE
        OBVIOUS
      <4>1. n = g /\ t.left[g] = p /\ t.right[g] = p
        BY <1>b, <2>3, <3>3
      <4>2. g # NULL
        BY <1>1, <4>1
      <4> QED
        BY <4>1, <4>2 DEF AtRotation
    <3>6. c # i
      BY <1>1, <1>b, <2>3, <3>3
    <3>7. r.prev[c] = n
      BY <1>p, <3>3, <3>4, <3>5, <3>6
    <3> QED
      BY <3>2, <3>3, <3>7
  <2> QED
    BY <2>1, <2>2, <2>3
<1>9. ASSUME NEW n \in S, n # r.root
      PROVE  r.prev[n] # NULL /\ (n = r.left[r.prev[n]] \/ n = r.right[r.prev[n]])
  <2>1. CASE n = x
    <3>1. g # NULL
      BY <1>9, <2>1 DEF RotatedLeft
    <3> QED
      BY <1>l, <1>r, <1>p, <2>1, <3>1
  <2>2. CASE n = p
    BY <1>1, <1>a, <1>p, <1>l, <2>2
  <2>3. CASE n = i
    BY <1>1, <1>a, <1>p, <1>r, <2>3
  <2>4. CASE n # x /\ n # p /\ n # i
    <3>1. n \in Nodes /\ r.prev[n] = t.prev[n]
      BY <1>1, <1>p, <2>4
    <3>2. n # t.root
      BY <1>3, <1>9, <2>4 DEF RotatedLeft
    <3>3. PICK q \in S : q = t.prev[n] /\ (n = t.left[q] \/ n = t.right[q])
      BY <1>1, <3>2 DEF Linked
    <3>4. q \in Nodes /\ q # NULL
      BY <1>1
    <3>5. n = t.left[q] => n = r.left[q]
      BY <1>b, <1>l, <2>4, <3>4
    <3>6. n = t.right[q] => n = r.right[q]
      BY <1>b, <1>r, <1>4, <2>4, <3>4
    <3> QED
      BY <1>1, <3>1, <3>3, <3>5, <3>6
  <2> QED
    BY <2>1, <2>2, <2>3, <2>4
<1>10. ASSUME NEW n \in Nodes \ S PROVE r.left[n] = NULL /\ r.right[n] = NULL /\ r.prev[n] = NULL
  <2>1. t.left[n] = NULL /\ t.right[n] = NULL /\ t.prev[n] = NULL
    BY DEF Linked
  <2>2. n # x /\ n # p /\ n # g /\ n # i
    BY <1>1, <1>a
  <2>3. r.left[n] = t.left[n]
    BY <1>l, <2>2
  <2>4. r.right[n] = t.right[n]
    BY <1>r, <2>2
  <2>5. r.prev[n] = t.prev[n]
    BY <1>p, <2>2
  <2> QED
    BY <2>1, <2>3, <2>4, <2>5
<1> QED
  BY <1>1, <1>2, <1>5, <1>6, <1>7, <1>8, <1>9, <1>10 DEF Linked

\* E is D with the subtrees of p and of x those of the rotated tree.
RotatedSets(E, D, t, p, x, i) ==
    /\ E \in [Nodes -> SUBSET Nodes]
    /\ E[x] = D[p]
    /\ E[p] = {p} \cup Under(D, t.left[p]) \cup Under(D, i)
    /\ \A m \in Nodes : m # p /\ m # x => E[m] = D[m]

LEMMA RotatedSetsExist ==
    ASSUME NEW t, NEW S, NEW D, NEW lt, Ordered(t, S, D, lt), NEW p, NEW x, NEW i, NEW g,
           AtRotation(t, S, D, lt, p, x, i, g)
    PROVE  \E E : RotatedSets(E, D, t, p, x, i)
<1>1. PICK s : s = {p} \cup Under(D, t.left[p]) \cup Under(D, i)
  OBVIOUS
<1>2. D \in [Nodes -> SUBSET Nodes] /\ p \in Nodes /\ x \in Nodes /\ x # p
  BY DEF Ordered, Subtrees, Linked, AtRotation
<1>3. s \in SUBSET Nodes
  <2>1. Under(D, t.left[p]) \subseteq Nodes
    <3>1. t.left[p] = NULL \/ t.left[p] \in Nodes
      BY <1>2 DEF Ordered, Linked, AtRotation
    <3> QED
      BY <1>2, <3>1 DEF Under
  <2>2. Under(D, i) \subseteq Nodes
    <3>1. i = NULL \/ i \in Nodes
      BY DEF Ordered, Linked, AtRotation
    <3> QED
      BY <1>2, <3>1 DEF Under
  <2> QED
    BY <1>1, <1>2, <2>1, <2>2
<1>4. PICK E : E = [D EXCEPT ![x] = D[p], ![p] = s]
  OBVIOUS
<1>5. E \in [Nodes -> SUBSET Nodes] /\ E[x] = D[p] /\ E[p] = s
      /\ \A m \in Nodes : m # p /\ m # x => E[m] = D[m]
  BY <1>2, <1>3, <1>4
<1> QED
  BY <1>1, <1>5 DEF RotatedSets

\* The subtrees of the rotated tree, by those of the tree.
RotatedUnder(r, E, t, D, S, p, x, i) ==
    /\ \A n \in S : n # p /\ n # x => /\ Under(E, r.left[n]) = Under(D, t.left[n])
                                      /\ Under(E, r.right[n]) = Under(D, t.right[n])
    /\ Under(E, r.left[p]) = Under(D, t.left[p])
    /\ Under(E, r.right[p]) = Under(D, i)
    /\ Under(E, r.left[x]) = E[p]
    /\ Under(E, r.right[x]) = Under(D, t.right[x])

LEMMA RotationUnder ==
    ASSUME NEW t, NEW S, NEW D, NEW lt, Ordered(t, S, D, lt), NEW p, NEW x, NEW i, NEW g,
           AtRotation(t, S, D, lt, p, x, i, g), NEW r, RotatedLeft(r, t, p, x, i, g),
           NEW E, RotatedSets(E, D, t, p, x, i)
    PROVE  RotatedUnder(r, E, t, D, S, p, x, i)
<1>1. NULL \notin S /\ NULL \notin Nodes /\ S \subseteq Nodes /\ t \in Trees
  BY NullIsNoNode DEF Ordered
<1>a. /\ p \in S /\ x \in S /\ (i # NULL => i \in S) /\ (g # NULL => g \in S)
      /\ x # p /\ i # p /\ i # x /\ g # p /\ g # x
  BY DEF AtRotation
<1>b. /\ t.right[p] = x /\ t.prev[p] = g /\ t.prev[x] = p /\ p \in Nodes /\ x \in Nodes
  BY <1>1, <1>a DEF AtRotation
<1>2. \A c : c # p /\ c # x /\ (c \in S \/ c = NULL) => Under(E, c) = Under(D, c)
  BY <1>1 DEF RotatedSets, Under
<1>3. Under(E, x) = Under(D, p) /\ Under(E, p) = E[p]
  BY <1>1, <1>a DEF RotatedSets, Under
<1>4. \A n \in S : t.left[n] \in S \/ t.left[n] = NULL
  BY DEF Ordered, Linked
<1>5. \A n \in S : t.right[n] \in S \/ t.right[n] = NULL
  BY DEF Ordered, Linked
<1>6. \A n \in S : (t.left[n] = p => n = g) /\ (t.left[n] = x => n = p)
  <2>1. \A n \in S : t.left[n] # NULL => t.prev[t.left[n]] = n
    BY DEF Ordered, Linked
  <2> QED
    BY <1>1, <1>a, <1>b, <2>1
<1>7. \A n \in S : (t.right[n] = p => n = g) /\ (t.right[n] = x => n = p)
  <2>1. \A n \in S : t.right[n] # NULL => t.prev[t.right[n]] = n
    BY DEF Ordered, Linked
  <2> QED
    BY <1>1, <1>a, <1>b, <2>1
<1>8. g # NULL => t.left[g] = p \/ t.right[g] = p
  BY <1>1, <1>a, <1>b DEF Ordered, Linked
<1>9. g # NULL => ~(t.left[g] = p /\ t.right[g] = p)
  BY DEF AtRotation
<1>10. t.left[p] # p /\ t.left[p] # x /\ t.right[x] # x /\ t.right[x] # p
  BY <1>1, <1>a, <1>b, <1>6, <1>7 DEF AtRotation
<1>11. ASSUME NEW n \in S, n # p, n # x PROVE Under(E, r.left[n]) = Under(D, t.left[n])
  <2>1. CASE n = g /\ t.left[g] = p
    <3>1. r.left[n] = x
      BY <1>1, <1>11, <2>1 DEF RotatedLeft
    <3> QED
      BY <1>3, <2>1, <3>1
  <2>2. CASE ~(n = g /\ t.left[g] = p)
    <3>1. r.left[n] = t.left[n]
      BY <1>1, <1>11, <2>2 DEF RotatedLeft
    <3>2. t.left[n] # p /\ t.left[n] # x
      BY <1>6, <1>11, <2>2
    <3> QED
      BY <1>2, <1>4, <3>1, <3>2
  <2> QED
    BY <2>1, <2>2
<1>12. ASSUME NEW n \in S, n # p, n # x PROVE Under(E, r.right[n]) = Under(D, t.right[n])
  <2>1. CASE n = g /\ t.left[g] # p
    <3>1. r.right[n] = x /\ t.right[n] = p
      BY <1>1, <1>8, <1>12, <2>1 DEF RotatedLeft
    <3> QED
      BY <1>3, <3>1
  <2>2. CASE ~(n = g /\ t.left[g] # p)
    <3>1. r.right[n] = t.right[n]
      BY <1>1, <1>12, <2>2 DEF RotatedLeft
    <3>2. t.right[n] # p /\ t.right[n] # x
      BY <1>1, <1>7, <1>9, <1>12, <2>2
    <3> QED
      BY <1>2, <1>5, <3>1, <3>2
  <2> QED
    BY <2>1, <2>2
<1>13. r.left[p] = t.left[p] /\ r.right[p] = i /\ r.left[x] = p /\ r.right[x] = t.right[x]
  BY <1>1, <1>a DEF RotatedLeft
<1>14. Under(E, t.left[p]) = Under(D, t.left[p]) /\ Under(E, t.right[x]) = Under(D, t.right[x])
  BY <1>a, <1>2, <1>4, <1>5, <1>10
<1>15. Under(E, i) = Under(D, i)
  BY <1>a, <1>2
<1> QED
  BY <1>3, <1>11, <1>12, <1>13, <1>14, <1>15 DEF RotatedUnder

\* What the order says of the nodes around a rotation.
AroundRotation(t, S, D, lt, p, x, i, g) ==
    /\ D[p] = {p} \cup Under(D, t.left[p]) \cup D[x]
    /\ D[x] = {x} \cup Under(D, i) \cup Under(D, t.right[x])
    /\ \A c \in Under(D, t.left[p]) : c # p /\ c # x /\ c # i /\ <<c, p>> \in lt /\ <<c, x>> \in lt
    /\ \A c \in Under(D, i) : c # p /\ c # x /\ <<p, c>> \in lt /\ <<c, x>> \in lt
    /\ \A c \in Under(D, t.right[x]) : c # p /\ c # x /\ c # i
    /\ \A m \in S : m # x /\ x \in D[m] => p \in D[m]
    /\ \A m \in S : m # p /\ p \in D[m] => g \in D[m]

LEMMA RotationOrder ==
    ASSUME NEW t, NEW S, NEW D, NEW lt, Ordered(t, S, D, lt), NEW p, NEW x, NEW i, NEW g,
           AtRotation(t, S, D, lt, p, x, i, g)
    PROVE  AroundRotation(t, S, D, lt, p, x, i, g)
<1>1. NULL \notin S /\ NULL \notin Nodes /\ S \subseteq Nodes /\ t \in Trees
  BY NullIsNoNode DEF Ordered
<1>a. /\ p \in S /\ x \in S /\ (i # NULL => i \in S) /\ x # p /\ i # p /\ i # x
      /\ t.right[p] = x /\ t.left[x] = i /\ t.prev[p] = g /\ t.prev[x] = p /\ <<p, x>> \in lt
  BY DEF AtRotation
<1>b. /\ \A a \in Nodes : <<a, a>> \notin lt
      /\ \A a, b, c \in Nodes : <<a, b>> \in lt /\ <<b, c>> \in lt => <<a, c>> \in lt
  BY DEF Ordered, StrictOrder
<1>2. D[p] = {p} \cup Under(D, t.left[p]) \cup D[x]
  BY <1>1, <1>a DEF Ordered, Subtrees, Under
<1>3. D[x] = {x} \cup Under(D, i) \cup Under(D, t.right[x])
  BY <1>1, <1>a DEF Ordered, Subtrees
<1>4. D[p] \subseteq Nodes /\ D[x] \subseteq Nodes /\ p \in Nodes /\ x \in Nodes
  BY <1>1, <1>a DEF Ordered, Subtrees
<1>5. \A c \in Under(D, t.left[p]) : <<c, p>> \in lt
  BY <1>a DEF Ordered, Sorted
<1>6. \A c \in D[x] : <<p, c>> \in lt
  BY <1>1, <1>a DEF Ordered, Sorted, Under
<1>7. \A c \in Under(D, i) : <<c, x>> \in lt
  BY <1>a DEF Ordered, Sorted
<1>8. \A c \in Under(D, t.right[x]) : <<x, c>> \in lt
  BY <1>a DEF Ordered, Sorted
<1>9. i # NULL => i \in Under(D, i)
  BY <1>a, ChildrenUnder DEF Under, OnItsSides
<1>10. \A c \in Under(D, t.left[p]) : c # p /\ c # x /\ c # i /\ <<c, p>> \in lt /\ <<c, x>> \in lt
  <2> SUFFICES ASSUME NEW c \in Under(D, t.left[p])
               PROVE  c # p /\ c # x /\ c # i /\ <<c, p>> \in lt /\ <<c, x>> \in lt
    OBVIOUS
  <2>1. c \in Nodes /\ <<c, p>> \in lt /\ <<c, x>> \in lt
    BY <1>2, <1>4, <1>5, <1>a, <1>b
  <2>2. c = i => <<p, c>> \in lt
    BY <1>1, <1>3, <1>6, <1>9, <2>1
  <2> QED
    BY <1>4, <1>b, <2>1, <2>2
<1>11. \A c \in Under(D, i) : c # p /\ c # x /\ <<p, c>> \in lt /\ <<c, x>> \in lt
  BY <1>3, <1>4, <1>6, <1>7, <1>b
<1>12. \A c \in Under(D, t.right[x]) : c # p /\ c # x /\ c # i
  <2> SUFFICES ASSUME NEW c \in Under(D, t.right[x]) PROVE c # p /\ c # x /\ c # i
    OBVIOUS
  <2>1. c \in Nodes /\ <<x, c>> \in lt /\ <<p, c>> \in lt
    BY <1>3, <1>4, <1>6, <1>8
  <2>2. c = i => <<c, x>> \in lt
    BY <1>1, <1>7, <1>9, <2>1
  <2> QED
    BY <1>4, <1>b, <2>1, <2>2
<1>13. \A m \in S : \A c \in D[m] : c # m => t.prev[c] \in D[m]
  BY DEF Ordered, Subtrees
<1>14. (\A m \in S : m # x /\ x \in D[m] => p \in D[m])
       /\ (\A m \in S : m # p /\ p \in D[m] => g \in D[m])
  BY <1>a, <1>13
<1> QED
  BY <1>2, <1>3, <1>10, <1>11, <1>12, <1>14 DEF AroundRotation

LEMMA RotationSubtrees ==
    ASSUME NEW t, NEW S, NEW D, NEW lt, Ordered(t, S, D, lt), NEW p, NEW x, NEW i, NEW g,
           AtRotation(t, S, D, lt, p, x, i, g), NEW r, RotatedLeft(r, t, p, x, i, g),
           NEW E, RotatedSets(E, D, t, p, x, i)
    PROVE  Subtrees(r, S, E)
<1>1. NULL \notin S /\ NULL \notin Nodes /\ S \subseteq Nodes /\ t \in Trees
  BY NullIsNoNode DEF Ordered
<1>a. /\ p \in S /\ x \in S /\ (i # NULL => i \in S) /\ (g # NULL => g \in S)
      /\ x # p /\ i # p /\ i # x /\ g # p /\ g # x
      /\ t.right[p] = x /\ t.left[x] = i /\ t.prev[p] = g /\ t.prev[x] = p
  BY DEF AtRotation
<1>u. /\ \A n \in S : n # p /\ n # x => /\ Under(E, r.left[n]) = Under(D, t.left[n])
                                      /\ Under(E, r.right[n]) = Under(D, t.right[n])
      /\ Under(E, r.left[p]) = Under(D, t.left[p]) /\ Under(E, r.right[p]) = Under(D, i)
      /\ Under(E, r.left[x]) = E[p] /\ Under(E, r.right[x]) = Under(D, t.right[x])
  BY RotationUnder DEF RotatedUnder
<1>e. /\ E[x] = D[p] /\ E[p] = {p} \cup Under(D, t.left[p]) \cup Under(D, i)
      /\ \A m \in S : m # p /\ m # x => E[m] = D[m]
      /\ E \in [Nodes -> SUBSET Nodes]
  BY <1>1 DEF RotatedSets
<1>o. AroundRotation(t, S, D, lt, p, x, i, g)
  BY RotationOrder
<1>d. /\ D[p] = {p} \cup Under(D, t.left[p]) \cup D[x]
      /\ D[x] = {x} \cup Under(D, i) \cup Under(D, t.right[x])
  BY <1>o DEF AroundRotation
<1>v. /\ \A m \in Nodes : m # x /\ m # p /\ m # i => r.prev[m] = t.prev[m]
      /\ r.prev[x] = g /\ r.prev[p] = x /\ (i # NULL => r.prev[i] = p)
  BY <1>1, <1>a DEF RotatedLeft
<1>2. ASSUME NEW n \in S PROVE E[n] = {n} \cup Under(E, r.left[n]) \cup Under(E, r.right[n])
  <2>1. CASE n # p /\ n # x
    <3>1. D[n] = {n} \cup Under(D, t.left[n]) \cup Under(D, t.right[n])
      BY DEF Ordered, Subtrees
    <3> QED
      BY <1>u, <1>e, <2>1, <3>1
  <2>2. CASE n = p
    BY <1>u, <1>e, <2>2
  <2>3. CASE n = x
    BY <1>u, <1>e, <1>d, <2>3
  <2> QED
    BY <2>1, <2>2, <2>3
<1>3. r.root # NULL => E[r.root] = S
  <2>1. CASE g = NULL
    <3>1. t.root = p /\ r.root = x
      BY <1>1, <1>a, <2>1 DEF Ordered, Linked, RotatedLeft
    <3> QED
      BY <1>1, <1>a, <1>e, <3>1 DEF Ordered, Subtrees
  <2>2. CASE g # NULL
    <3>1. r.root = t.root /\ t.root \in S /\ t.prev[t.root] = NULL
      BY <1>a, <2>2 DEF Ordered, Linked, RotatedLeft
    <3>2. t.root # p /\ t.root # x
      BY <1>1, <1>a, <2>2, <3>1
    <3> QED
      BY <1>1, <1>e, <3>1, <3>2 DEF Ordered, Subtrees
  <2> QED
    BY <2>1, <2>2
<1>s. \A m \in S : \A c \in D[m] : c \in S /\ D[c] \subseteq D[m]
  BY DEF Ordered, Subtrees
<1>t. (\A m \in S : m # x /\ x \in D[m] => p \in D[m])
      /\ (\A m \in S : m # p /\ p \in D[m] => g \in D[m])
  BY <1>o DEF AroundRotation
<1>c. /\ \A c \in Under(D, t.left[p]) : c # p /\ c # x /\ c # i
      /\ \A c \in Under(D, i) : c # p /\ c # x
  BY <1>o DEF AroundRotation
<1>4. ASSUME NEW m \in S, NEW c \in E[m] PROVE c \in S /\ E[c] \subseteq E[m]
  <2>p. E[p] \subseteq D[p]
    BY <1>e, <1>d
  <2>1. CASE m = x
    BY <1>e, <1>s, <1>a, <2>p, <2>1
  <2>2. CASE m = p
    <3>1. CASE c = p
      BY <1>a, <2>2, <3>1
    <3>2. CASE c \in Under(D, t.left[p])
      <4>1. t.left[p] \in S /\ Under(D, t.left[p]) = D[t.left[p]]
        BY <1>a, <3>2 DEF Under, Ordered, Linked
      <4> QED
        BY <1>c, <1>e, <1>s, <2>2, <3>2, <4>1
    <3>3. CASE c \in Under(D, i)
      <4>1. i \in S /\ Under(D, i) = D[i]
        BY <1>a, <3>3 DEF Under
      <4> QED
        BY <1>c, <1>e, <1>s, <2>2, <3>3, <4>1
    <3> QED
      BY <1>e, <2>2, <3>1, <3>2, <3>3
  <2>3. CASE m # x /\ m # p
    <3>1. E[m] = D[m] /\ c \in D[m] /\ c \in S
      BY <1>e, <1>s, <2>3
    <3>2. c = x => E[c] \subseteq D[m]
      BY <1>e, <1>s, <1>t, <2>3, <3>1
    <3>3. c = p => E[c] \subseteq D[m]
      BY <1>s, <2>p, <3>1
    <3>4. c # x /\ c # p => E[c] \subseteq D[m]
      BY <1>e, <1>s, <3>1
    <3> QED
      BY <3>1, <3>2, <3>3, <3>4
  <2> QED
    BY <2>1, <2>2, <2>3
<1>w. \A m \in S : \A c \in D[m] : c # m => t.prev[c] \in D[m]
  BY DEF Ordered, Subtrees
<1>5. ASSUME NEW m \in S, NEW c \in E[m], c # m PROVE r.prev[c] \in E[m]
  <2>0. c \in S /\ c \in Nodes /\ c # NULL
    BY <1>1, <1>4
  <2>1. CASE m = x
    <3>1. c \in D[p] /\ E[m] = D[p] /\ p \in D[p] /\ x \in D[p]
      BY <1>e, <1>d, <2>1
    <3>2. c # p /\ c # i => r.prev[c] = t.prev[c] /\ t.prev[c] \in D[p]
      BY <1>a, <1>v, <1>w, <1>5, <2>0, <2>1, <3>1
    <3> QED
      BY <1>v, <2>0, <3>1, <3>2
  <2>2. CASE m = p
    <3>1. CASE c \in Under(D, t.left[p])
      <4>1. t.left[p] \in S /\ Under(D, t.left[p]) = D[t.left[p]] /\ t.prev[t.left[p]] = p
        BY <1>1, <1>a, <3>1 DEF Under, Ordered, Linked
      <4>2. r.prev[c] = t.prev[c]
        BY <1>c, <1>v, <2>0, <3>1
      <4> QED
        BY <1>e, <1>w, <2>2, <3>1, <4>1, <4>2
    <3>2. CASE c \in Under(D, i)
      <4>1. i \in S /\ Under(D, i) = D[i]
        BY <1>a, <3>2 DEF Under
      <4>2. c # i => r.prev[c] = t.prev[c] /\ t.prev[c] \in D[i]
        BY <1>c, <1>v, <1>w, <2>0, <3>2, <4>1
      <4>3. c = i => r.prev[c] = p
        BY <1>v, <2>0
      <4> QED
        BY <1>e, <2>2, <4>1, <4>2, <4>3
    <3> QED
      BY <1>5, <1>e, <2>2, <3>1, <3>2
  <2>3. CASE m # x /\ m # p
    <3>1. E[m] = D[m] /\ c \in D[m] /\ t.prev[c] \in D[m]
      BY <1>5, <1>e, <1>w, <2>3
    <3>2. c = x => r.prev[c] \in D[m]
      BY <1>t, <1>v, <2>3, <3>1
    <3>3. c = p => r.prev[c] \in D[m]
      <4>1. x \in D[p]
        BY <1>d
      <4> QED
        BY <1>s, <1>v, <3>1, <4>1
    <3>4. c = i => r.prev[c] \in D[m]
      <4>1. i # NULL => t.prev[i] = x
        BY <1>a DEF Ordered, Linked
      <4> QED
        BY <1>t, <1>v, <2>0, <2>3, <3>1, <4>1
    <3>5. c # x /\ c # p /\ c # i => r.prev[c] \in D[m]
      BY <1>v, <2>0, <3>1
    <3> QED
      BY <3>1, <3>2, <3>3, <3>4, <3>5
  <2> QED
    BY <2>1, <2>2, <2>3
<1> QED
  BY <1>2, <1>3, <1>4, <1>5, <1>e DEF Subtrees

LEMMA RotationSorted ==
    ASSUME NEW t, NEW S, NEW D, NEW lt, Ordered(t, S, D, lt), NEW p, NEW x, NEW i, NEW g,
           AtRotation(t, S, D, lt, p, x, i, g), NEW r, RotatedLeft(r, t, p, x, i, g),
           NEW E, RotatedSets(E, D, t, p, x, i)
    PROVE  Sorted(r, S, E, lt)
<1>1. RotatedUnder(r, E, t, D, S, p, x, i)
  BY RotationUnder
<1>2. AroundRotation(t, S, D, lt, p, x, i, g)
  BY RotationOrder
<1>3. p \in S /\ x \in S /\ t.right[p] = x /\ <<p, x>> \in lt
  BY DEF AtRotation
<1>4. ASSUME NEW n \in S
      PROVE  /\ \A c \in Under(E, r.left[n]) : <<c, n>> \in lt
             /\ \A c \in Under(E, r.right[n]) : <<n, c>> \in lt
  <2>1. CASE n # p /\ n # x
    BY <1>1, <2>1 DEF RotatedUnder, Ordered, Sorted
  <2>2. CASE n = p
    BY <1>1, <1>2, <2>2 DEF RotatedUnder, AroundRotation
  <2>3. CASE n = x
    <3>1. E[p] = {p} \cup Under(D, t.left[p]) \cup Under(D, i)
      BY DEF RotatedSets
    <3>2. \A c \in E[p] : <<c, x>> \in lt
      BY <1>2, <1>3, <3>1 DEF AroundRotation
    <3>3. \A c \in Under(D, t.right[x]) : <<x, c>> \in lt
      BY <1>3 DEF Ordered, Sorted
    <3> QED
      BY <1>1, <2>3, <3>2, <3>3 DEF RotatedUnder
  <2> QED
    BY <2>1, <2>2, <2>3
<1> QED
  BY <1>4 DEF Sorted

\* r is t after rotations at and below p: it is in order too, and its root is
\* another one only when p was the root.
Kept(r, t, S, lt, p) == (\E E : Ordered(r, S, E, lt)) /\ (p # t.root => r.root = t.root)

LEMMA LeftTurn ==
    ASSUME NEW t, NEW S, NEW D, NEW lt, Ordered(t, S, D, lt), NEW p \in S, t.right[p] # NULL,
           NEW r, r = DoLeft(t, p)
    PROVE  /\ Kept(r, t, S, lt, p)
           /\ t.prev[p] # NULL => r.root = t.root
           /\ t.prev[p] # NULL /\ t.left[t.prev[p]] = p => r.left[t.prev[p]] = t.right[p]
           /\ r.right[p] = t.left[t.right[p]]
<1>1. PICK x : x = t.right[p]
  OBVIOUS
<1>2. PICK i : i = t.left[x]
  OBVIOUS
<1>3. PICK g : g = t.prev[p]
  OBVIOUS
<1>4. AtRotation(t, S, D, lt, p, x, i, g)
  BY <1>1, <1>2, <1>3, RotationFacts
<1>5. NULL \notin S /\ NULL \notin Nodes /\ S \subseteq Nodes /\ t \in Trees
  BY NullIsNoNode DEF Ordered
<1>6. /\ x \in S /\ (g # NULL => g \in S) /\ x # p /\ i # p /\ i # x /\ g # p /\ g # x
  BY <1>4 DEF AtRotation
<1>7. RotatedLeft(r, t, p, x, i, g)
  BY <1>1, <1>2, <1>3, <1>5, <1>6, DoLeftFields
<1>8. PICK E : RotatedSets(E, D, t, p, x, i)
  BY <1>4, RotatedSetsExist
<1>9. Linked(r, S)
  BY <1>4, <1>7, RotationLinked DEF Ordered
<1>10. Subtrees(r, S, E)
  BY <1>4, <1>7, <1>8, RotationSubtrees
<1>11. Sorted(r, S, E, lt)
  BY <1>4, <1>7, <1>8, RotationSorted
<1>12. Ordered(r, S, E, lt)
  BY <1>9, <1>10, <1>11 DEF Ordered
<1>13. g # NULL => r.root = t.root
  BY <1>7 DEF RotatedLeft
<1>14. p # t.root => g # NULL
  BY <1>3 DEF Ordered, Linked
<1>15. g # NULL /\ t.left[g] = p => r.left[g] = x
  BY <1>5, <1>6, <1>7 DEF RotatedLeft
<1>16. r.right[p] = i
  BY <1>5, <1>6, <1>7 DEF RotatedLeft
<1> QED
  BY <1>1, <1>2, <1>3, <1>12, <1>13, <1>14, <1>15, <1>16 DEF Kept

Opposite(lt, gt) == \A a, b \in Nodes : <<a, b>> \in gt <=> <<b, a>> \in lt

LEMMA MirrorFields ==
    ASSUME NEW t \in Trees
    PROVE  /\ Mirror(t) \in Trees
           /\ Mirror(t).root = t.root /\ Mirror(t).left = t.right /\ Mirror(t).right = t.left
           /\ Mirror(t).prev = t.prev /\ Mirror(t).height = t.height
  BY DEF Mirror, Trees

LEMMA MirrorOrdered ==
    ASSUME NEW t, NEW S, NEW D, NEW lt, Ordered(t, S, D, lt), NEW gt, Opposite(lt, gt),
           NEW r, r = Mirror(t)
    PROVE  Ordered(r, S, D, gt)
<1>1. S \subseteq Nodes /\ t \in Trees
  BY NullIsNoNode DEF Ordered
<1>2. /\ r \in Trees /\ r.root = t.root /\ r.left = t.right /\ r.right = t.left /\ r.prev = t.prev
  BY <1>1, MirrorFields
<1>3. Linked(r, S)
  BY <1>2 DEF Ordered, Linked
<1>4. Subtrees(r, S, D)
  BY <1>2 DEF Ordered, Subtrees
<1>5. StrictOrder(gt)
  <2>1. \A a \in Nodes : <<a, a>> \notin gt
    BY DEF Ordered, StrictOrder, Opposite
  <2>2. ASSUME NEW a \in Nodes, NEW b \in Nodes, NEW c \in Nodes, <<a, b>> \in gt, <<b, c>> \in gt
        PROVE  <<a, c>> \in gt
    BY <2>2 DEF Ordered, StrictOrder, Opposite
  <2> QED
    BY <2>1, <2>2 DEF StrictOrder
<1>6. ASSUME NEW n \in S
      PROVE  /\ \A c \in Under(D, r.left[n]) : <<c, n>> \in gt
             /\ \A c \in Under(D, r.right[n]) : <<n, c>> \in gt
  <2>1. D[n] = {n} \cup Under(D, t.left[n]) \cup Under(D, t.right[n]) /\ D[n] \subseteq Nodes
    BY <1>1 DEF Ordered, Subtrees
  <2>2. (\A c \in Under(D, t.left[n]) : <<c, n>> \in lt)
        /\ (\A c \in Under(D, t.right[n]) : <<n, c>> \in lt)
    BY DEF Ordered, Sorted
  <2>3. n \in Nodes
    BY <1>1
  <2>4. \A c \in Under(D, t.right[n]) : <<c, n>> \in gt
    BY <2>1, <2>2, <2>3 DEF Opposite
  <2>5. \A c \in Under(D, t.left[n]) : <<n, c>> \in gt
    BY <2>1, <2>2, <2>3 DEF Opposite
  <2> QED
    BY <1>2, <2>4, <2>5
<1> QED
  BY <1>3, <1>4, <1>5, <1>6 DEF Ordered, Sorted

LEMMA OppositeExists ==
    ASSUME NEW lt
    PROVE  \E gt : Opposite(lt, gt) /\ Opposite(gt, lt)
<1>1. PICK gt : gt = {e \in Nodes \X Nodes : <<e[2], e[1]>> \in lt}
  OBVIOUS
<1>2. \A a, b \in Nodes : <<a, b>> \in gt <=> <<b, a>> \in lt
  BY <1>1
<1> QED
  BY <1>2 DEF Opposite

LEMMA RightTurn ==
    ASSUME NEW t, NEW S, NEW D, NEW lt, Ordered(t, S, D, lt), NEW p \in S, t.left[p] # NULL,
           NEW r, r = DoRight(t, p)
    PROVE  Kept(r, t, S, lt, p) /\ r.left[p] = t.right[t.left[p]]
<1>1. PICK gt : Opposite(lt, gt) /\ Opposite(gt, lt)
  BY OppositeExists
<1>2. PICK m : m = Mirror(t)
  OBVIOUS
<1>3. Ordered(m, S, D, gt)
  BY <1>1, <1>2, MirrorOrdered
<1>4. t \in Trees
  BY NullIsNoNode DEF Ordered
<1>5. m.root = t.root /\ m.right = t.left /\ m.left = t.right
  BY <1>2, <1>4, MirrorFields
<1>6. PICK d : d = DoLeft(m, p)
  OBVIOUS
<1>7. Kept(d, m, S, gt, p) /\ d.right[p] = t.right[t.left[p]]
  BY <1>3, <1>5, <1>6, LeftTurn
<1>8. PICK E : Ordered(d, S, E, gt)
  BY <1>7 DEF Kept
<1>9. r = Mirror(d)
  BY <1>2, <1>6 DEF DoRight
<1>10. Ordered(r, S, E, lt)
  BY <1>1, <1>8, <1>9, MirrorOrdered
<1>11. d \in Trees
  BY <1>8, NullIsNoNode DEF Ordered
<1>12. r.root = d.root /\ r.left = d.right
  BY <1>9, <1>11, MirrorFields
<1> QED
  BY <1>5, <1>7, <1>10, <1>12 DEF Kept

LEMMA DoubleTurn ==
    ASSUME NEW t, NEW S, NEW D, NEW lt, Ordered(t, S, D, lt), NEW p \in S, t.left[p] # NULL,
           t.right[t.left[p]] # NULL, NEW r, r = DoRight(DoLeft(t, t.left[p]), p)
    PROVE  Kept(r, t, S, lt, p)
<1>1. PICK q : q = t.left[p]
  OBVIOUS
<1>2. q \in S /\ t.prev[q] = p /\ p # NULL
  BY <1>1, NullIsNoNode DEF Ordered, Linked
<1>3. PICK d : d = DoLeft(t, q)
  OBVIOUS
<1>4. Kept(d, t, S, lt, q) /\ d.root = t.root /\ d.left[p] = t.right[q]
  BY <1>1, <1>2, <1>3, LeftTurn
<1>5. PICK E : Ordered(d, S, E, lt)
  BY <1>4 DEF Kept
<1>6. Kept(r, d, S, lt, p)
  BY <1>1, <1>3, <1>4, <1>5, RightTurn
<1> QED
  BY <1>4, <1>6 DEF Kept

LEMMA RaiseKeeps ==
    ASSUME NEW t, NEW S, NEW D, NEW lt, Ordered(t, S, D, lt), NEW p \in S,
           NEW r, r = Raise(t, p)
    PROVE  /\ Ordered(r, S, D, lt) /\ Kept(r, t, S, lt, p)
           /\ r.root = t.root /\ r.left = t.left /\ r.right = t.right
<1>1. p \in Nodes /\ t \in Trees
  BY NullIsNoNode DEF Ordered
<1>2. r \in Trees /\ r.root = t.root /\ r.left = t.left /\ r.right = t.right /\ r.prev = t.prev
  BY <1>1, RaiseFields
<1>3. Linked(r, S)
  BY <1>2 DEF Ordered, Linked
<1>4. Subtrees(r, S, D)
  BY <1>2 DEF Ordered, Subtrees
<1>5. Sorted(r, S, D, lt)
  BY <1>2 DEF Ordered, Sorted
<1>6. Ordered(r, S, D, lt)
  BY <1>3, <1>4, <1>5 DEF Ordered
<1> QED
  BY <1>2, <1>6 DEF Kept

-----------------------------------------------------------------------------
(* A turn of either balancing loop keeps the order *)

LEMMA HeavySide ==
    ASSUME NEW t \in Trees, NEW p \in NodeOrNull
    PROVE  /\ Diff(t, p) \in Int
           /\ Diff(t, p) > 0 => p # NULL /\ t.left[p] # NULL
           /\ Diff(t, p) < 0 => p # NULL /\ t.right[p] # NULL
<1>1. CASE p = NULL
  BY <1>1 DEF Diff
<1>2. CASE p # NULL
  <2>1. t.left[p] \in NodeOrNull /\ t.right[p] \in NodeOrNull
    BY <1>2 DEF Trees, NodeOrNull
  <2>2. Height(t, t.left[p]) \in Nat /\ (t.left[p] = NULL => Height(t, t.left[p]) = 0)
    BY <2>1, HeightIsNat DEF Height
  <2>3. Height(t, t.right[p]) \in Nat /\ (t.right[p] = NULL => Height(t, t.right[p]) = 0)
    BY <2>1, HeightIsNat DEF Height
  <2>4. Diff(t, p) = Height(t, t.left[p]) - Height(t, t.right[p])
    BY <1>2 DEF Diff
  <2> QED
    BY <1>2, <2>2, <2>3, <2>4
<1> QED
  BY <1>1, <1>2

\* The rotations of InsertTurn at a node found heavy on the left, in either order:
\* bf is the order by pages, which says less than the one of the nodes.
TurnedOnce(s, p, k, bf) ==
    IF s.left[p] # NULL /\ <<k, s.left[p]>> \in bf THEN DoRight(s, p) ELSE s

TurnedTwice(o, p, k, bf) ==
    IF o.left[p] # NULL /\ <<o.left[p], k>> \in bf THEN DoRight(DoLeft(o, o.left[p]), p) ELSE o

\* The two tests of a turn are about different nodes when the first has led to a
\* rotation; the order makes the second one fail.
LEMMA InsertHeavy ==
    ASSUME NEW t, NEW S, NEW D, NEW lt, NEW bf, bf \subseteq lt,
           Ordered(t, S, D, lt), NEW p \in S, NEW k \in Nodes,
           t.left[p] # NULL, <<t.left[p], k>> \in bf => t.right[t.left[p]] # NULL,
           NEW o, o = TurnedOnce(t, p, k, bf), NEW r, r = TurnedTwice(o, p, k, bf)
    PROVE  Kept(r, t, S, lt, p)
<1>1. PICK x : x = t.left[p]
  OBVIOUS
<1>2. NULL \notin S /\ S \subseteq Nodes /\ x \in S
  BY <1>1, NullIsNoNode DEF Ordered, Linked
<1>3. CASE <<k, x>> \in bf
  <2>1. o = DoRight(t, p)
    BY <1>1, <1>3 DEF TurnedOnce
  <2>2. Kept(o, t, S, lt, p) /\ o.left[p] = t.right[x]
    BY <1>1, <2>1, RightTurn
  <2>3. ASSUME o.left[p] # NULL PROVE <<o.left[p], k>> \notin bf
    <3>1. OnItsSides(t, S, D, lt, x)
      BY <1>2, ChildrenUnder
    <3>2. o.left[p] \in S /\ \A c \in D[o.left[p]] : <<x, c>> \in lt
      BY <2>2, <2>3, <3>1 DEF OnItsSides
    <3>3. o.left[p] \in D[o.left[p]]
      BY <3>2, ChildrenUnder DEF OnItsSides
    <3>4. <<k, o.left[p]>> \in lt
      BY <1>2, <1>3, <3>2, <3>3 DEF Ordered, StrictOrder
    <3> QED
      BY <1>2, <3>2, <3>4 DEF Ordered, StrictOrder
  <2>4. r = o
    BY <2>3 DEF TurnedTwice
  <2> QED
    BY <2>2, <2>4
<1>4. CASE <<k, x>> \notin bf
  <2>1. o = t
    BY <1>1, <1>4 DEF TurnedOnce
  <2>2. CASE <<x, k>> \in bf
    <3>1. r = DoRight(DoLeft(t, x), p)
      BY <1>1, <2>1, <2>2 DEF TurnedTwice
    <3> QED
      BY <1>1, <2>2, <3>1, DoubleTurn
  <2>3. CASE <<x, k>> \notin bf
    <3>1. r = t
      BY <1>1, <2>1, <2>3 DEF TurnedTwice
    <3> QED
      BY <3>1 DEF Kept
  <2> QED
    BY <2>2, <2>3
<1> QED
  BY <1>3, <1>4

Less == {e \in Nodes \X Nodes : e[1] < e[2]}
More == {e \in Nodes \X Nodes : e[1] > e[2]}

\* The orders of the pages.
PageLess == {e \in Nodes \X Nodes : Page[e[1]] < Page[e[2]]}
PageMore == {e \in Nodes \X Nodes : Page[e[1]] > Page[e[2]]}

LEMMA LessAndMore ==
    /\ \A a, b \in Nodes : (<<a, b>> \in Less <=> a < b) /\ (<<a, b>> \in More <=> a > b)
    /\ Opposite(Less, More) /\ Opposite(More, Less) /\ StrictOrder(Less)
<1>1. \A a, b \in Nodes : (<<a, b>> \in Less <=> a < b) /\ (<<a, b>> \in More <=> a > b)
  BY DEF Less, More
<1>2. \A a \in Nodes : a \in Nat
  BY AvlAssumption
<1>3. Opposite(Less, More) /\ Opposite(More, Less)
  BY <1>1, <1>2 DEF Opposite
<1>4. StrictOrder(Less)
  BY <1>1, <1>2 DEF StrictOrder
<1> QED
  BY <1>1, <1>3, <1>4

LEMMA PageIsNat == \A a \in Nodes : a \in Nat /\ Page[a] \in Nat
  BY AvlAssumption

LEMMA PageOrders ==
    ASSUME NEW a \in Nodes, NEW b \in Nodes
    PROVE  /\ <<a, b>> \in PageLess <=> Page[a] < Page[b]
           /\ <<a, b>> \in PageMore <=> Page[a] > Page[b]
           /\ Page[a] > Page[b] <=> Page[b] < Page[a]
  BY PageIsNat DEF PageLess, PageMore

LEMMA NodeOrders ==
    ASSUME NEW a \in Nodes, NEW b \in Nodes
    PROVE  (a < b => Page[a] <= Page[b]) /\ (Page[a] < Page[b] => a < b)
<1>1. a < b => Page[a] <= Page[b]
  BY AvlAssumption
<1>2. ASSUME Page[a] < Page[b] PROVE a < b
  <2>1. a # b
    BY <1>2, PageIsNat
  <2>2. ~(b < a)
    <3>1. b < a => Page[b] <= Page[a]
      BY AvlAssumption
    <3> QED
      BY <1>2, <3>1, PageIsNat
  <2> QED
    BY <2>1, <2>2, PageIsNat
<1> QED
  BY <1>1, <1>2

LEMMA PagesAgree == PageLess \subseteq Less /\ PageMore \subseteq More
<1>1. PageLess \subseteq Less
  BY NodeOrders DEF PageLess, Less
<1>2. PageMore \subseteq More
  <2>1. ASSUME NEW a \in Nodes, NEW b \in Nodes, Page[a] > Page[b] PROVE a > b
    BY <2>1, NodeOrders, PageOrders, PageIsNat
  <2> QED
    BY <2>1 DEF PageMore, More
<1> QED
  BY <1>1, <1>2

LEMMA InsertTurnKeeps ==
    ASSUME NEW t, NEW S, NEW D, Ordered(t, S, D, Less), NEW p \in S, NEW k \in Nodes,
           Diff(t, p) > 1 => ~(Page[k] > Page[t.left[p]] /\ t.right[t.left[p]] = NULL),
           Diff(t, p) < -1 => ~(Page[k] < Page[t.right[p]] /\ t.left[t.right[p]] = NULL),
           NEW r, r = InsertTurn(t, p, k)
    PROVE  Kept(r, t, S, Less, p)
<1>1. NULL \notin S /\ NULL \notin Nodes /\ S \subseteq Nodes /\ t \in Trees
  BY NullIsNoNode DEF Ordered
<1>2. PICK u : u = Raise(t, p)
  OBVIOUS
<1>3. Ordered(u, S, D, Less) /\ Kept(u, t, S, Less, p)
      /\ u.root = t.root /\ u.left = t.left /\ u.right = t.right
  BY <1>2, RaiseKeeps
<1>4. u \in Trees
  BY <1>3, NullIsNoNode DEF Ordered
<1>5. Diff(t, p) \in Int
      /\ (Diff(t, p) > 0 => t.left[p] # NULL) /\ (Diff(t, p) < 0 => t.right[p] # NULL)
  BY <1>1, HeavySide DEF NodeOrNull
<1>6. CASE Diff(t, p) > 1
  <2>1. PICK o : o = TurnedOnce(u, p, k, PageLess)
    OBVIOUS
  <2>2. u.left[p] # NULL /\ u.left[p] \in Nodes
    BY <1>1, <1>3, <1>4, <1>5, <1>6 DEF Trees, NodeOrNull
  <2>3. o = IF u.left[p] # NULL /\ Page[k] < Page[u.left[p]] THEN DoRight(u, p) ELSE u
    BY <2>1, <2>2, PageOrders DEF TurnedOnce
  <2>4. \E E : Ordered(o, S, E, Less)
    <3>1. Kept(DoRight(u, p), u, S, Less, p)
      BY <1>3, <2>2, RightTurn
    <3> QED
      BY <1>3, <2>3, <3>1 DEF Kept
  <2>5. o.left[p] # NULL => o.left[p] \in Nodes
    BY <1>1, <2>4, NullIsNoNode DEF Ordered, Linked
  <2>6. r = IF o.left[p] # NULL /\ Page[k] > Page[o.left[p]] THEN DoRight(DoLeft(o, o.left[p]), p) ELSE o
    BY <1>2, <1>6, <2>3 DEF InsertTurn, Balanced, Rotated
  <2>7. r = TurnedTwice(o, p, k, PageLess)
    <3>1. o.left[p] # NULL => (Page[k] > Page[o.left[p]] <=> <<o.left[p], k>> \in PageLess)
      BY <2>5, PageOrders
    <3> QED
      BY <2>6, <3>1 DEF TurnedTwice
  <2>8. <<u.left[p], k>> \in PageLess => u.right[u.left[p]] # NULL
    <3>1. <<u.left[p], k>> \in PageLess => Page[k] > Page[u.left[p]]
      BY <2>2, PageOrders
    <3> QED
      BY <1>3, <1>6, <2>2, <3>1
  <2>9. Kept(r, u, S, Less, p)
    BY <1>3, <2>1, <2>2, <2>7, <2>8, PagesAgree, InsertHeavy
  <2> QED
    BY <1>3, <2>9 DEF Kept
<1>7. CASE Diff(t, p) < -1
  <2>0. PICK v : v = Mirror(u)
    OBVIOUS
  <2>a. Ordered(v, S, D, More)
    BY <1>3, <2>0, LessAndMore, MirrorOrdered
  <2>b. v.root = u.root /\ v.left = u.right /\ v.right = u.left /\ v \in Trees
    BY <1>4, <2>0, MirrorFields
  <2>1. PICK o : o = TurnedOnce(v, p, k, PageMore)
    OBVIOUS
  <2>2. v.left[p] # NULL /\ v.left[p] \in Nodes
    BY <1>1, <1>3, <2>b, <1>5, <1>7 DEF Trees, NodeOrNull
  <2>3. o = IF v.left[p] # NULL /\ Page[k] > Page[v.left[p]] THEN DoRight(v, p) ELSE v
    BY <2>1, <2>2, PageOrders DEF TurnedOnce
  <2>4. \E E : Ordered(o, S, E, More)
    <3>1. Kept(DoRight(v, p), v, S, More, p)
      BY <2>a, <2>2, RightTurn
    <3> QED
      BY <2>a, <2>3, <3>1 DEF Kept
  <2>5. o.left[p] # NULL => o.left[p] \in Nodes
    BY <1>1, <2>4, NullIsNoNode DEF Ordered, Linked
  <2>c. PICK w : w = IF o.left[p] # NULL /\ Page[k] < Page[o.left[p]]
                     THEN DoRight(DoLeft(o, o.left[p]), p) ELSE o
    OBVIOUS
  <2>6. r = Mirror(w)
    <3>1. ~(Diff(t, p) > 1)
      BY <1>5, <1>7
    <3> QED
      BY <1>2, <1>7, <2>0, <2>3, <2>c, <3>1 DEF InsertTurn, Balanced, Rotated
  <2>7. w = TurnedTwice(o, p, k, PageMore)
    <3>1. o.left[p] # NULL => (Page[k] < Page[o.left[p]] <=> <<o.left[p], k>> \in PageMore)
      BY <2>5, PageOrders
    <3> QED
      BY <2>c, <3>1 DEF TurnedTwice
  <2>8. <<v.left[p], k>> \in PageMore => v.right[v.left[p]] # NULL
    <3>1. <<v.left[p], k>> \in PageMore => Page[k] < Page[v.left[p]]
      BY <2>2, PageOrders
    <3> QED
      BY <1>3, <1>7, <2>b, <2>2, <3>1
  <2>9. Kept(w, v, S, More, p)
    BY <2>a, <2>1, <2>2, <2>7, <2>8, PagesAgree, InsertHeavy
  <2>10. PICK E : Ordered(w, S, E, More)
    BY <2>9 DEF Kept
  <2>11. Ordered(r, S, E, Less)
    BY <2>6, <2>10, LessAndMore, MirrorOrdered
  <2>12. r.root = w.root
    BY <2>6, <2>10, NullIsNoNode, MirrorFields DEF Ordered
  <2> QED
    BY <1>3, <2>b, <2>9, <2>11, <2>12 DEF Kept
<1>8. CASE ~(Diff(t, p) > 1) /\ ~(Diff(t, p) < -1)
  <2>1. r = u
    BY <1>2, <1>8 DEF InsertTurn, Balanced
  <2> QED
    BY <1>3, <2>1
<1> QED
  BY <1>6, <1>7, <1>8

\* The rotations of RemoveTurn at a node found heavy on the left.
DiffOnce(s, p) == IF Diff(s, s.left[p]) >= 0 THEN DoRight(s, p) ELSE s

DiffTwice(o, p) ==
    IF Diff(o, o.left[p]) < 0 THEN DoRight(DoLeft(o, o.left[p]), p) ELSE o

LEMMA RemoveHeavy ==
    ASSUME NEW t, NEW S, NEW D, NEW lt, Ordered(t, S, D, lt), NEW p \in S, t.left[p] # NULL,
           NEW r, r = DiffTwice(DiffOnce(t, p), p)
    PROVE  Kept(r, t, S, lt, p)
<1>1. PICK o : o = DiffOnce(t, p)
  OBVIOUS
<1>2. Kept(o, t, S, lt, p)
  <2>1. Kept(DoRight(t, p), t, S, lt, p)
    BY RightTurn
  <2>2. Kept(t, t, S, lt, p)
    BY DEF Kept
  <2> QED
    BY <1>1, <2>1, <2>2 DEF DiffOnce
<1>3. PICK E : Ordered(o, S, E, lt)
  BY <1>2 DEF Kept
<1>4. o \in Trees /\ p \in Nodes
  BY <1>3, NullIsNoNode DEF Ordered
<1>5. o.left[p] \in NodeOrNull
  BY <1>4 DEF Trees
<1>6. CASE Diff(o, o.left[p]) < 0
  <2>1. o.left[p] # NULL /\ o.right[o.left[p]] # NULL
    BY <1>4, <1>5, <1>6, HeavySide
  <2>2. r = DoRight(DoLeft(o, o.left[p]), p)
    BY <1>1, <1>6 DEF DiffTwice
  <2>3. Kept(r, o, S, lt, p)
    BY <1>3, <2>1, <2>2, DoubleTurn
  <2> QED
    BY <1>2, <2>3 DEF Kept
<1>7. CASE ~(Diff(o, o.left[p]) < 0)
  <2>1. r = o
    BY <1>1, <1>7 DEF DiffTwice
  <2> QED
    BY <1>2, <2>1
<1> QED
  BY <1>6, <1>7

LEMMA RemoveTurnKeeps ==
    ASSUME NEW t, NEW S, NEW D, Ordered(t, S, D, Less), NEW p \in S,
           NEW r, r = RemoveTurn(t, p)
    PROVE  Kept(r, t, S, Less, p)
<1>1. NULL \notin S /\ NULL \notin Nodes /\ S \subseteq Nodes /\ t \in Trees
  BY NullIsNoNode DEF Ordered
<1>2. PICK u : u = Raise(t, p)
  OBVIOUS
<1>3. Ordered(u, S, D, Less) /\ Kept(u, t, S, Less, p)
      /\ u.root = t.root /\ u.left = t.left /\ u.right = t.right
  BY <1>2, RaiseKeeps
<1>4. u \in Trees
  BY <1>3, NullIsNoNode DEF Ordered
<1>5. Diff(t, p) \in Int
      /\ (Diff(t, p) > 0 => t.left[p] # NULL) /\ (Diff(t, p) < 0 => t.right[p] # NULL)
  BY <1>1, HeavySide DEF NodeOrNull
<1>6. CASE Diff(t, p) > 1
  <2>1. PICK o : o = DiffOnce(u, p)
    OBVIOUS
  <2>2. r = DiffTwice(o, p)
    BY <1>2, <1>6, <2>1 DEF RemoveTurn, Balanced, Rotated, DiffOnce, DiffTwice
  <2>3. Kept(r, u, S, Less, p)
    BY <1>3, <1>5, <1>6, <2>1, <2>2, RemoveHeavy
  <2> QED
    BY <1>3, <2>3 DEF Kept
<1>7. CASE Diff(t, p) < -1
  <2>1. PICK v : v = Mirror(u)
    OBVIOUS
  <2>2. Ordered(v, S, D, More)
    BY <1>3, <2>1, LessAndMore, MirrorOrdered
  <2>3. v.root = u.root /\ v.left = u.right
    BY <1>4, <2>1, MirrorFields
  <2>4. PICK o : o = DiffOnce(v, p)
    OBVIOUS
  <2>5. PICK w : w = DiffTwice(o, p)
    OBVIOUS
  <2>6. r = Mirror(w)
    <3>1. ~(Diff(t, p) > 1)
      BY <1>5, <1>7
    <3> QED
      BY <1>2, <1>7, <2>1, <2>4, <2>5, <3>1 DEF RemoveTurn, Balanced, Rotated, DiffOnce, DiffTwice
  <2>7. Kept(w, v, S, More, p)
    BY <1>3, <1>5, <1>7, <2>2, <2>3, <2>4, <2>5, RemoveHeavy
  <2>8. PICK E : Ordered(w, S, E, More)
    BY <2>7 DEF Kept
  <2>9. Ordered(r, S, E, Less)
    BY <2>6, <2>8, LessAndMore, MirrorOrdered
  <2>10. r.root = w.root
    BY <2>6, <2>8, NullIsNoNode, MirrorFields DEF Ordered
  <2> QED
    BY <1>3, <2>3, <2>7, <2>9, <2>10 DEF Kept
<1>8. CASE ~(Diff(t, p) > 1) /\ ~(Diff(t, p) < -1)
  <2>1. r = u
    BY <1>2, <1>8 DEF RemoveTurn, Balanced
  <2> QED
    BY <1>3, <2>1
<1> QED
  BY <1>6, <1>7, <1>8

-----------------------------------------------------------------------------
(* A node comes, and a node goes *)

\* k comes after and before the nodes above p where p does.
Beside(S, D, lt, k, p) ==
    \A m \in S :
        p \in D[m] /\ m # p => /\ (<<p, m>> \in lt => <<k, m>> \in lt)
                               /\ (<<m, p>> \in lt => <<m, k>> \in lt)

LEMMA HangLeft ==
    ASSUME NEW t, NEW S, NEW D, NEW lt, Ordered(t, S, D, lt), NEW p \in S, NEW k \in Nodes \ S,
           t.left[p] = NULL, <<k, p>> \in lt, Beside(S, D, lt, k, p),
           NEW r, r = [t EXCEPT !.prev[k] = p, !.left[p] = k]
    PROVE  \E E : Ordered(r, S \cup {k}, E, lt)
<1>1. NULL \notin S /\ NULL \notin Nodes /\ S \subseteq Nodes /\ t \in Trees /\ p \in Nodes /\ k # p
      /\ k \in Nodes /\ k \notin S
  BY NullIsNoNode DEF Ordered
<1>2. /\ r \in Trees /\ r.root = t.root /\ r.right = t.right
      /\ \A m \in Nodes : r.left[m] = IF m = p THEN k ELSE t.left[m]
      /\ \A m \in Nodes : r.prev[m] = IF m = k THEN p ELSE t.prev[m]
  BY <1>1 DEF Trees, NodeOrNull
<1>3. t.left[k] = NULL /\ t.right[k] = NULL /\ t.prev[k] = NULL
  BY <1>1 DEF Ordered, Linked
<1>4. Linked(r, S \cup {k})
  <2>1. r.root \in S /\ r.prev[r.root] = NULL
    BY <1>1, <1>2 DEF Ordered, Linked
  <2>2. ASSUME NEW n \in S \cup {k}
        PROVE  /\ r.left[n] \in S \cup {k, NULL} /\ r.right[n] \in S \cup {k, NULL}
               /\ r.prev[n] \in S \cup {k, NULL}
    <3>1. CASE n = k
      BY <1>1, <1>2, <1>3, <3>1
    <3>2. CASE n # k
      <4>1. n \in S /\ n \in Nodes /\ t.left[n] \in S \cup {NULL} /\ t.right[n] \in S \cup {NULL}
            /\ t.prev[n] \in S \cup {NULL}
        BY <1>1, <3>2 DEF Ordered, Linked
      <4> QED
        BY <1>2, <3>2, <4>1
    <3> QED
      BY <3>1, <3>2
  <2>3. ASSUME NEW n \in S \cup {k}, r.left[n] # NULL PROVE r.prev[r.left[n]] = n
    <3>1. CASE n = k
      BY <1>1, <1>2, <1>3, <2>3, <3>1
    <3>2. CASE n = p
      BY <1>1, <1>2, <3>2
    <3>3. CASE n # k /\ n # p
      <4>1. r.left[n] = t.left[n] /\ t.left[n] \in S /\ t.prev[t.left[n]] = n
        BY <1>1, <1>2, <2>3, <3>3 DEF Ordered, Linked
      <4> QED
        BY <1>1, <1>2, <4>1
    <3> QED
      BY <3>1, <3>2, <3>3
  <2>4. ASSUME NEW n \in S \cup {k}, r.right[n] # NULL PROVE r.prev[r.right[n]] = n
    <3>1. CASE n = k
      BY <1>2, <1>3, <2>4, <3>1
    <3>2. CASE n # k
      <4>1. r.right[n] = t.right[n] /\ t.right[n] \in S /\ t.prev[t.right[n]] = n
        BY <1>1, <1>2, <2>4, <3>2 DEF Ordered, Linked
      <4> QED
        BY <1>1, <1>2, <4>1
    <3> QED
      BY <3>1, <3>2
  <2>5. ASSUME NEW n \in S \cup {k}, n # r.root
        PROVE  r.prev[n] # NULL /\ (n = r.left[r.prev[n]] \/ n = r.right[r.prev[n]])
    <3>1. CASE n = k
      BY <1>1, <1>2, <3>1
    <3>2. CASE n # k
      <4>1. r.prev[n] = t.prev[n] /\ n \in S
        BY <1>1, <1>2, <3>2
      <4>2. PICK q \in S : q = t.prev[n] /\ (n = t.left[q] \/ n = t.right[q])
        BY <1>2, <2>5, <4>1 DEF Ordered, Linked
      <4>3. n = t.left[q] => q # p
        BY <1>1, <4>1
      <4> QED
        BY <1>1, <1>2, <4>1, <4>2, <4>3
    <3> QED
      BY <3>1, <3>2
  <2>6. ASSUME NEW n \in Nodes \ (S \cup {k})
        PROVE  r.left[n] = NULL /\ r.right[n] = NULL /\ r.prev[n] = NULL
    <3>1. t.left[n] = NULL /\ t.right[n] = NULL /\ t.prev[n] = NULL
      BY DEF Ordered, Linked
    <3> QED
      BY <1>2, <2>6, <3>1
  <2> QED
    BY <1>1, <1>2, <2>1, <2>2, <2>3, <2>4, <2>5, <2>6 DEF Linked
<1>5. D \in [Nodes -> SUBSET Nodes]
  BY DEF Ordered, Subtrees
<1>6. PICK E : E = [m \in Nodes |-> IF m = k THEN {k}
                                  ELSE IF p \in D[m] THEN D[m] \cup {k} ELSE D[m]]
  OBVIOUS
<1>7. /\ E \in [Nodes -> SUBSET Nodes] /\ E[k] = {k}
      /\ \A m \in S : E[m] = IF p \in D[m] THEN D[m] \cup {k} ELSE D[m]
  BY <1>1, <1>5, <1>6
<1>8. \A m \in S : \A c \in D[m] : c \in S /\ D[c] \subseteq D[m]
  BY DEF Ordered, Subtrees
<1>9. p \in D[p]
  BY ChildrenUnder DEF OnItsSides
<1>10. \A c : (c = NULL \/ c \in S)
              => Under(E, c) = Under(D, c) \cup (IF p \in Under(D, c) THEN {k} ELSE {})
  BY <1>1, <1>7 DEF Under
<1>11. \A n \in S : (t.left[n] = NULL \/ t.left[n] \in S) /\ (t.right[n] = NULL \/ t.right[n] \in S)
  BY DEF Ordered, Linked
<1>12. p \notin Under(D, t.right[p])
  BY <1>1 DEF Ordered, Sorted, StrictOrder
<1>13. Under(E, r.left[p]) = {k} /\ Under(E, r.right[p]) = Under(D, t.right[p])
  <2>1. r.left[p] = k /\ r.right[p] = t.right[p]
    BY <1>1, <1>2
  <2>2. Under(E, k) = {k}
    BY <1>1, <1>7 DEF Under
  <2>3. Under(E, t.right[p]) = Under(D, t.right[p])
    BY <1>10, <1>11, <1>12
  <2> QED
    BY <2>1, <2>2, <2>3
<1>14. Under(E, r.left[k]) = {} /\ Under(E, r.right[k]) = {}
  BY <1>1, <1>2, <1>3 DEF Under
<1>15. \A n \in S : n # p =>
         /\ Under(E, r.left[n]) = Under(D, t.left[n])
                                   \cup (IF p \in Under(D, t.left[n]) THEN {k} ELSE {})
         /\ Under(E, r.right[n]) = Under(D, t.right[n])
                                   \cup (IF p \in Under(D, t.right[n]) THEN {k} ELSE {})
  BY <1>1, <1>2, <1>10, <1>11
<1>16. \A n \in S : D[n] = {n} \cup Under(D, t.left[n]) \cup Under(D, t.right[n])
  BY DEF Ordered, Subtrees
<1>17. ASSUME NEW n \in S \cup {k}
       PROVE  E[n] = {n} \cup Under(E, r.left[n]) \cup Under(E, r.right[n])
  <2>1. CASE n = k
    BY <1>7, <1>14, <2>1
  <2>2. CASE n = p
    <3>1. Under(D, t.left[p]) = {}
      BY DEF Under
    <3> QED
      BY <1>7, <1>9, <1>13, <1>16, <2>2, <3>1
  <2>3. CASE n # k /\ n # p
    BY <1>7, <1>15, <1>16, <2>3
  <2> QED
    BY <2>1, <2>2, <2>3
<1>18. E[r.root] = S \cup {k}
  <2>1. t.root \in S /\ D[t.root] = S
    BY <1>1 DEF Ordered, Linked, Subtrees
  <2> QED
    BY <1>2, <1>7, <2>1
<1>19. ASSUME NEW m \in S \cup {k}, NEW c \in E[m] PROVE c \in S \cup {k} /\ E[c] \subseteq E[m]
  <2>1. CASE m = k
    BY <1>7, <2>1
  <2>2. CASE m # k
    <3>1. CASE c = k
      BY <1>7, <3>1
    <3>2. CASE c # k
      <4>1. c \in D[m] /\ c \in S /\ D[c] \subseteq D[m]
        BY <1>7, <1>8, <2>2, <3>2
      <4> QED
        BY <1>7, <2>2, <4>1
    <3> QED
      BY <3>1, <3>2
  <2> QED
    BY <2>1, <2>2
<1>20. ASSUME NEW m \in S \cup {k}, NEW c \in E[m], c # m PROVE r.prev[c] \in E[m]
  <2>1. m \in S
    BY <1>7, <1>20
  <2>2. CASE c = k
    <3>1. p \in D[m]
      BY <1>1, <1>7, <1>8, <2>1, <2>2
    <3>2. r.prev[k] = p
      BY <1>1, <1>2
    <3>3. p \in E[m]
      BY <1>7, <2>1, <3>1
    <3> QED
      BY <2>2, <3>2, <3>3
  <2>3. CASE c # k
    <3>1. c \in D[m]
      BY <1>7, <2>1, <2>3
    <3>2. t.prev[c] \in D[m]
      BY <1>20, <2>1, <3>1 DEF Ordered, Subtrees
    <3>3. c \in Nodes
      BY <1>1, <1>8, <2>1, <3>1
    <3>4. r.prev[c] = t.prev[c]
      BY <1>2, <2>3, <3>3
    <3>5. t.prev[c] \in E[m]
      BY <1>7, <2>1, <3>2
    <3> QED
      BY <3>4, <3>5
  <2> QED
    BY <2>2, <2>3
<1>21. Subtrees(r, S \cup {k}, E)
  BY <1>7, <1>17, <1>18, <1>19, <1>20 DEF Subtrees
<1>22. ASSUME NEW n \in S \cup {k}
       PROVE  /\ \A c \in Under(E, r.left[n]) : <<c, n>> \in lt
              /\ \A c \in Under(E, r.right[n]) : <<n, c>> \in lt
  <2>1. CASE n = k
    BY <1>14, <2>1
  <2>2. CASE n = p
    BY <1>13, <2>2 DEF Ordered, Sorted
  <2>3. CASE n # k /\ n # p
    <3>1. n \in S /\ (\A c \in Under(D, t.left[n]) : <<c, n>> \in lt)
          /\ (\A c \in Under(D, t.right[n]) : <<n, c>> \in lt)
      BY <2>3 DEF Ordered, Sorted
    <3>a. D[n] = {n} \cup Under(D, t.left[n]) \cup Under(D, t.right[n])
      BY <1>16, <3>1
    <3>b. p \in D[n] => (<<p, n>> \in lt => <<k, n>> \in lt) /\ (<<n, p>> \in lt => <<n, k>> \in lt)
      BY <2>3, <3>1 DEF Beside
    <3>2. p \in Under(D, t.left[n]) => <<k, n>> \in lt
      BY <3>a, <3>b, <3>1
    <3>3. p \in Under(D, t.right[n]) => <<n, k>> \in lt
      BY <3>a, <3>b, <3>1
    <3> QED
      BY <1>15, <2>3, <3>1, <3>2, <3>3
  <2> QED
    BY <2>1, <2>2, <2>3
<1>23. Ordered(r, S \cup {k}, E, lt)
  BY <1>4, <1>21, <1>22 DEF Ordered, Sorted
<1> QED
  BY <1>23

LEMMA HangRight ==
    ASSUME NEW t, NEW S, NEW D, NEW lt, Ordered(t, S, D, lt), NEW p \in S, NEW k \in Nodes \ S,
           t.right[p] = NULL, <<p, k>> \in lt, Beside(S, D, lt, k, p),
           NEW r, r = [t EXCEPT !.prev[k] = p, !.right[p] = k]
    PROVE  \E E : Ordered(r, S \cup {k}, E, lt)
<1>1. PICK gt : Opposite(lt, gt) /\ Opposite(gt, lt)
  BY OppositeExists
<1>2. S \subseteq Nodes /\ t \in Trees /\ p \in Nodes /\ k \in Nodes
  BY NullIsNoNode DEF Ordered
<1>3. PICK v : v = Mirror(t)
  OBVIOUS
<1>4. Ordered(v, S, D, gt)
  BY <1>1, <1>3, MirrorOrdered
<1>5. v.left[p] = NULL
  BY <1>2, <1>3, MirrorFields
<1>6. <<k, p>> \in gt
  BY <1>1, <1>2 DEF Opposite
<1>7. Beside(S, D, gt, k, p)
  <2> SUFFICES ASSUME NEW m \in S, p \in D[m], m # p
               PROVE  /\ <<p, m>> \in gt => <<k, m>> \in gt
                      /\ <<m, p>> \in gt => <<m, k>> \in gt
    BY DEF Beside
  <2>1. (<<p, m>> \in lt => <<k, m>> \in lt) /\ (<<m, p>> \in lt => <<m, k>> \in lt)
    BY DEF Beside
  <2>2. m \in Nodes
    BY <1>2
  <2> QED
    BY <1>1, <1>2, <2>1, <2>2 DEF Opposite
<1>8. PICK w : w = [v EXCEPT !.prev[k] = p, !.left[p] = k]
  OBVIOUS
<1>9. PICK E : Ordered(w, S \cup {k}, E, gt)
  BY <1>4, <1>5, <1>6, <1>7, <1>8, HangLeft
<1>10. r = Mirror(w)
  BY <1>2, <1>3, <1>8 DEF Mirror, Trees
<1>11. Ordered(r, S \cup {k}, E, lt)
  BY <1>1, <1>9, <1>10, MirrorOrdered
<1> QED
  BY <1>11

LEMMA PlantRoot ==
    ASSUME NEW t, NEW S, NEW D, NEW lt, Ordered(t, S, D, lt), S = {}, NEW k \in Nodes,
           NEW r, r = [t EXCEPT !.root = k]
    PROVE  \E E : Ordered(r, {k}, E, lt)
<1>1. t \in Trees /\ NULL \notin Nodes
  BY NullIsNoNode DEF Ordered
<1>2. r \in Trees /\ r.root = k /\ r.left = t.left /\ r.right = t.right /\ r.prev = t.prev
  BY <1>1 DEF Trees, NodeOrNull
<1>3. \A n \in Nodes : r.left[n] = NULL /\ r.right[n] = NULL /\ r.prev[n] = NULL
  BY <1>2 DEF Ordered, Linked
<1>4. Linked(r, {k})
  BY <1>1, <1>2, <1>3 DEF Linked
<1>5. PICK E : E = [m \in Nodes |-> {m}]
  OBVIOUS
<1>6. Subtrees(r, {k}, E)
  BY <1>2, <1>3, <1>5 DEF Subtrees, Under
<1>7. Sorted(r, {k}, E, lt)
  BY <1>3 DEF Sorted, Under
<1>8. Ordered(r, {k}, E, lt)
  BY <1>4, <1>6, <1>7 DEF Ordered
<1> QED
  BY <1>8

\* The parent of n is above n, and not under it.
LEMMA ParentAbove ==
    ASSUME NEW t, NEW S, NEW D, NEW lt, Ordered(t, S, D, lt), NEW n \in S,
           NEW g, g = t.prev[n], g # NULL
    PROVE  g \in S /\ n \in D[g] /\ n # g /\ g \notin D[n]
<1>1. NULL \notin S /\ S \subseteq Nodes
  BY NullIsNoNode DEF Ordered
<1>2. g \in S /\ (n = t.left[g] \/ n = t.right[g])
  BY DEF Ordered, Linked
<1>3. OnItsSides(t, S, D, lt, g) /\ n \in D[n] /\ n # NULL
  <2>1. OnItsSides(t, S, D, lt, g) /\ OnItsSides(t, S, D, lt, n)
    BY <1>2, ChildrenUnder
  <2> QED
    BY <1>1, <2>1 DEF OnItsSides
<1>4. CASE n = t.left[g]
  BY <1>2, <1>3, <1>4 DEF OnItsSides
<1>5. CASE n = t.right[g]
  BY <1>2, <1>3, <1>5 DEF OnItsSides
<1> QED
  BY <1>2, <1>4, <1>5

\* n has no child but c, if any; g is its parent.
AtLeaving(t, S, D, n, c, g) ==
    /\ n \in S /\ g = t.prev[n] /\ c \in S \cup {NULL} /\ g \in S \cup {NULL}
    /\ c # n /\ g # n /\ (g # NULL => g # c /\ n \in D[g])
    /\ D[n] = {n} \cup Under(D, c) /\ n \notin Under(D, c)
    /\ c # NULL => t.prev[c] = n
    /\ c = t.left[n] \/ c = t.right[n]
    /\ t.left[n] \in {c, NULL} /\ t.right[n] \in {c, NULL}
    /\ g # NULL => (t.left[g] = n <=> t.right[g] # n)

LEMMA LeavingFacts ==
    ASSUME NEW t, NEW S, NEW D, NEW lt, Ordered(t, S, D, lt), NEW n \in S,
           t.left[n] = NULL \/ t.right[n] = NULL,
           NEW c, c = IF t.left[n] # NULL THEN t.left[n] ELSE t.right[n],
           NEW g, g = t.prev[n]
    PROVE  AtLeaving(t, S, D, n, c, g)
<1>1. NULL \notin S /\ S \subseteq Nodes
  BY NullIsNoNode DEF Ordered
<1>2. OnItsSides(t, S, D, lt, n)
  BY ChildrenUnder
<1>3. c \in S \cup {NULL} /\ g \in S \cup {NULL}
  BY DEF Ordered, Linked
<1>4. c # NULL => t.prev[c] = n
  BY DEF Ordered, Linked
<1>5. D[n] = {n} \cup Under(D, c)
  BY DEF Ordered, Subtrees, Under
<1>6. n \notin Under(D, c)
  BY <1>2 DEF OnItsSides, Under
<1>7. c # NULL => c \in D[c] /\ Under(D, c) = D[c]
  BY <1>1, <1>3, ChildrenUnder DEF OnItsSides, Under
<1>8. c # n
  BY <1>1, <1>6, <1>7
<1>9. g # NULL => g # n /\ g # c /\ n \in D[g]
  BY <1>1, <1>5, <1>7, ParentAbove
<1>10. g # n
  BY <1>1, <1>9
<1>11. g # NULL => (t.left[g] = n <=> t.right[g] # n)
  <2> SUFFICES ASSUME g # NULL PROVE t.left[g] = n <=> t.right[g] # n
    OBVIOUS
  <2>1. g \in S /\ (n = t.left[g] \/ n = t.right[g])
    BY <1>3 DEF Ordered, Linked
  <2>2. ASSUME t.left[g] = n, t.right[g] = n PROVE FALSE
    <3>1. n \in D[n] /\ n # NULL
      BY <1>1, <1>2 DEF OnItsSides
    <3>2. <<n, g>> \in lt /\ <<g, n>> \in lt
      BY <2>1, <2>2, <3>1, ChildrenUnder DEF OnItsSides
    <3> QED
      BY <1>1, <2>1, <3>2 DEF Ordered, StrictOrder
  <2> QED
    BY <2>1, <2>2
<1>12. /\ c = t.left[n] \/ c = t.right[n]
       /\ t.left[n] \in {c, NULL} /\ t.right[n] \in {c, NULL}
  OBVIOUS
<1> QED
  BY <1>3, <1>4, <1>5, <1>6, <1>8, <1>9, <1>10, <1>11, <1>12 DEF AtLeaving

\* r is t without n, whose place its child c has taken.
Unlinked(r, t, n, c, g) ==
    /\ r \in Trees
    /\ r.root = IF g = NULL THEN c ELSE t.root
    /\ \A m \in Nodes : r.left[m] = IF m = n THEN NULL
                                  ELSE IF m = g /\ t.left[g] = n THEN c ELSE t.left[m]
    /\ \A m \in Nodes : r.right[m] = IF m = n THEN NULL
                                   ELSE IF m = g /\ t.left[g] # n THEN c ELSE t.right[m]
    /\ \A m \in Nodes : r.prev[m] = IF m = n THEN NULL ELSE IF m = c THEN g ELSE t.prev[m]

\* u without the links of n, which is freed.
Cleared(u, n) ==
    [u EXCEPT !.left[n] = NULL, !.right[n] = NULL, !.prev[n] = NULL, !.height[n] = 1]

LEMMA ClearFields ==
    ASSUME NEW u \in Trees, NEW n \in Nodes
    PROVE  /\ Cleared(u, n) \in Trees /\ Cleared(u, n).root = u.root
           /\ \A m \in Nodes : Cleared(u, n).left[m] = IF m = n THEN NULL ELSE u.left[m]
           /\ \A m \in Nodes : Cleared(u, n).right[m] = IF m = n THEN NULL ELSE u.right[m]
           /\ \A m \in Nodes : Cleared(u, n).prev[m] = IF m = n THEN NULL ELSE u.prev[m]
<1>1. PICK h : h = 1
  OBVIOUS
<1>2. h \in Nat \ {0} /\ NULL \in NodeOrNull
  BY <1>1 DEF NodeOrNull
<1>3. PICK r : r = Cleared(u, n)
  OBVIOUS
<1>4. r = [root |-> u.root, left |-> [u.left EXCEPT ![n] = NULL],
           right |-> [u.right EXCEPT ![n] = NULL], prev |-> [u.prev EXCEPT ![n] = NULL],
           height |-> [u.height EXCEPT ![n] = h]]
  BY <1>1, <1>3 DEF Cleared, Trees
<1>5. r.root = u.root /\ r.left = [u.left EXCEPT ![n] = NULL]
      /\ r.right = [u.right EXCEPT ![n] = NULL] /\ r.prev = [u.prev EXCEPT ![n] = NULL]
  BY <1>4
<1>6. r \in Trees
  BY <1>2, <1>4 DEF Trees
<1> QED
  BY <1>3, <1>5, <1>6 DEF Trees

LEMMA UnlinkFields ==
    ASSUME NEW t \in Trees, NEW n \in Nodes, NEW c \in NodeOrNull, NEW g \in NodeOrNull, c # n,
           NEW r, r = Cleared(Replace(t, g, n, c), n)
    PROVE  Unlinked(r, t, n, c, g)
<1>1. PICK u : u = Replace(t, g, n, c)
  OBVIOUS
<1>2. Replaced(u, t, g, n, c)
  BY <1>1, ReplaceFields
<1>3. u \in Trees
  BY <1>2 DEF Replaced
<1>4. /\ r \in Trees /\ r.root = u.root
      /\ \A m \in Nodes : r.left[m] = IF m = n THEN NULL ELSE u.left[m]
      /\ \A m \in Nodes : r.right[m] = IF m = n THEN NULL ELSE u.right[m]
      /\ \A m \in Nodes : r.prev[m] = IF m = n THEN NULL ELSE u.prev[m]
  BY <1>1, <1>3, ClearFields
<1> QED
  BY <1>2, <1>4 DEF Replaced, Unlinked

LEMMA LeavingLinked ==
    ASSUME NEW t, NEW S, NEW D, NEW lt, Ordered(t, S, D, lt), NEW n, NEW c, NEW g,
           AtLeaving(t, S, D, n, c, g), NEW r, Unlinked(r, t, n, c, g)
    PROVE  Linked(r, S \ {n})
<1>1. NULL \notin S /\ NULL \notin Nodes /\ S \subseteq Nodes /\ t \in Trees /\ r \in Trees
  BY NullIsNoNode DEF Ordered, Unlinked
<1>2. /\ n \in S /\ g = t.prev[n] /\ (c # NULL => c \in S) /\ (g # NULL => g \in S)
      /\ c # n /\ g # n /\ (g # NULL => g # c)
      /\ (c # NULL => t.prev[c] = n)
      /\ (t.left[n] = NULL \/ t.left[n] = c) /\ (t.right[n] = NULL \/ t.right[n] = c)
  BY DEF AtLeaving
<1>l. /\ \A m \in Nodes : m # n /\ m # g => r.left[m] = t.left[m]
      /\ r.left[n] = NULL
      /\ g # NULL /\ t.left[g] = n => r.left[g] = c
      /\ g # NULL /\ t.left[g] # n => r.left[g] = t.left[g]
  BY <1>1, <1>2 DEF Unlinked
<1>r. /\ \A m \in Nodes : m # n /\ m # g => r.right[m] = t.right[m]
      /\ r.right[n] = NULL
      /\ g # NULL /\ t.left[g] # n => r.right[g] = c
      /\ g # NULL /\ t.left[g] = n => r.right[g] = t.right[g]
  BY <1>1, <1>2 DEF Unlinked
<1>p. /\ \A m \in Nodes : m # n /\ m # c => r.prev[m] = t.prev[m]
      /\ r.prev[n] = NULL /\ (c # NULL => r.prev[c] = g)
  BY <1>1, <1>2 DEF Unlinked
<1>3. g = NULL <=> n = t.root
  BY <1>1, <1>2 DEF Ordered, Linked
<1>4. g # NULL => (t.left[g] = n <=> t.right[g] # n)
  BY DEF AtLeaving
<1>5. /\ r.root \in (S \ {n}) \cup {NULL} /\ (r.root = NULL <=> S \ {n} = {})
      /\ (r.root # NULL => r.prev[r.root] = NULL)
  <2>1. CASE g = NULL
    <3>1. r.root = c /\ D[n] = S
      BY <1>1, <1>2, <1>3, <2>1 DEF Unlinked, Ordered, Subtrees
    <3>2. S = {n} \cup Under(D, c) /\ n \notin Under(D, c)
      BY <3>1 DEF AtLeaving
    <3>3. c = NULL => S \ {n} = {}
      BY <3>2 DEF Under
    <3> QED
      BY <1>1, <1>2, <1>p, <2>1, <3>1, <3>3
  <2>2. CASE g # NULL
    <3>1. r.root = t.root /\ t.root # n /\ t.root \in S /\ t.prev[t.root] = NULL /\ t.root # NULL
      BY <1>1, <1>2, <1>3, <2>2 DEF Unlinked, Ordered, Linked
    <3>2. t.root # c
      BY <1>1, <1>2, <3>1
    <3>3. r.prev[t.root] = NULL
      BY <1>1, <1>p, <3>1, <3>2
    <3> QED
      BY <3>1, <3>3
  <2> QED
    BY <2>1, <2>2
<1>6. ASSUME NEW m \in S, m # n
      PROVE  /\ r.left[m] \in (S \ {n}) \cup {NULL} /\ r.right[m] \in (S \ {n}) \cup {NULL}
             /\ r.prev[m] \in (S \ {n}) \cup {NULL}
  <2>1. m \in Nodes /\ t.left[m] \in S \cup {NULL} /\ t.right[m] \in S \cup {NULL}
        /\ t.prev[m] \in S \cup {NULL}
    BY <1>1 DEF Ordered, Linked
  <2>2. (t.left[m] = n => m = g) /\ (t.right[m] = n => m = g)
    BY <1>1, <1>2 DEF Ordered, Linked
  <2>3. r.left[m] \in (S \ {n}) \cup {NULL}
    BY <1>1, <1>2, <1>6, <1>l, <2>1, <2>2
  <2>4. r.right[m] \in (S \ {n}) \cup {NULL}
    BY <1>1, <1>2, <1>4, <1>6, <1>r, <2>1, <2>2
  <2>5. t.prev[m] = n => m = c
    <3> SUFFICES ASSUME t.prev[m] = n PROVE m = c
      OBVIOUS
    <3>1. m # t.root
      BY <1>1, <1>2 DEF Ordered, Linked
    <3>2. m = t.left[n] \/ m = t.right[n]
      BY <3>1 DEF Ordered, Linked
    <3> QED
      BY <1>1, <1>2, <3>2
  <2>6. r.prev[m] \in (S \ {n}) \cup {NULL}
    <3>1. CASE m = c
      BY <1>1, <1>2, <1>p, <3>1
    <3>2. CASE m # c
      BY <1>6, <1>p, <2>1, <2>5, <3>2
    <3> QED
      BY <3>1, <3>2
  <2> QED
    BY <2>3, <2>4, <2>6
<1>7. ASSUME NEW m \in S, m # n, r.left[m] # NULL PROVE r.prev[r.left[m]] = m
  <2>1. CASE m = g /\ t.left[g] = n
    BY <1>1, <1>7, <1>l, <1>p, <2>1
  <2>2. CASE ~(m = g /\ t.left[g] = n)
    <3>1. r.left[m] = t.left[m]
      BY <1>1, <1>7, <1>l, <2>2
    <3>2. PICK d \in S : d = t.left[m] /\ t.prev[d] = m /\ d \in Nodes
      BY <1>1, <1>7, <3>1 DEF Ordered, Linked
    <3>3. d # n /\ d # c
      BY <1>1, <1>2, <1>7, <2>2, <3>2
    <3> QED
      BY <1>p, <3>1, <3>2, <3>3
  <2> QED
    BY <2>1, <2>2
<1>8. ASSUME NEW m \in S, m # n, r.right[m] # NULL PROVE r.prev[r.right[m]] = m
  <2>1. CASE m = g /\ t.left[g] # n
    BY <1>1, <1>8, <1>r, <1>p, <2>1
  <2>2. CASE ~(m = g /\ t.left[g] # n)
    <3>1. r.right[m] = t.right[m]
      BY <1>1, <1>8, <1>r, <2>2
    <3>2. PICK d \in S : d = t.right[m] /\ t.prev[d] = m /\ d \in Nodes
      BY <1>1, <1>8, <3>1 DEF Ordered, Linked
    <3>3. d # n /\ d # c
      BY <1>1, <1>2, <1>4, <1>8, <2>2, <3>2
    <3> QED
      BY <1>p, <3>1, <3>2, <3>3
  <2> QED
    BY <2>1, <2>2
<1>9. ASSUME NEW m \in S, m # n, m # r.root
      PROVE  r.prev[m] # NULL /\ (m = r.left[r.prev[m]] \/ m = r.right[r.prev[m]])
  <2>1. CASE m = c
    <3>1. g # NULL
      BY <1>9, <2>1 DEF Unlinked
    <3> QED
      BY <1>1, <1>l, <1>r, <1>p, <2>1, <3>1
  <2>2. CASE m # c
    <3>1. m # t.root
      BY <1>3, <1>9, <2>2 DEF Unlinked
    <3>2. PICK q \in S : q = t.prev[m] /\ (m = t.left[q] \/ m = t.right[q])
      BY <3>1 DEF Ordered, Linked
    <3>3. q # n /\ m # NULL /\ q # NULL /\ q \in Nodes /\ m \in Nodes
      BY <1>1, <1>2, <2>2, <3>2
    <3>4. m = t.left[q] => m = r.left[q]
      BY <1>9, <1>l, <3>3
    <3>5. m = t.right[q] => m = r.right[q]
      BY <1>4, <1>9, <1>r, <3>3
    <3>6. r.prev[m] = q
      BY <1>9, <1>p, <2>2, <3>2, <3>3
    <3> QED
      BY <3>2, <3>3, <3>4, <3>5, <3>6
  <2> QED
    BY <2>1, <2>2
<1>10. ASSUME NEW m \in Nodes \ (S \ {n})
       PROVE  r.left[m] = NULL /\ r.right[m] = NULL /\ r.prev[m] = NULL
  <2>1. CASE m = n
    BY <1>l, <1>r, <1>p, <2>1
  <2>2. CASE m # n
    <3>1. t.left[m] = NULL /\ t.right[m] = NULL /\ t.prev[m] = NULL
      BY <2>2 DEF Ordered, Linked
    <3>2. m # g /\ m # c
      BY <1>1, <1>2, <2>2
    <3> QED
      BY <1>l, <1>r, <1>p, <2>2, <3>1, <3>2
  <2> QED
    BY <2>1, <2>2
<1> QED
  BY <1>1, <1>5, <1>6, <1>7, <1>8, <1>9, <1>10 DEF Linked

\* E is D without n, and so are the subtrees on either side of a node.
LeftSets(E, D, n) == E \in [Nodes -> SUBSET Nodes] /\ \A m \in Nodes : E[m] = D[m] \ {n}

LeftUnder(r, E, t, D, S, n) ==
    \A m \in S \ {n} : /\ Under(E, r.left[m]) = Under(D, t.left[m]) \ {n}
                       /\ Under(E, r.right[m]) = Under(D, t.right[m]) \ {n}

LEMMA LeavingSubtrees ==
    ASSUME NEW t, NEW S, NEW D, NEW lt, Ordered(t, S, D, lt), NEW n, NEW c, NEW g,
           AtLeaving(t, S, D, n, c, g), NEW r, Unlinked(r, t, n, c, g),
           NEW E, LeftSets(E, D, n)
    PROVE  Subtrees(r, S \ {n}, E) /\ LeftUnder(r, E, t, D, S, n)
<1>e. E \in [Nodes -> SUBSET Nodes] /\ \A m \in Nodes : E[m] = D[m] \ {n}
  BY DEF LeftSets
<1>1. NULL \notin S /\ NULL \notin Nodes /\ S \subseteq Nodes /\ t \in Trees
  BY NullIsNoNode DEF Ordered
<1>2. /\ n \in S /\ g = t.prev[n] /\ (c # NULL => c \in S) /\ (g # NULL => g \in S)
      /\ c # n /\ g # n /\ (c # NULL => t.prev[c] = n)
      /\ D[n] = {n} \cup Under(D, c) /\ n \notin Under(D, c)
      /\ (t.left[n] = NULL \/ t.left[n] = c) /\ (t.right[n] = NULL \/ t.right[n] = c)
  BY DEF AtLeaving
<1>3. \A d : (d = NULL \/ d \in S) => Under(E, d) = Under(D, d) \ {n}
  BY <1>1, <1>e DEF Under
<1>4. Under(E, c) = Under(D, n) \ {n}
  BY <1>1, <1>2, <1>3 DEF Under
<1>5. g # NULL => (t.left[g] = n <=> t.right[g] # n)
  BY DEF AtLeaving
<1>6. ASSUME NEW m \in S, m # n
      PROVE  /\ Under(E, r.left[m]) = Under(D, t.left[m]) \ {n}
             /\ Under(E, r.right[m]) = Under(D, t.right[m]) \ {n}
  <2>1. (t.left[m] = NULL \/ t.left[m] \in S) /\ (t.right[m] = NULL \/ t.right[m] \in S)
    BY DEF Ordered, Linked
  <2>2. r.left[m] = IF m = g /\ t.left[g] = n THEN c ELSE t.left[m]
    BY <1>1, <1>6 DEF Unlinked
  <2>3. r.right[m] = IF m = g /\ t.left[g] # n THEN c ELSE t.right[m]
    BY <1>1, <1>6 DEF Unlinked
  <2>4. Under(E, r.left[m]) = Under(D, t.left[m]) \ {n}
    BY <1>3, <1>4, <2>1, <2>2
  <2>5. m = g /\ t.left[g] # n => t.right[m] = n
    BY <1>1, <1>5
  <2>6. Under(E, r.right[m]) = Under(D, t.right[m]) \ {n}
    BY <1>3, <1>4, <2>1, <2>3, <2>5
  <2> QED
    BY <2>4, <2>6
<1>7. ASSUME NEW m \in S, m # n
      PROVE  E[m] = {m} \cup Under(E, r.left[m]) \cup Under(E, r.right[m])
  <2>1. D[m] = {m} \cup Under(D, t.left[m]) \cup Under(D, t.right[m])
    BY DEF Ordered, Subtrees
  <2>2. E[m] = D[m] \ {n}
    BY <1>1, <1>e
  <2> QED
    BY <1>6, <1>7, <2>1, <2>2
<1>8. r.root # NULL => E[r.root] = S \ {n}
  <2>1. CASE g = NULL
    <3>1. r.root = c /\ D[n] = S
      BY <1>1, <1>2, <2>1 DEF Unlinked, Ordered, Linked, Subtrees
    <3>2. c # NULL => Under(D, c) = D[c] /\ c \in Nodes
      BY <1>1, <1>2 DEF Under
    <3> QED
      BY <1>2, <1>e, <3>1, <3>2
  <2>2. CASE g # NULL
    BY <1>1, <1>e, <2>2 DEF Unlinked, Ordered, Linked, Subtrees
  <2> QED
    BY <2>1, <2>2
<1>9. \A m \in S : \A d \in D[m] : d \in S /\ D[d] \subseteq D[m]
  BY DEF Ordered, Subtrees
<1>10. ASSUME NEW m \in S, m # n, NEW d \in E[m] PROVE d \in S \ {n} /\ E[d] \subseteq E[m]
  BY <1>1, <1>9, <1>e
<1>11. \A m \in S : \A d \in D[m] : d # m => t.prev[d] \in D[m]
  BY DEF Ordered, Subtrees
<1>12. ASSUME NEW m \in S, m # n, NEW d \in E[m], d # m PROVE r.prev[d] \in E[m]
  <2>1. E[m] = D[m] \ {n} /\ d \in D[m] /\ d # n /\ d \in S /\ d \in Nodes /\ d # NULL
    BY <1>1, <1>9, <1>e
  <2>2. CASE d = c
    <3>1. n \in D[m]
      BY <1>2, <1>11, <1>12, <2>1, <2>2
    <3>2. g \in D[m]
      BY <1>2, <1>11, <1>12, <3>1
    <3>3. r.prev[d] = g
      BY <2>1, <2>2 DEF Unlinked
    <3> QED
      BY <1>2, <2>1, <3>2, <3>3
  <2>3. CASE d # c
    <3>1. r.prev[d] = t.prev[d] /\ t.prev[d] \in D[m]
      BY <1>11, <1>12, <2>1, <2>3 DEF Unlinked
    <3>2. t.prev[d] # n
      <4> SUFFICES ASSUME t.prev[d] = n PROVE FALSE
        OBVIOUS
      <4>1. d # t.root
        BY <1>1, <1>2, <2>1 DEF Ordered, Linked
      <4>2. d = t.left[n] \/ d = t.right[n]
        BY <2>1, <4>1 DEF Ordered, Linked
      <4> QED
        BY <1>2, <2>1, <2>3, <4>2
    <3> QED
      BY <2>1, <3>1, <3>2
  <2> QED
    BY <2>2, <2>3
<1> QED
  BY <1>6, <1>7, <1>8, <1>10, <1>12, <1>e DEF Subtrees, LeftUnder

LEMMA LeavingKeeps ==
    ASSUME NEW t, NEW S, NEW D, NEW lt, Ordered(t, S, D, lt), NEW n \in S,
           t.left[n] = NULL \/ t.right[n] = NULL,
           NEW c, c = IF t.left[n] # NULL THEN t.left[n] ELSE t.right[n],
           NEW r, r = Cleared(Replace(t, t.prev[n], n, c), n)
    PROVE  /\ c \in S \ {n} \/ (c = NULL /\ t.prev[n] \in (S \ {n}) \cup {NULL})
           /\ c = NULL /\ t.prev[n] = NULL => S = {n}
           /\ \E E : Ordered(r, S \ {n}, E, lt) /\ LeftUnder(r, E, t, D, S, n)
<1>1. NULL \notin S /\ NULL \notin Nodes /\ S \subseteq Nodes /\ t \in Trees
  BY NullIsNoNode DEF Ordered
<1>2. PICK g : g = t.prev[n]
  OBVIOUS
<1>3. AtLeaving(t, S, D, n, c, g)
  BY <1>2, LeavingFacts
<1>4. c \in NodeOrNull /\ g \in NodeOrNull /\ c # n /\ g # n /\ c \in S \cup {NULL} /\ g \in S \cup {NULL}
  BY <1>1, <1>3 DEF AtLeaving, NodeOrNull
<1>5. Unlinked(r, t, n, c, g)
  BY <1>1, <1>2, <1>4, UnlinkFields
<1>6. PICK E : E = [m \in Nodes |-> D[m] \ {n}]
  OBVIOUS
<1>7. LeftSets(E, D, n)
  BY <1>6 DEF Ordered, Subtrees, LeftSets
<1>8. Linked(r, S \ {n})
  BY <1>3, <1>5, LeavingLinked
<1>9. Subtrees(r, S \ {n}, E) /\ LeftUnder(r, E, t, D, S, n)
  BY <1>3, <1>5, <1>7, LeavingSubtrees
<1>10. Sorted(r, S \ {n}, E, lt)
  <2>1. ASSUME NEW m \in S \ {n}
        PROVE  /\ \A e \in Under(E, r.left[m]) : <<e, m>> \in lt
               /\ \A e \in Under(E, r.right[m]) : <<m, e>> \in lt
    <3>1. Under(E, r.left[m]) \subseteq Under(D, t.left[m]) /\ Under(E, r.right[m]) \subseteq Under(D, t.right[m])
      BY <1>9 DEF LeftUnder
    <3>2. /\ \A e \in Under(D, t.left[m]) : <<e, m>> \in lt
          /\ \A e \in Under(D, t.right[m]) : <<m, e>> \in lt
      BY DEF Ordered, Sorted
    <3> QED
      BY <3>1, <3>2
  <2> QED
    BY <2>1 DEF Sorted
<1>11. Ordered(r, S \ {n}, E, lt)
  BY <1>8, <1>9, <1>10 DEF Ordered
<1>12. c = NULL /\ g = NULL => S = {n}
  <2> SUFFICES ASSUME c = NULL, g = NULL PROVE S = {n}
    OBVIOUS
  <2>1. n = t.root
    BY <1>2 DEF Ordered, Linked
  <2>2. D[n] = S
    BY <1>1, <2>1 DEF Ordered, Subtrees
  <2> QED
    BY <1>3, <2>2 DEF AtLeaving, Under
<1> QED
  BY <1>2, <1>4, <1>9, <1>11, <1>12

\* o renames the nodes in S.
Renaming(o, S) ==
    /\ o \in [NodeOrNull -> NodeOrNull] /\ o[NULL] = NULL
    /\ \A n \in NodeOrNull : o[o[n]] = n
    /\ \A n \in Nodes : o[n] \in Nodes /\ (n \in S <=> o[n] \in S)

Renamed(r, t, o) ==
    /\ r \in Trees
    /\ r.root = o[t.root]
    /\ \A n \in Nodes : r.left[n] = o[t.left[o[n]]] /\ r.right[n] = o[t.right[o[n]]]
                        /\ r.prev[n] = o[t.prev[o[n]]]

RenamedSets(F, D, o) ==
    /\ F \in [Nodes -> SUBSET Nodes]
    /\ \A n, d \in Nodes : d \in F[n] <=> o[d] \in D[o[n]]

LEMMA RenamedUnder ==
    ASSUME NEW t, NEW S, NEW D, NEW lt, Ordered(t, S, D, lt), NEW o, Renaming(o, S),
           NEW r, Renamed(r, t, o), NEW F, RenamedSets(F, D, o), NEW n \in S
    PROVE  /\ Under(F, r.left[n]) \subseteq Nodes /\ Under(F, r.right[n]) \subseteq Nodes
           /\ \A d \in Nodes : d \in Under(F, r.left[n]) <=> o[d] \in Under(D, t.left[o[n]])
           /\ \A d \in Nodes : d \in Under(F, r.right[n]) <=> o[d] \in Under(D, t.right[o[n]])
<1>1. NULL \notin S /\ NULL \notin Nodes /\ S \subseteq Nodes /\ n \in Nodes /\ o[n] \in S
  BY NullIsNoNode DEF Ordered, Renaming
<1>2. ASSUME NEW c \in S \cup {NULL}
      PROVE  /\ Under(F, o[c]) \subseteq Nodes
             /\ \A d \in Nodes : d \in Under(F, o[c]) <=> o[d] \in Under(D, c)
  <2>1. CASE c = NULL
    BY <2>1 DEF Under, Renaming
  <2>2. CASE c # NULL
    <3>1. c \in Nodes /\ o[c] \in Nodes /\ o[o[c]] = c /\ o[c] # NULL
      BY <1>1, <2>2 DEF Renaming, NodeOrNull
    <3> QED
      BY <2>2, <3>1 DEF Under, RenamedSets
  <2> QED
    BY <2>1, <2>2
<1>3. t.left[o[n]] \in S \cup {NULL} /\ t.right[o[n]] \in S \cup {NULL}
  BY <1>1 DEF Ordered, Linked
<1>4. r.left[n] = o[t.left[o[n]]] /\ r.right[n] = o[t.right[o[n]]]
  BY <1>1 DEF Renamed
<1> QED
  BY <1>2, <1>3, <1>4

LEMMA RenamedOrdered ==
    ASSUME NEW t, NEW S, NEW D, NEW lt, Ordered(t, S, D, lt), NEW o, Renaming(o, S),
           NEW r, Renamed(r, t, o), NEW F, RenamedSets(F, D, o),
           NEW l2, \A a, b \in Nodes : <<a, b>> \in l2 <=> <<o[a], o[b]>> \in lt
    PROVE  Ordered(r, S, F, l2)
<1>1. NULL \notin S /\ NULL \notin Nodes /\ S \subseteq Nodes /\ t \in Trees /\ r \in Trees
  BY NullIsNoNode DEF Ordered, Renamed
<1>2. /\ o[NULL] = NULL /\ \A n \in Nodes : o[n] \in Nodes /\ o[o[n]] = n /\ (n \in S <=> o[n] \in S)
  BY DEF Renaming, NodeOrNull
<1>3. \A n \in Nodes : /\ r.left[n] = o[t.left[o[n]]] /\ r.right[n] = o[t.right[o[n]]]
                     /\ r.prev[n] = o[t.prev[o[n]]]
  BY DEF Renamed
<1>4. r.root = o[t.root]
  BY DEF Renamed
<1>5. \A c \in NodeOrNull : (o[c] = NULL <=> c = NULL) /\ (c \in S \cup {NULL} => o[c] \in S \cup {NULL})
  BY <1>1, <1>2 DEF Renaming, NodeOrNull
<1>6. Linked(r, S)
  <2>1. t.root \in S \cup {NULL} /\ (t.root = NULL <=> S = {}) /\ (t.root # NULL => t.prev[t.root] = NULL)
    BY DEF Ordered, Linked
  <2>2. t.root \in NodeOrNull
    BY <1>1, <2>1 DEF NodeOrNull
  <2>3. r.root \in S \cup {NULL} /\ (r.root = NULL <=> S = {})
    BY <1>4, <1>5, <2>1, <2>2
  <2>4. r.root # NULL => r.prev[r.root] = NULL
    <3> SUFFICES ASSUME r.root # NULL PROVE r.prev[r.root] = NULL
      OBVIOUS
    <3>1. t.root # NULL /\ t.root \in S /\ o[r.root] = t.root /\ r.root \in Nodes
      BY <1>1, <1>2, <1>4, <1>5, <2>1, <2>2
    <3> QED
      BY <1>2, <1>3, <2>1, <3>1
  <2>5. ASSUME NEW n \in S
        PROVE  /\ o[n] \in S /\ n \in Nodes /\ o[o[n]] = n
               /\ t.left[o[n]] \in S \cup {NULL} /\ t.right[o[n]] \in S \cup {NULL}
               /\ t.prev[o[n]] \in S \cup {NULL}
               /\ t.left[o[n]] \in NodeOrNull /\ t.right[o[n]] \in NodeOrNull
               /\ t.prev[o[n]] \in NodeOrNull
    <3>1. o[n] \in S /\ n \in Nodes /\ o[o[n]] = n
      BY <1>1, <1>2
    <3>2. t.left[o[n]] \in S \cup {NULL} /\ t.right[o[n]] \in S \cup {NULL}
          /\ t.prev[o[n]] \in S \cup {NULL}
      BY <3>1 DEF Ordered, Linked
    <3> QED
      BY <1>1, <3>1, <3>2 DEF NodeOrNull
  <2>6. ASSUME NEW n \in S
        PROVE  r.left[n] \in S \cup {NULL} /\ r.right[n] \in S \cup {NULL} /\ r.prev[n] \in S \cup {NULL}
    BY <1>3, <1>5, <2>5
  <2>7. ASSUME NEW n \in S, r.left[n] # NULL PROVE r.prev[r.left[n]] = n
    <3>1. PICK c : c = t.left[o[n]]
      OBVIOUS
    <3>2. c # NULL /\ c \in S /\ r.left[n] = o[c]
      BY <1>3, <1>5, <2>5, <2>7, <3>1
    <3>3. t.prev[c] = o[n]
      BY <2>5, <3>1, <3>2 DEF Ordered, Linked
    <3>4. o[c] \in Nodes /\ o[o[c]] = c
      BY <1>1, <1>2, <3>2
    <3>5. r.prev[o[c]] = o[t.prev[c]]
      BY <1>3, <3>4
    <3> QED
      BY <2>5, <3>2, <3>3, <3>5
  <2>8. ASSUME NEW n \in S, r.right[n] # NULL PROVE r.prev[r.right[n]] = n
    <3>1. PICK c : c = t.right[o[n]]
      OBVIOUS
    <3>2. c # NULL /\ c \in S /\ r.right[n] = o[c]
      BY <1>3, <1>5, <2>5, <2>8, <3>1
    <3>3. t.prev[c] = o[n]
      BY <2>5, <3>1, <3>2 DEF Ordered, Linked
    <3>4. o[c] \in Nodes /\ o[o[c]] = c
      BY <1>1, <1>2, <3>2
    <3>5. r.prev[o[c]] = o[t.prev[c]]
      BY <1>3, <3>4
    <3> QED
      BY <2>5, <3>2, <3>3, <3>5
  <2>9. ASSUME NEW n \in S, n # r.root
        PROVE  r.prev[n] # NULL /\ (n = r.left[r.prev[n]] \/ n = r.right[r.prev[n]])
    <3>1. o[n] \in S /\ o[n] # t.root
      BY <1>4, <2>5, <2>9
    <3>2. PICK q \in S : q = t.prev[o[n]] /\ (o[n] = t.left[q] \/ o[n] = t.right[q])
      BY <3>1 DEF Ordered, Linked
    <3>3. r.prev[n] = o[q] /\ o[q] \in Nodes /\ o[o[q]] = q
      BY <1>1, <1>2, <1>3, <2>5, <3>2
    <3>4. r.left[o[q]] = o[t.left[q]] /\ r.right[o[q]] = o[t.right[q]]
      BY <1>3, <3>3
    <3>5. o[q] # NULL
      BY <1>1, <3>3
    <3> QED
      BY <2>5, <3>2, <3>3, <3>4, <3>5
  <2>10. ASSUME NEW n \in Nodes \ S PROVE r.left[n] = NULL /\ r.right[n] = NULL /\ r.prev[n] = NULL
    <3>1. o[n] \in Nodes \ S
      BY <1>2
    <3>2. t.left[o[n]] = NULL /\ t.right[o[n]] = NULL /\ t.prev[o[n]] = NULL
      BY <3>1 DEF Ordered, Linked
    <3> QED
      BY <1>2, <1>3, <3>2
  <2> QED
    BY <1>1, <2>3, <2>4, <2>6, <2>7, <2>8, <2>9, <2>10 DEF Linked
<1>7. F \in [Nodes -> SUBSET Nodes] /\ \A n, d \in Nodes : d \in F[n] <=> o[d] \in D[o[n]]
  BY DEF RenamedSets
<1>8. Subtrees(r, S, F)
  <2>1. ASSUME NEW n \in S PROVE F[n] = {n} \cup Under(F, r.left[n]) \cup Under(F, r.right[n])
    <3>1. o[n] \in S /\ n \in Nodes /\ o[n] \in Nodes /\ o[o[n]] = n
      BY <1>1, <1>2
    <3>2. D[o[n]] = {o[n]} \cup Under(D, t.left[o[n]]) \cup Under(D, t.right[o[n]])
      BY <3>1 DEF Ordered, Subtrees
    <3>3. /\ Under(F, r.left[n]) \subseteq Nodes /\ Under(F, r.right[n]) \subseteq Nodes
          /\ \A d \in Nodes : d \in Under(F, r.left[n]) <=> o[d] \in Under(D, t.left[o[n]])
          /\ \A d \in Nodes : d \in Under(F, r.right[n]) <=> o[d] \in Under(D, t.right[o[n]])
      BY RenamedUnder
    <3>4. F[n] \subseteq Nodes
      BY <1>7, <3>1
    <3>5. ASSUME NEW d \in Nodes
          PROVE  d \in F[n] <=> d \in {n} \cup Under(F, r.left[n]) \cup Under(F, r.right[n])
      <4>1. d \in F[n] <=> o[d] \in D[o[n]]
        BY <1>7, <3>1
      <4>2. d = n <=> o[d] = o[n]
        BY <1>2, <3>1
      <4> QED
        BY <3>2, <3>3, <4>1, <4>2
    <3> QED
      BY <3>1, <3>3, <3>4, <3>5
  <2>2. r.root # NULL => F[r.root] = S
    <3> SUFFICES ASSUME r.root # NULL PROVE F[r.root] = S
      OBVIOUS
    <3>1. r.root \in S /\ r.root \in Nodes
      BY <1>1, <1>6 DEF Linked
    <3>2. t.root # NULL /\ t.root \in S
      BY <1>2, <1>4 DEF Ordered, Linked
    <3>3. o[r.root] = t.root
      BY <1>1, <1>2, <1>4, <3>2
    <3>4. D[t.root] = S
      BY <3>2 DEF Ordered, Subtrees
    <3>5. \A d \in Nodes : d \in F[r.root] <=> d \in S
      BY <1>2, <1>7, <3>1, <3>3, <3>4
    <3>6. F[r.root] \subseteq Nodes
      BY <1>7, <3>1
    <3> QED
      BY <1>1, <3>5, <3>6
  <2>3. \A m \in S : \A c \in D[m] : c \in S /\ D[c] \subseteq D[m]
    BY DEF Ordered, Subtrees
  <2>4. ASSUME NEW m \in S, NEW c \in F[m]
        PROVE  /\ m \in Nodes /\ c \in Nodes /\ o[m] \in S /\ o[c] \in D[o[m]] /\ c \in S
    <3>1. m \in Nodes /\ c \in Nodes /\ o[m] \in S
      BY <1>1, <1>2, <1>7
    <3>2. o[c] \in D[o[m]]
      BY <1>7, <3>1
    <3> QED
      BY <1>2, <2>3, <3>1, <3>2
  <2>5. ASSUME NEW m \in S, NEW c \in F[m] PROVE F[c] \subseteq F[m]
    <3>1. m \in Nodes /\ c \in Nodes /\ o[m] \in S /\ o[c] \in D[o[m]]
      BY <2>4
    <3>2. D[o[c]] \subseteq D[o[m]]
      BY <2>3, <3>1
    <3>3. F[c] \subseteq Nodes
      BY <1>7, <3>1
    <3> QED
      BY <1>7, <3>1, <3>2, <3>3
  <2>6. ASSUME NEW m \in S, NEW c \in F[m], c # m PROVE r.prev[c] \in F[m]
    <3>1. m \in Nodes /\ c \in Nodes /\ o[m] \in S /\ o[c] \in D[o[m]] /\ c \in S
      BY <2>4
    <3>2. o[c] # o[m]
      BY <1>2, <2>6, <3>1
    <3>3. t.prev[o[c]] \in D[o[m]] /\ t.prev[o[c]] \in S
      BY <2>3, <3>1, <3>2 DEF Ordered, Subtrees
    <3>4. PICK q \in Nodes : q = t.prev[o[c]]
      BY <1>1, <3>3
    <3>5. r.prev[c] = o[q] /\ o[q] \in Nodes /\ o[o[q]] = q
      BY <1>2, <1>3, <3>1, <3>4
    <3> QED
      BY <1>7, <3>1, <3>3, <3>4, <3>5
  <2> QED
    BY <1>7, <2>1, <2>2, <2>4, <2>5, <2>6 DEF Subtrees
<1>9. ASSUME NEW n \in S
      PROVE  /\ \A c \in Under(F, r.left[n]) : <<c, n>> \in l2
             /\ \A c \in Under(F, r.right[n]) : <<n, c>> \in l2
  <2>1. n \in Nodes /\ o[n] \in S
    BY <1>1, <1>2
  <2>2. (\A c \in Under(D, t.left[o[n]]) : <<c, o[n]>> \in lt)
        /\ (\A c \in Under(D, t.right[o[n]]) : <<o[n], c>> \in lt)
    BY <2>1 DEF Ordered, Sorted
  <2>3. /\ Under(F, r.left[n]) \subseteq Nodes /\ Under(F, r.right[n]) \subseteq Nodes
        /\ \A d \in Nodes : d \in Under(F, r.left[n]) <=> o[d] \in Under(D, t.left[o[n]])
        /\ \A d \in Nodes : d \in Under(F, r.right[n]) <=> o[d] \in Under(D, t.right[o[n]])
    BY RenamedUnder
  <2>4. \A c \in Under(F, r.left[n]) : <<c, n>> \in l2
    BY <2>1, <2>2, <2>3
  <2>5. \A c \in Under(F, r.right[n]) : <<n, c>> \in l2
    BY <2>1, <2>2, <2>3
  <2> QED
    BY <2>4, <2>5
<1>10. StrictOrder(l2)
  <2>1. \A a \in Nodes : <<a, a>> \notin l2
    BY <1>2 DEF Ordered, StrictOrder
  <2>2. ASSUME NEW a \in Nodes, NEW b \in Nodes, NEW c \in Nodes, <<a, b>> \in l2, <<b, c>> \in l2
        PROVE  <<a, c>> \in l2
    <3>1. <<o[a], o[b]>> \in lt /\ <<o[b], o[c]>> \in lt
      BY <2>2
    <3>2. <<o[a], o[c]>> \in lt
      BY <1>2, <3>1 DEF Ordered, StrictOrder
    <3> QED
      BY <3>2
  <2> QED
    BY <2>1, <2>2 DEF StrictOrder
<1> QED
  BY <1>6, <1>8, <1>9, <1>10 DEF Ordered, Sorted

Taker(t, n) == IF t.left[n] # NULL THEN t.left[n] ELSE t.right[n]
Gone(t, n) == Cleared(Replace(t, t.prev[n], n, Taker(t, n)), n)
Upward(t, n) == IF Taker(t, n) # NULL THEN Taker(t, n) ELSE t.prev[n]

LEMMA GoneKeeps ==
    ASSUME NEW t, NEW S, NEW D, NEW lt, Ordered(t, S, D, lt), NEW n \in S,
           t.left[n] = NULL \/ t.right[n] = NULL, S # {n}
    PROVE  /\ Upward(t, n) \in S \ {n}
           /\ \E E : Ordered(Gone(t, n), S \ {n}, E, lt) /\ LeftUnder(Gone(t, n), E, t, D, S, n)
<1>1. PICK c : c = Taker(t, n)
  OBVIOUS
<1>2. c = IF t.left[n] # NULL THEN t.left[n] ELSE t.right[n]
  BY <1>1 DEF Taker
<1>3. PICK r : r = Gone(t, n)
  OBVIOUS
<1>4. r = Cleared(Replace(t, t.prev[n], n, c), n)
  BY <1>1, <1>3 DEF Gone
<1>5. /\ c \in S \ {n} \/ (c = NULL /\ t.prev[n] \in (S \ {n}) \cup {NULL})
      /\ c = NULL /\ t.prev[n] = NULL => S = {n}
      /\ \E E : Ordered(r, S \ {n}, E, lt) /\ LeftUnder(r, E, t, D, S, n)
  BY <1>2, <1>4, LeavingKeeps
<1>6. NULL \notin S
  BY NullIsNoNode DEF Ordered
<1> QED
  BY <1>1, <1>3, <1>5, <1>6 DEF Upward

LEMMA SwitchRenames ==
    ASSUME NEW t \in Trees, NEW S \in SUBSET Nodes, NEW a \in S, NEW b \in S,
           NEW o, o = [n \in NodeOrNull |-> IF n = a THEN b ELSE IF n = b THEN a ELSE n]
    PROVE  Renaming(o, S) /\ Renamed(Switch(t, a, b), t, o)
<1>1. NULL \notin Nodes /\ a \in Nodes /\ b \in Nodes
  BY AvlAssumption
<1>2. Renaming(o, S)
  BY <1>1 DEF Renaming, NodeOrNull
<1>3. PICK r : r = Switch(t, a, b)
  OBVIOUS
<1>4. \A n \in NodeOrNull : o[n] = IF n = a THEN b ELSE IF n = b THEN a ELSE n
  OBVIOUS
<1>5. t.root \in NodeOrNull
      /\ \A n \in Nodes : /\ o[n] \in Nodes /\ t.left[n] \in NodeOrNull /\ t.right[n] \in NodeOrNull
                        /\ t.prev[n] \in NodeOrNull /\ t.height[n] \in Nat \ {0}
  BY <1>2 DEF Trees, Renaming
<1>6. \A n \in Nodes : n \in NodeOrNull
  BY DEF NodeOrNull
<1>7. \A n \in Nodes : o[n] = IF n = a THEN b ELSE IF n = b THEN a ELSE n
  BY <1>4, <1>6
<1>8. \A c \in NodeOrNull : o[c] \in NodeOrNull
  BY <1>2 DEF Renaming
<1>9. r.root = o[t.root]
  BY <1>3, <1>4, <1>5 DEF Switch
<1>10. r.left \in [Nodes -> NodeOrNull] /\ \A n \in Nodes : r.left[n] = o[t.left[o[n]]]
  <2>1. r.left = [n \in Nodes |-> o[t.left[o[n]]]]
    <3>1. \A n \in Nodes : o[t.left[o[n]]] = IF t.left[o[n]] = a THEN b
                                           ELSE IF t.left[o[n]] = b THEN a ELSE t.left[o[n]]
      BY <1>4, <1>5
    <3>2. r.left = [n \in Nodes |-> IF t.left[o[n]] = a THEN b
                                  ELSE IF t.left[o[n]] = b THEN a ELSE t.left[o[n]]]
      BY <1>3, <1>7 DEF Switch
    <3> QED
      BY <3>1, <3>2
  <2>2. \A n \in Nodes : o[t.left[o[n]]] \in NodeOrNull
    BY <1>5, <1>8
  <2> QED
    BY <2>1, <2>2
<1>11. r.right \in [Nodes -> NodeOrNull] /\ \A n \in Nodes : r.right[n] = o[t.right[o[n]]]
  <2>1. r.right = [n \in Nodes |-> o[t.right[o[n]]]]
    <3>1. \A n \in Nodes : o[t.right[o[n]]] = IF t.right[o[n]] = a THEN b
                                            ELSE IF t.right[o[n]] = b THEN a ELSE t.right[o[n]]
      BY <1>4, <1>5
    <3>2. r.right = [n \in Nodes |-> IF t.right[o[n]] = a THEN b
                                   ELSE IF t.right[o[n]] = b THEN a ELSE t.right[o[n]]]
      BY <1>3, <1>7 DEF Switch
    <3> QED
      BY <3>1, <3>2
  <2>2. \A n \in Nodes : o[t.right[o[n]]] \in NodeOrNull
    BY <1>5, <1>8
  <2> QED
    BY <2>1, <2>2
<1>12. r.prev \in [Nodes -> NodeOrNull] /\ \A n \in Nodes : r.prev[n] = o[t.prev[o[n]]]
  <2>1. r.prev = [n \in Nodes |-> o[t.prev[o[n]]]]
    <3>1. \A n \in Nodes : o[t.prev[o[n]]] = IF t.prev[o[n]] = a THEN b
                                           ELSE IF t.prev[o[n]] = b THEN a ELSE t.prev[o[n]]
      BY <1>4, <1>5
    <3>2. r.prev = [n \in Nodes |-> IF t.prev[o[n]] = a THEN b
                                  ELSE IF t.prev[o[n]] = b THEN a ELSE t.prev[o[n]]]
      BY <1>3, <1>7 DEF Switch
    <3> QED
      BY <3>1, <3>2
  <2>2. \A n \in Nodes : o[t.prev[o[n]]] \in NodeOrNull
    BY <1>5, <1>8
  <2> QED
    BY <2>1, <2>2
<1>a. r.height \in [Nodes -> Nat \ {0}]
  <2>1. r.height = [n \in Nodes |-> t.height[o[n]]]
    BY <1>3, <1>7 DEF Switch
  <2> QED
    BY <1>5, <2>1
<1>b. r \in Trees
  <2>1. r = [root |-> r.root, left |-> r.left, right |-> r.right, prev |-> r.prev, height |-> r.height]
    BY <1>3 DEF Switch
  <2>2. r.root \in NodeOrNull
    BY <1>5, <1>8, <1>9
  <2> QED
    BY <1>10, <1>11, <1>12, <1>a, <2>1, <2>2 DEF Trees
<1>13. Renamed(r, t, o)
  BY <1>9, <1>10, <1>11, <1>12, <1>b DEF Renamed
<1> QED
  BY <1>2, <1>3, <1>13

\* b is the least node on the right of a.
LeastOnRight(t, D, lt, a, b) ==
    /\ t.right[a] # NULL /\ t.left[b] = NULL /\ b \in D[t.right[a]]
    /\ \A d \in D[t.right[a]] : d = b \/ <<b, d>> \in lt

\* The switched tree is out of order only where a is, and a leaves.
LEMMA SwitchedKeeps ==
    ASSUME NEW t, NEW S, NEW D, NEW lt, Ordered(t, S, D, lt), NEW a \in S, NEW b,
           LeastOnRight(t, D, lt, a, b), NEW s, s = Switch(t, a, b)
    PROVE  /\ s.left[a] = NULL /\ Upward(s, a) \in S \ {a}
           /\ \E E : Ordered(Gone(s, a), S \ {a}, E, lt)
<1>1. NULL \notin S /\ NULL \notin Nodes /\ S \subseteq Nodes /\ t \in Trees /\ a \in Nodes
  BY NullIsNoNode DEF Ordered
<1>2. OnItsSides(t, S, D, lt, a)
  BY ChildrenUnder
<1>3. t.right[a] \in S /\ b \in D[t.right[a]] /\ D[t.right[a]] \subseteq D[a]
      /\ \A c \in D[t.right[a]] : <<a, c>> \in lt /\ c # a
  BY <1>2 DEF OnItsSides, LeastOnRight
<1>4. \A m \in S : \A c \in D[m] : c \in S /\ D[c] \subseteq D[m]
  BY DEF Ordered, Subtrees
<1>5. b \in S /\ b # a /\ b \in Nodes /\ <<a, b>> \in lt
  BY <1>1, <1>3, <1>4
<1>6. PICK o : o = [n \in NodeOrNull |-> IF n = a THEN b ELSE IF n = b THEN a ELSE n]
  OBVIOUS
<1>7. Renaming(o, S) /\ Renamed(s, t, o)
  BY <1>1, <1>5, <1>6, SwitchRenames
<1>8. o[NULL] = NULL /\ o[a] = b /\ o[b] = a /\ \A n \in Nodes : n # a /\ n # b => o[n] = n
  BY <1>1, <1>5, <1>6 DEF NodeOrNull
<1>9. s.left[a] = NULL
  BY <1>1, <1>7, <1>8 DEF Renamed, LeastOnRight
<1>10. D \in [Nodes -> SUBSET Nodes]
  BY DEF Ordered, Subtrees
<1>11. PICK F : F = [n \in Nodes |-> {d \in Nodes : o[d] \in D[o[n]]}]
  OBVIOUS
<1>12. RenamedSets(F, D, o)
  BY <1>11 DEF RenamedSets
<1>13. PICK l2 : l2 = {e \in Nodes \X Nodes : <<o[e[1]], o[e[2]]>> \in lt}
  OBVIOUS
<1>14. \A u, v \in Nodes : <<u, v>> \in l2 <=> <<o[u], o[v]>> \in lt
  BY <1>13
<1>15. Ordered(s, S, F, l2)
  BY <1>7, <1>12, <1>14, RenamedOrdered
<1>16. S # {a}
  BY <1>5
<1>17. PICK r : r = Gone(s, a)
  OBVIOUS
<1>18. PICK E : Ordered(r, S \ {a}, E, l2) /\ LeftUnder(r, E, s, F, S, a)
  BY <1>9, <1>15, <1>16, <1>17, GoneKeeps
<1>19. Upward(s, a) \in S \ {a}
  BY <1>9, <1>15, <1>16, GoneKeeps
<1>20. /\ \A x, y, z \in Nodes : <<x, y>> \in lt /\ <<y, z>> \in lt => <<x, z>> \in lt
       /\ StrictOrder(lt)
  BY DEF Ordered, StrictOrder
<1>21. D[a] = {a} \cup Under(D, t.left[a]) \cup D[t.right[a]] /\ D[a] \subseteq Nodes
  BY <1>1, <1>3, <1>10 DEF Ordered, Subtrees, Under
<1>22. ASSUME NEW n \in S, n # a, NEW c \in Under(E, r.left[n]) PROVE <<c, n>> \in lt
  <2>1. c \in Under(F, s.left[n]) /\ c # a
    BY <1>18, <1>22 DEF LeftUnder
  <2>2. n \in Nodes /\ c \in Nodes /\ o[c] \in Under(D, t.left[o[n]])
    BY <1>1, <1>7, <1>12, <2>1, RenamedUnder
  <2>3. CASE n = b
    <3>1. o[c] \in Under(D, t.left[a]) /\ <<o[c], a>> \in lt
      BY <1>8, <2>2, <2>3 DEF Ordered, Sorted
    <3>2. c # b
      BY <1>1, <1>8, <1>20, <3>1 DEF StrictOrder
    <3>3. <<c, a>> \in lt
      BY <1>8, <2>1, <2>2, <3>1, <3>2
    <3> QED
      BY <1>1, <1>5, <1>20, <2>2, <2>3, <3>3
  <2>4. CASE n # b
    <3>1. o[n] = n /\ o[c] \in Under(D, t.left[n]) /\ <<o[c], n>> \in lt
      BY <1>8, <1>22, <2>2, <2>4 DEF Ordered, Sorted
    <3>2. CASE c # b
      BY <1>8, <2>1, <2>2, <3>1, <3>2
    <3>3. CASE c = b
      <4>1. a \in Under(D, t.left[n])
        BY <1>8, <3>1, <3>3
      <4>2. t.left[n] \in S /\ a \in D[t.left[n]] /\ Under(D, t.left[n]) = D[t.left[n]]
        BY <4>1 DEF Under, Ordered, Linked
      <4>3. b \in Under(D, t.left[n])
        BY <1>3, <1>4, <4>2
      <4> QED
        BY <3>3, <4>3 DEF Ordered, Sorted
    <3> QED
      BY <3>2, <3>3
  <2> QED
    BY <2>3, <2>4
<1>23. ASSUME NEW n \in S, n # a, NEW c \in Under(E, r.right[n]) PROVE <<n, c>> \in lt
  <2>1. c \in Under(F, s.right[n]) /\ c # a
    BY <1>18, <1>23 DEF LeftUnder
  <2>2. n \in Nodes /\ c \in Nodes /\ o[c] \in Under(D, t.right[o[n]])
    BY <1>1, <1>7, <1>12, <2>1, RenamedUnder
  <2>3. CASE n = b
    <3>1. o[c] \in D[t.right[a]]
      BY <1>1, <1>3, <1>8, <2>2, <2>3 DEF Under
    <3>2. c # b
      BY <1>3, <1>8, <3>1
    <3>3. o[c] = c
      BY <1>8, <2>1, <2>2, <3>2
    <3> QED
      BY <2>3, <3>1, <3>2, <3>3 DEF LeastOnRight
  <2>4. CASE n # b
    <3>1. o[n] = n /\ o[c] \in Under(D, t.right[n]) /\ <<n, o[c]>> \in lt
      BY <1>8, <1>23, <2>2, <2>4 DEF Ordered, Sorted
    <3>2. CASE c # b
      BY <1>8, <2>1, <2>2, <3>1, <3>2
    <3>3. CASE c = b
      <4>1. a \in Under(D, t.right[n])
        BY <1>8, <3>1, <3>3
      <4>2. t.right[n] \in S /\ a \in D[t.right[n]] /\ Under(D, t.right[n]) = D[t.right[n]]
        BY <4>1 DEF Under, Ordered, Linked
      <4>3. b \in Under(D, t.right[n])
        BY <1>3, <1>4, <4>2
      <4> QED
        BY <3>3, <4>3 DEF Ordered, Sorted
    <3> QED
      BY <3>2, <3>3
  <2> QED
    BY <2>3, <2>4
<1>24. Sorted(r, S \ {a}, E, lt)
  BY <1>22, <1>23 DEF Sorted
<1>25. Ordered(r, S \ {a}, E, lt)
  BY <1>18, <1>20, <1>24 DEF Ordered
<1> QED
  BY <1>9, <1>17, <1>19, <1>25

-----------------------------------------------------------------------------
(* Every step keeps the order, and knows where its cursor is *)

\* A search for a page is above the nodes of the page, or at one of them.
SearchCursor(D) ==
    at \in Searching =>
        /\ key \in Nat /\ pivot \in nodes \cup {NULL}
        /\ \A n \in nodes : Page[n] = key => pivot # NULL /\ n \in D[pivot]

\* An insertion is where the nodes above are on the same side of its key as its
\* cursor.
DownCursor(D) ==
    at = "down" => /\ key \in Nodes \ nodes /\ pivot \in nodes \cup {NULL}
                   /\ (pivot = NULL => tree.root = NULL)
                   /\ (pivot # NULL => Beside(nodes, D, Less, key, pivot))

\* The search for the least node on the right of a node: what is on the right is
\* under the cursor, or after it.
MinCursor(D) ==
    at = "min" => /\ key \in nodes \ System /\ System \subseteq nodes
                  /\ tree.right[key] # NULL /\ pivot \in D[tree.right[key]]
                  /\ \A d \in D[tree.right[key]] : d \in D[pivot] \/ <<pivot, d>> \in Less

OtherCursors ==
    /\ at = "insertBalance" => key \in nodes /\ pivot \in nodes
    /\ at = "remove" => key \in nodes \ System /\ pivot = key /\ System \subseteq nodes
    /\ at = "removeBalance" => pivot \in nodes /\ System \subseteq nodes

Cursors(D) == SearchCursor(D) /\ DownCursor(D) /\ MinCursor(D) /\ OtherCursors

AvlInv == \E D : Ordered(tree, nodes, D, Less) /\ Cursors(D)

LEMMA InitOrdered == Init => AvlInv
<1> SUFFICES ASSUME Init PROVE AvlInv
  OBVIOUS
<1>1. NULL \notin Nodes
  BY AvlAssumption
<1>2. tree \in Trees /\ tree.root = NULL
      /\ \A n \in Nodes : tree.left[n] = NULL /\ tree.right[n] = NULL /\ tree.prev[n] = NULL
  BY DEF Init, Trees, NodeOrNull
<1>3. nodes = {} /\ at = "idle"
  BY DEF Init
<1>4. Linked(tree, nodes)
  BY <1>2, <1>3 DEF Linked
<1>5. PICK D : D = [n \in Nodes |-> {}]
  OBVIOUS
<1>6. Subtrees(tree, nodes, D) /\ Sorted(tree, nodes, D, Less)
  BY <1>2, <1>3, <1>5 DEF Subtrees, Sorted
<1>7. Cursors(D)
  BY <1>3 DEF Cursors, SearchCursor, DownCursor, MinCursor, OtherCursors, Searching
<1>8. Ordered(tree, nodes, D, Less)
  BY <1>4, <1>6, LessAndMore DEF Ordered
<1> QED
  BY <1>7, <1>8 DEF AvlInv

\* The root is above every node, and under none but itself.
LEMMA FromRoot ==
    ASSUME NEW t, NEW S, NEW D, NEW lt, Ordered(t, S, D, lt), NEW k
    PROVE  /\ t.root \in S \cup {NULL}
           /\ k \in S => t.root # NULL /\ k \in D[t.root]
           /\ t.root # NULL => Beside(S, D, lt, k, t.root)
<1>1. t.root \in S \cup {NULL} /\ (k \in S => t.root # NULL /\ k \in D[t.root])
  BY DEF Ordered, Linked, Subtrees
<1>2. ASSUME t.root # NULL, NEW m \in S, t.root \in D[m], m # t.root PROVE FALSE
  <2>1. t.prev[t.root] = NULL /\ t.prev[t.root] \in D[m]
    BY <1>2 DEF Ordered, Linked, Subtrees
  <2>2. NULL \in S
    BY <1>2, <2>1 DEF Ordered, Subtrees
  <2> QED
    BY <2>2, NullIsNoNode DEF Ordered
<1>3. t.root # NULL => Beside(S, D, lt, k, t.root)
  BY <1>2 DEF Beside
<1> QED
  BY <1>1, <1>3

\* A step that leaves the tree alone, and is in the cursor's own way right.
LEMMA TreeStays ==
    ASSUME UNCHANGED <<tree, nodes>>, NEW D, Ordered(tree, nodes, D, Less),
           SearchCursor(D)', DownCursor(D)', MinCursor(D)', OtherCursors'
    PROVE  AvlInv'
  BY DEF AvlInv, Cursors

LEMMA CallKeeps ==
    ASSUME AvlInv, Call
    PROVE  AvlInv'
<1>1. PICK D : Ordered(tree, nodes, D, Less) /\ Cursors(D)
  BY DEF AvlInv
<1>2. PICK k \in Nodes : Open(Page[k]) \/ Close(Page[k]) \/ Push(k) \/ Remove(k)
  BY DEF Call
<1>3. /\ tree.root \in nodes \cup {NULL}
      /\ \A n \in nodes : tree.root # NULL /\ n \in D[tree.root]
      /\ tree.root # NULL => Beside(nodes, D, Less, k, tree.root)
  BY <1>1, FromRoot
<1>4. CASE Open(Page[k]) \/ Close(Page[k])
  <2>1. UNCHANGED <<tree, nodes>> /\ at' \in Searching /\ at' \notin {"down", "min"}
        /\ at' \notin {"insertBalance", "remove", "removeBalance"}
        /\ key' = Page[k] /\ pivot' = tree.root
    BY <1>4 DEF Open, Close, Begin, Searching
  <2>2. SearchCursor(D)'
    BY <1>3, <2>1, PageIsNat DEF SearchCursor
  <2>3. DownCursor(D)' /\ MinCursor(D)' /\ OtherCursors'
    BY <2>1 DEF DownCursor, MinCursor, OtherCursors
  <2> QED
    BY <1>1, <2>1, <2>2, <2>3, TreeStays
<1>5. CASE Push(k)
  <2>1. UNCHANGED <<tree, nodes>> /\ at' = "down" /\ key' = k /\ pivot' = tree.root /\ k \notin nodes
    BY <1>5 DEF Push, New, Begin
  <2>2. DownCursor(D)'
    BY <1>3, <2>1 DEF DownCursor
  <2>3. SearchCursor(D)' /\ MinCursor(D)' /\ OtherCursors'
    BY <2>1 DEF SearchCursor, MinCursor, OtherCursors, Searching
  <2> QED
    BY <1>1, <2>1, <2>2, <2>3, TreeStays
<1>6. CASE Remove(k)
  <2>1. UNCHANGED <<tree, nodes>> /\ at' = "remove" /\ key' = k /\ pivot' = k
        /\ k \in nodes \ System /\ System \subseteq nodes
    BY <1>6 DEF Remove, Begin, Ready
  <2>2. OtherCursors'
    BY <2>1 DEF OtherCursors
  <2>3. SearchCursor(D)' /\ MinCursor(D)' /\ DownCursor(D)'
    BY <2>1 DEF SearchCursor, MinCursor, DownCursor, Searching
  <2> QED
    BY <1>1, <2>1, <2>2, <2>3, TreeStays
<1> QED
  BY <1>2, <1>4, <1>5, <1>6

LEMMA SearchKeeps ==
    ASSUME AvlInv, SearchTurn \/ Found \/ NotFound
    PROVE  AvlInv'
<1>1. PICK D : Ordered(tree, nodes, D, Less) /\ Cursors(D)
  BY DEF AvlInv
<1>2. /\ at \in Searching /\ UNCHANGED <<tree, nodes>>
      /\ key \in Nat /\ pivot \in nodes \cup {NULL}
      /\ \A n \in nodes : Page[n] = key => pivot # NULL /\ n \in D[pivot]
  BY <1>1 DEF SearchTurn, Found, NotFound, Cursors, SearchCursor
<1>3. CASE SearchTurn
  <2>1. UNCHANGED <<at, key>> /\ pivot # NULL /\ Page[pivot] # key
        /\ pivot' = IF Page[pivot] > key THEN tree.left[pivot] ELSE tree.right[pivot]
    BY <1>3 DEF SearchTurn
  <2>2. pivot \in nodes /\ pivot \in Nodes /\ nodes \subseteq Nodes
    BY <1>1, <1>2, <2>1, NullIsNoNode DEF Ordered
  <2>3. pivot' \in nodes \cup {NULL}
    BY <1>1, <2>1, <2>2 DEF Ordered, Linked
  <2>4. ASSUME NEW n \in nodes, Page[n] = key PROVE pivot' # NULL /\ n \in D[pivot']
    <3>1. D[pivot] = {pivot} \cup Under(D, tree.left[pivot]) \cup Under(D, tree.right[pivot])
      BY <1>1, <2>2 DEF Ordered, Subtrees
    <3>2. /\ n \in Under(D, tree.left[pivot]) => <<n, pivot>> \in Less
          /\ n \in Under(D, tree.right[pivot]) => <<pivot, n>> \in Less
      BY <1>1, <2>2 DEF Ordered, Sorted
    <3>3. n \in Nodes /\ Page[n] \in Nat /\ Page[pivot] \in Nat
      BY <2>2, PageIsNat
    <3>4. /\ n \in Under(D, tree.left[pivot]) => Page[pivot] >= key
          /\ n \in Under(D, tree.right[pivot]) => ~(Page[pivot] > key)
      <4>1. /\ n \in Under(D, tree.left[pivot]) => n < pivot
            /\ n \in Under(D, tree.right[pivot]) => pivot < n
        BY <2>2, <3>2, <3>3, LessAndMore
      <4>2. (n < pivot => Page[n] <= Page[pivot]) /\ (pivot < n => Page[pivot] <= Page[n])
        BY <2>2, <3>3, NodeOrders
      <4> QED
        BY <2>4, <3>3, <4>1, <4>2
    <3>5. n \in Under(D, pivot')
      BY <1>2, <2>1, <2>4, <3>1, <3>3, <3>4
    <3> QED
      BY <3>5 DEF Under
  <2>5. SearchCursor(D)'
    BY <1>2, <2>1, <2>3, <2>4 DEF SearchCursor
  <2>6. DownCursor(D)' /\ MinCursor(D)' /\ OtherCursors'
    BY <1>2, <2>1 DEF DownCursor, MinCursor, OtherCursors, Searching
  <2> QED
    BY <1>1, <1>2, <2>5, <2>6, TreeStays
<1>4. CASE at' = "idle"
  <2>1. SearchCursor(D)' /\ DownCursor(D)' /\ MinCursor(D)' /\ OtherCursors'
    BY <1>4 DEF SearchCursor, DownCursor, MinCursor, OtherCursors, Searching
  <2> QED
    BY <1>1, <1>2, <2>1, TreeStays
<1>5. CASE NotFound /\ at = "open"
  <2>1. at' = "down" /\ key' \in Nodes \ nodes /\ pivot' = tree.root
    BY <1>5 DEF NotFound, New
  <2>2. DownCursor(D)'
    BY <1>1, <1>2, <2>1, FromRoot DEF DownCursor
  <2>3. SearchCursor(D)' /\ MinCursor(D)' /\ OtherCursors'
    BY <2>1 DEF SearchCursor, MinCursor, OtherCursors, Searching
  <2> QED
    BY <1>1, <1>2, <2>2, <2>3, TreeStays
<1>6. SearchTurn \/ at' = "idle" \/ (NotFound /\ at = "open")
  BY DEF Found, NotFound, Return
<1> QED
  BY <1>3, <1>4, <1>5, <1>6

\* A child on the side of its key is beside the key too.
LEMMA FurtherDown ==
    ASSUME NEW t, NEW S, NEW D, NEW lt, Ordered(t, S, D, lt), NEW p \in S, NEW k \in Nodes,
           Beside(S, D, lt, k, p), NEW c, c # NULL,
           (c = t.left[p] /\ <<k, p>> \in lt) \/ (c = t.right[p] /\ <<p, k>> \in lt)
    PROVE  c \in S /\ Beside(S, D, lt, k, c)
<1>1. NULL \notin S /\ S \subseteq Nodes
  BY NullIsNoNode DEF Ordered
<1>2. c \in S /\ t.prev[c] = p /\ c \in D[c]
  BY <1>1, ChildrenUnder DEF Ordered, Linked, OnItsSides
<1>3. c \in D[p]
  <2>1. OnItsSides(t, S, D, lt, p)
    BY ChildrenUnder
  <2> QED
    BY <2>1 DEF OnItsSides
<1>4. ASSUME NEW m \in S, c \in D[m], m # c
      PROVE  (<<c, m>> \in lt => <<k, m>> \in lt) /\ (<<m, c>> \in lt => <<m, k>> \in lt)
  <2>1. p \in D[m] /\ c \in Nodes /\ m \in Nodes /\ p \in Nodes
    BY <1>1, <1>2, <1>4 DEF Ordered, Subtrees
  <2>2. ~(<<c, m>> \in lt /\ <<m, c>> \in lt)
    BY <2>1 DEF Ordered, StrictOrder
  <2>3. OnItsSides(t, S, D, lt, m) /\ OnItsSides(t, S, D, lt, p)
    BY ChildrenUnder
  <2>4. CASE m = p
    <3>1. CASE c = t.left[p] /\ <<k, p>> \in lt
      <4>1. <<c, p>> \in lt
        BY <1>2, <2>3, <3>1 DEF OnItsSides
      <4> QED
        BY <2>2, <2>4, <3>1, <4>1
    <3>2. CASE c = t.right[p] /\ <<p, k>> \in lt
      <4>1. <<p, c>> \in lt
        BY <1>2, <2>3, <3>2 DEF OnItsSides
      <4> QED
        BY <2>2, <2>4, <3>2, <4>1
    <3> QED
      BY <3>1, <3>2
  <2>5. CASE m # p
    <3>1. D[m] = {m} \cup Under(D, t.left[m]) \cup Under(D, t.right[m])
      BY DEF Ordered, Subtrees
    <3>2. (<<p, m>> \in lt => <<k, m>> \in lt) /\ (<<m, p>> \in lt => <<m, k>> \in lt)
      BY <2>1, <2>5 DEF Beside
    <3>3. CASE p \in Under(D, t.left[m])
      <4>1. t.left[m] \in S /\ p \in D[t.left[m]]
        BY <3>3 DEF Under, Ordered, Linked
      <4>2. D[p] \subseteq D[t.left[m]]
        BY <4>1 DEF Ordered, Subtrees
      <4>3. <<c, m>> \in lt /\ <<p, m>> \in lt
        BY <1>1, <1>3, <2>3, <4>1, <4>2 DEF OnItsSides
      <4> QED
        BY <2>2, <3>2, <4>3
    <3>4. CASE p \in Under(D, t.right[m])
      <4>1. t.right[m] \in S /\ p \in D[t.right[m]]
        BY <3>4 DEF Under, Ordered, Linked
      <4>2. D[p] \subseteq D[t.right[m]]
        BY <4>1 DEF Ordered, Subtrees
      <4>3. <<m, c>> \in lt /\ <<m, p>> \in lt
        BY <1>1, <1>3, <2>3, <4>1, <4>2 DEF OnItsSides
      <4> QED
        BY <2>2, <3>2, <4>3
    <3> QED
      BY <2>1, <2>5, <3>1, <3>3, <3>4
  <2> QED
    BY <2>4, <2>5
<1> QED
  BY <1>2, <1>4 DEF Beside

LEMMA InsertKeeps ==
    ASSUME AvlInv, InsertFirst \/ InsertDown \/ InsertLink
    PROVE  AvlInv'
<1>1. PICK D : Ordered(tree, nodes, D, Less) /\ Cursors(D)
  BY DEF AvlInv
<1>2. /\ at = "down" /\ key \in Nodes /\ key \notin nodes /\ pivot \in nodes \cup {NULL}
      /\ (pivot = NULL => tree.root = NULL)
      /\ (pivot # NULL => Beside(nodes, D, Less, key, pivot))
  BY <1>1 DEF InsertFirst, InsertDown, InsertLink, Cursors, DownCursor
<1>3. NULL \notin nodes /\ nodes \subseteq Nodes
  BY <1>1, NullIsNoNode DEF Ordered
<1>4. CASE InsertFirst
  <2>1. tree.root = NULL /\ tree' = [tree EXCEPT !.root = key] /\ nodes' = {key} /\ at' = "idle"
    BY <1>4 DEF InsertFirst, Return
  <2>2. nodes = {}
    BY <1>1, <2>1 DEF Ordered, Linked
  <2>3. PICK E : Ordered(tree', {key}, E, Less)
    BY <1>1, <1>2, <2>1, <2>2, PlantRoot
  <2>4. Cursors(E)'
    BY <2>1 DEF Cursors, SearchCursor, DownCursor, MinCursor, OtherCursors, Searching
  <2> QED
    BY <2>1, <2>3, <2>4 DEF AvlInv
<1>5. pivot # NULL => /\ pivot \in Nodes /\ pivot \in nodes
                      /\ pivot > key => <<key, pivot>> \in Less
                      /\ ~(pivot > key) => <<pivot, key>> \in Less
  <2> SUFFICES ASSUME pivot # NULL
               PROVE  /\ pivot \in Nodes /\ pivot \in nodes
                      /\ pivot > key => <<key, pivot>> \in Less
                      /\ ~(pivot > key) => <<pivot, key>> \in Less
    OBVIOUS
  <2>1. pivot \in Nodes /\ pivot \in nodes /\ pivot # key /\ pivot \in Nat /\ key \in Nat
    BY <1>2, <1>3, AvlAssumption
  <2>2. pivot > key => <<key, pivot>> \in Less
    BY <1>2, <2>1, LessAndMore
  <2>3. ~(pivot > key) => <<pivot, key>> \in Less
    BY <1>2, <2>1, LessAndMore
  <2> QED
    BY <2>1, <2>2, <2>3
<1>6. CASE InsertDown
  <2>1. UNCHANGED <<tree, nodes, at, key>> /\ pivot # NULL /\ pivot' = Kid(pivot, key)
        /\ pivot' # NULL
    BY <1>6 DEF InsertDown
  <2>2. \/ pivot' = tree.left[pivot] /\ <<key, pivot>> \in Less
        \/ pivot' = tree.right[pivot] /\ <<pivot, key>> \in Less
    BY <1>5, <2>1 DEF Kid
  <2>3. PICK c : c = pivot'
    OBVIOUS
  <2>4. c \in nodes /\ Beside(nodes, D, Less, key, c)
    BY <1>1, <1>2, <1>5, <2>1, <2>2, <2>3, FurtherDown
  <2>5. DownCursor(D)'
    BY <1>2, <2>1, <2>3, <2>4 DEF DownCursor
  <2>6. SearchCursor(D)' /\ MinCursor(D)' /\ OtherCursors'
    BY <1>2, <2>1 DEF SearchCursor, MinCursor, OtherCursors, Searching
  <2> QED
    BY <1>1, <2>1, <2>5, <2>6, TreeStays
<1>7. CASE InsertLink
  <2>1. pivot # NULL /\ Kid(pivot, key) = NULL /\ nodes' = nodes \cup {key}
        /\ at' = "insertBalance" /\ UNCHANGED <<key, pivot>>
    BY <1>7 DEF InsertLink
  <2>2. \E E : Ordered(tree', nodes \cup {key}, E, Less)
    <3>1. CASE pivot > key
      <4>1. tree' = [tree EXCEPT !.prev[key] = pivot, !.left[pivot] = key]
        BY <1>7, <3>1 DEF InsertLink
      <4>2. tree.left[pivot] = NULL /\ <<key, pivot>> \in Less
        BY <1>5, <2>1, <3>1 DEF Kid
      <4> QED
        BY <1>1, <1>2, <1>5, <2>1, <4>1, <4>2, HangLeft
    <3>2. CASE ~(pivot > key)
      <4>1. tree' = [tree EXCEPT !.prev[key] = pivot, !.right[pivot] = key]
        BY <1>7, <3>2 DEF InsertLink
      <4>2. tree.right[pivot] = NULL /\ <<pivot, key>> \in Less
        BY <1>5, <2>1, <3>2 DEF Kid
      <4> QED
        BY <1>1, <1>2, <1>5, <2>1, <4>1, <4>2, HangRight
    <3> QED
      BY <3>1, <3>2
  <2>3. PICK E : Ordered(tree', nodes', E, Less)
    BY <2>1, <2>2
  <2>4. Cursors(E)'
    BY <1>2, <1>5, <2>1 DEF Cursors, SearchCursor, DownCursor, MinCursor, OtherCursors, Searching
  <2> QED
    BY <2>3, <2>4 DEF AvlInv
<1> QED
  BY <1>4, <1>6, <1>7

\* A turn of a balancing loop leads to the parent of its node, or to the end.
LEMMA UpKeeps ==
    ASSUME NEW r, nodes' = nodes, pivot \in nodes, Kept(r, tree, nodes, Less, pivot), Up(r),
           \/ at = "insertBalance" /\ key \in nodes
           \/ at = "removeBalance" /\ System \subseteq nodes
    PROVE  AvlInv'
<1>1. PICK E : Ordered(r, nodes, E, Less)
  BY DEF Kept
<1>2. Ordered(tree', nodes', E, Less)
  BY <1>1 DEF Up
<1>3. CASE pivot = tree.root
  <2>1. at' = "idle"
    BY <1>3 DEF Up, Return
  <2>2. Cursors(E)'
    BY <2>1 DEF Cursors, SearchCursor, DownCursor, MinCursor, OtherCursors, Searching
  <2> QED
    BY <1>2, <2>2 DEF AvlInv
<1>4. CASE pivot # tree.root
  <2>1. pivot' = r.prev[pivot] /\ at' = at /\ key' = key
    BY <1>4 DEF Up
  <2>2. pivot # r.root
    BY <1>4 DEF Kept
  <2>3. r.prev[pivot] \in nodes
    BY <1>1, <2>2 DEF Ordered, Linked
  <2>4. OtherCursors'
    BY <2>1, <2>3 DEF OtherCursors
  <2>5. SearchCursor(E)' /\ DownCursor(E)' /\ MinCursor(E)'
    BY <2>1 DEF SearchCursor, DownCursor, MinCursor, Searching
  <2> QED
    BY <1>2, <2>4, <2>5 DEF AvlInv, Cursors
<1> QED
  BY <1>3, <1>4

LEMMA BalanceKeeps ==
    ASSUME AvlInv, InsertBalance \/ InsertUndefined \/ RemoveBalance
    PROVE  AvlInv'
<1>1. PICK D : Ordered(tree, nodes, D, Less) /\ Cursors(D)
  BY DEF AvlInv
<1>2. nodes \subseteq Nodes
  BY <1>1, NullIsNoNode DEF Ordered
<1>3. CASE InsertBalance
  <2>1. PICK r : r = InsertTurn(tree, pivot, key) /\ Up(r)
    BY <1>3 DEF InsertBalance
  <2>2. at = "insertBalance" /\ ~FollowsNull /\ nodes' = nodes /\ pivot \in nodes /\ key \in nodes
    BY <1>1, <1>3 DEF InsertBalance, Cursors, OtherCursors
  <2>3. /\ Diff(tree, pivot) > 1 =>
            ~(Page[key] > Page[tree.left[pivot]] /\ tree.right[tree.left[pivot]] = NULL)
        /\ Diff(tree, pivot) < -1 =>
            ~(Page[key] < Page[tree.right[pivot]] /\ tree.left[tree.right[pivot]] = NULL)
    BY <2>2 DEF FollowsNull
  <2>4. Kept(r, tree, nodes, Less, pivot)
    BY <1>1, <1>2, <2>1, <2>2, <2>3, InsertTurnKeeps
  <2> QED
    BY <2>1, <2>2, <2>4, UpKeeps
<1>4. CASE InsertUndefined
  <2>1. UNCHANGED <<tree, nodes>> /\ at' = "undefined"
    BY <1>4 DEF InsertUndefined
  <2>2. SearchCursor(D)' /\ DownCursor(D)' /\ MinCursor(D)' /\ OtherCursors'
    BY <2>1 DEF SearchCursor, DownCursor, MinCursor, OtherCursors, Searching
  <2> QED
    BY <1>1, <2>1, <2>2, TreeStays
<1>5. CASE RemoveBalance
  <2>1. PICK r : r = RemoveTurn(tree, pivot) /\ Up(r)
    BY <1>5 DEF RemoveBalance
  <2>2. at = "removeBalance" /\ nodes' = nodes /\ pivot \in nodes /\ System \subseteq nodes
    BY <1>1, <1>5 DEF RemoveBalance, Cursors, OtherCursors
  <2>3. Kept(r, tree, nodes, Less, pivot)
    BY <1>1, <2>1, <2>2, RemoveTurnKeeps
  <2> QED
    BY <2>1, <2>2, <2>3, UpKeeps
<1> QED
  BY <1>3, <1>4, <1>5

LEMMA UnlinkIs ==
    ASSUME NEW t, NEW n, Unlink(t, n)
    PROVE  tree' = Gone(t, n) /\ nodes' = nodes \ {n} /\ at' = "removeBalance" /\ pivot' = Upward(t, n)
  BY DEF Unlink, Gone, Upward, Taker, Cleared

LEMMA RemoveKeeps ==
    ASSUME AvlInv, RemoveNode \/ FindMin \/ RemoveSwitched
    PROVE  AvlInv'
<1>1. PICK D : Ordered(tree, nodes, D, Less) /\ Cursors(D)
  BY DEF AvlInv
<1>2. NULL \notin nodes /\ nodes \subseteq Nodes
  BY <1>1, NullIsNoNode DEF Ordered
<1>3. key \in nodes /\ key \notin System /\ System \subseteq nodes /\ nodes # {key}
  <2>1. key \in nodes /\ key \notin System /\ System \subseteq nodes
    BY <1>1 DEF RemoveNode, FindMin, RemoveSwitched, Cursors, OtherCursors, MinCursor
  <2> QED
    BY <2>1, AvlAssumption
<1>4. ASSUME NEW t, Unlink(t, key), Upward(t, key) \in nodes \ {key},
             \E E : Ordered(Gone(t, key), nodes \ {key}, E, Less)
      PROVE  AvlInv'
  <2>1. tree' = Gone(t, key) /\ nodes' = nodes \ {key} /\ at' = "removeBalance"
        /\ pivot' = Upward(t, key)
    BY <1>4, UnlinkIs
  <2>2. PICK E : Ordered(tree', nodes', E, Less)
    BY <1>4, <2>1
  <2>3. OtherCursors'
    BY <1>3, <1>4, <2>1 DEF OtherCursors
  <2>4. SearchCursor(E)' /\ DownCursor(E)' /\ MinCursor(E)'
    BY <2>1 DEF SearchCursor, DownCursor, MinCursor, Searching
  <2> QED
    BY <2>2, <2>3, <2>4 DEF AvlInv, Cursors
<1>5. CASE RemoveNode
  <2>1. CASE tree.left[key] = NULL \/ tree.right[key] = NULL
    <3>1. Unlink(tree, key)
      BY <1>5, <2>1 DEF RemoveNode
    <3>2. /\ Upward(tree, key) \in nodes \ {key}
          /\ \E E : Ordered(Gone(tree, key), nodes \ {key}, E, Less)
      BY <1>1, <1>3, <2>1, GoneKeeps
    <3> QED
      BY <1>4, <3>1, <3>2
  <2>2. CASE ~(tree.left[key] = NULL \/ tree.right[key] = NULL)
    <3>1. at' = "min" /\ pivot' = tree.right[key] /\ key' = key /\ UNCHANGED <<tree, nodes>>
      BY <1>5, <2>2 DEF RemoveNode
    <3>2. tree.right[key] \in nodes /\ tree.right[key] \in D[tree.right[key]]
      <4>1. tree.right[key] \in nodes
        BY <1>1, <1>3, <2>2 DEF Ordered, Linked
      <4> QED
        BY <1>1, <4>1, ChildrenUnder DEF OnItsSides
    <3>3. MinCursor(D)'
      BY <1>3, <2>2, <3>1, <3>2 DEF MinCursor
    <3>4. SearchCursor(D)' /\ DownCursor(D)' /\ OtherCursors'
      BY <3>1 DEF SearchCursor, DownCursor, OtherCursors, Searching
    <3> QED
      BY <1>1, <3>1, <3>3, <3>4, TreeStays
  <2> QED
    BY <2>1, <2>2
<1>6. CASE FindMin \/ RemoveSwitched
  <2>1. /\ at = "min" /\ tree.right[key] # NULL /\ pivot \in D[tree.right[key]]
        /\ \A d \in D[tree.right[key]] : d \in D[pivot] \/ <<pivot, d>> \in Less
    BY <1>1, <1>6 DEF FindMin, RemoveSwitched, Cursors, MinCursor
  <2>2. tree.right[key] \in nodes
    BY <1>1, <1>3, <2>1 DEF Ordered, Linked
  <2>3. \A m \in nodes : \A c \in D[m] : c \in nodes /\ D[c] \subseteq D[m]
    BY <1>1 DEF Ordered, Subtrees
  <2>4. pivot \in nodes /\ D[pivot] \subseteq D[tree.right[key]]
    BY <2>1, <2>2, <2>3
  <2>5. D[pivot] = {pivot} \cup Under(D, tree.left[pivot]) \cup Under(D, tree.right[pivot])
    BY <1>1, <2>4 DEF Ordered, Subtrees
  <2>6. \A d \in Under(D, tree.right[pivot]) : <<pivot, d>> \in Less
    BY <1>1, <2>4 DEF Ordered, Sorted
  <2>7. CASE FindMin
    <3>1. UNCHANGED <<tree, nodes, at, key>> /\ tree.left[pivot] # NULL /\ pivot' = tree.left[pivot]
      BY <2>7 DEF FindMin
    <3>2. PICK l : l = tree.left[pivot]
      OBVIOUS
    <3>3. l \in D[pivot] /\ l \in nodes /\ l \in D[l] /\ <<l, pivot>> \in Less /\ Under(D, l) = D[l]
      <4>1. OnItsSides(tree, nodes, D, Less, pivot)
        BY <1>1, <2>4, ChildrenUnder
      <4>2. l \in D[pivot] /\ l \in nodes /\ \A c \in D[l] : <<c, pivot>> \in Less
        BY <3>1, <3>2, <4>1 DEF OnItsSides
      <4>3. l \in D[l]
        BY <1>1, <4>2, ChildrenUnder DEF OnItsSides
      <4> QED
        BY <3>1, <3>2, <4>2, <4>3 DEF Under
    <3>4. ASSUME NEW d \in D[tree.right[key]] PROVE d \in D[l] \/ <<l, d>> \in Less
      <4>1. d \in Nodes /\ l \in Nodes /\ pivot \in Nodes
        BY <1>2, <2>2, <2>3, <2>4, <3>3
      <4>2. d \in D[l] \/ d = pivot \/ <<pivot, d>> \in Less
        BY <2>1, <2>5, <2>6, <3>2, <3>3
      <4>3. <<pivot, d>> \in Less => <<l, d>> \in Less
        BY <3>3, <4>1, LessAndMore DEF StrictOrder
      <4> QED
        BY <3>3, <4>2, <4>3
    <3>5. MinCursor(D)'
      BY <1>3, <2>1, <2>4, <3>1, <3>2, <3>3, <3>4 DEF MinCursor
    <3>6. SearchCursor(D)' /\ DownCursor(D)' /\ OtherCursors'
      BY <2>1, <3>1 DEF SearchCursor, DownCursor, OtherCursors, Searching
    <3> QED
      BY <1>1, <3>1, <3>5, <3>6, TreeStays
  <2>8. CASE RemoveSwitched
    <3>1. tree.left[pivot] = NULL /\ Unlink(Switch(tree, key, pivot), key)
      BY <2>8 DEF RemoveSwitched
    <3>2. LeastOnRight(tree, D, Less, key, pivot)
      BY <2>1, <2>5, <2>6, <3>1 DEF LeastOnRight, Under
    <3>3. PICK s : s = Switch(tree, key, pivot)
      OBVIOUS
    <3>4. Upward(s, key) \in nodes \ {key} /\ \E E : Ordered(Gone(s, key), nodes \ {key}, E, Less)
      BY <1>1, <1>3, <3>2, <3>3, SwitchedKeeps
    <3> QED
      BY <1>4, <3>1, <3>3, <3>4
  <2> QED
    BY <1>6, <2>7, <2>8
<1> QED
  BY <1>5, <1>6

LEMMA OrderedStep == AvlInv /\ [Next]_vars => AvlInv'
<1> SUFFICES ASSUME AvlInv, [Next]_vars PROVE AvlInv'
  OBVIOUS
<1>1. CASE Call
  BY <1>1, CallKeeps
<1>2. CASE SearchTurn \/ Found \/ NotFound
  BY <1>2, SearchKeeps
<1>3. CASE InsertFirst \/ InsertDown \/ InsertLink
  BY <1>3, InsertKeeps
<1>4. CASE InsertBalance \/ InsertUndefined \/ RemoveBalance
  BY <1>4, BalanceKeeps
<1>5. CASE RemoveNode \/ FindMin \/ RemoveSwitched
  BY <1>5, RemoveKeeps
<1>6. CASE UNCHANGED vars
  <2>1. PICK D : Ordered(tree, nodes, D, Less) /\ Cursors(D)
    BY DEF AvlInv
  <2>2. tree' = tree /\ nodes' = nodes /\ at' = at /\ key' = key /\ pivot' = pivot
    BY <1>6 DEF vars
  <2>3. SearchCursor(D)' /\ DownCursor(D)' /\ MinCursor(D)' /\ OtherCursors'
    BY <2>1, <2>2 DEF Cursors, SearchCursor, DownCursor, MinCursor, OtherCursors
  <2> QED
    BY <2>1, <2>2, <2>3, TreeStays
<1> QED
  BY <1>1, <1>2, <1>3, <1>4, <1>5, <1>6 DEF Next, Turn

\* A search for a page ends at a node of the page when the tree has one, and
\* never follows a link out of the tree, for every set of pages with any number
\* of nodes each: whatever avl_insert and avl_remove_by_addr have linked,
\* unlinked and rotated, the nodes on the left of a node are those with smaller
\* ids, or with the same and older, and those on the right the others.
THEOREM SearchesFindNodes == Spec => []SearchesAreRight
<1>1. AvlInv => SearchesAreRight
  <2> SUFFICES ASSUME AvlInv, at \in Searching
               PROVE  IF pivot = NULL THEN ~HasNode(key) ELSE pivot \in nodes
    BY DEF SearchesAreRight
  <2>1. PICK D : SearchCursor(D)
    BY DEF AvlInv, Cursors
  <2> QED
    BY <2>1 DEF SearchCursor, HasNode
<1> QED
  BY <1>1, InitOrdered, OrderedStep, PTL DEF Spec

-----------------------------------------------------------------------------
(***************************************************************************)
(* Heights.  That the tree is balanced is a condition on every node and    *)
(* its two children alone: it has its height and is in balance.  Between   *)
(* the turns of a balancing loop it holds of every node but one, of which  *)
(* one side has grown or shrunk by one; the turn at that node mends it, or *)
(* hands the difference on to its parent.                                  *)
(***************************************************************************)

\* The heights on the two sides of a node, and what its own has to be by them.
OnLeft(t, n) == Height(t, t.left[n])
OnRight(t, n) == Height(t, t.right[n])
RightAt(t, n) == t.height[n] = RealHeight(t, n) /\ Diff(t, n) \in -1..1
AllRight(t, S) == \A n \in S : RightAt(t, n)

\* Node m has in r the heights that it has in t.
Same(r, t, m) == r.height[m] = t.height[m] /\ OnLeft(r, m) = OnLeft(t, m) /\ OnRight(r, m) = OnRight(t, m)

\* The heights of the two sides of a node, and what they make of it.
LEMMA Sides ==
    ASSUME NEW t \in Trees, NEW n \in Nodes, NULL \notin Nodes
    PROVE  /\ OnLeft(t, n) \in Nat /\ OnRight(t, n) \in Nat
           /\ t.left[n] # NULL => OnLeft(t, n) = t.height[t.left[n]] /\ OnLeft(t, n) > 0
           /\ t.right[n] # NULL => OnRight(t, n) = t.height[t.right[n]] /\ OnRight(t, n) > 0
           /\ (t.left[n] = NULL => OnLeft(t, n) = 0) /\ (t.right[n] = NULL => OnRight(t, n) = 0)
           /\ Diff(t, n) = OnLeft(t, n) - OnRight(t, n)
           /\ RealHeight(t, n) = Larger(OnLeft(t, n), OnRight(t, n)) + 1
           /\ t.height[n] \in Nat \ {0}
<1>1. t.left[n] \in NodeOrNull /\ t.right[n] \in NodeOrNull /\ t.height[n] \in Nat \ {0}
  BY DEF Trees
<1>2. OnLeft(t, n) \in Nat /\ OnRight(t, n) \in Nat
  BY <1>1, HeightIsNat DEF OnLeft, OnRight
<1>3. /\ t.left[n] # NULL => OnLeft(t, n) = t.height[t.left[n]] /\ OnLeft(t, n) > 0
      /\ t.right[n] # NULL => OnRight(t, n) = t.height[t.right[n]] /\ OnRight(t, n) > 0
  BY <1>1, HeightIsNat DEF OnLeft, OnRight, Height
<1>4. (t.left[n] = NULL => OnLeft(t, n) = 0) /\ (t.right[n] = NULL => OnRight(t, n) = 0)
  BY DEF OnLeft, OnRight, Height
<1>5. Diff(t, n) = OnLeft(t, n) - OnRight(t, n) /\ RealHeight(t, n) = Larger(OnLeft(t, n), OnRight(t, n)) + 1
  BY DEF Diff, RealHeight, OnLeft, OnRight
<1> QED
  BY <1>1, <1>2, <1>3, <1>4, <1>5

\* A node that has its height and sees those of its sides as before is as right.
LEMMA SameRight ==
    ASSUME NEW t \in Trees, NEW r \in Trees, NEW m \in Nodes, NULL \notin Nodes, Same(r, t, m)
    PROVE  (RightAt(r, m) <=> RightAt(t, m)) /\ Diff(r, m) = Diff(t, m)
  BY Sides DEF Same, RightAt

\* Raise gives a node the height that it has to have, and the others keep theirs.
LEMMA RaiseHeights ==
    ASSUME NEW t \in Trees, NEW n \in Nodes, NULL \notin Nodes
    PROVE  /\ Raise(t, n).height[n] = RealHeight(t, n)
           /\ \A m \in Nodes \ {n} : Raise(t, n).height[m] = t.height[m]
  BY DEF Raise, Trees

\* r is t rotated to the left at p, as to heights.
TurnedHeights(r, t, p, x, i) ==
    /\ \A m \in Nodes \ {p, x} : r.height[m] = t.height[m]
    /\ r.height[p] = Larger(OnLeft(t, p), Height(t, i)) + 1
    /\ r.height[x] = Larger(r.height[p], OnRight(t, x)) + 1

LEMMA DoLeftHeights ==
    ASSUME NEW t \in Trees, NEW p \in Nodes, NEW x \in Nodes, x = t.right[p], x # p,
           NEW i, i = t.left[x], i # p, i # x,
           NEW g, g = t.prev[p], g # p, g # x,
           t.left[p] # p, t.left[p] # x, t.right[x] # p, t.right[x] # x, NULL \notin Nodes
    PROVE  TurnedHeights(DoLeft(t, p), t, p, x, i)
<1>1. i \in NodeOrNull /\ g \in NodeOrNull /\ p \in NodeOrNull /\ x \in NodeOrNull
      /\ t.left[p] \in NodeOrNull /\ t.right[x] \in NodeOrNull
  BY DEF Trees, NodeOrNull
<1>2. PICK u : u = Replace(t, g, p, x)
  OBVIOUS
<1>3. Replaced(u, t, g, p, x)
  BY <1>1, <1>2, ReplaceFields
<1>a. u \in Trees
  BY <1>3 DEF Replaced
<1>d. u.height = t.height
  BY <1>2 DEF Replace, Below, Trees
<1>4. PICK d : d = [u EXCEPT !.left[x] = p, !.prev[p] = x, !.right[p] = i]
  OBVIOUS
<1>5. /\ d \in Trees /\ d.height = u.height
      /\ d.left[p] = u.left[p] /\ d.left[x] = p /\ d.right[p] = i /\ d.right[x] = u.right[x]
  BY <1>1, <1>a, <1>4 DEF Trees
<1>6. PICK b : b = Below(d, i, p)
  OBVIOUS
<1>7. b \in Trees /\ b.left = d.left /\ b.right = d.right /\ b.height = d.height
  <2>1. Hung(b, d, i, p)
    BY <1>1, <1>5, <1>6, BelowFields
  <2>2. b.height = d.height
    BY <1>5, <1>6 DEF Below, Trees
  <2> QED
    BY <2>1, <2>2 DEF Hung
<1>8. PICK c : c = Raise(b, p)
  OBVIOUS
<1>9. c \in Trees /\ c.left = b.left /\ c.right = b.right
  BY <1>7, <1>8, RaiseFields
<1>10. c.height[p] = RealHeight(b, p) /\ \A m \in Nodes \ {p} : c.height[m] = t.height[m]
  BY <1>d, <1>5, <1>7, <1>8, RaiseHeights
<1>11. PICK r : r = DoLeft(t, p)
  OBVIOUS
<1>12. r = Raise(c, x)
  BY <1>2, <1>4, <1>6, <1>8, <1>11 DEF DoLeft
<1>13. r.height[x] = RealHeight(c, x) /\ \A m \in Nodes \ {x} : r.height[m] = c.height[m]
  BY <1>9, <1>12, RaiseHeights
<1>14. u.left[p] = t.left[p] /\ u.right[x] = t.right[x]
  BY <1>3, <1>1 DEF Replaced
<1>15. RealHeight(b, p) = Larger(OnLeft(t, p), Height(t, i)) + 1
  BY <1>d, <1>5, <1>7, <1>14 DEF RealHeight, OnLeft, Height
<1>16. RealHeight(c, x) = Larger(c.height[p], OnRight(t, x)) + 1
  BY <1>1, <1>5, <1>7, <1>9, <1>10, <1>14 DEF RealHeight, OnRight, Height, NodeOrNull
<1> QED
  BY <1>10, <1>11, <1>13, <1>15, <1>16 DEF TurnedHeights

\* What a rotation to the left at p, under g, makes of heights and links: x is
\* above p, the others are as they were, and g sees the height of x for that of p.
TurnedLeft(r, t, S, p, x, g) ==
    /\ r \in Trees /\ NULL \notin Nodes /\ S \subseteq Nodes /\ p \in S /\ x \in S /\ p # x /\ g # p /\ g # x
    /\ g \in S \cup {NULL}
    /\ r.left[x] = p /\ r.right[x] = t.right[x] /\ r.left[p] = t.left[p] /\ r.right[p] = t.left[x]
    /\ r.prev[p] = x /\ r.prev[x] = g
    /\ OnLeft(r, p) = OnLeft(t, p) /\ OnRight(r, p) = OnLeft(t, x)
    /\ r.height[p] = Larger(OnLeft(r, p), OnRight(r, p)) + 1
    /\ OnLeft(r, x) = r.height[p] /\ OnRight(r, x) = OnRight(t, x)
    /\ r.height[x] = Larger(OnLeft(r, x), OnRight(r, x)) + 1
    /\ \A m \in S \ {p, x, g} : Same(r, t, m) /\ r.left[m] = t.left[m] /\ r.right[m] = t.right[m]
    /\ \A m \in Nodes \ S : r.height[m] = t.height[m]
    /\ g # NULL => /\ r.height[g] = t.height[g]
                   /\ \/ /\ t.left[g] = p /\ r.left[g] = x /\ r.right[g] = t.right[g]
                         /\ OnLeft(r, g) = r.height[x] /\ OnRight(r, g) = OnRight(t, g)
                      \/ /\ t.right[g] = p /\ r.right[g] = x /\ r.left[g] = t.left[g]
                         /\ OnRight(r, g) = r.height[x] /\ OnLeft(r, g) = OnLeft(t, g)

LEMMA LeftEffect ==
    ASSUME NEW t, NEW S, NEW D, NEW lt, Ordered(t, S, D, lt), NEW p \in S,
           NEW x, x = t.right[p], x # NULL, NEW g, g = t.prev[p],
           NEW r, r = DoLeft(t, p)
    PROVE  TurnedLeft(r, t, S, p, x, g)
<1>2. PICK i : i = t.left[x]
  OBVIOUS
<1>4. AtRotation(t, S, D, lt, p, x, i, g)
  BY <1>2, RotationFacts
<1>5. NULL \notin S /\ NULL \notin Nodes /\ S \subseteq Nodes /\ t \in Trees
  BY NullIsNoNode DEF Ordered
<1>6. /\ x \in S /\ p \in S /\ g \in S \cup {NULL} /\ x # p /\ i # p /\ i # x /\ g # p /\ g # x /\ i \in S \cup {NULL}
      /\ t.prev[x] = p /\ (g # NULL => ~(t.left[g] = p /\ t.right[g] = p))
      /\ t.left[p] # x
  BY <1>4 DEF AtRotation
<1>7. RotatedLeft(r, t, p, x, i, g)
  BY <1>2, <1>5, <1>6, DoLeftFields
<1>8. \A m \in S : t.left[m] \in S \cup {NULL} /\ t.right[m] \in S \cup {NULL}
  BY DEF Ordered, Linked
<1>9. \A m \in S : /\ t.left[m] \in {p, i, x} \ {NULL} => m = t.prev[t.left[m]]
                   /\ t.right[m] \in {p, i, x} \ {NULL} => m = t.prev[t.right[m]]
  BY DEF Ordered, Linked
<1>10. t.left[p] # p /\ t.right[x] # p /\ t.right[x] # x
  BY <1>5, <1>6, <1>9
<1>11. TurnedHeights(r, t, p, x, i)
  BY <1>2, <1>5, <1>6, <1>10, DoLeftHeights
<1>12. r \in Trees /\ t.left[p] \in NodeOrNull /\ t.right[x] \in NodeOrNull /\ i \in NodeOrNull
  BY <1>5, <1>6, <1>7, <1>8 DEF RotatedLeft, Trees, NodeOrNull
<1>13. \A m \in NodeOrNull \ {p, x} : Height(r, m) = Height(t, m)
  BY <1>11 DEF TurnedHeights, Height, NodeOrNull
<1>14. /\ r.left[x] = p /\ r.right[x] = t.right[x] /\ r.left[p] = t.left[p] /\ r.right[p] = i
       /\ r.prev[p] = x /\ r.prev[x] = g
  BY <1>5, <1>6, <1>7 DEF RotatedLeft
<1>15. OnLeft(r, p) = OnLeft(t, p) /\ OnRight(r, p) = Height(t, i) /\ OnRight(r, x) = OnRight(t, x)
  BY <1>6, <1>10, <1>12, <1>13, <1>14 DEF OnLeft, OnRight
<1>16. OnLeft(r, x) = r.height[p] /\ OnLeft(t, x) = Height(t, i)
  BY <1>2, <1>5, <1>6, <1>14 DEF OnLeft, Height
<1>17. ASSUME NEW m \in S \ {p, x, g}
       PROVE  Same(r, t, m) /\ r.left[m] = t.left[m] /\ r.right[m] = t.right[m]
  <2>1. r.left[m] = t.left[m] /\ r.right[m] = t.right[m]
    BY <1>5, <1>7 DEF RotatedLeft
  <2>2. t.left[m] \in NodeOrNull \ {p, x} /\ t.right[m] \in NodeOrNull \ {p, x}
    BY <1>5, <1>6, <1>8, <1>9 DEF NodeOrNull
  <2>3. r.height[m] = t.height[m]
    BY <1>5, <1>11 DEF TurnedHeights
  <2> QED
    BY <1>13, <2>1, <2>2, <2>3 DEF Same, OnLeft, OnRight
<1>18. ASSUME g # NULL
       PROVE  /\ r.height[g] = t.height[g]
              /\ \/ /\ t.left[g] = p /\ r.left[g] = x /\ r.right[g] = t.right[g]
                    /\ OnLeft(r, g) = r.height[x] /\ OnRight(r, g) = OnRight(t, g)
                 \/ /\ t.right[g] = p /\ r.right[g] = x /\ r.left[g] = t.left[g]
                    /\ OnRight(r, g) = r.height[x] /\ OnLeft(r, g) = OnLeft(t, g)
  <2>1. g \in S /\ g \in Nodes
    BY <1>5, <1>6, <1>18
  <2>2. r.height[g] = t.height[g]
    BY <1>6, <1>11, <2>1 DEF TurnedHeights
  <2>3. t.left[g] = p \/ t.right[g] = p
    <3>1. p # t.root
      BY <1>18 DEF Ordered, Linked
    <3> QED
      BY <3>1 DEF Ordered, Linked
  <2>4. CASE t.left[g] = p
    <3>1. r.left[g] = x /\ r.right[g] = t.right[g]
      BY <1>6, <1>7, <2>1, <2>4 DEF RotatedLeft
    <3>2. t.right[g] \in NodeOrNull \ {p, x}
      BY <1>5, <1>6, <1>8, <1>9, <1>18, <2>1, <2>4 DEF NodeOrNull
    <3>3. OnLeft(r, g) = r.height[x] /\ OnRight(r, g) = OnRight(t, g)
      BY <1>5, <1>6, <1>13, <3>1, <3>2 DEF OnLeft, OnRight, Height
    <3> QED
      BY <2>2, <2>4, <3>1, <3>3
  <2>5. CASE t.left[g] # p
    <3>1. r.right[g] = x /\ r.left[g] = t.left[g]
      BY <1>6, <1>7, <2>1, <2>5 DEF RotatedLeft
    <3>2. t.left[g] \in NodeOrNull \ {p, x}
      BY <1>5, <1>6, <1>8, <1>9, <1>18, <2>1, <2>5 DEF NodeOrNull
    <3>3. OnRight(r, g) = r.height[x] /\ OnLeft(r, g) = OnLeft(t, g)
      BY <1>5, <1>6, <1>13, <3>1, <3>2 DEF OnLeft, OnRight, Height
    <3> QED
      BY <2>2, <2>3, <2>5, <3>1, <3>3
  <2> QED
    BY <2>4, <2>5
<1>19. \A m \in Nodes \ S : r.height[m] = t.height[m]
  BY <1>6, <1>11 DEF TurnedHeights
<1>20. r.height[p] = Larger(OnLeft(r, p), OnRight(r, p)) + 1 /\ r.height[x] = Larger(OnLeft(r, x), OnRight(r, x)) + 1
  BY <1>11, <1>15, <1>16 DEF TurnedHeights
<1> QED
  BY <1>2, <1>5, <1>6, <1>12, <1>14, <1>15, <1>16, <1>17, <1>18, <1>19, <1>20 DEF TurnedLeft

\* The mirrored tree has the sides the other way round.
LEMMA MirrorSides ==
    ASSUME NEW t \in Trees, NEW m \in Nodes, NULL \notin Nodes
    PROVE  /\ OnLeft(Mirror(t), m) = OnRight(t, m) /\ OnRight(Mirror(t), m) = OnLeft(t, m)
           /\ Mirror(t).height[m] = t.height[m]
           /\ Diff(Mirror(t), m) = -Diff(t, m)
           /\ RightAt(Mirror(t), m) <=> RightAt(t, m)
<1>1. PICK u : u = Mirror(t)
  OBVIOUS
<1>2. u \in Trees /\ u.left = t.right /\ u.right = t.left /\ u.height = t.height
  BY <1>1, MirrorFields
<1>3. OnLeft(u, m) = OnRight(t, m) /\ OnRight(u, m) = OnLeft(t, m) /\ u.height[m] = t.height[m]
  BY <1>2 DEF OnLeft, OnRight, Height
<1>4. OnLeft(t, m) \in Nat /\ OnRight(t, m) \in Nat /\ Diff(t, m) = OnLeft(t, m) - OnRight(t, m)
      /\ Diff(u, m) = OnLeft(u, m) - OnRight(u, m)
      /\ RealHeight(t, m) = Larger(OnLeft(t, m), OnRight(t, m)) + 1
      /\ RealHeight(u, m) = Larger(OnLeft(u, m), OnRight(u, m)) + 1
  BY <1>2, Sides
<1>5. Diff(u, m) = -Diff(t, m) /\ RealHeight(u, m) = RealHeight(t, m)
  BY <1>3, <1>4 DEF Larger
<1>6. RightAt(u, m) <=> RightAt(t, m)
  BY <1>3, <1>4, <1>5 DEF RightAt
<1> QED
  BY <1>1, <1>3, <1>5, <1>6

\* The same to the right.
TurnedRight(r, t, S, p, x, g) ==
    /\ r \in Trees /\ NULL \notin Nodes /\ S \subseteq Nodes /\ p \in S /\ x \in S /\ p # x /\ g # p /\ g # x
    /\ g \in S \cup {NULL}
    /\ r.right[x] = p /\ r.left[x] = t.left[x] /\ r.right[p] = t.right[p] /\ r.left[p] = t.right[x]
    /\ r.prev[p] = x /\ r.prev[x] = g
    /\ OnRight(r, p) = OnRight(t, p) /\ OnLeft(r, p) = OnRight(t, x)
    /\ r.height[p] = Larger(OnLeft(r, p), OnRight(r, p)) + 1
    /\ OnRight(r, x) = r.height[p] /\ OnLeft(r, x) = OnLeft(t, x)
    /\ r.height[x] = Larger(OnLeft(r, x), OnRight(r, x)) + 1
    /\ \A m \in S \ {p, x, g} : Same(r, t, m) /\ r.left[m] = t.left[m] /\ r.right[m] = t.right[m]
    /\ \A m \in Nodes \ S : r.height[m] = t.height[m]
    /\ g # NULL => /\ r.height[g] = t.height[g]
                   /\ \/ /\ t.left[g] = p /\ r.left[g] = x /\ r.right[g] = t.right[g]
                         /\ OnLeft(r, g) = r.height[x] /\ OnRight(r, g) = OnRight(t, g)
                      \/ /\ t.right[g] = p /\ r.right[g] = x /\ r.left[g] = t.left[g]
                         /\ OnRight(r, g) = r.height[x] /\ OnLeft(r, g) = OnLeft(t, g)

LEMMA LargerSwaps == \A a, b \in Nat : Larger(a, b) = Larger(b, a)
  BY DEF Larger

LEMMA RightEffect ==
    ASSUME NEW t, NEW S, NEW D, NEW lt, Ordered(t, S, D, lt), NEW p \in S,
           NEW x, x = t.left[p], x # NULL, NEW g, g = t.prev[p],
           NEW r, r = DoRight(t, p)
    PROVE  TurnedRight(r, t, S, p, x, g)
<1>1. PICK gt : Opposite(lt, gt) /\ Opposite(gt, lt)
  BY OppositeExists
<1>2. PICK m : m = Mirror(t)
  OBVIOUS
<1>3. Ordered(m, S, D, gt)
  BY <1>1, <1>2, MirrorOrdered
<1>4. t \in Trees /\ NULL \notin Nodes
  BY NullIsNoNode DEF Ordered
<1>5. m \in Trees /\ m.right = t.left /\ m.left = t.right /\ m.prev = t.prev /\ m.height = t.height
  BY <1>2, <1>4, MirrorFields
<1>6. PICK d : d = DoLeft(m, p)
  OBVIOUS
<1>7. TurnedLeft(d, m, S, p, x, g)
  BY <1>3, <1>5, <1>6, LeftEffect
<1>8. r = Mirror(d) /\ d \in Trees
  BY <1>2, <1>6, <1>7 DEF DoRight, TurnedLeft
<1>9. r \in Trees /\ r.left = d.right /\ r.right = d.left /\ r.prev = d.prev /\ r.height = d.height
  BY <1>8, MirrorFields
<1>10. \A a \in Nodes : /\ OnLeft(m, a) = OnRight(t, a) /\ OnRight(m, a) = OnLeft(t, a)
                      /\ OnLeft(r, a) = OnRight(d, a) /\ OnRight(r, a) = OnLeft(d, a)
  BY <1>2, <1>4, <1>8, MirrorSides
<1>11. S \subseteq Nodes /\ p \in S /\ x \in S /\ p # x /\ g # p /\ g # x /\ g \in S \cup {NULL}
  BY <1>7 DEF TurnedLeft
<1>12. /\ r.right[x] = p /\ r.left[x] = t.left[x] /\ r.right[p] = t.right[p] /\ r.left[p] = t.right[x]
       /\ r.prev[p] = x /\ r.prev[x] = g
  BY <1>5, <1>7, <1>9 DEF TurnedLeft
<1>13. /\ OnRight(r, p) = OnRight(t, p) /\ OnLeft(r, p) = OnRight(t, x)
       /\ OnRight(r, x) = r.height[p] /\ OnLeft(r, x) = OnLeft(t, x)
  BY <1>7, <1>9, <1>10, <1>11 DEF TurnedLeft
<1>14. /\ r.height[p] = Larger(OnRight(r, p), OnLeft(r, p)) + 1
       /\ r.height[x] = Larger(OnRight(r, x), OnLeft(r, x)) + 1
  BY <1>7, <1>9, <1>10, <1>11 DEF TurnedLeft
<1>15. /\ r.height[p] = Larger(OnLeft(r, p), OnRight(r, p)) + 1
       /\ r.height[x] = Larger(OnLeft(r, x), OnRight(r, x)) + 1
  BY <1>4, <1>9, <1>11, <1>14, Sides, LargerSwaps
<1>16. ASSUME NEW a \in S \ {p, x, g}
       PROVE  Same(r, t, a) /\ r.left[a] = t.left[a] /\ r.right[a] = t.right[a]
  BY <1>5, <1>7, <1>9, <1>10, <1>11 DEF TurnedLeft, Same
<1>17. \A a \in Nodes \ S : r.height[a] = t.height[a]
  BY <1>5, <1>7, <1>9 DEF TurnedLeft
<1>18. ASSUME g # NULL
       PROVE  /\ r.height[g] = t.height[g]
              /\ \/ /\ t.left[g] = p /\ r.left[g] = x /\ r.right[g] = t.right[g]
                    /\ OnLeft(r, g) = r.height[x] /\ OnRight(r, g) = OnRight(t, g)
                 \/ /\ t.right[g] = p /\ r.right[g] = x /\ r.left[g] = t.left[g]
                    /\ OnRight(r, g) = r.height[x] /\ OnLeft(r, g) = OnLeft(t, g)
  <2>1. g \in Nodes
    BY <1>11, <1>18
  <2> QED
    BY <1>5, <1>7, <1>9, <1>10, <1>18, <2>1 DEF TurnedLeft
<1> QED
  BY <1>4, <1>9, <1>11, <1>12, <1>13, <1>15, <1>16, <1>17, <1>18 DEF TurnedRight

\* r is t after the rotations at p, under g: every node but g has its height and
\* is in balance, and g sees height h where it saw that of p.
Landed(r, t, S, p, g, h) ==
    /\ r \in Trees
    /\ \A m \in S \ {g} : RightAt(r, m)
    /\ \A m \in Nodes \ S : r.height[m] = t.height[m]
    /\ g # NULL => /\ r.height[g] = t.height[g]
                   /\ \/ t.left[g] = p /\ OnLeft(r, g) = h /\ OnRight(r, g) = OnRight(t, g)
                      \/ t.right[g] = p /\ OnRight(r, g) = h /\ OnLeft(r, g) = OnLeft(t, g)
    /\ r.prev[p] = g \/ (r.prev[p] # NULL /\ r.prev[r.prev[p]] = g)

\* One rotation mends a node that is higher by two on the outside of its left side,
\* and a second one has nothing to do.
LEMMA SingleTurn ==
    ASSUME NEW t, NEW S, NEW D, NEW lt, Ordered(t, S, D, lt), NEW p \in S,
           NEW x, x = t.left[p], x # NULL, NEW g, g = t.prev[p],
           \A m \in S \ {p, g} : RightAt(t, m),
           OnLeft(t, p) = OnRight(t, p) + 2, Diff(t, x) \in 0..1,
           NEW r, r = DoRight(t, p)
    PROVE  /\ Landed(r, t, S, p, g, OnLeft(t, p) + 1 - Diff(t, x))
           /\ r.left[p] # NULL => Diff(r, r.left[p]) = Diff(t, t.right[x])
           /\ r.left[p] = t.right[x]
<1>1. TurnedRight(r, t, S, p, x, g)
  BY RightEffect
<1>2. t \in Trees /\ NULL \notin Nodes /\ S \subseteq Nodes /\ r \in Trees /\ x \in S /\ p # x /\ g # p /\ g # x /\ NULL \notin S
  BY <1>1, NullIsNoNode DEF Ordered, TurnedRight
<1>3. PICK a, b, c, d : a = OnLeft(t, p) /\ b = OnRight(t, p) /\ c = OnLeft(t, x) /\ d = OnRight(t, x)
  OBVIOUS
<1>4. a \in Nat /\ b \in Nat /\ c \in Nat /\ d \in Nat /\ a = t.height[x] /\ Diff(t, x) = c - d /\ a = b + 2
  BY <1>2, <1>3, Sides
<1>5. a = Larger(c, d) + 1 /\ c - d \in 0..1
  <2>1. RightAt(t, x)
    BY <1>2
  <2> QED
    BY <1>2, <1>3, <1>4, <2>1, Sides DEF RightAt
<1>6. c = a - 1 /\ d = c - (c - d) /\ a = c + 1
  BY <1>4, <1>5 DEF Larger
<1>7. OnLeft(r, p) = d /\ OnRight(r, p) = b /\ r.height[p] = d + 1 /\ RightAt(r, p)
  <2>1. OnLeft(r, p) = d /\ OnRight(r, p) = b /\ r.height[p] = Larger(d, b) + 1
    BY <1>1, <1>3 DEF TurnedRight
  <2>2. Larger(d, b) = d /\ d - b \in -1..1
    BY <1>4, <1>5, <1>6 DEF Larger
  <2> QED
    BY <1>2, <2>1, <2>2, Sides DEF RightAt
<1>8. OnLeft(r, x) = c /\ OnRight(r, x) = d + 1 /\ r.height[x] = d + 2 /\ RightAt(r, x)
  <2>1. OnLeft(r, x) = c /\ OnRight(r, x) = d + 1 /\ r.height[x] = Larger(c, d + 1) + 1
    BY <1>1, <1>3, <1>7 DEF TurnedRight
  <2>2. Larger(c, d + 1) = d + 1 /\ c - (d + 1) \in -1..1
    BY <1>4, <1>5, <1>6 DEF Larger
  <2> QED
    BY <1>2, <1>4, <2>1, <2>2, Sides DEF RightAt
<1>9. r.height[x] = OnLeft(t, p) + 1 - Diff(t, x)
  BY <1>3, <1>4, <1>5, <1>6, <1>8
<1>10. \A m \in S \ {p, x, g} : RightAt(r, m) /\ Diff(r, m) = Diff(t, m)
  <2> SUFFICES ASSUME NEW m \in S \ {p, x, g}
               PROVE  RightAt(r, m) /\ Diff(r, m) = Diff(t, m)
    OBVIOUS
  <2>1. Same(r, t, m)
    BY <1>1 DEF TurnedRight
  <2>2. RightAt(t, m)
    OBVIOUS
  <2>3. m \in Nodes
    BY <1>2
  <2> QED
    BY <1>2, <2>1, <2>2, <2>3, SameRight
<1>11. r.left[p] = t.right[x] /\ t.right[x] \in (S \ {p, x, g}) \cup {NULL}
  <2>1. t.right[x] \in S \cup {NULL} /\ (t.right[x] # NULL => t.prev[t.right[x]] = x) /\ t.prev[x] = p
    BY <1>2 DEF Ordered, Linked
  <2>2. t.right[x] # NULL => t.right[x] # x /\ t.right[x] # p /\ t.right[x] # g
    <3>1. OnItsSides(t, S, D, lt, x) /\ OnItsSides(t, S, D, lt, p)
      BY <1>2, ChildrenUnder
    <3>2. g # NULL => g \notin D[p]
      BY ParentAbove
    <3>3. ASSUME t.right[x] # NULL
          PROVE  t.right[x] \in D[x] /\ t.right[x] \in D[t.right[x]] /\ x \in D[p] /\ D[x] \subseteq D[p]
      <4>1. t.right[x] \in D[x] /\ t.right[x] \in S
        BY <3>1, <3>3 DEF OnItsSides
      <4>2. OnItsSides(t, S, D, lt, t.right[x])
        BY <4>1, ChildrenUnder
      <4>3. t.right[x] \in D[t.right[x]]
        BY <4>2 DEF OnItsSides
      <4>4. x \in D[p] /\ D[x] \subseteq D[p]
        BY <3>1 DEF OnItsSides
      <4> QED
        BY <4>1, <4>3, <4>4
    <3>4. \A e \in D[x] : e # p
      BY <3>1 DEF OnItsSides
    <3>5. t.right[x] # NULL => \A e \in D[t.right[x]] : e # x
      BY <3>1 DEF OnItsSides
    <3> QED
      BY <1>2, <3>2, <3>3, <3>4, <3>5
  <2> QED
    BY <1>1, <2>1, <2>2 DEF TurnedRight
<1>12. g # NULL => /\ r.height[g] = t.height[g]
                   /\ \/ t.left[g] = p /\ OnLeft(r, g) = r.height[x] /\ OnRight(r, g) = OnRight(t, g)
                      \/ t.right[g] = p /\ OnRight(r, g) = r.height[x] /\ OnLeft(r, g) = OnLeft(t, g)
  BY <1>1 DEF TurnedRight
<1>13. r.prev[p] # NULL /\ r.prev[r.prev[p]] = g /\ \A m \in Nodes \ S : r.height[m] = t.height[m]
  BY <1>1, <1>2 DEF TurnedRight
<1>14. \A m \in S \ {g} : RightAt(r, m)
  BY <1>7, <1>8, <1>10
<1> QED
  BY <1>2, <1>9, <1>10, <1>11, <1>12, <1>13, <1>14 DEF Landed

\* Two rotations mend one that is higher by two on the inside.
LEMMA DoubleTurnLands ==
    ASSUME NEW t, NEW S, NEW D, NEW lt, Ordered(t, S, D, lt), NEW p \in S,
           NEW x, x = t.left[p], x # NULL, NEW g, g = t.prev[p],
           \A m \in S \ {p, g} : RightAt(t, m),
           OnLeft(t, p) = OnRight(t, p) + 2, Diff(t, x) = -1,
           NEW r, r = DoRight(DoLeft(t, x), p)
    PROVE  Landed(r, t, S, p, g, OnLeft(t, p))
<1>1. PICK y : y = t.right[x]
  OBVIOUS
<1>2. x \in S /\ t.prev[x] = p /\ NULL \notin S /\ S \subseteq Nodes /\ NULL \notin Nodes /\ t \in Trees
  BY NullIsNoNode DEF Ordered, Linked
<1>3. PICK a, b, c, e, l, k :
         /\ a = OnLeft(t, p) /\ b = OnRight(t, p) /\ c = OnLeft(t, x) /\ e = OnRight(t, x)
         /\ l = OnLeft(t, y) /\ k = OnRight(t, y)
  OBVIOUS
<1>4. a \in Nat /\ b \in Nat /\ c \in Nat /\ e \in Nat /\ a = t.height[x] /\ c - e = -1 /\ a = b + 2
  BY <1>2, <1>3, Sides
<1>5. y # NULL
  <2>1. y = NULL => e = 0
    BY <1>1, <1>2, <1>3, Sides
  <2> QED
    BY <1>4, <2>1
<1>6. PICK d : d = DoLeft(t, x)
  OBVIOUS
<1>7. TurnedLeft(d, t, S, x, y, p)
  BY <1>1, <1>2, <1>5, <1>6, LeftEffect
<1>8. \E E : Ordered(d, S, E, lt)
  <2>1. Kept(d, t, S, lt, x)
    BY <1>1, <1>2, <1>5, <1>6, LeftTurn
  <2> QED
    BY <2>1 DEF Kept
<1>9. PICK E : Ordered(d, S, E, lt)
  BY <1>8
<1>10. y \in S /\ p # x /\ y # x /\ y # p /\ d \in Trees
  BY <1>7 DEF TurnedLeft
<1>11. g # NULL => g \notin D[p] /\ g # p /\ g \in S
  BY ParentAbove
<1>12. g # x /\ g # y
  <2>1. OnItsSides(t, S, D, lt, p) /\ OnItsSides(t, S, D, lt, x)
    BY <1>2, ChildrenUnder
  <2>2. x \in D[p] /\ y \in D[p]
    BY <1>1, <1>5, <2>1 DEF OnItsSides
  <2> QED
    BY <1>2, <1>5, <1>11, <2>2
<1>13. g \in S \cup {NULL} /\ g # p
  BY <1>2, <1>11 DEF Ordered, Linked
<1>14. d.prev[p] = g
  <2>1. PICK i : i = t.left[y]
    OBVIOUS
  <2>2. AtRotation(t, S, D, lt, x, y, i, p)
    BY <1>1, <1>2, <1>5, <2>1, RotationFacts
  <2>3. RotatedLeft(d, t, x, y, i, p)
    <3>1. i # x /\ i # y /\ p # x /\ p # y /\ y # x
      BY <2>2 DEF AtRotation
    <3> QED
      BY <1>1, <1>2, <1>6, <1>10, <2>1, <3>1, DoLeftFields
  <2>4. i # p
    <3>1. \A m \in S : t.left[m] # NULL => t.prev[t.left[m]] = m
      BY DEF Ordered, Linked
    <3>2. i = p => g = y
      BY <1>2, <1>10, <2>1, <3>1
    <3> QED
      BY <1>12, <3>2
  <2> QED
    BY <1>2, <1>10, <2>3, <2>4 DEF RotatedLeft
<1>15. d.left[p] = y /\ d.right[p] = t.right[p] /\ OnLeft(d, p) = d.height[y] /\ OnRight(d, p) = b
  <2>1. t.right[p] # x
    <3>1. OnItsSides(t, S, D, lt, p)
      BY ChildrenUnder
    <3>2. x \in D[x]
      BY <1>2, ChildrenUnder DEF OnItsSides
    <3>3. t.right[p] = x => <<x, p>> \in lt /\ <<p, x>> \in lt
      BY <1>2, <3>1, <3>2 DEF OnItsSides
    <3> QED
      BY <1>2, <3>3 DEF Ordered, StrictOrder
  <2>2. p # NULL
    BY <1>2
  <2> QED
    BY <1>3, <1>7, <2>1, <2>2 DEF TurnedLeft
<1>16. TurnedRight(r, d, S, p, y, g)
  BY <1>5, <1>6, <1>9, <1>14, <1>15, RightEffect
<1>17. /\ OnLeft(d, x) = c /\ OnRight(d, x) = l /\ d.height[x] = Larger(c, l) + 1
       /\ OnLeft(d, y) = d.height[x] /\ OnRight(d, y) = k
  BY <1>3, <1>7 DEF TurnedLeft
<1>18. /\ OnLeft(r, p) = k /\ OnRight(r, p) = b /\ r.height[p] = Larger(k, b) + 1
       /\ OnLeft(r, y) = d.height[x] /\ OnRight(r, y) = r.height[p]
       /\ r.height[y] = Larger(OnLeft(r, y), OnRight(r, y)) + 1
  BY <1>15, <1>16, <1>17 DEF TurnedRight
<1>19. Same(r, d, x)
  BY <1>2, <1>10, <1>12, <1>16 DEF TurnedRight
<1>20. l \in Nat /\ k \in Nat /\ e = t.height[y]
  BY <1>1, <1>2, <1>3, <1>5, <1>10, Sides
<1>21. e = Larger(l, k) + 1 /\ l - k \in -1..1 /\ a = Larger(c, e) + 1
  <2>1. RightAt(t, y) /\ RightAt(t, x)
    BY <1>2, <1>10, <1>12
  <2>2. x \in Nodes /\ y \in Nodes
    BY <1>2, <1>10
  <2>3. t.height[y] = Larger(l, k) + 1 /\ l - k \in -1..1
    BY <1>2, <1>3, <2>1, <2>2, Sides DEF RightAt
  <2>4. t.height[x] = Larger(c, e) + 1
    BY <1>2, <1>3, <2>1, <2>2, Sides DEF RightAt
  <2> QED
    BY <1>4, <1>20, <2>3, <2>4
<1>22. /\ Larger(c, l) = c /\ c - l \in 0..1 /\ Larger(k, b) = b /\ k - b \in -1..0
       /\ c = b /\ a = b + 2
  BY <1>4, <1>20, <1>21 DEF Larger
<1>23. RightAt(r, x) /\ r.height[x] = b + 1
  <2>1. OnLeft(r, x) = b /\ OnRight(r, x) = l /\ r.height[x] = b + 1
    BY <1>17, <1>19, <1>22 DEF Same
  <2>2. b - l \in -1..1 /\ Larger(b, l) = b
    BY <1>4, <1>20, <1>22
  <2>3. r \in Trees
    BY <1>16 DEF TurnedRight
  <2> QED
    BY <1>2, <2>1, <2>2, <2>3, Sides DEF RightAt
<1>24. RightAt(r, p) /\ r.height[p] = b + 1
  <2>1. OnLeft(r, p) = k /\ OnRight(r, p) = b /\ r.height[p] = b + 1 /\ r \in Trees
    BY <1>16, <1>18, <1>22 DEF TurnedRight
  <2>2. k - b \in -1..1 /\ Larger(k, b) = b
    BY <1>4, <1>20, <1>22
  <2> QED
    BY <1>2, <2>1, <2>2, Sides DEF RightAt
<1>25. RightAt(r, y) /\ r.height[y] = a
  <2>1. OnLeft(r, y) = b + 1 /\ OnRight(r, y) = b + 1 /\ r.height[y] = b + 2 /\ r \in Trees
    <3>1. OnLeft(r, y) = b + 1 /\ OnRight(r, y) = b + 1
      BY <1>17, <1>18, <1>22, <1>24
    <3>2. Larger(b + 1, b + 1) = b + 1
      BY DEF Larger
    <3>3. r.height[y] = b + 2
      BY <1>4, <1>18, <3>1, <3>2
    <3>4. r \in Trees
      BY <1>16 DEF TurnedRight
    <3> QED
      BY <3>1, <3>3, <3>4
  <2>2. Larger(b + 1, b + 1) = b + 1
    BY DEF Larger
  <2> QED
    BY <1>2, <1>4, <1>10, <2>1, <2>2, Sides DEF RightAt
<1>26. ASSUME NEW m \in S \ {p, x, y, g} PROVE RightAt(r, m)
  <2>1. Same(d, t, m) /\ Same(r, d, m)
    BY <1>7, <1>16 DEF TurnedLeft, TurnedRight
  <2>2. Same(r, t, m) /\ r \in Trees /\ m \in Nodes
    BY <1>2, <1>16, <2>1 DEF Same, TurnedRight
  <2> QED
    BY <1>2, <2>2, SameRight
<1>27. ASSUME g # NULL
       PROVE  /\ r.height[g] = t.height[g]
              /\ \/ t.left[g] = p /\ OnLeft(r, g) = a /\ OnRight(r, g) = OnRight(t, g)
                 \/ t.right[g] = p /\ OnRight(r, g) = a /\ OnLeft(r, g) = OnLeft(t, g)
  <2>1. Same(d, t, g) /\ d.left[g] = t.left[g] /\ d.right[g] = t.right[g]
    BY <1>7, <1>11, <1>12, <1>27 DEF TurnedLeft
  <2> QED
    BY <1>16, <1>25, <1>27, <2>1 DEF TurnedRight, Same
<1>28. r.prev[p] # NULL /\ r.prev[r.prev[p]] = g /\ r \in Trees
  <2>1. r.prev[p] = y /\ r.prev[y] = g /\ r \in Trees
    BY <1>16 DEF TurnedRight
  <2> QED
    BY <1>5, <2>1
<1>29. \A m \in Nodes \ S : r.height[m] = t.height[m]
  <2>1. \A m \in Nodes \ S : r.height[m] = d.height[m]
    BY <1>16 DEF TurnedRight
  <2>2. \A m \in Nodes \ S : d.height[m] = t.height[m]
    BY <1>7 DEF TurnedLeft
  <2> QED
    BY <2>1, <2>2
<1>30. \A m \in S \ {g} : RightAt(r, m)
  BY <1>23, <1>24, <1>25, <1>26
<1> QED
  BY <1>3, <1>27, <1>28, <1>29, <1>30 DEF Landed

\* A node is on one side of its parent.
LEMMA OneSide ==
    ASSUME NEW t, NEW S, NEW D, NEW lt, Ordered(t, S, D, lt), NEW p \in S, NEW g, g = t.prev[p], g # NULL
    PROVE  /\ g \in S /\ g # p
           /\ (t.left[g] = p /\ t.right[g] # p) \/ (t.right[g] = p /\ t.left[g] # p)
<1>1. g \in S /\ g # p
  BY ParentAbove
<1>2. t.left[g] = p \/ t.right[g] = p
  <2>1. p # t.root
    BY DEF Ordered, Linked
  <2> QED
    BY <2>1 DEF Ordered, Linked
<1>3. ~(t.left[g] = p /\ t.right[g] = p)
  <2>1. OnItsSides(t, S, D, lt, g) /\ p \in D[p] /\ p # NULL
    BY <1>1, ChildrenUnder, NullIsNoNode DEF Ordered, OnItsSides
  <2>2. t.left[g] = p => <<p, g>> \in lt
    BY <2>1 DEF OnItsSides
  <2>3. t.right[g] = p => <<g, p>> \in lt
    BY <2>1 DEF OnItsSides
  <2>4. p \in Nodes /\ g \in Nodes
    BY <1>1, NullIsNoNode DEF Ordered
  <2> QED
    BY <2>2, <2>3, <2>4 DEF Ordered, StrictOrder
<1> QED
  BY <1>1, <1>2, <1>3

\* What a new height of p changes.
RaisedAt(u, t, S, p, g) ==
    /\ u \in Trees /\ u.left = t.left /\ u.right = t.right /\ u.prev = t.prev /\ u.root = t.root
    /\ OnLeft(u, p) = OnLeft(t, p) /\ OnRight(u, p) = OnRight(t, p)
    /\ u.height[p] = Larger(OnLeft(t, p), OnRight(t, p)) + 1
    /\ \A m \in S \ {p, g} : Same(u, t, m)
    /\ \A m \in Nodes \ S : u.height[m] = t.height[m]
    /\ g # NULL => /\ u.height[g] = t.height[g]
                   /\ \/ t.left[g] = p /\ OnLeft(u, g) = u.height[p] /\ OnRight(u, g) = OnRight(t, g)
                      \/ t.right[g] = p /\ OnRight(u, g) = u.height[p] /\ OnLeft(u, g) = OnLeft(t, g)

LEMMA RaiseEffect ==
    ASSUME NEW t, NEW S, NEW D, NEW lt, Ordered(t, S, D, lt), NEW p \in S, NEW g, g = t.prev[p],
           NEW u, u = Raise(t, p)
    PROVE  RaisedAt(u, t, S, p, g)
<1>1. t \in Trees /\ S \subseteq Nodes /\ NULL \notin Nodes /\ p \in Nodes
  BY NullIsNoNode DEF Ordered
<1>2. u \in Trees /\ u.left = t.left /\ u.right = t.right /\ u.prev = t.prev /\ u.root = t.root
  BY <1>1, RaiseFields
<1>3. u.height[p] = Larger(OnLeft(t, p), OnRight(t, p)) + 1 /\ \A m \in Nodes \ {p} : u.height[m] = t.height[m]
  BY <1>1, RaiseHeights, Sides
<1>4. \A m \in NodeOrNull \ {p} : Height(u, m) = Height(t, m)
  BY <1>3 DEF Height, NodeOrNull
<1>5. \A m \in S : /\ t.left[m] \in NodeOrNull /\ t.right[m] \in NodeOrNull
                   /\ (t.left[m] = p \/ t.right[m] = p) => m = g
  BY <1>1 DEF Ordered, Linked, NodeOrNull
<1>6. p # g
  BY <1>1, OneSide
<1>7. \A m \in S \ {g} : OnLeft(u, m) = OnLeft(t, m) /\ OnRight(u, m) = OnRight(t, m)
  BY <1>2, <1>4, <1>5 DEF OnLeft, OnRight
<1>8. \A m \in S \ {p, g} : Same(u, t, m)
  BY <1>1, <1>3, <1>7 DEF Same
<1>9. ASSUME g # NULL
      PROVE  /\ u.height[g] = t.height[g]
             /\ \/ t.left[g] = p /\ OnLeft(u, g) = u.height[p] /\ OnRight(u, g) = OnRight(t, g)
                \/ t.right[g] = p /\ OnRight(u, g) = u.height[p] /\ OnLeft(u, g) = OnLeft(t, g)
  <2>1. g \in S /\ ((t.left[g] = p /\ t.right[g] # p) \/ (t.right[g] = p /\ t.left[g] # p))
    BY <1>9, OneSide
  <2>2. u.height[g] = t.height[g]
    BY <1>1, <1>3, <1>6, <2>1
  <2>3. Height(u, p) = u.height[p]
    BY <1>1 DEF Height
  <2> QED
    BY <1>2, <1>4, <1>5, <2>1, <2>2, <2>3 DEF OnLeft, OnRight
<1> QED
  BY <1>1, <1>2, <1>3, <1>6, <1>7, <1>8, <1>9 DEF RaisedAt

\* What lands seen from the raised tree lands seen from the tree.
LEMMA RaisedLands ==
    ASSUME NEW t, NEW S, NEW D, NEW lt, Ordered(t, S, D, lt), NEW p \in S, NEW g, g = t.prev[p],
           NEW u, u = Raise(t, p), NEW r, NEW h, Landed(r, u, S, p, g, h)
    PROVE  Landed(r, t, S, p, g, h)
<1>1. RaisedAt(u, t, S, p, g)
  BY RaiseEffect
<1>2. g # NULL => (t.left[g] = p /\ t.right[g] # p) \/ (t.right[g] = p /\ t.left[g] # p)
  BY OneSide
<1>3. \A m \in Nodes \ S : r.height[m] = t.height[m]
  BY <1>1 DEF Landed, RaisedAt
<1>4. g # NULL => /\ r.height[g] = t.height[g]
                  /\ \/ t.left[g] = p /\ OnLeft(r, g) = h /\ OnRight(r, g) = OnRight(t, g)
                     \/ t.right[g] = p /\ OnRight(r, g) = h /\ OnLeft(r, g) = OnLeft(t, g)
  BY <1>1, <1>2 DEF Landed, RaisedAt
<1> QED
  BY <1>3, <1>4 DEF Landed

LEMMA MirrorLands ==
    ASSUME NEW t \in Trees, NEW S, S \subseteq Nodes, NULL \notin Nodes, NEW p, NEW g, g \in S \cup {NULL}, NEW h,
           NEW v, v = Mirror(t), NEW w, Landed(w, v, S, p, g, h), NEW r, r = Mirror(w)
    PROVE  Landed(r, t, S, p, g, h)
<1>1. w \in Trees /\ v \in Trees /\ v.left = t.right /\ v.right = t.left /\ v.height = t.height
  BY MirrorFields DEF Landed
<1>2. r \in Trees /\ r.prev = w.prev /\ r.height = w.height
  BY <1>1, MirrorFields
<1>3. ASSUME NEW m \in Nodes
      PROVE  /\ OnLeft(v, m) = OnRight(t, m) /\ OnRight(v, m) = OnLeft(t, m)
             /\ OnLeft(r, m) = OnRight(w, m) /\ OnRight(r, m) = OnLeft(w, m)
  BY <1>1, MirrorSides
<1>8. \A m \in Nodes : RightAt(w, m) => RightAt(r, m)
  BY <1>1, MirrorSides
<1>4. \A m \in S \ {g} : RightAt(r, m)
  BY <1>8 DEF Landed
<1>5. \A m \in Nodes \ S : r.height[m] = t.height[m]
  BY <1>1, <1>2 DEF Landed
<1>6. g # NULL => /\ r.height[g] = t.height[g]
                  /\ \/ t.left[g] = p /\ OnLeft(r, g) = h /\ OnRight(r, g) = OnRight(t, g)
                     \/ t.right[g] = p /\ OnRight(r, g) = h /\ OnLeft(r, g) = OnLeft(t, g)
  <2>1. ASSUME g # NULL
        PROVE  /\ w.height[g] = v.height[g]
               /\ \/ v.left[g] = p /\ OnLeft(w, g) = h /\ OnRight(w, g) = OnRight(v, g)
                  \/ v.right[g] = p /\ OnRight(w, g) = h /\ OnLeft(w, g) = OnLeft(v, g)
    BY <2>1 DEF Landed
  <2>2. g # NULL => /\ OnLeft(v, g) = OnRight(t, g) /\ OnRight(v, g) = OnLeft(t, g)
                    /\ OnLeft(r, g) = OnRight(w, g) /\ OnRight(r, g) = OnLeft(w, g)
    BY <1>3
  <2>3. /\ r.height[g] = w.height[g] /\ v.height[g] = t.height[g]
        /\ v.left[g] = t.right[g] /\ v.right[g] = t.left[g]
    BY <1>1, <1>2
  <2> QED
    BY <2>1, <2>2, <2>3
<1>7. r.prev[p] = g \/ (r.prev[p] # NULL /\ r.prev[r.prev[p]] = g)
  BY <1>2 DEF Landed
<1> QED
  BY <1>2, <1>4, <1>5, <1>6, <1>7 DEF Landed

\* A node that is in balance is raised at most.
LEMMA BalancedLands ==
    ASSUME NEW t, NEW S, NEW D, NEW lt, Ordered(t, S, D, lt), NEW p \in S, NEW g, g = t.prev[p],
           NEW u, u = Raise(t, p), \A m \in S \ {p, g} : RightAt(t, m), Diff(t, p) \in -1..1
    PROVE  Landed(u, t, S, p, g, u.height[p])
<1>1. RaisedAt(u, t, S, p, g)
  BY RaiseEffect
<1>2. t \in Trees /\ S \subseteq Nodes /\ NULL \notin Nodes /\ u \in Trees
  BY <1>1, NullIsNoNode DEF Ordered, RaisedAt
<1>3. RightAt(u, p)
  BY <1>1, <1>2, Sides DEF RaisedAt, RightAt
<1>4. \A m \in S \ {p, g} : RightAt(u, m)
  BY <1>1, <1>2, SameRight DEF RaisedAt
<1>5. u.prev[p] = g
  BY <1>1 DEF RaisedAt
<1>6. \A m \in S \ {g} : RightAt(u, m)
  BY <1>3, <1>4
<1> QED
  BY <1>1, <1>5, <1>6 DEF RaisedAt, Landed

\* Where every node is right a turn changes nothing.
LEMMA RaiseNothing ==
    ASSUME NEW t \in Trees, NEW p \in Nodes, RightAt(t, p)
    PROVE  Raise(t, p) = t
<1>1. [t.height EXCEPT ![p] = t.height[p]] = t.height
  BY DEF Trees
<1>2. Raise(t, p) = [t EXCEPT !.height = [t.height EXCEPT ![p] = t.height[p]]]
  BY DEF Raise, RightAt, Trees
<1> QED
  BY <1>1, <1>2 DEF Trees

-----------------------------------------------------------------------------
(* The turns of __remove_balance *)

\* Until its turn comes, p may be one too high by its left side.
ShrunkLeft(t, p) ==
    \E h \in {OnLeft(t, p), OnLeft(t, p) + 1} :
        t.height[p] = Larger(h, OnRight(t, p)) + 1 /\ h - OnRight(t, p) \in -1..1
ShrunkAt(t, p) == ShrunkLeft(t, p) \/ ShrunkLeft(Mirror(t), p)

\* No second rotation follows the first at p.
OnceOnly(t, p) == ~(Diff(t, t.left[p]) >= 0 /\ Diff(DoRight(t, p), DoRight(t, p).left[p]) < 0)

\* The rotations of __remove_balance on the left, when there is no second at p.
LEMMA RemoveHeavyLands ==
    ASSUME NEW t, NEW S, NEW D, NEW lt, Ordered(t, S, D, lt), NEW p \in S, NEW g, g = t.prev[p],
           \A m \in S \ {p, g} : RightAt(t, m), OnLeft(t, p) = OnRight(t, p) + 2,
           NEW u, u = Raise(t, p), OnceOnly(t, p), NEW r, r = DiffTwice(DiffOnce(u, p), p)
    PROVE  Landed(r, t, S, p, g, OnLeft(t, p)) \/ Landed(r, t, S, p, g, OnLeft(t, p) + 1)
<1>1. t \in Trees /\ S \subseteq Nodes /\ NULL \notin Nodes /\ NULL \notin S
  BY NullIsNoNode DEF Ordered
<1>2. Ordered(u, S, D, lt) /\ u.left = t.left /\ u.right = t.right
  BY RaiseKeeps
<1>3. RaisedAt(u, t, S, p, g)
  BY RaiseEffect
<1>4. PICK x : x = t.left[p]
  OBVIOUS
<1>5. x # NULL /\ x \in S /\ x # p /\ x # g /\ p \in Nodes /\ u \in Trees /\ u.prev[p] = g
  <2>1. t.left[p] # NULL
    BY <1>1, Sides
  <2>2. x \in S /\ t.prev[x] = p
    BY <1>4, <2>1 DEF Ordered, Linked
  <2>3. x # p /\ x \in D[p]
    <3>1. OnItsSides(t, S, D, lt, p)
      BY ChildrenUnder
    <3>2. x \in D[x]
      BY <2>2, ChildrenUnder DEF OnItsSides
    <3> QED
      BY <1>4, <2>1, <3>1, <3>2 DEF OnItsSides
  <2>4. x # g
    BY <1>1, <2>2, <2>3, ParentAbove
  <2> QED
    BY <1>1, <1>3, <1>4, <2>1, <2>2, <2>3, <2>4 DEF RaisedAt
<1>6. OnLeft(u, p) = OnLeft(t, p) /\ OnRight(u, p) = OnRight(t, p) /\ OnLeft(t, p) \in Nat
  BY <1>1, <1>3, <1>5, Sides DEF RaisedAt
<1>7. \A m \in S \ {p, g} : RightAt(u, m) /\ Diff(u, m) = Diff(t, m)
  BY <1>1, <1>3, <1>5, SameRight DEF RaisedAt
<1>8. Diff(u, x) = Diff(t, x) /\ Diff(t, x) \in -1..1
  BY <1>5, <1>7 DEF RightAt
<1>9. CASE Diff(t, x) >= 0
  <2>1. PICK o : o = DoRight(u, p)
    OBVIOUS
  <2>2. PICK o1 : o1 = DoRight(t, p)
    OBVIOUS
  <2>3. Diff(u, x) \in 0..1 /\ Diff(t, x) \in 0..1
    BY <1>8, <1>9
  <2>4. /\ Landed(o, u, S, p, g, OnLeft(u, p) + 1 - Diff(u, x))
        /\ o.left[p] # NULL => Diff(o, o.left[p]) = Diff(u, u.right[x])
        /\ o.left[p] = u.right[x]
    BY <1>2, <1>4, <1>5, <1>6, <1>7, <2>1, <2>3, SingleTurn
  <2>5. /\ o1.left[p] # NULL => Diff(o1, o1.left[p]) = Diff(t, t.right[x])
        /\ o1.left[p] = t.right[x]
    BY <1>4, <1>5, <2>2, <2>3, SingleTurn
  <2>6. ~(Diff(o1, o1.left[p]) < 0)
    BY <1>4, <1>9, <2>2 DEF OnceOnly
  <2>7. ~(Diff(o, o.left[p]) < 0)
    <3>1. CASE t.right[x] = NULL
      BY <1>2, <2>4, <3>1 DEF Diff
    <3>2. CASE t.right[x] # NULL
      <4>1. t.right[x] \in S \ {p, g}
        <5>1. t.right[x] \in S
          BY <1>5, <3>2 DEF Ordered, Linked
        <5>2. OnItsSides(t, S, D, lt, x) /\ OnItsSides(t, S, D, lt, p)
          BY <1>5, ChildrenUnder
        <5>3. t.right[x] \in D[x] /\ D[x] \subseteq D[p] /\ \A e \in D[x] : e # p
          BY <1>4, <1>5, <3>2, <5>2 DEF OnItsSides
        <5>4. g # NULL => g \notin D[p]
          BY ParentAbove
        <5> QED
          BY <1>1, <5>1, <5>3, <5>4
      <4>2. Diff(u, u.right[x]) = Diff(t, t.right[x])
        BY <1>2, <1>7, <4>1
      <4> QED
        BY <1>2, <2>4, <2>5, <2>6, <3>2, <4>2
    <3> QED
      BY <3>1, <3>2
  <2>8. r = o
    BY <1>2, <1>4, <1>8, <1>9, <2>1, <2>7 DEF DiffOnce, DiffTwice
  <2>9. Landed(r, t, S, p, g, OnLeft(t, p) + 1 - Diff(t, x))
    BY <1>6, <1>8, <2>4, <2>8, RaisedLands
  <2>10. OnLeft(t, p) + 1 - Diff(t, x) \in {OnLeft(t, p), OnLeft(t, p) + 1}
    BY <1>6, <2>3
  <2> QED
    BY <2>9, <2>10
<1>10. CASE ~(Diff(t, x) >= 0)
  <2>1. Diff(u, x) = -1
    BY <1>8, <1>10
  <2>2. r = DoRight(DoLeft(u, x), p)
    BY <1>2, <1>4, <2>1 DEF DiffOnce, DiffTwice
  <2>3. Landed(r, u, S, p, g, OnLeft(u, p))
    BY <1>2, <1>4, <1>5, <1>6, <1>7, <2>1, <2>2, DoubleTurnLands
  <2> QED
    BY <1>6, <2>3, RaisedLands
<1> QED
  BY <1>9, <1>10

\* A turn of __remove_balance at a node one side of which may have shrunk: the node
\* is mended, and its parent sees the old height or one less.
LEMMA RemoveTurnLands ==
    ASSUME NEW t, NEW S, NEW D, Ordered(t, S, D, Less), NEW p \in S, NEW g, g = t.prev[p],
           \A m \in S \ {p} : RightAt(t, m), ShrunkAt(t, p), ~RotatesTwice(t, p),
           NEW r, r = RemoveTurn(t, p)
    PROVE  Landed(r, t, S, p, g, t.height[p]) \/ Landed(r, t, S, p, g, t.height[p] - 1)
<1>1. t \in Trees /\ S \subseteq Nodes /\ NULL \notin Nodes /\ NULL \notin S /\ p \in Nodes
  BY NullIsNoNode DEF Ordered
<1>2. PICK u : u = Raise(t, p)
  OBVIOUS
<1>3. RaisedAt(u, t, S, p, g)
  BY <1>2, RaiseEffect
<1>4. PICK a, b, h : a = OnLeft(t, p) /\ b = OnRight(t, p) /\ h = t.height[p]
  OBVIOUS
<1>5. /\ a \in Nat /\ b \in Nat /\ h \in Nat \ {0} /\ Diff(t, p) = a - b
      /\ u.height[p] = Larger(a, b) + 1
  BY <1>1, <1>3, <1>4, Sides DEF RaisedAt
<1>6. \/ \E c \in {a, a + 1} : h = Larger(c, b) + 1 /\ c - b \in -1..1
      \/ \E c \in {b, b + 1} : h = Larger(c, a) + 1 /\ c - a \in -1..1
  <2>1. /\ OnLeft(Mirror(t), p) = b /\ OnRight(Mirror(t), p) = a /\ Mirror(t).height[p] = h
    BY <1>1, <1>4, MirrorSides
  <2> QED
    BY <1>4, <2>1 DEF ShrunkAt, ShrunkLeft
<1>7. CASE a - b > 1
  <2>1. a = b + 2 /\ h = a + 1
    BY <1>5, <1>6, <1>7 DEF Larger
  <2>2. OnceOnly(t, p)
    BY <1>5, <1>7 DEF OnceOnly, RotatesTwice
  <2>3. r = DiffTwice(DiffOnce(u, p), p)
    BY <1>2, <1>5, <1>7 DEF RemoveTurn, Balanced, Rotated, DiffOnce, DiffTwice
  <2>4. Landed(r, t, S, p, g, a) \/ Landed(r, t, S, p, g, a + 1)
    BY <1>2, <1>4, <2>1, <2>2, <2>3, RemoveHeavyLands
  <2>5. a = h - 1 /\ a + 1 = h
    BY <1>5, <2>1
  <2> QED
    BY <1>4, <2>4, <2>5
<1>8. CASE a - b < -1
  <2>1. b = a + 2 /\ h = b + 1
    BY <1>5, <1>6, <1>8 DEF Larger
  <2>2. PICK v : v = Mirror(t)
    OBVIOUS
  <2>3. Ordered(v, S, D, More) /\ v \in Trees /\ v.prev = t.prev
    BY <1>1, <2>2, LessAndMore, MirrorOrdered, MirrorFields
  <2>4. OnLeft(v, p) = b /\ OnRight(v, p) = a /\ \A m \in Nodes : RightAt(v, m) <=> RightAt(t, m)
    BY <1>1, <1>4, <2>2, MirrorSides
  <2>5. OnceOnly(v, p)
    BY <1>5, <1>8, <2>2 DEF OnceOnly, RotatesTwice
  <2>6. PICK q : q = Raise(v, p)
    OBVIOUS
  <2>7. q = Mirror(u)
    <3>1. RealHeight(v, p) = RealHeight(t, p)
      BY <1>1, <1>4, <1>5, <2>3, <2>4, Sides, LargerSwaps
    <3> QED
      BY <1>1, <1>2, <2>2, <2>6, <3>1 DEF Raise, Mirror, Trees
  <2>8. PICK w : w = DiffTwice(DiffOnce(q, p), p)
    OBVIOUS
  <2>9. r = Mirror(w)
    <3>1. ~(Diff(t, p) > 1) /\ Diff(t, p) < -1
      BY <1>5, <1>8
    <3> QED
      BY <1>2, <2>7, <2>8, <3>1 DEF RemoveTurn, Balanced, Rotated, DiffOnce, DiffTwice
  <2>10. \A m \in S \ {p, g} : RightAt(v, m)
    BY <1>1, <2>4
  <2>11. Landed(w, v, S, p, g, b) \/ Landed(w, v, S, p, g, b + 1)
    BY <2>1, <2>3, <2>4, <2>5, <2>6, <2>8, <2>10, RemoveHeavyLands
  <2>12. g \in S \cup {NULL}
    BY DEF Ordered, Linked
  <2>13. Landed(r, t, S, p, g, b) \/ Landed(r, t, S, p, g, b + 1)
    BY <1>1, <2>2, <2>9, <2>11, <2>12, MirrorLands
  <2>14. b = h - 1 /\ b + 1 = h
    BY <1>5, <2>1
  <2> QED
    BY <1>4, <2>13, <2>14
<1>9. CASE a - b \in -1..1
  <2>1. r = u
    <3>1. ~(Diff(t, p) > 1) /\ ~(Diff(t, p) < -1)
      BY <1>5, <1>9
    <3> QED
      BY <1>2, <3>1 DEF RemoveTurn, Balanced
  <2>2. Landed(u, t, S, p, g, u.height[p])
    BY <1>2, <1>5, <1>9, BalancedLands
  <2>3. u.height[p] \in {h, h - 1}
    BY <1>5, <1>6, <1>9 DEF Larger
  <2> QED
    BY <1>4, <2>1, <2>2, <2>3
<1> QED
  BY <1>5, <1>7, <1>8, <1>9

\* Where the node is right the turn does nothing.
LEMMA RemoveTurnNothing ==
    ASSUME NEW t \in Trees, NEW p \in Nodes, RightAt(t, p)
    PROVE  RemoveTurn(t, p) = t
<1>1. Diff(t, p) \in -1..1 /\ Raise(t, p) = t
  BY RaiseNothing DEF RightAt
<1>2. ~(Diff(t, p) > 1) /\ ~(Diff(t, p) < -1)
  BY <1>1
<1> QED
  BY <1>1, <1>2 DEF RemoveTurn, Balanced

-----------------------------------------------------------------------------
(* The turns of __insert_balance *)

\* Node c is higher by one on the side of k.
Leans(t, c, k, lt) == (<<k, c>> \in lt /\ Diff(t, c) = 1) \/ (<<c, k>> \in lt /\ Diff(t, c) = -1)

\* The left side of p, where k is, has grown by one since p got its height.
GrownLeft(t, D, p, k, lt) ==
    /\ t.left[p] # NULL /\ k \in D[t.left[p]]
    /\ t.height[p] = Larger(OnLeft(t, p) - 1, OnRight(t, p)) + 1
    /\ OnLeft(t, p) - 1 - OnRight(t, p) \in -1..1
    /\ OnLeft(t, p) > 1 => Leans(t, t.left[p], k, lt)
GrownAt(t, D, p, k) == GrownLeft(t, D, p, k, Less) \/ GrownLeft(Mirror(t), D, p, k, More)

\* The rotations of __insert_balance on the left, where the key has made it grow.
LEMMA InsertHeavyLands ==
    ASSUME NEW t, NEW S, NEW D, NEW lt, Ordered(t, S, D, lt), NEW p \in S, NEW g, g = t.prev[p],
           \A m \in S \ {p, g} : RightAt(t, m), NEW k \in Nodes, GrownLeft(t, D, p, k, lt),
           OnLeft(t, p) = OnRight(t, p) + 2,
           NEW bf, bf \subseteq lt,
           \A c \in S : (<<k, c>> \in lt => <<k, c>> \in bf) /\ (<<c, k>> \in lt => <<c, k>> \in bf),
           NEW u, u = Raise(t, p), NEW r, r = TurnedTwice(TurnedOnce(u, p, k, bf), p, k, bf)
    PROVE  Landed(r, t, S, p, g, t.height[p])
<1>1. t \in Trees /\ S \subseteq Nodes /\ NULL \notin Nodes /\ NULL \notin S
  BY NullIsNoNode DEF Ordered
<1>2. Ordered(u, S, D, lt) /\ u.left = t.left /\ u.right = t.right
  BY RaiseKeeps
<1>3. RaisedAt(u, t, S, p, g)
  BY RaiseEffect
<1>4. PICK x : x = t.left[p]
  OBVIOUS
<1>5. x # NULL /\ x \in S /\ x # p /\ x # g /\ p \in Nodes /\ u \in Trees /\ u.prev[p] = g
  <2>1. t.left[p] # NULL
    BY DEF GrownLeft
  <2>2. x \in S /\ t.prev[x] = p
    BY <1>4, <2>1 DEF Ordered, Linked
  <2>3. x # p /\ x \in D[p]
    <3>1. OnItsSides(t, S, D, lt, p)
      BY ChildrenUnder
    <3>2. x \in D[x]
      BY <2>2, ChildrenUnder DEF OnItsSides
    <3> QED
      BY <1>4, <2>1, <3>1, <3>2 DEF OnItsSides
  <2>4. x # g
    BY <1>1, <2>2, <2>3, ParentAbove
  <2> QED
    BY <1>1, <1>3, <1>4, <2>1, <2>2, <2>3, <2>4 DEF RaisedAt
<1>6. /\ OnLeft(u, p) = OnLeft(t, p) /\ OnRight(u, p) = OnRight(t, p) /\ OnLeft(t, p) \in Nat
      /\ OnRight(t, p) \in Nat
  BY <1>1, <1>3, <1>5, Sides DEF RaisedAt
<1>7. \A m \in S \ {p, g} : RightAt(u, m) /\ Diff(u, m) = Diff(t, m)
  BY <1>1, <1>3, <1>5, SameRight DEF RaisedAt
<1>8. Diff(u, x) = Diff(t, x) /\ Leans(t, x, k, lt) /\ t.height[p] = OnLeft(t, p)
  BY <1>4, <1>5, <1>6, <1>7 DEF GrownLeft, Larger
<1>9. ~(<<k, x>> \in lt /\ <<x, k>> \in lt)
  BY <1>1, <1>5 DEF Ordered, StrictOrder
<1>10. CASE <<k, x>> \in lt
  <2>1. PICK o : o = DoRight(u, p)
    OBVIOUS
  <2>2. Diff(u, x) = 1
    BY <1>8, <1>9, <1>10 DEF Leans
  <2>3. Landed(o, u, S, p, g, OnLeft(u, p) + 1 - 1) /\ o.left[p] = t.right[x]
    BY <1>2, <1>4, <1>5, <1>6, <1>7, <2>1, <2>2, SingleTurn
  <2>4. ASSUME o.left[p] # NULL PROVE <<o.left[p], k>> \notin bf
    <3>1. OnItsSides(t, S, D, lt, x)
      BY <1>5, ChildrenUnder
    <3>2. o.left[p] \in S /\ \A c \in D[o.left[p]] : <<x, c>> \in lt
      BY <2>3, <2>4, <3>1 DEF OnItsSides
    <3>3. o.left[p] \in D[o.left[p]]
      BY <3>2, ChildrenUnder DEF OnItsSides
    <3>4. <<x, o.left[p]>> \in lt /\ o.left[p] \in Nodes /\ x \in Nodes
      BY <1>1, <1>5, <3>2, <3>3
    <3>5. StrictOrder(lt)
      BY DEF Ordered
    <3>6. <<k, o.left[p]>> \in lt
      BY <1>10, <3>4, <3>5 DEF StrictOrder
    <3> QED
      BY <3>4, <3>5, <3>6 DEF StrictOrder
  <2>5. r = o
    BY <1>2, <1>4, <1>5, <1>10, <2>1, <2>4 DEF TurnedOnce, TurnedTwice
  <2>6. OnLeft(u, p) + 1 - 1 = t.height[p]
    BY <1>6, <1>8
  <2> QED
    BY <2>3, <2>5, <2>6, RaisedLands
<1>11. CASE <<k, x>> \notin lt
  <2>1. Diff(u, x) = -1 /\ <<x, k>> \in lt
    BY <1>8, <1>11 DEF Leans
  <2>2. r = DoRight(DoLeft(u, x), p)
    BY <1>2, <1>4, <1>5, <1>11, <2>1 DEF TurnedOnce, TurnedTwice
  <2>3. Landed(r, u, S, p, g, OnLeft(u, p))
    BY <1>2, <1>4, <1>5, <1>6, <1>7, <2>1, <2>2, DoubleTurnLands
  <2> QED
    BY <1>6, <1>8, <2>3, RaisedLands
<1> QED
  BY <1>10, <1>11

\* The turn of the loop in the terms of an order (in the body of InsertTurn).
LEMMA InsertTurnIs ==
    ASSUME NEW t, NEW S, NEW D, Ordered(t, S, D, Less), NEW p \in S, NEW k \in Nodes,
           NEW u, u = Raise(t, p), NEW r, r = InsertTurn(t, p, k), Diff(t, p) > 1
    PROVE  r = TurnedTwice(TurnedOnce(u, p, k, PageLess), p, k, PageLess)
<1>1. NULL \notin S /\ NULL \notin Nodes /\ S \subseteq Nodes /\ t \in Trees
  BY NullIsNoNode DEF Ordered
<1>2. Ordered(u, S, D, Less) /\ u.left = t.left /\ t.left[p] # NULL
  BY <1>1, RaiseKeeps, HeavySide DEF NodeOrNull
<1>3. u.left[p] # NULL /\ u.left[p] \in Nodes
  BY <1>1, <1>2 DEF Trees, NodeOrNull
<1>4. PICK o : o = TurnedOnce(u, p, k, PageLess)
  OBVIOUS
<1>5. o = IF u.left[p] # NULL /\ Page[k] < Page[u.left[p]] THEN DoRight(u, p) ELSE u
  BY <1>3, <1>4, PageOrders DEF TurnedOnce
<1>6. \E E : Ordered(o, S, E, Less)
  <2>1. Kept(DoRight(u, p), u, S, Less, p)
    BY <1>2, <1>3, RightTurn
  <2> QED
    BY <1>2, <1>5, <2>1 DEF Kept
<1>7. o.left[p] # NULL => o.left[p] \in Nodes
  BY <1>1, <1>6, NullIsNoNode DEF Ordered, Linked
<1>8. r = IF o.left[p] # NULL /\ Page[k] > Page[o.left[p]] THEN DoRight(DoLeft(o, o.left[p]), p) ELSE o
  BY <1>5 DEF InsertTurn, Balanced, Rotated
<1>9. o.left[p] # NULL => (Page[k] > Page[o.left[p]] <=> <<o.left[p], k>> \in PageLess)
  BY <1>7, PageOrders
<1> QED
  BY <1>4, <1>8, <1>9 DEF TurnedTwice

LEMMA InsertTurnMirrored ==
    ASSUME NEW t, NEW S, NEW D, Ordered(t, S, D, Less), NEW p \in S, NEW k \in Nodes,
           NEW v, v = Mirror(t), NEW q, q = Raise(v, p),
           NEW r, r = InsertTurn(t, p, k), Diff(t, p) < -1
    PROVE  r = Mirror(TurnedTwice(TurnedOnce(q, p, k, PageMore), p, k, PageMore))
<1>1. NULL \notin S /\ NULL \notin Nodes /\ S \subseteq Nodes /\ t \in Trees /\ p \in Nodes
  BY NullIsNoNode DEF Ordered
<1>2. Ordered(v, S, D, More) /\ v \in Trees /\ v.left = t.right
  BY <1>1, LessAndMore, MirrorOrdered, MirrorFields
<1>3. Diff(v, p) = -Diff(t, p) /\ Diff(t, p) \in Int
  BY <1>1, MirrorSides, HeavySide DEF NodeOrNull
<1>4. Ordered(q, S, D, More) /\ q.left = v.left /\ v.left[p] # NULL
  <2>1. v.left[p] # NULL
    BY <1>1, <1>2, <1>3, HeavySide DEF NodeOrNull
  <2> QED
    BY <1>2, <2>1, RaiseKeeps
<1>5. q.left[p] # NULL /\ q.left[p] \in Nodes
  BY <1>1, <1>2, <1>4 DEF Trees, NodeOrNull
<1>6. q = Mirror(Raise(t, p))
  <2>1. RealHeight(v, p) = RealHeight(t, p)
    <3>1. OnLeft(v, p) = OnRight(t, p) /\ OnRight(v, p) = OnLeft(t, p)
      BY <1>1, MirrorSides
    <3> QED
      BY <1>1, <1>2, <3>1, Sides, LargerSwaps
  <2> QED
    BY <1>1, <2>1 DEF Raise, Mirror, Trees
<1>7. PICK o : o = TurnedOnce(q, p, k, PageMore)
  OBVIOUS
<1>8. o = IF q.left[p] # NULL /\ Page[k] > Page[q.left[p]] THEN DoRight(q, p) ELSE q
  BY <1>5, <1>7, PageOrders DEF TurnedOnce
<1>9. \E E : Ordered(o, S, E, More)
  <2>1. Kept(DoRight(q, p), q, S, More, p)
    BY <1>4, <1>5, RightTurn
  <2> QED
    BY <1>4, <1>8, <2>1 DEF Kept
<1>10. o.left[p] # NULL => o.left[p] \in Nodes
  BY <1>1, <1>9, NullIsNoNode DEF Ordered, Linked
<1>11. r = Mirror(IF o.left[p] # NULL /\ Page[k] < Page[o.left[p]] THEN DoRight(DoLeft(o, o.left[p]), p) ELSE o)
  <2>1. ~(Diff(t, p) > 1)
    BY <1>3
  <2> QED
    BY <1>6, <1>8, <2>1 DEF InsertTurn, Balanced, Rotated
<1>12. o.left[p] # NULL => (Page[k] < Page[o.left[p]] <=> <<o.left[p], k>> \in PageMore)
  BY <1>10, PageOrders
<1> QED
  BY <1>7, <1>11, <1>12 DEF TurnedTwice

LEMMA InsertTurnNothing ==
    ASSUME NEW t \in Trees, NEW p \in Nodes, NEW k, Diff(t, p) \in -1..1
    PROVE  InsertTurn(t, p, k) = Raise(t, p)
<1>1. ~(Diff(t, p) > 1) /\ ~(Diff(t, p) < -1)
  OBVIOUS
<1> QED
  BY <1>1 DEF InsertTurn, Balanced

\* A node leans to the key in the mirrored tree too.
LEMMA MirrorLeans ==
    ASSUME NEW t \in Trees, NEW c \in Nodes, NEW k \in Nodes, NULL \notin Nodes
    PROVE  Leans(Mirror(t), c, k, More) <=> Leans(t, c, k, Less)
<1>1. Diff(Mirror(t), c) = -Diff(t, c) /\ Diff(t, c) \in Int
  BY MirrorSides, HeavySide DEF NodeOrNull
<1>2. (<<k, c>> \in More <=> <<c, k>> \in Less) /\ (<<c, k>> \in More <=> <<k, c>> \in Less)
  BY LessAndMore DEF Opposite
<1> QED
  BY <1>1, <1>2 DEF Leans

\* The node k has its page for itself among those of S.
Alone(S, k) == \A m \in S : Page[m] = Page[k] => m = k

\* Then the two orders agree about it.
LEMMA AloneAgrees ==
    ASSUME NEW S, S \subseteq Nodes, NEW k \in Nodes, Alone(S, k)
    PROVE  \A c \in S : /\ <<k, c>> \in Less => <<k, c>> \in PageLess
                        /\ <<c, k>> \in Less => <<c, k>> \in PageLess
                        /\ <<k, c>> \in More => <<k, c>> \in PageMore
                        /\ <<c, k>> \in More => <<c, k>> \in PageMore
<1> SUFFICES ASSUME NEW c \in S
             PROVE  /\ <<k, c>> \in Less => <<k, c>> \in PageLess
                    /\ <<c, k>> \in Less => <<c, k>> \in PageLess
                    /\ <<k, c>> \in More => <<k, c>> \in PageMore
                    /\ <<c, k>> \in More => <<c, k>> \in PageMore
  OBVIOUS
<1>1. c \in Nodes /\ c \in Nat /\ k \in Nat /\ Page[c] \in Nat /\ Page[k] \in Nat
      /\ (Page[c] = Page[k] => c = k)
  BY AvlAssumption DEF Alone
<1>2. k < c => Page[k] < Page[c]
  BY <1>1, NodeOrders
<1>3. c < k => Page[c] < Page[k]
  BY <1>1, NodeOrders
<1>4. (<<k, c>> \in Less <=> k < c) /\ (<<c, k>> \in Less <=> c < k)
      /\ (<<k, c>> \in More <=> c < k) /\ (<<c, k>> \in More <=> k < c)
  BY <1>1, LessAndMore
<1>5. (<<k, c>> \in PageLess <=> Page[k] < Page[c]) /\ (<<c, k>> \in PageLess <=> Page[c] < Page[k])
      /\ (<<k, c>> \in PageMore <=> Page[c] < Page[k]) /\ (<<c, k>> \in PageMore <=> Page[k] < Page[c])
  BY <1>1, PageOrders
<1> QED
  BY <1>2, <1>3, <1>4, <1>5

\* A turn of the loop, at a node whose side has grown: the rotations undo it, or
\* the node has grown too.
LEMMA InsertTurnLands ==
    ASSUME NEW t, NEW S, NEW D, Ordered(t, S, D, Less), NEW p \in S, NEW g, g = t.prev[p], NEW k \in Nodes,
           \A m \in S \ {p} : RightAt(t, m), GrownAt(t, D, p, k), Alone(S, k),
           NEW r, r = InsertTurn(t, p, k)
    PROVE  \/ Landed(r, t, S, p, g, t.height[p])
           \/ /\ r = Raise(t, p) /\ Landed(r, t, S, p, g, t.height[p] + 1)
              /\ k \in D[p] /\ Leans(r, p, k, Less)
<1>1. t \in Trees /\ S \subseteq Nodes /\ NULL \notin Nodes /\ NULL \notin S /\ p \in Nodes
  BY NullIsNoNode DEF Ordered
<1>2. PICK u : u = Raise(t, p)
  OBVIOUS
<1>3. RaisedAt(u, t, S, p, g)
  BY <1>2, RaiseEffect
<1>4. PICK a, b, h : a = OnLeft(t, p) /\ b = OnRight(t, p) /\ h = t.height[p]
  OBVIOUS
<1>5. /\ a \in Nat /\ b \in Nat /\ h \in Nat \ {0} /\ Diff(t, p) = a - b
      /\ u \in Trees /\ u.height[p] = Larger(a, b) + 1 /\ Diff(u, p) = a - b
  BY <1>1, <1>3, <1>4, Sides DEF RaisedAt
<1>6. PICK v : v = Mirror(t)
  OBVIOUS
<1>7. /\ OnLeft(v, p) = b /\ OnRight(v, p) = a /\ v.height[p] = h /\ v \in Trees /\ v.prev = t.prev
      /\ v.left = t.right /\ \A m \in Nodes : RightAt(v, m) <=> RightAt(t, m)
  BY <1>1, <1>4, <1>6, MirrorSides, MirrorFields
<1>8. OnItsSides(t, S, D, Less, p)
  BY ChildrenUnder
<1>9. ASSUME Diff(t, p) \in -1..1 PROVE r = u /\ Landed(u, t, S, p, g, u.height[p])
  <2>1. r = u
    BY <1>1, <1>2, <1>9, InsertTurnNothing
  <2> QED
    BY <1>2, <1>9, <2>1, BalancedLands
<1>10. CASE GrownLeft(t, D, p, k, Less)
  <2>1. h = Larger(a - 1, b) + 1 /\ a - 1 - b \in -1..1 /\ t.left[p] # NULL /\ k \in D[t.left[p]]
    BY <1>4, <1>10 DEF GrownLeft
  <2>2. CASE a = b + 2
    <3>1. r = TurnedTwice(TurnedOnce(u, p, k, PageLess), p, k, PageLess)
      BY <1>2, <1>5, <2>2, InsertTurnIs
    <3> QED
      BY <1>1, <1>2, <1>4, <1>10, <2>2, <3>1, PagesAgree, AloneAgrees, InsertHeavyLands
  <2>3. CASE a = b + 1
    <3>1. u.height[p] = h + 1
      BY <1>5, <2>1, <2>3 DEF Larger
    <3>2. k \in D[p] /\ Leans(u, p, k, Less)
      BY <1>5, <1>8, <2>1, <2>3 DEF OnItsSides, Leans
    <3> QED
      BY <1>2, <1>4, <1>5, <1>9, <2>3, <3>1, <3>2
  <2>4. CASE a = b
    <3>1. u.height[p] = h
      BY <1>5, <2>1, <2>4 DEF Larger
    <3> QED
      BY <1>4, <1>5, <1>9, <2>4, <3>1
  <2> QED
    BY <1>5, <2>1, <2>2, <2>3, <2>4
<1>11. CASE GrownLeft(v, D, p, k, More)
  <2>1. h = Larger(b - 1, a) + 1 /\ b - 1 - a \in -1..1 /\ t.right[p] # NULL /\ k \in D[t.right[p]]
    BY <1>7, <1>11 DEF GrownLeft
  <2>2. CASE b = a + 2
    <3>1. PICK q : q = Raise(v, p)
      OBVIOUS
    <3>2. PICK w : w = TurnedTwice(TurnedOnce(q, p, k, PageMore), p, k, PageMore)
      OBVIOUS
    <3>3. r = Mirror(w)
      BY <1>5, <1>6, <2>2, <3>1, <3>2, InsertTurnMirrored
    <3>4. Ordered(v, S, D, More)
      BY <1>6, LessAndMore, MirrorOrdered
    <3>5. \A m \in S \ {p, g} : RightAt(v, m)
      BY <1>1, <1>7
    <3>6. Landed(w, v, S, p, g, v.height[p])
      BY <1>1, <1>7, <1>11, <2>2, <3>1, <3>2, <3>4, <3>5, PagesAgree, AloneAgrees, InsertHeavyLands
    <3>7. g \in S \cup {NULL}
      BY DEF Ordered, Linked
    <3> QED
      BY <1>1, <1>4, <1>6, <1>7, <3>3, <3>6, <3>7, MirrorLands
  <2>3. CASE b = a + 1
    <3>1. u.height[p] = h + 1
      BY <1>5, <2>1, <2>3 DEF Larger
    <3>2. k \in D[p] /\ Leans(u, p, k, Less)
      BY <1>5, <1>8, <2>1, <2>3 DEF OnItsSides, Leans
    <3> QED
      BY <1>2, <1>4, <1>5, <1>9, <2>3, <3>1, <3>2
  <2>4. CASE a = b
    <3>1. u.height[p] = h
      BY <1>5, <2>1, <2>4 DEF Larger
    <3> QED
      BY <1>4, <1>5, <1>9, <2>4, <3>1
  <2> QED
    BY <1>5, <2>1, <2>2, <2>3, <2>4
<1> QED
  BY <1>6, <1>10, <1>11 DEF GrownAt

\* ... and then so has the side of its parent.
LEMMA GrowthGoesUp ==
    ASSUME NEW t, NEW S, NEW D, Ordered(t, S, D, Less), NEW p \in S, NEW g, g = t.prev[p], g # NULL,
           NEW k \in Nodes, RightAt(t, g), NEW r, r = Raise(t, p),
           Landed(r, t, S, p, g, t.height[p] + 1), k \in D[p], Leans(r, p, k, Less)
    PROVE  GrownAt(r, D, g, k)
<1>1. t \in Trees /\ S \subseteq Nodes /\ NULL \notin Nodes /\ NULL \notin S /\ p \in Nodes /\ p # NULL
  BY NullIsNoNode DEF Ordered
<1>2. r \in Trees /\ r.left = t.left /\ r.right = t.right
  BY <1>1, RaiseFields
<1>3. g \in Nodes /\ (t.left[g] = p \/ t.right[g] = p)
  BY <1>1, OneSide
<1>4. PICK a, b, h : a = OnLeft(t, g) /\ b = OnRight(t, g) /\ h = t.height[g]
  OBVIOUS
<1>5. /\ a \in Nat /\ b \in Nat /\ h = Larger(a, b) + 1 /\ a - b \in -1..1 /\ r.height[g] = h
      /\ h = Larger(b, a) + 1
  BY <1>1, <1>3, <1>4, Sides, LargerSwaps DEF RightAt, Landed
<1>6. \/ t.left[g] = p /\ OnLeft(r, g) = a + 1 /\ OnRight(r, g) = b
      \/ t.right[g] = p /\ OnRight(r, g) = b + 1 /\ OnLeft(r, g) = a
  <2>1. (t.left[g] = p => a = t.height[p]) /\ (t.right[g] = p => b = t.height[p])
    BY <1>1, <1>3, <1>4, Sides
  <2> QED
    BY <1>4, <2>1 DEF Landed
<1>7. CASE t.left[g] = p /\ OnLeft(r, g) = a + 1 /\ OnRight(r, g) = b
  <2>1. a + 1 - 1 = a
    BY <1>5
  <2>2. GrownLeft(r, D, g, k, Less)
    BY <1>1, <1>2, <1>5, <1>7, <2>1 DEF GrownLeft
  <2> QED
    BY <2>2 DEF GrownAt
<1>8. CASE t.right[g] = p /\ OnRight(r, g) = b + 1 /\ OnLeft(r, g) = a
  <2>1. b + 1 - 1 = b
    BY <1>5
  <2>2. PICK v : v = Mirror(r)
    OBVIOUS
  <2>3. v.left = t.right /\ v.height[g] = h /\ OnLeft(v, g) = b + 1 /\ OnRight(v, g) = a
    BY <1>1, <1>2, <1>3, <1>5, <1>8, <2>2, MirrorSides, MirrorFields
  <2>4. Leans(v, p, k, More)
    BY <1>1, <1>2, <2>2, MirrorLeans
  <2>5. b - a \in -1..1
    BY <1>5
  <2>6. GrownLeft(v, D, g, k, More)
    BY <1>1, <1>5, <1>8, <2>1, <2>3, <2>4, <2>5 DEF GrownLeft
  <2> QED
    BY <2>2, <2>6 DEF GrownAt
<1> QED
  BY <1>6, <1>7, <1>8

\* The node that a rotation brings up is there.
LEMMA GrownIsThere ==
    ASSUME NEW t, NEW S, NEW D, Ordered(t, S, D, Less), NEW p \in S, NEW k \in Nodes,
           GrownAt(t, D, p, k)
    PROVE  /\ Diff(t, p) > 1 => ~(Page[k] > Page[t.left[p]] /\ t.right[t.left[p]] = NULL)
           /\ Diff(t, p) < -1 => ~(Page[k] < Page[t.right[p]] /\ t.left[t.right[p]] = NULL)
<1>1. t \in Trees /\ S \subseteq Nodes /\ NULL \notin Nodes /\ p \in Nodes
  BY NullIsNoNode DEF Ordered
<1>2. PICK a, b : a = OnLeft(t, p) /\ b = OnRight(t, p)
  OBVIOUS
<1>3. a \in Nat /\ b \in Nat /\ Diff(t, p) = a - b
  BY <1>1, <1>2, Sides
<1>4. PICK v : v = Mirror(t)
  OBVIOUS
<1>5. OnLeft(v, p) = b /\ OnRight(v, p) = a /\ v.left = t.right /\ v \in Trees
  BY <1>1, <1>2, <1>4, MirrorSides, MirrorFields
<1>6. CASE GrownLeft(t, D, p, k, Less)
  <2>1. PICK x : x = t.left[p]
    OBVIOUS
  <2>2. x \in Nodes /\ a - 1 - b \in -1..1 /\ (a > 1 => Leans(t, x, k, Less))
    BY <1>1, <1>2, <1>6, <2>1 DEF GrownLeft, Trees, NodeOrNull
  <2>3. ~(Diff(t, p) < -1)
    BY <1>3, <2>2
  <2>4. ASSUME Diff(t, p) > 1, Page[k] > Page[x], t.right[x] = NULL PROVE FALSE
    <3>1. Leans(t, x, k, Less)
      BY <1>3, <2>2, <2>4
    <3>2. <<k, x>> \notin Less
      <4>1. <<k, x>> \in Less => Page[k] <= Page[x]
        BY <2>2, LessAndMore, NodeOrders
      <4> QED
        BY <2>2, <2>4, <4>1, PageIsNat
    <3>3. Diff(t, x) = -1
      BY <3>1, <3>2 DEF Leans
    <3> QED
      BY <1>1, <2>2, <2>4, <3>3, Sides
  <2> QED
    BY <2>1, <2>3, <2>4
<1>7. CASE GrownLeft(v, D, p, k, More)
  <2>1. PICK x : x = t.right[p]
    OBVIOUS
  <2>2. x \in Nodes /\ b - 1 - a \in -1..1 /\ (b > 1 => Leans(v, x, k, More))
    BY <1>1, <1>5, <1>7, <2>1 DEF GrownLeft, Trees, NodeOrNull
  <2>3. ~(Diff(t, p) > 1)
    BY <1>3, <2>2
  <2>4. ASSUME Diff(t, p) < -1, Page[k] < Page[x], t.left[x] = NULL PROVE FALSE
    <3>1. Leans(t, x, k, Less)
      BY <1>1, <1>3, <1>4, <2>2, <2>4, MirrorLeans
    <3>2. <<x, k>> \notin Less
      <4>1. <<x, k>> \in Less => Page[x] <= Page[k]
        BY <2>2, LessAndMore, NodeOrders
      <4> QED
        BY <2>2, <2>4, <4>1, PageIsNat
    <3>3. Diff(t, x) = 1
      BY <3>1, <3>2 DEF Leans
    <3> QED
      BY <1>1, <2>2, <2>4, <3>3, Sides
  <2> QED
    BY <2>1, <2>3, <2>4
<1> QED
  BY <1>4, <1>6, <1>7 DEF GrownAt

\* A subtree that has come out as high as it was leaves every node right.
LEMMA LandedRight ==
    ASSUME NEW t, NEW S, NEW D, NEW lt, Ordered(t, S, D, lt), NEW p \in S, NEW g, g = t.prev[p],
           g # NULL => RightAt(t, g), NEW r, Landed(r, t, S, p, g, t.height[p])
    PROVE  AllRight(r, S)
<1>1. NULL \notin S /\ NULL \notin Nodes /\ S \subseteq Nodes /\ t \in Trees /\ r \in Trees /\ p \in Nodes
  BY NullIsNoNode DEF Ordered, Landed
<1>2. \A m \in S \ {g} : RightAt(r, m)
  BY DEF Landed
<1>3. ASSUME g # NULL PROVE RightAt(r, g)
  <2>1. g \in S /\ g \in Nodes
    BY <1>1, <1>3, OneSide
  <2>2. /\ r.height[g] = t.height[g]
        /\ \/ t.left[g] = p /\ OnLeft(r, g) = t.height[p] /\ OnRight(r, g) = OnRight(t, g)
           \/ t.right[g] = p /\ OnRight(r, g) = t.height[p] /\ OnLeft(r, g) = OnLeft(t, g)
    BY <1>3 DEF Landed
  <2>3. Same(r, t, g)
    BY <1>1, <2>1, <2>2, Sides DEF Same
  <2> QED
    BY <1>1, <1>3, <2>1, <2>3, SameRight
<1> QED
  BY <1>1, <1>2, <1>3 DEF AllRight

\* One that has come out lower by one may leave the node above too high.
LEMMA LandedLower ==
    ASSUME NEW t, NEW S, NEW D, NEW lt, Ordered(t, S, D, lt), NEW p \in S, NEW g, g = t.prev[p],
           g # NULL, RightAt(t, g), NEW r, Landed(r, t, S, p, g, t.height[p] - 1)
    PROVE  ShrunkAt(r, g)
<1>1. NULL \notin S /\ NULL \notin Nodes /\ S \subseteq Nodes /\ t \in Trees /\ r \in Trees /\ p \in Nodes
  BY NullIsNoNode DEF Ordered, Landed
<1>2. g \in S /\ g \in Nodes
  BY <1>1, OneSide
<1>3. /\ r.height[g] = t.height[g]
      /\ \/ t.left[g] = p /\ OnLeft(r, g) = t.height[p] - 1 /\ OnRight(r, g) = OnRight(t, g)
         \/ t.right[g] = p /\ OnRight(r, g) = t.height[p] - 1 /\ OnLeft(r, g) = OnLeft(t, g)
  BY DEF Landed
<1>4. /\ t.height[g] = Larger(OnLeft(t, g), OnRight(t, g)) + 1
      /\ OnLeft(t, g) - OnRight(t, g) \in -1..1
      /\ OnLeft(t, g) \in Nat /\ OnRight(t, g) \in Nat /\ t.height[p] \in Nat
      /\ t.left[g] # NULL => OnLeft(t, g) = t.height[t.left[g]]
      /\ t.right[g] # NULL => OnRight(t, g) = t.height[t.right[g]]
  BY <1>1, <1>2, Sides DEF RightAt
<1>5. CASE t.left[g] = p /\ OnLeft(r, g) = t.height[p] - 1 /\ OnRight(r, g) = OnRight(t, g)
  <2>1. OnLeft(t, g) = t.height[p] /\ OnLeft(r, g) + 1 = OnLeft(t, g)
    BY <1>1, <1>4, <1>5
  <2>2. ShrunkLeft(r, g)
    BY <1>3, <1>4, <1>5, <2>1 DEF ShrunkLeft
  <2> QED
    BY <2>2 DEF ShrunkAt
<1>6. CASE t.right[g] = p /\ OnRight(r, g) = t.height[p] - 1 /\ OnLeft(r, g) = OnLeft(t, g)
  <2>1. OnRight(t, g) = t.height[p] /\ OnRight(r, g) + 1 = OnRight(t, g)
    BY <1>1, <1>4, <1>6
  <2>2. PICK v : v = Mirror(r)
    OBVIOUS
  <2>3. OnLeft(v, g) = OnRight(r, g) /\ OnRight(v, g) = OnLeft(r, g) /\ v.height[g] = r.height[g]
    BY <1>1, <1>2, <2>2, MirrorSides
  <2>4. Larger(OnLeft(t, g), OnRight(t, g)) = Larger(OnRight(t, g), OnLeft(t, g))
    BY <1>4, LargerSwaps
  <2>5. OnRight(t, g) - OnLeft(t, g) \in -1..1
    BY <1>4
  <2>6. OnLeft(v, g) + 1 = OnRight(t, g) /\ OnRight(v, g) = OnLeft(t, g)
        /\ v.height[g] = Larger(OnRight(t, g), OnLeft(t, g)) + 1
    BY <1>3, <1>4, <1>6, <2>1, <2>3, <2>4
  <2>7. ShrunkLeft(v, g)
    BY <2>5, <2>6 DEF ShrunkLeft
  <2> QED
    BY <2>2, <2>7 DEF ShrunkAt
<1> QED
  BY <1>3, <1>5, <1>6

\* A node that is right is one of those that may have shrunk.
LEMMA RightShrinks ==
    ASSUME NEW t \in Trees, NEW n \in Nodes, RightAt(t, n)
    PROVE  ShrunkAt(t, n)
<1>1. /\ t.height[n] = Larger(OnLeft(t, n), OnRight(t, n)) + 1
      /\ OnLeft(t, n) - OnRight(t, n) \in -1..1
  BY AvlAssumption, Sides DEF RightAt
<1> QED
  BY <1>1 DEF ShrunkAt, ShrunkLeft

-----------------------------------------------------------------------------
(* What the balancing loops find at every turn *)

\* Every node is right but p, whose subtree with k has grown.
Grown(t, S, p, k) ==
    \E D : /\ Ordered(t, S, D, Less)
           /\ \A n \in S \ {p} : RightAt(t, n)
           /\ GrownAt(t, D, p, k)

\* Every node is right but q, if it is a node, one of whose subtrees may have shrunk.
Shrunk(t, S, q) == (\A n \in S \ {q} : RightAt(t, n)) /\ (q # NULL => ShrunkAt(t, q))

Balancing == {"insertBalance", "removeBalance"}

FreeNodes == \A n \in Nodes \ nodes : tree.height[n] = 1
Defined == at # "undefined"
RightElsewhere == at \notin Balancing => AllRight(tree, nodes)
RightButGrown == at = "insertBalance" => AllRight(tree, nodes) \/ Grown(tree, nodes, pivot, key)
RightButShrunk ==
    at = "removeBalance" => \E q \in {pivot, tree.prev[pivot]} : Shrunk(tree, nodes, q)

\* No two nodes have one page, nor has the one that is on its way down.
OneEach ==
    /\ \A m, n \in nodes : Page[m] = Page[n] => m = n
    /\ at = "down" => \A n \in nodes : Page[n] # Page[key]

BalanceInv == FreeNodes /\ Defined /\ RightElsewhere /\ RightButGrown /\ RightButShrunk

\* A step that leaves the tree alone, outside the balancing loops.
LEMMA TreeStaysRight ==
    ASSUME BalanceInv, UNCHANGED <<tree, nodes>>, at \notin Balancing,
           at' \notin Balancing \cup {"undefined"}
    PROVE  BalanceInv'
<1>1. AllRight(tree, nodes) /\ FreeNodes
  BY DEF BalanceInv, RightElsewhere
<1>2. AllRight(tree, nodes)' /\ FreeNodes'
  BY <1>1 DEF AllRight, FreeNodes, RightAt
<1> QED
  BY <1>2 DEF BalanceInv, Defined, RightElsewhere, RightButGrown, RightButShrunk, Balancing

LEMMA InitBalanced == Init => BalanceInv
<1> SUFFICES ASSUME Init PROVE BalanceInv
  OBVIOUS
<1>1. nodes = {} /\ at = "idle" /\ \A n \in Nodes : tree.height[n] = 1
  BY DEF Init
<1> QED
  BY <1>1 DEF BalanceInv, FreeNodes, Defined, RightElsewhere, RightButGrown, RightButShrunk,
              Balancing, AllRight

LEMMA PlantRootRight ==
    ASSUME AvlInv, BalanceInv, InsertFirst
    PROVE  BalanceInv'
<1>1. PICK D : Ordered(tree, nodes, D, Less) /\ Cursors(D)
  BY DEF AvlInv
<1>2. /\ tree.root = NULL /\ tree' = [tree EXCEPT !.root = key] /\ nodes' = {key}
      /\ at' = "idle" /\ at = "down"
  BY DEF InsertFirst, Return
<1>3. nodes = {} /\ tree \in Trees /\ key \in Nodes /\ NULL \notin Nodes
  BY <1>1, <1>2, AvlAssumption DEF Ordered, Linked, Cursors, DownCursor
<1>4. tree'.height = tree.height /\ tree'.left = tree.left /\ tree'.right = tree.right
  BY <1>2, <1>3 DEF Trees
<1>5. tree.left[key] = NULL /\ tree.right[key] = NULL
  BY <1>1, <1>3 DEF Ordered, Linked
<1>6. \A n \in Nodes : tree.height[n] = 1
  BY <1>3 DEF BalanceInv, FreeNodes
<1>7. tree' \in Trees
  BY <1>2, <1>3 DEF Trees, NodeOrNull
<1>8. RightAt(tree', key)
  <2>1. PICK r : r = tree'
    OBVIOUS
  <2>2. r \in Trees /\ r.left[key] = NULL /\ r.right[key] = NULL /\ r.height[key] = 1
    BY <1>3, <1>4, <1>5, <1>6, <1>7, <2>1
  <2>3. OnLeft(r, key) = 0 /\ OnRight(r, key) = 0 /\ Diff(r, key) = OnLeft(r, key) - OnRight(r, key)
        /\ RealHeight(r, key) = Larger(OnLeft(r, key), OnRight(r, key)) + 1
    BY <1>3, <2>2, Sides
  <2>4. RightAt(r, key)
    BY <2>2, <2>3 DEF RightAt, Larger
  <2> QED
    BY <2>1, <2>4
<1>9. AllRight(tree, nodes)'
  BY <1>2, <1>8 DEF AllRight
<1>10. FreeNodes'
  BY <1>2, <1>4, <1>6 DEF FreeNodes
<1> QED
  BY <1>2, <1>9, <1>10 DEF BalanceInv, Defined, RightElsewhere, RightButGrown, RightButShrunk,
                          Balancing

-----------------------------------------------------------------------------
(* Insertions *)

\* r is t with the new node k below p, on the left or on the right.
HungLeft(r, t, p, k) ==
    t.left[p] = NULL /\ <<k, p>> \in Less /\ r = [t EXCEPT !.prev[k] = p, !.left[p] = k]
HungOnRight(r, t, p, k) ==
    t.right[p] = NULL /\ <<p, k>> \in Less /\ r = [t EXCEPT !.prev[k] = p, !.right[p] = k]

LEMMA HungFields ==
    ASSUME NEW t \in Trees, NEW p \in Nodes, NEW k \in Nodes, NEW r
    PROVE  /\ HungLeft(r, t, p, k) =>
                /\ r \in Trees /\ r.height = t.height /\ r.right = t.right
                /\ \A m \in Nodes : r.left[m] = IF m = p THEN k ELSE t.left[m]
           /\ HungOnRight(r, t, p, k) =>
                /\ r \in Trees /\ r.height = t.height /\ r.left = t.left
                /\ \A m \in Nodes : r.right[m] = IF m = p THEN k ELSE t.right[m]
<1>1. ASSUME r = [t EXCEPT !.prev[k] = p, !.left[p] = k]
      PROVE  /\ r \in Trees /\ r.height = t.height /\ r.right = t.right
             /\ \A m \in Nodes : r.left[m] = IF m = p THEN k ELSE t.left[m]
  BY <1>1 DEF Trees, NodeOrNull
<1>2. ASSUME r = [t EXCEPT !.prev[k] = p, !.right[p] = k]
      PROVE  /\ r \in Trees /\ r.height = t.height /\ r.left = t.left
             /\ \A m \in Nodes : r.right[m] = IF m = p THEN k ELSE t.right[m]
  BY <1>2 DEF Trees, NodeOrNull
<1> QED
  BY <1>1, <1>2 DEF HungLeft, HungOnRight

\* A new node is right, and makes its parent grow on its side.
LEMMA NewNodeGrows ==
    ASSUME NEW t, NEW S, NEW D, Ordered(t, S, D, Less), NEW p \in S, NEW k \in Nodes \ S,
           AllRight(t, S), t.height[k] = 1,
           NEW r, HungLeft(r, t, p, k) \/ HungOnRight(r, t, p, k),
           NEW E, Ordered(r, S \cup {k}, E, Less)
    PROVE  Grown(r, S \cup {k}, p, k) /\ r.height = t.height
<1>1. NULL \notin S /\ NULL \notin Nodes /\ S \subseteq Nodes /\ t \in Trees /\ p \in Nodes /\ p # k
  BY NullIsNoNode DEF Ordered
<1>2. r \in Trees /\ r.height = t.height
  BY <1>1, HungFields
<1>3. t.left[k] = NULL /\ t.right[k] = NULL
  BY DEF Ordered, Linked
<1>4. \A m \in Nodes \ {p} : r.left[m] = t.left[m] /\ r.right[m] = t.right[m]
  BY <1>1, HungFields
<1>5. ASSUME NEW m \in S, m # p PROVE RightAt(r, m)
  <2>1. Same(r, t, m)
    <3>1. r.left[m] = t.left[m] /\ r.right[m] = t.right[m]
      BY <1>1, <1>4, <1>5
    <3> QED
      BY <1>2, <3>1 DEF Same, OnLeft, OnRight, Height
  <2> QED
    BY <1>1, <1>2, <2>1, SameRight DEF AllRight
<1>6. RightAt(r, k)
  <2>1. r.left[k] = NULL /\ r.right[k] = NULL /\ r.height[k] = 1
    BY <1>1, <1>2, <1>3, <1>4
  <2>2. OnLeft(r, k) = 0 /\ OnRight(r, k) = 0 /\ Diff(r, k) = OnLeft(r, k) - OnRight(r, k)
        /\ RealHeight(r, k) = Larger(OnLeft(r, k), OnRight(r, k)) + 1
    BY <1>1, <1>2, <2>1, Sides
  <2> QED
    BY <2>1, <2>2 DEF RightAt, Larger
<1>7. k \in E[k]
  <2>1. OnItsSides(r, S \cup {k}, E, Less, k)
    BY ChildrenUnder
  <2> QED
    BY <2>1 DEF OnItsSides
<1>8. /\ t.height[p] = Larger(OnLeft(t, p), OnRight(t, p)) + 1
      /\ OnLeft(t, p) - OnRight(t, p) \in -1..1
      /\ OnLeft(t, p) \in Nat /\ OnRight(t, p) \in Nat
      /\ (t.left[p] = NULL => OnLeft(t, p) = 0) /\ (t.right[p] = NULL => OnRight(t, p) = 0)
  BY <1>1, Sides DEF RightAt, AllRight
<1>9. ASSUME HungLeft(r, t, p, k) PROVE GrownAt(r, E, p, k)
  <2>0. r.left[p] = k /\ r.right[p] = t.right[p]
    BY <1>1, <1>9, HungFields
  <2>1. t.left[p] = NULL /\ <<k, p>> \in Less /\ r.left[p] = k /\ r.right[p] = t.right[p]
    BY <1>9, <2>0 DEF HungLeft
  <2>2. OnLeft(r, p) = 1 /\ OnRight(r, p) = OnRight(t, p)
    BY <1>1, <1>2, <2>1 DEF OnLeft, OnRight, Height
  <2>3. OnLeft(r, p) - 1 = OnLeft(t, p)
    BY <1>8, <2>1, <2>2
  <2>4. GrownLeft(r, E, p, k, Less)
    BY <1>1, <1>2, <1>7, <1>8, <2>1, <2>2, <2>3 DEF GrownLeft
  <2> QED
    BY <2>4 DEF GrownAt
<1>10. ASSUME HungOnRight(r, t, p, k) PROVE GrownAt(r, E, p, k)
  <2>0. r.right[p] = k /\ r.left[p] = t.left[p]
    BY <1>1, <1>10, HungFields
  <2>1. t.right[p] = NULL /\ r.right[p] = k /\ r.left[p] = t.left[p]
    BY <1>10, <2>0 DEF HungOnRight
  <2>2. OnRight(r, p) = 1 /\ OnLeft(r, p) = OnLeft(t, p)
    BY <1>1, <1>2, <2>1 DEF OnLeft, OnRight, Height
  <2>3. PICK v : v = Mirror(r)
    OBVIOUS
  <2>4. OnLeft(v, p) = 1 /\ OnRight(v, p) = OnLeft(t, p) /\ v.height[p] = t.height[p] /\ v.left[p] = k
    BY <1>1, <1>2, <2>1, <2>2, <2>3, MirrorSides, MirrorFields
  <2>5. OnLeft(v, p) - 1 = OnRight(t, p)
    BY <1>8, <2>1, <2>4
  <2>6. Larger(OnLeft(t, p), OnRight(t, p)) = Larger(OnRight(t, p), OnLeft(t, p))
        /\ OnRight(t, p) - OnLeft(t, p) \in -1..1
    BY <1>8, LargerSwaps
  <2>7. GrownLeft(v, E, p, k, More)
    BY <1>1, <1>7, <1>8, <2>4, <2>5, <2>6 DEF GrownLeft
  <2> QED
    BY <2>3, <2>7 DEF GrownAt
<1>11. GrownAt(r, E, p, k)
  BY <1>9, <1>10
<1> QED
  BY <1>2, <1>5, <1>6, <1>11 DEF Grown

\* InsertLink starts __insert_balance where the parent of the new node has grown.
LEMMA LinkGrows ==
    ASSUME AvlInv, AvlInv', BalanceInv, InsertLink
    PROVE  BalanceInv'
<1>1. PICK D : Ordered(tree, nodes, D, Less) /\ Cursors(D)
  BY DEF AvlInv
<1>2. /\ at = "down" /\ at' = "insertBalance" /\ pivot # NULL /\ Kid(pivot, key) = NULL
      /\ nodes' = nodes \cup {key} /\ key' = key /\ pivot' = pivot
  BY DEF InsertLink
<1>3. pivot \in nodes /\ key \in Nodes \ nodes /\ nodes \subseteq Nodes
  BY <1>1, <1>2, NullIsNoNode DEF Cursors, DownCursor, Ordered
<1>4. pivot \in Nat /\ key \in Nat /\ pivot \in Nodes /\ pivot # key
  BY <1>3, AvlAssumption
<1>5. AllRight(tree, nodes) /\ FreeNodes /\ tree.height[key] = 1
  BY <1>2, <1>3 DEF BalanceInv, RightElsewhere, FreeNodes, Balancing
<1>6. PICK r : r = tree'
  OBVIOUS
<1>7. HungLeft(r, tree, pivot, key) \/ HungOnRight(r, tree, pivot, key)
  <2>1. CASE pivot > key
    <3>1. r = [tree EXCEPT !.prev[key] = pivot, !.left[pivot] = key] /\ tree.left[pivot] = NULL
      BY <1>2, <1>6, <2>1 DEF InsertLink, Kid
    <3>2. <<key, pivot>> \in Less
      BY <1>3, <1>4, <2>1, LessAndMore
    <3> QED
      BY <3>1, <3>2 DEF HungLeft
  <2>2. CASE ~(pivot > key)
    <3>1. r = [tree EXCEPT !.prev[key] = pivot, !.right[pivot] = key] /\ tree.right[pivot] = NULL
      BY <1>2, <1>6, <2>2 DEF InsertLink, Kid
    <3>2. <<pivot, key>> \in Less
      BY <1>3, <1>4, <2>2, LessAndMore
    <3> QED
      BY <3>1, <3>2 DEF HungOnRight
  <2> QED
    BY <2>1, <2>2
<1>8. PICK E : Ordered(r, nodes \cup {key}, E, Less)
  BY <1>2, <1>6 DEF AvlInv
<1>9. Grown(r, nodes \cup {key}, pivot, key) /\ r.height = tree.height
  BY <1>1, <1>3, <1>5, <1>7, <1>8, NewNodeGrows
<1>10. RightButGrown'
  BY <1>2, <1>6, <1>9 DEF RightButGrown
<1>11. FreeNodes'
  BY <1>2, <1>5, <1>6, <1>9 DEF FreeNodes
<1> QED
  BY <1>2, <1>10, <1>11 DEF BalanceInv, Defined, RightElsewhere, RightButShrunk, Balancing

\* What one turn of __insert_balance leaves.
GrowthLeft(r, t, S, p, k) ==
    /\ \A n \in Nodes \ S : r.height[n] = t.height[n]
    /\ AllRight(r, S) \/ (p # t.root /\ Grown(r, S, r.prev[p], k))

LEMMA InsertTurnLeaves ==
    ASSUME NEW t, NEW S, NEW D, Ordered(t, S, D, Less), NEW p \in S, NEW k \in Nodes,
           AllRight(t, S) \/ Grown(t, S, p, k), Alone(S, k), NEW r, r = InsertTurn(t, p, k)
    PROVE  GrowthLeft(r, t, S, p, k)
<1>1. NULL \notin S /\ NULL \notin Nodes /\ S \subseteq Nodes /\ t \in Trees /\ p \in Nodes
  BY NullIsNoNode DEF Ordered
<1>2. ASSUME AllRight(t, S) PROVE GrowthLeft(r, t, S, p, k)
  <2>1. RightAt(t, p) /\ Diff(t, p) \in -1..1
    BY <1>2 DEF AllRight, RightAt
  <2>2. r = t
    BY <1>1, <2>1, InsertTurnNothing, RaiseNothing
  <2> QED
    BY <1>2, <2>2 DEF GrowthLeft
<1>3. ASSUME Grown(t, S, p, k) PROVE GrowthLeft(r, t, S, p, k)
  <2>1. PICK E : /\ Ordered(t, S, E, Less) /\ (\A n \in S \ {p} : RightAt(t, n))
                 /\ GrownAt(t, E, p, k)
    BY <1>3 DEF Grown
  <2>2. PICK g : g = t.prev[p]
    OBVIOUS
  <2>3. g # NULL => g \in S /\ g # p /\ RightAt(t, g)
    BY <2>1, <2>2, OneSide
  <2>4. \/ Landed(r, t, S, p, g, t.height[p])
        \/ /\ r = Raise(t, p) /\ Landed(r, t, S, p, g, t.height[p] + 1)
           /\ k \in E[p] /\ Leans(r, p, k, Less)
    BY <2>1, <2>2, InsertTurnLands
  <2>5. ASSUME Landed(r, t, S, p, g, t.height[p]) PROVE GrowthLeft(r, t, S, p, k)
    <3>1. AllRight(r, S)
      BY <2>1, <2>2, <2>3, <2>5, LandedRight
    <3>2. \A n \in Nodes \ S : r.height[n] = t.height[n]
      BY <2>5 DEF Landed
    <3> QED
      BY <3>1, <3>2 DEF GrowthLeft
  <2>6. ASSUME r = Raise(t, p), Landed(r, t, S, p, g, t.height[p] + 1),
               k \in E[p], Leans(r, p, k, Less)
        PROVE  GrowthLeft(r, t, S, p, k)
    <3>1. (\A n \in Nodes \ S : r.height[n] = t.height[n]) /\ (\A n \in S \ {g} : RightAt(r, n))
      BY <2>6 DEF Landed
    <3>2. ASSUME g = NULL PROVE AllRight(r, S)
      BY <1>1, <3>1, <3>2 DEF AllRight
    <3>3. ASSUME g # NULL PROVE p # t.root /\ Grown(r, S, r.prev[p], k)
      <4>1. GrownAt(r, E, g, k)
        BY <2>1, <2>2, <2>3, <2>6, <3>3, GrowthGoesUp
      <4>2. Ordered(r, S, E, Less)
        BY <2>1, <2>6, RaiseKeeps
      <4>3. r.prev[p] = g
        BY <1>1, <2>2, <2>6, RaiseFields
      <4>4. p # t.root
        BY <1>1, <2>1, <2>2, <3>3 DEF Ordered, Linked
      <4> QED
        BY <3>1, <4>1, <4>2, <4>3, <4>4 DEF Grown
    <3> QED
      BY <3>1, <3>2, <3>3 DEF GrowthLeft
  <2> QED
    BY <2>4, <2>5, <2>6
<1> QED
  BY <1>2, <1>3

\* __insert_balance never takes the kid that is not there, and ends with a balanced tree.
LEMMA InsertTurnsRight ==
    ASSUME AvlInv, BalanceInv, OneEach, InsertBalance
    PROVE  BalanceInv'
<1>1. PICK D : Ordered(tree, nodes, D, Less) /\ Cursors(D)
  BY DEF AvlInv
<1>2. PICK r : r = InsertTurn(tree, pivot, key) /\ Up(r)
  BY DEF InsertBalance
<1>3. at = "insertBalance" /\ nodes' = nodes /\ pivot \in nodes /\ key \in Nodes /\ tree' = r
  BY <1>1, <1>2, NullIsNoNode DEF InsertBalance, Cursors, OtherCursors, Up, Ordered
<1>4. AllRight(tree, nodes) \/ Grown(tree, nodes, pivot, key)
  BY <1>3 DEF BalanceInv, RightButGrown
<1>5. GrowthLeft(r, tree, nodes, pivot, key)
  <2>1. key \in nodes
    BY <1>1, <1>3 DEF Cursors, OtherCursors
  <2>2. Alone(nodes, key)
    BY <2>1 DEF Alone, OneEach
  <2> QED
    BY <1>1, <1>2, <1>3, <1>4, <2>2, InsertTurnLeaves
<1>6. FreeNodes'
  BY <1>3, <1>5 DEF GrowthLeft, BalanceInv, FreeNodes
<1>7. CASE pivot = tree.root
  <2>1. at' = "idle"
    BY <1>2, <1>7 DEF Up, Return
  <2>2. AllRight(tree', nodes')
    BY <1>3, <1>5, <1>7 DEF GrowthLeft
  <2>3. RightElsewhere'
    BY <2>2 DEF RightElsewhere
  <2> QED
    BY <1>6, <2>1, <2>3 DEF BalanceInv, Defined, RightButGrown, RightButShrunk
<1>8. CASE pivot # tree.root
  <2>1. pivot' = r.prev[pivot] /\ at' = at /\ key' = key
    BY <1>2, <1>8 DEF Up
  <2>2. AllRight(r, nodes) \/ Grown(r, nodes, r.prev[pivot], key)
    BY <1>5 DEF GrowthLeft
  <2>3. RightButGrown'
    BY <1>3, <2>1, <2>2 DEF RightButGrown
  <2> QED
    BY <1>3, <1>6, <2>1, <2>3 DEF BalanceInv, Defined, RightElsewhere, RightButShrunk, Balancing
<1> QED
  BY <1>7, <1>8

LEMMA InsertIsDefined ==
    ASSUME AvlInv, BalanceInv
    PROVE  ~InsertUndefined
<1> SUFFICES ASSUME at = "insertBalance", FollowsNull PROVE FALSE
  BY DEF InsertUndefined
<1>1. PICK D : Ordered(tree, nodes, D, Less) /\ Cursors(D)
  BY DEF AvlInv
<1>2. pivot \in nodes /\ key \in Nodes
  BY <1>1, NullIsNoNode DEF Cursors, OtherCursors, Ordered
<1>3. CASE AllRight(tree, nodes)
  <2>1. Diff(tree, pivot) \in -1..1
    BY <1>2, <1>3 DEF AllRight, RightAt
  <2> QED
    BY <2>1 DEF FollowsNull
<1>4. CASE Grown(tree, nodes, pivot, key)
  <2>1. PICK E : Ordered(tree, nodes, E, Less) /\ GrownAt(tree, E, pivot, key)
    BY <1>4 DEF Grown
  <2>2. /\ Diff(tree, pivot) > 1 =>
            ~(Page[key] > Page[tree.left[pivot]] /\ tree.right[tree.left[pivot]] = NULL)
        /\ Diff(tree, pivot) < -1 =>
            ~(Page[key] < Page[tree.right[pivot]] /\ tree.left[tree.right[pivot]] = NULL)
    BY <1>2, <2>1, GrownIsThere
  <2> QED
    BY <2>2 DEF FollowsNull
<1> QED
  BY <1>3, <1>4 DEF BalanceInv, RightButGrown

-----------------------------------------------------------------------------
(* Removals *)

LEMMA GoneHeights ==
    ASSUME NEW t \in Trees, NEW n \in Nodes, NEW c \in NodeOrNull, NEW g \in NodeOrNull,
           NEW r, r = Cleared(Replace(t, g, n, c), n)
    PROVE  /\ r.height[n] = 1
           /\ \A m \in Nodes \ {n} : r.height[m] = t.height[m]
<1>1. PICK u : u = Replace(t, g, n, c)
  OBVIOUS
<1>2. u \in Trees
  BY <1>1, ReplaceFields DEF Replaced
<1>3. u.height = t.height
  <2>1. PICK b : b = Below(t, c, g)
    OBVIOUS
  <2>2. b \in Trees
    BY <2>1, BelowFields DEF Hung
  <2>3. b.height = t.height
    BY <2>1 DEF Below, Trees
  <2>4. u = IF g = NULL THEN [b EXCEPT !.root = c]
            ELSE IF t.left[g] = n THEN [b EXCEPT !.left[g] = c] ELSE [b EXCEPT !.right[g] = c]
    BY <1>1, <2>1 DEF Replace
  <2> QED
    BY <2>2, <2>3, <2>4 DEF Trees
<1>4. r = [u EXCEPT !.left[n] = NULL, !.right[n] = NULL, !.prev[n] = NULL, !.height[n] = 1]
  BY <1>1 DEF Cleared
<1>5. r.height = [u.height EXCEPT ![n] = 1]
  BY <1>2, <1>4 DEF Trees
<1>6. u.height \in [Nodes -> Nat \ {0}]
  BY <1>2 DEF Trees
<1> QED
  BY <1>3, <1>5, <1>6

\* The node above one that has left may be too high, and no other.
LEMMA GoneShrinks ==
    ASSUME NEW t, NEW S, NEW D, NEW lt, Ordered(t, S, D, lt), NEW n \in S,
           t.left[n] = NULL \/ t.right[n] = NULL, AllRight(t, S),
           NEW r, r = Gone(t, n)
    PROVE  /\ r.height[n] = 1 /\ \A m \in Nodes \ {n} : r.height[m] = t.height[m]
           /\ Shrunk(r, S \ {n}, t.prev[n])
           /\ t.prev[n] \in {Upward(t, n), r.prev[Upward(t, n)]}
<1>1. NULL \notin S /\ NULL \notin Nodes /\ S \subseteq Nodes /\ t \in Trees /\ n \in Nodes
  BY NullIsNoNode DEF Ordered
<1>2. PICK c : c = Taker(t, n)
  OBVIOUS
<1>3. PICK g : g = t.prev[n]
  OBVIOUS
<1>4. AtLeaving(t, S, D, n, c, g)
  BY <1>2, <1>3, LeavingFacts DEF Taker
<1>5. /\ c \in S \cup {NULL} /\ g \in S \cup {NULL} /\ c # n /\ g # n /\ (g # NULL => g # c)
      /\ t.left[n] \in {c, NULL} /\ t.right[n] \in {c, NULL} /\ (c = t.left[n] \/ c = t.right[n])
      /\ g # NULL => (t.left[g] = n <=> t.right[g] # n)
  BY <1>4 DEF AtLeaving
<1>6. c \in NodeOrNull /\ g \in NodeOrNull
  BY <1>1, <1>5 DEF NodeOrNull
<1>7. r = Cleared(Replace(t, g, n, c), n)
  BY <1>2, <1>3 DEF Gone
<1>8. Unlinked(r, t, n, c, g)
  BY <1>1, <1>5, <1>6, <1>7, UnlinkFields
<1>9. r.height[n] = 1 /\ \A m \in Nodes \ {n} : r.height[m] = t.height[m]
  BY <1>1, <1>6, <1>7, GoneHeights
<1>10. r \in Trees
  BY <1>8 DEF Unlinked
<1>11. /\ \A m \in Nodes \ {n, g} : r.left[m] = t.left[m] /\ r.right[m] = t.right[m]
       /\ g # NULL => \/ t.left[g] = n /\ r.left[g] = c /\ r.right[g] = t.right[g] /\ t.right[g] # n
                      \/ t.right[g] = n /\ r.right[g] = c /\ r.left[g] = t.left[g] /\ t.left[g] # n
       /\ c # NULL => r.prev[c] = g
  <2>1. /\ \A m \in Nodes \ {n, g} : r.left[m] = t.left[m] /\ r.right[m] = t.right[m]
        /\ c # NULL => r.prev[c] = g
    BY <1>1, <1>5, <1>8 DEF Unlinked
  <2>2. ASSUME g # NULL
        PROVE  \/ t.left[g] = n /\ r.left[g] = c /\ r.right[g] = t.right[g] /\ t.right[g] # n
               \/ t.right[g] = n /\ r.right[g] = c /\ r.left[g] = t.left[g] /\ t.left[g] # n
    <3>1. g \in Nodes
      BY <1>1, <1>5, <2>2
    <3>2. /\ r.left[g] = IF t.left[g] = n THEN c ELSE t.left[g]
          /\ r.right[g] = IF t.left[g] # n THEN c ELSE t.right[g]
      BY <1>5, <1>8, <3>1 DEF Unlinked
    <3> QED
      BY <1>5, <2>2, <3>2
  <2> QED
    BY <2>1, <2>2
<1>12. \A m \in S : t.left[m] \in S \cup {NULL} /\ t.right[m] \in S \cup {NULL}
  BY DEF Ordered, Linked
<1>13. \A m \in NodeOrNull \ {n} : Height(r, m) = Height(t, m)
  BY <1>9 DEF Height, NodeOrNull
<1>14. ASSUME NEW m \in S \ {n}, m # g PROVE RightAt(r, m)
  <2>1. t.left[m] # n /\ t.right[m] # n
    BY <1>1, <1>3, <1>14 DEF Ordered, Linked
  <2>2. t.left[m] \in NodeOrNull /\ t.right[m] \in NodeOrNull /\ m \in Nodes
    BY <1>1, <1>12 DEF NodeOrNull
  <2>3. r.left[m] = t.left[m] /\ r.right[m] = t.right[m] /\ r.height[m] = t.height[m]
    BY <1>9, <1>11, <1>14, <2>2
  <2>4. Same(r, t, m)
    BY <1>13, <2>1, <2>2, <2>3 DEF Same, OnLeft, OnRight
  <2>5. RightAt(t, m)
    BY DEF AllRight
  <2> QED
    BY <1>1, <1>10, <2>2, <2>4, <2>5, SameRight
<1>15. ASSUME g # NULL PROVE ShrunkAt(r, g)
  <2>1. g \in S /\ g \in Nodes /\ g # n
    BY <1>1, <1>5, <1>15
  <2>2. /\ t.height[g] = Larger(OnLeft(t, g), OnRight(t, g)) + 1
        /\ OnLeft(t, g) - OnRight(t, g) \in -1..1
        /\ OnLeft(t, g) \in Nat /\ OnRight(t, g) \in Nat
    BY <1>1, <2>1, Sides DEF RightAt, AllRight
  <2>3. t.height[n] = Height(t, c) + 1 /\ Height(t, c) \in Nat
    <3>1. t.height[n] = Larger(OnLeft(t, n), OnRight(t, n)) + 1
      BY <1>1, Sides DEF RightAt, AllRight
    <3>2. Height(t, NULL) = 0 /\ Height(t, c) \in Nat
      BY <1>1, <1>6, HeightIsNat DEF Height
    <3>3. OnLeft(t, n) = Height(t, t.left[n]) /\ OnRight(t, n) = Height(t, t.right[n])
      BY DEF OnLeft, OnRight
    <3>4. CASE t.left[n] = NULL
      <4>1. OnLeft(t, n) = 0 /\ OnRight(t, n) = Height(t, c)
        BY <1>5, <3>2, <3>3, <3>4
      <4> QED
        BY <3>1, <3>2, <4>1 DEF Larger
    <3>5. CASE t.right[n] = NULL
      <4>1. OnRight(t, n) = 0 /\ OnLeft(t, n) = Height(t, c)
        BY <1>5, <3>2, <3>3, <3>5
      <4> QED
        BY <3>1, <3>2, <4>1 DEF Larger
    <3> QED
      BY <3>4, <3>5
  <2>4. r.height[g] = t.height[g]
    BY <1>9, <2>1
  <2>5. Height(r, c) = Height(t, c) /\ Height(t, n) = t.height[n]
    BY <1>1, <1>5, <1>6, <1>13 DEF Height
  <2>6. t.left[g] \in NodeOrNull /\ t.right[g] \in NodeOrNull
    BY <1>1, <1>12, <2>1 DEF NodeOrNull
  <2>7. CASE t.left[g] = n /\ r.left[g] = c /\ r.right[g] = t.right[g] /\ t.right[g] # n
    <3>1. OnLeft(t, g) = OnLeft(r, g) + 1
      BY <2>3, <2>5, <2>7 DEF OnLeft
    <3>2. OnRight(r, g) = OnRight(t, g)
      BY <1>13, <2>6, <2>7 DEF OnRight
    <3>3. ShrunkLeft(r, g)
      BY <2>2, <2>4, <3>1, <3>2 DEF ShrunkLeft
    <3> QED
      BY <3>3 DEF ShrunkAt
  <2>8. CASE t.right[g] = n /\ r.right[g] = c /\ r.left[g] = t.left[g] /\ t.left[g] # n
    <3>1. OnRight(t, g) = OnRight(r, g) + 1
      BY <2>3, <2>5, <2>8 DEF OnRight
    <3>2. OnLeft(r, g) = OnLeft(t, g)
      BY <1>13, <2>6, <2>8 DEF OnLeft
    <3>3. PICK v : v = Mirror(r)
      OBVIOUS
    <3>4. OnLeft(v, g) = OnRight(r, g) /\ OnRight(v, g) = OnLeft(r, g) /\ v.height[g] = r.height[g]
      BY <1>1, <1>10, <2>1, <3>3, MirrorSides
    <3>5. Larger(OnLeft(t, g), OnRight(t, g)) = Larger(OnRight(t, g), OnLeft(t, g))
          /\ OnRight(t, g) - OnLeft(t, g) \in -1..1
      BY <2>2, LargerSwaps
    <3>6. OnLeft(v, g) + 1 = OnRight(t, g) /\ OnRight(v, g) = OnLeft(t, g)
          /\ v.height[g] = Larger(OnRight(t, g), OnLeft(t, g)) + 1
      BY <2>2, <2>4, <3>1, <3>2, <3>4, <3>5
    <3>7. ShrunkLeft(v, g)
      BY <3>5, <3>6 DEF ShrunkLeft
    <3> QED
      BY <3>3, <3>7 DEF ShrunkAt
  <2> QED
    BY <1>11, <1>15, <2>7, <2>8
<1>16. Shrunk(r, S \ {n}, g)
  BY <1>14, <1>15 DEF Shrunk
<1>17. g \in {Upward(t, n), r.prev[Upward(t, n)]}
  BY <1>2, <1>3, <1>11 DEF Upward
<1> QED
  BY <1>3, <1>9, <1>16, <1>17

\* Two nodes that change places take over the heights with the subtrees.
LEMMA SwitchedRight ==
    ASSUME NEW t, NEW S, NEW D, NEW lt, Ordered(t, S, D, lt), NEW a \in S, NEW b,
           LeastOnRight(t, D, lt, a, b), AllRight(t, S), NEW s, s = Switch(t, a, b)
    PROVE  /\ \E F, l2 : Ordered(s, S, F, l2)
           /\ s.left[a] = NULL /\ AllRight(s, S)
           /\ \A n \in Nodes \ S : s.height[n] = t.height[n]
<1>1. NULL \notin S /\ NULL \notin Nodes /\ S \subseteq Nodes /\ t \in Trees /\ a \in Nodes
  BY NullIsNoNode DEF Ordered
<1>2. b \in S /\ b \in Nodes
  <2>1. t.right[a] \in S
    BY <1>1 DEF Ordered, Linked, LeastOnRight
  <2> QED
    BY <1>1, <2>1 DEF Ordered, Subtrees, LeastOnRight
<1>3. PICK o : o = [n \in NodeOrNull |-> IF n = a THEN b ELSE IF n = b THEN a ELSE n]
  OBVIOUS
<1>4. Renaming(o, S) /\ Renamed(s, t, o)
  BY <1>1, <1>2, <1>3, SwitchRenames
<1>5. PICK F : F = [n \in Nodes |-> {d \in Nodes : o[d] \in D[o[n]]}]
  OBVIOUS
<1>6. RenamedSets(F, D, o)
  BY <1>5 DEF RenamedSets
<1>7. PICK l2 : l2 = {e \in Nodes \X Nodes : <<o[e[1]], o[e[2]]>> \in lt}
  OBVIOUS
<1>8. \A u, v \in Nodes : <<u, v>> \in l2 <=> <<o[u], o[v]>> \in lt
  BY <1>7
<1>9. Ordered(s, S, F, l2)
  BY <1>4, <1>6, <1>8, RenamedOrdered
<1>10. o[NULL] = NULL /\ o[a] = b /\ o[b] = a /\ \A n \in Nodes : n # a /\ n # b => o[n] = n
  BY <1>1, <1>2, <1>3 DEF NodeOrNull
<1>11. s.left[a] = NULL
  BY <1>1, <1>4, <1>10 DEF Renamed, LeastOnRight
<1>12. \A n \in Nodes : s.height[n] = t.height[o[n]]
  <2>1. \A n \in Nodes : s.height[n] = t.height[IF n = a THEN b ELSE IF n = b THEN a ELSE n]
    BY DEF Switch
  <2> SUFFICES ASSUME NEW n \in Nodes PROVE s.height[n] = t.height[o[n]]
    OBVIOUS
  <2>2. o[n] = IF n = a THEN b ELSE IF n = b THEN a ELSE n
    BY <1>10
  <2> QED
    BY <2>1, <2>2
<1>13. ASSUME NEW c \in NodeOrNull PROVE Height(s, o[c]) = Height(t, c)
  <2>1. CASE c = NULL
    BY <1>10, <2>1 DEF Height
  <2>2. CASE c # NULL
    <3>1. c \in Nodes /\ o[c] \in Nodes /\ o[o[c]] = c
      BY <1>4, <2>2 DEF Renaming, NodeOrNull
    <3> QED
      BY <1>1, <1>12, <2>2, <3>1 DEF Height
  <2> QED
    BY <2>1, <2>2
<1>14. ASSUME NEW m \in S PROVE RightAt(s, m)
  <2>1. PICK w : w = o[m]
    OBVIOUS
  <2>2. w \in S /\ w \in Nodes /\ m \in Nodes
    BY <1>1, <1>4, <2>1 DEF Renaming
  <2>3. t.left[w] \in NodeOrNull /\ t.right[w] \in NodeOrNull
    BY <1>1, <2>2 DEF Trees
  <2>4. s.left[m] = o[t.left[w]] /\ s.right[m] = o[t.right[w]] /\ s.height[m] = t.height[w]
    BY <1>4, <1>12, <2>1, <2>2 DEF Renamed
  <2>5. Height(s, s.left[m]) = Height(t, t.left[w]) /\ Height(s, s.right[m]) = Height(t, t.right[w])
    BY <1>13, <2>3, <2>4
  <2>6. RightAt(t, w)
    BY <2>2 DEF AllRight
  <2> QED
    BY <1>1, <2>2, <2>4, <2>5, <2>6 DEF RightAt, RealHeight, Diff
<1>15. \A n \in Nodes \ S : s.height[n] = t.height[n]
  BY <1>2, <1>10, <1>12
<1> QED
  BY <1>9, <1>11, <1>14, <1>15 DEF AllRight

\* Unlink starts __remove_balance where the parent of the node has shrunk.
LEMMA UnlinkShrinks ==
    ASSUME NEW t, NEW D, NEW lt, Ordered(t, nodes, D, lt), key \in nodes,
           t.left[key] = NULL \/ t.right[key] = NULL, AllRight(t, nodes),
           \A n \in Nodes \ nodes : t.height[n] = 1, Unlink(t, key)
    PROVE  BalanceInv'
<1>1. tree' = Gone(t, key) /\ nodes' = nodes \ {key} /\ at' = "removeBalance"
      /\ pivot' = Upward(t, key)
  BY UnlinkIs
<1>2. PICK r : r = Gone(t, key)
  OBVIOUS
<1>3. /\ r.height[key] = 1 /\ \A m \in Nodes \ {key} : r.height[m] = t.height[m]
      /\ Shrunk(r, nodes \ {key}, t.prev[key])
      /\ t.prev[key] \in {Upward(t, key), r.prev[Upward(t, key)]}
  BY <1>2, GoneShrinks
<1>4. FreeNodes'
  BY <1>1, <1>2, <1>3 DEF FreeNodes
<1>5. RightButShrunk'
  BY <1>1, <1>2, <1>3 DEF RightButShrunk
<1> QED
  BY <1>1, <1>4, <1>5 DEF BalanceInv, Defined, RightElsewhere, RightButGrown, Balancing

LEMMA RemovalShrinks ==
    ASSUME AvlInv, BalanceInv, RemoveNode \/ RemoveSwitched
    PROVE  BalanceInv'
<1>1. PICK D : Ordered(tree, nodes, D, Less) /\ Cursors(D)
  BY DEF AvlInv
<1>2. AllRight(tree, nodes) /\ FreeNodes /\ at \notin Balancing
  BY DEF BalanceInv, RightElsewhere, RemoveNode, RemoveSwitched, Balancing
<1>3. key \in nodes
  BY <1>1 DEF RemoveNode, RemoveSwitched, Cursors, OtherCursors, MinCursor
<1>4. CASE RemoveNode
  <2>1. CASE tree.left[key] = NULL \/ tree.right[key] = NULL
    <3>1. Unlink(tree, key)
      BY <1>4, <2>1 DEF RemoveNode
    <3>2. \A n \in Nodes \ nodes : tree.height[n] = 1
      BY <1>2 DEF FreeNodes
    <3> QED
      BY <1>1, <1>2, <1>3, <2>1, <3>1, <3>2, UnlinkShrinks
  <2>2. CASE ~(tree.left[key] = NULL \/ tree.right[key] = NULL)
    <3>1. at' = "min" /\ UNCHANGED <<tree, nodes>>
      BY <1>4, <2>2 DEF RemoveNode
    <3> QED
      BY <1>2, <3>1, TreeStaysRight DEF Balancing
  <2> QED
    BY <2>1, <2>2
<1>5. CASE RemoveSwitched
  <2>1. /\ at = "min" /\ tree.right[key] # NULL /\ pivot \in D[tree.right[key]]
        /\ \A d \in D[tree.right[key]] : d \in D[pivot] \/ <<pivot, d>> \in Less
        /\ tree.left[pivot] = NULL /\ Unlink(Switch(tree, key, pivot), key)
    BY <1>1, <1>5 DEF RemoveSwitched, Cursors, MinCursor
  <2>2. pivot \in nodes
    <3>1. tree.right[key] \in nodes
      BY <1>1, <1>3, <2>1 DEF Ordered, Linked
    <3> QED
      BY <1>1, <2>1, <3>1 DEF Ordered, Subtrees
  <2>3. /\ D[pivot] = {pivot} \cup Under(D, tree.left[pivot]) \cup Under(D, tree.right[pivot])
        /\ \A d \in Under(D, tree.right[pivot]) : <<pivot, d>> \in Less
    BY <1>1, <2>2 DEF Ordered, Subtrees, Sorted
  <2>4. LeastOnRight(tree, D, Less, key, pivot)
    BY <2>1, <2>3 DEF LeastOnRight, Under
  <2>5. PICK s : s = Switch(tree, key, pivot)
    OBVIOUS
  <2>6. /\ \E F, l2 : Ordered(s, nodes, F, l2)
        /\ s.left[key] = NULL /\ AllRight(s, nodes)
        /\ \A n \in Nodes \ nodes : s.height[n] = tree.height[n]
    BY <1>1, <1>2, <1>3, <2>4, <2>5, SwitchedRight
  <2>7. \A n \in Nodes \ nodes : s.height[n] = 1
    BY <1>2, <2>6 DEF FreeNodes
  <2>8. Unlink(s, key)
    BY <2>1, <2>5
  <2> QED
    BY <1>3, <2>6, <2>7, <2>8, UnlinkShrinks
<1> QED
  BY <1>4, <1>5

\* What one turn of __remove_balance leaves, when it has not rotated twice.
ShrinkLeft(r, t, S, p) ==
    /\ \A n \in Nodes \ S : r.height[n] = t.height[n]
    /\ \/ AllRight(r, S)
       \/ p # t.root /\ \E q \in {r.prev[p], r.prev[r.prev[p]]} : Shrunk(r, S, q)

LEMMA RemoveTurnLeaves ==
    ASSUME NEW t, NEW S, NEW D, Ordered(t, S, D, Less), NEW p \in S,
           NEW q \in {p, t.prev[p]}, Shrunk(t, S, q), ~RotatesTwice(t, p),
           NEW r, r = RemoveTurn(t, p)
    PROVE  ShrinkLeft(r, t, S, p)
<1>1. NULL \notin S /\ NULL \notin Nodes /\ S \subseteq Nodes /\ t \in Trees /\ p \in Nodes
  BY NullIsNoNode DEF Ordered
<1>2. PICK g : g = t.prev[p]
  OBVIOUS
<1>3. g # NULL => g \in S /\ g # p /\ p # t.root
  <2>1. g # NULL => p # t.root
    BY <1>1, <1>2 DEF Ordered, Linked
  <2> QED
    BY <1>2, <2>1, OneSide
<1>4. CASE q = p
  <2>1. (\A n \in S \ {p} : RightAt(t, n)) /\ ShrunkAt(t, p)
    BY <1>1, <1>4 DEF Shrunk
  <2>2. Landed(r, t, S, p, g, t.height[p]) \/ Landed(r, t, S, p, g, t.height[p] - 1)
    BY <1>2, <2>1, RemoveTurnLands
  <2>3. (\A n \in Nodes \ S : r.height[n] = t.height[n]) /\ (\A n \in S \ {g} : RightAt(r, n))
    BY <2>2 DEF Landed
  <2>4. ASSUME Landed(r, t, S, p, g, t.height[p]) PROVE AllRight(r, S)
    BY <1>2, <1>3, <2>1, <2>4, LandedRight
  <2>5. ASSUME g = NULL PROVE AllRight(r, S)
    BY <1>1, <2>3, <2>5 DEF AllRight
  <2>6. ASSUME g # NULL, Landed(r, t, S, p, g, t.height[p] - 1)
        PROVE  \E x \in {r.prev[p], r.prev[r.prev[p]]} : Shrunk(r, S, x)
    <3>1. ShrunkAt(r, g)
      BY <1>2, <1>3, <2>1, <2>6, LandedLower
    <3>2. Shrunk(r, S, g)
      BY <2>3, <3>1 DEF Shrunk
    <3>3. g \in {r.prev[p], r.prev[r.prev[p]]}
      BY <2>6 DEF Landed
    <3> QED
      BY <3>2, <3>3
  <2> QED
    BY <1>3, <2>2, <2>3, <2>4, <2>5, <2>6 DEF ShrinkLeft
<1>5. CASE q # p
  <2>1. q = g /\ RightAt(t, p)
    BY <1>2, <1>5 DEF Shrunk
  <2>2. r = t
    BY <1>1, <2>1, RemoveTurnNothing
  <2>3. g = NULL => AllRight(t, S)
    BY <1>1, <2>1 DEF Shrunk, AllRight
  <2> QED
    BY <1>2, <1>3, <2>1, <2>2, <2>3 DEF ShrinkLeft
<1> QED
  BY <1>4, <1>5

\* __remove_balance ends with a balanced tree, when it does not rotate twice at a node.
LEMMA RemoveTurnsRight ==
    ASSUME AvlInv, AvlInv', BalanceInv, RemoveBalance, ~RotatesTwice(tree, pivot)
    PROVE  BalanceInv'
<1>1. PICK D : Ordered(tree, nodes, D, Less) /\ Cursors(D)
  BY DEF AvlInv
<1>2. PICK r : r = RemoveTurn(tree, pivot) /\ Up(r)
  BY DEF RemoveBalance
<1>3. at = "removeBalance" /\ nodes' = nodes /\ pivot \in nodes /\ tree' = r
  BY <1>1, <1>2 DEF RemoveBalance, Cursors, OtherCursors, Up
<1>4. PICK q \in {pivot, tree.prev[pivot]} : Shrunk(tree, nodes, q)
  BY <1>3 DEF BalanceInv, RightButShrunk
<1>5. ShrinkLeft(r, tree, nodes, pivot)
  BY <1>1, <1>2, <1>3, <1>4, RemoveTurnLeaves
<1>6. FreeNodes'
  BY <1>3, <1>5 DEF ShrinkLeft, BalanceInv, FreeNodes
<1>7. CASE pivot = tree.root
  <2>1. at' = "idle"
    BY <1>2, <1>7 DEF Up, Return
  <2>2. AllRight(tree', nodes')
    BY <1>3, <1>5, <1>7 DEF ShrinkLeft
  <2>3. RightElsewhere'
    BY <2>2 DEF RightElsewhere
  <2> QED
    BY <1>6, <2>1, <2>3 DEF BalanceInv, Defined, RightButGrown, RightButShrunk
<1>8. CASE pivot # tree.root
  <2>1. pivot' = r.prev[pivot] /\ at' = at
    BY <1>2, <1>8 DEF Up
  <2>2. \E x \in {pivot', r.prev[pivot']} : Shrunk(r, nodes, x)
    <3>1. CASE AllRight(r, nodes)
      <4>1. PICK E : Ordered(r, nodes, E, Less) /\ pivot' \in nodes
        BY <1>3, <2>1 DEF AvlInv, Cursors, OtherCursors
      <4>2. r \in Trees /\ pivot' \in Nodes /\ RightAt(r, pivot')
        BY <3>1, <4>1, NullIsNoNode DEF Ordered, AllRight
      <4>3. ShrunkAt(r, pivot')
        BY <4>2, RightShrinks
      <4>4. Shrunk(r, nodes, pivot')
        BY <3>1, <4>3 DEF Shrunk, AllRight
      <4> QED
        BY <4>4
    <3>2. CASE \E x \in {r.prev[pivot], r.prev[r.prev[pivot]]} : Shrunk(r, nodes, x)
      BY <2>1, <3>2
    <3> QED
      BY <1>5, <3>1, <3>2 DEF ShrinkLeft
  <2>3. RightButShrunk'
    BY <1>3, <2>2 DEF RightButShrunk
  <2> QED
    BY <1>3, <1>6, <2>1, <2>3 DEF BalanceInv, Defined, RightElsewhere, RightButGrown, Balancing
<1> QED
  BY <1>7, <1>8

-----------------------------------------------------------------------------
(* The tree stays balanced until a removal rotates twice, or a page has two *)
(* nodes                                                                    *)

BalancedInv == AvlInv /\ (~twice /\ ~doubled => BalanceInv /\ OneEach)

\* Only a push gives a page a second node: an open has searched in vain.
LEMMA OneEachStep ==
    ASSUME AvlInv, OneEach, [Next]_vars, ~doubled'
    PROVE  OneEach'
<1>1. PICK D : Ordered(tree, nodes, D, Less) /\ Cursors(D)
  BY DEF AvlInv
<1>2. CASE Call
  <2>1. PICK k \in Nodes : Open(Page[k]) \/ Close(Page[k]) \/ Push(k) \/ Remove(k)
    BY <1>2 DEF Call
  <2>2. CASE Push(k)
    <3>1. nodes' = nodes /\ key' = k /\ ~HasNode(Page[k])
      BY <2>2 DEF Push, Begin
    <3> QED
      BY <3>1 DEF OneEach, HasNode
  <2>3. CASE ~Push(k)
    <3>1. nodes' = nodes /\ at' # "down"
      BY <2>1, <2>3 DEF Open, Close, Remove, Begin
    <3> QED
      BY <3>1 DEF OneEach
  <2> QED
    BY <2>2, <2>3
<1>3. CASE NotFound
  <2>1. nodes' = nodes /\ pivot = NULL /\ at \in Searching
    BY <1>3 DEF NotFound
  <2>2. \A n \in nodes : Page[n] # key
    BY <1>1, <2>1 DEF Cursors, SearchCursor
  <2>3. at' = "down" => Page[key'] = key
    BY <1>3 DEF NotFound, Return
  <2> QED
    BY <2>1, <2>2, <2>3 DEF OneEach
<1>4. CASE SearchTurn \/ Found \/ InsertDown \/ InsertBalance \/ InsertUndefined \/ RemoveBalance
           \/ FindMin
  <2>1. nodes' = nodes /\ (at' = "down" => at = "down" /\ key' = key)
    BY <1>4 DEF SearchTurn, Found, InsertDown, InsertBalance, InsertUndefined, RemoveBalance, FindMin,
                Return, Up, Searching
  <2> QED
    BY <2>1 DEF OneEach
<1>5. CASE InsertFirst
  <2>1. nodes' = {key} /\ at' # "down"
    BY <1>5 DEF InsertFirst, Return
  <2> QED
    BY <2>1 DEF OneEach
<1>6. CASE InsertLink
  <2>1. nodes' = nodes \cup {key} /\ at = "down" /\ at' # "down"
    BY <1>6 DEF InsertLink
  <2> QED
    BY <2>1 DEF OneEach
<1>7. CASE RemoveNode \/ RemoveSwitched
  <2>1. nodes' \subseteq nodes /\ at' # "down"
    BY <1>7 DEF RemoveNode, RemoveSwitched, Unlink
  <2> QED
    BY <2>1 DEF OneEach
<1>8. CASE UNCHANGED vars
  BY <1>8 DEF vars, OneEach
<1> QED
  BY <1>2, <1>3, <1>4, <1>5, <1>6, <1>7, <1>8 DEF Next, Turn

LEMMA BalanceStep ==
    ASSUME AvlInv, BalanceInv, OneEach, [Next]_vars, ~twice'
    PROVE  BalanceInv'
<1>1. AvlInv /\ AvlInv'
  BY OrderedStep
<1>3. BalanceInv /\ OneEach
  OBVIOUS
<1>4. CASE Call
  <2>1. UNCHANGED <<tree, nodes>> /\ at = "idle" /\ at' \in {"open", "close", "down", "remove"}
    BY <1>4 DEF Call, Open, Close, Push, Remove, Begin
  <2> QED
    BY <1>3, <2>1, TreeStaysRight DEF Balancing
<1>5. CASE SearchTurn \/ Found \/ NotFound \/ InsertDown \/ FindMin
  <2>1. /\ UNCHANGED <<tree, nodes>> /\ at \in {"open", "close", "down", "min"}
        /\ at' \in {at, "idle", "down"}
    BY <1>5 DEF SearchTurn, Found, NotFound, InsertDown, FindMin, Searching, Return
  <2> QED
    BY <1>3, <2>1, TreeStaysRight DEF Balancing
<1>6. CASE InsertFirst
  BY <1>1, <1>3, <1>6, PlantRootRight
<1>7. CASE InsertLink
  BY <1>1, <1>3, <1>7, LinkGrows
<1>8. CASE InsertBalance
  BY <1>1, <1>3, <1>8, InsertTurnsRight
<1>9. CASE InsertUndefined
  BY <1>1, <1>3, <1>9, InsertIsDefined
<1>10. CASE RemoveNode \/ RemoveSwitched
  BY <1>1, <1>3, <1>10, RemovalShrinks
<1>11. CASE RemoveBalance
  <2>1. ~RotatesTwice(tree, pivot)
    BY <1>11 DEF RemoveBalance
  <2> QED
    BY <1>1, <1>3, <1>11, <2>1, RemoveTurnsRight
<1>12. CASE UNCHANGED vars
  <2>1. tree' = tree /\ nodes' = nodes /\ at' = at /\ key' = key /\ pivot' = pivot
    BY <1>12 DEF vars
  <2> QED
    BY <1>3, <2>1 DEF BalanceInv, FreeNodes, Defined, RightElsewhere, RightButGrown, RightButShrunk
<1> QED
  BY <1>4, <1>5, <1>6, <1>7, <1>8, <1>9, <1>10, <1>11, <1>12 DEF Next, Turn

\* What has been counted as lost stays lost.
LEMMA StillBalanced == [Next]_vars => (twice => twice') /\ (doubled => doubled')
<1>1. ASSUME Call PROVE (twice => twice') /\ (doubled => doubled')
  <2>1. PICK k \in Nodes : Open(Page[k]) \/ Close(Page[k]) \/ Push(k) \/ Remove(k)
    BY <1>1 DEF Call
  <2>2. twice' = twice
    BY <2>1 DEF Open, Close, Push, Remove, Begin
  <2>3. doubled => doubled'
    <3>1. Open(Page[k]) \/ Close(Page[k]) \/ Remove(k) => doubled' = doubled
      BY DEF Open, Close, Remove
    <3>2. Push(k) => doubled' = (doubled \/ HasNode(Page[k]))
      BY DEF Push
    <3> QED
      BY <2>1, <3>1, <3>2
  <2> QED
    BY <2>2, <2>3
<1>2. Turn => (twice => twice')
  BY DEF Turn, SearchTurn, Found, NotFound, InsertFirst, InsertDown, InsertLink, InsertUndefined,
         InsertBalance, RemoveNode, FindMin, RemoveSwitched, RemoveBalance
<1> QED
  BY <1>1, <1>2 DEF Next, vars

LEMMA BalancedStep == BalancedInv /\ [Next]_vars => BalancedInv'
<1> SUFFICES ASSUME BalancedInv, [Next]_vars PROVE BalancedInv'
  OBVIOUS
<1>1. AvlInv /\ AvlInv'
  BY OrderedStep DEF BalancedInv
<1>2. ASSUME ~twice', ~doubled' PROVE BalanceInv' /\ OneEach'
  <2>1. ~twice /\ ~doubled
    BY <1>2, StillBalanced
  <2>2. BalanceInv /\ OneEach
    BY <2>1 DEF BalancedInv
  <2>3. OneEach'
    BY <1>1, <1>2, <2>2, OneEachStep
  <2>4. BalanceInv'
    BY <1>1, <1>2, <2>2, BalanceStep
  <2> QED
    BY <2>3, <2>4
<1> QED
  BY <1>1, <1>2 DEF BalancedInv

\* Between the operations on the page table every node knows its height and its
\* subtrees differ by one at most, and no rotation of avl_insert follows NULL,
\* for every set of pages and every sequence of operations: until a turn of
\* __remove_balance rotates twice at one node, or gpt_push inserts a second node
\* for a page.
THEOREM TreeStaysBalanced == Spec => []StaysBalanced
<1>1. BalancedInv => StaysBalanced
  <2> SUFFICES ASSUME AvlInv, BalanceInv, Over
               PROVE  /\ at = "idle"
                      /\ \A n \in nodes : tree.height[n] = RealHeight(tree, n) /\ Diff(tree, n) \in -1..1
    BY DEF BalancedInv, StaysBalanced
  <2>1. at = "idle"
    BY DEF Over, BalanceInv, Defined
  <2> QED
    BY <2>1 DEF BalanceInv, RightElsewhere, Balancing, AllRight, RightAt
<1>2. Init => BalancedInv
  <2>1. Init => OneEach
    BY DEF Init, OneEach
  <2> QED
    BY <2>1, InitOrdered, InitBalanced DEF BalancedInv
<1> QED
  BY <1>1, <1>2, BalancedStep, PTL DEF Spec
=============================================================================
