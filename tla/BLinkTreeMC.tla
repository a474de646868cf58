----------------------------- MODULE BLinkTreeMC -----------------------------
(* Trees to begin with: a full leaf, into which new last keys are inserted or   *)
(* keys it has already; a root with gaps between the keys of its leaves; a full *)
(* root; and three levels, for removals that reach the pivot pages.             *)
EXTENDS BLinkTree

Ops(op, ks) == [i \in 1..Len(ks) |-> [op |-> op, key |-> ks[i]]]
Ins(ks) == Ops("insert", ks)
Rem(ks) == Ops("remove", ks)
Del == Ops("delete", <<PAGEIDNULL>>)

Tree1(leaves, pivots, lefts) == [leaves : {leaves}, pivots : {pivots}, left : lefts]

Leaf == << <<1, 2, 3>> >>
Gaps == << <<2, 4>>, <<6, 8>>, <<10, 12>> >>
Full == << <<2, 4>>, <<5, 6>>, <<7, 8>>, <<9, 10>>, <<11, 12>> >>
Wide == << <<1, 2>>, <<3, 4, 5>>, <<6, 8>>, <<10, 11, 12>> >>

\* n leaves of two keys
Leaves(n) == [i \in 1..n |-> <<2 * i - 1, 2 * i>>]

SmallTrees ==
    Tree1(Leaf, <<>>, {Ins(<<4, 5, 6, 7, 8, 9, 10, 11>>), Ins(<<4, 4, 6, 2, 5>>),
                       Rem(<<2>>) \o Ins(<<4, 2, 5>>) \o Rem(<<4>>) \o Del,
                       Ins(<<4>>) \o Rem(<<1, 4>>)})
    \cup Tree1(Gaps, <<3>>, {Ins(<<1, 3, 5, 7>>), Ins(<<5, 1, 7, 3>>), Ins(<<9, 3, 11, 1>>),
                             Rem(<<2, 8, 6>>), Rem(<<6, 5>>) \o Ins(<<7, 3>>) \o Del, Rem(<<8, 4>>)})
    \cup Tree1(Full, <<5>>, {Ins(<<1, 13, 3, 14>>)})
    \cup Tree1(Wide, <<4>>, {Rem(<<1, 4>>) \o Ins(<<4>>), Rem(<<8, 5, 3>>), Rem(<<6, 10>>) \o Del, Rem(<<12>>)})
    \cup Tree1(Wide, <<2, 2>>, {Rem(<<6>>)})
    \cup Tree1(Leaves(4), <<2, 2>>, {Rem(<<5>>) \o Ins(<<9>>) \o Rem(<<3>>) \o Del, Rem(<<4>>), Rem(<<6>>) \o Ins(<<9, 10, 11>>)})
    \cup Tree1(Leaves(6), <<2, 2, 2>>, {Rem(<<5, 3>>), Rem(<<8>>), Rem(<<9, 10>>) \o Del})
    \cup Tree1(Leaves(7), <<2, 5>>, {Rem(<<6, 9>>), Rem(<<5, 6>>), Rem(<<12>>) \o Ins(<<15>>) \o Del})
    \cup Tree1(Leaves(7), <<5, 2>>, {Rem(<<3>>), Rem(<<11>>), Rem(<<10>>)})
    \cup Tree1(Leaves(7), <<3, 4>>, {Rem(<<9>>), Rem(<<7, 13>>)})
=============================================================================
