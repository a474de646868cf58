------------------------------ MODULE AvlTreeMC ------------------------------
(* All histories of seven pages beside the system's; of four pages, three of   *)
(* which may have two nodes; a tree of fourteen nodes in which one removal     *)
(* rotates twice and leaves a node out of balance; and a history of forty-six  *)
(* calls, the last of which follows NULL.                                      *)
EXTENDS AvlTree

\* Pages 3, 4 and 5 have up to two nodes.
SmallNodes == 0..28
SmallPage == [n \in SmallNodes |-> IF n < 3 THEN n ELSE IF n > 8 THEN n - 3 ELSE (n + 3) \div 2]

SmallStarts ==
    {[first |-> <<>>, free |-> 0..9, twins |-> FALSE],
     [first |-> <<>>, free |-> 3..6, twins |-> TRUE],
     [first |-> <<4, 6, 10, 9, 12, 8, 5, 13, 11, 3, 7>>, free |-> {2, 3, 9, 13}, twins |-> FALSE],
     [first |-> <<18, 14, 5, 13, 12, 23, 17, 11, 25, 3, 5, 19, 12, 22, 21, 24, 23, 20, 3, 23, 25, 17,
                  13, 16, 9, 19, 12, 23, 16, 13, 3, 8, 22, 25, 23, 25, 16, 5, 17, 25, 6, 7, 23, 18, 3, 10>>,
      free |-> {10}, twins |-> FALSE]}
=============================================================================
