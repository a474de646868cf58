------------------------------- MODULE ServerMC -------------------------------
(* Two clients that use tables at the same time; and three that come and go,    *)
(* for a table of connections and a threshold that are small.                   *)
EXTENDS Server, TLC

CONSTANTS c1, c2, c3

Do(do, name) == [do |-> do, name |-> name]
Exits == Do("exit", NULL)
Dies == Do("die", NULL)

Lives3(l1, l2, l3) == (c1 :> l1) @@ (c2 :> l2) @@ (c3 :> l3)

Stays == Do("stay", NULL)

\* The first two clients use tables.
Uses(s1, s2) == Lives3(s1 \o <<Stays>>, s2 \o <<Stays>>, <<>>)

TableLives == {
    Uses(<<Do("tcreate", "b"), Do("tinsert", "b")>>, <<Do("tcreate", "b")>>),
    Uses(<<Do("tcreate", "b"), Do("tinsert", "a"), Do("tdelete", "b")>>, <<Do("tdelete", "a")>>),
    Uses(<<Do("tdelete", "a"), Do("tcreate", "a"), Do("tinsert", "a")>>, <<Do("isearch", "x")>>),
    Uses(<<Do("tinsert", "a"), Do("tdelete", "a")>>, <<Do("tcreate", "b"), Do("tdelete", "a")>>),
    Uses(<<Do("tdelete", "a"), Do("tcreate", "a"), Do("tdelete", "a")>>, <<Do("tinsert", "a")>>),
    Uses(<<Do("tdelete", "g")>>, <<Do("tcreate", "b")>>),
    Uses(<<Do("icreate", "y"), Do("iinsert", "y")>>, <<Do("isearch", "y")>>),
    Uses(<<Do("iinsert", "x"), Do("iinsert", "x")>>, <<Do("isearch", "x")>>)}

\* They come and go: descriptors are used again, slots are recycled, and there
\* may be one client too many.
CrowdLives == {
    Lives3(<<Exits>>, <<Exits>>, <<Stays>>),
    Lives3(<<Stays>>, <<Stays>>, <<Stays>>),
    Lives3(<<Exits>>, <<Do("isearch", "y"), Dies>>, <<>>),
    Lives3(<<Exits>>, <<Do("isearch", "y"), Stays>>, <<Stays>>)}

SmallLives == TableLives \cup CrowdLives

\* Two general tables, without attributes and with some, and an index.
StoredTables == {<<"a", 1>>, <<"g", 2>>, <<"x", 3>>}
=============================================================================
