---------------------------- MODULE MCDiscovery ----------------------------
(***************************************************************************)
(* Small instances of Discovery: catalogues that end, that go on past the  *)
(* page limit, and that come back to a cursor.                             *)
(***************************************************************************)
EXTENDS Discovery

CONSTANTS c1, c2, c3

MCCursors == {c1, c2, c3}
Listing(first, second, third) ==
  [p \in Pages |-> CASE p = Start -> first [] p = c1 -> second [] p = c2 -> third
                     [] OTHER -> End]

MCCatalogues ==
  {Listing(End, End, End),   \* one page
   Listing(c1, End, End),    \* two
   Listing(c1, c2, End),     \* three: as many as may be asked for
   Listing(c1, c2, c3),      \* four
   Listing(c1, c1, End),     \* a page that names itself
   Listing(c1, c2, c1)}      \* a cycle
=============================================================================
