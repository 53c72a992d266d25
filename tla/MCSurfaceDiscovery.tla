------------------------- MODULE MCSurfaceDiscovery -------------------------
(* Two reviewed tools, one with neither description nor annotations.  The    *)
(* provider offers them, the empty one with its fields left out (no drift),  *)
(* the other with its description left out and with other annotations, a     *)
(* changed schema and an unreviewed tool, on at most three pages.            *)
EXTENDS SurfaceDiscovery, TLC

CONSTANTS a, b, c

CursorSymmetry == Permutations({a, b, c})

Tool(n, s, d, x) == [name |-> n, schema |-> s, description |-> d, annotations |-> x]

MCManifest == {Tool("quotes", "s", "", {}), Tool("orders", "s", "d", {"hint"})}
MCOffered  == MCManifest \cup
  {Tool("quotes", "s", Null, Null), Tool("quotes", "changed", "", {}),
   Tool("orders", "s", Null, {"hint"}), Tool("orders", "s", "d", {"other"}),
   Tool("unreviewed", "s", "", {})}
=============================================================================
