--------------------------- MODULE MCSystemLists ---------------------------
(* Three services or adapters of two sizes, and a filter for one.            *)
EXTENDS SystemLists

CONSTANTS a, b, c

MCSize == (a :> 1) @@ (b :> 1) @@ (c :> 2)
MCFilters == {{a, b, c}, {a, c}, {b}}
=============================================================================
