-------------------------- MODULE MCDashboardStore --------------------------
(* Small instances of DashboardStore: the owners are the collections and   *)
(* the entry, and each collection may make one root and one view.          *)
EXTENDS DashboardStore, TLC

CONSTANT Full   \* the window that needs no filtering

MCOwners == Colls \union {Entry}
MCDatasets == {"root", "view"} \X Colls
MCFiltered == Windows \ {Full}

Symmetry == Permutations(Colls) \union Permutations(Sources)

===========================================================================
