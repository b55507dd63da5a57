---------------------------- MODULE MCLiveLibrary ---------------------------
(* The package library and its operations for TLC. *)
EXTENDS LiveLibrary, TLC

MCRecipes == [store: Stores, chosen: Choices]

Offer(options, defaults, minimum) ==
    [options |-> options, defaults |-> defaults, minimum |-> minimum,
     maximum |-> Cardinality(options), multiple |-> FALSE]

\* Menus that differ in what is preselected, demanded, and offered at all.
MCMenus == [Groups -> {None} \cup {Offer(Options, d, n) : d \in SUBSET Options, n \in {0, 1}}]

Symmetry == Permutations(Refs) \cup Permutations(Names) \cup Permutations(Accounts)
=============================================================================
