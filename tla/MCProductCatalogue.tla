-------------------------- MODULE MCProductCatalogue --------------------------
(* Small instances of ProductCatalogue for TLC.                            *)
EXTENDS ProductCatalogue, TLC

\* Clients are alike.
Symmetry == Permutations(Clients)
==============================================================================
