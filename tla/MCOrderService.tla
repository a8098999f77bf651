---------------------------- MODULE MCOrderService ----------------------------
(* Small instances of OrderService for TLC.                                *)
EXTENDS OrderService, TLC

\* Handlers are alike, and so are products: only equality tells them apart.
Symmetry == Permutations(Handlers) \cup Permutations(Products)
==============================================================================
