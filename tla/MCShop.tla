-------------------------------- MODULE MCShop --------------------------------
(* Small instances of Shop for TLC; its goroutines and users are alone of    *)
(* their kind, so there is no symmetry to use.                               *)
EXTENDS Shop
===============================================================================
