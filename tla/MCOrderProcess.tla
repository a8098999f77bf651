---------------------------- MODULE MCOrderProcess ----------------------------
(* Small instances of OrderProcess for TLC.  Its run checks liveness, which  *)
(* leaves no use for the symmetry of handlers and products.                  *)
EXTENDS OrderProcess
===============================================================================
