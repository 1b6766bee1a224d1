---------------------------- MODULE MCSearchAccess ----------------------------
(* SearchAccess on small instances. *)
EXTENDS SearchAccess, TLC

(* Pages are interchangeable. *)
Symmetry == Permutations(Pages)
===============================================================================
