---------------------------- MODULE MCPageService ----------------------------
(* PageService on small instances. *)
EXTENDS PageService, TLC

(* Handlers and documents are interchangeable. *)
Symmetry == Permutations(Procs) \cup Permutations(Docs)
===============================================================================
