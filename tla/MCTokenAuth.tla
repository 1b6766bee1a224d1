----------------------------- MODULE MCTokenAuth -----------------------------
(* TokenAuth on small instances. *)
EXTENDS TokenAuth, TLC

(* Requests are interchangeable. *)
Symmetry == Permutations(Procs)
===============================================================================
