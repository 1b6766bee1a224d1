---------------------------- MODULE MCAttachments ----------------------------
(* Attachments on small instances. *)
EXTENDS Attachments, TLC

(* Files and handlers are interchangeable. *)
Symmetry == Permutations(Files) \cup Permutations(Procs)
===============================================================================
