----------------------------- MODULE MCEditorSync -----------------------------
(* EditorSync on small instances. *)
EXTENDS EditorSync, TLC

(* Handlers are interchangeable. *)
Symmetry == Permutations(Procs)
===============================================================================
