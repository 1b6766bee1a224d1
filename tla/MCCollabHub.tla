----------------------------- MODULE MCCollabHub -----------------------------
(* CollabHub on small instances. *)
EXTENDS CollabHub, TLC
===============================================================================
