----------------------------- MODULE MCCollabRoom -----------------------------
(* CollabRoom on small instances. *)
EXTENDS CollabRoom, TLC
===============================================================================
