----------------------------- MODULE MCChatSystem -----------------------------
(* Small instances of ChatSystem. *)
EXTENDS ChatSystem, TLC

CONSTANTS c1, c2, c3

Symmetry == Permutations(Chat)
===============================================================================
