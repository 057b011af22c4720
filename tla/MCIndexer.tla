------------------------------ MODULE MCIndexer -------------------------------
(* Small instances of Indexer. *)
EXTENDS Indexer, TLC

CONSTANTS v1, v2, bad, blank, t1, t2, cli

Symmetry == Permutations({v1, v2}) \cup Permutations(Thread)
===============================================================================
