---------------------------- MODULE MCHealthProbe -----------------------------
(* Small instances of HealthProbe. *)
EXTENDS HealthProbe, TLC

CONSTANTS w1, p1, p2

Set(f, v) == f :> v
Body(sections, values) == [sections |-> sections, patch |-> values @@ NoPatch]

SmallDefault == [f \in Field |-> CASE f = "chunk_size" -> 2 [] OTHER -> 1]
SmallLegal   == [f \in Field |-> 0 .. 1]

\* The address moves, by the hot reload or by a restart before it.
Addresses == [w \in Worker |-> {Body(<<"llm">>, Set("base_url", 0))}]

Symmetry == Permutations(Page)
===============================================================================
