--------------------------- MODULE MCAdminSettings ----------------------------
(* Small instances of AdminSettings. *)
EXTENDS AdminSettings, TLC

CONSTANTS w1, w2

Set(f, v) == f :> v
Body(sections, values) ==
    [sections |-> sections, patch |-> values @@ NoPatch]

SmallDefault == [f \in Field |-> CASE f = "chunk_size" -> 2 [] OTHER -> 1]
SmallLegal   == [f \in Field |-> CASE f = "chunk_size" -> 1 .. 3
                                   [] f = "chunk_overlap" -> 0 .. 3
                                   [] OTHER -> 0 .. 1]

One(f, values) == {Body(<<SectionOf[f]>>, Set(f, v)) : v \in values}
Both(s, v) == Body(s, Set("base_url", 0) @@ Set("model", v))
Several ==
    {Both(<<"llm", "embedding">>, 0), Both(<<"llm", "embedding">>, 2),
     Both(<<"embedding", "llm">>, 0)}

Pairs == Body(<<"retrieval">>, Set("chunk_size", 1) @@ Set("chunk_overlap", 0))

\* Either thread may get any of them.  2 is no legal model.
Bodies == One("temperature", {0}) \cup Several
          \cup One("chunk_size", {1}) \cup One("chunk_overlap", {0, 1}) \cup {Pairs}

SameBodies == [w \in Worker |-> Bodies]

Symmetry == Permutations(Worker)
===============================================================================
