--------------------------- MODULE MCAdminAccounts ---------------------------
(* Small instances of AdminAccounts. *)
EXTENDS AdminAccounts, TLC

CONSTANTS a1, a2, a3, s1, s2, admin, bob, p1, p2, w1, w2

Symmetry == Permutations({a1, a2, a3}) \cup Permutations({s1, s2})
            \cup Permutations(Worker)
=============================================================================
