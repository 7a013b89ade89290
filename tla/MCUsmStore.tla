----------------------------- MODULE MCUsmStore -----------------------------
(* UsmStore with names and passphrases that are alike. *)
EXTENDS UsmStore, TLC

CONSTANTS n1, n2, p1, p2, c1

McNames == {n1, n2}
McPasses == {p1, p2}
McClis == {c1}

Symmetry ==
    Permutations(McNames) \cup Permutations(McPasses)
=============================================================================
