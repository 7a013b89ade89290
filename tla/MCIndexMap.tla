----------------------------- MODULE MCIndexMap -----------------------------
(* IndexMap with adapters that are alike. *)
EXTENDS IndexMap, TLC

CONSTANTS l1, l2, l3

McLuids == {l1, l2, l3}

Symmetry == Permutations(McLuids)
=============================================================================
