---------------------------- MODULE MCPreAuthGate ----------------------------
(* PreAuthGate on a small network: a loopback address, three sources in one *)
(* allowed network, one of them in a second one, and a stranger.            *)
EXTENDS PreAuthGate, TLC

CONSTANTS local, m1, m2, m3, stranger

McSources == {local, m1, m2, m3, stranger}
McLoopback == {local}
McNetworks == {{m1, m2, m3}, {m3}}

Symmetry == Permutations({m1, m2})
==============================================================================
