-------------------------- MODULE MCEngineIdentity --------------------------
(* EngineIdentity on small instances.  MachineGuids and host names are      *)
(* interchangeable: the code only compares them.                            *)
EXTENDS EngineIdentity, TLC

Symmetry == Permutations(Guids) \cup Permutations(Hosts)

=============================================================================
