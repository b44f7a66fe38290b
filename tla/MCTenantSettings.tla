-------------------------- MODULE MCTenantSettings --------------------------
(* Three requests at once for each desk, and two support members.            *)
EXTENDS TenantSettings, TLC

CONSTANTS c1, c2, c3, s1, s2

Symmetry == Permutations(Calls) \cup Permutations(Supporters)
=============================================================================
