-------------------------- MODULE MCRefreshSessions --------------------------
(* Model values and symmetry for the runs of RefreshSessions. *)
EXTENDS RefreshSessions, TLC

CONSTANTS k1, k2, k3, k4, n1, n2, r1, r2, r3

SessionSymmetry == Permutations(Tokens) \cup Permutations(Tenants) \cup Permutations(Requests)
EveryOp == AllOps
RaceOps == {"login", "refresh", "logout", "remove"}
LogoutAllOps == {"login", "refresh", "logoutAll"}

=============================================================================
