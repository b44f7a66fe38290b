--------------------------- MODULE MCTenantMembers ---------------------------
(* Model values, plans and requests for the run of TenantMembers. *)
EXTENDS TenantMembers, TLC

CONSTANTS u1, u2, u3, n1, n2, r1, r2

MemberSymmetry == Permutations(Users) \cup Permutations(Requests)
SmallRoles == {"OWNER", "ADMIN", "SUPPORT"}
\* A role or a status, not both at once.
OneChange == [role : SmallRoles, status : {NONE}] \cup [role : {NONE}, status : {"ACTIVE", "SUSPENDED"}]
Plans == [n \in Tenants |-> IF n = n1 THEN 1 ELSE 2]

=============================================================================
