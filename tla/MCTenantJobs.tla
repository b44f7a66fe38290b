---------------------------- MODULE MCTenantJobs ----------------------------
(* Model values for the run of TenantJobs. *)
EXTENDS TenantJobs, TLC

CONSTANTS s1, g1, e1, d1, d2, o1, o2, w1, w2

=============================================================================
