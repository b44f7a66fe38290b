------------------------------ MODULE MCBilling ------------------------------
(* Model values for the run of Billing. *)
EXTENDS Billing, TLC

CONSTANTS s1, s2, h1, h2

OnePlan == {"pro"}
HookSymmetry == Permutations(Hooks) \cup Permutations(Subs)

=============================================================================
