---------------------------- MODULE MCSignInCodes ----------------------------
(* Model values and symmetry for the run of SignInCodes. *)
EXTENDS SignInCodes, TLC

CONSTANTS r1, r2

CodeSymmetry == Permutations(Requests)

=============================================================================
