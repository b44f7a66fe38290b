-------------------------- MODULE MCBrowserSession --------------------------
(* Two tabs, one person and two calls under way at a time.                   *)
EXTENDS BrowserSession, TLC

CONSTANTS t1, t2, u1, u2, r1, r2

Symmetry == Permutations(Tabs) \cup Permutations(Users) \cup Permutations(ApiCalls)
=============================================================================
