---------------------------- MODULE SignInSession ----------------------------
(***************************************************************************)
(* What a signed-in session promises, whatever refresh tokens it goes      *)
(* through: it is opened by one sign-in, it may be ended, alone or with    *)
(* others, and once it is over it never comes back.                        *)
(***************************************************************************)
CONSTANT Sessions
VARIABLE stage

Open(s) ==
  /\ stage[s] = "NONE"
  /\ stage' = [stage EXCEPT ![s] = "OPEN"]

\* A revocation ends all the open sessions it reaches at once.
End(S) ==
  /\ \A s \in S : stage[s] = "OPEN"
  /\ stage' = [s \in Sessions |-> IF s \in S THEN "OVER" ELSE stage[s]]

Init == stage = [s \in Sessions |-> "NONE"]

Next == (\E s \in Sessions : Open(s)) \/ \E S \in SUBSET Sessions : End(S)

Spec == Init /\ [][Next]_stage

=============================================================================
