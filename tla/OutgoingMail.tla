---------------------------- MODULE OutgoingMail ----------------------------
(***************************************************************************)
(* What the mail service promises of a message, whoever sends it: a draft  *)
(* is delivered at most once, by the author or by the scheduler, and a     *)
(* message that was sent, given up or deleted stays so.                    *)
(***************************************************************************)
EXTENDS Naturals

CONSTANT Messages
VARIABLES state, deliveries

mailVars == <<state, deliveries>>

Move(m, from, to) ==
  /\ state[m] \in from
  /\ state' = [state EXCEPT ![m] = to]
  /\ UNCHANGED deliveries

Write(m)    == Move(m, {"NEW"}, "DRAFT")
Discard(m)  == Move(m, {"DRAFT"}, "DELETED")
Plan(m)     == Move(m, {"DRAFT"}, "SCHEDULED")
Recall(m)   == Move(m, {"SCHEDULED"}, "DRAFT")
Take(m)     == Move(m, {"SCHEDULED"}, "SENDING")
GiveBack(m) == Move(m, {"SENDING"}, "SCHEDULED")
GiveUp(m)   == Move(m, {"SENDING"}, "FAILED")

Deliver(m) ==
  /\ state[m] \in {"DRAFT", "SENDING"}
  /\ deliveries[m] = 0
  /\ state' = [state EXCEPT ![m] = "SENT"]
  /\ deliveries' = [deliveries EXCEPT ![m] = 1]

Init ==
  /\ state = [m \in Messages |-> "NEW"]
  /\ deliveries = [m \in Messages |-> 0]

Next == \E m \in Messages :
  \/ Write(m) \/ Discard(m) \/ Plan(m) \/ Recall(m)
  \/ Take(m) \/ GiveBack(m) \/ GiveUp(m) \/ Deliver(m)

Spec == Init /\ [][Next]_mailVars

=============================================================================
