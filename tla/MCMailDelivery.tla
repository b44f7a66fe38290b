--------------------------- MODULE MCMailDelivery ---------------------------
(* Model values and symmetry for the runs of MailDelivery. *)
EXTENDS MailDelivery, TLC

CONSTANTS m1, a1, a2, w1, w2, c1, c2, self

RaceSymmetry == Permutations(Clients) \cup Permutations(Addrs)
EveryOp == {"create", "update", "delete", "schedule", "cancel", "send"}
NoCancel == EveryOp \ {"cancel"}

=============================================================================
