--------------------------- MODULE MCMailboxItems ---------------------------
(* Model values and symmetry for the run of MailboxItems. *)
EXTENDS MailboxItems, TLC

CONSTANTS u1, u2, m1, m2, a1, a2, r1, r2

FirstWrites == [m \in Messages |-> u1]
MailboxSymmetry == Permutations(Requests) \cup Permutations(Attachments) \cup Permutations(Messages)

=============================================================================
