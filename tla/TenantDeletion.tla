--------------------------- MODULE TenantDeletion ---------------------------
(***************************************************************************)
(* What the lifecycle routes promise of the deletion of a tenant: it is    *)
(* requested, approved and confirmed, in this order, and may be cancelled  *)
(* until it is confirmed; then, and only then, the tenant is erased, once, *)
(* under the one request the receipt names.                                *)
(***************************************************************************)
CONSTANT Deletions
VARIABLES stage, erased

deletionVars == <<stage, erased>>

Move(d, from, to) ==
  /\ stage[d] \in from
  /\ stage' = [stage EXCEPT ![d] = to]
  /\ UNCHANGED erased

Request(d) == Move(d, {"NONE"}, "REQUESTED") /\ erased = {}
Approve(d) == Move(d, {"REQUESTED"}, "APPROVED")
Confirm(d) == Move(d, {"APPROVED"}, "PROCESSING")
Cancel(d)  == Move(d, {"REQUESTED", "APPROVED"}, "CANCELLED")

Erase(d) ==
  /\ stage[d] = "PROCESSING"
  /\ erased = {}
  /\ erased' = {d}
  /\ stage' = [x \in Deletions |-> "GONE"]

Init == stage = [d \in Deletions |-> "NONE"] /\ erased = {}

Next == \E d \in Deletions : Request(d) \/ Approve(d) \/ Confirm(d) \/ Cancel(d) \/ Erase(d)

Spec == Init /\ [][Next]_deletionVars

=============================================================================
