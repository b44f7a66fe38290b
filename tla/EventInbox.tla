----------------------------- MODULE EventInbox -----------------------------
(***************************************************************************)
(* What the connector promises of the events a mail provider calls back    *)
(* with, however often it repeats a call: each is taken in once, waits     *)
(* until it is handled or given up as a dead letter, may be taken up again *)
(* from there, and once handled is never handled again.                    *)
(***************************************************************************)
CONSTANT Events
VARIABLE stage

Move(e, from, to) == stage[e] = from /\ stage' = [stage EXCEPT ![e] = to]

TakeIn(e)   == Move(e, "NONE", "WAITING")
Handle(e)   == Move(e, "WAITING", "DONE")
Bury(e)     == Move(e, "WAITING", "DEAD")
TakeUp(e)   == Move(e, "DEAD", "WAITING")

Init == stage = [e \in Events |-> "NONE"]

Next == \E e \in Events : TakeIn(e) \/ Handle(e) \/ Bury(e) \/ TakeUp(e)

Spec == Init /\ [][Next]_stage

=============================================================================
