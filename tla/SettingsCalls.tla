---------------------------- MODULE SettingsCalls ---------------------------
(* The requests by which the people of a tenant change its settings: each is *)
(* served on its own, and several may be under way at once.                  *)

CONSTANT Calls  \* requests under way at one time

Idle == [stage |-> "idle"]
AtStage(call, c, stage) == call[c].stage = stage
=============================================================================
