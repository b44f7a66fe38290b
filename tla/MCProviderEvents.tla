-------------------------- MODULE MCProviderEvents --------------------------
(* Model values and types of event for the runs of ProviderEvents. *)
EXTENDS ProviderEvents, TLC

CONSTANTS e1, e2, w1, w2, r1, r2, p1

RunTypes == {"bounced", "complained", "queued", "threat", "clean", "reauth", "degraded", "refused"}
RaceTypes == {"bounced", "complained", "reauth", "refused"}

=============================================================================
