---------------------------- MODULE SupportGrants ---------------------------
(* Support access grants: an owner gives a SUPPORT member access for a time, *)
(* and the owner, an admin or the platform's console takes it back.          *)
(*                                                                           *)
(* What a grant lets its holder read is not modelled: the diagnostics write  *)
(* nothing but an audit row.                                                 *)
EXTENDS Integers, Sequences, FiniteSets, SettingsCalls

CONSTANTS
    Supporters,  \* SUPPORT memberships of the tenant
    MaxGrants    \* bound: grants ever made

VARIABLES
    grants,      \* the grants, oldest first: whose each is and how it stands
    active,      \* the memberships that are ACTIVE
    grantCall,   \* what each request is doing
    twofold      \* history: members for whom two creates crossed

grantVars == <<grants, active, grantCall, twofold>>

GrantInit ==
    /\ grants = <<>> /\ active = Supporters /\ twofold = {}
    /\ grantCall = [c \in Calls |-> Idle]

(* Running: neither revoked nor past its expiry.                             *)
Running(m) == {g \in DOMAIN grants : grants[g] = [member |-> m, state |-> "running"]}

Revoked(G) == [g \in DOMAIN grants |->
                  IF g \in G THEN [grants[g] EXCEPT !.state = "revoked"] ELSE grants[g]]

GrantStep(c, to) == grantCall' = [grantCall EXCEPT ![c] = to]

(* create is three statements: the membership is read, the grants it holds   *)
(* are revoked, the new one is inserted.                                     *)
CreateRead(c, m) ==
    /\ AtStage(grantCall, c, "idle") /\ m \in active
    /\ GrantStep(c, [stage |-> "found", member |-> m])
    /\ UNCHANGED <<grants, active, twofold>>

\* Mutant of Replaced: the comparison with the expiry is the wrong way round.
ReplacedExpired(m) ==
    {g \in DOMAIN grants : grants[g] = [member |-> m, state |-> "expired"]}

Replaced(m) == Running(m)

CreateRevoke(c) ==
    /\ AtStage(grantCall, c, "found")
    /\ grants' = Revoked(Replaced(grantCall[c].member))
    /\ GrantStep(c, [grantCall[c] EXCEPT !.stage = "cleared"])
    /\ UNCHANGED <<active, twofold>>

CreateInsert(c) ==
    LET m == grantCall[c].member IN
    /\ AtStage(grantCall, c, "cleared") /\ Len(grants) < MaxGrants
    /\ grants' = Append(grants, [member |-> m, state |-> "running"])
    /\ GrantStep(c, Idle)
    /\ twofold' = twofold \cup
          {n \in {m} : \E d \in Calls \ {c} :
              AtStage(grantCall, d, "cleared") /\ grantCall[d].member = m}
    /\ UNCHANGED active

(* revoke finds a grant that is not revoked; the console's revokeGrant finds *)
(* any grant, and stamps it again.                                           *)
RevokeRead(c, g) ==
    /\ AtStage(grantCall, c, "idle") /\ grants[g].state # "revoked"
    /\ GrantStep(c, [stage |-> "revoking", grant |-> g])
    /\ UNCHANGED <<grants, active, twofold>>

ConsoleRevokeRead(c, g) ==
    /\ AtStage(grantCall, c, "idle")
    /\ GrantStep(c, [stage |-> "revoking", grant |-> g])
    /\ UNCHANGED <<grants, active, twofold>>

RevokeWrite(c) ==
    /\ AtStage(grantCall, c, "revoking")
    /\ grants' = Revoked({grantCall[c].grant})
    /\ GrantStep(c, Idle)
    /\ UNCHANGED <<active, twofold>>

(* The server dies, or the database refuses a statement, between two of them.*)
GrantCallFails(c) ==
    /\ ~AtStage(grantCall, c, "idle")
    /\ GrantStep(c, Idle)
    /\ UNCHANGED <<grants, active, twofold>>

GrantExpires(g) ==
    /\ grants[g].state = "running"
    /\ grants' = [grants EXCEPT ![g].state = "expired"]
    /\ UNCHANGED <<active, grantCall, twofold>>

(* The membership is suspended or comes back, or changes role.               *)
SupporterChanges(m) ==
    /\ active' = IF m \in active THEN active \ {m} ELSE active \cup {m}
    /\ UNCHANGED <<grants, grantCall, twofold>>

GrantNext ==
    \/ \E c \in Calls :
          \/ \E m \in Supporters : CreateRead(c, m)
          \/ CreateRevoke(c) \/ CreateInsert(c) \/ RevokeWrite(c) \/ GrantCallFails(c)
          \/ \E g \in DOMAIN grants : RevokeRead(c, g) \/ ConsoleRevokeRead(c, g)
    \/ \E g \in DOMAIN grants : GrantExpires(g)
    \/ \E m \in Supporters : SupporterChanges(m)

(* A new grant replaces the old: a support member never holds two that run,  *)
(* with their scopes and ends, unless two creates for the member crossed     *)
(* between the second statement and the third.  (support.service.ts 188-189.)*)
OneGrant == \A m \in Supporters \ twofold : Cardinality(Running(m)) <= 1
=============================================================================
