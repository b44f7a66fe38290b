---------------------------- MODULE PolicyVersions --------------------------
(* The versions of a tenant's policy of one type.  create and activate are   *)
(* transactions at READ COMMITTED: a statement sees what was committed when  *)
(* it began.  The rules and the contexts they are matched with are left out. *)
EXTENDS Integers, Sequences, FiniteSets, SettingsCalls

CONSTANT MaxVersions  \* bound: versions ever created

VARIABLES
    policies,    \* the status of each version, version 1 first
    policyCall,  \* what each request is doing
    activated,   \* history: the version activated last, 0 if none
    rivals       \* history: two activations crossed

policyVars == <<policies, policyCall, activated, rivals>>

PolicyInit ==
    /\ policies = <<>> /\ activated = 0 /\ rivals = FALSE
    /\ policyCall = [c \in Calls |-> Idle]

ActivePolicies == {v \in DOMAIN policies : policies[v] = "ACTIVE"}

PolicyStep(c, to) == policyCall' = [policyCall EXCEPT ![c] = to]

(* create takes the highest version and inserts the next.  The unique index  *)
(* on (tenant, type, version) fails the second of two that took the same.    *)
PolicyCreateRead(c) ==
    /\ AtStage(policyCall, c, "idle") /\ Len(policies) < MaxVersions
    /\ PolicyStep(c, [stage |-> "numbered", version |-> Len(policies) + 1])
    /\ UNCHANGED <<policies, activated, rivals>>

PolicyCreateWrite(c) ==
    /\ AtStage(policyCall, c, "numbered")
    /\ policies' = IF policyCall[c].version \in DOMAIN policies
                   THEN policies ELSE Append(policies, "DRAFT")
    /\ PolicyStep(c, Idle)
    /\ UNCHANGED <<activated, rivals>>

(* activate reads its target, and has nothing to do if it is ACTIVE.         *)
Target(c, v) ==
    /\ AtStage(policyCall, c, "idle") /\ policies[v] # "ACTIVE"
    /\ PolicyStep(c, [stage |-> "target", version |-> v])
    /\ UNCHANGED <<policies, activated, rivals>>

\* Mutant of Superseded: only older versions are archived.
SupersededOlder(v) == {w \in ActivePolicies : w < v}

(* What the updateMany of activate will archive: the versions it sees ACTIVE.*)
Superseded(v) == ActivePolicies

Archive(c) ==
    /\ AtStage(policyCall, c, "target")
    /\ PolicyStep(c, [stage |-> "archiving", version |-> policyCall[c].version,
                      seen |-> Superseded(policyCall[c].version)])
    /\ UNCHANGED <<policies, activated, rivals>>

(* Its rows are locked, changed and committed with the target's.             *)
ActivateCommit(c) ==
    LET v == policyCall[c].version IN
    /\ AtStage(policyCall, c, "archiving")
    /\ policies' = [w \in DOMAIN policies |->
                       IF w = v THEN "ACTIVE"
                       ELSE IF w \in policyCall[c].seen /\ policies[w] = "ACTIVE"
                            THEN "ARCHIVED" ELSE policies[w]]
    /\ PolicyStep(c, Idle)
    /\ activated' = v
    /\ rivals' = (rivals \/ \E d \in Calls \ {c} : AtStage(policyCall, d, "archiving"))

(* The transaction is rolled back.                                           *)
PolicyRollback(c) ==
    /\ ~AtStage(policyCall, c, "idle")
    /\ PolicyStep(c, Idle)
    /\ UNCHANGED <<policies, activated, rivals>>

PolicyNext == \E c \in Calls :
    \/ PolicyCreateRead(c) \/ PolicyCreateWrite(c)
    \/ \E v \in DOMAIN policies : Target(c, v)
    \/ Archive(c) \/ ActivateCommit(c) \/ PolicyRollback(c)

(* Once a policy has been activated one is always in force - evaluate denies *)
(* everything when it finds none - and it is the one activated last, alone,  *)
(* unless two activations crossed.  (policy.service.ts 71-98.)               *)
PolicyInForce ==
    /\ activated # 0 => ActivePolicies # {}
    /\ ~rivals => ActivePolicies = {activated} \ {0}
=============================================================================
