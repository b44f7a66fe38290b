--------------------------- MODULE WorkspaceProofs ---------------------------
(***************************************************************************)
(* Proofs about a workspace: its settings and its subscriptions.           *)
(*                                                                         *)
(* Settings, for any number of requests at once, of support members, and   *)
(* for every bound.  The four desks have the same argument: what a request *)
(* has read still holds when it writes, unless the history variable says   *)
(* that two have crossed.  Each desk has its types, its argument as an     *)
(* inductive invariant, and one lemma that its steps keep it.              *)
(*                                                                         *)
(* Billing, for any number of subscriptions, plans, deliveries at once,    *)
(* events and faults.  A row is the newest of the events that have been    *)
(* written down, or was written ahead of a first event still to come; the  *)
(* plan code is right for the rows, or an event that decides it has        *)
(* changed a row and is not settled.                                       *)
(***************************************************************************)
EXTENDS TenantSettings, Billing, FiniteSetTheorems, TLAPS

-----------------------------------------------------------------------------
(* Warm-up                                                                   *)

BoxRow == [stage : Nat, served : BOOLEAN, sent : Nat, bounced : Nat, suspended : BOOLEAN]

WarmTypes ==
    /\ box \in BoxRow
    /\ terms \in Nat /\ twice \in BOOLEAN
    /\ warmCall \in [Calls -> [stage : {"idle", "eligible"}]]

(* The days that have passed in this stage are not yet spent; who is about   *)
(* to promote has read that they passed, and nobody has spent them since.    *)
WarmInv ==
    /\ WarmTypes
    /\ ~twice =>
         /\ box.stage <= LastStage /\ box.stage <= terms
         /\ box.served => box.stage < terms
         /\ \A c \in Calls : AtStage(warmCall, c, "eligible") =>
                box.served /\ box.stage < LastStage

LEMMA WarmBegins == WarmInit => WarmInv
  <1>. SUFFICES ASSUME WarmInit PROVE WarmInv
    OBVIOUS
  <1>1. box \in BoxRow /\ box.stage = 0 /\ ~box.served
    BY DEF WarmInit, NewStage, BoxRow
  <1>2. warmCall \in [Calls -> [stage : {"idle", "eligible"}]]
    BY DEF WarmInit, Idle
  <1>3. \A c \in Calls : ~AtStage(warmCall, c, "eligible")
    BY DEF WarmInit, Idle, AtStage
  <1>4. twice \in BOOLEAN /\ terms = 0
    BY DEF WarmInit
  <1>. QED BY <1>1, <1>2, <1>3, <1>4 DEF WarmInv, WarmTypes, LastStage

LEMMA WarmSteps == WarmInv /\ WarmNext => WarmInv'
  <1>. USE DEF WarmTypes, WarmInv, LastStage, AtStage, BoxRow
  <1>. SUFFICES ASSUME WarmInv, WarmNext PROVE WarmInv'
    OBVIOUS
  <1>1. ASSUME NEW c \in Calls, EvaluateRead(c) PROVE WarmInv'
    BY <1>1 DEF EvaluateRead, WarmStep
  <1>2. ASSUME NEW c \in Calls, EvaluateWrite(c) PROVE WarmInv'
    <2>0. box' = [stage |-> box.stage + 1, served |-> FALSE, sent |-> 0, bounced |-> 0,
                  suspended |-> box.suspended]
      BY <1>2 DEF EvaluateWrite, Promoted, NewStage
    <2>1. box'.stage = box.stage + 1 /\ box'.served = FALSE /\ box' \in BoxRow
      BY <2>0 DEF BoxRow
    <2>2. WarmTypes'
      BY <1>2, <2>1 DEF EvaluateWrite, WarmStep, Idle
    <2>3. ASSUME ~twice' PROVE ~twice /\ \A d \in Calls \ {c} : ~AtStage(warmCall, d, "eligible")
      BY <1>2, <2>3 DEF EvaluateWrite
    <2>4. ASSUME ~twice', NEW d \in Calls PROVE ~AtStage(warmCall, d, "eligible")'
      BY <1>2, <2>3, <2>4 DEF EvaluateWrite, WarmStep, Idle
    <2>. QED BY <1>2, <2>1, <2>2, <2>3, <2>4 DEF EvaluateWrite
  <1>3. ASSUME NEW c \in Calls, WarmCallFails(c) PROVE WarmInv'
    BY <1>3 DEF WarmCallFails, WarmStep, Idle
  <1>4. CASE Served
    <2>1. box' \in BoxRow /\ box'.stage = box.stage /\ ~box.served
      BY <1>4 DEF Served
    <2>. QED BY <1>4, <2>1 DEF Served
  <1>5. CASE Reserve
    BY <1>5 DEF Reserve
  <1>6. CASE Bounce
    <2>. DEFINE counted == [box EXCEPT !.bounced = @ + 1]
    <2>1. PICK on \in BOOLEAN : box' = [counted EXCEPT !.suspended = on]
      BY <1>6, Zenon DEF Bounce
    <2>2. /\ counted \in BoxRow
          /\ counted.stage = box.stage /\ counted.served = box.served
      OBVIOUS
    <2>3. box' \in BoxRow /\ box'.stage = box.stage /\ box'.served = box.served
      <3>. HIDE DEF counted
      <3>. QED BY <2>1, <2>2
    <2>. QED BY <1>6, <2>3 DEF Bounce
  <1>7. ASSUME NEW on \in BOOLEAN, SendingStatus(on) PROVE WarmInv'
    <2>0. box' = [box EXCEPT !.suspended = on]
      BY <1>7, Zenon DEF SendingStatus
    <2>1. box' \in BoxRow /\ box'.stage = box.stage /\ box'.served = box.served
      BY <2>0
    <2>. QED BY <1>7, <2>1 DEF SendingStatus
  <1>. QED BY <1>1, <1>2, <1>3, <1>4, <1>5, <1>6, <1>7 DEF WarmNext

LEMMA WarmRests == WarmInv /\ UNCHANGED warmVars => WarmInv'
  BY DEF WarmInv, WarmTypes, warmVars, AtStage

-----------------------------------------------------------------------------
(* The mail domain                                                           *)

DomainCall ==
    {Idle} \cup [stage : {"adding", "asking", "activating", "removing"}, id : Nat]
           \cup [stage : {"answered"}, id : Nat, ok : BOOLEAN]

DomainRow == [id : Nat, ready : BOOLEAN, sending : BOOLEAN]

DomainTypes ==
    /\ mailDomain \in DomainRow
    /\ rows \in Nat /\ dns \in BOOLEAN /\ entwined \in BOOLEAN /\ removedOn \in BOOLEAN
    /\ domainCall \in [Calls -> DomainCall]

(* Ids are never used again: who holds the row's id has read this row.       *)
IdsAreOld ==
    /\ mailDomain.id <= rows /\ (mailDomain.id = 0 => ~mailDomain.sending)
    /\ \A c \in Calls : domainCall[c].stage \in {"activating", "removing"} =>
           domainCall[c].id # 0 /\ domainCall[c].id <= rows

(* What an activation or a removal has read of this row is still so.         *)
DomainInv ==
    /\ DomainTypes /\ IdsAreOld
    /\ ~entwined =>
         /\ mailDomain.sending => mailDomain.ready
         /\ ~removedOn
         /\ \A c \in Calls : SameRow(c) =>
              /\ AtStage(domainCall, c, "activating") => mailDomain.ready
              /\ AtStage(domainCall, c, "removing") => ~mailDomain.sending

LEMMA DomainBegins == DomainInit => DomainInv
  <1>. SUFFICES ASSUME DomainInit PROVE DomainInv
    OBVIOUS
  <1>1. mailDomain \in DomainRow /\ mailDomain.id = 0 /\ ~mailDomain.sending
    BY DEF DomainInit, NoDomain, DomainRow
  <1>2. domainCall \in [Calls -> DomainCall]
    BY DEF DomainInit, DomainCall
  <1>3. \A c \in Calls : domainCall[c].stage = "idle"
    BY DEF DomainInit, Idle
  <1>4. entwined \in BOOLEAN /\ removedOn \in BOOLEAN /\ dns \in BOOLEAN /\ ~removedOn /\ rows = 0
    BY DEF DomainInit
  <1>5. DomainTypes /\ IdsAreOld
    BY <1>1, <1>2, <1>3, <1>4 DEF DomainTypes, IdsAreOld
  <1>. QED BY <1>1, <1>3, <1>4, <1>5 DEF DomainInv, AtStage

LEMMA DomainSteps == DomainInv /\ DomainNext => DomainInv'
  <1>. USE DEF DomainTypes, IdsAreOld, DomainCall, DomainRow, DomainInv, AtStage,
           DomainStep, SameRow, Idle
  <1>. SUFFICES ASSUME DomainInv, DomainNext PROVE DomainInv'
    OBVIOUS
  <1>1. ASSUME NEW c \in Calls, AddRead(c) PROVE DomainInv'
    BY <1>1 DEF AddRead
  <1>2. ASSUME NEW c \in Calls, AddWrite(c) PROVE DomainInv'
    <2>1. domainCall' \in [Calls -> DomainCall] /\ domainCall'[c].stage = "idle"
      BY <1>2 DEF AddWrite
    <2>2. \A d \in Calls \ {c} : domainCall'[d] = domainCall[d]
      BY <1>2 DEF AddWrite
    <2>3. CASE mailDomain.id = 0
      <3>1. mailDomain' = [id |-> rows + 1, ready |-> FALSE, sending |-> FALSE] /\ rows' = rows + 1
        BY <1>2, <2>3 DEF AddWrite, NoDomain
      <3>. QED BY <1>2, <2>1, <2>2, <3>1 DEF AddWrite
    <2>4. CASE mailDomain.id # 0
      BY <1>2, <2>1, <2>2, <2>4 DEF AddWrite
    <2>. QED BY <2>3, <2>4
  <1>3. ASSUME NEW c \in Calls, CheckRead(c) PROVE DomainInv'
    BY <1>3 DEF CheckRead
  <1>4. ASSUME NEW c \in Calls, DnsAnswers(c) PROVE DomainInv'
    <2>1. PICK ok \in BOOLEAN :
            domainCall' = [domainCall EXCEPT
                             ![c] = [stage |-> "answered", id |-> domainCall[c].id, ok |-> ok]]
      BY <1>4 DEF DnsAnswers
    <2>. QED BY <1>4, <2>1 DEF DnsAnswers
  <1>5. ASSUME NEW c \in Calls, CheckWrite(c) PROVE DomainInv'
    <2>1. domainCall[c].ok \in BOOLEAN /\ domainCall'[c].stage = "idle"
      BY <1>5 DEF CheckWrite
    <2>2. /\ domainCall' \in [Calls -> DomainCall]
          /\ \A d \in Calls \ {c} : domainCall'[d] = domainCall[d]
      BY <1>5 DEF CheckWrite
    <2>3. entwined' \in BOOLEAN /\ (entwined => entwined')
      BY <1>5 DEF CheckWrite
    <2>4. ~entwined' => \A d \in Calls : domainCall'[d].stage # "activating"
      BY <1>5, <2>1, <2>2 DEF CheckWrite, Elsewhere
    <2>5. CASE SameRow(c)
      <3>1. /\ mailDomain' \in DomainRow /\ mailDomain'.id = mailDomain.id
            /\ mailDomain'.ready = domainCall[c].ok
            /\ mailDomain'.sending => mailDomain.sending /\ mailDomain'.ready
        BY <1>5, <2>1, <2>5 DEF CheckWrite, Checked
      <3>. QED BY <1>5, <2>1, <2>2, <2>3, <2>4, <3>1 DEF CheckWrite
    <2>6. CASE ~SameRow(c)
      BY <1>5, <2>1, <2>2, <2>3, <2>4, <2>6 DEF CheckWrite
    <2>. QED BY <2>5, <2>6
  <1>6. ASSUME NEW c \in Calls, ActivateRead(c) PROVE DomainInv'
    BY <1>6 DEF ActivateRead
  <1>7. ASSUME NEW c \in Calls, ActivateWrite(c) PROVE DomainInv'
    BY <1>7 DEF ActivateWrite, Elsewhere
  <1>8. ASSUME NEW c \in Calls, RemoveRead(c) PROVE DomainInv'
    BY <1>8 DEF RemoveRead
  <1>9. ASSUME NEW c \in Calls, RemoveWrite(c) PROVE DomainInv'
    <2>1. /\ domainCall' \in [Calls -> DomainCall] /\ domainCall'[c].stage = "idle"
          /\ \A d \in Calls \ {c} : domainCall'[d] = domainCall[d]
      BY <1>9 DEF RemoveWrite
    <2>2. CASE SameRow(c)
      <3>0. mailDomain' = [id |-> 0, ready |-> FALSE, sending |-> FALSE]
        BY <1>9, <2>2 DEF RemoveWrite, NoDomain
      <3>1. mailDomain' \in DomainRow /\ mailDomain'.id = 0 /\ ~mailDomain'.sending
        BY <3>0
      <3>2. removedOn' \in BOOLEAN /\ (~entwined => ~removedOn')
        BY <1>9, <2>2 DEF RemoveWrite
      <3>. QED BY <1>9, <2>1, <3>1, <3>2 DEF RemoveWrite
    <2>3. CASE ~SameRow(c)
      BY <1>9, <2>1, <2>3 DEF RemoveWrite
    <2>. QED BY <2>2, <2>3
  <1>10. ASSUME NEW c \in Calls, DomainCallFails(c) PROVE DomainInv'
    BY <1>10 DEF DomainCallFails
  <1>11. CASE RecordsChange
    BY <1>11 DEF RecordsChange
  <1>. QED BY <1>1, <1>2, <1>3, <1>4, <1>5, <1>6, <1>7, <1>8, <1>9, <1>10, <1>11 DEF DomainNext

LEMMA DomainRests == DomainInv /\ UNCHANGED domainVars => DomainInv'
  BY DEF DomainInv, DomainTypes, IdsAreOld, domainVars, AtStage, SameRow

-----------------------------------------------------------------------------
(* Policies                                                                  *)

PolicyStatuses == {"DRAFT", "ACTIVE", "ARCHIVED"}

PolicyCall ==
    {Idle} \cup [stage : {"numbered", "target"}, version : Nat]
           \cup [stage : {"archiving"}, version : Nat, seen : SUBSET Nat]

PolicyTypes ==
    /\ policies \in Seq(PolicyStatuses)
    /\ activated \in 0..Len(policies) /\ rivals \in BOOLEAN
    /\ policyCall \in [Calls -> PolicyCall]

(* An activation that is going to commit has seen what is active, since only *)
(* a rival could have changed it.                                            *)
PolicyInv ==
    /\ PolicyTypes
    /\ PolicyInForce
    /\ \A c \in Calls : policyCall[c].stage \in {"target", "archiving"} =>
           policyCall[c].version \in DOMAIN policies
    /\ ~rivals => \A c \in Calls : AtStage(policyCall, c, "archiving") =>
                      policyCall[c].seen = ActivePolicies

LEMMA PolicyBegins == PolicyInit => PolicyInv
  <1>. SUFFICES ASSUME PolicyInit PROVE PolicyInv
    OBVIOUS
  <1>1. policies \in Seq(PolicyStatuses) /\ Len(policies) = 0 /\ DOMAIN policies = {}
    BY DEF PolicyInit
  <1>2. policyCall \in [Calls -> PolicyCall] /\ \A c \in Calls : policyCall[c].stage = "idle"
    BY DEF PolicyInit, PolicyCall, Idle
  <1>3. activated = 0 /\ rivals \in BOOLEAN
    BY DEF PolicyInit
  <1>4. ActivePolicies = {}
    BY <1>1 DEF ActivePolicies
  <1>5. PolicyInForce
    BY <1>3, <1>4 DEF PolicyInForce
  <1>. QED BY <1>1, <1>2, <1>3, <1>5 DEF PolicyInv, PolicyTypes, AtStage

(* A step of one request that writes no policy.                              *)
LEMMA PolicyCallSteps ==
  ASSUME PolicyInv, NEW c \in Calls, NEW to \in PolicyCall, PolicyStep(c, to),
         UNCHANGED <<policies, activated, rivals>>,
         to.stage \in {"target", "archiving"} => to.version \in DOMAIN policies,
         to.stage = "archiving" => to.seen = ActivePolicies
  PROVE  PolicyInv'
  <1>1. policyCall' \in [Calls -> PolicyCall] /\ policyCall'[c] = to
    BY DEF PolicyInv, PolicyTypes, PolicyStep
  <1>2. \A d \in Calls \ {c} : policyCall'[d] = policyCall[d]
    BY DEF PolicyInv, PolicyTypes, PolicyStep
  <1>3. ActivePolicies' = ActivePolicies /\ PolicyInForce' = PolicyInForce
    BY DEF ActivePolicies, PolicyInForce
  <1>. QED BY <1>1, <1>2, <1>3 DEF PolicyInv, PolicyTypes, AtStage

LEMMA PolicyCreated == ASSUME PolicyInv, NEW c \in Calls, PolicyCreateWrite(c) PROVE PolicyInv'
  <1>1. /\ policyCall' \in [Calls -> PolicyCall] /\ policyCall'[c].stage = "idle"
        /\ \A d \in Calls \ {c} : policyCall'[d] = policyCall[d]
    BY DEF PolicyInv, PolicyTypes, PolicyCreateWrite, PolicyStep, PolicyCall, Idle
  <1>2. policies \in Seq(PolicyStatuses) /\ policies' \in {policies, Append(policies, "DRAFT")}
    BY DEF PolicyInv, PolicyTypes, PolicyCreateWrite
  <1>3. /\ policies' \in Seq(PolicyStatuses) /\ Len(policies) <= Len(policies')
        /\ DOMAIN policies \subseteq DOMAIN policies'
    BY <1>2 DEF PolicyStatuses
  <1>4. ActivePolicies' = ActivePolicies
    BY <1>2 DEF ActivePolicies
  <1>5. UNCHANGED <<activated, rivals>> /\ PolicyInForce'
    BY <1>4 DEF PolicyCreateWrite, PolicyInForce, PolicyInv
  <1>6. PolicyTypes'
    BY <1>1, <1>3, <1>5 DEF PolicyInv, PolicyTypes
  <1>. QED BY <1>1, <1>3, <1>4, <1>5, <1>6 DEF PolicyInv, AtStage

LEMMA PolicyActivated == ASSUME PolicyInv, NEW c \in Calls, ActivateCommit(c) PROVE PolicyInv'
  <1>. DEFINE v == policyCall[c].version
              seen == policyCall[c].seen
  <1>1. /\ policyCall' \in [Calls -> PolicyCall] /\ policyCall'[c].stage = "idle"
        /\ \A d \in Calls \ {c} : policyCall'[d] = policyCall[d]
    BY DEF PolicyInv, PolicyTypes, ActivateCommit, PolicyStep, PolicyCall, Idle
  <1>2. policies \in Seq(PolicyStatuses) /\ DOMAIN policies = 1..Len(policies)
    BY DEF PolicyInv, PolicyTypes
  <1>3. v \in 1..Len(policies) /\ AtStage(policyCall, c, "archiving")
    BY <1>2 DEF PolicyInv, ActivateCommit, AtStage
  <1>4. policies' = [w \in 1..Len(policies) |->
                       IF w = v THEN "ACTIVE"
                       ELSE IF w \in seen /\ policies[w] = "ACTIVE"
                            THEN "ARCHIVED" ELSE policies[w]]
    BY <1>2 DEF ActivateCommit
  <1>5. /\ policies' \in Seq(PolicyStatuses) /\ Len(policies') = Len(policies)
        /\ DOMAIN policies' = DOMAIN policies
    <2>1. policies' \in [1..Len(policies) -> PolicyStatuses]
      BY <1>2, <1>4 DEF PolicyStatuses
    <2>. QED BY <1>2, <2>1
  <1>6. activated' = v /\ rivals' \in BOOLEAN /\ (rivals => rivals')
    BY DEF ActivateCommit, PolicyInv, PolicyTypes
  <1>7. ~rivals' => \A d \in Calls : policyCall'[d].stage # "archiving"
    BY <1>1 DEF ActivateCommit, AtStage
  <1>8. v \in ActivePolicies'
    BY <1>3, <1>4, <1>5 DEF ActivePolicies
  <1>9. ASSUME ~rivals' PROVE ActivePolicies' = {v}
    <2>1. seen = ActivePolicies
      BY <1>3, <1>6, <1>9 DEF PolicyInv
    <2>. QED BY <1>2, <1>3, <1>4, <1>5, <2>1 DEF ActivePolicies
  <1>10. PolicyInForce'
    BY <1>3, <1>6, <1>8, <1>9 DEF PolicyInForce
  <1>11. PolicyTypes'
    BY <1>1, <1>3, <1>5, <1>6 DEF PolicyTypes
  <1>. QED BY <1>1, <1>5, <1>7, <1>10, <1>11 DEF PolicyInv, AtStage

LEMMA PolicySteps == PolicyInv /\ PolicyNext => PolicyInv'
  <1>. SUFFICES ASSUME PolicyInv, NEW c \in Calls,
                       \/ PolicyCreateRead(c) \/ PolicyCreateWrite(c)
                       \/ \E v \in DOMAIN policies : Target(c, v)
                       \/ Archive(c) \/ ActivateCommit(c) \/ PolicyRollback(c)
                PROVE  PolicyInv'
    BY DEF PolicyNext
  <1>1. policies \in Seq(PolicyStatuses) /\ DOMAIN policies = 1..Len(policies)
    BY DEF PolicyInv, PolicyTypes
  <1>2. CASE PolicyCreateRead(c)
    <2>1. [stage |-> "numbered", version |-> Len(policies) + 1] \in PolicyCall
      BY <1>1 DEF PolicyCall
    <2>. QED BY <1>2, <2>1, PolicyCallSteps DEF PolicyCreateRead
  <1>3. ASSUME NEW v \in DOMAIN policies, Target(c, v) PROVE PolicyInv'
    <2>1. [stage |-> "target", version |-> v] \in PolicyCall
      BY <1>1 DEF PolicyCall
    <2>. QED BY <1>3, <2>1, PolicyCallSteps DEF Target
  <1>4. CASE Archive(c)
    <2>. DEFINE to == [stage |-> "archiving", version |-> policyCall[c].version,
                       seen |-> ActivePolicies]
    <2>1. policyCall[c].version \in DOMAIN policies
      BY <1>4 DEF Archive, AtStage, PolicyInv
    <2>2. ActivePolicies \subseteq Nat
      BY <1>1 DEF ActivePolicies
    <2>3. to \in PolicyCall
      BY <1>1, <2>1, <2>2 DEF PolicyCall
    <2>. QED BY <1>4, <2>1, <2>3, PolicyCallSteps DEF Archive, Superseded
  <1>5. CASE PolicyRollback(c)
    <2>1. Idle \in PolicyCall /\ Idle.stage = "idle"
      BY DEF PolicyCall, Idle
    <2>. QED BY <1>5, <2>1, PolicyCallSteps DEF PolicyRollback
  <1>. QED BY <1>2, <1>3, <1>4, <1>5, PolicyCreated, PolicyActivated

LEMMA PolicyRests == PolicyInv /\ UNCHANGED policyVars => PolicyInv'
  BY DEF PolicyInv, PolicyTypes, PolicyInForce, ActivePolicies, policyVars, AtStage

-----------------------------------------------------------------------------
(* Support grants                                                            *)

Grant == [member : Supporters, state : {"running", "revoked", "expired"}]

GrantCall ==
    {Idle} \cup [stage : {"found", "cleared"}, member : Supporters]
           \cup [stage : {"revoking"}, grant : Nat]

GrantTypes ==
    /\ grants \in Seq(Grant)
    /\ active \subseteq Supporters
    /\ grantCall \in [Calls -> GrantCall]

Runs(gs, g) == gs[g].state = "running"

(* Two grants that run are not of one member; and while a create that has    *)
(* revoked what ran has not inserted yet, nothing of its member runs.        *)
GrantInv ==
    /\ GrantTypes
    /\ \A g, h \in DOMAIN grants :
           Runs(grants, g) /\ Runs(grants, h) /\ grants[g].member = grants[h].member
             /\ grants[g].member \notin twofold => g = h
    /\ \A c \in Calls, g \in DOMAIN grants :
           AtStage(grantCall, c, "cleared") /\ Runs(grants, g)
             /\ grants[g].member = grantCall[c].member => grants[g].member \in twofold

LEMMA GrantBegins == GrantInit => GrantInv
  <1>. SUFFICES ASSUME GrantInit PROVE GrantInv
    OBVIOUS
  <1>1. grants \in Seq(Grant) /\ DOMAIN grants = {}
    BY DEF GrantInit
  <1>2. grantCall \in [Calls -> GrantCall]
    BY DEF GrantInit, GrantCall
  <1>. QED BY <1>1, <1>2 DEF GrantInit, GrantInv, GrantTypes

(* The grants stay, or some stop running; no call becomes "cleared".         *)
LEMMA GrantsOnlyStop ==
  ASSUME GrantInv, grants' \in Seq(Grant), DOMAIN grants' = DOMAIN grants,
         \A g \in DOMAIN grants : /\ grants'[g].member = grants[g].member
                                  /\ Runs(grants', g) => Runs(grants, g),
         active' \subseteq Supporters, grantCall' \in [Calls -> GrantCall],
         \A c \in Calls : AtStage(grantCall, c, "cleared")' => grantCall'[c] = grantCall[c],
         UNCHANGED twofold
  PROVE  GrantInv'
  <1>1. ASSUME NEW g \in DOMAIN grants, NEW h \in DOMAIN grants, Runs(grants', g), Runs(grants', h),
               grants'[g].member = grants'[h].member, grants'[g].member \notin twofold
        PROVE  g = h
    <2>1. /\ Runs(grants, g) /\ Runs(grants, h)
          /\ grants'[g].member = grants[g].member /\ grants'[h].member = grants[h].member
      BY <1>1
    <2>. QED BY <1>1, <2>1 DEF GrantInv
  <1>2. ASSUME NEW c \in Calls, NEW g \in DOMAIN grants, AtStage(grantCall, c, "cleared")',
               Runs(grants', g), grants'[g].member = grantCall'[c].member
        PROVE  grants'[g].member \in twofold
    <2>1. Runs(grants, g) /\ grants'[g].member = grants[g].member
      BY <1>2
    <2>2. AtStage(grantCall, c, "cleared") /\ grantCall'[c] = grantCall[c]
      BY <1>2 DEF AtStage
    <2>. QED BY <1>2, <2>1, <2>2 DEF GrantInv
  <1>. QED BY <1>1, <1>2 DEF GrantInv, GrantTypes

LEMMA RevokedGrants ==
  ASSUME GrantInv, NEW G, grants' = Revoked(G)
  PROVE  /\ grants' \in Seq(Grant) /\ DOMAIN grants' = DOMAIN grants
         /\ \A g \in DOMAIN grants : /\ grants'[g].member = grants[g].member
                                     /\ Runs(grants', g) => Runs(grants, g) /\ g \notin G
  <1>1. grants \in Seq(Grant) /\ DOMAIN grants = 1..Len(grants) /\ Len(grants) \in Nat
    BY DEF GrantInv, GrantTypes
  <1>2. \A g \in DOMAIN grants : grants[g] \in Grant
    BY <1>1
  <1>3. \A g \in DOMAIN grants : [grants[g] EXCEPT !.state = "revoked"] \in Grant
    BY <1>2 DEF Grant
  <1>4. DOMAIN grants' = DOMAIN grants
    BY DEF Revoked
  <1>5. \A g \in DOMAIN grants :
           grants'[g] = IF g \in G THEN [grants[g] EXCEPT !.state = "revoked"] ELSE grants[g]
    BY DEF Revoked
  <1>6. grants' \in [1..Len(grants) -> Grant]
    BY <1>1, <1>2, <1>3 DEF Revoked
  <1>7. grants' \in Seq(Grant)
    BY <1>1, <1>6
  <1>8. ASSUME NEW g \in DOMAIN grants
        PROVE  /\ grants'[g].member = grants[g].member
               /\ Runs(grants', g) => Runs(grants, g) /\ g \notin G
    <2>1. CASE g \in G
      <3>1. grants'[g] = [grants[g] EXCEPT !.state = "revoked"]
        BY <1>5, <2>1
      <3>2. grants'[g].member = grants[g].member /\ grants'[g].state = "revoked"
        BY <1>2, <3>1 DEF Grant
      <3>. QED BY <3>2 DEF Runs
    <2>2. CASE g \notin G
      BY <1>5, <2>2 DEF Runs
    <2>. QED BY <2>1, <2>2
  <1>. QED BY <1>4, <1>7, <1>8

(* A call goes on to anything but "cleared".                                 *)
LEMMA GrantCallSteps ==
  ASSUME GrantTypes, NEW c \in Calls, NEW to \in GrantCall, GrantStep(c, to),
         to.stage # "cleared"
  PROVE  /\ grantCall' \in [Calls -> GrantCall]
         /\ \A d \in Calls : AtStage(grantCall, d, "cleared")' => grantCall'[d] = grantCall[d]
  BY DEF GrantTypes, GrantStep, AtStage

LEMMA GrantsStay ==
  ASSUME GrantInv, UNCHANGED grants
  PROVE  /\ grants' \in Seq(Grant) /\ DOMAIN grants' = DOMAIN grants
         /\ \A g \in DOMAIN grants : /\ grants'[g].member = grants[g].member
                                     /\ Runs(grants', g) => Runs(grants, g)
  BY DEF GrantInv, GrantTypes, Runs

LEMMA GrantRead ==
  ASSUME GrantInv, NEW c \in Calls, NEW to \in GrantCall, GrantStep(c, to),
         to.stage # "cleared", UNCHANGED <<grants, active, twofold>>
  PROVE  GrantInv'
  <1>1. GrantTypes
    BY DEF GrantInv
  <1>2. active' \subseteq Supporters
    BY DEF GrantInv, GrantTypes
  <1>. QED BY <1>1, <1>2, GrantCallSteps, GrantsStay, GrantsOnlyStop

LEMMA GrantCleared == ASSUME GrantInv, NEW c \in Calls, CreateRevoke(c) PROVE GrantInv'
  <1>. DEFINE m == grantCall[c].member
  <1>1. grantCall[c] \in GrantCall /\ grantCall[c].stage = "found"
    BY DEF GrantInv, GrantTypes, CreateRevoke, AtStage
  <1>2. grantCall[c] \in [stage : {"found", "cleared"}, member : Supporters]
    BY <1>1 DEF GrantCall, Idle
  <1>3. /\ [grantCall[c] EXCEPT !.stage = "cleared"] \in GrantCall
        /\ [grantCall[c] EXCEPT !.stage = "cleared"].member = m
    BY <1>2 DEF GrantCall
  <1>4. /\ grantCall' \in [Calls -> GrantCall] /\ grantCall'[c].member = m
        /\ \A d \in Calls \ {c} : grantCall'[d] = grantCall[d]
    BY <1>3 DEF GrantInv, GrantTypes, CreateRevoke, GrantStep
  <1>5. UNCHANGED <<active, twofold>> /\ grants' = Revoked(Running(m))
    BY DEF CreateRevoke, Replaced
  <1>6. /\ grants' \in Seq(Grant) /\ DOMAIN grants' = DOMAIN grants
        /\ \A g \in DOMAIN grants : /\ grants'[g].member = grants[g].member
                                    /\ Runs(grants', g) => Runs(grants, g) /\ g \notin Running(m)
    BY <1>5, RevokedGrants
  <1>7. \A g \in DOMAIN grants : grants[g] \in Grant
    BY DEF GrantInv, GrantTypes
  <1>8. \A g \in DOMAIN grants : Runs(grants', g) => grants'[g].member # m
    <2>1. \A g \in DOMAIN grants : Runs(grants, g) /\ grants[g].member = m => g \in Running(m)
      BY <1>7 DEF Running, Runs, Grant
    <2>. QED BY <1>6, <2>1
  <1>9. \A g, h \in DOMAIN grants :
           Runs(grants', g) /\ Runs(grants', h) /\ grants'[g].member = grants'[h].member
             /\ grants'[g].member \notin twofold => g = h
    BY <1>6 DEF GrantInv
  <1>10. ASSUME NEW d \in Calls, NEW g \in DOMAIN grants, AtStage(grantCall, d, "cleared")',
                Runs(grants', g), grants'[g].member = grantCall'[d].member
         PROVE  grants'[g].member \in twofold
    <2>1. d # c
      BY <1>4, <1>8, <1>10
    <2>. QED BY <1>4, <1>6, <1>10, <2>1 DEF GrantInv, AtStage
  <1>11. GrantTypes'
    BY <1>4, <1>5, <1>6 DEF GrantInv, GrantTypes
  <1>. QED BY <1>5, <1>6, <1>9, <1>10, <1>11 DEF GrantInv

LEMMA GrantInserted == ASSUME GrantInv, NEW c \in Calls, CreateInsert(c) PROVE GrantInv'
  <1>. DEFINE m == grantCall[c].member
              new == [member |-> m, state |-> "running"]
  <1>1. grantCall[c] \in GrantCall /\ AtStage(grantCall, c, "cleared")
    BY DEF GrantInv, GrantTypes, CreateInsert
  <1>2. m \in Supporters
    BY <1>1 DEF GrantCall, Idle, AtStage
  <1>3. new \in Grant
    BY <1>2 DEF Grant
  <1>4. grants \in Seq(Grant) /\ grants' = Append(grants, new) /\ UNCHANGED active
    BY DEF GrantInv, GrantTypes, CreateInsert
  <1>5. /\ grants' \in Seq(Grant)
        /\ DOMAIN grants' = DOMAIN grants \cup {Len(grants) + 1}
        /\ Len(grants) + 1 \notin DOMAIN grants
        /\ grants'[Len(grants) + 1] = new
        /\ \A g \in DOMAIN grants : grants'[g] = grants[g]
    BY <1>3, <1>4
  <1>6. /\ grantCall' \in [Calls -> GrantCall] /\ ~AtStage(grantCall, c, "cleared")'
        /\ \A d \in Calls \ {c} : grantCall'[d] = grantCall[d]
    BY DEF GrantInv, GrantTypes, CreateInsert, GrantStep, GrantCall, Idle, AtStage
  <1>7. twofold \subseteq twofold'
    BY DEF CreateInsert
  <1>8. ASSUME NEW d \in Calls \ {c}, AtStage(grantCall, d, "cleared"), grantCall[d].member = m
        PROVE  m \in twofold'
    BY <1>8 DEF CreateInsert
  <1>9. \A g \in DOMAIN grants : Runs(grants, g) /\ grants[g].member = m => m \in twofold
    BY <1>1 DEF GrantInv
  <1>10. ASSUME NEW g \in DOMAIN grants', NEW h \in DOMAIN grants',
                Runs(grants', g), Runs(grants', h),
                grants'[g].member = grants'[h].member, grants'[g].member \notin twofold'
         PROVE  g = h
    <2>1. CASE g \in DOMAIN grants /\ h \in DOMAIN grants
      BY <1>5, <1>7, <1>10, <2>1 DEF GrantInv, Runs
    <2>2. CASE g = Len(grants) + 1 /\ h \in DOMAIN grants
      BY <1>5, <1>7, <1>9, <1>10, <2>2 DEF Runs
    <2>3. CASE g \in DOMAIN grants /\ h = Len(grants) + 1
      BY <1>5, <1>7, <1>9, <1>10, <2>3 DEF Runs
    <2>. QED BY <1>5, <2>1, <2>2, <2>3
  <1>11. ASSUME NEW d \in Calls, NEW g \in DOMAIN grants', AtStage(grantCall, d, "cleared")',
                Runs(grants', g), grants'[g].member = grantCall'[d].member
         PROVE  grants'[g].member \in twofold'
    <2>1. d \in Calls \ {c} /\ AtStage(grantCall, d, "cleared") /\ grantCall'[d] = grantCall[d]
      BY <1>6, <1>11 DEF AtStage
    <2>2. CASE g \in DOMAIN grants
      BY <1>5, <1>7, <1>11, <2>1, <2>2 DEF GrantInv, Runs
    <2>3. CASE g = Len(grants) + 1
      BY <1>5, <1>8, <1>11, <2>1, <2>3
    <2>. QED BY <1>5, <2>2, <2>3
  <1>12. GrantTypes'
    BY <1>4, <1>5, <1>6 DEF GrantInv, GrantTypes
  <1>. QED BY <1>10, <1>11, <1>12 DEF GrantInv

LEMMA GrantSteps == GrantInv /\ GrantNext => GrantInv'
  <1>. SUFFICES ASSUME GrantInv, GrantNext PROVE GrantInv'
    OBVIOUS
  <1>0. GrantTypes /\ DOMAIN grants \subseteq Nat /\ active \subseteq Supporters
    BY DEF GrantInv, GrantTypes
  <1>1. ASSUME NEW c \in Calls, NEW m \in Supporters, CreateRead(c, m) PROVE GrantInv'
    <2>1. [stage |-> "found", member |-> m] \in GrantCall
      BY DEF GrantCall
    <2>. QED BY <1>1, <2>1, GrantRead DEF CreateRead
  <1>2. ASSUME NEW c \in Calls, CreateRevoke(c) PROVE GrantInv'
    BY <1>2, GrantCleared
  <1>3. ASSUME NEW c \in Calls, CreateInsert(c) PROVE GrantInv'
    BY <1>3, GrantInserted
  <1>4. ASSUME NEW c \in Calls, RevokeWrite(c) PROVE GrantInv'
    <2>1. Idle \in GrantCall /\ Idle.stage # "cleared"
      BY DEF GrantCall, Idle
    <2>2. /\ grantCall' \in [Calls -> GrantCall]
          /\ \A d \in Calls : AtStage(grantCall, d, "cleared")' => grantCall'[d] = grantCall[d]
      BY <1>0, <1>4, <2>1, GrantCallSteps DEF RevokeWrite
    <2>. QED BY <1>0, <1>4, <2>2, RevokedGrants, GrantsOnlyStop DEF RevokeWrite
  <1>5. ASSUME NEW c \in Calls, GrantCallFails(c) PROVE GrantInv'
    <2>1. Idle \in GrantCall /\ Idle.stage # "cleared"
      BY DEF GrantCall, Idle
    <2>. QED BY <1>5, <2>1, GrantRead DEF GrantCallFails
  <1>6. ASSUME NEW c \in Calls, NEW g \in DOMAIN grants, RevokeRead(c, g) \/ ConsoleRevokeRead(c, g)
        PROVE  GrantInv'
    <2>1. [stage |-> "revoking", grant |-> g] \in GrantCall
      BY <1>0 DEF GrantCall
    <2>. QED BY <1>6, <2>1, GrantRead DEF RevokeRead, ConsoleRevokeRead
  <1>7. ASSUME NEW g \in DOMAIN grants, GrantExpires(g) PROVE GrantInv'
    <2>1. grants \in Seq(Grant) /\ DOMAIN grants = 1..Len(grants) /\ grants[g] \in Grant
      BY <1>0 DEF GrantTypes
    <2>2. [grants[g] EXCEPT !.state = "expired"] \in Grant
      BY <2>1 DEF Grant
    <2>3. grants' = [grants EXCEPT ![g] = [grants[g] EXCEPT !.state = "expired"]]
      BY <1>7 DEF GrantExpires
    <2>4. grants' \in Seq(Grant) /\ DOMAIN grants' = DOMAIN grants
      BY <2>1, <2>2, <2>3
    <2>5. \A h \in DOMAIN grants : /\ grants'[h].member = grants[h].member
                                   /\ Runs(grants', h) => Runs(grants, h)
      BY <1>7, <2>1, <2>3 DEF Grant, Runs, GrantExpires
    <2>. QED BY <1>0, <1>7, <2>4, <2>5, GrantsOnlyStop DEF GrantExpires, GrantTypes
  <1>8. ASSUME NEW m \in Supporters, SupporterChanges(m) PROVE GrantInv'
    <2>1. active' \subseteq Supporters
      BY <1>0, <1>8 DEF SupporterChanges
    <2>2. UNCHANGED <<grants, grantCall, twofold>>
      BY <1>8 DEF SupporterChanges
    <2>. QED BY <1>0, <2>1, <2>2, GrantsStay, GrantsOnlyStop DEF GrantTypes
  <1>. QED BY <1>1, <1>2, <1>3, <1>4, <1>5, <1>6, <1>7, <1>8 DEF GrantNext

LEMMA GrantRests == GrantInv /\ UNCHANGED grantVars => GrantInv'
  BY DEF GrantInv, GrantTypes, grantVars, AtStage, Runs

LEMMA GrantInvCounts == GrantInv => OneGrant
  <1>. SUFFICES ASSUME GrantInv, NEW m \in Supporters \ twofold PROVE Cardinality(Running(m)) <= 1
    BY DEF OneGrant
  <1>1. \A g, h \in Running(m) : g = h
    BY DEF GrantInv, Running, Runs
  <1>2. CASE Running(m) = {}
    BY <1>2, FS_EmptySet
  <1>3. CASE Running(m) # {}
    <2>1. PICK g : Running(m) = {g}
      BY <1>1, <1>3
    <2>2. Cardinality({g}) = 1
      BY FS_Singleton
    <2>. QED BY <2>1, <2>2
  <1>. QED BY <1>2, <1>3

-----------------------------------------------------------------------------
(* The four desks                                                            *)

settings == <<grantVars, policyVars, domainVars, warmVars, desk>>

DesksInv == GrantInv /\ PolicyInv /\ DomainInv /\ WarmInv

LEMMA DesksBegin == SettingsInit => DesksInv
  BY GrantBegins, PolicyBegins, DomainBegins, WarmBegins DEF SettingsInit, DesksInv

(* A step at one desk leaves the other three as they are.                    *)
LEMMA DesksStep == DesksInv /\ [SettingsNext]_settings => DesksInv'
  <1>. SUFFICES ASSUME DesksInv, [SettingsNext]_settings PROVE DesksInv'
    OBVIOUS
  <1>1. GrantNext \/ UNCHANGED grantVars
    BY DEF SettingsNext, settings, OnDesk
  <1>2. PolicyNext \/ UNCHANGED policyVars
    BY DEF SettingsNext, settings, OnDesk
  <1>3. DomainNext \/ UNCHANGED domainVars
    BY DEF SettingsNext, settings, OnDesk
  <1>4. WarmNext \/ UNCHANGED warmVars
    BY DEF SettingsNext, settings, OnDesk
  <1>. QED BY <1>1, <1>2, <1>3, <1>4, GrantSteps, GrantRests, PolicySteps, PolicyRests,
              DomainSteps, DomainRests, WarmSteps, WarmRests DEF DesksInv

LEMMA DesksHold == SettingsSpec => []DesksInv
  BY DesksBegin, DesksStep, PTL DEF SettingsSpec, settings

(* For any number of support members, grants and racing requests, a member   *)
(* holds two running grants only after two creates for this member crossed   *)
(* (support.service.ts: createGrant).                                        *)
THEOREM GrantsReplaced == SettingsSpec => []OneGrant
  BY DesksHold, GrantInvCounts, PTL DEF DesksInv

(* For any number of versions and racing requests, a policy once activated   *)
(* is never without an active version, and it is the last one activated      *)
(* unless two activations crossed (policy.service.ts: activate).             *)
THEOREM PolicyStaysInForce == SettingsSpec => []PolicyInForce
  <1>1. DesksInv => PolicyInForce
    BY DEF DesksInv, PolicyInv
  <1>. QED BY <1>1, DesksHold, PTL

(* For any number of racing requests and of times the domain is removed and  *)
(* added again, sending is on only while the checks pass, unless an          *)
(* activation crossed a check or a removal (domain.service.ts: activate).    *)
THEOREM SendingStaysChecked == SettingsSpec => []SendingIsChecked
  <1>1. DesksInv => SendingIsChecked
    BY DEF DesksInv, DomainInv, SendingIsChecked
  <1>. QED BY <1>1, DesksHold, PTL

(* For any number of racing evaluations, a mailbox is promoted once for each *)
(* time the days of a stage have passed, and never past the last, unless two *)
(* crossed (delivery-protection.service.ts: evaluateWarmup).                 *)
THEOREM StagesAreEarned == SettingsSpec => []StageEarned
  <1>1. DesksInv => StageEarned
    BY DEF DesksInv, WarmInv, StageEarned
  <1>. QED BY <1>1, DesksHold, PTL

-----------------------------------------------------------------------------
(* Billing: types                                                          *)

USE BillingAssumption DEF Lasting, Effective, history

Pcs == {"idle", "upsert", "invoice", "cancel", "current", "sync", "record"}
Codes == Plans \cup {Starter, NoPlan}
USE DEF Codes
SubRec == [status : Statuses, plan : Plans \cup {NoPlan}, price : Codes, ending : BOOLEAN,
           customer : SUBSET Subs]
EventRec == [type : {"created", "completed", "invoice", "updated", "deleted"}, sub : Subs,
             status : Statuses, plan : Plans, price : Codes, ending : BOOLEAN]
RowRec == [status : Statuses, plan : Plans \cup {NoPlan}, ending : BOOLEAN, at : Nat, seen : Nat]
HookRec == [pc : Pcs, event : Nat, plan : Codes, late : BOOLEAN]
OwnerRec == [pc : {"idle", "stripe", "write"}, sub : SUBSET Subs, ending : BOOLEAN, event : Nat]

Typed ==
  /\ stripe \in [Subs -> SubRec] /\ events \in Seq(EventRec)
  /\ invoices \subseteq Subs /\ faults \in Nat
  /\ mixed \subseteq Subs /\ early \subseteq Subs /\ crossed \in BOOLEAN
  /\ row \in [Subs -> RowRec] /\ planCode \in Codes
  /\ hook \in [Hooks -> HookRec] /\ owner \in OwnerRec
  /\ owner.pc # "idle" => \E s \in Rows : owner.sub = {s}

-----------------------------------------------------------------------------
(* Billing: the invariant                                                  *)

Writes(e) == events[e].type # "invoice"
Sets(e) == events[e].type \in {"created", "updated"}
Of(s) == {e \in DOMAIN events : Sub(e) = s}

\* What Stripe has sent of a subscription: first that it was created, last, if so, that it was
\* deleted, and its last snapshots are what it is.
Snapshots ==
  \A e \in DOMAIN events :
    /\ stripe[Sub(e)].status # "none" /\ events[e].plan = stripe[Sub(e)].plan
    /\ events[e].type \in {"created", "completed"} => events[e].status = "active"
    /\ events[e].type = "updated" => events[e].status \in Lasting
    /\ events[e].type = "deleted" =>
         /\ events[e].status = "canceled" /\ stripe[Sub(e)].status = "canceled"
         /\ \A d \in Of(Sub(e)) : d <= e
First(f, s) ==
  /\ f \in Of(s) /\ events[f].type = "created"
  /\ \A e \in Of(s) : f <= e /\ (events[e].type = "created" => e = f)
LastWrite(l, s) ==
  /\ l \in Of(s) /\ Writes(l) /\ \A e \in Of(s) : Writes(e) => e <= l
  /\ events[l].status = stripe[s].status
LastSet(l, s) ==
  /\ l \in Of(s) /\ Sets(l) /\ \A e \in Of(s) : Sets(e) => e <= l
  /\ events[l].ending = stripe[s].ending
Log ==
  /\ Snapshots
  /\ \A s \in Subs : stripe[s].status # "none" =>
       (\E f \in DOMAIN events : First(f, s)) /\ (\E l \in DOMAIN events : LastWrite(l, s))
       /\ (\E l \in DOMAIN events : LastSet(l, s))

\* The event has been written down, by a delivery that has recorded it or is going to.
Done(h) == hook[h].pc \in {"current", "sync", "record"}
Written(e) == e \in recorded \/ \E h \in Hooks : Done(h) /\ hook[h].event = e

\* What a delivery does next is what its event is about.
Meant(h) ==
  LET e == hook[h].event IN
    /\ ~At(h, "idle") => e \in DOMAIN events
    /\ At(h, "upsert") => Upserts(e)
    /\ hook[h].pc \in {"cancel", "current"} => events[e].type = "deleted" /\ Sub(e) \in Rows
    /\ At(h, "invoice") => events[e].type = "invoice"
    /\ At(h, "sync") => /\ Writes(e) /\ events[e].status \in Effective \cup {"canceled"}
                        /\ Sub(e) \in Rows /\ hook[h].plan \in Plans \cup {Starter}
Meanings == \A h \in Hooks : Meant(h)

\* Where a row comes from, and what of it never changes.
Stored ==
  /\ recorded \subseteq DOMAIN events
  /\ \A s \in Subs :
       /\ row[s].seen = 0 \/ row[s].seen \in Of(s)
       /\ s \in Rows => stripe[s].status # "none" /\ row[s].plan = stripe[s].plan
  /\ \A e \in DOMAIN events : Written(e) =>
       /\ Upserts(e) => Sub(e) \in Rows
       /\ events[e].type = "invoice" => Sub(e) \in invoices \cup early

\* What the owner has asked for is what Stripe was told last.
Asked ==
  owner.pc = "write" =>
    /\ owner.event <= Len(events)
    /\ \A s \in Subs : owner.sub = {s} =>
      \E l \in Of(s) : /\ Sets(l) /\ l <= owner.event /\ events[l].ending = owner.ending
                       /\ \A e \in Of(s) : Sets(e) /\ e <= owner.event => e <= l

\* The row was written by something newer than the first event, which is still to come.
Spoiled(s) ==
  \E f \in Of(s) : events[f].type = "created" /\ ~Written(f) /\ f < row[s].seen

\* The row is the newest of what has been written down.
Followed(s) ==
  /\ \A e \in Of(s) : Writes(e) /\ Written(e) => e <= row[s].seen
  /\ s \in Rows => /\ row[s].seen \in DOMAIN events /\ Writes(row[s].seen)
                   /\ row[s].status = events[row[s].seen].status
  /\ Live(s) => \A l \in Of(s) :
       Sets(l) /\ (\A e \in Of(s) : Sets(e) => e <= l) /\ Written(l) => row[s].ending = events[l].ending
Follows == \A s \in Subs \ mixed : Spoiled(s) \/ Followed(s)

\* The plan code is the plan of the only active subscription, or the free plan, ...
Right(plan) ==
  /\ \A s \in Subs :
       row[s].status \in Effective /\ (\A t \in Subs \ {s} : ~Live(t)) => plan = row[s].plan
  /\ Rows # {} /\ (\A s \in Subs : ~Live(s)) => plan = Starter
\* ... or some event that decides it has changed a row and is not settled.
Open(e) ==
  /\ Writes(e) /\ events[e].status \in Effective \cup {"canceled"}
  /\ Sub(e) \in Rows /\ e \notin recorded
  /\ \A h \in Hooks : hook[h].event = e => ~At(h, "record")
Synced ==
  /\ \A h \in Hooks : At(h, "sync") /\ ~hook[h].late => Right(hook[h].plan)
  /\ mixed = {} /\ ~crossed => \/ Right(planCode) \/ (\E e \in DOMAIN events : Open(e))
                               \/ \E s \in Subs : Spoiled(s)

BillingInv ==
  /\ Typed /\ Log /\ Meanings /\ Stored /\ Asked /\ Follows /\ Synced

LEMMA TypesHold ==
  ASSUME Typed, Meanings, recorded \subseteq DOMAIN events
  PROVE  TypeOK
  BY DEF Typed, Meanings, Meant, TypeOK, SubRec, EventRec, RowRec, HookRec, OwnerRec, Pcs, Codes

LEMMA EventFields ==
  ASSUME Typed
  PROVE  /\ Len(events) \in Nat /\ DOMAIN events = 1..Len(events)
         /\ \A e \in DOMAIN events :
              /\ e \in Nat /\ e >= 1 /\ events[e] \in EventRec
              /\ Sub(e) \in Subs /\ events[e].plan \in Plans /\ events[e].status \in Statuses
              /\ events[e].ending \in BOOLEAN
              /\ events[e].type \in {"created", "completed", "invoice", "updated", "deleted"}
<1>1. events \in Seq(EventRec)
  BY DEF Typed
<1>2. Len(events) \in Nat /\ DOMAIN events = 1..Len(events)
  BY <1>1
<1>3. ASSUME NEW e \in DOMAIN events PROVE e \in Nat /\ e >= 1 /\ events[e] \in EventRec
  BY <1>1, <1>2
<1> QED
  BY <1>2, <1>3 DEF EventRec, Sub

LEMMA HookFields ==
  ASSUME Typed, NEW h \in Hooks
  PROVE  /\ hook[h] \in HookRec /\ hook[h].pc \in Pcs /\ hook[h].event \in Nat
         /\ hook[h].plan \in Plans \cup {Starter, NoPlan} /\ hook[h].late \in BOOLEAN
  BY DEF Typed, HookRec

LEMMA RowFields ==
  ASSUME Typed, NEW s \in Subs
  PROVE  /\ row[s] \in RowRec /\ row[s].status \in Statuses /\ row[s].plan \in Plans \cup {NoPlan}
         /\ row[s].ending \in BOOLEAN /\ row[s].at \in Nat /\ row[s].seen \in Nat
  BY DEF Typed, RowRec

LEMMA SubFields ==
  ASSUME Typed, NEW s \in Subs
  PROVE  /\ stripe[s] \in SubRec /\ stripe[s].status \in Statuses /\ stripe[s].ending \in BOOLEAN
         /\ stripe[s].plan \in Plans \cup {NoPlan} /\ stripe[s].customer \in SUBSET Subs
  BY DEF Typed, SubRec

\* A delivery that goes on, with the others as they were.
HookGoes(h, pc, e) ==
  /\ hook'[h].pc = pc /\ hook'[h].event = e
  /\ \A g \in Hooks \ {h} : /\ hook'[g].pc = hook[g].pc /\ hook'[g].event = hook[g].event
                            /\ hook'[g].plan = hook[g].plan
OthersStay(h) == \A g \in Hooks \ {h} : hook'[g] = hook[g]

LEMMA GotoDoes ==
  ASSUME Typed, NEW h \in Hooks, NEW pc \in Pcs, Goto(h, pc)
  PROVE  /\ hook' \in [Hooks -> HookRec] /\ OthersStay(h) /\ HookGoes(h, pc, hook[h].event)
         /\ hook'[h].plan = hook[h].plan /\ hook'[h].late = hook[h].late
<1> DEFINE new == [hook[h] EXCEPT !.pc = pc]
<1>1. new \in HookRec /\ new.pc = pc /\ new.event = hook[h].event
      /\ new.plan = hook[h].plan /\ new.late = hook[h].late
  BY HookFields DEF HookRec
<1>2. hook' = [hook EXCEPT ![h] = new]
  BY DEF Goto
<1> HIDE DEF new
<1>3. hook \in [Hooks -> HookRec]
  BY DEF Typed
<1>4. hook' \in [Hooks -> HookRec] /\ hook'[h] = new /\ OthersStay(h)
  BY <1>1, <1>2, <1>3 DEF OthersStay
<1> QED
  BY <1>1, <1>4 DEF HookGoes, OthersStay

LEMMA AnswerDoes ==
  ASSUME Typed, NEW h \in Hooks, Answer(h)
  PROVE  /\ hook' \in [Hooks -> HookRec] /\ OthersStay(h) /\ HookGoes(h, "idle", 0)
         /\ hook'[h] = Waiting
<1>1. Waiting \in HookRec /\ Waiting.pc = "idle" /\ Waiting.event = 0
  BY DEF Waiting, HookRec, Pcs
<1>2. hook \in [Hooks -> HookRec] /\ hook' = [hook EXCEPT ![h] = Waiting]
  BY DEF Typed, Answer
<1>3. hook' \in [Hooks -> HookRec] /\ hook'[h] = Waiting /\ OthersStay(h)
  BY <1>1, <1>2 DEF OthersStay
<1> QED
  BY <1>1, <1>3 DEF HookGoes, OthersStay

LEMMA WroteDoes ==
  ASSUME Typed, NEW h \in Hooks, NEW next \in HookRec, Wrote(h, next)
  PROVE  /\ hook' \in [Hooks -> HookRec] /\ hook'[h] = next /\ HookGoes(h, next.pc, next.event)
         /\ \A g \in Hooks \ {h} : hook[g].pc \in {"current", "sync"} => hook'[g].late
<1> DEFINE Lated(g) == [hook[g] EXCEPT !.late = @ \/ hook[g].pc \in {"current", "sync"}]
<1>1. ASSUME NEW g \in Hooks
      PROVE  /\ Lated(g) \in HookRec /\ Lated(g).pc = hook[g].pc /\ Lated(g).event = hook[g].event
             /\ Lated(g).plan = hook[g].plan
             /\ hook[g].pc \in {"current", "sync"} => Lated(g).late
  <2>1. hook[g] \in HookRec
    BY HookFields
  <2>2. (hook[g].late \/ hook[g].pc \in {"current", "sync"}) \in BOOLEAN
    OBVIOUS
  <2> QED
    BY <2>1, <2>2 DEF HookRec
<1>2. hook' = [g \in Hooks |-> IF g = h THEN next ELSE Lated(g)]
  BY DEF Wrote
<1> HIDE DEF Lated
<1>3. hook' \in [Hooks -> HookRec]
  BY <1>1, <1>2
<1>4. hook'[h] = next /\ \A g \in Hooks \ {h} : hook'[g] = Lated(g)
  BY <1>2
<1> QED
  BY <1>1, <1>3, <1>4 DEF HookGoes

\* A row that is written.
LEMMA RowDoes ==
  ASSUME Typed, NEW s \in Subs, NEW new \in RowRec, row' = [row EXCEPT ![s] = new]
  PROVE  row' \in [Subs -> RowRec] /\ row'[s] = new /\ \A t \in Subs \ {s} : row'[t] = row[t]
  BY DEF Typed

-----------------------------------------------------------------------------
(* Billing: what Stripe sends                                              *)

EventTypes == {"created", "completed", "invoice", "updated", "deleted"}

\* The change that an event of this type reports.
Legal(type, s, sub) ==
  /\ sub \in SubRec /\ sub.plan \in Plans
  /\ stripe[s].status # "none" => sub.plan = stripe[s].plan
  /\ \/ type = "created" /\ stripe[s].status = "none" /\ sub.status = "active"
     \/ /\ type \in {"completed", "invoice"} /\ stripe[s].status = "active"
        /\ sub.status = stripe[s].status /\ sub.ending = stripe[s].ending
     \/ /\ type = "updated" /\ stripe[s].status \in Lasting
        /\ sub.status \in Lasting
     \/ /\ type = "deleted" /\ stripe[s].status \in Lasting
        /\ sub.status = "canceled" /\ sub.ending = stripe[s].ending

\* The log with one more event at its end, number n.
Sent(n, type, s, sub) ==
  /\ n = Len(events) + 1 /\ events' \in Seq(EventRec) /\ DOMAIN events' = DOMAIN events \cup {n}
  /\ n \notin DOMAIN events /\ (\A e \in DOMAIN events : e < n /\ events'[e] = events[e])
  /\ events'[n].type = type /\ events'[n].sub = s /\ events'[n].status = sub.status
  /\ events'[n].plan = sub.plan /\ events'[n].ending = sub.ending
  /\ Len(events') = n
  /\ stripe' \in [Subs -> SubRec] /\ stripe'[s] = sub /\ \A t \in Subs \ {s} : stripe'[t] = stripe[t]

LEMMA BecomesDoes ==
  ASSUME Typed, NEW s \in Subs, NEW type \in EventTypes, NEW sub \in SubRec, sub.plan \in Plans,
         Becomes(type, s, sub)
  PROVE  Sent(Len(events) + 1, type, s, sub)
<1> DEFINE new == [type |-> type, sub |-> s, status |-> sub.status, plan |-> sub.plan,
                   price |-> sub.price, ending |-> sub.ending]
           n == Len(events) + 1
<1>1. /\ new \in EventRec /\ new.type = type /\ new.sub = s /\ new.status = sub.status
      /\ new.plan = sub.plan /\ new.ending = sub.ending
  BY DEF EventRec, SubRec, EventTypes
<1>2. events \in Seq(EventRec) /\ events' = Append(events, new) /\ stripe' = [stripe EXCEPT ![s] = sub]
  BY DEF Typed, Becomes, Sends
<1> HIDE DEF new
<1>3. Len(events) \in Nat /\ DOMAIN events = 1..Len(events)
  BY <1>2
<1>4. events' \in Seq(EventRec) /\ Len(events') = n /\ DOMAIN events' = 1..n
  BY <1>1, <1>2
<1>5. events'[n] = new /\ \A e \in 1..Len(events) : events'[e] = events[e]
  BY <1>2, <1>3
<1>6. stripe' \in [Subs -> SubRec] /\ stripe'[s] = sub /\ \A t \in Subs \ {s} : stripe'[t] = stripe[t]
  BY <1>2 DEF Typed
<1>7. /\ DOMAIN events' = DOMAIN events \cup {n} /\ n \notin DOMAIN events
      /\ \A e \in DOMAIN events : e < n /\ events'[e] = events[e]
  BY <1>3, <1>4, <1>5
<1> QED
  BY <1>1, <1>4, <1>5, <1>6, <1>7 DEF Sent

\* A subscription without an event is one Stripe has not made.
LEMMA NoneWithout ==
  ASSUME Typed, Log, NEW s \in Subs, stripe[s].status = "none"
  PROVE  Of(s) = {}
  BY EventFields DEF Log, Snapshots, Of

LEMMA SnapshotsGrow ==
  ASSUME Typed, Log, NEW s \in Subs, NEW type \in EventTypes, NEW sub, Legal(type, s, sub),
         NEW n, Sent(n, type, s, sub)
  PROVE  Snapshots'
<1> SUFFICES ASSUME NEW e \in DOMAIN events'
             PROVE  /\ stripe'[events'[e].sub].status # "none"
                    /\ events'[e].plan = stripe'[events'[e].sub].plan
                    /\ events'[e].type \in {"created", "completed"} => events'[e].status = "active"
                    /\ events'[e].type = "updated" => events'[e].status \in Lasting
                    /\ events'[e].type = "deleted" =>
                         /\ events'[e].status = "canceled"
                         /\ stripe'[events'[e].sub].status = "canceled"
                         /\ \A d \in DOMAIN events' : events'[d].sub = events'[e].sub => d <= e
  BY DEF Snapshots, Sub, Of
<1>0. \A d \in DOMAIN events : d \in Nat /\ d <= n /\ d < n
  BY EventFields DEF Sent
<1>1. CASE e = n
  <2>1. n <= n
    BY EventFields DEF Sent
  <2> QED
    BY <1>1, <1>0, <2>1 DEF Sent, Legal, EventTypes
<1>2. CASE e \in DOMAIN events
  <2>1. /\ events'[e] = events[e] /\ events[e].sub \in Subs
        /\ stripe[events[e].sub].status # "none" /\ events[e].plan = stripe[events[e].sub].plan
        /\ events[e].type \in {"created", "completed"} => events[e].status = "active"
        /\ events[e].type = "updated" => events[e].status \in Lasting
        /\ events[e].type = "deleted" =>
             /\ events[e].status = "canceled" /\ stripe[events[e].sub].status = "canceled"
             /\ \A d \in DOMAIN events : events[d].sub = events[e].sub => d <= e
    BY <1>2, EventFields DEF Sent, Log, Snapshots, Sub, Of
  <2>2. CASE events[e].sub = s
    <3>1. /\ stripe'[s] = sub /\ sub.status # "none" /\ sub.plan = stripe[s].plan
          /\ stripe[s].status # "canceled"
      BY <2>1, <2>2 DEF Sent, Legal
    <3> QED
      BY <2>1, <2>2, <3>1
  <2>3. CASE events[e].sub # s
    <3>1. stripe'[events[e].sub] = stripe[events[e].sub]
      BY <2>1, <2>3 DEF Sent
    <3>2. \A d \in DOMAIN events' :
            events'[d].sub = events[e].sub => d \in DOMAIN events /\ events[d].sub = events[e].sub
      BY <2>3 DEF Sent
    <3> QED
      BY <2>1, <3>1, <3>2
  <2> QED
    BY <2>2, <2>3
<1> QED
  BY <1>1, <1>2 DEF Sent

\* The events of a subscription, before and after.
LEMMA OfGrows ==
  ASSUME Typed, NEW s \in Subs, NEW type, NEW sub, NEW n, Sent(n, type, s, sub)
  PROVE  /\ Of(s)' = Of(s) \cup {n}
         /\ \A t \in Subs \ {s} : Of(t)' = Of(t)
         /\ \A t \in Subs : Of(t) \subseteq DOMAIN events
         /\ \A e \in DOMAIN events : (Writes(e)' <=> Writes(e)) /\ (Sets(e)' <=> Sets(e))
  BY DEF Of, Sub, Sent, Writes, Sets

LEMMA LogGrows ==
  ASSUME Typed, Log, NEW s \in Subs, NEW type \in EventTypes, NEW sub, Legal(type, s, sub),
         NEW n, Sent(n, type, s, sub)
  PROVE  Log'
<1>1. Snapshots'
  BY SnapshotsGrow
<1>2. /\ Of(s)' = Of(s) \cup {n}
      /\ \A t \in Subs \ {s} : Of(t)' = Of(t)
      /\ \A t \in Subs : Of(t) \subseteq DOMAIN events
      /\ \A e \in DOMAIN events : (Writes(e)' <=> Writes(e)) /\ (Sets(e)' <=> Sets(e))
  BY OfGrows
<1>3. /\ n \in Nat /\ n \in DOMAIN events' /\ DOMAIN events \subseteq DOMAIN events'
      /\ \A e \in DOMAIN events : e \in Nat /\ e < n /\ events'[e] = events[e]
  BY EventFields DEF Sent
<1>4. ASSUME NEW t \in Subs, stripe'[t].status # "none"
      PROVE  /\ \E f \in DOMAIN events' : First(f, t)'
             /\ \E l \in DOMAIN events' : LastWrite(l, t)'
             /\ \E l \in DOMAIN events' : LastSet(l, t)'
  <2>1. CASE t # s
    <3>1. stripe'[t] = stripe[t]
      BY <2>1 DEF Sent
    <3>2. PICK f \in DOMAIN events, l \in DOMAIN events, k \in DOMAIN events :
            First(f, t) /\ LastWrite(l, t) /\ LastSet(k, t)
      BY <1>4, <3>1 DEF Log
    <3>3. First(f, t)'
      BY <3>2, <2>1, <1>2, <1>3 DEF First
    <3>4. LastWrite(l, t)'
      BY <3>1, <3>2, <2>1, <1>2, <1>3 DEF LastWrite
    <3>5. LastSet(k, t)'
      BY <3>1, <3>2, <2>1, <1>2, <1>3 DEF LastSet
    <3> QED
      BY <3>3, <3>4, <3>5, <1>3
  <2>2. CASE t = s
    <3>1. stripe'[s] = sub /\ events'[n].type = type /\ events'[n].status = sub.status
          /\ events'[n].ending = sub.ending
      BY DEF Sent
    <3>2. /\ type # "invoice" => LastWrite(n, s)'
          /\ type \in {"created", "updated"} => LastSet(n, s)'
      BY <3>1, <1>2, <1>3 DEF LastWrite, LastSet, Writes, Sets
    <3>3. CASE type = "created"
      <4>1. Of(s) = {}
        BY <3>3, NoneWithout DEF Legal
      <4>2. First(n, s)'
        BY <4>1, <3>1, <3>3, <1>2, <1>3 DEF First
      <4> QED
        BY <4>2, <3>2, <3>3, <2>2, <1>3
    <3>4. CASE type # "created"
      <4>1. PICK f \in DOMAIN events, l \in DOMAIN events, k \in DOMAIN events :
              First(f, s) /\ LastWrite(l, s) /\ LastSet(k, s)
        BY <3>4 DEF Log, Legal
      <4>2. First(f, s)'
        BY <4>1, <3>1, <3>4, <1>2, <1>3 DEF First
      <4>3. CASE type = "invoice"
        <5>1. sub.status = stripe[s].status
          BY <4>3 DEF Legal
        <5> QED
          BY <4>1, <4>2, <4>3, <5>1, <3>1, <2>2, <1>2, <1>3 DEF LastWrite, LastSet, Writes, Sets, Legal
      <4>4. CASE type # "invoice"
        <5>1. type # "updated" => sub.ending = stripe[s].ending
          BY <4>4, <3>4 DEF Legal
        <5>2. type # "updated" => LastSet(k, s)'
          BY <4>1, <5>1, <3>1, <3>4, <1>2, <1>3 DEF LastSet, Sets
        <5> QED
          BY <4>2, <4>4, <5>2, <3>2, <2>2, <1>3
      <4> QED
        BY <4>3, <4>4
    <3> QED
      BY <3>3, <3>4
  <2> QED
    BY <2>1, <2>2
<1> QED
  BY <1>1, <1>4 DEF Log

\* Nothing of what is being sent has been written yet.
LEMMA WrittenOld ==
  ASSUME Typed, Meanings, Stored, NEW e, Written(e)
  PROVE  e \in DOMAIN events
  BY DEF Meanings, Meant, At, Done, Written, Stored

\* Events that Stripe sends disturb nothing that is stored.
LEMMA StripeKeeps ==
  ASSUME Typed, Log, Meanings, Stored, Follows, Synced,
         NEW s \in Subs, NEW type \in EventTypes, NEW sub, Legal(type, s, sub),
         NEW n, Sent(n, type, s, sub),
         UNCHANGED <<recorded, invoices, row, planCode, hook, history, faults>>
  PROVE  Meanings' /\ Stored' /\ Follows' /\ Synced'
<1>1. /\ Of(s)' = Of(s) \cup {n}
      /\ \A t \in Subs \ {s} : Of(t)' = Of(t)
      /\ \A t \in Subs : Of(t) \subseteq DOMAIN events
      /\ \A e \in DOMAIN events : (Writes(e)' <=> Writes(e)) /\ (Sets(e)' <=> Sets(e))
  BY OfGrows
<1>2. /\ n \notin DOMAIN events /\ DOMAIN events' = DOMAIN events \cup {n}
      /\ \A e \in DOMAIN events : events'[e] = events[e] /\ (Sub(e)' = Sub(e)) /\ Sub(e) \in Subs
  BY EventFields DEF Sent, Sub
<1>3. /\ Rows' = Rows /\ (\A e : Written(e)' <=> Written(e))
      /\ \A e : Written(e) => e \in DOMAIN events
      /\ \A t \in Subs : Live(t)' <=> Live(t)
  BY WrittenOld DEF Rows, Written, Done, Live
<1>4. Meanings'
  <2> SUFFICES ASSUME NEW h \in Hooks PROVE Meant(h)'
    BY DEF Meanings
  <2>1. Meant(h) /\ hook'[h] = hook[h] /\ (\A pc : At(h, pc)' <=> At(h, pc))
    BY DEF Meanings, At
  <2> QED
    BY <2>1, <1>1, <1>2, <1>3 DEF Meant, At, Upserts
<1>5. Stored'
  <2>1. recorded' \subseteq DOMAIN events'
    BY <1>2 DEF Stored
  <2>2. ASSUME NEW t \in Subs
        PROVE  /\ row'[t].seen = 0 \/ row'[t].seen \in Of(t)'
               /\ t \in Rows' => stripe'[t].status # "none" /\ row'[t].plan = stripe'[t].plan
    <3>1. row[t].seen = 0 \/ row[t].seen \in Of(t)
      BY DEF Stored
    <3>2. ASSUME t \in Rows
          PROVE  stripe'[t].status # "none" /\ stripe'[t].plan = stripe[t].plan
      BY <3>2 DEF Stored, Sent, Legal
    <3> QED
      BY <3>1, <3>2, <1>1, <1>3 DEF Stored
  <2>3. \A e \in DOMAIN events' : Written(e)' =>
          /\ Upserts(e)' => Sub(e)' \in Rows'
          /\ events'[e].type = "invoice" => Sub(e)' \in invoices' \cup early'
    BY <1>2, <1>3 DEF Stored, Upserts
  <2> QED
    BY <2>1, <2>2, <2>3 DEF Stored
<1>6. ASSUME NEW t \in Subs, Spoiled(t)
      PROVE  Spoiled(t)'
  <2>1. PICK f \in Of(t) : events[f].type = "created" /\ ~Written(f) /\ f < row[t].seen
    BY <1>6 DEF Spoiled
  <2>2. f \in Of(t)' /\ events'[f].type = "created" /\ ~Written(f)' /\ f < row'[t].seen
    BY <2>1, <1>1, <1>2, <1>3
  <2> QED
    BY <2>2 DEF Spoiled
<1>7. ASSUME NEW t \in Subs, Followed(t)
      PROVE  Followed(t)'
  <2>1. \A e \in Of(t)' : Written(e)' => e \in Of(t) /\ Written(e)
    BY <1>1, <1>2, <1>3
  <2>2. \A e \in Of(t)' : Writes(e)' /\ Written(e)' => e <= row'[t].seen
    BY <2>1, <1>1, <1>7 DEF Followed
  <2>3. t \in Rows' => /\ row'[t].seen \in DOMAIN events' /\ events'[row'[t].seen].type # "invoice"
                       /\ row'[t].status = events'[row'[t].seen].status
    <3>1. t \in Rows => /\ row[t].seen \in DOMAIN events /\ events[row[t].seen].type # "invoice"
                       /\ row[t].status = events[row[t].seen].status
      BY <1>7 DEF Followed, Writes
    <3>2. row' = row
      OBVIOUS
    <3> QED
      BY <3>1, <3>2, <1>2, <1>3
  <2>4. ASSUME Live(t)', NEW l \in Of(t)', Sets(l)', \A e \in Of(t)' : Sets(e)' => e <= l, Written(l)'
        PROVE  row'[t].ending = events'[l].ending
    <3>1. l \in Of(t) /\ Written(l) /\ Of(t) \subseteq Of(t)' /\ Of(t) \subseteq DOMAIN events
      BY <2>1, <2>4, <1>1
    <3>2. Sets(l) /\ (\A e \in Of(t) : Sets(e) => e <= l) /\ events'[l] = events[l]
      BY <3>1, <2>4, <1>1, <1>2
    <3>3. Live(t) /\ row'[t] = row[t]
      BY <2>4, <1>3
    <3> QED
      BY <3>1, <3>2, <3>3, <1>7 DEF Followed
  <2> QED
    BY <2>2, <2>3, <2>4 DEF Followed, Writes
<1>8. Follows'
  BY <1>6, <1>7 DEF Follows
<1>9. Synced'
  <2>1. \A p : Right(p) => Right(p)'
    BY <1>3 DEF Right
  <2>2. ASSUME NEW e \in DOMAIN events, Open(e) PROVE Open(e)'
    BY <2>2, <1>1, <1>2, <1>3 DEF Open, At
  <2>3. \A h \in Hooks : (At(h, "sync") /\ ~hook[h].late => Right(hook[h].plan))'
    BY <2>1 DEF Synced, At, Right, Live
  <2>4. (Right(planCode) => Right(planCode)') /\ DOMAIN events \subseteq DOMAIN events'
    BY <1>2, <1>3 DEF Right
  <2> QED
    BY <2>2, <2>3, <2>4, <1>6 DEF Synced
<1> QED
  BY <1>4, <1>5, <1>8, <1>9

LEMMA StripeAsks ==
  ASSUME Typed, Asked, NEW s \in Subs, NEW type \in EventTypes, NEW sub, NEW n,
         Sent(n, type, s, sub), UNCHANGED owner
  PROVE  Asked'
<1>1. /\ Of(s)' = Of(s) \cup {n}
      /\ \A t \in Subs \ {s} : Of(t)' = Of(t)
      /\ \A t \in Subs : Of(t) \subseteq DOMAIN events
      /\ \A e \in DOMAIN events : (Writes(e)' <=> Writes(e)) /\ (Sets(e)' <=> Sets(e))
  BY OfGrows
<1>2. /\ n = Len(events) + 1 /\ Len(events') = n /\ Len(events) \in Nat /\ owner.event \in Nat
      /\ \A e \in DOMAIN events : events'[e] = events[e] /\ e \in Nat
  BY EventFields DEF Sent, Typed, OwnerRec
<1> SUFFICES ASSUME owner.pc = "write"
             PROVE  /\ owner.event <= n
                    /\ \A t \in Subs : owner.sub = {t} =>
                         \E l \in Of(t)' : /\ Sets(l)' /\ l <= owner.event
                                           /\ events'[l].ending = owner.ending
                                           /\ \A e \in Of(t)' : Sets(e)' /\ e <= owner.event => e <= l
  BY <1>2 DEF Asked
<1>3. owner.event <= Len(events) /\ owner.event <= n /\ ~(n <= owner.event)
  BY <1>2 DEF Asked
<1>4. ASSUME NEW t \in Subs, owner.sub = {t}
      PROVE  \E l \in Of(t)' : /\ Sets(l)' /\ l <= owner.event /\ events'[l].ending = owner.ending
                               /\ \A e \in Of(t)' : Sets(e)' /\ e <= owner.event => e <= l
  <2>1. PICK l \in Of(t) : /\ Sets(l) /\ l <= owner.event /\ events[l].ending = owner.ending
                           /\ \A e \in Of(t) : Sets(e) /\ e <= owner.event => e <= l
    BY <1>4 DEF Asked
  <2>2. Of(t) \subseteq Of(t)' /\ Of(t)' \subseteq Of(t) \cup {n} /\ Of(t) \subseteq DOMAIN events
    BY <1>1
  <2> QED
    BY <2>1, <2>2, <1>1, <1>2, <1>3
<1> QED
  BY <1>3, <1>4

-----------------------------------------------------------------------------
(* Billing: a delivery                                                     *)

DonePcs == {"current", "sync", "record"}

LEMMA LogStays ==
  ASSUME Log, UNCHANGED <<stripe, events>>
  PROVE  Log'
  BY DEF Log, Snapshots, First, LastWrite, LastSet, Of, Sub, Writes, Sets

LEMMA AskedStays ==
  ASSUME Asked, UNCHANGED <<events, owner>>
  PROVE  Asked'
  BY DEF Asked, Of, Sub, Sets

LEMMA EventsStay ==
  ASSUME UNCHANGED events
  PROVE  /\ \A s : Of(s)' = Of(s)
         /\ \A e : (Writes(e)' <=> Writes(e)) /\ (Sets(e)' <=> Sets(e)) /\ Sub(e)' = Sub(e)
                   /\ (Upserts(e)' <=> Upserts(e))
  BY DEF Of, Sub, Writes, Sets, Upserts

LEMMA WrittenGoes ==
  ASSUME Typed, NEW h \in Hooks, NEW pc, NEW e, HookGoes(h, pc, e), UNCHANGED recorded, NEW x
  PROVE  Written(x)' => Written(x) \/ (x = e /\ pc \in DonePcs)
<1> SUFFICES ASSUME Written(x)', x \notin recorded
             PROVE  Written(x) \/ (x = e /\ pc \in DonePcs)
  BY DEF Written
<1>1. PICK g \in Hooks : hook'[g].pc \in DonePcs /\ hook'[g].event = x
  BY DEF Written, Done, DonePcs
<1> QED
  BY <1>1 DEF HookGoes, Written, Done, DonePcs

\* A row that a step leaves alone, and that no new event is about, follows as before.
LEMMA FollowedStays ==
  ASSUME Typed, NEW t \in Subs, UNCHANGED events, row'[t] = row[t],
         \A x \in Of(t) : Writes(x) /\ Written(x)' => Written(x)
  PROVE  (Spoiled(t) => Spoiled(t)') /\ (Followed(t) => Followed(t)')
<1>1. /\ Of(t)' = Of(t)
      /\ \A e : (Writes(e)' <=> Writes(e)) /\ (Sets(e)' <=> Sets(e))
  BY EventsStay
<1>2. (t \in Rows' <=> t \in Rows) /\ (Live(t)' <=> Live(t))
  BY DEF Rows, Live
<1>3. Spoiled(t) => Spoiled(t)'
  BY <1>1 DEF Spoiled, Writes
<1>4. ASSUME Followed(t) PROVE Followed(t)'
  <2>1. \A e \in Of(t)' : Writes(e)' /\ Written(e)' => e <= row'[t].seen
    BY <1>1, <1>4 DEF Followed
  <2>2. t \in Rows' => /\ row'[t].seen \in DOMAIN events' /\ events'[row'[t].seen].type # "invoice"
                       /\ row'[t].status = events'[row'[t].seen].status
    BY <1>2, <1>4 DEF Followed, Writes
  <2>3. ASSUME Live(t)', NEW l \in Of(t)', Sets(l)', \A e \in Of(t)' : Sets(e)' => e <= l, Written(l)'
        PROVE  row'[t].ending = events'[l].ending
    BY <2>3, <1>1, <1>2, <1>4 DEF Followed, Writes, Sets
  <2> QED
    BY <2>1, <2>2, <2>3 DEF Followed, Writes
<1> QED
  BY <1>3, <1>4

LEMMA MeaningsGo ==
  ASSUME Typed, Meanings, NEW h \in Hooks, NEW pc, NEW e, HookGoes(h, pc, e),
         UNCHANGED events, Rows \subseteq Rows', Meant(h)'
  PROVE  Meanings'
<1> SUFFICES ASSUME NEW g \in Hooks \ {h} PROVE Meant(g)'
  BY DEF Meanings
<1>1. hook'[g].pc = hook[g].pc /\ hook'[g].event = hook[g].event /\ hook'[g].plan = hook[g].plan
  BY DEF HookGoes
<1>2. Meant(g) /\ \A x : (Writes(x)' <=> Writes(x)) /\ Sub(x)' = Sub(x)
  BY EventsStay DEF Meanings
<1> QED
  BY <1>1, <1>2 DEF Meant, At, Upserts

LEMMA OpenGoes ==
  ASSUME Typed, NEW h \in Hooks, NEW pc, NEW e, HookGoes(h, pc, e),
         UNCHANGED <<events, recorded>>, Rows \subseteq Rows',
         NEW x \in DOMAIN events, Open(x), ~(pc = "record" /\ e = x)
  PROVE  Open(x)'
<1>1. \A y : (Writes(y)' <=> Writes(y)) /\ Sub(y)' = Sub(y)
  BY EventsStay
<1>2. \A g \in Hooks : hook'[g].event = x => hook'[g].pc # "record"
  BY DEF HookGoes, Open, At
<1> QED
  BY <1>1, <1>2 DEF Open, At

\* Statuses and plans are all that the plan code depends on.
LEMMA RightStays ==
  ASSUME \A s \in Subs : row'[s].status = row[s].status /\ row'[s].plan = row[s].plan
  PROVE  /\ Rows' = Rows /\ \A p : Right(p)' <=> Right(p)
         /\ Right(planCode)' <=> Right(planCode')
         /\ \A h \in Hooks : Right(hook[h].plan)' <=> Right(hook'[h].plan)
<1>1. Rows' = Rows /\ \A s \in Subs : Live(s)' <=> Live(s)
  BY DEF Rows, Live
<1> QED
  BY <1>1 DEF Right

\* Which of the deliveries that wait for their turn to write the plan code still have the right one.
LEMMA SyncedOthers ==
  ASSUME Synced, NEW h \in Hooks, OthersStay(h),
         ~At(h, "sync")' \/ hook'[h].late \/ Right(hook[h].plan)',
         \A s \in Subs : row'[s].status = row[s].status /\ row'[s].plan = row[s].plan
  PROVE  \A g \in Hooks : (At(g, "sync") /\ ~hook[g].late => Right(hook[g].plan))'
<1> SUFFICES ASSUME NEW g \in Hooks \ {h}, hook'[g].pc = "sync", ~hook'[g].late
             PROVE  Right(hook[g].plan)'
  BY DEF At
<1>1. hook'[g] = hook[g]
  BY DEF OthersStay
<1>2. Right(hook[g].plan)
  BY <1>1 DEF Synced, At
<1> QED
  BY <1>1, <1>2, RightStays

\* The invariant after a step of a delivery, from its parts.
LEMMA HookStepKeeps ==
  ASSUME BillingInv, UNCHANGED <<stripe, events, owner>>, Typed', Meanings', Stored',
         mixed \subseteq mixed',
         \A t \in Subs \ mixed' : Spoiled(t) \/ Followed(t) => Spoiled(t)' \/ Followed(t)',
         \A g \in Hooks : (At(g, "sync") /\ ~hook[g].late => Right(hook[g].plan))',
         mixed' = {} /\ ~crossed' =>
           \/ Right(planCode)' \/ (\E x \in DOMAIN events : Open(x)') \/ \E t \in Subs : Spoiled(t)'
  PROVE  BillingInv'
<1>1. Log' /\ Asked'
  BY LogStays, AskedStays DEF BillingInv
<1>2. Follows'
  BY DEF BillingInv, Follows
<1>3. Synced'
  BY DEF Synced
<1> QED
  BY <1>1, <1>2, <1>3 DEF BillingInv

LEMMA RecordKeeps ==
  ASSUME BillingInv, NEW h \in Hooks, Record(h)
  PROVE  BillingInv'
<1> DEFINE e == hook[h].event
<1>1. /\ hook' \in [Hooks -> HookRec] /\ OthersStay(h) /\ HookGoes(h, "idle", 0) /\ hook'[h] = Waiting
      /\ UNCHANGED <<stripe, events, invoices, row, planCode, owner, history, faults>>
      /\ recorded' = recorded \cup {e} /\ At(h, "record")
  BY AnswerDoes DEF BillingInv, Record
<1>2. e \in DOMAIN events /\ Written(e)
  BY <1>1 DEF BillingInv, Meanings, Meant, At, Written, Done
<1>3. Rows' = Rows /\ \A p : Right(p)' <=> Right(p)
  BY <1>1, RightStays
<1>4. Typed'
  BY <1>1, <1>3 DEF BillingInv, Typed
<1>5. Meanings'
  BY <1>1, <1>3, MeaningsGo DEF BillingInv, Meant, At, Waiting
<1>6. \A x : Written(x)' => Written(x)
  BY <1>1, <1>2 DEF Written, Done, HookGoes
<1>7. Stored'
  BY <1>1, <1>2, <1>3, <1>6, EventsStay DEF BillingInv, Stored
<1>8. \A t \in Subs : (Spoiled(t) => Spoiled(t)') /\ (Followed(t) => Followed(t)')
  BY <1>1, <1>6, FollowedStays DEF BillingInv
<1>9. \A g \in Hooks : (At(g, "sync") /\ ~hook[g].late => Right(hook[g].plan))'
  BY <1>1, SyncedOthers DEF BillingInv, At, Waiting
<1>10. ASSUME NEW x \in DOMAIN events, Open(x) PROVE Open(x)'
  <2>1. x # e
    BY <1>1, <1>10 DEF Open
  <2>2. \A g \in Hooks : hook'[g].event = x => hook'[g].pc # "record"
    BY <1>1, <1>10 DEF HookGoes, Open, At
  <2> QED
    BY <2>1, <2>2, <1>1, <1>3, <1>10, EventsStay DEF Open, At
<1>11. mixed' = {} /\ ~crossed' =>
         \/ Right(planCode)' \/ (\E x \in DOMAIN events : Open(x)') \/ \E t \in Subs : Spoiled(t)'
  BY <1>1, <1>8, <1>10, RightStays DEF BillingInv, Synced
<1> QED
  BY <1>1, <1>4, <1>5, <1>7, <1>8, <1>9, <1>11, HookStepKeeps

LEMMA HookFailsKeeps ==
  ASSUME BillingInv, NEW h \in Hooks, HookFails(h)
  PROVE  BillingInv'
<1>1. /\ hook' \in [Hooks -> HookRec] /\ OthersStay(h) /\ HookGoes(h, "idle", 0) /\ hook'[h] = Waiting
      /\ UNCHANGED <<stripe, events, recorded, invoices, row, planCode, owner, history>>
      /\ faults' \in Nat
  BY AnswerDoes DEF BillingInv, HookFails, Fault, Typed
<1>3. Rows' = Rows /\ \A p : Right(p)' <=> Right(p)
  BY <1>1, RightStays
<1>4. Typed'
  BY <1>1, <1>3 DEF BillingInv, Typed
<1>5. Meanings'
  BY <1>1, <1>3, MeaningsGo DEF BillingInv, Meant, At, Waiting
<1>6. \A x : Written(x)' => Written(x)
  BY <1>1 DEF Written, Done, HookGoes
<1>7. Stored'
  BY <1>1, <1>3, <1>6, EventsStay DEF BillingInv, Stored
<1>8. \A t \in Subs : (Spoiled(t) => Spoiled(t)') /\ (Followed(t) => Followed(t)')
  BY <1>1, <1>6, FollowedStays DEF BillingInv
<1>9. \A g \in Hooks : (At(g, "sync") /\ ~hook[g].late => Right(hook[g].plan))'
  BY <1>1, SyncedOthers DEF BillingInv, At, Waiting
<1>10. \A x \in DOMAIN events : Open(x) => Open(x)'
  BY <1>1, <1>3, OpenGoes DEF BillingInv
<1>11. mixed' = {} /\ ~crossed' =>
         \/ Right(planCode)' \/ (\E x \in DOMAIN events : Open(x)') \/ \E t \in Subs : Spoiled(t)'
  BY <1>1, <1>8, <1>10, RightStays DEF BillingInv, Synced
<1> QED
  BY <1>1, <1>4, <1>5, <1>7, <1>8, <1>9, <1>11, HookStepKeeps

LEMMA StoreInvoiceKeeps ==
  ASSUME BillingInv, NEW h \in Hooks, StoreInvoice(h)
  PROVE  BillingInv'
<1> DEFINE e == hook[h].event
<1>1. /\ hook' \in [Hooks -> HookRec] /\ OthersStay(h) /\ HookGoes(h, "record", e)
      /\ UNCHANGED <<stripe, events, recorded, row, planCode, owner, history, faults>>
      /\ invoices' = invoices \cup {Sub(e)} /\ At(h, "invoice")
  <2>1. "record" \in Pcs
    BY DEF Pcs
  <2> QED
    BY <2>1, GotoDoes DEF BillingInv, StoreInvoice
<1>2. e \in DOMAIN events /\ events[e].type = "invoice" /\ Sub(e) \in Subs
  BY <1>1, EventFields DEF BillingInv, Meanings, Meant, At
<1>3. Rows' = Rows /\ \A p : Right(p)' <=> Right(p)
  BY <1>1, RightStays
<1>4. Typed'
  BY <1>1, <1>2, <1>3 DEF BillingInv, Typed
<1>5. Meanings'
  <2>1. Meant(h)'
    BY <1>1, <1>2 DEF Meant, At, HookGoes
  <2> QED
    BY <2>1, <1>1, <1>3, MeaningsGo DEF BillingInv
<1>6. \A x : Written(x)' => Written(x) \/ x = e
  BY <1>1, WrittenGoes DEF BillingInv
<1>7. Stored'
  <2>1. \A x \in DOMAIN events : Written(x)' /\ Upserts(x) => Sub(x) \in Rows
    BY <1>2, <1>6 DEF BillingInv, Stored, Upserts
  <2>2. \A x \in DOMAIN events : Written(x)' /\ events[x].type = "invoice" =>
          Sub(x) \in invoices' \cup early'
    BY <1>1, <1>6 DEF BillingInv, Stored
  <2> QED
    BY <2>1, <2>2, <1>1, <1>3, EventsStay DEF BillingInv, Stored
<1>8. ASSUME NEW t \in Subs, Spoiled(t) \/ Followed(t)
      PROVE  (Spoiled(t) => Spoiled(t)') /\ (Followed(t) => Followed(t)')
  <2>1. CASE t # Sub(e)
    <3>1. e \notin Of(t)
      BY <2>1 DEF Of
    <3> QED
      BY <3>1, <1>1, <1>6, FollowedStays DEF BillingInv
  <2>2. CASE t = Sub(e)
    <3>1. \A x : x # e => (Written(x)' => Written(x))
      BY <1>6
    <3>2. Spoiled(t) => Spoiled(t)'
      BY <3>1, <1>1, <1>2, EventsStay DEF Spoiled
    <3>3. ASSUME Followed(t) PROVE Followed(t)'
      <4>1. \A x \in Of(t)' : events'[x].type # "invoice" /\ Written(x)' => x <= row'[t].seen
        BY <3>1, <3>3, <1>1, <1>2, EventsStay DEF Followed, Writes
      <4>2. t \in Rows' => /\ row'[t].seen \in DOMAIN events' /\ events'[row'[t].seen].type # "invoice"
                           /\ row'[t].status = events'[row'[t].seen].status
        BY <3>3, <1>1, <1>3 DEF Followed, Writes
      <4>3. ASSUME Live(t)', NEW l \in Of(t)', Sets(l)', \A x \in Of(t)' : Sets(x)' => x <= l, Written(l)'
            PROVE  row'[t].ending = events'[l].ending
        <5>1. l # e
          BY <4>3, <1>1, <1>2 DEF Sets
        <5>2. Live(t) /\ l \in Of(t) /\ Sets(l) /\ (\A x \in Of(t) : Sets(x) => x <= l) /\ Written(l)
          BY <5>1, <4>3, <3>1, <1>1, EventsStay DEF Live
        <5> QED
          BY <5>2, <3>3, <1>1 DEF Followed
      <4> QED
        BY <4>1, <4>2, <4>3 DEF Followed, Writes
    <3> QED
      BY <3>2, <3>3
  <2> QED
    BY <2>1, <2>2
<1>9. \A g \in Hooks : (At(g, "sync") /\ ~hook[g].late => Right(hook[g].plan))'
  BY <1>1, SyncedOthers DEF BillingInv, At, HookGoes
<1>10. \A x \in DOMAIN events : Open(x) => Open(x)'
  BY <1>1, <1>2, <1>3, OpenGoes DEF BillingInv, Open, Writes
<1>11. mixed' = {} /\ ~crossed' =>
         \/ Right(planCode)' \/ (\E x \in DOMAIN events : Open(x)') \/ \E t \in Subs : Spoiled(t)'
  BY <1>1, <1>8, <1>10, RightStays DEF BillingInv, Synced
<1> QED
  BY <1>1, <1>4, <1>5, <1>7, <1>8, <1>9, <1>11, HookStepKeeps

LEMMA ReadCurrentKeeps ==
  ASSUME BillingInv, NEW h \in Hooks, ReadCurrent(h)
  PROVE  BillingInv'
<1> DEFINE e == hook[h].event
           new == [hook[h] EXCEPT !.pc = "sync", !.plan = Fallback]
<1>0. Typed /\ Meanings /\ Stored /\ hook \in [Hooks -> HookRec]
  BY DEF BillingInv, Typed
<1>1. /\ UNCHANGED <<stripe, events, recorded, invoices, row, planCode, owner, history, faults>>
      /\ At(h, "current") /\ hook' = [hook EXCEPT ![h] = new]
  BY DEF ReadCurrent
<1>2. /\ e \in DOMAIN events /\ Writes(e) /\ events[e].status \in Effective \cup {"canceled"} /\ Sub(e) \in Rows
  BY <1>0, <1>1 DEF Meanings, Meant, At, Log, Snapshots, BillingInv, Writes
<1>3. \A t \in Subs : Live(t) <=> t \in Rows /\ row[t].status # "canceled"
  BY <1>0, RowFields DEF Live, Rows, Statuses
<1>4. \A t \in Subs : row[t].at <= row[t].at
  BY <1>0, RowFields
<1>5. ASSUME NEW t \in Subs, row[t].status \in Effective, \A u \in Subs \ {t} : ~Live(u)
      PROVE  Fallback = row[t].plan
  <2>1. {u \in Rows : row[u].status # "canceled"} = {t}
    BY <1>3, <1>5 DEF Rows, Live
  <2>2. Current = {t}
    BY <2>1, <1>4 DEF Current, Newest
  <2>3. (CHOOSE u \in Current : TRUE) = t
    BY <2>2
  <2> QED
    BY <2>2, <2>3 DEF Fallback
<1>6. (\A t \in Subs : ~Live(t)) => Fallback = Starter
  BY <1>3 DEF Current, Newest, Fallback, Rows
<1>7. Right(Fallback)
  BY <1>5, <1>6 DEF Right
<1>8. Fallback \in Plans \cup {Starter}
  <2>1. CASE Current = {}
    BY <2>1 DEF Fallback
  <2>2. CASE Current # {}
    <3> DEFINE u == CHOOSE v \in Current : TRUE
    <3>1. u \in Current
      BY <2>2
    <3>2. u \in Rows /\ Fallback = row[u].plan
      BY <2>2, <3>1 DEF Fallback, Current, Newest
    <3>3. stripe[u].status # "none" /\ row[u].plan = stripe[u].plan /\ u \in Subs
      BY <3>2, <1>0 DEF Stored, Rows
    <3>4. PICK f \in DOMAIN events : Sub(f) = u
      BY <3>3 DEF BillingInv, Log, First, Of
    <3>5. stripe[u].plan \in Plans
      BY <3>4, <1>0, EventFields DEF BillingInv, Log, Snapshots
    <3> QED
      BY <3>2, <3>3, <3>5
  <2> QED
    BY <2>1, <2>2
<1>9. /\ new \in HookRec /\ new.pc = "sync" /\ new.event = e /\ new.plan = Fallback
      /\ new.late = hook[h].late
  BY <1>0, <1>8, HookFields DEF HookRec, Pcs
<1> HIDE DEF new
<1>10. /\ hook' \in [Hooks -> HookRec] /\ OthersStay(h) /\ HookGoes(h, "sync", e)
       /\ hook'[h].plan = Fallback
  BY <1>0, <1>1, <1>9 DEF OthersStay, HookGoes
<1>11. Rows' = Rows /\ \A p : Right(p)' <=> Right(p)
  BY <1>1, RightStays
<1>12. Typed'
  BY <1>1, <1>10, <1>11 DEF BillingInv, Typed
<1>13. Meanings'
  <2>1. Meant(h)'
    BY <1>1, <1>2, <1>8, <1>10, <1>11, EventsStay DEF Meant, At, HookGoes
  <2> QED
    BY <2>1, <1>0, <1>1, <1>10, <1>11, MeaningsGo
<1>14. \A x : Written(x)' => Written(x)
  BY <1>0, <1>1, <1>10, WrittenGoes DEF Written, Done, DonePcs, At
<1>15. Stored'
  BY <1>1, <1>11, <1>14, EventsStay DEF BillingInv, Stored
<1>16. \A t \in Subs : (Spoiled(t) => Spoiled(t)') /\ (Followed(t) => Followed(t)')
  BY <1>0, <1>1, <1>14, FollowedStays
<1>17. \A g \in Hooks : (At(g, "sync") /\ ~hook[g].late => Right(hook[g].plan))'
  BY <1>1, <1>7, <1>10, SyncedOthers, RightStays DEF BillingInv
<1>18. \A x \in DOMAIN events : Open(x) => Open(x)'
  BY <1>0, <1>1, <1>10, <1>11, OpenGoes
<1>19. mixed' = {} /\ ~crossed' =>
         \/ Right(planCode)' \/ (\E x \in DOMAIN events : Open(x)') \/ \E t \in Subs : Spoiled(t)'
  BY <1>1, <1>16, <1>18, RightStays DEF BillingInv, Synced
<1> QED
  BY <1>1, <1>12, <1>13, <1>15, <1>16, <1>17, <1>19, HookStepKeeps

LEMMA SyncKeeps ==
  ASSUME BillingInv, NEW h \in Hooks, Sync(h)
  PROVE  BillingInv'
<1> DEFINE e == hook[h].event
           new == [hook[h] EXCEPT !.pc = "record", !.plan = NoPlan, !.late = FALSE]
<1>0. Typed /\ Meanings /\ Stored
  BY DEF BillingInv
<1>1. /\ UNCHANGED <<stripe, events, recorded, invoices, row, owner, mixed, early, faults>>
      /\ At(h, "sync") /\ planCode' = hook[h].plan /\ Wrote(h, new) /\ crossed' = hook[h].late
  BY DEF Sync
<1>2. /\ e \in DOMAIN events /\ Writes(e) /\ Sub(e) \in Rows /\ hook[h].plan \in Plans \cup {Starter}
  BY <1>0, <1>1 DEF Meanings, Meant, At
<1>3. /\ new \in HookRec /\ new.pc = "record" /\ new.event = e
  BY <1>0, HookFields DEF HookRec, Pcs
<1> HIDE DEF new
<1>4. /\ hook' \in [Hooks -> HookRec] /\ HookGoes(h, "record", e)
      /\ \A g \in Hooks \ {h} : hook[g].pc \in {"current", "sync"} => hook'[g].late
  BY <1>0, <1>1, <1>3, WroteDoes
<1>5. Rows' = Rows /\ \A p : Right(p)' <=> Right(p)
  BY <1>1, RightStays
<1>6. crossed' \in BOOLEAN
  BY <1>0, <1>1, HookFields
<1>7. Typed'
  BY <1>1, <1>2, <1>4, <1>5, <1>6 DEF BillingInv, Typed
<1>8. Meanings'
  <2>1. Meant(h)'
    BY <1>1, <1>2, <1>4 DEF Meant, At, HookGoes
  <2> QED
    BY <2>1, <1>0, <1>1, <1>4, <1>5, MeaningsGo
<1>9. \A x : Written(x)' => Written(x)
  BY <1>0, <1>1, <1>4, WrittenGoes DEF Written, Done, DonePcs, At
<1>10. Stored'
  BY <1>1, <1>5, <1>9, EventsStay DEF BillingInv, Stored
<1>11. \A t \in Subs : (Spoiled(t) => Spoiled(t)') /\ (Followed(t) => Followed(t)')
  BY <1>0, <1>1, <1>9, FollowedStays
<1>12. \A g \in Hooks : (At(g, "sync") /\ ~hook[g].late => Right(hook[g].plan))'
  BY <1>4 DEF HookGoes, At
<1>13. ~crossed' => Right(planCode)'
  <2>1. ~crossed' => Right(hook[h].plan)
    BY <1>1 DEF BillingInv, Synced
  <2> QED
    BY <2>1, <1>1, RightStays
<1> QED
  BY <1>1, <1>7, <1>8, <1>10, <1>11, <1>12, <1>13, HookStepKeeps

\* What is done first for an event.
LEMMA HandledIs ==
  ASSUME Typed, NEW e \in DOMAIN events
  PROVE  /\ Handled(e) \in {"upsert", "cancel", "invoice", "record"}
         /\ Handled(e) = "upsert" => Upserts(e)
         /\ Handled(e) = "cancel" => events[e].type = "deleted" /\ Sub(e) \in Rows
         /\ Handled(e) = "invoice" => events[e].type = "invoice"
         /\ Handled(e) = "record" => events[e].type \in {"deleted", "invoice"} /\ Sub(e) \notin Rows
  BY EventFields DEF Handled, TenantKnown, Upserts

LEMMA ReceiveKeeps ==
  ASSUME BillingInv, NEW h \in Hooks, NEW e, Receive(h, e)
  PROVE  BillingInv'
<1>0. Typed /\ Meanings /\ Stored /\ Log /\ hook \in [Hooks -> HookRec]
  BY DEF BillingInv, Typed
<1>2. e \in DOMAIN events /\ e \in Nat /\ Sub(e) \in Subs
  BY <1>0, EventFields DEF Receive
<1>sub. PICK s \in Subs : s = Sub(e)
  BY <1>2
<1> DEFINE new == [hook[h] EXCEPT !.pc = Handled(e), !.event = e]
           r == [row[s] EXCEPT !.seen = e]
           gone == Handled(e) = "record" /\ events[e].type = "deleted"
<1>1. /\ UNCHANGED <<stripe, events, recorded, invoices, planCode, owner, mixed, crossed, faults>>
      /\ At(h, "idle") /\ hook' = [hook EXCEPT ![h] = new] /\ e \in DOMAIN events
      /\ row' = IF gone THEN [row EXCEPT ![s] = r] ELSE row
      /\ early' = IF TooEarly(e) THEN early \cup {s} ELSE early
  BY <1>sub DEF Receive
<1>3. /\ Handled(e) \in {"upsert", "cancel", "invoice", "record"}
      /\ Handled(e) = "upsert" => Upserts(e)
      /\ Handled(e) = "cancel" => events[e].type = "deleted" /\ s \in Rows
      /\ Handled(e) = "invoice" => events[e].type = "invoice"
      /\ Handled(e) = "record" => events[e].type \in {"deleted", "invoice"} /\ s \notin Rows
  BY <1>0, <1>1, <1>sub, HandledIs
<1>4. new \in HookRec /\ new.pc = Handled(e) /\ new.event = e
  BY <1>0, <1>2, <1>3, HookFields DEF HookRec, Pcs
<1>5. r \in RowRec /\ r.seen = e /\ r.status = row[s].status /\ r.plan = row[s].plan
      /\ r.ending = row[s].ending
  BY <1>0, <1>2, RowFields DEF RowRec
<1> HIDE DEF new, r
<1>6. hook' \in [Hooks -> HookRec] /\ OthersStay(h) /\ HookGoes(h, Handled(e), e)
  BY <1>0, <1>1, <1>4 DEF OthersStay, HookGoes
<1>7. /\ row' \in [Subs -> RowRec] /\ (\A t \in Subs \ {s} : row'[t] = row[t])
      /\ row'[s] = IF gone THEN r ELSE row[s]
  BY <1>0, <1>1, <1>2, <1>5, RowDoes DEF Typed
<1>8. \A t \in Subs : row'[t].status = row[t].status /\ row'[t].plan = row[t].plan
  BY <1>5, <1>7
<1>9. Rows' = Rows /\ \A p : Right(p)' <=> Right(p)
  BY <1>8, RightStays
<1>10. Typed'
  <2>1. early' \subseteq Subs
    BY <1>0, <1>1 DEF Typed
  <2> QED
    BY <2>1, <1>1, <1>6, <1>7, <1>9 DEF BillingInv, Typed
<1>11. Meanings'
  <2>1. /\ hook'[h].pc = Handled(e) /\ hook'[h].event = e /\ events' = events
        /\ Sub(e)' = s
    BY <1>1, <1>6, <1>sub DEF HookGoes, Sub
  <2>2. Meant(h)'
    BY <2>1, <1>1, <1>3, <1>9 DEF Meant, At, Upserts
  <2> QED
    BY <2>2, <1>0, <1>1, <1>6, <1>9, MeaningsGo
<1>12. \A x : Written(x)' => Written(x) \/ (x = e /\ Handled(e) = "record")
  BY <1>0, <1>1, <1>3, <1>6, WrittenGoes DEF DonePcs
<1>13. Stored'
  <2>1. \A t \in Subs : row'[t].seen = 0 \/ row'[t].seen \in Of(t)
    BY <1>0, <1>1, <1>5, <1>7, <1>sub DEF Stored, Of
  <2>2. \A x \in DOMAIN events : Written(x)' /\ Upserts(x) => Sub(x) \in Rows
    BY <1>0, <1>3, <1>12, <1>sub DEF Stored, Upserts
  <2>4. ASSUME NEW x \in DOMAIN events, Written(x)', events[x].type = "invoice"
        PROVE  Sub(x) \in invoices \cup early'
    <3>1. CASE Written(x)
      BY <2>4, <3>1, <1>0, <1>1 DEF Stored
    <3>2. CASE ~Written(x)
      <4>1. x = e /\ s \notin Rows
        BY <2>4, <3>2, <1>3, <1>12
      <4>2. \A d \in recorded : Sub(d) = s => ~Upserts(d)
        BY <4>1, <1>0 DEF Stored, Written
      <4> QED
        BY <4>1, <4>2, <2>4, <1>1, <1>sub DEF TooEarly
    <3> QED
      BY <3>1, <3>2
  <2>5. \A x : Upserts(x)' <=> Upserts(x)
    BY <1>1 DEF Upserts
  <2>3. \A t \in Rows : stripe[t].status # "none" /\ row'[t].plan = stripe[t].plan
    BY <1>0, <1>8 DEF Stored, Rows
  <2> QED
    BY <2>1, <2>2, <2>3, <2>4, <2>5, <1>0, <1>1, <1>9, EventsStay DEF Stored
<1>14. CASE gone
  <2>1. Spoiled(s)'
    <3>1. stripe[s].status # "none"
      BY <1>0, <1>1, <1>sub DEF Log, Snapshots
    <3>2. PICK f \in DOMAIN events : First(f, s)
      BY <3>1, <1>2, <1>0 DEF Log
    <3>3. f \in Of(s) /\ events[f].type = "created" /\ f <= e /\ Sub(f) = s /\ e \in Of(s)
      BY <3>2, <1>1, <1>sub DEF First, Of
    <3>4. ~Written(f)
      BY <3>3, <1>0, <1>3, <1>14 DEF Stored, Upserts
    <3>5. f # e
      BY <3>3, <1>3, <1>14
    <3>6. f \in Nat /\ f < e
      BY <3>2, <3>3, <3>5, <1>2, <1>0, EventFields
    <3>7. ~Written(f)' /\ row'[s].seen = e /\ Of(s)' = Of(s)
      BY <3>4, <3>5, <1>1, <1>5, <1>7, <1>12, <1>14, EventsStay
    <3> QED
      BY <3>3, <3>6, <3>7, <1>1 DEF Spoiled
  <2>2. ASSUME NEW t \in Subs \ {s}
        PROVE  (Spoiled(t) => Spoiled(t)') /\ (Followed(t) => Followed(t)')
    <3>1. e \notin Of(t)
      BY <2>2, <1>sub DEF Of
    <3> QED
      BY <3>1, <2>2, <1>0, <1>1, <1>7, <1>12, FollowedStays
  <2> QED
    <3>1. \A t \in Subs : (Spoiled(t) => Spoiled(t)') /\ (Followed(t) => Followed(t)' \/ Spoiled(t)')
      BY <2>1, <2>2
    <3>2. \A g \in Hooks : (At(g, "sync") /\ ~hook[g].late => Right(hook[g].plan))'
      BY <1>6, <1>8, <1>14, SyncedOthers DEF BillingInv, At, HookGoes
    <3> QED
      BY <3>1, <3>2, <2>1, <1>1, <1>2, <1>10, <1>11, <1>13, HookStepKeeps
<1>15. CASE ~gone
  <2>0. Handled(e) = "record" => events[e].type = "invoice"
    BY <1>3, <1>15
  <2>5. ASSUME NEW x, Written(x)', ~Written(x) PROVE x = e /\ events[x].type = "invoice"
    BY <2>0, <2>5, <1>12
  <2>1. \A t \in Subs : (Spoiled(t) => Spoiled(t)') /\ (Followed(t) => Followed(t)')
    BY <2>5, <1>0, <1>1, <1>15, FollowedStays DEF Writes
  <2>2. \A g \in Hooks : (At(g, "sync") /\ ~hook[g].late => Right(hook[g].plan))'
    BY <1>3, <1>6, <1>8, SyncedOthers DEF BillingInv, At, HookGoes
  <2>3. \A x \in DOMAIN events : Open(x) => Open(x)'
    BY <2>0, <1>0, <1>1, <1>6, <1>9, OpenGoes DEF Open, Writes
  <2>4. mixed' = {} /\ ~crossed' =>
          \/ Right(planCode)' \/ (\E x \in DOMAIN events : Open(x)') \/ \E t \in Subs : Spoiled(t)'
    BY <2>1, <2>3, <1>1, <1>8, RightStays DEF BillingInv, Synced
  <2> QED
    BY <2>1, <2>2, <2>4, <1>1, <1>10, <1>11, <1>13, HookStepKeeps
<1> QED
  BY <1>14, <1>15

\* A delivery writes the row of its subscription.
Writing(h, e, s) ==
  /\ e \in DOMAIN events /\ s \in Subs /\ s = Sub(e) /\ Writes(e)
  /\ hook[h].event = e /\ hook[h].pc \in {"upsert", "cancel"}
  /\ UNCHANGED <<stripe, events, recorded, invoices, planCode, owner, early, crossed, faults>>
  /\ row' \in [Subs -> RowRec] /\ \A t \in Subs \ {s} : row'[t] = row[t]
  /\ row'[s].status = events[e].status /\ row'[s].plan = stripe[s].plan
  /\ row'[s].seen = IF e < row[s].seen THEN row[s].seen ELSE e
  /\ row'[s].ending = IF Sets(e) THEN events[e].ending
                      ELSE IF events[e].type = "completed" THEN row[s].ending ELSE FALSE
  /\ mixed' = IF e < row[s].seen THEN mixed \cup {s} ELSE mixed
  /\ hook' \in [Hooks -> HookRec]
  /\ HookGoes(h, IF events[e].status \in Effective THEN "sync"
                 ELSE IF events[e].status = "canceled" THEN "current" ELSE "record", e)
  /\ events[e].status \in Effective => hook'[h].plan = row'[s].plan
  /\ \A g \in Hooks \ {h} : hook[g].pc \in {"current", "sync"} => hook'[g].late

\* What the status of an event says of its type, and what is known of its subscription.
LEMMA EventSays ==
  ASSUME Typed, Log, NEW e \in DOMAIN events
  PROVE  /\ stripe[Sub(e)].status # "none" /\ events[e].plan = stripe[Sub(e)].plan
         /\ stripe[Sub(e)].plan \in Plans
         /\ Writes(e) => /\ events[e].status \in Lasting \cup {"canceled"}
                         /\ events[e].status = "canceled" <=> events[e].type = "deleted"
         /\ events[e].type = "deleted" => \A d \in Of(Sub(e)) : d <= e
  BY EventFields DEF Log, Snapshots, Writes

\* Only one event ends a subscription, and it is the last.
LEMMA CanceledIsLast ==
  ASSUME BillingInv, NEW s \in Subs, Followed(s), row[s].status = "canceled",
         NEW e \in Of(s), row[s].seen <= e
  PROVE  row[s].seen = e
<1>0. Typed /\ Log /\ Stored
  BY DEF BillingInv
<1>1. s \in Rows /\ row[s].seen \in DOMAIN events /\ Writes(row[s].seen)
      /\ row[s].status = events[row[s].seen].status
  BY DEF Followed, Rows
<1>2. row[s].seen \in Of(s) /\ row[s].seen \in Nat /\ e \in Nat /\ e \in DOMAIN events
  BY <1>0, <1>1, EventFields DEF Stored, Of
<1>3. e <= row[s].seen
  BY <1>0, <1>1, <1>2, EventSays DEF Of
<1> QED
  BY <1>2, <1>3

LEMMA WritingFollows ==
  ASSUME BillingInv, NEW h \in Hooks, NEW e, NEW s, Writing(h, e, s), e >= row[s].seen,
         \A x : Written(x)' => Written(x) \/ x = e
  PROVE  (Spoiled(s) => Spoiled(s)') /\ (Followed(s) => Followed(s)')
<1>0. Typed /\ Log /\ Stored
  BY DEF BillingInv
<1>1. /\ e \in DOMAIN events /\ s \in Subs /\ s = Sub(e) /\ Writes(e) /\ e \in Of(s)
      /\ events' = events /\ invoices' = invoices /\ row'[s].status = events[e].status
      /\ row'[s].ending = IF Sets(e) THEN events[e].ending
                          ELSE IF events[e].type = "completed" THEN row[s].ending ELSE FALSE
  BY DEF Writing, Of
<1>2. /\ \A x \in DOMAIN events : x \in Nat
      /\ e \in Nat /\ row[s].seen \in Nat /\ row[s].status \in Statuses
  BY <1>0, <1>1, EventFields, RowFields
<1>3. row'[s].seen = e
  BY <1>2 DEF Writing
<1>4. /\ \A t : Of(t)' = Of(t)
      /\ \A x : (Writes(x)' <=> Writes(x)) /\ (Sets(x)' <=> Sets(x)) /\ Sub(x)' = Sub(x)
  BY <1>1, EventsStay
<1>5. Of(s) \subseteq DOMAIN events
  BY DEF Of
<1>6. ASSUME Spoiled(s) PROVE Spoiled(s)'
  <2>1. PICK f \in Of(s) : events[f].type = "created" /\ ~Written(f) /\ f < row[s].seen
    BY <1>6 DEF Spoiled
  <2>2. f < e
    BY <2>1, <1>2, <1>5
  <2>3. ~Written(f)'
    BY <2>1, <2>2, <1>2
  <2> QED
    BY <2>1, <2>2, <2>3, <1>1, <1>3, <1>4 DEF Spoiled
<1>7. ASSUME Followed(s) PROVE Followed(s)'
  <2>1. \A x \in Of(s) : events[x].type # "invoice" /\ Written(x) => x <= row[s].seen
    BY <1>7 DEF Followed, Writes
  <2>2. \A x \in Of(s)' : events'[x].type # "invoice" /\ Written(x)' => x <= row'[s].seen
    BY <2>1, <1>1, <1>2, <1>3, <1>4, <1>5
  <2>3. s \in Rows' => /\ row'[s].seen \in DOMAIN events' /\ events'[row'[s].seen].type # "invoice"
                       /\ row'[s].status = events'[row'[s].seen].status
    BY <1>1, <1>3 DEF Writes
  <2>4. ASSUME Live(s)', NEW l \in Of(s)', Sets(l)', \A x \in Of(s)' : Sets(x)' => x <= l, Written(l)'
        PROVE  row'[s].ending = events'[l].ending
    <3>1. l \in Of(s) /\ Sets(l) /\ (\A x \in Of(s) : Sets(x) => x <= l)
      BY <2>4, <1>4
    <3>2. l \in Nat /\ l \in DOMAIN events /\ events[l].type \in {"created", "updated"}
          /\ events[l].type # "invoice" /\ Sub(l) = s
      BY <3>1, <1>2, <1>5 DEF Sets, Of
    <3>3. CASE l = e
      BY <3>1, <3>3, <1>1
    <3>4. CASE l # e
      <4>1. Written(l)
        BY <3>4, <2>4
      <4>2. s \in Rows
        BY <4>1, <3>2, <1>0 DEF Stored, Upserts
      <4>3. l <= row[s].seen
        BY <4>1, <3>1, <3>2, <2>1
      <4>4. ~Sets(e)
        BY <4>3, <3>1, <3>2, <3>4, <1>1, <1>2
      <4>5. events[e].type = "completed"
        <5>1. events[e].status \in Lasting
          BY <2>4, <1>1 DEF Live
        <5> QED
          BY <5>1, <4>4, <1>0, <1>1, EventSays, EventFields DEF Sets, Writes
      <4>6. row[s].status # "canceled"
        <5> SUFFICES ASSUME row[s].status = "canceled" PROVE FALSE
          OBVIOUS
        <5>1. row[s].seen = e
          BY <1>1, <1>2, <1>7, CanceledIsLast
        <5>2. events[e].status = "canceled"
          BY <5>1, <4>2, <1>7 DEF Followed
        <5> QED
          BY <5>2, <4>5, <1>0, <1>1, EventSays
      <4>7. Live(s)
        BY <4>2, <4>6, <1>2 DEF Live, Rows, Statuses
      <4> QED
        BY <4>1, <4>4, <4>5, <4>7, <3>1, <1>1, <1>7 DEF Followed
    <3> QED
      BY <3>3, <3>4
  <2> QED
    BY <2>2, <2>3, <2>4 DEF Followed, Writes
<1> QED
  BY <1>6, <1>7

LEMMA WritingKeeps ==
  ASSUME BillingInv, NEW h \in Hooks, NEW e, NEW s, Writing(h, e, s)
  PROVE  BillingInv'
<1> DEFINE pc == IF events[e].status \in Effective THEN "sync"
                 ELSE IF events[e].status = "canceled" THEN "current" ELSE "record"
<1>0. Typed /\ Meanings /\ Stored /\ Log /\ Follows /\ Synced
  BY DEF BillingInv
<1>1. /\ e \in DOMAIN events /\ s \in Subs /\ s = Sub(e) /\ Writes(e) /\ e \in Of(s)
      /\ UNCHANGED <<stripe, events, recorded, invoices, planCode, owner, early, crossed, faults>>
      /\ row' \in [Subs -> RowRec] /\ (\A t \in Subs \ {s} : row'[t] = row[t])
      /\ row'[s].status = events[e].status /\ row'[s].plan = stripe[s].plan
      /\ row'[s].seen = (IF e < row[s].seen THEN row[s].seen ELSE e)
      /\ mixed' = (IF e < row[s].seen THEN mixed \cup {s} ELSE mixed)
      /\ hook' \in [Hooks -> HookRec] /\ HookGoes(h, pc, e)
      /\ events[e].status \in Effective => hook'[h].plan = row'[s].plan
      /\ \A g \in Hooks \ {h} : hook[g].pc \in {"current", "sync"} => hook'[g].late
  BY DEF Writing, Of
<1>2. /\ stripe[s].status # "none" /\ events[e].plan = stripe[s].plan /\ stripe[s].plan \in Plans
      /\ events[e].status \in Lasting \cup {"canceled"}
      /\ events[e].status = "canceled" <=> events[e].type = "deleted"
      /\ e \in Nat /\ row[s].seen \in Nat
  BY <1>0, <1>1, EventSays, EventFields, RowFields
<1>3. Rows' = Rows \cup {s} /\ s \in Rows'
  BY <1>1, <1>2 DEF Rows
<1>4. mixed \subseteq mixed' /\ mixed' \subseteq Subs
  BY <1>0, <1>1 DEF Typed
<1>5. Typed'
  BY <1>1, <1>3, <1>4 DEF BillingInv, Typed
<1>6. Meanings'
  <2>1. hook'[h].pc = pc /\ hook'[h].event = e
    BY <1>1 DEF HookGoes
  <2>2. Meant(h)'
    BY <2>1, <1>1, <1>2, <1>3, EventsStay DEF Meant, At, Upserts
  <2> QED
    BY <2>2, <1>0, <1>1, <1>3, MeaningsGo
<1>7. \A x : Written(x)' => Written(x) \/ x = e
  BY <1>0, <1>1, WrittenGoes
<1>8. Stored'
  <2>1. \A t \in Subs : row'[t].seen = 0 \/ row'[t].seen \in Of(t)'
    BY <1>0, <1>1, EventsStay DEF Stored
  <2>2. \A x \in DOMAIN events :
          Written(x)' /\ Upserts(x) => Sub(x) \in Rows'
    BY <1>0, <1>1, <1>3, <1>7 DEF Stored
  <2>3. \A t \in Rows' : stripe[t].status # "none" /\ row'[t].plan = stripe[t].plan
    BY <1>0, <1>1, <1>2, <1>3 DEF Stored, Rows
  <2>4. recorded \subseteq DOMAIN events
    BY <1>0 DEF Stored
  <2>5. \A x \in DOMAIN events :
          Written(x)' /\ events[x].type = "invoice" => Sub(x) \in invoices \cup early
    BY <1>0, <1>1, <1>7 DEF Stored, Writes
  <2> QED
    BY <2>1, <2>2, <2>3, <2>4, <2>5, <1>1, EventsStay DEF Stored
<1>9. ASSUME NEW t \in Subs \ mixed'
      PROVE  (Spoiled(t) => Spoiled(t)') /\ (Followed(t) => Followed(t)')
  <2>1. CASE t = s
    <3>1. e >= row[s].seen
      BY <2>1, <1>1, <1>2, <1>9
    <3> QED
      BY <2>1, <3>1, <1>7, WritingFollows
  <2>2. CASE t # s
    <3>1. e \notin Of(t)
      BY <2>2, <1>1 DEF Of
    <3> QED
      BY <3>1, <2>2, <1>0, <1>1, <1>7, FollowedStays
  <2> QED
    BY <2>1, <2>2
<1>10. \A g \in Hooks : (At(g, "sync") /\ ~hook[g].late => Right(hook[g].plan))'
  <2> SUFFICES ASSUME NEW g \in Hooks, hook'[g].pc = "sync", ~hook'[g].late
               PROVE  Right(hook[g].plan)'
    BY DEF At
  <2>1. g = h /\ events[e].status \in Effective
    BY <1>1 DEF HookGoes
  <2>2. Live(s)' /\ hook'[g].plan = row'[s].plan
    BY <2>1, <1>1 DEF Live
  <2> QED
    BY <2>2, <1>1 DEF Right
<1>11. ASSUME mixed' = {}, ~crossed'
       PROVE  \/ Right(planCode)' \/ (\E x \in DOMAIN events : Open(x)') \/ \E t \in Subs : Spoiled(t)'
  <2>1. mixed = {} /\ ~crossed /\ e >= row[s].seen
    BY <1>1, <1>2, <1>4, <1>11
  <2>2. CASE \E t \in Subs : Spoiled(t)
    BY <2>2, <1>9, <1>11
  <2>3. CASE \E x \in DOMAIN events : Open(x)
    <3>1. PICK x \in DOMAIN events : Open(x)
      BY <2>3
    <3>2. ~(pc = "record" /\ x = e)
      BY <3>1, <1>2 DEF Open
    <3>3. Open(x)'
      BY <3>1, <3>2, <1>0, <1>1, <1>3, OpenGoes
    <3> QED
      BY <3>3
  <2>4. CASE Right(planCode) /\ ~\E t \in Subs : Spoiled(t)
    <3>1. CASE events[e].status = "past_due"
      <4>1. Live(s)' /\ row'[s].status \notin Effective
        BY <3>1, <1>1 DEF Live
      <4> QED
        BY <4>1, <1>1 DEF Right
    <3>2. CASE events[e].status # "past_due" /\ ~Written(e)
      <4>1. e \notin recorded /\ \A g \in Hooks : hook'[g].event = e => hook'[g].pc # "record"
        BY <3>2, <1>1, <1>2 DEF Written, Done, HookGoes
      <4>2. Open(e)'
        BY <4>1, <3>2, <1>1, <1>2, <1>3, EventsStay DEF Open, At
      <4> QED
        BY <4>2, <1>1
    <3>3. CASE Written(e)
      <4>1. Followed(s)
        BY <2>1, <2>4, <1>0, <1>1 DEF Follows
      <4>2. e <= row[s].seen
        BY <4>1, <3>3, <1>1 DEF Followed
      <4>3. row[s].seen = e
        BY <4>2, <2>1, <1>2
      <4>4. s \in Rows
        <5>1. CASE events[e].type = "deleted"
          <6>1. PICK f \in DOMAIN events : First(f, s)
            BY <1>0, <1>1, <1>2 DEF Log
          <6>2. f \in Of(s) /\ events[f].type = "created" /\ f <= e /\ Sub(f) = s
            BY <6>1, <1>1 DEF First, Of
          <6>3. f # e /\ f < row[s].seen
            BY <6>1, <6>2, <5>1, <4>3, <1>0, <1>2, EventFields
          <6>4. Written(f)
            BY <6>2, <6>3, <2>4, <1>1 DEF Spoiled
          <6> QED
            BY <6>2, <6>4, <1>0 DEF Stored, Upserts
        <5>2. CASE events[e].type # "deleted"
          BY <5>2, <3>3, <1>0, <1>1, EventFields DEF Stored, Writes, Upserts
        <5> QED
          BY <5>1, <5>2
      <4>5. row[s].status = events[e].status /\ row[s].plan = stripe[s].plan
        BY <4>1, <4>3, <4>4, <1>0, <1>1 DEF Followed, Stored
      <4>6. \A t \in Subs : row'[t].status = row[t].status /\ row'[t].plan = row[t].plan
        BY <4>5, <1>1
      <4> QED
        BY <4>6, <2>4, <1>1, RightStays
    <3> QED
      BY <3>1, <3>2, <3>3
  <2> QED
    BY <2>1, <2>2, <2>3, <2>4, <1>0 DEF Synced
<1> QED
  BY <1>1, <1>4, <1>5, <1>6, <1>8, <1>9, <1>10, <1>11, HookStepKeeps

\* As many subscriptions have a row as Stripe can have told of: finitely many.
LEMMA RowsFinite ==
  ASSUME BillingInv
  PROVE  Cardinality(Rows) \in Nat
<1> DEFINE T == {Sub(e) : e \in DOMAIN events}
           f == [e \in DOMAIN events |-> Sub(e)]
<1>1. IsFiniteSet(DOMAIN events)
  BY EventFields, FS_Interval DEF BillingInv
<1>2. f \in Surjection(DOMAIN events, T)
  BY DEF Surjection
<1>3. IsFiniteSet(T)
  BY <1>1, <1>2, FS_Surjection
<1>4. Rows \subseteq T
  <2> SUFFICES ASSUME NEW s \in Rows PROVE s \in T
    OBVIOUS
  <2>1. s \in Subs /\ stripe[s].status # "none"
    BY DEF BillingInv, Stored, Rows
  <2>2. PICK d \in DOMAIN events : First(d, s)
    BY <2>1 DEF BillingInv, Log
  <2> QED
    BY <2>2 DEF First, Of
<1>5. IsFiniteSet(Rows)
  BY <1>3, <1>4, FS_Subset
<1> QED
  BY <1>5, FS_CardinalityType

LEMMA UpsertKeeps ==
  ASSUME BillingInv, NEW h \in Hooks, Upsert(h)
  PROVE  BillingInv'
<1>0. Typed /\ Meanings /\ Stored /\ Log
  BY DEF BillingInv
<1>1. PICK e \in DOMAIN events : e = hook[h].event
  BY <1>0 DEF Upsert, Meanings, Meant, At
<1>2. PICK s \in Subs : s = Sub(e)
  BY <1>0, EventFields
<1>3. Upserts(e) /\ At(h, "upsert")
  BY <1>0, <1>1 DEF Upsert, Meanings, Meant, At
<1>4. /\ stripe[s].status # "none" /\ events[e].plan = stripe[s].plan /\ stripe[s].plan \in Plans
      /\ events[e].status \in Lasting /\ events[e].ending \in BOOLEAN
      /\ events[e].type \in {"created", "completed"} => events[e].status = "active"
      /\ e \in Nat /\ row[s].seen \in Nat /\ row[s].ending \in BOOLEAN /\ row[s] \in RowRec
  BY <1>0, <1>2, <1>3, EventSays, EventFields, RowFields DEF Writes, Log, Snapshots, Upserts
<1> DEFINE new == IF events[e].type = "completed" THEN FromCheckout(s, e) ELSE FromSubscription(s, e)
           r == IF s \in Rows THEN new ELSE [new EXCEPT !.at = Cardinality(Rows) + 1]
           next == [hook[h] EXCEPT !.pc = IF new.status \in Effective THEN "sync" ELSE "record",
                                   !.plan = IF new.status \in Effective THEN new.plan ELSE NoPlan]
<1>5. Latest(s, e) \in Nat
  BY <1>4 DEF Latest
<1>6. /\ new \in RowRec /\ new.status = events[e].status /\ new.plan = stripe[s].plan
      /\ new.seen = Latest(s, e)
      /\ new.ending = IF events[e].type = "completed" THEN row[s].ending ELSE events[e].ending
  <2>1. CASE events[e].type = "completed"
    BY <2>1, <1>4, <1>5 DEF FromCheckout, ResolvePlan, RowRec, Statuses
  <2>2. CASE events[e].type # "completed"
    BY <2>2, <1>4, <1>5 DEF FromSubscription, ResolvePlan, RowRec, Statuses
  <2> QED
    BY <2>1, <2>2
<1>7. /\ row' = [row EXCEPT ![s] = r] /\ Mixes(s, e) /\ Wrote(h, next)
      /\ UNCHANGED <<stripe, events, recorded, invoices, planCode, owner, early, crossed, faults>>
  BY <1>1, <1>2 DEF Upsert
<1> HIDE DEF new
<1>8. /\ r \in RowRec /\ r.status = new.status /\ r.plan = new.plan /\ r.seen = new.seen
      /\ r.ending = new.ending
  BY <1>6, RowsFinite DEF RowRec
<1>9. /\ next \in HookRec /\ next.event = e
      /\ next.pc = IF events[e].status \in Effective THEN "sync" ELSE "record"
      /\ events[e].status \in Effective => next.plan = stripe[s].plan
  <2>1. hook[h] \in HookRec
    BY <1>0, HookFields
  <2> QED
    BY <2>1, <1>1, <1>4, <1>6 DEF HookRec, Pcs
<1> HIDE DEF r, next
<1>10. row' \in [Subs -> RowRec] /\ row'[s] = r /\ \A t \in Subs \ {s} : row'[t] = row[t]
  BY <1>0, <1>7, <1>8, RowDoes
<1>11. /\ hook' \in [Hooks -> HookRec] /\ hook'[h] = next /\ HookGoes(h, next.pc, e)
       /\ \A g \in Hooks \ {h} : hook[g].pc \in {"current", "sync"} => hook'[g].late
  BY <1>0, <1>7, <1>9, WroteDoes
<1>12. Writing(h, e, s)
  BY <1>1, <1>2, <1>3, <1>4, <1>6, <1>7, <1>8, <1>9, <1>10, <1>11
     DEF Writing, Writes, Sets, Latest, Mixes, At, Upserts
<1> QED
  BY <1>12, WritingKeeps

LEMMA CancelKeeps ==
  ASSUME BillingInv, NEW h \in Hooks, Cancel(h)
  PROVE  BillingInv'
<1>0. Typed /\ Meanings /\ Stored /\ Log
  BY DEF BillingInv
<1>1. PICK e \in DOMAIN events : e = hook[h].event
  BY <1>0 DEF Cancel, Meanings, Meant, At
<1>2. PICK s \in Subs : s = Sub(e)
  BY <1>0, EventFields
<1>3. events[e].type = "deleted" /\ s \in Rows /\ At(h, "cancel")
  BY <1>0, <1>1, <1>2 DEF Cancel, Meanings, Meant, At
<1>4. /\ row[s].plan = stripe[s].plan /\ events[e].status = "canceled"
      /\ e \in Nat /\ row[s].seen \in Nat /\ row[s] \in RowRec
  BY <1>0, <1>2, <1>3, EventSays, EventFields, RowFields DEF Writes, Stored
<1> DEFINE r == [Canceled(row[s]) EXCEPT !.seen = Latest(s, e)]
           next == [hook[h] EXCEPT !.pc = "current"]
<1>5. Latest(s, e) \in Nat
  BY <1>4 DEF Latest
<1>6. /\ r \in RowRec /\ r.status = "canceled" /\ r.plan = stripe[s].plan
      /\ r.seen = Latest(s, e) /\ r.ending = FALSE
  BY <1>4, <1>5 DEF Canceled, RowRec, Statuses
<1>7. /\ row' = [row EXCEPT ![s] = r] /\ Mixes(s, e) /\ Wrote(h, next)
      /\ UNCHANGED <<stripe, events, recorded, invoices, planCode, owner, early, crossed, faults>>
  BY <1>1, <1>2 DEF Cancel
<1>8. next \in HookRec /\ next.event = e /\ next.pc = "current"
  BY <1>0, <1>1, HookFields DEF HookRec, Pcs
<1> HIDE DEF r, next
<1>9. row' \in [Subs -> RowRec] /\ row'[s] = r /\ \A t \in Subs \ {s} : row'[t] = row[t]
  BY <1>0, <1>6, <1>7, RowDoes
<1>10. /\ hook' \in [Hooks -> HookRec] /\ HookGoes(h, "current", e)
       /\ \A g \in Hooks \ {h} : hook[g].pc \in {"current", "sync"} => hook'[g].late
  BY <1>0, <1>7, <1>8, WroteDoes
<1>11. Writing(h, e, s)
  BY <1>1, <1>2, <1>3, <1>4, <1>6, <1>7, <1>9, <1>10
     DEF Writing, Writes, Sets, Latest, Mixes, At, Upserts
<1> QED
  BY <1>11, WritingKeeps

-----------------------------------------------------------------------------
(* Billing: Stripe's steps and the owner's                                 *)

LEMMA LegalIsTyped ==
  ASSUME NEW s, NEW type, NEW sub, Legal(type, s, sub)
  PROVE  sub \in SubRec /\ sub.plan \in Plans
  BY DEF Legal

\* What Stripe has made was sold with a plan.
LEMMA SoldWithPlan ==
  ASSUME BillingInv, NEW s \in Subs, stripe[s].status # "none"
  PROVE  stripe[s].plan \in Plans /\ stripe[s] \in SubRec
<1>1. PICK f \in DOMAIN events : First(f, s)
  BY DEF BillingInv, Log
<1>2. f \in DOMAIN events /\ Sub(f) = s
  BY <1>1 DEF First, Of
<1> QED
  BY <1>2, EventSays, SubFields DEF BillingInv

LEMMA StripeStepKeeps ==
  ASSUME BillingInv, NEW s \in Subs, NEW type \in EventTypes, NEW sub, Legal(type, s, sub),
         Becomes(type, s, sub),
         UNCHANGED <<recorded, invoices, row, planCode, hook, owner, history, faults>>
  PROVE  BillingInv'
<1>1. PICK n : n = Len(events) + 1
  OBVIOUS
<1>2. Sent(n, type, s, sub)
  BY <1>1, LegalIsTyped, BecomesDoes DEF BillingInv
<1>3. Log' /\ Meanings' /\ Stored' /\ Follows' /\ Synced' /\ Asked'
  BY <1>2, LogGrows, StripeKeeps, StripeAsks DEF BillingInv
<1>4. Rows' = Rows
  BY DEF Rows
<1>5. Typed'
  BY <1>2, <1>4 DEF BillingInv, Typed, Sent
<1> QED
  BY <1>3, <1>5 DEF BillingInv

LEMMA CheckoutKeeps ==
  ASSUME BillingInv, NEW s \in Subs, NEW plan \in Plans, Checkout(s, plan)
  PROVE  BillingInv'
<1> DEFINE sub == [status |-> "active", plan |-> plan, price |-> plan, ending |-> FALSE,
                   customer |-> Customer(s)]
<1>1. Customer(s) \in SUBSET Subs
  <2>1. \A t \in Subs : stripe[t].customer \in SUBSET Subs
    BY SubFields DEF BillingInv
  <2>2. Newest(Rows) \subseteq Subs
    BY DEF Newest, Rows
  <2> QED
    BY <2>1, <2>2 DEF Customer
<1>2. sub \in SubRec /\ sub.plan = plan /\ sub.status = "active"
  BY <1>1 DEF SubRec, Statuses, Codes
<1>3. /\ stripe[s].status = "none" /\ Becomes("created", s, sub)
      /\ UNCHANGED <<recorded, invoices, row, planCode, hook, owner, history, faults>>
  BY DEF Checkout, NoSub
<1> HIDE DEF sub
<1>4. Legal("created", s, sub) /\ "created" \in EventTypes
  BY <1>2, <1>3 DEF Legal, EventTypes
<1> QED
  BY <1>3, <1>4, StripeStepKeeps

\* Every other change is one of a subscription that has not ended.
LEMMA ChangeKeeps ==
  ASSUME BillingInv, NEW s \in Subs, NEW type \in EventTypes, NEW sub \in SubRec,
         sub.plan = stripe[s].plan, Becomes(type, s, sub),
         UNCHANGED <<recorded, invoices, row, planCode, hook, owner, history, faults>>,
         \/ /\ type \in {"completed", "invoice"} /\ stripe[s].status = "active"
            /\ sub.status = stripe[s].status /\ sub.ending = stripe[s].ending
         \/ /\ type = "updated" /\ stripe[s].status \in Lasting
            /\ sub.status \in Lasting
         \/ /\ type = "deleted" /\ stripe[s].status \in Lasting
            /\ sub.status = "canceled" /\ sub.ending = stripe[s].ending
  PROVE  BillingInv'
<1>1. stripe[s].plan \in Plans
  BY SoldWithPlan
<1>2. Legal(type, s, sub)
  BY <1>1 DEF Legal
<1> QED
  BY <1>2, StripeStepKeeps

LEMMA StripeStepsKeep ==
  ASSUME BillingInv, NEW s \in Subs, StripeStep(s)
  PROVE  BillingInv'
<1>1. ASSUME NEW plan \in Plans, Checkout(s, plan) PROVE BillingInv'
  BY <1>1, CheckoutKeeps
<1>2. ASSUME NEW status \in Lasting, Payment(s, status) PROVE BillingInv'
  <2> DEFINE sub == [stripe[s] EXCEPT !.status = status]
  <2>1. stripe[s].status \in Lasting /\ Becomes("updated", s, sub)
        /\ UNCHANGED <<recorded, invoices, row, planCode, hook, owner, history, faults>>
    BY <1>2 DEF Payment
  <2>2. stripe[s] \in SubRec
    BY <2>1, SoldWithPlan
  <2>3. sub \in SubRec /\ sub.status = status /\ sub.plan = stripe[s].plan
    BY <2>2 DEF SubRec, Statuses
  <2>4. "updated" \in EventTypes
    BY DEF EventTypes
  <2> HIDE DEF sub
  <2> QED
    BY <2>1, <2>3, <2>4, ChangeKeeps
<1>3. ASSUME NEW ending \in BOOLEAN, PortalCancels(s, ending) PROVE BillingInv'
  <2> DEFINE sub == [stripe[s] EXCEPT !.ending = ending]
  <2>1. stripe[s].status \in Lasting /\ Becomes("updated", s, sub)
        /\ UNCHANGED <<recorded, invoices, row, planCode, hook, owner, history, faults>>
    BY <1>3 DEF PortalCancels
  <2>2. stripe[s] \in SubRec
    BY <2>1, SoldWithPlan
  <2>3. sub \in SubRec /\ sub.status = stripe[s].status /\ sub.plan = stripe[s].plan
    BY <2>2 DEF SubRec
  <2>4. "updated" \in EventTypes
    BY DEF EventTypes
  <2> HIDE DEF sub
  <2> QED
    BY <2>1, <2>3, <2>4, ChangeKeeps
<1>6. ASSUME NEW price \in Plans \cup {Starter}, PortalMoves(s, price) PROVE BillingInv'
  <2> DEFINE sub == [stripe[s] EXCEPT !.price = price]
  <2>1. stripe[s].status \in Lasting /\ Becomes("updated", s, sub)
        /\ UNCHANGED <<recorded, invoices, row, planCode, hook, owner, history, faults>>
    BY <1>6 DEF PortalMoves
  <2>2. stripe[s] \in SubRec
    BY <2>1, SoldWithPlan
  <2>3. sub \in SubRec /\ sub.status = stripe[s].status /\ sub.plan = stripe[s].plan
    BY <2>2 DEF SubRec, Codes
  <2>4. "updated" \in EventTypes
    BY DEF EventTypes
  <2> HIDE DEF sub
  <2> QED
    BY <2>1, <2>3, <2>4, ChangeKeeps
<1>4. ASSUME Ends(s) PROVE BillingInv'
  <2> DEFINE sub == [stripe[s] EXCEPT !.status = "canceled"]
  <2>1. stripe[s].status \in Lasting /\ Becomes("deleted", s, sub)
        /\ UNCHANGED <<recorded, invoices, row, planCode, hook, owner, history, faults>>
    BY <1>4 DEF Ends
  <2>2. stripe[s] \in SubRec
    BY <2>1, SoldWithPlan
  <2>3. sub \in SubRec /\ sub.status = "canceled" /\ sub.plan = stripe[s].plan
        /\ sub.ending = stripe[s].ending
    BY <2>2 DEF SubRec, Statuses
  <2>4. "deleted" \in EventTypes
    BY DEF EventTypes
  <2> HIDE DEF sub
  <2> QED
    BY <2>1, <2>3, <2>4, ChangeKeeps
<1>5. ASSUME NEW type \in {"completed", "invoice"}, CheckoutCompletes(s, type) PROVE BillingInv'
  <2>1. stripe[s].status = "active" /\ Becomes(type, s, stripe[s])
        /\ UNCHANGED <<recorded, invoices, row, planCode, hook, owner, history, faults>>
    BY <1>5 DEF CheckoutCompletes
  <2>2. stripe[s] \in SubRec /\ type \in EventTypes
    BY <2>1, SoldWithPlan DEF EventTypes
  <2> QED
    BY <2>1, <2>2, ChangeKeeps
<1> QED
  BY <1>1, <1>2, <1>3, <1>4, <1>5, <1>6 DEF StripeStep

\* What the owner's request changes itself: nothing, or whether one row ends.
LEMMA OwnerAlone ==
  ASSUME BillingInv, UNCHANGED <<stripe, events, recorded, invoices, row, planCode, hook, history>>,
         faults' \in Nat, owner' \in OwnerRec, Asked',
         owner'.pc # "idle" => \E s \in Rows : owner'.sub = {s}
  PROVE  BillingInv'
<1>1. Rows' = Rows
  BY DEF Rows
<1>2. Typed'
  BY <1>1 DEF BillingInv, Typed
<1>3. Log'
  BY LogStays DEF BillingInv
<1>4. Meanings'
  BY <1>1 DEF BillingInv, Meanings, Meant, At, Sub, Writes, Upserts
<1>5. \A x : Written(x)' <=> Written(x)
  BY DEF Written, Done
<1>6. Stored'
  BY <1>1, <1>5, EventsStay DEF BillingInv, Stored
<1>7. \A t \in Subs : (Spoiled(t) => Spoiled(t)') /\ (Followed(t) => Followed(t)')
  BY <1>5, FollowedStays DEF BillingInv
<1>8. Follows'
  BY <1>7 DEF BillingInv, Follows
<1>9. Synced'
  <2>1. \A p : Right(p)' <=> Right(p)
    BY RightStays
  <2>2. \A x \in DOMAIN events : Open(x) => Open(x)'
    BY <1>1 DEF Open, Writes, Sub, At
  <2>3. (\A h \in Hooks : At(h, "sync") /\ ~hook[h].late => Right(hook[h].plan))'
    BY <2>1, RightStays DEF BillingInv, Synced, At
  <2>4. (mixed = {} /\ ~crossed => \/ Right(planCode) \/ (\E e \in DOMAIN events : Open(e))
                       \/ \E s \in Subs : Spoiled(s))'
    BY <2>1, <2>2, <1>7, RightStays DEF BillingInv, Synced
  <2> QED
    BY <2>3, <2>4 DEF Synced
<1> QED
  BY <1>2, <1>3, <1>4, <1>6, <1>8, <1>9 DEF BillingInv

LEMMA NoRequestTyped == NoRequest \in OwnerRec /\ NoRequest.pc = "idle"
  BY DEF NoRequest, OwnerRec

LEMMA AskReadKeeps ==
  ASSUME BillingInv, NEW ending \in BOOLEAN, AskRead(ending)
  PROVE  BillingInv'
<1>1. PICK s \in Newest({t \in Rows : row[t].ending # ending}) :
        owner' = [owner EXCEPT !.pc = "stripe", !.sub = {s}, !.ending = ending]
  BY DEF AskRead
<1>2. s \in Rows /\ s \in Subs /\ owner \in OwnerRec
  BY DEF Newest, Rows, BillingInv, Typed
<1>3. owner' \in OwnerRec /\ owner'.pc = "stripe" /\ owner'.sub = {s}
  BY <1>1, <1>2 DEF OwnerRec
<1>4. Asked'
  BY <1>3 DEF Asked
<1>5. UNCHANGED <<stripe, events, recorded, invoices, row, planCode, hook, history>> /\ faults' \in Nat
  BY DEF AskRead, BillingInv, Typed
<1> QED
  BY <1>2, <1>3, <1>4, <1>5, OwnerAlone

LEMMA AskFailsKeeps ==
  ASSUME BillingInv, AskFails
  PROVE  BillingInv'
<1>1. /\ owner' = NoRequest /\ faults' \in Nat
      /\ UNCHANGED <<stripe, events, recorded, invoices, row, planCode, hook, history>>
  BY DEF AskFails, Fault, BillingInv, Typed
<1>2. Asked'
  BY <1>1, NoRequestTyped DEF Asked
<1> QED
  BY <1>1, <1>2, NoRequestTyped, OwnerAlone

LEMMA AskStripeKeeps ==
  ASSUME BillingInv, NEW s \in Subs, AskStripe(s)
  PROVE  BillingInv'
<1>0. Typed /\ Log /\ Stored /\ owner \in OwnerRec /\ owner.ending \in BOOLEAN
  BY DEF BillingInv, Typed, OwnerRec
<1>1. /\ owner.pc = "stripe" /\ owner.sub = {s}
      /\ UNCHANGED <<recorded, invoices, row, planCode, hook, history, faults>>
  BY DEF AskStripe
<1>2. s \in Rows /\ stripe[s].status # "none"
  BY <1>0, <1>1 DEF Typed, Stored
<1>3. CASE stripe[s].status = "canceled"
  <2>1. owner' = NoRequest /\ UNCHANGED <<stripe, events>>
    BY <1>3 DEF AskStripe
  <2>2. Asked'
    BY <2>1, NoRequestTyped DEF Asked
  <2>3. faults' \in Nat
    BY <1>0, <1>1 DEF Typed
  <2> QED
    BY <2>1, <2>2, <2>3, <1>1, NoRequestTyped, OwnerAlone
<1>4. CASE stripe[s].status # "canceled"
  <2> DEFINE sub == [stripe[s] EXCEPT !.ending = owner.ending]
  <2>1. /\ IF stripe[s].ending = owner.ending THEN UNCHANGED <<stripe, events>>
           ELSE Becomes("updated", s, sub)
        /\ owner' = [owner EXCEPT !.pc = "write", !.event = Len(events')]
    BY <1>4 DEF AskStripe
  <2>2. ASSUME Len(events') \in Nat
        PROVE  /\ owner' \in OwnerRec /\ owner'.pc = "write" /\ owner'.sub = {s}
               /\ owner'.event = Len(events') /\ owner'.ending = owner.ending
    BY <2>1, <2>2, <1>0, <1>1 DEF OwnerRec
  <2>3. stripe[s] \in SubRec /\ stripe[s].plan \in Plans
    BY <1>2, SoldWithPlan
  <2>4. sub \in SubRec /\ sub.status = stripe[s].status /\ sub.plan = stripe[s].plan
        /\ sub.ending = owner.ending
    BY <2>3, <1>0 DEF SubRec
  <2> HIDE DEF sub
  \* Once Stripe has answered, its last snapshot says what the owner has asked for.
  <2>5. ASSUME Log', stripe'[s].ending = owner.ending, stripe'[s].status # "none",
               \A e \in DOMAIN events' : e \in Nat /\ e <= Len(events'), Len(events') \in Nat
        PROVE  Asked'
    <3>1. PICK l \in DOMAIN events' : LastSet(l, s)'
      BY <2>5 DEF Log
    <3>2. /\ l \in Of(s)' /\ Sets(l)' /\ (\A e \in Of(s)' : Sets(e)' => e <= l)
          /\ events'[l].ending = owner.ending /\ l <= Len(events')
      BY <3>1, <2>5 DEF LastSet
    <3>3. \A t \in Subs : owner'.sub = {t} => t = s
      BY <2>2, <2>5
    <3>4. Len(events') <= Len(events')
      BY <2>5
    <3> QED
      BY <3>2, <3>3, <3>4, <2>2, <2>5 DEF Asked
  <2>6. CASE stripe[s].ending = owner.ending
    <3>1. UNCHANGED <<stripe, events>>
      BY <2>1, <2>6
    <3>2. Len(events') \in Nat /\ \A e \in DOMAIN events' : e \in Nat /\ e <= Len(events')
      BY <3>1, <1>0, EventFields
    <3>3. Asked'
      BY <3>1, <3>2, <2>5, <2>6, <1>0, <1>2, LogStays
    <3>4. faults' \in Nat
      BY <1>0, <1>1 DEF Typed
    <3> QED
      BY <3>1, <3>2, <3>3, <3>4, <2>2, <1>1, <1>2, OwnerAlone
  <2>7. CASE stripe[s].ending # owner.ending
    <3>1. Becomes("updated", s, sub) /\ "updated" \in EventTypes
      BY <2>1, <2>7 DEF EventTypes
    <3>2. stripe[s].status \in Lasting
      BY <1>0, <1>2, <1>4, SubFields DEF Statuses
    <3>3. Legal("updated", s, sub)
      BY <3>2, <2>3, <2>4 DEF Legal
    <3>4. PICK n : n = Len(events) + 1
      OBVIOUS
    <3>5. Sent(n, "updated", s, sub)
      BY <3>1, <3>3, <3>4, <2>3, <2>4, <1>0, BecomesDoes
    <3>6. Log'
      BY <3>1, <3>3, <3>5, <1>0, LogGrows
    <3>7. Meanings' /\ Stored' /\ Follows' /\ Synced'
      BY <3>1, <3>3, <3>5, <1>1, StripeKeeps DEF BillingInv
    <3>8. /\ Len(events') \in Nat /\ stripe'[s] = sub
          /\ \A e \in DOMAIN events' : e \in Nat /\ e <= Len(events')
      BY <3>5, <1>0, EventFields DEF Sent
    <3>9. Asked'
      BY <3>2, <3>6, <3>8, <2>4, <2>5
    <3>10. Rows' = Rows
      BY <1>1 DEF Rows
    <3>11. Typed'
      BY <3>5, <3>8, <3>10, <2>2, <1>0, <1>1, <1>2 DEF Typed, Sent
    <3> QED
      BY <3>6, <3>7, <3>9, <3>11 DEF BillingInv
  <2> QED
    BY <2>6, <2>7
<1> QED
  BY <1>3, <1>4

LEMMA AskWriteKeeps ==
  ASSUME BillingInv, NEW s \in Subs, AskWrite(s)
  PROVE  BillingInv'
<1> DEFINE r == [row[s] EXCEPT !.ending = owner.ending]
<1>0. Typed /\ Log /\ Stored /\ Asked /\ owner.ending \in BOOLEAN /\ owner.event \in Nat
  BY DEF BillingInv, Typed, OwnerRec
<1>1. /\ owner.pc = "write" /\ owner.sub = {s} /\ owner' = NoRequest
      /\ row' = [row EXCEPT ![s] = r]
      /\ mixed' = (IF owner.event < row[s].seen THEN mixed \cup {s} ELSE mixed)
      /\ UNCHANGED <<stripe, events, recorded, invoices, planCode, hook, early, crossed, faults>>
  BY DEF AskWrite
<1>2. /\ r \in RowRec /\ r.status = row[s].status /\ r.plan = row[s].plan /\ r.seen = row[s].seen
      /\ r.ending = owner.ending /\ row[s].seen \in Nat
  BY <1>0, RowFields DEF RowRec
<1> HIDE DEF r
<1>3. row' \in [Subs -> RowRec] /\ row'[s] = r /\ \A t \in Subs \ {s} : row'[t] = row[t]
  BY <1>0, <1>1, <1>2, RowDoes
<1>4. \A t \in Subs : /\ row'[t].status = row[t].status /\ row'[t].plan = row[t].plan
                      /\ row'[t].seen = row[t].seen
  BY <1>2, <1>3
<1>5. Rows' = Rows /\ \A p : Right(p)' <=> Right(p)
  BY <1>4, RightStays
<1>6. Typed' /\ mixed \subseteq mixed'
  BY <1>0, <1>1, <1>3, NoRequestTyped DEF Typed
<1>7. Log' /\ Asked'
  BY <1>0, <1>1, LogStays, NoRequestTyped DEF Asked
<1>8. Meanings'
  BY <1>1, <1>5 DEF BillingInv, Meanings, Meant, At, Sub, Writes, Upserts
<1>9. \A x : Written(x)' <=> Written(x)
  BY <1>1 DEF Written, Done
<1>10. Stored'
  <2>1. \A t \in Subs : row'[t].seen = 0 \/ row'[t].seen \in Of(t)'
    BY <1>0, <1>1, <1>4, EventsStay DEF Stored
  <2>2. \A t \in Rows : stripe[t].status # "none" /\ row'[t].plan = stripe[t].plan
    BY <1>0, <1>4 DEF Stored, Rows
  <2> QED
    BY <2>1, <2>2, <1>0, <1>1, <1>5, <1>9, EventsStay DEF Stored
<1>11. ASSUME NEW t \in Subs, Spoiled(t) PROVE Spoiled(t)'
  BY <1>1, <1>4, <1>9, <1>11, EventsStay DEF Spoiled
<1>12. ASSUME NEW t \in Subs \ mixed', Followed(t) PROVE Followed(t)'
  <2>1. CASE t # s
    BY <2>1, <1>0, <1>1, <1>3, <1>9, <1>12, FollowedStays
  <2>2. CASE t = s
    <3>1. row[s].seen <= owner.event
      BY <2>2, <1>0, <1>1, <1>2, <1>12
    <3>2. /\ \A y : Of(y)' = Of(y)
          /\ \A x : (Writes(x)' <=> Writes(x)) /\ (Sets(x)' <=> Sets(x))
          /\ \A x \in Of(s) : x \in Nat
      BY <1>0, <1>1, EventsStay, EventFields DEF Of
    <3>3. \A x \in Of(s)' : events'[x].type # "invoice" /\ Written(x)' => x <= row'[s].seen
      BY <3>2, <2>2, <1>1, <1>4, <1>9, <1>12 DEF Followed, Writes
    <3>4. s \in Rows' => /\ row'[s].seen \in DOMAIN events' /\ events'[row'[s].seen].type # "invoice"
                         /\ row'[s].status = events'[row'[s].seen].status
      BY <2>2, <1>1, <1>4, <1>5, <1>12 DEF Followed, Writes
    <3>5. ASSUME Live(s)', NEW l \in Of(s)', Sets(l)', \A x \in Of(s)' : Sets(x)' => x <= l, Written(l)'
          PROVE  row'[s].ending = events'[l].ending
      <4>1. /\ l \in Of(s) /\ Sets(l) /\ Written(l) /\ l \in Nat
            /\ \A x \in Of(s) : Sets(x) => x <= l
        BY <3>2, <3>5, <1>9
      <4>2. l <= row[s].seen
        BY <4>1, <2>2, <1>12 DEF Followed, Writes, Sets
      <4>3. PICK k \in Of(s) : /\ Sets(k) /\ k <= owner.event /\ events[k].ending = owner.ending
                               /\ \A x \in Of(s) : Sets(x) /\ x <= owner.event => x <= k
        BY <1>0, <1>1 DEF Asked
      <4>4. l <= owner.event
        BY <4>1, <4>2, <3>1, <1>0, <1>2
      <4>5. l <= k /\ k <= l /\ k \in Nat
        BY <4>1, <4>3, <4>4, <3>2
      <4>6. l = k
        BY <4>1, <4>5
      <4> QED
        BY <4>3, <4>6, <1>1, <1>2, <1>3
    <3> QED
      BY <3>3, <3>4, <3>5, <2>2 DEF Followed, Writes
  <2> QED
    BY <2>1, <2>2
<1>13. Follows'
  BY <1>6, <1>11, <1>12 DEF BillingInv, Follows
<1>14. Synced'
  <2>1. \A x \in DOMAIN events : Open(x) => Open(x)'
    BY <1>1, <1>5 DEF Open, Writes, Sub, At
  <2>2. (\A h \in Hooks : At(h, "sync") /\ ~hook[h].late => Right(hook[h].plan))'
    BY <1>1, <1>4, RightStays DEF BillingInv, Synced, At
  <2>3. (mixed = {} /\ ~crossed => \/ Right(planCode) \/ (\E e \in DOMAIN events : Open(e))
                       \/ \E t \in Subs : Spoiled(t))'
    BY <2>1, <1>1, <1>4, <1>6, <1>11, RightStays DEF BillingInv, Synced
  <2> QED
    BY <2>2, <2>3 DEF Synced
<1> QED
  BY <1>6, <1>7, <1>8, <1>10, <1>13, <1>14 DEF BillingInv

-----------------------------------------------------------------------------
(* Billing: the theorems                                                   *)

LEMMA BillingBegins == Init => BillingInv
<1> SUFFICES ASSUME Init PROVE BillingInv
  OBVIOUS
<1>1. /\ stripe = [s \in Subs |-> NoSub] /\ events = <<>> /\ row = [s \in Subs |-> NoRow]
      /\ hook = [h \in Hooks |-> Waiting] /\ owner = NoRequest /\ recorded = {} /\ invoices = {}
      /\ mixed = {} /\ early = {} /\ crossed \in BOOLEAN /\ planCode \in Codes /\ faults = MaxFaults
  BY DEF Init, Codes
<1>2. /\ NoSub \in SubRec /\ NoSub.status = "none" /\ NoRow \in RowRec /\ NoRow.status = "none"
      /\ NoRow.seen = 0 /\ Waiting \in HookRec /\ Waiting.pc = "idle"
  BY DEF NoSub, NoRow, Waiting, SubRec, RowRec, HookRec, Statuses, Pcs, Codes
<1>3. Typed
  BY <1>1, <1>2, NoRequestTyped DEF Typed
<1>4. DOMAIN events = {} /\ Rows = {} /\ \A s : Of(s) = {}
  BY <1>1, <1>2 DEF Rows, Of
<1>5. Log /\ Stored
  BY <1>1, <1>2, <1>4 DEF Log, Snapshots, Stored
<1>6. Meanings /\ Asked
  BY <1>1, <1>2, NoRequestTyped DEF Meanings, Meant, At, Asked
<1>7. \A s \in Subs : Followed(s)
  BY <1>1, <1>2, <1>4 DEF Followed, Live
<1>8. Synced
  BY <1>1, <1>2, <1>4 DEF Synced, Right, Live, At
<1> QED
  BY <1>3, <1>5, <1>6, <1>7, <1>8 DEF BillingInv, Follows

LEMMA BillingGoesOn == BillingInv /\ [Next]_vars => BillingInv'
<1> SUFFICES ASSUME BillingInv, [Next]_vars PROVE BillingInv'
  OBVIOUS
<1>1. ASSUME NEW s \in Subs, StripeStep(s) PROVE BillingInv'
  BY <1>1, StripeStepsKeep
<1>2. ASSUME NEW h \in Hooks, HookStep(h) PROVE BillingInv'
  BY <1>2, UpsertKeeps, StoreInvoiceKeeps, CancelKeeps, ReadCurrentKeeps, SyncKeeps, RecordKeeps
     DEF HookStep
<1>3. ASSUME NEW h \in Hooks, HookFails(h) PROVE BillingInv'
  BY <1>3, HookFailsKeeps
<1>4. ASSUME NEW h \in Hooks, NEW e \in 1..Len(events), Receive(h, e) PROVE BillingInv'
  BY <1>4, ReceiveKeeps
<1>5. ASSUME OwnerStep PROVE BillingInv'
  BY <1>5, AskReadKeeps, AskStripeKeeps, AskWriteKeeps DEF OwnerStep
<1>6. ASSUME AskFails PROVE BillingInv'
  BY <1>6, AskFailsKeeps
<1>7. ASSUME UNCHANGED vars PROVE BillingInv'
  <2>1. faults' \in Nat /\ owner' \in OwnerRec /\ Asked'
    BY <1>7, AskedStays DEF vars, BillingInv, Typed
  <2>2. owner'.pc # "idle" => \E s \in Rows : owner'.sub = {s}
    BY <1>7 DEF vars, BillingInv, Typed
  <2> QED
    BY <2>1, <2>2, <1>7, OwnerAlone DEF vars
<1> QED
  BY <1>1, <1>2, <1>3, <1>4, <1>5, <1>6, <1>7 DEF Next

LEMMA BillingHolds == Spec => []BillingInv
  BY BillingBegins, BillingGoesOn, PTL DEF Spec

\* The types, for any number of subscriptions, plans, deliveries, events and faults
\* (billing.service.ts: handleWebhook, cancel, reactivate).
THEOREM BillingTypeCorrect == Spec => []TypeOK
<1>1. BillingInv => TypeOK
  BY TypesHold DEF BillingInv, Stored
<1> QED
  BY <1>1, BillingHolds, PTL

\* When everything has been recorded no first event is still to come.
LEMMA QuietIsFollowed ==
  ASSUME BillingInv, Quiet, NEW s \in Subs
  PROVE  ~Spoiled(s) /\ (s \notin mixed => Followed(s))
<1>1. \A e \in DOMAIN events : Written(e)
  BY DEF Quiet, Written
<1>2. ~Spoiled(s)
  BY <1>1 DEF Spoiled, Of
<1> QED
  BY <1>2 DEF BillingInv, Follows

\* Everything recorded and nothing in progress, whatever was repeated, overlapped or failed half
\* way: a row says of its subscription what Stripe says, unless something older was written over
\* something newer, with the plan that was sold; and the invoices are stored, unless they came
\* before anything of their subscription
\* (billing.service.ts: handleWebhook, upsertFromSubscription, deleteSubscription, upsertInvoice).
THEOREM RowsFollowStripe == Spec => []FollowsStripe
<1>1. ASSUME BillingInv, Quiet, NEW s \in Subs
      PROVE  /\ s \in Rows => row[s].plan = stripe[s].plan
             /\ (\E e \in recorded : Sub(e) = s /\ events[e].type = "invoice") =>
                  s \in invoices \cup early
  BY <1>1 DEF BillingInv, Stored, Written
<1>2. ASSUME BillingInv, Quiet, NEW s \in Subs \ mixed
      PROVE  row[s].status = stripe[s].status /\ (Live(s) => row[s].ending = stripe[s].ending)
  <2>0. Typed /\ Log /\ Stored /\ Followed(s)
    BY <1>2, QuietIsFollowed DEF BillingInv
  <2>1. recorded = DOMAIN events /\ (\A e \in DOMAIN events : Written(e) /\ e \in Nat)
        /\ Of(s) \subseteq DOMAIN events
    BY <1>2, <2>0, EventFields DEF Quiet, Written, Of
  <2>3. CASE stripe[s].status = "none"
    <3>1. s \notin Rows
      BY <2>0, <2>3 DEF Stored
    <3> QED
      BY <3>1, <2>3 DEF Rows, Live
  <2>4. CASE stripe[s].status # "none"
    <3>1. PICK f \in DOMAIN events, l \in DOMAIN events, k \in DOMAIN events :
            First(f, s) /\ LastWrite(l, s) /\ LastSet(k, s)
      BY <2>0, <2>4 DEF Log
    <3>2. s \in Rows
      BY <3>1, <2>0, <2>1 DEF First, Stored, Of, Upserts
    <3>3. /\ row[s].seen \in DOMAIN events /\ Writes(row[s].seen)
          /\ row[s].status = events[row[s].seen].status /\ l <= row[s].seen
      BY <3>1, <3>2, <2>0, <2>1 DEF Followed, LastWrite
    <3>4. row[s].seen \in Of(s) /\ row[s].seen \in Nat
      BY <3>3, <2>0, <2>1, EventFields DEF Stored
    <3>5. row[s].seen <= l
      BY <3>1, <3>3, <3>4 DEF LastWrite
    <3>6. row[s].seen = l
      BY <3>3, <3>4, <3>5, <2>1
    <3>7. row[s].status = stripe[s].status
      BY <3>1, <3>3, <3>6 DEF LastWrite
    <3>8. Live(s) => row[s].ending = stripe[s].ending
      BY <3>1, <2>0, <2>1 DEF Followed, LastSet
    <3> QED
      BY <3>7, <3>8
  <2> QED
    BY <2>3, <2>4
<1>3. BillingInv => FollowsStripe
  BY <1>1, <1>2 DEF FollowsStripe
<1> QED
  BY <1>3, BillingHolds, PTL

\* The tenant's plan code then is the plan of the effective subscription, when it is the only
\* one that runs, and once the last has ended the free plan, whatever code the client chose at
\* first; unless events were written out of order or the delivery that wrote the plan code last
\* was overtaken (billing.service.ts: syncTenantPlan, deleteSubscription).
THEOREM PlanIsTheEffectiveOne == Spec => []PlanFollows
<1>1. BillingInv => PlanFollows
  <2> SUFFICES ASSUME BillingInv, Quiet, mixed = {}, ~crossed PROVE Right(planCode)
    BY DEF PlanFollows, Right
  <2>1. \A s \in Subs : ~Spoiled(s)
    BY QuietIsFollowed
  <2>2. ~\E e \in DOMAIN events : Open(e)
    BY DEF Quiet, Open
  <2> QED
    BY <2>1, <2>2 DEF BillingInv, Synced
<1> QED
  BY <1>1, BillingHolds, PTL
=============================================================================
