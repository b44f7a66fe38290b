--------------------------- MODULE TenantSettings ---------------------------
(* The settings of one tenant that its own people change by hand: support    *)
(* grants, policies, a mail domain, a mailbox's warm-up.  The four share no  *)
(* row, so a behaviour works on one of them, desk, and the others stay as    *)
(* they were: interleaving them would only multiply the states.              *)
EXTENDS SupportGrants, PolicyVersions, MailDomains, MailboxWarmup

VARIABLE desk  \* which of the four

Desks == {"grants", "policies", "domain", "warmup"}

SettingsInit ==
    GrantInit /\ PolicyInit /\ DomainInit /\ WarmInit /\ desk \in Desks

OnDesk(where, next) == desk = where /\ next /\ UNCHANGED desk

SettingsNext ==
    \/ OnDesk("grants", GrantNext) /\ UNCHANGED <<policyVars, domainVars, warmVars>>
    \/ OnDesk("policies", PolicyNext) /\ UNCHANGED <<grantVars, domainVars, warmVars>>
    \/ OnDesk("domain", DomainNext) /\ UNCHANGED <<grantVars, policyVars, warmVars>>
    \/ OnDesk("warmup", WarmNext) /\ UNCHANGED <<grantVars, policyVars, domainVars>>

SettingsSpec ==
    SettingsInit /\ [][SettingsNext]_<<grantVars, policyVars, domainVars, warmVars, desk>>
=============================================================================
