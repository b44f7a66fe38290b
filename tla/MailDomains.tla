----------------------------- MODULE MailDomains ----------------------------
(* One custom mail domain of a tenant: added, checked against DNS, activated *)
(* for sending, removed.  The TXT, SPF, DKIM and DMARC results are one fact: *)
(* whether all four pass; MX, which gates nothing, is left out.              *)
EXTENDS Integers, SettingsCalls

CONSTANT MaxRows  \* bound: times the domain is added

VARIABLES
    mailDomain,  \* the MailDomain row; id 0 when there is none
    rows,        \* ids handed out
    dns,         \* whether the records published now pass
    domainCall,  \* what each request is doing
    removedOn,   \* history: a domain was removed while it was sending
    entwined     \* history: an activation crossed a check or a removal

domainVars == <<mailDomain, rows, dns, domainCall, removedOn, entwined>>

NoDomain == [id |-> 0, ready |-> FALSE, sending |-> FALSE]

DomainInit ==
    /\ mailDomain = NoDomain /\ rows = 0 /\ dns = FALSE
    /\ removedOn = FALSE /\ entwined = FALSE
    /\ domainCall = [c \in Calls |-> Idle]

DomainStep(c, to) == domainCall' = [domainCall EXCEPT ![c] = to]
Elsewhere(c, stage) == \E d \in Calls \ {c} : AtStage(domainCall, d, stage)
SameRow(c) == mailDomain.id = domainCall[c].id

(* add looks for the name, then inserts it: the unique index fails a second. *)
AddRead(c) ==
    /\ AtStage(domainCall, c, "idle") /\ mailDomain.id = 0
    /\ DomainStep(c, [stage |-> "adding", id |-> 0])
    /\ UNCHANGED <<mailDomain, rows, dns, removedOn, entwined>>

AddWrite(c) ==
    /\ AtStage(domainCall, c, "adding") /\ rows < MaxRows
    /\ IF mailDomain.id = 0
       THEN rows' = rows + 1 /\ mailDomain' = [NoDomain EXCEPT !.id = rows']
       ELSE UNCHANGED <<mailDomain, rows>>
    /\ DomainStep(c, Idle)
    /\ UNCHANGED <<dns, removedOn, entwined>>

(* diagnostics reads the row, asks DNS, and stores the answer.               *)
CheckRead(c) ==
    /\ AtStage(domainCall, c, "idle") /\ mailDomain.id # 0
    /\ DomainStep(c, [stage |-> "asking", id |-> mailDomain.id])
    /\ UNCHANGED <<mailDomain, rows, dns, removedOn, entwined>>

(* A lookup may fail, which counts as a record that is not there.            *)
DnsAnswers(c) == \E ok \in {FALSE, dns} :
    /\ AtStage(domainCall, c, "asking")
    /\ DomainStep(c, [stage |-> "answered", id |-> domainCall[c].id, ok |-> ok])
    /\ UNCHANGED <<mailDomain, rows, dns, removedOn, entwined>>

\* Mutant of Checked: a failed check leaves sending as it was.
CheckedOnly(ok) == [mailDomain EXCEPT !.ready = ok]

Checked(ok) == [mailDomain EXCEPT !.ready = ok, !.sending = @ /\ ok]

CheckWrite(c) ==
    /\ AtStage(domainCall, c, "answered")
    /\ mailDomain' = IF SameRow(c) THEN Checked(domainCall[c].ok) ELSE mailDomain
    /\ DomainStep(c, Idle)
    /\ entwined' = (entwined \/ Elsewhere(c, "activating"))
    /\ UNCHANGED <<rows, dns, removedOn>>

(* activate trusts the results stored by the last check.                     *)
ActivateRead(c) ==
    /\ AtStage(domainCall, c, "idle") /\ mailDomain.id # 0 /\ mailDomain.ready
    /\ DomainStep(c, [stage |-> "activating", id |-> mailDomain.id])
    /\ UNCHANGED <<mailDomain, rows, dns, removedOn, entwined>>

ActivateWrite(c) ==
    /\ AtStage(domainCall, c, "activating")
    /\ mailDomain' = IF SameRow(c) THEN [mailDomain EXCEPT !.sending = TRUE] ELSE mailDomain
    /\ DomainStep(c, Idle)
    /\ entwined' = (entwined \/ Elsewhere(c, "removing"))
    /\ UNCHANGED <<rows, dns, removedOn>>

(* remove refuses a domain that is sending.                                  *)
RemoveRead(c) ==
    /\ AtStage(domainCall, c, "idle") /\ mailDomain.id # 0 /\ ~mailDomain.sending
    /\ DomainStep(c, [stage |-> "removing", id |-> mailDomain.id])
    /\ UNCHANGED <<mailDomain, rows, dns, removedOn, entwined>>

RemoveWrite(c) ==
    /\ AtStage(domainCall, c, "removing")
    /\ IF SameRow(c)
       THEN mailDomain' = NoDomain /\ removedOn' = (removedOn \/ mailDomain.sending)
       ELSE UNCHANGED <<mailDomain, removedOn>>
    /\ DomainStep(c, Idle)
    /\ UNCHANGED <<rows, dns, entwined>>

DomainCallFails(c) ==
    /\ ~AtStage(domainCall, c, "idle")
    /\ DomainStep(c, Idle)
    /\ UNCHANGED <<mailDomain, rows, dns, removedOn, entwined>>

(* The owner of the domain edits its records.                                *)
RecordsChange ==
    /\ dns' = ~dns
    /\ UNCHANGED <<mailDomain, rows, domainCall, removedOn, entwined>>

DomainNext ==
    \/ \E c \in Calls :
          \/ AddRead(c) \/ AddWrite(c)
          \/ CheckRead(c) \/ DnsAnswers(c) \/ CheckWrite(c)
          \/ ActivateRead(c) \/ ActivateWrite(c)
          \/ RemoveRead(c) \/ RemoveWrite(c) \/ DomainCallFails(c)
    \/ RecordsChange

(* A domain sends only while the last check stored for it passed, and is not *)
(* removed while it sends, unless an activation crossed a check or a removal *)
(* between its read and its update.  (domain.service.ts 81-106, 119-167.)    *)
SendingIsChecked ==
    ~entwined => (mailDomain.sending => mailDomain.ready) /\ ~removedOn
=============================================================================
