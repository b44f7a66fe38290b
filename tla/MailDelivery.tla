---------------------------- MODULE MailDelivery ----------------------------
(***************************************************************************)
(* One author's outgoing mail: the request handlers of the mail service    *)
(* (draft, update, delete, schedule, cancel, send) and the scheduler       *)
(* workers of one or more server instances, all working on the same rows.  *)
(*                                                                         *)
(* A handler is a process that runs one database statement or transaction  *)
(* per step.  What it read in one step is kept in its record of proc and   *)
(* used in a later one, exactly as the code keeps it in a local variable   *)
(* across an await.  PostgreSQL runs every transaction at READ COMMITTED,  *)
(* so an UPDATE ... WHERE id is blind to what the handler read before.     *)
(***************************************************************************)
EXTENDS Integers, FiniteSets

CONSTANTS
  Messages,      \* the messages the author may create
  Addrs,         \* addresses a draft may name as recipients
  Self,          \* the author's own address (in Addrs when mail to self is allowed)
  Clients,       \* request handlers that may run at the same time for the author
  Workers,       \* scheduler workers: one per server instance
  Ops,           \* operations the clients issue
  MaxAttempts,   \* MAIL_SCHEDULE_MAX_ATTEMPTS
  WindowMax,     \* MAIL_MAX_RECIPIENTS_PER_WINDOW
  WarmupCap,     \* the daily cap of the mailbox's warm-up stage
  ProviderMapped,\* TRUE when the SMTP provider is configured for the author
  MaxEnv,        \* bound: how many times the surroundings change
  MaxFail,       \* bound: how many queries fail
  MaxCrash       \* bound: how many processes may die in the middle of their work

AllOps == {"create", "update", "delete", "schedule", "cancel", "send"}

ASSUME MailAssumption ==
  /\ Clients \cap Workers = {}
  /\ Ops \subseteq AllOps
  /\ MaxAttempts \in Nat \ {0}
  /\ WindowMax \in Nat \ {0}
  /\ WarmupCap \in Nat
  /\ ProviderMapped \in BOOLEAN
  /\ MaxEnv \in Nat
  /\ MaxFail \in Nat
  /\ MaxCrash \in Nat
  /\ IsFiniteSet(Addrs)

VARIABLES
  msg,      \* the email_messages row: status, when it is due, scheduleAttempts
  item,     \* folder of the author's own mailbox item of the message
  rows,     \* message_recipients: delivery status of each address, "NONE" when absent
  linked,   \* recipients whose recipientMembershipId is set
  inbox,    \* members whose mailbox holds a copy of the message
  jobs,     \* messages with an SMTP_SEND job (idempotency key smtp-send:<id>)
  box,      \* the author's mailbox row: suspension, send window, warm-up counter
  world,    \* what the author's handlers read and do not write
  proc,     \* the handlers in progress
  orphan,   \* history: messages whose worker let go of them: it died, or its run failed
  sent,     \* history: delivery transactions committed per message, 2 = "2 or more"
  budget    \* changes of the surroundings, failing queries and crashes still allowed

vars == <<msg, item, rows, linked, inbox, jobs, box, world, proc, orphan, sent, budget>>
rowVars == <<msg, item, rows, linked, inbox, jobs, sent>>

Procs    == Clients \cup Workers
Statuses == {"NEW", "DRAFT", "SCHEDULED", "SENDING", "SENT", "FAILED", "DELETED"}
Existing == Statuses \ {"NEW", "DELETED"}
RowState == {"NONE", "PENDING", "QUEUED", "DELIVERED"}

Recipients(m) == {a \in Addrs : rows[m][a] # "NONE"}
Exists(m)     == msg[m].status \in Existing
Kind(external) == IF external THEN "external" ELSE "internal"

Idle == [pc |-> "idle", m |-> {}, seen |-> {}, ext |-> {}, susp |-> FALSE, tries |-> 0]
At(p, pc, m) == proc[p].pc = pc /\ proc[p].m = {m}

\* A handler goes on, stops, or a worker's attempt is caught by processDueScheduled.
Goto(p, pc)  == proc' = [proc EXCEPT ![p].pc = pc]
Finish(p)    == proc' = [proc EXCEPT ![p] = Idle]
Start(p, pc, m) == proc' = [proc EXCEPT ![p] = [Idle EXCEPT !.pc = pc, !.m = {m}]]
\* Mutant of Reject: the worker has no catch block.
RejectUncaught(p) == Finish(p)
Reject(p)    == IF p \in Workers THEN Goto(p, "failed") ELSE Finish(p)

Delivering == {"vet", "warmup", "window", "commit"}
Holding    == Delivering \cup {"author", "read", "failed", "settle"}
ClientPcs  == {"updateWrite", "deleteWrite", "scheduleWrite", "cancelWrite"}
Pcs        == {"idle"} \cup Holding \cup ClientPcs

SuccOf(n) == IF n < 2 THEN n + 1 ELSE 2

\* A query fails.
QueryFails == budget.fail > 0 /\ budget' = [budget EXCEPT !.fail = @ - 1]

-----------------------------------------------------------------------------
(* Drafts                                                                  *)

\* Recipient rows of a draft addressed to these.
Fresh(to) == [a \in Addrs |-> IF a \in to THEN "PENDING" ELSE "NONE"]

\* createDraft: message, recipients and the DRAFTS item in one transaction.
CreateDraft(c, m, to) ==
  /\ "create" \in Ops
  /\ proc[c] = Idle
  /\ msg[m].status = "NEW"
  /\ msg' = [msg EXCEPT ![m].status = "DRAFT"]
  /\ item' = [item EXCEPT ![m] = "DRAFTS"]
  /\ rows' = [rows EXCEPT ![m] = Fresh(to)]
  /\ UNCHANGED <<linked, inbox, jobs, box, world, proc, orphan, sent, budget>>

\* Mutant of EditableDraft: the status is not part of the query.
EditableByFolder(m) == Exists(m) /\ item[m] = "DRAFTS"
EditableDraft(m) == msg[m].status = "DRAFT" /\ item[m] = "DRAFTS"

\* Every handler below starts by reading the row it is about to change.
BeginEdit(c, m, op, pc, readable) ==
  /\ op \in Ops
  /\ proc[c] = Idle
  /\ readable
  /\ Start(c, pc, m)
  /\ UNCHANGED <<rowVars, box, world, orphan, budget>>

UpdateRead(c, m) == BeginEdit(c, m, "update", "updateWrite", EditableDraft(m))

\* The recipients are replaced; the update by id fails, and with it the transaction, when
\* the message is gone.
UpdateWrite(c, m, to) ==
  /\ At(c, "updateWrite", m)
  /\ IF Exists(m)
     THEN /\ rows' = [rows EXCEPT ![m] = Fresh(to)]
          /\ linked' = [linked EXCEPT ![m] = {}]
     ELSE UNCHANGED <<rows, linked>>
  /\ Finish(c)
  /\ UNCHANGED <<msg, item, inbox, jobs, box, world, orphan, sent, budget>>

DeleteRead(c, m) == BeginEdit(c, m, "delete", "deleteWrite", EditableDraft(m))

\* Deletes by id whatever the status is by now; recipients and mailbox items cascade.
DeleteWrite(c, m) ==
  /\ At(c, "deleteWrite", m)
  /\ IF Exists(m)
     THEN /\ msg' = [msg EXCEPT ![m] = [status |-> "DELETED", due |-> "never", attempts |-> 0]]
          /\ item' = [item EXCEPT ![m] = "NONE"]
          /\ rows' = [rows EXCEPT ![m] = Fresh({})]
          /\ linked' = [linked EXCEPT ![m] = {}]
          /\ inbox' = [inbox EXCEPT ![m] = {}]
     ELSE UNCHANGED <<msg, item, rows, linked, inbox>>
  /\ Finish(c)
  /\ UNCHANGED <<jobs, box, world, orphan, sent, budget>>

-----------------------------------------------------------------------------
(* Scheduling                                                              *)

ScheduleRead(c, m) ==
  BeginEdit(c, m, "schedule", "scheduleWrite", EditableDraft(m) /\ Recipients(m) # {})

ScheduleWrite(c, m) ==
  /\ At(c, "scheduleWrite", m)
  /\ msg' = IF Exists(m)
            THEN [msg EXCEPT ![m] = [status |-> "SCHEDULED", due |-> "later", attempts |-> 0]]
            ELSE msg
  /\ Finish(c)
  /\ UNCHANGED <<item, rows, linked, inbox, jobs, box, world, orphan, sent, budget>>

CancelRead(c, m) == BeginEdit(c, m, "cancel", "cancelWrite", msg[m].status = "SCHEDULED")

CancelWrite(c, m) ==
  /\ At(c, "cancelWrite", m)
  /\ msg' = IF Exists(m)
            THEN [msg EXCEPT ![m] = [status |-> "DRAFT", due |-> "never", attempts |-> 0]]
            ELSE msg
  /\ Finish(c)
  /\ UNCHANGED <<item, rows, linked, inbox, jobs, box, world, orphan, sent, budget>>

-----------------------------------------------------------------------------
(* The scheduler worker around deliver                                     *)

\* The atomic UPDATE ... WHERE status = 'SCHEDULED' that claims one due message.
Claim(w, m) ==
  /\ proc[w] = Idle
  /\ msg[m].status = "SCHEDULED"
  /\ msg[m].due = "due"
  /\ msg' = [msg EXCEPT ![m].status = "SENDING", ![m].attempts = @ + 1]
  /\ Start(w, "author", m)
  /\ UNCHANGED <<item, rows, linked, inbox, jobs, box, world, orphan, sent, budget>>

\* The sender's membership is looked up; without one the message is FAILED by id (the
\* update fails, and the run of the worker ends, when the message is gone).
CheckAuthor(w, m) ==
  /\ At(w, "author", m)
  /\ IF world.authorActive
     THEN Goto(w, "read") /\ UNCHANGED msg
     ELSE /\ Finish(w)
          /\ msg' = IF Exists(m) THEN [msg EXCEPT ![m].status = "FAILED"] ELSE msg
  /\ UNCHANGED <<item, rows, linked, inbox, jobs, box, world, orphan, sent, budget>>

\* The catch block of processDueScheduled: one read, then an update by id.
CountAttempts(w, m) ==
  /\ At(w, "failed", m)
  /\ LET tries == IF Exists(m) THEN msg[m].attempts ELSE MaxAttempts
     IN  proc' = [proc EXCEPT ![w] = [@ EXCEPT !.pc = "settle", !.tries = tries]]
  /\ UNCHANGED <<rowVars, box, world, orphan, budget>>

\* Mutants of AfterFailure: the retry gets no time; a status of another table.
AfterFailureUntimed(tries) ==
  IF tries >= MaxAttempts THEN [status |-> "FAILED", due |-> "never"]
                          ELSE [status |-> "SCHEDULED", due |-> "never"]
AfterFailureTypo(tries) ==
  IF tries >= MaxAttempts THEN [status |-> "REJECTED", due |-> "never"]
                          ELSE [status |-> "SCHEDULED", due |-> "later"]

AfterFailure(tries) ==
  IF tries >= MaxAttempts THEN [status |-> "FAILED", due |-> "never"]
                          ELSE [status |-> "SCHEDULED", due |-> "later"]

Settle(w, m) ==
  /\ At(w, "settle", m)
  /\ LET next == AfterFailure(proc[w].tries)
     IN  msg' = IF Exists(m)
                THEN [msg EXCEPT ![m] = [@ EXCEPT !.status = next.status, !.due = next.due]]
                ELSE msg
  /\ Finish(w)
  /\ UNCHANGED <<item, rows, linked, inbox, jobs, box, world, orphan, sent, budget>>

\* The queries around deliver are outside its try: the look-up of the membership and the
\* FAILED of an inactive author before it, the read and the update of the catch after it.
\* One that fails ends the run of processDueScheduled; the timer of server.ts logs it and
\* starts the next one, and the claimed message stays as it is.
RunFails(w, m) ==
  /\ At(w, "author", m) \/ At(w, "failed", m) \/ At(w, "settle", m)
  /\ QueryFails
  /\ orphan' = orphan \cup {m}
  /\ Finish(w)
  /\ UNCHANGED <<rowVars, box, world>>

-----------------------------------------------------------------------------
(* deliver: shared by send and by the worker                               *)

\* The first read of deliver: the message in an allowed status, with its recipients.
Snapshot(p, m) ==
  proc' = [proc EXCEPT ![p] = [Idle EXCEPT !.pc = "vet", !.m = {m}, !.seen = Recipients(m)]]

\* Mutant of SendRead: a scheduled message may be sent at once.
SendReadScheduled(c, m) ==
  /\ "send" \in Ops
  /\ proc[c] = Idle
  /\ msg[m].status \in {"DRAFT", "SCHEDULED"}
  /\ Recipients(m) # {}
  /\ Snapshot(c, m)
  /\ UNCHANGED <<rowVars, box, world, orphan, budget>>

SendRead(c, m) ==
  /\ "send" \in Ops
  /\ proc[c] = Idle
  /\ msg[m].status = "DRAFT"
  /\ Recipients(m) # {}
  /\ Snapshot(c, m)
  /\ UNCHANGED <<rowVars, box, world, orphan, budget>>

WorkerRead(w, m) ==
  /\ At(w, "read", m)
  /\ IF msg[m].status = "SENDING" /\ Recipients(m) # {}
     THEN Snapshot(w, m)
     ELSE Reject(w)
  /\ UNCHANGED <<rowVars, box, world, orphan, budget>>

\* Domain gate, policy decision per recipient, suppression list; then the mailbox is read.
Allowed(to) ==
  /\ world.domainReady
  /\ \A a \in to : Kind(a \notin world.members) \notin world.denied
  /\ (to \ world.members) \cap world.suppressed = {}

Vet(p, m) ==
  /\ At(p, "vet", m)
  /\ IF Allowed(proc[p].seen)
     THEN proc' = [proc EXCEPT ![p].pc = "warmup",
                               ![p].ext = proc[p].seen \ world.members,
                               ![p].susp = box.suspended]
     ELSE Reject(p)
  /\ UNCHANGED <<rowVars, box, world, orphan, budget>>

\* reserveWarmup, one conditional UPDATE; skipped when the mailbox was read as suspended.
WarmupUse(n) == (IF box.newDay THEN 0 ELSE box.warm) + n

ReserveWarmup(p, m) ==
  /\ At(p, "warmup", m)
  /\ LET n == Cardinality(proc[p].ext)
     IN  \/ /\ proc[p].susp \/ n = 0
            /\ Goto(p, "window")
            /\ UNCHANGED box
         \/ /\ ~proc[p].susp /\ n > 0
            /\ ~box.suspended /\ WarmupUse(n) <= WarmupCap
            /\ box' = [box EXCEPT !.warm = WarmupUse(n), !.newDay = FALSE]
            /\ Goto(p, "window")
         \/ /\ ~proc[p].susp /\ n > 0
            /\ box.suspended \/ WarmupUse(n) > WarmupCap
            /\ Reject(p)
            /\ UNCHANGED box
  /\ UNCHANGED <<rowVars, world, orphan, budget>>

\* Mutant of ReserveWindow: an elapsed window is not restarted.
ReserveWindowSticky(p, m) ==
  /\ At(p, "window", m)
  /\ LET n == Cardinality(proc[p].seen)
     IN  IF ~box.suspended /\ (box.elapsed \/ box.count + n <= WindowMax)
         THEN /\ box' = [box EXCEPT !.count = @ + n, !.elapsed = FALSE]
              /\ Goto(p, "commit")
         ELSE Reject(p) /\ UNCHANGED box
  /\ UNCHANGED <<rowVars, world, orphan, budget>>

\* The send-window reservation, one conditional UPDATE: an elapsed window restarts with
\* this message's recipients, whatever their number.
ReserveWindow(p, m) ==
  /\ At(p, "window", m)
  /\ LET n == Cardinality(proc[p].seen)
     IN  IF ~box.suspended /\ (box.elapsed \/ box.count + n <= WindowMax)
         THEN /\ box' = [box EXCEPT !.count = IF box.elapsed THEN n ELSE @ + n,
                                    !.elapsed = FALSE]
              /\ Goto(p, "commit")
         ELSE Reject(p) /\ UNCHANGED box
  /\ UNCHANGED <<rowVars, world, orphan, budget>>

\* Mutant of NeedsProvider: a message with a member among its recipients gets no job.
NeedsProviderAlone(to, link) == to # {} /\ link = {}

\* Recipients without a membership go through the SMTP provider, when there is one.
NeedsProvider(to, link) == to \ link # {}

\* The delivery transaction: it reads the recipients again, delivers to members, queues the
\* rest, files the author's item under SENT and marks the message SENT by id.
Deliver(m) ==
  LET to       == Recipients(m)
      internal == to \cap world.members
      link     == linked[m] \cup internal
  IN  /\ rows' = [rows EXCEPT ![m] = [a \in Addrs |->
                    IF a \in internal THEN "DELIVERED"
                    ELSE IF a \in to THEN "QUEUED" ELSE "NONE"]]
      /\ linked' = [linked EXCEPT ![m] = link]
      /\ inbox' = [inbox EXCEPT ![m] = @ \cup (internal \ {Self})]
      /\ item' = [item EXCEPT ![m] = "SENT"]
      /\ msg' = [msg EXCEPT ![m].status = "SENT", ![m].due = "never"]
      /\ jobs' = IF ProviderMapped /\ NeedsProvider(to, link) THEN jobs \cup {m} ELSE jobs
      /\ sent' = [sent EXCEPT ![m] = SuccOf(@)]

Commit(p, m) ==
  /\ At(p, "commit", m)
  /\ Exists(m) /\ item[m] # "NONE"
  /\ Deliver(m)
  /\ Finish(p)
  /\ UNCHANGED <<box, world, orphan, budget>>

\* A query of deliver fails, or the transaction rolls back because a row it updates is
\* gone.  What the earlier queries reserved stays reserved.
DeliveryFails(p, m) ==
  /\ proc[p].m = {m} /\ proc[p].pc \in {"read"} \cup Delivering
  /\ IF proc[p].pc = "commit" /\ ~Exists(m) THEN UNCHANGED budget ELSE QueryFails
  /\ Reject(p)
  /\ UNCHANGED <<rowVars, box, world, orphan>>

-----------------------------------------------------------------------------
(* Time, administrators and crashes                                        *)

BecomesDue(m) ==
  /\ msg[m].due = "later"
  /\ msg' = [msg EXCEPT ![m].due = "due"]
  /\ UNCHANGED <<item, rows, linked, inbox, jobs, box, world, proc, orphan, sent, budget>>

WindowElapses ==
  /\ ~box.elapsed /\ box.count > 0
  /\ box' = [box EXCEPT !.elapsed = TRUE]
  /\ UNCHANGED <<rowVars, world, proc, orphan, budget>>

DayPasses ==
  /\ ~box.newDay /\ box.warm > 0
  /\ box' = [box EXCEPT !.newDay = TRUE]
  /\ UNCHANGED <<rowVars, world, proc, orphan, budget>>

Spend == budget.env > 0 /\ budget' = [budget EXCEPT !.env = @ - 1]

\* updateSendingStatus: resuming clears the send window.
SetSuspended(on) ==
  /\ Spend
  /\ box.suspended # on
  /\ box' = IF on THEN [box EXCEPT !.suspended = TRUE]
            ELSE [box EXCEPT !.suspended = FALSE, !.count = 0, !.elapsed = FALSE]
  /\ UNCHANGED <<rowVars, world, proc, orphan>>

\* What the handlers only read: a member joins or leaves, an address is suppressed or
\* released, the domain gate opens or closes, another SENDING policy is activated, the
\* author is suspended or reinstated.
Flip(S, a) == IF a \in S THEN S \ {a} ELSE S \cup {a}
MemberChanges(a)      == world' = [world EXCEPT !.members = Flip(@, a)]
SuppressionChanges(a) == world' = [world EXCEPT !.suppressed = Flip(@, a)]
DomainGateChanges     == world' = [world EXCEPT !.domainReady = ~@]
PolicyChanges(d)      == d # world.denied /\ world' = [world EXCEPT !.denied = d]
AuthorChanges         == world' = [world EXCEPT !.authorActive = ~@]

WorldChanges ==
  /\ Spend
  /\ \/ \E a \in Addrs : MemberChanges(a) \/ SuppressionChanges(a)
     \/ \E d \in {{}, {"external"}, {"internal", "external"}} : PolicyChanges(d)
     \/ DomainGateChanges \/ AuthorChanges
  /\ UNCHANGED <<rowVars, box, proc, orphan>>

\* The server instance dies: the handler stops between two of its steps.
Crash(p) ==
  /\ proc[p] # Idle
  /\ budget.crash > 0
  /\ budget' = [budget EXCEPT !.crash = @ - 1]
  /\ orphan' = IF p \in Workers THEN orphan \cup proc[p].m ELSE orphan
  /\ Finish(p)
  /\ UNCHANGED <<rowVars, box, world>>

-----------------------------------------------------------------------------
Init ==
  /\ msg = [m \in Messages |-> [status |-> "NEW", due |-> "never", attempts |-> 0]]
  /\ item = [m \in Messages |-> "NONE"]
  /\ rows = [m \in Messages |-> [a \in Addrs |-> "NONE"]]
  /\ linked = [m \in Messages |-> {}]
  /\ inbox = [m \in Messages |-> {}]
  /\ jobs = {}
  /\ box = [suspended |-> FALSE, count |-> 0, elapsed |-> FALSE, warm |-> 0, newDay |-> FALSE]
  /\ \E ms \in SUBSET Addrs :
       world = [members |-> ms, suppressed |-> {}, domainReady |-> TRUE,
                denied |-> {}, authorActive |-> TRUE]
  /\ proc = [p \in Procs |-> Idle]
  /\ orphan = {}
  /\ sent = [m \in Messages |-> 0]
  /\ budget = [env |-> MaxEnv, fail |-> MaxFail, crash |-> MaxCrash]

ClientStep(c, m) ==
  \/ \E to \in SUBSET Addrs \ {{}} : CreateDraft(c, m, to) \/ UpdateWrite(c, m, to)
  \/ UpdateRead(c, m)
  \/ DeleteRead(c, m) \/ DeleteWrite(c, m)
  \/ ScheduleRead(c, m) \/ ScheduleWrite(c, m)
  \/ CancelRead(c, m) \/ CancelWrite(c, m)
  \/ SendRead(c, m)

WorkerStep(w, m) ==
  \/ Claim(w, m) \/ CheckAuthor(w, m) \/ WorkerRead(w, m)
  \/ CountAttempts(w, m) \/ Settle(w, m)

DeliverStep(p, m) ==
  \/ Vet(p, m) \/ ReserveWarmup(p, m) \/ ReserveWindow(p, m)
  \/ Commit(p, m) \/ DeliveryFails(p, m)

Environment ==
  \/ \E m \in Messages : BecomesDue(m)
  \/ WindowElapses \/ DayPasses
  \/ \E on \in BOOLEAN : SetSuspended(on)
  \/ WorldChanges

Next ==
  \/ \E c \in Clients, m \in Messages : ClientStep(c, m)
  \/ \E w \in Workers, m \in Messages : WorkerStep(w, m)
  \/ \E p \in Procs, m \in Messages : DeliverStep(p, m)
  \/ \E w \in Workers, m \in Messages : RunFails(w, m)
  \/ \E p \in Procs : Crash(p)
  \/ Environment

Spec == Init /\ [][Next]_vars

\* The scheduler's timer fires again and again, its awaits return, and time passes.
Progress(w) == \E m \in Messages : WorkerStep(w, m) \/ DeliverStep(w, m)
Fairness ==
  /\ \A w \in Workers : WF_vars(Progress(w))
  /\ \A m \in Messages : WF_vars(BecomesDue(m))
FairSpec == Spec /\ Fairness

-----------------------------------------------------------------------------
(* Properties                                                              *)

MsgType  == msg \in [Messages -> [status : Statuses, due : {"never", "later", "due"},
                                  attempts : Nat]]
RowsType == /\ item \in [Messages -> {"NONE", "DRAFTS", "SENT"}]
            /\ rows \in [Messages -> [Addrs -> RowState]]
            /\ linked \in [Messages -> SUBSET Addrs]
            /\ inbox \in [Messages -> SUBSET Addrs]
            /\ jobs \subseteq Messages
            /\ sent \in [Messages -> 0..2]
BoxType  == box \in [suspended : BOOLEAN, count : Nat, elapsed : BOOLEAN, warm : Nat,
                     newDay : BOOLEAN]
WorldType == world \in [members : SUBSET Addrs, suppressed : SUBSET Addrs,
                        domainReady : BOOLEAN, denied : SUBSET {"internal", "external"},
                        authorActive : BOOLEAN]
ProcType == proc \in [Procs -> [pc : Pcs, m : SUBSET Messages, seen : SUBSET Addrs,
                                ext : SUBSET Addrs, susp : BOOLEAN, tries : Nat]]
HistoryType == orphan \subseteq Messages /\ budget \in [env : Nat, fail : Nat, crash : Nat]

TypeOK == MsgType /\ RowsType /\ BoxType /\ WorldType /\ ProcType /\ HistoryType

\* A message is SENDING only while a scheduler worker holds it, or because that worker died
\* or a query of its run around deliver failed: no rejection, no retry, no race with a
\* handler and no failure inside deliver leaves one behind (and processDueScheduled has no
\* way to take a SENDING message up again).
Holds(p, m) == proc[p].m = {m} /\ proc[p].pc \in Holding

SendingIsHeld ==
  \A m \in Messages :
    msg[m].status = "SENDING" => m \in orphan \/ \E w \in Workers : Holds(w, m)

\* The send window never counts more recipients than the limit, except for one message
\* that alone exceeds it: the restart branch of the reservation does not check the limit.
WindowBounded ==
  box.count <= WindowMax \/ box.count <= Cardinality(Addrs)

\* What policy, suppression list and quotas were asked about is what the delivery
\* transaction will deliver to: it reads the recipients again.
VettedIsCurrent ==
  \A p \in Procs, m \in Messages :
    At(p, "commit", m) => Recipients(m) = proc[p].seen

\* Every recipient of a SENT message has it: in their mailbox, or queued for the provider
\* with a job that will hand it over.
SentReachesEveryone ==
  \A m \in Messages : msg[m].status = "SENT" =>
    \A a \in Recipients(m) :
      \/ rows[m][a] = "DELIVERED" /\ a \in inbox[m] \cup {Self}
      \/ rows[m][a] = "QUEUED" /\ (ProviderMapped => m \in jobs)

\* The service implements the abstract life of a message: delivered at most once, and
\* final once sent, failed or deleted.
Mail == INSTANCE OutgoingMail WITH
          state <- [m \in Messages |-> msg[m].status], deliveries <- sent
DeliveredOnce == Mail!Spec

\* A message that is due is sent or given up, however often delivering it is refused or
\* fails, unless the worker that held it died or a query of its run around deliver failed.
DueIsSettled ==
  \A m \in Messages :
    msg[m].status = "SCHEDULED" /\ msg[m].due = "due"
      ~> msg[m].status \notin {"SCHEDULED", "SENDING"} \/ m \in orphan

\* No message is delivered twice.
SingleDelivery == \A m \in Messages : sent[m] <= 1

=============================================================================
