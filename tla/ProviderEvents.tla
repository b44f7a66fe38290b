--------------------------- MODULE ProviderEvents ---------------------------
(***************************************************************************)
(* The events of one connected account: the provider's signed callbacks,   *)
(* the workers that apply them to the account and to the mail of its       *)
(* owner, the replay of dead letters, and the account's connection.        *)
(*                                                                         *)
(* Each handler runs one statement or transaction per step.  A claimed     *)
(* event has the status FAILED and a lock that lapses after five minutes,  *)
(* so an event whose worker died is claimed again; so is one whose worker  *)
(* stalls for that long and then goes on.                                  *)
(***************************************************************************)
EXTENDS Integers, FiniteSets

CONSTANTS
  Events,       \* the provider's events, told apart by the hash of their content
  Types,        \* the types of event the provider sends
  Receivers,    \* callbacks that may be in progress at the same time
  Workers,      \* event workers: one per server instance
  Replayers,    \* administrators' requests to replay a dead letter
  MaxAttempts,  \* provider_events.max_attempts
  SentCount,    \* externalSentCount of the owner's mailbox
  MaxEnv,       \* bound: how often people act on the account and the mailbox
  MaxFaults,    \* bound: how many transactions may fail
  MaxCrash,     \* bound: how many workers may die holding an event
  MaxStalls     \* bound: how often a worker outlives its lock

\* Stands for: the delivery signals of DeliveryProtectionService, by what they do; the
\* security verdicts; the events about the connection; those that are always refused
\* (rate limits, outages, signals about rows that do not exist); any other.
AllTypes == {"bounced", "complained", "queued", "delivered", "rejected", "threat", "clean",
             "reauth", "degraded", "refused", "other"}

ASSUME EventAssumption ==
  /\ Types \subseteq AllTypes
  /\ MaxAttempts \in Nat \ {0}
  /\ SentCount \in Nat
  /\ MaxEnv \in Nat /\ MaxFaults \in Nat /\ MaxCrash \in Nat /\ MaxStalls \in Nat

VARIABLES
  type,      \* the type of each event
  event,     \* provider_events: status, attempts, whether run_at (or the lock) has passed
  account,   \* status of the connected account
  mail,      \* what delivery signals change: recipient, suppression list, mailbox, message
  rx,        \* callbacks in progress
  work,      \* workers
  replay,    \* replays in progress: the event, if any
  cut,       \* history: the account was disconnected and not connected again since
  budget     \* what may still happen

vars == <<type, event, account, mail, rx, work, replay, cut, budget>>

Statuses == {"NONE", "RECEIVED", "RETRY", "FAILED", "PROCESSED", "DEAD_LETTER"}
AccountStates == {"PENDING", "ACTIVE", "DEGRADED", "REAUTH_REQUIRED", "DISCONNECTED"}

IdleCallback == [pc |-> "idle", event |-> {}, late |-> FALSE]
IdleWorker   == [pc |-> "idle", event |-> {}, tries |-> 0]

Status(e)   == event[e].status
Busy(w, e)  == work[w].pc # "idle" /\ work[w].event = {e}
At(w, pc, e) == work[w].pc = pc /\ work[w].event = {e}
Rest(w)     == work' = [work EXCEPT ![w] = IdleWorker]
Spend(what) == budget[what] > 0 /\ budget' = [budget EXCEPT ![what] = @ - 1]

-----------------------------------------------------------------------------
(* receiveEvent                                                            *)

\* The account must be there and connected; an event already stored is answered as a
\* duplicate.
ReceiveRead(r, e) ==
  /\ rx[r] = IdleCallback
  /\ account # "DISCONNECTED"
  /\ Status(e) = "NONE"
  /\ rx' = [rx EXCEPT ![r] = [pc |-> "create", event |-> {e}, late |-> cut]]
  /\ UNCHANGED <<type, event, account, mail, work, replay, cut, budget>>

NewEvent == [status |-> "RECEIVED", attempts |-> 0, due |-> TRUE]

\* Mutant of ReceiveWrite: an upsert.
ReceiveUpsert(r, e) ==
  /\ rx[r].pc = "create" /\ rx[r].event = {e}
  /\ event' = [event EXCEPT ![e] = NewEvent]
  /\ rx' = [rx EXCEPT ![r] = IdleCallback]
  /\ UNCHANGED <<type, account, mail, work, replay, cut, budget>>

\* The insert fails when the event was stored meanwhile (unique provider and hash).
ReceiveWrite(r, e) ==
  /\ rx[r].pc = "create" /\ rx[r].event = {e}
  /\ event' = IF Status(e) = "NONE" THEN [event EXCEPT ![e] = NewEvent] ELSE event
  /\ rx' = [rx EXCEPT ![r] = IdleCallback]
  /\ UNCHANGED <<type, account, mail, work, replay, cut, budget>>

-----------------------------------------------------------------------------
(* claimEvent, processNextEvent                                            *)

\* Mutant of Claimable: the lock of a FAILED event is not looked at.
ClaimableLocked(e) == \/ Status(e) \in {"RECEIVED", "RETRY"} /\ event[e].due
                      \/ Status(e) = "FAILED"
\* Another: claimed events are not looked at again.
ClaimableOnce(e) == Status(e) \in {"RECEIVED", "RETRY"} /\ event[e].due
Claimable(e) == Status(e) \in {"RECEIVED", "RETRY", "FAILED"} /\ event[e].due

Claim(w, e) ==
  /\ work[w] = IdleWorker
  /\ Claimable(e)
  /\ event' = [event EXCEPT ![e] = [status |-> "FAILED", attempts |-> @.attempts + 1,
                                    due |-> FALSE]]
  /\ work' = [work EXCEPT ![w] = [pc |-> "process", event |-> {e},
                                  tries |-> event[e].attempts + 1]]
  /\ UNCHANGED <<type, account, mail, rx, replay, cut, budget>>

\* More than 5% of the messages bounced or 0.1% drew complaints; in warm-up stage 0 one
\* complaint is enough.
Suspends(m) == m.bounces * 20 > SentCount \/ m.complaints > 0

Recipient(t) == CASE t \in {"bounced", "complained", "rejected"} -> "FAILED"
                  [] t = "queued" -> "QUEUED"
                  [] t = "delivered" -> "DELIVERED"
Signals == {"bounced", "complained", "queued", "delivered", "rejected"}

\* What a bounce or a complaint adds to the list of suppressed addresses and to the
\* counters of the sender's mailbox.
Complaint(t, m) ==
  LET counted == [m EXCEPT !.suppressed = TRUE,
                           !.bounces = IF t = "bounced" THEN @ + 1 ELSE @,
                           !.complaints = IF t = "complained" THEN @ + 1 ELSE @]
  IN  [counted EXCEPT !.suspended = @ \/ Suspends(counted)]

\* processProviderSignal
Signal(t, m) ==
  CASE t \in {"bounced", "complained"} -> [Complaint(t, m) EXCEPT !.recipient = Recipient(t)]
    [] t \in Signals \ {"bounced", "complained"} -> [m EXCEPT !.recipient = Recipient(t)]
    [] t = "threat" -> [m EXCEPT !.quarantined = TRUE, !.folder = "QUARANTINE"]
    [] t = "clean"  -> [m EXCEPT !.quarantined = FALSE]
    [] OTHER        -> m

\* What an event says of the connection, whatever the account's status is by now.
Standing(t) == CASE t = "reauth"   -> "REAUTH_REQUIRED"
                 [] t = "degraded" -> "DEGRADED"
                 [] OTHER          -> "ACTIVE"

\* Mutant of Apply: the signals are applied outside the transaction.
ApplyTorn(w, e) ==
  /\ At(w, "process", e)
  /\ type[e] # "refused"
  /\ mail' = Signal(type[e], mail)
  /\ \/ /\ account' = Standing(type[e])
        /\ event' = [event EXCEPT ![e].status = "PROCESSED", ![e].due = FALSE]
        /\ Rest(w)
        /\ UNCHANGED budget
     \/ /\ Spend("fault")
        /\ work' = [work EXCEPT ![w].pc = "failing"]
        /\ UNCHANGED <<account, event>>
  /\ UNCHANGED <<type, rx, replay, cut>>

\* One transaction: signals, account and event.
Apply(w, e) ==
  /\ At(w, "process", e)
  /\ type[e] # "refused"
  /\ mail' = Signal(type[e], mail)
  /\ account' = Standing(type[e])
  /\ event' = [event EXCEPT ![e].status = "PROCESSED", ![e].due = FALSE]
  /\ Rest(w)
  /\ UNCHANGED <<type, rx, replay, cut, budget>>

\* The event is refused, or the transaction fails.
Refuse(w, e) ==
  /\ At(w, "process", e)
  /\ IF type[e] = "refused" THEN UNCHANGED budget ELSE Spend("fault")
  /\ work' = [work EXCEPT ![w].pc = "failing"]
  /\ UNCHANGED <<type, event, account, mail, rx, replay, cut>>

Verdict(tries)     == IF tries >= MaxAttempts THEN "DEAD_LETTER" ELSE "RETRY"

\* The catch block, by id; when its transaction fails too the event stays as claimed.
Fail(w, e) ==
  /\ At(w, "failing", e)
  /\ \/ /\ event' = [event EXCEPT ![e].status = Verdict(work[w].tries), ![e].due = FALSE]
        /\ account' = "DEGRADED"
        /\ UNCHANGED budget
     \/ Spend("fault") /\ UNCHANGED <<event, account>>
  /\ Rest(w)
  /\ UNCHANGED <<type, mail, rx, replay, cut>>

\* The back-off of a retry passes.
RetryDue(e) ==
  /\ Status(e) = "RETRY" /\ ~event[e].due
  /\ event' = [event EXCEPT ![e].due = TRUE]
  /\ UNCHANGED <<type, account, mail, rx, work, replay, cut, budget>>

\* The lock of a claimed event lapses: nobody works on it any more, or a worker stalls.
LockLapses(e) ==
  /\ Status(e) = "FAILED" /\ ~event[e].due
  /\ event' = [event EXCEPT ![e].due = TRUE]
  /\ IF \E w \in Workers : Busy(w, e) THEN Spend("stall") ELSE UNCHANGED budget
  /\ UNCHANGED <<type, account, mail, rx, work, replay, cut>>

-----------------------------------------------------------------------------
(* Replays, the connection, people and crashes                             *)

ReplayRead(p, e) ==
  /\ replay[p] = {}
  /\ Status(e) = "DEAD_LETTER"
  /\ Spend("env")
  /\ replay' = [replay EXCEPT ![p] = {e}]
  /\ UNCHANGED <<type, event, account, mail, rx, work, cut>>

\* By id: the event is due at once, with new attempts.
ReplayWrite(p, e) ==
  /\ replay[p] = {e}
  /\ event' = [event EXCEPT ![e] = [status |-> "RETRY", attempts |-> 0, due |-> TRUE]]
  /\ replay' = [replay EXCEPT ![p] = {}]
  /\ UNCHANGED <<type, account, mail, rx, work, cut, budget>>

Disconnect ==
  /\ Spend("env")
  /\ account' = "DISCONNECTED"
  /\ cut' = TRUE
  /\ UNCHANGED <<type, event, mail, rx, work, replay>>

\* handleGoogleCallback: the owner has consented again.
Reconnect ==
  /\ Spend("env")
  /\ account' = "ACTIVE"
  /\ cut' = FALSE
  /\ UNCHANGED <<type, event, mail, rx, work, replay>>

\* unsuppress, and updateSendingStatus of the mailbox.
Release ==
  /\ Spend("env")
  /\ \/ mail.suppressed /\ mail' = [mail EXCEPT !.suppressed = FALSE]
     \/ mail.suspended /\ mail' = [mail EXCEPT !.suspended = FALSE]
  /\ UNCHANGED <<type, event, account, rx, work, replay, cut>>

\* The server instance dies while its worker holds an event.
Crash(w) ==
  /\ work[w] # IdleWorker
  /\ Spend("crash")
  /\ Rest(w)
  /\ UNCHANGED <<type, event, account, mail, rx, replay, cut>>

-----------------------------------------------------------------------------
Init ==
  /\ type \in [Events -> Types]
  /\ event = [e \in Events |-> [status |-> "NONE", attempts |-> 0, due |-> FALSE]]
  /\ account = "PENDING"
  /\ mail = [recipient |-> "QUEUED", suppressed |-> FALSE, bounces |-> 0, complaints |-> 0,
             suspended |-> FALSE, quarantined |-> FALSE, folder |-> "INBOX"]
  /\ rx = [r \in Receivers |-> IdleCallback]
  /\ work = [w \in Workers |-> IdleWorker]
  /\ replay = [p \in Replayers |-> {}]
  /\ cut = FALSE
  /\ budget = [env |-> MaxEnv, fault |-> MaxFaults, crash |-> MaxCrash, stall |-> MaxStalls]

WorkerStep(w, e) == Claim(w, e) \/ Apply(w, e) \/ Refuse(w, e) \/ Fail(w, e)

Next ==
  \/ \E r \in Receivers, e \in Events : ReceiveRead(r, e) \/ ReceiveWrite(r, e)
  \/ \E w \in Workers, e \in Events : WorkerStep(w, e)
  \/ \E p \in Replayers, e \in Events : ReplayRead(p, e) \/ ReplayWrite(p, e)
  \/ \E e \in Events : RetryDue(e) \/ LockLapses(e)
  \/ \E w \in Workers : Crash(w)
  \/ Disconnect \/ Reconnect \/ Release

Spec == Init /\ [][Next]_vars

\* The timers of the workers fire again and again, their awaits return, and time passes.
FairSpec ==
  /\ Spec
  /\ \A w \in Workers : WF_vars(\E e \in Events : WorkerStep(w, e))
  /\ \A e \in Events : WF_vars(RetryDue(e)) /\ WF_vars(LockLapses(e))

-----------------------------------------------------------------------------
(* Properties                                                              *)

EventType == event \in [Events -> [status : Statuses, attempts : Nat, due : BOOLEAN]]
MailType  == mail \in [recipient : {"QUEUED", "DELIVERED", "FAILED"}, suppressed : BOOLEAN,
                       bounces : Nat, complaints : Nat, suspended : BOOLEAN,
                       quarantined : BOOLEAN, folder : {"INBOX", "QUARANTINE"}]
WorkType  == work \in [Workers -> [pc : {"idle", "process", "failing"}, event : SUBSET Events,
                                   tries : Nat]]
TypeOK ==
  /\ type \in [Events -> AllTypes]
  /\ EventType
  /\ account \in AccountStates
  /\ MailType
  /\ rx \in [Receivers -> [pc : {"idle", "create"}, event : SUBSET Events, late : BOOLEAN]]
  /\ WorkType
  /\ replay \in [Replayers -> SUBSET Events]
  /\ cut \in BOOLEAN
  /\ budget \in [env : Nat, fault : Nat, crash : Nat, stall : Nat]

\* Callbacks that repeat an event, workers that die and are replaced, failing transactions
\* and replays of dead letters implement the abstract inbox: an event is handled once.
\* It holds of workers that do not outlive their lock and of one replay at a time.
Stage(e) == CASE Status(e) \in {"RECEIVED", "RETRY", "FAILED"} -> "WAITING"
              [] Status(e) = "PROCESSED"   -> "DONE"
              [] Status(e) = "DEAD_LETTER" -> "DEAD"
              [] OTHER                     -> "NONE"
Inbox == INSTANCE EventInbox WITH stage <- [e \in Events |-> Stage(e)]
HandledOnce == Inbox!Spec

\* A bounce or a complaint counts once against the mailbox, when its event is processed,
\* whatever failed or died before: its sender is not suspended for complaints there were not.
Processed(t) == {e \in Events : type[e] = t /\ Status(e) = "PROCESSED"}
SignalsCounted ==
  /\ mail.bounces = Cardinality(Processed("bounced"))
  /\ mail.complaints = Cardinality(Processed("complained"))

\* An event taken in is processed or ends as a dead letter, even if its worker dies: its
\* lock lapses and another worker claims it.
EventsSettle ==
  \A e \in Events : Status(e) = "RECEIVED" ~> Status(e) \in {"PROCESSED", "DEAD_LETTER"}

\* No callback is accepted after the account was disconnected, until it is connected again.
RejectsLaterCallbacks == \A r \in Receivers : rx[r].pc = "create" => ~rx[r].late

=============================================================================
