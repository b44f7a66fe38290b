------------------------ MODULE ProviderEventsProofs ------------------------
(***************************************************************************)
(* Proofs about ProviderEvents: its types, that its callbacks, workers and *)
(* replays implement the abstract inbox, each event handled once, and that *)
(* each delivery signal is counted once.  For every number of events,      *)
(* callbacks and workers.                                                  *)
(***************************************************************************)
EXTENDS ProviderEvents, FiniteSetTheorems, TLAPS

USE EventAssumption

-----------------------------------------------------------------------------
(* Types                                                                   *)

LEMMA RestType ==
  ASSUME WorkType, NEW w \in Workers, Rest(w) PROVE WorkType'
  BY DEF Rest, IdleWorker, WorkType

LEMMA SpendType ==
  ASSUME TypeOK, NEW what \in {"env", "fault", "crash", "stall"}, Spend(what)
  PROVE  budget' \in [env : Nat, fault : Nat, crash : Nat, stall : Nat]
  BY DEF Spend, TypeOK

LEMMA ComplaintType ==
  ASSUME MailType, NEW t \in {"bounced", "complained"},
         mail' = [Complaint(t, mail) EXCEPT !.recipient = Recipient(t)]
  PROVE  MailType'
<1> DEFINE counted == [mail EXCEPT !.suppressed = TRUE,
                                   !.bounces = IF t = "bounced" THEN @ + 1 ELSE @,
                                   !.complaints = IF t = "complained" THEN @ + 1 ELSE @]
<1> DEFINE MailRow == [recipient : {"QUEUED", "DELIVERED", "FAILED"}, suppressed : BOOLEAN,
                       bounces : Nat, complaints : Nat, suspended : BOOLEAN,
                       quarantined : BOOLEAN, folder : {"INBOX", "QUARANTINE"}]
<1>0. counted \in MailRow
  <2>1. \A b, c \in Nat : [mail EXCEPT !.suppressed = TRUE, !.bounces = b, !.complaints = c] \in MailRow
    BY DEF MailType
  <2>2. /\ (IF t = "bounced" THEN mail.bounces + 1 ELSE mail.bounces) \in Nat
        /\ (IF t = "complained" THEN mail.complaints + 1 ELSE mail.complaints) \in Nat
    BY DEF MailType
  <2> QED
    BY <2>1, <2>2
<1>1. ASSUME NEW row \in MailRow
      PROVE  \A b \in BOOLEAN : [row EXCEPT !.suspended = b, !.recipient = "FAILED"] \in MailRow
  OBVIOUS
<1>2. Recipient(t) = "FAILED"
  BY DEF Recipient
<1>3. (mail.suspended \/ Suspends(counted)) \in BOOLEAN
  OBVIOUS
<1>4. mail' = [counted EXCEPT !.suspended = (mail.suspended \/ Suspends(counted)),
                              !.recipient = "FAILED"]
  BY <1>2 DEF Complaint, MailType
<1> QED
  <2>1. [counted EXCEPT !.suspended = (mail.suspended \/ Suspends(counted)),
                        !.recipient = "FAILED"] \in MailRow
    <3> HIDE DEF counted, MailRow
    <3> QED
      BY <1>0, <1>1, <1>3
  <2> QED
    BY <1>4, <2>1 DEF MailType

LEMMA SignalType ==
  ASSUME MailType, NEW t \in AllTypes, mail' = Signal(t, mail) PROVE MailType'
<1>1. CASE t \in {"bounced", "complained"}
  BY <1>1, ComplaintType DEF Signal
<1>2. CASE t \in {"queued", "delivered", "rejected"}
  <2>1. mail' = [mail EXCEPT !.recipient = Recipient(t)]
    BY <1>2 DEF Signal, Signals
  <2>2. Recipient(t) \in {"QUEUED", "DELIVERED", "FAILED"}
    BY <1>2 DEF Recipient
  <2> QED
    BY <2>1, <2>2 DEF MailType
<1>3. CASE t \in AllTypes \ Signals
  <2>1. \/ mail' = [mail EXCEPT !.quarantined = TRUE, !.folder = "QUARANTINE"]
        \/ mail' = [mail EXCEPT !.quarantined = FALSE]
        \/ mail' = mail
    BY <1>3 DEF Signal, Signals, AllTypes
  <2> QED
    BY <2>1 DEF MailType
<1> QED
  BY <1>1, <1>2, <1>3 DEF AllTypes, Signals

LEMMA RowType ==
  ASSUME EventType, NEW e \in Events, NEW status \in Statuses, NEW tries \in Nat, NEW due \in BOOLEAN,
         event' = [event EXCEPT ![e] = [status |-> status, attempts |-> tries, due |-> due]]
  PROVE  EventType'
  BY DEF EventType

LEMMA DueType ==
  ASSUME EventType, NEW e \in Events, NEW status \in Statuses, NEW due \in BOOLEAN,
         event' = [event EXCEPT ![e].status = status, ![e].due = due]
  PROVE  EventType'
  BY DEF EventType

LEMMA ReceiveType ==
  ASSUME TypeOK, NEW r \in Receivers, NEW e \in Events, ReceiveRead(r, e) \/ ReceiveWrite(r, e)
  PROVE  TypeOK'
<1>1. CASE ReceiveRead(r, e)
  BY <1>1 DEF ReceiveRead, TypeOK, EventType, MailType, WorkType
<1>2. CASE ReceiveWrite(r, e)
  <2>1. event' = [event EXCEPT ![e] = NewEvent] \/ event' = event
    BY <1>2 DEF ReceiveWrite
  <2>2. EventType'
    <3>1. CASE event' = [event EXCEPT ![e] = NewEvent]
      BY <3>1, RowType DEF NewEvent, TypeOK, Statuses
    <3>2. CASE event' = event
      BY <3>2 DEF TypeOK, EventType
    <3> QED
      BY <2>1, <3>1, <3>2
  <2> QED
    BY <1>2, <2>2 DEF ReceiveWrite, IdleCallback, TypeOK, MailType, WorkType
<1> QED
  BY <1>1, <1>2

LEMMA WorkerType ==
  ASSUME TypeOK, NEW w \in Workers, NEW e \in Events, WorkerStep(w, e) PROVE TypeOK'
<1>1. CASE Claim(w, e)
  <2>1. EventType'
    <3>1. event[e].attempts + 1 \in Nat /\ "FAILED" \in Statuses
      BY DEF TypeOK, EventType, Statuses
    <3>2. event' = [event EXCEPT ![e] = [status |-> "FAILED", attempts |-> event[e].attempts + 1,
                                         due |-> FALSE]]
      BY <1>1 DEF Claim, TypeOK, EventType
    <3> QED
      BY <3>1, <3>2, RowType DEF TypeOK
  <2>2. WorkType'
    BY <1>1 DEF Claim, TypeOK, EventType, WorkType
  <2> QED
    BY <1>1, <2>1, <2>2 DEF Claim, TypeOK, MailType
<1>2. CASE Apply(w, e)
  <2>1. EventType'
    BY <1>2, DueType DEF Apply, TypeOK, Statuses
  <2>2. MailType'
    <3>1. type[e] \in AllTypes
      BY DEF TypeOK
    <3> QED
      BY <1>2, <3>1, SignalType DEF Apply, TypeOK
  <2>3. account' \in AccountStates
    BY <1>2 DEF Apply, Standing, AccountStates
  <2>4. WorkType'
    BY <1>2, RestType DEF Apply, TypeOK
  <2> QED
    BY <1>2, <2>1, <2>2, <2>3, <2>4 DEF Apply, TypeOK
<1>3. CASE Refuse(w, e)
  <2>1. budget' \in [env : Nat, fault : Nat, crash : Nat, stall : Nat]
    BY <1>3, SpendType DEF Refuse, TypeOK
  <2>2. WorkType'
    BY <1>3 DEF Refuse, TypeOK, WorkType
  <2> QED
    BY <1>3, <2>1, <2>2 DEF Refuse, TypeOK, EventType, MailType
<1>4. CASE Fail(w, e)
  <2>1. budget' \in [env : Nat, fault : Nat, crash : Nat, stall : Nat]
    BY <1>4, SpendType DEF Fail, TypeOK
  <2>2. WorkType'
    BY <1>4, RestType DEF Fail, TypeOK
  <2>3. EventType'
    <3>1. Verdict(work[w].tries) \in Statuses
      BY DEF Verdict, Statuses
    <3>2. \/ event' = event
          \/ event' = [event EXCEPT ![e].status = Verdict(work[w].tries), ![e].due = FALSE]
      BY <1>4 DEF Fail
    <3>3. CASE event' = event
      BY <3>3 DEF TypeOK, EventType
    <3> QED
      BY <3>1, <3>2, <3>3, DueType DEF TypeOK
  <2>4. account' \in AccountStates
    BY <1>4 DEF Fail, TypeOK, AccountStates
  <2> QED
    BY <1>4, <2>1, <2>2, <2>3, <2>4 DEF Fail, TypeOK, MailType
<1> QED
  BY <1>1, <1>2, <1>3, <1>4 DEF WorkerStep

LEMMA EventTimeType ==
  ASSUME TypeOK, NEW e \in Events, RetryDue(e) \/ LockLapses(e) PROVE TypeOK'
<1>1. EventType'
  <2>1. event' = [event EXCEPT ![e].due = TRUE]
    BY DEF RetryDue, LockLapses
  <2> QED
    BY <2>1 DEF TypeOK, EventType
<1>2. budget' \in [env : Nat, fault : Nat, crash : Nat, stall : Nat]
  BY SpendType DEF RetryDue, LockLapses, TypeOK
<1> QED
  BY <1>1, <1>2 DEF RetryDue, LockLapses, TypeOK, MailType, WorkType

LEMMA ReplayType ==
  ASSUME TypeOK, NEW p \in Replayers, NEW e \in Events, ReplayRead(p, e) \/ ReplayWrite(p, e)
  PROVE  TypeOK'
<1>1. CASE ReplayRead(p, e)
  BY <1>1, SpendType DEF ReplayRead, TypeOK, EventType, MailType, WorkType
<1>2. CASE ReplayWrite(p, e)
  <2>1. EventType'
    BY <1>2 DEF ReplayWrite, TypeOK, EventType, Statuses
  <2> QED
    BY <1>2, <2>1 DEF ReplayWrite, TypeOK, MailType, WorkType
<1> QED
  BY <1>1, <1>2

LEMMA SurroundingsType ==
  ASSUME TypeOK, Disconnect \/ Reconnect \/ Release \/ (\E w \in Workers : Crash(w))
  PROVE  TypeOK'
<1>1. CASE Disconnect \/ Reconnect
  BY <1>1, SpendType DEF Disconnect, Reconnect, TypeOK, AccountStates, EventType, MailType, WorkType
<1>2. CASE Release
  <2>1. MailType'
    BY <1>2 DEF Release, TypeOK, MailType
  <2> QED
    BY <1>2, <2>1, SpendType DEF Release, TypeOK, EventType, WorkType
<1>3. ASSUME NEW w \in Workers, Crash(w) PROVE TypeOK'
  BY <1>3, SpendType, RestType DEF Crash, TypeOK, EventType, MailType
<1> QED
  BY <1>1, <1>2, <1>3

\* Every reachable state of the account, its events and the workers has its type.
THEOREM EventsTypeCorrect == Spec => []TypeOK
<1>1. Init => TypeOK
  <2> SUFFICES ASSUME Init PROVE TypeOK
    OBVIOUS
  <2>1. EventType /\ MailType /\ WorkType
    BY DEF Init, EventType, MailType, WorkType, Statuses, IdleWorker
  <2> QED
    BY <2>1 DEF Init, TypeOK, AccountStates, IdleCallback
<1>2. TypeOK /\ [Next]_vars => TypeOK'
  <2>1. ASSUME TypeOK, UNCHANGED vars PROVE TypeOK'
    BY <2>1 DEF vars, TypeOK, EventType, MailType, WorkType
  <2> QED
    BY <2>1, ReceiveType, WorkerType, EventTimeType, ReplayType, SurroundingsType DEF Next
<1> QED
  BY <1>1, <1>2, PTL DEF Spec

-----------------------------------------------------------------------------
(* The inductive invariant                                                 *)

\* No worker outlives its lock, and dead letters are replayed one at a time.
Punctual == MaxStalls = 0 /\ \A p, q \in Replayers : p = q

\* The event a worker works on is claimed, its lock has not lapsed, and nobody else works on it.
Held ==
  \A w \in Workers, e \in Events :
    Busy(w, e) => /\ Status(e) = "FAILED" /\ ~event[e].due
                  /\ \A v \in Workers : Busy(v, e) => v = w

\* The event of a replay in progress is still a dead letter.
Replayed == \A p \in Replayers, e \in Events : replay[p] = {e} => Status(e) = "DEAD_LETTER"

EventsInv == TypeOK /\ Held /\ Replayed /\ budget.stall = 0

LEMMA InitInv == ASSUME Punctual, Init PROVE Held /\ Replayed /\ budget.stall = 0
  BY DEF Punctual, Init, Held, Replayed, Busy, IdleWorker

\* Spending anything but a stall leaves none.
LEMMA NoStall ==
  ASSUME TypeOK, budget.stall = 0, NEW what \in {"env", "fault", "crash", "stall"},
         Spend(what) \/ UNCHANGED budget
  PROVE  budget'.stall = 0
  BY DEF Spend, TypeOK

\* A worker that rests is not busy; the others are as they were.
LEMMA RestBusy ==
  ASSUME TypeOK, NEW w \in Workers, Rest(w) PROVE
    \A v \in Workers, e \in Events : Busy(v, e)' <=> v # w /\ Busy(v, e)
  BY DEF Rest, IdleWorker, Busy, TypeOK, WorkType

LEMMA WorkerInv ==
  ASSUME EventsInv, NEW w \in Workers, NEW e \in Events, WorkerStep(w, e)
  PROVE  Held' /\ Replayed' /\ budget'.stall = 0
<1> USE DEF EventsInv
<1>1. CASE Claim(w, e)
  <2>1. ~\E v \in Workers : Busy(v, e)
    BY <1>1 DEF Claim, Claimable, Held
  <2>2. \A x \in Events : x # e => event'[x] = event[x]
    BY <1>1 DEF Claim, TypeOK, EventType
  <2>3. event'[e].status = "FAILED" /\ ~event'[e].due
    BY <1>1 DEF Claim, TypeOK, EventType
  <2>4. \A v \in Workers, x \in Events : Busy(v, x)' <=> IF v = w THEN x = e ELSE Busy(v, x)
    BY <1>1 DEF Claim, Busy, IdleWorker, TypeOK, WorkType
  <2>5. Held'
    BY <2>1, <2>2, <2>3, <2>4 DEF Held, Status
  <2>6. Replayed'
    BY <1>1, <2>2 DEF Claim, Claimable, Replayed, Status
  <2> QED
    BY <1>1, <2>5, <2>6 DEF Claim
<1>2. CASE Apply(w, e) \/ Fail(w, e)
  <2>1. Busy(w, e)
    BY <1>2 DEF Apply, Fail, At, Busy
  <2>2. \A x \in Events : x # e => event'[x] = event[x]
    BY <1>2 DEF Apply, Fail, TypeOK, EventType
  <2>3. \A v \in Workers, x \in Events : Busy(v, x)' <=> v # w /\ Busy(v, x)
    BY <1>2, RestBusy DEF Apply, Fail
  <2>4. Held'
    BY <2>1, <2>2, <2>3 DEF Held, Status
  <2>5. Replayed'
    BY <1>2, <2>1, <2>2 DEF Apply, Fail, Held, Replayed, Status
  <2>6. budget'.stall = 0
    BY <1>2, NoStall DEF Apply, Fail
  <2> QED
    BY <2>4, <2>5, <2>6
<1>3. CASE Refuse(w, e)
  <2>1. \A v \in Workers, x \in Events : Busy(v, x)' <=> Busy(v, x)
    BY <1>3 DEF Refuse, At, Busy, TypeOK, WorkType
  <2>2. budget'.stall = 0
    BY <1>3, NoStall DEF Refuse
  <2> QED
    BY <1>3, <2>1, <2>2 DEF Refuse, Held, Replayed, Status
<1> QED
  BY <1>1, <1>2, <1>3 DEF WorkerStep

LEMMA OtherInv ==
  ASSUME Punctual, EventsInv, NEW e \in Events,
         \/ \E r \in Receivers : ReceiveRead(r, e) \/ ReceiveWrite(r, e)
         \/ RetryDue(e) \/ LockLapses(e)
         \/ \E p \in Replayers : ReplayRead(p, e) \/ ReplayWrite(p, e)
  PROVE  Held' /\ Replayed' /\ budget'.stall = 0
<1> USE DEF EventsInv
<1>1. work' = work
  BY DEF ReceiveRead, ReceiveWrite, RetryDue, LockLapses, ReplayRead, ReplayWrite
<1>2. \A x \in Events : x # e => event'[x] = event[x]
  BY DEF ReceiveRead, ReceiveWrite, RetryDue, LockLapses, ReplayRead, ReplayWrite, TypeOK, EventType
<1>3. \/ event'[e] = event[e]
      \/ ~\E v \in Workers : Busy(v, e)
  BY DEF ReceiveRead, ReceiveWrite, RetryDue, LockLapses, ReplayRead, ReplayWrite, Spend, Held, Replayed
<1>4. Held'
  BY <1>1, <1>2, <1>3 DEF Held, Busy, Status
<1>5. budget'.stall = 0
  BY NoStall DEF ReceiveRead, ReceiveWrite, RetryDue, LockLapses, ReplayRead, ReplayWrite, Spend
<1>6. Replayed'
  <2>1. CASE \E r \in Receivers : ReceiveRead(r, e) \/ ReceiveWrite(r, e)
    BY <1>2, <2>1 DEF ReceiveRead, ReceiveWrite, Replayed, Status
  <2>2. CASE RetryDue(e) \/ LockLapses(e)
    BY <1>2, <2>2 DEF RetryDue, LockLapses, Replayed, Status
  <2>3. CASE \E p \in Replayers : ReplayRead(p, e)
    BY <2>3 DEF ReplayRead, Replayed, Status, TypeOK
  <2>4. CASE \E p \in Replayers : ReplayWrite(p, e)
    BY <2>4 DEF ReplayWrite, Punctual, Replayed, TypeOK
  <2> QED
    BY <2>1, <2>2, <2>3, <2>4
<1> QED
  BY <1>4, <1>5, <1>6

LEMMA SurroundingsInv ==
  ASSUME EventsInv, Disconnect \/ Reconnect \/ Release \/ (\E w \in Workers : Crash(w))
  PROVE  Held' /\ Replayed' /\ budget'.stall = 0
<1> USE DEF EventsInv
<1>1. event' = event /\ replay' = replay
  BY DEF Disconnect, Reconnect, Release, Crash
<1>2. work' = work \/ \E w \in Workers : Rest(w)
  BY DEF Disconnect, Reconnect, Release, Crash
<1>3. budget'.stall = 0
  BY NoStall DEF Disconnect, Reconnect, Release, Crash
<1>4. \A v \in Workers, x \in Events : Busy(v, x)' => Busy(v, x)
  BY <1>2, RestBusy DEF Busy
<1> QED
  BY <1>1, <1>3, <1>4 DEF Held, Replayed, Status

LEMMA InvHolds == Punctual => (Spec => []EventsInv)
<1> SUFFICES ASSUME Punctual PROVE Spec => []EventsInv
  OBVIOUS
<1>1. Init => Held /\ Replayed /\ budget.stall = 0
  BY InitInv
<1>2. TypeOK /\ TypeOK' /\ (Held /\ Replayed /\ budget.stall = 0) /\ [Next]_vars
        => (Held /\ Replayed /\ budget.stall = 0)'
  <2> SUFFICES ASSUME EventsInv, [Next]_vars PROVE Held' /\ Replayed' /\ budget'.stall = 0
    BY DEF EventsInv
  <2>1. CASE UNCHANGED vars
    BY <2>1 DEF vars, EventsInv, Held, Replayed, Busy, Status
  <2> QED
    BY <2>1, WorkerInv, OtherInv, SurroundingsInv DEF Next
<1> QED
  BY <1>1, <1>2, EventsTypeCorrect, PTL DEF Spec, EventsInv

-----------------------------------------------------------------------------
(* Refinement                                                              *)

Stages == [e \in Events |-> Stage(e)]

LEMMA Moved ==
  ASSUME NEW e \in Events, \A x \in Events : x # e => event'[x] = event[x],
         NEW from, NEW to, Stage(e) = from, Stage(e)' = to
  PROVE  Inbox!Move(e, from, to)
<1>1. \A x \in Events : x # e => Stage(x)' = Stage(x)
  BY DEF Stage, Status
<1>2. Stages' = [Stages EXCEPT ![e] = to]
  BY <1>1 DEF Stages
<1> QED
  BY <1>2 DEF Inbox!Move, Stages

LEMMA Stayed ==
  ASSUME \A e \in Events : Stage(e)' = Stage(e) PROVE Stages' = Stages
  BY DEF Stages

LEMMA WorkerImplements ==
  ASSUME EventsInv, NEW w \in Workers, NEW e \in Events, WorkerStep(w, e)
  PROVE  Inbox!Handle(e) \/ Inbox!Bury(e) \/ Stages' = Stages
<1> USE DEF EventsInv
<1>1. CASE Claim(w, e)
  <2>1. \A x \in Events : x # e => event'[x] = event[x]
    BY <1>1 DEF Claim, TypeOK, EventType
  <2>2. Stage(e) = "WAITING" /\ Stage(e)' = "WAITING"
    BY <1>1 DEF Claim, Claimable, Stage, Status, TypeOK, EventType
  <2>3. \A x \in Events : Stage(x)' = Stage(x)
    BY <2>1, <2>2 DEF Stage, Status
  <2> QED
    BY <2>3, Stayed
<1>2. CASE Apply(w, e)
  <2>1. \A x \in Events : x # e => event'[x] = event[x]
    BY <1>2 DEF Apply, TypeOK, EventType
  <2>2. Status(e) = "FAILED"
    BY <1>2 DEF Apply, At, Busy, Held
  <2>3. event'[e].status = "PROCESSED"
    BY <1>2 DEF Apply, TypeOK, EventType
  <2>4. Stage(e) = "WAITING" /\ Stage(e)' = "DONE"
    BY <2>2, <2>3 DEF Stage, Status
  <2> QED
    BY <2>1, <2>4, Moved DEF Inbox!Handle
<1>3. CASE Refuse(w, e)
  BY <1>3, Stayed DEF Refuse, Stage, Status
<1>4. CASE Fail(w, e)
  <2>1. CASE event' = event
    BY <2>1, Stayed DEF Stage, Status
  <2>2. CASE event' = [event EXCEPT ![e].status = Verdict(work[w].tries), ![e].due = FALSE]
    <3>1. \A x \in Events : x # e => event'[x] = event[x]
      BY <2>2 DEF TypeOK, EventType
    <3>2. Stage(e) = "WAITING"
      BY <1>4 DEF Fail, At, Busy, Held, Stage, Status
    <3>3. event'[e].status \in {"DEAD_LETTER", "RETRY"}
      BY <2>2 DEF TypeOK, EventType, Verdict
    <3>4. Stage(e)' \in {"DEAD", "WAITING"}
      BY <3>3 DEF Stage, Status
    <3>5. CASE Stage(e)' = "DEAD"
      BY <3>1, <3>2, <3>5, Moved DEF Inbox!Bury
    <3>6. CASE Stage(e)' = "WAITING"
      <4>1. \A x \in Events : Stage(x)' = Stage(x)
        BY <3>1, <3>2, <3>6 DEF Stage, Status
      <4> QED
        BY <4>1, Stayed
    <3> QED
      BY <3>4, <3>5, <3>6
  <2> QED
    BY <1>4, <2>1, <2>2 DEF Fail
<1> QED
  BY <1>1, <1>2, <1>3, <1>4 DEF WorkerStep

LEMMA ReceiveImplements ==
  ASSUME EventsInv, NEW r \in Receivers, NEW e \in Events, ReceiveRead(r, e) \/ ReceiveWrite(r, e)
  PROVE  Inbox!TakeIn(e) \/ Stages' = Stages
<1>1. CASE event' = event
  BY <1>1, Stayed DEF Stage, Status
<1>2. CASE Status(e) = "NONE" /\ event' = [event EXCEPT ![e] = NewEvent]
  <2>1. \A x \in Events : x # e => event'[x] = event[x]
    BY <1>2 DEF EventsInv, TypeOK, EventType
  <2>2. Stage(e) = "NONE" /\ Stage(e)' = "WAITING"
    BY <1>2 DEF EventsInv, TypeOK, EventType, NewEvent, Stage, Status
  <2> QED
    BY <2>1, <2>2, Moved DEF Inbox!TakeIn
<1> QED
  BY <1>1, <1>2 DEF ReceiveRead, ReceiveWrite

LEMMA ReplayImplements ==
  ASSUME EventsInv, NEW p \in Replayers, NEW e \in Events, ReplayRead(p, e) \/ ReplayWrite(p, e)
  PROVE  Inbox!TakeUp(e) \/ Stages' = Stages
<1>1. CASE ReplayRead(p, e)
  BY <1>1, Stayed DEF ReplayRead, Stage, Status
<1>2. CASE ReplayWrite(p, e)
  <2>1. \A x \in Events : x # e => event'[x] = event[x]
    BY <1>2 DEF ReplayWrite, EventsInv, TypeOK, EventType
  <2>2. event'[e].status = "RETRY"
    BY <1>2 DEF ReplayWrite, EventsInv, TypeOK, EventType
  <2>3. Stage(e) = "DEAD" /\ Stage(e)' = "WAITING"
    BY <1>2, <2>2 DEF ReplayWrite, EventsInv, Replayed, Stage, Status
  <2> QED
    BY <2>1, <2>3, Moved DEF Inbox!TakeUp
<1> QED
  BY <1>1, <1>2

LEMMA TimeImplements ==
  ASSUME EventsInv, NEW e \in Events, RetryDue(e) \/ LockLapses(e) PROVE Stages' = Stages
<1>1. \A x \in Events : event'[x].status = event[x].status
  BY DEF RetryDue, LockLapses, EventsInv, TypeOK, EventType
<1> QED
  BY <1>1, Stayed DEF Stage, Status

\* However often the provider repeats a callback, workers die and transactions fail, each
\* event is handled once, or given up and taken up again by a replay: the code implements
\* the abstract inbox while no worker outlives its lock and replays do not race.
THEOREM EventsHandledOnce == Punctual => (Spec => HandledOnce)
<1> SUFFICES ASSUME Punctual PROVE Spec => HandledOnce
  OBVIOUS
<1>1. Init => Inbox!Init
  BY DEF Init, Inbox!Init, Stage, Status
<1>2. EventsInv /\ [Next]_vars => [Inbox!Next]_Stages
  <2> SUFFICES ASSUME EventsInv, [Next]_vars PROVE [Inbox!Next]_Stages
    OBVIOUS
  <2>1. CASE UNCHANGED vars \/ Disconnect \/ Reconnect \/ Release \/ \E w \in Workers : Crash(w)
    BY <2>1, Stayed DEF vars, Disconnect, Reconnect, Release, Crash, Stage, Status
  <2> QED
    BY <2>1, WorkerImplements, ReceiveImplements, ReplayImplements, TimeImplements
    DEF Next, Inbox!Next
<1> QED
  BY <1>1, <1>2, InvHolds, PTL DEF Spec, HandledOnce, Inbox!Spec, Stages

-----------------------------------------------------------------------------
(* Signals are counted once                                                *)

\* The counters of the mailbox are the processed events, which are finitely many.
Finite == \A t \in {"bounced", "complained"} : IsFiniteSet(Processed(t))
Counted == Finite /\ SignalsCounted

\* A step that leaves the counters alone and neither processes an event nor takes one back.
LEMMA CountStays ==
  ASSUME Counted, type' = type,
         mail'.bounces = mail.bounces, mail'.complaints = mail.complaints,
         \A e \in Events : Status(e)' = "PROCESSED" <=> Status(e) = "PROCESSED"
  PROVE  Counted'
<1>1. \A t : Processed(t)' = Processed(t)
  BY DEF Processed
<1> QED
  BY <1>1 DEF Counted, Finite, SignalsCounted

\* What an event adds to the counters.
LEMMA SignalCounts ==
  ASSUME MailType, NEW t \in AllTypes
  PROVE  /\ Signal(t, mail).bounces = IF t = "bounced" THEN mail.bounces + 1 ELSE mail.bounces
         /\ Signal(t, mail).complaints
              = IF t = "complained" THEN mail.complaints + 1 ELSE mail.complaints
<1>1. CASE t \in {"bounced", "complained"}
  <2> DEFINE counted == [mail EXCEPT !.suppressed = TRUE,
                                     !.bounces = IF t = "bounced" THEN @ + 1 ELSE @,
                                     !.complaints = IF t = "complained" THEN @ + 1 ELSE @]
  <2>1. Signal(t, mail) = [counted EXCEPT !.suspended = (mail.suspended \/ Suspends(counted)),
                                          !.recipient = Recipient(t)]
    BY <1>1 DEF Signal, Complaint, MailType
  <2>2. /\ counted.bounces = IF t = "bounced" THEN mail.bounces + 1 ELSE mail.bounces
        /\ counted.complaints = IF t = "complained" THEN mail.complaints + 1 ELSE mail.complaints
    BY DEF MailType
  <2>3. \A s, x : /\ [counted EXCEPT !.suspended = s, !.recipient = x].bounces = counted.bounces
                  /\ [counted EXCEPT !.suspended = s, !.recipient = x].complaints = counted.complaints
    BY DEF MailType
  <2> HIDE DEF counted
  <2> QED
    BY <2>1, <2>2, <2>3
<1>2. CASE t \in Signals \ {"bounced", "complained"}
  BY <1>2 DEF Signal, MailType
<1>3. CASE t \in AllTypes \ Signals
  <2>1. \/ Signal(t, mail) = [mail EXCEPT !.quarantined = TRUE, !.folder = "QUARANTINE"]
        \/ Signal(t, mail) = [mail EXCEPT !.quarantined = FALSE]
        \/ Signal(t, mail) = mail
    BY <1>3 DEF Signal, Signals, AllTypes
  <2>2. t # "bounced" /\ t # "complained"
    BY <1>3 DEF Signals
  <2> QED
    BY <2>1, <2>2 DEF MailType
<1> QED
  BY <1>1, <1>2, <1>3

LEMMA ApplyCounts ==
  ASSUME EventsInv, Counted, NEW w \in Workers, NEW e \in Events, Apply(w, e)
  PROVE  Counted'
<1>1. \A x \in Events : x # e => Status(x)' = Status(x)
  BY DEF Apply, Status, EventsInv, TypeOK, EventType
<1>2. Status(e) = "FAILED"
  BY DEF Apply, At, Busy, EventsInv, Held
<1>3. Status(e)' = "PROCESSED"
  BY DEF Apply, Status, EventsInv, TypeOK, EventType
<1>4. \A t : Processed(t)' = IF type[e] = t THEN Processed(t) \cup {e} ELSE Processed(t)
  BY <1>1, <1>2, <1>3 DEF Apply, Processed
<1>5. \A t : e \notin Processed(t)
  BY <1>2 DEF Processed
<1>6. \A t \in {"bounced", "complained"} :
        /\ IsFiniteSet(Processed(t) \cup {e})
        /\ Cardinality(Processed(t) \cup {e}) = Cardinality(Processed(t)) + 1
  BY <1>5, FS_AddElement DEF Counted, Finite
<1>7. /\ mail'.bounces = IF type[e] = "bounced" THEN mail.bounces + 1 ELSE mail.bounces
      /\ mail'.complaints = IF type[e] = "complained" THEN mail.complaints + 1 ELSE mail.complaints
  BY SignalCounts DEF Apply, EventsInv, TypeOK
<1>8. Finite'
  BY <1>4, <1>6 DEF Counted, Finite
<1>9. SignalsCounted'
  BY <1>4, <1>6, <1>7 DEF Counted, SignalsCounted
<1> QED
  BY <1>8, <1>9 DEF Counted

LEMMA StepCounts ==
  ASSUME EventsInv, Counted, [Next]_vars PROVE Counted'
<1> USE DEF EventsInv
<1>1. ASSUME NEW w \in Workers, NEW e \in Events, Apply(w, e) PROVE Counted'
  BY <1>1, ApplyCounts
<1>2. ASSUME NEW w \in Workers, NEW e \in Events, Claim(w, e) \/ Refuse(w, e) \/ Fail(w, e)
      PROVE  Counted'
  <2>1. \A x \in Events : x # e => event'[x] = event[x]
    BY <1>2 DEF Claim, Refuse, Fail, TypeOK, EventType
  <2>2. CASE Claim(w, e)
    <3>1. Status(e) # "PROCESSED" /\ Status(e)' # "PROCESSED"
      BY <2>2 DEF Claim, Claimable, Status, TypeOK, EventType
    <3> QED
      BY <2>1, <2>2, <3>1, CountStays DEF Claim, Status
  <2>3. CASE Refuse(w, e)
    BY <2>3, CountStays DEF Refuse, Status
  <2>4. CASE Fail(w, e)
    <3>1. Status(e) # "PROCESSED"
      BY <2>4 DEF Fail, At, Busy, Held
    <3>2. Status(e)' # "PROCESSED"
      BY <2>4, <3>1 DEF Fail, Verdict, Status, TypeOK, EventType
    <3> QED
      BY <2>1, <2>4, <3>1, <3>2, CountStays DEF Fail, Status
  <2> QED
    BY <1>2, <2>2, <2>3, <2>4
<1>3. ASSUME NEW r \in Receivers, NEW e \in Events, ReceiveRead(r, e) \/ ReceiveWrite(r, e)
      PROVE  Counted'
  <2>1. \A x \in Events : x # e => event'[x] = event[x]
    BY <1>3 DEF ReceiveRead, ReceiveWrite, TypeOK, EventType
  <2>2. event' = event \/ (Status(e) = "NONE" /\ event'[e].status = "RECEIVED")
    BY <1>3 DEF ReceiveRead, ReceiveWrite, NewEvent, TypeOK, EventType
  <2> QED
    BY <1>3, <2>1, <2>2, CountStays DEF ReceiveRead, ReceiveWrite, Status
<1>4. ASSUME NEW p \in Replayers, NEW e \in Events, ReplayRead(p, e) \/ ReplayWrite(p, e)
      PROVE  Counted'
  <2>1. \A x \in Events : x # e => event'[x] = event[x]
    BY <1>4 DEF ReplayRead, ReplayWrite, TypeOK, EventType
  <2>2. event' = event \/ (Status(e) = "DEAD_LETTER" /\ event'[e].status = "RETRY")
    BY <1>4 DEF ReplayRead, ReplayWrite, Replayed, TypeOK, EventType
  <2> QED
    BY <1>4, <2>1, <2>2, CountStays DEF ReplayRead, ReplayWrite, Status
<1>5. ASSUME NEW e \in Events, RetryDue(e) \/ LockLapses(e) PROVE Counted'
  <2>1. \A x \in Events : event'[x].status = event[x].status
    BY <1>5 DEF RetryDue, LockLapses, TypeOK, EventType
  <2> QED
    BY <1>5, <2>1, CountStays DEF RetryDue, LockLapses, Status
<1>6. CASE Disconnect \/ Reconnect \/ Release \/ \E w \in Workers : Crash(w)
  <2>1. mail'.bounces = mail.bounces /\ mail'.complaints = mail.complaints
    BY <1>6 DEF Disconnect, Reconnect, Release, Crash, TypeOK, MailType
  <2> QED
    BY <1>6, <2>1, CountStays DEF Disconnect, Reconnect, Release, Crash, Status
<1>7. CASE UNCHANGED vars
  BY <1>7, CountStays DEF vars, Status
<1> QED
  BY <1>1, <1>2, <1>3, <1>4, <1>5, <1>6, <1>7 DEF Next, WorkerStep

\* Whatever is repeated, fails or dies, a mailbox is suspended for the bounces and complaints
\* there were: each counts once, when its event is processed.  Of a worker that outlives its
\* lock, or a replay of an event another replay has taken up, the same cannot be said.
THEOREM SignalsAreCounted == Punctual => (Spec => []SignalsCounted)
<1> SUFFICES ASSUME Punctual PROVE Spec => []SignalsCounted
  OBVIOUS
<1>1. Init => Counted
  <2> SUFFICES ASSUME Init PROVE Counted
    OBVIOUS
  <2>1. \A t : Processed(t) = {}
    BY DEF Init, Processed, Status
  <2> QED
    BY <2>1, FS_EmptySet DEF Init, Counted, Finite, SignalsCounted
<1>2. EventsInv /\ Counted /\ [Next]_vars => Counted'
  BY StepCounts
<1>3. Counted => SignalsCounted
  BY DEF Counted
<1> QED
  BY <1>1, <1>2, <1>3, InvHolds, PTL DEF Spec

=============================================================================
