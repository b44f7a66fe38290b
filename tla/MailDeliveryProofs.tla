------------------------- MODULE MailDeliveryProofs -------------------------
(***************************************************************************)
(* Proofs about MailDelivery, for every number of messages, addresses,     *)
(* clients and workers.                                                    *)
(***************************************************************************)
EXTENDS MailDelivery, FiniteSetTheorems, TLAPS

-----------------------------------------------------------------------------
(* Types                                                                   *)

\* The ways a handler's record changes keep its type.
LEMMA IdleType == Idle \in [pc : Pcs, m : SUBSET Messages, seen : SUBSET Addrs,
                            ext : SUBSET Addrs, susp : BOOLEAN, tries : Nat]
  BY DEF Idle, Pcs

LEMMA FinishType == ASSUME ProcType, NEW p \in Procs, Finish(p) PROVE ProcType'
  BY IdleType DEF ProcType, Finish

LEMMA GotoType ==
  ASSUME ProcType, NEW p \in Procs, NEW pc \in Pcs, Goto(p, pc) PROVE ProcType'
  BY DEF ProcType, Goto

LEMMA StartType ==
  ASSUME ProcType, NEW p \in Procs, NEW m \in Messages, NEW pc \in Pcs, Start(p, pc, m)
  PROVE  ProcType'
  BY DEF ProcType, Start, Idle

LEMMA RejectType == ASSUME ProcType, NEW p \in Procs, Reject(p) PROVE ProcType'
  BY FinishType, GotoType DEF Reject, Pcs, Holding

LEMMA SnapshotType ==
  ASSUME ProcType, NEW p \in Procs, NEW m \in Messages, Snapshot(p, m) PROVE ProcType'
  BY DEF ProcType, Snapshot, Idle, Recipients, Pcs, Holding, Delivering

LEMMA FreshType == ASSUME NEW to PROVE Fresh(to) \in [Addrs -> RowState]
  BY DEF Fresh, RowState

\* The initial state is well typed.
LEMMA InitTypeOK == Init => TypeOK
  BY MailAssumption, IdleType
  DEF Init, TypeOK, MsgType, RowsType, BoxType, WorldType, ProcType, HistoryType,
      Statuses, RowState

\* A step of a client's handler keeps the types.
LEMMA ClientTypeOK ==
  ASSUME TypeOK, NEW c \in Clients, NEW m \in Messages, ClientStep(c, m)
  PROVE  TypeOK'
<1> USE DEF TypeOK
<1>0. c \in Procs
  BY DEF Procs
<1>1. ASSUME NEW to \in SUBSET Addrs, CreateDraft(c, m, to) PROVE TypeOK'
  <2>1. MsgType'
    BY <1>1 DEF CreateDraft, MsgType, Statuses
  <2>2. RowsType'
    BY <1>1, FreshType DEF CreateDraft, RowsType
  <2> QED
    BY <1>1, <2>1, <2>2 DEF CreateDraft, BoxType, WorldType, ProcType, HistoryType
<1>2. ASSUME NEW to \in SUBSET Addrs, UpdateWrite(c, m, to) PROVE TypeOK'
  <2>1. RowsType'
    <3>1. Fresh(to) \in [Addrs -> RowState]
      BY FreshType
    <3>2. CASE Exists(m)
      BY <1>2, <3>1, <3>2 DEF UpdateWrite, RowsType
    <3>3. CASE ~Exists(m)
      BY <1>2, <3>3 DEF UpdateWrite, RowsType
    <3> QED
      BY <3>2, <3>3
  <2> QED
    BY <1>0, <1>2, <2>1, FinishType
    DEF UpdateWrite, MsgType, BoxType, WorldType, HistoryType
<1>3. ASSUME NEW op, NEW pc \in ClientPcs, NEW readable, BeginEdit(c, m, op, pc, readable)
      PROVE  TypeOK'
  BY <1>0, <1>3, StartType
  DEF BeginEdit, rowVars, MsgType, RowsType, BoxType, WorldType, HistoryType, Pcs
<1>4. CASE DeleteWrite(c, m)
  <2>1. MsgType'
    BY <1>4 DEF DeleteWrite, MsgType, Statuses
  <2>2. RowsType'
    <3>1. Fresh({}) \in [Addrs -> RowState]
      BY FreshType
    <3>2. CASE Exists(m)
      BY <1>4, <3>1, <3>2 DEF DeleteWrite, RowsType
    <3>3. CASE ~Exists(m)
      BY <1>4, <3>3 DEF DeleteWrite, RowsType
    <3> QED
      BY <3>2, <3>3
  <2> QED
    BY <1>0, <1>4, <2>1, <2>2, FinishType
    DEF DeleteWrite, BoxType, WorldType, HistoryType
<1>5. CASE ScheduleWrite(c, m)
  BY <1>0, <1>5, FinishType
  DEF ScheduleWrite, MsgType, RowsType, BoxType, WorldType, HistoryType, Statuses
<1>6. CASE CancelWrite(c, m)
  BY <1>0, <1>6, FinishType
  DEF CancelWrite, MsgType, RowsType, BoxType, WorldType, HistoryType, Statuses
<1>7. CASE SendRead(c, m)
  BY <1>0, <1>7, SnapshotType
  DEF SendRead, rowVars, MsgType, RowsType, BoxType, WorldType, HistoryType
<1> QED
  BY <1>1, <1>2, <1>3, <1>4, <1>5, <1>6, <1>7
  DEF ClientStep, UpdateRead, DeleteRead, ScheduleRead, CancelRead, ClientPcs

\* A step of the scheduler around deliver keeps the types.
LEMMA WorkerTypeOK ==
  ASSUME TypeOK, NEW w \in Workers, NEW m \in Messages, WorkerStep(w, m)
  PROVE  TypeOK'
<1> USE DEF TypeOK
<1>0. w \in Procs
  BY DEF Procs
<1>1. CASE Claim(w, m)
  BY <1>0, <1>1, StartType 
  DEF Claim, MsgType, Statuses, Pcs, Holding, RowsType, BoxType, WorldType, HistoryType
<1>2. CASE CheckAuthor(w, m)
  <2>1. \/ msg' = msg
        \/ msg' = [msg EXCEPT ![m].status = "FAILED"]
    BY <1>2, Zenon DEF CheckAuthor
  <2>2. MsgType'
    <3> "FAILED" \in Statuses
      BY DEF Statuses
    <3> QED
      BY <2>1, SMT DEF MsgType
  <2>3. ProcType'
    BY <1>0, <1>2, FinishType, GotoType DEF CheckAuthor, Pcs, Holding
  <2> QED
    BY <1>2, <2>2, <2>3 DEF CheckAuthor, RowsType, BoxType, WorldType, HistoryType
<1>3. CASE WorkerRead(w, m)
  BY <1>0, <1>3, SnapshotType, RejectType 
  DEF WorkerRead, rowVars, MsgType, RowsType, BoxType, WorldType, HistoryType
<1>4. CASE CountAttempts(w, m)
  <2>1. ProcType'
    <3> DEFINE tries == IF Exists(m) THEN msg[m].attempts ELSE MaxAttempts
    <3>1. tries \in Nat
      BY MailAssumption DEF MsgType
    <3>2. "settle" \in Pcs
      BY DEF Pcs, Holding
    <3>3. proc' = [proc EXCEPT ![w] = [proc[w] EXCEPT !.pc = "settle", !.tries = tries]]
      BY <1>4, Zenon DEF CountAttempts
    <3> HIDE DEF tries
    <3>4. [proc[w] EXCEPT !.pc = "settle", !.tries = tries]
            \in [pc : Pcs, m : SUBSET Messages, seen : SUBSET Addrs,
                 ext : SUBSET Addrs, susp : BOOLEAN, tries : Nat]
      BY <1>0, <3>1, <3>2 DEF ProcType
    <3> QED
      BY <1>0, <3>3, <3>4 DEF ProcType
  <2> QED
    BY <1>4, <2>1 DEF CountAttempts, rowVars, MsgType, RowsType, BoxType, WorldType, HistoryType
<1>5. CASE Settle(w, m)
  <2>1. MsgType'
    <3> DEFINE next == AfterFailure(proc[w].tries)
    <3>1. /\ next.status \in Statuses
          /\ next.due \in {"never", "later"}
      BY DEF AfterFailure, Statuses
    <3>2. \/ msg' = msg
          \/ msg' = [msg EXCEPT ![m] = [msg[m] EXCEPT !.status = next.status,
                                                      !.due = next.due]]
      BY <1>5, Zenon DEF Settle
    <3> HIDE DEF next
    <3>3. [msg[m] EXCEPT !.status = next.status, !.due = next.due]
            \in [status : Statuses, due : {"never", "later", "due"}, attempts : Nat]
      BY <3>1 DEF MsgType
    <3> QED
      BY <3>2, <3>3 DEF MsgType
  <2> QED
    BY <1>0, <1>5, <2>1, FinishType DEF Settle, RowsType, BoxType, WorldType, HistoryType
<1> QED
  BY <1>1, <1>2, <1>3, <1>4, <1>5 DEF WorkerStep

\* A step of deliver keeps the types.
LEMMA DeliverTypeOK ==
  ASSUME TypeOK, NEW p \in Procs, NEW m \in Messages, DeliverStep(p, m)
  PROVE  TypeOK'
<1> USE DEF TypeOK
<1>0. /\ Cardinality(proc[p].ext) \in Nat
      /\ Cardinality(proc[p].seen) \in Nat
  BY MailAssumption, FS_Subset, FS_CardinalityType DEF ProcType
<1>1. CASE Vet(p, m)
  <2>1. ProcType'
    BY <1>1, RejectType DEF Vet, BoxType, ProcType, Pcs, Holding, Delivering
  <2> QED
    BY <1>1, <2>1 DEF Vet, rowVars, MsgType, RowsType, BoxType, WorldType, HistoryType
<1>2. CASE ReserveWarmup(p, m)
  <2>1. BoxType'
    <3> DEFINE n == Cardinality(proc[p].ext)
    <3>1. WarmupUse(n) \in Nat
      BY <1>0 DEF WarmupUse, BoxType
    <3>2. box' = box \/ box' = [box EXCEPT !.warm = WarmupUse(n), !.newDay = FALSE]
      BY <1>2, Zenon DEF ReserveWarmup
    <3> HIDE DEF n
    <3> QED
      BY <3>1, <3>2 DEF BoxType
  <2>2. ProcType'
    BY <1>2, GotoType, RejectType DEF ReserveWarmup, Pcs, Holding, Delivering
  <2> QED
    BY <1>2, <2>1, <2>2
    DEF ReserveWarmup, rowVars, MsgType, RowsType, WorldType, HistoryType
<1>3. CASE ReserveWindow(p, m)
  <2>1. BoxType'
    <3> DEFINE n == Cardinality(proc[p].seen)
               k == IF box.elapsed THEN n ELSE box.count + n
    <3>1. k \in Nat
      BY <1>0 DEF BoxType
    <3>2. box' = box \/ box' = [box EXCEPT !.count = k, !.elapsed = FALSE]
      BY <1>3 DEF ReserveWindow
    <3> HIDE DEF k
    <3> QED
      BY <3>1, <3>2 DEF BoxType
  <2>2. ProcType'
    BY <1>3, GotoType, RejectType DEF ReserveWindow, Pcs, Holding, Delivering
  <2> QED
    BY <1>3, <2>1, <2>2
    DEF ReserveWindow, rowVars, MsgType, RowsType, WorldType, HistoryType
<1>4. CASE Commit(p, m)
  <2>1. MsgType'
    BY <1>4 DEF Commit, Deliver, MsgType, Statuses
  <2>2. RowsType'
    BY <1>4 DEF Commit, Deliver, RowsType, Recipients, RowState, SuccOf
  <2> QED
    BY <1>4, <2>1, <2>2, FinishType DEF Commit, BoxType, WorldType, HistoryType
<1>5. CASE DeliveryFails(p, m)
  <2>1. HistoryType'
    BY <1>5 DEF DeliveryFails, QueryFails, HistoryType
  <2> QED
    BY <1>5, <2>1, RejectType
    DEF DeliveryFails, rowVars, MsgType, RowsType, BoxType, WorldType
<1> QED
  BY <1>1, <1>2, <1>3, <1>4, <1>5 DEF DeliverStep

\* A handler ends without its last steps: its server dies, or a run of the scheduler fails.
BreaksOff ==
  \/ \E p \in Procs : Crash(p)
  \/ \E w \in Workers, m \in Messages : RunFails(w, m)

\* Time, administrators and handlers that break off keep the types.
LEMMA EnvironmentTypeOK ==
  ASSUME TypeOK, Environment \/ BreaksOff
  PROVE  TypeOK'
<1> USE DEF TypeOK
<1>1. ASSUME NEW m \in Messages, BecomesDue(m) PROVE TypeOK'
  <2>1. MsgType'
    BY <1>1 DEF BecomesDue, MsgType
  <2> QED
    BY <1>1, <2>1 DEF BecomesDue, RowsType, BoxType, WorldType, ProcType, HistoryType
<1>2. CASE WindowElapses \/ DayPasses
  BY <1>2 DEF WindowElapses, DayPasses, rowVars, MsgType, RowsType, BoxType, WorldType,
              ProcType, HistoryType
<1>3. ASSUME NEW on \in BOOLEAN, SetSuspended(on) PROVE TypeOK'
  <2>1. BoxType'
    BY <1>3 DEF SetSuspended, BoxType
  <2>2. HistoryType'
    BY <1>3 DEF SetSuspended, Spend, HistoryType
  <2> QED
    BY <1>3, <2>1, <2>2 DEF SetSuspended, rowVars, MsgType, RowsType, WorldType, ProcType
<1>4. CASE WorldChanges
  <2>1. WorldType'
    <3>1. ASSUME NEW S \in SUBSET Addrs, NEW a \in Addrs PROVE Flip(S, a) \subseteq Addrs
      BY DEF Flip
    <3>2. ASSUME NEW a \in Addrs, MemberChanges(a) \/ SuppressionChanges(a) PROVE WorldType'
      <4>1. Flip(world.members, a) \subseteq Addrs /\ Flip(world.suppressed, a) \subseteq Addrs
        BY <3>1 DEF WorldType
      <4> QED
        BY <3>2, <4>1 DEF WorldType, MemberChanges, SuppressionChanges
    <3>3. CASE DomainGateChanges \/ AuthorChanges
      BY <3>3 DEF WorldType, DomainGateChanges, AuthorChanges
    <3>4. ASSUME NEW d \in SUBSET {"internal", "external"}, PolicyChanges(d)
          PROVE  WorldType'
      BY <3>4 DEF WorldType, PolicyChanges
    <3>5. {{}, {"external"}, {"internal", "external"}} \subseteq SUBSET {"internal", "external"}
      OBVIOUS
    <3> QED
      BY <1>4, <3>2, <3>3, <3>4, <3>5 DEF WorldChanges
  <2> QED
    BY <1>4, <2>1 DEF WorldChanges, Spend, rowVars, MsgType, RowsType, BoxType, ProcType,
                      HistoryType
<1>5. ASSUME NEW p \in Procs, Crash(p) PROVE TypeOK'
  <2>1. HistoryType'
    BY <1>5 DEF Crash, HistoryType, ProcType
  <2> QED
    BY <1>5, <2>1, FinishType DEF Crash, rowVars, MsgType, RowsType, BoxType, WorldType
<1>6. ASSUME NEW w \in Workers, NEW m \in Messages, RunFails(w, m) PROVE TypeOK'
  <2>1. HistoryType'
    BY <1>6 DEF RunFails, QueryFails, HistoryType
  <2> QED
    BY <1>6, <2>1, FinishType
    DEF RunFails, rowVars, MsgType, RowsType, BoxType, WorldType, Procs
<1> QED
  BY <1>1, <1>2, <1>3, <1>4, <1>5, <1>6 DEF Environment, BreaksOff

\* Every state of every run is well typed, whatever the clients, workers and messages.
THEOREM TypeCorrect == Spec => []TypeOK
<1>1. Init => TypeOK
  BY InitTypeOK
<1>2. TypeOK /\ [Next]_vars => TypeOK'
  <2> SUFFICES ASSUME TypeOK, [Next]_vars PROVE TypeOK'
    OBVIOUS
  <2>1. CASE UNCHANGED vars
    BY <2>1 DEF vars, TypeOK, MsgType, RowsType, BoxType, WorldType, ProcType, HistoryType
  <2>2. CASE Next
    BY <2>2, ClientTypeOK, WorkerTypeOK, DeliverTypeOK, EnvironmentTypeOK DEF Next, BreaksOff
  <2> QED
    BY <2>1, <2>2
<1> QED
  BY <1>1, <1>2, PTL DEF Spec

-----------------------------------------------------------------------------
(* No message is left SENDING                                              *)

\* What a step does to the handlers and to the messages in transit.
OnlyTouches(p) == \A q \in Procs \ {p} : proc'[q] = proc[q]
NoneTaken      == \A m \in Messages : msg'[m].status = "SENDING" => msg[m].status = "SENDING"
KeepsHold(p)   == \A m \in Messages :
                    msg'[m].status = "SENDING" /\ Holds(p, m) => Holds(p, m)'

\* A step of a worker that takes no message, and lets none go that is still SENDING.
LEMMA HeldByWorker ==
  ASSUME SendingIsHeld, NEW w \in Workers, OnlyTouches(w), NoneTaken, KeepsHold(w),
         orphan \subseteq orphan'
  PROVE  SendingIsHeld'
  BY DEF SendingIsHeld, OnlyTouches, NoneTaken, KeepsHold, Holds, Procs

\* A client's step is no worker's.
LEMMA HeldByClient ==
  ASSUME SendingIsHeld, NEW c \in Clients, OnlyTouches(c), NoneTaken, orphan' = orphan
  PROVE  SendingIsHeld'
  BY MailAssumption DEF SendingIsHeld, OnlyTouches, NoneTaken, Holds, Procs

LEMMA FinishTouches == ASSUME NEW p, Finish(p), ProcType PROVE OnlyTouches(p)
  BY DEF Finish, OnlyTouches, ProcType

LEMMA StartTouches ==
  ASSUME NEW p, NEW pc, NEW m, Start(p, pc, m), ProcType PROVE OnlyTouches(p)
  BY DEF Start, OnlyTouches, ProcType

LEMMA GotoTouches == ASSUME NEW p, NEW pc, Goto(p, pc), ProcType PROVE OnlyTouches(p)
  BY DEF Goto, OnlyTouches, ProcType

LEMMA SnapshotTouches == ASSUME NEW p, NEW m, Snapshot(p, m), ProcType PROVE OnlyTouches(p)
  BY DEF Snapshot, OnlyTouches, ProcType

LEMMA RejectTouches == ASSUME NEW p, Reject(p), ProcType PROVE OnlyTouches(p)
  BY FinishTouches, GotoTouches DEF Reject

\* A step of a client's handler takes no message.
LEMMA ClientHeld ==
  ASSUME TypeOK, SendingIsHeld, NEW c \in Clients, NEW m \in Messages, ClientStep(c, m)
  PROVE  SendingIsHeld'
<1> USE DEF TypeOK
<1>0. ProcType
  OBVIOUS
<1>1. NoneTaken
  <2>1. ASSUME NEW to \in SUBSET Addrs, CreateDraft(c, m, to) PROVE NoneTaken
    BY <2>1 DEF CreateDraft, NoneTaken, MsgType
  <2>2. CASE DeleteWrite(c, m)
    BY <2>2 DEF DeleteWrite, NoneTaken, MsgType
  <2>3. CASE ScheduleWrite(c, m)
    BY <2>3 DEF ScheduleWrite, NoneTaken, MsgType
  <2>4. CASE CancelWrite(c, m)
    BY <2>4 DEF CancelWrite, NoneTaken, MsgType
  <2>5. ASSUME msg' = msg PROVE NoneTaken
    BY <2>5 DEF NoneTaken
  <2> QED
    BY <2>1, <2>2, <2>3, <2>4, <2>5
    DEF ClientStep, UpdateRead, UpdateWrite, DeleteRead, ScheduleRead, CancelRead, SendRead,
        BeginEdit, rowVars
<1>2. OnlyTouches(c)
  <2>1. ASSUME NEW pc, Start(c, pc, m) PROVE OnlyTouches(c)
    BY <2>1, <1>0, StartTouches
  <2>2. ASSUME Finish(c) PROVE OnlyTouches(c)
    BY <2>2, <1>0, FinishTouches
  <2>3. ASSUME Snapshot(c, m) PROVE OnlyTouches(c)
    BY <2>3, <1>0, SnapshotTouches
  <2>4. ASSUME proc' = proc PROVE OnlyTouches(c)
    BY <2>4 DEF OnlyTouches
  <2> QED
    BY <2>1, <2>2, <2>3, <2>4
    DEF ClientStep, CreateDraft, UpdateRead, UpdateWrite, DeleteRead, DeleteWrite,
        ScheduleRead, ScheduleWrite, CancelRead, CancelWrite, SendRead, BeginEdit
<1>3. orphan' = orphan
  BY DEF ClientStep, CreateDraft, UpdateRead, UpdateWrite, DeleteRead, DeleteWrite,
         ScheduleRead, ScheduleWrite, CancelRead, CancelWrite, SendRead, BeginEdit
<1> QED
  BY <1>1, <1>2, <1>3, HeldByClient

\* A worker that goes on holds what it held; one that stops held one message, which it
\* moved out of SENDING.
LEMMA GotoHolds ==
  ASSUME ProcType, NEW p \in Procs, NEW pc \in Holding, Goto(p, pc) PROVE KeepsHold(p)
  BY DEF ProcType, Goto, KeepsHold, Holds

LEMMA RejectHolds ==
  ASSUME ProcType, NEW w \in Workers, Reject(w) PROVE KeepsHold(w)
  BY GotoHolds DEF Reject, Holding, Procs

LEMMA SnapshotHolds ==
  ASSUME ProcType, NEW p \in Procs, NEW m \in Messages, NEW pc, At(p, pc, m),
         Snapshot(p, m)
  PROVE  KeepsHold(p)
  BY DEF ProcType, Snapshot, KeepsHold, Holds, At, Holding, Delivering, Idle

LEMMA LastHolds ==
  ASSUME NEW p, NEW pc, NEW m \in Messages, At(p, pc, m), msg'[m].status # "SENDING"
  PROVE  KeepsHold(p)
  BY DEF KeepsHold, Holds, At

LEMMA WorkerHeld ==
  ASSUME TypeOK, SendingIsHeld, NEW w \in Workers, NEW m \in Messages, WorkerStep(w, m)
  PROVE  SendingIsHeld'
<1> USE DEF TypeOK
<1>0. ProcType /\ w \in Procs
  BY DEF Procs
<1>1. CASE Claim(w, m)
  <2>1. OnlyTouches(w) /\ Holds(w, m)'
    BY <1>0, <1>1, StartTouches DEF Claim, Start, Holds, Holding, Idle, ProcType
  <2>2. \A n \in Messages \ {m} : msg'[n] = msg[n] /\ ~Holds(w, n)
    BY <1>1 DEF Claim, Holds, MsgType, Idle
  <2>3. orphan' = orphan
    BY <1>1 DEF Claim
  <2> QED
    BY <2>1, <2>2, <2>3 DEF SendingIsHeld, OnlyTouches, Holds, Procs
<1>2. CASE CheckAuthor(w, m)
  <2>1. NoneTaken
    <3>1. msg' = msg \/ msg' = [msg EXCEPT ![m].status = "FAILED"]
      BY <1>2, Zenon DEF CheckAuthor
    <3> QED
      BY <3>1 DEF NoneTaken, MsgType
  <2>2. CASE world.authorActive
    BY <1>0, <1>2, <2>1, <2>2, GotoTouches, GotoHolds, HeldByWorker DEF CheckAuthor, Holding
  <2>3. CASE ~world.authorActive
    <3>1. msg'[m].status # "SENDING"
      BY <1>2, <2>3 DEF CheckAuthor, MsgType, Exists, Existing, Statuses
    <3>2. KeepsHold(w)
      BY <1>2, <3>1, LastHolds DEF CheckAuthor
    <3> QED
      BY <1>0, <1>2, <2>1, <2>3, <3>2, FinishTouches, HeldByWorker DEF CheckAuthor
  <2> QED
    BY <2>2, <2>3
<1>3. CASE WorkerRead(w, m)
  <2>1. OnlyTouches(w)
    BY <1>0, <1>3, SnapshotTouches, RejectTouches DEF WorkerRead
  <2>2. KeepsHold(w)
    BY <1>0, <1>3, SnapshotHolds, RejectHolds DEF WorkerRead
  <2> QED
    BY <1>3, <2>1, <2>2, HeldByWorker DEF WorkerRead, rowVars, NoneTaken
<1>4. CASE CountAttempts(w, m)
  <2>1. OnlyTouches(w)
    BY <1>0, <1>4 DEF CountAttempts, OnlyTouches, ProcType
  <2>2. KeepsHold(w)
    BY <1>0, <1>4 DEF CountAttempts, KeepsHold, Holds, Holding, ProcType
  <2> QED
    BY <1>4, <2>1, <2>2, HeldByWorker DEF CountAttempts, rowVars, NoneTaken
<1>5. CASE Settle(w, m)
  <2> DEFINE next == AfterFailure(proc[w].tries)
  <2>1. next.status \in {"FAILED", "SCHEDULED"}
    BY DEF AfterFailure
  <2>2. \/ msg' = msg /\ ~Exists(m)
        \/ msg' = [msg EXCEPT ![m] = [msg[m] EXCEPT !.status = next.status,
                                                    !.due = next.due]]
    BY <1>5, Zenon DEF Settle
  <2> HIDE DEF next
  <2>3. NoneTaken /\ msg'[m].status # "SENDING"
    BY <2>1, <2>2 DEF NoneTaken, MsgType, Exists, Existing, Statuses
  <2>4. KeepsHold(w)
    BY <1>5, <2>3, LastHolds DEF Settle
  <2> QED
    BY <1>0, <1>5, <2>3, <2>4, FinishTouches, HeldByWorker DEF Settle
<1> QED
  BY <1>1, <1>2, <1>3, <1>4, <1>5 DEF WorkerStep

LEMMA DeliverHeld ==
  ASSUME TypeOK, SendingIsHeld, NEW p \in Procs, NEW m \in Messages, DeliverStep(p, m)
  PROVE  SendingIsHeld'
<1> USE DEF TypeOK
<1>0. ProcType
  OBVIOUS
<1>1. orphan' = orphan
  BY DEF DeliverStep, Vet, ReserveWarmup, ReserveWindow, Commit, DeliveryFails, rowVars
<1>2. \/ UNCHANGED msg
      \/ Commit(p, m) /\ msg' = [msg EXCEPT ![m].status = "SENT", ![m].due = "never"]
  BY Zenon DEF DeliverStep, Vet, ReserveWarmup, ReserveWindow, Commit, Deliver, DeliveryFails,
         rowVars
<1>3. NoneTaken
  BY <1>2 DEF NoneTaken, MsgType
<1>4. OnlyTouches(p)
  <2>1. ASSUME NEW pc, Goto(p, pc) PROVE OnlyTouches(p)
    BY <1>0, <2>1, GotoTouches
  <2>2. CASE Reject(p)
    BY <1>0, <2>2, RejectTouches
  <2>3. CASE Finish(p)
    BY <1>0, <2>3, FinishTouches
  <2>4. ASSUME Vet(p, m) PROVE OnlyTouches(p)
    BY <2>2, <2>4 DEF Vet, OnlyTouches, ProcType
  <2> QED
    BY <2>1, <2>2, <2>3, <2>4
    DEF DeliverStep, ReserveWarmup, ReserveWindow, Commit, DeliveryFails
<1>5. CASE p \in Clients
  BY <1>1, <1>3, <1>4, <1>5, HeldByClient
<1>6. CASE p \in Workers
  <2>1. CASE Vet(p, m)
    <3>1. ASSUME Reject(p) PROVE KeepsHold(p)
      BY <1>0, <1>6, <3>1, RejectHolds
    <3>2. ASSUME Allowed(proc[p].seen) PROVE KeepsHold(p)
      BY <2>1, <3>2 DEF Vet, KeepsHold, Holds, Holding, Delivering, ProcType
    <3> QED
      BY <1>1, <1>3, <1>4, <1>6, <2>1, <3>1, <3>2, HeldByWorker DEF Vet
  <2>2. CASE ReserveWarmup(p, m) \/ ReserveWindow(p, m) \/ DeliveryFails(p, m)
    <3>1. Reject(p) \/ Goto(p, "window") \/ Goto(p, "commit")
      BY <2>2 DEF ReserveWarmup, ReserveWindow, DeliveryFails
    <3>2. KeepsHold(p)
      BY <1>0, <1>6, <3>1, RejectHolds, GotoHolds DEF Holding, Delivering
    <3> QED
      BY <1>1, <1>3, <1>4, <1>6, <3>2, HeldByWorker
  <2>3. CASE Commit(p, m)
    <3>1. msg'[m].status # "SENDING"
      BY <2>3 DEF Commit, Deliver, MsgType
    <3>2. KeepsHold(p)
      BY <2>3, <3>1, LastHolds DEF Commit
    <3> QED
      BY <1>1, <1>3, <1>4, <1>6, <3>2, HeldByWorker
  <2> QED
    BY <2>1, <2>2, <2>3 DEF DeliverStep
<1> QED
  BY <1>5, <1>6 DEF Procs

\* A worker that dies leaves the message it held among the orphans.
LEMMA CrashHeld ==
  ASSUME TypeOK, SendingIsHeld, NEW p \in Procs, Crash(p) PROVE SendingIsHeld'
<1> USE DEF TypeOK
<1>1. OnlyTouches(p)
  BY FinishTouches DEF Crash
<1>2. msg' = msg /\ orphan \subseteq orphan'
  BY DEF Crash, rowVars
<1>3. ASSUME NEW n \in Messages, msg'[n].status = "SENDING"
      PROVE  n \in orphan' \/ \E w \in Workers : Holds(w, n)'
  <2>1. CASE n \in orphan
    BY <1>2, <2>1
  <2>2. ASSUME NEW w \in Workers, Holds(w, n), w # p PROVE Holds(w, n)'
    BY <1>1, <2>2 DEF OnlyTouches, Holds, Procs
  <2>3. CASE p \in Workers /\ Holds(p, n)
    BY <2>3 DEF Crash, Holds
  <2> QED
    BY <1>2, <1>3, <2>1, <2>2, <2>3 DEF SendingIsHeld
<1> QED
  BY <1>3 DEF SendingIsHeld

\* A run that fails around deliver leaves the message it held among the orphans.
LEMMA RunFailsHeld ==
  ASSUME TypeOK, SendingIsHeld, NEW w \in Workers, NEW m \in Messages, RunFails(w, m)
  PROVE  SendingIsHeld'
<1>1. /\ msg' = msg /\ orphan' = orphan \cup {m} /\ proc[w].m = {m}
      /\ \A q \in Procs \ {w} : proc'[q] = proc[q]
  BY DEF RunFails, At, rowVars, Finish, TypeOK, ProcType
<1>2. ASSUME NEW n \in Messages, msg'[n].status = "SENDING"
      PROVE  n \in orphan' \/ \E v \in Workers : Holds(v, n)'
  <2>1. CASE n \in orphan \/ n = m
    BY <1>1, <2>1
  <2>2. ASSUME NEW v \in Workers, Holds(v, n), n # m PROVE Holds(v, n)'
    BY <1>1, <2>2 DEF Holds, Procs
  <2> QED
    BY <1>1, <1>2, <2>1, <2>2 DEF SendingIsHeld
<1> QED
  BY <1>2 DEF SendingIsHeld

\* processDueScheduled takes up SCHEDULED messages only: a message left SENDING is lost. Two
\* things leave one, whatever the clients do meanwhile: the death of the server of the
\* worker that claimed it, and a query around deliver that fails.
THEOREM NoMessageStuckSending == Spec => []SendingIsHeld
<1>1. Init => SendingIsHeld
  BY DEF Init, SendingIsHeld
<1>2. TypeOK /\ SendingIsHeld /\ [Next]_vars => SendingIsHeld'
  <2> SUFFICES ASSUME TypeOK, SendingIsHeld, [Next]_vars PROVE SendingIsHeld'
    OBVIOUS
  <2>1. CASE UNCHANGED vars
    BY <2>1 DEF vars, SendingIsHeld, Holds
  <2>2. CASE Environment
    <3>1. UNCHANGED <<proc, orphan>>
      BY <2>2 DEF Environment, BecomesDue, WindowElapses, DayPasses, SetSuspended, WorldChanges
    <3>2. NoneTaken
      BY <2>2 DEF Environment, BecomesDue, WindowElapses, DayPasses, SetSuspended,
                  WorldChanges, rowVars, NoneTaken, TypeOK, MsgType
    <3> QED
      BY <3>1, <3>2 DEF SendingIsHeld, NoneTaken, Holds
  <2> QED
    BY <2>1, <2>2, ClientHeld, WorkerHeld, DeliverHeld, CrashHeld, RunFailsHeld DEF Next
<1> QED
  BY <1>1, <1>2, TypeCorrect, PTL DEF Spec

-----------------------------------------------------------------------------
(* The send window                                                         *)

\* A reservation counts no more than all addresses, or stays within the limit; nothing
\* else raises the counter.
THEOREM SendWindowBounded == Spec => []WindowBounded
<1>1. Init => WindowBounded
  BY MailAssumption DEF Init, WindowBounded
<1>2. TypeOK /\ WindowBounded /\ [Next]_vars => WindowBounded'
  <2> SUFFICES ASSUME TypeOK, WindowBounded, [Next]_vars PROVE WindowBounded'
    OBVIOUS
  <2>1. ASSUME box'.count = box.count PROVE WindowBounded'
    BY <2>1 DEF WindowBounded
  <2>2. ASSUME NEW p \in Procs, NEW m \in Messages, ReserveWindow(p, m) PROVE WindowBounded'
    <3> DEFINE n == Cardinality(proc[p].seen)
    <3>1. n <= Cardinality(Addrs) /\ n \in Nat
      BY MailAssumption, FS_Subset, FS_CardinalityType DEF TypeOK, ProcType
    <3>2. \/ box'.count = box.count
          \/ box.elapsed /\ box'.count = n
          \/ box'.count = box.count + n /\ box.count + n <= WindowMax
      BY <2>2 DEF ReserveWindow, TypeOK, BoxType
    <3> HIDE DEF n
    <3> QED
      BY <2>1, <3>1, <3>2 DEF WindowBounded
  <2>3. ASSUME NEW p \in Procs, NEW m \in Messages, ReserveWarmup(p, m) PROVE WindowBounded'
    BY <2>1, <2>3 DEF ReserveWarmup, TypeOK, BoxType
  <2>4. ASSUME NEW on \in BOOLEAN, SetSuspended(on) PROVE WindowBounded'
    BY <2>1, <2>4, MailAssumption DEF SetSuspended, TypeOK, BoxType, WindowBounded
  <2>5. CASE WindowElapses \/ DayPasses
    BY <2>1, <2>5 DEF WindowElapses, DayPasses, TypeOK, BoxType
  <2>6. ASSUME UNCHANGED box PROVE WindowBounded'
    BY <2>1, <2>6
  <2>7. ASSUME NEW c \in Clients, NEW m \in Messages, ClientStep(c, m) PROVE UNCHANGED box
    BY <2>7 DEF ClientStep, CreateDraft, UpdateRead, UpdateWrite, DeleteRead, DeleteWrite,
                ScheduleRead, ScheduleWrite, CancelRead, CancelWrite, SendRead, BeginEdit
  <2>8. ASSUME NEW w \in Workers, NEW m \in Messages, WorkerStep(w, m) PROVE UNCHANGED box
    BY <2>8 DEF WorkerStep, Claim, CheckAuthor, WorkerRead, CountAttempts, Settle
  <2>9. ASSUME NEW p \in Procs, NEW m \in Messages, DeliverStep(p, m) PROVE WindowBounded'
    <3>1. ASSUME Vet(p, m) \/ Commit(p, m) \/ DeliveryFails(p, m) PROVE UNCHANGED box
      BY <3>1 DEF Vet, Commit, DeliveryFails
    <3> QED
      BY <2>2, <2>3, <2>6, <2>9, <3>1 DEF DeliverStep
  <2>10. CASE Environment
    <3>1. ASSUME NEW m \in Messages, BecomesDue(m) PROVE UNCHANGED box
      BY <3>1 DEF BecomesDue
    <3>2. ASSUME WorldChanges PROVE UNCHANGED box
      BY <3>2 DEF WorldChanges
    <3> QED
      BY <2>4, <2>5, <2>6, <2>10, <3>1, <3>2 DEF Environment
  <2>11. ASSUME NEW p \in Procs, Crash(p) PROVE UNCHANGED box
    BY <2>11 DEF Crash
  <2>12. ASSUME NEW w \in Workers, NEW m \in Messages, RunFails(w, m) PROVE UNCHANGED box
    BY <2>12 DEF RunFails
  <2> QED
    BY <2>6, <2>7, <2>8, <2>9, <2>10, <2>11, <2>12 DEF Next, vars
<1> QED
  BY <1>1, <1>2, TypeCorrect, PTL DEF Spec

-----------------------------------------------------------------------------
(* One client at a time on a message                                         *)

\* The hypothesis of what follows: requests for one message do not overlap, and the scheduler
\* does not take a message while its cancellation is being written.
Unhurried ==
  /\ \A c, d \in Clients : c # d /\ proc[c].m = proc[d].m => proc[c].m = {}
  /\ \A c \in Clients, w \in Workers : proc[c].pc = "cancelWrite" => proc[w].m # proc[c].m

\* A handler that is not idle is about one message.
Bound(p) == proc[p] = Idle \/ \E m \in Messages : proc[p].m = {m}

\* What a handler that works on a message has read of it is still so.
Current(p, m) ==
  /\ p \in Clients =>
       \/ proc[p].pc = "cancelWrite" /\ msg[m].status = "SCHEDULED"
       \/ /\ proc[p].pc \in {"updateWrite", "deleteWrite", "scheduleWrite"} \cup Delivering
          /\ msg[m].status = "DRAFT"
  /\ p \in Workers => proc[p].pc \in Holding /\ msg[m].status = "SENDING"
  /\ proc[p].pc \in Delivering => proc[p].seen = Recipients(m)

\* Before a message is sent nothing of it was delivered; once it is, everyone was reached.
Reached(m) ==
  \A a \in Recipients(m) :
    \/ rows[m][a] = "DELIVERED" /\ a \in inbox[m] \cup {Self}
    \/ rows[m][a] = "QUEUED" /\ (ProviderMapped => m \in jobs)
Delivered(m) ==
  /\ msg[m].status \in {"NEW", "DRAFT", "SCHEDULED", "SENDING", "FAILED"}
       => sent[m] = 0 /\ linked[m] = {}
  /\ msg[m].status = "SENT" => Reached(m)

MailInv ==
  /\ \A p \in Procs : Bound(p)
  /\ \A p \in Procs, m \in Messages : proc[p].m = {m} => Current(p, m)
  /\ \A v, w \in Workers : v # w /\ proc[v].m = proc[w].m => proc[v].m = {}
  /\ \A m \in Messages : Delivered(m)

\* Nobody else works on the message.
Alone(p, m) == \A q \in Procs \ {p} : proc[q].m # {m}

LEMMA AloneHolds ==
  ASSUME MailInv, Unhurried, NEW p \in Procs, NEW m \in Messages, proc[p].m = {m}
  PROVE  Alone(p, m)
<1> SUFFICES ASSUME NEW q \in Procs, q # p, proc[q].m = {m} PROVE FALSE
  BY DEF Alone
<1>1. Current(p, m) /\ Current(q, m)
  BY DEF MailInv
<1>2. CASE p \in Clients /\ q \in Clients
  BY <1>2 DEF Unhurried
<1>3. CASE p \in Workers /\ q \in Workers
  BY <1>3 DEF MailInv
<1>4. CASE (p \in Clients /\ q \in Workers) \/ (p \in Workers /\ q \in Clients)
  BY <1>1, <1>4 DEF Current
<1> QED
  BY <1>2, <1>3, <1>4 DEF Procs

\* Nobody works on a message that is in none of the states a handler holds it in.
LEMMA NobodyHolds ==
  ASSUME MailInv, NEW m \in Messages, msg[m].status \notin {"DRAFT", "SCHEDULED", "SENDING"},
         NEW p \in Procs
  PROVE  proc[p].m # {m}
  BY DEF MailInv, Current, Procs

\* The rows of the other messages.
OthersKept(m) ==
  \A n \in Messages \ {m} :
    /\ msg'[n].status = msg[n].status /\ rows'[n] = rows[n] /\ linked'[n] = linked[n]
    /\ inbox'[n] = inbox[n] /\ sent'[n] = sent[n] /\ (n \in jobs <=> n \in jobs')
RowsKept ==
  /\ \A n \in Messages : msg'[n].status = msg[n].status
  /\ UNCHANGED <<rows, linked, inbox, sent, jobs>>

\* Nothing that the invariant is about changes.
LEMMA StillKeeps == ASSUME MailInv, RowsKept, UNCHANGED proc PROVE MailInv'
<1>1. \A p \in Procs : Bound(p)'
  BY DEF MailInv, Bound
<1>2. \A p \in Procs, m \in Messages : proc'[p].m = {m} => Current(p, m)'
  BY DEF MailInv, Current, RowsKept, Recipients
<1>3. \A m \in Messages : Delivered(m)'
  BY DEF MailInv, Delivered, Reached, RowsKept, Recipients
<1> QED
  BY <1>1, <1>2, <1>3 DEF MailInv

\* One handler goes on, and the rows stay as they are.
LEMMA MoveKeeps ==
  ASSUME MailInv, NEW p \in Procs, RowsKept, OnlyTouches(p), Bound(p)',
         \A n \in Messages : proc'[p].m = {n} => Current(p, n)',
         p \in Workers => proc'[p].m \in {{}, proc[p].m}
  PROVE  MailInv'
<1>1. \A q \in Procs \ {p} : proc'[q] = proc[q]
  BY DEF OnlyTouches
<1>2. \A q \in Procs : Bound(q)'
  BY <1>1 DEF MailInv, Bound
<1>3. \A q \in Procs, m \in Messages : proc'[q].m = {m} => Current(q, m)'
  BY <1>1 DEF MailInv, Current, RowsKept, Recipients
<1>4. \A m \in Messages : Delivered(m)'
  BY DEF MailInv, Delivered, Reached, RowsKept, Recipients
<1>5. \A v, w \in Workers : v # w /\ proc'[v].m = proc'[w].m => proc'[v].m = {}
  BY <1>1 DEF MailInv, Procs
<1> QED
  BY <1>2, <1>3, <1>4, <1>5 DEF MailInv

\* One handler changes the rows of the message that it alone works on.
LEMMA WriteKeeps ==
  ASSUME MailInv, NEW p \in Procs, NEW m \in Messages, OthersKept(m), OnlyTouches(p),
         Alone(p, m), Bound(p)', proc'[p].m \in {{}, {m}},
         proc'[p].m = {m} => Current(p, m)', Delivered(m)'
  PROVE  MailInv'
<1>1. \A q \in Procs \ {p} : proc'[q] = proc[q] /\ proc'[q].m # {m}
  BY DEF OnlyTouches, Alone
<1>2. \A q \in Procs : Bound(q)'
  BY <1>1 DEF MailInv, Bound
<1>3. ASSUME NEW q \in Procs, NEW n \in Messages, proc'[q].m = {n} PROVE Current(q, n)'
  <2>1. CASE q = p
    <3>1. n = m
      BY <1>3, <2>1
    <3> QED
      BY <1>3, <2>1, <3>1
  <2>2. CASE q # p
    <3>1. n # m /\ proc[q].m = {n} /\ proc'[q] = proc[q]
      BY <1>1, <1>3, <2>2
    <3> QED
      BY <3>1 DEF MailInv, Current, OthersKept, Recipients
  <2> QED
    BY <2>1, <2>2
<1>4. \A n \in Messages \ {m} : Delivered(n)'
  BY DEF MailInv, Delivered, Reached, OthersKept, Recipients
<1>5. \A v, w \in Workers : v # w /\ proc'[v].m = proc'[w].m => proc'[v].m = {}
  BY <1>1 DEF MailInv, Procs
<1> QED
  BY <1>2, <1>3, <1>4, <1>5 DEF MailInv

\* What a handler's record becomes.
LEMMA FinishedIdle ==
  ASSUME ProcType, NEW p \in Procs, Finish(p)
  PROVE  OnlyTouches(p) /\ proc'[p] = Idle /\ proc'[p].m = {} /\ Bound(p)'
  BY FinishTouches DEF Finish, ProcType, Idle, Bound

LEMMA StartedAt ==
  ASSUME ProcType, NEW p \in Procs, NEW pc, NEW m \in Messages, Start(p, pc, m)
  PROVE  /\ OnlyTouches(p) /\ proc'[p].m = {m} /\ proc'[p].pc = pc
         /\ Bound(p)' /\ \A n \in Messages : proc'[p].m = {n} => n = m
  BY StartTouches DEF Start, ProcType, Idle, Bound

LEMMA ReadAt ==
  ASSUME ProcType, NEW p \in Procs, NEW m \in Messages, Snapshot(p, m)
  PROVE  /\ OnlyTouches(p) /\ proc'[p].m = {m} /\ proc'[p].pc = "vet"
         /\ proc'[p].seen = Recipients(m)
         /\ Bound(p)' /\ \A n \in Messages : proc'[p].m = {n} => n = m
  BY SnapshotTouches DEF Snapshot, ProcType, Idle, Bound

LEMMA WentTo ==
  ASSUME ProcType, NEW p \in Procs, NEW pc, Goto(p, pc), NEW m \in Messages, proc[p].m = {m}
  PROVE  /\ OnlyTouches(p) /\ proc'[p].m = {m} /\ proc'[p].pc = pc
         /\ proc'[p].seen = proc[p].seen
         /\ Bound(p)' /\ \A n \in Messages : proc'[p].m = {n} => n = m
<1>1. OnlyTouches(p)
  BY GotoTouches
<1>2. proc'[p] = [proc[p] EXCEPT !.pc = pc]
  BY DEF Goto, ProcType
<1>3. proc'[p].m = {m} /\ proc'[p].pc = pc /\ proc'[p].seen = proc[p].seen
  BY <1>2 DEF ProcType
<1> QED
  BY <1>1, <1>3 DEF Bound

\* A rejected attempt ends a client's request, and leaves a worker its message.
LEMMA RejectKeeps ==
  ASSUME TypeOK, MailInv, NEW p \in Procs, NEW m \in Messages, proc[p].m = {m}, Reject(p),
         RowsKept
  PROVE  MailInv'
<1>0. ProcType
  BY DEF TypeOK
<1>1. CASE p \in Workers
  <2>1. Goto(p, "failed")
    BY <1>1 DEF Reject
  <2>2. msg[m].status = "SENDING" /\ p \notin Clients
    BY <1>1, MailAssumption DEF MailInv, Current
  <2>3. Current(p, m)'
    BY <1>0, <2>1, <2>2, WentTo DEF Current, RowsKept, Holding, Delivering
  <2>4. /\ OnlyTouches(p) /\ proc'[p].m = proc[p].m /\ Bound(p)'
        /\ \A n \in Messages : proc'[p].m = {n} => n = m
    BY <1>0, <2>1, WentTo
  <2> QED
    BY <2>3, <2>4, MoveKeeps
<1>2. CASE p \notin Workers
  <2>1. Finish(p)
    BY <1>2 DEF Reject
  <2>2. OnlyTouches(p) /\ proc'[p].m = {} /\ Bound(p)'
    BY <1>0, <2>1, FinishedIdle
  <2> QED
    BY <1>2, <2>2, MoveKeeps
<1> QED
  BY <1>1, <1>2

-----------------------------------------------------------------------------
(* The steps of a client                                                     *)

LEMMA DraftCreated ==
  ASSUME TypeOK, MailInv, NEW c \in Clients, NEW m \in Messages, NEW to \in SUBSET Addrs,
         CreateDraft(c, m, to)
  PROVE  MailInv'
<1>1. c \in Procs /\ Alone(c, m)
  BY NobodyHolds DEF CreateDraft, Alone, Procs
<1>2. OthersKept(m) /\ msg'[m].status = "DRAFT"
  BY DEF CreateDraft, OthersKept, TypeOK, MsgType, RowsType
<1>3. OnlyTouches(c) /\ Bound(c)' /\ proc'[c].m = {}
  BY DEF CreateDraft, OnlyTouches, Bound, Idle
<1>4. Delivered(m)'
  BY <1>2 DEF CreateDraft, MailInv, Delivered
<1> QED
  BY <1>1, <1>2, <1>3, <1>4, WriteKeeps

\* Every handler of a client begins with a message in the state it may act on.
LEMMA EditBegun ==
  ASSUME TypeOK, MailInv, NEW c \in Clients, NEW m \in Messages,
         UpdateRead(c, m) \/ DeleteRead(c, m) \/ ScheduleRead(c, m) \/ CancelRead(c, m)
  PROVE  MailInv'
<1>1. c \in Procs /\ c \notin Workers /\ ProcType
  BY MailAssumption DEF TypeOK, Procs
<1>2. RowsKept
  BY DEF UpdateRead, DeleteRead, ScheduleRead, CancelRead, BeginEdit, rowVars, RowsKept
<1>3. PICK pc \in ClientPcs :
        /\ Start(c, pc, m)
        /\ msg[m].status = IF pc = "cancelWrite" THEN "SCHEDULED" ELSE "DRAFT"
  BY DEF UpdateRead, DeleteRead, ScheduleRead, CancelRead, BeginEdit, EditableDraft, ClientPcs
<1>4. /\ OnlyTouches(c) /\ proc'[c].m = {m} /\ proc'[c].pc = pc
      /\ Bound(c)' /\ \A n \in Messages : proc'[c].m = {n} => n = m
  BY <1>1, <1>3, StartedAt
<1>5. Current(c, m)'
  BY <1>1, <1>2, <1>3, <1>4 DEF Current, RowsKept, ClientPcs, Delivering
<1> QED
  BY <1>1, <1>2, <1>4, <1>5, MoveKeeps

LEMMA SendBegun ==
  ASSUME TypeOK, MailInv, NEW c \in Clients, NEW m \in Messages, SendRead(c, m)
  PROVE  MailInv'
<1>1. c \in Procs /\ c \notin Workers /\ ProcType
  BY MailAssumption DEF TypeOK, Procs
<1>2. RowsKept /\ Snapshot(c, m) /\ msg[m].status = "DRAFT"
  BY DEF SendRead, rowVars, RowsKept
<1>3. /\ OnlyTouches(c) /\ proc'[c].m = {m} /\ proc'[c].pc = "vet"
      /\ proc'[c].seen = Recipients(m)
      /\ Bound(c)' /\ \A n \in Messages : proc'[c].m = {n} => n = m
  BY <1>1, <1>2, ReadAt
<1>4. Current(c, m)'
  BY <1>1, <1>2, <1>3 DEF Current, RowsKept, Delivering, Recipients
<1> QED
  BY <1>1, <1>2, <1>3, <1>4, MoveKeeps

\* What a client writes by id it writes to a message that is as it read it.
ClientWrite(c, m) ==
  \/ \E to \in SUBSET Addrs : UpdateWrite(c, m, to)
  \/ DeleteWrite(c, m) \/ ScheduleWrite(c, m) \/ CancelWrite(c, m)

LEMMA ClientWrites ==
  ASSUME TypeOK, MailInv, NEW c \in Clients, NEW m \in Messages, ClientWrite(c, m)
  PROVE  /\ Exists(m) /\ proc[c].m = {m} /\ Finish(c) /\ OthersKept(m)
         /\ \/ /\ msg[m].status = "DRAFT" /\ msg'[m].status = "DRAFT"
               /\ linked'[m] = {} /\ sent' = sent
               /\ \A n \in Messages : msg'[n].status = msg[n].status
            \/ /\ msg[m].status = "DRAFT" /\ msg'[m].status = "DELETED" /\ sent' = sent
            \/ /\ msg[m].status = "DRAFT" /\ msg'[m].status = "SCHEDULED"
               /\ UNCHANGED <<rows, linked, inbox, sent, jobs>>
            \/ /\ msg[m].status = "SCHEDULED" /\ msg'[m].status = "DRAFT"
               /\ UNCHANGED <<rows, linked, inbox, sent, jobs>>
<1>1. c \in Procs /\ c \notin Workers
  BY MailAssumption DEF Procs
<1>2. proc[c].m = {m} /\ Finish(c)
  BY DEF ClientWrite, UpdateWrite, DeleteWrite, ScheduleWrite, CancelWrite, At
<1>3. Current(c, m)
  BY <1>1, <1>2 DEF MailInv
<1>4. Exists(m) /\ msg[m].status = IF proc[c].pc = "cancelWrite" THEN "SCHEDULED" ELSE "DRAFT"
  BY <1>3 DEF Current, Exists, Existing, Statuses, Delivering
<1>5. ASSUME NEW to \in SUBSET Addrs, UpdateWrite(c, m, to)
      PROVE  /\ OthersKept(m) /\ msg' = msg /\ sent' = sent /\ linked'[m] = {}
             /\ msg[m].status = "DRAFT"
  BY <1>4, <1>5 DEF UpdateWrite, At, OthersKept, TypeOK, RowsType
<1>6. CASE DeleteWrite(c, m)
  <2>1. /\ OthersKept(m) /\ msg[m].status = "DRAFT" /\ msg'[m].status = "DELETED"
        /\ sent' = sent
    BY <1>4, <1>6 DEF DeleteWrite, At, OthersKept, TypeOK, MsgType, RowsType
  <2> QED
    BY <1>2, <1>4, <2>1
<1>7. CASE ScheduleWrite(c, m)
  <2>1. /\ OthersKept(m) /\ msg[m].status = "DRAFT" /\ msg'[m].status = "SCHEDULED"
        /\ UNCHANGED <<rows, linked, inbox, sent, jobs>>
    BY <1>4, <1>7 DEF ScheduleWrite, At, OthersKept, TypeOK, MsgType
  <2> QED
    BY <1>2, <1>4, <2>1
<1>8. CASE CancelWrite(c, m)
  <2>1. /\ OthersKept(m) /\ msg[m].status = "SCHEDULED" /\ msg'[m].status = "DRAFT"
        /\ UNCHANGED <<rows, linked, inbox, sent, jobs>>
    BY <1>4, <1>8 DEF CancelWrite, At, OthersKept, TypeOK, MsgType
  <2> QED
    BY <1>2, <1>4, <2>1
<1>9. CASE \E to \in SUBSET Addrs : UpdateWrite(c, m, to)
  BY <1>2, <1>4, <1>5, <1>9
<1> QED
  BY <1>6, <1>7, <1>8, <1>9 DEF ClientWrite

LEMMA ClientWriteKeeps ==
  ASSUME TypeOK, MailInv, Unhurried, NEW c \in Clients, NEW m \in Messages, ClientWrite(c, m)
  PROVE  MailInv'
<1>1. c \in Procs /\ ProcType
  BY DEF TypeOK, Procs
<1>2. proc[c].m = {m} /\ Finish(c) /\ OthersKept(m)
  BY ClientWrites
<1>3. OnlyTouches(c) /\ Bound(c)' /\ proc'[c].m = {} /\ Alone(c, m)
  BY <1>1, <1>2, FinishedIdle, AloneHolds
<1>4. Delivered(m)
  BY DEF MailInv
<1>5. Delivered(m)'
  BY <1>4, ClientWrites DEF Delivered
<1> QED
  BY <1>1, <1>2, <1>3, <1>5, WriteKeeps

-----------------------------------------------------------------------------
(* The steps of a worker                                                     *)

LEMMA ClaimKeeps ==
  ASSUME TypeOK, MailInv, Unhurried', NEW w \in Workers, NEW m \in Messages, Claim(w, m)
  PROVE  MailInv'
<1>1. w \in Procs /\ w \notin Clients /\ ProcType
  BY MailAssumption DEF TypeOK, Procs
<1>2. /\ OnlyTouches(w) /\ proc'[w].m = {m} /\ proc'[w].pc = "author" /\ Bound(w)'
  BY <1>1, StartedAt DEF Claim
<1>3. OthersKept(m) /\ msg'[m].status = "SENDING" /\ UNCHANGED <<rows, linked, inbox, sent, jobs>>
  BY DEF Claim, OthersKept, TypeOK, MsgType
<1>4. Alone(w, m)
  <2> SUFFICES ASSUME NEW q \in Procs, q # w, proc[q].m = {m} PROVE FALSE
    BY DEF Alone
  <2>1. Current(q, m) /\ msg[m].status = "SCHEDULED"
    BY DEF MailInv, Claim
  <2>2. q \in Clients /\ proc[q].pc = "cancelWrite"
    BY <2>1 DEF Current, Procs
  <2>3. proc'[q] = proc[q]
    BY <1>2 DEF OnlyTouches
  <2> QED
    BY <1>2, <2>2, <2>3 DEF Unhurried
<1>5. Current(w, m)'
  BY <1>1, <1>2, <1>3 DEF Current, Holding, Delivering
<1>6. Delivered(m)'
  BY <1>3 DEF MailInv, Delivered, Claim
<1> QED
  BY <1>1, <1>2, <1>3, <1>4, <1>5, <1>6, WriteKeeps

\* A worker that gives a message up or back, and is done with it.
LEMMA SettledKeeps ==
  ASSUME TypeOK, MailInv, Unhurried, NEW w \in Workers, NEW m \in Messages, proc[w].m = {m},
         Finish(w), OthersKept(m), UNCHANGED <<rows, linked, inbox, sent, jobs>>,
         msg'[m].status \in {"FAILED", "SCHEDULED"}
  PROVE  MailInv'
<1>1. w \in Procs /\ ProcType
  BY DEF TypeOK, Procs
<1>2. OnlyTouches(w) /\ Bound(w)' /\ proc'[w].m = {} /\ Alone(w, m)
  BY <1>1, FinishedIdle, AloneHolds
<1>3. msg[m].status = "SENDING"
  BY <1>1 DEF MailInv, Current
<1>4. Delivered(m)'
  BY <1>3 DEF MailInv, Delivered
<1> QED
  BY <1>1, <1>2, <1>4, WriteKeeps

\* What becomes of the message that a worker gives up or back.
LEMMA WorkerSettles ==
  ASSUME TypeOK, MailInv, NEW w \in Workers, NEW m \in Messages,
         Settle(w, m) \/ (CheckAuthor(w, m) /\ ~world.authorActive)
  PROVE  /\ proc[w].m = {m} /\ Finish(w) /\ OthersKept(m) /\ msg[m].status = "SENDING"
         /\ msg'[m].status \in {"FAILED", "SCHEDULED"}
         /\ UNCHANGED <<rows, linked, inbox, sent, jobs>>
<1>1. proc[w].m = {m} /\ w \in Procs
  BY DEF Settle, CheckAuthor, At, Procs
<1>2. msg[m].status = "SENDING" /\ Exists(m)
  BY <1>1 DEF MailInv, Current, Exists, Existing, Statuses
<1>3. UNCHANGED <<rows, linked, inbox, sent, jobs>>
  BY DEF Settle, CheckAuthor
<1>4. CASE Settle(w, m)
  <2> DEFINE next == AfterFailure(proc[w].tries)
  <2>1. next.status \in {"FAILED", "SCHEDULED"}
    BY DEF AfterFailure
  <2>2. msg' = [msg EXCEPT ![m] = [msg[m] EXCEPT !.status = next.status, !.due = next.due]]
    BY <1>2, <1>4, Zenon DEF Settle
  <2> HIDE DEF next
  <2>3. OthersKept(m) /\ msg'[m].status \in {"FAILED", "SCHEDULED"}
    BY <1>3, <2>1, <2>2 DEF OthersKept, TypeOK, MsgType
  <2> QED
    BY <1>1, <1>2, <1>3, <1>4, <2>3 DEF Settle
<1>5. CASE CheckAuthor(w, m) /\ ~world.authorActive
  <2>1. msg' = [msg EXCEPT ![m].status = "FAILED"] /\ Finish(w)
    BY <1>2, <1>5 DEF CheckAuthor
  <2>2. OthersKept(m) /\ msg'[m].status = "FAILED"
    BY <1>3, <2>1 DEF OthersKept, TypeOK, MsgType
  <2> QED
    BY <1>1, <1>2, <1>3, <2>1, <2>2
<1> QED
  BY <1>4, <1>5

LEMMA WorkerGoesOn ==
  ASSUME TypeOK, MailInv, NEW w \in Workers, NEW m \in Messages,
         \/ CheckAuthor(w, m) /\ world.authorActive
         \/ WorkerRead(w, m) \/ CountAttempts(w, m)
  PROVE  MailInv' /\ RowsKept
<1>1. /\ w \in Procs /\ w \notin Clients /\ ProcType
      /\ proc[w].m = {m} /\ RowsKept
  BY MailAssumption
  DEF TypeOK, Procs, CheckAuthor, WorkerRead, CountAttempts, At, rowVars, RowsKept
<1>2. msg[m].status = "SENDING" /\ msg'[m].status = "SENDING"
  BY <1>1 DEF MailInv, Current, RowsKept
<1>3. CASE CheckAuthor(w, m) /\ world.authorActive
  <2>1. /\ OnlyTouches(w) /\ proc'[w].m = {m} /\ proc'[w].pc = "read" /\ Bound(w)'
        /\ \A n \in Messages : proc'[w].m = {n} => n = m
    BY <1>1, <1>3, WentTo DEF CheckAuthor
  <2>2. Current(w, m)'
    BY <1>1, <1>2, <2>1 DEF Current, Holding, Delivering
  <2> QED
    BY <1>1, <2>1, <2>2, MoveKeeps
<1>4. CASE CountAttempts(w, m)
  <2>1. PICK tries : proc' = [proc EXCEPT ![w] = [proc[w] EXCEPT !.pc = "settle", !.tries = tries]]
    BY <1>4, Zenon DEF CountAttempts
  <2>2. proc'[w] = [proc[w] EXCEPT !.pc = "settle", !.tries = tries] /\ OnlyTouches(w)
    BY <1>1, <2>1 DEF ProcType, OnlyTouches
  <2>3. proc'[w].m = {m} /\ proc'[w].pc = "settle"
    BY <1>1, <2>2 DEF ProcType
  <2>4. Bound(w)' /\ \A n \in Messages : proc'[w].m = {n} => n = m
    BY <2>3 DEF Bound
  <2>5. Current(w, m)'
    BY <1>1, <1>2, <2>3 DEF Current, Holding, Delivering
  <2> QED
    BY <1>1, <2>2, <2>3, <2>4, <2>5, MoveKeeps
<1>5. CASE WorkerRead(w, m)
  <2>1. CASE Reject(w)
    BY <1>1, <2>1, RejectKeeps
  <2>2. CASE Snapshot(w, m)
    <3>1. /\ OnlyTouches(w) /\ proc'[w].m = {m} /\ proc'[w].pc = "vet"
          /\ proc'[w].seen = Recipients(m)
          /\ Bound(w)' /\ \A n \in Messages : proc'[w].m = {n} => n = m
      BY <1>1, <2>2, ReadAt
    <3>2. Current(w, m)'
      BY <1>1, <1>2, <3>1 DEF Current, Holding, Delivering, RowsKept, Recipients
    <3> QED
      BY <1>1, <3>1, <3>2, MoveKeeps
  <2> QED
    BY <1>5, <2>1, <2>2 DEF WorkerRead
<1> QED
  BY <1>1, <1>3, <1>4, <1>5

-----------------------------------------------------------------------------
(* Delivery                                                                  *)

\* What is in the way of a delivery is found, or nothing is; the rows stay as they are.
LEMMA DeliveryGoesOn ==
  ASSUME TypeOK, MailInv, NEW p \in Procs, NEW m \in Messages,
         Vet(p, m) \/ ReserveWarmup(p, m) \/ ReserveWindow(p, m) \/ DeliveryFails(p, m)
  PROVE  MailInv' /\ RowsKept
<1>1. /\ ProcType /\ proc[p].m = {m} /\ RowsKept
      /\ DeliveryFails(p, m) \/ proc[p].pc \in Delivering
  BY DEF TypeOK, Vet, ReserveWarmup, ReserveWindow, DeliveryFails, At, rowVars, RowsKept, Delivering
<1>2. CASE Reject(p)
  BY <1>1, <1>2, RejectKeeps
<1>3. ASSUME NEW pc \in Delivering, OnlyTouches(p), proc'[p].m = {m}, proc'[p].pc = pc,
             proc'[p].seen = proc[p].seen, proc[p].pc \in Delivering
      PROVE  MailInv'
  <2>1. Bound(p)' /\ \A n \in Messages : proc'[p].m = {n} => n = m
    BY <1>3 DEF Bound
  <2>2. Current(p, m)
    BY <1>1 DEF MailInv
  <2>3. Current(p, m)'
    BY <1>1, <1>3, <2>2 DEF Current, Holding, Delivering, RowsKept, Recipients
  <2> QED
    BY <1>1, <1>3, <2>1, <2>3, MoveKeeps
<1>4. CASE Vet(p, m) /\ ~Reject(p) /\ proc[p].pc \in Delivering
  <2>1. PICK ext, susp :
          proc' = [proc EXCEPT ![p].pc = "warmup", ![p].ext = ext, ![p].susp = susp]
    BY <1>4, Zenon DEF Vet
  <2>2. OnlyTouches(p)
    BY <2>1, <1>1 DEF OnlyTouches, ProcType
  <2>3. proc'[p].m = {m} /\ proc'[p].pc = "warmup" /\ proc'[p].seen = proc[p].seen
    BY <1>1, <2>1 DEF ProcType
  <2>4. "warmup" \in Delivering
    BY DEF Delivering
  <2> QED
    BY <1>1, <1>3, <1>4, <2>2, <2>3, <2>4
<1>5. ASSUME NEW pc \in Delivering, Goto(p, pc), proc[p].pc \in Delivering PROVE MailInv'
  <2>1. /\ OnlyTouches(p) /\ proc'[p].m = {m} /\ proc'[p].pc = pc
        /\ proc'[p].seen = proc[p].seen
    BY <1>1, <1>5, WentTo
  <2> QED
    BY <1>3, <1>5, <2>1
<1> QED
  BY <1>1, <1>2, <1>4, <1>5 DEF ReserveWarmup, ReserveWindow, DeliveryFails, Delivering

\* The delivery transaction reaches everybody that the message is addressed to.
LEMMA DeliverReaches ==
  ASSUME TypeOK, NEW m \in Messages, linked[m] = {}, Deliver(m)
  PROVE  Reached(m)'
<1> DEFINE to       == Recipients(m)
           internal == to \cap world.members
<1>1. rows'[m] = [a \in Addrs |-> IF a \in internal THEN "DELIVERED"
                                  ELSE IF a \in to THEN "QUEUED" ELSE "NONE"]
  BY DEF Deliver, TypeOK, RowsType
<1>2. inbox'[m] = inbox[m] \cup (internal \ {Self})
  BY DEF Deliver, TypeOK, RowsType
<1>3. jobs' = IF ProviderMapped /\ NeedsProvider(to, internal) THEN jobs \cup {m} ELSE jobs
  BY DEF Deliver
<1> SUFFICES ASSUME NEW a \in Addrs, rows'[m][a] # "NONE"
             PROVE  \/ rows'[m][a] = "DELIVERED" /\ a \in inbox'[m] \cup {Self}
                    \/ rows'[m][a] = "QUEUED" /\ (ProviderMapped => m \in jobs')
  BY DEF Reached, Recipients
<1> HIDE DEF to
<1>4. CASE a \in internal
  BY <1>1, <1>2, <1>4
<1>5. CASE a \notin internal /\ a \in to
  BY <1>1, <1>3, <1>5 DEF NeedsProvider
<1> QED
  BY <1>1, <1>4, <1>5

LEMMA CommitKeeps ==
  ASSUME TypeOK, MailInv, Unhurried, NEW p \in Procs, NEW m \in Messages, Commit(p, m)
  PROVE  /\ MailInv' /\ OthersKept(m)
         /\ msg[m].status \in {"DRAFT", "SENDING"} /\ sent[m] = 0
         /\ msg'[m].status = "SENT" /\ sent' = [sent EXCEPT ![m] = 1]
<1>1. proc[p].m = {m} /\ proc[p].pc = "commit" /\ Finish(p) /\ Deliver(m) /\ ProcType
  BY DEF Commit, At, TypeOK
<1>2. msg[m].status \in {"DRAFT", "SENDING"}
  BY <1>1 DEF MailInv, Current, Procs
<1>3. sent[m] = 0 /\ linked[m] = {}
  BY <1>2 DEF MailInv, Delivered
<1>4. msg'[m].status = "SENT" /\ sent' = [sent EXCEPT ![m] = 1]
  BY <1>1, <1>3 DEF Deliver, SuccOf, TypeOK, MsgType, RowsType
<1>5. OthersKept(m)
  BY <1>1, <1>4 DEF Deliver, OthersKept, TypeOK, MsgType, RowsType
<1>6. OnlyTouches(p) /\ Bound(p)' /\ proc'[p].m = {} /\ Alone(p, m)
  BY <1>1, FinishedIdle, AloneHolds
<1>7. Reached(m)'
  BY <1>1, <1>3, DeliverReaches
<1>8. Delivered(m)'
  BY <1>4, <1>7 DEF Delivered
<1>9. MailInv'
  BY <1>5, <1>6, <1>8, WriteKeeps
<1> QED
  BY <1>2, <1>3, <1>4, <1>5, <1>9

LEMMA SurroundingsKeep ==
  ASSUME TypeOK, MailInv, Environment \/ BreaksOff
  PROVE  MailInv' /\ RowsKept
<1>1. CASE Environment
  <2>1. ASSUME NEW m \in Messages, BecomesDue(m) PROVE RowsKept /\ UNCHANGED proc
    BY <2>1 DEF BecomesDue, RowsKept, TypeOK, MsgType
  <2>2. ASSUME ~\E m \in Messages : BecomesDue(m) PROVE RowsKept /\ UNCHANGED proc
    BY <1>1, <2>2
    DEF Environment, WindowElapses, DayPasses, SetSuspended, WorldChanges, rowVars, RowsKept
  <2> QED
    BY <2>1, <2>2, StillKeeps
<1>2. ASSUME NEW p \in Procs, Crash(p) PROVE MailInv' /\ RowsKept
  <2>1. RowsKept /\ Finish(p) /\ ProcType
    BY <1>2 DEF Crash, rowVars, RowsKept, TypeOK
  <2>2. OnlyTouches(p) /\ Bound(p)' /\ proc'[p].m = {}
    BY <2>1, FinishedIdle
  <2> QED
    BY <2>1, <2>2, MoveKeeps
<1>3. ASSUME NEW w \in Workers, NEW m \in Messages, RunFails(w, m) PROVE MailInv' /\ RowsKept
  <2>1. RowsKept /\ Finish(w) /\ ProcType /\ w \in Procs
    BY <1>3 DEF RunFails, rowVars, RowsKept, TypeOK, Procs
  <2>2. OnlyTouches(w) /\ Bound(w)' /\ proc'[w].m = {}
    BY <2>1, FinishedIdle
  <2> QED
    BY <2>1, <2>2, MoveKeeps
<1> QED
  BY <1>1, <1>2, <1>3 DEF BreaksOff

-----------------------------------------------------------------------------
(* The abstract life of a message                                            *)

Stages == [m \in Messages |-> msg[m].status]

\* A step that moves one message, and delivers nothing.
LEMMA OneMoves ==
  ASSUME NEW m \in Messages, \A n \in Messages \ {m} : msg'[n].status = msg[n].status
  PROVE  Stages' = [Stages EXCEPT ![m] = msg'[m].status]
  BY DEF Stages

LEMMA NoneMoves == ASSUME RowsKept PROVE Stages' = Stages /\ sent' = sent
  BY DEF RowsKept, Stages

\* Every step of the service is one of the life of a message, or none.
Lives == [Mail!Next]_<<Stages, sent>>

\* A step of the life of one message.
LifeStep(m) ==
  \/ Mail!Write(m) \/ Mail!Discard(m) \/ Mail!Plan(m) \/ Mail!Recall(m)
  \/ Mail!Take(m) \/ Mail!GiveBack(m) \/ Mail!GiveUp(m) \/ Mail!Deliver(m)

LEMMA LifeStepLives == ASSUME NEW m \in Messages, LifeStep(m) PROVE Lives
  BY DEF LifeStep, Lives, Mail!Next

LEMMA StutterLives == ASSUME Stages' = Stages, sent' = sent PROVE Lives
  BY DEF Lives

LEMMA MoveLives ==
  ASSUME NEW m \in Messages, \A n \in Messages \ {m} : msg'[n].status = msg[n].status,
         sent' = sent,
         <<msg[m].status, msg'[m].status>>
           \in {<<"NEW", "DRAFT">>, <<"DRAFT", "DELETED">>, <<"DRAFT", "SCHEDULED">>,
               <<"SCHEDULED", "DRAFT">>, <<"SCHEDULED", "SENDING">>,
               <<"SENDING", "SCHEDULED">>, <<"SENDING", "FAILED">>}
  PROVE  Lives
<1>1. Stages' = [Stages EXCEPT ![m] = msg'[m].status] /\ Stages[m] = msg[m].status
  BY OneMoves DEF Stages
<1>2. LifeStep(m)
  BY <1>1 DEF LifeStep, Stages, Mail!Write, Mail!Discard, Mail!Plan, Mail!Recall, Mail!Take,
              Mail!GiveBack, Mail!GiveUp, Mail!Move
<1> QED
  BY <1>2, LifeStepLives

LEMMA StepLives ==
  ASSUME TypeOK, MailInv, Unhurried, Unhurried', [Next]_vars
  PROVE  MailInv' /\ Lives
<1>1. ASSUME MailInv', RowsKept PROVE MailInv' /\ Lives
  BY <1>1, NoneMoves, StutterLives
<1>2. CASE UNCHANGED vars
  BY <1>1, <1>2, StillKeeps DEF vars, RowsKept
<1>3. ASSUME NEW c \in Clients, NEW m \in Messages, NEW to \in SUBSET Addrs, CreateDraft(c, m, to)
      PROVE  MailInv' /\ Lives
  <2>1. /\ msg[m].status = "NEW" /\ msg'[m].status = "DRAFT" /\ sent' = sent
        /\ \A n \in Messages \ {m} : msg'[n].status = msg[n].status
    BY <1>3 DEF CreateDraft, TypeOK, MsgType
  <2>2. Lives
    BY <2>1, MoveLives
  <2> QED
    BY <1>3, <2>2, DraftCreated
<1>4. ASSUME NEW c \in Clients, NEW m \in Messages, ClientWrite(c, m) PROVE MailInv' /\ Lives
  <2>1. MailInv' /\ OthersKept(m)
    BY <1>4, ClientWriteKeeps, ClientWrites
  <2>2. \/ /\ msg[m].status = "DRAFT" /\ msg'[m].status = "DRAFT" /\ sent' = sent
           /\ \A n \in Messages : msg'[n].status = msg[n].status
        \/ /\ sent' = sent
           /\ <<msg[m].status, msg'[m].status>>
                \in {<<"DRAFT", "DELETED">>, <<"DRAFT", "SCHEDULED">>, <<"SCHEDULED", "DRAFT">>}
    BY <1>4, ClientWrites
  <2>3. CASE \A n \in Messages : msg'[n].status = msg[n].status /\ sent' = sent
    <3>1. Stages' = Stages
      BY <2>3 DEF Stages
    <3> QED
      BY <2>1, <2>3, <3>1, StutterLives
  <2>4. \A n \in Messages \ {m} : msg'[n].status = msg[n].status
    BY <2>1 DEF OthersKept
  <2> QED
    BY <2>1, <2>2, <2>3, <2>4, MoveLives
<1>5. ASSUME NEW c \in Clients, NEW m \in Messages,
             UpdateRead(c, m) \/ DeleteRead(c, m) \/ ScheduleRead(c, m) \/ CancelRead(c, m)
             \/ SendRead(c, m)
      PROVE  MailInv' /\ Lives
  <2>1. MailInv'
    BY <1>5, EditBegun, SendBegun
  <2>2. RowsKept
    BY <1>5 DEF UpdateRead, DeleteRead, ScheduleRead, CancelRead, SendRead, BeginEdit, rowVars,
                RowsKept
  <2> QED
    BY <1>1, <2>1, <2>2
<1>6. ASSUME NEW w \in Workers, NEW m \in Messages, Claim(w, m) PROVE MailInv' /\ Lives
  <2>1. /\ msg[m].status = "SCHEDULED" /\ msg'[m].status = "SENDING" /\ sent' = sent
        /\ \A n \in Messages \ {m} : msg'[n].status = msg[n].status
    BY <1>6 DEF Claim, TypeOK, MsgType
  <2>2. Lives
    BY <2>1, MoveLives
  <2> QED
    BY <1>6, <2>2, ClaimKeeps
<1>7. ASSUME NEW w \in Workers, NEW m \in Messages,
             Settle(w, m) \/ (CheckAuthor(w, m) /\ ~world.authorActive)
      PROVE  MailInv' /\ Lives
  <2>1. MailInv'
    BY <1>7, WorkerSettles, SettledKeeps
  <2>2. /\ OthersKept(m) /\ msg[m].status = "SENDING" /\ sent' = sent
        /\ msg'[m].status \in {"FAILED", "SCHEDULED"}
    BY <1>7, WorkerSettles
  <2>3. \A n \in Messages \ {m} : msg'[n].status = msg[n].status
    BY <2>2 DEF OthersKept
  <2>4. Lives
    BY <2>2, <2>3, MoveLives
  <2> QED
    BY <2>1, <2>4
<1>8. ASSUME NEW w \in Workers, NEW m \in Messages, WorkerStep(w, m) PROVE MailInv' /\ Lives
  BY <1>1, <1>6, <1>7, <1>8, WorkerGoesOn DEF WorkerStep
<1>9. ASSUME NEW p \in Procs, NEW m \in Messages, Commit(p, m) PROVE MailInv' /\ Lives
  <2>1. /\ MailInv' /\ OthersKept(m) /\ msg[m].status \in {"DRAFT", "SENDING"} /\ sent[m] = 0
        /\ msg'[m].status = "SENT" /\ sent' = [sent EXCEPT ![m] = 1]
    BY <1>9, CommitKeeps
  <2>2. Stages' = [Stages EXCEPT ![m] = "SENT"] /\ Stages[m] = msg[m].status
    BY <2>1, OneMoves DEF OthersKept, Stages
  <2>3. LifeStep(m)
    BY <2>1, <2>2 DEF LifeStep, Mail!Deliver, Stages
  <2> QED
    BY <2>1, <2>3, LifeStepLives
<1>10. ASSUME NEW p \in Procs, NEW m \in Messages, DeliverStep(p, m) PROVE MailInv' /\ Lives
  BY <1>1, <1>9, <1>10, DeliveryGoesOn DEF DeliverStep
<1>11. CASE Environment \/ BreaksOff
  BY <1>1, <1>11, SurroundingsKeep
<1>12. ASSUME NEW c \in Clients, NEW m \in Messages, ClientStep(c, m) PROVE MailInv' /\ Lives
  BY <1>3, <1>4, <1>5, <1>12 DEF ClientStep, ClientWrite
<1> QED
  BY <1>2, <1>8, <1>10, <1>11, <1>12 DEF Next, BreaksOff

LEMMA InitMail == ASSUME Init PROVE MailInv
<1>1. \A p \in Procs : proc[p] = Idle /\ proc[p].m = {}
  BY DEF Init, Idle
<1>2. \A m \in Messages : Delivered(m)
  BY DEF Init, Delivered
<1> QED
  BY <1>1, <1>2 DEF MailInv, Bound, Procs

LEMMA MailInvHolds == Spec /\ []Unhurried => []MailInv
<1>1. TypeOK /\ MailInv /\ Unhurried /\ Unhurried' /\ [Next]_vars => MailInv'
  BY StepLives
<1> QED
  BY <1>1, InitMail, TypeCorrect, PTL DEF Spec

\* deliver vets the recipients of its first read and delivers to those of its last: they are
\* the same, for any number of messages, clients and workers, as long as requests for one
\* message do not overlap.
THEOREM VettedIsDelivered == Spec /\ []Unhurried => []VettedIsCurrent
<1>1. MailInv => VettedIsCurrent
  BY DEF MailInv, Current, VettedIsCurrent, At, Delivering
<1> QED
  BY <1>1, MailInvHolds, PTL

\* Nobody whom a sent message is addressed to is left out by deliver, and nobody is added
\* to it afterwards, as long as requests for one message do not overlap.
THEOREM EveryoneIsReached == Spec /\ []Unhurried => []SentReachesEveryone
<1>1. MailInv => SentReachesEveryone
  BY DEF MailInv, Delivered, Reached, SentReachesEveryone
<1> QED
  BY <1>1, MailInvHolds, PTL

\* Handlers, scheduler workers and their crashes implement the abstract life of a message:
\* delivered at most once, and final when sent, given up or deleted, as long as requests for
\* one message do not overlap.
THEOREM MailIsDeliveredOnce == Spec /\ []Unhurried => DeliveredOnce
<1>1. Init => Mail!Init
  BY DEF Init, Mail!Init
<1>2. TypeOK /\ MailInv /\ Unhurried /\ Unhurried' /\ [Next]_vars => [Mail!Next]_<<Stages, sent>>
  BY StepLives DEF Lives
<1> QED
  BY <1>1, <1>2, TypeCorrect, MailInvHolds, PTL
  DEF Spec, DeliveredOnce, Mail!Spec, Mail!mailVars, Stages
=============================================================================
