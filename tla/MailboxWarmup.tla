---------------------------- MODULE MailboxWarmup ---------------------------
(* The warm-up of one mailbox: the stage that sets its daily cap, promoted   *)
(* when the stage's days have passed without too many bounces.  Complaints,  *)
(* which count the same way, are counted with the bounces; the daily counter *)
(* that the cap bounds is MailDelivery's.                                    *)
EXTENDS Integers, SettingsCalls

CONSTANT MaxCount  \* bound: messages sent or bounced since the last promotion

VARIABLES
    box,         \* the mailbox row: stage, whether the stage's days have passed, counters
    warmCall,    \* what each request is doing
    terms,       \* history: how often a stage's days have passed
    twice        \* history: two evaluations crossed

warmVars == <<box, warmCall, terms, twice>>

LastStage == 3

NewStage(stage) ==
    [stage |-> stage, served |-> FALSE, sent |-> 0, bounced |-> 0, suspended |-> FALSE]

WarmInit ==
    /\ box = NewStage(0) /\ terms = 0 /\ twice = FALSE
    /\ warmCall = [c \in Calls |-> Idle]

WarmStep(c, to) == warmCall' = [warmCall EXCEPT ![c] = to]

(* A rate is the bounces over what was sent; with nothing sent the promotion *)
(* takes it for 0 and the suspension for 1.                                  *)
Over(percent) == box.sent > 0 /\ box.bounced * 100 > percent * box.sent

(* evaluateWarmup reads the row, then increments the stage and starts over.  *)
EvaluateRead(c) ==
    /\ AtStage(warmCall, c, "idle")
    /\ box.stage < LastStage /\ box.served /\ ~Over(2)
    /\ WarmStep(c, [stage |-> "eligible"])
    /\ UNCHANGED <<box, terms, twice>>

\* Mutant of Promoted: the day the stage began is not written.
PromotedStill == [NewStage(box.stage + 1) EXCEPT !.suspended = box.suspended,
                                                 !.served = box.served]

Promoted == [NewStage(box.stage + 1) EXCEPT !.suspended = box.suspended]

EvaluateWrite(c) ==
    /\ AtStage(warmCall, c, "eligible")
    /\ box' = Promoted
    /\ WarmStep(c, Idle)
    /\ twice' = (twice \/ \E d \in Calls \ {c} : AtStage(warmCall, d, "eligible"))
    /\ UNCHANGED terms

WarmCallFails(c) ==
    /\ ~AtStage(warmCall, c, "idle")
    /\ WarmStep(c, Idle)
    /\ UNCHANGED <<box, terms, twice>>

(* The days of the stage have passed.                                        *)
Served ==
    /\ ~box.served
    /\ box' = [box EXCEPT !.served = TRUE]
    /\ terms' = terms + 1
    /\ UNCHANGED <<warmCall, twice>>

(* A send reserves an external recipient.                                    *)
Reserve ==
    /\ ~box.suspended /\ box.sent < MaxCount
    /\ box' = [box EXCEPT !.sent = @ + 1]
    /\ UNCHANGED <<warmCall, terms, twice>>

(* A bounce is counted, and may suspend the mailbox: also the first one      *)
(* after a promotion, whatever was sent before it.                           *)
Bounce ==
    /\ box.bounced < MaxCount
    /\ box' = [box EXCEPT !.bounced = @ + 1,
                          !.suspended = @ \/ box.sent = 0 \/ (box.bounced + 1) * 100 > 5 * box.sent]
    /\ UNCHANGED <<warmCall, terms, twice>>

(* An administrator suspends the mailbox, or lets it send again.             *)
SendingStatus(on) ==
    /\ box.suspended # on
    /\ box' = [box EXCEPT !.suspended = on]
    /\ UNCHANGED <<warmCall, terms, twice>>

WarmNext ==
    \/ \E c \in Calls : EvaluateRead(c) \/ EvaluateWrite(c) \/ WarmCallFails(c)
    \/ Served \/ Reserve \/ Bounce
    \/ \E on \in BOOLEAN : SendingStatus(on)

(* A mailbox earns its stage: it has waited out the days of every stage it   *)
(* left, and no evaluation takes it past the last, unless two evaluations    *)
(* crossed between the read and the increment.                               *)
(* (delivery-protection.service.ts 110-132.)                                 *)
StageEarned == ~twice => box.stage <= terms /\ box.stage <= LastStage
=============================================================================
