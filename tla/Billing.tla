------------------------------- MODULE Billing -------------------------------
(***************************************************************************)
(* The subscriptions of one tenant, as Stripe has them and as the webhooks *)
(* and the owner's requests write them down.                               *)
(*                                                                         *)
(* Stripe is external: it changes a subscription, sends an event with a    *)
(* snapshot of it, and delivers the event again until it is answered with  *)
(* success, in any order and more than once at a time.  A delivery and a   *)
(* request take one statement per step; the reads before a first write are *)
(* one step.                                                               *)
(***************************************************************************)
EXTENDS Naturals, Sequences, FiniteSets

CONSTANTS
  Subs,        \* the subscriptions that checkouts may lead to
  Plans,       \* codes of the plans on sale
  Hooks,       \* deliveries that may be processed at the same time
  MaxEvents,   \* bound: how many events Stripe sends
  MaxFaults    \* bound: how many deliveries and requests fail half way

Starter == "starter"
NoPlan == "none"

ASSUME BillingAssumption ==
  /\ NoPlan \notin Plans
  /\ MaxEvents \in Nat /\ MaxFaults \in Nat

VARIABLES
  stripe,    \* external: the subscriptions as Stripe has them
  events,    \* external: the events in the order in which they happened
  recorded,  \* stripe_webhook_events
  invoices,  \* the subscriptions whose invoice is stored
  row,       \* subscriptions; at is the order of their created_at, seen the newest event written
  planCode,  \* the tenant's plan code
  hook,      \* the deliveries in progress
  owner,     \* the owner's request in progress
  mixed,     \* history: subscriptions to which something older was written over something newer
  early,     \* history: subscriptions whose invoice came before anything of them was recorded
  crossed,   \* history: the plan code was last written by a delivery that another overtook
  faults     \* how many more may fail

history == <<mixed, early, crossed>>
vars == <<stripe, events, recorded, invoices, row, planCode, hook, owner, history, faults>>

\* What else Stripe reports of a subscription (unpaid, incomplete, ...) is stored like past_due.
Statuses == {"none", "active", "trialing", "past_due", "canceled"}
\* The statuses with which a subscription decides the plan code.
Effective == {"active", "trialing"}
\* A subscription that has not ended.
Lasting == Effective \cup {"past_due"}

\* Its metadata names the plan it was sold with; its price is what it is charged for now.
NoSub == [status |-> "none", plan |-> NoPlan, price |-> NoPlan, ending |-> FALSE, customer |-> {}]
NoRow == [status |-> "none", plan |-> NoPlan, ending |-> FALSE, at |-> 0, seen |-> 0]
Waiting == [pc |-> "idle", event |-> 0, plan |-> NoPlan, late |-> FALSE]
NoRequest == [pc |-> "idle", sub |-> {}, ending |-> FALSE, event |-> 0]

Sub(e) == events[e].sub
Rows == {s \in Subs : row[s].status # "none"}

\* getCurrentSubscription: the newest row that is not canceled.
Newest(set) == {s \in set : \A t \in set : row[t].at <= row[s].at}
Current == Newest({s \in Rows : row[s].status # "canceled"})

-----------------------------------------------------------------------------
(* Stripe                                                                  *)

Sends(type, s, sub) ==
  Append(events, [type |-> type, sub |-> s, status |-> sub.status, plan |-> sub.plan,
                  price |-> sub.price, ending |-> sub.ending])

Becomes(type, s, sub) ==
  /\ Len(events) < MaxEvents
  /\ stripe' = [stripe EXCEPT ![s] = sub]
  /\ events' = Sends(type, s, sub)

\* ensureCustomer: the customer of the newest row; two checkouts before there is one make two.
Customer(s) == IF Rows = {} THEN {s} ELSE UNION {stripe[t].customer : t \in Newest(Rows)}

\* createCheckout opens a session for a plan, whatever the tenant has already; paid, it makes
\* a subscription that carries the plan's code and the tenant in its metadata.
Checkout(s, plan) ==
  /\ stripe[s] = NoSub
  /\ Becomes("created", s, [status |-> "active", plan |-> plan, price |-> plan, ending |-> FALSE,
                              customer |-> Customer(s)])
  /\ UNCHANGED <<recorded, invoices, row, planCode, hook, owner, history, faults>>

\* The event of the checkout session, and the one of the invoice, follow the one of their
\* subscription.
CheckoutCompletes(s, type) ==
  /\ stripe[s].status = "active"
  /\ \A e \in DOMAIN events : ~(events[e].type = type /\ Sub(e) = s)
  /\ Becomes(type, s, stripe[s])
  /\ UNCHANGED <<recorded, invoices, row, planCode, hook, owner, history, faults>>

\* A payment fails or succeeds again, or somebody gives a trial at Stripe and it is over.
Payment(s, status) ==
  /\ stripe[s].status \in Lasting \ {status}
  /\ Becomes("updated", s, [stripe[s] EXCEPT !.status = status])
  /\ UNCHANGED <<recorded, invoices, row, planCode, hook, owner, history, faults>>

\* In the billing portal of getPortalUrl.
PortalCancels(s, ending) ==
  /\ stripe[s].status \in Lasting /\ stripe[s].ending # ending
  /\ Becomes("updated", s, [stripe[s] EXCEPT !.ending = ending])
  /\ UNCHANGED <<recorded, invoices, row, planCode, hook, owner, history, faults>>

\* There too: another plan's price, and the metadata as it was.
PortalMoves(s, price) ==
  /\ stripe[s].status \in Lasting /\ stripe[s].price # price
  /\ Becomes("updated", s, [stripe[s] EXCEPT !.price = price])
  /\ UNCHANGED <<recorded, invoices, row, planCode, hook, owner, history, faults>>

\* The period of a canceled subscription ends, Stripe gives up on its payments, or somebody
\* cancels it there at once.
Ends(s) ==
  /\ stripe[s].status \in Lasting
  /\ Becomes("deleted", s, [stripe[s] EXCEPT !.status = "canceled"])
  /\ UNCHANGED <<recorded, invoices, row, planCode, hook, owner, history, faults>>

-----------------------------------------------------------------------------
(* handleWebhook                                                           *)

At(h, pc) == hook[h].pc = pc
Goto(h, pc) == hook' = [hook EXCEPT ![h].pc = pc]
Answer(h) == hook' = [hook EXCEPT ![h] = Waiting]

\* The deliveries h' that have written something and will write more are late once h writes.
Wrote(h, next) ==
  hook' = [g \in Hooks |-> IF g = h THEN next
                           ELSE [hook[g] EXCEPT !.late = @ \/ hook[g].pc \in {"current", "sync"}]]

\* upsertInvoice finds the tenant by the subscription's row or by any row of the customer.
TenantKnown(s) == s \in Rows \/ \E t \in Rows : stripe[t].customer = stripe[s].customer

\* A snapshot or a checkout: what makes a row.
Upserts(e) == events[e].type \in {"created", "updated", "completed"}

\* processEvent: what is done first for an event of this type.
Handled(e) ==
  CASE Upserts(e)                                        -> "upsert"
    [] events[e].type = "deleted" /\ Sub(e) \in Rows     -> "cancel"
    [] events[e].type = "invoice" /\ TenantKnown(Sub(e)) -> "invoice"
    [] OTHER                                             -> "record"

\* The first that is handled of its subscription is an invoice.
TooEarly(e) ==
  events[e].type = "invoice" /\ \A d \in recorded : Sub(d) = Sub(e) => ~Upserts(d)

\* An event that was recorded is answered with success and nothing else is done; nothing is
\* done either when a subscription without a row is deleted, or for an invoice of nobody,
\* which is lost.
Receive(h, e) ==
  /\ At(h, "idle") /\ e \in DOMAIN events \ recorded
  /\ hook' = [hook EXCEPT ![h].pc = Handled(e), ![h].event = e]
  /\ row' = IF Handled(e) = "record" /\ events[e].type = "deleted"
            THEN [row EXCEPT ![Sub(e)].seen = e] ELSE row
  /\ early' = IF TooEarly(e) THEN early \cup {Sub(e)} ELSE early
  /\ UNCHANGED <<stripe, events, recorded, invoices, planCode, owner, mixed, crossed, faults>>

StoreInvoice(h) ==
  /\ At(h, "invoice")
  /\ invoices' = invoices \cup {Sub(hook[h].event)}
  /\ Goto(h, "record")
  /\ UNCHANGED <<stripe, events, recorded, row, planCode, owner, history, faults>>

\* Something older is written over something newer.
Mixes(s, e) == mixed' = IF e < row[s].seen THEN mixed \cup {s} ELSE mixed
Latest(s, e) == IF e < row[s].seen THEN row[s].seen ELSE e

\* resolvePlanId: the plan named in the metadata goes before the one of the price.
ResolvePlan(e) == events[e].plan

\* upsertFromCheckout writes "active" and not whether the subscription ends.
FromCheckout(s, e) ==
  [row[s] EXCEPT !.status = "active", !.plan = ResolvePlan(e), !.seen = Latest(s, e)]
\* upsertFromSubscription writes what the snapshot says.
FromSubscription(s, e) ==
  [row[s] EXCEPT !.status = events[e].status, !.plan = ResolvePlan(e),
                 !.ending = events[e].ending, !.seen = Latest(s, e)]

Upsert(h) ==
  /\ At(h, "upsert")
  /\ LET e == hook[h].event
         s == Sub(e)
         new == IF events[e].type = "completed" THEN FromCheckout(s, e) ELSE FromSubscription(s, e)
     IN  /\ row' = [row EXCEPT ![s] = IF s \in Rows THEN new
                                      ELSE [new EXCEPT !.at = Cardinality(Rows) + 1]]
         /\ Mixes(s, e)
         /\ Wrote(h, [hook[h] EXCEPT !.pc = IF new.status \in Effective THEN "sync" ELSE "record",
                                     !.plan = IF new.status \in Effective THEN new.plan ELSE NoPlan])
  /\ UNCHANGED <<stripe, events, recorded, invoices, planCode, owner, early, crossed, faults>>

\* Mutant of Canceled: the row keeps its status until the period it was paid for has ended.
CanceledLater(r) == [r EXCEPT !.ending = TRUE]
Canceled(r) == [r EXCEPT !.status = "canceled", !.ending = FALSE]

\* deleteSubscription: the row ...
Cancel(h) ==
  /\ At(h, "cancel")
  /\ LET e == hook[h].event
         s == Sub(e)
     IN  /\ row' = [row EXCEPT ![s] = [Canceled(row[s]) EXCEPT !.seen = Latest(s, e)]]
         /\ Mixes(s, e)
  /\ Wrote(h, [hook[h] EXCEPT !.pc = "current"])
  /\ UNCHANGED <<stripe, events, recorded, invoices, planCode, owner, early, crossed, faults>>

\* Mutant of Fallback: the tenant falls back to the free plan at once.
FallbackAlways == Starter
Fallback == IF Current = {} THEN Starter ELSE row[CHOOSE s \in Current : TRUE].plan

\* ... and the plan of what is now the current subscription.
ReadCurrent(h) ==
  /\ At(h, "current")
  /\ hook' = [hook EXCEPT ![h].pc = "sync", ![h].plan = Fallback]
  /\ UNCHANGED <<stripe, events, recorded, invoices, row, planCode, owner, history, faults>>

\* syncTenantPlan.
Sync(h) ==
  /\ At(h, "sync")
  /\ planCode' = hook[h].plan
  /\ crossed' = hook[h].late
  /\ Wrote(h, [hook[h] EXCEPT !.pc = "record", !.plan = NoPlan, !.late = FALSE])
  /\ UNCHANGED <<stripe, events, recorded, invoices, row, owner, mixed, early, faults>>

\* The event's id is unique: the second of two deliveries at once fails, and so is answered.
Record(h) ==
  /\ At(h, "record")
  /\ recorded' = recorded \cup {hook[h].event}
  /\ Answer(h)
  /\ UNCHANGED <<stripe, events, invoices, row, planCode, owner, history, faults>>

\* A statement fails or the server dies: Stripe is not answered with success.
Fault == faults > 0 /\ faults' = faults - 1
HookFails(h) ==
  /\ ~At(h, "idle") /\ Fault
  /\ Answer(h)
  /\ UNCHANGED <<stripe, events, recorded, invoices, row, planCode, owner, history>>

-----------------------------------------------------------------------------
(* cancel and reactivate                                                   *)

\* Both take the newest row on which it is not so yet, canceled ones included.
AskRead(ending) ==
  /\ owner = NoRequest
  /\ \E s \in Newest({t \in Rows : row[t].ending # ending}) :
       owner' = [owner EXCEPT !.pc = "stripe", !.sub = {s}, !.ending = ending]
  /\ UNCHANGED <<stripe, events, recorded, invoices, row, planCode, hook, history, faults>>

\* Stripe refuses a subscription that has ended; it sends an event when something changed.
AskStripe(s) ==
  /\ owner.pc = "stripe" /\ owner.sub = {s}
  /\ IF stripe[s].status = "canceled"
     THEN owner' = NoRequest /\ UNCHANGED <<stripe, events>>
     ELSE /\ IF stripe[s].ending = owner.ending THEN UNCHANGED <<stripe, events>>
             ELSE Becomes("updated", s, [stripe[s] EXCEPT !.ending = owner.ending])
          /\ owner' = [owner EXCEPT !.pc = "write", !.event = Len(events')]
  /\ UNCHANGED <<recorded, invoices, row, planCode, hook, history, faults>>

\* The row is written by id, whatever has been written to it since.
AskWrite(s) ==
  /\ owner.pc = "write" /\ owner.sub = {s}
  /\ row' = [row EXCEPT ![s].ending = owner.ending]
  /\ mixed' = IF owner.event < row[s].seen THEN mixed \cup {s} ELSE mixed
  /\ owner' = NoRequest
  /\ UNCHANGED <<stripe, events, recorded, invoices, planCode, hook, early, crossed, faults>>

AskFails ==
  /\ owner # NoRequest /\ Fault
  /\ owner' = NoRequest
  /\ UNCHANGED <<stripe, events, recorded, invoices, row, planCode, hook, history>>

-----------------------------------------------------------------------------
Init ==
  /\ stripe = [s \in Subs |-> NoSub]
  /\ events = <<>>
  /\ recorded = {} /\ invoices = {}
  /\ row = [s \in Subs |-> NoRow]
  /\ planCode \in Plans \cup {Starter, NoPlan}
  /\ hook = [h \in Hooks |-> Waiting]
  /\ owner = NoRequest
  /\ mixed = {} /\ early = {} /\ crossed = FALSE
  /\ faults = MaxFaults

StripeStep(s) ==
  \/ \E plan \in Plans : Checkout(s, plan)
  \/ \E status \in Lasting : Payment(s, status)
  \/ \E ending \in BOOLEAN : PortalCancels(s, ending)
  \/ \E price \in Plans \cup {Starter} : PortalMoves(s, price)
  \/ Ends(s) \/ \E type \in {"completed", "invoice"} : CheckoutCompletes(s, type)

HookStep(h) == Upsert(h) \/ StoreInvoice(h) \/ Cancel(h) \/ ReadCurrent(h) \/ Sync(h) \/ Record(h)

OwnerStep ==
  \/ \E ending \in BOOLEAN : AskRead(ending)
  \/ \E s \in Subs : AskStripe(s) \/ AskWrite(s)

Next ==
  \/ \E s \in Subs : StripeStep(s)
  \/ \E h \in Hooks : HookStep(h) \/ HookFails(h) \/ \E e \in 1..Len(events) : Receive(h, e)
  \/ OwnerStep \/ AskFails

Spec == Init /\ [][Next]_vars

-----------------------------------------------------------------------------
(* Properties                                                              *)

\* The types, and that a delivery or a request that goes on knows its event or subscription.
TypeOK ==
  /\ stripe \in [Subs -> [status : Statuses, plan : Plans \cup {NoPlan},
                          price : Plans \cup {Starter, NoPlan}, ending : BOOLEAN,
                          customer : SUBSET Subs]]
  /\ events \in Seq([type : {"created", "completed", "invoice", "updated", "deleted"}, sub : Subs,
                     status : Statuses, plan : Plans, price : Plans \cup {Starter, NoPlan},
                     ending : BOOLEAN])
  /\ recorded \subseteq DOMAIN events /\ invoices \subseteq Subs /\ faults \in Nat
  /\ mixed \subseteq Subs /\ early \subseteq Subs /\ crossed \in BOOLEAN
  /\ row \in [Subs -> [status : Statuses, plan : Plans \cup {NoPlan}, ending : BOOLEAN,
                       at : Nat, seen : Nat]]
  /\ planCode \in Plans \cup {Starter, NoPlan}
  /\ hook \in [Hooks -> [pc : {"idle", "upsert", "invoice", "cancel", "current", "sync", "record"},
                         event : Nat, plan : Plans \cup {Starter, NoPlan}, late : BOOLEAN]]
  /\ \A h \in Hooks : ~At(h, "idle") => hook[h].event \in DOMAIN events
  /\ owner \in [pc : {"idle", "stripe", "write"}, sub : SUBSET Subs, ending : BOOLEAN, event : Nat]
  /\ owner.pc # "idle" => \E s \in Rows : owner.sub = {s}

Live(s) == row[s].status \in Lasting
Quiet ==
  /\ recorded = DOMAIN events
  /\ \A h \in Hooks : At(h, "idle")
  /\ owner = NoRequest

\* When everything Stripe has sent is recorded and nothing is in progress, however many
\* deliveries were repeated, overlapped or failed half way: a subscription has the status and
\* the end that Stripe says, and the plan it was sold with whatever the portal has made of its
\* price, unless something older was written over something newer; and its invoice is stored,
\* unless the invoice came before anything of the subscription was recorded.
FollowsStripe ==
  Quiet => \A s \in Subs :
    /\ s \in mixed \/ row[s].status = stripe[s].status
    /\ s \in mixed \/ (Live(s) => row[s].ending = stripe[s].ending)
    /\ s \in Rows => row[s].plan = stripe[s].plan
    /\ (\E e \in recorded : Sub(e) = s /\ events[e].type = "invoice") => s \in invoices \cup early

\* The tenant's plan code is the plan of the effective subscription, when it is the only one
\* that runs; once the last has ended it is the free plan, whatever code the client chose when
\* the workspace was made.  Not so where events were written out of order or the plan code was
\* last written by a delivery that was overtaken.
PlanFollows ==
  Quiet /\ mixed = {} /\ ~crossed =>
    /\ \A s \in Subs :
         row[s].status \in Effective /\ (\A t \in Subs \ {s} : ~Live(t)) => planCode = row[s].plan
    /\ Rows # {} /\ (\A s \in Subs : ~Live(s)) => planCode = Starter

\* The row has the plan that Stripe charges for: not so once the portal has moved the
\* subscription to another price.
PlanIsPaid ==
  Quiet => \A s \in Subs \ mixed : Live(s) => row[s].plan = stripe[s].price

=============================================================================
