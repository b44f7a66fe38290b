# Zoiko Mail: a TLA+ model

This directory holds TLA+ models of the parts of Zoiko Mail where correctness depends on the
order in which things happen. Of the backend (`src/Backend`): outgoing mail and its scheduler,
mailboxes and their storage, background jobs and the deletion of a tenant, provider events,
refresh-token sessions, sign-in codes, memberships, billing, and the settings of a workspace. Of
the frontend (`src/Frontend`): the session that the tabs of a browser share. TLC checks small
instances; TLAPS proves the most important invariants and refinements for every size.
`PROJECT.json` maps every definition to the lines it models and lists the hazards, runs, findings
and theorems.

The backend is Express + Prisma on PostgreSQL. All state is in the database (and a few files);
request handlers and four timer loops (`server.ts`) of one *or several* server instances work on
the same rows. Prisma's transactions run at READ COMMITTED, and the code rarely locks: it reads a
row, awaits something, then updates the row by id, or guards the update with a condition
(`updateMany where status = ...`). Which of the two it does is what most of the properties hang on.
The frontend is a Next.js application. The pages keep nothing of the service; what they share is
the pair of tokens in `localStorage`, which every tab reads and writes without asking the others.

## Inventory

| Component (source below `Backend/src/modules`) | State | Operations | What must hold |
|---|---|---|---|
| Outgoing mail (`mail/mail.service.ts`) | `email_messages`, recipients, mailbox items, send window and warm-up counters of the mailbox | create, update, delete, schedule, cancel, send; scheduler claim, deliver, retry | delivered at most once, to the vetted recipients, to all of them; no message stuck; limits kept |
| Mailboxes (same file) | folder, attachments and their files, storage used and its limit | move, bulk, trash, empty, attach, detach, administer, delete | quarantine is not left by the user; what is used is what is stored; a sent message keeps its attachments |
| Threads (`message`) | none of its own | queries | - |
| Jobs (`job`) | `background_jobs`, export files | enqueue, claim, complete, fail | run by one worker, bounded attempts, no half-done job |
| Lifecycle (`lifecycle`) | `data_lifecycle_requests`, deletion receipts | request, approve, confirm, cancel, export | three stages; one receipt; a cancellation stands |
| Provider mail (`provider-mail`) | imported messages, delivery statuses | SMTP send, IMAP sync | bounded hand-overs, no double import |
| Connector (`connector`) | connected accounts, `provider_events` | callback, claim, process, fail, replay, disconnect | each event handled once, nothing lost, disconnection respected |
| Delivery protection (`delivery-protection`) | suppression list, warm-up stage, bounce and complaint counters | signals, suppress, promote | a signal counts once; promotion step by step |
| Sessions (`auth/auth.service.ts`) | `refresh_tokens` | login, refresh, logout, logout-all, password, reuse detection | one working token per sign-in; a revoked session is over |
| Sign-up and codes (`auth`) | users, `email_otps`, identities | register, verify, resend, reset, Google | guesses bounded, one code valid at a time, a block stands |
| Memberships (`membership`) | `tenant_memberships` | invite, accept, cancel, update, remove | an owner remains; user limit; role boundary |
| Billing (`billing`) | subscriptions, invoices, webhook log, tenant plan | checkout, webhook, cancel, reactivate | what Stripe says is what is stored, whatever is repeated or lost |
| Policies and retention (`policy`) | policy versions, deletions by age | create, activate, evaluate, execute | one active policy per type |
| Domains (`domain`) | DNS status, sending flag | add, diagnose, activate, remove | sending only while verified |
| Support (`support`) | access grants, diagnostics | grant, revoke | one running grant, expiring |
| Tenants, actions, AI, notifications, integrations, users | single rows | create and update | - |
| Audit (`audit`) | append-only log | insert in the callers' transactions | - (enforced by a database trigger) |
| Middleware, capabilities, flags, config | none | - | - |
| Browser session (`Frontend/lib/api-client.ts`, `auth-api.ts`, `tenant-store.ts`) | tokens in `localStorage`, `refreshPromise` of each tab | sign in, call, refresh, retry, log out | the user's own session is held, refreshed once, gone after logout |
| Pages and components (`Frontend/app`, `Frontend/components`) | what was fetched last | show, submit | - |

How they interact: `mail.deliver` asks the policies, the memberships, the suppression list, the
domain and the mailbox's budgets, and queues an `SMTP_SEND` job in its transaction; the job worker
runs provider mail, exports, digests and deletions; the lifecycle routes create the jobs of the
latter two; provider callbacks become events that the event worker applies to recipients,
suppression list, mailbox and account, and to the folders of the message's copies; retention
deletes messages with everybody's copies; memberships and password changes revoke refresh tokens;
invitations and workspaces activate accounts that wait for their code; Stripe's webhooks set the
plan that the user, mailbox and storage limits are read from; the browser's refresh meets the
server's detection of reused tokens.

Hard behaviours: handlers racing the scheduler on one message; several server instances; a
process dying between claim and completion (`shutdown` does not wait for the workers); calls that
fail after they took effect (SMTP, files, Stripe), and database calls whose answer is lost or that
fail where nothing catches them (`server.ts` logs the error and the loop goes on); repeated, overlapping and reordered callbacks;
revocations racing token rotation; two tabs of one browser. The full list, with lines, is under
`hazards` in `PROJECT.json`.

## Plan

Order: what users would lose most first.

1. **Done.** `MailDelivery` (abstract `OutgoingMail`), `TenantJobs` (`TenantDeletion`),
   `RefreshSessions` (`SignInSession`), `ProviderEvents` (`EventInbox`), `TenantMembers`, each with
   its `MC` module, runs and proofs.
2. **Done.** `SignInCodes` (guesses, replacement, blocks) and `Billing` (duplicated, overlapping,
   reordered webhooks).
3. **Done.** `MailboxItems` (quarantine, storage, files, attachments of a sent message),
   `BrowserSession`, and the settings of a workspace: `SupportGrants`, `PolicyVersions`,
   `MailDomains` and `MailboxWarmup`, composed in `TenantSettings`.
4. Open: compose `MailDelivery`'s queueing with the SMTP job of `TenantJobs`, so that a message's
   delivery can be followed from draft to provider.
5. Proofs. **Done:** types of every core module, the safety properties of every run and all four
   refinements. Liveness stays with TLC.

## Modelling conventions

A handler or worker is a process with a program counter. One step is one SQL statement outside a
transaction, one whole transaction, or one call to a file system, the SMTP server or Stripe. What a
step read is kept in the process's record and used by later steps, exactly as the code keeps it in a
local variable across an `await`; guards of later steps are those the statement's `WHERE` has, and
nothing else. A transaction is one step when no other step can see or overtake its middle. Where
READ COMMITTED allows that (a refresh holding a row lock while a revocation waits on it, two
activations that archive before either has committed) it is two steps.

Several reads in a row that only lead to a rejection are merged into one step (the vetting of
`deliver`, which reads policy, memberships, suppression list and domain one after the other).

Time is a Boolean or a small age (`due`, `elapsed`, `newDay`, `Cool`, `Hour`): it has or has not
passed. Payloads, texts, subjects and audit rows are left out. `history` variables are read by no
action and record what the properties speak of. Some count what happened (`sent`, `smtp`,
`ended`, `cut`, `unasked`, `terms`, `activated`, `session`, `reused`). Some name what a failure
left behind: `orphan` (a row claimed by a worker that died or whose query outside of the `try`
failed), `stray` (a file whose writing, removal or worker failed), `unsure` (a transaction whose
answer was lost), `barred` (sessions the server ended). The others mark the
*crossing* that a property excludes, and are set where it happens, not where it does harm:
`overtaken` and `late` (somebody wrote what a request had read), `mixed` (something older was
written over something newer), `early` (an invoice before its subscription), `crossed` (a delivery
that another overtook), `twofold`, `rivals`, `entwined`, `twice` (two requests of one kind
crossed), `blame` (two tabs, or a logout or sign-in and a refresh). A property with such an
exception says what the code keeps for everybody else, and that nothing but the crossing breaks it.

`budget`, `left`, `faults` and `crashes` bound the environment: how often surroundings change,
calls fail and processes die; the bounds are the `Max...` constants.

Actions of *another* component appear where they write what a component reads: membership,
suppression, domain and policy changes in `MailDelivery`, invitation and reactivation in
`RefreshSessions`, the sending and the provider's verdicts in `MailboxItems`.

Each `MC` module declares the model values of its component and its symmetry; the `.cfg` files give
the constants their values.
### MailDelivery (`mail.service.ts`, `delivery-protection.service.ts`)

One author's messages. `msg` is the `email_messages` row, `item` the author's mailbox item,
`rows`/`linked` the recipients, `inbox` the copies, `jobs` the SMTP jobs, `box` the mailbox with its
window and warm-up counters, `world` what is read only. Clients run `CreateDraft`, `UpdateRead/Write`,
`DeleteRead/Write`, `ScheduleRead/Write`, `CancelRead/Write`, `SendRead`; scheduler workers run `Claim`
(conditional on SCHEDULED), `CheckAuthor`, `WorkerRead`; both go on with `Vet`, `ReserveWarmup`,
`ReserveWindow` and `Commit`; a worker's rejection goes through the catch block, `CountAttempts` and
`Settle`. A query may fail in any step: `DeliveryFails` inside `deliver`, which for a worker leads to
the catch block, and `RunFails` around it (the membership, the FAILED update, the two queries of the
catch block), after which the worker goes on with other messages and nobody ever looks at this one:
`orphan` records it, as it records the message of a worker that died.

Facts about the code that the model has and a reader may not expect: the restart branch of the
send window does not check the limit, so one message with more recipients than the limit passes;
budgets are not given back when the delivery fails; a FAILED message can be neither edited, sent
nor deleted; with several instances *and* cancellation the retry count can exceed the limit; no handler of a client carries the status it read
into its write, they all update by id: only the scheduler's claim is conditional. One failure is left out here: a delivery transaction that
commits and whose answer is lost is rescheduled by the catch block although it is SENT, and delivered
again (a finding); lost answers are modelled in `TenantJobs` and `MailboxItems`.

### TenantJobs (`job.service.ts`, `lifecycle.routes.ts`, `provider-mail.service.ts`)

One tenant's job rows, lifecycle requests, receipts and export files. Owners run
`RequestDeletion`, `Approve`, `Confirm`, `Cancel`, each as read and write; workers claim (with SKIP
LOCKED, so two never take the same row), run the handler of the type of job step by step, and end in
`Complete` or `Fail`. Deleting the tenant turns all rows to GONE. Every call can fail: the read of the
claimed row in `Claim`, the queries of `Fail` (both leave the job RUNNING, `orphan`), each transaction
before it commits or after (`Commits`: the answer is lost, `unsure`, and the catch block sets a
COMPLETED job to RETRY), the writing and the removal of files in `ExportSave`, `ExportUnsave` and
`DeletionFiles` (`stray`).

### RefreshSessions (`auth.service.ts`, `membership.service.ts`)

One user's refresh tokens in several workspaces. A token remembers the sign-in it goes back to
(`login`) and the password of that sign-in. `RefreshRead`, `RefreshMembership`, `RefreshClaim` (the
conditional update, holding the row's lock) and `RefreshRotate` (commit) are the rotation;
revocations are `...Select` (the rows of the statement's snapshot) and `Revoke` (once no selected row
is locked). A login verifies the password, resolves the workspace and issues the token; when there are
several workspaces, or only an invitation, it answers with a *ticket* instead (`tickets`: the
selection token, which `SelectWorkspace` trades for a session in a later request, and the pending
token of `Join`), and neither request asks for the password again. A ticket outlives a password
change: a sign-in made with one afterwards is as good as any, so `LiveIsEntitled` speaks of the
password only where one was shown. Access tokens are short-lived and no operation here revokes them; they are not modelled.
A logout that presents an already rotated token leaves the session alive, as in the code, and so
does not count as ending it.

### ProviderEvents (`connector.service.ts`, `delivery-protection.service.ts`)

One connected account and its events. `ReceiveRead/Write` is the callback (a second copy fails on
the unique hash), `Claim` marks an event FAILED with a lock, `Apply` is the processing transaction with
all that signals change, `Refuse` and `Fail` are what throws and the catch block, `LockLapses` lets a
claimed event be taken up again. `Replay...`, `Disconnect`, `Reconnect` and `Release` are people's
actions. A worker that outlives its five-minute lock, or two replays of one dead letter racing a
worker, can apply an event twice: the model has them (`MaxStalls`, several `Replayers`), the passing
run and the theorem exclude them by assumption, because nothing but time keeps them away. An
ordinary event sets an account that waits for re-authorisation to ACTIVE again, and a late ACCEPTED
takes a DELIVERED recipient back to QUEUED: both are in the model and contradict no promise.

### TenantMembers (`membership.service.ts`, `auth.service.ts`, `tenant.service.ts`)

The membership rows of several workspaces. A manager's request (`Add`, `Invite`, `Cancel`, `Update`,
`Remove`) begins with `tenantContext`: the role it will act with is that of the caller's own row *then*
(`by`). Its reads follow one statement per step, in the order of the code: `AddLimit`, `AddRead`,
`InviteRead`, `CancelRead`, `UpdateRead`, `RemoveRead`, `AssertSupport`, `ProtectLastOwner`; its write is by
the row's id and commits with the transaction. Invited people `Accept` or `Join`, people without a
workspace `Create` one. A request that is refused or dies has written nothing, so a refusal is the
only way it needs to stop early. `overtaken` marks a request when another commits a row of the same
workspace, or of the same user, after it has begun to read: the properties say what holds without
that, which is what the code's checks are written for.

Facts a reader may not expect: an expired invitation is *not* set to REMOVED, because the same
transaction then throws and rolls the write back; the link stays on an accepted membership, and
presenting it again is answered and changes nothing; `joinWorkspace` and an update to ACTIVE never
ask for the user limit, and `unasked` counts them; an invitation as SUPPORT may be accepted beside
another support seat; an administrator may overwrite a pending invitation as OWNER. Workspaces
whose plan has no limit are those with a large `UserLimit`. The refresh tokens that some of these
operations revoke are in `RefreshSessions`.

### SignInCodes (`auth.service.ts`)

The account of one e-mail address and its one-time codes. `Register...` is registration (an upsert
and a new code in one transaction); `Issue...` is what `resend`, `resendForSignIn` and
`issuePasswordReset` share, consuming the earlier codes and creating the new one in *two*
statements; `Enter` is `verify` and `verifyPasswordReset`, which read the newest code and go on to
`Miss`, `Exhaust`, `Spend` (a reset) or `UseRead` and `Promote` (a verification). `Google...`,
`JoinRead`, `WorkspaceRead` and `Activate` are the other ways to become active. `Block` is done in
the database: no operation does it. A code's age is past the cooldown, past the hour, or neither.
The count of failed passwords is not modelled. `StatusStands` says which statuses a request that was
not overtaken may change: none takes back a block, and what is ACTIVE stays so or is blocked. The
service does set statuses *forward* from waiting (INVITED, PENDING_VERIFICATION) to ACTIVE, by design.

Facts a reader may not expect: guesses being compared while another is counted are not counted
themselves yet, so more guesses than `OTP_MAX_ATTEMPTS` can be made, by fewer than there are
requests at once; two resends at once leave two codes valid, of which only the newest is looked
at; a new Google account is never created, since its row has no password; a join promotes an
account whose address was never verified.

### Billing (`billing.service.ts`, `billing.routes.ts`)

`stripe` and `events` are Stripe's side, modelled from how the code uses it (external): the
subscriptions as they are and the events in the order in which they happened, each a snapshot.
A subscription carries, in its metadata, the plan it was sold with, and a `price`, what it is charged
for; the billing portal ends it, takes that back (`PortalCancels`) or moves it to another price
(`PortalMoves`), and a trial may begin and end (`Payment`): `active` and `trialing` decide the plan code.
A delivery (`hook`) takes any event in any order, again when it was not answered with success, and
goes through `Receive` (a recorded event is answered at once), `Upsert`, `StoreInvoice`, or `Cancel`
and `ReadCurrent`, then `Sync` (the tenant's plan code) and `Record`; `HookFails` stops it anywhere.
The owner's cancellation and reactivation read a row, ask Stripe and write the row by id.

Facts: the event is recorded after it was processed, so two deliveries of one event overlap; an
older snapshot overwrites a newer one, since nothing compares their times (`mixed`); the plan code
becomes that of the subscription the event is about; an invoice that comes before its
subscription is of nobody, is recorded, and is lost, unless the customer is known (`early`;
`FollowsStripe` says that no other is lost); the metadata goes before the price, so a row keeps the plan
that was sold whatever the portal makes of it (`billing_portal.cfg` shows `PlanIsPaid` violated); the
plan code of a new workspace is what its client asked for (`Init`; the model's `"none"` is any code
that is not a plan's), and stays so until a subscription sets it.

### MailboxItems (`mail.service.ts`, `retention.service.ts`, `delivery-protection.service.ts`)

The folders in which members have messages, the attachments' rows and files, and the storage that
each mailbox counts. A request reads in one step (`...Read`) and writes in a transaction
(`Move`, `Purge`, `EmptyTrash`, `Attach`, `Detach`, `Discard` and `Unlink`, `Limit`, `Drop`, `Send`); retention
(`Retain...`), the scheduler (`Deliver`) and the provider (`Verdict`) run beside them. The file of an
attachment is written before its transaction and deleted after: `Crash` between the two leaves it.
With the server alive, `SaveFails` leaves a part of a file under a name nobody knows, `AttachFails` is a
transaction rolled back *or* committed with its answer lost, followed by the clean-up (which may fail
too), `UnlinkFails` leaves some of the files that were to be deleted, and `RolledBack` is any other
transaction that fails. `FilesHaveRows` says that these, a crash and an overtaken request are the only
ways to a stray file, and a lost answer the only one to a row without its file.

Facts: a FAILED message can be neither edited nor deleted, so its attachments count against the
quota until retention takes them; sending ignores the folder, so a draft in quarantine goes out;
a verdict of "clean" leaves the items in quarantine; quarantined mail may be thrown away and then
restored to the inbox, in two steps; deleting a mailbox and using it again starts with nothing
used although the attachments are still there; two detachments of one attachment can free its
bytes only once, since the row is deleted by id.

### BrowserSession (`Frontend/lib/api-client.ts`, `auth-api.ts`, `tenant-store.ts`)

The tabs of one browser, the pair of tokens in their shared `localStorage` (`store`) and each tab's
`refreshPromise` (`flight`). A call is sent with the access token that was there (`Ask`), is answered
(`EndCall`), or refused because it has run out (`Rejected`): then it waits for the tab's refresh,
starting one if there is none (`TryRefresh`). The server rotates the pair (`Rotate`), finds that it
was rotated before and ends all the user's sessions (`Reuse`), or the answer is lost (`Fail`); the tab
then stores the new pair and sends its waiting calls again (`Refreshed`) or clears the tokens
(`SignedOut`). `SignIn` and `Enter` are a login's request and its answer, `Logout` and `LogoutAll` the
server's part of what the tab sends without waiting. The server's side is that of `RefreshSessions`,
reduced to which pair works; `EndSessions` is everything by which the server ends a user's sessions
without this browser asking it to forget them (a new password, typed here or elsewhere, a reset, a
suspension, a removal, a logout of all elsewhere). The browser keeps its pair then, and its next
refresh is taken for a replay: `barred` records the pairs.

Single flight holds within a tab only. `ReuseExplained` says that the
server takes the browser for a thief only over a pair it had barred itself, after two tabs refreshed
at once or an answer was lost, or when a sign-in or logout crossed a refresh; `StoreIsSession` that
the browser otherwise holds a pair that works.

### TenantSettings: SupportGrants, PolicyVersions, MailDomains, MailboxWarmup

Four small components of a workspace's settings with the same shape: requests (`Calls`) read, then
write by id. `TenantSettings` composes them; each behaviour works at one of the four desks, because
they share no state (`SettingsInit` chooses), which checks all four without multiplying them.

- `SupportGrants` (`support.service.ts`): `CreateRead`, `CreateRevoke`, `CreateInsert` (the running
  grants of the member are revoked, then one is made), `Revoke...`, the console's
  `ConsoleRevokeRead`, expiry, and members who lose or regain their place.
- `PolicyVersions` (`policy.service.ts`): `PolicyCreate...` (the next number is read, the unique key
  refuses a second), `Archive` and `ActivateCommit` (one transaction whose middle others overtake).
  Two activations at once leave two versions ACTIVE, and activating either again changes nothing.
- `MailDomains` (`domain.service.ts`): DNS is asked between `CheckRead` and `CheckWrite`; `Activate...`
  trusts what the row says. `DnsAnswers` may be an answer of before.
- `MailboxWarmup` (`delivery-protection.service.ts`): `Evaluate...` promotes to the stage after the
  one it read *now* (`increment`), on the strength of what it read; `Bounce`, `Reserve` and an
  administrator's `SendingStatus` come in between.

## Abstract specifications

- `OutgoingMail`: a message's life from draft to sent, failed or deleted, delivered at most once
  and final at the end; a schedule can be recalled. Checked and **proved** (while requests for one
  message do not overlap): `MailDelivery!DeliveredOnce`.
- `TenantDeletion`: requested, approved, processing or cancelled, erased under one receipt. Checked
  and **proved** (while the owners' requests for one deletion do not overlap):
  `TenantJobs!ThreeStages`.
- `SignInSession`: a sign-in opens once and is over for good. Checked and **proved**:
  `RefreshSessions!OverIsOver`.
- `EventInbox`: an event is taken in, handled once, or buried and taken up again. Checked and
  **proved** (for punctual workers): `ProviderEvents!HandledOnce`.

## Runs

| Run | Question | Bounds and why they are enough |
|---|---|---|
| `mail_serial` | Is mail delivered once, to everyone vetted, and settled? | One client (an author's requests one after the other, no cancellation), *two* schedulers, one crash, one failing query, one change of the surroundings, two attempts, window of two, warm-up cap of one, two recipients of which one may be external: every rejection, a retry, a query that leaves the message SENDING and the final failure happen. |
| `mail_race` | What survives two racing clients and a scheduler? | All operations, two clients on one message, one failing query, window of one recipient with messages of two: the limit is met, exceeded by one message and reset. |
| `jobs_workers` | Who may leave a job RUNNING; are its effects bounded, its files accounted for, the deletion in three stages; does every job end? | One job of each kind, one owner, two workers, two failing calls, one crash, two attempts: an export runs while the tenant is erased, a job is retried after its effect, a completed one runs again after a lost answer, and a removal fails after the failure that led to it. Of the three other kinds two are queued in a behaviour, as many as there are workers. |
| `sessions_serial` | Are revocations complete, and working tokens entitled, one request at a time? | Four tokens, two workspaces, one password change: a user who is signed in twice in each of two workspaces, who changes the password while holding a ticket and uses the ticket then. |
| `sessions_race` | Can a race revive or fork a session? | Two requests, three tokens, login, refresh, logout, removal, one crash. |
| `provider_events` | Is each event handled once, counted once, settled? | Two events of four types, two callbacks, two workers, one crash, one failing transaction, one action of people (replay, disconnect, reconnect or release), two attempts. |
| `members` | What do the checks on owners, seats and roles keep, and what may a race undo? | Three people, two workspaces with limits of one and two, two requests at a time and three in all, one expiry. Three requests make a second owner and let the two remove each other, invite, suspend and accept, fill the last seat twice. |
| `sign_in_codes` | Does a new code replace the old, are guesses bounded, does a block stand? | Two requests at a time; two codes of either purpose, two guesses: the cooldown, a code superseded, exhaustion, expiry and a guess that races the last one all happen. The hourly cap, which no property is about, would need a third code. |
| `billing` | Do rows, invoices and plan follow Stripe? | Two subscriptions of one plan, three events, two deliveries at a time, two faults, every initial plan code: a checkout, an update (a payment, a trial, the portal) and an end arrive in every order, twice, and half processed; an invoice comes first; a second subscription replaces the first. |
| `mailbox` | Do storage, files, folders and sent attachments stay consistent? | Two members, two messages, two attachments, limits of one and two, two requests at a time and three in all, one crash and one failing transaction or file operation: one request less would not let a detachment overtake what an upload had read. |
| `browser` | Does the browser hold the user's own session? | Two tabs, one user, two calls at a time, three pairs, one refresh lost or refused or one session ended by the server: a sign-in and two rotations, or two sign-ins and one. What a second user adds (that one's pairs are not the other's) is proved for any number of users. |
| `settings` | One grant, one policy in force, checked domains, earned stages? | Three requests at a time, two supporters, three grants, versions, rows and messages counted: one more request than it takes to cross. |

Every run's properties hold; the named crossings are inside the runs and not excluded by the bounds.

Deadlock checking is off: every instance comes to rest when its bounds are used up, and a
service with nothing to do is not an error. Symmetry is used only in runs without liveness.

**Fairness.** Weak fairness of each worker's step: `setInterval` calls the loop again and again, the
awaits of a process that lives return, and a claimed row is not contended. Weak fairness of time
passing (`BecomesDue`, `RetryDue`, `LockLapses`). Nothing is assumed of clients, people, Stripe, DNS, failures or crashes. A worker
that dies is idle and may claim again: `server.ts` is restarted. The components without a run
of their own for liveness are request handlers: nothing in them happens unless somebody asks.

**Counterexamples.** Five more configurations check what a README line, a comment or a test title
says and the code does not keep. TLC finds each violated; they are kept to reproduce the
findings of `PROJECT.json` and are not among its runs.

| Configuration | Module | Violated | What is said |
|---|---|---|---|
| `mail_double_send.cfg` | `MCMailDelivery` | `SingleDelivery` | "duplicate-send protection" (`Backend/README.md:96`) |
| `deletion_cancelled.cfg` | `MCTenantJobs` | `CancelledStands` | a cancelled deletion leaves the tenant (`tests/lifecycle.test.ts:82-84`) |
| `sessions_revoked.cfg` | `MCRefreshSessions` | `RevocationIsFinal` | "logs out every refresh session" (`tests/auth.account-security.test.ts:50`) |
| `provider_disconnected.cfg` | `MCProviderEvents` | `RejectsLaterCallbacks` | "rejects later callbacks" (`tests/connector.test.ts:85`) |
| `billing_portal.cfg` | `MCBilling` | `PlanIsPaid` | "never trust the plan from the client", so the plan is the price's (`billing.service.ts:405-407`) |

The same properties, or the refinements that imply them, hold in the serial runs
(`RevocationIsFinal`, `DeliveredOnce`, `ThreeStages`). The other findings are disagreements met while
modelling that the model shows in the wording of a property that passes.

## What is proved

All theorems are for every number of messages, clients, workers, tokens, events and so on, and every
bound, from the `ASSUME` of the module only (finite sets of addresses and attachments, natural
bounds, disjoint processes, names that are not messages). The proofs are in the `...Proofs` modules,
checked by TLAPS without trust.

An invariant about concurrent handlers is seldom inductive by itself. The strengthening has the same
form nearly everywhere: *what a request has read still holds when it writes, unless somebody wrote it
in between*. It is called `Current`, `Ready`, `ChecksHold` or `Answers` below. Where the code keeps a
property only for requests that do not cross, the crossing is a hypothesis of the theorem, never an
assumption on the constants that no deployment meets; that the property fails without it is a finding
with a counterexample.

| Hypothesis | Says | Without it |
|---|---|---|
| `[]Unhurried` | two clients' requests are about different messages, and the scheduler does not hold a message whose cancellation is being written | a message is sent twice, or goes to recipients nobody vetted (`mail_race`, `mail_double_send.cfg`) |
| `SerialSpec` | a request for sessions begins when no other is in progress; crashes stay | a refresh survives a logout that crossed it (`sessions_revoked.cfg`) |
| `[]OneOwner` | no two owners answer the same deletion request at once | a cancelled deletion goes on (`deletion_cancelled.cfg`) |
| `Punctual` | no worker outlives its lock, and one person replays at a time | an event is handled twice |

`Unhurried` and `OneOwner` speak of states, so they restrict when a request may begin and nothing else:
workers, crashes, retries, faults and the surroundings are free.

- `MailDeliveryProofs`: `TypeCorrect`; `NoMessageStuckSending` (`SendingIsHeld` is inductive together with
  the types: every way out of a worker's attempt goes through `Reject`, which settles the row, or is the death of
  the worker or a failing query around `deliver`, both of which `orphan` records);
  `SendWindowBounded` (inductive: the only growing assignment is guarded by the limit or restarts at
  one message's recipients). Under `[]Unhurried`, from `MailInv`: `VettedIsDelivered`, `EveryoneIsReached`
  and the refinement `MailIsDeliveredOnce`. `MailInv` says what each handler of a message, client or
  worker, knows of its status and its recipients at each step; that a message has at most one worker;
  and that a SENT message has reached each of its recipients and one that may still be sent has
  reached nobody.
- `TenantJobsProofs`: `JobsTypeCorrect`; `JobsRunOnce` (a busy worker's job is RUNNING or its
  tenant gone, and only its own steps change it; that strengthening, `HeldInv`, is needed because
  RUNNING alone does not say *who* may finish the job; a claim or `fail` whose query fails lets go of it
  and makes it an `orphan`); `EffectsAreBounded` and `FilesAreAccounted` from
  `DoneInv` (the attempt in hand has not handed its message over before its first step, has its file
  exactly between the steps that write and that remove or record it unless that is `stray`, and is
  counted); under `[]OneOwner` the refinement `DeletionInThreeStages`
  from `Answers`.
- `SessionProofs`, the server: `SessionsTypeCorrect`; `OneTokenWorks`; `OverForGood`, a refinement. The inductive
  invariant `SessInv` says that a claimed row works and is locked by one refresh until its commit,
  that the rows a sign-in goes back to exist, and that new rows are untouched. Every step is shown
  to be one of four shapes (nothing, some tokens stop working, a sign-in opens, a token rotates);
  invariants and refinement are proved of the shapes. Of `SerialSpec`, from `SerialInv`:
  `LiveTokensAreEntitled` (every token that works is younger than the last password change, and one that
  goes back to a password shown goes back to the present one; a ticket shows none) and `RevokedForGood`; a request whose server died in the middle has left rows
  that are as good as those of one that was never made.
- `SessionProofs`, the browser: `BrowserTypeCorrect` (the types need that a refresh in flight is about a pair the
  server has issued); `NoCallForgotten` (inductive together with the types); `ReuseIsExplained` and
  `StoreHoldsSession` from `SessionInv`, which says which tab may refresh, where a pair that is not stored yet can be,
  and which pairs are live or barred, as long as nothing has crossed.
- `ProviderEventsProofs`: `EventsTypeCorrect`; `EventsHandledOnce`, a refinement under `Punctual`. The invariant
  says that a busy worker's event is FAILED with its lock running
  and has no other worker, and that a replay in progress holds a dead letter: without it `Apply` could
  process an event that is already DONE. `SignalsAreCounted`: with the same invariant the events whose
  status becomes PROCESSED were not so before, and each adds one to the counter of its type.
- `TenantMembersProofs`: `MembersTypeCorrect`; `InvitationsKeepTheirLink` (for any interleaving of writes by
  id: every row that is written is in one of four shapes); `SeatsNeverFarAbove` (the strengthening
  counts, beside the seats taken, those that requests in progress have been granted: each request
  holds at most one, and one is granted only below the limit); `LastOwnerProtected` (what a request
  saw and checked still holds when it writes, unless it was overtaken: `ChecksHold` is that,
  statement by statement); `AdminsStayBelowOwners` (a request of an administrator never carries the
  role of an owner, and the row it saw was not an owner's).
- `SignInCodesProofs`: `CodesTypeCorrect`; `GuessesStayBounded` (the strengthening counts, beside the
  guesses made, the requests that are about to count one: each was let through below the limit, and
  there are never more of them than requests); `EarlierCodesConsumed` (a code that is still valid
  beside one in the making is newer than all that its maker consumed); `StatusesStand` (a request that
  is about to write the account and is not late holds what the account still says, and what it is going
  to write over ACTIVE is ACTIVE). A request either
  goes on to what it has just read or writes and ends; only the first half of issuing a code does both.
- `MailboxItemsProofs`: `MailboxTypeCorrect`; `ItemsStayPut`, `SentStaysComplete`, `FilesAreNamed` and
  `BytesAreAccounted`, the four action properties of the `mailbox` run. `MailboxInv` has three parts: what a
  request of each kind is about (`Shape`); where its files are (`InHand`: an upload's attachment has no row
  yet and is nobody else's, what is going to be deleted belongs to the request's messages or to nothing
  any more); and what a request that was not overtaken has read (`Ready`). The bytes need that the files
  which a deletion has listed are *all* the attachments of its messages, which is why `Watch` looks at
  the attachments and not only at the status.
- `WorkspaceProofs`, the settings: `GrantsReplaced`, `PolicyStaysInForce`, `SendingStaysChecked`, `StagesAreEarned`.
  Each desk of the settings has an invariant of the same form: what a request has read still holds
  when it writes, unless a request of its kind has crossed it. No step of one desk writes another's
  rows, so the four invariants hold together.
- `WorkspaceProofs`, billing: `BillingTypeCorrect`; `RowsFollowStripe` and `PlanIsTheEffectiveOne` from `BillingInv`,
  in which an event is *written* once a delivery has changed the row for it, recorded or not. `Log` says what
  Stripe's events are (the first creates, the last snapshots are what the subscription is, nothing follows
  a deletion, all carry the plan sold). `Follows`: a row is the newest of the events written of it, or (`Spoiled`) something newer
  came while the first event is still to be written. `Asked`: what an owner is about to write is what Stripe
  was told last. `Synced`: the plan code is the right one for the rows (once there are any: before, it is what the client
  chose), or an event that decides it has
  changed a row and is not settled (`Open`), or a row is `Spoiled`. The last two parts cannot last: Stripe
  delivers an event until it is recorded. Receiving an event again changes nothing (`WritingKeeps`):
  if it was written and nothing is mixed, the row says it already.

The type invariants of the modules with proofs are theorems and are not checked by a run as well,
but for that of `MailDelivery`.

Only model-checked: liveness (`DueIsSettled`, `JobsSettle`, `EventsSettle`). TLAPS 1.4 proves no
liveness under fairness.

## Not modelled

The components marked `not_modelled` in `PROJECT.json` and the rest of the `partly` ones: read-only
queries (threads and search, statistics, audit, diagnostics and the platform console), rows that
one request creates or updates and no other operation depends on (labels, flags, profile,
notifications, commitments, AI actions, integrations, workspace settings), stateless code
(middleware, capability tables, OpenAPI descriptions, configuration) and the frontend's pages and
components, which show what the API answers. They are most of the lines of the repository: the
pages, components and OpenAPI text alone are more than half. A model of them would restate
assignments. Inside the modelled components: contents and wording, DNS, OAuth, SMTP and IMAP
protocols, Stripe's own rules beyond what the code relies on, delivery statistics that nothing
reads back, the idempotency keys' format, and the size of batches (a worker takes one row per step,
in any order, where the code takes the oldest).
