----------------------------- MODULE SignInCodes -----------------------------
(***************************************************************************)
(* The account of one e-mail address and the one-time codes mailed to it:  *)
(* to verify the address, to confirm a Google sign-in and to reset the     *)
(* password.                                                               *)
(*                                                                         *)
(* A request takes one statement or transaction per step and holds no lock *)
(* in between: it acts on the code and on the account as it read them.     *)
(* The reads that come before a first write are one step.  Mail is sent    *)
(* without waiting for it: whether a code arrives does not change what the *)
(* server does, so a guess is right or wrong by choice.                    *)
(***************************************************************************)
EXTENDS Naturals, Sequences, FiniteSets

Purposes == {"verify", "reset"}

CONSTANTS
  Requests,     \* requests that may be in progress at the same time
  Production,   \* whether NODE_ENV is "production"
  MaxGuesses,   \* OTP_MAX_ATTEMPTS
  HourlyCap,    \* OTP_RESEND_MAX_PER_HOUR
  MaxCodes      \* bound: how many codes are issued

ASSUME CodeAssumption ==
  /\ Production \in BOOLEAN /\ IsFiniteSet(Requests) /\ Requests # {}
  /\ MaxGuesses \in Nat \ {0} /\ HourlyCap \in Nat \ {0} /\ MaxCodes \in Nat

VARIABLES
  account,  \* app_users: status, whether the address is verified, whether Google is linked
  codes,    \* email_otps in the order of created_at
  req,      \* the requests in progress
  late      \* history: requests that were overtaken by somebody who wrote the account

vars == <<account, codes, req, late>>

\* The age of a code: past OTP_RESEND_COOLDOWN_MS; past the hour that the cap looks back and,
\* with OTP_TTL_MS and PASSWORD_RESET_TTL_MS set to an hour, past its validity.
Cool == 1
Hour == 2

Statuses == {"none", "INVITED", "PENDING_VERIFICATION", "ACTIVE", "SUSPENDED", "DISABLED"}
Blocked  == {"SUSPENDED", "DISABLED"}
Writes   == {"register", "exhaust", "miss", "use", "promote", "spend", "consume", "create", "link",
             "activate"}

Account == [status : Statuses, verified : BOOLEAN, linked : BOOLEAN]
NoAccount == [status |-> "none", verified |-> FALSE, linked |-> FALSE]
\* createInvitation makes a placeholder for an address without an account.
Invited == [NoAccount EXCEPT !.status = "INVITED"]

\* A request remembers the status it read, the code it read and for which purpose; one
\* that creates a code remembers how many there were.
Idle == [pc |-> "idle", status |-> "none", code |-> 0, purpose |-> "verify"]
At(r, pc) == req[r].pc = pc
Busy(q) == req[q] # Idle

Live(p) == {i \in DOMAIN codes : codes[i].purpose = p /\ ~codes[i].consumed}
Newest(p) == CHOOSE i \in Live(p) : \A j \in Live(p) : j <= i

Step(r, pc, code, p) ==
  req' = [req EXCEPT ![r] = [Idle EXCEPT !.pc = pc, !.code = code, !.purpose = p]]
Refuse == UNCHANGED req

Answer(r) == req' = [req EXCEPT ![r] = Idle]

\* Whoever writes the account overtakes the requests that have read it and will write it.
Overtaken(q) == late[q] \/ req[q].pc \in {"register", "promote", "link", "activate"}

Written(r) ==
  /\ Answer(r)
  /\ late' = [q \in Requests |-> q # r /\ Overtaken(q)]

-----------------------------------------------------------------------------
(* Issuing a code                                                          *)

\* Mutant of ConsumeAll: earlier codes stay valid.
KeepAll(cs, p) == cs

\* updateMany: every code of the purpose that is not consumed yet.
ConsumeAll(cs, p) ==
  [i \in DOMAIN cs |-> IF cs[i].purpose = p THEN [cs[i] EXCEPT !.consumed = TRUE] ELSE cs[i]]

NewCode(p) ==
  [purpose |-> p, consumed |-> FALSE, age |-> 0, attempts |-> 0]

\* Bound: codes are left for this request and for those that will create one.
Room ==
  Len(codes) + Cardinality({q \in Requests : req[q].pc \in {"register", "consume", "create"}})
    < MaxCodes

\* resend, resendForSignIn, issuePasswordReset: the hourly cap and the cooldown.
MayIssue(p) ==
  /\ Cardinality({i \in DOMAIN codes : codes[i].purpose = p /\ codes[i].age < Hour}) < HourlyCap
  /\ \A i \in DOMAIN codes : codes[i].purpose = p => codes[i].age >= Cool

\* The pending token of resend and resendForSignIn names an account, whatever its status: one
\* that was invited has signed in with a password it has reset.  Only the first refuses a
\* verified address.
AskCode(r, forSignIn) ==
  /\ ~Busy(r) /\ Room
  /\ account.status # "none"
  /\ IF (forSignIn \/ ~account.verified) /\ MayIssue("verify")
     THEN Step(r, "consume", 0, "verify") ELSE Refuse
  /\ UNCHANGED <<account, codes, late>>

\* forgotPassword: everybody is answered the same; only a code is or is not issued.
ForgotPassword(r) ==
  /\ ~Busy(r) /\ Room
  /\ IF account.status \notin {"none", "DISABLED"} /\ MayIssue("reset")
     THEN Step(r, "consume", 0, "reset") ELSE Refuse
  /\ UNCHANGED <<account, codes, late>>

IssueConsume(r) ==
  /\ At(r, "consume")
  /\ codes' = ConsumeAll(codes, req[r].purpose)
  /\ req' = [req EXCEPT ![r].pc = "create", ![r].code = Len(codes)]
  /\ UNCHANGED <<account, late>>

IssueCreate(r) ==
  /\ At(r, "create")
  /\ codes' = Append(codes, NewCode(req[r].purpose))
  /\ Answer(r)
  /\ UNCHANGED <<account, late>>

-----------------------------------------------------------------------------
(* Registration                                                            *)

RegisterRead(r) ==
  /\ ~Busy(r) /\ Room
  /\ account.status \in {"none", "INVITED"}
  /\ Step(r, "register", 0, "verify")
  /\ UNCHANGED <<account, codes, late>>

\* One transaction: the upsert by e-mail, the earlier codes, the new code.
RegisterWrite(r) ==
  /\ At(r, "register")
  /\ account' = [account EXCEPT !.status = "PENDING_VERIFICATION"]
  /\ codes' = Append(ConsumeAll(codes, "verify"), NewCode("verify"))
  /\ Written(r)

-----------------------------------------------------------------------------
(* Entering a code                                                         *)

\* Mutant of Exhausted: one guess more.
ExhaustedLater(i) == codes[i].attempts > MaxGuesses

Exhausted(i) == codes[i].attempts >= MaxGuesses

\* verify and verifyPasswordReset read the newest code that is not consumed; without one, or
\* when it has expired, nothing changes.  The account was read before.
Enter(r, p, right) ==
  /\ ~Busy(r)
  /\ p = "reset" => account.status \notin {"none", "DISABLED"}
  /\ IF Live(p) = {} \/ \E i \in Live(p) : i = Newest(p) /\ codes[i].age >= Hour
     THEN Refuse
     ELSE Step(r, CASE Exhausted(Newest(p)) -> "exhaust"
                    [] ~Exhausted(Newest(p)) /\ ~right -> "miss"
                    [] ~Exhausted(Newest(p)) /\ right -> IF p = "verify" THEN "use" ELSE "spend",
               Newest(p), p)
  /\ UNCHANGED <<account, codes, late>>

\* Too many guesses: the code is consumed.
Exhaust(r) ==
  /\ At(r, "exhaust")
  /\ codes' = [codes EXCEPT ![req[r].code].consumed = TRUE]
  /\ Answer(r)
  /\ UNCHANGED <<account, late>>

\* A wrong guess: attempts is incremented by id.
Miss(r) ==
  /\ At(r, "miss")
  /\ codes' = [codes EXCEPT ![req[r].code].attempts = @ + 1]
  /\ Answer(r)
  /\ UNCHANGED <<account, late>>

\* verifyPasswordReset consumes the code by id; resetPassword compares the new password with
\* the old one only then.
Spend(r) ==
  /\ At(r, "spend")
  /\ codes' = [codes EXCEPT ![req[r].code].consumed = TRUE]
  /\ Answer(r)
  /\ UNCHANGED <<account, late>>

\* verify reads the status again ...
UseRead(r) ==
  /\ At(r, "use")
  /\ req' = [req EXCEPT ![r].pc = "promote", ![r].status = account.status]
  /\ UNCHANGED <<account, codes, late>>

\* Mutant of Promoted: any account becomes active.
PromotedAlways(was) == [account EXCEPT !.verified = TRUE, !.status = "ACTIVE"]

Promoted(was) ==
  [account EXCEPT !.verified = TRUE,
                  !.status = IF was = "PENDING_VERIFICATION" THEN "ACTIVE" ELSE @]

\* ... and in one transaction consumes the code and promotes the account it read.
Promote(r) ==
  /\ At(r, "promote")
  /\ codes' = [codes EXCEPT ![req[r].code].consumed = TRUE]
  /\ account' = Promoted(req[r].status)
  /\ Written(r)

-----------------------------------------------------------------------------
(* Google sign-in, invitations, workspaces                                 *)

\* loginWithGoogle: a linked account signs in; one that was invited or is verified is linked;
\* an unverified one is refused, and so is a new one: its row has no password, which the
\* schema requires.
GoogleRead(r) ==
  /\ ~Busy(r)
  /\ IF /\ ~account.linked
        /\ account.status = "INVITED" \/ (account.status # "none" /\ account.verified)
     THEN req' = [req EXCEPT ![r].pc = "link", ![r].status = account.status]
     ELSE Refuse
  /\ UNCHANGED <<account, codes, late>>

\* One transaction; the identity is unique, so a second one fails and writes nothing.
GoogleLink(r) ==
  /\ At(r, "link")
  /\ account' = IF account.linked THEN account
                ELSE [status |-> IF req[r].status = "INVITED" THEN "ACTIVE" ELSE req[r].status,
                      verified |-> TRUE, linked |-> TRUE]
  /\ Written(r)
  /\ UNCHANGED <<codes>>

\* joinWorkspace, for an account that somebody has invited: any status but the one it promotes
\* is left alone.
JoinRead(r) ==
  /\ ~Busy(r)
  /\ account.status # "none"
  /\ IF account.status = "PENDING_VERIFICATION" THEN Step(r, "activate", 0, "verify") ELSE Refuse
  /\ UNCHANGED <<account, codes, late>>

\* createWorkspace: outside production the address need not be verified.
WorkspaceRead(r) ==
  /\ ~Busy(r)
  /\ account.status # "none"
  /\ IF account.status = "PENDING_VERIFICATION" /\ (account.verified \/ ~Production)
     THEN Step(r, "activate", 0, "verify") ELSE Refuse
  /\ UNCHANGED <<account, codes, late>>

\* Both promote the account that they read as pending, by id.
Activate(r) ==
  /\ At(r, "activate")
  /\ account' = [account EXCEPT !.status = "ACTIVE", !.verified = TRUE]
  /\ Written(r)
  /\ UNCHANGED <<codes>>

-----------------------------------------------------------------------------
(* Others, and time                                                        *)

\* Nothing in the code blocks an account: it is done in the database.
Block(status) ==
  /\ account.status \notin Blocked \cup {"none"}
  /\ account' = [account EXCEPT !.status = status]
  /\ late' = [q \in Requests |-> Overtaken(q)]
  /\ UNCHANGED <<codes, req>>

\* Time passes: every code there is reaches an age.
Time(age) ==
  /\ \E i \in DOMAIN codes : codes[i].age < age
  /\ codes' = [i \in DOMAIN codes |-> IF codes[i].age < age THEN [codes[i] EXCEPT !.age = age]
                                     ELSE codes[i]]
  /\ UNCHANGED <<account, req, late>>

-----------------------------------------------------------------------------
Init ==
  /\ account \in {NoAccount, Invited}
  /\ codes = <<>>
  /\ req = [r \in Requests |-> Idle]
  /\ late = [r \in Requests |-> FALSE]

IssueStep(r) ==
  \/ \E forSignIn \in BOOLEAN : AskCode(r, forSignIn)
  \/ ForgotPassword(r) \/ IssueConsume(r) \/ IssueCreate(r) \/ RegisterRead(r) \/ RegisterWrite(r)
EnterStep(r) ==
  \/ \E p \in Purposes, right \in BOOLEAN : Enter(r, p, right)
  \/ Exhaust(r) \/ Miss(r) \/ Spend(r) \/ UseRead(r) \/ Promote(r)
AccountStep(r) ==
  \/ GoogleRead(r) \/ GoogleLink(r) \/ JoinRead(r) \/ WorkspaceRead(r) \/ Activate(r)

Next ==
  \/ \E status \in Blocked : Block(status)
  \/ \E age \in {Cool, Hour} : Time(age)
  \/ \E r \in Requests : IssueStep(r) \/ EnterStep(r) \/ AccountStep(r)

Spec == Init /\ [][Next]_vars

-----------------------------------------------------------------------------
(* Properties                                                              *)

Code == [purpose : Purposes, consumed : BOOLEAN, age : 0..Hour, attempts : Nat]

\* The types, and that a request that writes to a code has read one.
TypeOK ==
  /\ account \in Account /\ late \in [Requests -> BOOLEAN]
  /\ codes \in Seq(Code)
  /\ req \in [Requests -> [pc : Writes \cup {"idle"}, status : Statuses, code : Nat,
                           purpose : Purposes]]
  /\ \A r \in Requests :
       req[r].pc \in {"exhaust", "miss", "use", "promote", "spend"} =>
         /\ req[r].code \in DOMAIN codes
         /\ codes[req[r].code].purpose = req[r].purpose

\* A code replaces those issued before it: while a request is creating one, the only valid
\* codes for that purpose are those that others have created since it consumed the earlier.
Superseded ==
  \A r \in Requests : At(r, "create") => \A i \in Live(req[r].purpose) : i > req[r].code

\* A code is not guessed more often than OTP_MAX_ATTEMPTS, but for the guesses that were
\* being checked when the last one was counted.
GuessesBounded ==
  \A i \in DOMAIN codes : codes[i].attempts < MaxGuesses + Cardinality(Requests)

\* Nothing a request does takes back a block, makes an active account wait for its
\* verification (a registration that claims an invitation writes the account by its address)
\* or turns it into an invited one, unless the request was overtaken between its reading and
\* its writing.
StatusStands ==
  [][\/ /\ account.status \in Blocked => account'.status \in Blocked
        /\ account.status = "ACTIVE" => account'.status \in {"ACTIVE"} \cup Blocked
     \/ \E r \in Requests : late[r] /\ Busy(r) /\ ~Busy(r)']_vars

=============================================================================
