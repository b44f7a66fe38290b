--------------------------- MODULE RefreshSessions ---------------------------
(***************************************************************************)
(* The sign-in sessions of one user: refresh tokens that rotate, and all   *)
(* that revokes them (reuse detection, logout, logout of every session,    *)
(* a new password, suspension and removal of the membership).              *)
(*                                                                         *)
(* A request runs one statement or transaction per step.  Where a          *)
(* transaction can be overtaken it takes two: refresh locks the row it     *)
(* claims before it commits, and an UPDATE over many rows picks them by    *)
(* the snapshot its statement began with, waits for their locks, and is    *)
(* blind to rows committed since (READ COMMITTED).                         *)
(***************************************************************************)
EXTENDS Naturals, FiniteSets

CONSTANTS
  Tokens,      \* rows of refresh_tokens that may be created
  Tenants,     \* workspaces the user is a member of
  Requests,    \* requests that may be in progress at the same time
  Ops,         \* the operations requested
  MaxPasswords,\* bound: how often the password may change
  MaxCrash     \* bound: how many requests may die in the middle of their work

AllOps == {"login", "refresh", "logout", "logoutAll", "password", "suspend", "remove"}

ASSUME SessionAssumption ==
  Ops \subseteq AllOps /\ MaxPasswords \in Nat /\ MaxCrash \in Nat

VARIABLES
  token,     \* refresh_tokens: state, tenant; history: the sign-in it goes back to, the password
             \* (by number) that was current then, and the one that was shown, if one was
  member,    \* status of the user's membership of each tenant
  password,  \* how often the password has changed
  req,       \* the requests in progress
  tickets,   \* the selection and pending tokens the user holds: both sign in without a password
  ended,     \* history: the sign-ins that a finished revocation found open
  crashes    \* how many requests may still die

vars == <<token, member, password, req, tickets, ended, crashes>>

TokenStates  == {"NEW", "LIVE", "REVOKED", "GONE"}
MemberStates == {"ACTIVE", "SUSPENDED", "REMOVED", "INVITED"}
Revocations  == {"reuse", "logoutAll", "password", "suspend", "remove"}

NewToken == [state |-> "NEW", tenant |-> {}, login |-> {}, since |-> 0, pw |-> {}]
Idle     == [pc |-> "idle", token |-> {}, tenant |-> {}, pw |-> {}, rows |-> {}, kind |-> {}]

State(t) == token[t].state
At(r, pc) == req[r].pc = pc
Goto(r, pc) == req' = [req EXCEPT ![r].pc = pc]
Answer(r)   == req' = [req EXCEPT ![r] = Idle]

\* Rows that a transaction in progress has updated and not committed.
Locked == UNION {req[r].token : r \in {x \in Requests : At(x, "rotate")}}

\* Bound: a request starts only when a row is left for it and for those in progress.
Inserting == {r \in Requests : req[r].pc \in {"resolve", "issue", "membership", "claim", "rotate"}}
Room == Cardinality({t \in Tokens : State(t) = "NEW"}) > Cardinality(Inserting)

-----------------------------------------------------------------------------
(* Sign-in                                                                 *)

\* login: the password is checked.
LoginVerify(r) ==
  /\ "login" \in Ops
  /\ req[r] = Idle
  /\ Room
  /\ req' = [req EXCEPT ![r].pc = "resolve", ![r].pw = {password}]
  /\ UNCHANGED <<token, member, password, tickets, ended, crashes>>

\* selectWorkspace: the selection token of an earlier answer in place of a password.  It
\* works for 15 minutes (a client that is late is as one that does not ask).
SelectWorkspace(r) ==
  /\ "login" \in Ops
  /\ req[r] = Idle
  /\ Room
  /\ "selection" \in tickets
  /\ req' = [req EXCEPT ![r].pc = "resolve"]
  /\ UNCHANGED <<token, member, password, tickets, ended, crashes>>

Standing == {n \in Tenants : member[n] # "REMOVED"}

\* The token that the answer of a sign-in to tenant n carries, where it does not sign in.
Ticket(n) ==
  CASE member[n] = "INVITED" -> {"pending"}
    [] member[n] = "REMOVED" -> IF Standing = {} THEN {"pending"} ELSE {"selection"}
    [] OTHER                 -> {}

\* resolveAuthState, resolveSelectedWorkspace: only an active membership signs in.
LoginResolve(r, n) ==
  /\ At(r, "resolve")
  /\ IF member[n] = "ACTIVE"
     THEN /\ req' = [req EXCEPT ![r].pc = "issue", ![r].tenant = {n}]
          /\ UNCHANGED tickets
     ELSE /\ Answer(r)
          /\ tickets' = tickets \cup Ticket(n)
  /\ UNCHANGED <<token, member, password, ended, crashes>>

\* Several workspaces and none named: the client is to choose, in another request.
LoginUndecided(r) ==
  /\ At(r, "resolve")
  /\ Cardinality(Standing) > 1
  /\ Answer(r)
  /\ tickets' = tickets \cup {"selection"}
  /\ UNCHANGED <<token, member, password, ended, crashes>>

\* issueSession: a row of its own sign-in.
LoginIssue(r, t) ==
  /\ At(r, "issue")
  /\ State(t) = "NEW"
  /\ token' = [token EXCEPT ![t] = [state |-> "LIVE", tenant |-> req[r].tenant, login |-> {t},
                                    since |-> password, pw |-> req[r].pw]]
  /\ Answer(r)
  /\ UNCHANGED <<member, password, tickets, ended, crashes>>

-----------------------------------------------------------------------------
(* refresh                                                                 *)

\* The row is read by the token's hash. A client may present any token it ever received,
\* again or at the same time; one that has expired is refused and is as if not presented.
RefreshRead(r, t) ==
  /\ "refresh" \in Ops
  /\ req[r] = Idle
  /\ State(t) \in {"LIVE", "REVOKED"} /\ (State(t) = "LIVE" => Room)
  /\ req' = [req EXCEPT ![r].pc = IF State(t) = "LIVE" THEN "membership" ELSE "reuse",
                        ![r].token = {t}, ![r].tenant = token[t].tenant]
  /\ UNCHANGED <<token, member, password, tickets, ended, crashes>>

RefreshMembership(r, n) ==
  /\ At(r, "membership") /\ req[r].tenant = {n}
  /\ IF member[n] = "ACTIVE" THEN Goto(r, "claim") ELSE Answer(r)
  /\ UNCHANGED <<token, member, password, tickets, ended, crashes>>

\* Mutant of RefreshClaim: the token is revoked without looking at revokedAt.
ClaimBlind(r, t) ==
  /\ At(r, "claim") /\ req[r].token = {t} /\ t \notin Locked
  /\ Goto(r, "rotate")
  /\ UNCHANGED <<token, member, password, tickets, ended, crashes>>

\* The conditional update: it waits for a transaction that holds the row, and looks again.
RefreshClaim(r, t) ==
  /\ At(r, "claim") /\ req[r].token = {t} /\ t \notin Locked
  /\ Goto(r, IF State(t) = "LIVE" THEN "rotate" ELSE "reuse")
  /\ UNCHANGED <<token, member, password, tickets, ended, crashes>>

\* Mutant of RefreshRotate: the old token is left as it is.
RotateKeepsOld(r, t, next) ==
  /\ At(r, "rotate") /\ req[r].token = {t}
  /\ State(next) = "NEW"
  /\ token' = [token EXCEPT ![next] = [token[t] EXCEPT !.state = "LIVE"]]
  /\ Answer(r)
  /\ UNCHANGED <<member, password, tickets, ended, crashes>>

\* The end of the transaction: the old token revoked, the new one inserted.
RefreshRotate(r, t, next) ==
  /\ At(r, "rotate") /\ req[r].token = {t}
  /\ State(next) = "NEW"
  /\ token' = [token EXCEPT ![t].state = "REVOKED",
                            ![next] = [token[t] EXCEPT !.state = "LIVE"]]
  /\ Answer(r)
  /\ UNCHANGED <<member, password, tickets, ended, crashes>>

-----------------------------------------------------------------------------
(* Revocation of many tokens                                               *)

\* Mutant of Scope: a new password ends the sessions of the tenant it was changed in only.
ScopeTenant(kind, n) == {t \in Tokens : token[t].tenant = {n} /\ State(t) = "LIVE"}

\* The rows an UPDATE (removal: a DELETE) of this kind, asked for in tenant n, selects.
Scope(kind, n) ==
  {t \in Tokens : /\ kind = "password" \/ token[t].tenant = {n}
                  /\ State(t) \in (IF kind = "remove" THEN {"LIVE", "REVOKED"} ELSE {"LIVE"})}

\* The statement begins: its snapshot is taken.
Select(r, kind, n) ==
  req' = [req EXCEPT ![r] = [Idle EXCEPT !.pc = "revoke", !.tenant = {n}, !.kind = {kind},
                                         !.rows = Scope(kind, n)]]

ReuseSelect(r, n) ==
  /\ At(r, "reuse") /\ req[r].tenant = {n}
  /\ Select(r, "reuse", n)
  /\ UNCHANGED <<token, member, password, tickets, ended, crashes>>

LogoutAllSelect(r, n) ==
  /\ "logoutAll" \in Ops
  /\ req[r] = Idle
  /\ member[n] = "ACTIVE"
  /\ Select(r, "logoutAll", n)
  /\ UNCHANGED <<token, member, password, tickets, ended, crashes>>

\* changePassword, and resetPassword with a code.
PasswordSelect(r, n) ==
  /\ "password" \in Ops
  /\ req[r] = Idle
  /\ password < MaxPasswords
  /\ Select(r, "password", n)
  /\ UNCHANGED <<token, member, password, tickets, ended, crashes>>

\* MembershipService.update to SUSPENDED, and remove.
MemberSelect(r, kind, n) ==
  /\ kind \in Ops \cap {"suspend", "remove"}
  /\ req[r] = Idle
  /\ member[n] # "REMOVED"
  /\ Select(r, kind, n)
  /\ UNCHANGED <<token, member, password, tickets, ended, crashes>>

\* A status that the operation gives the member, or none.
StandingAfter(kind, old) ==
  CASE kind = "suspend" -> "SUSPENDED" [] kind = "remove" -> "REMOVED" [] OTHER -> old

\* The rows are locked, looked at again and changed, and the transaction commits.
Revoke(r, kind, n) ==
  /\ At(r, "revoke") /\ req[r].kind = {kind} /\ req[r].tenant = {n}
  /\ req[r].rows \cap Locked = {}
  /\ token' = [t \in Tokens |->
       IF t \notin req[r].rows THEN token[t]
       ELSE [token[t] EXCEPT !.state = IF kind = "remove" THEN "GONE"
                                       ELSE IF @ = "LIVE" THEN "REVOKED" ELSE @]]
  /\ member' = [member EXCEPT ![n] = StandingAfter(kind, @)]
  /\ password' = password + (IF kind = "password" THEN 1 ELSE 0)
  /\ ended' = ended \cup UNION {token[t].login : t \in req[r].rows}
  /\ Answer(r)
  /\ UNCHANGED <<tickets, crashes>>

-----------------------------------------------------------------------------
(* logout, and the membership coming back                                  *)

LogoutRead(r, t) ==
  /\ "logout" \in Ops
  /\ req[r] = Idle
  /\ State(t) = "LIVE"
  /\ req' = [req EXCEPT ![r].pc = "logout", ![r].token = {t}]
  /\ UNCHANGED <<token, member, password, tickets, ended, crashes>>

\* An update by id: it fails when the row is gone.
LogoutWrite(r, t) ==
  /\ At(r, "logout") /\ req[r].token = {t} /\ t \notin Locked
  /\ token' = [token EXCEPT ![t].state = IF @ = "LIVE" THEN "REVOKED" ELSE @]
  /\ ended' = ended \cup token[t].login
  /\ Answer(r)
  /\ UNCHANGED <<member, password, tickets, crashes>>

\* MembershipService.update to ACTIVE.
Reactivate(r, n) ==
  /\ "suspend" \in Ops
  /\ req[r] = Idle
  /\ member[n] \in {"SUSPENDED", "INVITED"}
  /\ member' = [member EXCEPT ![n] = "ACTIVE"]
  /\ UNCHANGED <<token, password, req, tickets, ended, crashes>>

\* createInvitation for a removed member ...
Invite(r, n) ==
  /\ "remove" \in Ops
  /\ req[r] = Idle
  /\ member[n] = "REMOVED"
  /\ member' = [member EXCEPT ![n] = "INVITED"]
  /\ UNCHANGED <<token, password, req, tickets, ended, crashes>>

\* ... and joinWorkspace, which signs in in the same transaction, with a pending token.
Join(r, n, t) ==
  /\ req[r] = Idle
  /\ member[n] = "INVITED" /\ "pending" \in tickets
  /\ State(t) = "NEW" /\ Room
  /\ member' = [member EXCEPT ![n] = "ACTIVE"]
  /\ token' = [token EXCEPT ![t] = [state |-> "LIVE", tenant |-> {n}, login |-> {t},
                                    since |-> password, pw |-> {}]]
  /\ UNCHANGED <<password, req, tickets, ended, crashes>>

\* The server dies: the transaction in progress is rolled back.
Crash(r) ==
  /\ req[r] # Idle
  /\ crashes > 0
  /\ crashes' = crashes - 1
  /\ Answer(r)
  /\ UNCHANGED <<token, member, password, tickets, ended>>

-----------------------------------------------------------------------------
Init ==
  /\ token = [t \in Tokens |-> NewToken]
  /\ member = [n \in Tenants |-> "ACTIVE"]
  /\ password = 0
  /\ req = [r \in Requests |-> Idle]
  /\ tickets = {}
  /\ ended = {}
  /\ crashes = MaxCrash

RefreshStep(r) ==
  \/ \E t \in Tokens : RefreshRead(r, t) \/ RefreshClaim(r, t)
  \/ \E n \in Tenants : RefreshMembership(r, n) \/ ReuseSelect(r, n)
  \/ \E t, next \in Tokens : RefreshRotate(r, t, next)

SignInStep(r) ==
  \/ LoginVerify(r) \/ SelectWorkspace(r) \/ LoginUndecided(r)
  \/ \E n \in Tenants : LoginResolve(r, n)
  \/ \E t \in Tokens : LoginIssue(r, t) \/ LogoutRead(r, t) \/ LogoutWrite(r, t)

RevokeStep(r) ==
  \E n \in Tenants :
    \/ LogoutAllSelect(r, n) \/ PasswordSelect(r, n)
    \/ \E kind \in Revocations : MemberSelect(r, kind, n) \/ Revoke(r, kind, n)

MemberStep(r) ==
  \E n \in Tenants : Reactivate(r, n) \/ Invite(r, n) \/ \E t \in Tokens : Join(r, n, t)

Step(r) == RefreshStep(r) \/ SignInStep(r) \/ RevokeStep(r)

Next == \E r \in Requests : Step(r) \/ MemberStep(r) \/ Crash(r)

Spec == Init /\ [][Next]_vars

-----------------------------------------------------------------------------
(* Properties                                                              *)

TokenType == token \in [Tokens -> [state : TokenStates, tenant : SUBSET Tenants,
                                   login : SUBSET Tokens, since : Nat, pw : SUBSET Nat]]
ReqType == req \in [Requests -> [pc : {"idle", "resolve", "issue", "membership", "claim", "rotate",
                                       "reuse", "revoke", "logout"},
                                 token : SUBSET Tokens, tenant : SUBSET Tenants, pw : SUBSET Nat,
                                 rows : SUBSET Tokens, kind : SUBSET Revocations]]
TypeOK ==
  /\ TokenType
  /\ member \in [Tenants -> MemberStates]
  /\ password \in Nat
  /\ ReqType
  /\ tickets \subseteq {"selection", "pending"}
  /\ ended \subseteq Tokens
  /\ crashes \in Nat

\* However often a token is presented, at the same time or again, a sign-in never has two
\* refresh tokens that work.
OneTokenPerSignIn ==
  \A s, t \in Tokens :
    State(s) = "LIVE" /\ State(t) = "LIVE" /\ token[s].login = token[t].login => s = t

\* A sign-in that is over is over: no interleaving of refreshes and revocations makes a
\* token of it work again.
Stage(s) == IF \A t \in Tokens : token[t].login # {s} THEN "NONE"
            ELSE IF \E t \in Tokens : token[t].login = {s} /\ State(t) = "LIVE" THEN "OPEN"
            ELSE "OVER"
Session == INSTANCE SignInSession WITH Sessions <- Tokens, stage <- [s \in Tokens |-> Stage(s)]
OverIsOver == Session!Spec

\* With one request at a time, no sign-in that a revocation (or a logout) found open has a
\* token left that works.
RevocationIsFinal == \A t \in Tokens : State(t) = "LIVE" => token[t].login \cap ended = {}

\* With one request at a time, whoever holds a working token may have it: its sign-in is
\* younger than the last new password, in whatever tenant, and showed the current password
\* if it showed one; and it is an active member's, one who comes back starts without any.
\* (A selection or pending token is not asked for the password again: 1198, 486.)
LiveIsEntitled ==
  \A t \in Tokens : State(t) = "LIVE" =>
    /\ token[t].since = password
    /\ token[t].pw \subseteq {password}
    /\ \A n \in Tenants : token[t].tenant = {n} => member[n] = "ACTIVE"

=============================================================================
