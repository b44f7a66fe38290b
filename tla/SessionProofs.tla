---------------------------- MODULE SessionProofs ----------------------------
(***************************************************************************)
(* Proofs about the two ends of a session.                                 *)
(*                                                                         *)
(* The server's, RefreshSessions: its types, that a sign-in never has two  *)
(* refresh tokens that work, and that the rotating tokens implement a      *)
(* session that is over once it is over; and, when requests take turns,    *)
(* that the tokens that work are those of people who may sign in and that  *)
(* what was revoked stays revoked.                                         *)
(*                                                                         *)
(* The browser's, BrowserSession: that no call is forgotten while its tab  *)
(* refreshes, that the server takes the browser for a thief only for a     *)
(* reason, and that the store holds the session the user began.            *)
(*                                                                         *)
(* For every number of tokens, tenants, requests, tabs, users and calls.   *)
(***************************************************************************)
EXTENDS RefreshSessions, BrowserSession, TLAPS

USE SessionAssumption

-----------------------------------------------------------------------------
(* Types                                                                   *)

LEMMA AnswerType ==
  ASSUME ReqType, NEW r \in Requests, Answer(r) PROVE ReqType'
  BY DEF Answer, Idle, ReqType

LEMMA GotoType ==
  ASSUME ReqType, NEW r \in Requests, NEW pc, Goto(r, pc),
         pc \in {"membership", "claim", "rotate", "reuse"}
  PROVE  ReqType'
  BY DEF Goto, ReqType

LEMMA SelectType ==
  ASSUME ReqType, NEW r \in Requests, NEW n \in Tenants, NEW kind \in Revocations,
         Select(r, kind, n)
  PROVE  ReqType'
  BY DEF Select, Scope, Idle, ReqType

LEMMA RefreshType ==
  ASSUME TypeOK, NEW r \in Requests, RefreshStep(r) PROVE TypeOK'
<1>1. ASSUME NEW t \in Tokens, RefreshRead(r, t) PROVE TypeOK'
  <2>1. \/ req' = [req EXCEPT ![r].pc = "membership", ![r].token = {t},
                              ![r].tenant = token[t].tenant]
        \/ req' = [req EXCEPT ![r].pc = "reuse", ![r].token = {t},
                              ![r].tenant = token[t].tenant]
    BY <1>1 DEF RefreshRead
  <2>2. token[t].tenant \in SUBSET Tenants
    BY DEF TypeOK, TokenType
  <2>3. ReqType'
    BY <2>1, <2>2 DEF TypeOK, ReqType
  <2> QED
    BY <1>1, <2>3 DEF RefreshRead, TypeOK, TokenType
<1>2. ASSUME NEW t \in Tokens, RefreshClaim(r, t) PROVE TypeOK'
  <2>1. Goto(r, "rotate") \/ Goto(r, "reuse")
    BY <1>2 DEF RefreshClaim
  <2>2. ReqType'
    BY <2>1, GotoType DEF TypeOK
  <2> QED
    BY <1>2, <2>2 DEF RefreshClaim, TypeOK, TokenType
<1>3. ASSUME NEW n \in Tenants, RefreshMembership(r, n) PROVE TypeOK'
  <2>1. ReqType'
    BY <1>3, GotoType, AnswerType DEF RefreshMembership, TypeOK
  <2> QED
    BY <1>3, <2>1 DEF RefreshMembership, TypeOK, TokenType
<1>4. ASSUME NEW n \in Tenants, ReuseSelect(r, n) PROVE TypeOK'
  <2>1. ReqType'
    BY <1>4, SelectType DEF ReuseSelect, TypeOK, Revocations
  <2> QED
    BY <1>4, <2>1 DEF ReuseSelect, TypeOK, TokenType
<1>5. ASSUME NEW t \in Tokens, NEW next \in Tokens, RefreshRotate(r, t, next) PROVE TypeOK'
  <2>1. ReqType'
    BY <1>5, AnswerType DEF RefreshRotate, TypeOK
  <2>2. TokenType'
    BY <1>5 DEF RefreshRotate, TypeOK, TokenType, TokenStates
  <2> QED
    BY <1>5, <2>1, <2>2 DEF RefreshRotate, TypeOK
<1> QED
  BY <1>1, <1>2, <1>3, <1>4, <1>5 DEF RefreshStep

LEMMA SignInType ==
  ASSUME TypeOK, NEW r \in Requests, SignInStep(r) PROVE TypeOK'
<1>0. CASE LoginVerify(r) \/ SelectWorkspace(r)
  <2>1. ReqType'
    BY <1>0 DEF LoginVerify, SelectWorkspace, TypeOK, ReqType
  <2> QED
    BY <1>0, <2>1 DEF LoginVerify, SelectWorkspace, TypeOK, TokenType
<1>1. CASE LoginUndecided(r)
  <2>1. ReqType'
    BY <1>1, AnswerType DEF LoginUndecided, TypeOK
  <2> QED
    BY <1>1, <2>1 DEF LoginUndecided, TypeOK, TokenType
<1>2. ASSUME NEW n \in Tenants, LoginResolve(r, n) PROVE TypeOK'
  <2>1. req' = [req EXCEPT ![r].pc = "issue", ![r].tenant = {n}] \/ Answer(r)
    BY <1>2 DEF LoginResolve
  <2>2. ReqType'
    BY <2>1, AnswerType DEF TypeOK, ReqType
  <2>3. (tickets \subseteq {"selection", "pending"})'
    <3>1. Ticket(n) \subseteq {"selection", "pending"}
      BY DEF Ticket, TypeOK, MemberStates
    <3> QED
      BY <1>2, <3>1 DEF LoginResolve, TypeOK
  <2> QED
    BY <1>2, <2>2, <2>3 DEF LoginResolve, TypeOK, TokenType
<1>3. ASSUME NEW t \in Tokens, LoginIssue(r, t) PROVE TypeOK'
  <2>1. ReqType'
    BY <1>3, AnswerType DEF LoginIssue, TypeOK
  <2>2. TokenType'
    BY <1>3 DEF LoginIssue, TypeOK, TokenType, TokenStates, ReqType
  <2> QED
    BY <1>3, <2>1, <2>2 DEF LoginIssue, TypeOK
<1>4. ASSUME NEW t \in Tokens, LogoutRead(r, t) PROVE TypeOK'
  <2>1. ReqType'
    BY <1>4 DEF LogoutRead, TypeOK, ReqType
  <2> QED
    BY <1>4, <2>1 DEF LogoutRead, TypeOK, TokenType
<1>5. ASSUME NEW t \in Tokens, LogoutWrite(r, t) PROVE TypeOK'
  <2>1. ReqType'
    BY <1>5, AnswerType DEF LogoutWrite, TypeOK
  <2>2. TokenType'
    BY <1>5 DEF LogoutWrite, TypeOK, TokenType, TokenStates
  <2>3. (ended \subseteq Tokens)'
    BY <1>5 DEF LogoutWrite, TypeOK, TokenType
  <2> QED
    BY <1>5, <2>1, <2>2, <2>3 DEF LogoutWrite, TypeOK
<1> QED
  BY <1>0, <1>1, <1>2, <1>3, <1>4, <1>5 DEF SignInStep

LEMMA RevokeType ==
  ASSUME TypeOK, NEW r \in Requests, RevokeStep(r) PROVE TypeOK'
<1>1. ASSUME NEW n \in Tenants, LogoutAllSelect(r, n) PROVE TypeOK'
  <2>1. ReqType'
    BY <1>1, SelectType DEF LogoutAllSelect, TypeOK, Revocations
  <2> QED
    BY <1>1, <2>1 DEF LogoutAllSelect, TypeOK, TokenType
<1>2. ASSUME NEW n \in Tenants, PasswordSelect(r, n) PROVE TypeOK'
  <2>1. ReqType'
    BY <1>2, SelectType DEF PasswordSelect, TypeOK, Revocations
  <2> QED
    BY <1>2, <2>1 DEF PasswordSelect, TypeOK, TokenType
<1>3. ASSUME NEW n \in Tenants, NEW kind \in Revocations, MemberSelect(r, kind, n) PROVE TypeOK'
  <2>1. ReqType'
    BY <1>3, SelectType DEF MemberSelect, TypeOK
  <2> QED
    BY <1>3, <2>1 DEF MemberSelect, TypeOK, TokenType
<1>4. ASSUME NEW n \in Tenants, NEW kind \in Revocations, Revoke(r, kind, n) PROVE TypeOK'
  <2>1. ReqType'
    BY <1>4, AnswerType DEF Revoke, TypeOK
  <2>2. TokenType'
    BY <1>4 DEF Revoke, TypeOK, TokenType, TokenStates
  <2>3. (member \in [Tenants -> MemberStates])'
    BY <1>4 DEF Revoke, TypeOK, StandingAfter, MemberStates
  <2>4. (password \in Nat)'
    BY <1>4 DEF Revoke, TypeOK
  <2>5. (ended \subseteq Tokens)'
    BY <1>4 DEF Revoke, TypeOK, TokenType, ReqType
  <2> QED
    BY <1>4, <2>1, <2>2, <2>3, <2>4, <2>5 DEF Revoke, TypeOK
<1> QED
  BY <1>1, <1>2, <1>3, <1>4 DEF RevokeStep

LEMMA OtherType ==
  ASSUME TypeOK, NEW r \in Requests, MemberStep(r) \/ Crash(r) PROVE TypeOK'
<1>1. ASSUME NEW n \in Tenants, Reactivate(r, n) \/ Invite(r, n) PROVE TypeOK'
  BY <1>1 DEF Reactivate, Invite, TypeOK, MemberStates, TokenType, ReqType
<1>2. ASSUME NEW n \in Tenants, NEW t \in Tokens, Join(r, n, t) PROVE TypeOK'
  <2>1. TokenType'
    BY <1>2 DEF Join, TypeOK, TokenType, TokenStates
  <2> QED
    BY <1>2, <2>1 DEF Join, TypeOK, MemberStates, ReqType
<1>3. CASE Crash(r)
  <2>1. ReqType'
    BY <1>3, AnswerType DEF Crash, TypeOK
  <2> QED
    BY <1>3, <2>1 DEF Crash, TypeOK, TokenType
<1> QED
  BY <1>1, <1>2, <1>3 DEF MemberStep

\* Every reachable state of the sessions' rows and requests has its type.
THEOREM SessionsTypeCorrect == Spec => []TypeOK
<1>1. Init => TypeOK
  BY DEF Init, TypeOK, TokenType, ReqType, NewToken, Idle, TokenStates, MemberStates
<1>2. TypeOK /\ [Next]_vars => TypeOK'
  <2>1. ASSUME TypeOK, UNCHANGED vars PROVE TypeOK'
    BY <2>1 DEF vars, TypeOK, TokenType, ReqType
  <2> QED
    BY <2>1, RefreshType, SignInType, RevokeType, OtherType DEF Next, Step
<1> QED
  BY <1>1, <1>2, PTL DEF Spec

-----------------------------------------------------------------------------
(* The inductive invariant                                                 *)

\* The token a refresh has claimed works until its transaction ends ...
Claimed == \A r \in Requests : At(r, "rotate") => \E t \in Tokens : req[r].token = {t} /\ State(t) = "LIVE"

\* ... and no two transactions hold the same one.
Alone ==
  \A q, r \in Requests :
    At(q, "rotate") /\ At(r, "rotate") /\ q # r => req[q].token \cap req[r].token = {}

\* A sign-in is named by the row it created, so rows not yet created belong to none.
Rooted ==
  /\ \A t \in Tokens : State(t) = "NEW" => token[t].login = {}
  /\ \A s, t \in Tokens : token[t].login = {s} => State(s) # "NEW"

RowInv  == Claimed /\ Alone /\ Rooted
SessInv == TypeOK /\ RowInv

\* What a step does to the rows: nothing, a new sign-in, a rotation, or some are revoked
\* or deleted; and to the claims: it drops some, or makes one.
KeepsClaims == \A q \in Requests : At(q, "rotate")' => At(q, "rotate") /\ req'[q].token = req[q].token

Issued(t) ==
  /\ State(t) = "NEW" /\ State(t)' = "LIVE" /\ token'[t].login = {t}
  /\ \A s \in Tokens \ {t} : token'[s] = token[s]

Rotated(t, next) ==
  /\ State(t) = "LIVE" /\ State(next) = "NEW"
  /\ token'[t].login = token[t].login /\ State(t)' = "REVOKED"
  /\ token'[next].login = token[t].login /\ State(next)' = "LIVE"
  /\ \A s \in Tokens \ {t, next} : token'[s] = token[s]
  /\ \A q \in Requests : At(q, "rotate")' => req[q].token # {t}

Declined ==
  \A t \in Tokens :
    /\ token'[t].login = token[t].login
    /\ State(t)' = State(t) \/ State(t)' \in {"REVOKED", "GONE"}
    /\ t \in Locked => State(t)' = State(t)

ClaimMade == \E r \in Requests, t \in Tokens : RefreshClaim(r, t) /\ At(r, "rotate")'

Shape ==
  \/ token' = token /\ ClaimMade
  \/ /\ KeepsClaims
     /\ \/ token' = token
        \/ \E t \in Tokens : Issued(t)
        \/ \E t, next \in Tokens : Rotated(t, next)
        \/ Declined

\* A request that is answered, or that goes on without claiming, keeps the other claims.
LEMMA MoveKeepsClaims ==
  ASSUME TypeOK, NEW r \in Requests, NEW x,
         req' = [req EXCEPT ![r] = x], x.pc # "rotate"
  PROVE  KeepsClaims
<1>1. ASSUME NEW q \in Requests, At(q, "rotate")'
      PROVE  At(q, "rotate") /\ req'[q].token = req[q].token
  <2>1. q # r
    BY <1>1 DEF At, TypeOK, ReqType
  <2>2. req'[q] = req[q]
    BY <2>1 DEF TypeOK, ReqType
  <2> QED
    BY <1>1, <2>2 DEF At
<1> QED
  BY <1>1 DEF KeepsClaims

LEMMA AnswerKeepsClaims ==
  ASSUME TypeOK, NEW r \in Requests, Answer(r) PROVE KeepsClaims
<1>1. Idle.pc # "rotate"
  BY DEF Idle
<1> QED
  BY <1>1, MoveKeepsClaims DEF Answer

LEMMA GotoKeepsClaims ==
  ASSUME TypeOK, NEW r \in Requests, NEW pc, Goto(r, pc), pc # "rotate" PROVE KeepsClaims
  BY DEF Goto, KeepsClaims, At, TypeOK, ReqType

LEMMA SelectKeepsClaims ==
  ASSUME TypeOK, NEW r \in Requests, NEW n \in Tenants, NEW kind \in Revocations,
         Select(r, kind, n)
  PROVE  KeepsClaims
<1> DEFINE x == [Idle EXCEPT !.pc = "revoke", !.tenant = {n}, !.kind = {kind},
                            !.rows = Scope(kind, n)]
<1>1. x.pc # "rotate"
  BY DEF Idle
<1>2. req' = [req EXCEPT ![r] = x]
  BY DEF Select
<1> HIDE DEF x
<1> QED
  BY <1>1, <1>2, MoveKeepsClaims

LEMMA RefreshShape ==
  ASSUME SessInv, NEW r \in Requests, RefreshStep(r) PROVE Shape
<1> USE DEF SessInv
<1>1. ASSUME NEW t \in Tokens, RefreshRead(r, t) PROVE Shape
  <2>1. KeepsClaims
    BY <1>1 DEF RefreshRead, KeepsClaims, At, TypeOK, ReqType
  <2> QED
    BY <1>1, <2>1 DEF RefreshRead, Shape
<1>2. ASSUME NEW t \in Tokens, RefreshClaim(r, t) PROVE Shape
  <2>1. CASE Goto(r, "rotate")
    <3>1. At(r, "rotate")'
      BY <2>1 DEF Goto, At, TypeOK, ReqType
    <3> QED
      BY <1>2, <3>1 DEF RefreshClaim, Shape, ClaimMade
  <2>2. CASE Goto(r, "reuse")
    BY <1>2, <2>2, GotoKeepsClaims DEF RefreshClaim, Shape
  <2> QED
    BY <1>2, <2>1, <2>2 DEF RefreshClaim
<1>3. ASSUME NEW n \in Tenants, RefreshMembership(r, n) PROVE Shape
  BY <1>3, GotoKeepsClaims, AnswerKeepsClaims DEF RefreshMembership, Shape
<1>4. ASSUME NEW n \in Tenants, ReuseSelect(r, n) PROVE Shape
  BY <1>4, SelectKeepsClaims DEF ReuseSelect, Shape, Revocations
<1>5. ASSUME NEW t \in Tokens, NEW next \in Tokens, RefreshRotate(r, t, next) PROVE Shape
  <2>1. KeepsClaims
    BY <1>5, AnswerKeepsClaims DEF RefreshRotate
  <2>2. State(t) = "LIVE"
    BY <1>5 DEF RefreshRotate, RowInv, Claimed
  <2>3. \A q \in Requests : At(q, "rotate")' => req[q].token # {t}
    BY <1>5 DEF RefreshRotate, Answer, Idle, At, RowInv, Alone, TypeOK, ReqType
  <2>4. Rotated(t, next)
    BY <1>5, <2>2, <2>3 DEF RefreshRotate, Rotated, State, TypeOK, TokenType
  <2> QED
    BY <2>1, <2>4 DEF Shape
<1> QED
  BY <1>1, <1>2, <1>3, <1>4, <1>5 DEF RefreshStep

LEMMA SignInShape ==
  ASSUME SessInv, NEW r \in Requests, SignInStep(r) PROVE Shape
<1> USE DEF SessInv
<1>0. CASE LoginVerify(r) \/ SelectWorkspace(r)
  <2>1. KeepsClaims
    BY <1>0 DEF LoginVerify, SelectWorkspace, KeepsClaims, At, TypeOK, ReqType
  <2> QED
    BY <1>0, <2>1 DEF LoginVerify, SelectWorkspace, Shape
<1>1. CASE LoginUndecided(r)
  BY <1>1, AnswerKeepsClaims DEF LoginUndecided, Shape
<1>2. ASSUME NEW n \in Tenants, LoginResolve(r, n) PROVE Shape
  <2>1. CASE req' = [req EXCEPT ![r].pc = "issue", ![r].tenant = {n}]
    BY <1>2, <2>1 DEF LoginResolve, Shape, KeepsClaims, At, TypeOK, ReqType
  <2>2. CASE Answer(r)
    BY <1>2, <2>2, AnswerKeepsClaims DEF LoginResolve, Shape
  <2> QED
    BY <1>2, <2>1, <2>2 DEF LoginResolve
<1>3. ASSUME NEW t \in Tokens, LoginIssue(r, t) PROVE Shape
  <2>1. Issued(t)
    BY <1>3 DEF LoginIssue, Issued, State, TypeOK, TokenType
  <2> QED
    BY <1>3, <2>1, AnswerKeepsClaims DEF LoginIssue, Shape
<1>4. ASSUME NEW t \in Tokens, LogoutRead(r, t) PROVE Shape
  <2>1. KeepsClaims
    BY <1>4 DEF LogoutRead, KeepsClaims, At, TypeOK, ReqType
  <2> QED
    BY <1>4, <2>1 DEF LogoutRead, Shape
<1>5. ASSUME NEW t \in Tokens, LogoutWrite(r, t) PROVE Shape
  <2>1. Declined
    BY <1>5 DEF LogoutWrite, Declined, State, TypeOK, TokenType
  <2> QED
    BY <1>5, <2>1, AnswerKeepsClaims DEF LogoutWrite, Shape
<1> QED
  BY <1>0, <1>1, <1>2, <1>3, <1>4, <1>5 DEF SignInStep

LEMMA RevokeShape ==
  ASSUME SessInv, NEW r \in Requests, RevokeStep(r) PROVE Shape
<1> USE DEF SessInv
<1>1. ASSUME NEW n \in Tenants, LogoutAllSelect(r, n) PROVE Shape
  BY <1>1, SelectKeepsClaims DEF LogoutAllSelect, Shape, Revocations
<1>2. ASSUME NEW n \in Tenants, PasswordSelect(r, n) PROVE Shape
  BY <1>2, SelectKeepsClaims DEF PasswordSelect, Shape, Revocations
<1>3. ASSUME NEW n \in Tenants, NEW kind \in Revocations, MemberSelect(r, kind, n) PROVE Shape
  BY <1>3, SelectKeepsClaims DEF MemberSelect, Shape
<1>4. ASSUME NEW n \in Tenants, NEW kind \in Revocations, Revoke(r, kind, n) PROVE Shape
  <2>1. Declined
    BY <1>4 DEF Revoke, Declined, State, TypeOK, TokenType
  <2> QED
    BY <1>4, <2>1, AnswerKeepsClaims DEF Revoke, Shape
<1> QED
  BY <1>1, <1>2, <1>3, <1>4 DEF RevokeStep

LEMMA OtherShape ==
  ASSUME SessInv, NEW r \in Requests, MemberStep(r) \/ Crash(r) PROVE Shape
<1> USE DEF SessInv
<1>1. ASSUME UNCHANGED req PROVE KeepsClaims
  BY <1>1 DEF KeepsClaims, At
<1>2. ASSUME NEW n \in Tenants, Reactivate(r, n) \/ Invite(r, n) PROVE Shape
  BY <1>1, <1>2 DEF Reactivate, Invite, Shape
<1>3. ASSUME NEW n \in Tenants, NEW t \in Tokens, Join(r, n, t) PROVE Shape
  <2>1. Issued(t)
    BY <1>3 DEF Join, Issued, State, TypeOK, TokenType
  <2> QED
    BY <1>1, <1>3, <2>1 DEF Join, Shape
<1>4. CASE Crash(r)
  BY <1>4, AnswerKeepsClaims DEF Crash, Shape
<1> QED
  BY <1>2, <1>3, <1>4 DEF MemberStep

LEMMA NextShape ==
  ASSUME SessInv, [Next]_vars PROVE Shape
<1>1. CASE UNCHANGED vars
  BY <1>1 DEF vars, Shape, KeepsClaims, At
<1>2. CASE Next
  BY <1>2, RefreshShape, SignInShape, RevokeShape, OtherShape DEF Next, Step
<1> QED
  BY <1>1, <1>2

LEMMA ShapeRows ==
  ASSUME SessInv, Shape PROVE RowInv'
<1> USE DEF SessInv
<1>1. CASE token' = token /\ ClaimMade
  <2>1. PICK r \in Requests, t \in Tokens : RefreshClaim(r, t) /\ At(r, "rotate")'
    BY <1>1 DEF ClaimMade
  <2>2. Goto(r, "rotate") /\ State(t) = "LIVE" /\ req[r].token = {t} /\ t \notin Locked
    BY <2>1 DEF RefreshClaim, Goto, At, TypeOK, ReqType
  <2>3. \A q \in Requests : /\ req'[q].token = req[q].token
                            /\ At(q, "rotate")' => At(q, "rotate") \/ q = r
    BY <2>2 DEF Goto, At, TypeOK, ReqType
  <2>4. \A q \in Requests : At(q, "rotate") => t \notin req[q].token
    BY <2>2 DEF Locked
  <2>5. Claimed'
    BY <1>1, <2>2, <2>3 DEF RowInv, Claimed, State
  <2>6. Alone'
    BY <2>2, <2>3, <2>4 DEF RowInv, Alone
  <2>7. Rooted'
    BY <1>1 DEF RowInv, Rooted, State
  <2> QED
    BY <2>5, <2>6, <2>7 DEF RowInv
<1>2. ASSUME KeepsClaims PROVE Alone'
  BY <1>2 DEF RowInv, Alone, KeepsClaims
<1>3. CASE KeepsClaims /\ token' = token
  BY <1>2, <1>3 DEF RowInv, Claimed, Rooted, KeepsClaims, State
<1>4. ASSUME KeepsClaims, NEW t \in Tokens, Issued(t) PROVE RowInv'
  <2>1. Claimed'
    BY <1>4 DEF RowInv, Claimed, KeepsClaims, Issued, State
  <2>2. Rooted'
    BY <1>4 DEF RowInv, Rooted, Issued, State
  <2> QED
    BY <1>2, <1>4, <2>1, <2>2 DEF RowInv
<1>5. ASSUME KeepsClaims, NEW t \in Tokens, NEW next \in Tokens, Rotated(t, next) PROVE RowInv'
  <2>1. Claimed'
    BY <1>5 DEF RowInv, Claimed, KeepsClaims, Rotated, State
  <2>2. Rooted'
    BY <1>5 DEF RowInv, Rooted, Rotated, State
  <2> QED
    BY <1>2, <1>5, <2>1, <2>2 DEF RowInv
<1>6. CASE KeepsClaims /\ Declined
  <2>1. Claimed'
    BY <1>6 DEF RowInv, Claimed, KeepsClaims, Declined, Locked, State
  <2>2. Rooted'
    BY <1>6 DEF RowInv, Rooted, Declined, State
  <2> QED
    BY <1>2, <1>6, <2>1, <2>2 DEF RowInv
<1> QED
  BY <1>1, <1>3, <1>4, <1>5, <1>6 DEF Shape

LEMMA SessInvHolds == Spec => []SessInv
<1>1. Init => RowInv
  <2> SUFFICES ASSUME Init PROVE RowInv
    OBVIOUS
  <2>1. \A r \in Requests : ~At(r, "rotate")
    BY DEF Init, At, Idle
  <2>2. \A t \in Tokens : State(t) = "NEW" /\ token[t].login = {}
    BY DEF Init, State, NewToken
  <2>3. Rooted
    BY <2>2 DEF Rooted
  <2> QED
    BY <2>1, <2>3 DEF RowInv, Claimed, Alone
<1>2. TypeOK /\ TypeOK' /\ RowInv /\ [Next]_vars => RowInv'
  BY NextShape, ShapeRows DEF SessInv
<1>3. Spec => [](TypeOK /\ RowInv)
  BY <1>1, <1>2, SessionsTypeCorrect, PTL DEF Spec
<1> QED
  BY <1>3, PTL DEF SessInv

-----------------------------------------------------------------------------
(* One token, and one life, per sign-in                                    *)

LEMMA ShapeOneToken ==
  ASSUME SessInv, OneTokenPerSignIn, Shape PROVE OneTokenPerSignIn'
<1> USE DEF SessInv
<1>1. CASE token' = token
  BY <1>1 DEF OneTokenPerSignIn, State
<1>2. ASSUME NEW t \in Tokens, Issued(t) PROVE OneTokenPerSignIn'
  BY <1>2 DEF OneTokenPerSignIn, Issued, RowInv, Rooted, State
<1>3. ASSUME NEW t \in Tokens, NEW next \in Tokens, Rotated(t, next) PROVE OneTokenPerSignIn'
  BY <1>3 DEF OneTokenPerSignIn, Rotated, State
<1>4. CASE Declined
  BY <1>4 DEF OneTokenPerSignIn, Declined, State
<1> QED
  BY <1>1, <1>2, <1>3, <1>4 DEF Shape

\* However many requests present a sign-in's tokens, at the same time or again, at most one
\* of them works at any time.
THEOREM OneTokenWorks == Spec => []OneTokenPerSignIn
<1>1. Init => OneTokenPerSignIn
  BY DEF Init, OneTokenPerSignIn, NewToken, State
<1>2. SessInv /\ OneTokenPerSignIn /\ [Next]_vars => OneTokenPerSignIn'
  BY NextShape, ShapeOneToken
<1> QED
  BY <1>1, <1>2, SessInvHolds, PTL DEF Spec

Stages == [s \in Tokens |-> Stage(s)]

\* Rows that only change to a state that does not work end the sign-ins they were the last
\* working row of.
LEMMA DeclinedEnds ==
  ASSUME Declined PROVE \E S \in SUBSET Tokens : Session!End(S)
<1> DEFINE S == {s \in Tokens : Stage(s) = "OPEN" /\ Stage(s)' # "OPEN"}
<1>1. ASSUME NEW s \in Tokens
      PROVE  /\ Stage(s) = "NONE" => Stage(s)' = "NONE"
             /\ Stage(s) = "OVER" => Stage(s)' = "OVER"
             /\ Stage(s) = "OPEN" => Stage(s)' \in {"OPEN", "OVER"}
  BY DEF Declined, Stage, State
<1>2. \A s \in Tokens : Stage(s) \in {"NONE", "OPEN", "OVER"}
  BY DEF Stage
<1>3. \A s \in Tokens : Stage(s)' = IF s \in S THEN "OVER" ELSE Stage(s)
  BY <1>1, <1>2
<1>4. Stages' = [s \in Tokens |-> IF s \in S THEN "OVER" ELSE Stages[s]]
  BY <1>3 DEF Stages
<1>5. \A s \in S : Stages[s] = "OPEN"
  BY DEF Stages
<1> QED
  BY <1>4, <1>5 DEF Session!End, Stages

LEMMA IssuedOpens ==
  ASSUME SessInv, NEW t \in Tokens, Issued(t) PROVE Session!Open(t)
<1>1. Stage(t) = "NONE" /\ Stage(t)' = "OPEN"
  BY DEF Issued, SessInv, RowInv, Rooted, Stage, State
<1>2. ASSUME NEW s \in Tokens, s # t PROVE Stage(s)' = Stage(s)
  <2>1. \A x \in Tokens : token'[x].login = {s} <=> token[x].login = {s}
    BY <1>2 DEF Issued, SessInv, RowInv, Rooted
  <2>2. \A x \in Tokens : token'[x].login = {s} => token'[x] = token[x]
    BY <1>2 DEF Issued
  <2> QED
    BY <2>1, <2>2 DEF Stage, State
<1>3. Stages' = [Stages EXCEPT ![t] = "OPEN"]
  BY <1>1, <1>2 DEF Stages
<1> QED
  BY <1>1, <1>3 DEF Session!Open, Stages

LEMMA RotatedStutters ==
  ASSUME SessInv, NEW t \in Tokens, NEW next \in Tokens, Rotated(t, next)
  PROVE  Stages' = Stages
<1>1. ASSUME NEW s \in Tokens PROVE Stage(s)' = Stage(s)
  <2>1. token[next].login = {}
    BY DEF Rotated, SessInv, RowInv, Rooted
  <2>2. CASE token[t].login = {s}
    BY <2>2 DEF Rotated, Stage, State
  <2>3. CASE token[t].login # {s}
    <3>1. \A x \in Tokens : token'[x].login = {s} <=> token[x].login = {s}
      BY <2>1, <2>3 DEF Rotated
    <3>2. \A x \in Tokens : token'[x].login = {s} => token'[x] = token[x]
      BY <2>3 DEF Rotated
    <3> QED
      BY <3>1, <3>2 DEF Stage, State
  <2> QED
    BY <2>2, <2>3
<1> QED
  BY <1>1 DEF Stages

\* The rotating tokens of a sign-in implement one session: opened once, and over for good
\* when it is over, whatever interleaving of refreshes, logouts and revocations.
THEOREM OverForGood == Spec => OverIsOver
<1>1. Init => Session!Init
  BY DEF Init, Session!Init, Stage, NewToken
<1>2. SessInv /\ [Next]_vars => [Session!Next]_Stages
  <2> SUFFICES ASSUME SessInv, [Next]_vars PROVE [Session!Next]_Stages
    OBVIOUS
  <2>1. Shape
    BY NextShape
  <2>2. ASSUME token' = token PROVE Stages' = Stages
    BY <2>2 DEF Stages, Stage, State
  <2> QED
    BY <2>1, <2>2, DeclinedEnds, IssuedOpens, RotatedStutters DEF Shape, Session!Next
<1> QED
  BY <1>1, <1>2, SessInvHolds, PTL DEF Spec, OverIsOver, Session!Spec, Stages


-----------------------------------------------------------------------------
(* One request at a time                                                     *)

\* What follows is about requests that take turns: one acts only while no other is in progress.
Turn(r) == \A q \in Requests \ {r} : req[q] = Idle
SerialStep(r) == Turn(r) /\ (Step(r) \/ MemberStep(r) \/ Crash(r))
SerialSpec == Init /\ [][\E r \in Requests : SerialStep(r)]_vars

\* What a request has read is still so.
Ready(r) ==
  /\ At(r, "resolve") => req[r].pw \subseteq {password}
  /\ At(r, "issue") =>
       req[r].pw \subseteq {password} /\ \E n \in Tenants : req[r].tenant = {n} /\ member[n] = "ACTIVE"
  /\ At(r, "logout") => \A t \in Tokens : req[r].token = {t} => State(t) = "LIVE"
  /\ At(r, "revoke") =>
       \A n \in Tenants, kind \in Revocations :
         req[r].tenant = {n} /\ req[r].kind = {kind} => req[r].rows = Scope(kind, n)

\* A row goes back to one sign-in, and the rows of a sign-in belong to one tenant.
Named    == \A t \in Tokens : State(t) # "NEW" => \E s \in Tokens : token[t].login = {s}
Together == \A s, t \in Tokens : State(s) # "NEW" /\ token[s].login = token[t].login
                                   => token[s].tenant = token[t].tenant
Happened == \A s \in ended : State(s) # "NEW"

Rows      == Named /\ Together /\ Happened /\ LiveIsEntitled /\ RevocationIsFinal
SerialInv == Rows /\ \A r \in Requests : Ready(r)

LEMMA SerialIsSpec == SerialSpec => Spec
<1>1. (\E r \in Requests : SerialStep(r)) => Next
  BY DEF SerialStep, Next
<1> QED
  BY <1>1, PTL DEF SerialSpec, Spec

\* Requests of which nothing is in progress have nothing that could be stale.
LEMMA IdleReady == ASSUME NEW r, ~At(r, "resolve"), ~At(r, "issue"), ~At(r, "logout"), ~At(r, "revoke")
                   PROVE  Ready(r)
  BY DEF Ready

\* Only the request whose turn it is moves.
OnlyMoves(r) == \A q \in Requests \ {r} : req'[q] = req[q]

LEMMA StepMoves ==
  ASSUME TypeOK, NEW r \in Requests, Step(r) \/ MemberStep(r) \/ Crash(r) PROVE OnlyMoves(r)
<1> USE DEF OnlyMoves, TypeOK, ReqType
<1>1. CASE RefreshStep(r)
  BY <1>1 DEF RefreshStep, RefreshRead, RefreshClaim, RefreshMembership, ReuseSelect,
              RefreshRotate, Goto, Answer, Select
<1>2. CASE SignInStep(r)
  BY <1>2 DEF SignInStep, LoginVerify, SelectWorkspace, LoginUndecided, LoginResolve, LoginIssue, LogoutRead, LogoutWrite, Answer
<1>3. CASE RevokeStep(r)
  BY <1>3 DEF RevokeStep, LogoutAllSelect, PasswordSelect, MemberSelect, Revoke, Answer, Select
<1>4. CASE MemberStep(r) \/ Crash(r)
  BY <1>4 DEF MemberStep, Reactivate, Invite, Join, Crash, Answer
<1> QED
  BY <1>1, <1>2, <1>3, <1>4 DEF Step

LEMMA OthersReady ==
  ASSUME TypeOK, NEW r \in Requests, SerialStep(r), Ready(r)' PROVE \A q \in Requests : Ready(q)'
<1>1. OnlyMoves(r)
  BY StepMoves DEF SerialStep
<1>2. ASSUME NEW q \in Requests, q # r PROVE Ready(q)'
  <2>1. req'[q] = Idle
    BY <1>1, <1>2 DEF SerialStep, Turn, OnlyMoves
  <2> QED
    BY <2>1 DEF Ready, At, Idle
<1> QED
  BY <1>2

-----------------------------------------------------------------------------
(* What the rows become                                                      *)

\* Tenants may only become active.
StaysActive == \A n \in Tenants : member[n] = "ACTIVE" => member'[n] = "ACTIVE"

LEMMA RowsStill ==
  ASSUME Rows, UNCHANGED <<token, password, ended>>, StaysActive PROVE Rows'
<1>1. Named' /\ Together' /\ Happened'
  BY DEF Rows, Named, Together, Happened, State
<1>2. LiveIsEntitled' /\ RevocationIsFinal'
  BY DEF Rows, LiveIsEntitled, RevocationIsFinal, State, StaysActive
<1> QED
  BY <1>1, <1>2 DEF Rows

LEMMA RowsIssued ==
  ASSUME TypeOK, RowInv, Rows, UNCHANGED <<password, ended>>, StaysActive,
         NEW t \in Tokens, NEW n \in Tenants, State(t) = "NEW", member'[n] = "ACTIVE",
         token'[t].state = "LIVE", token'[t].tenant = {n}, token'[t].login = {t},
         token'[t].since = password, token'[t].pw \subseteq {password}, \A s \in Tokens \ {t} : token'[s] = token[s]
  PROVE  Rows'
<1>1. \A s \in Tokens : token[s].login # {t}
  BY DEF RowInv, Rooted
<1>2. Named'
  BY DEF Rows, Named, State
<1>3. Together'
  <2> SUFFICES ASSUME NEW s \in Tokens, NEW u \in Tokens, State(s)' # "NEW",
                      token'[s].login = token'[u].login
               PROVE  token'[s].tenant = token'[u].tenant
    BY DEF Together
  <2>1. CASE s = t \/ u = t
    <3>1. s = t /\ u = t
      BY <1>1, <2>1
    <3> QED
      BY <3>1
  <2>2. CASE s # t /\ u # t
    BY <2>2 DEF Rows, Together, State
  <2> QED
    BY <2>1, <2>2
<1>4. Happened'
  <2> SUFFICES ASSUME NEW s \in ended PROVE State(s)' # "NEW"
    BY DEF Happened
  <2>1. s \in Tokens /\ State(s) # "NEW"
    BY DEF Rows, Happened, TypeOK
  <2> QED
    BY <2>1 DEF State
<1>5. t \notin ended
  BY DEF Rows, Happened
<1>6. LiveIsEntitled'
  BY DEF Rows, LiveIsEntitled, State, StaysActive
<1>7. RevocationIsFinal'
  BY <1>5 DEF Rows, RevocationIsFinal, State
<1> QED
  BY <1>2, <1>3, <1>4, <1>6, <1>7 DEF Rows

LEMMA RowsRotated ==
  ASSUME TypeOK, RowInv, Rows, UNCHANGED <<member, password, ended>>,
         NEW t \in Tokens, NEW next \in Tokens, State(t) = "LIVE", State(next) = "NEW",
         token'[t] = [token[t] EXCEPT !.state = "REVOKED"],
         token'[next] = [token[t] EXCEPT !.state = "LIVE"],
         \A s \in Tokens \ {t, next} : token'[s] = token[s]
  PROVE  Rows'
<1>1. \A s \in Tokens \ {next} : /\ token'[s].login = token[s].login
                                 /\ token'[s].tenant = token[s].tenant
                                 /\ token'[s].pw = token[s].pw
                                 /\ token'[s].since = token[s].since
                                 /\ State(s)' = "NEW" <=> State(s) = "NEW"
                                 /\ State(s)' = "LIVE" => State(s) = "LIVE"
  BY DEF TypeOK, TokenType, State
<1>2. /\ token'[next].login = token[t].login /\ token'[next].tenant = token[t].tenant
      /\ token'[next].pw = token[t].pw /\ token'[next].since = token[t].since
      /\ State(next)' = "LIVE"
  BY DEF TypeOK, TokenType, State
<1>3. Named'
  <2> SUFFICES ASSUME NEW s \in Tokens, State(s)' # "NEW"
               PROVE  \E u \in Tokens : token'[s].login = {u}
    BY DEF Named
  <2>1. CASE s = next
    BY <1>2, <2>1 DEF Rows, Named
  <2>2. CASE s # next
    BY <1>1, <2>2 DEF Rows, Named
  <2> QED
    BY <2>1, <2>2
<1>4. Together'
  <2> SUFFICES ASSUME NEW s \in Tokens, NEW u \in Tokens, State(s)' # "NEW",
                      token'[s].login = token'[u].login
               PROVE  token'[s].tenant = token'[u].tenant
    BY DEF Together
  <2>1. CASE s = next /\ u = next
    BY <2>1
  <2>2. CASE s = next /\ u # next
    <3>1. State(t) # "NEW" /\ token[t].login = token[u].login
      BY <1>1, <1>2, <2>2
    <3>2. token[t].tenant = token[u].tenant
      BY <3>1 DEF Rows, Together
    <3> QED
      BY <1>1, <1>2, <2>2, <3>2
  <2>3. CASE s # next /\ u = next
    <3>1. State(s) # "NEW" /\ token[s].login = token[t].login
      BY <1>1, <1>2, <2>3
    <3>2. token[s].tenant = token[t].tenant
      BY <3>1 DEF Rows, Together
    <3> QED
      BY <1>1, <1>2, <2>3, <3>2
  <2>4. CASE s # next /\ u # next
    BY <1>1, <2>4 DEF Rows, Together
  <2> QED
    BY <2>1, <2>2, <2>3, <2>4
<1>5. Happened'
  <2> SUFFICES ASSUME NEW s \in ended PROVE State(s)' # "NEW"
    BY DEF Happened
  <2>1. s \in Tokens /\ State(s) # "NEW"
    BY DEF Rows, Happened, TypeOK
  <2> QED
    BY <1>1, <1>2, <2>1
<1>6. LiveIsEntitled'
  <2> SUFFICES ASSUME NEW s \in Tokens, State(s)' = "LIVE"
               PROVE  /\ token'[s].since = password /\ token'[s].pw \subseteq {password}
                      /\ \A n \in Tenants : token'[s].tenant = {n} => member[n] = "ACTIVE"
    BY DEF LiveIsEntitled
  <2>1. CASE s = next
    <3>1. /\ token[t].since = password /\ token[t].pw \subseteq {password}
          /\ \A n \in Tenants : token[t].tenant = {n} => member[n] = "ACTIVE"
      BY DEF Rows, LiveIsEntitled
    <3> QED
      BY <1>2, <2>1, <3>1
  <2>2. CASE s # next
    BY <1>1, <2>2 DEF Rows, LiveIsEntitled
  <2> QED
    BY <2>1, <2>2
<1>7. RevocationIsFinal'
  <2> SUFFICES ASSUME NEW s \in Tokens, State(s)' = "LIVE" PROVE token'[s].login \cap ended = {}
    BY DEF RevocationIsFinal
  <2>1. CASE s = next
    BY <1>2, <2>1 DEF Rows, RevocationIsFinal
  <2>2. CASE s # next
    BY <1>1, <2>2 DEF Rows, RevocationIsFinal
  <2> QED
    BY <2>1, <2>2
<1> QED
  BY <1>3, <1>4, <1>5, <1>6, <1>7 DEF Rows

\* Some rows stop to work, and what they go back to is remembered as ended.
RowsEnd(S) ==
  /\ \A s \in Tokens :
       /\ token'[s].login = token[s].login /\ token'[s].tenant = token[s].tenant
       /\ token'[s].pw = token[s].pw /\ token'[s].since = token[s].since
       /\ State(s)' = "NEW" <=> State(s) = "NEW"
       /\ State(s)' = "LIVE" => State(s) = "LIVE" /\ s \notin S
  /\ ended' = ended \cup UNION {token[s].login : s \in S}

LEMMA RowsEnded ==
  ASSUME TypeOK, RowInv, Rows, OneTokenPerSignIn, NEW S \in SUBSET Tokens, RowsEnd(S),
         \A s \in S, t \in Tokens \ S :
           State(s) # "NEW" /\ (State(t) = "LIVE" => token[s].login # token[t].login)
  PROVE  Named' /\ Together' /\ Happened' /\ RevocationIsFinal'
<1>1. Named'
  BY DEF Rows, Named, RowsEnd
<1>2. Together'
  BY DEF Rows, Together, RowsEnd
<1>3. Happened'
  <2> SUFFICES ASSUME NEW u \in ended' PROVE State(u)' # "NEW"
    BY DEF Happened
  <2>1. CASE u \in ended
    BY <2>1 DEF Rows, Happened, RowsEnd, TypeOK
  <2>2. CASE u \notin ended
    <3>1. PICK s \in S : u \in token[s].login
      BY <2>2 DEF RowsEnd
    <3>2. u \in Tokens
      BY <3>1 DEF TypeOK, TokenType
    <3>3. State(s) # "NEW"
      BY <3>1 DEF RowInv, Rooted
    <3>4. token[s].login = {u}
      BY <3>1, <3>3 DEF Rows, Named
    <3> QED
      BY <3>2, <3>4 DEF RowInv, Rooted, RowsEnd
  <2> QED
    BY <2>1, <2>2
<1>4. RevocationIsFinal'
  <2> SUFFICES ASSUME NEW t \in Tokens, State(t)' = "LIVE", NEW u \in token'[t].login
               PROVE  u \notin ended'
    BY DEF RevocationIsFinal
  <2>1. State(t) = "LIVE" /\ t \notin S /\ u \in token[t].login
    BY DEF RowsEnd
  <2>2. u \notin ended
    BY <2>1 DEF Rows, RevocationIsFinal
  <2>3. ASSUME NEW s \in S, u \in token[s].login PROVE FALSE
    <3>1. token[t].login = {u} /\ token[s].login = {u}
      BY <2>1, <2>3 DEF Rows, Named
    <3> QED
      BY <2>1, <3>1
  <2> QED
    BY <2>2, <2>3 DEF RowsEnd
<1> QED
  BY <1>1, <1>2, <1>3, <1>4

\* Other working rows of the sign-ins of these rows are among them.
LEMMA ScopeClosed ==
  ASSUME Rows, OneTokenPerSignIn, NEW kind, NEW n \in Tenants,
         NEW s \in Scope(kind, n), NEW t \in Tokens \ Scope(kind, n), State(t) = "LIVE"
  PROVE  State(s) # "NEW" /\ token[s].login # token[t].login
<1>1. s \in Tokens /\ State(s) # "NEW"
  BY DEF Scope
<1>2. CASE State(s) = "LIVE"
  BY <1>1, <1>2 DEF OneTokenPerSignIn
<1>3. CASE State(s) # "LIVE"
  <2>1. token[s].tenant = {n} \/ kind = "password"
    BY DEF Scope
  <2>2. kind = "remove"
    BY <1>3 DEF Scope
  <2>3. token[s].tenant = {n} /\ token[t].tenant # {n}
    BY <2>1, <2>2 DEF Scope
  <2> QED
    BY <1>1, <2>3 DEF Rows, Together
<1> QED
  BY <1>2, <1>3, <1>1

-----------------------------------------------------------------------------
(* One lemma per operation                                                   *)

\* A statement that has just begun has a snapshot of the rows as they are.
LEMMA SelectReady ==
  ASSUME ReqType, UNCHANGED token, NEW r \in Requests, NEW n \in Tenants, NEW kind \in Revocations,
         Select(r, kind, n)
  PROVE  Ready(r)'
<1> DEFINE x == [Idle EXCEPT !.pc = "revoke", !.tenant = {n}, !.kind = {kind},
                            !.rows = Scope(kind, n)]
<1>1. x.pc = "revoke" /\ x.tenant = {n} /\ x.kind = {kind} /\ x.rows = Scope(kind, n)
  BY DEF Idle
<1>2. req'[r] = x
  BY DEF Select, ReqType
<1> HIDE DEF x
<1>3. /\ req'[r].pc = "revoke" /\ req'[r].tenant = {n} /\ req'[r].kind = {kind}
      /\ req'[r].rows = Scope(kind, n)
  BY <1>1, <1>2
<1>4. Scope(kind, n)' = Scope(kind, n)
  BY DEF Scope, State
<1>5. ASSUME NEW m \in Tenants, NEW k \in Revocations, req'[r].tenant = {m}, req'[r].kind = {k}
      PROVE  req'[r].rows = Scope(k, m)'
  <2>1. m = n /\ k = kind
    BY <1>3, <1>5
  <2> QED
    BY <1>3, <1>4, <2>1
<1> QED
  BY <1>3, <1>5 DEF Ready, At

LEMMA RefreshSerial ==
  ASSUME SessInv, SerialInv, NEW r \in Requests, RefreshStep(r)
  PROVE  Rows' /\ Ready(r)'
<1> USE DEF SessInv
<1>0. TypeOK /\ RowInv /\ Rows /\ ReqType
  BY DEF SerialInv, TypeOK
<1>1. ASSUME UNCHANGED <<token, member, password, ended>> PROVE Rows'
  BY <1>0, <1>1, RowsStill DEF StaysActive
<1>2. ASSUME NEW t \in Tokens, RefreshRead(r, t) PROVE Rows' /\ Ready(r)'
  <2>1. req'[r].pc \in {"membership", "reuse"}
    BY <1>0, <1>2 DEF RefreshRead, ReqType
  <2> QED
    BY <1>1, <1>2, <2>1, IdleReady DEF RefreshRead, Ready, At
<1>3. ASSUME NEW t \in Tokens, RefreshClaim(r, t) PROVE Rows' /\ Ready(r)'
  <2>1. req'[r].pc \in {"rotate", "reuse"}
    BY <1>0, <1>3 DEF RefreshClaim, Goto, ReqType
  <2> QED
    BY <1>1, <1>3, <2>1 DEF RefreshClaim, Ready, At
<1>4. ASSUME NEW n \in Tenants, RefreshMembership(r, n) PROVE Rows' /\ Ready(r)'
  <2>1. req'[r].pc \in {"claim", "idle"}
    BY <1>0, <1>4 DEF RefreshMembership, Goto, Answer, Idle, ReqType
  <2> QED
    BY <1>1, <1>4, <2>1 DEF RefreshMembership, Ready, At
<1>5. ASSUME NEW n \in Tenants, ReuseSelect(r, n) PROVE Rows' /\ Ready(r)'
  <2>1. Select(r, "reuse", n) /\ UNCHANGED <<token, member, password, ended>>
    BY <1>5 DEF ReuseSelect
  <2> QED
    BY <1>0, <1>1, <2>1, SelectReady DEF Revocations
<1>6. ASSUME NEW t \in Tokens, NEW next \in Tokens, RefreshRotate(r, t, next)
      PROVE  Rows' /\ Ready(r)'
  <2>1. req'[r].pc = "idle"
    BY <1>0, <1>6 DEF RefreshRotate, Answer, Idle, ReqType
  <2>2. State(t) = "LIVE" /\ State(next) = "NEW" /\ t # next
    BY <1>6 DEF RefreshRotate, RowInv, Claimed
  <2>3. /\ token'[t] = [token[t] EXCEPT !.state = "REVOKED"]
        /\ token'[next] = [token[t] EXCEPT !.state = "LIVE"]
        /\ \A s \in Tokens \ {t, next} : token'[s] = token[s]
    BY <1>0, <1>6, <2>2 DEF RefreshRotate, TypeOK, TokenType
  <2>4. Rows'
    BY <1>0, <1>6, <2>2, <2>3, RowsRotated DEF RefreshRotate
  <2> QED
    BY <2>1, <2>4 DEF Ready, At
<1> QED
  BY <1>2, <1>3, <1>4, <1>5, <1>6 DEF RefreshStep

LEMMA SignInSerial ==
  ASSUME SessInv, OneTokenPerSignIn, SerialInv, NEW r \in Requests, SignInStep(r)
  PROVE  Rows' /\ Ready(r)'
<1> USE DEF SessInv
<1>0. TypeOK /\ RowInv /\ Rows /\ ReqType /\ Ready(r)
  BY DEF SerialInv, TypeOK
<1>1. ASSUME UNCHANGED <<token, member, password, ended>> PROVE Rows'
  BY <1>0, <1>1, RowsStill DEF StaysActive
<1>2. CASE LoginVerify(r) \/ SelectWorkspace(r)
  <2>1. req'[r].pc = "resolve" /\ req'[r].pw \subseteq {password}
    BY <1>0, <1>2 DEF LoginVerify, SelectWorkspace, Idle, ReqType
  <2> QED
    BY <1>1, <1>2, <2>1 DEF LoginVerify, SelectWorkspace, Ready, At
<1>7. CASE LoginUndecided(r)
  <2>1. req'[r].pc = "idle"
    BY <1>0, <1>7 DEF LoginUndecided, Answer, Idle, ReqType
  <2> QED
    BY <1>1, <1>7, <2>1 DEF LoginUndecided, Ready, At
<1>3. ASSUME NEW n \in Tenants, LoginResolve(r, n) PROVE Rows' /\ Ready(r)'
  <2>1. req[r].pw \subseteq {password}
    BY <1>0, <1>3 DEF LoginResolve, Ready
  <2>2. CASE Answer(r)
    <3>1. req'[r].pc = "idle"
      BY <1>0, <2>2 DEF Answer, Idle, ReqType
    <3> QED
      BY <1>1, <1>3, <3>1 DEF LoginResolve, Ready, At
  <2>3. CASE ~Answer(r)
    <3>1. /\ req'[r].pc = "issue" /\ req'[r].tenant = {n} /\ req'[r].pw = req[r].pw
          /\ member[n] = "ACTIVE"
      BY <1>0, <1>3, <2>3 DEF LoginResolve, ReqType
    <3> QED
      BY <1>1, <1>3, <2>1, <3>1 DEF LoginResolve, Ready, At
  <2> QED
    BY <2>2, <2>3
<1>4. ASSUME NEW t \in Tokens, LoginIssue(r, t) PROVE Rows' /\ Ready(r)'
  <2>1. req'[r].pc = "idle"
    BY <1>0, <1>4 DEF LoginIssue, Answer, Idle, ReqType
  <2>2. PICK n \in Tenants : req[r].tenant = {n} /\ member[n] = "ACTIVE"
    BY <1>0, <1>4 DEF LoginIssue, Ready
  <2>3. req[r].pw \subseteq {password}
    BY <1>0, <1>4 DEF LoginIssue, Ready
  <2>4. /\ token'[t].state = "LIVE" /\ token'[t].tenant = {n} /\ token'[t].login = {t}
        /\ token'[t].since = password /\ token'[t].pw \subseteq {password}
        /\ \A s \in Tokens \ {t} : token'[s] = token[s]
    BY <1>0, <1>4, <2>2, <2>3 DEF LoginIssue, TypeOK, TokenType
  <2>5. Rows'
    BY <1>0, <1>4, <2>2, <2>4, RowsIssued DEF LoginIssue, StaysActive
  <2> QED
    BY <2>1, <2>5 DEF Ready, At
<1>5. ASSUME NEW t \in Tokens, LogoutRead(r, t) PROVE Rows' /\ Ready(r)'
  <2>1. req'[r].pc = "logout" /\ req'[r].token = {t} /\ State(t) = "LIVE"
    BY <1>0, <1>5 DEF LogoutRead, ReqType
  <2> QED
    BY <1>1, <1>5, <2>1 DEF LogoutRead, Ready, At, State
<1>6. ASSUME NEW t \in Tokens, LogoutWrite(r, t) PROVE Rows' /\ Ready(r)'
  <2>1. req'[r].pc = "idle" /\ UNCHANGED <<member, password>>
    BY <1>0, <1>6 DEF LogoutWrite, Answer, Idle, ReqType
  <2>2. State(t) = "LIVE"
    BY <1>0, <1>6 DEF LogoutWrite, Ready
  <2>3. RowsEnd({t})
    <3>1. ended' = ended \cup UNION {token[s].login : s \in {t}}
      BY <1>6 DEF LogoutWrite
    <3> QED
      BY <1>0, <1>6, <3>1 DEF LogoutWrite, RowsEnd, State, TypeOK, TokenType
  <2>4. \A s \in {t}, u \in Tokens \ {t} :
           State(s) # "NEW" /\ (State(u) = "LIVE" => token[s].login # token[u].login)
    BY <2>2 DEF OneTokenPerSignIn
  <2>5. Named' /\ Together' /\ Happened' /\ RevocationIsFinal'
    BY <1>0, <2>3, <2>4, RowsEnded
  <2>6. LiveIsEntitled'
    BY <1>0, <2>1, <2>3 DEF Rows, LiveIsEntitled, RowsEnd
  <2> QED
    BY <2>1, <2>5, <2>6 DEF Rows, Ready, At
<1> QED
  BY <1>2, <1>3, <1>4, <1>5, <1>6, <1>7 DEF SignInStep

LEMMA RevokeSerial ==
  ASSUME SessInv, OneTokenPerSignIn, SerialInv, NEW r \in Requests, RevokeStep(r)
  PROVE  Rows' /\ Ready(r)'
<1> USE DEF SessInv
<1>0. TypeOK /\ RowInv /\ Rows /\ ReqType /\ Ready(r)
  BY DEF SerialInv, TypeOK
<1>1. ASSUME NEW n \in Tenants, NEW kind \in Revocations, Select(r, kind, n),
             UNCHANGED <<token, member, password, ended>>
      PROVE  Rows' /\ Ready(r)'
  BY <1>0, <1>1, RowsStill, SelectReady DEF StaysActive
<1>2. ASSUME NEW n \in Tenants, LogoutAllSelect(r, n) \/ PasswordSelect(r, n) PROVE Rows' /\ Ready(r)'
  BY <1>1, <1>2 DEF LogoutAllSelect, PasswordSelect, Revocations
<1>3. ASSUME NEW n \in Tenants, NEW kind \in Revocations, MemberSelect(r, kind, n)
      PROVE  Rows' /\ Ready(r)'
  BY <1>1, <1>3 DEF MemberSelect
<1>4. ASSUME NEW n \in Tenants, NEW kind \in Revocations, Revoke(r, kind, n)
      PROVE  Rows' /\ Ready(r)'
  <2> DEFINE S == Scope(kind, n)
  <2>1. req'[r].pc = "idle"
    BY <1>0, <1>4 DEF Revoke, Answer, Idle, ReqType
  <2>2. req[r].rows = S
    BY <1>0, <1>4 DEF Revoke, Ready
  <2>3. S \in SUBSET Tokens
    BY DEF Scope
  <2>4. \A s \in S : State(s) \in {"LIVE", "REVOKED"}
    BY DEF Scope
  <2>5. RowsEnd(S)
    <3>1. ended' = ended \cup UNION {token[s].login : s \in S}
      BY <1>4, <2>2 DEF Revoke
    <3>2. ASSUME NEW s \in Tokens \ S PROVE token'[s] = token[s]
      BY <1>4, <2>2, <3>2 DEF Revoke
    <3>3. ASSUME NEW s \in S
          PROVE  /\ token'[s].login = token[s].login /\ token'[s].tenant = token[s].tenant
                 /\ token'[s].pw = token[s].pw /\ token'[s].since = token[s].since
                 /\ State(s)' \in {"GONE", "REVOKED"}
      <4>1. token'[s] = [token[s] EXCEPT !.state = IF kind = "remove" THEN "GONE"
                                                   ELSE IF @ = "LIVE" THEN "REVOKED" ELSE @]
        BY <1>4, <2>2, <2>3, <3>3 DEF Revoke
      <4> QED
        BY <1>0, <2>3, <2>4, <3>3, <4>1 DEF TypeOK, TokenType, State
    <3> HIDE DEF S
    <3> QED
      BY <2>4, <3>1, <3>2, <3>3 DEF RowsEnd, State
  <2>6. \A s \in S, t \in Tokens \ S :
           State(s) # "NEW" /\ (State(t) = "LIVE" => token[s].login # token[t].login)
    BY <1>0, <2>4, ScopeClosed
  <2>7. Named' /\ Together' /\ Happened' /\ RevocationIsFinal'
    <3> HIDE DEF S
    <3> QED
      BY <1>0, <2>3, <2>5, <2>6, RowsEnded
  <2>8. LiveIsEntitled'
    <3> SUFFICES ASSUME NEW t \in Tokens, State(t)' = "LIVE"
                 PROVE  /\ token'[t].since = password' /\ token'[t].pw \subseteq {password'}
                        /\ \A m \in Tenants : token'[t].tenant = {m} => member'[m] = "ACTIVE"
      BY DEF LiveIsEntitled
    <3>1. /\ State(t) = "LIVE" /\ t \notin S
          /\ token'[t].tenant = token[t].tenant /\ token'[t].pw = token[t].pw
          /\ token'[t].since = token[t].since
      BY <2>5 DEF RowsEnd
    <3>2. kind # "password" /\ token[t].tenant # {n}
      BY <3>1 DEF Scope
    <3>3. password' = password
      BY <1>0, <1>4, <3>2 DEF Revoke, TypeOK
    <3>4. \A m \in Tenants \ {n} : member'[m] = member[m]
      BY <1>0, <1>4 DEF Revoke, TypeOK
    <3> QED
      BY <1>0, <3>1, <3>2, <3>3, <3>4 DEF Rows, LiveIsEntitled
  <2> QED
    BY <2>1, <2>7, <2>8 DEF Rows, Ready, At
<1> QED
  BY <1>2, <1>3, <1>4 DEF RevokeStep

LEMMA OtherSerial ==
  ASSUME SessInv, SerialInv, NEW r \in Requests, MemberStep(r) \/ Crash(r)
  PROVE  Rows' /\ Ready(r)'
<1> USE DEF SessInv
<1>0. TypeOK /\ RowInv /\ Rows /\ ReqType
  BY DEF SerialInv, TypeOK
<1>1. ASSUME req'[r].pc = "idle" PROVE Ready(r)'
  BY <1>1 DEF Ready, At
<1>2. ASSUME NEW n \in Tenants, Reactivate(r, n) \/ Invite(r, n) PROVE Rows' /\ Ready(r)'
  <2>1. StaysActive
    BY <1>0, <1>2 DEF Reactivate, Invite, StaysActive, TypeOK
  <2>2. Rows'
    BY <1>0, <1>2, <2>1, RowsStill DEF Reactivate, Invite
  <2>3. req'[r].pc = "idle"
    BY <1>2 DEF Reactivate, Invite, Idle
  <2> QED
    BY <1>1, <2>2, <2>3
<1>3. ASSUME NEW n \in Tenants, NEW t \in Tokens, Join(r, n, t) PROVE Rows' /\ Ready(r)'
  <2>1. req'[r].pc = "idle"
    BY <1>3 DEF Join, Idle
  <2>2. StaysActive /\ member'[n] = "ACTIVE"
    BY <1>0, <1>3 DEF Join, StaysActive, TypeOK
  <2>3. /\ token'[t].state = "LIVE" /\ token'[t].tenant = {n} /\ token'[t].login = {t}
        /\ token'[t].since = password /\ token'[t].pw \subseteq {password}
        /\ \A s \in Tokens \ {t} : token'[s] = token[s]
    BY <1>0, <1>3 DEF Join, TypeOK, TokenType
  <2>4. Rows'
    BY <1>0, <1>3, <2>2, <2>3, RowsIssued DEF Join
  <2> QED
    BY <1>1, <2>1, <2>4
<1>4. CASE Crash(r)
  <2>1. req'[r].pc = "idle"
    BY <1>0, <1>4 DEF Crash, Answer, Idle, ReqType
  <2>2. Rows'
    BY <1>0, <1>4, RowsStill DEF Crash, StaysActive
  <2> QED
    BY <1>1, <2>1, <2>2
<1> QED
  BY <1>2, <1>3, <1>4 DEF MemberStep

LEMMA SerialStepKeeps ==
  ASSUME SessInv, OneTokenPerSignIn, SerialInv, NEW r \in Requests, SerialStep(r)
  PROVE  SerialInv'
<1>1. Rows' /\ Ready(r)'
  BY RefreshSerial, SignInSerial, RevokeSerial, OtherSerial DEF SerialStep, Step
<1>2. \A q \in Requests : Ready(q)'
  BY <1>1, OthersReady DEF SessInv
<1> QED
  BY <1>1, <1>2 DEF SerialInv

LEMMA StutterSerial == ASSUME SerialInv, UNCHANGED vars PROVE SerialInv'
<1>1. Rows'
  BY RowsStill DEF SerialInv, vars, StaysActive
<1>2. ASSUME NEW r \in Requests PROVE Ready(r)'
  BY DEF SerialInv, Ready, vars, At, State, Scope
<1> QED
  BY <1>1, <1>2 DEF SerialInv

LEMMA InitSerial == ASSUME Init PROVE SerialInv
<1>1. ended = {} /\ \A t \in Tokens : State(t) = "NEW"
  BY DEF Init, State, NewToken
<1>2. Rows
  BY <1>1 DEF Rows, Named, Together, Happened, LiveIsEntitled, RevocationIsFinal
<1>3. ASSUME NEW r \in Requests PROVE Ready(r)
  BY DEF Init, Idle, Ready, At
<1> QED
  BY <1>2, <1>3 DEF SerialInv

LEMMA SerialInvHolds == SerialSpec => []SerialInv
<1>1. SessInv /\ OneTokenPerSignIn /\ SerialInv /\ [\E r \in Requests : SerialStep(r)]_vars => SerialInv'
  BY SerialStepKeeps, StutterSerial
<1> QED
  BY <1>1, InitSerial, SerialIsSpec, SessInvHolds, OneTokenWorks, PTL DEF SerialSpec

\* When requests take turns, whoever holds a working token may have it: its sign-in is
\* younger than the last new password and showed that password, or a selection or pending
\* token in its place; and the membership is active, after any number of sign-ins in one or
\* two requests, refreshes, logouts, suspensions, removals, returns and new passwords.
THEOREM LiveTokensAreEntitled == SerialSpec => []LiveIsEntitled
<1>1. SerialInv => LiveIsEntitled
  BY DEF SerialInv, Rows
<1> QED
  BY <1>1, SerialInvHolds, PTL

\* When requests take turns, a sign-in that a revocation or a logout found open has no
\* working token left, for any number of tokens and tenants.
THEOREM RevokedForGood == SerialSpec => []RevocationIsFinal
<1>1. SerialInv => RevocationIsFinal
  BY DEF SerialInv, Rows
<1> QED
  BY <1>1, SerialInvHolds, PTL

-----------------------------------------------------------------------------
(* The browser.  An answered refresh is stored, so the types need that its   *)
(* pair is one the server issued.  That no waiting call is forgotten is      *)
(* inductive with the types: a call begins to wait in the step that makes    *)
(* sure of its tab's flight, and the step that ends the flight resumes all   *)
(* of them.  What the store holds needs more: which tab may refresh, where a *)
(* pair that is not stored yet can be, and whose pairs are live.             *)

(* A refresh is about a pair that was issued, or about none.                 *)
FlightsIssued == \A t \in Tabs : flight[t].pair \in {0} \cup Pairs

IInv == BrowserTypeOK /\ FlightsIssued

-----------------------------------------------------------------------------
(* Types                                                                     *)

LEMMA InitTypes == BrowserInit => IInv
  <1>. SUFFICES ASSUME BrowserInit PROVE IInv
    OBVIOUS
  <1>1. owner \in Seq(Users) /\ Len(owner) = 0 /\ Len(owner) <= MaxPairs
    BY BrowserAssumption DEF BrowserInit
  <1>2. NoFlight \in Flights /\ NoFlight.pair = 0
    BY BrowserAssumption DEF NoFlight, Flights
  <1>3. flight \in [Tabs -> Flights] /\ FlightsIssued
    BY <1>2 DEF BrowserInit, FlightsIssued
  <1>4. lost \in Nat
    BY BrowserAssumption DEF BrowserInit
  <1>. QED BY <1>1, <1>3, <1>4 DEF BrowserInit, IInv, BrowserTypeOK

(* What one more pair changes for those that there are.                      *)
LEMMA OneMorePair ==
  ASSUME BrowserTypeOK, NEW u \in Users, Len(owner) < MaxPairs, owner' = Append(owner, u)
  PROVE  /\ owner' \in Seq(Users) /\ Len(owner') = Len(owner) + 1 /\ Len(owner') <= MaxPairs
         /\ Pairs \subseteq Pairs' /\ Len(owner') \in Pairs' /\ Len(owner') \in 0..MaxPairs
  BY BrowserAssumption DEF BrowserTypeOK, Pairs

(* The pairs stay when the owners do.                                        *)
LEMMA SamePairs == owner' = owner => Pairs' = Pairs
  BY DEF Pairs

LEMMA IssuedBounded == BrowserTypeOK => {0} \cup Pairs \subseteq 0..MaxPairs
  BY BrowserAssumption DEF BrowserTypeOK, Pairs

LEMMA SignInTypes == ASSUME IInv, NEW t \in Tabs, NEW u \in Users, SignIn(t, u) PROVE IInv'
  <1>. Len(owner) < MaxPairs /\ owner' = Append(owner, u)
    BY DEF SignIn
  <1>1. BrowserTypeOK'
    BY OneMorePair DEF IInv, BrowserTypeOK, SignIn
  <1>2. FlightsIssued'
    BY OneMorePair DEF IInv, FlightsIssued, SignIn
  <1>. QED BY <1>1, <1>2 DEF IInv

LEMMA EnterTypes == ASSUME IInv, NEW t \in Tabs, Enter(t) PROVE IInv'
  BY SamePairs DEF IInv, BrowserTypeOK, FlightsIssued, Enter, Aside, server, Blames

LEMMA ExpireTypes == ASSUME IInv, NEW p \in Pairs, Expire(p) PROVE IInv'
  BY SamePairs DEF IInv, BrowserTypeOK, FlightsIssued, Expire

LEMMA EndSessionsTypes == ASSUME IInv, NEW u \in Users, EndSessions(u) PROVE IInv'
  BY SamePairs DEF IInv, BrowserTypeOK, FlightsIssued, EndSessions

LEMMA SentTyped ==
  ASSUME NEW t \in Tabs, NEW kind \in Kinds, NEW pair \in 0..MaxPairs, NEW body \in 0..MaxPairs,
         NEW again \in BOOLEAN
  PROVE  Sent(t, kind, pair, body, again) \in Call
  BY DEF Sent, Call

LEMMA AskTypes ==
  ASSUME IInv, NEW r \in ApiCalls, NEW t \in Tabs, NEW kind \in Kinds, Ask(r, t, kind)
  PROVE  IInv'
  <1>. store \in 0..MaxPairs /\ 0 \in 0..MaxPairs
    BY IssuedBounded, BrowserAssumption DEF IInv, BrowserTypeOK
  <1>1. Sent(t, kind, store, IF kind = "data" THEN 0 ELSE store, FALSE) \in Call
    BY SentTyped
  <1>2. calls' \in [ApiCalls -> {NoCall} \cup Call]
    BY <1>1 DEF Ask, IInv, BrowserTypeOK
  <1>. QED BY <1>2, SamePairs DEF IInv, BrowserTypeOK, FlightsIssued, Ask, server

(* A call that is not over is a full record, whatever stage it goes on to.   *)
LEMMA CallGoesOn ==
  ASSUME BrowserTypeOK, NEW r \in ApiCalls, calls[r].stage # "none",
         NEW stage \in {"sent", "served", "waiting"}, calls' = [calls EXCEPT ![r].stage = stage]
  PROVE  calls' \in [ApiCalls -> {NoCall} \cup Call]
  <1>1. calls[r] \in Call
    BY DEF BrowserTypeOK, NoCall
  <1>2. [calls[r] EXCEPT !.stage = stage] \in Call
    BY <1>1 DEF Call
  <1>. QED BY <1>2 DEF BrowserTypeOK

LEMMA LogoutTypes == ASSUME IInv, NEW r \in ApiCalls, Logout(r) PROVE IInv'
  <1>1. calls' \in [ApiCalls -> {NoCall} \cup Call]
    BY CallGoesOn DEF Logout, IInv
  <1>. QED BY <1>1, SamePairs DEF IInv, BrowserTypeOK, FlightsIssued, Logout, Aside, Blames

LEMMA LogoutAllTypes == ASSUME IInv, NEW r \in ApiCalls, LogoutAll(r) PROVE IInv'
  <1>1. calls' \in [ApiCalls -> {NoCall} \cup Call]
    BY CallGoesOn DEF LogoutAll, IInv
  <1>. QED BY <1>1, SamePairs DEF IInv, BrowserTypeOK, FlightsIssued, LogoutAll, Aside, Blames

LEMMA ReturnTypes ==
  ASSUME IInv, NEW r \in ApiCalls, NEW kept \in {0} \cup Pairs, Return(r, kept) PROVE IInv'
  BY SamePairs DEF IInv, BrowserTypeOK, FlightsIssued, Return, server, Aside, Blames, NoCall

LEMMA AnswerTypes == ASSUME IInv, NEW r \in ApiCalls, EndCall(r) PROVE IInv'
  BY ReturnTypes DEF EndCall, Left, IInv, BrowserTypeOK

LEMMA ThrowTypes == ASSUME IInv, NEW r \in ApiCalls, Throw(r) PROVE IInv'
  BY ReturnTypes DEF Throw, Left, IInv, BrowserTypeOK

LEMMA RefusedTypes == ASSUME IInv, NEW r \in ApiCalls, Refused(r) PROVE IInv'
  <1>1. calls' \in [ApiCalls -> {NoCall} \cup Call]
    BY CallGoesOn DEF Refused, Rejected, IInv
  <1>2. blame' \subseteq Blames
    BY DEF Refused, TryRefresh, IInv, BrowserTypeOK, Blames
  <1>3. [stage |-> "sent", pair |-> store] \in Flights
    BY IssuedBounded DEF IInv, BrowserTypeOK, Flights
  <1>4. flight' \in [Tabs -> Flights]
    BY <1>3 DEF Refused, TryRefresh, IInv, BrowserTypeOK
  <1>5. \A t \in Tabs : flight'[t].pair \in {0} \cup Pairs
    BY DEF Refused, TryRefresh, IInv, BrowserTypeOK, FlightsIssued
  <1>. QED BY <1>1, <1>2, <1>4, <1>5, SamePairs DEF IInv, BrowserTypeOK, FlightsIssued, Refused, server

LEMMA RotateTypes == ASSUME IInv, NEW t \in Tabs, Rotate(t) PROVE IInv'
  <1>0. flight[t].pair \in 1..Len(owner)
    BY DEF Rotate, IInv, BrowserTypeOK, Pairs
  <1>1. owner[flight[t].pair] \in Users
    <2>1. owner \in Seq(Users)
      BY DEF IInv, BrowserTypeOK
    <2>. QED BY <1>0, <2>1
  <1>. Len(owner) < MaxPairs /\ owner' = Append(owner, owner[flight[t].pair])
    BY DEF Rotate
  <1>2. flight' \in [Tabs -> Flights]
    BY <1>1, OneMorePair DEF Rotate, IInv, BrowserTypeOK, Flights
  <1>3. BrowserTypeOK'
    BY <1>1, <1>2, OneMorePair DEF Rotate, IInv, BrowserTypeOK
  <1>4. FlightsIssued'
    BY <1>1, OneMorePair DEF Rotate, IInv, BrowserTypeOK, FlightsIssued, Flights
  <1>. QED BY <1>3, <1>4 DEF IInv

LEMMA ReuseTypes == ASSUME IInv, NEW t \in Tabs, Reuse(t) PROVE IInv'
  <1>1. flight[t].pair \in 0..MaxPairs
    BY DEF IInv, BrowserTypeOK, Flights
  <1>. QED BY <1>1, SamePairs DEF IInv, BrowserTypeOK, FlightsIssued, Reuse, Flights, Aside, Blames

LEMMA FailTypes == ASSUME IInv, NEW t \in Tabs, Fail(t) PROVE IInv'
  BY SamePairs, BrowserAssumption DEF IInv, BrowserTypeOK, FlightsIssued, Fail, Flights, server

LEMMA RefreshedTypes == ASSUME IInv, NEW t \in Tabs, Refreshed(t) PROVE IInv'
  <1>1. store' \in {0} \cup Pairs /\ store' \in 0..MaxPairs
    BY IssuedBounded DEF Refreshed, IInv, FlightsIssued
  <1>2. ASSUME NEW r \in Waiters(t)
        PROVE  Sent(t, calls[r].kind, store', calls[r].refresh, TRUE) \in Call
    <2>1. calls[r] \in Call
      BY DEF Waiters, IInv, BrowserTypeOK, NoCall
    <2>. QED BY <2>1, <1>1, SentTyped DEF Call
  <1>3. calls' \in [ApiCalls -> {NoCall} \cup Call]
    BY <1>2 DEF Refreshed, IInv, BrowserTypeOK
  <1>4. flight' \in [Tabs -> Flights] /\ \A s \in Tabs : flight'[s].pair \in {0} \cup Pairs
    BY BrowserAssumption DEF Refreshed, IInv, BrowserTypeOK, FlightsIssued, Flights, NoFlight
  <1>. QED BY <1>1, <1>3, <1>4, SamePairs DEF IInv, BrowserTypeOK, FlightsIssued, Refreshed, server

LEMMA SignedOutTypes == ASSUME IInv, NEW t \in Tabs, SignedOut(t) PROVE IInv'
  <1>1. flight' \in [Tabs -> Flights] /\ \A s \in Tabs : flight'[s].pair \in {0} \cup Pairs
    BY BrowserAssumption DEF SignedOut, IInv, BrowserTypeOK, FlightsIssued, Flights, NoFlight
  <1>. QED BY <1>1, SamePairs DEF IInv, BrowserTypeOK, FlightsIssued, SignedOut, server

LEMMA NextTypes == IInv /\ [BrowserNext]_browserVars => IInv'
  <1>. SUFFICES ASSUME IInv, [BrowserNext]_browserVars PROVE IInv'
    OBVIOUS
  <1>1. ASSUME NEW t \in Tabs, NEW u \in Users, SignIn(t, u) PROVE IInv'
    BY <1>1, SignInTypes
  <1>2. ASSUME NEW t \in Tabs, Enter(t) PROVE IInv'
    BY <1>2, EnterTypes
  <1>3. ASSUME NEW p \in Pairs \ expired, Expire(p) PROVE IInv'
    BY <1>3, ExpireTypes
  <1>4. ASSUME NEW r \in ApiCalls, NEW t \in Tabs, NEW kind \in Kinds, Ask(r, t, kind) PROVE IInv'
    BY <1>4, AskTypes
  <1>5. ASSUME NEW r \in ApiCalls, Logout(r) \/ LogoutAll(r) \/ EndCall(r) PROVE IInv'
    BY <1>5, LogoutTypes, LogoutAllTypes, AnswerTypes
  <1>6. ASSUME NEW r \in ApiCalls, Refused(r) \/ Throw(r) PROVE IInv'
    BY <1>6, RefusedTypes, ThrowTypes
  <1>7. ASSUME NEW t \in Tabs, Rotate(t) \/ Reuse(t) \/ Fail(t) PROVE IInv'
    BY <1>7, RotateTypes, ReuseTypes, FailTypes
  <1>8. ASSUME NEW t \in Tabs, Refreshed(t) \/ SignedOut(t) PROVE IInv'
    BY <1>8, RefreshedTypes, SignedOutTypes
  <1>9. CASE UNCHANGED browserVars
    BY <1>9, SamePairs DEF browserVars, IInv, BrowserTypeOK, FlightsIssued
  <1>10. ASSUME NEW u \in Users, EndSessions(u) PROVE IInv'
    BY <1>10, EndSessionsTypes
  <1>. QED BY <1>1, <1>2, <1>3, <1>4, <1>5, <1>6, <1>7, <1>8, <1>9, <1>10 DEF BrowserNext

(* Every reachable state of the browser, of its calls and of the server's    *)
(* pairs has its type, and a refresh is about a pair that was issued.        *)
THEOREM BrowserTypeCorrect == BrowserSpec => [](BrowserTypeOK /\ FlightsIssued)
  <1>1. IInv => BrowserTypeOK /\ FlightsIssued
    BY DEF IInv
  <1>. QED BY <1>1, InitTypes, NextTypes, PTL DEF BrowserSpec

-----------------------------------------------------------------------------
(* No call is forgotten                                                      *)

(* What keeps it: the steps that let no call begin to wait and end no        *)
(* flight.                                                                   *)
Undisturbed ==
  /\ \A t \in Tabs : InFlight(t) => InFlight(t)'
  /\ \A t \in Tabs : Waiters(t)' \subseteq Waiters(t)

LEMMA UndisturbedKeeps == WaitersHaveFlight /\ Undisturbed => WaitersHaveFlight'
  BY DEF WaitersHaveFlight, Undisturbed

(* The flights stay; the only call that changes does not wait afterwards.    *)
LEMMA OneCallChanges ==
  ASSUME IInv, NEW r \in ApiCalls, UNCHANGED flight,
         \A q \in ApiCalls \ {r} : calls'[q] = calls[q], calls'[r].stage # "waiting"
  PROVE  Undisturbed
  BY DEF Undisturbed, InFlight, Waiters

(* The calls stay; the only flight that changes goes on.                     *)
LEMMA OneFlightChanges ==
  ASSUME IInv, NEW t \in Tabs, UNCHANGED calls,
         \A s \in Tabs \ {t} : flight'[s] = flight[s], flight'[t].stage # "none"
  PROVE  Undisturbed
  BY DEF Undisturbed, InFlight, Waiters

(* A call that is refused waits for a flight that there is now.              *)
LEMMA RefusedWaits ==
  ASSUME IInv, WaitersHaveFlight, NEW r \in ApiCalls, Refused(r) PROVE WaitersHaveFlight'
  <1>1. calls[r] \in Call
    BY DEF Refused, Rejected, IInv, BrowserTypeOK, NoCall
  <1>2. calls[r].tab \in Tabs /\ calls'[r].tab = calls[r].tab
    BY <1>1 DEF Refused, Call, IInv, BrowserTypeOK
  <1>3. \A q \in ApiCalls \ {r} : calls'[q] = calls[q]
    BY DEF Refused, IInv, BrowserTypeOK
  <1>4. InFlight(calls[r].tab)' /\ \A t \in Tabs : InFlight(t) => InFlight(t)'
    BY <1>2 DEF Refused, TryRefresh, InFlight, IInv, BrowserTypeOK
  <1>5. \A t \in Tabs \ {calls[r].tab} : Waiters(t)' \subseteq Waiters(t)
    BY <1>2, <1>3 DEF Waiters
  <1>6. ASSUME NEW t \in Tabs, Waiters(t)' # {} PROVE InFlight(t)'
    <2>1. CASE t = calls[r].tab
      BY <1>2, <1>4, <2>1 DEF InFlight
    <2>2. CASE t # calls[r].tab
      <3>1. Waiters(t) # {}
        BY <1>5, <1>6, <2>2
      <3>. QED BY <1>4, <3>1 DEF WaitersHaveFlight
    <2>. QED BY <2>1, <2>2
  <1>. QED BY <1>6 DEF WaitersHaveFlight

(* The end of a flight leaves nobody waiting for it.                         *)
LEMMA FlightEnds ==
  ASSUME IInv, WaitersHaveFlight, NEW t \in Tabs, flight' = [flight EXCEPT ![t] = NoFlight],
         Waiters(t)' = {}, \A s \in Tabs \ {t} : Waiters(s)' \subseteq Waiters(s)
  PROVE  WaitersHaveFlight'
  BY DEF IInv, BrowserTypeOK, WaitersHaveFlight, InFlight

LEMMA RefreshedResumes ==
  ASSUME IInv, WaitersHaveFlight, NEW t \in Tabs, Refreshed(t) PROVE WaitersHaveFlight'
  <1>1. \A r \in Waiters(t) : calls'[r].stage = "sent"
    BY DEF Refreshed, Sent, Waiters
  <1>2. \A r \in ApiCalls \ Waiters(t) : calls'[r] = calls[r]
    BY DEF Refreshed
  <1>3. Waiters(t)' = {} /\ \A s \in Tabs \ {t} : Waiters(s)' \subseteq Waiters(s)
    BY <1>1, <1>2 DEF Waiters
  <1>. QED BY <1>3, FlightEnds DEF Refreshed

LEMMA SignedOutThrows ==
  ASSUME IInv, WaitersHaveFlight, NEW t \in Tabs, SignedOut(t) PROVE WaitersHaveFlight'
  <1>1. \A r \in Waiters(t) : calls'[r].stage = "none"
    BY DEF SignedOut, NoCall, Waiters
  <1>2. \A r \in ApiCalls \ Waiters(t) : calls'[r] = calls[r]
    BY DEF SignedOut
  <1>3. Waiters(t)' = {} /\ \A s \in Tabs \ {t} : Waiters(s)' \subseteq Waiters(s)
    BY <1>1, <1>2 DEF Waiters
  <1>. QED BY <1>3, FlightEnds DEF SignedOut

LEMMA NextWaiters == IInv /\ WaitersHaveFlight /\ [BrowserNext]_browserVars => WaitersHaveFlight'
  <1>. SUFFICES ASSUME IInv, WaitersHaveFlight, [BrowserNext]_browserVars PROVE WaitersHaveFlight'
    OBVIOUS
  <1>1. ASSUME UNCHANGED <<flight, calls>> PROVE Undisturbed
    BY <1>1 DEF Undisturbed, InFlight, Waiters
  <1>2. ASSUME NEW t \in Tabs, NEW u \in Users, SignIn(t, u) PROVE Undisturbed
    BY <1>1, <1>2 DEF SignIn
  <1>3. ASSUME NEW t \in Tabs, Enter(t) PROVE Undisturbed
    BY <1>1, <1>3 DEF Enter
  <1>4. ASSUME NEW p \in Pairs, Expire(p) PROVE Undisturbed
    BY <1>1, <1>4 DEF Expire
  <1>13. ASSUME NEW u \in Users, EndSessions(u) PROVE Undisturbed
    BY <1>1, <1>13 DEF EndSessions
  <1>5. ASSUME NEW r \in ApiCalls, NEW t \in Tabs, NEW kind \in Kinds, Ask(r, t, kind)
        PROVE  Undisturbed
    BY <1>5, OneCallChanges DEF Ask, Sent, IInv, BrowserTypeOK
  <1>6. ASSUME NEW r \in ApiCalls, Logout(r) \/ LogoutAll(r) PROVE Undisturbed
    <2>1. calls[r] \in Call /\ calls' = [calls EXCEPT ![r].stage = "served"]
      BY <1>6 DEF Logout, LogoutAll, IInv, BrowserTypeOK, NoCall
    <2>2. calls'[r].stage # "waiting"
      BY <2>1 DEF Call, IInv, BrowserTypeOK
    <2>3. \A q \in ApiCalls \ {r} : calls'[q] = calls[q]
      BY <2>1 DEF IInv, BrowserTypeOK
    <2>. QED BY <1>6, <2>2, <2>3, OneCallChanges DEF Logout, LogoutAll
  <1>7. ASSUME NEW r \in ApiCalls, EndCall(r) \/ Throw(r) PROVE Undisturbed
    <2>1. calls' = [calls EXCEPT ![r] = NoCall] /\ UNCHANGED flight
      BY <1>7 DEF EndCall, Throw, Return
    <2>. QED BY <2>1, OneCallChanges DEF IInv, BrowserTypeOK, NoCall
  <1>8. ASSUME NEW t \in Tabs, Rotate(t) PROVE Undisturbed
    BY <1>8, OneFlightChanges DEF Rotate, IInv, BrowserTypeOK
  <1>9. ASSUME NEW t \in Tabs, Reuse(t) \/ Fail(t) PROVE Undisturbed
    <2>1. flight' = [flight EXCEPT ![t].stage = "failed"] /\ UNCHANGED calls
      BY <1>9 DEF Reuse, Fail
    <2>2. flight'[t].stage # "none"
      BY <2>1 DEF IInv, BrowserTypeOK, Flights
    <2>3. \A s \in Tabs \ {t} : flight'[s] = flight[s]
      BY <2>1 DEF IInv, BrowserTypeOK
    <2>. QED BY <2>1, <2>2, <2>3, OneFlightChanges
  <1>10. ASSUME NEW r \in ApiCalls, Refused(r) PROVE WaitersHaveFlight'
    BY <1>10, RefusedWaits
  <1>11. ASSUME NEW t \in Tabs, Refreshed(t) \/ SignedOut(t) PROVE WaitersHaveFlight'
    BY <1>11, RefreshedResumes, SignedOutThrows
  <1>12. CASE UNCHANGED browserVars
    BY <1>1, <1>12, UndisturbedKeeps DEF browserVars
  <1>. QED BY <1>2, <1>3, <1>4, <1>5, <1>6, <1>7, <1>8, <1>9, <1>10, <1>11, <1>12,
              <1>13, UndisturbedKeeps DEF BrowserNext

(* However many calls of however many tabs are refused at once, none waits   *)
(* for a refresh that nobody is running (api-client.ts: tryRefresh and the   *)
(* calls that await its promise).                                            *)
THEOREM NoCallForgotten == BrowserSpec => []WaitersHaveFlight
  <1>1. BrowserInit => WaitersHaveFlight
    BY DEF BrowserInit, WaitersHaveFlight, Waiters, NoCall
  <1>. QED BY <1>1, InitTypes, NextTypes, NextWaiters, PTL DEF BrowserSpec
-----------------------------------------------------------------------------
(* The stored session                                                        *)

(* A call that is served is a logout or a logout-all, and the refresh token  *)
(* in a body was issued.                                                     *)
CallsKnown ==
  \A r \in ApiCalls :
    /\ calls[r].stage = "served" => calls[r].kind # "data"
    /\ calls[r].stage # "none" => calls[r].refresh \in {0} \cup Pairs

(* A pair that answers a sign-in is nowhere else before it is stored.        *)
Apart ==
  \A t \in Tabs : entry[t] # 0 =>
    /\ store # entry[t]
    /\ \A s \in Tabs : flight[s].pair # entry[t] /\ (s # t => entry[s] # entry[t])
    /\ \A r \in ApiCalls : calls[r].stage # "none" => calls[r].refresh # entry[t]

(* A pair is good when it can be refreshed or the server itself ended its    *)
(* session.                                                                  *)
Good == live \cup barred

(* While nothing has overlapped: one tab at most refreshes, its pair is of   *)
(* the session and, once exchanged, good, and so is the pair of a sign-in;   *)
Single ==
  /\ \A s, t \in Tabs : InFlight(s) /\ InFlight(t) => s = t
  /\ \A t \in Tabs : InFlight(t) => flight[t].pair \in session
  /\ \A t \in Tabs : flight[t].stage = "rotated" => flight[t].pair \in Good
  /\ \A t \in Tabs : entry[t] # 0 => entry[t] \in Good

(* while nothing was lost either, the refresh token that is sent is good;    *)
Unspent ==
  lost = 0 => reused = {} /\ \A t \in Tabs : flight[t].stage = "sent" => flight[t].pair \in Good

(* and the store holds what StoreIsSession says.                             *)
Stored ==
  /\ store = 0 <=> session = {}
  /\ store # 0 => /\ store \in session
                  /\ \/ store \in Good
                     \/ \E t \in Tabs : InFlight(t)
                     \/ \E r \in ApiCalls : calls[r].stage = "served"

Known == CallsKnown /\ Apart
Clean == Single /\ Unspent /\ Stored
SessionInv == Known /\ (blame = {} => Clean)

(* What has overlapped stays told.                                           *)
LEMMA BlameGrows == [BrowserNext]_browserVars => blame \subseteq blame'
  <1>. SUFFICES ASSUME [BrowserNext]_browserVars PROVE blame \subseteq blame'
    OBVIOUS
  <1>1. \A S : blame \subseteq Aside(S)
    BY DEF Aside
  <1>2. ASSUME NEW r \in ApiCalls, NEW kept, Return(r, kept) PROVE blame \subseteq blame'
    BY <1>1, <1>2 DEF Return
  <1>3. ASSUME NEW r \in ApiCalls, EndCall(r) \/ Throw(r) PROVE blame \subseteq blame'
    BY <1>2, <1>3 DEF EndCall, Throw
  <1>4. ASSUME NEW r \in ApiCalls, Refused(r) PROVE blame \subseteq blame'
    BY <1>4 DEF Refused, TryRefresh
  <1>5. ASSUME NEW r \in ApiCalls, Logout(r) \/ LogoutAll(r) PROVE blame \subseteq blame'
    BY <1>1, <1>5 DEF Logout, LogoutAll
  <1>6. ASSUME NEW t \in Tabs, Enter(t) \/ Reuse(t) PROVE blame \subseteq blame'
    BY <1>1, <1>6 DEF Enter, Reuse
  <1>7. ASSUME NEW t \in Tabs, Rotate(t) \/ Fail(t) \/ Refreshed(t) \/ SignedOut(t)
        PROVE  blame \subseteq blame'
    BY <1>7 DEF Rotate, Fail, Refreshed, SignedOut
  <1>. QED BY <1>3, <1>4, <1>5, <1>6, <1>7 DEF BrowserNext, browserVars, SignIn, Expire, EndSessions, Ask

(* A call begins with the stored refresh token in its body, or none, and     *)
(* keeps its kind and its body; a data call is not served.                   *)
Begins(r) == calls'[r].stage = "sent" /\ calls'[r].refresh \in {0, store}
GoesOn(r) == /\ calls[r].stage # "none"
             /\ calls'[r].kind = calls[r].kind /\ calls'[r].refresh = calls[r].refresh
             /\ calls'[r].stage = "served" => calls[r].kind # "data"
CallMoves == \A r \in ApiCalls :
  calls'[r] = calls[r] \/ calls'[r].stage = "none" \/ Begins(r) \/ GoesOn(r)

LEMMA StageChanges ==
  ASSUME IInv, NEW r \in ApiCalls, calls[r].stage # "none",
         NEW stage \in {"served", "waiting"}, stage = "served" => calls[r].kind # "data",
         calls' = [calls EXCEPT ![r].stage = stage]
  PROVE  CallMoves
  <1>1. calls[r] \in Call
    BY DEF IInv, BrowserTypeOK, NoCall
  <1>2. /\ calls'[r].kind = calls[r].kind /\ calls'[r].refresh = calls[r].refresh
        /\ calls'[r].stage = stage
    BY <1>1 DEF IInv, BrowserTypeOK, Call
  <1>3. \A q \in ApiCalls \ {r} : calls'[q] = calls[q]
    BY DEF IInv, BrowserTypeOK
  <1>. QED BY <1>2, <1>3 DEF CallMoves, GoesOn

LEMMA CallsMove == ASSUME IInv, [BrowserNext]_browserVars PROVE CallMoves
  <1>1. ASSUME UNCHANGED calls PROVE CallMoves
    BY <1>1 DEF CallMoves
  <1>2. ASSUME NEW r \in ApiCalls, NEW t \in Tabs, NEW kind \in Kinds, Ask(r, t, kind)
        PROVE  CallMoves
    <2>1. calls'[r] = Sent(t, kind, store, IF kind = "data" THEN 0 ELSE store, FALSE)
      BY <1>2 DEF Ask, IInv, BrowserTypeOK
    <2>2. \A q \in ApiCalls \ {r} : calls'[q] = calls[q]
      BY <1>2 DEF Ask, IInv, BrowserTypeOK
    <2>3. Begins(r)
      BY <2>1 DEF Sent, Begins
    <2>. QED BY <2>2, <2>3 DEF CallMoves
  <1>3. ASSUME NEW r \in ApiCalls, Logout(r) \/ LogoutAll(r) PROVE CallMoves
    BY <1>3, StageChanges DEF Logout, LogoutAll
  <1>4. ASSUME NEW r \in ApiCalls, EndCall(r) \/ Throw(r) PROVE CallMoves
    <2>1. calls' = [calls EXCEPT ![r] = NoCall]
      BY <1>4 DEF EndCall, Throw, Return
    <2>. QED BY <2>1 DEF CallMoves, IInv, BrowserTypeOK, NoCall
  <1>5. ASSUME NEW r \in ApiCalls, Refused(r) PROVE CallMoves
    BY <1>5, StageChanges DEF Refused, Rejected
  <1>6. ASSUME NEW t \in Tabs, Refreshed(t) PROVE CallMoves
    <2>1. \A r \in ApiCalls \ Waiters(t) : calls'[r] = calls[r]
      BY <1>6 DEF Refreshed
    <2>2. ASSUME NEW r \in Waiters(t) PROVE GoesOn(r)
      <3>1. calls'[r] = Sent(t, calls[r].kind, store', calls[r].refresh, TRUE)
        BY <1>6, <2>2 DEF Refreshed, Waiters
      <3>2. calls[r].stage # "none"
        BY <2>2 DEF Waiters
      <3>. QED BY <3>1, <3>2 DEF Sent, GoesOn
    <2>. QED BY <2>1, <2>2 DEF CallMoves
  <1>7. ASSUME NEW t \in Tabs, SignedOut(t) PROVE CallMoves
    BY <1>7 DEF SignedOut, CallMoves, NoCall
  <1>. QED BY <1>1, <1>2, <1>3, <1>4, <1>5, <1>6, <1>7
           DEF BrowserNext, browserVars, SignIn, Enter, Expire, EndSessions, Rotate, Reuse, Fail

(* Pairs are only added.                                                     *)
LEMMA PairsGrow == ASSUME IInv, [BrowserNext]_browserVars PROVE Pairs \subseteq Pairs'
  <1>1. ASSUME NEW t \in Tabs, NEW u \in Users, SignIn(t, u) PROVE Pairs \subseteq Pairs'
    BY <1>1, OneMorePair DEF SignIn, IInv
  <1>2. ASSUME NEW t \in Tabs, Rotate(t) PROVE Pairs \subseteq Pairs'
    <2>1. flight[t].pair \in 1..Len(owner) /\ owner \in Seq(Users)
      BY <1>2 DEF Rotate, IInv, BrowserTypeOK, Pairs
    <2>2. owner[flight[t].pair] \in Users
      BY <2>1
    <2>. QED BY <1>2, <2>2, OneMorePair DEF Rotate, IInv
  <1>3. ASSUME owner' = owner PROVE Pairs \subseteq Pairs'
    BY <1>3, SamePairs
  <1>4. ASSUME NEW r \in ApiCalls, EndCall(r) \/ Throw(r) \/ Refused(r) PROVE owner' = owner
    BY <1>4 DEF EndCall, Throw, Return, Refused, server
  <1>. QED BY <1>1, <1>2, <1>3, <1>4
           DEF BrowserNext, browserVars, server, Enter, Expire, EndSessions, Ask, Logout, LogoutAll, Reuse, Fail, Refreshed, SignedOut

LEMMA KnownCalls == ASSUME IInv, CallsKnown, [BrowserNext]_browserVars PROVE CallsKnown'
  <1>1. CallMoves /\ Pairs \subseteq Pairs'
    BY CallsMove, PairsGrow
  <1>2. store \in {0} \cup Pairs
    BY DEF IInv, BrowserTypeOK
  <1>. QED BY <1>1, <1>2 DEF CallsKnown, CallMoves, Begins, GoesOn

(* A sign-in's pair stays apart in the steps of the others: what they store, *)
(* send or put in a body is what was stored or sent, or new.                 *)
LEMMA ApartKept ==
  ASSUME IInv, Apart, CallMoves, UNCHANGED entry,
         \/ store' \in {store, 0}
         \/ \E t \in Tabs : store' = flight[t].pair,
         \A s \in Tabs : flight'[s].pair \in {flight[s].pair, 0, store, Len(owner) + 1}
  PROVE  Apart'
  <1>. SUFFICES ASSUME NEW t \in Tabs, entry[t] # 0
                PROVE  /\ store' # entry[t]
                       /\ \A s \in Tabs : flight'[s].pair # entry[t] /\ (s # t => entry[s] # entry[t])
                       /\ \A r \in ApiCalls : calls'[r].stage # "none" => calls'[r].refresh # entry[t]
    BY DEF Apart
  <1>1. entry[t] \in Pairs /\ entry[t] # Len(owner) + 1
    BY DEF IInv, BrowserTypeOK, Pairs
  <1>2. store' # entry[t]
    BY DEF Apart
  <1>3. \A s \in Tabs : flight'[s].pair # entry[t] /\ (s # t => entry[s] # entry[t])
    BY <1>1 DEF Apart
  <1>4. ASSUME NEW r \in ApiCalls, calls'[r].stage # "none" PROVE calls'[r].refresh # entry[t]
    BY <1>4 DEF Apart, CallMoves, Begins, GoesOn
  <1>. QED BY <1>2, <1>3, <1>4

LEMMA ApartStep == ASSUME IInv, Known, [BrowserNext]_browserVars PROVE Apart'
  <1>0. CallMoves
    BY CallsMove
  <1>1. ASSUME NEW t \in Tabs, NEW u \in Users, SignIn(t, u) PROVE Apart'
    <2>1. entry' = [entry EXCEPT ![t] = Len(owner) + 1] /\ UNCHANGED <<store, flight, calls>>
      BY <1>1, OneMorePair DEF SignIn, IInv
    <2>2. \A p \in {0} \cup Pairs : p # Len(owner) + 1
      BY DEF Pairs, IInv, BrowserTypeOK
    <2>3. store # Len(owner) + 1 /\ \A s \in Tabs : entry[s] # Len(owner) + 1
      BY <2>2 DEF IInv, BrowserTypeOK
    <2>4. \A s \in Tabs : flight[s].pair # Len(owner) + 1
      BY <2>2 DEF IInv, FlightsIssued
    <2>5. \A r \in ApiCalls : calls[r].stage # "none" => calls[r].refresh # Len(owner) + 1
      BY <2>2 DEF Known, CallsKnown
    <2>6. \A s \in Tabs : entry'[s] = IF s = t THEN Len(owner) + 1 ELSE entry[s]
      BY <2>1 DEF IInv, BrowserTypeOK
    <2>. QED BY <2>1, <2>3, <2>4, <2>5, <2>6 DEF Known, Apart
  <1>2. ASSUME NEW t \in Tabs, Enter(t) PROVE Apart'
    <2>1. \A s \in Tabs : entry'[s] = IF s = t THEN 0 ELSE entry[s]
      BY <1>2 DEF Enter, IInv, BrowserTypeOK
    <2>. QED BY <1>2, <2>1 DEF Enter, Known, Apart
  <1>3. ASSUME NEW r \in ApiCalls, EndCall(r) \/ Throw(r) PROVE Apart'
    <2>1. store' \in {store, 0} /\ UNCHANGED <<entry, flight>>
      BY <1>3 DEF EndCall, Throw, Return, Left
    <2>. QED BY <1>0, <2>1, ApartKept DEF Known
  <1>4. ASSUME NEW r \in ApiCalls, Refused(r) PROVE Apart'
    <2>1. \A s \in Tabs : flight'[s].pair \in {flight[s].pair, store}
      BY <1>4 DEF Refused, TryRefresh, IInv, BrowserTypeOK
    <2>. QED BY <1>0, <1>4, <2>1, ApartKept DEF Known, Refused
  <1>5. ASSUME NEW t \in Tabs, Rotate(t) PROVE Apart'
    <2>1. Len(owner') = Len(owner) + 1
      BY <1>5 DEF Rotate, IInv, BrowserTypeOK
    <2>2. \A s \in Tabs : flight'[s] = IF s = t THEN [stage |-> "rotated", pair |-> Len(owner')]
                                                 ELSE flight[s]
      BY <1>5 DEF Rotate, IInv, BrowserTypeOK
    <2>3. \A s \in Tabs : flight'[s].pair \in {flight[s].pair, Len(owner) + 1}
      BY <2>1, <2>2
    <2>. QED BY <1>0, <1>5, <2>3, ApartKept DEF Known, Rotate
  <1>6. ASSUME NEW t \in Tabs, Reuse(t) \/ Fail(t) PROVE Apart'
    <2>1. \A s \in Tabs : flight'[s].pair = flight[s].pair
      <3>1. flight' = [flight EXCEPT ![t].stage = "failed"] /\ flight \in [Tabs -> Flights]
        BY <1>6 DEF Reuse, Fail, IInv, BrowserTypeOK
      <3>. QED BY <3>1 DEF Flights
    <2>. QED BY <1>0, <1>6, <2>1, ApartKept DEF Known, Reuse, Fail
  <1>7. ASSUME NEW t \in Tabs, Refreshed(t) \/ SignedOut(t) PROVE Apart'
    <2>1. \A s \in Tabs : flight'[s].pair \in {flight[s].pair, 0}
      <3>1. \A s \in Tabs : flight'[s] = IF s = t THEN NoFlight ELSE flight[s]
        BY <1>7 DEF Refreshed, SignedOut, IInv, BrowserTypeOK
      <3>. QED BY <3>1 DEF NoFlight
    <2>2. store' = flight[t].pair \/ store' = 0
      BY <1>7 DEF Refreshed, SignedOut
    <2>. QED BY <1>0, <1>7, <2>1, <2>2, ApartKept DEF Known, Refreshed, SignedOut
  <1>8. CASE UNCHANGED <<store, flight, entry>>
    BY <1>0, <1>8, ApartKept DEF Known
  <1>. QED BY <1>1, <1>2, <1>3, <1>4, <1>5, <1>6, <1>7, <1>8
           DEF BrowserNext, browserVars, Expire, EndSessions, Ask, Logout, LogoutAll

LEMMA KnownStep == IInv /\ Known /\ [BrowserNext]_browserVars => Known'
  BY KnownCalls, ApartStep DEF Known

(* Nothing has overlapped, neither before a step nor in it.                  *)
Unblamed == IInv /\ Known /\ Clean /\ blame' = {}

LEMMA NobodyAside == ASSUME NEW S, blame' = Aside(S), blame' = {} PROVE S = {}
  BY DEF Aside

(* Steps of the tabs, one lemma each.                                        *)
LEMMA SignInClean == ASSUME Unblamed, NEW t \in Tabs, NEW u \in Users, SignIn(t, u) PROVE Clean'
  <1>1. /\ entry' = [entry EXCEPT ![t] = Len(owner')] /\ live' = live \cup {Len(owner')}
        /\ UNCHANGED <<store, flight, calls, lost, session, barred, reused>>
    BY DEF SignIn
  <1>2. \A s \in Tabs : entry'[s] = entry[s] \/ entry'[s] \in Good'
    BY <1>1 DEF Unblamed, IInv, BrowserTypeOK, Good
  <1>0. Good \subseteq Good'
    BY <1>1 DEF Good
  <1>3. Single'
    BY <1>0, <1>1, <1>2 DEF Unblamed, Clean, Single, InFlight
  <1>4. Unspent' /\ Stored'
    BY <1>0, <1>1 DEF Unblamed, Clean, Unspent, Stored, InFlight
  <1>. QED BY <1>3, <1>4 DEF Clean

LEMMA EnterClean == ASSUME Unblamed, NEW t \in Tabs, Enter(t) PROVE Clean'
  <1>1. /\ entry[t] # 0 /\ store' = entry[t] /\ session' = {entry[t]}
        /\ entry' = [entry EXCEPT ![t] = 0]
        /\ UNCHANGED <<live, barred, reused, flight, calls, lost>>
    BY DEF Enter, server
  <1>2. \A s \in Tabs : ~InFlight(s)
    BY NobodyAside DEF Unblamed, Enter
  <1>3. entry[t] \in Good /\ Good' = Good
    BY <1>1 DEF Unblamed, Clean, Single, Good
  <1>4. \A s \in Tabs : entry'[s] \in {entry[s], 0}
    BY <1>1 DEF Unblamed, IInv, BrowserTypeOK
  <1>5. Single'
    BY <1>1, <1>2, <1>3, <1>4 DEF Unblamed, Clean, Single, InFlight
  <1>6. Unspent' /\ Stored'
    BY <1>1, <1>3 DEF Unblamed, Clean, Unspent, Stored
  <1>. QED BY <1>5, <1>6 DEF Clean

(* The new flight is the only one, and its pair the one in the store, which  *)
(* is good since nobody else is about to spend it.                           *)
LEMMA RefusedClean == ASSUME Unblamed, NEW r \in ApiCalls, Refused(r) PROVE Clean'
  <1> DEFINE t == calls[r].tab
  <1>1. /\ store # 0 /\ TryRefresh(t) /\ calls' = [calls EXCEPT ![r].stage = "waiting"]
        /\ UNCHANGED <<live, barred, reused, store, entry, lost, session>>
        /\ calls[r].stage = "sent"
    BY DEF Refused, Rejected, server
  <1>2. calls[r] \in Call /\ t \in Tabs
    BY <1>1 DEF Unblamed, IInv, BrowserTypeOK, NoCall, Call
  <1>3. \A q \in ApiCalls : calls[q].stage = "served" => calls'[q].stage = "served"
    BY <1>1 DEF Unblamed, IInv, BrowserTypeOK
  <1>6. Good' = Good
    BY <1>1 DEF Good
  <1> HIDE DEF t
  <1>4. CASE InFlight(t)
    <2>1. UNCHANGED flight
      BY <1>1, <1>4 DEF TryRefresh
    <2>. QED BY <1>1, <1>3, <1>6, <2>1 DEF Unblamed, Clean, Single, Unspent, Stored, InFlight
  <1>5. CASE ~InFlight(t)
    <2>1. \A s \in Tabs : flight'[s] = IF s = t THEN [stage |-> "sent", pair |-> store] ELSE flight[s]
      BY <1>1, <1>2, <1>5 DEF TryRefresh, Unblamed, IInv, BrowserTypeOK
    <2>2. /\ \A s \in Tabs \ {t} : ~InFlight(s)
          /\ \A q \in ApiCalls : calls[q].stage # "served"
      <3>1. blame' = blame \cup {b \in {"tabs"} : \E s \in Tabs \ {t} : InFlight(s)}
                           \cup {b \in {"crossed"} : \E q \in ApiCalls : calls[q].stage = "served"}
        BY <1>1, <1>5 DEF TryRefresh
      <3>. QED BY <3>1 DEF Unblamed
    <2>3. store \in Good /\ store \in session
      BY <1>1, <1>5, <2>2 DEF Unblamed, Clean, Stored
    <2>4. \A s \in Tabs : InFlight(s)' => s = t
      BY <2>1, <2>2 DEF InFlight
    <2>5. flight'[t].stage = "sent" /\ flight'[t].pair = store
      BY <1>2, <2>1
    <2>6. \A s \in Tabs \ {t} : flight'[s].stage = "none"
      BY <2>1, <2>2 DEF InFlight
    <2>7. Single'
      BY <1>1, <1>6, <2>3, <2>4, <2>5, <2>6 DEF Unblamed, Clean, Single, InFlight
    <2>8. Unspent' /\ Stored'
      BY <1>1, <1>6, <2>3, <2>5, <2>6 DEF Unblamed, Clean, Unspent, Stored
    <2>. QED BY <2>7, <2>8 DEF Clean
  <1>. QED BY <1>4, <1>5

(* A tab's flight goes on: the others have none.                             *)
LEMMA FlightGoesOn ==
  ASSUME IInv, Single, NEW t \in Tabs, InFlight(t), NEW f, f.stage # "none",
         flight' = [flight EXCEPT ![t] = f], f.pair \in session', f.stage = "rotated" => f.pair \in Good',
         \A s \in Tabs : entry'[s] # 0 => entry'[s] \in Good'
  PROVE  Single' /\ flight'[t] = f /\ \A s \in Tabs \ {t} : flight'[s].stage = "none"
  <1>1. flight'[t] = f /\ \A s \in Tabs \ {t} : flight'[s] = flight[s]
    BY DEF IInv, BrowserTypeOK
  <1>2. \A s \in Tabs \ {t} : flight[s].stage = "none"
    BY DEF Single, InFlight
  <1>. QED BY <1>1, <1>2 DEF Single, InFlight

LEMMA RotateClean == ASSUME Unblamed, NEW t \in Tabs, Rotate(t) PROVE Clean'
  <1> DEFINE p == flight[t].pair
  <1> DEFINE new == Len(owner')
  <1>1. /\ flight[t].stage = "sent" /\ InFlight(t) /\ p \in live
        /\ live' = (live \ {p}) \cup {new}
        /\ flight' = [flight EXCEPT ![t] = [stage |-> "rotated", pair |-> new]]
        /\ UNCHANGED <<store, calls, entry, lost, barred, reused>>
    BY DEF Rotate, InFlight
  <1>2. p \in session /\ session' = session \cup {new}
    BY <1>1 DEF Rotate, Unblamed, Clean, Single
  <1>3. \A s \in Tabs : entry'[s] # 0 => entry'[s] \in Good'
    BY <1>1 DEF Unblamed, Clean, Single, Known, Apart, Good
  <1> DEFINE f == [stage |-> "rotated", pair |-> new]
  <1>4. f.stage = "rotated" /\ f.pair \in session' /\ f.pair \in Good'
    BY <1>1, <1>2 DEF Good
  <1>5. flight' = [flight EXCEPT ![t] = f]
    BY <1>1
  <1> HIDE DEF f
  <1>6. Single' /\ flight'[t] = f /\ \A s \in Tabs \ {t} : flight'[s].stage = "none"
    BY <1>1, <1>3, <1>4, <1>5, FlightGoesOn DEF Unblamed, Clean
  <1>7. flight'[t].stage = "rotated"
    BY <1>6, <1>4
  <1>8. Unspent'
    BY <1>1, <1>6, <1>7 DEF Unblamed, Clean, Unspent
  <1>9. Stored'
    <2>1. InFlight(t)'
      BY <1>7 DEF InFlight
    <2>2. session # {} /\ session' # {} /\ session \subseteq session'
      BY <1>2
    <2>. QED BY <1>1, <2>1, <2>2 DEF Unblamed, Clean, Stored
  <1>. QED BY <1>6, <1>8, <1>9 DEF Clean

LEMMA FailedClean ==
  ASSUME Unblamed, NEW t \in Tabs, InFlight(t), flight' = [flight EXCEPT ![t].stage = "failed"],
         UNCHANGED <<store, calls, entry, session>>,
         \A s \in Tabs : entry[s] # 0 => entry[s] \in Good',
         lost' = 0 => reused' = {}
  PROVE  Clean'
  <1> DEFINE f == [stage |-> "failed", pair |-> flight[t].pair]
  <1>1. flight' = [flight EXCEPT ![t] = f]
    <2>1. flight \in [Tabs -> Flights]
      BY DEF Unblamed, IInv, BrowserTypeOK
    <2>2. [flight[t] EXCEPT !.stage = "failed"] = f
      BY <2>1 DEF Flights
    <2>. QED BY <2>1, <2>2
  <1>2. f.stage = "failed" /\ f.pair = flight[t].pair
    OBVIOUS
  <1> HIDE DEF f
  <1>3. f.pair \in session'
    BY <1>2 DEF Unblamed, Clean, Single
  <1>4. Single' /\ flight'[t] = f /\ \A s \in Tabs \ {t} : flight'[s].stage = "none"
    BY <1>1, <1>2, <1>3, FlightGoesOn DEF Unblamed, Clean
  <1>5. flight'[t].stage = "failed"
    BY <1>2, <1>4
  <1>6. Unspent'
    BY <1>4, <1>5 DEF Unspent
  <1>7. Stored'
    <2>1. InFlight(t)'
      BY <1>5 DEF InFlight
    <2>. QED BY <2>1 DEF Unblamed, Clean, Stored
  <1>. QED BY <1>4, <1>6, <1>7 DEF Clean

(* The pair a tab sends is not live: then the server ended its session, or   *)
(* an answer was lost before.                                                *)
LEMMA ReuseClean == ASSUME Unblamed, NEW t \in Tabs, Reuse(t) PROVE Clean'
  <1>1. \A s \in Tabs : entry[s] = 0
    BY NobodyAside DEF Unblamed, Reuse
  <1>2. lost' = 0 => reused' = {}
    BY DEF Reuse, Unblamed, Clean, Unspent, Good
  <1>. QED BY <1>1, <1>2, FailedClean DEF Reuse, InFlight

LEMMA FailClean == ASSUME Unblamed, NEW t \in Tabs, Fail(t) PROVE Clean'
  <1>1. /\ InFlight(t) /\ flight' = [flight EXCEPT ![t].stage = "failed"]
        /\ UNCHANGED <<live, barred, reused, store, calls, entry, session>>
        /\ lost' = lost + 1 \/ lost' = lost
    BY DEF Fail, InFlight, server
  <1>2. lost \in Nat
    BY BrowserAssumption DEF Unblamed, IInv, BrowserTypeOK
  <1>3. lost' = 0 => reused' = {}
    BY <1>1, <1>2 DEF Unblamed, Clean, Unspent
  <1>4. \A s \in Tabs : entry[s] # 0 => entry[s] \in Good'
    BY <1>1 DEF Unblamed, Clean, Single, Good
  <1>. QED BY <1>1, <1>3, <1>4, FailedClean

(* The end of the only flight.                                               *)
LEMMA FlightOver ==
  ASSUME IInv, Single, NEW t \in Tabs, InFlight(t), flight' = [flight EXCEPT ![t] = NoFlight]
  PROVE  \A s \in Tabs : flight'[s].stage = "none"
  <1>1. flight'[t] = NoFlight /\ \A s \in Tabs \ {t} : flight'[s] = flight[s]
    BY DEF IInv, BrowserTypeOK
  <1>2. \A s \in Tabs \ {t} : flight[s].stage = "none"
    BY DEF Single, InFlight
  <1>. QED BY <1>1, <1>2 DEF NoFlight

LEMMA GroundedClean ==
  ASSUME Unblamed, \A s \in Tabs : flight'[s].stage = "none", UNCHANGED <<entry, lost, barred, reused>>,
         \A s \in Tabs : entry[s] # 0 => entry[s] \in Good', Stored'
  PROVE  Clean'
  <1>1. Single'
    BY DEF Unblamed, Clean, Single, InFlight
  <1>2. Unspent'
    BY DEF Unblamed, Clean, Unspent
  <1>. QED BY <1>1, <1>2 DEF Clean

LEMMA RefreshedClean == ASSUME Unblamed, NEW t \in Tabs, Refreshed(t) PROVE Clean'
  <1>1. /\ flight[t].stage = "rotated" /\ InFlight(t) /\ store' = flight[t].pair
        /\ flight' = [flight EXCEPT ![t] = NoFlight]
        /\ UNCHANGED <<live, barred, reused, entry, lost, session>>
    BY DEF Refreshed, InFlight, server
  <1>2. store' \in session /\ store' \in Good /\ Good' = Good
    BY <1>1 DEF Unblamed, Clean, Single, Good
  <1>3. store' # 0
    BY <1>2 DEF Unblamed, IInv, BrowserTypeOK, Pairs
  <1>4. Stored'
    BY <1>1, <1>2, <1>3 DEF Stored
  <1>5. \A s \in Tabs : flight'[s].stage = "none"
    BY <1>1, FlightOver DEF Unblamed, Clean
  <1>6. \A s \in Tabs : entry[s] # 0 => entry[s] \in Good'
    BY <1>1 DEF Unblamed, Clean, Single, Good
  <1>. QED BY <1>1, <1>4, <1>5, <1>6, GroundedClean

LEMMA SignedOutClean == ASSUME Unblamed, NEW t \in Tabs, SignedOut(t) PROVE Clean'
  <1>1. /\ flight[t].stage = "failed" /\ InFlight(t) /\ store' = 0
        /\ flight' = [flight EXCEPT ![t] = NoFlight]
        /\ UNCHANGED <<live, barred, reused, entry, lost>>
    BY DEF SignedOut, InFlight, server
  <1>2. session' = {}
    BY <1>1 DEF SignedOut, Unblamed, Clean, Single
  <1>3. Stored'
    BY <1>1, <1>2 DEF Stored
  <1>4. \A s \in Tabs : flight'[s].stage = "none"
    BY <1>1, FlightOver DEF Unblamed, Clean
  <1>5. \A s \in Tabs : entry[s] # 0 => entry[s] \in Good'
    BY <1>1 DEF Unblamed, Clean, Single, Good
  <1>. QED BY <1>1, <1>3, <1>4, <1>5, GroundedClean

(* Steps of the calls.                                                       *)
LEMMA LeaveServed ==
  ASSUME Unblamed, NEW r \in ApiCalls, Logout(r) \/ LogoutAll(r) PROVE Clean'
  <1>1. /\ calls[r].stage = "sent" /\ calls' = [calls EXCEPT ![r].stage = "served"]
        /\ UNCHANGED <<store, flight, entry, lost, session, barred, reused>>
    BY DEF Logout, LogoutAll
  <1>2. \A s \in Tabs : flight'[s].stage = "none"
    BY <1>1, NobodyAside DEF Logout, LogoutAll, Unblamed, InFlight
  <1>3. \A s \in Tabs : entry[s] # 0 => entry[s] \in Good'
    <2>1. CASE Logout(r)
      BY <2>1 DEF Logout, Unblamed, Clean, Single, Known, Apart, Good
    <2>2. CASE LogoutAll(r)
      BY <2>2, NobodyAside DEF LogoutAll, Unblamed
    <2>. QED BY <2>1, <2>2
  <1>4. calls'[r].stage = "served"
    <2>1. calls[r] \in Call
      BY <1>1 DEF Unblamed, IInv, BrowserTypeOK, NoCall
    <2>. QED BY <1>1, <2>1 DEF Unblamed, IInv, BrowserTypeOK, Call
  <1>5. Stored'
    BY <1>1, <1>4 DEF Unblamed, Clean, Stored
  <1>. QED BY <1>1, <1>2, <1>3, <1>5, GroundedClean

(* A data call that is over leaves everything but itself as it was.          *)
LEMMA SameClean ==
  ASSUME Unblamed, Good' = Good, UNCHANGED <<store, flight, entry, lost, session>>,
         barred \subseteq barred', reused' = reused,
         \A r \in ApiCalls : calls[r].stage = "served" => calls'[r].stage = "served"
  PROVE  Clean'
  BY DEF Unblamed, Clean, Single, Unspent, Stored, InFlight

LEMMA ReturnClean ==
  ASSUME Unblamed, NEW r \in ApiCalls, NEW kept, Return(r, kept),
         calls[r].kind = "data" => kept = store, calls[r].kind # "data" => kept = 0
  PROVE  Clean'
  <1>1. /\ calls' = [calls EXCEPT ![r] = NoCall] /\ store' = kept
        /\ UNCHANGED <<live, barred, reused, flight, entry, lost>>
    BY DEF Return, server
  <1>2. CASE calls[r].kind = "data"
    <2>1. calls[r].stage # "served"
      BY <1>2 DEF Unblamed, Known, CallsKnown
    <2>2. \A q \in ApiCalls : calls[q].stage = "served" => calls'[q].stage = "served"
      BY <1>1, <2>1 DEF Unblamed, IInv, BrowserTypeOK
    <2>. QED BY <1>1, <1>2, <2>2, SameClean DEF Return, Good
  <1>3. CASE calls[r].kind # "data"
    <2>1. session' = {} /\ store' = 0 /\ blame' = Aside({t \in Tabs : InFlight(t)})
      BY <1>1, <1>3 DEF Return
    <2>2. \A s \in Tabs : flight'[s].stage = "none"
      BY <1>1, <2>1, NobodyAside DEF Unblamed, InFlight
    <2>3. Stored'
      BY <2>1 DEF Stored
    <2>4. \A s \in Tabs : entry[s] # 0 => entry[s] \in Good'
      BY <1>1 DEF Unblamed, Clean, Single, Good
    <2>. QED BY <1>1, <2>2, <2>3, <2>4, GroundedClean
  <1>. QED BY <1>2, <1>3

LEMMA CallClean ==
  ASSUME Unblamed, NEW r \in ApiCalls, EndCall(r) \/ Throw(r) PROVE Clean'
  <1>1. CASE EndCall(r)
    BY <1>1, ReturnClean DEF EndCall, Left
  <1>2. CASE Throw(r)
    BY <1>2, ReturnClean DEF Throw, Left
  <1>. QED BY <1>1, <1>2

LEMMA AskClean ==
  ASSUME Unblamed, NEW r \in ApiCalls, NEW t \in Tabs, NEW kind \in Kinds, Ask(r, t, kind)
  PROVE  Clean'
  <1>1. \A q \in ApiCalls : calls[q].stage = "served" => calls'[q].stage = "served"
    BY DEF Ask, Unblamed, IInv, BrowserTypeOK
  <1>. QED BY <1>1, SameClean DEF Ask, server, Good

LEMMA CleanStep == ASSUME Unblamed, [BrowserNext]_browserVars PROVE Clean'
  <1>1. ASSUME NEW p \in Pairs, Expire(p) PROVE Clean'
    BY <1>1, SameClean DEF Expire, Good
  <1>2. CASE UNCHANGED browserVars
    BY <1>2, SameClean DEF browserVars, Good
  <1>3. ASSUME NEW t \in Tabs, NEW u \in Users, SignIn(t, u) PROVE Clean'
    BY <1>3, SignInClean
  <1>7. ASSUME NEW u \in Users, EndSessions(u) PROVE Clean'
    BY <1>7, SameClean DEF EndSessions, Good
  <1>4. ASSUME NEW t \in Tabs,
               \/ Enter(t) \/ Rotate(t) \/ Reuse(t) \/ Fail(t) \/ Refreshed(t) \/ SignedOut(t)
        PROVE  Clean'
    BY <1>4, EnterClean, RotateClean, ReuseClean, FailClean, RefreshedClean, SignedOutClean
  <1>5. ASSUME NEW r \in ApiCalls,
               Logout(r) \/ LogoutAll(r) \/ EndCall(r) \/ Refused(r) \/ Throw(r)
        PROVE  Clean'
    BY <1>5, LeaveServed, CallClean, RefusedClean
  <1>6. ASSUME NEW r \in ApiCalls, NEW t \in Tabs, NEW kind \in Kinds, Ask(r, t, kind) PROVE Clean'
    BY <1>6, AskClean
  <1>. QED BY <1>1, <1>2, <1>3, <1>4, <1>5, <1>6, <1>7 DEF BrowserNext

LEMMA SessionInvHolds == BrowserSpec => []SessionInv
  <1>1. BrowserInit => SessionInv
    <2>. SUFFICES ASSUME BrowserInit PROVE SessionInv
      OBVIOUS
    <2>1. Known
      BY DEF BrowserInit, Known, CallsKnown, Apart, NoCall
    <2>2. \A t \in Tabs : flight[t].stage = "none"
      BY DEF BrowserInit, NoFlight
    <2>3. Clean
      BY <2>2 DEF BrowserInit, Clean, Single, Unspent, Stored, InFlight
    <2>. QED BY <2>1, <2>3 DEF SessionInv
  <1>2. IInv /\ SessionInv /\ [BrowserNext]_browserVars => SessionInv'
    <2>. SUFFICES ASSUME IInv, SessionInv, [BrowserNext]_browserVars PROVE SessionInv'
      OBVIOUS
    <2>1. Known'
      BY KnownStep DEF SessionInv
    <2>2. ASSUME blame' = {} PROVE Clean'
      <3>1. blame = {}
        BY <2>2, BlameGrows
      <3>. QED BY <2>2, <3>1, CleanStep DEF Unblamed, SessionInv
    <2>. QED BY <2>1, <2>2 DEF SessionInv
  <1>. QED BY <1>1, <1>2, InitTypes, NextTypes, PTL DEF BrowserSpec

(* However tabs, calls, refreshes and the server's own revocations           *)
(* interleave: unless two tabs refreshed at once, an answer was lost, or a   *)
(* logout or a sign-in crossed a refresh, the only revoked refresh tokens    *)
(* the server sees of this browser are of sessions it ended itself.          *)
THEOREM ReuseIsExplained == BrowserSpec => []ReuseExplained
  <1>1. IInv /\ SessionInv => ReuseExplained
    <2>1. IInv => lost \in Nat
      BY BrowserAssumption DEF IInv, BrowserTypeOK
    <2>. QED BY <2>1 DEF SessionInv, Clean, Unspent, ReuseExplained
  <1>. QED BY <1>1, InitTypes, NextTypes, SessionInvHolds, PTL DEF BrowserSpec

(* Under the same condition the browser holds the session its user began     *)
(* and has not ended: nothing after a logout or a failed refresh, and        *)
(* otherwise a pair of that session that can still be refreshed, unless the  *)
(* server ended it.                                                          *)
THEOREM StoreHoldsSession == BrowserSpec => []StoreIsSession
  <1>1. SessionInv => StoreIsSession
    BY DEF SessionInv, Clean, Stored, StoreIsSession, Good
  <1>. QED BY <1>1, SessionInvHolds, PTL
=============================================================================
