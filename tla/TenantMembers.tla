---------------------------- MODULE TenantMembers ----------------------------
(***************************************************************************)
(* The memberships of several workspaces: managers add, invite, change and *)
(* remove members, invited people accept or join, and people without a     *)
(* workspace found one.                                                    *)
(*                                                                         *)
(* A request runs one statement per step and its write commits with the    *)
(* last one (READ COMMITTED): what it checked may no longer hold when it   *)
(* writes, and it writes by the row's id whatever the row has become.  A   *)
(* request that is refused, or dies, leaves nothing behind.                *)
(***************************************************************************)
EXTENDS Naturals, FiniteSets

CONSTANTS
  Users,       \* people in good standing
  Tenants,     \* workspaces, those that may still be founded included
  Requests,    \* requests that may be in progress at the same time
  Roles,       \* roles that are given out
  Updates,     \* what an update asks for: a role, a status (NONE: leave it), or both
  UserLimit,   \* the active members each workspace's plan allows
  MaxRequests, \* bound: how many requests there are
  MaxExpiries  \* bound: how many invitations pass their date

NONE == "NONE"
Managers == {"OWNER", "ADMIN"}
Statuses == {"INVITED", "ACTIVE", "SUSPENDED", "REMOVED"}

ASSUME MembersAssumption ==
  /\ IsFiniteSet(Users) /\ IsFiniteSet(Requests) /\ Requests # {}
  /\ Roles \subseteq {"OWNER", "ADMIN", "MEMBER", "SUPPORT"}
  /\ Updates \subseteq [role : Roles \cup {NONE}, status : {"ACTIVE", "SUSPENDED", NONE}]
  /\ UserLimit \in [Tenants -> Nat \ {0}]
  /\ MaxRequests \in Nat /\ MaxExpiries \in Nat

VARIABLES
  member,   \* the row of each user in each workspace
  req,      \* the requests in progress
  unasked,  \* history: activations of each workspace that never ask for the limit
  requests, \* how many requests there have been
  expiries  \* how many invitations have expired

vars == <<member, req, unasked, requests, expiries>>

NoRow  == [role |-> NONE, status |-> NONE, link |-> FALSE, expiry |-> NONE]
Idle   == [pc |-> "idle", op |-> NONE, tenant |-> {}, user |-> {}, by |-> NONE, role |-> NONE,
           status |-> NONE, seen |-> NoRow, overtaken |-> FALSE]
Joined(role)  == [NoRow EXCEPT !.role = role, !.status = "ACTIVE"]
Invited(role) == [role |-> role, status |-> "INVITED", link |-> TRUE, expiry |-> "later"]

Active(n)       == {u \in Users : member[n][u].status = "ACTIVE"}
Owners(n)       == {u \in Active(n) : member[n][u].role = "OWNER"}
Founded(n)      == \E u \in Users : member[n][u] # NoRow
SupportSeats(u) == {n \in Tenants : u \in Active(n) /\ member[n][u].role = "SUPPORT"}

At(r, op, pc)   == req[r].op = op /\ req[r].pc = pc
Goto(r, pc)     == req' = [req EXCEPT ![r].pc = pc]
Refuse(r)       == req' = [req EXCEPT ![r] = Idle]
Keep            == UNCHANGED <<member, unasked, requests, expiries>>

\* The transaction of r commits a row; what others have read of it may now be out of date.
Reading(x) == req[x].pc \notin {"idle", "asked"}
Commit(r, n, u, row) ==
  /\ member' = [member EXCEPT ![n][u] = row]
  /\ req' = [x \in Requests |->
       IF x = r THEN Idle
       ELSE [req[x] EXCEPT !.overtaken =
               @ \/ (Reading(x) /\ (req[x].tenant = {n} \/ req[x].user = {u}))]]

-----------------------------------------------------------------------------
(* Requests                                                                *)

Free(r) == req[r] = Idle /\ requests < MaxRequests

Begin(r, q) ==
  /\ Free(r)
  /\ requests' = requests + 1
  /\ req' = [req EXCEPT ![r] = q]
  /\ UNCHANGED <<member, unasked, expiries>>

\* Mutant of AdminBoundary: the boundary is not drawn.
NoBoundary(by, role) == TRUE
\* assertAdminBoundary
AdminBoundary(by, role) == ~(by = "ADMIN" /\ role = "OWNER")

\* authenticate and tenantContext read the caller's own row, the controller hands its role on.
Ask(r, n, u, op, by, role, status) ==
  /\ \E b \in Active(n) : member[n][b].role = by
  /\ by \in Managers
  /\ op \in {"add", "invite"} => AdminBoundary(by, role)
  /\ Begin(r, [Idle EXCEPT !.pc = "asked", !.op = op, !.tenant = {n}, !.user = {u}, !.by = by,
                           !.role = role, !.status = status])

Add(r, n, u, by, role)    == Ask(r, n, u, "add", by, role, NONE)
Invite(r, n, u, by, role) == Ask(r, n, u, "invite", by, role, NONE)
Cancel(r, n, u, by)       == Ask(r, n, u, "cancel", by, NONE, NONE)
Remove(r, n, u, by)       == Ask(r, n, u, "remove", by, NONE, NONE)
Update(r, n, u, by, to)   == Ask(r, n, u, "update", by, to.role, to.status)

NextRole(q)   == IF q.role = NONE THEN q.seen.role ELSE q.role
NextStatus(q) == IF q.status = NONE THEN q.seen.status ELSE q.status

-----------------------------------------------------------------------------
(* Checks that several requests make                                       *)

\* Mutant of WithinLimit: the member to be added is not counted.
WithinLimitNow(n) == Cardinality(Active(n)) <= UserLimit[n]
\* assertUserWithinLimit, with one more.
WithinLimit(n) == Cardinality(Active(n)) + 1 <= UserLimit[n]

\* assertSupportNotElsewhere; an update leaves out the workspace it is made in.
Elsewhere(r, n, u) == SupportSeats(u) \ (IF req[r].op = "update" THEN {n} ELSE {})

AssertSupport(r, n, u) ==
  /\ At(r, "invite", "asked") \/ At(r, "add", "support") \/ At(r, "update", "support")
  /\ IF NextRole(req[r]) = "SUPPORT" /\ Elsewhere(r, n, u) # {} THEN Refuse(r)
     ELSE Goto(r, CASE req[r].op = "invite" -> "row"
                    [] req[r].op = "add"    -> "write"
                    [] req[r].op = "update" -> "owners")
  /\ Keep

\* Mutant of Demotes: only a change of role is thought to end an ownership.
DemotesByRole(q) ==
  q.seen.role = "OWNER" /\ q.seen.status = "ACTIVE" /\ NextRole(q) # "OWNER" /\ q.op # "remove"
Demotes(q) ==
  /\ q.seen.role = "OWNER" /\ q.seen.status = "ACTIVE"
  /\ q.op = "remove" \/ ~(NextRole(q) = "OWNER" /\ NextStatus(q) = "ACTIVE")

ProtectLastOwner(r, n) ==
  /\ At(r, "update", "owners") \/ At(r, "remove", "owners")
  /\ IF Demotes(req[r]) /\ Cardinality(Owners(n)) <= 1 THEN Refuse(r) ELSE Goto(r, "write")
  /\ Keep

-----------------------------------------------------------------------------
(* add                                                                     *)

AddLimit(r, n) ==
  /\ At(r, "add", "asked")
  /\ IF WithinLimit(n) THEN Goto(r, "row") ELSE Refuse(r)
  /\ Keep

AddRead(r, n, u) ==
  /\ At(r, "add", "row")
  /\ IF member[n][u] = NoRow THEN Goto(r, "support") ELSE Refuse(r)
  /\ Keep

\* A row of the same user and workspace inserted meanwhile: the unique key refuses.
AddWrite(r, n, u) ==
  /\ At(r, "add", "write")
  /\ IF member[n][u] = NoRow THEN Commit(r, n, u, Joined(req[r].role))
     ELSE Refuse(r) /\ UNCHANGED member
  /\ UNCHANGED <<unasked, requests, expiries>>

-----------------------------------------------------------------------------
(* createInvitation, cancelInvitation                                      *)

InviteRead(r, n, u) ==
  /\ At(r, "invite", "row")
  /\ IF member[n][u].status \in {NONE, "INVITED", "REMOVED"}
     THEN req' = [req EXCEPT ![r].pc = "write", ![r].seen = member[n][u]]
     ELSE Refuse(r)
  /\ Keep

InviteWrite(r, n, u) ==
  /\ At(r, "invite", "write")
  /\ IF req[r].seen = NoRow /\ member[n][u] # NoRow
     THEN Refuse(r) /\ UNCHANGED member
     ELSE Commit(r, n, u, Invited(req[r].role))
  /\ UNCHANGED <<unasked, requests, expiries>>

CancelRead(r, n, u) ==
  /\ At(r, "cancel", "asked")
  /\ IF member[n][u].status = "INVITED" /\ AdminBoundary(req[r].by, member[n][u].role)
     THEN req' = [req EXCEPT ![r].pc = "write", ![r].seen = member[n][u]]
     ELSE Refuse(r)
  /\ Keep

\* Mutant of Removed: the link of the invitation stays.
RemovedLinked(row) == [row EXCEPT !.status = "REMOVED", !.expiry = NONE]
Removed(row) == [row EXCEPT !.status = "REMOVED", !.link = FALSE, !.expiry = NONE]

CancelWrite(r, n, u) ==
  /\ At(r, "cancel", "write")
  /\ Commit(r, n, u, Removed(member[n][u]))
  /\ UNCHANGED <<unasked, requests, expiries>>

-----------------------------------------------------------------------------
(* acceptInvitation, joinWorkspace                                         *)

\* By the link or the row's id.  The link of an ACTIVE member is answered with the membership
\* and changes nothing; an invitation that has expired is written REMOVED by the transaction
\* that then fails, so nothing is written.
Acceptable(row) == row.status = "INVITED" /\ row.expiry = "later"

AcceptRead(r, n, u) ==
  /\ Acceptable(member[n][u])
  /\ Begin(r, [Idle EXCEPT !.pc = "limit", !.op = "accept", !.tenant = {n}, !.user = {u}])

AcceptLimit(r, n) ==
  /\ At(r, "accept", "limit")
  /\ IF WithinLimit(n) THEN Goto(r, "write") ELSE Refuse(r)
  /\ Keep

Accepted(row) == [row EXCEPT !.status = "ACTIVE", !.expiry = NONE]

AcceptWrite(r, n, u) ==
  /\ At(r, "accept", "write")
  /\ Commit(r, n, u, Accepted(member[n][u]))
  /\ UNCHANGED <<unasked, requests, expiries>>

JoinRead(r, n, u) ==
  /\ Acceptable(member[n][u])
  /\ Begin(r, [Idle EXCEPT !.pc = "write", !.op = "join", !.tenant = {n}, !.user = {u}])

\* A new seat that was taken without asking.
Unasked(n, u) ==
  unasked' = [unasked EXCEPT ![n] =
    IF member[n][u].status # "ACTIVE" /\ member'[n][u].status = "ACTIVE" THEN @ + 1 ELSE @]

JoinWrite(r, n, u) ==
  /\ At(r, "join", "write")
  /\ Commit(r, n, u, Accepted(member[n][u]))
  /\ Unasked(n, u)
  /\ UNCHANGED <<requests, expiries>>

\* The date of an invitation passes.
Expire(n, u) ==
  /\ member[n][u].expiry = "later"
  /\ expiries < MaxExpiries
  /\ expiries' = expiries + 1
  /\ member' = [member EXCEPT ![n][u].expiry = "past"]
  /\ UNCHANGED <<req, unasked, requests>>

-----------------------------------------------------------------------------
(* update, remove                                                          *)

\* The first read of update and remove.
ReadTarget(r, n, u, pc) ==
  /\ IF /\ member[n][u].status \notin {NONE, "REMOVED"}
        /\ AdminBoundary(req[r].by, member[n][u].role)
        /\ AdminBoundary(req[r].by, req[r].role)
     THEN req' = [req EXCEPT ![r].pc = pc, ![r].seen = member[n][u]]
     ELSE Refuse(r)
  /\ Keep

UpdateRead(r, n, u) == At(r, "update", "asked") /\ ReadTarget(r, n, u, "support")
RemoveRead(r, n, u) == At(r, "remove", "asked") /\ ReadTarget(r, n, u, "owners")

\* Columns that were not asked for keep what they now hold.
Updated(row, q) ==
  [row EXCEPT !.role = IF q.role = NONE THEN @ ELSE q.role,
              !.status = IF q.status = NONE THEN @ ELSE q.status]

UpdateWrite(r, n, u) ==
  /\ At(r, "update", "write")
  /\ Commit(r, n, u, Updated(member[n][u], req[r]))
  /\ Unasked(n, u)
  /\ UNCHANGED <<requests, expiries>>

RemoveWrite(r, n, u) ==
  /\ At(r, "remove", "write")
  /\ Commit(r, n, u, Removed(member[n][u]))
  /\ UNCHANGED <<unasked, requests, expiries>>

-----------------------------------------------------------------------------
(* createWorkspace                                                         *)

Belongs(u) == \E n \in Tenants : member[n][u] # NoRow

CreateRead(r, u) ==
  /\ ~Belongs(u)
  /\ Begin(r, [Idle EXCEPT !.pc = "write", !.op = "create", !.user = {u}])

CreateWrite(r, n, u) ==
  /\ At(r, "create", "write")
  /\ ~Founded(n)
  /\ Commit(r, n, u, Joined("OWNER"))
  /\ UNCHANGED <<unasked, requests, expiries>>

-----------------------------------------------------------------------------
\* The workspaces there are have been founded, each by a person of its own.
Init ==
  /\ \E founder \in [Tenants -> Users \cup {NONE}] :
       /\ \E n \in Tenants : founder[n] # NONE
       /\ \A m, n \in Tenants : founder[m] = founder[n] => m = n \/ founder[n] = NONE
       /\ member = [n \in Tenants |-> [u \in Users |->
                      IF founder[n] = u THEN Joined("OWNER") ELSE NoRow]]
  /\ req = [r \in Requests |-> Idle]
  /\ unasked = [n \in Tenants |-> 0]
  /\ requests = 0
  /\ expiries = 0

Asked(r) ==
  /\ Free(r)
  /\ \E u \in Users :
       \/ CreateRead(r, u)
       \/ \E n \in Tenants :
            \/ AcceptRead(r, n, u) \/ JoinRead(r, n, u)
            \/ \E by \in Managers :
                 \/ \E role \in Roles : Add(r, n, u, by, role) \/ Invite(r, n, u, by, role)
                 \/ \E to \in Updates : Update(r, n, u, by, to)
                 \/ Cancel(r, n, u, by) \/ Remove(r, n, u, by)

Checked(r) ==
  \E n \in req[r].tenant, u \in req[r].user :
    \/ AddLimit(r, n) \/ AddRead(r, n, u) \/ AssertSupport(r, n, u)
    \/ InviteRead(r, n, u) \/ CancelRead(r, n, u) \/ AcceptLimit(r, n)
    \/ UpdateRead(r, n, u) \/ RemoveRead(r, n, u) \/ ProtectLastOwner(r, n)

Written(r) ==
  \E u \in req[r].user :
    \/ \E n \in Tenants : CreateWrite(r, n, u)
    \/ \E n \in req[r].tenant :
         \/ AddWrite(r, n, u) \/ InviteWrite(r, n, u) \/ CancelWrite(r, n, u)
         \/ AcceptWrite(r, n, u) \/ JoinWrite(r, n, u)
         \/ UpdateWrite(r, n, u) \/ RemoveWrite(r, n, u)

Next ==
  \/ \E r \in Requests : Asked(r) \/ Checked(r) \/ Written(r)
  \/ \E n \in Tenants, u \in Users : Expire(n, u)

Spec == Init /\ [][Next]_vars

-----------------------------------------------------------------------------
(* Properties                                                              *)

Rows == [role : Roles \cup {"OWNER", NONE}, status : Statuses \cup {NONE},
         link : BOOLEAN, expiry : {NONE, "later", "past"}]
Request ==
  [pc : {"idle", "asked", "limit", "row", "support", "owners", "write"},
   op : {"add", "invite", "cancel", "update", "remove", "accept", "join", "create", NONE},
   tenant : SUBSET Tenants, user : SUBSET Users, by : Managers \cup {NONE},
   role : Roles \cup {NONE}, status : {"ACTIVE", "SUSPENDED", NONE}, seen : Rows,
   overtaken : BOOLEAN]
TypeOK ==
  /\ member \in [Tenants -> [Users -> Rows]]
  /\ req \in [Requests -> Request]
  /\ unasked \in [Tenants -> Nat]
  /\ requests \in Nat
  /\ expiries \in Nat

\* Whatever overtakes what, an invitation that is pending has its link and its date, and a
\* membership that was removed has neither: no old link leads to it.
InvitationRows ==
  \A n \in Tenants, u \in Users :
    LET row == member[n][u] IN
    /\ row.status = "INVITED" => row.link /\ row.expiry # NONE
    /\ row.status = "REMOVED" => ~row.link /\ row.expiry = NONE

\* The request whose write this step is.
Writes(r) == req[r].pc = "write" /\ req'[r] = Idle /\ member' # member
Upset(r)  == Writes(r) /\ req[r].overtaken

\* The plan's limit is exceeded only by joins and reactivations, which do not ask for it, and
\* by as many of the requests that had asked as are in progress beside the first.
SeatsBounded ==
  \A n \in Tenants :
    Cardinality(Active(n)) < UserLimit[n] + unasked[n] + Cardinality(Requests)

\* A workspace loses its last active owner only by a request that another overtook.
OwnerRemains ==
  [][\A n \in Tenants : Owners(n) # {} /\ Owners(n)' = {} => \E r \in Requests : Upset(r)]_vars

\* What an administrator asks for never makes an owner, and, unless it was overtaken, never
\* touches the row of one.
AdminBounded ==
  [][\A n \in Tenants, u \in Users, r \in Requests :
       Writes(r) /\ req[r].by = "ADMIN" /\ member'[n][u] # member[n][u] =>
         /\ member'[n][u].role = "OWNER" => member[n][u].role = "OWNER"
         /\ member[n][u].role = "OWNER" /\ member[n][u].status \in {"ACTIVE", "SUSPENDED"}
            => Upset(r)]_vars

=============================================================================
