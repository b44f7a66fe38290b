------------------------ MODULE TenantMembersProofs ------------------------
(***************************************************************************)
(* Proofs about TenantMembers: its types, what invitations hold, how far   *)
(* the plan's limit can be exceeded, who can take the last owner and what  *)
(* administrators may do.  For every number of people, workspaces and      *)
(* requests at once.                                                       *)
(***************************************************************************)
EXTENDS TenantMembers, FiniteSetTheorems, TLAPS

-----------------------------------------------------------------------------
(* Types                                                                   *)

LEMMA FieldTypes ==
  ASSUME NEW q \in Request
  PROVE  /\ \A pc \in {"limit", "row", "support", "owners", "write"} : [q EXCEPT !.pc = pc] \in Request
         /\ \A pc \in {"support", "owners", "write"}, row \in Rows :
               [q EXCEPT !.pc = pc, !.seen = row] \in Request
         /\ \A b \in BOOLEAN : [q EXCEPT !.overtaken = b] \in Request
         /\ q.overtaken \in BOOLEAN
  BY DEF Request

LEMMA IdleType == NoRow \in Rows /\ Idle \in Request
  BY DEF Idle, Request, Rows, NoRow

LEMMA MoveType ==
  ASSUME TypeOK, NEW r \in Requests, NEW q \in Request,
         req' = [req EXCEPT ![r] = q], UNCHANGED <<member, unasked>>,
         requests' \in Nat, expiries' \in Nat
  PROVE  TypeOK'
  BY DEF TypeOK

LEMMA GotoType ==
  ASSUME TypeOK, NEW r \in Requests, Keep,
         NEW pc \in {"limit", "row", "support", "owners", "write"}, Goto(r, pc)
  PROVE  TypeOK'
<1>1. [req[r] EXCEPT !.pc = pc] \in Request
  BY FieldTypes DEF TypeOK
<1> QED
  BY <1>1, MoveType DEF Goto, Keep, TypeOK

LEMMA RefuseType ==
  ASSUME TypeOK, NEW r \in Requests, Keep, Refuse(r) PROVE TypeOK'
<1> QED
  BY IdleType, MoveType DEF Refuse, Keep, TypeOK

LEMMA SeeType ==
  ASSUME TypeOK, NEW r \in Requests, NEW n \in Tenants, NEW u \in Users, Keep,
         NEW pc \in {"support", "owners", "write"},
         req' = [req EXCEPT ![r].pc = pc, ![r].seen = member[n][u]]
  PROVE  TypeOK'
<1>0. member[n][u] \in Rows /\ req[r] \in Request
  BY DEF TypeOK
<1>1. [req[r] EXCEPT !.pc = pc, !.seen = member[n][u]] \in Request
  BY <1>0, FieldTypes
<1>2. req' = [req EXCEPT ![r] = [req[r] EXCEPT !.pc = pc, !.seen = member[n][u]]]
  BY DEF TypeOK
<1> QED
  BY <1>1, <1>2, MoveType DEF Keep, TypeOK

LEMMA CommitType ==
  ASSUME TypeOK, NEW r \in Requests, NEW n \in Tenants, NEW u \in Users, NEW row \in Rows,
         Commit(r, n, u, row), unasked' \in [Tenants -> Nat], requests' \in Nat, expiries' \in Nat
  PROVE  TypeOK'
<1>1. \A x \in Requests : req'[x] \in Request
  <2> TAKE x \in Requests
  <2> DEFINE b == req[x].overtaken \/ (Reading(x) /\ (req[x].tenant = {n} \/ req[x].user = {u}))
  <2>1. b \in BOOLEAN
    BY FieldTypes DEF TypeOK
  <2>2. req'[x] = IF x = r THEN Idle ELSE [req[x] EXCEPT !.overtaken = b]
    BY DEF Commit
  <2> HIDE DEF b
  <2> QED
    BY IdleType, FieldTypes, <2>1, <2>2 DEF TypeOK
<1> QED
  BY <1>1 DEF Commit, TypeOK

LEMMA RowTypes ==
  ASSUME NEW row \in Rows
  PROVE  /\ \A role \in Roles \cup {"OWNER", NONE} : Joined(role) \in Rows /\ Invited(role) \in Rows
         /\ Removed(row) \in Rows /\ Accepted(row) \in Rows
         /\ \A q \in Request : Updated(row, q) \in Rows
         /\ [row EXCEPT !.expiry = "past"] \in Rows
<1>1. \A role \in Roles \cup {"OWNER", NONE} : Joined(role) \in Rows
  BY DEF Rows, Joined, NoRow, Statuses
<1>2. \A role \in Roles \cup {"OWNER", NONE} : Invited(role) \in Rows
  BY DEF Rows, Invited, Statuses
<1>3. Removed(row) \in Rows
  BY DEF Rows, Removed, Statuses
<1>4. Accepted(row) \in Rows
  BY DEF Rows, Accepted, Statuses
<1>5. [row EXCEPT !.expiry = "past"] \in Rows
  BY DEF Rows
<1>6. ASSUME NEW q \in Request PROVE Updated(row, q) \in Rows
  <2>1. \A role \in Roles \cup {"OWNER", NONE}, status \in Statuses \cup {NONE} :
          [row EXCEPT !.role = role, !.status = status] \in Rows
    BY DEF Rows
  <2>2. /\ (IF q.role = NONE THEN row.role ELSE q.role) \in Roles \cup {"OWNER", NONE}
        /\ (IF q.status = NONE THEN row.status ELSE q.status) \in Statuses \cup {NONE}
    BY DEF Rows, Request, Statuses
  <2> QED
    BY <2>1, <2>2 DEF Updated
<1> QED
  BY <1>1, <1>2, <1>3, <1>4, <1>5, <1>6

LEMMA AskedType ==
  ASSUME TypeOK, NEW r \in Requests, Asked(r) PROVE TypeOK'
<1>1. ASSUME NEW q \in Request, Begin(r, q) PROVE TypeOK'
  BY <1>1, MoveType DEF Begin, TypeOK
<1>2. ASSUME NEW n \in Tenants, NEW u \in Users, NEW op \in {"add", "invite", "cancel", "update", "remove"},
             NEW by \in Managers, NEW role \in Roles \cup {NONE},
             NEW status \in {"ACTIVE", "SUSPENDED", NONE}, Ask(r, n, u, op, by, role, status)
      PROVE TypeOK'
  BY <1>1, <1>2 DEF Ask, Idle, Request, Rows, NoRow
<1>3. ASSUME NEW u \in Users, CreateRead(r, u) PROVE TypeOK'
  BY <1>1, <1>3 DEF CreateRead, Idle, Request, Rows, NoRow
<1>4. ASSUME NEW n \in Tenants, NEW u \in Users, AcceptRead(r, n, u) \/ JoinRead(r, n, u)
      PROVE TypeOK'
  BY <1>1, <1>4 DEF AcceptRead, JoinRead, Idle, Request, Rows, NoRow
<1>5. ASSUME NEW n \in Tenants, NEW u \in Users, NEW by \in Managers,
             \/ \E role \in Roles : Add(r, n, u, by, role) \/ Invite(r, n, u, by, role)
             \/ \E to \in Updates : Update(r, n, u, by, to)
             \/ Cancel(r, n, u, by) \/ Remove(r, n, u, by)
      PROVE TypeOK'
  <2>1. \A to \in Updates : to.role \in Roles \cup {NONE} /\ to.status \in {"ACTIVE", "SUSPENDED", NONE}
    BY MembersAssumption
  <2> QED
    BY <1>2, <1>5, <2>1 DEF Add, Invite, Update, Cancel, Remove
<1> QED
  BY <1>3, <1>4, <1>5 DEF Asked

LEMMA CheckedType ==
  ASSUME TypeOK, NEW r \in Requests, Checked(r) PROVE TypeOK'
<1>1. PICK n \in Tenants, u \in Users :
        \/ AddLimit(r, n) \/ AddRead(r, n, u) \/ AssertSupport(r, n, u)
        \/ InviteRead(r, n, u) \/ CancelRead(r, n, u) \/ AcceptLimit(r, n)
        \/ UpdateRead(r, n, u) \/ RemoveRead(r, n, u) \/ ProtectLastOwner(r, n)
  BY DEF Checked, TypeOK, Request
<1>2. CASE AddLimit(r, n) \/ AddRead(r, n, u) \/ AcceptLimit(r, n) \/ ProtectLastOwner(r, n)
  BY <1>2, GotoType, RefuseType DEF AddLimit, AddRead, AcceptLimit, ProtectLastOwner
<1>3. CASE AssertSupport(r, n, u)
  BY <1>3, GotoType, RefuseType DEF AssertSupport, At
<1>4. CASE InviteRead(r, n, u) \/ CancelRead(r, n, u)
  BY <1>4, SeeType, RefuseType DEF InviteRead, CancelRead
<1>5. CASE UpdateRead(r, n, u) \/ RemoveRead(r, n, u)
  BY <1>5, SeeType, RefuseType DEF UpdateRead, RemoveRead, ReadTarget
<1> QED
  BY <1>1, <1>2, <1>3, <1>4, <1>5

LEMMA WrittenType ==
  ASSUME TypeOK, NEW r \in Requests, Written(r) PROVE TypeOK'
<1>1. PICK n \in Tenants, u \in Users :
        \/ CreateWrite(r, n, u) \/ AddWrite(r, n, u) \/ InviteWrite(r, n, u) \/ CancelWrite(r, n, u)
        \/ AcceptWrite(r, n, u) \/ JoinWrite(r, n, u) \/ UpdateWrite(r, n, u) \/ RemoveWrite(r, n, u)
  BY DEF Written, TypeOK, Request
<1>2. member[n][u] \in Rows /\ req[r] \in Request
  BY DEF TypeOK
<1>3. ASSUME Refuse(r), UNCHANGED <<member, unasked, requests, expiries>> PROVE TypeOK'
  BY <1>3, RefuseType DEF Keep
<1>4. ASSUME NEW row \in Rows, Commit(r, n, u, row), UNCHANGED <<requests, expiries>>,
             UNCHANGED unasked \/ Unasked(n, u)
      PROVE  TypeOK'
  <2>1. unasked' \in [Tenants -> Nat]
    BY <1>4 DEF Unasked, TypeOK
  <2> QED
    BY <1>4, <2>1, CommitType DEF TypeOK
<1>5. CASE CreateWrite(r, n, u)
  BY <1>2, <1>4, <1>5, RowTypes DEF CreateWrite
<1>6. CASE AddWrite(r, n, u) \/ InviteWrite(r, n, u)
  <2>1. req[r].role \in Roles \cup {NONE}
    BY <1>2 DEF Request
  <2> QED
    BY <1>2, <1>3, <1>4, <1>6, <2>1, RowTypes DEF AddWrite, InviteWrite
<1>7. CASE CancelWrite(r, n, u) \/ RemoveWrite(r, n, u)
  BY <1>2, <1>4, <1>7, RowTypes DEF CancelWrite, RemoveWrite
<1>8. CASE AcceptWrite(r, n, u) \/ JoinWrite(r, n, u)
  BY <1>2, <1>4, <1>8, RowTypes DEF AcceptWrite, JoinWrite
<1>9. CASE UpdateWrite(r, n, u)
  BY <1>2, <1>4, <1>9, RowTypes DEF UpdateWrite
<1> QED
  BY <1>1, <1>5, <1>6, <1>7, <1>8, <1>9

LEMMA TypeStep == TypeOK /\ [Next]_vars => TypeOK'
<1>1. ASSUME TypeOK, NEW n \in Tenants, NEW u \in Users, Expire(n, u) PROVE TypeOK'
  <2>1. [member[n][u] EXCEPT !.expiry = "past"] \in Rows
    BY <1>1, RowTypes DEF TypeOK
  <2> QED
    BY <1>1, <2>1 DEF Expire, TypeOK
<1>2. ASSUME TypeOK, UNCHANGED vars PROVE TypeOK'
  BY <1>2 DEF vars, TypeOK
<1> QED
  BY <1>1, <1>2, AskedType, CheckedType, WrittenType DEF Next

LEMMA TypeInit == Init => TypeOK
<1> SUFFICES ASSUME Init PROVE TypeOK
  OBVIOUS
<1>1. Joined("OWNER") \in Rows
  BY RowTypes, IdleType
<1>2. member \in [Tenants -> [Users -> Rows]]
  BY <1>1, IdleType DEF Init
<1> QED
  BY <1>2, IdleType DEF Init, TypeOK

\* Rows and requests keep their shape: every status a membership takes, every field a request
\* carries from its reads to its write.
THEOREM MembersTypeCorrect == Spec => []TypeOK
<1> QED
  BY TypeInit, TypeStep, PTL DEF Spec

-----------------------------------------------------------------------------
(* What the steps do to rows and requests                                  *)

\* A request begins at its first check, with nothing seen and nothing overtaken.
First(q) ==
  /\ q.pc = "asked" \/ q.op \in {"accept", "join", "create"}
  /\ q.op = "accept" => q.pc = "limit"
  /\ (\E n \in Tenants : q.tenant = {n}) \/ q.tenant = {}
  /\ \E u \in Users : q.user = {u}

LEMMA AskedBegins ==
  ASSUME NEW r \in Requests, Asked(r) PROVE \E q : First(q) /\ Begin(r, q)
<1>1. ASSUME NEW u \in Users, CreateRead(r, u) PROVE \E q : First(q) /\ Begin(r, q)
  BY <1>1 DEF CreateRead, First, Idle
<1>2. ASSUME NEW n \in Tenants, NEW u \in Users, AcceptRead(r, n, u) \/ JoinRead(r, n, u)
      PROVE  \E q : First(q) /\ Begin(r, q)
  BY <1>2 DEF AcceptRead, JoinRead, First, Idle
<1>3. ASSUME NEW n \in Tenants, NEW u \in Users, NEW op, NEW by, NEW role, NEW status,
             op \in {"add", "invite", "cancel", "update", "remove"}, Ask(r, n, u, op, by, role, status)
      PROVE  \E q : First(q) /\ Begin(r, q)
  BY <1>3 DEF Ask, First, Idle
<1>4. ASSUME NEW n \in Tenants, NEW u \in Users, NEW by \in Managers,
             \/ \E role \in Roles : Add(r, n, u, by, role) \/ Invite(r, n, u, by, role)
             \/ \E to \in Updates : Update(r, n, u, by, to)
             \/ Cancel(r, n, u, by) \/ Remove(r, n, u, by)
      PROVE  \E q : First(q) /\ Begin(r, q)
  BY <1>3, <1>4 DEF Add, Invite, Update, Cancel, Remove
<1> QED
  BY <1>1, <1>2, <1>4 DEF Asked

LEMMA AskedKeeps ==
  ASSUME NEW r \in Requests, Asked(r) PROVE UNCHANGED <<member, unasked>>
  BY AskedBegins DEF Begin

LEMMA CheckedKeeps ==
  ASSUME NEW r \in Requests, Checked(r) PROVE UNCHANGED <<member, unasked>>
  BY DEF Checked, AddLimit, AddRead, AssertSupport, InviteRead, CancelRead, AcceptLimit,
         UpdateRead, RemoveRead, ReadTarget, ProtectLastOwner, Keep

LEMMA CheckedMoves ==
  ASSUME NEW r \in Requests, Checked(r), req \in [Requests -> Request]
  PROVE  /\ \A x \in Requests \ {r} : req'[x] = req[x]
         /\ \/ Refuse(r)
            \/ \E pc : req'[r] = [req[r] EXCEPT !.pc = pc]
            \/ \E pc, row : req'[r] = [req[r] EXCEPT !.pc = pc, !.seen = row]
<1>1. \/ Refuse(r)
      \/ \E pc : req' = [req EXCEPT ![r].pc = pc]
      \/ \E pc, row : req' = [req EXCEPT ![r].pc = pc, ![r].seen = row]
  BY DEF Checked, AddLimit, AddRead, AssertSupport, InviteRead, CancelRead, AcceptLimit,
         UpdateRead, RemoveRead, ReadTarget, ProtectLastOwner, Goto
<1>2. CASE Refuse(r)
  BY <1>2 DEF Refuse
<1>3. CASE \E pc : req' = [req EXCEPT ![r].pc = pc]
  <2>1. PICK pc : req' = [req EXCEPT ![r].pc = pc]
    BY <1>3
  <2>2. req'[r] = [req[r] EXCEPT !.pc = pc] /\ \A x \in Requests \ {r} : req'[x] = req[x]
    BY <2>1
  <2> QED
    BY <2>2
<1>4. CASE \E pc, row : req' = [req EXCEPT ![r].pc = pc, ![r].seen = row]
  <2>1. PICK pc, row : req' = [req EXCEPT ![r].pc = pc, ![r].seen = row]
    BY <1>4
  <2>2. /\ req'[r] = [req[r] EXCEPT !.pc = pc, !.seen = row]
        /\ \A x \in Requests \ {r} : req'[x] = req[x]
    BY <2>1
  <2> QED
    BY <2>2
<1> QED
  BY <1>1, <1>2, <1>3, <1>4

LEMMA WriteCases ==
  ASSUME TypeOK, NEW r \in Requests, Written(r)
  PROVE  \E n \in Tenants, u \in Users :
           /\ u \in req[r].user
           /\ \/ CreateWrite(r, n, u)
              \/ /\ n \in req[r].tenant
                 /\ \/ AddWrite(r, n, u) \/ InviteWrite(r, n, u) \/ CancelWrite(r, n, u)
                    \/ AcceptWrite(r, n, u) \/ JoinWrite(r, n, u)
                    \/ UpdateWrite(r, n, u) \/ RemoveWrite(r, n, u)
<1>1. req[r].tenant \subseteq Tenants /\ req[r].user \subseteq Users
  BY DEF TypeOK, Request
<1> QED
  BY <1>1 DEF Written

LEMMA CommitRows ==
  ASSUME TypeOK, NEW r \in Requests, NEW n \in Tenants, NEW u \in Users, NEW row, Commit(r, n, u, row)
  PROVE  /\ member'[n][u] = row
         /\ \A m \in Tenants, v \in Users : m # n \/ v # u => member'[m][v] = member[m][v]
  BY DEF Commit, TypeOK

-----------------------------------------------------------------------------
(* Invitations                                                             *)

Sound(row) ==
  /\ row.status = "INVITED" => row.link /\ row.expiry # NONE
  /\ row.status = "REMOVED" => ~row.link /\ row.expiry = NONE

LEMMA SoundRows ==
  ASSUME NEW row \in Rows, Sound(row)
  PROVE  /\ \A role : Sound(Joined(role)) /\ Sound(Invited(role))
         /\ Sound(Removed(row)) /\ Sound(Accepted(row))
         /\ \A q \in Request : Sound(Updated(row, q))
         /\ row.expiry = "later" => Sound([row EXCEPT !.expiry = "past"])
<1>1. ASSUME NEW role PROVE Sound(Joined(role)) /\ Sound(Invited(role))
  BY DEF Sound, Joined, Invited, NoRow, NONE
<1>2. Sound(Removed(row)) /\ Sound(Accepted(row))
  BY DEF Sound, Removed, Accepted, Rows
<1>3. ASSUME NEW q \in Request PROVE Sound(Updated(row, q))
  <2>1. q.status \in {"ACTIVE", "SUSPENDED", NONE}
    BY DEF Request
  <2>2. Updated(row, q).link = row.link /\ Updated(row, q).expiry = row.expiry
    BY DEF Updated, Rows
  <2>3. Updated(row, q).status = IF q.status = NONE THEN row.status ELSE q.status
    BY DEF Updated, Rows
  <2> QED
    BY <2>1, <2>2, <2>3 DEF Sound
<1>4. row.expiry = "later" => Sound([row EXCEPT !.expiry = "past"])
  BY DEF Sound, Rows, NONE
<1> QED
  BY <1>1, <1>2, <1>3, <1>4

LEMMA InvitationStep == TypeOK /\ InvitationRows /\ [Next]_vars => InvitationRows'
<1> SUFFICES ASSUME TypeOK, InvitationRows, [Next]_vars PROVE InvitationRows'
  OBVIOUS
<1>0. \A n \in Tenants, u \in Users : member[n][u] \in Rows /\ Sound(member[n][u])
  BY DEF TypeOK, InvitationRows, Sound
<1>1. CASE UNCHANGED member
  BY <1>1 DEF InvitationRows
<1>2. ASSUME NEW r \in Requests, NEW n \in Tenants, NEW u \in Users, NEW row,
             Sound(row), Commit(r, n, u, row)
      PROVE  InvitationRows'
  <2>1. \A m \in Tenants, v \in Users : Sound(member'[m][v])
    BY <1>0, <1>2, CommitRows
  <2> QED
    BY <2>1 DEF Sound, InvitationRows
<1>3. ASSUME NEW n \in Tenants, NEW u \in Users, Expire(n, u) PROVE InvitationRows'
  <2>1. Sound([member[n][u] EXCEPT !.expiry = "past"])
    BY <1>0, <1>3, SoundRows DEF Expire
  <2>2. \A m \in Tenants, v \in Users : Sound(member'[m][v])
    BY <1>0, <1>3, <2>1 DEF Expire, TypeOK
  <2> QED
    BY <2>2 DEF Sound, InvitationRows
<1>4. ASSUME NEW r \in Requests, Written(r) PROVE InvitationRows'
  <2>1. PICK n \in Tenants, u \in Users :
          \/ CreateWrite(r, n, u) \/ AddWrite(r, n, u) \/ InviteWrite(r, n, u) \/ CancelWrite(r, n, u)
          \/ AcceptWrite(r, n, u) \/ JoinWrite(r, n, u) \/ UpdateWrite(r, n, u) \/ RemoveWrite(r, n, u)
    BY <1>4, WriteCases
  <2>2. member[n][u] \in Rows /\ Sound(member[n][u]) /\ req[r] \in Request
    BY <1>0 DEF TypeOK
  <2>3. UNCHANGED member \/ \E row : Sound(row) /\ Commit(r, n, u, row)
    BY <2>1, <2>2, SoundRows
    DEF CreateWrite, AddWrite, InviteWrite, CancelWrite, AcceptWrite, JoinWrite, UpdateWrite, RemoveWrite
  <2> QED
    BY <1>1, <1>2, <2>3
<1> QED
  BY <1>1, <1>3, <1>4, AskedKeeps, CheckedKeeps DEF Next, vars

\* Whatever requests overtake each other, a pending invitation has its link and its date and a
\* removed membership has neither.
THEOREM InvitationsKeepTheirLink == Spec => []InvitationRows
<1>1. Init => InvitationRows
  BY DEF Init, InvitationRows, Joined, NoRow, NONE
<1> QED
  BY <1>1, TypeInit, TypeStep, InvitationStep, PTL DEF Spec

-----------------------------------------------------------------------------
(* The plan's limit                                                        *)

\* A request that has asked for the limit and still has to write holds a seat in reserve.
Reserves(q, n) ==
  /\ q.tenant = {n}
  /\ \/ q.op = "add" /\ q.pc \in {"row", "support", "write"}
     \/ q.op = "accept" /\ q.pc = "write"
Pending(n) == {r \in Requests : Reserves(req[r], n)}

\* Taken and reserved seats together stay within the limit, those that were not asked for, and
\* the requests beside the one that asked last.
SeatsReserved ==
  \A n \in Tenants :
    Cardinality(Active(n)) + Cardinality(Pending(n)) < UserLimit[n] + unasked[n] + Cardinality(Requests)

LEMMA OneMore ==
  ASSUME NEW S, IsFiniteSet(S), NEW x, NEW T, T \subseteq S \cup {x}
  PROVE  Cardinality(T) \in Nat /\ Cardinality(T) <= Cardinality(S) + 1
<1>1. /\ IsFiniteSet(S \cup {x}) /\ Cardinality(S) \in Nat
      /\ Cardinality(S \cup {x}) = IF x \in S THEN Cardinality(S) ELSE Cardinality(S) + 1
  BY FS_AddElement, FS_CardinalityType
<1>2. IsFiniteSet(T) /\ Cardinality(T) <= Cardinality(S \cup {x})
  BY <1>1, FS_Subset
<1> QED
  BY <1>1, <1>2, FS_CardinalityType

LEMMA Counts ==
  ASSUME TypeOK, NEW n \in Tenants
  PROVE  /\ IsFiniteSet(Active(n)) /\ IsFiniteSet(Pending(n))
         /\ Cardinality(Active(n)) \in Nat /\ Cardinality(Pending(n)) \in Nat
         /\ UserLimit[n] \in Nat /\ UserLimit[n] >= 1 /\ unasked[n] \in Nat
         /\ Cardinality(Requests) \in Nat /\ Cardinality(Requests) >= 1
         /\ Cardinality(Pending(n)) <= Cardinality(Requests)
<1>1. IsFiniteSet(Active(n))
  BY MembersAssumption, FS_Subset DEF Active
<1>2. IsFiniteSet(Pending(n)) /\ Cardinality(Pending(n)) <= Cardinality(Requests)
  BY MembersAssumption, FS_Subset DEF Pending
<1>3. Cardinality(Requests) \in Nat /\ Cardinality(Requests) # 0
  BY MembersAssumption, FS_CardinalityType, FS_EmptySet
<1> QED
  BY <1>1, <1>2, <1>3, FS_CardinalityType, MembersAssumption DEF TypeOK

\* Nobody new, nobody gone who had a reserve: the sum does not grow.
LEMMA SeatsFall ==
  ASSUME TypeOK, TypeOK', SeatsReserved, NEW n \in Tenants,
         Active(n)' \subseteq Active(n), Pending(n)' \subseteq Pending(n), unasked'[n] >= unasked[n]
  PROVE  Cardinality(Active(n)') + Cardinality(Pending(n)')
           < UserLimit[n] + unasked'[n] + Cardinality(Requests)
<1>1. /\ Cardinality(Active(n)') <= Cardinality(Active(n))
      /\ Cardinality(Pending(n)') <= Cardinality(Pending(n))
      /\ Cardinality(Active(n)') \in Nat /\ Cardinality(Pending(n)') \in Nat
  BY Counts, FS_Subset, FS_CardinalityType
<1>2. unasked'[n] \in Nat
  BY DEF TypeOK
<1> QED
  BY <1>1, <1>2, Counts DEF SeatsReserved

LEMMA AskedSeats ==
  ASSUME TypeOK, NEW r \in Requests, Asked(r), NEW n \in Tenants
  PROVE  Active(n)' = Active(n) /\ Pending(n)' \subseteq Pending(n)
<1>1. PICK q : First(q) /\ Begin(r, q)
  BY AskedBegins
<1>2. req' = [req EXCEPT ![r] = q] /\ ~Reserves(q, n)
  BY <1>1 DEF Begin, First, Reserves
<1> QED
  BY <1>2, AskedKeeps DEF Active, Pending, TypeOK

LEMMA CheckedSeats ==
  ASSUME TypeOK, NEW r \in Requests, Checked(r), NEW n \in Tenants
  PROVE  Active(n)' = Active(n) /\ (Pending(n)' \subseteq Pending(n) \/ WithinLimit(n))
<1>1. Active(n)' = Active(n)
  BY CheckedKeeps DEF Active
<1>2. PICK m \in Tenants, u \in Users :
        /\ m \in req[r].tenant
        /\ \/ AddLimit(r, m) \/ AddRead(r, m, u) \/ AssertSupport(r, m, u)
           \/ InviteRead(r, m, u) \/ CancelRead(r, m, u) \/ AcceptLimit(r, m)
           \/ UpdateRead(r, m, u) \/ RemoveRead(r, m, u) \/ ProtectLastOwner(r, m)
  BY DEF Checked, TypeOK, Request
<1>3. ASSUME NEW q, req' = [req EXCEPT ![r] = q], Reserves(q, n) => Reserves(req[r], n)
      PROVE  Pending(n)' \subseteq Pending(n)
  BY <1>3 DEF Pending, TypeOK
<1>4. ASSUME Refuse(r) PROVE Pending(n)' \subseteq Pending(n)
  <2>1. ~Reserves(Idle, n)
    BY DEF Reserves, Idle
  <2> QED
    BY <1>3, <1>4, <2>1 DEF Refuse
<1>5. ASSUME NEW pc, Goto(r, pc), pc # "write" \/ req[r].op # "accept",
             req[r].op = "add" => req[r].pc \in {"row", "support", "write"}
      PROVE  Pending(n)' \subseteq Pending(n)
  <2> DEFINE q == [req[r] EXCEPT !.pc = pc]
  <2>1. q.op = req[r].op /\ q.tenant = req[r].tenant /\ q.pc = pc
    BY DEF TypeOK, Request
  <2>2. req' = [req EXCEPT ![r] = q]
    BY <1>5 DEF Goto, TypeOK
  <2>3. Reserves(q, n) => Reserves(req[r], n)
    BY <1>5, <2>1 DEF Reserves
  <2> HIDE DEF q
  <2> QED
    BY <1>3, <2>2, <2>3
<1>6. ASSUME req[r].op \in {"invite", "cancel", "update", "remove"}, NEW pc, NEW row,
             req' = [req EXCEPT ![r].pc = pc, ![r].seen = row]
      PROVE  Pending(n)' \subseteq Pending(n)
  <2> DEFINE q == [req[r] EXCEPT !.pc = pc, !.seen = row]
  <2>1. q.op = req[r].op
    BY DEF TypeOK, Request
  <2>2. req' = [req EXCEPT ![r] = q]
    BY <1>6 DEF TypeOK
  <2>3. ~Reserves(q, n)
    BY <1>6, <2>1 DEF Reserves
  <2> HIDE DEF q
  <2> QED
    BY <1>3, <2>2, <2>3
<1>7. CASE AddLimit(r, m) \/ AcceptLimit(r, m)
  <2>1. CASE Refuse(r)
    BY <1>1, <1>4, <2>1
  <2>2. CASE WithinLimit(m) /\ \E pc : Goto(r, pc)
    <3>1. CASE m = n
      BY <1>1, <2>2, <3>1
    <3>2. CASE m # n
      <4>1. PICK pc : req' = [req EXCEPT ![r].pc = pc]
        BY <2>2 DEF Goto
      <4> DEFINE q == [req[r] EXCEPT !.pc = pc]
      <4>2. q.tenant = req[r].tenant /\ req' = [req EXCEPT ![r] = q]
        BY <4>1 DEF TypeOK, Request
      <4>3. ~Reserves(q, n)
        BY <1>2, <3>2, <4>2 DEF Reserves
      <4> HIDE DEF q
      <4> QED
        BY <1>1, <1>3, <4>2, <4>3
    <3> QED
      BY <3>1, <3>2
  <2> QED
    BY <1>7, <2>1, <2>2 DEF AddLimit, AcceptLimit
<1>8. CASE AddRead(r, m, u)
  BY <1>1, <1>4, <1>5, <1>8 DEF AddRead, At
<1>9. CASE AssertSupport(r, m, u)
  BY <1>1, <1>4, <1>5, <1>9 DEF AssertSupport, At
<1>10. CASE ProtectLastOwner(r, m)
  BY <1>1, <1>4, <1>5, <1>10 DEF ProtectLastOwner, At
<1>11. CASE InviteRead(r, m, u) \/ CancelRead(r, m, u)
  BY <1>1, <1>4, <1>6, <1>11 DEF InviteRead, CancelRead, At
<1>12. CASE UpdateRead(r, m, u) \/ RemoveRead(r, m, u)
  BY <1>1, <1>4, <1>6, <1>12 DEF UpdateRead, RemoveRead, ReadTarget, At
<1> QED
  BY <1>2, <1>7, <1>8, <1>9, <1>10, <1>11, <1>12

\* A write ends the reserve of its own request and of no other.
LEMMA WrittenPending ==
  ASSUME TypeOK, NEW r \in Requests, NEW n \in Tenants,
         Refuse(r) \/ \E m \in Tenants, u \in Users : \E row : Commit(r, m, u, row)
  PROVE  Pending(n)' = Pending(n) \ {r}
<1>1. \A x \in Requests \ {r} : Reserves(req'[x], n) = Reserves(req[x], n)
  <2> TAKE x \in Requests \ {r}
  <2>1. \/ req'[x] = req[x]
        \/ \E b : req'[x] = [req[x] EXCEPT !.overtaken = b]
    BY DEF Refuse, Commit, TypeOK
  <2>2. req'[x].op = req[x].op /\ req'[x].pc = req[x].pc /\ req'[x].tenant = req[x].tenant
    BY <2>1 DEF TypeOK, Request
  <2> QED
    BY <2>2 DEF Reserves
<1>2. ~Reserves(req'[r], n)
  BY DEF Refuse, Commit, Reserves, Idle, TypeOK
<1> QED
  BY <1>1, <1>2 DEF Pending

\* A request is about one workspace (none yet, for a new one) and one person.
Aimed ==
  \A r \in Requests :
    /\ \A n \in req[r].tenant : req[r].tenant = {n}
    /\ \A u \in req[r].user : req[r].user = {u}

LEMMA AimedStep == TypeOK /\ Aimed /\ [Next]_vars => Aimed'
<1> SUFFICES ASSUME TypeOK, Aimed, [Next]_vars PROVE Aimed'
  OBVIOUS
<1>1. CASE UNCHANGED req
  BY <1>1 DEF Aimed
<1>2. ASSUME NEW r \in Requests, Refuse(r) PROVE Aimed'
  BY <1>2 DEF Refuse, Idle, Aimed, TypeOK
<1>3. ASSUME NEW r \in Requests, Asked(r) PROVE Aimed'
  <2>1. PICK q : First(q) /\ Begin(r, q)
    BY <1>3, AskedBegins
  <2> QED
    BY <2>1 DEF Begin, First, Aimed, TypeOK
<1>4. ASSUME NEW r \in Requests, NEW n \in Tenants, NEW u \in Users, NEW row, Commit(r, n, u, row)
      PROVE  Aimed'
  <2>1. \A x \in Requests \ {r} : \E b : req'[x] = [req[x] EXCEPT !.overtaken = b]
    BY <1>4 DEF Commit
  <2>2. \A x \in Requests \ {r} : req'[x].tenant = req[x].tenant /\ req'[x].user = req[x].user
    BY <2>1 DEF TypeOK, Request
  <2>3. req'[r] = Idle
    BY <1>4 DEF Commit
  <2> QED
    BY <2>2, <2>3 DEF Aimed, Idle
<1>5. ASSUME NEW r \in Requests, Checked(r) PROVE Aimed'
  <2>1. req \in [Requests -> Request]
    BY DEF TypeOK
  <2>2. CASE \/ \E pc : req'[r] = [req[r] EXCEPT !.pc = pc]
             \/ \E pc, row : req'[r] = [req[r] EXCEPT !.pc = pc, !.seen = row]
    <3>1. req'[r].tenant = req[r].tenant /\ req'[r].user = req[r].user
      BY <2>1, <2>2 DEF Request
    <3>2. \A x \in Requests \ {r} : req'[x] = req[x]
      BY <1>5, <2>1, CheckedMoves
    <3> QED
      BY <3>1, <3>2 DEF Aimed
  <2> QED
    BY <1>2, <1>5, <2>1, <2>2, CheckedMoves
<1>6. ASSUME NEW r \in Requests, Written(r) PROVE Aimed'
  <2>1. Refuse(r) \/ \E n \in Tenants, u \in Users : \E row : Commit(r, n, u, row)
    BY <1>6, WriteCases
    DEF CreateWrite, AddWrite, InviteWrite, CancelWrite, AcceptWrite, JoinWrite, UpdateWrite, RemoveWrite
  <2> QED
    BY <1>2, <1>4, <2>1
<1> QED
  BY <1>1, <1>3, <1>5, <1>6 DEF Next, vars, Expire

\* A commit makes at most its own user active.
LEMMA CommitActive ==
  ASSUME TypeOK, NEW r \in Requests, NEW n \in Tenants, NEW u \in Users, NEW row, Commit(r, n, u, row)
  PROVE  /\ \A m \in Tenants \ {n} : Active(m)' = Active(m)
         /\ Active(n)' \subseteq Active(n) \cup {u}
         /\ row.status # "ACTIVE" \/ u \in Active(n) => Active(n)' \subseteq Active(n)
  BY CommitRows DEF Active

LEMMA WrittenSeats ==
  ASSUME TypeOK, TypeOK', Aimed, SeatsReserved, NEW r \in Requests, Written(r)
  PROVE  SeatsReserved'
<1>1. PICK n \in Tenants, u \in Users :
        \/ CreateWrite(r, n, u)
        \/ /\ n \in req[r].tenant
           /\ \/ AddWrite(r, n, u) \/ InviteWrite(r, n, u) \/ CancelWrite(r, n, u)
              \/ AcceptWrite(r, n, u) \/ JoinWrite(r, n, u)
              \/ UpdateWrite(r, n, u) \/ RemoveWrite(r, n, u)
  BY WriteCases
<1>2. (Refuse(r) /\ UNCHANGED member) \/ \E row : Commit(r, n, u, row)
  BY <1>1
  DEF CreateWrite, AddWrite, InviteWrite, CancelWrite, AcceptWrite, JoinWrite, UpdateWrite, RemoveWrite
<1>3. \A m \in Tenants : Pending(m)' = Pending(m) \ {r}
  BY <1>2, WrittenPending
<1>4. \A m \in Tenants : unasked'[m] >= unasked[m]
  BY <1>1
  DEF CreateWrite, AddWrite, InviteWrite, CancelWrite, AcceptWrite, JoinWrite, UpdateWrite, RemoveWrite,
      Unasked, TypeOK
<1>5. \A m \in Tenants \ {n} : Active(m)' = Active(m)
  BY <1>2, CommitActive DEF Active
<1> SUFFICES ASSUME NEW m \in Tenants
             PROVE  Cardinality(Active(m)') + Cardinality(Pending(m)')
                      < UserLimit[m] + unasked'[m] + Cardinality(Requests)
  BY DEF SeatsReserved
<1>6. CASE Active(m)' \subseteq Active(m)
  BY <1>3, <1>4, <1>6, SeatsFall
<1>7. CASE m = n /\ ~(Active(n)' \subseteq Active(n))
  <2>2. PICK row : Commit(r, n, u, row)
    BY <1>2, <1>7 DEF Active
  <2>3. row.status = "ACTIVE" /\ u \notin Active(n) /\ Active(n)' \subseteq Active(n) \cup {u}
    BY <1>7, <2>2, CommitActive
  <2>4. /\ Cardinality(Active(n)') <= Cardinality(Active(n)) + 1
        /\ Cardinality(Active(n)') \in Nat /\ Cardinality(Pending(n)') \in Nat
    <3>1. IsFiniteSet(Active(n))
      BY Counts
    <3>2. /\ Cardinality(Active(n)') \in Nat
          /\ Cardinality(Active(n)') <= Cardinality(Active(n)) + 1
      BY <2>3, <3>1, OneMore
    <3>3. Pending(n)' \subseteq Pending(n) /\ IsFiniteSet(Pending(n))
      BY <1>3, Counts
    <3> QED
      BY <3>2, <3>3, FS_Subset, FS_CardinalityType
  <2>5. Cardinality(Pending(n)') <= Cardinality(Pending(n))
    BY <1>3, Counts, FS_Subset
  <2>6. member'[n][u] = row
    BY <2>2, CommitRows
  <2>7. CASE AddWrite(r, n, u) \/ AcceptWrite(r, n, u)
    <3>1. n \in req[r].tenant /\ r \in Pending(n)
      BY <1>1, <2>7 DEF Aimed, Pending, Reserves, AddWrite, AcceptWrite, At, CreateWrite
    <3>2. Cardinality(Pending(n)') = Cardinality(Pending(n)) - 1
      BY <1>3, <3>1, Counts, FS_RemoveElement
    <3> QED
      BY <1>4, <1>7, <2>4, <3>2, Counts DEF SeatsReserved, TypeOK
  <2>8. CASE JoinWrite(r, n, u) \/ UpdateWrite(r, n, u)
    <3>1. member'[n][u].status = "ACTIVE" /\ member[n][u].status # "ACTIVE"
      <4>1. u \in Active(n)'
        BY <1>7, <2>3
      <4> QED
        BY <2>3, <4>1 DEF Active
    <3>2. unasked'[n] = unasked[n] + 1
      BY <2>8, <3>1 DEF JoinWrite, UpdateWrite, Unasked, TypeOK
    <3> QED
      BY <1>7, <2>4, <2>5, <3>2, Counts DEF SeatsReserved
  <2>9. CASE CreateWrite(r, n, u)
    <3>1. Active(n) = {}
      BY <2>9 DEF CreateWrite, Founded, Active, NoRow, NONE
    <3>2. r \notin Pending(n)'
      BY <1>3
    <3>3. Cardinality(Pending(n)') <= Cardinality(Requests \ {r})
      BY <3>2, MembersAssumption, FS_Subset, FS_RemoveElement DEF Pending
    <3>4. Cardinality(Requests \ {r}) = Cardinality(Requests) - 1
      BY MembersAssumption, FS_RemoveElement
    <3>5. Cardinality(Active(n)) = 0
      BY <3>1, FS_EmptySet
    <3> QED
      BY <1>4, <1>7, <2>4, <3>3, <3>4, <3>5, Counts DEF TypeOK
  <2>10. CASE InviteWrite(r, n, u) \/ CancelWrite(r, n, u) \/ RemoveWrite(r, n, u)
    <3>1. member[n][u] \in Rows
      BY DEF TypeOK
    <3>2. /\ \A role : Invited(role).status = "INVITED"
          /\ Removed(member[n][u]).status = "REMOVED"
      BY <3>1 DEF Invited, Removed, Rows
    <3>3. UNCHANGED member \/ \E other : Commit(r, n, u, other) /\ other.status # "ACTIVE"
      BY <2>10, <3>2 DEF InviteWrite, CancelWrite, RemoveWrite
    <3>4. Active(n)' \subseteq Active(n)
      BY <3>3, CommitActive DEF Active
    <3> QED
      BY <1>7, <3>4
  <2> QED
    BY <1>1, <2>7, <2>8, <2>9, <2>10
<1> QED
  BY <1>5, <1>6, <1>7

LEMMA SeatsStep ==
  TypeOK /\ TypeOK' /\ Aimed /\ SeatsReserved /\ [Next]_vars => SeatsReserved'
<1> SUFFICES ASSUME TypeOK, TypeOK', Aimed, SeatsReserved, [Next]_vars PROVE SeatsReserved'
  OBVIOUS
<1>1. ASSUME \A n \in Tenants :
               /\ Active(n)' \subseteq Active(n)
               /\ Pending(n)' \subseteq Pending(n)
               /\ unasked'[n] >= unasked[n]
      PROVE  SeatsReserved'
  BY <1>1, SeatsFall DEF SeatsReserved
<1>2. \A n \in Tenants : unasked[n] >= unasked[n]
  BY DEF TypeOK
<1>3. CASE UNCHANGED vars
  BY <1>1, <1>2, <1>3 DEF vars, Active, Pending
<1>4. ASSUME NEW n \in Tenants, NEW u \in Users, Expire(n, u) PROVE SeatsReserved'
  <2>1. \A m \in Tenants, v \in Users : member'[m][v].status = member[m][v].status
    BY <1>4 DEF Expire, TypeOK, Rows
  <2> QED
    BY <1>1, <1>2, <1>4, <2>1 DEF Expire, Active, Pending
<1>5. ASSUME NEW r \in Requests, Asked(r) PROVE SeatsReserved'
  BY <1>1, <1>2, <1>5, AskedSeats, AskedKeeps
<1>6. ASSUME NEW r \in Requests, Checked(r) PROVE SeatsReserved'
  <2> SUFFICES ASSUME NEW n \in Tenants
               PROVE  Cardinality(Active(n)') + Cardinality(Pending(n)')
                        < UserLimit[n] + unasked'[n] + Cardinality(Requests)
    BY DEF SeatsReserved
  <2>1. Active(n)' = Active(n) /\ unasked' = unasked
    BY <1>6, CheckedSeats, CheckedKeeps
  <2>2. CASE Pending(n)' \subseteq Pending(n)
    BY <1>2, <2>1, <2>2, SeatsFall
  <2>3. CASE WithinLimit(n)
    <3>1. Cardinality(Pending(n)') \in Nat /\ Cardinality(Pending(n)') <= Cardinality(Requests)
      BY MembersAssumption, FS_Subset, FS_CardinalityType DEF Pending
    <3> QED
      BY <2>1, <2>3, <3>1, Counts DEF WithinLimit
  <2> QED
    BY <1>6, <2>2, <2>3, CheckedSeats
<1> QED
  BY <1>3, <1>4, <1>5, <1>6, WrittenSeats DEF Next

\* Of the members a plan allows, requests that overtake each other exceed the limit by fewer
\* than there are of them, and by what was never asked for: the sum of taken and reserved seats
\* is the invariant that shows it.
THEOREM SeatsNeverFarAbove == Spec => []SeatsBounded
<1>1. Init => TypeOK /\ Aimed /\ SeatsReserved
  <2> SUFFICES ASSUME Init PROVE Aimed /\ SeatsReserved
    BY TypeInit
  <2>1. TypeOK
    BY TypeInit
  <2>2. \A n \in Tenants : Pending(n) = {}
    BY DEF Init, Pending, Reserves, Idle
  <2>3. ASSUME NEW n \in Tenants PROVE \E u : Active(n) \subseteq {} \cup {u}
    <3>1. PICK founder \in [Tenants -> Users \cup {NONE}] :
            member = [m \in Tenants |-> [u \in Users |->
                        IF founder[m] = u THEN Joined("OWNER") ELSE NoRow]]
      BY DEF Init
    <3>2. Active(n) \subseteq {} \cup {founder[n]}
      BY <3>1 DEF Active, NoRow, NONE
    <3> QED
      BY <3>2
  <2>4. ASSUME NEW n \in Tenants PROVE Cardinality(Active(n)) <= 1 /\ Cardinality(Pending(n)) = 0
    <3>1. PICK u : Active(n) \subseteq {} \cup {u}
      BY <2>3
    <3>2. Cardinality({}) = 0 /\ IsFiniteSet({})
      BY FS_EmptySet
    <3>3. Cardinality(Active(n)) <= Cardinality({}) + 1
      BY <3>1, <3>2, OneMore
    <3> QED
      BY <2>2, <3>2, <3>3
  <2>5. \A n \in Tenants : unasked[n] = 0
    BY DEF Init
  <2> QED
    BY <2>1, <2>4, <2>5, Counts DEF Init, Aimed, Idle, SeatsReserved
<1>2. TypeOK /\ SeatsReserved => SeatsBounded
  BY Counts DEF SeatsReserved, SeatsBounded
<1> QED
  BY <1>1, <1>2, TypeStep, AimedStep, SeatsStep, PTL DEF Spec

-----------------------------------------------------------------------------
(* The last owner                                                          *)

HasSeen(q) ==
  \/ q.op \in {"update", "remove"} /\ q.pc \in {"support", "owners", "write"}
  \/ q.op \in {"cancel", "invite"} /\ q.pc = "write"

\* What a request that was not overtaken has seen and checked still holds when it writes.
Fresh(q, n, u) ==
  /\ HasSeen(q) => q.seen.role = member[n][u].role /\ q.seen.status = member[n][u].status
  /\ q.op \in {"cancel", "invite"} /\ q.pc = "write" => q.seen.status # "ACTIVE"
  /\ q.op \in {"update", "remove"} /\ q.pc = "write" /\ Demotes(q) =>
       \E v \in Owners(n) : v # u
ChecksHold ==
  \A r \in Requests, n \in Tenants, u \in Users :
    req[r].tenant = {n} /\ req[r].user = {u} /\ ~req[r].overtaken => Fresh(req[r], n, u)

\* What Fresh says depends on the roles and statuses of one workspace.
LEMMA FreshKept ==
  ASSUME TypeOK, NEW q \in Request, NEW n \in Tenants, NEW u \in Users, Fresh(q, n, u),
         \A v \in Users : /\ member'[n][v].role = member[n][v].role
                          /\ member'[n][v].status = member[n][v].status
  PROVE  /\ HasSeen(q) => q.seen.role = member'[n][u].role /\ q.seen.status = member'[n][u].status
         /\ q.op \in {"cancel", "invite"} /\ q.pc = "write" => q.seen.status # "ACTIVE"
         /\ q.op \in {"update", "remove"} /\ q.pc = "write" /\ Demotes(q) =>
              \E v \in Owners(n)' : v # u
<1>1. Owners(n)' = Owners(n)
  BY DEF Owners, Active
<1> QED
  BY <1>1 DEF Fresh

LEMMA FreshSame ==
  ASSUME TypeOK, ChecksHold, NEW x \in Requests, req'[x] = req[x],
         \A m \in Tenants, v \in Users : /\ member'[m][v].role = member[m][v].role
                                         /\ member'[m][v].status = member[m][v].status
  PROVE  \A n \in Tenants, u \in Users :
           req'[x].tenant = {n} /\ req'[x].user = {u} /\ ~req'[x].overtaken => Fresh(req[x], n, u)'
<1> SUFFICES ASSUME NEW n \in Tenants, NEW u \in Users, req[x].tenant = {n}, req[x].user = {u},
                    ~req[x].overtaken
             PROVE  Fresh(req[x], n, u)'
  OBVIOUS
<1>1. Fresh(req[x], n, u) /\ req[x] \in Request
  BY DEF ChecksHold, TypeOK
<1> QED
  BY <1>1, FreshKept DEF Fresh, HasSeen, Demotes, NextRole, NextStatus

LEMMA FreshCommit ==
  ASSUME TypeOK, ChecksHold, NEW r \in Requests, NEW m \in Tenants, NEW v \in Users, NEW row,
         Commit(r, m, v, row), NEW n \in Tenants, NEW u \in Users, NEW x \in Requests,
         req'[x].tenant = {n}, req'[x].user = {u}, ~req'[x].overtaken
  PROVE  Fresh(req[x], n, u)'
<1>1. x # r
  BY DEF Commit, Idle, TypeOK
<1> DEFINE b == req[x].overtaken \/ (Reading(x) /\ (req[x].tenant = {m} \/ req[x].user = {v}))
<1>2. req'[x] = [req[x] EXCEPT !.overtaken = b]
  BY <1>1 DEF Commit, TypeOK
<1>3. /\ req'[x].op = req[x].op /\ req'[x].pc = req[x].pc /\ req'[x].seen = req[x].seen
      /\ req'[x].role = req[x].role /\ req'[x].status = req[x].status
      /\ req'[x].tenant = req[x].tenant /\ req'[x].user = req[x].user
      /\ req'[x].overtaken = b
  BY <1>2 DEF TypeOK, Request
<1>4. ~req[x].overtaken /\ ~(Reading(x) /\ req[x].tenant = {m})
  BY <1>3
<1>5. CASE ~Reading(x)
  BY <1>3, <1>5 DEF Reading, Fresh, HasSeen
<1>6. CASE m # n
  <2>1. Fresh(req[x], n, u) /\ req[x] \in Request
    BY <1>3, <1>4 DEF ChecksHold, TypeOK
  <2>2. \A w \in Users : member'[n][w] = member[n][w]
    BY <1>6, CommitRows
  <2> QED
    BY <1>3, <2>1, <2>2, FreshKept DEF Fresh, HasSeen, Demotes, NextRole, NextStatus
<1> QED
  BY <1>3, <1>4, <1>5, <1>6

\* The reads and checks of one request.
LEMMA FreshChecked ==
  ASSUME TypeOK, Aimed, ChecksHold, NEW r \in Requests, Checked(r),
         NEW n \in Tenants, NEW u \in Users,
         req'[r].tenant = {n}, req'[r].user = {u}, ~req'[r].overtaken
  PROVE  Fresh(req[r], n, u)'
<1>0. req \in [Requests -> Request] /\ req[r] \in Request
  BY DEF TypeOK
<1>1. ~Refuse(r)
  BY <1>0 DEF Refuse, Idle
<1>2. UNCHANGED member
  BY CheckedKeeps
<1>3. /\ req'[r].op = req[r].op /\ req'[r].role = req[r].role /\ req'[r].status = req[r].status
      /\ req'[r].tenant = req[r].tenant /\ req'[r].user = req[r].user
      /\ req'[r].overtaken = req[r].overtaken
  <2>1. \/ \E pc : req'[r] = [req[r] EXCEPT !.pc = pc]
        \/ \E pc, row : req'[r] = [req[r] EXCEPT !.pc = pc, !.seen = row]
    BY <1>0, <1>1, CheckedMoves
  <2> QED
    BY <1>0, <2>1 DEF Request
<1>4. Fresh(req[r], n, u)
  BY <1>3 DEF ChecksHold
<1>5. \/ AddLimit(r, n) \/ AddRead(r, n, u) \/ AssertSupport(r, n, u)
      \/ InviteRead(r, n, u) \/ CancelRead(r, n, u) \/ AcceptLimit(r, n)
      \/ UpdateRead(r, n, u) \/ RemoveRead(r, n, u) \/ ProtectLastOwner(r, n)
  BY <1>3 DEF Checked
<1>6. CASE AddLimit(r, n) \/ AddRead(r, n, u) \/ AcceptLimit(r, n)
  BY <1>3, <1>6 DEF AddLimit, AddRead, AcceptLimit, At, Fresh, HasSeen
<1>7. CASE AssertSupport(r, n, u)
  <2>1. req'[r].seen = req[r].seen
    BY <1>0, <1>1, <1>7 DEF AssertSupport, Goto, Request
  <2>2. \/ req[r].op = "invite" /\ req'[r].pc = "row"
        \/ req[r].op = "add"
        \/ req[r].op = "update" /\ req[r].pc = "support" /\ req'[r].pc = "owners"
    BY <1>0, <1>1, <1>7 DEF AssertSupport, Goto, Request, At
  <2> QED
    BY <1>2, <1>3, <1>4, <2>1, <2>2 DEF Fresh, HasSeen
<1>8. CASE InviteRead(r, n, u)
  BY <1>0, <1>1, <1>2, <1>3, <1>8 DEF InviteRead, At, Fresh, HasSeen, Request, NONE
<1>9. CASE CancelRead(r, n, u)
  BY <1>0, <1>1, <1>2, <1>3, <1>9 DEF CancelRead, At, Fresh, HasSeen, Request
<1>10. CASE UpdateRead(r, n, u) \/ RemoveRead(r, n, u)
  <2>1. /\ req[r].op \in {"update", "remove"}
        /\ \E pc \in {"support", "owners"} :
             req' = [req EXCEPT ![r].pc = pc, ![r].seen = member[n][u]]
    BY <1>1, <1>10 DEF UpdateRead, RemoveRead, ReadTarget, At
  <2>2. req'[r].pc \in {"support", "owners"} /\ req'[r].seen = member[n][u]
    BY <1>0, <2>1 DEF Request
  <2> QED
    BY <1>2, <1>3, <2>1, <2>2 DEF Fresh, HasSeen
<1>11. CASE ProtectLastOwner(r, n)
  <2>1. /\ req[r].op \in {"update", "remove"} /\ req[r].pc = "owners"
        /\ Goto(r, "write") /\ ~(Demotes(req[r]) /\ Cardinality(Owners(n)) <= 1)
    BY <1>1, <1>11 DEF ProtectLastOwner, At
  <2>2. req'[r].pc = "write" /\ req'[r].seen = req[r].seen
    BY <1>0, <2>1 DEF Goto, Request
  <2>3. Demotes(req[r]) => \E v \in Owners(n) : v # u
    <3>1. Owners(n) \subseteq {} \cup {u} => Cardinality(Owners(n)) <= 1
      <4>1. Cardinality({}) = 0 /\ IsFiniteSet({})
        BY FS_EmptySet
      <4>2. Owners(n) \subseteq {} \cup {u} => Cardinality(Owners(n)) <= Cardinality({}) + 1
        BY <4>1, OneMore
      <4> QED
        BY <4>1, <4>2
    <3> QED
      BY <2>1, <3>1
  <2>4. Owners(n)' = Owners(n)
    BY <1>2 DEF Owners, Active
  <2> QED
    BY <1>2, <1>3, <1>4, <2>1, <2>2, <2>3, <2>4
    DEF Fresh, HasSeen, Demotes, NextRole, NextStatus
<1> QED
  BY <1>5, <1>6, <1>7, <1>8, <1>9, <1>10, <1>11

LEMMA ChecksStep ==
  TypeOK /\ Aimed /\ ChecksHold /\ [Next]_vars => ChecksHold'
<1> SUFFICES ASSUME TypeOK, Aimed, ChecksHold, [Next]_vars,
                    NEW x \in Requests, NEW n \in Tenants, NEW u \in Users,
                    req'[x].tenant = {n}, req'[x].user = {u}, ~req'[x].overtaken
             PROVE  Fresh(req[x], n, u)'
  BY DEF ChecksHold
<1>1. ASSUME req'[x] = req[x],
             \A m \in Tenants, v \in Users : /\ member'[m][v].role = member[m][v].role
                                             /\ member'[m][v].status = member[m][v].status
      PROVE  Fresh(req[x], n, u)'
  BY <1>1, FreshSame
<1>2. CASE UNCHANGED vars
  BY <1>1, <1>2 DEF vars
<1>3. ASSUME NEW m \in Tenants, NEW v \in Users, Expire(m, v) PROVE Fresh(req[x], n, u)'
  <2>1. \A k \in Tenants, w \in Users : /\ member'[k][w].role = member[k][w].role
                                        /\ member'[k][w].status = member[k][w].status
    BY <1>3 DEF Expire, TypeOK, Rows
  <2> QED
    BY <1>1, <1>3, <2>1 DEF Expire
<1>4. ASSUME NEW r \in Requests, Asked(r) PROVE Fresh(req[x], n, u)'
  <2>1. PICK q : First(q) /\ Begin(r, q)
    BY <1>4, AskedBegins
  <2>2. UNCHANGED member /\ req' = [req EXCEPT ![r] = q]
    BY <2>1 DEF Begin
  <2>3. CASE x # r
    BY <1>1, <2>2, <2>3 DEF TypeOK
  <2>4. CASE x = r
    BY <2>1, <2>2, <2>4 DEF First, Fresh, HasSeen, TypeOK
  <2> QED
    BY <2>3, <2>4
<1>5. ASSUME NEW r \in Requests, Checked(r) PROVE Fresh(req[x], n, u)'
  <2>1. UNCHANGED member /\ \A y \in Requests \ {r} : req'[y] = req[y]
    BY <1>5, CheckedKeeps, CheckedMoves DEF TypeOK
  <2>2. CASE x # r
    BY <1>1, <2>1, <2>2
  <2> QED
    BY <1>5, <2>2, FreshChecked
<1>6. ASSUME NEW r \in Requests, Written(r) PROVE Fresh(req[x], n, u)'
  <2>1. \/ Refuse(r) /\ UNCHANGED member
        \/ \E m \in Tenants, v \in Users : \E row : Commit(r, m, v, row)
    BY <1>6, WriteCases
    DEF CreateWrite, AddWrite, InviteWrite, CancelWrite, AcceptWrite, JoinWrite, UpdateWrite, RemoveWrite
  <2>2. CASE Refuse(r) /\ UNCHANGED member
    <3>1. x # r
      BY <2>2 DEF Refuse, Idle, TypeOK
    <3> QED
      BY <1>1, <2>2, <3>1 DEF Refuse, TypeOK
  <2> QED
    BY <2>1, <2>2, FreshCommit
<1> QED
  BY <1>2, <1>3, <1>4, <1>5, <1>6 DEF Next

\* An owner whom nothing demotes is still one.
LEMMA OwnersKept ==
  ASSUME TypeOK, NEW r \in Requests, NEW n \in Tenants, NEW u \in Users, NEW row, Commit(r, n, u, row),
         \/ u \notin Owners(n)
         \/ row.role = "OWNER" /\ row.status = "ACTIVE"
         \/ \E v \in Owners(n) : v # u
  PROVE  Owners(n) # {} => Owners(n)' # {}
<1>1. \A v \in Owners(n) : v # u => v \in Owners(n)'
  BY CommitRows DEF Owners, Active
<1>2. row.role = "OWNER" /\ row.status = "ACTIVE" => u \in Owners(n)'
  BY CommitRows DEF Owners, Active
<1> QED
  BY <1>1, <1>2

LEMMA OwnerStep ==
  ASSUME TypeOK, Aimed, ChecksHold, [Next]_vars, NEW m \in Tenants,
         Owners(m) # {}, Owners(m)' = {}
  PROVE  \E r \in Requests : Upset(r)
<1>1. member' # member
  BY DEF Owners, Active
<1>2. PICK r \in Requests : Written(r)
  <2>1. ASSUME NEW n \in Tenants, NEW u \in Users, Expire(n, u) PROVE Owners(m)' = Owners(m)
    <3>1. \A k \in Tenants, w \in Users : /\ member'[k][w].role = member[k][w].role
                                          /\ member'[k][w].status = member[k][w].status
      BY <2>1 DEF Expire, TypeOK, Rows
    <3> QED
      BY <3>1 DEF Owners, Active
  <2> QED
    BY <1>1, <2>1, AskedKeeps, CheckedKeeps DEF Next, vars
<1>3. PICK n \in Tenants, u \in Users :
        /\ u \in req[r].user
        /\ \/ CreateWrite(r, n, u)
           \/ /\ n \in req[r].tenant
              /\ \/ AddWrite(r, n, u) \/ InviteWrite(r, n, u) \/ CancelWrite(r, n, u)
                 \/ AcceptWrite(r, n, u) \/ JoinWrite(r, n, u)
                 \/ UpdateWrite(r, n, u) \/ RemoveWrite(r, n, u)
  BY <1>2, WriteCases
<1>4. req[r].pc = "write" /\ \E row : Commit(r, n, u, row)
  BY <1>1, <1>3 DEF CreateWrite, AddWrite, InviteWrite, CancelWrite, AcceptWrite, JoinWrite,
                    UpdateWrite, RemoveWrite, At
<1>5. Writes(r)
  BY <1>1, <1>4 DEF Writes, Commit, TypeOK
<1>6. m = n
  <2>1. m # n => \A v \in Users : member'[m][v] = member[m][v]
    BY <1>4, CommitRows
  <2> QED
    BY <2>1 DEF Owners, Active
<1> SUFFICES ASSUME ~req[r].overtaken PROVE FALSE
  BY <1>5 DEF Upset
<1>7. member[n][u] \in Rows /\ req[r] \in Request
  BY DEF TypeOK
<1>8. ASSUME NEW row, Commit(r, n, u, row),
             \/ u \notin Owners(n)
             \/ row.role = "OWNER" /\ row.status = "ACTIVE"
             \/ \E v \in Owners(n) : v # u
      PROVE  FALSE
  BY <1>6, <1>8, OwnersKept
<1>9. CASE CreateWrite(r, n, u)
  BY <1>8, <1>9 DEF CreateWrite, Founded, Owners, Active, NoRow, NONE
<1>10. CASE AddWrite(r, n, u)
  BY <1>1, <1>8, <1>10 DEF AddWrite, Owners, Active, NoRow, NONE
<1>11. CASE AcceptWrite(r, n, u) \/ JoinWrite(r, n, u)
  <2>1. Accepted(member[n][u]).role = member[n][u].role /\ Accepted(member[n][u]).status = "ACTIVE"
    BY <1>7 DEF Accepted, Rows
  <2> QED
    BY <1>8, <1>11, <2>1 DEF AcceptWrite, JoinWrite, Owners, Active
<1>12. ASSUME req[r].op # "create" PROVE Fresh(req[r], n, u)
  BY <1>3, <1>12 DEF CreateWrite, At, Aimed, ChecksHold
<1>13. CASE InviteWrite(r, n, u) \/ CancelWrite(r, n, u)
  <2>1. u \notin Active(n)
    BY <1>12, <1>13 DEF InviteWrite, CancelWrite, At, Fresh, HasSeen, Active
  <2> QED
    BY <1>4, <1>8, <2>1 DEF Owners
<1>14. CASE UpdateWrite(r, n, u)
  <2>1. Fresh(req[r], n, u) /\ req[r].op = "update" /\ req[r].pc = "write"
    BY <1>12, <1>14 DEF UpdateWrite, At
  <2>2. /\ Updated(member[n][u], req[r]).role = NextRole(req[r])
        /\ Updated(member[n][u], req[r]).status = NextStatus(req[r])
    BY <1>7, <2>1 DEF Updated, Rows, NextRole, NextStatus, Fresh, HasSeen
  <2>3. u \in Owners(n) => req[r].seen.role = "OWNER" /\ req[r].seen.status = "ACTIVE"
    BY <2>1 DEF Fresh, HasSeen, Owners, Active
  <2> QED
    BY <1>8, <1>14, <2>1, <2>2, <2>3 DEF UpdateWrite, Fresh, Demotes
<1>15. CASE RemoveWrite(r, n, u)
  <2>1. Fresh(req[r], n, u) /\ req[r].op = "remove" /\ req[r].pc = "write"
    BY <1>12, <1>15 DEF RemoveWrite, At
  <2>2. u \in Owners(n) => req[r].seen.role = "OWNER" /\ req[r].seen.status = "ACTIVE"
    BY <2>1 DEF Fresh, HasSeen, Owners, Active
  <2> QED
    BY <1>4, <1>8, <2>1, <2>2 DEF Fresh, Demotes
<1> QED
  BY <1>3, <1>9, <1>10, <1>11, <1>13, <1>14, <1>15

\* Only a request that another one overtook between its checks and its write takes the last
\* active owner of a workspace: what protectLastOwner counted holds until then.
THEOREM LastOwnerProtected == Spec => OwnerRemains
<1>1. Init => TypeOK /\ Aimed /\ ChecksHold
  <2>1. Init => \A r \in Requests : req[r].tenant = {} /\ req[r].user = {}
    BY DEF Init, Idle
  <2>2. Init => Aimed /\ ChecksHold
    BY <2>1 DEF Aimed, ChecksHold
  <2> QED
    BY <2>2, TypeInit
<1>2. TypeOK /\ Aimed /\ ChecksHold /\ [Next]_vars =>
        [\A n \in Tenants : Owners(n) # {} /\ Owners(n)' = {} => \E r \in Requests : Upset(r)]_vars
  BY OwnerStep
<1> QED
  BY <1>1, <1>2, TypeStep, AimedStep, ChecksStep, PTL DEF Spec, OwnerRemains

-----------------------------------------------------------------------------
(* What administrators may do                                              *)

\* What an administrator's request has been let through with: it gives out no ownership, and the
\* row it has seen was no owner's, or, for an invitation, nobody's who is in.
Bounded(q) ==
  q.by = "ADMIN" =>
    /\ q.op \in {"add", "invite", "cancel", "update", "remove"}
    /\ q.op \in {"add", "invite"} \/ (q.op = "update" /\ HasSeen(q)) => q.role # "OWNER"
    /\ q.op \in {"cancel", "update", "remove"} /\ HasSeen(q) => q.seen.role # "OWNER"
    /\ q.op = "invite" /\ HasSeen(q) => q.seen.status \notin {"ACTIVE", "SUSPENDED"}
AdminsBounded == \A r \in Requests : Bounded(req[r])

LEMMA AskedBounded ==
  ASSUME NEW r \in Requests, Asked(r) PROVE \E q : Bounded(q) /\ Begin(r, q)
<1>0. "ADMIN" # NONE
  BY DEF NONE
<1>1. ASSUME NEW u \in Users, CreateRead(r, u) PROVE \E q : Bounded(q) /\ Begin(r, q)
  BY <1>0, <1>1 DEF CreateRead, Bounded, Idle
<1>2. ASSUME NEW n \in Tenants, NEW u \in Users, AcceptRead(r, n, u) \/ JoinRead(r, n, u)
      PROVE  \E q : Bounded(q) /\ Begin(r, q)
  BY <1>0, <1>2 DEF AcceptRead, JoinRead, Bounded, Idle
<1>3. ASSUME NEW n \in Tenants, NEW u \in Users, NEW op, NEW by, NEW role, NEW status,
             op \in {"add", "invite", "cancel", "update", "remove"}, Ask(r, n, u, op, by, role, status)
      PROVE  \E q : Bounded(q) /\ Begin(r, q)
  <2> DEFINE q == [Idle EXCEPT !.pc = "asked", !.op = op, !.tenant = {n}, !.user = {u}, !.by = by,
                               !.role = role, !.status = status]
  <2>1. q.pc = "asked" /\ q.op = op /\ q.by = by /\ q.role = role
    BY DEF Idle
  <2>2. ~HasSeen(q)
    BY <2>1 DEF HasSeen
  <2>3. op \in {"add", "invite"} => AdminBoundary(by, role)
    BY <1>3 DEF Ask
  <2>4. Begin(r, q)
    BY <1>3 DEF Ask
  <2> HIDE DEF q
  <2>5. Bounded(q)
    BY <1>3, <2>1, <2>2, <2>3 DEF Bounded, AdminBoundary
  <2> QED
    BY <2>4, <2>5
<1>4. ASSUME NEW n \in Tenants, NEW u \in Users, NEW by \in Managers,
             \/ \E role \in Roles : Add(r, n, u, by, role) \/ Invite(r, n, u, by, role)
             \/ \E to \in Updates : Update(r, n, u, by, to)
             \/ Cancel(r, n, u, by) \/ Remove(r, n, u, by)
      PROVE  \E q : Bounded(q) /\ Begin(r, q)
  BY <1>3, <1>4 DEF Add, Invite, Update, Cancel, Remove
<1> QED
  BY <1>1, <1>2, <1>4 DEF Asked

\* A request that goes on without reading anew.
LEMMA GotoBounded ==
  ASSUME TypeOK, AdminsBounded, NEW r \in Requests, NEW pc, Goto(r, pc),
         \/ HasSeen(req[r])
         \/ req[r].op \in {"add", "accept"}
         \/ req[r].op = "invite" /\ pc = "row"
  PROVE  Bounded(req'[r])
<1>1. /\ req'[r].op = req[r].op /\ req'[r].by = req[r].by /\ req'[r].role = req[r].role
      /\ req'[r].seen = req[r].seen /\ req'[r].pc = pc
  BY DEF Goto, TypeOK, Request
<1>2. Bounded(req[r])
  BY DEF AdminsBounded
<1> QED
  BY <1>1, <1>2 DEF Bounded, HasSeen

\* A request that reads the row it is about.
LEMMA SeeBounded ==
  ASSUME TypeOK, AdminsBounded, NEW r \in Requests, NEW n \in Tenants, NEW u \in Users, NEW pc,
         req' = [req EXCEPT ![r].pc = pc, ![r].seen = member[n][u]],
         req[r].op \in {"invite", "cancel", "update", "remove"},
         req[r].op = "invite" => member[n][u].status \notin {"ACTIVE", "SUSPENDED"},
         req[r].op # "invite" => AdminBoundary(req[r].by, member[n][u].role),
         req[r].op = "update" => AdminBoundary(req[r].by, req[r].role)
  PROVE  Bounded(req'[r])
<1>1. /\ req'[r].op = req[r].op /\ req'[r].by = req[r].by /\ req'[r].role = req[r].role
      /\ req'[r].seen = member[n][u]
  BY DEF TypeOK, Request
<1>2. Bounded(req[r])
  BY DEF AdminsBounded
<1> QED
  BY <1>1, <1>2 DEF Bounded, AdminBoundary

LEMMA CheckedBounded ==
  ASSUME TypeOK, AdminsBounded, NEW r \in Requests, Checked(r) PROVE Bounded(req'[r])
<1>1. PICK n \in Tenants, u \in Users :
        \/ AddLimit(r, n) \/ AddRead(r, n, u) \/ AssertSupport(r, n, u)
        \/ InviteRead(r, n, u) \/ CancelRead(r, n, u) \/ AcceptLimit(r, n)
        \/ UpdateRead(r, n, u) \/ RemoveRead(r, n, u) \/ ProtectLastOwner(r, n)
  BY DEF Checked, TypeOK, Request
<1>2. CASE Refuse(r)
  <2>1. req'[r] = Idle /\ Idle.by # "ADMIN"
    BY <1>2 DEF Refuse, Idle, NONE, TypeOK
  <2> QED
    BY <2>1 DEF Bounded
<1>3. CASE ~Refuse(r)
  <2>1. CASE AddLimit(r, n) \/ AddRead(r, n, u) \/ AcceptLimit(r, n)
    BY <1>3, <2>1, GotoBounded DEF AddLimit, AddRead, AcceptLimit, At
  <2>2. CASE AssertSupport(r, n, u)
    BY <1>3, <2>2, GotoBounded DEF AssertSupport, At, HasSeen
  <2>3. CASE ProtectLastOwner(r, n)
    BY <1>3, <2>3, GotoBounded DEF ProtectLastOwner, At, HasSeen
  <2>4. CASE InviteRead(r, n, u)
    <3>1. "ACTIVE" \notin {NONE, "INVITED", "REMOVED"} /\ "SUSPENDED" \notin {NONE, "INVITED", "REMOVED"}
      BY DEF NONE
    <3> QED
      BY <1>3, <2>4, <3>1, SeeBounded DEF InviteRead, At
  <2>5. CASE CancelRead(r, n, u)
    BY <1>3, <2>5, SeeBounded DEF CancelRead, At
  <2>6. CASE UpdateRead(r, n, u) \/ RemoveRead(r, n, u)
    BY <1>3, <2>6, SeeBounded DEF UpdateRead, RemoveRead, ReadTarget, At
  <2> QED
    BY <1>1, <2>1, <2>2, <2>3, <2>4, <2>5, <2>6
<1> QED
  BY <1>2, <1>3

LEMMA AdminsStep == TypeOK /\ AdminsBounded /\ [Next]_vars => AdminsBounded'
<1> SUFFICES ASSUME TypeOK, AdminsBounded, [Next]_vars, NEW x \in Requests
             PROVE  Bounded(req'[x])
  BY DEF AdminsBounded, Bounded, HasSeen
<1>1. ASSUME req'[x] = req[x] PROVE Bounded(req'[x])
  BY <1>1 DEF AdminsBounded
<1>2. ASSUME NEW r \in Requests, Asked(r) PROVE Bounded(req'[x])
  <2>1. PICK q : Bounded(q) /\ Begin(r, q)
    BY <1>2, AskedBounded
  <2>2. req'[x] = IF x = r THEN q ELSE req[x]
    BY <2>1 DEF Begin, TypeOK
  <2> QED
    BY <1>1, <2>1, <2>2
<1>3. ASSUME NEW r \in Requests, Checked(r) PROVE Bounded(req'[x])
  <2>1. x # r => req'[x] = req[x]
    BY <1>3, CheckedMoves DEF TypeOK
  <2> QED
    BY <1>1, <1>3, <2>1, CheckedBounded
<1>4. ASSUME NEW r \in Requests, Written(r) PROVE Bounded(req'[x])
  <2>1. \/ Refuse(r)
        \/ \E m \in Tenants, v \in Users : \E row : Commit(r, m, v, row)
    BY <1>4, WriteCases
    DEF CreateWrite, AddWrite, InviteWrite, CancelWrite, AcceptWrite, JoinWrite, UpdateWrite, RemoveWrite
  <2>2. req'[x] = Idle \/ req'[x] = req[x] \/ \E b : req'[x] = [req[x] EXCEPT !.overtaken = b]
    BY <2>1 DEF Refuse, Commit, TypeOK
  <2>3. CASE req'[x] = Idle
    <3>1. Idle.by # "ADMIN"
      BY DEF Idle, NONE
    <3> QED
      BY <2>3, <3>1 DEF Bounded
  <2>4. ASSUME NEW b, req'[x] = [req[x] EXCEPT !.overtaken = b] PROVE Bounded(req'[x])
    <3>1. /\ req'[x].op = req[x].op /\ req'[x].by = req[x].by /\ req'[x].role = req[x].role
          /\ req'[x].seen = req[x].seen /\ req'[x].pc = req[x].pc
      BY <2>4 DEF TypeOK, Request
    <3>2. Bounded(req[x])
      BY DEF AdminsBounded
    <3> QED
      BY <3>1, <3>2 DEF Bounded, HasSeen
  <2> QED
    BY <1>1, <2>2, <2>3, <2>4
<1> QED
  BY <1>1, <1>2, <1>3, <1>4 DEF Next, vars, Expire

\* The request that writes is the one whose transaction the step is.
LEMMA WriterIs ==
  ASSUME TypeOK, [Next]_vars, NEW r \in Requests, Writes(r) PROVE Written(r)
<1>1. PICK x \in Requests : Written(x)
  <2>1. req'[r] # req[r]
    BY DEF Writes, Idle
  <2> QED
    BY <2>1, AskedKeeps, CheckedKeeps DEF Next, vars, Expire, Writes
<1>2. \/ Refuse(x)
      \/ \E m \in Tenants, v \in Users : \E row : Commit(x, m, v, row)
  BY <1>1, WriteCases
  DEF CreateWrite, AddWrite, InviteWrite, CancelWrite, AcceptWrite, JoinWrite, UpdateWrite, RemoveWrite
<1>3. CASE x # r
  <2>1. req'[r] = req[r] \/ \E b : req'[r] = [req[r] EXCEPT !.overtaken = b]
    BY <1>2, <1>3 DEF Refuse, Commit, TypeOK
  <2>2. req'[r].pc = req[r].pc
    BY <2>1 DEF TypeOK, Request
  <2> QED
    BY <2>2 DEF Writes, Idle
<1> QED
  BY <1>1, <1>3

\* A row that is written by an administrator's request makes no owner, and was no owner's.
LEMMA AdminWrites ==
  ASSUME TypeOK, Aimed, ChecksHold, AdminsBounded, [Next]_vars,
         NEW r \in Requests, Writes(r), req[r].by = "ADMIN",
         NEW m \in Tenants, NEW v \in Users, member'[m][v] # member[m][v]
  PROVE  /\ member'[m][v].role = "OWNER" => member[m][v].role = "OWNER"
         /\ member[m][v].role = "OWNER" /\ member[m][v].status \in {"ACTIVE", "SUSPENDED"} => Upset(r)
<1>1. Written(r) /\ Bounded(req[r]) /\ req[r].pc = "write"
  BY WriterIs DEF AdminsBounded, Writes
<1>2. PICK n \in Tenants, u \in Users :
        /\ u \in req[r].user
        /\ \/ CreateWrite(r, n, u)
           \/ /\ n \in req[r].tenant
              /\ \/ AddWrite(r, n, u) \/ InviteWrite(r, n, u) \/ CancelWrite(r, n, u)
                 \/ AcceptWrite(r, n, u) \/ JoinWrite(r, n, u)
                 \/ UpdateWrite(r, n, u) \/ RemoveWrite(r, n, u)
  BY <1>1, WriteCases
<1>3. req[r].op \in {"add", "invite", "cancel", "update", "remove"}
  BY <1>1 DEF Bounded
<1>4. PICK row : Commit(r, n, u, row)
  BY <1>2
  DEF CreateWrite, AddWrite, InviteWrite, CancelWrite, AcceptWrite, JoinWrite, UpdateWrite, RemoveWrite
<1>5. m = n /\ v = u
  BY <1>4, CommitRows
<1>6. member[n][u] \in Rows /\ req[r] \in Request
  BY DEF TypeOK
<1>7. ~req[r].overtaken => Fresh(req[r], n, u)
  BY <1>2, <1>3 DEF CreateWrite, At, Aimed, ChecksHold
<1>8. req[r].overtaken => Upset(r)
  BY DEF Upset
<1> DEFINE new == member'[n][u]
<1> DEFINE old == member[n][u]
<1> SUFFICES /\ new.role = "OWNER" => old.role = "OWNER"
             /\ ~req[r].overtaken => old.role # "OWNER" \/ old.status \notin {"ACTIVE", "SUSPENDED"}
  BY <1>5, <1>8
<1>9. CASE AddWrite(r, n, u)
  <2>1. old = NoRow /\ new = Joined(req[r].role)
    BY <1>5, <1>9, CommitRows DEF AddWrite
  <2>2. Joined(req[r].role).role = req[r].role /\ NoRow.role # "OWNER"
    BY DEF Joined, NoRow, NONE
  <2>3. req[r].role # "OWNER"
    BY <1>1, <1>9 DEF Bounded, AddWrite, At
  <2> QED
    BY <2>1, <2>2, <2>3
<1>10. CASE InviteWrite(r, n, u)
  <2>1. new = Invited(req[r].role)
    BY <1>5, <1>10, CommitRows DEF InviteWrite
  <2>2. req[r].role # "OWNER" /\ req[r].seen.status \notin {"ACTIVE", "SUSPENDED"}
    BY <1>1, <1>10 DEF Bounded, InviteWrite, At, HasSeen
  <2>3. ~req[r].overtaken => old.status = req[r].seen.status
    BY <1>7, <1>10 DEF Fresh, InviteWrite, At, HasSeen
  <2> QED
    BY <2>1, <2>2, <2>3 DEF Invited
<1>11. CASE CancelWrite(r, n, u) \/ RemoveWrite(r, n, u)
  <2>1. new = Removed(old)
    BY <1>11, CommitRows DEF CancelWrite, RemoveWrite
  <2>2. Removed(old).role = old.role
    BY <1>6 DEF Removed, Rows
  <2>3. req[r].seen.role # "OWNER"
    BY <1>1, <1>11 DEF Bounded, CancelWrite, RemoveWrite, At, HasSeen
  <2>4. ~req[r].overtaken => old.role = req[r].seen.role
    BY <1>7, <1>11 DEF Fresh, CancelWrite, RemoveWrite, At, HasSeen
  <2> QED
    BY <2>1, <2>2, <2>3, <2>4
<1>12. CASE UpdateWrite(r, n, u)
  <2>1. new = Updated(old, req[r])
    BY <1>12, CommitRows DEF UpdateWrite
  <2>2. Updated(old, req[r]).role = IF req[r].role = NONE THEN old.role ELSE req[r].role
    BY <1>6 DEF Updated, Rows
  <2>3. req[r].role # "OWNER" /\ req[r].seen.role # "OWNER"
    BY <1>1, <1>12 DEF Bounded, UpdateWrite, At, HasSeen
  <2>4. ~req[r].overtaken => old.role = req[r].seen.role
    BY <1>7, <1>12 DEF Fresh, UpdateWrite, At, HasSeen
  <2> QED
    BY <2>1, <2>2, <2>3, <2>4
<1> QED
  BY <1>2, <1>3, <1>9, <1>10, <1>11, <1>12 DEF CreateWrite, AcceptWrite, JoinWrite, At

\* Whatever requests cross, what an administrator asks for makes no owner, and it touches an
\* owner's row only when another request overtook it: assertAdminBoundary is asked of the role
\* that is given out and of the row, and the row is still that when it is written.
THEOREM AdminsStayBelowOwners == Spec => AdminBounded
<1>1. Init => TypeOK /\ Aimed /\ ChecksHold /\ AdminsBounded
  <2>1. Init => \A r \in Requests : req[r].tenant = {} /\ req[r].user = {} /\ req[r].by # "ADMIN"
    BY DEF Init, Idle, NONE
  <2>2. Init => Aimed /\ ChecksHold /\ AdminsBounded
    BY <2>1 DEF Aimed, ChecksHold, AdminsBounded, Bounded
  <2> QED
    BY <2>2, TypeInit
<1>2. TypeOK /\ Aimed /\ ChecksHold /\ AdminsBounded /\ [Next]_vars =>
        [\A n \in Tenants, u \in Users, r \in Requests :
           Writes(r) /\ req[r].by = "ADMIN" /\ member'[n][u] # member[n][u] =>
             /\ member'[n][u].role = "OWNER" => member[n][u].role = "OWNER"
             /\ member[n][u].role = "OWNER" /\ member[n][u].status \in {"ACTIVE", "SUSPENDED"}
                => Upset(r)]_vars
  BY AdminWrites
<1> QED
  BY <1>1, <1>2, TypeStep, AimedStep, ChecksStep, AdminsStep, PTL DEF Spec, AdminBounded

=============================================================================
