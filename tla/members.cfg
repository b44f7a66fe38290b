SPECIFICATION Spec
CONSTANTS
  u1 = u1
  u2 = u2
  u3 = u3
  n1 = n1
  n2 = n2
  r1 = r1
  r2 = r2
  Users = {u1, u2, u3}
  Tenants = {n1, n2}
  Requests = {r1, r2}
  Roles <- SmallRoles
  Updates <- OneChange
  UserLimit <- Plans
  MaxRequests = 3
  MaxExpiries = 1
SYMMETRY MemberSymmetry
INVARIANTS InvitationRows SeatsBounded
PROPERTIES OwnerRemains AdminBounded
CHECK_DEADLOCK FALSE
