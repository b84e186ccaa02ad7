\* Two concurrent requests over two users, one of whom can be removed and
\* invited again.
SPECIFICATION Spec
CONSTANTS
  u1 = u1
  u2 = u2
  m1 = m1
  m2 = m2
  m3 = m3
  g1 = g1
  g2 = g2
  w1 = w1
  r1 = r1
  r2 = r2
  Users = {u1, u2}
  Founder = u1
  MemberIds = {m1, m2, m3}
  GrantIds = {g1, g2}
  Workspaces = {w1}
  Requests = {r1, r2}
  AssignableRoles = {"customer_owner", "member", "auditor"}
SYMMETRY Symmetry
CHECK_DEADLOCK FALSE
INVARIANTS
  MembershipInvariant
  ListingMatchesResolution
PROPERTIES
  InvitationRestoresNoRight
  OwnerIsLostOnlyToAStaleRole
