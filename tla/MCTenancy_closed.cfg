SPECIFICATION Spec
CONSTANTS
  Users = {u1, u2}
  Orgs = {o1, o2}
  Connected = {o1}
  Roles <- TwoRoles
  Nobody = Nobody
  MaxInvitations = 0
  MaxRequests = 1
SYMMETRY Symmetry
INVARIANTS
  ClosedAccountStaysOut
