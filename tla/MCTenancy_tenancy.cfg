SPECIFICATION Spec
CONSTANTS
  Users = {u1, u2}
  Orgs = {o1, o2}
  Connected = {o1}
  Roles <- TwoRoles
  Nobody = Nobody
  MaxInvitations = 1
  MaxRequests = 1
SYMMETRY Symmetry
INVARIANTS
  TypeOK
  InvitationsAreForKeptOrganizations
  OwnerIsActiveAdmin
  RowsHaveParents
  OwnerCanAdminister
PROPERTIES
  OwnershipKept
  ClosedMembershipStaysClosed
  ClosedEnterByOldRequestOnly
  HistoryRetained
  NobodyEntersUninvited
