SPECIFICATION Spec
CONSTANTS
  Users = {u1, u2, u3}
  Threads = {t1, t2}
  Kinds <- AllKinds
  Roles <- TwoRoles
  Nobody = Nobody
INVARIANTS
  OwnerIsActiveAdmin
