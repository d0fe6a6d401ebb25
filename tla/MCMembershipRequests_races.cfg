SPECIFICATION Spec
CONSTANTS
  Users = {u1, u2, u3}
  Threads = {t1, t2, t3}
  Kinds <- AllKinds
  Roles <- TwoRoles
  Nobody = Nobody
SYMMETRY Symmetry
INVARIANTS
  TypeOK
PROPERTIES
  OnlyTransfersRace
CHECK_DEADLOCK FALSE
