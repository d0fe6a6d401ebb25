SPECIFICATION Spec
CONSTANTS
  Items = {1, 2, 3}
  Mixes <- SomeMixes
  Threads = {t1, t2}
  Limit = 1
  UserRow = UserRow
  Free = Free
  NoItem = NoItem
INVARIANTS
  TypeOK
  OneLiveLink
  InvitationsBounded
  
PROPERTIES
  EachOnce
  EveryRequestAnswered
CHECK_DEADLOCK FALSE
