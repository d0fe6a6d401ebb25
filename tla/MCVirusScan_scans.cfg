SPECIFICATION FairSpec
CONSTANTS
  Blobs = {b1}
  Jobs = {j1, j2}
  ErrorAttempts = 3
  OutageAttempts = 2
  MaxHooks = 2
INVARIANTS
  TypeOK
  NothingInfectedServed
  EnqueuedOnce
PROPERTIES
  VerdictStands
  EventuallySettled
CHECK_DEADLOCK FALSE
