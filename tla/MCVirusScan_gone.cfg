SPECIFICATION Spec
CONSTANTS
  Blobs = {b1}
  Jobs = {j1, j2, j3}
  ErrorAttempts = 3
  OutageAttempts = 2
  MaxHooks = 2
SYMMETRY Symmetry
PROPERTIES
  GoneBlobsAreIgnored
CHECK_DEADLOCK FALSE
