SPECIFICATION Spec
CONSTANTS
  Users = {u1}
  Browsers = {b1, b2}
  Codes = {c1, c2}
  None = None
SYMMETRY Symmetry
INVARIANTS
  BannedHaveNoSession
