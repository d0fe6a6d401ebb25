SPECIFICATION Spec
CONSTANTS
  Users = {u1, u2}
  Browsers = {b1, b2}
  Codes = {c1, c2, c3}
  None = None
SYMMETRY Symmetry
INVARIANTS
  TypeOK
  ClosedStaysSignedOut
  OneLiveCode
PROPERTIES
  SecondFactorNeverSkipped
  WithdrawnSsoStaysOut
  BannedOnlyBySecondFactor
  EnforcedEnterBySso
