SPECIFICATION Spec
CONSTANTS
  Files = {f1, f2}
INVARIANT OnlyAcceptMeansYes
