SPECIFICATION Spec
CONSTANTS
  Files = {f1, f2}
INVARIANTS
  TypeOK
  ButtonFollowsUploads
  FormSendsWhatIsShown
  NoSilentLoss
PROPERTIES
  ButtonComesBack
