SPECIFICATION Spec
CONSTANTS
  AuditorIds = {a1, a2, a3}
  MaxVoters = 3
  MaxDeclared = 3
  MaxSent = 2
  MaxTime = 2
SYMMETRY AuditorSymmetry
INVARIANTS
  TypeOK
  OneVoteEach
  NeverBothDecided
  ReadyIffApproved
  CompleteVerifies
  SentSufficient
PROPERTY DecisionIsFinal
CHECK_DEADLOCK FALSE
