SPECIFICATION UpgradeSpec
CONSTANTS
  Auditors = {a1, a2}
  Chains = {c1}
  ProposalTtl = 1
  MaxProposals = 2
  MaxReviews = 3
  MaxTime = 1
  MaxRequests = 2
SYMMETRY AuditorSymmetry
INVARIANTS
  UpgradeTypeOK
  IdsDescend
  ReviewHistory
  RequestsStayAuthorized
  ExecutedMeansLanded
PROPERTIES
  AssignmentKept
  ImplementsLifecycle
CHECK_DEADLOCK FALSE
