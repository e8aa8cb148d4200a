SPECIFICATION UpgradeSpec
CONSTANTS
  Auditors = {a1, a2}
  Chains = {c1}
  ProposalTtl = 1
  MaxProposals = 1
  MaxReviews = 1
  MaxTime = 1
  MaxRequests = 0
INVARIANT AllAssignedApprove
CHECK_DEADLOCK FALSE
