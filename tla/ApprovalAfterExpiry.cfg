SPECIFICATION UpgradeSpec
CONSTANTS
  Auditors = {a1}
  Chains = {c1}
  ProposalTtl = 1
  MaxProposals = 1
  MaxReviews = 1
  MaxTime = 2
  MaxRequests = 0
PROPERTY NoApprovalAfterExpiry
CHECK_DEADLOCK FALSE
