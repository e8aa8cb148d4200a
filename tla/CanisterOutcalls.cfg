SPECIFICATION Spec
CONSTANTS
  Addresses <- PrefixedAddresses
  Selectors <- TwoSelectors
  Chains = {1, 5}
  KnownChains = {1}
  Ranges <- TwoRanges
  MaxLogs = 1
  MaxContracts = 2
  MaxSelectors = 2
  MaxMessages = 2
INVARIANTS
  OutcallsTypeOK
  OneReplyEach
  AnswersTrueWhenAlone
  TableUnambiguous
PROPERTIES
  EntriesStable
  WaitingAnswered
