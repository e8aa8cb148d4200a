SPECIFICATION Spec
CONSTANTS
  Addresses <- PrefixedAddresses
  Selectors <- TwoSelectors
  Chains = {1, 5}
  KnownChains = {1}
  Ranges <- TwoRanges
  MaxLogs = 1
  MaxContracts = 2
  MaxSelectors = 1
  MaxMessages = 2
INVARIANT
  DictionaryAnswersMatch
