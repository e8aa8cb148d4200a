------------------------ MODULE MCCanisterOutcalls ------------------------
EXTENDS CanisterOutcalls

\* Two addresses, the second a prefix of the first, so that the order of the
\* registrations matters.
PrefixedAddresses == {<<1, 2>>, <<1>>}
TwoSelectors == {<<1>>, <<2>>}
TwoRanges == {<<1, 2>>, <<3, 4>>}
===========================================================================
