------------------------- MODULE MCCanisterLifecycle ------------------------
EXTENDS CanisterLifecycle

\* Two complete names, and one that both of them begin with.
ThreeNames == {<<1, 1>>, <<1, 2>>, <<1>>}

\* A donation of nothing only opens an account; two of one make tier 2.
TwoAmounts == {0, 1}
Costs == <<1, 2, 3>>
=============================================================================
