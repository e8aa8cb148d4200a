--------------------------- MODULE MCStableStores ---------------------------
EXTENDS StableStores

\* The empty key, one that is a prefix of a key too long for the stores to
\* find, and one that sorts behind them all.
FourKeys == {<< >>, <<1>>, <<1, 1>>, <<2>>}

\* Two values of one size, and one of another.
ThreeValues == {<<7>>, <<8>>, <<7, 7>>}

\* Everything, and the keys that begin with a 1.
TwoPrefixes == {<< >>, <<1>>}
=============================================================================
