--------------------------- MODULE MCRegistryTree ---------------------------
EXTENDS RegistryTree, TLC

CONSTANTS sa, sb

\* A region, one inside it at its beginning, one inside that, one behind it.
Nested == {<<1, 3>>, <<1, 3, 1>>, <<1, 3, 1, 2>>, <<1, 4>>}

\* Objects inside, between, at the edges of and behind the regions.
Objects == {<<1, 3, 1, 1>>, <<1, 3, 1, 2, 0>>, <<1, 3, 2>>, <<1, 4, 9>>, <<3>>}

SessionSymmetry == Permutations(Session)
=============================================================================
