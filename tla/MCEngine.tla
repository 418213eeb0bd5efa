------------------------------ MODULE MCEngine ------------------------------
\* Engine with three sides, two dates and three scorelines.
EXTENDS Engine, TLC

CONSTANTS a, b, c

Scores == {<<0, 0>>, <<2, 0>>, <<0, 1>>}
Symmetry == Permutations(Team)
=============================================================================
