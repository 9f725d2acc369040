------------------------------- MODULE MCTimer -------------------------------
EXTENDS Timer

CONSTANTS a, b

MCTask == {a, b}
Symmetry == Permutations(MCTask)

\* Zero, small and large positive values, and - IntMax as a 64-bit register.
MCArg2 == {0, 1, IntMax, IntMax + 2}
=============================================================================
