------------------------------ MODULE MCEconomy ------------------------------
\* Publishers are alike.
EXTENDS Economy, TLC

Symmetry == Permutations(Publisher)
=============================================================================
