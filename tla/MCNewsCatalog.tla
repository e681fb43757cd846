--------------------------- MODULE MCNewsCatalog ---------------------------
EXTENDS NewsCatalog, TLC

MCSymmetry == Permutations(Requests)
=============================================================================
