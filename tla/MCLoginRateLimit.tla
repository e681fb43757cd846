-------------------------- MODULE MCLoginRateLimit --------------------------
EXTENDS LoginRateLimit, TLC

MCSymmetry == Permutations(Attempts) \cup Permutations(Names)
=============================================================================
