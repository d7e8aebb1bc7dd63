----------------------------- MODULE MCMediaIntake -----------------------------
EXTENDS MediaIntake, TLC

Symmetry == Permutations(Jobs) \cup Permutations(Calls)
=============================================================================
