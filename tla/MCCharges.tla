----------------------------- MODULE MCCharges -----------------------------
EXTENDS Charges, TLC
Symmetry == Permutations(Keys) \cup Permutations(Workers)
=============================================================================
