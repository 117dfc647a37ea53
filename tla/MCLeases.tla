------------------------------ MODULE MCLeases ------------------------------
EXTENDS Leases, TLC
Symmetry == Permutations(Units) \cup Permutations(LeaseIds) \cup Permutations(Workers)
=============================================================================
