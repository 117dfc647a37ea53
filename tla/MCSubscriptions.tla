--------------------------- MODULE MCSubscriptions ---------------------------
EXTENDS Subscriptions, TLC
CONSTANTS basic, pro
Tiers == [p \in Plans |-> IF p = pro THEN 2 ELSE 1]
Symmetry == Permutations(Mandates) \cup Permutations(Workers)
=============================================================================
