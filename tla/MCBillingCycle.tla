-------------------------- MODULE MCBillingCycle --------------------------
EXTENDS BillingCycle, TLC
CONSTANTS l1, l2, l3
\* A resident whose lease was renewed in mid-month has two leases of one unit.
Renewal == [l \in Leases |-> IF l = l3 THEN "t2" ELSE "t1"]
Listing == [l \in Leases |-> IF l = l3 THEN 2 ELSE 1]
Symmetry == Permutations(Bills) \cup Permutations(Workers) \cup Permutations({l1, l2})
=============================================================================
