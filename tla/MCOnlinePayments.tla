-------------------------- MODULE MCOnlinePayments --------------------------
EXTENDS OnlinePayments, TLC
Symmetry == Permutations(ProviderPays) \cup Permutations(Workers)
=============================================================================
