---------------------------- MODULE MCWorkspaces ----------------------------
EXTENDS Workspaces, TLC
Symmetry == Permutations(Users) \cup Permutations(Invites) \cup Permutations(Workers)
=============================================================================
