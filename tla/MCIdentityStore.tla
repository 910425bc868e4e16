-------------------------- MODULE MCIdentityStore ---------------------------
EXTENDS IdentityStore, TLC

Symmetry == Permutations(Procs) \cup Permutations(Principals) \cup Permutations(Tokens)
=============================================================================
