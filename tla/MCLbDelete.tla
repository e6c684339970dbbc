------------------------------ MODULE MCLbDelete -------------------------------
EXTENDS LbDelete, TLC

Symmetry == Permutations(Handlers) \cup Permutations(Services) \cup Permutations(TGs)
===============================================================================
