------------------------------ MODULE MCDbRestore ------------------------------
EXTENDS DbRestore, TLC

Symmetry == Permutations(Handlers)
===============================================================================
