---------------------------- MODULE MCSshAccessGcp -----------------------------
EXTENDS SshAccessGcp, TLC
Symmetry == Permutations(Members) \cup Permutations(Handlers)
===============================================================================
