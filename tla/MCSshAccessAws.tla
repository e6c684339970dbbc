--------------------------- MODULE MCSshAccessAws ---------------------------
EXTENDS SshAccessAws, TLC

\* The pair asked for, and the same principal on another instance.
CONSTANTS i1, i2, p1
OnePair == {<<i1, p1>>}
WithOtherInstance == OnePair \cup {<<i2, p1>>}

Symmetry == Permutations(Handlers)
=============================================================================
