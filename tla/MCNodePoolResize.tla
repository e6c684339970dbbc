--------------------------- MODULE MCNodePoolResize ----------------------------
EXTENDS NodePoolResize, TLC

\* A cap of one node, and one that only Google Cloud takes for none.
Caps == {-1, 1}

Symmetry == Permutations(Handlers)
===============================================================================
