-------------------------- MODULE MCLbFrontendDelete ---------------------------
EXTENDS LbFrontendDelete, TLC

\* The deleted Service's rule, one of a Service that shares its frontend, and one on
\* the other frontend with the first one's probe.
ThreeRules == {[frontend |-> "own", service |-> "own", probe |-> "own"],
               [frontend |-> "own", service |-> "other", probe |-> "other"],
               [frontend |-> "other", service |-> "other", probe |-> "own"]}

Symmetry == Permutations(Handlers)
===============================================================================
