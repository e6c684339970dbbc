--------------------------- MODULE MCSshAccessAzure ----------------------------
EXTENDS SshAccessAzure, TLC

\* The sweep's scopes: one, or two in this order.
CONSTANTS v1, v2
OneScope == <<v1>>
TwoScopes == <<v1, v2>>

\* Every request, or short grants of one role only where assignments may never be removed.
Every == Request
EveryInV2 == {r \in Request : r.vm = v1 => r.role = "user" /\ r.minutes = 1}

Symmetry == Permutations(Handlers)
===============================================================================
