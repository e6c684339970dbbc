------------------------------ MODULE TimedAccess ------------------------------
(***************************************************************************)
(* What the ssh-access functions promise, whatever the cloud: a table of   *)
(* grants that end on their own.  A grant is never longer than the         *)
(* installation allows, and it leaves the table only because it expired,   *)
(* because someone is revoking it, or because a grant of the same key that *)
(* lasts at least as long takes its place.  It enters the table only while *)
(* someone is granting it: nobody's stale view brings it back.             *)
(*                                                                         *)
(* A key is whatever a cloud records a grant for: a member and a policy on *)
(* Google Cloud, a principal and a role on a VM on Azure.                  *)
(***************************************************************************)
EXTENDS Naturals

CONSTANTS
    Keys,         \* what access is granted for
    MaxDuration   \* the longest access the installation allows

VARIABLES
    clock,      \* the time
    access,     \* the grants, as [key, until] records
    granting,   \* the keys somebody was allowed to grant and is granting
    revoking    \* the keys somebody is revoking

vars == <<clock, access, granting, revoking>>

Grant == [key : Keys, until : Nat]

Init ==
    /\ clock \in Nat
    /\ access = {}
    /\ granting \in SUBSET Keys
    /\ revoking \in SUBSET Keys

\* g may be missing from the next table, or it is still there.
MayGo(g) ==
    \/ g \in access'
    \/ g.until <= clock
    \/ g.key \in revoking
    \/ \E n \in access' : n.key = g.key /\ n.until >= g.until

\* n may be new in the next table.
MayCome(n) ==
    /\ n \in Grant
    /\ n.key \in granting
    /\ n.until <= clock + MaxDuration

\* One write to the cloud may grant, renew, purge and revoke at once.
Write ==
    /\ \A g \in access : MayGo(g)
    /\ \A n \in access' \ access : MayCome(n)
    /\ granting' \in SUBSET Keys
    /\ revoking' \in SUBSET Keys
    /\ UNCHANGED clock

Tick ==
    /\ clock' = clock + 1
    /\ UNCHANGED <<access, granting, revoking>>

Next == Write \/ Tick

Spec == Init /\ [][Next]_vars
===============================================================================
