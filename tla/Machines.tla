-------------------------------- MODULE Machines -------------------------------
(***************************************************************************)
(* What the models of the functions that act on machines have in common:   *)
(* a function is deployed to one of the clouds, its invocations read a     *)
(* resource, decide, and write it some calls later, while others change    *)
(* it.  VmDelete and NodePoolResize extend this module; their own names    *)
(* differ, so that a module of proofs can extend both.                     *)
(***************************************************************************)
EXTENDS Naturals

CONSTANTS
    Handlers,    \* invocations running at the same time
    Clouds,      \* clouds the function may be deployed to: "aws", "azure", "gcp"
    Quiet,       \* clouds where others leave alone what an invocation acts on; each
                 \* model says which changes that excludes
    MaxChanges   \* bound of everybody else's changes, for model checking only

ASSUME CloudsAssumption == Clouds \subseteq {"aws", "azure", "gcp"} /\ Quiet \subseteq Clouds
ASSUME MaxChangesAssumption == MaxChanges \in Nat

VARIABLES
    cloud,      \* the cloud the function is deployed to
    changes,    \* how often others changed the resource
    pc,         \* what each invocation does next, or how it ended
    seen,       \* the resource it read
    fresh,      \* the invocations for which the resource has the ETag it had then
    todo        \* what it still has to work through, one call each

\* An invocation that has ended, or has not begun.
Ended == {"idle", "planned", "refused", "done", "failed"}
===============================================================================
