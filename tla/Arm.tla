---------------------------------- MODULE Arm ----------------------------------
(***************************************************************************)
(* How the Azure functions call the Azure Resource Manager (ARM): what a   *)
(* request is answered, which requests are sent again, and the condition   *)
(* ARM checks before a write.                                              *)
(***************************************************************************)
EXTENDS Naturals

\* ATTEMPTS: how often a request is sent at most.
Attempts == 3

\* What ARM answers.  It processes neither a request it throttles (429, 503) nor
\* one whose precondition fails (412); whether it processed one that ends in a
\* server error (500, 502, 504) nobody knows.
Statuses == {"success", "notFound", "preconditionFailed", "throttled", "serverError"}

\* Fault: server errors are retried whatever the method.
Retryable_AnyMethod(method, status) == status \in {"throttled", "serverError"}

\* retryable: whether a request that was answered status can be sent again.
Retryable(method, status) ==
    \/ status = "throttled"
    \/ status = "serverError" /\ method = "GET"

\* Fault: one attempt too many.
SentAgain_Attempts(method, status, attempt) == attempt <= Attempts /\ Retryable(method, status)

\* send: the request that was answered status is sent once more.
SentAgain(method, status, attempt) == attempt < Attempts /\ Retryable(method, status)

\* The preconditions of a write.  A resource that reported no ETag is written
\* unconditionally.
Always == [kind |-> "always"]
NoEtag == 0
IfMatch(etag) == IF etag = NoEtag THEN Always ELSE [kind |-> "ifMatch", etag |-> etag]

\* ARM's check of a precondition against the resource's ETag, NoEtag if it does
\* not exist.
Holds(precondition, etag) ==
    precondition.kind = "ifMatch" => etag # NoEtag /\ etag = precondition.etag
===============================================================================
