--------------------------- MODULE LbFrontendDelete ----------------------------
(***************************************************************************)
(* The lb-frontend-delete function of Azure: it removes what a deleted     *)
(* Service left on a load balancer that Services share.  AKS gave the      *)
(* Service a frontend, rules and probes on it, and perhaps a public IP.    *)
(* One execute removes the frontend with its rules and probes, or the      *)
(* whole load balancer if nothing else is on it; a later one deletes the   *)
(* public IP.                                                              *)
(*                                                                         *)
(* The function reads the load balancer, the IP and the health of each     *)
(* rule's backends, one after the other, and replaces the whole load       *)
(* balancer by what it read without the frontend.  Meanwhile AKS changes   *)
(* it for other Services.  Each change gives a resource another ETag, and  *)
(* the write is conditional on the one that was read.  ARM applies the     *)
(* change of a load balancer some time after it accepted it.               *)
(***************************************************************************)
EXTENDS Arm, FiniteSets

CONSTANTS
    Handlers,    \* invocations running at the same time
    Rules,       \* the rules there may be: [frontend, service, probe]
    MaxChanges   \* bound of everybody else's changes, for model checking only

\* The deleted Service and its frontend, and the others.
Service == "own"
Frontend == "own"
Names == {"own", "other"}

ASSUME RulesAssumption ==
    /\ Rules \subseteq [frontend : Names, service : Names, probe : Names]
    /\ MaxChanges \in Nat

VARIABLES
    lb,        \* the load balancer, or NoLb
    pip,       \* the public IP named after the frontend, or NoPip
    live,      \* the rules with healthy backends
    changes,   \* how often others changed something
    pc,        \* the call each invocation makes, or how it ended
    attempt,   \* how often it has sent the request of this call
    seen,      \* what it read
    applied,   \* whether ARM applied the write it makes
    recovered  \* the rules whose backends became healthy after it was told they were not

vars == <<lb, pip, live, changes, pc, attempt, seen, applied, recovered>>
invocations == <<pc, attempt, seen, applied>>

\* members: its backend pools have some.  ip: the public IP the frontend uses, if
\* any; outbound: outbound or NAT rules use the frontend.
LoadBalancer == [etag : Nat \ {NoEtag}, state : {"Succeeded", "Updating", "Deleting"},
                 frontends : SUBSET Names, rules : SUBSET Rules, probes : SUBSET Names,
                 members : BOOLEAN, ip : Names, outbound : BOOLEAN]
NoLb == [etag |-> NoEtag]

\* services: those its tag lists; user: the frontend it is attached to.
PublicIp == [etag : Nat \ {NoEtag}, services : SUBSET Names, user : Names \cup {"none"}]
NoPip == [etag |-> NoEtag]

\* action: what was asked for, then what an execute writes.  left: the rules whose
\* health is not known yet; unhealthy: those known to have no healthy backend.
Seen == [action : {"plan", "execute", "removeFrontend", "deleteLb", "deletePip"},
         lb : LoadBalancer \cup {NoLb}, pip : PublicIp \cup {NoPip},
         left : SUBSET Rules, unhealthy : SUBSET Rules]
NoRequest == [action |-> "none"]

Ended == {"idle", "planned", "refused", "done", "failed", "conflict"}
Steps == {"getLb", "getPip", "health", "write"}

-------------------------------------------------------------------------------
\* owned_by_frontend: the rules that use the frontend, and the probes that only
\* those use.
Owned(balancer) == {r \in balancer.rules : r.frontend = Frontend}
OwnedProbes(balancer) ==
    {r.probe : r \in Owned(balancer)} \ {r.probe : r \in balancer.rules \ Owned(balancer)}

\* without_frontend
WithoutFrontend(balancer) ==
    [balancer EXCEPT !.frontends = @ \ {Frontend}, !.rules = @ \ Owned(balancer),
                     !.probes = @ \ OwnedProbes(balancer),
                     !.ip = "other", !.outbound = FALSE]

\* Fault: a rule whose health was not reported in time passes.
Unhealthy_Unknown(s) == TRUE

\* health_guard: every rule of the frontend is known to have no healthy backend.
Unhealthy(s) == s.unhealthy = Owned(s.lb)

\* Fault: an IP that other Services use too passes.
OwnerGuard_Shared(s) == s.pip # NoPip => Service \in s.pip.services

\* The public IP was created for this Service alone.
OwnerGuard(s) == s.pip # NoPip => s.pip.services = {Service}

HasFrontend(s) == s.lb # NoLb /\ Frontend \in s.lb.frontends

\* evaluate: the change an execute makes.
Step(s) ==
    CASE HasFrontend(s) /\ s.lb.frontends = {Frontend} /\ ~s.lb.members -> "deleteLb"
      [] HasFrontend(s) /\ (s.lb.frontends # {Frontend} \/ s.lb.members) -> "removeFrontend"
      [] ~HasFrontend(s) /\ s.pip # NoPip -> "deletePip"
      [] OTHER -> "nothing"

\* evaluate: the guards.
Guards(s) ==
    IF HasFrontend(s)
    THEN /\ s.lb.state = "Succeeded"
         /\ ~s.lb.outbound
         /\ Unhealthy(s)
         /\ \A r \in Owned(s.lb) : r.service = Service
         /\ s.lb.ip = Frontend => OwnerGuard(s)
         /\ s.lb.frontends = {Frontend} => ~s.lb.members
    ELSE s.pip # NoPip => OwnerGuard(s) /\ s.pip.user = "none"

-------------------------------------------------------------------------------
\* A load balancer as AKS leaves it: what its rules use exists.
Consistent(balancer) ==
    /\ {r.frontend : r \in balancer.rules} \subseteq balancer.frontends
    /\ {r.probe : r \in balancer.rules} = balancer.probes
    /\ balancer.outbound => Frontend \in balancer.frontends

Init ==
    /\ \/ lb = NoLb
       \/ \E frontends \in SUBSET Names, rules \in SUBSET Rules, members \in BOOLEAN, ip \in Names :
            /\ lb = [etag |-> 1, state |-> "Succeeded", frontends |-> frontends, rules |-> rules,
                     probes |-> {r.probe : r \in rules}, members |-> members, ip |-> ip,
                     outbound |-> FALSE]
            /\ frontends # {} /\ Consistent(lb)
            /\ Frontend \notin frontends => ip # Frontend
    /\ pip \in [etag : {1}, services : {{Service}, Names}, user : Names \cup {"none"}] \cup {NoPip}
    /\ pip # NoPip /\ pip.user = Frontend <=> lb # NoLb /\ lb.ip = Frontend
    /\ pip # NoPip /\ pip.user = "other" => lb # NoLb /\ "other" \in lb.frontends
    /\ live \in SUBSET (IF lb = NoLb THEN {} ELSE lb.rules)
    /\ changes = 0
    /\ pc = [h \in Handlers |-> "idle"]
    /\ attempt = [h \in Handlers |-> 1]
    /\ seen = [h \in Handlers |-> NoRequest]
    /\ applied = [h \in Handlers |-> FALSE]
    /\ recovered = [h \in Handlers |-> {}]

\* A valid request reaches the function.
Start(h) ==
    /\ pc[h] \in Ended
    /\ \E action \in {"plan", "execute"} :
        seen' = [seen EXCEPT ![h] = [action |-> action, lb |-> NoLb, pip |-> NoPip,
                                     left |-> {}, unhealthy |-> {}]]
    /\ pc' = [pc EXCEPT ![h] = "getLb"]
    /\ UNCHANGED <<lb, pip, live, changes, attempt, applied, recovered>>

End(h, outcome) ==
    /\ pc' = [pc EXCEPT ![h] = outcome]
    /\ seen' = [seen EXCEPT ![h] = NoRequest]
    /\ attempt' = [attempt EXCEPT ![h] = 1]
    /\ applied' = [applied EXCEPT ![h] = FALSE]
    /\ recovered' = [recovered EXCEPT ![h] = {}]

Goes(h, step, s) ==
    /\ pc' = [pc EXCEPT ![h] = step]
    /\ seen' = [seen EXCEPT ![h] = s]
    /\ UNCHANGED <<attempt, applied, recovered>>

\* What follows from what was read: an answer, or a write.
Decide(h, s) ==
    IF ~Guards(s) THEN End(h, "refused")
    ELSE IF s.action = "plan" THEN End(h, "planned")
    ELSE IF Step(s) = "nothing" THEN End(h, "done")
    ELSE Goes(h, "write", [s EXCEPT !.action = Step(s)])

\* get: a missing resource is none.
GetLb(h) ==
    /\ pc[h] = "getLb"
    /\ Goes(h, "getPip", [seen[h] EXCEPT !.lb = lb])
    /\ UNCHANGED <<lb, pip, live, changes>>

GetPip(h) ==
    /\ pc[h] = "getPip"
    /\ LET s == [seen[h] EXCEPT !.pip = pip,
                                !.left = IF seen[h].lb = NoLb THEN {} ELSE Owned(seen[h].lb)]
       IN  IF s.left = {} THEN Decide(h, s) ELSE Goes(h, "health", s)
    /\ UNCHANGED <<lb, pip, live, changes>>

\* rule_health, post_and_wait: the health of the next rule's backends is known, or
\* is not reported before the deadline.  A rule that is gone has none: it fails.
ReadHealth(h) ==
    /\ pc[h] = "health"
    /\ \E r \in seen[h].left \cap (IF lb = NoLb THEN {} ELSE lb.rules), known \in BOOLEAN :
        LET s == [seen[h] EXCEPT !.left = @ \ {r},
                    !.unhealthy = IF known /\ r \notin live THEN @ \cup {r} ELSE @]
        IN  IF s.left = {} THEN Decide(h, s) ELSE Goes(h, "health", s)
    /\ UNCHANGED <<lb, pip, live, changes>>

\* ARM fails or throttles the last attempt, the connection breaks or the request
\* times out, or the invocation dies, without the write being applied.
Fail(h) ==
    /\ pc[h] \in Steps
    /\ End(h, "failed")
    /\ UNCHANGED <<lb, pip, live, changes>>

-------------------------------------------------------------------------------
\* The write: a PUT of the load balancer without the frontend, or a DELETE.

Method(h) == IF seen[h].action = "removeFrontend" THEN "PUT" ELSE "DELETE"
Target(h) == IF seen[h].action = "deletePip" THEN seen[h].pip ELSE seen[h].lb
Current(h) == IF seen[h].action = "deletePip" THEN pip ELSE lb

\* Fault: the write is unconditional.
Precondition_Always(h) == Always

\* The resource is the one that was read.
Precondition(h) == IfMatch(Target(h).etag)

\* The load balancer is changed; ARM carries it out later.
Update(balancer, state) ==
    lb' = [balancer EXCEPT !.etag = lb.etag + 1, !.state = state]

\* What ARM does when it processes the write.  It deletes no IP that is in use.
Process(h) ==
    \/ /\ seen[h].action = "removeFrontend"
       /\ Update(WithoutFrontend(seen[h].lb), "Updating")
       /\ UNCHANGED pip
    \/ /\ seen[h].action = "deleteLb" /\ lb # NoLb
       /\ Update(lb, "Deleting")
       /\ UNCHANGED pip
    \/ /\ seen[h].action = "deletePip" /\ pip # NoPip /\ pip.user = "none"
       /\ pip' = NoPip
       /\ UNCHANGED lb

\* send: a write that ARM did not process is sent again.  For a read this makes no
\* difference but the time it takes.
Retry(h) ==
    /\ pc[h] = "write"
    /\ \E status \in {"throttled", "serverError"} : SentAgain(Method(h), status, attempt[h])
    /\ attempt' = [attempt EXCEPT ![h] = @ + 1]
    /\ UNCHANGED <<lb, pip, live, changes, pc, seen, applied, recovered>>

\* put, delete: ARM applies the write, and answers so, or its answer is lost.  A
\* server error may have been processed, which makes send give up.
Write(h) ==
    /\ pc[h] = "write"
    /\ Holds(Precondition(h), Current(h).etag)
    /\ Process(h)
    /\ \/ \E outcome \in {"done", "failed"} : End(h, outcome)
       \/ /\ SentAgain(Method(h), "serverError", attempt[h])
          /\ attempt' = [attempt EXCEPT ![h] = @ + 1]
          /\ applied' = [applied EXCEPT ![h] = TRUE]
          /\ UNCHANGED <<pc, seen, recovered>>
    /\ UNCHANGED <<live, changes>>

\* put, delete: the resource changed since it was read.  One that is gone needs no
\* deletion.
NotWritten(h) ==
    /\ pc[h] = "write"
    /\ ~Holds(Precondition(h), Current(h).etag)
    /\ End(h, IF Method(h) = "DELETE" /\ Current(h).etag = NoEtag THEN "done" ELSE "conflict")
    /\ UNCHANGED <<lb, pip, live, changes>>

-------------------------------------------------------------------------------
\* Everybody else: AKS changes the load balancer and the IP for other Services, and
\* may remove itself what the Service left.

Change ==
    /\ changes < MaxChanges
    /\ changes' = changes + 1
    /\ UNCHANGED invocations

ChangeLb ==
    /\ lb # NoLb /\ lb.state # "Deleting"
    /\ \/ \E r \in Rules \ lb.rules :
            /\ r.service = "other"
            /\ r.frontend = Frontend => Frontend \in lb.frontends
            /\ Update([lb EXCEPT !.rules = @ \cup {r}, !.probes = @ \cup {r.probe},
                                 !.frontends = @ \cup {r.frontend}], "Updating")
            /\ live' \in {live, live \cup {r}}
       \/ \E r \in lb.rules :
            /\ Update([lb EXCEPT !.rules = @ \ {r},
                                 !.probes = {q.probe : q \in lb.rules \ {r}}], "Updating")
            /\ live' = live \ {r}
       \/ /\ Frontend \in lb.frontends
          /\ Update(WithoutFrontend(lb), "Updating")
          /\ live' = live \ Owned(lb)
       \/ Update([lb EXCEPT !.members = ~@], "Updating") /\ UNCHANGED live
       \/ /\ Frontend \in lb.frontends
          /\ Update([lb EXCEPT !.outbound = ~@], "Updating")
          /\ UNCHANGED live
    /\ UNCHANGED <<pip, recovered>>
    /\ Change

ChangePip ==
    /\ pip # NoPip
    /\ \/ pip' = [pip EXCEPT !.etag = @ + 1, !.services = @ \cup {"other"}]
       \/ /\ pip.user = "none" /\ lb # NoLb /\ "other" \in lb.frontends
          /\ pip' = [pip EXCEPT !.etag = @ + 1, !.services = @ \cup {"other"}, !.user = "other"]
       \/ pip.user = "none" /\ pip' = NoPip
    /\ UNCHANGED <<lb, live, recovered>>
    /\ Change

\* The backends of a rule become healthy, or stop being it.
ChangeHealth ==
    /\ lb # NoLb
    /\ \/ \E r \in lb.rules \ live :
            /\ live' = live \cup {r}
            /\ recovered' = [h \in Handlers |->
                    IF pc[h] \in {"health", "write"} /\ r \in seen[h].unhealthy
                    THEN recovered[h] \cup {r} ELSE recovered[h]]
       \/ \E r \in live : live' = live \ {r} /\ UNCHANGED recovered
    /\ UNCHANGED <<lb, pip>>
    /\ Change

\* ARM has carried out a change of the load balancer: an IP no frontend uses any
\* more is free.
Finish ==
    /\ lb # NoLb /\ lb.state # "Succeeded"
    /\ lb' = IF lb.state = "Deleting" THEN NoLb
             ELSE [lb EXCEPT !.etag = @ + 1, !.state = "Succeeded"]
    /\ pip' = IF pip # NoPip /\ pip.user # "none" /\ (lb.state = "Deleting" \/ pip.user \notin lb.frontends)
              THEN [pip EXCEPT !.etag = @ + 1, !.user = "none"]
              ELSE pip
    /\ UNCHANGED <<live, changes, recovered, invocations>>

Invocation(h) ==
    \/ Start(h)
    \/ GetLb(h)
    \/ GetPip(h)
    \/ ReadHealth(h)
    \/ Retry(h)
    \/ Write(h)
    \/ NotWritten(h)
    \/ Fail(h)

Next == (\E h \in Handlers : Invocation(h)) \/ ChangeLb \/ ChangePip \/ ChangeHealth \/ Finish

Spec == Init /\ [][Next]_vars

-------------------------------------------------------------------------------
\* Every variable has its type; a request is sent at most Attempts times.
TypeOK ==
    /\ lb \in LoadBalancer \cup {NoLb}
    /\ pip \in PublicIp \cup {NoPip}
    /\ live \subseteq Rules
    /\ changes \in 0 .. MaxChanges
    /\ pc \in [Handlers -> Ended \cup Steps]
    /\ attempt \in [Handlers -> 1 .. Attempts]
    /\ seen \in [Handlers -> Seen \cup {NoRequest}]
    /\ applied \in [Handlers -> BOOLEAN]
    /\ recovered \in [Handlers -> SUBSET Rules]

\* The write of an invocation takes effect.
Acts(h) == pc[h] = "write" /\ (pc'[h] # "write" \/ attempt'[h] # attempt[h])

\* Removing the frontend changes nothing else, whatever AKS did to the load balancer
\* since it was read, and every rule and probe that stays has what it uses: "a
\* concurrent cloud provider update is never overwritten" (main.rs:12).  A load
\* balancer whose backend pools have members keeps a frontend (main.rs:17-18).
NothingOverwritten ==
    [][\A h \in Handlers : Acts(h) /\ lb' # lb =>
        /\ lb'.frontends \cup {Frontend} = lb.frontends
        /\ lb'.state = "Updating" => /\ Frontend \notin lb'.frontends
                                    /\ lb'.rules = {r \in lb.rules : r.frontend # Frontend}
                                    /\ lb'.members = lb.members
                                    /\ Consistent(lb')
        /\ lb'.frontends \ {Frontend} = {} => ~lb.members /\ lb'.state = "Deleting"]_vars

\* No Service loses traffic: a rule that goes is the deleted Service's, and has no
\* healthy backend unless one recovered after this invocation was told that it has
\* none (main.rs:8-9).
NoTrafficCut ==
    [][\A h \in Handlers : Acts(h) /\ lb' # lb =>
        \A r \in Owned(lb) : r.service = Service /\ (r \in live => r \in recovered[h])]_vars

\* A public IP is deleted only while it is of this Service alone, and nothing uses it
\* (main.rs:14-15).
OnlyOwnIp ==
    [][\A h \in Handlers : Acts(h) /\ pip' # pip =>
        pip.services = {Service} /\ pip.user = "none"]_vars

\* A write whose precondition ARM found violated has changed nothing, not even in an
\* attempt before (arm.rs:593-596).
ConflictMeansUntouched ==
    [][\A h \in Handlers : pc[h] = "write" /\ pc'[h] = "conflict" => ~applied[h]]_vars
===============================================================================
