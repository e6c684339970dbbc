-------------------------------- MODULE LbDelete -------------------------------
(***************************************************************************)
(* The lb-delete function of AWS: it deletes a load balancer that was      *)
(* created for a Kubernetes Service that no longer exists, and then the    *)
(* target groups the Service leaves, which cannot be deleted before.  One  *)
(* execute deletes the load balancer, a later one finds the target groups  *)
(* by their tags and deletes them, one after the other.                    *)
(*                                                                         *)
(* What belongs to a Service is told by tags, which never change.  The     *)
(* listing comes in pages, and the health of each group by a call of its   *)
(* own.  Meanwhile groups appear, are attached, and become healthy, unless *)
(* Quiet.  Any call may fail, a deletion may take effect although its      *)
(* answer is lost.                                                         *)
(***************************************************************************)
EXTENDS Naturals, FiniteSets

CONSTANTS
    Handlers,    \* invocations running at the same time
    Services,    \* Services (and Ingresses) of the clusters
    TGs,         \* target groups there may be in the region
    Quiet,       \* whether everybody leaves the Service a caller names alone, and its
                 \* targets do not become healthy, while an invocation runs for it
    MaxChanges   \* bound of everybody else's changes, for model checking only

ASSUME QuietAssumption == Quiet \in BOOLEAN /\ MaxChanges \in Nat

VARIABLES
    lb,        \* the load balancer asked for, or NoLb
    groups,    \* the target groups: a function of those that exist
    changes,   \* how often others changed something
    pc,        \* what each invocation does next, or how it ended
    req,       \* its request
    seen       \* what it read

vars == <<lb, groups, changes, pc, req, seen>>
invocations == <<pc, req, seen>>

NoLb == [owner |-> "none"]
LoadBalancer == [owner : Services, protected : BOOLEAN, provisioned : BOOLEAN]

\* user: the load balancer whose listeners use the group: the one asked for, or
\* another; live: some target is healthy or registering.
Group == [owner : Services, user : {"none", "lb", "other"}, live : BOOLEAN]

Request == [action : {"plan", "execute"}, service : Services]
NoRequest == [action |-> "none"]

\* The load balancer, the groups listed, whether a balancer uses any of them and
\* any is live, and those still to list, to look at or to delete.
Seen == [lb : LoadBalancer \cup {NoLb}, listed : SUBSET TGs, used : BOOLEAN, live : BOOLEAN,
         left : SUBSET TGs]
Nothing == [lb |-> NoLb, listed |-> {}, used |-> FALSE, live |-> FALSE, left |-> {}]

Ended == {"idle", "planned", "refused", "done", "failed"}
Steps == {"find", "attributes", "list", "health", "deleteLb", "deleteGroups"}

-------------------------------------------------------------------------------
\* Fault: whatever has tags of a Service passes.
Owned_Any(owner, service) == owner \in Services

\* ownership: the tags name exactly this Service and its cluster.
Owned(owner, service) == owner = service

\* Fault: a target that is registering is taken for none.
IsLive_Never(g) == FALSE

\* is_live: some target receives traffic or is about to.
IsLive(g) == g.live

\* target_groups_of: what the load balancer uses; leftover_target_groups: what
\* was created for the Service, even if a load balancer still uses it.
Listed(s, service) ==
    {t \in DOMAIN groups :
        IF s.lb # NoLb THEN groups[t].user = "lb" ELSE Owned(groups[t].owner, service)}

\* Fault: nothing left of the load balancer is something to delete.
Guards_Nothing(s, service) ==
    /\ ~s.live
    /\ IF s.lb # NoLb
       THEN Owned(s.lb.owner, service) /\ ~s.lb.protected /\ s.lb.provisioned
       ELSE ~s.used

\* evaluate: the guards on the load balancer, or on what is left of it.
Guards(s, service) ==
    /\ ~s.live
    /\ IF s.lb # NoLb
       THEN Owned(s.lb.owner, service) /\ ~s.lb.protected /\ s.lb.provisioned
       ELSE s.listed # {} /\ ~s.used

-------------------------------------------------------------------------------
Init ==
    /\ lb \in LoadBalancer \cup {NoLb}
    /\ groups \in UNION {[ts -> Group] : ts \in SUBSET TGs}
    /\ \A t \in DOMAIN groups : groups[t].user = "lb" => lb # NoLb
    /\ changes = 0
    /\ pc = [h \in Handlers |-> "idle"]
    /\ req = [h \in Handlers |-> NoRequest]
    /\ seen = [h \in Handlers |-> Nothing]

\* A valid request reaches the function.
Start(h, action) ==
    /\ pc[h] \in Ended
    /\ \E service \in Services :
        req' = [req EXCEPT ![h] = [action |-> action, service |-> service]]
    /\ pc' = [pc EXCEPT ![h] = "find"]
    /\ UNCHANGED <<lb, groups, changes, seen>>

End(h, outcome) ==
    /\ pc' = [pc EXCEPT ![h] = outcome]
    /\ req' = [req EXCEPT ![h] = NoRequest]
    /\ seen' = [seen EXCEPT ![h] = Nothing]

Goes(h, step, s) ==
    /\ pc' = [pc EXCEPT ![h] = step]
    /\ seen' = [seen EXCEPT ![h] = s]
    /\ UNCHANGED req

\* The load balancer is looked for, with its tags; its attributes tell whether it
\* is protected.
FindLb(h) ==
    /\ pc[h] = "find"
    /\ Goes(h, IF lb = NoLb THEN "list" ELSE "attributes", [Nothing EXCEPT !.lb = lb, !.left = TGs])
    /\ UNCHANGED <<lb, groups, changes>>

ReadAttributes(h) ==
    /\ pc[h] = "attributes"
    /\ lb # NoLb
    /\ Goes(h, "list", [seen[h] EXCEPT !.lb.protected = lb.protected])
    /\ UNCHANGED <<lb, groups, changes>>

\* What follows from what was read: an answer, or the next deletion.
Decide(h, s) ==
    IF ~Guards(s, req[h].service) THEN End(h, "refused")
    ELSE IF req[h].action = "plan" THEN End(h, "planned")
    ELSE IF s.lb # NoLb THEN Goes(h, "deleteLb", Nothing)
    ELSE Goes(h, "deleteGroups", [Nothing EXCEPT !.left = s.listed])

\* The health of the next group is asked for, or that was the last one.
LookNext(h, s) == IF s.left = {} THEN Decide(h, s) ELSE Goes(h, "health", s)

\* Fault: the first page is taken for the whole list.
ListPage_First(h) ==
    /\ pc[h] = "list"
    /\ \E page \in SUBSET seen[h].left \ {{}} :
        LET found == page \cap Listed(seen[h], req[h].service)
            s == [seen[h] EXCEPT !.listed = found, !.left = found,
                    !.used = \E t \in found : groups[t].user # "none"]
        IN  LookNext(h, s)
    /\ UNCHANGED <<lb, groups, changes>>

\* describe_target_groups: one page of the groups is listed; after the last one,
\* the health of those found is asked for.  The groups of a load balancer that is
\* gone cannot be listed.
ListPage(h) ==
    /\ pc[h] = "list"
    /\ seen[h].lb # NoLb => lb # NoLb
    /\ \E page \in SUBSET seen[h].left \ {{}} :
        LET found == page \cap Listed(seen[h], req[h].service)
            s == [seen[h] EXCEPT !.listed = @ \cup found, !.left = @ \ page,
                    !.used = @ \/ \E t \in found : groups[t].user # "none"]
        IN  IF s.left # {} THEN Goes(h, "list", s) ELSE LookNext(h, [s EXCEPT !.left = s.listed])
    /\ UNCHANGED <<lb, groups, changes>>

\* with_health: the targets of one group; one that was deleted meanwhile fails.
ReadHealth(h) ==
    /\ pc[h] = "health"
    /\ \E t \in seen[h].left \cap DOMAIN groups :
        LookNext(h, [seen[h] EXCEPT !.left = @ \ {t}, !.live = @ \/ IsLive(groups[t])])
    /\ UNCHANGED <<lb, groups, changes>>

\* The load balancer is deleted with its listeners, unless it is protected by now;
\* ELB takes a missing one for deleted.
DeleteLb(h) ==
    /\ pc[h] = "deleteLb"
    /\ lb # NoLb => ~lb.protected
    /\ lb' = NoLb
    /\ groups' = [t \in DOMAIN groups |->
            [groups[t] EXCEPT !.user = IF @ = "lb" THEN "none" ELSE @]]
    /\ \E outcome \in {"done", "failed"} : End(h, outcome)
    /\ UNCHANGED changes

\* One group is deleted; ELB refuses while listeners use it.  A failure ends the
\* execute with the other groups left.
DeleteGroup(h) ==
    /\ pc[h] = "deleteGroups"
    /\ \E t \in seen[h].left :
        /\ t \in DOMAIN groups => groups[t].user = "none"
        /\ groups' = [u \in DOMAIN groups \ {t} |-> groups[u]]
        /\ \/ /\ seen[h].left # {t}
              /\ Goes(h, "deleteGroups", [seen[h] EXCEPT !.left = @ \ {t}])
           \/ seen[h].left = {t} /\ End(h, "done")
           \/ End(h, "failed")
    /\ UNCHANGED <<lb, changes>>

\* A call fails, or the invocation dies.
Fail(h) ==
    /\ pc[h] \in Steps
    /\ End(h, "failed")
    /\ UNCHANGED <<lb, groups, changes>>

-------------------------------------------------------------------------------
\* Everybody else.

Busy(service) == \E h \in Handlers : pc[h] \in Steps /\ req[h].service = service

Change ==
    /\ changes < MaxChanges
    /\ changes' = changes + 1
    /\ UNCHANGED invocations

Known(h) ==
    seen[h].listed \cup IF pc[h] \in {"health", "deleteGroups"} THEN seen[h].left ELSE {}

\* A controller creates a group for its Service, which it may use at once.  A group
\* created again has another ARN than the one an invocation may still know.
CreateGroup ==
    /\ \E t \in TGs \ DOMAIN groups, g \in Group :
        /\ \A h \in Handlers : t \notin Known(h)
        /\ g.user = "lb" => lb # NoLb /\ g.owner = lb.owner
        /\ Quiet => ~Busy(g.owner)
        /\ groups' = [u \in DOMAIN groups \cup {t} |-> IF u = t THEN g ELSE groups[u]]
    /\ UNCHANGED lb
    /\ Change

\* A group's targets become healthy or stop being it, or another load balancer
\* takes it or lets go of it.
ChangeGroup ==
    /\ \E t \in DOMAIN groups :
        \/ /\ ~groups[t].live
           /\ Quiet => ~Busy(groups[t].owner)
           /\ groups[t].user = "lb" /\ Quiet => ~Busy(lb.owner)
           /\ groups' = [groups EXCEPT ![t].live = TRUE]
        \/ groups[t].live /\ groups' = [groups EXCEPT ![t].live = FALSE]
        \/ groups[t].user = "none" /\ groups' = [groups EXCEPT ![t].user = "other"]
        \/ groups[t].user = "other" /\ groups' = [groups EXCEPT ![t].user = "none"]
    /\ UNCHANGED lb
    /\ Change

\* The load balancer is ready, protected, or no longer so.
ChangeLb ==
    /\ lb # NoLb
    /\ \/ lb' = [lb EXCEPT !.protected = ~@]
       \/ ~lb.provisioned /\ lb' = [lb EXCEPT !.provisioned = TRUE]
    /\ UNCHANGED groups
    /\ Change

Step(h) ==
    \/ \E action \in {"plan", "execute"} : Start(h, action)
    \/ FindLb(h)
    \/ ReadAttributes(h)
    \/ ListPage(h)
    \/ ReadHealth(h)
    \/ DeleteLb(h)
    \/ DeleteGroup(h)
    \/ Fail(h)

Next == (\E h \in Handlers : Step(h)) \/ CreateGroup \/ ChangeGroup \/ ChangeLb

Spec == Init /\ [][Next]_vars

-------------------------------------------------------------------------------
\* Every variable has its type, no group is used by a load balancer that is gone,
\* and an execute that deletes groups has one to delete.
TypeOK ==
    /\ lb \in LoadBalancer \cup {NoLb}
    /\ DOMAIN groups \subseteq TGs
    /\ \A t \in DOMAIN groups : groups[t] \in Group /\ (groups[t].user = "lb" => lb # NoLb)
    /\ changes \in 0 .. MaxChanges
    /\ pc \in [Handlers -> Ended \cup Steps]
    /\ req \in [Handlers -> Request \cup {NoRequest}]
    /\ seen \in [Handlers -> Seen]
    /\ \A h \in Handlers : pc[h] = "deleteGroups" => seen[h].left # {}

LbGoes == lb # NoLb /\ lb' = NoLb
GroupGoes(t) == t \in DOMAIN groups /\ t \notin DOMAIN groups'

\* What an execute deletes was created for the Service its caller named, and for
\* nothing else (main.rs:7-9).
OnlyOfService ==
    [][\A h \in Handlers :
        /\ pc[h] = "deleteLb" /\ pc'[h] # "deleteLb" /\ LbGoes => lb.owner = req[h].service
        /\ pc[h] = "deleteGroups" /\ vars # vars' =>
            \A t \in seen[h].left \ seen'[h].left : GroupGoes(t) => groups[t].owner = req[h].service]_vars

\* No traffic is cut off: neither a group that is deleted nor one that a deleted
\* load balancer used has a target that is healthy or registering, however long
\* ago the first group was looked at (main.rs:9-10).
NoTrafficCut ==
    [][\A t \in DOMAIN groups :
        (LbGoes /\ groups[t].user = "lb") \/ GroupGoes(t) => ~groups[t].live]_vars

\* An execute that is done deleting groups leaves none of the Service, whichever
\* page listed it.
DoneMeansGone ==
    [][\A h \in Handlers : pc[h] = "deleteGroups" /\ pc'[h] = "done" =>
        \A t \in DOMAIN groups' : groups'[t].owner # req[h].service]_vars
===============================================================================
