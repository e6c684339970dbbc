----------------------------- MODULE SshAccessGcp ------------------------------
(***************************************************************************)
(* The Google Cloud ssh-access function (internal/sshaccess): short-lived  *)
(* SSH access to one instance, as a binding with an expiry condition in    *)
(* each of two IAM policies, that of the instance (OS Login) and that of   *)
(* its IAP tunnel.                                                         *)
(*                                                                         *)
(* Each invocation reads the instance and both policies one after the      *)
(* other, decides, and writes the policies that change one after the       *)
(* other.  A policy carries an etag: a write is refused if the policy was  *)
(* written since it was read.  Any call may fail, a write may take effect  *)
(* although its answer is lost, and an invocation may die at any point.    *)
(*                                                                         *)
(* A binding the function created is a [role, member, until] record, until *)
(* being the time in its condition; a binding of several members counts as *)
(* one per member.  Bindings anybody else created are opaque: the function *)
(* carries them over.                                                      *)
(***************************************************************************)
EXTENDS Naturals, Sequences

CONSTANTS
    Handlers,     \* invocations running at the same time
    Members,      \* IAM members access is asked for
    Others,       \* bindings of other people, without the function's condition
    Actions,      \* what callers ask for: "plan", "execute"
    LoginRoles,   \* access roles they ask for: "user", "admin"
    Durations,    \* durations (in clock units) callers ask for
    MaxMinutes,   \* the installation's limit, MAX_DURATION_MINUTES
    MaxTime,      \* bound of the clock, for model checking only
    Overlap,      \* whether invocations for one member may overlap
    NoRequest     \* the request of an invocation that ended

\* A validated request.  A revoke ignores the role and the duration.
Request ==
    [action : Actions, member : Members, revoke : {FALSE}, role : LoginRoles, minutes : Durations]
        \cup [action : Actions, member : Members, revoke : {TRUE}, role : LoginRoles, minutes : {1}]

ASSUME ActionsAssumption == Actions \subseteq {"plan", "execute"}
ASSUME LoginRolesAssumption == LoginRoles \subseteq {"user", "admin"}
ASSUME DurationsAssumption == Durations \subseteq Nat \ {0}
ASSUME MaxMinutesAssumption == MaxMinutes \in Nat \ {0}
ASSUME MaxTimeAssumption == MaxTime \in Nat
ASSUME OverlapAssumption == Overlap \in BOOLEAN
ASSUME NoRequestAssumption == NoRequest \notin Request

VARIABLES
    clock,    \* Unix time, the same for every invocation
    policy,   \* the bindings of each policy
    pc,       \* what each invocation does next, or how it ended
    req,      \* its request
    now,      \* the time it started at
    allowed,  \* whether the guards passed
    seen,     \* the bindings it read
    fresh,    \* the policies whose etag is still the one it read
    until,    \* when the access it grants ends, 0 to revoke
    writes    \* the policies it still has to write, in order

vars == <<clock, policy, pc, req, now, allowed, seen, fresh, until, writes>>
locals == <<req, now, allowed, seen, until, writes>>

Policies == {"login", "tunnel"}
Roles == LoginRoles \cup {"tunnel"}

Binding == [role : Roles, member : Members, until : Nat]

ASSUME OthersAssumption == \A b \in Others : b \notin Binding

Ended == {"idle", "planned", "refused", "done", "failed"}
Steps == {"instance", "login", "tunnel", "write"}

Active(h) == pc[h] \in Steps

-------------------------------------------------------------------------------
\* The rules on the bindings of a policy.

\* expiry: whether the function created the binding.
Ours(b) == b \notin Others

\* grants: the member's unexpired bindings of the function.
Grants(bindings, m, t) ==
    {b \in bindings : Ours(b) /\ b.member = m /\ b.until > t}

Expired(bindings, t) == {b \in bindings : Ours(b) /\ b.until <= t}

\* Fault: the login role is granted on the tunnel too.
RoleIn_Login(p, r) == r

\* The role a grant of login role r takes in policy p.
RoleIn(p, r) == IF p = "login" THEN r ELSE "tunnel"

\* The binding of a grant in policy p, as a set: none if e is 0.
Granted(p, m, r, e) == {b \in {[role |-> RoleIn(p, r), member |-> m, until |-> e]} : e > 0}

\* Fault: a binding of the member for another role stays.
Edit_SameRole(p, bindings, m, r, e, t) ==
    {b \in bindings : Ours(b) => b.until > t /\ ~(b.member = m /\ b.role = RoleIn(p, r))}
        \cup Granted(p, m, r, e)

\* edit: drops what expired and the member's own, then grants until e unless
\* e is 0.
Edit(p, bindings, m, r, e, t) ==
    {b \in bindings : Ours(b) => b.until > t /\ b.member # m}
        \cup Granted(p, m, r, e)

\* Whether edit changed the policy.  A member who has exactly the access asked
\* for is no change.
Changes(p, bindings, m, r, e, t) ==
    LET own == Grants(bindings, m, t)
        exact == e > 0 /\ own = Granted(p, m, r, e)
    IN  \/ Expired(bindings, t) # {}
        \/ ~exact /\ (own # {} \/ e > 0)

\* A binding IAM keeps for several members is never exactly the access asked
\* for, so the same bindings are written again.
Shared(bindings, m, t) ==
    \E b \in Grants(bindings, m, t), c \in {x \in bindings : Ours(x)} :
        c.role = b.role /\ c.until = b.until /\ c.member # m

-------------------------------------------------------------------------------
Init ==
    /\ clock = 0
    /\ policy = [p \in Policies |-> {}]
    /\ pc = [h \in Handlers |-> "idle"]
    /\ req = [h \in Handlers |-> NoRequest]
    /\ now = [h \in Handlers |-> 0]
    /\ allowed = [h \in Handlers |-> FALSE]
    /\ seen = [h \in Handlers |-> [p \in Policies |-> {}]]
    /\ fresh = [h \in Handlers |-> {}]
    /\ until = [h \in Handlers |-> 0]
    /\ writes = [h \in Handlers |-> <<>>]

\* A request that passed validation reaches the function.
Invoke(h) ==
    /\ pc[h] \in Ended
    /\ \E r \in Request :
        /\ Overlap \/ \A g \in Handlers : Active(g) => req[g].member # r.member
        /\ req' = [req EXCEPT ![h] = r]
    /\ now' = [now EXCEPT ![h] = clock]
    /\ pc' = [pc EXCEPT ![h] = "instance"]
    /\ UNCHANGED <<clock, policy, allowed, seen, fresh, until, writes>>

\* Ends an invocation, which forgets what it knew.  written are the policies
\* written in the same step: their etag is no longer the one anybody read.
End(h, outcome, written) ==
    /\ pc' = [pc EXCEPT ![h] = outcome]
    /\ req' = [req EXCEPT ![h] = NoRequest]
    /\ now' = [now EXCEPT ![h] = 0]
    /\ allowed' = [allowed EXCEPT ![h] = FALSE]
    /\ seen' = [seen EXCEPT ![h] = [p \in Policies |-> {}]]
    /\ until' = [until EXCEPT ![h] = 0]
    /\ writes' = [writes EXCEPT ![h] = <<>>]
    /\ fresh' = [g \in Handlers |-> IF g = h THEN {} ELSE fresh[g] \ written]

\* The instance is read.  It may be missing, and OS Login may be off; a revoke
\* only asks that it exists.
ReadInstance(h) ==
    /\ pc[h] = "instance"
    /\ \/ /\ End(h, "refused", {})
          /\ UNCHANGED <<clock, policy>>
       \/ /\ \E osLogin \in BOOLEAN :
                allowed' = [allowed EXCEPT ![h] =
                    req[h].revoke \/ (osLogin /\ req[h].minutes <= MaxMinutes)]
          /\ pc' = [pc EXCEPT ![h] = "login"]
          /\ UNCHANGED <<clock, policy, req, now, seen, fresh, until, writes>>

Read(h, p) ==
    /\ seen' = [seen EXCEPT ![h][p] = policy[p]]
    /\ fresh' = [fresh EXCEPT ![h] = @ \cup {p}]

ReadLogin(h) ==
    /\ pc[h] = "login"
    /\ Read(h, "login")
    /\ pc' = [pc EXCEPT ![h] = "tunnel"]
    /\ UNCHANGED <<clock, policy, req, now, allowed, until, writes>>

\* Faults: granting again adds up, or forgets what the member has.
Candidates_AddUp(h, login, tunnel) ==
    {now[h] + req[h].minutes}
        \cup {b.until + req[h].minutes : b \in Grants(login \cup tunnel, req[h].member, now[h])}
Candidates_Forget(h, login, tunnel) == {now[h] + req[h].minutes}

\* target: the ends of the access a grant may take, of which the latest counts.
Candidates(h, login, tunnel) ==
    {now[h] + req[h].minutes}
        \cup {b.until : b \in Grants(login \cup tunnel, req[h].member, now[h])}

Target(h, login, tunnel, e) ==
    IF req[h].revoke THEN e = 0
    ELSE /\ e \in Candidates(h, login, tunnel)
         /\ \A c \in Candidates(h, login, tunnel) : c <= e

\* Fault: the order of the writes is swapped.
Order_Swapped(h) ==
    IF req[h].revoke THEN <<"tunnel", "login">> ELSE <<"login", "tunnel">>

\* A grant writes the tunnel policy first, a revoke the login policy.
Order(h) ==
    IF req[h].revoke THEN <<"login", "tunnel">> ELSE <<"tunnel", "login">>

Elements(w) == {w[i] : i \in 1 .. Len(w)}

\* The last read, and with it the decision what to write.
ReadTunnel(h) ==
    LET login == seen[h]["login"]
        tunnel == policy["tunnel"]
        bindings == [login |-> login, tunnel |-> tunnel]
        m == req[h].member
    IN
    /\ pc[h] = "tunnel"
    /\ \/ /\ req[h].action = "plan" \/ ~allowed[h]
          /\ End(h, IF req[h].action = "plan" /\ allowed[h] THEN "planned" ELSE "refused", {})
          /\ UNCHANGED <<clock, policy>>
       \/ /\ req[h].action = "execute" /\ allowed[h]
          /\ \E e \in Candidates(h, login, tunnel) \cup {0},
                w \in {<<>>, <<"login">>, <<"tunnel">>, Order(h)} :
                /\ Target(h, login, tunnel, e)
                /\ \A p \in Policies :
                    LET changes == Changes(p, bindings[p], m, req[h].role, e, now[h])
                    IN  /\ changes => p \in Elements(w)
                        /\ p \in Elements(w) => changes \/ Shared(bindings[p], m, now[h])
                /\ IF w = <<>>
                   THEN End(h, "done", {})
                   ELSE /\ Read(h, "tunnel")
                        /\ until' = [until EXCEPT ![h] = e]
                        /\ writes' = [writes EXCEPT ![h] = w]
                        /\ pc' = [pc EXCEPT ![h] = "write"]
                        /\ UNCHANGED <<req, now, allowed>>
          /\ UNCHANGED <<clock, policy>>

\* Fault: the policy is written without its etag.
SetPolicy_NoEtag(h, p) ==
    policy' = [policy EXCEPT ![p] =
        Edit(p, seen[h][p], req[h].member, req[h].role, until[h], now[h])]

\* IAM's side of a write: refused unless the etag still matches.
SetPolicy(h, p) ==
    /\ p \in fresh[h]
    /\ policy' = [policy EXCEPT ![p] =
            Edit(p, seen[h][p], req[h].member, req[h].role, until[h], now[h])]

\* The next write succeeds.
Write(h) ==
    LET p == Head(writes[h]) IN
    /\ pc[h] = "write"
    /\ SetPolicy(h, p)
    /\ IF Len(writes[h]) = 1
       THEN End(h, "done", {p})
       ELSE /\ writes' = [writes EXCEPT ![h] = Tail(@)]
            /\ fresh' = [g \in Handlers |-> fresh[g] \ {p}]
            /\ UNCHANGED <<pc, req, now, allowed, seen, until>>
    /\ UNCHANGED clock

\* The next write takes effect, but its answer is lost.
WriteAnswerLost(h) ==
    LET p == Head(writes[h]) IN
    /\ pc[h] = "write"
    /\ SetPolicy(h, p)
    /\ End(h, "failed", {p})
    /\ UNCHANGED clock

\* A call fails (a write whose etag is outdated always does) or the invocation
\* dies: it ends where it is.
Fail(h) ==
    /\ Active(h)
    /\ End(h, "failed", {})
    /\ UNCHANGED <<clock, policy>>

\* Somebody else adds or removes a binding of their own.
Admin ==
    /\ \E p \in Policies, b \in Others :
            /\ policy' = [policy EXCEPT ![p] = IF b \in @ THEN @ \ {b} ELSE @ \cup {b}]
            /\ fresh' = [g \in Handlers |-> fresh[g] \ {p}]
    /\ UNCHANGED <<clock, pc, locals>>

Tick ==
    /\ clock < MaxTime
    /\ clock' = clock + 1
    /\ UNCHANGED <<policy, pc, locals, fresh>>

Step(h) ==
    \/ Invoke(h)
    \/ ReadInstance(h)
    \/ ReadLogin(h)
    \/ ReadTunnel(h)
    \/ Write(h)
    \/ WriteAnswerLost(h)
    \/ Fail(h)

Next == (\E h \in Handlers : Step(h)) \/ Admin \/ Tick

Spec == Init /\ [][Next]_vars

-------------------------------------------------------------------------------
\* The roles the function grants in policy p.
RolesIn(p) == IF p = "login" THEN LoginRoles ELSE {"tunnel"}

\* Every variable has its type, and each policy holds only the function's
\* bindings of its own roles (policy.roles, operation.go:175): a tunnel role
\* on the instance or a login role on the tunnel would never be found again.
TypeOK ==
    /\ clock \in Nat
    /\ policy \in [Policies -> SUBSET (Binding \cup Others)]
    /\ \A p \in Policies : \A b \in policy[p] : Ours(b) => b.role \in RolesIn(p)
    /\ pc \in [Handlers -> Ended \cup Steps]
    /\ req \in [Handlers -> Request \cup {NoRequest}]
    /\ \A h \in Handlers : Active(h) => req[h] \in Request
    /\ now \in [Handlers -> Nat]
    /\ allowed \in [Handlers -> BOOLEAN]
    /\ seen \in [Handlers -> [Policies -> SUBSET (Binding \cup Others)]]
    /\ fresh \in [Handlers -> SUBSET Policies]
    /\ until \in [Handlers -> Nat]
    /\ writes \in [Handlers -> {<<>>, <<"login">>, <<"tunnel">>,
                               <<"login", "tunnel">>, <<"tunnel", "login">>}]

\* No binding of the function ends later than the longest access counted from
\* now (durationGuard, and target, which only keeps ends that were granted).
AccessWithinLimit ==
    \A p \in Policies : \A b \in policy[p] : Ours(b) => b.until <= clock + MaxMinutes

\* The members for whom an active invocation revokes, or may grant.
Revoking == {m \in Members :
    \E h \in Handlers : Active(h) /\ req[h].member = m /\ req[h].revoke}
Granting == {m \in Members :
    \E h \in Handlers : Active(h) /\ req[h].member = m /\ ~req[h].revoke /\ allowed[h]}

\* The table of grants the two policies amount to.
AccessIn(bindings) ==
    UNION {{[key |-> <<p, b.member>>, until |-> b.until] :
                b \in {x \in bindings[p] : Ours(x)}} : p \in Policies}

TA == INSTANCE TimedAccess WITH
        Keys <- Policies \X Members,
        MaxDuration <- MaxMinutes,
        access <- AccessIn(policy),
        granting <- Policies \X Granting,
        revoking <- Policies \X Revoking

\* However invocations interleave, fail and lose answers, a grant leaves a
\* policy only because it expired, is being revoked or is renewed for at least
\* as long, and nobody but a grant of the same member adds one: neither a lost
\* update nor a stale write that brings a revoked grant back.
GrantsOnlyExtend == TA!Spec

\* The function never changes a binding somebody else made, not even by
\* writing a policy it read before they made it (policy.go:10-11).
UnmanagedUntouched ==
    [][\A h \in Handlers, p \in Policies :
        pc'[h] # pc[h] \/ writes'[h] # writes[h] =>
            policy'[p] \cap Others = policy[p] \cap Others]_vars

\* A member who may log in may also tunnel, at least as long: what the order of
\* the writes is for (operation.go:113-114).  It takes that invocations for the
\* member do not overlap.
LoginNeedsTunnel ==
    \A b \in policy["login"] : Ours(b) /\ b.until > clock =>
        \E c \in policy["tunnel"] : Ours(c) /\ c.member = b.member /\ c.until >= b.until

\* e is when the access an answer reports ends, 0 for no access.
Reports(h, e) ==
    IF pc[h] = "write" THEN e = until[h]
    ELSE pc[h] = "tunnel" /\ Target(h, seen[h]["login"], policy["tunnel"], e)

\* After this step the member has exactly the access the answer reports.
AccessIsAsReported(h) ==
    \A e \in 0 .. clock + MaxMinutes, p \in Policies :
        LET reported == {b \in {[role |-> RoleIn(p, req[h].role), member |-> req[h].member, until |-> e]} :
                            e > clock}
        IN  Reports(h, e) => Grants(policy'[p], req[h].member, clock) = reported

\* An invocation that answers done leaves the access it reports, no matter what
\* earlier ones left half done: a grant in both policies and with the role it
\* asked for, or none after a revoke.
DoneMeansAccess ==
    [][\A h \in Handlers : Active(h) /\ pc'[h] = "done" => AccessIsAsReported(h)]_vars
===============================================================================
