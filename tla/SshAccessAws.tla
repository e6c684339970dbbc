------------------------------ MODULE SshAccessAws ------------------------------
(***************************************************************************)
(* The AWS ssh-access function (bins/ssh-access-aws): short-lived SSH      *)
(* access to an instance, as an IAM policy attached to a principal.  There *)
(* is one policy per instance and principal, named after both; its expiry  *)
(* is a tag.  Expired policies are removed by executes, which take those   *)
(* of their instance and those of their principal, and by a timer's sweep, *)
(* which takes all.                                                        *)
(*                                                                         *)
(* IAM has no preconditions, and both a grant and a removal take several   *)
(* calls: a policy may be found created but not attached, detached but not *)
(* deleted, or gone.  Its name tells nothing of that: a policy deleted and *)
(* created again is the same to everybody.  Any call may fail, a write may *)
(* take effect although its answer is lost (the SDK then repeats it), and  *)
(* whoever makes the calls may die.                                        *)
(*                                                                         *)
(* Nobody else changes these policies: they keep their tag, and are only   *)
(* ever attached to the principal they are named after.                    *)
(***************************************************************************)
EXTENDS Integers

CONSTANTS
    Handlers,     \* invocations running at the same time
    Timer,        \* the sweep
    Pairs,        \* <<instance, principal>> pairs that may have a policy
    Asked,        \* the pairs access is asked for
    Actions,      \* what callers ask for: "plan", "execute"
    Durations,    \* durations (in clock units) callers ask for
    MaxMinutes,   \* the installation's limit, MAX_DURATION_MINUTES
    MaxTime,      \* bound of the clock, for model checking only
    NoPolicy,     \* a policy that does not exist
    NoPair,       \* no policy is being removed
    NoRequest     \* the request of an invocation that ended

\* A validated request.  A revoke ignores the duration.
Request ==
    [action : Actions, pair : Asked, revoke : {FALSE}, minutes : Durations]
        \cup [action : Actions, pair : Asked, revoke : {TRUE}, minutes : {1}]

Policy == [expires : Nat, attached : BOOLEAN]

ASSUME TimerAssumption == Timer \notin Handlers
ASSUME AskedAssumption == Asked \subseteq Pairs
ASSUME ActionsAssumption == Actions \subseteq {"plan", "execute"}
ASSUME DurationsAssumption == Durations \subseteq Int
ASSUME MaxMinutesAssumption == MaxMinutes \in Nat \ {0}
ASSUME MaxTimeAssumption == MaxTime \in Nat
ASSUME NoPolicyAssumption == NoPolicy \notin Policy
ASSUME NoPairAssumption == NoPair \notin Pairs
ASSUME NoRequestAssumption == NoRequest \notin Request

VARIABLES
    clock,      \* Unix time, the same for everybody
    policies,   \* the policies under the function's path
    pc,         \* what each invocation, and the sweep, does next, or how it ended
    req,        \* the request of each invocation
    now,        \* the time it started at
    todo,       \* the listed policies it has not dealt with yet
    target,     \* the policy it is removing
    until,      \* the expiry it is about to grant
    alone       \* whether nobody it could interfere with ran since it started

locals == <<req, now, todo, target, until, alone>>
vars == <<clock, policies, pc, locals>>

Workers == Handlers \cup {Timer}

\* A call that failed answers nothing, and the sweep never does: both are idle again.
Ended == {"idle", "planned", "refused", "done"}
CleanUp == {"scan", "owner"}
Removal == {"entities", "detach", "delete"}
Granting == {"read", "create", "find again", "tag", "attach"}
Steps == {"list", "find"} \cup CleanUp \cup Removal \cup Granting

Active(w) == pc[w] \in Steps

-------------------------------------------------------------------------------
\* What an invocation with request r, or the sweep, may change: clean-up takes
\* the policies of the instance and those of the principal.
Reach(w, r) ==
    IF w = Timer THEN Pairs
    ELSE {k \in Pairs : k[1] = r.pair[1] \/ k[2] = r.pair[2]}

\* Whom w, starting with r, meets.
Meets(w, r) ==
    {v \in Workers \ {w} : Active(v) /\ Reach(v, req[v]) \cap Reach(w, r) # {}}

\* Faults: the new expiry adds up with the old one, or forgets it.
EffectiveExpires_AddsUp(t, minutes, tag) == t + minutes + (IF tag > t THEN tag - t ELSE 0)
EffectiveExpires_Forgets(t, minutes, tag) == t + minutes

\* effective_expires: "never shortened below an existing unexpired tag".
EffectiveExpires(t, minutes, tag) == IF tag > t + minutes THEN tag ELSE t + minutes

-------------------------------------------------------------------------------
\* The policies are in any state earlier invocations may have left them in.
Init ==
    /\ clock = 0
    /\ policies \in [Pairs -> {NoPolicy} \cup [expires : 0 .. MaxMinutes, attached : BOOLEAN]]
    /\ pc = [w \in Workers |-> "idle"]
    /\ req = [w \in Workers |-> NoRequest]
    /\ now = [w \in Workers |-> 0]
    /\ todo = [w \in Workers |-> {}]
    /\ target = [w \in Workers |-> NoPair]
    /\ until = [w \in Workers |-> 0]
    /\ alone = [w \in Workers |-> FALSE]

Exists(k) == policies[k] # NoPolicy

Go(w, step) == pc' = [pc EXCEPT ![w] = step]

\* w starts to work on r, and those it meets are not alone any more.
Begin(w, r) ==
    /\ Go(w, "list")
    /\ req' = [req EXCEPT ![w] = r]
    /\ now' = [now EXCEPT ![w] = clock]
    /\ alone' = [v \in Workers |->
            IF v = w THEN Meets(w, r) = {} ELSE alone[v] /\ v \notin Meets(w, r)]
    /\ UNCHANGED <<clock, policies, todo, target, until>>

\* Ends an invocation or the sweep, which forgets what it knew.
End(w, outcome) ==
    /\ Go(w, outcome)
    /\ req' = [req EXCEPT ![w] = NoRequest]
    /\ now' = [now EXCEPT ![w] = 0]
    /\ todo' = [todo EXCEPT ![w] = {}]
    /\ target' = [target EXCEPT ![w] = NoPair]
    /\ until' = [until EXCEPT ![w] = 0]
    /\ alone' = [alone EXCEPT ![w] = FALSE]

\* evaluate.  The instance may not be fit for the request: a revoke only asks
\* that it exists, a grant that it runs, runs Linux and is online in Session
\* Manager; both that the account is right.
Evaluate(r, fit) == fit /\ (r.revoke \/ r.minutes \in 1 .. MaxMinutes)

\* A valid request reaches the function, which reads the instance.
Start(h) ==
    /\ pc[h] \in Ended
    /\ \E r \in Request, fit \in BOOLEAN :
        LET passed == Evaluate(r, fit) IN
        \/ passed /\ r.action = "execute" /\ Begin(h, r)
        \/ /\ ~(passed /\ r.action = "execute")
           /\ Go(h, IF passed THEN "planned" ELSE "refused")
           /\ UNCHANGED <<clock, policies, locals>>

\* The timer starts a sweep.
SweepStart == pc[Timer] \in Ended /\ Begin(Timer, NoRequest)

-------------------------------------------------------------------------------
\* Clean-up of expired policies, by an invocation or by the sweep.

\* The listed policies in rest remain; after the last one the sweep is over, and
\* an invocation looks for its own policy.
CleanUpNext(w, rest) ==
    IF rest = {} /\ w = Timer
    THEN End(w, "idle")
    ELSE /\ Go(w, IF rest = {} THEN "find" ELSE "scan")
         /\ todo' = [todo EXCEPT ![w] = rest]
         /\ target' = [target EXCEPT ![w] = NoPair]
         /\ UNCHANGED <<req, now, until, alone>>

\* Fault: the first expired policy is the last one looked at.
Removed_Stops(w) ==
    /\ Go(w, IF w = Timer THEN "idle" ELSE "find")
    /\ UNCHANGED locals

\* The policy was removed, by clean-up or by a revoke.
Removed(w) ==
    IF todo[w] = {} THEN End(w, "done") ELSE CleanUpNext(w, todo[w] \ {target[w]})

\* It could not be removed: the sweep goes on, and so does an invocation unless
\* the policy is for its instance or it is a revoke's own.
NotRemoved(w) ==
    IF w = Timer \/ target[w][1] # req[w].pair[1]
    THEN CleanUpNext(w, todo[w] \ {target[w]})
    ELSE End(w, "idle")

\* list_our_policies.
List(w) ==
    /\ pc[w] = "list"
    /\ CleanUpNext(w, {k \in Pairs : Exists(k)})
    /\ UNCHANGED <<clock, policies>>

\* The next policy's tag is read.  One that has expired is removed, by an
\* invocation only if it is for its instance or, which it asks IAM about,
\* attached to its principal.
Scan(w) ==
    /\ pc[w] = "scan"
    /\ \E k \in todo[w] :
        \/ /\ Exists(k) /\ policies[k].expires > now[w]
           /\ CleanUpNext(w, todo[w] \ {k})
        \/ /\ Exists(k) /\ policies[k].expires <= now[w]
           /\ Go(w, IF w = Timer \/ k[1] = req[w].pair[1] THEN "entities" ELSE "owner")
           /\ target' = [target EXCEPT ![w] = k]
           /\ UNCHANGED <<req, now, todo, until, alone>>
        \/ /\ ~Exists(k)
           /\ IF w = Timer THEN CleanUpNext(w, todo[w] \ {k}) ELSE End(w, "idle")
    /\ UNCHANGED <<clock, policies>>

\* The sweep skips a policy whose tag it cannot read.
ScanFails ==
    /\ pc[Timer] = "scan"
    /\ \E k \in todo[Timer] : CleanUpNext(Timer, todo[Timer] \ {k})
    /\ UNCHANGED <<clock, policies>>

\* policy_attached_to.
Owner(w) ==
    LET k == target[w] IN
    /\ pc[w] = "owner"
    /\ \/ /\ ~Exists(k)
          /\ End(w, "idle")
       \/ /\ Exists(k) /\ policies[k].attached /\ k[2] = req[w].pair[2]
          /\ Go(w, "entities")
          /\ UNCHANGED locals
       \/ /\ Exists(k) /\ ~(policies[k].attached /\ k[2] = req[w].pair[2])
          /\ CleanUpNext(w, todo[w] \ {k})
    /\ UNCHANGED <<clock, policies>>

-------------------------------------------------------------------------------
\* delete_policy: whom the policy is attached to is listed, then it is detached,
\* then deleted.

ListEntities(w) ==
    /\ pc[w] = "entities"
    /\ IF Exists(target[w])
       THEN /\ Go(w, IF policies[target[w]].attached THEN "detach" ELSE "delete")
            /\ UNCHANGED locals
       ELSE NotRemoved(w)
    /\ UNCHANGED <<clock, policies>>

\* NoSuchEntity: it is detached, or gone, already.
Detach(w) ==
    LET k == target[w] IN
    /\ pc[w] = "detach"
    /\ IF Exists(k) /\ policies[k].attached
       THEN /\ policies' = [policies EXCEPT ![k].attached = FALSE]
            /\ \/ Go(w, "delete") /\ UNCHANGED locals
               \/ NotRemoved(w)
       ELSE NotRemoved(w) /\ UNCHANGED policies
    /\ UNCHANGED clock

\* DeleteConflict: it was attached again.  NoSuchEntity: it is gone already.
DeletePolicy(w) ==
    LET k == target[w] IN
    /\ pc[w] = "delete"
    /\ IF Exists(k) /\ ~policies[k].attached
       THEN /\ policies' = [policies EXCEPT ![k] = NoPolicy]
            /\ Removed(w) \/ NotRemoved(w)
       ELSE NotRemoved(w) /\ UNCHANGED policies
    /\ UNCHANGED clock

\* A call of a removal fails.
RemovalFails(w) ==
    /\ pc[w] \in Removal
    /\ NotRemoved(w)
    /\ UNCHANGED <<clock, policies>>

-------------------------------------------------------------------------------
\* find_policy: a revoke removes the policy; a grant creates it, or reads the
\* expiry of the one there is.
Find(h) ==
    LET k == req[h].pair IN
    /\ pc[h] = "find"
    /\ \/ /\ req[h].revoke /\ ~Exists(k)
          /\ End(h, "done")
       \/ /\ req[h].revoke /\ Exists(k)
          /\ Go(h, "entities")
          /\ target' = [target EXCEPT ![h] = k]
          /\ UNCHANGED <<req, now, todo, until, alone>>
       \/ /\ ~req[h].revoke
          /\ Go(h, IF Exists(k) THEN "read" ELSE "create")
          /\ until' = [until EXCEPT ![h] = EffectiveExpires(now[h], req[h].minutes, 0)]
          /\ UNCHANGED <<req, now, todo, target, alone>>
    /\ UNCHANGED <<clock, policies>>

\* policy_expires_at.
ReadTag(h) ==
    LET k == req[h].pair IN
    /\ pc[h] = "read"
    /\ IF Exists(k)
       THEN /\ Go(h, "tag")
            /\ until' = [until EXCEPT ![h] =
                    EffectiveExpires(now[h], req[h].minutes, policies[k].expires)]
            /\ UNCHANGED <<req, now, todo, target, alone>>
       ELSE End(h, "idle")
    /\ UNCHANGED <<clock, policies>>

\* create_policy.  If the answer is lost, the SDK asks again.  When another
\* grant created the policy first, that one is looked for.
CreatePolicy(h) ==
    LET k == req[h].pair IN
    /\ pc[h] = "create"
    /\ IF Exists(k)
       THEN /\ Go(h, "find again")
            /\ UNCHANGED <<policies, locals>>
       ELSE /\ policies' = [policies EXCEPT ![k] = [expires |-> until[h], attached |-> FALSE]]
            /\ \/ \E step \in {"attach", "create"} : Go(h, step) /\ UNCHANGED locals
               \/ End(h, "idle")
    /\ UNCHANGED clock

\* The policy that was there first is tagged with the expiry already computed.
FindAgain(h) ==
    /\ pc[h] = "find again"
    /\ IF Exists(req[h].pair)
       THEN Go(h, "tag") /\ UNCHANGED locals
       ELSE End(h, "idle")
    /\ UNCHANGED <<clock, policies>>

\* Fault: a policy that exists is taken for attached.
TagExpires_Done(h) ==
    LET k == req[h].pair IN
    /\ pc[h] = "tag"
    /\ Exists(k)
    /\ policies' = [policies EXCEPT ![k].expires = until[h]]
    /\ End(h, "done")
    /\ UNCHANGED clock

\* tag_expires.
TagExpires(h) ==
    LET k == req[h].pair IN
    /\ pc[h] = "tag"
    /\ IF Exists(k)
       THEN /\ policies' = [policies EXCEPT ![k].expires = until[h]]
            /\ \/ Go(h, "attach") /\ UNCHANGED locals
               \/ End(h, "idle")
       ELSE End(h, "idle") /\ UNCHANGED policies
    /\ UNCHANGED clock

\* attach_policy; attaching again changes nothing.
AttachPolicy(h) ==
    LET k == req[h].pair IN
    /\ pc[h] = "attach"
    /\ IF Exists(k)
       THEN /\ policies' = [policies EXCEPT ![k].attached = TRUE]
            /\ \E outcome \in {"done", "idle"} : End(h, outcome)
       ELSE End(h, "idle") /\ UNCHANGED policies
    /\ UNCHANGED clock

\* A call fails, or the invocation, or the sweep, dies.
Fail(w) ==
    /\ Active(w)
    /\ End(w, "idle")
    /\ UNCHANGED <<clock, policies>>

Tick ==
    /\ clock < MaxTime
    /\ clock' = clock + 1
    /\ UNCHANGED <<policies, pc, locals>>

CleanUpStep(w) ==
    \/ List(w)
    \/ Scan(w)
    \/ Owner(w)
    \/ ListEntities(w)
    \/ Detach(w)
    \/ DeletePolicy(w)
    \/ RemovalFails(w)
    \/ Fail(w)

GrantStep(h) ==
    \/ Start(h)
    \/ Find(h)
    \/ ReadTag(h)
    \/ CreatePolicy(h)
    \/ FindAgain(h)
    \/ TagExpires(h)
    \/ AttachPolicy(h)

Next ==
    \/ \E w \in Workers : CleanUpStep(w)
    \/ \E h \in Handlers : GrantStep(h)
    \/ SweepStart
    \/ ScanFails
    \/ Tick

Spec == Init /\ [][Next]_vars

-------------------------------------------------------------------------------
\* Every variable has its type, and the steps of a worker agree with what it
\* keeps: a policy is being removed exactly in a removal, and clean-up has dealt
\* with every listed policy when an invocation turns to its own.
TypeOK ==
    /\ clock \in Nat
    /\ policies \in [Pairs -> Policy \cup {NoPolicy}]
    /\ pc \in [Workers -> Ended \cup Steps]
    /\ req \in [Workers -> Request \cup {NoRequest}]
    /\ \A h \in Handlers : Active(h) <=> req[h] \in Request
    /\ now \in [Workers -> Nat]
    /\ todo \in [Workers -> SUBSET Pairs]
    /\ target \in [Workers -> Pairs \cup {NoPair}]
    /\ \A w \in Workers : pc[w] \in Removal \cup {"owner"} <=> target[w] # NoPair
    /\ \A w \in Workers : pc[w] \in Granting \cup {"find"} => todo[w] = {}
    /\ until \in [Workers -> Nat]
    /\ alone \in [Workers -> BOOLEAN]

\* No policy, attached or not yet, expires later than the longest access counted
\* from now, whoever renews whose policy, whatever state it was left in.
AccessWithinLimit ==
    \A k \in Pairs : Exists(k) => policies[k].expires <= clock + MaxMinutes

TA == INSTANCE TimedAccess WITH
        Keys <- Pairs,
        MaxDuration <- MaxMinutes,
        access <- {[key |-> k, until |-> policies[k].expires] :
                        k \in {j \in Pairs : Exists(j) /\ policies[j].attached}},
        granting <- {req[h].pair : h \in {g \in Handlers : Active(g) /\ ~req[g].revoke}},
        revoking <- {req[h].pair : h \in {g \in Handlers : Active(g) /\ req[g].revoke}}

Undisturbed == \A w \in Workers : Active(w) => alone[w]

\* While nobody who is running was disturbed, every step is one of the table of
\* grants: access goes only because it expired, is being revoked or is renewed
\* for at least as long, however the policies were left by those that were
\* disturbed, failed or died before.
GrantsOnlyExtend == [][Undisturbed => TA!Next]_vars

\* An invocation that nobody disturbed and that answers done leaves what it
\* says: no policy after a revoke, or an attached one with the expiry reported.
DoneMeansAccess ==
    [][\A h \in Handlers : alone[h] /\ pc'[h] = "done" =>
        IF req[h].revoke
        THEN policies'[req[h].pair] = NoPolicy
        ELSE policies'[req[h].pair] = [expires |-> until[h], attached |-> TRUE]]_vars
===============================================================================
