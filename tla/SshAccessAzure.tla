---------------------------- MODULE SshAccessAzure -----------------------------
(***************************************************************************)
(* The Azure ssh-access function (bins/ssh-access-azure): short-lived SSH  *)
(* access to a VM, as a role assignment of a login role.  Assignments do   *)
(* not expire, so each carries its expiry in its description, and expired  *)
(* ones are removed by every execute on the VM and by a timer's sweep.     *)
(*                                                                         *)
(* An invocation reads the VM, lists the assignments, decides, removes     *)
(* assignments one after the other, and creates or updates one by name.    *)
(* Writes are unconditional: nothing checks that what was listed is still  *)
(* there.  ARM itself allows one assignment per VM, principal and role.    *)
(* Any call may fail, a write may take effect although its answer is lost, *)
(* an invocation may die at any point, and so may the sweep.               *)
(*                                                                         *)
(* An assignment somebody else made has no expiry: it is permanent.  Each  *)
(* VM stands for one scope (resource group) of the sweep.                  *)
(***************************************************************************)
EXTENDS Integers, Sequences, FiniteSets, SequencesExt

CONSTANTS
    Handlers,     \* invocations running at the same time
    VMs,          \* virtual machines
    Scopes,       \* the scopes the sweep visits, in order: a sequence of VMs
    Principals,   \* users access is asked for
    Roles,        \* login roles: "user", "admin"
    Actions,      \* what callers ask for: "plan", "execute"
    Asked,        \* the requests callers make, among those they could
    Durations,    \* durations (in clock units) callers ask for
    Names,        \* assignment names, reused once nobody knows them
    MaxMinutes,   \* the installation's limit, MAX_DURATION_MINUTES
    MaxTime,      \* bound of the clock, for model checking only
    Working,      \* VMs whose assignments ARM does not fail to list or remove forever
    Overlaps,     \* the cases considered: whether invocations for a VM, and the sweep, may
                  \* overlap
    NoRequest     \* the request of an invocation that ended

\* A validated request.  A revoke ignores the duration.
Request ==
    [action : Actions, vm : VMs, principal : Principals, role : Roles,
     revoke : {FALSE}, minutes : Durations]
        \cup [action : Actions, vm : VMs, principal : Principals, role : Roles,
              revoke : {TRUE}, minutes : {1}]

ASSUME AskedAssumption == Asked \subseteq Request
ASSUME ScopesAssumption == Scopes \in Seq(VMs)
ASSUME ActionsAssumption == Actions \subseteq {"plan", "execute"}
ASSUME DurationsAssumption == Durations \subseteq Int
ASSUME NamesAssumption == Names \subseteq Nat
ASSUME MaxMinutesAssumption == MaxMinutes \in Nat \ {0}
ASSUME MaxTimeAssumption == MaxTime \in Nat
ASSUME WorkingAssumption == Working \subseteq VMs
ASSUME OverlapsAssumption == Overlaps \in SUBSET BOOLEAN
ASSUME NoRequestAssumption == NoRequest \notin Request

VARIABLES
    clock,       \* Unix time, the same for everybody
    store,       \* the role assignments of login roles on the VMs
    pc,          \* what each invocation does next, or how it ended
    req,         \* its request
    now,         \* the time it started at
    allowed,     \* whether the guards on the VM and the duration passed
    todo,        \* the listed assignments it still has to remove
    existing,    \* the unexpired grant it asks for, as it was listed, if any
    sweeping,    \* whether the sweep runs
    sweepNow,    \* the time it started at
    scopesLeft,  \* the scopes it still has to list
    sweepTodo,   \* the listed assignments it still has to remove, in order
    overlap      \* which of the cases this is

locals == <<req, now, allowed, todo, existing>>
sweep == <<sweeping, sweepNow, scopesLeft, sweepTodo, overlap>>
vars == <<clock, store, pc, locals, sweep>>

Permanent == 0   \* the expiry of an assignment somebody else made

Assignment ==
    [vm : VMs, principal : Principals, role : Roles, name : Names, expires : Nat]

Ended == {"idle", "planned", "refused", "done", "failed"}
Steps == {"list", "remove", "put", "relist"}

Active(h) == pc[h] \in Steps

-------------------------------------------------------------------------------
\* expires_at is Some: the function created the assignment.
Ours(a) == a.expires # Permanent

\* Fault: the sweep takes an assignment without an expiry for an expired one.
ExpiredAt_Unmarked(a, t) == a.expires <= t

ExpiredAt(a, t) == Ours(a) /\ a.expires <= t

Key(a) == <<a.vm, a.principal, a.role>>

\* Fault: a grant of another role or principal is taken for the one asked for.
IsGrant_AnyKey(a, r, t) == Ours(a) /\ a.expires > t /\ a.vm = r.vm

\* is_grant: an unexpired grant of what the request asks for.
IsGrant(a, r, t) ==
    /\ Ours(a)
    /\ a.expires > t
    /\ Key(a) = <<r.vm, r.principal, r.role>>

\* Fault: a revoke only removes the role it names.
ToRemove_SameRole(ours, r, t) ==
    {a \in ours : ExpiredAt(a, t) \/ (r.revoke /\ Key(a) = <<r.vm, r.principal, r.role>>)}

\* The listed assignments an execute removes: expired ones of anybody, and on
\* a revoke all of the principal's.
ToRemove(ours, r, t) ==
    {a \in ours : ExpiredAt(a, t) \/ (r.revoke /\ a.principal = r.principal)}

\* not-assigned: the guard against the principal's permanent assignment.
Unassigned(list, r) ==
    \A a \in list : Key(a) = <<r.vm, r.principal, r.role>> => Ours(a)

\* ARM: a name is deleted or was not there.
Without(a) == {b \in store : ~(Key(b) = Key(a) /\ b.name = a.name)}

\* A GUID nobody knows: the least name that no assignment of the key, listed
\* or still there, has.
Known(k) ==
    {a \in store \cup (UNION {todo[h] \cup existing[h] : h \in Handlers})
            \cup {sweepTodo[i] : i \in 1 .. Len(sweepTodo)} : Key(a) = k}

NewName(k, n) ==
    LET free == Names \ {a.name : a \in Known(k)}
    IN  n \in free /\ \A m \in free : n <= m

-------------------------------------------------------------------------------
Init ==
    /\ clock = 0
    /\ store = {}
    /\ pc = [h \in Handlers |-> "idle"]
    /\ req = [h \in Handlers |-> NoRequest]
    /\ now = [h \in Handlers |-> 0]
    /\ allowed = [h \in Handlers |-> FALSE]
    /\ todo = [h \in Handlers |-> {}]
    /\ existing = [h \in Handlers |-> {}]
    /\ sweeping = FALSE
    /\ sweepNow = 0
    /\ scopesLeft = <<>>
    /\ sweepTodo = <<>>
    /\ overlap \in Overlaps

\* evaluate.  The VM may not be fit for the request: a revoke only asks that it
\* exists, a grant that it runs Linux and has the login extension.
Evaluate(r, fit) == fit /\ (r.revoke \/ r.minutes \in 1 .. MaxMinutes)

\* A valid request reaches the function, which reads the VM and its extensions.
Start(h) ==
    /\ pc[h] \in Ended
    /\ \E r \in Asked :
        /\ overlap \/ (~sweeping /\ \A g \in Handlers : Active(g) => req[g].vm # r.vm)
        /\ req' = [req EXCEPT ![h] = r]
        /\ \E fit \in BOOLEAN : allowed' = [allowed EXCEPT ![h] = Evaluate(r, fit)]
    /\ now' = [now EXCEPT ![h] = clock]
    /\ pc' = [pc EXCEPT ![h] = "list"]
    /\ UNCHANGED <<clock, store, todo, existing, sweep>>

\* Ends an invocation, which forgets what it knew.
End(h, outcome) ==
    /\ pc' = [pc EXCEPT ![h] = outcome]
    /\ req' = [req EXCEPT ![h] = NoRequest]
    /\ now' = [now EXCEPT ![h] = 0]
    /\ allowed' = [allowed EXCEPT ![h] = FALSE]
    /\ todo' = [todo EXCEPT ![h] = {}]
    /\ existing' = [existing EXCEPT ![h] = {}]

\* It remains to remove rest: after the last one, a revoke is done and a grant
\* is put, renewing what it found.
RemoveNext(h, rest, found) ==
    IF rest = {} /\ req[h].revoke
    THEN End(h, "done")
    ELSE /\ todo' = [todo EXCEPT ![h] = rest]
         /\ existing' = [existing EXCEPT ![h] = found]
         /\ pc' = [pc EXCEPT ![h] = IF rest = {} THEN "put" ELSE "remove"]
         /\ UNCHANGED <<req, now, allowed>>

\* The assignments are listed, and it is decided what to do.
List(h) ==
    LET r == req[h]
        list == {a \in store : a.vm = r.vm}
        ours == {a \in list : Ours(a)}
        passed == allowed[h] /\ (r.revoke \/ Unassigned(list, r))
    IN
    /\ pc[h] = "list"
    /\ \/ /\ ~(passed /\ r.action = "execute")
          /\ End(h, IF passed THEN "planned" ELSE "refused")
       \/ /\ passed /\ r.action = "execute"
          /\ RemoveNext(h, ToRemove(ours, r, now[h]), {a \in ours : ~r.revoke /\ IsGrant(a, r, now[h])})
    /\ UNCHANGED <<clock, store, sweep>>

\* One assignment is removed.  On a revoke, a failure to remove an assignment of
\* the principal ends the invocation; any other failure is only logged.
RemoveOne(h) ==
    /\ pc[h] = "remove"
    /\ \E a \in todo[h] :
        \/ /\ store' = Without(a)
           /\ RemoveNext(h, todo[h] \ {a}, existing[h])
        \/ /\ store' \in {store, Without(a)}
           /\ IF req[h].revoke /\ a.principal = req[h].principal
              THEN End(h, "failed")
              ELSE RemoveNext(h, todo[h] \ {a}, existing[h])
    /\ UNCHANGED <<clock, sweep>>

\* Faults: the new expiry adds up with the old one, or forgets it.
Expires_AddsUp(h) ==
    IF existing[h] = {} THEN now[h] + req[h].minutes
    ELSE (CHOOSE a \in existing[h] : TRUE).expires + req[h].minutes
Expires_Forgets(h) == now[h] + req[h].minutes

\* put_grant: when the access the invocation grants ends.
Expires(h) ==
    LET asked == now[h] + req[h].minutes
        later == {a \in existing[h] : a.expires > asked}
    IN  IF later = {} THEN asked ELSE (CHOOSE a \in later : TRUE).expires

\* The grant is created, or updated under the name it has.
PutName(h, n) ==
    IF existing[h] = {}
    THEN NewName(<<req[h].vm, req[h].principal, req[h].role>>, n)
    ELSE \E a \in existing[h] : n = a.name

Granted(h, n) ==
    [vm |-> req[h].vm, principal |-> req[h].principal, role |-> req[h].role,
     name |-> n, expires |-> Expires(h)]

\* ARM refuses a second assignment of a VM, a principal and a role.
Taken(h, n) == \E b \in store : Key(b) = Key(Granted(h, n)) /\ b.name # n

Put(h) ==
    /\ pc[h] = "put"
    /\ \E n \in Names :
        /\ PutName(h, n)
        /\ ~Taken(h, n)
        /\ store' = Without(Granted(h, n)) \cup {Granted(h, n)}
    /\ \E outcome \in {"done", "failed"} : End(h, outcome)
    /\ UNCHANGED <<clock, sweep>>

\* RoleAssignmentExists: a new assignment is extended instead, an update fails.
PutTaken(h) ==
    /\ pc[h] = "put"
    /\ \E n \in Names : PutName(h, n) /\ Taken(h, n)
    /\ IF existing[h] = {}
       THEN /\ pc' = [pc EXCEPT ![h] = "relist"]
            /\ UNCHANGED locals
       ELSE End(h, "failed")
    /\ UNCHANGED <<clock, store, sweep>>

\* The assignments are listed again, for the grant that was there first.
Relist(h) ==
    LET current == {a \in store : IsGrant(a, req[h], now[h])} IN
    /\ pc[h] = "relist"
    /\ IF current = {}
       THEN End(h, "failed")
       ELSE /\ existing' = [existing EXCEPT ![h] = current]
            /\ pc' = [pc EXCEPT ![h] = "put"]
            /\ UNCHANGED <<req, now, allowed, todo>>
    /\ UNCHANGED <<clock, store, sweep>>

\* A call fails, or the invocation dies.
Fail(h) ==
    /\ Active(h)
    /\ End(h, "failed")
    /\ UNCHANGED <<clock, store, sweep>>

-------------------------------------------------------------------------------
\* The timer starts a sweep; it does not start a second one meanwhile.
SweepStart ==
    /\ ~sweeping
    /\ overlap \/ \A h \in Handlers : ~Active(h)
    /\ sweeping' = TRUE
    /\ sweepNow' = clock
    /\ scopesLeft' = Scopes
    /\ UNCHANGED <<clock, store, pc, locals, sweepTodo, overlap>>

\* The next scope is listed, in an order of ARM's choice.
SweepList ==
    /\ sweeping /\ sweepTodo = <<>> /\ scopesLeft # <<>>
    /\ scopesLeft' = Tail(scopesLeft)
    /\ sweepTodo' \in SetToSeqs({a \in store : a.vm = Head(scopesLeft) /\ ExpiredAt(a, sweepNow)})
    /\ UNCHANGED <<clock, store, pc, locals, sweeping, sweepNow, overlap>>

\* The scope cannot be listed: it is skipped.
SweepListFails ==
    /\ sweeping /\ sweepTodo = <<>> /\ scopesLeft # <<>>
    /\ scopesLeft' = Tail(scopesLeft)
    /\ UNCHANGED <<clock, store, pc, locals, sweeping, sweepNow, sweepTodo, overlap>>

\* The next assignment is removed.
SweepDelete ==
    /\ sweepTodo # <<>>
    /\ store' = Without(Head(sweepTodo))
    /\ sweepTodo' = Tail(sweepTodo)
    /\ UNCHANGED <<clock, pc, locals, sweeping, sweepNow, scopesLeft, overlap>>

\* Fault: the sweep is over at the first assignment it cannot remove.
SweepDeleteFails_Stops ==
    /\ sweepTodo # <<>>
    /\ scopesLeft' = <<>>
    /\ sweepTodo' = <<>>
    /\ UNCHANGED <<clock, store, pc, locals, sweeping, sweepNow, overlap>>

\* It cannot be removed: the sweep goes on with the next one.  (If the removal
\* took effect and only its answer was lost, this is SweepDelete.)
SweepDeleteFails ==
    /\ sweepTodo # <<>>
    /\ sweepTodo' = Tail(sweepTodo)
    /\ UNCHANGED <<clock, store, pc, locals, sweeping, sweepNow, scopesLeft, overlap>>

\* The sweep is over.
SweepEnd ==
    /\ sweeping /\ sweepTodo = <<>> /\ scopesLeft = <<>>
    /\ sweeping' = FALSE
    /\ sweepNow' = 0
    /\ UNCHANGED <<clock, store, pc, locals, scopesLeft, sweepTodo, overlap>>

\* The host stops in the middle of a sweep.
SweepDies ==
    /\ sweepTodo # <<>> \/ scopesLeft # <<>>
    /\ sweeping' = FALSE
    /\ sweepNow' = 0
    /\ scopesLeft' = <<>>
    /\ sweepTodo' = <<>>
    /\ UNCHANGED <<clock, store, pc, locals, overlap>>

-------------------------------------------------------------------------------
\* Somebody else assigns a role for good, or takes such an assignment back.
Admin ==
    /\ \/ \E k \in VMs \X Principals \X Roles, n \in Names :
            /\ \A b \in store : Key(b) # k
            /\ NewName(k, n)
            /\ store' = store \cup {[vm |-> k[1], principal |-> k[2], role |-> k[3],
                                     name |-> n, expires |-> Permanent]}
       \/ \E a \in store : ~Ours(a) /\ store' = store \ {a}
    /\ UNCHANGED <<clock, pc, locals, sweep>>

Tick ==
    /\ clock < MaxTime
    /\ clock' = clock + 1
    /\ UNCHANGED <<store, pc, locals, sweep>>

Step(h) ==
    \/ Start(h)
    \/ List(h)
    \/ RemoveOne(h)
    \/ Put(h)
    \/ PutTaken(h)
    \/ Relist(h)
    \/ Fail(h)

Sweep ==
    \/ SweepStart
    \/ SweepList
    \/ SweepListFails
    \/ SweepDelete
    \/ SweepDeleteFails
    \/ SweepEnd
    \/ SweepDies

Next == (\E h \in Handlers : Step(h)) \/ Sweep \/ Admin \/ Tick

Spec == Init /\ [][Next]_vars

\* What liveness rests on: the timer keeps starting sweeps, from some time on
\* the host lets them finish, and ARM, asked again and again, eventually lists
\* the assignments of the VMs in Working and removes each of them.  Nothing is
\* asked of the other VMs, where both may fail forever.
SweepListOf(v) == SweepList /\ Head(scopesLeft) = v
SweepDeleteOf(v, p) ==
    SweepDelete /\ Head(sweepTodo).vm = v /\ Head(sweepTodo).principal = p

Fairness ==
    /\ WF_vars(SweepStart)
    /\ WF_vars(SweepList \/ SweepListFails)
    /\ WF_vars(SweepDelete \/ SweepDeleteFails)
    /\ WF_vars(SweepEnd)
    /\ <>[][~SweepDies]_vars
    /\ \A v \in Working : SF_vars(SweepListOf(v))
    /\ \A v \in Working, p \in Principals : SF_vars(SweepDeleteOf(v, p))

FairSpec == Spec /\ Fairness

-------------------------------------------------------------------------------
\* Every variable has its type, and ARM's rule holds: at most one assignment of
\* a VM, a principal and a role, known to an invocation by one name only.
TypeOK ==
    /\ clock \in Nat
    /\ store \in SUBSET Assignment
    /\ \A a, b \in store : Key(a) = Key(b) => a = b
    /\ pc \in [Handlers -> Ended \cup Steps]
    /\ req \in [Handlers -> Request \cup {NoRequest}]
    /\ \A h \in Handlers : Active(h) => req[h] \in Request
    /\ now \in [Handlers -> Nat]
    /\ allowed \in [Handlers -> BOOLEAN]
    /\ todo \in [Handlers -> SUBSET Assignment]
    /\ existing \in [Handlers -> SUBSET Assignment]
    /\ \A h \in Handlers : \A a, b \in existing[h] : a = b
    /\ sweeping \in BOOLEAN
    /\ sweepNow \in Nat
    /\ scopesLeft \in Seq(VMs)
    /\ sweepTodo \in Seq(Assignment)
    /\ overlap \in Overlaps

\* No grant ends later than the longest access counted from now, whoever
\* extended whose grant (duration-allowed, and the max of the expiries).
AccessWithinLimit ==
    \A a \in store : Ours(a) => a.expires <= clock + MaxMinutes

\* An assignment somebody else made is never removed or turned into a grant by
\* the function, however old the list is that it acts on: its deletes go by
\* names that only its own assignments had ("and nothing else", main.rs:9).
PermanentUntouched ==
    [][\A a \in store : ~Ours(a) /\ a \notin store' =>
            UNCHANGED <<clock, pc, locals, sweep>>]_vars

Leftover(v, p) ==
    \E a \in store : a.vm = v /\ a.principal = p /\ ExpiredAt(a, clock)

\* An expired grant on a VM where assignments can be removed does not stay
\* forever, although listing a scope visited earlier, or removing what it holds,
\* may fail at every sweep (main.rs:426).
ExpiredGoes ==
    \A v \in Working, p \in Principals : overlap /\ Leftover(v, p) ~> ~Leftover(v, p)

Revoking(k) ==
    \E h \in Handlers : /\ Active(h)
                        /\ req[h].revoke
                        /\ <<req[h].vm, req[h].principal>> = <<k[1], k[2]>>
Granting(k) ==
    \E h \in Handlers : /\ Active(h)
                        /\ ~req[h].revoke /\ allowed[h]
                        /\ <<req[h].vm, req[h].principal, req[h].role>> = k

\* The table of grants the assignments amount to, where invocations do not overlap.
AllKeys == VMs \X Principals \X Roles

TA == INSTANCE TimedAccess WITH
        Keys <- AllKeys,
        MaxDuration <- MaxMinutes,
        access <- {[key |-> Key(a), until |-> a.expires] : a \in {b \in store : ~overlap /\ Ours(b)}},
        granting <- {k \in AllKeys : Granting(k)},
        revoking <- {k \in AllKeys : Revoking(k)}

\* As long as nothing else acts on the VM meanwhile, a grant goes only because
\* it expired, is being revoked or is renewed for at least as long, whatever
\* fails half way.
GrantsOnlyExtend == TA!Spec

\* An invocation that answers done, and that no other overlapped, leaves what it
\* says: no grant of the principal after a revoke, or the role until the expiry it reports.
DoneMeansAccess ==
    [][\A h \in Handlers : ~overlap /\ Active(h) /\ pc'[h] = "done" =>
        LET left == {a \in store' : Ours(a) /\ a.vm = req[h].vm /\ a.principal = req[h].principal}
        IN  IF req[h].revoke
            THEN left = {}
            ELSE \E a \in left : a.role = req[h].role /\ a.expires = Expires(h)]_vars

\* The comment at main.rs:8-9: an execute and the timer remove "expired
\* assignments this function created, and nothing else", a revoke aside.
RemovesExpiredOnly ==
    [][\A a \in store : Ours(a) /\ ~Revoking(Key(a)) /\ (\A b \in store' : Key(b) # Key(a))
            => a.expires <= clock]_vars
===============================================================================
