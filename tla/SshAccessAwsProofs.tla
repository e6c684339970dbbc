--------------------------- MODULE SshAccessAwsProofs --------------------------
(***************************************************************************)
(* Proofs about the AWS ssh-access function, for any instances, principals *)
(* and durations, any number of invocations and the timer's sweep.         *)
(***************************************************************************)
EXTENDS SshAccessAws, TLAPS

\* What a worker keeps agrees with its step, and nothing it knows is later than
\* the limit allows.
WorkerOK(w) ==
    /\ w \in Handlers => (Active(w) <=> req[w] \in Request)
    /\ pc[w] \in Removal \cup {"owner"} <=> target[w] # NoPair
    /\ pc[w] \in Granting \cup {"find"} => todo[w] = {}
    /\ now[w] <= clock
    /\ until[w] <= clock + MaxMinutes
    /\ w \in Handlers /\ Active(w) => req[w].minutes \in 1 .. MaxMinutes

LocalsTyped ==
    /\ pc \in [Workers -> Ended \cup Steps]
    /\ req \in [Workers -> Request \cup {NoRequest}]
    /\ now \in [Workers -> Nat]
    /\ todo \in [Workers -> SUBSET Pairs]
    /\ target \in [Workers -> Pairs \cup {NoPair}]
    /\ until \in [Workers -> Nat]
    /\ alone \in [Workers -> BOOLEAN]

IInv ==
    /\ clock \in Nat
    /\ policies \in [Pairs -> Policy \cup {NoPolicy}]
    /\ AccessWithinLimit
    /\ LocalsTyped
    /\ \A w \in Workers : WorkerOK(w)

-------------------------------------------------------------------------------
\* A request, in either of its shapes, has the fields the steps use.
LEMMA RequestFields ==
    ASSUME NEW r \in Request
    PROVE  r.pair \in Pairs /\ r.revoke \in BOOLEAN
<1>1. ASSUME NEW revokes \in SUBSET BOOLEAN, NEW lengths,
             r \in [action : Actions, pair : Asked, revoke : revokes, minutes : lengths]
      PROVE  r.pair \in Pairs /\ r.revoke \in BOOLEAN
  BY <1>1, AskedAssumption
<1>2. {TRUE} \in SUBSET BOOLEAN /\ {FALSE} \in SUBSET BOOLEAN
  OBVIOUS
<1>3. QED
  BY <1>1, <1>2 DEF Request

LEMMA ExpiryType ==
    ASSUME NEW t \in Nat, NEW minutes \in Nat, NEW tag \in Nat
    PROVE  EffectiveExpires(t, minutes, tag) \in Nat
BY DEF EffectiveExpires

\* What a step of worker w establishes; only alone may change for the others.
Moved(w) ==
    /\ LocalsTyped'
    /\ WorkerOK(w)'
    /\ \A v \in Workers \ {w} :
            /\ pc'[v] = pc[v] /\ req'[v] = req[v] /\ now'[v] = now[v]
            /\ todo'[v] = todo[v] /\ target'[v] = target[v] /\ until'[v] = until[v]

LEMMA WorkerStep ==
    ASSUME IInv, NEW w \in Workers, Moved(w), clock' = clock,
           policies' \in [Pairs -> Policy \cup {NoPolicy}], AccessWithinLimit'
    PROVE  IInv'
<1>1. ASSUME NEW v \in Workers \ {w} PROVE WorkerOK(v)'
  BY DEF IInv, Moved, WorkerOK, Active
<1>2. QED
  BY <1>1 DEF IInv, Moved

\* A worker that ends, or goes on without learning anything.
LEMMA EndInv ==
    ASSUME IInv, NEW w \in Workers, NEW outcome \in Ended, End(w, outcome), clock' = clock
    PROVE  Moved(w)
<1>1. LocalsTyped'
  BY DEF IInv, LocalsTyped, End, Go
<1>2. /\ pc'[w] = outcome /\ req'[w] = NoRequest /\ now'[w] = 0 /\ todo'[w] = {}
      /\ target'[w] = NoPair /\ until'[w] = 0
  BY DEF IInv, LocalsTyped, End, Go
<1>3. WorkerOK(w)'
  <2>1. ~Active(w)' /\ pc'[w] \notin Removal \cup {"owner"} /\ pc'[w] \notin Granting \cup {"find"}
    BY <1>2 DEF Active, Ended, Steps, CleanUp, Removal, Granting
  <2>2. now'[w] <= clock' /\ until'[w] <= clock' + MaxMinutes
    BY <1>2, MaxMinutesAssumption DEF IInv
  <2>3. QED
    BY <1>2, <2>1, <2>2, NoRequestAssumption DEF WorkerOK
<1>4. QED
  BY <1>1, <1>3 DEF IInv, LocalsTyped, End, Go, Moved

LEMMA GoInv ==
    ASSUME IInv, NEW w \in Workers, NEW step \in Steps, Go(w, step), UNCHANGED <<clock, locals>>,
           Active(w),
           step \in Removal \cup {"owner"} <=> target[w] # NoPair,
           step \in Granting \cup {"find"} => todo[w] = {}
    PROVE  Moved(w)
<1>1. LocalsTyped' /\ pc'[w] = step
  BY DEF IInv, LocalsTyped, Go, locals
<1>2. Active(w)'
  BY <1>1 DEF Active
<1>3. WorkerOK(w)'
  BY <1>1, <1>2 DEF IInv, WorkerOK, locals
<1>4. QED
  BY <1>1, <1>3 DEF IInv, LocalsTyped, Go, locals, Moved

LEMMA CleanUpNextInv ==
    ASSUME IInv, NEW w \in Workers, NEW rest \in SUBSET Pairs, CleanUpNext(w, rest),
           Active(w), clock' = clock
    PROVE  Moved(w)
<1>1. CASE End(w, "idle")
  BY <1>1, EndInv DEF Ended
<1>2. ASSUME NEW step \in {"find", "scan"}, Go(w, step), step = "find" => rest = {},
             todo' = [todo EXCEPT ![w] = rest], target' = [target EXCEPT ![w] = NoPair],
             UNCHANGED <<req, now, until, alone>>
      PROVE  Moved(w)
  <2>1. LocalsTyped' /\ pc'[w] = step /\ todo'[w] = rest /\ target'[w] = NoPair
    BY <1>2 DEF IInv, LocalsTyped, Go, Steps, CleanUp
  <2>2. Active(w)' /\ step \notin Removal \cup {"owner"} /\ step \notin Granting
    BY <1>2, <2>1 DEF Active, Steps, CleanUp, Removal, Granting
  <2>3. WorkerOK(w)'
    BY <1>2, <2>1, <2>2 DEF IInv, WorkerOK
  <2>4. QED
    BY <1>2, <2>1, <2>3 DEF IInv, LocalsTyped, Go, Moved
<1>3. QED
  BY <1>1, <1>2 DEF CleanUpNext

\* The policies stay within the limit while they and the clock do not change.
LEMMA SamePolicies ==
    ASSUME IInv, NEW w \in Workers, Moved(w), UNCHANGED <<clock, policies>>
    PROVE  IInv'
BY WorkerStep DEF IInv, AccessWithinLimit, Exists

\* One policy changes, to one that expires within the limit or is gone.
LEMMA OnePolicy ==
    ASSUME IInv, NEW w \in Workers, Moved(w), clock' = clock, NEW k \in Pairs,
           NEW p \in Policy \cup {NoPolicy}, policies' = [policies EXCEPT ![k] = p],
           p # NoPolicy => p.expires <= clock + MaxMinutes
    PROVE  IInv'
<1>1. policies' \in [Pairs -> Policy \cup {NoPolicy}]
  BY DEF IInv
<1>2. AccessWithinLimit'
  BY DEF IInv, AccessWithinLimit, Exists
<1>3. QED
  BY <1>1, <1>2, WorkerStep

\* Who removes a policy goes on with the next one, or ends.
LEMMA NotRemovedInv ==
    ASSUME IInv, NEW w \in Workers, NotRemoved(w), pc[w] \in Removal, clock' = clock
    PROVE  Moved(w)
<1>1. Active(w) /\ todo[w] \ {target[w]} \in SUBSET Pairs
  BY DEF IInv, LocalsTyped, Active, Steps
<1>2. QED
  BY <1>1, CleanUpNextInv, EndInv DEF NotRemoved, Ended

LEMMA RemovedInv ==
    ASSUME IInv, NEW w \in Workers, Removed(w), pc[w] \in Removal, clock' = clock
    PROVE  Moved(w)
<1>1. Active(w) /\ todo[w] \ {target[w]} \in SUBSET Pairs
  BY DEF IInv, LocalsTyped, Active, Steps
<1>2. QED
  BY <1>1, CleanUpNextInv, EndInv DEF Removed, Ended

\* Turning to policy k, to remove it or to ask whom it is attached to.
LEMMA TakeInv ==
    ASSUME IInv, NEW w \in Workers, NEW step \in {"entities", "owner"}, NEW k \in Pairs,
           Go(w, step), target' = [target EXCEPT ![w] = k],
           UNCHANGED <<clock, req, now, todo, until, alone>>, Active(w)
    PROVE  Moved(w)
<1>1. LocalsTyped' /\ pc'[w] = step /\ target'[w] = k
  BY DEF IInv, LocalsTyped, Go, Steps, CleanUp, Removal
<1>2. Active(w)' /\ step \in Removal \cup {"owner"} /\ step \notin Granting \cup {"find"}
  BY <1>1 DEF Active, Steps, CleanUp, Removal, Granting
<1>3. WorkerOK(w)'
  BY <1>1, <1>2, NoPairAssumption DEF IInv, WorkerOK
<1>4. QED
  BY <1>1, <1>3 DEF IInv, LocalsTyped, Go, Moved

\* Computing the expiry to grant.
LEMMA GrantInv ==
    ASSUME IInv, NEW h \in Handlers, NEW step \in Granting, NEW e \in Nat, Go(h, step),
           until' = [until EXCEPT ![h] = e], e <= clock + MaxMinutes,
           UNCHANGED <<clock, req, now, todo, target, alone>>, pc[h] \in Granting \cup {"find"}
    PROVE  Moved(h)
<1>1. LocalsTyped' /\ pc'[h] = step /\ until'[h] = e
  BY DEF IInv, LocalsTyped, Go, Steps, Workers
<1>2. Active(h) /\ Active(h)' /\ step \notin Removal \cup {"owner"} /\ pc[h] \notin Removal \cup {"owner"}
  BY <1>1 DEF Active, Steps, Removal, Granting
<1>3. WorkerOK(h)'
  BY <1>1, <1>2 DEF IInv, WorkerOK, Workers
<1>4. QED
  BY <1>1, <1>3 DEF IInv, LocalsTyped, Go, Moved, Workers

LEMMA BeginInv ==
    ASSUME IInv, NEW w \in Workers, NEW r \in Request \cup {NoRequest}, pc[w] \in Ended, Begin(w, r),
           w \in Handlers => r \in Request /\ r.minutes \in 1 .. MaxMinutes
    PROVE  IInv'
<1>1. /\ LocalsTyped' /\ pc'[w] = "list" /\ req'[w] = r /\ now'[w] = clock
      /\ UNCHANGED <<clock, policies, todo, target, until>>
  BY DEF IInv, LocalsTyped, Begin, Go, Steps
<1>2. Active(w)' /\ target[w] = NoPair
  <2>1. pc[w] \notin Removal \cup {"owner"}
    BY DEF Ended, Removal
  <2>2. WorkerOK(w)
    BY DEF IInv
  <2>3. QED
    BY <1>1, <2>1, <2>2 DEF Active, Steps, WorkerOK
<1>3. WorkerOK(w)'
  <2>1. pc'[w] \notin Removal \cup {"owner"} /\ pc'[w] \notin Granting \cup {"find"}
    BY <1>1 DEF Removal, Granting
  <2>2. target'[w] = NoPair /\ (w \in Handlers => req'[w] \in Request)
    BY <1>1, <1>2
  <2>3. now'[w] <= clock' /\ until'[w] <= clock' + MaxMinutes
    BY <1>1 DEF IInv, WorkerOK
  <2>4. w \in Handlers => req'[w].minutes \in 1 .. MaxMinutes
    BY <1>1
  <2>5. QED
    BY <1>2, <2>1, <2>2, <2>3, <2>4 DEF WorkerOK
<1>4. Moved(w)
  BY <1>1, <1>3 DEF IInv, LocalsTyped, Begin, Go, Moved
<1>5. QED
  BY <1>1, <1>4, SamePolicies

-------------------------------------------------------------------------------
LEMMA CleanUpSteps ==
    ASSUME IInv, NEW w \in Workers,
           List(w) \/ Scan(w) \/ Owner(w) \/ (w = Timer /\ ScanFails)
    PROVE  IInv'
<1>1. UNCHANGED <<clock, policies>> /\ Active(w)
  BY DEF List, Scan, Owner, ScanFails, Active, Steps, CleanUp
<1>2. todo[w] \in SUBSET Pairs /\ (\A k : todo[w] \ {k} \in SUBSET Pairs)
      /\ {k \in Pairs : Exists(k)} \in SUBSET Pairs
  BY DEF IInv, LocalsTyped
<1>3. CASE \E rest \in SUBSET Pairs : CleanUpNext(w, rest)
  BY <1>1, <1>3, CleanUpNextInv, SamePolicies
<1>4. CASE End(w, "idle")
  BY <1>1, <1>4, EndInv, SamePolicies DEF Ended
<1>5. ASSUME NEW k \in Pairs, NEW step \in {"entities", "owner"}, Go(w, step),
             target' = [target EXCEPT ![w] = k], UNCHANGED <<req, now, todo, until, alone>>
      PROVE  IInv'
  BY <1>1, <1>5, TakeInv, SamePolicies
<1>6. CASE pc[w] = "owner" /\ Go(w, "entities") /\ UNCHANGED locals
  <2>1. target[w] # NoPair /\ "entities" \in Steps /\ "entities" \in Removal
        /\ "entities" \notin Granting \cup {"find"}
    BY <1>6 DEF IInv, WorkerOK, Steps, Removal, Granting
  <2>2. QED
    BY <1>1, <1>6, <2>1, GoInv, SamePolicies
<1>7. CASE List(w)
  BY <1>2, <1>3, <1>7 DEF List
<1>8. CASE Scan(w)
  <2>1. PICK k \in todo[w] :
        \/ CleanUpNext(w, todo[w] \ {k})
        \/ /\ Go(w, IF w = Timer \/ k[1] = req[w].pair[1] THEN "entities" ELSE "owner")
           /\ target' = [target EXCEPT ![w] = k]
           /\ UNCHANGED <<req, now, todo, until, alone>>
        \/ End(w, "idle")
    BY <1>8 DEF Scan
  <2>2. k \in Pairs
    BY <1>2
  <2>3. QED
    BY <1>2, <1>3, <1>4, <1>5, <2>1, <2>2
<1>9. CASE Owner(w)
  BY <1>2, <1>3, <1>4, <1>6, <1>9 DEF Owner
<1>10. CASE w = Timer /\ ScanFails
  BY <1>2, <1>3, <1>10 DEF ScanFails
<1>11. QED
  BY <1>7, <1>8, <1>9, <1>10

LEMMA RemovalSteps ==
    ASSUME IInv, NEW w \in Workers,
           ListEntities(w) \/ Detach(w) \/ DeletePolicy(w) \/ RemovalFails(w)
    PROVE  IInv'
<1>1. clock' = clock /\ pc[w] \in Removal /\ Active(w) /\ target[w] \in Pairs
  <2>1. clock' = clock /\ pc[w] \in Removal
    BY DEF ListEntities, Detach, DeletePolicy, RemovalFails, Removal
  <2>2. WorkerOK(w) /\ target[w] \in Pairs \cup {NoPair}
    BY DEF IInv, LocalsTyped
  <2>3. QED
    BY <2>1, <2>2 DEF WorkerOK, Active, Steps
<1>2. target[w] # NoPair
  BY <1>1, NoPairAssumption
<1>3. ASSUME NEW step \in Removal, Go(w, step), UNCHANGED locals PROVE Moved(w)
  <2>1. step \in Steps /\ step \notin Granting \cup {"find"}
    BY DEF Steps, Removal, Granting
  <2>2. QED
    BY <1>1, <1>2, <1>3, <2>1, GoInv
<1>4. CASE ListEntities(w)
  <2>1. Moved(w)
    BY <1>1, <1>3, <1>4, NotRemovedInv DEF ListEntities, Removal
  <2>2. QED
    BY <1>4, <2>1, SamePolicies DEF ListEntities
<1>5. CASE Detach(w)
  <2>1. Moved(w)
    BY <1>1, <1>3, <1>5, NotRemovedInv DEF Detach, Removal
  <2>2. CASE UNCHANGED policies
    BY <1>1, <2>1, <2>2, SamePolicies
  <2>3. CASE Exists(target[w]) /\ policies' = [policies EXCEPT ![target[w]].attached = FALSE]
    <3>1. /\ policies[target[w]] \in Policy
          /\ policies[target[w]].expires <= clock + MaxMinutes
      BY <1>1, <2>3 DEF IInv, Exists, AccessWithinLimit
    <3>2. /\ [policies[target[w]] EXCEPT !.attached = FALSE] \in Policy
          /\ [policies[target[w]] EXCEPT !.attached = FALSE].expires <= clock + MaxMinutes
      BY <3>1 DEF Policy
    <3>3. QED
      BY <1>1, <2>1, <2>3, <3>2, OnePolicy
  <2>4. QED
    BY <1>5, <2>2, <2>3 DEF Detach
<1>6. CASE DeletePolicy(w)
  <2>1. Moved(w)
    BY <1>1, <1>6, NotRemovedInv, RemovedInv DEF DeletePolicy
  <2>2. CASE UNCHANGED policies
    BY <1>1, <2>1, <2>2, SamePolicies
  <2>3. CASE policies' = [policies EXCEPT ![target[w]] = NoPolicy]
    BY <1>1, <2>1, <2>3, OnePolicy
  <2>4. QED
    BY <1>6, <2>2, <2>3 DEF DeletePolicy
<1>7. CASE RemovalFails(w)
  BY <1>1, <1>7, NotRemovedInv, SamePolicies DEF RemovalFails
<1>8. QED
  BY <1>4, <1>5, <1>6, <1>7

LEMMA FailStep == ASSUME IInv, NEW w \in Workers, Fail(w) PROVE IInv'
BY EndInv, SamePolicies DEF Fail, Ended

LEMMA StartSteps ==
    ASSUME IInv, NEW h \in Handlers, Start(h)
    PROVE  IInv'
<1>1. PICK r \in Request, fit \in BOOLEAN :
        \/ Evaluate(r, fit) /\ Begin(h, r)
        \/ \E outcome \in {"planned", "refused"} :
                Go(h, outcome) /\ UNCHANGED <<clock, policies, locals>>
  BY DEF Start
<1>2. h \in Workers /\ pc[h] \in Ended
  BY DEF Start, Workers
<1>3. CASE Evaluate(r, fit) /\ Begin(h, r)
  <2>1. r.minutes \in 1 .. MaxMinutes
    <3>1. CASE r.revoke = FALSE
      BY <1>3, <3>1 DEF Evaluate
    <3>2. CASE r.revoke # FALSE
      <4>1. r.minutes = 1
        BY <3>2 DEF Request
      <4>2. QED
        BY <4>1, MaxMinutesAssumption
    <3>3. QED
      BY <3>1, <3>2
  <2>2. QED
    BY <1>2, <1>3, <2>1, BeginInv
<1>4. ASSUME NEW outcome \in {"planned", "refused"}, Go(h, outcome),
             UNCHANGED <<clock, policies, locals>>
      PROVE  IInv'
  <2>1. LocalsTyped' /\ pc'[h] = outcome
    BY <1>2, <1>4 DEF IInv, LocalsTyped, Go, locals, Ended
  <2>2. /\ ~Active(h) /\ ~Active(h)'
        /\ pc[h] \notin Removal \cup {"owner"} /\ outcome \notin Removal \cup {"owner"}
        /\ outcome \notin Granting \cup {"find"}
    BY <1>2, <2>1 DEF Active, Ended, Steps, CleanUp, Removal, Granting
  <2>3. WorkerOK(h)
    BY <1>2 DEF IInv
  <2>4. WorkerOK(h)'
    BY <1>4, <2>1, <2>2, <2>3 DEF WorkerOK, locals
  <2>5. Moved(h)
    BY <1>2, <1>4, <2>1, <2>4 DEF IInv, LocalsTyped, Go, locals, Moved
  <2>6. QED
    BY <1>2, <1>4, <2>5, SamePolicies
<1>5. QED
  BY <1>1, <1>3, <1>4

LEMMA SweepStep == ASSUME IInv, SweepStart PROVE IInv'
BY BeginInv, TimerAssumption DEF SweepStart, Workers

-------------------------------------------------------------------------------
\* What an invocation that is past its clean-up knows of its request.
LEMMA Invoked ==
    ASSUME IInv, NEW h \in Handlers, Active(h)
    PROVE  /\ h \in Workers /\ req[h].pair \in Pairs /\ req[h].revoke \in BOOLEAN
           /\ req[h].minutes \in Nat /\ req[h].minutes <= MaxMinutes
           /\ now[h] \in Nat /\ now[h] <= clock
           /\ until[h] \in Nat /\ until[h] <= clock + MaxMinutes
<1>1. h \in Workers
  BY DEF Workers
<1>2. WorkerOK(h) /\ now[h] \in Nat /\ until[h] \in Nat
  BY <1>1 DEF IInv, LocalsTyped
<1>3. QED
  BY <1>1, <1>2, RequestFields, MaxMinutesAssumption DEF WorkerOK

LEMMA FindStep == ASSUME IInv, NEW h \in Handlers, Find(h) PROVE IInv'
<1> DEFINE k == req[h].pair
<1>1. Active(h) /\ pc[h] = "find" /\ UNCHANGED <<clock, policies>>
  BY DEF Find, Active, Steps
<1>2. h \in Workers /\ k \in Pairs
  BY <1>1, Invoked
<1>3. CASE End(h, "done")
  BY <1>1, <1>2, <1>3, EndInv, SamePolicies DEF Ended
<1>4. CASE /\ Go(h, "entities")
           /\ target' = [target EXCEPT ![h] = k]
           /\ UNCHANGED <<req, now, todo, until, alone>>
  BY <1>1, <1>2, <1>4, TakeInv, SamePolicies
<1>5. CASE /\ Go(h, IF Exists(k) THEN "read" ELSE "create")
           /\ until' = [until EXCEPT ![h] = EffectiveExpires(now[h], req[h].minutes, 0)]
           /\ UNCHANGED <<req, now, todo, target, alone>>
  <2> DEFINE e == EffectiveExpires(now[h], req[h].minutes, 0)
  <2>1. e \in Nat
    BY <1>1, Invoked, ExpiryType
  <2>2. e <= clock + MaxMinutes
    <3>1. e = now[h] + req[h].minutes
      BY <1>1, Invoked DEF EffectiveExpires
    <3>2. QED
      BY <1>1, <3>1, Invoked, MaxMinutesAssumption DEF IInv
  <2>3. (IF Exists(k) THEN "read" ELSE "create") \in Granting
    BY DEF Granting
  <2>4. Moved(h)
    BY <1>1, <1>5, <2>1, <2>2, <2>3, GrantInv
  <2>5. QED
    BY <1>1, <1>2, <2>4, SamePolicies
<1>6. QED
  BY <1>3, <1>4, <1>5 DEF Find

LEMMA ReadTagStep == ASSUME IInv, NEW h \in Handlers, ReadTag(h) PROVE IInv'
<1> DEFINE k == req[h].pair
           e == EffectiveExpires(now[h], req[h].minutes, policies[k].expires)
<1>1. Active(h) /\ pc[h] = "read" /\ UNCHANGED <<clock, policies>>
  BY DEF ReadTag, Active, Steps, Granting
<1>2. h \in Workers /\ k \in Pairs
  BY <1>1, Invoked
<1>3. CASE End(h, "idle")
  BY <1>1, <1>2, <1>3, EndInv, SamePolicies DEF Ended
<1>4. CASE /\ Exists(k)
           /\ Go(h, "tag")
           /\ until' = [until EXCEPT ![h] = e]
           /\ UNCHANGED <<req, now, todo, target, alone>>
  <2>1. policies[k].expires \in Nat /\ policies[k].expires <= clock + MaxMinutes
    BY <1>2, <1>4 DEF IInv, Exists, AccessWithinLimit, Policy
  <2>2. e \in Nat
    BY <1>1, <2>1, Invoked, ExpiryType
  <2>3. e <= clock + MaxMinutes
    <3>1. e = policies[k].expires \/ e = now[h] + req[h].minutes
      BY DEF EffectiveExpires
    <3>2. QED
      BY <1>1, <2>1, <3>1, Invoked, MaxMinutesAssumption DEF IInv
  <2>4. "tag" \in Granting /\ "read" \in Granting
    BY DEF Granting
  <2>5. Moved(h)
    BY <1>1, <1>4, <2>2, <2>3, <2>4, GrantInv
  <2>6. QED
    BY <1>1, <1>2, <2>5, SamePolicies
<1>5. QED
  BY <1>3, <1>4 DEF ReadTag

\* Creating, tagging and attaching.
LEMMA GrantSteps ==
    ASSUME IInv, NEW h \in Handlers,
           CreatePolicy(h) \/ FindAgain(h) \/ TagExpires(h) \/ AttachPolicy(h)
    PROVE  IInv'
<1> DEFINE k == req[h].pair
<1>1. Active(h) /\ pc[h] \in Granting /\ clock' = clock
  BY DEF CreatePolicy, FindAgain, TagExpires, AttachPolicy, Active, Steps, Granting
<1>2. /\ h \in Workers /\ k \in Pairs /\ until[h] \in Nat /\ until[h] <= clock + MaxMinutes
  BY <1>1, Invoked
<1>3. WorkerOK(h)
  BY <1>2 DEF IInv
<1>4. ASSUME NEW step \in Granting, Go(h, step), UNCHANGED locals PROVE Moved(h)
  <2>1. /\ step \in Steps /\ step \notin Removal \cup {"owner"} /\ pc[h] \notin Removal \cup {"owner"}
    BY <1>1 DEF Steps, Removal, Granting
  <2>2. target[h] = NoPair /\ todo[h] = {}
    BY <1>1, <1>3, <2>1 DEF WorkerOK
  <2>3. QED
    BY <1>1, <1>2, <1>4, <2>1, <2>2, GoInv
<1>5. ASSUME NEW outcome \in Ended, End(h, outcome) PROVE Moved(h)
  BY <1>1, <1>2, <1>5, EndInv
<1>6. Moved(h)
  BY <1>4, <1>5 DEF CreatePolicy, FindAgain, TagExpires, AttachPolicy, Granting, Ended
<1>7. CASE UNCHANGED policies
  BY <1>1, <1>2, <1>6, <1>7, SamePolicies
<1>8. CASE policies' = [policies EXCEPT ![k] = [expires |-> until[h], attached |-> FALSE]]
  <2>1. [expires |-> until[h], attached |-> FALSE] \in Policy
    BY <1>2 DEF Policy
  <2>2. QED
    BY <1>1, <1>2, <1>6, <1>8, <2>1, OnePolicy
<1>9. CASE Exists(k) /\ policies' = [policies EXCEPT ![k].expires = until[h]]
  <2>1. policies[k] \in Policy
    BY <1>2, <1>9 DEF IInv, Exists
  <2>2. /\ [policies[k] EXCEPT !.expires = until[h]] \in Policy
        /\ [policies[k] EXCEPT !.expires = until[h]].expires = until[h]
    BY <1>2, <2>1 DEF Policy
  <2>3. policies' = [policies EXCEPT ![k] = [policies[k] EXCEPT !.expires = until[h]]]
    BY <1>9
  <2>4. QED
    BY <1>1, <1>2, <1>6, <2>2, <2>3, OnePolicy
<1>10. CASE Exists(k) /\ policies' = [policies EXCEPT ![k].attached = TRUE]
  <2>1. policies[k] \in Policy /\ policies[k].expires <= clock + MaxMinutes
    BY <1>2, <1>10 DEF IInv, Exists, AccessWithinLimit
  <2>2. /\ [policies[k] EXCEPT !.attached = TRUE] \in Policy
        /\ [policies[k] EXCEPT !.attached = TRUE].expires = policies[k].expires
    BY <2>1 DEF Policy
  <2>3. policies' = [policies EXCEPT ![k] = [policies[k] EXCEPT !.attached = TRUE]]
    BY <1>10
  <2>4. QED
    BY <1>1, <1>2, <1>6, <2>1, <2>2, <2>3, OnePolicy
<1>11. QED
  BY <1>7, <1>8, <1>9, <1>10 DEF CreatePolicy, FindAgain, TagExpires, AttachPolicy

LEMMA TickStep == ASSUME IInv, Tick PROVE IInv'
<1>1. clock \in Nat /\ clock' = clock + 1 /\ UNCHANGED <<policies, pc, locals>>
  BY DEF IInv, Tick
<1>2. AccessWithinLimit'
  <2>1. ASSUME NEW k \in Pairs, Exists(k) PROVE policies[k].expires <= clock + 1 + MaxMinutes
    <3>1. policies[k].expires \in Nat /\ policies[k].expires <= clock + MaxMinutes
      BY <2>1 DEF IInv, Exists, AccessWithinLimit, Policy
    <3>2. QED
      BY <1>1, <3>1, MaxMinutesAssumption
  <2>2. QED
    BY <1>1, <2>1 DEF AccessWithinLimit, Exists
<1>3. LocalsTyped'
  BY <1>1 DEF IInv, LocalsTyped, locals
<1>4. ASSUME NEW w \in Workers PROVE WorkerOK(w)'
  <2>1. WorkerOK(w) /\ now[w] \in Nat /\ until[w] \in Nat
    BY DEF IInv, LocalsTyped
  <2>2. now[w] <= clock + 1 /\ until[w] <= clock + 1 + MaxMinutes
    BY <1>1, <2>1, MaxMinutesAssumption DEF WorkerOK
  <2>3. QED
    BY <1>1, <2>1, <2>2 DEF WorkerOK, Active, locals
<1>5. QED
  BY <1>1, <1>2, <1>3, <1>4 DEF IInv

-------------------------------------------------------------------------------
LEMMA InitInv == Init => IInv
<1> SUFFICES ASSUME Init PROVE IInv
  OBVIOUS
<1>1. policies \in [Pairs -> Policy \cup {NoPolicy}]
  <2>1. [expires : 0 .. MaxMinutes, attached : BOOLEAN] \subseteq Policy
    BY MaxMinutesAssumption DEF Policy
  <2>2. QED
    BY <2>1 DEF Init
<1>2. AccessWithinLimit
  <2>1. ASSUME NEW k \in Pairs, Exists(k) PROVE policies[k].expires <= clock + MaxMinutes
    <3>1. policies[k] \in [expires : 0 .. MaxMinutes, attached : BOOLEAN]
      BY <2>1 DEF Init, Exists
    <3>2. policies[k].expires \in 0 .. MaxMinutes
      BY <3>1
    <3>3. QED
      BY <3>2, MaxMinutesAssumption DEF Init
  <2>2. QED
    BY <2>1 DEF AccessWithinLimit
<1>3. LocalsTyped
  BY DEF Init, LocalsTyped, Ended
<1>4. ASSUME NEW w \in Workers PROVE WorkerOK(w)
  <2>1. ~Active(w) /\ pc[w] \notin Removal \cup {"owner"} /\ pc[w] \notin Granting \cup {"find"}
    BY DEF Init, Active, Steps, CleanUp, Removal, Granting
  <2>2. QED
    BY <2>1, NoRequestAssumption, MaxMinutesAssumption DEF Init, WorkerOK
<1>5. QED
  BY <1>1, <1>2, <1>3, <1>4 DEF Init, IInv

LEMMA StutterStep == ASSUME IInv, UNCHANGED vars PROVE IInv'
BY DEF IInv, LocalsTyped, WorkerOK, AccessWithinLimit, Exists, Active, vars, locals

LEMMA StepKeeps == IInv /\ [Next]_vars => IInv'
<1> SUFFICES ASSUME IInv, [Next]_vars PROVE IInv'
  OBVIOUS
<1>1. ASSUME NEW w \in Workers, CleanUpStep(w) PROVE IInv'
  BY <1>1, CleanUpSteps, RemovalSteps, FailStep DEF CleanUpStep
<1>2. ASSUME NEW h \in Handlers, GrantStep(h) PROVE IInv'
  BY <1>2, StartSteps, FindStep, ReadTagStep, GrantSteps DEF GrantStep
<1>3. CASE SweepStart
  BY <1>3, SweepStep
<1>4. CASE ScanFails
  BY <1>4, CleanUpSteps DEF Workers
<1>5. CASE Tick
  BY <1>5, TickStep
<1>6. CASE UNCHANGED vars
  BY <1>6, StutterStep
<1>7. QED
  BY <1>1, <1>2, <1>3, <1>4, <1>5, <1>6 DEF Next

LEMMA Invariant == Spec => []IInv
BY InitInv, StepKeeps, PTL DEF Spec

\* Every variable keeps its type, and what a worker keeps agrees with its step.
THEOREM TypeCorrect == Spec => []TypeOK
<1>1. IInv => TypeOK
  BY DEF IInv, LocalsTyped, WorkerOK, TypeOK, Workers
<1>2. QED
  BY <1>1, Invariant, PTL

\* No policy expires later than the longest access counted from now, whoever
\* renews, creates, tags or removes policies at the same time, and whoever dies.
THEOREM LimitHolds == Spec => []AccessWithinLimit
<1>1. IInv => AccessWithinLimit
  BY DEF IInv
<1>2. QED
  BY <1>1, Invariant, PTL

-------------------------------------------------------------------------------
\* What invocations that nobody disturbed rely on.  Whoever is alone meets no
\* other worker, and workers that do not meet may not change the same policies.
Apart(v, w) == Reach(v, req[v]) \cap Reach(w, req[w]) = {}

Separate ==
    /\ \A w \in Workers : alone[w] => Active(w)
    /\ \A w \in Workers : \A v \in Workers \ {w} : alone[w] /\ Active(v) => Apart(v, w)

\* A removal is aimed at a policy in reach: a listed one, or a revoke's own.
Aimed(w) ==
    /\ pc[w] \in Removal => target[w] \in Reach(w, req[w])
    /\ pc[w] = "owner" => todo[w] # {}
    /\ pc[w] \in Removal /\ todo[w] = {} =>
        w \in Handlers /\ req[w].revoke /\ target[w] = req[w].pair
    /\ pc[w] \in Granting => w \in Handlers /\ ~req[w].revoke

\* What a worker that is alone has read is still so: what it removes has expired,
\* what it creates or attaches is its own grant, and what it tags ends no later.
View(w) ==
    LET own == req[w].pair IN
    /\ pc[w] \in Removal \cup {"owner"} /\ todo[w] # {} /\ target[w] \in Reach(w, req[w])
            /\ Exists(target[w])
        => policies[target[w]].expires <= now[w]
    /\ pc[w] \in {"create", "find again"} /\ Exists(own) =>
        policies[own] = [expires |-> until[w], attached |-> FALSE]
    /\ pc[w] = "tag" /\ Exists(own) => policies[own].expires <= until[w]
    /\ pc[w] = "attach" /\ Exists(own) => policies[own].expires = until[w]

ViewInv == Separate /\ \A w \in Workers : Aimed(w) /\ (alone[w] => View(w))

\* The steps of a worker, and those that start its work.
StepOf(w) ==
    \/ CleanUpStep(w)
    \/ w \in Handlers /\ GrantStep(w)
    \/ w = Timer /\ (SweepStart \/ ScanFails)

Begins(w) == \E r \in Request \cup {NoRequest} : Begin(w, r)

\* A step that starts no work disturbs nobody.
Quiet(w) ==
    /\ clock' = clock
    /\ \A v \in Workers \ {w} :
            /\ pc'[v] = pc[v] /\ req'[v] = req[v] /\ now'[v] = now[v] /\ todo'[v] = todo[v]
            /\ target'[v] = target[v] /\ until'[v] = until[v] /\ alone'[v] = alone[v]
    /\ \/ ~Active(w)' /\ ~alone'[w]
       \/ /\ Active(w) /\ Active(w)'
          /\ req'[w] = req[w] /\ now'[w] = now[w] /\ alone'[w] = alone[w]

LEMMA EndQuiet ==
    ASSUME IInv, NEW w \in Workers, NEW outcome \in Ended, End(w, outcome), clock' = clock
    PROVE  Quiet(w)
BY DEF End, Go, Quiet, Active, IInv, LocalsTyped, Ended, Steps, CleanUp, Removal, Granting

LEMMA GoQuiet ==
    ASSUME IInv, NEW w \in Workers, Active(w), NEW step \in Steps, Go(w, step),
           UNCHANGED <<clock, req, now, alone>>,
           \A v \in Workers \ {w} :
                todo'[v] = todo[v] /\ target'[v] = target[v] /\ until'[v] = until[v]
    PROVE  Quiet(w)
BY DEF Go, Quiet, Active, IInv, LocalsTyped

LEMMA CleanUpNextQuiet ==
    ASSUME IInv, NEW w \in Workers, Active(w), NEW rest, CleanUpNext(w, rest), clock' = clock
    PROVE  Quiet(w)
<1>1. CASE End(w, "idle")
  BY <1>1, EndQuiet DEF Ended
<1>2. CASE /\ Go(w, IF rest = {} THEN "find" ELSE "scan")
           /\ todo' = [todo EXCEPT ![w] = rest]
           /\ target' = [target EXCEPT ![w] = NoPair]
           /\ UNCHANGED <<req, now, until, alone>>
  <2>1. \A v \in Workers \ {w} :
            todo'[v] = todo[v] /\ target'[v] = target[v] /\ until'[v] = until[v]
    BY <1>2 DEF IInv, LocalsTyped
  <2>2. QED
    BY <1>2, <2>1, GoQuiet DEF Steps, CleanUp
<1>3. QED
  BY <1>1, <1>2 DEF CleanUpNext

LEMMA NotRemovedQuiet ==
    ASSUME IInv, NEW w \in Workers, Active(w), NotRemoved(w) \/ Removed(w), clock' = clock
    PROVE  Quiet(w)
BY CleanUpNextQuiet, EndQuiet DEF NotRemoved, Removed, Ended

LEMMA StepQuiet ==
    ASSUME IInv, Separate, NEW w \in Workers, StepOf(w)
    PROVE  Begins(w) \/ Quiet(w)
<1>1. ASSUME NEW step \in Steps, Go(w, step), UNCHANGED <<clock, locals>>, Active(w)
      PROVE  Quiet(w)
  BY <1>1, GoQuiet DEF locals
<1>2. ASSUME NEW outcome \in Ended, End(w, outcome), clock' = clock PROVE Quiet(w)
  BY <1>2, EndQuiet
<1>3. CASE List(w) \/ (w = Timer /\ ScanFails)
  BY <1>3, CleanUpNextQuiet DEF List, ScanFails, Active, Steps, CleanUp
<1>4. CASE Scan(w)
  <2>1. Active(w) /\ clock' = clock
    BY <1>4 DEF Scan, Active, Steps, CleanUp
  <2>2. PICK k \in todo[w] :
          \/ CleanUpNext(w, todo[w] \ {k})
          \/ End(w, "idle")
          \/ /\ Go(w, IF w = Timer \/ k[1] = req[w].pair[1] THEN "entities" ELSE "owner")
             /\ target' = [target EXCEPT ![w] = k]
             /\ UNCHANGED <<req, now, todo, until, alone>>
    BY <1>4 DEF Scan
  <2>3. CASE /\ Go(w, IF w = Timer \/ k[1] = req[w].pair[1] THEN "entities" ELSE "owner")
             /\ target' = [target EXCEPT ![w] = k]
             /\ UNCHANGED <<req, now, todo, until, alone>>
    <3>1. \A v \in Workers \ {w} :
              todo'[v] = todo[v] /\ target'[v] = target[v] /\ until'[v] = until[v]
      BY <2>3 DEF IInv, LocalsTyped
    <3>2. QED
      BY <2>1, <2>3, <3>1, GoQuiet DEF Steps, CleanUp, Removal
  <2>4. QED
    BY <1>2, <2>1, <2>2, <2>3, CleanUpNextQuiet DEF Ended
<1>5. CASE Owner(w)
  BY <1>1, <1>2, <1>5, CleanUpNextQuiet DEF Owner, Active, Steps, CleanUp, Removal, Ended
<1>6. CASE ListEntities(w) \/ Detach(w) \/ DeletePolicy(w) \/ RemovalFails(w)
  <2>1. Active(w) /\ clock' = clock
    BY <1>6 DEF ListEntities, Detach, DeletePolicy, RemovalFails, Active, Steps, Removal
  <2>2. QED
    BY <1>1, <1>6, <2>1, NotRemovedQuiet
    DEF ListEntities, Detach, DeletePolicy, RemovalFails, Steps, Removal
<1>7. CASE Fail(w)
  BY <1>2, <1>7 DEF Fail, Ended
<1>8. CASE w \in Handlers /\ Start(w)
  <2>1. Begins(w) \/ \E outcome \in {"planned", "refused"} :
            Go(w, outcome) /\ UNCHANGED <<clock, policies, locals>> /\ pc[w] \in Ended
    BY <1>8 DEF Start, Begins
  <2>2. ASSUME NEW outcome \in {"planned", "refused"}, Go(w, outcome),
               UNCHANGED <<clock, locals>>, pc[w] \in Ended
        PROVE  Quiet(w)
    <3>1. ~Active(w) /\ ~Active(w)'
      BY <2>2 DEF Active, Go, Ended, Steps, CleanUp, Removal, Granting, IInv, LocalsTyped
    <3>2. ~alone[w]
      BY <3>1 DEF Separate
    <3>3. QED
      BY <2>2, <3>1, <3>2 DEF Quiet, Go, IInv, LocalsTyped, locals
  <2>3. QED
    BY <2>1, <2>2
<1>9. CASE w \in Handlers /\ (Find(w) \/ ReadTag(w))
  <2>1. Active(w) /\ clock' = clock
    BY <1>9 DEF Find, ReadTag, Active, Steps, Granting
  <2>2. \/ \E outcome \in Ended : End(w, outcome)
        \/ /\ \E step \in Steps : Go(w, step)
           /\ UNCHANGED <<req, now, todo, alone>>
           /\ \/ target' = target /\ \E e : until' = [until EXCEPT ![w] = e]
              \/ until' = until /\ \E k : target' = [target EXCEPT ![w] = k]
    BY <1>9 DEF Find, ReadTag, Ended, Steps, Removal, Granting
  <2>3. CASE /\ \E step \in Steps : Go(w, step)
             /\ UNCHANGED <<req, now, todo, alone>>
             /\ \/ target' = target /\ \E e : until' = [until EXCEPT ![w] = e]
                \/ until' = until /\ \E k : target' = [target EXCEPT ![w] = k]
    <3>1. \A v \in Workers \ {w} :
              todo'[v] = todo[v] /\ target'[v] = target[v] /\ until'[v] = until[v]
      BY <2>3 DEF IInv, LocalsTyped
    <3>2. QED
      BY <2>1, <2>3, <3>1, GoQuiet
  <2>4. QED
    BY <1>2, <2>1, <2>2, <2>3
<1>10. CASE w \in Handlers /\ (CreatePolicy(w) \/ FindAgain(w) \/ TagExpires(w) \/ AttachPolicy(w))
  <2>1. Active(w) /\ clock' = clock
    BY <1>10 DEF CreatePolicy, FindAgain, TagExpires, AttachPolicy, Active, Steps, Granting
  <2>2. QED
    BY <1>1, <1>2, <1>10, <2>1 DEF CreatePolicy, FindAgain, TagExpires, AttachPolicy, Ended,
                                       Steps, Granting
<1>11. CASE w = Timer /\ SweepStart
  BY <1>11 DEF SweepStart, Begins
<1>12. QED
  BY <1>3, <1>4, <1>5, <1>6, <1>7, <1>8, <1>9, <1>10, <1>11
  DEF StepOf, CleanUpStep, GrantStep

LEMMA SeparateStep ==
    ASSUME IInv, Separate, NEW w \in Workers, Begins(w) \/ Quiet(w) PROVE Separate'
<1>1. CASE Quiet(w)
  <2>1. \A v \in Workers : alone'[v] => alone[v] /\ req'[v] = req[v]
    BY <1>1 DEF Quiet, Separate
  <2>2. \A v \in Workers : Active(v)' => Active(v) /\ req'[v] = req[v]
    BY <1>1 DEF Quiet, Active
  <2>3. \A v \in Workers : alone'[v] => Active(v)'
    BY <1>1 DEF Quiet, Separate, Active
  <2>4. QED
    BY <2>1, <2>2, <2>3 DEF Separate, Apart, Reach
<1>2. CASE Begins(w)
  <2>1. PICK r \in Request \cup {NoRequest} : Begin(w, r)
    BY <1>2 DEF Begins
  <2>2. /\ pc'[w] = "list" /\ req'[w] = r
        /\ \A v \in Workers \ {w} : pc'[v] = pc[v] /\ req'[v] = req[v]
        /\ alone'[w] => Meets(w, r) = {}
        /\ \A v \in Workers \ {w} : alone'[v] => alone[v] /\ v \notin Meets(w, r)
    BY <2>1 DEF Begin, Go, IInv, LocalsTyped
  <2>3. \A v \in Workers \ {w} : Active(v)' <=> Active(v)
    BY <2>2 DEF Active
  <2>4. Active(w)'
    BY <2>2 DEF Active, Steps
  <2>5. \A v \in Workers \ {w} : Reach(v, req'[v]) = Reach(v, req[v])
    BY <2>2
  <2>6. ASSUME NEW v \in Workers \ {w}, Active(v), v \notin Meets(w, r)
        PROVE  Reach(v, req[v]) \cap Reach(w, r) = {}
    BY <2>6 DEF Meets
  <2>7. ASSUME NEW u \in Workers, NEW v \in Workers \ {u}, alone'[u], Active(v)'
        PROVE  Reach(v, req'[v]) \cap Reach(u, req'[u]) = {}
    <3>1. CASE u = w
      BY <2>2, <2>3, <2>5, <2>6, <2>7, <3>1
    <3>2. CASE u # w /\ v = w
      BY <2>2, <2>5, <2>6, <2>7, <3>2 DEF Separate
    <3>3. CASE u # w /\ v # w
      BY <2>2, <2>3, <2>5, <2>7, <3>3 DEF Separate, Apart
    <3>4. QED
      BY <3>1, <3>2, <3>3
  <2>8. \A v \in Workers : alone'[v] => Active(v)'
    BY <2>2, <2>3, <2>4 DEF Separate
  <2>9. QED
    BY <2>7, <2>8 DEF Separate, Apart, Reach
<1>3. QED
  BY <1>1, <1>2

\* A worker changes policies in its reach only.
LEMMA OwnReach ==
    ASSUME IInv, NEW w \in Workers, Aimed(w), StepOf(w), NEW k \in Pairs,
           policies'[k] # policies[k]
    PROVE  Active(w) /\ k \in Reach(w, req[w])
<1>1. CASE Detach(w) \/ DeletePolicy(w)
  <2>1. pc[w] \in Removal /\ Active(w)
    BY <1>1 DEF Detach, DeletePolicy, Removal, Active, Steps
  <2>2. k = target[w]
    BY <1>1 DEF Detach, DeletePolicy, IInv
  <2>3. QED
    BY <2>1, <2>2 DEF Aimed
<1>2. CASE w \in Handlers /\ (CreatePolicy(w) \/ TagExpires(w) \/ AttachPolicy(w))
  <2>1. Active(w)
    BY <1>2 DEF CreatePolicy, TagExpires, AttachPolicy, Active, Steps, Granting
  <2>2. k = req[w].pair
    BY <1>2 DEF CreatePolicy, TagExpires, AttachPolicy, IInv
  <2>3. QED
    BY <2>1, <2>2 DEF Reach
<1>3. ASSUME ~(Detach(w) \/ DeletePolicy(w)),
             ~(w \in Handlers /\ (CreatePolicy(w) \/ TagExpires(w) \/ AttachPolicy(w)))
      PROVE  policies' = policies
  <2>1. CASE CleanUpStep(w)
    BY <1>3, <2>1 DEF CleanUpStep, List, Scan, Owner, ListEntities, RemovalFails, Fail
  <2>2. CASE w \in Handlers /\ GrantStep(w)
    BY <1>3, <2>2 DEF GrantStep, Start, Begin, Find, ReadTag, FindAgain
  <2>3. CASE SweepStart \/ ScanFails
    BY <2>3 DEF SweepStart, Begin, ScanFails
  <2>4. QED
    BY <2>1, <2>2, <2>3 DEF StepOf
<1>4. QED
  BY <1>1, <1>2, <1>3

\* A step of somebody else that changes nothing in reach.
LEMMA ViewKept ==
    ASSUME IInv, NEW w \in Workers, Aimed(w), View(w), Active(w),
           pc'[w] = pc[w], req'[w] = req[w], now'[w] = now[w], todo'[w] = todo[w],
           target'[w] = target[w], until'[w] = until[w],
           \A k \in Reach(w, req[w]) : policies'[k] = policies[k]
    PROVE  View(w)'
<1>1. pc[w] \in Granting => req[w].pair \in Reach(w, req[w])
  BY Invoked DEF Aimed, Reach
<1>2. {"create", "find again", "tag", "attach"} \in SUBSET Granting
  BY DEF Granting
<1>3. Reach(w, req'[w]) = Reach(w, req[w])
  OBVIOUS
<1>4. \A k \in Reach(w, req[w]) : Exists(k)' <=> Exists(k)
  BY DEF Exists
<1>5. QED
  BY <1>1, <1>2, <1>3, <1>4 DEF View

LEMMA AimedKept ==
    ASSUME NEW w \in Workers, Aimed(w), pc'[w] = pc[w], req'[w] = req[w],
           todo'[w] = todo[w], target'[w] = target[w]
    PROVE  Aimed(w)'
<1>1. Reach(w, req'[w]) = Reach(w, req[w])
  OBVIOUS
<1>2. QED
  BY <1>1 DEF Aimed

\* A worker that neither removes nor grants relies on nothing.
LEMMA AtRest ==
    ASSUME NEW w \in Workers, pc'[w] \notin Removal \cup {"owner"}, pc'[w] \notin Granting
    PROVE  Aimed(w)' /\ View(w)'
BY DEF Aimed, View, Granting

LEMMA EndAtRest ==
    ASSUME IInv, NEW w \in Workers, NEW outcome \in Ended, End(w, outcome)
    PROVE  Aimed(w)' /\ View(w)'
<1>1. pc'[w] = outcome
  BY DEF End, Go, IInv, LocalsTyped
<1>2. QED
  BY <1>1, AtRest DEF Ended, Removal, Granting

LEMMA CleanUpNextAtRest ==
    ASSUME IInv, NEW w \in Workers, NEW rest, CleanUpNext(w, rest)
    PROVE  Aimed(w)' /\ View(w)'
<1>1. CASE End(w, "idle")
  BY <1>1, EndAtRest DEF Ended
<1>2. CASE Go(w, IF rest = {} THEN "find" ELSE "scan")
  <2>1. pc'[w] \in {"find", "scan"}
    BY <1>2 DEF Go, IInv, LocalsTyped
  <2>2. QED
    BY <2>1, AtRest DEF Removal, Granting
<1>3. QED
  BY <1>1, <1>2 DEF CleanUpNext

LEMMA NotRemovedAtRest ==
    ASSUME IInv, NEW w \in Workers, NotRemoved(w) \/ Removed(w)
    PROVE  Aimed(w)' /\ View(w)'
BY CleanUpNextAtRest, EndAtRest DEF NotRemoved, Removed, Ended

\* What clean-up takes aim at has expired.
LEMMA CleanUpView ==
    ASSUME IInv, NEW w \in Workers, Aimed(w), alone[w] => View(w),
           \/ List(w) \/ Scan(w) \/ Owner(w) \/ ListEntities(w) \/ Detach(w)
           \/ DeletePolicy(w) \/ RemovalFails(w) \/ Fail(w) \/ (w = Timer /\ ScanFails)
    PROVE  Aimed(w)' /\ (alone[w] => View(w)')
<1>1. CASE List(w) \/ (w = Timer /\ ScanFails) \/ RemovalFails(w) \/ Fail(w) \/ DeletePolicy(w)
  BY <1>1, CleanUpNextAtRest, EndAtRest, NotRemovedAtRest
  DEF List, ScanFails, RemovalFails, Fail, DeletePolicy, Ended
<1>2. CASE Scan(w)
  <2>1. PICK k \in todo[w] :
          \/ CleanUpNext(w, todo[w] \ {k})
          \/ End(w, "idle")
          \/ /\ policies[k].expires <= now[w]
             /\ Go(w, IF w = Timer \/ k[1] = req[w].pair[1] THEN "entities" ELSE "owner")
             /\ target' = [target EXCEPT ![w] = k]
             /\ UNCHANGED <<req, now, todo, until, alone>>
    BY <1>2 DEF Scan
  <2>2. CASE /\ policies[k].expires <= now[w]
             /\ Go(w, IF w = Timer \/ k[1] = req[w].pair[1] THEN "entities" ELSE "owner")
             /\ target' = [target EXCEPT ![w] = k]
             /\ UNCHANGED <<req, now, todo, until, alone>>
    <3>1. /\ pc'[w] = IF w = Timer \/ k[1] = req[w].pair[1] THEN "entities" ELSE "owner"
          /\ target'[w] = k /\ req' = req /\ now' = now /\ todo' = todo
          /\ policies' = policies /\ k \in Pairs
      BY <1>2, <2>2 DEF Scan, Go, IInv, LocalsTyped
    <3>2. pc'[w] = "entities" => k \in Reach(w, req[w])
      BY <3>1 DEF Reach
    <3>3. Aimed(w)'
      BY <3>1, <3>2 DEF Aimed, Removal, Granting, Reach
    <3>4. View(w)'
      BY <2>2, <3>1 DEF View
    <3>5. QED
      BY <3>3, <3>4
  <2>3. QED
    BY <2>1, <2>2, CleanUpNextAtRest, EndAtRest DEF Ended
<1>3. CASE Owner(w)
  <2>1. CASE /\ policies[target[w]].attached /\ target[w][2] = req[w].pair[2]
             /\ Go(w, "entities")
             /\ UNCHANGED locals
    <3>1. /\ pc[w] = "owner" /\ pc'[w] = "entities" /\ policies' = policies
          /\ req' = req /\ now' = now /\ todo' = todo /\ target' = target
      BY <1>3, <2>1 DEF Owner, Go, IInv, LocalsTyped, locals
    <3>2. target[w] \in Pairs
      BY <3>1 DEF IInv, LocalsTyped, WorkerOK
    <3>3. target[w] \in Reach(w, req[w]) /\ todo[w] # {}
      BY <2>1, <3>1, <3>2 DEF Reach, Aimed
    <3>4. Aimed(w)'
      BY <3>1, <3>3 DEF Aimed, Removal, Granting, Reach
    <3>5. alone[w] => View(w)'
      BY <3>1, <3>3 DEF View, Exists
    <3>6. QED
      BY <3>4, <3>5
  <2>2. QED
    BY <1>3, <2>1, CleanUpNextAtRest, EndAtRest DEF Owner, Ended
<1>4. CASE ListEntities(w) \/ Detach(w)
  <2>1. CASE NotRemoved(w)
    BY <2>1, NotRemovedAtRest
  <2>2. ASSUME NEW step \in {"detach", "delete"}, Go(w, step), UNCHANGED locals
        PROVE  Aimed(w)' /\ (alone[w] => View(w)')
    <3>1. /\ pc'[w] = step /\ pc[w] \in Removal
          /\ req' = req /\ now' = now /\ todo' = todo /\ target' = target
      BY <1>4, <2>2 DEF ListEntities, Detach, Go, IInv, LocalsTyped, locals, Removal
    <3>2. Aimed(w)'
      BY <3>1 DEF Aimed, Removal, Granting, Reach
    <3>3. Exists(target[w])' =>
              Exists(target[w]) /\ policies'[target[w]].expires = policies[target[w]].expires
      <4>1. CASE policies' = policies
        BY <3>1, <4>1 DEF Exists
      <4>2. CASE /\ Exists(target[w])
                 /\ policies' = [policies EXCEPT ![target[w]].attached = FALSE]
        <5>1. target[w] \in Pairs
          BY <3>1 DEF IInv, LocalsTyped, WorkerOK
        <5>2. policies[target[w]] \in Policy
          BY <4>2, <5>1 DEF IInv, Exists
        <5>3. policies'[target[w]] = [policies[target[w]] EXCEPT !.attached = FALSE]
          BY <4>2, <5>1 DEF IInv
        <5>4. QED
          BY <4>2, <5>2, <5>3 DEF Policy
      <4>3. QED
        BY <1>4, <4>1, <4>2 DEF ListEntities, Detach
    <3>4. Exists(target[w])' <=> policies'[target'[w]] # NoPolicy
      BY <3>1 DEF Exists
    <3>5. ASSUME alone[w] PROVE View(w)'
      BY <3>1, <3>3, <3>4, <3>5 DEF View, Removal, Exists, Reach
    <3>6. QED
      BY <3>2, <3>5
  <2>3. QED
    BY <1>4, <2>1, <2>2 DEF ListEntities, Detach
<1>5. QED
  BY <1>1, <1>2, <1>3, <1>4

\* What an invocation grants is what it computed, or ends no earlier than what
\* it found.
LEMMA GrantView ==
    ASSUME IInv, NEW w \in Handlers, Aimed(w), alone[w] => View(w),
           Find(w) \/ ReadTag(w) \/ CreatePolicy(w) \/ FindAgain(w) \/ TagExpires(w)
               \/ AttachPolicy(w)
    PROVE  Aimed(w)' /\ (alone[w] => View(w)')
<1> DEFINE own == req[w].pair
<1>1. Active(w) /\ w \in Workers
  BY DEF Find, ReadTag, CreatePolicy, FindAgain, TagExpires, AttachPolicy, Active, Steps,
         Granting, Workers
<1>2. own \in Pairs /\ until[w] \in Nat /\ now[w] \in Nat /\ req[w].minutes \in Nat
  BY <1>1, Invoked
<1>3. ASSUME NEW outcome \in Ended, End(w, outcome) PROVE Aimed(w)' /\ View(w)'
  BY <1>1, <1>3, EndAtRest
<1>4. ASSUME NEW step \in Granting, Go(w, step), req' = req, ~req[w].revoke
      PROVE  Aimed(w)' /\ pc'[w] = step
  <2>1. pc'[w] = step
    BY <1>1, <1>4 DEF Go, IInv, LocalsTyped
  <2>2. QED
    BY <1>4, <2>1 DEF Aimed, Granting, Removal
<1>5. CASE Find(w)
  <2>1. CASE /\ req[w].revoke
             /\ Go(w, "entities")
             /\ target' = [target EXCEPT ![w] = own]
             /\ UNCHANGED <<req, now, todo, until, alone>>
    <3>1. pc'[w] = "entities" /\ target'[w] = own /\ req' = req /\ todo' = todo /\ todo[w] = {}
      BY <1>1, <1>5, <2>1 DEF Find, Go, IInv, LocalsTyped, WorkerOK
    <3>2. own \in Reach(w, req[w])
      BY <1>2 DEF Reach
    <3>3. Aimed(w)'
      BY <2>1, <3>1, <3>2 DEF Aimed, Removal, Granting, Reach
    <3>4. View(w)'
      BY <3>1 DEF View
    <3>5. QED
      BY <3>3, <3>4
  <2>2. CASE /\ ~req[w].revoke
             /\ Go(w, IF Exists(own) THEN "read" ELSE "create")
             /\ UNCHANGED <<req, now, todo, target, alone>>
    <3>1. Aimed(w)' /\ pc'[w] = IF Exists(own) THEN "read" ELSE "create"
      BY <1>4, <2>2 DEF Granting
    <3>2. policies' = policies
      BY <1>5 DEF Find
    <3>3. View(w)'
      BY <2>2, <3>1, <3>2 DEF View, Exists, Removal
    <3>4. QED
      BY <3>1, <3>3
  <2>3. QED
    BY <1>3, <1>5, <2>1, <2>2 DEF Find, Ended
<1>6. CASE ReadTag(w)
  <2>1. CASE /\ Exists(own) /\ Go(w, "tag")
             /\ until' = [until EXCEPT ![w] =
                    EffectiveExpires(now[w], req[w].minutes, policies[own].expires)]
             /\ UNCHANGED <<req, now, todo, target, alone>>
    <3>1. ~req[w].revoke
      BY <1>6 DEF ReadTag, Aimed, Granting
    <3>2. Aimed(w)' /\ pc'[w] = "tag" /\ policies' = policies
          /\ until'[w] = EffectiveExpires(now[w], req[w].minutes, policies[own].expires)
      BY <1>1, <1>4, <1>6, <2>1, <3>1 DEF ReadTag, Granting, IInv, LocalsTyped
    <3>3. policies[own].expires \in Nat
      BY <1>2, <2>1 DEF IInv, Exists, Policy
    <3>4. policies[own].expires <= until'[w]
      BY <1>2, <3>2, <3>3 DEF EffectiveExpires
    <3>5. View(w)'
      BY <2>1, <3>2, <3>4 DEF View, Exists, Removal
    <3>6. QED
      BY <3>2, <3>5
  <2>2. QED
    BY <1>3, <1>6, <2>1 DEF ReadTag, Ended
<1>7. CASE CreatePolicy(w)
  <2>1. ~req[w].revoke /\ pc[w] = "create"
    BY <1>7 DEF CreatePolicy, Aimed, Granting
  <2>2. CASE Exists(own) /\ Go(w, "find again") /\ UNCHANGED <<policies, locals>>
    <3>1. Aimed(w)' /\ pc'[w] = "find again"
      BY <1>4, <2>1, <2>2 DEF Granting, locals
    <3>2. alone[w] => View(w)'
      BY <2>1, <2>2, <3>1 DEF View, Exists, Removal, locals
    <3>3. QED
      BY <3>1, <3>2
  <2>3. ASSUME policies' = [policies EXCEPT ![own] = [expires |-> until[w], attached |-> FALSE]],
               NEW step \in {"attach", "create"}, Go(w, step), UNCHANGED locals
        PROVE  Aimed(w)' /\ View(w)'
    <3>1. /\ Aimed(w)' /\ pc'[w] = step /\ req' = req /\ until' = until
      BY <1>4, <2>1, <2>3 DEF Granting, locals
    <3>2. policies'[own] = [expires |-> until[w], attached |-> FALSE]
      BY <1>2, <2>3 DEF IInv
    <3>3. /\ pc'[w] \notin Removal \cup {"owner"} /\ pc'[w] # "tag"
          /\ policies'[req'[w].pair] = [expires |-> until'[w], attached |-> FALSE]
      BY <3>1, <3>2 DEF Removal
    <3>4. policies'[req'[w].pair].expires = until'[w]
      BY <3>3
    <3>5. View(w)'
      BY <3>3, <3>4, Zenon DEF View
    <3>6. QED
      BY <3>1, <3>5
  <2>4. QED
    BY <1>3, <1>7, <2>2, <2>3 DEF CreatePolicy, Ended
<1>8. CASE FindAgain(w)
  <2>1. ~req[w].revoke /\ pc[w] = "find again"
    BY <1>8 DEF FindAgain, Aimed, Granting
  <2>2. CASE Go(w, "tag") /\ UNCHANGED locals
    <3>1. Aimed(w)' /\ pc'[w] = "tag" /\ policies' = policies
      BY <1>4, <1>8, <2>1, <2>2 DEF FindAgain, Granting, locals
    <3>2. req' = req /\ until' = until
      BY <2>2 DEF locals
    <3>3. alone[w] /\ Exists(own) => policies[own].expires <= until[w]
      <4>1. [expires |-> until[w], attached |-> FALSE].expires <= until[w]
        BY <1>2
      <4>2. QED
        BY <2>1, <4>1 DEF View
    <3>4. alone[w] => View(w)'
      BY <3>1, <3>2, <3>3 DEF View, Exists, Removal
    <3>5. QED
      BY <3>1, <3>4
  <2>3. QED
    BY <1>3, <1>8, <2>2 DEF FindAgain, Ended
<1>9. CASE TagExpires(w)
  <2>1. ~req[w].revoke /\ pc[w] = "tag"
    BY <1>9 DEF TagExpires, Aimed, Granting
  <2>2. CASE /\ Exists(own) /\ policies' = [policies EXCEPT ![own].expires = until[w]]
             /\ Go(w, "attach") /\ UNCHANGED locals
    <3>1. Aimed(w)' /\ pc'[w] = "attach" /\ req' = req /\ until' = until
      BY <1>4, <2>1, <2>2 DEF Granting, locals
    <3>2. policies[own] \in Policy
      BY <1>2, <2>2 DEF IInv, Exists
    <3>3. policies'[own] = [policies[own] EXCEPT !.expires = until[w]]
      BY <1>2, <2>2 DEF IInv
    <3>4. policies'[own].expires = until[w]
      BY <3>2, <3>3 DEF Policy
    <3>5. View(w)'
      BY <3>1, <3>4 DEF View, Removal
    <3>6. QED
      BY <3>1, <3>5
  <2>3. QED
    BY <1>3, <1>9, <2>2 DEF TagExpires, Ended
<1>10. CASE AttachPolicy(w)
  BY <1>3, <1>10 DEF AttachPolicy, Ended
<1>11. QED
  BY <1>5, <1>6, <1>7, <1>8, <1>9, <1>10

LEMMA StepView ==
    ASSUME IInv, NEW w \in Workers, Separate, Aimed(w), alone[w] => View(w), StepOf(w)
    PROVE  Aimed(w)' /\ (alone'[w] => View(w)')
<1>1. ASSUME Begins(w) PROVE Aimed(w)' /\ View(w)'
  <2>1. pc'[w] = "list"
    BY <1>1 DEF Begins, Begin, Go, IInv, LocalsTyped
  <2>2. QED
    BY <2>1, AtRest DEF Removal, Granting
<1>2. CASE Quiet(w)
  <2>1. alone'[w] => alone[w]
    BY <1>2 DEF Quiet
  <2>2. CASE w \in Handlers /\ Start(w)
    <3>1. ASSUME NEW outcome \in {"planned", "refused"}, Go(w, outcome)
          PROVE  Aimed(w)' /\ View(w)'
      <4>1. pc'[w] = outcome
        BY <3>1 DEF Go, IInv, LocalsTyped
      <4>2. QED
        BY <4>1, AtRest DEF Removal, Granting
    <3>2. QED
      BY <1>1, <2>2, <3>1 DEF Start, Begins
  <2>3. QED
    BY <1>1, <2>1, <2>2, CleanUpView, GrantView
    DEF StepOf, CleanUpStep, GrantStep, SweepStart, Begins
<1>3. QED
  BY <1>1, <1>2, StepQuiet

LEMMA StepViewInv ==
    ASSUME IInv, ViewInv, NEW w \in Workers, StepOf(w) PROVE ViewInv'
<1>1. Separate /\ Aimed(w) /\ (alone[w] => View(w)) /\ (Begins(w) \/ Quiet(w))
  BY StepQuiet DEF ViewInv
<1>2. Separate'
  BY <1>1, SeparateStep
<1>3. ASSUME NEW v \in Workers \ {w} PROVE Aimed(v)' /\ (alone'[v] => View(v)')
  <2>1. /\ pc'[v] = pc[v] /\ req'[v] = req[v] /\ now'[v] = now[v] /\ todo'[v] = todo[v]
        /\ target'[v] = target[v] /\ until'[v] = until[v] /\ (alone'[v] => alone[v])
    BY <1>1 DEF Quiet, Begins, Begin, Go, IInv, LocalsTyped
  <2>2. Aimed(v) /\ (alone[v] => View(v))
    BY DEF ViewInv
  <2>3. ASSUME alone'[v], NEW k \in Reach(v, req[v]) PROVE policies'[k] = policies[k]
    <3>1. Active(w) => Apart(w, v)
      BY <1>1, <2>1, <2>3 DEF Separate
    <3>2. k \in Pairs
      BY DEF Reach
    <3>3. QED
      BY <1>1, <3>1, <3>2, OwnReach DEF Apart
  <2>4. alone'[v] => Active(v)
    BY <1>1, <2>1 DEF Separate
  <2>5. QED
    BY <2>1, <2>2, <2>3, <2>4, ViewKept, AimedKept
<1>4. Aimed(w)' /\ (alone'[w] => View(w)')
  BY <1>1, StepView
<1>5. QED
  BY <1>2, <1>3, <1>4 DEF ViewInv

LEMMA ViewInvHolds == Spec => []ViewInv
<1>1. Init => ViewInv
  BY DEF Init, ViewInv, Separate, Aimed, Removal, Granting
<1>2. IInv /\ ViewInv /\ [Next]_vars => ViewInv'
  <2> SUFFICES ASSUME IInv, ViewInv, [Next]_vars PROVE ViewInv'
    OBVIOUS
  <2>1. CASE Tick \/ UNCHANGED vars
    <3>1. UNCHANGED <<policies, pc, locals>>
      BY <2>1 DEF Tick, vars
    <3>2. Separate'
      BY <3>1 DEF ViewInv, Separate, Apart, Active, Reach, locals
    <3>3. ASSUME NEW w \in Workers PROVE Aimed(w)' /\ (alone'[w] => View(w)')
      <4>1. Aimed(w)'
        BY <3>1, AimedKept DEF ViewInv, locals
      <4>2. alone[w] => Active(w)
        BY DEF ViewInv, Separate
      <4>3. QED
        BY <3>1, <4>1, <4>2, ViewKept DEF ViewInv, locals
    <3>4. QED
      BY <3>2, <3>3 DEF ViewInv
  <2>2. ASSUME Next, ~Tick PROVE \E w \in Workers : StepOf(w)
    BY <2>2 DEF Next, StepOf, Workers
  <2>3. QED
    BY <2>1, <2>2, StepViewInv
<1>3. QED
  BY <1>1, <1>2, Invariant, PTL DEF Spec

-------------------------------------------------------------------------------
\* The abstract table of grants, entry by entry.
Entry(p, k) == [key |-> k, until |-> p[k].expires]

TableOf(p) == {Entry(p, k) : k \in {j \in Pairs : p[j] # NoPolicy /\ p[j].attached}}

Grants(k) == \E h \in Handlers : Active(h) /\ ~req[h].revoke /\ req[h].pair = k
Revokes(k) == \E h \in Handlers : Active(h) /\ req[h].revoke /\ req[h].pair = k

LEMMA TableEntry ==
    ASSUME NEW p, NEW x
    PROVE  x \in TableOf(p) <=>
              \E k \in Pairs : p[k] # NoPolicy /\ p[k].attached /\ x = Entry(p, k)
BY DEF TableOf

\* The table loses what expired, is revoked or renewed, and gets what is granted.
LEMMA WriteTable ==
    ASSUME IInv, IInv', clock' = clock,
           \A k \in Pairs : policies[k] # NoPolicy /\ policies[k].attached =>
               \/ /\ policies'[k] # NoPolicy /\ policies'[k].attached
                  /\ policies'[k].expires >= policies[k].expires
               \/ policies[k].expires <= clock
               \/ Revokes(k),
           \A k \in Pairs : policies'[k] # NoPolicy /\ policies'[k].attached =>
               policies'[k] = policies[k] \/ Grants(k)
    PROVE  TA!Next
<1> DEFINE granting == {req[h].pair : h \in {g \in Handlers : Active(g) /\ ~req[g].revoke}}
           revoking == {req[h].pair : h \in {g \in Handlers : Active(g) /\ req[g].revoke}}
<1>1. ASSUME NEW g \in TableOf(policies)
      PROVE  \/ g \in TableOf(policies')
             \/ g.until <= clock
             \/ g.key \in revoking
             \/ \E n \in TableOf(policies') : n.key = g.key /\ n.until >= g.until
  <2>1. PICK k \in Pairs : policies[k] # NoPolicy /\ policies[k].attached /\ g = Entry(policies, k)
    BY TableEntry
  <2>2. g.key = k /\ g.until = policies[k].expires
    BY <2>1 DEF Entry
  <2>3. CASE /\ policies'[k] # NoPolicy /\ policies'[k].attached
             /\ policies'[k].expires >= policies[k].expires
    <3>1. Entry(policies', k) \in TableOf(policies')
      BY <2>3, TableEntry
    <3>2. Entry(policies', k).key = k /\ Entry(policies', k).until = policies'[k].expires
      BY DEF Entry
    <3>3. QED
      BY <2>2, <2>3, <3>1, <3>2
  <2>4. CASE Revokes(k)
    <3>1. k \in revoking
      BY <2>4 DEF Revokes
    <3>2. QED
      BY <2>2, <3>1
  <2>5. QED
    BY <2>1, <2>2, <2>3, <2>4
<1>2. ASSUME NEW n \in TableOf(policies'), n \notin TableOf(policies)
      PROVE  n \in TA!Grant /\ n.key \in granting /\ n.until <= clock + MaxMinutes
  <2>1. PICK k \in Pairs :
          policies'[k] # NoPolicy /\ policies'[k].attached /\ n = Entry(policies', k)
    BY TableEntry
  <2>2. n.key = k /\ n.until = policies'[k].expires
    BY <2>1 DEF Entry
  <2>3. policies'[k].expires \in Nat /\ policies'[k].expires <= clock + MaxMinutes
    BY <2>1 DEF IInv, AccessWithinLimit, Exists, Policy
  <2>4. Grants(k)
    <3>1. policies'[k] # policies[k]
      <4>1. SUFFICES ASSUME policies'[k] = policies[k] PROVE FALSE
        OBVIOUS
      <4>2. Entry(policies', k) = Entry(policies, k)
        BY <4>1 DEF Entry
      <4>3. QED
        BY <1>2, <2>1, <4>1, <4>2, TableEntry
    <3>2. QED
      BY <2>1, <3>1
  <2>5. k \in granting
    BY <2>4 DEF Grants
  <2>6. n \in TA!Grant
    BY <2>1, <2>3 DEF Entry, TA!Grant
  <2>7. QED
    BY <2>2, <2>3, <2>5, <2>6
<1>3. granting' \in SUBSET Pairs /\ revoking' \in SUBSET Pairs
  <2>1. \A h \in Handlers : Active(h)' => req'[h].pair \in Pairs
    BY RequestFields DEF IInv, WorkerOK, Workers
  <2>2. QED
    BY <2>1
<1>4. TA!Write
  BY <1>1, <1>2, <1>3 DEF TA!Write, TA!MayGo, TA!MayCome, TableOf, Entry, Exists
<1>5. QED
  BY <1>4 DEF TA!Next

\* A step of a worker that is not disturbed is one of the table of grants.
LEMMA StepRefines ==
    ASSUME IInv, IInv', ViewInv, NEW w \in Workers, StepOf(w), Active(w) => alone[w]
    PROVE  TA!Next
<1>1. Aimed(w) /\ (alone[w] => View(w)) /\ clock \in Nat
  BY DEF ViewInv, IInv
<1>2. clock' = clock
  BY StepQuiet DEF ViewInv, Begins, Begin, Quiet
<1>3. CASE policies' = policies
  <2>1. \A k \in Pairs : policies[k] # NoPolicy => policies[k].expires \in Nat
    BY DEF IInv, Policy
  <2>2. QED
    BY <1>2, <1>3, <2>1, WriteTable
<1>4. \A k \in Pairs : policies[k] # NoPolicy =>
          policies[k] \in Policy /\ policies[k].expires \in Nat
  BY DEF IInv, Policy
<1>5. CASE Detach(w) /\ policies' # policies
  <2> DEFINE k == target[w]
  <2>1. /\ pc[w] = "detach" /\ Exists(k) /\ k \in Pairs
        /\ policies' = [policies EXCEPT ![k].attached = FALSE]
    BY <1>5 DEF Detach, Removal, IInv, WorkerOK, LocalsTyped
  <2>2. Active(w) /\ pc[w] \in Removal
    BY <2>1 DEF Active, Steps, Removal
  <2>3. View(w) /\ now[w] \in Nat /\ now[w] <= clock
    BY <1>1, <2>2 DEF IInv, LocalsTyped, WorkerOK
  <2>4. policies[k].expires <= now[w] \/ Revokes(k)
    BY <1>1, <2>1, <2>2, <2>3 DEF View, Aimed, Revokes
  <2>5. policies[k].expires <= clock \/ Revokes(k)
    BY <1>1, <1>4, <2>1, <2>3, <2>4 DEF Exists
  <2>6. policies'[k] = [policies[k] EXCEPT !.attached = FALSE]
        /\ \A j \in Pairs \ {k} : policies'[j] = policies[j]
    BY <2>1 DEF IInv
  <2>7. ~policies'[k].attached
    BY <1>4, <2>1, <2>6 DEF Exists, Policy
  <2>8. ASSUME NEW j \in Pairs, j # k
        PROVE  policies'[j] = policies[j] /\ policies[j] # NoPolicy =>
                    policies'[j].expires >= policies[j].expires
    BY <1>4, <2>6, <2>8
  <2>9. \A j \in Pairs : policies[j] # NoPolicy /\ policies[j].attached =>
            \/ /\ policies'[j] # NoPolicy /\ policies'[j].attached
               /\ policies'[j].expires >= policies[j].expires
            \/ policies[j].expires <= clock
            \/ Revokes(j)
    BY <2>5, <2>6, <2>8
  <2>10. \A j \in Pairs : policies'[j] # NoPolicy /\ policies'[j].attached =>
             policies'[j] = policies[j] \/ Grants(j)
    BY <2>6, <2>7
  <2>11. QED
    BY <1>2, <2>9, <2>10, WriteTable
<1>6. CASE DeletePolicy(w) /\ policies' # policies
  <2>1. /\ ~policies[target[w]].attached
        /\ policies' = [policies EXCEPT ![target[w]] = NoPolicy]
    BY <1>6 DEF DeletePolicy
  <2>2. \A k \in Pairs : policies'[k] = IF k = target[w] THEN NoPolicy ELSE policies[k]
    BY <2>1 DEF IInv
  <2>3. QED
    BY <1>2, <1>4, <2>1, <2>2, WriteTable
<1>7. CASE w \in Handlers /\ CreatePolicy(w) /\ policies' # policies
  <2>1. /\ policies[req[w].pair] = NoPolicy
        /\ policies' = [policies EXCEPT ![req[w].pair] = [expires |-> until[w], attached |-> FALSE]]
    BY <1>7 DEF CreatePolicy, Exists
  <2>2. \A k \in Pairs : policies'[k] = IF k = req[w].pair
                                        THEN [expires |-> until[w], attached |-> FALSE]
                                        ELSE policies[k]
    BY <2>1 DEF IInv
  <2>3. QED
    BY <1>2, <1>4, <2>1, <2>2, WriteTable
<1>8. CASE w \in Handlers /\ (TagExpires(w) \/ AttachPolicy(w)) /\ policies' # policies
  <2> DEFINE k == req[w].pair
  <2>1. Active(w) /\ pc[w] \in Granting /\ Exists(k)
    BY <1>8 DEF TagExpires, AttachPolicy, Active, Steps, Granting
  <2>2. View(w) /\ Grants(k) /\ k \in Pairs /\ until[w] \in Nat
    BY <1>1, <1>8, <2>1, Invoked DEF Aimed, Grants
  <2>3. policies[k] \in Policy
    BY <1>4, <2>1, <2>2 DEF Exists
  <2>4. /\ policies'[k].expires >= policies[k].expires
        /\ policies[k].attached => policies'[k].attached
        /\ policies'[k] \in Policy
        /\ \A j \in Pairs \ {k} : policies'[j] = policies[j]
    <3>1. CASE TagExpires(w)
      <4>1. pc[w] = "tag" /\ policies' = [policies EXCEPT ![k].expires = until[w]]
        BY <1>8, <2>1, <3>1 DEF TagExpires
      <4>2. policies[k].expires <= until[w]
        BY <2>1, <2>2, <4>1 DEF View
      <4>3. /\ policies'[k] = [policies[k] EXCEPT !.expires = until[w]]
            /\ \A j \in Pairs \ {k} : policies'[j] = policies[j]
        BY <2>2, <4>1 DEF IInv
      <4>4. QED
        BY <2>2, <2>3, <4>2, <4>3 DEF Policy
    <3>2. CASE AttachPolicy(w)
      <4>1. policies' = [policies EXCEPT ![k].attached = TRUE]
        BY <1>8, <2>1, <3>2 DEF AttachPolicy
      <4>2. /\ policies'[k] = [policies[k] EXCEPT !.attached = TRUE]
            /\ \A j \in Pairs \ {k} : policies'[j] = policies[j]
        BY <2>2, <4>1 DEF IInv
      <4>3. /\ policies'[k].attached = TRUE /\ policies'[k] \in Policy
            /\ policies'[k].expires = policies[k].expires /\ policies[k].expires \in Nat
        BY <2>3, <4>2 DEF Policy
      <4>4. QED
        BY <4>2, <4>3
    <3>3. QED
      BY <1>8, <3>1, <3>2
  <2>5. policies'[k] # NoPolicy
    BY <2>4, NoPolicyAssumption
  <2>6. QED
    BY <1>2, <1>4, <2>2, <2>4, <2>5, WriteTable
<1>9. \/ policies' = policies
      \/ Detach(w) \/ DeletePolicy(w)
      \/ w \in Handlers /\ (CreatePolicy(w) \/ TagExpires(w) \/ AttachPolicy(w))
  <2>1. CASE CleanUpStep(w)
    BY <2>1 DEF CleanUpStep, List, Scan, Owner, ListEntities, RemovalFails, Fail
  <2>2. CASE w \in Handlers /\ GrantStep(w)
    BY <2>2 DEF GrantStep, Start, Begin, Find, ReadTag, FindAgain
  <2>3. CASE SweepStart \/ ScanFails
    BY <2>3 DEF SweepStart, Begin, ScanFails
  <2>4. QED
    BY <2>1, <2>2, <2>3 DEF StepOf
<1>10. QED
  BY <1>3, <1>5, <1>6, <1>7, <1>8, <1>9

\* As long as nobody who runs was disturbed, every step implements the abstract
\* table of grants, whatever earlier invocations left half done: no removal takes
\* a grant that was renewed since it was listed, and no renewal cuts one short.
THEOREM Refines == Spec => GrantsOnlyExtend
<1>1. IInv /\ IInv' /\ ViewInv /\ [Next]_vars => [Undisturbed => TA!Next]_vars
  <2> SUFFICES ASSUME IInv, IInv', ViewInv, Next, Undisturbed PROVE TA!Next
    OBVIOUS
  <2>1. CASE Tick
    BY <2>1 DEF Tick, locals, TA!Next, TA!Tick, Exists, Active
  <2>2. ASSUME NEW w \in Workers, StepOf(w) PROVE TA!Next
    BY <2>2, StepRefines DEF Undisturbed
  <2>3. QED
    BY <2>1, <2>2 DEF Next, StepOf, Workers
<1>2. QED
  BY <1>1, Invariant, ViewInvHolds, PTL DEF Spec, GrantsOnlyExtend

-------------------------------------------------------------------------------
\* Who answers done, other than an invocation that ended already: a revoke that
\* removed the policy or found none, or a grant that attached its policy.
LEMMA WhoIsDone ==
    ASSUME IInv, Separate, NEW h \in Handlers, StepOf(h), alone[h], pc'[h] = "done",
           Aimed(h), View(h)
    PROVE  IF req[h].revoke
           THEN policies'[req[h].pair] = NoPolicy
           ELSE policies'[req[h].pair] = [expires |-> until[h], attached |-> TRUE]
<1> DEFINE k == req[h].pair
<1>1. Active(h) /\ h \in Workers /\ h # Timer
  BY TimerAssumption DEF Separate, Workers
<1>2. k \in Pairs /\ until[h] \in Nat
  BY <1>1, Invoked
<1>3. ASSUME NEW outcome, End(h, outcome) \/ Go(h, outcome) PROVE outcome = "done"
  BY <1>1, <1>3 DEF End, Go, IInv, LocalsTyped
<1>4. ASSUME NEW rest, CleanUpNext(h, rest) PROVE FALSE
  BY <1>1, <1>3, <1>4 DEF CleanUpNext
<1>5. ~NotRemoved(h)
  BY <1>3, <1>4 DEF NotRemoved
<1>6. CASE DeletePolicy(h)
  <2>1. /\ policies' = [policies EXCEPT ![target[h]] = NoPolicy]
        /\ Removed(h) /\ pc[h] \in Removal
    BY <1>5, <1>6 DEF DeletePolicy, Removal
  <2>2. todo[h] = {}
    BY <1>4, <2>1 DEF Removed
  <2>3. req[h].revoke /\ target[h] = k
    BY <2>1, <2>2 DEF Aimed
  <2>4. policies'[k] = NoPolicy
    BY <1>2, <2>1, <2>3 DEF IInv
  <2>5. QED
    BY <2>3, <2>4
<1>7. CASE Find(h)
  <2>1. req[h].revoke /\ ~Exists(k) /\ policies' = policies
    BY <1>3, <1>7 DEF Find
  <2>2. QED
    BY <2>1 DEF Exists
<1>8. CASE AttachPolicy(h)
  <2>1. pc[h] = "attach" /\ Exists(k) /\ policies' = [policies EXCEPT ![k].attached = TRUE]
    BY <1>3, <1>8 DEF AttachPolicy
  <2>2. policies[k] \in Policy /\ policies[k].expires = until[h]
    BY <1>2, <2>1 DEF IInv, Exists, View
  <2>3. policies'[k] = [policies[k] EXCEPT !.attached = TRUE]
    BY <1>2, <2>1 DEF IInv
  <2>4. policies'[k] = [expires |-> until[h], attached |-> TRUE]
    BY <2>2, <2>3 DEF Policy
  <2>5. ~req[h].revoke
    BY <2>1 DEF Aimed, Granting
  <2>6. QED
    BY <2>4, <2>5
<1>9. ~List(h) /\ ~Scan(h) /\ ~Owner(h) /\ ~ListEntities(h) /\ ~Detach(h)
      /\ ~RemovalFails(h) /\ ~Fail(h)
  BY <1>3, <1>4, <1>5 DEF List, Scan, Owner, ListEntities, Detach, RemovalFails, Fail
<1>10. ~Start(h) /\ ~ReadTag(h) /\ ~CreatePolicy(h) /\ ~FindAgain(h) /\ ~TagExpires(h)
  BY <1>1, <1>3 DEF Start, ReadTag, CreatePolicy, FindAgain, TagExpires, Active, Ended, Steps,
                    CleanUp, Removal, Granting
<1>11. QED
  BY <1>1, <1>6, <1>7, <1>8, <1>9, <1>10 DEF StepOf, CleanUpStep, GrantStep

\* What an invocation answers that nobody disturbed is true: after a revoke the
\* policy is gone, and after a grant it is attached and has the expiry reported.
THEOREM DoneLeavesAccess == Spec => DoneMeansAccess
<1>1. ASSUME IInv, ViewInv, [Next]_vars, NEW h \in Handlers, alone[h], pc'[h] = "done"
      PROVE  IF req[h].revoke
             THEN policies'[req[h].pair] = NoPolicy
             ELSE policies'[req[h].pair] = [expires |-> until[h], attached |-> TRUE]
  <2>1. Active(h) /\ h \in Workers /\ Aimed(h) /\ View(h) /\ Separate
    BY <1>1 DEF ViewInv, Separate, Workers
  <2>2. pc'[h] # pc[h]
    BY <1>1, <2>1 DEF Active, Steps, CleanUp, Removal, Granting
  <2>3. ~Tick /\ ~UNCHANGED vars
    BY <2>2 DEF Tick, vars
  <2>4. ASSUME NEW w \in Workers \ {h}, StepOf(w) PROVE FALSE
    BY <1>1, <2>1, <2>2, <2>4, StepQuiet DEF Quiet, Begins, Begin, Go, IInv, LocalsTyped
  <2>5. StepOf(h)
    BY <1>1, <2>3, <2>4 DEF Next, StepOf, Workers
  <2>6. QED
    BY <1>1, <2>1, <2>5, WhoIsDone
<1>2. IInv /\ ViewInv /\ [Next]_vars =>
        [\A h \in Handlers : alone[h] /\ pc'[h] = "done" =>
            IF req[h].revoke
            THEN policies'[req[h].pair] = NoPolicy
            ELSE policies'[req[h].pair] = [expires |-> until[h], attached |-> TRUE]]_vars
  BY <1>1
<1>3. QED
  BY <1>2, Invariant, ViewInvHolds, PTL DEF Spec, DoneMeansAccess
===============================================================================
