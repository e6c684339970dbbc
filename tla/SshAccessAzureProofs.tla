-------------------------- MODULE SshAccessAzureProofs -------------------------
(***************************************************************************)
(* Proofs about the Azure ssh-access function, for any VMs, principals and *)
(* roles, any number of invocations and the timer's sweep.                 *)
(***************************************************************************)
EXTENDS SshAccessAzure, FiniteSetTheorems, TLAPS

\* The VM, the principal and the role a request is about.
Asks(h) == <<req[h].vm, req[h].principal, req[h].role>>

\* What an invocation keeps agrees with its step: past the decision it passed
\* the guards, a grant is put when nothing is left to remove, and what it found
\* is one grant of what it asks for.  Nothing it knows is later than the limit
\* allows.
HandlerOK(h) ==
    /\ Active(h) => req[h] \in Request
    /\ pc[h] \in Ended \cup {"list"} => todo[h] = {} /\ existing[h] = {}
    /\ pc[h] \in {"remove", "put", "relist"} => allowed[h]
    /\ pc[h] \in {"put", "relist"} => ~req[h].revoke /\ todo[h] = {}
    /\ \A a, b \in existing[h] : a = b
    /\ \A a \in existing[h] : Ours(a) /\ Key(a) = Asks(h) /\ a.expires <= clock + MaxMinutes
    /\ now[h] <= clock
    /\ Active(h) /\ allowed[h] => req[h].revoke \/ req[h].minutes \in 1 .. MaxMinutes

LocalsTyped ==
    /\ pc \in [Handlers -> Ended \cup Steps]
    /\ req \in [Handlers -> Request \cup {NoRequest}]
    /\ now \in [Handlers -> Nat]
    /\ allowed \in [Handlers -> BOOLEAN]
    /\ todo \in [Handlers -> SUBSET Assignment]
    /\ existing \in [Handlers -> SUBSET Assignment]

\* ARM keeps finitely many assignments, one of a key.
StoreOK ==
    /\ store \in SUBSET Assignment
    /\ IsFiniteSet(store)
    /\ \A a, b \in store : Key(a) = Key(b) => a = b
    /\ AccessWithinLimit

SweepTyped ==
    /\ sweeping \in BOOLEAN
    /\ sweepNow \in Nat
    /\ scopesLeft \in Seq(VMs)
    /\ sweepTodo \in Seq(Assignment)
    /\ overlap \in Overlaps

IInv ==
    /\ clock \in Nat
    /\ LocalsTyped
    /\ StoreOK
    /\ SweepTyped
    /\ \A h \in Handlers : HandlerOK(h)

-------------------------------------------------------------------------------
\* A request, in either of its shapes, has the fields the steps use.
LEMMA RequestFields ==
    ASSUME NEW r \in Request
    PROVE  /\ r.vm \in VMs /\ r.principal \in Principals /\ r.role \in Roles
           /\ r.revoke \in BOOLEAN
<1>1. ASSUME NEW revokes \in SUBSET BOOLEAN, NEW lengths,
             r \in [action : Actions, vm : VMs, principal : Principals, role : Roles,
                    revoke : revokes, minutes : lengths]
      PROVE  /\ r.vm \in VMs /\ r.principal \in Principals /\ r.role \in Roles
             /\ r.revoke \in BOOLEAN
  BY <1>1
<1>2. {TRUE} \in SUBSET BOOLEAN /\ {FALSE} \in SUBSET BOOLEAN
  OBVIOUS
<1>3. QED
  BY <1>1, <1>2 DEF Request

\* What a running invocation knows of its request.
LEMMA Invoked ==
    ASSUME IInv, NEW h \in Handlers, Active(h)
    PROVE  /\ req[h].vm \in VMs /\ req[h].principal \in Principals /\ req[h].role \in Roles
           /\ req[h].revoke \in BOOLEAN
           /\ now[h] \in Nat /\ now[h] <= clock /\ clock \in Nat
BY RequestFields DEF IInv, LocalsTyped, HandlerOK

\* The store loses assignments.
LEMMA StoreShrinks ==
    ASSUME StoreOK, store' \in SUBSET store, clock' = clock PROVE StoreOK'
BY FS_Subset DEF StoreOK, AccessWithinLimit

\* The store gets one assignment, of a key it has none of, and may lose others.
LEMMA StoreGrows ==
    ASSUME StoreOK, NEW rest \in SUBSET store, NEW n \in Assignment,
           store' = rest \cup {n}, \A b \in rest : Key(b) # Key(n), clock' = clock,
           Ours(n) => n.expires <= clock + MaxMinutes
    PROVE  StoreOK'
<1>1. IsFiniteSet(rest)
  BY FS_Subset DEF StoreOK
<1>2. IsFiniteSet(store')
  BY <1>1, FS_AddElement
<1>3. \A a, b \in store' : Key(a) = Key(b) => a = b
  BY DEF StoreOK
<1>4. AccessWithinLimit'
  BY DEF StoreOK, AccessWithinLimit
<1>5. QED
  BY <1>2, <1>3, <1>4 DEF StoreOK

\* What a step of invocation h establishes.
OthersStay(h) ==
    \A g \in Handlers \ {h} :
        /\ pc'[g] = pc[g] /\ req'[g] = req[g] /\ now'[g] = now[g]
        /\ allowed'[g] = allowed[g] /\ todo'[g] = todo[g] /\ existing'[g] = existing[g]

Moved(h) == LocalsTyped' /\ HandlerOK(h)' /\ OthersStay(h)

LEMMA HandlerStep ==
    ASSUME IInv, NEW h \in Handlers, Moved(h), StoreOK', UNCHANGED <<clock, sweep>>
    PROVE  IInv'
<1>1. ASSUME NEW g \in Handlers \ {h} PROVE HandlerOK(g)'
  BY DEF IInv, Moved, OthersStay, HandlerOK, Active, Asks
<1>2. SweepTyped'
  BY DEF IInv, SweepTyped, sweep
<1>3. QED
  BY <1>1, <1>2 DEF IInv, Moved

LEMMA EndMoved ==
    ASSUME IInv, NEW h \in Handlers, NEW outcome \in Ended, End(h, outcome), clock' = clock
    PROVE  /\ Moved(h)
           /\ pc'[h] = outcome /\ todo'[h] = {} /\ existing'[h] = {}
<1>1. LocalsTyped' /\ OthersStay(h)
  BY DEF IInv, LocalsTyped, OthersStay, End
<1>2. /\ pc'[h] = outcome /\ now'[h] = 0 /\ allowed'[h] = FALSE
      /\ todo'[h] = {} /\ existing'[h] = {}
  BY DEF IInv, LocalsTyped, End
<1>3. HandlerOK(h)'
  BY <1>2 DEF IInv, HandlerOK, Active, Ended, Steps
<1>4. QED
  BY <1>1, <1>2, <1>3 DEF Moved

\* It goes on with what it knows.
LEMMA RemoveNextMoved ==
    ASSUME IInv, NEW h \in Handlers, Active(h), allowed[h],
           NEW rest \in SUBSET Assignment, NEW found \in SUBSET Assignment,
           \A a, b \in found : a = b,
           \A a \in found : Ours(a) /\ Key(a) = Asks(h) /\ a.expires <= clock + MaxMinutes,
           RemoveNext(h, rest, found), clock' = clock
    PROVE  Moved(h)
<1>1. CASE rest = {} /\ req[h].revoke
  BY <1>1, EndMoved DEF RemoveNext, Ended
<1>2. CASE ~(rest = {} /\ req[h].revoke)
  <2> DEFINE step == IF rest = {} THEN "put" ELSE "remove"
  <2>1. /\ pc' = [pc EXCEPT ![h] = step]
        /\ todo' = [todo EXCEPT ![h] = rest] /\ existing' = [existing EXCEPT ![h] = found]
        /\ UNCHANGED <<req, now, allowed>> /\ step \in {"remove", "put"}
    BY <1>2 DEF RemoveNext
  <2>2. LocalsTyped' /\ OthersStay(h)
    BY <2>1 DEF IInv, LocalsTyped, OthersStay, Steps
  <2>3. /\ pc'[h] = step /\ todo'[h] = rest /\ existing'[h] = found
        /\ req'[h] = req[h] /\ now'[h] = now[h] /\ allowed'[h] = allowed[h]
    BY <2>1 DEF IInv, LocalsTyped
  <2>4. HandlerOK(h)
    BY DEF IInv
  <2>5. HandlerOK(h)'
    BY <1>2, <2>1, <2>3, <2>4 DEF HandlerOK, Active, Ended, Steps, Asks
  <2>6. QED
    BY <2>2, <2>5 DEF Moved
<1>3. QED
  BY <1>1, <1>2

-------------------------------------------------------------------------------
LEMMA StartInv == ASSUME IInv, NEW h \in Handlers, Start(h) PROVE IInv'
<1>1. PICK r \in Asked, fit \in BOOLEAN :
        /\ req' = [req EXCEPT ![h] = r]
        /\ allowed' = [allowed EXCEPT ![h] = Evaluate(r, fit)]
  BY DEF Start
<1>2. r \in Request
  BY AskedAssumption
<1>3. /\ Evaluate(r, fit) \in BOOLEAN
      /\ Evaluate(r, fit) => r.revoke \/ r.minutes \in 1 .. MaxMinutes
  BY DEF Evaluate
<1>4. /\ pc' = [pc EXCEPT ![h] = "list"] /\ now' = [now EXCEPT ![h] = clock]
      /\ pc[h] \in Ended /\ UNCHANGED <<clock, store, todo, existing, sweep>>
  BY DEF Start
<1>5. LocalsTyped' /\ OthersStay(h)
  BY <1>1, <1>2, <1>3, <1>4 DEF IInv, LocalsTyped, OthersStay, Steps
<1>6. /\ pc'[h] = "list" /\ req'[h] = r /\ now'[h] = clock /\ allowed'[h] = Evaluate(r, fit)
      /\ todo'[h] = {} /\ existing'[h] = {}
  BY <1>1, <1>4 DEF IInv, LocalsTyped, HandlerOK
<1>7. HandlerOK(h)'
  BY <1>2, <1>3, <1>4, <1>6 DEF IInv, HandlerOK
<1>8. StoreOK'
  BY <1>4, StoreShrinks DEF IInv
<1>9. QED
  BY <1>4, <1>5, <1>7, <1>8, HandlerStep DEF Moved

\* The unexpired grants of what h asks for: at most one, within the limit.
LEMMA GrantsFound ==
    ASSUME IInv, NEW h \in Handlers, NEW found \in SUBSET store,
           \A a \in found : IsGrant(a, req[h], now[h])
    PROVE  /\ found \in SUBSET Assignment
           /\ \A a, b \in found : a = b
           /\ \A a \in found : Ours(a) /\ Key(a) = Asks(h) /\ a.expires <= clock + MaxMinutes
BY DEF IInv, StoreOK, AccessWithinLimit, IsGrant, Asks

LEMMA ListInv == ASSUME IInv, NEW h \in Handlers, List(h) PROVE IInv'
<1> DEFINE r == req[h]
           list == {a \in store : a.vm = r.vm}
           ours == {a \in list : Ours(a)}
           found == {a \in ours : ~r.revoke /\ IsGrant(a, r, now[h])}
<1>1. pc[h] = "list" /\ UNCHANGED <<clock, store, sweep>> /\ Active(h)
  BY DEF List, Active, Steps
<1>2. StoreOK'
  BY <1>1, StoreShrinks DEF IInv
<1>3. ASSUME NEW outcome \in Ended, End(h, outcome) PROVE IInv'
  BY <1>1, <1>2, <1>3, EndMoved, HandlerStep
<1>4. CASE allowed[h] /\ RemoveNext(h, ToRemove(ours, r, now[h]), found)
  <2>1. ToRemove(ours, r, now[h]) \in SUBSET Assignment
    BY DEF ToRemove, IInv, StoreOK
  <2>2. found \in SUBSET store /\ \A a \in found : IsGrant(a, req[h], now[h])
    OBVIOUS
  <2>3. Moved(h)
    BY <1>1, <1>4, <2>1, <2>2, GrantsFound, RemoveNextMoved
  <2>4. QED
    BY <1>1, <1>2, <2>3, HandlerStep
<1>5. QED
  BY <1>3, <1>4 DEF List, Ended

LEMMA RemoveOneInv == ASSUME IInv, NEW h \in Handlers, RemoveOne(h) PROVE IInv'
<1>1. PICK a \in todo[h] :
        /\ store' \in {store, Without(a)}
        /\ End(h, "failed") \/ RemoveNext(h, todo[h] \ {a}, existing[h])
  BY DEF RemoveOne
<1>2. pc[h] = "remove" /\ UNCHANGED <<clock, sweep>> /\ Active(h)
  BY DEF RemoveOne, Active, Steps
<1>3. StoreOK'
  BY <1>1, <1>2, StoreShrinks DEF IInv, Without
<1>4. CASE End(h, "failed")
  BY <1>2, <1>3, <1>4, EndMoved, HandlerStep DEF Ended
<1>5. CASE RemoveNext(h, todo[h] \ {a}, existing[h])
  <2>1. todo[h] \ {a} \in SUBSET Assignment /\ existing[h] \in SUBSET Assignment /\ HandlerOK(h)
    BY DEF IInv, LocalsTyped
  <2>2. Moved(h)
    BY <1>2, <1>5, <2>1, RemoveNextMoved DEF HandlerOK
  <2>3. QED
    BY <1>2, <1>3, <2>2, HandlerStep
<1>6. QED
  BY <1>1, <1>4, <1>5

\* When the access it grants ends: within the limit, and no earlier than what
\* it asks for or what it found.
LEMMA ExpiresBounds ==
    ASSUME IInv, NEW h \in Handlers, pc[h] = "put"
    PROVE  /\ Expires(h) \in Nat \ {0}
           /\ Expires(h) <= clock + MaxMinutes
           /\ \A a \in existing[h] : a.expires <= Expires(h)
<1> DEFINE asked == now[h] + req[h].minutes
           later == {a \in existing[h] : a.expires > asked}
<1>1. /\ Active(h) /\ HandlerOK(h) /\ existing[h] \in SUBSET Assignment
      /\ \A a \in existing[h] : a.expires \in Nat /\ a.expires <= clock + MaxMinutes
  BY DEF IInv, LocalsTyped, HandlerOK, Active, Steps, Assignment
<1>2. /\ now[h] \in Nat /\ req[h].minutes \in Nat \ {0} /\ clock \in Nat /\ now[h] <= clock
      /\ req[h].minutes <= MaxMinutes
  BY <1>1, Invoked, MaxMinutesAssumption DEF HandlerOK
<1>3. asked \in Nat \ {0} /\ asked <= clock + MaxMinutes
  BY <1>2, MaxMinutesAssumption
<1>4. CASE later = {}
  <2>1. Expires(h) = asked
    BY <1>4 DEF Expires
  <2>2. \A a \in existing[h] : a.expires <= asked
    BY <1>1, <1>3, <1>4
  <2>3. QED
    BY <1>3, <2>1, <2>2
<1>5. CASE later # {}
  <2>1. PICK a \in later : Expires(h) = a.expires
    BY <1>5 DEF Expires
  <2>2. \A b \in existing[h] : b = a
    BY <1>1 DEF HandlerOK
  <2>3. a.expires \in Nat /\ a.expires > asked /\ a.expires <= clock + MaxMinutes
    BY <1>1
  <2>4. QED
    BY <1>3, <2>1, <2>2, <2>3
<1>6. QED
  BY <1>4, <1>5

LEMMA GrantedIsGrant ==
    ASSUME IInv, NEW h \in Handlers, pc[h] = "put", NEW n \in Names
    PROVE  /\ Granted(h, n) \in Assignment /\ Ours(Granted(h, n))
           /\ Key(Granted(h, n)) = Asks(h) /\ Granted(h, n).name = n
           /\ Granted(h, n).expires = Expires(h)
<1>1. Active(h)
  BY DEF Active, Steps
<1>2. QED
  BY <1>1, ExpiresBounds, Invoked DEF Granted, Assignment, Ours, Permanent, Key, Asks

LEMMA PutInv == ASSUME IInv, NEW h \in Handlers, Put(h) PROVE IInv'
<1>1. PICK n \in Names :
        ~Taken(h, n) /\ store' = Without(Granted(h, n)) \cup {Granted(h, n)}
  BY DEF Put
<1>2. pc[h] = "put" /\ UNCHANGED <<clock, sweep>>
  BY DEF Put
<1>3. \A b \in Without(Granted(h, n)) : Key(b) # Key(Granted(h, n))
  BY <1>1, <1>2, GrantedIsGrant DEF Without, Taken
<1>4. StoreOK'
  <2>1. Granted(h, n) \in Assignment /\ Granted(h, n).expires <= clock + MaxMinutes
    BY <1>2, GrantedIsGrant, ExpiresBounds
  <2>2. Without(Granted(h, n)) \in SUBSET store
    BY DEF Without
  <2>3. QED
    BY <1>1, <1>2, <1>3, <2>1, <2>2, StoreGrows DEF IInv
<1>5. Moved(h)
  BY <1>2, EndMoved DEF Put, Ended
<1>6. QED
  BY <1>2, <1>4, <1>5, HandlerStep

LEMMA PutTakenInv == ASSUME IInv, NEW h \in Handlers, PutTaken(h) PROVE IInv'
<1>1. pc[h] = "put" /\ UNCHANGED <<clock, store, sweep>> /\ HandlerOK(h)
  BY DEF PutTaken, IInv
<1>2. StoreOK'
  BY <1>1, StoreShrinks DEF IInv
<1>3. CASE pc' = [pc EXCEPT ![h] = "relist"] /\ UNCHANGED locals
  <2>1. LocalsTyped' /\ OthersStay(h) /\ pc'[h] = "relist"
    BY <1>3 DEF IInv, LocalsTyped, OthersStay, locals, Steps
  <2>2. HandlerOK(h)'
    BY <1>1, <1>3, <2>1 DEF HandlerOK, Active, Steps, Ended, Asks, locals
  <2>3. QED
    BY <1>1, <1>2, <2>1, <2>2, HandlerStep DEF Moved
<1>4. CASE End(h, "failed")
  BY <1>1, <1>2, <1>4, EndMoved, HandlerStep DEF Ended
<1>5. QED
  BY <1>3, <1>4 DEF PutTaken

LEMMA RelistInv == ASSUME IInv, NEW h \in Handlers, Relist(h) PROVE IInv'
<1> DEFINE current == {a \in store : IsGrant(a, req[h], now[h])}
<1>1. pc[h] = "relist" /\ UNCHANGED <<clock, store, sweep>> /\ HandlerOK(h)
  BY DEF Relist, IInv
<1>2. StoreOK'
  BY <1>1, StoreShrinks DEF IInv
<1>3. CASE End(h, "failed")
  BY <1>1, <1>2, <1>3, EndMoved, HandlerStep DEF Ended
<1>4. CASE /\ existing' = [existing EXCEPT ![h] = current]
           /\ pc' = [pc EXCEPT ![h] = "put"]
           /\ UNCHANGED <<req, now, allowed, todo>>
  <2>1. /\ current \in SUBSET Assignment
        /\ \A a, b \in current : a = b
        /\ \A a \in current : Ours(a) /\ Key(a) = Asks(h) /\ a.expires <= clock + MaxMinutes
    <3>1. current \in SUBSET store /\ \A a \in current : IsGrant(a, req[h], now[h])
      OBVIOUS
    <3>2. QED
      BY <3>1, GrantsFound
  <2> HIDE DEF current
  <2>2. LocalsTyped' /\ OthersStay(h) /\ pc'[h] = "put" /\ existing'[h] = current
    BY <1>4, <2>1 DEF IInv, LocalsTyped, OthersStay, Steps
  <2>3. HandlerOK(h)'
    BY <1>1, <1>4, <2>1, <2>2 DEF HandlerOK, Active, Steps, Ended, Asks
  <2>4. QED
    BY <1>1, <1>2, <2>2, <2>3, HandlerStep DEF Moved
<1>5. QED
  BY <1>3, <1>4 DEF Relist

LEMMA FailInv == ASSUME IInv, NEW h \in Handlers, Fail(h) PROVE IInv'
<1>1. UNCHANGED <<clock, store, sweep>> /\ Moved(h)
  BY EndMoved DEF Fail, Ended
<1>2. QED
  BY <1>1, StoreShrinks, HandlerStep DEF IInv

-------------------------------------------------------------------------------
\* What a scope's list adds to the sweep: assignments it found expired.
LEMMA SweepListed ==
    ASSUME IInv, SweepList
    PROVE  /\ sweepTodo' \in Seq(Assignment)
           /\ \A i \in 1 .. Len(sweepTodo') :
                  sweepTodo'[i] \in store /\ ExpiredAt(sweepTodo'[i], sweepNow)
<1> DEFINE S == {a \in store : a.vm = Head(scopesLeft) /\ ExpiredAt(a, sweepNow)}
<1>1. IsFiniteSet(S)
  BY FS_Subset DEF IInv, StoreOK
<1>2. S \in SUBSET Assignment /\ \A a \in S : a \in store /\ ExpiredAt(a, sweepNow)
  BY DEF IInv, StoreOK
<1>3. sweepTodo' \in [1 .. Cardinality(S) -> S]
  BY DEF SweepList, SetToSeqs
<1> HIDE DEF S
<1>4. PICK n \in Nat : sweepTodo' \in [1 .. n -> S]
  BY <1>1, <1>3, FS_CardinalityType
<1>5. sweepTodo' \in Seq(S)
  BY <1>4
<1>6. QED
  BY <1>2, <1>5

\* The sweep and the clock move on while invocations do not.
LEMMA OthersStep ==
    ASSUME IInv, StoreOK', SweepTyped', UNCHANGED <<clock, pc, locals>> PROVE IInv'
<1>1. LocalsTyped'
  BY DEF IInv, LocalsTyped, locals
<1>2. \A h \in Handlers : HandlerOK(h)'
  BY DEF IInv, HandlerOK, Active, Asks, locals
<1>3. QED
  BY <1>1, <1>2 DEF IInv

LEMMA SweepInv == ASSUME IInv, Sweep PROVE IInv'
<1>1. UNCHANGED <<clock, pc, locals>>
  BY DEF Sweep, SweepStart, SweepList, SweepListFails, SweepDelete, SweepDeleteFails,
         SweepEnd, SweepDies
<1>2. StoreOK'
  <2>1. store' \in SUBSET store
    BY DEF Sweep, SweepStart, SweepList, SweepListFails, SweepDelete, SweepDeleteFails,
           SweepEnd, SweepDies, Without
  <2>2. QED
    BY <1>1, <2>1, StoreShrinks DEF IInv
<1>3. SweepTyped'
  <2>1. /\ sweeping \in BOOLEAN /\ sweepNow \in Nat /\ scopesLeft \in Seq(VMs)
        /\ sweepTodo \in Seq(Assignment) /\ overlap \in Overlaps /\ clock \in Nat
    BY DEF IInv, SweepTyped
  <2>2. CASE SweepStart
    BY <2>1, <2>2, ScopesAssumption DEF SweepStart, SweepTyped
  <2>3. CASE SweepList \/ SweepListFails
    <3>1. Tail(scopesLeft) \in Seq(VMs)
      BY <2>1, <2>3 DEF SweepList, SweepListFails
    <3>2. QED
      BY <2>1, <2>3, <3>1, SweepListed DEF SweepList, SweepListFails, SweepTyped
  <2>4. CASE SweepDelete \/ SweepDeleteFails
    <3>1. Tail(sweepTodo) \in Seq(Assignment)
      BY <2>1, <2>4 DEF SweepDelete, SweepDeleteFails
    <3>2. QED
      BY <2>1, <2>4, <3>1 DEF SweepDelete, SweepDeleteFails, SweepTyped
  <2>5. CASE SweepEnd
    BY <2>1, <2>5 DEF SweepEnd, SweepTyped
  <2>6. CASE SweepDies
    <3>1. <<>> \in Seq(VMs) /\ <<>> \in Seq(Assignment)
      OBVIOUS
    <3>2. QED
      BY <2>1, <2>6, <3>1 DEF SweepDies, SweepTyped
  <2>7. QED
    BY <2>2, <2>3, <2>4, <2>5, <2>6 DEF Sweep
<1>4. QED
  BY <1>1, <1>2, <1>3, OthersStep

LEMMA AdminInv == ASSUME IInv, Admin PROVE IInv'
<1>1. UNCHANGED <<clock, pc, locals, sweep>>
  BY DEF Admin
<1>2. ASSUME NEW a \in store, store' = store \ {a} PROVE StoreOK'
  <2>1. store' \in SUBSET store
    BY <1>2
  <2>2. QED
    BY <1>1, <2>1, StoreShrinks DEF IInv
<1>3. ASSUME NEW k \in VMs \X Principals \X Roles, NEW n \in Names,
             \A b \in store : Key(b) # k,
             store' = store \cup {[vm |-> k[1], principal |-> k[2], role |-> k[3],
                                   name |-> n, expires |-> Permanent]}
      PROVE  StoreOK'
  <2> DEFINE a == [vm |-> k[1], principal |-> k[2], role |-> k[3],
                   name |-> n, expires |-> Permanent]
  <2>1. a \in Assignment /\ Key(a) = k /\ ~Ours(a)
    BY DEF Assignment, Key, Ours, Permanent
  <2>2. QED
    BY <1>1, <1>3, <2>1, StoreGrows DEF IInv
<1>4. StoreOK'
  BY <1>2, <1>3 DEF Admin
<1>5. SweepTyped'
  BY <1>1 DEF IInv, SweepTyped, sweep
<1>6. QED
  BY <1>1, <1>4, <1>5, OthersStep

LEMMA TickInv == ASSUME IInv, Tick PROVE IInv'
<1>1. clock \in Nat /\ clock' = clock + 1 /\ UNCHANGED <<store, pc, locals, sweep>>
  BY DEF IInv, Tick
<1>2. \A a \in Assignment : a.expires <= clock + MaxMinutes => a.expires <= clock' + MaxMinutes
  BY <1>1, MaxMinutesAssumption DEF Assignment
<1>3. StoreOK'
  BY <1>1, <1>2 DEF IInv, StoreOK, AccessWithinLimit
<1>4. LocalsTyped' /\ SweepTyped'
  BY <1>1 DEF IInv, LocalsTyped, SweepTyped, locals, sweep
<1>5. ASSUME NEW h \in Handlers PROVE HandlerOK(h)'
  <2>1. HandlerOK(h) /\ now[h] \in Nat /\ existing[h] \in SUBSET Assignment
    BY DEF IInv, LocalsTyped
  <2>2. now[h] <= clock' /\ \A a \in existing[h] : a.expires <= clock' + MaxMinutes
    BY <1>1, <1>2, <2>1 DEF HandlerOK
  <2>3. QED
    BY <1>1, <2>1, <2>2 DEF HandlerOK, Active, Asks, locals
<1>6. QED
  BY <1>1, <1>3, <1>4, <1>5 DEF IInv

-------------------------------------------------------------------------------
LEMMA InitInv == Init => IInv
<1> SUFFICES ASSUME Init PROVE IInv
  OBVIOUS
<1>1. LocalsTyped
  BY DEF Init, LocalsTyped, Ended
<1>2. StoreOK
  BY FS_EmptySet DEF Init, StoreOK, AccessWithinLimit
<1>3. SweepTyped
  <2>1. <<>> \in Seq(VMs) /\ <<>> \in Seq(Assignment)
    OBVIOUS
  <2>2. QED
    BY <2>1 DEF Init, SweepTyped
<1>4. \A h \in Handlers : HandlerOK(h)
  BY DEF Init, HandlerOK, Active, Steps
<1>5. QED
  BY <1>1, <1>2, <1>3, <1>4 DEF Init, IInv

LEMMA StepKeeps == IInv /\ [Next]_vars => IInv'
<1> SUFFICES ASSUME IInv, [Next]_vars PROVE IInv'
  OBVIOUS
<1>1. ASSUME NEW h \in Handlers, Step(h) PROVE IInv'
  BY <1>1, StartInv, ListInv, RemoveOneInv, PutInv, PutTakenInv, RelistInv, FailInv DEF Step
<1>2. CASE UNCHANGED vars
  BY <1>2, StoreShrinks, OthersStep DEF vars, sweep, IInv, SweepTyped
<1>3. QED
  BY <1>1, <1>2, SweepInv, AdminInv, TickInv DEF Next

LEMMA Invariant == Spec => []IInv
BY InitInv, StepKeeps, PTL DEF Spec

\* Every variable keeps its type, ARM never holds two assignments of a VM, a
\* principal and a role, and an invocation never knows of two it could renew.
THEOREM TypeCorrect == Spec => []TypeOK
<1>1. IInv => TypeOK
  BY DEF IInv, LocalsTyped, StoreOK, SweepTyped, HandlerOK, TypeOK
<1>2. QED
  BY <1>1, Invariant, PTL

\* No grant ends later than the longest access counted from now, whoever
\* overlaps with whom: what an invocation found, however old, was within the
\* limit when it found it, and it grants the later of that and what it may ask.
THEOREM LimitHolds == Spec => []AccessWithinLimit
<1>1. IInv => AccessWithinLimit
  BY DEF IInv, StoreOK
<1>2. QED
  BY <1>1, Invariant, PTL

-------------------------------------------------------------------------------
\* What PermanentUntouched takes: a name on anybody's list was one of the
\* function's own assignments, and nobody gives it to another assignment of the
\* same key as long as it is listed.
OnList(a) ==
    \/ \E h \in Handlers : a \in todo[h] \cup existing[h]
    \/ \E i \in 1 .. Len(sweepTodo) : a = sweepTodo[i]

NamesOurs(a) == Ours(a) /\ \A b \in store : Key(b) = Key(a) /\ b.name = a.name => Ours(b)

NamesInv == \A a : OnList(a) => NamesOurs(a)

LEMMA KnownElement ==
    ASSUME NEW a, a \in store \/ OnList(a) PROVE a \in Known(Key(a))
<1> DEFINE handlers == UNION {todo[h] \cup existing[h] : h \in Handlers}
           sweeps == {sweepTodo[i] : i \in 1 .. Len(sweepTodo)}
<1>1. ASSUME NEW h \in Handlers, a \in todo[h] \cup existing[h] PROVE a \in handlers
  BY <1>1
<1>2. ASSUME NEW i \in 1 .. Len(sweepTodo), a = sweepTodo[i] PROVE a \in sweeps
  BY <1>2
<1>3. a \in store \cup handlers \cup sweeps
  BY <1>1, <1>2 DEF OnList
<1> HIDE DEF handlers, sweeps
<1>4. QED
  BY <1>3 DEF Known, handlers, sweeps

\* A step keeps NamesInv if it lists what is in the store and adds assignments
\* of the function's own, or under names nobody knows.
LEMMA NamesStep ==
    ASSUME IInv, NamesInv,
           \A a : OnList(a)' => OnList(a) \/ (a \in store /\ Ours(a)),
           \A b \in store' : b \in store \/ Ours(b) \/ \A a \in Known(Key(b)) : a.name # b.name
    PROVE  NamesInv'
<1> SUFFICES ASSUME NEW a, OnList(a)', NEW b \in store', Key(b) = Key(a), b.name = a.name
             PROVE  Ours(a) /\ Ours(b)
  BY DEF NamesInv, NamesOurs
<1>1. Ours(a)
  BY DEF NamesInv, NamesOurs
<1>2. CASE b \in store
  BY <1>1, <1>2 DEF NamesInv, NamesOurs, IInv, StoreOK
<1>3. CASE \A c \in Known(Key(b)) : c.name # b.name
  BY <1>3, KnownElement
<1>4. QED
  BY <1>1, <1>2, <1>3

\* What each step of an invocation puts on its lists, and takes from the store.
HandlerLists(h) ==
    /\ \A a \in todo'[h] \cup existing'[h] :
            a \in todo[h] \cup existing[h] \/ (a \in store /\ Ours(a))
    /\ \A b \in store' : b \in store \/ Ours(b)
    /\ \A a \in store : ~Ours(a) => a \in store'

LEMMA RemoveNextLists ==
    ASSUME IInv, NEW h \in Handlers, NEW rest, NEW found, RemoveNext(h, rest, found),
           NEW a, a \in todo'[h] \cup existing'[h]
    PROVE  a \in rest \cup found
BY DEF RemoveNext, End, IInv, LocalsTyped

\* Removing what is on a list never removes an assignment of somebody else.
LEMMA WithoutOurs ==
    ASSUME NamesInv, NEW a, OnList(a), NEW b \in store, ~Ours(b)
    PROVE  b \in Without(a)
BY DEF NamesInv, NamesOurs, Without

LEMMA PutKeepsOthers ==
    ASSUME IInv, NamesInv, NEW h \in Handlers, pc[h] = "put", NEW n \in Names, PutName(h, n),
           NEW b \in store, ~Ours(b)
    PROVE  b \in Without(Granted(h, n))
<1>1. SUFFICES ASSUME Key(b) = Asks(h), b.name = n PROVE FALSE
  BY GrantedIsGrant DEF Without
<1>2. CASE existing[h] = {}
  <2>1. \A a \in Known(Key(b)) : a.name # n
    BY <1>1, <1>2 DEF PutName, NewName, Asks
  <2>2. QED
    BY <1>1, <2>1, KnownElement
<1>3. CASE existing[h] # {}
  <2>1. PICK a \in existing[h] : a.name = n
    BY <1>3 DEF PutName
  <2>2. Key(a) = Key(b) /\ OnList(a)
    BY <1>1 DEF IInv, HandlerOK, OnList
  <2>3. QED
    BY <1>1, <2>1, <2>2 DEF NamesInv, NamesOurs
<1>4. QED
  BY <1>2, <1>3

LEMMA StepLists ==
    ASSUME IInv, NamesInv, NEW h \in Handlers, Step(h)
    PROVE  HandlerLists(h) /\ OthersStay(h) /\ UNCHANGED sweep
<1>1. UNCHANGED sweep
  BY DEF Step, Start, List, RemoveOne, Put, PutTaken, Relist, Fail
<1>2. OthersStay(h)
  BY DEF Step, Start, List, RemoveOne, RemoveNext, Put, PutTaken, Relist, Fail, End,
         OthersStay, IInv, LocalsTyped, locals
<1>3. ASSUME NEW outcome, End(h, outcome) PROVE todo'[h] = {} /\ existing'[h] = {}
  BY <1>3 DEF End, IInv, LocalsTyped
<1>4. ASSUME Start(h) PROVE HandlerLists(h)
  BY <1>4 DEF Start, HandlerLists
<1>5. ASSUME List(h) PROVE HandlerLists(h)
  <2> DEFINE ours == {a \in {b \in store : b.vm = req[h].vm} : Ours(a)}
             found == {a \in ours : ~req[h].revoke /\ IsGrant(a, req[h], now[h])}
             rest == ToRemove(ours, req[h], now[h])
  <2>1. store' = store
    BY <1>5 DEF List
  <2>2. \A a \in rest \cup found : a \in store /\ Ours(a)
    BY DEF ToRemove
  <2>3. \/ \E outcome \in Ended : End(h, outcome)
        \/ RemoveNext(h, rest, found)
    BY <1>5 DEF List, Ended
  <2> HIDE DEF rest, found
  <2>4. QED
    BY <1>3, <2>1, <2>2, <2>3, RemoveNextLists DEF HandlerLists
<1>6. ASSUME RemoveOne(h) PROVE HandlerLists(h)
  <2>1. PICK a \in todo[h] :
          /\ store' \in {store, Without(a)}
          /\ End(h, "failed") \/ RemoveNext(h, todo[h] \ {a}, existing[h])
    BY <1>6 DEF RemoveOne
  <2>2. OnList(a)
    BY DEF OnList
  <2>3. \A b \in store' : b \in store
    BY <2>1 DEF Without
  <2>4. QED
    BY <1>3, <2>1, <2>2, <2>3, WithoutOurs, RemoveNextLists DEF HandlerLists
<1>7. ASSUME Put(h) PROVE HandlerLists(h)
  <2>1. PICK n \in Names :
          PutName(h, n) /\ store' = Without(Granted(h, n)) \cup {Granted(h, n)}
    BY <1>7 DEF Put
  <2>2. pc[h] = "put" /\ todo'[h] = {} /\ existing'[h] = {}
    BY <1>3, <1>7 DEF Put
  <2>3. \A b \in store' : b \in store \/ Ours(b)
    BY <2>1, <2>2, GrantedIsGrant DEF Without
  <2>4. QED
    BY <2>1, <2>2, <2>3, PutKeepsOthers DEF HandlerLists
<1>8. ASSUME PutTaken(h) \/ Fail(h) PROVE HandlerLists(h)
  BY <1>3, <1>8 DEF PutTaken, Fail, HandlerLists, locals
<1>9. ASSUME Relist(h) PROVE HandlerLists(h)
  <2> DEFINE current == {a \in store : IsGrant(a, req[h], now[h])}
  <2>1. \A a \in current : a \in store /\ Ours(a)
    BY DEF IsGrant
  <2>2. store' = store
    BY <1>9 DEF Relist
  <2>3. \/ todo'[h] = {} /\ existing'[h] = {}
        \/ todo' = todo /\ existing' = [existing EXCEPT ![h] = current]
    BY <1>3, <1>9 DEF Relist
  <2>4. QED
    BY <2>1, <2>2, <2>3 DEF HandlerLists, IInv, LocalsTyped
<1>10. QED
  BY <1>1, <1>2, <1>4, <1>5, <1>6, <1>7, <1>8, <1>9 DEF Step

LEMMA SweepLists ==
    ASSUME IInv, NamesInv, Sweep
    PROVE  /\ \A i \in 1 .. Len(sweepTodo') :
                  \/ \E j \in 1 .. Len(sweepTodo) : sweepTodo'[i] = sweepTodo[j]
                  \/ sweepTodo'[i] \in store /\ ExpiredAt(sweepTodo'[i], sweepNow)
           /\ store' \in SUBSET store
           /\ \A a \in store : ~Ours(a) => a \in store'
           /\ UNCHANGED <<clock, pc, locals, overlap>>
<1>1. sweepTodo \in Seq(Assignment)
  BY DEF IInv, SweepTyped
<1>2. CASE SweepStart \/ SweepListFails \/ SweepEnd
  BY <1>2 DEF SweepStart, SweepListFails, SweepEnd
<1>3. CASE SweepList
  BY <1>3, SweepListed DEF SweepList
<1>4. CASE SweepDelete \/ SweepDeleteFails
  <2>1. /\ Len(sweepTodo) \in Nat /\ Len(sweepTodo) >= 1
        /\ Head(sweepTodo) = sweepTodo[1]
        /\ Len(Tail(sweepTodo)) = Len(sweepTodo) - 1
        /\ \A i \in 1 .. Len(Tail(sweepTodo)) : Tail(sweepTodo)[i] = sweepTodo[i + 1]
    BY <1>1, <1>4 DEF SweepDelete, SweepDeleteFails
  <2>2. \A i \in 1 .. Len(sweepTodo') :
            \E j \in 1 .. Len(sweepTodo) : sweepTodo'[i] = sweepTodo[j]
    BY <1>4, <2>1 DEF SweepDelete, SweepDeleteFails
  <2>3. OnList(Head(sweepTodo))
    BY <2>1 DEF OnList
  <2>4. store' \in {store, Without(Head(sweepTodo))} /\ UNCHANGED <<clock, pc, locals, overlap>>
    BY <1>4 DEF SweepDelete, SweepDeleteFails
  <2>5. QED
    BY <2>2, <2>3, <2>4, WithoutOurs DEF Without
<1>5. CASE SweepDies
  BY <1>5 DEF SweepDies
<1>6. QED
  BY <1>2, <1>3, <1>4, <1>5 DEF Sweep

LEMMA NamesHold == IInv /\ NamesInv /\ [Next]_vars => NamesInv'
<1> SUFFICES ASSUME IInv, NamesInv, [Next]_vars PROVE NamesInv'
  OBVIOUS
<1>1. ASSUME NEW h \in Handlers, Step(h) PROVE NamesInv'
  <2>1. HandlerLists(h) /\ OthersStay(h) /\ UNCHANGED sweep
    BY <1>1, StepLists
  <2>2. ASSUME NEW a, OnList(a)' PROVE OnList(a) \/ (a \in store /\ Ours(a))
    <3>1. ASSUME NEW g \in Handlers, a \in todo'[g] \cup existing'[g]
          PROVE  OnList(a) \/ (a \in store /\ Ours(a))
      BY <2>1, <3>1 DEF HandlerLists, OthersStay, OnList
    <3>2. ASSUME NEW i \in 1 .. Len(sweepTodo'), a = sweepTodo'[i] PROVE OnList(a)
      BY <2>1, <3>2 DEF sweep, OnList
    <3>3. QED
      BY <2>2, <3>1, <3>2 DEF OnList
  <2>3. QED
    BY <2>1, <2>2, NamesStep DEF HandlerLists
<1>2. CASE Sweep
  <2>1. ASSUME NEW a, OnList(a)' PROVE OnList(a) \/ (a \in store /\ Ours(a))
    <3>1. ASSUME NEW g \in Handlers, a \in todo'[g] \cup existing'[g] PROVE OnList(a)
      BY <1>2, <3>1, SweepLists DEF OnList, locals
    <3>2. ASSUME NEW i \in 1 .. Len(sweepTodo'), a = sweepTodo'[i]
          PROVE  OnList(a) \/ (a \in store /\ Ours(a))
      BY <1>2, <3>2, SweepLists DEF OnList, ExpiredAt
    <3>3. QED
      BY <2>1, <3>1, <3>2 DEF OnList
  <2>2. QED
    BY <1>2, <2>1, SweepLists, NamesStep
<1>3. CASE Admin \/ Tick \/ UNCHANGED vars
  <2>1. \A a : OnList(a)' => OnList(a)
    BY <1>3 DEF Admin, Tick, vars, locals, sweep, OnList
  <2>2. ASSUME NEW b \in store'
        PROVE  b \in store \/ \A a \in Known(Key(b)) : a.name # b.name
    <3>1. CASE b \notin store
      <4>1. PICK k \in VMs \X Principals \X Roles, n \in Names :
              NewName(k, n) /\ b = [vm |-> k[1], principal |-> k[2], role |-> k[3],
                                    name |-> n, expires |-> Permanent]
        BY <1>3, <3>1 DEF Admin, Tick, vars
      <4>2. Key(b) = k /\ b.name = n
        BY <4>1 DEF Key
      <4>3. QED
        BY <4>1, <4>2 DEF NewName
    <3>2. QED
      BY <3>1
  <2>3. QED
    BY <2>1, <2>2, NamesStep
<1>4. QED
  BY <1>1, <1>2, <1>3 DEF Next

LEMMA NamesInvHolds == Spec => []NamesInv
<1>1. Init => NamesInv
  BY DEF Init, NamesInv, OnList
<1>2. QED
  BY <1>1, NamesHold, Invariant, PTL DEF Spec

\* An assignment somebody else made is never removed or turned into a grant by
\* the function, whatever overlaps and however old the list an invocation or the
\* sweep acts on: it deletes and updates by names, and a name it knows is
\* nobody else's as long as it knows it.
THEOREM PermanentKept == Spec => PermanentUntouched
<1>1. ASSUME IInv, NamesInv, [Next]_vars
      PROVE  [\A a \in store : ~Ours(a) /\ a \notin store' =>
                  UNCHANGED <<clock, pc, locals, sweep>>]_vars
  <2> SUFFICES ASSUME NEW a \in store, ~Ours(a), a \notin store'
               PROVE  UNCHANGED <<clock, pc, locals, sweep>>
    OBVIOUS
  <2>1. \A h \in Handlers : ~Step(h)
    BY <1>1, StepLists DEF HandlerLists
  <2>2. ~Sweep
    BY <1>1, SweepLists
  <2>3. QED
    BY <1>1, <2>1, <2>2 DEF Next, Admin, Tick, vars
<1>2. QED
  BY <1>1, Invariant, NamesInvHolds, PTL DEF Spec, PermanentUntouched

-------------------------------------------------------------------------------
\* Where invocations on a VM, and the sweep, do not overlap, a list is not out
\* of date: what is listed under a key is the only assignment of the function's
\* own the store has of it, if any.
Current(a) == \A b \in store : Ours(b) /\ Key(b) = Key(a) => b = a

OneEach ==
    /\ \A g, h \in Handlers : Active(g) /\ Active(h) /\ req[g].vm = req[h].vm => g = h
    /\ sweeping => \A h \in Handlers : ~Active(h)
    /\ sweepTodo # <<>> => sweeping

\* The invocation's view of its VM: what it still removes is expired or revoked,
\* what it found is the grant there is, and a revoke misses nothing.
Mine(h) ==
    /\ \A a \in todo[h] :
        /\ a.vm = req[h].vm
        /\ Current(a)
        /\ ExpiredAt(a, now[h]) \/ (req[h].revoke /\ a.principal = req[h].principal)
    /\ pc[h] \in {"remove", "put", "relist"} /\ ~req[h].revoke =>
        existing[h] = {a \in store : IsGrant(a, req[h], now[h])}
    /\ pc[h] = "remove" /\ req[h].revoke =>
        \A b \in store : Ours(b) /\ b.vm = req[h].vm /\ b.principal = req[h].principal
                            => b \in todo[h]

SweepMine ==
    /\ sweepNow <= clock
    /\ \A i \in 1 .. Len(sweepTodo) : ExpiredAt(sweepTodo[i], sweepNow) /\ Current(sweepTodo[i])

SerialInv == ~overlap => OneEach /\ SweepMine /\ \A h \in Handlers : Mine(h)

\* A step of somebody else that leaves the function's own assignments on the VM.
LEMMA ViewKept ==
    ASSUME NEW h \in Handlers, Mine(h),
           pc'[h] = pc[h], req'[h] = req[h], now'[h] = now[h],
           todo'[h] = todo[h], existing'[h] = existing[h],
           \A a : Ours(a) /\ a.vm = req[h].vm => (a \in store <=> a \in store')
    PROVE  Mine(h)'
<1>1. ASSUME NEW a, a.vm = req[h].vm, Current(a) PROVE Current(a)'
  BY <1>1 DEF Current, Key
<1>2. {a \in store : IsGrant(a, req[h], now[h])} = {a \in store' : IsGrant(a, req[h], now[h])}
  BY DEF IsGrant, Key
<1>3. QED
  BY <1>1, <1>2 DEF Mine

\* Of the function's own assignments, removing what is current removes nothing else.
LEMMA OwnRemoved ==
    ASSUME NEW a, Current(a), NEW b \in store, Ours(b), b \notin Without(a) PROVE b = a
BY DEF Current, Without

\* What the store has of the function's own is current.
LEMMA StoredCurrent ==
    ASSUME StoreOK, NEW a \in store PROVE Current(a)
BY DEF StoreOK, Current

LEMMA CurrentKept ==
    ASSUME NEW a, Current(a), \A b \in store' : Ours(b) => b \in store PROVE Current(a)'
BY DEF Current

\* What is left of the view once the next removal is decided.
LEMMA RemoveNextView ==
    ASSUME IInv, NEW h \in Handlers, Active(h), NEW rest, NEW found,
           RemoveNext(h, rest, found),
           \A a \in rest :
               /\ a.vm = req[h].vm /\ Current(a)'
               /\ ExpiredAt(a, now[h]) \/ (req[h].revoke /\ a.principal = req[h].principal),
           ~req[h].revoke => found = {a \in store' : IsGrant(a, req[h], now[h])},
           req[h].revoke =>
               \A b \in store' : Ours(b) /\ b.vm = req[h].vm /\ b.principal = req[h].principal
                                    => b \in rest
    PROVE  Mine(h)'
<1>1. CASE End(h, "done")
  <2>1. pc'[h] = "done" /\ todo'[h] = {}
    BY <1>1 DEF End, IInv, LocalsTyped
  <2>2. QED
    BY <2>1 DEF Mine
<1>2. CASE /\ todo' = [todo EXCEPT ![h] = rest]
           /\ existing' = [existing EXCEPT ![h] = found]
           /\ pc' = [pc EXCEPT ![h] = IF rest = {} THEN "put" ELSE "remove"]
           /\ UNCHANGED <<req, now, allowed>>
  <2>1. todo'[h] = rest /\ existing'[h] = found /\ req'[h] = req[h] /\ now'[h] = now[h]
    BY <1>2 DEF IInv, LocalsTyped
  <2>2. QED
    BY <2>1 DEF Mine
<1>3. QED
  BY <1>1, <1>2 DEF RemoveNext

\* What an execute decides to remove, and what it found, agrees with the store.
LEMMA ListView ==
    ASSUME IInv, NEW h \in Handlers, List(h) PROVE Mine(h)'
<1> DEFINE ours == {a \in {b \in store : b.vm = req[h].vm} : Ours(a)}
           found == {a \in ours : ~req[h].revoke /\ IsGrant(a, req[h], now[h])}
           rest == ToRemove(ours, req[h], now[h])
<1>1. pc[h] = "list" /\ Active(h) /\ UNCHANGED <<clock, store, sweep>>
  BY DEF List, Active, Steps
<1>2. ASSUME NEW outcome \in Ended, End(h, outcome) PROVE Mine(h)'
  <2>1. pc'[h] = outcome /\ HandlerOK(h)'
    BY <1>1, <1>2, EndMoved DEF Moved
  <2>2. QED
    BY <2>1 DEF HandlerOK, Mine, Ended
<1>3. CASE RemoveNext(h, rest, found)
  <2>1. \A a \in rest : a \in store /\ a.vm = req[h].vm
            /\ (ExpiredAt(a, now[h]) \/ (req[h].revoke /\ a.principal = req[h].principal))
    BY DEF ToRemove
  <2>2. \A a \in rest : Current(a)'
    BY <1>1, <2>1, StoredCurrent, CurrentKept DEF IInv
  <2>3. ~req[h].revoke => found = {a \in store' : IsGrant(a, req[h], now[h])}
    BY <1>1 DEF IsGrant, Key
  <2>4. req[h].revoke =>
            \A b \in store' : Ours(b) /\ b.vm = req[h].vm /\ b.principal = req[h].principal
                                  => b \in rest
    BY <1>1 DEF ToRemove
  <2> HIDE DEF found, rest
  <2>5. QED
    BY <1>1, <1>3, <2>1, <2>2, <2>3, <2>4, RemoveNextView
<1>4. QED
  BY <1>2, <1>3 DEF List, Ended

LEMMA RemoveOneView ==
    ASSUME IInv, NEW h \in Handlers, Mine(h), RemoveOne(h) PROVE Mine(h)'
<1>1. pc[h] = "remove" /\ Active(h) /\ UNCHANGED <<clock, sweep>>
  BY DEF RemoveOne, Active, Steps
<1>2. PICK a \in todo[h] :
        \/ End(h, "failed")
        \/ /\ RemoveNext(h, todo[h] \ {a}, existing[h])
           /\ \/ store' = Without(a)
              \/ /\ store' \in {store, Without(a)}
                 /\ ~(req[h].revoke /\ a.principal = req[h].principal)
  BY DEF RemoveOne
<1>3. CASE End(h, "failed")
  <2>1. pc'[h] = "failed" /\ HandlerOK(h)'
    BY <1>1, <1>3, EndMoved DEF Moved, Ended
  <2>2. QED
    BY <2>1 DEF HandlerOK, Mine, Ended
<1>4. CASE /\ RemoveNext(h, todo[h] \ {a}, existing[h])
           /\ \/ store' = Without(a)
              \/ /\ store' \in {store, Without(a)}
                 /\ ~(req[h].revoke /\ a.principal = req[h].principal)
  <2>1. store' \in SUBSET store
    BY <1>4 DEF Without
  <2>2. \A c \in todo[h] \ {a} :
            /\ c.vm = req[h].vm /\ Current(c)'
            /\ ExpiredAt(c, now[h]) \/ (req[h].revoke /\ c.principal = req[h].principal)
    BY <2>1, CurrentKept DEF Mine
  <2>3. \A b \in store : Ours(b) /\ b \notin store' => b = a
    BY <1>4, OwnRemoved DEF Mine
  <2>4. a \notin store' \/ ~(req[h].revoke /\ a.principal = req[h].principal)
    BY <1>4 DEF Without
  <2>5. ASSUME ~req[h].revoke PROVE existing[h] = {b \in store' : IsGrant(b, req[h], now[h])}
    <3>1. existing[h] = {b \in store : IsGrant(b, req[h], now[h])} /\ ExpiredAt(a, now[h])
      BY <1>1, <2>5 DEF Mine
    <3>2. ~IsGrant(a, req[h], now[h])
      <4>1. a.expires \in Nat /\ now[h] \in Nat
        BY DEF IInv, LocalsTyped, Assignment
      <4>2. QED
        BY <3>1, <4>1 DEF IsGrant, ExpiredAt
    <3>3. QED
      BY <2>1, <2>3, <3>1, <3>2 DEF IsGrant
  <2>6. ASSUME req[h].revoke, NEW b \in store', Ours(b), b.vm = req[h].vm,
               b.principal = req[h].principal
        PROVE  b \in todo[h] \ {a}
    BY <1>1, <2>1, <2>4, <2>6 DEF Mine
  <2>7. QED
    BY <1>1, <1>4, <2>2, <2>5, <2>6, RemoveNextView
<1>5. QED
  BY <1>2, <1>3, <1>4

LEMMA StepView == ASSUME IInv, IInv', NEW h \in Handlers, Mine(h), Step(h) PROVE Mine(h)'
<1>1. ASSUME pc'[h] \in Ended \cup {"list"} PROVE Mine(h)'
  BY <1>1 DEF IInv, HandlerOK, Mine, Ended
<1>2. ASSUME NEW outcome \in Ended, End(h, outcome) PROVE Mine(h)'
  BY <1>1, <1>2 DEF End, IInv, LocalsTyped
<1>3. CASE Start(h)
  BY <1>1, <1>3 DEF Start, IInv, LocalsTyped
<1>4. CASE PutTaken(h)
  <2>1. CASE pc' = [pc EXCEPT ![h] = "relist"] /\ UNCHANGED locals
    <3>1. /\ pc[h] = "put" /\ pc'[h] = "relist" /\ store' = store
          /\ req' = req /\ now' = now /\ todo' = todo /\ existing' = existing
      BY <1>4, <2>1 DEF PutTaken, IInv, LocalsTyped, locals
    <3>2. QED
      BY <3>1 DEF Mine, Current
  <2>2. QED
    BY <1>2, <1>4, <2>1 DEF PutTaken, Ended
<1>5. CASE Relist(h)
  <2> DEFINE current == {a \in store : IsGrant(a, req[h], now[h])}
  <2>1. CASE /\ existing' = [existing EXCEPT ![h] = current]
             /\ pc' = [pc EXCEPT ![h] = "put"]
             /\ UNCHANGED <<req, now, allowed, todo>>
    <3>1. /\ pc'[h] = "put" /\ store' = store /\ existing'[h] = current
          /\ req' = req /\ now' = now /\ todo' = todo
      BY <1>5, <2>1 DEF Relist, IInv, LocalsTyped
    <3>2. QED
      BY <3>1 DEF Mine, Current
  <2>2. QED
    BY <1>2, <1>5, <2>1 DEF Relist, Ended
<1>6. CASE Put(h) \/ Fail(h)
  BY <1>2, <1>6 DEF Put, Fail, Ended
<1>7. QED
  BY <1>3, <1>4, <1>5, <1>6, ListView, RemoveOneView DEF Step

\* What a step of an invocation changes of the function's own assignments: it
\* removes, on its VM, expired or revoked ones and those it renews, and it puts
\* what it asks for.
LEMMA StepOwn ==
    ASSUME IInv, NEW h \in Handlers, Mine(h), Step(h)
    PROVE  /\ \A b \in store : Ours(b) /\ b \notin store' =>
                /\ b.vm = req[h].vm /\ Active(h)
                /\ \/ b.expires <= now[h]
                   \/ req[h].revoke /\ b.principal = req[h].principal
                   \/ \E c \in store' : Ours(c) /\ Key(c) = Key(b) /\ c.expires >= b.expires
           /\ \A b \in store' : b \notin store =>
                /\ pc[h] = "put" /\ b \in Assignment
                /\ Key(b) = Asks(h) /\ b.expires <= clock + MaxMinutes
<1>1. CASE RemoveOne(h)
  <2>1. PICK a \in todo[h] : store' \in {store, Without(a)}
    BY <1>1 DEF RemoveOne
  <2>2. Active(h)
    BY <1>1 DEF RemoveOne, Active, Steps
  <2>3. \A b \in store : Ours(b) /\ b \notin store' => b = a
    BY <2>1, OwnRemoved DEF Mine
  <2>4. \A b \in store' : b \in store
    BY <2>1 DEF Without
  <2>5. QED
    BY <2>2, <2>3, <2>4 DEF Mine, ExpiredAt
<1>2. CASE Put(h)
  <2>1. PICK n \in Names : store' = Without(Granted(h, n)) \cup {Granted(h, n)}
    BY <1>2 DEF Put
  <2>2. pc[h] = "put" /\ Active(h) /\ HandlerOK(h)
    BY <1>2 DEF Put, Active, Steps, IInv
  <2>3. /\ Granted(h, n) \in Assignment /\ Ours(Granted(h, n))
        /\ Key(Granted(h, n)) = Asks(h) /\ Granted(h, n).expires = Expires(h)
        /\ Expires(h) <= clock + MaxMinutes /\ Expires(h) \in Nat
        /\ \A a \in existing[h] : a.expires <= Expires(h)
    BY <2>2, GrantedIsGrant, ExpiresBounds
  <2>4. existing[h] = {a \in store : IsGrant(a, req[h], now[h])}
    BY <2>2 DEF HandlerOK, Mine
  <2>5. ASSUME NEW b \in store, Ours(b), b \notin store', ~(b.expires <= now[h])
        PROVE  b.expires <= Granted(h, n).expires
    <3>1. b.expires \in Nat /\ now[h] \in Nat
      BY DEF IInv, StoreOK, LocalsTyped, Assignment
    <3>2. b \in existing[h]
      BY <2>1, <2>3, <2>4, <2>5, <3>1 DEF Without, IsGrant, Asks
    <3>3. QED
      BY <2>3, <3>2
  <2>6. \A b \in store : b \notin store' => Key(b) = Asks(h)
    BY <2>1, <2>3 DEF Without
  <2>7. ASSUME NEW b \in store, Ours(b), b \notin store'
        PROVE  /\ b.vm = req[h].vm
               /\ \/ b.expires <= now[h]
                  \/ \E c \in store' : Ours(c) /\ Key(c) = Key(b) /\ c.expires >= b.expires
    <3>1. b.expires \in Nat
      BY DEF IInv, StoreOK, Assignment
    <3>2. Granted(h, n) \in store'
      BY <2>1
    <3>3. QED
      BY <2>3, <2>5, <2>6, <2>7, <3>1, <3>2 DEF Key, Asks
  <2>8. \A b \in store' : b \notin store => b = Granted(h, n)
    BY <2>1 DEF Without
  <2>9. QED
    BY <2>2, <2>3, <2>7, <2>8
<1>3. ASSUME ~RemoveOne(h), ~Put(h) PROVE store' = store
  BY <1>3 DEF Step, Start, List, PutTaken, Relist, Fail
<1>4. QED
  BY <1>1, <1>2, <1>3

\* The others keep their view.
LEMMA OthersView ==
    ASSUME IInv', NEW g \in Handlers, Mine(g), pc'[g] = pc[g], req'[g] = req[g],
           now'[g] = now[g], todo'[g] = todo[g], existing'[g] = existing[g],
           pc[g] \in Ended \cup Steps,
           Active(g) =>
               \A a : Ours(a) /\ a.vm = req[g].vm => (a \in store <=> a \in store')
    PROVE  Mine(g)'
<1>1. CASE Active(g)
  BY <1>1, ViewKept
<1>2. CASE ~Active(g)
  BY <1>2 DEF Active, IInv, HandlerOK, Mine, Ended, Steps
<1>3. QED
  BY <1>1, <1>2

LEMMA StepShape ==
    ASSUME IInv, NEW h \in Handlers, Step(h)
    PROVE  \/ Start(h)
           \/ Active(h) /\ (~Active(h)' \/ req'[h] = req[h])
<1>1. ASSUME NEW outcome \in Ended, End(h, outcome) PROVE ~Active(h)'
  BY <1>1 DEF End, Active, IInv, LocalsTyped, Ended, Steps
<1>2. CASE List(h) \/ RemoveOne(h) \/ Relist(h)
  BY <1>1, <1>2 DEF List, RemoveOne, RemoveNext, Relist, Active, Steps, Ended
<1>3. CASE Put(h) \/ PutTaken(h) \/ Fail(h)
  BY <1>1, <1>3 DEF Put, PutTaken, Fail, Active, Steps, Ended, locals
<1>4. QED
  BY <1>2, <1>3 DEF Step

LEMMA StepSerial ==
    ASSUME IInv, IInv', NamesInv, SerialInv, NEW h \in Handlers, Step(h) PROVE SerialInv'
<1> SUFFICES ASSUME ~overlap PROVE OneEach' /\ SweepMine' /\ \A g \in Handlers : Mine(g)'
  BY StepLists DEF SerialInv, sweep
<1>1. OneEach /\ SweepMine /\ (\A g \in Handlers : Mine(g)) /\ OthersStay(h) /\ UNCHANGED sweep
  BY StepLists DEF SerialInv
<1>2. ~sweeping /\ sweepTodo = <<>>
  BY <1>1, StepShape DEF OneEach, Start
<1>3. OneEach'
  <2>1. CASE Start(h)
    <3>1. PICK r \in Asked : /\ \A g \in Handlers : Active(g) => req[g].vm # r.vm
                             /\ req' = [req EXCEPT ![h] = r]
      BY <2>1 DEF Start
    <3>2. req'[h] = r
      BY <3>1 DEF IInv, LocalsTyped
    <3>3. QED
      BY <1>1, <1>2, <3>1, <3>2 DEF OneEach, OthersStay, Active, sweep
  <2>2. CASE Active(h) /\ (~Active(h)' \/ req'[h] = req[h])
    <3>1. \A g \in Handlers : Active(g)' => Active(g) /\ req'[g] = req[g]
      BY <1>1, <2>2 DEF OthersStay, Active
    <3>2. QED
      BY <1>1, <1>2, <3>1 DEF OneEach, sweep
  <2>3. QED
    BY <2>1, <2>2, StepShape
<1>4. SweepMine'
  <2>1. clock' = clock
    BY DEF Step, Start, List, RemoveOne, Put, PutTaken, Relist, Fail
  <2>2. QED
    BY <1>1, <1>2, <2>1 DEF SweepMine, sweep
<1>5. ASSUME NEW g \in Handlers \ {h} PROVE Mine(g)'
  <2>1. Active(g) => \A a : Ours(a) /\ a.vm = req[g].vm => (a \in store <=> a \in store')
    <3>1. ASSUME Active(g), NEW a, Ours(a), a.vm = req[g].vm,
                 (a \in store) # (a \in store')
          PROVE  FALSE
      <4>1. Active(h) /\ a.vm = req[h].vm
        BY <1>1, <3>1, StepOwn DEF Active, Steps, Key, Asks
      <4>2. QED
        BY <1>1, <3>1, <4>1 DEF OneEach
    <3>2. QED
      BY <3>1
  <2>2. pc[g] \in Ended \cup Steps
    BY DEF IInv, LocalsTyped
  <2>3. QED
    BY <1>1, <2>1, <2>2, OthersView DEF OthersStay
<1>6. Mine(h)'
  BY <1>1, StepView
<1>7. QED
  BY <1>3, <1>4, <1>5, <1>6

LEMMA SweepSerial == ASSUME IInv, IInv', NamesInv, SerialInv, Sweep PROVE SerialInv'
<1> SUFFICES ASSUME ~overlap PROVE OneEach' /\ SweepMine' /\ \A g \in Handlers : Mine(g)'
  BY SweepLists DEF SerialInv
<1>1. OneEach /\ SweepMine /\ (\A g \in Handlers : Mine(g))
  BY DEF SerialInv
<1>2. /\ UNCHANGED <<clock, pc, req, now, allowed, todo, existing>>
      /\ store' \in SUBSET store
  BY SweepLists DEF locals
<1>3. \A g \in Handlers : ~Active(g) \/ (store' = store /\ sweepTodo' = <<>>)
  BY <1>1 DEF OneEach, Sweep, SweepStart, SweepList, SweepListFails, SweepDelete,
              SweepDeleteFails, SweepEnd, SweepDies
<1>4. OneEach'
  <2>1. sweeping' => \A g \in Handlers : ~Active(g)
    BY <1>1 DEF OneEach, Sweep, SweepStart, SweepList, SweepListFails, SweepDelete,
                SweepDeleteFails, SweepEnd, SweepDies
  <2>2. sweepTodo' # <<>> => sweeping'
    BY <1>1 DEF OneEach, Sweep, SweepStart, SweepList, SweepListFails, SweepDelete,
                SweepDeleteFails, SweepEnd, SweepDies
  <2>3. QED
    BY <1>1, <1>2, <2>1, <2>2 DEF OneEach, Active
<1>5. SweepMine'
  <2>1. sweepNow' <= clock /\ (sweepNow' = sweepNow \/ sweepTodo' = <<>>)
    BY <1>1 DEF OneEach, SweepMine, IInv, SweepTyped, Sweep, SweepStart, SweepList,
                SweepListFails, SweepDelete, SweepDeleteFails, SweepEnd, SweepDies
  <2>2. ASSUME NEW i \in 1 .. Len(sweepTodo')
        PROVE  ExpiredAt(sweepTodo'[i], sweepNow) /\ Current(sweepTodo'[i])
    BY <1>1, SweepLists, StoredCurrent DEF SweepMine, IInv
  <2>3. QED
    BY <1>2, <2>1, <2>2, CurrentKept DEF SweepMine
<1>6. ASSUME NEW g \in Handlers PROVE Mine(g)'
  <2>1. pc[g] \in Ended \cup Steps
    BY DEF IInv, LocalsTyped
  <2>2. QED
    BY <1>1, <1>2, <1>3, <2>1, OthersView
<1>7. QED
  BY <1>4, <1>5, <1>6

\* Somebody else's assignments, and time, change no view.
LEMMA OthersSerial ==
    ASSUME IInv, IInv', SerialInv, Admin \/ Tick \/ UNCHANGED vars PROVE SerialInv'
<1>1. /\ UNCHANGED <<pc, locals, sweep>>
      /\ \A a : Ours(a) => (a \in store <=> a \in store')
  BY DEF Admin, Tick, vars, Ours
<1>2. clock \in Nat /\ (clock' = clock \/ clock' = clock + 1)
  BY DEF IInv, Admin, Tick, vars
<1> SUFFICES ASSUME ~overlap PROVE OneEach' /\ SweepMine' /\ \A g \in Handlers : Mine(g)'
  BY <1>1 DEF SerialInv, sweep
<1>3. OneEach /\ SweepMine /\ (\A g \in Handlers : Mine(g))
  BY DEF SerialInv
<1>4. OneEach'
  BY <1>1, <1>3 DEF OneEach, Active, locals, sweep
<1>5. SweepMine'
  <2>1. sweepNow <= clock'
    BY <1>2, <1>3 DEF SweepMine, IInv, SweepTyped
  <2>2. QED
    BY <1>1, <1>3, <2>1, CurrentKept DEF SweepMine, sweep
<1>6. ASSUME NEW g \in Handlers PROVE Mine(g)'
  <2>1. pc[g] \in Ended \cup Steps
    BY DEF IInv, LocalsTyped
  <2>2. QED
    BY <1>1, <1>3, <2>1, OthersView DEF locals
<1>7. QED
  BY <1>4, <1>5, <1>6

LEMMA SerialInvHolds == Spec => []SerialInv
<1>1. Init => SerialInv
  BY DEF Init, SerialInv, OneEach, SweepMine, Mine, Active, Steps
<1>2. IInv /\ IInv' /\ NamesInv /\ SerialInv /\ [Next]_vars => SerialInv'
  <2> SUFFICES ASSUME IInv, IInv', NamesInv, SerialInv, [Next]_vars PROVE SerialInv'
    OBVIOUS
  <2>1. ASSUME NEW h \in Handlers, Step(h) PROVE SerialInv'
    BY <2>1, StepSerial
  <2>2. QED
    BY <2>1, SweepSerial, OthersSerial DEF Next
<1>3. QED
  BY <1>1, <1>2, Invariant, NamesInvHolds, PTL DEF Spec

-------------------------------------------------------------------------------
\* The abstract table of grants, entry by entry.
Entry(a) == [key |-> Key(a), until |-> a.expires]

TableOf(assignments, over) == {Entry(a) : a \in {b \in assignments : ~over /\ Ours(b)}}

LEMMA TableEntry ==
    ASSUME NEW assignments, NEW over, NEW x
    PROVE  x \in TableOf(assignments, over) <=>
              \E a \in assignments : ~over /\ Ours(a) /\ x = Entry(a)
BY DEF TableOf

\* The table loses what expired, is revoked or renewed, and gets what is granted.
LEMMA WriteTable ==
    ASSUME UNCHANGED <<clock, overlap>>, store \in SUBSET Assignment,
           store' \in SUBSET Assignment,
           ~overlap =>
             /\ \A b \in store : Ours(b) /\ b \notin store' =>
                    \/ b.expires <= clock
                    \/ Revoking(Key(b))
                    \/ \E c \in store' : Ours(c) /\ Key(c) = Key(b) /\ c.expires >= b.expires
             /\ \A b \in store' : Ours(b) /\ b \notin store =>
                    Granting(Key(b)) /\ b.expires <= clock + MaxMinutes
    PROVE  TA!Next
<1> DEFINE before == TableOf(store, overlap)
           after == TableOf(store', overlap)
<1>1. \A b \in Assignment : Key(b) \in AllKeys /\ b.expires \in Nat
  BY DEF Assignment, Key, AllKeys
<1>2. ASSUME NEW g \in before
      PROVE  \/ g \in after
             \/ g.until <= clock
             \/ g.key \in {k \in AllKeys : Revoking(k)}
             \/ \E n \in after : n.key = g.key /\ n.until >= g.until
  <2>1. PICK a \in store : ~overlap /\ Ours(a) /\ g = Entry(a)
    BY TableEntry
  <2>2. g.key = Key(a) /\ g.until = a.expires
    BY <2>1 DEF Entry
  <2>3. CASE a \in store'
    BY <2>1, <2>3, TableEntry
  <2>4. CASE \E c \in store' : Ours(c) /\ Key(c) = Key(a) /\ c.expires >= a.expires
    <3>1. PICK c \in store' : Ours(c) /\ Key(c) = Key(a) /\ c.expires >= a.expires
      BY <2>4
    <3>2. Entry(c) \in after
      BY <2>1, <3>1, TableEntry
    <3>3. Entry(c).key = Key(c) /\ Entry(c).until = c.expires
      BY DEF Entry
    <3>4. QED
      BY <2>2, <3>1, <3>2, <3>3
  <2>5. QED
    BY <1>1, <2>1, <2>2, <2>3, <2>4
<1>3. ASSUME NEW n \in after, n \notin before
      PROVE  /\ n \in TA!Grant
             /\ n.key \in {k \in AllKeys : Granting(k)}
             /\ n.until <= clock + MaxMinutes
  <2>1. PICK b \in store' : ~overlap /\ Ours(b) /\ n = Entry(b)
    BY TableEntry
  <2>2. b \notin store
    BY <1>3, <2>1, TableEntry
  <2>3. QED
    BY <1>1, <2>1, <2>2 DEF Entry, TA!Grant
<1>4. TableOf(store', overlap') = after
  OBVIOUS
<1>5. TA!Write
  BY <1>2, <1>3, <1>4 DEF TA!Write, TA!MayGo, TA!MayCome, TableOf, Entry
<1>6. QED
  BY <1>5 DEF TA!Next

LEMMA NextRefines ==
    ASSUME IInv, IInv', NamesInv, SerialInv, [Next]_vars
    PROVE  [TA!Next]_(TA!vars)
<1>1. store \in SUBSET Assignment /\ store' \in SUBSET Assignment /\ clock \in Nat
  BY DEF IInv, StoreOK
<1>2. ASSUME NEW h \in Handlers, Step(h) PROVE TA!Next
  <2>1. UNCHANGED <<clock, overlap>>
    <3>1. clock' = clock
      BY <1>2 DEF Step, Start, List, RemoveOne, Put, PutTaken, Relist, Fail
    <3>2. QED
      BY <1>2, <3>1, StepLists DEF sweep
  <2>2. ASSUME ~overlap, NEW b \in store, Ours(b), b \notin store'
        PROVE  \/ b.expires <= clock
               \/ Revoking(Key(b))
               \/ \E c \in store' : Ours(c) /\ Key(c) = Key(b) /\ c.expires >= b.expires
    <3>1. /\ b.vm = req[h].vm /\ Active(h)
          /\ \/ b.expires <= now[h]
             \/ req[h].revoke /\ b.principal = req[h].principal
             \/ \E c \in store' : Ours(c) /\ Key(c) = Key(b) /\ c.expires >= b.expires
      BY <1>2, <2>2, StepOwn DEF SerialInv
    <3>2. CASE b.expires <= now[h]
      <4>1. b.expires \in Nat /\ now[h] \in Nat /\ now[h] <= clock
        BY <1>1, <3>1, Invoked DEF Assignment
      <4>2. QED
        BY <1>1, <3>2, <4>1
    <3>3. CASE req[h].revoke /\ b.principal = req[h].principal
      BY <3>1, <3>3 DEF Revoking, Key
    <3>4. QED
      BY <3>1, <3>2, <3>3
  <2>3. ASSUME ~overlap, NEW b \in store', Ours(b), b \notin store
        PROVE  Granting(Key(b)) /\ b.expires <= clock + MaxMinutes
    <3>1. pc[h] = "put" /\ Key(b) = Asks(h) /\ b.expires <= clock + MaxMinutes
      BY <1>2, <2>3, StepOwn DEF SerialInv
    <3>2. HandlerOK(h) /\ Active(h)
      BY <3>1 DEF IInv, Active, Steps
    <3>3. QED
      BY <3>1, <3>2 DEF Granting, HandlerOK, Asks
  <2>4. QED
    BY <1>1, <2>1, <2>2, <2>3, WriteTable
<1>3. CASE Sweep
  <2>1. UNCHANGED <<clock, overlap>> /\ store' \in SUBSET store
    BY <1>3, SweepLists
  <2>2. ASSUME ~overlap, NEW b \in store, Ours(b), b \notin store' PROVE b.expires <= clock
    <3>1. sweepTodo # <<>> /\ store' = Without(Head(sweepTodo))
      BY <1>3, <2>2 DEF Sweep, SweepStart, SweepList, SweepListFails, SweepDelete,
                        SweepDeleteFails, SweepEnd, SweepDies
    <3>2. Head(sweepTodo) = sweepTodo[1] /\ 1 \in 1 .. Len(sweepTodo)
      BY <3>1 DEF IInv, SweepTyped
    <3>3. b = Head(sweepTodo) /\ ExpiredAt(b, sweepNow) /\ sweepNow <= clock
      BY <2>2, <3>1, <3>2, OwnRemoved DEF SerialInv, SweepMine
    <3>4. b.expires \in Nat /\ sweepNow \in Nat
      BY <1>1 DEF Assignment, IInv, SweepTyped
    <3>5. QED
      BY <1>1, <3>3, <3>4 DEF ExpiredAt
  <2>3. QED
    BY <1>1, <2>1, <2>2, WriteTable
<1>4. CASE Admin
  <2>1. UNCHANGED <<clock, overlap>>
    BY <1>4 DEF Admin, sweep
  <2>2. \A a : Ours(a) => (a \in store <=> a \in store')
    BY <1>4 DEF Admin, Ours
  <2>3. QED
    BY <1>1, <2>1, <2>2, WriteTable
<1>5. CASE Tick
  BY <1>5 DEF Tick, locals, sweep, TA!Next, TA!Tick, Granting, Revoking, Active
<1>6. CASE UNCHANGED vars
  BY <1>6 DEF vars, locals, sweep, TA!vars, Granting, Revoking, Active
<1>7. QED
  BY <1>2, <1>3, <1>4, <1>5, <1>6 DEF Next

\* Where nothing overlaps, the function implements the abstract table of grants:
\* half-done invocations, lost answers and the sweep take no grant that is
\* neither expired, nor revoked, nor renewed, and nothing but a permitted grant
\* ever enters the table.
THEOREM Refines == Spec => GrantsOnlyExtend
<1>1. Init => TA!Init
  BY DEF Init, TA!Init
<1>2. IInv /\ IInv' /\ NamesInv /\ SerialInv /\ [Next]_vars => [TA!Next]_(TA!vars)
  BY NextRefines
<1>3. QED
  BY <1>1, <1>2, Invariant, NamesInvHolds, SerialInvHolds, PTL
  DEF Spec, GrantsOnlyExtend, TA!Spec

\* The table's steps, read back: without overlap, a key of the function's own
\* that loses its assignment had expired, or is being revoked.
LEMMA ExpiredOnlyStep ==
    ASSUME ~overlap, ~overlap', [TA!Next]_(TA!vars),
           NEW a \in store, Ours(a), ~Revoking(Key(a)), \A b \in store' : Key(b) # Key(a)
    PROVE  a.expires <= clock
<1> DEFINE before == TableOf(store, overlap)
           after == TableOf(store', overlap')
<1>1. Entry(a) \in before /\ Entry(a).key = Key(a) /\ Entry(a).until = a.expires
  BY TableEntry DEF Entry
<1>2. \A n \in after : n.key # Key(a)
  BY TableEntry DEF Entry
<1>3. after # before
  BY <1>1, <1>2
<1>4. TA!Write
  BY <1>3 DEF TA!Next, TA!Tick, TA!vars, TableOf, Entry
<1>5. \/ Entry(a) \in after
      \/ Entry(a).until <= clock
      \/ Entry(a).key \in {k \in AllKeys : Revoking(k)}
      \/ \E n \in after : n.key = Entry(a).key /\ n.until >= Entry(a).until
  BY <1>1, <1>4 DEF TA!Write, TA!MayGo, TableOf, Entry
<1>6. QED
  BY <1>1, <1>2, <1>5

\* The comment at main.rs:8-9, which the run AzureStaleSweep refutes, is true
\* wherever no invocation overlaps the sweep or another on the same VM: then
\* only expired assignments are removed, a revoke aside, and nothing else.
THEOREM RemovesExpired == ASSUME TRUE \notin Overlaps PROVE Spec => RemovesExpiredOnly
<1>1. ASSUME IInv, IInv', NamesInv, SerialInv, [Next]_vars
      PROVE  [\A a \in store : Ours(a) /\ ~Revoking(Key(a)) /\ (\A b \in store' : Key(b) # Key(a))
                  => a.expires <= clock]_vars
  <2>1. ~overlap /\ ~overlap'
    BY <1>1, OverlapsAssumption DEF IInv, SweepTyped
  <2>2. [TA!Next]_(TA!vars)
    BY <1>1, NextRefines
  <2>3. QED
    BY <2>1, <2>2, ExpiredOnlyStep
<1>2. QED
  BY <1>1, Invariant, NamesInvHolds, SerialInvHolds, PTL DEF Spec, RemovesExpiredOnly

-------------------------------------------------------------------------------
\* Who answers done: a revoke with nothing left to remove, or a grant it put.
LEMMA WhoIsDone ==
    ASSUME IInv, NEW h \in Handlers, Step(h), Active(h), pc'[h] = "done", Mine(h)
    PROVE  \/ /\ req[h].revoke
              /\ \A b \in store' : Ours(b) => b.vm # req[h].vm \/ b.principal # req[h].principal
           \/ /\ ~req[h].revoke
              /\ \E b \in store' : /\ Ours(b) /\ Key(b) = Asks(h)
                                   /\ b.expires = Expires(h)
<1>1. ASSUME NEW outcome, End(h, outcome) PROVE pc'[h] = outcome
  BY <1>1 DEF End, IInv, LocalsTyped
<1>2. ASSUME NEW rest, NEW found, RemoveNext(h, rest, found) PROVE rest = {} /\ req[h].revoke
  BY <1>2 DEF RemoveNext, IInv, LocalsTyped
<1>3. CASE List(h)
  <2> DEFINE ours == {a \in {b \in store : b.vm = req[h].vm} : Ours(a)}
             found == {a \in ours : ~req[h].revoke /\ IsGrant(a, req[h], now[h])}
             rest == ToRemove(ours, req[h], now[h])
  <2>1. RemoveNext(h, rest, found) /\ store' = store
    BY <1>1, <1>3 DEF List
  <2>2. rest = {} /\ req[h].revoke
    BY <1>2, <2>1
  <2>3. QED
    BY <2>1, <2>2 DEF ToRemove
<1>4. CASE RemoveOne(h)
  <2>1. PICK a \in todo[h] :
          /\ RemoveNext(h, todo[h] \ {a}, existing[h])
          /\ \/ store' = Without(a)
             \/ /\ store' \in {store, Without(a)}
                /\ ~(req[h].revoke /\ a.principal = req[h].principal)
    BY <1>1, <1>4 DEF RemoveOne
  <2>2. todo[h] \ {a} = {} /\ req[h].revoke /\ pc[h] = "remove"
    BY <1>2, <1>4, <2>1 DEF RemoveOne
  <2>3. store' \in SUBSET store /\ (a \notin store' \/ a.principal # req[h].principal)
    BY <2>1, <2>2 DEF Without
  <2>4. \A b \in store : Ours(b) /\ b.vm = req[h].vm /\ b.principal = req[h].principal => b = a
    BY <2>2 DEF Mine
  <2>5. QED
    BY <2>2, <2>3, <2>4
<1>5. CASE Put(h)
  <2>1. PICK n \in Names : store' = Without(Granted(h, n)) \cup {Granted(h, n)}
    BY <1>5 DEF Put
  <2>2. pc[h] = "put" /\ ~req[h].revoke
    BY <1>5 DEF Put, IInv, HandlerOK
  <2>3. QED
    BY <2>1, <2>2, GrantedIsGrant
<1>6. ~Start(h) /\ ~PutTaken(h) /\ ~Relist(h) /\ ~Fail(h)
  BY <1>1 DEF Start, PutTaken, Relist, Fail, Active, Steps, Ended, IInv, LocalsTyped
<1>7. QED
  BY <1>3, <1>4, <1>5, <1>6 DEF Step

\* What an invocation that nothing overlapped answers is true: after a revoke
\* the principal has no grant of the function's on the VM, and after a grant the
\* role until the expiry it reports, whatever earlier invocations left half done.
THEOREM DoneLeavesAccess == Spec => DoneMeansAccess
<1>1. ASSUME IInv, SerialInv, NamesInv, Next, NEW h \in Handlers,
             ~overlap, Active(h), pc'[h] = "done"
      PROVE  LET left == {a \in store' : Ours(a) /\ a.vm = req[h].vm
                                                 /\ a.principal = req[h].principal}
             IN  IF req[h].revoke
                 THEN left = {}
                 ELSE \E a \in left : a.role = req[h].role /\ a.expires = Expires(h)
  <2>1. pc'[h] # pc[h]
    BY <1>1 DEF Active, Steps
  <2>2. ~Sweep /\ ~Admin /\ ~Tick
    BY <1>1, <2>1, SweepLists DEF Admin, Tick
  <2>3. \A g \in Handlers : Step(g) => g = h
    BY <1>1, <2>1, StepLists DEF OthersStay
  <2>4. Step(h)
    BY <1>1, <2>2, <2>3 DEF Next
  <2>5. QED
    BY <1>1, <2>4, WhoIsDone DEF SerialInv, Key, Asks
<1>2. IInv /\ SerialInv /\ NamesInv /\ [Next]_vars =>
        [\A h \in Handlers : ~overlap /\ Active(h) /\ pc'[h] = "done" =>
            LET left == {a \in store' : Ours(a) /\ a.vm = req[h].vm
                                                /\ a.principal = req[h].principal}
            IN  IF req[h].revoke
                THEN left = {}
                ELSE \E a \in left : a.role = req[h].role /\ a.expires = Expires(h)]_vars
  BY <1>1
<1>3. QED
  BY <1>2, Invariant, SerialInvHolds, NamesInvHolds, PTL DEF Spec, DoneMeansAccess
===============================================================================
