-------------------------- MODULE SshAccessGcpProofs ---------------------------
(***************************************************************************)
(* Proofs about the Google Cloud ssh-access function, for any number of    *)
(* invocations, members and bindings.                                      *)
(***************************************************************************)
EXTENDS SshAccessGcp, TLAPS

\* A set of bindings policy p may hold.
FitsPolicy(p, bindings) ==
    /\ bindings \in SUBSET (Binding \cup Others)
    /\ \A b \in bindings : Ours(b) => b.role \in RolesIn(p)

\* What an invocation read fits the policy it read it from.
SeenFits == \A h \in Handlers, p \in Policies : FitsPolicy(p, seen[h][p])

\* An invocation that writes has a policy left to write.
WritesLeft == \A h \in Handlers : pc[h] = "write" => writes[h] # <<>>

TypeInv == TypeOK /\ SeenFits /\ WritesLeft

\* A binding is ours exactly if it has the shape of one.
LEMMA OursIsBinding ==
    ASSUME NEW b \in Binding \cup Others
    PROVE  Ours(b) <=> b \in Binding
BY OthersAssumption DEF Ours

\* Editing a policy for a request yields bindings that fit it.
LEMMA EditFits ==
    ASSUME NEW p \in Policies, NEW bindings, FitsPolicy(p, bindings),
           NEW m \in Members, NEW r \in LoginRoles, NEW e \in Nat, NEW t \in Nat
    PROVE  FitsPolicy(p, Edit(p, bindings, m, r, e, t))
<1>1. Granted(p, m, r, e) \in SUBSET Binding
  BY DEF Granted, Binding, RoleIn, Roles, Policies
<1>2. \A b \in Granted(p, m, r, e) : b.role \in RolesIn(p)
  BY DEF Granted, RoleIn, RolesIn, Policies
<1>3. QED
  BY <1>1, <1>2 DEF FitsPolicy, Edit

\* An invocation that ends forgets everything, so only the policies matter.
LEMMA EndKeepsType ==
    ASSUME TypeInv, NEW h \in Handlers, NEW outcome \in Ended, NEW written,
           End(h, outcome, written), UNCHANGED clock,
           \A p \in Policies : FitsPolicy(p, policy'[p]),
           policy' \in [Policies -> SUBSET (Binding \cup Others)]
    PROVE  TypeInv'
<1> USE DEF TypeInv, TypeOK, End
<1>1. /\ clock' \in Nat
      /\ pc' \in [Handlers -> Ended \cup Steps]
      /\ now' \in [Handlers -> Nat]
      /\ allowed' \in [Handlers -> BOOLEAN]
      /\ until' \in [Handlers -> Nat]
      /\ req' \in [Handlers -> Request \cup {NoRequest}]
      /\ fresh' \in [Handlers -> SUBSET Policies]
  OBVIOUS
<1>2. seen' \in [Handlers -> [Policies -> SUBSET (Binding \cup Others)]]
  OBVIOUS
<1>3. writes' \in [Handlers -> {<<>>, <<"login">>, <<"tunnel">>,
                               <<"login", "tunnel">>, <<"tunnel", "login">>}]
  OBVIOUS
<1>4. \A g \in Handlers : Active(g)' => req'[g] \in Request
  BY DEF Active, Ended, Steps
<1>5. \A p \in Policies : \A b \in policy'[p] : Ours(b) => b.role \in RolesIn(p)
  BY DEF FitsPolicy
<1>6. SeenFits'
  BY DEF SeenFits, FitsPolicy
<1>7. WritesLeft'
  BY DEF WritesLeft, Ended
<1>8. QED
  BY <1>1, <1>2, <1>3, <1>4, <1>5, <1>6, <1>7

\* What the policies hold fits them.
LEMMA PolicyFits ==
    ASSUME TypeInv PROVE \A p \in Policies : FitsPolicy(p, policy[p])
BY DEF TypeInv, TypeOK, FitsPolicy

\* A request has the fields the steps use.
LEMMA RequestFields ==
    ASSUME NEW r \in Request
    PROVE  r.member \in Members /\ r.role \in LoginRoles /\ r.minutes \in Nat \ {0}
<1>1. ASSUME NEW revokes, NEW roles, NEW lengths \in SUBSET (Nat \ {0}),
             r \in [action : Actions, member : Members, revoke : revokes, role : roles, minutes : lengths]
      PROVE  r.member \in Members /\ r.role \in roles /\ r.minutes \in Nat \ {0}
  BY <1>1
<1>2. Durations \in SUBSET (Nat \ {0}) /\ {1} \in SUBSET (Nat \ {0})
  BY DurationsAssumption
<1>3. QED
  BY <1>1, <1>2 DEF Request

\* The ends of the access a grant may take are times.
LEMMA CandidatesAreTimes ==
    ASSUME TypeInv, NEW h \in Handlers, Active(h),
           NEW e \in Candidates(h, seen[h]["login"], policy["tunnel"])
    PROVE  e \in Nat
<1>1. now[h] \in Nat /\ req[h].minutes \in Nat
  BY RequestFields DEF TypeInv, TypeOK
<1>2. \A b \in seen[h]["login"] \cup policy["tunnel"] : Ours(b) => b.until \in Nat
  BY OursIsBinding DEF TypeInv, TypeOK, Policies, Binding
<1>3. QED
  BY <1>1, <1>2 DEF Candidates, Grants

\* IAM stores what fits the policy.
LEMMA SetPolicyFits ==
    ASSUME TypeInv, NEW h \in Handlers, NEW p \in Policies, pc[h] = "write", SetPolicy(h, p)
    PROVE  /\ \A q \in Policies : FitsPolicy(q, policy'[q])
           /\ policy' \in [Policies -> SUBSET (Binding \cup Others)]
<1>1. /\ req[h].member \in Members /\ req[h].role \in LoginRoles
      /\ until[h] \in Nat /\ now[h] \in Nat
  BY RequestFields DEF TypeInv, TypeOK, Active, Steps
<1>2. FitsPolicy(p, Edit(p, seen[h][p], req[h].member, req[h].role, until[h], now[h]))
  BY <1>1, EditFits DEF TypeInv, SeenFits
<1>3. QED
  BY <1>2, PolicyFits DEF SetPolicy, TypeInv, TypeOK, FitsPolicy

\* The next policy to write, and the ones that are left after it.
LEMMA NextWrite ==
    ASSUME TypeInv, NEW h \in Handlers, pc[h] = "write"
    PROVE  /\ Head(writes[h]) \in Policies
           /\ Len(writes[h]) # 1 => Tail(writes[h]) \in {<<"login">>, <<"tunnel">>}
<1>1. writes[h] \in {<<"login">>, <<"tunnel">>, <<"login", "tunnel">>, <<"tunnel", "login">>}
  BY DEF TypeInv, TypeOK, WritesLeft
<1>2. CASE writes[h] = <<"login">>
  BY <1>2 DEF Policies
<1>3. CASE writes[h] = <<"tunnel">>
  BY <1>3 DEF Policies
<1>4. CASE writes[h] = <<"login", "tunnel">>
  <2>1. Tail(writes[h]) = <<"tunnel">>
    BY <1>4
  <2>2. QED
    BY <1>4, <2>1 DEF Policies
<1>5. CASE writes[h] = <<"tunnel", "login">>
  <2>1. Tail(writes[h]) = <<"login">>
    BY <1>5
  <2>2. QED
    BY <1>5, <2>1 DEF Policies
<1>6. QED
  BY <1>1, <1>2, <1>3, <1>4, <1>5

\* Every step keeps the types.
LEMMA TypeInvStep == TypeInv /\ [Next]_vars => TypeInv'
<1> SUFFICES ASSUME TypeInv, [Next]_vars PROVE TypeInv'
  OBVIOUS
<1>1. ASSUME NEW h \in Handlers, Invoke(h) PROVE TypeInv'
  BY <1>1 DEF Invoke, TypeInv, TypeOK, SeenFits, WritesLeft, FitsPolicy, Active, Steps, Ended
<1>2. ASSUME NEW h \in Handlers, ReadInstance(h) PROVE TypeInv'
  <2>1. CASE End(h, "refused", {}) /\ UNCHANGED <<clock, policy>>
    BY <2>1, EndKeepsType, PolicyFits DEF Ended, TypeInv, TypeOK
  <2>2. CASE /\ \E osLogin \in BOOLEAN : allowed' = [allowed EXCEPT ![h] =
                    req[h].revoke \/ (osLogin /\ req[h].minutes <= MaxMinutes)]
             /\ pc' = [pc EXCEPT ![h] = "login"]
             /\ UNCHANGED <<clock, policy, req, now, seen, fresh, until, writes>>
    <3>1. allowed' \in [Handlers -> BOOLEAN]
      BY <2>2, RequestFields, <1>2 DEF ReadInstance, TypeInv, TypeOK, Active, Steps, Request
    <3>2. QED
      BY <1>2, <2>2, <3>1 DEF ReadInstance, TypeInv, TypeOK, SeenFits, WritesLeft, Active, Steps, Ended
  <2>3. QED
    BY <1>2, <2>1, <2>2 DEF ReadInstance
<1>3. ASSUME NEW h \in Handlers, ReadLogin(h) PROVE TypeInv'
  <2>1. \A g \in Handlers, p \in Policies : FitsPolicy(p, seen'[g][p])
    BY <1>3, PolicyFits DEF ReadLogin, Read, TypeInv, TypeOK, SeenFits, Policies
  <2>2. QED
    BY <1>3, <2>1 DEF ReadLogin, Read, TypeInv, TypeOK, SeenFits, WritesLeft, Active, Steps, Ended, Policies
<1>4. ASSUME NEW h \in Handlers, ReadTunnel(h) PROVE TypeInv'
  <2>1. ASSUME NEW outcome \in Ended, End(h, outcome, {}), UNCHANGED <<clock, policy>>
        PROVE  TypeInv'
    BY <2>1, EndKeepsType, PolicyFits DEF TypeInv, TypeOK
  <2>2. ASSUME NEW e \in Candidates(h, seen[h]["login"], policy["tunnel"]) \cup {0},
               NEW w \in {<<>>, <<"login">>, <<"tunnel">>, Order(h)}, w # <<>>,
               Read(h, "tunnel"),
               until' = [until EXCEPT ![h] = e],
               writes' = [writes EXCEPT ![h] = w],
               pc' = [pc EXCEPT ![h] = "write"],
               UNCHANGED <<clock, policy, req, now, allowed>>
        PROVE  TypeInv'
    <3>1. e \in Nat
      BY <1>4, CandidatesAreTimes DEF ReadTunnel, Active, Steps
    <3>2. writes' \in [Handlers -> {<<>>, <<"login">>, <<"tunnel">>,
                               <<"login", "tunnel">>, <<"tunnel", "login">>}]
      BY <2>2 DEF TypeInv, TypeOK, Order
    <3>3. \A g \in Handlers, p \in Policies : FitsPolicy(p, seen'[g][p])
      BY <2>2, PolicyFits DEF Read, TypeInv, TypeOK, SeenFits, Policies
    <3>4. QED
      BY <1>4, <2>2, <3>1, <3>2, <3>3
      DEF ReadTunnel, Read, TypeInv, TypeOK, SeenFits, WritesLeft, Active, Steps, Ended, Policies
  <2>3. QED
    BY <1>4, <2>1, <2>2 DEF ReadTunnel, Ended
<1>5. ASSUME NEW h \in Handlers, Write(h) PROVE TypeInv'
  <2> DEFINE p == Head(writes[h])
  <2>1. p \in Policies /\ (Len(writes[h]) # 1 => Tail(writes[h]) \in {<<"login">>, <<"tunnel">>})
    BY <1>5, NextWrite DEF Write
  <2>2. /\ \A q \in Policies : FitsPolicy(q, policy'[q])
        /\ policy' \in [Policies -> SUBSET (Binding \cup Others)]
    BY <1>5, <2>1, SetPolicyFits DEF Write
  <2>3. CASE End(h, "done", {p})
    BY <1>5, <2>2, <2>3, EndKeepsType DEF Write, Ended
  <2>4. CASE /\ Len(writes[h]) # 1
             /\ writes' = [writes EXCEPT ![h] = Tail(@)]
             /\ fresh' = [g \in Handlers |-> fresh[g] \ {p}]
             /\ UNCHANGED <<pc, req, now, allowed, seen, until>>
    <3>1. /\ writes' \in [Handlers -> {<<>>, <<"login">>, <<"tunnel">>,
                               <<"login", "tunnel">>, <<"tunnel", "login">>}]
          /\ WritesLeft'
      <4>1. Tail(writes[h]) \in {<<"login">>, <<"tunnel">>} /\ Tail(writes[h]) # <<>>
        BY <2>1, <2>4
      <4>2. QED
        BY <2>4, <4>1 DEF TypeInv, TypeOK, WritesLeft
    <3>2. QED
      BY <1>5, <2>2, <2>4, <3>1 DEF Write, TypeInv, TypeOK, SeenFits, FitsPolicy, Active
  <2>5. QED
    BY <1>5, <2>3, <2>4 DEF Write
<1>6. ASSUME NEW h \in Handlers, WriteAnswerLost(h) PROVE TypeInv'
  <2>1. Head(writes[h]) \in Policies
    BY <1>6, NextWrite DEF WriteAnswerLost
  <2>2. QED
    BY <1>6, <2>1, SetPolicyFits, EndKeepsType DEF WriteAnswerLost, Ended
<1>7. ASSUME NEW h \in Handlers, Fail(h) PROVE TypeInv'
  BY <1>7, EndKeepsType, PolicyFits DEF Fail, Ended, TypeInv, TypeOK
<1>8. ASSUME Admin PROVE TypeInv'
  <2>1. /\ \A p \in Policies : FitsPolicy(p, policy'[p])
        /\ policy' \in [Policies -> SUBSET (Binding \cup Others)]
    BY <1>8 DEF Admin, TypeInv, TypeOK, FitsPolicy, Ours
  <2>2. QED
    BY <1>8, <2>1 DEF Admin, locals, TypeInv, TypeOK, SeenFits, WritesLeft, FitsPolicy, Active
<1>9. ASSUME Tick PROVE TypeInv'
  BY <1>9 DEF Tick, locals, TypeInv, TypeOK, SeenFits, WritesLeft, FitsPolicy, Active
<1>10. ASSUME UNCHANGED vars PROVE TypeInv'
  BY <1>10 DEF vars, TypeInv, TypeOK, SeenFits, WritesLeft, FitsPolicy, Active
<1>11. QED
  BY <1>1, <1>2, <1>3, <1>4, <1>5, <1>6, <1>7, <1>8, <1>9, <1>10 DEF Next, Step

LEMMA TypeInvHolds == Spec => []TypeInv
<1>1. Init => TypeInv
  BY NoRequestAssumption DEF Init, TypeInv, TypeOK, SeenFits, FitsPolicy, WritesLeft, Active, Steps, Ended
<1>2. QED
  BY <1>1, TypeInvStep, PTL DEF Spec

\* Every variable keeps its type, and each policy only ever holds the
\* function's bindings of its own roles.
THEOREM TypeCorrect == Spec => []TypeOK
<1>1. TypeInv => TypeOK
  BY DEF TypeInv
<1>2. QED
  BY <1>1, TypeInvHolds, PTL

-------------------------------------------------------------------------------
\* What AccessWithinLimit takes: whatever an invocation read or is about to
\* grant is within the limit too, and it is only allowed to grant what is.
Limited(t, bindings) == \A b \in bindings : Ours(b) => b.until <= t + MaxMinutes

LimitInv ==
    /\ \A p \in Policies : Limited(clock, policy[p])
    /\ \A h \in Handlers, p \in Policies : Limited(clock, seen[h][p])
    /\ \A h \in Handlers : now[h] <= clock /\ until[h] <= clock + MaxMinutes
    /\ \A h \in Handlers : allowed[h] =>
            /\ pc[h] \in {"login", "tunnel", "write"}
            /\ req[h].revoke \/ req[h].minutes <= MaxMinutes

\* The ends an allowed grant may take are within the limit.
LEMMA CandidatesLimited ==
    ASSUME TypeInv, LimitInv, NEW h \in Handlers, allowed[h], ~req[h].revoke,
           NEW e \in Candidates(h, seen[h]["login"], policy["tunnel"])
    PROVE  e <= clock + MaxMinutes
<1>1. /\ now[h] \in Nat /\ req[h].minutes \in Nat /\ clock \in Nat
      /\ now[h] <= clock /\ req[h].minutes <= MaxMinutes
  BY RequestFields DEF TypeInv, TypeOK, LimitInv, Active, Steps
<1>2. \A b \in seen[h]["login"] \cup policy["tunnel"] : Ours(b) => b.until <= clock + MaxMinutes
  BY DEF LimitInv, Limited, Policies
<1>3. now[h] + req[h].minutes <= clock + MaxMinutes
  BY <1>1, MaxMinutesAssumption
<1>4. QED
  BY <1>2, <1>3 DEF Candidates, Grants

\* A policy edited for an allowed request stays within the limit.
LEMMA EditLimited ==
    ASSUME NEW t \in Nat, NEW p, NEW bindings, Limited(t, bindings), NEW m, NEW r,
           NEW e \in Nat, e <= t + MaxMinutes, NEW s
    PROVE  Limited(t, Edit(p, bindings, m, r, e, s))
BY DEF Limited, Edit, Granted

\* The limit moves on with the clock.
LEMMA LimitMovesOn ==
    ASSUME TypeInv, NEW p, NEW bindings, FitsPolicy(p, bindings), Limited(clock, bindings)
    PROVE  Limited(clock + 1, bindings)
<1>1. \A b \in bindings : Ours(b) => b.until \in Nat
  BY OursIsBinding DEF FitsPolicy, Binding
<1>2. QED
  BY <1>1, MaxMinutesAssumption DEF Limited, TypeInv, TypeOK

LEMMA EndKeepsLimit ==
    ASSUME TypeInv, LimitInv, NEW h \in Handlers, NEW outcome, NEW written,
           End(h, outcome, written), UNCHANGED clock,
           \A p \in Policies : Limited(clock, policy'[p])
    PROVE  LimitInv'
BY MaxMinutesAssumption DEF TypeInv, TypeOK, LimitInv, Limited, End

LEMMA LimitInvStep == TypeInv /\ LimitInv /\ [Next]_vars => LimitInv'
<1> SUFFICES ASSUME TypeInv, LimitInv, [Next]_vars PROVE LimitInv'
  OBVIOUS
<1>1. ASSUME NEW h \in Handlers, Invoke(h) PROVE LimitInv'
  BY <1>1 DEF Invoke, TypeInv, TypeOK, LimitInv, Limited, Ended
<1>2. ASSUME NEW h \in Handlers, ReadInstance(h) PROVE LimitInv'
  <2>1. CASE End(h, "refused", {}) /\ UNCHANGED <<clock, policy>>
    BY <2>1, EndKeepsLimit DEF LimitInv
  <2>2. CASE /\ \E osLogin \in BOOLEAN : allowed' = [allowed EXCEPT ![h] =
                    req[h].revoke \/ (osLogin /\ req[h].minutes <= MaxMinutes)]
             /\ pc' = [pc EXCEPT ![h] = "login"]
             /\ UNCHANGED <<clock, policy, req, now, seen, fresh, until, writes>>
    BY <2>2 DEF TypeInv, TypeOK, LimitInv, Limited
  <2>3. QED
    BY <1>2, <2>1, <2>2 DEF ReadInstance
<1>3. ASSUME NEW h \in Handlers, ReadLogin(h) PROVE LimitInv'
  BY <1>3 DEF ReadLogin, Read, TypeInv, TypeOK, LimitInv, Limited, Policies
<1>4. ASSUME NEW h \in Handlers, ReadTunnel(h) PROVE LimitInv'
  <2>1. ASSUME NEW outcome, End(h, outcome, {}), UNCHANGED <<clock, policy>>
        PROVE  LimitInv'
    BY <2>1, EndKeepsLimit DEF LimitInv
  <2>2. ASSUME allowed[h],
               NEW e \in Candidates(h, seen[h]["login"], policy["tunnel"]) \cup {0},
               Target(h, seen[h]["login"], policy["tunnel"], e),
               NEW w, Read(h, "tunnel"),
               until' = [until EXCEPT ![h] = e],
               writes' = [writes EXCEPT ![h] = w],
               pc' = [pc EXCEPT ![h] = "write"],
               UNCHANGED <<clock, policy, req, now, allowed>>
        PROVE  LimitInv'
    <3>1. e <= clock + MaxMinutes
      BY <2>2, CandidatesLimited, MaxMinutesAssumption DEF Target, TypeInv, TypeOK
    <3>2. QED
      BY <2>2, <3>1 DEF Read, TypeInv, TypeOK, LimitInv, Limited, Policies
  <2>3. QED
    BY <1>4, <2>1, <2>2 DEF ReadTunnel
<1>5. ASSUME NEW h \in Handlers, pc[h] = "write", NEW p \in Policies, SetPolicy(h, p), UNCHANGED clock
      PROVE  \A q \in Policies : Limited(clock, policy'[q])
  <2>1. Limited(clock, Edit(p, seen[h][p], req[h].member, req[h].role, until[h], now[h]))
    BY EditLimited DEF TypeInv, TypeOK, LimitInv
  <2>2. QED
    BY <1>5, <2>1 DEF SetPolicy, TypeInv, TypeOK, LimitInv
<1>6. ASSUME NEW h \in Handlers, Write(h) PROVE LimitInv'
  <2> DEFINE p == Head(writes[h])
  <2>1. \A q \in Policies : Limited(clock, policy'[q])
    BY <1>5, <1>6, NextWrite DEF Write
  <2>2. CASE End(h, "done", {p})
    BY <1>6, <2>1, <2>2, EndKeepsLimit DEF Write
  <2>3. CASE UNCHANGED <<pc, req, now, allowed, seen, until>>
    BY <1>6, <2>1, <2>3 DEF Write, LimitInv, Limited
  <2>4. QED
    BY <1>6, <2>2, <2>3 DEF Write
<1>7. ASSUME NEW h \in Handlers, WriteAnswerLost(h) PROVE LimitInv'
  BY <1>5, <1>7, NextWrite, EndKeepsLimit DEF WriteAnswerLost
<1>8. ASSUME NEW h \in Handlers, Fail(h) PROVE LimitInv'
  BY <1>8, EndKeepsLimit DEF Fail, LimitInv
<1>9. ASSUME Admin PROVE LimitInv'
  <2>1. \A p \in Policies : Limited(clock, policy'[p])
    BY <1>9 DEF Admin, TypeInv, TypeOK, LimitInv, Limited, Ours
  <2>2. QED
    BY <1>9, <2>1 DEF Admin, locals, LimitInv, Limited
<1>10. ASSUME Tick PROVE LimitInv'
  <2>1. /\ \A p \in Policies : Limited(clock', policy'[p])
        /\ \A h \in Handlers, p \in Policies : Limited(clock', seen'[h][p])
    BY <1>10, LimitMovesOn, PolicyFits DEF Tick, locals, TypeInv, SeenFits, LimitInv
  <2>2. QED
    BY <1>10, <2>1, MaxMinutesAssumption DEF Tick, locals, TypeInv, TypeOK, LimitInv
<1>11. ASSUME UNCHANGED vars PROVE LimitInv'
  BY <1>11 DEF vars, LimitInv, Limited
<1>12. QED
  BY <1>1, <1>2, <1>3, <1>4, <1>6, <1>7, <1>8, <1>9, <1>10, <1>11 DEF Next, Step

LEMMA LimitInvHolds == Spec => []LimitInv
<1>1. Init => LimitInv
  BY MaxMinutesAssumption DEF Init, LimitInv, Limited
<1>2. QED
  BY <1>1, TypeInvHolds, LimitInvStep, PTL DEF Spec

\* No binding of the function ends later than the longest access counted from
\* now, however invocations interleave, fail and lose answers.
THEOREM LimitHolds == Spec => []AccessWithinLimit
<1>1. LimitInv => AccessWithinLimit
  BY DEF LimitInv, Limited, AccessWithinLimit
<1>2. QED
  BY <1>1, LimitInvHolds, PTL

-------------------------------------------------------------------------------
\* What the refinement takes: an etag that still matches means that what was
\* read is still there, and a grant lasts at least as long as any it replaces.
FreshInv == \A h \in Handlers : \A p \in fresh[h] : seen[h][p] = policy[p]

Covers(h) ==
    IF req[h].revoke
    THEN until[h] = 0
    ELSE /\ until[h] > 0 /\ allowed[h]
         /\ \A p \in Policies : \A b \in Grants(seen[h][p], req[h].member, now[h]) :
                b.until <= until[h]

CoverInv == \A h \in Handlers : pc[h] = "write" => Covers(h)

RefinementInv == FreshInv /\ CoverInv

LEMMA EndKeepsRefinement ==
    ASSUME TypeInv, RefinementInv, NEW h \in Handlers, NEW outcome \in Ended, NEW written,
           End(h, outcome, written),
           \A p \in Policies : policy'[p] # policy[p] => p \in written
    PROVE  RefinementInv'
<1>1. FreshInv'
  BY DEF TypeInv, TypeOK, RefinementInv, FreshInv, End
<1>2. CoverInv'
  BY DEF TypeInv, TypeOK, RefinementInv, CoverInv, Covers, Grants, End, Ended
<1>3. QED
  BY <1>1, <1>2 DEF RefinementInv

LEMMA RefinementInvStep == TypeInv /\ RefinementInv /\ [Next]_vars => RefinementInv'
<1> SUFFICES ASSUME TypeInv, RefinementInv, [Next]_vars PROVE RefinementInv'
  OBVIOUS
<1>1. ASSUME NEW h \in Handlers, Invoke(h) PROVE RefinementInv'
  BY <1>1 DEF Invoke, TypeInv, TypeOK, RefinementInv, FreshInv, CoverInv, Covers, Grants, Ended
<1>2. ASSUME NEW h \in Handlers, ReadInstance(h) PROVE RefinementInv'
  <2>1. CASE End(h, "refused", {}) /\ UNCHANGED <<clock, policy>>
    BY <2>1, EndKeepsRefinement DEF Ended
  <2>2. CASE /\ \E osLogin \in BOOLEAN : allowed' = [allowed EXCEPT ![h] =
                    req[h].revoke \/ (osLogin /\ req[h].minutes <= MaxMinutes)]
             /\ pc' = [pc EXCEPT ![h] = "login"]
             /\ UNCHANGED <<clock, policy, req, now, seen, fresh, until, writes>>
    BY <1>2, <2>2 DEF ReadInstance, TypeInv, TypeOK, RefinementInv, FreshInv, CoverInv, Covers, Grants
  <2>3. QED
    BY <1>2, <2>1, <2>2 DEF ReadInstance
<1>3. ASSUME NEW h \in Handlers, ReadLogin(h) PROVE RefinementInv'
  BY <1>3 DEF ReadLogin, Read, TypeInv, TypeOK, RefinementInv, FreshInv, CoverInv, Covers, Grants, Policies
<1>4. ASSUME NEW h \in Handlers, ReadTunnel(h) PROVE RefinementInv'
  <2>1. ASSUME NEW outcome \in Ended, End(h, outcome, {}), UNCHANGED <<clock, policy>>
        PROVE  RefinementInv'
    BY <2>1, EndKeepsRefinement
  <2>2. ASSUME allowed[h],
               NEW e \in Candidates(h, seen[h]["login"], policy["tunnel"]) \cup {0},
               Target(h, seen[h]["login"], policy["tunnel"], e),
               NEW w, Read(h, "tunnel"),
               until' = [until EXCEPT ![h] = e],
               writes' = [writes EXCEPT ![h] = w],
               pc' = [pc EXCEPT ![h] = "write"],
               UNCHANGED <<clock, policy, req, now, allowed>>
        PROVE  RefinementInv'
    <3>1. FreshInv'
      BY <2>2 DEF Read, TypeInv, TypeOK, RefinementInv, FreshInv, Policies
    <3>2. ASSUME NEW g \in Handlers, g # h, pc'[g] = "write" PROVE Covers(g)'
      BY <2>2, <3>2 DEF Read, TypeInv, TypeOK, RefinementInv, CoverInv, Covers, Grants, Policies
    <3>3. Covers(h)'
      <4>1. CASE req[h].revoke
        BY <2>2, <4>1 DEF Target, Covers, TypeInv, TypeOK
      <4>2. CASE ~req[h].revoke
        <5>1. /\ e \in Nat
              /\ \A c \in Candidates(h, seen[h]["login"], policy["tunnel"]) : c <= e
          BY <1>4, <2>2, <4>2, CandidatesAreTimes DEF Target, ReadTunnel, Active, Steps
        <5>2. e > 0
          <6>1. now[h] \in Nat /\ req[h].minutes \in Nat \ {0}
            BY <1>4, RequestFields DEF ReadTunnel, TypeInv, TypeOK, Active, Steps
          <6>2. now[h] + req[h].minutes <= e
            BY <5>1 DEF Candidates
          <6>3. QED
            BY <5>1, <6>1, <6>2
        <5>3. seen'[h]["login"] = seen[h]["login"] /\ seen'[h]["tunnel"] = policy["tunnel"]
          BY <2>2 DEF Read, TypeInv, TypeOK, Policies
        <5>4. \A p \in Policies : \A b \in Grants(seen'[h][p], req[h].member, now[h]) : b.until <= e
          BY <5>1, <5>3 DEF Candidates, Grants, Policies
        <5>5. QED
          BY <2>2, <4>2, <5>2, <5>4 DEF Covers, Grants, TypeInv, TypeOK
      <4>3. QED
        BY <4>1, <4>2
    <3>4. QED
      BY <3>1, <3>2, <3>3 DEF RefinementInv, CoverInv
  <2>3. QED
    BY <1>4, <2>1, <2>2 DEF ReadTunnel, Ended
<1>5. ASSUME NEW h \in Handlers, Write(h) PROVE RefinementInv'
  <2> DEFINE p == Head(writes[h])
  <2>1. p \in Policies /\ \A q \in Policies : policy'[q] # policy[q] => q \in {p}
    BY <1>5, NextWrite DEF Write, SetPolicy, TypeInv, TypeOK
  <2>2. CASE End(h, "done", {p})
    BY <2>1, <2>2, EndKeepsRefinement DEF Ended
  <2>3. CASE /\ fresh' = [g \in Handlers |-> fresh[g] \ {p}]
             /\ UNCHANGED <<pc, req, now, allowed, seen, until>>
    BY <2>1, <2>3 DEF TypeInv, TypeOK, RefinementInv, FreshInv, CoverInv, Covers, Grants
  <2>4. QED
    BY <1>5, <2>2, <2>3 DEF Write
<1>6. ASSUME NEW h \in Handlers, WriteAnswerLost(h) PROVE RefinementInv'
  <2>1. \A q \in Policies : policy'[q] # policy[q] => q \in {Head(writes[h])}
    BY <1>6, NextWrite DEF WriteAnswerLost, SetPolicy, TypeInv, TypeOK
  <2>2. QED
    BY <1>6, <2>1, EndKeepsRefinement DEF WriteAnswerLost, Ended
<1>7. ASSUME NEW h \in Handlers, Fail(h) PROVE RefinementInv'
  BY <1>7, EndKeepsRefinement DEF Fail, Ended
<1>8. ASSUME Admin PROVE RefinementInv'
  BY <1>8 DEF Admin, locals, TypeInv, TypeOK, RefinementInv, FreshInv, CoverInv, Covers, Grants
<1>9. ASSUME Tick PROVE RefinementInv'
  BY <1>9 DEF Tick, locals, RefinementInv, FreshInv, CoverInv, Covers, Grants
<1>10. ASSUME UNCHANGED vars PROVE RefinementInv'
  BY <1>10 DEF vars, RefinementInv, FreshInv, CoverInv, Covers, Grants
<1>11. QED
  BY <1>1, <1>2, <1>3, <1>4, <1>5, <1>6, <1>7, <1>8, <1>9, <1>10 DEF Next, Step

LEMMA RefinementInvHolds == Spec => []RefinementInv
<1>1. Init => RefinementInv
  BY DEF Init, RefinementInv, FreshInv, CoverInv
<1>2. QED
  BY <1>1, TypeInvHolds, RefinementInvStep, PTL DEF Spec

-------------------------------------------------------------------------------
\* The grants of the abstract table, one by one.
LEMMA AccessElement ==
    ASSUME NEW bindings, NEW x
    PROVE  x \in AccessIn(bindings) <=>
              \E p \in Policies : \E b \in bindings[p] :
                  Ours(b) /\ x = [key |-> <<p, b.member>>, until |-> b.until]
BY DEF AccessIn

\* A write of a policy is a write of the abstract table.
LEMMA SetPolicyRefines ==
    ASSUME TypeInv, LimitInv, RefinementInv,
           NEW h \in Handlers, NEW p \in Policies, pc[h] = "write", SetPolicy(h, p)
    PROVE  /\ \A g \in AccessIn(policy) : TA!MayGo(g)
           /\ \A n \in AccessIn(policy') \ AccessIn(policy) : TA!MayCome(n)
<1> DEFINE m == req[h].member
           new == Granted(p, m, req[h].role, until[h])
<1>1. /\ policy \in [Policies -> SUBSET (Binding \cup Others)]
      /\ Active(h) /\ m \in Members /\ req[h].role \in LoginRoles
      /\ clock \in Nat /\ until[h] \in Nat /\ now[h] \in Nat /\ now[h] <= clock
      /\ until[h] <= clock + MaxMinutes
  BY RequestFields DEF TypeInv, TypeOK, LimitInv, Active, Steps
<1>2. /\ Covers(h)
      /\ policy' = [policy EXCEPT ![p] = Edit(p, policy[p], m, req[h].role, until[h], now[h])]
      /\ seen[h][p] = policy[p]
  BY DEF SetPolicy, RefinementInv, FreshInv, CoverInv
<1>3. ASSUME NEW q \in Policies, NEW b \in policy[q], Ours(b), b \notin policy'[q]
      PROVE  q = p /\ (b.until <= now[h] \/ b.member = m)
  <2>1. b.until \in Nat
    BY <1>1, <1>3, OursIsBinding DEF Binding
  <2>2. q = p
    BY <1>1, <1>2, <1>3
  <2>3. b \in Edit(p, policy[p], m, req[h].role, until[h], now[h]) \/ b.until <= now[h] \/ b.member = m
    BY <1>1, <1>3, <2>1, <2>2 DEF Edit
  <2>4. QED
    BY <1>1, <1>2, <1>3, <2>2, <2>3
<1>4. ASSUME NEW q \in Policies, NEW b \in policy'[q], Ours(b), b \notin policy[q]
      PROVE  q = p /\ b \in new
  BY <1>1, <1>2, <1>4 DEF Edit
<1>5. ASSUME NEW g \in AccessIn(policy) PROVE TA!MayGo(g)
  <2>1. PICK q \in Policies : \E b \in policy[q] :
            Ours(b) /\ g = [key |-> <<q, b.member>>, until |-> b.until]
    BY AccessElement
  <2>0. PICK b \in policy[q] : Ours(b) /\ g = [key |-> <<q, b.member>>, until |-> b.until]
    BY <2>1
  <2>2. CASE b \in policy'[q]
    BY <2>0, <2>2, AccessElement DEF TA!MayGo
  <2>3. CASE b \notin policy'[q] /\ b.until <= now[h]
    <3>1. b.until \in Nat
      BY <1>1, <2>0, OursIsBinding DEF Binding
    <3>2. QED
      BY <1>1, <2>0, <2>3, <3>1 DEF TA!MayGo
  <2>4. CASE b \notin policy'[q] /\ ~(b.until <= now[h]) /\ req[h].revoke
    <3>1. q = p /\ b.member = m
      BY <1>3, <2>0, <2>4
    <3>2. m \in Revoking
      BY <1>1, <2>4 DEF Revoking
    <3>3. QED
      BY <2>0, <3>1, <3>2 DEF TA!MayGo
  <2>5. CASE b \notin policy'[q] /\ ~(b.until <= now[h]) /\ ~req[h].revoke
    <3>1. q = p /\ b.member = m
      BY <1>3, <2>0, <2>5
    <3>2. b.until > now[h]
      <4>1. b.until \in Nat
        BY <1>1, <2>0, OursIsBinding DEF Binding
      <4>2. QED
        BY <1>1, <2>5, <4>1
    <3>3. b.until <= until[h] /\ until[h] > 0
      BY <1>2, <2>0, <2>5, <3>1, <3>2 DEF Covers, Grants
    <3> DEFINE n == [role |-> RoleIn(p, req[h].role), member |-> m, until |-> until[h]]
    <3>4. n \in new /\ n.member = m /\ n.until = until[h]
      BY <3>3 DEF Granted
    <3>5. n \in policy'[p] /\ Ours(n)
      <4>1. n \in Binding
        BY <1>1, <3>4 DEF Granted, Binding, RoleIn, Roles
      <4>2. Ours(n)
        BY <4>1, OursIsBinding
      <4>3. QED
        BY <1>1, <1>2, <3>4, <4>2 DEF Edit
    <3>6. [key |-> <<p, m>>, until |-> until[h]] \in AccessIn(policy')
      BY <3>4, <3>5, AccessElement
    <3>7. QED
      BY <2>0, <3>1, <3>3, <3>6 DEF TA!MayGo
  <2>6. QED
    BY <2>2, <2>3, <2>4, <2>5
<1>6. ASSUME NEW n \in AccessIn(policy') \ AccessIn(policy) PROVE TA!MayCome(n)
  <2>1. PICK q \in Policies : \E b \in policy'[q] :
            Ours(b) /\ n = [key |-> <<q, b.member>>, until |-> b.until]
    BY <1>6, AccessElement
  <2>0. PICK b \in policy'[q] : Ours(b) /\ n = [key |-> <<q, b.member>>, until |-> b.until]
    BY <2>1
  <2>2. b \notin policy[q]
    BY <1>6, <2>0, AccessElement
  <2>3. q = p /\ b \in new
    BY <1>4, <2>0, <2>2
  <2>4. b.member = m /\ b.until = until[h] /\ until[h] > 0
    BY <2>3 DEF Granted
  <2>5. m \in Granting
    BY <1>1, <1>2, <2>4 DEF Covers, Granting
  <2>6. QED
    BY <1>1, <2>0, <2>3, <2>4, <2>5 DEF TA!MayCome, TA!Grant
<1>7. QED
  BY <1>5, <1>6

\* A step that leaves the function's bindings alone is a write that changes
\* nothing of the abstract table.
LEMMA OtherStepRefines ==
    ASSUME AccessIn(policy') = AccessIn(policy), UNCHANGED clock PROVE TA!Next
BY DEF TA!Next, TA!Write, TA!MayGo, TA!MayCome, Granting, Revoking

LEMMA StepRefines ==
    TypeInv /\ LimitInv /\ RefinementInv /\ [Next]_vars => [TA!Next]_(TA!vars)
<1> SUFFICES ASSUME TypeInv, LimitInv, RefinementInv, Next PROVE TA!Next
  BY DEF vars, TA!vars, Granting, Revoking, Active
<1>1. ASSUME NEW h \in Handlers, Write(h) \/ WriteAnswerLost(h) PROVE TA!Next
  <2>1. pc[h] = "write" /\ SetPolicy(h, Head(writes[h])) /\ UNCHANGED clock
    BY <1>1 DEF Write, WriteAnswerLost
  <2>2. /\ \A g \in AccessIn(policy) : TA!MayGo(g)
        /\ \A n \in AccessIn(policy') \ AccessIn(policy) : TA!MayCome(n)
    BY <2>1, NextWrite, SetPolicyRefines
  <2>3. QED
    BY <2>1, <2>2 DEF TA!Next, TA!Write, Granting, Revoking
<1>2. ASSUME NEW h \in Handlers,
             Invoke(h) \/ ReadInstance(h) \/ ReadLogin(h) \/ ReadTunnel(h) \/ Fail(h)
      PROVE  TA!Next
  <2>1. UNCHANGED <<policy, clock>>
    BY <1>2 DEF Invoke, ReadInstance, ReadLogin, ReadTunnel, Fail
  <2>2. QED
    BY <2>1, OtherStepRefines
<1>3. ASSUME Admin PROVE TA!Next
  <2>1. \A p \in Policies : \A b : Ours(b) => (b \in policy'[p] <=> b \in policy[p])
    BY <1>3 DEF Admin, TypeInv, TypeOK, Ours
  <2>2. \A x : x \in AccessIn(policy') <=> x \in AccessIn(policy)
    BY <2>1, AccessElement
  <2>3. AccessIn(policy') = AccessIn(policy)
    BY <2>2
  <2>4. QED
    BY <1>3, <2>3, OtherStepRefines DEF Admin
<1>4. ASSUME Tick PROVE TA!Next
  BY <1>4 DEF Tick, locals, TA!Next, TA!Tick, Granting, Revoking, Active
<1>5. QED
  BY <1>1, <1>2, <1>3, <1>4 DEF Next, Step

\* The function implements the abstract table of grants, for any number of
\* concurrent invocations: no lost update, no stale write that brings a revoked
\* grant back, no grant cut short.
THEOREM Refines == Spec => GrantsOnlyExtend
<1>1. Init => TA!Init
  <2> SUFFICES ASSUME Init PROVE TA!Init
    OBVIOUS
  <2>1. \A x : x \notin AccessIn(policy)
    BY AccessElement DEF Init
  <2>2. AccessIn(policy) = {}
    BY <2>1
  <2>3. Granting \subseteq Members /\ Revoking \subseteq Members
    BY DEF Granting, Revoking
  <2>4. QED
    BY <2>2, <2>3 DEF Init, TA!Init
<1>2. QED
  BY <1>1, TypeInvHolds, LimitInvHolds, RefinementInvHolds, StepRefines, PTL
  DEF Spec, GrantsOnlyExtend, TA!Spec

-------------------------------------------------------------------------------
\* What a write stores has the bindings of others that were there.
LEMMA SetPolicyKeepsOthers ==
    ASSUME TypeInv, FreshInv, NEW h \in Handlers, NEW p \in Policies,
           pc[h] = "write", SetPolicy(h, p), NEW q \in Policies
    PROVE  policy'[q] \cap Others = policy[q] \cap Others
<1>1. policy' = [policy EXCEPT ![p] =
          Edit(p, policy[p], req[h].member, req[h].role, until[h], now[h])]
  BY DEF SetPolicy, FreshInv
<1>2. Granted(p, req[h].member, req[h].role, until[h]) \cap Others = {}
  <2>1. /\ req[h].member \in Members /\ req[h].role \in LoginRoles /\ until[h] \in Nat
    BY RequestFields DEF TypeInv, TypeOK, Active, Steps
  <2>2. Granted(p, req[h].member, req[h].role, until[h]) \subseteq Binding
    BY <2>1 DEF Granted, Binding, RoleIn, Roles
  <2>3. QED
    BY <2>2, OthersAssumption
<1>3. Edit(p, policy[p], req[h].member, req[h].role, until[h], now[h]) \cap Others
        = policy[p] \cap Others
  BY <1>2 DEF Edit, Ours
<1>4. QED
  BY <1>1, <1>3 DEF TypeInv, TypeOK

\* The function never changes a binding somebody else made, not even by writing
\* a policy it read before they made it.
THEOREM OthersKept == Spec => UnmanagedUntouched
<1> DEFINE Kept == \A h \in Handlers, p \in Policies :
        pc'[h] # pc[h] \/ writes'[h] # writes[h] =>
            policy'[p] \cap Others = policy[p] \cap Others
<1>1. TypeInv /\ RefinementInv /\ [Next]_vars => [Kept]_vars
  <2> SUFFICES ASSUME TypeInv, RefinementInv, Next PROVE Kept
    OBVIOUS
  <2>1. ASSUME NEW h \in Handlers, Write(h) \/ WriteAnswerLost(h) PROVE Kept
    <3>1. pc[h] = "write" /\ SetPolicy(h, Head(writes[h]))
      BY <2>1 DEF Write, WriteAnswerLost
    <3>2. QED
      BY <3>1, NextWrite, SetPolicyKeepsOthers DEF RefinementInv
  <2>2. ASSUME NEW h \in Handlers,
               Invoke(h) \/ ReadInstance(h) \/ ReadLogin(h) \/ ReadTunnel(h) \/ Fail(h)
        PROVE  Kept
    BY <2>2 DEF Invoke, ReadInstance, ReadLogin, ReadTunnel, Fail
  <2>3. ASSUME Admin \/ Tick PROVE Kept
    BY <2>3 DEF Admin, Tick, locals
  <2>4. QED
    BY <2>1, <2>2, <2>3 DEF Next, Step
<1>2. QED
  BY <1>1, TypeInvHolds, RefinementInvHolds, PTL DEF Spec, UnmanagedUntouched
-------------------------------------------------------------------------------
\* Where invocations for one member do not overlap (Overlap is FALSE), what an
\* invocation found out about its member's access is still true when it acts:
\* others only write what they read unchanged, and drop what expired.
Held(p, m) == Grants(policy[p], m, clock)

OneEach ==
    \A g, h \in Handlers :
        Active(g) /\ Active(h) /\ req[g].member = req[h].member => g = h

\* The member's login access is as it was read.
LoginSeen(h) ==
    pc[h] = "tunnel" =>
        Held("login", req[h].member) = Grants(seen[h]["login"], req[h].member, clock)

\* The access h grants in policy p, if it did not end yet.
Reported(h, p) ==
    {b \in {[role |-> RoleIn(p, req[h].role), member |-> req[h].member, until |-> until[h]]} :
        until[h] > clock}

\* A policy it does not have to write any more holds the access it grants.
Settled(h) ==
    pc[h] = "write" =>
        \A p \in Policies : p \notin Elements(writes[h]) => Held(p, req[h].member) = Reported(h, p)

\* Of the two writes, the first never leaves a login without its tunnel.
Ordered(h) ==
    pc[h] = "write" =>
        /\ writes[h] = <<"tunnel", "login">> =>
               \A b \in Held("login", req[h].member) : b.until <= until[h]
        /\ writes[h] = <<"login", "tunnel">> => until[h] = 0

SerialInv ==
    /\ OneEach
    /\ \A h \in Handlers : LoginSeen(h) /\ Settled(h) /\ Ordered(h)
    /\ LoginNeedsTunnel

\* All that has been proved so far, which holds whether or not they overlap.
Proved == TypeInv /\ LimitInv /\ RefinementInv

\* The member's unexpired bindings at a later time.
LEMMA GrantsLater ==
    ASSUME NEW p \in Policies, NEW bindings, FitsPolicy(p, bindings), NEW m,
           NEW t \in Nat, NEW u \in Nat, t <= u
    PROVE  \A b : b \in Grants(bindings, m, u) <=> b \in Grants(bindings, m, t) /\ b.until > u
<1>1. \A b \in bindings : Ours(b) => b.until \in Nat
  BY OursIsBinding DEF FitsPolicy, Binding
<1>2. QED
  BY <1>1 DEF Grants

\* What there is to write, and in which order.
LEMMA WriteCases ==
    ASSUME TypeInv, NEW h \in Handlers, pc[h] = "write"
    PROVE  \/ /\ writes[h] = <<"login">> /\ Head(writes[h]) = "login"
              /\ Len(writes[h]) = 1 /\ Elements(writes[h]) = {"login"}
           \/ /\ writes[h] = <<"tunnel">> /\ Head(writes[h]) = "tunnel"
              /\ Len(writes[h]) = 1 /\ Elements(writes[h]) = {"tunnel"}
           \/ /\ writes[h] = <<"login", "tunnel">> /\ Head(writes[h]) = "login"
              /\ Len(writes[h]) = 2 /\ Tail(writes[h]) = <<"tunnel">>
           \/ /\ writes[h] = <<"tunnel", "login">> /\ Head(writes[h]) = "tunnel"
              /\ Len(writes[h]) = 2 /\ Tail(writes[h]) = <<"login">>
<1>1. writes[h] \in {<<"login">>, <<"tunnel">>, <<"login", "tunnel">>, <<"tunnel", "login">>}
  BY DEF TypeInv, TypeOK, WritesLeft
<1>2. CASE writes[h] = <<"login">>
  BY <1>2 DEF Elements
<1>3. CASE writes[h] = <<"tunnel">>
  BY <1>3 DEF Elements
<1>4. CASE writes[h] = <<"login", "tunnel">>
  BY <1>4
<1>5. CASE writes[h] = <<"tunnel", "login">>
  BY <1>5
<1>6. QED
  BY <1>1, <1>2, <1>3, <1>4, <1>5

LEMMA OneElement == Elements(<<"login">>) = {"login"} /\ Elements(<<"tunnel">>) = {"tunnel"}
BY DEF Elements

\* A write changes the access of its member in its policy, and of nobody else.
LEMMA WriteHeld ==
    ASSUME Proved, NEW h \in Handlers, NEW p \in Policies, pc[h] = "write", SetPolicy(h, p),
           UNCHANGED clock
    PROVE  \A q \in Policies, m \in Members :
               Held(q, m)' = IF q = p /\ m = req[h].member THEN Reported(h, p) ELSE Held(q, m)
<1> SUFFICES ASSUME NEW own \in Members, own = req[h].member
             PROVE  \A q \in Policies, m \in Members :
                        Held(q, m)' = IF q = p /\ m = own THEN Reported(h, p) ELSE Held(q, m)
  BY RequestFields DEF Proved, TypeInv, TypeOK, Active, Steps
<1>1. /\ policy \in [Policies -> SUBSET (Binding \cup Others)]
      /\ own \in Members /\ req[h].role \in LoginRoles
      /\ clock \in Nat /\ until[h] \in Nat /\ now[h] \in Nat /\ now[h] <= clock
  BY RequestFields DEF Proved, TypeInv, TypeOK, LimitInv, Active, Steps
<1>2. policy' = [policy EXCEPT ![p] = Edit(p, policy[p], own, req[h].role, until[h], now[h])]
  BY DEF SetPolicy, Proved, RefinementInv, FreshInv
<1>3. \A b \in policy[p] : Ours(b) => b.until \in Nat
  BY <1>1, OursIsBinding DEF Binding
<1>4. \A b \in Granted(p, own, req[h].role, until[h]) :
          Ours(b) /\ b.member = own /\ b.until = until[h]
  <2>1. Granted(p, own, req[h].role, until[h]) \subseteq Binding
    BY <1>1 DEF Granted, Binding, RoleIn, Roles
  <2>2. QED
    BY <2>1, OursIsBinding DEF Granted
<1>5. ASSUME NEW q \in Policies, NEW m \in Members, q # p \/ m # own
      PROVE  Held(q, m)' = Held(q, m)
  <2>1. CASE q # p
    BY <1>1, <1>2, <2>1 DEF Held
  <2>2. CASE q = p /\ m # own
    <3>1. \A b : b \in Held(p, m)' <=> b \in Held(p, m)
      BY <1>1, <1>2, <1>3, <1>4, <2>2 DEF Held, Grants, Edit
    <3>2. QED
      BY <2>2, <3>1 DEF Held, Grants
  <2>3. QED
    BY <1>5, <2>1, <2>2
<1>6. Held(p, own)' = Reported(h, p)
  <2>1. Held(p, own)' = {b \in policy'[p] : Ours(b) /\ b.member = own /\ b.until > clock}
    BY DEF Held, Grants
  <2>2. \A b : b \in policy'[p] /\ Ours(b) /\ b.member = own
                  <=> b \in Granted(p, own, req[h].role, until[h])
    BY <1>1, <1>2, <1>4 DEF Edit
  <2>3. \A b : b \in Held(p, own)' <=> b \in Granted(p, own, req[h].role, until[h]) /\ until[h] > clock
    BY <1>4, <2>1, <2>2
  <2>4. \A b : b \in Held(p, own)' <=> b \in Reported(h, p)
    BY <1>1, <2>3 DEF Granted, Reported
  <2>5. QED
    BY <2>4 DEF Held, Grants, Reported
<1>7. QED
  BY <1>5, <1>6

\* A policy that is not written has the access asked for, or nothing to revoke.
LEMMA UnchangedHolds ==
    ASSUME NEW p \in Policies, NEW bindings, NEW m, NEW r, NEW e \in Nat, NEW t,
           ~Changes(p, bindings, m, r, e, t)
    PROVE  Grants(bindings, m, t) = Granted(p, m, r, e)
<1>1. CASE e > 0
  BY <1>1 DEF Changes
<1>2. CASE ~(e > 0)
  <2>1. Grants(bindings, m, t) = {}
    BY <1>2 DEF Changes
  <2>2. Granted(p, m, r, e) = {}
    BY <1>2 DEF Granted
  <2>3. QED
    BY <2>1, <2>2
<1>3. QED
  BY <1>1, <1>2

\* LoginNeedsTunnel, member by member.
LEMMA TunnelsByMember ==
    ASSUME NEW bindings \in [Policies -> SUBSET (Binding \cup Others)], NEW t \in Nat
    PROVE  (\A b \in bindings["login"] : Ours(b) /\ b.until > t =>
                \E c \in bindings["tunnel"] : Ours(c) /\ c.member = b.member /\ c.until >= b.until)
           <=> \A m \in Members : \A b \in Grants(bindings["login"], m, t) :
                   \E c \in Grants(bindings["tunnel"], m, t) : c.until >= b.until
<1>1. \A p \in Policies : \A b \in bindings[p] : Ours(b) => b.member \in Members /\ b.until \in Nat
  BY OursIsBinding DEF Binding
<1>2. QED
  BY <1>1 DEF Grants, Policies

\* What is known about another invocation stays true if it and the access of
\* its member stay as they are.
LEMMA OthersSerial ==
    ASSUME NEW g \in Handlers, LoginSeen(g), Settled(g), Ordered(g),
           NEW m, m = req[g].member, \A p \in Policies : Held(p, m)' = Held(p, m),
           UNCHANGED <<clock, pc[g], req[g], seen[g], until[g], writes[g]>>
    PROVE  LoginSeen(g)' /\ Settled(g)' /\ Ordered(g)'
<1>1. LoginSeen(g)'
  BY DEF LoginSeen, Policies
<1>2. Settled(g)'
  BY DEF Settled, Reported
<1>3. Ordered(g)'
  BY DEF Ordered, Policies
<1>4. QED
  BY <1>1, <1>2, <1>3

LEMMA ReportedUntil ==
    ASSUME NEW h \in Handlers, NEW p \in Policies, until[h] > clock
    PROVE  \E c \in Reported(h, p) : c.until = until[h]
<1> DEFINE c == [role |-> RoleIn(p, req[h].role), member |-> req[h].member, until |-> until[h]]
<1>1. c \in Reported(h, p) /\ c.until = until[h]
  BY DEF Reported
<1>2. QED
  BY <1>1

\* Neither write of an invocation leaves a login without its tunnel.
LEMMA WriteTunnels ==
    ASSUME Proved, SerialInv, NEW h \in Handlers, pc[h] = "write",
           SetPolicy(h, Head(writes[h])), UNCHANGED clock
    PROVE  LoginNeedsTunnel'
<1> DEFINE p == Head(writes[h])
<1> SUFFICES ASSUME NEW m \in Members, NEW b \in Grants(policy'["login"], m, clock)
             PROVE  \E c \in Grants(policy'["tunnel"], m, clock) : c.until >= b.until
  <2>1. p \in Policies
    BY NextWrite DEF Proved
  <2>2. policy' \in [Policies -> SUBSET (Binding \cup Others)] /\ clock \in Nat
    BY <2>1, SetPolicyFits DEF Proved, TypeInv, TypeOK
  <2>3. QED
    BY <2>2, TunnelsByMember DEF LoginNeedsTunnel
<1>1. /\ p \in Policies
      /\ policy \in [Policies -> SUBSET (Binding \cup Others)]
      /\ clock \in Nat /\ until[h] \in Nat
  BY NextWrite DEF Proved, TypeInv, TypeOK
<1>2. \A q \in Policies : Held(q, m)' =
          IF q = p /\ m = req[h].member THEN Reported(h, p) ELSE Held(q, m)
  BY <1>1, WriteHeld
<1>3. \A q \in Policies : Held(q, m)' = Grants(policy'[q], m, clock)
  BY DEF Held
<1>4. \A c \in Held("login", m) : \E d \in Held("tunnel", m) : d.until >= c.until
  BY <1>1, TunnelsByMember DEF SerialInv, LoginNeedsTunnel, Held
<1>5. CASE m # req[h].member
  BY <1>2, <1>3, <1>4, <1>5 DEF Policies
<1>6. CASE m = req[h].member /\ p = "login"
  <2>1. b \in Reported(h, "login")
    BY <1>2, <1>3, <1>6 DEF Policies
  <2>2. b.until = until[h] /\ until[h] > clock
    BY <2>1 DEF Reported
  <2>3. writes[h] = <<"login">>
    BY <1>1, <1>6, <2>2, WriteCases DEF Proved, SerialInv, Ordered
  <2>4. Held("tunnel", m) = Reported(h, "tunnel")
    BY <1>6, <2>3, OneElement DEF SerialInv, Settled, Policies
  <2>5. Grants(policy'["tunnel"], m, clock) = Reported(h, "tunnel")
    BY <1>2, <1>3, <1>6, <2>4 DEF Policies
  <2>6. PICK c \in Reported(h, "tunnel") : c.until = until[h]
    BY <2>2, ReportedUntil DEF Policies
  <2>7. QED
    BY <1>1, <2>2, <2>5, <2>6
<1>7. CASE m = req[h].member /\ p = "tunnel"
  <2>1. b \in Held("login", m)
    BY <1>2, <1>3, <1>7 DEF Policies
  <2>2. b.until > clock /\ b.until <= until[h]
    <3>1. b.until > clock
      BY <2>1 DEF Held, Grants
    <3>2. CASE writes[h] = <<"tunnel">>
      <4>1. Held("login", m) = Reported(h, "login")
        BY <1>7, <3>2, OneElement DEF SerialInv, Settled, Policies
      <4>2. QED
        BY <1>1, <2>1, <3>1, <4>1 DEF Reported
    <3>3. CASE writes[h] = <<"tunnel", "login">>
      BY <1>7, <2>1, <3>1, <3>3 DEF SerialInv, Ordered
    <3>4. QED
      BY <1>7, <3>2, <3>3, WriteCases DEF Proved
  <2>3. b.until \in Nat
    BY <1>1, <2>1, OursIsBinding DEF Held, Grants, Binding, Policies
  <2>4. Grants(policy'["tunnel"], m, clock) = Reported(h, "tunnel")
    BY <1>2, <1>3, <1>7 DEF Policies
  <2>5. until[h] > clock
    BY <1>1, <2>2, <2>3
  <2>6. PICK c \in Reported(h, "tunnel") : c.until = until[h]
    BY <2>5, ReportedUntil DEF Policies
  <2>7. QED
    BY <1>1, <2>2, <2>3, <2>4, <2>6
<1>8. QED
  BY <1>1, <1>5, <1>6, <1>7 DEF Policies

LEMMA EndSerial ==
    ASSUME Proved, SerialInv, LoginNeedsTunnel',
           NEW h \in Handlers, Active(h), NEW outcome \in Ended, NEW written,
           End(h, outcome, written), UNCHANGED clock,
           \A p \in Policies, m \in Members : m # req[h].member => Held(p, m)' = Held(p, m)
    PROVE  SerialInv'
<1>1. /\ pc \in [Handlers -> Ended \cup Steps]
      /\ \A g \in Handlers : Active(g) => req[g] \in Request
  BY DEF Proved, TypeInv, TypeOK
<1>2. \A g \in Handlers : g # h => UNCHANGED <<pc[g], req[g], seen[g], until[g], writes[g]>>
  BY DEF Proved, TypeInv, TypeOK, End
<1>3. pc'[h] \in Ended
  BY <1>1 DEF End
<1>4. OneEach'
  BY <1>2, <1>3 DEF SerialInv, OneEach, Active, Steps, Ended
<1>5. ASSUME NEW g \in Handlers PROVE LoginSeen(g)' /\ Settled(g)' /\ Ordered(g)'
  <2>1. CASE Active(g) /\ g # h
    <3> DEFINE m == req[g].member
    <3>1. m \in Members /\ m # req[h].member
      BY <1>1, <2>1, RequestFields DEF SerialInv, OneEach
    <3>2. QED
      BY <1>2, <2>1, <3>1, OthersSerial DEF SerialInv
  <2>2. CASE ~Active(g) \/ g = h
    <3>1. pc'[g] \notin {"tunnel", "write"}
      BY <1>2, <1>3, <2>2 DEF Active, Steps, Ended
    <3>2. QED
      BY <3>1 DEF LoginSeen, Settled, Ordered
  <2>3. QED
    BY <2>1, <2>2
<1>6. QED
  BY <1>4, <1>5 DEF SerialInv

\* What the last read tells an invocation that goes on to write.
LEMMA DecidedSerial ==
    ASSUME Proved, RefinementInv', SerialInv, NEW h \in Handlers, pc[h] = "tunnel",
           NEW e \in Candidates(h, seen[h]["login"], policy["tunnel"]) \cup {0},
           Target(h, seen[h]["login"], policy["tunnel"], e),
           NEW w \in {<<"login">>, <<"tunnel">>, Order(h)},
           \A p \in Policies : p \notin Elements(w) =>
               ~Changes(p, [login |-> seen[h]["login"], tunnel |-> policy["tunnel"]][p],
                        req[h].member, req[h].role, e, now[h]),
           Read(h, "tunnel"),
           until' = [until EXCEPT ![h] = e], writes' = [writes EXCEPT ![h] = w],
           pc' = [pc EXCEPT ![h] = "write"], UNCHANGED <<clock, policy, req, now, allowed>>
    PROVE  Settled(h)' /\ Ordered(h)'
<1> DEFINE m == req[h].member
           login == seen[h]["login"]
           tunnel == policy["tunnel"]
<1>1. /\ clock \in Nat /\ now[h] \in Nat /\ now[h] <= clock /\ e \in Nat
      /\ FitsPolicy("login", login) /\ FitsPolicy("tunnel", tunnel)
  BY CandidatesAreTimes, PolicyFits
  DEF Proved, TypeInv, TypeOK, SeenFits, LimitInv, Active, Steps, Policies
<1>2. /\ pc'[h] = "write" /\ until'[h] = e /\ writes'[h] = w
      /\ seen'[h]["login"] = login
  BY DEF Read, Proved, TypeInv, TypeOK, Policies
<1>3. /\ \A b : b \in Held("login", m) <=> b \in Grants(login, m, now[h]) /\ b.until > clock
      /\ \A b : b \in Held("tunnel", m) <=> b \in Grants(tunnel, m, now[h]) /\ b.until > clock
  BY <1>1, GrantsLater DEF SerialInv, LoginSeen, Held, Policies
<1>4. Settled(h)'
  <2> SUFFICES ASSUME NEW p \in Policies, p \notin Elements(w)
               PROVE  Held(p, m) = {b \in {[role |-> RoleIn(p, req[h].role), member |-> m, until |-> e]} : e > clock}
    BY <1>2 DEF Settled, Reported, Held
  <2>1. /\ p = "login" => Grants(login, m, now[h]) = Granted(p, m, req[h].role, e)
        /\ p = "tunnel" => Grants(tunnel, m, now[h]) = Granted(p, m, req[h].role, e)
    BY <1>1, UnchangedHolds
  <2>2. \A b : b \in Held(p, m) <=> b \in Granted(p, m, req[h].role, e) /\ b.until > clock
    BY <1>3, <2>1 DEF Policies
  <2>3. \A b : b \in Granted(p, m, req[h].role, e) /\ b.until > clock
            <=> b \in {c \in {[role |-> RoleIn(p, req[h].role), member |-> m, until |-> e]} : e > clock}
    BY <1>1 DEF Granted
  <2>4. QED
    BY <2>2, <2>3 DEF Held, Grants
<1>5. Ordered(h)'
  <2>1. CASE w = <<"tunnel", "login">>
    <3>1. ~req[h].revoke
      BY <2>1 DEF Order
    <3>2. \A b \in Grants(login, m, now[h]) : b.until <= e
      BY <1>2, <3>1 DEF RefinementInv, CoverInv, Covers, Policies
    <3>3. QED
      BY <1>2, <1>3, <2>1, <3>2 DEF Ordered, Held
  <2>2. CASE w = <<"login", "tunnel">>
    <3>1. req[h].revoke
      BY <2>2 DEF Order
    <3>2. QED
      BY <1>2, <2>2, <3>1 DEF Target, Ordered
  <2>3. CASE w # <<"tunnel", "login">> /\ w # <<"login", "tunnel">>
    BY <1>2, <2>3 DEF Ordered
  <2>4. QED
    BY <2>1, <2>2, <2>3
<1>6. QED
  BY <1>4, <1>5

\* An invocation takes a step that leaves the policies alone and it going.
LEMMA StepSerial ==
    ASSUME Proved, SerialInv, NEW h \in Handlers, Active(h)', req'[h] = req[h], Active(h),
           \A g \in Handlers : g # h =>
               UNCHANGED <<pc[g], req[g], seen[g], until[g], writes[g]>>,
           UNCHANGED <<clock, policy>>,
           LoginSeen(h)', Settled(h)', Ordered(h)'
    PROVE  SerialInv'
<1>1. OneEach'
  BY DEF SerialInv, OneEach, Active
<1>2. \A p \in Policies, m \in Members : Held(p, m)' = Held(p, m)
  BY DEF Held
<1>3. ASSUME NEW g \in Handlers, g # h PROVE LoginSeen(g)' /\ Settled(g)' /\ Ordered(g)'
  <2>1. CASE Active(g)
    <3>1. req[g].member \in Members
      BY <2>1, RequestFields DEF Proved, TypeInv, TypeOK
    <3>2. QED
      BY <1>2, <1>3, <3>1, OthersSerial DEF SerialInv
  <2>2. CASE ~Active(g)
    BY <1>3, <2>2 DEF Active, Steps, LoginSeen, Settled, Ordered
  <2>3. QED
    BY <2>1, <2>2
<1>4. LoginNeedsTunnel'
  BY DEF SerialInv, LoginNeedsTunnel
<1>5. QED
  BY <1>1, <1>3, <1>4 DEF SerialInv

LEMMA WriteSerial ==
    ASSUME Proved, SerialInv, NEW h \in Handlers, Write(h) PROVE SerialInv'
<1> DEFINE p == Head(writes[h])
<1>1. /\ pc[h] = "write" /\ SetPolicy(h, p) /\ UNCHANGED clock /\ p \in Policies
      /\ Active(h) /\ req[h] \in Request /\ req[h].member \in Members
  BY NextWrite, RequestFields DEF Write, Proved, TypeInv, TypeOK, Active, Steps
<1>2. LoginNeedsTunnel'
  BY <1>1, WriteTunnels
<1>3. \A q \in Policies, m \in Members :
          Held(q, m)' = IF q = p /\ m = req[h].member THEN Reported(h, p) ELSE Held(q, m)
  BY <1>1, WriteHeld
<1>4. CASE End(h, "done", {p})
  BY <1>1, <1>2, <1>3, <1>4, EndSerial DEF Ended
<1>5. CASE /\ Len(writes[h]) # 1
           /\ writes' = [writes EXCEPT ![h] = Tail(@)]
           /\ fresh' = [g \in Handlers |-> fresh[g] \ {p}]
           /\ UNCHANGED <<pc, req, now, allowed, seen, until>>
  <2>1. OneEach'
    BY <1>5 DEF SerialInv, OneEach, Active
  <2>2. ASSUME NEW g \in Handlers, g # h PROVE LoginSeen(g)' /\ Settled(g)' /\ Ordered(g)'
    <3>1. CASE Active(g)
      <4>1. req[g].member \in Members /\ req[g].member # req[h].member
        BY <1>1, <2>2, <3>1, RequestFields DEF Proved, TypeInv, TypeOK, SerialInv, OneEach
      <4>2. QED
        BY <1>1, <1>3, <1>5, <2>2, <4>1, OthersSerial DEF SerialInv, Proved, TypeInv, TypeOK
    <3>2. CASE ~Active(g)
      BY <1>5, <3>2 DEF Active, Steps, LoginSeen, Settled, Ordered
    <3>3. QED
      BY <3>1, <3>2
  <2>3. LoginSeen(h)'
    BY <1>1, <1>5 DEF LoginSeen
  <2>4. /\ writes'[h] \in {<<"login">>, <<"tunnel">>}
        /\ \A q \in Policies : q \notin Elements(writes'[h]) => q = p
    BY <1>1, <1>5, WriteCases, OneElement DEF Proved, TypeInv, TypeOK, Policies
  <2>5. Settled(h)'
    BY <1>1, <1>3, <1>5, <2>4 DEF Settled, Reported
  <2>6. Ordered(h)'
    <3>1. Len(writes'[h]) = 1
      BY <2>4
    <3>2. QED
      BY <3>1 DEF Ordered
  <2>7. QED
    BY <1>2, <2>1, <2>2, <2>3, <2>5, <2>6 DEF SerialInv
<1>6. QED
  BY <1>4, <1>5 DEF Write

LEMMA TickSerial == ASSUME Proved, SerialInv, Tick PROVE SerialInv'
<1>1. /\ clock \in Nat /\ clock' = clock + 1
      /\ policy \in [Policies -> SUBSET (Binding \cup Others)]
      /\ UNCHANGED <<policy, pc, req, seen, until, writes>>
  BY DEF Tick, locals, Proved, TypeInv, TypeOK
<1>2. \A p \in Policies : \A m : \A b : b \in Held(p, m)' <=> b \in Held(p, m) /\ b.until > clock'
  BY <1>1, GrantsLater, PolicyFits DEF Held, Proved
<1>3. ASSUME NEW h \in Handlers PROVE LoginSeen(h)'
  <2> SUFFICES ASSUME pc[h] = "tunnel"
               PROVE  Held("login", req[h].member)' = Grants(seen[h]["login"], req[h].member, clock')
    BY <1>1 DEF LoginSeen
  <2>1. \A b : b \in Grants(seen[h]["login"], req[h].member, clock')
            <=> b \in Grants(seen[h]["login"], req[h].member, clock) /\ b.until > clock'
    BY <1>1, GrantsLater DEF Proved, TypeInv, SeenFits, Policies
  <2>2. Held("login", req[h].member) = Grants(seen[h]["login"], req[h].member, clock)
    BY DEF SerialInv, LoginSeen
  <2>3. \A b : b \in Held("login", req[h].member)' <=> b \in Grants(seen[h]["login"], req[h].member, clock')
    BY <1>1, <1>2, <2>1, <2>2 DEF Policies
  <2>4. QED
    BY <1>1, <2>3 DEF Held, Grants
<1>4. ASSUME NEW h \in Handlers PROVE Settled(h)'
  <2> SUFFICES ASSUME pc[h] = "write", NEW p \in Policies, p \notin Elements(writes[h])
               PROVE  Held(p, req[h].member)' = Reported(h, p)'
    BY <1>1 DEF Settled
  <2>1. until[h] \in Nat
    BY DEF Proved, TypeInv, TypeOK
  <2>2. \A b : b \in Reported(h, p)' <=> b \in Reported(h, p) /\ b.until > clock'
    BY <1>1, <2>1 DEF Reported
  <2>3. Held(p, req[h].member) = Reported(h, p)
    BY DEF SerialInv, Settled
  <2>4. \A b : b \in Held(p, req[h].member)' <=> b \in Reported(h, p)'
    BY <1>1, <1>2, <2>2, <2>3
  <2>5. QED
    BY <2>4 DEF Held, Grants, Reported
<1>5. ASSUME NEW h \in Handlers PROVE Ordered(h)'
  BY <1>1, <1>2 DEF SerialInv, Ordered, Policies
<1>6. OneEach'
  BY <1>1 DEF SerialInv, OneEach, Active
<1>7. LoginNeedsTunnel'
  BY <1>1, OursIsBinding DEF SerialInv, LoginNeedsTunnel, Binding, Policies
<1>8. QED
  BY <1>3, <1>4, <1>5, <1>6, <1>7 DEF SerialInv

\* Somebody else changes a binding of their own.
LEMMA AdminSerial == ASSUME Proved, SerialInv, Admin PROVE SerialInv'
<1>1. \A p \in Policies : \A b : Ours(b) => (b \in policy'[p] <=> b \in policy[p])
  BY DEF Admin, Proved, TypeInv, TypeOK, Ours
<1>2. UNCHANGED <<clock, pc, req, seen, until, writes>>
  BY DEF Admin, locals
<1>3. ASSUME NEW p \in Policies, NEW m PROVE Held(p, m)' = Held(p, m)
  <2>1. \A b : b \in Held(p, m)' <=> b \in Held(p, m)
    BY <1>1, <1>2 DEF Held, Grants
  <2>2. QED
    BY <2>1 DEF Held, Grants
<1>4. ASSUME NEW g \in Handlers PROVE LoginSeen(g)' /\ Settled(g)' /\ Ordered(g)'
  BY <1>2, <1>3, OthersSerial DEF SerialInv
<1>5. OneEach'
  BY <1>2 DEF SerialInv, OneEach, Active
<1>6. LoginNeedsTunnel'
  BY <1>1, <1>2 DEF SerialInv, LoginNeedsTunnel, Policies
<1>7. QED
  BY <1>4, <1>5, <1>6 DEF SerialInv

LEMMA SerialInvStep ==
    ASSUME ~Overlap
    PROVE  Proved /\ Proved' /\ SerialInv /\ [Next]_vars => SerialInv'
<1> SUFFICES ASSUME Proved, Proved', SerialInv, [Next]_vars PROVE SerialInv'
  OBVIOUS
<1> USE DEF Proved
<1>0. /\ pc \in [Handlers -> Ended \cup Steps]
      /\ \A g \in Handlers : Active(g) => req[g] \in Request
      /\ "instance" \notin Ended /\ "login" \notin Ended /\ "tunnel" \notin Ended
  BY DEF TypeInv, TypeOK, Ended
<1>1. ASSUME NEW h \in Handlers, Invoke(h) PROVE SerialInv'
  <2>1. /\ ~Active(h) /\ UNCHANGED <<clock, policy, seen, until, writes>>
        /\ pc'[h] = "instance"
        /\ \A g \in Handlers : Active(g) => req[g].member # req'[h].member
        /\ \A g \in Handlers : g # h => UNCHANGED <<pc[g], req[g]>>
    BY <1>0, <1>1 DEF Invoke, TypeInv, TypeOK, Active, Steps, Ended
  <2>2. OneEach'
    BY <2>1 DEF SerialInv, OneEach, Active
  <2>3. ASSUME NEW g \in Handlers PROVE LoginSeen(g)' /\ Settled(g)' /\ Ordered(g)'
    <3>1. CASE g = h
      BY <2>1, <3>1 DEF LoginSeen, Settled, Ordered
    <3>2. CASE g # h
      BY <2>1, <3>2, OthersSerial DEF SerialInv, Held
    <3>3. QED
      BY <3>1, <3>2
  <2>4. LoginNeedsTunnel'
    BY <2>1 DEF SerialInv, LoginNeedsTunnel
  <2>5. QED
    BY <2>2, <2>3, <2>4 DEF SerialInv
<1>2. ASSUME NEW h \in Handlers, Active(h), NEW outcome \in Ended,
             End(h, outcome, {}), UNCHANGED <<clock, policy>>
      PROVE  SerialInv'
  BY <1>2, EndSerial DEF SerialInv, LoginNeedsTunnel, Held
<1>3. ASSUME NEW h \in Handlers, ReadInstance(h) \/ ReadLogin(h) PROVE SerialInv'
  <2>1. CASE End(h, "refused", {}) /\ UNCHANGED <<clock, policy>>
    BY <1>2, <1>3, <2>1 DEF ReadInstance, ReadLogin, Active, Steps, Ended
  <2>2. CASE /\ pc[h] = "instance" /\ pc' = [pc EXCEPT ![h] = "login"]
             /\ UNCHANGED <<clock, policy, req, now, seen, fresh, until, writes>>
    <3>1. LoginSeen(h)' /\ Settled(h)' /\ Ordered(h)'
      BY <1>0, <2>2 DEF LoginSeen, Settled, Ordered
    <3>2. QED
      BY <1>0, <2>2, <3>1, StepSerial DEF Active, Steps
  <2>3. CASE ReadLogin(h)
    <3>1. LoginSeen(h)' /\ Settled(h)' /\ Ordered(h)'
      BY <1>0, <2>3 DEF ReadLogin, Read, LoginSeen, Settled, Ordered, TypeInv, TypeOK, Held, Policies
    <3>2. \A g \in Handlers : g # h => UNCHANGED <<pc[g], req[g], seen[g], until[g], writes[g]>>
      BY <1>0, <2>3 DEF ReadLogin, Read, TypeInv, TypeOK
    <3>3. Active(h) /\ Active(h)' /\ req'[h] = req[h] /\ UNCHANGED <<clock, policy>>
      BY <1>0, <2>3 DEF ReadLogin, Active, Steps
    <3>4. QED
      BY <3>1, <3>2, <3>3, StepSerial
  <2>4. QED
    BY <1>3, <2>1, <2>2, <2>3 DEF ReadInstance
<1>4. ASSUME NEW h \in Handlers, ReadTunnel(h) PROVE SerialInv'
  <2>1. Active(h) /\ pc[h] = "tunnel"
    BY <1>4 DEF ReadTunnel, Active, Steps
  <2>2. ASSUME NEW outcome \in Ended, End(h, outcome, {}), UNCHANGED <<clock, policy>>
        PROVE  SerialInv'
    BY <1>2, <2>1, <2>2
  <2>3. ASSUME NEW e \in Candidates(h, seen[h]["login"], policy["tunnel"]) \cup {0},
               Target(h, seen[h]["login"], policy["tunnel"], e),
               NEW w \in {<<"login">>, <<"tunnel">>, Order(h)},
               \A p \in Policies : p \notin Elements(w) =>
                   ~Changes(p, [login |-> seen[h]["login"], tunnel |-> policy["tunnel"]][p],
                            req[h].member, req[h].role, e, now[h]),
               Read(h, "tunnel"),
               until' = [until EXCEPT ![h] = e], writes' = [writes EXCEPT ![h] = w],
               pc' = [pc EXCEPT ![h] = "write"], UNCHANGED <<clock, policy, req, now, allowed>>
        PROVE  SerialInv'
    <3>1. Settled(h)' /\ Ordered(h)'
      BY <2>1, <2>3, DecidedSerial
    <3>2. /\ LoginSeen(h)' /\ Active(h)'
          /\ \A g \in Handlers : g # h => UNCHANGED <<pc[g], req[g], seen[g], until[g], writes[g]>>
      BY <1>0, <2>3 DEF Read, LoginSeen, Active, Steps, TypeInv, TypeOK
    <3>3. QED
      BY <2>1, <2>3, <3>1, <3>2, StepSerial
  <2>4. QED
    BY <1>4, <2>2, <2>3 DEF ReadTunnel, Ended
<1>5. ASSUME NEW h \in Handlers, Write(h) PROVE SerialInv'
  BY <1>5, WriteSerial
<1>6. ASSUME NEW h \in Handlers, WriteAnswerLost(h) PROVE SerialInv'
  <2>1. /\ pc[h] = "write" /\ Active(h) /\ SetPolicy(h, Head(writes[h])) /\ UNCHANGED clock
        /\ Head(writes[h]) \in Policies
    BY <1>6, NextWrite DEF WriteAnswerLost, Active, Steps
  <2>2. LoginNeedsTunnel'
    BY <2>1, WriteTunnels
  <2>3. \A p \in Policies, m \in Members : m # req[h].member => Held(p, m)' = Held(p, m)
    BY <2>1, WriteHeld
  <2>4. QED
    BY <1>6, <2>1, <2>2, <2>3, EndSerial DEF WriteAnswerLost, Ended
<1>7. ASSUME NEW h \in Handlers, Fail(h) PROVE SerialInv'
  BY <1>2, <1>7 DEF Fail, Ended
<1>8. CASE Admin
  BY <1>8, AdminSerial
<1>9. CASE Tick
  BY <1>9, TickSerial
<1>10. CASE UNCHANGED vars
  <2>1. \A g \in Handlers : LoginSeen(g)' /\ Settled(g)' /\ Ordered(g)'
    BY <1>10 DEF vars, SerialInv, LoginSeen, Settled, Ordered, Held, Reported
  <2>2. QED
    BY <1>10, <2>1 DEF vars, SerialInv, OneEach, Active, LoginNeedsTunnel
<1>11. QED
  BY <1>1, <1>3, <1>4, <1>5, <1>6, <1>7, <1>8, <1>9, <1>10 DEF Next, Step

LEMMA ProvedHolds == Spec => []Proved
BY TypeInvHolds, LimitInvHolds, RefinementInvHolds, PTL DEF Proved

LEMMA SerialInvHolds == ASSUME ~Overlap PROVE Spec => []SerialInv
<1>1. Init => SerialInv
  <2> SUFFICES ASSUME Init PROVE SerialInv
    OBVIOUS
  <2>1. \A h \in Handlers : pc[h] = "idle"
    BY DEF Init
  <2>2. OneEach /\ \A h \in Handlers : LoginSeen(h) /\ Settled(h) /\ Ordered(h)
    BY <2>1 DEF OneEach, LoginSeen, Settled, Ordered, Active, Steps
  <2>3. LoginNeedsTunnel
    BY DEF Init, LoginNeedsTunnel, Policies
  <2>4. QED
    BY <2>2, <2>3 DEF SerialInv
<1>2. Proved /\ Proved' /\ SerialInv /\ [Next]_vars => SerialInv'
  BY SerialInvStep
<1>3. QED
  BY <1>1, <1>2, ProvedHolds, PTL DEF Spec

\* Where invocations for one member do not overlap, a member who may log in may
\* also tunnel, at least as long, whatever fails between the two writes: a grant
\* writes the tunnel policy first, a revoke the login policy.
THEOREM LoginTunnels == ASSUME ~Overlap PROVE Spec => []LoginNeedsTunnel
<1>1. SerialInv => LoginNeedsTunnel
  BY DEF SerialInv
<1>2. QED
  BY <1>1, SerialInvHolds, PTL

\* Of an invocation that finds nothing to write: both policies have what it
\* reports.
LEMMA NothingToWrite ==
    ASSUME Proved, SerialInv, NEW h \in Handlers, ReadTunnel(h), pc'[h] = "done"
    PROVE  AccessIsAsReported(h)
<1> DEFINE m == req[h].member
           login == seen[h]["login"]
           tunnel == policy["tunnel"]
           bindings == [login |-> login, tunnel |-> tunnel]
<1>1. /\ clock \in Nat /\ now[h] \in Nat /\ now[h] <= clock /\ pc[h] = "tunnel"
      /\ pc \in [Handlers -> Ended \cup Steps]
      /\ FitsPolicy("login", login) /\ FitsPolicy("tunnel", tunnel)
  BY PolicyFits DEF Proved, TypeInv, TypeOK, SeenFits, LimitInv, Policies, ReadTunnel
<1>2. ~End(h, IF req[h].action = "plan" /\ allowed[h] THEN "planned" ELSE "refused", {})
  BY <1>1 DEF End
<1>3. PICK e \in Candidates(h, login, tunnel) \cup {0}, w \in {<<>>, <<"login">>, <<"tunnel">>, Order(h)} :
          /\ Target(h, login, tunnel, e)
          /\ \A p \in Policies :
                Changes(p, bindings[p], m, req[h].role, e, now[h]) => p \in Elements(w)
          /\ IF w = <<>> THEN End(h, "done", {}) ELSE pc' = [pc EXCEPT ![h] = "write"]
          /\ UNCHANGED policy
  BY <1>2, Zenon DEF ReadTunnel
<1>4. w = <<>>
  BY <1>1, <1>3
<1>5. Elements(w) = {}
  BY <1>4 DEF Elements
<1>6. e \in Nat
  BY <1>1, CandidatesAreTimes DEF Proved, Active, Steps
<1>7. \A p \in Policies : Grants(bindings[p], m, now[h]) = Granted(p, m, req[h].role, e)
  BY <1>3, <1>5, <1>6, UnchangedHolds
<1>8. \A p \in Policies : \A b : b \in Grants(policy'[p], m, clock)
                                  <=> b \in Granted(p, m, req[h].role, e) /\ b.until > clock
  <2>1. /\ \A b : b \in Held("login", m) <=> b \in Grants(login, m, now[h]) /\ b.until > clock
        /\ \A b : b \in Held("tunnel", m) <=> b \in Grants(tunnel, m, now[h]) /\ b.until > clock
    BY <1>1, GrantsLater DEF SerialInv, LoginSeen, Held, Policies
  <2>2. QED
    BY <1>3, <1>7, <2>1 DEF Held, Policies
<1>9. ASSUME NEW f, Reports(h, f) PROVE f = e
  <2>1. Target(h, login, tunnel, f)
    BY <1>1, <1>9 DEF Reports
  <2>2. CASE req[h].revoke
    BY <1>3, <2>1, <2>2 DEF Target
  <2>3. CASE ~req[h].revoke
    <3>1. f \in Candidates(h, login, tunnel) /\ e \in Candidates(h, login, tunnel)
      BY <1>3, <2>1, <2>3 DEF Target
    <3>2. f <= e /\ e <= f
      BY <1>3, <2>1, <2>3, <3>1 DEF Target
    <3>3. f \in Nat
      BY <1>1, <3>1, CandidatesAreTimes DEF Proved, Active, Steps
    <3>4. QED
      BY <1>6, <3>2, <3>3
  <2>4. QED
    BY <2>2, <2>3
<1>10. ASSUME NEW p \in Policies
       PROVE  Grants(policy'[p], m, clock)
                = {b \in {[role |-> RoleIn(p, req[h].role), member |-> m, until |-> e]} : e > clock}
  <2>1. \A b : b \in Grants(policy'[p], m, clock)
            <=> b \in {c \in {[role |-> RoleIn(p, req[h].role), member |-> m, until |-> e]} : e > clock}
    BY <1>1, <1>6, <1>8 DEF Granted
  <2>2. QED
    BY <2>1 DEF Grants
<1>11. QED
  BY <1>9, <1>10 DEF AccessIsAsReported

\* Of an invocation that makes its last write: the policy it writes and the one
\* it wrote before, or did not have to write, have what it reports.
LEMMA LastWrite ==
    ASSUME Proved, SerialInv, NEW h \in Handlers, Write(h), pc'[h] = "done"
    PROVE  AccessIsAsReported(h)
<1> DEFINE p == Head(writes[h])
<1>1. /\ pc[h] = "write" /\ SetPolicy(h, p) /\ p \in Policies /\ UNCHANGED clock
      /\ pc \in [Handlers -> Ended \cup Steps] /\ "done" # "write"
  BY NextWrite DEF Write, Proved, TypeInv, TypeOK
<1>2. Elements(writes[h]) = {p}
  <2>1. Len(writes[h]) = 1
    BY <1>1 DEF Write
  <2>2. \/ writes[h] = <<"login">> /\ p = "login"
        \/ writes[h] = <<"tunnel">> /\ p = "tunnel"
    BY <1>1, <2>1, WriteCases DEF Proved
  <2>3. QED
    BY <2>2, OneElement
<1>3. SUFFICES ASSUME NEW q \in Policies, NEW m \in Members, m = req[h].member
               PROVE  Grants(policy'[q], m, clock) = Reported(h, q)
  <2>1. req[h].member \in Members
    BY <1>1, RequestFields DEF Proved, TypeInv, TypeOK, Active, Steps
  <2>2. QED
    BY <1>1, <1>3, <2>1 DEF AccessIsAsReported, Reports, Reported
<1>4. Held(q, m)' = Reported(h, q)
  BY <1>1, <1>2, <1>3, WriteHeld DEF SerialInv, Settled
<1>5. QED
  BY <1>1, <1>4 DEF Held

\* Where invocations for one member do not overlap, one that answers done leaves
\* exactly the access it reports, whatever earlier ones left half done: the
\* grant in both policies with the role it asked for, or none after a revoke.
THEOREM DoneLeavesAccess == ASSUME ~Overlap PROVE Spec => DoneMeansAccess
<1> DEFINE Reporting == \A h \in Handlers : Active(h) /\ pc'[h] = "done" => AccessIsAsReported(h)
<1>1. Proved /\ SerialInv /\ [Next]_vars => [Reporting]_vars
  <2> SUFFICES ASSUME Proved, SerialInv, Next, NEW h \in Handlers, Active(h), pc'[h] = "done"
               PROVE  AccessIsAsReported(h)
    OBVIOUS
  <2>1. pc \in [Handlers -> Ended \cup Steps]
    BY DEF Proved, TypeInv, TypeOK
  <2>2. ASSUME NEW g \in Handlers, Step(g) PROVE g = h /\ (Write(h) \/ ReadTunnel(h))
    <3>1. \A i \in Handlers : i # g => pc'[i] = pc[i]
      BY <2>1, <2>2 DEF Step, Invoke, ReadInstance, ReadLogin, ReadTunnel, Write,
                        WriteAnswerLost, Fail, End
    <3>2. g = h
      BY <3>1 DEF Active, Steps
    <3>3. ~(Invoke(h) \/ ReadInstance(h) \/ ReadLogin(h) \/ WriteAnswerLost(h) \/ Fail(h))
      BY <2>1 DEF Invoke, ReadInstance, ReadLogin, WriteAnswerLost, Fail, End
    <3>4. QED
      BY <2>2, <3>2, <3>3 DEF Step
  <2>3. ~(Admin \/ Tick)
    BY DEF Admin, Tick, Active, Steps
  <2>4. QED
    BY <2>2, <2>3, LastWrite, NothingToWrite DEF Next
<1>2. QED
  BY <1>1, ProvedHolds, SerialInvHolds, PTL DEF Spec, DoneMeansAccess
===============================================================================
