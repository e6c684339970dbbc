----------------------------- MODULE LbDeleteProofs ----------------------------
(***************************************************************************)
(* Proofs about the lb-delete function, for any number of invocations,     *)
(* Services and target groups.  The invariant says what an invocation      *)
(* knows of the groups after each call: which it has listed, which of      *)
(* those it has looked at, and whose they are.                             *)
(***************************************************************************)
EXTENDS LbDelete, TLAPS

\* The load balancer still has the owner it had when it was read.
KnowsLb(s) == s.lb # NoLb /\ lb # NoLb => lb.owner = s.lb.owner

\* What was listed by tags was created for the Service.
ListedOwned(h, s) ==
    s.lb = NoLb => \A t \in s.listed \cap DOMAIN groups : groups[t].owner = req[h].service

\* The groups an invocation that read s has to look at.
Concerns(h, s, t) ==
    IF s.lb # NoLb
    THEN groups[t].user = "lb" /\ lb.owner = req[h].service
    ELSE groups[t].owner = req[h].service

\* While it lists, while it looks at their health, and while it deletes.
ListInv(h, s) ==
    /\ KnowsLb(s)
    /\ ListedOwned(h, s)
    /\ Quiet => \A t \in DOMAIN groups : Concerns(h, s, t) => t \in s.listed \cup s.left

HealthInv(h, s) ==
    /\ KnowsLb(s)
    /\ ListedOwned(h, s)
    /\ Quiet => \A t \in DOMAIN groups : Concerns(h, s, t) =>
                    t \in s.listed /\ (t \in s.left \/ s.live \/ ~groups[t].live)

DeleteLbInv(h) ==
    lb # NoLb =>
        /\ lb.owner = req[h].service
        /\ Quiet => \A t \in DOMAIN groups : groups[t].user = "lb" => ~groups[t].live

DeleteGroupsInv(h, left) ==
    \A t \in DOMAIN groups :
        /\ t \in left => groups[t].owner = req[h].service
        /\ Quiet /\ groups[t].owner = req[h].service => t \in left /\ ~groups[t].live

HandlerInv(h) ==
    /\ pc[h] \in Steps => req[h] \in Request
    /\ pc[h] = "attributes" => seen[h].lb # NoLb
    /\ pc[h] \in {"attributes", "list"} => ListInv(h, seen[h])
    /\ pc[h] = "health" => HealthInv(h, seen[h])
    /\ pc[h] = "deleteLb" => DeleteLbInv(h)
    /\ pc[h] = "deleteGroups" => DeleteGroupsInv(h, seen[h].left)

IInv == TypeOK /\ \A h \in Handlers : HandlerInv(h)

-------------------------------------------------------------------------------
\* No load balancer is none.
LEMMA SomeLb ==
    ASSUME NEW b \in LoadBalancer PROVE b # NoLb
BY DEF LoadBalancer, NoLb

\* An invocation that no step of its own concerns, while the resources stay.
LEMMA Bystander ==
    ASSUME IInv, NEW g \in Handlers,
           pc'[g] = pc[g], req'[g] = req[g], seen'[g] = seen[g], UNCHANGED <<lb, groups>>
    PROVE  HandlerInv(g)'
BY DEF IInv, HandlerInv, ListInv, HealthInv, DeleteLbInv, DeleteGroupsInv, KnowsLb,
       ListedOwned, Concerns

\* An invocation that ended knows nothing.
LEMMA EndInv ==
    ASSUME NEW h \in Handlers, TypeOK, NEW outcome \in Ended, End(h, outcome)
    PROVE  HandlerInv(h)'
BY DEF TypeOK, End, Ended, Steps, HandlerInv

\* The local variables keep their types.
LocalsOK ==
    /\ pc' \in [Handlers -> Ended \cup Steps]
    /\ req' \in [Handlers -> Request \cup {NoRequest}]
    /\ seen' \in [Handlers -> Seen]

LEMMA NothingType == Nothing \in Seen
BY DEF Nothing, Seen

LEMMA EndType ==
    ASSUME NEW h \in Handlers, TypeOK, NEW outcome \in Ended, End(h, outcome)
    PROVE  LocalsOK /\ pc'[h] # "deleteGroups"
BY NothingType DEF TypeOK, End, Ended, LocalsOK

LEMMA GoesType ==
    ASSUME NEW h \in Handlers, TypeOK, NEW step \in Steps, NEW s \in Seen, Goes(h, step, s)
    PROVE  LocalsOK /\ pc'[h] = step /\ seen'[h] = s
BY DEF TypeOK, Goes, LocalsOK

-------------------------------------------------------------------------------
\* What is decided from what was read and looked at.
LEMMA DecideInv ==
    ASSUME IInv, NEW h \in Handlers, NEW s \in Seen, s.left = {}, req[h] \in Request,
           HealthInv(h, s), Decide(h, s), UNCHANGED <<lb, groups>>
    PROVE  /\ HandlerInv(h)'
           /\ LocalsOK
           /\ pc'[h] = "deleteGroups" => seen'[h].left # {}
<1> DEFINE LeftOver == [Nothing EXCEPT !.left = s.listed]
<1>0. TypeOK
  BY DEF IInv
<1>1. CASE req[h].action = "plan"
  BY <1>0, <1>1, EndInv, EndType DEF Decide, Ended
<1>2. CASE req[h].action # "plan" /\ ~Guards(s, req[h].service)
  BY <1>0, <1>2, EndInv, EndType DEF Decide, Ended
<1>3. CASE req[h].action # "plan" /\ Guards(s, req[h].service) /\ s.lb # NoLb
  <2>1. Goes(h, "deleteLb", Nothing)
    BY <1>3 DEF Decide
  <2>2. LocalsOK /\ pc'[h] = "deleteLb" /\ req' = req
    BY <1>0, <2>1, GoesType, NothingType DEF Steps, Goes
  <2>3. DeleteLbInv(h)
    BY <1>3 DEF Guards, Owned, HealthInv, KnowsLb, Concerns, DeleteLbInv
  <2>4. DeleteLbInv(h)'
    BY <2>2, <2>3 DEF DeleteLbInv
  <2>5. QED
    BY <2>2, <2>4 DEF HandlerInv
<1>4. CASE req[h].action # "plan" /\ Guards(s, req[h].service) /\ s.lb = NoLb
  <2>1. Goes(h, "deleteGroups", LeftOver) /\ s.listed # {} /\ ~s.live
    BY <1>4 DEF Decide, Guards
  <2>2. LeftOver \in Seen /\ LeftOver.left = s.listed
    BY DEF Seen, Nothing
  <2>3. LocalsOK /\ pc'[h] = "deleteGroups" /\ req' = req /\ seen'[h].left = s.listed
    BY <1>0, <2>1, <2>2, GoesType DEF Steps, Goes
  <2>4. DeleteGroupsInv(h, s.listed)
    BY <1>4, <2>1 DEF HealthInv, ListedOwned, Concerns, DeleteGroupsInv
  <2>5. DeleteGroupsInv(h, seen[h].left)'
    BY <2>3, <2>4 DEF DeleteGroupsInv
  <2>6. QED
    BY <2>1, <2>3, <2>5 DEF HandlerInv
<1>5. QED
  BY <1>1, <1>2, <1>3, <1>4

\* The same if the health of some groups is not known yet.
LEMMA LookNextInv ==
    ASSUME IInv, NEW h \in Handlers, NEW s \in Seen, req[h] \in Request,
           HealthInv(h, s), LookNext(h, s), UNCHANGED <<lb, groups>>
    PROVE  /\ HandlerInv(h)'
           /\ LocalsOK
           /\ pc'[h] = "deleteGroups" => seen'[h].left # {}
<1>1. CASE s.left = {}
  BY <1>1, DecideInv DEF LookNext
<1>2. CASE s.left # {}
  <2>1. LocalsOK /\ pc'[h] = "health" /\ seen'[h] = s /\ req' = req
    BY <1>2, GoesType DEF LookNext, IInv, Steps, Goes
  <2>2. HealthInv(h, seen[h])'
    BY <2>1 DEF HealthInv, KnowsLb, ListedOwned, Concerns
  <2>3. QED
    BY <2>1, <2>2 DEF HandlerInv
<1>3. QED
  BY <1>1, <1>2

\* A step of an invocation that changes neither the load balancer nor the groups
\* leaves the other invocations alone.
LEMMA ReadStep ==
    ASSUME IInv, NEW h \in Handlers, UNCHANGED <<lb, groups, changes>>, LocalsOK,
           \A g \in Handlers \ {h} : pc'[g] = pc[g] /\ req'[g] = req[g] /\ seen'[g] = seen[g],
           HandlerInv(h)',
           pc'[h] = "deleteGroups" => seen'[h].left # {}
    PROVE  IInv'
<1>1. TypeOK'
  BY DEF IInv, TypeOK, LocalsOK
<1>2. \A g \in Handlers \ {h} : HandlerInv(g)'
  BY Bystander
<1>3. QED
  BY <1>1, <1>2 DEF IInv

LEMMA ReadSteps ==
    ASSUME IInv, NEW h \in Handlers,
           FindLb(h) \/ ReadAttributes(h) \/ ListPage(h) \/ ReadHealth(h)
    PROVE  IInv'
<1> USE DEF IInv
<1>0. req[h] \in Request
  <2>1. pc[h] \in Steps
    BY DEF FindLb, ReadAttributes, ListPage, ReadHealth, Steps
  <2>2. QED
    BY <2>1 DEF HandlerInv
<1>1. ASSUME FindLb(h) PROVE IInv'
  <2> DEFINE s == [Nothing EXCEPT !.lb = lb, !.left = TGs]
  <2>1. s \in Seen /\ s.lb = lb /\ s.left = TGs /\ s.listed = {}
    BY DEF TypeOK, Seen, Nothing
  <2>2. LocalsOK /\ pc'[h] = (IF lb = NoLb THEN "list" ELSE "attributes") /\ seen'[h] = s /\ req' = req
    BY <1>1, <2>1, GoesType DEF FindLb, Steps, Goes
  <2>3. ListInv(h, s)
    BY <2>1 DEF TypeOK, ListInv, KnowsLb, ListedOwned
  <2>4. ListInv(h, seen[h])'
    BY <1>1, <2>2, <2>3 DEF FindLb, ListInv, KnowsLb, ListedOwned, Concerns
  <2>5. HandlerInv(h)'
    BY <1>0, <2>1, <2>2, <2>4 DEF HandlerInv
  <2>6. QED
    BY <1>1, <2>2, <2>5, ReadStep DEF FindLb, Goes, TypeOK
<1>2. ASSUME ReadAttributes(h) PROVE IInv'
  <2> DEFINE s == [seen[h] EXCEPT !.lb.protected = lb.protected]
  <2>1. lb \in LoadBalancer /\ seen[h] \in Seen /\ seen[h].lb \in LoadBalancer
    BY <1>2 DEF ReadAttributes, TypeOK, HandlerInv, Seen
  <2>2. /\ s \in Seen /\ s.lb \in LoadBalancer /\ s.lb.owner = seen[h].lb.owner
        /\ s.left = seen[h].left /\ s.listed = seen[h].listed
    BY <2>1 DEF Seen, LoadBalancer
  <2>3. LocalsOK /\ pc'[h] = "list" /\ seen'[h] = s /\ req' = req
    BY <1>2, <2>2, GoesType DEF ReadAttributes, Steps, Goes
  <2>4. s.lb # NoLb /\ seen[h].lb # NoLb
    BY <2>1, <2>2, SomeLb
  <2>5. ListInv(h, s)
    BY <1>2, <2>2, <2>4 DEF ReadAttributes, HandlerInv, ListInv, KnowsLb, ListedOwned, Concerns
  <2>6. ListInv(h, seen[h])'
    BY <1>2, <2>3, <2>5 DEF ReadAttributes, ListInv, KnowsLb, ListedOwned, Concerns
  <2>7. HandlerInv(h)'
    BY <1>0, <2>3, <2>6 DEF HandlerInv
  <2>8. QED
    BY <1>2, <2>3, <2>7, ReadStep DEF ReadAttributes, Goes, TypeOK
<1>3. ASSUME ListPage(h) PROVE IInv'
  <2>1. PICK page \in SUBSET seen[h].left \ {{}} :
            LET found == page \cap Listed(seen[h], req[h].service)
                s == [seen[h] EXCEPT !.listed = @ \cup found, !.left = @ \ page,
                        !.used = @ \/ \E t \in found : groups[t].user # "none"]
            IN  IF s.left # {} THEN Goes(h, "list", s)
                ELSE LookNext(h, [s EXCEPT !.left = s.listed])
    BY <1>3 DEF ListPage
  <2> DEFINE found == page \cap Listed(seen[h], req[h].service)
             s == [seen[h] EXCEPT !.listed = @ \cup found, !.left = @ \ page,
                     !.used = @ \/ \E t \in found : groups[t].user # "none"]
             looking == [s EXCEPT !.left = s.listed]
  <2>2. seen[h] \in Seen /\ ListInv(h, seen[h]) /\ UNCHANGED <<lb, groups, changes>>
    BY <1>3 DEF ListPage, TypeOK, HandlerInv
  <2>3. found \subseteq TGs /\ found \subseteq DOMAIN groups
    BY DEF TypeOK, Listed
  <2>4. /\ s \in Seen /\ s.lb = seen[h].lb /\ s.left = seen[h].left \ page
        /\ s.listed = seen[h].listed \cup found
    BY <2>2, <2>3 DEF Seen
  <2>5. \A t \in found : s.lb = NoLb => groups[t].owner = req[h].service
    BY <2>4 DEF Listed, Owned
  <2>6. \A t \in DOMAIN groups : Concerns(h, s, t) /\ t \in page => t \in found
    BY <2>4 DEF Listed, Owned, Concerns
  <2>7. ListInv(h, s)
    <3>1. KnowsLb(s) /\ ListedOwned(h, s)
      BY <2>2, <2>4, <2>5 DEF ListInv, KnowsLb, ListedOwned
    <3>2. ASSUME Quiet, NEW t \in DOMAIN groups, Concerns(h, s, t)
          PROVE  t \in s.listed \cup s.left
      BY <2>2, <2>4, <2>6, <3>2 DEF ListInv, Concerns
    <3>3. QED
      BY <3>1, <3>2 DEF ListInv
  <2>8. CASE s.left # {}
    <3>1. Goes(h, "list", s)
      BY <2>1, <2>8
    <3>2. LocalsOK /\ pc'[h] = "list" /\ seen'[h] = s /\ req' = req
      BY <2>4, <3>1, GoesType DEF Steps, Goes
    <3>3. ListInv(h, seen[h])'
      BY <2>2, <2>7, <3>2 DEF ListInv, KnowsLb, ListedOwned, Concerns
    <3>4. HandlerInv(h)'
      BY <1>0, <3>2, <3>3 DEF HandlerInv
    <3>5. QED
      BY <2>2, <3>1, <3>2, <3>4, ReadStep DEF Goes, TypeOK
  <2>9. CASE s.left = {}
    <3>1. LookNext(h, looking)
      BY <2>1, <2>9
    <3>2. looking \in Seen /\ looking.lb = s.lb /\ looking.listed = s.listed /\ looking.left = s.listed
      BY <2>4 DEF Seen
    <3>3. HealthInv(h, looking)
      BY <2>7, <2>9, <3>2 DEF ListInv, HealthInv, KnowsLb, ListedOwned, Concerns
    <3>4. HandlerInv(h)' /\ LocalsOK /\ (pc'[h] = "deleteGroups" => seen'[h].left # {})
      BY <1>0, <2>2, <3>1, <3>2, <3>3, LookNextInv
    <3>5. QED
      BY <2>2, <3>1, <3>4, ReadStep DEF LookNext, Decide, End, Goes, TypeOK
  <2>10. QED
    BY <2>8, <2>9
<1>4. ASSUME ReadHealth(h) PROVE IInv'
  <2>1. PICK t \in seen[h].left \cap DOMAIN groups :
            LookNext(h, [seen[h] EXCEPT !.left = @ \ {t}, !.live = @ \/ IsLive(groups[t])])
    BY <1>4 DEF ReadHealth
  <2> DEFINE s == [seen[h] EXCEPT !.left = @ \ {t}, !.live = @ \/ IsLive(groups[t])]
  <2>2. seen[h] \in Seen /\ HealthInv(h, seen[h]) /\ UNCHANGED <<lb, groups, changes>>
    BY <1>4 DEF ReadHealth, TypeOK, HandlerInv
  <2>3. groups[t].live \in BOOLEAN
    BY DEF TypeOK, Group
  <2>4. /\ s \in Seen /\ s.lb = seen[h].lb /\ s.listed = seen[h].listed
        /\ s.left = seen[h].left \ {t} /\ s.live = (seen[h].live \/ groups[t].live)
    BY <2>2, <2>3 DEF Seen, IsLive
  <2>5. HealthInv(h, s)
    BY <2>2, <2>4 DEF HealthInv, KnowsLb, ListedOwned, Concerns
  <2>6. HandlerInv(h)' /\ LocalsOK /\ (pc'[h] = "deleteGroups" => seen'[h].left # {})
    BY <1>0, <2>1, <2>2, <2>4, <2>5, LookNextInv
  <2>7. QED
    BY <2>1, <2>2, <2>6, ReadStep DEF LookNext, Decide, End, Goes, TypeOK
<1>5. QED
  BY <1>1, <1>2, <1>3, <1>4

-------------------------------------------------------------------------------
\* The deletions: what goes concerns other invocations less than before.
LEMMA DeletionKeeps ==
    ASSUME IInv, NEW g \in Handlers,
           pc'[g] = pc[g], req'[g] = req[g], seen'[g] = seen[g],
           lb' \in {lb, NoLb},
           DOMAIN groups' \subseteq DOMAIN groups,
           \A t \in DOMAIN groups' :
               /\ groups'[t].owner = groups[t].owner /\ groups'[t].live = groups[t].live
               /\ groups'[t].user = "lb" => groups[t].user = "lb" /\ lb' = lb
    PROVE  HandlerInv(g)'
<1>1. ASSUME NEW s, KnowsLb(s) PROVE KnowsLb(s)'
  BY <1>1 DEF KnowsLb
<1>2. ASSUME NEW s, ListedOwned(g, s) PROVE ListedOwned(g, s)'
  BY <1>2 DEF ListedOwned
<1>3. ASSUME NEW s, NEW t \in DOMAIN groups', Concerns(g, s, t)' PROVE Concerns(g, s, t)
  BY <1>3 DEF Concerns
<1>4. ASSUME pc[g] \in {"attributes", "list"} PROVE ListInv(g, seen[g])'
  <2>1. ListInv(g, seen[g])
    BY <1>4 DEF IInv, HandlerInv
  <2>2. QED
    BY <1>1, <1>2, <1>3, <2>1 DEF ListInv, KnowsLb, ListedOwned, Concerns
<1>5. ASSUME pc[g] = "health" PROVE HealthInv(g, seen[g])'
  <2>1. HealthInv(g, seen[g])
    BY <1>5 DEF IInv, HandlerInv
  <2>2. QED
    BY <1>1, <1>2, <1>3, <2>1 DEF HealthInv, KnowsLb, ListedOwned, Concerns
<1>6. ASSUME pc[g] = "deleteLb" PROVE DeleteLbInv(g)'
  BY <1>6 DEF IInv, HandlerInv, DeleteLbInv
<1>7. ASSUME pc[g] = "deleteGroups" PROVE DeleteGroupsInv(g, seen[g].left)'
  BY <1>7 DEF IInv, HandlerInv, DeleteGroupsInv
<1>8. QED
  BY <1>4, <1>5, <1>6, <1>7 DEF IInv, HandlerInv

LEMMA DeleteLbStep ==
    ASSUME IInv, NEW h \in Handlers, DeleteLb(h)
    PROVE  IInv'
<1>1. PICK outcome \in {"done", "failed"} : End(h, outcome)
  BY DEF DeleteLb
<1>2. TypeOK /\ lb' = NoLb /\ changes' = changes
  BY DEF IInv, DeleteLb
<1>3. HandlerInv(h)' /\ LocalsOK /\ pc'[h] # "deleteGroups"
  BY <1>1, <1>2, EndInv, EndType DEF Ended
<1>4. /\ DOMAIN groups' = DOMAIN groups
      /\ \A t \in DOMAIN groups :
            /\ groups'[t] \in Group /\ groups'[t].user # "lb"
            /\ groups'[t].owner = groups[t].owner /\ groups'[t].live = groups[t].live
  BY <1>2 DEF DeleteLb, TypeOK, Group
<1>5. \A g \in Handlers \ {h} : pc'[g] = pc[g] /\ req'[g] = req[g] /\ seen'[g] = seen[g]
  BY <1>1, <1>2 DEF TypeOK, End
<1>6. TypeOK'
  BY <1>2, <1>3, <1>4, <1>5 DEF TypeOK, LocalsOK
<1>7. \A g \in Handlers \ {h} : HandlerInv(g)'
  BY <1>2, <1>4, <1>5, DeletionKeeps
<1>8. QED
  BY <1>3, <1>6, <1>7 DEF IInv

LEMMA DeleteGroupStep ==
    ASSUME IInv, NEW h \in Handlers, DeleteGroup(h)
    PROVE  IInv'
<1>1. PICK t \in seen[h].left :
        /\ t \in DOMAIN groups => groups[t].user = "none"
        /\ groups' = [u \in DOMAIN groups \ {t} |-> groups[u]]
        /\ \/ /\ seen[h].left # {t}
              /\ Goes(h, "deleteGroups", [seen[h] EXCEPT !.left = @ \ {t}])
           \/ seen[h].left = {t} /\ End(h, "done")
           \/ End(h, "failed")
  BY DEF DeleteGroup
<1> DEFINE s == [seen[h] EXCEPT !.left = @ \ {t}]
<1>2. TypeOK /\ lb' = lb /\ changes' = changes /\ pc[h] = "deleteGroups"
  BY DEF IInv, DeleteGroup
<1>3. seen[h] \in Seen /\ s \in Seen /\ s.left = seen[h].left \ {t}
  BY <1>2 DEF TypeOK, Seen
<1>4. HandlerInv(h)' /\ LocalsOK /\ (pc'[h] = "deleteGroups" => seen'[h].left # {})
  <2>1. CASE End(h, "done") \/ End(h, "failed")
    BY <1>2, <2>1, EndInv, EndType DEF Ended
  <2>2. CASE seen[h].left # {t} /\ Goes(h, "deleteGroups", s)
    <3>1. LocalsOK /\ pc'[h] = "deleteGroups" /\ seen'[h] = s /\ req' = req
      BY <1>2, <1>3, <2>2, GoesType DEF Steps, Goes
    <3>2. DeleteGroupsInv(h, seen[h].left)'
      BY <1>1, <1>2, <1>3, <3>1 DEF IInv, HandlerInv, DeleteGroupsInv
    <3>3. HandlerInv(h)'
      BY <1>2, <3>1, <3>2 DEF IInv, HandlerInv
    <3>4. QED
      BY <1>3, <2>2, <3>1, <3>3
  <2>3. QED
    BY <1>1, <2>1, <2>2
<1>5. \A g \in Handlers \ {h} : pc'[g] = pc[g] /\ req'[g] = req[g] /\ seen'[g] = seen[g]
  BY <1>1, <1>2 DEF TypeOK, End, Goes
<1>6. TypeOK'
  BY <1>1, <1>2, <1>4, <1>5 DEF TypeOK, LocalsOK
<1>7. \A g \in Handlers \ {h} : HandlerInv(g)'
  BY <1>1, <1>2, <1>5, DeletionKeeps
<1>8. QED
  BY <1>4, <1>6, <1>7 DEF IInv

-------------------------------------------------------------------------------
\* What everybody else does while an invocation is busy.
LEMMA CreateGroupStep == ASSUME IInv, CreateGroup PROVE IInv'
<1>1. PICK t \in TGs \ DOMAIN groups, g \in Group :
        /\ \A h \in Handlers : t \notin Known(h)
        /\ g.user = "lb" => lb # NoLb /\ g.owner = lb.owner
        /\ Quiet => ~Busy(g.owner)
        /\ groups' = [u \in DOMAIN groups \cup {t} |-> IF u = t THEN g ELSE groups[u]]
  BY DEF CreateGroup
<1>2. UNCHANGED <<lb, pc, req, seen>> /\ changes < MaxChanges /\ changes' = changes + 1
  BY DEF CreateGroup, Change, invocations
<1>3. /\ DOMAIN groups' = DOMAIN groups \cup {t} /\ groups'[t] = g
      /\ \A u \in DOMAIN groups : groups'[u] = groups[u]
  BY <1>1
<1>4. changes' \in 0 .. MaxChanges
  BY <1>2, QuietAssumption DEF IInv, TypeOK
<1>5. TypeOK'
  BY <1>1, <1>2, <1>3, <1>4 DEF IInv, TypeOK
<1>6. ASSUME NEW h \in Handlers PROVE HandlerInv(h)'
  <2>1. \A s \in Seen : Quiet /\ pc[h] \in Steps => ~Concerns(h, s, t)'
    BY <1>1, <1>2, <1>3 DEF Busy, Concerns
  <2>2. seen[h] \in Seen
    BY DEF IInv, TypeOK
  <2>3. ASSUME pc[h] \in {"attributes", "list"} PROVE ListInv(h, seen[h])'
    <3>1. ListInv(h, seen[h]) /\ pc[h] \in Steps /\ t \notin seen[h].listed
      BY <1>1, <2>3 DEF IInv, HandlerInv, Steps, Known
    <3>2. QED
      BY <1>2, <1>3, <2>1, <2>2, <3>1 DEF ListInv, KnowsLb, ListedOwned, Concerns
  <2>4. ASSUME pc[h] = "health" PROVE HealthInv(h, seen[h])'
    <3>1. HealthInv(h, seen[h]) /\ pc[h] \in Steps /\ t \notin seen[h].listed
      BY <1>1, <2>4 DEF IInv, HandlerInv, Steps, Known
    <3>2. QED
      BY <1>2, <1>3, <2>1, <2>2, <3>1 DEF HealthInv, KnowsLb, ListedOwned, Concerns
  <2>5. ASSUME pc[h] = "deleteLb" PROVE DeleteLbInv(h)'
    <3>1. DeleteLbInv(h) /\ pc[h] \in Steps
      BY <2>5 DEF IInv, HandlerInv, Steps
    <3>2. QED
      BY <1>1, <1>2, <1>3, <3>1 DEF DeleteLbInv, Busy
  <2>6. ASSUME pc[h] = "deleteGroups" PROVE DeleteGroupsInv(h, seen[h].left)'
    <3>1. DeleteGroupsInv(h, seen[h].left) /\ pc[h] \in Steps /\ t \notin seen[h].left
      BY <1>1, <2>6 DEF IInv, HandlerInv, Steps, Known
    <3>2. QED
      BY <1>1, <1>2, <1>3, <3>1 DEF DeleteGroupsInv, Busy
  <2>7. QED
    BY <1>2, <2>3, <2>4, <2>5, <2>6 DEF IInv, HandlerInv
<1>7. QED
  BY <1>5, <1>6 DEF IInv

LEMMA ChangeGroupStep == ASSUME IInv, ChangeGroup PROVE IInv'
<1>1. UNCHANGED <<lb, pc, req, seen>> /\ changes < MaxChanges /\ changes' = changes + 1
  BY DEF ChangeGroup, Change, invocations
<1>2. PICK t \in DOMAIN groups :
        \/ /\ ~groups[t].live
           /\ Quiet => ~Busy(groups[t].owner)
           /\ groups[t].user = "lb" /\ Quiet => ~Busy(lb.owner)
           /\ groups' = [groups EXCEPT ![t].live = TRUE]
        \/ groups[t].live /\ groups' = [groups EXCEPT ![t].live = FALSE]
        \/ groups[t].user = "none" /\ groups' = [groups EXCEPT ![t].user = "other"]
        \/ groups[t].user = "other" /\ groups' = [groups EXCEPT ![t].user = "none"]
  BY DEF ChangeGroup
<1>3. groups[t] \in Group /\ TypeOK
  BY DEF IInv, TypeOK
<1>4. /\ DOMAIN groups' = DOMAIN groups
      /\ \A u \in DOMAIN groups \ {t} : groups'[u] = groups[u]
      /\ groups'[t] \in Group
      /\ groups'[t].owner = groups[t].owner
      /\ groups'[t].user = "lb" <=> groups[t].user = "lb"
      /\ groups'[t].live => \/ groups[t].live
                            \/ /\ Quiet => ~Busy(groups[t].owner)
                               /\ groups[t].user = "lb" /\ Quiet => ~Busy(lb.owner)
  <2>1. CASE /\ ~groups[t].live
             /\ Quiet => ~Busy(groups[t].owner)
             /\ groups[t].user = "lb" /\ Quiet => ~Busy(lb.owner)
             /\ groups' = [groups EXCEPT ![t].live = TRUE]
    <3>1. /\ DOMAIN groups' = DOMAIN groups
          /\ \A u \in DOMAIN groups \ {t} : groups'[u] = groups[u]
          /\ groups'[t] = [groups[t] EXCEPT !.live = TRUE]
      BY <2>1
    <3>2. QED
      BY <1>3, <2>1, <3>1 DEF Group
  <2>2. CASE groups[t].live /\ groups' = [groups EXCEPT ![t].live = FALSE]
    BY <1>3, <2>2 DEF Group
  <2>3. CASE groups[t].user = "none" /\ groups' = [groups EXCEPT ![t].user = "other"]
    BY <1>3, <2>3 DEF Group
  <2>4. CASE groups[t].user = "other" /\ groups' = [groups EXCEPT ![t].user = "none"]
    BY <1>3, <2>4 DEF Group
  <2>5. QED
    BY <1>2, <2>1, <2>2, <2>3, <2>4
<1>5. changes' \in 0 .. MaxChanges
  BY <1>1, <1>3, QuietAssumption DEF TypeOK
<1>6. TypeOK'
  BY <1>1, <1>3, <1>4, <1>5 DEF TypeOK
<1>7. ASSUME NEW h \in Handlers PROVE HandlerInv(h)'
  <2>1. ASSUME NEW s, NEW u \in DOMAIN groups
        PROVE  Concerns(h, s, u)' <=> Concerns(h, s, u)
    BY <1>1, <1>4 DEF Concerns
  <2>2. ASSUME NEW s, pc[h] \in Steps, Concerns(h, s, t), Quiet, groups'[t].live
        PROVE  groups[t].live
    BY <1>4, <2>2 DEF Concerns, Busy
  <2>3. ASSUME NEW s, KnowsLb(s), ListedOwned(h, s) PROVE KnowsLb(s)' /\ ListedOwned(h, s)'
    BY <1>1, <1>4, <2>3 DEF KnowsLb, ListedOwned
  <2>4. ASSUME pc[h] \in {"attributes", "list"} PROVE ListInv(h, seen[h])'
    <3>1. ListInv(h, seen[h])
      BY <2>4 DEF IInv, HandlerInv
    <3>2. QED
      BY <1>1, <1>4, <2>1, <2>3, <3>1 DEF ListInv, KnowsLb, ListedOwned, Concerns
  <2>5. ASSUME pc[h] = "health" PROVE HealthInv(h, seen[h])'
    <3>1. HealthInv(h, seen[h]) /\ pc[h] \in Steps
      BY <2>5 DEF IInv, HandlerInv, Steps
    <3>2. (KnowsLb(seen[h]) /\ ListedOwned(h, seen[h]))'
      BY <1>1, <2>3, <3>1 DEF HealthInv, KnowsLb, ListedOwned
    <3>3. ASSUME Quiet, NEW u \in DOMAIN groups, Concerns(h, seen[h], u)
          PROVE  u \in seen[h].listed /\ (u \in seen[h].left \/ seen[h].live \/ ~groups'[u].live)
      BY <1>4, <2>2, <3>1, <3>3 DEF HealthInv
    <3>4. QED
      BY <1>1, <1>4, <2>1, <3>2, <3>3 DEF HealthInv, Concerns
  <2>6. ASSUME pc[h] = "deleteLb" PROVE DeleteLbInv(h)'
    <3>1. DeleteLbInv(h) /\ pc[h] \in Steps
      BY <2>6 DEF IInv, HandlerInv, Steps
    <3>2. QED
      BY <1>1, <1>4, <3>1 DEF DeleteLbInv, Busy
  <2>7. ASSUME pc[h] = "deleteGroups" PROVE DeleteGroupsInv(h, seen[h].left)'
    <3>1. DeleteGroupsInv(h, seen[h].left) /\ pc[h] \in Steps
      BY <2>7 DEF IInv, HandlerInv, Steps
    <3>2. QED
      BY <1>1, <1>4, <3>1 DEF DeleteGroupsInv, Busy
  <2>8. QED
    BY <1>1, <2>4, <2>5, <2>6, <2>7 DEF IInv, HandlerInv
<1>8. QED
  BY <1>6, <1>7 DEF IInv

LEMMA ChangeLbStep == ASSUME IInv, ChangeLb PROVE IInv'
<1>1. /\ UNCHANGED <<groups, pc, req, seen>> /\ changes < MaxChanges /\ changes' = changes + 1
      /\ lb # NoLb
  BY DEF ChangeLb, Change, invocations
<1>2. lb \in LoadBalancer
  BY <1>1 DEF IInv, TypeOK
<1>3. lb' \in LoadBalancer /\ lb'.owner = lb.owner
  BY <1>2 DEF ChangeLb, LoadBalancer
<1>4. lb' # NoLb
  BY <1>3, SomeLb
<1>5. changes' \in 0 .. MaxChanges
  BY <1>1, QuietAssumption DEF IInv, TypeOK
<1>6. TypeOK'
  BY <1>1, <1>3, <1>4, <1>5 DEF IInv, TypeOK
<1>7. ASSUME NEW h \in Handlers PROVE HandlerInv(h)'
  BY <1>1, <1>3, <1>4 DEF IInv, HandlerInv, ListInv, HealthInv, DeleteLbInv, DeleteGroupsInv,
     KnowsLb, ListedOwned, Concerns
<1>8. QED
  BY <1>6, <1>7 DEF IInv

-------------------------------------------------------------------------------
LEMMA StartStep ==
    ASSUME IInv, NEW h \in Handlers, NEW action \in {"plan", "execute"}, Start(h, action)
    PROVE  IInv'
<1>1. PICK service \in Services :
        req' = [req EXCEPT ![h] = [action |-> action, service |-> service]]
  BY DEF Start
<1>2. TypeOK /\ pc' = [pc EXCEPT ![h] = "find"] /\ UNCHANGED <<lb, groups, changes, seen>>
  BY DEF IInv, Start
<1>3. LocalsOK /\ pc'[h] = "find" /\ req'[h] \in Request
  BY <1>1, <1>2 DEF TypeOK, LocalsOK, Steps, Request
<1>4. HandlerInv(h)'
  BY <1>3 DEF HandlerInv
<1>5. QED
  BY <1>1, <1>2, <1>3, <1>4, ReadStep DEF TypeOK

LEMMA FailStep ==
    ASSUME IInv, NEW h \in Handlers, Fail(h)
    PROVE  IInv'
<1>1. TypeOK /\ End(h, "failed") /\ UNCHANGED <<lb, groups, changes>>
  BY DEF IInv, Fail
<1>2. HandlerInv(h)' /\ LocalsOK /\ pc'[h] # "deleteGroups"
  BY <1>1, EndInv, EndType DEF Ended
<1>3. QED
  BY <1>1, <1>2, ReadStep DEF End, TypeOK

\* Every step preserves the invariant.
LEMMA StepKeeps == ASSUME IInv, [Next]_vars PROVE IInv'
<1>1. ASSUME NEW h \in Handlers, Step(h) PROVE IInv'
  BY <1>1, StartStep, ReadSteps, DeleteLbStep, DeleteGroupStep, FailStep DEF Step
<1>2. ASSUME UNCHANGED vars PROVE IInv'
  BY <1>2 DEF vars, IInv, TypeOK, HandlerInv, ListInv, HealthInv, DeleteLbInv, DeleteGroupsInv,
     KnowsLb, ListedOwned, Concerns
<1>3. QED
  BY <1>1, <1>2, CreateGroupStep, ChangeGroupStep, ChangeLbStep DEF Next

LEMMA Invariant == Spec => []IInv
<1>1. ASSUME Init PROVE IInv
  <2>1. TypeOK
    BY <1>1, NothingType, QuietAssumption DEF Init, TypeOK, Ended
  <2>2. QED
    BY <1>1, <2>1 DEF Init, IInv, HandlerInv, Steps
<1>2. QED
  BY <1>1, StepKeeps, PTL DEF Spec

\* Every reachable state is well typed, and an execute that deletes groups has one
\* left to delete (main.rs: what is deleted was listed).
THEOREM TypeCorrect == Spec => []TypeOK
<1>1. IInv => TypeOK
  BY DEF IInv
<1>2. QED
  BY <1>1, Invariant, PTL

\* A step of one invocation that makes a group or the load balancer go.
LEMMA WhoDeletes ==
    ASSUME IInv, [Next]_vars
    PROVE  /\ LbGoes => \E h \in Handlers : DeleteLb(h)
           /\ \A t \in DOMAIN groups : GroupGoes(t) => \E h \in Handlers : DeleteGroup(h)
<1>1. ASSUME NEW h \in Handlers, Step(h), ~DeleteLb(h)
      PROVE  lb' = lb
  BY <1>1 DEF Step, Start, FindLb, ReadAttributes, ListPage, ReadHealth, DeleteGroup, Fail
<1>2. ASSUME NEW h \in Handlers, Step(h), ~DeleteGroup(h)
      PROVE  DOMAIN groups' = DOMAIN groups
  BY <1>2 DEF Step, Start, FindLb, ReadAttributes, ListPage, ReadHealth, DeleteLb, Fail
<1>3. ASSUME CreateGroup \/ ChangeGroup
      PROVE  lb' = lb /\ DOMAIN groups \subseteq DOMAIN groups'
  BY <1>3 DEF CreateGroup, ChangeGroup
<1>4. ASSUME ChangeLb PROVE lb' # NoLb /\ groups' = groups
  <2>1. lb \in LoadBalancer
    BY <1>4 DEF ChangeLb, IInv, TypeOK
  <2>2. lb' \in LoadBalancer
    BY <1>4, <2>1 DEF ChangeLb, LoadBalancer
  <2>3. QED
    BY <1>4, <2>2, SomeLb DEF ChangeLb
<1>5. QED
  BY <1>1, <1>2, <1>3, <1>4 DEF Next, vars, LbGoes, GroupGoes

\* What an execute deletes was created for the Service its caller named: the load
\* balancer's and the groups' owners are still those it read (main.rs:7-9).
THEOREM DeletesOwn == Spec => OnlyOfService
<1> DEFINE Own ==
        \A h \in Handlers :
            /\ pc[h] = "deleteLb" /\ pc'[h] # "deleteLb" /\ LbGoes => lb.owner = req[h].service
            /\ pc[h] = "deleteGroups" /\ vars # vars' =>
                \A t \in seen[h].left \ seen'[h].left :
                    GroupGoes(t) => groups[t].owner = req[h].service
<1>1. ASSUME IInv, [Next]_vars PROVE Own
  <2>1. ASSUME NEW h \in Handlers, pc[h] = "deleteLb", LbGoes
        PROVE  lb.owner = req[h].service
    BY <1>1, <2>1 DEF IInv, HandlerInv, DeleteLbInv, LbGoes
  <2>2. ASSUME NEW h \in Handlers, pc[h] = "deleteGroups",
               NEW t \in seen[h].left, GroupGoes(t)
        PROVE  groups[t].owner = req[h].service
    BY <1>1, <2>2 DEF IInv, HandlerInv, DeleteGroupsInv, GroupGoes
  <2>3. QED
    BY <2>1, <2>2
<1>2. ASSUME IInv, [Next]_vars PROVE [Own]_vars
  BY <1>1, <1>2
<1>3. QED
  BY <1>2, Invariant, PTL DEF Spec, OnlyOfService

\* If everybody leaves a Service alone while an invocation runs for it, no target
\* that receives traffic loses its group or its load balancer, although the health
\* of the groups is looked at one after the other (main.rs:9-10).
THEOREM TrafficKept == ASSUME Quiet PROVE Spec => NoTrafficCut
<1> DEFINE Kept == \A t \in DOMAIN groups :
                        (LbGoes /\ groups[t].user = "lb") \/ GroupGoes(t) => ~groups[t].live
<1>1. ASSUME IInv, [Next]_vars PROVE Kept
  <2>1. ASSUME NEW t \in DOMAIN groups, LbGoes, groups[t].user = "lb"
        PROVE  ~groups[t].live
    <3>1. PICK h \in Handlers : DeleteLb(h)
      BY <1>1, <2>1, WhoDeletes
    <3>2. QED
      BY <1>1, <2>1, <3>1 DEF IInv, HandlerInv, DeleteLbInv, DeleteLb, LbGoes
  <2>2. ASSUME NEW t \in DOMAIN groups, GroupGoes(t)
        PROVE  ~groups[t].live
    <3>1. PICK h \in Handlers : DeleteGroup(h)
      BY <1>1, <2>2, WhoDeletes
    <3>2. t \in seen[h].left /\ pc[h] = "deleteGroups"
      BY <2>2, <3>1 DEF DeleteGroup, GroupGoes
    <3>3. QED
      BY <1>1, <3>2 DEF IInv, HandlerInv, DeleteGroupsInv
  <2>3. QED
    BY <2>1, <2>2
<1>2. ASSUME IInv, [Next]_vars PROVE [Kept]_vars
  BY <1>1, <1>2
<1>3. QED
  BY <1>2, Invariant, PTL DEF Spec, NoTrafficCut

\* Then an execute that answers done leaves no group of the Service, on whichever
\* page of the listing it was.
THEOREM NoneLeft == ASSUME Quiet PROVE Spec => DoneMeansGone
<1> DEFINE Gone == \A h \in Handlers : pc[h] = "deleteGroups" /\ pc'[h] = "done" =>
                        \A t \in DOMAIN groups' : groups'[t].owner # req[h].service
<1>1. ASSUME IInv, [Next]_vars PROVE [Gone]_vars
  <2>1. ASSUME NEW h \in Handlers, pc[h] = "deleteGroups", pc'[h] = "done",
               NEW u \in DOMAIN groups'
        PROVE  groups'[u].owner # req[h].service
    <3>1. DeleteGroup(h)
      <4>1. ASSUME NEW g \in Handlers, Step(g), g # h PROVE pc'[h] = pc[h]
        BY <1>1, <4>1 DEF Step, Start, FindLb, ReadAttributes, ListPage, ReadHealth, DeleteLb,
           DeleteGroup, Fail, LookNext, Decide, End, Goes, IInv, TypeOK
      <4>2. ASSUME Step(h) PROVE DeleteGroup(h)
        BY <1>1, <2>1, <4>2 DEF Step, Start, FindLb, ReadAttributes, ListPage, ReadHealth,
           DeleteLb, Fail, End, Ended, IInv, TypeOK
      <4>3. ASSUME CreateGroup \/ ChangeGroup \/ ChangeLb \/ UNCHANGED vars PROVE pc' = pc
        BY <4>3 DEF CreateGroup, ChangeGroup, ChangeLb, Change, invocations, vars
      <4>4. QED
        BY <1>1, <2>1, <4>1, <4>2, <4>3 DEF Next
    <3>2. PICK t \in seen[h].left :
            /\ groups' = [v \in DOMAIN groups \ {t} |-> groups[v]]
            /\ seen[h].left = {t}
      BY <1>1, <2>1, <3>1 DEF DeleteGroup, Goes, End, IInv, TypeOK
    <3>3. DeleteGroupsInv(h, seen[h].left)
      BY <1>1, <2>1 DEF IInv, HandlerInv
    <3>4. u \in DOMAIN groups /\ u \notin seen[h].left /\ groups'[u] = groups[u]
      BY <3>2
    <3>5. QED
      BY <3>3, <3>4 DEF DeleteGroupsInv
  <2>2. Gone
    BY <2>1
  <2>3. QED
    BY <2>2
<1>2. QED
  BY <1>1, Invariant, PTL DEF Spec, DoneMeansGone
===============================================================================
