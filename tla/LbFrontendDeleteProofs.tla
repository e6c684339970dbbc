------------------------- MODULE LbFrontendDeleteProofs ------------------------
(***************************************************************************)
(* Proofs about the lb-frontend-delete function, for any rules and any     *)
(* number of invocations.  They rest on the ETags: a resource with the     *)
(* ETag that was read is what was read.                                    *)
(***************************************************************************)
EXTENDS LbFrontendDelete, TLAPS

\* r is what was read as x, or has another ETag since, or is gone.
Tracks(x, r) ==
    \/ r.etag = NoEtag
    \/ x.etag # NoEtag /\ r.etag >= x.etag /\ (r.etag = x.etag => r = x)

\* What a step makes of a resource.
Later(r, next) ==
    \/ next = r
    \/ r.etag # NoEtag /\ (next.etag = NoEtag \/ next.etag > r.etag)

\* The Service's rules whose backends were unhealthy still are, or recovered.
NotLive(h) == \A r \in seen[h].unhealthy : r.service = Service /\ r \in live => r \in recovered[h]

\* What the guards established for the write.
WriteInv(s) ==
    /\ s.action \in {"removeFrontend", "deleteLb", "deletePip"}
    /\ s.action \in {"removeFrontend", "deleteLb"} =>
        /\ HasFrontend(s)
        /\ s.action = "deleteLb" <=> s.lb.frontends = {Frontend}
        /\ s.action = "deleteLb" => ~s.lb.members
        /\ \A r \in Owned(s.lb) : r.service = Service
        /\ s.unhealthy = Owned(s.lb)
    /\ s.action = "deletePip" =>
        s.pip # NoPip /\ s.pip.services = {Service} /\ s.pip.user = "none"

HandlerInv(h) ==
    /\ pc[h] \in Steps => seen[h] \in Seen
    /\ pc[h] \in {"getLb", "getPip", "health"} => seen[h].action \in {"plan", "execute"}
    /\ pc[h] \in {"getPip", "health", "write"} => Tracks(seen[h].lb, lb)
    /\ pc[h] \in {"health", "write"} => Tracks(seen[h].pip, pip)
    /\ pc[h] \in {"getLb", "getPip"} => seen[h].unhealthy = {}
    /\ pc[h] \in {"health", "write"} => NotLive(h)
    /\ pc[h] = "write" => WriteInv(seen[h])
    /\ ~applied[h]

IInv ==
    /\ TypeOK
    /\ lb # NoLb => Consistent(lb)
    /\ \A h \in Handlers : HandlerInv(h)

-------------------------------------------------------------------------------
\* A resource that exists has an ETag.
LEMMA SomeLb ==
    ASSUME NEW b \in LoadBalancer \cup {NoLb}
    PROVE  b.etag \in Nat /\ (b = NoLb <=> b.etag = NoEtag) /\ (b # NoLb => b \in LoadBalancer)
BY DEF LoadBalancer, NoLb, NoEtag

LEMMA SomePip ==
    ASSUME NEW p \in PublicIp \cup {NoPip}
    PROVE  p.etag \in Nat /\ (p = NoPip <=> p.etag = NoEtag) /\ (p # NoPip => p \in PublicIp)
BY DEF PublicIp, NoPip, NoEtag

LEMMA TracksLater ==
    ASSUME NEW x, NEW r, NEW next, x.etag \in Nat, r.etag \in Nat, next.etag \in Nat,
           Tracks(x, r), Later(r, next)
    PROVE  Tracks(x, next)
BY DEF Tracks, Later, NoEtag

\* What ARM compares: a conditional write meets what was read.
LEMMA Matches ==
    ASSUME NEW x, NEW r, x.etag \in Nat \ {NoEtag}, r.etag \in Nat,
           Tracks(x, r), Holds(IfMatch(x.etag), r.etag)
    PROVE  r = x
BY DEF Tracks, Holds, IfMatch, Always, NoEtag

\* What a step leaves of an invocation that does not make it: it notes what recovers.
Untouched(g) ==
    /\ pc'[g] = pc[g] /\ seen'[g] = seen[g] /\ applied'[g] = applied[g]
    /\ recovered[g] \subseteq recovered'[g]
    /\ pc[g] \in {"health", "write"} =>
        \A r \in seen[g].unhealthy :
            r.service = Service /\ r \in live' => r \in live \/ r \in recovered'[g]

\* An invocation that no step of its own concerns.
LEMMA Bystander ==
    ASSUME IInv, TypeOK', NEW g \in Handlers, Untouched(g), Later(lb, lb'), Later(pip, pip')
    PROVE  HandlerInv(g)'
<1>1. HandlerInv(g) /\ TypeOK
  BY DEF IInv
<1>2. ASSUME pc[g] \in {"getPip", "health", "write"} PROVE Tracks(seen[g].lb, lb')
  <2>1. seen[g].lb \in LoadBalancer \cup {NoLb} /\ lb \in LoadBalancer \cup {NoLb}
        /\ lb' \in LoadBalancer \cup {NoLb}
    BY <1>1, <1>2 DEF HandlerInv, Steps, TypeOK, Seen
  <2>2. QED
    BY <1>1, <1>2, <2>1, SomeLb, TracksLater DEF HandlerInv
<1>3. ASSUME pc[g] \in {"health", "write"} PROVE Tracks(seen[g].pip, pip')
  <2>1. seen[g].pip \in PublicIp \cup {NoPip} /\ pip \in PublicIp \cup {NoPip}
        /\ pip' \in PublicIp \cup {NoPip}
    BY <1>1, <1>3 DEF HandlerInv, Steps, TypeOK, Seen
  <2>2. QED
    BY <1>1, <1>3, <2>1, SomePip, TracksLater DEF HandlerInv
<1>4. ASSUME pc[g] \in {"health", "write"} PROVE NotLive(g)'
  BY <1>1, <1>4 DEF HandlerInv, NotLive, Untouched
<1>5. QED
  BY <1>1, <1>2, <1>3, <1>4 DEF HandlerInv, Untouched, WriteInv, HasFrontend

-------------------------------------------------------------------------------
LocalsOK ==
    /\ pc' \in [Handlers -> Ended \cup Steps]
    /\ attempt' \in [Handlers -> 1 .. Attempts]
    /\ seen' \in [Handlers -> Seen \cup {NoRequest}]
    /\ applied' \in [Handlers -> BOOLEAN]
    /\ recovered' \in [Handlers -> SUBSET Rules]

LEMMA EndInv ==
    ASSUME IInv, NEW h \in Handlers, NEW outcome \in Ended, End(h, outcome)
    PROVE  LocalsOK /\ HandlerInv(h)'
<1>1. LocalsOK /\ pc'[h] = outcome /\ applied'[h] = FALSE
  BY DEF IInv, TypeOK, End, LocalsOK, Attempts
<1>2. QED
  BY <1>1 DEF HandlerInv, Ended, Steps

\* A step of an invocation that changes no resource leaves the others alone.
LEMMA ReadStep ==
    ASSUME IInv, NEW h \in Handlers, UNCHANGED <<lb, pip, live, changes>>, LocalsOK, HandlerInv(h)',
           \A g \in Handlers \ {h} : /\ pc'[g] = pc[g] /\ seen'[g] = seen[g]
                                     /\ applied'[g] = applied[g] /\ recovered'[g] = recovered[g]
    PROVE  IInv'
<1>1. TypeOK'
  BY DEF IInv, TypeOK, LocalsOK
<1>2. \A g \in Handlers \ {h} : HandlerInv(g)'
  BY <1>1, Bystander DEF Later, Untouched
<1>3. QED
  BY <1>1, <1>2 DEF IInv, Consistent

\* The guards passed: the step they allow is the one they are about.
LEMMA GuardsAllow ==
    ASSUME NEW s \in Seen, Guards(s), Step(s) # "nothing"
    PROVE  WriteInv([s EXCEPT !.action = Step(s)])
<1> DEFINE w == [s EXCEPT !.action = Step(s)]
<1>1. w.action = Step(s) /\ w.lb = s.lb /\ w.pip = s.pip /\ w.unhealthy = s.unhealthy
  BY DEF Seen
<1>2. CASE HasFrontend(s)
  <2>1. s.unhealthy = Owned(s.lb) /\ \A r \in Owned(s.lb) : r.service = Service
    BY <1>2 DEF Guards, Unhealthy
  <2>2. s.lb.frontends = {Frontend} => ~s.lb.members
    BY <1>2 DEF Guards
  <2>3. CASE s.lb.frontends = {Frontend}
    <3>1. Step(s) = "deleteLb"
      BY <1>2, <2>2, <2>3 DEF Step
    <3>2. QED
      BY <1>1, <1>2, <2>1, <2>2, <2>3, <3>1 DEF WriteInv, HasFrontend
  <2>4. CASE s.lb.frontends # {Frontend}
    <3>1. Step(s) = "removeFrontend"
      BY <1>2, <2>4 DEF Step
    <3>2. QED
      BY <1>1, <1>2, <2>1, <2>4, <3>1 DEF WriteInv, HasFrontend
  <2>5. QED
    BY <2>3, <2>4
<1>3. CASE ~HasFrontend(s)
  <2>1. Step(s) = "deletePip" /\ s.pip # NoPip
    BY <1>3 DEF Step
  <2>2. s.pip.services = {Service} /\ s.pip.user = "none"
    BY <1>3, <2>1 DEF Guards, OwnerGuard
  <2>3. QED
    BY <1>1, <2>1, <2>2 DEF WriteInv
<1>4. QED
  BY <1>2, <1>3

LEMMA DecideInv ==
    ASSUME IInv, NEW h \in Handlers, NEW s \in Seen, Decide(h, s), UNCHANGED <<lb, pip, live, changes>>,
           Tracks(s.lb, lb), Tracks(s.pip, pip), ~applied[h],
           \A r \in s.unhealthy : r.service = Service /\ r \in live => r \in recovered[h]
    PROVE  IInv'
<1> DEFINE w == [s EXCEPT !.action = Step(s)]
<1>1. CASE \E outcome \in Ended : End(h, outcome)
  BY <1>1, EndInv, ReadStep DEF End, IInv, TypeOK
<1>2. CASE Guards(s) /\ Step(s) # "nothing" /\ Goes(h, "write", w)
  <2>1. /\ w \in Seen /\ w.lb = s.lb /\ w.pip = s.pip /\ w.unhealthy = s.unhealthy
    BY <1>2 DEF Seen, Step
  <2>2. /\ LocalsOK /\ pc'[h] = "write" /\ seen'[h] = w /\ applied'[h] = applied[h]
        /\ recovered' = recovered
    BY <1>2, <2>1 DEF IInv, TypeOK, Goes, LocalsOK, Steps
  <2>3. WriteInv(w)
    BY <1>2, GuardsAllow
  <2>4. WriteInv(seen[h])' /\ NotLive(h)'
    BY <2>1, <2>2, <2>3 DEF WriteInv, HasFrontend, NotLive
  <2>5. HandlerInv(h)'
    BY <2>1, <2>2, <2>4 DEF HandlerInv
  <2>6. QED
    BY <1>2, <2>2, <2>5, ReadStep DEF Goes, IInv, TypeOK
<1>3. QED
  BY <1>1, <1>2 DEF Decide, Ended

LEMMA ReadSteps ==
    ASSUME IInv, NEW h \in Handlers, Start(h) \/ GetLb(h) \/ GetPip(h) \/ ReadHealth(h) \/ Fail(h)
    PROVE  IInv'
<1>0. TypeOK /\ HandlerInv(h)
  BY DEF IInv
<1>1. ASSUME Start(h) PROVE IInv'
  <2>1. PICK action \in {"plan", "execute"} :
            seen' = [seen EXCEPT ![h] = [action |-> action, lb |-> NoLb, pip |-> NoPip,
                                         left |-> {}, unhealthy |-> {}]]
    BY <1>1 DEF Start
  <2>2. [action |-> action, lb |-> NoLb, pip |-> NoPip, left |-> {}, unhealthy |-> {}] \in Seen
    BY DEF Seen
  <2>3. LocalsOK /\ pc'[h] = "getLb" /\ applied' = applied
    BY <1>0, <1>1, <2>1, <2>2 DEF Start, TypeOK, LocalsOK, Steps
  <2>4. /\ seen'[h] \in Seen /\ seen'[h].action \in {"plan", "execute"}
        /\ seen'[h].unhealthy = {}
    BY <1>0, <2>1, <2>2 DEF TypeOK
  <2>5. HandlerInv(h)'
    BY <1>0, <2>3, <2>4 DEF HandlerInv
  <2>6. QED
    BY <1>0, <1>1, <2>3, <2>5, ReadStep DEF Start, TypeOK
<1>2. ASSUME GetLb(h) PROVE IInv'
  <2> DEFINE s == [seen[h] EXCEPT !.lb = lb]
  <2>1. seen[h] \in Seen /\ Goes(h, "getPip", s) /\ UNCHANGED <<lb, pip, live, changes>>
    BY <1>0, <1>2 DEF GetLb, HandlerInv, Steps
  <2>2. /\ s \in Seen /\ s.lb = lb /\ s.action = seen[h].action
        /\ s.unhealthy = seen[h].unhealthy
    BY <1>0, <2>1 DEF TypeOK, Seen
  <2>3. LocalsOK /\ pc'[h] = "getPip" /\ seen'[h] = s /\ applied' = applied
    BY <1>0, <2>1, <2>2 DEF TypeOK, Goes, LocalsOK, Steps
  <2>4. Tracks(lb, lb)
    BY <1>0, SomeLb DEF TypeOK, Tracks
  <2>5. HandlerInv(h)'
    BY <1>0, <1>2, <2>1, <2>2, <2>3, <2>4 DEF GetLb, HandlerInv
  <2>6. QED
    BY <1>0, <2>1, <2>3, <2>5, ReadStep DEF Goes, TypeOK
<1>3. ASSUME GetPip(h) PROVE IInv'
  <2> DEFINE s == [seen[h] EXCEPT !.pip = pip,
                      !.left = IF seen[h].lb = NoLb THEN {} ELSE Owned(seen[h].lb)]
  <2>1. /\ seen[h] \in Seen /\ UNCHANGED <<lb, pip, live, changes>>
        /\ IF s.left = {} THEN Decide(h, s) ELSE Goes(h, "health", s)
    BY <1>0, <1>3 DEF GetPip, HandlerInv, Steps
  <2>2. seen[h].lb # NoLb => Owned(seen[h].lb) \subseteq Rules
    BY <2>1, SomeLb DEF Owned, Seen, LoadBalancer
  <2>3. /\ s \in Seen /\ s.lb = seen[h].lb /\ s.pip = pip /\ s.unhealthy = {}
        /\ s.action \in {"plan", "execute"}
    BY <1>0, <1>3, <2>1, <2>2 DEF GetPip, HandlerInv, TypeOK, Seen
  <2>4. Tracks(s.lb, lb) /\ Tracks(s.pip, pip) /\ ~applied[h]
        /\ \A r \in s.unhealthy : r.service = Service /\ r \in live => r \in recovered[h]
    BY <1>0, <1>3, <2>3, SomePip DEF GetPip, HandlerInv, TypeOK, Tracks, NotLive
  <2>5. CASE s.left = {}
    BY <2>1, <2>3, <2>4, <2>5, DecideInv
  <2>6. CASE s.left # {}
    <3>1. LocalsOK /\ pc'[h] = "health" /\ seen'[h] = s /\ UNCHANGED <<applied, recovered>>
      BY <1>0, <2>1, <2>3, <2>6 DEF TypeOK, Goes, LocalsOK, Steps
    <3>2. NotLive(h)'
      BY <2>1, <2>4, <3>1 DEF NotLive
    <3>3. HandlerInv(h)'
      BY <2>1, <2>3, <2>4, <3>1, <3>2 DEF HandlerInv
    <3>4. QED
      BY <1>0, <2>1, <2>6, <3>1, <3>3, ReadStep DEF Goes, TypeOK
  <2>7. QED
    BY <2>5, <2>6
<1>4. ASSUME ReadHealth(h) PROVE IInv'
  <2>1. PICK r \in seen[h].left \cap (IF lb = NoLb THEN {} ELSE lb.rules), known \in BOOLEAN :
            LET s == [seen[h] EXCEPT !.left = @ \ {r},
                        !.unhealthy = IF known /\ r \notin live THEN @ \cup {r} ELSE @]
            IN  IF s.left = {} THEN Decide(h, s) ELSE Goes(h, "health", s)
    BY <1>4 DEF ReadHealth
  <2> DEFINE s == [seen[h] EXCEPT !.left = @ \ {r},
                      !.unhealthy = IF known /\ r \notin live THEN @ \cup {r} ELSE @]
  <2>2. seen[h] \in Seen /\ UNCHANGED <<lb, pip, live, changes>>
    BY <1>0, <1>4 DEF ReadHealth, HandlerInv, Steps
  <2>3. /\ s \in Seen /\ s.lb = seen[h].lb /\ s.pip = seen[h].pip /\ s.action = seen[h].action
        /\ s.unhealthy = IF known /\ r \notin live THEN seen[h].unhealthy \cup {r} ELSE seen[h].unhealthy
    BY <2>2 DEF Seen
  <2>4. Tracks(s.lb, lb) /\ Tracks(s.pip, pip) /\ ~applied[h]
        /\ \A q \in s.unhealthy : q.service = Service /\ q \in live => q \in recovered[h]
    <3>1. Tracks(seen[h].lb, lb) /\ Tracks(seen[h].pip, pip) /\ ~applied[h] /\ NotLive(h)
      BY <1>0, <1>4 DEF ReadHealth, HandlerInv
    <3>2. \A q \in s.unhealthy : q \in seen[h].unhealthy \/ q \notin live
      BY <2>3
    <3>3. QED
      BY <2>3, <3>1, <3>2 DEF NotLive
  <2>5. CASE s.left = {}
    BY <2>1, <2>2, <2>3, <2>4, <2>5, DecideInv
  <2>6. CASE s.left # {}
    <3>0. Goes(h, "health", s)
      BY <2>1, <2>6
    <3>1. LocalsOK /\ pc'[h] = "health" /\ seen'[h] = s /\ UNCHANGED <<applied, recovered>>
      BY <1>0, <2>3, <3>0 DEF TypeOK, Goes, LocalsOK, Steps
    <3>2. NotLive(h)'
      BY <2>2, <2>4, <3>1 DEF NotLive
    <3>3. HandlerInv(h)'
      BY <1>0, <1>4, <2>2, <2>3, <2>4, <3>1, <3>2 DEF ReadHealth, HandlerInv
    <3>4. QED
      BY <1>0, <2>2, <3>0, <3>1, <3>3, ReadStep DEF Goes, TypeOK
  <2>7. QED
    BY <2>5, <2>6
<1>5. ASSUME Fail(h) PROVE IInv'
  BY <1>0, <1>5, EndInv, ReadStep DEF Fail, Ended, End, TypeOK
<1>6. QED
  BY <1>1, <1>2, <1>3, <1>4, <1>5

LEMMA RetryStep ==
    ASSUME IInv, NEW h \in Handlers, Retry(h)
    PROVE  IInv'
<1>1. TypeOK /\ attempt[h] \in 1 .. Attempts /\ attempt[h] < Attempts /\ HandlerInv(h)
  BY DEF IInv, TypeOK, Retry, SentAgain
<1>2. LocalsOK
  BY <1>1 DEF Retry, TypeOK, LocalsOK, Attempts
<1>3. HandlerInv(h)'
  BY <1>1 DEF Retry, HandlerInv, WriteInv, HasFrontend, NotLive
<1>4. QED
  BY <1>1, <1>2, <1>3, ReadStep DEF Retry

LEMMA NotWrittenStep ==
    ASSUME IInv, NEW h \in Handlers, NotWritten(h)
    PROVE  IInv'
BY EndInv, ReadStep DEF NotWritten, Ended, End, IInv, TypeOK

-------------------------------------------------------------------------------
\* A change of the resources that leaves what the invariant rests on.
LEMMA ResourceStep ==
    ASSUME IInv, LocalsOK, changes' \in 0 .. MaxChanges,
           lb' \in LoadBalancer \cup {NoLb}, pip' \in PublicIp \cup {NoPip}, live' \subseteq Rules,
           Later(lb, lb'), Later(pip, pip'), lb' # NoLb => Consistent(lb'),
           \A g \in Handlers : Untouched(g) \/ HandlerInv(g)'
    PROVE  IInv'
<1>1. TypeOK'
  BY DEF TypeOK, LocalsOK
<1>2. \A g \in Handlers : HandlerInv(g)'
  BY <1>1, Bystander
<1>3. QED
  BY <1>1, <1>2 DEF IInv, Consistent

\* Another ETag comes with every change of the load balancer.
LEMMA UpdateLater ==
    ASSUME NEW b \in LoadBalancer, NEW state \in {"Succeeded", "Updating", "Deleting"},
           lb \in LoadBalancer, Consistent(b), Update(b, state)
    PROVE  lb' \in LoadBalancer /\ Later(lb, lb') /\ Consistent(lb')
<1>1. lb' = [b EXCEPT !.etag = lb.etag + 1, !.state = state]
  BY DEF Update
<1>2. lb.etag \in Nat \ {0}
  BY DEF LoadBalancer, NoEtag
<1>3. lb' \in LoadBalancer /\ lb'.etag = lb.etag + 1
  <2>1. lb.etag + 1 \in Nat \ {NoEtag}
    BY <1>2 DEF NoEtag
  <2>2. ASSUME NEW n \in Nat \ {NoEtag}
        PROVE  /\ [b EXCEPT !.etag = n, !.state = state] \in LoadBalancer
               /\ [b EXCEPT !.etag = n, !.state = state].etag = n
    BY DEF LoadBalancer
  <2>3. QED
    BY <1>1, <2>1, <2>2
<1>4. lb'.rules = b.rules /\ lb'.frontends = b.frontends /\ lb'.probes = b.probes /\ lb'.outbound = b.outbound
  BY <1>1 DEF LoadBalancer
<1>5. QED
  BY <1>2, <1>3, <1>4 DEF Later, Consistent, NoEtag

\* Without the frontend, every rule that stays has what it uses.
LEMMA WithoutConsistent ==
    ASSUME NEW b \in LoadBalancer, Consistent(b)
    PROVE  /\ WithoutFrontend(b) \in LoadBalancer
           /\ Consistent(WithoutFrontend(b))
           /\ WithoutFrontend(b).frontends = b.frontends \ {Frontend}
           /\ WithoutFrontend(b).rules = {r \in b.rules : r.frontend # Frontend}
           /\ WithoutFrontend(b).members = b.members
<1> DEFINE w == WithoutFrontend(b)
<1>1. /\ w.frontends = b.frontends \ {Frontend} /\ w.rules = b.rules \ Owned(b)
      /\ w.probes = b.probes \ OwnedProbes(b) /\ w.outbound = FALSE /\ w.members = b.members
      /\ w \in LoadBalancer
  BY DEF WithoutFrontend, LoadBalancer, Names
<1>2. w.rules = {r \in b.rules : r.frontend # Frontend}
  BY <1>1 DEF Owned
<1>3. {r.frontend : r \in w.rules} \subseteq w.frontends
  BY <1>1, <1>2 DEF Consistent
<1>4. {r.probe : r \in w.rules} = w.probes
  <2>1. b.probes = {r.probe : r \in b.rules}
    BY DEF Consistent
  <2>2. OwnedProbes(b) = {r.probe : r \in Owned(b)} \ {r.probe : r \in w.rules}
    BY <1>1 DEF OwnedProbes
  <2>3. Owned(b) \subseteq b.rules
    BY DEF Owned
  <2>4. QED
    BY <1>1, <2>1, <2>2, <2>3
<1>5. QED
  BY <1>1, <1>2, <1>3, <1>4 DEF Consistent

\* What a conditional write meets is what was read, for which the guards held.
LEMMA WriteMeets ==
    ASSUME IInv, NEW h \in Handlers, Write(h)
    PROVE  /\ seen[h] \in Seen /\ WriteInv(seen[h])
           /\ seen[h].action \in {"removeFrontend", "deleteLb"} =>
                lb = seen[h].lb /\ lb \in LoadBalancer /\ Consistent(lb) /\ pip' = pip
           /\ seen[h].action = "removeFrontend" => Update(WithoutFrontend(lb), "Updating")
           /\ seen[h].action = "deleteLb" => Update(lb, "Deleting")
           /\ seen[h].action = "deletePip" => pip = seen[h].pip /\ pip' = NoPip /\ lb' = lb
<1>1. /\ pc[h] = "write" /\ seen[h] \in Seen /\ WriteInv(seen[h])
      /\ Tracks(seen[h].lb, lb) /\ Tracks(seen[h].pip, pip)
  BY DEF Write, IInv, HandlerInv, Steps
<1>2. Process(h) /\ Holds(Precondition(h), Current(h).etag)
  BY DEF Write
<1>3. CASE seen[h].action \in {"removeFrontend", "deleteLb"}
  <2>1. seen[h].lb \in LoadBalancer
    BY <1>1, <1>3, SomeLb DEF WriteInv, HasFrontend, Seen
  <2>2. Holds(IfMatch(seen[h].lb.etag), lb.etag)
    BY <1>2, <1>3 DEF Precondition, Target, Current
  <2>3. seen[h].lb.etag \in Nat \ {NoEtag} /\ lb.etag \in Nat
    BY <2>1, SomeLb DEF LoadBalancer, IInv, TypeOK
  <2>4. lb = seen[h].lb
    BY <1>1, <2>2, <2>3, Matches
  <2>5. Consistent(lb)
    BY <2>1, <2>4, SomeLb, <2>3 DEF IInv
  <2>6. QED
    BY <1>1, <1>2, <1>3, <2>1, <2>4, <2>5 DEF Process
<1>4. CASE seen[h].action = "deletePip"
  <2>1. seen[h].pip \in PublicIp
    BY <1>1, <1>4, SomePip DEF WriteInv, Seen
  <2>2. Holds(IfMatch(seen[h].pip.etag), pip.etag)
    BY <1>2, <1>4 DEF Precondition, Target, Current
  <2>3. seen[h].pip.etag \in Nat \ {NoEtag} /\ pip.etag \in Nat
    BY <2>1, SomePip DEF PublicIp, IInv, TypeOK
  <2>4. pip = seen[h].pip
    BY <1>1, <2>2, <2>3, Matches
  <2>5. QED
    BY <1>1, <1>2, <1>4, <2>4 DEF Process
<1>5. QED
  BY <1>1, <1>3, <1>4 DEF WriteInv

LEMMA WriteStep ==
    ASSUME IInv, NEW h \in Handlers, Write(h)
    PROVE  IInv'
<1>1. TypeOK /\ HandlerInv(h) /\ UNCHANGED <<live, changes>>
  BY DEF IInv, Write
<1>2. /\ lb' \in LoadBalancer \cup {NoLb} /\ pip' \in PublicIp \cup {NoPip}
      /\ Later(lb, lb') /\ Later(pip, pip')
      /\ lb' # NoLb => Consistent(lb')
  <2>1. CASE seen[h].action = "removeFrontend"
    <3>1. /\ lb \in LoadBalancer /\ Consistent(lb) /\ pip' = pip
          /\ Update(WithoutFrontend(lb), "Updating")
      BY <2>1, WriteMeets
    <3>2. QED
      BY <1>1, <3>1, WithoutConsistent, UpdateLater DEF TypeOK, Later
  <2>2. CASE seen[h].action = "deleteLb"
    <3>1. lb \in LoadBalancer /\ Consistent(lb) /\ pip' = pip /\ Update(lb, "Deleting")
      BY <2>2, WriteMeets
    <3>2. QED
      BY <1>1, <3>1, UpdateLater DEF TypeOK, Later
  <2>3. CASE seen[h].action = "deletePip"
    <3>1. pip # NoPip /\ pip' = NoPip /\ lb' = lb
      BY <2>3, WriteMeets DEF WriteInv
    <3>2. QED
      BY <1>1, <3>1, SomePip DEF TypeOK, Later, IInv, Consistent
  <2>4. QED
    BY <2>1, <2>2, <2>3, WriteMeets DEF WriteInv
<1>3. \E outcome \in {"done", "failed"} : End(h, outcome)
  BY DEF Write, SentAgain, Retryable, Method
<1>4. LocalsOK /\ HandlerInv(h)'
  BY <1>3, EndInv DEF Ended
<1>5. \A g \in Handlers \ {h} : Untouched(g)
  BY <1>1, <1>3 DEF End, TypeOK, Untouched
<1>6. QED
  BY <1>1, <1>2, <1>4, <1>5, ResourceStep DEF TypeOK

-------------------------------------------------------------------------------
\* What everybody else does.
LEMMA ChangeLbStep == ASSUME IInv, ChangeLb PROVE IInv'
<1>1. /\ TypeOK /\ lb \in LoadBalancer /\ Consistent(lb) /\ pip' = pip
      /\ UNCHANGED <<invocations, recovered>> /\ changes < MaxChanges /\ changes' = changes + 1
  BY DEF IInv, TypeOK, ChangeLb, Change
<1>2. changes' \in 0 .. MaxChanges
  BY <1>1, RulesAssumption DEF TypeOK
<1> DEFINE Kept == \A r \in Rules : r.service = Service /\ r \in live' => r \in live
<1>3. lb' \in LoadBalancer /\ Later(lb, lb') /\ Consistent(lb') /\ live' \subseteq Rules /\ Kept
  <2>1. ASSUME NEW r \in Rules \ lb.rules, r.service = "other",
               r.frontend = Frontend => Frontend \in lb.frontends,
               Update([lb EXCEPT !.rules = @ \cup {r}, !.probes = @ \cup {r.probe},
                                 !.frontends = @ \cup {r.frontend}], "Updating"),
               live' \in {live, live \cup {r}}
        PROVE  lb' \in LoadBalancer /\ Later(lb, lb') /\ Consistent(lb') /\ live' \subseteq Rules /\ Kept
    <3> DEFINE b == [lb EXCEPT !.rules = @ \cup {r}, !.probes = @ \cup {r.probe},
                               !.frontends = @ \cup {r.frontend}]
    <3>1. r.probe \in Names /\ r.frontend \in Names
      BY RulesAssumption
    <3>2. /\ b \in LoadBalancer /\ b.rules = lb.rules \cup {r} /\ b.probes = lb.probes \cup {r.probe}
          /\ b.frontends = lb.frontends \cup {r.frontend} /\ b.outbound = lb.outbound
      BY <1>1, <3>1 DEF LoadBalancer
    <3>3. Consistent(b)
      BY <1>1, <3>2 DEF Consistent
    <3>4. lb' \in LoadBalancer /\ Later(lb, lb') /\ Consistent(lb')
      BY <1>1, <2>1, <3>2, <3>3, UpdateLater
    <3>5. QED
      BY <1>1, <2>1, <3>4 DEF TypeOK, Service
  <2>2. ASSUME NEW r \in lb.rules,
               Update([lb EXCEPT !.rules = @ \ {r},
                                 !.probes = {q.probe : q \in lb.rules \ {r}}], "Updating"),
               live' = live \ {r}
        PROVE  lb' \in LoadBalancer /\ Later(lb, lb') /\ Consistent(lb') /\ live' \subseteq Rules /\ Kept
    <3> DEFINE b == [lb EXCEPT !.rules = @ \ {r}, !.probes = {q.probe : q \in lb.rules \ {r}}]
    <3>1. {q.probe : q \in lb.rules \ {r}} \subseteq Names
      BY <1>1, RulesAssumption DEF LoadBalancer
    <3>2. /\ b \in LoadBalancer /\ b.rules = lb.rules \ {r}
          /\ b.probes = {q.probe : q \in lb.rules \ {r}}
          /\ b.frontends = lb.frontends /\ b.outbound = lb.outbound
      BY <1>1, <3>1 DEF LoadBalancer
    <3>3. Consistent(b)
      BY <1>1, <3>2 DEF Consistent
    <3>4. lb' \in LoadBalancer /\ Later(lb, lb') /\ Consistent(lb')
      BY <1>1, <2>2, <3>2, <3>3, UpdateLater
    <3>5. QED
      BY <1>1, <2>2, <3>4 DEF TypeOK
  <2>3. ASSUME Update(WithoutFrontend(lb), "Updating"), live' = live \ Owned(lb)
        PROVE  lb' \in LoadBalancer /\ Later(lb, lb') /\ Consistent(lb') /\ live' \subseteq Rules /\ Kept
    BY <1>1, <2>3, WithoutConsistent, UpdateLater DEF TypeOK
  <2>4. ASSUME Update([lb EXCEPT !.members = ~@], "Updating"), live' = live
        PROVE  lb' \in LoadBalancer /\ Later(lb, lb') /\ Consistent(lb') /\ live' \subseteq Rules /\ Kept
    <3> DEFINE b == [lb EXCEPT !.members = ~@]
    <3>1. b \in LoadBalancer /\ Consistent(b)
      BY <1>1 DEF LoadBalancer, Consistent
    <3>2. QED
      BY <1>1, <2>4, <3>1, UpdateLater DEF TypeOK
  <2>5. ASSUME Frontend \in lb.frontends, live' = live,
               Update([lb EXCEPT !.outbound = ~@], "Updating")
        PROVE  lb' \in LoadBalancer /\ Later(lb, lb') /\ Consistent(lb') /\ live' \subseteq Rules /\ Kept
    <3> DEFINE b == [lb EXCEPT !.outbound = ~@]
    <3>1. b \in LoadBalancer /\ Consistent(b)
      BY <1>1, <2>5 DEF LoadBalancer, Consistent
    <3>2. QED
      BY <1>1, <2>5, <3>1, UpdateLater DEF TypeOK
  <2>6. QED
    BY <2>1, <2>2, <2>3, <2>4, <2>5 DEF ChangeLb
<1>4. LocalsOK
  BY <1>1 DEF invocations, TypeOK, LocalsOK
<1>5. QED
  BY <1>1, <1>2, <1>3, <1>4, ResourceStep DEF invocations, TypeOK, Untouched, Later

LEMMA ChangePipStep == ASSUME IInv, ChangePip PROVE IInv'
<1>1. /\ TypeOK /\ pip \in PublicIp /\ UNCHANGED <<lb, live>>
      /\ UNCHANGED <<invocations, recovered>> /\ changes < MaxChanges /\ changes' = changes + 1
  BY DEF IInv, TypeOK, ChangePip, Change
<1>2. changes' \in 0 .. MaxChanges
  BY <1>1, RulesAssumption DEF TypeOK
<1>3. pip.etag \in Nat \ {0} /\ pip.etag + 1 \in Nat \ {NoEtag}
  BY <1>1 DEF PublicIp, NoEtag
<1>4. ASSUME NEW n \in Nat \ {NoEtag}, NEW services \in SUBSET Names, NEW user \in Names \cup {"none"}
      PROVE  /\ [pip EXCEPT !.etag = n, !.services = services] \in PublicIp
             /\ [pip EXCEPT !.etag = n, !.services = services].etag = n
             /\ [pip EXCEPT !.etag = n, !.services = services, !.user = user] \in PublicIp
             /\ [pip EXCEPT !.etag = n, !.services = services, !.user = user].etag = n
  BY <1>1 DEF PublicIp
<1>5. pip.services \cup {"other"} \in SUBSET Names /\ "other" \in Names
  BY <1>1 DEF PublicIp, Names
<1>6. pip' \in PublicIp \cup {NoPip} /\ Later(pip, pip')
  <2>1. CASE pip' = NoPip
    BY <1>3, <2>1 DEF Later, NoPip, NoEtag
  <2>2. CASE pip' \in PublicIp /\ pip'.etag = pip.etag + 1
    BY <1>3, <2>2 DEF Later, NoEtag
  <2>3. CASE pip' = [pip EXCEPT !.etag = @ + 1, !.services = @ \cup {"other"}]
    BY <1>3, <1>4, <1>5, <2>2, <2>3
  <2>4. CASE pip' = [pip EXCEPT !.etag = @ + 1, !.services = @ \cup {"other"}, !.user = "other"]
    BY <1>3, <1>4, <1>5, <2>2, <2>4
  <2>5. QED
    BY <2>1, <2>3, <2>4 DEF ChangePip
<1>7. LocalsOK
  BY <1>1 DEF invocations, TypeOK, LocalsOK
<1>8. QED
  BY <1>1, <1>2, <1>6, <1>7, ResourceStep DEF invocations, TypeOK, Untouched, Later, IInv, Consistent

LEMMA ChangeHealthStep == ASSUME IInv, ChangeHealth PROVE IInv'
<1>1. /\ TypeOK /\ lb \in LoadBalancer /\ UNCHANGED <<lb, pip>>
      /\ UNCHANGED invocations /\ changes < MaxChanges /\ changes' = changes + 1
  BY DEF IInv, TypeOK, ChangeHealth, Change
<1>2. changes' \in 0 .. MaxChanges
  BY <1>1, RulesAssumption DEF TypeOK
<1>3. live' \subseteq Rules /\ LocalsOK /\ \A g \in Handlers : Untouched(g)
  <2>1. CASE \E r \in live : live' = live \ {r} /\ UNCHANGED recovered
    BY <1>1, <2>1 DEF TypeOK, LocalsOK, Untouched, invocations
  <2>2. ASSUME NEW r \in lb.rules \ live, live' = live \cup {r},
               recovered' = [h \in Handlers |->
                    IF pc[h] \in {"health", "write"} /\ r \in seen[h].unhealthy
                    THEN recovered[h] \cup {r} ELSE recovered[h]]
        PROVE  live' \subseteq Rules /\ LocalsOK /\ \A g \in Handlers : Untouched(g)
    <3>1. r \in Rules
      BY <1>1 DEF LoadBalancer
    <3>2. live' \subseteq Rules /\ LocalsOK
      BY <1>1, <2>2, <3>1 DEF TypeOK, LocalsOK, invocations
    <3>3. ASSUME NEW g \in Handlers PROVE Untouched(g)
      BY <1>1, <2>2 DEF Untouched, invocations
    <3>4. QED
      BY <3>2, <3>3
  <2>3. QED
    BY <2>1, <2>2 DEF ChangeHealth
<1>4. QED
  BY <1>1, <1>2, <1>3, ResourceStep DEF TypeOK, Later, IInv, Consistent

LEMMA FinishStep == ASSUME IInv, Finish PROVE IInv'
<1>1. /\ TypeOK /\ lb \in LoadBalancer /\ Consistent(lb)
      /\ UNCHANGED <<live, changes, recovered, invocations>>
  BY DEF IInv, TypeOK, Finish
<1>2. lb' \in LoadBalancer \cup {NoLb} /\ Later(lb, lb') /\ (lb' # NoLb => Consistent(lb'))
  <2>1. lb.etag \in Nat \ {0} /\ lb.etag + 1 \in Nat \ {NoEtag}
    BY <1>1 DEF LoadBalancer, NoEtag
  <2>2. ASSUME NEW n \in Nat \ {NoEtag}
        PROVE  /\ [lb EXCEPT !.etag = n, !.state = "Succeeded"] \in LoadBalancer
               /\ [lb EXCEPT !.etag = n, !.state = "Succeeded"].etag = n
               /\ Consistent([lb EXCEPT !.etag = n, !.state = "Succeeded"])
    BY <1>1 DEF LoadBalancer, Consistent
  <2>3. CASE lb' = NoLb
    BY <2>1, <2>3 DEF Later, NoLb, NoEtag
  <2>4. CASE lb' = [lb EXCEPT !.etag = @ + 1, !.state = "Succeeded"]
    <3>1. lb' \in LoadBalancer /\ lb'.etag = lb.etag + 1 /\ Consistent(lb')
      BY <2>1, <2>2, <2>4
    <3>2. QED
      BY <2>1, <3>1 DEF Later, NoEtag
  <2>5. QED
    BY <2>3, <2>4 DEF Finish
<1>3. pip' \in PublicIp \cup {NoPip} /\ Later(pip, pip')
  <2>1. CASE pip' = pip
    BY <1>1, <2>1 DEF TypeOK, Later
  <2>2. CASE pip # NoPip /\ pip' = [pip EXCEPT !.etag = @ + 1, !.user = "none"]
    <3>1. pip \in PublicIp
      BY <1>1, <2>2 DEF TypeOK
    <3>2. pip.etag \in Nat \ {0} /\ pip.etag + 1 \in Nat \ {NoEtag}
      BY <3>1 DEF PublicIp, NoEtag
    <3>3. ASSUME NEW n \in Nat \ {NoEtag}
          PROVE  /\ [pip EXCEPT !.etag = n, !.user = "none"] \in PublicIp
                 /\ [pip EXCEPT !.etag = n, !.user = "none"].etag = n
      BY <3>1 DEF PublicIp
    <3>4. QED
      <4>1. pip' \in PublicIp /\ pip'.etag = pip.etag + 1
        BY <2>2, <3>2, <3>3
      <4>2. QED
        BY <3>2, <4>1 DEF Later, NoEtag
  <2>3. QED
    BY <2>1, <2>2 DEF Finish
<1>4. LocalsOK
  BY <1>1 DEF invocations, TypeOK, LocalsOK
<1>5. QED
  BY <1>1, <1>2, <1>3, <1>4, ResourceStep DEF invocations, TypeOK, Untouched

-------------------------------------------------------------------------------
LEMMA StepKeeps == ASSUME IInv, [Next]_vars PROVE IInv'
<1>1. ASSUME NEW h \in Handlers, Invocation(h) PROVE IInv'
  BY <1>1, ReadSteps, RetryStep, WriteStep, NotWrittenStep DEF Invocation
<1>2. ASSUME UNCHANGED vars PROVE IInv'
  <2>1. LocalsOK /\ UNCHANGED <<lb, pip, live, changes, pc, seen, applied, recovered>>
    BY <1>2 DEF vars, IInv, TypeOK, LocalsOK
  <2>2. QED
    BY <2>1, ResourceStep DEF IInv, TypeOK, Later, Consistent, Untouched
<1>3. QED
  BY <1>1, <1>2, ChangeLbStep, ChangePipStep, ChangeHealthStep, FinishStep DEF Next

LEMMA InitHolds == Init => IInv
<1> SUFFICES ASSUME Init PROVE IInv
  OBVIOUS
<1>1. lb \in LoadBalancer \cup {NoLb} /\ (lb # NoLb => Consistent(lb))
  <2>1. ASSUME NEW frontends \in SUBSET Names, NEW rules \in SUBSET Rules,
               NEW members \in BOOLEAN, NEW ip \in Names
        PROVE  [etag |-> 1, state |-> "Succeeded", frontends |-> frontends, rules |-> rules,
                probes |-> {r.probe : r \in rules}, members |-> members, ip |-> ip,
                outbound |-> FALSE] \in LoadBalancer
    <3>1. {r.probe : r \in rules} \subseteq Names
      BY RulesAssumption
    <3>2. QED
      BY <3>1 DEF LoadBalancer, NoEtag
  <2>2. QED
    BY <2>1 DEF Init
<1>2. pip \in PublicIp \cup {NoPip}
  BY DEF Init, PublicIp, NoEtag, Names, Service
<1>3. live \subseteq Rules
  BY <1>1 DEF Init, LoadBalancer
<1>4. TypeOK
  BY <1>1, <1>2, <1>3, RulesAssumption DEF Init, TypeOK, Ended, Attempts
<1>5. QED
  BY <1>1, <1>4 DEF Init, IInv, HandlerInv, Steps

LEMMA Invariant == Spec => []IInv
BY InitHolds, StepKeeps, PTL DEF Spec

\* Every reachable state is well typed, whatever the rules; in particular a request
\* is sent at most Attempts times (arm.rs: ATTEMPTS).
THEOREM TypeCorrect == Spec => []TypeOK
<1>1. IInv => TypeOK
  BY DEF IInv
<1>2. QED
  BY <1>1, Invariant, PTL

\* Only a write of an invocation is a step in which it acts and the resources change.
LEMMA WhoActs ==
    ASSUME IInv, [Next]_vars, NEW h \in Handlers, Acts(h), lb' # lb \/ pip' # pip
    PROVE  Write(h)
<1>1. ASSUME NEW g \in Handlers, Invocation(g), ~Write(g) PROVE lb' = lb /\ pip' = pip
  BY <1>1 DEF Invocation, Start, GetLb, GetPip, ReadHealth, Retry, NotWritten, Fail
<1>2. ASSUME NEW g \in Handlers, g # h, Write(g) PROVE pc'[h] = pc[h] /\ attempt'[h] = attempt[h]
  BY <1>2 DEF Write, End, IInv, TypeOK
<1>3. ASSUME ChangeLb \/ ChangePip \/ ChangeHealth \/ Finish \/ UNCHANGED vars
      PROVE  pc' = pc /\ attempt' = attempt
  BY <1>3 DEF ChangeLb, ChangePip, ChangeHealth, Finish, Change, invocations, vars
<1>4. QED
  BY <1>1, <1>2, <1>3 DEF Next, Acts

\* A write changes the load balancer AKS has now, not the one that was read: it
\* removes the frontend and what only it used, and nothing else, whatever AKS did in
\* between (main.rs:12, :17-18).
THEOREM NothingLost == Spec => NothingOverwritten
<1> DEFINE Kept ==
        \A h \in Handlers : Acts(h) /\ lb' # lb =>
            /\ lb'.frontends \cup {Frontend} = lb.frontends
            /\ lb'.state = "Updating" => /\ Frontend \notin lb'.frontends
                                        /\ lb'.rules = {r \in lb.rules : r.frontend # Frontend}
                                        /\ lb'.members = lb.members
                                        /\ Consistent(lb')
            /\ lb'.frontends \ {Frontend} = {} => ~lb.members /\ lb'.state = "Deleting"
<1>1. ASSUME IInv, [Next]_vars PROVE [Kept]_vars
  <2>1. ASSUME NEW h \in Handlers, Acts(h), lb' # lb
        PROVE  /\ lb'.frontends \cup {Frontend} = lb.frontends
               /\ lb'.state = "Updating" => /\ Frontend \notin lb'.frontends
                                           /\ lb'.rules = {r \in lb.rules : r.frontend # Frontend}
                                           /\ lb'.members = lb.members
                                           /\ Consistent(lb')
               /\ lb'.frontends \ {Frontend} = {} => ~lb.members /\ lb'.state = "Deleting"
    <3>1. Write(h)
      BY <1>1, <2>1, WhoActs
    <3>2. WriteInv(seen[h]) /\ seen[h].action \in {"removeFrontend", "deleteLb"}
      BY <1>1, <2>1, <3>1, WriteMeets DEF WriteInv
    <3>3. /\ lb = seen[h].lb /\ lb \in LoadBalancer /\ Consistent(lb)
          /\ Frontend \in lb.frontends
          /\ seen[h].action = "deleteLb" <=> lb.frontends = {Frontend}
          /\ seen[h].action = "deleteLb" => ~lb.members
      BY <1>1, <3>1, <3>2, WriteMeets DEF WriteInv, HasFrontend
    <3>4. CASE seen[h].action = "removeFrontend"
      <4> DEFINE w == WithoutFrontend(lb)
      <4>1. /\ w \in LoadBalancer /\ Consistent(w) /\ w.frontends = lb.frontends \ {Frontend}
            /\ w.rules = {r \in lb.rules : r.frontend # Frontend} /\ w.members = lb.members
        BY <3>3, WithoutConsistent
      <4>2. Update(w, "Updating")
        BY <1>1, <3>1, <3>4, WriteMeets
      <4>3. Consistent(lb')
        BY <3>3, <4>1, <4>2, UpdateLater
      <4>4. lb'.frontends = w.frontends /\ lb'.rules = w.rules /\ lb'.members = w.members
        BY <4>1, <4>2 DEF Update, LoadBalancer
      <4>5. QED
        BY <3>3, <3>4, <4>1, <4>3, <4>4
    <3>5. CASE seen[h].action = "deleteLb"
      <4>1. Update(lb, "Deleting")
        BY <1>1, <3>1, <3>5, WriteMeets
      <4>2. lb'.frontends = lb.frontends /\ lb'.state = "Deleting"
        BY <3>3, <4>1 DEF Update, LoadBalancer
      <4>3. QED
        BY <3>3, <3>5, <4>2
    <3>6. QED
      BY <3>2, <3>4, <3>5
  <2>2. Kept
    BY <2>1
  <2>3. QED
    BY <2>2
<1>2. QED
  BY <1>1, Invariant, PTL DEF Spec, NothingOverwritten

\* No rule that goes is another Service's, or has a healthy backend that has not
\* recovered since its health was read, although health and rules are read at
\* different times (main.rs:8-9).
THEOREM TrafficKept == Spec => NoTrafficCut
<1> DEFINE Kept == \A h \in Handlers : Acts(h) /\ lb' # lb =>
                        \A r \in Owned(lb) : r.service = Service /\ (r \in live => r \in recovered[h])
<1>1. ASSUME IInv, [Next]_vars PROVE [Kept]_vars
  <2>1. ASSUME NEW h \in Handlers, Acts(h), lb' # lb, NEW r \in Owned(lb)
        PROVE  r.service = Service /\ (r \in live => r \in recovered[h])
    <3>1. Write(h)
      BY <1>1, <2>1, WhoActs
    <3>2. /\ WriteInv(seen[h]) /\ seen[h].action \in {"removeFrontend", "deleteLb"}
          /\ lb = seen[h].lb /\ NotLive(h)
      BY <1>1, <2>1, <3>1, WriteMeets DEF WriteInv, IInv, HandlerInv, Write
    <3>3. QED
      BY <2>1, <3>2 DEF WriteInv, NotLive
  <2>2. QED
    BY <2>1
<1>2. QED
  BY <1>1, Invariant, PTL DEF Spec, NoTrafficCut

\* A public IP that is deleted is the Service's alone and in nobody's use at that
\* moment (main.rs:14-15).
THEOREM IpOwned == Spec => OnlyOwnIp
<1> DEFINE Own == \A h \in Handlers : Acts(h) /\ pip' # pip =>
                        pip.services = {Service} /\ pip.user = "none"
<1>1. ASSUME IInv, [Next]_vars PROVE [Own]_vars
  <2>1. ASSUME NEW h \in Handlers, Acts(h), pip' # pip
        PROVE  pip.services = {Service} /\ pip.user = "none"
    <3>1. Write(h)
      BY <1>1, <2>1, WhoActs
    <3>2. WriteInv(seen[h]) /\ seen[h].action = "deletePip" /\ pip = seen[h].pip
      BY <1>1, <2>1, <3>1, WriteMeets DEF WriteInv
    <3>3. QED
      BY <3>2 DEF WriteInv
  <2>2. QED
    BY <2>1
<1>2. QED
  BY <1>1, Invariant, PTL DEF Spec, OnlyOwnIp

\* A conflict that is answered means that ARM did not process an earlier attempt
\* either: no method that writes is sent again after a server error (arm.rs:593-596).
THEOREM ConflictHarmless == Spec => ConflictMeansUntouched
<1>1. ASSUME IInv, [Next]_vars
      PROVE  [\A h \in Handlers : pc[h] = "write" /\ pc'[h] = "conflict" => ~applied[h]]_vars
  BY <1>1 DEF IInv, HandlerInv
<1>2. QED
  BY <1>1, Invariant, PTL DEF Spec, ConflictMeansUntouched
===============================================================================
