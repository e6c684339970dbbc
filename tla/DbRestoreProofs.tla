---------------------------- MODULE DbRestoreProofs ----------------------------
(***************************************************************************)
(* Proofs about the db-restore functions, for any points in time,          *)
(* retentions and number of invocations.  They rest on what the tags of a  *)
(* server prove: only a restore of the source is tagged with it, and only  *)
(* on the clouds that keep the tags.                                       *)
(***************************************************************************)
EXTENDS DbRestore, TLAPS

TagsTrue ==
    target # NoServer =>
        /\ target.tags = "source" => target.from = "source"
        /\ target.tags # "none" => cloud \in TagKeepers

HandlerInv(h) ==
    /\ pc[h] \in Steps => req[h] \in Request
    /\ pc[h] = "window" => cloud = "gcp" /\ found[h] # "restore"

IInv == TypeOK /\ DOMAIN seen = Handlers /\ TagsTrue /\ \A h \in Handlers : HandlerInv(h)

-------------------------------------------------------------------------------
LEMMA SomeServer == ASSUME NEW t \in Target PROVE t # NoServer
BY DEF Target, NoServer

LEMMA Classes == ASSUME NEW t, NEW r PROVE Classify(t, r) \in {"missing", "restore", "other"}
BY DEF Classify

\* What the steps of an invocation keep of the others, and establish for itself.
LocalsOK(h) ==
    /\ DOMAIN seen' = Handlers
    /\ pc' \in [Handlers -> Ended \cup Steps]
    /\ req' \in [Handlers -> Request \cup {NoRequest}]
    /\ found' \in [Handlers -> {"nothing", "missing", "restore", "other"}]
    /\ \A g \in Handlers \ {h} :
            pc'[g] = pc[g] /\ req'[g] = req[g] /\ seen'[g] = seen[g] /\ found'[g] = found[g]
    /\ pc'[h] \in {"target", "window", "submit"} => seen'[h].server \in Server
    /\ pc'[h] = "submit" => found'[h] = "missing" /\ ~req'[h].over
    /\ pc'[h] \in Steps => req'[h] \in Request
    /\ pc'[h] = "window" => cloud = "gcp" /\ found'[h] # "restore"

LEMMA EndInv ==
    ASSUME IInv, NEW h \in Handlers, NEW outcome \in Ended, End(h, outcome)
    PROVE  LocalsOK(h) /\ pc'[h] = outcome
BY DEF IInv, TypeOK, End, Ended, Steps, LocalsOK

\* A step of an invocation keeps the invariant if it keeps the resources.
LEMMA InvocationStep ==
    ASSUME IInv, NEW h \in Handlers, LocalsOK(h), UNCHANGED <<cloud, clock, source>>,
           target' \in Target \cup {NoServer}, TagsTrue'
    PROVE  IInv'
<1>1. TypeOK'
  BY DEF IInv, TypeOK, LocalsOK
<1>2. \A g \in Handlers : HandlerInv(g)'
  BY DEF IInv, HandlerInv, LocalsOK
<1>3. QED
  BY <1>1, <1>2 DEF IInv, LocalsOK

\* What is decided from what was read and found.
LEMMA DecideInv ==
    ASSUME IInv, NEW h \in Handlers, pc[h] \in {"target", "window"}, NEW w,
           NEW what \in {"missing", "restore", "other"}, Decide(h, w, what)
    PROVE  LocalsOK(h) /\ pc'[h] # "window"
<1>1. CASE \E outcome \in Ended : End(h, outcome)
  BY <1>1, EndInv DEF Ended
<1>2. CASE Guards(seen[h].server, w, what, req[h]) /\ what # "restore" /\ Goes(h, "submit", what)
  <2>1. what = "missing" /\ ~req[h].over
    BY <1>2 DEF Guards
  <2>2. req[h] \in Request /\ seen[h].server \in Server
    BY DEF IInv, HandlerInv, TypeOK, Steps
  <2>3. QED
    BY <1>2, <2>1, <2>2 DEF IInv, TypeOK, Goes, LocalsOK, Steps
<1>3. QED
  BY <1>1, <1>2 DEF Decide, Ended

LEMMA StartStep == ASSUME IInv, NEW h \in Handlers, Start(h) PROVE IInv'
<1>1. LocalsOK(h)
  BY DEF IInv, TypeOK, Start, LocalsOK, Steps
<1>2. QED
  BY <1>1, InvocationStep DEF Start, resources, IInv, TypeOK, TagsTrue

LEMMA ReadSourceStep == ASSUME IInv, NEW h \in Handlers, ReadSource(h) PROVE IInv'
<1>1. /\ UNCHANGED resources /\ pc[h] = "source" /\ req[h] \in Request /\ source \in Server
  BY DEF ReadSource, IInv, HandlerInv, TypeOK, Steps
<1>2. CASE \E outcome \in Ended : End(h, outcome)
  BY <1>1, <1>2, EndInv, InvocationStep DEF resources, IInv, TypeOK, TagsTrue
<1>3. ASSUME NEW w, seen' = [seen EXCEPT ![h] = [server |-> source, window |-> w]],
             pc' = [pc EXCEPT ![h] = "target"], UNCHANGED <<req, found>>
      PROVE  IInv'
  <2>1. LocalsOK(h)
    BY <1>1, <1>3 DEF IInv, TypeOK, LocalsOK, Steps
  <2>2. QED
    BY <1>1, <2>1, InvocationStep DEF resources, IInv, TypeOK, TagsTrue
<1>4. QED
  BY <1>2, <1>3 DEF ReadSource, Ended

LEMMA ReadTargetStep == ASSUME IInv, NEW h \in Handlers, ReadTarget(h) PROVE IInv'
<1> DEFINE what == IF req[h].over THEN "missing" ELSE Classify(target, req[h])
<1>1. /\ UNCHANGED resources /\ pc[h] = "target" /\ req[h] \in Request
      /\ seen[h].server \in Server /\ what \in {"missing", "restore", "other"}
  BY Classes DEF ReadTarget, IInv, HandlerInv, TypeOK, Steps
<1>2. LocalsOK(h)
  <2>1. CASE cloud # "gcp"
    BY <1>1, <2>1, DecideInv DEF ReadTarget
  <2>2. CASE cloud = "gcp" /\ \E outcome \in Ended : End(h, outcome)
    BY <2>2, EndInv
  <2>3. CASE cloud = "gcp" /\ Goes(h, "window", what)
    <3>1. what # "restore"
      BY <2>3, CloudsAssumption DEF IInv, TagsTrue, Classify
    <3>2. QED
      BY <1>1, <2>3, <3>1 DEF IInv, TypeOK, Goes, LocalsOK, Steps
  <2>4. QED
    BY <2>1, <2>2, <2>3 DEF ReadTarget, Ended
<1>3. QED
  BY <1>1, <1>2, InvocationStep DEF resources, IInv, TypeOK, TagsTrue

LEMMA ReadWindowStep == ASSUME IInv, NEW h \in Handlers, ReadWindow(h) PROVE IInv'
<1>1. /\ UNCHANGED resources /\ pc[h] = "window"
      /\ \E w : Decide(h, w, found[h])
  BY DEF ReadWindow
<1>2. CASE found[h] \in {"missing", "restore", "other"}
  BY <1>1, <1>2, DecideInv, InvocationStep DEF resources, IInv, TypeOK, TagsTrue
<1>3. CASE found[h] = "nothing"
  <2>1. \E outcome \in Ended : End(h, outcome)
    BY <1>1, <1>3 DEF Decide, Guards, Ended
  <2>2. QED
    BY <1>1, <2>1, EndInv, InvocationStep DEF resources, IInv, TypeOK, TagsTrue
<1>4. QED
  BY <1>2, <1>3 DEF IInv, TypeOK

LEMMA SubmitStep == ASSUME IInv, NEW h \in Handlers, Submit(h) PROVE IInv'
<1>1. req[h] \in Request /\ UNCHANGED <<cloud, clock, source>> /\ target' = Restored(h)
  BY DEF Submit, IInv, HandlerInv, Steps
<1>2. req[h].point \in Nat
  BY <1>1, TimesAssumption DEF Request
<1>3. Restored(h) \in Target
  BY <1>2 DEF Restored, Target
<1>4. TagsTrue'
  BY <1>1 DEF TagsTrue, Restored
<1>5. LocalsOK(h)
  BY EndInv DEF Submit, Ended
<1>6. QED
  BY <1>1, <1>3, <1>4, <1>5, InvocationStep

LEMMA FailStep == ASSUME IInv, NEW h \in Handlers, Fail(h) PROVE IInv'
BY EndInv, InvocationStep DEF Fail, Ended, resources, IInv, TypeOK, TagsTrue

LEMMA OthersStep == ASSUME IInv, Others PROVE IInv'
<1>1. UNCHANGED <<cloud, pc, req, seen, found>>
  BY DEF Others, Tick, SourceChanges, TargetAppears, TargetChanges
<1>2. clock' \in 1 .. MaxTime
  BY TimesAssumption DEF Others, Tick, SourceChanges, TargetAppears, TargetChanges, IInv, TypeOK
<1>3. source' \in Server
  BY DEF Others, Tick, SourceChanges, TargetAppears, TargetChanges, IInv, TypeOK, Server
<1>4. target' \in Target \cup {NoServer} /\ TagsTrue'
  <2>1. CASE Tick \/ SourceChanges
    BY <1>1, <2>1 DEF Tick, SourceChanges, IInv, TypeOK, TagsTrue
  <2>2. CASE TargetAppears
    BY <1>1, <2>2, TimesAssumption DEF TargetAppears, Target, TagsTrue
  <2>3. CASE TargetChanges
    BY <1>1, <2>3 DEF TargetChanges, IInv, TypeOK, TagsTrue, Target
  <2>4. QED
    BY <2>1, <2>2, <2>3 DEF Others
<1>5. QED
  BY <1>1, <1>2, <1>3, <1>4 DEF IInv, TypeOK, HandlerInv

LEMMA StepKeeps == ASSUME IInv, [Next]_vars PROVE IInv'
<1>1. ASSUME UNCHANGED vars PROVE IInv'
  BY <1>1 DEF vars, IInv, TypeOK, TagsTrue, HandlerInv
<1>2. QED
  BY <1>1, StartStep, ReadSourceStep, ReadTargetStep, ReadWindowStep, SubmitStep, FailStep,
     OthersStep DEF Next, Step

LEMMA Invariant == Spec => []IInv
<1>1. ASSUME Init PROVE IInv
  <2>1. source \in Server
    <3>1. PICK fit \in BOOLEAN, logs \in BOOLEAN, created \in {0, 1}, retention \in Retentions :
            source = [exists |-> TRUE, ready |-> TRUE, fit |-> fit, logs |-> logs,
                      created |-> created, retention |-> retention]
      BY <1>1 DEF Init
    <3>2. created \in Nat
      OBVIOUS
    <3>3. QED
      BY <3>1, <3>2 DEF Server
  <2>2. clock \in 1 .. MaxTime
    BY <1>1, TimesAssumption DEF Init
  <2>3. \A h \in Handlers : pc[h] = "idle"
    BY <1>1 DEF Init
  <2>4. TypeOK
    BY <1>1, <2>1, <2>2, <2>3 DEF Init, TypeOK, Ended
  <2>5. QED
    BY <1>1, <2>3, <2>4 DEF Init, IInv, TagsTrue, HandlerInv, Steps
<1>2. QED
  BY <1>1, StepKeeps, PTL DEF Spec

\* Every reachable state is well typed, and who is about to submit a restore found
\* the name free and a source to restore (evaluate).
THEOREM TypeCorrect == Spec => []TypeOK
<1>1. IInv => TypeOK
  BY DEF IInv
<1>2. QED
  BY <1>1, Invariant, PTL

\* An invocation moves by its own steps only.
LEMMA OwnStep ==
    ASSUME IInv, [Next]_vars, NEW h \in Handlers, pc'[h] # pc[h]
    PROVE  Step(h)
<1>1. ASSUME NEW g \in Handlers, g # h, Step(g) PROVE pc'[h] = pc[h]
  BY <1>1 DEF Step, Start, ReadSource, ReadTarget, ReadWindow, Submit, Fail, Decide, End, Goes,
     IInv, TypeOK
<1>2. ASSUME Others \/ UNCHANGED vars PROVE pc' = pc
  BY <1>2 DEF Others, Tick, SourceChanges, TargetAppears, TargetChanges, vars
<1>3. QED
  BY <1>1, <1>2 DEF Next

\* A server that exists under the new name survives every execute, whoever created it
\* and whenever (db-restore-azure main.rs:194: If-None-Match).
THEOREM Untouched == Spec => ExistingUntouched
<1> DEFINE Kept == \A h \in Handlers :
        pc[h] = "submit" /\ pc'[h] # "submit" /\ target # NoServer => target' = target
<1>1. ASSUME IInv, [Next]_vars PROVE [Kept]_vars
  <2>1. ASSUME NEW h \in Handlers, pc[h] = "submit", pc'[h] # "submit", target # NoServer
        PROVE  target' = target
    <3>1. Step(h)
      BY <1>1, <2>1, OwnStep
    <3>2. QED
      BY <2>1, <3>1 DEF Step, Start, ReadSource, ReadTarget, ReadWindow, Submit, Fail, resources,
         Ended
  <2>2. QED
    BY <2>1
<1>2. QED
  BY <1>1, Invariant, PTL DEF Spec, ExistingUntouched

\* An execute that answers done leaves a restore of the source to the point asked for:
\* its own, or one whose tags prove it (main.rs:8-9).
THEOREM DoneIsRestore == Spec => DoneMeansRestored
<1> DEFINE Restores == \A h \in Handlers : pc[h] \in Steps /\ pc'[h] = "done" =>
        /\ target' # NoServer
        /\ target'.from = "source" /\ target'.point = req[h].point
<1>1. ASSUME IInv, [Next]_vars PROVE [Restores]_vars
  <2>1. ASSUME NEW h \in Handlers, pc[h] \in Steps, pc'[h] = "done"
        PROVE  /\ target' # NoServer
               /\ target'.from = "source" /\ target'.point = req[h].point
    <3>1. Step(h)
      BY <1>1, <2>1, OwnStep DEF Steps
    <3>2. ASSUME NEW w, NEW what, Decide(h, w, what) PROVE what = "restore"
      BY <1>1, <2>1, <3>2 DEF Decide, End, Goes, IInv, TypeOK
    <3>3. CASE ReadTarget(h)
      <4>1. ~req[h].over /\ Classify(target, req[h]) = "restore" /\ target' = target
        BY <1>1, <2>1, <3>2, <3>3 DEF ReadTarget, Goes, End, resources, IInv, TypeOK
      <4>2. QED
        BY <1>1, <4>1 DEF Classify, IInv, TagsTrue
    <3>4. CASE ReadWindow(h)
      BY <1>1, <3>2, <3>4 DEF ReadWindow, IInv, HandlerInv
    <3>5. CASE Submit(h)
      <4>1. req[h] \in Request
        BY <1>1, <2>1 DEF IInv, HandlerInv
      <4>2. Restored(h) \in Target
        BY <4>1, TimesAssumption DEF Restored, Target, Request
      <4>3. QED
        BY <3>5, <4>2, SomeServer DEF Submit, Restored
    <3>6. CASE Start(h) \/ ReadSource(h) \/ Fail(h)
      BY <1>1, <2>1, <3>6 DEF Start, ReadSource, Fail, End, IInv, TypeOK, Ended, Steps
    <3>7. QED
      BY <3>1, <3>3, <3>4, <3>5, <3>6 DEF Step
  <2>2. QED
    BY <2>1
<1>2. QED
  BY <1>1, Invariant, PTL DEF Spec, DoneMeansRestored

\* On the clouds that keep the tags, a plan or an execute whose restore exists is not
\* refused, even when the point has left the window since (evaluate).
THEOREM Recognised == Spec => RestoreRecognised
<1> DEFINE Kept == \A h \in Handlers :
        /\ pc[h] = "target" /\ pc'[h] = "refused"
        /\ cloud \in TagKeepers
        /\ seen[h].server.exists /\ seen[h].server.ready /\ seen[h].server.fit /\ ~req[h].over
        => target = NoServer \/ target.tags # "source" \/ target.point # req[h].point
<1>1. ASSUME IInv, [Next]_vars PROVE [Kept]_vars
  <2>1. ASSUME NEW h \in Handlers, pc[h] = "target", pc'[h] = "refused", cloud \in TagKeepers,
               seen[h].server.exists, seen[h].server.ready, seen[h].server.fit, ~req[h].over,
               target # NoServer, target.tags = "source", target.point = req[h].point
        PROVE  FALSE
    <3>1. Step(h)
      BY <1>1, <2>1, OwnStep
    <3>2. ReadTarget(h)
      BY <1>1, <2>1, <3>1 DEF Step, Start, ReadSource, ReadWindow, Submit, Fail, End, IInv, TypeOK,
         Ended
    <3>3. Decide(h, ToNow(seen[h].window), "restore")
      BY <2>1, <3>2, CloudsAssumption DEF ReadTarget, Classify
    <3>4. Guards(seen[h].server, ToNow(seen[h].window), "restore", req[h])
      BY <2>1 DEF Guards
    <3>5. QED
      BY <1>1, <2>1, <3>3, <3>4 DEF Decide, End, IInv, TypeOK
  <2>2. Kept
    BY <2>1
  <2>3. QED
    BY <2>2
<1>2. QED
  BY <1>1, Invariant, PTL DEF Spec, RestoreRecognised
===============================================================================
