-------------------------------- MODULE DbRestore ------------------------------
(***************************************************************************)
(* The db-restore functions of the three clouds: they restore a database   *)
(* server to a point in time, into a new server next to it.  A restore     *)
(* outlasts an invocation: an execute only submits it.                     *)
(*                                                                         *)
(* The new server is tagged with its source and its point, by which a      *)
(* later execute on AWS recognises it.  Azure does not keep the tags, and  *)
(* Google Cloud has none: there, a server that exists is left alone.       *)
(*                                                                         *)
(* The reads of an invocation, and the time it takes, are steps of their   *)
(* own; any call may fail, and a restore may be submitted although its     *)
(* answer is lost.                                                         *)
(***************************************************************************)
EXTENDS Integers, FiniteSetsExt

CONSTANTS
    Handlers,    \* invocations running at the same time
    Clouds,      \* clouds the function may be deployed to: "aws", "azure", "gcp"
    TagKeepers,  \* the clouds among them that keep the tags of a restored server
    Points,      \* points in time callers ask for
    Strangers,   \* points in time others restore other servers to, under the target's name
    Retentions,  \* how long backups and logs are kept; 0: there are none, or it is not known
    MaxTime      \* bound of the clock, for model checking only

ASSUME CloudsAssumption == Clouds \subseteq {"aws", "azure", "gcp"} /\ TagKeepers \subseteq Clouds \ {"gcp"}
ASSUME TimesAssumption ==
    Points \subseteq Nat /\ Strangers \subseteq Nat /\ Retentions \subseteq Nat /\ MaxTime \in Nat \ {0}

VARIABLES
    cloud,      \* the cloud the function is deployed to
    clock,      \* Unix time
    source,     \* the server to restore
    target,     \* the server of the new name, or NoServer
    pc,         \* what each invocation does next, or how it ended
    req,        \* its request
    seen,       \* the source it read, and the window of restore points then
    found       \* what it found under the target's name

vars == <<cloud, clock, source, target, pc, req, seen, found>>
resources == <<cloud, clock, source, target>>

\* ready: it is available; fit: neither Aurora nor a replica; logs: it keeps what a
\* restore to a point in time needs.
Server == [exists : BOOLEAN, ready : BOOLEAN, fit : BOOLEAN, logs : BOOLEAN, created : Nat,
           retention : Retentions]

NoServer == [from |-> "nothing"]

\* What it was really restored from, to which point, and what its tags say.
Target ==
    [from : {"source", "other"}, point : Nat, tags : {"none", "source", "other"}, ready : BOOLEAN]

\* over: the target is the source itself.
Request == [action : {"plan", "execute"}, point : Points, over : BOOLEAN]
NoRequest == [action |-> "none"]
NoWindow == [earliest |-> 0]

Ended == {"idle", "planned", "refused", "done", "failed"}
Steps == {"source", "target", "window", "submit"}

-------------------------------------------------------------------------------
\* db_from: RDS reports the latest restore point, some time ago, and the earliest
\* is derived from the retention, but not before the instance was created.
AwsWindow(s, latest) ==
    [earliest |-> Max({s.created, latest - s.retention}), latest |-> latest,
     known |-> s.retention > 0]

\* The point that the clouds can really go back to, as far as the logs reach.
Earliest(s) == IF s.retention = 0 THEN s.created ELSE Max({s.created, clock - s.retention})

\* Azure reports the earliest restore point; the latest is now, at the time of the guards.
AzureWindow(s) == [earliest |-> Earliest(s), latest |-> clock, known |-> s.retention > 0]
ToNow(w) == IF cloud = "azure" THEN [w EXCEPT !.latest = clock] ELSE w

\* newWindow: what Cloud SQL reports; what it leaves out is estimated, the earliest
\* point from the retention of the logs if that is known, and the latest from now.
GcpWindows(s) ==
    LET reported == [earliest : {Earliest(s)}, known : {TRUE}, latest : {clock - 1, clock}]
        estimated == [earliest : {clock - s.retention}, known : {s.retention > 0},
                      latest : {clock - 1, clock}]
    IN  reported \cup estimated

\* Fault: the restore point's tag is not compared.
Classify_AnyPoint(t, r) ==
    IF t = NoServer THEN "missing" ELSE IF t.tags = "source" THEN "restore" ELSE "other"

\* classify: a server whose tags name the source and the point is the restore.
Classify(t, r) ==
    IF t = NoServer THEN "missing"
    ELSE IF t.tags = "source" /\ t.point = r.point THEN "restore"
    ELSE "other"

\* Fault: a server of the name that is no restore passes.
Guards_AnyName(s, w, what, r) ==
    /\ s.exists /\ s.ready /\ s.fit
    /\ ~r.over
    /\ what # "restore" => w.known /\ r.point \in w.earliest .. w.latest

\* Fault: the point of a restore that was submitted must still be in the window.
Guards_Window(s, w, what, r) ==
    /\ s.exists /\ s.ready /\ s.fit
    /\ ~r.over /\ what \in {"missing", "restore"}
    /\ w.known /\ r.point \in w.earliest .. w.latest

\* evaluate: a restore that was submitted stays valid after its point left the window.
Guards(s, w, what, r) ==
    /\ s.exists /\ s.ready /\ s.fit
    /\ ~r.over /\ what \in {"missing", "restore"}
    /\ what # "restore" => w.known /\ r.point \in w.earliest .. w.latest

-------------------------------------------------------------------------------
Init ==
    /\ cloud \in Clouds
    /\ clock = 1
    /\ source \in [exists : {TRUE}, ready : {TRUE}, fit : BOOLEAN, logs : BOOLEAN, created : {0, 1},
                   retention : Retentions]
    /\ cloud # "gcp" => source.logs = (source.retention > 0)
    /\ target = NoServer
    /\ pc = [h \in Handlers |-> "idle"]
    /\ req = [h \in Handlers |-> NoRequest]
    /\ seen = [h \in Handlers |-> [window |-> NoWindow]]
    /\ found = [h \in Handlers |-> "nothing"]

\* A valid request reaches the function.
Start(h) ==
    /\ pc[h] \in Ended
    /\ \E r \in Request : req' = [req EXCEPT ![h] = r]
    /\ pc' = [pc EXCEPT ![h] = "source"]
    /\ UNCHANGED <<resources, seen, found>>

End(h, outcome) ==
    /\ pc' = [pc EXCEPT ![h] = outcome]
    /\ req' = [req EXCEPT ![h] = NoRequest]
    /\ seen' = [seen EXCEPT ![h] = [window |-> NoWindow]]
    /\ found' = [found EXCEPT ![h] = "nothing"]

Goes(h, step, what) ==
    /\ pc' = [pc EXCEPT ![h] = step]
    /\ found' = [found EXCEPT ![h] = what]
    /\ UNCHANGED <<req, seen>>

\* The source is read, with the window that AWS and Azure report with it.  On
\* Google Cloud nothing else is asked if it is missing.
ReadSource(h) ==
    /\ pc[h] = "source"
    /\ \/ /\ cloud = "gcp" /\ ~source.exists
          /\ End(h, "refused")
       \/ /\ cloud = "gcp" => source.exists
          /\ \E lag \in {0, 1} :
                LET w == CASE cloud = "aws" -> AwsWindow(source, clock - lag)
                           [] cloud = "azure" -> AzureWindow(source)
                           [] cloud = "gcp" -> NoWindow
                IN  seen' = [seen EXCEPT ![h] = [server |-> source, window |-> w]]
          /\ pc' = [pc EXCEPT ![h] = "target"]
          /\ UNCHANGED <<req, found>>
    /\ UNCHANGED resources

\* What follows from what was read: an answer, or the restore.
Decide(h, w, what) ==
    IF ~Guards(seen[h].server, w, what, req[h]) THEN End(h, "refused")
    ELSE IF req[h].action = "plan" THEN End(h, "planned")
    ELSE IF what = "restore" THEN End(h, "done")
    ELSE Goes(h, "submit", what)

\* The server of the target's name is looked for, unless it is the source itself.
\* The window of Cloud SQL is asked for last, if the source keeps logs.
ReadTarget(h) ==
    LET what == IF req[h].over THEN "missing" ELSE Classify(target, req[h]) IN
    /\ pc[h] = "target"
    /\ IF cloud = "gcp"
       THEN IF seen[h].server.logs THEN Goes(h, "window", what) ELSE End(h, "refused")
       ELSE Decide(h, ToNow(seen[h].window), what)
    /\ UNCHANGED resources

ReadWindow(h) ==
    /\ pc[h] = "window"
    /\ \E w \in GcpWindows(seen[h].server) : Decide(h, w, found[h])
    /\ UNCHANGED resources

\* restore_body: a server made from the source as it is now, tagged on the clouds
\* that keep the tags.
Restored(h) ==
    [from |-> "source", point |-> req[h].point, ready |-> FALSE,
     tags |-> IF cloud \in TagKeepers THEN "source" ELSE "none"]

\* The clouds only restore what they can: the source is there with its logs, and the
\* point in its window now.
Restorable(h) == source.exists /\ source.logs /\ req[h].point \in Earliest(source) .. clock

\* Fault: the PUT replaces a server that appeared since it was looked for.
Submit_Always(h) ==
    /\ pc[h] = "submit"
    /\ Restorable(h)
    /\ cloud # "azure" => target = NoServer
    /\ target' = Restored(h)
    /\ \E outcome \in {"done", "failed"} : End(h, outcome)
    /\ UNCHANGED <<cloud, clock, source>>

\* The restore is submitted.  RDS and Cloud SQL refuse a name that exists, ARM
\* does with If-None-Match.
Submit(h) ==
    /\ pc[h] = "submit"
    /\ Restorable(h)
    /\ target = NoServer
    /\ target' = Restored(h)
    /\ \E outcome \in {"done", "failed"} : End(h, outcome)
    /\ UNCHANGED <<cloud, clock, source>>

\* A call fails, or the invocation dies.
Fail(h) ==
    /\ pc[h] \in Steps
    /\ End(h, "failed")
    /\ UNCHANGED resources

-------------------------------------------------------------------------------
\* Everybody else.

Tick ==
    /\ clock < MaxTime
    /\ clock' = clock + 1
    /\ UNCHANGED <<cloud, source, target, pc, req, seen, found>>

\* The source is busy for a while, or deleted for good.
SourceChanges ==
    /\ source.exists
    /\ \/ source' = [source EXCEPT !.ready = ~@]
       \/ source' = [source EXCEPT !.exists = FALSE, !.ready = FALSE]
    /\ UNCHANGED <<cloud, clock, target, pc, req, seen, found>>

\* A server appears under the target's name: a new one, or one that was restored
\* from another server, or by other means from this one.
TargetAppears ==
    /\ target = NoServer
    /\ \E from \in {"source", "other"}, point \in Strangers, tagged \in BOOLEAN :
        target' = [from |-> from, point |-> point, ready |-> FALSE,
                   tags |-> IF tagged /\ from = "other" /\ cloud \in TagKeepers THEN from ELSE "none"]
    /\ UNCHANGED <<cloud, clock, source, pc, req, seen, found>>

\* It is ready, or deleted.
TargetChanges ==
    /\ target # NoServer
    /\ \/ ~target.ready /\ target' = [target EXCEPT !.ready = TRUE]
       \/ target' = NoServer
    /\ UNCHANGED <<cloud, clock, source, pc, req, seen, found>>

Step(h) ==
    \/ Start(h)
    \/ ReadSource(h)
    \/ ReadTarget(h)
    \/ ReadWindow(h)
    \/ Submit(h)
    \/ Fail(h)

Others == Tick \/ SourceChanges \/ TargetAppears \/ TargetChanges

Next == (\E h \in Handlers : Step(h)) \/ Others

Spec == Init /\ [][Next]_vars

-------------------------------------------------------------------------------
\* Every variable has its type, and whoever is about to submit a restore found
\* the name free and has read a source that is fit for it.
TypeOK ==
    /\ cloud \in Clouds
    /\ clock \in 1 .. MaxTime
    /\ source \in Server
    /\ target \in Target \cup {NoServer}
    /\ pc \in [Handlers -> Ended \cup Steps]
    /\ req \in [Handlers -> Request \cup {NoRequest}]
    /\ found \in [Handlers -> {"nothing", "missing", "restore", "other"}]
    /\ \A h \in Handlers : pc[h] \in {"target", "window", "submit"} => seen[h].server \in Server
    /\ \A h \in Handlers : pc[h] = "submit" => found[h] = "missing" /\ ~req[h].over

\* A server that exists is never changed or replaced by the function, although it
\* may have appeared since its name was found free (db-restore-azure main.rs:194).
ExistingUntouched ==
    [][\A h \in Handlers : pc[h] = "submit" /\ pc'[h] # "submit" /\ target # NoServer =>
        target' = target]_vars

\* An execute that answers done leaves a restore of the source to the point it was
\* asked for, and never mistakes another server for it (main.rs:8-9).
DoneMeansRestored ==
    [][\A h \in Handlers : pc[h] \in Steps /\ pc'[h] = "done" =>
        /\ target' # NoServer
        /\ target'.from = "source" /\ target'.point = req[h].point]_vars

\* Where the tags are kept, a plan or an execute that finds what an execute with the
\* same parameters restored is not refused, however old the point is by now.
RestoreRecognised ==
    [][\A h \in Handlers :
        /\ pc[h] = "target" /\ pc'[h] = "refused"
        /\ cloud \in TagKeepers
        /\ seen[h].server.exists /\ seen[h].server.ready /\ seen[h].server.fit /\ ~req[h].over
        => target = NoServer \/ target.tags # "source" \/ target.point # req[h].point]_vars
===============================================================================
