------------------------------ MODULE VolumeDelete -----------------------------
(***************************************************************************)
(* The volume-delete functions of the three clouds: they delete an         *)
(* orphaned disk that Kubernetes created, after taking a snapshot of it.   *)
(* The rules are shared (crates/core/src/volume.rs, internal/volume); the  *)
(* clouds differ in what they report and in how a disk is named.           *)
(*                                                                         *)
(* An execute without a snapshot that counts starts one and is refused; a  *)
(* later execute deletes the disk.  Between the reads and the write of an  *)
(* invocation anybody may attach the disk, write to it, detach it, or      *)
(* delete it and create another one of the same name.  Any call may fail,  *)
(* a write may take effect although its answer is lost.                    *)
(***************************************************************************)
EXTENDS Naturals, FiniteSets

CONSTANTS
    Handlers,    \* invocations running at the same time
    Clouds,      \* clouds the function may be deployed to: "aws", "azure", "gcp"
    PVs,         \* PersistentVolumes disks are created for
    NoPV,        \* the claim of a disk that Kubernetes did not create
    AllowSkip,   \* whether the installation lets callers skip the snapshot
    MaxAge,      \* SNAPSHOT_MAX_AGE_SECS
    Skew,        \* CLOCK_SKEW_SECS
    MaxTime,     \* bound of the clock, for model checking only
    MaxDisks,    \* bound of the disks created under the name, for model checking only
    MaxSnapshots,  \* bound of the snapshots, for model checking only
    Quiet        \* clouds where nobody touches the disk between an invocation's
                 \* read of it and its decision and deletion

ASSUME CloudsAssumption == Clouds \subseteq {"aws", "azure", "gcp"} /\ Quiet \subseteq Clouds
ASSUME NoPVAssumption == NoPV \notin PVs
ASSUME FlagsAssumption == AllowSkip \in BOOLEAN
ASSUME BoundsAssumption ==
    MaxAge \in Nat /\ Skew \in Nat /\ MaxTime \in Nat /\ MaxDisks \in Nat \ {0} /\ MaxSnapshots \in Nat

VARIABLES
    cloud,      \* the cloud the function is deployed to
    clock,      \* the cloud's time
    disk,       \* the disk of the name asked for, or NoDisk
    created,    \* how many disks of the name there have been
    snapshots,  \* the snapshots this function took
    pc,         \* what each invocation does next, or how it ended
    req,        \* its request
    seen        \* the disk it read

vars == <<cloud, clock, disk, created, snapshots, pc, req, seen>>
resources == <<cloud, clock, disk, created, snapshots>>
invocations == <<pc, req, seen>>

Never == 0                  \* no detach is known of
NoDisk == [id |-> 0]

\* unique: the cloud reports an ID of it that a disk of the same name does not share.
\* ARM may not.
Disk ==
    [id : Nat \ {0}, unique : BOOLEAN, pv : PVs \cup {NoPV}, attached : BOOLEAN, detached : Nat]
NewDisks(id) ==
    {d \in [id : {id}, unique : BOOLEAN, pv : PVs \cup {NoPV}, attached : {FALSE},
            detached : {Never}] : cloud # "azure" => d.unique}

\* source is the disk the cloud recorded, label what the function wrote on it;
\* current says whether the disk was not written since it was taken.
Snapshot ==
    [source : Nat, label : Nat, started : Nat, current : BOOLEAN,
     state : {"inProgress", "completed", "failed"}]

Request == [action : {"plan", "execute"}, pv : PVs, snapshot : {TRUE} \cup {~AllowSkip}]

Ended == {"idle", "planned", "refused", "done", "failed"}
Steps == {"disk", "snapshots", "create", "delete"}

-------------------------------------------------------------------------------
\* The rules of crates/core/src/volume.rs.

\* Fault: a snapshot counts that started in the second of the detach.
SnapshotCounts_NotBefore(started, now, detached) ==
    started <= now + Skew /\ now <= started + MaxAge /\ started >= detached

\* snapshot_counts: recent, not in the future, and after the last detach.
SnapshotCounts(started, now, detached) ==
    /\ started <= now + Skew
    /\ now <= started + MaxAge
    /\ detached # Never => started > detached

\* Fault: a disk of no claim passes.
Safe_Unclaimed(d, pv, ready) == ~d.attached /\ ready /\ d.pv \in {pv, NoPV}

\* The guards on the disk itself; ready is whether its state allows deletion.
Safe(d, pv, ready) == ~d.attached /\ ready /\ d.pv = pv

\* Fault: a snapshot that was started is good enough.
ExecuteStep_Started(safe, required, status) ==
    IF ~safe THEN "refused"
    ELSE IF ~required \/ status \in {"completed", "inProgress"} THEN "delete"
    ELSE "create"

\* evaluate: the next step of an execute, from the snapshot's status.
ExecuteStep(safe, required, status) ==
    IF ~safe THEN "refused"
    ELSE IF ~required \/ status = "completed" THEN "delete"
    ELSE IF status = "inProgress" THEN "refused"
    ELSE "create"

\* A plan passes the guards unless a snapshot is in progress.
PlanStep(safe, required, status) ==
    IF safe /\ ~(required /\ status = "inProgress") THEN "planned" ELSE "refused"

-------------------------------------------------------------------------------
\* What the clouds tell apart.

\* When the disk was last detached: EC2 does not report it.
DetachedAt(d) == IF cloud = "aws" THEN Never ELSE d.detached

\* What the function writes on a snapshot of d: its ID, or on Azure the resource
\* ID, which a disk of the same name shares.
Label(d) == IF cloud = "azure" THEN 0 ELSE d.id

\* taken_of: the cloud recorded d as the snapshot's source, by the unique ID if the
\* disk has one, and else by the resource ID, which all disks of the name share.
TakenOf(s, d) == d.unique => s.source = d.id

\* The function's snapshots of d that count at now.
Counting(d, now) ==
    {s \in snapshots : /\ s.label = Label(d)
                       /\ TakenOf(s, d)
                       /\ SnapshotCounts(s.started, now, DetachedAt(d))}

\* snapshot_status: that of the latest; of two as late, either is found.
Status(d, now, status) ==
    LET counting == Counting(d, now)
        latest == {s \in counting : \A t \in counting : t.started <= s.started}
    IN  IF counting = {} THEN status = "missing" ELSE \E s \in latest : status = s.state

-------------------------------------------------------------------------------
Init ==
    /\ cloud \in Clouds
    /\ clock = 1
    /\ disk \in NewDisks(1)
    /\ created = 1
    /\ snapshots = {}
    /\ pc = [h \in Handlers |-> "idle"]
    /\ req = [h \in Handlers |-> [action |-> "none"]]
    /\ seen = [h \in Handlers |-> NoDisk]

\* A valid request reaches the function; skipping the snapshot is only valid if
\* the installation allows it.
Start(h) ==
    /\ pc[h] \in Ended
    /\ \E r \in Request : req' = [req EXCEPT ![h] = r]
    /\ pc' = [pc EXCEPT ![h] = "disk"]
    /\ UNCHANGED <<resources, seen>>

End(h, outcome) ==
    /\ pc' = [pc EXCEPT ![h] = outcome]
    /\ req' = [req EXCEPT ![h] = [action |-> "none"]]
    /\ seen' = [seen EXCEPT ![h] = NoDisk]

\* The decision about disk d: an answer, or the write that comes next.
Decide(h, d, ready, status) ==
    LET safe == Safe(d, req[h].pv, ready)
        step == IF req[h].action = "plan"
                THEN PlanStep(safe, req[h].snapshot, status)
                ELSE ExecuteStep(safe, req[h].snapshot, status)
    IN  IF step \in Ended
        THEN End(h, step)
        ELSE /\ pc' = [pc EXCEPT ![h] = step]
             /\ seen' = [seen EXCEPT ![h] = d]
             /\ UNCHANGED req

\* Fault: the disk is not kept for the decision.
ReadDisk_Forgets(h) ==
    /\ pc[h] = "disk"
    /\ \/ disk = NoDisk /\ End(h, "refused")
       \/ /\ disk # NoDisk
          /\ pc' = [pc EXCEPT ![h] = "snapshots"]
          /\ UNCHANGED <<req, seen>>
    /\ UNCHANGED resources

\* The disk is read.  It may be missing; without a snapshot to look for, the
\* decision follows.
ReadDisk(h) ==
    /\ pc[h] = "disk"
    /\ \/ disk = NoDisk /\ End(h, "refused")
       \/ /\ disk # NoDisk
          /\ IF req[h].snapshot
             THEN /\ pc' = [pc EXCEPT ![h] = "snapshots"]
                  /\ seen' = [seen EXCEPT ![h] = disk]
                  /\ UNCHANGED req
             ELSE \E ready \in BOOLEAN : Decide(h, disk, ready, "missing")
    /\ UNCHANGED resources

\* The snapshots are listed, at a time the clocks agree on up to the skew, and
\* it is decided what to do.
ReadSnapshots(h) ==
    /\ pc[h] = "snapshots"
    /\ \E now \in 0 .. clock + Skew, status \in {"missing", "inProgress", "completed", "failed"} :
        /\ clock <= now + Skew
        /\ Status(seen[h], now, status)
        /\ \E ready \in BOOLEAN : Decide(h, seen[h], ready, status)
    /\ UNCHANGED resources

\* A snapshot is started of the disk that has the name now, and the execute is
\* refused.
CreateSnapshot(h) ==
    /\ pc[h] = "create"
    /\ disk # NoDisk /\ Cardinality(snapshots) < MaxSnapshots
    /\ snapshots' = snapshots \cup {[source |-> disk.id, label |-> Label(seen[h]),
            started |-> clock, current |-> TRUE, state |-> "inProgress"]}
    /\ \E outcome \in {"refused", "failed"} : End(h, outcome)
    /\ UNCHANGED <<cloud, clock, disk, created>>

\* The disk that has the name now is deleted; the clouds refuse to delete one
\* that is attached.
DeleteDisk(h) ==
    /\ pc[h] = "delete"
    /\ disk # NoDisk /\ ~disk.attached
    /\ disk' = NoDisk
    /\ \E outcome \in {"done", "failed"} : End(h, outcome)
    /\ UNCHANGED <<cloud, clock, created, snapshots>>

\* ARM takes a missing disk for deleted.
DeleteMissing(h) ==
    /\ pc[h] = "delete"
    /\ cloud = "azure" /\ disk = NoDisk
    /\ End(h, "done")
    /\ UNCHANGED resources

\* A call fails, or the invocation dies.
Fail(h) ==
    /\ pc[h] \in Steps
    /\ End(h, "failed")
    /\ UNCHANGED resources

-------------------------------------------------------------------------------
\* Everybody else.

MayTouch == cloud \in Quiet => \A h \in Handlers : pc[h] \notin {"snapshots", "delete"}

Attach ==
    /\ disk # NoDisk /\ ~disk.attached
    /\ MayTouch
    /\ disk' = [disk EXCEPT !.attached = TRUE]
    /\ UNCHANGED <<cloud, clock, created, snapshots, invocations>>

\* Whoever uses the disk writes to it: older snapshots miss that data.
WriteData ==
    /\ disk # NoDisk /\ disk.attached
    /\ snapshots' = {[s EXCEPT !.current = @ /\ s.source # disk.id] : s \in snapshots}
    /\ UNCHANGED <<cloud, clock, disk, created, invocations>>

Detach ==
    /\ disk # NoDisk /\ disk.attached
    /\ disk' = [disk EXCEPT !.attached = FALSE, !.detached = clock]
    /\ UNCHANGED <<cloud, clock, created, snapshots, invocations>>

\* Somebody else deletes the disk, or creates one of the same name, for any
\* PersistentVolume.  EC2 never reuses a volume ID.
Destroy ==
    /\ disk # NoDisk /\ ~disk.attached
    /\ MayTouch
    /\ disk' = NoDisk
    /\ UNCHANGED <<cloud, clock, created, snapshots, invocations>>

Recreate ==
    /\ disk = NoDisk
    /\ cloud # "aws" /\ created < MaxDisks
    /\ MayTouch
    /\ created' = created + 1
    /\ disk' \in NewDisks(created + 1)
    /\ UNCHANGED <<cloud, clock, snapshots, invocations>>

\* A snapshot completes or fails.
SnapshotEnds ==
    /\ \E s \in snapshots, state \in {"completed", "failed"} :
        /\ s.state = "inProgress"
        /\ snapshots' = (snapshots \ {s}) \cup {[s EXCEPT !.state = state]}
    /\ UNCHANGED <<cloud, clock, disk, created, invocations>>

Tick ==
    /\ clock < MaxTime
    /\ clock' = clock + 1
    /\ UNCHANGED <<cloud, disk, created, snapshots, invocations>>

Step(h) ==
    \/ Start(h)
    \/ ReadDisk(h)
    \/ ReadSnapshots(h)
    \/ CreateSnapshot(h)
    \/ DeleteDisk(h)
    \/ DeleteMissing(h)
    \/ Fail(h)

Others == Attach \/ WriteData \/ Detach \/ Destroy \/ Recreate \/ SnapshotEnds \/ Tick

Next == (\E h \in Handlers : Step(h)) \/ Others

Spec == Init /\ [][Next]_vars

-------------------------------------------------------------------------------
\* Every variable has its type; the disk is the latest of its name, and an
\* invocation about to write has read one.
TypeOK ==
    /\ cloud \in Clouds
    /\ clock \in Nat
    /\ disk \in Disk \cup {NoDisk}
    /\ created \in Nat
    /\ disk # NoDisk => disk.id = created
    /\ snapshots \in SUBSET Snapshot
    /\ pc \in [Handlers -> Ended \cup Steps]
    /\ req \in [Handlers -> Request \cup {[action |-> "none"]}]
    /\ seen \in [Handlers -> Disk \cup {NoDisk}]
    /\ \A h \in Handlers : pc[h] \in {"snapshots", "create", "delete"} => seen[h] # NoDisk

\* Invocation h deletes the disk in this step.
Deletes(h) == disk # NoDisk /\ disk' = NoDisk /\ pc[h] = "delete" /\ pc'[h] # "delete"

\* A disk is only deleted for the PersistentVolume it was created for, which the
\* caller named (volume.rs:7-8).
OnlyNamedVolume ==
    [][\A h \in Handlers : Deletes(h) => disk.pv = req[h].pv]_vars

\* s is a copy of disk d: it is complete, of that very disk and not an earlier one of
\* the name, unless neither an ID nor a detach tells them apart, and where the cloud
\* reports when the disk was detached, it misses no data.
Copies(s, d) ==
    /\ s.state = "completed"
    /\ d.unique \/ d.detached # Never => s.source = d.id /\ (cloud # "aws" => s.current)

\* A disk deleted by an invocation that needs a snapshot has a copy: a completed
\* snapshot, of that very disk if it was ever used or has a unique ID, which misses
\* nothing written to it as far as the cloud lets the function know (volume.rs:16-18).
NothingLost ==
    [][\A h \in Handlers : Deletes(h) /\ req[h].snapshot =>
        \E s \in snapshots : Copies(s, disk)]_vars
===============================================================================
