--------------------------- MODULE VolumeDeleteProofs --------------------------
(***************************************************************************)
(* Proofs about the volume-delete functions, for any number of             *)
(* invocations, disks and snapshots, any ages and any skew of the clocks.  *)
(***************************************************************************)
EXTENDS VolumeDelete, TLAPS

\* What is kept about invocation h agrees with its step, and what it read of the
\* disk was true of it.
SeenOK(h) ==
    /\ pc[h] \in Steps => req[h] \in Request
    /\ seen[h] # NoDisk => seen[h].id <= created
    /\ seen[h] # NoDisk /\ disk # NoDisk /\ seen[h].id = disk.id =>
            seen[h].pv = disk.pv /\ seen[h].unique = disk.unique
    /\ seen[h] # NoDisk /\ cloud = "aws" => seen[h].unique

\* Where nobody touches the disk, one that was read detached is as it was read.
StillSeen(h) ==
    cloud \in Quiet /\ pc[h] \in {"snapshots", "delete"} /\ disk # NoDisk =>
        disk.id = seen[h].id /\ (~seen[h].attached => disk = seen[h])

\* A snapshot to delete the disk after.
Saved(h) == \E s \in snapshots : Copies(s, seen[h])

Decided(h) ==
    pc[h] = "delete" =>
        ~seen[h].attached /\ seen[h].pv = req[h].pv /\ (req[h].snapshot /\ disk # NoDisk => Saved(h))

\* A snapshot of the disk that misses data is older than the last detach, and so is
\* one of an earlier disk of the name.
Older(s) == disk.detached # Never /\ s.started <= disk.detached

SnapshotOK(s) ==
    /\ s.started <= clock /\ s.source <= created
    /\ disk # NoDisk /\ s.source = disk.id /\ ~s.current => disk.attached \/ Older(s)
    /\ disk # NoDisk /\ s.source # disk.id => disk.detached = Never \/ Older(s)

SnapshotsOK == \A s \in snapshots : SnapshotOK(s)

IInv ==
    /\ TypeOK
    /\ clock # 0
    /\ cloud = "aws" => created = 1 /\ (disk # NoDisk => disk.unique)
    /\ SnapshotsOK
    /\ \A h \in Handlers : SeenOK(h) /\ StillSeen(h) /\ Decided(h)

-------------------------------------------------------------------------------
LEMMA NoDiskIsNone == NoDisk \notin Disk
<1>1. ASSUME NEW d \in Disk PROVE d.id # 0
  BY DEF Disk
<1>2. NoDisk.id = 0
  BY DEF NoDisk
<1>3. QED
  BY <1>1, <1>2

LEMMA NewDisk ==
    ASSUME NEW id \in Nat \ {0}, NEW d \in NewDisks(id)
    PROVE  /\ d \in Disk /\ d.id = id /\ ~d.attached /\ d.detached = Never
           /\ cloud = "aws" => d.unique
<1>1. /\ d \in [id : {id}, unique : BOOLEAN, pv : PVs \cup {NoPV}, attached : {FALSE},
               detached : {Never}]
      /\ cloud = "aws" => d.unique
  BY DEF NewDisks
<1>2. d \in Disk
  <2>1. PICK u \in BOOLEAN, pv \in PVs \cup {NoPV} :
            d = [id |-> id, unique |-> u, pv |-> pv, attached |-> FALSE, detached |-> Never]
    BY <1>1
  <2>2. Never \in Nat
    BY DEF Never
  <2>3. QED
    BY <2>1, <2>2 DEF Disk
<1>3. QED
  BY <1>1, <1>2

LEMMA InitInv == Init => IInv
<1> SUFFICES ASSUME Init PROVE IInv
  OBVIOUS
<1>1. disk \in NewDisks(1) /\ created = 1
  BY DEF Init
<1>2. disk \in Disk /\ disk.id = created /\ (cloud = "aws" => disk.unique)
  BY <1>1, NewDisk
<1>3. TypeOK
  BY <1>2, NoDiskIsNone DEF Init, TypeOK, Ended
<1>4. SnapshotsOK
  BY DEF Init, SnapshotsOK, SnapshotOK, Older
<1>5. ASSUME NEW h \in Handlers PROVE SeenOK(h) /\ StillSeen(h) /\ Decided(h)
  <2>1. pc[h] = "idle" /\ seen[h] = NoDisk
    BY DEF Init
  <2>2. QED
    BY <2>1 DEF SeenOK, StillSeen, Decided, Steps
<1>6. QED
  BY <1>1, <1>2, <1>3, <1>4, <1>5 DEF Init, IInv

-------------------------------------------------------------------------------
\* What a step of invocation h that changes no resource establishes.
Moved(h) ==
    /\ TypeOK'
    /\ SeenOK(h)' /\ StillSeen(h)' /\ Decided(h)'
    /\ \A g \in Handlers \ {h} : pc'[g] = pc[g] /\ req'[g] = req[g] /\ seen'[g] = seen[g]

LEMMA OwnStep ==
    ASSUME IInv, NEW h \in Handlers, Moved(h), UNCHANGED resources
    PROVE  IInv'
<1>1. SnapshotsOK'
  BY DEF IInv, SnapshotsOK, SnapshotOK, Older, resources
<1>2. ASSUME NEW g \in Handlers \ {h} PROVE SeenOK(g)' /\ StillSeen(g)' /\ Decided(g)'
  BY DEF IInv, Moved, SeenOK, StillSeen, Decided, Saved, Copies, resources
<1>3. QED
  BY <1>1, <1>2 DEF IInv, Moved, resources

\* An invocation that ended knows nothing.
LEMMA Forgotten ==
    ASSUME NEW h \in Handlers, pc[h] \in Ended, seen[h] = NoDisk
    PROVE  SeenOK(h) /\ StillSeen(h) /\ Decided(h)
BY DEF SeenOK, StillSeen, Decided, Steps, Ended

LEMMA EndTypes ==
    ASSUME IInv, NEW h \in Handlers, NEW outcome \in Ended, End(h, outcome)
    PROVE  /\ pc' \in [Handlers -> Ended \cup Steps]
           /\ req' \in [Handlers -> Request \cup {[action |-> "none"]}]
           /\ seen' \in [Handlers -> Disk \cup {NoDisk}]
           /\ pc'[h] = outcome /\ seen'[h] = NoDisk
           /\ \A g \in Handlers \ {h} : pc'[g] = pc[g] /\ req'[g] = req[g] /\ seen'[g] = seen[g]
           /\ \A g \in Handlers : pc'[g] \in {"snapshots", "create", "delete"} => seen'[g] # NoDisk
           /\ SeenOK(h)' /\ StillSeen(h)' /\ Decided(h)'
<1>1. /\ pc' \in [Handlers -> Ended \cup Steps]
      /\ req' \in [Handlers -> Request \cup {[action |-> "none"]}]
      /\ seen' \in [Handlers -> Disk \cup {NoDisk}]
      /\ pc'[h] = outcome /\ seen'[h] = NoDisk
      /\ \A g \in Handlers \ {h} : pc'[g] = pc[g] /\ req'[g] = req[g] /\ seen'[g] = seen[g]
  BY DEF IInv, TypeOK, End
<1>2. \A g \in Handlers : pc'[g] \in {"snapshots", "create", "delete"} => seen'[g] # NoDisk
  BY <1>1 DEF IInv, TypeOK, Ended
<1>3. SeenOK(h)' /\ StillSeen(h)' /\ Decided(h)'
  BY <1>1 DEF SeenOK, StillSeen, Decided, Steps, Ended
<1>4. QED
  BY <1>1, <1>2, <1>3

LEMMA EndInv ==
    ASSUME IInv, NEW h \in Handlers, NEW outcome \in Ended, End(h, outcome), UNCHANGED resources
    PROVE  IInv'
<1>1. Moved(h)
  BY EndTypes DEF IInv, TypeOK, Moved, resources
<1>2. QED
  BY <1>1, OwnStep

LEMMA RequestFields ==
    ASSUME NEW r \in Request
    PROVE  r.action \in {"plan", "execute"} /\ r.pv \in PVs /\ r.snapshot \in BOOLEAN
BY DEF Request

\* A decision about the disk as it was read.
LEMMA DecideInv ==
    ASSUME IInv, NEW h \in Handlers, UNCHANGED resources, pc[h] \in Steps,
           NEW d \in Disk, NEW ready \in BOOLEAN,
           NEW status \in {"missing", "inProgress", "completed", "failed"},
           Decide(h, d, ready, status),
           d.id <= created,
           disk # NoDisk /\ d.id = disk.id => d.pv = disk.pv /\ d.unique = disk.unique,
           cloud = "aws" => d.unique,
           cloud \in Quiet /\ disk # NoDisk => disk.id = d.id /\ (~d.attached => disk = d),
           ~d.attached /\ req[h].snapshot /\ status = "completed" /\ disk # NoDisk =>
               \E s \in snapshots : Copies(s, d)
    PROVE  IInv'
<1> DEFINE step == IF req[h].action = "plan"
                   THEN PlanStep(Safe(d, req[h].pv, ready), req[h].snapshot, status)
                   ELSE ExecuteStep(Safe(d, req[h].pv, ready), req[h].snapshot, status)
<1>1. step \in {"planned", "refused", "delete", "create"}
  BY DEF PlanStep, ExecuteStep
<1>2. CASE step \in Ended
  <2>1. End(h, step)
    BY <1>2 DEF Decide
  <2>2. QED
    BY <1>2, <2>1, EndInv
<1>3. CASE step \notin Ended
  <2>1. /\ pc' = [pc EXCEPT ![h] = step]
        /\ seen' = [seen EXCEPT ![h] = d]
        /\ req' = req
    BY <1>3 DEF Decide
  <2>2. step \in {"delete", "create"}
    BY <1>1, <1>3 DEF Ended
  <2>3. pc'[h] = step /\ seen'[h] = d /\ req'[h] = req[h]
    BY <2>1 DEF IInv, TypeOK
  <2>4. TypeOK'
    <3>1. pc' \in [Handlers -> Ended \cup Steps] /\ seen' \in [Handlers -> Disk \cup {NoDisk}]
      BY <2>1, <2>2 DEF IInv, TypeOK, Steps
    <3>2. \A g \in Handlers : pc'[g] \in {"snapshots", "create", "delete"} => seen'[g] # NoDisk
      BY <2>1, NoDiskIsNone DEF IInv, TypeOK
    <3>3. QED
      BY <2>1, <3>1, <3>2 DEF IInv, TypeOK, resources
  <2>5. SeenOK(h)' /\ StillSeen(h)'
    BY <2>2, <2>3 DEF IInv, SeenOK, StillSeen, resources
  <2>6. Decided(h)'
    <3>1. CASE step = "delete"
      <4>1. /\ Safe(d, req[h].pv, ready)
            /\ req[h].snapshot => status = "completed"
        BY <3>1, <1>1 DEF ExecuteStep, PlanStep
      <4>2. ~d.attached /\ d.pv = req[h].pv
        BY <4>1 DEF Safe
      <4>3. QED
        BY <2>3, <4>1, <4>2 DEF Decided, Saved, Copies, resources
    <3>2. CASE step = "create"
      BY <2>3, <3>2 DEF Decided
    <3>3. QED
      BY <2>2, <3>1, <3>2
  <2>7. \A g \in Handlers \ {h} : pc'[g] = pc[g] /\ req'[g] = req[g] /\ seen'[g] = seen[g]
    BY <2>1 DEF IInv, TypeOK
  <2>8. QED
    BY <2>4, <2>5, <2>6, <2>7, OwnStep DEF Moved
<1>4. QED
  BY <1>2, <1>3

-------------------------------------------------------------------------------
LEMMA StartStep == ASSUME IInv, NEW h \in Handlers, Start(h) PROVE IInv'
<1>1. PICK r \in Request : req' = [req EXCEPT ![h] = r]
  BY DEF Start
<1>2. pc' = [pc EXCEPT ![h] = "disk"] /\ UNCHANGED <<resources, seen>>
  BY DEF Start
<1>3. pc'[h] = "disk" /\ req'[h] = r /\ seen'[h] = seen[h]
  BY <1>1, <1>2 DEF IInv, TypeOK
<1>4. TypeOK'
  BY <1>1, <1>2 DEF IInv, TypeOK, Steps, resources
<1>5. SeenOK(h)' /\ StillSeen(h)' /\ Decided(h)'
  BY <1>2, <1>3 DEF IInv, SeenOK, StillSeen, Decided, resources
<1>6. QED
  BY <1>1, <1>2, <1>4, <1>5, OwnStep DEF Moved, IInv, TypeOK

LEMMA ReadDiskStep == ASSUME IInv, NEW h \in Handlers, ReadDisk(h) PROVE IInv'
<1>1. UNCHANGED resources /\ pc[h] = "disk" /\ pc[h] \in Steps
  BY DEF ReadDisk, Steps
<1>2. CASE End(h, "refused")
  BY <1>1, <1>2, EndInv DEF Ended
<1>3. CASE /\ disk # NoDisk
           /\ pc' = [pc EXCEPT ![h] = "snapshots"]
           /\ seen' = [seen EXCEPT ![h] = disk]
           /\ UNCHANGED req
  <2>1. pc'[h] = "snapshots" /\ seen'[h] = disk /\ req'[h] = req[h]
    BY <1>3 DEF IInv, TypeOK
  <2>2. TypeOK'
    BY <1>1, <1>3 DEF IInv, TypeOK, Steps, resources
  <2>3. disk.id \in Nat /\ disk.id <= created
    BY <1>3 DEF IInv, TypeOK, Disk
  <2>4. SeenOK(h)' /\ StillSeen(h)' /\ Decided(h)'
    BY <1>1, <2>1, <2>3 DEF IInv, SeenOK, StillSeen, Decided, resources
  <2>5. QED
    BY <1>1, <1>3, <2>2, <2>4, OwnStep DEF Moved, IInv, TypeOK
<1>4. ASSUME disk # NoDisk, ~req[h].snapshot,
             NEW ready \in BOOLEAN, Decide(h, disk, ready, "missing")
      PROVE  IInv'
  <2>1. disk \in Disk /\ disk.id <= created /\ (cloud = "aws" => disk.unique)
    BY <1>4 DEF IInv, TypeOK, Disk
  <2>2. QED
    BY <1>1, <1>4, <2>1, DecideInv
<1>5. QED
  BY <1>1, <1>2, <1>3, <1>4 DEF ReadDisk

\* The snapshot found is of the disk that was read, and misses nothing if the
\* disk is still as it was.
LEMMA ReadSnapshotsStep == ASSUME IInv, NEW h \in Handlers, ReadSnapshots(h),
                                  Clouds \ {"aws"} \subseteq Quiet
                           PROVE  IInv'
<1> DEFINE d == seen[h]
<1>1. UNCHANGED resources /\ pc[h] = "snapshots" /\ pc[h] \in Steps
  BY DEF ReadSnapshots, Steps
<1>2. PICK now \in 0 .. clock + Skew, status \in {"missing", "inProgress", "completed", "failed"} :
        /\ Status(d, now, status)
        /\ \E ready \in BOOLEAN : Decide(h, d, ready, status)
  BY DEF ReadSnapshots
<1>3. PICK ready \in BOOLEAN : Decide(h, d, ready, status)
  BY <1>2
<1>4. d # NoDisk /\ d \in Disk /\ d.id <= created
  BY <1>1 DEF IInv, TypeOK, SeenOK
<1>5. /\ disk # NoDisk /\ d.id = disk.id => d.pv = disk.pv /\ d.unique = disk.unique
      /\ cloud = "aws" => d.unique
  BY <1>4 DEF IInv, SeenOK
<1>6. cloud \in Quiet /\ disk # NoDisk => disk.id = d.id /\ (~d.attached => disk = d)
  BY <1>1 DEF IInv, StillSeen
<1>7. ASSUME ~d.attached, status = "completed", disk # NoDisk
      PROVE  \E s \in snapshots : Copies(s, d)
  <2>1. PICK s \in Counting(d, now) : s.state = "completed"
    BY <1>2, <1>7 DEF Status
  <2>2. /\ s \in snapshots /\ (d.unique => s.source = d.id)
        /\ DetachedAt(d) # Never => s.started > DetachedAt(d)
    BY <2>1 DEF Counting, SnapshotCounts, TakenOf
  <2>3. CASE cloud = "aws"
    BY <1>5, <2>1, <2>2, <2>3 DEF Copies
  <2>4. CASE cloud # "aws"
    <3>1. cloud \in Quiet
      BY <2>4 DEF IInv, TypeOK
    <3>2. disk = d
      BY <1>6, <1>7, <3>1
    <3>3. d.detached # Never => s.started > d.detached
      BY <2>2, <2>4 DEF DetachedAt
    <3>4. s.started \in Nat /\ d.detached \in Nat /\ s.current \in BOOLEAN
      BY <1>4, <2>2 DEF IInv, TypeOK, Snapshot, Disk
    <3>5. ~Older(s) /\ SnapshotOK(s)
      BY <2>2, <3>2, <3>3, <3>4 DEF IInv, SnapshotsOK, Older
    <3>6. d.unique \/ d.detached # Never => s.source = d.id
      BY <1>7, <2>2, <3>2, <3>5 DEF SnapshotOK
    <3>7. s.source = d.id => s.current
      BY <1>7, <3>2, <3>5 DEF SnapshotOK
    <3>8. QED
        BY <2>1, <2>2, <3>6, <3>7 DEF Copies
  <2>5. QED
    BY <2>2, <2>3, <2>4
<1>8. QED
  BY <1>1, <1>3, <1>4, <1>5, <1>6, <1>7, DecideInv

-------------------------------------------------------------------------------
\* A step that changes the snapshots, and invocation h at most, which ends.
LEMMA SnapshotStep ==
    ASSUME IInv, UNCHANGED <<cloud, clock, disk, created>>,
           UNCHANGED invocations \/ \E h \in Handlers, outcome \in Ended : End(h, outcome),
           snapshots' \in SUBSET Snapshot,
           SnapshotsOK',
           \A h \in Handlers : pc[h] = "delete" /\ disk # NoDisk /\ Saved(h) =>
               \E s \in snapshots' : Copies(s, seen[h])
    PROVE  IInv'
<1>1. CASE UNCHANGED invocations
  <2>1. TypeOK'
    BY <1>1 DEF IInv, TypeOK, invocations
  <2>2. ASSUME NEW h \in Handlers PROVE SeenOK(h)' /\ StillSeen(h)' /\ Decided(h)'
    BY <1>1 DEF IInv, SeenOK, StillSeen, Decided, Saved, Copies, invocations
  <2>3. QED
    BY <2>1, <2>2 DEF IInv
<1>2. ASSUME NEW h \in Handlers, NEW outcome \in Ended, End(h, outcome) PROVE IInv'
  <2>1. TypeOK'
    BY <1>2, EndTypes DEF IInv, TypeOK
  <2>2. ASSUME NEW g \in Handlers PROVE SeenOK(g)' /\ StillSeen(g)' /\ Decided(g)'
    <3>1. CASE g = h
      BY <1>2, <3>1, EndTypes
    <3>2. CASE g # h
      <4>1. pc'[g] = pc[g] /\ req'[g] = req[g] /\ seen'[g] = seen[g]
        BY <1>2, <3>2, EndTypes
      <4>2. QED
        BY <4>1 DEF IInv, SeenOK, StillSeen, Decided, Saved, Copies
    <3>3. QED
      BY <3>1, <3>2
  <2>3. QED
    BY <2>1, <2>2 DEF IInv
<1>3. QED
  BY <1>1, <1>2

LEMMA CreateSnapshotStep ==
    ASSUME IInv, NEW h \in Handlers, CreateSnapshot(h) PROVE IInv'
<1> DEFINE new == [source |-> disk.id, label |-> Label(seen[h]), started |-> clock,
                   current |-> TRUE, state |-> "inProgress"]
<1>1. /\ pc[h] = "create" /\ disk # NoDisk /\ snapshots' = snapshots \cup {new}
      /\ UNCHANGED <<cloud, clock, disk, created>>
  BY DEF CreateSnapshot
<1>2. \E g \in Handlers, outcome \in Ended : End(g, outcome)
  BY DEF CreateSnapshot, Ended
<1>3. seen[h] \in Disk /\ disk.id \in Nat /\ disk.id = created
  BY <1>1 DEF IInv, TypeOK, Disk
<1>4. new \in Snapshot
  BY <1>3 DEF IInv, TypeOK, Snapshot, Label, Disk
<1>5. SnapshotsOK'
  <2>1. ASSUME NEW s \in snapshots' PROVE SnapshotOK(s)
    <3>1. CASE s \in snapshots
      BY <3>1 DEF IInv, SnapshotsOK, SnapshotOK, Older
    <3>2. CASE s = new
      BY <1>3, <3>2 DEF IInv, TypeOK, SnapshotOK
    <3>3. QED
      BY <1>1, <2>1, <3>1, <3>2
  <2>2. QED
    BY <1>1, <2>1 DEF SnapshotsOK, SnapshotOK, Older
<1>6. \A g \in Handlers : pc[g] = "delete" /\ disk # NoDisk /\ Saved(g) =>
        \E s \in snapshots' : Copies(s, seen[g])
  BY <1>1 DEF Saved, Copies
<1>7. QED
  BY <1>1, <1>2, <1>4, <1>5, <1>6, SnapshotStep DEF IInv, TypeOK

LEMMA SnapshotEndsStep == ASSUME IInv, SnapshotEnds PROVE IInv'
<1>1. PICK s \in snapshots, state \in {"completed", "failed"} :
        s.state = "inProgress" /\ snapshots' = (snapshots \ {s}) \cup {[s EXCEPT !.state = state]}
  BY DEF SnapshotEnds
<1> DEFINE new == [s EXCEPT !.state = state]
<1>2. s \in Snapshot
  BY DEF IInv, TypeOK
<1>3. /\ new \in Snapshot /\ new.source = s.source /\ new.started = s.started
      /\ new.current = s.current
  BY <1>2 DEF Snapshot
<1>4. UNCHANGED <<cloud, clock, disk, created, invocations>>
  BY DEF SnapshotEnds
<1>5. SnapshotsOK'
  <2>1. ASSUME NEW t \in snapshots' PROVE SnapshotOK(t)
    <3>1. CASE t \in snapshots
      BY <3>1 DEF IInv, SnapshotsOK, SnapshotOK, Older
    <3>2. CASE t = new
      BY <1>3, <3>2 DEF IInv, SnapshotsOK, SnapshotOK, Older
    <3>3. QED
      BY <1>1, <3>1, <3>2
  <2>2. QED
    BY <1>4, <2>1 DEF SnapshotsOK, SnapshotOK, Older
<1>6. \A g \in Handlers : pc[g] = "delete" /\ disk # NoDisk /\ Saved(g) =>
        \E t \in snapshots' : Copies(t, seen[g])
  BY <1>1 DEF Saved, Copies
<1>7. snapshots' \in SUBSET Snapshot
  BY <1>1, <1>3 DEF IInv, TypeOK
<1>8. QED
  BY <1>4, <1>5, <1>6, <1>7, SnapshotStep

\* Only the snapshots of an attached disk miss what is written to it.
LEMMA WriteDataStep == ASSUME IInv, WriteData, Clouds \ {"aws"} \subseteq Quiet PROVE IInv'
<1>1. /\ disk # NoDisk /\ disk.attached
      /\ snapshots' = {[s EXCEPT !.current = @ /\ s.source # disk.id] : s \in snapshots}
      /\ UNCHANGED <<cloud, clock, disk, created, invocations>>
  BY DEF WriteData
<1>2. ASSUME NEW s \in snapshots
      PROVE  /\ [s EXCEPT !.current = @ /\ s.source # disk.id] \in Snapshot
             /\ [s EXCEPT !.current = @ /\ s.source # disk.id].source = s.source
             /\ [s EXCEPT !.current = @ /\ s.source # disk.id].started = s.started
             /\ [s EXCEPT !.current = @ /\ s.source # disk.id].state = s.state
             /\ s.source # disk.id => [s EXCEPT !.current = @ /\ s.source # disk.id].current = s.current
  <2>1. s \in Snapshot
    BY DEF IInv, TypeOK
  <2>2. (s.current /\ s.source # disk.id) \in BOOLEAN
    OBVIOUS
  <2>3. QED
    BY <2>1, <2>2 DEF Snapshot
<1>3. snapshots' \in SUBSET Snapshot
  BY <1>1, <1>2
<1>4. SnapshotsOK'
  <2>1. ASSUME NEW t \in snapshots' PROVE SnapshotOK(t)
    <3>1. PICK s \in snapshots : t = [s EXCEPT !.current = @ /\ s.source # disk.id]
      BY <1>1
    <3>2. t.source = s.source /\ t.started = s.started
      BY <1>2, <3>1
    <3>3. QED
      BY <1>1, <3>2 DEF IInv, SnapshotsOK, SnapshotOK, Older
  <2>2. QED
    BY <1>1, <2>1 DEF SnapshotsOK, SnapshotOK, Older
<1>5. ASSUME NEW g \in Handlers, pc[g] = "delete", Saved(g)
      PROVE  \E t \in snapshots' : Copies(t, seen[g])
  <2>1. PICK s \in snapshots : Copies(s, seen[g])
    BY <1>5 DEF Saved, Copies
  <2>2. cloud = "aws"
    <3>1. ~seen[g].attached
      BY <1>5 DEF IInv, Decided
    <3>2. cloud \in Quiet => disk = seen[g]
      BY <1>1, <1>5, <3>1 DEF IInv, StillSeen
    <3>3. QED
      BY <1>1, <3>1, <3>2 DEF IInv, TypeOK
  <2>3. PICK t \in snapshots' : t.state = s.state /\ t.source = s.source
    BY <1>1, <1>2
  <2>4. QED
    BY <2>1, <2>2, <2>3 DEF Copies
<1>6. QED
  BY <1>1, <1>3, <1>4, <1>5, SnapshotStep

-------------------------------------------------------------------------------
\* The disk goes, and an invocation ends, or none changes.
LEMMA DiskGone ==
    ASSUME IInv, disk' = NoDisk, UNCHANGED <<cloud, clock, created, snapshots>>,
           UNCHANGED invocations \/ \E h \in Handlers, outcome \in Ended : End(h, outcome)
    PROVE  IInv'
<1>1. SnapshotsOK'
  BY DEF IInv, SnapshotsOK, SnapshotOK, Older
<1>2. CASE UNCHANGED invocations
  <2>1. TypeOK'
    BY <1>2 DEF IInv, TypeOK, invocations
  <2>2. ASSUME NEW h \in Handlers PROVE SeenOK(h)' /\ StillSeen(h)' /\ Decided(h)'
    BY <1>2 DEF IInv, SeenOK, StillSeen, Decided, invocations
  <2>3. QED
    BY <1>1, <2>1, <2>2 DEF IInv
<1>3. ASSUME NEW h \in Handlers, NEW outcome \in Ended, End(h, outcome) PROVE IInv'
  <2>1. TypeOK'
    BY <1>3, EndTypes DEF IInv, TypeOK
  <2>2. ASSUME NEW g \in Handlers PROVE SeenOK(g)' /\ StillSeen(g)' /\ Decided(g)'
    <3>1. CASE g = h
      BY <1>3, <3>1, EndTypes
    <3>2. CASE g # h
      <4>1. pc'[g] = pc[g] /\ req'[g] = req[g] /\ seen'[g] = seen[g]
        BY <1>3, <3>2, EndTypes
      <4>2. QED
        BY <4>1 DEF IInv, SeenOK, StillSeen, Decided
    <3>3. QED
      BY <3>1, <3>2
  <2>3. QED
    BY <1>1, <2>1, <2>2 DEF IInv
<1>4. QED
  BY <1>2, <1>3

LEMMA DeleteSteps ==
    ASSUME IInv, NEW h \in Handlers, DeleteDisk(h) \/ DeleteMissing(h) \/ Fail(h)
    PROVE  IInv'
<1>1. CASE DeleteDisk(h)
  <2>1. PICK outcome \in Ended : End(h, outcome)
    BY <1>1 DEF DeleteDisk, Ended
  <2>2. QED
    BY <1>1, <2>1, DiskGone DEF DeleteDisk
<1>2. CASE DeleteMissing(h)
  BY <1>2, EndInv DEF DeleteMissing, Ended
<1>3. CASE Fail(h)
  BY <1>3, EndInv DEF Fail, Ended
<1>4. QED
  BY <1>1, <1>2, <1>3

\* The disk itself stays, attached or detached.
LEMMA AttachStep == ASSUME IInv, Attach PROVE IInv'
<1>1. /\ disk # NoDisk /\ ~disk.attached /\ MayTouch
      /\ disk' = [disk EXCEPT !.attached = TRUE]
      /\ UNCHANGED <<cloud, clock, created, snapshots, invocations>>
  BY DEF Attach
<1>2. disk \in Disk
  BY <1>1 DEF IInv, TypeOK
<1>3. disk' \in Disk /\ disk'.id = disk.id /\ disk'.pv = disk.pv /\ disk'.attached
  BY <1>1, <1>2 DEF Disk
<1>4. TypeOK'
  BY <1>1, <1>3 DEF IInv, TypeOK, invocations
<1>5. SnapshotsOK'
  BY <1>1, <1>3 DEF IInv, SnapshotsOK, SnapshotOK, Older
<1>6. ASSUME NEW h \in Handlers PROVE SeenOK(h)' /\ StillSeen(h)' /\ Decided(h)'
  BY <1>1, <1>3 DEF IInv, SeenOK, StillSeen, Decided, Saved, Copies, MayTouch, invocations
<1>7. QED
  BY <1>1, <1>4, <1>5, <1>6 DEF IInv

LEMMA DetachStep == ASSUME IInv, Detach PROVE IInv'
<1>1. /\ disk # NoDisk /\ disk.attached
      /\ disk' = [disk EXCEPT !.attached = FALSE, !.detached = clock]
      /\ UNCHANGED <<cloud, clock, created, snapshots, invocations>>
  BY DEF Detach
<1>2. disk \in Disk /\ clock \in Nat /\ clock # 0
  BY <1>1 DEF IInv, TypeOK
<1>3. disk' \in Disk /\ disk'.id = disk.id /\ disk'.pv = disk.pv /\ disk'.detached = clock
  BY <1>1, <1>2 DEF Disk
<1>4. TypeOK'
  BY <1>1, <1>3 DEF IInv, TypeOK, invocations
<1>5. SnapshotsOK'
  BY <1>1, <1>2, <1>3 DEF IInv, SnapshotsOK, SnapshotOK, Older, Never
<1>6. ASSUME NEW h \in Handlers PROVE SeenOK(h)' /\ StillSeen(h)' /\ Decided(h)'
  <2>1. SeenOK(h)' /\ Decided(h)'
    BY <1>1, <1>3 DEF IInv, SeenOK, Decided, Saved, Copies, invocations
  <2>2. StillSeen(h)'
    BY <1>1, <1>3 DEF IInv, StillSeen, invocations
  <2>3. QED
    BY <2>1, <2>2
<1>7. QED
  BY <1>1, <1>4, <1>5, <1>6 DEF IInv

LEMMA DestroyStep == ASSUME IInv, Destroy PROVE IInv'
BY DiskGone DEF Destroy

\* Only an invocation that is not about to delete sees another disk appear.
LEMMA RecreateStep ==
    ASSUME IInv, Recreate, Clouds \ {"aws"} \subseteq Quiet PROVE IInv'
<1>1. disk' \in NewDisks(created + 1)
  BY DEF Recreate
<1>2. /\ cloud # "aws" /\ created' = created + 1 /\ MayTouch
      /\ UNCHANGED <<cloud, clock, snapshots, invocations>>
  BY DEF Recreate
<1>3. /\ created \in Nat
      /\ disk' \in Disk /\ disk'.id = created' /\ disk'.detached = Never
  BY <1>1, <1>2, NewDisk DEF IInv, TypeOK
<1>4. TypeOK'
  BY <1>2, <1>3 DEF IInv, TypeOK, invocations
<1>5. SnapshotsOK'
  <2>1. ASSUME NEW s \in snapshots
        PROVE  s.started <= clock /\ s.source <= created + 1 /\ s.source # created + 1
    BY <1>3 DEF IInv, SnapshotsOK, SnapshotOK, Older, TypeOK, Snapshot
  <2>2. QED
    BY <1>2, <1>3, <2>1 DEF SnapshotsOK, SnapshotOK, Older
<1>6. ASSUME NEW h \in Handlers PROVE SeenOK(h)' /\ StillSeen(h)' /\ Decided(h)'
  <2>1. pc[h] \notin {"snapshots", "delete"}
    BY <1>2 DEF MayTouch, IInv, TypeOK
  <2>2. seen[h] # NoDisk => seen[h].id \in Nat /\ seen[h].id <= created
    BY DEF IInv, TypeOK, SeenOK, Disk
  <2>3. SeenOK(h)'
    BY <1>2, <1>3, <2>2 DEF IInv, SeenOK, invocations
  <2>4. QED
    BY <1>2, <2>1, <2>3 DEF StillSeen, Decided, invocations
<1>7. QED
  BY <1>2, <1>4, <1>5, <1>6 DEF IInv

LEMMA TickStep == ASSUME IInv, Tick PROVE IInv'
<1>1. clock \in Nat /\ clock' = clock + 1 /\ UNCHANGED <<cloud, disk, created, snapshots, invocations>>
  BY DEF IInv, TypeOK, Tick
<1>2. TypeOK'
  BY <1>1 DEF IInv, TypeOK, invocations
<1>3. SnapshotsOK'
  <2>1. ASSUME NEW s \in snapshots PROVE s.started <= clock + 1
    BY <1>1 DEF IInv, SnapshotsOK, SnapshotOK, Older, TypeOK, Snapshot
  <2>2. QED
    BY <1>1, <2>1 DEF IInv, SnapshotsOK, SnapshotOK, Older
<1>4. ASSUME NEW h \in Handlers PROVE SeenOK(h)' /\ StillSeen(h)' /\ Decided(h)'
  BY <1>1 DEF IInv, SeenOK, StillSeen, Decided, Saved, Copies, invocations
<1>5. QED
  BY <1>1, <1>2, <1>3, <1>4 DEF IInv

-------------------------------------------------------------------------------
LEMMA StutterStep == ASSUME IInv, UNCHANGED vars PROVE IInv'
BY DEF IInv, TypeOK, SnapshotsOK, SnapshotOK, Older, SeenOK, StillSeen, Decided, Saved, Copies, vars

LEMMA StepKeeps == ASSUME Clouds \ {"aws"} \subseteq Quiet PROVE IInv /\ [Next]_vars => IInv'
<1> SUFFICES ASSUME IInv, [Next]_vars PROVE IInv'
  OBVIOUS
<1>1. ASSUME NEW h \in Handlers, Step(h) PROVE IInv'
  BY <1>1, StartStep, ReadDiskStep, ReadSnapshotsStep, CreateSnapshotStep, DeleteSteps DEF Step
<1>2. CASE Others
  BY <1>2, AttachStep, WriteDataStep, DetachStep, DestroyStep, RecreateStep, SnapshotEndsStep,
     TickStep DEF Others
<1>3. CASE UNCHANGED vars
  BY <1>3, StutterStep
<1>4. QED
  BY <1>1, <1>2, <1>3 DEF Next

LEMMA Invariant == ASSUME Clouds \ {"aws"} \subseteq Quiet PROVE Spec => []IInv
BY InitInv, StepKeeps, PTL DEF Spec

\* The disk an invocation deletes is the one it read, and was checked.
LEMMA DeletedWasSeen ==
    ASSUME IInv, NEW h \in Handlers, Deletes(h), Clouds \ {"aws"} \subseteq Quiet
    PROVE  seen[h].id = disk.id /\ seen[h] # NoDisk /\ seen[h].pv = req[h].pv
           /\ (req[h].snapshot => Saved(h))
           /\ (cloud = "aws" => seen[h].unique /\ disk.unique)
           /\ (cloud # "aws" => disk = seen[h])
<1>1. pc[h] = "delete" /\ disk # NoDisk /\ seen[h] # NoDisk
  BY DEF IInv, TypeOK, Deletes
<1>2. seen[h].id = disk.id
  <2>1. CASE cloud = "aws"
    <3>1. disk.id = 1 /\ seen[h].id \in Nat \ {0} /\ seen[h].id <= 1
      BY <1>1, <2>1 DEF IInv, TypeOK, SeenOK, Disk
    <3>2. QED
      BY <3>1
  <2>2. CASE cloud # "aws"
    BY <1>1, <2>2 DEF IInv, TypeOK, StillSeen
  <2>3. QED
    BY <2>1, <2>2
<1>3. ~seen[h].attached /\ seen[h].pv = req[h].pv /\ (req[h].snapshot => Saved(h))
  BY <1>1 DEF IInv, Decided
<1>4. cloud = "aws" => seen[h].unique /\ disk.unique
  BY <1>1 DEF IInv, SeenOK
<1>5. cloud # "aws" => disk = seen[h]
  BY <1>1, <1>3 DEF IInv, TypeOK, StillSeen
<1>6. QED
  BY <1>1, <1>2, <1>3, <1>4, <1>5

\* A disk is only deleted for the PersistentVolume it was created for, however
\* invocations overlap, if on Azure and Google Cloud nobody recreates it between
\* the check and the deletion.
THEOREM NamedVolume ==
    ASSUME Clouds \ {"aws"} \subseteq Quiet PROVE Spec => OnlyNamedVolume
<1>1. IInv /\ [Next]_vars => [\A h \in Handlers : Deletes(h) => disk.pv = req[h].pv]_vars
  <2> SUFFICES ASSUME IInv, [Next]_vars, NEW h \in Handlers, Deletes(h)
               PROVE  disk.pv = req[h].pv
    OBVIOUS
  <2>1. disk # NoDisk
    BY DEF Deletes
  <2>2. QED
    BY <2>1, DeletedWasSeen DEF IInv, SeenOK
<1>2. QED
  BY <1>1, Invariant, PTL DEF Spec, OnlyNamedVolume

\* A disk deleted by an invocation that needs a snapshot has a completed one of
\* that very disk, which misses nothing written to it as far as the cloud lets
\* the function know.
THEOREM DataSaved ==
    ASSUME Clouds \ {"aws"} \subseteq Quiet PROVE Spec => NothingLost
<1>1. IInv /\ [Next]_vars =>
        [\A h \in Handlers : Deletes(h) /\ req[h].snapshot =>
            \E s \in snapshots : Copies(s, disk)]_vars
  <2> SUFFICES ASSUME IInv, [Next]_vars, NEW h \in Handlers, Deletes(h), req[h].snapshot
               PROVE  \E s \in snapshots : Copies(s, disk)
    OBVIOUS
  <2>1. PICK s \in snapshots : Copies(s, seen[h])
    BY DeletedWasSeen DEF Saved
  <2>2. Copies(s, disk)
    BY <2>1, DeletedWasSeen DEF Copies
  <2>3. QED
    BY <2>2
<1>2. QED
  BY <1>1, Invariant, PTL DEF Spec, NothingLost

\* Every variable keeps its type, and whoever is about to write has read a disk.
THEOREM TypeCorrect ==
    ASSUME Clouds \ {"aws"} \subseteq Quiet PROVE Spec => []TypeOK
<1>1. IInv => TypeOK
  BY DEF IInv
<1>2. QED
  BY <1>1, Invariant, PTL
===============================================================================
