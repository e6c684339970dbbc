----------------------------- MODULE NodePoolResize ----------------------------
(***************************************************************************)
(* The node-pool-resize functions of the three clouds: they set the number *)
(* of nodes of a pool that no autoscaler scales.  On AWS a pool is an Auto *)
(* Scaling group, asked for by its own name or, if EKS manages it, as an   *)
(* EKS node group; a size outside the group's limits widens them.  On      *)
(* Azure the pool is written back as it was read, with the new count, under *)
(* its ETag.  On Google Cloud the count is that of each zone, and zones are *)
(* read one by one.                                                        *)
(*                                                                         *)
(* Between the reads and the write others may change the pool, except, in  *)
(* the clouds in Quiet, its limits, its autoscaler and its role.           *)
(***************************************************************************)
EXTENDS Machines, Integers, FiniteSets, FiniteSetsExt

CONSTANTS
    Zones,       \* zones of a pool on Google Cloud
    Home,        \* the one that stands for the whole pool elsewhere
    Counts,      \* counts callers ask for
    Settings,    \* values of MAX_NODE_COUNT
    Unset,       \* the setting that is missing or not a number
    ProviderMax  \* AWS_MAX_COUNT, AKS_MAX_COUNT: the most any installation allows

ASSUME ZonesAssumption == IsFiniteSet(Zones) /\ Home \in Zones
ASSUME CountsAssumption == Counts \subseteq Nat /\ ProviderMax \in Nat
ASSUME SettingsAssumption == Settings \subseteq Int /\ Unset \notin Int

VARIABLES
    setting,   \* the installation's MAX_NODE_COUNT
    pool,      \* the pool asked for, which invocations act on
    own,       \* the limits others set it last (history)
    only,      \* whether it is its cluster's only one
    req        \* the request of each invocation; its todo are zones to read the size of

poolVars == <<cloud, setting, pool, own, only, changes, pc, req, seen, fresh, todo>>
poolInvocations == <<pc, req, seen, todo>>

\* auto: the cluster autoscaler scales it; system: AKS keeps a node of it; managed:
\* EKS manages it; fit: it is not stopped, of another type, or of Autopilot.
PoolZones == IF cloud = "gcp" THEN Zones ELSE {Home}
Pool ==
    [auto : BOOLEAN, system : BOOLEAN, managed : BOOLEAN, fit : BOOLEAN, idle : BOOLEAN,
     min : Nat, max : Nat, size : [PoolZones -> Nat]]

NoPool == [fit |-> FALSE]
NoRequest == [action |-> "none"]

\* A pool of AWS is asked for through EKS or by its group's name.
Request == [action : {"plan", "execute"}, count : Counts,
            via : IF cloud = "aws" THEN {"eks", "asg"} ELSE {"pool"}]

PoolSteps == {"read", "tags", "sizes", "scale"}

-------------------------------------------------------------------------------
\* cap: a setting that is not a number allows all the provider does, one below zero
\* nothing.
Cap == IF setting = Unset THEN ProviderMax ELSE Min({setting, ProviderMax})

\* MaxCountFromEnv: on Google Cloud one below zero is as good as none.
MaxCountFromEnv == IF setting # Unset /\ setting < 0 THEN ProviderMax ELSE Cap

MaxCount == IF cloud = "gcp" THEN MaxCountFromEnv ELSE Cap

\* Fault: the limits are set as they were.
AwsLimits_Unwidened(v, r) == [min |-> v.min, max |-> v.max]

\* limits: the group's own, widened to contain the count; EKS needs room for one.
AwsLimits(v, r) ==
    [min |-> Min({v.min, r.count}),
     max |-> Max({v.max, r.count, IF r.via = "eks" THEN 1 ELSE 0})]

AwsPoolGuards(v, r) ==
    /\ r.via = "eks" => v.idle
    /\ ~v.auto
    /\ r.via = "asg" => ~v.managed
    /\ r.count \in 0 .. MaxCount

\* AKS keeps a node of a system pool.
AzurePoolGuards(v, r) ==
    /\ v.idle /\ v.fit
    /\ ~v.auto
    /\ r.count \in (IF v.system THEN 1 ELSE 0) .. MaxCount

\* Fault: the nodes of one zone are counted.
GcpPoolGuards_OneZone(v, r) ==
    v.idle /\ v.fit /\ ~v.auto /\ r.count \in (IF v.system THEN 1 ELSE 0) .. MaxCount

\* Google Cloud keeps a node per zone of a cluster's only pool.
GcpPoolGuards(v, r) ==
    /\ v.fit /\ v.idle
    /\ ~v.auto
    /\ r.count >= (IF v.system THEN 1 ELSE 0)
    /\ r.count * Cardinality(Zones) <= MaxCount

PoolGuards(v, r) ==
    CASE cloud = "aws" -> AwsPoolGuards(v, r)
      [] cloud = "azure" -> AzurePoolGuards(v, r)
      [] cloud = "gcp" -> GcpPoolGuards(v, r)

\* Every zone has count nodes.
Sized(v, count) == \A z \in PoolZones : v.size[z] = count

-------------------------------------------------------------------------------
PoolInit ==
    /\ cloud \in Clouds
    /\ setting \in Settings \cup {Unset}
    /\ \E auto, system, managed, fit, alone \in BOOLEAN :
        /\ cloud # "azure" => ~system
        /\ cloud # "aws" => ~managed
        /\ cloud = "aws" => fit
        /\ cloud # "gcp" => ~alone
        /\ pool = [auto |-> auto, system |-> system, managed |-> managed, fit |-> fit,
                   idle |-> TRUE, min |-> 1, max |-> 1, size |-> [z \in PoolZones |-> 1]]
        /\ only = alone
        /\ own = [min |-> pool.min, max |-> pool.max]
    /\ changes = 0
    /\ pc = [h \in Handlers |-> "idle"]
    /\ req = [h \in Handlers |-> NoRequest]
    /\ seen = [h \in Handlers |-> NoPool]
    /\ fresh = {}
    /\ todo = [h \in Handlers |-> {}]

\* A valid request reaches the function: the count is not negative.
PoolStart(h) ==
    /\ pc[h] \in Ended
    /\ \E r \in Request : req' = [req EXCEPT ![h] = r]
    /\ pc' = [pc EXCEPT ![h] = "read"]
    /\ UNCHANGED <<cloud, setting, pool, own, only, changes, seen, fresh, todo>>

PoolEnd(h, outcome) ==
    /\ pc' = [pc EXCEPT ![h] = outcome]
    /\ req' = [req EXCEPT ![h] = NoRequest]
    /\ seen' = [seen EXCEPT ![h] = NoPool]
    /\ todo' = [todo EXCEPT ![h] = {}]

PoolGoes(h, step, v, rest) ==
    /\ pc' = [pc EXCEPT ![h] = step]
    /\ seen' = [seen EXCEPT ![h] = v]
    /\ todo' = [todo EXCEPT ![h] = rest]
    /\ UNCHANGED req

\* What follows from the pool that was read: an answer, or the write.
PoolDecide(h, v) ==
    IF ~PoolGuards(v, req[h]) THEN PoolEnd(h, "refused")
    ELSE IF req[h].action = "plan" THEN PoolEnd(h, "planned")
    ELSE IF Sized(v, req[h].count) THEN PoolEnd(h, "done")
    ELSE PoolGoes(h, "scale", v, {})

\* find_asg: the group with its tags.
ReadAsg(h) ==
    /\ pc[h] = "read" /\ req[h].via = "asg"
    /\ PoolDecide(h, pool)
    /\ UNCHANGED <<cloud, setting, pool, own, only, changes, fresh>>

\* find_nodegroup: the node group, if the pool is one (there is nothing to resize
\* otherwise); its group's tags follow.
ReadEks(h) ==
    /\ pc[h] = "read" /\ req[h].via = "eks"
    /\ IF pool.managed
       THEN PoolGoes(h, "tags", [pool EXCEPT !.auto = FALSE], {})
       ELSE PoolEnd(h, "refused")
    /\ UNCHANGED <<cloud, setting, pool, own, only, changes, fresh>>

\* asg_has_cluster_autoscaler: the tags of the node group's group.
ReadTags(h) ==
    /\ pc[h] = "tags"
    /\ PoolDecide(h, [seen[h] EXCEPT !.auto = pool.auto])
    /\ UNCHANGED <<cloud, setting, pool, own, only, changes, fresh>>

\* The pool of AKS is read with its ETag.
ReadAks(h) ==
    /\ pc[h] = "read" /\ cloud = "azure"
    /\ PoolDecide(h, pool)
    /\ fresh' = IF pc'[h] = "scale" THEN fresh \cup {h} ELSE fresh
    /\ UNCHANGED <<cloud, setting, pool, own, only, changes>>

\* The cluster is read with its pools, then the size of each zone's group.
ReadGke(h) ==
    /\ pc[h] = "read" /\ cloud = "gcp"
    /\ PoolGoes(h, "sizes", [pool EXCEPT !.system = only], Zones)
    /\ UNCHANGED <<cloud, setting, pool, own, only, changes, fresh>>

ReadSize(h) ==
    /\ pc[h] = "sizes"
    /\ \E z \in todo[h] :
        LET v == [seen[h] EXCEPT !.size[z] = pool.size[z]]
            rest == todo[h] \ {z}
        IN  IF rest = {} THEN PoolDecide(h, v) ELSE PoolGoes(h, "sizes", v, rest)
    /\ UNCHANGED <<cloud, setting, pool, own, only, changes, fresh>>

\* EKS and Auto Scaling refuse a size outside the limits that come with it.
Scaled(v, limits, count) ==
    [v EXCEPT !.min = limits.min, !.max = limits.max, !.size = [z \in PoolZones |-> count]]

Accepts(limits, r) ==
    limits.min <= r.count /\ r.count <= limits.max /\ (r.via = "eks" => limits.max >= 1)

\* scale_nodegroup: limits and size are set, and the node group is busy for a while.
ScaleEks(h) ==
    LET limits == AwsLimits(seen[h], req[h]) IN
    /\ pc[h] = "scale" /\ req[h].via = "eks"
    /\ pool.idle /\ Accepts(limits, req[h])
    /\ pool' = [Scaled(pool, limits, req[h].count) EXCEPT !.idle = FALSE]
    /\ \E outcome \in {"done", "failed"} : PoolEnd(h, outcome)
    /\ UNCHANGED <<cloud, setting, own, only, changes, fresh>>

\* scale_asg: a group takes updates at any time.
ScaleAsg(h) ==
    LET limits == AwsLimits(seen[h], req[h]) IN
    /\ pc[h] = "scale" /\ req[h].via = "asg"
    /\ Accepts(limits, req[h])
    /\ pool' = Scaled(pool, limits, req[h].count)
    /\ \E outcome \in {"done", "failed"} : PoolEnd(h, outcome)
    /\ UNCHANGED <<cloud, setting, own, only, changes, fresh>>

\* update_body: the pool as it was read, with the new count.
AzureBody(v, count) == [v EXCEPT !.size[Home] = count, !.idle = FALSE]

Put(h) ==
    /\ pc[h] = "scale" /\ cloud = "azure"
    /\ pool.idle
    /\ pool' = AzureBody(seen[h], req[h].count)
    /\ fresh' = {}
    /\ \E outcome \in {"done", "failed"} : PoolEnd(h, outcome)
    /\ UNCHANGED <<cloud, setting, own, only, changes>>

\* Fault: the PUT carries no ETag.
ScaleAks_Always(h) == Put(h)

\* AKS only replaces the pool that was read.
ScaleAks(h) == h \in fresh /\ Put(h)

\* SetNodePoolSize: nothing but the size changes.
ScaleGke(h) ==
    /\ pc[h] = "scale" /\ cloud = "gcp"
    /\ pool.idle
    /\ pool' = [pool EXCEPT !.size = [z \in Zones |-> req[h].count], !.idle = FALSE]
    /\ \E outcome \in {"done", "failed"} : PoolEnd(h, outcome)
    /\ UNCHANGED <<cloud, setting, own, only, changes, fresh>>

\* A call fails, an ETag is outdated, or the invocation dies.
PoolFail(h) ==
    /\ pc[h] \in PoolSteps
    /\ PoolEnd(h, "failed")
    /\ fresh' = fresh \ {h}
    /\ UNCHANGED <<cloud, setting, pool, own, only, changes>>

-------------------------------------------------------------------------------
\* Everybody else.

PoolChange ==
    /\ changes < MaxChanges
    /\ changes' = changes + 1
    /\ fresh' = {}
    /\ UNCHANGED <<cloud, setting, poolInvocations>>

MayChange == cloud \in Quiet => \A h \in Handlers : pc[h] \notin {"tags", "sizes", "scale"}

\* The autoscaler is enabled or disabled, or a pool of AKS gets another mode.
Reconfigure ==
    /\ MayChange
    /\ \/ pool' = [pool EXCEPT !.auto = ~@]
       \/ cloud = "azure" /\ pool' = [pool EXCEPT !.system = ~@]
    /\ UNCHANGED <<own, only>>
    /\ PoolChange

\* Its limits are moved, around the size it has.
SetLimits ==
    /\ MayChange
    /\ \E min \in 0 .. pool.size[Home] + 1, max \in 0 .. pool.size[Home] + 1 :
        /\ min <= pool.size[Home] /\ pool.size[Home] <= max
        /\ cloud = "aws" /\ pool.managed => max >= 1
        /\ pool' = [pool EXCEPT !.min = min, !.max = max]
        /\ own' = [min |-> min, max |-> max]
    /\ UNCHANGED only
    /\ PoolChange

\* Somebody, or the autoscaler, resizes the pool in a zone.
Resize ==
    /\ \E z \in PoolZones, n \in pool.min .. pool.max : pool' = [pool EXCEPT !.size[z] = n]
    /\ UNCHANGED <<own, only>>
    /\ PoolChange

\* Another pool of the cluster is created or deleted.
OtherPool ==
    /\ cloud = "gcp" /\ MayChange
    /\ only' = ~only
    /\ UNCHANGED <<pool, own>>
    /\ PoolChange

PoolSettle ==
    /\ ~pool.idle
    /\ pool' = [pool EXCEPT !.idle = TRUE]
    /\ UNCHANGED <<cloud, setting, own, only, changes, fresh, poolInvocations>>

PoolStep(h) ==
    \/ PoolStart(h)
    \/ ReadAsg(h)
    \/ ReadEks(h)
    \/ ReadTags(h)
    \/ ReadAks(h)
    \/ ReadGke(h)
    \/ ReadSize(h)
    \/ ScaleEks(h)
    \/ ScaleAsg(h)
    \/ ScaleAks(h)
    \/ ScaleGke(h)
    \/ PoolFail(h)

PoolOthers == Reconfigure \/ SetLimits \/ Resize \/ OtherPool \/ PoolSettle

PoolNext == (\E h \in Handlers : PoolStep(h)) \/ PoolOthers

PoolSpec == PoolInit /\ [][PoolNext]_poolVars

-------------------------------------------------------------------------------
\* Every variable has its type, and an update that is about to be made is one
\* that AWS accepts, whatever limits the group had.
PoolTypeOK ==
    /\ cloud \in Clouds
    /\ setting \in Settings \cup {Unset}
    /\ pool \in Pool
    /\ own \in [min : Nat, max : Nat]
    /\ only \in BOOLEAN
    /\ changes \in 0 .. MaxChanges
    /\ pc \in [Handlers -> Ended \cup PoolSteps]
    /\ req \in [Handlers -> Request \cup {NoRequest}]
    /\ seen \in [Handlers -> Pool \cup {NoPool}]
    /\ fresh \subseteq Handlers
    /\ todo \in [Handlers -> SUBSET Zones]
    /\ \A h \in Handlers : pc[h] = "scale" /\ cloud = "aws" =>
            Accepts(AwsLimits(seen[h], req[h]), req[h])

\* Invocation h writes the pool in this step.
Scales(h) == pc[h] = "scale" /\ pc'[h] # "scale" /\ pool' # pool

\* At the time a pool is resized, and not only when it was read, no autoscaler
\* scales it and it is no group of EKS asked for by name ("so EKS stays in
\* charge"); its zones get the same and together no more nodes than the installation
\* allows, and a system pool of AKS or a cluster's only pool keeps one per zone.
GuardsHold ==
    [][\A h \in Handlers : Scales(h) =>
        /\ ~pool.auto /\ (req[h].via = "asg" => ~pool.managed)
        /\ \A y, z \in PoolZones :
            /\ pool'.size[y] = pool'.size[z]
            /\ pool'.size[z] * Cardinality(PoolZones) <= MaxCount
        /\ pool.system \/ only => \A z \in PoolZones : pool'.size[z] >= 1]_poolVars

\* A resized pool keeps at least the room between the limits others set it, and
\* whatever else they changed since it was read (node-pool-resize-azure main.rs:53).
OthersKept ==
    [][\A h \in Handlers : Scales(h) =>
        /\ pool'.min <= own.min /\ own.max <= pool'.max
        /\ <<pool'.auto, pool'.system>> = <<pool.auto, pool.system>>]_poolVars
===============================================================================
