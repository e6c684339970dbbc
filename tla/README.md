# Specifications of the Plural cloud functions

The repository holds scaffolds: Terraform, Helm and Liquid templates for
clusters, catalogs and services, and, under `src/functions/`, the *functions*,
small programs that change one cloud resource on behalf of a caller (an agent or
a person using Plural). The templates have no behaviour of their own. The
functions do: they read a resource, decide with *guards* whether a change is
safe, and change it, next to other invocations, a timer, and people who use the
cloud directly. This directory specifies them in TLA+, checks the specifications
with TLC, and proves the most important properties with TLAPS.

## 1. Inventory

### 1.1 The contract of every function

A request has an *action*, `plan` (the default) or `execute`, and parameters.
`plan` changes nothing. The answer has an *outcome*: `refused` (a guard failed,
whatever the action), `planned` (a `plan` whose guards passed), or `done`
(`execute` made, or started, the change, or found nothing left to do); otherwise
the call fails with an error. Callers wait 30 seconds (five
minutes on AWS), so no function waits for a change that takes longer: it starts
it, and is called again. Nothing is stored between invocations. All state is in
the cloud; whatever an invocation knows it has read itself, one call after the
other, and may be outdated when it is used.

That is where the functions are hard: invocations interleave with each other and
with everybody else between any two calls; a call may fail, or take effect
although its answer is lost; an invocation may die anywhere, leaving a change
half done for a later one to find. `crates/azure/src/arm.rs` retries throttled
requests, which were not processed; the AWS SDK repeats calls whose answer is
lost; nothing else is retried.

### 1.2 Components

| Component | Where | State it works on | Operations | Hard part | Correct if |
|---|---|---|---|---|---|
| ssh-access, Google Cloud | `go/gcp/internal/sshaccess`, `iam`, `iap`, `compute` | two IAM policies per instance, with etags and expiring bindings | grant, renew, revoke, purge | two policies, read and written one after the other | grants only go by expiry, revocation or renewal; nobody else's binding changes; login implies tunnel |
| ssh-access, Azure | `bins/ssh-access-azure` | role assignments, expiry in the description | grant, renew, revoke, purge; a timer's sweep | no preconditions, lists go stale, assignments are named at random | the same; every expired assignment goes eventually |
| ssh-access, AWS | `bins/ssh-access-aws` | managed policies with their expiry in a tag, attached to principals | grant, renew, revoke, clean-up; a timer's sweep | creation and deletion take several calls, no preconditions | the same |
| volume-delete | `crates/core/src/volume.rs`, `bins/volume-delete-{aws,azure}`, `go/gcp/internal/{volume,volumedelete}` | a disk and its snapshots | snapshot, then delete, over several invocations | the disk is reused, rewritten or recreated meanwhile; times of two clocks | only a disk of the named volume goes, and no data with it |
| lb-delete, AWS | `bins/lb-delete-aws` | a load balancer and the target groups of its Service | delete the load balancer, then, in a later execute, the groups | listed in pages, looked at and deleted one by one, while controllers create and attach | only what is the Service's goes, nothing with traffic, and `done` leaves nothing |
| lb-frontend-delete, Azure | `bins/lb-frontend-delete-azure` | a load balancer that Services share, a public IP | remove a frontend, or the load balancer, then the IP | a shared resource is replaced as a whole by what was read; writes are sent again | nothing else on the load balancer changes, no Service loses traffic |
| lb-frontend-delete, Google Cloud | `go/gcp/internal/lbfrontenddelete` | a forwarding rule and its leftovers | delete | several deletions by name | as on AWS |
| node-pool-resize | `bins/node-pool-resize-{aws,azure}`, `go/gcp/internal/nodepoolresize` | size and limits of a pool | resize | others resize and reconfigure the pool meanwhile | the guards hold when the size is written; nothing else is taken back |
| vm-delete | `bins/vm-delete-{aws,azure}`, `go/gcp/internal/vmdelete` | a machine and its devices' flags | set the flags, delete | flags are set call by call, and show late | data disks stay, nothing else does; only a standalone machine goes |
| db-restore | `bins/db-restore-{aws,azure}`, `go/gcp/internal/dbrestore` | a server, its restore window, the server of the new name | restore into a new server | the restore outlasts the execute that submits it | no existing server changes; `done` is a restore of what was asked for |
| ARM client | `crates/azure/src/arm.rs` | none | get, list, put, patch, delete, long-running actions | retries, pagination, polling | no write is sent twice unless the first was not processed; no partial list passes for a whole one |
| envelope, guards, HTTP server, connectors | `crates/core`, `crates/http`, `crates/aws`, `go/gcp/internal/{core,gcp}` | none | parse, dispatch, answer | - | - |

The functions of a cloud do not call each other. They meet in the cloud: the
resource one of them changes is one that another, or a second invocation of the
same, has just read. The ssh-access functions also share it with their own
timer, and all of them with people and controllers.

### 1.3 Hazards

`PROJECT.json` lists each hazard at its line with the properties that would
catch it. In short: reads that are stale when they are acted on; two writes of
which one fails; a delete by name of something that was recreated, renewed or
taken over; half-done work that a later invocation finds; repeated renewals that
add up; a failure that blocks the removal of everything after it; times in whole
seconds of two clocks.

Some of these no property covers, and `PROJECT.json` lists them with no property
and the reason: where a cloud offers no precondition, what changes between the
last read and a deletion or a resize is beyond the function, and the runs assume
that nothing does (`Quiet`, section 3). That a volume-delete by name hits a
recreated disk, or one that was written meanwhile, that a machine is adopted
before it is terminated, that the tags of a node group and its sizes are read one
by one while the pool changes, and that targets register again after they were
looked at, are hazards of this code that these checks would not catch.

## 2. Modules

| Module | What it is |
|---|---|
| `TimedAccess` | Abstract specification: a table of grants that end on their own. |
| `SshAccessGcp` | The Google Cloud ssh-access function, IAM's etags, and people editing the policies. |
| `SshAccessGcpProofs` | Its safety properties and that it implements `TimedAccess`, proved. |
| `SshAccessAzure` | The Azure ssh-access function, its sweep, and people assigning roles. |
| `SshAccessAzureProofs` | Its safety properties and that it implements `TimedAccess`, proved. |
| `SshAccessAws` | The AWS ssh-access function and its sweep. |
| `SshAccessAwsProofs` | Its safety properties and that its steps are steps of `TimedAccess`, proved. |
| `VolumeDelete` | The volume-delete functions of the three clouds and everybody who uses the disk. |
| `VolumeDeleteProofs` | Its type invariant and both safety properties, proved. |
| `Machines` | What the next two share: the cloud, invocations and what they read, others' changes. |
| `VmDelete` | The vm-delete functions of the three clouds and everybody who changes the machine. |
| `NodePoolResize` | The node-pool-resize functions of the three clouds, other callers and autoscalers. |
| `MachineProofs` | The type invariants and safety properties of `VmDelete` and of `NodePoolResize`, proved. |
| `DbRestore` | The db-restore functions of the three clouds, time, and others who create servers. |
| `DbRestoreProofs` | Its type invariant and safety properties, proved. |
| `LbDelete` | The lb-delete function of AWS and the controllers. |
| `LbDeleteProofs` | Its type invariant and safety properties, proved. |
| `Arm` | How the ARM client sends requests again, and ARM's preconditions. |
| `LbFrontendDelete` | The lb-frontend-delete function of Azure on top of `Arm`, and AKS. |
| `LbFrontendDeleteProofs` | Its type invariant and safety properties, proved. |
| `MC...` | What TLC needs besides: symmetry, the order of the sweep's scopes, pairs of instances and principals, the rules of a load balancer. |

The three ssh-access modules each instantiate `TimedAccess` under a refinement
mapping (`TA`): the table is computed from the two policies, from the role
assignments, or from the policies that are attached.

Operators whose name has a second part (`Edit_SameRole`, `Precondition_Always`) are
*faults*: what a definition would be with a plausible bug. No specification uses
them; they show that a property depends on the definition it is listed with.

### 2.1 SshAccessGcp

One record per invocation: what it does next (`pc`), its request, the time it
started, whether the guards passed, the bindings it read (`seen`), and what it
still has to write (`writes`, `until`).

| Action | Code |
|---|---|
| `Invoke` | `Function.Handle`: a valid request, the clock is read |
| `ReadInstance` | `run`: the instance, `osLoginGuard`, `durationGuard` |
| `ReadLogin`, `ReadTunnel` | `policies`; the second also decides (`target`, `edit`, `refuse`) |
| `Write` | one write of `apply`; `Edit` gives the bindings, `Order` the order |
| `WriteAnswerLost` | the same, but the call returns an error |
| `Fail` | any call fails, or the invocation dies |
| `Admin`, `Tick` | somebody else's bindings; time |

An etag is modelled by what it does: `fresh[h]` holds the policies nobody wrote
since `h` read them, and a write is refused for any other. A binding of several
members counts as one per member. The one thing that distinguishes them, that
`edit` then rewrites the policy although nothing changes, is the operator
`Shared`. Zones, names, messages and the list of other access are left out.

### 2.2 SshAccessAzure

An assignment is a record of VM, principal, role, name and expiry (0 for one
that somebody else made). The invocation lists (`List`), removes one assignment
after the other (`RemoveOne`), and creates or updates the grant (`Put`); when ARM
answers that one exists (`PutTaken`) it lists again (`Relist`) and extends that.
The sweep (`SweepStart` to `SweepEnd`) lists each scope and removes what had
expired; failures are skipped; the host may stop it (`SweepDies`). Deletes go by
name and succeed if the name is gone. Names are drawn at random in the code; in
the model a new name is one that nobody knows, neither ARM nor a list that is
still going to be acted on.

`overlap`, chosen at the start from `Overlaps` and never changed, says whether
invocations and the sweep may act on the same VM at the same time. Properties
that only hold where they do not say `~overlap`; `Overlaps` lists the cases a
run considers.

### 2.3 SshAccessAws

A policy is its expiry and whether it is attached. Its name is made of the
instance and the principal, so there is one per pair, and a policy deleted and
created again is the same to everybody. (The code names the principal by a hash;
two with the same hash would share a policy, which is not modelled.)

An invocation and the sweep share clean-up (`List`, `Scan`, `Owner`) and the
removal of a policy (`ListEntities`, `Detach`, `DeletePolicy`), one action per
call; `NotRemoved` says who goes on after a failure. An invocation then finds its
policy (`Find`) and removes it, or reads its tag, creates or tags it, and attaches
it (`ReadTag`, `CreatePolicy`, `FindAgain`, `TagExpires`, `AttachPolicy`). `todo` is
what clean-up has left, so a removal with an empty `todo` is a revoke's own.

`alone[w]` is a history variable, no state of the code: nobody with whom `w`
could touch the same policy has run since `w` started. IAM offers no
preconditions, so what an invocation promises it can only keep if it is alone;
the properties ask it of exactly those, next to any mess that others leave.

### 2.4 VolumeDelete

One disk name. The disk under it has an identity (`id`), which the cloud knows
and the name does not show: somebody may delete it and create another. A
snapshot records its source and what the function wrote on it (`label`: the disk
ID on AWS and Google Cloud, the resource ID, hence the name, on Azure), and
whether the disk was written since. A disk on Azure may report no unique ID: then
a snapshot is matched by the resource ID, that is by the name alone, and only the
time since the last detach tells it from one of an earlier disk (`TakenOf`,
`Copies`). The variable `cloud`, chosen at the start
and never changed, says which cloud the function runs on: EC2 does not report
when a volume was detached and never reuses an ID; ARM takes a missing disk for
deleted.

`Quiet` names the clouds where nobody touches the disk between an invocation's
read of it and its decision and deletion: they offer no precondition that would
tie a deletion to what was read. AWS is not among them in the run: there the
properties hold without the assumption.

### 2.5 VmDelete

A machine is what the guards ask of it (`standalone`, `protected`, `state`), the
devices `attached` to it, and those of them that go with it (`goes`): the
root disk, data disks, network interfaces. How a group or a cluster is recognised is abstracted to
`standalone`.

| Action | Code |
|---|---|
| `ReadVM`, `ReadProtection` | `load_instance`, `load_vm`, `GetInstance`; EC2 tells the protection by a second call |
| `Decide` | `evaluate`, and what `execute` does first |
| `AwsSetDisks`, `SetEach`, `Reread` | `set_delete_on_termination` and `SetDiskAutoDelete`: one call for the disks of AWS, one per interface or per disk of Google Cloud; then the machine is read again, and only its flags and its state are looked at |
| `AzurePatch` | one PATCH with the lists as they were read, under the ETag that was read; its answer is what the deletion is conditional on |
| `DeleteVM`, `DeleteMissing`, `Fail` | the deletion; ARM takes a missing machine for deleted; any call fails |
| `Attach` to `Settle` | everybody else: attach, detach, adopt, protect, update, delete, recreate |

On AWS and Google Cloud a flag that was set is `pending` until it shows. An ETag
is modelled by `fresh`, the invocations that read the machine since anybody
changed it, as in `SshAccessGcp`.

### 2.6 NodePoolResize

`Machines` declares what this module and `VmDelete` have in common. What each
defines on its own has names of its own here, with the prefix `Pool` (`PoolInit`,
`PoolNext`, `PoolTypeOK`), so that `MachineProofs` can extend both.

A pool is what the guards ask of it, its limits, and its size in each zone
(outside Google Cloud one zone stands for the pool). `MaxCount` is the cap of the
installation as each cloud's code reads `MAX_NODE_COUNT`: a negative setting
allows nothing on AWS and Azure, and as much as the provider on Google Cloud. A
request on AWS comes through EKS
or by the group's own name (`via`). `ReadAsg`, `ReadEks` and `ReadTags`, `ReadAks`, `ReadGke` and
`ReadSize` are the reads; `AwsLimits` the widening of the limits; `ScaleEks`,
`ScaleAsg`, `ScaleAks` (a PUT of the pool as it was read, under its ETag) and
`ScaleGke` the writes. EKS and Auto Scaling check what they are sent
(`Accepts`), and EKS, AKS and GKE refuse while the pool is busy. `own` is a
history variable: the limits that others set last.

### 2.7 DbRestore

The source, the server that has the target's name, and for each invocation what
it read of both (`seen`, `found`). A target knows what it was really restored
from, and carries tags that say so only on the clouds in `TagKeepers`; `Classify`
goes by the tags and the point. `AwsWindow`, `AzureWindow` and `GcpWindows` are the
three ways the restore window is computed: AWS reports it; Azure reports its
start, and it ends at the clock's time when the target was read (`ToNow`); Google
Cloud is asked for it last, if the server keeps logs, and may leave out either
end: the start is then estimated from the retention of the logs, if that is
known. `Submit` is the restore request, which all
clouds refuse if the name is taken (ARM because of `If-None-Match`) or the point
cannot be restored (`Restorable`). Time passes between any two calls.

### 2.8 LbDelete

The load balancer asked for, and the target groups, each with the Service its
tags name, the load balancer that uses it, and whether it has live targets.
`ListPage` lists one page of the groups, in any order; `ReadHealth` asks for one
group's targets; `DeleteLb` deletes the load balancer with its listeners;
`DeleteGroup` one group. ELB refuses to delete a group in use. An ARN is never
used again, so a group that is created again is not one that an invocation knows
(`Known`).

### 2.9 LbFrontendDelete and Arm

`Arm` says which requests are sent again (`Retryable`, `SentAgain`: throttled ones
always, server errors only for a GET) and what a precondition demands (`IfMatch`,
`Holds`). `LbFrontendDelete` extends it. A load balancer has two frontends, the
deleted Service's and another; rules with the frontend, Service and probe each
uses; and an ETag that every change increments. `Step` is the change that
`evaluate` chooses, `Guards` its guards, `WithoutFrontend` the load balancer that
is written back.

| Action | Code |
|---|---|
| `GetLb`, `GetPip`, `ReadHealth` | the reads of `load`; the health of one rule's backends is a long-running request that may not answer in time |
| `Write` | ARM processes the request: the answer is a success, is lost, or is a server error |
| `Retry` | `send` tries again |
| `NotWritten` | a 412: the call fails (`conflict`), or a deletion finds nothing left to do |
| `Finish` | ARM completes a change it had accepted; only then is an IP free |
| `ChangeLb`, `ChangePip`, `ChangeHealth` | AKS, and the backends |

`applied` is a history variable: the write at hand was processed by an attempt
whose answer was an error. `recovered` is another: the rules whose backends became
healthy after this invocation was told that they have no healthy one. Reads are sent again in the code too; that costs time
and nothing else, so a read is one step. A load balancer that is gone is not
created again under its name, and resources always report an ETag, as ARM's do.

## 3. Runs

| Run | Question | Bounds |
|---|---|---|
| `GcpConcurrent` | Do overlapping invocations, lost answers, crashes and edits by people lose, revive, shorten or overextend access, or change what others made? No. | two invocations for one member, one other binding, durations within and above the limit, one tick |
| `GcpSerial` | If invocations for one member do not overlap, is the login always covered by the tunnel, and does `done` mean the access it reports? Yes. | two members, both roles, three times |
| `Azure` | If invocations, the sweep and people overlap, are grants within the limit and unique, and are people's assignments safe? Yes. | two invocations, the sweep, one principal, both roles, durations of nothing and of the limit |
| `AzureSweep` | Does an expired grant always go, although another scope can never be listed or emptied? And, where invocations and the sweep do not overlap, does the function implement `TimedAccess`, and does `done` mean what it says? Yes. | both cases of `overlap`; two VMs in two scopes, the first of which may fail forever, one invocation, both roles, two durations |
| `AzureStaleSweep` (violation) | Are only expired grants removed? Not one that was renewed after the sweep listed it. | one invocation, the sweep |
| `Aws` | From any state that failed, crashed or overlapping invocations left, is access within the limit, and does an invocation that nobody disturbs keep what it promises and take nothing away that is not due? Yes. | two invocations for one pair, the sweep, a policy of the same principal on another instance, durations of nothing, within and above the limit |
| `Volume` | Is a disk only deleted for its volume, after a completed snapshot of it that misses no data? Yes, if nobody touches the disk while it is being checked (AWS: even then, as far as AWS lets the function know). | two invocations, each cloud, two disks of the name, on Azure with a unique ID or without, two snapshots, a clock skew |
| `Vm` | Does a deletion take exactly the root disk and the interfaces, of a standalone machine only, and does a caller who repeats the execute get it deleted? Yes. | two invocations, one of a patient caller, each cloud, a data disk, an interface, one change by others |
| `NodePool` | Do the guards hold when the size is written, and is nothing taken back that others set? Yes. | two invocations, each cloud, two zones, counts 0 to 2, a cap of one node, a negative one, or none set, two changes by others |
| `Db` | Is no existing server changed, is `done` a restore of what was asked for, and does a repeated execute recognise its own restore? Yes. | two invocations, each cloud, three points, one for strangers, backups kept for one time unit or not at all, two times |
| `Lb` | Does only what is the Service's go, nothing with traffic, and does `done` leave nothing of it? Yes. | two invocations, two Services, two groups on up to two pages, two changes by others |
| `LbFrontend` | Is nothing else on the load balancer changed, does no Service lose traffic or its IP, but for backends that recovered after they were looked at, and does a conflict mean that nothing was written? Yes. | two invocations, three attempts of each request, three rules of two Services that share a frontend and a probe, one change by AKS |

Why the bounds are enough: the properties relate one resource to at most two
actors that both act on an outdated read, or one actor and a person; a third
invocation adds no new kind of staleness. Two times before and after an expiry
are what expiry, renewal and the limit need. One or two changes by others per
behaviour are enough to fall between any two calls of an invocation, which is
what the properties are about. What is proved in section 5 holds for every value
of the constants, these bounds included.

`MaxTime`, `MaxDisks`, `MaxSnapshots` and `MaxChanges` bound what grows without
end in reality; they only appear in the guards of the clocks, of `Recreate`, of
`CreateSnapshot` and of the others' actions. No run disables the deadlock check:
an invocation that ended can always be followed by another.

`Overlap`, `Overlaps` and `Quiet` are assumptions on callers and others, which
the functions cannot enforce, because the calls they make take no precondition:

  - `VolumeDelete`, Azure and Google Cloud: nobody attaches, deletes or recreates
    the disk between an invocation's reads and its deletion. The property that
    needs it on Azure and Google Cloud is one that AWS cannot promise at all.
  - `VmDelete`, AWS and Google Cloud: nobody adopts, protects, deletes or
    recreates the machine while an invocation acts on what it read, and nobody
    attaches anything between the last read and the deletion. Azure needs
    nothing: its writes are conditional.
  - `NodePoolResize`, AWS and Google Cloud: nobody changes the limits, the
    autoscaler or the pool's role meanwhile; its size others do change. Azure
    needs nothing.
  - `LbDelete`: controllers leave the Service that a caller names alone, and its
    targets do not become healthy, while an invocation for it runs. The function
    is for Services that were deleted.

Under `Quiet` a property about a deletion says that what was found by several
reads, pages and executes still holds when it takes effect, whatever is not
excluded above. For some that is little more than the guard at the read:
`OnlyNamedVolume`, `OnlyStandalone` and `GuardsHold` on AWS and Google Cloud (on
Azure the ETag must do it in the latter two), and `OnlyOfService` and
`NoTrafficCut` of `LbDelete`. They would not catch a race in what is excluded
(section 1.3).

`DbRestore` assumes nothing of the kind. Neither does `LbFrontendDelete`: whatever
others do to the load balancer and the IP is met by an ETag, and what no ETag
shows, that backends became healthy after they were looked at, does happen in the
model; `NoTrafficCut` excuses exactly those rules (`recovered`), which the code
cannot know of. In `SshAccessAws`, `alone` tells apart, within one run, who was
disturbed and who was not.

## 4. Fairness

No fairness is assumed except in two runs.

`AzureSweep`, `FairSpec`: the timer keeps starting sweeps; from some time on the
host lets a sweep finish; and ARM, asked again and again, eventually lists the
assignments of the VMs in `Working` and removes each of them. Nothing is assumed
of the others: both may fail at every sweep, which is the case the code's
comment is about. No fairness is assumed of callers or people. A timer that is
invoked every few minutes justifies the first, finitely many assignments per
scope the second.

`Vm`, `FairSpec`: a patient caller keeps executing, which is what the answer
`refused` asks callers to do; its invocations end; a call it makes again and
again is eventually answered (strong fairness of each call separately: one
answered call does not excuse another that always fails); a flag that was set
shows some day, an update ends. Nothing is assumed of the other caller or of
people; `LaterExecuteDeletes` is about a machine that from some time on is
standalone and unprotected.

## 5. Proofs

Every theorem is proved for all values of the constants that the modules'
assumptions allow: any number of invocations, members, disks, rules, groups and
so on, and any bounds of the clocks and of others' changes. What is assumed of
others (section 3) is an `ASSUME` of the theorem (`~Overlap`, or the clouds in
`Quiet`), except where the property itself is about those whom nobody disturbed
(`~overlap` in `SshAccessAzure`, `alone` in `SshAccessAws`). Each invariant below is
inductive; the properties are not, and the reason is always the same: an
invocation holds what it read some steps ago, and the invariant has to say what
that still tells about the resource.

`SshAccessGcpProofs`:

  - `TypeCorrect` (`TypeOK`) from the inductive invariant `TypeInv`, which adds
    what an invocation knows at each step: a granting invocation that is
    writing has an end to grant, its writes are in one of four orders, and so on.
  - `LimitHolds` (`AccessWithinLimit`) from `LimitInv`: besides the bindings in
    the policies, those an invocation has *read*, and the end it is about to
    write, are within the limit. Without that a stale read could carry a longer
    grant back.
  - `Refines` (`GrantsOnlyExtend`) from `RefinementInv`: `FreshInv` says that a
    policy whose etag still matches is exactly what was read, which is what etags
    are for; `CoverInv` that an end about to be written is at least as late as
    every grant of the member it replaces. So a write that IAM accepts only drops
    what expired, is revoked, or is renewed for as long.
  - `OthersKept` (`UnmanagedUntouched`), also from `FreshInv`.
  - `LoginTunnels` (`LoginNeedsTunnel`) and `DoneLeavesAccess` (`DoneMeansAccess`), both
    assuming `~Overlap`, from `SerialInv`. Etags do not protect one policy while the
    other is written, so what is needed is that nobody else changes the member's
    access: `OneEach` says that one invocation acts for a member, `LoginSeen` that
    the login access is still as it was read when the tunnel is read, `Settled`
    that a policy with no write left holds exactly the access that will be
    reported, and `Ordered` that the first of two writes never leaves a login
    without its tunnel. Without overlap an invocation for another member may
    still write both policies: it does so from fresh reads, which keep everybody
    else's bindings (`FreshInv` again).

`SshAccessAzureProofs`:

  - `TypeCorrect` (`TypeOK`) and `LimitHolds` (`AccessWithinLimit`) from `IInv`. `HandlerOK`
    adds what an invocation knows at each step: that what it found is one
    assignment, of what it asks for, that was within the limit when it was found.
    An update grants the later of that and what may be asked for, so renewals of
    overlapping invocations do not add up.
  - `PermanentKept` (`PermanentUntouched`) from `NamesInv`: deletes and updates go by
    name, from lists of any age. A name on anybody's list was one of the
    function's own, and as long as it is listed nobody gives it to another
    assignment of the same VM, principal and role.
  - `Refines` (`GrantsOnlyExtend`) and `DoneLeavesAccess` (`DoneMeansAccess`) from `SerialInv`,
    which says something only where invocations on a VM and the sweep do not
    overlap: then what is listed is the only assignment of its key in ARM
    (`Current`), a removal is due, and a revoke's list misses nothing (`Mine`); the
    sweep's list holds what had expired (`SweepMine`). Half-done work of earlier
    invocations and lost answers are part of it.
  - `RemovesExpired`: if `TRUE \notin Overlaps`, `RemovesExpiredOnly` holds, read back
    from the steps of the abstract table. The run `AzureStaleSweep` refutes that
    property in general; the theorem says that overlapping is all its
    counterexample rests on.

`SshAccessAwsProofs`: `TypeCorrect` and `LimitHolds` from `IInv`. `WorkerOK`
relates what a worker keeps to its step, and says that the expiry it is about to
write, its start and its duration are within the limit: a tag may be written many
steps, and many other workers' steps, after it was computed. One lemma per kind
of step (`EndInv`, `GoInv`, `CleanUpNextInv`, `GrantInv`...) says that a worker's
own state stays consistent, one (`OnePolicy`) that a single policy may change.
`Refines` (`GrantsOnlyExtend`) and `DoneLeavesAccess` (`DoneMeansAccess`) follow from
`ViewInv`, which is about workers that are `alone` next to any number that are
not: `Separate` says that such a worker shares no policy within reach with
anybody who runs, `Aimed` that a removal is aimed within reach, at a policy that
was listed or is a revoke's own, and `View` that what it has read is still so:
what it is about to remove has expired, what it tags ends no later than the
grant, what it attaches has the grant's expiry. A policy is created, tagged and
attached by calls of their own, so `View` has one part for each.

`VolumeDeleteProofs`, where Azure and Google Cloud are quiet: `TypeCorrect`,
`NamedVolume` (`OnlyNamedVolume`) and `DataSaved` (`NothingLost`). `SnapshotsOK`
is the argument of the code: a snapshot of the disk that misses data is older
than its last detach, unless the disk is attached. `StillSeen` says that a disk
read detached is as it was read, `Decided` that whoever is about to delete has
found a snapshot that saves it.

`MachineProofs`, about `VmDelete`: `TypeCorrect`, `ListsKept` (`FlagsOnly`), and, where
AWS and Google Cloud are quiet, `DataKept` (`DeletesExactly`) and `StandaloneOnly`.
`AzureInv` says that the machine is as it was read as long as the ETag matches;
`QuietInv` what stays true of it without one.

`MachineProofs`, about `NodePoolResize`: `PoolTyped` (`PoolTypeOK`), and, where AWS
and Google Cloud are quiet, `NothingTakenBack` (`OthersKept`) and `GuardsStillHold` (`GuardsHold`). `Widened` is the
lemma about the limits: those that are sent contain both the group's and the
count, for any limits, so AWS accepts them. `FreshOK` says that an ETag that
still matches is that of the pool as it was read; `Held` what stays true of what
was read without one: who scales and manages the pool, its role, and that its
limits leave the room that others gave it last, even if another invocation has
widened them since.

`DbRestoreProofs`: `TypeCorrect`, `Untouched` (`ExistingUntouched`),
`DoneIsRestore` (`DoneMeansRestored`) and `Recognised` (`RestoreRecognised`).
`TagsTrue` says that tags that name the source tell the truth, whoever wrote
them; `HandlerInv` that an invocation never takes a server for its restore where
no tags are kept.

`LbDeleteProofs`: `TypeCorrect`, `DeletesOwn` (`OnlyOfService`), and, if the
Service is left alone, `TrafficKept` (`NoTrafficCut`) and `NoneLeft`
(`DoneMeansGone`). `ListInv` says of every group of the Service that it was
listed or is on a page still to come; `HealthInv` that it is still to be looked
at, or was found live, or is not live; `DeleteGroupsInv` that it is among those
left to delete. A listing in pages and a health check one by one thus amount to
one consistent look.

`LbFrontendDeleteProofs`: `TypeCorrect`, `NothingLost` (`NothingOverwritten`),
`TrafficKept` (`NoTrafficCut`), `IpOwned` (`OnlyOwnIp`) and `ConflictHarmless`
(`ConflictMeansUntouched`). `Tracks` is what an ETag gives: a resource that was
read is the same, or has a later ETag, or is gone; every step makes a `Later`
resource of it. `WriteInv` is what the guards established about what was read,
`NotLive` that what was told about the backends still holds of all that have not
recovered.

Every safety and action property that a passing run checks is proved. Only
model-checked is liveness, which is beyond the proof system: `ExpiredGoes` of
`SshAccessAzure` and `LaterExecuteDeletes` of `VmDelete`, with their fairness.
`GuardsHold` says that every zone gets the same size, and what that makes of all
zones together, rather than summing the zones by a fold: what a fold computes
takes induction over data to prove.

## 6. What the models found

One run shows a disagreement: `AzureStaleSweep`. Deletes and updates of role
assignments are unconditional, so a grant that was renewed may be removed as
expired; `PROJECT.json` quotes the line it contradicts. Without overlap the
line is true (`RemovesExpired`, section 5).

Other disagreements met while modelling; no run shows them, the properties are
stated so as to be true of the code:

  - Google Cloud ssh-access: the two policies have separate etags, so a grant and
    a revoke for the same member may each win one of them. The grant writes one
    policy (`go/gcp/internal/sshaccess/operation.go:119`), the revoke both, the
    grant the other: it leaves a login without a tunnel that is reported as
    access. `LoginNeedsTunnel` is therefore checked where invocations for a
    member do not overlap (`GcpSerial`).
  - AWS ssh-access: a grant that loses the race to create the policy tags it
    without reading the expiry it has (`bins/ssh-access-aws/src/main.rs:495`), so
    it may shorten what the winner granted, which line 11 excludes.
    A policy found expired may be renewed before it is removed, as on Azure.
    `GrantsOnlyExtend` is therefore about those whom nobody disturbed.
  - volume-delete: the deletion is not tied to what was checked
    (`crates/core/src/volume.rs:7-8`, `17-18`): a disk recreated or written
    between the read and the deletion is lost. The `Volume` run excludes that by
    `Quiet` on Azure and Google Cloud; on AWS a write between the snapshot and
    the deletion cannot be told from none.
  - db-restore, Azure: "calling again with the same parameters reports the new
    server's state" (`bins/db-restore-azure/src/main.rs:4-5`). Where Azure does not
    keep the tags the server is recognised by, a repeated execute is refused
    (line 288). `RestoreRecognised` is therefore about the clouds in `TagKeepers`.
  - lb-delete, AWS: `remaining` (`bins/lb-delete-aws/src/main.rs:124`) counts
    only groups attached to the load balancer; others with the Service's tags are
    found by a later execute only.

## 7. Not modelled

  - lb-frontend-delete of Google Cloud: it deletes a forwarding rule and then
    what it leaves, by name and without preconditions. Its hazards are those of
    `LbDelete`, with names instead of tags.
  - The rest of the ARM client: pagination, waiting times, and the polling of
    long-running requests. A list comes as a whole or not at all.
  - IAM policy names on AWS contain a 32-bit hash of the principal; two
    principals with the same hash would share a policy.
  - Superfluous snapshots: two executes may each start one, and nobody removes
    the second.
  - The HTTP server, the timer trigger, connectors, parsing and formatting, the
    wording of guards, credentials: they keep no state that a function depends on.
  - Templates (Terraform, Helm, Liquid), end-to-end scripts and deployment: they
    have no behaviour of their own.
