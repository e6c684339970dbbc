------------------------------- MODULE VmDelete --------------------------------
(***************************************************************************)
(* The vm-delete functions of the three clouds: they delete a standalone   *)
(* VM with its root disk and network interfaces, and keep its data disks.  *)
(* What goes with the VM is decided by a flag on each device.  An execute  *)
(* that finds the flags unset sets them first; if the VM does not show     *)
(* them yet, it is refused, and a later execute deletes the VM.            *)
(*                                                                         *)
(* On Azure both writes carry the ETag of what was read; on AWS and Google *)
(* Cloud nothing ties them to the read.  Flags are set there by one call   *)
(* after the other, and show up some time later.  Any call may fail, a     *)
(* write may take effect although its answer is lost.                      *)
(*                                                                         *)
(* In the clouds in Quiet nobody adopts, protects, deletes or recreates    *)
(* the VM while an invocation acts on what it read, nor attaches anything  *)
(* to it between the last read and the deletion.                           *)
(***************************************************************************)
EXTENDS Machines, FiniteSets

CONSTANTS
    Root,        \* the root disk
    Data,        \* data disks
    Nics,        \* network interfaces; on Google Cloud they have no flag
    Patient      \* the callers who repeat an execute until it is done

ASSUME DevicesAssumption == Root \notin Data \cup Nics /\ Data \cap Nics = {}
ASSUME PatientAssumption == Patient \subseteq Handlers

VARIABLES
    vm,         \* the VM of the ID asked for, or NoVM
    pending,    \* devices whose flag was set but does not show yet (not on Azure)
    action      \* what the caller of each invocation asked for; its todo are devices
                \* whose flag it still has to set

vars == <<cloud, vm, pending, changes, pc, action, seen, fresh, todo>>
invocations == <<pc, action, seen, todo>>

NoVM == [attached |-> {}]

\* goes are the attached devices that are deleted with the VM.
VM == [standalone : BOOLEAN, protected : BOOLEAN, state : {"steady", "failed", "busy"},
       attached : SUBSET (Data \cup Nics \cup {Root}), goes : SUBSET (Data \cup Nics \cup {Root})]

Devices == IF cloud = "gcp" THEN Data ELSE Data \cup Nics

Steps == {"read", "protection", "set", "setEach", "reread", "delete"}

-------------------------------------------------------------------------------
\* What goes with the VM if it is deleted as the function wants it.
Wanted(v) == v.attached \ Data

\* Fault: the data volumes are not looked at.
AwsFlagsSet_RootOnly(v) ==
    Root \in v.attached /\ v.attached \cap Nics # {} /\ Wanted(v) \subseteq v.goes

\* delete_on_termination_set of an instance as EC2 describes it.
AwsFlagsSet(v) ==
    /\ Root \in v.attached
    /\ v.attached \cap Nics # {}
    /\ v.goes = Wanted(v)

\* delete_options_set: network interfaces may be missing.
AzureFlagsSet(v) == Root \in v.attached /\ v.goes = Wanted(v)

FlagsSet(v) == IF cloud = "aws" THEN AwsFlagsSet(v) ELSE AzureFlagsSet(v)

\* The guards of EC2 and Compute Engine: no group, no cluster, no protection, a
\* root disk of its own, and a state in which nothing happens.
AwsGuards(v) == v.standalone /\ ~v.protected /\ Root \in v.attached /\ v.state = "steady"

\* Those of Azure, which knows no protection; a failed VM can be deleted.
AzureGuards(v) == v.standalone /\ Root \in v.attached /\ v.state \in {"steady", "failed"}

Guards(v) == IF cloud = "azure" THEN AzureGuards(v) ELSE AwsGuards(v)

\* The VM after the PATCH that sends the lists as they were read.
AzurePatched(v, state) == [v EXCEPT !.goes = Wanted(v), !.state = state]

\* The boot disk and data disks whose auto-delete flag is not as wanted.
GcpUnset(v) == {d \in v.attached : (d \in v.goes) # (d = Root)}

-------------------------------------------------------------------------------
Init ==
    /\ cloud \in Clouds
    /\ vm \in {v \in VM :
            /\ v.goes \subseteq v.attached
            /\ v.attached \subseteq Devices \cup {Root}
            /\ cloud # "gcp" => v.attached \cap Nics # {}
            /\ v.state = "steady"
            /\ cloud = "azure" => ~v.protected}
    /\ pending = {}
    /\ changes = 0
    /\ pc = [h \in Handlers |-> "idle"]
    /\ action = [h \in Handlers |-> "none"]
    /\ seen = [h \in Handlers |-> NoVM]
    /\ fresh = {}
    /\ todo = [h \in Handlers |-> {}]

\* A valid request reaches the function.
Start(h, a) ==
    /\ pc[h] \in Ended
    /\ pc' = [pc EXCEPT ![h] = "read"]
    /\ action' = [action EXCEPT ![h] = a]
    /\ UNCHANGED <<cloud, vm, pending, changes, seen, fresh, todo>>

End(h, outcome) ==
    /\ pc' = [pc EXCEPT ![h] = outcome]
    /\ action' = [action EXCEPT ![h] = "none"]
    /\ seen' = [seen EXCEPT ![h] = NoVM]
    /\ todo' = [todo EXCEPT ![h] = {}]

Goes(h, step, v, rest) ==
    /\ pc' = [pc EXCEPT ![h] = step]
    /\ seen' = [seen EXCEPT ![h] = v]
    /\ todo' = [todo EXCEPT ![h] = rest]
    /\ UNCHANGED action

\* Fault: the flags are taken for set.
Decide_Unset(h, v) ==
    IF ~Guards(v) THEN End(h, "refused")
    ELSE IF action[h] = "plan" THEN End(h, "planned")
    ELSE Goes(h, "delete", v, {})

\* What follows from the VM that was read: an answer, or the first write.
Decide(h, v) ==
    IF ~Guards(v) THEN End(h, "refused")
    ELSE IF action[h] = "plan" THEN End(h, "planned")
    ELSE IF FlagsSet(v) THEN Goes(h, "delete", v, {})
    ELSE IF cloud = "gcp" THEN Goes(h, "setEach", v, GcpUnset(v))
    ELSE Goes(h, "set", v, {})

\* The VM is read.  EC2 tells its protection by another call.
ReadVM(h) ==
    /\ pc[h] = "read"
    /\ IF vm = NoVM THEN End(h, "refused")
       ELSE IF cloud = "aws" THEN Goes(h, "protection", [vm EXCEPT !.protected = FALSE], {})
       ELSE Decide(h, vm)
    /\ fresh' = IF cloud = "azure" /\ pc'[h] \in Steps THEN fresh \cup {h} ELSE fresh \ {h}
    /\ UNCHANGED <<cloud, vm, pending, changes>>

\* load_instance: the protection is read, and it is decided what to do.
ReadProtection(h) ==
    /\ pc[h] = "protection"
    /\ vm # NoVM
    /\ Decide(h, [seen[h] EXCEPT !.protected = vm.protected])
    /\ UNCHANGED <<cloud, vm, pending, changes, fresh>>

\* The next device, or the VM is read again.
Continue(h, rest) == Goes(h, IF rest = {} THEN "reread" ELSE "setEach", seen[h], rest)

\* One call sets the flags of the disks that were read, all of which must still
\* be there; the interfaces that need it follow.
AwsSetDisks(h) ==
    /\ pc[h] = "set" /\ cloud = "aws"
    /\ seen[h].attached \ Nics \subseteq vm.attached
    /\ pending' = pending \cup (seen[h].attached \ Nics)
    /\ Continue(h, (seen[h].attached \cap Nics) \ seen[h].goes) \/ End(h, "failed")
    /\ UNCHANGED <<cloud, vm, changes, fresh>>

\* Fault: the data disks' flags are left as they are.
SetEach_RootOnly(h) ==
    /\ pc[h] = "setEach"
    /\ \E d \in todo[h] :
        /\ d \in vm.attached
        /\ pending' = pending \cup ({d} \ Data)
        /\ Continue(h, todo[h] \ {d}) \/ End(h, "failed")
    /\ UNCHANGED <<cloud, vm, changes, fresh>>

\* The flag of one device is set: of an interface on AWS, of a disk on Google Cloud.
SetEach(h) ==
    /\ pc[h] = "setEach"
    /\ \E d \in todo[h] :
        /\ d \in vm.attached
        /\ pending' = pending \cup {d}
        /\ Continue(h, todo[h] \ {d}) \/ End(h, "failed")
    /\ UNCHANGED <<cloud, vm, changes, fresh>>

\* All flags are set by one PATCH.  Its answer is the VM as it is now, with the
\* ETag for the deletion.
Patch(h) ==
    /\ pc[h] = "set" /\ cloud = "azure"
    /\ vm # NoVM
    /\ \E state \in {"steady", "failed", "busy"} :
        /\ vm' = AzurePatched(seen[h], state)
        /\ \/ Goes(h, "delete", vm', {}) /\ state = "steady" /\ FlagsSet(vm')
           \/ End(h, "refused") /\ ~(state = "steady" /\ FlagsSet(vm'))
           \/ End(h, "failed")
    /\ fresh' = IF pc'[h] = "delete" THEN {h} ELSE {}
    /\ UNCHANGED <<cloud, pending, changes>>

\* Fault: the PATCH carries no ETag.
AzurePatch_Always(h) == Patch(h)

\* Azure only applies it to the VM that was read.
AzurePatch(h) == h \in fresh /\ Patch(h)

\* The VM is read again: only its flags and its state are looked at.
Reread(h) ==
    /\ pc[h] = "reread"
    /\ IF vm # NoVM /\ FlagsSet(vm) /\ vm.state = "steady"
       THEN Goes(h, "delete", vm, {})
       ELSE End(h, "refused")
    /\ UNCHANGED <<cloud, vm, pending, changes, fresh>>

\* The VM is deleted with the devices that are flagged.  The clouds refuse to
\* delete a protected one.
Delete(h) ==
    /\ pc[h] = "delete"
    /\ vm # NoVM /\ ~vm.protected
    /\ vm' = NoVM
    /\ pending' = {}
    /\ fresh' = {}
    /\ \E outcome \in {"done", "failed"} : End(h, outcome)
    /\ UNCHANGED <<cloud, changes>>

\* Fault: the deletion carries no ETag.
DeleteVM_Always(h) == Delete(h)

\* Azure only deletes the VM that was read.
DeleteVM(h) == (cloud = "azure" => h \in fresh) /\ Delete(h)

\* ARM takes a missing VM for deleted.
DeleteMissing(h) ==
    /\ pc[h] = "delete"
    /\ cloud = "azure" /\ vm = NoVM
    /\ End(h, "done")
    /\ fresh' = fresh \ {h}
    /\ UNCHANGED <<cloud, vm, pending, changes>>

\* A call fails, an ETag is outdated, or the invocation dies.
Fail(h) ==
    /\ pc[h] \in Steps
    /\ End(h, "failed")
    /\ fresh' = fresh \ {h}
    /\ UNCHANGED <<cloud, vm, pending, changes>>

-------------------------------------------------------------------------------
\* Everybody else.

Change ==
    /\ changes < MaxChanges
    /\ changes' = changes + 1
    /\ fresh' = {}
    /\ UNCHANGED <<cloud, invocations>>

NobodyAt(steps) == cloud \in Quiet => \A h \in Handlers : pc[h] \notin steps

\* A device is attached, whatever its flag, or a data disk detached.
Attach ==
    /\ vm # NoVM /\ NobodyAt({"protection", "delete"})
    /\ \E d \in Devices \ vm.attached, flagged \in SUBSET Devices :
        /\ flagged \subseteq {d}
        /\ vm' = [vm EXCEPT !.attached = @ \cup {d}, !.goes = @ \cup flagged]
    /\ UNCHANGED pending
    /\ Change

Detach ==
    /\ vm # NoVM
    /\ \E d \in Data \cap vm.attached :
        /\ vm' = [vm EXCEPT !.attached = @ \ {d}, !.goes = @ \ {d}]
        /\ pending' = pending \ {d}
    /\ Change

\* A group or a cluster takes the VM or lets go of it, or its protection changes.
Adopt ==
    /\ vm # NoVM /\ NobodyAt(Steps)
    /\ \/ vm' = [vm EXCEPT !.standalone = ~@]
       \/ cloud # "azure" /\ vm' = [vm EXCEPT !.protected = ~@]
    /\ UNCHANGED pending
    /\ Change

\* The VM starts, stops or is updated, which takes a while.
Update ==
    /\ vm # NoVM /\ vm.state # "busy"
    /\ vm' = [vm EXCEPT !.state = "busy"]
    /\ UNCHANGED pending
    /\ Change

\* Somebody else deletes the VM, or creates one of the same name; EC2 never
\* reuses an instance ID.
Destroy ==
    /\ vm # NoVM /\ NobodyAt(Steps)
    /\ vm' = NoVM /\ pending' = {}
    /\ Change

Recreate ==
    /\ vm = NoVM /\ cloud # "aws" /\ NobodyAt(Steps)
    /\ \E nics \in SUBSET (Devices \cap Nics), data \in SUBSET Data, alone \in BOOLEAN :
        /\ cloud = "azure" => nics # {}
        /\ vm' = [standalone |-> alone, protected |-> FALSE, state |-> "steady",
                  attached |-> nics \cup data \cup {Root}, goes |-> data]
    /\ UNCHANGED pending
    /\ Change

\* A flag that was set shows.
FlagShows(d) ==
    /\ d \in pending
    /\ pending' = pending \ {d}
    /\ vm' = [vm EXCEPT !.goes = IF d \in Data THEN @ \ {d} ELSE @ \cup {d}]
    /\ UNCHANGED <<cloud, changes, fresh, invocations>>

\* The VM is through with what it does.
Settle ==
    /\ vm # NoVM /\ vm.state = "busy"
    /\ \E state \in {"steady", "failed"} :
        /\ state = "failed" => cloud = "azure"
        /\ vm' = [vm EXCEPT !.state = state]
    /\ UNCHANGED <<cloud, pending, changes, fresh, invocations>>

Step(h) ==
    \/ \E a \in {"plan", "execute"} : Start(h, a)
    \/ ReadVM(h)
    \/ ReadProtection(h)
    \/ AwsSetDisks(h)
    \/ SetEach(h)
    \/ AzurePatch(h)
    \/ Reread(h)
    \/ DeleteVM(h)
    \/ DeleteMissing(h)
    \/ Fail(h)

Others == Attach \/ Detach \/ Adopt \/ Update \/ Destroy \/ Recreate \/ Settle
          \/ \E d \in Devices \cup {Root} : FlagShows(d)

Next == (\E h \in Handlers : Step(h)) \/ Others

Spec == Init /\ [][Next]_vars

\* What liveness rests on: the callers in Patient keep executing, their invocations
\* end, updates finish, flags show, and of the calls that they make again and again
\* each is eventually answered.
Answered(h) == action[h] = "execute" /\ pc'[h] # "failed"

Fairness ==
    /\ WF_vars(Settle)
    /\ \A d \in Data \cup Nics \cup {Root} : WF_vars(FlagShows(d))
    /\ \A h \in Patient :
        /\ WF_vars(Step(h)) /\ SF_vars(Start(h, "execute"))
        /\ SF_vars(ReadVM(h) /\ Answered(h))
        /\ SF_vars(ReadProtection(h) /\ Answered(h))
        /\ SF_vars((AwsSetDisks(h) \/ AzurePatch(h)) /\ Answered(h))
        /\ SF_vars(SetEach(h) /\ Answered(h))
        /\ SF_vars(DeleteVM(h) /\ Answered(h))

FairSpec == Spec /\ Fairness

-------------------------------------------------------------------------------
\* Every variable has its type, and an invocation that is about to delete the VM
\* has read it with its flags set.
TypeOK ==
    /\ cloud \in Clouds
    /\ vm \in VM \cup {NoVM}
    /\ vm # NoVM => vm.goes \subseteq vm.attached
    /\ pending \subseteq vm.attached
    /\ changes \in 0 .. MaxChanges
    /\ pc \in [Handlers -> Ended \cup Steps]
    /\ action \in [Handlers -> {"none", "plan", "execute"}]
    /\ seen \in [Handlers -> VM \cup {NoVM}]
    /\ fresh \subseteq Handlers
    /\ todo \in [Handlers -> SUBSET (Data \cup Nics \cup {Root})]
    /\ \A h \in Handlers : pc[h] = "delete" => seen[h] # NoVM /\ FlagsSet(seen[h])

Deletes(h) == pc[h] = "delete" /\ vm # NoVM /\ vm' = NoVM /\ pc'[h] # "delete"

\* Deleting a VM deletes none of its data disks, whatever was attached since it was
\* first read ("Data volumes are kept", vm-delete-aws main.rs:3), and leaves neither
\* the root disk nor an interface behind.
DeletesExactly ==
    [][\A h \in Handlers : Deletes(h) => vm.goes = Wanted(vm)]_vars

\* The VM that is deleted belongs to no group or cluster, and is not protected,
\* at the time it is deleted (main.rs:4-6).
OnlyStandalone ==
    [][\A h \in Handlers : Deletes(h) => vm.standalone /\ ~vm.protected]_vars

\* Setting the flags attaches and detaches nothing, although on Azure the lists
\* are sent as they were read (vm-delete-azure main.rs:171).
FlagsOnly ==
    [][\A h \in Handlers : pc[h] \in {"set", "setEach"} /\ pc'[h] # pc[h] /\ vm # NoVM =>
        vm'.attached = vm.attached]_vars

\* A VM that may be deleted is gone after enough executes, although the first
\* ones are refused or fail half way ("a later execute deletes it").
LaterExecuteDeletes ==
    (<>[](vm # NoVM => vm.standalone /\ ~vm.protected /\ Root \in vm.attached)) => []<>(vm = NoVM)
===============================================================================
