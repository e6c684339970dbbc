------------------------------ MODULE MachineProofs ----------------------------
(***************************************************************************)
(* Proofs about the functions that act on machines others act on too.      *)
(* First the vm-delete functions, for any devices and any number of        *)
(* invocations.  Then the node-pool-resize functions, for any zones,       *)
(* counts, settings and number of invocations.                             *)
(*                                                                         *)
(* Both write what they read some calls ago.  On Azure the proofs rest on  *)
(* the ETag: an invocation in fresh acts on what is there.  On the other   *)
(* clouds they rest on Quiet, what the functions take for granted about    *)
(* the others.  The two share the variables of Machines but no behaviour:  *)
(* every theorem is about one of them.                                     *)
(***************************************************************************)
EXTENDS VmDelete, NodePoolResize, FiniteSetTheorems, TLAPS

\* What goes with VM v is what the function wants.
Exact(v) == v.goes = Wanted(v)

\* The VM is still as v was, but for its state.
SameVM(v) ==
    /\ vm # NoVM
    /\ vm.attached = v.attached /\ vm.goes = v.goes
    /\ vm.standalone = v.standalone /\ vm.protected = v.protected

AzureInv(h) ==
    /\ pc[h] \notin {"protection", "setEach", "reread"}
    /\ pc[h] \in {"set", "delete"} => seen[h].standalone
    /\ h \in fresh /\ pc[h] \in {"set", "delete"} => SameVM(seen[h])

QuietInv(h) ==
    vm # NoVM =>
        /\ pc[h] = "protection" =>
            /\ seen[h].standalone = vm.standalone
            /\ Exact(seen[h]) => Exact(vm)
        /\ pc[h] \in {"set", "setEach", "reread", "delete"} => vm.standalone
        /\ pc[h] = "delete" => Exact(vm)

HandlerInv(h) ==
    /\ pc[h] \in Steps \ {"read"} => seen[h] \in VM
    /\ cloud = "azure" => AzureInv(h)
    /\ cloud \in Quiet \ {"azure"} => QuietInv(h)

IInv ==
    /\ TypeOK
    /\ cloud = "azure" => pending = {} /\ (vm # NoVM => ~vm.protected)
    /\ \A h \in Handlers : HandlerInv(h)

-------------------------------------------------------------------------------
LEMMA SomeVM == ASSUME NEW v \in VM PROVE v # NoVM
BY DEF VM, NoVM

\* FlagsSet, on whichever cloud, means that what goes is what is wanted.
LEMMA SetIsExact == ASSUME NEW v, FlagsSet(v) PROVE Exact(v)
BY DEF FlagsSet, AwsFlagsSet, AzureFlagsSet, Exact

\* What others may do to the VM while g is at work: it keeps its ETag only if it
\* stays as it is, and where all is quiet they neither adopt nor replace it, nor
\* undo the flags.
Tolerable(g) ==
    /\ cloud = "azure" /\ g \in fresh' =>
        g \in fresh /\ (vm # NoVM => vm' # NoVM /\ vm'.attached = vm.attached /\ vm'.goes = vm.goes
                                     /\ vm'.standalone = vm.standalone /\ vm'.protected = vm.protected)
    /\ cloud \in Quiet \ {"azure"} /\ vm' # NoVM =>
        /\ pc[g] \in Steps => vm # NoVM /\ vm'.standalone = vm.standalone
        /\ pc[g] \in {"protection", "delete"} /\ Exact(vm) => Exact(vm')

LEMMA Bystander ==
    ASSUME IInv, NEW g \in Handlers,
           pc'[g] = pc[g], seen'[g] = seen[g], cloud' = cloud, Tolerable(g)
    PROVE  HandlerInv(g)'
<1>1. HandlerInv(g)
  BY DEF IInv
<1>2. ASSUME cloud = "azure" PROVE AzureInv(g)'
  BY <1>1, <1>2 DEF HandlerInv, AzureInv, SameVM, Tolerable
<1>3. ASSUME cloud \in Quiet \ {"azure"} PROVE QuietInv(g)'
  <2>1. CASE pc[g] \in {"protection", "set", "setEach", "reread", "delete"}
    <3>1. pc[g] \in Steps
      BY <2>1 DEF Steps
    <3>2. QED
      BY <1>1, <1>3, <3>1 DEF HandlerInv, QuietInv, Tolerable, Exact, Wanted
  <2>2. CASE pc[g] \notin {"protection", "set", "setEach", "reread", "delete"}
    BY <2>2 DEF QuietInv
  <2>3. QED
    BY <2>1, <2>2
<1>4. QED
  BY <1>1, <1>2, <1>3 DEF HandlerInv

-------------------------------------------------------------------------------
\* The types of what an invocation keeps, and that it only deletes what has its
\* flags set.
LocalsOK ==
    /\ pc' \in [Handlers -> Ended \cup Steps]
    /\ action' \in [Handlers -> {"none", "plan", "execute"}]
    /\ seen' \in [Handlers -> VM \cup {NoVM}]
    /\ todo' \in [Handlers -> SUBSET (Data \cup Nics \cup {Root})]

Ready(h) == pc'[h] = "delete" => seen'[h] \in VM /\ FlagsSet(seen'[h])

LEMMA EndInv ==
    ASSUME TypeOK, NEW h \in Handlers, NEW outcome \in Ended, End(h, outcome)
    PROVE  /\ LocalsOK /\ Ready(h) /\ HandlerInv(h)' /\ pc'[h] \notin Steps
           /\ \A g \in Handlers \ {h} : pc'[g] = pc[g] /\ seen'[g] = seen[g]
BY DEF TypeOK, End, Ended, Steps, LocalsOK, Ready, HandlerInv, AzureInv, QuietInv

LEMMA GoesLocals ==
    ASSUME TypeOK, NEW h \in Handlers, NEW step \in Steps, NEW v \in VM,
           NEW rest \in SUBSET (Data \cup Nics \cup {Root}), Goes(h, step, v, rest)
    PROVE  /\ LocalsOK /\ pc'[h] = step /\ seen'[h] = v
           /\ \A g \in Handlers \ {h} : pc'[g] = pc[g] /\ seen'[g] = seen[g]
BY DEF TypeOK, Goes, LocalsOK

\* The type invariant after a step of an invocation.
LEMMA TypeStep ==
    ASSUME TypeOK, NEW h \in Handlers, LocalsOK, Ready(h), UNCHANGED <<cloud, changes>>,
           \A g \in Handlers \ {h} : pc'[g] = pc[g] /\ seen'[g] = seen[g],
           vm' \in VM \cup {NoVM}, vm' # NoVM => vm'.goes \subseteq vm'.attached,
           pending' \subseteq vm'.attached, fresh' \subseteq Handlers
    PROVE  TypeOK'
<1>1. \A g \in Handlers : pc'[g] = "delete" => seen'[g] # NoVM /\ FlagsSet(seen'[g])
  BY SomeVM DEF TypeOK, Ready
<1>2. \A v : FlagsSet(v)' <=> FlagsSet(v)
  BY DEF TypeOK, FlagsSet
<1>3. QED
  BY <1>1, <1>2 DEF TypeOK, LocalsOK, FlagsSet

-------------------------------------------------------------------------------
\* What is decided about v, which the VM still agrees with.
LEMMA DecideInv ==
    ASSUME IInv, NEW h \in Handlers, NEW v \in VM, Decide(h, v), UNCHANGED <<cloud, vm>>,
           cloud = "azure" => SameVM(v),
           cloud \in Quiet \ {"azure"} =>
                v.standalone = vm.standalone /\ (Exact(v) => Exact(vm))
    PROVE  /\ LocalsOK /\ Ready(h) /\ HandlerInv(h)'
           /\ \A g \in Handlers \ {h} : pc'[g] = pc[g] /\ seen'[g] = seen[g]
<1>0. TypeOK
  BY DEF IInv
<1>1. CASE \E outcome \in Ended : End(h, outcome)
  BY <1>0, <1>1, EndInv
<1>2. CASE v.standalone /\ FlagsSet(v) /\ Goes(h, "delete", v, {})
  <2>1. /\ LocalsOK /\ pc'[h] = "delete" /\ seen'[h] = v
        /\ \A g \in Handlers \ {h} : pc'[g] = pc[g] /\ seen'[g] = seen[g]
    BY <1>0, <1>2, GoesLocals DEF Steps
  <2>2. Ready(h) /\ Exact(v)
    BY <1>2, <2>1, SetIsExact DEF Ready, FlagsSet
  <2>3. HandlerInv(h)'
    BY <1>2, <2>1, <2>2 DEF HandlerInv, AzureInv, QuietInv, SameVM, Exact, Wanted
  <2>4. QED
    BY <2>1, <2>2, <2>3
<1>3. CASE v.standalone /\ cloud = "gcp" /\ Goes(h, "setEach", v, GcpUnset(v))
  <2>1. GcpUnset(v) \subseteq Data \cup Nics \cup {Root}
    BY DEF GcpUnset, VM
  <2>2. /\ LocalsOK /\ pc'[h] = "setEach" /\ seen'[h] = v
        /\ \A g \in Handlers \ {h} : pc'[g] = pc[g] /\ seen'[g] = seen[g]
    BY <1>0, <1>3, <2>1, GoesLocals DEF Steps
  <2>3. HandlerInv(h)'
    BY <1>3, <2>2 DEF HandlerInv, AzureInv, QuietInv
  <2>4. QED
    BY <2>2, <2>3 DEF Ready
<1>4. CASE v.standalone /\ cloud # "gcp" /\ Goes(h, "set", v, {})
  <2>1. /\ LocalsOK /\ pc'[h] = "set" /\ seen'[h] = v
        /\ \A g \in Handlers \ {h} : pc'[g] = pc[g] /\ seen'[g] = seen[g]
    BY <1>0, <1>4, GoesLocals DEF Steps
  <2>2. HandlerInv(h)'
    BY <1>4, <2>1 DEF HandlerInv, AzureInv, QuietInv, SameVM
  <2>3. QED
    BY <2>1, <2>2 DEF Ready
<1>5. Guards(v) => v.standalone
  BY DEF Guards, AzureGuards, AwsGuards
<1>6. QED
  BY <1>1, <1>2, <1>3, <1>4, <1>5 DEF Decide, Ended

\* A step of an invocation that leaves the VM alone.
LEMMA LocalStep ==
    ASSUME IInv, NEW h \in Handlers, LocalsOK, Ready(h), HandlerInv(h)',
           UNCHANGED <<cloud, vm, changes>>,
           pending' \subseteq vm.attached, cloud = "azure" => pending' = pending,
           fresh' \subseteq fresh \cup {h},
           \A g \in Handlers \ {h} : pc'[g] = pc[g] /\ seen'[g] = seen[g]
    PROVE  IInv'
<1>1. TypeOK'
  BY TypeStep DEF IInv, TypeOK
<1>2. \A g \in Handlers \ {h} : HandlerInv(g)'
  BY Bystander DEF Tolerable
<1>3. QED
  BY <1>1, <1>2 DEF IInv

LEMMA StartStep ==
    ASSUME IInv, NEW h \in Handlers, NEW a \in {"plan", "execute"}, Start(h, a)
    PROVE  IInv'
<1>1. /\ LocalsOK /\ pc'[h] = "read" /\ seen' = seen /\ fresh' = fresh
      /\ \A g \in Handlers \ {h} : pc'[g] = pc[g]
  BY DEF IInv, TypeOK, Start, LocalsOK, Steps
<1>2. HandlerInv(h)'
  BY <1>1 DEF HandlerInv, AzureInv, QuietInv
<1>3. Ready(h)
  BY <1>1 DEF Ready
<1>4. QED
  BY <1>1, <1>2, <1>3, LocalStep DEF Start, IInv, TypeOK

LEMMA ReadVMStep == ASSUME IInv, NEW h \in Handlers, ReadVM(h) PROVE IInv'
<1>0. TypeOK /\ HandlerInv(h) /\ UNCHANGED <<cloud, vm, pending, changes>>
  BY DEF IInv, ReadVM
<1>1. fresh' \subseteq fresh \cup {h}
  BY DEF ReadVM
<1>2. CASE vm = NoVM
  BY <1>0, <1>1, <1>2, EndInv, LocalStep DEF ReadVM, Ended, TypeOK
<1>3. CASE vm # NoVM /\ cloud = "aws"
  <2> DEFINE v == [vm EXCEPT !.protected = FALSE]
  <2>1. /\ v \in VM /\ v.standalone = vm.standalone /\ v.attached = vm.attached
        /\ v.goes = vm.goes /\ Goes(h, "protection", v, {})
    BY <1>0, <1>3 DEF TypeOK, VM, ReadVM
  <2>2. /\ LocalsOK /\ pc'[h] = "protection" /\ seen'[h] = v
        /\ \A g \in Handlers \ {h} : pc'[g] = pc[g] /\ seen'[g] = seen[g]
    BY <1>0, <2>1, GoesLocals DEF Steps
  <2>3. HandlerInv(h)'
    BY <1>0, <1>3, <2>1, <2>2 DEF HandlerInv, QuietInv, Exact, Wanted
  <2>4. QED
    BY <1>0, <1>1, <2>2, <2>3, LocalStep DEF Ready, TypeOK
<1>4. CASE vm # NoVM /\ cloud # "aws"
  <2>1. vm \in VM /\ Decide(h, vm) /\ SameVM(vm)
    BY <1>0, <1>4 DEF TypeOK, ReadVM, SameVM
  <2>2. /\ LocalsOK /\ Ready(h) /\ HandlerInv(h)'
        /\ \A g \in Handlers \ {h} : pc'[g] = pc[g] /\ seen'[g] = seen[g]
    BY <1>0, <2>1, DecideInv
  <2>3. QED
    BY <1>0, <1>1, <2>2, LocalStep DEF TypeOK
<1>5. QED
  BY <1>2, <1>3, <1>4

LEMMA ReadProtectionStep == ASSUME IInv, NEW h \in Handlers, ReadProtection(h) PROVE IInv'
<1> DEFINE v == [seen[h] EXCEPT !.protected = vm.protected]
<1>1. /\ TypeOK /\ HandlerInv(h) /\ pc[h] = "protection" /\ vm \in VM /\ Decide(h, v)
      /\ UNCHANGED <<cloud, vm, pending, changes, fresh>>
  BY DEF IInv, ReadProtection, TypeOK
<1>2. seen[h] \in VM /\ cloud # "azure"
  BY <1>1 DEF HandlerInv, AzureInv, Steps
<1>3. /\ v \in VM /\ v.standalone = seen[h].standalone /\ v.attached = seen[h].attached
      /\ v.goes = seen[h].goes
  BY <1>1, <1>2 DEF VM
<1>4. cloud \in Quiet => v.standalone = vm.standalone /\ (Exact(v) => Exact(vm))
  BY <1>1, <1>2, <1>3, SomeVM DEF HandlerInv, QuietInv, Exact, Wanted
<1>5. /\ LocalsOK /\ Ready(h) /\ HandlerInv(h)'
      /\ \A g \in Handlers \ {h} : pc'[g] = pc[g] /\ seen'[g] = seen[g]
  BY <1>1, <1>2, <1>3, <1>4, DecideInv
<1>6. QED
  BY <1>1, <1>5, LocalStep DEF TypeOK

\* The flags are set, and show later.
LEMMA FlagsStep ==
    ASSUME IInv, NEW h \in Handlers, AwsSetDisks(h) \/ SetEach(h)
    PROVE  IInv'
<1>0. /\ TypeOK /\ HandlerInv(h) /\ pc[h] \in {"set", "setEach"} /\ cloud # "azure"
      /\ UNCHANGED <<cloud, vm, changes, fresh>>
  BY DEF IInv, AwsSetDisks, SetEach, HandlerInv, AzureInv
<1>1. seen[h] \in VM /\ todo[h] \subseteq Data \cup Nics \cup {Root}
  BY <1>0 DEF HandlerInv, Steps, TypeOK
<1>2. pending' \subseteq vm.attached
  BY <1>0 DEF AwsSetDisks, SetEach, TypeOK
<1>3. CASE End(h, "failed")
  BY <1>0, <1>2, <1>3, EndInv, LocalStep DEF Ended
<1>4. ASSUME NEW rest \in SUBSET (Data \cup Nics \cup {Root}), Continue(h, rest)
      PROVE  IInv'
  <2>1. PICK step \in {"reread", "setEach"} : Goes(h, step, seen[h], rest)
    BY <1>4 DEF Continue
  <2>2. /\ LocalsOK /\ pc'[h] = step /\ seen'[h] = seen[h]
        /\ \A g \in Handlers \ {h} : pc'[g] = pc[g] /\ seen'[g] = seen[g]
    BY <1>0, <1>1, <2>1, GoesLocals DEF Steps
  <2>3. HandlerInv(h)'
    BY <1>0, <1>1, <2>2 DEF HandlerInv, QuietInv
  <2>4. QED
    BY <1>0, <1>2, <2>2, <2>3, LocalStep DEF Ready
<1>5. (seen[h].attached \cap Nics) \ seen[h].goes \subseteq Data \cup Nics \cup {Root}
  OBVIOUS
<1>6. \A d : todo[h] \ {d} \subseteq Data \cup Nics \cup {Root}
  BY <1>1
<1>7. QED
  BY <1>3, <1>4, <1>5, <1>6 DEF AwsSetDisks, SetEach

LEMMA RereadStep == ASSUME IInv, NEW h \in Handlers, Reread(h) PROVE IInv'
<1>0. /\ TypeOK /\ HandlerInv(h) /\ pc[h] = "reread" /\ cloud # "azure"
      /\ UNCHANGED <<cloud, vm, pending, changes, fresh>>
  BY DEF IInv, Reread, HandlerInv, AzureInv
<1>1. CASE End(h, "refused")
  BY <1>0, <1>1, EndInv, LocalStep DEF Ended, TypeOK
<1>2. CASE vm # NoVM /\ FlagsSet(vm) /\ Goes(h, "delete", vm, {})
  <2>1. vm \in VM /\ Exact(vm)
    BY <1>0, <1>2, SetIsExact DEF TypeOK
  <2>2. /\ LocalsOK /\ pc'[h] = "delete" /\ seen'[h] = vm
        /\ \A g \in Handlers \ {h} : pc'[g] = pc[g] /\ seen'[g] = seen[g]
    BY <1>0, <1>2, <2>1, GoesLocals DEF Steps
  <2>3. HandlerInv(h)' /\ Ready(h)
    BY <1>0, <1>2, <2>1, <2>2 DEF HandlerInv, QuietInv, Ready, FlagsSet, Exact, Wanted
  <2>4. QED
    BY <1>0, <2>2, <2>3, LocalStep DEF TypeOK
<1>3. QED
  BY <1>1, <1>2 DEF Reread

-------------------------------------------------------------------------------
\* The writes.
LEMMA PatchStep == ASSUME IInv, NEW h \in Handlers, AzurePatch(h) PROVE IInv'
<1>0. /\ TypeOK /\ HandlerInv(h) /\ pc[h] = "set" /\ cloud = "azure" /\ h \in fresh
      /\ vm \in VM /\ pending = {}
      /\ UNCHANGED <<cloud, pending, changes>>
  BY DEF IInv, AzurePatch, Patch, TypeOK
<1>1. seen[h] \in VM /\ seen[h].standalone /\ SameVM(seen[h])
  BY <1>0 DEF HandlerInv, AzureInv, Steps
<1>2. PICK state \in {"steady", "failed", "busy"} :
        /\ vm' = AzurePatched(seen[h], state)
        /\ \/ Goes(h, "delete", vm', {}) /\ state = "steady" /\ FlagsSet(vm')
           \/ End(h, "refused") /\ ~(state = "steady" /\ FlagsSet(vm'))
           \/ End(h, "failed")
  BY DEF AzurePatch, Patch
<1>3. /\ vm' \in VM /\ vm'.attached = vm.attached /\ vm'.goes = Wanted(seen[h])
      /\ vm'.standalone = seen[h].standalone /\ vm'.protected = vm.protected
  BY <1>1, <1>2 DEF AzurePatched, VM, SameVM, Wanted
<1>4. vm' # NoVM /\ vm'.goes \subseteq vm'.attached
  BY <1>1, <1>3, SomeVM DEF SameVM, Wanted
<1>5. /\ LocalsOK /\ Ready(h) /\ HandlerInv(h)'
      /\ \A g \in Handlers \ {h} : pc'[g] = pc[g] /\ seen'[g] = seen[g]
  <2>1. CASE End(h, "refused") \/ End(h, "failed")
    BY <1>0, <2>1, EndInv DEF Ended
  <2>2. CASE Goes(h, "delete", vm', {}) /\ FlagsSet(vm')
    <3>1. /\ LocalsOK /\ pc'[h] = "delete" /\ seen'[h] = vm'
          /\ \A g \in Handlers \ {h} : pc'[g] = pc[g] /\ seen'[g] = seen[g]
      BY <1>0, <1>3, <2>2, GoesLocals DEF Steps
    <3>2. HandlerInv(h)'
      BY <1>0, <1>1, <1>3, <1>4, <3>1 DEF HandlerInv, AzureInv, SameVM
    <3>3. QED
      BY <1>3, <2>2, <3>1, <3>2 DEF Ready
  <2>3. QED
    BY <1>2, <2>1, <2>2
<1>6. fresh' \subseteq {h}
  BY DEF AzurePatch, Patch
<1>7. TypeOK'
  BY <1>0, <1>3, <1>4, <1>5, <1>6, TypeStep
<1>8. \A g \in Handlers \ {h} : HandlerInv(g)'
  BY <1>0, <1>5, <1>6, Bystander DEF Tolerable
<1>9. vm # NoVM /\ ~vm.protected
  BY <1>0, <1>1 DEF IInv, SameVM
<1>10. QED
  BY <1>0, <1>3, <1>5, <1>7, <1>8, <1>9 DEF IInv

LEMMA DeleteStep == ASSUME IInv, NEW h \in Handlers, DeleteVM(h) PROVE IInv'
<1>0. /\ TypeOK /\ vm' = NoVM /\ pending' = {} /\ fresh' = {} /\ UNCHANGED <<cloud, changes>>
  BY DEF IInv, DeleteVM, Delete
<1>1. PICK outcome \in {"done", "failed"} : End(h, outcome)
  BY DEF DeleteVM, Delete
<1>2. /\ LocalsOK /\ Ready(h) /\ HandlerInv(h)'
      /\ \A g \in Handlers \ {h} : pc'[g] = pc[g] /\ seen'[g] = seen[g]
  BY <1>0, <1>1, EndInv DEF Ended
<1>3. TypeOK'
  BY <1>0, <1>2, TypeStep
<1>4. \A g \in Handlers \ {h} : HandlerInv(g)'
  BY <1>0, <1>2, Bystander DEF Tolerable
<1>5. QED
  BY <1>0, <1>2, <1>3, <1>4 DEF IInv

LEMMA EndSteps ==
    ASSUME IInv, NEW h \in Handlers, DeleteMissing(h) \/ Fail(h)
    PROVE  IInv'
<1>1. /\ TypeOK /\ (End(h, "done") \/ End(h, "failed"))
      /\ UNCHANGED <<cloud, vm, pending, changes>> /\ fresh' = fresh \ {h}
  BY DEF IInv, DeleteMissing, Fail
<1>2. QED
  BY <1>1, EndInv, LocalStep DEF Ended, TypeOK

-------------------------------------------------------------------------------
\* What everybody else does.
LEMMA OthersStep ==
    ASSUME IInv, UNCHANGED <<cloud, invocations>>, changes' \in 0 .. MaxChanges,
           vm' \in VM \cup {NoVM}, vm' # NoVM => vm'.goes \subseteq vm'.attached,
           pending' \subseteq vm'.attached, fresh' \subseteq fresh,
           cloud = "azure" => pending' = {} /\ (vm' # NoVM => ~vm'.protected),
           \A g \in Handlers : Tolerable(g)
    PROVE  IInv'
<1>1. TypeOK'
  BY DEF IInv, TypeOK, invocations, FlagsSet
<1>2. \A g \in Handlers : HandlerInv(g)'
  BY Bystander DEF invocations
<1>3. QED
  BY <1>1, <1>2 DEF IInv

LEMMA ChangeType ==
    ASSUME TypeOK, Change
    PROVE  changes' \in 0 .. MaxChanges /\ fresh' = {} /\ cloud' = cloud /\ UNCHANGED invocations
BY MaxChangesAssumption DEF TypeOK, Change

LEMMA AttachDetachStep == ASSUME IInv, Attach \/ Detach PROVE IInv'
<1>1. /\ TypeOK /\ vm \in VM /\ vm # NoVM /\ Change /\ vm.goes \subseteq vm.attached
      /\ pending \subseteq vm.attached
  BY DEF IInv, TypeOK, Attach, Detach
<1>2. CASE Attach
  <2>1. PICK d \in Devices \ vm.attached, flagged \in SUBSET Devices :
            /\ flagged \subseteq {d}
            /\ vm' = [vm EXCEPT !.attached = @ \cup {d}, !.goes = @ \cup flagged]
    BY <1>2 DEF Attach
  <2>2. d \in Data \cup Nics
    BY DEF Devices
  <2>3. /\ vm' \in VM /\ vm'.attached = vm.attached \cup {d} /\ vm'.goes = vm.goes \cup flagged
        /\ vm'.standalone = vm.standalone /\ vm'.protected = vm.protected
    BY <1>1, <2>1, <2>2 DEF VM
  <2>4. \A g \in Handlers : Tolerable(g)
    BY <1>1, <1>2, <2>3, ChangeType DEF Tolerable, Attach, NobodyAt
  <2>5. QED
    BY <1>1, <1>2, <2>1, <2>3, <2>4, ChangeType, OthersStep DEF Attach, IInv
<1>3. CASE Detach
  <2>1. PICK d \in Data \cap vm.attached :
            /\ vm' = [vm EXCEPT !.attached = @ \ {d}, !.goes = @ \ {d}]
            /\ pending' = pending \ {d}
    BY <1>3 DEF Detach
  <2>2. /\ vm' \in VM /\ vm'.attached = vm.attached \ {d} /\ vm'.goes = vm.goes \ {d}
        /\ vm'.standalone = vm.standalone /\ vm'.protected = vm.protected
    BY <1>1, <2>1 DEF VM
  <2>3. Exact(vm) => Exact(vm')
    BY <2>1, <2>2 DEF Exact, Wanted
  <2>4. \A g \in Handlers : Tolerable(g)
    BY <1>1, <2>2, <2>3, ChangeType DEF Tolerable
  <2>5. QED
    BY <1>1, <2>1, <2>2, <2>4, ChangeType, OthersStep DEF IInv
<1>4. QED
  BY <1>2, <1>3

LEMMA AdoptUpdateStep == ASSUME IInv, Adopt \/ Update PROVE IInv'
<1>1. /\ TypeOK /\ vm \in VM /\ vm # NoVM /\ Change /\ vm.goes \subseteq vm.attached
      /\ pending' = pending /\ pending \subseteq vm.attached
  BY DEF IInv, TypeOK, Adopt, Update
<1>2. /\ vm' \in VM /\ vm'.attached = vm.attached /\ vm'.goes = vm.goes
      /\ cloud = "azure" => vm'.protected = vm.protected
  BY <1>1 DEF Adopt, Update, VM
<1>3. ASSUME NEW g \in Handlers PROVE Tolerable(g)
  <2>1. fresh' = {}
    BY <1>1, ChangeType
  <2>2. cloud \in Quiet /\ pc[g] \in Steps => vm'.standalone = vm.standalone
    BY <1>1 DEF Adopt, Update, NobodyAt, VM
  <2>3. Exact(vm) => Exact(vm')
    BY <1>2 DEF Exact, Wanted
  <2>4. QED
    BY <1>1, <2>1, <2>2, <2>3 DEF Tolerable
<1>4. QED
  BY <1>1, <1>2, <1>3, ChangeType, OthersStep DEF IInv

LEMMA DestroyRecreateStep == ASSUME IInv, Destroy \/ Recreate PROVE IInv'
<1>0. TypeOK /\ Change
  BY DEF IInv, Destroy, Recreate
<1>1. CASE Destroy
  BY <1>0, <1>1, ChangeType, OthersStep DEF Destroy, Tolerable, IInv
<1>2. CASE Recreate
  <2>1. PICK nics \in SUBSET (Devices \cap Nics), data \in SUBSET Data, alone \in BOOLEAN :
            vm' = [standalone |-> alone, protected |-> FALSE, state |-> "steady",
                   attached |-> nics \cup data \cup {Root}, goes |-> data]
    BY <1>2 DEF Recreate
  <2>2. vm' \in VM /\ vm'.goes \subseteq vm'.attached /\ ~vm'.protected
    BY <2>1 DEF VM
  <2>3. vm = NoVM /\ pending' = pending /\ pending = {}
    BY <1>0, <1>2 DEF Recreate, TypeOK, NoVM
  <2>4. \A g \in Handlers : Tolerable(g)
    <3>1. \A g \in Handlers : cloud \in Quiet => pc[g] \notin Steps
      BY <1>2 DEF Recreate, NobodyAt
    <3>2. QED
      BY <1>0, <3>1, ChangeType DEF Tolerable, Steps
  <2>5. QED
    BY <1>0, <2>2, <2>3, <2>4, ChangeType, OthersStep
<1>3. QED
  BY <1>1, <1>2

LEMMA ShowSettleStep ==
    ASSUME IInv, Settle \/ \E d \in Devices \cup {Root} : FlagShows(d)
    PROVE  IInv'
<1>0. /\ TypeOK /\ UNCHANGED <<cloud, changes, fresh, invocations>>
      /\ cloud = "azure" => pending = {} /\ (vm # NoVM => ~vm.protected)
  BY DEF IInv, Settle, FlagShows
<1>1. CASE Settle
  <2>1. vm \in VM /\ pending' = pending
    BY <1>0, <1>1 DEF Settle, TypeOK
  <2>2. /\ vm' \in VM /\ vm'.attached = vm.attached /\ vm'.goes = vm.goes
        /\ vm'.standalone = vm.standalone /\ vm'.protected = vm.protected
    BY <1>1, <2>1 DEF Settle, VM
  <2>3. vm # NoVM /\ vm' # NoVM
    BY <2>1, <2>2, SomeVM
  <2>4. \A g \in Handlers : Tolerable(g)
    BY <1>0, <2>2, <2>3 DEF Tolerable, Exact, Wanted
  <2>5. QED
    BY <1>0, <2>1, <2>2, <2>3, <2>4, OthersStep DEF TypeOK
<1>2. ASSUME NEW d \in Devices \cup {Root}, FlagShows(d) PROVE IInv'
  <2>1. /\ d \in pending /\ pending' = pending \ {d} /\ d \in vm.attached
        /\ vm' = [vm EXCEPT !.goes = IF d \in Data THEN @ \ {d} ELSE @ \cup {d}]
    BY <1>0, <1>2 DEF FlagShows, TypeOK
  <2>2. vm \in VM /\ vm # NoVM /\ vm.goes \subseteq vm.attached /\ cloud # "azure"
    BY <1>0, <2>1 DEF TypeOK, NoVM
  <2>3. d \in Data \cup Nics \cup {Root}
    BY DEF Devices
  <2>4. /\ vm' \in VM /\ vm'.attached = vm.attached
        /\ vm'.goes = (IF d \in Data THEN vm.goes \ {d} ELSE vm.goes \cup {d})
        /\ vm'.standalone = vm.standalone
    BY <2>1, <2>2, <2>3 DEF VM
  <2>5. Exact(vm) => Exact(vm')
    BY <2>1, <2>4 DEF Exact, Wanted
  <2>6. \A g \in Handlers : Tolerable(g)
    BY <1>0, <2>2, <2>4, <2>5 DEF Tolerable
  <2>7. pending' \subseteq vm'.attached /\ vm'.goes \subseteq vm'.attached
    BY <1>0, <2>1, <2>2, <2>4 DEF TypeOK
  <2>8. QED
    BY <1>0, <2>2, <2>4, <2>6, <2>7, OthersStep DEF TypeOK
<1>3. QED
  BY <1>1, <1>2

-------------------------------------------------------------------------------
LEMMA StepKeeps == ASSUME IInv, [Next]_vars PROVE IInv'
<1>1. ASSUME NEW h \in Handlers, Step(h) PROVE IInv'
  BY <1>1, StartStep, ReadVMStep, ReadProtectionStep, FlagsStep, PatchStep, RereadStep,
     DeleteStep, EndSteps DEF Step
<1>2. ASSUME UNCHANGED vars PROVE IInv'
  BY <1>2, OthersStep DEF vars, invocations, IInv, TypeOK, Tolerable
<1>3. QED
  BY <1>1, <1>2, AttachDetachStep, AdoptUpdateStep, DestroyRecreateStep, ShowSettleStep
     DEF Next, Others

LEMMA Invariant == Spec => []IInv
<1>1. ASSUME Init PROVE IInv
  <2>1. TypeOK
    BY <1>1, MaxChangesAssumption DEF Init, TypeOK, Ended
  <2>2. QED
    BY <1>1, <2>1 DEF Init, IInv, HandlerInv, AzureInv, QuietInv, Steps
<1>2. QED
  BY <1>1, StepKeeps, PTL DEF Spec

\* Every reachable state is well typed, and whoever is about to delete the VM has
\* read it with its flags set (delete_on_termination_set, delete_options_set).
THEOREM TypeCorrect == Spec => []TypeOK
<1>1. IInv => TypeOK
  BY DEF IInv
<1>2. QED
  BY <1>1, Invariant, PTL

\* What the invariant says of an invocation that deletes the VM.
LEMMA AtDeletion ==
    ASSUME IInv, [Next]_vars, Clouds \ {"azure"} \subseteq Quiet, NEW h \in Handlers, Deletes(h)
    PROVE  Exact(vm) /\ vm.standalone /\ ~vm.protected
<1>1. DeleteVM(h)
  <2>1. ASSUME NEW g \in Handlers, Step(g), g # h PROVE pc'[h] = pc[h]
    BY <2>1 DEF Step, Start, ReadVM, ReadProtection, AwsSetDisks, SetEach, AzurePatch, Patch,
       Reread, DeleteVM, Delete, DeleteMissing, Fail, Decide, Continue, End, Goes, IInv, TypeOK
  <2>2. ASSUME Step(h) PROVE DeleteVM(h)
    BY <2>2 DEF Deletes, Step, Start, ReadVM, ReadProtection, AwsSetDisks, SetEach, AzurePatch,
       Patch, Reread, DeleteMissing, Fail, Ended
  <2>3. ASSUME Others \/ UNCHANGED vars PROVE pc' = pc
    BY <2>3 DEF Others, Attach, Detach, Adopt, Update, Destroy, Recreate, Settle, FlagShows,
       Change, invocations, vars
  <2>4. QED
    BY <2>1, <2>2, <2>3 DEF Deletes, Next
<1>2. /\ HandlerInv(h) /\ pc[h] = "delete" /\ vm # NoVM /\ ~vm.protected
      /\ FlagsSet(seen[h]) /\ cloud \in Clouds
  BY <1>1 DEF DeleteVM, Delete, IInv, TypeOK
<1>3. CASE cloud = "azure"
  <2>1. SameVM(seen[h]) /\ seen[h].standalone
    BY <1>1, <1>2, <1>3 DEF DeleteVM, HandlerInv, AzureInv
  <2>2. Exact(seen[h])
    BY <1>2, SetIsExact
  <2>3. QED
    BY <1>2, <2>1, <2>2 DEF SameVM, Exact, Wanted
<1>4. CASE cloud # "azure"
  BY <1>2, <1>4 DEF HandlerInv, QuietInv
<1>5. QED
  BY <1>3, <1>4

\* On Azure, and elsewhere as long as nobody attaches or replaces what an invocation
\* acts on, a VM goes with its root disk and interfaces and with none of its data
\* disks, however the flags of several calls came to show ("Data volumes are kept").
THEOREM DataKept ==
    ASSUME Clouds \ {"azure"} \subseteq Quiet
    PROVE  Spec => DeletesExactly
<1> DEFINE Kept == \A h \in Handlers : Deletes(h) => vm.goes = Wanted(vm)
<1>1. ASSUME IInv, [Next]_vars PROVE [Kept]_vars
  BY <1>1, AtDeletion DEF Exact
<1>2. QED
  BY <1>1, Invariant, PTL DEF Spec, DeletesExactly

\* Under the same assumption the VM belongs to no group or cluster and is not
\* protected when it is deleted, calls after its guards were checked (main.rs:4-6).
THEOREM StandaloneOnly ==
    ASSUME Clouds \ {"azure"} \subseteq Quiet
    PROVE  Spec => OnlyStandalone
<1> DEFINE Alone == \A h \in Handlers : Deletes(h) => vm.standalone /\ ~vm.protected
<1>1. ASSUME IInv, [Next]_vars PROVE [Alone]_vars
  BY <1>1, AtDeletion
<1>2. QED
  BY <1>1, Invariant, PTL DEF Spec, OnlyStandalone

\* Setting the flags attaches and detaches nothing on any cloud, although Azure is
\* sent the lists as they were read (vm-delete-azure main.rs:171).
THEOREM ListsKept == Spec => FlagsOnly
<1> DEFINE Kept == \A h \in Handlers :
        pc[h] \in {"set", "setEach"} /\ pc'[h] # pc[h] /\ vm # NoVM => vm'.attached = vm.attached
<1>1. ASSUME IInv, [Next]_vars PROVE [Kept]_vars
  <2>1. ASSUME NEW h \in Handlers, pc[h] \in {"set", "setEach"}, pc'[h] # pc[h], vm # NoVM
        PROVE  vm'.attached = vm.attached
    <3>1. ASSUME NEW g \in Handlers, Step(g), g # h PROVE pc'[h] = pc[h]
      BY <1>1, <3>1 DEF Step, Start, ReadVM, ReadProtection, AwsSetDisks, SetEach, AzurePatch,
         Patch, Reread, DeleteVM, Delete, DeleteMissing, Fail, Decide, Continue, End, Goes, IInv,
         TypeOK
    <3>2. ASSUME Others \/ UNCHANGED vars PROVE pc' = pc
      BY <3>2 DEF Others, Attach, Detach, Adopt, Update, Destroy, Recreate, Settle, FlagShows,
         Change, invocations, vars
    <3>3. AwsSetDisks(h) \/ SetEach(h) \/ AzurePatch(h) \/ Fail(h)
      BY <1>1, <2>1, <3>1, <3>2 DEF Next, Step, Start, ReadVM, ReadProtection, Reread, DeleteVM,
         Delete, DeleteMissing, Ended
    <3>4. CASE AwsSetDisks(h) \/ SetEach(h) \/ Fail(h)
      BY <3>4 DEF AwsSetDisks, SetEach, Fail
    <3>5. CASE AzurePatch(h)
      <4>1. /\ pc[h] = "set" /\ cloud = "azure" /\ h \in fresh /\ HandlerInv(h)
            /\ \E state \in {"steady", "failed", "busy"} : vm' = AzurePatched(seen[h], state)
        BY <1>1, <3>5 DEF AzurePatch, Patch, IInv
      <4>2. SameVM(seen[h]) /\ seen[h] \in VM
        BY <4>1 DEF HandlerInv, AzureInv, Steps
      <4>3. QED
        BY <4>1, <4>2 DEF AzurePatched, SameVM, VM
    <3>6. QED
      BY <3>3, <3>4, <3>5
  <2>2. QED
    BY <2>1
<1>2. QED
  BY <1>1, Invariant, PTL DEF Spec, FlagsOnly

-------------------------------------------------------------------------------
\* The node-pool-resize functions.

\* At these steps an invocation keeps the pool that it read.
Holding == {"tags", "sizes", "scale"}

HandlerOK(h) ==
    /\ pc[h] \in PoolSteps => req[h] \in Request
    /\ pc[h] \in Holding => seen[h] \in Pool
    /\ pc[h] = "tags" => cloud = "aws"
    /\ pc[h] = "sizes" => cloud = "gcp"

\* An ETag that still matches is that of the pool as it was read.
FreshOK(h) == h \in fresh => cloud = "azure" /\ pc[h] = "scale" /\ seen[h] = pool /\ pool.idle

PoolIInv == PoolTypeOK /\ \A h \in Handlers : HandlerOK(h) /\ FreshOK(h)

-------------------------------------------------------------------------------
LEMMA MinOfTwo ==
    ASSUME NEW a \in Int, NEW b \in Int
    PROVE  Min({a, b}) \in {a, b} /\ Min({a, b}) <= a /\ Min({a, b}) <= b
<1>1. \E x \in {a, b} : \A y \in {a, b} : x <= y
  <2>1. CASE a <= b
    BY <2>1
  <2>2. CASE b <= a
    BY <2>2
  <2>3. QED
    BY <2>1, <2>2
<1>2. QED
  BY <1>1 DEF Min

LEMMA MaxOfThree ==
    ASSUME NEW a \in Int, NEW b \in Int, NEW c \in Int
    PROVE  /\ Max({a, b, c}) \in {a, b, c}
           /\ Max({a, b, c}) >= a /\ Max({a, b, c}) >= b /\ Max({a, b, c}) >= c
<1>1. \E x \in {a, b, c} : \A y \in {a, b, c} : x >= y
  <2>1. CASE a >= b /\ a >= c
    BY <2>1
  <2>2. CASE b >= a /\ b >= c
    BY <2>2
  <2>3. CASE c >= a /\ c >= b
    BY <2>3
  <2>4. QED
    BY <2>1, <2>2, <2>3
<1>2. QED
  BY <1>1 DEF Max

\* Widened limits contain those there were and the count, so AWS accepts them.
LEMMA Widened ==
    ASSUME NEW v \in Pool, NEW r \in Request
    PROVE  LET limits == AwsLimits(v, r)
           IN  /\ limits.min \in Nat /\ limits.max \in Nat
               /\ limits.min <= v.min /\ v.max <= limits.max
               /\ Accepts(limits, r)
<1> DEFINE low == v.min  high == v.max  count == r.count
           room == IF r.via = "eks" THEN 1 ELSE 0
<1>1. low \in Nat /\ high \in Nat /\ count \in Nat /\ room \in Nat
  BY CountsAssumption DEF Pool, Request
<1>2. AwsLimits(v, r) = [min |-> Min({low, count}), max |-> Max({high, count, room})]
  BY DEF AwsLimits
<1>3. r.via = "eks" => room = 1
  OBVIOUS
<1>4. v.min = low /\ v.max = high /\ r.count = count
  OBVIOUS
<1> HIDE DEF low, high, count, room
<1>5. /\ Min({low, count}) \in {low, count}
      /\ Min({low, count}) <= low /\ Min({low, count}) <= count
  <2>1. low \in Int /\ count \in Int
    BY <1>1
  <2>2. QED
    BY <2>1, MinOfTwo, Zenon
<1>6. /\ Max({high, count, room}) \in {high, count, room}
      /\ Max({high, count, room}) >= high /\ Max({high, count, room}) >= count
      /\ Max({high, count, room}) >= room
  <2>1. high \in Int /\ count \in Int /\ room \in Int
    BY <1>1
  <2>2. QED
    BY <2>1, MaxOfThree, Zenon
<1>7. QED
  BY <1>1, <1>2, <1>3, <1>4, <1>5, <1>6 DEF Accepts

-------------------------------------------------------------------------------
\* What the steps of an invocation keep of the others, and establish for itself.
PoolLocalsOK(h) ==
    /\ pc' \in [Handlers -> Ended \cup PoolSteps]
    /\ req' \in [Handlers -> Request \cup {NoRequest}]
    /\ seen' \in [Handlers -> Pool \cup {NoPool}]
    /\ todo' \in [Handlers -> SUBSET Zones]
    /\ \A g \in Handlers \ {h} : pc'[g] = pc[g] /\ req'[g] = req[g] /\ seen'[g] = seen[g]
    /\ pc'[h] \in PoolSteps => req'[h] \in Request
    /\ pc'[h] \in Holding => seen'[h] \in Pool
    /\ pc'[h] = "tags" => cloud = "aws"
    /\ pc'[h] = "sizes" => cloud = "gcp"

LEMMA PoolEndInv ==
    ASSUME PoolIInv, NEW h \in Handlers, NEW outcome \in Ended, PoolEnd(h, outcome)
    PROVE  PoolLocalsOK(h) /\ pc'[h] = outcome
BY DEF PoolIInv, PoolTypeOK, PoolEnd, Ended, PoolSteps, Holding, PoolLocalsOK

LEMMA GoesInv ==
    ASSUME PoolIInv, NEW h \in Handlers, NEW step \in Holding, NEW v \in Pool,
           NEW rest \in SUBSET Zones, req[h] \in Request, PoolGoes(h, step, v, rest),
           step = "tags" => cloud = "aws", step = "sizes" => cloud = "gcp"
    PROVE  PoolLocalsOK(h) /\ pc'[h] = step /\ seen'[h] = v /\ req' = req
BY DEF PoolIInv, PoolTypeOK, PoolGoes, PoolSteps, Holding, PoolLocalsOK

\* What is decided from the pool that was read: it is written only if the guards hold.
LEMMA PoolDecideInv ==
    ASSUME PoolIInv, NEW h \in Handlers, pc[h] \in PoolSteps, NEW v \in Pool, PoolDecide(h, v)
    PROVE  /\ PoolLocalsOK(h)
           /\ pc'[h] \in Ended \cup {"scale"}
           /\ pc'[h] = "scale" => seen'[h] = v /\ req' = req /\ PoolGuards(v, req[h])
<1>1. CASE \E outcome \in Ended : PoolEnd(h, outcome)
  BY <1>1, PoolEndInv DEF Ended
<1>2. CASE PoolGuards(v, req[h]) /\ PoolGoes(h, "scale", v, {})
  BY <1>2, GoesInv DEF PoolIInv, HandlerOK, Holding
<1>3. QED
  BY <1>1, <1>2 DEF PoolDecide, Ended

\* A step of an invocation keeps the invariant if what it leaves has its type and
\* the ETags that still match are those of what was read.
LEMMA InvocationStep ==
    ASSUME PoolIInv, NEW h \in Handlers, PoolLocalsOK(h),
           UNCHANGED <<cloud, setting, own, only, changes>>,
           pool' \in Pool, fresh' \subseteq Handlers, \A g \in Handlers : FreshOK(g)'
    PROVE  PoolIInv'
<1>1. Pool' = Pool /\ Request' = Request
  BY DEF Pool, PoolZones, Request
<1>2. ASSUME NEW g \in Handlers PROVE HandlerOK(g)'
  <2>1. CASE g = h
    BY <1>1, <2>1 DEF HandlerOK, PoolLocalsOK
  <2>2. CASE g # h
    BY <1>1, <2>2 DEF PoolIInv, HandlerOK, PoolLocalsOK
  <2>3. QED
    BY <2>1, <2>2
<1>3. ASSUME NEW g \in Handlers, pc'[g] = "scale", cloud = "aws"
      PROVE  Accepts(AwsLimits(seen'[g], req'[g]), req'[g])
  BY <1>1, <1>2, <1>3, Widened DEF PoolIInv, HandlerOK, Holding, PoolSteps
<1>4. PoolTypeOK'
  BY <1>1, <1>3 DEF PoolIInv, PoolTypeOK, PoolLocalsOK
<1>5. QED
  BY <1>2, <1>4 DEF PoolIInv

\* A step that only reads keeps it too.
LEMMA ReadingStep ==
    ASSUME PoolIInv, NEW h \in Handlers, PoolLocalsOK(h), pc[h] # "scale",
           UNCHANGED <<cloud, setting, pool, own, only, changes, fresh>>
    PROVE  PoolIInv'
<1>1. \A g \in Handlers : FreshOK(g)'
  BY DEF PoolIInv, FreshOK, PoolLocalsOK
<1>2. pool \in Pool /\ fresh \subseteq Handlers
  BY DEF PoolIInv, PoolTypeOK
<1>3. QED
  BY <1>1, <1>2, InvocationStep

LEMMA NoneFresh == ASSUME PoolIInv, cloud # "azure" PROVE fresh = {}
BY DEF PoolIInv, PoolTypeOK, FreshOK

LEMMA PoolStartStep ==
    ASSUME PoolIInv, NEW h \in Handlers, PoolStart(h) PROVE PoolIInv' /\ PoolLocalsOK(h)
<1>1. PoolLocalsOK(h)
  BY DEF PoolIInv, PoolTypeOK, PoolStart, PoolLocalsOK, PoolSteps, Holding
<1>2. QED
  BY <1>1, ReadingStep DEF PoolStart, Ended

LEMMA ReadAsgStep ==
    ASSUME PoolIInv, NEW h \in Handlers, ReadAsg(h) PROVE PoolIInv' /\ PoolLocalsOK(h)
<1>1. pool \in Pool /\ pc[h] \in PoolSteps
  BY DEF PoolIInv, PoolTypeOK, ReadAsg, PoolSteps
<1>2. QED
  BY <1>1, PoolDecideInv, ReadingStep DEF ReadAsg

LEMMA ReadEksStep ==
    ASSUME PoolIInv, NEW h \in Handlers, ReadEks(h) PROVE PoolIInv' /\ PoolLocalsOK(h)
<1>1. pool \in Pool /\ req[h] \in Request /\ cloud = "aws"
  <2>1. req[h] \in Request
    BY DEF PoolIInv, HandlerOK, ReadEks, PoolSteps
  <2>2. cloud = "aws"
    BY <2>1 DEF ReadEks, Request
  <2>3. QED
    BY <2>1, <2>2 DEF PoolIInv, PoolTypeOK
<1>2. [pool EXCEPT !.auto = FALSE] \in Pool
  BY <1>1 DEF Pool
<1>3. PoolLocalsOK(h)
  <2>1. CASE PoolGoes(h, "tags", [pool EXCEPT !.auto = FALSE], {})
    BY <1>1, <1>2, <2>1, GoesInv DEF Holding
  <2>2. QED
    BY <2>1, PoolEndInv DEF ReadEks, Ended
<1>4. QED
  BY <1>3, ReadingStep DEF ReadEks

LEMMA ReadTagsStep ==
    ASSUME PoolIInv, NEW h \in Handlers, ReadTags(h) PROVE PoolIInv' /\ PoolLocalsOK(h)
<1>1. seen[h] \in Pool /\ pool \in Pool /\ pc[h] \in PoolSteps
  BY DEF PoolIInv, PoolTypeOK, HandlerOK, ReadTags, Holding, PoolSteps
<1>2. [seen[h] EXCEPT !.auto = pool.auto] \in Pool
  BY <1>1 DEF Pool
<1>3. QED
  BY <1>1, <1>2, PoolDecideInv, ReadingStep DEF ReadTags

LEMMA ReadAksStep ==
    ASSUME PoolIInv, NEW h \in Handlers, ReadAks(h) PROVE PoolIInv' /\ PoolLocalsOK(h)
<1>1. pool \in Pool /\ pc[h] \in PoolSteps /\ fresh \subseteq Handlers
  BY DEF PoolIInv, PoolTypeOK, ReadAks, PoolSteps
<1>2. PoolLocalsOK(h) /\ (pc'[h] = "scale" => seen'[h] = pool /\ pool.idle)
  BY <1>1, PoolDecideInv DEF ReadAks, PoolGuards, AzurePoolGuards
<1>3. h \notin fresh
  BY DEF PoolIInv, FreshOK, ReadAks
<1>4. \A g \in Handlers : FreshOK(g)'
  BY <1>2, <1>3 DEF ReadAks, PoolIInv, FreshOK, PoolLocalsOK
<1>5. QED
  BY <1>1, <1>2, <1>4, InvocationStep DEF ReadAks

LEMMA ReadGkeStep ==
    ASSUME PoolIInv, NEW h \in Handlers, ReadGke(h) PROVE PoolIInv' /\ PoolLocalsOK(h)
<1>1. pool \in Pool /\ only \in BOOLEAN /\ req[h] \in Request
  BY DEF PoolIInv, PoolTypeOK, HandlerOK, ReadGke, PoolSteps
<1>2. [pool EXCEPT !.system = only] \in Pool
  BY <1>1 DEF Pool
<1>3. QED
  BY <1>1, <1>2, GoesInv, ReadingStep DEF ReadGke, Holding

LEMMA ReadSizeStep ==
    ASSUME PoolIInv, NEW h \in Handlers, ReadSize(h) PROVE PoolIInv' /\ PoolLocalsOK(h)
<1>1. PICK z \in todo[h] :
        LET v == [seen[h] EXCEPT !.size[z] = pool.size[z]]
            rest == todo[h] \ {z}
        IN  IF rest = {} THEN PoolDecide(h, v) ELSE PoolGoes(h, "sizes", v, rest)
  BY DEF ReadSize
<1> DEFINE v == [seen[h] EXCEPT !.size[z] = pool.size[z]]
<1>2. /\ seen[h] \in Pool /\ pool \in Pool /\ pc[h] \in PoolSteps /\ req[h] \in Request
      /\ cloud = "gcp" /\ todo[h] \subseteq Zones
  BY DEF PoolIInv, PoolTypeOK, HandlerOK, ReadSize, Holding, PoolSteps
<1>3. v \in Pool
  <2>1. pool.size[z] \in Nat
    BY <1>2 DEF Pool, PoolZones
  <2>2. [seen[h].size EXCEPT ![z] = pool.size[z]] \in [PoolZones -> Nat]
    BY <1>2, <2>1 DEF Pool
  <2>3. QED
    BY <1>2, <2>2 DEF Pool
<1> HIDE DEF v
<1>4. PoolLocalsOK(h)
  <2>1. CASE PoolDecide(h, v)
    BY <1>2, <1>3, <2>1, PoolDecideInv
  <2>2. CASE PoolGoes(h, "sizes", v, todo[h] \ {z})
    BY <1>2, <1>3, <2>2, GoesInv DEF Holding
  <2>3. QED
    BY <1>1, <2>1, <2>2 DEF v
<1>5. QED
  BY <1>4, ReadingStep DEF ReadSize

\* A pool of AWS or Google Cloud that is resized keeps what it is.
LEMMA SetSize ==
    ASSUME PoolIInv, NEW min \in Nat, NEW max \in Nat, NEW n \in Nat
    PROVE  /\ Scaled(pool, [min |-> min, max |-> max], n) \in Pool
           /\ [Scaled(pool, [min |-> min, max |-> max], n) EXCEPT !.idle = FALSE] \in Pool
<1>1. pool \in Pool
  BY DEF PoolIInv, PoolTypeOK
<1>2. [z \in PoolZones |-> n] \in [PoolZones -> Nat]
  OBVIOUS
<1>3. QED
  BY <1>1, <1>2 DEF Pool, Scaled

\* What a resize of AWS sends, from the pool that was read.
LEMMA AwsWrite ==
    ASSUME PoolIInv, NEW h \in Handlers, pc[h] = "scale", cloud = "aws"
    PROVE  /\ req[h] \in Request /\ req[h].count \in Nat /\ seen[h] \in Pool
           /\ \E min \in Nat, max \in Nat :
                /\ AwsLimits(seen[h], req[h]) = [min |-> min, max |-> max]
                /\ min <= seen[h].min /\ seen[h].max <= max
<1>1. req[h] \in Request /\ seen[h] \in Pool
  BY DEF PoolIInv, HandlerOK, Holding, PoolSteps
<1>2. req[h].count \in Nat
  BY <1>1, CountsAssumption DEF Request
<1>3. QED
  BY <1>1, <1>2, Widened DEF PoolIInv, AwsLimits

LEMMA ScaleEksStep ==
    ASSUME PoolIInv, NEW h \in Handlers, ScaleEks(h) PROVE PoolIInv' /\ PoolLocalsOK(h)
<1>1. pc[h] = "scale" /\ cloud = "aws"
  BY DEF ScaleEks, PoolIInv, HandlerOK, PoolSteps, Request
<1>2. pool' \in Pool
  BY <1>1, AwsWrite, SetSize DEF ScaleEks
<1>3. PoolLocalsOK(h)
  BY PoolEndInv DEF ScaleEks, Ended
<1>4. fresh' = {}
  BY <1>1, NoneFresh DEF ScaleEks
<1>5. QED
  BY <1>2, <1>3, <1>4, InvocationStep DEF ScaleEks, FreshOK

LEMMA ScaleAsgStep ==
    ASSUME PoolIInv, NEW h \in Handlers, ScaleAsg(h) PROVE PoolIInv' /\ PoolLocalsOK(h)
<1>1. pc[h] = "scale" /\ cloud = "aws"
  BY DEF ScaleAsg, PoolIInv, HandlerOK, PoolSteps, Request
<1>2. pool' \in Pool
  BY <1>1, AwsWrite, SetSize DEF ScaleAsg
<1>3. PoolLocalsOK(h)
  BY PoolEndInv DEF ScaleAsg, Ended
<1>4. fresh' = {}
  BY <1>1, NoneFresh DEF ScaleAsg
<1>5. QED
  BY <1>2, <1>3, <1>4, InvocationStep DEF ScaleAsg, FreshOK

LEMMA ScaleAksStep ==
    ASSUME PoolIInv, NEW h \in Handlers, ScaleAks(h) PROVE PoolIInv' /\ PoolLocalsOK(h)
<1>1. req[h].count \in Nat /\ seen[h] \in Pool
  BY CountsAssumption DEF ScaleAks, Put, PoolIInv, HandlerOK, Holding, PoolSteps, Request
<1>2. pool' \in Pool
  <2>1. [seen[h].size EXCEPT ![Home] = req[h].count] \in [PoolZones -> Nat]
    BY <1>1 DEF Pool
  <2>2. QED
    BY <1>1, <2>1 DEF ScaleAks, Put, AzureBody, Pool
<1>3. PoolLocalsOK(h)
  BY PoolEndInv DEF ScaleAks, Put, Ended
<1>4. QED
  BY <1>2, <1>3, InvocationStep DEF ScaleAks, Put, FreshOK

LEMMA ScaleGkeStep ==
    ASSUME PoolIInv, NEW h \in Handlers, ScaleGke(h) PROVE PoolIInv' /\ PoolLocalsOK(h)
<1>1. pc[h] = "scale" /\ cloud = "gcp" /\ req[h].count \in Nat /\ pool \in Pool
  BY CountsAssumption DEF ScaleGke, PoolIInv, PoolTypeOK, HandlerOK, PoolSteps, Request
<1>2. pool' \in Pool
  <2>1. [z \in Zones |-> req[h].count] \in [PoolZones -> Nat]
    BY <1>1 DEF PoolZones
  <2>2. QED
    BY <1>1, <2>1 DEF ScaleGke, Pool
<1>3. PoolLocalsOK(h)
  BY PoolEndInv DEF ScaleGke, Ended
<1>4. fresh' = {}
  BY <1>1, NoneFresh DEF ScaleGke
<1>5. QED
  BY <1>2, <1>3, <1>4, InvocationStep DEF ScaleGke, FreshOK

LEMMA FailStep ==
    ASSUME PoolIInv, NEW h \in Handlers, PoolFail(h) PROVE PoolIInv' /\ PoolLocalsOK(h)
<1>1. PoolLocalsOK(h)
  BY PoolEndInv DEF PoolFail, Ended
<1>2. \A g \in Handlers : FreshOK(g)'
  BY <1>1 DEF PoolFail, PoolIInv, FreshOK, PoolLocalsOK
<1>3. QED
  BY <1>1, <1>2, InvocationStep DEF PoolFail, PoolIInv, PoolTypeOK

LEMMA InvocationSteps ==
    ASSUME PoolIInv, NEW h \in Handlers, PoolStep(h)
    PROVE  PoolIInv' /\ PoolLocalsOK(h) /\ UNCHANGED <<cloud, setting, own, only>>
<1>1. UNCHANGED <<cloud, setting, own, only>>
  BY DEF PoolStep, PoolStart, ReadAsg, ReadEks, ReadTags, ReadAks, ReadGke,
     ReadSize, ScaleEks, ScaleAsg,
     ScaleAks, Put, ScaleGke, PoolFail
<1>2. QED
  BY <1>1, PoolStartStep, ReadAsgStep, ReadEksStep, ReadTagsStep, ReadAksStep, ReadGkeStep,
     ReadSizeStep, ScaleEksStep, ScaleAsgStep, ScaleAksStep, ScaleGkeStep, FailStep DEF PoolStep

LEMMA PoolOthersStep == ASSUME PoolIInv, PoolOthers PROVE PoolIInv'
<1>1. UNCHANGED <<cloud, setting, pc, req, seen, todo>> /\ pool \in Pool
  BY DEF PoolOthers, Reconfigure, SetLimits, Resize, OtherPool, PoolSettle, PoolChange,
     poolInvocations, PoolIInv,
     PoolTypeOK
<1>2. changes' \in 0 .. MaxChanges
  <2>1. changes \in 0 .. MaxChanges /\ MaxChanges \in Nat
    BY MaxChangesAssumption DEF PoolIInv, PoolTypeOK
  <2>2. changes' = changes \/ (changes < MaxChanges /\ changes' = changes + 1)
    BY DEF PoolOthers, Reconfigure, SetLimits, Resize, OtherPool, PoolSettle, PoolChange
  <2>3. QED
    BY <2>1, <2>2
<1>3. Pool' = Pool /\ Request' = Request
  BY <1>1 DEF Pool, PoolZones, Request
<1>4. pool' \in Pool /\ own' \in [min : Nat, max : Nat] /\ only' \in BOOLEAN
  <2>1. CASE Reconfigure
    BY <1>1, <2>1 DEF Reconfigure, PoolIInv, PoolTypeOK, Pool
  <2>2. CASE SetLimits
    <3>1. PICK min \in 0 .. pool.size[Home] + 1, max \in 0 .. pool.size[Home] + 1 :
            /\ pool' = [pool EXCEPT !.min = min, !.max = max]
            /\ own' = [min |-> min, max |-> max]
      BY <2>2 DEF SetLimits
    <3>2. pool.size[Home] \in Nat
      BY <1>1, ZonesAssumption DEF Pool, PoolZones
    <3>3. min \in Nat /\ max \in Nat
      BY <3>2
    <3>4. QED
      BY <1>1, <2>2, <3>1, <3>3 DEF SetLimits, PoolIInv, PoolTypeOK, Pool
  <2>3. CASE Resize
    <3>1. PICK z \in PoolZones, n \in pool.min .. pool.max :
            pool' = [pool EXCEPT !.size[z] = n]
      BY <2>3 DEF Resize
    <3>2. n \in Nat
      BY <1>1 DEF Pool
    <3>3. [pool.size EXCEPT ![z] = n] \in [PoolZones -> Nat]
      BY <1>1, <3>2 DEF Pool
    <3>4. QED
      BY <1>1, <2>3, <3>1, <3>3 DEF Resize, PoolIInv, PoolTypeOK, Pool
  <2>4. CASE OtherPool
    BY <2>4 DEF OtherPool, PoolIInv, PoolTypeOK
  <2>5. CASE PoolSettle
    BY <1>1, <2>5 DEF PoolSettle, PoolIInv, PoolTypeOK, Pool
  <2>6. QED
    BY <2>1, <2>2, <2>3, <2>4, <2>5 DEF PoolOthers
<1>5. \A h \in Handlers : FreshOK(h)' /\ HandlerOK(h)'
  <2>1. CASE PoolSettle
    BY <1>1, <1>3, <2>1 DEF PoolSettle, FreshOK, HandlerOK, PoolIInv
  <2>2. CASE fresh' = {}
    BY <1>1, <1>3, <2>2 DEF FreshOK, HandlerOK, PoolIInv
  <2>3. QED
    BY <2>1, <2>2 DEF PoolOthers, Reconfigure, SetLimits, Resize, OtherPool, PoolChange
<1>6. PoolTypeOK'
  BY <1>1, <1>2, <1>3, <1>4 DEF PoolIInv, PoolTypeOK, PoolOthers, Reconfigure, SetLimits,
     Resize, OtherPool,
     PoolSettle, PoolChange
<1>7. QED
  BY <1>5, <1>6 DEF PoolIInv

LEMMA InitInv == ASSUME PoolInit PROVE PoolIInv
<1>1. pool \in Pool /\ pool.min = 1 /\ pool.max = 1 /\ only \in BOOLEAN
  <2>1. PICK auto, system, managed, fit, alone \in BOOLEAN :
          /\ pool = [auto |-> auto, system |-> system, managed |-> managed, fit |-> fit,
                     idle |-> TRUE, min |-> 1, max |-> 1, size |-> [z \in PoolZones |-> 1]]
          /\ only = alone
    BY DEF PoolInit
  <2>2. [z \in PoolZones |-> 1] \in [PoolZones -> Nat]
    OBVIOUS
  <2>3. QED
    BY <2>1, <2>2 DEF Pool
<1>2. own = [min |-> pool.min, max |-> pool.max]
  BY DEF PoolInit
<1>3. \A h \in Handlers : pc[h] = "idle"
  BY DEF PoolInit
<1>4. PoolTypeOK
  BY <1>1, <1>2, <1>3, MaxChangesAssumption DEF PoolInit, PoolTypeOK, Ended
<1>5. QED
  BY <1>3, <1>4 DEF PoolInit, PoolIInv, HandlerOK, FreshOK, Holding, PoolSteps

LEMMA PoolStepKeeps == ASSUME PoolIInv, [PoolNext]_poolVars PROVE PoolIInv'
<1>1. ASSUME UNCHANGED poolVars PROVE PoolIInv'
  BY <1>1 DEF poolVars, PoolIInv, PoolTypeOK, HandlerOK, FreshOK, Pool,
     PoolZones, Request
<1>2. QED
  BY <1>1, InvocationSteps, PoolOthersStep DEF PoolNext

LEMMA PoolInvariant == PoolSpec => []PoolIInv
<1>1. PoolInit => PoolIInv
  BY InitInv
<1>2. QED
  BY <1>1, PoolStepKeeps, PTL DEF PoolSpec

\* Every reachable state is well typed, and AWS accepts every update that is about to
\* be made, whatever limits the group had when it was read (limits).
THEOREM PoolTyped == PoolSpec => []PoolTypeOK
<1>1. PoolIInv => PoolTypeOK
  BY DEF PoolIInv
<1>2. QED
  BY <1>1, PoolInvariant, PTL

-------------------------------------------------------------------------------
\* Where nobody moves a pool's limits, autoscaler or role while an invocation acts on
\* what it read, as the ETag makes sure on Azure, what it read is still so.

\* Only AKS has system pools, only Google Cloud a cluster's only pool; and a resize
\* leaves the room that others last gave the pool.
RolesOK ==
    /\ cloud # "azure" => ~pool.system
    /\ cloud # "gcp" => ~only
    /\ pool.min <= own.min /\ own.max <= pool.max

Held(h) ==
    /\ cloud # "azure" /\ pc[h] \in Holding =>
        /\ seen[h].managed = pool.managed
        /\ pc[h] # "tags" => seen[h].auto = pool.auto
        /\ cloud = "gcp" => seen[h].system = only
        /\ seen[h].min <= own.min /\ own.max <= seen[h].max
    /\ pc[h] = "scale" => PoolGuards(seen[h], req[h])

GuardInv == PoolIInv /\ RolesOK /\ \A h \in Handlers : Held(h)

\* The cap of an installation does not change.
LEMMA SameCap == ASSUME UNCHANGED <<cloud, setting>> PROVE MaxCount' = MaxCount
BY DEF MaxCount, MaxCountFromEnv, Cap

\* What an invocation that decides to write has read, if that agrees with the pool.
LEMMA DecideHeld ==
    ASSUME PoolIInv, NEW h \in Handlers, pc[h] \in PoolSteps, NEW v \in Pool, PoolDecide(h, v),
           UNCHANGED <<cloud, setting, pool, own, only>>,
           cloud # "azure" =>
              /\ v.managed = pool.managed /\ v.auto = pool.auto
              /\ cloud = "gcp" => v.system = only
              /\ v.min <= own.min /\ own.max <= v.max
    PROVE  Held(h)'
<1>1. CASE pc'[h] # "scale"
  BY <1>1, PoolDecideInv DEF Held, Holding, Ended
<1>2. CASE pc'[h] = "scale"
  <2>1. seen'[h] = v /\ req' = req /\ PoolGuards(v, req[h])
    BY <1>2, PoolDecideInv
  <2>2. PoolGuards(seen[h], req[h])'
    BY <2>1, SameCap DEF PoolGuards, AwsPoolGuards, AzurePoolGuards, GcpPoolGuards
  <2>3. QED
    BY <1>2, <2>1, <2>2 DEF Held
<1>3. QED
  BY <1>1, <1>2

LEMMA OwnHeld == ASSUME GuardInv, NEW h \in Handlers, PoolStep(h) PROVE Held(h)'
<1>1. /\ PoolIInv /\ RolesOK /\ Held(h)
      /\ UNCHANGED <<cloud, setting, own, only>> /\ PoolLocalsOK(h)
  BY InvocationSteps DEF GuardInv
<1>2. /\ pool \in Pool
      /\ pc[h] \in PoolSteps => req[h] \in Request
      /\ pc[h] \in Holding => seen[h] \in Pool
  BY <1>1 DEF PoolIInv, PoolTypeOK, HandlerOK
<1>3. CASE PoolStart(h)
  BY <1>1, <1>3 DEF PoolStart, PoolIInv, PoolTypeOK, Held, Holding
<1>4. CASE ReadAsg(h)
  <2>1. pc[h] \in PoolSteps /\ cloud = "aws"
    BY <1>2, <1>4 DEF ReadAsg, PoolSteps, Request
  <2>2. QED
    BY <1>1, <1>2, <1>4, <2>1, DecideHeld DEF ReadAsg, RolesOK
<1>5. CASE ReadEks(h)
  <2>1. pc[h] \in PoolSteps /\ cloud = "aws"
    BY <1>2, <1>5 DEF ReadEks, PoolSteps, Request
  <2>2. CASE PoolGoes(h, "tags", [pool EXCEPT !.auto = FALSE], {})
    BY <1>1, <1>2, <1>5, <2>1, <2>2 DEF ReadEks, PoolGoes, Held, RolesOK, Pool, PoolIInv,
       PoolTypeOK
  <2>3. CASE \E outcome \in Ended : PoolEnd(h, outcome)
    BY <1>1, <2>3, PoolEndInv DEF Held, Holding, Ended
  <2>4. QED
    BY <1>5, <2>2, <2>3 DEF ReadEks, Ended
<1>6. CASE ReadTags(h)
  <2>1. pc[h] \in PoolSteps /\ pc[h] \in Holding /\ cloud = "aws"
    BY <1>1, <1>6 DEF ReadTags, PoolSteps, Holding, PoolIInv, HandlerOK
  <2>2. [seen[h] EXCEPT !.auto = pool.auto] \in Pool
    BY <1>2, <2>1 DEF Pool
  <2>3. QED
    BY <1>1, <1>2, <1>6, <2>1, <2>2, DecideHeld DEF ReadTags, Held, Pool
<1>7. CASE ReadAks(h)
  <2>1. pc[h] \in PoolSteps
    BY <1>7 DEF ReadAks, PoolSteps
  <2>2. QED
    BY <1>1, <1>2, <1>7, <2>1, DecideHeld DEF ReadAks
<1>8. CASE ReadGke(h)
  BY <1>1, <1>2, <1>8 DEF ReadGke, PoolGoes, Held, RolesOK, Pool, PoolIInv, PoolTypeOK
<1>9. CASE ReadSize(h)
  <2>1. PICK z \in todo[h] :
          LET v == [seen[h] EXCEPT !.size[z] = pool.size[z]]
              rest == todo[h] \ {z}
          IN  IF rest = {} THEN PoolDecide(h, v) ELSE PoolGoes(h, "sizes", v, rest)
    BY <1>9 DEF ReadSize
  <2> DEFINE v == [seen[h] EXCEPT !.size[z] = pool.size[z]]
  <2>2. /\ seen[h] \in Pool /\ pc[h] \in PoolSteps /\ cloud = "gcp" /\ z \in Zones
        /\ pc[h] = "sizes" /\ pool' = pool
    BY <1>1, <1>2, <1>9 DEF ReadSize, PoolSteps, Holding, PoolIInv, PoolTypeOK, HandlerOK
  <2>3. v \in Pool
    <3>1. pool.size[z] \in Nat
      BY <1>2, <2>2 DEF Pool, PoolZones
    <3>2. [seen[h].size EXCEPT ![z] = pool.size[z]] \in [PoolZones -> Nat]
      BY <2>2, <3>1 DEF Pool
    <3>3. QED
      BY <2>2, <3>2 DEF Pool
  <2>4. /\ v.managed = pool.managed /\ v.auto = pool.auto /\ v.system = only
        /\ v.min <= own.min /\ own.max <= v.max
    BY <1>1, <2>2 DEF Held, Holding, Pool
  <2> HIDE DEF v
  <2>5. CASE PoolDecide(h, v)
    BY <1>1, <2>2, <2>3, <2>4, <2>5, DecideHeld
  <2>6. CASE PoolGoes(h, "sizes", v, todo[h] \ {z})
    BY <1>1, <2>2, <2>4, <2>6 DEF PoolGoes, Held, PoolIInv, PoolTypeOK
  <2>7. QED
    BY <2>1, <2>5, <2>6 DEF v
<1>10. CASE ScaleEks(h) \/ ScaleAsg(h) \/ ScaleAks(h) \/ ScaleGke(h) \/ PoolFail(h)
  <2>1. \E outcome \in Ended : PoolEnd(h, outcome)
    BY <1>10 DEF ScaleEks, ScaleAsg, ScaleAks, Put, ScaleGke, PoolFail, Ended
  <2>2. QED
    BY <1>1, <2>1, PoolEndInv DEF Held, Holding, Ended
<1>11. QED
  BY <1>3, <1>4, <1>5, <1>6, <1>7, <1>8, <1>9, <1>10 DEF PoolStep

\* No step of an invocation takes back what others set of the pool.
LEMMA PoolKept ==
    ASSUME GuardInv, NEW h \in Handlers, PoolStep(h)
    PROVE  /\ pool'.auto = pool.auto /\ pool'.system = pool.system
           /\ pool'.managed = pool.managed
           /\ pool'.min <= own.min /\ own.max <= pool'.max
<1>1. PoolIInv /\ RolesOK /\ Held(h) /\ pool \in Pool /\ own \in [min : Nat, max : Nat]
  BY DEF GuardInv, PoolIInv, PoolTypeOK
<1>2. CASE pool' = pool
  BY <1>1, <1>2 DEF RolesOK
<1>3. CASE ScaleEks(h) \/ ScaleAsg(h)
  <2>1. pc[h] = "scale" /\ cloud = "aws"
    BY <1>1, <1>3 DEF ScaleEks, ScaleAsg, PoolIInv, HandlerOK, PoolSteps, Request
  <2>2. PICK min \in Nat, max \in Nat :
          /\ AwsLimits(seen[h], req[h]) = [min |-> min, max |-> max]
          /\ min <= seen[h].min /\ seen[h].max <= max /\ seen[h] \in Pool
    BY <1>1, <2>1, AwsWrite
  <2>3. pool'.min = min /\ pool'.max = max
    <3> DEFINE written == Scaled(pool, [min |-> min, max |-> max], req[h].count)
    <3>1. pool' = written \/ pool' = [written EXCEPT !.idle = FALSE]
      BY <1>3, <2>2 DEF ScaleEks, ScaleAsg
    <3>2. QED
      BY <1>1, <3>1 DEF Scaled, Pool
  <2>4. seen[h].min <= own.min /\ own.max <= seen[h].max
    BY <1>1, <2>1 DEF Held, Holding
  <2>5. min <= own.min /\ own.max <= max
    BY <1>1, <2>2, <2>4 DEF Pool
  <2>6. pool'.auto = pool.auto /\ pool'.system = pool.system /\ pool'.managed = pool.managed
    BY <1>1, <1>3 DEF ScaleEks, ScaleAsg, Scaled, Pool
  <2>7. QED
    BY <2>3, <2>5, <2>6
<1>4. CASE ScaleAks(h)
  <2>1. seen[h] = pool
    BY <1>1, <1>4 DEF ScaleAks, PoolIInv, FreshOK
  <2>2. QED
    BY <1>1, <1>4, <2>1 DEF ScaleAks, Put, AzureBody, Pool, RolesOK
<1>5. CASE ScaleGke(h)
  BY <1>1, <1>5 DEF ScaleGke, Pool, RolesOK
<1>6. QED
  BY <1>2, <1>3, <1>4, <1>5 DEF PoolStep, PoolStart, ReadAsg, ReadEks, ReadTags,
     ReadAks, ReadGke, ReadSize,
     PoolFail

LEMMA InvocationGuardStep == ASSUME GuardInv, NEW h \in Handlers, PoolStep(h) PROVE GuardInv'
<1>1. /\ PoolIInv' /\ PoolLocalsOK(h) /\ UNCHANGED <<cloud, setting, own, only>>
  BY InvocationSteps DEF GuardInv
<1>2. ASSUME NEW g \in Handlers, g # h PROVE Held(g)'
  <2>1. pc'[g] = pc[g] /\ req'[g] = req[g] /\ seen'[g] = seen[g] /\ Held(g)
    BY <1>1, <1>2 DEF PoolLocalsOK, GuardInv
  <2>2. PoolGuards(seen[g], req[g]) => PoolGuards(seen[g], req[g])'
    BY <1>1, <2>1, SameCap DEF PoolGuards, AwsPoolGuards, AzurePoolGuards, GcpPoolGuards
  <2>3. QED
    BY <1>1, <2>1, <2>2, PoolKept DEF Held
<1>3. RolesOK'
  BY <1>1, PoolKept DEF GuardInv, RolesOK
<1>4. QED
  BY <1>1, <1>2, <1>3, OwnHeld DEF GuardInv

LEMMA OthersGuardStep ==
    ASSUME GuardInv, PoolOthers, Clouds \ {"azure"} \subseteq Quiet
    PROVE  GuardInv'
<1>1. /\ PoolIInv' /\ pool \in Pool /\ cloud \in Clouds
      /\ UNCHANGED <<cloud, setting, pc, req, seen>>
  BY PoolOthersStep DEF GuardInv, PoolIInv, PoolTypeOK, PoolOthers, Reconfigure, SetLimits,
     Resize, OtherPool,
     PoolSettle, PoolChange, poolInvocations
<1>2. RolesOK'
  <2>1. CASE SetLimits
    <3>1. PICK min \in 0 .. pool.size[Home] + 1, max \in 0 .. pool.size[Home] + 1 :
            /\ pool' = [pool EXCEPT !.min = min, !.max = max]
            /\ own' = [min |-> min, max |-> max]
      BY <2>1 DEF SetLimits
    <3>2. min \in Int /\ max \in Int
      OBVIOUS
    <3>3. QED
      BY <1>1, <2>1, <3>1, <3>2 DEF GuardInv, RolesOK, SetLimits, Pool
  <2>2. CASE Reconfigure
    BY <1>1, <2>2 DEF GuardInv, RolesOK, Reconfigure, Pool
  <2>3. CASE Resize
    BY <1>1, <2>3 DEF GuardInv, RolesOK, Resize, Pool
  <2>4. CASE OtherPool \/ PoolSettle
    BY <1>1, <2>4 DEF GuardInv, RolesOK, OtherPool, PoolSettle, Pool
  <2>5. QED
    BY <2>1, <2>2, <2>3, <2>4 DEF PoolOthers
<1>3. ASSUME NEW h \in Handlers PROVE Held(h)'
  <2>1. PoolGuards(seen[h], req[h]) => PoolGuards(seen[h], req[h])'
    BY <1>1, SameCap DEF PoolGuards, AwsPoolGuards, AzurePoolGuards, GcpPoolGuards
  <2>2. CASE MayChange
    BY <1>1, <2>1, <2>2 DEF MayChange, GuardInv, Held, Holding
  <2>3. CASE Resize \/ PoolSettle
    BY <1>1, <2>1, <2>3 DEF Resize, PoolSettle, GuardInv, Held, Pool
  <2>4. QED
    BY <2>2, <2>3 DEF PoolOthers, Reconfigure, SetLimits, OtherPool
<1>4. QED
  BY <1>1, <1>2, <1>3 DEF GuardInv

LEMMA GuardInvariant ==
    ASSUME Clouds \ {"azure"} \subseteq Quiet PROVE PoolSpec => []GuardInv
<1>1. ASSUME PoolInit PROVE GuardInv
  <2>1. \A h \in Handlers : pc[h] = "idle"
    BY <1>1 DEF PoolInit
  <2>2. RolesOK
    BY <1>1 DEF PoolInit, RolesOK
  <2>3. QED
    BY <1>1, <2>1, <2>2, InitInv DEF GuardInv, Held, Holding
<1>2. ASSUME GuardInv, [PoolNext]_poolVars PROVE GuardInv'
  <2>1. ASSUME UNCHANGED poolVars PROVE GuardInv'
    <3>1. PoolIInv'
      BY <1>2, <2>1, PoolStepKeeps DEF GuardInv
    <3>2. MaxCount' = MaxCount
      BY <2>1, SameCap DEF poolVars
    <3>3. ASSUME NEW h \in Handlers, PoolGuards(seen[h], req[h]) PROVE PoolGuards(seen[h], req[h])'
      BY <2>1, <3>2, <3>3 DEF poolVars, PoolGuards, AwsPoolGuards, AzurePoolGuards, GcpPoolGuards
    <3>4. \A h \in Handlers : Held(h)'
      BY <1>2, <2>1, <3>3 DEF poolVars, GuardInv, Held
    <3>5. RolesOK'
      BY <1>2, <2>1 DEF poolVars, GuardInv, RolesOK
    <3>6. QED
      BY <3>1, <3>4, <3>5 DEF GuardInv
  <2>2. QED
    BY <1>2, <2>1, InvocationGuardStep, OthersGuardStep DEF PoolNext
<1>3. QED
  BY <1>1, <1>2, PTL DEF PoolSpec

-------------------------------------------------------------------------------
LEMMA OneZone == Cardinality({Home}) = 1
BY FS_Singleton

\* A pool is written by the invocation itself, in its last step.
LEMMA Writing ==
    ASSUME PoolIInv, [PoolNext]_poolVars, NEW h \in Handlers, Scales(h)
    PROVE  PoolStep(h) /\ (ScaleEks(h) \/ ScaleAsg(h) \/ ScaleAks(h) \/ ScaleGke(h))
<1>1. ASSUME NEW g \in Handlers, g # h, PoolStep(g) PROVE pc'[h] = pc[h]
  BY <1>1, InvocationSteps DEF PoolLocalsOK
<1>2. ASSUME PoolOthers \/ UNCHANGED poolVars PROVE pc' = pc
  BY <1>2 DEF PoolOthers, Reconfigure, SetLimits, Resize, OtherPool, PoolSettle,
     PoolChange, poolInvocations, poolVars
<1>3. PoolStep(h)
  BY <1>1, <1>2 DEF PoolNext, Scales
<1>4. QED
  BY <1>3 DEF Scales, PoolStep, PoolStart, ReadAsg, ReadEks, ReadTags, ReadAks,
     ReadGke, ReadSize, PoolFail,
     Ended

\* A resize takes nothing back that others set since the pool was read: on Azure
\* whatever happens meanwhile, elsewhere if nobody moves limits or the autoscaler
\* while an invocation runs.
THEOREM NothingTakenBack ==
    ASSUME Clouds \ {"azure"} \subseteq Quiet PROVE PoolSpec => OthersKept
<1> DEFINE Kept == \A h \in Handlers : Scales(h) =>
        /\ pool'.min <= own.min /\ own.max <= pool'.max
        /\ <<pool'.auto, pool'.system>> = <<pool.auto, pool.system>>
<1>1. ASSUME GuardInv, [PoolNext]_poolVars PROVE [Kept]_poolVars
  BY <1>1, Writing, PoolKept DEF GuardInv
<1>2. QED
  BY <1>1, GuardInvariant, PTL DEF PoolSpec, OthersKept

\* The guards hold when a pool is written, and not only when it was read, under the
\* same assumption: no autoscaler scales it, EKS stays in charge of its groups, and
\* all zones together get what the installation and the pool's role allow.
THEOREM GuardsStillHold ==
    ASSUME Clouds \ {"azure"} \subseteq Quiet PROVE PoolSpec => GuardsHold
<1> DEFINE Allowed == \A h \in Handlers : Scales(h) =>
        /\ ~pool.auto /\ (req[h].via = "asg" => ~pool.managed)
        /\ \A y, z \in PoolZones :
            /\ pool'.size[y] = pool'.size[z]
            /\ pool'.size[z] * Cardinality(PoolZones) <= MaxCount
        /\ pool.system \/ only => \A z \in PoolZones : pool'.size[z] >= 1
<1>1. ASSUME GuardInv, [PoolNext]_poolVars PROVE [Allowed]_poolVars
  <2>1. ASSUME NEW h \in Handlers, Scales(h)
        PROVE  /\ ~pool.auto /\ (req[h].via = "asg" => ~pool.managed)
               /\ \A y, z \in PoolZones :
                   /\ pool'.size[y] = pool'.size[z]
                   /\ pool'.size[z] * Cardinality(PoolZones) <= MaxCount
               /\ pool.system \/ only => \A z \in PoolZones : pool'.size[z] >= 1
    <3>1. ScaleEks(h) \/ ScaleAsg(h) \/ ScaleAks(h) \/ ScaleGke(h)
      BY <1>1, <2>1, Writing DEF GuardInv
    <3>2. /\ PoolGuards(seen[h], req[h]) /\ seen[h] \in Pool /\ pool \in Pool
          /\ req[h] \in Request /\ req[h].count \in Nat /\ pc[h] = "scale"
          /\ PoolIInv /\ RolesOK /\ Held(h)
      BY <1>1, <2>1, CountsAssumption DEF Scales, GuardInv, PoolIInv, PoolTypeOK, HandlerOK,
         Held, Holding,
         PoolSteps, Request
    <3>3. CASE ScaleEks(h) \/ ScaleAsg(h)
      <4>1. cloud = "aws"
        BY <3>2, <3>3 DEF ScaleEks, ScaleAsg, Request
      <4>2. PoolZones = {Home} /\ Cardinality(PoolZones) = 1
        BY <4>1, OneZone DEF PoolZones
      <4>3. pool'.size = [z \in PoolZones |-> req[h].count]
        BY <3>2, <3>3 DEF ScaleEks, ScaleAsg, Scaled, Pool
      <4>4. AwsPoolGuards(seen[h], req[h])
        BY <3>2, <4>1 DEF PoolGuards
      <4>5. ~pool.auto /\ (req[h].via = "asg" => ~pool.managed) /\ ~pool.system /\ ~only
        BY <3>2, <4>1, <4>4 DEF AwsPoolGuards, Held, Holding, RolesOK
      <4>6. req[h].count * 1 <= MaxCount
        BY <3>2, <4>4 DEF AwsPoolGuards
      <4>7. QED
        BY <4>2, <4>3, <4>5, <4>6
    <3>4. CASE ScaleAks(h)
      <4>1. cloud = "azure" /\ seen[h] = pool
        BY <3>2, <3>4 DEF ScaleAks, Put, PoolIInv, FreshOK
      <4>2. PoolZones = {Home} /\ Cardinality(PoolZones) = 1
        BY <4>1, OneZone DEF PoolZones
      <4>3. pool'.size[Home] = req[h].count
        BY <3>2, <3>4, <4>1, <4>2 DEF ScaleAks, Put, AzureBody, Pool
      <4>4. AzurePoolGuards(pool, req[h])
        BY <3>2, <4>1 DEF PoolGuards
      <4>5. ~pool.auto /\ req[h].via # "asg" /\ ~only
        BY <3>2, <4>1, <4>4 DEF AzurePoolGuards, RolesOK, Request
      <4>6. req[h].count * 1 <= MaxCount /\ (pool.system => req[h].count >= 1)
        BY <3>2, <4>4 DEF AzurePoolGuards
      <4>7. QED
        BY <4>2, <4>3, <4>5, <4>6
    <3>5. CASE ScaleGke(h)
      <4>1. cloud = "gcp" /\ PoolZones = Zones
        BY <3>5 DEF ScaleGke, PoolZones
      <4>2. pool'.size = [z \in Zones |-> req[h].count]
        BY <3>2, <3>5 DEF ScaleGke, Pool
      <4>3. GcpPoolGuards(seen[h], req[h])
        BY <3>2, <4>1 DEF PoolGuards
      <4>4. ~pool.auto /\ req[h].via # "asg" /\ ~pool.system /\ seen[h].system = only
        BY <3>2, <4>1, <4>3 DEF GcpPoolGuards, Held, Holding, RolesOK, Request
      <4>5. req[h].count * Cardinality(Zones) <= MaxCount /\ (only => req[h].count >= 1)
        BY <4>3, <4>4 DEF GcpPoolGuards
      <4>6. QED
        BY <4>1, <4>2, <4>4, <4>5
    <3>6. QED
      BY <3>1, <3>3, <3>4, <3>5
  <2>2. QED
    BY <2>1
<1>2. QED
  BY <1>1, GuardInvariant, PTL DEF PoolSpec, GuardsHold
===============================================================================
