----------------------- MODULE ClaimControllerProofs -------------------------
(***************************************************************************)
(* Safety of the claim controller for every set of claims and VMIDs, every *)
(* cache lag and every number and kind of faults.                          *)
(***************************************************************************)
EXTENDS ClaimController, ClaimStoreProofs, TLAPS

-----------------------------------------------------------------------------
(* Types *)

\* What may become of a VM in a step of the hypervisor: it keeps its name, it goes, or
\* it is a VM of somebody else that appears where there was none; only migration moves it.
Turns(i) ==
    /\ vms'[i].host # Target => vms'[i].host = vms[i].host \/ "migrate" \in Faults
    /\ \/ vms'[i] = NoVM
       \/ vms'[i].name = Foreign /\ vms'[i].st # "none" /\ vms[i].st = "none"
       \/ vms'[i].name = vms[i].name /\ (vms'[i].st = "none" <=> vms[i].st = "none")

\* A step of the hypervisor changes VMs in this way, and no operation.
LEMMA HypervisorEffect ==
    ASSUME ProviderTypeOK, Hypervisor
    PROVE  /\ UNCHANGED call
           /\ faults' \in 0 .. MaxFaults
           /\ vms' \in [VMIDs -> VMs]
           /\ \A i \in VMIDs : Turns(i)
  <1> USE DEF ProviderTypeOK
  <1>1. NoVM \in VMs /\ NoVM.host = Target BY ProviderAssumption DEF NoVM, VMs, VMStates
  <1>2. UNCHANGED call /\ faults' \in 0 .. MaxFaults
    BY FaultType DEF Hypervisor, TaskDone, TaskFailed, ForeignCreate, AdminRemove, Migrate,
                     RemoveHost
  <1>3. ASSUME NEW j \in VMIDs, NEW v \in VMs, vms' = [vms EXCEPT ![j] = v],
               v.host # Target => v.host = vms[j].host \/ "migrate" \in Faults,
               \/ v = NoVM
               \/ v.name = Foreign /\ v.st # "none" /\ vms[j].st = "none"
               \/ v.name = vms[j].name /\ v.st # "none" /\ vms[j].st # "none"
        PROVE  vms' \in [VMIDs -> VMs] /\ \A i \in VMIDs : Turns(i)
    <2>1. vms' \in [VMIDs -> VMs] BY <1>3
    <2>2. vms'[j] = v /\ \A i \in VMIDs : i # j => vms'[i] = vms[i] BY <1>3
    <2> QED BY <1>3, <2>1, <2>2 DEF Turns
  <1>4. ASSUME NEW j \in VMIDs, NEW st \in VMStates \ {"none"}, vms[j].st # "none",
               vms' = [vms EXCEPT ![j] = [vms[j] EXCEPT !.st = st]]
        PROVE  vms' \in [VMIDs -> VMs] /\ \A i \in VMIDs : Turns(i)
    <2>1. vms[j] \in VMs OBVIOUS
    <2>2. /\ [vms[j] EXCEPT !.st = st] \in VMs
          /\ [vms[j] EXCEPT !.st = st].host = vms[j].host
          /\ [vms[j] EXCEPT !.st = st].name = vms[j].name
          /\ [vms[j] EXCEPT !.st = st].st = st
      BY <2>1 DEF VMs
    <2> QED BY <1>3, <1>4, <2>2
  <1>5. ASSUME NEW j \in VMIDs, TaskDone(j)
        PROVE  vms' \in [VMIDs -> VMs] /\ \A i \in VMIDs : Turns(i)
    <2>1. \/ vms' = [vms EXCEPT ![j] = NoVM]
          \/ vms' = [vms EXCEPT ![j] = [vms[j] EXCEPT !.st = Completed(vms[j].st)]]
      BY <1>5, Zenon DEF TaskDone
    <2>2. Completed(vms[j].st) \in VMStates \ {"none"} BY DEF Completed, VMStates
    <2>3. vms[j].st # "none" BY <1>5 DEF TaskDone, TaskStates
    <2> QED BY <1>1, <1>3, <1>4, <2>1, <2>2, <2>3
  <1>6. ASSUME NEW j \in VMIDs, TaskFailed(j)
        PROVE  vms' \in [VMIDs -> VMs] /\ \A i \in VMIDs : Turns(i)
    <2>1. \/ vms' = [vms EXCEPT ![j] = NoVM]
          \/ vms' = [vms EXCEPT ![j] = [vms[j] EXCEPT !.st = Aborted(vms[j].st)]]
      BY <1>6, Zenon DEF TaskFailed
    <2>2. Aborted(vms[j].st) \in VMStates \ {"none"} BY DEF Aborted, VMStates
    <2>3. vms[j].st # "none" BY <1>6 DEF TaskFailed, TaskStates
    <2> QED BY <1>1, <1>3, <1>4, <2>1, <2>2, <2>3
  <1>7. ASSUME NEW j \in VMIDs, ForeignCreate(j)
        PROVE  vms' \in [VMIDs -> VMs] /\ \A i \in VMIDs : Turns(i)
    <2> DEFINE v == [NoVM EXCEPT !.st = "stopped", !.name = Foreign]
    <2>1. v \in VMs /\ v.name = Foreign /\ v.st # "none" /\ v.host = Target
      BY ProviderAssumption DEF NoVM, VMs, VMStates
    <2>2. vms' = [vms EXCEPT ![j] = v] /\ vms[j].st = "none"
      BY <1>7 DEF ForeignCreate, Free
    <2> HIDE DEF v
    <2> QED BY <1>3, <2>1, <2>2
  <1>8. ASSUME NEW j \in VMIDs, AdminRemove(j)
        PROVE  vms' \in [VMIDs -> VMs] /\ \A i \in VMIDs : Turns(i)
    BY <1>1, <1>3, <1>8 DEF AdminRemove
  <1>9. ASSUME NEW j \in VMIDs, NEW h \in Hosts, Migrate(j, h)
        PROVE  vms' \in [VMIDs -> VMs] /\ \A i \in VMIDs : Turns(i)
    <2>1. vms[j] \in VMs OBVIOUS
    <2>2. /\ [vms[j] EXCEPT !.host = h] \in VMs
          /\ [vms[j] EXCEPT !.host = h].name = vms[j].name
          /\ [vms[j] EXCEPT !.host = h].st = vms[j].st
      BY <2>1 DEF VMs
    <2>3. /\ vms' = [vms EXCEPT ![j] = [vms[j] EXCEPT !.host = h]]
          /\ vms[j].st # "none" /\ "migrate" \in Faults
      BY <1>9 DEF Migrate, Fault
    <2> QED BY <1>3, <2>2, <2>3
  <1>10. ASSUME NEW h \in Hosts, RemoveHost(h)
         PROVE  vms' \in [VMIDs -> VMs] /\ \A i \in VMIDs : Turns(i)
    <2>1. vms' = [i \in VMIDs |-> IF vms[i].host = h THEN NoVM ELSE vms[i]]
      BY <1>10 DEF RemoveHost
    <2> QED BY <1>1, <2>1 DEF Turns
  <1> QED BY <1>2, <1>5, <1>6, <1>7, <1>8, <1>9, <1>10 DEF Hypervisor

\* The steps of the hypervisor keep the types of its VMs.
LEMMA HypervisorType ==
    ASSUME ProviderTypeOK, Hypervisor
    PROVE  ProviderTypeOK'
  BY HypervisorEffect DEF ProviderTypeOK

\* What one step of the provider does to the operation in progress: it stays an
\* operation of the same kind for the same VM name, or it returns.
Advances ==
    /\ call' \in Calls
    /\ call'.name = call.name
    /\ \/ call'.pid \in {call.pid, NoPID}
       \/ call.pc = "nextid" /\ call'.pc = "clone" /\ call'.pid.node = Target
    /\ call'.pc \in CreatePC => call.pc \in CreatePC /\ call'.pid \in PIDs
    /\ call'.pc \in DeletePC \cup {"get"} => call'.pid \in PIDs
    /\ call.pc \in CreatePC => /\ call'.pc \in CreatePC \cup {"returned"}
                               /\ call'.pc = "returned" /\ ~call'.err => call'.pid \in PIDs

\* Going on to another point of the same operation.
LEMMA GotoAdvances ==
    ASSUME ProviderTypeOK, call.pid \in PIDs, NEW pc, Goto(pc),
           \/ call.pc \in CreatePC /\ pc \in CreatePC
           \/ call.pc \in DeletePC /\ pc \in DeletePC
    PROVE  Advances
  BY DEF ProviderTypeOK, Goto, Advances, Calls, CallPC, CreatePC, DeletePC

\* Returning.
LEMMA ReturnAdvances ==
    ASSUME ProviderTypeOK, NEW p \in PIDs \cup {NoPID}, NEW err \in BOOLEAN,
           Return(p, err), err \/ p \in PIDs, p \in {call.pid, NoPID}
    PROVE  Advances
  BY DEF ProviderTypeOK, Return, Advances, Calls, CallPC, CreatePC, DeletePC

\* An operation past its first step names a VM.
LEMMA CallNamesVM ==
    ASSUME ProviderTypeOK, call.pc \in CallPC \ {"idle", "returned", "nextid"}
    PROVE  call.pid \in PIDs /\ call.pid.vmid \in VMIDs /\ call.pid.node \in Hosts
  BY DEF ProviderTypeOK, CallPC, PIDs

\* A step of the provider changes the name of a VM only where a clone starts, under
\* a VMID that is free.
Names ==
    /\ vms' \in [VMIDs -> VMs]
    /\ \A i \in VMIDs :
        \/ /\ vms'[i].name = vms[i].name /\ vms'[i].host = vms[i].host
           /\ vms'[i].st = "none" <=> vms[i].st = "none"
        \/ /\ call.pc = "clone" /\ i = call.pid.vmid /\ vms[i].st = "none"
           /\ vms'[i] = [st |-> "cloning", name |-> call.name, host |-> Target]

\* The steps that leave every VM alone.
LEMMA UnchangedNames ==
    ASSUME ProviderTypeOK, UNCHANGED vms
    PROVE  Names
  BY DEF ProviderTypeOK, Names

\* A PVE call that fails.
LEMMA FailsEffect ==
    ASSUME ProviderTypeOK, NEW pc \in CallPC, NEW p \in {call.pid, NoPID}, Fails(pc, p)
    PROVE  Advances /\ Names /\ faults' \in 0 .. MaxFaults
  <1>1. p \in PIDs \cup {NoPID} BY DEF ProviderTypeOK, Calls
  <1> QED BY <1>1, ReturnAdvances, UnchangedNames, FaultType DEF Fails, ProviderTypeOK

\* Waiting for a task.
LEMMA AwaitEffect ==
    ASSUME ProviderTypeOK, NEW pc, NEW st, NEW next, Await(pc, st, next),
           \/ pc \in CreatePC \ {"nextid"} /\ next \in CreatePC
           \/ pc \in DeletePC /\ next \in DeletePC
    PROVE  Advances /\ Names /\ faults' \in 0 .. MaxFaults
  <1>1. call.pc = pc /\ Goto(next) /\ UNCHANGED <<vms, faults>> BY DEF Await
  <1>2. call.pid \in PIDs
    BY <1>1, CallNamesVM DEF CallPC, CreatePC, DeletePC
  <1>3. Advances BY <1>1, <1>2, GotoAdvances
  <1> QED BY <1>1, <1>3, UnchangedNames DEF ProviderTypeOK

\* Acting on the VM of the operation.
LEMMA ActEffect ==
    ASSUME ProviderTypeOK, NEW pc, NEW from, NEW st \in VMStates \ {"none"}, NEW next,
           Act(pc, from, st, next),
           \/ pc \in CreatePC \ {"nextid"} /\ next \in CreatePC
           \/ pc \in DeletePC /\ next \in DeletePC
    PROVE  Advances /\ Names /\ faults' \in 0 .. MaxFaults
  <1>1. call.pc = pc /\ UNCHANGED faults BY DEF Act
  <1>2. call.pid \in PIDs /\ call.pid.vmid \in VMIDs
    BY <1>1, CallNamesVM DEF CallPC, CreatePC, DeletePC
  <1>3. CASE /\ Found(call.pid) /\ vms' = [vms EXCEPT ![call.pid.vmid].st = st]
             /\ Goto(next)
    <2>1. Advances BY <1>1, <1>2, <1>3, GotoAdvances
    <2>2. Names BY <1>2, <1>3 DEF ProviderTypeOK, Names, VMs, Found, Free
    <2> QED BY <1>1, <2>1, <2>2 DEF ProviderTypeOK
  <1>4. CASE Return(call.pid, TRUE) /\ UNCHANGED vms
    <2>1. Advances BY <1>2, <1>4, ReturnAdvances
    <2> QED BY <1>1, <1>4, <2>1, UnchangedNames DEF ProviderTypeOK
  <1> QED BY <1>3, <1>4 DEF Act

\* Every step of Create.
LEMMA CreateEffect ==
    ASSUME ProviderTypeOK, Create
    PROVE  Advances /\ Names /\ faults' \in 0 .. MaxFaults
  <1>1. CASE NextID
    <2>1. call.pc = "nextid" /\ UNCHANGED <<vms, faults>> BY <1>1 DEF NextID
    <2>2. CASE \E i \in VMIDs : call' = [call EXCEPT !.pc = "clone",
                                          !.pid = [node |-> Target, vmid |-> i]]
      <3>1. PICK i \in VMIDs : call' = [call EXCEPT !.pc = "clone",
                                          !.pid = [node |-> Target, vmid |-> i]]
        BY <2>2
      <3>2. [node |-> Target, vmid |-> i] \in PIDs BY ProviderAssumption DEF PIDs
      <3>3. Advances
        BY <2>1, <3>1, <3>2 DEF Advances, ProviderTypeOK, Calls, CallPC, CreatePC, DeletePC
      <3> QED BY <2>1, <3>3, UnchangedNames DEF ProviderTypeOK
    <2>3. CASE Return(NoPID, TRUE)
      BY <2>1, <2>3, ReturnAdvances, UnchangedNames DEF ProviderTypeOK
    <2> QED BY <1>1, <2>2, <2>3 DEF NextID
  <1>2. CASE Clone \/ CloneReplyLost
    <2>1. call.pc = "clone" BY <1>2 DEF Clone, CloneReplyLost
    <2>2. call.pid \in PIDs /\ call.pid.vmid \in VMIDs /\ call.name \in Claims
      BY <2>1, CallNamesVM DEF CallPC, CreatePC, ProviderTypeOK
    <2>3. faults' \in 0 .. MaxFaults
      BY <1>2, FaultType DEF Clone, CloneReplyLost, ProviderTypeOK
    <2>4. Goto("waitclone") \/ Return(NoPID, TRUE) BY <1>2 DEF Clone, CloneReplyLost
    <2>5. Advances BY <2>1, <2>2, <2>4, GotoAdvances, ReturnAdvances DEF CreatePC
    <2>6. ASSUME StartClone, Free(call.pid.vmid) PROVE Names
      <3>1. [st |-> "cloning", name |-> call.name, host |-> Target] \in VMs
        BY <2>2, ProviderAssumption DEF VMs, VMStates, TaskStates
      <3> QED BY <2>1, <2>2, <2>6, <3>1 DEF StartClone, Names, ProviderTypeOK, Free
    <2>7. Names BY <1>2, <2>6, UnchangedNames DEF Clone, CloneReplyLost
    <2> QED BY <2>3, <2>5, <2>7
  <1>3. CASE CloneFails
    BY <1>3, FailsEffect DEF CloneFails, CallPC, CreatePC
  <1>4. CASE Await("waitclone", "cloning", "lookup")
    BY <1>4, AwaitEffect DEF CreatePC
  <1>5. CASE Lookup
    <2>1. call.pc = "lookup" /\ UNCHANGED <<vms, faults>> BY <1>5 DEF Lookup
    <2>2. call.pid \in PIDs BY <2>1, CallNamesVM DEF CallPC, CreatePC
    <2>3. Goto("configure") \/ Return(call.pid, TRUE) BY <1>5 DEF Lookup
    <2>4. Advances BY <2>1, <2>2, <2>3, GotoAdvances, ReturnAdvances DEF CreatePC
    <2> QED BY <2>1, <2>4, UnchangedNames DEF ProviderTypeOK
  <1>6. CASE ConfigureNothing
    <2>1. call.pc = "configure" /\ Goto("cloudinit") /\ UNCHANGED <<vms, faults>>
      BY <1>6 DEF ConfigureNothing
    <2>2. call.pid \in PIDs BY <2>1, CallNamesVM DEF CallPC, CreatePC
    <2>3. Advances BY <2>1, <2>2, GotoAdvances DEF CreatePC
    <2> QED BY <2>1, <2>3, UnchangedNames DEF ProviderTypeOK
  <1>7. CASE Act("configure", Offline, "configuring", "waitconfigure")
    BY <1>7, ActEffect DEF CreatePC, VMStates, TaskStates
  <1>8. CASE Await("waitconfigure", "configuring", "cloudinit")
    BY <1>8, AwaitEffect DEF CreatePC
  <1>9. CASE Act("cloudinit", Offline, "seeded", "start")
    BY <1>9, ActEffect DEF CreatePC, VMStates
  <1>10. CASE Act("start", Offline, "starting", "waitstart")
    BY <1>10, ActEffect DEF CreatePC, VMStates, TaskStates
  <1>11. CASE /\ call.pc = "waitstart" /\ Return(call.pid, FALSE)
              /\ UNCHANGED <<vms, faults>>
    <2>1. call.pid \in PIDs BY <1>11, CallNamesVM DEF CallPC, CreatePC
    <2>2. Advances BY <1>11, <2>1, ReturnAdvances
    <2> QED BY <1>11, <2>2, UnchangedNames DEF ProviderTypeOK
  <1>12. ASSUME NEW pc \in {"lookup", "configure", "waitconfigure", "cloudinit",
                            "start", "waitstart"},
                Fails(pc, call.pid)
         PROVE  Advances /\ Names /\ faults' \in 0 .. MaxFaults
    BY <1>12, FailsEffect DEF CallPC, CreatePC
  <1> QED BY <1>1, <1>2, <1>3, <1>4, <1>5, <1>6, <1>7, <1>8, <1>9, <1>10, <1>11, <1>12
          DEF Create, Configure

\* Every step of Delete and of Get.
LEMMA DeleteEffect ==
    ASSUME ProviderTypeOK, Delete \/ Get
    PROVE  Advances /\ Names /\ faults' \in 0 .. MaxFaults
  <1>1. CASE Find
    <2>1. call.pc = "find" /\ UNCHANGED <<vms, faults>> BY <1>1 DEF Find
    <2>2. call.pid \in PIDs BY <2>1, CallNamesVM DEF CallPC, DeletePC
    <2>3. \/ Return(call.pid, FALSE) \/ Goto("stop") \/ Goto("destroy")
      BY <1>1 DEF Find
    <2>4. Advances BY <2>1, <2>2, <2>3, GotoAdvances, ReturnAdvances DEF DeletePC
    <2> QED BY <2>1, <2>4, UnchangedNames DEF ProviderTypeOK
  <1>2. CASE Act("stop", {"running"} \cup Offline, "stopping", "waitstop")
    BY <1>2, ActEffect DEF DeletePC, VMStates, TaskStates
  <1>3. CASE Await("waitstop", "stopping", "destroy")
    BY <1>3, AwaitEffect DEF DeletePC
  <1>4. CASE Act("destroy", Offline, "deleting", "waitdestroy")
    BY <1>4, ActEffect DEF DeletePC, VMStates, TaskStates
  <1>5. CASE /\ call.pc = "waitdestroy" /\ Return(call.pid, FALSE)
             /\ UNCHANGED <<vms, faults>>
    <2>1. call.pid \in PIDs BY <1>5, CallNamesVM DEF CallPC, DeletePC
    <2>2. Advances BY <1>5, <2>1, ReturnAdvances
    <2> QED BY <1>5, <2>2, UnchangedNames DEF ProviderTypeOK
  <1>6. ASSUME NEW pc \in DeletePC \cup {"get"}, Fails(pc, call.pid)
        PROVE  Advances /\ Names /\ faults' \in 0 .. MaxFaults
    BY <1>6, FailsEffect DEF CallPC, DeletePC
  <1>7. CASE /\ call.pc = "get"
             /\ call' = [call EXCEPT !.pc = "returned", !.inst = Found(call.pid)]
             /\ UNCHANGED <<vms, faults>>
    <2>1. Found(call.pid) \in BOOLEAN BY DEF Found
    <2>2. Advances
      BY <1>7, <2>1 DEF Advances, ProviderTypeOK, Calls, CallPC, CreatePC, DeletePC
    <2> QED BY <1>7, <2>2, UnchangedNames DEF ProviderTypeOK
  <1> QED BY <1>1, <1>2, <1>3, <1>4, <1>5, <1>6, <1>7 DEF Delete, Get

\* Every step of the provider keeps its types.
LEMMA ProviderType ==
    ASSUME ProviderTypeOK, Provider
    PROVE  Advances /\ Names /\ ProviderTypeOK'
  <1>1. Advances /\ Names /\ faults' \in 0 .. MaxFaults
    BY CreateEffect, DeleteEffect DEF Provider
  <1> QED BY <1>1 DEF Advances, Names, ProviderTypeOK

\* The three ways to start an operation, and none.
LEMMA BeginType ==
    ASSUME ProviderTypeOK, UNCHANGED vms, faults' \in 0 .. MaxFaults,
           \/ \E n \in Claims : BeginCreate(n)
           \/ \E p \in PIDs : BeginDelete(p) \/ BeginGet(p)
           \/ call' = NoCall
           \/ UNCHANGED call
    PROVE  ProviderTypeOK'
  <1> USE DEF ProviderTypeOK, NoCall, Calls, CallPC, CreatePC, DeletePC
  <1>1. ASSUME NEW n \in Claims, BeginCreate(n) PROVE ProviderTypeOK'
    BY <1>1 DEF BeginCreate
  <1>2. ASSUME NEW p \in PIDs, BeginDelete(p) PROVE ProviderTypeOK'
    BY <1>2 DEF BeginDelete
  <1>3. ASSUME NEW p \in PIDs, BeginGet(p) PROVE ProviderTypeOK'
    BY <1>3 DEF BeginGet
  <1>4. CASE call' = NoCall BY <1>4
  <1>5. CASE UNCHANGED call BY <1>5
  <1> QED BY <1>1, <1>2, <1>3, <1>4, <1>5

\* The types of everything but the provider and the store.
WorkTypeOK ==
    /\ rec \in [pc: RecPC, claim: Claims \cup {NoName}, obj: Objects, nodeReady: BOOLEAN]
    /\ rec.pc # "idle" => rec.claim \in Claims
    /\ rec.pc = "deleting" => rec.obj.pid # NoPID
    /\ queue \subseteq Claims

\* The reconcile returns.
LEMMA DoneType ==
    ASSUME TypeOK, rec.pc # "idle", NEW requeue \in BOOLEAN, Done(requeue)
    PROVE  WorkTypeOK' /\ current' \subseteq Claims
  <1>1. NoRec \in [pc: RecPC, claim: Claims \cup {NoName}, obj: Objects, nodeReady: BOOLEAN]
    BY DEF NoRec, RecPC, Unborn, Objects
  <1> QED BY <1>1 DEF TypeOK, WorkTypeOK, Done, NoRec

\* A write through the client: it may fail, and otherwise goes to the store at the
\* version the reconcile holds.
LEMMA WriteEffect ==
    ASSUME TypeOK, NEW c \in Claims, c = rec.claim, NEW o \in Objects, TryWrite(o)
    PROVE  /\ faults' \in 0 .. MaxFaults
           /\ UNCHANGED log \/ (c \in current /\ Store(c, o))
           /\ Written(o) => c \in current /\ Store(c, o)
  BY FaultType DEF TypeOK, ProviderTypeOK, TryWrite, Written, NotWritten

ClusterTypeOK ==
    /\ node \in [Claims -> {"none", "NotReady", "Ready"}]
    /\ labelled \subseteq Claims
    /\ pool \in PoolStates
    /\ config \subseteq {"provider", "secret"}

\* TypeOK, component by component, ...
LEMMA TypeParts == TypeOK <=> ProviderTypeOK /\ StoreTypeOK /\ WorkTypeOK /\ ClusterTypeOK
  BY DEF TypeOK, WorkTypeOK, ClusterTypeOK

\* ... and after a step.
LEMMA TypePartsNext ==
    ProviderTypeOK' /\ StoreTypeOK' /\ WorkTypeOK' /\ ClusterTypeOK' => TypeOK'
  BY DEF TypeOK, WorkTypeOK, ClusterTypeOK

\* The reconcile writes the claim and returns.
LEMMA WriteAndReturnType ==
    ASSUME TypeOK, rec.pc # "idle", NEW o \in Objects, TryWrite(o),
           NEW requeue \in BOOLEAN, Done(requeue),
           UNCHANGED <<vms, clusterVars>>, UNCHANGED call \/ call' = NoCall
    PROVE  TypeOK'
  <1>1. PICK c \in Claims : c = rec.claim BY DEF TypeOK
  <1>2. faults' \in 0 .. MaxFaults /\ (UNCHANGED log \/ Store(c, o)) BY <1>1, WriteEffect
  <1>3. ProviderTypeOK' BY <1>2, BeginType, TypeParts
  <1>4. StoreTypeOK'
    <2>1. current' \subseteq Claims BY DoneType
    <2> QED BY <1>2, <2>1, StoreType, TypeParts
  <1>5. WorkTypeOK' BY DoneType
  <1>6. ClusterTypeOK' BY TypeParts DEF ClusterTypeOK, clusterVars
  <1> QED BY <1>3, <1>4, <1>5, <1>6, TypePartsNext

\* The reconcile goes on without a write to the store ...
LEMMA StepType ==
    ASSUME TypeOK, rec.pc # "idle", NEW pc \in RecPC \ {"idle"}, Step(pc),
           pc = "deleting" => rec.obj.pid # NoPID,
           UNCHANGED <<log, current, queue, clusterVars>>, ProviderTypeOK'
    PROVE  TypeOK'
  <1>1. StoreTypeOK' BY TypeParts DEF StoreTypeOK
  <1>2. WorkTypeOK' BY DEF TypeOK, WorkTypeOK, Step
  <1>3. ClusterTypeOK' BY TypeParts DEF ClusterTypeOK, clusterVars
  <1> QED BY <1>1, <1>2, <1>3, TypePartsNext

\* ... or returns without one.
LEMMA ReturnType ==
    ASSUME TypeOK, rec.pc # "idle", NEW requeue \in BOOLEAN, Done(requeue),
           UNCHANGED <<log, clusterVars>>, ProviderTypeOK'
    PROVE  TypeOK'
  <1>1. StoreTypeOK' BY DoneType, TypeParts DEF StoreTypeOK
  <1>2. WorkTypeOK' BY DoneType
  <1>3. ClusterTypeOK' BY TypeParts DEF ClusterTypeOK, clusterVars
  <1> QED BY <1>1, <1>2, <1>3, TypePartsNext

\* The copies the reconcile writes are objects.
LEMMA CopyType ==
    ASSUME TypeOK
    PROVE  /\ rec.obj \in Objects
           /\ [rec.obj EXCEPT !.fin = TRUE] \in Objects
           /\ \A r \in {"ProviderResolveFailed", "CloudInitRenderFailed",
                         "NodeNotRegistered", "NodeNotReady", "NodeReady"} :
                  [rec.obj EXCEPT !.ready = r] \in Objects
           /\ \A p \in PIDs \cup {NoPID}, l \in {"CreateFailed", "Created"} :
                  [rec.obj EXCEPT !.pid = p, !.launched = l] \in Objects
  <1>1. rec.obj \in Objects BY DEF TypeOK
  <1> QED BY <1>1 DEF Objects

\* Every step of a reconcile keeps the types.
LEMMA ControllerType ==
    ASSUME TypeOK, Controller
    PROVE  TypeOK'
  <1> USE DEF At
  <1>1. CASE AddFinalizer
    <2> DEFINE o == [rec.obj EXCEPT !.fin = TRUE]
    <2>1. rec.pc = "finalizer" /\ UNCHANGED <<vms, call, clusterVars>>
      BY <1>1 DEF AddFinalizer
    <2>2. CASE rec.obj.fin /\ Step("resolve") /\ UNCHANGED <<faults, storeVars, queue>>
      <3>1. ProviderTypeOK' BY <2>1, <2>2, BeginType, TypeParts DEF ProviderTypeOK
      <3> QED BY <2>1, <2>2, <3>1, StepType DEF storeVars, RecPC
    <2>3. CASE /\ Written(o)
               /\ rec' = [rec EXCEPT !.pc = "resolve", !.obj = o]
               /\ UNCHANGED <<current, queue>>
      <3>1. PICK c \in Claims : c = rec.claim BY <2>1 DEF TypeOK
      <3>2. faults' \in 0 .. MaxFaults /\ Store(c, o)
        BY <2>3, <3>1, WriteEffect, CopyType DEF TryWrite
      <3>3. ProviderTypeOK' BY <2>1, <3>2, BeginType, TypeParts
      <3>4. StoreTypeOK' BY <2>3, <3>2, StoreType, CopyType, TypeParts DEF StoreTypeOK
      <3>5. WorkTypeOK' BY <2>1, <2>3, CopyType DEF TypeOK, WorkTypeOK, RecPC
      <3>6. ClusterTypeOK' BY <2>1, TypeParts DEF ClusterTypeOK, clusterVars
      <3> QED BY <3>3, <3>4, <3>5, <3>6, TypePartsNext
    <2>4. CASE NotWritten(o) /\ Done(TRUE)
      BY <2>1, <2>4, CopyType, WriteAndReturnType DEF TryWrite
    <2> QED BY <1>1, <2>2, <2>3, <2>4 DEF AddFinalizer
  <1>2. CASE ResolveProvider
    <2>1. rec.pc = "resolve" /\ UNCHANGED <<vms, call, clusterVars>>
      BY <1>2 DEF ResolveProvider
    <2>2. CASE Step(IF rec.obj.pid = NoPID THEN "render" ELSE "readiness")
               /\ UNCHANGED <<faults, storeVars, queue>>
      <3>1. ProviderTypeOK' BY <2>1, <2>2, BeginType, TypeParts DEF ProviderTypeOK
      <3>2. PICK pc \in {"render", "readiness"} : Step(pc) BY <2>2
      <3> QED BY <2>1, <2>2, <3>1, <3>2, StepType DEF storeVars, RecPC
    <2>3. CASE TryWrite([rec.obj EXCEPT !.ready = "ProviderResolveFailed"]) /\ Done(TRUE)
      BY <2>1, <2>3, CopyType, WriteAndReturnType
    <2> QED BY <1>2, <2>2, <2>3 DEF ResolveProvider
  <1>3. CASE RenderCloudInit
    <2>1. rec.pc = "render" /\ UNCHANGED <<vms, clusterVars>>
      BY <1>3 DEF RenderCloudInit
    <2>2. CASE /\ BeginCreate(rec.claim) /\ Step("creating")
               /\ UNCHANGED <<faults, storeVars, queue>>
      <3>1. rec.claim \in Claims BY <2>1 DEF TypeOK
      <3>2. ProviderTypeOK' BY <2>1, <2>2, <3>1, BeginType, TypeParts DEF ProviderTypeOK
      <3> QED BY <2>1, <2>2, <3>2, StepType DEF storeVars, RecPC
    <2>3. CASE TryWrite([rec.obj EXCEPT !.ready = "CloudInitRenderFailed"]) /\ Done(TRUE)
               /\ UNCHANGED call
      BY <2>1, <2>3, CopyType, WriteAndReturnType
    <2> QED BY <1>3, <2>2, <2>3 DEF RenderCloudInit
  <1>4. CASE RecordProviderID
    <2> DEFINE o == [rec.obj EXCEPT !.pid = IF @ = NoPID THEN call.pid ELSE @,
                        !.launched = IF call.err THEN "CreateFailed" ELSE "Created"]
    <2>1. /\ rec.pc = "creating" /\ TryWrite(o) /\ Done(TRUE) /\ call' = NoCall
          /\ UNCHANGED <<vms, clusterVars>>
      BY <1>4 DEF RecordProviderID
    <2>2. o \in Objects
      <3>1. call.pid \in PIDs \cup {NoPID} BY DEF TypeOK, ProviderTypeOK, Calls
      <3>2. rec.obj \in Objects BY DEF TypeOK
      <3> QED BY <3>1, <3>2 DEF Objects
    <2> HIDE DEF o
    <2> QED BY <2>1, <2>2, WriteAndReturnType
  <1>5. CASE NodeNotRegistered
    BY <1>5, CopyType, WriteAndReturnType DEF NodeNotRegistered
  <1>6. CASE LabelNode
    <2>1. rec.pc = "label" /\ UNCHANGED <<vms, call, log, node, pool, config>>
      BY <1>6 DEF LabelNode
    <2>2. rec.claim \in Claims BY <2>1 DEF TypeOK
    <2>3. labelled' \subseteq Claims
      BY <1>6, <2>2, TypeParts DEF LabelNode, ClusterTypeOK
    <2>4. ClusterTypeOK' BY <2>1, <2>3, TypeParts DEF ClusterTypeOK
    <2>5. faults' \in 0 .. MaxFaults /\ current' \subseteq Claims
      BY <1>6, FaultType DEF LabelNode, TypeOK, ProviderTypeOK, StoreTypeOK, Done
    <2>6. ProviderTypeOK' BY <2>1, <2>5, BeginType, TypeParts
    <2>7. StoreTypeOK' BY <2>1, <2>5, TypeParts DEF StoreTypeOK
    <2>8. WorkTypeOK'
      <3>1. CASE Step("condition") /\ UNCHANGED queue
        BY <2>1, <3>1 DEF TypeOK, WorkTypeOK, RecPC, Step
      <3>2. CASE Done(TRUE) BY <2>1, <3>2, DoneType
      <3> QED BY <1>6, <3>1, <3>2 DEF LabelNode
    <2> QED BY <2>4, <2>6, <2>7, <2>8, TypePartsNext
  <1>7. CASE SetReady
    <2> DEFINE r == IF rec.nodeReady THEN "NodeReady" ELSE "NodeNotReady"
    <2>1. /\ rec.pc = "condition" /\ TryWrite([rec.obj EXCEPT !.ready = r])
          /\ Done(~rec.nodeReady) \/ Done(TRUE)
          /\ UNCHANGED <<vms, call, clusterVars>>
      BY <1>7 DEF SetReady, TryWrite
    <2>2. rec.nodeReady \in BOOLEAN BY DEF TypeOK
    <2>3. [rec.obj EXCEPT !.ready = r] \in Objects BY CopyType
    <2>4. PICK requeue \in BOOLEAN : Done(requeue) BY <2>1, <2>2
    <2> HIDE DEF r
    <2> QED BY <2>1, <2>3, <2>4, WriteAndReturnType
  <1>8. CASE ReconcileDelete
    <2>1. rec.pc = "delete" /\ UNCHANGED <<vms, faults, log, clusterVars>>
      BY <1>8 DEF ReconcileDelete
    <2>2. faults' \in 0 .. MaxFaults BY <2>1 DEF TypeOK, ProviderTypeOK
    <2>3. CASE (Done(FALSE) \/ Done(TRUE)) /\ UNCHANGED call
      <3>1. ProviderTypeOK' BY <2>1, <2>2, <2>3, BeginType, TypeParts
      <3> QED BY <2>1, <2>3, <3>1, ReturnType
    <2>4. CASE Step("release") /\ UNCHANGED <<call, current, queue>>
      <3>1. ProviderTypeOK' BY <2>1, <2>2, <2>4, BeginType, TypeParts
      <3> QED BY <2>1, <2>4, <3>1, StepType DEF RecPC
    <2>5. CASE /\ rec.obj.pid # NoPID /\ BeginDelete(rec.obj.pid) /\ Step("deleting")
               /\ UNCHANGED <<current, queue>>
      <3>1. rec.obj.pid \in PIDs BY <2>5, CopyType DEF Objects
      <3>2. ProviderTypeOK' BY <2>1, <2>2, <2>5, <3>1, BeginType, TypeParts
      <3> QED BY <2>1, <2>5, <3>2, StepType DEF RecPC
    <2> QED BY <1>8, <2>3, <2>4, <2>5 DEF ReconcileDelete
  <1>9. CASE VerifyDeleted
    <2>1. rec.pc = "deleting" /\ UNCHANGED <<vms, faults, log, clusterVars>>
      BY <1>9 DEF VerifyDeleted
    <2>2. faults' \in 0 .. MaxFaults BY <2>1 DEF TypeOK, ProviderTypeOK
    <2>3. CASE Done(TRUE) /\ call' = NoCall
      <3>1. ProviderTypeOK' BY <2>1, <2>2, <2>3, BeginType, TypeParts
      <3> QED BY <2>1, <2>3, <3>1, ReturnType
    <2>4. CASE /\ BeginGet(rec.obj.pid) /\ Step("verifying")
               /\ UNCHANGED <<current, queue>>
      <3>1. rec.obj.pid \in PIDs
        <4>1. rec.obj.pid # NoPID BY <2>1 DEF TypeOK
        <4> QED BY <4>1, CopyType DEF Objects
      <3>2. ProviderTypeOK' BY <2>1, <2>2, <2>4, <3>1, BeginType, TypeParts
      <3> QED BY <2>1, <2>4, <3>2, StepType DEF RecPC
    <2> QED BY <1>9, <2>3, <2>4 DEF VerifyDeleted
  <1>10. CASE ConfirmGone
    <2>1. /\ rec.pc = "verifying" /\ UNCHANGED <<vms, faults, log, clusterVars>>
          /\ call' = NoCall
      BY <1>10 DEF ConfirmGone
    <2>2. faults' \in 0 .. MaxFaults BY <2>1 DEF TypeOK, ProviderTypeOK
    <2>3. ProviderTypeOK' BY <2>1, <2>2, BeginType, TypeParts
    <2>4. CASE Done(TRUE) BY <2>1, <2>3, <2>4, ReturnType
    <2>5. CASE Step("release") /\ UNCHANGED <<current, queue>>
      BY <2>1, <2>3, <2>5, StepType DEF RecPC
    <2> QED BY <1>10, <2>4, <2>5 DEF ConfirmGone
  <1>11. CASE RemoveFinalizer
    <2>1. rec.pc = "release" /\ UNCHANGED <<vms, call, clusterVars>>
      BY <1>11 DEF RemoveFinalizer
    <2>2. PICK held \in Held :
             LET o == [rec.obj EXCEPT !.fin = FALSE, !.phase = IF held THEN @ ELSE "gone"]
             IN  TryWrite(o) /\ (Done(FALSE) \/ Done(TRUE))
      BY <1>11 DEF RemoveFinalizer, TryWrite
    <2> DEFINE o == [rec.obj EXCEPT !.fin = FALSE, !.phase = IF held THEN @ ELSE "gone"]
    <2>3. o \in Objects
      <3>1. rec.obj \in Objects BY CopyType
      <3> QED BY <3>1 DEF Objects
    <2>4. TryWrite(o) /\ (Done(FALSE) \/ Done(TRUE)) BY <2>2
    <2> HIDE DEF o
    <2> QED BY <2>1, <2>3, <2>4, WriteAndReturnType
  <1>12. CASE ProviderStep
    <2>1. ProviderTypeOK' BY <1>12, ProviderType, TypeParts DEF ProviderStep
    <2>2. UNCHANGED <<log, current, rec, queue, node, labelled, pool, config>>
      BY <1>12 DEF ProviderStep, storeVars, workVars, clusterVars
    <2> QED BY <2>1, <2>2, TypeParts, TypePartsNext DEF StoreTypeOK, WorkTypeOK, ClusterTypeOK
  <1>13. CASE ReadNode
    <2>1. rec.pc = "readiness" /\ UNCHANGED <<vms, call, log, clusterVars>>
      BY <1>13 DEF ReadNode
    <2>2. faults' \in 0 .. MaxFaults
      BY <1>13, FaultType DEF ReadNode, TypeOK, ProviderTypeOK
    <2>3. ProviderTypeOK' BY <2>1, <2>2, BeginType, TypeParts
    <2>4. CASE Done(TRUE) BY <2>1, <2>3, <2>4, ReturnType
    <2>5. ASSUME NEW pc \in {"label", "condition"}, UNCHANGED <<current, queue>>,
                 rec' = [rec EXCEPT !.pc = pc, !.nodeReady = isNodeReady(rec.claim)]
          PROVE  TypeOK'
      <3>1. WorkTypeOK'
        BY <2>1, <2>5 DEF TypeOK, WorkTypeOK, RecPC, isNodeReady
      <3>2. StoreTypeOK' BY <2>1, <2>5, TypeParts DEF StoreTypeOK
      <3>3. ClusterTypeOK' BY <2>1, TypeParts DEF ClusterTypeOK, clusterVars
      <3> QED BY <2>3, <3>1, <3>2, <3>3, TypePartsNext
    <2> QED BY <1>13, <2>4, <2>5 DEF ReadNode
  <1> QED BY <1>1, <1>2, <1>3, <1>4, <1>5, <1>6, <1>7, <1>8, <1>9, <1>10, <1>11, <1>12,
             <1>13 DEF Controller

\* Somebody other than the claim controller writes a claim.
LEMMA OtherWriteType ==
    ASSUME TypeOK, NEW c \in Claims, NEW o \in Objects, StoreOther(c, o),
           UNCHANGED <<vms, call, rec, queue, clusterVars>>, faults' \in 0 .. MaxFaults
    PROVE  TypeOK'
  <1>1. Store(c, o) /\ current' \subseteq Claims
    BY TypeParts DEF StoreOther, StoreTypeOK
  <1>2. StoreTypeOK' BY <1>1, StoreType, TypeParts
  <1>3. ProviderTypeOK' BY BeginType, TypeParts
  <1>4. WorkTypeOK' BY TypeParts DEF WorkTypeOK
  <1>5. ClusterTypeOK' BY TypeParts DEF ClusterTypeOK, clusterVars
  <1> QED BY <1>2, <1>3, <1>4, <1>5, TypePartsNext

\* A crash keeps the types.
LEMMA CrashType ==
    ASSUME TypeOK, Crash
    PROVE  TypeOK'
  <1>1. /\ Relist /\ rec' = NoRec /\ call' = NoCall /\ queue' \subseteq Claims
        /\ UNCHANGED <<vms, clusterVars>> /\ faults' \in 0 .. MaxFaults
    BY FaultType DEF Crash, TypeOK, ProviderTypeOK
  <1>2. StoreTypeOK'
    <2>1. \A d \in Claims : <<Server(d)>> \in Seq(Objects) /\ Len(<<Server(d)>>) = 1
      BY ServerType, TypeParts
    <2>2. log' = [d \in Claims |-> <<Server(d)>>] /\ current' = {} BY <1>1 DEF Relist
    <2>3. 1 \in 1 .. (MaxLag + 1) BY StoreAssumption
    <2> QED BY <2>1, <2>2, <2>3 DEF StoreTypeOK
  <1>3. ProviderTypeOK' BY <1>1, BeginType, TypeParts
  <1>4. WorkTypeOK' BY <1>1 DEF WorkTypeOK, NoRec, RecPC, Unborn, Objects
  <1>5. ClusterTypeOK' BY <1>1, TypeParts DEF ClusterTypeOK, clusterVars
  <1> QED BY <1>2, <1>3, <1>4, <1>5, TypePartsNext

\* Every step of the work queue, the cache and the rest of the cluster keeps the
\* types.
LEMMA ClusterType ==
    ASSUME TypeOK, NEW c \in Claims,
           \/ Reconcile(c) \/ WatchEvent(c)
           \/ CreateClaim(c) \/ DeleteClaim(c) \/ HolderReleases(c) \/ Annotate(c)
    PROVE  TypeOK'
  <1>0. Server(c) \in Objects /\ Cached(c) \in Objects BY ServerType, TypeParts
  <1>1. CASE Reconcile(c)
    <2>1. UNCHANGED <<vms, call, faults, log, clusterVars>>
      BY <1>1 DEF Reconcile, providerVars
    <2>2. ProviderTypeOK' BY <2>1, BeginType, TypeParts DEF ProviderTypeOK
    <2>3. StoreTypeOK' BY <1>1, <2>1, TypeParts DEF Reconcile, StoreTypeOK
    <2>4. WorkTypeOK'
      <3>1. queue' \subseteq Claims BY <1>1, TypeParts DEF Reconcile, WorkTypeOK
      <3>2. CASE UNCHANGED rec BY <3>1, <3>2, TypeParts DEF WorkTypeOK
      <3>3. CASE \E pc \in {"delete", "finalizer"} :
                    rec' = [NoRec EXCEPT !.pc = pc, !.claim = c, !.obj = Cached(c)]
        BY <1>0, <3>1, <3>3 DEF WorkTypeOK, NoRec, RecPC
      <3> QED BY <1>1, <3>2, <3>3 DEF Reconcile
    <2>5. ClusterTypeOK' BY <2>1, TypeParts DEF ClusterTypeOK, clusterVars
    <2> QED BY <2>2, <2>3, <2>4, <2>5, TypePartsNext
  <1>2. CASE WatchEvent(c)
    <2>1. /\ Observe(c) /\ queue' = queue \cup {c}
          /\ UNCHANGED <<vms, call, faults, current, rec, clusterVars>>
      BY <1>2 DEF WatchEvent, providerVars
    <2>2. StoreTypeOK' BY <2>1, ObserveEffect, TypeParts DEF StoreTypeOK
    <2>3. ProviderTypeOK' BY <2>1, BeginType, TypeParts DEF ProviderTypeOK
    <2>4. WorkTypeOK' BY <2>1, TypeParts DEF WorkTypeOK
    <2>5. ClusterTypeOK' BY <2>1, TypeParts DEF ClusterTypeOK, clusterVars
    <2> QED BY <2>2, <2>3, <2>4, <2>5, TypePartsNext
  <1>3. CASE CreateClaim(c)
    <2>1. [Unborn EXCEPT !.phase = "live"] \in Objects BY DEF Unborn, Objects
    <2> QED BY <1>3, <2>1, OtherWriteType
            DEF CreateClaim, providerVars, workVars, TypeOK, ProviderTypeOK
  <1>4. CASE DeleteClaim(c)
    <2>1. PICK held \in Held : DeleteRequest(c, held) BY <1>4 DEF DeleteClaim
    <2>2. Deleted(Server(c), held) \in Objects BY <1>0 DEF Deleted, Objects
    <2> QED BY <1>4, <2>1, <2>2, OtherWriteType
            DEF DeleteClaim, DeleteRequest, providerVars, workVars, TypeOK, ProviderTypeOK
  <1>5. CASE HolderReleases(c)
    <2>1. [Server(c) EXCEPT !.phase = "gone"] \in Objects BY <1>0 DEF Objects
    <2> QED BY <1>5, <2>1, OtherWriteType
            DEF HolderReleases, providerVars, workVars, TypeOK, ProviderTypeOK
  <1>6. CASE Annotate(c)
    <2>1. PICK t \in Times \cup {NoTime} : StoreOther(c, [Server(c) EXCEPT !.since = t])
      BY <1>6 DEF Annotate
    <2>2. [Server(c) EXCEPT !.since = t] \in Objects BY <1>0 DEF Objects
    <2>3. UNCHANGED <<vms, call, rec, queue, clusterVars>> /\ faults' \in 0 .. MaxFaults
      BY <1>6, FaultType DEF Annotate, workVars, TypeOK, ProviderTypeOK
    <2> QED BY <2>1, <2>2, <2>3, OtherWriteType
  <1> QED BY <1>1, <1>2, <1>3, <1>4, <1>5, <1>6

\* Every step keeps the types.
LEMMA TypeStep == TypeOK /\ [Next]_vars => TypeOK'
  <1> SUFFICES ASSUME TypeOK, [Next]_vars PROVE TypeOK'
    OBVIOUS
  <1>1. CASE Controller BY <1>1, ControllerType
  <1>2. ASSUME NEW c \in Claims,
               \/ Reconcile(c) \/ WatchEvent(c)
               \/ CreateClaim(c) \/ DeleteClaim(c) \/ HolderReleases(c) \/ Annotate(c)
        PROVE  TypeOK'
    BY <1>2, ClusterType
  <1>3. CASE Crash BY <1>3, CrashType
  <1>4. ASSUME \/ \E c \in Claims : JoinNode(c) \/ KubeletReady(c) \/ KubeletLost(c)
               \/ DeletePool \/ PoolGone \/ Apply
        PROVE  TypeOK'
    <2> USE DEF JoinNode, KubeletReady, KubeletLost, DeletePool, PoolGone, Apply
    <2>1. UNCHANGED <<vms, call, faults, log, current, rec, queue>>
      BY <1>4 DEF providerVars, storeVars, workVars
    <2>2. ClusterTypeOK' BY <1>4, TypeParts DEF ClusterTypeOK, PoolStates
    <2> QED BY <2>1, <2>2, TypeParts, TypePartsNext
            DEF ProviderTypeOK, StoreTypeOK, WorkTypeOK
  <1>5. ASSUME Withdraw \/ \E c \in Claims : RemoveNode(c)
        PROVE  TypeOK'
    <2>1. /\ UNCHANGED <<vms, call, log, current, rec, queue>> /\ faults' \in 0 .. MaxFaults
          /\ ClusterTypeOK'
      BY <1>5, FaultType DEF Withdraw, RemoveNode, TypeOK, ProviderTypeOK, ClusterTypeOK,
                               storeVars, workVars
    <2> QED BY <2>1, TypeParts, TypePartsNext DEF ProviderTypeOK, StoreTypeOK, WorkTypeOK
  <1>6. CASE HypervisorStep
    <2>1. ProviderTypeOK' BY <1>6, HypervisorType, TypeParts DEF HypervisorStep
    <2>2. UNCHANGED <<log, current, rec, queue, node, labelled, pool, config>>
      BY <1>6 DEF HypervisorStep, storeVars, workVars, clusterVars
    <2> QED BY <2>1, <2>2, TypeParts, TypePartsNext DEF StoreTypeOK, WorkTypeOK, ClusterTypeOK
  <1>7. CASE UNCHANGED vars
    <2>1. UNCHANGED <<vms, call, faults, log, current, rec, queue, node, labelled, pool, config>>
      BY <1>7 DEF vars, providerVars, storeVars, workVars, clusterVars
    <2> QED BY <2>1, TypeParts, TypePartsNext
            DEF ProviderTypeOK, StoreTypeOK, WorkTypeOK, ClusterTypeOK
  <1> QED BY <1>1, <1>2, <1>3, <1>4, <1>5, <1>6, <1>7 DEF Next, Cluster

\* The initial state has the right types.
LEMMA InitType == Init => TypeOK
  <1> SUFFICES ASSUME Init PROVE TypeOK
    OBVIOUS
  <1>1. ProviderTypeOK
    BY SurroundingsAssumption, ProviderAssumption
    DEF Init, ProviderInit, ProviderTypeOK, NoVM, VMs, VMStates, NoCall, Calls, CallPC,
        CreatePC, DeletePC
  <1>2. StoreTypeOK
    <2>1. Unborn \in Objects BY DEF Unborn, Objects
    <2>2. <<Unborn>> \in Seq(Objects) /\ Len(<<Unborn>>) = 1 BY <2>1
    <2>3. 1 \in 1 .. (MaxLag + 1) BY StoreAssumption
    <2> QED BY <2>2, <2>3 DEF Init, StoreInit, StoreTypeOK
  <1>3. WorkTypeOK BY DEF Init, WorkTypeOK, NoRec, RecPC, Unborn, Objects
  <1>4. ClusterTypeOK BY DEF Init, ClusterTypeOK, PoolStates
  <1> QED BY <1>1, <1>2, <1>3, <1>4, TypeParts

\* The variables of the claim controller always have their types: in particular the
\* cache is at most MaxLag versions behind, and a call of the provider past its
\* first step has a VM to act on.
THEOREM TypeCorrect == Spec => []TypeOK
  BY InitType, TypeStep, PTL DEF Spec

=============================================================================
