--------------------------- MODULE ProxmoxProvider ---------------------------
(***************************************************************************)
(* The Proxmox backend of provider.Provider: Create, Delete and Get as     *)
(* sequences of calls to the Proxmox VE API, together with the hypervisor  *)
(* they act on.  A call that starts a PVE task returns at once; the task   *)
(* ends later and the caller polls for it (Task.WaitFor) for a bounded     *)
(* time.  The caller sees an operation through the variable call: it sets  *)
(* call to a start value (BeginCreate, BeginDelete, BeginGet) and reads    *)
(* the outcome when call.pc = "returned".                                  *)
(***************************************************************************)
EXTENDS Surroundings

CONSTANTS Target,     \* spec.nodes[0], the node every clone is placed on
          NoName,     \* no VM name
          Foreign     \* the name of any VM the operator did not create

ASSUME ProviderAssumption ==
    /\ Target \in Hosts
    /\ NoName \notin Claims
    /\ Foreign \notin Claims \cup {NoName}

VARIABLES vms,     \* the hypervisor: VMID -> [st, name, host]
          call     \* the provider operation in progress

providerVars == <<vms, call, faults>>

-----------------------------------------------------------------------------
(* The hypervisor *)

TaskStates == {"cloning", "configuring", "starting", "stopping", "deleting"}

VMStates == TaskStates \cup
            {"none", "cloned", "configured", "seeded", "running", "stopped"}

VMs == [st: VMStates, name: Claims \cup {NoName, Foreign}, host: Hosts]

NoVM == [st |-> "none", name |-> NoName, host |-> Target]

Free(i) == vms[i].st = "none"

\* The VM that the API finds under /nodes/<node>/qemu/<vmid>: there is none if the
\* node has left the cluster, and none if the VM is not on it.  Delete and Get ask for
\* the node and then for the VM, and take both kinds of "not found" alike.
Found(p) == ~Free(p.vmid) /\ vms[p.vmid].host = p.node

\* The state a VM is in once the task that occupies it has succeeded ...
Completed(st) ==
    CASE st = "cloning"     -> "cloned"
      [] st = "configuring" -> "configured"
      [] st = "starting"    -> "running"
      [] OTHER              -> "stopped"

\* ... and once it has failed.
Aborted(st) ==
    CASE st = "configuring" -> "cloned"
      [] st = "stopping"    -> "running"
      [] OTHER              -> "stopped"

TaskDone(i) ==
    /\ vms[i].st \in TaskStates
    /\ IF vms[i].st = "deleting"
       THEN vms' = [vms EXCEPT ![i] = NoVM]
       ELSE vms' = [vms EXCEPT ![i].st = Completed(@)]
    /\ UNCHANGED <<call, faults>>

TaskFailed(i) ==
    /\ vms[i].st \in TaskStates
    /\ Fault("task")
    /\ IF vms[i].st = "cloning"
       THEN vms' = [vms EXCEPT ![i] = NoVM]
       ELSE vms' = [vms EXCEPT ![i].st = Aborted(@)]
    /\ UNCHANGED call

\* Somebody else creates a VM on the same cluster.
ForeignCreate(i) ==
    /\ Free(i)
    /\ Fault("foreign")
    /\ vms' = [vms EXCEPT ![i] = [NoVM EXCEPT !.st = "stopped", !.name = Foreign]]
    /\ UNCHANGED call

\* An administrator destroys a VM behind the operator's back.
AdminRemove(i) ==
    /\ ~Free(i)
    /\ Fault("adminremove")
    /\ vms' = [vms EXCEPT ![i] = NoVM]
    /\ UNCHANGED call

\* An administrator takes a node out of the cluster, with the VMs on it.  The VMIDs of
\* these VMs are free, and a node of the same name may be added later on.
RemoveHost(h) ==
    /\ \E i \in VMIDs : ~Free(i) /\ vms[i].host = h
    /\ Fault("adminremove")
    /\ vms' = [i \in VMIDs |-> IF vms[i].host = h THEN NoVM ELSE vms[i]]
    /\ UNCHANGED call

\* Proxmox HA or an administrator moves a VM to another node.
Migrate(i, h) ==
    /\ vms[i].st \notin TaskStates \cup {"none"}
    /\ vms[i].host # h
    /\ Fault("migrate")
    /\ vms' = [vms EXCEPT ![i].host = h]
    /\ UNCHANGED call

Hypervisor ==
    \/ \E i \in VMIDs :
        \/ TaskDone(i)
        \/ TaskFailed(i)
        \/ ForeignCreate(i)
        \/ AdminRemove(i)
        \/ \E h \in Hosts : Migrate(i, h)
    \/ \E h \in Hosts : RemoveHost(h)

-----------------------------------------------------------------------------
(* Calls *)

CreatePC == {"nextid", "clone", "waitclone", "lookup", "configure",
             "waitconfigure", "cloudinit", "start", "waitstart"}
DeletePC == {"find", "stop", "waitstop", "destroy", "waitdestroy"}
CallPC   == CreatePC \cup DeletePC \cup {"idle", "get", "returned"}

Calls == [pc: CallPC, name: Claims \cup {NoName}, pid: PIDs \cup {NoPID},
          inst: BOOLEAN, err: BOOLEAN]

NoCall == [pc |-> "idle", name |-> NoName, pid |-> NoPID,
           inst |-> FALSE, err |-> FALSE]

BeginCreate(n) == call' = [NoCall EXCEPT !.pc = "nextid", !.name = n]
BeginDelete(p) == call' = [NoCall EXCEPT !.pc = "find", !.pid = p]
BeginGet(p)    == call' = [NoCall EXCEPT !.pc = "get", !.pid = p]

Goto(pc) == call' = [call EXCEPT !.pc = pc]

\* The operation returns providerID p, with or without an error.
Return(p, err) == call' = [call EXCEPT !.pc = "returned", !.pid = p, !.err = err]

\* A PVE call that fails with no effect makes the operation return p and the error.
Fails(pc, p) ==
    /\ call.pc = pc
    /\ Fault("pve")
    /\ Return(p, TRUE)
    /\ UNCHANGED vms

\* Task.WaitFor: succeeds once the task is over (however it ended), or gives up.
Await(pc, st, next) ==
    /\ call.pc = pc
    /\ vms[call.pid.vmid].st # st
    /\ Goto(next)
    /\ UNCHANGED <<vms, faults>>

\* A call on the VM that call.pid names: it moves the VM from a state of from
\* to state st, and fails when there is no such VM to act on.
Act(pc, from, st, next) ==
    /\ call.pc = pc
    /\ UNCHANGED faults
    /\ \/ /\ Found(call.pid) /\ vms[call.pid.vmid].st \in from
          /\ vms' = [vms EXCEPT ![call.pid.vmid].st = st]
          /\ Goto(next)
       \/ /\ ~(Found(call.pid) /\ vms[call.pid.vmid].st \in from)
          /\ Return(call.pid, TRUE)
          /\ UNCHANGED vms

-----------------------------------------------------------------------------
(* Create *)

\* cluster.NextID answers some VMID that is free now; it reserves nothing.
NextID ==
    /\ call.pc = "nextid"
    /\ \/ \E i \in VMIDs :
            /\ Free(i)
            /\ call' = [call EXCEPT !.pc = "clone",
                                    !.pid = [node |-> Target, vmid |-> i]]
       \/ (\A i \in VMIDs : ~Free(i)) /\ Return(NoPID, TRUE)
    /\ UNCHANGED <<vms, faults>>

\* The clone occupies its VMID from the moment PVE accepts the request.
StartClone ==
    vms' = [vms EXCEPT ![call.pid.vmid] =
                [st |-> "cloning", name |-> call.name, host |-> Target]]

\* Mutant of Clone: the providerID is returned although the clone was refused.
CloneKeepsPID ==
    /\ call.pc = "clone"
    /\ \/ /\ Free(call.pid.vmid)
          /\ StartClone
          /\ Goto("waitclone")
       \/ /\ ~Free(call.pid.vmid)
          /\ Return(call.pid, TRUE)
          /\ UNCHANGED vms
    /\ UNCHANGED faults

Clone ==
    /\ call.pc = "clone"
    /\ \/ /\ Free(call.pid.vmid)
          /\ StartClone
          /\ Goto("waitclone")
       \/ /\ ~Free(call.pid.vmid)
          /\ Return(NoPID, TRUE)
          /\ UNCHANGED vms
    /\ UNCHANGED faults

\* PVE accepts the request but the reply is lost.
CloneReplyLost ==
    /\ call.pc = "clone"
    /\ Free(call.pid.vmid)
    /\ Fault("pve")
    /\ StartClone
    /\ Return(NoPID, TRUE)

\* An error up to and including the wait for the clone returns no providerID.
CloneFails == \E pc \in {"nextid", "clone", "waitclone"} : Fails(pc, NoPID)

Lookup ==
    /\ call.pc = "lookup"
    /\ IF Found(call.pid) THEN Goto("configure") ELSE Return(call.pid, TRUE)
    /\ UNCHANGED <<vms, faults>>

\* A request that sets no size and a spec without tags leave nothing to configure.
ConfigureNothing ==
    /\ call.pc = "configure"
    /\ Goto("cloudinit")
    /\ UNCHANGED <<vms, faults>>

Offline == {"cloned", "configured", "seeded", "stopped"}

Configure ==
    \/ ConfigureNothing
    \/ Act("configure", Offline, "configuring", "waitconfigure")
    \/ Await("waitconfigure", "configuring", "cloudinit")

Create ==
    \/ NextID
    \/ Clone
    \/ CloneReplyLost
    \/ CloneFails
    \/ Await("waitclone", "cloning", "lookup")
    \/ Lookup
    \/ Configure
    \/ Act("cloudinit", Offline, "seeded", "start")
    \/ Act("start", Offline, "starting", "waitstart")
    \/ /\ call.pc = "waitstart"
       /\ vms[call.pid.vmid].st # "starting"
       /\ Return(call.pid, FALSE)
       /\ UNCHANGED <<vms, faults>>
    \/ \E pc \in {"lookup", "configure", "waitconfigure", "cloudinit",
                  "start", "waitstart"} : Fails(pc, call.pid)

-----------------------------------------------------------------------------
(* Delete and Get *)

\* A VM that is not found, or whose node is not, counts as deleted.  vm.Status is read here and used later.
Find ==
    /\ call.pc = "find"
    /\ \/ ~Found(call.pid) /\ Return(call.pid, FALSE)
       \/ Found(call.pid) /\ Goto(IF vms[call.pid.vmid].st = "running"
                                  THEN "stop" ELSE "destroy")
    /\ UNCHANGED <<vms, faults>>

Delete ==
    \/ Find
    \/ Act("stop", {"running"} \cup Offline, "stopping", "waitstop")
    \/ Await("waitstop", "stopping", "destroy")
    \/ Act("destroy", Offline, "deleting", "waitdestroy")
    \/ /\ call.pc = "waitdestroy"
       /\ vms[call.pid.vmid].st # "deleting"
       /\ Return(call.pid, FALSE)
       /\ UNCHANGED <<vms, faults>>
    \/ \E pc \in DeletePC : Fails(pc, call.pid)

Get ==
    \/ /\ call.pc = "get"
       /\ call' = [call EXCEPT !.pc = "returned", !.inst = Found(call.pid)]
       /\ UNCHANGED <<vms, faults>>
    \/ Fails("get", call.pid)

Provider == Create \/ Delete \/ Get

ProviderInit ==
    /\ vms = [i \in VMIDs |-> NoVM]
    /\ call = NoCall
    /\ faults = 0

ProviderTypeOK ==
    /\ vms \in [VMIDs -> VMs]
    /\ call \in Calls
    /\ faults \in 0..MaxFaults
    /\ call.pc \in (CreatePC \ {"nextid"}) \cup DeletePC \cup {"get"} =>
            call.pid \in PIDs
    /\ call.pc \in CreatePC => call.name \in Claims
=============================================================================
