--------------------------- MODULE ClaimController ---------------------------
(***************************************************************************)
(* XenonNodeClaimReconciler: one worker takes claim names from a work      *)
(* queue, reads the claim from the cache and drives it one phase further:  *)
(* add the finalizer, create the VM, wait for the Node, or tear down.      *)
(* Every read, API write and provider call is a step of its own, so the    *)
(* API server, the hypervisor, the kubelet, the garbage collector, users   *)
(* and a crash of the manager interleave with a running reconcile.         *)
(*                                                                         *)
(* rec is the reconcile in progress: rec.obj is the copy of the claim it   *)
(* works on and rec.pc the point it has reached.                           *)
(***************************************************************************)
EXTENDS ProxmoxProvider, ClaimStore

CONSTANTS StaleReads,   \* whether a reconcile may start from a lagging cache
          Cascade       \* the propagation policies of the users' delete requests

ASSUME ControllerAssumption ==
    /\ StaleReads \in BOOLEAN
    /\ Cascade \subseteq {"background", "foreground"}

VARIABLES rec,        \* the reconcile in progress
          queue,      \* claim names waiting in the work queue
          node,       \* claim -> state of the Node of that name
          labelled,   \* Nodes that carry the pool and claim labels
          pool,       \* the XenonNodePool all claims belong to
          config      \* which of the objects a claim needs exist

storeVars   == <<log, current>>
workVars    == <<rec, queue>>
clusterVars == <<node, labelled, pool, config>>
vars == <<providerVars, storeVars, workVars, clusterVars>>

RecPC == {"idle", "finalizer", "resolve", "render", "creating", "readiness",
          "label", "condition", "delete", "deleting", "verifying", "release"}

NoRec == [pc |-> "idle", claim |-> NoName, obj |-> Unborn, nodeReady |-> FALSE]

\* "removed": gone from the API server, still in the manager's cache.
PoolStates == {"active", "terminating", "removed", "gone"}

TypeOK ==
    /\ ProviderTypeOK
    /\ StoreTypeOK
    /\ rec \in [pc: RecPC, claim: Claims \cup {NoName}, obj: Objects,
                nodeReady: BOOLEAN]
    /\ rec.pc # "idle" => rec.claim \in Claims
    /\ rec.pc = "deleting" => rec.obj.pid # NoPID
    /\ queue \subseteq Claims
    /\ node \in [Claims -> {"none", "NotReady", "Ready"}]
    /\ labelled \subseteq Claims
    /\ pool \in PoolStates
    /\ config \subseteq {"provider", "secret"}

Init ==
    /\ ProviderInit
    /\ StoreInit
    /\ rec = NoRec
    /\ queue = {}
    /\ node = [c \in Claims |-> "none"]
    /\ labelled = {}
    /\ pool = "active"
    /\ config \in IF "config" \in Faults THEN SUBSET {"provider", "secret"}
                  ELSE {{"provider", "secret"}}

-----------------------------------------------------------------------------
(* Steps of a reconcile *)

At(pc) == rec.pc = pc

Step(pc) == rec' = [rec EXCEPT !.pc = pc]

\* The reconcile returns.  An error, or a Result with RequeueAfter, puts the
\* claim back into the queue.
Done(requeue) ==
    /\ rec' = NoRec
    /\ current' = {}
    /\ queue' = IF requeue THEN queue \cup {rec.claim} ELSE queue

\* Mutant of Written: an update without a resourceVersion, the last writer wins.
WrittenBlind(o) ==
    /\ Store(rec.claim, o)
    /\ UNCHANGED faults

\* r.Update and r.Status().Update of the copy: accepted at its resourceVersion,
Written(o) ==
    /\ rec.claim \in current
    /\ Store(rec.claim, o)
    /\ UNCHANGED faults

\* or an error: a conflict, a failed request, a request whose reply is lost.
NotWritten(o) ==
    \/ rec.claim \notin current /\ UNCHANGED <<log, faults>>
    \/ Fault("api") /\ UNCHANGED log
    \/ rec.claim \in current /\ Fault("api") /\ Store(rec.claim, o)

\* _ = r.Status().Update(ctx, claim)
TryWrite(o) == Written(o) \/ NotWritten(o)

Reconcile(c) ==
    /\ At("idle")
    /\ c \in queue
    /\ StaleReads \/ Fresh(c)
    /\ queue' = queue \ {c}
    /\ \/ Cached(c).phase # "live" /\ UNCHANGED <<rec, current>>
       \/ /\ Cached(c).phase = "live"
          /\ rec' = [NoRec EXCEPT !.pc = IF Cached(c).del THEN "delete" ELSE "finalizer",
                                  !.claim = c, !.obj = Cached(c)]
          /\ current' = IF Fresh(c) THEN {c} ELSE {}
    /\ UNCHANGED <<providerVars, log, clusterVars>>

\* Mutant of AddFinalizer: the error of the update is ignored.
AddFinalizerUnchecked ==
    LET o == [rec.obj EXCEPT !.fin = TRUE] IN
    /\ At("finalizer")
    /\ \/ rec.obj.fin /\ UNCHANGED <<faults, log>>
       \/ ~rec.obj.fin /\ TryWrite(o)
    /\ rec' = [rec EXCEPT !.pc = "resolve", !.obj = o]
    /\ UNCHANGED <<vms, call, current, queue, clusterVars>>

AddFinalizer ==
    LET o == [rec.obj EXCEPT !.fin = TRUE] IN
    /\ At("finalizer")
    /\ \/ rec.obj.fin /\ Step("resolve") /\ UNCHANGED <<faults, storeVars, queue>>
       \/ /\ ~rec.obj.fin
          /\ Written(o)
          /\ rec' = [rec EXCEPT !.pc = "resolve", !.obj = o]
          /\ UNCHANGED <<current, queue>>
       \/ ~rec.obj.fin /\ NotWritten(o) /\ Done(TRUE)
    /\ UNCHANGED <<vms, call, clusterVars>>

\* Mutant of Resolvable: a pool that is being deleted is refused.
ResolvableActive == pool = "active" /\ "provider" \in config

\* resolveProvider finds the pool in the cache and the ProxmoxProvider it names.
Resolvable == pool # "gone" /\ "provider" \in config

\* Mutant of ResolveProvider: the test of the recorded providerID is missing.
ResolveProviderAlwaysCreate ==
    /\ At("resolve")
    /\ \/ Resolvable /\ Step("render") /\ UNCHANGED <<faults, storeVars, queue>>
       \/ /\ ~Resolvable
          /\ TryWrite([rec.obj EXCEPT !.ready = "ProviderResolveFailed"])
          /\ Done(TRUE)
    /\ UNCHANGED <<vms, call, clusterVars>>

ResolveProvider ==
    /\ At("resolve")
    /\ \/ /\ Resolvable
          /\ Step(IF rec.obj.pid = NoPID THEN "render" ELSE "readiness")
          /\ UNCHANGED <<faults, storeVars, queue>>
       \/ /\ ~Resolvable
          /\ TryWrite([rec.obj EXCEPT !.ready = "ProviderResolveFailed"])
          /\ Done(TRUE)
    /\ UNCHANGED <<vms, call, clusterVars>>

\* renderCloudInit needs the join token, and so the Secret that holds it.
Renderable == "secret" \in config

\* reconcileCreate up to prov.Create.
RenderCloudInit ==
    /\ At("render")
    /\ \/ /\ Renderable
          /\ BeginCreate(rec.claim)
          /\ Step("creating")
          /\ UNCHANGED <<faults, storeVars, queue>>
       \/ /\ ~Renderable
          /\ TryWrite([rec.obj EXCEPT !.ready = "CloudInitRenderFailed"])
          /\ Done(TRUE)
          /\ UNCHANGED call
    /\ UNCHANGED <<vms, clusterVars>>

\* Mutant of RecordProviderID: the error of Create is ignored.
RecordProviderIDUnchecked ==
    /\ At("creating")
    /\ call.pc = "returned"
    /\ TryWrite([rec.obj EXCEPT !.pid = call.pid, !.launched = "Created"])
    /\ Done(TRUE)
    /\ call' = NoCall
    /\ UNCHANGED <<vms, clusterVars>>

\* Mutant of RecordProviderID: the providerID is recorded on an error only.
RecordProviderIDOnError ==
    /\ At("creating")
    /\ call.pc = "returned"
    /\ TryWrite([rec.obj EXCEPT
            !.pid = IF call.err THEN call.pid ELSE @,
            !.launched = IF call.err THEN "CreateFailed" ELSE "Created"])
    /\ Done(TRUE)
    /\ call' = NoCall
    /\ UNCHANGED <<vms, clusterVars>>

\* reconcileCreate after prov.Create: record the providerID, even on an error.
RecordProviderID ==
    /\ At("creating")
    /\ call.pc = "returned"
    /\ TryWrite([rec.obj EXCEPT
            !.pid = IF @ = NoPID THEN call.pid ELSE @,
            !.launched = IF call.err THEN "CreateFailed" ELSE "Created"])
    /\ Done(TRUE)
    /\ call' = NoCall
    /\ UNCHANGED <<vms, clusterVars>>

\* Mutant of NodeNotRegistered: the result asks for no requeue.
NodeNotRegisteredOnce ==
    /\ At("readiness")
    /\ node[rec.claim] = "none"
    /\ TryWrite([rec.obj EXCEPT !.ready = "NodeNotRegistered"])
    /\ Done(FALSE)
    /\ UNCHANGED <<vms, call, clusterVars>>

NodeNotRegistered ==
    /\ At("readiness")
    /\ node[rec.claim] = "none"
    /\ TryWrite([rec.obj EXCEPT !.ready = "NodeNotRegistered"])
    /\ Done(TRUE)
    /\ UNCHANGED <<vms, call, clusterVars>>

isNodeReady(c) == node[c] = "Ready"

\* The copy of the Node decides on the condition, and whether there is a label to set.
ReadNode ==
    /\ At("readiness")
    /\ \/ /\ node[rec.claim] # "none"
          /\ rec' = [rec EXCEPT !.pc = IF rec.claim \in labelled THEN "condition" ELSE "label",
                                !.nodeReady = isNodeReady(rec.claim)]
          /\ UNCHANGED <<faults, current, queue>>
       \/ Fault("api") /\ Done(TRUE)
    /\ UNCHANGED <<vms, call, log, clusterVars>>

\* The patch finds the Node gone, or fails with or without effect, or labels it.
LabelNode ==
    /\ At("label")
    /\ \/ /\ node[rec.claim] # "none"
          /\ labelled' = labelled \cup {rec.claim}
          /\ \/ Step("condition") /\ UNCHANGED <<faults, current, queue>>
             \/ Fault("api") /\ Done(TRUE)
       \/ /\ \/ node[rec.claim] = "none" /\ UNCHANGED faults
             \/ Fault("api")
          /\ Done(TRUE)
          /\ UNCHANGED labelled
    /\ UNCHANGED <<vms, call, log, node, pool, config>>

SetReady ==
    LET o == [rec.obj EXCEPT
                !.ready = IF rec.nodeReady THEN "NodeReady" ELSE "NodeNotReady"] IN
    /\ At("condition")
    /\ \/ Written(o) /\ Done(~rec.nodeReady)
       \/ NotWritten(o) /\ Done(TRUE)
    /\ UNCHANGED <<vms, call, clusterVars>>

\* Mutant of ReconcileDelete: the early return for an empty providerID is missing.
ReconcileDeleteAlways ==
    /\ At("delete")
    /\ \/ ~(rec.obj.fin /\ Resolvable) /\ Done(rec.obj.fin) /\ UNCHANGED call
       \/ /\ rec.obj.fin /\ Resolvable
          /\ BeginDelete(rec.obj.pid)
          /\ Step("deleting")
          /\ UNCHANGED <<current, queue>>
    /\ UNCHANGED <<vms, faults, log, clusterVars>>

\* reconcileDelete up to prov.Delete.
ReconcileDelete ==
    /\ At("delete")
    /\ \/ ~rec.obj.fin /\ Done(FALSE) /\ UNCHANGED call
       \/ /\ rec.obj.fin /\ rec.obj.pid = NoPID
          /\ Step("release")
          /\ UNCHANGED <<call, current, queue>>
       \/ /\ rec.obj.fin /\ rec.obj.pid # NoPID /\ ~Resolvable
          /\ Done(TRUE)
          /\ UNCHANGED call
       \/ /\ rec.obj.fin /\ rec.obj.pid # NoPID /\ Resolvable
          /\ BeginDelete(rec.obj.pid)
          /\ Step("deleting")
          /\ UNCHANGED <<current, queue>>
    /\ UNCHANGED <<vms, faults, log, clusterVars>>

\* Mutant of VerifyDeleted: the finalizer is released without asking Get.
VerifyDeletedSkipped ==
    /\ At("deleting")
    /\ call.pc = "returned"
    /\ call' = NoCall
    /\ \/ call.err /\ Done(TRUE)
       \/ ~call.err /\ Step("release") /\ UNCHANGED <<current, queue>>
    /\ UNCHANGED <<vms, faults, log, clusterVars>>

\* Mutant of VerifyDeleted: an error of Delete is swallowed, so nothing is retried.
VerifyDeletedGivesUp ==
    /\ At("deleting")
    /\ call.pc = "returned"
    /\ \/ call.err /\ Done(FALSE) /\ call' = NoCall
       \/ /\ ~call.err
          /\ BeginGet(rec.obj.pid)
          /\ Step("verifying")
          /\ UNCHANGED <<current, queue>>
    /\ UNCHANGED <<vms, faults, log, clusterVars>>

\* prov.Get after prov.Delete, so that the finalizer outlives the VM.
VerifyDeleted ==
    /\ At("deleting")
    /\ call.pc = "returned"
    /\ \/ call.err /\ Done(TRUE) /\ call' = NoCall
       \/ /\ ~call.err
          /\ BeginGet(rec.obj.pid)
          /\ Step("verifying")
          /\ UNCHANGED <<current, queue>>
    /\ UNCHANGED <<vms, faults, log, clusterVars>>

\* Mutant of ConfirmGone: the nil test of the instance is inverted.
ConfirmGoneInverted ==
    /\ At("verifying")
    /\ call.pc = "returned"
    /\ call' = NoCall
    /\ \/ (call.err \/ ~call.inst) /\ Done(TRUE)
       \/ ~call.err /\ call.inst /\ Step("release") /\ UNCHANGED <<current, queue>>
    /\ UNCHANGED <<vms, faults, log, clusterVars>>

ConfirmGone ==
    /\ At("verifying")
    /\ call.pc = "returned"
    /\ call' = NoCall
    /\ \/ (call.err \/ call.inst) /\ Done(TRUE)
       \/ ~call.err /\ ~call.inst /\ Step("release") /\ UNCHANGED <<current, queue>>
    /\ UNCHANGED <<vms, faults, log, clusterVars>>

\* Foreground deletion puts a finalizer of the garbage collector on the object.
Held == IF "foreground" \in Cascade THEN BOOLEAN ELSE {FALSE}

\* Without its last finalizer the object, which is marked deleted, disappears.
RemoveFinalizer ==
    /\ At("release")
    /\ \E held \in Held :
        LET o == [rec.obj EXCEPT !.fin = FALSE, !.phase = IF held THEN @ ELSE "gone"] IN
        \/ Written(o) /\ Done(FALSE)
        \/ NotWritten(o) /\ Done(TRUE)
    /\ UNCHANGED <<vms, call, clusterVars>>

ProviderStep ==
    /\ Provider
    /\ UNCHANGED <<storeVars, workVars, clusterVars>>

Controller ==
    \/ AddFinalizer
    \/ ResolveProvider
    \/ RenderCloudInit
    \/ RecordProviderID
    \/ NodeNotRegistered
    \/ ReadNode
    \/ LabelNode
    \/ SetReady
    \/ ReconcileDelete
    \/ VerifyDeleted
    \/ ConfirmGone
    \/ RemoveFinalizer
    \/ ProviderStep

-----------------------------------------------------------------------------
(* The manager *)

\* For(&XenonNodeClaim{}): every version the cache receives enqueues the claim.
WatchEvent(c) ==
    /\ Observe(c)
    /\ queue' = queue \cup {c}
    /\ UNCHANGED <<providerVars, current, rec, clusterVars>>

\* The process stops at any point and is started again by its Deployment.
Crash ==
    /\ Fault("crash")
    /\ Relist
    /\ rec' = NoRec
    /\ call' = NoCall
    /\ queue' = {c \in Claims : Server(c).phase = "live"}
    /\ UNCHANGED <<vms, clusterVars>>

-----------------------------------------------------------------------------
(* The rest of the cluster *)

\* The provisioner creates a claim, also when it looked at the pool before the pool
\* was deleted.
CreateClaim(c) ==
    /\ Server(c).phase = "unborn"
    /\ StoreOther(c, [Unborn EXCEPT !.phase = "live"])
    /\ UNCHANGED <<providerVars, workVars, clusterVars>>

\* The provisioner, a user, or the garbage collector deletes a claim.
DeleteClaim(c) ==
    /\ \E held \in Held : DeleteRequest(c, held)
    /\ UNCHANGED <<providerVars, workVars, clusterVars>>

\* The last finalizer of somebody else is removed.
HolderReleases(c) ==
    /\ Server(c).phase = "live" /\ Server(c).del /\ ~Server(c).fin
    /\ StoreOther(c, [Server(c) EXCEPT !.phase = "gone"])
    /\ UNCHANGED <<providerVars, workVars, clusterVars>>

\* The provisioner patches the annotation of a claim whose Node exists.
Annotate(c) ==
    /\ Server(c).phase = "live"
    /\ node[c] # "none"
    /\ Fault("annotate")
    /\ \E t \in Times \cup {NoTime} : StoreOther(c, [Server(c) EXCEPT !.since = t])
    /\ UNCHANGED <<vms, call, workVars, clusterVars>>

MachineRuns(c) == \E i \in VMIDs : vms[i].name = c /\ vms[i].st = "running"

\* The kubelet of the VM registers the Node under the VM's name ...
JoinNode(c) ==
    /\ MachineRuns(c)
    /\ node[c] = "none"
    /\ node' = [node EXCEPT ![c] = "NotReady"]
    /\ UNCHANGED <<providerVars, storeVars, workVars, labelled, pool, config>>

KubeletReady(c) ==
    /\ MachineRuns(c)
    /\ node[c] = "NotReady"
    /\ node' = [node EXCEPT ![c] = "Ready"]
    /\ UNCHANGED <<providerVars, storeVars, workVars, labelled, pool, config>>

\* ... and the Node is marked NotReady when its heartbeats stop.
KubeletLost(c) ==
    /\ ~MachineRuns(c)
    /\ node[c] = "Ready"
    /\ node' = [node EXCEPT ![c] = "NotReady"]
    /\ UNCHANGED <<providerVars, storeVars, workVars, labelled, pool, config>>

\* Somebody deletes the Node object, and its labels with it.
RemoveNode(c) ==
    /\ node[c] # "none"
    /\ Fault("node")
    /\ node' = [node EXCEPT ![c] = "none"]
    /\ labelled' = labelled \ {c}
    /\ UNCHANGED <<vms, call, storeVars, workVars, pool, config>>

\* kubectl delete xenonnodepool, with background or foreground propagation.
DeletePool ==
    /\ pool = "active"
    /\ \/ "background" \in Cascade /\ pool' = "removed"
       \/ "foreground" \in Cascade /\ pool' = "terminating"
    /\ UNCHANGED <<providerVars, storeVars, workVars, node, labelled, config>>

\* The cache drops a removed pool; a terminating pool waits for its claims.
PoolGone ==
    /\ \/ pool = "removed"
       \/ pool = "terminating" /\ \A c \in Claims : Server(c).phase # "live"
    /\ pool' = "gone"
    /\ UNCHANGED <<providerVars, storeVars, workVars, node, labelled, config>>

\* Claims are owned by the pool: the garbage collector deletes them after it.
CollectClaim(c) ==
    /\ pool # "active"
    /\ DeleteClaim(c)

\* An administrator applies the ProxmoxProvider or the Secret, or deletes one.
Apply ==
    /\ \E x \in {"provider", "secret"} \ config : config' = config \cup {x}
    /\ UNCHANGED <<providerVars, storeVars, workVars, node, labelled, pool>>

Withdraw ==
    /\ Fault("config")
    /\ \E x \in config : config' = config \ {x}
    /\ UNCHANGED <<vms, call, storeVars, workVars, node, labelled, pool>>

HypervisorStep ==
    /\ Hypervisor
    /\ UNCHANGED <<storeVars, workVars, clusterVars>>

Cluster ==
    \/ \E c \in Claims :
        \/ CreateClaim(c)
        \/ DeleteClaim(c)
        \/ HolderReleases(c)
        \/ Annotate(c)
        \/ JoinNode(c)
        \/ KubeletReady(c)
        \/ KubeletLost(c)
        \/ RemoveNode(c)
    \/ DeletePool
    \/ PoolGone
    \/ Apply
    \/ Withdraw
    \/ HypervisorStep

Next ==
    \/ Controller
    \/ \E c \in Claims : Reconcile(c) \/ WatchEvent(c)
    \/ Crash
    \/ Cluster

Spec == Init /\ [][Next]_vars

\* The worker never stops in the middle of a reconcile, the work queue serves
\* every key, the watch delivers every version, PVE tasks end, a running VM
\* joins, the garbage collector acts, and what is missing is applied in the end.
\* Nobody is obliged to create or delete anything, and faults need not happen.
Fairness ==
    /\ WF_vars(Controller)
    /\ \A c \in Claims :
        /\ SF_vars(Reconcile(c))
        /\ WF_vars(WatchEvent(c))
        /\ WF_vars(JoinNode(c))
        /\ WF_vars(KubeletReady(c))
        /\ WF_vars(CollectClaim(c))
        /\ WF_vars(HolderReleases(c))
    /\ WF_vars(PoolGone)
    /\ WF_vars(Apply)
    /\ \A i \in VMIDs :
        WF_vars(TaskDone(i) /\ UNCHANGED <<storeVars, workVars, clusterVars>>)

FairSpec == Spec /\ Fairness

-----------------------------------------------------------------------------
(* Safety *)

\* FinalizerNodeClaim "guards a XenonNodeClaim so the backing VM is deleted before
\* the object is removed from the API server" (labels.go), for the VM the claim
\* records: once the finalizer is off, the recorded VM is gone.
ReleasedAfterTeardown ==
    \A c \in Claims :
        Server(c).pid # NoPID /\ ~Server(c).fin =>
            vms[Server(c).pid.vmid].name # c

\* reconcileReadiness is reached only with a recorded providerID, and every status
\* write is conditional on the version it was computed from: a claim the
\* provisioner counts as Ready, or as Launched, names its VM and had its finalizer.
Backed(o) ==
    isClaimReady(o) \/ o.launched = "Created" => o.pid # NoPID /\ (o.fin \/ o.del)

ReadyIsBacked == \A c \in Claims : Backed(Server(c))

\* "Ensure the finalizer is present before we create anything" (Reconcile): the
\* clone of a VM for c starts only while the API server holds c with its finalizer,
\* however stale the copy is that the reconcile works on.
CreatedUnderFinalizer ==
    [][\A i \in VMIDs, c \in Claims :
            vms[i].name # c /\ vms'[i].name = c =>
                Server(c).phase = "live" /\ Server(c).fin]_vars

\* "returns its stable providerID" (provider.go) and "Provision once" (Reconcile):
\* a providerID that the API server has accepted is never replaced or erased, not
\* by a reconcile that works on a stale copy and has created another VM.
ProviderIDStable ==
    [][\A c \in Claims :
            Server(c).pid # NoPID => (Server(c).pid)' = Server(c).pid]_vars

\* "Reserve a cluster-unique VMID" (Create): NextID reserves nothing, yet a single mishap,
\* such as a VM of somebody else that takes the VMID first, never makes Create work on,
\* or report, a VM that is not its own; at worst its own VM is gone.
CreateKeepsOwn ==
    rec.pc = "creating" /\ call.pid # NoPID /\ call.pc \notin {"nextid", "clone"}
    /\ faults <= 1
    => vms[call.pid.vmid].name \in {rec.claim, NoName}

\* XenonNodeClaimReconciler "provisions exactly one backing machine": there are
\* never two VMs of the same claim.
OneMachine ==
    \A i, j \in VMIDs : vms[i].name \in Claims /\ vms[i].name = vms[j].name => i = j

\* "tears it down": the teardown of a claim stops and destroys no VM but its own.
TeardownHitsOwn ==
    /\ call.pc \in {"waitstop", "waitdestroy"}
    /\ vms[call.pid.vmid].st \in {"stopping", "deleting"}
    => vms[call.pid.vmid].name = rec.claim

\* "so a crash between create and the next reconcile can never orphan a VM"
\* (Reconcile): when a claim is gone, no VM of it is left.
NoOrphan ==
    \A c \in Claims : Server(c).phase = "gone" =>
        \A i \in VMIDs : vms[i].name # c

-----------------------------------------------------------------------------
(* Refinement *)

\* The claims whose recorded VM exists.
Standing ==
    {c \in Claims : Server(c).pid # NoPID /\ vms[Server(c).pid.vmid].name = c}

Life == INSTANCE ClaimLifecycle WITH
            claim <- [c \in Claims |-> Promise(Server(c))], machine <- Standing

\* The claim controller keeps the promise: whatever the cache lag, conflicts, lost
\* replies and crashes, the claims on the API server and the VMs they record go
\* through their lives in the order that ClaimLifecycle allows.
KeepsPromise == Life!Spec

-----------------------------------------------------------------------------
(* Liveness *)

\* A claim that is marked deleted is eventually released, whatever was created
\* for it and however often the teardown had to be repeated.
DeletionCompletes ==
    \A c \in Claims : Server(c).del ~> Server(c).phase = "gone"

\* A claim eventually becomes Ready unless it is deleted first.
BecomesReady ==
    \A c \in Claims : Server(c).phase = "live" ~>
        (isClaimReady(Server(c)) \/ Server(c).del \/ Server(c).phase = "gone")

\* No claim hangs without a sign, whatever fails on the way: it becomes Ready, is
\* deleted, says CreateFailed, or the machine it records has stopped or is lost.
NeverSilent ==
    \A c \in Claims : Server(c).phase = "live" ~>
        \/ isClaimReady(Server(c)) \/ Server(c).del \/ Server(c).phase = "gone"
        \/ Server(c).launched = "CreateFailed"
        \/ Server(c).pid # NoPID /\ ~MachineRuns(c)

\* "deleting the pool garbage-collects its claims" (createClaim).
PoolCollected ==
    \A c \in Claims :
        (pool # "active" /\ Server(c).phase = "live") ~> Server(c).phase = "gone"
=============================================================================
