# Xenonite in TLA+

Xenonite is a Kubernetes operator that grows and shrinks a cluster with virtual
machines of a Proxmox VE (PVE) cluster.  Pods that cannot be scheduled and select a
`XenonNodePool` make the *provisioner* create `XenonNodeClaim` objects; the *claim
controller* turns each claim into one VM through the *Proxmox provider*, waits for
the VM to join as a Node, and tears it down behind a finalizer when the claim is
deleted.  Nodes that stay empty for a grace period lose their claim.

This directory holds TLA+ specifications of that system, TLC configurations that
check them on small instances, and TLAPS proofs of the properties that hold for
every instance.  `PROJECT.json` maps every definition to the lines it models.

## 1. Inventory

| Component | Source | State | Operations |
|---|---|---|---|
| Claim controller | `internal/controller/xenonnodeclaim_controller.go` | none of its own: the copy of the claim a reconcile works on, the work queue; writes finalizer, `status.providerID`, conditions, Node labels | `Reconcile`, `reconcileCreate`, `reconcileReadiness`, `reconcileDelete`, `removeFinalizer`, `resolveProvider`, `renderCloudInit`, `labelNode` |
| Provisioner | `internal/controller/provisioner_controller.go` | none of its own: counts of pods and claims, a list of claims; writes claims, the annotation `xenonite.io/empty-since`, the pool's status | `Reconcile`, `scaleUp`, `createClaim`, `scaleDown`, `isClaimNodeEmpty`, `markEmptyAndCheckGrace`, `clearEmptySince`, `updateStatus`; pod predicates; the watch handlers `poolForPod`, `poolForClaim`, `poolForNode` |
| Proxmox provider | `internal/provider/proxmox/proxmox.go`, contract in `internal/provider/provider.go` | the VMs on the hypervisor | `Create`, `configure`, `Delete`, `Get`, providerID formatting and parsing |
| API objects | `api/v1/*_types.go`, `labels.go` | claims, pools, provider configuration | written through controller-runtime's client, read from its cache |
| Manager | `cmd/main.go` | the process | start-up of both controllers, leader election (off by default, switched on by the manifests and the chart), probes |
| Surroundings (external) | | API server, informer cache, kubelet, scheduler, garbage collector, PVE, administrators | |

**Interactions.**  The two controllers never call each other: the provisioner creates
and deletes claims and patches their annotation, the claim controller drives them, and
the API server is the only meeting point.  Reads come from the informer cache and may
lag; `Update` and `Status().Update` are conditional on the resourceVersion that was
read, while the provisioner's merge patches and deletes are unconditional.  The claim
controller calls the provider synchronously; the provider issues PVE calls, each of
which starts a task that outlives the call.  Owner references make the garbage
collector delete a pool's claims with the pool.

**What is hard.**  Decisions taken on a stale cache; a crash or a failed write between
a PVE call and the status update that records it; PVE tasks that fail, or replies that
are lost; VMIDs that PVE reuses; repeated teardown; deletion of pool, provider
configuration or claim at any moment; liveness that rests on requeues; the grace period,
which is stored in an annotation that several passes read and write.

**What makes each part correct.**

* Claim controller: at most one VM per claim; nothing is created without the finalizer;
  a recorded providerID is never lost; Ready means there is a recorded VM; the finalizer
  outlives the VM; deleted claims go away; claims become Ready.
* Provider: the providerID is stable, Delete is idempotent and confined to the claim's
  VM, Get tells the truth.
* Both together: a pod that asks for the pool ends up on a node backed by a VM, an idle pool
  ends without VMs, and a claim's object never promises a machine that is not there.
* Provisioner: never more claims than the limit or than pods ask for; no node is
  reclaimed before a whole idle grace period; pending pods get nodes; idle pools shrink
  to nothing.

## 2. Modules

```
Surroundings ──┬── ProxmoxProvider ──┐
               │                     ├── ClaimController ── MCClaimController (TLC)
               └── ClaimStore ───────┘        └── implements ClaimLifecycle
                       │
                       ├── Provisioner ── MCProvisioner (TLC), implements ClaimLifecycle
       PodSelection ───┘        └── GracePeriod ── MCGracePeriod (TLC)

Xenonite = ClaimController and Provisioner, instantiated on shared variables ── MCXenonite (TLC)

Proofs (TLAPS):
ClaimStoreProofs ──┬── ClaimControllerProofs ── ClaimSafetyProofs ── ClaimRefinementProofs ── ClaimCalmProofs
                   │                                                                          └── (instantiated by) XenoniteProofs
                   └── ProvisionerProofs ── GracePeriodProofs
```

* **Surroundings**: the names and the *fault budget*.  Every fault is one of the kinds
  in `Faults`, and a behaviour has at most `MaxFaults` of them.
* **ProxmoxProvider**: `vms` is the hypervisor (VMID → state, name, host), `call` the
  provider operation in progress.  Each PVE request and each `Task.WaitFor` of `Create`,
  `configure`, `Delete` and `Get` is a step, so tasks end, fail and are overtaken by
  other people's changes in between.  `Fails` is the early return with an error,
  with the providerID the code returns on that line: empty up to the wait for the clone,
  the VM's afterwards.  A VM is *found* only under the host in its providerID; "node not found" and
  "VM not found" have the same outcome in `Delete` and in `Get`.  `RemoveHost` takes a PVE node out of the
  cluster together with the VMs on it.
* **ClaimStore**: for each claim the versions from the one in the cache to the one on the
  server (`log`), and whether the copy the controller holds is the server's version
  (`current`).  External code, modelled from the way the repository uses the client.
* **ClaimController**: extends both.  `rec` is the reconcile in progress and the program
  counter `rec.pc` stops at each read, write and provider call.

  | Code | Actions |
  |---|---|
  | `Reconcile`: read, deletion branch | `Reconcile(c)` |
  | finalizer update | `AddFinalizer` |
  | `resolveProvider`, test of `status.providerID` | `ResolveProvider` |
  | `reconcileCreate` before / after `prov.Create` | `RenderCloudInit` / `RecordProviderID` |
  | `reconcileReadiness`: Node not found / found / `labelNode` / condition | `NodeNotRegistered` / `ReadNode` / `LabelNode` / `SetReady` |
  | `reconcileDelete` before `Delete` / after it / after `Get` | `ReconcileDelete` / `VerifyDeleted` / `ConfirmGone` |
  | `removeFinalizer` | `RemoveFinalizer` |

  A status write whose error the code drops is `TryWrite` (written, refused with a
  conflict, failed, or done with the reply lost); one whose error it returns
  distinguishes the cases.  `Done(TRUE)` is a return with an error or `RequeueAfter`.
  `Crash` stops the process at any step and restarts it with a fresh list.  The other
  actions are the provisioner, users, kubelet, garbage collector and administrators.
* **PodSelection**: `podRequestsPool`, which the provisioner counts pods with, and
  `requestedPoolName`, which turns a pod's event into one pool, as operators on the *shape* of
  a pod: nodeSelector, terms of the required node affinity, and whether it is workload.  `FitsPool` is
  the scheduler's reading of the same fields.  The three disagree: an affinity that lists two
  pools counts for both but wakes only the first, and a term with further expressions counts
  although no node of the pool satisfies it.
* **Provisioner**: one pool.  `prov` is the reconcile in progress with the count of pods
  and the list of claims it read; `due` says that the pool's key is in the work queue or will
  be put there by the timer, and the three watch handlers set it.  Reading and writing are separate steps:

  | Code | Actions |
  |---|---|
  | `Reconcile`: pool and pods / claims | `PendingPodsForPool` / `ClaimsForPool` |
  | `scaleUp`, `createClaim` | `CreateClaim`, `ScaledUp` |
  | `scaleDown`: what is decided about a claim | `KeepClaim` (pods pending, or `isClaimNodeEmpty` is false), `FoundEmpty`, `SkipDeleting` |
  | `clearEmptySince` / `markEmptyAndCheckGrace` / `r.Delete` | `ClearEmptySince` / `MarkEmptyAndCheckGrace` / `DeleteIdle` |
  | `updateStatus`, `RequeueAfter` | `Reconciled` |
  | error of any read | `ReadFails` |

  Ages of the annotation replace time stamps: `Tick`
  makes everything a tick older, up to `Grace`.  A pod is unschedulable, running or leaving (terminating or
  finished).  The claim's own life appears as `AdoptClaim`, `LaunchMachine`, `RegisterNode`,
  `ReportReady` and `ReleaseClaim`, together `ServeClaim`.
* **GracePeriod**: `Provisioner` with a history variable, `quiet`, that measures the idle time of a
  node without the annotation.
* **ClaimLifecycle**: the abstract specification of a claim between the two controllers, with two
  variables: the object as far as they rely on it (`phase`, finalizer, deletion mark, providerID,
  Ready) and the set of claims whose recorded machine exists.  A providerID comes after the
  finalizer and once, Ready after the providerID, the finalizer goes only with or after the
  machine, and a machine comes into being only under the finalizer.  `ClaimController!KeepsPromise` maps the
  server's version of a claim and the VM under its VMID to it, `Provisioner!KeepsPromise` the server's
  version and the Node.  So the claim actions that `Provisioner` assumes and the ones that
  `ClaimController` performs obey the same contract.
* **Xenonite**: the composition.  `ClaimController` and `Provisioner` are instantiated on the same
  claims, cache, Nodes and pool.  The provisioner's steps replace the free creation and
  deletion of claims in `ClaimController`, and the claim controller, the hypervisor and the kubelet replace the five claim
  actions in `Provisioner`.  A watch event reaches both queues, a change of a labelled Node
  wakes the provisioner, a crash stops both, a tick also ages the copy of a running reconcile, and the pods of
  a node that is lost or whose object is deleted are evicted.  The hypervisor's tasks end, or fail, and others create, remove and move VMs, where `Faults` allows it.

## 3. Runs

| Run | Instance | Shows |
|---|---|---|
| ClaimFaults | 1 claim, 2 VMIDs, stale reads, any 2 faults of 8 kinds (migration and missing configuration are left to ClaimTeardown) | `TypeOK`, `ReleasedAfterTeardown`, `ReadyIsBacked`, `CreateKeepsOwn`, `CreatedUnderFinalizer`, `ProviderIDStable`, `KeepsPromise` |
| ClaimCalm | 2 claims, 2 VMIDs, no faults, up-to-date reads | `OneMachine`, `TeardownHitsOwn`, `BecomesReady` |
| ClaimTeardown | 1 claim, 2 hosts, any 2 faults of 7 kinds, foreground deletion of the pool | `DeletionCompletes`, `PoolCollected`, `NeverSilent` |
| ProvisionerIdle | 2 claims, 1 pod that selects the pool, no limit, crash, corrupt annotation or pool deletion | `TypeOK`, `InFlightCovered`, `GraceHonoured` |
| ProvisionerLive | `SteadySpec` (the pool stays, nobody edits the annotation), 2 claims, 2 pods (one names two pools, one of a DaemonSet), limit 1, crash or API fault | `WithinLimit`, `PendingPodBound`, `ScalesToZero`, `KeepsPromise` |
| EndToEnd | both controllers, 1 claim at a time, 2 VMIDs, 1 pod, limit 1 | `MachinesWithinLimit`, `TeardownFindsMachine`, `WholePromise`, `PodServed`, `IdleReclaimed` |
| DuplicateMachine | stale reads alone | `OneMachine` is violated |
| OrphanedMachine | one crash | `NoOrphan` is violated |
| ForeignTeardown | 2 claims, one failed API request | `TeardownHitsOwn` is violated |
| PoolBackground | background deletion of the pool | `PoolCollected` is violated |
| PartialCreate | 2 VMIDs, one failed PVE call | `BecomesReady` is violated |
| DeletedWhileCreating | both controllers, foreground deletion of the pool, no fault | `TeardownFindsMachine` is violated |

`GraceHonoured` counts from the moment a pass has *kept* the claim, that is, after `clearEmptySince`, and
`CreateKeepsOwn` is about at most one fault: with two, an administrator can remove the VM that `Create` works on and
somebody else can take its VMID.

**Bounds.**  One claim suffices where the property concerns one claim and claims meet only
on VMIDs; two claims are used where they compete.  Two VMIDs let a second VM of the same
claim, or somebody else's, exist.  `MaxLag = 1` lets the cache be one version behind, which is
enough for a decision on outdated data; a writer waits while the cache is further behind
(`Room`), so longer lags are left to the proofs, which hold for every `MaxLag`.  Two
faults reach a fault during the recovery from another.  In the provisioner two claims
allow one in flight beside one whose node runs, and a pod may be bound with or without having waited.  A grace period of one tick is enough
for an annotation to be stamped, to survive or not survive a use of the node, and to expire;
names are recycled, so any number of claims can follow one another.  ClaimFaults uses symmetry of VMIDs,
ProvisionerIdle of claims; liveness runs use none.

EndToEnd assumes what the parts need: up-to-date reads, no faults, no deletion of the pool
(`SteadySpec`), and `FastBoot = FALSE`, which says that a VM does not join the cluster before `Create` has
noticed that its start task is over.  With `FastBoot = TRUE` `MachinesWithinLimit` is violated: see the list
of observations below.

Deadlock is not an error in the claim runs: with all claims gone, or a single-use name spent,
the model has nothing left to do.  The provisioner and the composition run for ever and are checked for deadlock.

**Fairness.**  `ClaimController!Fairness` says: a running reconcile takes its next step (the
worker is not suspended, every wait in the provider has a time limit); the work queue serves
every key it holds, although other keys come and go (strong fairness of `Reconcile`);
the watch delivers; PVE tasks end; a running VM joins and becomes Ready; the garbage
collector deletes the claims of a deleted pool; foreign finalizers are removed; and missing
configuration is applied in the end, which the operator cannot do without.  Nobody has
to create or delete anything and no fault has to happen.  In the provisioner a
reconcile that is due starts, and one that runs goes on (whether it becomes due again is up to the code:
`Reconciled` and `Fail` set `due`), time passes, the
claim controller and the scheduler do their part.  `BindPod` has strong fairness because a
node can become busy and free again before the scheduler acts; `ForgetName` stands for
generated names being inexhaustible.  The composition has the fairness of its parts; a Node whose VM
has stopped is noticed (`NodeLost`), while nothing obliges anybody to delete one.

## 4. Disagreements between code and documentation

1. **DuplicateMachine.**  "provisions exactly one backing machine": whether to create is
   decided on the cached `status.providerID`; a requeue that is served before the cache has
   the previous update clones a second VM, and the conflict that follows drops its providerID.
2. **OrphanedMachine.**  "a crash between create and the next reconcile can never orphan
   a VM": after a crash in `Create` nothing is recorded, and a deletion then takes the empty
   providerID for "nothing was ever provisioned".
3. **ForeignTeardown.**  A teardown repeated after a failed finalizer update uses a providerID whose
   VMID may by then belong to another claim's VM, which is stopped and purged.
4. **PoolBackground.**  "deleting the pool garbage-collects its claims": with background
   propagation the pool is gone first, the provider cannot be resolved any more, and claims
   with a VM keep their finalizer for ever.

5. **PartialCreate.**  Once the clone exists `Create` returns the providerID with its errors, so that the
   controller can "drive cleanup/retry" (`proxmox.go:112-113`); but the next reconcile finds a providerID and
   goes on to readiness (`xenonnodeclaim_controller.go:102`), and the VM is never configured, started or removed.
6. **DeletedWhileCreating.**  "Record the providerID even on partial failure so teardown can find the VM": the
   update that records it is conditional on the version read before `Create`.  A deletion of the claim
   in the minutes that `Create` takes makes it fail; the next reconcile sees a deleted claim without
   providerID and releases it.  No component has failed, and a VM is left running.

Seen with TLC or while reading, without a run of their own:

* The provisioner's annotation of a claim has the same effect as its deletion in 6: if the Node
  registers while `Create` still waits, the patch outdates the copy, the providerID is lost, and the next
  reconcile creates a second VM (`FastBoot = TRUE`).
* A pod that selects the pool but cannot run on its nodes (a second expression in the term, resources) stays
  pending; as Ready claims do not count against it, every reconcile creates one more claim up to the limit, and
  without a limit for ever.
* A pod that asks for the pool's label with `Exists` is counted by no pool.
* A VM migrated to another host is not found under its providerID; `Delete` and `Get` call it
  gone and the finalizer is released.  `ReleasedAfterTeardown` fails with `migrate` among the faults.
* With a lagging list of claims (`StaleReads = TRUE`) `WithinLimit` and `InFlightCovered` fail.
* `clearEmptySince` drops the error of its patch; with API faults `GraceHonoured` fails.  A crash between the test
  for emptiness and that patch also leaves the old time in place, so that a later pass may delete a claim whose node
  was seen in use less than a grace period ago.
* A PVE call that fails up to the wait for the clone, or whose reply is lost, returns no providerID, although the VM
  may exist: nothing tracks it then, as after the crash in 2.
* A pod can be bound to a node between the test for emptiness and the delete.
* `Ready` is not evaluated again once true; a claim that never becomes Ready counts as in flight for ever.
* `limits["nodes"] = 0` means no limit.

## 5. Proofs

Every theorem holds for arbitrary claims, VMIDs, hosts and pods and for every bound.  The assumptions are the
ones the modules declare: `NoPID`, `NoName`, `Foreign` and `NoTime` are different from the values they
stand beside, `Target` is a host, `MaxFaults` and `Limit` are natural numbers, `MaxLag` and `Grace` positive ones,
and an annotation is an age up to `Grace` or unreadable.  The claim controller's theorems do not need its sets to be
finite; the provisioner counts claims and pods, so these are finite there.  A theorem
that needs more has it as a hypothesis on `StaleReads`, `FastBoot` or `Faults`, and each such hypothesis is one
that a run or an observation of section 4 shows to be necessary or that the argument below accounts for.

| Theorem | States | Hypotheses |
|---|---|---|
| `ClaimControllerProofs!TypeCorrect` | `[]TypeOK`; among others a provider call past `NextID` always names a VM, and `Delete` is never called without a providerID | none |
| `ReadyBacked`, `CreateFinalized`, `PIDStable`, `CreateOwn` | `ReadyIsBacked`, `CreatedUnderFinalizer`, `ProviderIDStable`, `CreateKeepsOwn` | none |
| `PromiseKept` | `KeepsPromise`: the claim controller implements `ClaimLifecycle` | no `migrate` |
| `MachineBeforeFinalizer` | `ReleasedAfterTeardown`, a consequence of `PromiseKept` | no `migrate` |
| `SingleMachine` | `OneMachine` | up-to-date reads; no `api`, `crash`, `pve`, `annotate` |
| `TeardownOwn` | `TeardownHitsOwn` | up-to-date reads; only `config` and `migrate` |
| `ProvisionerProofs!TypeCorrect` | `[]TypeOK` | none |
| `LimitKept`, `InFlightKept` | `WithinLimit`, `InFlightCovered` | up-to-date lists |
| `PromiseFollowed` | `KeepsPromise`: the claims the provisioner assumes obey `ClaimLifecycle` | none |
| `GraceKept` | `GraceHonoured` | up-to-date lists, no `api` |
| `XenoniteProofs!WholePromised` | `WholePromise`: both controllers together implement `ClaimLifecycle` | no `migrate` |
| `WholeReleased` | `ReleasedAfterTeardown` with both controllers at work, a consequence of the promise | no `migrate` |
| `LimitHolds`, `MachinesFindable` | `MachinesWithinLimit`, `TeardownFindsMachine`, for `SteadySpec` | `Steady`: up-to-date reads, no `FastBoot`, no `api`, `pve`, `migrate` |

### Claim controller

**Safety under any fault** (`Invariance`, the inductive invariant `Inv`).  None of the three properties is
inductive, because a reconcile works on a copy that may be old.
`CopyInSync` says what the program counter tells of the copy, and that a copy counted as
current equals the server's version.  A conditional write therefore changes only the
fields the action sets, so a recorded providerID survives.  A clone, however, is not conditional on anything,
and `CreatedUnderFinalizer` must hold for an old copy too: `FinalizerSticks` says that as long as
*any* version the cache may still serve has the finalizer and no deletion mark, the server's version has the
finalizer; it holds because only a teardown takes the finalizer off, a teardown starts from a
version marked deleted, deletion marks stay (`DeletionSticks`), and the cache never goes back
(`ReconcileCovered`).  `CreateAttended` ties the provider's call to the reconcile that waits for it.

`ClaimStoreProofs` states the effect of the store's building blocks (append and tail of the version sequence,
`Store`, `Observe`), `ClaimControllerProofs` those of the reconcile and the provider (`Act`, `Await`, `Return`), once; each
action is then a case on its disjuncts.  `ClaimSafetyProofs` adds what each write keeps of the store's part
(`StoreKeeps`, `ObserveKeeps`, `RelistKeeps`) and of the reconcile's part (`OwnWriteKeeps`,
`OtherWriteKeeps`, `StepKeeps`, `ReturnKeeps`) and combines them per action.

**The VMID** (`CreateOwn`, the invariant `OwnInv`).  `NextID` reserves nothing, so the VMID may be taken before the clone.
The clone is then refused and no providerID is returned; if it is accepted, the VM occupies the VMID from that
moment.  `OwnInv` says so for every point of `Create` past the clone, as long as at most one fault has occurred, and that whatever
frees the VMID, an administrator's removal or a clone task that fails, has used that one up.

**Refinement** (`Placement`, the invariant `PlacedInv` beside `Inv`).  The step to argue about is the
release of the finalizer: the abstract `Release` requires that the recorded machine is gone.  `Delete` and `Get` look for it
on the host in the providerID, so the invariant says that every VM is on `Target` (`MachinesPlaced`) and that so is
the host of every providerID in a version, in the copy and in the call (`VersionsPlaced`,
`CopyPlaced`); then "not found" means gone.  `TeardownOrder` carries that answer from `Get` to the update that
releases the claim.  It is about the machine *named after the claim*: the VMID may belong to somebody else by then.
With migration the answer is false, hence the hypothesis.

**One machine** (`OneInv`).  A claim that names no machine and is not on its way out has none, except while
`Create` runs for it (`NamelessUnbuilt`); whoever is on the way to the clone works for a claim without a machine
(`CreatesFirst`); and the write after `Create` will be accepted, or the claim is deleted and no reconcile creates
for it again (`CopyCurrent`).  The last part is where the hypotheses enter: an old read is the run DuplicateMachine;
a failed update, a crash or the provisioner's annotation lose the providerID, and
a PVE failure before the wait for the clone ends returns none.  Failed tasks, other people's VMs,
removals by an administrator, migration and missing configuration are allowed.

**Teardown** (`TearInv`).  Until the finalizer is off, the VMID a claim records belongs to the claim, except while its own teardown runs
(`RecordsStand`); a teardown works on the server's version, so it is not repeated after the release
(`TeardownCurrent`); and each point of `Create`, `Delete` and `Get` knows whose machine it works on (`CallsKnow`).
The hypotheses are stronger: a failed task or an administrator frees a VMID that the claim still records, somebody else's VM
takes one, and each of `api`, `crash`, `pve` and `annotate` makes a teardown repeat after its VM is gone (ForeignTeardown).

### Provisioner

**Counts** (`Boundedness`, the invariant `Bounded`).  The properties speak of the claims that exist, but between the
computation of `needed` and the creations pods and claims come and go.  `Bounded` adds the creations still to
come to what exists: live claims plus `prov.needed` stay within the limit, and claims in flight plus `prov.needed` within the
number of pods that select the pool (`Selecting`, all of them, as a pod can be served or leave while its claim is still in
flight).  It survives because a claim created decreases `needed`, nobody else
creates claims, and neither readiness nor a deletion mark is taken back.  With a lagging list `needed` starts too high.

**Promise** (`NodesBacked`).  A Node exists only for a claim with finalizer and providerID, a removed claim has no Ready Node
and an unused name has left no trace; then each claim action of `Provisioner` is a step of `ClaimLifecycle`.  As
`PromiseKept` proves the same for the claim controller, the assumption one module makes and the guarantee the other gives are
one formula.

**Grace period** (`GraceInv`).  `Dating` says that an annotation, on the server and in the list a pass works on, claims
no more idle time than `quiet` has measured, and that a claim listed without annotation has none when the pass
reaches it, so that the pass may skip clearing it.  Crashes, unreadable annotations and the deletion of the pool are
allowed.  A failed API request is not: `clearEmptySince` drops the error of its patch.

### The whole operator

`Xenonite` instantiates both controllers; `XenoniteProofs` instantiates the claim controller's proofs on the same variables
(`CCP`) and shows that the two instances mean the same (`SameController`, `SameStore`, `SamePromise`).  The steps of the
whole are then sorted (`WholeStep`): most are steps of `ClaimController!Next`, and four kinds are not.  A step of the
provisioner either leaves the claims alone (`Spent`) or writes one of them (`Provided`): `ProvisionEffect` goes
through its actions and reduces them to three writes, `Creates`, `Annotates` and `Removes`, and to `Moves`, how its
reconcile goes on.  A tick ages every annotation, also those in the copy of a reconcile and in the provisioner's
list (`Aged`), and a name that is gone is used again (`Forgotten`).  The last section of `ClaimRefinementProofs` proves for each
that it keeps `Inv` and `PlacedInv` and is a step of `ClaimLifecycle` or none.

**Promise** (`Kept` = `Inv`, `PlacedInv` and the provisioner's types).  With that, `WholePromised` follows for `Spec`, with
crashes, deletion of the pool, every fault but migration, stale reads and fast VMs.  It says more than `PromiseKept` and
`PromiseFollowed` together: each of those replaces the other controller by what it is assumed to do.

**Machines** (`Accounted` = `Kept`, `TraceInv`, `ListEarned`, `Budgeted`).  Neither invariant of `SteadySpec` is inductive.
`OneInv`, which excludes annotations, does not help here, as annotating claims is what the provisioner does.  `TraceInv`
says instead that every VM stands at the VMID its live claim records, or at the one `Create` has just cloned for it
(`MachinesTraced`); that a reconcile on its way to record a machine has a current copy (`CopyTrusted`); and that a
Node, an annotation or a deletion are found only at claims that record their machine (`TendedRecorded`), which are held by the finalizer or
already marked (`RecordedHeld`).  The last two close the circle: nobody but the reconcile itself writes to a claim
while its machine is created, so the providerID is not lost to a conflict.  The provisioner acts on a list, so `ListEarned` says the same of
the list: what had the annotation when it was listed records a machine now, and so does the claim whose Node was found empty,
until it is stamped or deleted.  `Budgeted` is the part of `Bounded` on the limit.  `LimitHolds` then injects the VMs into the live claims.

Each part of `Steady` is needed: with stale reads (DuplicateMachine), a failed status update or a failed PVE call a VM is not recorded, with `FastBoot`
the Node, and so the annotation, comes before the providerID, and a migrated VM is taken for gone.  `SteadySpec` has neither
crashes (OrphanedMachine) nor a deletion of the pool (DeletedWhileCreating).  Failed tasks, VMs of other people and removals by
administrators are allowed: they take machines away, or VMIDs, but leave none behind.

### Only model-checked

Liveness (`BecomesReady`, `DeletionCompletes`, `PoolCollected`, `NeverSilent`, `PendingPodBound`, `ScalesToZero`, `PodServed`,
`IdleReclaimed`), as fairness and ENABLED are out of the prover's reach.  Every invariant and every action property of a passing run, and
both refinements and their composition, are theorems.  `OneInv` and `TearInv` were checked by TLC on two claims, two VMIDs and
two hosts before they were proved; `TraceInv`, `ListEarned` and `Budgeted` on the instance of EndToEnd and on one with two claims, two
pods and limit 2; the composition's invariants also with two failed tasks, foreign VMs or removals; and `WholePromise` on three
million states of `Spec` with stale reads, a crash or any other single fault, and foreground deletion of the pool.

## 6. Not modelled, and simplifications

* Pods and Nodes are read without lag; only claims have a cache.  An error of the provisioner's reads and of the
  claim controller's read of the Node ends the reconcile (`ReadFails`, `ReadNode`); the claim controller's reads of
  pool, ProxmoxProvider and Secret fail only because the object is missing, and its read of the claim does not fail.
* A PVE node that is removed takes its VMs with it, and one of the same name that is added later starts without them.
  A target or template node that is missing makes every `Create` fail; in the model each failure
  is one of `Fails` and counts as a fault.
* `isClaimNodeEmpty` reads Node and pods in one step.
* One worker per controller (the default of `MaxConcurrentReconciles`) and one manager: the manifests and the
  chart start it with `--leader-elect`.
* `Task.WaitFor` is external: it returns without error when the task is over, or gives up (`Fails`).
* One pool; one workload pod fits on a node; requested sizes and cloud-init text are left out (whether
  `configure` has anything to do is a free choice).
* The scheduler knows node selectors and affinity only, no resources or taints; match expressions on labels other
  than the pool's are satisfied by their absence or not at all.
* The text form of the providerID is the record of its parts; the construction of the PVE client, and flags,
  TLS, metrics and probes in `main.go`, have no behaviour over time.
* Generated code, manifests, chart, start-up and tests: no behaviour of their own.

## 7. Plan

1. **Done**: claim controller with provider and store; the provisioner with pod selection, work queue and
   grace period; the abstract claim lifecycle and both refinements; the composition; proofs of every
   safety property of the two controllers, of both refinements, and of the composition.
2. **Possible next**: an abstract specification of `provider.Provider` with create, delete and get as single steps
   on the set of machines; more than one pool, so that `requestedPoolName` and the limits of several pools meet.
