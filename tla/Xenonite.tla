------------------------------ MODULE Xenonite ------------------------------
(***************************************************************************)
(* The operator as cmd/main.go starts it: the provisioner and the claim    *)
(* controller in one manager, on the same claims, the same cache and the   *)
(* same cluster.  What one of the two modules only assumes of the other is *)
(* here a step of the other: claims are created and deleted by the         *)
(* provisioner alone, or by the garbage collector once the pool is being   *)
(* deleted, and a node exists because a VM of that name runs.              *)
(***************************************************************************)
EXTENDS ClaimStore, PodSelection, FiniteSets

CONSTANTS Target, NoName, Foreign, StaleReads, Cascade,   \* of ClaimController
          Pods, Shape, Pool, Limit, Grace, Corrupt,       \* of Provisioner
          FastBoot    \* whether a VM may join before Create has seen it started

ASSUME XenoniteAssumption ==
    /\ Target \in Hosts
    /\ NoName \notin Claims
    /\ Foreign \notin Claims \cup {NoName}
    /\ StaleReads \in BOOLEAN /\ FastBoot \in BOOLEAN
    /\ Cascade \subseteq {"background", "foreground"}
    /\ IsFiniteSet(Pods) /\ IsFiniteSet(Claims)
    /\ Pool \in Pools /\ Shape \in [Pods -> Shapes]
    /\ Limit \in Nat
    /\ Grace \in Nat \ {0}
    /\ Corrupt \notin Nat /\ Times = (0 .. Grace) \cup {Corrupt}

VARIABLES vms, call, rec, queue, config,      \* of ClaimController alone
          prov, due, pods, active,            \* of Provisioner alone
          node, labelled, pool                \* shared, as are faults, log, current

CC == INSTANCE ClaimController
PR == INSTANCE Provisioner

claimVars     == <<vms, call, rec, queue, config>>
provisionVars == <<prov, due, pods, active>>
vars == <<faults, log, current, claimVars, provisionVars, node, labelled, pool>>

Init == CC!Init /\ PR!Init

-----------------------------------------------------------------------------
(* The two controllers *)

Provision ==
    /\ PR!Reconcile
    /\ UNCHANGED claimVars

\* Nodes are watched by the provisioner: a change of a labelled one wakes it.
NodeEvent ==
    due' = (due \/ \E c \in labelled' : node'[c] # node[c] \/ c \notin labelled)

Serve(c) ==
    /\ CC!Reconcile(c)
    /\ UNCHANGED provisionVars

Drive ==
    /\ CC!Controller
    /\ NodeEvent
    /\ UNCHANGED <<prov, pods, active>>

\* One cache and one process: an event reaches both controllers, a crash stops both.
WatchEvent(c) == CC!WatchEvent(c) /\ PR!WatchEvent(c)

Crash == CC!Crash /\ PR!Crash

-----------------------------------------------------------------------------
(* The cluster *)

\* Tasks end or fail, and others use the same hypervisor.
Hypervisor ==
    /\ CC!HypervisorStep
    /\ UNCHANGED provisionVars

\* What it does of its own accord.
Task(i) ==
    /\ CC!TaskDone(i)
    /\ UNCHANGED <<log, current, rec, queue, config, provisionVars, node, labelled, pool>>

Kubelet(c) ==
    /\ FastBoot \/ ~(rec.pc = "creating" /\ rec.claim = c)
    /\ CC!JoinNode(c) \/ CC!KubeletReady(c)
    /\ NodeEvent
    /\ UNCHANGED <<prov, pods, active>>

\* The pods of a node whose heartbeats have stopped, or whose object is gone, are evicted.
NodeLost(c) ==
    /\ CC!KubeletLost(c) \/ CC!RemoveNode(c)
    /\ PR!Evict(c)
    /\ NodeEvent
    /\ UNCHANGED <<prov, active>>

\* The pool is deleted in the foreground, with the claims it owns.
DeletePool ==
    /\ CC!DeletePool \/ CC!PoolGone
    /\ due' = TRUE
    /\ UNCHANGED <<prov, pods, active>>

Collect(c) ==
    /\ CC!CollectClaim(c) \/ CC!HolderReleases(c)
    /\ UNCHANGED provisionVars

Scheduler(p) ==
    /\ \E c \in Claims : PR!BindPod(p, c)
    /\ UNCHANGED claimVars

Users(p) ==
    /\ PR!PodPending(p) \/ PR!PodLeaves(p) \/ PR!PodGone(p)
    /\ UNCHANGED claimVars

\* A name leaves no trace once no machine and no reconcile is left of it either.
ForgetName(c) ==
    /\ PR!ForgetName(c)
    /\ rec.claim # c /\ c \notin queue
    /\ \A i \in VMIDs : vms[i].name # c
    /\ UNCHANGED claimVars

Tick ==
    /\ PR!Tick
    /\ rec' = [rec EXCEPT !.obj = PR!Older(@)]
    /\ UNCHANGED <<vms, call, queue, config>>

\* The operator at work, ...
Operate ==
    \/ Provision
    \/ Drive
    \/ \E c \in Claims :
        \/ Serve(c)
        \/ WatchEvent(c)
        \/ Kubelet(c)
        \/ NodeLost(c)
        \/ ForgetName(c)
    \/ Hypervisor
    \/ \E p \in Pods : Scheduler(p) \/ Users(p)
    \/ Tick

\* ... and what may befall it.
Next ==
    \/ Operate
    \/ DeletePool
    \/ \E c \in Claims : Collect(c)
    \/ Crash

Spec == Init /\ [][Next]_vars

\* As in the two modules: both controllers run, the watch delivers, PVE tasks end,
\* running VMs join, stopped ones are noticed, the scheduler binds what fits and time passes.
Fairness ==
    /\ WF_vars(Provision)
    /\ WF_vars(Drive)
    /\ WF_vars(Tick)
    /\ \A c \in Claims :
        /\ SF_vars(Serve(c))
        /\ WF_vars(WatchEvent(c))
        /\ WF_vars(Kubelet(c))
        /\ WF_vars(NodeLost(c))
        /\ SF_vars(ForgetName(c))
    /\ \A i \in VMIDs : WF_vars(Task(i))
    /\ \A p \in Pods : SF_vars(Scheduler(p))

SteadySpec == Init /\ [][Operate]_vars /\ Fairness

-----------------------------------------------------------------------------
(* Properties of the whole *)

Machines == {i \in VMIDs : vms[i].name \in Claims}

\* poolNodeLimit "caps the number of claims per pool"; as every claim has "exactly one
\* backing machine" and outlives it, there are never more VMs of the pool than that.
MachinesWithinLimit == Limit > 0 => Cardinality(Machines) <= Limit

\* "Record the providerID even on partial failure so teardown can find the VM"
\* (reconcileCreate): no VM is left of a claim that is gone.
TeardownFindsMachine ==
    \A i \in Machines : Server(vms[i].name).phase # "gone"

\* What the claim controller promises of every claim also holds next to the provisioner
\* that runs in the same process: the claims it creates, patches and deletes from copies
\* it has listed before, and the names that are used again, fit into the same life.
WholePromise == CC!KeepsPromise

\* Scale-up, end to end: no pod that asks for the pool's nodes waits for ever; it gets a
\* claim, the claim a VM, the VM joins as a Node and the pod is bound, unless it is
\* deleted first.
PodServed ==
    \A p \in PR!Demanding \cap PR!Fitting :
        []<>~PR!isPodUnschedulable(p)

\* Scale-down, end to end: once there is no workload, every claim is deleted and every
\* VM is destroyed.
IdleReclaimed ==
    <>[]PR!Unused => <>[](PR!LiveClaims = {} /\ Machines = {})
=============================================================================
