----------------------------- MODULE Provisioner -----------------------------
(***************************************************************************)
(* ProvisionerReconciler: for one XenonNodePool it lists the unschedulable *)
(* pods that select the pool and the pool's claims, creates a claim for    *)
(* each pod that no claim in flight covers, and deletes claims whose node  *)
(* stays without workload for the grace period.  The reads come from the   *)
(* cache, each API write is a step, and the scheduler, the pods and the    *)
(* life of the claims go on in between.  The work queue holds the pool's   *)
(* key after a watch event that is mapped to the pool, after an error, and *)
(* when the timer of reevaluateInterval will put it there.                 *)
(*                                                                         *)
(* Time is counted in ticks.  The annotation xenonite.io/empty-since is    *)
(* represented by its age: now.Sub(since), which is only ever compared     *)
(* with emptyGracePeriod and therefore stops growing there.                *)
(***************************************************************************)
EXTENDS ClaimStore, PodSelection, FiniteSets

CONSTANTS Pods,         \* pods of the cluster
          Shape,        \* pod -> its shape
          Pool,         \* the name of the pool
          Limit,        \* poolNodeLimit: spec.limits["nodes"], 0 if there is none
          Grace,        \* emptyGracePeriod in ticks
          Corrupt,      \* an annotation that is not an RFC 3339 time
          StaleReads,   \* whether claims may be listed from a lagging cache
          NoName        \* no claim

ASSUME ProvisionerAssumption ==
    /\ IsFiniteSet(Pods) /\ IsFiniteSet(Claims)
    /\ Pool \in Pools /\ Shape \in [Pods -> Shapes]
    /\ Limit \in Nat
    /\ Grace \in Nat \ {0}
    /\ Corrupt \notin Nat /\ Times = (0 .. Grace) \cup {Corrupt}
    /\ StaleReads \in BOOLEAN
    /\ NoName \notin Claims

VARIABLES prov,       \* the reconcile in progress
          due,        \* the pool's key is in the work queue, or its timer runs
          pods,       \* pod -> its state and the claim whose node it is on
          node,       \* claim -> state of the Node of that name
          labelled,   \* Nodes that carry the pool label
          pool,       \* the XenonNodePool
          active      \* the pool's status says Active

storeVars == <<log, current>>
nodeVars  == <<node, labelled, pool, active>>
vars == <<faults, storeVars, prov, due, pods, nodeVars>>

NoProv == [pc |-> "idle", pending |-> 0, copy |-> [c \in Claims |-> Unborn],
           needed |-> 0, todo |-> {}, victim |-> NoName]

\* Where scaleDown deals with one claim, prov.victim, and where a reconcile can be.
AtClaim == {"clear", "mark", "delete"}
ProvPC  == {"idle", "claims", "scaleUp", "scaleDown"} \cup AtClaim

\* "unschedulable": without a node, in phase Pending, and the scheduler has said so
\* in a condition; "leaving": terminating or finished, but still assigned to its node.
PodStates == [st: {"none", "unschedulable"}, on: {NoName}]
                \cup [st: {"running", "leaving"}, on: Claims]

NoPod == [st |-> "none", on |-> NoName]

TypeOK ==
    /\ faults \in 0 .. MaxFaults
    /\ StoreTypeOK
    /\ prov \in [pc: ProvPC,
                 pending: 0 .. Cardinality(Pods), copy: [Claims -> Objects],
                 needed: 0 .. Cardinality(Pods), todo: SUBSET Claims,
                 victim: Claims \cup {NoName}]
    /\ prov.pc \in AtClaim => prov.victim \in Claims
    /\ due \in BOOLEAN
    /\ pods \in [Pods -> PodStates]
    /\ node \in [Claims -> {"none", "NotReady", "Ready"}]
    /\ labelled \subseteq Claims
    /\ pool \in {"active", "terminating"}
    /\ active \in BOOLEAN

Init ==
    /\ faults = 0
    /\ StoreInit
    /\ prov = NoProv
    /\ due = TRUE
    /\ pods = [p \in Pods |-> NoPod]
    /\ node = [c \in Claims |-> "none"]
    /\ labelled = {}
    /\ pool = "active"
    /\ active = FALSE

-----------------------------------------------------------------------------
(* Pods *)

isPodUnschedulable(p) == pods[p].st = "unschedulable"

\* Mutant of isReschedulablePod: pods of DaemonSets count as workload.
isReschedulablePodAny(p) == pods[p].st = "running"

\* Workload that would have to move if its node went away.
isReschedulablePod(p) == pods[p].st = "running" /\ Shape[p].kind = "workload"

\* The pods that count for the pool, those whose events wake the pool's reconcile,
\* those the scheduler would put on one of its nodes, and those it would put on
\* nodes of a pool only.
Selecting == {p \in Pods : podRequestsPool(Shape[p], Pool)}
Waking    == {p \in Pods : requestedPoolName(Shape[p]) = Pool}
Fitting   == {p \in Pods : FitsPool(Shape[p], Pool)}
Demanding == {p \in Pods : ~FitsPool(Shape[p], NoPool)}

PendingPods == {p \in Selecting : isPodUnschedulable(p)}

-----------------------------------------------------------------------------
(* Watches.  Events are mapped to the key of the pool they concern. *)

poolForPod(p)  == due' = (due \/ p \in Waking)
poolForClaim   == due' = TRUE
poolForNode(c) == due' = (due \/ c \in labelled)

-----------------------------------------------------------------------------
(* Reconcile *)

\* The reconcile returns an error: the key is put back after a backoff.
Fail == prov' = NoProv /\ due' = TRUE

\* The claims of a list, those that are not Ready, and how many more to create.
Listed(copy)   == {c \in Claims : copy[c].phase = "live"}
InFlight(copy) == {c \in Listed(copy) : ~isClaimReady(copy[c])}

\* Mutants of Needed: claims in flight are not subtracted; they are added; there
\* is no cap.
NeededPerPod(pending, copy) == pending

NeededAdded(pending, copy) == pending + Cardinality(InFlight(copy))

NeededUncapped(pending, copy) ==
    LET wanted == pending - Cardinality(InFlight(copy))
    IN  IF wanted < 0 THEN 0 ELSE wanted

Needed(pending, copy) ==
    LET claims == Cardinality(Listed(copy))
        wanted == pending - Cardinality(InFlight(copy))
        capped == IF Limit > 0 /\ claims + wanted > Limit THEN Limit - claims ELSE wanted
    IN  IF pending = 0 \/ capped < 0 THEN 0 ELSE capped

\* Reconcile fetches the pool, leaves one that is being deleted, or gone, alone, and
\* lists the pods.
PendingPodsForPool ==
    /\ prov.pc = "idle" /\ due
    /\ due' = FALSE
    /\ prov' = IF pool = "active"
               THEN [NoProv EXCEPT !.pc = "claims", !.pending = Cardinality(PendingPods)]
               ELSE NoProv
    /\ UNCHANGED <<faults, storeVars, pods, nodeVars>>

ClaimsForPool ==
    LET copy == [c \in Claims |-> Cached(c)] IN
    /\ prov.pc = "claims"
    /\ StaleReads \/ \A c \in Claims : Fresh(c)
    /\ prov' = [prov EXCEPT !.pc = "scaleUp", !.copy = copy, !.todo = Listed(copy),
                            !.needed = Needed(prov.pending, copy)]
    /\ UNCHANGED <<faults, storeVars, due, pods, nodeVars>>

\* The new claim has a generated name, the pool label and the pool as its owner.
NewClaim == \E c \in Claims :
    /\ Server(c).phase = "unborn"
    /\ StoreOther(c, [Unborn EXCEPT !.phase = "live"])

\* scaleUp: one createClaim; an error ends the reconcile.
CreateClaim ==
    /\ prov.pc = "scaleUp" /\ prov.needed > 0
    /\ \/ NewClaim /\ prov' = [prov EXCEPT !.needed = @ - 1] /\ UNCHANGED <<faults, due>>
       \/ Fault("api") /\ UNCHANGED storeVars /\ Fail
       \/ Fault("api") /\ NewClaim /\ Fail
    /\ UNCHANGED <<pods, nodeVars>>

ScaledUp ==
    /\ prov.pc = "scaleUp" /\ prov.needed = 0
    /\ prov' = [prov EXCEPT !.pc = "scaleDown"]
    /\ UNCHANGED <<faults, storeVars, due, pods, nodeVars>>

\* Mutant of Patch: the listed copy is written back as a whole.
PatchCopy(c, since) ==
    /\ Server(c).phase = "live"
    /\ StoreOther(c, [prov.copy[c] EXCEPT !.since = since])
    /\ UNCHANGED faults

\* client.MergeFrom without a resourceVersion: the patch applies to whatever
\* version the server holds.
Patch(c, since) ==
    /\ Server(c).phase = "live"
    /\ StoreOther(c, [Server(c) EXCEPT !.since = since])
    /\ UNCHANGED faults

PatchFails(c) ==
    /\ UNCHANGED storeVars
    /\ \/ Server(c).phase # "live" /\ UNCHANGED faults
       \/ Fault("api")

\* Pods are listed again, by node name, for each claim.
isClaimNodeEmpty(c) ==
    node[c] # "none" /\ \A p \in Pods : pods[p].on = c => ~isReschedulablePod(p)

Considered(c) == prov.pc = "scaleDown" /\ c \in prov.todo

\* scaleDown has decided about claim c, on what it sees now; what follows comes later.
Decide(c, pc) ==
    /\ prov' = [prov EXCEPT !.pc = pc, !.victim = c]
    /\ UNCHANGED <<faults, storeVars, due, pods, nodeVars>>

NextClaim(c) ==
    /\ prov' = [prov EXCEPT !.pc = "scaleDown", !.victim = NoName, !.todo = @ \ {c}]
    /\ UNCHANGED due

SkipDeleting(c) ==
    /\ Considered(c)
    /\ prov.pending = 0 /\ prov.copy[c].del
    /\ NextClaim(c)
    /\ UNCHANGED <<faults, storeVars, pods, nodeVars>>

\* Pods wait for nodes, or this node is in use: keep it.
KeepClaim(c) ==
    /\ Considered(c)
    /\ \/ prov.pending > 0
       \/ ~prov.copy[c].del /\ ~isClaimNodeEmpty(c)
    /\ Decide(c, "clear")

FoundEmpty(c) ==
    /\ Considered(c)
    /\ prov.pending = 0 /\ ~prov.copy[c].del /\ isClaimNodeEmpty(c)
    /\ Decide(c, "mark")

\* Mutant of ClearEmptySince: the annotation stays.
ClearEmptySinceForgotten ==
    /\ prov.pc = "clear"
    /\ NextClaim(prov.victim)
    /\ UNCHANGED <<faults, storeVars, pods, nodeVars>>

\* clearEmptySince looks at the listed copy and ignores the patch's error.
ClearEmptySince ==
    LET c == prov.victim IN
    /\ prov.pc = "clear"
    /\ IF prov.copy[c].since = NoTime THEN UNCHANGED <<faults, storeVars>>
       ELSE Patch(c, NoTime) \/ PatchFails(c)
    /\ NextClaim(c)
    /\ UNCHANGED <<pods, nodeVars>>

\* markEmptyAndCheckGrace: stamp an absent or corrupt time, else compare it.
MarkEmptyAndCheckGrace ==
    LET c == prov.victim IN
    /\ prov.pc = "mark"
    /\ IF prov.copy[c].since \in {NoTime, Corrupt}
       THEN \/ Patch(c, 0) /\ NextClaim(c)
            \/ PatchFails(c) /\ Fail
       ELSE /\ UNCHANGED <<faults, storeVars>>
            /\ IF prov.copy[c].since >= Grace
               THEN prov' = [prov EXCEPT !.pc = "delete"] /\ UNCHANGED due
               ELSE NextClaim(c)
    /\ UNCHANGED <<pods, nodeVars>>

\* r.Delete carries no precondition; a claim that is already gone is no error.
DeleteIdle ==
    LET c == prov.victim IN
    /\ prov.pc = "delete"
    /\ \/ /\ \/ DeleteRequest(c, FALSE)
             \/ (Server(c).phase # "live" \/ Server(c).del) /\ UNCHANGED storeVars
          /\ NextClaim(c)
          /\ UNCHANGED faults
       \/ Fault("api") /\ UNCHANGED storeVars /\ Fail
    /\ UNCHANGED <<pods, nodeVars>>

\* updateStatus ignores the error of its write, a conflict with the pool's deletion
\* or a failed request.
UpdateStatus ==
    \/ pool = "active" /\ active' = TRUE /\ UNCHANGED faults
    \/ pool # "active" /\ UNCHANGED <<active, faults>>
    \/ Fault("api") /\ UNCHANGED active

\* Mutant of Reconciled: the result asks for no further run.
ReconciledOnce ==
    /\ prov.pc = "scaleDown" /\ prov.todo = {}
    /\ UpdateStatus
    /\ prov' = NoProv
    /\ UNCHANGED <<storeVars, due, pods, node, labelled, pool>>

\* The result asks for a new run after reevaluateInterval.
Reconciled ==
    /\ prov.pc = "scaleDown" /\ prov.todo = {}
    /\ UpdateStatus
    /\ prov' = NoProv
    /\ due' = TRUE
    /\ UNCHANGED <<storeVars, pods, node, labelled, pool>>

\* The pool, the pods, the claims, and a claim's node and its pods are read; an error
\* of any of these reads ends the reconcile.
Reading ==
    \/ prov.pc = "idle" /\ due
    \/ prov.pc = "claims"
    \/ \E c \in Claims : Considered(c) /\ prov.pending = 0 /\ ~prov.copy[c].del

ReadFails ==
    /\ Reading
    /\ Fault("api")
    /\ Fail
    /\ UNCHANGED <<storeVars, pods, nodeVars>>

Reconcile ==
    \/ PendingPodsForPool
    \/ ClaimsForPool
    \/ CreateClaim
    \/ ScaledUp
    \/ \E c \in Claims : KeepClaim(c) \/ SkipDeleting(c) \/ FoundEmpty(c)
    \/ ClearEmptySince
    \/ MarkEmptyAndCheckGrace
    \/ DeleteIdle
    \/ Reconciled
    \/ ReadFails

-----------------------------------------------------------------------------
(* The manager *)

WatchEvent(c) ==
    /\ Observe(c)
    /\ poolForClaim
    /\ UNCHANGED <<faults, current, prov, pods, nodeVars>>

Crash ==
    /\ Fault("crash")
    /\ Relist
    /\ prov' = NoProv
    /\ due' = TRUE
    /\ UNCHANGED <<pods, nodeVars>>

-----------------------------------------------------------------------------
(* The life of a claim, as far as the provisioner can see it.  The controller *)
(* of the claims is specified in ClaimController.                             *)

\* The claim controller adds its finalizer before it creates anything.
AdoptClaim(c) ==
    /\ Server(c).phase = "live" /\ ~Server(c).fin /\ ~Server(c).del
    /\ StoreOther(c, [Server(c) EXCEPT !.fin = TRUE])
    /\ UNCHANGED <<faults, prov, due, pods, nodeVars>>

\* The VM is created and its providerID recorded.
LaunchMachine(c) ==
    /\ Server(c).phase = "live" /\ Server(c).fin /\ ~Server(c).del
    /\ Server(c).pid = NoPID
    /\ \E p \in PIDs : StoreOther(c, [Server(c) EXCEPT !.pid = p])
    /\ UNCHANGED <<faults, prov, due, pods, nodeVars>>

\* The VM has joined as a Node and the claim controller has labelled it.
RegisterNode(c) ==
    /\ Server(c).phase = "live" /\ Server(c).fin /\ Server(c).pid # NoPID
    /\ node[c] = "none"
    /\ node' = [node EXCEPT ![c] = "Ready"]
    /\ labelled' = labelled \cup {c}
    /\ due' = TRUE
    /\ UNCHANGED <<faults, storeVars, prov, pods, pool, active>>

ReportReady(c) ==
    /\ Server(c).phase = "live" /\ Server(c).fin /\ ~Server(c).del
    /\ node[c] = "Ready" /\ ~isClaimReady(Server(c))
    /\ StoreOther(c, [Server(c) EXCEPT !.ready = "NodeReady"])
    /\ UNCHANGED <<faults, prov, due, pods, nodeVars>>

\* A node goes away with everything on it; its pods may be replaced by new ones.
Evict(c) == pods' = [p \in Pods |-> IF pods[p].on = c THEN NoPod ELSE pods[p]]

\* The teardown ends.
ReleaseClaim(c) ==
    /\ Server(c).phase = "live" /\ Server(c).fin /\ Server(c).del
    /\ StoreOther(c, [Server(c) EXCEPT !.fin = FALSE, !.phase = "gone"])
    /\ node' = [node EXCEPT ![c] = IF @ = "none" THEN @ ELSE "NotReady"]
    /\ Evict(c)
    /\ poolForNode(c)
    /\ UNCHANGED <<faults, prov, labelled, pool, active>>

\* A claim that lives on gets its next step, whichever of these that is.
ServeClaim(c) ==
    \/ AdoptClaim(c)
    \/ LaunchMachine(c)
    \/ RegisterNode(c)
    \/ ReportReady(c)
    \/ ReleaseClaim(c)

\* Generated names are not reused: a name that has left no trace stands for a
\* new one.
ForgetName(c) ==
    /\ Server(c).phase = "gone" /\ Fresh(c) /\ prov.copy[c].phase # "live"
    /\ \A p \in Pods : pods[p].on # c
    /\ log' = [log EXCEPT ![c] = <<Unborn>>]
    /\ node' = [node EXCEPT ![c] = "none"]
    /\ labelled' = labelled \ {c}
    /\ UNCHANGED <<faults, current, prov, due, pods, pool, active>>

-----------------------------------------------------------------------------
(* The rest of the cluster *)

\* The scheduler finds no node for a new pod; nodes without a pool have room.
PodPending(p) ==
    /\ p \in Demanding /\ pods[p].st = "none"
    /\ pods' = [pods EXCEPT ![p].st = "unschedulable"]
    /\ poolForPod(p)
    /\ UNCHANGED <<faults, storeVars, prov, nodeVars>>

\* The scheduler binds a pod to a node with room (one workload pod per node).
BindPod(p, c) ==
    /\ pods[p].on = NoName
    /\ node[c] = "Ready" /\ c \in labelled /\ p \in Fitting
    /\ Shape[p].kind = "workload" => isClaimNodeEmpty(c)
    /\ pods' = [pods EXCEPT ![p] = [st |-> "running", on |-> c]]
    /\ poolForPod(p)
    /\ UNCHANGED <<faults, storeVars, prov, nodeVars>>

\* A pod finishes or is deleted; its object stays on the node for a while.
PodLeaves(p) ==
    /\ pods[p].st = "running"
    /\ pods' = [pods EXCEPT ![p].st = "leaving"]
    /\ poolForPod(p)
    /\ UNCHANGED <<faults, storeVars, prov, nodeVars>>

\* The object of a pod is removed, one that was never scheduled included.
PodGone(p) ==
    /\ pods[p].st \in {"leaving", "unschedulable"}
    /\ pods' = [pods EXCEPT ![p] = NoPod]
    /\ poolForPod(p)
    /\ UNCHANGED <<faults, storeVars, prov, nodeVars>>

\* Somebody overwrites the annotation.
CorruptAnnotation(c) ==
    /\ Server(c).phase = "live" /\ Server(c).since # NoTime
    /\ Fault("corrupt")
    /\ StoreOther(c, [Server(c) EXCEPT !.since = Corrupt])
    /\ UNCHANGED <<prov, due, pods, nodeVars>>

DeletePool ==
    /\ pool = "active"
    /\ Fault("pool")
    /\ pool' = "terminating"
    /\ due' = TRUE
    /\ UNCHANGED <<storeVars, prov, pods, node, labelled, active>>

Older(o) == IF o.since \in 0 .. (Grace - 1) THEN [o EXCEPT !.since = @ + 1] ELSE o

Tick ==
    /\ log' = [c \in Claims |-> [i \in 1 .. Len(log[c]) |-> Older(log[c][i])]]
    /\ prov' = [prov EXCEPT !.copy = [c \in Claims |-> Older(@[c])]]
    /\ UNCHANGED <<faults, current, due, pods, nodeVars>>

\* The operator at work, restarts included, ...
Operate ==
    \/ Reconcile
    \/ \E c \in Claims :
        \/ WatchEvent(c)
        \/ ServeClaim(c)
        \/ ForgetName(c)
        \/ \E p \in Pods : BindPod(p, c)
    \/ \E p \in Pods : PodPending(p) \/ PodLeaves(p) \/ PodGone(p)
    \/ Tick
    \/ Crash

\* ... and what others do to its objects.
Next ==
    \/ Operate
    \/ \E c \in Claims : CorruptAnnotation(c)
    \/ DeletePool

Spec == Init /\ [][Next]_vars

\* The reconciler is run again and again, the watch delivers, the claim controller
\* and the scheduler do their work, and time passes.  Pods need not arrive or end.
Fairness ==
    /\ WF_vars(Reconcile)
    /\ WF_vars(Tick)
    /\ \A c \in Claims :
        /\ WF_vars(WatchEvent(c))
        /\ WF_vars(ServeClaim(c))
        /\ SF_vars(ForgetName(c))
    /\ \A p \in Demanding : SF_vars(\E c \in Claims : BindPod(p, c))

SteadySpec == Init /\ [][Operate]_vars /\ Fairness

-----------------------------------------------------------------------------
(* Safety *)

LiveClaims == {c \in Claims : Server(c).phase = "live"}

\* "poolNodeLimit caps the number of claims per pool".
WithinLimit == Limit > 0 => Cardinality(LiveClaims) <= Limit

\* scaleUp "creates one claim per pending pod that isn't already covered by an
\* in-flight (not-yet-ready) claim": claims in flight never outnumber the pods.
InFlightCovered ==
    Cardinality({c \in LiveClaims : ~isClaimReady(Server(c)) /\ ~Server(c).del})
        <= Cardinality(Selecting)

-----------------------------------------------------------------------------
(* Liveness *)

\* No pod that asks for the pool's nodes is unschedulable for ever: it is bound, unless it
\* is deleted first, also when its events wake another pool: scaleUp counts no claim in
\* flight that will not come, and the timer finds the pods no event has announced.
PendingPodBound ==
    \A p \in Demanding \cap Fitting :
        []<>~isPodUnschedulable(p)

\* No pod waits and no workload runs; DaemonSet and mirror pods may.
Unused ==
    \A p \in Pods : ~isPodUnschedulable(p)
                    /\ (pods[p].st = "running" => Shape[p].kind # "workload")

\* reevaluateInterval lets "scale-down ... act on nodes that became idle without
\* generating an event we watch", and DaemonSet, mirror and terminating pods "never
\* keep an otherwise-idle node alive": when no pod waits and no workload runs any
\* more, every claim is reclaimed in the end.
ScalesToZero == <>[]Unused => <>[](LiveClaims = {})

-----------------------------------------------------------------------------
(* Refinement *)

\* The provisioner and the claims it is specified against follow the promise that
\* the claim controller keeps: a node that is Ready stands for the recorded machine.
Life == INSTANCE ClaimLifecycle WITH
            claim <- [c \in Claims |-> Promise(Server(c))],
            machine <- {c \in Claims : node[c] = "Ready"}

\* What the provisioner does to claims, creating, annotating and deleting them while
\* others act on them, is covered by the promise.
KeepsPromise == Life!Spec
=============================================================================
