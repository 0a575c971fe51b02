---------------------------- MODULE XenoniteProofs ----------------------------
(***************************************************************************)
(* What the operator as one process keeps, with both controllers, the      *)
(* hypervisor, the kubelets, the scheduler and the passage of time.        *)
(*                                                                         *)
(* Each step of Xenonite is one the proofs of the claim controller know, a *)
(* write of the provisioner they allow for, a tick, or the return of a     *)
(* name; so the promise made of every claim is kept by the whole, crashes  *)
(* and failures of both APIs included.  Where nothing fails, every machine *)
(* can be traced to its claim, and there are no more than the pool's limit.*)
(***************************************************************************)
EXTENDS Xenonite, ClaimStoreProofs, FiniteSetTheorems

\* The claim controller's model with its proofs, over the same state.
CCP == INSTANCE ClaimCalmProofs

-----------------------------------------------------------------------------
(* One vocabulary *)

\* The steps of the claim controller are those its theorems are about.
LEMMA SameController ==
    /\ CC!Init => CCP!Init
    /\ CC!Controller => CCP!Controller
    /\ CC!Crash => CCP!Crash
    /\ CC!DeletePool \/ CC!PoolGone => CCP!DeletePool \/ CCP!PoolGone
    /\ \A c \in Claims :
          /\ CC!Reconcile(c) => CCP!Reconcile(c)
          /\ CC!WatchEvent(c) => CCP!WatchEvent(c)
          /\ CC!JoinNode(c) => CCP!JoinNode(c)
          /\ CC!KubeletReady(c) => CCP!KubeletReady(c)
          /\ CC!KubeletLost(c) => CCP!KubeletLost(c)
          /\ CC!RemoveNode(c) => CCP!RemoveNode(c)
          /\ CC!CollectClaim(c) => CCP!DeleteClaim(c)
          /\ CC!HolderReleases(c) => CCP!HolderReleases(c)
    /\ Hypervisor => CCP!HypervisorStep
  <1> USE DEF CC!TaskStates, CCP!TaskStates, CC!NoVM, CCP!NoVM, CC!Free, CCP!Free, CC!Found,
          CCP!Found, CC!Goto, CCP!Goto, CC!Return, CCP!Return, CC!Fails,
          CCP!Fails, CC!Await, CCP!Await, CC!Act, CCP!Act, CC!NextID,
          CCP!NextID, CC!StartClone, CCP!StartClone, CC!Clone, CCP!Clone,
          CC!CloneReplyLost, CCP!CloneReplyLost, CC!CloneFails,
          CCP!CloneFails, CC!Lookup, CCP!Lookup, CC!ConfigureNothing,
          CCP!ConfigureNothing, CC!Offline, CCP!Offline, CC!Configure,
          CCP!Configure, CC!Create, CCP!Create, CC!Find, CCP!Find,
          CC!DeletePC, CCP!DeletePC, CC!Delete, CCP!Delete, CC!Get, CCP!Get,
          CC!Provider, CCP!Provider, CC!Fault, CCP!Fault, CC!NoCall,
          CCP!NoCall, CC!BeginCreate, CCP!BeginCreate, CC!BeginDelete,
          CCP!BeginDelete, CC!BeginGet, CCP!BeginGet, CC!providerVars,
          CCP!providerVars, CC!Completed, CCP!Completed, CC!TaskDone,
          CCP!TaskDone, CC!Hypervisor, CCP!Hypervisor, CC!ProviderInit,
          CCP!ProviderInit, CC!Unborn, CCP!Unborn, CC!Server, CCP!Server,
          CC!Room, CCP!Room, CC!Store, CCP!Store, CC!Fresh, CCP!Fresh,
          CC!Cached, CCP!Cached, CC!StoreOther, CCP!StoreOther, CC!Deleted,
          CCP!Deleted, CC!DeleteRequest, CCP!DeleteRequest, CC!Observe,
          CCP!Observe, CC!Relist, CCP!Relist, CC!StoreInit, CCP!StoreInit,
          CC!storeVars, CCP!storeVars, CC!workVars, CCP!workVars,
          CC!clusterVars, CCP!clusterVars, CC!NoRec, CCP!NoRec, CC!At, CCP!At,
          CC!Step, CCP!Step, CC!Done, CCP!Done, CC!Written, CCP!Written,
          CC!NotWritten, CCP!NotWritten, CC!TryWrite, CCP!TryWrite,
          CC!AddFinalizer, CCP!AddFinalizer, CC!Resolvable, CCP!Resolvable,
          CC!ResolveProvider, CCP!ResolveProvider, CC!Renderable,
          CCP!Renderable, CC!RenderCloudInit, CCP!RenderCloudInit,
          CC!RecordProviderID, CCP!RecordProviderID, CC!NodeNotRegistered,
          CCP!NodeNotRegistered, CC!isNodeReady, CCP!isNodeReady,
          CC!ReadNode, CCP!ReadNode, CC!LabelNode, CCP!LabelNode, CC!SetReady, CCP!SetReady,
          CC!ReconcileDelete, CCP!ReconcileDelete, CC!VerifyDeleted,
          CCP!VerifyDeleted, CC!ConfirmGone, CCP!ConfirmGone, CC!Held,
          CCP!Held, CC!RemoveFinalizer, CCP!RemoveFinalizer, CC!ProviderStep,
          CCP!ProviderStep, CC!Controller, CCP!Controller, CC!Reconcile,
          CCP!Reconcile, CC!WatchEvent, CCP!WatchEvent, CC!Crash, CCP!Crash,
          CC!MachineRuns, CCP!MachineRuns, CC!JoinNode, CCP!JoinNode,
          CC!KubeletReady, CCP!KubeletReady, CC!KubeletLost, CCP!KubeletLost,
          CC!DeletePool, CCP!DeletePool, CC!PoolGone, CCP!PoolGone,
          CC!DeleteClaim, CCP!DeleteClaim, CC!CollectClaim, CCP!CollectClaim,
          CC!HolderReleases, CCP!HolderReleases, CC!Init, CCP!Init,
          CC!HypervisorStep, CCP!HypervisorStep, CC!TaskFailed, CCP!TaskFailed,
          CC!ForeignCreate, CCP!ForeignCreate, CC!AdminRemove, CCP!AdminRemove,
          CC!Migrate, CCP!Migrate, CC!RemoveHost, CCP!RemoveHost,
          CC!RemoveNode, CCP!RemoveNode, CC!Aborted, CCP!Aborted
  <1>1. CC!Init => CCP!Init OBVIOUS
  <1>2. ASSUME CC!Controller PROVE CCP!Controller BY <1>2
  <1>3. ASSUME CC!Crash PROVE CCP!Crash BY <1>3
  <1>4. CC!DeletePool \/ CC!PoolGone => CCP!DeletePool \/ CCP!PoolGone OBVIOUS
  <1>5. ASSUME NEW c \in Claims
        PROVE  /\ CC!Reconcile(c) => CCP!Reconcile(c)
               /\ CC!WatchEvent(c) => CCP!WatchEvent(c)
               /\ CC!JoinNode(c) => CCP!JoinNode(c)
               /\ CC!KubeletReady(c) => CCP!KubeletReady(c)
               /\ CC!KubeletLost(c) => CCP!KubeletLost(c)
               /\ CC!RemoveNode(c) => CCP!RemoveNode(c)
               /\ CC!CollectClaim(c) => CCP!DeleteClaim(c)
               /\ CC!HolderReleases(c) => CCP!HolderReleases(c)
    OBVIOUS
  <1>6. Hypervisor => CCP!HypervisorStep BY DEF Hypervisor
  <1> QED BY <1>1, <1>2, <1>3, <1>4, <1>5, <1>6

\* The claims and their versions are the same for both controllers.
LEMMA SameStore ==
    /\ Unborn = CCP!Unborn /\ Unborn = PR!Unborn
    /\ Objects = CCP!Objects /\ PIDs = CCP!PIDs
    /\ StoreTypeOK <=> CCP!StoreTypeOK
    /\ \A c \in Claims :
          /\ CCP!Server(c) = Server(c) /\ CCP!Server(c)' = Server(c)'
          /\ PR!Server(c) = Server(c)
          /\ PR!Cached(c) = Cached(c)
          /\ PR!Fresh(c) <=> Fresh(c)
          /\ \A o : /\ PR!StoreOther(c, o) <=> StoreOther(c, o)
                    /\ CCP!StoreOther(c, o) <=> StoreOther(c, o)
                    /\ CCP!Deleted(o, FALSE) = Deleted(o, FALSE)
                    /\ PR!Deleted(o, FALSE) = Deleted(o, FALSE)
    /\ \A kind : PR!Fault(kind) <=> Fault(kind)
  <1> USE DEF Unborn, CCP!Unborn, PR!Unborn, PIDs, CCP!PIDs, Objects, CCP!Objects,
          StoreTypeOK, CCP!StoreTypeOK, Server, CCP!Server, PR!Server, Cached,
          CCP!Cached, PR!Cached, Fresh, CCP!Fresh, PR!Fresh, Room, CCP!Room,
          PR!Room, Store, CCP!Store, PR!Store, StoreOther, CCP!StoreOther,
          PR!StoreOther, Deleted, CCP!Deleted, PR!Deleted, Fault, CCP!Fault,
          PR!Fault
  <1>1. /\ Unborn = CCP!Unborn /\ Unborn = PR!Unborn
        /\ Objects = CCP!Objects /\ PIDs = CCP!PIDs
        /\ StoreTypeOK <=> CCP!StoreTypeOK
    OBVIOUS
  <1>2. ASSUME NEW c \in Claims
        PROVE  /\ CCP!Server(c) = Server(c) /\ CCP!Server(c)' = Server(c)'
               /\ PR!Server(c) = Server(c)
               /\ PR!Cached(c) = Cached(c)
               /\ PR!Fresh(c) <=> Fresh(c)
    OBVIOUS
  <1>3. ASSUME NEW c \in Claims, NEW o
        PROVE  /\ PR!StoreOther(c, o) <=> StoreOther(c, o)
               /\ CCP!StoreOther(c, o) <=> StoreOther(c, o)
               /\ CCP!Deleted(o, FALSE) = Deleted(o, FALSE)
               /\ PR!Deleted(o, FALSE) = Deleted(o, FALSE)
    OBVIOUS
  <1>4. \A kind : PR!Fault(kind) <=> Fault(kind) OBVIOUS
  <1> QED BY <1>1, <1>2, <1>3, <1>4

\* Both count with the same Cardinality.
LEMMA SameCount == \A S : PR!Cardinality(S) = Cardinality(S)
  BY DEF PR!Cardinality, Cardinality

-----------------------------------------------------------------------------
(* What the provisioner does to the claims *)

\* The reconcile of the provisioner that is in progress.
ProvTyped ==
    /\ prov \in [pc: PR!ProvPC, pending: Nat, copy: [Claims -> Objects], needed: Nat,
                 todo: SUBSET Claims, victim: Claims \cup {NoName}]
    /\ prov.pc \in PR!AtClaim => prov.victim \in Claims

\* A claim is created for a pod, ...
Creates(c, o) ==
    /\ prov.pc = "scaleUp" /\ prov.needed > 0
    /\ Server(c).phase = "unborn" /\ o = [Unborn EXCEPT !.phase = "live"]

\* ... patched because its Node is empty or its listed copy has the annotation, ...
Annotates(c, o) ==
    /\ c = prov.victim
    /\ prov.pc = "mark" \/ (prov.pc = "clear" /\ prov.copy[c].since # NoTime)
    /\ Server(c).phase = "live"
    /\ \E t \in Times \cup {NoTime} : o = [Server(c) EXCEPT !.since = t]

\* ... or deleted as the one that has been empty for long enough.
Removes(c, o) ==
    /\ prov.pc = "delete" /\ c = prov.victim
    /\ Server(c).phase = "live" /\ ~Server(c).del
    /\ o = Deleted(Server(c), FALSE)

Tends(c, o) == StoreOther(c, o) /\ (Creates(c, o) \/ Annotates(c, o) \/ Removes(c, o))

\* How a reconcile of the provisioner moves on: it ends, it starts, it lists the claims,
\* or it goes through the list it has.
Moves ==
    \/ prov' = PR!NoProv
    \/ \E n \in Nat : prov' = [PR!NoProv EXCEPT !.pc = "claims", !.pending = n]
    \/ \E copy \in [Claims -> Objects] :
        /\ StaleReads = FALSE => copy = [c \in Claims |-> Server(c)]
        /\ prov' = [prov EXCEPT !.pc = "scaleUp", !.copy = copy, !.todo = PR!Listed(copy),
                                !.needed = PR!Needed(prov.pending, copy)]
        /\ UNCHANGED log
    \/ prov' = [prov EXCEPT !.pc = "scaleDown"]
    \/ prov.needed > 0 /\ prov' = [prov EXCEPT !.needed = @ - 1]
    \/ \E c \in prov.todo : prov' = [prov EXCEPT !.pc = "clear", !.victim = c]
    \/ \E c \in prov.todo :
          node[c] # "none" /\ prov' = [prov EXCEPT !.pc = "mark", !.victim = c]
    \/ prov.pc = "mark" /\ prov' = [prov EXCEPT !.pc = "delete"]
    \/ \E c \in Claims :
          prov' = [prov EXCEPT !.pc = "scaleDown", !.victim = NoName, !.todo = @ \ {c}]

\* An API call that fails leaves the budget of faults within its bound.
LEMMA Budget ==
    ASSUME faults \in 0 .. MaxFaults, UNCHANGED faults \/ \E kind : PR!Fault(kind)
    PROVE  faults' \in 0 .. MaxFaults
  BY SameStore, FaultType

\* Every step of the provisioner is one of these moves, with at most one such write.
LEMMA ProvisionEffect ==
    ASSUME ProvTyped, StoreTypeOK, faults \in 0 .. MaxFaults, Provision
    PROVE  /\ UNCHANGED <<claimVars, node, labelled, pool>>
           /\ faults' \in 0 .. MaxFaults
           /\ Moves
           /\ \/ UNCHANGED <<log, current>>
              \/ \E c \in Claims : \E o :
                    /\ Tends(c, o)
                    /\ Creates(c, o) => \/ prov' = PR!NoProv
                                        \/ prov' = [prov EXCEPT !.needed = @ - 1]
  <1>1. PR!Reconcile /\ UNCHANGED claimVars BY DEF Provision
  <1> DEFINE Q == /\ UNCHANGED <<node, labelled, pool>>
                  /\ UNCHANGED faults \/ \E kind : PR!Fault(kind)
                  /\ Moves
                  /\ \/ UNCHANGED <<log, current>>
                     \/ \E c \in Claims : \E o :
                           /\ Tends(c, o)
                           /\ Creates(c, o) => \/ prov' = PR!NoProv
                                               \/ prov' = [prov EXCEPT !.needed = @ - 1]
  <1>2. ASSUME PR!PendingPodsForPool PROVE Q
    <2>1. Cardinality(PR!PendingPods) \in Nat
      <3>1. PR!PendingPods \subseteq Pods BY DEF PR!PendingPods, PR!Selecting
      <3> QED BY <3>1, XenoniteAssumption, FS_Subset, FS_CardinalityType
    <2>2. \/ prov' = PR!NoProv
          \/ \E n \in Nat : prov' = [PR!NoProv EXCEPT !.pc = "claims", !.pending = n]
      BY <1>2, <2>1, SameCount DEF PR!PendingPodsForPool
    <2> QED BY <1>2, <2>2 DEF PR!PendingPodsForPool, Moves, PR!storeVars, PR!nodeVars
  <1>3. ASSUME PR!ClaimsForPool PROVE Q
    <2> DEFINE copy == [c \in Claims |-> Cached(c)]
    <2>1. copy = [c \in Claims |-> PR!Cached(c)] BY SameStore
    <2>2. copy \in [Claims -> Objects] BY ServerType
    <2>3. ASSUME StaleReads = FALSE PROVE copy = [c \in Claims |-> Server(c)]
      <3>1. \A c \in Claims : Fresh(c) BY <1>3, <2>3, SameStore DEF PR!ClaimsForPool
      <3> QED BY <3>1 DEF Fresh, Cached, Server
    <2> HIDE DEF copy
    <2>4. /\ prov' = [prov EXCEPT !.pc = "scaleUp", !.copy = copy, !.todo = PR!Listed(copy),
                                  !.needed = PR!Needed(prov.pending, copy)]
          /\ UNCHANGED <<faults, log, current, node, labelled, pool>>
      BY <1>3, <2>1 DEF PR!ClaimsForPool, PR!storeVars, PR!nodeVars
    <2> QED BY <2>2, <2>3, <2>4 DEF Moves
  <1>4. ASSUME PR!CreateClaim PROVE Q
    <2>1. prov.pc = "scaleUp" /\ prov.needed > 0 /\ UNCHANGED <<node, labelled, pool>>
      BY <1>4 DEF PR!CreateClaim, PR!nodeVars
    <2>2. ASSUME PR!NewClaim
          PROVE  \E c \in Claims : \E o : StoreOther(c, o) /\ Creates(c, o)
      BY <2>1, <2>2, SameStore DEF PR!NewClaim, Creates
    <2>3. CASE PR!NewClaim /\ prov' = [prov EXCEPT !.needed = @ - 1] /\ UNCHANGED faults
      BY <2>1, <2>2, <2>3 DEF Moves, Tends
    <2>4. CASE PR!Fault("api") /\ UNCHANGED PR!storeVars /\ PR!Fail
      BY <2>1, <2>4 DEF Moves, PR!Fail, PR!storeVars
    <2>5. CASE PR!Fault("api") /\ PR!NewClaim /\ PR!Fail
      BY <2>1, <2>2, <2>5 DEF Moves, PR!Fail, Tends
    <2> QED BY <1>4, <2>3, <2>4, <2>5 DEF PR!CreateClaim
  <1>5. ASSUME PR!ScaledUp PROVE Q
    BY <1>5 DEF PR!ScaledUp, Moves, PR!storeVars, PR!nodeVars
  <1>6. ASSUME NEW c \in Claims, PR!KeepClaim(c) \/ PR!FoundEmpty(c) PROVE Q
    <2>1. c \in prov.todo /\ UNCHANGED <<faults, log, current, node, labelled, pool>>
      BY <1>6 DEF PR!KeepClaim, PR!FoundEmpty, PR!Considered, PR!Decide, PR!storeVars,
                  PR!nodeVars
    <2>2. \/ prov' = [prov EXCEPT !.pc = "clear", !.victim = c]
          \/ node[c] # "none" /\ prov' = [prov EXCEPT !.pc = "mark", !.victim = c]
      BY <1>6 DEF PR!KeepClaim, PR!FoundEmpty, PR!Decide, PR!isClaimNodeEmpty
    <2> QED BY <2>1, <2>2 DEF Moves
  <1>7. ASSUME NEW c \in Claims, PR!SkipDeleting(c) PROVE Q
    BY <1>7 DEF PR!SkipDeleting, PR!NextClaim, PR!storeVars, PR!nodeVars, Moves
  <1>8. ASSUME NEW t \in Times \cup {NoTime}, PR!Patch(prov.victim, t), prov.victim \in Claims,
               prov.pc = "mark" \/ (prov.pc = "clear" /\ prov.copy[prov.victim].since # NoTime)
        PROVE  /\ UNCHANGED faults
               /\ \E c \in Claims : \E o :
                     /\ Tends(c, o)
                     /\ Creates(c, o) => \/ prov' = PR!NoProv
                                         \/ prov' = [prov EXCEPT !.needed = @ - 1]
    <2> DEFINE c == prov.victim
    <2>1. StoreOther(c, [Server(c) EXCEPT !.since = t]) /\ Server(c).phase = "live"
      BY <1>8, SameStore DEF PR!Patch
    <2>2. Tends(c, [Server(c) EXCEPT !.since = t]) BY <1>8, <2>1 DEF Tends, Annotates
    <2>3. ~Creates(c, [Server(c) EXCEPT !.since = t]) BY <2>1 DEF Creates
    <2> QED BY <1>8, <2>2, <2>3 DEF PR!Patch
  <1>9. ASSUME NEW c \in Claims, PR!PatchFails(c)
        PROVE  (UNCHANGED faults \/ \E kind : PR!Fault(kind)) /\ UNCHANGED <<log, current>>
    BY <1>9 DEF PR!PatchFails, PR!storeVars
  <1>10. ASSUME PR!ClearEmptySince PROVE Q
    <2>1. /\ prov.victim \in Claims /\ prov.pc = "clear" /\ UNCHANGED <<node, labelled, pool>>
          /\ prov' = [prov EXCEPT !.pc = "scaleDown", !.victim = NoName,
                                  !.todo = @ \ {prov.victim}]
      BY <1>10 DEF PR!ClearEmptySince, PR!NextClaim, PR!nodeVars, ProvTyped, PR!AtClaim
    <2>2. Moves BY <2>1 DEF Moves
    <2>3. \/ UNCHANGED <<faults, log, current>>
          \/ prov.copy[prov.victim].since # NoTime /\ PR!Patch(prov.victim, NoTime)
          \/ PR!PatchFails(prov.victim)
      BY <1>10 DEF PR!ClearEmptySince, PR!storeVars
    <2>4. CASE prov.copy[prov.victim].since # NoTime /\ PR!Patch(prov.victim, NoTime)
      BY <1>8, <2>1, <2>2, <2>4
    <2>5. CASE PR!PatchFails(prov.victim) BY <1>9, <2>1, <2>2, <2>5
    <2> QED BY <2>1, <2>2, <2>3, <2>4, <2>5
  <1>11. ASSUME PR!MarkEmptyAndCheckGrace PROVE Q
    <2> DEFINE c == prov.victim
    <2>1. c \in Claims /\ prov.pc = "mark" /\ UNCHANGED <<node, labelled, pool>>
      BY <1>11 DEF PR!MarkEmptyAndCheckGrace, PR!nodeVars, ProvTyped, PR!AtClaim
    <2>2. CASE PR!Patch(c, 0) /\ PR!NextClaim(c)
      <3>1. 0 \in Times BY XenoniteAssumption
      <3>2. Moves BY <2>1, <2>2 DEF Moves, PR!NextClaim
      <3>3. PR!Patch(prov.victim, 0) BY <2>2
      <3>4. /\ UNCHANGED faults
            /\ \E d \in Claims : \E o :
                  /\ Tends(d, o)
                  /\ Creates(d, o) => \/ prov' = PR!NoProv
                                      \/ prov' = [prov EXCEPT !.needed = @ - 1]
        BY <1>8, <2>1, <3>1, <3>3
      <3> QED BY <2>1, <3>2, <3>4
    <2>3. CASE PR!PatchFails(c) /\ PR!Fail
      BY <1>9, <2>1, <2>3 DEF PR!Fail, Moves
    <2>4. CASE /\ UNCHANGED <<faults, PR!storeVars>>
               /\ \/ prov' = [prov EXCEPT !.pc = "delete"]
                  \/ PR!NextClaim(c)
      BY <2>1, <2>4 DEF Moves, PR!NextClaim, PR!storeVars
    <2> QED BY <1>11, <2>2, <2>3, <2>4 DEF PR!MarkEmptyAndCheckGrace
  <1>12. ASSUME PR!DeleteIdle PROVE Q
    <2> DEFINE c == prov.victim
    <2>1. c \in Claims /\ prov.pc = "delete" /\ UNCHANGED <<node, labelled, pool>>
      BY <1>12 DEF PR!DeleteIdle, ProvTyped, PR!AtClaim, PR!nodeVars
    <2>2. CASE PR!Fault("api") /\ UNCHANGED PR!storeVars /\ PR!Fail
      BY <2>1, <2>2 DEF PR!Fail, Moves, PR!storeVars
    <2>3. ASSUME prov' = [prov EXCEPT !.pc = "scaleDown", !.victim = NoName, !.todo = @ \ {c}]
          PROVE  Moves
      BY <2>1, <2>3 DEF Moves
    <2>4. CASE PR!DeleteRequest(c, FALSE) /\ UNCHANGED faults
               /\ prov' = [prov EXCEPT !.pc = "scaleDown", !.victim = NoName, !.todo = @ \ {c}]
      <3>1. /\ Server(c).phase = "live" /\ ~Server(c).del
            /\ StoreOther(c, Deleted(Server(c), FALSE))
        BY <2>1, <2>4, SameStore DEF PR!DeleteRequest
      <3>2. Tends(c, Deleted(Server(c), FALSE)) BY <2>1, <3>1 DEF Tends, Removes
      <3>3. ~Creates(c, Deleted(Server(c), FALSE)) BY <2>1 DEF Creates
      <3> QED BY <2>1, <2>3, <2>4, <3>2, <3>3
    <2>5. CASE UNCHANGED PR!storeVars /\ UNCHANGED faults
               /\ prov' = [prov EXCEPT !.pc = "scaleDown", !.victim = NoName, !.todo = @ \ {c}]
      BY <2>1, <2>3, <2>5 DEF PR!storeVars
    <2> QED BY <1>12, <2>2, <2>4, <2>5 DEF PR!DeleteIdle, PR!NextClaim
  <1>13. ASSUME PR!Reconciled PROVE Q
    BY <1>13 DEF PR!Reconciled, PR!UpdateStatus, PR!storeVars, Moves
  <1>14. ASSUME PR!ReadFails PROVE Q
    BY <1>14 DEF PR!ReadFails, PR!Fail, PR!storeVars, PR!nodeVars, Moves
  <1>15. Q
    BY <1>1, <1>2, <1>3, <1>4, <1>5, <1>6, <1>7, <1>10, <1>11, <1>12, <1>13, <1>14
       DEF PR!Reconcile
  <1> QED BY <1>1, <1>15, Budget

\* What is still to create is a number, and the limit leaves room for it.
LEMMA NeededBound ==
    ASSUME NEW n \in Nat, NEW copy
    PROVE  /\ PR!Needed(n, copy) \in Nat
           /\ Limit > 0 /\ PR!Needed(n, copy) # 0 =>
                Cardinality(PR!Listed(copy)) + PR!Needed(n, copy) <= Limit
  <1> DEFINE l == Cardinality(PR!Listed(copy))
             f == Cardinality(PR!InFlight(copy))
  <1>1. l \in Nat /\ f \in Nat
    <2>1. PR!Listed(copy) \subseteq Claims /\ PR!InFlight(copy) \subseteq Claims
      BY DEF PR!Listed, PR!InFlight
    <2> QED BY <2>1, XenoniteAssumption, FS_Subset, FS_CardinalityType
  <1>2. LET wanted == n - f
            capped == IF Limit > 0 /\ l + wanted > Limit THEN Limit - l ELSE wanted
        IN  PR!Needed(n, copy) = IF n = 0 \/ capped < 0 THEN 0 ELSE capped
    BY SameCount DEF PR!Needed
  <1> HIDE DEF l, f
  <1>3. Limit \in Nat BY XenoniteAssumption
  <1>4. /\ PR!Needed(n, copy) \in Nat
        /\ Limit > 0 /\ PR!Needed(n, copy) # 0 => l + PR!Needed(n, copy) <= Limit
    BY <1>1, <1>2, <1>3
  <1> QED BY <1>4 DEF l

\* A reconcile of the provisioner stays well typed.
LEMMA MovesTyped == ProvTyped /\ StoreTypeOK /\ Moves => ProvTyped'
  <1> SUFFICES ASSUME ProvTyped, StoreTypeOK, Moves PROVE ProvTyped'
    OBVIOUS
  <1>1. Unborn \in Objects BY DEF Unborn, Objects
  <1> USE DEF PR!ProvPC, PR!AtClaim
  <1>2. /\ PR!NoProv \in [pc: PR!ProvPC, pending: Nat, copy: [Claims -> Objects], needed: Nat,
                          todo: SUBSET Claims, victim: Claims \cup {NoName}]
        /\ PR!NoProv.pc = "idle"
    BY <1>1, SameStore DEF PR!NoProv
  <1>3. CASE prov' = PR!NoProv BY <1>2, <1>3 DEF ProvTyped
  <1>4. ASSUME NEW n \in Nat, prov' = [PR!NoProv EXCEPT !.pc = "claims", !.pending = n]
        PROVE  ProvTyped'
    BY <1>2, <1>4 DEF ProvTyped
  <1>5. ASSUME NEW copy \in [Claims -> Objects],
               prov' = [prov EXCEPT !.pc = "scaleUp", !.copy = copy, !.todo = PR!Listed(copy),
                                    !.needed = PR!Needed(prov.pending, copy)]
        PROVE  ProvTyped'
    <2>1. PR!Needed(prov.pending, copy) \in Nat BY NeededBound DEF ProvTyped
    <2>2. PR!Listed(copy) \subseteq Claims BY DEF PR!Listed
    <2> QED BY <1>5, <2>1, <2>2 DEF ProvTyped
  <1>6. CASE prov' = [prov EXCEPT !.pc = "scaleDown"] BY <1>6 DEF ProvTyped
  <1>7. CASE prov.needed > 0 /\ prov' = [prov EXCEPT !.needed = @ - 1]
    BY <1>7 DEF ProvTyped
  <1>8. ASSUME NEW c \in prov.todo, NEW pc \in {"clear", "mark"},
               prov' = [prov EXCEPT !.pc = pc, !.victim = c]
        PROVE  ProvTyped'
    BY <1>8 DEF ProvTyped
  <1>9. CASE prov.pc = "mark" /\ prov' = [prov EXCEPT !.pc = "delete"]
    BY <1>9 DEF ProvTyped
  <1>10. ASSUME NEW c \in Claims,
                prov' = [prov EXCEPT !.pc = "scaleDown", !.victim = NoName, !.todo = @ \ {c}]
         PROVE  ProvTyped'
    BY <1>10 DEF ProvTyped
  <1> QED BY <1>3, <1>4, <1>5, <1>6, <1>7, <1>8, <1>9, <1>10 DEF Moves

-----------------------------------------------------------------------------
(* The steps of the whole *)

\* Time in the words of the claim controller's proofs.
Aging == [o \in Objects |-> PR!Older(o)]

\* A tick ages an annotation, and neither adds nor removes one.
LEMMA OlderKeeps ==
    /\ Aging \in [Objects -> Objects] /\ CCP!Ages(Aging)
    /\ \A o \in Objects : /\ PR!Older(o).phase = o.phase
                          /\ PR!Older(o).since = NoTime <=> o.since = NoTime
  <1>1. ASSUME NEW o \in Objects
        PROVE  /\ PR!Older(o) \in Objects
               /\ PR!Older(o) = [o EXCEPT !.since = PR!Older(o).since]
               /\ PR!Older(o).since = NoTime <=> o.since = NoTime
               /\ PR!Older(o).phase = o.phase
    <2>1. Grace \in Nat \ {0} /\ Times = (0 .. Grace) \cup {Corrupt} /\ NoTime \notin Times
      BY XenoniteAssumption, StoreAssumption
    <2>2. CASE o.since \in 0 .. (Grace - 1)
      <3>1. PR!Older(o) = [o EXCEPT !.since = o.since + 1] BY <2>2 DEF PR!Older
      <3>2. o.since + 1 \in Times /\ o.since \in Times BY <2>1, <2>2
      <3> QED BY <2>1, <3>1, <3>2 DEF Objects
    <2>3. CASE o.since \notin 0 .. (Grace - 1)
      BY <2>3 DEF PR!Older, Objects
    <2> QED BY <2>2, <2>3
  <1>2. Aging \in [Objects -> Objects] BY <1>1 DEF Aging
  <1> QED BY <1>1, <1>2, SameStore DEF CCP!Ages, Aging

\* A tick ages every version, the copy and the list.
LEMMA TickAges ==
    ASSUME CCP!Inv, ProvTyped, Tick
    PROVE  /\ CCP!Aged(Aging)
           /\ prov' = [prov EXCEPT !.copy = [c \in Claims |-> Aging[prov.copy[c]]]]
  <1>1. StoreTypeOK /\ rec.obj \in Objects
    BY SameStore DEF CCP!Inv, CCP!TypeOK
  <1>2. \A c \in Claims : \A i \in 1 .. Len(log[c]) : log[c][i] \in Objects
    BY <1>1 DEF StoreTypeOK
  <1>3. log' = [c \in Claims |-> [i \in 1 .. Len(log[c]) |-> Aging[log[c][i]]]]
    BY <1>2 DEF Tick, PR!Tick, Aging
  <1>4. rec' = [rec EXCEPT !.obj = Aging[rec.obj]] BY <1>1 DEF Tick, Aging
  <1>5. CCP!Aged(Aging)
    BY <1>3, <1>4 DEF Tick, PR!Tick, PR!nodeVars, CCP!Aged, CCP!providerVars,
       CCP!clusterVars
  <1>6. prov' = [prov EXCEPT !.copy = [c \in Claims |-> Aging[prov.copy[c]]]]
    BY DEF Tick, PR!Tick, ProvTyped, Aging
  <1> QED BY <1>5, <1>6

\* What the provisioner writes is what the proofs of the claim controller expect of it.
LEMMA TendsProvided ==
    ASSUME ProvTyped, StoreTypeOK, NEW c \in Claims, NEW o, Tends(c, o),
           UNCHANGED <<claimVars, node, labelled, pool>>, faults' \in 0 .. MaxFaults
    PROVE  CCP!Provided(c, o)
  BY SameStore
     DEF Tends, Creates, Annotates, Removes, CCP!Provided, claimVars, CCP!clusterVars

\* Every step of the whole is a step of the claim controller or its surroundings, one of
\* the provisioner, or one that only the whole has.
LEMMA WholeStep ==
    ASSUME CCP!Inv, ProvTyped, [Next]_vars
    PROVE  /\ ProvTyped'
           /\ \/ [CCP!Next]_(CCP!vars)
              \/ CCP!Spent
              \/ \E c \in Claims : \E o : CCP!Provided(c, o)
              \/ CCP!Aged(Aging)
              \/ \E c \in Claims : CCP!Forgotten(c) /\ \A i \in VMIDs : vms[i].name # c
  <1>1. /\ StoreTypeOK /\ faults \in 0 .. MaxFaults
        /\ rec.obj \in Objects
    <2>1. CCP!StoreTypeOK /\ faults \in 0 .. MaxFaults /\ rec.obj \in CCP!Objects
      BY DEF CCP!Inv, CCP!TypeOK, CCP!ProviderTypeOK
    <2> QED BY <2>1, SameStore
  <1> DEFINE Q == \/ [CCP!Next]_(CCP!vars)
                  \/ CCP!Spent
                  \/ \E c \in Claims : \E o : CCP!Provided(c, o)
                  \/ CCP!Aged(Aging)
                  \/ \E c \in Claims : CCP!Forgotten(c) /\ \A i \in VMIDs : vms[i].name # c
  <1>2. CASE Provision
    <2>1. /\ UNCHANGED <<claimVars, node, labelled, pool>> /\ Moves
          /\ faults' \in 0 .. MaxFaults
          /\ UNCHANGED <<log, current>> \/ \E c \in Claims : \E o : Tends(c, o)
      BY <1>1, <1>2, ProvisionEffect
    <2>2. CASE UNCHANGED <<log, current>>
      <3>1. CCP!Spent BY <2>1, <2>2 DEF CCP!Spent, claimVars, CCP!clusterVars
      <3> QED BY <1>1, <2>1, <3>1, MovesTyped
    <2>3. CASE \E c \in Claims : \E o : Tends(c, o)
      BY <1>1, <2>1, <2>3, MovesTyped, TendsProvided
    <2> QED BY <2>1, <2>2, <2>3
  <1>3. ASSUME UNCHANGED prov PROVE ProvTyped' BY <1>3 DEF ProvTyped
  <1>4. CASE Drive
    BY <1>3, <1>4, SameController DEF Drive, CCP!Next
  <1>5. ASSUME NEW c \in Claims, Serve(c) PROVE ProvTyped' /\ Q
    BY <1>3, <1>5, SameController DEF Serve, provisionVars, CCP!Next
  <1>6. ASSUME NEW c \in Claims, WatchEvent(c) PROVE ProvTyped' /\ Q
    BY <1>3, <1>6, SameController DEF WatchEvent, PR!WatchEvent, CCP!Next
  <1>7. ASSUME NEW c \in Claims, Kubelet(c) \/ NodeLost(c) PROVE ProvTyped' /\ Q
    BY <1>3, <1>7, SameController DEF Kubelet, NodeLost, CCP!Next, CCP!Cluster
  <1>8. ASSUME NEW c \in Claims, ForgetName(c) PROVE ProvTyped' /\ Q
    <2>1. CCP!Forgotten(c)
      BY <1>8, SameStore DEF ForgetName, PR!ForgetName, CCP!Forgotten, claimVars,
                             CCP!providerVars
    <2> QED BY <1>3, <1>8, <2>1 DEF ForgetName, PR!ForgetName
  <1>9. CASE Hypervisor
    BY <1>3, <1>9, SameController DEF Hypervisor, provisionVars, CCP!Next, CCP!Cluster
  <1>10. ASSUME NEW p \in Pods, Scheduler(p) \/ Users(p) PROVE ProvTyped' /\ Q
    <2>1. CCP!Spent /\ UNCHANGED prov
      BY <1>1, <1>10 DEF Scheduler, Users, PR!BindPod, PR!PodPending, PR!PodLeaves, PR!PodGone,
         PR!storeVars, PR!nodeVars, claimVars, CCP!Spent, CCP!clusterVars
    <2> QED BY <1>3, <2>1
  <1>11. CASE Tick
    <2>1. /\ CCP!Aged(Aging)
          /\ prov' = [prov EXCEPT !.copy = [c \in Claims |-> Aging[prov.copy[c]]]]
      BY <1>11, TickAges
    <2>2. [c \in Claims |-> Aging[prov.copy[c]]] \in [Claims -> Objects]
      BY OlderKeeps DEF ProvTyped
    <2>3. ProvTyped' BY <2>1, <2>2 DEF ProvTyped
    <2> QED BY <2>1, <2>3
  <1>12. CASE DeletePool
    BY <1>3, <1>12, SameController DEF DeletePool, CCP!Next, CCP!Cluster
  <1>13. ASSUME NEW c \in Claims, Collect(c) PROVE ProvTyped' /\ Q
    BY <1>3, <1>13, SameController DEF Collect, provisionVars, CCP!Next, CCP!Cluster
  <1>14. CASE Crash
    <2>1. Moves BY <1>14 DEF Crash, PR!Crash, Moves
    <2>2. ProvTyped' BY <1>1, <2>1, MovesTyped
    <2> QED BY <1>14, <2>2, SameController DEF Crash, CCP!Next
  <1>15. CASE UNCHANGED vars
    <2>1. UNCHANGED CCP!vars
      BY <1>15 DEF vars, claimVars, CCP!vars, CCP!providerVars, CCP!storeVars, CCP!workVars,
                   CCP!clusterVars
    <2> QED BY <1>3, <1>15, <2>1 DEF vars, provisionVars
  <1> QED
    BY <1>2, <1>4, <1>5, <1>6, <1>7, <1>8, <1>9, <1>10, <1>11, <1>12, <1>13, <1>14, <1>15
       DEF Next, Operate

-----------------------------------------------------------------------------
(* The promise, kept by the whole *)

\* What is promised is the same for the whole and in the proofs of the claim controller.
LEMMA SamePromise ==
    /\ CCP!Life!Init => CC!Life!Init
    /\ CCP!Life!Next => CC!Life!Next
    /\ UNCHANGED <<[c \in Claims |-> CCP!Promise(CCP!Server(c))], CCP!Standing>> =>
          UNCHANGED <<[c \in Claims |-> CC!Promise(CC!Server(c))], CC!Standing>>
  BY DEF CC!Life!Init, CCP!Life!Init, CC!Life!Next, CCP!Life!Next, CC!Life!Create,
         CCP!Life!Create, CC!Life!Adopt, CCP!Life!Adopt, CC!Life!Record, CCP!Life!Record,
         CC!Life!Report, CCP!Life!Report, CC!Life!Delete, CCP!Life!Delete,
         CC!Life!Release, CCP!Life!Release, CC!Life!Vanish, CCP!Life!Vanish,
         CC!Life!Build, CCP!Life!Build, CC!Life!Lose, CCP!Life!Lose, CC!Life!Recycle,
         CCP!Life!Recycle, CC!Life!Blank, CCP!Life!Blank, CC!Life!Becomes,
         CCP!Life!Becomes, CC!Life!Live, CCP!Life!Live, CC!Life!Kept, CCP!Life!Kept,
         CC!Promise, CCP!Promise, CC!Server, CCP!Server, CC!isClaimReady,
         CCP!isClaimReady, CC!Standing, CCP!Standing, CC!PIDs, CCP!PIDs

\* What the claim controller keeps whatever happens, the whole keeps as well.
Kept == CCP!Inv /\ CCP!PlacedInv /\ ProvTyped

\* It holds at the start, where nothing has been promised yet.
LEMMA KeptInit == Init => Kept /\ CCP!Life!Init
  <1> SUFFICES ASSUME Init PROVE Kept /\ CCP!Life!Init
    OBVIOUS
  <1>1. CCP!Init BY SameController DEF Init
  <1>2. CCP!Inv /\ CCP!PlacedInv /\ CCP!Life!Init
    BY <1>1, CCP!InvInit, CCP!PlacedInit, CCP!LifeInit, XenoniteAssumption,
       SurroundingsAssumption, StoreAssumption DEF PIDs, CCP!PIDs
  <1>3. ProvTyped
    <2>1. Unborn \in Objects BY DEF Unborn, Objects
    <2> QED BY <2>1, SameStore DEF Init, PR!Init, PR!NoProv, ProvTyped, PR!ProvPC, PR!AtClaim
  <1> QED BY <1>2, <1>3 DEF Kept

\* Every step keeps it, and is one the promise allows or changes nothing of it.
LEMMA KeptStep ==
    ASSUME "migrate" \notin Faults, Kept, [Next]_vars
    PROVE  /\ Kept'
           /\ \/ CCP!Life!Next
              \/ UNCHANGED <<[c \in Claims |-> CCP!Promise(CCP!Server(c))], CCP!Standing>>
  <1> DEFINE Q == \/ CCP!Life!Next
                  \/ UNCHANGED <<[c \in Claims |-> CCP!Promise(CCP!Server(c))], CCP!Standing>>
  <1> USE XenoniteAssumption, SurroundingsAssumption, StoreAssumption DEF PIDs, CCP!PIDs
  <1>1. CCP!Inv /\ CCP!PlacedInv /\ ProvTyped /\ ProvTyped' BY WholeStep DEF Kept
  <1>2. CASE [CCP!Next]_(CCP!vars)
    <2>1. CCP!Inv' BY <1>1, <1>2, CCP!InvStep
    <2>2. CCP!PlacedInv' BY <1>1, <1>2, CCP!PlacedStep
    <2>3. Q BY <1>1, <1>2, CCP!StepRefines
    <2> QED BY <1>1, <2>1, <2>2, <2>3 DEF Kept
  <1>3. CASE CCP!Spent BY <1>1, <1>3, CCP!SpentKeeps DEF Kept
  <1>4. ASSUME NEW c \in Claims, NEW o, CCP!Provided(c, o) PROVE Kept' /\ Q
    <2>1. /\ CCP!Inv' /\ CCP!PlacedInv' /\ UNCHANGED vms
          /\ CCP!Store(c, o) /\ CCP!OtherWrite(c, o)
      BY <1>1, <1>4, CCP!ProvidedKeeps
    <2>2. Q BY <1>1, <2>1, CCP!OtherWriteRefines
    <2> QED BY <1>1, <2>1, <2>2 DEF Kept
  <1>5. CASE CCP!Aged(Aging)
    <2>1. CCP!Ages(Aging) BY OlderKeeps
    <2>2. CCP!Inv' /\ CCP!PlacedInv' BY <1>1, <1>5, <2>1, CCP!AgedKeeps
    <2>3. Q BY <1>1, <1>5, <2>1, CCP!AgedRefines
    <2> QED BY <1>1, <2>2, <2>3 DEF Kept
  <1>6. ASSUME NEW c \in Claims, CCP!Forgotten(c), \A i \in VMIDs : vms[i].name # c
        PROVE  Kept' /\ Q
    <2>1. CCP!Inv' /\ CCP!PlacedInv' BY <1>1, <1>6, CCP!ForgottenKeeps
    <2>2. Q BY <1>1, <1>6, CCP!ForgottenRefines
    <2> QED BY <1>1, <2>1, <2>2 DEF Kept
  <1> QED BY <1>2, <1>3, <1>4, <1>5, <1>6, WholeStep DEF Kept

\* What ClaimLifecycle promises of every claim - the finalizer before a providerID, one
\* providerID for good, Ready only after it, and the finalizer there until the machine it
\* records is gone - is kept while the two controllers work on the same claims: by each
\* write of Reconcile and ReconcileDelete, with the provisioner creating (CreateClaim),
\* annotating and deleting (MarkEmptyAndCheckGrace, DeleteIdle) in between, through stale
\* reads, conflicts, failed API and PVE calls, lost nodes and crashes.  Only a VM that an
\* administrator moves to another Proxmox node is left out.
THEOREM WholePromised ==
    ASSUME "migrate" \notin Faults
    PROVE  Spec => WholePromise
  <1>1. Init => Kept /\ CC!Life!Init BY KeptInit, SamePromise
  <1>2. Kept /\ [Next]_vars =>
          /\ Kept'
          /\ [CC!Life!Next]_<<[c \in Claims |-> CC!Promise(CC!Server(c))], CC!Standing>>
    BY KeptStep, SamePromise
  <1> QED BY <1>1, <1>2, PTL DEF Spec, WholePromise, CC!KeepsPromise, CC!Life!Spec

\* removeFinalizer lets a claim go only when its machine is gone, also while the provisioner
\* annotates and deletes claims between Delete, the verifying Get and the update: a claim that
\* has lost its finalizer has no machine left at its providerID.
THEOREM WholeReleased ==
    ASSUME "migrate" \notin Faults
    PROVE  Spec => []CC!ReleasedAfterTeardown
  <1>1. Init => Kept /\ CCP!Life!Init BY KeptInit
  <1>2. Kept /\ [Next]_vars =>
          /\ Kept'
          /\ [CCP!Life!Next]_<<[c \in Claims |-> CCP!Promise(CCP!Server(c))], CCP!Standing>>
    BY KeptStep
  <1>3. Spec => CCP!KeepsPromise
    BY <1>1, <1>2, PTL DEF Spec, CCP!KeepsPromise, CCP!Life!Spec
  <1>4. CCP!KeepsPromise => []CCP!Covered
    BY CCP!ContractCovers, XenoniteAssumption, SurroundingsAssumption, StoreAssumption
       DEF PIDs, CCP!PIDs
  <1>5. CCP!Covered => CC!ReleasedAfterTeardown
    BY DEF CCP!Covered, CC!ReleasedAfterTeardown, CCP!Standing, CCP!Promise, CCP!Server,
           CC!Server
  <1> QED BY <1>3, <1>4, <1>5, PTL

-----------------------------------------------------------------------------
(* Every machine is accounted for, and there are no more than the limit *)

\* The provisioner works on its list of claims: those of the list that had the annotation
\* record their machine, only listed claims are patched or deleted, and one whose Node was
\* there when it was found empty records its machine.
ListEarned ==
    /\ \A c \in Claims : prov.copy[c].phase = "live" /\ prov.copy[c].since # NoTime =>
          Server(c).pid # NoPID
    /\ prov.todo \subseteq {c \in Claims : prov.copy[c].phase = "live"}
    /\ prov.pc \in PR!AtClaim => prov.victim \in prov.todo
    /\ prov.pc \in {"mark", "delete"} => Server(prov.victim).pid # NoPID

\* The claims that exist and those that are still to be created.
Budgeted == Limit > 0 => Cardinality(PR!LiveClaims) + prov.needed <= Limit

\* The inductive invariant of the operator at work.
Accounted == Kept /\ CCP!TraceInv /\ ListEarned /\ Budgeted

\* What the proofs of the claim controller say of a machine, in the words of the whole.
LEMMA TraceSays ==
    ASSUME CCP!TraceInv
    PROVE  /\ \A i \in VMIDs, c \in Claims : vms[i].name = c =>
                 /\ Server(c).phase = "live"
                 /\ Server(c).pid # NoPID \/ (rec.pc = "creating" /\ rec.claim = c)
           /\ \A c \in Claims : node[c] # "none" \/ Server(c).since # NoTime =>
                 Server(c).pid # NoPID
           /\ \A c \in Claims : Server(c).phase = "live" /\ Server(c).pid # NoPID =>
                 Server(c).fin \/ Server(c).del
           /\ \A i, j \in VMIDs : vms[i].name \in Claims /\ vms[i].name = vms[j].name => i = j
  <1>1. \A c \in Claims : CCP!Server(c) = Server(c) BY SameStore
  <1>2. CCP!OneMachine
    BY CCP!TracedOnce, XenoniteAssumption, SurroundingsAssumption, StoreAssumption
       DEF PIDs, CCP!PIDs
  <1> QED
    BY <1>1, <1>2 DEF CCP!TraceInv, CCP!MachinesTraced, CCP!TracedAt, CCP!TendedRecorded,
                      CCP!Tended, CCP!RecordedHeld, CCP!OneMachine

\* A step that brings no claim to life and replaces no providerID, in the same words.
LEMMA ModestSays ==
    ASSUME CCP!Modest
    PROVE  \A c \in Claims : /\ Server(c).pid # NoPID => Server(c)'.pid # NoPID
                             /\ Server(c)'.phase = "live" => Server(c).phase = "live"
  <1>1. \A c \in Claims : CCP!Server(c) = Server(c) /\ CCP!Server(c)' = Server(c)'
    BY SameStore
  <1> QED BY <1>1 DEF CCP!Modest, CCP!KeepsPIDs

\* The number of claims is a number, and does not grow with such a step.
LEMMA LiveCount ==
    /\ IsFiniteSet(PR!LiveClaims) /\ Cardinality(PR!LiveClaims) \in Nat
    /\ Cardinality(PR!LiveClaims') \in Nat
    /\ (\A c \in Claims : Server(c)'.phase = "live" => Server(c).phase = "live") =>
          Cardinality(PR!LiveClaims') <= Cardinality(PR!LiveClaims)
  <1>1. /\ PR!LiveClaims = {c \in Claims : Server(c).phase = "live"}
        /\ PR!LiveClaims' = {c \in Claims : Server(c)'.phase = "live"}
    BY DEF PR!LiveClaims, PR!Server, Server
  <1>2. /\ IsFiniteSet(PR!LiveClaims) /\ Cardinality(PR!LiveClaims) \in Nat
        /\ Cardinality(PR!LiveClaims') \in Nat
    <2>1. PR!LiveClaims \in SUBSET Claims /\ PR!LiveClaims' \in SUBSET Claims BY <1>1
    <2> QED BY <2>1, XenoniteAssumption, FS_Subset, FS_CardinalityType
  <1>3. ASSUME \A c \in Claims : Server(c)'.phase = "live" => Server(c).phase = "live"
        PROVE  Cardinality(PR!LiveClaims') <= Cardinality(PR!LiveClaims)
    <2>1. PR!LiveClaims' \in SUBSET PR!LiveClaims BY <1>1, <1>3
    <2> QED BY <1>2, <2>1, FS_Subset
  <1> QED BY <1>2, <1>3

\* What the provisioner relies on survives such a step while its reconcile stands still ...
LEMMA ListStands ==
    ASSUME ListEarned, Budgeted, ProvTyped, CCP!Modest, UNCHANGED prov
    PROVE  ListEarned' /\ Budgeted'
  <1>1. ListEarned' BY ModestSays DEF ListEarned, ProvTyped, PR!AtClaim
  <1>2. Budgeted'
    <2>1. prov.needed \in Nat /\ Limit \in Nat BY XenoniteAssumption DEF ProvTyped
    <2>2. Cardinality(PR!LiveClaims') <= Cardinality(PR!LiveClaims) BY ModestSays, LiveCount
    <2> QED BY <2>1, <2>2, LiveCount DEF Budgeted
  <1> QED BY <1>1, <1>2

\* ... and while it moves on.
LEMMA ListMoves ==
    ASSUME StaleReads = FALSE, ListEarned, Budgeted, ProvTyped, StoreTypeOK, CCP!TraceInv,
           CCP!Modest, Moves
    PROVE  ListEarned' /\ Budgeted'
  <1>0. /\ prov.needed \in Nat /\ Limit \in Nat
        /\ Cardinality(PR!LiveClaims) \in Nat /\ Cardinality(PR!LiveClaims') \in Nat
        /\ Cardinality(PR!LiveClaims') <= Cardinality(PR!LiveClaims)
        /\ \A c \in Claims : Server(c).pid # NoPID => Server(c)'.pid # NoPID
    BY XenoniteAssumption, ModestSays, LiveCount DEF ProvTyped
  <1> USE DEF PR!AtClaim
  <1>1. PR!NoProv = [pc |-> "idle", pending |-> 0, copy |-> [c \in Claims |-> Unborn],
                     needed |-> 0, todo |-> {}, victim |-> NoName]
    BY SameStore DEF PR!NoProv
  <1>2. CASE prov' = PR!NoProv
    BY <1>0, <1>1, <1>2 DEF ListEarned, Budgeted, Unborn
  <1>3. ASSUME NEW n \in Nat, prov' = [PR!NoProv EXCEPT !.pc = "claims", !.pending = n]
        PROVE  ListEarned' /\ Budgeted'
    BY <1>0, <1>1, <1>3 DEF ListEarned, Budgeted, Unborn
  <1>4. ASSUME NEW copy \in [Claims -> Objects], copy = [c \in Claims |-> Server(c)],
               prov' = [prov EXCEPT !.pc = "scaleUp", !.copy = copy, !.todo = PR!Listed(copy),
                                    !.needed = PR!Needed(prov.pending, copy)],
               UNCHANGED log
        PROVE  ListEarned' /\ Budgeted'
    <2>1. /\ prov'.pc = "scaleUp" /\ prov'.copy = copy /\ prov'.todo = PR!Listed(copy)
          /\ prov'.needed = PR!Needed(prov.pending, copy) /\ prov.pending \in Nat
      BY <1>4 DEF ProvTyped
    <2>2. \A c \in Claims : Server(c)' = Server(c) BY <1>4 DEF Server
    <2>3. ListEarned' BY <1>4, <2>1, <2>2, TraceSays DEF ListEarned, PR!Listed
    <2>4. PR!Listed(copy) = PR!LiveClaims'
      BY <1>4, <2>2 DEF PR!Listed, PR!LiveClaims, PR!Server, Server
    <2>5. Budgeted' BY <1>0, <2>1, <2>4, NeededBound DEF Budgeted
    <2> QED BY <2>3, <2>5
  <1>5. CASE prov' = [prov EXCEPT !.pc = "scaleDown"]
    BY <1>0, <1>5 DEF ProvTyped, ListEarned, Budgeted
  <1>6. CASE prov.needed > 0 /\ prov' = [prov EXCEPT !.needed = @ - 1]
    BY <1>0, <1>6 DEF ProvTyped, ListEarned, Budgeted
  <1>7. ASSUME NEW c \in prov.todo, NEW pc \in {"clear", "mark"},
               pc = "mark" => node[c] # "none",
               prov' = [prov EXCEPT !.pc = pc, !.victim = c]
        PROVE  ListEarned' /\ Budgeted'
    <2>1. c \in Claims /\ (pc = "mark" => Server(c)'.pid # NoPID)
      BY <1>0, <1>7, TraceSays DEF ProvTyped
    <2>2. /\ prov'.pc = pc /\ prov'.victim = c /\ prov'.copy = prov.copy
          /\ prov'.todo = prov.todo /\ prov'.needed = prov.needed
      BY <1>7 DEF ProvTyped
    <2> QED BY <1>0, <1>7, <2>1, <2>2 DEF ListEarned, Budgeted
  <1>8. CASE prov.pc = "mark" /\ prov' = [prov EXCEPT !.pc = "delete"]
    BY <1>0, <1>8 DEF ProvTyped, ListEarned, Budgeted
  <1>9. ASSUME NEW c \in Claims,
               prov' = [prov EXCEPT !.pc = "scaleDown", !.victim = NoName, !.todo = @ \ {c}]
        PROVE  ListEarned' /\ Budgeted'
    BY <1>0, <1>9 DEF ProvTyped, ListEarned, Budgeted
  <1> QED BY <1>2, <1>3, <1>4, <1>5, <1>6, <1>7, <1>8, <1>9 DEF Moves

\* The bounded environment in which this is so: reconciles start from a cache that has
\* caught up, no VM joins before Create has seen it started, and neither an API write
\* nor a PVE call fails nor a VM is moved.
Steady ==
    /\ StaleReads = FALSE /\ FastBoot = FALSE
    /\ {"api", "pve", "migrate"} \cap Faults = {}

\* A write of the provisioner concerns a new claim, or one that records its machine.
LEMMA TendsTraced ==
    ASSUME Accounted, NEW c \in Claims, NEW o, Tends(c, o),
           UNCHANGED <<claimVars, node, labelled, pool>>
    PROVE  /\ CCP!TraceInv'
           /\ Server(c).phase = "live" => CCP!Modest
           /\ Server(c)' = o /\ \A d \in Claims \ {c} : Server(d)' = Server(d)
  <1> USE XenoniteAssumption, SurroundingsAssumption, StoreAssumption DEF PIDs, CCP!PIDs
  <1>1. CCP!Inv /\ CCP!TraceInv /\ ProvTyped /\ ListEarned BY DEF Accounted, Kept
  <1>2. StoreTypeOK /\ Server(c) \in Objects
    BY <1>1, SameStore, ServerType DEF CCP!Inv, CCP!TypeOK
  <1>3. Server(c).phase = "unborn" => Server(c) = Unborn
    BY <1>1, SameStore DEF CCP!Inv, CCP!UnbornIsEmpty
  <1>4. /\ o \in Objects /\ o.phase = "live" /\ o.pid = Server(c).pid
        /\ \/ Server(c).phase = "unborn" /\ o.since = NoTime /\ ~o.del
           \/ /\ Server(c).phase = "live" /\ Server(c).pid # NoPID
              /\ o.fin = Server(c).fin /\ (Server(c).del => o.del)
    <2>1. CASE Creates(c, o) BY <1>3, <2>1 DEF Creates, Unborn, Objects
    <2>2. CASE Annotates(c, o)
      <3>1. PICK t \in Times \cup {NoTime} : o = [Server(c) EXCEPT !.since = t]
        BY <2>2 DEF Annotates
      <3>2. /\ o \in Objects /\ o.phase = Server(c).phase /\ o.pid = Server(c).pid
            /\ o.fin = Server(c).fin /\ o.del = Server(c).del
        BY <1>2, <3>1 DEF Objects
      <3>3. Server(c).pid # NoPID BY <1>1, <2>2 DEF Annotates, ListEarned, PR!AtClaim
      <3> QED BY <2>2, <3>2, <3>3 DEF Annotates
    <2>3. CASE Removes(c, o)
      <3>1. Server(c).pid # NoPID BY <1>1, <2>3 DEF Removes, ListEarned
      <3>2. Server(c).fin BY <1>1, <2>3, <3>1, TraceSays DEF Removes
      <3>3. o = [Server(c) EXCEPT !.del = TRUE] BY <2>3, <3>2 DEF Removes, Deleted
      <3>4. /\ o \in Objects /\ o.phase = Server(c).phase /\ o.pid = Server(c).pid
            /\ o.fin = Server(c).fin /\ o.del
        BY <1>2, <3>3 DEF Objects
      <3> QED BY <2>3, <3>1, <3>4 DEF Removes
    <2> QED BY <2>1, <2>2, <2>3 DEF Tends
  <1>5. StoreOther(c, o) BY DEF Tends
  <1>6. Server(c)' = o /\ \A d \in Claims \ {c} : Server(d)' = Server(d)
    BY <1>2, <1>4, <1>5, StoreEffect DEF StoreOther, Server
  <1>7. /\ CCP!StoreOther(c, o) /\ o \in CCP!Objects /\ CCP!Server(c) = Server(c)
        /\ UNCHANGED <<vms, call, rec, node>>
    BY <1>4, <1>5, SameStore DEF claimVars
  <1>8. CCP!TraceInv' /\ (Server(c).phase = "live" => CCP!Modest)
    BY <1>1, <1>4, <1>7, CCP!TendTrace
  <1> QED BY <1>6, <1>8

\* A step of the provisioner.
LEMMA ProvisionAccounted ==
    ASSUME Steady, Accounted, Provision
    PROVE  CCP!TraceInv' /\ ListEarned' /\ Budgeted'
  <1> USE XenoniteAssumption, SurroundingsAssumption, StoreAssumption DEF PIDs, CCP!PIDs
  <1>1. CCP!Inv /\ CCP!TraceInv /\ ProvTyped /\ ListEarned /\ Budgeted /\ StaleReads = FALSE
    BY DEF Accounted, Kept, Steady
  <1>2. StoreTypeOK /\ faults \in 0 .. MaxFaults
    BY <1>1, SameStore DEF CCP!Inv, CCP!TypeOK, CCP!ProviderTypeOK
  <1>3. /\ UNCHANGED <<claimVars, node, labelled, pool>> /\ Moves
        /\ \/ UNCHANGED <<log, current>>
           \/ \E c \in Claims : \E o :
                 /\ Tends(c, o)
                 /\ Creates(c, o) => \/ prov' = PR!NoProv
                                     \/ prov' = [prov EXCEPT !.needed = @ - 1]
    BY <1>1, <1>2, ProvisionEffect
  <1>4. CASE UNCHANGED <<log, current>>
    <2>1. /\ UNCHANGED <<call, rec, current, vms, node>>
          /\ \A c \in Claims : CCP!Server(c)' = CCP!Server(c)
      BY <1>3, <1>4 DEF claimVars, CCP!Server
    <2>2. CCP!TraceInv' /\ CCP!Modest BY <1>1, <2>1, CCP!StandStillTrace
    <2> QED BY <1>1, <1>2, <1>3, <2>2, ListMoves
  <1>5. ASSUME NEW c \in Claims, NEW o, Tends(c, o),
               Creates(c, o) => prov' = PR!NoProv \/ prov' = [prov EXCEPT !.needed = @ - 1]
        PROVE  CCP!TraceInv' /\ ListEarned' /\ Budgeted'
    <2>1. /\ CCP!TraceInv' /\ (Server(c).phase = "live" => CCP!Modest)
          /\ Server(c)' = o /\ \A d \in Claims \ {c} : Server(d)' = Server(d)
      BY <1>3, <1>5, TendsTraced
    <2>2. CASE Server(c).phase = "live" BY <1>1, <1>2, <1>3, <2>1, <2>2, ListMoves
    <2>3. CASE Creates(c, o)
      <3>1. /\ Server(c).phase = "unborn" /\ o.phase = "live" /\ prov.needed > 0
            /\ prov' = PR!NoProv \/ prov' = [prov EXCEPT !.needed = @ - 1]
        BY <1>5, <2>3 DEF Creates, Unborn
      <3>2. PR!LiveClaims' = PR!LiveClaims \cup {c} /\ c \notin PR!LiveClaims
        <4>1. /\ PR!LiveClaims = {d \in Claims : Server(d).phase = "live"}
              /\ PR!LiveClaims' = {d \in Claims : Server(d)'.phase = "live"}
          BY DEF PR!LiveClaims, PR!Server, Server
        <4> QED BY <2>1, <3>1, <4>1
      <3>3. Cardinality(PR!LiveClaims') = Cardinality(PR!LiveClaims) + 1
        BY <3>2, LiveCount, FS_AddElement
      <3>4. /\ prov.needed \in Nat /\ Limit \in Nat /\ Cardinality(PR!LiveClaims) \in Nat
        BY <1>1, LiveCount DEF ProvTyped
      <3>5. PR!NoProv = [pc |-> "idle", pending |-> 0, copy |-> [d \in Claims |-> Unborn],
                         needed |-> 0, todo |-> {}, victim |-> NoName]
        BY SameStore DEF PR!NoProv
      <3>6. CASE prov' = PR!NoProv
        BY <1>1, <2>1, <3>1, <3>3, <3>4, <3>5, <3>6 DEF ListEarned, Budgeted, Unborn, PR!AtClaim
      <3>7. CASE prov' = [prov EXCEPT !.needed = @ - 1]
        <4>1. /\ prov'.needed = prov.needed - 1 /\ prov'.copy = prov.copy
              /\ prov'.todo = prov.todo /\ prov'.pc = prov.pc /\ prov'.victim = prov.victim
          BY <1>1, <3>7 DEF ProvTyped
        <4>2. Server(c) = Unborn
          BY <1>1, <3>1, SameStore DEF CCP!Inv, CCP!UnbornIsEmpty
        <4>3. Server(c).pid = NoPID BY <4>2 DEF Unborn
        <4>4. ListEarned' BY <1>1, <2>1, <4>1, <4>3 DEF ListEarned, ProvTyped, PR!AtClaim
        <4>5. Budgeted' BY <1>1, <3>3, <3>4, <4>1 DEF Budgeted
        <4> QED BY <2>1, <4>4, <4>5
      <3> QED BY <3>1, <3>6, <3>7
    <2> QED BY <1>5, <2>2, <2>3 DEF Tends, Annotates, Removes
  <1> QED BY <1>3, <1>4, <1>5

\* The other steps of the operator at work.
LEMMA OperateAccounted ==
    ASSUME Steady, Accounted, Kept', Operate, ~Provision
    PROVE  CCP!TraceInv' /\ ListEarned' /\ Budgeted'
  <1> USE XenoniteAssumption, SurroundingsAssumption, StoreAssumption DEF PIDs, CCP!PIDs
  <1>1. /\ CCP!Inv /\ CCP!PlacedInv /\ CCP!TraceInv /\ ProvTyped /\ ListEarned /\ Budgeted
        /\ StaleReads = FALSE /\ FastBoot = FALSE /\ "api" \notin Faults /\ "pve" \notin Faults
    BY DEF Accounted, Kept, Steady
  <1>2. /\ StoreTypeOK
        /\ \A c \in Claims : CCP!Server(c) = Server(c) /\ CCP!Server(c)' = Server(c)'
    BY <1>1, SameStore DEF CCP!Inv, CCP!TypeOK
  <1>3. ASSUME CCP!TraceInv', CCP!Modest, UNCHANGED prov
        PROVE  CCP!TraceInv' /\ ListEarned' /\ Budgeted'
    BY <1>1, <1>3, ListStands
  <1>4. ASSUME UNCHANGED <<call, rec, current, prov>>,
               \A c \in Claims : Server(c)' = Server(c),
               \A i \in VMIDs : vms'[i].name \in Claims => vms'[i].name = vms[i].name,
               \A c \in Claims : node'[c] # "none" => node[c] # "none" \/ Server(c).pid # NoPID
        PROVE  CCP!TraceInv' /\ ListEarned' /\ Budgeted'
    <2>1. CCP!TraceInv' /\ CCP!Modest BY <1>1, <1>2, <1>4, CCP!StandStillTrace
    <2> QED BY <1>3, <1>4, <2>1
  <1>5. CASE Drive
    <2>1. CCP!Controller /\ UNCHANGED prov BY <1>5, SameController DEF Drive
    <2>2. CASE CCP!ProviderStep
      <3>1. [CCP!Next]_(CCP!vars) BY <2>1 DEF CCP!Next
      <3> QED BY <1>1, <1>3, <2>1, <2>2, <3>1, CCP!ProviderTrace
    <2>3. CASE ~CCP!ProviderStep BY <1>1, <1>3, <2>1, <2>3, CCP!ControllerTrace
    <2> QED BY <2>2, <2>3
  <1>6. ASSUME NEW c \in Claims, Serve(c) PROVE CCP!TraceInv' /\ ListEarned' /\ Budgeted'
    <2>1. CCP!Reconcile(c) /\ UNCHANGED prov BY <1>6, SameController DEF Serve, provisionVars
    <2> QED BY <1>1, <1>3, <2>1, CCP!ReconcileTrace
  <1>7. ASSUME NEW c \in Claims, WatchEvent(c) PROVE CCP!TraceInv' /\ ListEarned' /\ Budgeted'
    <2>1. CCP!WatchEvent(c) /\ UNCHANGED prov
      BY <1>7, SameController DEF WatchEvent, PR!WatchEvent
    <2>2. CCP!Observe(c) /\ UNCHANGED <<vms, call, rec, current, node>>
      BY <2>1 DEF CCP!WatchEvent, CCP!providerVars, CCP!clusterVars
    <2>3. Observe(c)
      BY <2>2 DEF CCP!Observe, Observe, CCP!Fresh, Fresh
    <2>4. \A d \in Claims : Server(d)' = Server(d) BY <1>2, <2>3, ObserveEffect DEF Server
    <2> QED BY <1>4, <2>1, <2>2, <2>4
  <1>8. ASSUME NEW c \in Claims, Kubelet(c) PROVE CCP!TraceInv' /\ ListEarned' /\ Budgeted'
    <2>1. /\ CCP!JoinNode(c) \/ CCP!KubeletReady(c)
          /\ UNCHANGED prov
          /\ ~(rec.pc = "creating" /\ rec.claim = c)
      BY <1>1, <1>8, SameController DEF Kubelet
    <2>2. /\ UNCHANGED <<vms, call, rec, log, current, prov>>
          /\ \A d \in Claims \ {c} : node'[d] = node[d]
      BY <1>8 DEF Kubelet, CC!JoinNode, CC!KubeletReady, CC!providerVars, CC!storeVars,
                  CC!workVars, Accounted, Kept, CCP!Inv, CCP!TypeOK
    <2>3. PICK i \in VMIDs : vms[i].name = c
      BY <2>1 DEF CCP!JoinNode, CCP!KubeletReady, CCP!MachineRuns
    <2>4. Server(c).pid # NoPID BY <1>1, <2>1, <2>3, TraceSays
    <2>5. \A d \in Claims : Server(d)' = Server(d) BY <2>2 DEF Server
    <2> QED BY <1>4, <2>2, <2>4, <2>5
  <1>9. ASSUME NEW c \in Claims, NodeLost(c) PROVE CCP!TraceInv' /\ ListEarned' /\ Budgeted'
    <2>1. /\ UNCHANGED <<vms, call, rec, log, current, prov>>
          /\ \A d \in Claims : node'[d] # "none" => node[d] # "none"
      BY <1>9 DEF NodeLost, CC!KubeletLost, CC!RemoveNode, CC!providerVars, CC!storeVars,
                  CC!workVars, Accounted, Kept, CCP!Inv, CCP!TypeOK
    <2>2. \A d \in Claims : Server(d)' = Server(d) BY <2>1 DEF Server
    <2> QED BY <1>4, <2>1, <2>2
  <1>10. ASSUME NEW c \in Claims, ForgetName(c) PROVE CCP!TraceInv' /\ ListEarned' /\ Budgeted'
    <2>1. CCP!Forgotten(c)
      BY <1>10, SameStore DEF ForgetName, PR!ForgetName, CCP!Forgotten, claimVars,
                              CCP!providerVars
    <2>2. UNCHANGED prov /\ prov.copy[c].phase # "live"
      BY <1>10 DEF ForgetName, PR!ForgetName
    <2>3. CCP!Forgotten(c) /\ UNCHANGED prov /\ prov.copy[c].phase # "live"
      BY <2>1, <2>2
    <2>4. /\ CCP!TraceInv' /\ Server(c)'.phase = "unborn"
          /\ \A d \in Claims \ {c} : Server(d)' = Server(d)
      BY <1>1, <1>2, <2>3, CCP!ForgottenTrace
    <2>5. ListEarned' BY <1>1, <2>3, <2>4 DEF ListEarned, ProvTyped, PR!AtClaim
    <2>6. Budgeted'
      <3>1. prov.needed \in Nat /\ Limit \in Nat BY <1>1 DEF ProvTyped
      <3>2. Cardinality(PR!LiveClaims') <= Cardinality(PR!LiveClaims) BY <2>4, LiveCount
      <3> QED BY <1>1, <2>3, <3>1, <3>2, LiveCount DEF Budgeted
    <2> QED BY <2>4, <2>5, <2>6
  <1>11. CASE Hypervisor
    <2>1. CCP!HypervisorStep /\ UNCHANGED <<call, rec, log, current, node, prov>>
      <3>1. CCP!HypervisorStep /\ UNCHANGED prov
        BY <1>11, SameController DEF Hypervisor, provisionVars
      <3> QED
        BY <3>1 DEF CCP!HypervisorStep, CCP!Hypervisor, CCP!TaskDone, CCP!TaskFailed,
                    CCP!ForeignCreate, CCP!AdminRemove, CCP!Migrate, CCP!RemoveHost,
                    CCP!storeVars, CCP!workVars, CCP!clusterVars
    <2>2. \A j \in VMIDs : vms'[j].name \in Claims => vms'[j].name = vms[j].name
      BY <1>1, <2>1, CCP!HypervisorNames
    <2>3. \A d \in Claims : Server(d)' = Server(d) BY <2>1 DEF Server
    <2> QED BY <1>4, <2>1, <2>2, <2>3
  <1>12. ASSUME NEW p \in Pods, Scheduler(p) \/ Users(p)
         PROVE  CCP!TraceInv' /\ ListEarned' /\ Budgeted'
    <2>1. UNCHANGED <<vms, call, rec, log, current, node, prov>>
      BY <1>12 DEF Scheduler, Users, PR!BindPod, PR!PodPending, PR!PodLeaves, PR!PodGone,
         PR!storeVars, PR!nodeVars, claimVars
    <2>2. \A d \in Claims : Server(d)' = Server(d) BY <2>1 DEF Server
    <2> QED BY <1>4, <2>1, <2>2
  <1>13. CASE Tick
    <2>1. /\ CCP!Aged(Aging)
          /\ prov' = [prov EXCEPT !.copy = [c \in Claims |-> Aging[prov.copy[c]]]]
      BY <1>1, <1>13, TickAges
    <2>2. CCP!TraceInv' /\ CCP!Modest BY <1>1, <2>1, OlderKeeps, CCP!AgedTrace
    <2>3. /\ prov'.pc = prov.pc /\ prov'.todo = prov.todo /\ prov'.victim = prov.victim
          /\ prov'.needed = prov.needed
          /\ \A c \in Claims : /\ prov'.copy[c].phase = prov.copy[c].phase
                               /\ prov'.copy[c].since = NoTime <=> prov.copy[c].since = NoTime
      BY <1>1, <2>1, OlderKeeps DEF ProvTyped, Aging
    <2>4. ListEarned' BY <1>1, <2>2, <2>3, ModestSays DEF ListEarned, ProvTyped, PR!AtClaim
    <2>5. Budgeted'
      <3>1. prov.needed \in Nat /\ Limit \in Nat BY <1>1 DEF ProvTyped
      <3>2. Cardinality(PR!LiveClaims') <= Cardinality(PR!LiveClaims)
        BY <2>2, ModestSays, LiveCount
      <3> QED BY <1>1, <2>3, <3>1, <3>2, LiveCount DEF Budgeted
    <2> QED BY <2>2, <2>4, <2>5
  <1> QED
    BY <1>5, <1>6, <1>7, <1>8, <1>9, <1>10, <1>11, <1>12, <1>13 DEF Operate

\* It holds at the start, and every step of the operator at work keeps it.
LEMMA AccountedAlways == Steady => (Init /\ [][Operate]_vars => []Accounted)
  <1> SUFFICES ASSUME Steady PROVE Init /\ [][Operate]_vars => []Accounted
    OBVIOUS
  <1> USE XenoniteAssumption, SurroundingsAssumption, StoreAssumption DEF PIDs, CCP!PIDs
  <1>1. Init => Accounted
    <2> SUFFICES ASSUME Init PROVE Accounted
      OBVIOUS
    <2>1. CCP!Init BY SameController DEF Init
    <2>2. Kept /\ CCP!TraceInv BY <2>1, KeptInit, CCP!TraceInit
    <2>3. /\ prov = [pc |-> "idle", pending |-> 0, copy |-> [c \in Claims |-> Unborn],
                     needed |-> 0, todo |-> {}, victim |-> NoName]
          /\ \A c \in Claims : Server(c) = Unborn
      BY SameStore DEF Init, PR!Init, PR!NoProv, PR!StoreInit, Server
    <2>4. ListEarned BY <2>3 DEF ListEarned, Unborn, PR!AtClaim
    <2>5. Cardinality(PR!LiveClaims) = 0
      <3>1. PR!LiveClaims = {c \in Claims : Server(c).phase = "live"}
        BY DEF PR!LiveClaims, PR!Server, Server
      <3>2. PR!LiveClaims = {} BY <2>3, <3>1 DEF Unborn
      <3> QED BY <3>2, FS_EmptySet
    <2>6. Budgeted BY <2>3, <2>5 DEF Budgeted
    <2> QED BY <2>2, <2>4, <2>6 DEF Accounted
  <1>2. Accounted /\ [Operate]_vars => Accounted'
    <2> SUFFICES ASSUME Accounted, [Operate]_vars PROVE Accounted'
      OBVIOUS
    <2>1. [Next]_vars BY DEF Next
    <2>2. Kept' BY <2>1, KeptStep DEF Accounted, Steady
    <2>3. CASE Provision BY <2>2, <2>3, ProvisionAccounted DEF Accounted
    <2>4. CASE Operate /\ ~Provision BY <2>2, <2>4, OperateAccounted DEF Accounted
    <2>5. CASE UNCHANGED vars
      <3>1. UNCHANGED <<vms, call, rec, log, current, node, prov>>
        BY <2>5 DEF vars, claimVars, provisionVars
      <3>2. \A c \in Claims : CCP!Server(c)' = CCP!Server(c) BY <3>1 DEF CCP!Server
      <3>3. CCP!TraceInv' /\ CCP!Modest
        BY <3>1, <3>2, CCP!StandStillTrace DEF Accounted, Kept
      <3> QED BY <2>2, <3>1, <3>3, ListStands DEF Accounted, Kept
    <2> QED BY <2>3, <2>4, <2>5
  <1> QED BY <1>1, <1>2, PTL

\* poolNodeLimit also caps the machines: CreateClaim counts the claims against a list that the
\* reconcile took at its start, creates at most what is left, and ReconcileDelete removes the
\* finalizer only when the VM is gone, so no claim leaves a machine behind to be uncounted.
THEOREM LimitHolds == ASSUME Steady PROVE SteadySpec => []MachinesWithinLimit
  <1>1. Accounted => MachinesWithinLimit
    <2> SUFFICES ASSUME Accounted, Limit > 0 PROVE Cardinality(Machines) <= Limit
      BY DEF MachinesWithinLimit
    <2> DEFINE f == [i \in Machines |-> vms[i].name]
    <2>1. CCP!TraceInv BY DEF Accounted
    <2>2. PR!LiveClaims = {c \in Claims : Server(c).phase = "live"}
      BY DEF PR!LiveClaims, PR!Server, Server
    <2>3. f \in Injection(Machines, PR!LiveClaims)
      BY <2>1, <2>2, TraceSays DEF Injection, IsInjective, Machines
    <2> HIDE DEF f
    <2>4. Cardinality(Machines) <= Cardinality(PR!LiveClaims) /\ IsFiniteSet(Machines)
      BY <2>3, LiveCount, FS_Injection
    <2>5. Cardinality(Machines) \in Nat BY <2>4, FS_CardinalityType
    <2>6. /\ Cardinality(PR!LiveClaims) \in Nat /\ prov.needed \in Nat /\ Limit \in Nat
          /\ Cardinality(PR!LiveClaims) + prov.needed <= Limit
      BY LiveCount, XenoniteAssumption DEF Accounted, Kept, ProvTyped, Budgeted
    <2> QED BY <2>4, <2>5, <2>6
  <1> QED BY <1>1, AccountedAlways, PTL DEF SteadySpec

\* No machine is left of a claim that is gone: the claim records it, and the finalizer is held
\* until ReconcileDelete has seen it disappear, or Create still runs and RecordProviderID will
\* write to a claim that nobody has touched, since the provisioner annotates and deletes only
\* claims that have a Node.
THEOREM MachinesFindable == ASSUME Steady PROVE SteadySpec => []TeardownFindsMachine
  <1>1. Accounted => TeardownFindsMachine
    BY TraceSays DEF Accounted, TeardownFindsMachine, Machines
  <1> QED BY <1>1, AccountedAlways, PTL DEF SteadySpec
=============================================================================
