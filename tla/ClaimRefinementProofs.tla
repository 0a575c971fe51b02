------------------------ MODULE ClaimRefinementProofs ------------------------
(***************************************************************************)
(* The claim controller implements ClaimLifecycle as long as no VM is      *)
(* migrated, and therefore releases a claim only after the VM it records   *)
(* is gone.  What the invariant of ClaimSafetyProofs lacks for that is     *)
(* where the machines are, where the providerIDs say they are, and what    *)
(* each point of a teardown knows about the machine.                       *)
(***************************************************************************)
EXTENDS ClaimSafetyProofs

OnTarget(o) == o.pid # NoPID => o.pid.node = Target

\* Every machine is on the node that new machines are placed on, and a VMID without
\* a machine has no name.
MachinesPlaced ==
    \A i \in VMIDs : vms[i].host = Target /\ (vms[i].st = "none" => vms[i].name = NoName)

\* So is the node of every providerID: in each version the cache may still serve, ...
VersionsPlaced == \A c \in Claims : \A i \in 1 .. Len(log[c]) : OnTarget(log[c][i])

\* ... in the copy of the reconcile and in the operation of the provider.
CopyPlaced == OnTarget(rec.obj) /\ OnTarget(call)

Gone(o, c) == o.pid # NoPID => vms[o.pid.vmid].name # c

\* A teardown goes on under the finalizer, asks Get about the machine it has deleted,
\* and releases the claim when that machine is gone.
TeardownOrder ==
    /\ rec.pc \in {"deleting", "verifying", "release"} => rec.obj.fin
    /\ rec.pc = "verifying" =>
        /\ call.pc \in {"get", "returned"} /\ call.pid = rec.obj.pid /\ call.pid # NoPID
        /\ call.pc = "returned" /\ ~call.err /\ ~call.inst => Gone(rec.obj, rec.claim)
    /\ rec.pc = "release" => Gone(rec.obj, rec.claim)

PlacedInv == MachinesPlaced /\ VersionsPlaced /\ CopyPlaced /\ TeardownOrder

-----------------------------------------------------------------------------
(* What the steps write *)

\* The versions that a reconcile writes of the claim it works on.
OwnWrite(o) ==
    \/ rec.pc = "finalizer" /\ o = [rec.obj EXCEPT !.fin = TRUE]
    \/ /\ rec.pc \in CreatedPC
       /\ \E r \in {"ProviderResolveFailed", "CloudInitRenderFailed", "NodeNotRegistered",
                    "NodeNotReady", "NodeReady"} :
            /\ o = [rec.obj EXCEPT !.ready = r]
            /\ r = "NodeReady" => rec.obj.pid # NoPID
    \/ /\ rec.pc = "creating"
       /\ \E l \in {"CreateFailed", "Created"} :
            o = [rec.obj EXCEPT !.pid = IF @ = NoPID THEN call.pid ELSE @, !.launched = l]
    \/ /\ rec.pc = "release"
       /\ \E ph \in {"live", "gone"} : o = [rec.obj EXCEPT !.fin = FALSE, !.phase = ph]

\* A write that reaches the API server is made at the server's version.
LEMMA TryWriteEffect ==
    ASSUME Inv, NEW o, TryWrite(o)
    PROVE  UNCHANGED log \/ (rec.claim \in current /\ Store(rec.claim, o))
  BY DEF TryWrite, Written, NotWritten

\* What a reconcile writes.
LEMMA ControllerWrites ==
    ASSUME Inv, Controller
    PROVE  \/ UNCHANGED log
           \/ \E o : rec.claim \in current /\ Store(rec.claim, o) /\ OwnWrite(o)
  <1> USE DEF At
  <1>1. CASE AddFinalizer
    <2>1. \/ UNCHANGED log
          \/ rec.pc = "finalizer" /\ TryWrite([rec.obj EXCEPT !.fin = TRUE])
      BY <1>1 DEF AddFinalizer, TryWrite, storeVars
    <2> QED BY <2>1, TryWriteEffect DEF OwnWrite
  <1>2. ASSUME NEW r \in {"ProviderResolveFailed", "CloudInitRenderFailed",
                          "NodeNotRegistered", "NodeNotReady", "NodeReady"},
               rec.pc \in CreatedPC, r = "NodeReady" => rec.obj.pid # NoPID,
               TryWrite([rec.obj EXCEPT !.ready = r])
        PROVE  \/ UNCHANGED log
               \/ \E o : rec.claim \in current /\ Store(rec.claim, o) /\ OwnWrite(o)
    BY <1>2, TryWriteEffect DEF OwnWrite
  <1>3. CASE ResolveProvider
    <2>1. \/ UNCHANGED log
          \/ rec.pc = "resolve" /\ TryWrite([rec.obj EXCEPT !.ready = "ProviderResolveFailed"])
      BY <1>3 DEF ResolveProvider, storeVars
    <2> QED BY <1>2, <2>1 DEF CreatedPC
  <1>4. CASE RenderCloudInit
    <2>1. \/ UNCHANGED log
          \/ rec.pc = "render" /\ TryWrite([rec.obj EXCEPT !.ready = "CloudInitRenderFailed"])
      BY <1>4 DEF RenderCloudInit, storeVars
    <2> QED BY <1>2, <2>1 DEF CreatedPC
  <1>5. CASE RecordProviderID
    <2>1. PICK l \in {"CreateFailed", "Created"} :
             TryWrite([rec.obj EXCEPT !.pid = IF @ = NoPID THEN call.pid ELSE @,
                                      !.launched = l])
      BY <1>5 DEF RecordProviderID
    <2>2. rec.pc = "creating" BY <1>5 DEF RecordProviderID
    <2> QED BY <2>1, <2>2, TryWriteEffect DEF OwnWrite
  <1>6. CASE NodeNotRegistered
    BY <1>2, <1>6 DEF NodeNotRegistered, CreatedPC
  <1>7. CASE ReadNode \/ LabelNode BY <1>7 DEF ReadNode, LabelNode
  <1>8. CASE SetReady
    <2>1. PICK r \in {"NodeReady", "NodeNotReady"} :
             TryWrite([rec.obj EXCEPT !.ready = r])
      BY <1>8 DEF SetReady, TryWrite
    <2>2. rec.pc = "condition" BY <1>8 DEF SetReady
    <2>3. rec.obj.pid # NoPID BY <2>2 DEF Inv, CopyInSync
    <2> QED BY <1>2, <2>1, <2>2, <2>3 DEF CreatedPC
  <1>9. CASE RemoveFinalizer
    <2>1. PICK held \in Held :
             LET o == [rec.obj EXCEPT !.fin = FALSE, !.phase = IF held THEN @ ELSE "gone"]
             IN  TryWrite(o)
      BY <1>9 DEF RemoveFinalizer, TryWrite
    <2>2. rec.pc = "release" BY <1>9 DEF RemoveFinalizer
    <2>3. rec.obj.phase = "live" BY <2>2 DEF Inv, CopyInSync
    <2>4. \E ph \in {"live", "gone"} : TryWrite([rec.obj EXCEPT !.fin = FALSE, !.phase = ph])
      BY <2>1, <2>3
    <2> QED BY <2>2, <2>4, TryWriteEffect DEF OwnWrite
  <1>10. CASE ReconcileDelete \/ VerifyDeleted \/ ConfirmGone \/ ProviderStep
    BY <1>10 DEF ReconcileDelete, VerifyDeleted, ConfirmGone, ProviderStep, storeVars
  <1> QED BY <1>1, <1>3, <1>4, <1>5, <1>6, <1>7, <1>8, <1>9, <1>10 DEF Controller

\* The versions that users, the provisioner and the garbage collector write of c.
OtherWrite(c, o) ==
    \/ Server(c).phase = "unborn" /\ o = [Unborn EXCEPT !.phase = "live"]
    \/ /\ Server(c).phase = "live" /\ ~Server(c).del
       /\ o = [Server(c) EXCEPT !.del = TRUE]
    \/ /\ Server(c).phase = "live" /\ ~Server(c).fin
       /\ o = [Server(c) EXCEPT !.phase = "gone"]
    \/ \E t \in Times \cup {NoTime} : o = [Server(c) EXCEPT !.since = t]

\* What the others write.
LEMMA ClaimWrites ==
    ASSUME NEW c \in Claims,
           CreateClaim(c) \/ DeleteClaim(c) \/ HolderReleases(c) \/ Annotate(c)
    PROVE  UNCHANGED <<vms, call, rec>> /\ \E o : Store(c, o) /\ OtherWrite(c, o)
  <1>1. UNCHANGED <<vms, call, rec>>
    BY DEF CreateClaim, DeleteClaim, HolderReleases, Annotate, providerVars, workVars
  <1>2. CASE CreateClaim(c) BY <1>1, <1>2 DEF CreateClaim, StoreOther, OtherWrite
  <1>3. CASE DeleteClaim(c)
    <2>1. PICK held \in Held : DeleteRequest(c, held) BY <1>3 DEF DeleteClaim
    <2> DEFINE o == Deleted(Server(c), held)
    <2>2. Store(c, o) /\ Server(c).phase = "live" /\ ~Server(c).del
      BY <2>1 DEF DeleteRequest, StoreOther
    <2>3. OtherWrite(c, o) BY <2>2 DEF OtherWrite, Deleted
    <2> HIDE DEF o
    <2> QED BY <1>1, <2>2, <2>3
  <1>4. CASE HolderReleases(c) BY <1>1, <1>4 DEF HolderReleases, StoreOther, OtherWrite
  <1>5. CASE Annotate(c) BY <1>1, <1>5 DEF Annotate, StoreOther, OtherWrite
  <1> QED BY <1>2, <1>3, <1>4, <1>5

\* The objects written are objects, on behalf of a claim.
LEMMA WritesTyped ==
    ASSUME Inv
    PROVE  /\ \A o : rec.claim \in current /\ OwnWrite(o) =>
                    o \in Objects /\ rec.claim \in Claims /\ rec.obj = Server(rec.claim)
           /\ \A c \in Claims : \A o : OtherWrite(c, o) => o \in Objects
  <1>1. ASSUME NEW o, rec.claim \in current, OwnWrite(o)
        PROVE  o \in Objects /\ rec.claim \in Claims /\ rec.obj = Server(rec.claim)
    <2>1. rec.obj \in Objects /\ call.pid \in PIDs \cup {NoPID}
      BY DEF Inv, TypeOK, ProviderTypeOK, Calls
    <2>2. rec.claim \in Claims /\ rec.obj = Server(rec.claim)
      BY <1>1 DEF Inv, CopyInSync, TypeOK, StoreTypeOK
    <2>3. o \in Objects BY <1>1, <2>1 DEF OwnWrite, Objects
    <2> QED BY <2>2, <2>3
  <1>2. ASSUME NEW c \in Claims, NEW o, OtherWrite(c, o)
        PROVE  o \in Objects
    <2>1. Server(c) \in Objects BY ServerType, TypeParts DEF Inv
    <2> QED BY <1>2, <2>1 DEF OtherWrite, Objects, Unborn
  <1> QED BY <1>1, <1>2

\* The steps by what they do to the versions of the claims.
LEMMA StoreChanges ==
    ASSUME Inv, [Next]_vars
    PROVE  \/ UNCHANGED log
           \/ Controller /\ \E o : rec.claim \in current /\ Store(rec.claim, o) /\ OwnWrite(o)
           \/ \E c \in Claims :
                 /\ CreateClaim(c) \/ DeleteClaim(c) \/ HolderReleases(c) \/ Annotate(c)
                 /\ \E o : Store(c, o) /\ OtherWrite(c, o)
           \/ \E c \in Claims : WatchEvent(c)
           \/ Crash
  <1>1. CASE Controller BY <1>1, ControllerWrites
  <1>2. CASE Cluster
    <2>1. CASE \E c \in Claims : \/ CreateClaim(c) \/ DeleteClaim(c) \/ HolderReleases(c)
                                 \/ Annotate(c)
      BY <2>1, ClaimWrites
    <2>2. CASE \/ \E c \in Claims : JoinNode(c) \/ KubeletReady(c) \/ KubeletLost(c) \/ RemoveNode(c)
               \/ DeletePool \/ PoolGone \/ Apply \/ Withdraw \/ HypervisorStep
      BY <2>2 DEF JoinNode, KubeletReady, KubeletLost, RemoveNode, DeletePool, PoolGone, Apply,
             Withdraw, HypervisorStep, storeVars
    <2> QED BY <1>2, <2>1, <2>2 DEF Cluster
  <1>3. ASSUME NEW c \in Claims, Reconcile(c) PROVE UNCHANGED log BY <1>3 DEF Reconcile
  <1>4. CASE UNCHANGED vars BY <1>4 DEF vars, storeVars
  <1> QED BY <1>1, <1>2, <1>3, <1>4 DEF Next

-----------------------------------------------------------------------------
(* Where machines and providerIDs are *)

\* No machine leaves the node it was placed on when none is migrated.
LEMMA MachinesStay ==
    ASSUME Inv, MachinesPlaced, [Next]_vars, "migrate" \notin Faults
    PROVE  MachinesPlaced'
  <1>1. vms \in [VMIDs -> VMs] BY DEF Inv, TypeOK, ProviderTypeOK
  <1>2. CASE ProviderStep
    <2>1. Names BY <1>2, ProviderType, TypeParts DEF Inv, ProviderStep
    <2> QED BY <2>1 DEF MachinesPlaced, Names
  <1>3. CASE HypervisorStep
    <2>1. \A i \in VMIDs : Turns(i)
      BY <1>3, HypervisorEffect, TypeParts DEF Inv, HypervisorStep
    <2> QED BY <2>1 DEF MachinesPlaced, Turns, NoVM
  <1>4. CASE UNCHANGED vms BY <1>4 DEF MachinesPlaced
  <1> QED BY <1>2, <1>3, <1>4, MachinesChange

\* A write keeps the versions on the target node if the version written is.
LEMMA StorePlaced ==
    ASSUME Inv, VersionsPlaced, NEW c \in Claims, NEW o \in Objects, Store(c, o), OnTarget(o)
    PROVE  VersionsPlaced'
  <1>1. /\ log'[c][Len(log'[c])] = o
        /\ \A d \in Claims \ {c} : log'[d] = log[d]
        /\ \A i \in 1 .. Len(log'[c]) :
              i = Len(log'[c]) \/ (i \in 1 .. Len(log[c]) /\ log'[c][i] = log[c][i])
    BY StoreEffect, TypeParts DEF Inv
  <1> SUFFICES ASSUME NEW d \in Claims, NEW i \in 1 .. Len(log'[d])
               PROVE  OnTarget(log'[d][i])
    BY DEF VersionsPlaced, OnTarget
  <1> QED BY <1>1 DEF VersionsPlaced

\* No step puts a providerID of another node into the store.
LEMMA VersionsStay ==
    ASSUME Inv, VersionsPlaced, CopyPlaced, [Next]_vars
    PROVE  VersionsPlaced'
  <1>1. \A c \in Claims : OnTarget(Server(c))
    <2>1. \A c \in Claims : Len(log[c]) \in 1 .. Len(log[c])
      BY StoreAssumption DEF Inv, TypeOK, StoreTypeOK
    <2> QED BY <2>1 DEF VersionsPlaced, Server
  <1>2. CASE UNCHANGED log BY <1>2 DEF VersionsPlaced, OnTarget
  <1>3. ASSUME NEW o, rec.claim \in current, Store(rec.claim, o), OwnWrite(o)
        PROVE  VersionsPlaced'
    <2>1. o \in Objects /\ rec.claim \in Claims BY <1>3, WritesTyped
    <2>2. o.pid \in {rec.obj.pid, call.pid}
      <3>1. rec.obj \in Objects BY DEF Inv, TypeOK
      <3> QED BY <1>3, <3>1 DEF OwnWrite, Objects
    <2>3. OnTarget(o) BY <2>2 DEF CopyPlaced, OnTarget
    <2> QED BY <1>3, <2>1, <2>3, StorePlaced
  <1>4. ASSUME NEW c \in Claims, NEW o, Store(c, o), OtherWrite(c, o)
        PROVE  VersionsPlaced'
    <2>1. o \in Objects BY <1>4, WritesTyped
    <2>2. o.pid \in {Server(c).pid, NoPID}
      <3>1. Server(c) \in Objects BY ServerType, TypeParts DEF Inv
      <3> QED BY <1>4, <3>1 DEF OtherWrite, Unborn, Objects
    <2>3. OnTarget(o) BY <1>1, <2>2 DEF OnTarget
    <2> QED BY <1>4, <2>1, <2>3, StorePlaced
  <1>5. ASSUME NEW c \in Claims, WatchEvent(c) PROVE VersionsPlaced'
    <2>1. \A d \in Claims : \A i \in 1 .. Len(log'[d]) :
             \E j \in 1 .. Len(log[d]) : log'[d][i] = log[d][j]
      BY <1>5, ObserveKeeps, TypeParts DEF Inv, StoreInv, WatchEvent
    <2> SUFFICES ASSUME NEW d \in Claims, NEW i \in 1 .. Len(log'[d])
                 PROVE  OnTarget(log'[d][i])
      BY DEF VersionsPlaced, OnTarget
    <2> QED BY <2>1 DEF VersionsPlaced
  <1>6. CASE Crash
    <2>1. \A c \in Claims : log'[c] = <<Server(c)>> BY <1>6 DEF Crash, Relist
    <2> SUFFICES ASSUME NEW d \in Claims, NEW i \in 1 .. Len(log'[d])
                 PROVE  OnTarget(log'[d][i])
      BY DEF VersionsPlaced, OnTarget
    <2>2. i = 1 /\ log'[d][i] = Server(d) BY <2>1
    <2> QED BY <1>1, <2>2
  <1> QED BY <1>2, <1>3, <1>4, <1>5, <1>6, StoreChanges

-----------------------------------------------------------------------------
(* The order of a teardown *)

\* A machine that is gone when the claim is verified or released does not come back:
\* machines are cloned only for the claim that a reconcile creates.
LEMMA GoneStays ==
    ASSUME Inv, [Next]_vars, rec.pc \in {"verifying", "release"}, Gone(rec.obj, rec.claim),
           rec.obj.pid # NoPID
    PROVE  vms'[rec.obj.pid.vmid].name # rec.claim
  <1>1. rec.obj.pid.vmid \in VMIDs /\ rec.claim \in Claims
    BY DEF Inv, TypeOK, Objects, PIDs
  <1> QED BY <1>1, CloneStep DEF Gone

\* Get returns, and tells whether it has found the VM.
LEMMA GetEffect ==
    ASSUME Provider, call.pc = "get", ProviderTypeOK
    PROVE  /\ call'.pc = "returned" /\ call'.pid = call.pid /\ UNCHANGED vms
           /\ ~call'.err => call'.inst = Found(call.pid)
  <1>1. Get
    BY DEF Provider, Create, Configure, Delete, NextID, Clone, CloneReplyLost, CloneFails,
           Fails, Await, Lookup, ConfigureNothing, Act, Find, DeletePC
  <1>2. CASE /\ call' = [call EXCEPT !.pc = "returned", !.inst = Found(call.pid)]
             /\ UNCHANGED <<vms, faults>>
    BY <1>2 DEF ProviderTypeOK, Calls
  <1>3. CASE Fails("get", call.pid)
    BY <1>3 DEF Fails, Return, ProviderTypeOK, Calls
  <1> QED BY <1>1, <1>2, <1>3 DEF Get

\* The operation that has returned waits for the reconcile.
LEMMA ReturnedStays ==
    ASSUME call.pc \in {"returned", "idle"}
    PROVE  ~Provider
  BY DEF Provider, Create, Configure, Delete, Get, NextID, Clone, CloneReplyLost, CloneFails,
         Fails, Await, Lookup, ConfigureNothing, Act, Find, DeletePC

\* A step of the provider.
LEMMA ProviderOrder ==
    ASSUME Inv, PlacedInv, ProviderStep, [Next]_vars
    PROVE  CopyPlaced' /\ TeardownOrder'
  <1>1. Provider /\ UNCHANGED rec BY DEF ProviderStep, workVars
  <1>2. Advances BY <1>1, ProviderType, TypeParts DEF Inv
  <1>3. CopyPlaced' BY <1>1, <1>2 DEF PlacedInv, CopyPlaced, OnTarget, Advances
  <1>4. CASE rec.pc # "verifying"
    <2>1. rec.pc = "release" => Gone(rec.obj, rec.claim)'
      BY <1>1, GoneStays DEF PlacedInv, TeardownOrder, Gone
    <2> QED BY <1>1, <1>3, <1>4, <2>1 DEF PlacedInv, TeardownOrder
  <1>5. CASE rec.pc = "verifying"
    <2>1. call.pc = "get" /\ call.pid = rec.obj.pid /\ call.pid # NoPID
      BY <1>1, <1>5, ReturnedStays DEF PlacedInv, TeardownOrder
    <2>2. /\ call'.pc = "returned" /\ call'.pid = call.pid /\ UNCHANGED vms
          /\ ~call'.err => call'.inst = Found(call.pid)
      BY <1>1, <2>1, GetEffect, TypeParts DEF Inv
    <2>3. ~Found(call.pid) => vms[call.pid.vmid].name # rec.claim
      <3>1. call.pid.vmid \in VMIDs /\ rec.claim \in Claims
        BY <1>5, <2>1 DEF Inv, TypeOK, Objects, PIDs
      <3>2. vms[call.pid.vmid].host = call.pid.node
        BY <2>1, <3>1 DEF PlacedInv, MachinesPlaced, CopyPlaced, OnTarget
      <3> QED BY <3>1, <3>2, ProviderAssumption DEF Found, Free, PlacedInv, MachinesPlaced
    <2>4. ~call'.err /\ ~call'.inst => Gone(rec.obj, rec.claim)'
      BY <1>1, <2>1, <2>2, <2>3 DEF Gone
    <2>5. rec'.obj.fin BY <1>1, <1>5 DEF PlacedInv, TeardownOrder
    <2> QED BY <1>1, <1>3, <1>5, <2>1, <2>2, <2>4, <2>5 DEF TeardownOrder
  <1> QED BY <1>4, <1>5, <1>3

\* An idle worker.
LEMMA IdleOrder ==
    ASSUME rec' = NoRec, call' \in {call, NoCall}, CopyPlaced
    PROVE  CopyPlaced' /\ TeardownOrder'
  BY DEF NoRec, NoCall, Unborn, CopyPlaced, OnTarget, TeardownOrder

\* A reconcile outside a teardown.
LEMMA CreateOrder ==
    ASSUME Inv, CopyPlaced, call'.pid \in {call.pid, NoPID},
           rec'.pc \in CreatedPC, rec'.obj.pid = rec.obj.pid
    PROVE  CopyPlaced' /\ TeardownOrder'
  BY DEF CreatedPC, CopyPlaced, OnTarget, TeardownOrder

\* The other steps of a reconcile.
LEMMA ControllerOrder ==
    ASSUME Inv, PlacedInv, Controller, ~ProviderStep
    PROVE  CopyPlaced' /\ TeardownOrder'
  <1> USE DEF At
  <1>a. CopyPlaced /\ TeardownOrder BY DEF PlacedInv
  <1>b. /\ rec \in [pc: RecPC, claim: Claims \cup {NoName}, obj: Objects, nodeReady: BOOLEAN]
        /\ call \in Calls /\ rec.obj \in Objects
    BY DEF Inv, TypeOK, ProviderTypeOK
  <1>c. UNCHANGED vms
    BY DEF Controller, AddFinalizer, ResolveProvider, RenderCloudInit, RecordProviderID,
           NodeNotRegistered, ReadNode, LabelNode, SetReady, ReconcileDelete, VerifyDeleted,
           ConfirmGone, RemoveFinalizer
  <1>1. ASSUME NEW requeue, Done(requeue), call' \in {call, NoCall}
        PROVE  CopyPlaced' /\ TeardownOrder'
    BY <1>1, <1>a, IdleOrder DEF Done
  <1>2. ASSUME NEW pc \in CreatedPC, Step(pc), call'.pid \in {call.pid, NoPID}
        PROVE  CopyPlaced' /\ TeardownOrder'
    <2>1. rec'.pc = pc /\ rec'.obj = rec.obj BY <1>2, <1>b DEF Step
    <2> QED BY <1>2, <1>a, <2>1, CreateOrder
  <1>3. CASE AddFinalizer
    <2>1. UNCHANGED call BY <1>3 DEF AddFinalizer
    <2>2. CASE rec' = [rec EXCEPT !.pc = "resolve", !.obj = [rec.obj EXCEPT !.fin = TRUE]]
      <3>1. rec'.pc = "resolve" /\ rec'.obj.pid = rec.obj.pid BY <1>b, <2>2 DEF Objects
      <3> QED BY <1>a, <2>1, <3>1, CreateOrder DEF CreatedPC
    <2>3. CASE Step("resolve") BY <1>2, <2>1, <2>3 DEF CreatedPC
    <2>4. CASE Done(TRUE) BY <1>1, <2>1, <2>4
    <2> QED BY <1>3, <2>2, <2>3, <2>4 DEF AddFinalizer
  <1>4. CASE ResolveProvider
    <2>1. UNCHANGED call /\ (Step("render") \/ Step("readiness") \/ Done(TRUE))
      BY <1>4 DEF ResolveProvider
    <2> QED BY <1>1, <1>2, <2>1 DEF CreatedPC
  <1>5. CASE RenderCloudInit
    <2>1. \/ Step("creating") /\ call'.pid = NoPID
          \/ Done(TRUE) /\ UNCHANGED call
      BY <1>5 DEF RenderCloudInit, BeginCreate, NoCall
    <2> QED BY <1>1, <1>2, <2>1 DEF CreatedPC
  <1>6. CASE RecordProviderID BY <1>1, <1>6 DEF RecordProviderID
  <1>7. CASE NodeNotRegistered BY <1>1, <1>7 DEF NodeNotRegistered
  <1>8. CASE ReadNode
    <2>1. UNCHANGED call BY <1>8 DEF ReadNode
    <2>2. CASE rec' = [rec EXCEPT !.pc = IF rec.claim \in labelled THEN "condition" ELSE "label",
                                  !.nodeReady = isNodeReady(rec.claim)]
      <3>1. rec'.pc \in {"condition", "label"} /\ rec'.obj = rec.obj BY <1>b, <2>2
      <3> QED BY <1>a, <2>1, <3>1, CreateOrder DEF CreatedPC
    <2>3. CASE Done(TRUE) BY <1>1, <2>1, <2>3
    <2> QED BY <1>8, <2>2, <2>3 DEF ReadNode
  <1>14. CASE LabelNode
    <2>1. UNCHANGED call /\ (Step("condition") \/ Done(TRUE)) BY <1>14 DEF LabelNode
    <2> QED BY <1>1, <1>2, <2>1 DEF CreatedPC
  <1>9. CASE SetReady BY <1>1, <1>9 DEF SetReady
  <1>10. CASE RemoveFinalizer BY <1>1, <1>10 DEF RemoveFinalizer
  <1>11. CASE ReconcileDelete
    <2>1. CASE (Done(TRUE) \/ Done(FALSE)) /\ UNCHANGED call BY <1>1, <2>1
    <2>2. CASE rec.obj.fin /\ rec.obj.pid = NoPID /\ Step("release") /\ UNCHANGED call
      <3>1. rec'.pc = "release" /\ rec'.obj = rec.obj BY <1>b, <2>2 DEF Step
      <3> QED BY <1>a, <2>2, <3>1 DEF CopyPlaced, TeardownOrder, OnTarget, Gone
    <2>3. CASE rec.obj.fin /\ BeginDelete(rec.obj.pid) /\ Step("deleting")
      <3>1. rec'.pc = "deleting" /\ rec'.obj = rec.obj BY <1>b, <2>3 DEF Step
      <3>2. call'.pid = rec.obj.pid BY <2>3 DEF BeginDelete, NoCall
      <3> QED BY <1>a, <2>3, <3>1, <3>2 DEF CopyPlaced, TeardownOrder, OnTarget
    <2> QED BY <1>11, <2>1, <2>2, <2>3 DEF ReconcileDelete
  <1>12. CASE VerifyDeleted
    <2>1. rec.pc = "deleting" BY <1>12 DEF VerifyDeleted
    <2>2. rec.obj.fin /\ rec.obj.pid # NoPID
      BY <1>a, <2>1 DEF TeardownOrder, Inv, TypeOK
    <2>3. CASE Done(TRUE) /\ call' = NoCall BY <1>1, <2>3
    <2>4. CASE BeginGet(rec.obj.pid) /\ Step("verifying")
      <3>1. rec'.pc = "verifying" /\ rec'.obj = rec.obj BY <1>b, <2>4 DEF Step
      <3>2. call'.pid = rec.obj.pid /\ call'.pc = "get" BY <2>4 DEF BeginGet, NoCall
      <3> QED BY <1>a, <2>2, <3>1, <3>2 DEF CopyPlaced, TeardownOrder, OnTarget
    <2> QED BY <1>12, <2>3, <2>4 DEF VerifyDeleted
  <1>13. CASE ConfirmGone
    <2>1. rec.pc = "verifying" /\ call.pc = "returned" /\ call' = NoCall
      BY <1>13 DEF ConfirmGone
    <2>2. CASE Done(TRUE) BY <1>1, <2>1, <2>2
    <2>3. CASE ~call.err /\ ~call.inst /\ Step("release")
      <3>1. rec'.pc = "release" /\ rec'.obj = rec.obj /\ rec'.claim = rec.claim
        BY <1>b, <2>3 DEF Step
      <3>2. rec.obj.fin /\ Gone(rec.obj, rec.claim) BY <1>a, <2>1, <2>3 DEF TeardownOrder
      <3>3. Gone(rec.obj, rec.claim)' BY <1>c, <3>1, <3>2 DEF Gone
      <3> QED BY <1>a, <2>1, <3>1, <3>2, <3>3 DEF CopyPlaced, TeardownOrder, OnTarget, NoCall
    <2> QED BY <1>13, <2>2, <2>3 DEF ConfirmGone
  <1> QED BY <1>3, <1>4, <1>5, <1>6, <1>7, <1>8, <1>9, <1>10, <1>11, <1>12, <1>13,
             <1>14 DEF Controller

\* PlacedInv is inductive, on top of Inv, when no VM is migrated.
LEMMA PlacedStep ==
    ASSUME Inv, PlacedInv, [Next]_vars, "migrate" \notin Faults
    PROVE  PlacedInv'
  <1>1. MachinesPlaced' /\ VersionsPlaced' BY MachinesStay, VersionsStay DEF PlacedInv
  <1>2. ASSUME UNCHANGED <<rec, call>> PROVE CopyPlaced' /\ TeardownOrder'
    <2>1. rec.pc \in {"verifying", "release"} /\ Gone(rec.obj, rec.claim) =>
             Gone(rec.obj, rec.claim)'
      BY <1>2, GoneStays DEF Gone
    <2> QED BY <1>2, <2>1 DEF PlacedInv, CopyPlaced, OnTarget, TeardownOrder
  <1>3. CASE ProviderStep BY <1>1, <1>3, ProviderOrder DEF PlacedInv
  <1>4. CASE Controller /\ ~ProviderStep BY <1>1, <1>4, ControllerOrder DEF PlacedInv
  <1>5. ASSUME NEW c \in Claims, Reconcile(c) PROVE PlacedInv'
    <2>1. UNCHANGED call BY <1>5 DEF Reconcile, providerVars
    <2>2. CASE UNCHANGED rec BY <1>1, <1>2, <2>1, <2>2 DEF PlacedInv
    <2>3. CASE rec' = [NoRec EXCEPT !.pc = IF Cached(c).del THEN "delete" ELSE "finalizer",
                                    !.claim = c, !.obj = Cached(c)]
      <3>1. rec'.pc \in {"delete", "finalizer"} /\ rec'.obj = Cached(c) BY <2>3 DEF NoRec
      <3>2. OnTarget(Cached(c))
        <4>1. 1 \in 1 .. Len(log[c]) BY StoreAssumption DEF Inv, TypeOK, StoreTypeOK
        <4> QED BY <4>1 DEF PlacedInv, VersionsPlaced, Cached
      <3> QED BY <1>1, <2>1, <3>1, <3>2 DEF PlacedInv, CopyPlaced, TeardownOrder, OnTarget
    <2> QED BY <1>5, <2>2, <2>3 DEF Reconcile
  <1>6. CASE Crash
    BY <1>1, <1>6, IdleOrder DEF Crash, PlacedInv
  <1>7. CASE Cluster \/ (\E c \in Claims : WatchEvent(c)) \/ UNCHANGED vars
    <2>1. UNCHANGED <<rec, call>>
      BY <1>7 DEF Cluster, CreateClaim, DeleteClaim, HolderReleases, Annotate, JoinNode,
             KubeletReady, KubeletLost, RemoveNode, DeletePool, PoolGone, Apply, Withdraw,
             HypervisorStep, Hypervisor, TaskDone, TaskFailed, ForeignCreate, AdminRemove,
             Migrate, RemoveHost, WatchEvent, vars, providerVars, workVars
    <2> QED BY <1>1, <1>2, <2>1 DEF PlacedInv
  <1> QED BY <1>3, <1>4, <1>5, <1>6, <1>7 DEF Next

\* The initial states.
LEMMA PlacedInit == Init => PlacedInv
  <1> SUFFICES ASSUME Init PROVE PlacedInv
    OBVIOUS
  <1>1. MachinesPlaced BY DEF Init, ProviderInit, MachinesPlaced, NoVM
  <1>2. \A c \in Claims : Len(log[c]) = 1 /\ log[c][1] = Unborn BY DEF Init, StoreInit
  <1>3. VersionsPlaced BY <1>2 DEF VersionsPlaced, OnTarget, Unborn
  <1>4. CopyPlaced /\ TeardownOrder
    BY DEF Init, ProviderInit, NoRec, NoCall, Unborn, CopyPlaced, OnTarget, TeardownOrder
  <1> QED BY <1>1, <1>3, <1>4 DEF PlacedInv

\* PlacedInv holds in every state.
THEOREM Placement ==
    ASSUME "migrate" \notin Faults
    PROVE  Spec => []PlacedInv
  <1>1. Inv /\ PlacedInv /\ [Next]_vars => PlacedInv' BY PlacedStep
  <1> QED BY <1>1, PlacedInit, Invariance, PTL DEF Spec

-----------------------------------------------------------------------------
(* Refinement *)

\* The abstract step in which the object of one claim changes.
LEMMA ObjectBecomes ==
    ASSUME NEW c \in Claims, NEW o,
           \A d \in Claims \ {c} : Server(d)' = Server(d),
           Promise(Server(c))' = o
    PROVE  Life!Becomes(c, o)
  <1>1. \A d \in Claims \ {c} : Promise(Server(d))' = Promise(Server(d))
    BY DEF Promise, isClaimReady, Server
  <1> QED BY <1>1 DEF Life!Becomes

\* A step that leaves the machines and the recorded providerIDs alone.
LEMMA StandingStays ==
    ASSUME UNCHANGED vms, \A c \in Claims : Server(c)'.pid = Server(c).pid
    PROVE  UNCHANGED Standing
  BY DEF Standing, Server

\* A step that changes nothing the promise is about.
LEMMA LifeStutters ==
    ASSUME UNCHANGED Standing, \A c \in Claims : Promise(Server(c))' = Promise(Server(c))
    PROVE  UNCHANGED <<[c \in Claims |-> Promise(Server(c))], Standing>>
  OBVIOUS

\* The writes of a reconcile are steps of ClaimLifecycle: Adopt, Report, Record and
\* Release.
LEMMA OwnWriteRefines ==
    ASSUME Inv, PlacedInv, UNCHANGED vms, NEW o, rec.claim \in current,
           Store(rec.claim, o), OwnWrite(o)
    PROVE  Life!Next \/ UNCHANGED <<[c \in Claims |-> Promise(Server(c))], Standing>>
  <1>1. PICK c \in Claims : c = rec.claim /\ o \in Objects /\ Server(c) = rec.obj
    BY WritesTyped
  <1>2. /\ log'[c][Len(log'[c])] = o
        /\ \A d \in Claims \ {c} : log'[d] = log[d]
    BY <1>1, StoreEffect, TypeParts DEF Inv
  <1>3. Server(c)' = o /\ \A d \in Claims \ {c} : Server(d)' = Server(d) BY <1>2 DEF Server
  <1>4. Promise(Server(c))' = Promise(o) BY <1>3 DEF Promise, isClaimReady, Server
  <1>5. Life!Becomes(c, Promise(o)) BY <1>3, <1>4, ObjectBecomes
  <1>6. o.pid = rec.obj.pid => UNCHANGED Standing BY <1>1, <1>3, StandingStays
  <1>7. rec.obj \in Objects /\ rec.obj.phase = "live" /\ rec.pc # "idle"
    BY <1>1 DEF Inv, TypeOK, CopyInSync
  <1>8. CASE rec.pc = "finalizer" /\ o = [rec.obj EXCEPT !.fin = TRUE]
    <2>1. ~rec.obj.del BY <1>8 DEF Inv, CopyInSync, TeardownPC
    <2>a. /\ o.phase = rec.obj.phase /\ o.fin = TRUE /\ o.del = rec.obj.del
          /\ o.pid = rec.obj.pid /\ o.ready = rec.obj.ready
      BY <1>7, <1>8 DEF Objects
    <2>2. /\ o.pid = rec.obj.pid
          /\ Promise(o) = [Promise(rec.obj) EXCEPT !.fin = TRUE]
      BY <2>a, PromiseUpdates, Zenon
    <2>3. CASE rec.obj.fin
      <3>1. Promise(o) = Promise(rec.obj) BY <1>7, <2>2, <2>3 DEF Objects, Promise
      <3>2. \A d \in Claims : Promise(Server(d))' = Promise(Server(d))
        BY <1>1, <1>3, <1>4, <3>1 DEF Promise, isClaimReady, Server
      <3> QED BY <1>6, <2>2, <3>2, LifeStutters
    <2>4. CASE ~rec.obj.fin
      <3>1. Life!Adopt(c)
        BY <1>1, <1>5, <1>6, <1>7, <2>1, <2>2, <2>4 DEF Life!Adopt, Life!Live, Promise
      <3> QED BY <3>1 DEF Life!Next
    <2> QED BY <2>3, <2>4
  <1>9. ASSUME rec.pc \in CreatedPC PROVE rec.obj.fin /\ ~rec.obj.del
    BY <1>9 DEF Inv, CopyInSync, CreatedPC, TeardownPC
  <1>10. ASSUME rec.pc \in CreatedPC, NEW r, o = [rec.obj EXCEPT !.ready = r],
                r = "NodeReady" => rec.obj.pid # NoPID
         PROVE  Life!Next \/ UNCHANGED <<[d \in Claims |-> Promise(Server(d))], Standing>>
    <2>1. /\ o.pid = rec.obj.pid
          /\ Promise(o) = [Promise(rec.obj) EXCEPT !.ready = (r = "NodeReady")]
      BY <1>7, <1>10 DEF Objects, Promise, isClaimReady
    <2>2. CASE rec.obj.pid # NoPID
      <3>1. Life!Report(c)
        BY <1>1, <1>5, <1>6, <1>7, <1>9, <1>10, <2>1, <2>2
           DEF Life!Report, Life!Kept, Life!Live, Promise
      <3> QED BY <3>1 DEF Life!Next
    <2>3. CASE rec.obj.pid = NoPID
      <3>1. ~isClaimReady(rec.obj) /\ r # "NodeReady"
        BY <1>1, <1>10, <2>3 DEF Inv, ReadyIsBacked, Backed
      <3>2. Promise(o) = Promise(rec.obj)
        <4>1. o.ready # "NodeReady" /\ rec.obj.ready # "NodeReady"
          BY <1>7, <1>10, <3>1 DEF isClaimReady, Objects
        <4>2. /\ o.phase = rec.obj.phase /\ o.fin = rec.obj.fin /\ o.del = rec.obj.del
              /\ o.pid = rec.obj.pid
          BY <1>7, <1>10 DEF Objects
        <4> QED BY <4>1, <4>2 DEF Promise, isClaimReady
      <3>3. \A d \in Claims : Promise(Server(d))' = Promise(Server(d))
        BY <1>1, <1>3, <1>4, <3>2 DEF Promise, isClaimReady, Server
      <3> QED BY <1>6, <2>1, <3>3, LifeStutters
    <2> QED BY <2>2, <2>3
  <1>11. ASSUME rec.pc = "creating", NEW l,
                o = [rec.obj EXCEPT !.pid = IF @ = NoPID THEN call.pid ELSE @, !.launched = l]
         PROVE  Life!Next \/ UNCHANGED <<[d \in Claims |-> Promise(Server(d))], Standing>>
    <2>1. /\ o.pid = IF rec.obj.pid = NoPID THEN call.pid ELSE rec.obj.pid
          /\ Promise(o) = [Promise(rec.obj) EXCEPT !.pid = o.pid]
      BY <1>7, <1>11 DEF Objects, Promise, isClaimReady
    <2>2. CASE o.pid = rec.obj.pid
      <3>1. Promise(o) = Promise(rec.obj) BY <1>7, <2>1, <2>2 DEF Promise
      <3>2. \A d \in Claims : Promise(Server(d))' = Promise(Server(d))
        BY <1>1, <1>3, <1>4, <3>1 DEF Promise, isClaimReady, Server
      <3> QED BY <1>6, <2>2, <3>2, LifeStutters
    <2>3. CASE o.pid # rec.obj.pid
      <3>1. rec.obj.pid = NoPID /\ o.pid \in PIDs
        BY <1>1, <2>1, <2>3 DEF Objects
      <3>2. Standing' \in {Standing, Standing \cup {c}} BY <1>1, <1>3, <3>1 DEF Standing
      <3>3. Life!Record(c)
        BY <1>1, <1>5, <1>7, <1>9, <1>11, <2>1, <3>1, <3>2
           DEF Life!Record, Life!Kept, Life!Live, Promise, CreatedPC
      <3> QED BY <3>3 DEF Life!Next
    <2> QED BY <2>2, <2>3
  <1>12. ASSUME rec.pc = "release", NEW ph \in {"live", "gone"},
                o = [rec.obj EXCEPT !.fin = FALSE, !.phase = ph]
         PROVE  Life!Next
    <2>a. /\ o.phase = ph /\ o.fin = FALSE /\ o.del = rec.obj.del
          /\ o.pid = rec.obj.pid /\ o.ready = rec.obj.ready
      BY <1>7, <1>12 DEF Objects
    <2>b. Promise(o) = [Promise(rec.obj) EXCEPT !.fin = o.fin, !.phase = o.phase]
      BY <2>a, PromiseUpdates, Zenon
    <2>1. /\ o.pid = rec.obj.pid
          /\ Promise(o) = [Promise(rec.obj) EXCEPT !.fin = FALSE, !.phase = ph]
      BY <2>a, <2>b
    <2>2. rec.obj.fin /\ rec.obj.del /\ Gone(rec.obj, rec.claim)
      BY <1>12 DEF Inv, CopyInSync, TeardownPC, PlacedInv, TeardownOrder
    <2>3. c \notin Standing BY <1>1, <2>2 DEF Gone, Standing
    <2>4. Standing' = Standing \ {c} BY <1>6, <2>1, <2>3
    <2>5. [d \in Claims |-> Promise(Server(d))][c] = Promise(rec.obj) BY <1>1
    <2>6. Life!Live(c) /\ Promise(rec.obj).del /\ Promise(rec.obj).fin
      BY <1>7, <2>2, <2>5 DEF Life!Live, Promise
    <2>7. Life!Becomes(c, [Promise(rec.obj) EXCEPT !.fin = FALSE, !.phase = ph])
      BY <1>5, <2>1, Zenon
    <2>8. Life!Release(c) BY <2>4, <2>5, <2>6, <2>7, Zenon DEF Life!Release
    <2> QED BY <2>8 DEF Life!Next
  <1> QED BY <1>8, <1>10, <1>11, <1>12 DEF OwnWrite

\* A claim that does not exist yet is blank to both controllers.
LEMMA UnbornBlank == Promise(Unborn) = Life!Blank
  <1>1. isClaimReady(Unborn) = FALSE BY DEF isClaimReady, Unborn
  <1>2. /\ Unborn.phase = "unborn" /\ Unborn.fin = FALSE /\ Unborn.del = FALSE
        /\ Unborn.pid = NoPID
    BY DEF Unborn
  <1> QED BY <1>1, <1>2, Zenon DEF Promise, Life!Blank

\* The writes of others are steps of ClaimLifecycle: Create, Delete and Vanish.
LEMMA OtherWriteRefines ==
    ASSUME Inv, UNCHANGED vms, NEW c \in Claims, NEW o, Store(c, o), OtherWrite(c, o)
    PROVE  Life!Next \/ UNCHANGED <<[d \in Claims |-> Promise(Server(d))], Standing>>
  <1>1. o \in Objects /\ Server(c) \in Objects BY WritesTyped, ServerType, TypeParts DEF Inv
  <1>2. /\ log'[c][Len(log'[c])] = o
        /\ \A d \in Claims \ {c} : log'[d] = log[d]
    BY <1>1, StoreEffect, TypeParts DEF Inv
  <1>3. Server(c)' = o /\ \A d \in Claims \ {c} : Server(d)' = Server(d) BY <1>2 DEF Server
  <1>4. Promise(Server(c))' = Promise(o) BY <1>3 DEF Promise, isClaimReady, Server
  <1>5. Life!Becomes(c, Promise(o)) BY <1>3, <1>4, ObjectBecomes
  <1>6. o.pid = Server(c).pid => UNCHANGED Standing BY <1>3, StandingStays
  <1>7. CASE Server(c).phase = "unborn" /\ o = [Unborn EXCEPT !.phase = "live"]
    <2>1. Server(c) = Unborn BY <1>7 DEF Inv, UnbornIsEmpty
    <2>2. /\ o.phase = "live" /\ o.fin = Unborn.fin /\ o.del = Unborn.del
          /\ o.pid = Unborn.pid /\ o.ready = Unborn.ready
      BY <1>1, <1>7, <2>1 DEF Objects
    <2>a. Promise(o) = [Promise(Unborn) EXCEPT !.phase = o.phase]
      BY <2>2, PromiseUpdates, Zenon
    <2>3. Promise(o) = [Promise(Unborn) EXCEPT !.phase = "live"] BY <2>2, <2>a
    <2>4. Promise(Unborn) = Life!Blank BY UnbornBlank
    <2>5. [d \in Claims |-> Promise(Server(d))][c] = Life!Blank BY <2>1, <2>4
    <2>6. Life!Becomes(c, [Life!Blank EXCEPT !.phase = "live"])
      BY <1>5, <2>3, <2>4, Zenon
    <2>7. UNCHANGED Standing BY <1>6, <2>1, <2>2
    <2>8. Life!Create(c) BY <2>5, <2>6, <2>7, Zenon DEF Life!Create
    <2> QED BY <2>8 DEF Life!Next
  <1>8. CASE /\ Server(c).phase = "live" /\ ~Server(c).del
             /\ o = [Server(c) EXCEPT !.del = TRUE]
    <2>1. /\ o.phase = Server(c).phase /\ o.fin = Server(c).fin /\ o.del = TRUE
          /\ o.pid = Server(c).pid /\ o.ready = Server(c).ready
      BY <1>1, <1>8 DEF Objects
    <2>2. Promise(o) = [Promise(Server(c)) EXCEPT !.del = TRUE]
      BY <2>1, PromiseUpdates, Zenon
    <2>3. [d \in Claims |-> Promise(Server(d))][c] = Promise(Server(c)) OBVIOUS
    <2>4. Life!Live(c) /\ ~Promise(Server(c)).del BY <1>8, <2>3 DEF Life!Live, Promise
    <2>5. Life!Becomes(c, [Promise(Server(c)) EXCEPT !.del = TRUE])
      BY <1>5, <2>2, Zenon
    <2>6. UNCHANGED Standing BY <1>6, <2>1
    <2>7. Life!Delete(c) BY <2>3, <2>4, <2>5, <2>6, Zenon DEF Life!Delete
    <2> QED BY <2>7 DEF Life!Next
  <1>9. CASE /\ Server(c).phase = "live" /\ ~Server(c).fin
             /\ o = [Server(c) EXCEPT !.phase = "gone"]
    <2>1. /\ o.phase = "gone" /\ o.fin = Server(c).fin /\ o.del = Server(c).del
          /\ o.pid = Server(c).pid /\ o.ready = Server(c).ready
      BY <1>1, <1>9 DEF Objects
    <2>a. Promise(o) = [Promise(Server(c)) EXCEPT !.phase = o.phase]
      BY <2>1, PromiseUpdates, Zenon
    <2>2. Promise(o) = [Promise(Server(c)) EXCEPT !.phase = "gone"] BY <2>1, <2>a
    <2>3. [d \in Claims |-> Promise(Server(d))][c] = Promise(Server(c)) OBVIOUS
    <2>4. Life!Live(c) /\ ~Promise(Server(c)).fin BY <1>9, <2>3 DEF Life!Live, Promise
    <2>5. Life!Becomes(c, [Promise(Server(c)) EXCEPT !.phase = "gone"])
      BY <1>5, <2>2, Zenon
    <2>6. UNCHANGED Standing BY <1>6, <2>1
    <2>7. Life!Vanish(c) BY <2>3, <2>4, <2>5, <2>6, Zenon DEF Life!Vanish
    <2> QED BY <2>7 DEF Life!Next
  <1>10. ASSUME NEW t, o = [Server(c) EXCEPT !.since = t]
         PROVE  UNCHANGED <<[d \in Claims |-> Promise(Server(d))], Standing>>
    <2>1. /\ o.phase = Server(c).phase /\ o.fin = Server(c).fin /\ o.del = Server(c).del
          /\ o.pid = Server(c).pid /\ o.ready = Server(c).ready
      BY <1>1, <1>10 DEF Objects
    <2>2. Promise(o) = Promise(Server(c)) BY <2>1 DEF Promise, isClaimReady
    <2>3. \A d \in Claims : Promise(Server(d))' = Promise(Server(d))
      BY <1>3, <1>4, <2>2 DEF Promise, isClaimReady, Server
    <2> QED BY <1>6, <2>1, <2>3, LifeStutters
  <1> QED BY <1>7, <1>8, <1>9, <1>10 DEF OtherWrite

\* What happens to the machines is a step of ClaimLifecycle: Build or Lose.
LEMMA MachineStepRefines ==
    ASSUME Inv, PlacedInv, ProviderStep \/ HypervisorStep
    PROVE  Life!Next \/ UNCHANGED <<[c \in Claims |-> Promise(Server(c))], Standing>>
  <1>1. UNCHANGED log BY DEF ProviderStep, HypervisorStep, storeVars
  <1>2. \A c \in Claims : Server(c)' = Server(c) /\ Promise(Server(c))' = Promise(Server(c))
    BY <1>1 DEF Server, Promise, isClaimReady
  <1>3. UNCHANGED [c \in Claims |-> Promise(Server(c))] BY <1>2
  <1>4. \A c \in Claims : Server(c).pid # NoPID => Server(c).pid.vmid \in VMIDs
    BY ServerType, TypeParts DEF Inv, Objects, PIDs
  <1>5. vms \in [VMIDs -> VMs] BY DEF Inv, TypeOK, ProviderTypeOK
  <1>6. CASE ProviderStep
    <2>1. Names BY <1>6, ProviderType, TypeParts DEF Inv, ProviderStep
    <2>2. CASE call.pc # "clone"
      <3>1. \A i \in VMIDs : vms'[i].name = vms[i].name BY <2>1, <2>2 DEF Names
      <3>2. UNCHANGED Standing BY <1>2, <1>4, <3>1 DEF Standing
      <3> QED BY <1>3, <3>2
    <2>3. CASE call.pc = "clone"
      <3>1. PICK c \in Claims : c = call.name /\ Protected(Server(c))
        BY <2>3 DEF Inv, TypeOK, ProviderTypeOK, CreateAttended, ReconcileCovered, CreatePC,
                    CreatedPC
      <3>2. \A i \in VMIDs : \/ vms'[i].name = vms[i].name
                             \/ vms[i].name = NoName /\ vms'[i].name = c
        BY <2>1, <3>1 DEF Names, PlacedInv, MachinesPlaced
      <3>3. \A d \in Claims \ {c} : d \in Standing' <=> d \in Standing
        BY <1>2, <1>4, <3>2, ProviderAssumption DEF Standing
      <3>4. c \in Standing => c \in Standing'
        BY <1>2, <1>4, <3>2, ProviderAssumption DEF Standing
      <3>5. Standing' = Standing \/ (c \in Standing' /\ Standing' = Standing \cup {c})
        BY <3>3, <3>4 DEF Standing
      <3>6. CASE Standing' = Standing BY <1>3, <3>6
      <3>7. CASE c \in Standing' /\ Standing' = Standing \cup {c}
        <4>1. Server(c).pid # NoPID BY <1>2, <3>7 DEF Standing
        <4>2. Life!Build(c)
          BY <1>3, <3>1, <3>7, <4>1 DEF Life!Build, Life!Live, Promise, Protected
        <4> QED BY <4>2 DEF Life!Next
      <3> QED BY <3>5, <3>6, <3>7
    <2> QED BY <2>2, <2>3
  <1>7. CASE HypervisorStep
    <2>1. \A i \in VMIDs : vms'[i].name \in {vms[i].name, NoName, Foreign}
      BY <1>7, HypervisorEffect, TypeParts DEF Inv, HypervisorStep, Turns, NoVM
    <2>2. Standing' \subseteq Standing
      BY <1>2, <1>4, <2>1, ProviderAssumption DEF Standing
    <2>3. Standing \ Standing' \in SUBSET Standing
          /\ Standing' = Standing \ (Standing \ Standing')
      BY <2>2
    <2>4. Life!Lose BY <1>3, <2>3 DEF Life!Lose
    <2> QED BY <2>4 DEF Life!Next
  <1> QED BY <1>6, <1>7

\* Every step is a step of ClaimLifecycle or changes nothing it is about.
LEMMA StepRefines ==
    ASSUME Inv, PlacedInv, [Next]_vars
    PROVE  Life!Next \/ UNCHANGED <<[c \in Claims |-> Promise(Server(c))], Standing>>
  <1>1. CASE ProviderStep \/ HypervisorStep BY <1>1, MachineStepRefines
  <1> SUFFICES ASSUME UNCHANGED vms
               PROVE  Life!Next \/ UNCHANGED <<[c \in Claims |-> Promise(Server(c))], Standing>>
    BY <1>1, MachinesChange
  <1>2. ASSUME \A c \in Claims : Server(c)' = Server(c)
        PROVE  UNCHANGED <<[c \in Claims |-> Promise(Server(c))], Standing>>
    <2>1. UNCHANGED Standing BY <1>2, StandingStays
    <2>2. \A c \in Claims : Promise(Server(c))' = Promise(Server(c))
      BY <1>2 DEF Promise, isClaimReady, Server
    <2> QED BY <2>1, <2>2, LifeStutters
  <1>3. CASE UNCHANGED log BY <1>2, <1>3 DEF Server
  <1>4. CASE \E o : rec.claim \in current /\ Store(rec.claim, o) /\ OwnWrite(o)
    BY <1>4, OwnWriteRefines
  <1>5. CASE \E c \in Claims : \E o : Store(c, o) /\ OtherWrite(c, o)
    BY <1>5, OtherWriteRefines
  <1>6. CASE \E c \in Claims : WatchEvent(c)
    BY <1>2, <1>6, ObserveKeeps, TypeParts DEF Inv, StoreInv, WatchEvent
  <1>7. CASE Crash BY <1>2, <1>7, RelistKeeps, TypeParts DEF Inv, StoreInv, Crash
  <1> QED BY <1>3, <1>4, <1>5, <1>6, <1>7, StoreChanges

\* The initial states are those of ClaimLifecycle.
LEMMA LifeInit == Init => Life!Init
  <1> SUFFICES ASSUME Init PROVE Life!Init
    OBVIOUS
  <1>1. \A c \in Claims : Server(c) = Unborn BY DEF Init, StoreInit, Server
  <1>2. \A c \in Claims : Promise(Server(c)) = Life!Blank
    BY <1>1, UnbornBlank
  <1>3. Standing = {} BY <1>1 DEF Standing, Unborn
  <1> QED BY <1>2, <1>3 DEF Life!Init

\* The claim controller implements ClaimLifecycle, with any number of claims and VMIDs,
\* any lag of the cache and any faults but migration: crashes, conflicts, lost replies,
\* failed tasks, VMs that others create and remove.
THEOREM PromiseKept ==
    ASSUME "migrate" \notin Faults
    PROVE  Spec => KeepsPromise
  <1>1. Inv /\ PlacedInv /\ [Next]_vars =>
           [Life!Next]_<<[c \in Claims |-> Promise(Server(c))], Standing>>
    BY StepRefines
  <1> QED BY <1>1, LifeInit, Invariance, Placement, PTL DEF Spec, KeepsPromise, Life!Spec

-----------------------------------------------------------------------------
(* A consequence of the contract *)

\* Whoever keeps the promise has no machine without the finalizer.
Covered == \A c \in Claims : c \in Standing => Promise(Server(c)).fin

\* The contract protects machines: no step of ClaimLifecycle uncovers one.
LEMMA ContractCovers == KeepsPromise => []Covered
  <1> DEFINE obj == [c \in Claims |-> Promise(Server(c))]
  <1>a. Covered <=> \A c \in Claims : c \in Standing => obj[c].fin BY DEF Covered
  <1>b. Covered' <=> \A c \in Claims : c \in Standing' => obj'[c].fin BY DEF Covered
  <1>1. Life!Init => Covered BY DEF Life!Init, Covered
  <1>2. ASSUME Covered, [Life!Next]_<<obj, Standing>> PROVE Covered'
    <2>2. CASE UNCHANGED <<obj, Standing>> BY <1>2, <1>a, <1>b, <2>2
    <2>3. CASE Life!Lose BY <1>2, <1>a, <1>b, <2>3 DEF Life!Lose
    <2>4. CASE Life!Next /\ ~Life!Lose
      <3>1. PICK c \in Claims :
               \/ Life!Create(c) \/ Life!Adopt(c) \/ Life!Record(c) \/ Life!Report(c)
               \/ Life!Delete(c) \/ Life!Release(c) \/ Life!Vanish(c) \/ Life!Build(c)
               \/ Life!Recycle(c)
        BY <2>4 DEF Life!Next
      <3>2. ASSUME NEW o, Life!Becomes(c, o)
            PROVE  obj'[c] = o /\ \A d \in Claims \ {c} : obj'[d] = obj[d]
        BY <3>2 DEF Life!Becomes
      <3>3. CASE Life!Build(c)
        BY <1>2, <1>a, <1>b, <3>3 DEF Life!Build
      <3>4. CASE Life!Record(c)
        <4>1. PICK p \in PIDs : Life!Becomes(c, [obj[c] EXCEPT !.pid = p])
          BY <3>4 DEF Life!Record
        <4>2. [obj[c] EXCEPT !.pid = p].fin = obj[c].fin BY DEF Promise
        <4> QED BY <1>2, <1>a, <1>b, <3>2, <3>4, <4>1, <4>2
                DEF Life!Record, Life!Kept
      <3>5. CASE Life!Report(c)
        <4>1. PICK r \in BOOLEAN : Life!Becomes(c, [obj[c] EXCEPT !.ready = r])
          BY <3>5 DEF Life!Report
        <4>2. [obj[c] EXCEPT !.ready = r].fin = obj[c].fin BY DEF Promise
        <4> QED BY <1>2, <1>a, <1>b, <3>2, <3>5, <4>1, <4>2
                DEF Life!Report, Life!Kept
      <3>6. CASE Life!Adopt(c)
        <4>1. Life!Becomes(c, [obj[c] EXCEPT !.fin = TRUE]) BY <3>6 DEF Life!Adopt
        <4>2. [obj[c] EXCEPT !.fin = TRUE].fin = TRUE BY DEF Promise
        <4> QED BY <1>2, <1>a, <1>b, <3>2, <3>6, <4>1, <4>2 DEF Life!Adopt
      <3>7. CASE Life!Delete(c)
        <4>1. Life!Becomes(c, [obj[c] EXCEPT !.del = TRUE]) BY <3>7 DEF Life!Delete
        <4>2. [obj[c] EXCEPT !.del = TRUE].fin = obj[c].fin BY DEF Promise
        <4> QED BY <1>2, <1>a, <1>b, <3>2, <3>7, <4>1, <4>2 DEF Life!Delete
      <3>8. CASE Life!Vanish(c)
        <4>1. Life!Becomes(c, [obj[c] EXCEPT !.phase = "gone"]) BY <3>8 DEF Life!Vanish
        <4>2. [obj[c] EXCEPT !.phase = "gone"].fin = obj[c].fin BY DEF Promise
        <4> QED BY <1>2, <1>a, <1>b, <3>2, <3>8, <4>1, <4>2 DEF Life!Vanish
      <3>9. CASE Life!Release(c)
        <4>1. PICK o : Life!Becomes(c, o) BY <3>9 DEF Life!Release
        <4> QED BY <1>2, <1>a, <1>b, <3>2, <3>9, <4>1 DEF Life!Release
      <3>10. CASE Life!Create(c) \/ Life!Recycle(c)
        <4>1. PICK o : Life!Becomes(c, o) BY <3>10 DEF Life!Create, Life!Recycle
        <4>2. c \notin Standing /\ UNCHANGED Standing
          BY <1>2, <1>a, <3>10 DEF Life!Create, Life!Recycle, Life!Blank
        <4> QED BY <1>2, <1>a, <1>b, <3>2, <4>1, <4>2
      <3> QED BY <3>1, <3>3, <3>4, <3>5, <3>6, <3>7, <3>8, <3>9, <3>10
    <2> QED BY <1>2, <2>2, <2>3, <2>4
  <1> QED BY <1>1, <1>2, PTL DEF KeepsPromise, Life!Spec

\* ReleasedAfterTeardown (a claim that has lost its finalizer has no machine left at its
\* providerID) for every run without migration, because the promise is kept.
THEOREM MachineBeforeFinalizer ==
    ASSUME "migrate" \notin Faults
    PROVE  Spec => []ReleasedAfterTeardown
  <1>1. Covered => ReleasedAfterTeardown BY DEF Covered, ReleasedAfterTeardown, Standing, Promise
  <1> QED BY <1>1, PromiseKept, ContractCovers, PTL

-----------------------------------------------------------------------------
(* Steps that only the whole operator has *)

\* Time passes: every version and the copy change as f says, in the annotation only.
Ages(f) ==
    /\ f \in [Objects -> Objects]
    /\ \A o \in Objects : /\ f[o] = [o EXCEPT !.since = f[o].since]
                          /\ f[o].since = NoTime <=> o.since = NoTime

Aged(f) ==
    /\ log' = [c \in Claims |-> [i \in 1 .. Len(log[c]) |-> f[log[c][i]]]]
    /\ rec' = [rec EXCEPT !.obj = f[rec.obj]]
    /\ UNCHANGED <<providerVars, current, queue, clusterVars>>

\* A name that is gone, and that no reconcile works on, is used again.
Forgotten(c) ==
    /\ Server(c).phase = "gone" /\ rec.claim # c
    /\ log' = [log EXCEPT ![c] = <<Unborn>>]
    /\ node' = [node EXCEPT ![c] = "none"] /\ labelled' = labelled \ {c}
    /\ UNCHANGED <<providerVars, current, rec, queue, pool, config>>

\* The provisioner creates, annotates or deletes a claim, whether or not it gets the answer.
Provided(c, o) ==
    /\ StoreOther(c, o)
    /\ \/ Server(c).phase = "unborn" /\ o = [Unborn EXCEPT !.phase = "live"]
       \/ /\ Server(c).phase = "live"
          /\ \E t \in Times \cup {NoTime} : o = [Server(c) EXCEPT !.since = t]
       \/ Server(c).phase = "live" /\ ~Server(c).del /\ o = Deleted(Server(c), FALSE)
    /\ UNCHANGED <<vms, call, rec, queue, clusterVars>>
    /\ faults' \in 0 .. MaxFaults

\* Nothing happens but perhaps a fault.
Spent ==
    /\ UNCHANGED <<vms, call, log, current, rec, queue, clusterVars>>
    /\ faults' \in 0 .. MaxFaults

\* What the time leaves alone.
LEMMA AgesKeep ==
    ASSUME NEW f, Ages(f), NEW o \in Objects
    PROVE  /\ f[o] \in Objects
           /\ f[o].phase = o.phase /\ f[o].fin = o.fin /\ f[o].del = o.del
           /\ f[o].pid = o.pid /\ f[o].launched = o.launched /\ f[o].ready = o.ready
           /\ f[o].since = NoTime <=> o.since = NoTime
           /\ o = Unborn => f[o] = Unborn
  <1>1. f[o] \in Objects /\ f[o] = [o EXCEPT !.since = f[o].since] BY DEF Ages
  <1>2. /\ f[o].phase = o.phase /\ f[o].fin = o.fin /\ f[o].del = o.del
        /\ f[o].pid = o.pid /\ f[o].launched = o.launched /\ f[o].ready = o.ready
    BY <1>1 DEF Objects
  <1>3. f[o].since = NoTime <=> o.since = NoTime BY DEF Ages
  <1>4. ASSUME o = Unborn PROVE f[o] = Unborn
    BY <1>1, <1>3, <1>4 DEF Unborn
  <1> QED BY <1>1, <1>2, <1>3, <1>4

\* What it does to the store ...
LEMMA AgedStore ==
    ASSUME StoreTypeOK, NEW f, Ages(f), Aged(f)
    PROVE  /\ StoreTypeOK'
           /\ \A c \in Claims : /\ Len(log'[c]) = Len(log[c])
                                /\ Server(c)' = f[Server(c)]
                                /\ \A i \in 1 .. Len(log[c]) :
                                      log[c][i] \in Objects /\ log'[c][i] = f[log[c][i]]
  <1>1. ASSUME NEW c \in Claims
        PROVE  /\ log'[c] \in Seq(Objects) /\ Len(log'[c]) = Len(log[c])
               /\ \A i \in 1 .. Len(log[c]) :
                     log[c][i] \in Objects /\ log'[c][i] = f[log[c][i]]
               /\ Len(log[c]) \in 1 .. (MaxLag + 1)
    <2>1. log[c] \in Seq(Objects) /\ Len(log[c]) \in Nat BY DEF StoreTypeOK
    <2>2. log'[c] = [i \in 1 .. Len(log[c]) |-> f[log[c][i]]] BY DEF Aged
    <2>3. \A i \in 1 .. Len(log[c]) : log[c][i] \in Objects /\ f[log[c][i]] \in Objects
      BY <2>1, AgesKeep
    <2> QED BY <2>1, <2>2, <2>3 DEF StoreTypeOK
  <1>2. log' \in [Claims -> Seq(Objects)] BY <1>1 DEF Aged
  <1>3. \A c \in Claims : Len(log[c]) \in 1 .. Len(log[c]) BY <1>1, StoreAssumption
  <1>4. \A c \in Claims : Server(c)' = f[Server(c)] BY <1>1, <1>3 DEF Server
  <1> QED BY <1>1, <1>2, <1>4 DEF StoreTypeOK, Aged

\* ... and to the invariants: nothing in them is about the annotation.
LEMMA AgedKeeps ==
    ASSUME Inv, NEW f, Ages(f), Aged(f)
    PROVE  Inv' /\ (PlacedInv => PlacedInv')
  <1>1. /\ StoreTypeOK'
        /\ \A c \in Claims : /\ Len(log'[c]) = Len(log[c])
                             /\ Server(c)' = f[Server(c)]
                             /\ \A i \in 1 .. Len(log[c]) :
                                   log[c][i] \in Objects /\ log'[c][i] = f[log[c][i]]
    BY AgedStore, TypeParts DEF Inv
  <1>2. \A c \in Claims : Server(c) \in Objects BY ServerType, TypeParts DEF Inv
  <1>3. /\ rec \in [pc: RecPC, claim: Claims \cup {NoName}, obj: Objects, nodeReady: BOOLEAN]
        /\ rec.obj \in Objects
    BY DEF Inv, TypeOK
  <1>4. /\ UNCHANGED <<vms, call, faults, current, queue, node, labelled, pool, config>>
        /\ rec'.pc = rec.pc /\ rec'.claim = rec.claim /\ rec'.obj = f[rec.obj]
        /\ rec' \in [pc: RecPC, claim: Claims \cup {NoName}, obj: Objects, nodeReady: BOOLEAN]
    BY <1>3, AgesKeep DEF Aged, providerVars, clusterVars
  <1>5. TypeOK' BY <1>1, <1>3, <1>4, AgesKeep DEF Inv, TypeOK, ProviderTypeOK
  <1>6. DeletionSticks' BY <1>1, AgesKeep DEF Inv, DeletionSticks
  <1>7. FinalizerSticks'
    <2> SUFFICES ASSUME NEW c \in Claims, NEW i \in 1 .. Len(log'[c]),
                        Protected(log'[c][i]), ~log'[c][i].del
                 PROVE  Protected(Server(c)')
      BY DEF FinalizerSticks, Protected
    <2>1. Protected(log[c][i]) /\ ~log[c][i].del BY <1>1, AgesKeep DEF Protected
    <2>2. Protected(Server(c)) BY <1>1, <2>1 DEF Inv, FinalizerSticks
    <2> QED BY <1>1, <1>2, <2>2, AgesKeep DEF Protected
  <1>8. UnbornIsEmpty' 
    BY <1>1, <1>2, AgesKeep DEF Inv, UnbornIsEmpty
  <1>9. ReadyIsBacked'
    <2>1. \A c \in Claims : Backed(Server(c)')
      BY <1>1, <1>2, AgesKeep DEF Inv, ReadyIsBacked, Backed, isClaimReady
    <2> QED BY <2>1 DEF ReadyIsBacked, Backed
  <1>10. CopyInSync'
    <2>1. \A c \in current : c \in Claims BY DEF Inv, TypeOK, StoreTypeOK
    <2>2. \A c \in current' : rec'.pc # "idle" /\ c = rec'.claim /\ rec'.obj = Server(c)'
      BY <1>1, <1>4, <2>1 DEF Inv, CopyInSync
    <2> QED BY <1>3, <1>4, <2>2, AgesKeep DEF Inv, CopyInSync
  <1>11. CreateAttended' BY <1>4 DEF Inv, CreateAttended
  <1>12. ReconcileCovered'
    <2>1. CASE rec.pc = "idle"
      BY <1>4, <2>1 DEF ReconcileCovered, CreatedPC, TeardownPC
    <2>2. CASE rec.pc # "idle"
      <3>1. PICK d \in Claims : d = rec.claim BY <2>2 DEF Inv, TypeOK
      <3>2. Protected(Server(d)) => Protected(Server(rec.claim))'
        BY <1>1, <1>2, <1>4, <3>1, AgesKeep DEF Protected, Server
      <3>3. ASSUME \A i \in 1 .. Len(log[d]) : log[d][i].del
            PROVE  \A i \in 1 .. Len(log'[d]) : log'[d][i].del
        BY <1>1, <3>3, AgesKeep
      <3>4. rec'.obj.fin = rec.obj.fin BY <1>3, <1>4, AgesKeep
      <3> QED BY <1>4, <3>1, <3>2, <3>3, <3>4 DEF Inv, ReconcileCovered
    <2> QED BY <2>1, <2>2
  <1>13. ASSUME PlacedInv PROVE PlacedInv'
    <2>1. MachinesPlaced' BY <1>4, <1>13 DEF PlacedInv, MachinesPlaced
    <2>2. VersionsPlaced'
      <3> SUFFICES ASSUME NEW c \in Claims, NEW i \in 1 .. Len(log'[c])
                   PROVE  OnTarget(log'[c][i])
        BY DEF VersionsPlaced, OnTarget
      <3>1. OnTarget(log[c][i]) BY <1>1, <1>13 DEF PlacedInv, VersionsPlaced
      <3> QED BY <1>1, <3>1, AgesKeep DEF OnTarget
    <2>3. CopyPlaced' BY <1>3, <1>4, <1>13, AgesKeep DEF PlacedInv, CopyPlaced, OnTarget
    <2>4. TeardownOrder'
      BY <1>3, <1>4, <1>13, AgesKeep DEF PlacedInv, TeardownOrder, Gone
    <2> QED BY <2>1, <2>2, <2>3, <2>4 DEF PlacedInv
  <1> QED BY <1>5, <1>6, <1>7, <1>8, <1>9, <1>10, <1>11, <1>12, <1>13 DEF Inv

\* A forgotten name is blank, and what is known of the others stays.
LEMMA ForgottenStore ==
    ASSUME StoreTypeOK, NEW c \in Claims, Forgotten(c)
    PROVE  /\ StoreTypeOK'
           /\ Server(c)' = Unborn /\ \A d \in Claims \ {c} : Server(d)' = Server(d)
           /\ log'[c] = <<Unborn>> /\ \A d \in Claims \ {c} : log'[d] = log[d]
  <1>1. log' = [log EXCEPT ![c] = <<Unborn>>] /\ UNCHANGED current BY DEF Forgotten
  <1>2. log'[c] = <<Unborn>> /\ \A d \in Claims \ {c} : log'[d] = log[d]
    BY <1>1 DEF StoreTypeOK
  <1>3. Unborn \in Objects BY DEF Unborn, Objects
  <1>4. log' \in [Claims -> Seq(Objects)] BY <1>1, <1>3 DEF StoreTypeOK
  <1>5. Len(log'[c]) = 1 /\ log'[c][1] = Unborn BY <1>2
  <1>6. 1 \in 1 .. (MaxLag + 1) BY StoreAssumption
  <1> QED BY <1>1, <1>2, <1>4, <1>5, <1>6 DEF StoreTypeOK, Server

\* ... and the invariants hold of the others as before.
LEMMA ForgottenKeeps ==
    ASSUME Inv, NEW c \in Claims, Forgotten(c)
    PROVE  Inv' /\ (PlacedInv => PlacedInv')
  <1>1. /\ StoreTypeOK'
        /\ Server(c)' = Unborn /\ \A d \in Claims \ {c} : Server(d)' = Server(d)
        /\ log'[c] = <<Unborn>> /\ \A d \in Claims \ {c} : log'[d] = log[d]
    BY ForgottenStore, TypeParts DEF Inv
  <1>2. /\ UNCHANGED <<vms, call, faults, current, rec, queue, pool, config>>
        /\ rec.claim # c
        /\ node' \in [Claims -> {"none", "NotReady", "Ready"}] /\ labelled' \subseteq Claims
    BY DEF Forgotten, providerVars, Inv, TypeOK
  <1>3. TypeOK' BY <1>1, <1>2 DEF Inv, TypeOK, ProviderTypeOK
  <1>4. Len(log'[c]) = 1 /\ log'[c][1] = Unborn BY <1>1
  <1>5. DeletionSticks' BY <1>1, <1>4 DEF Inv, DeletionSticks, Unborn
  <1>6. FinalizerSticks' BY <1>1, <1>4 DEF Inv, FinalizerSticks, Protected, Unborn
  <1>7. UnbornIsEmpty' BY <1>1 DEF Inv, UnbornIsEmpty
  <1>8. ReadyIsBacked'
    <2>1. \A d \in Claims : Backed(Server(d)')
      BY <1>1 DEF Inv, ReadyIsBacked, Backed, isClaimReady, Unborn
    <2> QED BY <2>1 DEF ReadyIsBacked, Backed
  <1>9. \A d \in current : d \in Claims \ {c}
    BY <1>2 DEF Inv, CopyInSync, TypeOK, StoreTypeOK
  <1>10. CopyInSync' BY <1>1, <1>2, <1>9 DEF Inv, CopyInSync
  <1>11. rec.pc # "idle" => rec.claim \in Claims \ {c} BY <1>2 DEF Inv, TypeOK
  <1>12. ReconcileCovered'
    <2>1. CASE rec.pc = "idle"
      BY <1>2, <2>1 DEF ReconcileCovered, CreatedPC, TeardownPC
    <2>2. CASE rec.pc # "idle"
      BY <1>1, <1>2, <1>11, <2>2 DEF Inv, ReconcileCovered, Protected, Server
    <2> QED BY <2>1, <2>2
  <1>13. CreateAttended' BY <1>2 DEF Inv, CreateAttended
  <1>14. ASSUME PlacedInv PROVE PlacedInv'
    <2>1. VersionsPlaced' BY <1>1, <1>4, <1>14 DEF PlacedInv, VersionsPlaced, OnTarget, Unborn
    <2> QED BY <1>2, <1>14, <2>1
            DEF PlacedInv, MachinesPlaced, CopyPlaced, OnTarget, TeardownOrder, Gone
  <1> QED BY <1>3, <1>5, <1>6, <1>7, <1>8, <1>10, <1>12, <1>13, <1>14 DEF Inv

\* What the provisioner writes applies to the server's version, whatever the claim
\* controller does meanwhile.
LEMMA ProvidedKeeps ==
    ASSUME Inv, NEW c \in Claims, NEW o, Provided(c, o)
    PROVE  /\ Inv' /\ KeepsPIDs /\ (PlacedInv => PlacedInv')
           /\ UNCHANGED vms /\ Store(c, o) /\ OtherWrite(c, o)
  <1>1. Server(c) \in Objects /\ Backed(Server(c))
    BY ServerType, TypeParts DEF Inv, ReadyIsBacked
  <1>2. StoreOther(c, o) BY DEF Provided
  <1>3. Server(c).phase = "unborn" => Server(c) = Unborn BY DEF Inv, UnbornIsEmpty
  <1>4. /\ o \in Objects /\ o.phase # "unborn" /\ o.pid = Server(c).pid
        /\ Server(c).del => o.del
        /\ Server(c).fin => o.fin = Server(c).fin
        /\ Server(c).phase = "live" /\ Server(c).fin => o.phase = "live"
        /\ Backed(o) /\ OtherWrite(c, o)
    <2>1. CASE Server(c).phase = "unborn" /\ o = [Unborn EXCEPT !.phase = "live"]
      BY <1>3, <2>1 DEF Unborn, Objects, Backed, isClaimReady, OtherWrite
    <2>2. ASSUME NEW t \in Times \cup {NoTime}, Server(c).phase = "live",
                 o = [Server(c) EXCEPT !.since = t]
          PROVE  /\ o \in Objects /\ o.phase # "unborn" /\ o.pid = Server(c).pid
                 /\ Server(c).del => o.del
                 /\ Server(c).fin => o.fin = Server(c).fin
                 /\ Server(c).phase = "live" /\ Server(c).fin => o.phase = "live"
                 /\ Backed(o) /\ OtherWrite(c, o)
      <3>1. /\ o \in Objects /\ o.phase = Server(c).phase /\ o.fin = Server(c).fin
            /\ o.pid = Server(c).pid /\ o.launched = Server(c).launched
            /\ o.ready = Server(c).ready /\ o.del = Server(c).del
        BY <1>1, <2>2 DEF Objects
      <3>2. Backed(o) BY <1>1, <3>1 DEF Backed, isClaimReady
      <3>3. OtherWrite(c, o) BY <2>2 DEF OtherWrite
      <3> QED BY <2>2, <3>1, <3>2, <3>3
    <2>3. CASE Server(c).phase = "live" /\ ~Server(c).del /\ o = Deleted(Server(c), FALSE)
      <3>1. /\ o \in Objects /\ o.phase # "unborn" /\ o.fin = Server(c).fin
            /\ Server(c).fin => o.phase = "live"
            /\ o.pid = Server(c).pid /\ o.launched = Server(c).launched
            /\ o.ready = Server(c).ready
        BY <1>1, <2>3 DEF Deleted, Objects
      <3>2. Backed(o) BY <1>1, <2>3, <3>1 DEF Backed, isClaimReady
      <3>3. OtherWrite(c, o) BY <2>3 DEF OtherWrite, Deleted
      <3> QED BY <2>3, <3>1, <3>2, <3>3
    <2> QED BY <2>1, <2>2, <2>3 DEF Provided
  <1>5. Store(c, o) /\ current' \subseteq current BY <1>2 DEF StoreOther
  <1>6. UNCHANGED <<vms, call, rec, queue, node, labelled, pool, config>>
    BY DEF Provided, clusterVars
  <1>7. TypeOK'
    <2>1. StoreTypeOK' BY <1>4, <1>5, StoreEffect, TypeParts DEF Inv, StoreTypeOK
    <2>2. faults' \in 0 .. MaxFaults BY DEF Provided
    <2> QED BY <1>6, <2>1, <2>2 DEF Inv, TypeOK, ProviderTypeOK
  <1>8. Protected(Server(c)) => Protected(o) BY <1>4 DEF Protected
  <1>9. Inv' /\ KeepsPIDs BY <1>2, <1>4, <1>6, <1>7, <1>8, OtherWriteKeeps
  <1>10. ASSUME PlacedInv PROVE PlacedInv'
    <2>1. OnTarget(Server(c))
      <3>1. Len(log[c]) \in 1 .. Len(log[c])
        BY StoreAssumption DEF Inv, TypeOK, StoreTypeOK
      <3> QED BY <1>10, <3>1 DEF PlacedInv, VersionsPlaced, Server
    <2>2. VersionsPlaced'
      BY <1>4, <1>5, <1>10, <2>1, StorePlaced DEF PlacedInv, OnTarget
    <2> QED BY <1>6, <1>10, <2>2
            DEF PlacedInv, MachinesPlaced, CopyPlaced, OnTarget, TeardownOrder, Gone
  <1> QED BY <1>4, <1>5, <1>6, <1>9, <1>10

\* A fault by itself changes nothing.
LEMMA SpentKeeps ==
    ASSUME Inv, Spent
    PROVE  /\ Inv' /\ (PlacedInv => PlacedInv')
           /\ UNCHANGED <<[c \in Claims |-> Promise(Server(c))], Standing>>
  <1>1. UNCHANGED <<vms, call, log, current, rec, queue, node, labelled, pool, config>>
    BY DEF Spent, clusterVars
  <1>2. TypeOK' BY <1>1 DEF Spent, Inv, TypeOK, ProviderTypeOK, StoreTypeOK
  <1>3. Inv' BY <1>1, <1>2, StutterKeeps
  <1>4. PlacedInv => PlacedInv'
    BY <1>1 DEF PlacedInv, MachinesPlaced, VersionsPlaced, CopyPlaced, OnTarget,
                TeardownOrder, Gone
  <1>5. \A c \in Claims : Server(c)' = Server(c) BY <1>1 DEF Server
  <1>6. \A c \in Claims : Promise(Server(c))' = Promise(Server(c))
    BY <1>1 DEF Promise, isClaimReady, Server
  <1>7. UNCHANGED Standing BY <1>1, <1>5, StandingStays
  <1> QED BY <1>3, <1>4, <1>6, <1>7, LifeStutters

\* In terms of the contract time changes nothing, ...
LEMMA AgedRefines ==
    ASSUME Inv, NEW f, Ages(f), Aged(f)
    PROVE  UNCHANGED <<[c \in Claims |-> Promise(Server(c))], Standing>>
  <1>1. \A c \in Claims : Server(c)' = f[Server(c)] /\ Server(c) \in Objects
    BY AgedStore, ServerType, TypeParts DEF Inv
  <1>2. \A c \in Claims : Promise(Server(c)') = Promise(Server(c))
    BY <1>1, AgesKeep DEF Promise, isClaimReady
  <1>3. \A c \in Claims : Promise(Server(c))' = Promise(Server(c))
    BY <1>2 DEF Promise, isClaimReady
  <1>4. UNCHANGED Standing
    BY <1>1, AgesKeep, StandingStays DEF Aged, providerVars
  <1> QED BY <1>3, <1>4, LifeStutters

\* ... and a forgotten name is recycled.
LEMMA ForgottenRefines ==
    ASSUME Inv, NEW c \in Claims, Forgotten(c), \A i \in VMIDs : vms[i].name # c
    PROVE  Life!Next
  <1>1. Server(c)' = Unborn /\ \A d \in Claims \ {c} : Server(d)' = Server(d)
    BY ForgottenStore, TypeParts DEF Inv
  <1>2. Promise(Server(c))' = Promise(Unborn) BY <1>1 DEF Promise, isClaimReady, Server
  <1>3. Life!Becomes(c, Promise(Unborn)) BY <1>1, <1>2, ObjectBecomes
  <1>4. Life!Becomes(c, Life!Blank) BY <1>3, UnbornBlank
  <1>5. UNCHANGED vms /\ Server(c).phase = "gone" BY DEF Forgotten, providerVars
  <1>6. Server(c).pid # NoPID => Server(c).pid.vmid \in VMIDs
    BY ServerType, TypeParts DEF Inv, Objects, PIDs
  <1>7. c \notin Standing BY <1>6 DEF Standing
  <1>8. UNCHANGED Standing BY <1>1, <1>5, <1>7 DEF Standing, Unborn
  <1>9. [d \in Claims |-> Promise(Server(d))][c].phase = "gone" BY <1>5 DEF Promise
  <1>10. Life!Recycle(c) BY <1>4, <1>7, <1>8, <1>9 DEF Life!Recycle
  <1> QED BY <1>10 DEF Life!Next
=============================================================================
