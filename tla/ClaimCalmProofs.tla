--------------------------- MODULE ClaimCalmProofs ---------------------------
(***************************************************************************)
(* What the claim controller promises about machines when nothing makes it *)
(* lose track of them: no claim has two machines, and the teardown of a    *)
(* claim hits no machine of another.                                       *)
(*                                                                         *)
(* Both need reconciles that start from the server's version, and that the *)
(* providerID Create returns is written: no failed PVE call or API write,  *)
(* no crash, and no annotation by the provisioner between the read and the *)
(* write.  The second also needs that a VMID stays with its claim: no VM   *)
(* is lost by a failed task or to an administrator, and nobody else takes  *)
(* the VMID a teardown has freed.  The runs DuplicateMachine,              *)
(* PartialCreate, OrphanedMachine and ForeignTeardown show why.            *)
(*                                                                         *)
(* The last part, on which the proofs of the whole operator rest, allows   *)
(* for the provisioner: a claim is annotated, deleted or given a Node only *)
(* when it records its machine, so that the copy of a reconcile that       *)
(* creates one stays current until RecordProviderID.                       *)
(***************************************************************************)
EXTENDS ClaimRefinementProofs

Unbuilt(c) == \A i \in VMIDs : vms[i].name # c

\* c is removed, or marked for it: no reconcile that starts now creates a machine.
Settled(c) == Server(c).phase = "gone" \/ Server(c).del

\* A claim that names no machine has none, except while Create runs for it.
NamelessUnbuilt ==
    \A c \in Claims : Server(c).pid = NoPID /\ ~Settled(c) =>
        Unbuilt(c) \/ (rec.pc = "creating" /\ rec.claim = c)

\* A reconcile on its way to Create works for a claim without a machine, and so does
\* Create until the clone; it also knows a machine that it has cloned.
CreatesFirst ==
    /\ rec.pc \in {"finalizer", "resolve", "render"} /\ rec.obj.pid = NoPID =>
            Unbuilt(rec.claim)
    /\ rec.pc = "render" => rec.obj.pid = NoPID
    /\ rec.pc = "creating" /\ (call.pid = NoPID \/ call.pc \in {"nextid", "clone"}) =>
            Unbuilt(rec.claim)

CreatingPC == {"finalizer", "resolve", "render", "creating"}

\* The write that follows Create is accepted, or no longer matters.
CopyCurrent == rec.pc \in CreatingPC => rec.claim \in current \/ Settled(rec.claim)

OneInv == OneMachine /\ NamelessUnbuilt /\ CreatesFirst /\ CopyCurrent

Calm == StaleReads = FALSE /\ {"api", "crash", "pve", "annotate"} \cap Faults = {}

-----------------------------------------------------------------------------
(* Machines *)

\* A step of the hypervisor names no machine after a claim.
LEMMA HypervisorNames ==
    ASSUME Inv, HypervisorStep, NEW i \in VMIDs, vms'[i].name \in Claims
    PROVE  vms'[i].name = vms[i].name
  <1>1. vms \in [VMIDs -> VMs] BY DEF Inv, TypeOK, ProviderTypeOK
  <1>2. Turns(i) BY HypervisorEffect, TypeParts DEF Inv, HypervisorStep
  <1> QED BY <1>1, <1>2, ProviderAssumption DEF Turns, NoVM

\* A claim without a machine gets one only from Create.
LEMMA UnbuiltStays ==
    ASSUME Inv, [Next]_vars, NEW c \in Claims, Unbuilt(c),
           UNCHANGED vms \/ HypervisorStep \/ rec.pc # "creating" \/ rec.claim # c
    PROVE  Unbuilt(c)'
  BY CloneStep, HypervisorNames DEF Unbuilt

\* Every step leaves the name of a machine alone or takes it away, and the clone of
\* Create gives one.
LEMMA NamesGiven ==
    ASSUME Inv, [Next]_vars, NEW i \in VMIDs, vms'[i].name \in Claims
    PROVE  \/ vms'[i].name = vms[i].name
           \/ /\ call.pc = "clone" /\ i = call.pid.vmid /\ rec.pc = "creating"
              /\ vms'[i].name = rec.claim
              /\ \A j \in VMIDs \ {i} : vms'[j].name = vms[j].name
  <1>2. CASE ProviderStep
    <2>1. Names BY <1>2, ProviderType, TypeParts DEF Inv, ProviderStep
    <2>2. call.pc = "clone" => rec.pc = "creating" /\ call.name = rec.claim
      BY DEF Inv, CreateAttended, CreatePC
    <2> QED BY <2>1, <2>2 DEF Names
  <1>3. CASE HypervisorStep BY <1>3, HypervisorNames
  <1> QED BY <1>2, <1>3, MachinesChange

\* No second machine appears.
LEMMA OneStays ==
    ASSUME Inv, OneMachine, CreatesFirst, [Next]_vars
    PROVE  OneMachine'
  <1> SUFFICES ASSUME NEW i \in VMIDs, NEW j \in VMIDs, vms'[i].name \in Claims,
                      vms'[i].name = vms'[j].name
               PROVE  i = j
    BY DEF OneMachine
  <1>1. CASE vms'[i].name = vms[i].name /\ vms'[j].name = vms[j].name
    BY <1>1 DEF OneMachine
  <1>2. CASE vms'[i].name # vms[i].name \/ vms'[j].name # vms[j].name
    <2>1. call.pc = "clone" /\ rec.pc = "creating" /\ vms'[i].name = rec.claim
      BY <1>2, NamesGiven
    <2>2. Unbuilt(rec.claim) BY <2>1 DEF CreatesFirst
    <2> QED BY <2>1, <2>2, NamesGiven DEF Unbuilt
  <1> QED BY <1>1, <1>2

-----------------------------------------------------------------------------
(* Versions *)

\* What a write does to the server's versions.
LEMMA WriteServer ==
    ASSUME Inv, NEW c \in Claims, NEW o \in Objects, Store(c, o)
    PROVE  Server(c)' = o /\ \A d \in Claims \ {c} : Server(d)' = Server(d)
  <1>1. /\ log'[c][Len(log'[c])] = o
        /\ \A d \in Claims \ {c} : log'[d] = log[d]
    BY StoreEffect, TypeParts DEF Inv
  <1> QED BY <1>1 DEF Server

\* A claim on its way out does not come back.
LEMMA SettledStays ==
    ASSUME Inv, [Next]_vars, NEW c \in Claims, Settled(c)
    PROVE  Settled(c)'
  <1>0. Server(c) \in Objects BY ServerType, TypeParts DEF Inv
  <1>1. CASE UNCHANGED log BY <1>1 DEF Settled, Server
  <1>2. ASSUME NEW o, rec.claim \in current, Store(rec.claim, o), OwnWrite(o)
        PROVE  Settled(c)'
    <2>1. PICK d \in Claims : d = rec.claim /\ o \in Objects /\ rec.obj = Server(d)
      BY <1>2, WritesTyped
    <2>2. Server(d)' = o /\ \A e \in Claims \ {d} : Server(e)' = Server(e)
      BY <1>2, <2>1, WriteServer
    <2>3. rec.obj.phase = "live" BY <1>2 DEF Inv, CopyInSync
    <2>4. rec.obj.del => o.del BY <1>2, <2>1 DEF OwnWrite, Objects
    <2> QED BY <2>1, <2>2, <2>3, <2>4 DEF Settled
  <1>3. ASSUME NEW d \in Claims, NEW o, Store(d, o), OtherWrite(d, o)
        PROVE  Settled(c)'
    <2>1. o \in Objects BY <1>3, WritesTyped
    <2>2. /\ Server(d)' = o /\ \A e \in Claims \ {d} : Server(e)' = Server(e)
      BY <1>3, <2>1, WriteServer
    <2>3. Server(d).phase = "unborn" => ~Server(d).del
      BY DEF Inv, UnbornIsEmpty, Unborn
    <2>4. d = c => o.phase = "gone" \/ o.del
      BY <1>0, <1>3, <2>3 DEF OtherWrite, Settled, Objects
    <2> QED BY <2>2, <2>4 DEF Settled
  <1>4. ASSUME NEW d \in Claims, WatchEvent(d) PROVE Settled(c)'
    <2>1. Server(c)' = Server(c)
      BY <1>4, ObserveKeeps, TypeParts DEF Inv, StoreInv, WatchEvent
    <2> QED BY <2>1 DEF Settled
  <1>5. CASE Crash
    <2>1. log'[c] = <<Server(c)>> BY <1>5 DEF Crash, Relist
    <2>2. Server(c)' = Server(c) BY <2>1 DEF Server
    <2> QED BY <2>2 DEF Settled
  <1> QED BY <1>1, <1>2, <1>3, <1>4, <1>5, StoreChanges

\* A claim that still waits for its machine after a step waited for it before.
LEMMA NamelessBefore ==
    ASSUME Inv, [Next]_vars, NEW c \in Claims, Server(c)'.pid = NoPID, ~Settled(c)'
    PROVE  Server(c).pid = NoPID /\ ~Settled(c)
  BY InvStep, SettledStays DEF KeepsPIDs

\* NamelessUnbuilt outside Create, and at its end when the claim is named or unbuilt.
LEMMA NamelessStays ==
    ASSUME Inv, [Next]_vars, NamelessUnbuilt, UNCHANGED vms \/ HypervisorStep,
           \/ rec.pc # "creating"
           \/ rec'.pc = "creating" /\ rec'.claim = rec.claim
           \/ \A c \in Claims :
                 c = rec.claim => Server(c)'.pid # NoPID \/ Settled(c)' \/ Unbuilt(c)
    PROVE  NamelessUnbuilt'
  <1> SUFFICES ASSUME NEW c \in Claims, Server(c)'.pid = NoPID, ~Settled(c)',
                      ~(rec'.pc = "creating" /\ rec'.claim = c)
               PROVE  Unbuilt(c)'
    BY DEF NamelessUnbuilt
  <1>1. Server(c).pid = NoPID /\ ~Settled(c) BY NamelessBefore
  <1>2. Unbuilt(c) BY <1>1 DEF NamelessUnbuilt
  <1> QED BY <1>2, UnbuiltStays

-----------------------------------------------------------------------------
(* The steps *)

\* Without failing PVE calls, Create returns no providerID only if it has cloned
\* nothing.
LEMMA CalmCreate ==
    ASSUME ProviderTypeOK, Provider, "pve" \notin Faults, call.pc \in CreatePC
    PROVE  \/ call.pc \in {"nextid", "clone"} /\ UNCHANGED vms
           \/ call'.pid # NoPID /\ call'.pc \notin {"nextid", "clone"}
  <1>1. CASE call.pc = "nextid"
    BY <1>1 DEF Provider, Create, Configure, Delete, Get, NextID, Clone, CloneReplyLost,
           CloneFails, Fails, Fault, Await, Lookup, ConfigureNothing, Act, Find, DeletePC
  <1>2. CASE call.pc # "nextid"
    <2>1. call \in Calls /\ call.pid \in PIDs /\ call.pid # NoPID
      BY <1>2, SurroundingsAssumption DEF ProviderTypeOK
    <2>2. \A pc, p : ~Fails(pc, p) BY DEF Fails, Fault
    <2>3. ~CloneReplyLost /\ ~CloneFails /\ ~NextID
      BY <1>2, <2>2 DEF CloneReplyLost, CloneFails, Fault, NextID
    <2>4. ~Delete /\ ~Get
      BY <2>2 DEF Delete, Get, Find, Act, Await, CreatePC
    <2>5. CASE Clone
      BY <2>1, <2>5 DEF Clone, Goto, Calls
    <2>6. ASSUME NEW pc \in CreatePC \ {"nextid", "clone"}, Goto(pc)
          PROVE  call'.pid # NoPID /\ call'.pc \notin {"nextid", "clone"}
      BY <2>1, <2>6 DEF Goto, Calls
    <2>7. ASSUME NEW e, Return(call.pid, e)
          PROVE  call'.pid # NoPID /\ call'.pc \notin {"nextid", "clone"}
      BY <2>1, <2>7 DEF Return, Calls
    <2> QED BY <1>2, <2>2, <2>3, <2>4, <2>5, <2>6, <2>7
            DEF Provider, Create, Configure, Lookup, ConfigureNothing, Act, Await, CreatePC
  <1> QED BY <1>1, <1>2

\* A step of the provider.
LEMMA ProviderCalm ==
    ASSUME Inv, OneInv, Calm, ProviderStep, [Next]_vars
    PROVE  NamelessUnbuilt' /\ CreatesFirst' /\ CopyCurrent'
  <1>1. Provider /\ UNCHANGED <<rec, log, current>>
    BY DEF ProviderStep, storeVars, workVars
  <1>2. CopyCurrent' BY <1>1 DEF OneInv, CopyCurrent, Settled, Server
  <1>3. NamelessUnbuilt'
    <2> SUFFICES ASSUME NEW c \in Claims, Server(c)'.pid = NoPID, ~Settled(c)',
                        ~(rec.pc = "creating" /\ rec.claim = c)
                 PROVE  Unbuilt(c)'
      BY <1>1 DEF NamelessUnbuilt
    <2>1. Unbuilt(c) BY NamelessBefore DEF OneInv, NamelessUnbuilt
    <2> QED BY <2>1, UnbuiltStays
  <1>4. CASE rec.pc # "creating"
    <2>1. rec.pc \in {"finalizer", "resolve", "render"} => rec.claim \in Claims
      BY DEF Inv, TypeOK
    <2> QED BY <1>1, <1>2, <1>3, <1>4, <2>1, UnbuiltStays
            DEF OneInv, CreatesFirst, Unbuilt
  <1>5. CASE rec.pc = "creating"
    <2>1. call.pc \in CreatePC BY <1>1, <1>5, ReturnedStays DEF Inv, CreateAttended
    <2>2. \/ call.pc \in {"nextid", "clone"} /\ UNCHANGED vms
          \/ call'.pid # NoPID /\ call'.pc \notin {"nextid", "clone"}
      BY <1>1, <2>1, CalmCreate, TypeParts DEF Inv, Calm
    <2> QED BY <1>1, <1>2, <1>3, <1>5, <2>2 DEF OneInv, CreatesFirst, Unbuilt
  <1> QED BY <1>4, <1>5

\* An idle worker, and one at a point outside the creation of a machine.
LEMMA ElsewhereCalm ==
    ASSUME rec'.pc \notin CreatingPC
    PROVE  CreatesFirst' /\ CopyCurrent'
  BY DEF CreatesFirst, CopyCurrent, CreatingPC

\* The other steps of a reconcile, up to Create ...
LEMMA CreatingCalm ==
    ASSUME Inv, OneInv, Calm, [Next]_vars,
           AddFinalizer \/ ResolveProvider \/ RenderCloudInit
    PROVE  NamelessUnbuilt' /\ CreatesFirst' /\ CopyCurrent'
  <1> USE DEF At
  <1>1. /\ rec \in [pc: RecPC, claim: Claims \cup {NoName}, obj: Objects, nodeReady: BOOLEAN]
        /\ rec.obj \in Objects
    BY DEF Inv, TypeOK
  <1>2. /\ rec.pc \in {"finalizer", "resolve", "render"} /\ rec.claim \in Claims
        /\ UNCHANGED vms
    BY DEF AddFinalizer, ResolveProvider, RenderCloudInit, Inv, TypeOK
  <1>3. NamelessUnbuilt' BY <1>2, NamelessStays DEF OneInv
  <1>4. rec.claim \in current \/ Settled(rec.claim)
    BY <1>2 DEF OneInv, CopyCurrent, CreatingPC
  <1>5. ASSUME rec'.pc \in CreatingPC, rec'.claim = rec.claim, UNCHANGED current
        PROVE  CopyCurrent'
    <2>1. Settled(rec.claim) => Settled(rec.claim)'
      <3>1. PICK c \in Claims : c = rec.claim BY <1>2
      <3>2. Settled(c) => Settled(c)' BY SettledStays
      <3> QED BY <1>5, <3>1, <3>2
    <2> QED BY <1>4, <1>5, <2>1 DEF CopyCurrent
  <1>6. ASSUME NEW requeue, Done(requeue)
        PROVE  CreatesFirst' /\ CopyCurrent'
    BY <1>6, ElsewhereCalm DEF Done, NoRec, CreatingPC
  <1>7. CASE AddFinalizer
    <2>1. CASE /\ UNCHANGED current
               /\ \/ Step("resolve")
                  \/ rec' = [rec EXCEPT !.pc = "resolve", !.obj = [rec.obj EXCEPT !.fin = TRUE]]
      <3>1. /\ rec'.pc = "resolve" /\ rec'.claim = rec.claim
            /\ rec'.obj.pid = rec.obj.pid
        <4>1. CASE Step("resolve") BY <1>1, <4>1 DEF Step
        <4>2. CASE rec' = [rec EXCEPT !.pc = "resolve", !.obj = [rec.obj EXCEPT !.fin = TRUE]]
          BY <1>1, <4>2 DEF Objects
        <4> QED BY <2>1, <4>1, <4>2
      <3>2. CopyCurrent' BY <1>5, <2>1, <3>1 DEF CreatingPC
      <3>3. CreatesFirst' BY <1>2, <3>1 DEF OneInv, CreatesFirst, Unbuilt
      <3> QED BY <1>3, <3>2, <3>3
    <2>2. CASE Done(TRUE) BY <1>3, <1>6, <2>2
    <2> QED BY <1>7, <2>1, <2>2 DEF AddFinalizer, storeVars
  <1>8. CASE ResolveProvider
    <2>1. CASE /\ UNCHANGED current /\ rec.obj.pid = NoPID /\ Step("render")
      <3>1. /\ rec'.pc = "render" /\ rec'.claim = rec.claim /\ rec'.obj = rec.obj
        BY <1>1, <2>1 DEF Step
      <3>2. CopyCurrent' BY <1>5, <2>1, <3>1 DEF CreatingPC
      <3>3. CreatesFirst' BY <1>2, <2>1, <3>1 DEF OneInv, CreatesFirst, Unbuilt
      <3> QED BY <1>3, <3>2, <3>3
    <2>2. CASE Step("readiness")
      <3>1. rec'.pc = "readiness" BY <1>1, <2>2 DEF Step
      <3> QED BY <1>3, <3>1, ElsewhereCalm DEF CreatingPC
    <2>3. CASE Done(TRUE) BY <1>3, <1>6, <2>3
    <2> QED BY <1>8, <2>1, <2>2, <2>3 DEF ResolveProvider, storeVars
  <1>9. CASE RenderCloudInit
    <2>1. CASE UNCHANGED current /\ Step("creating")
      <3>1. rec'.pc = "creating" /\ rec'.claim = rec.claim BY <1>1, <2>1 DEF Step
      <3>2. CopyCurrent' BY <1>5, <2>1, <3>1 DEF CreatingPC
      <3>3. Unbuilt(rec.claim)
        BY <1>9 DEF OneInv, CreatesFirst, RenderCloudInit
      <3>4. CreatesFirst' BY <1>2, <3>1, <3>3 DEF CreatesFirst, Unbuilt
      <3> QED BY <1>3, <3>2, <3>4
    <2>2. CASE Done(TRUE) BY <1>3, <1>6, <2>2
    <2> QED BY <1>9, <2>1, <2>2 DEF RenderCloudInit, storeVars
  <1> QED BY <1>7, <1>8, <1>9

\* ... and the write that follows it, which names the machine in the claim.
LEMMA RecordCalm ==
    ASSUME Inv, OneInv, Calm, [Next]_vars, RecordProviderID
    PROVE  NamelessUnbuilt' /\ CreatesFirst' /\ CopyCurrent'
  <1> USE DEF At
  <1>1. /\ rec.pc = "creating" /\ call.pc = "returned" /\ rec.obj \in Objects
        /\ UNCHANGED vms /\ rec'.pc = "idle"
    BY DEF RecordProviderID, Done, NoRec, Inv, TypeOK
  <1>2. PICK c \in Claims : c = rec.claim BY <1>1 DEF Inv, TypeOK
  <1>3. PICK l \in {"CreateFailed", "Created"} :
           TryWrite([rec.obj EXCEPT !.pid = IF @ = NoPID THEN call.pid ELSE @,
                                    !.launched = l])
    BY DEF RecordProviderID
  <1> DEFINE o == [rec.obj EXCEPT !.pid = IF @ = NoPID THEN call.pid ELSE @,
                                  !.launched = l]
  <1>4. Server(c)'.pid # NoPID \/ Settled(c)' \/ Unbuilt(c)
    <2>1. CASE c \in current /\ Store(c, o)
      <3>1. o \in Objects
        <4>1. OwnWrite(o) BY <1>1 DEF OwnWrite
        <4> QED BY <1>2, <2>1, <4>1, WritesTyped
      <3>2. Server(c)' = o BY <2>1, <3>1, WriteServer
      <3>3. o.pid = NoPID => call.pid = NoPID BY <1>1 DEF Objects
      <3> QED BY <1>1, <1>2, <3>2, <3>3 DEF OneInv, CreatesFirst
    <2>2. CASE c \notin current
      <3>1. Settled(c) BY <1>1, <1>2, <2>2 DEF OneInv, CopyCurrent, CreatingPC
      <3> QED BY <3>1, SettledStays
    <2>3. ~Fault("api") BY DEF Calm, Fault
    <2> QED BY <1>2, <1>3, <2>1, <2>2, <2>3 DEF TryWrite, Written, NotWritten
  <1>5. NamelessUnbuilt' BY <1>1, <1>2, <1>4, NamelessStays DEF OneInv
  <1> QED BY <1>1, <1>5, ElsewhereCalm DEF CreatingPC

\* Readiness and teardown.
LEMMA OtherCalm ==
    ASSUME Inv, OneInv, [Next]_vars,
           \/ NodeNotRegistered \/ ReadNode \/ LabelNode \/ SetReady \/ ReconcileDelete
           \/ VerifyDeleted \/ ConfirmGone \/ RemoveFinalizer
    PROVE  NamelessUnbuilt' /\ CreatesFirst' /\ CopyCurrent'
  <1>1. rec \in [pc: RecPC, claim: Claims \cup {NoName}, obj: Objects, nodeReady: BOOLEAN]
    BY DEF Inv, TypeOK
  <1>2. UNCHANGED vms /\ rec.pc # "creating"
    BY DEF NodeNotRegistered, ReadNode, LabelNode, SetReady, ReconcileDelete, VerifyDeleted,
           ConfirmGone, RemoveFinalizer, At
  <1>3. rec'.pc \in {"idle", "label", "condition", "release", "deleting", "verifying"}
    <2>a. ASSUME NEW requeue, Done(requeue) PROVE rec'.pc = "idle"
      BY <2>a DEF Done, NoRec
    <2>1. CASE NodeNotRegistered \/ SetReady \/ RemoveFinalizer
      BY <2>1, <2>a DEF NodeNotRegistered, SetReady, RemoveFinalizer
    <2>2. CASE ReadNode \/ LabelNode
      <3>1. Done(TRUE) \/ rec'.pc \in {"label", "condition"}
        BY <1>1, <2>2 DEF ReadNode, LabelNode, Step
      <3> QED BY <2>a, <3>1
    <2>3. CASE ReconcileDelete \/ VerifyDeleted \/ ConfirmGone
      BY <1>1, <2>3 DEF ReconcileDelete, VerifyDeleted, ConfirmGone, Done, NoRec, Step
    <2> QED BY <2>1, <2>2, <2>3
  <1>4. NamelessUnbuilt' BY <1>2, NamelessStays DEF OneInv
  <1> QED BY <1>3, <1>4, ElsewhereCalm DEF CreatingPC

\* A new reconcile starts from the server's version.
LEMMA ReconcileCalm ==
    ASSUME Inv, OneInv, Calm, [Next]_vars, NEW c \in Claims, Reconcile(c)
    PROVE  NamelessUnbuilt' /\ CreatesFirst' /\ CopyCurrent'
  <1>1. UNCHANGED <<vms, call, log>> /\ rec.pc = "idle" /\ Fresh(c)
    BY DEF Reconcile, providerVars, At, Calm
  <1>2. NamelessUnbuilt' BY <1>1, NamelessStays DEF OneInv
  <1>3. CASE UNCHANGED rec
    BY <1>1, <1>2, <1>3, ElsewhereCalm DEF CreatingPC
  <1>4. CASE /\ Cached(c).phase = "live"
             /\ rec' = [NoRec EXCEPT !.pc = IF Cached(c).del THEN "delete" ELSE "finalizer",
                                     !.claim = c, !.obj = Cached(c)]
             /\ current' = {c}
    <2>1. Cached(c) = Server(c) BY <1>1 DEF Cached, Server, Fresh
    <2>2. /\ rec'.pc = IF Server(c).del THEN "delete" ELSE "finalizer"
          /\ rec'.claim = c /\ rec'.obj = Server(c)
      BY <1>4, <2>1 DEF NoRec
    <2>3. CopyCurrent' BY <1>4, <2>2 DEF CopyCurrent
    <2>4. ~Server(c).del /\ Server(c).pid = NoPID => Unbuilt(c)
      BY <1>1, <1>4, <2>1 DEF OneInv, NamelessUnbuilt, Settled
    <2>5. CreatesFirst' BY <1>1, <2>2, <2>4 DEF CreatesFirst, Unbuilt
    <2> QED BY <1>2, <2>3, <2>5
  <1> QED BY <1>1, <1>3, <1>4 DEF Reconcile

\* The writes of the others outdate the copy only by a deletion.
LEMMA CurrentStays ==
    ASSUME Inv, CopyCurrent, Calm, [Next]_vars, UNCHANGED rec, NEW c \in Claims,
           CreateClaim(c) \/ DeleteClaim(c) \/ HolderReleases(c) \/ Annotate(c)
    PROVE  CopyCurrent'
  <1> SUFFICES ASSUME rec.pc \in CreatingPC
               PROVE  rec.claim \in current' \/ Settled(rec.claim)'
    BY DEF CopyCurrent
  <1>1. PICK d \in Claims : d = rec.claim BY DEF Inv, TypeOK, CreatingPC
  <1>2. d \in current \/ Settled(d) BY <1>1 DEF CopyCurrent
  <1>3. CASE Settled(d) BY <1>1, <1>3, SettledStays
  <1>4. CASE d \in current
    <2>1. Server(d).phase = "live" BY <1>4 DEF Inv, CopyInSync
    <2>2. ~Annotate(c) BY DEF Annotate, Fault, Calm
    <2>3. PICK o : /\ StoreOther(c, o)
                   /\ \/ Server(c).phase = "unborn"
                      \/ o = [Server(c) EXCEPT !.del = TRUE]
                      \/ o = [Server(c) EXCEPT !.phase = "gone"]
      BY <2>2 DEF CreateClaim, DeleteClaim, HolderReleases, DeleteRequest, Deleted
    <2>4. CASE c = d
      <3>1. Server(c) \in Objects BY ServerType, TypeParts DEF Inv
      <3>2. o \in Objects /\ (o.del \/ o.phase = "gone") BY <2>1, <2>3, <2>4, <3>1 DEF Objects
      <3>3. Server(c)' = o BY <2>3, <3>2, WriteServer DEF StoreOther
      <3> QED BY <1>1, <2>4, <3>2, <3>3 DEF Settled
    <2>5. CASE c # d BY <1>1, <1>4, <2>3, <2>5 DEF StoreOther
    <2> QED BY <2>4, <2>5
  <1> QED BY <1>2, <1>3, <1>4

\* The steps of the others leave the reconcile where it is.
LEMMA StandStillCalm ==
    ASSUME Inv, OneInv, [Next]_vars, UNCHANGED <<rec, call>>, UNCHANGED vms \/ HypervisorStep,
           UNCHANGED current \/ CopyCurrent'
    PROVE  NamelessUnbuilt' /\ CreatesFirst' /\ CopyCurrent'
  <1>1. NamelessUnbuilt' BY NamelessStays DEF OneInv
  <1>2. rec.pc \in CreatingPC => rec.claim \in Claims BY DEF Inv, TypeOK, CreatingPC
  <1>3. CreatesFirst'
    BY <1>2, UnbuiltStays DEF OneInv, CreatesFirst, CreatingPC, Unbuilt
  <1>4. ASSUME UNCHANGED current PROVE CopyCurrent'
    <2>1. \A c \in Claims : Settled(c) => Settled(c)' BY SettledStays
    <2>2. rec.pc \in CreatingPC /\ Settled(rec.claim) => Settled(rec.claim)' BY <1>2, <2>1
    <2> QED BY <1>4, <2>2 DEF OneInv, CopyCurrent
  <1> QED BY <1>1, <1>3, <1>4

\* OneInv is inductive, on top of Inv.
LEMMA OneStep ==
    ASSUME Inv, OneInv, Calm, [Next]_vars
    PROVE  OneInv'
  <1>1. OneMachine' BY OneStays DEF OneInv
  <1> SUFFICES NamelessUnbuilt' /\ CreatesFirst' /\ CopyCurrent'
    BY <1>1 DEF OneInv
  <1>2. CASE Controller
    BY <1>2, ProviderCalm, CreatingCalm, RecordCalm, OtherCalm DEF Controller
  <1>3. ASSUME NEW c \in Claims, Reconcile(c)
        PROVE  NamelessUnbuilt' /\ CreatesFirst' /\ CopyCurrent'
    BY <1>3, ReconcileCalm
  <1>4. ~Crash BY DEF Crash, Fault, Calm
  <1>5. ASSUME NEW c \in Claims,
               CreateClaim(c) \/ DeleteClaim(c) \/ HolderReleases(c) \/ Annotate(c)
        PROVE  NamelessUnbuilt' /\ CreatesFirst' /\ CopyCurrent'
    <2>1. UNCHANGED <<vms, call, rec>> BY <1>5, ClaimWrites
    <2>2. CopyCurrent' BY <1>5, <2>1, CurrentStays DEF OneInv
    <2> QED BY <2>1, <2>2, StandStillCalm
  <1>6. CASE \/ \E c \in Claims : JoinNode(c) \/ KubeletReady(c) \/ KubeletLost(c) \/ RemoveNode(c)
             \/ \E c \in Claims : WatchEvent(c)
             \/ DeletePool \/ PoolGone \/ Apply \/ Withdraw \/ HypervisorStep \/ UNCHANGED vars
    <2>1. UNCHANGED <<rec, call, current>> /\ (UNCHANGED vms \/ HypervisorStep)
      BY <1>6 DEF JoinNode, KubeletReady, KubeletLost, RemoveNode, WatchEvent,
             DeletePool, PoolGone, Apply, Withdraw, HypervisorStep, Hypervisor, TaskDone, TaskFailed, ForeignCreate,
             AdminRemove, Migrate, RemoveHost, vars, providerVars, storeVars, workVars
    <2> QED BY <2>1, StandStillCalm
  <1> QED BY <1>2, <1>3, <1>4, <1>5, <1>6 DEF Next, Cluster

\* The initial states.
LEMMA OneInit == Init => OneInv
  <1> SUFFICES ASSUME Init PROVE OneInv
    OBVIOUS
  <1>1. \A i \in VMIDs : vms[i].name = NoName BY DEF Init, ProviderInit, NoVM
  <1>2. rec.pc = "idle" BY DEF Init, NoRec
  <1> QED BY <1>1, <1>2, ProviderAssumption
          DEF OneInv, OneMachine, NamelessUnbuilt, CreatesFirst, CopyCurrent, CreatingPC, Unbuilt

\* No claim ever has two machines, whatever tasks fail on the hypervisor and whoever
\* else creates, migrates and destroys machines there, when reconciles start from the
\* server's version and no PVE call, API write or process fails under them.
THEOREM SingleMachine ==
    ASSUME StaleReads = FALSE, {"api", "crash", "pve", "annotate"} \cap Faults = {}
    PROVE  Spec => []OneMachine
  <1>1. Calm BY DEF Calm
  <1>2. Inv /\ OneInv /\ [Next]_vars => OneInv' BY <1>1, OneStep
  <1>3. OneInv => OneMachine BY DEF OneInv
  <1> QED BY <1>2, <1>3, OneInit, Invariance, PTL DEF Spec

-----------------------------------------------------------------------------
(* Teardown *)

Named(o, n) == vms[o.pid.vmid].name = n

\* A VMID without a machine has no name, and the machine that is being destroyed is
\* the one that Delete waits for.
MachinesKnown ==
    \A i \in VMIDs :
        /\ vms[i].st = "none" <=> vms[i].name = NoName
        /\ vms[i].st = "deleting" =>
                rec.pc = "deleting" /\ call.pc = "waitdestroy" /\ call.pid.vmid = i

HuntingPC == {"deleting", "verifying", "release"}

\* A claim that names a machine got its finalizer before, and until the finalizer is
\* taken off the machine is its own, except while the teardown of the claim runs.
RecordStands(c) ==
    Server(c).phase = "live" /\ Server(c).pid # NoPID =>
        /\ Server(c).fin \/ Server(c).del
        /\ Server(c).fin => Named(Server(c), c) \/ (rec.claim = c /\ rec.pc \in HuntingPC)

RecordsStand == \A c \in Claims : RecordStands(c)

\* A teardown goes on under the finalizer and on the server's version, so it is not
\* repeated after the finalizer is released.
TeardownCurrent ==
    /\ rec.pc \in HuntingPC => rec.obj.fin
    /\ rec.pc \in TeardownPC /\ rec.obj.fin => rec.claim \in current

\* Create has cloned the machine it returns; Delete works on the machine of its claim
\* until the machine is gone, and Get then does not find it.
CreateKnows ==
    rec.pc = "creating" => call.pid = NoPID \/ call.pc = "clone" \/ Named(call, rec.claim)

DeleteKnows ==
    /\ call.pc \in DeletePC => rec.pc = "deleting"
    /\ rec.pc = "deleting" =>
        /\ call.pc \in DeletePC \cup {"returned"} /\ call.pid = rec.obj.pid
        /\ \/ Named(rec.obj, rec.claim)
           \/ /\ Named(rec.obj, NoName)
              /\ call.pc = "waitdestroy" \/ (call.pc = "returned" /\ ~call.err)

GetKnows ==
    /\ call.pc = "get" => rec.pc = "verifying"
    /\ rec.pc = "verifying" =>
        /\ call.pc \in {"get", "returned"} /\ call.pid = rec.obj.pid /\ call.pid # NoPID
        /\ ~call.err
        /\ Named(rec.obj, rec.claim) \/ (Named(rec.obj, NoName) /\ ~call.inst)

CallsKnow == CreateKnows /\ DeleteKnows /\ GetKnows

TearInv == MachinesKnown /\ RecordsStand /\ TeardownCurrent /\ CallsKnow

Still == StaleReads = FALSE /\ Faults \subseteq {"config", "migrate"}

\* TearInv is what TeardownHitsOwn needs.
LEMMA TearImplies == Inv /\ TearInv => TeardownHitsOwn
  <1> SUFFICES ASSUME Inv, TearInv, call.pc \in {"waitstop", "waitdestroy"},
                      vms[call.pid.vmid].st \in {"stopping", "deleting"}
               PROVE  vms[call.pid.vmid].name = rec.claim
    BY DEF TeardownHitsOwn
  <1>1. call.pid.vmid \in VMIDs
    BY CallNamesVM, TypeParts DEF Inv, CallPC, DeletePC
  <1>2. vms[call.pid.vmid].name # NoName BY <1>1 DEF TearInv, MachinesKnown
  <1> QED BY <1>2 DEF TearInv, CallsKnow, DeleteKnows, DeletePC, Named

\* The steps of Create that stay in it or return.
LEMMA StillCreate ==
    ASSUME ProviderTypeOK, Provider, "pve" \notin Faults, call.pc \in CreatePC
    PROVE  /\ \A i \in VMIDs : vms'[i].st = "deleting" => vms[i].st = "deleting"
           /\ \/ call'.pid = NoPID \/ call'.pc = "clone"
              \/ /\ call'.pid = call.pid /\ call.pc # "nextid"
                 /\ call.pc = "clone" => vms'[call.pid.vmid].name = call.name
  <1>0. vms \in [VMIDs -> VMs] /\ call \in Calls BY DEF ProviderTypeOK
  <1>1. CASE call.pc = "nextid"
    <2>1. NextID
      BY <1>1 DEF Provider, Create, Configure, Delete, Get, Clone, CloneReplyLost,
             CloneFails, Fails, Fault, Await, Lookup, ConfigureNothing, Act, Find, DeletePC
    <2> QED BY <1>0, <2>1 DEF NextID, Return, Calls
  <1>2. CASE call.pc # "nextid"
    <2>1. call.pid \in PIDs /\ call.pid.vmid \in VMIDs
      BY <1>2 DEF ProviderTypeOK, PIDs
    <2>2. \A pc, p : ~Fails(pc, p) BY DEF Fails, Fault
    <2>3. ~CloneReplyLost /\ ~CloneFails /\ ~NextID
      BY <1>2, <2>2 DEF CloneReplyLost, CloneFails, Fault, NextID
    <2>4. ~Delete /\ ~Get
      BY <2>2 DEF Delete, Get, Find, Act, Await, CreatePC
    <2>5. CASE Clone
      <3>1. CASE StartClone /\ Goto("waitclone")
        BY <1>0, <1>2, <2>1, <3>1 DEF StartClone, Goto, Calls
      <3>2. CASE Return(NoPID, TRUE) /\ UNCHANGED vms
        BY <1>0, <3>2 DEF Return, Calls
      <3> QED BY <2>5, <3>1, <3>2 DEF Clone
    <2>6. ASSUME NEW pc, Goto(pc), call.pc # "clone", UNCHANGED vms
          PROVE  /\ \A i \in VMIDs : vms'[i].st = "deleting" => vms[i].st = "deleting"
                 /\ call'.pid = call.pid
      BY <1>0, <2>6 DEF Goto, Calls
    <2>7. ASSUME NEW e, Return(call.pid, e), UNCHANGED vms
          PROVE  /\ \A i \in VMIDs : vms'[i].st = "deleting" => vms[i].st = "deleting"
                 /\ call'.pid = call.pid
      BY <1>0, <2>7 DEF Return, Calls
    <2>8. ASSUME NEW pc \in CreatePC \ {"nextid", "clone"}, NEW from,
                 NEW st \in {"configuring", "seeded", "starting"}, NEW next,
                 Act(pc, from, st, next)
          PROVE  /\ \A i \in VMIDs : vms'[i].st = "deleting" => vms[i].st = "deleting"
                 /\ call'.pid = call.pid /\ call.pc # "clone"
      <3>1. CASE vms' = [vms EXCEPT ![call.pid.vmid].st = st] /\ Goto(next)
        BY <1>0, <2>1, <2>8, <3>1 DEF Goto, Calls, VMs, Act
      <3>2. CASE Return(call.pid, TRUE) /\ UNCHANGED vms BY <2>7, <2>8, <3>2 DEF Act
      <3> QED BY <2>8, <3>1, <3>2 DEF Act
    <2>9. CASE \/ Await("waitclone", "cloning", "lookup") \/ Lookup \/ ConfigureNothing
               \/ Await("waitconfigure", "configuring", "cloudinit")
               \/ call.pc = "waitstart" /\ Return(call.pid, FALSE) /\ UNCHANGED vms
      BY <1>2, <2>6, <2>7, <2>9 DEF Await, Lookup, ConfigureNothing
    <2>10. CASE \/ Act("configure", Offline, "configuring", "waitconfigure")
                \/ Act("cloudinit", Offline, "seeded", "start")
                \/ Act("start", Offline, "starting", "waitstart")
      BY <1>2, <2>8, <2>10 DEF CreatePC
    <2> QED BY <2>2, <2>3, <2>4, <2>5, <2>9, <2>10 DEF Provider, Create, Configure
  <1> QED BY <1>1, <1>2

\* The steps of Delete.
LEMMA StillDelete ==
    ASSUME ProviderTypeOK, Provider, "pve" \notin Faults, call.pc \in DeletePC
    PROVE  /\ call'.pid = call.pid /\ call'.pc \in DeletePC \cup {"returned"}
           /\ call.pc = "waitdestroy" =>
                /\ call'.pc = "returned" /\ ~call'.err
                /\ vms[call.pid.vmid].st # "deleting"
           /\ \A i \in VMIDs : vms'[i].st = "deleting" =>
                \/ vms[i].st = "deleting"
                \/ i = call.pid.vmid /\ call'.pc = "waitdestroy"
  <1>0. /\ vms \in [VMIDs -> VMs] /\ call \in Calls
        /\ call.pid \in PIDs /\ call.pid.vmid \in VMIDs
    BY CallNamesVM DEF ProviderTypeOK, CallPC, DeletePC
  <1>1. \A pc, p : ~Fails(pc, p) BY DEF Fails, Fault
  <1>2. Delete
    BY <1>1 DEF Provider, Create, Configure, Get, NextID, Clone, CloneReplyLost, CloneFails,
           Fault, Await, Lookup, ConfigureNothing, Act, DeletePC
  <1>3. ASSUME NEW pc \in DeletePC, Goto(pc)
        PROVE  call'.pid = call.pid /\ call'.pc = pc
    BY <1>0, <1>3 DEF Goto, Calls
  <1>4. ASSUME NEW e, Return(call.pid, e)
        PROVE  call'.pid = call.pid /\ call'.pc = "returned" /\ call'.err = e
    BY <1>0, <1>4 DEF Return, Calls
  <1>5. CASE Find \/ Await("waitstop", "stopping", "destroy")
    BY <1>3, <1>4, <1>5 DEF Find, Await, DeletePC
  <1>6. CASE Act("stop", {"running"} \cup Offline, "stopping", "waitstop")
    BY <1>0, <1>3, <1>4, <1>6 DEF Act, DeletePC, VMs
  <1>7. CASE Act("destroy", Offline, "deleting", "waitdestroy")
    BY <1>0, <1>3, <1>4, <1>7 DEF Act, DeletePC, VMs
  <1>8. CASE /\ call.pc = "waitdestroy" /\ vms[call.pid.vmid].st # "deleting"
             /\ Return(call.pid, FALSE) /\ UNCHANGED <<vms, faults>>
    BY <1>4, <1>8
  <1> QED BY <1>1, <1>2, <1>5, <1>6, <1>7, <1>8 DEF Delete

\* The hypervisor on its own: a machine keeps its name until its destruction is over.
LEMMA StillHypervisor ==
    ASSUME Inv, Still, HypervisorStep, NEW i \in VMIDs
    PROVE  \/ vms[i].st = "deleting" /\ vms'[i] = NoVM
           \/ /\ vms'[i].name = vms[i].name
              /\ vms'[i].st = "none" <=> vms[i].st = "none"
              /\ vms'[i].st = "deleting" => vms[i].st = "deleting"
  <1>0. vms \in [VMIDs -> VMs] BY DEF Inv, TypeOK, ProviderTypeOK
  <1>1. PICK j \in VMIDs : TaskDone(j) \/ \E h \in Hosts : Migrate(j, h)
    BY DEF HypervisorStep, Hypervisor, TaskFailed, ForeignCreate, AdminRemove, RemoveHost,
           Fault, Still
  <1>2. CASE TaskDone(j)
    <2>1. CASE vms[j].st = "deleting" BY <1>0, <1>2, <2>1 DEF TaskDone
    <2>2. CASE vms[j].st # "deleting"
      <3>1. vms' = [vms EXCEPT ![j].st = Completed(@)] /\ vms[j].st # "none"
        BY <1>2, <2>2 DEF TaskDone, TaskStates
      <3>2. Completed(vms[j].st) \notin {"none", "deleting"} BY DEF Completed
      <3> QED BY <1>0, <3>1, <3>2 DEF VMs
    <2> QED BY <2>1, <2>2
  <1>3. ASSUME NEW h \in Hosts, Migrate(j, h)
        PROVE  vms'[i].name = vms[i].name /\ vms'[i].st = vms[i].st
    BY <1>0, <1>3 DEF Migrate, VMs
  <1> QED BY <1>1, <1>2, <1>3

\* What keeps RecordStands: the claim names the machine it named, the machine has kept
\* its name, and a teardown that ends has left the machine or taken the finalizer off.
LEMMA StandsOn ==
    ASSUME Inv, NEW c \in Claims, RecordStands(c),
           Server(c)'.phase = "live" /\ Server(c)'.pid # NoPID =>
                /\ Server(c).phase = "live" /\ Server(c)'.pid = Server(c).pid
                /\ Server(c)'.fin => Server(c).fin
                /\ Server(c)'.fin \/ Server(c)'.del,
           \A i \in VMIDs :
                vms[i].name = c => vms'[i].name = c \/ (rec'.claim = c /\ rec'.pc \in HuntingPC),
           rec.claim = c /\ rec.pc \in HuntingPC /\ Server(c)'.fin =>
                Named(Server(c), c) \/ (rec'.claim = c /\ rec'.pc \in HuntingPC)
    PROVE  RecordStands(c)'
  <1> SUFFICES ASSUME Server(c)'.phase = "live", Server(c)'.pid # NoPID
               PROVE  /\ Server(c)'.fin \/ Server(c)'.del
                      /\ Server(c)'.fin => \/ vms'[Server(c)'.pid.vmid].name = c
                                           \/ rec'.claim = c /\ rec'.pc \in HuntingPC
    BY DEF RecordStands, Named
  <1>1. Server(c) \in Objects BY ServerType, TypeParts DEF Inv
  <1>2. Server(c).pid.vmid \in VMIDs BY <1>1 DEF Objects, PIDs
  <1> QED BY <1>2 DEF RecordStands, Named

\* What the steps do to a claim that names a machine.
LEMMA RecordChanges ==
    ASSUME Inv, [Next]_vars, "crash" \notin Faults, NEW c \in Claims, RecordStands(c),
           Server(c)'.phase = "live", Server(c)'.pid # NoPID
    PROVE  \/ rec.pc = "creating" /\ rec.claim = c
           \/ /\ Server(c).phase = "live" /\ Server(c)'.pid = Server(c).pid
              /\ Server(c)'.fin => Server(c).fin
              /\ Server(c)'.fin \/ Server(c)'.del
  <1>0. Server(c) \in Objects BY ServerType, TypeParts DEF Inv
  <1>1. ASSUME Server(c)' = Server(c)
        PROVE  /\ Server(c).phase = "live" /\ Server(c)'.pid = Server(c).pid
               /\ Server(c)'.fin => Server(c).fin
               /\ Server(c)'.fin \/ Server(c)'.del
    BY <1>1 DEF RecordStands
  <1>2. CASE UNCHANGED log BY <1>1, <1>2 DEF Server
  <1>3. ASSUME NEW o, rec.claim \in current, Store(rec.claim, o), OwnWrite(o),
               rec.pc # "creating" \/ rec.claim # c
        PROVE  /\ Server(c).phase = "live" /\ Server(c)'.pid = Server(c).pid
               /\ Server(c)'.fin => Server(c).fin
               /\ Server(c)'.fin \/ Server(c)'.del
    <2>1. PICK d \in Claims : d = rec.claim /\ o \in Objects /\ rec.obj = Server(d)
      BY <1>3, WritesTyped
    <2>2. Server(d)' = o /\ \A e \in Claims \ {d} : Server(e)' = Server(e)
      BY <1>3, <2>1, WriteServer
    <2>3. CASE c # d BY <1>1, <2>2, <2>3
    <2>4. CASE c = d
      <3>1. /\ rec.obj.phase = "live" /\ (rec.obj.del <=> rec.pc \in TeardownPC)
            /\ rec.pc \in CreatedPC => rec.obj.fin
        BY <1>3 DEF Inv, CopyInSync
      <3>2. CASE rec.pc = "finalizer" /\ o = [rec.obj EXCEPT !.fin = TRUE]
        <4>1. o.pid = rec.obj.pid /\ o.fin BY <1>0, <2>1, <2>4, <3>2 DEF Objects
        <4>2. ~rec.obj.del BY <3>1, <3>2 DEF TeardownPC
        <4>3. rec.obj.fin BY <2>1, <2>2, <2>4, <3>1, <4>1, <4>2 DEF RecordStands
        <4> QED BY <2>1, <2>2, <2>4, <3>1, <4>1, <4>3
      <3>3. ASSUME rec.pc \in CreatedPC, NEW r, o = [rec.obj EXCEPT !.ready = r]
            PROVE  o.pid = rec.obj.pid /\ o.fin /\ rec.obj.fin
        BY <1>0, <2>1, <2>4, <3>1, <3>3 DEF Objects
      <3>4. ASSUME rec.pc = "release", NEW ph, o = [rec.obj EXCEPT !.fin = FALSE, !.phase = ph]
            PROVE  o.pid = rec.obj.pid /\ ~o.fin /\ o.del
        BY <1>0, <2>1, <2>4, <3>1, <3>4 DEF Objects, TeardownPC
      <3> QED BY <1>3, <2>1, <2>2, <2>4, <3>1, <3>2, <3>3, <3>4 DEF OwnWrite
    <2> QED BY <2>3, <2>4
  <1>4. ASSUME NEW d \in Claims, NEW o, Store(d, o), OtherWrite(d, o)
        PROVE  /\ Server(c).phase = "live" /\ Server(c)'.pid = Server(c).pid
               /\ Server(c)'.fin => Server(c).fin
               /\ Server(c)'.fin \/ Server(c)'.del
    <2>1. o \in Objects BY <1>4, WritesTyped
    <2>2. Server(d)' = o /\ \A e \in Claims \ {d} : Server(e)' = Server(e)
      BY <1>4, <2>1, WriteServer
    <2>3. CASE c # d BY <1>1, <2>2, <2>3
    <2>4. CASE c = d
      <3>1. o.phase = "live" /\ o.pid # NoPID BY <2>2, <2>4
      <3>2. /\ Server(c).phase = "live" /\ o.pid = Server(c).pid /\ o.fin = Server(c).fin
            /\ Server(c).del => o.del
        BY <1>0, <1>4, <2>4, <3>1 DEF OtherWrite, Unborn, Objects
      <3> QED BY <2>2, <2>4, <3>1, <3>2 DEF RecordStands
    <2> QED BY <2>3, <2>4
  <1>5. ASSUME NEW d \in Claims, WatchEvent(d) PROVE Server(c)' = Server(c)
    BY <1>5, ObserveKeeps, TypeParts DEF Inv, StoreInv, WatchEvent
  <1>6. ~Crash BY DEF Crash, Fault
  <1> QED BY <1>1, <1>2, <1>3, <1>4, <1>5, <1>6, StoreChanges

\* A step of the provider.
LEMMA ProviderTear ==
    ASSUME Inv, TearInv, Still, ProviderStep, [Next]_vars
    PROVE  TearInv'
  <1>1. Provider /\ UNCHANGED <<rec, log, current>>
    BY DEF ProviderStep, storeVars, workVars
  <1>2. Advances /\ Names /\ ProviderTypeOK BY <1>1, ProviderType, TypeParts DEF Inv
  <1>3. "pve" \notin Faults BY DEF Still
  <1>4. TeardownCurrent' BY <1>1 DEF TearInv, TeardownCurrent
  <1>5. call.pc = "clone" => rec.pc = "creating" /\ call.name = rec.claim /\ rec.claim \in Claims
    BY DEF Inv, CreateAttended, CreatePC, TypeOK
  <1>6. \A i \in VMIDs : vms'[i].st = "none" <=> vms'[i].name = NoName
    BY <1>2, <1>5, ProviderAssumption DEF Names, TearInv, MachinesKnown
  <1>7. \A i \in VMIDs : \A c \in Claims : vms[i].name = c => vms'[i].name = c
    BY <1>2, ProviderAssumption DEF Names, TearInv, MachinesKnown
  <1>8. RecordsStand'
    <2> SUFFICES ASSUME NEW c \in Claims PROVE RecordStands(c)'
      BY DEF RecordsStand
    <2>1. Server(c)' = Server(c) /\ RecordStands(c)
      BY <1>1 DEF Server, TearInv, RecordsStand
    <2>2. /\ Server(c)'.phase = "live" /\ Server(c)'.pid # NoPID =>
                /\ Server(c).phase = "live" /\ Server(c)'.pid = Server(c).pid
                /\ Server(c)'.fin => Server(c).fin
                /\ Server(c)'.fin \/ Server(c)'.del
      BY <2>1 DEF RecordStands
    <2> QED BY <1>1, <1>7, <2>1, <2>2, StandsOn
  <1>9. CASE call.pc \in CreatePC
    <2>1. /\ rec.pc = "creating" /\ call.name = rec.claim
          /\ call'.pc \in CreatePC \cup {"returned"}
      BY <1>2, <1>9 DEF Inv, CreateAttended, Advances
    <2>2. /\ \A i \in VMIDs : vms'[i].st = "deleting" => vms[i].st = "deleting"
          /\ \/ call'.pid = NoPID \/ call'.pc = "clone"
             \/ /\ call'.pid = call.pid /\ call.pc # "nextid"
                /\ call.pc = "clone" => vms'[call.pid.vmid].name = call.name
      BY <1>1, <1>2, <1>3, <1>9, StillCreate
    <2>3. MachinesKnown' BY <1>6, <2>1, <2>2 DEF TearInv, MachinesKnown
    <2>4. CreateKnows'
      <3>1. CASE call.pc \in {"clone", "nextid"} BY <1>1, <2>1, <2>2, <3>1 DEF CreateKnows, Named
      <3>2. CASE call.pc \notin {"clone", "nextid"}
        <4>1. call.pid \in PIDs /\ call.pid.vmid \in VMIDs /\ call.pid # NoPID
          BY <1>2, <1>9, <3>2, SurroundingsAssumption DEF ProviderTypeOK, PIDs
        <4>2. Named(call, rec.claim) BY <2>1, <3>2, <4>1 DEF TearInv, CallsKnow, CreateKnows
        <4>3. vms'[call.pid.vmid].name = rec.claim
          BY <1>2, <3>2, <4>1, <4>2 DEF Names, Named
        <4> QED BY <1>1, <2>2, <4>3 DEF CreateKnows, Named
      <3> QED BY <3>1, <3>2
    <2>5. DeleteKnows' /\ GetKnows'
      BY <1>1, <2>1 DEF DeleteKnows, GetKnows, CreatePC, DeletePC
    <2> QED BY <1>4, <1>8, <2>3, <2>4, <2>5 DEF TearInv, CallsKnow
  <1>10. CASE call.pc \in DeletePC
    <2>1. /\ rec.pc = "deleting" /\ call.pid = rec.obj.pid
          /\ call.pid.vmid \in VMIDs
      BY <1>2, <1>10, CallNamesVM DEF TearInv, CallsKnow, DeleteKnows, CallPC, DeletePC
    <2>2. \A i \in VMIDs : vms'[i].name = vms[i].name
      BY <1>2, <1>10 DEF Names, DeletePC
    <2>3. /\ call'.pid = call.pid /\ call'.pc \in DeletePC \cup {"returned"}
          /\ call.pc = "waitdestroy" =>
               /\ call'.pc = "returned" /\ ~call'.err
               /\ vms[call.pid.vmid].st # "deleting"
          /\ \A i \in VMIDs : vms'[i].st = "deleting" =>
               \/ vms[i].st = "deleting"
               \/ i = call.pid.vmid /\ call'.pc = "waitdestroy"
      BY <1>1, <1>2, <1>3, <1>10, StillDelete
    <2>4. MachinesKnown' BY <1>1, <1>6, <2>1, <2>3 DEF TearInv, MachinesKnown
    <2>5. DeleteKnows'
      <3>1. CASE Named(rec.obj, rec.claim)
        BY <1>1, <2>1, <2>2, <2>3, <3>1 DEF DeleteKnows, Named
      <3>2. CASE ~Named(rec.obj, rec.claim)
        <4>1. Named(rec.obj, NoName) /\ call.pc = "waitdestroy"
          BY <1>10, <2>1, <3>2 DEF TearInv, CallsKnow, DeleteKnows, DeletePC
        <4> QED BY <1>1, <2>1, <2>2, <2>3, <4>1 DEF DeleteKnows, Named
      <3> QED BY <3>1, <3>2
    <2>6. CreateKnows' /\ GetKnows'
      BY <1>1, <2>1, <2>3 DEF CreateKnows, GetKnows, DeletePC
    <2> QED BY <1>4, <1>8, <2>4, <2>5, <2>6 DEF TearInv, CallsKnow
  <1>11. CASE call.pc = "get"
    <2>1. /\ rec.pc = "verifying" /\ call.pid = rec.obj.pid /\ ~call.err
          /\ call.pid.vmid \in VMIDs /\ call.pid # NoPID
      BY <1>2, <1>11, CallNamesVM, SurroundingsAssumption
         DEF TearInv, CallsKnow, GetKnows, CallPC
    <2>2. Get
      BY <1>1, <1>11 DEF Provider, Create, Configure, Delete, NextID, Clone, CloneReplyLost,
             CloneFails, Fails, Await, Lookup, ConfigureNothing, Act, Find, DeletePC
    <2>3. call' = [call EXCEPT !.pc = "returned", !.inst = Found(call.pid)] /\ UNCHANGED vms
      BY <1>3, <2>2 DEF Get, Fails, Fault
    <2>4. /\ call'.pc = "returned" /\ call'.pid = call.pid /\ call'.err = call.err
          /\ call'.inst = Found(call.pid)
      BY <1>2, <2>3 DEF ProviderTypeOK, Calls
    <2>5. MachinesKnown' BY <1>1, <2>1, <2>3 DEF TearInv, MachinesKnown
    <2>6. Named(rec.obj, NoName) => ~Found(call.pid)
      BY <2>1 DEF Named, Found, Free, TearInv, MachinesKnown
    <2>7. Named(rec.obj, rec.claim) \/ Named(rec.obj, NoName)
      BY <2>1 DEF TearInv, CallsKnow, GetKnows
    <2>8. GetKnows' BY <1>1, <2>1, <2>3, <2>4, <2>6, <2>7 DEF GetKnows, Named
    <2>9. CreateKnows' /\ DeleteKnows'
      BY <1>1, <2>1, <2>4 DEF CreateKnows, DeleteKnows, DeletePC
    <2> QED BY <1>4, <1>8, <2>5, <2>8, <2>9 DEF TearInv, CallsKnow
  <1>12. call.pc \notin {"idle", "returned"} BY <1>1, ReturnedStays
  <1> QED BY <1>2, <1>9, <1>10, <1>11, <1>12 DEF ProviderTypeOK, Calls, CallPC

\* A step that leaves the machines alone and starts from no running operation keeps
\* what is known of them, and the records if it ends no teardown.
LEMMA QuietTear ==
    ASSUME Inv, TearInv, Still, [Next]_vars, UNCHANGED vms,
           call.pc \notin DeletePC \cup {"get"},
           \A c \in Claims : rec.claim = c /\ rec.pc \in HuntingPC /\ Server(c)'.fin =>
                Named(Server(c), c) \/ (rec'.claim = c /\ rec'.pc \in HuntingPC)
    PROVE  /\ MachinesKnown'
           /\ \A c \in Claims : rec.pc # "creating" \/ rec.claim # c => RecordStands(c)'
  <1>1. MachinesKnown'
    BY DEF TearInv, MachinesKnown, DeletePC
  <1>2. ASSUME NEW c \in Claims, rec.pc # "creating" \/ rec.claim # c
        PROVE  RecordStands(c)'
    <2>1. RecordStands(c) BY DEF TearInv, RecordsStand
    <2>2. Server(c)'.phase = "live" /\ Server(c)'.pid # NoPID =>
             /\ Server(c).phase = "live" /\ Server(c)'.pid = Server(c).pid
             /\ Server(c)'.fin => Server(c).fin
             /\ Server(c)'.fin \/ Server(c)'.del
      BY <1>2, <2>1, RecordChanges DEF Still
    <2> QED BY <2>1, <2>2, StandsOn
  <1> QED BY <1>1, <1>2

\* A worker outside the operations of the provider and outside a teardown.
LEMMA ElsewhereTear ==
    ASSUME rec'.pc \notin TeardownPC \cup {"creating"}, call'.pc \notin DeletePC \cup {"get"}
    PROVE  TeardownCurrent' /\ CallsKnow'
  BY DEF TeardownCurrent, CallsKnow, CreateKnows, DeleteKnows, GetKnows, TeardownPC, HuntingPC

\* The steps of a reconcile other than those of the provider and of a teardown.
LEMMA CreatingTear ==
    ASSUME Inv, TearInv, Still, [Next]_vars,
           \/ AddFinalizer \/ ResolveProvider \/ RenderCloudInit \/ RecordProviderID
           \/ NodeNotRegistered \/ ReadNode \/ LabelNode \/ SetReady
    PROVE  TearInv'
  <1> USE DEF At
  <1>1. rec \in [pc: RecPC, claim: Claims \cup {NoName}, obj: Objects, nodeReady: BOOLEAN]
    BY DEF Inv, TypeOK
  <1>2. UNCHANGED vms /\ rec.pc \in CreatedPC \cup {"finalizer"}
    BY DEF AddFinalizer, ResolveProvider, RenderCloudInit, RecordProviderID,
           NodeNotRegistered, ReadNode, LabelNode, SetReady, CreatedPC
  <1>3. call.pc \notin DeletePC \cup {"get"}
    BY <1>2 DEF TearInv, CallsKnow, DeleteKnows, GetKnows, CreatedPC
  <1>4. /\ MachinesKnown'
        /\ \A c \in Claims : rec.pc # "creating" \/ rec.claim # c => RecordStands(c)'
    BY <1>2, <1>3, QuietTear DEF CreatedPC, HuntingPC
  <1>5. ASSUME NEW requeue, Done(requeue) PROVE rec'.pc = "idle"
    BY <1>5 DEF Done, NoRec
  <1>6. CASE RecordProviderID
    <2>1. rec.pc = "creating" /\ call.pc = "returned" /\ call' = NoCall
      BY <1>6 DEF RecordProviderID
    <2>2. TeardownCurrent' /\ CallsKnow'
      <3>1. rec'.pc = "idle" BY <1>5, <1>6 DEF RecordProviderID
      <3>2. call'.pc = "idle" BY <2>1 DEF NoCall
      <3> QED BY <3>1, <3>2, ElsewhereTear DEF TeardownPC, DeletePC
    <2>3. PICK c \in Claims : c = rec.claim BY <2>1 DEF Inv, TypeOK
    <2>4. /\ Server(c) \in Objects /\ Server(c).phase = "live" /\ Server(c).fin
          /\ RecordStands(c)
      BY <2>1, <2>3, ServerType, TypeParts
         DEF Inv, ReconcileCovered, CreatedPC, Protected, TearInv, RecordsStand
    <2>5. CASE UNCHANGED log
      <3>1. Server(c)' = Server(c) BY <2>5 DEF Server
      <3> QED BY <1>2, <1>4, <2>1, <2>2, <2>3, <2>4, <3>1, StandsOn
              DEF TearInv, RecordsStand, HuntingPC
    <2>6. ASSUME NEW l \in {"CreateFailed", "Created"}, NEW o,
                 o = [rec.obj EXCEPT !.pid = IF @ = NoPID THEN call.pid ELSE @,
                                     !.launched = l],
                 c \in current, Store(c, o)
          PROVE  RecordStands(c)'
      <3>1. OwnWrite(o) BY <2>1, <2>6 DEF OwnWrite
      <3>2. o \in Objects /\ rec.obj = Server(c) BY <2>3, <2>6, <3>1, WritesTyped
      <3>3. Server(c)' = o BY <2>6, <3>2, WriteServer
      <3>4. o.fin /\ o.pid = IF rec.obj.pid = NoPID THEN call.pid ELSE rec.obj.pid
        BY <2>4, <2>6, <3>2 DEF Objects
      <3>5. rec.obj.pid # NoPID => Named(rec.obj, c)
        BY <2>1, <2>4, <3>2 DEF RecordStands, HuntingPC
      <3>6. call.pid # NoPID => Named(call, c)
        BY <2>1, <2>3 DEF TearInv, CallsKnow, CreateKnows
      <3>7. o.pid # NoPID => vms'[o.pid.vmid].name = c
        BY <1>2, <3>4, <3>5, <3>6 DEF Named
      <3> QED BY <3>3, <3>4, <3>7 DEF RecordStands, Named
    <2>7. UNCHANGED log \/ RecordStands(c)'
      <3>1. PICK l \in {"CreateFailed", "Created"} :
               TryWrite([rec.obj EXCEPT !.pid = IF @ = NoPID THEN call.pid ELSE @,
                                        !.launched = l])
        BY <1>6 DEF RecordProviderID
      <3> QED BY <2>3, <2>6, <3>1, TryWriteEffect
    <2> QED BY <1>4, <2>2, <2>3, <2>5, <2>7 DEF TearInv, RecordsStand
  <1>7. CASE ~RecordProviderID
    <2>1. rec.pc # "creating"
      BY <1>7 DEF AddFinalizer, ResolveProvider, RenderCloudInit, NodeNotRegistered,
             ReadNode, LabelNode, SetReady
    <2>2. RecordsStand' BY <1>4, <2>1 DEF RecordsStand
    <2>3. CASE rec'.pc \notin TeardownPC \cup {"creating"} /\ call'.pc \notin DeletePC \cup {"get"}
      BY <1>4, <2>2, <2>3, ElsewhereTear DEF TearInv
    <2>4. CASE AddFinalizer
      <3>1. rec'.pc \in {"resolve", "idle"}
        <4>1. \/ rec' = [rec EXCEPT !.pc = "resolve"] \/ Done(TRUE)
              \/ rec' = [rec EXCEPT !.pc = "resolve", !.obj = [rec.obj EXCEPT !.fin = TRUE]]
          BY <2>4 DEF AddFinalizer, Step
        <4> QED BY <1>1, <1>5, <4>1
      <3>2. UNCHANGED call BY <2>4 DEF AddFinalizer
      <3> QED BY <1>3, <2>3, <3>1, <3>2 DEF TeardownPC
    <2>5. CASE ResolveProvider
      <3>1. rec'.pc \in {"render", "readiness", "idle"}
        BY <1>1, <1>5, <2>5 DEF ResolveProvider, Step
      <3>2. UNCHANGED call BY <2>5 DEF ResolveProvider
      <3> QED BY <1>3, <2>3, <3>1, <3>2 DEF TeardownPC
    <2>6. CASE RenderCloudInit
      <3>1. CASE BeginCreate(rec.claim) /\ Step("creating")
        <4>1. rec'.pc = "creating" BY <1>1, <3>1 DEF Step
        <4>2. call'.pc = "nextid" /\ call'.pid = NoPID BY <3>1 DEF BeginCreate, NoCall
        <4>3. TeardownCurrent' /\ CallsKnow'
          BY <4>1, <4>2 DEF TeardownCurrent, CallsKnow, CreateKnows, DeleteKnows, GetKnows,
                 TeardownPC, HuntingPC, DeletePC
        <4> QED BY <1>4, <2>2, <4>3 DEF TearInv
      <3>2. CASE Done(TRUE) /\ UNCHANGED call
        BY <1>3, <1>5, <2>3, <3>2 DEF TeardownPC
      <3> QED BY <2>6, <3>1, <3>2 DEF RenderCloudInit
    <2>7. CASE NodeNotRegistered \/ SetReady
      <3>1. rec'.pc = "idle" /\ UNCHANGED call BY <1>5, <2>7 DEF NodeNotRegistered, SetReady
      <3> QED BY <1>3, <2>3, <3>1 DEF TeardownPC
    <2>8. CASE ReadNode \/ LabelNode
      <3>1. Done(TRUE) \/ rec'.pc \in {"label", "condition"}
        BY <1>1, <2>8 DEF ReadNode, LabelNode, Step
      <3>2. rec'.pc \in {"idle", "label", "condition"} /\ UNCHANGED call
        BY <1>5, <2>8, <3>1 DEF ReadNode, LabelNode
      <3> QED BY <1>3, <2>3, <3>2 DEF TeardownPC
    <2> QED BY <1>7, <2>4, <2>5, <2>6, <2>7, <2>8
  <1> QED BY <1>6, <1>7

\* The steps of a teardown.
LEMMA TeardownTear ==
    ASSUME Inv, TearInv, Still, [Next]_vars,
           ReconcileDelete \/ VerifyDeleted \/ ConfirmGone \/ RemoveFinalizer
    PROVE  TearInv'
  <1> USE DEF At
  <1>1. rec \in [pc: RecPC, claim: Claims \cup {NoName}, obj: Objects, nodeReady: BOOLEAN]
    BY DEF Inv, TypeOK
  <1>2. /\ UNCHANGED vms /\ rec.pc \in TeardownPC /\ rec.claim \in Claims
        /\ rec.pc \in {"deleting", "verifying"} => call.pc = "returned"
    BY DEF ReconcileDelete, VerifyDeleted, ConfirmGone, RemoveFinalizer, TeardownPC, Inv, TypeOK
  <1>3. call.pc \notin DeletePC \cup {"get"}
    BY <1>2 DEF TearInv, CallsKnow, DeleteKnows, GetKnows, DeletePC
  <1>4. /\ rec.pc \in HuntingPC => rec.obj.fin
        /\ rec.obj.fin => /\ rec.claim \in current /\ rec.obj = Server(rec.claim)
                          /\ rec.obj.phase = "live"
    BY <1>2 DEF TearInv, TeardownCurrent, Inv, CopyInSync
  <1>5. ASSUME \A c \in Claims : rec.claim = c /\ rec.pc \in HuntingPC /\ Server(c)'.fin =>
                    Named(Server(c), c) \/ (rec'.claim = c /\ rec'.pc \in HuntingPC)
        PROVE  MachinesKnown' /\ RecordsStand'
    <2>1. rec.pc # "creating" BY <1>2 DEF TeardownPC
    <2> QED BY <1>2, <1>3, <1>5, <2>1, QuietTear DEF RecordsStand
  <1>6. ASSUME NEW requeue, Done(requeue), call' \in {call, NoCall},
               rec.pc \in HuntingPC => Named(rec.obj, rec.claim)
        PROVE  TearInv'
    <2>1. rec'.pc = "idle" BY <1>6 DEF Done, NoRec
    <2>2. MachinesKnown' /\ RecordsStand' BY <1>4, <1>5, <1>6
    <2>3. call'.pc \notin DeletePC \cup {"get"} BY <1>3, <1>6 DEF NoCall, DeletePC
    <2> QED BY <2>1, <2>2, <2>3, ElsewhereTear DEF TearInv, TeardownPC
  <1>7. ASSUME NEW pc \in HuntingPC, Step(pc), rec.obj.fin, UNCHANGED current
        PROVE  /\ MachinesKnown' /\ RecordsStand' /\ TeardownCurrent'
               /\ rec'.pc = pc /\ rec'.claim = rec.claim /\ rec'.obj = rec.obj
    <2>1. rec'.pc = pc /\ rec'.claim = rec.claim /\ rec'.obj = rec.obj
      BY <1>1, <1>7 DEF Step
    <2>2. MachinesKnown' /\ RecordsStand' BY <1>5, <1>7, <2>1
    <2>3. TeardownCurrent' BY <1>4, <1>7, <2>1 DEF TeardownCurrent
    <2> QED BY <2>1, <2>2, <2>3
  <1>8. ASSUME Step("release"), rec.obj.fin, UNCHANGED current, call' \in {call, NoCall}
        PROVE  TearInv'
    <2>1. /\ MachinesKnown' /\ RecordsStand' /\ TeardownCurrent' /\ rec'.pc = "release"
      BY <1>7, <1>8 DEF HuntingPC
    <2>2. call'.pc \notin DeletePC \cup {"get"} BY <1>3, <1>8 DEF NoCall, DeletePC
    <2>3. CallsKnow' BY <2>1, <2>2 DEF CallsKnow, CreateKnows, DeleteKnows, GetKnows
    <2> QED BY <2>1, <2>3 DEF TearInv
  <1>9. CASE ReconcileDelete
    <2>1. rec.pc = "delete" BY <1>9 DEF ReconcileDelete
    <2>2. CASE (Done(TRUE) \/ Done(FALSE)) /\ UNCHANGED call BY <1>6, <2>1, <2>2 DEF HuntingPC
    <2>3. CASE rec.obj.fin /\ Step("release") /\ UNCHANGED <<call, current>> BY <1>8, <2>3
    <2>4. CASE /\ rec.obj.fin /\ rec.obj.pid # NoPID /\ BeginDelete(rec.obj.pid)
               /\ Step("deleting") /\ UNCHANGED current
      <3>1. /\ MachinesKnown' /\ RecordsStand' /\ TeardownCurrent'
            /\ rec'.pc = "deleting" /\ rec'.claim = rec.claim /\ rec'.obj = rec.obj
        BY <1>7, <2>4 DEF HuntingPC
      <3>2. call'.pc = "find" /\ call'.pid = rec.obj.pid BY <2>4 DEF BeginDelete, NoCall
      <3>3. Named(rec.obj, rec.claim)
        <4>1. RecordStands(rec.claim) BY <1>2 DEF TearInv, RecordsStand
        <4> QED BY <1>4, <2>1, <2>4, <4>1 DEF RecordStands, HuntingPC
      <3>4. CallsKnow'
        BY <1>2, <3>1, <3>2, <3>3 DEF CallsKnow, CreateKnows, DeleteKnows, GetKnows, DeletePC,
               Named
      <3> QED BY <3>1, <3>4 DEF TearInv
    <2> QED BY <1>9, <2>2, <2>3, <2>4 DEF ReconcileDelete
  <1>10. CASE VerifyDeleted
    <2>1. rec.pc = "deleting" /\ call.pc = "returned" BY <1>10 DEF VerifyDeleted
    <2>2. /\ call.pid = rec.obj.pid
          /\ Named(rec.obj, rec.claim) \/ (Named(rec.obj, NoName) /\ ~call.err)
      BY <2>1 DEF TearInv, CallsKnow, DeleteKnows
    <2>3. CASE call.err /\ Done(TRUE) /\ call' = NoCall BY <1>6, <2>2, <2>3
    <2>4. CASE BeginGet(rec.obj.pid) /\ Step("verifying") /\ UNCHANGED current
      <3>1. /\ MachinesKnown' /\ RecordsStand' /\ TeardownCurrent'
            /\ rec'.pc = "verifying" /\ rec'.claim = rec.claim /\ rec'.obj = rec.obj
        BY <1>4, <1>7, <2>1, <2>4 DEF HuntingPC
      <3>2. /\ call'.pc = "get" /\ call'.pid = rec.obj.pid /\ ~call'.err /\ ~call'.inst
        BY <2>4 DEF BeginGet, NoCall
      <3>3. rec.obj.pid # NoPID BY <2>1 DEF Inv, TypeOK
      <3>4. CallsKnow'
        BY <1>2, <2>2, <3>1, <3>2, <3>3 DEF CallsKnow, CreateKnows, DeleteKnows, GetKnows,
               DeletePC, Named
      <3> QED BY <3>1, <3>4 DEF TearInv
    <2> QED BY <1>10, <2>3, <2>4 DEF VerifyDeleted
  <1>11. CASE ConfirmGone
    <2>1. rec.pc = "verifying" /\ call' = NoCall BY <1>11 DEF ConfirmGone
    <2>2. ~call.err /\ (call.inst => Named(rec.obj, rec.claim))
      BY <2>1 DEF TearInv, CallsKnow, GetKnows
    <2>3. CASE (call.err \/ call.inst) /\ Done(TRUE) BY <1>6, <2>1, <2>2, <2>3
    <2>4. CASE Step("release") /\ UNCHANGED current
      BY <1>4, <1>8, <2>1, <2>4 DEF HuntingPC
    <2> QED BY <1>11, <2>3, <2>4 DEF ConfirmGone
  <1>12. CASE RemoveFinalizer
    <2>1. rec.pc = "release" /\ UNCHANGED call BY <1>12 DEF RemoveFinalizer
    <2>2. PICK c \in Claims : c = rec.claim BY <1>2
    <2>3. c \in current /\ rec.obj = Server(c) /\ rec.obj.fin
      BY <1>4, <2>1, <2>2 DEF HuntingPC
    <2>4. ~Fault("api") BY DEF Still, Fault
    <2>5. PICK ph \in {"live", "gone"} :
             Store(c, [rec.obj EXCEPT !.fin = FALSE, !.phase = ph])
      BY <1>4, <1>12, <2>1, <2>2, <2>3, <2>4 DEF RemoveFinalizer, Written, NotWritten, HuntingPC
    <2> DEFINE o == [rec.obj EXCEPT !.fin = FALSE, !.phase = ph]
    <2>6. OwnWrite(o) BY <2>1 DEF OwnWrite
    <2>7. o \in Objects BY <2>2, <2>3, <2>6, WritesTyped
    <2>8. Server(c)' = o BY <2>5, <2>7, WriteServer
    <2>9. ~o.fin BY <1>1 DEF Objects
    <2>10. MachinesKnown' /\ RecordsStand' BY <1>5, <2>2, <2>8, <2>9
    <2>11. rec'.pc = "idle"
      <3>1. Done(TRUE) \/ Done(FALSE) BY <1>12 DEF RemoveFinalizer
      <3> QED BY <3>1 DEF Done, NoRec
    <2> QED BY <1>3, <2>1, <2>10, <2>11, ElsewhereTear DEF TearInv, TeardownPC
  <1> QED BY <1>9, <1>10, <1>11, <1>12

\* A new reconcile.
LEMMA ReconcileTear ==
    ASSUME Inv, TearInv, Still, [Next]_vars, NEW c \in Claims, Reconcile(c)
    PROVE  TearInv'
  <1>1. UNCHANGED <<vms, call, log>> /\ rec.pc = "idle" /\ Fresh(c)
    BY DEF Reconcile, providerVars, At, Still
  <1>2. call.pc \notin DeletePC \cup {"get"}
    BY <1>1 DEF TearInv, CallsKnow, DeleteKnows, GetKnows
  <1>3. MachinesKnown' /\ RecordsStand'
    BY <1>1, <1>2, QuietTear DEF RecordsStand, HuntingPC
  <1>4. rec'.pc \in {"idle", "finalizer", "delete"} /\ (rec'.pc = "delete" => rec'.claim \in current')
    <2>1. CASE UNCHANGED rec BY <1>1, <2>1
    <2>2. CASE /\ rec' = [NoRec EXCEPT !.pc = IF Cached(c).del THEN "delete" ELSE "finalizer",
                                       !.claim = c, !.obj = Cached(c)]
               /\ current' = {c}
      BY <2>2 DEF NoRec
    <2> QED BY <1>1, <2>1, <2>2 DEF Reconcile
  <1>5. TeardownCurrent' /\ CallsKnow'
    BY <1>1, <1>2, <1>4 DEF TeardownCurrent, CallsKnow, CreateKnows, DeleteKnows, GetKnows,
           TeardownPC, HuntingPC
  <1> QED BY <1>3, <1>5 DEF TearInv

\* The writes of the others do not touch a claim that is being torn down.
LEMMA ClaimWritesTear ==
    ASSUME Inv, TearInv, Still, [Next]_vars, NEW c \in Claims,
           CreateClaim(c) \/ DeleteClaim(c) \/ HolderReleases(c) \/ Annotate(c)
    PROVE  TeardownCurrent'
  <1>1. UNCHANGED rec BY ClaimWrites
  <1>2. ~Annotate(c) BY DEF Annotate, Fault, Still
  <1>3. PICK o : /\ StoreOther(c, o)
                 /\ \/ Server(c).phase = "unborn" \/ ~Server(c).del \/ ~Server(c).fin
    BY <1>2 DEF CreateClaim, DeleteClaim, HolderReleases, DeleteRequest
  <1>4. ASSUME rec.pc \in TeardownPC, rec.obj.fin PROVE rec.claim \in current'
    <2>1. rec.claim \in current BY <1>4 DEF TearInv, TeardownCurrent
    <2>2. /\ Server(rec.claim).phase = "live" /\ Server(rec.claim).del
          /\ Server(rec.claim).fin
      BY <1>4, <2>1 DEF Inv, CopyInSync, TeardownPC
    <2>3. rec.claim # c BY <1>3, <2>2
    <2> QED BY <1>3, <2>1, <2>3 DEF StoreOther
  <1> QED BY <1>1, <1>4 DEF TearInv, TeardownCurrent

\* The steps that leave the reconcile and the operation where they are.
LEMMA StandStillTear ==
    ASSUME Inv, TearInv, Still, [Next]_vars, UNCHANGED <<rec, call, vms>>, TeardownCurrent'
    PROVE  TearInv'
  <1>1. MachinesKnown' BY DEF TearInv, MachinesKnown
  <1>2. CallsKnow'
    BY DEF TearInv, CallsKnow, CreateKnows, DeleteKnows, GetKnows, Named
  <1>3. RecordsStand'
    <2> SUFFICES ASSUME NEW c \in Claims PROVE RecordStands(c)'
      BY DEF RecordsStand
    <2>1. RecordStands(c) BY DEF TearInv, RecordsStand
    <2>2. CASE rec.pc = "creating" /\ rec.claim = c /\ Server(c)' # Server(c)
      <3>1. ~Controller
        <4>1. CASE RecordProviderID BY <2>2, <4>1 DEF RecordProviderID, Done, NoRec
        <4>2. CASE ProviderStep BY <2>2, <4>2 DEF ProviderStep, storeVars, Server
        <4>3. CASE \/ AddFinalizer \/ ResolveProvider \/ RenderCloudInit \/ NodeNotRegistered
                   \/ ReadNode \/ LabelNode \/ SetReady \/ ReconcileDelete
                   \/ VerifyDeleted \/ ConfirmGone \/ RemoveFinalizer
          BY <2>2, <4>3 DEF AddFinalizer, ResolveProvider, RenderCloudInit, NodeNotRegistered,
                 ReadNode, LabelNode, SetReady, ReconcileDelete, VerifyDeleted, ConfirmGone,
                 RemoveFinalizer, At
        <4> QED BY <4>1, <4>2, <4>3 DEF Controller
      <3>2. ~Crash BY DEF Crash, Fault, Still
      <3>3. \A d \in Claims : ~WatchEvent(d)
        BY <2>2, ObserveKeeps, TypeParts DEF Inv, StoreInv, WatchEvent
      <3>0. PICK d \in Claims : \E o : Store(d, o) /\ OtherWrite(d, o)
        BY <2>2, <3>1, <3>2, <3>3, StoreChanges DEF Server
      <3>4. PICK o : Store(d, o) /\ OtherWrite(d, o) BY <3>0
      <3>5. o \in Objects BY <3>4, WritesTyped
      <3>6. d = c /\ Server(c)' = o BY <2>2, <3>4, <3>5, WriteServer
      <3>7. Server(c) \in Objects /\ Server(c).phase = "live" /\ Server(c).fin
        BY <2>2, ServerType, TypeParts DEF Inv, ReconcileCovered, CreatedPC, Protected
      <3>8. o.phase = "live" => o.pid = Server(c).pid /\ o.fin
        BY <3>4, <3>6, <3>7 DEF OtherWrite, Objects
      <3> QED BY <2>1, <2>2, <3>6, <3>7, <3>8, StandsOn
    <2>3. CASE rec.pc # "creating" \/ rec.claim # c \/ Server(c)' = Server(c)
      <3>1. Server(c)'.phase = "live" /\ Server(c)'.pid # NoPID =>
               /\ Server(c).phase = "live" /\ Server(c)'.pid = Server(c).pid
               /\ Server(c)'.fin => Server(c).fin
               /\ Server(c)'.fin \/ Server(c)'.del
        BY <2>1, <2>3, RecordChanges DEF Still, RecordStands
      <3> QED BY <2>1, <3>1, StandsOn
    <2> QED BY <2>2, <2>3
  <1> QED BY <1>1, <1>2, <1>3 DEF TearInv

\* A step of the hypervisor: the machine that disappears is the one that the running
\* teardown destroys, and it is the machine of the claim being torn down.
LEMMA HypervisorTear ==
    ASSUME Inv, TearInv, Still, [Next]_vars, HypervisorStep
    PROVE  TearInv'
  <1>1. UNCHANGED <<rec, call, log, current>>
    BY DEF HypervisorStep, Hypervisor, TaskDone, TaskFailed, ForeignCreate, AdminRemove,
           Migrate, RemoveHost, storeVars, workVars
  <1>2. \A i \in VMIDs :
           \/ vms[i].st = "deleting" /\ vms'[i] = NoVM
           \/ /\ vms'[i].name = vms[i].name
              /\ vms'[i].st = "none" <=> vms[i].st = "none"
              /\ vms'[i].st = "deleting" => vms[i].st = "deleting"
    BY StillHypervisor
  <1>3. TeardownCurrent' BY <1>1 DEF TearInv, TeardownCurrent
  <1>4. MachinesKnown' BY <1>1, <1>2 DEF TearInv, MachinesKnown, NoVM
  <1>5. ASSUME NEW i \in VMIDs, vms[i].st = "deleting"
        PROVE  /\ rec.pc = "deleting" /\ call.pc = "waitdestroy"
               /\ i = rec.obj.pid.vmid /\ vms[i].name = rec.claim
    BY <1>5 DEF TearInv, MachinesKnown, CallsKnow, DeleteKnows, Named
  <1>6. RecordsStand'
    <2> SUFFICES ASSUME NEW c \in Claims PROVE RecordStands(c)'
      BY DEF RecordsStand
    <2>1. RecordStands(c) /\ Server(c)' = Server(c)
      BY <1>1 DEF TearInv, RecordsStand, Server
    <2>2. \A i \in VMIDs : vms[i].name = c =>
             vms'[i].name = c \/ (rec'.claim = c /\ rec'.pc \in HuntingPC)
      BY <1>1, <1>2, <1>5 DEF HuntingPC
    <2>3. Server(c)'.phase = "live" /\ Server(c)'.pid # NoPID =>
             /\ Server(c).phase = "live" /\ Server(c)'.pid = Server(c).pid
             /\ Server(c)'.fin => Server(c).fin
             /\ Server(c)'.fin \/ Server(c)'.del
      BY <2>1 DEF RecordStands
    <2> QED BY <1>1, <2>1, <2>2, <2>3, StandsOn
  <1>7. \A o : o.pid \in PIDs => o.pid.vmid \in VMIDs BY DEF PIDs
  <1>8. CreateKnows'
    <2>1. call.pid # NoPID => call.pid.vmid \in VMIDs
      BY <1>7 DEF Inv, TypeOK, ProviderTypeOK, Calls
    <2> QED BY <1>1, <1>2, <1>5, <2>1 DEF TearInv, CallsKnow, CreateKnows, Named
  <1>9. rec.pc \in {"deleting", "verifying"} => rec.obj.pid.vmid \in VMIDs
    <2>1. rec.pc \in {"deleting", "verifying"} => rec.obj.pid # NoPID
      BY DEF Inv, TypeOK, TearInv, CallsKnow, GetKnows
    <2> QED BY <1>7, <2>1 DEF Inv, TypeOK, Objects
  <1>10. DeleteKnows'
    BY <1>1, <1>2, <1>5, <1>9 DEF TearInv, CallsKnow, DeleteKnows, Named, NoVM
  <1>11. GetKnows'
    BY <1>1, <1>2, <1>5, <1>9 DEF TearInv, CallsKnow, GetKnows, Named
  <1> QED BY <1>3, <1>4, <1>6, <1>8, <1>10, <1>11 DEF TearInv, CallsKnow

\* TearInv is inductive, on top of Inv.
LEMMA TearStep ==
    ASSUME Inv, TearInv, Still, [Next]_vars
    PROVE  TearInv'
  <1>1. CASE Controller
    BY <1>1, ProviderTear, CreatingTear, TeardownTear DEF Controller
  <1>2. ASSUME NEW c \in Claims, Reconcile(c) PROVE TearInv' BY <1>2, ReconcileTear
  <1>3. ~Crash BY DEF Crash, Fault, Still
  <1>4. ASSUME NEW c \in Claims,
               CreateClaim(c) \/ DeleteClaim(c) \/ HolderReleases(c) \/ Annotate(c)
        PROVE  TearInv'
    BY <1>4, ClaimWrites, ClaimWritesTear, StandStillTear
  <1>5. CASE \/ \E c \in Claims : JoinNode(c) \/ KubeletReady(c) \/ KubeletLost(c) \/ RemoveNode(c)
             \/ \E c \in Claims : WatchEvent(c)
             \/ DeletePool \/ PoolGone \/ Apply \/ Withdraw \/ UNCHANGED vars
    <2>1. UNCHANGED <<rec, call, vms, current>>
      BY <1>5 DEF JoinNode, KubeletReady, KubeletLost, RemoveNode, WatchEvent,
             DeletePool, PoolGone, Apply, Withdraw, vars, providerVars, storeVars, workVars
    <2>2. TeardownCurrent' BY <2>1 DEF TearInv, TeardownCurrent
    <2> QED BY <2>1, <2>2, StandStillTear
  <1>6. CASE HypervisorStep BY <1>6, HypervisorTear
  <1> QED BY <1>1, <1>2, <1>3, <1>4, <1>5, <1>6 DEF Next, Cluster

\* The initial states.
LEMMA TearInit == Init => TearInv
  <1> SUFFICES ASSUME Init PROVE TearInv
    OBVIOUS
  <1>1. \A i \in VMIDs : vms[i].name = NoName /\ vms[i].st = "none"
    BY DEF Init, ProviderInit, NoVM
  <1>2. rec.pc = "idle" /\ call.pc = "idle" BY DEF Init, ProviderInit, NoRec, NoCall
  <1>3. \A c \in Claims : Server(c) = Unborn BY DEF Init, StoreInit, Server
  <1>4. RecordsStand BY <1>3 DEF RecordsStand, RecordStands, Unborn
  <1>5. MachinesKnown BY <1>1 DEF MachinesKnown
  <1>6. TeardownCurrent BY <1>2 DEF TeardownCurrent, HuntingPC, TeardownPC
  <1>7. CallsKnow BY <1>2 DEF CallsKnow, CreateKnows, DeleteKnows, GetKnows, DeletePC
  <1> QED BY <1>4, <1>5, <1>6, <1>7 DEF TearInv

\* The teardown of a claim stops and destroys no machine but its own, for any number of
\* claims and VMIDs, although VMIDs are used again as soon as they are free, claims are
\* deleted at any moment, the configuration comes and goes and machines are migrated.
THEOREM TeardownOwn ==
    ASSUME StaleReads = FALSE, Faults \subseteq {"config", "migrate"}
    PROVE  Spec => []TeardownHitsOwn
  <1>1. Still BY DEF Still
  <1>2. Inv /\ TearInv /\ [Next]_vars => TearInv' BY <1>1, TearStep
  <1> QED BY <1>2, TearImplies, TearInit, Invariance, PTL DEF Spec
-----------------------------------------------------------------------------
(* Every machine is accounted for *)

\* The machine at VMID i is the one that c records, or that Create has cloned for it.
TracedAt(c, i) ==
    \/ Server(c).pid # NoPID /\ i = Server(c).pid.vmid
    \/ /\ Server(c).pid = NoPID /\ rec.pc = "creating" /\ rec.claim = c
       /\ call.pc \notin {"nextid", "clone"} /\ call.pid # NoPID /\ i = call.pid.vmid

\* Every machine belongs to a claim that exists and can find it.
MachinesTraced ==
    \A i \in VMIDs, c \in Claims :
        vms[i].name = c => Server(c).phase = "live" /\ TracedAt(c, i)

\* A reconcile that creates a machine can record it, one that tears down knows it, and
\* the providerID of the copy is that of the server.
CopyTrusted ==
    /\ rec.pc \in CreatingPC /\ rec.obj.pid = NoPID => rec.claim \in current
    /\ rec.pc \in {"render", "creating"} => rec.obj.pid = NoPID
    /\ rec.pc \in TeardownPC => rec.obj.pid # NoPID
    /\ rec.pc # "idle" /\ rec.obj.pid # NoPID => Server(rec.claim).pid = rec.obj.pid

\* A Node, the annotation and a deletion are of claims that record their machine, ...
Tended(c) == node[c] # "none" \/ Server(c).since # NoTime \/ Server(c).del
             \/ Server(c).phase = "gone"

TendedRecorded == \A c \in Claims : Tended(c) => Server(c).pid # NoPID

\* ... and a machine that is recorded is so under the finalizer, until it is torn down.
RecordedHeld ==
    \A c \in Claims : Server(c).phase = "live" /\ Server(c).pid # NoPID =>
        Server(c).fin \/ Server(c).del

TraceInv == MachinesTraced /\ CopyTrusted /\ TendedRecorded /\ RecordedHeld

\* A step that brings no claim to life and replaces no providerID.
Modest ==
    /\ KeepsPIDs
    /\ \A c \in Claims : Server(c)'.phase = "live" => Server(c).phase = "live"

\* A step that changes no copy and no version on the server; machines may go and Nodes
\* of recorded machines may come.
LEMMA StandStillTrace ==
    ASSUME Inv, TraceInv, UNCHANGED <<call, rec, current>>,
           \A c \in Claims : Server(c)' = Server(c),
           \A i \in VMIDs : vms'[i].name \in Claims => vms'[i].name = vms[i].name,
           \A c \in Claims :
                node'[c] # "none" => node[c] # "none" \/ Server(c).pid # NoPID
    PROVE  TraceInv' /\ Modest
  <1>1. MachinesTraced'
    <2> SUFFICES ASSUME NEW i \in VMIDs, NEW c \in Claims, vms'[i].name = c
                 PROVE  Server(c)'.phase = "live" /\ TracedAt(c, i)'
      BY DEF MachinesTraced
    <2>1. Server(c).phase = "live" /\ TracedAt(c, i) BY DEF TraceInv, MachinesTraced
    <2> QED BY <2>1 DEF TracedAt
  <1>2. CopyTrusted'
    <2>1. rec.pc # "idle" => rec.claim \in Claims BY DEF Inv, TypeOK
    <2>2. CASE rec.claim \in Claims
      <3>1. Server(rec.claim)' = Server(rec.claim)
        <4>1. PICK c \in Claims : c = rec.claim BY <2>2
        <4> QED BY <4>1 DEF Server
      <3> QED BY <3>1 DEF TraceInv, CopyTrusted
    <2>3. CASE rec.pc = "idle" BY <2>3 DEF CopyTrusted, CreatingPC, TeardownPC
    <2> QED BY <2>1, <2>2, <2>3
  <1>3. TendedRecorded' BY DEF TraceInv, TendedRecorded, Tended
  <1>4. RecordedHeld' BY DEF TraceInv, RecordedHeld
  <1>5. Modest BY DEF Modest, KeepsPIDs
  <1> QED BY <1>1, <1>2, <1>3, <1>4, <1>5 DEF TraceInv

\* An idle worker trusts no copy.
LEMMA IdleTrusted == rec'.pc = "idle" => CopyTrusted'
  BY DEF CopyTrusted, CreatingPC, TeardownPC

\* A reconcile starts from the server's version.
LEMMA ReconcileTrace ==
    ASSUME Inv, TraceInv, StaleReads = FALSE, NEW c \in Claims, Reconcile(c)
    PROVE  TraceInv' /\ Modest
  <1>1. /\ rec.pc = "idle" /\ Fresh(c) /\ UNCHANGED <<vms, call, log, node>>
        /\ \/ UNCHANGED <<rec, current>>
           \/ /\ Cached(c).phase = "live" /\ current' = {c}
              /\ rec' = [NoRec EXCEPT !.pc = IF Cached(c).del THEN "delete" ELSE "finalizer",
                                      !.claim = c, !.obj = Cached(c)]
    BY DEF Reconcile, At, providerVars, clusterVars
  <1>2. \A d \in Claims : Server(d)' = Server(d) BY <1>1 DEF Server
  <1>3. CASE UNCHANGED <<rec, current>> BY <1>1, <1>2, <1>3, StandStillTrace
  <1>4. CASE /\ Cached(c).phase = "live" /\ current' = {c}
             /\ rec' = [NoRec EXCEPT !.pc = IF Cached(c).del THEN "delete" ELSE "finalizer",
                                     !.claim = c, !.obj = Cached(c)]
    <2>1. Cached(c) = Server(c) BY <1>1 DEF Fresh, Cached, Server
    <2>2. /\ rec'.pc \in {"delete", "finalizer"} /\ rec'.claim = c /\ rec'.obj = Server(c)
          /\ rec'.pc = "delete" => Server(c).del
      BY <1>4, <2>1 DEF NoRec
    <2>3. Server(c).del => Server(c).pid # NoPID BY DEF TraceInv, TendedRecorded, Tended
    <2>4. Server(rec.claim)' = Server(c) BY <1>1, <2>2 DEF Server
    <2>5. CopyTrusted' BY <1>4, <2>2, <2>3, <2>4 DEF CopyTrusted, CreatingPC, TeardownPC
    <2>6. MachinesTraced'
      <3> SUFFICES ASSUME NEW i \in VMIDs, NEW d \in Claims, vms'[i].name = d
                   PROVE  Server(d)'.phase = "live" /\ TracedAt(d, i)'
        BY DEF MachinesTraced
      <3>1. Server(d).phase = "live" /\ TracedAt(d, i) BY <1>1 DEF TraceInv, MachinesTraced
      <3> QED BY <1>1, <1>2, <3>1 DEF TracedAt
    <2>7. TendedRecorded' BY <1>1, <1>2 DEF TraceInv, TendedRecorded, Tended
    <2>8. RecordedHeld' BY <1>2 DEF TraceInv, RecordedHeld
    <2> QED BY <1>2, <2>5, <2>6, <2>7, <2>8 DEF TraceInv, Modest, KeepsPIDs
  <1> QED BY <1>1, <1>3, <1>4

\* What Create does to the machines, when no PVE call fails: a machine it has cloned it
\* keeps in mind.
LEMMA ProviderTrace ==
    ASSUME Inv, TraceInv, "pve" \notin Faults, ProviderStep, [Next]_vars
    PROVE  TraceInv' /\ Modest
  <1>1. Provider /\ UNCHANGED <<rec, log, current, node>>
    BY DEF ProviderStep, storeVars, workVars, clusterVars
  <1>2. \A c \in Claims : Server(c)' = Server(c) BY <1>1 DEF Server
  <1>3. Advances BY <1>1, ProviderType, TypeParts DEF Inv
  <1>4. MachinesTraced'
    <2> SUFFICES ASSUME NEW i \in VMIDs, NEW c \in Claims, vms'[i].name = c
                 PROVE  Server(c).phase = "live" /\ TracedAt(c, i)'
      BY <1>2 DEF MachinesTraced
    <2>1. CASE vms[i].name = c /\ Server(c).pid # NoPID
      BY <1>2, <2>1 DEF TraceInv, MachinesTraced, TracedAt
    <2>2. CASE vms[i].name = c /\ Server(c).pid = NoPID
      <3>1. /\ Server(c).phase = "live" /\ rec.pc = "creating" /\ rec.claim = c
            /\ call.pc \notin {"nextid", "clone"} /\ call.pid # NoPID /\ i = call.pid.vmid
        BY <2>2 DEF TraceInv, MachinesTraced, TracedAt
      <3>2. call.pc \in CreatePC BY <1>1, <3>1, ReturnedStays DEF Inv, CreateAttended
      <3>3. call'.pid # NoPID /\ call'.pc \notin {"nextid", "clone"}
        BY <1>1, <3>1, <3>2, CalmCreate, TypeParts DEF Inv
      <3>4. call'.pid = call.pid BY <1>3, <3>1, <3>3 DEF Advances
      <3> QED BY <1>1, <1>2, <2>2, <3>1, <3>3, <3>4 DEF TracedAt
    <2>3. CASE vms[i].name # c
      <3>1. /\ call.pc = "clone" /\ i = call.pid.vmid /\ rec.pc = "creating"
            /\ c = rec.claim
        BY <2>3, NamesGiven
      <3>2. Server(c).phase = "live" BY <2>3, CloneStep
      <3>3. rec.obj = Server(c) /\ rec.obj.pid = NoPID
        BY <3>1 DEF TraceInv, CopyTrusted, CreatingPC, Inv, CopyInSync
      <3>4. call'.pid # NoPID /\ call'.pc \notin {"nextid", "clone"}
        BY <1>1, <2>3, <3>1, CalmCreate, TypeParts DEF Inv, CreatePC
      <3>5. call'.pid = call.pid BY <1>3, <3>1, <3>4 DEF Advances
      <3> QED BY <1>1, <1>2, <3>1, <3>2, <3>3, <3>4, <3>5 DEF TracedAt
    <2> QED BY <2>1, <2>2, <2>3
  <1>5. CopyTrusted' BY <1>1 DEF TraceInv, CopyTrusted, Server
  <1>6. TendedRecorded' BY <1>1, <1>2 DEF TraceInv, TendedRecorded, Tended
  <1>7. RecordedHeld' BY <1>2 DEF TraceInv, RecordedHeld
  <1> QED BY <1>2, <1>4, <1>5, <1>6, <1>7 DEF TraceInv, Modest, KeepsPIDs

\* What a reconcile does to the version on the server, when no API write fails.
LEMMA WriteTrace ==
    ASSUME Inv, Controller, ~ProviderStep
    PROVE  \A c \in Claims :
              \/ Server(c)' = Server(c)
              \/ /\ c = rec.claim /\ rec.obj = Server(c) /\ Server(c).phase = "live"
                 /\ OwnWrite(Server(c)')
                 /\ Server(c)'.since = Server(c).since /\ Server(c)'.del = Server(c).del
                 /\ Server(c)'.fin \/ rec.pc = "release"
                 /\ Server(c)'.phase = "live" \/ (rec.pc = "release" /\ Server(c)'.phase = "gone")
                 /\ \/ Server(c)'.pid = Server(c).pid
                    \/ /\ rec.pc = "creating" /\ Server(c).pid = NoPID
                       /\ Server(c)'.pid = call.pid
  <1> SUFFICES ASSUME NEW o, rec.claim \in current, Store(rec.claim, o), OwnWrite(o),
                      NEW c \in Claims, Server(c)' # Server(c)
               PROVE  /\ c = rec.claim /\ rec.obj = Server(c) /\ Server(c).phase = "live"
                      /\ OwnWrite(Server(c)')
                      /\ Server(c)'.since = Server(c).since /\ Server(c)'.del = Server(c).del
                      /\ Server(c)'.fin \/ rec.pc = "release"
                      /\ Server(c)'.phase = "live" \/ (rec.pc = "release" /\ Server(c)'.phase = "gone")
                      /\ \/ Server(c)'.pid = Server(c).pid
                         \/ /\ rec.pc = "creating" /\ Server(c).pid = NoPID
                            /\ Server(c)'.pid = call.pid
    BY ControllerWrites DEF Server
  <1>1. PICK d \in Claims : d = rec.claim /\ o \in Objects /\ rec.obj = Server(d)
    BY WritesTyped
  <1>2. Server(d)' = o /\ \A e \in Claims \ {d} : Server(e)' = Server(e)
    BY <1>1, WriteServer
  <1>3. c = d BY <1>2
  <1>4. /\ rec.obj \in Objects /\ rec.obj.phase = "live"
        /\ rec.pc \in CreatedPC => rec.obj.fin
    BY DEF Inv, TypeOK, CopyInSync
  <1>5. /\ o.since = rec.obj.since /\ o.del = rec.obj.del
        /\ o.fin \/ rec.pc = "release"
        /\ o.phase = "live" \/ (rec.pc = "release" /\ o.phase = "gone")
        /\ \/ o.pid = rec.obj.pid
           \/ rec.pc = "creating" /\ rec.obj.pid = NoPID /\ o.pid = call.pid
    BY <1>4 DEF OwnWrite, Objects, CreatedPC
  <1> QED BY <1>1, <1>2, <1>3, <1>4, <1>5

\* The providerID that Create returns is recorded, because the copy is current.
LEMMA RecordTrace ==
    ASSUME Inv, TraceInv, "api" \notin Faults, RecordProviderID
    PROVE  \E c \in Claims : c = rec.claim /\ Server(c)'.pid = call.pid
  <1>1. /\ rec.pc = "creating" /\ rec.obj.pid = NoPID /\ rec.claim \in current
        /\ rec.obj \in Objects
    BY DEF RecordProviderID, At, TraceInv, CopyTrusted, CreatingPC, Inv, TypeOK
  <1>2. PICK l \in {"CreateFailed", "Created"} :
           TryWrite([rec.obj EXCEPT !.pid = IF @ = NoPID THEN call.pid ELSE @,
                                    !.launched = l])
    BY DEF RecordProviderID
  <1> DEFINE o == [rec.obj EXCEPT !.pid = IF @ = NoPID THEN call.pid ELSE @, !.launched = l]
  <1>3. o.pid = call.pid BY <1>1 DEF Objects
  <1>4. OwnWrite(o) BY <1>1 DEF OwnWrite
  <1>5. TryWrite(o) BY <1>2
  <1> HIDE DEF o
  <1>6. Store(rec.claim, o) BY <1>1, <1>5 DEF TryWrite, Written, NotWritten, Fault
  <1>7. PICK c \in Claims : c = rec.claim /\ o \in Objects BY <1>1, <1>4, WritesTyped
  <1>8. Server(c)' = o BY <1>6, <1>7, WriteServer
  <1> QED BY <1>3, <1>7, <1>8

\* How the other steps of a reconcile move its copy.
LEMMA CopyMoves ==
    ASSUME Inv, Controller, ~ProviderStep
    PROVE  \/ rec'.pc = "idle"
           \/ /\ rec.pc # "idle" /\ rec'.claim = rec.claim /\ rec'.obj.pid = rec.obj.pid
              /\ UNCHANGED current
              /\ rec'.pc \in CreatingPC => rec.pc \in CreatingPC
              /\ rec'.pc \in {"render", "creating"} =>
                    rec.obj.pid = NoPID \/ rec.pc \in {"render", "creating"}
              /\ rec'.pc \in TeardownPC => rec.pc \in TeardownPC
  <1> USE DEF At
  <1>1. /\ rec \in [pc: RecPC, claim: Claims \cup {NoName}, obj: Objects, nodeReady: BOOLEAN]
        /\ rec.obj \in Objects
    BY DEF Inv, TypeOK
  <1>2. ASSUME NEW requeue, Done(requeue) PROVE rec'.pc = "idle" BY <1>2 DEF Done, NoRec
  <1>3. ASSUME NEW pc, Step(pc) PROVE rec'.pc = pc /\ rec'.claim = rec.claim /\ rec'.obj = rec.obj
    BY <1>1, <1>3 DEF Step
  <1>4. CASE AddFinalizer
    <2>1. rec.pc = "finalizer" BY <1>4 DEF AddFinalizer
    <2>2. CASE Step("resolve") /\ UNCHANGED current
      BY <1>3, <2>1, <2>2 DEF CreatingPC, TeardownPC
    <2>3. CASE /\ rec' = [rec EXCEPT !.pc = "resolve", !.obj = [rec.obj EXCEPT !.fin = TRUE]]
               /\ UNCHANGED current
      <3>1. rec'.pc = "resolve" /\ rec'.claim = rec.claim /\ rec'.obj.pid = rec.obj.pid
        BY <1>1, <2>3 DEF Objects
      <3> QED BY <2>1, <2>3, <3>1 DEF CreatingPC, TeardownPC
    <2> QED BY <1>2, <1>4, <2>2, <2>3 DEF AddFinalizer, storeVars
  <1>5. CASE ResolveProvider
    <2>1. \/ Done(TRUE)
          \/ UNCHANGED current /\ Step("render") /\ rec.obj.pid = NoPID
          \/ UNCHANGED current /\ Step("readiness")
      BY <1>5 DEF ResolveProvider, storeVars
    <2>2. rec.pc = "resolve" BY <1>5 DEF ResolveProvider
    <2>3. CASE Done(TRUE) BY <1>2, <2>3
    <2>4. CASE UNCHANGED current /\ Step("render") /\ rec.obj.pid = NoPID
      BY <1>3, <2>2, <2>4 DEF CreatingPC, TeardownPC
    <2>5. CASE UNCHANGED current /\ Step("readiness")
      BY <1>3, <2>2, <2>5 DEF CreatingPC, TeardownPC
    <2> QED BY <2>1, <2>3, <2>4, <2>5
  <1>6. CASE RenderCloudInit
    <2>1. Done(TRUE) \/ (UNCHANGED current /\ Step("creating"))
      BY <1>6 DEF RenderCloudInit, storeVars
    <2>2. rec.pc = "render" BY <1>6 DEF RenderCloudInit
    <2>3. CASE Done(TRUE) BY <1>2, <2>3
    <2>4. CASE UNCHANGED current /\ Step("creating")
      BY <1>3, <2>2, <2>4 DEF CreatingPC, TeardownPC
    <2> QED BY <2>1, <2>3, <2>4
  <1>7. CASE RecordProviderID \/ NodeNotRegistered \/ SetReady \/ RemoveFinalizer
    <2>1. Done(TRUE) \/ Done(FALSE) \/ Done(~rec.nodeReady)
      BY <1>7 DEF RecordProviderID, NodeNotRegistered, SetReady, RemoveFinalizer
    <2> QED BY <1>2, <2>1
  <1>8. CASE ReadNode \/ LabelNode
    <2>1. \/ Done(TRUE)
          \/ /\ UNCHANGED current
             /\ \E pc \in {"label", "condition"} :
                   \/ rec' = [rec EXCEPT !.pc = pc, !.nodeReady = isNodeReady(rec.claim)]
                   \/ rec' = [rec EXCEPT !.pc = pc]
      BY <1>8 DEF ReadNode, LabelNode, Step
    <2>2. rec.pc \in {"readiness", "label"} BY <1>8 DEF ReadNode, LabelNode
    <2> QED BY <1>1, <1>2, <2>1, <2>2 DEF CreatingPC, TeardownPC
  <1>9. CASE ReconcileDelete \/ VerifyDeleted \/ ConfirmGone
    <2>1. \/ Done(TRUE) \/ Done(FALSE)
          \/ UNCHANGED current /\ (Step("release") \/ Step("deleting") \/ Step("verifying"))
      BY <1>9 DEF ReconcileDelete, VerifyDeleted, ConfirmGone
    <2>2. rec.pc \in {"delete", "deleting", "verifying"}
      BY <1>9 DEF ReconcileDelete, VerifyDeleted, ConfirmGone
    <2>3. ASSUME NEW pc \in {"release", "deleting", "verifying"}, UNCHANGED current, Step(pc)
          PROVE  /\ rec'.pc \in TeardownPC \ CreatingPC /\ rec'.claim = rec.claim
                 /\ rec'.obj = rec.obj
      BY <1>3, <2>3 DEF CreatingPC, TeardownPC
    <2>4. CASE Done(TRUE) \/ Done(FALSE) BY <1>2, <2>4
    <2>5. CASE UNCHANGED current /\ (Step("release") \/ Step("deleting") \/ Step("verifying"))
      BY <2>2, <2>3, <2>5 DEF CreatingPC, TeardownPC
    <2> QED BY <2>1, <2>4, <2>5
  <1> QED BY <1>4, <1>5, <1>6, <1>7, <1>8, <1>9 DEF Controller

\* The other steps of a reconcile, when no API write fails.
LEMMA ControllerTrace ==
    ASSUME Inv, PlacedInv, TraceInv, "api" \notin Faults, Controller, ~ProviderStep
    PROVE  TraceInv' /\ Modest
  <1>1. UNCHANGED <<vms, node>>
    BY DEF Controller, AddFinalizer, ResolveProvider, RenderCloudInit, RecordProviderID,
           NodeNotRegistered, ReadNode, LabelNode, SetReady, ReconcileDelete, VerifyDeleted,
           ConfirmGone, RemoveFinalizer, clusterVars
  <1>2. KeepsPIDs BY InvStep DEF Next
  <1>3. rec.pc = "creating" => RecordProviderID
    BY DEF Controller, AddFinalizer, ResolveProvider, RenderCloudInit, At,
           NodeNotRegistered, ReadNode, LabelNode, SetReady, ReconcileDelete, VerifyDeleted,
           ConfirmGone, RemoveFinalizer
  <1>4. MachinesTraced'
    <2> SUFFICES ASSUME NEW i \in VMIDs, NEW c \in Claims, vms'[i].name = c
                 PROVE  Server(c)'.phase = "live" /\ TracedAt(c, i)'
      BY DEF MachinesTraced
    <2>1. Server(c).phase = "live" /\ TracedAt(c, i) BY <1>1 DEF TraceInv, MachinesTraced
    <2>2. CASE Server(c).pid # NoPID /\ i = Server(c).pid.vmid
      <3>1. Server(c)'.pid = Server(c).pid BY <1>2, <2>2 DEF KeepsPIDs
      <3>2. ASSUME rec.pc = "release", c = rec.claim, rec.obj = Server(c) PROVE FALSE
        BY <1>1, <2>2, <3>2 DEF PlacedInv, TeardownOrder, Gone
      <3>3. Server(c)'.phase = "live" BY <2>1, <3>2, WriteTrace
      <3> QED BY <2>2, <3>1, <3>3 DEF TracedAt
    <2>3. CASE /\ Server(c).pid = NoPID /\ rec.pc = "creating" /\ rec.claim = c
               /\ call.pid # NoPID /\ i = call.pid.vmid
      <3>1. Server(c)'.pid = call.pid BY <1>3, <2>3, RecordTrace
      <3>2. Server(c)'.phase = "live" BY <2>1, <2>3, WriteTrace
      <3> QED BY <2>3, <3>1, <3>2 DEF TracedAt
    <2> QED BY <2>1, <2>2, <2>3 DEF TracedAt
  <1>5. CopyTrusted'
    <2>1. CASE rec'.pc = "idle" BY <2>1, IdleTrusted
    <2>2. CASE rec.pc # "idle"
      <3>1. PICK c \in Claims : c = rec.claim BY <2>2 DEF Inv, TypeOK
      <3>2. rec.obj.pid # NoPID => Server(c)'.pid = rec.obj.pid
        BY <1>2, <2>2, <3>1 DEF TraceInv, CopyTrusted, KeepsPIDs
      <3>3. rec'.claim = c => Server(rec.claim)' = Server(c)' BY DEF Server
      <3> QED BY <2>2, <3>1, <3>2, <3>3, CopyMoves, IdleTrusted DEF TraceInv, CopyTrusted
    <2> QED BY <2>1, <2>2, CopyMoves
  <1>6. ASSUME NEW c \in Claims, rec.pc = "release", c = rec.claim, rec.obj = Server(c)
        PROVE  Server(c).pid # NoPID /\ Server(c).del
    BY <1>6 DEF TraceInv, CopyTrusted, TeardownPC, Inv, CopyInSync
  <1>7. TendedRecorded'
    <2> SUFFICES ASSUME NEW c \in Claims, Tended(c)' PROVE Server(c)'.pid # NoPID
      BY DEF TendedRecorded
    <2>1. Tended(c) \/ Server(c).pid # NoPID BY <1>1, <1>6, WriteTrace DEF Tended
    <2>2. Server(c).pid # NoPID BY <2>1 DEF TraceInv, TendedRecorded
    <2> QED BY <1>2, <2>2 DEF KeepsPIDs
  <1>8. RecordedHeld'
    <2> SUFFICES ASSUME NEW c \in Claims, Server(c)'.phase = "live", Server(c)'.pid # NoPID
                 PROVE  Server(c)'.fin \/ Server(c)'.del
      BY DEF RecordedHeld
    <2> QED BY <1>6, WriteTrace DEF TraceInv, RecordedHeld
  <1>9. Modest BY <1>2, WriteTrace DEF Modest
  <1> QED BY <1>4, <1>5, <1>7, <1>8, <1>9 DEF TraceInv

\* A write of the provisioner: a new claim, or one of a claim that records its machine.
LEMMA TendTrace ==
    ASSUME Inv, TraceInv, NEW c \in Claims, NEW o \in Objects, StoreOther(c, o),
           UNCHANGED <<vms, call, rec, node>>,
           o.phase = "live", o.pid = Server(c).pid,
           \/ Server(c).phase = "unborn" /\ o.since = NoTime /\ ~o.del
           \/ /\ Server(c).phase = "live" /\ Server(c).pid # NoPID
              /\ o.fin = Server(c).fin /\ (Server(c).del => o.del)
    PROVE  TraceInv' /\ KeepsPIDs /\ (Server(c).phase = "live" => Modest)
  <1>1. Server(c)' = o /\ \A d \in Claims \ {c} : Server(d)' = Server(d)
    BY WriteServer DEF StoreOther
  <1>2. \A d \in Claims : Server(d)'.pid = Server(d).pid BY <1>1
  <1>3. Server(c).phase = "unborn" => Server(c) = Unborn BY DEF Inv, UnbornIsEmpty
  <1>4. MachinesTraced'
    <2> SUFFICES ASSUME NEW i \in VMIDs, NEW d \in Claims, vms'[i].name = d
                 PROVE  Server(d)'.phase = "live" /\ TracedAt(d, i)'
      BY DEF MachinesTraced
    <2>1. Server(d).phase = "live" /\ TracedAt(d, i) BY DEF TraceInv, MachinesTraced
    <2> QED BY <1>1, <1>2, <2>1 DEF TracedAt
  <1>5. CopyTrusted'
    <2>1. CASE rec.pc = "idle" BY <2>1, IdleTrusted
    <2>2. CASE rec.pc # "idle"
      <3>1. PICK d \in Claims : d = rec.claim BY <2>2 DEF Inv, TypeOK
      <3>2. Server(rec.claim)'.pid = Server(d).pid BY <1>2, <3>1 DEF Server
      <3>3. d \in current /\ rec.obj.pid = NoPID => d \in current'
        <4> SUFFICES ASSUME d \in current, rec.obj.pid = NoPID, d = c PROVE FALSE
          BY DEF StoreOther
        <4>1. rec.obj = Server(c) /\ rec.obj.phase = "live" BY <2>2 DEF Inv, CopyInSync
        <4> QED BY <4>1
      <3> QED BY <3>1, <3>2, <3>3 DEF TraceInv, CopyTrusted
    <2> QED BY <2>1, <2>2
  <1>6. TendedRecorded'
    <2> SUFFICES ASSUME NEW d \in Claims, Tended(d)' PROVE Server(d)'.pid # NoPID
      BY DEF TendedRecorded
    <2>1. CASE d = c /\ Server(c).phase = "live" BY <1>2, <2>1
    <2>2. CASE d # c \/ Server(c).phase # "live"
      <3>1. Tended(d) BY <1>1, <2>2 DEF Tended
      <3> QED BY <1>2, <3>1 DEF TraceInv, TendedRecorded
    <2> QED BY <2>1, <2>2
  <1>7. RecordedHeld'
    <2> SUFFICES ASSUME NEW d \in Claims, Server(d)'.phase = "live", Server(d)'.pid # NoPID
                 PROVE  Server(d)'.fin \/ Server(d)'.del
      BY DEF RecordedHeld
    <2>1. CASE d = c /\ Server(c).phase = "live"
      <3>1. Server(c).pid # NoPID BY <1>2, <2>1
      <3>2. Server(c).fin \/ Server(c).del BY <2>1, <3>1 DEF TraceInv, RecordedHeld
      <3>3. o.fin = Server(c).fin /\ (Server(c).del => o.del) BY <2>1
      <3> QED BY <1>1, <2>1, <3>2, <3>3, Zenon
    <2>2. CASE d = c /\ Server(c).phase # "live"
      <3>1. Server(c).pid = NoPID BY <1>3, <2>2 DEF Unborn
      <3> QED BY <1>2, <2>2, <3>1
    <2>3. CASE d # c BY <1>1, <2>3 DEF TraceInv, RecordedHeld
    <2> QED BY <2>1, <2>2, <2>3
  <1> QED BY <1>1, <1>2, <1>4, <1>5, <1>6, <1>7 DEF TraceInv, Modest, KeepsPIDs

\* Time changes nothing of this, ...
LEMMA AgedTrace ==
    ASSUME Inv, TraceInv, NEW f, Ages(f), Aged(f)
    PROVE  TraceInv' /\ Modest
  <1>1. \A c \in Claims : Server(c)' = f[Server(c)] /\ Server(c) \in Objects
    BY AgedStore, ServerType, TypeParts DEF Inv
  <1>2. \A c \in Claims : /\ Server(c)'.phase = Server(c).phase /\ Server(c)'.fin = Server(c).fin
                          /\ Server(c)'.del = Server(c).del /\ Server(c)'.pid = Server(c).pid
                          /\ Server(c)'.since = NoTime <=> Server(c).since = NoTime
    BY <1>1, AgesKeep
  <1>3. rec \in [pc: RecPC, claim: Claims \cup {NoName}, obj: Objects, nodeReady: BOOLEAN]
    BY DEF Inv, TypeOK
  <1>4. /\ UNCHANGED <<vms, call, current, node>>
        /\ rec'.pc = rec.pc /\ rec'.claim = rec.claim /\ rec'.obj.pid = rec.obj.pid
    BY <1>3, AgesKeep DEF Aged, providerVars, clusterVars
  <1>5. MachinesTraced'
    <2> SUFFICES ASSUME NEW i \in VMIDs, NEW c \in Claims, vms'[i].name = c
                 PROVE  Server(c)'.phase = "live" /\ TracedAt(c, i)'
      BY DEF MachinesTraced
    <2>1. Server(c).phase = "live" /\ TracedAt(c, i) BY <1>4 DEF TraceInv, MachinesTraced
    <2> QED BY <1>2, <1>4, <2>1 DEF TracedAt
  <1>6. CopyTrusted'
    <2>1. CASE rec.pc = "idle" BY <1>4, <2>1, IdleTrusted
    <2>2. CASE rec.pc # "idle"
      <3>1. PICK c \in Claims : c = rec.claim BY <2>2 DEF Inv, TypeOK
      <3>2. Server(rec.claim)'.pid = Server(c).pid BY <1>2, <1>4, <3>1 DEF Server
      <3> QED BY <1>4, <3>1, <3>2 DEF TraceInv, CopyTrusted
    <2> QED BY <2>1, <2>2
  <1>7. TendedRecorded' BY <1>2, <1>4 DEF TraceInv, TendedRecorded, Tended
  <1>8. RecordedHeld' BY <1>2 DEF TraceInv, RecordedHeld
  <1> QED BY <1>2, <1>5, <1>6, <1>7, <1>8 DEF TraceInv, Modest, KeepsPIDs

\* ... and a name is only forgotten after its machine.
LEMMA ForgottenTrace ==
    ASSUME Inv, TraceInv, NEW c \in Claims, Forgotten(c)
    PROVE  /\ TraceInv'
           /\ \A d \in Claims \ {c} : Server(d)' = Server(d)
           /\ Server(c)'.phase = "unborn"
  <1>1. Server(c)' = Unborn /\ \A d \in Claims \ {c} : Server(d)' = Server(d)
    BY ForgottenStore, TypeParts DEF Inv
  <1>2. /\ UNCHANGED <<vms, call, rec, current>> /\ rec.claim # c
        /\ Server(c).phase = "gone"
        /\ node'[c] = "none" /\ \A d \in Claims \ {c} : node'[d] = node[d]
    BY DEF Forgotten, providerVars, Inv, TypeOK
  <1>3. MachinesTraced'
    <2> SUFFICES ASSUME NEW i \in VMIDs, NEW d \in Claims, vms'[i].name = d
                 PROVE  Server(d)'.phase = "live" /\ TracedAt(d, i)'
      BY DEF MachinesTraced
    <2>1. Server(d).phase = "live" /\ TracedAt(d, i) BY <1>2 DEF TraceInv, MachinesTraced
    <2> QED BY <1>1, <1>2, <2>1 DEF TracedAt
  <1>4. CopyTrusted'
    <2>1. CASE rec.pc = "idle" BY <1>2, <2>1, IdleTrusted
    <2>2. CASE rec.pc # "idle"
      <3>1. PICK d \in Claims \ {c} : d = rec.claim BY <1>2, <2>2 DEF Inv, TypeOK
      <3>2. Server(rec.claim)' = Server(d) BY <1>1, <1>2, <3>1 DEF Server
      <3> QED BY <1>2, <3>1, <3>2 DEF TraceInv, CopyTrusted
    <2> QED BY <2>1, <2>2
  <1>5. TendedRecorded' BY <1>1, <1>2 DEF TraceInv, TendedRecorded, Tended, Unborn
  <1>6. RecordedHeld' BY <1>1 DEF TraceInv, RecordedHeld, Unborn
  <1> QED BY <1>1, <1>3, <1>4, <1>5, <1>6 DEF TraceInv, Unborn

\* The initial states.
LEMMA TraceInit == Init => TraceInv
  <1> SUFFICES ASSUME Init PROVE TraceInv
    OBVIOUS
  <1>1. \A i \in VMIDs : vms[i].name \notin Claims
    BY ProviderAssumption DEF Init, ProviderInit, NoVM
  <1>2. rec.pc = "idle" BY DEF Init, NoRec
  <1>3. \A c \in Claims : Server(c) = Unborn /\ node[c] = "none"
    BY DEF Init, StoreInit, Server
  <1>4. CopyTrusted BY <1>2 DEF CopyTrusted, CreatingPC, TeardownPC
  <1> QED BY <1>1, <1>3, <1>4
          DEF TraceInv, MachinesTraced, TendedRecorded, Tended, RecordedHeld, Unborn

\* In every state that is traced no claim has two machines.
LEMMA TracedOnce == TraceInv => OneMachine
  BY DEF TraceInv, MachinesTraced, TracedAt, OneMachine
=============================================================================
