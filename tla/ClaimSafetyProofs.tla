-------------------------- MODULE ClaimSafetyProofs --------------------------
(***************************************************************************)
(* CreatedUnderFinalizer, ProviderIDStable and ReadyIsBacked hold of the   *)
(* claim controller whatever the cache lag, the faults and the number of   *)
(* claims.  None of them is inductive: what they need is how the copy a    *)
(* reconcile works on, the versions the cache has yet to see and the       *)
(* version on the server are related, and that is the invariant Inv.       *)
(***************************************************************************)
EXTENDS ClaimControllerProofs

\* The points of a reconcile behind the finalizer, and those of a teardown.
CreatedPC == {"resolve", "render", "creating", "readiness", "label", "condition"}
TeardownPC == {"delete", "deleting", "verifying", "release"}

\* The copy of the running reconcile: a claim in current is the one it works on,
\* and the copy equals the server's version.
CopyInSync ==
    /\ \A c \in current : rec.pc # "idle" /\ c = rec.claim /\ rec.obj = Server(c)
    /\ rec.pc # "idle" => /\ rec.obj.phase = "live"
                          /\ rec.obj.del <=> rec.pc \in TeardownPC
    /\ rec.pc \in CreatedPC => rec.obj.fin
    /\ rec.pc \in {"readiness", "label", "condition"} => rec.obj.pid # NoPID

\* Deletion is final: versions after one that is marked deleted are marked too.
DeletionSticks ==
    \A c \in Claims : \A i, j \in 1 .. Len(log[c]) :
        i <= j /\ log[c][i].del => log[c][j].del

Protected(o) == o.phase = "live" /\ o.fin

\* As long as the cache may still serve a version with the finalizer on that is not
\* marked deleted, the server's version has the finalizer on.
FinalizerSticks ==
    \A c \in Claims : \A i \in 1 .. Len(log[c]) :
        Protected(log[c][i]) /\ ~log[c][i].del => Protected(Server(c))

\* A reconcile that has passed the finalizer works under it on the server's side, and
\* one that tears down has left every version before the deletion behind.
ReconcileCovered ==
    /\ rec.pc \in CreatedPC \/ (rec.pc = "finalizer" /\ rec.obj.fin) =>
            Protected(Server(rec.claim))
    /\ rec.pc \in TeardownPC =>
            \A i \in 1 .. Len(log[rec.claim]) : log[rec.claim][i].del

\* Create runs only on behalf of the reconcile that waits for it.
CreateAttended ==
    /\ call.pc \in CreatePC => rec.pc = "creating" /\ call.name = rec.claim
    /\ rec.pc = "creating" =>
            /\ call.pc \in CreatePC \cup {"returned"}
            /\ call.pc = "returned" /\ ~call.err => call.pid \in PIDs

\* A claim that does not exist yet has no content.
UnbornIsEmpty == \A c \in Claims : Server(c).phase = "unborn" => Server(c) = Unborn

Inv ==
    /\ TypeOK
    /\ CopyInSync
    /\ DeletionSticks
    /\ FinalizerSticks
    /\ ReconcileCovered
    /\ CreateAttended
    /\ UnbornIsEmpty
    /\ ReadyIsBacked

-----------------------------------------------------------------------------
(* The store *)

StoreInv == DeletionSticks /\ FinalizerSticks /\ UnbornIsEmpty /\ ReadyIsBacked

\* What a step does to the providerIDs on the server: one that is set stays.
KeepsPIDs ==
    \A c \in Claims : Server(c).pid # NoPID => Server(c)'.pid = Server(c).pid

\* A write keeps what is known of the versions if it does not revoke a deletion and
\* takes the finalizer off only when the cache has no version left from before the
\* deletion.
LEMMA StoreKeeps ==
    ASSUME StoreTypeOK, StoreInv, NEW c \in Claims, NEW o \in Objects, Store(c, o),
           Server(c).del => o.del,
           \/ Protected(Server(c)) => Protected(o)
           \/ o.del /\ \A i \in 1 .. Len(log[c]) : log[c][i].del,
           o.phase # "unborn", Backed(o)
    PROVE  StoreInv' /\ Server(c)' = o /\ \A d \in Claims \ {c} : Server(d)' = Server(d)
  <1>1. /\ log'[c][Len(log'[c])] = o
        /\ \A d \in Claims \ {c} : log'[d] = log[d]
        /\ \A i \in 1 .. Len(log'[c]) :
              i = Len(log'[c]) \/ (i \in 1 .. Len(log[c]) /\ log'[c][i] = log[c][i])
    BY StoreEffect
  <1>2. Server(c)' = o BY <1>1 DEF Server
  <1>3. \A d \in Claims \ {c} : Server(d)' = Server(d) BY <1>1 DEF Server
  <1>4. Len(log[c]) \in Nat /\ Len(log[c]) >= 1 /\ Len(log'[c]) \in Nat
    <2>1. \A d \in Claims : Len(log'[d]) \in 1 .. (MaxLag + 1) BY StoreEffect
    <2> QED BY <2>1, StoreAssumption DEF StoreTypeOK
  <1>5. DeletionSticks'
    <2> SUFFICES ASSUME NEW d \in Claims, NEW i \in 1 .. Len(log'[d]),
                        NEW j \in 1 .. Len(log'[d]), i <= j, log'[d][i].del
                 PROVE  log'[d][j].del
      BY DEF DeletionSticks
    <2>1. CASE d # c BY <1>1, <2>1 DEF StoreInv, DeletionSticks
    <2>2. CASE d = c /\ j # Len(log'[c])
      <3>1. i # Len(log'[c]) BY <1>4, <2>2
      <3> QED BY <1>1, <2>2, <3>1 DEF StoreInv, DeletionSticks
    <2>3. CASE d = c /\ j = Len(log'[c]) /\ i # j
      <3>1. i \in 1 .. Len(log[c]) /\ log[c][i].del BY <1>1, <2>3
      <3>2. Len(log[c]) \in 1 .. Len(log[c]) /\ i <= Len(log[c]) BY <1>4, <3>1
      <3>3. Server(c).del BY <3>1, <3>2 DEF StoreInv, DeletionSticks, Server
      <3> QED BY <1>1, <2>3, <3>3
    <2> QED BY <2>1, <2>2, <2>3
  <1>6. FinalizerSticks'
    <2> SUFFICES ASSUME NEW d \in Claims, NEW i \in 1 .. Len(log'[d]),
                        Protected(log'[d][i]), ~log'[d][i].del
                 PROVE  Protected(Server(d)')
      BY DEF FinalizerSticks, Protected
    <2>1. CASE d # c BY <1>1, <1>3, <2>1 DEF StoreInv, FinalizerSticks
    <2>2. CASE d = c /\ i = Len(log'[c]) BY <1>1, <1>2, <2>2
    <2>3. CASE d = c /\ i # Len(log'[c])
      <3>1. i \in 1 .. Len(log[c]) /\ log'[c][i] = log[c][i] BY <1>1, <2>3
      <3>2. Protected(Server(c)) BY <2>3, <3>1 DEF StoreInv, FinalizerSticks
      <3> QED BY <1>2, <2>3, <3>1, <3>2
    <2> QED BY <2>1, <2>2, <2>3
  <1>7. UnbornIsEmpty' BY <1>2, <1>3 DEF StoreInv, UnbornIsEmpty
  <1>8. ReadyIsBacked'
    <2>1. \A d \in Claims : Backed(Server(d)') BY <1>2, <1>3 DEF StoreInv, ReadyIsBacked
    <2> QED BY <2>1 DEF ReadyIsBacked, Backed
  <1> QED BY <1>2, <1>3, <1>5, <1>6, <1>7, <1>8 DEF StoreInv

\* A step that leaves the versions alone.
LEMMA SameStore ==
    ASSUME StoreInv, UNCHANGED log
    PROVE  StoreInv' /\ KeepsPIDs /\ \A c \in Claims : Server(c)' = Server(c)
  BY DEF StoreInv, DeletionSticks, FinalizerSticks, UnbornIsEmpty, ReadyIsBacked, Backed,
         Protected, Server, isClaimReady, KeepsPIDs

\* The cache moves on by one version.
LEMMA ObserveKeeps ==
    ASSUME StoreTypeOK, StoreInv, NEW c \in Claims, Observe(c)
    PROVE  /\ StoreInv'
           /\ \A d \in Claims : Server(d)' = Server(d)
           /\ \A d \in Claims : \A i \in 1 .. Len(log'[d]) :
                 \E j \in 1 .. Len(log[d]) : log'[d][i] = log[d][j]
  <1>1. /\ log'[c][Len(log'[c])] = log[c][Len(log[c])]
        /\ \A d \in Claims \ {c} : log'[d] = log[d]
        /\ Len(log'[c]) = Len(log[c]) - 1
        /\ \A i \in 1 .. Len(log'[c]) : log'[c][i] = log[c][i + 1]
    BY ObserveEffect
  <1>2. \A d \in Claims : Server(d)' = Server(d) BY <1>1 DEF Server
  <1>3. Len(log[c]) \in Nat BY DEF StoreTypeOK
  <1>4. \A i \in 1 .. Len(log'[c]) : i + 1 \in 1 .. Len(log[c]) BY <1>1, <1>3
  <1>5. \A d \in Claims : \A i \in 1 .. Len(log'[d]) :
           \E j \in 1 .. Len(log[d]) : log'[d][i] = log[d][j]
    BY <1>1, <1>4
  <1>6. DeletionSticks'
    <2> SUFFICES ASSUME NEW d \in Claims, NEW i \in 1 .. Len(log'[d]),
                        NEW j \in 1 .. Len(log'[d]), i <= j, log'[d][i].del
                 PROVE  log'[d][j].del
      BY DEF DeletionSticks
    <2>1. CASE d # c BY <1>1, <2>1 DEF StoreInv, DeletionSticks
    <2>2. CASE d = c
      <3>1. /\ i + 1 \in 1 .. Len(log[c]) /\ j + 1 \in 1 .. Len(log[c])
            /\ i + 1 <= j + 1
        BY <1>4, <2>2
      <3>2. log[c][i + 1].del BY <1>1, <2>2
      <3>3. log[c][j + 1].del BY <3>1, <3>2 DEF StoreInv, DeletionSticks
      <3> QED BY <1>1, <2>2, <3>3
    <2> QED BY <2>1, <2>2
  <1>7. FinalizerSticks'
    <2> SUFFICES ASSUME NEW d \in Claims, NEW i \in 1 .. Len(log'[d]),
                        Protected(log'[d][i]), ~log'[d][i].del
                 PROVE  Protected(Server(d)')
      BY DEF FinalizerSticks, Protected
    <2>1. PICK j \in 1 .. Len(log[d]) : log'[d][i] = log[d][j] BY <1>5
    <2>2. Protected(Server(d)) BY <2>1 DEF StoreInv, FinalizerSticks
    <2> QED BY <1>2, <2>2
  <1>8. UnbornIsEmpty' BY <1>2 DEF StoreInv, UnbornIsEmpty
  <1>9. ReadyIsBacked'
    <2>1. \A d \in Claims : Backed(Server(d)') BY <1>2 DEF StoreInv, ReadyIsBacked
    <2> QED BY <2>1 DEF ReadyIsBacked, Backed
  <1> QED BY <1>2, <1>5, <1>6, <1>7, <1>8, <1>9 DEF StoreInv

\* A restarted manager has the server's versions and no others.
LEMMA RelistKeeps ==
    ASSUME StoreTypeOK, StoreInv, Relist
    PROVE  StoreInv' /\ \A c \in Claims : Server(c)' = Server(c)
  <1>1. \A c \in Claims : log'[c] = <<Server(c)>> BY DEF Relist
  <1>2. \A c \in Claims : Len(log'[c]) = 1 /\ log'[c][1] = Server(c) BY <1>1
  <1>3. \A c \in Claims : Server(c)' = Server(c) BY <1>2 DEF Server
  <1>4. DeletionSticks' BY <1>2 DEF DeletionSticks
  <1>5. FinalizerSticks' BY <1>2, <1>3 DEF FinalizerSticks, Protected
  <1>6. UnbornIsEmpty' BY <1>3 DEF StoreInv, UnbornIsEmpty
  <1>7. ReadyIsBacked'
    <2>1. \A d \in Claims : Backed(Server(d)') BY <1>3 DEF StoreInv, ReadyIsBacked
    <2> QED BY <2>1 DEF ReadyIsBacked, Backed
  <1> QED BY <1>3, <1>4, <1>5, <1>6, <1>7 DEF StoreInv

-----------------------------------------------------------------------------
(* The steps of a reconcile *)

WorkInv == CopyInSync /\ ReconcileCovered /\ CreateAttended

\* Nothing is asked of an idle worker.
LEMMA IdleKeeps ==
    ASSUME rec' = NoRec, current' = {}, call'.pc \notin CreatePC
    PROVE  WorkInv'
  BY DEF NoRec, WorkInv, CopyInSync, ReconcileCovered, CreateAttended, CreatedPC, TeardownPC

\* A write of the copy by the reconcile, before it returns: the new version follows
\* the rules of StoreKeeps because the copy was the server's version.
LEMMA OwnWriteKeeps ==
    ASSUME Inv, NEW c \in Claims, c = rec.claim, rec.pc # "idle", NEW o \in Objects,
           TryWrite(o), o.del = rec.obj.del, o.phase # "unborn", c \in current => Backed(o),
           rec.obj.pid # NoPID => o.pid = rec.obj.pid,
           \/ rec.pc \in TeardownPC
           \/ o.phase = "live" /\ (rec.obj.fin => o.fin)
    PROVE  /\ StoreInv' /\ KeepsPIDs
           /\ Written(o) => Server(c)' = o
  <1>1. /\ UNCHANGED log \/ (c \in current /\ Store(c, o))
        /\ Written(o) => c \in current /\ Store(c, o)
    BY WriteEffect DEF Inv
  <1>2. StoreInv /\ StoreTypeOK BY TypeParts DEF Inv, StoreInv
  <1>3. CASE c \in current /\ Store(c, o)
    <2>1. rec.obj = Server(c) BY <1>3 DEF Inv, CopyInSync
    <2>2. \/ Protected(Server(c)) => Protected(o)
          \/ o.del /\ \A i \in 1 .. Len(log[c]) : log[c][i].del
      <3>1. CASE rec.pc \in TeardownPC
        <4>1. rec.obj.del BY <3>1 DEF Inv, CopyInSync, TeardownPC
        <4> QED BY <3>1, <4>1 DEF Inv, ReconcileCovered
      <3>2. CASE o.phase = "live" /\ (rec.obj.fin => o.fin)
        BY <2>1, <3>2 DEF Protected
      <3> QED BY <3>1, <3>2
    <2>3. /\ StoreInv' /\ Server(c)' = o
          /\ \A d \in Claims \ {c} : Server(d)' = Server(d)
      BY <1>2, <1>3, <2>1, <2>2, StoreKeeps
    <2>4. KeepsPIDs BY <2>1, <2>3 DEF KeepsPIDs
    <2> QED BY <2>3, <2>4
  <1>4. CASE UNCHANGED log /\ ~Written(o)
    BY <1>2, <1>4, SameStore
  <1> QED BY <1>1, <1>3, <1>4

\* Inv after a step, part by part.
LEMMA InvPartsNext == TypeOK' /\ StoreInv' /\ WorkInv' => Inv'
  BY DEF StoreInv, WorkInv, Inv

\* The reconcile writes its copy and returns.
LEMMA WriteAndReturnKeeps ==
    ASSUME Inv, TypeOK', NEW c \in Claims, c = rec.claim, rec.pc # "idle",
           NEW o \in Objects, TryWrite(o), o.del = rec.obj.del, o.phase # "unborn",
           c \in current => Backed(o), rec.obj.pid # NoPID => o.pid = rec.obj.pid,
           \/ rec.pc \in TeardownPC
           \/ o.phase = "live" /\ (rec.obj.fin => o.fin),
           NEW requeue \in BOOLEAN, Done(requeue), call'.pc \notin CreatePC
    PROVE  Inv' /\ KeepsPIDs
  <1>1. StoreInv' /\ KeepsPIDs BY OwnWriteKeeps
  <1>2. WorkInv' BY IdleKeeps DEF Done
  <1> QED BY <1>1, <1>2, InvPartsNext

\* The reconcile returns without a write.
LEMMA ReturnKeeps ==
    ASSUME Inv, TypeOK', NEW requeue \in BOOLEAN, Done(requeue), UNCHANGED log,
           call'.pc \notin CreatePC
    PROVE  Inv' /\ KeepsPIDs
  <1>1. StoreInv' /\ KeepsPIDs BY SameStore DEF Inv, StoreInv
  <1>2. WorkInv' BY IdleKeeps DEF Done
  <1> QED BY <1>1, <1>2, InvPartsNext

\* The reconcile goes on from one point to the next without a write.
LEMMA StepKeeps ==
    ASSUME Inv, TypeOK', NEW c \in Claims, c = rec.claim, rec.pc # "idle",
           NEW pc \in RecPC \ {"idle", "finalizer"},
           rec'.pc = pc, rec'.claim = rec.claim, rec'.obj = rec.obj,
           UNCHANGED <<log, current>>,
           pc \in TeardownPC <=> rec.pc \in TeardownPC,
           pc \in CreatedPC => rec.pc \in CreatedPC \/ (rec.pc = "finalizer" /\ rec.obj.fin),
           pc \in {"readiness", "label", "condition"} => rec.obj.pid # NoPID,
           call'.pc \in CreatePC => pc = "creating" /\ call'.name = rec.claim,
           pc = "creating" => call'.pc \in CreatePC
    PROVE  Inv' /\ KeepsPIDs
  <1>1. StoreInv' /\ KeepsPIDs /\ Server(c)' = Server(c) BY SameStore DEF Inv, StoreInv
  <1>2. CopyInSync'
    <2>1. \A d \in current' : d = rec.claim /\ rec.obj = Server(d) BY DEF Inv, CopyInSync
    <2>2. \A d \in current' : rec'.pc # "idle" /\ d = rec'.claim /\ rec'.obj = Server(d)'
      BY <1>1, <2>1
    <2>3. rec'.obj.phase = "live" /\ (rec'.obj.del <=> rec'.pc \in TeardownPC)
      BY DEF Inv, CopyInSync
    <2>4. rec'.pc \in CreatedPC => rec'.obj.fin BY DEF Inv, CopyInSync
    <2> QED BY <2>2, <2>3, <2>4 DEF CopyInSync
  <1>3. ReconcileCovered'
    <2>1. pc \in CreatedPC => Protected(Server(c)) BY DEF Inv, ReconcileCovered
    <2>2. pc \in TeardownPC => \A i \in 1 .. Len(log[c]) : log[c][i].del
      BY DEF Inv, ReconcileCovered
    <2>3. Protected(Server(rec.claim))' <=> Protected(Server(c))
      BY <1>1 DEF Protected, Server
    <2> QED BY <2>1, <2>2, <2>3 DEF ReconcileCovered
  <1>4. CreateAttended' BY DEF CreateAttended, CreatePC
  <1> QED BY <1>1, <1>2, <1>3, <1>4, InvPartsNext DEF WorkInv

\* A step that changes neither the versions, nor the copy, nor the operation.
LEMMA StutterKeeps ==
    ASSUME Inv, TypeOK', UNCHANGED <<call, log, current, rec>>
    PROVE  Inv' /\ KeepsPIDs
  <1>1. StoreInv' /\ KeepsPIDs BY SameStore DEF Inv, StoreInv
  <1>2. WorkInv'
    BY DEF Inv, WorkInv, CopyInSync, ReconcileCovered, CreateAttended, Protected, Server
  <1> QED BY <1>1, <1>2, InvPartsNext

\* A step of the provider goes on with Create or ends it with an outcome.
LEMMA ProviderStepKeeps ==
    ASSUME Inv, TypeOK', ProviderStep
    PROVE  Inv' /\ KeepsPIDs
  <1>1. Advances BY ProviderType, TypeParts DEF Inv, ProviderStep
  <1>2. UNCHANGED <<log, current, rec>> BY DEF ProviderStep, storeVars, workVars
  <1>3. StoreInv' /\ KeepsPIDs BY <1>2, SameStore DEF Inv, StoreInv
  <1>4. CopyInSync' /\ ReconcileCovered'
    BY <1>2 DEF Inv, CopyInSync, ReconcileCovered, Protected, Server
  <1>5. CreateAttended'
    <2>1. rec.pc = "creating" /\ call.pc = "returned" => FALSE
      BY DEF ProviderStep, Provider, Create, Configure, Delete, Get, NextID, Clone, CloneReplyLost,
             CloneFails, Fails, Await, Lookup, ConfigureNothing, Act, Find, DeletePC
    <2> QED BY <1>1, <1>2, <2>1 DEF Inv, CreateAttended, Advances
  <1> QED BY <1>3, <1>4, <1>5, InvPartsNext DEF WorkInv

\* Every step of a reconcile.
LEMMA ControllerKeeps ==
    ASSUME Inv, TypeOK', Controller
    PROVE  Inv' /\ KeepsPIDs
  <1> USE DEF At
  <1>1. CASE rec.pc = "idle"
    <2>1. ProviderStep
      BY <1>1 DEF Controller, AddFinalizer, ResolveProvider, RenderCloudInit, RecordProviderID,
             NodeNotRegistered, ReadNode, LabelNode, SetReady, ReconcileDelete, VerifyDeleted,
             ConfirmGone, RemoveFinalizer
    <2> QED BY <2>1, ProviderStepKeeps
  <1> SUFFICES ASSUME rec.pc # "idle" PROVE Inv' /\ KeepsPIDs
    BY <1>1
  <1>0. PICK c \in Claims : c = rec.claim BY DEF Inv, TypeOK
  <1>a. rec.obj \in Objects /\ rec.obj.phase = "live" BY CopyType DEF Inv, CopyInSync
  <1>b. c \in current => Backed(rec.obj)
    BY DEF Inv, CopyInSync, ReadyIsBacked
  <1>c. rec.pc # "creating" => call.pc \notin CreatePC BY DEF Inv, CreateAttended
  <1>d. NoCall.pc \notin CreatePC BY DEF NoCall, CreatePC
  <1>e. rec.pc \in CreatedPC => rec.obj.fin BY DEF Inv, CopyInSync
  <1>2. CASE AddFinalizer
    <2> DEFINE o == [rec.obj EXCEPT !.fin = TRUE]
    <2>1. rec.pc = "finalizer" /\ UNCHANGED call BY <1>2 DEF AddFinalizer
    <2>2. /\ o \in Objects /\ o.phase = "live" /\ o.del = rec.obj.del /\ o.fin
          /\ o.ready = rec.obj.ready /\ o.launched = rec.obj.launched /\ o.pid = rec.obj.pid
      BY <1>a DEF Objects
    <2>3. c \in current => Backed(o) BY <1>b, <2>2 DEF Backed, isClaimReady
    <2>4. CASE rec.obj.fin /\ Step("resolve") /\ UNCHANGED <<faults, storeVars, queue>>
      <3>1. rec'.pc = "resolve" /\ rec'.claim = rec.claim /\ rec'.obj = rec.obj
        BY <2>4 DEF Step, Inv, TypeOK
      <3> QED BY <1>0, <1>c, <2>1, <2>4, <3>1, StepKeeps
              DEF RecPC, TeardownPC, CreatedPC, storeVars
    <2>5. CASE /\ Written(o)
               /\ rec' = [rec EXCEPT !.pc = "resolve", !.obj = o]
               /\ UNCHANGED <<current, queue>>
      <3>1. rec'.pc = "resolve" /\ rec'.claim = c /\ rec'.obj = o
        BY <1>0, <2>5 DEF Inv, TypeOK
      <3> HIDE DEF o
      <3>2. StoreInv' /\ KeepsPIDs /\ Server(c)' = o
        BY <1>0, <2>1, <2>2, <2>3, <2>5, OwnWriteKeeps DEF TryWrite
      <3>3. ~rec.obj.del BY <2>1 DEF Inv, CopyInSync, TeardownPC
      <3>4. \A d \in current' : d = c BY <1>0, <2>5 DEF Inv, CopyInSync
      <3>5. CopyInSync'
        BY <2>2, <3>1, <3>2, <3>3, <3>4 DEF CopyInSync, TeardownPC, CreatedPC
      <3>6. Protected(Server(rec.claim))'
        BY <2>2, <3>1, <3>2 DEF Protected, Server
      <3>7. ReconcileCovered' BY <3>1, <3>6 DEF ReconcileCovered, TeardownPC, CreatedPC
      <3>8. CreateAttended' BY <1>c, <2>1, <3>1 DEF CreateAttended
      <3> QED BY <3>2, <3>5, <3>7, <3>8, InvPartsNext DEF WorkInv
    <2>6. CASE NotWritten(o) /\ Done(TRUE)
      <3> HIDE DEF o
      <3> QED BY <1>0, <1>c, <2>1, <2>2, <2>3, <2>6, WriteAndReturnKeeps DEF TryWrite
    <2> QED BY <1>2, <2>4, <2>5, <2>6 DEF AddFinalizer
  <1>3. ASSUME NEW r \in {"ProviderResolveFailed", "CloudInitRenderFailed",
                          "NodeNotRegistered", "NodeNotReady", "NodeReady"},
               rec.pc \in CreatedPC, r = "NodeReady" => rec.obj.pid # NoPID,
               TryWrite([rec.obj EXCEPT !.ready = r]), NEW requeue \in BOOLEAN, Done(requeue),
               UNCHANGED call, rec.pc # "creating"
        PROVE  Inv' /\ KeepsPIDs
    <2> DEFINE o == [rec.obj EXCEPT !.ready = r]
    <2>1. /\ o \in Objects /\ o.phase = "live" /\ o.del = rec.obj.del /\ o.fin = rec.obj.fin
          /\ o.ready = r /\ o.launched = rec.obj.launched /\ o.pid = rec.obj.pid
      BY <1>a DEF Objects
    <2>2. c \in current => Backed(o)
      BY <1>b, <1>e, <1>3, <2>1 DEF Backed, isClaimReady
    <2>3. TryWrite(o) BY <1>3
    <2> HIDE DEF o
    <2> QED BY <1>0, <1>3, <1>c, <2>1, <2>2, <2>3, WriteAndReturnKeeps
  <1>4. CASE ResolveProvider
    <2>1. rec.pc = "resolve" /\ UNCHANGED call BY <1>4 DEF ResolveProvider
    <2>2. CASE Step(IF rec.obj.pid = NoPID THEN "render" ELSE "readiness")
               /\ UNCHANGED <<faults, storeVars, queue>>
      <3>1. PICK pc \in {"render", "readiness"} :
               Step(pc) /\ (pc = "readiness" => rec.obj.pid # NoPID)
        BY <2>2
      <3>2. rec'.pc = pc /\ rec'.claim = rec.claim /\ rec'.obj = rec.obj
        BY <3>1 DEF Step, Inv, TypeOK
      <3> QED BY <1>0, <1>c, <2>1, <2>2, <3>1, <3>2, StepKeeps
              DEF RecPC, TeardownPC, CreatedPC, storeVars
    <2>3. CASE TryWrite([rec.obj EXCEPT !.ready = "ProviderResolveFailed"]) /\ Done(TRUE)
      BY <1>3, <2>1, <2>3 DEF CreatedPC
    <2> QED BY <1>4, <2>2, <2>3 DEF ResolveProvider
  <1>5. CASE RenderCloudInit
    <2>1. rec.pc = "render" BY <1>5 DEF RenderCloudInit
    <2>2. CASE /\ BeginCreate(rec.claim) /\ Step("creating")
               /\ UNCHANGED <<faults, storeVars, queue>>
      <3>1. rec'.pc = "creating" /\ rec'.claim = rec.claim /\ rec'.obj = rec.obj
        BY <2>2 DEF Step, Inv, TypeOK
      <3>2. call'.pc = "nextid" /\ call'.name = rec.claim
        BY <2>2 DEF BeginCreate, NoCall
      <3> QED BY <1>0, <2>1, <2>2, <3>1, <3>2, StepKeeps
              DEF RecPC, TeardownPC, CreatedPC, CreatePC, storeVars
    <2>3. CASE TryWrite([rec.obj EXCEPT !.ready = "CloudInitRenderFailed"]) /\ Done(TRUE)
               /\ UNCHANGED call
      BY <1>3, <2>1, <2>3 DEF CreatedPC
    <2> QED BY <1>5, <2>2, <2>3 DEF RenderCloudInit
  <1>6. CASE RecordProviderID
    <2> DEFINE o == [rec.obj EXCEPT !.pid = IF @ = NoPID THEN call.pid ELSE @,
                        !.launched = IF call.err THEN "CreateFailed" ELSE "Created"]
    <2>1. /\ rec.pc = "creating" /\ TryWrite(o) /\ Done(TRUE) /\ call' = NoCall
          /\ call.pc = "returned"
      BY <1>6 DEF RecordProviderID
    <2>2. /\ call.pid \in PIDs \cup {NoPID} /\ call.err \in BOOLEAN
          /\ ~call.err => call.pid \in PIDs
      BY <2>1 DEF Inv, TypeOK, ProviderTypeOK, Calls, CreateAttended
    <2>3. /\ o \in Objects /\ o.phase = "live" /\ o.del = rec.obj.del /\ o.fin = rec.obj.fin
          /\ o.ready = rec.obj.ready
          /\ o.pid = (IF rec.obj.pid = NoPID THEN call.pid ELSE rec.obj.pid)
          /\ o.launched = (IF call.err THEN "CreateFailed" ELSE "Created")
      BY <1>a, <2>2 DEF Objects
    <2> HIDE DEF o
    <2>4. c \in current => Backed(o)
      <3>1. rec.obj.fin BY <1>e, <2>1 DEF CreatedPC
      <3>2. o.launched = "Created" => o.pid # NoPID
        BY <2>2, <2>3, SurroundingsAssumption
      <3>3. c \in current /\ isClaimReady(rec.obj) => rec.obj.pid # NoPID
        BY <1>b DEF Backed
      <3> QED BY <2>3, <3>1, <3>2, <3>3 DEF Backed, isClaimReady
    <2> QED BY <1>0, <1>d, <2>1, <2>3, <2>4, WriteAndReturnKeeps
  <1>7. CASE NodeNotRegistered
    BY <1>3, <1>7 DEF NodeNotRegistered, CreatedPC
  <1>8. CASE ReadNode \/ LabelNode
    <2>1. rec.pc \in {"readiness", "label"} /\ UNCHANGED <<call, log>>
      BY <1>8 DEF ReadNode, LabelNode
    <2>2. ASSUME NEW pc \in {"label", "condition"}, UNCHANGED current,
                 rec'.pc = pc, rec'.claim = rec.claim, rec'.obj = rec.obj
          PROVE  Inv' /\ KeepsPIDs
      <3>1. rec.obj.pid # NoPID BY <2>1 DEF Inv, CopyInSync
      <3> QED BY <1>0, <1>c, <2>1, <2>2, <3>1, StepKeeps DEF RecPC, TeardownPC, CreatedPC
    <2>3. CASE Done(TRUE) BY <1>c, <2>1, <2>3, ReturnKeeps
    <2>4. CASE ReadNode /\ ~Done(TRUE)
      <3>1. /\ UNCHANGED current
            /\ rec' = [rec EXCEPT !.pc = IF rec.claim \in labelled THEN "condition" ELSE "label",
                                  !.nodeReady = isNodeReady(rec.claim)]
        BY <2>4 DEF ReadNode
      <3>2. /\ rec'.pc \in {"label", "condition"} /\ rec'.claim = rec.claim
            /\ rec'.obj = rec.obj
        BY <3>1 DEF Inv, TypeOK
      <3> QED BY <2>2, <3>1, <3>2
    <2>5. CASE LabelNode /\ ~Done(TRUE)
      <3>1. Step("condition") /\ UNCHANGED current BY <2>5 DEF LabelNode
      <3>2. rec'.pc = "condition" /\ rec'.claim = rec.claim /\ rec'.obj = rec.obj
        BY <3>1 DEF Step, Inv, TypeOK
      <3> QED BY <2>2, <3>1, <3>2
    <2> QED BY <1>8, <2>3, <2>4, <2>5
  <1>9. CASE SetReady
    <2> DEFINE r == IF rec.nodeReady THEN "NodeReady" ELSE "NodeNotReady"
    <2>1. /\ rec.pc = "condition" /\ TryWrite([rec.obj EXCEPT !.ready = r])
          /\ Done(~rec.nodeReady) \/ Done(TRUE)
          /\ UNCHANGED call
      BY <1>9 DEF SetReady, TryWrite
    <2>2. rec.nodeReady \in BOOLEAN BY DEF Inv, TypeOK
    <2>3. rec.obj.pid # NoPID BY <2>1 DEF Inv, CopyInSync
    <2>4. PICK requeue \in BOOLEAN : Done(requeue) BY <2>1, <2>2
    <2>5. r \in {"NodeReady", "NodeNotReady"} OBVIOUS
    <2> HIDE DEF r
    <2> QED BY <1>3, <2>1, <2>3, <2>4, <2>5 DEF CreatedPC
  <1>10. CASE ReconcileDelete
    <2>1. rec.pc = "delete" /\ UNCHANGED log BY <1>10 DEF ReconcileDelete
    <2>2. CASE (Done(FALSE) \/ Done(TRUE)) /\ UNCHANGED call
      BY <1>c, <2>1, <2>2, ReturnKeeps
    <2>3. CASE \/ Step("release") /\ UNCHANGED <<call, current, queue>>
               \/ /\ BeginDelete(rec.obj.pid) /\ Step("deleting")
                  /\ UNCHANGED <<current, queue>>
      <3>1. PICK pc \in {"release", "deleting"} : Step(pc) BY <2>3
      <3>2. rec'.pc = pc /\ rec'.claim = rec.claim /\ rec'.obj = rec.obj
        BY <3>1 DEF Step, Inv, TypeOK
      <3>3. call'.pc \notin CreatePC
        BY <1>c, <2>1, <2>3 DEF BeginDelete, NoCall, CreatePC
      <3> QED BY <1>0, <2>1, <2>3, <3>1, <3>2, <3>3, StepKeeps
              DEF RecPC, TeardownPC, CreatedPC
    <2> QED BY <1>10, <2>2, <2>3 DEF ReconcileDelete
  <1>11. CASE VerifyDeleted
    <2>1. rec.pc = "deleting" /\ UNCHANGED log BY <1>11 DEF VerifyDeleted
    <2>2. CASE Done(TRUE) /\ call' = NoCall BY <1>d, <2>1, <2>2, ReturnKeeps
    <2>3. CASE /\ BeginGet(rec.obj.pid) /\ Step("verifying")
               /\ UNCHANGED <<current, queue>>
      <3>1. rec'.pc = "verifying" /\ rec'.claim = rec.claim /\ rec'.obj = rec.obj
        BY <2>3 DEF Step, Inv, TypeOK
      <3>2. call'.pc \notin CreatePC BY <2>3 DEF BeginGet, NoCall, CreatePC
      <3> QED BY <1>0, <2>1, <2>3, <3>1, <3>2, StepKeeps
              DEF RecPC, TeardownPC, CreatedPC
    <2> QED BY <1>11, <2>2, <2>3 DEF VerifyDeleted
  <1>12. CASE ConfirmGone
    <2>1. rec.pc = "verifying" /\ call' = NoCall /\ UNCHANGED log BY <1>12 DEF ConfirmGone
    <2>2. CASE Done(TRUE) BY <1>d, <2>1, <2>2, ReturnKeeps
    <2>3. CASE Step("release") /\ UNCHANGED <<current, queue>>
      <3>1. rec'.pc = "release" /\ rec'.claim = rec.claim /\ rec'.obj = rec.obj
        BY <2>3 DEF Step, Inv, TypeOK
      <3> QED BY <1>0, <1>d, <2>1, <2>3, <3>1, StepKeeps
              DEF RecPC, TeardownPC, CreatedPC
    <2> QED BY <1>12, <2>2, <2>3 DEF ConfirmGone
  <1>13. CASE RemoveFinalizer
    <2>1. rec.pc = "release" /\ UNCHANGED call BY <1>13 DEF RemoveFinalizer
    <2>2. PICK held \in Held :
             LET o == [rec.obj EXCEPT !.fin = FALSE, !.phase = IF held THEN @ ELSE "gone"]
             IN  TryWrite(o) /\ (Done(FALSE) \/ Done(TRUE))
      BY <1>13 DEF RemoveFinalizer, TryWrite
    <2> DEFINE o == [rec.obj EXCEPT !.fin = FALSE, !.phase = IF held THEN @ ELSE "gone"]
    <2>3. /\ o \in Objects /\ o.phase # "unborn" /\ o.del = rec.obj.del
          /\ o.ready = rec.obj.ready /\ o.launched = rec.obj.launched /\ o.pid = rec.obj.pid
      BY <1>a DEF Objects
    <2>4. TryWrite(o) /\ (Done(FALSE) \/ Done(TRUE)) BY <2>2
    <2>5. rec.pc \in TeardownPC /\ rec.obj.del BY <2>1 DEF Inv, CopyInSync, TeardownPC
    <2>6. PICK requeue \in BOOLEAN : Done(requeue) BY <2>4
    <2> HIDE DEF o
    <2>7. c \in current => Backed(o) BY <1>b, <2>3, <2>5 DEF Backed, isClaimReady
    <2> QED BY <1>0, <1>c, <2>1, <2>3, <2>4, <2>5, <2>6, <2>7, WriteAndReturnKeeps
  <1>14. CASE ProviderStep BY <1>14, ProviderStepKeeps
  <1> QED BY <1>2, <1>4, <1>5, <1>6, <1>7, <1>8, <1>9, <1>10, <1>11, <1>12, <1>13, <1>14
          DEF Controller

-----------------------------------------------------------------------------
(* The rest of the cluster *)

\* Somebody else writes a claim: a running reconcile loses the current version of it
\* but stays covered by it.
LEMMA OtherWriteKeeps ==
    ASSUME Inv, TypeOK', NEW c \in Claims, NEW o \in Objects, StoreOther(c, o),
           UNCHANGED <<call, rec>>, Server(c).del => o.del,
           Protected(Server(c)) => Protected(o), o.phase # "unborn", Backed(o),
           Server(c).pid # NoPID => o.pid = Server(c).pid
    PROVE  Inv' /\ KeepsPIDs
  <1>1. /\ StoreInv' /\ Server(c)' = o
        /\ \A d \in Claims \ {c} : Server(d)' = Server(d)
    BY StoreKeeps, TypeParts DEF Inv, StoreInv, StoreOther
  <1>2. /\ log'[c][Len(log'[c])] = o
        /\ \A d \in Claims \ {c} : log'[d] = log[d]
        /\ \A i \in 1 .. Len(log'[c]) :
              i = Len(log'[c]) \/ (i \in 1 .. Len(log[c]) /\ log'[c][i] = log[c][i])
    BY StoreEffect, TypeParts DEF Inv, StoreOther
  <1>3. CopyInSync'
    <2>1. \A d \in current' : d \in Claims /\ d \in current /\ Server(d)' = Server(d)
      BY <1>1 DEF StoreOther, Inv, TypeOK, StoreTypeOK
    <2>2. \A d \in current' : rec'.pc # "idle" /\ d = rec'.claim /\ rec'.obj = Server(d)'
      BY <2>1 DEF Inv, CopyInSync
    <2> QED BY <2>2 DEF Inv, CopyInSync
  <1>4. ReconcileCovered'
    <2>1. CASE rec.pc = "idle"
      BY <2>1 DEF ReconcileCovered, CreatedPC, TeardownPC
    <2>2. CASE rec.pc # "idle"
      <3>1. PICK d \in Claims : d = rec.claim BY <2>2 DEF Inv, TypeOK
      <3>2. Protected(Server(d)) => Protected(Server(rec.claim))'
        BY <1>1, <3>1 DEF Protected, Server
      <3>3. ASSUME \A i \in 1 .. Len(log[d]) : log[d][i].del
            PROVE  \A i \in 1 .. Len(log'[d]) : log'[d][i].del
        <4>1. Len(log[d]) \in 1 .. Len(log[d])
          BY StoreAssumption DEF Inv, TypeOK, StoreTypeOK
        <4>2. Server(d).del BY <3>3, <4>1 DEF Server
        <4> QED BY <1>2, <3>3, <4>2
      <3> QED BY <3>1, <3>2, <3>3 DEF Inv, ReconcileCovered
    <2> QED BY <2>1, <2>2
  <1>5. CreateAttended' BY DEF Inv, CreateAttended
  <1>6. KeepsPIDs BY <1>1 DEF KeepsPIDs
  <1> QED BY <1>1, <1>3, <1>4, <1>5, <1>6, InvPartsNext DEF WorkInv

\* A reconcile starts from the version in the cache.
LEMMA ReconcileKeeps ==
    ASSUME Inv, TypeOK', NEW c \in Claims, Reconcile(c)
    PROVE  Inv' /\ KeepsPIDs
  <1>1. rec.pc = "idle" /\ UNCHANGED <<call, log>> BY DEF Reconcile, At, providerVars
  <1>2. CASE UNCHANGED <<rec, current>> BY <1>1, <1>2, StutterKeeps
  <1>3. CASE /\ Cached(c).phase = "live"
             /\ rec' = [NoRec EXCEPT !.pc = IF Cached(c).del THEN "delete" ELSE "finalizer",
                                     !.claim = c, !.obj = Cached(c)]
             /\ current' = IF Fresh(c) THEN {c} ELSE {}
    <2>1. StoreInv' /\ KeepsPIDs /\ Server(c)' = Server(c) BY <1>1, SameStore DEF Inv, StoreInv
    <2>2. /\ rec'.pc = (IF Cached(c).del THEN "delete" ELSE "finalizer")
          /\ rec'.claim = c /\ rec'.obj = Cached(c)
      BY <1>3 DEF NoRec
    <2>3. Len(log[c]) \in Nat /\ Len(log[c]) >= 1
      BY StoreAssumption DEF Inv, TypeOK, StoreTypeOK
    <2>4. CopyInSync'
      <3>1. \A d \in current' : d = c /\ Cached(c) = Server(c)'
        BY <1>3, <2>1 DEF Fresh, Cached, Server
      <3>2. rec'.obj.del <=> rec'.pc \in TeardownPC BY <2>2 DEF TeardownPC
      <3>3. rec'.pc # "idle" /\ rec'.pc \notin CreatedPC BY <2>2 DEF CreatedPC
      <3> QED BY <1>3, <2>2, <3>1, <3>2, <3>3 DEF CopyInSync, CreatedPC
    <2>5. ReconcileCovered'
      <3>1. 1 \in 1 .. Len(log[c]) BY <2>3
      <3>2. ~Cached(c).del /\ Cached(c).fin => Protected(Server(c))
        BY <1>3, <3>1 DEF Inv, FinalizerSticks, Protected, Cached
      <3>3. Protected(Server(c)) => Protected(Server(rec.claim))'
        BY <2>1, <2>2 DEF Protected, Server
      <3>4. Cached(c).del => \A i \in 1 .. Len(log[c]) : log[c][i].del
        BY <2>3, <3>1 DEF Inv, DeletionSticks, Cached
      <3> QED BY <1>1, <2>2, <3>2, <3>3, <3>4 DEF ReconcileCovered, CreatedPC, TeardownPC
    <2>6. CreateAttended' BY <1>1, <2>2 DEF Inv, CreateAttended
    <2> QED BY <2>1, <2>4, <2>5, <2>6, InvPartsNext DEF WorkInv
  <1> QED BY <1>2, <1>3 DEF Reconcile

\* The cache moves on under a running reconcile.
LEMMA WatchEventKeeps ==
    ASSUME Inv, TypeOK', NEW c \in Claims, WatchEvent(c)
    PROVE  Inv' /\ KeepsPIDs
  <1>1. Observe(c) /\ UNCHANGED <<call, current, rec>> BY DEF WatchEvent, providerVars
  <1>2. /\ StoreInv'
        /\ \A d \in Claims : Server(d)' = Server(d)
        /\ \A d \in Claims : \A i \in 1 .. Len(log'[d]) :
              \E j \in 1 .. Len(log[d]) : log'[d][i] = log[d][j]
    BY <1>1, ObserveKeeps, TypeParts DEF Inv, StoreInv
  <1>3. CopyInSync'
    <2>1. \A d \in current' : d \in Claims /\ d \in current
      BY <1>1 DEF Inv, TypeOK, StoreTypeOK
    <2>2. \A d \in current' : rec'.pc # "idle" /\ d = rec'.claim /\ rec'.obj = Server(d)'
      BY <1>1, <1>2, <2>1 DEF Inv, CopyInSync
    <2> QED BY <1>1, <2>2 DEF Inv, CopyInSync
  <1>4. ReconcileCovered'
    <2>1. CASE rec.pc = "idle"
      BY <1>1, <2>1 DEF ReconcileCovered, CreatedPC, TeardownPC
    <2>2. CASE rec.pc # "idle"
      <3>1. PICK d \in Claims : d = rec.claim BY <2>2 DEF Inv, TypeOK
      <3>2. Protected(Server(d)) => Protected(Server(rec.claim))'
        BY <1>1, <1>2, <3>1 DEF Protected, Server
      <3>3. ASSUME \A i \in 1 .. Len(log[d]) : log[d][i].del
            PROVE  \A i \in 1 .. Len(log'[d]) : log'[d][i].del
        BY <1>2, <3>3
      <3> QED BY <1>1, <3>1, <3>2, <3>3 DEF Inv, ReconcileCovered
    <2> QED BY <2>1, <2>2
  <1>5. CreateAttended' BY <1>1 DEF Inv, CreateAttended
  <1>6. KeepsPIDs BY <1>2 DEF KeepsPIDs
  <1> QED BY <1>2, <1>3, <1>4, <1>5, <1>6, InvPartsNext DEF WorkInv

\* The writes of the provisioner, the users and the garbage collector.
LEMMA ClaimWritesKeep ==
    ASSUME Inv, TypeOK', NEW c \in Claims,
           CreateClaim(c) \/ DeleteClaim(c) \/ HolderReleases(c) \/ Annotate(c)
    PROVE  Inv' /\ KeepsPIDs
  <1>1. Server(c) \in Objects /\ Backed(Server(c))
    BY ServerType, TypeParts DEF Inv, ReadyIsBacked
  <1>2. UNCHANGED <<call, rec>>
    BY DEF CreateClaim, DeleteClaim, HolderReleases, Annotate, providerVars, workVars
  <1>3. CASE CreateClaim(c)
    <2> DEFINE o == [Unborn EXCEPT !.phase = "live"]
    <2>1. StoreOther(c, o) /\ Server(c) = Unborn
      BY <1>3 DEF CreateClaim, Inv, UnbornIsEmpty
    <2>2. o \in Objects /\ o.phase = "live" /\ Backed(o) 
      BY DEF Unborn, Objects, Backed, isClaimReady
    <2>3. ~Server(c).del /\ ~Protected(Server(c)) /\ Server(c).pid = NoPID
      BY <2>1 DEF Unborn, Protected
    <2> HIDE DEF o
    <2> QED BY <1>2, <2>1, <2>2, <2>3, OtherWriteKeeps
  <1>4. CASE DeleteClaim(c)
    <2>1. PICK held \in Held : DeleteRequest(c, held) BY <1>4 DEF DeleteClaim
    <2> DEFINE o == Deleted(Server(c), held)
    <2>2. StoreOther(c, o) /\ ~Server(c).del /\ Server(c).phase = "live"
      BY <2>1 DEF DeleteRequest
    <2>3. /\ o \in Objects /\ o.phase # "unborn" /\ o.fin = Server(c).fin
          /\ Server(c).fin => o.phase = "live"
          /\ o.pid = Server(c).pid /\ o.launched = Server(c).launched
          /\ o.ready = Server(c).ready
      BY <1>1, <2>2 DEF Deleted, Objects
    <2> HIDE DEF o
    <2>4. Backed(o) BY <1>1, <2>2, <2>3 DEF Backed, isClaimReady
    <2>5. Protected(Server(c)) => Protected(o) BY <2>3 DEF Protected
    <2> QED BY <1>2, <2>2, <2>3, <2>4, <2>5, OtherWriteKeeps
  <1>5. CASE HolderReleases(c)
    <2> DEFINE o == [Server(c) EXCEPT !.phase = "gone"]
    <2>1. StoreOther(c, o) /\ ~Server(c).fin BY <1>5 DEF HolderReleases
    <2>2. /\ o \in Objects /\ o.phase = "gone" /\ o.fin = Server(c).fin
          /\ o.pid = Server(c).pid /\ o.launched = Server(c).launched
          /\ o.ready = Server(c).ready /\ o.del = Server(c).del
      BY <1>1 DEF Objects
    <2> HIDE DEF o
    <2>3. Backed(o) BY <1>1, <2>2 DEF Backed, isClaimReady
    <2> QED BY <1>2, <2>1, <2>2, <2>3, OtherWriteKeeps DEF Protected
  <1>6. CASE Annotate(c)
    <2>1. PICK t \in Times \cup {NoTime} : StoreOther(c, [Server(c) EXCEPT !.since = t])
      BY <1>6 DEF Annotate
    <2> DEFINE o == [Server(c) EXCEPT !.since = t]
    <2>2. Server(c).phase = "live" BY <1>6 DEF Annotate
    <2>3. /\ o \in Objects /\ o.phase = Server(c).phase /\ o.fin = Server(c).fin
          /\ o.pid = Server(c).pid /\ o.launched = Server(c).launched
          /\ o.ready = Server(c).ready /\ o.del = Server(c).del
      BY <1>1 DEF Objects
    <2>4. StoreOther(c, o) BY <2>1
    <2> HIDE DEF o
    <2>5. Backed(o) BY <1>1, <2>3 DEF Backed, isClaimReady
    <2> QED BY <1>2, <2>2, <2>3, <2>4, <2>5, OtherWriteKeeps DEF Protected
  <1> QED BY <1>3, <1>4, <1>5, <1>6

\* The manager restarts.
LEMMA CrashKeeps ==
    ASSUME Inv, TypeOK', Crash
    PROVE  Inv' /\ KeepsPIDs
  <1>1. Relist /\ rec' = NoRec /\ call' = NoCall BY DEF Crash
  <1>2. StoreInv' /\ \A c \in Claims : Server(c)' = Server(c)
    BY <1>1, RelistKeeps, TypeParts DEF Inv, StoreInv
  <1>3. call'.pc \notin CreatePC BY <1>1 DEF NoCall, CreatePC
  <1>4. WorkInv' BY <1>1, <1>3, IdleKeeps DEF Relist
  <1>5. KeepsPIDs BY <1>2 DEF KeepsPIDs
  <1> QED BY <1>2, <1>4, <1>5, InvPartsNext

\* Inv is inductive, and no step replaces or erases a providerID.
LEMMA InvStep == Inv /\ [Next]_vars => Inv' /\ KeepsPIDs
  <1> SUFFICES ASSUME Inv, [Next]_vars PROVE Inv' /\ KeepsPIDs
    OBVIOUS
  <1>1. TypeOK' BY TypeStep DEF Inv
  <1>2. CASE Controller BY <1>1, <1>2, ControllerKeeps
  <1>3. CASE Crash BY <1>1, <1>3, CrashKeeps
  <1>4. ASSUME NEW c \in Claims,
               \/ Reconcile(c) \/ WatchEvent(c)
               \/ CreateClaim(c) \/ DeleteClaim(c) \/ HolderReleases(c) \/ Annotate(c)
        PROVE  Inv' /\ KeepsPIDs
    BY <1>1, <1>4, ReconcileKeeps, WatchEventKeeps, ClaimWritesKeep
  <1>5. ASSUME \/ \E c \in Claims : JoinNode(c) \/ KubeletReady(c) \/ KubeletLost(c) \/ RemoveNode(c)
               \/ DeletePool \/ PoolGone \/ Apply \/ Withdraw
        PROVE  Inv' /\ KeepsPIDs
    <2>1. UNCHANGED <<call, log, current, rec>>
      BY <1>5 DEF JoinNode, KubeletReady, KubeletLost, RemoveNode, DeletePool, PoolGone, Apply,
             Withdraw, providerVars, storeVars, workVars
    <2> QED BY <1>1, <2>1, StutterKeeps
  <1>6. CASE HypervisorStep
    <2>1. UNCHANGED <<call, log, current, rec>>
      BY <1>6 DEF HypervisorStep, Hypervisor, TaskDone, TaskFailed, ForeignCreate, AdminRemove,
             Migrate, RemoveHost, storeVars, workVars
    <2> QED BY <1>1, <2>1, StutterKeeps
  <1>7. CASE UNCHANGED vars
    <2>1. UNCHANGED <<call, log, current, rec>>
      BY <1>7 DEF vars, providerVars, storeVars, workVars
    <2> QED BY <1>1, <2>1, StutterKeeps
  <1> QED BY <1>2, <1>3, <1>4, <1>5, <1>6, <1>7 DEF Next, Cluster

\* The invariant holds in the initial states ...
LEMMA InvInit == Init => Inv
  <1>1. Init => TypeOK BY InitType
  <1>2. Init => StoreInv /\ WorkInv
    <2> SUFFICES ASSUME Init PROVE StoreInv /\ WorkInv
      OBVIOUS
    <2>1. \A c \in Claims : Len(log[c]) = 1 /\ log[c][1] = Unborn /\ Server(c) = Unborn
      BY DEF Init, StoreInit, Server
    <2>2. StoreInv
      BY <2>1 DEF StoreInv, DeletionSticks, FinalizerSticks, UnbornIsEmpty, ReadyIsBacked,
             Backed, isClaimReady, Protected, Unborn
    <2>3. rec.pc = "idle" /\ current = {} /\ call.pc = "idle"
      BY DEF Init, StoreInit, ProviderInit, NoRec, NoCall
    <2>4. WorkInv
      BY <2>3 DEF WorkInv, CopyInSync, ReconcileCovered, CreateAttended, CreatedPC,
             TeardownPC, CreatePC
    <2> QED BY <2>2, <2>4
  <1> QED BY <1>1, <1>2 DEF StoreInv, WorkInv, Inv

\* ... and in every state.
THEOREM Invariance == Spec => []Inv
  BY InvInit, InvStep, PTL DEF Spec

-----------------------------------------------------------------------------
(* What the invariant is for *)

\* A claim that is Ready or Launched names its VM and has, or had until its deletion,
\* its finalizer: for every number of claims, VMIDs, faults and versions of lag.
THEOREM ReadyBacked == Spec => []ReadyIsBacked
  BY Invariance, PTL DEF Inv

\* Only the provider and the hypervisor change machines.
LEMMA MachinesChange ==
    ASSUME [Next]_vars
    PROVE  ProviderStep \/ HypervisorStep \/ UNCHANGED vms
  <1>1. Controller /\ ~ProviderStep => UNCHANGED vms
    BY DEF Controller, AddFinalizer, ResolveProvider, RenderCloudInit, RecordProviderID,
           NodeNotRegistered, ReadNode, LabelNode, SetReady, ReconcileDelete, VerifyDeleted,
           ConfirmGone, RemoveFinalizer
  <1>2. Cluster /\ ~HypervisorStep => UNCHANGED vms
    BY DEF Cluster, CreateClaim, DeleteClaim, HolderReleases, Annotate, JoinNode,
           KubeletReady, KubeletLost, RemoveNode, DeletePool, PoolGone, Apply, Withdraw,
           providerVars
  <1>3. Crash \/ (\E d \in Claims : Reconcile(d) \/ WatchEvent(d)) => UNCHANGED vms
    BY DEF Crash, Reconcile, WatchEvent, providerVars
  <1> QED BY <1>1, <1>2, <1>3 DEF Next, vars, providerVars

\* The step that starts a clone is one of Create, and Create runs for a claim that the
\* server holds with its finalizer on.
LEMMA CloneStep ==
    ASSUME Inv, [Next]_vars, NEW i \in VMIDs, NEW c \in Claims,
           vms[i].name # c, vms'[i].name = c
    PROVE  /\ Server(c).phase = "live" /\ Server(c).fin
           /\ rec.pc = "creating" /\ rec.claim = c
  <1>1. CASE ProviderStep
    <2>1. Names BY <1>1, ProviderType, TypeParts DEF Inv, ProviderStep
    <2>2. call.pc = "clone" /\ call.name = c BY <2>1 DEF Names
    <2>3. rec.pc = "creating" /\ rec.claim = c
      BY <2>2 DEF Inv, CreateAttended, CreatePC
    <2>4. Protected(Server(c)) BY <2>3 DEF Inv, ReconcileCovered, CreatedPC
    <2> QED BY <2>3, <2>4 DEF Protected
  <1>2. CASE HypervisorStep
    <2>1. vms'[i].name \in {vms[i].name, NoName, Foreign}
      BY <1>2, HypervisorEffect, TypeParts DEF Inv, HypervisorStep, Turns, NoVM
    <2> QED BY <2>1, ProviderAssumption
  <1> QED BY <1>1, <1>2, MachinesChange

\* A clone starts only for a claim the API server holds with its finalizer on,
\* although the reconcile that asks for it may work on a copy that is outdated.
THEOREM CreateFinalized == Spec => CreatedUnderFinalizer
  <1>1. Inv /\ [Next]_vars =>
           [\A i \in VMIDs, c \in Claims :
                vms[i].name # c /\ vms'[i].name = c =>
                    Server(c).phase = "live" /\ Server(c).fin]_vars
    BY CloneStep
  <1> QED BY <1>1, Invariance, PTL DEF Spec, CreatedUnderFinalizer

\* A providerID the API server has accepted is never replaced or erased: the write of
\* a reconcile that worked on an outdated copy is refused.
THEOREM PIDStable == Spec => ProviderIDStable
  <1>1. Inv /\ [Next]_vars =>
           [\A c \in Claims :
                Server(c).pid # NoPID => (Server(c).pid)' = Server(c).pid]_vars
    BY InvStep DEF KeepsPIDs
  <1> QED BY <1>1, Invariance, PTL DEF Spec, ProviderIDStable

-----------------------------------------------------------------------------
(* The VMID that Create does not own *)

\* The VM that Create works on is the claim's and is not on its way out.
Owned == /\ vms[call.pid.vmid].name = rec.claim
         /\ vms[call.pid.vmid].st \notin {"none", "deleting"}

\* The VM that Create works on goes only by a mishap, and a VM of somebody else takes
\* its VMID only by another.
OwnInv ==
    rec.pc = "creating" /\ call.pid # NoPID /\ call.pc \notin {"nextid", "clone"} =>
        Owned \/ (vms[call.pid.vmid].name = NoName /\ faults = 1) \/ faults >= 2

\* Without a mishap the hypervisor only ends tasks; with one, no VM starts to go away.
LEMMA HypervisorMishap ==
    ASSUME ProviderTypeOK, Hypervisor, NEW i \in VMIDs
    PROVE  /\ faults' \in {faults, faults + 1}
           /\ vms'[i].st = "deleting" => vms[i].st = "deleting"
           /\ faults' = faults /\ vms[i].st # "deleting" =>
                /\ vms'[i].name = vms[i].name
                /\ vms'[i].st = "none" <=> vms[i].st = "none"
           /\ faults' = faults /\ vms[i].name = NoName => vms'[i].name = NoName
  <1> USE DEF ProviderTypeOK
  <1>1. vms[i] \in VMs /\ NoVM.st = "none" /\ NoVM.name = NoName BY DEF NoVM
  <1>2. \A st \in VMStates : Completed(st) \notin {"none", "deleting"}
                              /\ Aborted(st) \notin {"none", "deleting"}
    BY DEF Completed, Aborted, VMStates
  <1>3. ASSUME NEW j \in VMIDs, TaskDone(j)
        PROVE  /\ faults' = faults
               /\ \/ vms'[i] = vms[i]
                  \/ vms'[i] = NoVM /\ vms[i].st = "deleting"
                  \/ vms[i].st # "none" /\ vms'[i] = [vms[i] EXCEPT !.st = Completed(vms[i].st)]
    BY <1>3 DEF TaskDone, TaskStates
  <1>4. ASSUME NEW j \in VMIDs, \/ TaskFailed(j) \/ ForeignCreate(j) \/ AdminRemove(j)
                                \/ \E h \in Hosts : Migrate(j, h)
        PROVE  /\ faults' = faults + 1
               /\ vms'[i].st = "deleting" => vms[i].st = "deleting"
    <2>1. faults' = faults + 1
      BY <1>4 DEF TaskFailed, ForeignCreate, AdminRemove, Migrate, Fault
    <2>2. CASE TaskFailed(j)
      <3>1. \/ vms'[i] \in {vms[i], NoVM}
            \/ vms'[i] = [vms[i] EXCEPT !.st = Aborted(vms[i].st)]
        BY <2>2 DEF TaskFailed
      <3> QED BY <1>1, <1>2, <2>1, <3>1 DEF VMs
    <2>3. CASE \/ ForeignCreate(j) \/ AdminRemove(j) \/ \E h \in Hosts : Migrate(j, h)
      <3>1. \/ vms'[i] \in {vms[i], NoVM}
            \/ vms'[i] = [NoVM EXCEPT !.st = "stopped", !.name = Foreign]
            \/ \E h \in Hosts : vms'[i] = [vms[i] EXCEPT !.host = h]
        BY <2>3 DEF ForeignCreate, AdminRemove, Migrate
      <3>2. [NoVM EXCEPT !.st = "stopped", !.name = Foreign].st = "stopped" BY DEF NoVM
      <3>3. \A h \in Hosts : [vms[i] EXCEPT !.host = h].st = vms[i].st BY <1>1 DEF VMs
      <3> QED BY <1>1, <2>1, <3>1, <3>2, <3>3
    <2> QED BY <1>4, <2>2, <2>3
  <1>5. ASSUME NEW h \in Hosts, RemoveHost(h)
        PROVE  faults' = faults + 1 /\ vms'[i] \in {vms[i], NoVM}
    BY <1>5 DEF RemoveHost, Fault
  <1>6. faults \in Nat BY SurroundingsAssumption
  <1>7. CASE \E j \in VMIDs : TaskDone(j)
    BY <1>1, <1>2, <1>3, <1>7 DEF VMs
  <1>8. CASE ~\E j \in VMIDs : TaskDone(j)
    <2>1. faults' = faults + 1 /\ (vms'[i].st = "deleting" => vms[i].st = "deleting")
      BY <1>1, <1>4, <1>5, <1>8 DEF Hypervisor
    <2> QED BY <1>6, <2>1
  <1> QED BY <1>7, <1>8

\* What the provider does to the VM that Create works on.
LEMMA ProviderOwn ==
    ASSUME Inv, OwnInv, ProviderStep
    PROVE  OwnInv'
  <1> SUFFICES ASSUME rec.pc = "creating", call'.pid # NoPID,
                      call'.pc \notin {"nextid", "clone"}
               PROVE  OwnInv'
    BY DEF OwnInv, ProviderStep, workVars
  <1>1. ProviderTypeOK /\ UNCHANGED rec BY TypeParts DEF Inv, ProviderStep, workVars
  <1>2. Create /\ call.pc \in CreatePC
    <2>1. call.pc \in CreatePC \cup {"returned"} BY DEF Inv, CreateAttended
    <2> QED BY <2>1 DEF ProviderStep, Provider, Create, Configure, Delete, Get, NextID, Clone,
              CloneReplyLost, CloneFails, Fails, Await, Lookup, ConfigureNothing, Act, Find,
              DeletePC, CreatePC
  <1>3. call \in Calls /\ vms \in [VMIDs -> VMs] /\ faults \in Nat
    BY <1>1, SurroundingsAssumption DEF ProviderTypeOK
  <1>4. faults' \in {faults, faults + 1}
    BY <1>2 DEF Create, Configure, NextID, Clone, CloneReplyLost, CloneFails, Fails, Await,
               Lookup, ConfigureNothing, Act, Fault
  <1>5. CASE call.pc = "nextid"
    BY <1>2, <1>3, <1>5 DEF Create, Configure, NextID, Clone, CloneReplyLost, CloneFails, Fails,
              Await, Lookup, ConfigureNothing, Act, Calls, Return
  <1>6. CASE call.pc = "clone"
    <2>1. Clone /\ StartClone /\ Goto("waitclone")
      BY <1>2, <1>3, <1>6 DEF Create, Configure, NextID, Clone, CloneReplyLost, CloneFails,
              Fails, Await, Lookup, ConfigureNothing, Act, Calls, Return
    <2>2. call'.pid = call.pid /\ call.pid.vmid \in VMIDs /\ call.name = rec.claim
      BY <1>1, <1>2, <1>3, <1>6, <2>1, CallNamesVM DEF Goto, CallPC, CreatePC, Calls, Inv, CreateAttended
    <2>3. Owned' BY <1>1, <1>3, <2>1, <2>2 DEF StartClone, Owned
    <2> QED BY <2>3 DEF OwnInv
  <1>7. CASE call.pc \notin {"nextid", "clone"}
    <2>1. call.pid \in PIDs /\ call.pid.vmid \in VMIDs /\ call.pid # NoPID
      BY <1>1, <1>2, <1>7, CallNamesVM, SurroundingsAssumption DEF CallPC, CreatePC
    <2>2. call'.pid = call.pid
      <3>1. Advances BY <1>1, ProviderType DEF ProviderStep
      <3> QED BY <1>7, <3>1 DEF Advances
    <2> DEFINE i == call.pid.vmid
    <2>3. vms'[i].name = vms[i].name
      <3>1. Names BY <1>1, ProviderType DEF ProviderStep
      <3> QED BY <1>7, <2>1, <3>1 DEF Names
    <2>4. vms[i].st \notin {"none", "deleting"} => vms'[i].st \notin {"none", "deleting"}
      <3>1. \/ UNCHANGED vms
            \/ \E st \in {"configuring", "seeded", "starting"} :
                    vms' = [vms EXCEPT ![call.pid.vmid].st = st]
        BY <1>2, <1>7 DEF Create, Configure, NextID, Clone, CloneReplyLost, CloneFails,
                  Fails, Await, Lookup, ConfigureNothing, Act
      <3>2. CASE UNCHANGED vms BY <3>2
      <3>3. ASSUME NEW st \in {"configuring", "seeded", "starting"},
                   vms' = [vms EXCEPT ![call.pid.vmid].st = st]
            PROVE  vms'[i].st = st
        BY <1>3, <2>1, <3>3 DEF VMs
      <3> QED BY <3>1, <3>2, <3>3
    <2>5. Owned => Owned' BY <1>1, <2>2, <2>3, <2>4 DEF Owned
    <2>6. CASE Owned BY <2>5, <2>6 DEF OwnInv
    <2>7. CASE vms[i].name = NoName /\ faults = 1
      BY <1>3, <1>4, <2>2, <2>3, <2>7 DEF OwnInv
    <2>8. CASE faults >= 2 BY <1>3, <1>4, <2>8 DEF OwnInv
    <2> QED BY <1>7, <2>1, <2>6, <2>7, <2>8 DEF OwnInv
  <1> QED BY <1>5, <1>6, <1>7

\* OwnInv is inductive beside Inv.
LEMMA OwnStep ==
    ASSUME Inv, OwnInv, [Next]_vars
    PROVE  OwnInv'
  <1>1. ProviderTypeOK /\ faults \in Nat
    BY TypeParts, SurroundingsAssumption DEF Inv, ProviderTypeOK
  <1>2. CASE ProviderStep BY <1>2, ProviderOwn
  <1>3. CASE Controller /\ ~ProviderStep
    <2>1. \/ rec'.pc # "creating"
          \/ call'.pc = "nextid"
      <3> DEFINE o == [rec.obj EXCEPT !.fin = TRUE]
      <3>1. Done(TRUE) \/ Done(FALSE) \/ Done(~rec.nodeReady) => rec'.pc = "idle"
        BY DEF Done, NoRec
      <3>2. \A pc : Step(pc) => rec'.pc = pc BY DEF Step, Inv, TypeOK
      <3>3. RenderCloudInit => call'.pc = "nextid" \/ Done(TRUE)
        BY DEF RenderCloudInit, BeginCreate, NoCall
      <3>4. AddFinalizer => rec'.pc = "resolve" \/ Done(TRUE)
        <4>1. rec' = [rec EXCEPT !.pc = "resolve", !.obj = o] => rec'.pc = "resolve"
          BY DEF Inv, TypeOK
        <4> HIDE DEF o
        <4>2. AddFinalizer => \/ Step("resolve") \/ Done(TRUE)
                              \/ rec' = [rec EXCEPT !.pc = "resolve", !.obj = o]
          BY DEF AddFinalizer, o
        <4> QED BY <3>2, <4>1, <4>2
      <3>5. ReadNode => rec'.pc \in {"label", "condition"} \/ Done(TRUE)
        BY DEF ReadNode, Inv, TypeOK
      <3>6. ASSUME \/ ResolveProvider \/ RecordProviderID \/ NodeNotRegistered \/ LabelNode
                   \/ SetReady \/ ReconcileDelete \/ VerifyDeleted \/ ConfirmGone
                   \/ RemoveFinalizer
            PROVE  \/ Done(TRUE) \/ Done(FALSE) \/ Done(~rec.nodeReady)
                   \/ \E pc \in RecPC \ {"creating"} : Step(pc)
        BY <3>6, Zenon DEF ResolveProvider, RecordProviderID, NodeNotRegistered, LabelNode,
               SetReady, ReconcileDelete, VerifyDeleted, ConfirmGone, RemoveFinalizer, RecPC
      <3> QED BY <1>3, <3>1, <3>2, <3>3, <3>4, <3>5, <3>6 DEF Controller
    <2> QED BY <2>1 DEF OwnInv
  <1>4. CASE HypervisorStep
    <2>1. UNCHANGED <<call, rec>> /\ Hypervisor
      BY <1>1, <1>4, HypervisorEffect DEF HypervisorStep, workVars
    <2> SUFFICES ASSUME rec.pc = "creating", call.pid # NoPID,
                        call.pc \notin {"nextid", "clone"}
                 PROVE  OwnInv'
      BY <2>1 DEF OwnInv
    <2> DEFINE i == call.pid.vmid
    <2>2. i \in VMIDs BY <1>1 DEF ProviderTypeOK, Calls, PIDs
    <2>3. /\ faults' \in {faults, faults + 1}
          /\ vms'[i].st = "deleting" => vms[i].st = "deleting"
          /\ faults' = faults /\ vms[i].st # "deleting" =>
                /\ vms'[i].name = vms[i].name
                /\ vms'[i].st = "none" <=> vms[i].st = "none"
          /\ faults' = faults /\ vms[i].name = NoName => vms'[i].name = NoName
      BY <1>1, <2>1, <2>2, HypervisorMishap
    <2>4. Turns(i) BY <1>1, <2>1, <2>2, HypervisorEffect
    <2>5. CASE Owned
      <3>1. CASE faults' = faults BY <2>1, <2>3, <2>5, <3>1 DEF Owned, OwnInv
      <3>2. CASE faults' = faults + 1
        <4>1. vms'[i].name = NoName \/ Owned'
          BY <2>1, <2>3, <2>4, <2>5 DEF Turns, Owned, NoVM
        <4>2. faults' = 1 \/ faults' >= 2 BY <1>1, <3>2
        <4> QED BY <2>1, <4>1, <4>2 DEF OwnInv
      <3> QED BY <2>3, <3>1, <3>2
    <2>6. CASE vms[i].name = NoName /\ faults = 1
      BY <2>1, <2>3, <2>6 DEF OwnInv
    <2>7. CASE faults >= 2 BY <1>1, <2>3, <2>7 DEF OwnInv
    <2> QED BY <2>5, <2>6, <2>7 DEF OwnInv
  <1>5. CASE Crash \/ \E c \in Claims : Reconcile(c)
    <2>1. rec'.pc # "creating"
      <3>1. Crash => rec'.pc = "idle" BY DEF Crash, NoRec
      <3>2. ASSUME NEW c \in Claims, Reconcile(c) PROVE rec'.pc # "creating"
        <4>1. \/ rec.pc = "idle" /\ UNCHANGED rec
              \/ \E pc \in {"delete", "finalizer"} :
                      rec' = [NoRec EXCEPT !.pc = pc, !.claim = c, !.obj = Cached(c)]
          BY <3>2 DEF Reconcile, At
        <4> QED BY <4>1 DEF NoRec
      <3> QED BY <1>5, <3>1, <3>2
    <2> QED BY <2>1 DEF OwnInv
  <1>6. CASE \/ Cluster /\ ~HypervisorStep
             \/ \E c \in Claims : WatchEvent(c)
             \/ UNCHANGED vars
    <2>1. UNCHANGED <<vms, call, rec>> /\ faults' \in {faults, faults + 1}
      BY <1>6 DEF Cluster, CreateClaim, DeleteClaim, HolderReleases, Annotate, JoinNode,
             KubeletReady, KubeletLost, RemoveNode, DeletePool, PoolGone, Apply, Withdraw,
             WatchEvent, Fault, vars, providerVars, workVars
    <2> QED BY <1>1, <2>1 DEF OwnInv, Owned
  <1> QED BY <1>2, <1>3, <1>4, <1>5, <1>6 DEF Next

\* One mishap, whichever it is and whenever it happens, never makes Create work on a VM
\* of somebody else or return its providerID, although NextID reserves no VMID.
THEOREM CreateOwn == Spec => []CreateKeepsOwn
  <1>1. Init => OwnInv BY DEF Init, OwnInv, NoRec
  <1>2. TypeOK /\ OwnInv => CreateKeepsOwn
    BY SurroundingsAssumption DEF OwnInv, Owned, CreateKeepsOwn, TypeOK, ProviderTypeOK
  <1>3. Inv /\ OwnInv /\ [Next]_vars => OwnInv' BY OwnStep
  <1>4. Inv => TypeOK BY DEF Inv
  <1> QED BY <1>1, <1>2, <1>3, <1>4, Invariance, PTL DEF Spec

=============================================================================
