-------------------------- MODULE ProvisionerProofs --------------------------
(***************************************************************************)
(* Provisioner: its types, the two bounds of scaleUp (the limit of the     *)
(* pool, one claim in flight per pod) and the refinement of the promise    *)
(* between the controllers, for any claims, pods, limit and grace period.  *)
(***************************************************************************)
EXTENDS Provisioner, ClaimStoreProofs, FiniteSetTheorems

-----------------------------------------------------------------------------
(* What time, restarts and new names do to the store *)

\* A tick changes an object in its annotation only.
LEMMA OlderKeeps ==
    ASSUME NEW o \in Objects
    PROVE  /\ Older(o) \in Objects
           /\ Older(o).phase = o.phase /\ Older(o).fin = o.fin /\ Older(o).del = o.del
           /\ Older(o).pid = o.pid /\ Older(o).ready = o.ready
           /\ Older(o).since = IF o.since \in 0 .. (Grace - 1) THEN o.since + 1 ELSE o.since
  <1>1. Grace \in Nat \ {0} /\ Times = (0 .. Grace) \cup {Corrupt} BY ProvisionerAssumption
  <1>2. o.since \in 0 .. (Grace - 1) => o.since + 1 \in Times BY <1>1
  <1> QED BY <1>2 DEF Older, Objects

\* Every version of every claim ages.
LEMMA TickEffect ==
    ASSUME StoreTypeOK, Tick
    PROVE  /\ StoreTypeOK'
           /\ \A c \in Claims : Server(c)' = Older(Server(c)) /\ Cached(c)' = Older(Cached(c))
           /\ \A c \in Claims : Len(log'[c]) = Len(log[c])
  <1>1. ASSUME NEW c \in Claims
        PROVE  /\ log'[c] \in Seq(Objects) /\ Len(log'[c]) = Len(log[c])
               /\ \A i \in 1 .. Len(log[c]) : log'[c][i] = Older(log[c][i])
               /\ Len(log[c]) \in 1 .. (MaxLag + 1)
    <2>1. log[c] \in Seq(Objects) /\ Len(log[c]) \in Nat BY DEF StoreTypeOK
    <2>2. log'[c] = [i \in 1 .. Len(log[c]) |-> Older(log[c][i])] BY DEF Tick
    <2>3. \A i \in 1 .. Len(log[c]) : Older(log[c][i]) \in Objects BY <2>1, OlderKeeps
    <2> QED BY <2>1, <2>2, <2>3 DEF StoreTypeOK
  <1>2. log' \in [Claims -> Seq(Objects)] BY <1>1 DEF Tick
  <1>3. MaxLag \in Nat BY StoreAssumption
  <1>4. \A c \in Claims : Len(log[c]) \in 1 .. Len(log[c]) /\ 1 \in 1 .. Len(log[c])
    BY <1>1, <1>3
  <1> QED BY <1>1, <1>2, <1>4 DEF StoreTypeOK, Server, Cached, Tick

\* A restart leaves the server's versions.
LEMMA RelistEffect ==
    ASSUME StoreTypeOK, Relist
    PROVE  StoreTypeOK' /\ \A c \in Claims : Server(c)' = Server(c)
  <1>1. \A c \in Claims : log'[c] = <<Server(c)>> BY DEF Relist
  <1>2. \A c \in Claims : Len(log'[c]) = 1 /\ log'[c][1] = Server(c) BY <1>1
  <1>a. \A o \in Objects : <<o>> \in Seq(Objects) OBVIOUS
  <1>3. \A c \in Claims : log'[c] \in Seq(Objects) BY <1>1, <1>a, ServerType
  <1>4. log' \in [Claims -> Seq(Objects)] BY <1>3 DEF Relist
  <1>5. 1 \in 1 .. (MaxLag + 1) BY StoreAssumption
  <1> QED BY <1>2, <1>4, <1>5 DEF StoreTypeOK, Server, Relist

\* Before anything is written every object has its type.
LEMMA UnbornType == Unborn \in Objects /\ [Unborn EXCEPT !.phase = "live"] \in Objects
  BY DEF Unborn, Objects

\* A name that is forgotten is blank.
LEMMA ForgetEffect ==
    ASSUME StoreTypeOK, NEW c \in Claims, ForgetName(c)
    PROVE  /\ StoreTypeOK'
           /\ Server(c)' = Unborn
           /\ \A d \in Claims \ {c} : Server(d)' = Server(d)
  <1>1. log' = [log EXCEPT ![c] = <<Unborn>>] BY DEF ForgetName
  <1>2. log'[c] = <<Unborn>> /\ \A d \in Claims \ {c} : log'[d] = log[d]
    BY <1>1 DEF StoreTypeOK
  <1>3. log' \in [Claims -> Seq(Objects)] BY <1>1, UnbornType DEF StoreTypeOK
  <1>4. Len(log'[c]) = 1 /\ log'[c][1] = Unborn BY <1>2
  <1>5. 1 \in 1 .. (MaxLag + 1) BY StoreAssumption
  <1> QED BY <1>2, <1>3, <1>4, <1>5 DEF StoreTypeOK, Server, ForgetName
-----------------------------------------------------------------------------
(* Types *)

\* The sets the provisioner counts are finite.
LEMMA Finite ==
    /\ Cardinality(Pods) \in Nat /\ Cardinality(Selecting) \in Nat
    /\ \A S \in SUBSET Claims : IsFiniteSet(S) /\ Cardinality(S) \in Nat
    /\ \A S, T \in SUBSET Claims : S \subseteq T => Cardinality(S) <= Cardinality(T)
    /\ Cardinality(PendingPods) \in 0 .. Cardinality(Selecting)
    /\ Cardinality(PendingPods) \in 0 .. Cardinality(Pods)
  <1>1. IsFiniteSet(Pods) /\ IsFiniteSet(Claims) BY ProvisionerAssumption
  <1>2. \A S \in SUBSET Claims : IsFiniteSet(S) /\ Cardinality(S) \in Nat
    BY <1>1, FS_Subset, FS_CardinalityType
  <1>3. \A S, T \in SUBSET Claims : S \subseteq T => Cardinality(S) <= Cardinality(T)
    BY <1>2, FS_Subset
  <1>4. Selecting \subseteq Pods /\ PendingPods \subseteq Selecting /\ PendingPods \subseteq Pods
    BY DEF Selecting, PendingPods
  <1>5. IsFiniteSet(Selecting) BY <1>1, <1>4, FS_Subset
  <1>6. /\ Cardinality(Pods) \in Nat /\ Cardinality(Selecting) \in Nat
        /\ Cardinality(PendingPods) \in Nat
    BY <1>1, <1>4, <1>5, FS_Subset, FS_CardinalityType
  <1>7. /\ Cardinality(PendingPods) <= Cardinality(Selecting)
        /\ Cardinality(PendingPods) <= Cardinality(Pods)
    BY <1>1, <1>4, <1>5, FS_Subset
  <1> QED BY <1>2, <1>3, <1>6, <1>7

\* scaleUp never creates more claims than there are pods without a claim in flight, and
\* no more than the limit leaves room for.
LEMMA NeededBounds ==
    ASSUME NEW pending \in Nat, NEW copy
    PROVE  /\ Needed(pending, copy) \in 0 .. pending
           /\ \/ Needed(pending, copy) = 0
              \/ Needed(pending, copy) + Cardinality(InFlight(copy)) <= pending
           /\ \/ Needed(pending, copy) = 0 \/ Limit = 0
              \/ Cardinality(Listed(copy)) + Needed(pending, copy) <= Limit
  <1>1. Listed(copy) \in SUBSET Claims /\ InFlight(copy) \in SUBSET Claims
    BY DEF Listed, InFlight
  <1>2. Cardinality(Listed(copy)) \in Nat /\ Cardinality(InFlight(copy)) \in Nat
    BY <1>1, Finite
  <1>3. Limit \in Nat BY ProvisionerAssumption
  <1> DEFINE l == Cardinality(Listed(copy))
             f == Cardinality(InFlight(copy))
  <1> HIDE DEF l, f
  <1>4. l \in Nat /\ f \in Nat BY <1>2 DEF l, f
  <1>5. LET wanted == pending - f
            capped == IF Limit > 0 /\ l + wanted > Limit THEN Limit - l ELSE wanted
        IN  Needed(pending, copy) = IF pending = 0 \/ capped < 0 THEN 0 ELSE capped
    BY DEF Needed, l, f
  <1> QED BY <1>3, <1>4, <1>5 DEF l, f

\* Types of the idle reconcile and of a write by others.
LEMMA NoProvType ==
    /\ NoProv \in [pc: ProvPC,
                   pending: 0 .. Cardinality(Pods), copy: [Claims -> Objects],
                   needed: 0 .. Cardinality(Pods), todo: SUBSET Claims,
                   victim: Claims \cup {NoName}]
    /\ NoProv.pc = "idle" /\ NoProv.needed = 0 /\ NoProv.pending = 0 /\ NoProv.todo = {}
  <1>1. [c \in Claims |-> Unborn] \in [Claims -> Objects] BY UnbornType
  <1>2. 0 \in 0 .. Cardinality(Pods) BY Finite
  <1> QED BY <1>1, <1>2 DEF NoProv, ProvPC

LEMMA StoreOtherType ==
    ASSUME StoreTypeOK, NEW c \in Claims, NEW o \in Objects, StoreOther(c, o)
    PROVE  StoreTypeOK'
  <1>1. current' \subseteq Claims BY DEF StoreOther, StoreTypeOK
  <1> QED BY <1>1, StoreType DEF StoreOther
-----------------------------------------------------------------------------
(* What a step writes *)

\* The writes to a claim: scaleUp creates it, ...
Creation(c, o) ==
    /\ prov.needed > 0 /\ prov'.needed <= prov.needed - 1
    /\ Server(c).phase = "unborn" /\ o = [Unborn EXCEPT !.phase = "live"]

\* ... scaleDown annotates and deletes it, ...
Annotation(c, o) ==
    /\ Server(c).phase = "live"
    /\ \E t \in Times \cup {NoTime} :
        /\ o = [Server(c) EXCEPT !.since = t]
        /\ \/ t = NoTime /\ ClearEmptySince /\ c = prov.victim
           \/ t = 0 /\ c \notin prov'.todo
           \/ t = Corrupt /\ Server(c).since # NoTime

Deletion(c, o) ==
    /\ Server(c).phase = "live" /\ ~Server(c).del
    /\ o = Deleted(Server(c), FALSE)

\* ... and the claim controller serves and releases it.
Service(c, o) ==
    /\ Server(c).phase = "live" /\ ~Server(c).del
    /\ \/ ~Server(c).fin /\ o = [Server(c) EXCEPT !.fin = TRUE]
       \/ /\ Server(c).fin /\ Server(c).pid = NoPID
          /\ \E p \in PIDs : o = [Server(c) EXCEPT !.pid = p]
       \/ /\ Server(c).fin /\ node[c] = "Ready"
          /\ o = [Server(c) EXCEPT !.ready = "NodeReady"]

Removal(c, o) ==
    /\ Server(c).phase = "live" /\ Server(c).fin /\ Server(c).del
    /\ o = [Server(c) EXCEPT !.fin = FALSE, !.phase = "gone"]

Write(c, o) ==
    \/ (Creation(c, o) \/ Annotation(c, o) \/ Deletion(c, o) \/ Service(c, o)) /\ UNCHANGED node
    \/ Removal(c, o) /\ node' = [node EXCEPT ![c] = IF @ = "none" THEN @ ELSE "NotReady"]

\* Whatever is written has its type.
LEMMA WriteType ==
    ASSUME StoreTypeOK, NEW c \in Claims, NEW o, Write(c, o)
    PROVE  o \in Objects
  <1>1. Server(c) \in Objects BY ServerType
  <1>2. CASE Creation(c, o) BY <1>2, UnbornType DEF Creation
  <1>3. CASE Annotation(c, o) BY <1>1, <1>3 DEF Annotation, Objects
  <1>4. CASE Deletion(c, o) BY <1>1, <1>4 DEF Deletion, Deleted, Objects
  <1>5. CASE Service(c, o) BY <1>1, <1>5 DEF Service, Objects
  <1>6. CASE Removal(c, o) BY <1>1, <1>6 DEF Removal, Objects
  <1> QED BY <1>2, <1>3, <1>4, <1>5, <1>6 DEF Write

\* The steps that change the store.
LEMMA StoreSteps ==
    ASSUME TypeOK, [Next]_vars
    PROVE  \/ UNCHANGED storeVars /\ (UNCHANGED node \/ \E c \in Claims : RegisterNode(c))
           \/ \E c \in Claims : \E o : StoreOther(c, o) /\ Write(c, o)
           \/ UNCHANGED <<current, node>> /\ \E c \in Claims : Observe(c)
           \/ UNCHANGED node /\ Relist
           \/ \E c \in Claims : ForgetName(c)
           \/ Tick
  <1>1. CASE CreateClaim
    <2>1. CASE NewClaim
      <3>1. PICK c \in Claims : /\ Server(c).phase = "unborn"
                                /\ StoreOther(c, [Unborn EXCEPT !.phase = "live"])
        BY <2>1 DEF NewClaim
      <3>2. prov'.needed <= prov.needed - 1
        BY <1>1, <2>1, NoProvType, Finite DEF CreateClaim, Fail, TypeOK
      <3> QED BY <1>1, <3>1, <3>2 DEF CreateClaim, Creation, Write, nodeVars
    <2> QED BY <1>1, <2>1 DEF CreateClaim, nodeVars
  <1>3. CASE ClearEmptySince
    <2>1. prov.victim \in Claims BY <1>3 DEF ClearEmptySince, TypeOK, AtClaim
    <2>2. UNCHANGED node BY <1>3 DEF ClearEmptySince, nodeVars
    <2>3. UNCHANGED storeVars \/ Patch(prov.victim, NoTime)
      BY <1>3 DEF ClearEmptySince, PatchFails, storeVars
    <2>4. NoTime \in Times \cup {NoTime} OBVIOUS
    <2>5. CASE UNCHANGED storeVars BY <2>2, <2>5
    <2>6. CASE Patch(prov.victim, NoTime)
      <3>1. Annotation(prov.victim, [Server(prov.victim) EXCEPT !.since = NoTime])
        BY <1>3, <2>4, <2>6, Zenon DEF Patch, Annotation
      <3> QED BY <2>1, <2>2, <2>6, <3>1 DEF Patch, Write
    <2> QED BY <2>3, <2>5, <2>6
  <1>4. CASE MarkEmptyAndCheckGrace
    <2> DEFINE c == prov.victim
    <2>1. 0 \in Times BY ProvisionerAssumption
    <2>2. c \in Claims BY <1>4 DEF MarkEmptyAndCheckGrace, TypeOK, AtClaim
    <2>3. UNCHANGED node BY <1>4 DEF MarkEmptyAndCheckGrace, nodeVars
    <2>4. UNCHANGED storeVars \/ (Patch(c, 0) /\ NextClaim(c))
      BY <1>4 DEF MarkEmptyAndCheckGrace, PatchFails, storeVars
    <2>5. NextClaim(c) => c \notin prov'.todo BY DEF NextClaim, TypeOK
    <2>6. CASE UNCHANGED storeVars BY <2>3, <2>6
    <2>7. CASE Patch(c, 0) /\ NextClaim(c)
      <3>1. Annotation(c, [Server(c) EXCEPT !.since = 0])
        BY <2>1, <2>5, <2>7 DEF Patch, Annotation
      <3> QED BY <2>2, <2>3, <2>7, <3>1 DEF Patch, Write
    <2> QED BY <2>4, <2>6, <2>7
  <1>5. CASE DeleteIdle
    BY <1>5 DEF DeleteIdle, DeleteRequest, TypeOK, AtClaim, Deletion, Write, storeVars, nodeVars
  <1>6. CASE \E c \in Claims : AdoptClaim(c) \/ LaunchMachine(c) \/ ReportReady(c)
    BY <1>6 DEF AdoptClaim, LaunchMachine, ReportReady, Service, Write, nodeVars
  <1>7. CASE \E c \in Claims : ReleaseClaim(c)
    BY <1>7 DEF ReleaseClaim, Removal, Write
  <1>8. CASE \E c \in Claims : CorruptAnnotation(c)
    <2>1. Corrupt \in Times BY ProvisionerAssumption
    <2> QED BY <1>8, <2>1 DEF CorruptAnnotation, Annotation, Write, nodeVars
  <1>9. CASE \E c \in Claims : WatchEvent(c) BY <1>9 DEF WatchEvent, nodeVars
  <1>10. CASE Crash BY <1>10 DEF Crash, nodeVars
  <1>11. CASE \/ PendingPodsForPool \/ ClaimsForPool \/ ScaledUp \/ Reconciled \/ ReadFails
              \/ \E c \in Claims : KeepClaim(c) \/ SkipDeleting(c) \/ FoundEmpty(c)
              \/ DeletePool
              \/ UNCHANGED vars
    BY <1>11 DEF PendingPodsForPool, ClaimsForPool, ScaledUp, Reconciled, ReadFails,
                 KeepClaim, SkipDeleting, FoundEmpty, Decide, DeletePool, vars, storeVars, nodeVars
  <1>12. CASE \E p \in Pods : \/ PodPending(p) \/ PodLeaves(p) \/ PodGone(p)
                              \/ \E c \in Claims : BindPod(p, c)
    BY <1>12 DEF PodPending, PodLeaves, PodGone, BindPod, storeVars, nodeVars
  <1>13. CASE \E c \in Claims : RegisterNode(c) BY <1>13 DEF RegisterNode
  <1> QED BY <1>1, <1>3, <1>4, <1>5, <1>6, <1>7, <1>8, <1>9, <1>10, <1>11, <1>12, <1>13
          DEF Next, Operate, Reconcile, ServeClaim
-----------------------------------------------------------------------------
(* Type correctness *)

\* A step leaves the store well typed.
LEMMA StoreStaysTyped ==
    ASSUME TypeOK, [Next]_vars
    PROVE  StoreTypeOK'
  <1>0. StoreTypeOK BY DEF TypeOK
  <1>1. CASE UNCHANGED storeVars BY <1>0, <1>1 DEF storeVars, StoreTypeOK
  <1>2. CASE \E c \in Claims : \E o : StoreOther(c, o) /\ Write(c, o)
    BY <1>0, <1>2, WriteType, StoreOtherType
  <1>3. CASE UNCHANGED current /\ \E c \in Claims : Observe(c)
    BY <1>0, <1>3, ObserveEffect DEF StoreTypeOK
  <1> QED BY <1>0, <1>1, <1>2, <1>3, StoreSteps, RelistEffect, ForgetEffect, TickEffect

\* The records a reconcile can be in.
Provs == [pc: ProvPC,
          pending: 0 .. Cardinality(Pods), copy: [Claims -> Objects],
          needed: 0 .. Cardinality(Pods), todo: SUBSET Claims,
          victim: Claims \cup {NoName}]

\* The reconcile stays well typed.  Only its first two steps, which count pods and
\* claims, make it look for more.
LEMMA ProvSteps ==
    ASSUME TypeOK, [Next]_vars
    PROVE  /\ prov' \in Provs /\ (prov'.pc \in AtClaim => prov'.victim \in Claims)
           /\ \/ PendingPodsForPool \/ ClaimsForPool
              \/ prov'.needed \in 0 .. prov.needed /\ prov'.pending \in {0, prov.pending}
  <1>1. /\ prov \in Provs /\ (prov.pc \in AtClaim => prov.victim \in Claims)
        /\ prov.needed \in Nat /\ prov.pending \in Nat
    BY Finite DEF TypeOK, Provs
  <1>2. NoProv \in Provs /\ NoProv.pc = "idle" /\ NoProv.needed = 0 /\ NoProv.pending = 0
    BY NoProvType DEF Provs
  <1>3. CASE prov' = prov BY <1>1, <1>3
  <1>4. CASE prov' = NoProv BY <1>1, <1>2, <1>4 DEF AtClaim
  <1>a. /\ \A pc \in ProvPC : \A q \in Provs : [q EXCEPT !.pc = pc] \in Provs
        /\ \A v \in Claims \cup {NoName} : \A q \in Provs : [q EXCEPT !.victim = v] \in Provs
        /\ \A S \in SUBSET Claims : \A q \in Provs : [q EXCEPT !.todo = S] \in Provs
    BY DEF Provs
  <1>b. ASSUME NEW c \in Claims, NEW pc \in AtClaim, prov' = [prov EXCEPT !.pc = pc, !.victim = c]
        PROVE  /\ prov' \in Provs /\ prov'.victim = c
               /\ prov'.needed = prov.needed /\ prov'.pending = prov.pending
    <2>1. prov' = [[prov EXCEPT !.pc = pc] EXCEPT !.victim = c] BY <1>1, <1>b DEF Provs
    <2>2. prov' \in Provs BY <1>1, <1>a, <2>1 DEF ProvPC
    <2> QED BY <1>1, <1>b, <2>2 DEF Provs
  <1>5. ASSUME NEW c \in Claims, NextClaim(c)
        PROVE  /\ prov' \in Provs /\ prov'.pc = "scaleDown"
               /\ prov'.needed = prov.needed /\ prov'.pending = prov.pending
    <2>1. prov' = [[[prov EXCEPT !.pc = "scaleDown"] EXCEPT !.victim = NoName]
                        EXCEPT !.todo = prov.todo \ {c}]
      BY <1>1, <1>5 DEF NextClaim, Provs
    <2>2. prov.todo \ {c} \in SUBSET Claims BY <1>1 DEF Provs
    <2>3. prov' \in Provs BY <1>1, <1>a, <2>1, <2>2 DEF ProvPC
    <2> QED BY <1>1, <1>5, <2>3 DEF NextClaim, Provs
  <1>6. CASE PendingPodsForPool
    BY <1>2, <1>6, Finite DEF PendingPodsForPool, Provs, ProvPC, AtClaim
  <1>7. CASE ClaimsForPool
    <2>1. [c \in Claims |-> Cached(c)] \in [Claims -> Objects]
      BY ServerType DEF TypeOK
    <2>2. Needed(prov.pending, [c \in Claims |-> Cached(c)]) \in 0 .. prov.pending
      BY <1>1, NeededBounds
    <2>3. Needed(prov.pending, [c \in Claims |-> Cached(c)]) \in 0 .. Cardinality(Pods)
      BY <1>1, <2>2, Finite DEF Provs
    <2>4. Listed([c \in Claims |-> Cached(c)]) \in SUBSET Claims BY DEF Listed
    <2> QED BY <1>1, <1>7, <2>1, <2>3, <2>4 DEF ClaimsForPool, Provs, ProvPC, AtClaim
  <1>8. CASE CreateClaim
    <2>1. CASE prov' = [prov EXCEPT !.needed = @ - 1]
      <3>1. prov.pc = "scaleUp" /\ prov.needed - 1 \in 0 .. prov.needed
        BY <1>1, <1>8 DEF CreateClaim
      <3>2. prov.needed - 1 \in 0 .. Cardinality(Pods) BY <1>1, <3>1, Finite DEF Provs
      <3> QED BY <1>1, <2>1, <3>1, <3>2 DEF Provs
    <2> QED BY <1>4, <1>8, <2>1 DEF CreateClaim, Fail
  <1>9. CASE ScaledUp BY <1>1, <1>9 DEF ScaledUp, Provs, ProvPC, AtClaim
  <1>10. CASE \E c \in Claims : KeepClaim(c) \/ SkipDeleting(c) \/ FoundEmpty(c)
    <2>1. PICK c \in Claims : KeepClaim(c) \/ SkipDeleting(c) \/ FoundEmpty(c) BY <1>10
    <2>2. CASE NextClaim(c) BY <1>1, <1>5, <2>2 DEF AtClaim
    <2>3. ASSUME NEW pc \in {"clear", "mark"}, Decide(c, pc)
          PROVE  /\ prov' \in Provs /\ prov'.victim = c
                 /\ prov'.needed = prov.needed /\ prov'.pending = prov.pending
      BY <1>b, <2>3 DEF Decide, AtClaim
    <2> QED BY <1>1, <2>1, <2>2, <2>3 DEF KeepClaim, SkipDeleting, FoundEmpty
  <1>11. CASE ClearEmptySince
    BY <1>1, <1>5, <1>11 DEF ClearEmptySince, AtClaim
  <1>12. CASE MarkEmptyAndCheckGrace
    <2>1. prov.victim \in Claims BY <1>1, <1>12 DEF MarkEmptyAndCheckGrace, AtClaim
    <2>2. CASE prov' = [prov EXCEPT !.pc = "delete"]
      <3>1. prov' \in Provs BY <1>1, <1>a, <2>2 DEF ProvPC, AtClaim
      <3> QED BY <1>1, <2>1, <2>2, <3>1 DEF Provs
    <2>3. CASE NextClaim(prov.victim) BY <1>1, <1>5, <2>1, <2>3 DEF AtClaim
    <2> QED BY <1>4, <1>12, <2>2, <2>3 DEF MarkEmptyAndCheckGrace, Fail
  <1>14. CASE DeleteIdle
    <2>1. prov.victim \in Claims BY <1>1, <1>14 DEF DeleteIdle, AtClaim
    <2>2. CASE NextClaim(prov.victim) BY <1>1, <1>5, <2>1, <2>2 DEF AtClaim
    <2> QED BY <1>4, <1>14, <2>2 DEF DeleteIdle, Fail
  <1>13. CASE Tick
    <2>1. [c \in Claims |-> Older(prov.copy[c])] \in [Claims -> Objects]
      BY <1>1, OlderKeeps DEF Provs
    <2>2. prov' = [prov EXCEPT !.copy = [c \in Claims |-> Older(prov.copy[c])]]
      BY <1>13 DEF Tick
    <2> QED BY <1>1, <2>1, <2>2 DEF Provs
  <1> QED BY <1>3, <1>4, <1>6, <1>7, <1>8, <1>9, <1>10, <1>11, <1>12, <1>13,
              <1>14
          DEF Next, Operate, Reconcile, Reconciled, ReadFails, Fail, ServeClaim, WatchEvent, Crash,
              AdoptClaim, LaunchMachine, RegisterNode, ReportReady, ReleaseClaim, ForgetName, PodPending,
              BindPod, PodLeaves, PodGone, CorruptAnnotation, DeletePool, vars
\* The pods stay well typed.
LEMMA PodSteps ==
    ASSUME TypeOK, [Next]_vars
    PROVE  pods' \in [Pods -> PodStates]
  <1>1. pods \in [Pods -> PodStates] /\ NoPod \in PodStates BY DEF TypeOK, NoPod, PodStates
  <1>2. ASSUME NEW p \in Pods, NEW q \in PodStates, pods' = [pods EXCEPT ![p] = q]
        PROVE  pods' \in [Pods -> PodStates]
    BY <1>1, <1>2
  <1>3. CASE \E c \in Claims : ReleaseClaim(c) BY <1>1, <1>3 DEF ReleaseClaim, Evict
  <1>4. CASE \E p \in Pods : PodPending(p)
    <2>1. PICK p \in Pods : PodPending(p) BY <1>4
    <2>2. pods[p] \in PodStates BY <1>1
    <2>3. [pods[p] EXCEPT !.st = "unschedulable"] \in PodStates
      BY <2>1, <2>2 DEF PodPending, PodStates
    <2> QED BY <1>1, <1>2, <2>1, <2>3 DEF PodPending
  <1>5. CASE \E p \in Pods, c \in Claims : BindPod(p, c)
    BY <1>1, <1>2, <1>5 DEF BindPod, PodStates
  <1>6. CASE \E p \in Pods : PodLeaves(p)
    <2>1. PICK p \in Pods : PodLeaves(p) BY <1>6
    <2>2. pods[p] \in PodStates BY <1>1
    <2>3. [pods[p] EXCEPT !.st = "leaving"] \in PodStates
      BY <2>1, <2>2 DEF PodLeaves, PodStates
    <2> QED BY <1>1, <1>2, <2>1, <2>3 DEF PodLeaves
  <1>7. CASE \E p \in Pods : PodGone(p) BY <1>1, <1>2, <1>7 DEF PodGone
  <1>8. CASE UNCHANGED pods BY <1>1, <1>8
  <1> QED BY <1>3, <1>4, <1>5, <1>6, <1>7, <1>8
          DEF Next, Operate, Reconcile, PendingPodsForPool, ClaimsForPool, CreateClaim, ScaledUp,
              KeepClaim, SkipDeleting, FoundEmpty, Decide, ClearEmptySince,
              MarkEmptyAndCheckGrace, DeleteIdle, Reconciled, ReadFails, ServeClaim, WatchEvent, Crash, AdoptClaim, LaunchMachine, RegisterNode,
              ReportReady, ForgetName, CorruptAnnotation, DeletePool, Tick, vars

\* The rest of the state stays well typed.
LEMMA SmallSteps ==
    ASSUME TypeOK, [Next]_vars
    PROVE  /\ faults' \in 0 .. MaxFaults
           /\ due' \in BOOLEAN /\ active' \in BOOLEAN
           /\ node' \in [Claims -> {"none", "NotReady", "Ready"}]
           /\ labelled' \subseteq Claims
           /\ pool' \in {"active", "terminating"}
  <1>1. faults \in 0 .. MaxFaults BY DEF TypeOK
  <1>2. faults' \in 0 .. MaxFaults
    <2>1. CASE \E kind : Fault(kind) BY <1>1, <2>1, FaultType
    <2>2. CASE UNCHANGED faults BY <1>1, <2>2
    <2> QED BY <2>1, <2>2
            DEF Next, Operate, Reconcile, PendingPodsForPool, ClaimsForPool, CreateClaim,
                ScaledUp, KeepClaim, SkipDeleting, FoundEmpty, Decide, ClearEmptySince, Patch,
                PatchFails, MarkEmptyAndCheckGrace, DeleteIdle, Reconciled, ReadFails, UpdateStatus, ServeClaim,
                WatchEvent, Crash, AdoptClaim, LaunchMachine, RegisterNode, ReportReady,
                ReleaseClaim, ForgetName, PodPending, BindPod, PodLeaves, PodGone,
                CorruptAnnotation, DeletePool, Tick, vars
  <1>3. due' \in BOOLEAN
    BY DEF TypeOK, Next, Operate, Reconcile, PendingPodsForPool, ClaimsForPool, CreateClaim, Fail,
           ScaledUp, KeepClaim, NextClaim, SkipDeleting, FoundEmpty, Decide, ClearEmptySince,
           MarkEmptyAndCheckGrace, DeleteIdle, Reconciled, ReadFails, ServeClaim, WatchEvent, poolForClaim, poolForNode, poolForPod, Crash,
           AdoptClaim, LaunchMachine, RegisterNode, ReportReady, ReleaseClaim, ForgetName,
           PodPending, BindPod, PodLeaves, PodGone, CorruptAnnotation, DeletePool, Tick, vars
  <1>4. /\ node' \in [Claims -> {"none", "NotReady", "Ready"}]
        /\ labelled' \subseteq Claims
        /\ pool' \in {"active", "terminating"}
        /\ active' \in BOOLEAN
    BY DEF TypeOK, Next, Operate, Reconcile, PendingPodsForPool, ClaimsForPool, CreateClaim,
           ScaledUp, KeepClaim, SkipDeleting, FoundEmpty, Decide, ClearEmptySince,
           MarkEmptyAndCheckGrace, DeleteIdle, UpdateStatus, Reconciled, ReadFails, ServeClaim, WatchEvent, Crash, AdoptClaim, LaunchMachine, RegisterNode,
           ReportReady, ReleaseClaim, ForgetName, PodPending, BindPod, PodLeaves, PodGone,
           CorruptAnnotation, DeletePool, Tick, vars, nodeVars
  <1> QED BY <1>2, <1>3, <1>4

\* TypeOK holds in every reachable state, for all values of the constants.
THEOREM TypeCorrect == Spec => []TypeOK
  <1>1. Init => TypeOK
    <2> SUFFICES ASSUME Init PROVE TypeOK
      OBVIOUS
    <2>1. StoreTypeOK
      <3>1. <<Unborn>> \in Seq(Objects) /\ Len(<<Unborn>>) = 1 BY UnbornType
      <3>2. 1 \in 1 .. (MaxLag + 1) BY StoreAssumption
      <3> QED BY <3>1, <3>2 DEF Init, StoreInit, StoreTypeOK
    <2>2. prov \in Provs /\ prov.pc = "idle" BY NoProvType DEF Init, Provs
    <2>3. pods \in [Pods -> PodStates] BY DEF Init, NoPod, PodStates
    <2>4. faults \in 0 .. MaxFaults BY SurroundingsAssumption DEF Init
    <2> QED BY <2>1, <2>2, <2>3, <2>4 DEF Init, TypeOK, Provs, AtClaim
  <1>2. ASSUME TypeOK, [Next]_vars PROVE TypeOK'
    BY <1>2, StoreStaysTyped, ProvSteps, PodSteps, SmallSteps DEF TypeOK, Provs
  <1> QED BY <1>1, <1>2, PTL DEF Spec
-----------------------------------------------------------------------------
(* The bounds of scaleUp *)

\* The claims scaleUp counts on for pods that wait.
Awaited == {c \in LiveClaims : ~isClaimReady(Server(c)) /\ ~Server(c).del}

\* The inductive invariant: the claims that are still to be created count as if they
\* were there.
Bounded ==
    /\ Limit > 0 => Cardinality(LiveClaims) + prov.needed <= Limit
    /\ prov.pending <= Cardinality(Selecting)
    /\ Cardinality(Awaited) + prov.needed <= Cardinality(Selecting)

\* What a step does to the server's version of a claim.
LEMMA ServerSteps ==
    ASSUME TypeOK, [Next]_vars
    PROVE  \/ /\ \A c \in Claims : Server(c)' = Server(c)
              /\ UNCHANGED node \/ \E c \in Claims : RegisterNode(c)
           \/ \E c \in Claims : \E o : /\ Write(c, o) /\ Server(c)' = o
                                      /\ \A d \in Claims \ {c} : Server(d)' = Server(d)
           \/ \E c \in Claims : /\ ForgetName(c) /\ Server(c)' = Unborn
                                /\ \A d \in Claims \ {c} : Server(d)' = Server(d)
           \/ Tick /\ \A c \in Claims : Server(c)' = Older(Server(c))
  <1>0. StoreTypeOK BY DEF TypeOK
  <1>1. ASSUME UNCHANGED storeVars PROVE \A c \in Claims : Server(c)' = Server(c)
    BY <1>1 DEF storeVars, Server
  <1>2. CASE \E c \in Claims : \E o : StoreOther(c, o) /\ Write(c, o)
    <2>0. PICK c \in Claims : \E o : StoreOther(c, o) /\ Write(c, o) BY <1>2
    <2>1. PICK o : StoreOther(c, o) /\ Write(c, o) BY <2>0
    <2>2. /\ log'[c][Len(log'[c])] = o
          /\ \A d \in Claims \ {c} : log'[d] = log[d]
      BY <1>0, <2>1, WriteType, StoreEffect DEF StoreOther
    <2>3. Server(c)' = o /\ \A d \in Claims \ {c} : Server(d)' = Server(d) BY <2>2 DEF Server
    <2> QED BY <2>1, <2>3
  <1>3. ASSUME \E c \in Claims : Observe(c) PROVE \A c \in Claims : Server(c)' = Server(c)
    <2>1. PICK c \in Claims : Observe(c) BY <1>3
    <2>2. /\ log'[c][Len(log'[c])] = log[c][Len(log[c])]
          /\ \A d \in Claims \ {c} : log'[d] = log[d]
      BY <1>0, <2>1, ObserveEffect
    <2> QED BY <2>2 DEF Server
  <1>4. CASE \E c \in Claims : ForgetName(c) BY <1>0, <1>4, ForgetEffect
  <1>5. CASE Tick BY <1>0, <1>5, TickEffect
  <1> QED BY <1>0, <1>1, <1>2, <1>3, <1>4, <1>5, StoreSteps, RelistEffect

\* Only scaleUp adds a claim, one at a time and one less to create.
LEMMA ClaimsGrow ==
    ASSUME TypeOK, [Next]_vars
    PROVE  \/ LiveClaims' \subseteq LiveClaims /\ Awaited' \subseteq Awaited
           \/ \E c \in Claims : /\ LiveClaims' \subseteq LiveClaims \cup {c}
                                /\ Awaited' \subseteq Awaited \cup {c}
                                /\ prov.needed > 0 /\ prov'.needed <= prov.needed - 1
  <1>0. \A c \in Claims : Server(c) \in Objects BY ServerType DEF TypeOK
  <1> DEFINE Fades(c) ==
                /\ Server(c)'.phase = "live" => Server(c).phase = "live"
                /\ Server(c)'.phase = "live" /\ ~Server(c)'.del /\ Server(c)'.ready # "NodeReady" =>
                        ~Server(c).del /\ Server(c).ready # "NodeReady"
  <1>1. ASSUME \A c \in Claims : Fades(c)
        PROVE  LiveClaims' \subseteq LiveClaims /\ Awaited' \subseteq Awaited
    BY <1>1 DEF LiveClaims, Awaited, isClaimReady
  <1>2. CASE \A c \in Claims : Server(c)' = Server(c) BY <1>1, <1>2
  <1>3. ASSUME NEW c \in Claims, NEW o, Write(c, o), Server(c)' = o,
               \A d \in Claims \ {c} : Server(d)' = Server(d)
        PROVE  \/ LiveClaims' \subseteq LiveClaims /\ Awaited' \subseteq Awaited
               \/ /\ LiveClaims' \subseteq LiveClaims \cup {c}
                  /\ Awaited' \subseteq Awaited \cup {c}
                  /\ prov.needed > 0 /\ prov'.needed <= prov.needed - 1
    <2>1. CASE Creation(c, o)
      BY <1>3, <2>1 DEF Creation, LiveClaims, Awaited, isClaimReady
    <2>2. CASE ~Creation(c, o)
      <3>1. Fades(c)
        <4>1. CASE Annotation(c, o) BY <1>0, <1>3, <4>1 DEF Annotation, Objects
        <4>2. CASE Deletion(c, o) BY <1>0, <1>3, <4>2 DEF Deletion, Deleted, Objects
        <4>3. CASE Service(c, o) BY <1>0, <1>3, <4>3 DEF Service, Objects
        <4>4. CASE Removal(c, o) BY <1>0, <1>3, <4>4 DEF Removal, Objects
        <4> QED BY <1>3, <2>2, <4>1, <4>2, <4>3, <4>4 DEF Write
      <3> QED BY <1>1, <1>3, <3>1
    <2> QED BY <2>1, <2>2
  <1>4. ASSUME NEW c \in Claims, Server(c)' = Unborn,
               \A d \in Claims \ {c} : Server(d)' = Server(d)
        PROVE  LiveClaims' \subseteq LiveClaims /\ Awaited' \subseteq Awaited
    BY <1>1, <1>4 DEF Unborn
  <1>5. CASE \A c \in Claims : Server(c)' = Older(Server(c))
    BY <1>0, <1>1, <1>5, OlderKeeps
  <1> QED BY <1>2, <1>3, <1>4, <1>5, ServerSteps

\* A list that is up to date.
LEMMA FreshList ==
    ASSUME TypeOK, StaleReads = FALSE, ClaimsForPool
    PROVE  \A c \in Claims : Fresh(c) /\ Cached(c) = Server(c)
  BY DEF ClaimsForPool, Fresh, Cached, Server

\* One step of the bounds.
LEMMA BoundedStep ==
    ASSUME TypeOK, StaleReads = FALSE, Bounded, [Next]_vars
    PROVE  Bounded'
  <1>1. /\ LiveClaims \in SUBSET Claims /\ Awaited \in SUBSET Claims
        /\ LiveClaims' \in SUBSET Claims /\ Awaited' \in SUBSET Claims
    BY DEF LiveClaims, Awaited
  <1>2. /\ Cardinality(LiveClaims) \in Nat /\ Cardinality(Awaited) \in Nat
        /\ Cardinality(LiveClaims)' \in Nat /\ Cardinality(Awaited)' \in Nat
        /\ Cardinality(Selecting) \in Nat /\ Limit \in Nat
    BY <1>1, Finite, ProvisionerAssumption
  <1>3. /\ prov.needed \in Nat /\ prov.pending \in Nat
        /\ prov'.needed \in Nat /\ prov'.pending \in Nat
    BY ProvSteps, Finite DEF TypeOK, Provs
  <1>4. CASE ClaimsForPool
    <2> DEFINE copy == [c \in Claims |-> Cached(c)]
    <2>1. \A c \in Claims : copy[c] = Server(c) BY <1>4, FreshList
    <2>2. Listed(copy) = LiveClaims /\ Awaited \subseteq InFlight(copy)
      BY <2>1 DEF Listed, InFlight, LiveClaims, Awaited
    <2>3. Cardinality(Awaited) <= Cardinality(InFlight(copy))
      BY <1>1, <2>2, Finite DEF InFlight, Listed
    <2>4. Cardinality(InFlight(copy)) \in Nat BY Finite DEF InFlight, Listed
    <2>5. prov'.needed = Needed(prov.pending, copy) /\ prov'.pending = prov.pending
      BY <1>4 DEF ClaimsForPool, TypeOK
    <2>6. UNCHANGED <<LiveClaims, Awaited>>
      BY <1>4 DEF ClaimsForPool, storeVars, LiveClaims, Awaited, isClaimReady, Server
    <2>7. /\ Needed(prov.pending, copy) \in 0 .. prov.pending
          /\ \/ Needed(prov.pending, copy) = 0
             \/ Needed(prov.pending, copy) + Cardinality(InFlight(copy)) <= prov.pending
          /\ \/ Needed(prov.pending, copy) = 0 \/ Limit = 0
             \/ Cardinality(LiveClaims) + Needed(prov.pending, copy) <= Limit
      BY <1>3, <2>2, NeededBounds
    <2> HIDE DEF copy
    <2> QED BY <1>2, <1>3, <2>3, <2>4, <2>5, <2>6, <2>7 DEF Bounded
  <1>5. CASE PendingPodsForPool
    <2>1. UNCHANGED <<LiveClaims, Awaited>>
      BY <1>5 DEF PendingPodsForPool, storeVars, LiveClaims, Awaited, isClaimReady, Server
    <2>2. prov'.needed = 0 /\ prov'.pending \in {0, Cardinality(PendingPods)}
      BY <1>5, NoProvType DEF PendingPodsForPool
    <2> QED BY <1>2, <1>3, <2>1, <2>2, Finite DEF Bounded
  <1>6. CASE prov'.needed \in 0 .. prov.needed /\ prov'.pending \in {0, prov.pending}
    <2>1. CASE LiveClaims' \subseteq LiveClaims /\ Awaited' \subseteq Awaited
      <3>1. /\ Cardinality(LiveClaims)' <= Cardinality(LiveClaims)
            /\ Cardinality(Awaited)' <= Cardinality(Awaited)
        BY <1>1, <2>1, Finite
      <3> QED BY <1>2, <1>3, <1>6, <3>1 DEF Bounded
    <2>2. ASSUME NEW c \in Claims,
                 LiveClaims' \subseteq LiveClaims \cup {c}, Awaited' \subseteq Awaited \cup {c},
                 prov.needed > 0, prov'.needed <= prov.needed - 1
          PROVE  Bounded'
      <3>1. \A S \in SUBSET Claims : Cardinality(S \cup {c}) <= Cardinality(S) + 1
        BY Finite, FS_AddElement
      <3>2. /\ Cardinality(LiveClaims)' <= Cardinality(LiveClaims \cup {c})
            /\ Cardinality(Awaited)' <= Cardinality(Awaited \cup {c})
        BY <1>1, <2>2, Finite
      <3>3. /\ Cardinality(LiveClaims)' <= Cardinality(LiveClaims) + 1
            /\ Cardinality(Awaited)' <= Cardinality(Awaited) + 1
        <4>1. /\ Cardinality(LiveClaims \cup {c}) \in Nat /\ Cardinality(Awaited \cup {c}) \in Nat
          BY <1>1, Finite
        <4> QED BY <1>1, <1>2, <3>1, <3>2, <4>1
      <3> QED BY <1>2, <1>3, <1>6, <2>2, <3>3 DEF Bounded
    <2> QED BY <2>1, <2>2, ClaimsGrow
  <1> QED BY <1>4, <1>5, <1>6, ProvSteps

\* Bounded holds in every state when claims are listed from a cache that is up to date.
THEOREM Boundedness ==
    ASSUME StaleReads = FALSE
    PROVE  Spec => []Bounded
  <1>1. Init => Bounded
    <2> SUFFICES ASSUME Init PROVE Bounded
      OBVIOUS
    <2>1. \A c \in Claims : Server(c) = Unborn BY DEF Init, StoreInit, Server
    <2>2. LiveClaims = {} /\ Awaited = {} BY <2>1 DEF LiveClaims, Awaited, Unborn
    <2>3. Cardinality(LiveClaims) = 0 /\ Cardinality(Awaited) = 0 BY <2>2, FS_EmptySet
    <2>4. prov.needed = 0 /\ prov.pending = 0 BY NoProvType DEF Init
    <2> QED BY <2>3, <2>4, Finite, ProvisionerAssumption DEF Bounded
  <1>2. TypeOK /\ Bounded /\ [Next]_vars => Bounded' BY BoundedStep
  <1> QED BY <1>1, <1>2, TypeCorrect, PTL DEF Spec

\* What is counted is a number.
LEMMA CountsType ==
    ASSUME TypeOK
    PROVE  /\ Cardinality(LiveClaims) \in Nat /\ Cardinality(Awaited) \in Nat
           /\ Cardinality(Selecting) \in Nat /\ prov.needed \in Nat
  <1>1. LiveClaims \in SUBSET Claims /\ Awaited \in SUBSET Claims BY DEF LiveClaims, Awaited
  <1> QED BY <1>1, Finite DEF TypeOK

\* WithinLimit: with lists that are up to date scaleUp never exceeds poolNodeLimit,
\* whatever fails between its writes and however often the operator restarts.
THEOREM LimitKept ==
    ASSUME StaleReads = FALSE
    PROVE  Spec => []WithinLimit
  <1>1. TypeOK /\ Bounded => WithinLimit
    BY CountsType, ProvisionerAssumption DEF Bounded, WithinLimit
  <1> QED BY <1>1, Boundedness, TypeCorrect, PTL

\* InFlightCovered: nor has it ever more claims in flight than pods select the pool,
\* although claims become Ready, pods come and go and the reconcile is repeated.
THEOREM InFlightKept ==
    ASSUME StaleReads = FALSE
    PROVE  Spec => []InFlightCovered
  <1>1. TypeOK /\ Bounded => InFlightCovered
    <2> SUFFICES ASSUME TypeOK, Bounded PROVE Cardinality(Awaited) <= Cardinality(Selecting)
      BY DEF InFlightCovered, Awaited
    <2> QED BY CountsType DEF Bounded
  <1> QED BY <1>1, Boundedness, TypeCorrect, PTL

-----------------------------------------------------------------------------
(* The promise between the controllers *)

\* A name that is not in use has left no trace, a Node belongs to a claim that has its
\* finalizer and its providerID, and it does not outlive the claim as a Ready one.
NodesBacked ==
    \A c \in Claims :
        /\ Server(c).phase = "unborn" => Server(c) = Unborn /\ node[c] = "none"
        /\ Server(c).phase = "gone" => node[c] # "Ready"
        /\ Server(c).phase = "live" /\ node[c] # "none" => Server(c).fin /\ Server(c).pid # NoPID

\* A claim that does not exist yet is blank to both controllers.
LEMMA UnbornBlank == Promise(Unborn) = Life!Blank
  <1>1. isClaimReady(Unborn) = FALSE BY DEF isClaimReady, Unborn
  <1>2. /\ Unborn.phase = "unborn" /\ Unborn.fin = FALSE /\ Unborn.del = FALSE
        /\ Unborn.pid = NoPID
    BY DEF Unborn
  <1> QED BY <1>1, <1>2, Zenon DEF Promise, Life!Blank

\* One claim's object changes to o.
LEMMA ObjectBecomes ==
    ASSUME NEW c \in Claims, NEW o, Server(c)' = o,
           \A d \in Claims \ {c} : Server(d)' = Server(d)
    PROVE  Life!Becomes(c, Promise(o))
  <1>1. Promise(Server(c))' = Promise(o) BY DEF Promise, isClaimReady, Server
  <1>2. \A d \in Claims \ {c} : Promise(Server(d))' = Promise(Server(d))
    BY DEF Promise, isClaimReady, Server
  <1> QED BY <1>1, <1>2 DEF Life!Becomes

\* No object changes in what the promise is about.
LEMMA LifeStutters ==
    ASSUME \A c \in Claims : Promise(Server(c))' = Promise(Server(c))
    PROVE  UNCHANGED [c \in Claims |-> Promise(Server(c))]
  OBVIOUS

\* One step of NodesBacked.
LEMMA NodesBackedStep ==
    ASSUME TypeOK, NodesBacked, [Next]_vars
    PROVE  NodesBacked'
  <1>0. /\ \A c \in Claims : Server(c) \in Objects
        /\ node \in [Claims -> {"none", "NotReady", "Ready"}]
    BY ServerType DEF TypeOK
  <1> DEFINE Backing(o, n) ==
                /\ o.phase = "unborn" => o = Unborn /\ n = "none"
                /\ o.phase = "gone" => n # "Ready"
                /\ o.phase = "live" /\ n # "none" => o.fin /\ o.pid # NoPID
  <1>1. NodesBacked <=> \A c \in Claims : Backing(Server(c), node[c]) BY DEF NodesBacked
  <1>2. NodesBacked' <=> \A c \in Claims : Backing(Server(c)', node'[c]) BY DEF NodesBacked
  <1>3. CASE (\A c \in Claims : Server(c)' = Server(c)) /\ UNCHANGED node BY <1>1, <1>2, <1>3
  <1>4. CASE (\A c \in Claims : Server(c)' = Server(c)) /\ \E c \in Claims : RegisterNode(c)
    BY <1>0, <1>1, <1>2, <1>4 DEF RegisterNode
  <1>5. ASSUME NEW c \in Claims, NEW o, Write(c, o), Server(c)' = o,
               \A d \in Claims \ {c} : Server(d)' = Server(d)
        PROVE  NodesBacked'
    <2>1. \A d \in Claims \ {c} : node'[d] = node[d] BY <1>0, <1>5 DEF Write
    <2>2. Backing(o, node'[c])
      <3>0. Backing(Server(c), node[c]) /\ Server(c) \in Objects BY <1>0, <1>1
      <3>1. CASE Creation(c, o) /\ UNCHANGED node
        BY <3>0, <3>1 DEF Creation, Unborn
      <3>2. CASE Annotation(c, o) /\ UNCHANGED node BY <3>0, <3>2 DEF Annotation, Objects
      <3>3. CASE Deletion(c, o) /\ UNCHANGED node BY <3>0, <3>3 DEF Deletion, Deleted, Objects
      <3>4. CASE Service(c, o) /\ UNCHANGED node
        BY <3>0, <3>4, SurroundingsAssumption DEF Service, Objects
      <3>5. CASE /\ Removal(c, o)
                 /\ node' = [node EXCEPT ![c] = IF @ = "none" THEN @ ELSE "NotReady"]
        BY <1>0, <3>0, <3>5 DEF Removal, Objects
      <3> QED BY <1>5, <3>1, <3>2, <3>3, <3>4, <3>5 DEF Write
    <2> QED BY <1>1, <1>2, <1>5, <2>1, <2>2
  <1>6. ASSUME NEW c \in Claims, ForgetName(c), Server(c)' = Unborn,
               \A d \in Claims \ {c} : Server(d)' = Server(d)
        PROVE  NodesBacked'
    BY <1>0, <1>1, <1>2, <1>6 DEF ForgetName, Unborn
  <1>7. CASE Tick /\ \A c \in Claims : Server(c)' = Older(Server(c))
    <2>1. UNCHANGED node BY <1>7 DEF Tick, nodeVars
    <2>2. \A c \in Claims : Older(Server(c)).phase = "unborn" => Older(Server(c)) = Unborn
      <3>1. Unborn.since = NoTime /\ NoTime \notin 0 .. (Grace - 1)
        <4>1. NoTime \notin 0 .. Grace /\ Grace \in Nat
          BY ProvisionerAssumption, StoreAssumption
        <4> QED BY <4>1 DEF Unborn
      <3> QED BY <1>0, <1>1, <3>1, OlderKeeps DEF Older
    <2> QED BY <1>0, <1>1, <1>2, <1>7, <2>1, <2>2, OlderKeeps
  <1> QED BY <1>3, <1>4, <1>5, <1>6, <1>7, ServerSteps

\* The Nodes that stand for machines.
Standing == {c \in Claims : node[c] = "Ready"}

\* Every write is a step of ClaimLifecycle or leaves the promise alone.
LEMMA WriteRefines ==
    ASSUME TypeOK, NodesBacked, NEW c \in Claims, NEW o, Write(c, o), Server(c)' = o,
           \A d \in Claims \ {c} : Server(d)' = Server(d)
    PROVE  Life!Next \/ UNCHANGED <<[d \in Claims |-> Promise(Server(d))], Standing>>
  <1>1. /\ Server(c) \in Objects
        /\ node \in [Claims -> {"none", "NotReady", "Ready"}]
    BY ServerType DEF TypeOK
  <1>2. Life!Becomes(c, Promise(o)) BY ObjectBecomes
  <1>3. [d \in Claims |-> Promise(Server(d))][c] = Promise(Server(c)) OBVIOUS
  <1>4. UNCHANGED node => UNCHANGED Standing BY DEF Standing
  <1>5. CASE Creation(c, o) /\ UNCHANGED node
    <2>1. Server(c) = Unborn BY <1>5 DEF NodesBacked, Creation
    <2>2. /\ o.phase = "live" /\ o.fin = Unborn.fin /\ o.del = Unborn.del
          /\ o.pid = Unborn.pid /\ o.ready = Unborn.ready
      BY <1>5 DEF Creation, Unborn
    <2>3. Promise(o) = [Promise(Unborn) EXCEPT !.phase = o.phase]
      BY <2>2, PromiseUpdates, Zenon
    <2>4. Promise(o) = [Promise(Unborn) EXCEPT !.phase = "live"] BY <2>2, <2>3
    <2>5. [d \in Claims |-> Promise(Server(d))][c] = Life!Blank BY <2>1, UnbornBlank
    <2>6. Life!Becomes(c, [Life!Blank EXCEPT !.phase = "live"])
      BY <1>2, <2>4, UnbornBlank, Zenon
    <2>7. Life!Create(c) BY <1>4, <1>5, <2>5, <2>6, Zenon DEF Life!Create, Standing
    <2> QED BY <2>7 DEF Life!Next
  <1>6. CASE Annotation(c, o) /\ UNCHANGED node
    <2>1. /\ o.phase = Server(c).phase /\ o.fin = Server(c).fin /\ o.del = Server(c).del
          /\ o.pid = Server(c).pid /\ o.ready = Server(c).ready
      BY <1>1, <1>6 DEF Annotation, Objects
    <2>2. Promise(o) = Promise(Server(c)) BY <2>1 DEF Promise, isClaimReady
    <2>3. \A d \in Claims : Promise(Server(d))' = Promise(Server(d))
      BY <2>2 DEF Promise, isClaimReady, Server
    <2> QED BY <1>4, <1>6, <2>3, LifeStutters
  <1>7. CASE Deletion(c, o) /\ UNCHANGED node /\ Server(c).fin
    <2>1. /\ o.phase = Server(c).phase /\ o.fin = Server(c).fin /\ o.del = TRUE
          /\ o.pid = Server(c).pid /\ o.ready = Server(c).ready
      BY <1>1, <1>7 DEF Deletion, Deleted, Objects
    <2>2. Promise(o) = [Promise(Server(c)) EXCEPT !.del = TRUE] BY <2>1, PromiseUpdates, Zenon
    <2>3. Life!Live(c) /\ ~Promise(Server(c)).del
      BY <1>3, <1>7 DEF Deletion, Life!Live, Promise
    <2>4. Life!Becomes(c, [Promise(Server(c)) EXCEPT !.del = TRUE]) BY <1>2, <2>2, Zenon
    <2>5. Life!Delete(c)
      BY <1>3, <1>4, <1>7, <2>3, <2>4, Zenon DEF Life!Delete, Standing
    <2> QED BY <2>5 DEF Life!Next
  <1>8. CASE Deletion(c, o) /\ UNCHANGED node /\ ~Server(c).fin
    <2>1. /\ o.phase = "gone" /\ o.fin = Server(c).fin /\ o.del = Server(c).del
          /\ o.pid = Server(c).pid /\ o.ready = Server(c).ready
      BY <1>1, <1>8 DEF Deletion, Deleted, Objects
    <2>2. Promise(o) = [Promise(Server(c)) EXCEPT !.phase = o.phase]
      BY <2>1, PromiseUpdates, Zenon
    <2>3. Promise(o) = [Promise(Server(c)) EXCEPT !.phase = "gone"] BY <2>1, <2>2
    <2>4. Life!Live(c) /\ ~Promise(Server(c)).fin
      BY <1>3, <1>8 DEF Deletion, Life!Live, Promise
    <2>5. Life!Becomes(c, [Promise(Server(c)) EXCEPT !.phase = "gone"]) BY <1>2, <2>3, Zenon
    <2>6. Life!Vanish(c)
      BY <1>3, <1>4, <1>8, <2>4, <2>5, Zenon DEF Life!Vanish, Standing
    <2> QED BY <2>6 DEF Life!Next
  <1>9. CASE /\ Service(c, o) /\ UNCHANGED node
             /\ ~Server(c).fin /\ o = [Server(c) EXCEPT !.fin = TRUE]
    <2>1. /\ o.phase = Server(c).phase /\ o.fin = TRUE /\ o.del = Server(c).del
          /\ o.pid = Server(c).pid /\ o.ready = Server(c).ready
      BY <1>1, <1>9 DEF Objects
    <2>2. Promise(o) = [Promise(Server(c)) EXCEPT !.fin = TRUE] BY <2>1, PromiseUpdates, Zenon
    <2>3. Life!Live(c) /\ ~Promise(Server(c)).fin /\ ~Promise(Server(c)).del
      BY <1>3, <1>9 DEF Service, Life!Live, Promise
    <2>4. Life!Becomes(c, [Promise(Server(c)) EXCEPT !.fin = TRUE]) BY <1>2, <2>2, Zenon
    <2>5. Life!Adopt(c)
      BY <1>3, <1>4, <1>9, <2>3, <2>4, Zenon DEF Life!Adopt, Standing
    <2> QED BY <2>5 DEF Life!Next
  <1>10. ASSUME Service(c, o), UNCHANGED node, Server(c).fin, Server(c).pid = NoPID,
                NEW p \in PIDs, o = [Server(c) EXCEPT !.pid = p]
         PROVE  Life!Next
    <2>1. /\ o.phase = Server(c).phase /\ o.fin = Server(c).fin /\ o.del = Server(c).del
          /\ o.pid = p /\ o.ready = Server(c).ready
      BY <1>1, <1>10 DEF Objects
    <2>2. Promise(o) = [Promise(Server(c)) EXCEPT !.pid = p] BY <2>1, PromiseUpdates, Zenon
    <2>3. /\ Life!Live(c) /\ Promise(Server(c)).fin /\ ~Promise(Server(c)).del
          /\ Promise(Server(c)).pid = NoPID
      BY <1>3, <1>10 DEF Service, Life!Live, Promise
    <2>4. Life!Becomes(c, [Promise(Server(c)) EXCEPT !.pid = p]) BY <1>2, <2>2, Zenon
    <2>5. Standing' \in {Standing, Standing \cup {c}} BY <1>4, <1>10
    <2>6. Life!Record(c)
      BY <1>3, <2>3, <2>4, <2>5, Zenon DEF Life!Record, Life!Kept, Standing
    <2> QED BY <2>6 DEF Life!Next
  <1>11. CASE /\ Service(c, o) /\ UNCHANGED node /\ Server(c).fin /\ node[c] = "Ready"
              /\ o = [Server(c) EXCEPT !.ready = "NodeReady"]
    <2>1. /\ o.phase = Server(c).phase /\ o.fin = Server(c).fin /\ o.del = Server(c).del
          /\ o.pid = Server(c).pid /\ isClaimReady(o) = TRUE
      BY <1>1, <1>11 DEF Objects, isClaimReady
    <2>2. Promise(o) = [Promise(Server(c)) EXCEPT !.ready = TRUE] BY <2>1, PromiseUpdates, Zenon
    <2>3. /\ Life!Live(c) /\ Promise(Server(c)).fin /\ ~Promise(Server(c)).del
          /\ Promise(Server(c)).pid # NoPID
      BY <1>3, <1>11 DEF Service, Life!Live, Promise, NodesBacked
    <2>4. Life!Becomes(c, [Promise(Server(c)) EXCEPT !.ready = TRUE]) BY <1>2, <2>2, Zenon
    <2>5. Life!Report(c)
      BY <1>3, <1>4, <1>11, <2>3, <2>4, Zenon DEF Life!Report, Life!Kept, Standing
    <2> QED BY <2>5 DEF Life!Next
  <1>12. CASE /\ Removal(c, o)
              /\ node' = [node EXCEPT ![c] = IF @ = "none" THEN @ ELSE "NotReady"]
    <2>1. /\ o.phase = "gone" /\ o.fin = FALSE /\ o.del = Server(c).del
          /\ o.pid = Server(c).pid /\ o.ready = Server(c).ready
      BY <1>1, <1>12 DEF Removal, Objects
    <2>2. Promise(o) = [Promise(Server(c)) EXCEPT !.fin = o.fin, !.phase = o.phase]
      BY <2>1, PromiseUpdates, Zenon
    <2>3. Promise(o) = [Promise(Server(c)) EXCEPT !.fin = FALSE, !.phase = "gone"]
      BY <2>1, <2>2
    <2>4. Life!Live(c) /\ Promise(Server(c)).fin /\ Promise(Server(c)).del
      BY <1>3, <1>12 DEF Removal, Life!Live, Promise
    <2>5. Life!Becomes(c, [Promise(Server(c)) EXCEPT !.fin = FALSE, !.phase = "gone"])
      BY <1>2, <2>3, Zenon
    <2>6. Standing' = Standing \ {c} BY <1>1, <1>12 DEF Standing
    <2>7. Life!Release(c) BY <1>3, <2>4, <2>5, <2>6, Zenon DEF Life!Release, Standing
    <2> QED BY <2>7 DEF Life!Next
  <1> QED BY <1>5, <1>6, <1>7, <1>8, <1>9, <1>10, <1>11, <1>12 DEF Write, Service

\* Every step is a step of ClaimLifecycle or changes nothing it is about.
LEMMA StepRefines ==
    ASSUME TypeOK, NodesBacked, [Next]_vars
    PROVE  Life!Next \/ UNCHANGED <<[c \in Claims |-> Promise(Server(c))], Standing>>
  <1>1. /\ \A c \in Claims : Server(c) \in Objects
        /\ node \in [Claims -> {"none", "NotReady", "Ready"}]
    BY ServerType DEF TypeOK
  <1>2. ASSUME \A c \in Claims : Server(c)' = Server(c)
        PROVE  UNCHANGED [c \in Claims |-> Promise(Server(c))]
    <2>1. \A c \in Claims : Promise(Server(c))' = Promise(Server(c))
      BY <1>2 DEF Promise, isClaimReady, Server
    <2> QED BY <2>1, LifeStutters
  <1>3. CASE (\A c \in Claims : Server(c)' = Server(c)) /\ UNCHANGED node
    BY <1>2, <1>3 DEF Standing
  <1>4. ASSUME NEW c \in Claims, RegisterNode(c), \A d \in Claims : Server(d)' = Server(d)
        PROVE  Life!Next
    <2>1. Standing' = Standing \cup {c} BY <1>1, <1>4 DEF RegisterNode, Standing
    <2>2. [d \in Claims |-> Promise(Server(d))][c] = Promise(Server(c)) OBVIOUS
    <2>3. Life!Live(c) /\ Promise(Server(c)).fin /\ Promise(Server(c)).pid # NoPID
      BY <1>4, <2>2 DEF RegisterNode, Life!Live, Promise
    <2>4. Life!Build(c) BY <1>2, <1>4, <2>1, <2>2, <2>3, Zenon DEF Life!Build, Standing
    <2> QED BY <2>4 DEF Life!Next
  <1>5. ASSUME NEW c \in Claims, ForgetName(c), Server(c)' = Unborn,
               \A d \in Claims \ {c} : Server(d)' = Server(d)
        PROVE  Life!Next
    <2>1. Life!Becomes(c, Life!Blank) BY <1>5, ObjectBecomes, UnbornBlank
    <2>2. Server(c).phase = "gone" /\ node[c] # "Ready"
      BY <1>5 DEF ForgetName, NodesBacked
    <2>3. UNCHANGED Standing BY <1>1, <1>5, <2>2 DEF ForgetName, Standing
    <2>4. [d \in Claims |-> Promise(Server(d))][c].phase = "gone" BY <2>2 DEF Promise
    <2>5. Life!Recycle(c) BY <2>1, <2>2, <2>3, <2>4 DEF Life!Recycle, Standing
    <2> QED BY <2>5 DEF Life!Next
  <1>6. CASE Tick /\ \A c \in Claims : Server(c)' = Older(Server(c))
    <2>1. \A c \in Claims : Promise(Server(c))' = Promise(Server(c))
      BY <1>1, <1>6, OlderKeeps DEF Promise, isClaimReady, Server
    <2> QED BY <1>6, <2>1, LifeStutters DEF Tick, nodeVars, Standing
  <1> QED BY <1>3, <1>4, <1>5, <1>6, ServerSteps, WriteRefines

\* The provisioner and what it assumes of claims implement ClaimLifecycle, the
\* specification the claim controller is proved to implement as well: with any faults,
\* any lag of the cache and any number of claims and pods.
THEOREM PromiseFollowed == Spec => KeepsPromise
  <1>1. Init => NodesBacked /\ Life!Init
    <2> SUFFICES ASSUME Init PROVE NodesBacked /\ Life!Init
      OBVIOUS
    <2>1. \A c \in Claims : Server(c) = Unborn /\ node[c] = "none"
      BY DEF Init, StoreInit, Server
    <2>2. NodesBacked BY <2>1 DEF NodesBacked, Unborn
    <2>3. \A c \in Claims : Promise(Server(c)) = Life!Blank BY <2>1, UnbornBlank
    <2> QED BY <2>1, <2>2, <2>3 DEF Life!Init
  <1>2. TypeOK /\ NodesBacked /\ [Next]_vars => NodesBacked' BY NodesBackedStep
  <1>3. TypeOK /\ NodesBacked /\ [Next]_vars =>
           [Life!Next]_<<[c \in Claims |-> Promise(Server(c))],
                         {c \in Claims : node[c] = "Ready"}>>
    BY StepRefines DEF Standing
  <1> QED BY <1>1, <1>2, <1>3, TypeCorrect, PTL DEF Spec, KeepsPromise, Life!Spec
=============================================================================
