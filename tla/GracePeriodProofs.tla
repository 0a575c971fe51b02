-------------------------- MODULE GracePeriodProofs --------------------------
(***************************************************************************)
(* GraceHonoured, for any claims, pods and grace period: the annotation    *)
(* xenonite.io/empty-since never claims more idle time than has passed     *)
(* since the last pass of scaleDown that kept the claim.                   *)
(***************************************************************************)
EXTENDS GracePeriod, ProvisionerProofs

\* An annotation that can be read as a time.
Dated(o) == o.since \in 0 .. Grace

\* The annotation on the server, and in the list a pass works on, is no older than quiet;
\* a claim that is listed without an annotation has none when the pass reaches it.
Dating(c) ==
    /\ Server(c).phase = "live" /\ Dated(Server(c)) => Server(c).since <= quiet[c]
    /\ c \in prov.todo /\ Dated(prov.copy[c]) => prov.copy[c].since <= quiet[c]
    /\ c \in prov.todo /\ prov.copy[c].since = NoTime /\ Server(c).phase = "live" =>
            Server(c).since = NoTime

\* A pass keeps claim c: nothing of the idle time of its node is left.
Keeps(c) == ClearEmptySince /\ prov.victim = c

\* The inductive invariant: a pass looks at claims it has listed, and deletes one whose
\* annotation is a grace period old.
GraceInv ==
    /\ quiet \in [Claims -> 0 .. Grace]
    /\ prov.todo \subseteq Listed(prov.copy)
    /\ prov.pc \in AtClaim => prov.victim \in prov.todo
    /\ prov.pc = "delete" => prov.copy[prov.victim].since = Grace
    /\ \A c \in Claims : Dating(c)

\* How the clock moves.
LEMMA QuietSteps ==
    ASSUME quiet \in [Claims -> 0 .. Grace], WatchedNext
    PROVE  /\ quiet' \in [Claims -> 0 .. Grace]
           /\ \A c \in Claims :
                ~InUse(c) => quiet'[c] = IF Tick /\ quiet[c] < Grace THEN quiet[c] + 1 ELSE quiet[c]
  <1>1. Grace \in Nat BY ProvisionerAssumption
  <1> QED BY <1>1 DEF WatchedNext

\* How the annotation of a claim that scaleDown does not keep can change.
LEMMA SinceSteps ==
    ASSUME TypeOK, [Next]_vars, NEW d \in Claims, ~Keeps(d), Server(d)'.phase = "live"
    PROVE  \/ Server(d).phase = "live" /\ Server(d)'.since = Server(d).since
           \/ Server(d).phase = "unborn" /\ Server(d)'.since = NoTime
           \/ Server(d)'.since = 0 /\ d \notin prov'.todo
           \/ /\ Server(d).phase = "live" /\ Server(d).since # NoTime
              /\ Server(d)'.since = Corrupt
           \/ Tick /\ Server(d)' = Older(Server(d))
  <1>0. Server(d) \in Objects BY ServerType DEF TypeOK
  <1>1. CASE Server(d)' = Server(d) BY <1>1
  <1>2. ASSUME NEW o, Write(d, o), Server(d)' = o
        PROVE  \/ Server(d).phase = "live" /\ Server(d)'.since = Server(d).since
               \/ Server(d).phase = "unborn" /\ Server(d)'.since = NoTime
               \/ Server(d)'.since = 0 /\ d \notin prov'.todo
               \/ /\ Server(d).phase = "live" /\ Server(d).since # NoTime
                  /\ Server(d)'.since = Corrupt
    <2>1. CASE Creation(d, o) BY <1>2, <2>1 DEF Creation, Unborn
    <2>2. CASE Annotation(d, o) BY <1>0, <1>2, <2>2 DEF Annotation, Keeps, Objects
    <2>3. CASE Deletion(d, o) BY <1>0, <1>2, <2>3 DEF Deletion, Deleted, Objects
    <2>4. CASE Service(d, o) BY <1>0, <1>2, <2>4 DEF Service, Objects
    <2>5. CASE Removal(d, o) BY <1>0, <1>2, <2>5 DEF Removal, Objects
    <2> QED BY <1>2, <2>1, <2>2, <2>3, <2>4, <2>5 DEF Write
  <1>3. Server(d)' # Unborn BY DEF Unborn
  <1> QED BY <1>1, <1>2, <1>3, ServerSteps

\* How a pass goes on: it ends, lists the claims, decides about one, drops it, picks it for
\* deletion, or time passes.
LEMMA TodoSteps ==
    ASSUME TypeOK, [Next]_vars
    PROVE  \/ prov'.todo = {} /\ prov'.pc \notin AtClaim
           \/ ClaimsForPool
           \/ /\ prov'.todo \subseteq prov.todo /\ prov'.copy = prov.copy
              /\ prov'.pc \in AtClaim =>
                    /\ prov'.todo = prov.todo
                    /\ \/ prov.pc \in AtClaim /\ prov'.victim = prov.victim
                       \/ prov'.victim \in prov.todo
              /\ prov'.pc = "delete" =>
                    \/ prov.pc = "delete" /\ prov'.victim = prov.victim
                    \/ prov.copy[prov'.victim].since = Grace
           \/ Tick
  <1>1. prov \in Provs BY DEF TypeOK, Provs
  <1>2. CASE prov' = NoProv BY <1>2, NoProvType DEF AtClaim
  <1>3. CASE prov' = prov BY <1>3
  <1>4. ASSUME NEW c \in Claims, NextClaim(c)
        PROVE  /\ prov'.todo \subseteq prov.todo /\ prov'.copy = prov.copy
               /\ prov'.pc \notin AtClaim /\ prov'.pc # "delete"
    BY <1>1, <1>4 DEF NextClaim, Provs, AtClaim
  <1>5. CASE PendingPodsForPool
    BY <1>5, NoProvType DEF PendingPodsForPool, AtClaim
  <1>6. CASE CreateClaim BY <1>1, <1>2, <1>6 DEF CreateClaim, Fail, Provs, AtClaim
  <1>7. CASE ScaledUp BY <1>1, <1>7 DEF ScaledUp, Provs, AtClaim
  <1>8. CASE \E c \in Claims : KeepClaim(c) \/ SkipDeleting(c) \/ FoundEmpty(c)
    <2>1. PICK c \in Claims : /\ KeepClaim(c) \/ SkipDeleting(c) \/ FoundEmpty(c)
                              /\ c \in prov.todo
      BY <1>8 DEF KeepClaim, SkipDeleting, FoundEmpty, Considered
    <2>2. CASE NextClaim(c) BY <1>4, <2>2
    <2>3. CASE Decide(c, "clear") BY <1>1, <2>1, <2>3 DEF Decide, Provs
    <2>4. CASE Decide(c, "mark") BY <1>1, <2>1, <2>4 DEF Decide, Provs
    <2> QED BY <2>1, <2>2, <2>3, <2>4 DEF KeepClaim, SkipDeleting, FoundEmpty
  <1>9. prov.pc \in AtClaim => prov.victim \in Claims BY DEF TypeOK
  <1>10. CASE ClearEmptySince BY <1>4, <1>9, <1>10 DEF ClearEmptySince, AtClaim
  <1>11. CASE MarkEmptyAndCheckGrace
    <2> DEFINE c == prov.victim
    <2>1. prov.pc = "mark" /\ c \in Claims BY <1>9, <1>11 DEF MarkEmptyAndCheckGrace, AtClaim
    <2>2. CASE /\ prov' = [prov EXCEPT !.pc = "delete"]
               /\ prov.copy[c].since \notin {NoTime, Corrupt} /\ prov.copy[c].since >= Grace
      <3>1. prov.copy[c].since \in Times \cup {NoTime} BY <1>1, <2>1 DEF Provs, Objects
      <3>2. prov.copy[c].since \in 0 .. Grace /\ Grace \in Nat
        BY <2>2, <3>1, ProvisionerAssumption
      <3>3. prov.copy[c].since = Grace BY <2>2, <3>2
      <3>4. /\ prov'.todo = prov.todo /\ prov'.copy = prov.copy /\ prov'.victim = c
        BY <1>1, <2>2 DEF Provs
      <3> QED BY <2>1, <3>3, <3>4 DEF AtClaim
    <2>3. CASE NextClaim(c) BY <1>4, <2>1, <2>3
    <2> QED BY <1>2, <1>11, <2>2, <2>3 DEF MarkEmptyAndCheckGrace, Fail
  <1>12. CASE DeleteIdle
    <2>1. prov.victim \in Claims BY <1>9, <1>12 DEF DeleteIdle, AtClaim
    <2>2. CASE NextClaim(prov.victim) BY <1>4, <2>1, <2>2
    <2> QED BY <1>2, <1>12, <2>2 DEF DeleteIdle, Fail
  <1> QED BY <1>2, <1>3, <1>5, <1>6, <1>7, <1>8, <1>10, <1>11, <1>12
          DEF Next, Operate, Reconcile, Reconciled, ReadFails, Fail, ServeClaim, WatchEvent, Crash,
              AdoptClaim, LaunchMachine, RegisterNode, ReportReady, ReleaseClaim, ForgetName,
              PodPending, BindPod, PodLeaves, PodGone, CorruptAnnotation, DeletePool, vars

\* Ages stay within the grace period, and an annotation that is missing stays missing.
LEMMA Ages ==
    /\ Grace \in Nat \ {0} /\ NoTime \notin 0 .. Grace /\ Corrupt \notin 0 .. Grace
    /\ NoTime # Corrupt
    /\ \A o \in Objects :
        /\ Older(o).since = NoTime <=> o.since = NoTime
        /\ Dated(Older(o)) => Dated(o) /\ Older(o).since \in {o.since, o.since + 1}
        /\ Dated(Older(o)) /\ o.since # Grace => Older(o).since = o.since + 1
  <1>1. /\ Grace \in Nat \ {0} /\ NoTime \notin 0 .. Grace /\ Corrupt \notin 0 .. Grace
        /\ NoTime # Corrupt
    BY ProvisionerAssumption, StoreAssumption
  <1>2. ASSUME NEW o \in Objects
        PROVE  /\ Older(o).since = NoTime <=> o.since = NoTime
               /\ Dated(Older(o)) => Dated(o) /\ Older(o).since \in {o.since, o.since + 1}
               /\ Dated(Older(o)) /\ o.since # Grace => Older(o).since = o.since + 1
    <2>1. Older(o).since = IF o.since \in 0 .. (Grace - 1) THEN o.since + 1 ELSE o.since
      BY OlderKeeps
    <2>2. \A n \in 0 .. (Grace - 1) : n \in 0 .. Grace /\ n + 1 \in 0 .. Grace BY <1>1
    <2>3. \A n \in 0 .. Grace : n # Grace => n \in 0 .. (Grace - 1) BY <1>1
    <2> QED BY <1>1, <2>1, <2>2, <2>3 DEF Dated
  <1> QED BY <1>1, <1>2

\* A pass that keeps a claim leaves it without an annotation.
LEMMA KeptUndated ==
    ASSUME TypeOK, GraceInv, "api" \notin Faults, NEW d \in Claims, Keeps(d)
    PROVE  /\ d \notin prov'.todo
           /\ Server(d)'.phase = "live" => Server(d)'.since = NoTime
  <1>1. d \notin prov'.todo BY DEF Keeps, ClearEmptySince, NextClaim, TypeOK
  <1>2. d \in prov.todo BY DEF Keeps, ClearEmptySince, GraceInv, AtClaim
  <1>3. CASE UNCHANGED storeVars /\ (prov.copy[d].since = NoTime \/ Server(d).phase # "live")
    BY <1>1, <1>2, <1>3 DEF GraceInv, Dating, Server, storeVars
  <1>4. CASE Patch(d, NoTime)
    <2>1. Server(d) \in Objects BY ServerType DEF TypeOK
    <2>2. [Server(d) EXCEPT !.since = NoTime] \in Objects BY <2>1 DEF Objects
    <2>3. Server(d)' = [Server(d) EXCEPT !.since = NoTime]
      BY <1>4, <2>2, StoreEffect DEF Patch, StoreOther, TypeOK, Server
    <2> QED BY <1>1, <2>1, <2>3 DEF Objects
  <1>5. PatchFails(d) => UNCHANGED storeVars /\ Server(d).phase # "live"
    BY DEF PatchFails, Fault
  <1> QED BY <1>1, <1>3, <1>4, <1>5 DEF Keeps, ClearEmptySince, storeVars

\* The annotations and the clock after a step, for a claim the step does not keep.
LEMMA DatingStep ==
    ASSUME TypeOK, GraceInv, StaleReads = FALSE, [Next]_vars, NEW d \in Claims,
           ~Keeps(d), ~ForgetName(d), quiet'[d] \in Nat,
           quiet'[d] = IF Tick /\ quiet[d] < Grace THEN quiet[d] + 1 ELSE quiet[d]
    PROVE  Dating(d)'
  <1>1. /\ Server(d) \in Objects /\ prov.copy[d] \in Objects
        /\ quiet[d] \in 0 .. Grace /\ prov \in Provs
    BY ServerType DEF TypeOK, GraceInv, Provs
  <1>2. quiet[d] \in Nat /\ Grace \in Nat /\ quiet[d] <= Grace /\ quiet[d] <= quiet'[d]
    BY <1>1, Ages
  <1>3. ASSUME NEW o \in Objects, Dated(o) => o.since <= quiet[d], Tick, Dated(Older(o))
        PROVE  Older(o).since <= quiet'[d]
    <2>1. o.since \in Nat /\ o.since <= Grace /\ o.since <= quiet[d] BY <1>2, <1>3, Ages DEF Dated
    <2>2. CASE o.since = Grace
      <3>1. quiet'[d] = Grace BY <1>2, <2>1, <2>2
      <3>2. Older(o).since \in 0 .. Grace BY <1>3 DEF Dated
      <3> QED BY <1>2, <3>1, <3>2
    <2>3. CASE o.since # Grace
      <3>1. Older(o).since = o.since + 1 BY <1>3, <2>3, Ages
      <3> QED BY <1>2, <1>3, <2>1, <2>3, <3>1
    <2> QED BY <2>2, <2>3
  <1>4. Dating(d) BY DEF GraceInv
  <1>5. Server(d)'.phase = "live" /\ Server(d)'.since \in 0 .. Grace => Server(d)'.since <= quiet'[d]
    <2> SUFFICES ASSUME Server(d)'.phase = "live", Server(d)'.since \in 0 .. Grace
                 PROVE  Server(d)'.since <= quiet'[d]
      OBVIOUS
    <2>1. CASE Server(d).phase = "live" /\ Server(d)'.since = Server(d).since
      BY <1>2, <1>4, <2>1 DEF Dating, Dated
    <2>2. CASE Server(d)'.since \in {NoTime, Corrupt} BY <2>2, Ages
    <2>3. CASE Server(d)'.since = 0 BY <1>2, <2>3
    <2>4. CASE Tick /\ Server(d)' = Older(Server(d))
      <3>1. Server(d).phase = "live" BY <1>1, <2>4, OlderKeeps
      <3>2. Dated(Older(Server(d))) BY <2>4 DEF Dated
      <3> QED BY <1>1, <1>3, <1>4, <2>4, <3>1, <3>2 DEF Dating
    <2> QED BY <2>1, <2>2, <2>3, <2>4, SinceSteps
  <1>6. CASE prov'.todo = {} BY <1>5, <1>6 DEF Dating, Dated
  <1>7. CASE ClaimsForPool
    <2>1. Cached(d) = Server(d) BY <1>7, FreshList
    <2>2. prov'.copy[d] = Server(d) /\ prov'.todo = Listed(prov'.copy)
      BY <1>1, <1>7, <2>1 DEF ClaimsForPool, Provs
    <2>3. Server(d)' = Server(d) BY <1>7 DEF ClaimsForPool, storeVars, Server
    <2>4. d \in prov'.todo => Server(d).phase = "live" BY <2>2 DEF Listed
    <2> QED BY <1>2, <1>4, <1>5, <2>2, <2>3, <2>4 DEF Dating, Dated
  <1>8. CASE prov'.todo \subseteq prov.todo /\ prov'.copy = prov.copy /\ ~Tick
    <2>1. d \in prov'.todo /\ Dated(prov'.copy[d]) => prov'.copy[d].since <= quiet'[d]
      BY <1>2, <1>4, <1>8 DEF Dating, Dated
    <2>2. ASSUME d \in prov'.todo, prov'.copy[d].since = NoTime, Server(d)'.phase = "live"
          PROVE  Server(d)'.since = NoTime
      BY <1>4, <1>8, <2>2, SinceSteps DEF Dating
    <2> QED BY <1>5, <2>1, <2>2 DEF Dating, Dated
  <1>9. CASE Tick
    <2>1. prov'.copy[d] = Older(prov.copy[d]) /\ prov'.todo = prov.todo
      BY <1>1, <1>9 DEF Tick, Provs
    <2>2. Server(d)' = Older(Server(d)) BY <1>9, TickEffect DEF TypeOK
    <2>3. d \in prov'.todo /\ Dated(prov'.copy[d]) => prov'.copy[d].since <= quiet'[d]
      BY <1>1, <1>3, <1>4, <1>9, <2>1 DEF Dating
    <2>4. ASSUME d \in prov'.todo, prov'.copy[d].since = NoTime, Server(d)'.phase = "live"
          PROVE  Server(d)'.since = NoTime
      BY <1>1, <1>4, <2>1, <2>2, <2>4, Ages, OlderKeeps DEF Dating
    <2> QED BY <1>5, <2>3, <2>4 DEF Dating, Dated
  <1> QED BY <1>6, <1>7, <1>8, <1>9, TodoSteps

\* One step of the invariant.
LEMMA GraceInvStep ==
    ASSUME TypeOK, GraceInv, StaleReads = FALSE, "api" \notin Faults, WatchedNext
    PROVE  GraceInv'
  <1>0. [Next]_vars BY DEF WatchedNext
  <1>1. /\ quiet' \in [Claims -> 0 .. Grace]
        /\ \A c \in Claims :
              ~InUse(c) => quiet'[c] = IF Tick /\ quiet[c] < Grace THEN quiet[c] + 1 ELSE quiet[c]
    BY QuietSteps DEF GraceInv
  <1>2. \A c \in Claims : quiet'[c] \in Nat BY <1>1, Ages
  <1>3. prov \in Provs /\ prov' \in Provs BY <1>0, ProvSteps DEF TypeOK, Provs
  <1>4. /\ prov'.todo \subseteq Listed(prov'.copy)
        /\ prov'.pc \in AtClaim => prov'.victim \in prov'.todo
        /\ prov'.pc = "delete" => prov'.copy[prov'.victim].since = Grace
    <2>1. CASE prov'.todo = {} /\ prov'.pc \notin AtClaim BY <2>1 DEF AtClaim
    <2>2. CASE ClaimsForPool BY <1>3, <2>2 DEF ClaimsForPool, Provs, AtClaim
    <2>3. CASE /\ prov'.todo \subseteq prov.todo /\ prov'.copy = prov.copy
               /\ prov'.pc \in AtClaim =>
                     /\ prov'.todo = prov.todo
                     /\ \/ prov.pc \in AtClaim /\ prov'.victim = prov.victim
                        \/ prov'.victim \in prov.todo
               /\ prov'.pc = "delete" =>
                     \/ prov.pc = "delete" /\ prov'.victim = prov.victim
                     \/ prov.copy[prov'.victim].since = Grace
      BY <2>3 DEF GraceInv, Listed
    <2>4. CASE Tick
      <3>1. /\ prov'.todo = prov.todo /\ prov'.pc = prov.pc /\ prov'.victim = prov.victim
            /\ \A c \in Claims : prov'.copy[c] = Older(prov.copy[c])
        BY <1>3, <2>4 DEF Tick, Provs
      <3>2. \A c \in Claims : prov.copy[c] \in Objects BY <1>3 DEF Provs
      <3>3. prov'.todo \subseteq Listed(prov'.copy)
        BY <3>1, <3>2, OlderKeeps DEF GraceInv, Listed
      <3>4. prov.pc = "delete" => prov.victim \in Claims BY DEF TypeOK, AtClaim
      <3>5. Grace \notin 0 .. (Grace - 1) BY Ages
      <3>6. prov'.pc = "delete" => prov'.copy[prov'.victim].since = Grace
        BY <3>1, <3>2, <3>4, <3>5, OlderKeeps DEF GraceInv
      <3> QED BY <3>1, <3>3, <3>6 DEF GraceInv
    <2> QED BY <1>0, <2>1, <2>2, <2>3, <2>4, TodoSteps
  <1>5. ASSUME NEW d \in Claims PROVE Dating(d)'
    <2>1. CASE Keeps(d)
      <3>1. /\ d \notin prov'.todo
            /\ Server(d)'.phase = "live" => Server(d)'.since = NoTime
        BY <2>1, KeptUndated
      <3> QED BY <3>1, Ages DEF Dating, Dated
    <2>2. CASE ForgetName(d)
      <3>1. Server(d)' = Unborn BY <2>2, ForgetEffect DEF TypeOK
      <3>2. d \notin prov'.todo BY <2>2 DEF ForgetName, GraceInv, Listed
      <3> QED BY <3>1, <3>2 DEF Dating, Dated, Unborn
    <2>3. CASE ~Keeps(d) /\ ~ForgetName(d)
      BY <1>0, <1>1, <1>2, <2>3, DatingStep DEF InUse, Keeps
    <2> QED BY <2>1, <2>2, <2>3
  <1> QED BY <1>1, <1>4, <1>5 DEF GraceInv

\* The clock watches: a behaviour of GracePeriod is one of Provisioner.
LEMMA WatchedRuns == WatchedSpec => Spec
  <1>1. WatchedInit => Init BY DEF WatchedInit
  <1>2. [WatchedNext]_<<vars, quiet>> => [Next]_vars BY DEF WatchedNext
  <1> QED BY <1>1, <1>2, PTL DEF WatchedSpec, Spec

\* GraceHonoured: with lists that are up to date and patches that are not lost, no claim
\* is picked for deletion within emptyGracePeriod of a pass that kept it, having found its
\* node in use or pods pending, although the time is kept in an annotation that restarts, other
\* writers and the next passes see.
THEOREM GraceKept ==
    ASSUME StaleReads = FALSE, "api" \notin Faults
    PROVE  WatchedSpec => []GraceHonoured
  <1>1. WatchedInit => GraceInv
    <2> SUFFICES ASSUME WatchedInit PROVE GraceInv
      OBVIOUS
    <2>1. \A c \in Claims : Server(c) = Unborn BY DEF WatchedInit, Init, StoreInit, Server
    <2>2. prov.todo = {} /\ prov.pc = "idle" BY NoProvType DEF WatchedInit, Init
    <2>3. quiet \in [Claims -> 0 .. Grace] BY Ages DEF WatchedInit
    <2> QED BY <2>1, <2>2, <2>3 DEF GraceInv, Dating, Dated, Unborn, AtClaim
  <1>2. TypeOK /\ GraceInv /\ [WatchedNext]_<<vars, quiet>> => GraceInv'
    <2>1. CASE UNCHANGED <<vars, quiet>>
      BY <2>1 DEF vars, storeVars, GraceInv, Dating, Dated, Listed, Server
    <2> QED BY <2>1, GraceInvStep
  <1>3. TypeOK /\ GraceInv => GraceHonoured
    BY Ages DEF TypeOK, AtClaim, GraceInv, Dating, Dated, GraceHonoured
  <1> QED BY <1>1, <1>2, <1>3, WatchedRuns, TypeCorrect, PTL DEF WatchedSpec
=============================================================================
