----------------------------- MODULE ClaimStore ------------------------------
(***************************************************************************)
(* The XenonNodeClaim objects as the operator's client sees them: the API  *)
(* server holds the current version of each object, writes that carry a    *)
(* resourceVersion succeed only against that version (optimistic           *)
(* concurrency), and reads are served from the manager's informer cache,   *)
(* which follows the server version by version but may lag behind it.      *)
(*                                                                         *)
(* log[c] is the sequence of versions from the one the cache holds (first) *)
(* to the one the server holds (last).  resourceVersions are not numbers   *)
(* here: c \in current says that the copy of c the claim controller works  *)
(* on carries the resourceVersion of the server's version.                 *)
(***************************************************************************)
EXTENDS Surroundings, Sequences

CONSTANTS Times,    \* values of the xenonite.io/empty-since annotation
          NoTime,   \* the annotation is absent
          MaxLag    \* how many versions the cache may be behind the server

ASSUME StoreAssumption ==
    /\ NoTime \notin Times
    /\ MaxLag \in Nat \ {0}

VARIABLES log,      \* claim -> its versions, from the cached to the current one
          current   \* claims the claim controller holds the current version of

Objects ==
    [phase: {"unborn", "live", "gone"},    \* not yet created, present, removed
     fin: BOOLEAN,                         \* FinalizerNodeClaim is present
     del: BOOLEAN,                         \* deletionTimestamp is set
     pid: PIDs \cup {NoPID},               \* status.providerID
     launched: {"none", "CreateFailed", "Created"},   \* reason of Launched
     ready: {"none", "ProviderResolveFailed", "CloudInitRenderFailed",
             "NodeNotRegistered", "NodeNotReady", "NodeReady"}, \* reason of Ready
     since: Times \cup {NoTime}]           \* annotation xenonite.io/empty-since

Unborn == [phase |-> "unborn", fin |-> FALSE, del |-> FALSE, pid |-> NoPID,
           launched |-> "none", ready |-> "none", since |-> NoTime]

\* apimeta.IsStatusConditionTrue(conditions, "Ready"): NodeReady is the one reason
\* the operator sets the condition to True with.
isClaimReady(o) == o.ready = "NodeReady"

\* The part of a claim's object that the two controllers rely on.
Promise(o) ==
    [phase |-> o.phase, fin |-> o.fin, del |-> o.del, pid |-> o.pid,
     ready |-> isClaimReady(o)]

Cached(c) == log[c][1]
Server(c) == log[c][Len(log[c])]

Fresh(c) == Len(log[c]) = 1

\* A write of o: one that changes nothing makes no new version.
Room(c) == Len(log[c]) <= MaxLag
Store(c, o) ==
    /\ Room(c)
    /\ log' = [log EXCEPT ![c] = IF o = Server(c) THEN @ ELSE Append(@, o)]

\* A write by anyone but the claim controller outdates the copy it holds.
StoreOther(c, o) ==
    /\ Store(c, o)
    /\ current' = IF o = Server(c) THEN current ELSE current \ {c}

\* A delete request removes an object without finalizers and marks the others;
\* held says that a finalizer that is not the operator's is present.
Deleted(o, held) ==
    IF o.fin \/ held THEN [o EXCEPT !.del = TRUE] ELSE [o EXCEPT !.phase = "gone"]

DeleteRequest(c, held) ==
    /\ Server(c).phase = "live"
    /\ ~Server(c).del
    /\ StoreOther(c, Deleted(Server(c), held))

\* The informer applies the next version to the cache.
Observe(c) ==
    /\ ~Fresh(c)
    /\ log' = [log EXCEPT ![c] = Tail(@)]

\* A restarted manager lists every object before it reconciles anything.
Relist ==
    /\ log' = [c \in Claims |-> <<Server(c)>>]
    /\ current' = {}

StoreInit ==
    /\ log = [c \in Claims |-> <<Unborn>>]
    /\ current = {}

StoreTypeOK ==
    /\ log \in [Claims -> Seq(Objects)]
    /\ \A c \in Claims : Len(log[c]) \in 1 .. (MaxLag + 1)
    /\ current \subseteq Claims
=============================================================================
