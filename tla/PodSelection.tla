----------------------------- MODULE PodSelection -----------------------------
(***************************************************************************)
(* Which pods ask for which XenonNodePool.  Two functions of the           *)
(* provisioner answer that question: podRequestsPool, when it counts the   *)
(* pods of a pool, and requestedPoolName, when a pod's watch event has to  *)
(* be turned into the name of one pool.  FitsPool is how the scheduler     *)
(* reads the same fields.                                                  *)
(*                                                                         *)
(* A pod's shape is the part of its spec that never changes: the value of  *)
(* the pool label in its nodeSelector, the terms of its required node      *)
(* affinity and whether a DaemonSet or a static manifest made it.          *)
(***************************************************************************)
EXTENDS Naturals, Sequences

CONSTANTS Pools,     \* names of pools, the values of the label xenonite.io/nodepool
          NoPool     \* no such label, or the empty name

ASSUME SelectionAssumption == NoPool \notin Pools

LabelNodePool == "xenonite.io/nodepool"

Exprs == [key: {LabelNodePool, "other"}, op: {"In", "NotIn", "Exists"}, values: Seq(Pools)]

Shapes == [selector: Pools \cup {NoPool}, terms: Seq(Seq(Exprs)),
           kind: {"workload", "daemon", "mirror"}]

\* Mutant of podRequestsPool: only the first value of an expression is compared.
podRequestsPoolFirst(s, q) ==
    \/ s.selector = q
    \/ \E i \in DOMAIN s.terms : \E j \in DOMAIN s.terms[i] :
        LET e == s.terms[i][j] IN
        /\ e.key = LabelNodePool /\ e.op = "In"
        /\ e.values # <<>> /\ e.values[1] = q

podRequestsPool(s, q) ==
    \/ s.selector = q
    \/ \E i \in DOMAIN s.terms : \E j \in DOMAIN s.terms[i] :
        LET e == s.terms[i][j] IN
        /\ e.key = LabelNodePool /\ e.op = "In"
        /\ \E k \in DOMAIN e.values : e.values[k] = q

\* The selector, or else the first value of the first expression with any.
requestedPoolName(s) ==
    LET naming == {h \in UNION {{i} \X DOMAIN s.terms[i] : i \in DOMAIN s.terms} :
                    LET e == s.terms[h[1]][h[2]] IN
                    /\ e.key = LabelNodePool /\ e.op = "In"
                    /\ e.values # <<>>}
        first == CHOOSE h \in naming : \A g \in naming :
                    h[1] < g[1] \/ (h[1] = g[1] /\ h[2] <= g[2])
    IN  IF s.selector # NoPool \/ naming = {} THEN s.selector
        ELSE s.terms[first[1]][first[2]].values[1]

\* A node of pool q has the pool's label, a node of NoPool has not; none has "other".
Matches(e, q) ==
    CASE e.key # LabelNodePool -> e.op = "NotIn"
      [] e.op = "Exists"       -> q # NoPool
      [] e.op = "In"           -> \E k \in DOMAIN e.values : e.values[k] = q
      [] e.op = "NotIn"        -> \A k \in DOMAIN e.values : e.values[k] # q

\* The scheduler: the selector and one whole term of the affinity must match.
FitsPool(s, q) ==
    /\ s.selector \in {NoPool, q}
    /\ \/ s.terms = <<>>
       \/ \E i \in DOMAIN s.terms :
            /\ s.terms[i] # <<>>
            /\ \A j \in DOMAIN s.terms[i] : Matches(s.terms[i][j], q)
=============================================================================
