----------------------------- MODULE MCXenonite -----------------------------
(***************************************************************************)
(* Xenonite for TLC.                                                       *)
(***************************************************************************)
EXTENDS Xenonite

GraceTimes == (0 .. Grace) \cup {Corrupt}

\* Workload that selects the pool.
Selects == [selector |-> Pool, kind |-> "workload", terms |-> <<>>]

OneShape == [p \in Pods |-> Selects]
=============================================================================
