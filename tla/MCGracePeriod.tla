---------------------------- MODULE MCGracePeriod ----------------------------
(***************************************************************************)
(* GracePeriod for TLC: claims are model values that can be exchanged.     *)
(***************************************************************************)
EXTENDS GracePeriod, TLC

Symmetry == Permutations(Claims)

GraceTimes == (0 .. Grace) \cup {Corrupt}

\* Workload that selects the pool; the scheduler may also bind it at once.
Selects == [selector |-> Pool, kind |-> "workload", terms |-> <<>>]

IdleShapes == [p \in Pods |-> Selects]
=============================================================================
