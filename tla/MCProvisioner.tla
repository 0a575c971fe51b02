---------------------------- MODULE MCProvisioner ----------------------------
(***************************************************************************)
(* Provisioner for TLC.  Pods are named by strings, so that their shapes   *)
(* can be given here.                                                      *)
(***************************************************************************)
EXTENDS Provisioner

\* The values of the annotation that a grace period of Grace ticks needs.
GraceTimes == (0 .. Grace) \cup {Corrupt}

\* A pod that would go to either of two pools; its events wake the other one.
Roaming == [selector |-> NoPool, kind |-> "workload",
            terms |-> << <<[key |-> LabelNodePool, op |-> "In",
                            values |-> <<"other", "pool">>]>> >>]

\* A DaemonSet's pod, which selects no pool and runs on any node.
Daemon == [selector |-> NoPool, kind |-> "daemon", terms |-> <<>>]

LiveShapes == [p \in Pods |-> IF p = "p1" THEN Roaming ELSE Daemon]
=============================================================================
