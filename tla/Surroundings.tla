---------------------------- MODULE Surroundings ----------------------------
(***************************************************************************)
(* What every component of the operator shares: the names that appear in   *)
(* Kubernetes and in Proxmox, and the budget of faults.                    *)
(*                                                                         *)
(* A providerID proxmox://<node>/<vmid> is the record [node, vmid].        *)
(***************************************************************************)
EXTENDS Naturals

CONSTANTS Claims,     \* XenonNodeClaim names; a VM and a Node carry its claim's name
          VMIDs,      \* VMIDs of the PVE cluster
          Hosts,      \* Proxmox nodes
          NoPID,      \* the empty providerID
          Faults,     \* the kinds of fault the environment may cause
          MaxFaults   \* how many faults a behaviour may contain

PIDs == [node: Hosts, vmid: VMIDs]

ASSUME SurroundingsAssumption ==
    /\ NoPID \notin PIDs
    /\ MaxFaults \in Nat

VARIABLE faults       \* faults spent so far

\* Faults says which kinds of fault may happen; all of them share one budget.
Fault(kind) ==
    /\ kind \in Faults
    /\ faults < MaxFaults
    /\ faults' = faults + 1
=============================================================================
