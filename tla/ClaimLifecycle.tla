---------------------------- MODULE ClaimLifecycle ----------------------------
(***************************************************************************)
(* What the two controllers promise each other about a XenonNodeClaim: the *)
(* order in which its object on the API server and the machine it records  *)
(* may change, with no cache, no reconcile and no hypervisor in sight.     *)
(* ClaimController and Provisioner both implement this specification.      *)
(***************************************************************************)
CONSTANTS Claims,   \* names of claims
          PIDs,     \* providerIDs
          NoPID     \* the empty providerID

VARIABLES claim,    \* name -> the object, as far as the promise goes
          machine   \* the claims whose recorded machine exists

Blank == [phase |-> "unborn", fin |-> FALSE, del |-> FALSE, pid |-> NoPID,
          ready |-> FALSE]

Init ==
    /\ claim = [c \in Claims |-> Blank]
    /\ machine = {}

Becomes(c, o) == claim' = [claim EXCEPT ![c] = o]

Live(c) == claim[c].phase = "live"

\* The states of a claim in which it can make progress towards a node.
Kept(c) == Live(c) /\ claim[c].fin /\ ~claim[c].del

Create(c) ==
    /\ claim[c] = Blank
    /\ Becomes(c, [Blank EXCEPT !.phase = "live"])
    /\ UNCHANGED machine

\* The finalizer is added to a claim that nobody has deleted ...
Adopt(c) ==
    /\ Live(c) /\ ~claim[c].fin /\ ~claim[c].del
    /\ Becomes(c, [claim[c] EXCEPT !.fin = TRUE])
    /\ UNCHANGED machine

\* ... and only then a providerID is recorded, once, ...
Record(c) ==
    /\ Kept(c) /\ claim[c].pid = NoPID
    /\ \E p \in PIDs : Becomes(c, [claim[c] EXCEPT !.pid = p])
    /\ machine' \in {machine, machine \cup {c}}

\* ... and only then the claim can be Ready, or stop being Ready.
Report(c) ==
    /\ Kept(c) /\ claim[c].pid # NoPID
    /\ \E r \in BOOLEAN : Becomes(c, [claim[c] EXCEPT !.ready = r])
    /\ UNCHANGED machine

\* Deletion marks a claim that has a finalizer, of the operator or of another.
Delete(c) ==
    /\ Live(c) /\ ~claim[c].del
    /\ Becomes(c, [claim[c] EXCEPT !.del = TRUE])
    /\ UNCHANGED machine

\* The operator's finalizer goes with or after the machine the claim records.
Release(c) ==
    /\ Live(c) /\ claim[c].del /\ claim[c].fin
    /\ \E ph \in {"live", "gone"} :
        Becomes(c, [claim[c] EXCEPT !.fin = FALSE, !.phase = ph])
    /\ machine' = machine \ {c}

Vanish(c) ==
    /\ Live(c) /\ ~claim[c].fin
    /\ Becomes(c, [claim[c] EXCEPT !.phase = "gone"])
    /\ UNCHANGED machine

\* The recorded machine comes into being, only under the finalizer, ...
Build(c) ==
    /\ Live(c) /\ claim[c].fin /\ claim[c].pid # NoPID
    /\ machine' = machine \cup {c}
    /\ UNCHANGED claim

\* ... and machines are lost, all those of a host at once if it comes to that.
Lose ==
    /\ \E lost \in SUBSET machine : machine' = machine \ lost
    /\ UNCHANGED claim

\* Names are generated: one that is gone is as good as a new one.
Recycle(c) ==
    /\ claim[c].phase = "gone" /\ c \notin machine
    /\ Becomes(c, Blank)
    /\ UNCHANGED machine

Next ==
    \/ \E c \in Claims :
        \/ Create(c)
        \/ Adopt(c)
        \/ Record(c)
        \/ Report(c)
        \/ Delete(c)
        \/ Release(c)
        \/ Vanish(c)
        \/ Build(c)
        \/ Recycle(c)
    \/ Lose

Spec == Init /\ [][Next]_<<claim, machine>>
=============================================================================
