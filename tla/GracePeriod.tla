----------------------------- MODULE GracePeriod -----------------------------
(***************************************************************************)
(* The provisioner watched by a clock that does not read the annotation:   *)
(* quiet is a history variable, no step of Provisioner depends on it.      *)
(***************************************************************************)
EXTENDS Provisioner

VARIABLE quiet    \* claim -> ticks (up to Grace) since a pass of scaleDown last
                  \* kept the claim, or since its name is in use

\* A pass has kept the claim once clearEmptySince is done.
InUse(c) == (ClearEmptySince /\ prov.victim = c) \/ ForgetName(c)

WatchedInit ==
    /\ Init
    /\ quiet = [c \in Claims |-> 0]

WatchedNext ==
    /\ Next
    /\ quiet' = [c \in Claims |->
                    CASE InUse(c) -> 0
                      [] Tick /\ quiet[c] < Grace -> quiet[c] + 1
                      [] OTHER -> quiet[c]]

WatchedSpec == WatchedInit /\ [][WatchedNext]_<<vars, quiet>>

\* emptyGracePeriod "is how long a node must stay empty before its claim is
\* deleted": a claim is picked for deletion only if for a whole grace period no
\* pass of scaleDown has kept it, having found its node in use or pods pending.
GraceHonoured == prov.pc = "delete" => quiet[prov.victim] >= Grace
=============================================================================
