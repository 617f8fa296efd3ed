--------------------------- MODULE MaintenanceRun ---------------------------
(***************************************************************************)
(* What the operator promises of a policy, whatever the reconcile loop does *)
(* to keep it: the life of a maintenance run as a user reads it off the     *)
(* status.  A run is started with the memory it applies, its workloads are  *)
(* restarted, and it ends once, completed or failed.  Only a run that did   *)
(* all it had to do completes, and only then does its memory become the     *)
(* current memory of the status on account of the run.                      *)
(*                                                                         *)
(* Simplification: no progress is promised here, since whether a run ends   *)
(* depends on the VPA (see RunsTerminate).                                  *)
(***************************************************************************)
CONSTANTS
    Memory,           \* memory quantities
    NoMemory,         \* none
    HasPostActions    \* whether workloads are restarted after the update

VARIABLES
    run,       \* how far the run in progress is
    applied,   \* the memory that it applied
    current,   \* the memory that the status calls current
    failed     \* whether the status reports a failure

vars == <<run, applied, current, failed>>

Stages == {"none", "patched", "restarted"}

TypeOK ==
    /\ run \in Stages
    /\ applied \in Memory \cup {NoMemory}
    /\ current \in Memory \cup {NoMemory}
    /\ failed \in BOOLEAN
    /\ run = "none" <=> applied = NoMemory

Init ==
    /\ run = "none"
    /\ applied = NoMemory
    /\ current = NoMemory
    /\ failed = FALSE

\* The memory of the cluster is shown as it is read.
Observe ==
    /\ current' \in Memory
    /\ UNCHANGED <<run, applied, failed>>

Start ==
    /\ run = "none"
    /\ run' = "patched"
    /\ applied' \in Memory
    /\ current' \in Memory \cup {current}
    /\ UNCHANGED failed

\* Nothing was applied, so nothing becomes a run.
FailToStart ==
    /\ run = "none"
    /\ failed' = TRUE
    /\ current' \in Memory \cup {current}
    /\ UNCHANGED <<run, applied>>

Restart ==
    /\ HasPostActions
    /\ run = "patched"
    /\ run' = "restarted"
    /\ UNCHANGED <<applied, current, failed>>

End ==
    /\ run' = "none"
    /\ applied' = NoMemory

Complete ==
    /\ run = IF HasPostActions THEN "restarted" ELSE "patched"
    /\ End
    /\ current' = applied
    /\ failed' = FALSE

Fail ==
    /\ run # "none"
    /\ End
    /\ failed' = TRUE
    /\ UNCHANGED current

Next ==
    \/ Observe
    \/ Start
    \/ FailToStart
    \/ Restart
    \/ Complete
    \/ Fail

Spec == Init /\ [][Next]_vars
=============================================================================
