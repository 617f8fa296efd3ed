---------------------------- MODULE MCReconciler ----------------------------
(* Small instances of the reconcile loop for TLC. *)
EXTENDS ReconcilerRefinement

\* Two windows, [0, 1) and [2, 3), and a third that the clock never reaches.
MCFireTimes == {0, 2, 9}

\* The same two windows with no fire time after them.
MCLastFireTimes == {0, 2}

MCNoPostActions == << >>
MCOnePostAction == <<"api">>
MCTwoPostActions == <<"api", "worker">>
=============================================================================
