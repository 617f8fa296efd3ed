----------------------------- MODULE MCReplicas -----------------------------
(* A small instance of two controllers for one policy. *)
EXTENDS Replicas

\* Two windows, [0, 1) and [2, 3), and a third that the clock never reaches.
MCFireTimes == {0, 2, 9}

MCNoPostActions == << >>
MCOnePostAction == <<"api">>
=============================================================================
