------------------------ MODULE MCPostActionExecutor ------------------------
(* A small instance of the post-action executor for TLC. *)
EXTENDS PostActionExecutor

MCTargets == {"db", "web", "agent"}
MCKind == [db |-> "StatefulSet", web |-> "Deployment", agent |-> "DaemonSet"]
MCDesired == [db |-> 2, web |-> 2, agent |-> 2]
MCSurge == [db |-> 0, web |-> 1, agent |-> 0]
MCLagging == {"agent", "web"}
MCPostActions == <<"db", "agent", "web">>
=============================================================================
