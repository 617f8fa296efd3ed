----------------------------- MODULE MCOperator -----------------------------
(* A small instance of the reconcile loop under its work queue. *)
EXTENDS Operator

\* Two windows that overlap and one on its own.
MCFireTimes == {1, 4}

MCOnePostAction == <<"api">>

\* WindowsAreMet is about a schedule like this one.
ASSUME WindowsAreRoomy == RoomyWindows
=============================================================================
