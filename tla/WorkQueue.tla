------------------------------ MODULE WorkQueue ------------------------------
(***************************************************************************)
(* The controller-runtime work queue as it serves one policy: the policy is *)
(* queued or not, and a delaying queue may hold it until some time.  Both   *)
(* live in the controller's memory.  The library is external; what the      *)
(* operator relies on is:                                                   *)
(*   - a policy that is added while it is queued is queued once, and one    *)
(*     that is added while it is reconciled is queued again after that;     *)
(*   - of several delays the earliest wins, and it stays when the policy is *)
(*     reconciled before it is over for another reason;                     *)
(*   - a result without delay leaves the policy to its events.              *)
(***************************************************************************)
EXTENDS Integers

CONSTANTS
    Error,     \* a reconcile returns an error
    Backoff,   \* the longest wait after an error (bound of the rate limiter)
    Never

ASSUME BackoffAssumption == Backoff \in Nat \ {0}
ASSUME NeverAssumption == Never \notin Nat /\ Error \notin Nat

VARIABLES
    queued,   \* the policy waits for a worker
    wakeAt    \* when the delaying queue adds it, or Never

queue == <<queued, wakeAt>>

QueueTypeOK == queued \in BOOLEAN /\ wakeAt \in Nat \cup {Never}

\* A controller that starts lists the policies and knows of no delay.
QueueInit == queued = TRUE /\ wakeAt = Never
QueueIsLost == queued' = TRUE /\ wakeAt' = Never

Earliest(a, b) ==
    IF a = Never THEN b ELSE IF b = Never THEN a ELSE IF a < b THEN a ELSE b

\* The delays after which a reconcile that returns a result is repeated.
Delays(result) ==
    IF result = Error THEN 1 .. Backoff
    ELSE IF result = 0 THEN {}
    ELSE {result}

\* A worker takes the policy.
TakeFromQueue ==
    /\ queued
    /\ queued' = FALSE
    /\ UNCHANGED wakeAt

\* The worker is done with the policy, at the time now; an event came in
\* meanwhile or not.
PutBack(result, now, event) ==
    /\ queued' = (queued \/ event)
    /\ IF Delays(result) = {}
       THEN UNCHANGED wakeAt
       ELSE \E d \in Delays(result) : wakeAt' = Earliest(wakeAt, now + d)

IsDue(now) == wakeAt # Never /\ wakeAt <= now

DelayIsOver(now) ==
    /\ IsDue(now)
    /\ queued' = TRUE
    /\ wakeAt' = Never
=============================================================================
