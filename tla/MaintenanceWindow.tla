------------------------- MODULE MaintenanceWindow -------------------------
(***************************************************************************)
(* The maintenance window of cron.go.  The cron expression is abstracted to *)
(* the set of instants at which it fires; gronx's PrevTickBefore and        *)
(* NextTickAfter are the greatest fire time up to now and the least one     *)
(* after now.  Time is counted in the smallest unit the model tells apart.  *)
(***************************************************************************)
EXTENDS Integers, FiniteSetsExt

CONSTANTS
    FireTimes,        \* the instants at which the cron expression fires
    TimeoutMinutes,   \* how long a window stays open
    Jitter            \* cronRequeueJitter

ASSUME FireTimesAssumption == FireTimes \subseteq Nat
ASSUME TimeoutAssumption == TimeoutMinutes \in Nat
ASSUME JitterAssumption == Jitter \in Nat

PrevTicks(now) == {t \in FireTimes : t <= now}
NextTicks(now) == {t \in FireTimes : t > now}

\* Evaluate fails when it is outside a window and no next fire time is found.
\* "inWindow" and "nextOpen" are then the zero values of WindowResult.
Evaluate(now) ==
    LET prev == Max(PrevTicks(now))
        next == Min(NextTicks(now))
        Upcoming ==
            IF NextTicks(now) = {}
            THEN [error |-> TRUE, inWindow |-> FALSE,
                  nextOpen |-> 0, windowEnd |-> 0]
            ELSE [error |-> FALSE, inWindow |-> FALSE,
                  nextOpen |-> next, windowEnd |-> next + TimeoutMinutes]
    IN  IF PrevTicks(now) # {} /\ now < prev + TimeoutMinutes
        THEN [error |-> FALSE, inWindow |-> TRUE,
              nextOpen |-> prev, windowEnd |-> prev + TimeoutMinutes]
        ELSE Upcoming

\* A slip for a mutation run: the wait is to the end of the window, also of one
\* that has not opened yet.
RequeueAfterWindowEnd(result, now) == result.windowEnd - now + Jitter

\* A slip for a mutation run: the times are subtracted the wrong way round,
\* and nothing looks at the sign.
RequeueAfterSwapped(result, now) == now - result.nextOpen

\* The wait before the next reconcile, given a window result.
RequeueAfter(result, now) ==
    LET until == IF result.inWindow THEN result.windowEnd - now
                                    ELSE result.nextOpen - now
    IN  IF until < 0 THEN Jitter ELSE until + Jitter
=============================================================================
