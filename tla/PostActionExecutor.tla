------------------------- MODULE PostActionExecutor -------------------------
(***************************************************************************)
(* The blocking executor of postactions.go: Execute restarts one workload   *)
(* after the other and waits for each with a timeout of its own.  The       *)
(* controller no longer calls it; TriggerPostActions and                    *)
(* ArePostActionsComplete, modelled in Reconciler, took its place.          *)
(*                                                                         *)
(* Every call to the API server is a step.  The five seconds between two    *)
(* polls are any time; the timeout is counted in ticks.                     *)
(***************************************************************************)
EXTENDS Rollouts, Sequences

CONSTANTS
    PostActions,             \* spec.postActions: targets, in order
    RolloutRestartTimeout,   \* ticks until timeoutCtx is done
    MaxFaults                \* failures (bound)

ASSUME PostActionsAssumption == PostActions \in Seq(Targets)
ASSUME TimeoutAssumption == RolloutRestartTimeout \in Nat \ {0}
ASSUME MaxFaultsAssumption == MaxFaults \in Nat

VARIABLES
    pc,        \* the next call of Execute
    next,      \* position in the post-actions
    elapsed,   \* ticks since timeoutCtx was made
    result,    \* what Execute returned last
    faults,    \* failures still allowed (bound)
    restarted  \* history: targets restarted by the running Execute

thread == <<pc, next, elapsed, result>>
vars == <<workloads, thread, faults, restarted>>

TypeOK ==
    /\ WorkloadsTypeOK
    /\ pc \in {"idle", "get", "patch", "poll", "wait"}
    /\ next \in DOMAIN PostActions \cup {1}
    /\ elapsed \in 0 .. RolloutRestartTimeout
    /\ result \in {"none", "nil", "error"}
    /\ faults \in 0 .. MaxFaults
    /\ restarted \subseteq Targets

Init ==
    /\ WorkloadsInit
    /\ pc = "idle"
    /\ next = 1
    /\ elapsed = 0
    /\ result = "none"
    /\ faults = MaxFaults
    /\ restarted = {}

Target == PostActions[next]

NoFault == UNCHANGED faults
Fault == faults > 0 /\ faults' = faults - 1

Return(value) ==
    /\ pc' = "idle"
    /\ next' = 1
    /\ elapsed' = 0
    /\ result' = value

GoTo(call) == pc' = call /\ UNCHANGED <<next, elapsed, result>>

Execute ==
    /\ pc = "idle"
    /\ IF PostActions = << >> THEN Return("nil") ELSE GoTo("get")
    /\ restarted' = {}
    /\ UNCHANGED <<workloads, faults>>

\* rolloutRestartDeployment, rolloutRestartStatefulSet, rolloutRestartDaemonSet
GetTarget ==
    /\ pc = "get"
    /\ \/ Fault /\ Return("error")
       \/ NoFault /\ GoTo("patch")
    /\ UNCHANGED <<workloads, restarted>>

\* The answer of a patch that takes effect may be lost.
PatchTarget ==
    /\ pc = "patch"
    /\ \/ /\ Fault
          /\ Return("error")
          /\ UNCHANGED <<workloads, restarted>>
       \/ /\ RestartWorkload(Target)
          /\ restarted' = restarted \cup {Target}
          /\ \/ Fault /\ Return("error")
             \/ /\ NoFault
                /\ pc' = "poll"
                /\ elapsed' = 0
                /\ UNCHANGED <<next, result>>

\* ctx.Done(): the timeout has passed, or the caller's context has ended.
Done ==
    \/ elapsed = RolloutRestartTimeout /\ NoFault
    \/ Fault

\* Slips for mutation runs: a target is not waited for, the loop runs past the
\* last one, or every poll has the timeout for itself.
PollTargetOnce ==
    /\ pc = "poll"
    /\ NoFault
    /\ IF next = Len(PostActions)
       THEN Return("nil")
       ELSE pc' = "get" /\ next' = next + 1 /\ UNCHANGED <<elapsed, result>>
    /\ UNCHANGED <<workloads, restarted>>

PollTargetPastTheEnd ==
    /\ pc = "poll"
    /\ \/ Done /\ Return("error")
       \/ /\ elapsed < RolloutRestartTimeout
          /\ NoFault
          /\ IF ~IsRolloutComplete(Target) THEN GoTo("wait")
             ELSE IF next > Len(PostActions) THEN Return("nil")
             ELSE pc' = "get" /\ next' = next + 1 /\ UNCHANGED <<elapsed, result>>
    /\ UNCHANGED <<workloads, restarted>>

WaitToPollAnew ==
    /\ pc = "wait"
    /\ \/ Done /\ Return("error")
       \/ NoFault /\ pc' = "poll" /\ elapsed' = 0 /\ UNCHANGED <<next, result>>
    /\ UNCHANGED <<workloads, restarted>>

\* Once the context is done, a rollout that is complete by now is an error too.
PollTarget ==
    /\ pc = "poll"
    /\ \/ Done /\ Return("error")
       \/ /\ elapsed < RolloutRestartTimeout
          /\ NoFault
          /\ IF ~IsRolloutComplete(Target) THEN GoTo("wait")
             ELSE IF next = Len(PostActions) THEN Return("nil")
             ELSE pc' = "get" /\ next' = next + 1 /\ UNCHANGED <<elapsed, result>>
    /\ UNCHANGED <<workloads, restarted>>

WaitToPoll ==
    /\ pc = "wait"
    /\ \/ Done /\ Return("error")
       \/ NoFault /\ GoTo("poll")
    /\ UNCHANGED <<workloads, restarted>>

ExecuteStep == GetTarget \/ PatchTarget \/ PollTarget \/ WaitToPoll

Tick ==
    /\ pc \in {"poll", "wait"}
    /\ elapsed < RolloutRestartTimeout
    /\ elapsed' = elapsed + 1
    /\ UNCHANGED <<workloads, pc, next, result, faults, restarted>>

WorkloadControllers ==
    /\ \E t \in Targets : WorkloadStep(t)
    /\ UNCHANGED <<thread, faults, restarted>>

Next == Execute \/ ExecuteStep \/ Tick \/ WorkloadControllers

\* Calls return and time passes; the rollouts may be stuck forever.
Fairness == WF_vars(ExecuteStep) /\ WF_vars(Tick)

Spec == Init /\ [][Next]_vars /\ Fairness

-----------------------------------------------------------------------------

\* Workloads are restarted one after the other: when the next one is, those
\* before it have finished their rollout, as far as their status can tell
\* (Execute, dispatch).
OneRolloutAtATime ==
    [][ restarted' # restarted /\ restarted' # {} =>
          \A t \in restarted : t \notin Lagging /\ Surge[t] = 0 => RolledOut(t) ]_vars

\* Execute returns, whatever the workloads do.
ExecuteReturns == pc # "idle" ~> pc = "idle"
=============================================================================
