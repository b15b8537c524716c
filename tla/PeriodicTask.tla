---------------------------- MODULE PeriodicTask ----------------------------
(***************************************************************************)
(* utils::PeriodicTask: the loop of Run(), woken by its period, by new       *)
(* settings and by ForceStepAsync(), which share one auto-reset event (what   *)
(* SingleConsumerEvent shows of it); the owner that starts and stops it; the   *)
(* testsuite, which suspends the loop and makes steps of its own. The          *)
(* settings are a version number: every version has other periods.            *)
(***************************************************************************)
EXTENDS Integers

CONSTANTS
  Forcers,          \* callers of ForceStepAsync()
  Debuggers,        \* callers of SynchronizeDebug(), SuspendDebug() and ResumeDebug()
  kNow,             \* the flag of the settings
  Timed,            \* the period may expire
  MaxVersion,       \* bound: settings, by Start() and SetSettings()
  MaxForces         \* bound: calls of ForceStepAsync()

PeriodicAssumption ==
  /\ {kNow, Timed} \subseteq BOOLEAN
  /\ {MaxVersion, MaxForces} \subseteq Nat

VARIABLES
  task,         \* the task is valid: IsRunning()
  cancelled,    \* its cancellation was requested
  settings,     \* version of the settings
  writing,      \* Start() holds the writer of the settings
  event,        \* changed_event
  force,        \* should_force_step
  suspended,    \* suspend_state
  stepping,     \* step_mutex is locked
  rpc, failed, period,      \* Run(): where it is, !no_exception, the period it waits for
  opc, starting,            \* Start() and Stop() of the owner
  spc,                      \* SetSettings()
  fpc, forces,              \* ForceStepAsync()
  dpc,                      \* the testsuite
  owed                      \* ForceStepAsync() was called and no step has begun since

runVars == <<rpc, failed, period>>
ownerVars == <<task, opc, starting, writing>>
vars == <<ownerVars, cancelled, settings, event, force, suspended, stepping, runVars,
          spc, fpc, forces, dpc, owed>>

Init ==
  /\ task = FALSE
  /\ cancelled = FALSE
  /\ settings = 0
  /\ writing = FALSE
  /\ event = FALSE
  /\ force = FALSE
  /\ suspended = FALSE
  /\ stepping = FALSE
  /\ rpc = "none"
  /\ failed = FALSE
  /\ period = <<0, FALSE>>
  /\ opc = "idle"
  /\ starting = FALSE
  /\ spc = "idle"
  /\ fpc = [f \in Forcers |-> "idle"]
  /\ forces = 0
  /\ dpc = [d \in Debuggers |-> "idle"]
  /\ owed = FALSE

----------------------------------------------------------------------------
(* Run() *)

\* The loop condition; the first step is skipped without kNow.
Loop ==
  /\ rpc \in {"begin", "loop"}
  /\ rpc' = IF cancelled THEN "done" ELSE IF rpc = "begin" /\ ~kNow THEN "read" ELSE "lock"
  /\ UNCHANGED <<ownerVars, cancelled, settings, event, force, suspended, stepping, failed, period,
                 spc, fpc, forces, dpc, owed>>

BeginStep ==
  /\ rpc = "lock"
  /\ ~stepping
  /\ \/ suspended /\ rpc' = "read" /\ failed' = FALSE /\ UNCHANGED stepping
     \/ ~suspended /\ rpc' = "step" /\ stepping' = TRUE /\ UNCHANGED failed
  /\ owed' = FALSE
  /\ UNCHANGED <<ownerVars, cancelled, settings, event, force, suspended, period,
                 spc, fpc, forces, dpc>>

EndStep ==
  /\ rpc = "step"
  /\ failed' \in BOOLEAN
  /\ stepping' = FALSE
  /\ rpc' = "read"
  /\ UNCHANGED <<ownerVars, cancelled, settings, event, force, suspended, period,
                 spc, fpc, forces, dpc, owed>>

ReadSettings ==
  /\ rpc = "read"
  /\ period' = <<settings, failed>>
  /\ rpc' = "wait"
  /\ failed' = failed
  /\ UNCHANGED <<ownerVars, cancelled, settings, event, force, suspended, stepping,
                 spc, fpc, forces, dpc, owed>>

\* WaitForEventUntil(): an event that arrives with the deadline is left for the next wait.
WaitEnds ==
  /\ rpc = "wait"
  /\ \/ event /\ event' = FALSE /\ rpc' = "woken"
     \/ (Timed \/ cancelled) /\ rpc' = "loop" /\ UNCHANGED event
  /\ UNCHANGED <<ownerVars, cancelled, settings, force, suspended, stepping, failed, period,
                 spc, fpc, forces, dpc, owed>>

Woken ==
  /\ rpc = "woken"
  /\ \/ force /\ rpc' = "loop" /\ UNCHANGED period
     \/ ~force /\ rpc' = "wait" /\ period' = <<settings, failed>>
  /\ force' = FALSE
  /\ UNCHANGED <<ownerVars, cancelled, settings, event, suspended, stepping, failed,
                 spc, fpc, forces, dpc, owed>>

----------------------------------------------------------------------------
(* The owner *)

\* Start() takes the writer of the settings, then stops what is running.
Start ==
  /\ opc = "idle"
  /\ settings < MaxVersion
  /\ writing' = TRUE
  /\ starting' = TRUE
  /\ opc' = IF task THEN "sync" ELSE "start"
  /\ cancelled' = task
  /\ UNCHANGED <<task, settings, event, force, suspended, stepping, runVars,
                 spc, fpc, forces, dpc, owed>>

Stop ==
  /\ opc = "idle"
  /\ task
  /\ starting' = FALSE
  /\ cancelled' = TRUE
  /\ opc' = "sync"
  /\ UNCHANGED <<task, writing, settings, event, force, suspended, stepping, runVars,
                 spc, fpc, forces, dpc, owed>>

SyncCancel ==
  /\ opc = "sync"
  /\ rpc = "done"
  /\ opc' = "reset"
  /\ UNCHANGED <<task, starting, writing, cancelled, settings, event, force, suspended, stepping,
                 runVars, spc, fpc, forces, dpc, owed>>

ResetEvent ==
  /\ opc = "reset"
  /\ event' = FALSE
  /\ opc' = "clear"
  /\ UNCHANGED <<task, starting, writing, cancelled, settings, force, suspended, stepping,
                 runVars, spc, fpc, forces, dpc, owed>>

\* Mutant: should_force_step is left as it is.
ClearForceNot ==
  /\ opc = "clear"
  /\ owed' = FALSE
  /\ task' = FALSE
  /\ rpc' = "none"
  /\ opc' = IF starting THEN "start" ELSE "idle"
  /\ UNCHANGED <<starting, writing, cancelled, settings, event, force, suspended, stepping,
                 failed, period, spc, fpc, forces, dpc>>

ClearForce ==
  /\ opc = "clear"
  /\ force' = FALSE
  /\ owed' = FALSE
  /\ task' = FALSE
  /\ rpc' = "none"
  /\ opc' = IF starting THEN "start" ELSE "idle"
  /\ UNCHANGED <<starting, writing, cancelled, settings, event, suspended, stepping,
                 failed, period, spc, fpc, forces, dpc>>

DoStart ==
  /\ opc = "start"
  /\ settings' = settings + 1
  /\ writing' = FALSE
  /\ cancelled' = FALSE
  /\ task' = TRUE
  /\ rpc' = "begin"
  /\ failed' = FALSE
  /\ opc' = "idle"
  /\ UNCHANGED <<starting, event, force, suspended, stepping, period, spc, fpc, forces, dpc, owed>>

----------------------------------------------------------------------------
(* Settings and forced steps *)

SetSettings ==
  /\ spc = "idle"
  /\ ~writing
  /\ settings < MaxVersion
  /\ settings' = settings + 1
  /\ spc' = "send"
  /\ UNCHANGED <<ownerVars, cancelled, event, force, suspended, stepping, runVars,
                 fpc, forces, dpc, owed>>

SendChanged ==
  /\ spc = "send"
  /\ event' = TRUE
  /\ spc' = "idle"
  /\ UNCHANGED <<ownerVars, cancelled, settings, force, suspended, stepping, runVars,
                 fpc, forces, dpc, owed>>

SetForce(f) ==
  /\ fpc[f] = "idle"
  /\ forces < MaxForces
  /\ forces' = forces + 1
  /\ force' = TRUE
  /\ owed' = TRUE
  /\ fpc' = [fpc EXCEPT ![f] = "send"]
  /\ UNCHANGED <<ownerVars, cancelled, settings, event, suspended, stepping, runVars, spc, dpc>>

SendForce(f) ==
  /\ fpc[f] = "send"
  /\ event' = TRUE
  /\ fpc' = [fpc EXCEPT ![f] = "idle"]
  /\ UNCHANGED <<ownerVars, cancelled, settings, force, suspended, stepping, runVars,
                 spc, forces, dpc, owed>>

----------------------------------------------------------------------------
(* The testsuite *)

SynchronizeDebug(d) ==
  /\ dpc[d] = "idle"
  /\ task
  /\ dpc' = [dpc EXCEPT ![d] = "lock"]
  /\ UNCHANGED <<ownerVars, cancelled, settings, event, force, suspended, stepping, runVars,
                 spc, fpc, forces, owed>>

StepDebug(d) ==
  /\ dpc[d] = "lock"
  /\ ~stepping
  /\ stepping' = TRUE
  /\ dpc' = [dpc EXCEPT ![d] = "step"]
  /\ UNCHANGED <<ownerVars, cancelled, settings, event, force, suspended, runVars,
                 spc, fpc, forces, owed>>

EndStepDebug(d) ==
  /\ dpc[d] = "step"
  /\ stepping' = FALSE
  /\ dpc' = [dpc EXCEPT ![d] = "idle"]
  /\ UNCHANGED <<ownerVars, cancelled, settings, event, force, suspended, runVars,
                 spc, fpc, forces, owed>>

SuspendDebug(d) ==
  /\ dpc[d] = "idle"
  /\ ~stepping
  /\ suspended' = TRUE
  /\ UNCHANGED <<ownerVars, cancelled, settings, event, force, stepping, runVars,
                 spc, fpc, forces, dpc, owed>>

ResumeDebug(d) ==
  /\ dpc[d] = "idle"
  /\ suspended' = FALSE
  /\ UNCHANGED <<ownerVars, cancelled, settings, event, force, stepping, runVars,
                 spc, fpc, forces, dpc, owed>>

----------------------------------------------------------------------------

Run == Loop \/ BeginStep \/ EndStep \/ ReadSettings \/ WaitEnds \/ Woken
OwnerStep == SyncCancel \/ ResetEvent \/ ClearForce \/ DoStart
DebugStep(d) == StepDebug(d) \/ EndStepDebug(d)

Next ==
  \/ Run
  \/ Start \/ Stop \/ OwnerStep
  \/ SetSettings \/ SendChanged
  \/ \E f \in Forcers : SetForce(f) \/ SendForce(f)
  \/ \E d \in Debuggers :
       SynchronizeDebug(d) \/ DebugStep(d) \/ SuspendDebug(d) \/ ResumeDebug(d)

Spec == Init /\ [][Next]_vars

\* The task runs, its callback returns, and whoever has begun a call goes on.
Fairness ==
  /\ WF_vars(Run)
  /\ WF_vars(OwnerStep)
  /\ WF_vars(SendChanged)
  /\ \A f \in Forcers : WF_vars(SendForce(f))
  /\ \A d \in Debuggers : WF_vars(DebugStep(d))

----------------------------------------------------------------------------
(* Properties *)

\* Every variable has its type.
TypeOK ==
  /\ {task, cancelled, writing, event, force, suspended, stepping, failed, starting, owed} \subseteq BOOLEAN
  /\ settings \in 0 .. MaxVersion
  /\ rpc \in {"none", "begin", "loop", "lock", "step", "read", "wait", "woken", "done"}
  /\ period \in (0 .. MaxVersion) \X BOOLEAN
  /\ opc \in {"idle", "sync", "reset", "clear", "start"}
  /\ spc \in {"idle", "send"}
  /\ fpc \in [Forcers -> {"idle", "send"}]
  /\ forces \in 0 .. MaxForces
  /\ dpc \in [Debuggers -> {"idle", "lock", "step"}]
  /\ task <=> rpc # "none"

\* A request for a step is never left behind without the event that makes Run() look
\* at it, whatever waits time out and however Stop() resets both.
ForceNotLost ==
  force => \/ event
           \/ rpc = "woken"
           \/ opc = "clear"
           \/ \E f \in Forcers : fpc[f] = "send"

\* Run() never goes on waiting for a period that SetSettings() has replaced, or for the
\* plain period after a failed step.
NoStalePeriod == (rpc = "wait" /\ period # <<settings, failed>>) => (event \/ spc = "send")

\* Once SuspendDebug() has returned the loop makes no step.
SuspendedIsQuiet == suspended => rpc # "step"

\* Once Stop() has returned the callback is not running.
StoppedIsQuiet == (opc = "idle" /\ ~task) => ~stepping

=============================================================================
