-------------------------- MODULE ComponentSystem --------------------------
(***************************************************************************)
(* components::impl::ComponentContextImpl as Manager drives it. Every         *)
(* component is constructed by a task of its own and finds the components it   *)
(* needs, waiting for those that are not there yet; a failure cancels the      *)
(* load. Then the components are told that all are loaded, that the service     *)
(* shuts down, that all are stopping, and are destroyed; at each of these       *)
(* stages one task per component waits for the components before it in the      *)
(* order of dependencies. Condition variables are what ConditionVariable shows: *)
(* a waiter goes on when its predicate holds.                                   *)
(***************************************************************************)
EXTENDS Integers, FiniteSets

CONSTANTS
  Components,
  MayThrow        \* hooks that may throw: a subset of {"constructor", "OnAllComponentsLoaded"}

SystemAssumption == MayThrow \subseteq {"constructor", "OnAllComponentsLoaded"}

VARIABLES
  wants,        \* the components each constructor asks for
  deps,         \* it_depends_on_; depends_on_it_ is its inverse
  found,        \* what each constructor has got
  alive,        \* component_ is not null
  stage,        \* stage_
  cancelled,    \* stage_switching_cancelled_
  notified,     \* calls of OnLoadingCancelled()
  pc,           \* of the component's task
  pending,      \* components its stage switching still has to wait for
  phase,        \* of the manager
  todo,         \* components left in the loop that cancels
  failing       \* a failed stage switching has begun to cancel the others

loadVars == <<deps, found, notified>>
vars == <<wants, loadVars, alive, stage, cancelled, pc, pending, phase, todo, failing>>

Init ==
  /\ wants \in [Components -> SUBSET Components]
  /\ deps = [c \in Components |-> {}]
  /\ found = [c \in Components |-> {}]
  /\ alive = [c \in Components |-> FALSE]
  /\ stage = [c \in Components |-> "kNull"]
  /\ cancelled = [c \in Components |-> FALSE]
  /\ notified = [c \in Components |-> 0]
  /\ pc = [c \in Components |-> "construct"]
  /\ pending = [c \in Components |-> {}]
  /\ phase = "load"
  /\ todo = {}
  /\ failing = FALSE

----------------------------------------------------------------------------
(* Construction *)

DependsOnIt(c) == {d \in Components : c \in deps[d]}

\* The components FindDependencyPathDfs() reaches from c.
Reached(c) ==
  LET from[n \in 0 .. Cardinality(Components)] ==
        IF n = 0 THEN {c} ELSE from[n - 1] \cup UNION {DependsOnIt(d) : d \in from[n - 1]}
  IN  from[Cardinality(Components)]

\* DoFindComponent(): AddDependency() under the lock, then the component if it is there.
DoFindComponent(c, d) ==
  /\ pc[c] = "construct"
  /\ d \in wants[c] \ found[c]
  /\ \/ /\ d \in Reached(c)
        /\ pc' = [pc EXCEPT ![c] = "failed"]
        /\ UNCHANGED <<deps, found>>
     \/ /\ d \notin Reached(c)
        /\ deps' = [deps EXCEPT ![c] = @ \cup {d}]
        /\ \/ alive[d] /\ found' = [found EXCEPT ![c] = @ \cup {d}] /\ UNCHANGED pc
           \/ ~alive[d] /\ pc' = [pc EXCEPT ![c] = "search"] /\ UNCHANGED found
  /\ UNCHANGED <<wants, notified, alive, stage, cancelled, pending, phase, todo, failing>>

\* The predicate holds for a cancelled component too; a cancelled task gives up.
WaitAndGetComponent(c, d) ==
  /\ pc[c] = "search"
  /\ d \in deps[c] \ found[c]
  /\ \/ /\ cancelled[d] \/ (phase = "join" /\ ~alive[d])
        /\ pc' = [pc EXCEPT ![c] = "failed"]
        /\ UNCHANGED found
     \/ /\ alive[d]
        /\ ~cancelled[d]
        /\ found' = [found EXCEPT ![c] = @ \cup {d}]
        /\ pc' = [pc EXCEPT ![c] = "construct"]
  /\ UNCHANGED <<wants, deps, notified, alive, stage, cancelled, pending, phase, todo, failing>>

ConstructorThrows(c) ==
  /\ "constructor" \in MayThrow
  /\ pc[c] = "construct"
  /\ pc' = [pc EXCEPT ![c] = "failed"]
  /\ UNCHANGED <<wants, loadVars, alive, stage, cancelled, pending, phase, todo, failing>>

SetComponent(c) ==
  /\ pc[c] = "construct"
  /\ wants[c] \subseteq found[c]
  /\ alive' = [alive EXCEPT ![c] = TRUE]
  /\ stage' = [stage EXCEPT ![c] = "kCreated"]
  /\ pc' = [pc EXCEPT ![c] = IF cancelled[c] THEN "cancel" ELSE "done"]
  /\ UNCHANGED <<wants, loadVars, cancelled, pending, phase, todo, failing>>

\* Once, by the task or by the manager, and only for a component that is there.
OnLoadingCancelled(c) ==
  notified' = [notified EXCEPT ![c] = IF alive[c] THEN 1 ELSE @]

CancelOwn(c) ==
  /\ pc[c] = "cancel"
  /\ OnLoadingCancelled(c)
  /\ pc' = [pc EXCEPT ![c] = "done"]
  /\ UNCHANGED <<wants, deps, found, alive, stage, cancelled, pending, phase, todo, failing>>

----------------------------------------------------------------------------
(* The manager: AddComponents() *)

LoadFails ==
  /\ phase = "load"
  /\ \E c \in Components : pc[c] = "failed"
  /\ phase' = "flags"
  /\ todo' = Components
  /\ UNCHANGED <<wants, loadVars, alive, stage, cancelled, pc, pending, failing>>

\* CancelComponentsLoad(): first every flag, then every component.
CancelSwitching(c) ==
  /\ phase = "flags"
  /\ c \in todo
  /\ cancelled' = [cancelled EXCEPT ![c] = TRUE]
  /\ todo' = IF todo = {c} THEN Components ELSE todo \ {c}
  /\ phase' = IF todo = {c} THEN "calls" ELSE "flags"
  /\ UNCHANGED <<wants, loadVars, alive, stage, pc, pending, failing>>

CancelLoad(c) ==
  /\ phase = "calls"
  /\ c \in todo
  /\ OnLoadingCancelled(c)
  /\ todo' = todo \ {c}
  /\ phase' = IF todo = {c} THEN "join" ELSE "calls"
  /\ UNCHANGED <<wants, deps, found, alive, stage, cancelled, pc, pending, failing>>

\* PrepareComponentLifetimeStageSwitching() and a task per component.
BeginSwitching(next, waits) ==
  /\ phase' = next
  /\ cancelled' = [c \in Components |-> FALSE]
  /\ pc' = [c \in Components |-> "switch"]
  /\ pending' = waits
  /\ failing' = FALSE
  /\ UNCHANGED <<wants, loadVars, alive, stage, todo>>

Ended(S) == \A c \in Components : pc[c] \in S
kNormal == deps
kInverted == [c \in Components |-> DependsOnIt(c)]
kNone == [c \in Components |-> {}]

OnAllComponentsLoaded ==
  /\ phase = "load"
  /\ Ended({"done"})
  /\ BeginSwitching("loaded", kNormal)

\* A hook that throws is waited for with all the others.
AfterLoaded ==
  /\ phase = "loaded"
  /\ Ended({"done"})
  /\ phase' = "running"
  /\ UNCHANGED <<wants, loadVars, alive, stage, cancelled, pc, pending, todo, failing>>

OnGracefulShutdown == phase = "running" /\ BeginSwitching("graceful", kNone)

OnAllComponentsAreStopping ==
  /\ \/ phase = "join" /\ Ended({"done", "failed"})
     \/ phase = "loaded" /\ Ended({"done", "failed"}) /\ ~Ended({"done"})
     \/ phase = "running"
     \/ phase = "graceful" /\ Ended({"done"})
  /\ BeginSwitching("stopping", kInverted)

\* Mutant: a component goes before those that depend on it.
ClearComponentsForward ==
  /\ phase = "stopping"
  /\ Ended({"done"})
  /\ BeginSwitching("clearing", kNormal)

ClearComponents ==
  /\ phase = "stopping"
  /\ Ended({"done"})
  /\ BeginSwitching("clearing", kInverted)

Cleared ==
  /\ phase = "clearing"
  /\ Ended({"done"})
  /\ phase' = "end"
  /\ UNCHANGED <<wants, loadVars, alive, stage, cancelled, pc, pending, todo, failing>>

----------------------------------------------------------------------------
(* ProcessSingleComponentLifetimeStageSwitching() *)

NextStage ==
  CASE phase = "loaded" -> "kRunning"
    [] phase = "graceful" -> "kGracefulShutdown"
    [] phase = "stopping" -> "kReadyForClearing"
    [] OTHER -> "kNull"

\* Returns for a cancelled switching as well: Wait() is true whenever the predicate is.
WaitStage(c, d) ==
  /\ pc[c] = "switch"
  /\ d \in pending[c]
  /\ cancelled[d] \/ stage[d] = NextStage
  /\ pending' = [pending EXCEPT ![c] = @ \ {d}]
  /\ UNCHANGED <<wants, loadVars, alive, stage, cancelled, pc, phase, todo, failing>>

\* ClearComponent() takes the pointer out before it destroys the component.
BeginHandler(c) ==
  /\ pc[c] = "switch"
  /\ pending[c] = {}
  /\ pc' = [pc EXCEPT ![c] = IF alive[c] THEN "handler" ELSE "set"]
  /\ alive' = [alive EXCEPT ![c] = @ /\ phase # "clearing"]
  /\ UNCHANGED <<wants, loadVars, stage, cancelled, pending, phase, todo, failing>>

EndHandler(c) ==
  /\ pc[c] = "handler"
  /\ pc' = [pc EXCEPT ![c] = "set"]
  /\ UNCHANGED <<wants, loadVars, alive, stage, cancelled, pending, phase, todo, failing>>

\* The first to fail cancels the switching of all.
HandlerThrows(c) ==
  /\ pc[c] = "handler"
  /\ phase = "loaded"
  /\ "OnAllComponentsLoaded" \in MayThrow
  /\ cancelled' = [cancelled EXCEPT ![c] = TRUE]
  /\ failing' = TRUE
  /\ todo' = IF failing THEN todo ELSE Components
  /\ pc' = [pc EXCEPT ![c] = IF failing THEN "setFailed" ELSE "cancelAll"]
  /\ UNCHANGED <<wants, loadVars, alive, stage, pending, phase>>

CancelAll(c) ==
  /\ pc[c] = "cancelAll"
  /\ \E d \in todo :
       /\ cancelled' = [cancelled EXCEPT ![d] = TRUE]
       /\ todo' = todo \ {d}
       /\ pc' = IF todo = {d} THEN [pc EXCEPT ![c] = "setFailed"] ELSE pc
  /\ UNCHANGED <<wants, loadVars, alive, stage, pending, phase, failing>>

SetStage(c) ==
  /\ pc[c] \in {"set", "setFailed"}
  /\ stage' = [stage EXCEPT ![c] = NextStage]
  /\ pc' = [pc EXCEPT ![c] = IF @ = "set" THEN "done" ELSE "failed"]
  /\ UNCHANGED <<wants, loadVars, alive, cancelled, pending, phase, todo, failing>>

----------------------------------------------------------------------------

ConstructStep(c) ==
  \/ \E d \in Components : DoFindComponent(c, d) \/ WaitAndGetComponent(c, d)
  \/ SetComponent(c) \/ CancelOwn(c)

SwitchStep(c) ==
  (\E d \in Components : WaitStage(c, d)) \/ BeginHandler(c) \/ EndHandler(c) \/ CancelAll(c) \/ SetStage(c)

ManagerStep ==
  \/ LoadFails \/ (\E c \in Components : CancelSwitching(c) \/ CancelLoad(c))
  \/ OnAllComponentsLoaded \/ AfterLoaded \/ OnGracefulShutdown \/ OnAllComponentsAreStopping
  \/ ClearComponents \/ Cleared

Next ==
  \/ \E c \in Components : ConstructStep(c) \/ ConstructorThrows(c) \/ SwitchStep(c) \/ HandlerThrows(c)
  \/ ManagerStep

Spec == Init /\ [][Next]_vars

\* Constructors and hooks return; the service is stopped one day.
Fairness ==
  /\ \A c \in Components : WF_vars(ConstructStep(c)) /\ WF_vars(SwitchStep(c))
  /\ WF_vars(ManagerStep)

----------------------------------------------------------------------------
(* Properties *)

\* Every variable has its type.
TypeOK ==
  /\ {wants, deps, found, pending} \subseteq [Components -> SUBSET Components]
  /\ \A c \in Components : found[c] \subseteq deps[c] /\ deps[c] \subseteq wants[c]
  /\ {alive, cancelled} \subseteq [Components -> BOOLEAN]
  /\ stage \in [Components -> {"kNull", "kCreated", "kRunning", "kGracefulShutdown", "kReadyForClearing"}]
  /\ notified \in [Components -> 0 .. 1]
  /\ pc \in [Components -> {"construct", "search", "cancel", "done", "failed", "switch", "handler",
                            "set", "setFailed", "cancelAll"}]
  /\ phase \in {"load", "flags", "calls", "join", "loaded", "running", "graceful", "stopping",
                "clearing", "end"}
  /\ todo \subseteq Components
  /\ failing \in BOOLEAN

\* Components never depend on one another in a circle, whoever asks first.
DependenciesAcyclic == \A c \in Components : \A d \in deps[c] : d \notin Reached(c)

\* The components one has found stay there for as long as it does: from the constructor
\* that found them until its own destructor has returned.
DependenciesOutlive ==
  \A c \in Components :
    (alive[c] \/ pc[c] = "construct" \/ (phase = "clearing" /\ pc[c] = "handler"))
       => \A d \in found[c] : alive[d]

\* Once the load has failed, every component that was created has been told so,
\* those included that finish their constructor while the load is being cancelled.
CreatedIsTold ==
  (phase = "join" /\ Ended({"done", "failed"})) => \A c \in Components : alive[c] => notified[c] = 1

\* A hook is called only after the hooks it has to follow: those of the components it
\* depends on when the service starts, those of its dependents when it stops.
HooksInOrder ==
  \A c \in Components : pc[c] = "handler" =>
    \A d \in (IF phase = "loaded" THEN deps[c] ELSE IF phase = "graceful" THEN {} ELSE DependsOnIt(c)) :
      pc[d] = "done"

=============================================================================
