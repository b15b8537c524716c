------------------------- MODULE TaskContextProofs -------------------------
(***************************************************************************)
(* Theorems about TaskContext for every set of threads, every number of    *)
(* sleeps below the modulus of the epoch, and any order of their steps: the *)
(* types, then the ownership of the task, then its sleeps and what it      *)
(* promises to its users.                                                  *)
(***************************************************************************)
EXTENDS TaskContext, TLAPS

----------------------------------------------------------------------------
(* What the helper actions do to pc and arg *)

ArgType == [src : Sources, epoch : Epochs \cup {NoEpoch}, ret : HoldPcs \cup RestPcs]

\* Goto() keeps the types of pc and arg.
LEMMA GotoType ==
  ASSUME NEW t \in Threads, NEW l \in Pcs, pc \in [Threads -> Pcs], arg \in [Threads -> ArgType],
         Goto(t, l)
  PROVE  pc' \in [Threads -> Pcs] /\ arg' \in [Threads -> ArgType]
<1>1. NoArg(t) \in ArgType
  BY EpochAssumption DEF NoArg, ArgType, Sources, Epochs, Home, RestPcs, HoldPcs
<1> QED BY <1>1 DEF Goto

\* So does the start of a call of Wakeup().
LEMMA WakeupType ==
  ASSUME NEW t \in Threads, NEW src \in Sources, NEW e \in Epochs \cup {NoEpoch},
         NEW ret \in HoldPcs \cup RestPcs,
         pc \in [Threads -> Pcs], arg \in [Threads -> ArgType],
         Wakeup(t, src, e, ret)
  PROVE  pc' \in [Threads -> Pcs] /\ arg' \in [Threads -> ArgType]
<1>1. [src |-> src, epoch |-> e, ret |-> ret] \in ArgType
  BY DEF ArgType
<1>2. "wakeup" \in Pcs
  BY DEF Pcs, CallPcs
<1> QED BY <1>1, <1>2 DEF Wakeup

\* RequestCancel() leaves either a reason and a call, or nothing but the return.
LEMMA RequestCancelType ==
  ASSUME NEW t \in Threads, NEW ret \in HoldPcs \cup RestPcs, TypeOK, RequestCancel(t, ret)
  PROVE  pc' \in [Threads -> Pcs] /\ arg' \in [Threads -> ArgType] /\ reason' \in Reasons
<1> USE DEF TypeOK
<1>0. arg \in [Threads -> ArgType] /\ ret \in Pcs /\ "kCancelRequest" \in Sources
  BY DEF ArgType, Pcs, Sources
<1>1. CASE reason = "kNone" /\ reason' = "kRequested" /\ Wakeup(t, "kCancelRequest", NoEpoch, ret)
  BY <1>0, <1>1, WakeupType DEF Reasons
<1>2. CASE reason # "kNone" /\ Goto(t, ret) /\ UNCHANGED reason
  BY <1>0, <1>2, GotoType
<1> QED BY <1>1, <1>2 DEF RequestCancel

\* A timer that serves a reached deadline on the spot keeps the types.
LEMMA InvokeTimerType ==
  ASSUME NEW t \in Threads, NEW ret \in HoldPcs \cup RestPcs, NEW shot \in Shots, TypeOK,
         InvokeTimerFunction(t, shot, ret)
  PROVE  pc' \in [Threads -> Pcs] /\ arg' \in [Threads -> ArgType] /\ reason' \in Reasons
<1>1. CASE RequestCancel(t, ret)
  BY <1>1, RequestCancelType
<1>2. CASE Wakeup(t, "kDeadlineTimer", shot.epoch, ret) /\ UNCHANGED reason
  BY <1>2, WakeupType DEF TypeOK, ArgType, Shots, Sources
<1> QED BY <1>1, <1>2 DEF InvokeTimerFunction

\* So does (re)starting the timer.
LEMMA RestartTimerType ==
  ASSUME NEW t \in Threads, NEW ret \in HoldPcs \cup RestPcs, NEW shot \in Shots, TypeOK,
         RestartTimer(t, shot, ret)
  PROVE  /\ pc' \in [Threads -> Pcs] /\ arg' \in [Threads -> ArgType] /\ reason' \in Reasons
         /\ timer' \in {"new", "started", "finalizing", "stopped"}
         /\ pipe' \in Shots /\ armed' \in Shots
<1>0. arg \in [Threads -> ArgType] /\ ret \in Pcs
  BY DEF TypeOK, ArgType, Pcs
<1>1. CASE InvokeTimerFunction(t, shot, ret) /\ UNCHANGED pipe
  BY <1>1, InvokeTimerType DEF TypeOK, RestartTimer
<1>2. CASE pipe' = shot /\ Goto(t, ret) /\ UNCHANGED reason
  BY <1>0, <1>2, GotoType DEF TypeOK, RestartTimer
<1> QED BY <1>1, <1>2 DEF RestartTimer

\* And arming it for the deadline of the task.
LEMMA ArmCancellationType ==
  ASSUME NEW t \in Threads, NEW ret \in HoldPcs \cup RestPcs, TypeOK, ArmCancellationTimer(t, ret)
  PROVE  /\ pc' \in [Threads -> Pcs] /\ arg' \in [Threads -> ArgType] /\ reason' \in Reasons
         /\ timer' \in {"new", "started", "finalizing", "stopped"}
         /\ pipe' \in Shots /\ armed' \in Shots
<1>0. arg \in [Threads -> ArgType] /\ ret \in Pcs
  BY DEF TypeOK, ArgType, Pcs
<1>1. CASE RestartTimer(t, CancelShot, ret)
  <2>1. CancelShot \in Shots
    BY EpochAssumption DEF CancelShot, Shots, Epochs
  <2> QED BY <1>1, <2>1, RestartTimerType
<1>2. CASE Goto(t, ret) /\ UNCHANGED <<reason, timerVars>>
  BY <1>0, <1>2, GotoType DEF TypeOK, timerVars
<1> QED BY <1>1, <1>2 DEF ArmCancellationTimer

----------------------------------------------------------------------------
(* The type invariant *)

\* The constants that occur as values have the types TypeOK gives them.
LEMMA ValueTypes ==
  /\ HoldPcs \cup RestPcs \subseteq Pcs
  /\ {"schedule", "admit", "push", "popped", "step", "resume", "run", "suspend", "complete",
      "finalize", "signal", "idle"} \subseteq HoldPcs \cup RestPcs
  /\ {"recheck", "set"} \subseteq Pcs
  /\ \A t : Home(t) \in HoldPcs \cup RestPcs
  /\ NoShot \in Shots /\ CancelShot \in Shots
  /\ \A e \in Epochs : WakeupShot(e) \in Shots
  /\ 0 \in Epochs
  /\ \A fl : GetPrimaryWakeupSource(fl) \in Sources
BY EpochAssumption DEF HoldPcs, RestPcs, Pcs, SchedPcs, ReadyPcs, RunPcs, CallPcs, Home, NoShot, CancelShot,
   WakeupShot, Shots, Epochs, GetPrimaryWakeupSource, Sources

\* The next epoch of a task that may still sleep is within the bound.
LEMMA NextEpochType ==
  ASSUME NEW e \in Epochs, e < MaxEpoch
  PROVE  MakeNextEpoch(e) \in Epochs /\ MakeNextEpoch(e) = e + 1
BY EpochAssumption DEF MakeNextEpoch, Epochs

\* A constructed task has its types.
LEMMA InitType == Init => TypeOK
<1> SUFFICES ASSUME Init PROVE TypeOK OBVIOUS
<1>1. \A t \in Threads : NoArg(t) \in ArgType
  BY EpochAssumption DEF NoArg, ArgType, Sources, Epochs, Home, RestPcs, HoldPcs
<1>2. pc \in [Threads -> Pcs]
  BY DEF Init, Pcs, CallPcs, RestPcs
<1> QED
  BY <1>1, <1>2, ValueTypes DEF Init, TypeOK, ArgType, SleepFlags, States, Reasons, Positions, Sources

\* Wakeup() and Schedule() on any thread keep them.
LEMMA CallStepType ==
  ASSUME TypeOK, NEW t \in Threads, CallStep(t)
  PROVE  TypeOK'
<1> USE DEF sleepVars, timerVars, coVars, awaitVars, taskVars
<1>0. arg \in [Threads -> ArgType] /\ pc \in [Threads -> Pcs]
  BY DEF TypeOK, ArgType
<1>a. arg[t].ret \in HoldPcs \cup RestPcs /\ arg[t].ret \in Pcs /\ arg[t].src \in Sources
  BY <1>0, ValueTypes DEF ArgType
<1>1. CASE WakeupCheckFinished(t)
  <2>1. pc' \in [Threads -> Pcs] /\ arg' \in [Threads -> ArgType]
    BY <1>1, <1>0, <1>a, GotoType, ValueTypes DEF WakeupCheckFinished
  <2> QED BY <2>1, <1>1 DEF WakeupCheckFinished, TypeOK, ArgType
<1>2. CASE WakeupSetSource(t)
  <2>1. pc' \in [Threads -> Pcs] /\ arg' \in [Threads -> ArgType]
    BY <1>2, <1>0, <1>a, GotoType, ValueTypes DEF WakeupSetSource
  <2> QED BY <2>1, <1>2, <1>a DEF WakeupSetSource, TypeOK, ArgType, SleepFlags
<1>3. CASE WakeupStaleEpoch(t)
  <2>1. pc' \in [Threads -> Pcs] /\ arg' \in [Threads -> ArgType]
    BY <1>3, <1>0, <1>a, GotoType DEF WakeupStaleEpoch
  <2> QED BY <2>1, <1>3 DEF WakeupStaleEpoch, TypeOK, ArgType
<1>4. CASE Schedule(t)
  <2>1. pc' \in [Threads -> Pcs] /\ arg' \in [Threads -> ArgType]
    BY <1>4, <1>0, GotoType, ValueTypes DEF Schedule
  <2> QED BY <2>1, <1>4 DEF Schedule, TypeOK, ArgType, States
<1>5. CASE ScheduleAdmit(t)
  <2>1. pc' \in [Threads -> Pcs] /\ arg' \in [Threads -> ArgType] /\ reason' \in Reasons
    <3>1. CASE RequestCancel(t, "push")
      BY <3>1, RequestCancelType, ValueTypes
    <3>2. CASE Goto(t, "push") /\ UNCHANGED reason
      BY <3>2, <1>0, GotoType, ValueTypes DEF TypeOK
    <3> QED BY <3>1, <3>2, <1>5 DEF ScheduleAdmit
  <2> QED BY <2>1, <1>5 DEF ScheduleAdmit, TypeOK, ArgType
<1>6. CASE SchedulePush(t)
  <2>1. pc' \in [Threads -> Pcs] /\ arg' \in [Threads -> ArgType]
    BY <1>6, <1>0, GotoType, ValueTypes DEF SchedulePush
  <2> QED BY <2>1, <1>6 DEF SchedulePush, TypeOK, ArgType
<1> QED BY <1>1, <1>2, <1>3, <1>4, <1>5, <1>6 DEF CallStep

\* So do a worker and the engine's part of Sleep().
LEMMA EngineStepType ==
  ASSUME TypeOK, NEW w \in Workers, EngineStep(w)
  PROVE  TypeOK'
<1> USE DEF sleepVars, timerVars, coVars, awaitVars, taskVars
<1>0. w \in Threads /\ arg \in [Threads -> ArgType] /\ pc \in [Threads -> Pcs]
  BY DEF TypeOK, ArgType, Threads
<1>1. CASE PopBlocking(w)
  <2>1. pc' \in [Threads -> Pcs] /\ arg' \in [Threads -> ArgType]
    BY <1>1, <1>0, GotoType, ValueTypes DEF PopBlocking
  <2> QED BY <2>1, <1>1 DEF PopBlocking, TypeOK, ArgType, States, Reasons, Positions
<1>2. CASE DoStepOutOfMemory(w)
  <2>1. pc' \in [Threads -> Pcs] /\ arg' \in [Threads -> ArgType]
    BY <1>2, <1>0, GotoType, ValueTypes DEF DoStepOutOfMemory
  <2> QED BY <2>1, <1>2 DEF DoStepOutOfMemory, TypeOK, ArgType, States, Reasons
<1>3. CASE DoStepHasCoroutine(w)
  <2>1. pc' \in [Threads -> Pcs] /\ arg' \in [Threads -> ArgType]
    BY <1>3, <1>0, GotoType, ValueTypes DEF DoStepHasCoroutine
  <2> QED BY <2>1, <1>3 DEF DoStepHasCoroutine, TypeOK, ArgType, States, Reasons, Positions
<1>4. CASE ResumeStart(w)
  <2>1. pc' \in [Threads -> Pcs] /\ arg' \in [Threads -> ArgType]
    BY <1>4, <1>0, GotoType, ValueTypes DEF ResumeStart
  <2>2. cancellable' \in BOOLEAN /\ finalState' \in {"kCompleted", "kCancelled"}
    BY <1>4 DEF ResumeStart, TypeOK
  <2>3. state' \in States /\ co' \in Positions
    BY <1>4 DEF ResumeStart, States, Positions
  <2> QED BY <2>1, <2>2, <2>3, <1>4 DEF ResumeStart, TypeOK, ArgType
<1>5. CASE ResumeSleep(w)
  <2>1. pc' \in [Threads -> Pcs] /\ arg' \in [Threads -> ArgType]
    BY <1>5, <1>0, GotoType, ValueTypes DEF ResumeSleep
  <2> QED BY <2>1, <1>5 DEF ResumeSleep, TypeOK, ArgType, States, Reasons, Positions
<1>6. CASE DoStepComplete(w)
  <2>1. pc' \in [Threads -> Pcs] /\ arg' \in [Threads -> ArgType]
    BY <1>6, <1>0, GotoType, ValueTypes DEF DoStepComplete
  <2>2. hasCoro' \in BOOLEAN /\ state' \in States
    BY <1>6 DEF DoStepComplete, TypeOK, States
  <2> QED BY <2>1, <2>2, <1>6 DEF DoStepComplete, TypeOK, ArgType
<1>7. CASE DoStepFinalizeTimer(w)
  <2>1. pc' \in [Threads -> Pcs] /\ arg' \in [Threads -> ArgType]
    BY <1>7, <1>0, GotoType, ValueTypes DEF DoStepFinalizeTimer
  <2> QED BY <2>1, <1>7 DEF DoStepFinalizeTimer, TypeOK, ArgType, States, Reasons, Positions
<1>8. CASE DoStepSignal(w)
  <2>1. pc' \in [Threads -> Pcs] /\ arg' \in [Threads -> ArgType]
    BY <1>8, <1>0, GotoType, ValueTypes DEF DoStepSignal
  <2> QED BY <2>1, <1>8 DEF DoStepSignal, TypeOK, ArgType, States, Reasons, Positions
<1>9. CASE SleepYield(w)
  <2>1. pc' \in [Threads -> Pcs] /\ arg' \in [Threads -> ArgType]
    BY <1>9, <1>0, GotoType, ValueTypes DEF SleepYield
  <2> QED BY <2>1, <1>9 DEF SleepYield, TypeOK, ArgType, States, Reasons, Positions
<1>10. CASE SleepStore(w)
  BY <1>10 DEF SleepStore, TypeOK, Positions
<1>11. CASE SleepCheckCancel(w)
  BY <1>11 DEF SleepCheckCancel, TypeOK, Positions, Returns, Sources
<1>12. CASE SleepAppend(w)
  BY <1>12 DEF SleepAppend, TypeOK, Positions, Returns, Sources
<1>13. CASE SleepRemoveAwaiter(w)
  BY <1>13 DEF SleepRemoveAwaiter, TypeOK, Positions
<1>14. CASE SleepReturn(w)
  BY <1>14, ValueTypes DEF SleepReturn, TypeOK, Positions, Returns
<1>15. CASE CheckWaitTime(w)
  <2>1. pc' \in [Threads -> Pcs] /\ arg' \in [Threads -> ArgType] /\ reason' \in Reasons
    <3>1. CASE RequestCancel(w, "step")
      BY <3>1, <1>0, RequestCancelType, ValueTypes
    <3>2. CASE Goto(w, "step") /\ UNCHANGED reason
      BY <3>2, <1>0, GotoType, ValueTypes DEF TypeOK
    <3> QED BY <3>1, <3>2, <1>15 DEF CheckWaitTime
  <2> QED BY <2>1, <1>15 DEF CheckWaitTime, TypeOK, ArgType
<1>16. CASE DoStepGetCoroutine(w)
  <2>1. ArmCancellationTimer(w, "resume")
    BY <1>16 DEF DoStepGetCoroutine
  <2>2. /\ pc' \in [Threads -> Pcs] /\ arg' \in [Threads -> ArgType] /\ reason' \in Reasons
        /\ timer' \in {"new", "started", "finalizing", "stopped"}
        /\ pipe' \in Shots /\ armed' \in Shots
    BY <2>1, <1>0, ArmCancellationType, ValueTypes
  <2> QED BY <2>2, <1>16 DEF DoStepGetCoroutine, TypeOK, ArgType
<1>17. CASE DoStepSuspend(w)
  <2>1. pc' \in [Threads -> Pcs] /\ arg' \in [Threads -> ArgType]
    <3>1. CASE Goto(w, "schedule") \/ Goto(w, Home(w))
      BY <3>1, <1>0, GotoType, ValueTypes
    <3>2. CASE /\ pc' = [pc EXCEPT ![w] = "recheck"]
               /\ arg' = [arg EXCEPT ![w] = [src |-> "kCancelRequest", epoch |-> epoch, ret |-> Home(w)]]
      BY <3>2, <1>0, ValueTypes DEF TypeOK, ArgType, Sources
    <3> QED BY <3>1, <3>2, <1>17 DEF DoStepSuspend
  <2>2. flags' \subseteq SleepFlags
    BY <1>17 DEF DoStepSuspend, TypeOK, SleepFlags
  <2> QED BY <2>1, <2>2, <1>17 DEF DoStepSuspend, TypeOK, ArgType
<1>18. CASE DoStepRecheckCancel(w)
  <2>1. pc' \in [Threads -> Pcs] /\ arg' \in [Threads -> ArgType]
    <3>1. CASE Goto(w, Home(w))
      BY <3>1, <1>0, GotoType, ValueTypes
    <3>2. CASE Wakeup(w, "kCancelRequest", arg[w].epoch, Home(w))
      BY <3>2, <1>0, WakeupType, ValueTypes DEF ArgType, Sources
    <3> QED BY <3>1, <3>2, <1>18 DEF DoStepRecheckCancel
  <2> QED BY <2>1, <1>18 DEF DoStepRecheckCancel, TypeOK, ArgType
<1>19. CASE SleepArmDeadline(w)
  <2>1. CASE RestartTimer(w, WakeupShot(sleepEpoch), "run")
    <3>1. WakeupShot(sleepEpoch) \in Shots
      BY ValueTypes DEF TypeOK
    <3>2. /\ pc' \in [Threads -> Pcs] /\ arg' \in [Threads -> ArgType] /\ reason' \in Reasons
          /\ timer' \in {"new", "started", "finalizing", "stopped"}
          /\ pipe' \in Shots /\ armed' \in Shots
      BY <2>1, <3>1, <1>0, RestartTimerType, ValueTypes
    <3> QED BY <3>2, <1>19 DEF SleepArmDeadline, TypeOK, ArgType, Positions
  <2>2. CASE UNCHANGED <<reason, timerVars, pc, arg>>
    BY <2>2, <1>19 DEF SleepArmDeadline, TypeOK, Positions
  <2> QED BY <2>1, <2>2, <1>19 DEF SleepArmDeadline
<1>20. CASE SleepRearm(w)
  <2>1. CASE ArmCancellationTimer(w, "run")
    <3>2. /\ pc' \in [Threads -> Pcs] /\ arg' \in [Threads -> ArgType] /\ reason' \in Reasons
          /\ timer' \in {"new", "started", "finalizing", "stopped"}
          /\ pipe' \in Shots /\ armed' \in Shots
      BY <2>1, <1>0, ArmCancellationType, ValueTypes
    <3> QED BY <3>2, <1>20 DEF SleepRearm, TypeOK, ArgType, Positions
  <2>2. CASE UNCHANGED <<reason, timerVars, pc, arg>>
    BY <2>2, <1>20 DEF SleepRearm, TypeOK, Positions
  <2> QED BY <2>1, <2>2, <1>20 DEF SleepRearm
<1>21. CASE SleepCheckBeforeStore(w)
  BY <1>21 DEF SleepCheckBeforeStore, TypeOK, Positions
<1> QED BY <1>1, <1>2, <1>3, <1>4, <1>5, <1>6, <1>7, <1>8, <1>9, <1>10, <1>11, <1>12, <1>13, <1>14, <1>15, <1>16, <1>17, <1>18, <1>19, <1>20, <1>21 DEF EngineStep

\* So does the task's own code.
LEMMA BodyStepType ==
  ASSUME TypeOK, NEW w \in Workers, BodyStep(w)
  PROVE  TypeOK'
<1> USE DEF sleepVars, timerVars, coVars, awaitVars, taskVars
<1>0. w \in Threads /\ arg \in [Threads -> ArgType] /\ pc \in [Threads -> Pcs]
  BY DEF TypeOK, ArgType, Threads
<1>1. CASE SleepLoad(w)
  <2>1. sleepEpoch' \in Epochs
    BY <1>1, NextEpochType DEF SleepLoad, TypeOK
  <2> QED BY <2>1, <1>1 DEF SleepLoad, TypeOK, Deadlines, Positions
<1>2. CASE SetCancellable(w)
  BY <1>2 DEF SetCancellable, TypeOK
<1>3. CASE SetCancelDeadline(w)
  <2>1. CASE RestartTimer(w, CancelShot, "run")
    <3>1. /\ pc' \in [Threads -> Pcs] /\ arg' \in [Threads -> ArgType] /\ reason' \in Reasons
          /\ timer' \in {"new", "started", "finalizing", "stopped"}
          /\ pipe' \in Shots /\ armed' \in Shots
      BY <2>1, <1>0, RestartTimerType, ValueTypes
    <3> QED BY <3>1, <1>3 DEF SetCancelDeadline, TypeOK, ArgType
  <2>2. CASE UNCHANGED <<reason, timerVars, pc, arg>>
    BY <2>2, <1>3 DEF SetCancelDeadline, TypeOK
  <2> QED BY <2>1, <2>2, <1>3 DEF SetCancelDeadline
<1>4. CASE BodyReturn(w)
  <2>1. pc' \in [Threads -> Pcs] /\ arg' \in [Threads -> ArgType]
    BY <1>4, <1>0, GotoType, ValueTypes DEF BodyReturn
  <2> QED BY <2>1, <1>4 DEF BodyReturn, TypeOK, ArgType, Positions
<1> QED BY <1>1, <1>2, <1>3, <1>4 DEF BodyStep

\* So do cancellations and notifications of clients.
LEMMA ClientStepType ==
  ASSUME TypeOK, NEW c \in Clients, ClientCancel(c) \/ ClientNotify(c)
  PROVE  TypeOK'
<1> USE DEF sleepVars, timerVars, coVars, awaitVars, taskVars
<1>0. c \in Threads /\ arg \in [Threads -> ArgType] /\ pc \in [Threads -> Pcs]
  BY DEF TypeOK, ArgType, Threads
<1>1. CASE ClientCancel(c)
  <2>1. pc' \in [Threads -> Pcs] /\ arg' \in [Threads -> ArgType] /\ reason' \in Reasons
    BY <1>1, <1>0, RequestCancelType, ValueTypes DEF ClientCancel
  <2> QED BY <2>1, <1>1 DEF ClientCancel, TypeOK, ArgType
<1>2. CASE ClientNotify(c)
  <2> PICK e \in awaiters : /\ awaiters' = awaiters \ {e}
                            /\ popped' = popped \cup {e}
                            /\ Wakeup(c, "kNotify", e, "idle")
    BY <1>2 DEF ClientNotify
  <2>1. e \in Epochs
    BY DEF TypeOK
  <2>2. pc' \in [Threads -> Pcs] /\ arg' \in [Threads -> ArgType]
    BY <2>1, <1>0, WakeupType, ValueTypes DEF Sources
  <2> QED BY <2>1, <2>2, <1>2 DEF ClientNotify, TypeOK, ArgType
<1> QED BY <1>1, <1>2

\* So does the timer.
LEMMA EvStepType ==
  ASSUME TypeOK, EvStep
  PROVE  TypeOK'
<1> USE DEF sleepVars, timerVars, coVars, awaitVars, taskVars
<1>0. EvThread \in Threads /\ arg \in [Threads -> ArgType] /\ pc \in [Threads -> Pcs]
  BY DEF TypeOK, ArgType, Threads
<1>1. CASE EvArmTimer
  BY <1>1, ValueTypes DEF EvArmTimer, TypeOK
<1>2. CASE EvOnTimer
  <2>1. pc' \in [Threads -> Pcs] /\ arg' \in [Threads -> ArgType] /\ reason' \in Reasons
    BY <1>2, <1>0, InvokeTimerType, ValueTypes DEF EvOnTimer, TypeOK
  <2> QED BY <2>1, <1>2, ValueTypes DEF EvOnTimer, TypeOK, ArgType
<1>3. CASE EvFinalizeTimer
  BY <1>3, ValueTypes DEF EvFinalizeTimer, TypeOK
<1> QED BY <1>1, <1>2, <1>3 DEF EvStep

\* So does every step.
LEMMA NextType == TypeOK /\ [Next]_vars => TypeOK'
<1> SUFFICES ASSUME TypeOK, [Next]_vars PROVE TypeOK' OBVIOUS
<1>1. CASE UNCHANGED vars
  BY <1>1 DEF TypeOK, vars, sleepVars, timerVars, coVars, awaitVars, taskVars
<1>2. CASE Next
  BY <1>2, CallStepType, EngineStepType, BodyStepType, ClientStepType, EvStepType DEF Next
<1> QED BY <1>1, <1>2

\* Every variable of the task and of every thread keeps its type, for any
\* number of threads and sleeps; the epoch never wraps around within the bound.
THEOREM TypeCorrect == Spec => []TypeOK
BY InitType, NextType, PTL DEF Spec

----------------------------------------------------------------------------
(***************************************************************************)
(* The ownership of a task: whatever wakeups, cancellations, timers and    *)
(* workers race, exactly one of them gets to schedule the task, none is    *)
(* lost, and nothing revives a finished task.                              *)
(*                                                                         *)
(* The invariant speaks of At(t), the place of thread t outside its calls  *)
(* of Wakeup(), so most steps of a call leave it alone. Lands(t, l) is what *)
(* every action does to it: t comes to l, the others stay.                 *)
(***************************************************************************)

(* The inductive invariant *)

\* The word offers the task to the next source that counts.
Quiet(fl) == EffectiveFlags(fl) = {"kSleeping"}

Ownership == SingleOwner /\ SchedulableIffUnowned /\ (finished => ~Owned)

\* The bootstrap is the one source that ShouldSchedule() obeys unconditionally.
BootCall(t) == pc[t] \in CallPcs /\ arg[t].src = "kBootstrap"

\* Nobody but the creator has touched the task.
Untouched ==
  /\ \A u \in Threads \ {Creator} : pc[u] = "idle"
  /\ queue = 0
  /\ awaiters = {}
  /\ pipe = NoShot /\ armed = NoShot /\ timer = "new"
  /\ flags = {"kSleeping"}
  /\ ~finished

\* Only the creator bootstraps, and until it has, nobody touches the task.
BootInv == \A t \in Threads : BootCall(t) => t = Creator /\ Untouched

\* The positions of Sleep() after it cleared the word and before it yields.
EnteringSleep == {"check", "append", "arm", "yield"}

\* From the moment Sleep() clears the word to the moment DoStep() puts
\* kSleeping there, no other thread puts it there.
SleepInv ==
  /\ co \in EnteringSleep => flags \cap {"kSleeping", "kNonCancellable"} = {}
  /\ \A t \in Threads :
       At(t) = "suspend" => co = "asleep" /\ flags \cap {"kSleeping", "kNonCancellable"} = {}

OwnershipInv == TypeOK /\ Ownership /\ BootInv /\ SleepInv

----------------------------------------------------------------------------
(* Flags *)

\* A source that ShouldSchedule() obeys finds the word quiet and leaves it loud;
\* any other leaves it as it is. So the word elects one source at most.
LEMMA ElectsOne ==
  ASSUME NEW fl \in SUBSET SleepFlags, NEW src \in Sources \ {"kBootstrap"}
  PROVE  /\ ShouldSchedule(fl, src) => Quiet(fl) /\ ~Quiet(fl \cup {src})
         /\ ~ShouldSchedule(fl, src) => (Quiet(fl \cup {src}) <=> Quiet(fl))
<1>1. CASE src = "kCancelRequest"
  BY <1>1 DEF ShouldSchedule, Quiet, EffectiveFlags, Sources
<1>2. CASE src \in {"kNotify", "kDeadlineTimer"}
  BY <1>2 DEF ShouldSchedule, Quiet, EffectiveFlags, Sources
<1> QED BY <1>1, <1>2 DEF Sources

\* The bootstrap finds the new task quiet and leaves it loud.
LEMMA BootstrapElects ==
  Quiet({"kSleeping"}) /\ ~Quiet({"kSleeping"} \cup {"kBootstrap"})
  /\ ShouldSchedule({"kSleeping"}, "kBootstrap")
BY DEF Quiet, EffectiveFlags, ShouldSchedule

\* What DoStep() finds in the word decides whether the word is quiet after it.
LEMMA SuspendDecides ==
  ASSUME NEW fl \in SUBSET SleepFlags, fl \cap {"kSleeping", "kNonCancellable"} = {}
  PROVE  /\ Quiet(fl \cup ({"kSleeping"} \cup {})) <=> fl = {}
         /\ Quiet(fl \cup ({"kSleeping"} \cup {"kNonCancellable"}))
              <=> fl \ {"kCancelRequest", "kNonCancellable"} = {}
BY DEF Quiet, EffectiveFlags, SleepFlags, Sources

----------------------------------------------------------------------------
(* Where the threads are *)

Lands(t, l) ==
  /\ \A u \in Threads : u # t => At(u)' = At(u)
  /\ At(t)' = l
  /\ \A u \in Threads : BootCall(u)' => BootCall(u)

\* A jump.
LEMMA GotoLands ==
  ASSUME NEW t \in Threads, NEW l, l \notin CallPcs,
         pc \in [Threads -> Pcs], arg \in [Threads -> ArgType], Goto(t, l)
  PROVE  Lands(t, l)
BY DEF Goto, Lands, At, BootCall

\* A call of Wakeup() from the engine.
LEMMA WakeupLands ==
  ASSUME NEW t \in Threads, NEW src, NEW e, NEW ret, src # "kBootstrap",
         pc \in [Threads -> Pcs], arg \in [Threads -> ArgType], Wakeup(t, src, e, ret)
  PROVE  Lands(t, ret)
BY DEF Wakeup, Lands, At, BootCall, CallPcs

\* No step of its own.
LEMMA StayLands ==
  ASSUME NEW t \in Threads, NEW l, pc[t] = l, l \notin CallPcs, UNCHANGED <<pc, arg>>
  PROVE  Lands(t, l)
BY DEF Lands, At, BootCall

\* A request to cancel.
LEMMA RequestCancelLands ==
  ASSUME NEW t \in Threads, NEW ret, ret \notin CallPcs,
         pc \in [Threads -> Pcs], arg \in [Threads -> ArgType], RequestCancel(t, ret)
  PROVE  Lands(t, ret)
BY GotoLands, WakeupLands DEF RequestCancel

\* The function of the timer.
LEMMA InvokeTimerLands ==
  ASSUME NEW t \in Threads, NEW shot, NEW ret, ret \notin CallPcs,
         pc \in [Threads -> Pcs], arg \in [Threads -> ArgType], InvokeTimerFunction(t, shot, ret)
  PROVE  Lands(t, ret)
BY RequestCancelLands, WakeupLands DEF InvokeTimerFunction

\* A restart of the timer.
LEMMA RestartTimerLands ==
  ASSUME NEW t \in Threads, NEW shot, NEW ret, ret \notin CallPcs,
         pc \in [Threads -> Pcs], arg \in [Threads -> ArgType], RestartTimer(t, shot, ret)
  PROVE  Lands(t, ret)
BY InvokeTimerLands, GotoLands DEF RestartTimer

\* The same for the deadline of the task.
LEMMA ArmCancellationLands ==
  ASSUME NEW t \in Threads, NEW ret, ret \notin CallPcs,
         pc \in [Threads -> Pcs], arg \in [Threads -> ArgType], ArmCancellationTimer(t, ret)
  PROVE  Lands(t, ret)
BY RestartTimerLands, GotoLands DEF ArmCancellationTimer

----------------------------------------------------------------------------
(* How ownership moves *)

\* A thread that stays an owner, or stays none, changes nothing.
LEMMA KeepOwnership ==
  ASSUME NEW t \in Threads, NEW l, Lands(t, l), l \in HoldPcs <=> Holds(t), Ownership,
         UNCHANGED <<queue, finished>>, Quiet(flags') <=> Quiet(flags)
  PROVE  Ownership'
<1>1. \A u \in Threads : Holds(u)' <=> Holds(u)
  BY DEF Lands, Holds
<1> QED BY <1>1 DEF Ownership, SingleOwner, SchedulableIffUnowned, Owned, Quiet

\* A thread that takes the quiet task makes the word loud.
LEMMA TakeOwnership ==
  ASSUME NEW t \in Threads, NEW l \in HoldPcs, Lands(t, l), Ownership,
         UNCHANGED <<queue, finished>>, Quiet(flags), ~Quiet(flags'), queue \in Nat
  PROVE  Ownership'
<1>1. ~Owned /\ ~finished
  BY DEF Ownership, SchedulableIffUnowned, Quiet
<1>2. \A u \in Threads : Holds(u)' <=> u = t
  BY <1>1 DEF Lands, Holds, Owned
<1>3. queue' = 0
  BY <1>1 DEF Owned
<1> QED BY <1>1, <1>2, <1>3 DEF Ownership, SingleOwner, SchedulableIffUnowned, Owned, Quiet

\* An owner may put the task into the queue.
LEMMA PushOwnership ==
  ASSUME NEW t \in Threads, NEW l, l \notin HoldPcs, Lands(t, l), Holds(t), Ownership,
         queue' = queue + 1, UNCHANGED <<finished, flags>>
  PROVE  Ownership'
<1>1. queue = 0 /\ Owned /\ queue' = 1
  BY DEF Ownership, SingleOwner, Owned
<1>2. \A u \in Threads : ~Holds(u)'
  BY DEF Lands, Holds, Ownership, SingleOwner
<1> QED BY <1>1, <1>2 DEF Ownership, SingleOwner, SchedulableIffUnowned, Owned, Quiet

\* A worker may take it from there.
LEMMA PopOwnership ==
  ASSUME NEW t \in Threads, NEW l \in HoldPcs, Lands(t, l), Ownership,
         queue > 0, queue' = queue - 1, UNCHANGED <<finished, flags>>
  PROVE  Ownership'
<1>1. queue = 1 /\ Owned /\ queue' = 0
  BY DEF Ownership, SingleOwner, Owned
<1>2. \A u \in Threads : Holds(u)' <=> u = t
  BY <1>1 DEF Lands, Holds, Ownership, SingleOwner
<1> QED BY <1>1, <1>2 DEF Ownership, SingleOwner, SchedulableIffUnowned, Owned, Quiet

\* An owner that lets go makes the word quiet, or the task finished.
LEMMA ReleaseOwnership ==
  ASSUME NEW t \in Threads, NEW l, l \notin HoldPcs, Lands(t, l), Holds(t), Ownership,
         UNCHANGED queue, finished' \in BOOLEAN, Quiet(flags') <=> ~finished'
  PROVE  Ownership'
<1>1. queue' = 0
  BY DEF Ownership, SingleOwner
<1>2. \A u \in Threads : ~Holds(u)'
  BY DEF Lands, Holds, Ownership, SingleOwner
<1> QED BY <1>1, <1>2 DEF Ownership, SingleOwner, SchedulableIffUnowned, Owned, Quiet

----------------------------------------------------------------------------
(* The other parts of the invariant *)

\* Nobody bootstraps when a thread is somewhere, and not in that call.
LEMMA NoBoot ==
  ASSUME BootInv, NEW t \in Threads, ~BootCall(t), pc[t] # "idle"
  PROVE  \A u \in Threads : ~BootCall(u)
BY DEF BootInv, Untouched

\* Nobody bootstraps when the task has been touched.
LEMMA NoBootTouched ==
  ASSUME BootInv, ~Untouched
  PROVE  \A u \in Threads : ~BootCall(u)
BY DEF BootInv

\* Then nobody ever does.
LEMMA KeepBoot ==
  ASSUME NEW t \in Threads, NEW l, Lands(t, l), \A u \in Threads : ~BootCall(u)
  PROVE  BootInv'
BY DEF BootInv, Lands

\* A step that adds no kSleeping and leaves the coroutine alone.
LEMMA KeepSleep ==
  ASSUME NEW t \in Threads, NEW l, Lands(t, l), l = "suspend" => At(t) = "suspend", SleepInv,
         UNCHANGED co, NEW src \in Sources, flags' = flags \/ flags' = flags \cup {src}
  PROVE  SleepInv'
BY DEF SleepInv, Lands, Sources

\* A step of the owner that runs the coroutine.
LEMMA OwnerSleep ==
  ASSUME NEW t \in Threads, NEW l, Lands(t, l), Holds(t), Ownership,
         l = "suspend" => co' = "asleep",
         co' \in EnteringSleep \/ l = "suspend" => flags' \cap {"kSleeping", "kNonCancellable"} = {}
  PROVE  SleepInv'
<1>1. \A u \in Threads : u # t => At(u)' # "suspend"
  BY DEF Lands, Holds, Ownership, SingleOwner, HoldPcs, RunPcs
<1> QED BY <1>1 DEF SleepInv, Lands

----------------------------------------------------------------------------
(* The steps *)

\* The pcs of a call are not the pcs of an owner, nor those of a resting thread.
LEMMA PcFacts ==
  /\ (HoldPcs \cup RestPcs) \cap CallPcs = {}
  /\ SchedPcs \cup ReadyPcs \cup RunPcs = HoldPcs
  /\ \A t : Home(t) \in RestPcs
  /\ RestPcs \cap HoldPcs = {}
  /\ "recheck" \notin HoldPcs /\ "recheck" \notin CallPcs
  /\ "suspend" \notin RestPcs
BY DEF HoldPcs, RestPcs, CallPcs, SchedPcs, ReadyPcs, RunPcs, Home

\* Wakeup() and Schedule() on any thread.
LEMMA CallStepOwnership ==
  ASSUME OwnershipInv, NEW t \in Threads, CallStep(t)
  PROVE  (Ownership /\ BootInv /\ SleepInv)'
<1> USE DEF sleepVars, timerVars, coVars, awaitVars, taskVars
<1>0. arg \in [Threads -> ArgType] /\ pc \in [Threads -> Pcs] /\ Ownership /\ BootInv /\ SleepInv
  BY DEF OwnershipInv, TypeOK, ArgType
<1>a. /\ arg[t].ret \in HoldPcs \cup RestPcs /\ arg[t].ret \notin CallPcs /\ arg[t].src \in Sources
      /\ flags \in SUBSET SleepFlags /\ queue \in Nat
  BY <1>0, PcFacts DEF ArgType, OwnershipInv, TypeOK
<1>1. CASE WakeupCheckFinished(t)
  <2>1. Lands(t, At(t))
    <3>1. CASE Goto(t, arg[t].ret)
      <4>1. At(t) = arg[t].ret
        BY <1>1 DEF WakeupCheckFinished, At, CallPcs
      <4>2. Lands(t, arg[t].ret)
        BY <3>1, <1>0, <1>a, GotoLands
      <4> QED BY <4>1, <4>2
    <3>2. CASE pc' = [pc EXCEPT ![t] = "set"] /\ UNCHANGED arg
      BY <3>2, <1>0, <1>1 DEF WakeupCheckFinished, Lands, At, CallPcs, BootCall
    <3> QED BY <3>1, <3>2, <1>1 DEF WakeupCheckFinished
  <2>2. UNCHANGED <<queue, finished, flags, co>>
    BY <1>1 DEF WakeupCheckFinished
  <2>3. Ownership'
    BY <2>1, <2>2, <1>0, KeepOwnership DEF Holds
  <2>4. SleepInv'
    BY <2>1, <2>2, <1>0, <1>a, KeepSleep
  <2>5. BootInv'
    <3>1. CASE BootCall(t)
      <4>1. t = Creator /\ Untouched
        BY <3>1, <1>0 DEF BootInv
      <4>2. \A u \in Threads \ {Creator} : pc'[u] = pc[u]
        BY <4>1, <1>0, <1>1 DEF WakeupCheckFinished, Goto
      <4>3. Untouched'
        BY <4>1, <4>2, <1>1 DEF WakeupCheckFinished, Untouched
      <4> QED BY <4>1, <4>3, <2>1, <1>0 DEF BootInv, Lands
    <3>2. CASE ~BootCall(t)
      BY <3>2, <1>0, <1>1, <2>1, NoBoot, KeepBoot DEF WakeupCheckFinished
    <3> QED BY <3>1, <3>2
  <2> QED BY <2>3, <2>4, <2>5
<1>2. CASE WakeupSetSource(t)
  <2>1. At(t) = arg[t].ret /\ flags' = flags \cup {arg[t].src} /\ UNCHANGED <<queue, finished, co>>
    BY <1>2 DEF WakeupSetSource, At, CallPcs
  <2>2. Lands(t, IF ShouldSchedule(flags, arg[t].src) THEN "schedule" ELSE arg[t].ret)
    BY <1>2, <1>0, <1>a, GotoLands DEF WakeupSetSource, CallPcs
  <2>3. BootInv'
    <3>1. ~BootCall(t)'
      BY <1>2, <1>0, <1>a DEF WakeupSetSource, Goto, BootCall, CallPcs
    <3>2. CASE BootCall(t)
      BY <3>1, <3>2, <2>2, <1>0 DEF BootInv, Lands
    <3>3. CASE ~BootCall(t)
      BY <3>3, <1>0, <1>2, <2>2, NoBoot, KeepBoot DEF WakeupSetSource
    <3> QED BY <3>2, <3>3
  <2>4. SleepInv'
    BY <2>1, <2>2, <1>0, <1>a, KeepSleep
  <2>5. Ownership'
    <3>1. /\ ShouldSchedule(flags, arg[t].src) => Quiet(flags) /\ ~Quiet(flags')
          /\ ~ShouldSchedule(flags, arg[t].src) => (Quiet(flags') <=> Quiet(flags))
      <4>1. CASE arg[t].src = "kBootstrap"
        <5>1. flags = {"kSleeping"}
          BY <4>1, <1>0, <1>2 DEF BootInv, BootCall, Untouched, WakeupSetSource, CallPcs
        <5> QED BY <4>1, <5>1, <2>1, BootstrapElects
      <4>2. CASE arg[t].src # "kBootstrap"
        BY <4>2, <2>1, <1>a, ElectsOne
      <4> QED BY <4>1, <4>2
    <3>2. CASE ShouldSchedule(flags, arg[t].src)
      <4>1. Lands(t, "schedule") /\ "schedule" \in HoldPcs
        BY <3>2, <2>2 DEF HoldPcs, SchedPcs
      <4> QED BY <3>1, <3>2, <4>1, <2>1, <1>0, <1>a, TakeOwnership
    <3>3. CASE ~ShouldSchedule(flags, arg[t].src)
      <4>1. Lands(t, arg[t].ret)
        BY <3>3, <2>2
      <4> QED BY <3>1, <3>3, <4>1, <2>1, <1>0, <1>a, KeepOwnership DEF Holds
    <3> QED BY <3>2, <3>3
  <2> QED BY <2>3, <2>4, <2>5
<1>3. CASE WakeupStaleEpoch(t)
  <2>1. At(t) = arg[t].ret /\ UNCHANGED <<queue, finished, flags, co>>
    BY <1>3 DEF WakeupStaleEpoch, At, CallPcs
  <2>2. Lands(t, arg[t].ret)
    BY <1>3, <1>0, <1>a, GotoLands DEF WakeupStaleEpoch
  <2>3. BootInv'
    <3>1. ~BootCall(t)'
      BY <1>3, <1>0, <1>a DEF WakeupStaleEpoch, Goto, BootCall
    <3>2. CASE BootCall(t)
      BY <3>1, <3>2, <2>2, <1>0 DEF BootInv, Lands
    <3>3. CASE ~BootCall(t)
      BY <3>3, <1>0, <1>3, <2>2, NoBoot, KeepBoot DEF WakeupStaleEpoch
    <3> QED BY <3>2, <3>3
  <2>4. SleepInv'
    BY <2>1, <2>2, <1>0, <1>a, KeepSleep
  <2>5. Ownership'
    BY <2>1, <2>2, <1>0, KeepOwnership DEF Holds
  <2> QED BY <2>3, <2>4, <2>5
<1>4. CASE Schedule(t)
  <2>1. Lands(t, "admit") /\ At(t) = "schedule" /\ ~BootCall(t) /\ pc[t] = "schedule"
    BY <1>4, <1>0, GotoLands DEF Schedule, At, CallPcs, BootCall
  <2>2. UNCHANGED <<queue, finished, flags, co>>
    BY <1>4 DEF Schedule
  <2> QED BY <2>1, <2>2, <1>0, NoBoot, KeepBoot, KeepSleep, KeepOwnership
          DEF Holds, HoldPcs, SchedPcs, ReadyPcs, RunPcs, Sources
<1>5. CASE ScheduleAdmit(t)
  <2>1. Lands(t, "push") /\ At(t) = "admit" /\ ~BootCall(t) /\ pc[t] = "admit"
    BY <1>5, <1>0, GotoLands, RequestCancelLands DEF ScheduleAdmit, At, CallPcs, BootCall
  <2>2. UNCHANGED <<queue, finished, flags, co>>
    BY <1>5 DEF ScheduleAdmit
  <2> QED BY <2>1, <2>2, <1>0, NoBoot, KeepBoot, KeepSleep, KeepOwnership
          DEF Holds, HoldPcs, SchedPcs, ReadyPcs, RunPcs, Sources
<1>6. CASE SchedulePush(t)
  <2>1. Lands(t, Home(t)) /\ At(t) = "push" /\ ~BootCall(t) /\ pc[t] = "push"
    BY <1>6, <1>0, GotoLands, PcFacts DEF SchedulePush, At, CallPcs, BootCall
  <2>2. UNCHANGED <<finished, flags, co>> /\ queue' = queue + 1
    BY <1>6 DEF SchedulePush
  <2>3. Ownership'
    BY <2>1, <2>2, <1>0, PcFacts, PushOwnership DEF Holds, HoldPcs, SchedPcs
  <2> QED BY <2>1, <2>2, <2>3, <1>0, NoBoot, KeepBoot, KeepSleep, PcFacts DEF Sources
<1> QED BY <1>1, <1>2, <1>3, <1>4, <1>5, <1>6 DEF CallStep

\* The engine and the coroutine on a worker.
LEMMA WorkerStepOwnership ==
  ASSUME OwnershipInv, NEW w \in Workers, EngineStep(w) \/ BodyStep(w)
  PROVE  (Ownership /\ BootInv /\ SleepInv)'
<1> USE DEF sleepVars, timerVars, coVars, awaitVars, taskVars
<1>0. /\ arg \in [Threads -> ArgType] /\ pc \in [Threads -> Pcs] /\ Ownership /\ BootInv /\ SleepInv
      /\ w \in Threads /\ flags \in SUBSET SleepFlags /\ cancellable \in BOOLEAN
  BY DEF OwnershipInv, TypeOK, ArgType, Threads
<1>1. CASE CheckWaitTime(w)
  <2>1. Lands(w, "step") /\ At(w) = "popped" /\ ~BootCall(w) /\ pc[w] = "popped"
    BY <1>1, <1>0, GotoLands, RequestCancelLands DEF CheckWaitTime, At, CallPcs, BootCall
  <2>2. UNCHANGED <<queue, finished, flags, co>>
    BY <1>1 DEF CheckWaitTime
  <2> QED BY <2>1, <2>2, <1>0, NoBoot, KeepBoot, KeepSleep, KeepOwnership
          DEF Holds, HoldPcs, SchedPcs, ReadyPcs, RunPcs, Sources
<1>2. CASE DoStepGetCoroutine(w)
  <2>1. Lands(w, "resume") /\ At(w) = "step" /\ ~BootCall(w) /\ pc[w] = "step"
    BY <1>2, <1>0, ArmCancellationLands DEF DoStepGetCoroutine, At, CallPcs, BootCall
  <2>2. UNCHANGED <<queue, finished, flags, co>>
    BY <1>2 DEF DoStepGetCoroutine
  <2> QED BY <2>1, <2>2, <1>0, NoBoot, KeepBoot, KeepSleep, KeepOwnership
          DEF Holds, HoldPcs, SchedPcs, ReadyPcs, RunPcs, Sources
<1>3. CASE DoStepOutOfMemory(w)
  <2>1. Lands(w, "signal") /\ At(w) = "step" /\ ~BootCall(w) /\ pc[w] = "step"
    BY <1>3, <1>0, GotoLands DEF DoStepOutOfMemory, At, CallPcs, BootCall
  <2>2. UNCHANGED <<queue, finished, flags, co>>
    BY <1>3 DEF DoStepOutOfMemory
  <2> QED BY <2>1, <2>2, <1>0, NoBoot, KeepBoot, KeepSleep, KeepOwnership
          DEF Holds, HoldPcs, SchedPcs, ReadyPcs, RunPcs, Sources
<1>4. CASE DoStepHasCoroutine(w)
  <2>1. Lands(w, "resume") /\ At(w) = "step" /\ ~BootCall(w) /\ pc[w] = "step"
    BY <1>4, <1>0, GotoLands DEF DoStepHasCoroutine, At, CallPcs, BootCall
  <2>2. UNCHANGED <<queue, finished, flags, co>>
    BY <1>4 DEF DoStepHasCoroutine
  <2> QED BY <2>1, <2>2, <1>0, NoBoot, KeepBoot, KeepSleep, KeepOwnership
          DEF Holds, HoldPcs, SchedPcs, ReadyPcs, RunPcs, Sources
<1>5. CASE DoStepComplete(w)
  <2>1. Lands(w, "finalize") /\ At(w) = "complete" /\ ~BootCall(w) /\ pc[w] = "complete"
    BY <1>5, <1>0, GotoLands DEF DoStepComplete, At, CallPcs, BootCall
  <2>2. UNCHANGED <<queue, finished, flags, co>>
    BY <1>5 DEF DoStepComplete
  <2> QED BY <2>1, <2>2, <1>0, NoBoot, KeepBoot, KeepSleep, KeepOwnership
          DEF Holds, HoldPcs, SchedPcs, ReadyPcs, RunPcs, Sources
<1>6. CASE DoStepFinalizeTimer(w)
  <2>1. Lands(w, "signal") /\ At(w) = "finalize" /\ ~BootCall(w) /\ pc[w] = "finalize"
    BY <1>6, <1>0, GotoLands DEF DoStepFinalizeTimer, At, CallPcs, BootCall
  <2>2. UNCHANGED <<queue, finished, flags, co>>
    BY <1>6 DEF DoStepFinalizeTimer
  <2> QED BY <2>1, <2>2, <1>0, NoBoot, KeepBoot, KeepSleep, KeepOwnership
          DEF Holds, HoldPcs, SchedPcs, ReadyPcs, RunPcs, Sources
<1>7. CASE SetCancellable(w)
  <2>1. Lands(w, "run") /\ At(w) = "run" /\ ~BootCall(w) /\ pc[w] = "run"
    BY <1>7, <1>0, StayLands DEF SetCancellable, At, CallPcs, BootCall
  <2>2. UNCHANGED <<queue, finished, flags, co>>
    BY <1>7 DEF SetCancellable
  <2> QED BY <2>1, <2>2, <1>0, NoBoot, KeepBoot, KeepSleep, KeepOwnership
          DEF Holds, HoldPcs, SchedPcs, ReadyPcs, RunPcs, Sources
<1>8. CASE SetCancelDeadline(w)
  <2>1. Lands(w, "run") /\ At(w) = "run" /\ ~BootCall(w) /\ pc[w] = "run"
    BY <1>8, <1>0, StayLands, RestartTimerLands DEF SetCancelDeadline, At, CallPcs, BootCall
  <2>2. UNCHANGED <<queue, finished, flags, co>>
    BY <1>8 DEF SetCancelDeadline
  <2> QED BY <2>1, <2>2, <1>0, NoBoot, KeepBoot, KeepSleep, KeepOwnership
          DEF Holds, HoldPcs, SchedPcs, ReadyPcs, RunPcs, Sources
<1>9. CASE ResumeStart(w)
  <2>1. Lands(w, "run") /\ At(w) = "resume" /\ ~BootCall(w) /\ pc[w] = "resume"
    BY <1>9, <1>0, GotoLands DEF ResumeStart, At, CallPcs, BootCall
  <2>2. UNCHANGED <<queue, finished, flags>>
    BY <1>9 DEF ResumeStart
  <2>3. /\ "run" = "suspend" => co' = "asleep"
        /\ co' \in EnteringSleep \/ "run" = "suspend" => flags' \cap {"kSleeping", "kNonCancellable"} = {}
    BY <1>9, <1>0, <2>2 DEF ResumeStart, EnteringSleep, SleepInv
  <2> QED BY <2>1, <2>2, <2>3, <1>0, NoBoot, KeepBoot, OwnerSleep, KeepOwnership
          DEF Holds, HoldPcs, ReadyPcs, RunPcs
<1>10. CASE ResumeSleep(w)
  <2>1. Lands(w, "run") /\ At(w) = "resume" /\ ~BootCall(w) /\ pc[w] = "resume"
    BY <1>10, <1>0, GotoLands DEF ResumeSleep, At, CallPcs, BootCall
  <2>2. UNCHANGED <<queue, finished, flags>>
    BY <1>10 DEF ResumeSleep
  <2>3. /\ "run" = "suspend" => co' = "asleep"
        /\ co' \in EnteringSleep \/ "run" = "suspend" => flags' \cap {"kSleeping", "kNonCancellable"} = {}
    BY <1>10, <1>0, <2>2 DEF ResumeSleep, EnteringSleep, SleepInv
  <2> QED BY <2>1, <2>2, <2>3, <1>0, NoBoot, KeepBoot, OwnerSleep, KeepOwnership
          DEF Holds, HoldPcs, ReadyPcs, RunPcs
<1>11. CASE SleepLoad(w)
  <2>1. Lands(w, "run") /\ At(w) = "run" /\ ~BootCall(w) /\ pc[w] = "run"
    BY <1>11, <1>0, StayLands DEF SleepLoad, At, CallPcs, BootCall
  <2>2. UNCHANGED <<queue, finished, flags>>
    BY <1>11 DEF SleepLoad
  <2>3. /\ "run" = "suspend" => co' = "asleep"
        /\ co' \in EnteringSleep \/ "run" = "suspend" => flags' \cap {"kSleeping", "kNonCancellable"} = {}
    BY <1>11, <1>0, <2>2 DEF SleepLoad, EnteringSleep, SleepInv
  <2> QED BY <2>1, <2>2, <2>3, <1>0, NoBoot, KeepBoot, OwnerSleep, KeepOwnership
          DEF Holds, HoldPcs, ReadyPcs, RunPcs
<1>12. CASE SleepCheckCancel(w)
  <2>1. Lands(w, "run") /\ At(w) = "run" /\ ~BootCall(w) /\ pc[w] = "run"
    BY <1>12, <1>0, StayLands DEF SleepCheckCancel, At, CallPcs, BootCall
  <2>2. UNCHANGED <<queue, finished, flags>>
    BY <1>12 DEF SleepCheckCancel
  <2>3. /\ "run" = "suspend" => co' = "asleep"
        /\ co' \in EnteringSleep \/ "run" = "suspend" => flags' \cap {"kSleeping", "kNonCancellable"} = {}
    BY <1>12, <1>0, <2>2 DEF SleepCheckCancel, EnteringSleep, SleepInv
  <2> QED BY <2>1, <2>2, <2>3, <1>0, NoBoot, KeepBoot, OwnerSleep, KeepOwnership
          DEF Holds, HoldPcs, ReadyPcs, RunPcs
<1>13. CASE SleepAppend(w)
  <2>1. Lands(w, "run") /\ At(w) = "run" /\ ~BootCall(w) /\ pc[w] = "run"
    BY <1>13, <1>0, StayLands DEF SleepAppend, At, CallPcs, BootCall
  <2>2. UNCHANGED <<queue, finished, flags>>
    BY <1>13 DEF SleepAppend
  <2>3. /\ "run" = "suspend" => co' = "asleep"
        /\ co' \in EnteringSleep \/ "run" = "suspend" => flags' \cap {"kSleeping", "kNonCancellable"} = {}
    BY <1>13, <1>0, <2>2 DEF SleepAppend, EnteringSleep, SleepInv
  <2> QED BY <2>1, <2>2, <2>3, <1>0, NoBoot, KeepBoot, OwnerSleep, KeepOwnership
          DEF Holds, HoldPcs, ReadyPcs, RunPcs
<1>14. CASE SleepArmDeadline(w)
  <2>1. Lands(w, "run") /\ At(w) = "run" /\ ~BootCall(w) /\ pc[w] = "run"
    BY <1>14, <1>0, StayLands, RestartTimerLands DEF SleepArmDeadline, At, CallPcs, BootCall
  <2>2. UNCHANGED <<queue, finished, flags>>
    BY <1>14 DEF SleepArmDeadline
  <2>3. /\ "run" = "suspend" => co' = "asleep"
        /\ co' \in EnteringSleep \/ "run" = "suspend" => flags' \cap {"kSleeping", "kNonCancellable"} = {}
    BY <1>14, <1>0, <2>2 DEF SleepArmDeadline, EnteringSleep, SleepInv
  <2> QED BY <2>1, <2>2, <2>3, <1>0, NoBoot, KeepBoot, OwnerSleep, KeepOwnership
          DEF Holds, HoldPcs, ReadyPcs, RunPcs
<1>15. CASE SleepYield(w)
  <2>1. Lands(w, "suspend") /\ At(w) = "run" /\ ~BootCall(w) /\ pc[w] = "run"
    BY <1>15, <1>0, GotoLands DEF SleepYield, At, CallPcs, BootCall
  <2>2. UNCHANGED <<queue, finished, flags>>
    BY <1>15 DEF SleepYield
  <2>3. /\ "suspend" = "suspend" => co' = "asleep"
        /\ co' \in EnteringSleep \/ "suspend" = "suspend" => flags' \cap {"kSleeping", "kNonCancellable"} = {}
    BY <1>15, <1>0, <2>2 DEF SleepYield, EnteringSleep, SleepInv
  <2> QED BY <2>1, <2>2, <2>3, <1>0, NoBoot, KeepBoot, OwnerSleep, KeepOwnership
          DEF Holds, HoldPcs, ReadyPcs, RunPcs
<1>16. CASE SleepRearm(w)
  <2>1. Lands(w, "run") /\ At(w) = "run" /\ ~BootCall(w) /\ pc[w] = "run"
    BY <1>16, <1>0, StayLands, ArmCancellationLands DEF SleepRearm, At, CallPcs, BootCall
  <2>2. UNCHANGED <<queue, finished, flags>>
    BY <1>16 DEF SleepRearm
  <2>3. /\ "run" = "suspend" => co' = "asleep"
        /\ co' \in EnteringSleep \/ "run" = "suspend" => flags' \cap {"kSleeping", "kNonCancellable"} = {}
    BY <1>16, <1>0, <2>2 DEF SleepRearm, EnteringSleep, SleepInv
  <2> QED BY <2>1, <2>2, <2>3, <1>0, NoBoot, KeepBoot, OwnerSleep, KeepOwnership
          DEF Holds, HoldPcs, ReadyPcs, RunPcs
<1>17. CASE SleepRemoveAwaiter(w)
  <2>1. Lands(w, "run") /\ At(w) = "run" /\ ~BootCall(w) /\ pc[w] = "run"
    BY <1>17, <1>0, StayLands DEF SleepRemoveAwaiter, At, CallPcs, BootCall
  <2>2. UNCHANGED <<queue, finished, flags>>
    BY <1>17 DEF SleepRemoveAwaiter
  <2>3. /\ "run" = "suspend" => co' = "asleep"
        /\ co' \in EnteringSleep \/ "run" = "suspend" => flags' \cap {"kSleeping", "kNonCancellable"} = {}
    BY <1>17, <1>0, <2>2 DEF SleepRemoveAwaiter, EnteringSleep, SleepInv
  <2> QED BY <2>1, <2>2, <2>3, <1>0, NoBoot, KeepBoot, OwnerSleep, KeepOwnership
          DEF Holds, HoldPcs, ReadyPcs, RunPcs
<1>18. CASE SleepReturn(w)
  <2>1. Lands(w, "run") /\ At(w) = "run" /\ ~BootCall(w) /\ pc[w] = "run"
    BY <1>18, <1>0, StayLands DEF SleepReturn, At, CallPcs, BootCall
  <2>2. UNCHANGED <<queue, finished, flags>>
    BY <1>18 DEF SleepReturn
  <2>3. /\ "run" = "suspend" => co' = "asleep"
        /\ co' \in EnteringSleep \/ "run" = "suspend" => flags' \cap {"kSleeping", "kNonCancellable"} = {}
    BY <1>18, <1>0, <2>2 DEF SleepReturn, EnteringSleep, SleepInv
  <2> QED BY <2>1, <2>2, <2>3, <1>0, NoBoot, KeepBoot, OwnerSleep, KeepOwnership
          DEF Holds, HoldPcs, ReadyPcs, RunPcs
<1>19. CASE BodyReturn(w)
  <2>1. Lands(w, "complete") /\ At(w) = "run" /\ ~BootCall(w) /\ pc[w] = "run"
    BY <1>19, <1>0, GotoLands DEF BodyReturn, At, CallPcs, BootCall
  <2>2. UNCHANGED <<queue, finished, flags>>
    BY <1>19 DEF BodyReturn
  <2>3. /\ "complete" = "suspend" => co' = "asleep"
        /\ co' \in EnteringSleep \/ "complete" = "suspend" => flags' \cap {"kSleeping", "kNonCancellable"} = {}
    BY <1>19, <1>0, <2>2 DEF BodyReturn, EnteringSleep, SleepInv
  <2> QED BY <2>1, <2>2, <2>3, <1>0, NoBoot, KeepBoot, OwnerSleep, KeepOwnership
          DEF Holds, HoldPcs, ReadyPcs, RunPcs
<1>20. CASE SleepStore(w)
  <2>1. Lands(w, "run") /\ At(w) = "run" /\ ~BootCall(w) /\ pc[w] = "run"
    BY <1>20, <1>0, StayLands DEF SleepStore, At, CallPcs, BootCall
  <2>2. UNCHANGED <<queue, finished>> /\ flags' = {}
    BY <1>20 DEF SleepStore
  <2>3. ~Quiet(flags') /\ ~Quiet(flags) /\ Holds(w)
    BY <1>0, <2>1, <2>2 DEF Quiet, EffectiveFlags, Ownership, SchedulableIffUnowned, Owned, Holds,
                            HoldPcs, RunPcs
  <2> QED BY <2>1, <2>2, <2>3, <1>0, NoBoot, KeepBoot, OwnerSleep, KeepOwnership
          DEF HoldPcs, RunPcs
<1>21. CASE PopBlocking(w)
  <2>1. Lands(w, "popped") /\ queue > 0 /\ queue' = queue - 1 /\ UNCHANGED <<finished, flags, co>>
    BY <1>21, <1>0, GotoLands DEF PopBlocking, CallPcs
  <2>2. ~Untouched
    BY <2>1 DEF Untouched
  <2>3. Ownership'
    BY <2>1, <1>0, PopOwnership DEF HoldPcs, ReadyPcs
  <2> QED BY <2>1, <2>2, <2>3, <1>0, NoBootTouched, KeepBoot, KeepSleep DEF Sources
<1>22. CASE DoStepSuspend(w)
  <2> DEFINE prev == IF cancellable THEN flags ELSE flags \ {"kCancelRequest", "kNonCancellable"}
  <2>1. /\ At(w) = "suspend" /\ pc[w] = "suspend" /\ ~BootCall(w) /\ Holds(w)
        /\ co = "asleep" /\ flags \cap {"kSleeping", "kNonCancellable"} = {}
    BY <1>22, <1>0 DEF DoStepSuspend, At, CallPcs, BootCall, SleepInv, Holds, HoldPcs, RunPcs
  <2>2. UNCHANGED <<queue, finished, co>>
    BY <1>22 DEF DoStepSuspend
  <2>3. ~finished /\ ~Quiet(flags) /\ finished' = FALSE
    BY <2>1, <2>2, <1>0 DEF Ownership, SchedulableIffUnowned, Owned, Quiet, OwnershipInv, TypeOK
  <2>4. Quiet(flags') <=> prev = {}
    <3>1. CASE cancellable
      <4>1. flags' = flags \cup ({"kSleeping"} \cup {}) /\ prev = flags
        BY <3>1, <1>22 DEF DoStepSuspend
      <4> QED BY <4>1, <1>0, <2>1, SuspendDecides
    <3>2. CASE ~cancellable
      <4>1. flags' = flags \cup ({"kSleeping"} \cup {"kNonCancellable"})
        BY <3>2, <1>22 DEF DoStepSuspend
      <4>2. prev = flags \ {"kCancelRequest", "kNonCancellable"}
        BY <3>2
      <4> QED BY <4>1, <4>2, <1>0, <2>1, SuspendDecides
    <3> QED BY <3>1, <3>2
  <2>5. CASE prev # {} /\ Goto(w, "schedule")
    <3>1. Lands(w, "schedule") /\ "schedule" \in HoldPcs
      BY <2>5, <1>0, GotoLands DEF CallPcs, HoldPcs, SchedPcs
    <3>2. Ownership'
      BY <3>1, <2>1, <2>2, <2>3, <2>4, <2>5, <1>0, KeepOwnership
    <3> QED BY <3>1, <3>2, <2>1, <2>2, <1>0, NoBoot, KeepBoot, OwnerSleep DEF EnteringSleep
  <2>6. CASE prev = {} /\ pc'[w] = "recheck" /\ Lands(w, "recheck")
    <3>1. Ownership'
      BY <2>1, <2>2, <2>3, <2>4, <2>6, <1>0, PcFacts, ReleaseOwnership
    <3> QED BY <3>1, <2>6, <2>1, <2>2, <1>0, NoBoot, KeepBoot, OwnerSleep DEF EnteringSleep
  <2>7. CASE prev = {} /\ Goto(w, Home(w))
    <3>1. Lands(w, Home(w)) /\ Home(w) \notin HoldPcs /\ Home(w) # "suspend"
      BY <2>7, <1>0, GotoLands, PcFacts
    <3>2. Ownership'
      BY <3>1, <2>1, <2>2, <2>3, <2>4, <2>7, <1>0, ReleaseOwnership
    <3> QED BY <3>1, <3>2, <2>1, <2>2, <1>0, NoBoot, KeepBoot, OwnerSleep DEF EnteringSleep
  <2>8. ASSUME pc' = [pc EXCEPT ![w] = "recheck"],
               arg' = [arg EXCEPT ![w] = [src |-> "kCancelRequest", epoch |-> epoch, ret |-> Home(w)]]
        PROVE  pc'[w] = "recheck" /\ Lands(w, "recheck")
    BY <2>8, <1>0 DEF Lands, At, BootCall, CallPcs
  <2> QED BY <2>5, <2>6, <2>7, <2>8, <1>22 DEF DoStepSuspend
<1>23. CASE DoStepRecheckCancel(w)
  <2>1. Lands(w, Home(w)) /\ At(w) = "recheck" /\ ~BootCall(w) /\ pc[w] = "recheck"
    BY <1>23, <1>0, GotoLands, WakeupLands, PcFacts DEF DoStepRecheckCancel, At, CallPcs, BootCall
  <2>2. UNCHANGED <<queue, finished, flags, co>>
    BY <1>23 DEF DoStepRecheckCancel
  <2>3. Ownership'
    BY <2>1, <2>2, <1>0, PcFacts, KeepOwnership DEF Holds
  <2> QED BY <2>1, <2>2, <2>3, <1>0, NoBoot, KeepBoot, KeepSleep, PcFacts DEF Sources
<1>24. CASE DoStepSignal(w)
  <2>1. /\ Lands(w, Home(w)) /\ At(w) = "signal" /\ ~BootCall(w) /\ pc[w] = "signal"
        /\ Home(w) \notin HoldPcs /\ Home(w) # "suspend" /\ Holds(w)
    BY <1>24, <1>0, GotoLands, PcFacts DEF DoStepSignal, At, CallPcs, BootCall, Holds, HoldPcs, RunPcs
  <2>2. UNCHANGED <<queue, flags, co>> /\ finished' = TRUE
    BY <1>24 DEF DoStepSignal
  <2>3. ~Quiet(flags')
    BY <2>1, <2>2, <1>0 DEF Ownership, SchedulableIffUnowned, Owned, Quiet
  <2>4. Ownership'
    BY <2>1, <2>2, <2>3, <1>0, ReleaseOwnership
  <2> QED BY <2>1, <2>2, <2>4, <1>0, NoBoot, KeepBoot, KeepSleep DEF Sources
<1>25. CASE SleepCheckBeforeStore(w)
  <2>1. /\ Lands(w, "run") /\ At(w) = "run" /\ ~BootCall(w) /\ pc[w] = "run" /\ Holds(w)
        /\ UNCHANGED <<queue, finished, flags>> /\ co' \notin EnteringSleep
    BY <1>25, <1>0, StayLands DEF SleepCheckBeforeStore, At, CallPcs, BootCall, Holds, HoldPcs, RunPcs,
                                  EnteringSleep, sleepVars
  <2> QED BY <2>1, <1>0, NoBoot, KeepBoot, OwnerSleep, KeepOwnership DEF HoldPcs, RunPcs
<1> QED BY <1>1, <1>2, <1>3, <1>4, <1>5, <1>6, <1>7, <1>8, <1>9, <1>10, <1>11, <1>12, <1>13, <1>14, <1>15, <1>16, <1>17, <1>18, <1>19, <1>20, <1>21, <1>22, <1>23, <1>24, <1>25 DEF EngineStep, BodyStep

\* Clients and the timer.
LEMMA OtherStepOwnership ==
  ASSUME OwnershipInv, (\E c \in Clients : ClientCancel(c) \/ ClientNotify(c)) \/ EvStep
  PROVE  (Ownership /\ BootInv /\ SleepInv)'
<1> USE DEF sleepVars, timerVars, coVars, awaitVars, taskVars
<1>0. arg \in [Threads -> ArgType] /\ pc \in [Threads -> Pcs] /\ Ownership /\ BootInv /\ SleepInv
  BY DEF OwnershipInv, TypeOK, ArgType
<1>1. ASSUME NEW t \in Threads, pc[t] = "idle", Lands(t, "idle"), \A u \in Threads : ~BootCall(u),
             UNCHANGED <<queue, finished, flags, co>>
      PROVE  (Ownership /\ BootInv /\ SleepInv)'
  <2>1. At(t) = "idle" /\ "idle" \notin HoldPcs
    BY <1>1, PcFacts DEF At, CallPcs, RestPcs
  <2> QED BY <1>0, <1>1, <2>1, KeepBoot, KeepSleep, KeepOwnership DEF Holds, Sources
<1>2. ASSUME NEW c \in Clients, ClientCancel(c)
      PROVE  (Ownership /\ BootInv /\ SleepInv)'
  <2>1. c \in Threads /\ Creator \in Threads
    BY DEF Threads
  <2>2. Lands(c, "idle") /\ pc[c] = "idle" /\ UNCHANGED <<queue, finished, flags, co>>
    BY <1>0, <1>2, <2>1, RequestCancelLands DEF ClientCancel, CallPcs
  <2>3. ~BootCall(Creator) /\ pc[Creator] # "idle"
    BY <1>2 DEF ClientCancel, BootCall, CallPcs
  <2> QED BY <1>0, <1>1, <2>1, <2>2, <2>3, NoBoot
<1>3. ASSUME NEW c \in Clients, ClientNotify(c)
      PROVE  (Ownership /\ BootInv /\ SleepInv)'
  <2>1. c \in Threads
    BY DEF Threads
  <2>2. Lands(c, "idle") /\ pc[c] = "idle" /\ UNCHANGED <<queue, finished, flags, co>>
    BY <1>0, <1>3, <2>1, WakeupLands DEF ClientNotify
  <2>3. ~Untouched
    BY <1>3 DEF ClientNotify, Untouched
  <2> QED BY <1>0, <1>1, <2>1, <2>2, <2>3, NoBootTouched
<1>4. CASE EvStep
  <2>1. EvThread \in Threads
    BY DEF Threads
  <2>2. /\ Lands(EvThread, "idle") /\ pc[EvThread] = "idle" /\ ~Untouched
        /\ UNCHANGED <<queue, finished, flags, co>>
    <3>1. CASE EvArmTimer
      BY <3>1, <1>0, <2>1, StayLands DEF EvArmTimer, Untouched, CallPcs
    <3>2. CASE EvOnTimer
      BY <3>2, <1>0, <2>1, InvokeTimerLands DEF EvOnTimer, Untouched, CallPcs
    <3>3. CASE EvFinalizeTimer
      BY <3>3, <1>0, <2>1, StayLands DEF EvFinalizeTimer, Untouched, CallPcs
    <3> QED BY <1>4, <3>1, <3>2, <3>3 DEF EvStep
  <2> QED BY <1>0, <1>1, <2>1, <2>2, NoBootTouched
<1> QED BY <1>2, <1>3, <1>4

\* A new task is quiet, unowned, and being bootstrapped.
LEMMA InitOwnership == Init => OwnershipInv
<1> SUFFICES ASSUME Init PROVE OwnershipInv OBVIOUS
<1>1. TypeOK
  BY InitType
<1>2. \A t \in Threads : /\ pc[t] = IF t = Creator THEN "wakeup" ELSE "idle"
                         /\ arg[t] = NoArg(t)
  BY DEF Init
<1>3. \A t \in Threads : At(t) = Home(t)
  <2> TAKE t \in Threads
  <2>0. arg[t] = [src |-> "kBootstrap", epoch |-> 0, ret |-> Home(t)]
    BY <1>2 DEF NoArg
  <2>1. arg[t].ret = Home(t)
    BY <2>0
  <2>2. CASE t = Creator
    BY <1>2, <2>1, <2>2 DEF At, CallPcs
  <2>3. CASE t # Creator
    BY <1>2, <2>3 DEF At, CallPcs, Home
  <2> QED BY <2>2, <2>3
<1>4. ~Owned /\ \A t \in Threads : ~Holds(t)
  BY <1>3, PcFacts DEF Owned, Holds, Init
<1>5. Ownership
  BY <1>4, BootstrapElects DEF Ownership, SingleOwner, SchedulableIffUnowned, Quiet, Init
<1>6. BootInv
  BY <1>2 DEF BootInv, BootCall, Untouched, Init, CallPcs
<1>7. SleepInv
  BY <1>3, PcFacts DEF SleepInv, Init, EnteringSleep
<1> QED BY <1>1, <1>5, <1>6, <1>7 DEF OwnershipInv

\* The invariant is inductive.
LEMMA NextOwnership == OwnershipInv /\ [Next]_vars => OwnershipInv'
<1> SUFFICES ASSUME OwnershipInv, [Next]_vars PROVE OwnershipInv' OBVIOUS
<1>1. TypeOK'
  BY NextType DEF OwnershipInv
<1>2. (Ownership /\ BootInv /\ SleepInv)'
  <2>1. CASE Next
    BY <2>1, CallStepOwnership, WorkerStepOwnership, OtherStepOwnership DEF Next
  <2>2. CASE UNCHANGED vars
    <3>1. UNCHANGED <<flags, finished, queue, co, awaiters, pipe, armed, timer, pc, arg>>
      BY <2>2 DEF vars, sleepVars, timerVars, coVars, awaitVars, taskVars
    <3>2. \A t \in Threads : (At(t)' = At(t)) /\ (BootCall(t)' <=> BootCall(t))
      BY <3>1 DEF At, BootCall
    <3>3. Ownership'
      BY <3>1, <3>2 DEF OwnershipInv, Ownership, SingleOwner, SchedulableIffUnowned, Owned, Holds
    <3>4. BootInv' /\ SleepInv'
      BY <3>1, <3>2 DEF OwnershipInv, BootInv, SleepInv, Untouched
    <3> QED BY <3>3, <3>4
  <2> QED BY <2>1, <2>2
<1> QED BY <1>1, <1>2 DEF OwnershipInv

\* The inductive invariant holds in every state of every task.
THEOREM OwnershipInvariant == Spec => []OwnershipInv
BY InitOwnership, NextOwnership, PTL DEF Spec

\* At most one thread, or the queue, has the task: Schedule() is called once per
\* wakeup, however many sources race.
THEOREM OneOwner == Spec => []SingleOwner
<1>1. OwnershipInv => SingleOwner
  BY DEF OwnershipInv, Ownership
<1> QED BY <1>1, OwnershipInvariant, PTL

\* The word is quiet exactly while nobody has the task and it has not ended: a
\* wakeup is neither lost nor acted on twice.
THEOREM QuietIffUnowned == Spec => []SchedulableIffUnowned
<1>1. OwnershipInv => SchedulableIffUnowned
  BY DEF OwnershipInv, Ownership
<1> QED BY <1>1, OwnershipInvariant, PTL

\* Nothing that is still on its way to a finished task, be it a cancellation, a
\* timer, a notification or a worker, queues it, runs it or changes it.
THEOREM FinalWhenFinished == Spec => FinishedIsFinal
<1> DEFINE Rest == UNCHANGED <<finished, state, epoch, co, hasCoro, finalState, result>>
<1>1. ASSUME OwnershipInv, finished, Next PROVE Rest
  <2> USE DEF sleepVars, timerVars, coVars, awaitVars, taskVars
  <2>0. queue = 0 /\ (\A t \in Threads : ~Holds(t)) /\ Workers \subseteq Threads
    BY <1>1 DEF OwnershipInv, Ownership, SingleOwner, Owned, Threads
  <2>1. \A t \in Threads : pc[t] \notin HoldPcs
    BY <2>0, PcFacts DEF Holds, At
  <2>2. ASSUME NEW t \in Threads, CallStep(t) PROVE Rest
    <3>1. WakeupCheckFinished(t) \/ WakeupSetSource(t) \/ WakeupStaleEpoch(t)
      BY <2>1, <2>2 DEF CallStep, Schedule, ScheduleAdmit, SchedulePush, HoldPcs, SchedPcs
    <3> QED BY <3>1 DEF WakeupCheckFinished, WakeupSetSource, WakeupStaleEpoch
  <2>3. ASSUME NEW w \in Workers, EngineStep(w) PROVE Rest
    <3>1. pc[w] \notin HoldPcs /\ ~(queue > 0)
      BY <2>0, <2>1
    <3>2. DoStepRecheckCancel(w)
      BY <2>3, <3>1 DEF EngineStep, PopBlocking, CheckWaitTime, DoStepGetCoroutine, DoStepOutOfMemory,
        DoStepHasCoroutine, ResumeStart, ResumeSleep, DoStepSuspend, DoStepComplete,
        DoStepFinalizeTimer, DoStepSignal, SleepCheckBeforeStore, SleepStore, SleepCheckCancel, SleepAppend,
        SleepArmDeadline, SleepYield, SleepRearm, SleepRemoveAwaiter, SleepReturn, HoldPcs, ReadyPcs, RunPcs
    <3> QED BY <3>2 DEF DoStepRecheckCancel
  <2>4. ASSUME NEW w \in Workers PROVE ~BodyStep(w)
    BY <2>0, <2>1 DEF BodyStep, SleepLoad, SetCancellable, SetCancelDeadline, BodyReturn, HoldPcs, RunPcs
  <2>5. ASSUME NEW c \in Clients, ClientCancel(c) \/ ClientNotify(c) PROVE Rest
    BY <2>5 DEF ClientCancel, ClientNotify
  <2>6. ASSUME EvStep PROVE Rest
    BY <2>6 DEF EvStep, EvArmTimer, EvOnTimer, EvFinalizeTimer
  <2> QED BY <1>1, <2>2, <2>3, <2>4, <2>5, <2>6 DEF Next
<1>2. ASSUME OwnershipInv, OwnershipInv', [Next]_vars
      PROVE  [finished => ~Owned' /\ Rest]_vars
  <2>1. ASSUME Next, finished PROVE ~Owned' /\ Rest
    <3>1. Rest /\ finished' = finished
      BY <1>1, <1>2, <2>1
    <3>2. ~Owned'
      BY <1>2, <2>1, <3>1 DEF OwnershipInv, Ownership
    <3> QED BY <3>1, <3>2
  <2> QED BY <1>2, <2>1
<1> QED BY <1>2, OwnershipInvariant, PTL DEF Spec, FinishedIsFinal

----------------------------------------------------------------------------
(***************************************************************************)
(* The sleeps of a task: where its coroutine and its state are while it    *)
(* changes hands, and which wakeups a sleep may return. From that the      *)
(* refinement of TaskLife, what a task promises to its users.              *)
(*                                                                         *)
(* The invariant of the ownership says who has the task. Here it is        *)
(* joined by what each place says of state_ and of the coroutine, and by   *)
(* what every pending wakeup, a call begun or a shot of the timer, may     *)
(* claim: a notification was sent, a cancellation was requested, and a     *)
(* deadline is that of an earlier sleep or one that this sleep has.        *)
(***************************************************************************)

(* The inductive invariant *)

FinalStates == {"kCancelled", "kCompleted"}

\* From the moment Sleep() advances the epoch to its return.
InSleep == {"check", "append", "arm", "yield", "asleep", "woken", "remove", "flags"}

\* What the place l of an owner says of state_ and of the coroutine.
Place(l, s, c) ==
  /\ l = "schedule" => s \in {"kNew", "kSuspended"} /\ (s = "kNew" <=> c = "start")
  /\ l \in {"admit", "push"} \cup ReadyPcs => s = "kQueued"
  /\ l \in SchedPcs \cup ReadyPcs => c \in {"start", "asleep"}
  /\ l = "run" => s = "kRunning" /\ c \notin {"start", "asleep", "done"}
  /\ l = "suspend" => s = "kSuspended" /\ c = "asleep"
  /\ l \in {"complete", "finalize"} => c = "done"
  /\ l = "signal" => c \in {"start", "done"}
  /\ l \in {"finalize", "signal"} => s \in FinalStates

\* So does every thread's place; the queue and nobody count as places.
PlaceInv ==
  /\ \A t \in Threads : Place(At(t), state, co)
  /\ queue > 0 => Place("popped", state, co)
  /\ ~Owned /\ ~finished => Place("schedule", state, co)
  /\ finished => state \in FinalStates /\ co \in {"start", "done"}

\* A coroutine that has started and not ended is there, and so is one to resume.
CoroInv ==
  /\ co \notin {"start", "done"} => hasCoro
  /\ \A t \in Threads : At(t) = "resume" => hasCoro

\* A task that is being bootstrapped has not started.
NewInv == \A t \in Threads : BootCall(t) => co = "start"

\* The epoch of the word is that of this sleep, or one before the next.
EpochInv ==
  /\ co \in InSleep => epoch = sleepEpoch
  /\ co \in {"store", "late"} => sleepEpoch = epoch + 1

\* The sources in the word are sources of this sleep.
FlagsInv ==
  co \in InSleep =>
    /\ "kNotify" \in flags => epoch \in popped
    /\ "kDeadlineTimer" \in flags => HasDeadline
    /\ "kCancelRequest" \in flags => reason # "kNone"
    /\ "kBootstrap" \notin flags

\* While it sleeps the word says so, and whether a cancellation counts.
SleptInv ==
  co \in {"woken", "remove", "flags"} \/ (co = "asleep" /\ ~Suspending) =>
    "kSleeping" \in flags /\ ("kNonCancellable" \in flags <=> ~cancellable)

\* A deadline for the epoch e is that of an earlier sleep, or this one has it.
Fresh(e) == e <= epoch /\ (e = epoch /\ co \in InSleep => HasDeadline)

CallOk(a) ==
  /\ a.src = "kNotify" => a.epoch \in popped
  /\ a.src = "kCancelRequest" => reason # "kNone"
  /\ a.src = "kDeadlineTimer" => a.epoch \in Epochs /\ Fresh(a.epoch)

ShotOk(shot) == shot.action = "kWakeupByEpoch" => Fresh(shot.epoch)

\* Pending wakeups claim nothing that is not so.
PendingInv ==
  /\ \A t \in Threads : pc[t] \in CallPcs => CallOk(arg[t])
  /\ ShotOk(pipe) /\ ShotOk(armed)

PlacesInv == PlaceInv /\ CoroInv /\ NewInv
SourcesInv == EpochInv /\ FlagsInv /\ SleptInv /\ PendingInv
TaskInv == OwnershipInv /\ PlacesInv /\ SourcesInv

----------------------------------------------------------------------------
(* What a step may do to the pending wakeups *)

\* A call that a step begins claims what is so.
NewCallOk(a) ==
  \/ a.src = "kNotify" /\ a.epoch \in popped'
  \/ a.src = "kCancelRequest" /\ reason' # "kNone"
  \/ a.src = "kDeadlineTimer" /\ a.epoch \in Epochs /\ Fresh(a.epoch)

OkCalls ==
  \A u \in Threads : pc'[u] \in CallPcs =>
    (pc[u] \in CallPcs /\ arg'[u] = arg[u]) \/ NewCallOk(arg'[u])

OkShot(shot) == shot \in {pipe, armed} \/ (shot \in Shots /\ ShotOk(shot))

\* A step begins no call and sends no shot without cause, and takes back no cause.
Honest ==
  /\ OkCalls
  /\ reason # "kNone" => reason' # "kNone"
  /\ OkShot(pipe') /\ OkShot(armed')

\* No shot, a cancellation and a deadline of this sleep may be sent.
LEMMA ShotFacts ==
  /\ OkShot(NoShot) /\ OkShot(CancelShot)
  /\ \A e \in Epochs : Fresh(e) => OkShot(WakeupShot(e))
<1>1. 0 \in Epochs
  BY EpochAssumption DEF Epochs
<1>2. NoShot \in Shots /\ NoShot.action = "none" /\ CancelShot \in Shots /\ CancelShot.action = "kCancel"
  BY <1>1 DEF NoShot, CancelShot, Shots
<1>3. ASSUME NEW e \in Epochs
      PROVE  WakeupShot(e) \in Shots /\ WakeupShot(e).epoch = e
  BY DEF WakeupShot, Shots
<1> QED BY <1>2, <1>3 DEF OkShot, ShotOk

\* A jump begins no call.
LEMMA GotoHonest ==
  ASSUME NEW t \in Threads, NEW l, l \notin CallPcs,
         pc \in [Threads -> Pcs], arg \in [Threads -> ArgType], Goto(t, l)
  PROVE  OkCalls
BY DEF Goto, OkCalls

\* A call with a cause.
LEMMA WakeupHonest ==
  ASSUME NEW t \in Threads, NEW src, NEW e, NEW ret,
         pc \in [Threads -> Pcs], arg \in [Threads -> ArgType], Wakeup(t, src, e, ret),
         \/ src = "kNotify" /\ e \in popped'
         \/ src = "kCancelRequest" /\ reason' # "kNone"
         \/ src = "kDeadlineTimer" /\ e \in Epochs /\ Fresh(e)
  PROVE  OkCalls
<1>1. arg'[t] = [src |-> src, epoch |-> e, ret |-> ret]
  BY DEF Wakeup
<1>2. NewCallOk(arg'[t])
  BY <1>1 DEF NewCallOk
<1>3. \A u \in Threads : u # t => pc'[u] = pc[u] /\ arg'[u] = arg[u]
  BY DEF Wakeup
<1> QED BY <1>2, <1>3 DEF OkCalls

\* A thread that stays begins no call.
LEMMA StayHonest ==
  ASSUME UNCHANGED <<pc, arg>>
  PROVE  OkCalls
BY DEF OkCalls

\* A request to cancel gives a reason before its call, and takes none back.
LEMMA RequestCancelHonest ==
  ASSUME NEW t \in Threads, NEW ret, ret \notin CallPcs,
         pc \in [Threads -> Pcs], arg \in [Threads -> ArgType], RequestCancel(t, ret)
  PROVE  OkCalls /\ (reason # "kNone" => reason' # "kNone")
<1>1. CASE reason = "kNone"
  BY <1>1, WakeupHonest DEF RequestCancel
<1>2. CASE reason # "kNone"
  BY <1>2, GotoHonest DEF RequestCancel
<1> QED BY <1>1, <1>2

\* The function of the timer calls what its shot is about.
LEMMA InvokeTimerHonest ==
  ASSUME NEW t \in Threads, NEW shot \in Shots, NEW ret, ret \notin CallPcs, ShotOk(shot),
         pc \in [Threads -> Pcs], arg \in [Threads -> ArgType], InvokeTimerFunction(t, shot, ret)
  PROVE  OkCalls /\ (reason # "kNone" => reason' # "kNone")
<1>1. CASE shot.action = "kCancel"
  BY <1>1, RequestCancelHonest DEF InvokeTimerFunction
<1>2. CASE shot.action = "kWakeupByEpoch"
  <2>1. shot.epoch \in Epochs /\ Fresh(shot.epoch)
    BY <1>2 DEF Shots, ShotOk
  <2> QED BY <1>2, <2>1, WakeupHonest DEF InvokeTimerFunction
<1> QED BY <1>1, <1>2 DEF InvokeTimerFunction

\* A restart of the timer sends the shot, or serves it on the spot.
LEMMA RestartTimerHonest ==
  ASSUME NEW t \in Threads, NEW shot \in Shots, NEW ret, ret \notin CallPcs, ShotOk(shot),
         pc \in [Threads -> Pcs], arg \in [Threads -> ArgType], RestartTimer(t, shot, ret)
  PROVE  Honest
<1>1. armed' = armed /\ (pipe' = pipe \/ pipe' = shot)
  BY DEF RestartTimer
<1>2. OkCalls /\ (reason # "kNone" => reason' # "kNone")
  BY InvokeTimerHonest, GotoHonest DEF RestartTimer
<1> QED BY <1>1, <1>2 DEF Honest, OkShot

\* The same for the deadline of the task.
LEMMA ArmCancellationHonest ==
  ASSUME NEW t \in Threads, NEW ret, ret \notin CallPcs,
         pc \in [Threads -> Pcs], arg \in [Threads -> ArgType], ArmCancellationTimer(t, ret)
  PROVE  Honest
<1>1. CASE RestartTimer(t, CancelShot, ret)
  <2>1. CancelShot \in Shots /\ ShotOk(CancelShot)
    BY EpochAssumption DEF CancelShot, Shots, ShotOk, Epochs
  <2> QED BY <1>1, <2>1, RestartTimerHonest
<1>2. CASE Goto(t, ret) /\ UNCHANGED <<reason, timerVars>>
  BY <1>2, GotoHonest DEF Honest, OkShot, timerVars
<1> QED BY <1>1, <1>2 DEF ArmCancellationTimer

----------------------------------------------------------------------------
(* How the parts of the invariant are kept *)

Slept == co \in {"woken", "remove", "flags"} \/ (co = "asleep" /\ ~Suspending)

\* The sleep goes on, or there is none.
Steady ==
  /\ epoch' = epoch
  /\ co' \in InSleep => co \in InSleep /\ (HasDeadline => HasDeadline')
  /\ popped \subseteq popped'

\* While the sleep goes on, a deadline for it stays one.
LEMMA SteadyFresh ==
  ASSUME Steady, NEW e \in Epochs, Fresh(e)
  PROVE  Fresh(e)'
BY DEF Steady, Fresh

\* Honest steps keep what the pending wakeups claim.
LEMMA KeepPending ==
  ASSUME TypeOK, PendingInv, Honest, popped \subseteq popped', \A e \in Epochs : Fresh(e) => Fresh(e)'
  PROVE  PendingInv'
<1>1. ASSUME NEW shot, OkShot(shot)
      PROVE  shot.action = "kWakeupByEpoch" => Fresh(shot.epoch)'
  <2>1. shot \in Shots /\ ShotOk(shot)
    BY <1>1 DEF OkShot, PendingInv, TypeOK
  <2>2. shot.epoch \in Epochs
    BY <2>1 DEF Shots
  <2> QED BY <2>1, <2>2 DEF ShotOk
<1>2. ShotOk(pipe)' /\ ShotOk(armed)'
  BY <1>1 DEF Honest, ShotOk
<1>3. ASSUME NEW u \in Threads, pc'[u] \in CallPcs
      PROVE  CallOk(arg[u])'
  <2>1. CASE pc[u] \in CallPcs /\ arg'[u] = arg[u]
    <3>1. CallOk(arg[u])
      BY <2>1 DEF PendingInv
    <3> QED BY <2>1, <3>1 DEF CallOk, Honest
  <2>2. CASE NewCallOk(arg'[u])
    BY <2>2 DEF NewCallOk, CallOk
  <2> QED BY <1>3, <2>1, <2>2 DEF Honest, OkCalls
<1> QED BY <1>2, <1>3 DEF PendingInv

\* A step that adds no source keeps what the word claims.
LEMMA KeepFlags ==
  ASSUME Steady, FlagsInv, reason # "kNone" => reason' # "kNone", flags' \cap Sources \subseteq flags
  PROVE  FlagsInv'
BY DEF Steady, FlagsInv, Sources

\* The word goes on saying that the task sleeps.
LEMMA KeepSlept ==
  ASSUME SleptInv, Slept' => Slept /\ cancellable' = cancellable,
         "kSleeping" \in flags => "kSleeping" \in flags',
         "kNonCancellable" \in flags' <=> "kNonCancellable" \in flags
  PROVE  SleptInv'
BY DEF SleptInv, Slept

\* All of them.
LEMMA KeepSources ==
  ASSUME TypeOK, SourcesInv, Honest, Steady, EpochInv',
         Slept' => Slept /\ cancellable' = cancellable, flags' = flags
  PROVE  SourcesInv'
<1>1. PendingInv'
  BY SteadyFresh, KeepPending DEF SourcesInv, Steady
<1>2. FlagsInv'
  BY KeepFlags DEF SourcesInv, Honest
<1>3. SleptInv'
  BY KeepSlept DEF SourcesInv
<1> QED BY <1>1, <1>2, <1>3 DEF SourcesInv

----------------------------------------------------------------------------
(* Places *)

\* A thread that does not have the task says nothing of it.
LEMMA PlaceElsewhere ==
  ASSUME NEW l, l \notin HoldPcs, NEW s, NEW c
  PROVE  Place(l, s, c)
BY DEF Place, HoldPcs, SchedPcs, ReadyPcs, RunPcs

\* A step of the owner, which stays the owner.
LEMMA OwnerPlace ==
  ASSUME Ownership, NEW t \in Threads, NEW l \in HoldPcs, Holds(t), Lands(t, l),
         UNCHANGED <<queue, finished>>, Place(l, state', co')
  PROVE  PlaceInv'
<1>1. queue = 0 /\ ~finished /\ \A u \in Threads : u # t => ~Holds(u)
  BY DEF Ownership, SingleOwner, Owned
<1>2. \A u \in Threads : u # t => Place(At(u), state, co)'
  BY <1>1, PlaceElsewhere DEF Lands, Holds, Place
<1>3. Place(At(t), state, co)' /\ Owned'
  BY DEF Lands, Holds, Owned, Place
<1> QED BY <1>1, <1>2, <1>3 DEF PlaceInv

\* The owner lets go of the task, or puts it into the queue.
LEMMA LeavePlace ==
  ASSUME Ownership, Ownership', NEW t \in Threads, NEW l, l \notin HoldPcs, Holds(t), Lands(t, l),
         queue' > 0 => Place("popped", state', co'),
         ~Owned' /\ ~finished' => Place("schedule", state', co'),
         finished' => state' \in FinalStates /\ co' \in {"start", "done"}
  PROVE  PlaceInv'
<1>1. \A u \in Threads : u # t => ~Holds(u)
  BY DEF Ownership, SingleOwner
<1>2. \A u \in Threads : Place(At(u), state, co)'
  BY <1>1, PlaceElsewhere DEF Lands, Holds, Place
<1> QED BY <1>2 DEF PlaceInv, Place

\* A thread takes the task, from nobody or from the queue.
LEMMA TakePlace ==
  ASSUME Ownership, Ownership', NEW t \in Threads, NEW l \in HoldPcs, Lands(t, l),
         \A u \in Threads : ~Holds(u), queue' = 0, ~finished', Place(l, state', co')
  PROVE  PlaceInv'
<1>1. \A u \in Threads : u # t => Place(At(u), state, co)'
  BY PlaceElsewhere DEF Lands, Holds, Place
<1>2. Place(At(t), state, co)' /\ Owned'
  BY DEF Lands, Holds, Owned, Place
<1> QED BY <1>1, <1>2 DEF PlaceInv

\* While the task is being bootstrapped nobody has it.
LEMMA BootUnowned ==
  ASSUME OwnershipInv, NEW t \in Threads, BootCall(t)
  PROVE  ~Owned
<1>1. flags = {"kSleeping"}
  BY DEF OwnershipInv, BootInv, Untouched
<1> QED BY <1>1, BootstrapElects DEF OwnershipInv, Ownership, SchedulableIffUnowned, Quiet

\* Once somebody has the task nobody bootstraps it.
LEMMA KeepNew ==
  ASSUME OwnershipInv, NewInv, NEW t \in Threads, NEW l, Lands(t, l), co' = co \/ Owned
  PROVE  NewInv'
BY BootUnowned DEF NewInv, Lands

----------------------------------------------------------------------------
(* Steps beside the task *)

\* No owner moves, and neither the word nor the coroutine changes.
Aside ==
  /\ UNCHANGED <<flags, epoch, state, finished, queue, co, sleepEpoch, deadline, result, cancellable, hasCoro>>
  /\ popped \subseteq popped'
  /\ Honest
  /\ \A u \in Threads : At(u)' = At(u) \/ (At(u) \notin HoldPcs /\ At(u)' \notin HoldPcs)
  /\ \A u \in Threads : BootCall(u)' => BootCall(u)

\* A thread that stays in its place, or stays without the task, moves no owner.
LEMMA LandsAside ==
  ASSUME NEW t \in Threads, NEW l, Lands(t, l), l = At(t) \/ (l \notin HoldPcs /\ At(t) \notin HoldPcs)
  PROVE  /\ \A u \in Threads : At(u)' = At(u) \/ (At(u) \notin HoldPcs /\ At(u)' \notin HoldPcs)
         /\ \A u \in Threads : BootCall(u)' => BootCall(u)
BY DEF Lands

\* Calls that find the task finished or their epoch gone, the check after a suspension,
\* clients and the ev thread.
AsideStep ==
  \/ \E t \in Threads : WakeupCheckFinished(t) \/ WakeupStaleEpoch(t)
  \/ \E w \in Workers : DoStepRecheckCancel(w)
  \/ \E c \in Clients : ClientCancel(c) \/ ClientNotify(c)
  \/ EvStep

\* Each of those steps is beside the task.
LEMMA AsideSteps ==
  ASSUME TaskInv, AsideStep
  PROVE  Aside
<1> USE DEF sleepVars, timerVars, coVars, awaitVars, taskVars
<1>0. /\ arg \in [Threads -> ArgType] /\ pc \in [Threads -> Pcs] /\ popped \subseteq Epochs
      /\ pipe \in Shots /\ armed \in Shots /\ ShotOk(pipe) /\ ShotOk(armed)
      /\ Workers \subseteq Threads /\ Clients \subseteq Threads /\ EvThread \in Threads
  BY DEF TaskInv, OwnershipInv, TypeOK, ArgType, SourcesInv, PendingInv, Threads
<1>1. ASSUME NEW t \in Threads, WakeupCheckFinished(t) \/ WakeupStaleEpoch(t)
      PROVE  Aside
  <2>1. At(t) = arg[t].ret /\ arg[t].ret \notin CallPcs /\ pc[t] \in CallPcs
    BY <1>0, <1>1, PcFacts DEF WakeupCheckFinished, WakeupStaleEpoch, At, CallPcs, ArgType
  <2>2. Lands(t, At(t)) /\ OkCalls
    <3>1. CASE Goto(t, arg[t].ret)
      BY <1>0, <2>1, <3>1, GotoLands, GotoHonest
    <3>2. CASE pc' = [pc EXCEPT ![t] = "set"] /\ UNCHANGED arg
      BY <1>0, <2>1, <3>2 DEF Lands, At, CallPcs, BootCall, OkCalls
    <3> QED BY <1>1, <3>1, <3>2 DEF WakeupCheckFinished, WakeupStaleEpoch
  <2>3. /\ UNCHANGED <<flags, epoch, state, finished, queue, co, sleepEpoch, deadline, result, cancellable, hasCoro>>
        /\ UNCHANGED <<popped, reason, pipe, armed>>
    BY <1>1 DEF WakeupCheckFinished, WakeupStaleEpoch
  <2> QED BY <2>2, <2>3, LandsAside DEF Aside, Honest, OkShot
<1>2. ASSUME NEW w \in Workers, DoStepRecheckCancel(w)
      PROVE  Aside
  <2>1. Lands(w, Home(w)) /\ OkCalls
    <3>1. CASE reason # "kNone" /\ Wakeup(w, "kCancelRequest", arg[w].epoch, Home(w))
      BY <1>0, <1>2, <3>1, WakeupLands, WakeupHonest DEF DoStepRecheckCancel
    <3>2. CASE Goto(w, Home(w))
      BY <1>0, <3>2, GotoLands, GotoHonest, PcFacts
    <3> QED BY <1>2, <3>1, <3>2 DEF DoStepRecheckCancel
  <2>2. Home(w) \notin HoldPcs /\ At(w) \notin HoldPcs
    BY <1>2, PcFacts DEF DoStepRecheckCancel, At
  <2>3. /\ UNCHANGED <<flags, epoch, state, finished, queue, co, sleepEpoch, deadline, result, cancellable, hasCoro>>
        /\ UNCHANGED <<popped, reason, pipe, armed>>
    BY <1>2 DEF DoStepRecheckCancel
  <2> QED BY <1>0, <2>1, <2>2, <2>3, LandsAside DEF Aside, Honest, OkShot
<1>a. ASSUME NEW t \in Threads, pc[t] = "idle", Lands(t, "idle"), Honest, popped \subseteq popped',
             UNCHANGED <<flags, epoch, state, finished, queue, co, sleepEpoch, deadline, result, cancellable, hasCoro>>
      PROVE  Aside
  <2>1. "idle" \notin HoldPcs /\ At(t) \notin HoldPcs
    BY <1>a, PcFacts DEF At, RestPcs, CallPcs
  <2> QED BY <1>a, <2>1, LandsAside DEF Aside
<1>3. ASSUME NEW c \in Clients, ClientCancel(c)
      PROVE  Aside
  <2>1. RequestCancel(c, "idle") /\ pc[c] = "idle"
    BY <1>3 DEF ClientCancel
  <2>2. Lands(c, "idle") /\ OkCalls /\ (reason # "kNone" => reason' # "kNone")
    BY <1>0, <2>1, RequestCancelLands, RequestCancelHonest DEF CallPcs
  <2>3. /\ UNCHANGED <<flags, epoch, state, finished, queue, co, sleepEpoch, deadline, result, cancellable, hasCoro>>
        /\ UNCHANGED <<popped, pipe, armed>>
    BY <1>3 DEF ClientCancel
  <2> QED BY <1>0, <1>a, <2>1, <2>2, <2>3 DEF Honest, OkShot
<1>4. ASSUME NEW c \in Clients, ClientNotify(c)
      PROVE  Aside
  <2>1. PICK e \in awaiters : popped' = popped \cup {e} /\ Wakeup(c, "kNotify", e, "idle")
    BY <1>4 DEF ClientNotify
  <2>2. Lands(c, "idle") /\ OkCalls /\ pc[c] = "idle"
    BY <1>0, <1>4, <2>1, WakeupLands, WakeupHonest DEF ClientNotify
  <2>3. /\ UNCHANGED <<flags, epoch, state, finished, queue, co, sleepEpoch, deadline, result, cancellable, hasCoro>>
        /\ UNCHANGED <<reason, pipe, armed>> /\ popped \subseteq popped'
    BY <1>4, <2>1 DEF ClientNotify
  <2> QED BY <1>0, <1>a, <2>2, <2>3 DEF Honest, OkShot
<1>5. CASE EvStep
  <2>1. /\ pc[EvThread] = "idle" /\ popped' = popped
        /\ UNCHANGED <<flags, epoch, state, finished, queue, co, sleepEpoch, deadline, result, cancellable, hasCoro>>
    BY <1>5 DEF EvStep, EvArmTimer, EvOnTimer, EvFinalizeTimer
  <2>2. Lands(EvThread, "idle") /\ Honest
    <3>1. CASE EvArmTimer
      <4>1. armed' = pipe /\ pipe' = NoShot /\ UNCHANGED <<reason, pc, arg>>
        BY <3>1 DEF EvArmTimer
      <4> QED BY <1>0, <2>1, <4>1, StayLands, StayHonest, ShotFacts DEF Honest, OkShot, CallPcs
    <3>2. CASE EvOnTimer
      <4>1. InvokeTimerFunction(EvThread, armed, "idle") /\ armed' = NoShot /\ pipe' = pipe
        BY <3>2 DEF EvOnTimer
      <4>2. Lands(EvThread, "idle") /\ OkCalls /\ (reason # "kNone" => reason' # "kNone")
        BY <1>0, <4>1, InvokeTimerLands, InvokeTimerHonest DEF CallPcs
      <4> QED BY <4>1, <4>2, ShotFacts DEF Honest, OkShot
    <3>3. CASE EvFinalizeTimer
      <4>1. armed' = NoShot /\ pipe' = NoShot /\ UNCHANGED <<reason, pc, arg>>
        BY <3>3 DEF EvFinalizeTimer
      <4> QED BY <1>0, <2>1, <4>1, StayLands, StayHonest, ShotFacts DEF Honest, OkShot, CallPcs
    <3> QED BY <1>5, <3>1, <3>2, <3>3 DEF EvStep
  <2> QED BY <1>0, <1>a, <2>1, <2>2
<1> QED BY <1>0, <1>1, <1>2, <1>3, <1>4, <1>5 DEF AsideStep

\* Steps beside the task keep the invariant, and its users do not see them.
LEMMA AsideKeeps ==
  ASSUME TaskInv, Aside
  PROVE  PlacesInv' /\ SourcesInv' /\ UNCHANGED Life!vars
<1>1. /\ \A u \in Threads : Holds(u)' <=> Holds(u)
      /\ \A l \in HoldPcs, u \in Threads : At(u)' = l <=> At(u) = l
  BY DEF Aside, Holds
<1>2. (Owned' <=> Owned) /\ (Suspending' <=> Suspending) /\ (HasDeadline' <=> HasDeadline)
  BY <1>1 DEF Aside, Owned, Suspending, HasDeadline, HoldPcs, RunPcs
<1>3. PlaceInv'
  <2>1. \A u \in Threads : Place(At(u), state, co)'
    BY PlaceElsewhere DEF Aside, Place, TaskInv, PlacesInv, PlaceInv
  <2> QED BY <1>2, <2>1 DEF Aside, TaskInv, PlacesInv, PlaceInv, Place
<1>4. CoroInv' /\ NewInv'
  BY <1>1 DEF Aside, TaskInv, PlacesInv, CoroInv, NewInv, HoldPcs, ReadyPcs
<1>5. SourcesInv'
  <2>1. Steady /\ EpochInv' /\ (Slept' => Slept /\ cancellable' = cancellable)
    BY <1>2 DEF Aside, Steady, EpochInv, Slept, TaskInv, SourcesInv
  <2> QED BY <2>1, KeepSources DEF Aside, TaskInv, OwnershipInv
<1>6. LifeState' = LifeState
  BY <1>1, <1>2 DEF LifeState, Aside, HoldPcs
<1>7. LifePhase' = LifePhase
  BY <1>2 DEF LifePhase, Aside
<1>8. LifeSignals' = LifeSignals
  BY <1>7 DEF LifeSignals, Aside
<1> QED BY <1>2, <1>3, <1>4, <1>5, <1>6, <1>7, <1>8 DEF PlacesInv, Aside, Life!vars

----------------------------------------------------------------------------
(* The task as TaskLife sees it *)

\* The task of an owner runs or is ready; before the step and after it.
LEMMA LifeOfOwner ==
  ASSUME Ownership, NEW t \in Threads, Holds(t)
  PROVE  /\ LifeState = IF At(t) \in RunPcs THEN "running" ELSE "ready"
         /\ Suspending <=> At(t) = "suspend"
<1>1. queue = 0 /\ ~finished /\ Owned /\ \A u \in Threads : u # t => At(u) \notin HoldPcs
  BY DEF Ownership, SingleOwner, Owned, Holds
<1>2. \A u \in Threads : At(u) \in RunPcs \/ At(u) \in SchedPcs \cup ReadyPcs \/ At(u) = "suspend" => u = t
  BY <1>1 DEF HoldPcs, RunPcs
<1>3. (\E u \in Threads : At(u) \in RunPcs) <=> At(t) \in RunPcs
  BY <1>2
<1>4. (\E u \in Threads : At(u) \in SchedPcs \cup ReadyPcs) <=> At(t) \notin RunPcs
  BY <1>2 DEF Holds, HoldPcs, RunPcs, SchedPcs, ReadyPcs
<1> QED BY <1>1, <1>2, <1>3, <1>4 DEF LifeState, Suspending

\* The same after the step.
LEMMA LifeOfNextOwner ==
  ASSUME Ownership', NEW t \in Threads, Holds(t)'
  PROVE  /\ LifeState' = IF At(t)' \in RunPcs THEN "running" ELSE "ready"
         /\ Suspending' <=> At(t)' = "suspend"
<1>1. queue' = 0 /\ ~finished' /\ Owned' /\ \A u \in Threads : u # t => At(u)' \notin HoldPcs
  BY DEF Ownership, SingleOwner, Owned, Holds
<1>2. \A u \in Threads : At(u)' \in RunPcs \/ At(u)' \in SchedPcs \cup ReadyPcs \/ At(u)' = "suspend" => u = t
  BY <1>1 DEF HoldPcs, RunPcs
<1>3. (\E u \in Threads : At(u)' \in RunPcs) <=> At(t)' \in RunPcs
  BY <1>2
<1>4. (\E u \in Threads : At(u)' \in SchedPcs \cup ReadyPcs) <=> At(t)' \notin RunPcs
  BY <1>2 DEF Holds, HoldPcs, RunPcs, SchedPcs, ReadyPcs
<1> QED BY <1>1, <1>2, <1>3, <1>4 DEF LifeState, Suspending

\* The task of nobody is in the queue, new, asleep or finished.
LEMMA LifeOfNobody ==
  ASSUME \A t \in Threads : ~Holds(t), queue \in Nat, finished \in BOOLEAN
  PROVE  /\ ~Suspending
         /\ finished => LifeState = "finished"
         /\ ~finished /\ queue > 0 => LifeState = "ready"
         /\ ~finished /\ queue = 0 => LifeState = IF state = "kNew" THEN "new" ELSE "asleep"
<1>1. \A t \in Threads : At(t) \notin RunPcs /\ At(t) \notin SchedPcs \cup ReadyPcs /\ At(t) # "suspend"
  BY DEF Holds, HoldPcs, RunPcs
<1>2. Owned <=> queue > 0
  BY DEF Owned
<1>3. ~(\E u \in Threads : At(u) \in RunPcs) /\ ~(\E u \in Threads : At(u) \in SchedPcs \cup ReadyPcs)
  BY <1>1
<1> QED BY <1>1, <1>2, <1>3 DEF LifeState, Suspending

\* The same after the step.
LEMMA LifeOfNobodyNext ==
  ASSUME \A t \in Threads : ~Holds(t)', queue' \in Nat, finished' \in BOOLEAN
  PROVE  /\ ~Suspending'
         /\ finished' => LifeState' = "finished"
         /\ ~finished' /\ queue' > 0 => LifeState' = "ready"
         /\ ~finished' /\ queue' = 0 => LifeState' = IF state' = "kNew" THEN "new" ELSE "asleep"
<1>1. \A t \in Threads : At(t)' \notin RunPcs /\ At(t)' \notin SchedPcs \cup ReadyPcs /\ At(t)' # "suspend"
  BY DEF Holds, HoldPcs, RunPcs
<1>2. Owned' <=> queue' > 0
  BY DEF Owned
<1>3. ~(\E u \in Threads : At(u)' \in RunPcs) /\ ~(\E u \in Threads : At(u)' \in SchedPcs \cup ReadyPcs)
  BY <1>1
<1> QED BY <1>1, <1>2, <1>3 DEF LifeState, Suspending

----------------------------------------------------------------------------
(* Steps of the owner that leave the coroutine alone *)

Shift(t, l) ==
  /\ Holds(t) /\ l \in HoldPcs /\ Lands(t, l) /\ At(t) # "suspend" /\ l # "suspend"
  /\ UNCHANGED <<flags, epoch, finished, queue, co, sleepEpoch, deadline, result, cancellable, popped>>
  /\ Honest
  /\ Place(l, state', co)
  /\ co \notin {"start", "done"} \/ l = "resume" => hasCoro'
  /\ At(t) \in RunPcs => l \in RunPcs

ShiftStep(t) ==
  \/ Schedule(t) \/ ScheduleAdmit(t) \/ CheckWaitTime(t)
  \/ DoStepGetCoroutine(t) \/ DoStepOutOfMemory(t) \/ DoStepHasCoroutine(t)
  \/ DoStepComplete(t) \/ DoStepFinalizeTimer(t)

\* Each of those steps moves the owner from one place to the next.
LEMMA ShiftSteps ==
  ASSUME TaskInv, NEW t \in Threads, ShiftStep(t)
  PROVE  \E l \in HoldPcs : Shift(t, l)
<1> USE DEF sleepVars, timerVars, coVars, awaitVars, taskVars
<1>0. /\ arg \in [Threads -> ArgType] /\ pc \in [Threads -> Pcs] /\ finalState \in FinalStates
      /\ Place(At(t), state, co) /\ CoroInv
      /\ OkShot(pipe) /\ OkShot(armed)
  BY DEF TaskInv, OwnershipInv, TypeOK, ArgType, PlacesInv, PlaceInv, FinalStates, OkShot
<1>a. pc[t] \in HoldPcs => At(t) = pc[t] /\ Holds(t)
  BY PcFacts DEF At, Holds
<1>b. {"admit", "push", "step", "resume", "signal", "finalize"} \subseteq HoldPcs \ CallPcs
  BY DEF HoldPcs, SchedPcs, ReadyPcs, RunPcs, CallPcs
<1> USE DEF Shift, Honest
<1>1. CASE Schedule(t)
  <2>1. Lands(t, "admit") /\ OkCalls
    BY <1>0, <1>b, <1>1, GotoLands, GotoHonest DEF Schedule
  <2>2. Shift(t, "admit")
    BY <1>0, <1>a, <1>1, <2>1 DEF Schedule, Place, HoldPcs, SchedPcs, ReadyPcs, RunPcs, CoroInv
  <2> QED BY <1>b, <2>2
<1>2. CASE ScheduleAdmit(t)
  <2>1. Lands(t, "push") /\ OkCalls /\ (reason # "kNone" => reason' # "kNone")
    BY <1>0, <1>b, <1>2, GotoLands, GotoHonest, RequestCancelLands, RequestCancelHonest DEF ScheduleAdmit
  <2>2. Shift(t, "push")
    BY <1>0, <1>a, <1>2, <2>1 DEF ScheduleAdmit, Place, HoldPcs, SchedPcs, ReadyPcs, RunPcs, CoroInv
  <2> QED BY <1>b, <2>2
<1>3. CASE CheckWaitTime(t)
  <2>1. Lands(t, "step") /\ OkCalls /\ (reason # "kNone" => reason' # "kNone")
    BY <1>0, <1>b, <1>3, GotoLands, GotoHonest, RequestCancelLands, RequestCancelHonest DEF CheckWaitTime
  <2>2. Shift(t, "step")
    BY <1>0, <1>a, <1>3, <2>1 DEF CheckWaitTime, Place, HoldPcs, SchedPcs, ReadyPcs, RunPcs, CoroInv
  <2> QED BY <1>b, <2>2
<1>4. CASE DoStepGetCoroutine(t)
  <2>1. Lands(t, "resume") /\ Honest
    BY <1>0, <1>b, <1>4, ArmCancellationLands, ArmCancellationHonest DEF DoStepGetCoroutine
  <2>2. Shift(t, "resume")
    BY <1>0, <1>a, <1>4, <2>1 DEF DoStepGetCoroutine, Place, HoldPcs, SchedPcs, ReadyPcs, RunPcs
  <2> QED BY <1>b, <2>2
<1>5. CASE DoStepOutOfMemory(t)
  <2>1. Lands(t, "signal") /\ OkCalls /\ reason' # "kNone" /\ state' = "kCancelled"
    BY <1>0, <1>b, <1>5, GotoLands, GotoHonest DEF DoStepOutOfMemory
  <2>2. pc[t] = "step" /\ co = "start"
    BY <1>0, <1>a, <1>5 DEF DoStepOutOfMemory, Place, HoldPcs, ReadyPcs, CoroInv
  <2>3. Shift(t, "signal")
    BY <1>0, <1>a, <1>5, <2>1, <2>2 DEF DoStepOutOfMemory, Place, HoldPcs, SchedPcs, ReadyPcs, RunPcs, FinalStates
  <2> QED BY <1>b, <2>3
<1>6. CASE DoStepHasCoroutine(t)
  <2>1. Lands(t, "resume") /\ OkCalls
    BY <1>0, <1>b, <1>6, GotoLands, GotoHonest DEF DoStepHasCoroutine
  <2>2. Shift(t, "resume")
    BY <1>0, <1>a, <1>6, <2>1 DEF DoStepHasCoroutine, Place, HoldPcs, SchedPcs, ReadyPcs, RunPcs
  <2> QED BY <1>b, <2>2
<1>7. CASE DoStepComplete(t)
  <2>1. Lands(t, "finalize") /\ OkCalls
    BY <1>0, <1>b, <1>7, GotoLands, GotoHonest DEF DoStepComplete
  <2>2. Shift(t, "finalize")
    BY <1>0, <1>a, <1>7, <2>1 DEF DoStepComplete, Place, HoldPcs, SchedPcs, ReadyPcs, RunPcs
  <2> QED BY <1>b, <2>2
<1>8. CASE DoStepFinalizeTimer(t)
  <2>1. Lands(t, "signal") /\ OkCalls
    BY <1>0, <1>b, <1>8, GotoLands, GotoHonest DEF DoStepFinalizeTimer
  <2>2. Shift(t, "signal")
    BY <1>0, <1>a, <1>8, <2>1 DEF DoStepFinalizeTimer, Place, HoldPcs, SchedPcs, ReadyPcs, RunPcs
  <2> QED BY <1>b, <2>2
<1> QED BY <1>1, <1>2, <1>3, <1>4, <1>5, <1>6, <1>7, <1>8 DEF ShiftStep

\* They keep the invariant; its users see at most that the task runs.
LEMMA ShiftKeeps ==
  ASSUME TaskInv, OwnershipInv', NEW t \in Threads, NEW l \in HoldPcs, Shift(t, l)
  PROVE  PlacesInv' /\ SourcesInv' /\ [Life!Next]_(Life!vars)
<1>0. Ownership /\ Ownership' /\ TypeOK /\ SourcesInv /\ Owned
  BY DEF TaskInv, OwnershipInv, Shift, Owned
<1>1. PlaceInv'
  BY <1>0, OwnerPlace DEF Shift
<1>2. CoroInv' /\ NewInv'
  <2>1. \A u \in Threads : At(u)' = "resume" => u = t
    BY <1>0 DEF Shift, Lands, Ownership, SingleOwner, Holds, HoldPcs, ReadyPcs
  <2> QED BY <1>0, <2>1, KeepNew DEF Shift, Lands, CoroInv, TaskInv, PlacesInv
<1>3. /\ LifeState = (IF At(t) \in RunPcs THEN "running" ELSE "ready")
      /\ LifeState' = (IF l \in RunPcs THEN "running" ELSE "ready")
      /\ ~Suspending /\ ~Suspending'
  <2>1. Holds(t)' /\ At(t)' = l
    BY DEF Shift, Lands, Holds
  <2> QED BY <1>0, <2>1, LifeOfOwner, LifeOfNextOwner DEF Shift
<1>4. HasDeadline' <=> HasDeadline
  BY DEF Shift, HasDeadline
<1>5. SourcesInv'
  <2>1. Steady /\ EpochInv' /\ (Slept' => Slept /\ cancellable' = cancellable)
    BY <1>0, <1>3, <1>4 DEF Shift, Steady, EpochInv, Slept, SourcesInv
  <2> QED BY <1>0, <2>1, KeepSources DEF Shift
<1>6. LifePhase' = LifePhase
  BY <1>3 DEF LifePhase, Shift
<1>7. LifeSignals' = LifeSignals /\ result' = result
  BY <1>6 DEF LifeSignals, Shift
<1>8. [Life!Next]_(Life!vars)
  <2>1. CASE LifeState' = LifeState
    BY <1>4, <1>6, <1>7, <2>1 DEF Life!vars
  <2>2. CASE LifeState = "ready" /\ LifeState' = "running"
    BY <1>4, <1>6, <1>7, <2>2 DEF Life!Next, Life!Resume
  <2> QED BY <1>3, <2>1, <2>2 DEF Shift
<1> QED BY <1>1, <1>2, <1>5, <1>8 DEF PlacesInv

----------------------------------------------------------------------------
(* Steps of the owner that move the coroutine *)

\* The owner goes on from At(t) to l.
LEMMA OwnerMoves ==
  ASSUME TaskInv, OwnershipInv', NEW t \in Threads, NEW l \in HoldPcs, Holds(t), Lands(t, l), l # "resume",
         UNCHANGED <<queue, finished, hasCoro>>, Place(l, state', co'), co' \notin {"start", "done"} => hasCoro
  PROVE  /\ PlacesInv'
         /\ LifeState = IF At(t) \in RunPcs THEN "running" ELSE "ready"
         /\ LifeState' = IF l \in RunPcs THEN "running" ELSE "ready"
         /\ Suspending <=> At(t) = "suspend"
         /\ Suspending' <=> l = "suspend"
<1>0. Ownership /\ Ownership' /\ Owned
  BY DEF TaskInv, OwnershipInv, Owned
<1>1. PlaceInv'
  BY <1>0, OwnerPlace
<1>2. NewInv'
  BY <1>0, KeepNew DEF TaskInv, PlacesInv
<1>3. CoroInv'
  <2>1. \A u \in Threads : At(u)' # "resume"
    BY <1>0 DEF Lands, Ownership, SingleOwner, Holds, HoldPcs, ReadyPcs
  <2> QED BY <2>1 DEF CoroInv
<1>4. Holds(t)' /\ At(t)' = l
  BY DEF Lands, Holds
<1> QED BY <1>0, <1>1, <1>2, <1>3, <1>4, LifeOfOwner, LifeOfNextOwner DEF PlacesInv

\* What the place of the coroutine says of its phase, before a step and after it.
LEMMA PhaseOf ==
  ASSUME ~Suspending
  PROVE  LifePhase = IF co \in EnteringSleep THEN "entering"
                     ELSE IF co \in {"asleep", "woken", "remove", "flags"} THEN "slept" ELSE "awake"
BY DEF LifePhase, EnteringSleep

\* The same after the step.
LEMMA NextPhaseOf ==
  ASSUME ~Suspending'
  PROVE  LifePhase' = IF co' \in EnteringSleep THEN "entering"
                      ELSE IF co' \in {"asleep", "woken", "remove", "flags"} THEN "slept" ELSE "awake"
BY DEF LifePhase, EnteringSleep

\* A step that its users do not see.
LEMMA Unseen ==
  ASSUME LifeState' = LifeState, LifePhase' = LifePhase, result' = result,
         LifePhase = "awake" \/ UNCHANGED <<flags, cancellable, deadline>>
  PROVE  UNCHANGED Life!vars
<1>1. LifeSignals' = LifeSignals
  <2>1. CASE LifePhase = "awake"
    BY <2>1 DEF LifeSignals
  <2>2. CASE LifePhase # "awake" /\ UNCHANGED <<flags, cancellable>>
    BY <2>2 DEF LifeSignals
  <2> QED BY <2>1, <2>2
<1>2. (LifePhase # "awake" /\ HasDeadline)' = (LifePhase # "awake" /\ HasDeadline)
  BY DEF HasDeadline
<1> QED BY <1>1, <1>2 DEF Life!vars

\* The coroutine goes on, on its worker.
Runs(w) ==
  /\ pc[w] = "run" /\ Lands(w, "run") /\ Honest
  /\ UNCHANGED <<state, queue, finished, hasCoro>>
  /\ co' \notin {"start", "asleep", "done"}

\* The worker keeps the task, and its users see it run.
LEMMA RunsOn ==
  ASSUME TaskInv, OwnershipInv', NEW w \in Threads, Runs(w)
  PROVE  /\ PlacesInv' /\ LifeState = "running" /\ LifeState' = "running" /\ ~Suspending /\ ~Suspending'
         /\ Owned /\ co \notin {"start", "asleep", "done"}
<1>1. At(w) = "run" /\ Holds(w) /\ "run" \in HoldPcs /\ "run" \in RunPcs
  BY DEF Runs, At, CallPcs, Holds, HoldPcs, RunPcs
<1>2. Place("run", state, co)
  BY <1>1 DEF TaskInv, PlacesInv, PlaceInv
<1>3. state = "kRunning" /\ co \notin {"start", "asleep", "done"} /\ hasCoro
  BY <1>2 DEF Place, TaskInv, PlacesInv, CoroInv
<1>4. Place("run", state', co')
  BY <1>3 DEF Runs, Place, SchedPcs, ReadyPcs
<1> QED BY <1>1, <1>3, <1>4, OwnerMoves DEF Runs, Owned

\* A step of the coroutine that neither begins nor ends a sleep.
RunStep(w) ==
  \/ SleepLoad(w) \/ SleepCheckBeforeStore(w) \/ SleepArmDeadline(w) \/ SleepRearm(w)
  \/ SleepRemoveAwaiter(w) \/ SetCancellable(w) \/ SetCancelDeadline(w)

\* It stays outside of a sleep, or on its side of the suspension.
StaysOut == co \in {"body", "store"} /\ co' \in {"body", "store", "late"}

StaysIn ==
  /\ co \in InSleep /\ co' \in InSleep /\ UNCHANGED <<deadline, cancellable>>
  /\ co \in EnteringSleep <=> co' \in EnteringSleep

\* Each of those steps stays on its side of the sleep.
LEMMA RunSteps ==
  ASSUME TaskInv, NEW w \in Threads, RunStep(w)
  PROVE  /\ Runs(w) /\ UNCHANGED <<flags, epoch, result, popped>> /\ EpochInv'
         /\ StaysOut \/ StaysIn
<1> USE DEF sleepVars, timerVars, coVars, awaitVars, taskVars
<1>0. /\ arg \in [Threads -> ArgType] /\ pc \in [Threads -> Pcs] /\ epoch \in Epochs /\ EpochInv
      /\ OkShot(pipe) /\ OkShot(armed) /\ sleepEpoch \in Epochs
  BY DEF TaskInv, OwnershipInv, TypeOK, ArgType, SourcesInv, OkShot
<1>1. pc[w] = "run"
  BY DEF RunStep, SleepLoad, SleepCheckBeforeStore, SleepArmDeadline, SleepRearm, SleepRemoveAwaiter,
         SetCancellable, SetCancelDeadline
<1>2. UNCHANGED <<state, queue, finished, hasCoro, flags, epoch, result, popped>>
  BY DEF RunStep, SleepLoad, SleepCheckBeforeStore, SleepArmDeadline, SleepRearm, SleepRemoveAwaiter,
         SetCancellable, SetCancelDeadline
<1>3. ASSUME UNCHANGED <<reason, pc, arg, pipe, armed>>
      PROVE  Lands(w, "run") /\ Honest
  BY <1>0, <1>1, <1>3, StayLands, StayHonest DEF Honest, CallPcs
<1>4. Lands(w, "run") /\ Honest
  <2>1. CASE SleepArmDeadline(w) /\ HasDeadline
    <3>1. RestartTimer(w, WakeupShot(sleepEpoch), "run") /\ co = "arm"
      BY <2>1 DEF SleepArmDeadline
    <3>2. WakeupShot(sleepEpoch) \in Shots /\ ShotOk(WakeupShot(sleepEpoch))
      BY <1>0, <2>1, <3>1 DEF WakeupShot, Shots, ShotOk, Fresh, EpochInv, InSleep, Epochs
    <3> QED BY <1>0, <3>1, <3>2, RestartTimerLands, RestartTimerHonest DEF CallPcs
  <2>2. CASE SleepRearm(w) /\ HasDeadline
    BY <1>0, <2>2, ArmCancellationLands, ArmCancellationHonest DEF SleepRearm, CallPcs
  <2>3. CASE SetCancelDeadline(w) /\ cancelDeadline'
    <3>1. CancelShot \in Shots /\ ShotOk(CancelShot)
      BY EpochAssumption DEF CancelShot, Shots, ShotOk, Epochs
    <3> QED BY <1>0, <2>3, <3>1, RestartTimerLands, RestartTimerHonest DEF SetCancelDeadline, CallPcs
  <2> QED BY <1>3, <2>1, <2>2, <2>3
       DEF RunStep, SleepLoad, SleepCheckBeforeStore, SleepArmDeadline, SleepRearm, SleepRemoveAwaiter,
           SetCancellable, SetCancelDeadline
<1>5. (StaysOut \/ StaysIn) /\ co' \notin {"start", "asleep", "done"}
  BY DEF RunStep, SleepLoad, SleepCheckBeforeStore, SleepArmDeadline, SleepRearm, SleepRemoveAwaiter,
         SetCancellable, SetCancelDeadline, InSleep, EnteringSleep, StaysOut, StaysIn
<1>6. EpochInv'
  <2>1. CASE SleepLoad(w)
    <3>1. sleepEpoch' = epoch + 1 /\ co' = "store" /\ epoch' = epoch
      BY <1>0, <2>1, NextEpochType DEF SleepLoad
    <3> QED BY <3>1 DEF EpochInv, InSleep
  <2>2. CASE ~SleepLoad(w)
    <3>1. sleepEpoch' = sleepEpoch /\ epoch' = epoch /\ (co' \in {"store", "late"} => co = "store")
      BY <2>2 DEF RunStep, SleepLoad, SleepCheckBeforeStore, SleepArmDeadline, SleepRearm, SleepRemoveAwaiter,
                  SetCancellable, SetCancelDeadline
    <3> QED BY <1>0, <1>5, <3>1 DEF EpochInv, InSleep, StaysOut, StaysIn
  <2> QED BY <2>1, <2>2
<1> QED BY <1>1, <1>2, <1>4, <1>5, <1>6 DEF Runs

\* They keep the invariant, and its users do not see them.
LEMMA RunKeeps ==
  ASSUME TaskInv, OwnershipInv', NEW w \in Threads, RunStep(w)
  PROVE  PlacesInv' /\ SourcesInv' /\ UNCHANGED Life!vars
<1>1. /\ Runs(w) /\ UNCHANGED <<flags, epoch, result, popped>> /\ EpochInv'
      /\ StaysOut \/ StaysIn
  BY RunSteps
<1>2. /\ PlacesInv' /\ LifeState = "running" /\ LifeState' = "running" /\ ~Suspending /\ ~Suspending'
      /\ co \notin {"start", "asleep", "done"} /\ co' \notin {"start", "asleep", "done"}
  BY <1>1, RunsOn DEF Runs
<1>3. CASE StaysOut
  <2>1. Steady /\ ~Slept' /\ LifePhase = "awake" /\ LifePhase' = "awake"
    BY <1>1, <1>2, <1>3, PhaseOf, NextPhaseOf DEF Steady, Slept, InSleep, EnteringSleep, StaysOut
  <2> QED BY <1>1, <1>2, <2>1, KeepSources, Unseen DEF Runs, TaskInv, OwnershipInv
<1>4. CASE StaysIn
  <2>1. Steady /\ (Slept' => Slept /\ cancellable' = cancellable) /\ LifePhase' = LifePhase
    BY <1>1, <1>2, <1>4, PhaseOf, NextPhaseOf DEF Steady, Slept, InSleep, EnteringSleep, HasDeadline, StaysIn
  <2> QED BY <1>1, <1>2, <1>4, <2>1, KeepSources, Unseen DEF Runs, TaskInv, OwnershipInv, StaysIn
<1> QED BY <1>1, <1>3, <1>4

----------------------------------------------------------------------------
(* A sleep begins and ends *)

\* A word that says "asleep" and is not quiet has a source that counts, and
\* GetPrimaryWakeupSource() finds it.
LEMMA PrimaryCounts ==
  ASSUME NEW fl \in SUBSET SleepFlags, "kSleeping" \in fl, ~Quiet(fl), "kBootstrap" \notin fl
  PROVE  GetPrimaryWakeupSource(fl) \in ValidSources(fl) \cap {"kNotify", "kDeadlineTimer", "kCancelRequest"}
<1>1. CASE "kNotify" \in fl
  BY <1>1 DEF GetPrimaryWakeupSource, ValidSources, EffectiveFlags, Sources
<1>2. CASE "kNotify" \notin fl /\ "kDeadlineTimer" \in fl
  BY <1>2 DEF GetPrimaryWakeupSource, ValidSources, EffectiveFlags, Sources
<1>3. CASE "kNotify" \notin fl /\ "kDeadlineTimer" \notin fl
  <2>1. fl \subseteq {"kSleeping", "kNonCancellable", "kCancelRequest"}
    BY <1>3 DEF SleepFlags, Sources
  <2>2. "kCancelRequest" \in fl /\ "kNonCancellable" \notin fl
    <3>1. CASE "kNonCancellable" \in fl
      <4>1. EffectiveFlags(fl) = {"kSleeping"}
        BY <2>1, <3>1 DEF EffectiveFlags
      <4> QED BY <4>1 DEF Quiet
    <3>2. CASE "kNonCancellable" \notin fl /\ "kCancelRequest" \notin fl
      <4>1. EffectiveFlags(fl) = {"kSleeping"}
        BY <2>1, <3>2 DEF EffectiveFlags
      <4> QED BY <4>1 DEF Quiet
    <3> QED BY <3>1, <3>2
  <2>3. GetPrimaryWakeupSource(fl) = "kCancelRequest"
    BY <1>3 DEF GetPrimaryWakeupSource
  <2> QED BY <2>2, <2>3 DEF ValidSources, EffectiveFlags, Sources
<1> QED BY <1>1, <1>2, <1>3

\* So it is for a task that has slept and has an owner again.
LEMMA SleptSources ==
  ASSUME TaskInv, Slept, Owned
  PROVE  /\ GetPrimaryWakeupSource(flags) \in ValidSources(flags) \cap Life!Signals
         /\ ValidSources(flags) = (IF cancellable THEN flags ELSE flags \ {"kCancelRequest"}) \cap Sources
<1>1. /\ flags \in SUBSET SleepFlags /\ "kSleeping" \in flags /\ ("kNonCancellable" \in flags <=> ~cancellable)
      /\ "kBootstrap" \notin flags /\ ~Quiet(flags)
  BY DEF TaskInv, OwnershipInv, TypeOK, Ownership, SchedulableIffUnowned, Quiet, SourcesInv, SleptInv, Slept,
         FlagsInv, InSleep
<1>2. GetPrimaryWakeupSource(flags) \in ValidSources(flags) \cap Life!Signals
  BY <1>1, PrimaryCounts DEF Life!Signals
<1>3. ValidSources(flags) = (IF cancellable THEN flags ELSE flags \ {"kCancelRequest"}) \cap Sources
  BY <1>1 DEF ValidSources, EffectiveFlags, Sources
<1> QED BY <1>2, <1>3

\* Sleep() advances the epoch and clears the flags: what was pending for an
\* earlier sleep is stale from here on.
LEMMA SleepBegins ==
  ASSUME TaskInv, OwnershipInv', NEW w \in Threads, SleepStore(w)
  PROVE  PlacesInv' /\ SourcesInv' /\ Life!BeginSleep
<1> USE DEF sleepVars, timerVars, coVars, awaitVars, taskVars
<1>0. /\ arg \in [Threads -> ArgType] /\ pc \in [Threads -> Pcs] /\ epoch \in Epochs /\ SourcesInv
      /\ OkShot(pipe) /\ OkShot(armed) /\ sleepEpoch = epoch + 1 /\ Epochs \subseteq Int /\ TypeOK
  BY DEF TaskInv, OwnershipInv, TypeOK, ArgType, SourcesInv, OkShot, EpochInv, SleepStore, Epochs
<1>1. /\ pc[w] = "run" /\ flags' = {} /\ epoch' = epoch + 1 /\ sleepEpoch' = epoch + 1 /\ result' = "kNone"
      /\ co \in {"store", "late"} /\ co' \in {"check", "append"}
      /\ UNCHANGED <<state, queue, finished, hasCoro, popped, deadline, cancellable, reason, pc, arg, pipe, armed>>
  BY <1>0 DEF SleepStore
<1>2. Runs(w)
  BY <1>0, <1>1, StayLands, StayHonest DEF Runs, Honest, CallPcs
<1>3. PlacesInv' /\ LifeState = "running" /\ LifeState' = "running" /\ ~Suspending /\ ~Suspending'
  BY <1>2, RunsOn
<1>4. \A e \in Epochs : Fresh(e) => Fresh(e)'
  BY <1>0, <1>1 DEF Fresh
<1>5. PendingInv'
  BY <1>0, <1>1, <1>2, <1>4, KeepPending DEF Runs, SourcesInv
<1>6. EpochInv' /\ FlagsInv' /\ SleptInv'
  BY <1>1 DEF EpochInv, FlagsInv, SleptInv, InSleep
<1>7. LifePhase = "awake" /\ LifePhase' = "entering"
  BY <1>1, <1>3, PhaseOf, NextPhaseOf DEF EnteringSleep
<1>8. LifeSignals = {} /\ LifeSignals' = {}
  <2>1. LifeSignals = {}
    BY <1>7 DEF LifeSignals
  <2>2. LifeSignals' = {}
    BY <1>1 DEF LifeSignals
  <2> QED BY <2>1, <2>2
<1>9. Life!BeginSleep
  BY <1>1, <1>3, <1>7, <1>8 DEF Life!BeginSleep
<1> QED BY <1>3, <1>5, <1>6, <1>9 DEF SourcesInv

\* Sleep() returns to the body.
SleepEnd(w) ==
  co' = "body" /\ (SleepCheckCancel(w) \/ SleepAppend(w) \/ SleepReturn(w))

\* It returns with a source that is about this sleep and counts.
LEMMA SleepEndsWith ==
  ASSUME TaskInv, NEW w \in Threads, SleepEnd(w), Owned
  PROVE  /\ result' = "kNotify" => sleepEpoch \in popped'
         /\ result' = "kDeadlineTimer" => HasDeadline
         /\ result' = "kCancelRequest" => ShouldCancel
         /\ result' # "kBootstrap"
         /\ co \in {"check", "append"} => result' \in {"kNotify", "kCancelRequest"}
         /\ co = "flags" => result' \in ValidSources(flags)
<1> USE DEF sleepVars, timerVars, coVars, awaitVars, taskVars
<1>1. CASE SleepCheckCancel(w)
  BY <1>1 DEF SleepEnd, SleepCheckCancel, Returns
<1>2. CASE SleepAppend(w)
  BY <1>2 DEF SleepEnd, SleepAppend, Returns
<1>3. CASE SleepReturn(w)
  <2>1. co = "flags" /\ result' = GetPrimaryWakeupSource(flags) /\ popped' = popped
    BY <1>3 DEF SleepReturn, Returns
  <2>2. Slept
    BY <2>1 DEF Slept
  <2>3. result' \in ValidSources(flags) \cap Life!Signals
    BY <2>1, <2>2, SleptSources
  <2>4. result' \in flags /\ (result' = "kCancelRequest" => cancellable)
    BY <2>2, <2>3, SleptSources
  <2>5. /\ "kNotify" \in flags => epoch \in popped
        /\ "kDeadlineTimer" \in flags => HasDeadline
        /\ "kCancelRequest" \in flags => reason # "kNone"
        /\ epoch = sleepEpoch
    BY <2>1 DEF TaskInv, SourcesInv, FlagsInv, EpochInv, InSleep
  <2> QED BY <2>1, <2>3, <2>4, <2>5 DEF ShouldCancel, Life!Signals
<1> QED BY <1>1, <1>2, <1>3 DEF SleepEnd

\* The end of a sleep keeps the invariant; TaskLife has that end too.
LEMMA SleepEndKeeps ==
  ASSUME TaskInv, OwnershipInv', NEW w \in Threads, SleepEnd(w)
  PROVE  PlacesInv' /\ SourcesInv' /\ Life!EndSleep
<1> USE DEF sleepVars, timerVars, coVars, awaitVars, taskVars
<1>0. /\ arg \in [Threads -> ArgType] /\ pc \in [Threads -> Pcs] /\ OkShot(pipe) /\ OkShot(armed)
  BY DEF TaskInv, OwnershipInv, TypeOK, ArgType, OkShot
<1>1. /\ pc[w] = "run" /\ co \in {"check", "append", "flags"} /\ co' = "body" /\ deadline' = "none"
      /\ UNCHANGED <<flags, epoch, sleepEpoch, state, queue, finished, hasCoro, cancellable, reason>>
      /\ UNCHANGED <<pc, arg, pipe, armed>>
      /\ popped \subseteq popped'
  BY DEF SleepEnd, SleepCheckCancel, SleepAppend, SleepReturn, Returns
<1>2. Runs(w)
  BY <1>0, <1>1, StayLands, StayHonest DEF Runs, Honest, CallPcs
<1>3. PlacesInv' /\ LifeState = "running" /\ LifeState' = "running" /\ ~Suspending /\ ~Suspending' /\ Owned
  BY <1>2, RunsOn
<1>4. Steady /\ EpochInv' /\ ~Slept'
  BY <1>1 DEF Steady, EpochInv, Slept, InSleep
<1>5. SourcesInv'
  BY <1>1, <1>2, <1>4, KeepSources DEF Runs, TaskInv, OwnershipInv
<1>6. /\ LifePhase' = "awake"
      /\ co \in {"check", "append"} => LifePhase = "entering"
      /\ co = "flags" => LifePhase = "slept"
  BY <1>1, <1>3, PhaseOf, NextPhaseOf DEF EnteringSleep
<1>7. LifeSignals' = {} /\ (LifePhase' # "awake" /\ HasDeadline') = FALSE
  BY <1>6 DEF LifeSignals
<1>8. LifePhase = "slept" => result' \in LifeSignals
  <2>1. CASE co = "flags"
    <3>1. Slept
      BY <2>1 DEF Slept
    <3>2. result' \in ValidSources(flags) /\ LifePhase = "slept"
      BY <1>3, <1>6, <2>1, SleepEndsWith
    <3> QED BY <1>3, <3>1, <3>2, SleptSources DEF LifeSignals
  <2> QED BY <1>1, <1>6, <2>1
<1>9. LifePhase = "entering" => result' \in {"kNotify", "kCancelRequest"}
  BY <1>1, <1>3, <1>6, SleepEndsWith
<1>10. Life!EndSleep
  BY <1>1, <1>3, <1>6, <1>7, <1>8, <1>9 DEF Life!EndSleep
<1> QED BY <1>3, <1>5, <1>10

\* Or it goes on from there.
LEMMA SleepGoesOn ==
  ASSUME TaskInv, OwnershipInv', NEW w \in Threads, co' # "body", SleepCheckCancel(w) \/ SleepAppend(w)
  PROVE  PlacesInv' /\ SourcesInv' /\ UNCHANGED Life!vars
<1> USE DEF sleepVars, timerVars, coVars, awaitVars, taskVars
<1>0. /\ arg \in [Threads -> ArgType] /\ pc \in [Threads -> Pcs] /\ OkShot(pipe) /\ OkShot(armed) /\ SourcesInv
  BY DEF TaskInv, OwnershipInv, TypeOK, ArgType, OkShot
<1>1. /\ pc[w] = "run" /\ co \in {"check", "append"} /\ co' \in {"append", "arm"}
      /\ UNCHANGED <<flags, epoch, sleepEpoch, state, queue, finished, hasCoro, cancellable, reason>>
      /\ UNCHANGED <<pc, arg, pipe, armed, popped, deadline, result>>
  BY DEF SleepCheckCancel, SleepAppend
<1>2. Runs(w)
  BY <1>0, <1>1, StayLands, StayHonest DEF Runs, Honest, CallPcs
<1>3. PlacesInv' /\ LifeState = "running" /\ LifeState' = "running" /\ ~Suspending /\ ~Suspending' /\ Owned
  BY <1>2, RunsOn
<1>4. Steady /\ EpochInv' /\ ~Slept' /\ LifePhase' = LifePhase
  BY <1>0, <1>1, <1>3, PhaseOf, NextPhaseOf
  DEF Steady, EpochInv, Slept, InSleep, HasDeadline, EnteringSleep, SourcesInv
<1> QED BY <1>1, <1>2, <1>3, <1>4, KeepSources, Unseen DEF Runs, TaskInv, OwnershipInv

----------------------------------------------------------------------------
(* The task changes hands *)

\* A worker enters the coroutine or leaves it.
SwitchStep(w) == ResumeStart(w) \/ ResumeSleep(w) \/ SleepYield(w) \/ BodyReturn(w)

\* Both keep the invariant; its users see at most that the task runs.
LEMMA SwitchKeeps ==
  ASSUME TaskInv, OwnershipInv', NEW w \in Threads, SwitchStep(w)
  PROVE  PlacesInv' /\ SourcesInv' /\ [Life!Next]_(Life!vars)
<1> USE DEF sleepVars, timerVars, coVars, awaitVars, taskVars
<1>0. /\ arg \in [Threads -> ArgType] /\ pc \in [Threads -> Pcs] /\ OkShot(pipe) /\ OkShot(armed)
      /\ SourcesInv /\ CoroInv
  BY DEF TaskInv, OwnershipInv, TypeOK, ArgType, OkShot, PlacesInv
<1>1. /\ UNCHANGED <<flags, epoch, sleepEpoch, queue, finished, hasCoro, reason, pipe, armed>>
      /\ UNCHANGED <<popped, deadline, result>>
  BY DEF SwitchStep, ResumeStart, ResumeSleep, SleepYield, BodyReturn
<1>2. PICK l \in HoldPcs \ (CallPcs \cup ReadyPcs) : Goto(w, l)
  BY DEF SwitchStep, ResumeStart, ResumeSleep, SleepYield, BodyReturn, HoldPcs, RunPcs, CallPcs, ReadyPcs
<1>3. /\ ResumeStart(w) \/ ResumeSleep(w) => l = "run" /\ pc[w] = "resume"
      /\ SleepYield(w) => l = "suspend" /\ pc[w] = "run"
      /\ BodyReturn(w) => l = "complete" /\ pc[w] = "run"
  <2>1. pc'[w] = l
    BY <1>0, <1>2 DEF Goto
  <2>2. \A k : Goto(w, k) => pc'[w] = k
    BY <1>0 DEF Goto
  <2> QED BY <2>1, <2>2 DEF ResumeStart, ResumeSleep, SleepYield, BodyReturn
<1>4. Lands(w, l) /\ Honest
  BY <1>0, <1>1, <1>2, GotoLands, GotoHonest DEF Honest
<1>5. At(w) = pc[w] /\ Holds(w) /\ Place(pc[w], state, co)
  <2>1. At(w) = pc[w] /\ Holds(w)
    BY <1>3 DEF SwitchStep, At, CallPcs, Holds, HoldPcs, ReadyPcs, RunPcs
  <2> QED BY <2>1 DEF TaskInv, PlacesInv, PlaceInv
<1>6. Place(l, state', co') /\ (co' \notin {"start", "done"} => hasCoro)
  <2>1. CASE ResumeStart(w) \/ ResumeSleep(w)
    <3>1. l = "run" /\ state' = "kRunning" /\ co' \in {"body", "woken"} /\ hasCoro
      BY <1>0, <1>3, <1>5, <2>1 DEF ResumeStart, ResumeSleep, CoroInv
    <3> QED BY <3>1 DEF Place, SchedPcs, ReadyPcs
  <2>2. CASE SleepYield(w)
    <3>1. l = "suspend" /\ state' = "kSuspended" /\ co' = "asleep" /\ hasCoro
      BY <1>0, <1>3, <2>2 DEF SleepYield, CoroInv
    <3> QED BY <3>1 DEF Place, SchedPcs, ReadyPcs
  <2>3. CASE BodyReturn(w)
    <3>1. l = "complete" /\ co' = "done"
      BY <1>3, <2>3 DEF BodyReturn
    <3> QED BY <3>1 DEF Place, SchedPcs, ReadyPcs
  <2> QED BY <2>1, <2>2, <2>3 DEF SwitchStep
<1>7. /\ PlacesInv'
      /\ LifeState = (IF pc[w] \in RunPcs THEN "running" ELSE "ready")
      /\ LifeState' = (IF l \in RunPcs THEN "running" ELSE "ready")
      /\ ~Suspending
      /\ Suspending' <=> l = "suspend"
  BY <1>1, <1>2, <1>3, <1>4, <1>5, <1>6, OwnerMoves DEF SwitchStep, ReadyPcs
<1>8. CASE ResumeStart(w)
  <2>1. co = "start" /\ co' = "body" /\ l = "run" /\ pc[w] = "resume"
    BY <1>3, <1>8 DEF ResumeStart
  <2>2. Steady /\ ~Slept' /\ EpochInv'
    BY <1>1, <2>1 DEF Steady, Slept, InSleep, EpochInv
  <2>3. LifePhase = "awake" /\ LifePhase' = "awake" /\ LifeState = "ready" /\ LifeState' = "running"
    BY <1>7, <2>1, PhaseOf, NextPhaseOf DEF EnteringSleep, RunPcs
  <2>4. Life!Resume
    BY <1>1, <2>3 DEF Life!Resume, LifeSignals
  <2> QED BY <1>0, <1>1, <1>4, <1>7, <2>2, <2>4, KeepSources DEF Life!Next, TaskInv, OwnershipInv
<1>9. CASE ResumeSleep(w)
  <2>1. co = "asleep" /\ co' = "woken" /\ l = "run" /\ pc[w] = "resume" /\ cancellable' = cancellable
    BY <1>3, <1>9 DEF ResumeSleep
  <2>2. Steady /\ Slept /\ EpochInv'
    BY <1>0, <1>1, <1>7, <2>1 DEF Steady, Slept, InSleep, EpochInv, HasDeadline, SourcesInv
  <2>3. LifePhase = "slept" /\ LifePhase' = "slept" /\ LifeState = "ready" /\ LifeState' = "running"
    BY <1>7, <2>1, PhaseOf, NextPhaseOf DEF EnteringSleep, RunPcs
  <2>4. Life!Resume
    BY <1>1, <2>1, <2>3 DEF Life!Resume, LifeSignals, HasDeadline
  <2> QED BY <1>0, <1>1, <1>4, <1>7, <2>1, <2>2, <2>4, KeepSources DEF Life!Next, TaskInv, OwnershipInv
<1>10. CASE SleepYield(w)
  <2>1. co = "yield" /\ co' = "asleep" /\ l = "suspend" /\ pc[w] = "run" /\ cancellable' = cancellable
    BY <1>3, <1>10 DEF SleepYield
  <2>2. Steady /\ ~Slept' /\ EpochInv'
    BY <1>0, <1>1, <1>7, <2>1 DEF Steady, Slept, InSleep, EpochInv, HasDeadline, SourcesInv
  <2>3. LifePhase = "entering" /\ LifePhase' = "entering" /\ LifeState' = LifeState
    BY <1>7, <2>1 DEF LifePhase, RunPcs
  <2> QED BY <1>0, <1>1, <1>4, <1>7, <2>1, <2>2, <2>3, KeepSources, Unseen DEF TaskInv, OwnershipInv
<1>11. CASE BodyReturn(w)
  <2>1. co = "body" /\ co' = "done" /\ l = "complete" /\ pc[w] = "run"
    BY <1>3, <1>11 DEF BodyReturn
  <2>2. Steady /\ ~Slept' /\ EpochInv'
    BY <1>1, <2>1 DEF Steady, Slept, InSleep, EpochInv
  <2>3. LifePhase = "awake" /\ LifePhase' = "awake" /\ LifeState' = LifeState
    BY <1>7, <2>1, PhaseOf, NextPhaseOf DEF EnteringSleep, RunPcs
  <2> QED BY <1>0, <1>1, <1>4, <1>7, <2>2, <2>3, KeepSources, Unseen DEF TaskInv, OwnershipInv
<1> QED BY <1>8, <1>9, <1>10, <1>11 DEF SwitchStep

\* The task goes into the queue and comes out of it.
LEMMA QueueKeeps ==
  ASSUME TaskInv, OwnershipInv', NEW t \in Threads, SchedulePush(t) \/ PopBlocking(t)
  PROVE  PlacesInv' /\ SourcesInv' /\ UNCHANGED Life!vars
<1> USE DEF sleepVars, timerVars, coVars, awaitVars, taskVars
<1>0. /\ arg \in [Threads -> ArgType] /\ pc \in [Threads -> Pcs] /\ OkShot(pipe) /\ OkShot(armed)
      /\ SourcesInv /\ PlacesInv /\ Ownership /\ Ownership' /\ queue \in Nat /\ finished \in BOOLEAN
      /\ queue' \in Nat /\ finished' \in BOOLEAN
  BY DEF TaskInv, OwnershipInv, TypeOK, ArgType, OkShot
<1>1. /\ UNCHANGED <<flags, epoch, sleepEpoch, state, finished, hasCoro, cancellable, reason, pipe, armed>>
      /\ UNCHANGED <<popped, deadline, result, co>>
  BY DEF SchedulePush, PopBlocking
<1>2. PICK l \in {Home(t), "popped"} : Goto(t, l)
  BY DEF SchedulePush, PopBlocking
<1>3. Lands(t, l) /\ Honest /\ l # "resume"
  <2>1. l \notin CallPcs /\ l # "resume"
    BY <1>2, PcFacts DEF CallPcs, RestPcs
  <2> QED BY <1>0, <1>1, <1>2, <2>1, GotoLands, GotoHonest DEF Honest
<1>4. PlaceInv' /\ LifeState = "ready" /\ LifeState' = "ready" /\ ~Suspending /\ ~Suspending'
  <2>1. CASE SchedulePush(t)
    <3>1. pc[t] = "push" /\ queue' = queue + 1 /\ l = Home(t)
      <4>1. pc'[t] = l /\ (Goto(t, Home(t)) => pc'[t] = Home(t))
        BY <1>0, <1>2 DEF Goto
      <4> QED BY <2>1, <4>1 DEF SchedulePush
    <3>2. At(t) = "push" /\ Holds(t) /\ "push" \notin RunPcs
      BY <3>1 DEF At, CallPcs, Holds, HoldPcs, SchedPcs, RunPcs
    <3>3. Place("push", state, co)
      BY <1>0, <3>2 DEF PlacesInv, PlaceInv
    <3>4. Place("popped", state', co')
      BY <1>1, <3>3 DEF Place, SchedPcs, ReadyPcs
    <3>5. ~finished /\ Owned' /\ queue' > 0 /\ Home(t) \notin HoldPcs
      BY <1>0, <1>1, <3>1, <3>2, PcFacts DEF Ownership, Owned
    <3>6. PlaceInv'
      BY <1>0, <1>1, <1>3, <3>1, <3>2, <3>4, <3>5, LeavePlace
    <3>7. \A u \in Threads : ~Holds(u)'
      BY <1>0, <3>5 DEF Ownership, SingleOwner
    <3>8. LifeState' = "ready" /\ ~Suspending'
      BY <1>0, <1>1, <3>5, <3>7, LifeOfNobodyNext
    <3> QED BY <1>0, <3>2, <3>6, <3>8, LifeOfOwner
  <2>2. CASE PopBlocking(t)
    <3>1. pc[t] = "idle" /\ queue > 0 /\ queue' = queue - 1 /\ l = "popped"
      <4>1. pc'[t] = l /\ (Goto(t, "popped") => pc'[t] = "popped")
        BY <1>0, <1>2 DEF Goto
      <4> QED BY <2>2, <4>1 DEF PopBlocking
    <3>2. queue = 1 /\ queue' = 0 /\ (\A u \in Threads : ~Holds(u)) /\ ~finished
      BY <1>0, <3>1 DEF Ownership, SingleOwner, Owned
    <3>3. Place("popped", state', co')
      BY <1>0, <1>1, <3>1 DEF PlacesInv, PlaceInv
    <3>4. "popped" \in HoldPcs /\ "popped" \notin RunPcs
      BY DEF HoldPcs, ReadyPcs, RunPcs
    <3>5. PlaceInv' /\ Holds(t)' /\ At(t)' = "popped"
      BY <1>0, <1>1, <1>3, <3>1, <3>2, <3>3, <3>4, TakePlace DEF Lands, Holds
    <3>6. LifeState' = "ready" /\ ~Suspending'
      BY <1>0, <3>4, <3>5, LifeOfNextOwner
    <3> QED BY <1>0, <3>1, <3>2, <3>5, <3>6, LifeOfNobody
  <2> QED BY <2>1, <2>2
<1>5. CoroInv' /\ NewInv'
  BY <1>0, <1>1, <1>3, KeepNew DEF CoroInv, PlacesInv, Lands, TaskInv
<1>6. Steady /\ EpochInv' /\ (Slept' => Slept /\ cancellable' = cancellable)
  BY <1>0, <1>1, <1>4 DEF Steady, EpochInv, Slept, HasDeadline, SourcesInv
<1>7. LifePhase' = LifePhase
  BY <1>1, <1>4 DEF LifePhase
<1> QED BY <1>0, <1>1, <1>3, <1>4, <1>5, <1>6, <1>7, KeepSources, Unseen DEF PlacesInv, TaskInv, OwnershipInv

\* The task ends: its awaiters are signalled.
LEMMA SignalKeeps ==
  ASSUME TaskInv, OwnershipInv', NEW w \in Threads, DoStepSignal(w)
  PROVE  PlacesInv' /\ SourcesInv' /\ Life!Finish
<1> USE DEF sleepVars, timerVars, coVars, awaitVars, taskVars
<1>0. /\ arg \in [Threads -> ArgType] /\ pc \in [Threads -> Pcs] /\ OkShot(pipe) /\ OkShot(armed)
      /\ SourcesInv /\ PlacesInv /\ Ownership /\ Ownership' /\ queue' \in Nat /\ finished' \in BOOLEAN
  BY DEF TaskInv, OwnershipInv, TypeOK, ArgType, OkShot
<1>1. /\ UNCHANGED <<flags, epoch, sleepEpoch, state, queue, hasCoro, cancellable, reason, pipe, armed>>
      /\ UNCHANGED <<popped, deadline, result, co>>
      /\ finished' = TRUE /\ pc[w] = "signal"
  BY DEF DoStepSignal
<1>2. At(w) = "signal" /\ Holds(w) /\ "signal" \in RunPcs
  BY <1>1 DEF At, CallPcs, Holds, HoldPcs, RunPcs
<1>3. Lands(w, Home(w)) /\ Honest /\ Home(w) \notin HoldPcs /\ Home(w) # "resume"
  BY <1>0, <1>1, PcFacts, GotoLands, GotoHonest DEF DoStepSignal, Honest, RestPcs
<1>4. state \in FinalStates /\ co \in {"start", "done"}
  <2>1. Place("signal", state, co)
    BY <1>0, <1>2 DEF PlacesInv, PlaceInv
  <2> QED BY <2>1 DEF Place
<1>5. queue' = 0 /\ \A u \in Threads : ~Holds(u)'
  BY <1>0, <1>1 DEF Ownership, SingleOwner, Owned
<1>6. PlaceInv'
  BY <1>0, <1>1, <1>2, <1>3, <1>4, <1>5, LeavePlace
<1>7. CoroInv' /\ NewInv'
  BY <1>0, <1>1, <1>3, KeepNew DEF CoroInv, PlacesInv, Lands, TaskInv
<1>8. LifeState = "running" /\ LifeState' = "finished" /\ ~Suspending /\ ~Suspending'
  BY <1>0, <1>1, <1>2, <1>5, LifeOfOwner, LifeOfNobodyNext
<1>9. LifePhase = "awake" /\ LifePhase' = "awake"
  BY <1>1, <1>4, <1>8, PhaseOf, NextPhaseOf DEF EnteringSleep
<1>10. Life!Finish
  BY <1>1, <1>8, <1>9 DEF Life!Finish, LifeSignals
<1>11. Steady /\ EpochInv' /\ ~Slept'
  BY <1>0, <1>1, <1>4 DEF Steady, EpochInv, Slept, HasDeadline, SourcesInv
<1> QED BY <1>0, <1>1, <1>3, <1>6, <1>7, <1>10, <1>11, KeepSources DEF PlacesInv, TaskInv, OwnershipInv

\* The word says "asleep" from here on; what DoStep() found there decides who
\* has the task.
LEMMA SuspendKeeps ==
  ASSUME TaskInv, OwnershipInv', NEW w \in Threads, DoStepSuspend(w)
  PROVE  PlacesInv' /\ SourcesInv' /\ Life!Suspend
<1> USE DEF sleepVars, timerVars, coVars, awaitVars, taskVars
<1> DEFINE new  == {"kSleeping"} \cup (IF cancellable THEN {} ELSE {"kNonCancellable"})
           prev == IF cancellable THEN flags ELSE flags \ {"kCancelRequest", "kNonCancellable"}
<1>0. /\ arg \in [Threads -> ArgType] /\ pc \in [Threads -> Pcs] /\ OkShot(pipe) /\ OkShot(armed)
      /\ SourcesInv /\ PlacesInv /\ Ownership /\ Ownership' /\ queue' \in Nat /\ finished' \in BOOLEAN
      /\ SleepInv /\ flags \in SUBSET SleepFlags /\ TypeOK
  BY DEF TaskInv, OwnershipInv, TypeOK, ArgType, OkShot
<1>1. /\ UNCHANGED <<epoch, sleepEpoch, state, finished, queue, hasCoro, cancellable, reason, pipe, armed>>
      /\ UNCHANGED <<popped, deadline, result, co>>
      /\ flags' = flags \cup new /\ pc[w] = "suspend"
  BY DEF DoStepSuspend
<1>2. /\ At(w) = "suspend" /\ Holds(w) /\ "suspend" \in RunPcs
      /\ co = "asleep" /\ flags \cap {"kSleeping", "kNonCancellable"} = {}
  BY <1>0, <1>1 DEF At, CallPcs, Holds, HoldPcs, RunPcs, SleepInv
<1>3. state = "kSuspended" /\ hasCoro
  <2>1. Place("suspend", state, co)
    BY <1>0, <1>2 DEF PlacesInv, PlaceInv
  <2> QED BY <1>0, <1>2, <2>1 DEF Place, PlacesInv, CoroInv
<1>4. PICK l \in {"schedule", "recheck", Home(w)} :
        Lands(w, l) /\ OkCalls /\ (l = "schedule" <=> prev # {})
  <2>1. CASE prev # {} /\ Goto(w, "schedule")
    BY <1>0, <2>1, GotoLands, GotoHonest DEF CallPcs
  <2>2. CASE /\ prev = {} /\ pc' = [pc EXCEPT ![w] = "recheck"]
             /\ arg' = [arg EXCEPT ![w] = [src |-> "kCancelRequest", epoch |-> epoch, ret |-> Home(w)]]
    <3>1. Lands(w, "recheck") /\ OkCalls
      BY <1>0, <2>2 DEF Lands, At, BootCall, CallPcs, OkCalls
    <3> QED BY <2>2, <3>1
  <2>3. CASE prev = {} /\ Goto(w, Home(w))
    <3>1. Lands(w, Home(w)) /\ OkCalls /\ Home(w) # "schedule"
      BY <1>0, <2>3, GotoLands, GotoHonest, PcFacts DEF RestPcs
    <3> QED BY <2>3, <3>1
  <2> QED BY <2>1, <2>2, <2>3 DEF DoStepSuspend
<1>5. Honest
  BY <1>0, <1>1, <1>4 DEF Honest
<1>6. Place("schedule", state', co') /\ queue' = 0 /\ ~finished'
  BY <1>0, <1>1, <1>2, <1>3 DEF Place, SchedPcs, ReadyPcs, Ownership, SingleOwner, Owned
<1>7. /\ PlacesInv' /\ ~Suspending' /\ LifeState = "running"
      /\ LifeState' = IF prev = {} THEN "asleep" ELSE "ready"
  <2>1. CASE l = "schedule"
    <3>1. "schedule" \in HoldPcs /\ "schedule" \notin RunPcs
      BY DEF HoldPcs, SchedPcs, RunPcs
    <3> QED BY <1>0, <1>1, <1>2, <1>3, <1>4, <1>6, <2>1, <3>1, OwnerMoves
  <2>2. CASE l # "schedule"
    <3>1. l \notin HoldPcs /\ l # "resume"
      BY <1>4, <2>2, PcFacts DEF RestPcs
    <3>2. \A u \in Threads : ~Holds(u)'
      BY <1>0, <1>2, <1>4, <3>1 DEF Lands, Holds, Ownership, SingleOwner
    <3>3. PlaceInv'
      BY <1>0, <1>2, <1>4, <1>6, <3>1, LeavePlace
    <3>4. Owned
      BY <1>2 DEF Owned
    <3>5. CoroInv' /\ NewInv'
      BY <1>0, <1>1, <1>3, <1>4, <3>4, KeepNew DEF CoroInv, PlacesInv, TaskInv
    <3>6. LifeState' = "asleep" /\ ~Suspending'
      BY <1>0, <1>1, <1>3, <1>6, <3>2, LifeOfNobodyNext
    <3> QED BY <1>0, <1>2, <1>4, <2>2, <3>3, <3>5, <3>6, LifeOfOwner DEF PlacesInv
  <2> QED BY <2>1, <2>2
<1>8. Steady /\ EpochInv'
  BY <1>0, <1>1, <1>2 DEF Steady, EpochInv, HasDeadline, SourcesInv
<1>9. flags' \cap Sources \subseteq flags
  BY <1>1 DEF Sources
<1>10. SourcesInv'
  <2>1. PendingInv'
    BY <1>0, <1>5, <1>8, SteadyFresh, KeepPending DEF SourcesInv, Steady
  <2>2. FlagsInv'
    BY <1>0, <1>5, <1>8, <1>9, KeepFlags DEF SourcesInv, Honest
  <2>3. SleptInv'
    <3>1. "kSleeping" \in flags' /\ ("kNonCancellable" \in flags' <=> ~cancellable')
      BY <1>1, <1>2
    <3> QED BY <3>1 DEF SleptInv
  <2> QED BY <1>8, <2>1, <2>2, <2>3 DEF SourcesInv
<1>11. LifePhase = "entering" /\ LifePhase' = "slept"
  <2>1. Suspending
    BY <1>2 DEF Suspending
  <2> QED BY <1>1, <1>2, <1>7, <2>1, NextPhaseOf DEF LifePhase, EnteringSleep
<1>12. LifeSignals = prev /\ LifeSignals' = prev
  <2>1. LifeSignals = (IF cancellable THEN flags ELSE flags \ {"kCancelRequest"}) \cap Sources
    BY <1>11 DEF LifeSignals
  <2>2. LifeSignals' = (IF cancellable THEN flags' ELSE flags' \ {"kCancelRequest"}) \cap Sources
    BY <1>1, <1>11 DEF LifeSignals
  <2>3. flags' \cap Sources = flags /\ flags \cap Sources = flags /\ "kNonCancellable" \notin flags
    BY <1>0, <1>1, <1>2 DEF SleepFlags, Sources
  <2>4. CASE cancellable
    BY <2>1, <2>2, <2>3, <2>4
  <2>5. CASE ~cancellable
    BY <2>1, <2>2, <2>3, <2>5
  <2> QED BY <2>4, <2>5
<1>13. HasDeadline' <=> HasDeadline
  BY <1>1 DEF HasDeadline
<1>14. Life!Suspend
  BY <1>1, <1>7, <1>11, <1>12, <1>13 DEF Life!Suspend
<1> QED BY <1>7, <1>10, <1>14

----------------------------------------------------------------------------
(* A source enters the word *)

\* What the source claims is so of this sleep.
LEMMA SourceOfThisSleep ==
  ASSUME TaskInv, NEW t \in Threads, pc[t] = "set", arg[t].epoch \in {NoEpoch, epoch}, co \in InSleep
  PROVE  /\ arg[t].src = "kNotify" => epoch \in popped
         /\ arg[t].src = "kDeadlineTimer" => HasDeadline
         /\ arg[t].src = "kCancelRequest" => reason # "kNone"
         /\ arg[t].src # "kBootstrap"
<1>1. CallOk(arg[t]) /\ popped \subseteq Epochs /\ NoEpoch \notin Epochs
  BY DEF TaskInv, SourcesInv, PendingInv, CallPcs, OwnershipInv, TypeOK, NoEpoch, Epochs
<1>2. ~BootCall(t)
  BY DEF TaskInv, PlacesInv, NewInv, InSleep
<1> QED BY <1>1, <1>2 DEF CallOk, Fresh, BootCall, CallPcs

\* The source joins those of the sleep.
LEMMA SourceKeeps ==
  ASSUME TaskInv, NEW t \in Threads, WakeupSetSource(t), Slept' => Slept
  PROVE  SourcesInv'
<1> USE DEF sleepVars, timerVars, coVars, awaitVars, taskVars
<1>0. /\ arg \in [Threads -> ArgType] /\ pc \in [Threads -> Pcs] /\ OkShot(pipe) /\ OkShot(armed)
      /\ SourcesInv /\ TypeOK
  BY DEF TaskInv, OwnershipInv, TypeOK, ArgType, OkShot
<1>1. /\ UNCHANGED <<epoch, sleepEpoch, state, finished, queue, hasCoro, cancellable, reason, pipe, armed>>
      /\ UNCHANGED <<popped, deadline, result, co>>
      /\ flags' = flags \cup {arg[t].src} /\ pc[t] = "set" /\ arg[t].epoch \in {NoEpoch, epoch}
  BY DEF WakeupSetSource
<1>2. arg[t].ret \notin CallPcs /\ arg[t].src \in Sources
  BY <1>0, PcFacts DEF ArgType
<1>3. Honest
  BY <1>0, <1>1, <1>2, GotoHonest DEF WakeupSetSource, Honest, CallPcs
<1>4. Steady /\ EpochInv'
  BY <1>0, <1>1 DEF Steady, EpochInv, HasDeadline, SourcesInv
<1>5. PendingInv'
  BY <1>0, <1>1, <1>3, <1>4, SteadyFresh, KeepPending DEF SourcesInv
<1>6. FlagsInv'
  <2>1. HasDeadline' <=> HasDeadline
    BY <1>1 DEF HasDeadline
  <2> QED BY <1>0, <1>1, <2>1, SourceOfThisSleep DEF FlagsInv, SourcesInv
<1>7. SleptInv'
  BY <1>0, <1>1, <1>2, KeepSlept DEF SourcesInv, Sources
<1> QED BY <1>4, <1>5, <1>6, <1>7 DEF SourcesInv

\* The source that ShouldSchedule() obeys takes the task.
LEMMA SourceTakes ==
  ASSUME TaskInv, OwnershipInv', NEW t \in Threads, WakeupSetSource(t), ShouldSchedule(flags, arg[t].src)
  PROVE  PlacesInv' /\ SourcesInv' /\ Life!Next
<1> USE DEF sleepVars, timerVars, coVars, awaitVars, taskVars
<1> DEFINE src == arg[t].src
<1>0. /\ arg \in [Threads -> ArgType] /\ pc \in [Threads -> Pcs] /\ flags \in SUBSET SleepFlags
      /\ SourcesInv /\ PlacesInv /\ Ownership /\ Ownership' /\ queue \in Nat /\ finished \in BOOLEAN
  BY DEF TaskInv, OwnershipInv, TypeOK, ArgType
<1>1. /\ UNCHANGED <<epoch, sleepEpoch, state, finished, queue, hasCoro, cancellable, reason, pipe, armed>>
      /\ UNCHANGED <<popped, deadline, result, co>>
      /\ flags' = flags \cup {src} /\ pc[t] = "set" /\ arg[t].epoch \in {NoEpoch, epoch}
  BY DEF WakeupSetSource
<1>2. Lands(t, "schedule") /\ "schedule" \in HoldPcs /\ "schedule" \notin RunPcs
  BY <1>0, GotoLands DEF WakeupSetSource, CallPcs, HoldPcs, SchedPcs, RunPcs
<1>3. src \in Sources
  BY <1>0 DEF ArgType
<1>4. Quiet(flags)
  <2>1. CASE src = "kBootstrap"
    <3>1. flags = {"kSleeping"}
      BY <1>1, <2>1 DEF TaskInv, OwnershipInv, BootInv, BootCall, CallPcs, Untouched
    <3> QED BY <3>1, BootstrapElects
  <2>2. CASE src # "kBootstrap"
    BY <1>0, <1>3, <2>2, ElectsOne
  <2> QED BY <2>1, <2>2
<1>5. ~Owned /\ ~finished /\ (\A u \in Threads : ~Holds(u)) /\ queue = 0
  BY <1>0, <1>4 DEF Quiet, Ownership, SchedulableIffUnowned, Owned
<1>6. Place("schedule", state, co)
  BY <1>0, <1>5 DEF PlacesInv, PlaceInv
<1>7. PlaceInv'
  BY <1>0, <1>1, <1>2, <1>5, <1>6, TakePlace
<1>8. CoroInv' /\ NewInv'
  BY <1>0, <1>1, <1>2, KeepNew DEF CoroInv, PlacesInv, Lands, TaskInv
<1>9. /\ LifeState = (IF state = "kNew" THEN "new" ELSE "asleep") /\ ~Suspending
      /\ LifeState' = "ready" /\ ~Suspending'
  <2>1. Holds(t)' /\ At(t)' = "schedule"
    BY <1>2 DEF Lands, Holds
  <2> QED BY <1>0, <1>2, <1>5, <2>1, LifeOfNobody, LifeOfNextOwner
<1>10. SourcesInv'
  BY <1>1, <1>9, SourceKeeps DEF Slept
<1>11. Life!Next
  <2>1. CASE co = "start"
    <3>1. LifePhase = "awake" /\ LifePhase' = "awake" /\ LifeState = "new"
      BY <1>1, <1>6, <1>9, <2>1, PhaseOf, NextPhaseOf DEF EnteringSleep, Place
    <3> QED BY <1>1, <1>9, <3>1 DEF Life!Next, Life!Bootstrap, LifeSignals
  <2>2. CASE co # "start"
    <3>1. co = "asleep" /\ LifePhase = "slept" /\ LifePhase' = "slept" /\ LifeState = "asleep"
      BY <1>1, <1>6, <1>9, <2>2, PhaseOf, NextPhaseOf DEF EnteringSleep, Place, SchedPcs
    <3>2. src \in Life!Signals /\ (src = "kDeadlineTimer" => HasDeadline)
      BY <1>1, <1>3, <3>1, SourceOfThisSleep DEF Life!Signals, Sources, InSleep
    <3>3. src = "kCancelRequest" => cancellable
      <4>1. "kNonCancellable" \in flags <=> ~cancellable
        BY <1>0, <1>9, <3>1 DEF SourcesInv, SleptInv
      <4> QED BY <4>1 DEF ShouldSchedule
    <3>4. LifeSignals' = LifeSignals \cup {src}
      <4>1. LifeSignals = (IF cancellable THEN flags ELSE flags \ {"kCancelRequest"}) \cap Sources
        BY <3>1 DEF LifeSignals
      <4>2. LifeSignals' = (IF cancellable THEN flags' ELSE flags' \ {"kCancelRequest"}) \cap Sources
        BY <1>1, <3>1 DEF LifeSignals
      <4> QED BY <1>1, <1>3, <3>3, <4>1, <4>2
    <3>5. HasDeadline' <=> HasDeadline
      BY <1>1 DEF HasDeadline
    <3>6. Life!Signal(src)
      BY <1>1, <1>9, <3>1, <3>2, <3>4, <3>5 DEF Life!Signal
    <3> QED BY <3>2, <3>6 DEF Life!Next
  <2> QED BY <2>1, <2>2
<1> QED BY <1>7, <1>8, <1>10, <1>11 DEF PlacesInv

\* Any other is only noted.
LEMMA SourceNoted ==
  ASSUME TaskInv, OwnershipInv', NEW t \in Threads, WakeupSetSource(t), ~ShouldSchedule(flags, arg[t].src)
  PROVE  PlacesInv' /\ SourcesInv' /\ [Life!Next]_(Life!vars)
<1> USE DEF sleepVars, timerVars, coVars, awaitVars, taskVars
<1> DEFINE src == arg[t].src
<1>0. /\ arg \in [Threads -> ArgType] /\ pc \in [Threads -> Pcs] /\ flags \in SUBSET SleepFlags
      /\ SourcesInv /\ PlacesInv /\ Ownership /\ SleepInv
  BY DEF TaskInv, OwnershipInv, TypeOK, ArgType
<1>1. /\ UNCHANGED <<epoch, sleepEpoch, state, finished, queue, hasCoro, cancellable, reason, pipe, armed>>
      /\ UNCHANGED <<popped, deadline, result, co>>
      /\ flags' = flags \cup {src} /\ pc[t] = "set" /\ arg[t].epoch \in {NoEpoch, epoch}
  BY DEF WakeupSetSource
<1>2. src \in Sources \ {"kBootstrap"}
  <2>1. CASE src = "kBootstrap"
    <3>1. flags = {"kSleeping"}
      BY <1>1, <2>1 DEF TaskInv, OwnershipInv, BootInv, BootCall, CallPcs, Untouched
    <3> QED BY <2>1, <3>1, BootstrapElects
  <2> QED BY <1>0, <2>1 DEF ArgType
<1>3. \A u \in Threads : At(u)' = At(u) /\ (BootCall(u)' => BootCall(u))
  <2>1. At(t) = arg[t].ret /\ arg[t].ret \notin CallPcs
    BY <1>0, <1>1, PcFacts DEF At, CallPcs, ArgType
  <2>2. Lands(t, At(t))
    BY <1>0, <2>1, GotoLands DEF WakeupSetSource
  <2> QED BY <2>2 DEF Lands
<1>4. /\ \A u \in Threads : Holds(u)' <=> Holds(u)
      /\ Owned' <=> Owned
      /\ Suspending' <=> Suspending
      /\ HasDeadline' <=> HasDeadline
  BY <1>1, <1>3 DEF Holds, Owned, Suspending, HasDeadline
<1>5. PlacesInv'
  BY <1>0, <1>1, <1>3, <1>4 DEF PlacesInv, PlaceInv, CoroInv, NewInv, Place
<1>6. SourcesInv'
  BY <1>1, <1>4, SourceKeeps DEF Slept
<1>7. LifePhase' = LifePhase
  BY <1>1, <1>4 DEF LifePhase
<1>8. LifeState' = LifeState
  BY <1>1, <1>3, <1>4 DEF LifeState
<1>9. CASE LifePhase = "awake"
  BY <1>1, <1>5, <1>6, <1>7, <1>8, <1>9, Unseen
<1>10. CASE LifePhase # "awake"
  <2>1. /\ LifeSignals = (IF cancellable THEN flags ELSE flags \ {"kCancelRequest"}) \cap Sources
        /\ LifeSignals' = (IF cancellable THEN flags' ELSE flags' \ {"kCancelRequest"}) \cap Sources
    BY <1>1, <1>7, <1>10 DEF LifeSignals
  <2>2. CASE src = "kCancelRequest" /\ ~cancellable
    <3>1. LifeSignals' = LifeSignals
      BY <1>1, <2>1, <2>2
    <3> QED BY <1>1, <1>4, <1>5, <1>6, <1>7, <1>8, <3>1 DEF Life!vars
  <2>3. CASE src # "kCancelRequest" \/ cancellable
    <3>1. LifeSignals' = LifeSignals \cup {src}
      BY <1>1, <1>2, <2>1, <2>3
    <3>2. co \in InSleep
      BY <1>0, <1>10 DEF LifePhase, InSleep, SleepInv, Suspending
    <3>3. src \in Life!Signals /\ (src = "kDeadlineTimer" => HasDeadline)
      BY <1>1, <1>2, <3>2, SourceOfThisSleep DEF Life!Signals, Sources
    <3>4. LifeState # "asleep"
      <4> SUFFICES ASSUME LifeState = "asleep" PROVE FALSE OBVIOUS
      <4>1. ~Owned /\ ~finished
        BY <1>0, PcFacts DEF LifeState, Owned, Holds, TaskInv, OwnershipInv, TypeOK
      <4>2. Quiet(flags)
        BY <1>0, <4>1 DEF Ownership, SchedulableIffUnowned, Quiet
      <4>3. Quiet(flags \cup {src})
        BY <1>0, <1>2, <4>2, ElectsOne
      <4>4. src = "kCancelRequest" /\ "kNonCancellable" \in flags
        BY <1>2, <4>3 DEF Quiet, EffectiveFlags, Sources
      <4>5. co \in {"start", "asleep"} /\ ~Suspending
        <5>1. Place("schedule", state, co)
          BY <1>0, <4>1 DEF PlacesInv, PlaceInv
        <5>2. \A u \in Threads : At(u) # "suspend"
          BY <4>1 DEF Owned, Holds, HoldPcs, RunPcs
        <5> QED BY <5>1, <5>2 DEF Place, SchedPcs, Suspending
      <4>6. co = "asleep"
        BY <3>2, <4>5 DEF InSleep
      <4>7. ~cancellable
        BY <1>0, <4>4, <4>5, <4>6 DEF SourcesInv, SleptInv
      <4> QED BY <2>3, <4>4, <4>7
    <3>5. Life!Signal(src)
      BY <1>1, <1>4, <1>7, <1>8, <1>10, <3>1, <3>3, <3>4 DEF Life!Signal
    <3> QED BY <1>5, <1>6, <3>3, <3>5 DEF Life!Next
  <2> QED BY <2>2, <2>3
<1> QED BY <1>9, <1>10

----------------------------------------------------------------------------
(* The invariant and the theorems *)

\* A new task is nobody's, and has not started.
LEMMA InitTask == Init => TaskInv /\ Life!Init
<1> SUFFICES ASSUME Init PROVE TaskInv /\ Life!Init OBVIOUS
<1>1. OwnershipInv /\ flags = {"kSleeping"} /\ co = "start" /\ state = "kNew" /\ queue = 0 /\ ~finished
  BY InitOwnership DEF Init
<1>2. ~Owned /\ \A t \in Threads : ~Holds(t)
  BY <1>1, BootstrapElects DEF OwnershipInv, Ownership, SchedulableIffUnowned, Quiet, Owned
<1>3. PlaceInv
  <2>1. \A t \in Threads : Place(At(t), state, co)
    BY <1>2, PlaceElsewhere DEF Holds
  <2>2. Place("schedule", state, co)
    BY <1>1 DEF Place, ReadyPcs
  <2> QED BY <1>1, <2>1, <2>2 DEF PlaceInv
<1>4. CoroInv /\ NewInv
  BY <1>1, <1>2 DEF CoroInv, NewInv, Holds, HoldPcs, ReadyPcs
<1>5. EpochInv /\ FlagsInv /\ SleptInv
  BY <1>1 DEF EpochInv, FlagsInv, SleptInv, InSleep
<1>6. PendingInv
  <2>1. ShotOk(pipe) /\ ShotOk(armed)
    BY DEF Init, ShotOk, NoShot
  <2>2. \A t \in Threads : arg[t].src = "kBootstrap"
    BY DEF Init, NoArg
  <2> QED BY <2>1, <2>2 DEF PendingInv, CallOk
<1>7. LifeState = "new" /\ ~Suspending
  BY <1>1, <1>2, LifeOfNobody DEF OwnershipInv, TypeOK
<1>8. LifePhase = "awake" /\ LifeSignals = {} /\ result = "kNone"
  BY <1>1, <1>7, PhaseOf DEF LifeSignals, EnteringSleep, Init
<1> QED BY <1>1, <1>3, <1>4, <1>5, <1>6, <1>7, <1>8 DEF TaskInv, PlacesInv, SourcesInv, Life!Init

\* Every step keeps the invariant, and is a step of TaskLife or none.
LEMMA NextTask == TaskInv /\ [Next]_vars => TaskInv' /\ [Life!Next]_(Life!vars)
<1> SUFFICES ASSUME TaskInv, [Next]_vars PROVE TaskInv' /\ [Life!Next]_(Life!vars) OBVIOUS
<1>0. OwnershipInv' /\ Workers \subseteq Threads
  BY NextOwnership DEF TaskInv, Threads
<1> DEFINE Goal == PlacesInv' /\ SourcesInv' /\ [Life!Next]_(Life!vars)
<1>1. ASSUME AsideStep PROVE Goal
  BY <1>1, AsideSteps, AsideKeeps
<1>2. ASSUME NEW t \in Threads, ShiftStep(t) PROVE Goal
  BY <1>0, <1>2, ShiftSteps, ShiftKeeps
<1>3. ASSUME NEW t \in Threads, WakeupSetSource(t) PROVE Goal
  BY <1>0, <1>3, SourceTakes, SourceNoted
<1>4. ASSUME NEW t \in Threads, SchedulePush(t) \/ PopBlocking(t) PROVE Goal
  BY <1>0, <1>4, QueueKeeps
<1>5. ASSUME NEW w \in Threads, RunStep(w) PROVE Goal
  BY <1>0, <1>5, RunKeeps
<1>6. ASSUME NEW w \in Threads, SwitchStep(w) PROVE Goal
  BY <1>0, <1>6, SwitchKeeps
<1>7. ASSUME NEW w \in Threads, SleepStore(w) PROVE Goal
  BY <1>0, <1>7, SleepBegins DEF Life!Next
<1>8. ASSUME NEW w \in Threads, SleepCheckCancel(w) \/ SleepAppend(w) \/ SleepReturn(w) PROVE Goal
  <2>1. CASE SleepEnd(w)
    BY <1>0, <2>1, SleepEndKeeps DEF Life!Next
  <2>2. CASE ~SleepEnd(w)
    BY <1>0, <1>8, <2>2, SleepGoesOn DEF SleepEnd, SleepReturn
  <2> QED BY <2>1, <2>2
<1>9. ASSUME NEW w \in Threads, DoStepSuspend(w) PROVE Goal
  BY <1>0, <1>9, SuspendKeeps DEF Life!Next
<1>10. ASSUME NEW w \in Threads, DoStepSignal(w) PROVE Goal
  BY <1>0, <1>10, SignalKeeps DEF Life!Next
<1>11. ASSUME UNCHANGED vars PROVE Goal
  <2>1. UNCHANGED <<flags, epoch, state, finished, queue, co, sleepEpoch, deadline, result, cancellable, hasCoro,
                    popped, reason, pipe, armed, pc, arg>>
    BY <1>11 DEF vars, sleepVars, timerVars, coVars, awaitVars, taskVars
  <2>2. \A u \in Threads : At(u)' = At(u) /\ (BootCall(u)' <=> BootCall(u))
    BY <2>1 DEF At, BootCall
  <2>3. Aside
    BY <2>1, <2>2, StayHonest DEF Aside, Honest, OkShot
  <2> QED BY <2>3, AsideKeeps
<1>12. ASSUME NEW t \in Threads, CallStep(t) PROVE Goal
  BY <1>12, <1>1, <1>2, <1>3, <1>4 DEF CallStep, AsideStep, ShiftStep
<1>13. ASSUME NEW w \in Workers, EngineStep(w) PROVE Goal
  BY <1>0, <1>13, <1>1, <1>2, <1>4, <1>5, <1>6, <1>7, <1>8, <1>9, <1>10
  DEF EngineStep, AsideStep, ShiftStep, RunStep, SwitchStep
<1>14. ASSUME NEW w \in Workers, BodyStep(w) PROVE Goal
  BY <1>0, <1>14, <1>5, <1>6 DEF BodyStep, RunStep, SwitchStep
<1>15. Goal
  BY <1>1, <1>11, <1>12, <1>13, <1>14 DEF Next, AsideStep
<1> QED BY <1>0, <1>15 DEF TaskInv

\* The inductive invariant holds in every state of every task.
THEOREM TaskInvariant == Spec => []TaskInv
BY InitTask, NextTask, PTL DEF Spec

\* state_ tells where the task is, whichever thread has it: the assertions of
\* Schedule(), Sleep() and SetCancellable() on it never fail.
THEOREM StateFollowsOwner == Spec => []StateMatchesOwner
<1>1. TaskInv => StateMatchesOwner
  <2> SUFFICES ASSUME TaskInv PROVE StateMatchesOwner OBVIOUS
  <2>1. ASSUME NEW t \in Threads
        PROVE  /\ At(t) = "schedule" => state \in {"kNew", "kSuspended"}
               /\ At(t) \in {"admit", "push"} \cup ReadyPcs => state = "kQueued"
               /\ At(t) = "run" => state = "kRunning"
               /\ At(t) = "suspend" => state = "kSuspended"
    BY DEF TaskInv, PlacesInv, PlaceInv, Place
  <2>2. queue > 0 => state = "kQueued"
    BY DEF TaskInv, PlacesInv, PlaceInv, Place, ReadyPcs
  <2>3. finished => state \in {"kCancelled", "kCompleted"}
    BY DEF TaskInv, PlacesInv, PlaceInv, FinalStates
  <2> QED BY <2>1, <2>2, <2>3 DEF StateMatchesOwner
<1> QED BY <1>1, TaskInvariant, PTL

\* A task that was woken finds the source that woke it: the UINVARIANT at the end
\* of GetPrimaryWakeupSource() is never reached.
THEOREM SourceAlwaysFound == Spec => []WakeupSourceFound
<1>1. TaskInv => WakeupSourceFound
  <2> SUFFICES ASSUME TaskInv, co \in {"woken", "remove", "flags"} PROVE ValidSources(flags) # {}
    BY DEF WakeupSourceFound
  <2>1. Slept
    BY DEF Slept
  <2>2. Owned
    <3>1. ~finished
      BY DEF TaskInv, PlacesInv, PlaceInv
    <3> QED BY <3>1 DEF TaskInv, PlacesInv, PlaceInv, Place, SchedPcs
  <2> QED BY <2>1, <2>2, SleptSources
<1> QED BY <1>1, TaskInvariant, PTL

\* What Sleep() returns is about this very sleep, whichever wakeups of earlier
\* sleeps are still on their way.
THEOREM OutcomeOfThisSleep == Spec => SleepOutcome
<1> DEFINE Honored ==
      (co \in {"check", "append", "flags"} /\ co' = "body") =>
        (/\ result' = "kNotify" => sleepEpoch \in popped'
         /\ result' = "kDeadlineTimer" => HasDeadline
         /\ result' = "kCancelRequest" => ShouldCancel
         /\ result' # "kBootstrap")
<1>1. ASSUME TaskInv, Next PROVE Honored
  <2> SUFFICES ASSUME co \in {"check", "append", "flags"}, co' = "body"
               PROVE  /\ result' = "kNotify" => sleepEpoch \in popped'
                      /\ result' = "kDeadlineTimer" => HasDeadline
                      /\ result' = "kCancelRequest" => ShouldCancel
                      /\ result' # "kBootstrap"
    OBVIOUS
  <2> USE DEF sleepVars, timerVars, coVars, awaitVars, taskVars
  <2>1. ASSUME NEW t \in Threads, CallStep(t) PROVE co' = co
    BY <2>1 DEF CallStep, WakeupCheckFinished, WakeupSetSource, WakeupStaleEpoch, Schedule, ScheduleAdmit,
                SchedulePush
  <2>2. ASSUME (\E c \in Clients : ClientCancel(c) \/ ClientNotify(c)) \/ EvStep PROVE co' = co
    BY <2>2 DEF ClientCancel, ClientNotify, EvStep, EvArmTimer, EvOnTimer, EvFinalizeTimer
  <2>3. PICK w \in Workers : EngineStep(w) \/ BodyStep(w)
    BY <1>1, <2>1, <2>2 DEF Next
  <2>4. SleepCheckCancel(w) \/ SleepAppend(w) \/ SleepReturn(w)
    BY <2>3 DEF EngineStep, BodyStep, PopBlocking, CheckWaitTime, DoStepGetCoroutine, DoStepOutOfMemory,
        DoStepHasCoroutine, ResumeStart, ResumeSleep, DoStepSuspend, DoStepRecheckCancel, DoStepComplete,
        DoStepFinalizeTimer, DoStepSignal, SleepCheckBeforeStore, SleepStore, SleepArmDeadline, SleepYield,
        SleepRearm, SleepRemoveAwaiter, SleepLoad, SetCancellable, SetCancelDeadline, BodyReturn
  <2>5. w \in Threads /\ SleepEnd(w)
    BY <2>3, <2>4 DEF Threads, SleepEnd
  <2>6. Owned
    BY <2>4, <2>5 DEF SleepCheckCancel, SleepAppend, SleepReturn, Owned, Holds, At, CallPcs, HoldPcs, RunPcs
  <2> QED BY <1>1, <2>5, <2>6, SleepEndsWith
<1>2. ASSUME TaskInv, [Next]_vars PROVE [Honored]_vars
  BY <1>1, <1>2
<1> QED BY <1>2, TaskInvariant, PTL DEF Spec, SleepOutcome

\* The task of the code is the task of TaskLife: every step of every thread is a
\* step of that specification, or invisible there.
THEOREM TaskLifeImplemented == Spec => ImplementsTaskLife
BY InitTask, NextTask, TaskInvariant, PTL DEF Spec, ImplementsTaskLife, Life!Spec

=============================================================================
