SPECIFICATION AllSpec
CONSTANTS
  Subjects = {"WaitTokenStorage", "TaskProcessor", "ComponentSystem", "FailingSystem",
    "PeriodicTask", "WaitingTask"}
  Tasks = {t1, t2}
  MaxStorages = 2
  MaxTokens = 4
  Workers = {w1, w2}
  NoTask = none
  StopMark = stop
  Components = {c1, c2, c3}
  FewComponents = {c1, c2}
  Forcers = {f1, f2}
  Debuggers = {d1}
  MaxVersion = 2
  MaxForces = 2
CHECK_DEADLOCK FALSE
INVARIANTS
  TokenStorageSafe
  TaskProcessorSafe
  ComponentSystemSafe
  PeriodicTaskSafe
PROPERTIES
  StopsEnd
