SPECIFICATION Spec
CONSTANTS
  Components = {c1, c2}
  MayThrow = {"OnAllComponentsLoaded"}
CHECK_DEADLOCK FALSE
INVARIANTS
  HooksInOrder
