\* Three connection threads with two end-of-message waits each.
SPECIFICATION Spec
CONSTANTS
  Waiters = {w1, w2, w3}
  MaxCalls = 2
INVARIANTS
  TypeOK
  NoLostWakeup
PROPERTIES
  EveryCallReturns
  ImplementsPromise
CHECK_DEADLOCK FALSE
