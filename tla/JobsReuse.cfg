\* The finished job whose record expired before it left active.
SPECIFICATION Spec
CONSTANTS
  k1 = k1
  k2 = k2
  k3 = k3
  Keys <- TwoKeys
  NumWorkers = 2
  SlotLimit = 2
  RecordLimit = 3
  Full = 1
  MaxJob = 3
INVARIANT ActiveIsReused
CHECK_DEADLOCK FALSE
