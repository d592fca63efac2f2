\* Two clients, two slots, two threads, three records, four jobs.
SPECIFICATION FairSpec
CONSTANTS
  k1 = k1
  k2 = k2
  k3 = k3
  Keys <- TwoKeys
  NumWorkers = 2
  SlotLimit = 2
  RecordLimit = 3
  Full = 1
  MaxJob = 4
INVARIANTS
  ActiveExact
  SlotsConserved
  WorkHasRecord
PROPERTY StatusForward
CHECK_DEADLOCK FALSE
PROPERTIES JobsWorkedOff
