\* Any files, any order of events.
SPECIFICATION Spec
CONSTANTS
  MaxRecords = 9
  StepTable <- Steps
  StartOptions <- Start
  Files <- AllFiles
  LaterFiles <- Later
  MaxOpens = 2
  Clock = {9}
  MaxChanges = 1
INVARIANTS TypeOK NoDangling IndexesInRange TimelineNear LabelsOwn
  LoadsRates LoadsVectors LoadsWhole
PROPERTIES PlayBackAdvances
CHECK_DEADLOCK FALSE
