\* Retention of cycles while scheduled and manual ingestion, a crop and crashes race.
SPECIFICATION Spec
CONSTANTS
  watch = watch
  operator = operator
  w1 = w1
  w2 = w2
  q1 = q1
  MaxCycle = 4
  NumProducts = 1
  LastHour = 0
  Ingesters = {watch, operator}
  Watcher = watch
  Workers = {w1}
  Readers = {}
  Requests <- OldRequest
  ResultQuota = 1
INVARIANTS TypeOK PinnedRunIntact NewestTwoGenuine RunsBounded
PROPERTIES KeepTwo
