\* Two workers, one warm slot: publishing, eviction and crashes race.
SPECIFICATION Spec
CONSTANTS
  watch = watch
  operator = operator
  w1 = w1
  w2 = w2
  q1 = q1
  MaxCycle = 1
  NumProducts = 1
  LastHour = 1
  Ingesters = {watch}
  Watcher = watch
  Workers = {w1, w2}
  Readers = {q1}
  Requests <- TwoRequests
  ResultQuota = 1
INVARIANTS ResultWhole
PROPERTIES ImplementsStore
