\* Every job and every ingestion ends.
SPECIFICATION FairSpec
CONSTANTS
  watch = watch
  operator = operator
  w1 = w1
  w2 = w2
  q1 = q1
  MaxCycle = 2
  NumProducts = 1
  LastHour = 0
  Ingesters = {watch}
  Watcher = watch
  Workers = {w1, w2}
  Readers = {}
  Requests <- OldRequest
  ResultQuota = 0
PROPERTIES JobsEnd IngestionEnds
