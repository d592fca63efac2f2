\* Up to five edits of a form with three field values and two picked files; the helper may
\* hang or its end may be lost.
SPECIFICATION FairSpec
CONSTANTS
  short = short
  long = long
  bad = bad
  file1 = file1
  file2 = file2
  Watched <- Fields
  Bad = bad
  Picked <- TwoFiles
  MaxRevision = 6
INVARIANTS
  TypeOK
  EstimateMatchesFields
  IssueMatchesFields
PROPERTY UpdateEnds
