\* Two helpers in a row, two job names, two output paths; an end may never be reported.
SPECIFICATION FairSpec
CONSTANTS
  MaxLaunch = 2
  MaxToken = 2
  a = a
  b = b
  Paths <- TwoPaths
INVARIANTS
  TypeOK
  HelperUnderControl
  SafeToNotify
  ResultIsOwn
PROPERTIES FailureKeepsViewer EndIsNoticed
\* After the dialog is destroyed nothing is left to happen.
CHECK_DEADLOCK FALSE
