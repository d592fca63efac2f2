\* The user may close the dialog while a handler waits.
SPECIFICATION FairSpec
CONSTANTS
  MaxDownload = 2
  Buttons = {"local"}
PROPERTY AlwaysReturns
CHECK_DEADLOCK FALSE
