\* Six downloads: three handlers of two phases each, nested or in a row.
SPECIFICATION FairSpec
CONSTANTS
  MaxDownload = 6
  Buttons = {"world", "catalog", "local", "xygrib"}
INVARIANT IdleIsReady
PROPERTY ReturnsWhileShown
\* A hidden dialog without handlers has nothing left to do.
CHECK_DEADLOCK FALSE
