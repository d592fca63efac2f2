SPECIFICATION Spec
CONSTANTS
  MaxLaunch = 2
  MaxToken = 2
  a = a
  b = b
  Paths <- TwoPaths
INVARIANT OpensOwnOutput
CHECK_DEADLOCK FALSE
