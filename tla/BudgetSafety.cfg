\* Three threads for two downloads, two days, a budget of three units of which one caller
\* may have two.
SPECIFICATION Spec
CONSTANTS
  g1 = g1
  g2 = g2
  g3 = g3
  s1 = s1
  s2 = s2
  ip1 = ip1
  ip2 = ip2
  Threads <- ThreeThreads
  Keys <- FourKeys
  Identities <- Callers
  Sizes = {1, 2}
  GlobalLimit = 3
  ClientLimit = 2
  KeyLimit = 3
  Slots = 2
  MaxDay = 2
INVARIANTS
  BudgetCoversSpent
  DailyLimits
  LengthMatches
  SlotsConserved
PROPERTY BudgetForward
