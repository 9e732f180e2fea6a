CONSTANTS
  f1 = f1
  f2 = f2
  f3 = f3
  File <- TheFiles
  Errors <- TheErrors
  MaxThreads = 2
  MaxActions = 4
SPECIFICATION Spec
INVARIANT TypeOK Exhaustive NeverOverReports NoErrorLost DestroyedSafely
PROPERTY RunEnds GuiResponds
CHECK_DEADLOCK FALSE
