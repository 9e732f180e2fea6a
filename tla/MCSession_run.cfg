CONSTANTS
  f1 = f1
  f2 = f2
  e1 = e1
  File <- TheFiles
  Entry <- TheEntries
  None = None
  Empty = Empty
  Partial = Partial
  Torn = Torn
  Unreadable = Unreadable
  AutoSanitize = TRUE
  MaxEdits = 2
  MaxActs = 5
  MaxDepth = 3
SPECIFICATION Spec
INVARIANT TypeOK CleanIsSaved IdleIsUsable
PROPERTY Reenabled
CHECK_DEADLOCK FALSE
