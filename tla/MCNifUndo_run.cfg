CONSTANTS
  l1 = l1
  l2 = l2
  Row <- TwoRows
  Size = Size
  LinkValues <- ZeroOne
  SizeValues <- OneTwo
  MaxChanges = 3
SPECIFICATION Spec
INVARIANT TypeOK UndoRestores NothingLostSilently
