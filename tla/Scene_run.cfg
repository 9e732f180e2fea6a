CONSTANTS
  NodeBlock = {n1, n2, n3}
  PropertyBlock = {p1}
  NoNode = NoNode
  Dangling = Dangling
  MaxBlocks = 3
  MaxSilent = 1
SPECIFICATION Spec
INVARIANT TypeOK RefsMatch PaintedIsDocument
PROPERTY FaultsOnlyPending
CHECK_DEADLOCK FALSE
