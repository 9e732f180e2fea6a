CONSTANTS
  Documents <- SmallDocuments
  Typings <- SomeTypings
  MaxKids = 2
  NodeType <- Nodes
  ObjectType <- Objects
  PropertyType <- Properties
  ShapeType <- Shapes
  ShapesFirst = FALSE
  BeforeParent <- Bodies
  Constraint <- Hinges
  Matched <- Alphas
  MaxBlocks = 8
  NumRefs = 6
  NumPtrs = 1
  BS151 = TRUE
SPECIFICATION Spec
CHECK_DEADLOCK FALSE
INVARIANT RemovalsExact RearrangedKeeps SanitizeOrders
