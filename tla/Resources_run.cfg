CONSTANTS
  Starfield = Starfield
  Game = {Starfield, Fallout4}
  Gui = Gui
  Nested = Nested
  Worker = {w}
  FileKind = {"nif"}
  HasMaterials = {TRUE, FALSE}
  MaxOpened = 3
SPECIFICATION Spec
INVARIANT TypeOK SourcesOpen TempMaterialsUsed KeptIsCurrent
PROPERTY LoadEnds
