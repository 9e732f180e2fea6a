CONSTANTS
  Starfield = Starfield
  Game = {Starfield, Fallout4}
  Gui = Gui
  Nested = Nested
  Worker = {}
  FileKind = {"other"}
  HasMaterials = {TRUE, FALSE}
  MaxOpened = 2
SPECIFICATION Spec
PROPERTY LoadEnds
