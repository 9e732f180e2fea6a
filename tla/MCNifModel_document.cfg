CONSTANTS
  Block = {b1, b2, b3}
  Type <- ShaderTypes
  Fields <- ShaderFields
  Related <- NoneRelated
  NumRefs = 2
  NumPtrs = 0
  FileLinks <- UpTo2
  LinkInputs <- JustFirst
  FooterInputs <- Empty
  MaxBeyond = 0
  BS151 = TRUE
  MaxHeld = 0
  MaxSilent = 1
  MaxMapped = 1
  PasteCanFail = FALSE
  Null = Null
  Dangling = Dangling
SYMMETRY Symmetry
SPECIFICATION DocumentSpec
INVARIANT TypeOK SavedConsistent CachesAcyclic RootsCover OnlyCyclesDropped
PROPERTY LinksKeepTheirBlock
