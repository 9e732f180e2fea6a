CONSTANTS
  Block = {b1, b2}
  Type <- TwoTypes
  Fields <- TwoFields
  Related <- TwoRelated
  NumRefs = 1
  NumPtrs = 1
  FileLinks <- UpTo1
  LinkInputs <- UpTo1
  FooterInputs <- JustNone
  MaxBeyond = 0
  BS151 = FALSE
  MaxHeld = 0
  MaxSilent = 1
  MaxMapped = 0
  PasteCanFail = FALSE
  Null = Null
  Dangling = Dangling
SYMMETRY Symmetry
SPECIFICATION Spec
INVARIANT FooterListsRoots
