CONSTANTS
  Block = {b1, b2}
  Type <- TwoTypes
  Fields <- TwoFields
  Related <- TwoRelated
  NumRefs = 1
  NumPtrs = 1
  FileLinks <- UpTo0
  LinkInputs <- UpTo0
  FooterInputs <- JustNone
  MaxBeyond = 1
  BS151 = FALSE
  MaxHeld = 1
  MaxSilent = 1
  MaxMapped = 0
  PasteCanFail = TRUE
  Null = Null
  Dangling = Dangling
SYMMETRY Symmetry
SPECIFICATION ListSpec
INVARIANT CachesCurrent TreeOK TreeIsRebuilt EveryBlockListed

