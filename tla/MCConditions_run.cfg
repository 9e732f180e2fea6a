CONSTANTS
  Fields <- Texturing
  Top = "top"
  Numeral <- Numerals
  Sample <- Samples
  Word = 256
  MaxUndone = 2
  Breaks = {"has", "matrix"}
  Unknown = Unknown
  None = None
SPECIFICATION Spec
INVARIANT TypeOK ConditionsAsWritten StaleOnlyThrough LoadIsConsistent
