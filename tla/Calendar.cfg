SPECIFICATION Spec
CONSTANTS
  one = one
  two = two
  Apps = {one, two}
  Inputs <- MCInputs
  Texts = {"x"}
  Blank = ""
  Garbage = "?"
  Choices = {"create", "modify"}
  NULL = NULL
  BufferedLines = 36
  MaxLines = 2
SYMMETRY Symmetric
INVARIANTS
  OnlyRealDates
  OneEntryPerDate
PROPERTIES
  EntriesStay
  OthersKeepTheirWords
