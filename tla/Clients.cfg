SPECIFICATION FairSpec
CONSTANTS
  Programs = {"cl", "full"}
  SecretBytes = 2
  Size <- MCSize
  Buffer <- MCBuffer
  Inputs <- MCInputs
  MaxLines = 8
  Junk = Junk
  NULL = NULL
CHECK_DEADLOCK FALSE
INVARIANTS
  TypeOK
  AnswersReachTheirFields
  WellFormedIsAccepted
  SameBytesOpen
  FetchesWhatWasTyped
PROPERTIES
  InputIsRead
  EveryReadAdvances
