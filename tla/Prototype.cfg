SPECIFICATION FairSpec
CONSTANTS
  p0 = p0
  p2 = p2
  Calls = {"k1", "k2"}
  IDs = {"a", "b"}
  Text <- MCText
  Secrets = {"zero", "s"}
  SecretBytes <- MCSecretBytes
  Payloads = {p0, p2}
  Bytes <- MCBytes
  Ops = {"SEND", "GET"}
  BufferSizes = {1, 2}
  Begins = {}
  Lengths = {}
  Word = 16
  BACKLOG = 1
  NULL = NULL
  Junk = Junk
  MAX_STORAGE = 1
  Descriptors = 2
CHECK_DEADLOCK FALSE
INVARIANTS
  EveryBufferIsABlock
  DaemonEndsForAReason
  OnlyStoredCallsAreForgotten
PROPERTIES
  OnlyStoringCallsHang
