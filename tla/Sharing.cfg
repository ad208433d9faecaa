SPECIFICATION Spec
CONSTANTS
  i1 = i1
  i2 = i2
  s1 = s1
  s2 = s2
  k1 = k1
  k2 = k2
  k3 = k3
  b1 = b1
  b2 = b2
  b3 = b3
  p0 = p0
  p2 = p2
  p3 = p3
  Calls = {k1, k2, k3}
  IDs = {i1, i2}
  Secrets = {s1, s2}
  Payloads = {p2, p3}
  Bytes <- MCBytes
  Ops = {"SEND", "GET", "PARTIAL_GET"}
  BufferSizes = {2, 3}
  Begins = {1, 3}
  Lengths = {2}
  Word = 16
  BACKLOG = 1
  NULL = NULL
  Junk = Junk
  Buffers = {b1, b2}
  MAX_STORAGE = 1
  ClientHeap = 15
  MayInterrupt = FALSE
SYMMETRY Symmetric
INVARIANTS
  TypeOK
  SuccessMeansKeyed
  DataWasStored
PROPERTIES
  ImplementsBlockStore
  BlocksKeepTheirKeys
