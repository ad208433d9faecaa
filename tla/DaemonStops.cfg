SPECIFICATION Spec
CONSTANTS
  k1 = k1
  k2 = k2
  k3 = k3
  b1 = b1
  b2 = b2
  b3 = b3
  i1 = i1
  i2 = i2
  s1 = s1
  s2 = s2
  p0 = p0
  p2 = p2
  p3 = p3
  Calls = {k1, k2, k3}
  IDs = {i1}
  Secrets = {s1, s2}
  Payloads = {p3}
  Bytes <- MCBytes
  Ops = {"SEND", "GET"}
  BufferSizes = {2, 3}
  Begins = {1}
  Lengths = {2, 3}
  Word = 16
  BACKLOG = 1
  NULL = NULL
  Junk = Junk
  Buffers = {b1, b2}
  MAX_STORAGE = 2
  ClientHeap = 15
  MayInterrupt = FALSE
SYMMETRY Symmetric
INVARIANTS
  DaemonStaysUp
