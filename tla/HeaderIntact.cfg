\* One client and an origin that fails after its header.
CONSTANTS
  Clients = {c1}
  NoClient = nobody
  HeaderSize = 2
  MaxBytes = 1
  ChunkSizes = {1}
  QueueMayFill = FALSE
  CopyMayFail = FALSE
SPECIFICATION Spec
CHECK_DEADLOCK FALSE
INVARIANT HeaderIntact
