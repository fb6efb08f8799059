\* Two clients, bodies of up to three bytes in chunks of one or two.
CONSTANTS
  Clients = {c1, c2}
  NoClient = nobody
  HeaderSize = 2
  MaxBytes = 3
  ChunkSizes = {1, 2}
  QueueMayFill = TRUE
  CopyMayFail = TRUE
SPECIFICATION FairSpec
CHECK_DEADLOCK FALSE
INVARIANTS TypeOK NoLostWakeup
PROPERTIES EveryoneServed ImplementsBroadcast
