\* Two pages, a cache with room for one of them.
CONSTANTS
  Keys = {k1, k2}
  Sessions = {s1}
  Workers = {w1}
  Entries = {e1, e2}
  NoEntry = none
  NoSession = nobody
  MaxSize = 1
  MaxChunks = 1
  TaskSlots = 1
  DirtySlots = 2
  StoreOutcomes = {"ok"}
  WaitMayFail = FALSE
SPECIFICATION FairSpec
CHECK_DEADLOCK FALSE
PROPERTY WriterGetsSpace
