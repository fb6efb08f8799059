\* One page whose answer may have another status than 200.
CONSTANTS
  Keys = {k1}
  Sessions = {s1}
  Workers = {w1}
  Entries = {e1, e2}
  NoEntry = none
  NoSession = nobody
  MaxSize = 1
  MaxChunks = 1
  TaskSlots = 1
  DirtySlots = 2
  StoreOutcomes = {"ok"}
  WaitMayFail = FALSE
SPECIFICATION Spec
CHECK_DEADLOCK FALSE
INVARIANT OnlyOkCached
