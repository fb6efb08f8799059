\* Two clients, two pages, two workers; entries and connections are reused.
CONSTANTS
  Keys = {k1, k2}
  Sessions = {s1, s2}
  Workers = {w1, w2}
  Entries = {e1, e2}
  NoEntry = none
  NoSession = nobody
  MaxSize = 1
  MaxChunks = 1
  TaskSlots = 1
  DirtySlots = 1
  StoreOutcomes = {"ok", "malloc"}
  WaitMayFail = FALSE
SPECIFICATION Spec
SYMMETRY Symmetry
CHECK_DEADLOCK FALSE
INVARIANTS TypeOK RefsCover SingleDownload Shared SizeCovers
