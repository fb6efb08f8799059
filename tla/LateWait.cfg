\* One downloader thread, one task.
CONSTANTS
  Workers = {w1}
  Nobody = nobody
  TaskSlots = 1
  MaxSize = 1
  MaxTasks = 1
  MaxAddresses = 2
SPECIFICATION FairSpec
CHECK_DEADLOCK FALSE
PROPERTY StopsAfterSignal
