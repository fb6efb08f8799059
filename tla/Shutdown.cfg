\* Two downloader threads, two tasks, origins with up to two addresses.
CONSTANTS
  Workers = {w1, w2}
  Nobody = nobody
  TaskSlots = 1
  MaxSize = 1
  MaxTasks = 2
  MaxAddresses = 2
SPECIFICATION FairSpec
CHECK_DEADLOCK FALSE
INVARIANTS TypeOK RequestTracked NoSleeperLeft ResourcesOutlive
PROPERTIES ConnectFinished ShutdownEnds
