\* Both kinds, three threads, two turns of the bounded loop, two calls each.
CONSTANTS
  Threads = {t1, t2, t3}
  NoThread = none
  NumTryLock = 2
  MaxCalls = 2
SPECIFICATION FairSpec
CHECK_DEADLOCK FALSE
INVARIANTS TypeOK MutualExclusion NoLostUpdate NoLostWakeup
PROPERTIES AllReturn ImplementsLock
