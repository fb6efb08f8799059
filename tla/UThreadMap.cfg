\* one client, as in the tests, up to two workers and three tasks, of which the first may
\* create a user thread of its own
CONSTANTS
  MaxThreads = 3
  Nil = Nil
  Clients = {c1}
  MaxWorkers = 2
  MaxInits = 1
  Parents = {0}
  Child = child

SPECIFICATION FairSpec

INVARIANTS
  TypeOK
  ResultsTrue
  IdsHold
  Turns
  Drained
  WorkersOutlived
PROPERTY CallsReturn

\* the clients may stop creating tasks, and main need not call init again
CHECK_DEADLOCK FALSE
