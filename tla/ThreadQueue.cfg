\* a queue of two; the writer counts modulo 4
CONSTANTS
  MaxCount = 2
  Values = 4

SPECIFICATION FairSpec

INVARIANTS
  TypeOK
  InOrder
  TokensKept
  NoLostWakeup
  UnusedWhenFreed
PROPERTY MainEnds

\* main returns, and it may hang
CHECK_DEADLOCK FALSE
