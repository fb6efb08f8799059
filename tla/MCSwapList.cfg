\* a list of up to four nodes behind the head, two searchers, two swappers
CONSTANTS
  Nil = Nil
  MaxSize = 4
  s1 = s1
  s2 = s2
  w1 = w1
  w2 = w2
  Searchers = {s1, s2}
  Skips <- MCSkips
  Order <- MCOrder

SPECIFICATION FairSpec

INVARIANTS
  TypeOK
  ListIntact
  WindowValid
  UnusedWhenFreed
  NoCircle
PROPERTY MainEnds

\* main returns
CHECK_DEADLOCK FALSE
