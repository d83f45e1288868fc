\* One pin in range and one out of it, two readers, two loops one after the
\* other.
SPECIFICATION FairSpec
CONSTANTS
  Numbers = {4, 41}
  Handlers = {h1}
  Readers = {r1, r2}
  MaxLoops = 2
  MaxEvents = 1
INVARIANT FlagIsTheLoop
PROPERTY EndedLoopRests
CHECK_DEADLOCK FALSE
