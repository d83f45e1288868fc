\* Two starts, two nodes that are found and a static one.
SPECIFICATION FairSpec
CONSTANTS
  Found = {pi1, pi2}
  Statics = {static0}
  Method = "mdns"
  Timely = TRUE
  MaxStarts = 2
  MaxFlying = 1
INVARIANT EventsAccount
PROPERTIES AnsweringStaysKnown StopEndsLoops
\* The program may have ended, or have been stopped for good.
CHECK_DEADLOCK FALSE
