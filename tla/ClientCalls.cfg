\* Main, heartbeat and one more caller; the controller comes and goes.
SPECIFICATION FairSpec
CONSTANTS
  main = main
  beat = beat
  caller = caller
  Owner = main
  Beat = beat
  Others = {caller}
  Impatient = {beat}
  MaxRetries = 2
  OwnerCancels = TRUE
INVARIANTS
  ConnectionAccounting
  OneReconnector
PROPERTIES
  CallsReturn
  BeatEndsAfterStop
\* A stopped agent is at rest, and a call on the nil stub ends the program.
CHECK_DEADLOCK FALSE
