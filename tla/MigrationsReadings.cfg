\* Readings in a migrated file.
SPECIFICATION Spec
CONSTANTS
  server = server
  operator = operator
  Procs = {server, operator}
  N = 2
  MaxClock = 6
  Plans <- SmallPlans
INVARIANT ReadingsCanBeStored
