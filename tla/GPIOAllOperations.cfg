SPECIFICATION MCPulsedSpec
CONSTANTS
  Callers = {c1, c2}
  Level = "paranoid"
  AllowCriticalPins = TRUE
  AllowedOperations = {}
  MaxConcurrentOps = 1
  Pins = {18, 20}
  PulsedPin = 18
  FaultyPins = {18}
  PWMRequests = {TRUE}
  ConfAllowed = {}
  ConfRestricted = {0, 1}
SYMMETRY GoroutineSymmetry
INVARIANT UnpulsedPinsSafe
