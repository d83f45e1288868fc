\* NewGPIOService: the default settings, made permissive.
SPECIFICATION MCAgentSpec
CONSTANTS
  tested = tested
  other = other
  Callers = {tested, other}
  Level = "permissive"
  AllowCriticalPins = FALSE
  AllowedOperations <- DefaultOperations
  MaxConcurrentOps = 2
  Pins = {15, 18}
  FaultyPins = {}
  PWMRequests = {TRUE}
  ConfAllowed <- DefaultAllowed
  ConfRestricted <- DefaultRestricted
  Values <- MCValues
  Frequencies = {0, 1000, 40001}
  TestPin = 18
  Nobody = Nobody
INVARIANTS SlotAccounting ProtectedPinsUntouched InputNotDriven ClosedOutputsLow RecordMatchesDriver ReadsReturnWrites
PROPERTY SlotsComeBack
