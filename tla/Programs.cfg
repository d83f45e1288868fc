SPECIFICATION MCSpec
CONSTANTS
  a1 = a1
  a2 = a2
  pi = pi
  Agents = {a1, a2}
  Names = {pi}
  NameOf <- MCNameOf
  GPIOEnabled = {a1}
  Requests <- MCRequests
  MaxStarts = 2
  MaxBoots = 2
INVARIANTS RunningIsRegistered NoCallOnClosedGPIO
PROPERTIES CallsAreFinished ShutdownEnds SignalEndsAgent
CHECK_DEADLOCK FALSE
