SPECIFICATION Spec
CONSTANTS
  Threads = {t1, t2}
  Pins = {17, 18}
  MaxEntries = 2
  MaxRoutines = 2
SYMMETRY ThreadSymmetry
INVARIANT ActiveEntryIsDriven
PROPERTY ImplementsPinDriver
\* GetPinState and a waiting writer really deadlock (see ReadersReturn).
CHECK_DEADLOCK FALSE
