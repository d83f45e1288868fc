\* Up, Down, Status and Reset interrupted anywhere, and the encrypted file.
SPECIFICATION MCSpec
CONSTANTS
  server = server
  operator = operator
  Procs = {server, operator}
  N = 2
  MaxClock = 6
  Plans <- SmallPlans
  Processes = {server, operator}
  Entries = {token, secret}
  EnvKeys <- MCEnvKeys
  MaxDrawn = 2
  Absent = Absent
  Missing = Missing
  Short = Short
INVARIANTS TableIffRecorded AppliedIsPrefix IndexedWhileRecorded UpRecordsAll ResetRebuilds StoredIsReadable
