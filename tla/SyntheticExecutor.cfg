SPECIFICATION FairSpec
CONSTANTS
  f1 = f1
  f2 = f2
  new = new
  Absent = Absent
  Missing = Missing
  Torn = Torn
  NoId = NoId
  Damaged = Damaged
  Targets = {f1, f2}
  Contents = {new}
  Requests = {r1, r2}
  Desired <- MCDesired
  Faults <- MCFaults
  Signals = {"timed_out"}
  r1 = r1
  r2 = r2
  Submitted <- MCSubmitted
INVARIANTS
  STypeOK
  RecoveryExact
  ResultTruthful
PROPERTIES
  BackupFirst
  LockoutEnforced
  ClearedExactly
  ImplementsHost
  Terminates
CHECK_DEADLOCK FALSE
