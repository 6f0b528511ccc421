SPECIFICATION PSpec
CONSTANTS
  kernel = kernel
  kfile = kfile
  kkey = kkey
  old = old
  new = new
  Modules = {kernel}
  Files = {kfile}
  Keys = {kkey}
  Values = {old, new}
  Requests = {r1}
  NoBackup = NoBackup
  Damaged = Damaged
  ModuleOf <- MCModuleOf
  Rank <- MCRank
  Desired <- MCDesired
  Selections <- MCSelections
  Faults <- FaultKinds
  Hazards = {"spawn", "transfer", "output", "stop", "crash", "replay"}
PROPERTIES
  MarkerClearedExactly
  LockoutEnforced
CHECK_DEADLOCK FALSE
