SPECIFICATION PSpec
CONSTANTS
  kernel = kernel
  kfile = kfile
  kkey = kkey
  old = old
  new = new
  Modules = {kernel}
  Files = {kfile}
  Keys = {kkey}
  Values = {old, new}
  Requests = {r1, r2}
  NoBackup = NoBackup
  Damaged = Damaged
  ModuleOf <- MCModuleOf
  Rank <- MCRank
  Desired <- MCDesired
  Selections <- MCSelections
  Faults <- MCUncertain
  Hazards = {"crash"}
INVARIANTS
  FailClosed
CHECK_DEADLOCK FALSE
