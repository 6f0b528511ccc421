SPECIFICATION PFairSpec
CONSTANTS
  kernel = kernel
  kfile = kfile
  kkey = kkey
  old = old
  new = new
  Modules = {kernel}
  Files = {kfile}
  Keys = {kkey}
  Values = {old, new}
  Requests = {r1, r2}
  NoBackup = NoBackup
  Damaged = Damaged
  ModuleOf <- MCModuleOf
  Rank <- MCRank
  Desired <- MCDesired
  Selections <- MCSelections
  Faults <- MCFaults
  Hazards = {"spawn", "transfer", "output", "stop"}
INVARIANTS
  PTypeOK
  FailClosed
  ReplyTruthful
PROPERTIES
  CancelEnds
CHECK_DEADLOCK FALSE
