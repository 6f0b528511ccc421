SPECIFICATION Spec
CONSTANTS
  kernel = kernel
  network = network
  kfile = kfile
  kkey = kkey
  nfile = nfile
  nkey = nkey
  old = old
  new = new
  Modules = {kernel}
  Files = {kfile}
  Keys = {kkey}
  Values = {old, new}
  Requests = {r1, r2}
  NoBackup = NoBackup
  Damaged = Damaged
  ModuleOf <- MCModuleOf
  Rank <- MCRank
  Desired <- MCDesired
  Selections <- MCSelections
  Faults <- MCClearSync
INVARIANTS
  Settled
CHECK_DEADLOCK FALSE
