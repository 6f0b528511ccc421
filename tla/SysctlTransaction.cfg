SPECIFICATION FairSpec
CONSTANTS
  kernel = kernel
  network = network
  kfile = kfile
  kkey = kkey
  nfile = nfile
  nkey = nkey
  old = old
  new = new
  Modules = {kernel, network}
  Files = {kfile, nfile}
  Keys = {kkey, nkey}
  Values = {old, new}
  Requests = {r1, r2}
  NoBackup = NoBackup
  Damaged = Damaged
  ModuleOf <- MCModuleOf
  Rank <- MCRank
  Desired <- MCDesired
  Selections <- MCSelections
  Faults <- MCFaults
INVARIANTS
  TypeOK
  Settled
  RecoveryExact
  BackupFirst
  ResultTruthful
  BackupReported
PROPERTIES
  ImplementsPromise
  Terminates
CHECK_DEADLOCK FALSE
