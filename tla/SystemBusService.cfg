SPECIFICATION Spec
CONSTANTS
  c1 = c1
  c2 = c2
  c3 = c3
  idA = idA
  idB = idB
  o1 = o1
  o2 = o2
  NoId = NoId
  Ids = {idA, idB}
  Owners = {o1, o2}
  Calls = {c1, c2, c3}
  IdOf <- MCIdOf
  OwnerOf <- MCOwnerOf
  MaxLive = 2
  MaxRecent = 2
  Verbose = {c1}
  Troubles = {"leave", "deactivate"}
INVARIANTS
  OneExecutor
  Stoppable
PROPERTIES
  StartsLive
  ImplementsSerial
CHECK_DEADLOCK FALSE
