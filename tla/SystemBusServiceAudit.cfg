SPECIFICATION FairSpec
CONSTANTS
  c1 = c1
  c2 = c2
  c3 = c3
  idA = idA
  idB = idB
  o1 = o1
  o2 = o2
  NoId = NoId
  Ids = {idA, idB}
  Owners = {o1, o2}
  Calls = {c1, c2}
  IdOf <- MCPairIdOf
  OwnerOf <- MCPairOwnerOf
  MaxLive = 2
  MaxRecent = 1
  Verbose = {c1}
  Troubles = {"audit", "leave"}
INVARIANTS
  Accounted
PROPERTIES
  Answered
CHECK_DEADLOCK FALSE
