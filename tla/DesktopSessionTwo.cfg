SPECIFICATION DSpec
CONSTANTS
  c1 = c1
  c2 = c2
  idA = idA
  idB = idB
  o1 = o1
  o2 = o2
  NoId = NoId
  NoCall = NoCall
  Ids = {idA, idB}
  Owners = {o1, o2}
  Calls = {c1, c2}
  IdOf <- MCIdOf
  OwnerOf <- MCOwnerOf
  MaxLive = 2
  MaxRecent = 2
  MaxOutput = 1
  MaxWritten = 0
  Verbose = {c1, c2}
  Troubles = {"leave"}
INVARIANTS
  DTypeOK
  OutputWhole
  HandleMatches
  CancelReaches
  ShownTrue
CHECK_DEADLOCK FALSE
