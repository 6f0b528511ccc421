SPECIFICATION DSpec
CONSTANTS
  c1 = c1
  c2 = c2
  idA = idA
  idB = idB
  o1 = o1
  o2 = o2
  NoId = NoId
  NoCall = NoCall
  Ids = {idA, idB}
  Owners = {o1, o2}
  Calls = {c1}
  IdOf <- MCOneIdOf
  OwnerOf <- MCOneOwnerOf
  MaxLive = 2
  MaxRecent = 2
  MaxOutput = 1
  MaxWritten = 1
  Verbose = {c1}
  Troubles = {"leave"}
INVARIANTS
  AnswerShown
CHECK_DEADLOCK FALSE
