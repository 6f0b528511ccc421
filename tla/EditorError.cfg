SPECIFICATION ESpec
CONSTANTS
  flag = flag
  level = level
  other = other
  a = a
  b = b
  Garbled = Garbled
  Gone = Gone
  Editors = {e1}
  Keys = {flag, other}
  Vals = {a, b}
  Offered <- MCOffered
  First <- MCFirst
  MaxStamp = 4
INVARIANT ErrorUnwritten
CHECK_DEADLOCK FALSE
