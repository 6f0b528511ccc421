SPECIFICATION ESpec
CONSTANTS
  flag = flag
  level = level
  other = other
  a = a
  b = b
  Garbled = Garbled
  Gone = Gone
  Editors = {e1}
  Keys = {level, flag}
  Vals = {a, b}
  Offered <- MCNarrow
  First <- MCNarrowFirst
  MaxStamp = 4
PROPERTY OnlyTouched
CHECK_DEADLOCK FALSE
