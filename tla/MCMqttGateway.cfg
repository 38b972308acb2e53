SPECIFICATION Spec
CONSTANTS
  Ids = {d1, d2}
  Resources = {led, temperature}
  Uids = {n1, n2}
  MaxInbox = 1
  MaxLists = 2
CHECK_DEADLOCK FALSE
INVARIANT
  UpdateKnown
PROPERTIES
  OneUidPerDevice
  
