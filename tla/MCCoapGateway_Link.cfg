SPECIFICATION FairSpec
CONSTANTS
  u1 = u1
  u2 = u2
  a1 = a1
  a2 = a2
  Uids = {u1}
  Addrs = {a1}
  Sources <- OneDevice
  Values = {v1, v2}
  NonAscii = {v2}
  Pages = {p1}
  MaxInbox = 2
  MaxTime = 1
INVARIANT
  CacheIsTold
PROPERTIES
  LinkRestored
  PageAnswered
