SPECIFICATION FairSpec
CONSTANTS
  u1 = u1
  u2 = u2
  a1 = a1
  a2 = a2
  Uids = {u1, u2}
  Addrs = {a1, a2}
  Sources <- OwnAddresses
  Values = {v1}
  NonAscii = {}
  Pages = {p1}
  MaxInbox = 1
  MaxTime = 0
PROPERTY LostLinkRestored
