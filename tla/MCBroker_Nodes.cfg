SPECIFICATION Spec
CONSTANTS
  Clients = {c1, c2}
  Gateways = {g1}
  Uids = {u1, u2}
  MaxUnread = 1
SYMMETRY Symmetry
CHECK_DEADLOCK FALSE
INVARIANTS
  IInv
  NoGhostNode
PROPERTIES
  OutReachesAllOrDropped
