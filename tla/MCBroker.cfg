SPECIFICATION Spec
CONSTANTS
  Clients = {c1, c2}
  Gateways = {g1, g2}
  Uids = {u1}
  MaxUnread = 1
SYMMETRY Symmetry
CHECK_DEADLOCK FALSE
INVARIANTS
  TypeOK
  ClosedClientForgotten
  ReadingGatewayKnown
  NoGhostNode
PROPERTIES
  ForwardedToAllOrDropped
  OutReachesAllOrDropped
