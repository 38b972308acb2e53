SPECIFICATION Spec
CONSTANTS
  Clients = {c1, c2}
  Gateways = {g1, g2}
  Uids = {u1}
  MaxUnread = 1
CHECK_DEADLOCK FALSE
INVARIANT ClosedGatewayForgotten
