SPECIFICATION SystemSpec
CONSTANTS
  p1 = p1
  Clients = {c1, c2}
  Gateways = {g1, g2}
  Uids = {u1}
  Procs = {p1}
  Home <- OneHome
  MaxUnread = 1
  MaxUp = 1
CHECK_DEADLOCK FALSE
INVARIANTS
  SystemTypeOK
  SystemInv
  PagesExact
PROPERTIES
  DirectoriesKept
  NodeShown
