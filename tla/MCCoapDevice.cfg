SPECIFICATION DeviceSpec
CONSTANTS
  u1 = u1
  a1 = a1
  Uids = {u1}
  Addrs = {a1}
  Sources <- OneDevice
  Values = {off, on, failed}
  NonAscii = {}
  Initial = off
  Failed = failed
  Pages = {}
  MaxInbox = 1
  MaxTime = 0
  MaxPuts = 1
CHECK_DEADLOCK FALSE
INVARIANTS
  ShownWasHeld
  DeviceInv
PROPERTY
  ShownConverges
