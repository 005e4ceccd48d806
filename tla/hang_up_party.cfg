SPECIFICATION Spec
CONSTANTS
  a1 = a1
  p1 = p1
  p2 = p2
  NoPeer = NoPeer
  Apps = {a1}
  Peers = {p1, p2}
  UDPSENDMAX = 3
  TIMERPERSEC = 1
  ONLINEMAX = 1
  CALLTIMEOUT = 1
  TALKTIMEOUT = 2
  MaxCalls = 2
  Ops <- Locked
  Kinds <- AllKinds
PROPERTY HangUpReachesParty
