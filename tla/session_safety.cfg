SPECIFICATION Spec
CONSTANTS
  a1 = a1
  p1 = p1
  NoPeer = NoPeer
  Apps = {a1}
  Peers = {p1}
  UDPSENDMAX = 3
  TIMERPERSEC = 1
  ONLINEMAX = 1
  CALLTIMEOUT = 0
  TALKTIMEOUT = 1
  MaxCalls = 2
  Ops <- AllOps
  Kinds <- AllKinds
INVARIANT TypeOK
INVARIANT SupervisedSilence
PROPERTY NoClobber
