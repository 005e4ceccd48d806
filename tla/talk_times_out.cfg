SPECIFICATION FairSpec
CONSTANTS
  a1 = a1
  p1 = p1
  NoPeer = NoPeer
  Apps = {a1}
  Peers = {p1}
  UDPSENDMAX = 3
  TIMERPERSEC = 1
  ONLINEMAX = 1
  CALLTIMEOUT = 1
  TALKTIMEOUT = 2
  MaxCalls = 1
  Ops <- Calling
  Kinds <- GoodPeer
PROPERTY TalkTimesOut
CHECK_DEADLOCK FALSE
