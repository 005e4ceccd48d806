SPECIFICATION FairSpec
CONSTANTS
  a1 = a1
  p1 = p1
  p2 = p2
  NoPeer = NoPeer
  Apps = {a1}
  Peers = {p1, p2}
  UDPSENDMAX = 2
  TIMERPERSEC = 2
  ONLINEMAX = 1
  CALLTIMEOUT = 1
  TALKTIMEOUT = 2
  MaxCalls = 1
  Ops <- Talking
  Kinds <- AllKinds
INVARIANT TimeBounded
PROPERTY LockReleased
PROPERTY SupervisedEnds
PROPERTY HangUpReachesParty
PROPERTY EndsWithSupervision
INVARIANT CallAccounting
