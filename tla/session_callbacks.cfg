SPECIFICATION CbFairSpec
CONSTANTS
  a1 = a1
  p1 = p1
  NoPeer = NoPeer
  Apps = {a1}
  Peers = {p1}
  UDPSENDMAX = 2
  TIMERPERSEC = 1
  ONLINEMAX = 0
  CALLTIMEOUT = 0
  TALKTIMEOUT = 0
  MaxCalls = 2
  Ops <- MenuOps
  Kinds <- PoolKinds
  Reactions <- Unlocked
INVARIANT CbTypeOK
INVARIANT CallAccounting
PROPERTY PoolIsBook
INVARIANT NoSelfDeadlock
PROPERTY CallbacksReturn
PROPERTY CallbacksAreThreads
