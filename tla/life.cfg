SPECIFICATION FairSpec
CONSTANTS
  MaxInits = 2
  UDPSENDMAX = 1
  Failures = {"socket", "setsockopt"}
INVARIANT TypeOK
INVARIANT LateDatagram
INVARIANT SocketsClosed
PROPERTY TimersEnd
PROPERTY ReceiversEnd
CHECK_DEADLOCK FALSE
