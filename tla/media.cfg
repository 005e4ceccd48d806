SPECIFICATION FairSpec
CONSTANTS
  s1 = s1
  Senders = {s1}
  VIDEOPACKDATALEN = 2
  USHRT = 8
  MaxLength = 9
  Build = {"wraps", "forever"}
INVARIANT TypeOK
INVARIANT FrameWhole
INVARIANT LateAudio
PROPERTY IFrameCompletes
