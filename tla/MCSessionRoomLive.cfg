CONSTANTS
  NoSession = NoSession
  NoMessage = NoMessage
  Session = {s1, s2}
  Message = {m1}
  MaxQueue = 2
SPECIFICATION FairSpec
CHECK_DEADLOCK FALSE
PROPERTIES
  BacklogDrains
  ClosedSessionEnds
