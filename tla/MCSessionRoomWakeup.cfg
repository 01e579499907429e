CONSTANTS
  NoSession = NoSession
  NoMessage = NoMessage
  Session = {s1}
  Message = {m1}
  MaxQueue = 2
SPECIFICATION Spec
CHECK_DEADLOCK FALSE
INVARIANT NoSleepingBacklog
