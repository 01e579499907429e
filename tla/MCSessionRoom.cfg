CONSTANTS
  NoSession = NoSession
  NoMessage = NoMessage
  Session = {s1, s2}
  Message = {m1, m2}
  MaxQueue = 2
SPECIFICATION Spec
SYMMETRY Symmetry
CHECK_DEADLOCK FALSE
INVARIANTS
  TypeOK
  RoomIsOpenSockets
  WriterHoldsFront
  NoSleepAfterClose
  LateByOneBar
