CONSTANTS
  Message <- EventSeqs
  NoMessage = NoMessage
  RingSize = 3
  MaxEvents = 3
  MaxOpens = 2
  IgnoreSets <- IgnoreArguments
SPECIFICATION PortsSpec
INVARIANTS
  PortsTypeOK
  DeliversInOrder
  NeverCallsNull
  QuietWhenClosed
  SendsItsOwnOrMet
PROPERTIES
  ImplementsFifo
  CloseReturns
CHECK_DEADLOCK FALSE
