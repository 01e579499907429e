CONSTANTS
  Message <- EventSeqs
  NoMessage = NoMessage
  RingSize = 2
  MaxEvents = 3
  MaxOpens = 1
  IgnoreSets <- IgnoreArguments
SPECIFICATION PortsSpec
INVARIANT OneMessageEach
CHECK_DEADLOCK FALSE
