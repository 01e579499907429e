CONSTANTS
  TickInterval = 25
  MidiBuffer = 1
  MaxDelay = 1
  MaxTime = 1
  MaxCued = 2
  KeepsUp = FALSE
CHECK_DEADLOCK FALSE
SPECIFICATION FairSpec
INVARIANT OneLateTick
PROPERTIES
  HaltIsBrief
  FirstEraseIsRight
