CONSTANTS
  TickInterval = 25
  MidiBuffer = 1
  MaxDelay = 1
  MaxTime = 2
  MaxCued = 2
  KeepsUp = TRUE
CHECK_DEADLOCK FALSE
SPECIFICATION Spec
INVARIANT NotBeforeTarget
