CONSTANTS
  TickInterval = 25
  MidiBuffer = 1
  MaxDelay = 2
  MaxTime = 3
  MaxCued = 3
  KeepsUp = TRUE
CHECK_DEADLOCK FALSE
SPECIFICATION Spec
INVARIANTS
  TypeOK
  PlaysWhatWasCued
PROPERTIES
  ErasesWhatItSent
  ImplementsTransport
