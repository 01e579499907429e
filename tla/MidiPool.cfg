CONSTANTS
  Client = {c1, c2}
  loop_length = 2
  MidiBuffer = 2
  TicksPerBar = 5
  TicksPerSecond = 2
  Oversleep = 1
  MaxLink = 3
SPECIFICATION FairSpec
INVARIANTS
  TypeOK
  JumpsOnTheOne
PROPERTY JoinersPlay
