CONSTANTS
  Command = {"CONTINUE", "SONG_POS"}
  MaxMessages = 3
  MaxBuffer = 45
SPECIFICATION FairSpec
CHECK_DEADLOCK FALSE
INVARIANT TypeOK
PROPERTIES
  ImplementsLossyLine
  LineAtStartIsUsed
  StopsOnlyOnTornLine
