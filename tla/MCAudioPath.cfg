CONSTANTS
  CaptureSlots = 2
  MaxFrames = 3
  DeviceFrame = 16
  SenderFrame = 8
  Client = {c1, c2}
  Listener = c1
  MaxJoins = 2
  BufferFrames = 2
  Channels = 2
  PlaybackSlots = 4
  Minima = {0, 1}
  MaxPlayed = 2
SPECIFICATION Spec
ACTION_CONSTRAINT Focus
INVARIANTS
  TypeOK
  CaptureNeverTorn
  PlaybackNeverTorn
  ChannelsAligned
PROPERTY ImplementsStream
CHECK_DEADLOCK FALSE
