CONSTANTS
  CaptureSlots = 1
  MaxFrames = 2
  DeviceFrame = 8
  SenderFrame = 8
  Client = {c1, c2}
  Listener = c2
  MaxJoins = 2
  BufferFrames = 1
  Channels = 2
  PlaybackSlots = 4
  Minima = {0, 1}
SPECIFICATION Spec
PROPERTY ReturnedToAll
CHECK_DEADLOCK FALSE
