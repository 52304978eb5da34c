CONSTANTS
  IntBits = 8
  MaxSafeDigits = 2
  Frames <- SentFrames
  MaxFrames = 2
SPECIFICATION Spec
CHECK_DEADLOCK FALSE
PROPERTIES
  RefinesFrameChannel FramesArrive
