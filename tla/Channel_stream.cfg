\* Frames of 3 and 4 bytes, and one over the limit, through a socket of 3.
CONSTANTS
  HEADER = 2
  MAX_MESSAGE_BYTES = 2
  Capacity = 3
  Lengths = {0, 1, 2, 3}
  Descriptors = {d1, d2}
  Foreign = TRUE
  MaxFrames = 3
  None = None
SPECIFICATION FairSpec
INVARIANTS
  TypeOK
  DescriptorsMetByRecvmsg
PROPERTIES
  ImplementsStream
  FramesArrive
