\* Three ids for two places, two files, requests pipelined two deep.
CONSTANTS
  Ids = {i1, i2, i3}
  Files = {f1, f2}
  Fds = {1, 2, 3, 4, 5}
  Versions = {4}
  PROTOCOL_VERSION = 4
  Probes = {}
  MAX_OPEN_FILES = 2
  MacOS = FALSE
  Messages <- TableMessages
  MaxRequests = 4
  Window = 2
  None = None
SPECIFICATION Spec
SYMMETRY Symmetry
INVARIANTS
  TypeOK
  DescriptorsOwnedOnce
  DescriptorsBounded
  AnswersInOrder
  PixelsOfBoundFile
  RefusedOnlyWhenFull
PROPERTIES
  ImplementsService
