\* Every request of the protocol, for one file.
CONSTANTS
  Ids = {i1}
  Files = {f1}
  Fds = {1, 2, 3, 4}
  Versions = {3, 4}
  PROTOCOL_VERSION = 4
  Probes = {p1}
  MAX_OPEN_FILES = 1
  MacOS = TRUE
  Messages <- ProtocolMessages
  MaxRequests = 3
  Window = 2
  None = None
SPECIFICATION FairSpec
INVARIANTS
  DescriptorsOwnedOnce
  NoUnconfinedRequest
PROPERTIES
  ImplementsService
  SystemDecoderKept
  EveryRequestAnswered
  EndsWithApplication
