\* A file rawler recognised and cannot decode, nor the system.
CONSTANTS
  Ids = {i1}
  Files = {f1}
  Fds = {1, 2, 3}
  Versions = {4}
  PROTOCOL_VERSION = 4
  Probes = {}
  MAX_OPEN_FILES = 1
  MacOS = TRUE
  Messages <- ProtocolMessages
  MaxRequests = 3
  Window = 2
  None = None
SPECIFICATION Spec
INVARIANTS
  BothReasonsGiven
