\* A sound file, one that may crash the helper, one that may hang it; replies that
\* describe a file take one part, all the socket holds, or more.
CONSTANTS
  Ids = {a, b, c}
  Files = {a, b, c}
  Crashing = {b}
  Slow = {c}
  ToHelper = 1
  ToApp = 2
  Sizes = {1, 2, 3}
  Versions = {4}
  PROTOCOL_VERSION = 4
  Probes = {}
  MAX_OPEN_FILES = 2
  None = None
SPECIFICATION SessionSpec
INVARIANTS
  NoMutualWait
  OnlyCulpritsGivenUp
  NeverRefused
PROPERTIES
  EveryFileSettled
