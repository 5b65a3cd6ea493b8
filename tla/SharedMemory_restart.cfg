\* Helpers that crash and come back with the same process number, and peers
\* that size and announce their objects as they like.
CONSTANTS
  Pids = {p1, p2}
  U8 = 2
  U32 = 2
  USIZE = 64
  PAGE = 4
  Lengths = {0, 3, 5}
  Objects = {o1, o2}
  Foreign = TRUE
  MaxLives = 3
  None = None
SPECIFICATION Spec
INVARIANTS
  TypeOK
  NamedObjectsAreEmpty
  CompleteWhenSent
  NothingHeldBetweenBuffers
  MappedWithinObject
