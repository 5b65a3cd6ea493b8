\* A helper that dies before it unlinked its object.
CONSTANTS
  Pids = {p1}
  U8 = 2
  U32 = 2
  USIZE = 64
  PAGE = 4
  Lengths = {0, 3, 5}
  Objects = {o1, o2}
  Foreign = FALSE
  MaxLives = 2
  None = None
SPECIFICATION Spec
INVARIANTS
  DisappearsWithLastHandle
