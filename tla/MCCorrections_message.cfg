\* VALUES_MAX and MAX_MESSAGE_BYTES are equal, as in the code (2^20).
CONSTANTS
  NotFinite = 77
  U32_MAX = 99
  Missing = Missing
  MAP_TABLE = 7
  MAP_POLYNOMIAL = 8
  WARP_RECTILINEAR = 1
  FIX_VIGNETTE_RADIAL = 3
  GAIN_MAP = 9
  DEGREE_MAX = 1
  PLANES_MAX = 2
  TABLE_MAX = 3
  WIDTH = 3
  HEIGHT = 2
  ONE = 2
  POINTS_MAX = 3
  VALUES_MAX = 6
  MAPS_MAX = 2
  MAX_MESSAGE_BYTES = 6
  Polynomials <- MCPolynomials
  Tables <- MCTables
  Planes <- MCPlanes
  Lists <- MCBadLists
SPECIFICATION CorrectionsSpec
INVARIANTS
  GainsFitMessage
