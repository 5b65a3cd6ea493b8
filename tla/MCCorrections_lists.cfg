\* Images of 2 planes, values of 3 steps, polynomials of degree 1; grids of at
\* most 3 x 3 points and 2 planes, at most 6 gains and 2 maps.
CONSTANTS
  NotFinite = 77
  U32_MAX = 99
  Missing = Missing
  MAP_TABLE = 7
  MAP_POLYNOMIAL = 8
  WARP_RECTILINEAR = 1
  FIX_VIGNETTE_RADIAL = 3
  GAIN_MAP = 9
  DEGREE_MAX = 1
  PLANES_MAX = 2
  TABLE_MAX = 3
  WIDTH = 3
  HEIGHT = 2
  ONE = 2
  POINTS_MAX = 3
  VALUES_MAX = 6
  MAPS_MAX = 2
  MAX_MESSAGE_BYTES = 6
  Polynomials <- MCPolynomials
  Tables <- MCTables
  Planes <- MCPlanes
  Lists <- MCLists
SPECIFICATION CorrectionsSpec
INVARIANTS
  FindsWhatFits
  ComposedInOrder
  TablesEndWithPlanes
  FirstSoundMaps
  LastSoundLens
PROPERTIES
  EachPassConsumes
