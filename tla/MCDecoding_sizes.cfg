\* Allocations of 48 bytes, developed images of 4 pixels, in parts of a third.
CONSTANTS
  U8 = 4
  U32 = 64
  USIZE = 4096
  PAGE = 16
  MAX_ALLOCATION = 48
  MAX_DEVELOPED_PIXELS = 4
  THUMBNAIL_MAX_SIDE = 3
  UNIT = 3
  NotFinite = 9999
  Pictures <- MCPictures
  RawImages <- MCRawImages
  Extents <- MCExtents
  Rows <- MCRows
  Gains <- MCGains
  None = None
SPECIFICATION Spec
INVARIANTS
  AnnouncedIsDecoded
  BuffersWithinCap
