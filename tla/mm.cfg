\* Regions of three pages, three blocks in each, at every address mmap can
\* choose, up to three blocks of two sizes, and a fourth while one is moved.
SPECIFICATION Spec
CONSTANTS
  APAGE_SIZE = 48
  GROWTH = 3
  MaxPages = 6
  INT_MAX = 1023
  Ids = {i1, i2, i3}
  Tagged = {i1}
  Sizes = {8, 16}
  FillWord <- MCFillWord
SYMMETRY Symmetry
INVARIANTS RegionsTiled FreeListExact PayloadsIntact NothingLeaks NeverCaught RangesAreBlocks
PROPERTY Implements
