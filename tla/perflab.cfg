\* Blocks of 4 x 4 pixels for the kernels' 8 x 8, images of 8 and 16
\* pixels a side for 32 to 1024 and 96: as there, the last block of case 1
\* of motion covers the last two rows and columns.
SPECIFICATION FairSpec
CONSTANTS
  TILE = 4
  kbest = 2
  maxsamples = 3
  epsilon = 1
  SampleValues = {0, 1, 2}
  ODD_DIM = 8
  test_dim <- MCTestDim
  SQUARE = 1
  Setups <- MCSetups
  Stale = {0, 65535}
  Bright <- MCBright
  NULL = NULL
INVARIANTS KeepsSmallest BestIsFastest
PROPERTIES NeverRefused DriverEnds
\* the driver ends
CHECK_DEADLOCK FALSE
