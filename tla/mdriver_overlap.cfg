\* One trace: what the comments of add_range say of every accepted payload.
SPECIFICATION MCSpec
CONSTANTS
  Files <- MCFiles
  num_tracefiles = 1
  PageSize = 32
  Addrs = {0, 8, 16, 32, 48}
  Repeats = 2
  NULL = NULL
  MaxPage = 1
INVARIANT PayloadsDisjoint
\* the driver ends
CHECK_DEADLOCK FALSE
