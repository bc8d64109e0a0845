\* Two traces, a package that answers with any of five addresses, one of
\* them not aligned; and runs of up to four pages in the page layer.
SPECIFICATION MCSpec
CONSTANTS
  Files <- MCFiles
  num_tracefiles = 2
  PageSize = 32
  Addrs = {0, 8, 16, 32, 48}
  Repeats = 2
  NULL = NULL
  MaxPage = 4
INVARIANTS OverlapOnlyEngulfs UtilExact ErrorsAgree ListExact KernelAgrees NoDoubleMap
PROPERTY CallsEnd
\* the driver ends, and an abort stops it
CHECK_DEADLOCK FALSE
