\* Scripts of one or three lines, and calls with up to three arguments.
SPECIFICATION Spec
CONSTANTS
  ScriptFiles <- MCScriptFiles
  MAX_LINE_LENGTH = 40
  INT_MAX = 31
  NONE = NONE
  ArgLists <- MCArgLists
  Environment <- MCEnvironment
  StaleBytes <- MCStaleBytes
  SMALL_CHUNK = 24
  LARGE_CHUNK = 8
INVARIANTS PrintsBack NamesStable OutputRight ArgumentsKept
\* both programs end
CHECK_DEADLOCK FALSE
