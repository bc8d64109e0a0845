\* A line that is not a request, as trouble.rkt sends it.
SPECIFICATION Spec
CONSTANTS
  Requests <- MCGarbage
  MAXLINE = 13
  RIO_BUFSIZE = 5
  NULL = NULL
  INT_MAX = 127
INVARIANT SurvivesClients
CHECK_DEADLOCK FALSE
