\* Requests of every kind, cut at every byte, over a buffer of five bytes.
SPECIFICATION FairSpec
CONSTANTS
  Requests <- MCRequests
  MAXLINE = 13
  RIO_BUFSIZE = 5
  NULL = NULL
  INT_MAX = 127
INVARIANTS FormReceived DiesOnlyMalformed
PROPERTY RequestEnds
\* the thread may wait for a client that stays silent
CHECK_DEADLOCK FALSE
