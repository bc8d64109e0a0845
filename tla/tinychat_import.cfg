\* An import from the server itself, as stress.rkt issues it.
SPECIFICATION FairSpec
CONSTANTS
  Threads = {c1, c2}
  Topics = {k1}
  Ptrs = {p1, p2, p3}
  NULL = NULL
  Garbled = Garbled
  Clients <- ImportClients
  Unprintable = {}
PROPERTY ImportsEnd
CHECK_DEADLOCK FALSE
