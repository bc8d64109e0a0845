\* Two connections, every kind of request on two topics, complete or not, and
\* imports from every kind of host.
SPECIFICATION FairSpec
CONSTANTS
  Threads = {c1, c2}
  Topics = {k1, k2}
  Ptrs = {p1, p2, p3}
  NULL = NULL
  Garbled = Garbled
  Clients <- AllClients
  Unprintable = {k2}
INVARIANTS TypeOK LockInv Ownership ExactWithoutOverlap CompleteDiesOnlyRacing
PROPERTIES TopicsStay RequestsEnd
\* the workload is finite
CHECK_DEADLOCK FALSE
