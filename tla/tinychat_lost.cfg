\* Two overlapping says of one topic, as stress.rkt issues them; no other request.
SPECIFICATION Spec
CONSTANTS
  Threads = {c1, c2}
  Topics = {k1}
  Ptrs = {p1, p2, p3}
  NULL = NULL
  Garbled = Garbled
  Clients <- StressClients
  Unprintable = {}
INVARIANT NoEntryMissing
CHECK_DEADLOCK FALSE
