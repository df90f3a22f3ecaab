CONSTANTS
  Calls = {k1}
  Messages = {m1}
  Subs = {s1}
  Memory = Memory
  HasStream = TRUE
  MaxConns = 1
SPECIFICATION Spec
CHECK_DEADLOCK FALSE
INVARIANT RetainedOrHeard
