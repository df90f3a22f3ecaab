CONSTANTS
  Calls = {k1, k2}
  Messages = {m1}
  Subs = {s1, s2}
  Memory = Memory
  HasStream = TRUE
  MaxConns = 2
SPECIFICATION Spec
CHECK_DEADLOCK FALSE
INVARIANTS TypeOK AtMostOnce LiveHasClient
PROPERTY ReplacedOrClosed
