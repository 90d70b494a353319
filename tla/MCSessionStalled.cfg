\* One message sent to the slot between two sessions is enough.
SPECIFICATION HealthySpec
CONSTANTS
  Workers = {w1, w2}
  Sockets = {s1, s2}
  NoSocket = NoSocket
  MaxMessages = 2
INVARIANTS
  QueueMoves
CHECK_DEADLOCK FALSE
