\* Three workers: one that accepts and two that find the slot closed.  Three
\* messages: one pending, one queued and one for the next session.
\* The slot may be lost, so a state without successor is no error.
SPECIFICATION Spec
CONSTANTS
  Workers = {w1, w2, w3}
  Sockets = {s1, s2}
  NoSocket = NoSocket
  MaxMessages = 3
INVARIANTS
  TypeOK
  OneReader
  SendsInOrder
  FreesWhatWasSent
  EveryEndAnnounced
PROPERTIES
  ImplementsSlotEvents
  WatchedUntilRefused
  OfferedAgain
CHECK_DEADLOCK FALSE
