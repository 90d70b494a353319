\* Three slots, as in main.cpp; two events may overtake each other.
\* All clients may have come and gone, or the server may have died.
SPECIFICATION Spec
CONSTANTS
  Users = {0, 1, 2}
  MaxSessions <- MCMaxSessions
  MaxEvents = 2
  MaxMoves <- MCMaxMoves
INVARIANTS
  TypeOK
  PlayersMeet
  RegistryFollows
  ToldOnce
  JoinFirst
PROPERTIES
  PositionsFollow
CHECK_DEADLOCK FALSE
