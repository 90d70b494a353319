\* Two slots, four packets of both kinds together: enough for requests of two
\* clients to interleave with a connect and a disconnect of one of them.
\* The server stops after End, so a state without successor is no error.
SPECIFICATION Spec
CONSTANTS
  Users = {u0, u1}
  MaxPackets = 4
  RequestTypes = {"reqShopBuy", "SystemEnd", "SYSTEM_USER_CONNECT", "SYSTEM_USER_DISCONNECT"}
  NoPacket = NoPacket
INVARIANTS
  TypeOK
  QueuesAgree
  RegistryFollowsEvents
  JoinSeesItsUser
PROPERTIES
  ServesInOrder
  EndReturns
CHECK_DEADLOCK FALSE
