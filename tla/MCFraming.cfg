\* Buffers of 12 bytes: a receive may hold two packets and a part of a third.
SPECIFICATION Spec
CONSTANTS
  Streams <- MCStreams
  MAX_SOCK_RECVBUF = 12
INVARIANTS
  TypeOK
  DeliversTheStream
  NothingHeldBack
  ReadsWhatCame
PROPERTIES
  Returns
