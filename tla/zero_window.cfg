\* Buffers of one byte: every byte closes the window, probing starts.
SPECIFICATION Spec

CONSTANTS
  Client = Client
  Server = Server
  InitSeqNum <- MCInitSeqNum
  SeqSpace <- MCSeqSpace
  MaxBufferSize = 1
  MaxSegmentSize = 1
  ToWrite <- ClientWrites2
  WriteSize = 1
  Reads <- ServerOnly
  Closing <- Nobody
  AtRest <- Both
  MaxLoss = 1
  MaxSendErr = 0
  MaxPremature = 1
  MaxReorder = 0
  MaxNet = 2
  MaxEarly = 2

INVARIANTS
  InFlightAccounting
  NoAckOfUnreceived
  WindowFollows
  NoLostWakeup

PROPERTIES
  ImplementsByteStream

\* A connection on which all has been said comes to rest.
CHECK_DEADLOCK FALSE
