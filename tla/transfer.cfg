\* Data one way with room in the buffers: loss, reordering, early timeouts.
SPECIFICATION Spec

CONSTANTS
  Client = Client
  Server = Server
  InitSeqNum <- MCInitSeqNum
  SeqSpace <- MCSeqSpace
  MaxBufferSize = 4
  MaxSegmentSize = 1
  ToWrite <- ClientWrites2
  WriteSize = 1
  Reads <- ServerOnly
  Closing <- Nobody
  AtRest <- Both
  MaxLoss = 1
  MaxSendErr = 0
  MaxPremature = 1
  MaxReorder = 1
  MaxNet = 2
  MaxEarly = 2

INVARIANTS
  TypeOK
  InFlightAccounting
  NothingLost
  RTQueueUnacknowledged
  NoAckOfUnreceived
  StreamIntegrity
  NoLostWakeup

\* A connection on which all has been said comes to rest.
CHECK_DEADLOCK FALSE
