\* Both applications call VClose at any moment, one after a VWrite.
SPECIFICATION Spec

CONSTANTS
  Client = Client
  Server = Server
  InitSeqNum <- MCInitSeqNum
  SeqSpace <- MCSeqSpace
  MaxBufferSize = 2
  MaxSegmentSize = 1
  ToWrite <- ClientWrites1
  WriteSize = 1
  Reads <- Nobody
  Closing <- Both
  AtRest <- ServerOnly
  MaxLoss = 1
  MaxSendErr = 1
  MaxPremature = 0
  MaxReorder = 0
  MaxNet = 2
  MaxEarly = 2

INVARIANTS
  FinAfterData
  DeletedAfterBothClosed
  InFlightAccounting

\* A connection on which all has been said comes to rest.
CHECK_DEADLOCK FALSE
