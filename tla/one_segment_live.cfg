\* One segment past the end of the sequence space, two losses, an early timeout.
SPECIFICATION FairSpec

CONSTANTS
  Client = Client
  Server = Server
  InitSeqNum <- LastSeqNums
  SeqSpace <- MCSeqSpace
  MaxBufferSize = 2
  MaxSegmentSize = 1
  ToWrite <- ClientWrites1
  WriteSize = 1
  Reads <- ServerOnly
  Closing <- Nobody
  AtRest <- Both
  MaxLoss = 2
  MaxSendErr = 0
  MaxPremature = 1
  MaxReorder = 0
  MaxNet = 2
  MaxEarly = 2

PROPERTIES
  DeliversByteStream

\* A connection on which all has been said comes to rest.
CHECK_DEADLOCK FALSE
