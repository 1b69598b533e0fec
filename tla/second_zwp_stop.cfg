\* Two acknowledgements in a row both send on ZWPStop; the second waits for
\* ever and with it the socket.
SPECIFICATION FairSpec

CONSTANTS
  Client = Client
  Server = Server
  InitSeqNum <- MCInitSeqNum
  SeqSpace <- MCSeqSpace
  MaxBufferSize = 1
  MaxSegmentSize = 1
  ToWrite <- ClientWrites2
  WriteSize = 1
  Reads <- ServerOnly
  Closing <- Nobody
  AtRest <- Both
  MaxLoss = 0
  MaxSendErr = 0
  MaxPremature = 0
  MaxReorder = 0
  MaxNet = 2
  MaxEarly = 2

PROPERTIES
  HandlerGetsOn

\* A connection on which all has been said comes to rest.
CHECK_DEADLOCK FALSE
