\* Both ends call VClose and nothing is lost: a wakeup that comes too early,
\* a FIN overwritten or mistaken for acknowledged, or two FINs that cross
\* leave sockets in the table for ever.
SPECIFICATION FairSpec

CONSTANTS
  Client = Client
  Server = Server
  InitSeqNum <- MCInitSeqNum
  SeqSpace <- MCSeqSpace
  MaxBufferSize = 2
  MaxSegmentSize = 1
  ToWrite <- ClientWrites1
  WriteSize = 1
  Reads <- Nobody
  Closing <- Both
  AtRest <- Both
  MaxLoss = 0
  MaxSendErr = 0
  MaxPremature = 0
  MaxReorder = 0
  MaxNet = 2
  MaxEarly = 2

PROPERTIES
  TeardownCompletes

\* A connection on which all has been said comes to rest.
CHECK_DEADLOCK FALSE
