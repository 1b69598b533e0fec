\* Client and Server listen and connect to each other; nothing is lost.
SPECIFICATION FairSpec

CONSTANTS
  Client = Client
  Server = Server
  Http = Http
  Ssh = Ssh
  Eph1 = Eph1
  Eph2 = Eph2
  Hosts <- MCHosts
  Ports <- MCPorts
  SeqNums <- MCSeqNums
  SeqSpace <- MCSeqSpace
  EphemeralPorts <- EphemeralPort
  Listening <- BothListen
  Dialled <- MCDialled
  MaxListens <- OneListen
  MaxConnects <- OneConnect
  MaxStops = 0
  MaxLoss = 0
  MaxSendErr = 0

PROPERTIES
  HandshakeCompletes
  PacketLoopGetsOn

\* Hosts on which nothing is left to do come to rest.
CHECK_DEADLOCK FALSE
