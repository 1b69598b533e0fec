\* Two VConnects of the Client, cl on listener and sockets, the port listened on
\* again, a loss, a failing SendIP.
SPECIFICATION Spec

CONSTANTS
  Client = Client
  Server = Server
  Http = Http
  Ssh = Ssh
  Eph1 = Eph1
  Eph2 = Eph2
  Hosts <- MCHosts
  Ports <- MCPorts
  SeqNums <- MCSeqNums
  SeqSpace <- MCSeqSpace
  EphemeralPorts <- TwoPorts
  Listening <- ServerListens
  Dialled <- MCDialled
  MaxListens <- TwoListens
  MaxConnects <- TwoConnects
  MaxStops = 2
  MaxLoss = 1
  MaxSendErr = 1

SYMMETRY EphemeralSymmetry

INVARIANTS
  TypeOK
  EstablishedInPairs
  EstablishedInTable

\* Hosts on which nothing is left to do come to rest.
CHECK_DEADLOCK FALSE
