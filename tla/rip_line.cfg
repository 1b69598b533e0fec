\* Routers in a line, two faults of any kind, and a packet on its way to the
\* far end.
SPECIFICATION ForwardSpec

CONSTANTS
  A = A
  B = B
  C = C
  Routers <- MCRouters
  Prefixes <- MCPrefixes
  Attached <- Line
  Destinations <- NetworkOfA
  RIPNeighbors <- LineNeighbors
  INFINITY = 16
  UpdateInterval = 2
  EntryExpiredTime = 4
  Downable <- LinksOfB
  MaxFaults = 2
  MaxUp = 0
  MaxHops = 2
  Senders <- FarEnd

INVARIANTS
  NoTwoRouterLoop
  NeverComesBack

PROPERTIES
  PassedOnWhenSettled
