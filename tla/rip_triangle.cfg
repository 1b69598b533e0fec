\* Routers linked in a triangle; a link goes down and up, or a packet is lost
\* or late.
SPECIFICATION FairSpec

CONSTANTS
  A = A
  B = B
  C = C
  Routers <- MCRouters
  Prefixes <- MCPrefixes
  Attached <- Triangle
  Destinations <- NetworkOfA
  RIPNeighbors <- TriangleNeighbors
  INFINITY = 16
  UpdateInterval = 2
  EntryExpiredTime = 4
  Downable <- LinksOfB
  MaxFaults = 1
  MaxUp = 1

INVARIANTS
  TypeOK

PROPERTIES
  Converges
