------------------------------ MODULE IpForward -------------------------------
(***************************************************************************)
(* A data packet on its way through routers whose tables RIP is changing:  *)
(* SendPacketToDestIP and HandlePacket (network.go) over module Rip.  The  *)
(* packet may be on its way for any time, so that the tables change under  *)
(* it.                                                                     *)
(***************************************************************************)
EXTENDS Rip

CONSTANTS
    MaxHops,
    Senders  \* bound: the routers whose packets are followed

ASSUME ForwardAssumption ==
    /\ MaxHops \in Nat \ {0}
    /\ Senders \subseteq Routers

VARIABLE packet  \* the data packet, one at a time

forwardVars == <<vars, packet>>

NoPacket == [stage |-> "none"]
NoAddress == <<>>

\* FwdTable of router r as network.go has it, interfaces and all.
Interface(r, q) ==
    [AssignedIP |-> <<r, q>>, InterfaceName |-> q,
     Neighbors |-> {a \in Addresses : Prefix(a) = q /\ Router(a) # r},
     State |-> IF q \in up[r] THEN "up" ELSE "down"]
Table(r) ==
    {[AssignedIP |-> <<r, q>>, AssignedPrefix |-> q, RouteType |-> "local",
      Interface |-> Interface(r, q), NextHop |-> NoAddress] : q \in Attached[r]}
    \union
    {[AssignedIP |-> NoAddress, AssignedPrefix |-> d, RouteType |-> "rip",
      NextHop |-> FwdTable[r][d].NextHop] :
        d \in {q \in Destinations : FwdTable[r][q].RouteType = "rip"}}

PrefixContains(prefix, address) == address # NoAddress /\ Prefix(address) = prefix

F == INSTANCE Forwarding WITH Contains <- PrefixContains

ForwardInit == Init /\ packet = NoPacket

------------------------------------------------------------------------------
\* Mutant: the last hop is not used.
ExpiredEarly(p) == p.TTL <= 1

HopsSpent(p) == p.TTL <= 0

\* What becomes of packet p by the result of a lookup.
After(result, p) ==
    IF result = F!Drop \/ HopsSpent(p) \/ Router(result.to) \notin started
    THEN NoPacket
    ELSE [p EXCEPT !.stage = "sent", !.at = Router(result.to)]

\* An interface on the prefix of the destination is used at once.  The lock is
\* given back after the next hop has been found, and the interface for it is
\* another lookup.
LookUp(r, p) ==
    IF F!getInterfaceByPrefix(Table(r), p.Dst) # {}
    THEN \E result \in F!SendTo(Table(r), p.Dst) : packet' = After(result, p)
    ELSE \E nextIP \in F!getNextHopbyDestIP(Table(r), p.Dst) :
           packet' = IF nextIP = NoAddress THEN NoPacket
                     ELSE [p EXCEPT !.stage = "found", !.nextIP = nextIP]

\* SendPacketToDestIP, for the send command and any other caller of SendIP.
SendPacket(r, destIP) ==
    /\ packet = NoPacket
    /\ r \in started \intersect Senders
    /\ Router(destIP) # r
    /\ LookUp(r, [stage |-> "new", at |-> r, Dst |-> destIP, TTL |-> MaxHops,
                  nextIP |-> NoAddress, visited |-> {r}])
    /\ UNCHANGED vars

\* HandlePacket at the router the packet has come to, on an interface that may
\* be down: only that of the destination is looked at.
Arrive(r) ==
    /\ packet.stage = "sent"
    /\ packet.at = r
    /\ r \in started
    /\ IF F!checkIfLocalIP(Table(r), packet.Dst) # {}
       THEN packet' = NoPacket
       ELSE LookUp(r, [packet EXCEPT !.TTL = @ - 1, !.visited = @ \union {r}])
    /\ UNCHANGED vars

\* The interface of the next hop, which may have gone down since.
PassOn(r) ==
    /\ packet.stage = "found"
    /\ packet.at = r
    /\ \E result \in F!SendTo(Table(r), packet.nextIP) : packet' = After(result, packet)
    /\ UNCHANGED vars

ForwardNext ==
    \/ Next /\ UNCHANGED packet
    \/ \E r \in Routers :
         \/ Arrive(r) \/ PassOn(r)
         \/ \E a \in Addresses : Prefix(a) \in Destinations /\ SendPacket(r, a)

ForwardSpec == ForwardInit /\ [][ForwardNext]_forwardVars

------------------------------------------------------------------------------
(* What must hold *)

\* Whatever RIP is doing to the tables, a packet does not come back to a router
\* it has left (network.go:262 would end the loop only after MaxHops): split
\* horizon (rip.go:133), over time and not just in one state.
NeverComesBack ==
    packet.stage = "sent" => packet.at \notin packet.visited

\* Tables that have settled are good for forwarding: where the destination can
\* be reached and all routes to it are there, a packet is not dropped, neither
\* by a lookup that began before that (network.go:229-246) nor by its TTL
\* (network.go:262); unless the router it is for does not run yet, or the router
\* it has come to has its own interface on that prefix down (network.go:127).
Dropped(r) ==
    /\ packet.stage \in {"sent", "found"}
    /\ packet.at = r
    /\ Router(packet.Dst) # r
    /\ packet' = NoPacket
PassedOnWhenSettled ==
    [][\A r \in Routers :
         Dropped(r) =>
            LET d == Prefix(packet.Dst) IN
            \/ ~ShortestRoutes(d) \/ r \notin Within(d)[Cardinality(Routers)]
            \/ Router(packet.Dst) \notin started
            \/ d \in Attached[r] \ up[r]]_forwardVars

\* The TTL is enough from every sender if it is the sender's depth, and a router
\* on the prefix that may have to pass the packet on is not at depth 0.
HopsSuffice(Depth) ==
    \A d \in Destinations :
        /\ \A r \in Senders : Depth[d][r] <= MaxHops
        /\ \A r \in Routers :
             (\E n \in NextHops(r) : Prefix(n) = d) => Depth[d][r] >= 1
==============================================================================
