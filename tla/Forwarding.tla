------------------------------ MODULE Forwarding ------------------------------
(***************************************************************************)
(* Where a node sends an IP packet (network.go): the lookups in FwdTable   *)
(* that HandlePacket and SendPacketToDestIP share.                         *)
(*                                                                         *)
(* A table is a set of entries                                             *)
(*   [AssignedIP, AssignedPrefix, RouteType, Interface, NextHop].          *)
(* A local entry has an Interface [AssignedIP, InterfaceName, Neighbors,   *)
(* State], any other a NextHop.  The code takes the first match of a range *)
(* over a Go map, in random order: a lookup is the set of what it may      *)
(* return.                                                                 *)
(***************************************************************************)

CONSTANTS
    Contains(_, _),  \* Contains(prefix, address)
    NoAddress        \* the nil NextHop of a local entry

Local(table) == {entry \in table : entry.RouteType = "local"}

checkIfLocalIP(table, destIP) ==
    {entry.Interface : entry \in {e \in Local(table) : e.AssignedIP = destIP}}

getInterfaceByPrefix(table, destIP) ==
    {entry.Interface : entry \in
        {e \in Local(table) : e.Interface.State = "up" /\ Contains(e.AssignedPrefix, destIP)}}

\* Any entry that contains destIP, whatever its type and length: a local one
\* whose interface is down gives no address.
getNextHopbyDestIP(table, destIP) ==
    LET matching == {entry \in table : Contains(entry.AssignedPrefix, destIP)}
    IN  IF matching = {} THEN {NoAddress} ELSE {entry.NextHop : entry \in matching}

------------------------------------------------------------------------------
(* One packet *)

Drop == [does |-> "drop"]
Deliver == [does |-> "deliver"]
Send(interface, address) ==
    [does |-> "send", over |-> interface.InterfaceName, from |-> interface.AssignedIP,
     to |-> address]

\* Where a packet for destIP goes next: to destIP itself, on a prefix of this
\* node, or to the next hop of a route; NoAddress if there is none.
NextIP(table, destIP) ==
    IF getInterfaceByPrefix(table, destIP) # {} THEN {destIP}
    ELSE getNextHopbyDestIP(table, destIP)

\* getRemoteAddrByNeighborIP on the interface found for it.
SendTo(table, nextIP) ==
    LET interfaces == getInterfaceByPrefix(table, nextIP) IN
    IF nextIP = NoAddress \/ interfaces = {} THEN {Drop}
    ELSE {IF nextIP \in i.Neighbors THEN Send(i, nextIP) ELSE Drop : i \in interfaces}

Forward(table, destIP) == UNION {SendTo(table, nextIP) : nextIP \in NextIP(table, destIP)}

\* HandlePacket, for a packet that still has hops left, and SendPacketToDestIP
\* for one that is not this node's own.
HandlePacket(table, destIP) ==
    LET mine == checkIfLocalIP(table, destIP) IN
    IF mine = {} THEN Forward(table, destIP)
    ELSE {IF i.State = "up" THEN Deliver ELSE Drop : i \in mine}
==============================================================================
