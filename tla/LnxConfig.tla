------------------------------ MODULE LnxConfig -------------------------------
(***************************************************************************)
(* From a configuration file to the node that runs: ParseConfig            *)
(* (lnxconfig.go) reads it line by line, Initialize (protocol.go) makes    *)
(* the interfaces (link.go) and the forwarding table (network.go) of it,   *)
(* the down and up commands change their state, and on a router RIPHandler *)
(* (rip.go) adds to the table what its neighbors advertise.                *)
(*                                                                         *)
(* An address is a sequence of Width bits, the highest first.  A line is a *)
(* record that says what the directive holds; RoutingMode and              *)
(* OriginatingPrefixes are not kept, for nothing reads them.               *)
(***************************************************************************)
EXTENDS Integers, Sequences, Functions

CONSTANTS
    Width,
    Lines,     \* bound: the lines a file may be made of
    MaxLines,  \* bound
    Heard      \* bound: the entries of RIP responses, with where they come from

Addresses == [1 .. Width -> {0, 1}]
\* netip.Prefix: an address and how many of its bits count.
Prefixes == [addr : Addresses, bits : 0 .. Width]

\* netip.ParsePrefix and ParseAddr let nothing else through.
ASSUME LnxConfigAssumption ==
    /\ Width \in Nat \ {0}
    /\ MaxLines \in Nat
    /\ \A line \in Lines :
         /\ line.directive \in {"interface", "route", "rip originate"} => line.prefix \in Prefixes
         /\ line.directive \in {"neighbor", "route", "rip advertise-to"} => line.addr \in Addresses
    /\ Heard \subseteq [from : Addresses, prefix : Prefixes]

VARIABLES
    file,        \* the lines read
    config,      \* IPConfig
    status,      \* "reading", "stopped" by panic or log.Fatal, "running"
    Interfaces,  \* of the LinkLayer
    FwdTable,    \* of the NetworkLayer: the local and static entries
    learnt,      \* FwdTable: the entries whose RouteType is RIPRoute
    RIPNeighbors

vars == <<file, config, status, Interfaces, FwdTable, learnt, RIPNeighbors>>

\* The map of the code is one; what RIP adds to it and removes is kept apart.
Table == FwdTable \union learnt

Contains(prefix, address) == \A i \in 1 .. prefix.bits : prefix.addr[i] = address[i]
\* Mutant: the bits of the host stay.
MaskedNot(prefix) == prefix

Masked(prefix) ==
    [prefix EXCEPT !.addr = [i \in 1 .. Width |-> IF i <= prefix.bits THEN @[i] ELSE 0]]

NoAddress == <<>>
ContainsAddress(prefix, address) == address # NoAddress /\ Contains(prefix, address)
F == INSTANCE Forwarding WITH Contains <- ContainsAddress

Init ==
    /\ file = <<>>
    /\ config = [Interfaces |-> <<>>, Neighbors |-> <<>>, RipNeighbors |-> <<>>,
                 StaticRoutes |-> {}]
    /\ status = "reading"
    /\ Interfaces = <<>>
    /\ FwdTable = {}
    /\ learnt = {}
    /\ RIPNeighbors = <<>>

------------------------------------------------------------------------------
(* ParseConfig *)

parseInterface(line) ==
    config' = [config EXCEPT !.Interfaces = Append(@,
        [Name |-> line.name, AssignedIP |-> line.prefix.addr,
         AssignedPrefix |-> Masked(line.prefix), UDPAddr |-> line.udp])]

parseNeighbor(line) ==
    config' = [config EXCEPT !.Neighbors = Append(@,
        [DestAddr |-> line.addr, InterfaceName |-> line.name])]

\* The map keeps one route for a prefix, the last; the prefix is not masked.
parseRoute(line) ==
    config' = [config EXCEPT !.StaticRoutes =
        {route \in @ : route.prefix # line.prefix}
            \union {[prefix |-> line.prefix, addr |-> line.addr]}]

\* The prefix must be that of an interface above.
OriginatesKnown(line) ==
    \E i \in DOMAIN config.Interfaces :
        config.Interfaces[i].AssignedPrefix = Masked(line.prefix)

\* addRipNeighbor: the address must be that of a neighbor above.
KnownNeighbor(addr) ==
    \E i \in DOMAIN config.Neighbors : config.Neighbors[i].DestAddr = addr

advertiseTo(line) ==
    /\ KnownNeighbor(line.addr)
    /\ config' = [config EXCEPT !.RipNeighbors = Append(@, line.addr)]

\* What has the form of no directive, or names what is not there, is an error,
\* and main panics; so does parseRip itself when "rip originate" ends early.
Fails(line) ==
    \/ line.directive = "malformed"
    \/ line.directive = "rip originate" /\ ~OriginatesKnown(line)
    \/ line.directive = "rip advertise-to" /\ ~KnownNeighbor(line.addr)

ReadLine ==
    /\ status = "reading"
    /\ Len(file) < MaxLines
    /\ \E line \in Lines :
         /\ file' = Append(file, line)
         /\ IF Fails(line)
            THEN status' = "stopped" /\ UNCHANGED config
            ELSE /\ UNCHANGED status
                 /\ \/ line.directive = "interface" /\ parseInterface(line)
                    \/ line.directive = "neighbor" /\ parseNeighbor(line)
                    \/ line.directive = "route" /\ parseRoute(line)
                    \/ line.directive = "rip advertise-to" /\ advertiseTo(line)
                    \/ line.directive = "rip originate" /\ UNCHANGED config
    /\ UNCHANGED <<Interfaces, FwdTable, learnt, RIPNeighbors>>

------------------------------------------------------------------------------
(* Initialize *)

\* InitInterfaceConn fails where an interface above has the same UDP address.
UDPAddrTwice ==
    \E i, j \in DOMAIN config.Interfaces :
        i # j /\ config.Interfaces[i].UDPAddr = config.Interfaces[j].UDPAddr

\* A neighbor via a name that no interface has belongs to none.
NeighborsOf(name) ==
    {n.DestAddr : n \in {m \in Range(config.Neighbors) : m.InterfaceName = name}}

ParseLnxConfigToIpInterfaces ==
    [i \in DOMAIN config.Interfaces |->
        LET iface == config.Interfaces[i] IN
        [AssignedIP |-> iface.AssignedIP, AssignedPrefix |-> iface.AssignedPrefix,
         InterfaceName |-> iface.Name, Neighbors |-> NeighborsOf(iface.Name),
         State |-> "up"]]

LocalEntry(i) ==
    [AssignedIP |-> i.AssignedIP, AssignedPrefix |-> i.AssignedPrefix,
     RouteType |-> "local", Interface |-> i, NextHop |-> NoAddress]

\* The loop variable addr is one variable (go.mod: go 1.21): every static route
\* points to it, and is left with the address of the iteration that was last.
StaticEntry(route, last) ==
    [AssignedIP |-> route.addr, AssignedPrefix |-> route.prefix,
     RouteType |-> "static", NextHop |-> last.addr]

SameKey(x, y) == x.AssignedIP = y.AssignedIP /\ x.AssignedPrefix = y.AssignedPrefix

\* The map keeps the last entry with a key, and static routes come last.
TableOf(interfaces, statics) ==
    statics \union
    {LocalEntry(interfaces[i]) : i \in
        {i \in DOMAIN interfaces :
            /\ \A j \in i + 1 .. Len(interfaces) : ~SameKey(interfaces[i], interfaces[j])
            /\ \A s \in statics : ~SameKey(interfaces[i], s)}}

Initialize ==
    /\ status = "reading"
    /\ \/ /\ UDPAddrTwice
          /\ status' = "stopped"
          /\ UNCHANGED <<Interfaces, FwdTable, RIPNeighbors>>
       \/ /\ ~UDPAddrTwice
          /\ status' = "running"
          /\ Interfaces' = ParseLnxConfigToIpInterfaces
          /\ \/ config.StaticRoutes = {} /\ FwdTable' = TableOf(Interfaces', {})
             \/ \E last \in config.StaticRoutes :
                  FwdTable' = TableOf(Interfaces',
                                {StaticEntry(route, last) : route \in config.StaticRoutes})
          /\ RIPNeighbors' = config.RipNeighbors
    /\ UNCHANGED <<file, config, learnt>>

------------------------------------------------------------------------------
(* The down and up commands *)

\* Mutant: the copies in the table stay as they are.
SetTableStateNot(name, state) == FwdTable

SetTableState(name, state) ==
    {IF entry.RouteType = "local" /\ entry.Interface.InterfaceName = name
     THEN [entry EXCEPT !.Interface.State = state] ELSE entry : entry \in FwdTable}

\* Both copies of the state, that of the table and that of the LinkLayer, which
\* li prints.  The third, in the goroutine ReceivePacket, nobody reads.
UpdateInterfaceState(name, state) ==
    /\ FwdTable' = SetTableState(name, state)
    /\ Interfaces' = [i \in DOMAIN Interfaces |->
         IF Interfaces[i].InterfaceName = name
         THEN [Interfaces[i] EXCEPT !.State = state] ELSE Interfaces[i]]

DownOrUp ==
    /\ status = "running"
    /\ \E i \in DOMAIN Interfaces, state \in {"down", "up"} :
         UpdateInterfaceState(Interfaces[i].InterfaceName, state)
    /\ UNCHANGED <<file, config, status, learnt, RIPNeighbors>>

------------------------------------------------------------------------------
(* What RIP does to the table *)

\* Mutant: the networks of the node itself are not looked at.
GetEntryByPrefixOfLearnt(address) ==
    {entry \in learnt : Contains(entry.AssignedPrefix, address)}

GetEntryByPrefix(address) ==
    {entry \in Table : Contains(entry.AssignedPrefix, address)}

RIPEntry(heard) ==
    [AssignedIP |-> heard.prefix.addr, AssignedPrefix |-> Masked(heard.prefix),
     RouteType |-> "rip", NextHop |-> heard.from]

\* One entry of a response: a route to what no entry holds yet, or for the
\* entry found, if RIP has made it, another next hop; module Rip has the costs
\* that decide.  A node whose interfaces are all down hears nothing.
RIPHandler ==
    /\ status = "running"
    /\ \E i \in DOMAIN Interfaces : Interfaces[i].State = "up"
    /\ \E heard \in Heard :
         LET found == GetEntryByPrefix(heard.prefix.addr) IN
         \/ found = {} /\ learnt' = learnt \union {RIPEntry(heard)}
         \/ \E entry \in found \intersect learnt :
              learnt' = (learnt \ {entry}) \union {[entry EXCEPT !.NextHop = heard.from]}
    /\ UNCHANGED <<file, config, status, Interfaces, FwdTable, RIPNeighbors>>

PeriodicExpiry ==
    /\ \E expired \in SUBSET learnt : learnt' = learnt \ expired
    /\ UNCHANGED <<file, config, status, Interfaces, FwdTable, RIPNeighbors>>

Next == ReadLine \/ Initialize \/ DownOrUp \/ RIPHandler \/ PeriodicExpiry

Spec == Init /\ [][Next]_vars

------------------------------------------------------------------------------
(* What must hold *)

\* Addresses have Width bits, an interface is on its masked prefix, entries of
\* the table are local with an interface or static or of RIP with a next hop,
\* and a key has one entry, as in the map that FwdTable and learnt stand for.
TypeOK ==
    /\ status \in {"reading", "stopped", "running"}
    /\ \A i \in DOMAIN Interfaces :
         /\ \A k \in Interfaces[i].AssignedPrefix.bits + 1 .. Width :
              Interfaces[i].AssignedPrefix.addr[k] = 0
         /\ Contains(Interfaces[i].AssignedPrefix, Interfaces[i].AssignedIP)
         /\ Interfaces[i].Neighbors \subseteq Addresses
         /\ Interfaces[i].State \in {"up", "down"}
    /\ \A entry \in FwdTable :
         \/ entry.RouteType = "local" /\ entry.NextHop = NoAddress
         \/ entry.RouteType = "static" /\ entry.NextHop \in Addresses
    /\ \A entry \in learnt :
         /\ entry.RouteType = "rip" /\ entry.NextHop \in Addresses
         /\ \A other \in Table : SameKey(entry, other) => entry = other

LinesOf(directive) == {line \in Range(file) : line.directive = directive}

\* The file says of each address where it goes: the prefixes of interfaces do
\* not overlap, there is at most one static route, and it is not inside one of
\* them.  What the code does beyond that depends on the order of a map, and
\* with two static routes on StaticEntry as well.
Inside(p, q) == q.bits <= p.bits /\ Contains(q, p.addr)
Unambiguous ==
    /\ \A x, y \in LinesOf("interface") : x # y => ~Inside(x.prefix, y.prefix)
    /\ \A x, y \in LinesOf("route") : x = y
    /\ \A x \in LinesOf("route"), y \in LinesOf("interface") : ~Inside(x.prefix, y.prefix)

\* What li says, the state in the LinkLayer.
IsUp(name) ==
    \A i \in DOMAIN Interfaces : Interfaces[i].InterfaceName = name => Interfaces[i].State = "up"

IsNeighbor(address, name) ==
    \E line \in LinesOf("neighbor") : line.addr = address /\ line.name = name

OverInterface(line, address) ==
    IF IsUp(line.name) /\ IsNeighbor(address, line.name)
    THEN [does |-> "send", over |-> line.name, from |-> line.prefix.addr, to |-> address]
    ELSE F!Drop

OverRoute(route) ==
    LET lines == {line \in LinesOf("interface") : Contains(line.prefix, route.addr)}
    IN  IF lines = {} THEN {F!Drop} ELSE {OverInterface(line, route.addr) : line \in lines}

\* The line with the longest prefix that holds the address.
BestLines(address) ==
    LET matching == {line \in LinesOf("interface") \union LinesOf("route") :
                        Contains(line.prefix, address)}
    IN  {line \in matching : \A other \in matching : other.prefix.bits <= line.prefix.bits}

Configured(address, line) ==
    CASE line.directive = "route" -> OverRoute(line)
      [] line.directive = "interface" /\ line.prefix.addr = address ->
            IF IsUp(line.name) THEN {F!Deliver} ELSE {F!Drop}
      [] line.directive = "interface" /\ line.prefix.addr # address ->
            {OverInterface(line, address)}

\* No route that RIP has learnt holds the address, or an interface that is up
\* does, or it is the node's own: what RIP has learnt makes no difference.
NotUpToRIP(address) ==
    \/ \A route \in learnt : ~Contains(route.AssignedPrefix, address)
    \/ \E line \in LinesOf("interface") :
         \/ line.prefix.addr = address
         \/ IsUp(line.name) /\ Contains(line.prefix, address)

\* Packets go where the file says, with longest match, and over interfaces that
\* are up (network.go:93-133, link.go:70-102), although the code looks for no
\* longest match.  Only where the interface of the address is down may another
\* route take the packet.  This is so for every address of a host, and on a
\* router for those that RIP has no say in.
ForwardsAsConfigured ==
    status = "running" /\ Unambiguous =>
        \A address \in Addresses : NotUpToRIP(address) =>
            LET results == F!HandlePacket(Table, address)
                lines == BestLines(address)
            IN  IF lines = {} THEN results = {F!Drop}
                ELSE \A line \in lines :
                       \/ results = Configured(address, line)
                       \/ /\ line.directive = "interface" /\ ~IsUp(line.name)
                          /\ line.prefix.addr # address
                          /\ results \subseteq {F!Drop} \union
                                UNION {OverRoute(route) : route \in LinesOf("route")}

\* What lr lists with an L.
Networks == {entry.AssignedPrefix : entry \in F!Local(FwdTable)}

\* A router without static routes sends what RIP has for a neighbor to that
\* neighbor or not at all, over an interface on which the file has it
\* (cmd/vrouter/main.go:39, rip.go:295), whatever it has learnt itself:
\* RIPHandler judges a response by the address it came from.  The neighbor must
\* be on a network of the router, and no route may have been learnt whose prefix
\* holds one of these networks: either lets a learnt route take the packet.
RIPStaysOnLink ==
    /\ status = "running" /\ LinesOf("route") = {}
    /\ \A route \in learnt, network \in Networks : ~Inside(network, route.AssignedPrefix)
    => \A i \in DOMAIN RIPNeighbors :
         (\E network \in Networks : Contains(network, RIPNeighbors[i])) =>
            \A result \in F!Forward(Table, RIPNeighbors[i]) :
                result # F!Drop =>
                    result.to = RIPNeighbors[i] /\ IsNeighbor(result.to, result.over)
==============================================================================
