--------------------------- MODULE LnxConfig_proofs ----------------------------
(***************************************************************************)
(* For every set of lines, addresses of any width, files of any length and *)
(* whatever RIP hears:                                                     *)
(*   - what the node is made of is typed (FileInv, NodeInv, LearntInv);    *)
(*   - packets go where the line with the longest prefix says;             *)
(*   - a node that runs and has no static route speaks to its RIP          *)
(*     neighbors over their own links.                                     *)
(***************************************************************************)
EXTENDS LnxConfig, SequenceTheorems, TLAPS

\* What the directives of a file can put into IPConfig.
InterfaceConfigs ==
    {[Name |-> line.name, AssignedIP |-> line.prefix.addr,
      AssignedPrefix |-> Masked(line.prefix), UDPAddr |-> line.udp] : line \in Lines}
NeighborConfigs == {[DestAddr |-> line.addr, InterfaceName |-> line.name] : line \in Lines}
StaticRouteConfigs == {[prefix |-> line.prefix, addr |-> line.addr] : line \in Lines}
IPConfigs ==
    [Interfaces : Seq(InterfaceConfigs), Neighbors : Seq(NeighborConfigs),
     RipNeighbors : Seq({line.addr : line \in Lines}), StaticRoutes : SUBSET StaticRouteConfigs]

\* The interfaces, and the entries that a node without static routes has.
Ifaces ==
    [AssignedIP : {line.prefix.addr : line \in Lines},
     AssignedPrefix : {Masked(line.prefix) : line \in Lines},
     InterfaceName : {line.name : line \in Lines},
     Neighbors : SUBSET {line.addr : line \in Lines},
     State : {"up", "down"}]

LocalEntries ==
    [AssignedIP : {line.prefix.addr : line \in Lines},
     AssignedPrefix : {Masked(line.prefix) : line \in Lines},
     RouteType : {"local"}, Interface : Ifaces, NextHop : {NoAddress}]

\* The neighbors of an interface are those the file names for it.
OwnNeighbors(iface) ==
    \A address \in iface.Neighbors : IsNeighbor(address, iface.InterfaceName)

\* RIPStaysOnLink is not inductive: it says nothing of what has been read, nor of
\* the entries that no RIP neighbor needs now.
ConfigInv ==
    /\ file \in Seq(Lines)
    /\ config \in IPConfigs
    /\ \A n \in Range(config.Neighbors) : IsNeighbor(n.DestAddr, n.InterfaceName)
    /\ LinesOf("route") = {} => config.StaticRoutes = {}
TableInv ==
    status = "running" /\ LinesOf("route") = {} =>
        \A entry \in FwdTable : entry \in LocalEntries /\ OwnNeighbors(entry.Interface)

------------------------------------------------------------------------------
(* Reading *)

\* A line more takes nothing away.
LEMMA LinesAppended ==
    ASSUME file \in Seq(Lines), NEW line \in Lines, file' = Append(file, line)
    PROVE  /\ file' \in Seq(Lines)
           /\ \A d : LinesOf(d) \subseteq LinesOf(d)'
           /\ line \in LinesOf(line.directive)'
           /\ \A a, name : IsNeighbor(a, name) => IsNeighbor(a, name)'
<1>1. file' \in Seq(Lines) /\ Range(file') = Range(file) \union {line}
  <2>1. /\ DOMAIN file = 1 .. Len(file) /\ DOMAIN file' = 1 .. Len(file) + 1
        /\ Len(file) \in Nat /\ file' \in Seq(Lines)
        /\ \A i \in 1 .. Len(file) : file'[i] = file[i]
        /\ file'[Len(file) + 1] = line
    OBVIOUS
  <2> QED
    BY <2>1 DEF Range
<1> QED
  BY <1>1 DEF LinesOf, IsNeighbor

LEMMA InitConfigInv ==
    ASSUME Init
    PROVE  ConfigInv /\ TableInv
<1>1. /\ <<>> \in Seq(Lines) /\ <<>> \in Seq(InterfaceConfigs) /\ <<>> \in Seq(NeighborConfigs)
      /\ <<>> \in Seq({line.addr : line \in Lines})
  BY EmptySeq
<1>2. file \in Seq(Lines) /\ config \in IPConfigs
  BY <1>1 DEF Init, IPConfigs
<1>3. Range(config.Neighbors) = {}
  BY DEF Init, Range
<1>4. config.StaticRoutes = {} /\ status # "running"
  BY DEF Init
<1> QED
  BY <1>2, <1>3, <1>4 DEF ConfigInv, TableInv

\* One entry more at the end of a list of the configuration.
LEMMA AppendRange ==
    ASSUME NEW S, NEW s \in Seq(S), NEW e \in S
    PROVE  Append(s, e) \in Seq(S) /\ Range(Append(s, e)) = Range(s) \union {e}
<1>1. /\ DOMAIN s = 1 .. Len(s) /\ DOMAIN Append(s, e) = 1 .. Len(s) + 1
      /\ Len(s) \in Nat /\ Append(s, e) \in Seq(S)
      /\ \A i \in 1 .. Len(s) : Append(s, e)[i] = s[i]
      /\ Append(s, e)[Len(s) + 1] = e
  OBVIOUS
<1> QED
  BY <1>1 DEF Range

\* One field of the configuration replaced.
LEMMA FieldReplaced ==
    ASSUME config \in IPConfigs
    PROVE  /\ \A x \in Seq(InterfaceConfigs) :
                [config EXCEPT !.Interfaces = x] \in IPConfigs
           /\ \A x \in Seq(NeighborConfigs) :
                /\ [config EXCEPT !.Neighbors = x] \in IPConfigs
                /\ [config EXCEPT !.Neighbors = x].Neighbors = x
           /\ \A x \in Seq({line.addr : line \in Lines}) :
                [config EXCEPT !.RipNeighbors = x] \in IPConfigs
BY DEF IPConfigs

LEMMA OtherFieldsKept ==
    ASSUME config \in IPConfigs
    PROVE  /\ \A x : /\ [config EXCEPT !.Interfaces = x].Neighbors = config.Neighbors
                     /\ [config EXCEPT !.Interfaces = x].StaticRoutes = config.StaticRoutes
           /\ \A x : [config EXCEPT !.Neighbors = x].StaticRoutes = config.StaticRoutes
           /\ \A x : /\ [config EXCEPT !.RipNeighbors = x].Neighbors = config.Neighbors
                     /\ [config EXCEPT !.RipNeighbors = x].StaticRoutes = config.StaticRoutes
BY DEF IPConfigs

\* Each directive adds what its line says and leaves the rest.
LEMMA ReadLineConfigInv ==
    ASSUME ConfigInv, ReadLine
    PROVE  ConfigInv' /\ TableInv'
<1>1. PICK line \in Lines :
        /\ file' = Append(file, line)
        /\ IF Fails(line)
           THEN status' = "stopped" /\ UNCHANGED config
           ELSE /\ UNCHANGED status
                /\ \/ line.directive = "interface" /\ parseInterface(line)
                   \/ line.directive = "neighbor" /\ parseNeighbor(line)
                   \/ line.directive = "route" /\ parseRoute(line)
                   \/ line.directive = "rip advertise-to" /\ advertiseTo(line)
                   \/ line.directive = "rip originate" /\ UNCHANGED config
  BY DEF ReadLine
<1>2. /\ file' \in Seq(Lines)
      /\ LinesOf("route") \subseteq LinesOf("route")'
      /\ line \in LinesOf(line.directive)'
      /\ \A a, name : IsNeighbor(a, name) => IsNeighbor(a, name)'
  BY <1>1, LinesAppended DEF ConfigInv
<1>3. status' # "running"
  BY <1>1 DEF ReadLine
<1>4. /\ config \in IPConfigs
      /\ \A n \in Range(config.Neighbors) : IsNeighbor(n.DestAddr, n.InterfaceName)
      /\ LinesOf("route") = {} => config.StaticRoutes = {}
  BY DEF ConfigInv
<1>5. CASE config' = config
  BY <1>2, <1>3, <1>4, <1>5 DEF ConfigInv, TableInv
<1>6. CASE parseInterface(line)
  <2> DEFINE iface == [Name |-> line.name, AssignedIP |-> line.prefix.addr,
                       AssignedPrefix |-> Masked(line.prefix), UDPAddr |-> line.udp]
  <2>1. config' = [config EXCEPT !.Interfaces = Append(@, iface)]
    BY <1>6 DEF parseInterface
  <2>2. iface \in InterfaceConfigs
    BY DEF InterfaceConfigs
  <2> HIDE DEF iface
  <2>3. config' \in IPConfigs /\ config'.Neighbors = config.Neighbors
        /\ config'.StaticRoutes = config.StaticRoutes
    <3>1. config.Interfaces \in Seq(InterfaceConfigs)
      BY <1>4 DEF IPConfigs
    <3>2. Append(config.Interfaces, iface) \in Seq(InterfaceConfigs)
      BY <2>2, <3>1, AppendRange
    <3> QED
      BY <1>4, <2>1, <3>2, FieldReplaced, OtherFieldsKept
  <2> QED
    BY <1>2, <1>3, <1>4, <2>3 DEF ConfigInv, TableInv
<1>7. CASE line.directive = "neighbor" /\ parseNeighbor(line)
  <2> DEFINE n == [DestAddr |-> line.addr, InterfaceName |-> line.name]
  <2>1. config' = [config EXCEPT !.Neighbors = Append(@, n)]
    BY <1>7 DEF parseNeighbor
  <2>2. n \in NeighborConfigs
    BY DEF NeighborConfigs
  <2>3. IsNeighbor(n.DestAddr, n.InterfaceName)'
    BY <1>2, <1>7 DEF IsNeighbor
  <2> HIDE DEF n
  <2>4. config.Neighbors \in Seq(NeighborConfigs)
    BY <1>4 DEF IPConfigs
  <2>5. config' \in IPConfigs /\ config'.Neighbors = Append(config.Neighbors, n)
        /\ config'.StaticRoutes = config.StaticRoutes
    <3>1. Append(config.Neighbors, n) \in Seq(NeighborConfigs)
      BY <2>2, <2>4, AppendRange
    <3> QED
      BY <1>4, <2>1, <3>1, FieldReplaced, OtherFieldsKept
  <2>6. Range(config'.Neighbors) = Range(config.Neighbors) \union {n}
    BY <2>2, <2>4, <2>5, AppendRange
  <2> QED
    BY <1>2, <1>3, <1>4, <2>3, <2>5, <2>6 DEF ConfigInv, TableInv
<1>8. CASE line.directive = "route" /\ parseRoute(line)
  <2>1. config' \in IPConfigs /\ config'.Neighbors = config.Neighbors
    BY <1>4, <1>8 DEF parseRoute, IPConfigs, StaticRouteConfigs
  <2>2. LinesOf("route")' # {}
    BY <1>2, <1>8
  <2> QED
    BY <1>2, <1>3, <1>4, <2>1, <2>2 DEF ConfigInv, TableInv
<1>9. CASE advertiseTo(line)
  <2>1. config' \in IPConfigs /\ config'.Neighbors = config.Neighbors
        /\ config'.StaticRoutes = config.StaticRoutes
    <3>1. config' = [config EXCEPT !.RipNeighbors = Append(@, line.addr)]
      BY <1>9 DEF advertiseTo
    <3>2. config.RipNeighbors \in Seq({l.addr : l \in Lines})
      BY <1>4 DEF IPConfigs
    <3>3. Append(config.RipNeighbors, line.addr) \in Seq({l.addr : l \in Lines})
      BY <3>2, AppendRange
    <3> QED
      BY <1>4, <3>1, <3>3, FieldReplaced, OtherFieldsKept
  <2> QED
    BY <1>2, <1>3, <1>4, <2>1 DEF ConfigInv, TableInv
<1> QED
  BY <1>1, <1>5, <1>6, <1>7, <1>8, <1>9

------------------------------------------------------------------------------
(* The table *)

\* Without static routes the table holds the interfaces of the file.
LEMMA InitializeTableInv ==
    ASSUME ConfigInv, Initialize
    PROVE  TableInv'
<1> SUFFICES ASSUME status' = "running", LinesOf("route")' = {}, NEW entry \in FwdTable'
             PROVE  entry \in LocalEntries /\ OwnNeighbors(entry.Interface)'
  BY DEF TableInv
<1>1. /\ config.StaticRoutes = {}
      /\ \A a, name : IsNeighbor(a, name)' <=> IsNeighbor(a, name)
  BY DEF Initialize, ConfigInv, LinesOf, IsNeighbor
<1>2. /\ Interfaces' = ParseLnxConfigToIpInterfaces
      /\ FwdTable' = TableOf(Interfaces', {})
  BY <1>1 DEF Initialize
<1>3. PICK i \in DOMAIN config.Interfaces : entry = LocalEntry(ParseLnxConfigToIpInterfaces[i])
  BY <1>2 DEF TableOf, ParseLnxConfigToIpInterfaces
<1> DEFINE c == config.Interfaces[i]
<1>4. c \in InterfaceConfigs
  <2>1. config.Interfaces \in Seq(InterfaceConfigs)
    BY DEF ConfigInv, IPConfigs
  <2> QED
    BY <1>3, <2>1, ElementOfSeq
<1>5. PICK line \in Lines :
        c = [Name |-> line.name, AssignedIP |-> line.prefix.addr,
             AssignedPrefix |-> Masked(line.prefix), UDPAddr |-> line.udp]
  BY <1>4 DEF InterfaceConfigs
<1>6. entry = LocalEntry([AssignedIP |-> c.AssignedIP, AssignedPrefix |-> c.AssignedPrefix,
                          InterfaceName |-> c.Name, Neighbors |-> NeighborsOf(c.Name),
                          State |-> "up"])
  BY <1>3 DEF ParseLnxConfigToIpInterfaces
<1> HIDE DEF c
<1>7. /\ NeighborsOf(c.Name) \subseteq {l.addr : l \in Lines}
      /\ \A a \in NeighborsOf(c.Name) : IsNeighbor(a, c.Name)
  <2>1. \A n \in Range(config.Neighbors) :
          /\ n \in NeighborConfigs
          /\ IsNeighbor(n.DestAddr, n.InterfaceName)
    <3>1. config.Neighbors \in Seq(NeighborConfigs)
      BY DEF ConfigInv, IPConfigs
    <3> QED
      BY <3>1, RangeOfSeq DEF ConfigInv
  <2>2. \A n \in NeighborConfigs : n.DestAddr \in {l.addr : l \in Lines}
    BY DEF NeighborConfigs
  <2> QED
    BY <2>1, <2>2 DEF NeighborsOf
<1>8. entry \in LocalEntries
  BY <1>5, <1>6, <1>7 DEF LocalEntry, LocalEntries, Ifaces
<1>9. entry.Interface.Neighbors = NeighborsOf(c.Name) /\ entry.Interface.InterfaceName = c.Name
  BY <1>6 DEF LocalEntry
<1> QED
  BY <1>1, <1>7, <1>8, <1>9 DEF OwnNeighbors

\* down and up change the state of an entry and nothing else of it.
LEMMA DownOrUpTableInv ==
    ASSUME TableInv, DownOrUp
    PROVE  TableInv'
<1> SUFFICES ASSUME LinesOf("route")' = {}, NEW entry \in FwdTable'
             PROVE  entry \in LocalEntries /\ OwnNeighbors(entry.Interface)'
  BY DEF TableInv
<1>1. PICK k \in DOMAIN Interfaces, state \in {"down", "up"} :
        FwdTable' = SetTableState(Interfaces[k].InterfaceName, state)
  BY DEF DownOrUp, UpdateInterfaceState
<1>2. /\ \A e \in FwdTable : e \in LocalEntries /\ OwnNeighbors(e.Interface)
      /\ \A a, n : IsNeighbor(a, n)' <=> IsNeighbor(a, n)
  BY DEF TableInv, DownOrUp, LinesOf, IsNeighbor
<1>3. PICK e \in FwdTable : \/ entry = e
                            \/ entry = [e EXCEPT !.Interface.State = state]
  BY <1>1 DEF SetTableState
<1>4. e \in LocalEntries /\ e.Interface \in Ifaces /\ OwnNeighbors(e.Interface)
  BY <1>2 DEF LocalEntries
<1>5. CASE entry = e
  BY <1>2, <1>4, <1>5 DEF OwnNeighbors
<1>6. CASE entry = [e EXCEPT !.Interface.State = state]
  <2>1. entry \in LocalEntries
    BY <1>4, <1>6 DEF LocalEntries, Ifaces
  <2>2. /\ entry.Interface.Neighbors = e.Interface.Neighbors
        /\ entry.Interface.InterfaceName = e.Interface.InterfaceName
    BY <1>4, <1>6 DEF LocalEntries, Ifaces
  <2> QED
    BY <1>2, <1>4, <2>1, <2>2 DEF OwnNeighbors
<1> QED
  BY <1>3, <1>5, <1>6

\* ConfigInv looks only at what has been read.
LEMMA ConfigInvFrame ==
    ASSUME ConfigInv, UNCHANGED <<file, config>>
    PROVE  ConfigInv'
BY DEF ConfigInv, LinesOf, IsNeighbor

LEMMA NextTableInv ==
    ASSUME ConfigInv, TableInv, [Next]_vars
    PROVE  ConfigInv' /\ TableInv'
<1>1. CASE ReadLine
  BY <1>1, ReadLineConfigInv
<1>2. CASE Initialize
  <2>1. UNCHANGED <<file, config>>
    BY <1>2 DEF Initialize
  <2> QED
    BY <1>2, <2>1, ConfigInvFrame, InitializeTableInv
<1>3. CASE DownOrUp
  <2>1. UNCHANGED <<file, config>>
    BY <1>3 DEF DownOrUp
  <2> QED
    BY <1>3, <2>1, ConfigInvFrame, DownOrUpTableInv
<1>4. CASE RIPHandler \/ PeriodicExpiry \/ UNCHANGED vars
  <2>1. UNCHANGED <<file, config, status, FwdTable>>
    BY <1>4 DEF vars, RIPHandler, PeriodicExpiry
  <2> QED
    BY <2>1, ConfigInvFrame DEF TableInv, OwnNeighbors, LinesOf, IsNeighbor
<1> QED
  BY <1>1, <1>2, <1>3, <1>4 DEF Next

------------------------------------------------------------------------------
(* Prefixes *)

LEMMA WidthType == Width \in Nat \ {0}
BY LnxConfigAssumption

\* Masking keeps the bits that count and clears the others.
LEMMA MaskedPrefix ==
    ASSUME NEW p \in Prefixes
    PROVE  /\ Masked(p) \in Prefixes /\ Masked(p).bits = p.bits
           /\ \A i \in 1 .. Width : Masked(p).addr[i] = IF i <= p.bits THEN p.addr[i] ELSE 0
           /\ \A address : Contains(Masked(p), address) <=> Contains(p, address)
<1> DEFINE addr == [i \in 1 .. Width |-> IF i <= p.bits THEN p.addr[i] ELSE 0]
<1>1. Width \in Nat \ {0} /\ p.bits \in 0 .. Width /\ p.addr \in Addresses
  BY WidthType DEF Prefixes
<1>2. addr \in Addresses
  BY <1>1 DEF Addresses
<1>3. Masked(p) \in Prefixes /\ Masked(p).addr = addr /\ Masked(p).bits = p.bits
  <2>1. Masked(p) = [p EXCEPT !.addr = addr]
    BY DEF Masked
  <2> HIDE DEF addr
  <2> QED BY <1>2, <2>1 DEF Prefixes
<1>4. \A i \in 1 .. p.bits : i \in 1 .. Width /\ addr[i] = p.addr[i]
  BY <1>1
<1> QED BY <1>3, <1>4 DEF Contains

LEMMA LinesTyped ==
    ASSUME file \in Seq(Lines)
    PROVE  /\ \A line \in LinesOf("interface") : line \in Lines /\ line.prefix \in Prefixes
           /\ \A line \in LinesOf("route") :
                line \in Lines /\ line.prefix \in Prefixes /\ line.addr \in Addresses
           /\ \A line \in LinesOf("neighbor") : line \in Lines /\ line.addr \in Addresses
<1>1. Range(file) \subseteq Lines
  BY DEF Range
<1> QED BY <1>1, LnxConfigAssumption DEF LinesOf

\* Of two prefixes that hold an address the longer one is inside the other.
LEMMA LongerIsInside ==
    ASSUME NEW p \in Prefixes, NEW q \in Prefixes, NEW address,
           Contains(p, address), Contains(q, address), q.bits <= p.bits
    PROVE  Inside(p, q)
<1>1. p.bits \in Nat /\ q.bits \in Nat
  BY WidthType DEF Prefixes
<1> QED BY <1>1 DEF Contains, Inside

LEMMA SameMaskedIsInside ==
    ASSUME NEW p \in Prefixes, NEW q \in Prefixes, p.bits = q.bits,
           \A i \in 1 .. q.bits : p.addr[i] = q.addr[i]
    PROVE  Inside(p, q)
<1>1. p.bits \in Nat /\ q.bits \in Nat
  BY WidthType DEF Prefixes
<1> QED BY <1>1 DEF Contains, Inside

LEMMA AddressIsThere ==
    ASSUME NEW address \in Addresses
    PROVE  address # NoAddress
<1>1. 1 \in 1 .. Width
  BY WidthType
<1>2. DOMAIN address = 1 .. Width
  BY DEF Addresses
<1>3. DOMAIN <<>> = {}
  OBVIOUS
<1> QED BY <1>1, <1>2, <1>3 DEF NoAddress

------------------------------------------------------------------------------
(* The file, the configuration and the table *)

IfaceConfig(line) ==
    [Name |-> line.name, AssignedIP |-> line.prefix.addr,
     AssignedPrefix |-> Masked(line.prefix), UDPAddr |-> line.udp]
NeighborConfig(line) == [DestAddr |-> line.addr, InterfaceName |-> line.name]
RouteConfig(line) == [prefix |-> line.prefix, addr |-> line.addr]

FileInv ==
    /\ file \in Seq(Lines)
    /\ config \in IPConfigs
    /\ Range(config.Interfaces) = {IfaceConfig(line) : line \in LinesOf("interface")}
    /\ Range(config.Neighbors) = {NeighborConfig(line) : line \in LinesOf("neighbor")}
    /\ config.StaticRoutes \subseteq {RouteConfig(line) : line \in LinesOf("route")}
    /\ LinesOf("route") # {} => config.StaticRoutes # {}

\* The interface of a line, and the entries of lines.
IfaceOf(line, state) ==
    [AssignedIP |-> line.prefix.addr, AssignedPrefix |-> Masked(line.prefix),
     InterfaceName |-> line.name, Neighbors |-> {a \in Addresses : IsNeighbor(a, line.name)},
     State |-> state]
EntryOf(line) == LocalEntry(IfaceOf(line, IF IsUp(line.name) THEN "up" ELSE "down"))
RouteEntry(line, last) == StaticEntry(RouteConfig(line), RouteConfig(last))

\* Interfaces of one name go up and down together, in the LinkLayer and in the
\* table; a file that is not ambiguous loses no line on the way to the table.
InterfacesInv ==
    /\ \A i \in DOMAIN Interfaces :
         \E line \in LinesOf("interface"), state \in {"up", "down"} :
            Interfaces[i] = IfaceOf(line, state)
    /\ \A line \in LinesOf("interface") :
         \E i \in DOMAIN Interfaces : Interfaces[i].InterfaceName = line.name
    /\ \A i, j \in DOMAIN Interfaces :
         Interfaces[i].InterfaceName = Interfaces[j].InterfaceName
            => Interfaces[i].State = Interfaces[j].State
EntriesInv ==
    /\ \A entry \in FwdTable :
         \/ \E line \in LinesOf("interface") : entry = EntryOf(line)
         \/ \E line, last \in LinesOf("route") : entry = RouteEntry(line, last)
    /\ Unambiguous =>
         /\ \A line \in LinesOf("interface") : EntryOf(line) \in FwdTable
         /\ \A line \in LinesOf("route") : RouteEntry(line, line) \in FwdTable
NodeInv ==
    /\ status \in {"reading", "stopped", "running"}
    /\ IF status = "running" THEN InterfacesInv /\ EntriesInv
       ELSE Interfaces = <<>> /\ FwdTable = {}

LEMMA InitFileInv ==
    ASSUME Init
    PROVE  FileInv /\ NodeInv
<1>1. file \in Seq(Lines) /\ config \in IPConfigs
  BY InitConfigInv DEF ConfigInv
<1>2. Range(file) = {} /\ Range(config.Interfaces) = {} /\ Range(config.Neighbors) = {}
  BY DEF Init, Range
<1>3. \A d : LinesOf(d) = {}
  BY <1>2 DEF LinesOf
<1>4. FileInv
  BY <1>1, <1>2, <1>3 DEF FileInv, Init
<1>5. NodeInv
  BY DEF Init, NodeInv
<1> QED BY <1>4, <1>5

\* Each line adds one thing to the configuration, if it is right.
LEMMA ReadLineFileInv ==
    ASSUME FileInv, NodeInv, ReadLine
    PROVE  FileInv' /\ NodeInv'
<1>1. PICK line \in Lines :
        /\ file' = Append(file, line)
        /\ IF Fails(line)
           THEN status' = "stopped" /\ UNCHANGED config
           ELSE /\ UNCHANGED status
                /\ \/ line.directive = "interface" /\ parseInterface(line)
                   \/ line.directive = "neighbor" /\ parseNeighbor(line)
                   \/ line.directive = "route" /\ parseRoute(line)
                   \/ line.directive = "rip advertise-to" /\ advertiseTo(line)
                   \/ line.directive = "rip originate" /\ UNCHANGED config
  BY DEF ReadLine
<1>2. file' \in Seq(Lines) /\ Range(file') = Range(file) \union {line}
  <2>1. file \in Seq(Lines)
    BY DEF FileInv
  <2> QED BY <1>1, <2>1, AppendRange
<1>3. \A d : LinesOf(d)' = LinesOf(d) \union IF line.directive = d THEN {line} ELSE {}
  BY <1>2 DEF LinesOf
<1>4. NodeInv'
  BY <1>1 DEF ReadLine, NodeInv
<1>5. /\ config \in IPConfigs
      /\ config.Interfaces \in Seq(InterfaceConfigs)
      /\ config.Neighbors \in Seq(NeighborConfigs)
      /\ config.RipNeighbors \in Seq({l.addr : l \in Lines})
  BY DEF FileInv, IPConfigs
<1>6. CASE line.directive \notin {"interface", "neighbor", "route"} /\ config' = config
  <2>1. /\ LinesOf("interface")' = LinesOf("interface")
        /\ LinesOf("neighbor")' = LinesOf("neighbor")
        /\ LinesOf("route")' = LinesOf("route")
    BY <1>3, <1>6
  <2> QED BY <1>2, <1>4, <1>6, <2>1 DEF FileInv
<1>7. CASE line.directive = "interface" /\ parseInterface(line)
  <2>1. config' = [config EXCEPT !.Interfaces = Append(@, IfaceConfig(line))]
    BY <1>7 DEF parseInterface, IfaceConfig
  <2>2. IfaceConfig(line) \in InterfaceConfigs
    BY DEF InterfaceConfigs, IfaceConfig
  <2>3. /\ Append(config.Interfaces, IfaceConfig(line)) \in Seq(InterfaceConfigs)
        /\ Range(Append(config.Interfaces, IfaceConfig(line)))
             = Range(config.Interfaces) \union {IfaceConfig(line)}
    BY <1>5, <2>2, AppendRange
  <2>4. /\ config' \in IPConfigs /\ config'.Neighbors = config.Neighbors
        /\ config'.StaticRoutes = config.StaticRoutes
        /\ config'.Interfaces = Append(config.Interfaces, IfaceConfig(line))
    BY <1>5, <2>1, <2>3 DEF IPConfigs
  <2>5. /\ LinesOf("interface")' = LinesOf("interface") \union {line}
        /\ LinesOf("neighbor")' = LinesOf("neighbor")
        /\ LinesOf("route")' = LinesOf("route")
    BY <1>3, <1>7
  <2> QED BY <1>2, <1>4, <2>3, <2>4, <2>5 DEF FileInv
<1>8. CASE line.directive = "neighbor" /\ parseNeighbor(line)
  <2>1. config' = [config EXCEPT !.Neighbors = Append(@, NeighborConfig(line))]
    BY <1>8 DEF parseNeighbor, NeighborConfig
  <2>2. NeighborConfig(line) \in NeighborConfigs
    BY DEF NeighborConfigs, NeighborConfig
  <2>3. /\ Append(config.Neighbors, NeighborConfig(line)) \in Seq(NeighborConfigs)
        /\ Range(Append(config.Neighbors, NeighborConfig(line)))
             = Range(config.Neighbors) \union {NeighborConfig(line)}
    BY <1>5, <2>2, AppendRange
  <2>4. /\ config' \in IPConfigs /\ config'.Interfaces = config.Interfaces
        /\ config'.StaticRoutes = config.StaticRoutes
        /\ config'.Neighbors = Append(config.Neighbors, NeighborConfig(line))
    BY <1>5, <2>1, <2>3 DEF IPConfigs
  <2>5. /\ LinesOf("neighbor")' = LinesOf("neighbor") \union {line}
        /\ LinesOf("interface")' = LinesOf("interface")
        /\ LinesOf("route")' = LinesOf("route")
    BY <1>3, <1>8
  <2> QED BY <1>2, <1>4, <2>3, <2>4, <2>5 DEF FileInv
<1>9. CASE line.directive = "route" /\ parseRoute(line)
  <2>1. config' = [config EXCEPT !.StaticRoutes =
                    {route \in @ : route.prefix # line.prefix} \union {RouteConfig(line)}]
    BY <1>9 DEF parseRoute, RouteConfig
  <2>2. RouteConfig(line) \in StaticRouteConfigs
    BY DEF StaticRouteConfigs, RouteConfig
  <2>3. /\ config' \in IPConfigs /\ config'.Interfaces = config.Interfaces
        /\ config'.Neighbors = config.Neighbors
        /\ config'.StaticRoutes =
             {route \in config.StaticRoutes : route.prefix # line.prefix} \union {RouteConfig(line)}
    BY <1>5, <2>1, <2>2 DEF IPConfigs
  <2>4. /\ LinesOf("route")' = LinesOf("route") \union {line}
        /\ LinesOf("interface")' = LinesOf("interface")
        /\ LinesOf("neighbor")' = LinesOf("neighbor")
    BY <1>3, <1>9
  <2> QED BY <1>2, <1>4, <2>3, <2>4 DEF FileInv
<1>10. CASE line.directive = "rip advertise-to" /\ advertiseTo(line)
  <2>1. config' = [config EXCEPT !.RipNeighbors = Append(@, line.addr)]
    BY <1>10 DEF advertiseTo
  <2>2. Append(config.RipNeighbors, line.addr) \in Seq({l.addr : l \in Lines})
    BY <1>5, AppendRange
  <2>3. /\ config' \in IPConfigs /\ config'.Interfaces = config.Interfaces
        /\ config'.Neighbors = config.Neighbors
        /\ config'.StaticRoutes = config.StaticRoutes
    BY <1>5, <2>1, <2>2 DEF IPConfigs
  <2>4. /\ LinesOf("interface")' = LinesOf("interface")
        /\ LinesOf("neighbor")' = LinesOf("neighbor")
        /\ LinesOf("route")' = LinesOf("route")
    BY <1>3, <1>10
  <2> QED BY <1>2, <1>4, <2>3, <2>4 DEF FileInv
<1> QED BY <1>1, <1>6, <1>7, <1>8, <1>9, <1>10 DEF Fails

\* An interface gets the neighbors the file has for its name.
LEMMA NeighborsOfFile ==
    ASSUME FileInv, NEW name
    PROVE  NeighborsOf(name) = {a \in Addresses : IsNeighbor(a, name)}
<1>1. Range(config.Neighbors) = {NeighborConfig(line) : line \in LinesOf("neighbor")}
  BY DEF FileInv
<1>2. \A line \in LinesOf("neighbor") : line.addr \in Addresses
  BY LinesTyped DEF FileInv
<1>3. \A line : NeighborConfig(line).DestAddr = line.addr
                 /\ NeighborConfig(line).InterfaceName = line.name
  BY DEF NeighborConfig
<1>4. ASSUME NEW a
      PROVE  a \in NeighborsOf(name) <=> \E line \in LinesOf("neighbor") : line.addr = a /\ line.name = name
  BY <1>1, <1>3 DEF NeighborsOf
<1>5. \A a : a \in NeighborsOf(name) <=> a \in {b \in Addresses : IsNeighbor(b, name)}
  BY <1>2, <1>4 DEF IsNeighbor
<1> QED BY <1>5

\* What is read does not change any more.
LEMMA FileStays ==
    ASSUME UNCHANGED <<file, config>>
    PROVE  /\ FileInv => FileInv'
           /\ \A d : LinesOf(d)' = LinesOf(d)
           /\ \A a, name : IsNeighbor(a, name)' <=> IsNeighbor(a, name)
           /\ Unambiguous' <=> Unambiguous
BY DEF FileInv, LinesOf, IsNeighbor, Unambiguous

\* Where nothing is ambiguous no line takes the key of another's entry.
LEMMA KeysOfLines ==
    ASSUME FileInv, Unambiguous, NEW x \in LinesOf("interface")
    PROVE  /\ \A y \in LinesOf("interface") :
                x # y => ~(Masked(x.prefix) = Masked(y.prefix))
           /\ \A y \in LinesOf("route") : ~(Masked(x.prefix) = y.prefix)
<1>1. x.prefix \in Prefixes
  BY LinesTyped DEF FileInv
<1>2. /\ Masked(x.prefix).bits = x.prefix.bits /\ x.prefix.bits \in 0 .. Width /\ Width \in Nat
      /\ \A i \in 1 .. x.prefix.bits : i \in 1 .. Width /\ Masked(x.prefix).addr[i] = x.prefix.addr[i]
  BY <1>1, WidthType, MaskedPrefix DEF Prefixes
<1>3. ASSUME NEW y \in LinesOf("interface"), x # y, Masked(x.prefix) = Masked(y.prefix)
      PROVE  FALSE
  <2>1. y.prefix \in Prefixes
    BY LinesTyped DEF FileInv
  <2>2. /\ Masked(y.prefix).bits = y.prefix.bits /\ y.prefix.bits \in 0 .. Width
        /\ \A i \in 1 .. y.prefix.bits : i \in 1 .. Width /\ Masked(y.prefix).addr[i] = y.prefix.addr[i]
    BY <2>1, WidthType, MaskedPrefix DEF Prefixes
  <2>3. x.prefix.bits = y.prefix.bits /\ \A i \in 1 .. y.prefix.bits : x.prefix.addr[i] = y.prefix.addr[i]
    BY <1>2, <1>3, <2>2
  <2>4. Inside(x.prefix, y.prefix)
    BY <1>1, <2>1, <2>3, SameMaskedIsInside
  <2> QED BY <1>3, <2>4 DEF Unambiguous
<1>4. ASSUME NEW y \in LinesOf("route"), Masked(x.prefix) = y.prefix
      PROVE  FALSE
  <2>1. y.prefix \in Prefixes
    BY LinesTyped DEF FileInv
  <2>2. y.prefix.bits = x.prefix.bits /\ \A i \in 1 .. x.prefix.bits : y.prefix.addr[i] = x.prefix.addr[i]
    BY <1>2, <1>4
  <2>3. Inside(y.prefix, x.prefix)
    BY <1>1, <2>1, <2>2, SameMaskedIsInside
  <2> QED BY <2>3 DEF Unambiguous
<1> QED BY <1>3, <1>4

\* The interfaces Initialize makes are those of the lines, all of them up,
LEMMA InterfacesMade ==
    ASSUME FileInv
    PROVE  /\ DOMAIN ParseLnxConfigToIpInterfaces = DOMAIN config.Interfaces
           /\ \A i \in DOMAIN config.Interfaces :
                \E line \in LinesOf("interface") :
                    /\ config.Interfaces[i] = IfaceConfig(line)
                    /\ ParseLnxConfigToIpInterfaces[i] = IfaceOf(line, "up")
           /\ \A line \in LinesOf("interface") :
                \E i \in DOMAIN config.Interfaces :
                    /\ config.Interfaces[i] = IfaceConfig(line)
                    /\ ParseLnxConfigToIpInterfaces[i] = IfaceOf(line, "up")
<1>1. Range(config.Interfaces) = {IfaceConfig(line) : line \in LinesOf("interface")}
  BY DEF FileInv
<1>2. ASSUME NEW i \in DOMAIN config.Interfaces, NEW line \in LinesOf("interface"),
             config.Interfaces[i] = IfaceConfig(line)
      PROVE  ParseLnxConfigToIpInterfaces[i] = IfaceOf(line, "up")
  <2>1. ParseLnxConfigToIpInterfaces[i] =
          [AssignedIP |-> IfaceConfig(line).AssignedIP,
           AssignedPrefix |-> IfaceConfig(line).AssignedPrefix,
           InterfaceName |-> IfaceConfig(line).Name,
           Neighbors |-> NeighborsOf(IfaceConfig(line).Name), State |-> "up"]
    BY <1>2 DEF ParseLnxConfigToIpInterfaces
  <2>2. /\ IfaceConfig(line).AssignedIP = line.prefix.addr /\ IfaceConfig(line).Name = line.name
        /\ IfaceConfig(line).AssignedPrefix = Masked(line.prefix)
    BY DEF IfaceConfig
  <2> QED BY <2>1, <2>2, NeighborsOfFile DEF IfaceOf
<1>3. \A i \in DOMAIN config.Interfaces :
        \E line \in LinesOf("interface") : config.Interfaces[i] = IfaceConfig(line)
  BY <1>1 DEF Range
<1>4. \A line \in LinesOf("interface") :
        \E i \in DOMAIN config.Interfaces : config.Interfaces[i] = IfaceConfig(line)
  BY <1>1 DEF Range
<1> QED BY <1>2, <1>3, <1>4 DEF ParseLnxConfigToIpInterfaces

\* and the entries of its table those of lines, or of all lines.
LEMMA EntriesMade ==
    ASSUME FileInv, ~UDPAddrTwice,
           NEW statics, NEW interfaces, interfaces = ParseLnxConfigToIpInterfaces,
           \/ config.StaticRoutes = {} /\ statics = {}
           \/ \E last \in config.StaticRoutes :
                statics = {StaticEntry(route, last) : route \in config.StaticRoutes}
    PROVE  /\ \A entry \in TableOf(interfaces, statics) :
                \/ \E line \in LinesOf("interface") : entry = LocalEntry(IfaceOf(line, "up"))
                \/ \E line, last \in LinesOf("route") : entry = RouteEntry(line, last)
           /\ Unambiguous =>
                /\ \A line \in LinesOf("interface") :
                     LocalEntry(IfaceOf(line, "up")) \in TableOf(interfaces, statics)
                /\ \A line \in LinesOf("route") :
                     RouteEntry(line, line) \in TableOf(interfaces, statics)
<1>1. /\ config.StaticRoutes \subseteq {RouteConfig(line) : line \in LinesOf("route")}
      /\ LinesOf("route") # {} => config.StaticRoutes # {}
  BY DEF FileInv
<1>2. \A entry \in statics : \E line, last \in LinesOf("route") : entry = RouteEntry(line, last)
  BY <1>1 DEF RouteEntry
<1>3. DOMAIN interfaces = DOMAIN config.Interfaces
  BY InterfacesMade
<1>4. ASSUME NEW entry \in TableOf(interfaces, statics)
      PROVE  \/ \E line \in LinesOf("interface") : entry = LocalEntry(IfaceOf(line, "up"))
             \/ \E line, last \in LinesOf("route") : entry = RouteEntry(line, last)
  <2>1. entry \in statics \/ \E i \in DOMAIN interfaces : entry = LocalEntry(interfaces[i])
    BY DEF TableOf
  <2>2. ASSUME NEW i \in DOMAIN interfaces, entry = LocalEntry(interfaces[i])
        PROVE  \E line \in LinesOf("interface") : entry = LocalEntry(IfaceOf(line, "up"))
    BY <1>3, <2>2, InterfacesMade
  <2> QED BY <1>2, <2>1, <2>2
<1>5. ASSUME Unambiguous, NEW line \in LinesOf("route")
      PROVE  RouteEntry(line, line) \in TableOf(interfaces, statics)
  <2>1. \A x \in LinesOf("route") : x = line
    BY <1>5 DEF Unambiguous
  <2>2. config.StaticRoutes = {RouteConfig(line)}
    BY <1>1, <2>1
  <2>3. statics = {StaticEntry(RouteConfig(line), RouteConfig(line))}
    BY <2>2
  <2> QED BY <2>3 DEF TableOf, RouteEntry
<1>6. ASSUME Unambiguous, NEW line \in LinesOf("interface")
      PROVE  LocalEntry(IfaceOf(line, "up")) \in TableOf(interfaces, statics)
  <2>1. PICK i \in DOMAIN config.Interfaces :
          config.Interfaces[i] = IfaceConfig(line) /\ interfaces[i] = IfaceOf(line, "up")
    BY InterfacesMade
  <2>2. interfaces[i].AssignedPrefix = Masked(line.prefix)
    BY <2>1 DEF IfaceOf
  <2>3. /\ config.Interfaces \in Seq(InterfaceConfigs) /\ DOMAIN config.Interfaces = 1 .. Len(config.Interfaces)
        /\ Len(config.Interfaces) \in Nat /\ i \in 1 .. Len(config.Interfaces)
        /\ Len(interfaces) = Len(config.Interfaces)
    <3>1. config.Interfaces \in Seq(InterfaceConfigs)
      BY DEF FileInv, IPConfigs
    <3> DEFINE c == config.Interfaces
    <3>2. c \in Seq(InterfaceConfigs) /\ i \in DOMAIN c /\ DOMAIN interfaces = DOMAIN c
      BY <1>3, <3>1
    <3>3. interfaces = [k \in DOMAIN c |-> interfaces[k]]
      BY DEF ParseLnxConfigToIpInterfaces
    <3> HIDE DEF c
    <3>4. DOMAIN c = 1 .. Len(c) /\ Len(c) \in Nat
      BY <3>2
    <3>5. Len(interfaces) = Len(c)
      BY <3>2, <3>3, <3>4
    <3> QED BY <3>2, <3>4, <3>5 DEF c
  <2>4. ASSUME NEW j \in i + 1 .. Len(interfaces), SameKey(interfaces[i], interfaces[j])
        PROVE  FALSE
    <3>1. j \in DOMAIN config.Interfaces /\ i # j
      BY <2>3
    <3>2. PICK other \in LinesOf("interface") :
            config.Interfaces[j] = IfaceConfig(other) /\ interfaces[j] = IfaceOf(other, "up")
      BY <3>1, InterfacesMade
    <3>3. config.Interfaces[i].UDPAddr # config.Interfaces[j].UDPAddr
      BY <3>1 DEF UDPAddrTwice
    <3>4. line # other
      BY <2>1, <3>2, <3>3
    <3>5. interfaces[j].AssignedPrefix = Masked(other.prefix)
      BY <3>2 DEF IfaceOf
    <3> QED BY <1>6, <2>2, <2>4, <3>4, <3>5, KeysOfLines DEF SameKey
  <2>5. ASSUME NEW static \in statics, SameKey(interfaces[i], static)
        PROVE  FALSE
    <3>1. PICK x \in LinesOf("route"), y \in LinesOf("route") : static = RouteEntry(x, y)
      BY <1>2
    <3>2. static.AssignedPrefix = x.prefix
      BY <3>1 DEF RouteEntry, StaticEntry, RouteConfig
    <3> QED BY <1>6, <2>2, <2>5, <3>2, KeysOfLines DEF SameKey
  <2>6. LocalEntry(interfaces[i]) \in TableOf(interfaces, statics)
    BY <1>3, <2>4, <2>5 DEF TableOf
  <2> QED BY <2>1, <2>6
<1> QED BY <1>4, <1>5, <1>6

LEMMA IfaceFields ==
    ASSUME NEW line, NEW state
    PROVE  /\ IfaceOf(line, state).InterfaceName = line.name
           /\ IfaceOf(line, state).State = state
           /\ IfaceOf(line, state).AssignedIP = line.prefix.addr
           /\ IfaceOf(line, state).AssignedPrefix = Masked(line.prefix)
           /\ \A a : a \in IfaceOf(line, state).Neighbors <=> a \in Addresses /\ IsNeighbor(a, line.name)
BY DEF IfaceOf

LEMMA StateReplaced ==
    ASSUME NEW line, NEW s, NEW state
    PROVE  [IfaceOf(line, s) EXCEPT !.State = state] = IfaceOf(line, state)
<1> DEFINE neighbors == {a \in Addresses : IsNeighbor(a, line.name)}
<1>1. ASSUME NEW n
      PROVE  [[AssignedIP |-> line.prefix.addr, AssignedPrefix |-> Masked(line.prefix),
               InterfaceName |-> line.name, Neighbors |-> n, State |-> s] EXCEPT !.State = state]
             = [AssignedIP |-> line.prefix.addr, AssignedPrefix |-> Masked(line.prefix),
                InterfaceName |-> line.name, Neighbors |-> n, State |-> state]
  OBVIOUS
<1>2. \A t : IfaceOf(line, t) =
               [AssignedIP |-> line.prefix.addr, AssignedPrefix |-> Masked(line.prefix),
                InterfaceName |-> line.name, Neighbors |-> neighbors, State |-> t]
  BY DEF IfaceOf
<1> HIDE DEF neighbors
<1> QED BY <1>1, <1>2

LEMMA InitializeNodeInv ==
    ASSUME FileInv, NodeInv, Initialize
    PROVE  FileInv' /\ NodeInv'
<1>1. UNCHANGED <<file, config>> /\ status = "reading"
  BY DEF Initialize
<1>2. /\ FileInv' /\ \A d : LinesOf(d)' = LinesOf(d)
      /\ \A a, name : IsNeighbor(a, name)' <=> IsNeighbor(a, name)
      /\ Unambiguous' <=> Unambiguous
  BY <1>1, FileStays
<1>3. CASE UDPAddrTwice
  BY <1>1, <1>2, <1>3 DEF Initialize, NodeInv
<1>4. CASE ~UDPAddrTwice
  <2>1. status' = "running" /\ Interfaces' = ParseLnxConfigToIpInterfaces
    BY <1>4 DEF Initialize
  <2>2. PICK statics :
          /\ FwdTable' = TableOf(Interfaces', statics)
          /\ \/ config.StaticRoutes = {} /\ statics = {}
             \/ \E last \in config.StaticRoutes :
                  statics = {StaticEntry(route, last) : route \in config.StaticRoutes}
    BY <1>4 DEF Initialize
  <2>3. \A i \in DOMAIN Interfaces' :
          \E line \in LinesOf("interface") : Interfaces'[i] = IfaceOf(line, "up")
    BY <2>1, InterfacesMade
  <2>4. \A line \in LinesOf("interface") :
          \E i \in DOMAIN Interfaces' : Interfaces'[i] = IfaceOf(line, "up")
    BY <2>1, InterfacesMade
  <2>5. \A line, state : IfaceOf(line, state)' = IfaceOf(line, state)
    BY <1>2 DEF IfaceOf
  <2>6. InterfacesInv'
    <3>1. \A i \in DOMAIN Interfaces' : Interfaces'[i].State = "up"
      BY <2>3, IfaceFields
    <3>2. \A i \in DOMAIN Interfaces' :
            \E line \in LinesOf("interface")', state \in {"up", "down"} :
               Interfaces'[i] = IfaceOf(line, state)'
      BY <1>2, <2>3, <2>5
    <3>3. \A line \in LinesOf("interface")' :
            \E i \in DOMAIN Interfaces' : Interfaces'[i].InterfaceName = line.name
      BY <1>2, <2>4, IfaceFields
    <3> QED BY <3>1, <3>2, <3>3 DEF InterfacesInv
  <2>7. \A line : EntryOf(line)' = LocalEntry(IfaceOf(line, "up"))
    <3>1. \A name : IsUp(name)'
      BY <2>3, IfaceFields DEF IsUp
    <3> QED BY <2>5, <3>1 DEF EntryOf, LocalEntry
  <2>8. EntriesInv'
    <3>1. /\ \A entry \in FwdTable' :
                \/ \E line \in LinesOf("interface") : entry = LocalEntry(IfaceOf(line, "up"))
                \/ \E line, last \in LinesOf("route") : entry = RouteEntry(line, last)
          /\ Unambiguous =>
                /\ \A line \in LinesOf("interface") : LocalEntry(IfaceOf(line, "up")) \in FwdTable'
                /\ \A line \in LinesOf("route") : RouteEntry(line, line) \in FwdTable'
      BY <1>4, <2>1, <2>2, EntriesMade
    <3>2. \A line, last : RouteEntry(line, last)' = RouteEntry(line, last)
      BY DEF RouteEntry, StaticEntry, RouteConfig
    <3> QED BY <1>2, <2>7, <3>1, <3>2 DEF EntriesInv
  <2> QED BY <1>2, <2>1, <2>6, <2>8 DEF NodeInv
<1> QED BY <1>3, <1>4

\* down and up change the state of every interface of the name, here and in the
\* table.
LEMMA DownOrUpNodeInv ==
    ASSUME FileInv, NodeInv, DownOrUp
    PROVE  FileInv' /\ NodeInv'
<1>1. UNCHANGED <<file, config>> /\ status = "running" /\ status' = "running"
  BY DEF DownOrUp
<1>2. /\ FileInv' /\ \A d : LinesOf(d)' = LinesOf(d)
      /\ \A a, name : IsNeighbor(a, name)' <=> IsNeighbor(a, name)
      /\ Unambiguous' <=> Unambiguous
  BY <1>1, FileStays
<1>3. InterfacesInv /\ EntriesInv
  BY <1>1 DEF NodeInv
<1>4. PICK k \in DOMAIN Interfaces, state \in {"down", "up"} :
        /\ FwdTable' = SetTableState(Interfaces[k].InterfaceName, state)
        /\ Interfaces' = [i \in DOMAIN Interfaces |->
             IF Interfaces[i].InterfaceName = Interfaces[k].InterfaceName
             THEN [Interfaces[i] EXCEPT !.State = state] ELSE Interfaces[i]]
  BY DEF DownOrUp, UpdateInterfaceState
<1> DEFINE name == Interfaces[k].InterfaceName
<1>5. \A line, s : IfaceOf(line, s)' = IfaceOf(line, s)
  BY <1>2 DEF IfaceOf
<1>6. \A line, s : [IfaceOf(line, s) EXCEPT !.State = state] = IfaceOf(line, state)
  BY StateReplaced
<1>7. \A i \in DOMAIN Interfaces :
        \E line \in LinesOf("interface"), s \in {"up", "down"} :
            /\ Interfaces[i] = IfaceOf(line, s)
            /\ Interfaces'[i] = IfaceOf(line, IF line.name = name THEN state ELSE s)
  <2> SUFFICES ASSUME NEW i \in DOMAIN Interfaces
               PROVE  \E line \in LinesOf("interface"), s \in {"up", "down"} :
                         /\ Interfaces[i] = IfaceOf(line, s)
                         /\ Interfaces'[i] = IfaceOf(line, IF line.name = name THEN state ELSE s)
    OBVIOUS
  <2>1. PICK line \in LinesOf("interface"), s \in {"up", "down"} : Interfaces[i] = IfaceOf(line, s)
    BY <1>3 DEF InterfacesInv
  <2>2. Interfaces[i].InterfaceName = line.name
    BY <2>1, IfaceFields
  <2>3. Interfaces'[i] = IF line.name = name THEN [Interfaces[i] EXCEPT !.State = state]
                         ELSE Interfaces[i]
    BY <1>4, <2>2
  <2> HIDE DEF name
  <2> QED BY <1>6, <2>1, <2>3
<1>8. DOMAIN Interfaces' = DOMAIN Interfaces
  BY <1>4
<1>9. \A i \in DOMAIN Interfaces :
        /\ Interfaces'[i].InterfaceName = Interfaces[i].InterfaceName
        /\ Interfaces'[i].State = IF Interfaces[i].InterfaceName = name THEN state
                                  ELSE Interfaces[i].State
  BY <1>7, IfaceFields
<1> HIDE DEF name
<1>10. InterfacesInv'
  <2>1. \A i \in DOMAIN Interfaces' :
          \E line \in LinesOf("interface")', s \in {"up", "down"} : Interfaces'[i] = IfaceOf(line, s)'
    BY <1>2, <1>5, <1>7, <1>8
  <2>2. \A line \in LinesOf("interface")' :
          \E i \in DOMAIN Interfaces' : Interfaces'[i].InterfaceName = line.name
    BY <1>2, <1>3, <1>8, <1>9 DEF InterfacesInv
  <2>3. \A i, j \in DOMAIN Interfaces' :
          Interfaces'[i].InterfaceName = Interfaces'[j].InterfaceName
             => Interfaces'[i].State = Interfaces'[j].State
    BY <1>3, <1>8, <1>9 DEF InterfacesInv
  <2> QED BY <2>1, <2>2, <2>3 DEF InterfacesInv
<1>11. \A n : IsUp(n)' <=> IF n = name THEN state = "up" ELSE IsUp(n)
  BY <1>8, <1>9 DEF IsUp, name
<1>12. \A line : EntryOf(line)' = IF line.name = name THEN LocalEntry(IfaceOf(line, state))
                                  ELSE EntryOf(line)
  <2>1. \A line : EntryOf(line)' = LocalEntry(IfaceOf(line, IF IsUp(line.name)' THEN "up" ELSE "down"))
    BY <1>5 DEF EntryOf, LocalEntry
  <2>2. (IF state = "up" THEN "up" ELSE "down") = state
    OBVIOUS
  <2> QED BY <1>11, <2>1, <2>2 DEF EntryOf
<1> DEFINE Changed(entry) ==
             IF entry.RouteType = "local" /\ entry.Interface.InterfaceName = name
             THEN [entry EXCEPT !.Interface.State = state] ELSE entry
<1>13. FwdTable' = {Changed(entry) : entry \in FwdTable}
  BY <1>4 DEF SetTableState, name
<1>14. \A line : Changed(EntryOf(line)) = EntryOf(line)'
  <2> SUFFICES ASSUME NEW line PROVE Changed(EntryOf(line)) = EntryOf(line)'
    OBVIOUS
  <2> DEFINE s == IF IsUp(line.name) THEN "up" ELSE "down"
             entry == LocalEntry(IfaceOf(line, s))
  <2>1. entry.RouteType = "local" /\ entry.Interface = IfaceOf(line, s)
    BY DEF LocalEntry
  <2>2. entry.Interface.InterfaceName = line.name
    BY <2>1, IfaceFields
  <2>3. [entry EXCEPT !.Interface.State = state] = LocalEntry(IfaceOf(line, state))
    <3>1. [entry EXCEPT !.Interface.State = state]
            = [entry EXCEPT !.Interface = [IfaceOf(line, s) EXCEPT !.State = state]]
      BY DEF LocalEntry
    <3>2. [entry EXCEPT !.Interface = IfaceOf(line, state)] = LocalEntry(IfaceOf(line, state))
      <4>1. /\ IfaceOf(line, state).AssignedIP = IfaceOf(line, s).AssignedIP
            /\ IfaceOf(line, state).AssignedPrefix = IfaceOf(line, s).AssignedPrefix
        BY IfaceFields
      <4> QED BY <4>1 DEF LocalEntry
    <3> QED BY <1>6, <3>1, <3>2
  <2>4. EntryOf(line) = entry
    BY DEF EntryOf
  <2> HIDE DEF entry
  <2> QED BY <1>12, <2>1, <2>2, <2>3, <2>4 DEF entry
<1>15. \A line, last : Changed(RouteEntry(line, last)) = RouteEntry(line, last)
                       /\ RouteEntry(line, last)' = RouteEntry(line, last)
  BY DEF RouteEntry, StaticEntry, RouteConfig
<1> HIDE DEF Changed
<1>16. EntriesInv'
  <2>1. ASSUME NEW entry \in FwdTable'
        PROVE  \/ \E line \in LinesOf("interface")' : entry = EntryOf(line)'
               \/ \E line, last \in LinesOf("route")' : entry = RouteEntry(line, last)'
    <3>1. PICK old \in FwdTable : entry = Changed(old)
      BY <1>13
    <3> QED BY <1>2, <1>3, <1>14, <1>15, <3>1 DEF EntriesInv
  <2>2. ASSUME Unambiguous'
        PROVE  /\ \A line \in LinesOf("interface")' : EntryOf(line)' \in FwdTable'
               /\ \A line \in LinesOf("route")' : RouteEntry(line, line)' \in FwdTable'
    <3>1. /\ \A line \in LinesOf("interface") : EntryOf(line) \in FwdTable
          /\ \A line \in LinesOf("route") : RouteEntry(line, line) \in FwdTable
      BY <1>2, <1>3, <2>2 DEF EntriesInv
    <3> QED BY <1>2, <1>13, <1>14, <1>15, <3>1
  <2> QED BY <2>1, <2>2 DEF EntriesInv
<1> QED BY <1>1, <1>2, <1>10, <1>16 DEF NodeInv

LEMMA NodeStep ==
    ASSUME FileInv, NodeInv, [Next]_vars
    PROVE  FileInv' /\ NodeInv'
<1>1. CASE RIPHandler \/ PeriodicExpiry \/ UNCHANGED vars
  <2>1. UNCHANGED <<file, config>> /\ UNCHANGED <<status, Interfaces, FwdTable>>
    BY <1>1 DEF vars, RIPHandler, PeriodicExpiry
  <2>2. /\ FileInv' /\ \A d : LinesOf(d)' = LinesOf(d)
        /\ \A a, name : IsNeighbor(a, name)' <=> IsNeighbor(a, name)
        /\ Unambiguous' <=> Unambiguous
    BY <2>1, FileStays
  <2>3. \A line, s : IfaceOf(line, s)' = IfaceOf(line, s)
    BY <2>2 DEF IfaceOf
  <2>4. \A line : EntryOf(line)' = EntryOf(line)
    BY <2>1, <2>3 DEF EntryOf, LocalEntry, IsUp
  <2>5. \A line, last : RouteEntry(line, last)' = RouteEntry(line, last)
    BY DEF RouteEntry, StaticEntry, RouteConfig
  <2>6. (InterfacesInv => InterfacesInv') /\ (EntriesInv => EntriesInv')
    BY <2>1, <2>2, <2>3, <2>4, <2>5 DEF InterfacesInv, EntriesInv
  <2> QED BY <2>1, <2>2, <2>6 DEF NodeInv
<1> QED BY <1>1, ReadLineFileInv, InitializeNodeInv, DownOrUpNodeInv DEF Next

------------------------------------------------------------------------------
(* What RIP has learnt *)

LearntEntries ==
    [AssignedIP : Addresses, AssignedPrefix : Prefixes, RouteType : {"rip"}, NextHop : Addresses]

\* A route is learnt only for an address that nothing of the file holds; its
\* prefix may hold more.
LearntInv ==
    /\ learnt # {} => status = "running"
    /\ learnt \subseteq LearntEntries
    /\ \A route \in learnt :
         /\ Contains(route.AssignedPrefix, route.AssignedIP)
         /\ \A entry \in FwdTable : ~Contains(entry.AssignedPrefix, route.AssignedIP)
    /\ \A x, y \in learnt : SameKey(x, y) => x = y

\* down and up leave the prefixes as they are.
LEMMA DownOrUpPrefixes ==
    ASSUME NodeInv, DownOrUp
    PROVE  \A entry \in FwdTable' :
             \E old \in FwdTable : entry.AssignedPrefix = old.AssignedPrefix
<1> SUFFICES ASSUME NEW entry \in FwdTable'
             PROVE  \E old \in FwdTable : entry.AssignedPrefix = old.AssignedPrefix
  OBVIOUS
<1>1. PICK k \in DOMAIN Interfaces, state \in {"down", "up"} :
        FwdTable' = SetTableState(Interfaces[k].InterfaceName, state)
  BY DEF DownOrUp, UpdateInterfaceState
<1>2. PICK old \in FwdTable : \/ entry = old
                             \/ /\ old.RouteType = "local"
                                /\ entry = [old EXCEPT !.Interface.State = state]
  BY <1>1 DEF SetTableState
<1>3. CASE old.RouteType = "local" /\ entry = [old EXCEPT !.Interface.State = state]
  <2>1. EntriesInv
    BY DEF DownOrUp, NodeInv
  <2>2. PICK line \in LinesOf("interface") : old = EntryOf(line)
    BY <1>3, <2>1 DEF EntriesInv, RouteEntry, StaticEntry
  <2>3. \E i : old = LocalEntry(i)
    BY <2>2 DEF EntryOf
  <2> QED
    BY <1>3, <2>3 DEF LocalEntry
<1> QED
  BY <1>2, <1>3

LEMMA RIPHandlerLearntInv ==
    ASSUME LearntInv, RIPHandler
    PROVE  LearntInv'
<1>1. PICK heard \in Heard :
        \/ /\ GetEntryByPrefix(heard.prefix.addr) = {}
           /\ learnt' = learnt \union {RIPEntry(heard)}
        \/ \E entry \in GetEntryByPrefix(heard.prefix.addr) \intersect learnt :
             learnt' = (learnt \ {entry}) \union {[entry EXCEPT !.NextHop = heard.from]}
  BY DEF RIPHandler
<1>2. heard.from \in Addresses /\ heard.prefix \in Prefixes /\ heard.prefix.addr \in Addresses
  BY LnxConfigAssumption DEF Prefixes
<1>3. FwdTable' = FwdTable /\ status' = "running"
  BY DEF RIPHandler
<1>4. CASE /\ GetEntryByPrefix(heard.prefix.addr) = {}
           /\ learnt' = learnt \union {RIPEntry(heard)}
  <2> DEFINE new == RIPEntry(heard)
  <2>1. /\ new \in LearntEntries /\ new.AssignedIP = heard.prefix.addr
        /\ new.AssignedPrefix = Masked(heard.prefix)
    BY <1>2, MaskedPrefix DEF RIPEntry, LearntEntries
  <2>2. Contains(new.AssignedPrefix, new.AssignedIP)
    BY <1>2, <2>1, MaskedPrefix DEF Contains
  <2>3. \A entry \in Table : ~Contains(entry.AssignedPrefix, new.AssignedIP)
    BY <1>4, <2>1 DEF GetEntryByPrefix
  <2> HIDE DEF new
  <2>4. \A x \in learnt : ~SameKey(x, new) /\ ~SameKey(new, x)
    BY <2>1, <2>2, <2>3 DEF SameKey, Table
  <2> QED
    BY <1>3, <1>4, <2>1, <2>2, <2>3, <2>4 DEF LearntInv, Table, new
<1>5. ASSUME NEW entry \in learnt,
             learnt' = (learnt \ {entry}) \union {[entry EXCEPT !.NextHop = heard.from]}
      PROVE  LearntInv'
  <2> DEFINE new == [entry EXCEPT !.NextHop = heard.from]
  <2>1. /\ new \in LearntEntries /\ new.AssignedIP = entry.AssignedIP
        /\ new.AssignedPrefix = entry.AssignedPrefix
    BY <1>2 DEF LearntInv, LearntEntries
  <2> HIDE DEF new
  <2>2. \A x \in learnt \ {entry} : ~SameKey(x, new) /\ ~SameKey(new, x)
    BY <2>1 DEF LearntInv, SameKey
  <2>3. learnt' = (learnt \ {entry}) \union {new}
    BY <1>5 DEF new
  <2> QED
    BY <1>3, <2>1, <2>2, <2>3 DEF LearntInv, SameKey
<1> QED
  BY <1>1, <1>4, <1>5

LEMMA LearntStep ==
    ASSUME NodeInv, LearntInv, [Next]_vars
    PROVE  LearntInv'
<1>1. CASE ReadLine
  BY <1>1 DEF ReadLine, LearntInv
<1>2. CASE Initialize
  BY <1>2 DEF Initialize, LearntInv
<1>3. CASE DownOrUp
  <2>1. learnt' = learnt /\ status' = status
    BY <1>3 DEF DownOrUp
  <2> QED
    BY <1>3, <2>1, DownOrUpPrefixes DEF LearntInv, SameKey
<1>4. CASE RIPHandler
  BY <1>4, RIPHandlerLearntInv
<1>5. CASE PeriodicExpiry
  <2>1. learnt' \subseteq learnt /\ UNCHANGED <<status, FwdTable>>
    BY <1>5 DEF PeriodicExpiry
  <2> QED
    BY <2>1 DEF LearntInv, SameKey
<1>6. CASE UNCHANGED vars
  BY <1>6 DEF vars, LearntInv, SameKey
<1> QED
  BY <1>1, <1>2, <1>3, <1>4, <1>5, <1>6 DEF Next

NodeInvariant == FileInv /\ NodeInv /\ LearntInv

LEMMA InitNodeInvariant == Init => NodeInvariant
BY InitFileInv DEF NodeInvariant, LearntInv, Init

LEMMA NextNodeInvariant == NodeInvariant /\ [Next]_vars => NodeInvariant'
BY NodeStep, LearntStep DEF NodeInvariant

LEMMA NodeInvGivesTypeOK ==
    ASSUME FileInv, NodeInv, LearntInv
    PROVE  TypeOK
<1>0. \A entry \in learnt :
        /\ entry.RouteType = "rip" /\ entry.NextHop \in Addresses
        /\ \A other \in Table : SameKey(entry, other) => entry = other
  BY DEF LearntInv, LearntEntries, SameKey, Table
<1>1. CASE status # "running"
  <2>1. Interfaces = <<>> /\ FwdTable = {} /\ status \in {"reading", "stopped", "running"}
    BY <1>1 DEF NodeInv
  <2> QED BY <1>0, <2>1 DEF TypeOK
<1>2. CASE status = "running"
  <2>1. InterfacesInv /\ EntriesInv
    BY <1>2 DEF NodeInv
  <2>2. ASSUME NEW i \in DOMAIN Interfaces
        PROVE  /\ \A k \in Interfaces[i].AssignedPrefix.bits + 1 .. Width :
                    Interfaces[i].AssignedPrefix.addr[k] = 0
               /\ Contains(Interfaces[i].AssignedPrefix, Interfaces[i].AssignedIP)
               /\ Interfaces[i].Neighbors \subseteq Addresses
               /\ Interfaces[i].State \in {"up", "down"}
    <3>1. PICK line \in LinesOf("interface"), state \in {"up", "down"} :
            Interfaces[i] = IfaceOf(line, state)
      BY <2>1 DEF InterfacesInv
    <3>2. line.prefix \in Prefixes
      BY LinesTyped DEF FileInv
    <3>3. /\ Masked(line.prefix).bits = line.prefix.bits /\ line.prefix.bits \in 0 .. Width
          /\ \A k \in 1 .. Width : Masked(line.prefix).addr[k]
                                    = IF k <= line.prefix.bits THEN line.prefix.addr[k] ELSE 0
          /\ Contains(Masked(line.prefix), line.prefix.addr)
      BY <3>2, MaskedPrefix DEF Contains, Prefixes
    <3>4. \A k \in line.prefix.bits + 1 .. Width : Masked(line.prefix).addr[k] = 0
      BY <3>3, WidthType
    <3> QED BY <3>1, <3>3, <3>4, IfaceFields
  <2>3. ASSUME NEW entry \in FwdTable
        PROVE  \/ entry.RouteType = "local" /\ entry.NextHop = NoAddress
               \/ entry.RouteType = "static" /\ entry.NextHop \in Addresses
    <3>1. CASE \E line \in LinesOf("interface") : entry = EntryOf(line)
      BY <3>1 DEF EntryOf, LocalEntry
    <3>2. CASE \E line, last \in LinesOf("route") : entry = RouteEntry(line, last)
      <4>1. \A last \in LinesOf("route") : last.addr \in Addresses
        BY LinesTyped DEF FileInv
      <4> QED BY <3>2, <4>1 DEF RouteEntry, StaticEntry, RouteConfig
    <3> QED BY <2>1, <3>1, <3>2 DEF EntriesInv
  <2> QED BY <1>0, <1>2, <2>2, <2>3 DEF TypeOK
<1> QED BY <1>1, <1>2

------------------------------------------------------------------------------
(* Where a packet goes *)

Plain == FileInv /\ InterfacesInv /\ EntriesInv /\ Unambiguous

\* At most one interface holds an address, and no route is as long as its.
LEMMA OneInterface ==
    ASSUME FileInv, Unambiguous, NEW address
    PROVE  /\ \A x, y \in LinesOf("interface") :
                Contains(x.prefix, address) /\ Contains(y.prefix, address) => x = y
           /\ \A x \in LinesOf("route"), y \in LinesOf("interface") :
                Contains(x.prefix, address) /\ Contains(y.prefix, address)
                   => x.prefix.bits < y.prefix.bits
<1>1. /\ \A line \in LinesOf("interface") : line.prefix \in Prefixes
      /\ \A line \in LinesOf("route") : line.prefix \in Prefixes
  BY LinesTyped DEF FileInv
<1>2. \A p \in Prefixes : p.bits \in Nat
  BY WidthType DEF Prefixes
<1>3. ASSUME NEW x \in LinesOf("interface"), NEW y \in LinesOf("interface"),
             Contains(x.prefix, address), Contains(y.prefix, address), x # y
      PROVE  FALSE
  <2>1. CASE y.prefix.bits <= x.prefix.bits
    BY <1>1, <1>3, <2>1, LongerIsInside DEF Unambiguous
  <2>2. CASE x.prefix.bits <= y.prefix.bits
    BY <1>1, <1>3, <2>2, LongerIsInside DEF Unambiguous
  <2> QED BY <1>1, <1>2, <2>1, <2>2
<1>4. ASSUME NEW x \in LinesOf("route"), NEW y \in LinesOf("interface"),
             Contains(x.prefix, address), Contains(y.prefix, address)
      PROVE  x.prefix.bits < y.prefix.bits
  <2>1. CASE y.prefix.bits <= x.prefix.bits
    BY <1>1, <1>4, <2>1, LongerIsInside DEF Unambiguous
  <2> QED BY <1>1, <1>2, <2>1
<1> QED BY <1>3, <1>4

\* The entries of the table, and what the lookups find in it.
LEMMA EntryFields ==
    ASSUME NEW line
    PROVE  /\ EntryOf(line).RouteType = "local" /\ EntryOf(line).NextHop = NoAddress
           /\ EntryOf(line).AssignedIP = line.prefix.addr
           /\ EntryOf(line).AssignedPrefix = Masked(line.prefix)
           /\ EntryOf(line).Interface = IfaceOf(line, IF IsUp(line.name) THEN "up" ELSE "down")
           /\ EntryOf(line).Interface.State = "up" <=> IsUp(line.name)
<1> DEFINE iface == IfaceOf(line, IF IsUp(line.name) THEN "up" ELSE "down")
<1>1. iface.AssignedIP = line.prefix.addr /\ iface.AssignedPrefix = Masked(line.prefix)
      /\ (iface.State = "up" <=> IsUp(line.name))
  BY IfaceFields
<1>2. EntryOf(line) = LocalEntry(iface)
  BY DEF EntryOf
<1> HIDE DEF iface
<1>3. LocalEntry(iface).RouteType = "local" /\ LocalEntry(iface).NextHop = NoAddress
      /\ LocalEntry(iface).AssignedIP = iface.AssignedIP
      /\ LocalEntry(iface).AssignedPrefix = iface.AssignedPrefix
      /\ LocalEntry(iface).Interface = iface
  BY DEF LocalEntry
<1> QED BY <1>1, <1>2, <1>3 DEF iface

LEMMA RouteFields ==
    ASSUME NEW line, NEW last
    PROVE  /\ RouteEntry(line, last).RouteType = "static"
           /\ RouteEntry(line, last).NextHop = last.addr
           /\ RouteEntry(line, last).AssignedPrefix = line.prefix
BY DEF RouteEntry, StaticEntry, RouteConfig

LEMMA TableOfLines ==
    ASSUME Plain
    PROVE  FwdTable = {EntryOf(line) : line \in LinesOf("interface")}
                        \union {RouteEntry(line, line) : line \in LinesOf("route")}
<1>1. \A line, last \in LinesOf("route") : line = last
  BY DEF Plain, Unambiguous
<1>2. \A entry \in FwdTable :
        \/ \E line \in LinesOf("interface") : entry = EntryOf(line)
        \/ \E line \in LinesOf("route") : entry = RouteEntry(line, line)
  BY <1>1 DEF Plain, EntriesInv
<1> QED BY <1>2 DEF Plain, EntriesInv

LEMMA LookUpInterfaces ==
    ASSUME Plain, NEW address \in Addresses
    PROVE  F!getInterfaceByPrefix(FwdTable, address) =
             {IfaceOf(line, "up") : line \in
                {l \in LinesOf("interface") : IsUp(l.name) /\ Contains(l.prefix, address)}}
<1>1. \A line \in LinesOf("interface") :
        ContainsAddress(EntryOf(line).AssignedPrefix, address) <=> Contains(line.prefix, address)
  <2>1. \A line \in LinesOf("interface") : line.prefix \in Prefixes
    BY LinesTyped DEF Plain, FileInv
  <2> QED BY <2>1, EntryFields, MaskedPrefix, AddressIsThere DEF ContainsAddress
<1>2. F!Local(FwdTable) = {EntryOf(line) : line \in LinesOf("interface")}
  BY TableOfLines, EntryFields, RouteFields DEF F!Local
<1>3. \A line : IsUp(line.name) => EntryOf(line).Interface = IfaceOf(line, "up")
  BY EntryFields
<1> DEFINE found(i) == \E line \in LinesOf("interface") :
                         /\ IsUp(line.name) /\ Contains(line.prefix, address)
                         /\ i = IfaceOf(line, "up")
<1>4. ASSUME NEW i PROVE i \in F!getInterfaceByPrefix(FwdTable, address) <=> found(i)
  <2>1. i \in F!getInterfaceByPrefix(FwdTable, address) <=>
          \E line \in LinesOf("interface") :
            /\ EntryOf(line).Interface.State = "up"
            /\ ContainsAddress(EntryOf(line).AssignedPrefix, address)
            /\ i = EntryOf(line).Interface
    BY <1>2 DEF F!getInterfaceByPrefix
  <2> QED BY <1>1, <1>3, <2>1, EntryFields
<1> QED BY <1>4

\* SendTo hands the packet to the one interface that holds the address.
LEMMA SendToInterface ==
    ASSUME Plain, NEW address \in Addresses
    PROVE  LET lines == {line \in LinesOf("interface") : Contains(line.prefix, address)} IN
           F!SendTo(FwdTable, address) =
             IF lines = {} THEN {F!Drop} ELSE {OverInterface(line, address) : line \in lines}
<1> DEFINE lines == {line \in LinesOf("interface") : Contains(line.prefix, address)}
           interfaces == F!getInterfaceByPrefix(FwdTable, address)
<1>1. address # NoAddress
  BY AddressIsThere
<1>2. interfaces = {IfaceOf(line, "up") : line \in {l \in lines : IsUp(l.name)}}
  <2>1. {l \in lines : IsUp(l.name)}
          = {l \in LinesOf("interface") : IsUp(l.name) /\ Contains(l.prefix, address)}
    OBVIOUS
  <2> QED BY <2>1, LookUpInterfaces
<1>3. CASE lines = {}
  BY <1>2, <1>3 DEF F!SendTo
<1>4. CASE lines # {}
  <2>1. PICK line \in lines : lines = {line}
    BY <1>4, OneInterface DEF Plain
  <2>2. {OverInterface(l, address) : l \in lines} = {OverInterface(line, address)}
    BY <2>1
  <2>3. CASE ~IsUp(line.name)
    <3>1. interfaces = {}
      BY <1>2, <2>1, <2>3
    <3>2. OverInterface(line, address) = F!Drop
      BY <2>3 DEF OverInterface
    <3> QED BY <1>4, <2>2, <3>1, <3>2 DEF F!SendTo
  <2>4. CASE IsUp(line.name)
    <3> DEFINE i == IfaceOf(line, "up")
    <3>1. interfaces = {i}
      BY <1>2, <2>1, <2>4
    <3>2. F!SendTo(FwdTable, address) = {IF address \in i.Neighbors THEN F!Send(i, address) ELSE F!Drop}
      BY <1>1, <3>1 DEF F!SendTo
    <3>3. address \in i.Neighbors <=> IsNeighbor(address, line.name)
      BY IfaceFields
    <3>4. F!Send(i, address) = [does |-> "send", over |-> line.name, from |-> line.prefix.addr,
                                to |-> address]
      BY IfaceFields DEF F!Send
    <3>5. OverInterface(line, address) = IF address \in i.Neighbors THEN F!Send(i, address) ELSE F!Drop
      BY <2>4, <3>3, <3>4 DEF OverInterface
    <3> QED BY <1>4, <2>2, <3>2, <3>5
  <2> QED BY <2>3, <2>4
<1> QED BY <1>3, <1>4

LEMMA SendOverRoute ==
    ASSUME Plain, NEW route \in LinesOf("route")
    PROVE  F!SendTo(FwdTable, route.addr) = OverRoute(route)
<1>1. route.addr \in Addresses
  BY LinesTyped DEF Plain, FileInv
<1> QED BY <1>1, SendToInterface DEF OverRoute
\* A packet for the address of an interface stays here, if that is up.
LEMMA OwnAddress ==
    ASSUME Plain, NEW address \in Addresses
    PROVE  LET own == {line \in LinesOf("interface") : line.prefix.addr = address} IN
           /\ own = {} => F!HandlePacket(FwdTable, address) = F!Forward(FwdTable, address)
           /\ \A line \in own :
                F!HandlePacket(FwdTable, address)
                  = IF IsUp(line.name) THEN {F!Deliver} ELSE {F!Drop}
<1> DEFINE own == {line \in LinesOf("interface") : line.prefix.addr = address}
           mine == F!checkIfLocalIP(FwdTable, address)
<1>1. F!Local(FwdTable) = {EntryOf(line) : line \in LinesOf("interface")}
  BY TableOfLines, EntryFields, RouteFields DEF F!Local
<1>2. mine = {EntryOf(line).Interface : line \in own}
  <2>1. \A i : i \in mine <=> \E line \in LinesOf("interface") :
                 EntryOf(line).AssignedIP = address /\ i = EntryOf(line).Interface
    BY <1>1 DEF F!checkIfLocalIP
  <2>2. \A i : i \in mine <=> \E line \in own : i = EntryOf(line).Interface
    BY <2>1, EntryFields
  <2> HIDE DEF mine
  <2> QED BY <2>2
<1>3. CASE own = {}
  <2>1. mine = {}
    BY <1>2, <1>3
  <2> QED BY <1>3, <2>1 DEF F!HandlePacket
<1>4. ASSUME NEW line \in own
      PROVE  F!HandlePacket(FwdTable, address) = IF IsUp(line.name) THEN {F!Deliver} ELSE {F!Drop}
  <2>1. \A x \in own : Contains(x.prefix, address)
    BY DEF Contains
  <2>2. own = {line}
    BY <2>1, OneInterface DEF Plain
  <2>3. mine = {EntryOf(line).Interface}
    BY <1>2, <2>2
  <2>4. F!HandlePacket(FwdTable, address)
          = {IF EntryOf(line).Interface.State = "up" THEN F!Deliver ELSE F!Drop}
    BY <2>3 DEF F!HandlePacket
  <2> QED BY <2>4, EntryFields
<1> QED BY <1>3, <1>4

\* The line an address belongs to.
LEMMA BestLine ==
    ASSUME Plain, NEW address \in Addresses
    PROVE  /\ \A line \in LinesOf("interface") :
                Contains(line.prefix, address) => BestLines(address) = {line}
           /\ \A line \in LinesOf("route") :
                /\ Contains(line.prefix, address)
                /\ \A other \in LinesOf("interface") : ~Contains(other.prefix, address)
                => BestLines(address) = {line}
           /\ (\A line \in LinesOf("interface") \union LinesOf("route") :
                ~Contains(line.prefix, address)) => BestLines(address) = {}
<1> DEFINE matching == {line \in LinesOf("interface") \union LinesOf("route") :
                          Contains(line.prefix, address)}
<1>1. BestLines(address)
        = {line \in matching : \A other \in matching : other.prefix.bits <= line.prefix.bits}
  BY DEF BestLines
<1>2. \A line \in matching : line.prefix.bits \in Nat
  <2>1. \A line \in matching : line.prefix \in Prefixes
    BY LinesTyped DEF Plain, FileInv
  <2> QED BY <2>1, WidthType DEF Prefixes
<1>3. ASSUME NEW line \in LinesOf("interface"), Contains(line.prefix, address)
      PROVE  BestLines(address) = {line}
  <2>1. line \in matching
    BY <1>3
  <2>2. \A other \in matching : other = line \/ other.prefix.bits < line.prefix.bits
    BY <1>3, OneInterface DEF Plain
  <2> HIDE DEF matching
  <2>3. \A other \in matching : other.prefix.bits <= line.prefix.bits
    BY <1>2, <2>1, <2>2
  <2>4. \A other \in matching : line.prefix.bits <= other.prefix.bits => other = line
    BY <1>2, <2>1, <2>2
  <2> QED BY <1>1, <2>1, <2>3, <2>4
<1>4. ASSUME NEW line \in LinesOf("route"), Contains(line.prefix, address),
             \A other \in LinesOf("interface") : ~Contains(other.prefix, address)
      PROVE  BestLines(address) = {line}
  <2>1. matching = {line}
    BY <1>4 DEF Plain, Unambiguous
  <2> HIDE DEF matching
  <2> QED BY <1>1, <1>2, <2>1
<1>5. ASSUME \A line \in LinesOf("interface") \union LinesOf("route") :
               ~Contains(line.prefix, address)
      PROVE  BestLines(address) = {}
  BY <1>1, <1>5
<1> QED BY <1>3, <1>4, <1>5

\* Where no interface that is up holds the address, the entries that hold it
\* are those of its interface, which lead nowhere, and those of the route.
LEMMA LookUpRoutes ==
    ASSUME Plain, NEW address \in Addresses
    PROVE  LET matching == {line \in LinesOf("interface") : Contains(line.prefix, address)}
               routes == {line \in LinesOf("route") : Contains(line.prefix, address)}
           IN  F!getNextHopbyDestIP(FwdTable, address)
                 = IF matching = {} /\ routes = {} THEN {NoAddress}
                   ELSE {NoAddress : line \in matching} \union {line.addr : line \in routes}
<1> DEFINE matching == {line \in LinesOf("interface") : Contains(line.prefix, address)}
           routes == {line \in LinesOf("route") : Contains(line.prefix, address)}
           entries == {entry \in FwdTable : ContainsAddress(entry.AssignedPrefix, address)}
<1>1. \A line \in LinesOf("interface") :
        ContainsAddress(EntryOf(line).AssignedPrefix, address) <=> Contains(line.prefix, address)
  <2>1. \A line \in LinesOf("interface") : line.prefix \in Prefixes
    BY LinesTyped DEF Plain, FileInv
  <2> QED BY <2>1, EntryFields, MaskedPrefix, AddressIsThere DEF ContainsAddress
<1>2. \A line \in LinesOf("route") :
        ContainsAddress(RouteEntry(line, line).AssignedPrefix, address)
           <=> Contains(line.prefix, address)
  BY RouteFields, AddressIsThere DEF ContainsAddress
<1>3. \A entry : entry \in entries <=>
        \/ \E line \in matching : entry = EntryOf(line)
        \/ \E line \in routes : entry = RouteEntry(line, line)
  BY <1>1, <1>2, TableOfLines
<1>4. F!getNextHopbyDestIP(FwdTable, address)
        = IF entries = {} THEN {NoAddress} ELSE {entry.NextHop : entry \in entries}
  BY DEF F!getNextHopbyDestIP
<1> HIDE DEF entries
<1>5. entries = {} <=> matching = {} /\ routes = {}
  BY <1>3
<1>6. \A hop : (\E entry \in entries : hop = entry.NextHop) <=>
                 \/ \E line \in matching : hop = NoAddress
                 \/ \E line \in routes : hop = line.addr
  <2>1. /\ \A line : EntryOf(line).NextHop = NoAddress
        /\ \A line : RouteEntry(line, line).NextHop = line.addr
    BY EntryFields, RouteFields
  <2> HIDE DEF matching, routes
  <2> QED BY <1>3, <2>1
<1>7. {entry.NextHop : entry \in entries}
        = {NoAddress : line \in matching} \union {line.addr : line \in routes}
  BY <1>6
<1> QED BY <1>4, <1>5, <1>7

\* The packet of another host, by the lines that hold its address.
LEMMA ForwardOverInterface ==
    ASSUME Plain, NEW address \in Addresses,
           NEW line \in LinesOf("interface"), Contains(line.prefix, address)
    PROVE  /\ IsUp(line.name) =>
                F!Forward(FwdTable, address) = {OverInterface(line, address)}
           /\ ~IsUp(line.name) =>
                F!Forward(FwdTable, address) \subseteq {F!Drop} \union
                    UNION {OverRoute(route) : route \in LinesOf("route")}
<1> DEFINE lines == {l \in LinesOf("interface") : Contains(l.prefix, address)}
           interfaces == F!getInterfaceByPrefix(FwdTable, address)
<1>1. lines = {line}
  BY OneInterface DEF Plain
<1>2. interfaces = {IfaceOf(l, "up") : l \in {x \in lines : IsUp(x.name)}}
  <2>1. {x \in lines : IsUp(x.name)}
          = {l \in LinesOf("interface") : IsUp(l.name) /\ Contains(l.prefix, address)}
    OBVIOUS
  <2> QED BY <2>1, LookUpInterfaces
<1>3. F!Forward(FwdTable, address)
        = UNION {F!SendTo(FwdTable, next) : next \in F!NextIP(FwdTable, address)}
  BY DEF F!Forward
<1>4. CASE IsUp(line.name)
  <2>1. F!NextIP(FwdTable, address) = {address}
    BY <1>1, <1>2, <1>4 DEF F!NextIP
  <2>2. F!SendTo(FwdTable, address) = {OverInterface(l, address) : l \in lines}
    BY <1>1, SendToInterface
  <2> QED BY <1>1, <1>3, <1>4, <2>1, <2>2
<1>5. CASE ~IsUp(line.name)
  <2>1. F!NextIP(FwdTable, address) = F!getNextHopbyDestIP(FwdTable, address)
    BY <1>1, <1>2, <1>5 DEF F!NextIP
  <2>2. \A next \in F!NextIP(FwdTable, address) :
          next = NoAddress \/ \E route \in LinesOf("route") : next = route.addr
    BY <2>1, LookUpRoutes
  <2>3. F!SendTo(FwdTable, NoAddress) = {F!Drop}
    BY DEF F!SendTo
  <2>4. \A next \in F!NextIP(FwdTable, address) :
          F!SendTo(FwdTable, next) \subseteq {F!Drop} \union
              UNION {OverRoute(route) : route \in LinesOf("route")}
    BY <2>2, <2>3, SendOverRoute
  <2> QED BY <1>3, <1>5, <2>4
<1> QED BY <1>4, <1>5

LEMMA ForwardOverRoute ==
    ASSUME Plain, NEW address \in Addresses,
           \A line \in LinesOf("interface") : ~Contains(line.prefix, address)
    PROVE  /\ \A route \in LinesOf("route") :
                Contains(route.prefix, address)
                   => F!Forward(FwdTable, address) = OverRoute(route)
           /\ (\A route \in LinesOf("route") : ~Contains(route.prefix, address))
                   => F!Forward(FwdTable, address) = {F!Drop}
<1>1. F!NextIP(FwdTable, address) = F!getNextHopbyDestIP(FwdTable, address)
  BY LookUpInterfaces DEF F!NextIP
<1>2. F!Forward(FwdTable, address)
        = UNION {F!SendTo(FwdTable, next) : next \in F!NextIP(FwdTable, address)}
  BY DEF F!Forward
<1>3. ASSUME NEW route \in LinesOf("route"), Contains(route.prefix, address)
      PROVE  F!Forward(FwdTable, address) = OverRoute(route)
  <2>1. {r \in LinesOf("route") : Contains(r.prefix, address)} = {route}
    BY <1>3 DEF Plain, Unambiguous
  <2>2. F!NextIP(FwdTable, address) = {route.addr}
    BY <1>1, <2>1, LookUpRoutes
  <2> QED BY <1>2, <2>2, SendOverRoute
<1>4. ASSUME \A route \in LinesOf("route") : ~Contains(route.prefix, address)
      PROVE  F!Forward(FwdTable, address) = {F!Drop}
  <2>1. F!NextIP(FwdTable, address) = {NoAddress}
    BY <1>1, <1>4, LookUpRoutes
  <2>2. F!SendTo(FwdTable, NoAddress) = {F!Drop}
    BY DEF F!SendTo
  <2> QED BY <1>2, <2>1, <2>2
<1> QED BY <1>3, <1>4

\* The two lookups and the order in which HandlePacket tries them make up for
\* the longest match that the code does not look for.
LEMMA PlainForwards ==
    ASSUME Plain, NEW address \in Addresses
    PROVE  LET results == F!HandlePacket(FwdTable, address)
               lines == BestLines(address)
           IN  IF lines = {} THEN results = {F!Drop}
               ELSE \A line \in lines :
                      \/ results = Configured(address, line)
                      \/ /\ line.directive = "interface" /\ ~IsUp(line.name)
                         /\ line.prefix.addr # address
                         /\ results \subseteq {F!Drop} \union
                               UNION {OverRoute(route) : route \in LinesOf("route")}
<1> DEFINE results == F!HandlePacket(FwdTable, address)
           isOwn(line) == line.prefix.addr = address
<1>1. /\ \A line \in LinesOf("interface") : line.directive = "interface"
      /\ \A line \in LinesOf("route") : line.directive = "route"
  BY DEF LinesOf
<1>2. \A line \in LinesOf("interface") : isOwn(line) => Contains(line.prefix, address)
  BY DEF Contains
<1>3. ASSUME NEW line \in LinesOf("interface"), isOwn(line)
      PROVE  BestLines(address) = {line} /\ results = Configured(address, line)
  <2>1. results = IF IsUp(line.name) THEN {F!Deliver} ELSE {F!Drop}
    BY <1>3, OwnAddress
  <2>2. Configured(address, line) = IF IsUp(line.name) THEN {F!Deliver} ELSE {F!Drop}
    BY <1>1, <1>3 DEF Configured
  <2> QED BY <1>2, <1>3, <2>1, <2>2, BestLine
<1>4. CASE \E line \in LinesOf("interface") : isOwn(line)
  <2>1. PICK line \in LinesOf("interface") :
               BestLines(address) = {line} /\ results = Configured(address, line)
    BY <1>3, <1>4
  <2> HIDE DEF results
  <2>2. BestLines(address) # {} /\ \A x \in BestLines(address) : results = Configured(address, x)
    BY <2>1
  <2> QED BY <2>2 DEF results
<1>5. CASE \A line \in LinesOf("interface") : ~isOwn(line)
  <2>1. results = F!Forward(FwdTable, address)
    BY <1>5, OwnAddress
  <2>2. ASSUME NEW line \in LinesOf("interface"), Contains(line.prefix, address)
        PROVE  /\ BestLines(address) = {line} /\ line.prefix.addr # address
               /\ line.directive = "interface"
               /\ \/ results = Configured(address, line)
                  \/ /\ ~IsUp(line.name)
                     /\ results \subseteq {F!Drop} \union
                           UNION {OverRoute(route) : route \in LinesOf("route")}
    <3>1. Configured(address, line) = {OverInterface(line, address)}
      BY <1>1, <1>5 DEF Configured
    <3>2. BestLines(address) = {line}
      BY <2>2, BestLine
    <3> QED BY <1>1, <1>5, <2>1, <2>2, <3>1, <3>2, ForwardOverInterface
  <2>3. ASSUME \A line \in LinesOf("interface") : ~Contains(line.prefix, address),
               NEW route \in LinesOf("route"), Contains(route.prefix, address)
        PROVE  BestLines(address) = {route} /\ results = Configured(address, route)
    <3>1. Configured(address, route) = OverRoute(route)
      BY <1>1 DEF Configured
    <3> QED BY <2>1, <2>3, <3>1, BestLine, ForwardOverRoute
  <2>4. ASSUME \A line \in LinesOf("interface") \union LinesOf("route") :
                 ~Contains(line.prefix, address)
        PROVE  BestLines(address) = {} /\ results = {F!Drop}
    BY <2>1, <2>4, BestLine, ForwardOverRoute
  <2> HIDE DEF results
  <2>5. CASE \E line \in LinesOf("interface") : Contains(line.prefix, address)
    <3>1. PICK line \in LinesOf("interface") : Contains(line.prefix, address)
      BY <2>5
    <3>2. /\ BestLines(address) = {line} /\ line.prefix.addr # address
          /\ line.directive = "interface"
          /\ \/ results = Configured(address, line)
             \/ /\ ~IsUp(line.name)
                /\ results \subseteq {F!Drop} \union
                      UNION {OverRoute(route) : route \in LinesOf("route")}
      BY <2>2, <3>1
    <3> QED BY <3>2 DEF results
  <2>6. CASE \A line \in LinesOf("interface") : ~Contains(line.prefix, address)
    <3>1. CASE \E route \in LinesOf("route") : Contains(route.prefix, address)
      <4>1. PICK route \in LinesOf("route") :
                   BestLines(address) = {route} /\ results = Configured(address, route)
        BY <2>3, <2>6, <3>1
      <4> QED BY <4>1 DEF results
    <3>2. CASE \A route \in LinesOf("route") : ~Contains(route.prefix, address)
      <4>1. BestLines(address) = {} /\ results = {F!Drop}
        BY <2>4, <2>6, <3>2
      <4> QED BY <4>1 DEF results
    <3> QED BY <3>1, <3>2
  <2> QED BY <2>5, <2>6
<1> QED BY <1>4, <1>5

\* Where no learnt route holds an address, or an interface that is up does, a
\* packet for it goes where it went without RIP.
LEMMA LearntMakesNoDifference ==
    ASSUME LearntInv, NEW address,
           \/ \A route \in learnt : ~Contains(route.AssignedPrefix, address)
           \/ F!getInterfaceByPrefix(FwdTable, address) # {}
    PROVE  F!Forward(Table, address) = F!Forward(FwdTable, address)
<1>1. F!Local(Table) = F!Local(FwdTable)
  BY DEF F!Local, Table, LearntInv, LearntEntries
<1>2. \A a : F!getInterfaceByPrefix(Table, a) = F!getInterfaceByPrefix(FwdTable, a)
  BY <1>1 DEF F!getInterfaceByPrefix
<1>3. \A a : F!SendTo(Table, a) = F!SendTo(FwdTable, a)
  BY <1>2 DEF F!SendTo
<1>4. F!NextIP(Table, address) = F!NextIP(FwdTable, address)
  <2>1. CASE F!getInterfaceByPrefix(FwdTable, address) # {}
    BY <1>2, <2>1 DEF F!NextIP
  <2>2. CASE \A route \in learnt : ~Contains(route.AssignedPrefix, address)
    <3>1. {entry \in Table : ContainsAddress(entry.AssignedPrefix, address)}
            = {entry \in FwdTable : ContainsAddress(entry.AssignedPrefix, address)}
      BY <2>2 DEF Table, ContainsAddress
    <3>2. F!getNextHopbyDestIP(Table, address) = F!getNextHopbyDestIP(FwdTable, address)
      BY <3>1 DEF F!getNextHopbyDestIP
    <3> QED
      BY <1>2, <3>2 DEF F!NextIP
  <2> QED
    BY <2>1, <2>2
<1> QED
  BY <1>3, <1>4 DEF F!Forward

LEMMA HandledAsWithoutRIP ==
    ASSUME Plain, LearntInv, NEW address \in Addresses, NotUpToRIP(address)
    PROVE  F!HandlePacket(Table, address) = F!HandlePacket(FwdTable, address)
<1>1. F!checkIfLocalIP(Table, address) = F!checkIfLocalIP(FwdTable, address)
  <2>1. F!Local(Table) = F!Local(FwdTable)
    BY DEF F!Local, Table, LearntInv, LearntEntries
  <2> QED
    BY <2>1 DEF F!checkIfLocalIP
<1>2. CASE \E line \in LinesOf("interface") : line.prefix.addr = address
  <2>1. PICK line \in LinesOf("interface") : line.prefix.addr = address
    BY <1>2
  <2>2. EntryOf(line) \in FwdTable /\ EntryOf(line).RouteType = "local"
        /\ EntryOf(line).AssignedIP = address
    BY <2>1, EntryFields DEF Plain, EntriesInv
  <2>3. F!checkIfLocalIP(FwdTable, address) # {}
    BY <2>2 DEF F!checkIfLocalIP, F!Local
  <2> QED
    BY <1>1, <2>3 DEF F!HandlePacket
<1>3. CASE \E line \in LinesOf("interface") : IsUp(line.name) /\ Contains(line.prefix, address)
  <2>1. F!getInterfaceByPrefix(FwdTable, address) # {}
    BY <1>3, LookUpInterfaces
  <2>2. F!Forward(Table, address) = F!Forward(FwdTable, address)
    BY <2>1, LearntMakesNoDifference
  <2> QED
    BY <1>1, <2>2 DEF F!HandlePacket
<1>4. CASE \A route \in learnt : ~Contains(route.AssignedPrefix, address)
  <2>1. F!Forward(Table, address) = F!Forward(FwdTable, address)
    BY <1>4, LearntMakesNoDifference
  <2> QED
    BY <1>1, <2>1 DEF F!HandlePacket
<1> QED
  BY <1>2, <1>3, <1>4 DEF NotUpToRIP

LEMMA NodeInvForwards ==
    ASSUME NodeInvariant
    PROVE  ForwardsAsConfigured
<1> SUFFICES ASSUME status = "running", Unambiguous
             PROVE  ForwardsAsConfigured
  BY DEF ForwardsAsConfigured
<1>1. Plain /\ LearntInv
  BY DEF Plain, NodeInv, NodeInvariant
<1> QED BY <1>1, PlainForwards, HandledAsWithoutRIP DEF ForwardsAsConfigured

------------------------------------------------------------------------------
(* RIP *)

\* Whatever a table of local entries passes on goes to the address itself, over
\* an interface that has it.
LEMMA ForwardOverLocal ==
    ASSUME NEW table \in SUBSET LocalEntries, NEW address,
           NEW result \in F!Forward(table, address), result # F!Drop
    PROVE  \E entry \in table :
             /\ address \in entry.Interface.Neighbors
             /\ result.to = address /\ result.over = entry.Interface.InterfaceName
<1>1. PICK nextIP \in F!NextIP(table, address) : result \in F!SendTo(table, nextIP)
  BY DEF F!Forward
<1>2. nextIP # NoAddress
  BY <1>1 DEF F!SendTo
<1>3. nextIP = address
  <2>1. \A entry \in table : entry.NextHop = NoAddress
    BY DEF LocalEntries
  <2> QED
    BY <1>1, <1>2, <2>1 DEF F!NextIP, F!getNextHopbyDestIP
<1>4. PICK i \in F!getInterfaceByPrefix(table, address) :
        address \in i.Neighbors /\ result = F!Send(i, address)
  BY <1>1, <1>2, <1>3 DEF F!SendTo
<1>5. PICK entry \in table : i = entry.Interface
  BY <1>4 DEF F!getInterfaceByPrefix, F!Local
<1> QED
  BY <1>4, <1>5 DEF F!Send

\* A route learnt for what no network of the node holds does not hold a
\* neighbor on such a network, unless it holds the network.
LEMMA LearntBesideNetworks ==
    ASSUME NodeInvariant, status = "running", LinesOf("route") = {},
           \A route \in learnt, network \in Networks : ~Inside(network, route.AssignedPrefix),
           NEW network \in Networks, NEW address, Contains(network, address)
    PROVE  \A route \in learnt : ~Contains(route.AssignedPrefix, address)
<1> SUFFICES ASSUME NEW route \in learnt, Contains(route.AssignedPrefix, address)
             PROVE  FALSE
  OBVIOUS
<1> DEFINE p == route.AssignedPrefix
<1>1. /\ p \in Prefixes /\ Contains(p, route.AssignedIP)
      /\ \A entry \in FwdTable : ~Contains(entry.AssignedPrefix, route.AssignedIP)
  BY DEF NodeInvariant, LearntInv, LearntEntries
<1>2. PICK entry \in FwdTable : network = entry.AssignedPrefix
  BY DEF Networks, F!Local
<1>3. network \in Prefixes
  <2>1. PICK line \in LinesOf("interface") : entry = EntryOf(line)
    BY DEF NodeInvariant, NodeInv, EntriesInv
  <2>2. line.prefix \in Prefixes
    BY LinesTyped DEF NodeInvariant, FileInv
  <2> QED
    BY <1>2, <2>1, <2>2, EntryFields, MaskedPrefix
<1>4. ~Contains(network, route.AssignedIP) /\ ~Inside(network, p)
  BY <1>1, <1>2
<1>5. p.bits \in Nat /\ network.bits \in Nat
  BY <1>1, <1>3, WidthType DEF Prefixes
<1> HIDE DEF p
<1>6. CASE p.bits <= network.bits
  BY <1>1, <1>3, <1>4, <1>6, LongerIsInside DEF p
<1>7. CASE network.bits <= p.bits
  <2>1. \A i \in 1 .. network.bits : i \in 1 .. p.bits
    BY <1>5, <1>7
  <2>2. \A i \in 1 .. network.bits : network.addr[i] = route.AssignedIP[i]
    BY <1>1, <2>1 DEF Contains, p
  <2> QED
    BY <1>4, <2>2 DEF Contains
<1> QED
  BY <1>5, <1>6, <1>7

LEMMA TableRIPStaysOnLink ==
    ASSUME TableInv, NodeInvariant
    PROVE  RIPStaysOnLink
<1> SUFFICES ASSUME status = "running", LinesOf("route") = {},
                    \A route \in learnt, network \in Networks :
                        ~Inside(network, route.AssignedPrefix),
                    NEW i \in DOMAIN RIPNeighbors,
                    NEW network \in Networks, Contains(network, RIPNeighbors[i]),
                    NEW result \in F!Forward(Table, RIPNeighbors[i]), result # F!Drop
             PROVE  result.to = RIPNeighbors[i] /\ IsNeighbor(result.to, result.over)
  BY DEF RIPStaysOnLink
<1>0. result \in F!Forward(FwdTable, RIPNeighbors[i])
  <2>1. \A route \in learnt : ~Contains(route.AssignedPrefix, RIPNeighbors[i])
    BY LearntBesideNetworks
  <2> QED
    BY <2>1, LearntMakesNoDifference DEF NodeInvariant
<1>1. \A entry \in FwdTable : entry \in LocalEntries /\ OwnNeighbors(entry.Interface)
  BY DEF TableInv
<1>2. PICK entry \in FwdTable :
        /\ RIPNeighbors[i] \in entry.Interface.Neighbors
        /\ result.to = RIPNeighbors[i] /\ result.over = entry.Interface.InterfaceName
  <2>1. FwdTable \in SUBSET LocalEntries
    BY <1>1
  <2> QED
    BY <1>0, <2>1, ForwardOverLocal
<1> QED
  BY <1>1, <1>2 DEF OwnNeighbors

\* Whatever the lines of the file and in whatever order, with its interfaces
\* down or up, whatever RIPHandler has learnt (rip.go:218) and PeriodicExpiry
\* removed: a node without static routes sends its RIP packets for a neighbor on
\* one of its networks to that neighbor, over an interface the file gives it, or
\* not at all (cmd/vrouter/main.go:39, link.go:72, network.go:303), unless a route
\* has been learnt whose prefix holds a whole network of the node.
THEOREM RIPOverOwnLinks == Spec => []RIPStaysOnLink
<1>1. Init => ConfigInv /\ TableInv /\ NodeInvariant
  BY InitConfigInv, InitNodeInvariant
<1>2. ConfigInv /\ TableInv /\ NodeInvariant /\ [Next]_vars
        => (ConfigInv /\ TableInv /\ NodeInvariant)'
  BY NextTableInv, NextNodeInvariant
<1>3. TableInv /\ NodeInvariant => RIPStaysOnLink
  BY TableRIPStaysOnLink
<1> QED
  BY <1>1, <1>2, <1>3, PTL DEF Spec

------------------------------------------------------------------------------
(* Types and configuration *)

\* What ParseConfig (lnxconfig.go), ParseLnxConfigToIpInterfaces (link.go:70) and
\* InitNetworkLayer (network.go:66) make of a file of any length is typed:
\* interfaces on masked prefixes that hold their address, entries that lead to
\* an interface or to a next hop.
THEOREM NodeIsTyped == Spec => []TypeOK
<1>1. NodeInvariant => TypeOK
  BY NodeInvGivesTypeOK DEF NodeInvariant
<1> QED BY <1>1, InitNodeInvariant, NextNodeInvariant, PTL DEF Spec

\* Whatever the file and whatever the down and up commands that followed:
\* HandlePacket (network.go:195), with lookups that take any match
\* (network.go:93-133), sends a packet where the line with the longest prefix
\* says, if the file says of each address where it goes.  Only for an interface
\* that is down may the route take it.
THEOREM ForwardsAsTheFileSays == Spec => []ForwardsAsConfigured
<1>1. NodeInvariant => ForwardsAsConfigured
  BY NodeInvForwards
<1> QED BY <1>1, InitNodeInvariant, NextNodeInvariant, PTL DEF Spec
==============================================================================
