----------------------------- MODULE MCLnxConfig ------------------------------
(* The lines TLC makes files of: addresses of three bits, a node with up to   *)
(* two interfaces on /2 networks, their neighbors, and routes; and what other *)
(* routers advertise to it.                                                   *)
EXTENDS LnxConfig

Addr(n) == <<n \div 4, (n \div 2) % 2, n % 2>>
Net(n, bits) == [addr |-> Addr(n), bits |-> bits]
InterfaceLine(name, prefix, udp) ==
    [directive |-> "interface", name |-> name, prefix |-> prefix, udp |-> udp]
NeighborLine(n, name) == [directive |-> "neighbor", addr |-> Addr(n), name |-> name]
RouteLine(prefix, n) == [directive |-> "route", prefix |-> prefix, addr |-> Addr(n)]

\* With mistakes: an interface that has the UDP address and holds the prefix of
\* another, a neighbor on the wrong interface.
MCLines ==
    {InterfaceLine("if0", Net(1, 2), "udp0"), InterfaceLine("if1", Net(3, 2), "udp1"),
     InterfaceLine("if2", Net(1, 1), "udp1"),
     NeighborLine(0, "if0"), NeighborLine(2, "if1"), NeighborLine(2, "if0"),
     RouteLine(Net(0, 0), 0), RouteLine(Net(6, 2), 2),
     [directive |-> "rip advertise-to", addr |-> Addr(2)],
     [directive |-> "rip originate", prefix |-> Net(3, 2)],
     [directive |-> "malformed"]}

\* A network of the node, one next to it, and all addresses.
MCHeard == [from : {Addr(0), Addr(2)}, prefix : {Net(2, 2), Net(6, 2), Net(4, 0)}]
==============================================================================
