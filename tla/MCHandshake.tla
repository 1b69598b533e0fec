----------------------------- MODULE MCHandshake -----------------------------
(* The constants TLC checks TcpHandshake with.  Hosts and ports are model       *)
(* values; the Server listens on Http, and in one run both do.  Nobody listens  *)
(* on Ssh.                                                                      *)
EXTENDS TcpHandshake, TLC

CONSTANTS Client, Server, Http, Ssh, Eph1, Eph2

MCHosts == {Client, Server}
MCPorts == {Http, Ssh, Eph1, Eph2}
EphemeralPort == {Eph1}
TwoPorts == {Eph1, Eph2}
\* Nothing tells the ephemeral ports apart.
EphemeralSymmetry == Permutations(TwoPorts)
MCSeqNums == {3, 7}
\* The initial sequence number 7 wraps.
MCSeqSpace == 8

ServerListens == (Client :> {}) @@ (Server :> {Http})
BothListen == (Client :> {Http}) @@ (Server :> {Http})
MCDialled == (Client :> {Http, Ssh}) @@ (Server :> {Http, Ssh})
OneListen == (Client :> 1) @@ (Server :> 1)
TwoListens == (Client :> 0) @@ (Server :> 2)
OneConnect == (Client :> 1) @@ (Server :> 1)
TwoConnects == (Client :> 2) @@ (Server :> 0)
==============================================================================
