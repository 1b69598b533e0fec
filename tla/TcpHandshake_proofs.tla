------------------------- MODULE TcpHandshake_proofs --------------------------
(***************************************************************************)
(* Handshakes, for any number of hosts and ports, whatever is lost, closed *)
(* or given up in between and however the goroutines interleave: a socket  *)
(* that is ESTABLISHED has another end that agrees with it on the          *)
(* connection and on both initial sequence numbers, and TcpHandler finds   *)
(* it in SocketTable, unless its port has been listened on twice.          *)
(*                                                                         *)
(* Both need that getUnusedPort returns no port its host listens on, which *)
(* the code leaves to chance.                                              *)
(***************************************************************************)
EXTENDS TcpHandshake, SequenceTheorems, TLAPS

DistinctPorts == \A h \in Hosts : Listening[h] \intersect EphemeralPorts = {}

InTable(h, i) ==
    /\ socket[h][i].Conn \in DOMAIN SocketTable[h]
    /\ SocketTable[h][socket[h][i].Conn] = i

------------------------------------------------------------------------------
(* Types *)

ListenerRecords ==
    [PortNumber : Ports, pc : {"syn", "insert", "synAck", "assign", "ack"}, id : Nat]
Handing == [to : {"socket", "listener"}, id : Nat, packet : Packets]

Typed ==
    /\ DOMAIN ListenersTable = Hosts /\ DOMAIN SocketTable = Hosts
    /\ listener \in [Hosts -> Seq(ListenerRecords)]
    /\ socket \in [Hosts -> Seq(SocketRecords)]
    /\ loop \in [Hosts -> {Idle} \union Handing]
    /\ net \in [Hosts -> Seq(Packets)]

\* Tables, channels and VAccept name sockets and listeners that exist.
References ==
    \A h \in Hosts :
        /\ DOMAIN ListenersTable[h] \subseteq Ports
        /\ \A port \in DOMAIN ListenersTable[h] :
             ListenersTable[h][port] \in DOMAIN listener[h]
        /\ DOMAIN SocketTable[h] \subseteq Conns
        /\ \A conn \in DOMAIN SocketTable[h] :
             /\ SocketTable[h][conn] \in DOMAIN socket[h]
             /\ socket[h][SocketTable[h][conn]].Conn = conn
        /\ \A k \in DOMAIN listener[h] :
             listener[h][k].pc # "syn" => listener[h][k].id \in DOMAIN socket[h]
        /\ loop[h].to = "socket" => loop[h].id \in DOMAIN socket[h]
        /\ loop[h].to = "listener" => loop[h].id \in DOMAIN listener[h]

------------------------------------------------------------------------------
(* Who has which port *)

\* A listener's VAccept and its packets are of its port.
ListenersPorts ==
    \A h \in Hosts :
        /\ \A port \in DOMAIN ListenersTable[h] :
             listener[h][ListenersTable[h][port]].PortNumber = port
        /\ \A k \in DOMAIN listener[h] :
             /\ listener[h][k].PortNumber \in Listening[h]
             /\ listener[h][k].pc # "syn" =>
                  LET s == socket[h][listener[h][k].id]
                  IN /\ s.by = "VAccept" /\ s.pc = "VAccept"
                     /\ s.Conn.LocalPort = listener[h][k].PortNumber
        /\ loop[h].to = "listener" =>
             listener[h][loop[h].id].PortNumber = loop[h].packet.DstPort

\* Each VAccept has a socket of its own, whether or not their ports differ.
OwnSockets ==
    \A h \in Hosts : \A k, l \in DOMAIN listener[h] :
        listener[h][k].pc # "syn" /\ listener[h][l].pc # "syn" =>
            (listener[h][k].id = listener[h][l].id => k = l)

\* VConnect's end of a connection has an ephemeral port, VAccept's one that is
\* listened on; a packet is handed to the socket of its connection.
SocketsPorts ==
    \A h \in Hosts :
        /\ \A i \in DOMAIN socket[h] :
             socket[h][i].Conn.LocalPort \in
                IF socket[h][i].by = "VConnect" THEN EphemeralPorts ELSE Listening[h]
        /\ loop[h].to = "socket" => socket[h][loop[h].id].Conn = ConnOf(loop[h].packet)

\* Of both calls' sockets, the established ones are those that HandleConn
\* receives for.
EstablishedAreHandled ==
    \A h \in Hosts : \A i \in DOMAIN socket[h] :
        Established(h, i) <=> socket[h][i].pc = "HandleConn"

EndsInv ==
    /\ Typed /\ References /\ ListenersPorts /\ OwnSockets /\ SocketsPorts
    /\ EstablishedAreHandled

------------------------------------------------------------------------------
(* Who is in SocketTable *)

\* A VConnect that has not given up has its socket in the table.
ConnectingInTable ==
    \A h \in Hosts : \A i \in DOMAIN socket[h] :
        socket[h][i].by = "VConnect" /\ socket[h][i].pc # "failed" => InTable(h, i)

\* A VAccept that waits for the ACK has its socket in the table; nobody has
\* established a connection that it is about to enter, or to make.
AcceptedInTable(h, port) ==
    /\ \A i \in DOMAIN socket[h] :
         socket[h][i].by = "VAccept" /\ socket[h][i].Conn.LocalPort = port =>
            (Established(h, i) => InTable(h, i))
    /\ \A k \in DOMAIN listener[h] :
         listener[h][k].PortNumber = port /\ listener[h][k].pc # "syn" =>
            LET i == listener[h][k].id
            IN /\ listener[h][k].pc # "insert" => InTable(h, i)
               /\ listener[h][k].pc = "insert" =>
                    \A j \in DOMAIN socket[h] :
                        Established(h, j) => socket[h][j].Conn # socket[h][i].Conn
    /\ loop[h].to = "listener" /\ loop[h].packet.DstPort = port =>
         \A j \in DOMAIN socket[h] :
            Established(h, j) => socket[h][j].Conn # ConnOf(loop[h].packet)

\* Where a port is listened on again, the VAccept of the listener before may be
\* about to enter what the next one has established meanwhile.
AcceptingInTable ==
    \A h \in Hosts : \A port \in Ports : ListenedOnOnce(h, port) => AcceptedInTable(h, port)

------------------------------------------------------------------------------
(* What packets prove *)

\* Socket j of the sender of a packet that h receives has sent it.
SentBy(h, packet, j) ==
    LET t == socket[packet.SrcIP][j] IN
    /\ t.Conn = Reversed(h, ConnOf(packet))
    /\ packet.Flags = "SYN-ACK" =>
         /\ t.by = "VAccept"
         /\ packet.SeqNum = t.InitSeqNum /\ packet.AckNum = Next1(t.RemoteISN)
    /\ packet.Flags = "ACK" =>
         /\ t.pc \in {"establish", "HandleConn"}
         /\ packet.SeqNum = Next1(t.InitSeqNum) /\ packet.AckNum = Next1(t.RemoteISN)

Genuine(h, packet) ==
    IF packet.Flags = "SYN"
    THEN packet.SrcPort \in EphemeralPorts
    ELSE \E j \in DOMAIN socket[packet.SrcIP] : SentBy(h, packet, j)

PacketsGenuine ==
    \A h \in Hosts :
        /\ \A n \in DOMAIN net[h] : Genuine(h, net[h][n])
        /\ loop[h] # Idle => Genuine(h, loop[h].packet)

\* Every connection was asked for from an ephemeral port.
AcceptedFromEphemeral ==
    \A h \in Hosts : \A i \in DOMAIN socket[h] :
        socket[h][i].by = "VAccept" => socket[h][i].Conn.RemotePort \in EphemeralPorts

\* Who knows the numbers of both ends: VConnect once it has the SYN-ACK,
\* VAccept once it has the ACK.
KnowsBoth(h, i) ==
    LET s == socket[h][i] IN
    \/ s.by = "VConnect" /\ s.pc \in {"ack", "establish", "HandleConn"}
    \/ s.by = "VAccept" /\ Established(h, i)

HasOtherEnd(h, i) ==
    \E j \in DOMAIN socket[socket[h][i].Conn.Remote] :
        /\ OtherEnd(h, i, j)
        /\ socket[h][i].by = "VAccept" =>
             socket[socket[h][i].Conn.Remote][j].pc \in {"establish", "HandleConn"}

PairedUp ==
    \A h \in Hosts : \A i \in DOMAIN socket[h] : KnowsBoth(h, i) => HasOtherEnd(h, i)

------------------------------------------------------------------------------
(* Tables, queues and packets *)

\* One element of one host's sequence is replaced,
LEMMA ElementSet ==
    ASSUME NEW S, NEW f \in [Hosts -> Seq(S)], NEW h \in Hosts, NEW i \in DOMAIN f[h],
           NEW x \in S, NEW g, g = [f EXCEPT ![h] = [f[h] EXCEPT ![i] = x]]
    PROVE  /\ g \in [Hosts -> Seq(S)]
           /\ \A r \in Hosts : DOMAIN g[r] = DOMAIN f[r]
           /\ \A r \in Hosts : \A j \in DOMAIN f[r] :
                g[r][j] = IF r = h /\ j = i THEN x ELSE f[r][j]
<1>1. f[h] \in Seq(S)
  OBVIOUS
<1>2. [f[h] EXCEPT ![i] = x] \in Seq(S)
  BY <1>1
<1> QED BY <1>1, <1>2

\* or one is added.
LEMMA ElementAdded ==
    ASSUME NEW S, NEW f \in [Hosts -> Seq(S)], NEW h \in Hosts, NEW x \in S,
           NEW g, g = [f EXCEPT ![h] = Append(@, x)]
    PROVE  /\ g \in [Hosts -> Seq(S)]
           /\ Len(f[h]) + 1 \in DOMAIN g[h] /\ g[h][Len(f[h]) + 1] = x
           /\ \A r \in Hosts : r # h => g[r] = f[r]
           /\ DOMAIN g[h] = DOMAIN f[h] \union {Len(f[h]) + 1}
           /\ \A j \in DOMAIN f[h] : g[h][j] = f[h][j] /\ j # Len(f[h]) + 1
<1>1. f[h] \in Seq(S) /\ g[h] = Append(f[h], x)
  OBVIOUS
<1>2. /\ Append(f[h], x) \in Seq(S) /\ Len(f[h]) \in Nat
      /\ DOMAIN f[h] = 1 .. Len(f[h]) /\ DOMAIN g[h] = 1 .. Len(f[h]) + 1
      /\ g[h][Len(f[h]) + 1] = x /\ \A j \in DOMAIN f[h] : g[h][j] = f[h][j]
  BY <1>1
<1>3. 1 .. Len(f[h]) + 1 = 1 .. Len(f[h]) \union {Len(f[h]) + 1}
  BY <1>2
<1> QED BY <1>2, <1>3

\* The first element is taken.
LEMMA FirstTaken ==
    ASSUME NEW S, NEW f \in [Hosts -> Seq(S)], NEW h \in Hosts, f[h] # <<>>,
           NEW g, g = [f EXCEPT ![h] = Tail(@)]
    PROVE  /\ g \in [Hosts -> Seq(S)] /\ Head(f[h]) \in S
           /\ Head(f[h]) = f[h][1] /\ 1 \in DOMAIN f[h]
           /\ \A r \in Hosts : \A j \in DOMAIN g[r] :
                \E k \in DOMAIN f[r] : g[r][j] = f[r][k]
<1>1. f[h] \in Seq(S) /\ g[h] = Tail(f[h])
  OBVIOUS
<1>2. /\ Tail(f[h]) \in Seq(S) /\ Len(f[h]) \in Nat \ {0}
      /\ DOMAIN f[h] = 1 .. Len(f[h]) /\ DOMAIN g[h] = 1 .. Len(f[h]) - 1
      /\ \A j \in DOMAIN g[h] : g[h][j] = f[h][j + 1]
  BY <1>1
<1>3. \A j \in DOMAIN g[h] : j + 1 \in DOMAIN f[h]
  BY <1>2
<1> QED BY <1>1, <1>2, <1>3, SMTT(30)

\* Adding 1 to a uint32 stays one, and loses nothing.
LEMMA Next1Typed ==
    ASSUME NEW seq \in 0 .. SeqSpace - 1
    PROVE  Next1(seq) \in 0 .. SeqSpace - 1
BY HandshakeAssumption DEF Next1

LEMMA Next1Injective ==
    ASSUME NEW seq \in 0 .. SeqSpace - 1, NEW other \in 0 .. SeqSpace - 1,
           Next1(seq) = Next1(other)
    PROVE  seq = other
<1>1. ASSUME NEW x \in 0 .. SeqSpace - 1
      PROVE  Next1(x) = IF x = SeqSpace - 1 THEN 0 ELSE x + 1
  BY HandshakeAssumption DEF Next1
<1>2. SeqSpace \in Nat \ {0}
  BY HandshakeAssumption
<1> QED BY <1>1, <1>2

LEMMA PacketsAreOfConns ==
    ASSUME NEW packet \in Packets
    PROVE  ConnOf(packet) \in Conns
BY DEF Packets, ConnOf, Conns

------------------------------------------------------------------------------
(* Steps that only move what is there on *)

\* A socket keeps its connection and its number; it learns the other number
\* from the SYN-ACK only, stays established, and never comes back to life.
SocketMoves(s, t) ==
    /\ t.Conn = s.Conn /\ t.by = s.by /\ t.InitSeqNum = s.InitSeqNum
    /\ t.RemoteISN # s.RemoteISN => s.by = "VConnect" /\ s.pc = "synAck"
    /\ s.pc = "establish" => t.pc \in {"establish", "HandleConn"}
    /\ s.pc = "ack" => t.pc \in {"ack", "establish", "failed"}
    /\ s.pc \in {"HandleConn", "failed"} => t.pc = s.pc
    /\ s.ConnState = "ESTABLISHED" => t.ConnState = "ESTABLISHED"

SocketsKeep ==
    \A h \in Hosts :
        /\ DOMAIN socket'[h] = DOMAIN socket[h]
        /\ \A i \in DOMAIN socket[h] : SocketMoves(socket[h][i], socket'[h][i])

\* VAccept goes on with the socket it has, which is still its own, or returns.
ListenersKeep ==
    \A h \in Hosts :
        /\ DOMAIN listener'[h] = DOMAIN listener[h]
        /\ \A k \in DOMAIN listener[h] :
             /\ listener'[h][k].PortNumber = listener[h][k].PortNumber
             /\ listener'[h][k].pc # "syn" =>
                  /\ listener[h][k].pc # "syn" /\ listener'[h][k].id = listener[h][k].id
                  /\ socket'[h][listener[h][k].id].pc = socket[h][listener[h][k].id].pc

LoopKeeps == \A h \in Hosts : loop'[h] \in {loop[h], Idle}

TablesKeep ==
    \A h \in Hosts :
        /\ DOMAIN ListenersTable'[h] \subseteq DOMAIN ListenersTable[h]
        /\ \A port \in DOMAIN ListenersTable'[h] :
             ListenersTable'[h][port] = ListenersTable[h][port]
        /\ DOMAIN SocketTable'[h] \subseteq DOMAIN SocketTable[h]
        /\ \A conn \in DOMAIN SocketTable'[h] : SocketTable'[h][conn] = SocketTable[h][conn]

Keeps == Typed' /\ SocketsKeep /\ ListenersKeep /\ LoopKeeps /\ TablesKeep /\ EstablishedAreHandled'

LEMMA OwnSocketsKept ==
    ASSUME OwnSockets,
           \A h \in Hosts : \A k \in DOMAIN listener'[h] : listener'[h][k].pc # "syn" =>
                /\ k \in DOMAIN listener[h] /\ listener[h][k].pc # "syn"
                /\ listener'[h][k].id = listener[h][k].id
    PROVE  OwnSockets'
BY DEF OwnSockets

LEMMA KeepsEnds ==
    ASSUME EndsInv, Keeps
    PROVE  EndsInv'
<1> USE DEF EndsInv, Keeps
<1>1. References'
  <2> SUFFICES ASSUME NEW h \in Hosts
               PROVE  /\ DOMAIN ListenersTable'[h] \subseteq Ports
                      /\ \A port \in DOMAIN ListenersTable'[h] :
                           ListenersTable'[h][port] \in DOMAIN listener'[h]
                      /\ DOMAIN SocketTable'[h] \subseteq Conns
                      /\ \A conn \in DOMAIN SocketTable'[h] :
                           /\ SocketTable'[h][conn] \in DOMAIN socket'[h]
                           /\ socket'[h][SocketTable'[h][conn]].Conn = conn
                      /\ \A k \in DOMAIN listener'[h] :
                           listener'[h][k].pc # "syn" => listener'[h][k].id \in DOMAIN socket'[h]
                      /\ loop'[h].to = "socket" => loop'[h].id \in DOMAIN socket'[h]
                      /\ loop'[h].to = "listener" => loop'[h].id \in DOMAIN listener'[h]
    BY DEF References
  <2>1. /\ DOMAIN ListenersTable'[h] \subseteq Ports
        /\ \A port \in DOMAIN ListenersTable'[h] :
             ListenersTable'[h][port] \in DOMAIN listener'[h]
    BY DEF References, TablesKeep, ListenersKeep
  <2>2. /\ DOMAIN SocketTable'[h] \subseteq Conns
        /\ \A conn \in DOMAIN SocketTable'[h] :
             /\ SocketTable'[h][conn] \in DOMAIN socket'[h]
             /\ socket'[h][SocketTable'[h][conn]].Conn = conn
    BY DEF References, TablesKeep, SocketsKeep, SocketMoves
  <2>3. \A k \in DOMAIN listener'[h] :
          listener'[h][k].pc # "syn" => listener'[h][k].id \in DOMAIN socket'[h]
    BY DEF References, ListenersKeep, SocketsKeep
  <2>4. /\ loop'[h].to = "socket" => loop'[h].id \in DOMAIN socket'[h]
        /\ loop'[h].to = "listener" => loop'[h].id \in DOMAIN listener'[h]
    BY DEF References, ListenersKeep, SocketsKeep, LoopKeeps, Idle
  <2> QED BY <2>1, <2>2, <2>3, <2>4
<1>2. ListenersPorts'
  <2> SUFFICES ASSUME NEW h \in Hosts
               PROVE  /\ \A port \in DOMAIN ListenersTable'[h] :
                           listener'[h][ListenersTable'[h][port]].PortNumber = port
                      /\ \A k \in DOMAIN listener'[h] :
                           /\ listener'[h][k].PortNumber \in Listening[h]
                           /\ listener'[h][k].pc # "syn" =>
                                LET s == socket'[h][listener'[h][k].id]
                                IN /\ s.by = "VAccept" /\ s.pc = "VAccept"
                                   /\ s.Conn.LocalPort = listener'[h][k].PortNumber
                      /\ loop'[h].to = "listener" =>
                           listener'[h][loop'[h].id].PortNumber = loop'[h].packet.DstPort
    BY DEF ListenersPorts
  <2>1. \A port \in DOMAIN ListenersTable'[h] :
          listener'[h][ListenersTable'[h][port]].PortNumber = port
    BY DEF References, TablesKeep, ListenersKeep, ListenersPorts
  <2>2. ASSUME NEW k \in DOMAIN listener'[h]
        PROVE  listener'[h][k].PortNumber \in Listening[h]
    BY DEF ListenersKeep, ListenersPorts
  <2>3. ASSUME NEW k \in DOMAIN listener'[h], listener'[h][k].pc # "syn"
        PROVE  LET s == socket'[h][listener'[h][k].id]
               IN /\ s.by = "VAccept" /\ s.pc = "VAccept"
                  /\ s.Conn.LocalPort = listener'[h][k].PortNumber
    <3> DEFINE i == listener[h][k].id
    <3>1. /\ k \in DOMAIN listener[h] /\ listener[h][k].pc # "syn" /\ listener'[h][k].id = i
          /\ listener'[h][k].PortNumber = listener[h][k].PortNumber
          /\ socket'[h][i].pc = socket[h][i].pc
      BY <2>3 DEF ListenersKeep
    <3>2. i \in DOMAIN socket[h] /\ socket[h][i].by = "VAccept" /\ socket[h][i].pc = "VAccept"
          /\ socket[h][i].Conn.LocalPort = listener[h][k].PortNumber
      BY <3>1 DEF References, ListenersPorts
    <3>3. socket'[h][i].by = socket[h][i].by /\ socket'[h][i].Conn = socket[h][i].Conn
      BY <3>2 DEF SocketsKeep, SocketMoves
    <3> QED BY <3>1, <3>2, <3>3
  <2>4. loop'[h].to = "listener" =>
          listener'[h][loop'[h].id].PortNumber = loop'[h].packet.DstPort
    BY DEF References, LoopKeeps, ListenersKeep, ListenersPorts, Idle
  <2> QED BY <2>1, <2>2, <2>3, <2>4
<1>3. SocketsPorts'
  BY DEF References, SocketsPorts, SocketsKeep, SocketMoves, LoopKeeps, Idle
<1>4. OwnSockets'
  BY OwnSocketsKept DEF ListenersKeep
<1> QED BY <1>1, <1>2, <1>3, <1>4

LEMMA SocketSet ==
    ASSUME EndsInv, NEW h \in Hosts, NEW i \in DOMAIN socket[h], NEW s \in SocketRecords,
           SocketMoves(socket[h][i], s), s.ConnState = "ESTABLISHED" <=> s.pc = "HandleConn",
           socket' = [socket EXCEPT ![h] = [socket[h] EXCEPT ![i] = s]]
    PROVE  /\ socket' \in [Hosts -> Seq(SocketRecords)]
           /\ SocketsKeep /\ EstablishedAreHandled'
           /\ \A r \in Hosts : \A j \in DOMAIN socket[r] :
                socket'[r][j] = IF r = h /\ j = i THEN s ELSE socket[r][j]
<1>1. /\ socket' \in [Hosts -> Seq(SocketRecords)]
      /\ \A r \in Hosts : DOMAIN socket'[r] = DOMAIN socket[r]
      /\ \A r \in Hosts : \A j \in DOMAIN socket[r] :
           socket'[r][j] = IF r = h /\ j = i THEN s ELSE socket[r][j]
  BY ElementSet DEF EndsInv, Typed
<1>2. \A t : SocketMoves(t, t)
  BY DEF SocketMoves
<1>3. SocketsKeep
  BY <1>1, <1>2 DEF SocketsKeep
<1>4. EstablishedAreHandled'
  BY <1>1 DEF EndsInv, EstablishedAreHandled, Established
<1> QED BY <1>1, <1>3, <1>4

LEMMA SocketsSame ==
    ASSUME EndsInv, socket' = socket
    PROVE  socket' \in [Hosts -> Seq(SocketRecords)] /\ SocketsKeep /\ EstablishedAreHandled'
<1>1. \A t : SocketMoves(t, t)
  BY DEF SocketMoves
<1> QED BY <1>1 DEF EndsInv, Typed, SocketsKeep, EstablishedAreHandled, Established

\* VAccept goes on, or returns.
VAcceptGoesTo(h, k, pc) ==
    /\ listener' \in [Hosts -> Seq(ListenerRecords)]
    /\ \A r \in Hosts : DOMAIN listener'[r] = DOMAIN listener[r]
    /\ \A r \in Hosts : \A l \in DOMAIN listener[r] :
         /\ listener'[r][l].PortNumber = listener[r][l].PortNumber
         /\ listener'[r][l].pc # "syn" => listener'[r][l].id = listener[r][l].id
         /\ listener'[r][l].pc = IF r = h /\ l = k THEN pc ELSE listener[r][l].pc

LEMMA ListenerSet ==
    ASSUME EndsInv, NEW h \in Hosts, NEW k \in DOMAIN listener[h],
           NEW pc \in {"syn", "insert", "synAck", "assign", "ack"},
           \/ listener' = [listener EXCEPT ![h][k].pc = pc]
           \/ pc = "syn" /\ VAcceptReturns(h, k)
    PROVE  VAcceptGoesTo(h, k, pc)
<1>1. listener \in [Hosts -> Seq(ListenerRecords)] /\ listener[h][k] \in ListenerRecords
  BY DEF EndsInv, Typed
<1>2. PICK x \in ListenerRecords :
        /\ x.pc = pc /\ x.PortNumber = listener[h][k].PortNumber
        /\ pc # "syn" => x.id = listener[h][k].id
        /\ listener' = [listener EXCEPT ![h] = [listener[h] EXCEPT ![k] = x]]
  <2>1. CASE listener' = [listener EXCEPT ![h][k].pc = pc]
    <3> DEFINE x == [listener[h][k] EXCEPT !.pc = pc]
    <3>1. x \in ListenerRecords /\ x.pc = pc /\ x.PortNumber = listener[h][k].PortNumber
            /\ x.id = listener[h][k].id
      BY <1>1 DEF ListenerRecords
    <3>2. listener' = [listener EXCEPT ![h] = [listener[h] EXCEPT ![k] = x]]
      BY <2>1
    <3> HIDE DEF x
    <3> QED BY <3>1, <3>2
  <2>2. CASE pc = "syn" /\ VAcceptReturns(h, k)
    <3> DEFINE x == [listener[h][k] EXCEPT !.pc = "syn", !.id = 0]
    <3>1. x \in ListenerRecords /\ x.pc = "syn" /\ x.PortNumber = listener[h][k].PortNumber
      BY <1>1 DEF ListenerRecords
    <3>2. listener' = [listener EXCEPT ![h] = [listener[h] EXCEPT ![k] = x]]
      BY <2>2, Zenon DEF VAcceptReturns
    <3> HIDE DEF x
    <3> QED BY <2>2, <3>1, <3>2
  <2> QED BY <2>1, <2>2
<1>3. /\ listener' \in [Hosts -> Seq(ListenerRecords)]
      /\ \A r \in Hosts : DOMAIN listener'[r] = DOMAIN listener[r]
      /\ \A r \in Hosts : \A l \in DOMAIN listener[r] :
           listener'[r][l] = IF r = h /\ l = k THEN x ELSE listener[r][l]
  <2>1. listener \in [Hosts -> Seq(ListenerRecords)] /\ x \in ListenerRecords
    BY <1>1, <1>2
  <2> QED BY ONLY <2>1, <1>2, h \in Hosts, k \in DOMAIN listener[h], ElementSet
<1> QED BY <1>2, <1>3 DEF VAcceptGoesTo

LEMMA LoopSet ==
    ASSUME EndsInv, NEW h \in Hosts, loop' = [loop EXCEPT ![h] = Idle]
    PROVE  /\ loop' \in [Hosts -> {Idle} \union Handing] /\ LoopKeeps
           /\ \A r \in Hosts : loop'[r] = IF r = h THEN Idle ELSE loop[r]
BY DEF EndsInv, Typed, LoopKeeps

\* The packet SendPacket puts into the network.
Made(h, s, flags, seq, ack) ==
    [SrcIP |-> h, SrcPort |-> s.Conn.LocalPort, DstPort |-> s.Conn.RemotePort,
     Flags |-> flags, SeqNum |-> seq, AckNum |-> ack]

LEMMA PacketSent ==
    ASSUME Typed, NEW h \in Hosts, NEW s \in SocketRecords, NEW flags \in Flags,
           NEW seq \in 0 .. SeqSpace - 1, NEW ack \in 0 .. SeqSpace - 1,
           SendPacket(h, s, flags, seq, ack)
    PROVE  /\ net' \in [Hosts -> Seq(Packets)]
           /\ \A r \in Hosts : \A n \in DOMAIN net'[r] :
                \/ n \in DOMAIN net[r] /\ net'[r][n] = net[r][n]
                \/ r = s.Conn.Remote /\ net'[r][n] = Made(h, s, flags, seq, ack)
<1> DEFINE packet == Made(h, s, flags, seq, ack)
<1>1. s.Conn.Remote \in Hosts /\ packet \in Packets
  BY DEF Made, Packets, SocketRecords, Conns
<1>2. net' = [net EXCEPT ![s.Conn.Remote] = Append(@, packet)]
  BY DEF SendPacket, Made
<1> HIDE DEF packet
<1> DEFINE remote == s.Conn.Remote
<1>3. /\ net' \in [Hosts -> Seq(Packets)]
      /\ net'[remote][Len(net[remote]) + 1] = packet
      /\ \A r \in Hosts : r # remote => net'[r] = net[r]
      /\ DOMAIN net'[remote] = DOMAIN net[remote] \union {Len(net[remote]) + 1}
      /\ \A j \in DOMAIN net[remote] : net'[remote][j] = net[remote][j]
  <2>1. net \in [Hosts -> Seq(Packets)] /\ remote \in Hosts
    BY <1>1 DEF Typed
  <2> QED BY ONLY <1>1, <2>1, <1>2, ElementAdded
<1> QED BY <1>1, <1>3 DEF packet

LEMMA TablesSame ==
    ASSUME UNCHANGED <<ListenersTable, SocketTable>>
    PROVE  TablesKeep
BY DEF TablesKeep

LEMMA ListenersSame ==
    ASSUME EndsInv, listener' = listener, SocketsKeep,
           \A h \in Hosts : \A i \in DOMAIN socket[h] :
                socket[h][i].by = "VAccept" => socket'[h][i].pc = socket[h][i].pc
    PROVE  listener' \in [Hosts -> Seq(ListenerRecords)] /\ ListenersKeep
<1>1. \A h \in Hosts : \A k \in DOMAIN listener[h] : listener[h][k].pc # "syn" =>
        listener[h][k].id \in DOMAIN socket[h] /\ socket[h][listener[h][k].id].by = "VAccept"
  BY DEF EndsInv, ListenersPorts, References
<1>2. \A h \in Hosts : \A k \in DOMAIN listener[h] : listener[h][k].pc # "syn" =>
        socket'[h][listener[h][k].id].pc = socket[h][listener[h][k].id].pc
  BY <1>1
<1> QED BY <1>2 DEF EndsInv, Typed, ListenersKeep

------------------------------------------------------------------------------
(* The operations that only move on what is there *)

LEMMA SendSynAckKeeps ==
    ASSUME EndsInv, NEW h \in Hosts, NEW k \in DOMAIN listener[h], SendSynAck(h, k)
    PROVE  Keeps
<1> DEFINE i == listener[h][k].id
           s == socket[h][i]
<1>1. /\ listener[h][k].pc = "synAck"
      /\ UNCHANGED <<ListenersTable, SocketTable, socket, loop>>
  BY DEF SendSynAck
<1>2. i \in DOMAIN socket[h] /\ s \in SocketRecords
  BY <1>1 DEF EndsInv, References, Typed
<1>3. \/ listener' = [listener EXCEPT ![h][k].pc = "assign"]
      \/ VAcceptReturns(h, k)
  BY DEF SendSynAck
<1>4. net' \in [Hosts -> Seq(Packets)]
  <2>1. CASE SendPacket(h, s, "SYN-ACK", s.InitSeqNum, Next1(s.RemoteISN))
    <3>1. s.InitSeqNum \in 0 .. SeqSpace - 1 /\ s.RemoteISN \in 0 .. SeqSpace - 1
      BY <1>2, HandshakeAssumption DEF SocketRecords
    <3>2. Next1(s.RemoteISN) \in 0 .. SeqSpace - 1 /\ "SYN-ACK" \in Flags
      BY <3>1, Next1Typed DEF Flags
    <3> HIDE DEF s
    <3> QED BY <1>2, <2>1, <3>1, <3>2, PacketSent DEF EndsInv
  <2>2. CASE UNCHANGED net
    BY <2>2 DEF EndsInv, Typed
  <2> QED BY <2>1, <2>2 DEF SendSynAck, SendIPFails
<1>5. /\ socket' \in [Hosts -> Seq(SocketRecords)] /\ SocketsKeep /\ EstablishedAreHandled'
  BY <1>1, SocketsSame
<1>6. PICK pc \in {"assign", "syn"} : VAcceptGoesTo(h, k, pc)
  BY <1>3, ListenerSet
<1>7. ListenersKeep
  BY <1>1, <1>6 DEF ListenersKeep, VAcceptGoesTo
<1>8. Typed' /\ LoopKeeps /\ TablesKeep
  BY <1>1, <1>4, <1>5, <1>6, TablesSame DEF EndsInv, Typed, LoopKeeps, VAcceptGoesTo
<1> QED BY <1>5, <1>7, <1>8 DEF Keeps

\* A socket of VAccept belongs to one listener only.
LEMMA OneListener ==
    ASSUME EndsInv, NEW h \in Hosts, NEW k \in DOMAIN listener[h], NEW l \in DOMAIN listener[h],
           listener[h][k].pc # "syn", listener[h][l].pc # "syn",
           listener[h][k].id = listener[h][l].id
    PROVE  k = l
BY DEF EndsInv, OwnSockets

LEMMA AssignSynSentKeeps ==
    ASSUME EndsInv, NEW h \in Hosts, NEW k \in DOMAIN listener[h], AssignSynSent(h, k)
    PROVE  Keeps
<1> DEFINE i == listener[h][k].id
           s == [socket[h][i] EXCEPT !.ConnState = "SYN_SENT"]
<1>1. /\ listener[h][k].pc = "assign"
      /\ UNCHANGED <<ListenersTable, SocketTable, loop, net>>
      /\ listener' = [listener EXCEPT ![h][k].pc = "ack"]
      /\ socket' = [socket EXCEPT ![h] = [socket[h] EXCEPT ![i] = s]]
  BY DEF AssignSynSent
<1>2. /\ i \in DOMAIN socket[h] /\ socket[h][i] \in SocketRecords
      /\ socket[h][i].pc = "VAccept"
  BY <1>1 DEF EndsInv, References, ListenersPorts, Typed
<1>3. /\ s \in SocketRecords /\ SocketMoves(socket[h][i], s) /\ s.pc = "VAccept"
      /\ s.ConnState # "ESTABLISHED"
  <2>1. socket[h][i].ConnState # "ESTABLISHED"
    BY <1>2 DEF EndsInv, EstablishedAreHandled, Established
  <2> QED BY <1>2, <2>1 DEF SocketRecords, SocketMoves
<1> HIDE DEF s
<1>4. /\ socket' \in [Hosts -> Seq(SocketRecords)] /\ SocketsKeep /\ EstablishedAreHandled'
      /\ \A r \in Hosts : \A j \in DOMAIN socket[r] :
           socket'[r][j] = IF r = h /\ j = i THEN s ELSE socket[r][j]
  <2>1. s.ConnState = "ESTABLISHED" <=> s.pc = "HandleConn"
    BY <1>3
  <2> QED BY <1>1, <1>2, <1>3, <2>1, SocketSet
<1>5. VAcceptGoesTo(h, k, "ack")
  BY <1>1, ListenerSet
<1>6. \A r \in Hosts : \A l \in DOMAIN listener[r] : listener[r][l].pc # "syn" =>
        socket'[r][listener[r][l].id].pc = socket[r][listener[r][l].id].pc
  BY <1>2, <1>3, <1>4 DEF EndsInv, References
<1>7. ListenersKeep
  BY <1>1, <1>5, <1>6 DEF ListenersKeep, VAcceptGoesTo
<1>8. Typed' /\ LoopKeeps /\ TablesKeep
  BY <1>1, <1>4, <1>5, TablesSame DEF EndsInv, Typed, LoopKeeps, VAcceptGoesTo
<1> QED BY <1>4, <1>7, <1>8 DEF Keeps

\* What becomes of the socket when VAccept is handed a packet in state "ack".
LEMMA TakeAckSets ==
    ASSUME NEW h, NEW k, TakeAck(h, k)
    PROVE  LET i == listener[h][k].id
               s == [socket[h][i] EXCEPT !.ConnState = "ESTABLISHED", !.pc = "HandleConn"]
           IN  \/ socket' = socket
               \/ socket' = [socket EXCEPT ![h] = [socket[h] EXCEPT ![i] = s]]
<1> DEFINE i == listener[h][k].id
<1>1. \/ socket' = socket
      \/ socket' = [socket EXCEPT ![h][i].ConnState = "ESTABLISHED",
                                  ![h][i].pc = "HandleConn"]
  BY Zenon DEF TakeAck
<1> HIDE DEF i
<1>2. [socket EXCEPT ![h][i].ConnState = "ESTABLISHED", ![h][i].pc = "HandleConn"]
        = [socket EXCEPT ![h] = [socket[h] EXCEPT
             ![i] = [socket[h][i] EXCEPT !.ConnState = "ESTABLISHED", !.pc = "HandleConn"]]]
  BY Zenon
<1> QED BY <1>1, <1>2, Zenon DEF i

\* VAccept returns, with the ACK or without it.
LEMMA TakeAckKeeps ==
    ASSUME EndsInv, NEW h \in Hosts, NEW k \in DOMAIN listener[h], TakeAck(h, k)
    PROVE  Keeps
<1> DEFINE i == listener[h][k].id
           s == [socket[h][i] EXCEPT !.ConnState = "ESTABLISHED", !.pc = "HandleConn"]
<1>1. /\ listener[h][k].pc = "ack"
      /\ UNCHANGED <<ListenersTable, SocketTable, net>>
      /\ VAcceptReturns(h, k)
      /\ loop' = [loop EXCEPT ![h] = Idle]
      /\ socket' = socket \/ socket' = [socket EXCEPT ![h] = [socket[h] EXCEPT ![i] = s]]
  BY TakeAckSets DEF TakeAck, HandedToSocket
<1>2. /\ i \in DOMAIN socket[h] /\ socket[h][i] \in SocketRecords
      /\ socket[h][i].pc = "VAccept"
  BY <1>1, SMTT(30) DEF EndsInv, References, ListenersPorts, Typed
<1>3. /\ s \in SocketRecords /\ SocketMoves(socket[h][i], s)
      /\ s.ConnState = "ESTABLISHED" /\ s.pc = "HandleConn"
  BY <1>2 DEF SocketRecords, SocketMoves
<1> HIDE DEF s
<1>4. /\ socket' \in [Hosts -> Seq(SocketRecords)] /\ SocketsKeep /\ EstablishedAreHandled'
      /\ \A r \in Hosts : \A j \in DOMAIN socket[r] :
           (r = h /\ j = i) \/ socket'[r][j] = socket[r][j]
  <2>1. CASE socket' = socket
    BY <2>1, SocketsSame
  <2>2. CASE socket' = [socket EXCEPT ![h] = [socket[h] EXCEPT ![i] = s]]
    <3>1. s.ConnState = "ESTABLISHED" <=> s.pc = "HandleConn"
      BY <1>3
    <3> QED BY <2>2, <1>2, <1>3, <3>1, SocketSet
  <2> QED BY <1>1, <2>1, <2>2
<1>5. VAcceptGoesTo(h, k, "syn")
  BY <1>1, ListenerSet
<1>6. ASSUME NEW r \in Hosts, NEW l \in DOMAIN listener[r],
             listener[r][l].pc # "syn", ~(r = h /\ l = k)
      PROVE  socket'[r][listener[r][l].id].pc = socket[r][listener[r][l].id].pc
  <2>1. listener[r][l].id \in DOMAIN socket[r]
    BY <1>6 DEF EndsInv, References
  <2>2. ~(r = h /\ listener[r][l].id = i)
    BY <1>1, <1>6, OneListener
  <2> QED BY <1>4, <2>1, <2>2
<1>7. ListenersKeep
  BY <1>5, <1>6 DEF ListenersKeep, VAcceptGoesTo
<1>8. LoopKeeps /\ loop' \in [Hosts -> {Idle} \union Handing]
  BY <1>1, LoopSet
<1>9. Typed' /\ TablesKeep
  BY <1>1, <1>4, <1>5, <1>8, TablesSame DEF EndsInv, Typed, VAcceptGoesTo
<1> QED BY <1>4, <1>7, <1>8, <1>9 DEF Keeps

LEMMA ReturnKeeps ==
    ASSUME EndsInv, NEW h \in Hosts, NEW k \in DOMAIN listener[h],
           \/ TakeStopFlag(h, k)
           \/ TakeSyn(h, k) /\ VAcceptReturns(h, k) /\ UNCHANGED socket
    PROVE  Keeps
<1>1. /\ UNCHANGED <<ListenersTable, SocketTable, socket, net>>
      /\ VAcceptReturns(h, k)
      /\ loop' = loop \/ loop' = [loop EXCEPT ![h] = Idle]
  BY DEF TakeStopFlag, TakeSyn, HandedToListener
<1>2. /\ socket' \in [Hosts -> Seq(SocketRecords)] /\ SocketsKeep /\ EstablishedAreHandled'
  BY <1>1, SocketsSame
<1>3. VAcceptGoesTo(h, k, "syn")
  BY <1>1, ListenerSet
<1>4. ListenersKeep
  BY <1>1, <1>3 DEF ListenersKeep, VAcceptGoesTo
<1>5. LoopKeeps /\ loop' \in [Hosts -> {Idle} \union Handing]
  <2>1. CASE loop' = loop
    BY <2>1 DEF LoopKeeps, EndsInv, Typed
  <2> QED BY <1>1, <2>1, LoopSet
<1>6. Typed' /\ TablesKeep
  BY <1>1, <1>2, <1>3, <1>5, TablesSame DEF EndsInv, Typed, VAcceptGoesTo
<1> QED BY <1>2, <1>4, <1>5, <1>6 DEF Keeps

\* VConnect's steps move its own socket on, which no VAccept has.
LEMMA ConnectKeeps ==
    ASSUME EndsInv, NEW h \in Hosts, NEW i \in VConnectsOf(h),
           \/ SendSyn(h, i) \/ TakeSynAck(h, i) \/ SendAckOfSynAck(h, i)
           \/ Establish(h, i) \/ TakeCloseSocket(h, i) \/ DeleteConn(h, i)
    PROVE  Keeps
<1>1. /\ i \in DOMAIN socket[h] /\ socket[h][i] \in SocketRecords
      /\ socket[h][i].by = "VConnect"
  BY DEF VConnectsOf, EndsInv, Typed
<1>2. /\ socket[h][i].InitSeqNum \in 0 .. SeqSpace - 1
      /\ socket[h][i].RemoteISN \in 0 .. SeqSpace - 1
  BY <1>1, HandshakeAssumption DEF SocketRecords
<1> DEFINE moved(s) == socket' = [socket EXCEPT ![h] = [socket[h] EXCEPT ![i] = s]]
<1>3. \E s \in SocketRecords :
        /\ moved(s) /\ SocketMoves(socket[h][i], s)
        /\ s.ConnState = "ESTABLISHED" <=> s.pc = "HandleConn"
  <2>1. (socket[h][i].ConnState = "ESTABLISHED") <=> (socket[h][i].pc = "HandleConn")
    BY <1>1 DEF EndsInv, EstablishedAreHandled, Established
  <2>2. ASSUME NEW pc \in {"syn", "synAck", "ack", "establish", "delete", "failed"},
               socket[h][i].pc \in {"syn", "synAck", "ack", "delete"},
               socket[h][i].pc = "ack" => pc \in {"establish", "failed"},
               socket' = [socket EXCEPT ![h][i].pc = pc]
        PROVE  \E s \in SocketRecords :
                 /\ moved(s) /\ SocketMoves(socket[h][i], s)
                 /\ s.ConnState = "ESTABLISHED" <=> s.pc = "HandleConn"
    <3> DEFINE s == [socket[h][i] EXCEPT !.pc = pc]
    <3>1. /\ s \in SocketRecords /\ SocketMoves(socket[h][i], s)
          /\ s.ConnState # "ESTABLISHED" /\ s.pc # "HandleConn"
      BY <1>1, <2>1, <2>2 DEF SocketRecords, SocketMoves
    <3>2. moved(s)
      BY <2>2
    <3> HIDE DEF s, moved
    <3> QED BY <3>1, <3>2
  <2>3. CASE SendSyn(h, i)
    BY <2>2, <2>3 DEF SendSyn
  <2>4. CASE TakeSynAck(h, i)
    <3>1. CASE socket' = [socket EXCEPT ![h][i].pc = "failed"]
      BY <2>2, <2>4, <3>1 DEF TakeSynAck
    <3>2. CASE socket' = [socket EXCEPT ![h][i].RemoteISN = loop[h].packet.SeqNum,
                                        ![h][i].pc = "ack"]
      <4> DEFINE s == [socket[h][i] EXCEPT !.RemoteISN = loop[h].packet.SeqNum, !.pc = "ack"]
      <4>1. loop[h].packet.SeqNum \in 0 .. SeqSpace - 1 /\ socket[h][i].pc = "synAck"
        BY <2>4 DEF TakeSynAck, HandedToSocket, EndsInv, Typed, Handing, Packets, Idle
      <4>2. /\ s \in SocketRecords /\ SocketMoves(socket[h][i], s)
            /\ s.ConnState # "ESTABLISHED" /\ s.pc # "HandleConn"
        BY <1>1, <2>1, <4>1 DEF SocketRecords, SocketMoves
      <4>3. moved(s)
        BY <3>2
      <4> HIDE DEF s, moved
      <4> QED BY <4>2, <4>3
    <3> QED BY <2>4, <3>1, <3>2 DEF TakeSynAck
  <2>5. CASE SendAckOfSynAck(h, i)
    BY <2>2, <2>5 DEF SendAckOfSynAck
  <2>6. CASE Establish(h, i)
    <3> DEFINE s == [socket[h][i] EXCEPT !.ConnState = "ESTABLISHED", !.pc = "HandleConn"]
    <3>1. /\ s \in SocketRecords /\ SocketMoves(socket[h][i], s)
          /\ s.ConnState = "ESTABLISHED" /\ s.pc = "HandleConn"
      BY <1>1, <2>6 DEF SocketRecords, SocketMoves, Establish
    <3>2. moved(s)
      BY <2>6 DEF Establish
    <3> HIDE DEF s, moved
    <3> QED BY <3>1, <3>2
  <2>7. CASE TakeCloseSocket(h, i)
    BY <2>2, <2>7 DEF TakeCloseSocket
  <2>8. CASE DeleteConn(h, i)
    BY <2>2, <2>8 DEF DeleteConn
  <2> QED BY <2>3, <2>4, <2>5, <2>6, <2>7, <2>8
<1>4. PICK s \in SocketRecords :
        /\ moved(s) /\ SocketMoves(socket[h][i], s)
        /\ s.ConnState = "ESTABLISHED" <=> s.pc = "HandleConn"
  BY <1>3
<1>5. /\ socket' \in [Hosts -> Seq(SocketRecords)] /\ SocketsKeep /\ EstablishedAreHandled'
      /\ \A r \in Hosts : \A j \in DOMAIN socket[r] :
           socket'[r][j] = IF r = h /\ j = i THEN s ELSE socket[r][j]
  BY <1>1, <1>4, SocketSet
<1>6. UNCHANGED <<ListenersTable, listener>>
  BY DEF SendSyn, TakeSynAck, SendAckOfSynAck, Establish, TakeCloseSocket, DeleteConn
<1>7. listener' \in [Hosts -> Seq(ListenerRecords)] /\ ListenersKeep
  BY <1>1, <1>5, <1>6, ListenersSame
<1>8. LoopKeeps /\ loop' \in [Hosts -> {Idle} \union Handing]
  <2>1. CASE loop' = loop
    BY <2>1 DEF LoopKeeps, EndsInv, Typed
  <2>2. loop' = loop \/ loop' = [loop EXCEPT ![h] = Idle]
    BY DEF SendSyn, TakeSynAck, SendAckOfSynAck, Establish, TakeCloseSocket, DeleteConn,
           HandedToSocket
  <2> QED BY <2>1, <2>2, LoopSet
<1>9. net' \in [Hosts -> Seq(Packets)]
  <2>1. CASE net' = net
    BY <2>1 DEF EndsInv, Typed
  <2>2. ASSUME NEW flags \in Flags, NEW seq \in 0 .. SeqSpace - 1, NEW ack \in 0 .. SeqSpace - 1,
               SendPacket(h, socket[h][i], flags, seq, ack)
        PROVE  net' \in [Hosts -> Seq(Packets)]
    BY <1>1, <2>2, PacketSent DEF EndsInv
  <2>3. \/ net' = net
        \/ SendPacket(h, socket[h][i], "SYN", socket[h][i].InitSeqNum, 0)
        \/ SendPacket(h, socket[h][i], "ACK", Next1(socket[h][i].InitSeqNum),
                      Next1(socket[h][i].RemoteISN))
    BY DEF SendSyn, TakeSynAck, SendAckOfSynAck, Establish, TakeCloseSocket, DeleteConn, SendIPFails
  <2>4. /\ 0 \in 0 .. SeqSpace - 1
        /\ Next1(socket[h][i].InitSeqNum) \in 0 .. SeqSpace - 1
        /\ Next1(socket[h][i].RemoteISN) \in 0 .. SeqSpace - 1
        /\ "SYN" \in Flags /\ "ACK" \in Flags
    BY <1>2, Next1Typed, HandshakeAssumption DEF Flags
  <2> QED BY <1>2, <2>1, <2>2, <2>3, <2>4
<1>10. TablesKeep /\ DOMAIN ListenersTable' = Hosts /\ DOMAIN SocketTable' = Hosts
  <2>1. CASE DeleteConn(h, i)
    <3>1. SocketTable' = [SocketTable EXCEPT ![h] =
            Restrict(SocketTable[h], DOMAIN SocketTable[h] \ {socket[h][i].Conn})]
      BY <2>1 DEF DeleteConn
    <3>2. /\ DOMAIN SocketTable = Hosts /\ DOMAIN SocketTable' = Hosts
          /\ \A r \in Hosts : r # h => SocketTable'[r] = SocketTable[r]
          /\ SocketTable'[h] =
               Restrict(SocketTable[h], DOMAIN SocketTable[h] \ {socket[h][i].Conn})
      BY <3>1 DEF EndsInv, Typed
    <3>3. /\ DOMAIN SocketTable'[h] \subseteq DOMAIN SocketTable[h]
          /\ \A conn \in DOMAIN SocketTable'[h] : SocketTable'[h][conn] = SocketTable[h][conn]
      BY <3>2 DEF Restrict
    <3> QED BY <1>6, <3>2, <3>3 DEF TablesKeep, EndsInv, Typed
  <2>2. CASE SocketTable' = SocketTable
    BY <1>6, <2>2, TablesSame DEF EndsInv, Typed
  <2> QED BY <2>1, <2>2 DEF SendSyn, TakeSynAck, SendAckOfSynAck, Establish, TakeCloseSocket
<1>11. Typed'
  BY <1>5, <1>7, <1>8, <1>9, <1>10 DEF Typed
<1> QED BY <1>5, <1>7, <1>8, <1>10, <1>11 DEF Keeps

LEMMA HandleConnKeeps ==
    ASSUME EndsInv, NEW h \in Hosts, HandleConn(h) \/ SendFirstSegment(h) \/ Lose(h)
    PROVE  Keeps
<1>1. UNCHANGED <<ListenersTable, listener, SocketTable, socket>>
  BY DEF HandleConn, SendFirstSegment, Lose
<1>2. /\ socket' \in [Hosts -> Seq(SocketRecords)] /\ SocketsKeep /\ EstablishedAreHandled'
  BY <1>1, SocketsSame
<1>3. listener' \in [Hosts -> Seq(ListenerRecords)] /\ ListenersKeep
  BY <1>1, <1>2, ListenersSame
<1>4. LoopKeeps /\ loop' \in [Hosts -> {Idle} \union Handing]
  <2>1. CASE loop' = loop
    BY <2>1 DEF LoopKeeps, EndsInv, Typed
  <2>2. loop' = loop \/ loop' = [loop EXCEPT ![h] = Idle]
    BY DEF HandleConn, SendFirstSegment, Lose, HandedToSocket
  <2> QED BY <2>1, <2>2, LoopSet
<1>5. net' \in [Hosts -> Seq(Packets)]
  <2>1. CASE HandleConn(h)
    BY <2>1 DEF HandleConn, EndsInv, Typed
  <2>2. CASE SendFirstSegment(h)
    <3>1. PICK i \in DOMAIN socket[h] :
            SendPacket(h, socket[h][i], "ACK", Next1(socket[h][i].InitSeqNum),
                       Next1(socket[h][i].RemoteISN))
      BY <2>2 DEF SendFirstSegment
    <3>2. socket[h][i] \in SocketRecords
      BY DEF EndsInv, Typed
    <3>3. /\ Next1(socket[h][i].InitSeqNum) \in 0 .. SeqSpace - 1
          /\ Next1(socket[h][i].RemoteISN) \in 0 .. SeqSpace - 1
          /\ "ACK" \in Flags
      BY <3>2, Next1Typed, HandshakeAssumption DEF SocketRecords, Flags
    <3> QED BY <3>1, <3>2, <3>3, PacketSent DEF EndsInv
  <2>3. CASE Lose(h)
    BY <2>3, FirstTaken DEF Lose, EndsInv, Typed
  <2> QED BY <2>1, <2>2, <2>3
<1>6. Typed' /\ TablesKeep
  BY <1>1, <1>2, <1>3, <1>4, <1>5, TablesSame DEF EndsInv, Typed
<1> QED BY <1>2, <1>3, <1>4, <1>6 DEF Keeps

LEMMA CloseKeeps ==
    ASSUME EndsInv, NEW h \in Hosts, StopListener(h) \/ CloseSynSent(h)
    PROVE  Keeps
<1>1. UNCHANGED <<listener, SocketTable, socket, loop, net>>
  BY DEF StopListener, CloseSynSent
<1>2. /\ socket' \in [Hosts -> Seq(SocketRecords)] /\ SocketsKeep /\ EstablishedAreHandled'
  BY <1>1, SocketsSame
<1>3. listener' \in [Hosts -> Seq(ListenerRecords)] /\ ListenersKeep
  BY <1>1, <1>2, ListenersSame
<1>4. TablesKeep /\ DOMAIN ListenersTable' = Hosts
  <2>1. CASE StopListener(h)
    <3>1. PICK port \in DOMAIN ListenersTable[h] :
            ListenersTable' = [ListenersTable EXCEPT ![h] =
                Restrict(ListenersTable[h], DOMAIN ListenersTable[h] \ {port})]
      BY <2>1 DEF StopListener
    <3>2. /\ DOMAIN ListenersTable = Hosts /\ DOMAIN ListenersTable' = Hosts
          /\ \A r \in Hosts : r # h => ListenersTable'[r] = ListenersTable[r]
          /\ ListenersTable'[h] =
               Restrict(ListenersTable[h], DOMAIN ListenersTable[h] \ {port})
      BY <3>1 DEF EndsInv, Typed
    <3>3. /\ DOMAIN ListenersTable'[h] \subseteq DOMAIN ListenersTable[h]
          /\ \A n \in DOMAIN ListenersTable'[h] : ListenersTable'[h][n] = ListenersTable[h][n]
      BY <3>2 DEF Restrict
    <3> QED BY <1>1, <3>2, <3>3 DEF TablesKeep
  <2>2. CASE CloseSynSent(h)
    BY <1>1, <2>2, TablesSame DEF CloseSynSent, EndsInv, Typed
  <2> QED BY <2>1, <2>2
<1>5. Typed' /\ LoopKeeps
  BY <1>1, <1>2, <1>3, <1>4 DEF EndsInv, Typed, LoopKeeps
<1> QED BY <1>2, <1>3, <1>4, <1>5 DEF Keeps

------------------------------------------------------------------------------
(* The operations that make something *)

\* TcpHandler hands a packet to whom the tables name.
LEMMA TcpHandlerEnds ==
    ASSUME EndsInv, NEW h \in Hosts, TcpHandler(h)
    PROVE  EndsInv'
<1> DEFINE packet == Head(net[h])
           conn == ConnOf(packet)
           port == packet.DstPort
<1>1. /\ UNCHANGED <<ListenersTable, listener, SocketTable, socket>>
      /\ net[h] # <<>> /\ net' = [net EXCEPT ![h] = Tail(@)]
  BY DEF TcpHandler
<1>2. net' \in [Hosts -> Seq(Packets)] /\ packet \in Packets
  BY <1>1, FirstTaken DEF EndsInv, Typed
<1>3. \A r \in Hosts : r # h => loop'[r] = loop[r]
  BY DEF TcpHandler, EndsInv, Typed
<1>4. \/ loop'[h] = Idle
      \/ /\ conn \in DOMAIN SocketTable[h]
         /\ loop'[h] = [to |-> "socket", id |-> SocketTable[h][conn], packet |-> packet]
      \/ /\ port \in DOMAIN ListenersTable[h] /\ conn \notin DOMAIN SocketTable[h]
         /\ loop'[h] = [to |-> "listener", id |-> ListenersTable[h][port], packet |-> packet]
  BY DEF TcpHandler, EndsInv, Typed
<1> HIDE DEF packet
<1>5. \A i \in DOMAIN socket[h] : i \in Nat
  BY DEF EndsInv, Typed
<1>6. \A k \in DOMAIN listener[h] : k \in Nat
  BY DEF EndsInv, Typed
<1>7. loop'[h] \in {Idle} \union Handing
  BY <1>2, <1>4, <1>5, <1>6 DEF Handing, EndsInv, References
<1>8. Typed'
  <2>1. loop' \in [Hosts -> {Idle} \union Handing]
    BY <1>7 DEF TcpHandler, EndsInv, Typed
  <2> QED BY <1>1, <1>2, <2>1 DEF EndsInv, Typed
<1>9. /\ loop'[h].to = "socket" =>
           loop'[h].id \in DOMAIN socket[h] /\ socket[h][loop'[h].id].Conn = ConnOf(loop'[h].packet)
      /\ loop'[h].to = "listener" =>
           /\ loop'[h].id \in DOMAIN listener[h]
           /\ listener[h][loop'[h].id].PortNumber = loop'[h].packet.DstPort
  BY <1>4 DEF Idle, EndsInv, References, ListenersPorts
<1>10. References'
  BY <1>1, <1>3, <1>9 DEF EndsInv, References
<1>11. ListenersPorts'
  BY <1>1, <1>3, <1>9 DEF EndsInv, ListenersPorts
<1>12. SocketsPorts'
  BY <1>1, <1>3, <1>9 DEF EndsInv, SocketsPorts
<1>13. EstablishedAreHandled'
  BY <1>1 DEF EndsInv, EstablishedAreHandled, Established
<1>14. OwnSockets'
  BY <1>1 DEF EndsInv, OwnSockets
<1> QED BY <1>14, <1>8, <1>10, <1>11, <1>12, <1>13 DEF EndsInv

LEMMA VListenEnds ==
    ASSUME EndsInv, NEW h \in Hosts, VListen(h)
    PROVE  EndsInv'
<1>1. PICK port \in Listening[h] :
        /\ listener' = [listener EXCEPT ![h] = Append(@, [PortNumber |-> port, pc |-> "syn", id |-> 0])]
        /\ ListenersTable' = [ListenersTable EXCEPT ![h] =
              Entered(@, port, Len(listener[h]) + 1)]
  BY DEF VListen
<1>2. UNCHANGED <<SocketTable, socket, loop, net>>
  BY DEF VListen
<1> DEFINE x == [PortNumber |-> port, pc |-> "syn", id |-> 0]
           new == Len(listener[h]) + 1
<1>3. x \in ListenerRecords /\ port \in Ports
  BY HandshakeAssumption DEF ListenerRecords
<1>4. x.PortNumber = port /\ x.pc = "syn"
  OBVIOUS
<1> HIDE DEF x
<1>5. /\ listener' \in [Hosts -> Seq(ListenerRecords)]
      /\ new \in DOMAIN listener'[h] /\ listener'[h][new] = x
      /\ \A r \in Hosts : r # h => listener'[r] = listener[r]
      /\ DOMAIN listener'[h] = DOMAIN listener[h] \union {new}
      /\ \A k \in DOMAIN listener[h] : listener'[h][k] = listener[h][k] /\ k # new
  <2>1. listener \in [Hosts -> Seq(ListenerRecords)]
    BY DEF EndsInv, Typed
  <2>2. listener' = [listener EXCEPT ![h] = Append(@, x)]
    BY <1>1 DEF x
  <2> QED BY ONLY <1>3, <2>1, <2>2, ElementAdded, h \in Hosts
<1> HIDE DEF new
<1>6. /\ DOMAIN ListenersTable' = Hosts
      /\ \A r \in Hosts : r # h => ListenersTable'[r] = ListenersTable[r]
      /\ ListenersTable'[h] = Entered(ListenersTable[h], port, new)
  BY <1>1 DEF new, EndsInv, Typed
<1>7. /\ DOMAIN ListenersTable'[h] = DOMAIN ListenersTable[h] \union {port}
      /\ ListenersTable'[h][port] = new
      /\ \A n \in DOMAIN ListenersTable[h] : n # port => ListenersTable'[h][n] = ListenersTable[h][n]
  BY <1>6 DEF Entered
<1>8. Typed'
  BY <1>2, <1>5, <1>6 DEF EndsInv, Typed
<1>9. References'
  <2>1. \A r \in Hosts : DOMAIN listener[r] \subseteq DOMAIN listener'[r]
    BY <1>5
  <2>2. \A r \in Hosts :
          /\ DOMAIN ListenersTable'[r] \subseteq Ports
          /\ \A n \in DOMAIN ListenersTable'[r] : ListenersTable'[r][n] \in DOMAIN listener'[r]
    BY <1>3, <1>5, <1>6, <1>7, SMTT(30) DEF EndsInv, References
  <2>3. \A r \in Hosts : \A k \in DOMAIN listener'[r] :
          listener'[r][k].pc # "syn" => listener'[r][k].id \in DOMAIN socket[r]
    BY <1>4, <1>5 DEF EndsInv, References
  <2> QED BY <1>2, <2>1, <2>2, <2>3 DEF EndsInv, References
<1>10. ListenersPorts'
  <2> SUFFICES ASSUME NEW r \in Hosts
               PROVE  /\ \A n \in DOMAIN ListenersTable'[r] :
                           listener'[r][ListenersTable'[r][n]].PortNumber = n
                      /\ \A k \in DOMAIN listener'[r] :
                           /\ listener'[r][k].PortNumber \in Listening[r]
                           /\ listener'[r][k].pc # "syn" =>
                                LET s == socket'[r][listener'[r][k].id]
                                IN /\ s.by = "VAccept" /\ s.pc = "VAccept"
                                   /\ s.Conn.LocalPort = listener'[r][k].PortNumber
                      /\ loop'[r].to = "listener" =>
                           listener'[r][loop'[r].id].PortNumber = loop'[r].packet.DstPort
    BY DEF ListenersPorts
  <2>1. CASE r # h
    BY <1>2, <1>5, <1>6, <2>1 DEF EndsInv, ListenersPorts
  <2>2. CASE r = h
    <3>1. \A n \in DOMAIN ListenersTable'[h] :
            listener'[h][ListenersTable'[h][n]].PortNumber = n
      BY <1>4, <1>5, <1>7 DEF EndsInv, ListenersPorts, References
    <3>2. ASSUME NEW k \in DOMAIN listener'[h]
          PROVE  listener'[h][k].PortNumber \in Listening[h]
      BY <1>1, <1>4, <1>5 DEF EndsInv, ListenersPorts
    <3>3. ASSUME NEW k \in DOMAIN listener'[h], listener'[h][k].pc # "syn"
          PROVE  LET s == socket'[h][listener'[h][k].id]
                 IN /\ s.by = "VAccept" /\ s.pc = "VAccept"
                    /\ s.Conn.LocalPort = listener'[h][k].PortNumber
      BY <1>2, <1>4, <1>5, <3>3 DEF EndsInv, ListenersPorts
    <3>4. loop'[h].to = "listener" =>
            listener'[h][loop'[h].id].PortNumber = loop'[h].packet.DstPort
      BY <1>2, <1>5 DEF EndsInv, ListenersPorts, References
    <3> QED BY <2>2, <3>1, <3>2, <3>3, <3>4
  <2> QED BY <2>1, <2>2
<1>11. SocketsPorts' /\ EstablishedAreHandled'
  BY <1>2 DEF EndsInv, SocketsPorts, EstablishedAreHandled, Established
<1>12. OwnSockets'
  BY <1>4, <1>5, OwnSocketsKept DEF EndsInv
<1> QED BY <1>8, <1>9, <1>10, <1>11, <1>12 DEF EndsInv

\* The entry is of VAccept's own socket.
LEMMA InsertAcceptedEnds ==
    ASSUME EndsInv, NEW h \in Hosts, NEW k \in DOMAIN listener[h], InsertAccepted(h, k)
    PROVE  EndsInv'
<1> DEFINE i == listener[h][k].id
<1>1. /\ listener[h][k].pc = "insert"
      /\ SocketTable' = [SocketTable EXCEPT ![h] = Entered(@, socket[h][i].Conn, i)]
      /\ listener' = [listener EXCEPT ![h][k].pc = "synAck"]
      /\ UNCHANGED <<ListenersTable, socket, loop, net>>
  BY DEF InsertAccepted
<1>2. i \in DOMAIN socket[h] /\ socket[h][i].Conn \in Conns
  <2>1. i \in DOMAIN socket[h]
    BY <1>1 DEF EndsInv, References
  <2>2. socket[h][i] \in SocketRecords
    BY <2>1 DEF EndsInv, Typed
  <2> QED BY <2>1, <2>2 DEF SocketRecords
<1>3. VAcceptGoesTo(h, k, "synAck")
  BY <1>1, ListenerSet
<1>4. /\ DOMAIN SocketTable' = Hosts
      /\ \A r \in Hosts : r # h => SocketTable'[r] = SocketTable[r]
      /\ SocketTable'[h] = Entered(SocketTable[h], socket[h][i].Conn, i)
  BY <1>1 DEF EndsInv, Typed
<1>5. /\ DOMAIN SocketTable'[h] = DOMAIN SocketTable[h] \union {socket[h][i].Conn}
      /\ SocketTable'[h][socket[h][i].Conn] = i
      /\ \A conn \in DOMAIN SocketTable[h] :
           conn # socket[h][i].Conn => SocketTable'[h][conn] = SocketTable[h][conn]
  BY <1>4 DEF Entered
<1>6. Typed'
  BY <1>1, <1>3, <1>4 DEF EndsInv, Typed, VAcceptGoesTo
<1>7. ASSUME NEW r \in Hosts
      PROVE  /\ DOMAIN SocketTable'[r] \subseteq Conns
             /\ \A conn \in DOMAIN SocketTable'[r] :
                  /\ SocketTable'[r][conn] \in DOMAIN socket[r]
                  /\ socket[r][SocketTable'[r][conn]].Conn = conn
  <2>1. /\ DOMAIN SocketTable[r] \subseteq Conns
        /\ \A conn \in DOMAIN SocketTable[r] :
             /\ SocketTable[r][conn] \in DOMAIN socket[r]
             /\ socket[r][SocketTable[r][conn]].Conn = conn
    BY DEF EndsInv, References
  <2>2. CASE r = h
    BY <1>2, <1>5, <2>1, <2>2
  <2>3. CASE r # h
    BY <1>4, <2>1, <2>3
  <2> QED BY <2>2, <2>3
<1>8. \A r \in Hosts : \A l \in DOMAIN listener'[r] :
        listener'[r][l].pc # "syn" => listener[r][l].pc # "syn" /\ listener'[r][l].id = listener[r][l].id
  BY <1>1, <1>3 DEF VAcceptGoesTo
<1>9. References'
  <2> SUFFICES ASSUME NEW r \in Hosts
               PROVE  /\ DOMAIN ListenersTable[r] \subseteq Ports
                      /\ \A port \in DOMAIN ListenersTable[r] :
                           ListenersTable[r][port] \in DOMAIN listener'[r]
                      /\ \A l \in DOMAIN listener'[r] :
                           listener'[r][l].pc # "syn" => listener'[r][l].id \in DOMAIN socket[r]
                      /\ loop[r].to = "socket" => loop[r].id \in DOMAIN socket[r]
                      /\ loop[r].to = "listener" => loop[r].id \in DOMAIN listener'[r]
    BY <1>1, <1>7 DEF References
  <2>1. DOMAIN listener'[r] = DOMAIN listener[r]
    BY <1>3 DEF VAcceptGoesTo
  <2> QED BY <1>8, <2>1 DEF EndsInv, References
<1>10. ListenersPorts'
  <2> SUFFICES ASSUME NEW r \in Hosts
               PROVE  /\ \A port \in DOMAIN ListenersTable'[r] :
                           listener'[r][ListenersTable'[r][port]].PortNumber = port
                      /\ \A l \in DOMAIN listener'[r] :
                           /\ listener'[r][l].PortNumber \in Listening[r]
                           /\ listener'[r][l].pc # "syn" =>
                                LET s == socket'[r][listener'[r][l].id]
                                IN /\ s.by = "VAccept" /\ s.pc = "VAccept"
                                   /\ s.Conn.LocalPort = listener'[r][l].PortNumber
                      /\ loop'[r].to = "listener" =>
                           listener'[r][loop'[r].id].PortNumber = loop'[r].packet.DstPort
    BY DEF ListenersPorts
  <2>1. /\ DOMAIN listener'[r] = DOMAIN listener[r]
        /\ \A l \in DOMAIN listener[r] : listener'[r][l].PortNumber = listener[r][l].PortNumber
    BY <1>3 DEF VAcceptGoesTo
  <2>2. \A l \in DOMAIN listener'[r] :
           listener'[r][l].PortNumber \in Listening[r]
    BY <2>1 DEF EndsInv, ListenersPorts
  <2>3. \A l \in DOMAIN listener'[r] :
           listener'[r][l].pc # "syn" =>
                LET s == socket[r][listener'[r][l].id]
                IN /\ s.by = "VAccept" /\ s.pc = "VAccept"
                   /\ s.Conn.LocalPort = listener'[r][l].PortNumber
    BY <1>8, <2>1 DEF EndsInv, ListenersPorts
  <2>4. /\ \A port \in DOMAIN ListenersTable[r] :
             listener'[r][ListenersTable[r][port]].PortNumber = port
        /\ loop[r].to = "listener" => listener'[r][loop[r].id].PortNumber = loop[r].packet.DstPort
    BY <2>1 DEF EndsInv, References, ListenersPorts
  <2>5. ListenersTable'[r] = ListenersTable[r] /\ socket'[r] = socket[r] /\ loop'[r] = loop[r]
    BY <1>1
  <2> HIDE <1>1
  <2> QED BY <2>2, <2>3, <2>4, <2>5
<1>11. SocketsPorts' /\ EstablishedAreHandled'
  BY <1>1 DEF EndsInv, SocketsPorts, EstablishedAreHandled, Established
<1>12. OwnSockets'
  BY <1>1, <1>3, OwnSocketsKept DEF EndsInv, VAcceptGoesTo
<1> QED BY <1>6, <1>9, <1>10, <1>11, <1>12 DEF EndsInv

\* MakeTCPSocket's socket is the next one of its host.
NewID(h) == Len(socket[h]) + 1
SocketMade(h, s) ==
    /\ socket' \in [Hosts -> Seq(SocketRecords)]
    /\ socket'[h][NewID(h)] = s
    /\ NewID(h) \in Nat /\ NewID(h) \notin DOMAIN socket[h]
    /\ DOMAIN socket'[h] = DOMAIN socket[h] \union {NewID(h)}
    /\ \A i \in DOMAIN socket[h] : socket'[h][i] = socket[h][i]
    /\ \A r \in Hosts : r # h => socket'[r] = socket[r]

LEMMA SocketAdded ==
    ASSUME EndsInv, NEW h \in Hosts, NEW s \in SocketRecords, s.ConnState # "ESTABLISHED",
           s.pc # "HandleConn", socket' = [socket EXCEPT ![h] = Append(@, s)]
    PROVE  SocketMade(h, s) /\ EstablishedAreHandled'
<1>1. socket \in [Hosts -> Seq(SocketRecords)] /\ Len(socket[h]) \in Nat
  BY DEF EndsInv, Typed
<1>2. /\ socket' \in [Hosts -> Seq(SocketRecords)]
      /\ Len(socket[h]) + 1 \in DOMAIN socket'[h] /\ socket'[h][Len(socket[h]) + 1] = s
      /\ \A r \in Hosts : r # h => socket'[r] = socket[r]
      /\ DOMAIN socket'[h] = DOMAIN socket[h] \union {Len(socket[h]) + 1}
      /\ \A j \in DOMAIN socket[h] : socket'[h][j] = socket[h][j] /\ j # Len(socket[h]) + 1
  BY <1>1, ElementAdded
<1>3. SocketMade(h, s)
  BY <1>1, <1>2 DEF SocketMade, NewID
<1>4. EstablishedAreHandled'
  BY <1>3 DEF SocketMade, EndsInv, EstablishedAreHandled, Established
<1> QED BY <1>3, <1>4

\* The listener takes a SYN: its VAccept has the new socket, of its own port.
LEMMA TakeSynEffect ==
    ASSUME EndsInv, NEW h \in Hosts, NEW k \in DOMAIN listener[h], TakeSyn(h, k),
           loop[h].packet.Flags = "SYN"
    PROVE  \E seq \in SeqNums :
             LET packet == loop[h].packet
                 s == MakeTCPSocket("VAccept", "SYN_RECEIVED", ConnOf(packet), packet.SeqNum, seq)
             IN /\ SocketMade(h, s) /\ EstablishedAreHandled'
                /\ s \in SocketRecords /\ packet \in Packets
                /\ packet.DstPort = listener[h][k].PortNumber
                /\ listener' \in [Hosts -> Seq(ListenerRecords)]
                /\ \A r \in Hosts : DOMAIN listener'[r] = DOMAIN listener[r]
                /\ listener'[h][k].pc = "insert" /\ listener'[h][k].id = NewID(h)
                /\ listener'[h][k].PortNumber = listener[h][k].PortNumber
                /\ \A r \in Hosts : \A l \in DOMAIN listener[r] :
                     (r = h /\ l = k) \/ listener'[r][l] = listener[r][l]
<1> DEFINE packet == loop[h].packet
           made(seq) == MakeTCPSocket("VAccept", "SYN_RECEIVED", ConnOf(packet), packet.SeqNum, seq)
<1>1. loop[h].to = "listener" /\ loop[h].id = k
  BY DEF TakeSyn, HandedToListener
<1>2. packet \in Packets /\ packet.DstPort = listener[h][k].PortNumber
  BY <1>1 DEF EndsInv, Typed, Handing, Idle, ListenersPorts
<1>3. PICK seq \in SeqNums :
        /\ socket' = [socket EXCEPT ![h] = Append(@, made(seq))]
        /\ listener' = [listener EXCEPT ![h][k].pc = "insert", ![h][k].id = Len(socket[h]) + 1]
  BY DEF TakeSyn
<1>4. /\ made(seq) \in SocketRecords /\ made(seq).ConnState # "ESTABLISHED"
      /\ made(seq).pc # "HandleConn"
  BY <1>2, PacketsAreOfConns DEF SocketRecords, MakeTCPSocket, Packets
<1> HIDE DEF made
<1>5. SocketMade(h, made(seq)) /\ EstablishedAreHandled'
  BY <1>3, <1>4, SocketAdded
<1> DEFINE x == [listener[h][k] EXCEPT !.pc = "insert", !.id = NewID(h)]
<1>6. listener \in [Hosts -> Seq(ListenerRecords)] /\ listener[h][k] \in ListenerRecords
  BY DEF EndsInv, Typed
<1>7. /\ x \in ListenerRecords /\ x.pc = "insert" /\ x.id = NewID(h)
      /\ x.PortNumber = listener[h][k].PortNumber
  <2>1. NewID(h) \in Nat
    BY <1>5 DEF SocketMade
  <2> QED BY <1>6, <2>1 DEF ListenerRecords
<1>8. listener' = [listener EXCEPT ![h] = [listener[h] EXCEPT ![k] = x]]
  BY <1>3 DEF NewID
<1> HIDE DEF x
<1>9. /\ listener' \in [Hosts -> Seq(ListenerRecords)]
      /\ \A r \in Hosts : DOMAIN listener'[r] = DOMAIN listener[r]
      /\ \A r \in Hosts : \A l \in DOMAIN listener[r] :
           listener'[r][l] = IF r = h /\ l = k THEN x ELSE listener[r][l]
  <2>1. listener \in [Hosts -> Seq(ListenerRecords)] /\ x \in ListenerRecords
    BY <1>6, <1>7
  <2> QED BY ONLY <2>1, <1>8, ElementSet
<1>10. /\ listener' \in [Hosts -> Seq(ListenerRecords)]
       /\ \A r \in Hosts : DOMAIN listener'[r] = DOMAIN listener[r]
       /\ listener'[h][k] = x
       /\ \A r \in Hosts : \A l \in DOMAIN listener[r] :
            (r = h /\ l = k) \/ listener'[r][l] = listener[r][l]
  BY <1>9
<1> QED BY <1>2, <1>4, <1>5, <1>7, <1>10 DEF made

LEMMA TakeSynEnds ==
    ASSUME EndsInv, NEW h \in Hosts, NEW k \in DOMAIN listener[h], TakeSyn(h, k)
    PROVE  EndsInv'
<1>1. CASE loop[h].packet.Flags # "SYN"
  <2>1. VAcceptReturns(h, k) /\ UNCHANGED socket
    BY <1>1 DEF TakeSyn
  <2> QED BY <2>1, ReturnKeeps, KeepsEnds
<1>2. CASE loop[h].packet.Flags = "SYN"
  <2> DEFINE packet == loop[h].packet
             made(seq) ==
                 MakeTCPSocket("VAccept", "SYN_RECEIVED", ConnOf(packet), packet.SeqNum, seq)
             x == listener'[h][k]
  <2>1. PICK seq \in SeqNums :
          /\ SocketMade(h, made(seq)) /\ EstablishedAreHandled'
          /\ packet.DstPort = listener[h][k].PortNumber
          /\ listener' \in [Hosts -> Seq(ListenerRecords)]
          /\ \A r \in Hosts : DOMAIN listener'[r] = DOMAIN listener[r]
          /\ x.pc = "insert" /\ x.id = NewID(h) /\ x.PortNumber = listener[h][k].PortNumber
          /\ \A r \in Hosts : \A l \in DOMAIN listener[r] :
               (r = h /\ l = k) \/ listener'[r][l] = listener[r][l]
    BY <1>2, TakeSynEffect
  <2> DEFINE s == made(seq)
  <2>2. /\ s.by = "VAccept" /\ s.pc = "VAccept" /\ s.Conn.LocalPort = listener[h][k].PortNumber
    BY <2>1 DEF MakeTCPSocket, ConnOf
  <2>3. x.pc = "insert" /\ x.id = NewID(h) /\ x.PortNumber = listener[h][k].PortNumber
    BY <2>1
  <2>4. SocketMade(h, s)
    BY <2>1
  <2> HIDE DEF s, made
  <2>5. /\ UNCHANGED <<ListenersTable, SocketTable, net>>
        /\ \A r \in Hosts : loop'[r] = IF r = h THEN Idle ELSE loop[r]
        /\ loop' \in [Hosts -> {Idle} \union Handing]
    BY LoopSet DEF TakeSyn, HandedToListener
  <2>6. Typed'
    BY <2>1, <2>4, <2>5 DEF EndsInv, Typed, SocketMade
  <2>7. \A r \in Hosts : /\ DOMAIN socket[r] \subseteq DOMAIN socket'[r]
                         /\ \A i \in DOMAIN socket[r] : socket'[r][i] = socket[r][i]
    BY <2>4 DEF SocketMade
  <2>8. NewID(h) \in DOMAIN socket'[h] /\ socket'[h][NewID(h)] = s
    BY <2>4 DEF SocketMade
  <2>9. ASSUME NEW r \in Hosts
        PROVE  \A l \in DOMAIN listener'[r] :
                 /\ listener'[r][l].PortNumber = listener[r][l].PortNumber
                 /\ listener'[r][l].pc # "syn" =>
                      /\ listener'[r][l].id \in DOMAIN socket'[r]
                      /\ LET t == socket'[r][listener'[r][l].id]
                         IN /\ t.by = "VAccept" /\ t.pc = "VAccept"
                            /\ t.Conn.LocalPort = listener'[r][l].PortNumber
    <3> SUFFICES ASSUME NEW l \in DOMAIN listener'[r]
                 PROVE  /\ listener'[r][l].PortNumber = listener[r][l].PortNumber
                        /\ listener'[r][l].pc # "syn" =>
                             /\ listener'[r][l].id \in DOMAIN socket'[r]
                             /\ LET t == socket'[r][listener'[r][l].id]
                                IN /\ t.by = "VAccept" /\ t.pc = "VAccept"
                                   /\ t.Conn.LocalPort = listener'[r][l].PortNumber
      OBVIOUS
    <3>1. CASE r = h /\ l = k
      BY <2>1, <2>2, <2>3, <2>8, <3>1
    <3>2. CASE ~(r = h /\ l = k)
      <4>1. l \in DOMAIN listener[r] /\ listener'[r][l] = listener[r][l]
        BY <2>1, <3>2
      <4>2. listener[r][l].pc # "syn" =>
              /\ listener[r][l].id \in DOMAIN socket[r]
              /\ LET t == socket[r][listener[r][l].id]
                 IN /\ t.by = "VAccept" /\ t.pc = "VAccept"
                    /\ t.Conn.LocalPort = listener[r][l].PortNumber
        BY <4>1 DEF EndsInv, References, ListenersPorts
      <4> QED BY <2>7, <4>1, <4>2
    <3> QED BY <3>1, <3>2
  <2>10. References'
    BY <2>1, <2>5, <2>7, <2>9 DEF EndsInv, References, Idle
  <2>11. ListenersPorts'
    <3> SUFFICES ASSUME NEW r \in Hosts
                 PROVE  /\ \A port \in DOMAIN ListenersTable'[r] :
                             listener'[r][ListenersTable'[r][port]].PortNumber = port
                        /\ \A l \in DOMAIN listener'[r] :
                             /\ listener'[r][l].PortNumber \in Listening[r]
                             /\ listener'[r][l].pc # "syn" =>
                                  LET t == socket'[r][listener'[r][l].id]
                                  IN /\ t.by = "VAccept" /\ t.pc = "VAccept"
                                     /\ t.Conn.LocalPort = listener'[r][l].PortNumber
                        /\ loop'[r].to = "listener" =>
                             listener'[r][loop'[r].id].PortNumber = loop'[r].packet.DstPort
      BY DEF ListenersPorts
    <3>1. DOMAIN listener'[r] = DOMAIN listener[r] /\ ListenersTable'[r] = ListenersTable[r]
      BY <2>1, <2>5
    <3>2. \A port \in DOMAIN ListenersTable'[r] :
            listener'[r][ListenersTable'[r][port]].PortNumber = port
      BY <2>9, <3>1 DEF EndsInv, References, ListenersPorts
    <3>3. \A l \in DOMAIN listener'[r] :
            listener'[r][l].PortNumber \in Listening[r]
      BY <2>9, <3>1 DEF EndsInv, ListenersPorts
    <3>4. loop'[r].to = "listener" =>
            listener'[r][loop'[r].id].PortNumber = loop'[r].packet.DstPort
      BY <2>5, <2>9, <3>1, SMTT(30) DEF EndsInv, References, ListenersPorts, Idle
    <3> QED BY <2>9, <3>2, <3>3, <3>4
  <2>12. SocketsPorts'
    <3>1. listener[h][k].PortNumber \in Listening[h]
      BY DEF EndsInv, ListenersPorts
    <3>2. ASSUME NEW r \in Hosts, NEW i \in DOMAIN socket'[r]
          PROVE  socket'[r][i].Conn.LocalPort \in
                    IF socket'[r][i].by = "VConnect" THEN EphemeralPorts ELSE Listening[r]
      BY <2>2, <2>4, <3>1 DEF SocketMade, EndsInv, SocketsPorts
    <3>3. ASSUME NEW r \in Hosts, loop'[r].to = "socket"
          PROVE  socket'[r][loop'[r].id].Conn = ConnOf(loop'[r].packet)
      BY <2>5, <2>7, <3>3 DEF EndsInv, References, SocketsPorts, Idle
    <3> QED BY <3>2, <3>3 DEF SocketsPorts
  \* Nobody else has the new socket.
  <2>13. OwnSockets'
    <3> SUFFICES ASSUME NEW r \in Hosts, NEW l \in DOMAIN listener'[r],
                        NEW m \in DOMAIN listener'[r],
                        listener'[r][l].pc # "syn", listener'[r][m].pc # "syn",
                        listener'[r][l].id = listener'[r][m].id
                 PROVE  l = m
      BY DEF OwnSockets
    <3>1. l \in DOMAIN listener[r] /\ m \in DOMAIN listener[r]
      BY <2>1
    <3>2. NewID(h) \notin DOMAIN socket[h]
      BY DEF NewID, EndsInv, Typed
    <3>3. ASSUME NEW n \in DOMAIN listener[r], listener[r][n].pc # "syn"
          PROVE  listener[r][n].id \in DOMAIN socket[r]
      BY <3>3 DEF EndsInv, References
    <3>4. CASE r = h /\ (l = k \/ m = k)
      BY <2>1, <3>1, <3>2, <3>3, <3>4
    <3>5. CASE ~(r = h /\ (l = k \/ m = k))
      BY <2>1, <3>1, <3>5 DEF EndsInv, OwnSockets
    <3> QED BY <3>4, <3>5
  <2> QED BY <2>1, <2>6, <2>10, <2>11, <2>12, <2>13 DEF EndsInv
<1> QED BY <1>1, <1>2

\* VConnect makes a socket with an ephemeral port, and enters it under a
\* connection that is not in the table yet.
LEMMA CallVConnectEffect ==
    ASSUME EndsInv, NEW h \in Hosts, CallVConnect(h)
    PROVE  \E s \in SocketRecords :
             /\ s.by = "VConnect" /\ s.pc = "syn" /\ s.ConnState = "SYN_SENT"
             /\ s.Conn.LocalPort \in EphemeralPorts
             /\ SocketMade(h, s) /\ EstablishedAreHandled'
             /\ s.Conn \notin DOMAIN SocketTable[h] /\ s.Conn \in Conns
             /\ SocketTable' = [SocketTable EXCEPT ![h] = Entered(@, s.Conn, NewID(h))]
<1>1. PICK port \in EphemeralPorts, remote \in Hosts \ {h}, seq \in SeqNums :
        \E remotePort \in Dialled[h] :
          LET conn == [LocalPort |-> port, Remote |-> remote, RemotePort |-> remotePort]
              s == MakeTCPSocket("VConnect", "SYN_SENT", conn, 0, seq)
          IN /\ NotConnected(h, conn)
             /\ socket' = [socket EXCEPT ![h] = Append(@, s)]
             /\ SocketTable' = [SocketTable EXCEPT ![h] = Entered(@, conn, Len(socket[h]) + 1)]
  BY DEF CallVConnect
<1>2. PICK remotePort \in Dialled[h] :
        LET conn == [LocalPort |-> port, Remote |-> remote, RemotePort |-> remotePort]
            s == MakeTCPSocket("VConnect", "SYN_SENT", conn, 0, seq)
        IN /\ NotConnected(h, conn)
           /\ socket' = [socket EXCEPT ![h] = Append(@, s)]
           /\ SocketTable' = [SocketTable EXCEPT ![h] = Entered(@, conn, Len(socket[h]) + 1)]
  BY <1>1
<1> DEFINE conn == [LocalPort |-> port, Remote |-> remote, RemotePort |-> remotePort]
           s == MakeTCPSocket("VConnect", "SYN_SENT", conn, 0, seq)
<1>3. conn \in Conns /\ conn.LocalPort \in EphemeralPorts
  BY HandshakeAssumption DEF Conns
<1>4. conn \notin DOMAIN SocketTable[h]
  BY <1>2 DEF NotConnected
<1> HIDE DEF conn
<1>5. /\ s.Conn = conn /\ s.by = "VConnect" /\ s.pc = "syn" /\ s.ConnState = "SYN_SENT"
      /\ s \in SocketRecords
  <2>1. 0 \in 0 .. SeqSpace - 1
    BY HandshakeAssumption
  <2> QED BY <1>3, <2>1 DEF MakeTCPSocket, SocketRecords
<1>6. /\ socket' = [socket EXCEPT ![h] = Append(@, s)]
      /\ SocketTable' = [SocketTable EXCEPT ![h] = Entered(@, s.Conn, NewID(h))]
  BY <1>2, <1>5 DEF conn, NewID
<1> HIDE DEF s
<1>7. SocketMade(h, s) /\ EstablishedAreHandled'
  BY <1>5, <1>6, SocketAdded
<1> QED BY <1>3, <1>4, <1>5, <1>6, <1>7

LEMMA CallVConnectEnds ==
    ASSUME EndsInv, NEW h \in Hosts, CallVConnect(h)
    PROVE  EndsInv'
<1>1. PICK s \in SocketRecords :
        /\ s.by = "VConnect"
        /\ s.Conn.LocalPort \in EphemeralPorts
        /\ SocketMade(h, s) /\ EstablishedAreHandled'
        /\ s.Conn \in Conns
        /\ SocketTable' = [SocketTable EXCEPT ![h] = Entered(@, s.Conn, NewID(h))]
  BY CallVConnectEffect
<1>2. UNCHANGED <<ListenersTable, listener, loop, net>>
  BY DEF CallVConnect
<1>3. \A r \in Hosts : /\ DOMAIN socket[r] \subseteq DOMAIN socket'[r]
                       /\ \A i \in DOMAIN socket[r] : socket'[r][i] = socket[r][i]
  BY <1>1 DEF SocketMade
<1>4. NewID(h) \in DOMAIN socket'[h] /\ socket'[h][NewID(h)] = s
  BY <1>1 DEF SocketMade
<1>5. /\ DOMAIN SocketTable' = Hosts
      /\ \A r \in Hosts : r # h => SocketTable'[r] = SocketTable[r]
      /\ SocketTable'[h] = Entered(SocketTable[h], s.Conn, NewID(h))
  BY <1>1 DEF EndsInv, Typed
<1>6. /\ DOMAIN SocketTable'[h] = DOMAIN SocketTable[h] \union {s.Conn}
      /\ SocketTable'[h][s.Conn] = NewID(h)
      /\ \A conn \in DOMAIN SocketTable[h] :
           conn # s.Conn => SocketTable'[h][conn] = SocketTable[h][conn]
  BY <1>5 DEF Entered
<1>7. Typed'
  BY <1>1, <1>2, <1>5 DEF EndsInv, Typed, SocketMade
<1>8. ASSUME NEW r \in Hosts
      PROVE  /\ DOMAIN SocketTable'[r] \subseteq Conns
             /\ \A conn \in DOMAIN SocketTable'[r] :
                  /\ SocketTable'[r][conn] \in DOMAIN socket'[r]
                  /\ socket'[r][SocketTable'[r][conn]].Conn = conn
  <2>1. /\ DOMAIN SocketTable[r] \subseteq Conns
        /\ \A conn \in DOMAIN SocketTable[r] :
             /\ SocketTable[r][conn] \in DOMAIN socket'[r]
             /\ socket'[r][SocketTable[r][conn]].Conn = conn
    BY <1>3 DEF EndsInv, References
  <2>2. CASE r = h
    BY <1>1, <1>4, <1>6, <2>1, <2>2
  <2>3. CASE r # h
    BY <1>5, <2>1, <2>3
  <2> QED BY <2>2, <2>3
<1>9. References'
  BY <1>2, <1>3, <1>8 DEF EndsInv, References
<1>10. ListenersPorts'
  <2>1. ASSUME NEW r \in Hosts, NEW l \in DOMAIN listener[r], listener[r][l].pc # "syn"
        PROVE  LET t == socket'[r][listener[r][l].id]
               IN /\ t.by = "VAccept" /\ t.pc = "VAccept"
                  /\ t.Conn.LocalPort = listener[r][l].PortNumber
    BY <1>3, <2>1 DEF EndsInv, References, ListenersPorts
  <2> QED BY <1>2, <2>1 DEF EndsInv, ListenersPorts
<1>11. SocketsPorts'
  <2>1. ASSUME NEW r \in Hosts, NEW i \in DOMAIN socket'[r]
        PROVE  socket'[r][i].Conn.LocalPort \in
                  IF socket'[r][i].by = "VConnect" THEN EphemeralPorts ELSE Listening[r]
    BY <1>1 DEF SocketMade, EndsInv, SocketsPorts
  <2>2. ASSUME NEW r \in Hosts, loop[r].to = "socket"
        PROVE  socket'[r][loop[r].id].Conn = ConnOf(loop[r].packet)
    BY <1>3, <2>2 DEF EndsInv, References, SocketsPorts
  <2> QED BY <1>2, <2>1, <2>2 DEF SocketsPorts
<1>12. OwnSockets'
  BY <1>2 DEF EndsInv, OwnSockets
<1> QED BY <1>1, <1>7, <1>9, <1>10, <1>11, <1>12 DEF EndsInv

------------------------------------------------------------------------------
(* Types and references *)

LEMMA EndsInit ==
    Init => EndsInv
<1> SUFFICES ASSUME Init PROVE EndsInv
  OBVIOUS
<1>1. \A h \in Hosts :
        /\ DOMAIN ListenersTable[h] = {} /\ DOMAIN SocketTable[h] = {}
        /\ DOMAIN listener[h] = {} /\ DOMAIN socket[h] = {}
        /\ loop[h] = Idle
  BY DEF Init
<1>2. Typed
  BY EmptySeq DEF Init, Typed
<1>3. References /\ ListenersPorts /\ OwnSockets /\ SocketsPorts /\ EstablishedAreHandled
  BY <1>1 DEF References, ListenersPorts, OwnSockets, SocketsPorts, EstablishedAreHandled, Idle
<1> QED BY <1>2, <1>3 DEF EndsInv

LEMMA EndsStep ==
    ASSUME EndsInv, [Next]_vars
    PROVE  EndsInv'
<1>1. CASE Next
  <2>1. PICK h \in Hosts :
          \/ TcpHandler(h) \/ HandleConn(h) \/ VAccept(h) \/ VConnect(h)
          \/ VListen(h) \/ CallVConnect(h) \/ StopListener(h) \/ CloseSynSent(h)
          \/ SendFirstSegment(h) \/ Lose(h)
    BY <1>1 DEF Next
  <2>2. CASE VAccept(h)
    BY <2>2, TakeSynEnds, InsertAcceptedEnds, SendSynAckKeeps, AssignSynSentKeeps, TakeAckKeeps,
       ReturnKeeps, KeepsEnds DEF VAccept
  <2>3. CASE VConnect(h)
    BY <2>3, ConnectKeeps, KeepsEnds DEF VConnect
  <2> QED BY <2>1, <2>2, <2>3, TcpHandlerEnds, HandleConnKeeps, VListenEnds, CallVConnectEnds,
             CloseKeeps, KeepsEnds
<1>2. CASE UNCHANGED vars
  BY <1>2 DEF vars, EndsInv, Typed, References, ListenersPorts, OwnSockets, SocketsPorts,
              EstablishedAreHandled, Established
<1> QED BY <1>1, <1>2

\* The inductive invariant of the types, with who has which port: a port has
\* one listener, whose VAccept and packets are of that port, and a packet is
\* handed to the socket of its connection.
THEOREM EndsAreTyped == Spec => []EndsInv
<1>1. Init => EndsInv
  BY EndsInit
<1>2. EndsInv /\ [Next]_vars => EndsInv'
  BY EndsStep
<1> QED BY <1>1, <1>2, PTL DEF Spec

\* The tables name sockets and listeners that exist, TcpHandler and VAccept
\* hold on to such, and a socket is entered under its own connection, whatever
\* is closed, lost or made in the meantime.
THEOREM HandshakeIsTyped == Spec => []TypeOK
<1>1. EndsInv => TypeOK
  <2> SUFFICES ASSUME EndsInv, NEW h \in Hosts
               PROVE  /\ \A i \in DOMAIN socket[h] : socket[h][i] \in SocketRecords
                      /\ \A n \in DOMAIN net[h] : net[h][n] \in Packets
    BY DEF TypeOK, EndsInv, References
  <2>1. socket[h] \in Seq(SocketRecords) /\ net[h] \in Seq(Packets)
    BY DEF EndsInv, Typed
  <2> QED BY <2>1
<1> QED BY <1>1, EndsAreTyped, PTL
------------------------------------------------------------------------------
(* Sockets stay and only move on *)

SocketsMoveOn ==
    \A h \in Hosts : \A i \in DOMAIN socket[h] :
        i \in DOMAIN socket'[h] /\ SocketMoves(socket[h][i], socket'[h][i])

\* Two operations make a socket.
LEMMA SocketSteps ==
    ASSUME EndsInv, [Next]_vars
    PROVE  \/ SocketsKeep
           \/ \E h \in Hosts : \E k \in DOMAIN listener[h] :
                TakeSyn(h, k) /\ loop[h].packet.Flags = "SYN"
           \/ \E h \in Hosts : CallVConnect(h)
<1>1. CASE UNCHANGED socket
  BY <1>1, SocketsSame
<1>2. CASE Next
  <2>1. PICK h \in Hosts :
          \/ TcpHandler(h) \/ HandleConn(h) \/ VAccept(h) \/ VConnect(h)
          \/ VListen(h) \/ CallVConnect(h) \/ StopListener(h) \/ CloseSynSent(h)
          \/ SendFirstSegment(h) \/ Lose(h)
    BY <1>2 DEF Next
  <2>2. CASE TcpHandler(h) \/ VListen(h)
    BY <1>1, <2>2 DEF TcpHandler, VListen
  <2>3. CASE VAccept(h)
    <3>1. PICK k \in DOMAIN listener[h] :
            \/ TakeSyn(h, k) \/ InsertAccepted(h, k) \/ SendSynAck(h, k)
            \/ AssignSynSent(h, k) \/ TakeAck(h, k) \/ TakeStopFlag(h, k)
      BY <2>3 DEF VAccept
    <3>2. CASE TakeSyn(h, k) /\ loop[h].packet.Flags # "SYN"
      BY <1>1, <3>2 DEF TakeSyn
    <3>3. CASE InsertAccepted(h, k)
      BY <1>1, <3>3 DEF InsertAccepted
    <3> QED BY <3>1, <3>2, <3>3, SendSynAckKeeps, AssignSynSentKeeps, TakeAckKeeps,
               ReturnKeeps DEF Keeps
  <2>4. CASE VConnect(h)
    BY <2>4, ConnectKeeps DEF VConnect, Keeps
  <2> QED BY <2>1, <2>2, <2>3, <2>4, HandleConnKeeps, CloseKeeps DEF Keeps
<1>3. CASE UNCHANGED vars
  BY <1>1, <1>3 DEF vars
<1> QED BY <1>2, <1>3

LEMMA MovesOn ==
    ASSUME EndsInv, [Next]_vars
    PROVE  SocketsMoveOn
<1>1. \A t : SocketMoves(t, t)
  BY DEF SocketMoves
<1>2. CASE SocketsKeep
  BY <1>2 DEF SocketsKeep, SocketsMoveOn
<1>3. ASSUME NEW h \in Hosts, NEW s, SocketMade(h, s)
      PROVE  SocketsMoveOn
  BY <1>1, <1>3 DEF SocketMade, SocketsMoveOn
<1> QED BY <1>2, <1>3, SocketSteps, TakeSynEffect, CallVConnectEffect

\* No step takes a socket away, or changes what its two ends have agreed on: a
\* connection stays its own, is established once and stays so, and a VConnect
\* that has given up never comes back, whoever closes, loses or sends what.
THEOREM SocketsOnlyMoveOn == Spec => [][SocketsMoveOn]_vars
<1>1. EndsInv /\ [Next]_vars => SocketsMoveOn
  BY MovesOn
<1> QED BY <1>1, EndsAreTyped, PTL DEF Spec
------------------------------------------------------------------------------
(* Established connections are found in SocketTable *)

TableInv == ConnectingInTable /\ AcceptingInTable

LEMMA EstablishedAreIn ==
    ASSUME EndsInv, TableInv
    PROVE  EstablishedInTable
<1>1. ASSUME NEW h \in Hosts, NEW i \in DOMAIN socket[h], Established(h, i),
             ListenedOnOnce(h, socket[h][i].Conn.LocalPort)
      PROVE  InTable(h, i)
  <2>1. socket[h][i] \in SocketRecords /\ socket[h][i].pc = "HandleConn"
    BY <1>1 DEF EndsInv, Typed, EstablishedAreHandled
  <2>2. CASE socket[h][i].by = "VConnect"
    BY <2>1, <2>2 DEF TableInv, ConnectingInTable
  <2>3. CASE socket[h][i].by = "VAccept"
    <3>1. socket[h][i].Conn.LocalPort \in Ports
      BY <2>1 DEF SocketRecords, Conns
    <3> QED BY <1>1, <2>3, <3>1 DEF TableInv, AcceptingInTable, AcceptedInTable
  <2> QED BY <2>1, <2>2, <2>3 DEF SocketRecords
<1> QED BY <1>1 DEF EstablishedInTable, InTable

\* Listeners stay, and keep their ports.
LEMMA OnceBefore ==
    ASSUME NEW h \in Hosts, NEW port, ListenedOnOnce(h, port)',
           \A k \in DOMAIN listener[h] :
                k \in DOMAIN listener'[h] /\ listener'[h][k].PortNumber = listener[h][k].PortNumber
    PROVE  ListenedOnOnce(h, port)
BY DEF ListenedOnOnce

LEMMA KeepsOnce ==
    ASSUME NEW h \in Hosts, NEW port, ListenedOnOnce(h, port)', Keeps
    PROVE  ListenedOnOnce(h, port)
BY OnceBefore DEF Keeps, ListenersKeep

\* The ends of VConnect and of VAccept are never of the same connection.
LEMMA EndsDiffer ==
    ASSUME EndsInv, DistinctPorts, NEW h \in Hosts,
           NEW i \in DOMAIN socket[h], NEW j \in DOMAIN socket[h],
           socket[h][i].by = "VConnect", socket[h][j].by = "VAccept"
    PROVE  socket[h][i].Conn # socket[h][j].Conn
BY DEF EndsInv, SocketsPorts, DistinctPorts

\* A socket that VAccept has in hand, or that a packet for it asks for, is of its
\* listener's port.
LEMMA AcceptedPorts ==
    ASSUME EndsInv, NEW h \in Hosts
    PROVE  /\ \A k \in DOMAIN listener[h] :
                /\ listener[h][k].PortNumber \in Ports
                /\ listener[h][k].pc # "syn" =>
                     socket[h][listener[h][k].id].Conn.LocalPort = listener[h][k].PortNumber
           /\ loop[h].to = "listener" =>
                /\ ConnOf(loop[h].packet).LocalPort = loop[h].packet.DstPort
                /\ loop[h].id \in DOMAIN listener[h]
                /\ listener[h][loop[h].id].PortNumber = loop[h].packet.DstPort
BY HandshakeAssumption DEF EndsInv, ListenersPorts, References, ConnOf

\* Of two VAccepts the sockets are never of the same connection, if their port
\* was listened on once.
LEMMA AcceptedDiffer ==
    ASSUME EndsInv, NEW h \in Hosts, NEW k \in DOMAIN listener[h], NEW l \in DOMAIN listener[h],
           k # l, listener[h][k].pc # "syn", listener[h][l].pc # "syn",
           ListenedOnOnce(h, listener[h][l].PortNumber)
    PROVE  socket[h][listener[h][k].id].Conn # socket[h][listener[h][l].id].Conn
BY AcceptedPorts DEF ListenedOnOnce

\* What VAccept has made or is about to make is not of a VConnect's connection.
LEMMA ConnectingDiffer ==
    ASSUME EndsInv, DistinctPorts, NEW h \in Hosts, NEW i \in DOMAIN socket[h],
           socket[h][i].by = "VConnect"
    PROVE  /\ \A k \in DOMAIN listener[h] : listener[h][k].pc # "syn" =>
                socket[h][i].Conn # socket[h][listener[h][k].id].Conn
           /\ loop[h].to = "listener" => socket[h][i].Conn # ConnOf(loop[h].packet)
<1>1. socket[h][i].Conn.LocalPort \in EphemeralPorts
  BY DEF EndsInv, SocketsPorts
<1>2. \A k \in DOMAIN listener[h] : listener[h][k].PortNumber \notin EphemeralPorts
  BY DEF EndsInv, ListenersPorts, DistinctPorts
<1>3. \A k \in DOMAIN listener[h] : listener[h][k].pc # "syn" =>
        socket[h][listener[h][k].id].Conn.LocalPort = listener[h][k].PortNumber
  BY DEF EndsInv, ListenersPorts
<1>4. loop[h].to = "listener" => ConnOf(loop[h].packet).LocalPort \notin EphemeralPorts
  BY <1>2 DEF EndsInv, References, ListenersPorts, ConnOf
<1> QED BY <1>1, <1>2, <1>3, <1>4

\* A step that leaves the table alone, makes no socket and establishes none of
\* VAccept's that is not in the table, or that another VAccept is about to
\* replace.
LEMMA KeepsTable ==
    ASSUME EndsInv, EndsInv', TableInv, DistinctPorts, Keeps, UNCHANGED SocketTable,
           \A h \in Hosts : \A k \in DOMAIN listener[h] :
                listener'[h][k].pc # "syn" =>
                    (listener'[h][k].pc = "insert" <=> listener[h][k].pc = "insert"),
           \A h \in Hosts : \A i \in DOMAIN socket[h] :
                socket[h][i].by = "VAccept" /\ Established(h, i)' /\ ~Established(h, i) =>
                    /\ ListenedOnOnce(h, socket[h][i].Conn.LocalPort) => InTable(h, i)
                    /\ \A k \in DOMAIN listener[h] :
                         listener'[h][k].pc = "insert" =>
                            (ListenedOnOnce(h, listener[h][k].PortNumber) =>
                                socket[h][i].Conn # socket[h][listener[h][k].id].Conn)
                    /\ loop'[h].to # "listener"
    PROVE  TableInv'
<1>1. \A h \in Hosts :
        /\ DOMAIN socket'[h] = DOMAIN socket[h]
        /\ \A i \in DOMAIN socket[h] :
             /\ SocketMoves(socket[h][i], socket'[h][i])
             /\ socket'[h][i].Conn = socket[h][i].Conn /\ socket'[h][i].by = socket[h][i].by
  BY DEF Keeps, SocketsKeep, SocketMoves
<1>2. \A h \in Hosts : \A i \in DOMAIN socket[h] : InTable(h, i) => InTable(h, i)'
  BY <1>1 DEF InTable
<1>3. ConnectingInTable'
  <2> SUFFICES ASSUME NEW h \in Hosts, NEW i \in DOMAIN socket'[h],
                      socket'[h][i].by = "VConnect", socket'[h][i].pc # "failed"
               PROVE  InTable(h, i)'
    BY DEF ConnectingInTable
  <2>1. socket[h][i].by = "VConnect" /\ socket[h][i].pc # "failed"
    BY <1>1 DEF SocketMoves
  <2> QED BY <1>1, <1>2, <2>1 DEF TableInv, ConnectingInTable
<1>4. \A h \in Hosts : \A k \in DOMAIN listener[h] : listener'[h][k].pc # "syn" =>
        /\ listener[h][k].pc # "syn" /\ listener'[h][k].id = listener[h][k].id
        /\ listener[h][k].id \in DOMAIN socket[h]
        /\ listener'[h][k].pc = "insert" <=> listener[h][k].pc = "insert"
  BY DEF Keeps, ListenersKeep, EndsInv, References
<1>5. \A h \in Hosts :
        /\ DOMAIN listener'[h] = DOMAIN listener[h]
        /\ \A k \in DOMAIN listener[h] : listener'[h][k].PortNumber = listener[h][k].PortNumber
  BY DEF Keeps, ListenersKeep
<1>6. ASSUME NEW h \in Hosts, NEW port \in Ports, ListenedOnOnce(h, port)'
      PROVE  AcceptedInTable(h, port)'
  <2>0. ListenedOnOnce(h, port) /\ AcceptedInTable(h, port)
    <3>1. ListenedOnOnce(h, port)
      BY <1>6, KeepsOnce
    <3> QED BY <3>1 DEF TableInv, AcceptingInTable
  <2>1. ASSUME NEW i \in DOMAIN socket'[h], socket'[h][i].by = "VAccept", Established(h, i)',
               socket'[h][i].Conn.LocalPort = port
        PROVE  InTable(h, i)'
    <3>1. /\ i \in DOMAIN socket[h] /\ socket[h][i].by = "VAccept"
          /\ socket[h][i].Conn.LocalPort = port
      BY <1>1, <2>1
    <3>2. InTable(h, i)
      BY <2>0, <2>1, <3>1 DEF AcceptedInTable
    <3> QED BY <1>2, <3>1, <3>2
  <2>2. ASSUME NEW k \in DOMAIN listener'[h], listener'[h][k].PortNumber = port,
               listener'[h][k].pc # "syn", listener'[h][k].pc # "insert"
        PROVE  InTable(h, listener[h][k].id)'
    <3>1. /\ k \in DOMAIN listener[h] /\ listener[h][k].pc # "syn"
          /\ listener[h][k].PortNumber = port
          /\ listener[h][k].pc # "insert" /\ listener'[h][k].id = listener[h][k].id
          /\ listener[h][k].id \in DOMAIN socket[h]
      BY <1>4, <1>5, <2>2
    <3>2. InTable(h, listener[h][k].id)
      BY <2>0, <3>1 DEF AcceptedInTable
    <3>3. PICK i : i = listener[h][k].id
      OBVIOUS
    <3>4. InTable(h, i) /\ i \in DOMAIN socket[h]
      BY <3>1, <3>2, <3>3 DEF InTable
    <3>5. InTable(h, i)'
      BY <1>2, <3>4
    <3> QED BY <3>1, <3>3, <3>5 DEF InTable
  <2>3. ASSUME NEW k \in DOMAIN listener'[h], listener'[h][k].PortNumber = port,
               listener'[h][k].pc = "insert",
               NEW j \in DOMAIN socket'[h], Established(h, j)'
        PROVE  socket'[h][j].Conn # socket'[h][listener'[h][k].id].Conn
    <3> DEFINE i == listener[h][k].id
    <3>1. /\ k \in DOMAIN listener[h] /\ listener[h][k].pc = "insert"
          /\ listener[h][k].PortNumber = port
          /\ listener'[h][k].id = i /\ i \in DOMAIN socket[h]
      BY <1>4, <1>5, <2>3
    <3>2. j \in DOMAIN socket[h] /\ socket[h][j] \in SocketRecords
      BY <1>1 DEF EndsInv, Typed
    <3>3. CASE Established(h, j)
      <4>1. socket[h][j].Conn # socket[h][i].Conn
        BY <2>0, <3>1, <3>2, <3>3 DEF AcceptedInTable
      <4> QED BY <1>1, <3>1, <3>2, <4>1
    <3>4. CASE socket[h][j].by = "VConnect"
      <4>1. socket[h][j].Conn # socket[h][i].Conn
        BY <3>1, <3>2, <3>4, ConnectingDiffer
      <4> QED BY <1>1, <3>1, <3>2, <4>1
    <3>5. CASE socket[h][j].by = "VAccept" /\ ~Established(h, j)
      <4>1. socket[h][j].Conn # socket[h][i].Conn
        BY <2>0, <2>3, <3>1, <3>2, <3>5
      <4> QED BY <1>1, <3>1, <3>2, <4>1
    <3> QED BY <3>2, <3>3, <3>4, <3>5 DEF SocketRecords
  <2>4. ASSUME loop'[h].to = "listener", loop'[h].packet.DstPort = port,
               NEW j \in DOMAIN socket'[h], Established(h, j)'
        PROVE  socket'[h][j].Conn # ConnOf(loop'[h].packet)
    <3>1. loop'[h] = loop[h]
      BY <2>4 DEF Keeps, LoopKeeps, Idle
    <3>2. j \in DOMAIN socket[h] /\ socket[h][j] \in SocketRecords
      BY <1>1 DEF EndsInv, Typed
    <3>3. CASE Established(h, j)
      BY <1>1, <2>0, <2>4, <3>1, <3>2, <3>3 DEF AcceptedInTable
    <3>4. CASE socket[h][j].by = "VConnect"
      BY <1>1, <2>4, <3>1, <3>2, <3>4, ConnectingDiffer
    <3>5. CASE socket[h][j].by = "VAccept" /\ ~Established(h, j)
      BY <2>4, <3>2, <3>5
    <3> QED BY <3>2, <3>3, <3>4, <3>5 DEF SocketRecords
  <2>5. \A k \in DOMAIN listener'[h] : listener'[h][k].pc # "syn" =>
          listener'[h][k].id = listener[h][k].id
    BY <1>4, <1>5
  <2> QED BY <2>1, <2>2, <2>3, <2>4, <2>5 DEF AcceptedInTable, InTable
<1>7. AcceptingInTable'
  BY <1>6 DEF AcceptingInTable
<1> QED BY <1>3, <1>7 DEF TableInv

LEMMA TcpHandlerTable ==
    ASSUME EndsInv, TableInv, NEW h \in Hosts, TcpHandler(h)
    PROVE  TableInv'
<1>1. UNCHANGED <<listener, SocketTable, socket>>
  BY DEF TcpHandler
<1>2. \A r \in Hosts : r # h => loop'[r] = loop[r]
  BY DEF TcpHandler, EndsInv, Typed
<1>3. loop'[h].to = "listener" => ConnOf(loop'[h].packet) \notin DOMAIN SocketTable[h]
  BY DEF TcpHandler, EndsInv, Typed, Idle
<1>4. \A j \in DOMAIN socket[h] :
        Established(h, j) /\ ListenedOnOnce(h, socket[h][j].Conn.LocalPort) =>
            socket[h][j].Conn \in DOMAIN SocketTable[h]
  BY EstablishedAreIn DEF EstablishedInTable
<1>5. ConnectingInTable'
  BY <1>1 DEF TableInv, ConnectingInTable, InTable
<1>6. ASSUME NEW r \in Hosts, NEW port \in Ports, ListenedOnOnce(r, port)'
      PROVE  AcceptedInTable(r, port)'
  <2>1. ListenedOnOnce(r, port)
    BY <1>1, <1>6 DEF ListenedOnOnce
  <2>2. AcceptedInTable(r, port)
    BY <2>1 DEF TableInv, AcceptingInTable
  <2>3. ASSUME r = h, loop'[r].to = "listener", loop'[r].packet.DstPort = port,
               NEW j \in DOMAIN socket[r], Established(r, j)
        PROVE  socket[r][j].Conn # ConnOf(loop'[r].packet)
    BY <1>3, <1>4, <2>1, <2>3 DEF ConnOf
  <2>4. loop'[r].to = "listener" /\ loop'[r].packet.DstPort = port =>
          \A j \in DOMAIN socket[r] :
            Established(r, j) => socket[r][j].Conn # ConnOf(loop'[r].packet)
    BY <1>2, <2>2, <2>3 DEF AcceptedInTable
  <2> QED BY <1>1, <2>2, <2>4 DEF AcceptedInTable, InTable, Established
<1> QED BY <1>5, <1>6 DEF TableInv, AcceptingInTable

LEMMA VListenTable ==
    ASSUME EndsInv, TableInv, NEW h \in Hosts, VListen(h)
    PROVE  TableInv'
<1>1. UNCHANGED <<SocketTable, socket, loop>>
  BY DEF VListen
<1>2. \A r \in Hosts :
        /\ \A k \in DOMAIN listener'[r] : listener'[r][k].pc # "syn" =>
             k \in DOMAIN listener[r] /\ listener'[r][k] = listener[r][k]
        /\ \A k \in DOMAIN listener[r] :
             k \in DOMAIN listener'[r] /\ listener'[r][k] = listener[r][k]
  <2>1. PICK port \in Listening[h] : listener' = [listener EXCEPT ![h] =
            Append(@, [PortNumber |-> port, pc |-> "syn", id |-> 0])]
    BY DEF VListen
  <2> DEFINE x == [PortNumber |-> port, pc |-> "syn", id |-> 0]
  <2>2. x \in ListenerRecords /\ x.pc = "syn"
    BY HandshakeAssumption DEF ListenerRecords
  <2>3. listener \in [Hosts -> Seq(ListenerRecords)] /\ listener' = [listener EXCEPT ![h] = Append(@, x)]
    BY <2>1 DEF EndsInv, Typed
  <2> HIDE DEF x
  <2>4. /\ listener'[h][Len(listener[h]) + 1] = x
        /\ \A r \in Hosts : r # h => listener'[r] = listener[r]
        /\ DOMAIN listener'[h] = DOMAIN listener[h] \union {Len(listener[h]) + 1}
        /\ \A k \in DOMAIN listener[h] : listener'[h][k] = listener[h][k]
    BY ONLY <2>2, <2>3, ElementAdded, h \in Hosts
  <2> QED BY <2>2, <2>4
<1>3. ConnectingInTable'
  BY <1>1 DEF TableInv, ConnectingInTable, InTable
<1>4. ASSUME NEW r \in Hosts, NEW port \in Ports, ListenedOnOnce(r, port)'
      PROVE  AcceptedInTable(r, port)'
  <2>1. AcceptedInTable(r, port)
    <3>1. ListenedOnOnce(r, port)
      BY <1>2, <1>4, OnceBefore
    <3> QED BY <3>1 DEF TableInv, AcceptingInTable
  <2> QED BY <1>1, <1>2, <2>1 DEF AcceptedInTable, InTable, Established
<1> QED BY <1>3, <1>4 DEF TableInv, AcceptingInTable

\* The connection of a SYN is one that nobody has established: TcpHandler did
\* not find it in the table.
LEMMA TakeSynTable ==
    ASSUME EndsInv, TableInv, NEW h \in Hosts, NEW k \in DOMAIN listener[h], TakeSyn(h, k),
           loop[h].packet.Flags = "SYN"
    PROVE  TableInv'
<1> DEFINE packet == loop[h].packet
           made(seq) == MakeTCPSocket("VAccept", "SYN_RECEIVED", ConnOf(packet), packet.SeqNum, seq)
<1>1. PICK seq \in SeqNums :
        /\ SocketMade(h, made(seq))
        /\ \A r \in Hosts : DOMAIN listener'[r] = DOMAIN listener[r]
        /\ listener'[h][k].pc = "insert" /\ listener'[h][k].id = NewID(h)
        /\ listener'[h][k].PortNumber = listener[h][k].PortNumber
        /\ packet.DstPort = listener[h][k].PortNumber
        /\ \A r \in Hosts : \A l \in DOMAIN listener[r] :
             (r = h /\ l = k) \/ listener'[r][l] = listener[r][l]
  BY TakeSynEffect
<1> DEFINE s == made(seq)
<1>2. s.by = "VAccept" /\ s.Conn = ConnOf(packet) /\ s.ConnState # "ESTABLISHED"
  BY DEF MakeTCPSocket
<1>3. SocketMade(h, s)
  BY <1>1
<1> HIDE DEF s, made
<1>4. loop[h].to = "listener" /\ UNCHANGED SocketTable
      /\ \A r \in Hosts : loop'[r] = IF r = h THEN Idle ELSE loop[r]
  BY LoopSet DEF TakeSyn, HandedToListener
<1>5. \A r \in Hosts : \A i \in DOMAIN socket'[r] :
        \/ i \in DOMAIN socket[r] /\ socket'[r][i] = socket[r][i]
        \/ r = h /\ i = NewID(h) /\ socket'[r][i] = s
  BY <1>3 DEF SocketMade
<1>6. ConnectingInTable'
  <2> SUFFICES ASSUME NEW r \in Hosts, NEW i \in DOMAIN socket'[r],
                      socket'[r][i].by = "VConnect", socket'[r][i].pc # "failed"
               PROVE  InTable(r, i)'
    BY DEF ConnectingInTable
  <2>1. i \in DOMAIN socket[r] /\ socket'[r][i] = socket[r][i]
    BY <1>2, <1>5
  <2> QED BY <1>4, <2>1 DEF TableInv, ConnectingInTable, InTable
<1>7. ASSUME NEW r \in Hosts, NEW i \in DOMAIN socket'[r], Established(r, i)'
      PROVE  i \in DOMAIN socket[r] /\ socket'[r][i] = socket[r][i] /\ Established(r, i)
  BY <1>2, <1>5, <1>7 DEF Established
<1>8. ASSUME NEW r \in Hosts, NEW port \in Ports, ListenedOnOnce(r, port)'
      PROVE  AcceptedInTable(r, port)'
  <2>1. AcceptedInTable(r, port)
    <3>1. ListenedOnOnce(r, port)
      BY <1>1, <1>8, OnceBefore
    <3> QED BY <3>1 DEF TableInv, AcceptingInTable
  <2>2. ASSUME NEW i \in DOMAIN socket'[r], socket'[r][i].by = "VAccept", Established(r, i)',
               socket'[r][i].Conn.LocalPort = port
        PROVE  InTable(r, i)'
    BY <1>4, <1>7, <2>1, <2>2 DEF AcceptedInTable, InTable
  <2>3. ASSUME NEW l \in DOMAIN listener'[r], listener'[r][l].pc # "syn",
               ~(r = h /\ l = k)
        PROVE  /\ l \in DOMAIN listener[r] /\ listener'[r][l] = listener[r][l]
               /\ listener[r][l].id \in DOMAIN socket[r]
               /\ socket'[r][listener[r][l].id] = socket[r][listener[r][l].id]
    <3>1. l \in DOMAIN listener[r] /\ listener'[r][l] = listener[r][l]
      BY <1>1, <2>3
    <3>2. listener[r][l].id \in DOMAIN socket[r]
      BY <2>3, <3>1 DEF EndsInv, References
    <3> QED BY <1>3, <3>1, <3>2 DEF SocketMade
  <2>4. ASSUME NEW l \in DOMAIN listener'[r], listener'[r][l].PortNumber = port,
               listener'[r][l].pc # "syn", listener'[r][l].pc # "insert"
        PROVE  InTable(r, listener[r][l].id)'
    <3>1. ~(r = h /\ l = k)
      BY <1>1, <2>4
    <3>2. InTable(r, listener[r][l].id)
      BY <2>1, <2>3, <2>4, <3>1 DEF AcceptedInTable
    <3> QED BY <1>4, <2>3, <2>4, <3>1, <3>2 DEF InTable
  <2>5. ASSUME NEW l \in DOMAIN listener'[r], listener'[r][l].PortNumber = port,
               listener'[r][l].pc = "insert",
               NEW j \in DOMAIN socket'[r], Established(r, j)'
        PROVE  socket'[r][j].Conn # socket'[r][listener'[r][l].id].Conn
    <3>1. CASE r = h /\ l = k
      <4>1. socket'[r][listener'[r][l].id].Conn = ConnOf(packet)
        BY <1>1, <1>2, <1>3, <3>1 DEF SocketMade
      <4>2. packet.DstPort = port
        BY <1>1, <2>5, <3>1
      <4> QED BY <1>4, <1>7, <2>1, <2>5, <3>1, <4>1, <4>2 DEF AcceptedInTable
    <3>2. CASE ~(r = h /\ l = k)
      BY <1>7, <2>1, <2>3, <2>5, <3>2 DEF AcceptedInTable
    <3> QED BY <3>1, <3>2
  <2>6. ASSUME loop'[r].to = "listener", loop'[r].packet.DstPort = port,
               NEW j \in DOMAIN socket'[r], Established(r, j)'
        PROVE  socket'[r][j].Conn # ConnOf(loop'[r].packet)
    BY <1>4, <1>7, <2>1, <2>6 DEF AcceptedInTable, Idle
  <2> QED BY <2>2, <2>4, <2>5, <2>6 DEF AcceptedInTable, InTable
<1> QED BY <1>6, <1>8 DEF TableInv, AcceptingInTable

LEMMA EntryMade ==
    ASSUME NEW table, NEW key, NEW value
    PROVE  /\ key \in DOMAIN Entered(table, key, value) /\ Entered(table, key, value)[key] = value
           /\ \A c \in DOMAIN table : c # key =>
                c \in DOMAIN Entered(table, key, value) /\ Entered(table, key, value)[c] = table[c]
BY DEF Entered

\* VAccept's entry replaces none of an established or a connecting socket.
LEMMA InsertAcceptedTable ==
    ASSUME EndsInv, TableInv, DistinctPorts, NEW h \in Hosts, NEW k \in DOMAIN listener[h],
           InsertAccepted(h, k)
    PROVE  TableInv'
<1> DEFINE i == listener[h][k].id
           conn == socket[h][i].Conn
<1>1. /\ listener[h][k].pc = "insert"
      /\ SocketTable' = [SocketTable EXCEPT ![h] = Entered(@, conn, i)]
      /\ listener' = [listener EXCEPT ![h][k].pc = "synAck"]
      /\ UNCHANGED <<socket, loop>>
  BY DEF InsertAccepted
<1>2. VAcceptGoesTo(h, k, "synAck")
  BY <1>1, ListenerSet
<1>3. /\ \A r \in Hosts : r # h => SocketTable'[r] = SocketTable[r]
      /\ SocketTable'[h] = Entered(SocketTable[h], conn, i)
  BY <1>1 DEF EndsInv, Typed
<1>4. /\ conn \in DOMAIN SocketTable'[h] /\ SocketTable'[h][conn] = i
      /\ \A c \in DOMAIN SocketTable[h] : c # conn =>
           c \in DOMAIN SocketTable'[h] /\ SocketTable'[h][c] = SocketTable[h][c]
  <2> HIDE DEF conn
  <2>1. SocketTable'[h] = Entered(SocketTable[h], conn, i)
    BY <1>3
  <2>2. /\ conn \in DOMAIN Entered(SocketTable[h], conn, i)
        /\ Entered(SocketTable[h], conn, i)[conn] = i
        /\ \A c \in DOMAIN SocketTable[h] : c # conn =>
             /\ c \in DOMAIN Entered(SocketTable[h], conn, i)
             /\ Entered(SocketTable[h], conn, i)[c] = SocketTable[h][c]
    BY ONLY EntryMade
  <2> QED BY ONLY <2>1, <2>2
<1>5. InTable(h, i)'
  <2>1. listener'[h][k].id = i
    BY <1>2 DEF VAcceptGoesTo
  <2> QED BY <1>1, <1>4, <2>1 DEF InTable
<1>6. \A r \in Hosts : \A j \in DOMAIN socket[r] :
        InTable(r, j) /\ ~(r = h /\ socket[r][j].Conn = conn) => InTable(r, j)'
  BY <1>1, <1>3, <1>4 DEF InTable
<1>7. ConnectingInTable'
  <2> SUFFICES ASSUME NEW r \in Hosts, NEW j \in DOMAIN socket[r],
                      socket[r][j].by = "VConnect", socket[r][j].pc # "failed"
               PROVE  InTable(r, j)'
    BY <1>1 DEF ConnectingInTable
  <2>1. InTable(r, j)
    BY DEF TableInv, ConnectingInTable
  <2>2. ~(r = h /\ socket[r][j].Conn = conn)
    BY <1>1, ConnectingDiffer
  <2> QED BY <1>6, <2>1, <2>2
<1>8. ASSUME NEW r \in Hosts, NEW port \in Ports, ListenedOnOnce(r, port)'
      PROVE  AcceptedInTable(r, port)'
  <2>1. /\ \A l \in DOMAIN listener[r] : l \in DOMAIN listener'[r]
        /\ \A l \in DOMAIN listener'[r] :
             /\ l \in DOMAIN listener[r]
             /\ listener'[r][l].PortNumber = listener[r][l].PortNumber
             /\ listener'[r][l].pc # "syn" => listener'[r][l].id = listener[r][l].id
             /\ (r = h /\ l = k) \/ listener'[r][l].pc = listener[r][l].pc
    BY <1>2 DEF VAcceptGoesTo
  <2>2. ListenedOnOnce(r, port) /\ AcceptedInTable(r, port)
    <3>1. ListenedOnOnce(r, port)
      BY <1>8, <2>1, OnceBefore
    <3> QED BY <3>1 DEF TableInv, AcceptingInTable
  <2>3. ASSUME NEW j \in DOMAIN socket[r], socket[r][j].by = "VAccept", Established(r, j),
               socket[r][j].Conn.LocalPort = port
        PROVE  InTable(r, j)'
    <3>1. InTable(r, j)
      BY <2>2, <2>3 DEF AcceptedInTable
    <3>2. ASSUME r = h
          PROVE  socket[r][j].Conn # conn
      <4>1. CASE listener[h][k].PortNumber = port
        BY <1>1, <2>2, <2>3, <3>2, <4>1 DEF AcceptedInTable
      <4>2. CASE listener[h][k].PortNumber # port
        BY <1>1, <2>3, <3>2, <4>2, AcceptedPorts
      <4> QED BY <4>1, <4>2
    <3> QED BY <1>6, <3>1, <3>2
  <2>4. ASSUME NEW l \in DOMAIN listener'[r], listener'[r][l].PortNumber = port,
               listener'[r][l].pc # "syn", listener'[r][l].pc # "insert"
        PROVE  InTable(r, listener[r][l].id)'
    <3>1. PICK j : j = listener[r][l].id
      OBVIOUS
    <3>2. CASE r = h /\ l = k
      BY <1>5, <2>1, <2>4, <3>1, <3>2 DEF InTable
    <3>3. CASE ~(r = h /\ l = k)
      <4>1. /\ l \in DOMAIN listener[r] /\ listener[r][l].PortNumber = port
            /\ listener[r][l].pc = listener'[r][l].pc
        BY <2>1, <2>4, <3>3
      <4>2. InTable(r, j) /\ j \in DOMAIN socket[r]
        BY <2>2, <2>4, <3>1, <4>1 DEF AcceptedInTable, EndsInv, References, InTable
      <4>3. ~(r = h /\ socket[r][j].Conn = conn)
        BY <1>1, <2>2, <2>4, <3>1, <3>3, <4>1, AcceptedDiffer
      <4>4. InTable(r, j)'
        BY <1>6, <4>2, <4>3
      <4> QED BY <2>1, <2>4, <3>1, <4>4 DEF InTable
    <3> QED BY <3>2, <3>3
  <2>5. ASSUME NEW l \in DOMAIN listener'[r], listener'[r][l].PortNumber = port,
               listener'[r][l].pc = "insert",
               NEW j \in DOMAIN socket[r], Established(r, j)
        PROVE  socket[r][j].Conn # socket[r][listener'[r][l].id].Conn
    <3>1. ~(r = h /\ l = k)
      BY <1>2, <2>5 DEF VAcceptGoesTo
    <3>2. /\ l \in DOMAIN listener[r] /\ listener[r][l].PortNumber = port
          /\ listener[r][l].pc = "insert" /\ listener'[r][l].id = listener[r][l].id
      BY <2>1, <2>5, <3>1
    <3> QED BY <2>2, <2>5, <3>2 DEF AcceptedInTable
  <2>6. loop[r].to = "listener" /\ loop[r].packet.DstPort = port =>
          \A j \in DOMAIN socket[r] :
            Established(r, j) => socket[r][j].Conn # ConnOf(loop[r].packet)
    BY <2>2 DEF AcceptedInTable
  <2> QED BY <1>1, <2>1, <2>3, <2>4, <2>5, <2>6 DEF AcceptedInTable, Established, InTable
<1> QED BY <1>7, <1>8 DEF TableInv, AcceptingInTable

\* VConnect makes its entry under a connection that has none.
LEMMA CallVConnectTable ==
    ASSUME EndsInv, TableInv, NEW h \in Hosts, CallVConnect(h)
    PROVE  TableInv'
<1>1. PICK s \in SocketRecords :
        /\ s.by = "VConnect" /\ s.ConnState = "SYN_SENT"
        /\ SocketMade(h, s)
        /\ s.Conn \notin DOMAIN SocketTable[h]
        /\ SocketTable' = [SocketTable EXCEPT ![h] = Entered(@, s.Conn, NewID(h))]
  BY CallVConnectEffect
<1>2. UNCHANGED <<listener, loop>>
  BY DEF CallVConnect
<1>3. /\ \A r \in Hosts : r # h => SocketTable'[r] = SocketTable[r]
      /\ SocketTable'[h] = Entered(SocketTable[h], s.Conn, NewID(h))
  BY <1>1 DEF EndsInv, Typed
<1>4. /\ s.Conn \in DOMAIN SocketTable'[h] /\ SocketTable'[h][s.Conn] = NewID(h)
      /\ \A c \in DOMAIN SocketTable[h] :
           c \in DOMAIN SocketTable'[h] /\ SocketTable'[h][c] = SocketTable[h][c]
  BY <1>1, <1>3 DEF Entered
<1>5. \A r \in Hosts : \A i \in DOMAIN socket'[r] :
        \/ i \in DOMAIN socket[r] /\ socket'[r][i] = socket[r][i]
        \/ r = h /\ i = NewID(h) /\ socket'[r][i] = s
  BY <1>1 DEF SocketMade
<1>6. \A r \in Hosts : \A i \in DOMAIN socket[r] : InTable(r, i) => InTable(r, i)'
  BY <1>1, <1>3, <1>4 DEF InTable, SocketMade
<1>7. ConnectingInTable'
  <2> SUFFICES ASSUME NEW r \in Hosts, NEW i \in DOMAIN socket'[r],
                      socket'[r][i].by = "VConnect", socket'[r][i].pc # "failed"
               PROVE  InTable(r, i)'
    BY DEF ConnectingInTable
  <2>1. CASE i \in DOMAIN socket[r] /\ socket'[r][i] = socket[r][i]
    BY <1>6, <2>1 DEF TableInv, ConnectingInTable
  <2>2. CASE r = h /\ i = NewID(h) /\ socket'[r][i] = s
    BY <1>4, <2>2 DEF InTable
  <2> QED BY <1>5, <2>1, <2>2
<1>8. ASSUME NEW r \in Hosts, NEW i \in DOMAIN socket'[r], Established(r, i)'
      PROVE  i \in DOMAIN socket[r] /\ socket'[r][i] = socket[r][i] /\ Established(r, i)
  BY <1>1, <1>5, <1>8 DEF Established
<1>9. \A r \in Hosts : \A l \in DOMAIN listener[r] : listener[r][l].pc # "syn" =>
        /\ listener[r][l].id \in DOMAIN socket[r]
        /\ socket'[r][listener[r][l].id] = socket[r][listener[r][l].id]
  BY <1>1 DEF EndsInv, References, SocketMade
<1>10. ASSUME NEW r \in Hosts, NEW port \in Ports, ListenedOnOnce(r, port)'
       PROVE  AcceptedInTable(r, port)'
  <2>1. AcceptedInTable(r, port)
    <3>1. ListenedOnOnce(r, port)
      BY <1>2, <1>10 DEF ListenedOnOnce
    <3> QED BY <3>1 DEF TableInv, AcceptingInTable
  <2>2. ASSUME NEW i \in DOMAIN socket'[r], socket'[r][i].by = "VAccept", Established(r, i)',
               socket'[r][i].Conn.LocalPort = port
        PROVE  InTable(r, i)'
    BY <1>6, <1>8, <2>1, <2>2 DEF AcceptedInTable
  <2>3. ASSUME NEW l \in DOMAIN listener[r], listener[r][l].PortNumber = port,
               listener[r][l].pc # "syn", listener[r][l].pc # "insert"
        PROVE  InTable(r, listener[r][l].id)'
    <3>1. PICK j : j = listener[r][l].id
      OBVIOUS
    <3>2. InTable(r, j) /\ j \in DOMAIN socket[r]
      BY <1>9, <2>1, <2>3, <3>1 DEF AcceptedInTable, InTable
    <3>3. InTable(r, j)'
      BY <1>6, <3>2
    <3> QED BY <1>2, <3>1, <3>3 DEF InTable
  <2>4. ASSUME NEW l \in DOMAIN listener[r], listener[r][l].PortNumber = port,
               listener[r][l].pc = "insert",
               NEW j \in DOMAIN socket'[r], Established(r, j)'
        PROVE  socket'[r][j].Conn # socket'[r][listener[r][l].id].Conn
    BY <1>8, <1>9, <2>1, <2>4 DEF AcceptedInTable
  <2>5. ASSUME loop[r].to = "listener", loop[r].packet.DstPort = port,
               NEW j \in DOMAIN socket'[r], Established(r, j)'
        PROVE  socket'[r][j].Conn # ConnOf(loop[r].packet)
    BY <1>8, <2>1, <2>5 DEF AcceptedInTable
  <2> QED BY <1>2, <2>2, <2>3, <2>4, <2>5 DEF AcceptedInTable, InTable
<1> QED BY <1>7, <1>10 DEF TableInv, AcceptingInTable

\* VConnect deletes its own entry: whoever else is in the table stays there.
LEMMA DeleteConnTable ==
    ASSUME EndsInv, TableInv, NEW h \in Hosts, NEW i \in VConnectsOf(h), DeleteConn(h, i)
    PROVE  TableInv'
<1> DEFINE conn == socket[h][i].Conn
<1>1. /\ socket[h][i].pc = "delete" /\ UNCHANGED <<listener, loop>>
      /\ SocketTable' = [SocketTable EXCEPT ![h] = Restrict(@, DOMAIN @ \ {conn})]
      /\ i \in DOMAIN socket[h] /\ socket[h][i].by = "VConnect"
  BY DEF DeleteConn, VConnectsOf
<1> DEFINE s == [socket[h][i] EXCEPT !.pc = "failed"]
<1>2. /\ s \in SocketRecords /\ s.pc = "failed" /\ s.ConnState = socket[h][i].ConnState
      /\ s.ConnState # "ESTABLISHED" /\ s.Conn = conn
  <2>1. socket[h][i] \in SocketRecords
    BY <1>1 DEF EndsInv, Typed
  <2>2. socket[h][i].ConnState # "ESTABLISHED"
    BY <1>1 DEF EndsInv, EstablishedAreHandled, Established
  <2> QED BY <2>1, <2>2 DEF SocketRecords
<1>3. socket' = [socket EXCEPT ![h] = [socket[h] EXCEPT ![i] = s]]
  BY DEF DeleteConn
<1> HIDE DEF s
<1>4. /\ \A r \in Hosts : DOMAIN socket'[r] = DOMAIN socket[r]
      /\ \A r \in Hosts : \A j \in DOMAIN socket[r] :
           socket'[r][j] = IF r = h /\ j = i THEN s ELSE socket[r][j]
  BY <1>1, <1>2, <1>3, ElementSet DEF EndsInv, Typed
<1>5. /\ \A r \in Hosts : r # h => SocketTable'[r] = SocketTable[r]
      /\ SocketTable'[h] = Restrict(SocketTable[h], DOMAIN SocketTable[h] \ {conn})
  BY <1>1 DEF EndsInv, Typed
<1>6. \A c \in DOMAIN SocketTable[h] : c # conn =>
           c \in DOMAIN SocketTable'[h] /\ SocketTable'[h][c] = SocketTable[h][c]
  BY <1>5 DEF Restrict
<1>7. InTable(h, i)
  BY <1>1 DEF TableInv, ConnectingInTable
<1>8. \A r \in Hosts : \A j \in DOMAIN socket[r] :
        InTable(r, j) /\ ~(r = h /\ j = i) => InTable(r, j)'
  BY <1>2, <1>4, <1>5, <1>6, <1>7 DEF InTable
<1>9. ConnectingInTable'
  <2> SUFFICES ASSUME NEW r \in Hosts, NEW j \in DOMAIN socket'[r],
                      socket'[r][j].by = "VConnect", socket'[r][j].pc # "failed"
               PROVE  InTable(r, j)'
    BY DEF ConnectingInTable
  <2>1. ~(r = h /\ j = i) /\ j \in DOMAIN socket[r] /\ socket'[r][j] = socket[r][j]
    BY <1>2, <1>4
  <2> QED BY <1>8, <2>1 DEF TableInv, ConnectingInTable
<1>10. ASSUME NEW r \in Hosts, NEW j \in DOMAIN socket'[r], Established(r, j)'
       PROVE  /\ j \in DOMAIN socket[r] /\ socket'[r][j] = socket[r][j] /\ Established(r, j)
              /\ ~(r = h /\ j = i)
  BY <1>2, <1>4, <1>10 DEF Established
<1>11. ASSUME NEW r \in Hosts, NEW l \in DOMAIN listener[r], listener[r][l].pc # "syn"
       PROVE  /\ listener[r][l].id \in DOMAIN socket[r]
              /\ ~(r = h /\ listener[r][l].id = i)
              /\ socket'[r][listener[r][l].id] = socket[r][listener[r][l].id]
  <2>1. listener[r][l].id \in DOMAIN socket[r] /\ socket[r][listener[r][l].id].by = "VAccept"
    BY <1>11 DEF EndsInv, References, ListenersPorts
  <2> QED BY <1>1, <1>4, <2>1
<1>12. ASSUME NEW r \in Hosts, NEW port \in Ports, ListenedOnOnce(r, port)'
       PROVE  AcceptedInTable(r, port)'
  <2>1. AcceptedInTable(r, port)
    <3>1. ListenedOnOnce(r, port)
      BY <1>1, <1>12 DEF ListenedOnOnce
    <3> QED BY <3>1 DEF TableInv, AcceptingInTable
  <2>2. ASSUME NEW j \in DOMAIN socket'[r], socket'[r][j].by = "VAccept", Established(r, j)',
               socket'[r][j].Conn.LocalPort = port
        PROVE  InTable(r, j)'
    BY <1>8, <1>10, <2>1, <2>2 DEF AcceptedInTable
  <2>3. ASSUME NEW l \in DOMAIN listener[r], listener[r][l].PortNumber = port,
               listener[r][l].pc # "syn", listener[r][l].pc # "insert"
        PROVE  InTable(r, listener[r][l].id)'
    <3>1. PICK j : j = listener[r][l].id
      OBVIOUS
    <3>2. InTable(r, j) /\ j \in DOMAIN socket[r] /\ ~(r = h /\ j = i)
      BY <1>11, <2>1, <2>3, <3>1 DEF AcceptedInTable, InTable
    <3>3. InTable(r, j)'
      BY <1>8, <3>2
    <3> QED BY <1>1, <3>1, <3>3 DEF InTable
  <2>4. ASSUME NEW l \in DOMAIN listener[r], listener[r][l].PortNumber = port,
               listener[r][l].pc = "insert",
               NEW j \in DOMAIN socket'[r], Established(r, j)'
        PROVE  socket'[r][j].Conn # socket'[r][listener[r][l].id].Conn
    BY <1>10, <1>11, <2>1, <2>4 DEF AcceptedInTable
  <2>5. ASSUME loop[r].to = "listener", loop[r].packet.DstPort = port,
               NEW j \in DOMAIN socket'[r], Established(r, j)'
        PROVE  socket'[r][j].Conn # ConnOf(loop[r].packet)
    BY <1>10, <2>1, <2>5 DEF AcceptedInTable
  <2> QED BY <1>1, <2>2, <2>3, <2>4, <2>5 DEF AcceptedInTable, InTable
<1> QED BY <1>9, <1>12 DEF TableInv, AcceptingInTable

\* The ACK establishes a socket that is in the table, and that no other VAccept
\* is about to replace.
LEMMA TakeAckTable ==
    ASSUME EndsInv, EndsInv', TableInv, DistinctPorts,
           NEW h \in Hosts, NEW k \in DOMAIN listener[h], TakeAck(h, k)
    PROVE  TableInv'
<1> DEFINE i == listener[h][k].id
           s == [socket[h][i] EXCEPT !.ConnState = "ESTABLISHED", !.pc = "HandleConn"]
<1>1. /\ listener[h][k].pc = "ack" /\ UNCHANGED SocketTable
      /\ VAcceptReturns(h, k)
      /\ loop' = [loop EXCEPT ![h] = Idle]
      /\ socket' = socket \/ socket' = [socket EXCEPT ![h] = [socket[h] EXCEPT ![i] = s]]
  BY TakeAckSets DEF TakeAck, HandedToSocket
<1>2. Keeps
  BY TakeAckKeeps
<1>3. VAcceptGoesTo(h, k, "syn")
  BY <1>1, ListenerSet
<1>4. i \in DOMAIN socket[h] /\ s \in SocketRecords
  <2>1. i \in DOMAIN socket[h]
    BY <1>1 DEF EndsInv, References
  <2>2. socket[h][i] \in SocketRecords
    BY <2>1 DEF EndsInv, Typed
  <2> QED BY <2>1, <2>2 DEF SocketRecords
<1> HIDE DEF s
<1>5. \A r \in Hosts : \A j \in DOMAIN socket[r] :
        (r = h /\ j = i) \/ socket'[r][j] = socket[r][j]
  <2>1. CASE socket' = socket
    BY <2>1
  <2>2. CASE socket' = [socket EXCEPT ![h] = [socket[h] EXCEPT ![i] = s]]
    BY <1>4, <2>2, ElementSet DEF EndsInv, Typed
  <2> QED BY <1>1, <2>1, <2>2
<1>6. \A r \in Hosts : \A l \in DOMAIN listener[r] : listener'[r][l].pc # "syn" =>
        (listener'[r][l].pc = "insert" <=> listener[r][l].pc = "insert")
  BY <1>3 DEF VAcceptGoesTo
<1>7. ASSUME ListenedOnOnce(h, socket[h][i].Conn.LocalPort)
      PROVE  InTable(h, i)
  <2>1. /\ socket[h][i].Conn.LocalPort = listener[h][k].PortNumber
        /\ listener[h][k].PortNumber \in Ports
    BY <1>1, AcceptedPorts
  <2> QED BY <1>1, <1>7, <2>1 DEF TableInv, AcceptingInTable, AcceptedInTable
<1>8. ASSUME NEW l \in DOMAIN listener[h], listener'[h][l].pc = "insert",
             ListenedOnOnce(h, listener[h][l].PortNumber)
      PROVE  socket[h][i].Conn # socket[h][listener[h][l].id].Conn
  BY <1>1, <1>3, <1>8, AcceptedDiffer DEF VAcceptGoesTo
<1>9. loop'[h].to # "listener"
  BY <1>1, LoopSet DEF Idle
<1>10. \A r \in Hosts : \A j \in DOMAIN socket[r] :
         socket[r][j].by = "VAccept" /\ Established(r, j)' /\ ~Established(r, j) =>
            /\ ListenedOnOnce(r, socket[r][j].Conn.LocalPort) => InTable(r, j)
            /\ \A l \in DOMAIN listener[r] :
                 listener'[r][l].pc = "insert" =>
                    (ListenedOnOnce(r, listener[r][l].PortNumber) =>
                        socket[r][j].Conn # socket[r][listener[r][l].id].Conn)
            /\ loop'[r].to # "listener"
  BY <1>5, <1>7, <1>8, <1>9 DEF Established
<1> QED BY <1>1, <1>2, <1>6, <1>10, KeepsTable

\* The other steps establish no socket of VAccept's.
LEMMA OthersTable ==
    ASSUME EndsInv, EndsInv', TableInv, DistinctPorts, Keeps, UNCHANGED SocketTable,
           \A h \in Hosts : \A k \in DOMAIN listener[h] :
                listener'[h][k].pc # "syn" =>
                    (listener'[h][k].pc = "insert" <=> listener[h][k].pc = "insert"),
           \A h \in Hosts : \A i \in DOMAIN socket[h] :
                socket[h][i].by = "VAccept" => (Established(h, i)' => Established(h, i))
    PROVE  TableInv'
<1>1. \A h \in Hosts : \A i \in DOMAIN socket[h] :
        socket[h][i].by = "VAccept" /\ Established(h, i)' /\ ~Established(h, i) =>
            /\ ListenedOnOnce(h, socket[h][i].Conn.LocalPort) => InTable(h, i)
            /\ \A k \in DOMAIN listener[h] :
                 listener'[h][k].pc = "insert" =>
                    (ListenedOnOnce(h, listener[h][k].PortNumber) =>
                        socket[h][i].Conn # socket[h][listener[h][k].id].Conn)
            /\ loop'[h].to # "listener"
  OBVIOUS
<1> QED BY <1>1, KeepsTable

LEMMA TableStep ==
    ASSUME EndsInv, TableInv, DistinctPorts, [Next]_vars
    PROVE  TableInv'
<1>1. EndsInv'
  BY EndsStep
<1>2. ASSUME UNCHANGED socket
      PROVE  \A h \in Hosts : \A i \in DOMAIN socket[h] :
                socket[h][i].by = "VAccept" => (Established(h, i)' => Established(h, i))
  BY <1>2 DEF Established
<1>3. ASSUME UNCHANGED listener
      PROVE  \A h \in Hosts : \A k \in DOMAIN listener[h] :
                listener'[h][k].pc # "syn" =>
                    (listener'[h][k].pc = "insert" <=> listener[h][k].pc = "insert")
  BY <1>3
<1>4. ASSUME NEW h \in Hosts, NEW k \in DOMAIN listener[h], NEW pc \in {"syn", "assign", "ack"},
             VAcceptGoesTo(h, k, pc), listener[h][k].pc # "insert"
      PROVE  \A r \in Hosts : \A l \in DOMAIN listener[r] :
                listener'[r][l].pc # "syn" =>
                    (listener'[r][l].pc = "insert" <=> listener[r][l].pc = "insert")
  BY <1>4 DEF VAcceptGoesTo
<1>5. CASE Next
  <2>1. PICK h \in Hosts :
          \/ TcpHandler(h) \/ HandleConn(h) \/ VAccept(h) \/ VConnect(h)
          \/ VListen(h) \/ CallVConnect(h) \/ StopListener(h) \/ CloseSynSent(h)
          \/ SendFirstSegment(h) \/ Lose(h)
    BY <1>5 DEF Next
  <2>2. CASE VAccept(h)
    <3>1. PICK k \in DOMAIN listener[h] :
            \/ TakeSyn(h, k) \/ InsertAccepted(h, k) \/ SendSynAck(h, k)
            \/ AssignSynSent(h, k) \/ TakeAck(h, k) \/ TakeStopFlag(h, k)
      BY <2>2 DEF VAccept
    <3>2. ASSUME TakeStopFlag(h, k) \/ (TakeSyn(h, k) /\ loop[h].packet.Flags # "SYN")
          PROVE  TableInv'
      <4>1. Keeps
        BY <3>2, ReturnKeeps DEF TakeSyn
      <4>2. /\ UNCHANGED <<SocketTable, socket>> /\ listener[h][k].pc # "insert"
            /\ VAcceptReturns(h, k)
        BY <3>2 DEF TakeStopFlag, TakeSyn
      <4>3. VAcceptGoesTo(h, k, "syn")
        BY <4>2, ListenerSet
      <4> QED BY <1>1, <1>2, <1>4, <4>1, <4>2, <4>3, OthersTable
    <3>3. CASE SendSynAck(h, k)
      <4>1. Keeps
        BY <3>3, SendSynAckKeeps
      <4>2. UNCHANGED <<SocketTable, socket>> /\ listener[h][k].pc # "insert"
        BY <3>3 DEF SendSynAck
      <4>3. PICK pc \in {"assign", "syn"} :
                \/ listener' = [listener EXCEPT ![h][k].pc = pc]
                \/ pc = "syn" /\ VAcceptReturns(h, k)
        BY <3>3 DEF SendSynAck
      <4>4. VAcceptGoesTo(h, k, pc)
        BY <4>3, ListenerSet
      <4> QED BY <1>1, <1>2, <1>4, <4>1, <4>2, <4>4, OthersTable
    <3>4. CASE AssignSynSent(h, k)
      <4>1. Keeps
        BY <3>4, AssignSynSentKeeps
      <4>2. /\ UNCHANGED SocketTable /\ listener[h][k].pc = "assign"
            /\ listener' = [listener EXCEPT ![h][k].pc = "ack"]
            /\ socket' = [socket EXCEPT ![h][listener[h][k].id].ConnState = "SYN_SENT"]
        BY <3>4 DEF AssignSynSent
      <4>3. VAcceptGoesTo(h, k, "ack")
        BY <4>2, ListenerSet
      <4>4. \A r \in Hosts : \A i \in DOMAIN socket[r] :
                socket[r][i].by = "VAccept" => (Established(r, i)' => Established(r, i))
        <5> DEFINE i == listener[h][k].id
                   s == [socket[h][i] EXCEPT !.ConnState = "SYN_SENT"]
        <5>1. i \in DOMAIN socket[h] /\ socket[h][i] \in SocketRecords
          BY <4>2 DEF EndsInv, References, Typed
        <5>2. s \in SocketRecords /\ s.ConnState = "SYN_SENT"
          BY <5>1 DEF SocketRecords
        <5>3. socket' = [socket EXCEPT ![h] = [socket[h] EXCEPT ![i] = s]]
          BY <4>2
        <5> HIDE DEF s, i
        <5>4. \A r \in Hosts : \A j \in DOMAIN socket[r] :
                socket'[r][j] = IF r = h /\ j = i THEN s ELSE socket[r][j]
          BY <5>1, <5>2, <5>3, ElementSet DEF EndsInv, Typed
        <5> QED BY <5>2, <5>4 DEF Established
      <4>5. listener[h][k].pc # "insert"
        BY <4>2
      <4>6. \A r \in Hosts : \A l \in DOMAIN listener[r] :
                listener'[r][l].pc # "syn" =>
                    (listener'[r][l].pc = "insert" <=> listener[r][l].pc = "insert")
        BY <1>4, <4>3, <4>5
      <4> QED BY <1>1, <4>1, <4>2, <4>4, <4>6, OthersTable
    <3>5. CASE TakeSyn(h, k) /\ loop[h].packet.Flags = "SYN"
      BY <3>5, TakeSynTable
    <3>6. CASE InsertAccepted(h, k)
      BY <3>6, InsertAcceptedTable
    <3>7. CASE TakeAck(h, k)
      BY <1>1, <3>7, TakeAckTable
    <3> QED BY <3>1, <3>2, <3>3, <3>4, <3>5, <3>6, <3>7
  <2>3. CASE VConnect(h)
    <3>1. PICK i \in VConnectsOf(h) :
            \/ SendSyn(h, i) \/ TakeSynAck(h, i) \/ SendAckOfSynAck(h, i)
            \/ Establish(h, i) \/ TakeCloseSocket(h, i) \/ DeleteConn(h, i)
      BY <2>3 DEF VConnect
    <3>2. CASE DeleteConn(h, i)
      BY <3>2, DeleteConnTable
    <3>3. CASE ~DeleteConn(h, i)
      <4>1. Keeps
        BY <3>1, ConnectKeeps
      <4>2. UNCHANGED <<listener, SocketTable>>
        BY <3>1, <3>3 DEF SendSyn, TakeSynAck, SendAckOfSynAck, Establish, TakeCloseSocket
      <4>3. i \in DOMAIN socket[h] /\ socket[h][i].by = "VConnect"
        BY DEF VConnectsOf
      <4>4. \A r \in Hosts : \A j \in DOMAIN socket[r] :
              (r = h /\ j = i) \/ socket'[r][j] = socket[r][j]
        BY <3>1, <3>3 DEF SendSyn, TakeSynAck, SendAckOfSynAck, Establish, TakeCloseSocket,
                          EndsInv, Typed
      <4>5. \A r \in Hosts : \A j \in DOMAIN socket[r] :
              socket[r][j].by = "VAccept" => (Established(r, j)' => Established(r, j))
        BY <4>3, <4>4 DEF Established
      <4> QED BY <1>1, <1>3, <4>1, <4>2, <4>5, OthersTable
    <3> QED BY <3>2, <3>3
  <2>4. ASSUME HandleConn(h) \/ SendFirstSegment(h) \/ Lose(h) \/ StopListener(h) \/ CloseSynSent(h)
        PROVE  TableInv'
    <3>1. Keeps
      BY <2>4, HandleConnKeeps, CloseKeeps
    <3>2. UNCHANGED <<listener, SocketTable, socket>>
      BY <2>4 DEF HandleConn, SendFirstSegment, Lose, StopListener, CloseSynSent
    <3> QED BY <1>1, <1>2, <1>3, <3>1, <3>2, OthersTable
  <2> QED BY <2>1, <2>2, <2>3, <2>4, TcpHandlerTable, VListenTable, CallVConnectTable
<1>6. CASE UNCHANGED vars
  BY <1>6 DEF vars, TableInv, ConnectingInTable, AcceptingInTable, AcceptedInTable, InTable,
              Established, ListenedOnOnce
<1> QED BY <1>5, <1>6

\* TcpHandler finds the socket of every established connection under its own
\* key, unless the connection is of a port that its host has listened on twice:
\* VAccept, which enters its sockets without looking (api.go:61), replaces no
\* established one, and VConnect, which deletes by key a moment after it was
\* told to, deletes only its own.
THEOREM EstablishedAreFound ==
    ASSUME DistinctPorts
    PROVE  Spec => []EstablishedInTable
<1>1. Init => TableInv
  <2> SUFFICES ASSUME Init PROVE TableInv
    OBVIOUS
  <2>1. \A h \in Hosts : DOMAIN listener[h] = {} /\ DOMAIN socket[h] = {} /\ loop[h] = Idle
    BY DEF Init
  <2> QED BY <2>1 DEF TableInv, ConnectingInTable, AcceptingInTable, AcceptedInTable, Idle
<1>2. EndsInv /\ TableInv /\ [Next]_vars => TableInv'
  BY TableStep
<1>3. EndsInv /\ TableInv => EstablishedInTable
  BY EstablishedAreIn
<1> QED BY <1>1, <1>2, <1>3, EndsAreTyped, PTL DEF Spec

------------------------------------------------------------------------------
(* Established connections have two ends that agree *)

PairsInv == PacketsGenuine /\ AcceptedFromEphemeral /\ PairedUp

LEMMA SocketTyped ==
    ASSUME EndsInv, NEW h \in Hosts, NEW i \in DOMAIN socket[h]
    PROVE  /\ socket[h][i].by \in {"VConnect", "VAccept"}
           /\ socket[h][i].Conn \in Conns /\ socket[h][i].Conn.Remote \in Hosts
           /\ socket[h][i].InitSeqNum \in 0 .. SeqSpace - 1
           /\ socket[h][i].RemoteISN \in 0 .. SeqSpace - 1
<1>1. socket[h][i] \in SocketRecords
  BY DEF EndsInv, Typed
<1> QED BY <1>1, HandshakeAssumption DEF SocketRecords, Conns

\* What a packet proves stays proved,
LEMMA GenuineStays ==
    ASSUME EndsInv, SocketsMoveOn, NEW h \in Hosts, NEW packet \in Packets, Genuine(h, packet)
    PROVE  Genuine(h, packet)'
<1>1. CASE packet.Flags = "SYN"
  BY <1>1 DEF Genuine
<1>2. CASE packet.Flags # "SYN"
  <2>1. packet.SrcIP \in Hosts
    BY DEF Packets
  <2>2. PICK j \in DOMAIN socket[packet.SrcIP] : SentBy(h, packet, j)
    BY <1>2 DEF Genuine
  <2>3. /\ j \in DOMAIN socket'[packet.SrcIP]
        /\ SocketMoves(socket[packet.SrcIP][j], socket'[packet.SrcIP][j])
    BY <2>1 DEF SocketsMoveOn
  <2>4. SentBy(h, packet, j)'
    BY <2>2, <2>3 DEF SentBy, SocketMoves
  <2> QED BY <1>2, <2>3, <2>4 DEF Genuine
<1> QED BY <1>1, <1>2

\* and so does the other end.
LEMMA OtherEndStays ==
    ASSUME EndsInv, SocketsMoveOn, NEW h \in Hosts, NEW i \in DOMAIN socket[h],
           KnowsBoth(h, i), HasOtherEnd(h, i)
    PROVE  HasOtherEnd(h, i)'
<1> DEFINE r == socket[h][i].Conn.Remote
<1>1. r \in Hosts
  BY SocketTyped
<1>2. PICK j \in DOMAIN socket[r] :
        /\ OtherEnd(h, i, j)
        /\ socket[h][i].by = "VAccept" => socket[r][j].pc \in {"establish", "HandleConn"}
  BY DEF HasOtherEnd
<1>3. /\ SocketMoves(socket[h][i], socket'[h][i]) /\ SocketMoves(socket[r][j], socket'[r][j])
      /\ j \in DOMAIN socket'[r]
  BY <1>1 DEF SocketsMoveOn
<1>4. socket[r][j].by \in {"VConnect", "VAccept"} /\ socket[h][i].by \in {"VConnect", "VAccept"}
  BY <1>1, SocketTyped
<1>5. /\ socket'[h][i].by = socket[h][i].by /\ socket'[h][i].Conn = socket[h][i].Conn
      /\ socket'[h][i].InitSeqNum = socket[h][i].InitSeqNum
      /\ socket'[h][i].RemoteISN = socket[h][i].RemoteISN
  BY <1>3 DEF KnowsBoth, SocketMoves
<1>6. /\ socket'[r][j].by = socket[r][j].by /\ socket'[r][j].Conn = socket[r][j].Conn
      /\ socket'[r][j].InitSeqNum = socket[r][j].InitSeqNum
      /\ socket'[r][j].RemoteISN = socket[r][j].RemoteISN
      /\ socket[h][i].by = "VAccept" => socket'[r][j].pc \in {"establish", "HandleConn"}
  BY <1>2, <1>3, <1>4 DEF OtherEnd, SocketMoves
<1>7. OtherEnd(h, i, j)'
  BY <1>2, <1>5, <1>6 DEF OtherEnd
<1> QED BY <1>3, <1>5, <1>6, <1>7 DEF HasOtherEnd

\* The packets that sockets send prove what they are taken for.
LEMMA MadeGenuine ==
    ASSUME EndsInv, SocketsMoveOn, NEW h \in Hosts, NEW i \in DOMAIN socket[h],
           NEW flags \in Flags, NEW seq, NEW ack,
           flags = "SYN" => socket[h][i].by = "VConnect",
           flags = "SYN-ACK" => /\ socket[h][i].by = "VAccept"
                                /\ seq = socket[h][i].InitSeqNum
                                /\ ack = Next1(socket[h][i].RemoteISN),
           flags = "ACK" => /\ socket[h][i].pc # "synAck"
                            /\ socket'[h][i].pc \in {"establish", "HandleConn"}
                            /\ seq = Next1(socket[h][i].InitSeqNum)
                            /\ ack = Next1(socket[h][i].RemoteISN),
           NEW packet, packet = Made(h, socket[h][i], flags, seq, ack),
           NEW r, r = socket[h][i].Conn.Remote
    PROVE  Genuine(r, packet)'
<1> DEFINE s == socket[h][i]
<1>1. s.Conn \in Conns
  BY SocketTyped
<1>2. /\ packet.SrcIP = h /\ packet.SrcPort = s.Conn.LocalPort
      /\ packet.DstPort = s.Conn.RemotePort /\ packet.Flags = flags
      /\ packet.SeqNum = seq /\ packet.AckNum = ack
  BY DEF Made
<1>3. CASE flags = "SYN"
  BY <1>2, <1>3 DEF Genuine, EndsInv, SocketsPorts
<1>4. CASE flags # "SYN"
  <2>1. i \in DOMAIN socket'[h] /\ SocketMoves(s, socket'[h][i])
    BY DEF SocketsMoveOn
  <2>2. s.Conn = Reversed(r, ConnOf(packet))
    BY <1>1, <1>2 DEF Conns, Reversed, ConnOf
  <2>3. SentBy(r, packet, i)'
    BY <1>2, <2>1, <2>2 DEF SentBy, SocketMoves
  <2> QED BY <1>2, <1>4, <2>1, <2>3 DEF Genuine
<1> QED BY <1>3, <1>4

LEMMA PacketsStay ==
    ASSUME EndsInv, PacketsGenuine, SocketsMoveOn,
           \A r \in Hosts : \A n \in DOMAIN net'[r] :
                \/ \E m \in DOMAIN net[r] : net'[r][n] = net[r][m]
                \/ Genuine(r, net[r][n])',
           \A r \in Hosts :
                \/ loop'[r] = Idle \/ loop'[r] = loop[r]
                \/ \E m \in DOMAIN net[r] : loop'[r].packet = net[r][m]
    PROVE  PacketsGenuine'
<1>1. ASSUME NEW r \in Hosts, NEW m \in DOMAIN net[r]
      PROVE  net[r][m] \in Packets /\ Genuine(r, net[r][m])
  BY DEF EndsInv, Typed, PacketsGenuine
<1>2. ASSUME NEW r \in Hosts, NEW packet, NEW m \in DOMAIN net[r], packet = net[r][m]
      PROVE  Genuine(r, packet)'
  <2>1. packet \in Packets /\ Genuine(r, packet)
    BY <1>1, <1>2
  <2> QED BY <2>1, GenuineStays
<1>3. ASSUME NEW r \in Hosts, NEW n \in DOMAIN net'[r]
      PROVE  Genuine(r, net[r][n])'
  <2>1. CASE \E m \in DOMAIN net[r] : net'[r][n] = net[r][m]
    <3>1. PICK packet : packet = net'[r][n]
      OBVIOUS
    <3>2. Genuine(r, packet)'
      BY <1>2, <2>1, <3>1
    <3> QED BY <3>1, <3>2 DEF Genuine, SentBy, ConnOf, Reversed
  <2> QED BY <2>1
<1>4. ASSUME NEW r \in Hosts, loop'[r] # Idle
      PROVE  Genuine(r, loop[r].packet)'
  <2>1. PICK packet : packet = loop'[r].packet
    OBVIOUS
  <2>2. Genuine(r, packet)'
    <3>1. CASE loop'[r] = loop[r]
      <4>1. packet \in Packets /\ Genuine(r, packet)
        BY <1>4, <2>1, <3>1 DEF EndsInv, Typed, Handing, PacketsGenuine
      <4> QED BY <4>1, GenuineStays
    <3>2. CASE loop'[r] # loop[r]
      BY <1>2, <1>4, <2>1, <3>2
    <3> QED BY <3>1, <3>2
  <2> QED BY <2>1, <2>2 DEF Genuine, SentBy, ConnOf, Reversed
<1> QED BY <1>3, <1>4 DEF PacketsGenuine

\* A step that sends at most one packet, which is a socket's.
LEMMA SendsGenuine ==
    ASSUME EndsInv, SocketsMoveOn, NEW h \in Hosts, NEW i \in DOMAIN socket[h],
           NEW flags \in Flags, NEW seq \in 0 .. SeqSpace - 1, NEW ack \in 0 .. SeqSpace - 1,
           SendPacket(h, socket[h][i], flags, seq, ack),
           flags = "SYN" => socket[h][i].by = "VConnect",
           flags = "SYN-ACK" => /\ socket[h][i].by = "VAccept"
                                /\ seq = socket[h][i].InitSeqNum
                                /\ ack = Next1(socket[h][i].RemoteISN),
           flags = "ACK" => /\ socket[h][i].pc # "synAck"
                            /\ socket'[h][i].pc \in {"establish", "HandleConn"}
                            /\ seq = Next1(socket[h][i].InitSeqNum)
                            /\ ack = Next1(socket[h][i].RemoteISN)
    PROVE  \A r \in Hosts : \A n \in DOMAIN net'[r] :
                \/ \E m \in DOMAIN net[r] : net'[r][n] = net[r][m]
                \/ Genuine(r, net[r][n])'
<1>1. socket[h][i] \in SocketRecords
  BY DEF EndsInv, Typed
<1>2. \A r \in Hosts : \A n \in DOMAIN net'[r] :
        \/ n \in DOMAIN net[r] /\ net'[r][n] = net[r][n]
        \/ r = socket[h][i].Conn.Remote /\ net'[r][n] = Made(h, socket[h][i], flags, seq, ack)
  <2>1. Typed
    BY DEF EndsInv
  <2> QED BY <1>1, <2>1, PacketSent
<1>3. ASSUME NEW r \in Hosts, NEW n \in DOMAIN net'[r], r = socket[h][i].Conn.Remote,
             net'[r][n] = Made(h, socket[h][i], flags, seq, ack)
      PROVE  Genuine(r, net[r][n])'
  <2>1. PICK packet : packet = net'[r][n]
    OBVIOUS
  <2>2. packet = Made(h, socket[h][i], flags, seq, ack)
    BY <1>3, <2>1
  <2>3. Genuine(r, packet)'
    BY <1>3, <2>2, MadeGenuine
  <2> QED BY <2>1, <2>3 DEF Genuine, SentBy, ConnOf, Reversed
<1> QED BY <1>2, <1>3

LEMMA PacketsStep ==
    ASSUME EndsInv, PacketsGenuine, [Next]_vars
    PROVE  PacketsGenuine'
<1>1. SocketsMoveOn
  BY MovesOn
<1>2. ASSUME net' = net, \A r \in Hosts : loop'[r] = Idle \/ loop'[r] = loop[r]
      PROVE  PacketsGenuine'
  BY <1>1, <1>2, PacketsStay
<1>3. ASSUME NEW h \in Hosts, NEW i \in DOMAIN socket[h], NEW flags \in Flags,
             NEW seq \in 0 .. SeqSpace - 1, NEW ack \in 0 .. SeqSpace - 1,
             SendPacket(h, socket[h][i], flags, seq, ack),
             flags = "SYN" => socket[h][i].by = "VConnect",
             flags = "SYN-ACK" => /\ socket[h][i].by = "VAccept"
                                  /\ seq = socket[h][i].InitSeqNum
                                  /\ ack = Next1(socket[h][i].RemoteISN),
             flags = "ACK" => /\ socket[h][i].pc # "synAck"
                              /\ socket'[h][i].pc \in {"establish", "HandleConn"}
                              /\ seq = Next1(socket[h][i].InitSeqNum)
                              /\ ack = Next1(socket[h][i].RemoteISN),
             loop' = loop
      PROVE  PacketsGenuine'
  <2>1. \A r \in Hosts : \A n \in DOMAIN net'[r] :
                \/ \E m \in DOMAIN net[r] : net'[r][n] = net[r][m]
                \/ Genuine(r, net[r][n])'
    BY <1>1, <1>3, SendsGenuine
  <2> QED BY <1>1, <1>3, <2>1, PacketsStay
<1>4. "SYN" \in Flags /\ "SYN-ACK" \in Flags /\ "ACK" \in Flags /\ 0 \in 0 .. SeqSpace - 1
  BY HandshakeAssumption DEF Flags
<1>5. ASSUME NEW h \in Hosts, NEW i \in DOMAIN socket[h]
      PROVE  /\ socket[h][i].InitSeqNum \in 0 .. SeqSpace - 1
             /\ Next1(socket[h][i].InitSeqNum) \in 0 .. SeqSpace - 1
             /\ Next1(socket[h][i].RemoteISN) \in 0 .. SeqSpace - 1
  BY SocketTyped, Next1Typed
<1>6. CASE Next
  <2>1. PICK h \in Hosts :
          \/ TcpHandler(h) \/ HandleConn(h) \/ VAccept(h) \/ VConnect(h)
          \/ VListen(h) \/ CallVConnect(h) \/ StopListener(h) \/ CloseSynSent(h)
          \/ SendFirstSegment(h) \/ Lose(h)
    BY <1>6 DEF Next
  <2>2. CASE TcpHandler(h)
    <3>1. net[h] # <<>> /\ net' = [net EXCEPT ![h] = Tail(@)]
      BY <2>2 DEF TcpHandler
    <3>2. /\ \A r \in Hosts : \A n \in DOMAIN net'[r] : \E m \in DOMAIN net[r] : net'[r][n] = net[r][m]
          /\ Head(net[h]) = net[h][1] /\ 1 \in DOMAIN net[h]
      BY <3>1, FirstTaken DEF EndsInv, Typed
    <3>3. /\ \A r \in Hosts : r # h => loop'[r] = loop[r]
          /\ loop'[h] = Idle \/ loop'[h].packet = Head(net[h])
      BY <2>2 DEF TcpHandler, EndsInv, Typed
    <3> QED BY <1>1, <3>2, <3>3, PacketsStay
  <2>3. CASE Lose(h)
    <3>1. net[h] # <<>> /\ net' = [net EXCEPT ![h] = Tail(@)] /\ loop' = loop
      BY <2>3 DEF Lose
    <3>2. \A r \in Hosts : \A n \in DOMAIN net'[r] : \E m \in DOMAIN net[r] : net'[r][n] = net[r][m]
      <4>1. net \in [Hosts -> Seq(Packets)]
        BY DEF EndsInv, Typed
      <4> QED BY ONLY <3>1, <4>1, FirstTaken, h \in Hosts
    <3> QED BY <1>1, <3>1, <3>2, PacketsStay
  <2>4. CASE HandleConn(h) \/ VListen(h) \/ CallVConnect(h) \/ StopListener(h) \/ CloseSynSent(h)
    <3>1. net' = net /\ (loop' = loop \/ loop' = [loop EXCEPT ![h] = Idle])
      BY <2>4 DEF HandleConn, VListen, CallVConnect, StopListener, CloseSynSent, HandedToSocket
    <3> QED BY <1>2, <3>1, LoopSet
  <2>5. CASE SendFirstSegment(h)
    <3>1. PICK i \in DOMAIN socket[h] :
            /\ socket[h][i].pc = "HandleConn"
            /\ SendPacket(h, socket[h][i], "ACK", Next1(socket[h][i].InitSeqNum),
                          Next1(socket[h][i].RemoteISN))
      BY <2>5 DEF SendFirstSegment
    <3>2. UNCHANGED <<socket, loop>>
      BY <2>5 DEF SendFirstSegment
    <3> QED BY <1>3, <1>4, <1>5, <3>1, <3>2
  <2>6. CASE VAccept(h)
    <3>1. PICK k \in DOMAIN listener[h] :
            \/ TakeSyn(h, k) \/ InsertAccepted(h, k) \/ SendSynAck(h, k)
            \/ AssignSynSent(h, k) \/ TakeAck(h, k) \/ TakeStopFlag(h, k)
      BY <2>6 DEF VAccept
    <3>2. CASE SendSynAck(h, k)
      <4> DEFINE i == listener[h][k].id
      <4>1. i \in DOMAIN socket[h] /\ socket[h][i].by = "VAccept" /\ UNCHANGED loop
        BY <3>2 DEF SendSynAck, EndsInv, References, ListenersPorts
      <4>2. \/ SendPacket(h, socket[h][i], "SYN-ACK", socket[h][i].InitSeqNum,
                          Next1(socket[h][i].RemoteISN))
            \/ net' = net
        BY <3>2 DEF SendSynAck, SendIPFails
      <4> HIDE DEF i
      <4>3. CASE net' = net
        BY <1>2, <4>1, <4>3
      <4> QED BY <1>3, <1>4, <1>5, <4>1, <4>2, <4>3
    <3>3. CASE ~SendSynAck(h, k)
      <4>1. net' = net /\ (loop' = loop \/ loop' = [loop EXCEPT ![h] = Idle])
        BY <3>1, <3>3 DEF TakeSyn, InsertAccepted, AssignSynSent, TakeAck, TakeStopFlag,
                          HandedToListener, HandedToSocket
      <4> QED BY <1>2, <4>1, LoopSet
    <3> QED BY <3>2, <3>3
  <2>7. CASE VConnect(h)
    <3>1. PICK i \in VConnectsOf(h) :
            \/ SendSyn(h, i) \/ TakeSynAck(h, i) \/ SendAckOfSynAck(h, i)
            \/ Establish(h, i) \/ TakeCloseSocket(h, i) \/ DeleteConn(h, i)
      BY <2>7 DEF VConnect
    <3>2. i \in DOMAIN socket[h] /\ socket[h][i].by = "VConnect"
      BY DEF VConnectsOf
    <3>3. CASE net' = net
      <4>1. loop' = loop \/ loop' = [loop EXCEPT ![h] = Idle]
        BY <3>1 DEF SendSyn, TakeSynAck, SendAckOfSynAck, Establish, TakeCloseSocket,
                    DeleteConn, HandedToSocket
      <4> QED BY <1>2, <3>3, <4>1, LoopSet
    <3>4. CASE net' # net
      <4>1. loop' = loop
        BY <3>1, <3>4 DEF SendSyn, TakeSynAck, SendAckOfSynAck, Establish, TakeCloseSocket,
                          DeleteConn
      <4>2. \/ SendPacket(h, socket[h][i], "SYN", socket[h][i].InitSeqNum, 0)
            \/ /\ SendPacket(h, socket[h][i], "ACK", Next1(socket[h][i].InitSeqNum),
                             Next1(socket[h][i].RemoteISN))
               /\ socket[h][i].pc = "ack" /\ socket' = [socket EXCEPT ![h][i].pc = "establish"]
        BY <3>1, <3>4 DEF SendSyn, TakeSynAck, SendAckOfSynAck, Establish, TakeCloseSocket,
                          DeleteConn, SendIPFails
      <4>3. socket' = [socket EXCEPT ![h][i].pc = "establish"] =>
              socket'[h][i].pc \in {"establish", "HandleConn"}
        <5>1. socket[h][i] \in SocketRecords /\ socket \in [Hosts -> Seq(SocketRecords)]
          BY <3>2 DEF EndsInv, Typed
        <5> QED BY <3>2, <5>1 DEF SocketRecords
      <4> QED BY <1>3, <1>4, <1>5, <3>2, <4>1, <4>2, <4>3
    <3> QED BY <3>3, <3>4
  <2> QED BY <2>1, <2>2, <2>3, <2>4, <2>5, <2>6, <2>7
<1>7. CASE UNCHANGED vars
  BY <1>2, <1>7 DEF vars
<1> QED BY <1>6, <1>7

\* VAccept only answers SYNs that come from an ephemeral port.
LEMMA AcceptedStep ==
    ASSUME EndsInv, PacketsGenuine, AcceptedFromEphemeral, [Next]_vars
    PROVE  AcceptedFromEphemeral'
<1>1. CASE SocketsKeep
  BY <1>1 DEF SocketsKeep, SocketMoves, AcceptedFromEphemeral
<1>2. ASSUME NEW h \in Hosts, NEW s, SocketMade(h, s),
             s.by = "VAccept" => s.Conn.RemotePort \in EphemeralPorts
      PROVE  AcceptedFromEphemeral'
  BY <1>2 DEF SocketMade, AcceptedFromEphemeral
<1>3. ASSUME NEW h \in Hosts, CallVConnect(h)
      PROVE  AcceptedFromEphemeral'
  <2>1. PICK s : SocketMade(h, s) /\ s.by = "VConnect"
    BY <1>3, CallVConnectEffect
  <2> QED BY <1>2, <2>1
<1>4. ASSUME NEW h \in Hosts, NEW k \in DOMAIN listener[h], TakeSyn(h, k),
             loop[h].packet.Flags = "SYN"
      PROVE  AcceptedFromEphemeral'
  <2>1. PICK seq \in SeqNums :
          SocketMade(h, MakeTCPSocket("VAccept", "SYN_RECEIVED", ConnOf(loop[h].packet),
                                      loop[h].packet.SeqNum, seq))
    BY <1>4, TakeSynEffect
  <2>2. loop[h].packet.SrcPort \in EphemeralPorts
    <3>1. loop[h] # Idle
      BY <1>4 DEF TakeSyn, HandedToListener, Idle
    <3> QED BY <1>4, <3>1 DEF PacketsGenuine, Genuine
  <2> DEFINE s == MakeTCPSocket("VAccept", "SYN_RECEIVED", ConnOf(loop[h].packet),
                                loop[h].packet.SeqNum, seq)
  <2>3. s.Conn.RemotePort \in EphemeralPorts
    BY <2>2 DEF MakeTCPSocket, ConnOf
  <2> HIDE DEF s
  <2> QED BY <1>2, <2>1, <2>3 DEF s
<1> QED BY <1>1, <1>3, <1>4, SocketSteps

\* Who comes to know both numbers takes them from a packet that proves that
\* there is another end.
LEMMA KnowsStep ==
    ASSUME EndsInv, [Next]_vars, NEW h \in Hosts, NEW i \in DOMAIN socket'[h], KnowsBoth(h, i)'
    PROVE  /\ i \in DOMAIN socket[h]
           /\ \/ KnowsBoth(h, i)
              \/ i \in VConnectsOf(h) /\ TakeSynAck(h, i)
              \/ \E k \in DOMAIN listener[h] : i = listener[h][k].id /\ TakeAck(h, k)
<1> DEFINE Goal == /\ i \in DOMAIN socket[h]
                   /\ \/ KnowsBoth(h, i)
                      \/ i \in VConnectsOf(h) /\ TakeSynAck(h, i)
                      \/ \E k \in DOMAIN listener[h] : i = listener[h][k].id /\ TakeAck(h, k)
<1> SUFFICES Goal
  OBVIOUS
<1>1. CASE socket'[h] = socket[h]
  BY <1>1 DEF KnowsBoth, Established
<1>2. ASSUME NEW r \in Hosts, NEW s, SocketMade(r, s), s.pc # "HandleConn",
             s.pc \notin {"ack", "establish"}, s.ConnState # "ESTABLISHED"
      PROVE  Goal
  <2>1. CASE i \in DOMAIN socket[h]
    BY <1>2, <2>1 DEF SocketMade, KnowsBoth, Established
  <2>2. CASE i \notin DOMAIN socket[h]
    BY <1>2, <2>2 DEF SocketMade, KnowsBoth, Established
  <2> QED BY <2>1, <2>2
<1>3. ASSUME NEW r \in Hosts, NEW j \in DOMAIN socket[r], NEW s \in SocketRecords,
             socket' = [socket EXCEPT ![r] = [socket[r] EXCEPT ![j] = s]]
      PROVE  /\ i \in DOMAIN socket[h]
             /\ socket'[h][i] = IF h = r /\ i = j THEN s ELSE socket[h][i]
  BY <1>3, ElementSet DEF EndsInv, Typed
<1>4. CASE Next
  <2>1. PICK r \in Hosts :
          \/ TcpHandler(r) \/ HandleConn(r) \/ VAccept(r) \/ VConnect(r)
          \/ VListen(r) \/ CallVConnect(r) \/ StopListener(r) \/ CloseSynSent(r)
          \/ SendFirstSegment(r) \/ Lose(r)
    BY <1>4 DEF Next
  <2>2. CASE UNCHANGED socket
    BY <1>1, <2>2
  <2>3. CASE CallVConnect(r)
    <3>1. PICK s : SocketMade(r, s) /\ s.pc = "syn" /\ s.ConnState = "SYN_SENT"
      BY <2>3, CallVConnectEffect
    <3> QED BY <1>2, <3>1
  <2>4. CASE VAccept(r)
    <3>1. PICK k \in DOMAIN listener[r] :
            \/ TakeSyn(r, k) \/ InsertAccepted(r, k) \/ SendSynAck(r, k)
            \/ AssignSynSent(r, k) \/ TakeAck(r, k) \/ TakeStopFlag(r, k)
      BY <2>4 DEF VAccept
    <3> DEFINE j == listener[r][k].id
    <3>2. CASE TakeSyn(r, k) /\ loop[r].packet.Flags = "SYN"
      <4>1. PICK seq \in SeqNums :
              SocketMade(r, MakeTCPSocket("VAccept", "SYN_RECEIVED", ConnOf(loop[r].packet),
                                          loop[r].packet.SeqNum, seq))
        BY <3>2, TakeSynEffect
      <4> DEFINE s == MakeTCPSocket("VAccept", "SYN_RECEIVED", ConnOf(loop[r].packet),
                                    loop[r].packet.SeqNum, seq)
      <4>2. s.pc = "VAccept" /\ s.ConnState = "SYN_RECEIVED"
        BY DEF MakeTCPSocket
      <4>3. SocketMade(r, s)
        BY <4>1
      <4> HIDE DEF s, Goal
      <4> QED BY <1>2, <4>2, <4>3
    <3>3. CASE AssignSynSent(r, k)
      <4> DEFINE s == [socket[r][j] EXCEPT !.ConnState = "SYN_SENT"]
      <4>1. listener[r][k].pc = "assign" /\ socket' = [socket EXCEPT ![r] = [socket[r] EXCEPT ![j] = s]]
        BY <3>3 DEF AssignSynSent
      <4>2. j \in DOMAIN socket[r] /\ socket[r][j].by = "VAccept"
        BY <4>1, SMTT(30) DEF EndsInv, References, ListenersPorts
      <4>3. socket[r][j] \in SocketRecords
        BY <4>2 DEF EndsInv, Typed
      <4>4. s \in SocketRecords /\ s.by = "VAccept" /\ s.ConnState # "ESTABLISHED"
        BY <4>2, <4>3 DEF SocketRecords
      <4> HIDE DEF s
      <4>5. i \in DOMAIN socket[h] /\ socket'[h][i] = IF h = r /\ i = j THEN s ELSE socket[h][i]
        BY <1>3, <4>1, <4>2, <4>4
      <4> QED BY <4>4, <4>5 DEF KnowsBoth, Established
    <3>4. CASE TakeAck(r, k)
      <4> DEFINE s == [socket[r][j] EXCEPT !.ConnState = "ESTABLISHED", !.pc = "HandleConn"]
      <4>1. /\ listener[r][k].pc = "ack"
            /\ socket' = socket \/ socket' = [socket EXCEPT ![r] = [socket[r] EXCEPT ![j] = s]]
        BY <3>4, TakeAckSets DEF TakeAck
      <4>2. j \in DOMAIN socket[r]
        BY <4>1 DEF EndsInv, References
      <4>3. socket[r][j] \in SocketRecords
        BY <4>2 DEF EndsInv, Typed
      <4>4. s \in SocketRecords
        BY <4>3 DEF SocketRecords
      <4> HIDE DEF s
      <4>5. CASE socket' = [socket EXCEPT ![r] = [socket[r] EXCEPT ![j] = s]]
        <5>1. i \in DOMAIN socket[h] /\ socket'[h][i] = IF h = r /\ i = j THEN s ELSE socket[h][i]
          BY <1>3, <4>2, <4>4, <4>5
        <5> QED BY <3>4, <5>1 DEF KnowsBoth, Established
      <4> QED BY <1>1, <4>1, <4>5
    <3> QED BY <2>2, <3>1, <3>2, <3>3, <3>4
            DEF TakeSyn, InsertAccepted, SendSynAck, TakeStopFlag
  <2>5. CASE VConnect(r)
    <3>1. PICK j \in VConnectsOf(r) :
            \/ SendSyn(r, j) \/ TakeSynAck(r, j) \/ SendAckOfSynAck(r, j)
            \/ Establish(r, j) \/ TakeCloseSocket(r, j) \/ DeleteConn(r, j)
      BY <2>5 DEF VConnect
    <3>2. j \in DOMAIN socket[r] /\ socket[r][j].by = "VConnect"
      BY DEF VConnectsOf
    <3>3. socket[r][j] \in SocketRecords /\ socket \in [Hosts -> Seq(SocketRecords)]
      BY <3>2 DEF EndsInv, Typed
    <3>4. i \in DOMAIN socket[h] /\ ((h = r /\ i = j) \/ socket'[h][i] = socket[h][i])
      BY <3>1, <3>3 DEF SendSyn, TakeSynAck, SendAckOfSynAck, Establish, TakeCloseSocket,
                        DeleteConn
    <3>5. CASE ~(h = r /\ i = j)
      BY <3>4, <3>5 DEF KnowsBoth, Established
    <3>6. CASE h = r /\ i = j
      <4>1. CASE TakeSynAck(r, j)
        BY <3>4, <3>6, <4>1
      <4>2. CASE SendAckOfSynAck(r, j) \/ Establish(r, j)
        BY <3>2, <3>6, <4>2 DEF SendAckOfSynAck, Establish, KnowsBoth
      <4>3. CASE SendSyn(r, j) \/ TakeCloseSocket(r, j) \/ DeleteConn(r, j)
        <5>1. PICK pc \in {"synAck", "delete", "failed"} : socket' = [socket EXCEPT ![r][j].pc = pc]
          BY <4>3 DEF SendSyn, TakeCloseSocket, DeleteConn
        <5>2. socket'[r][j] = [socket[r][j] EXCEPT !.pc = pc]
          BY <3>2, <3>3, <5>1
        <5>3. socket'[r][j].pc = pc /\ socket'[r][j].by = "VConnect"
          BY <3>2, <3>3, <5>2 DEF SocketRecords
        <5> QED BY <3>6, <5>3 DEF KnowsBoth
      <4> QED BY <3>1, <4>1, <4>2, <4>3
    <3> QED BY <3>5, <3>6
  <2> QED BY <2>1, <2>2, <2>3, <2>4, <2>5
          DEF TcpHandler, HandleConn, VListen, StopListener, CloseSynSent, SendFirstSegment, Lose
<1>5. CASE UNCHANGED vars
  BY <1>1, <1>5 DEF vars
<1> QED BY <1>4, <1>5

\* VConnect takes a SYN-ACK that names its own number: VAccept's socket for the
\* same connection has made it, and its number is the one that VConnect learns.
LEMMA TakeSynAckPairs ==
    ASSUME EndsInv, PacketsGenuine, SocketsMoveOn,
           NEW h \in Hosts, NEW i \in VConnectsOf(h), TakeSynAck(h, i), KnowsBoth(h, i)'
    PROVE  HasOtherEnd(h, i)'
<1> DEFINE packet == loop[h].packet
           s == socket[h][i]
           r == s.Conn.Remote
<1>1. i \in DOMAIN socket[h] /\ s.by = "VConnect" /\ s.pc = "synAck"
  BY DEF TakeSynAck, VConnectsOf
<1>2. loop[h].to = "socket" /\ loop[h].id = i
  BY DEF TakeSynAck, HandedToSocket
<1>3. packet \in Packets /\ ConnOf(packet) = s.Conn /\ Genuine(h, packet)
  BY <1>2 DEF EndsInv, Typed, Handing, Idle, SocketsPorts, PacketsGenuine
<1>4. s \in SocketRecords /\ socket \in [Hosts -> Seq(SocketRecords)]
  BY <1>1 DEF EndsInv, Typed
<1>5. SynAckOfSyn(s, packet) /\ socket'[h][i].RemoteISN = packet.SeqNum
  <2>1. CASE socket' = [socket EXCEPT ![h][i].pc = "failed"]
    <3>1. socket'[h][i] = [s EXCEPT !.pc = "failed"]
      BY <1>1, <1>4, <2>1
    <3>2. socket'[h][i].pc = "failed" /\ socket'[h][i].by = "VConnect"
      BY <1>1, <1>4, <3>1 DEF SocketRecords
    <3> QED BY <3>2 DEF KnowsBoth
  <2>2. CASE /\ SynAckOfSyn(s, packet)
             /\ socket' = [socket EXCEPT ![h][i].RemoteISN = packet.SeqNum, ![h][i].pc = "ack"]
    <3>1. socket'[h][i] = [s EXCEPT !.RemoteISN = packet.SeqNum, !.pc = "ack"]
      BY <1>1, <1>4, <2>2
    <3> QED BY <1>4, <2>2, <3>1 DEF SocketRecords
  <2> QED BY <2>1, <2>2 DEF TakeSynAck
<1>6. packet.Flags = "SYN-ACK" /\ packet.AckNum = Next1(s.InitSeqNum) /\ packet.SrcIP = r
  BY <1>3, <1>5 DEF SynAckOfSyn, ConnOf
<1>7. PICK j \in DOMAIN socket[r] : SentBy(h, packet, j)
  BY <1>3, <1>6 DEF Genuine
<1>8. /\ socket[r][j].Conn = Reversed(h, s.Conn) /\ socket[r][j].by = "VAccept"
      /\ packet.SeqNum = socket[r][j].InitSeqNum
      /\ Next1(socket[r][j].RemoteISN) = Next1(s.InitSeqNum)
  BY <1>3, <1>6, <1>7 DEF SentBy
<1>9. r \in Hosts
  BY <1>1, SocketTyped
<1>10. socket[r][j].RemoteISN = s.InitSeqNum
  <2>1. socket[r][j].RemoteISN \in 0 .. SeqSpace - 1 /\ s.InitSeqNum \in 0 .. SeqSpace - 1
    BY <1>1, <1>9, SocketTyped
  <2> QED BY <1>8, <2>1, Next1Injective
<1>11. /\ j \in DOMAIN socket'[r] /\ SocketMoves(socket[r][j], socket'[r][j])
       /\ SocketMoves(s, socket'[h][i])
  BY <1>1, <1>9 DEF SocketsMoveOn
<1>12. OtherEnd(h, i, j)'
  BY <1>1, <1>5, <1>8, <1>10, <1>11 DEF OtherEnd, SocketMoves
<1> QED BY <1>1, <1>11, <1>12 DEF HasOtherEnd, SocketMoves

\* VAccept takes an ACK that names both numbers: it was made by a socket for
\* the same connection, which has an ephemeral port and is therefore VConnect's.
LEMMA TakeAckPairs ==
    ASSUME EndsInv, DistinctPorts, PacketsGenuine, AcceptedFromEphemeral, SocketsMoveOn,
           NEW h \in Hosts, NEW k \in DOMAIN listener[h], TakeAck(h, k),
           NEW i, i = listener[h][k].id, KnowsBoth(h, i)'
    PROVE  HasOtherEnd(h, i)'
<1> DEFINE packet == loop[h].packet
           s == socket[h][i]
           r == s.Conn.Remote
<1>1. listener[h][k].pc = "ack" /\ loop[h].to = "socket" /\ loop[h].id = i
  BY DEF TakeAck, HandedToSocket
<1>2. i \in DOMAIN socket[h] /\ s.by = "VAccept" /\ s.pc = "VAccept" /\ ~Established(h, i)
  BY <1>1 DEF EndsInv, References, ListenersPorts, EstablishedAreHandled
<1>3. packet \in Packets /\ ConnOf(packet) = s.Conn /\ Genuine(h, packet)
  BY <1>1 DEF EndsInv, Typed, Handing, Idle, SocketsPorts, PacketsGenuine
<1>4. SocketMoves(s, socket'[h][i])
  BY <1>2 DEF SocketsMoveOn
<1>5. AckOfSynAck(s, packet)
  <2>1. CASE socket' = socket
    BY <1>2, <2>1 DEF KnowsBoth, Established
  <2> QED BY <2>1 DEF TakeAck
<1>6. /\ packet.Flags = "ACK" /\ packet.SeqNum = Next1(s.RemoteISN)
      /\ packet.AckNum = Next1(s.InitSeqNum)
      /\ packet.SrcIP = r /\ packet.SrcPort = s.Conn.RemotePort
  BY <1>3, <1>5 DEF AckOfSynAck, ConnOf
<1>7. PICK j \in DOMAIN socket[r] : SentBy(h, packet, j)
  BY <1>3, <1>6 DEF Genuine
<1>8. /\ socket[r][j].Conn = Reversed(h, s.Conn)
      /\ socket[r][j].pc \in {"establish", "HandleConn"}
      /\ Next1(socket[r][j].InitSeqNum) = Next1(s.RemoteISN)
      /\ Next1(socket[r][j].RemoteISN) = Next1(s.InitSeqNum)
  BY <1>3, <1>6, <1>7 DEF SentBy
<1>9. r \in Hosts
  BY <1>2, SocketTyped
<1>10. socket[r][j].RemoteISN = s.InitSeqNum /\ socket[r][j].InitSeqNum = s.RemoteISN
  <2>1. /\ socket[r][j].RemoteISN \in 0 .. SeqSpace - 1 /\ s.InitSeqNum \in 0 .. SeqSpace - 1
        /\ socket[r][j].InitSeqNum \in 0 .. SeqSpace - 1 /\ s.RemoteISN \in 0 .. SeqSpace - 1
    BY <1>2, <1>9, SocketTyped
  <2> QED BY <1>8, <2>1, Next1Injective
<1>11. socket[r][j].by = "VConnect"
  <2>1. socket[r][j].Conn.LocalPort \in EphemeralPorts
    <3>1. s.Conn.RemotePort \in EphemeralPorts
      BY <1>2 DEF AcceptedFromEphemeral
    <3>2. socket[r][j].Conn.LocalPort = s.Conn.RemotePort
      <4>1. \A conn : Reversed(h, conn).LocalPort = conn.RemotePort
        BY DEF Reversed
      <4> QED BY <1>8, <4>1
    <3> QED BY <3>1, <3>2
  <2>2. socket[r][j].by \in {"VConnect", "VAccept"}
    BY <1>9, SocketTyped
  <2> QED BY <1>9, <2>1, <2>2 DEF EndsInv, SocketsPorts, DistinctPorts
<1>12. j \in DOMAIN socket'[r] /\ SocketMoves(socket[r][j], socket'[r][j])
  BY <1>9 DEF SocketsMoveOn
<1>13. /\ socket'[h][i].by = "VAccept" /\ socket'[h][i].Conn = s.Conn
       /\ socket'[h][i].InitSeqNum = s.InitSeqNum /\ socket'[h][i].RemoteISN = s.RemoteISN
  BY <1>2, <1>4 DEF SocketMoves
<1>14. /\ socket'[r][j].by = "VConnect" /\ socket'[r][j].Conn = Reversed(h, s.Conn)
       /\ socket'[r][j].InitSeqNum = s.RemoteISN /\ socket'[r][j].RemoteISN = s.InitSeqNum
       /\ socket'[r][j].pc \in {"establish", "HandleConn"}
  BY <1>8, <1>10, <1>11, <1>12 DEF SocketMoves
<1>15. OtherEnd(h, i, j)'
  BY <1>13, <1>14 DEF OtherEnd
<1> QED BY <1>12, <1>13, <1>14, <1>15 DEF HasOtherEnd

LEMMA PairsStep ==
    ASSUME EndsInv, DistinctPorts, PairsInv, [Next]_vars
    PROVE  PairsInv'
<1>1. SocketsMoveOn
  BY MovesOn
<1>2. PairedUp'
  <2> SUFFICES ASSUME NEW h \in Hosts, NEW i \in DOMAIN socket'[h], KnowsBoth(h, i)'
               PROVE  HasOtherEnd(h, i)'
    BY DEF PairedUp
  <2>1. /\ i \in DOMAIN socket[h]
        /\ \/ KnowsBoth(h, i)
           \/ i \in VConnectsOf(h) /\ TakeSynAck(h, i)
           \/ \E k \in DOMAIN listener[h] : i = listener[h][k].id /\ TakeAck(h, k)
    BY KnowsStep
  <2>2. CASE KnowsBoth(h, i)
    <3>1. HasOtherEnd(h, i)
      BY <2>1, <2>2 DEF PairsInv, PairedUp
    <3> QED BY <1>1, <2>1, <2>2, <3>1, OtherEndStays
  <2>3. CASE i \in VConnectsOf(h) /\ TakeSynAck(h, i)
    BY <1>1, <2>3, TakeSynAckPairs DEF PairsInv
  <2>4. CASE \E k \in DOMAIN listener[h] : i = listener[h][k].id /\ TakeAck(h, k)
    BY <1>1, <2>4, TakeAckPairs DEF PairsInv
  <2> QED BY <2>1, <2>2, <2>3, <2>4
<1> QED BY <1>2, PacketsStep, AcceptedStep DEF PairsInv

\* Whoever is established has another end, of the same connection and made by
\* the other call, and each of the two knows the initial sequence number of the
\* other: of any number of attempts on any ports, whatever old packets are
\* about, no two different ones are ever taken for one connection.
THEOREM EndsAgree ==
    ASSUME DistinctPorts
    PROVE  Spec => []EstablishedInPairs
<1>1. Init => PairsInv
  <2> SUFFICES ASSUME Init PROVE PairsInv
    OBVIOUS
  <2>1. \A h \in Hosts : DOMAIN net[h] = {} /\ DOMAIN socket[h] = {} /\ loop[h] = Idle
    BY DEF Init
  <2> QED BY <2>1 DEF PairsInv, PacketsGenuine, AcceptedFromEphemeral, PairedUp
<1>2. EndsInv /\ PairsInv /\ [Next]_vars => PairsInv'
  BY PairsStep
<1>3. EndsInv /\ PairsInv => EstablishedInPairs
  <2> SUFFICES ASSUME EndsInv, PairsInv, NEW h \in Hosts, NEW i \in DOMAIN socket[h],
                      Established(h, i)
               PROVE  HasOtherEnd(h, i)
    BY DEF EstablishedInPairs, HasOtherEnd
  <2>1. KnowsBoth(h, i)
    <3>1. socket[h][i].pc = "HandleConn"
      BY DEF EndsInv, EstablishedAreHandled
    <3> QED BY <3>1, SocketTyped DEF KnowsBoth
  <2> QED BY <2>1 DEF PairsInv, PairedUp
<1> QED BY <1>1, <1>2, <1>3, EndsAreTyped, PTL DEF Spec
==============================================================================
