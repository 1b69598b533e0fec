----------------------------- MODULE TcpHandshake -----------------------------
(***************************************************************************)
(* How connections come about: VListen, VAccept, VConnect and the VClose   *)
(* of a listener or of a connecting socket (api.go), the tables of the     *)
(* TCPLayer, and TcpHandler (tcp.go), which the one goroutine that reads a *)
(* node's packets runs and which hands every packet over an unbuffered     *)
(* channel.  What becomes of an established connection is TcpConnection's. *)
(***************************************************************************)
EXTENDS Integers, Sequences, FiniteSets, Functions

CONSTANTS
    Hosts,          \* nodes that run vhost, each with one address
    Ports,
    EphemeralPorts, \* what getUnusedPort may return
    SeqNums,        \* what rand.Uint32 may return for InitSeqNum
    SeqSpace,       \* sequence numbers are uint32: SeqSpace is 2^32
    Listening,      \* Listening[h]: ports the user of h types a for
    Dialled,        \* Dialled[h]: remote ports the user of h types c for
    MaxListens,     \* bound: VListen calls of each host
    MaxConnects,    \* bound: VConnect calls of each host
    MaxStops,       \* bound: cl commands on all hosts together
    MaxLoss,        \* bound: packets lost
    MaxSendErr      \* bound: SendIP calls that fail

ASSUME HandshakeAssumption ==
    /\ EphemeralPorts \subseteq Ports
    /\ SeqSpace \in Nat \ {0}
    /\ SeqNums \subseteq 0 .. SeqSpace - 1
    /\ Listening \in [Hosts -> SUBSET Ports] /\ Dialled \in [Hosts -> SUBSET Ports]
    /\ MaxListens \in [Hosts -> Nat] /\ MaxConnects \in [Hosts -> Nat]
    /\ MaxStops \in Nat /\ MaxLoss \in Nat /\ MaxSendErr \in Nat

VARIABLES
    ListenersTable, \* [host][port]: the listener, an index of listener[host]
    listener,       \* [host]: every listener made, with its VAccept goroutine
    SocketTable,    \* [host][conn]: the socket, an index of socket[host]
    socket,         \* [host]: every socket made, with the goroutine receiving
                    \* from its PacketChannel
    loop,           \* [host]: the packet TcpHandler is trying to hand over
    cli,            \* [host]: what the command line waits for
    net,            \* [host]: packets on their way to it
    faults

vars == <<ListenersTable, listener, SocketTable, socket, loop, cli, net, faults>>

\* Mutant: the sum does not wrap.
Next1Unwrapped(seq) == seq + 1

Next1(seq) == (seq + 1) % SeqSpace

\* VTCPConn, without the local address, which is the host.
Conns == [LocalPort : Ports, Remote : Hosts, RemotePort : Ports]
Reversed(h, conn) ==
    [LocalPort |-> conn.RemotePort, Remote |-> h, RemotePort |-> conn.LocalPort]

Flags == {"SYN", "SYN-ACK", "ACK"}
Packets == [SrcIP : Hosts, SrcPort : Ports, DstPort : Ports, Flags : Flags,
            SeqNum : 0 .. SeqSpace - 1, AckNum : 0 .. SeqSpace - 1]

\* Mutant: the ports the wrong way round.
ConnOfSwapped(packet) ==
    [LocalPort |-> packet.SrcPort, Remote |-> packet.SrcIP, RemotePort |-> packet.DstPort]

ConnOf(packet) ==
    [LocalPort |-> packet.DstPort, Remote |-> packet.SrcIP, RemotePort |-> packet.SrcPort]

\* A Go map with one more entry, or another value under its key.
Entered(table, key, value) ==
    [k \in DOMAIN table \union {key} |-> IF k = key THEN value ELSE table[k]]

Idle == [to |-> "none"]
Prompt == [on |-> "prompt"]

------------------------------------------------------------------------------
Init ==
    /\ ListenersTable = [h \in Hosts |-> <<>>]
    /\ listener = [h \in Hosts |-> <<>>]
    /\ SocketTable = [h \in Hosts |-> <<>>]
    /\ socket = [h \in Hosts |-> <<>>]
    /\ loop = [h \in Hosts |-> Idle]
    /\ cli = [h \in Hosts |-> Prompt]
    /\ net = [h \in Hosts |-> <<>>]
    /\ faults = [stop |-> 0, loss |-> 0, sendErr |-> 0]

\* MakeTCPSocket, called by VConnect or VAccept.  pc is where the goroutine
\* stands that receives from the socket's channel.
MakeTCPSocket(by, state, conn, remoteInitSeqNum, initSeqNum) ==
    [by |-> by, pc |-> IF by = "VConnect" THEN "syn" ELSE "VAccept",
     Conn |-> conn, ConnState |-> state, InitSeqNum |-> initSeqNum,
     RemoteISN |-> remoteInitSeqNum]

\* A packet of socket s of host h, sent with SendIP.
SendPacket(h, s, flags, seq, ack) ==
    net' = [net EXCEPT ![s.Conn.Remote] = Append(@,
        [SrcIP |-> h, SrcPort |-> s.Conn.LocalPort, DstPort |-> s.Conn.RemotePort,
         Flags |-> flags, SeqNum |-> seq, AckNum |-> ack])]

SendIPFails ==
    /\ faults.sendErr < MaxSendErr
    /\ faults' = [faults EXCEPT !.sendErr = @ + 1]
    /\ UNCHANGED net

------------------------------------------------------------------------------
(* TcpHandler, in the goroutine that reads the node's packets *)

\* The socket of the packet's connection, or else the listener of its port,
\* or else nobody: the packet is dropped.  SocketTable is read without a lock.
TcpHandler(h) ==
    /\ loop[h] = Idle
    /\ net[h] # <<>>
    /\ LET packet == Head(net[h])
           conn == ConnOf(packet)
       IN loop' = [loop EXCEPT ![h] =
            CASE conn \in DOMAIN SocketTable[h] ->
                   [to |-> "socket", id |-> SocketTable[h][conn], packet |-> packet]
              [] conn \notin DOMAIN SocketTable[h]
                   /\ packet.DstPort \in DOMAIN ListenersTable[h] ->
                   [to |-> "listener", id |-> ListenersTable[h][packet.DstPort],
                    packet |-> packet]
              [] OTHER -> Idle]
    /\ net' = [net EXCEPT ![h] = Tail(@)]
    /\ UNCHANGED <<ListenersTable, listener, SocketTable, socket, cli, faults>>

\* The send on the PacketChannel of socket i, or of listener k, has met its
\* receiver.
HandedToSocket(h, i) ==
    /\ loop[h].to = "socket" /\ loop[h].id = i
    /\ loop' = [loop EXCEPT ![h] = Idle]

HandedToListener(h, k) ==
    /\ loop[h].to = "listener" /\ loop[h].id = k
    /\ loop' = [loop EXCEPT ![h] = Idle]

------------------------------------------------------------------------------
(* VListen and VAccept: the a command, whose goroutine calls VAccept in a  *)
(* loop.  A VAccept that returns, whatever it returns, is called again.    *)

\* Once VClose has deleted a listener its port may be listened on again, while
\* the loop of the listener before, and its VAccept, are still there.
VListen(h) ==
    /\ cli[h] = Prompt
    /\ Len(listener[h]) < MaxListens[h]
    /\ \E port \in Listening[h] \ DOMAIN ListenersTable[h] :
         /\ listener' = [listener EXCEPT ![h] =
              Append(@, [PortNumber |-> port, pc |-> "syn", id |-> 0])]
         /\ ListenersTable' = [ListenersTable EXCEPT ![h] =
              Entered(@, port, Len(listener[h]) + 1)]
    /\ UNCHANGED <<SocketTable, socket, loop, cli, net, faults>>

VAcceptReturns(h, k) ==
    listener' = [listener EXCEPT ![h][k].pc = "syn", ![h][k].id = 0]

\* A SYN makes a socket; any other packet is an error.
TakeSyn(h, k) ==
    /\ listener[h][k].pc = "syn"
    /\ HandedToListener(h, k)
    /\ LET packet == loop[h].packet IN
       IF packet.Flags = "SYN"
       THEN \E seq \in SeqNums :
              LET s == MakeTCPSocket("VAccept", "SYN_RECEIVED", ConnOf(packet),
                                     packet.SeqNum, seq) IN
              /\ socket' = [socket EXCEPT ![h] = Append(@, s)]
              /\ listener' = [listener EXCEPT ![h][k].pc = "insert",
                                              ![h][k].id = Len(socket[h]) + 1]
       ELSE VAcceptReturns(h, k) /\ UNCHANGED socket
    /\ UNCHANGED <<ListenersTable, SocketTable, cli, net, faults>>

\* Whatever the table holds under that connection is replaced.
InsertAccepted(h, k) ==
    /\ listener[h][k].pc = "insert"
    /\ LET i == listener[h][k].id IN
       SocketTable' = [SocketTable EXCEPT ![h] = Entered(@, socket[h][i].Conn, i)]
    /\ listener' = [listener EXCEPT ![h][k].pc = "synAck"]
    /\ UNCHANGED <<ListenersTable, socket, loop, cli, net, faults>>

\* If SendIP fails VAccept returns, and the socket stays in the table.
SendSynAck(h, k) ==
    LET s == socket[h][listener[h][k].id] IN
    /\ listener[h][k].pc = "synAck"
    /\ \/ /\ SendPacket(h, s, "SYN-ACK", s.InitSeqNum, Next1(s.RemoteISN))
          /\ listener' = [listener EXCEPT ![h][k].pc = "assign"]
          /\ UNCHANGED faults
       \/ SendIPFails /\ VAcceptReturns(h, k)
    /\ UNCHANGED <<ListenersTable, SocketTable, socket, loop, cli>>

\* socket.ConnState = SYN_SENT, on the passive end.
AssignSynSent(h, k) ==
    /\ listener[h][k].pc = "assign"
    /\ socket' = [socket EXCEPT ![h][listener[h][k].id].ConnState = "SYN_SENT"]
    /\ listener' = [listener EXCEPT ![h][k].pc = "ack"]
    /\ UNCHANGED <<ListenersTable, SocketTable, loop, cli, net, faults>>

AckOfSynAck(s, packet) ==
    /\ packet.Flags = "ACK"
    /\ packet.SeqNum = Next1(s.RemoteISN)
    /\ packet.AckNum = Next1(s.InitSeqNum)

\* The last packet of the handshake.  A wrong one makes VAccept return an
\* error; the socket stays in the table and nobody receives for it.
TakeAck(h, k) ==
    LET i == listener[h][k].id IN
    /\ listener[h][k].pc = "ack"
    /\ HandedToSocket(h, i)
    /\ IF AckOfSynAck(socket[h][i], loop[h].packet)
       THEN socket' = [socket EXCEPT ![h][i].ConnState = "ESTABLISHED",
                                     ![h][i].pc = "HandleConn"]
       ELSE UNCHANGED socket
    /\ VAcceptReturns(h, k)
    /\ UNCHANGED <<ListenersTable, SocketTable, cli, net, faults>>

\* case <-listener.StopFlag, in either select of VAccept.
TakeStopFlag(h, k) ==
    /\ listener[h][k].pc \in {"syn", "ack"}
    /\ cli[h] = [on |-> "StopFlag", id |-> k]
    /\ cli' = [cli EXCEPT ![h] = Prompt]
    /\ VAcceptReturns(h, k)
    /\ UNCHANGED <<ListenersTable, SocketTable, socket, loop, net, faults>>

VAccept(h) ==
    \E k \in DOMAIN listener[h] :
        \/ TakeSyn(h, k) \/ InsertAccepted(h, k) \/ SendSynAck(h, k)
        \/ AssignSynSent(h, k) \/ TakeAck(h, k) \/ TakeStopFlag(h, k)

------------------------------------------------------------------------------
(* VConnect, in the goroutine of a c command *)

VConnectsOf(h) == {i \in DOMAIN socket[h] : socket[h][i].by = "VConnect"}

\* Mutant: SocketTable is not looked at.
NotConnectedUnchecked(h, conn) == TRUE

NotConnected(h, conn) == conn \notin DOMAIN SocketTable[h]

\* Under tcp.Lock: getUnusedPort (UsedPorts is always empty, so that any port
\* comes out), MakeTCPSocket and the entry.  Whether anybody listens on the remote
\* port does not show here.  A connection that is in the table already is an
\* error, and nothing happens.
CallVConnect(h) ==
    /\ cli[h] = Prompt
    /\ Cardinality(VConnectsOf(h)) < MaxConnects[h]
    /\ \E port \in EphemeralPorts, remote \in Hosts \ {h}, remotePort \in Dialled[h],
          seq \in SeqNums :
           LET conn == [LocalPort |-> port, Remote |-> remote, RemotePort |-> remotePort]
               s == MakeTCPSocket("VConnect", "SYN_SENT", conn, 0, seq)
           IN /\ NotConnected(h, conn)
              /\ socket' = [socket EXCEPT ![h] = Append(@, s)]
              /\ SocketTable' = [SocketTable EXCEPT ![h] =
                                   Entered(@, conn, Len(socket[h]) + 1)]
    /\ UNCHANGED <<ListenersTable, listener, loop, cli, net, faults>>

\* If SendIP fails VConnect returns, and the socket stays in the table.
SendSyn(h, i) ==
    /\ socket[h][i].pc = "syn"
    /\ \/ /\ SendPacket(h, socket[h][i], "SYN", socket[h][i].InitSeqNum, 0)
          /\ socket' = [socket EXCEPT ![h][i].pc = "synAck"]
          /\ UNCHANGED faults
       \/ SendIPFails /\ socket' = [socket EXCEPT ![h][i].pc = "failed"]
    /\ UNCHANGED <<ListenersTable, listener, SocketTable, loop, cli>>

\* Mutant: any SYN-ACK will do.
AnySynAck(s, packet) == packet.Flags = "SYN-ACK"

SynAckOfSyn(s, packet) ==
    /\ packet.Flags = "SYN-ACK"
    /\ packet.AckNum = Next1(s.InitSeqNum)

\* A packet that is not the SYN-ACK makes VConnect return an error; the socket
\* stays in the table and nobody receives for it.
TakeSynAck(h, i) ==
    /\ socket[h][i].pc = "synAck"
    /\ HandedToSocket(h, i)
    /\ LET packet == loop[h].packet IN
       IF SynAckOfSyn(socket[h][i], packet)
       THEN socket' = [socket EXCEPT ![h][i].RemoteISN = packet.SeqNum,
                                     ![h][i].pc = "ack"]
       ELSE socket' = [socket EXCEPT ![h][i].pc = "failed"]
    /\ UNCHANGED <<ListenersTable, listener, SocketTable, cli, net, faults>>

SendAckOfSynAck(h, i) ==
    LET s == socket[h][i] IN
    /\ s.pc = "ack"
    /\ \/ /\ SendPacket(h, s, "ACK", Next1(s.InitSeqNum), Next1(s.RemoteISN))
          /\ socket' = [socket EXCEPT ![h][i].pc = "establish"]
          /\ UNCHANGED faults
       \/ SendIPFails /\ socket' = [socket EXCEPT ![h][i].pc = "failed"]
    /\ UNCHANGED <<ListenersTable, listener, SocketTable, loop, cli>>

\* Mutant: nothing receives for the socket any more.
EstablishAlone(h, i) ==
    /\ socket[h][i].pc = "establish"
    /\ socket' = [socket EXCEPT ![h][i].ConnState = "ESTABLISHED",
                                ![h][i].pc = "failed"]
    /\ UNCHANGED <<ListenersTable, listener, SocketTable, loop, cli, net, faults>>

Establish(h, i) ==
    /\ socket[h][i].pc = "establish"
    /\ socket' = [socket EXCEPT ![h][i].ConnState = "ESTABLISHED",
                                ![h][i].pc = "HandleConn"]
    /\ UNCHANGED <<ListenersTable, listener, SocketTable, loop, cli, net, faults>>

\* case <-socket.CloseSocket; the entry is deleted a moment later.
TakeCloseSocket(h, i) ==
    /\ socket[h][i].pc = "synAck"
    /\ cli[h] = [on |-> "CloseSocket", id |-> i]
    /\ cli' = [cli EXCEPT ![h] = Prompt]
    /\ socket' = [socket EXCEPT ![h][i].pc = "delete"]
    /\ UNCHANGED <<ListenersTable, listener, SocketTable, loop, net, faults>>

DeleteConn(h, i) ==
    /\ socket[h][i].pc = "delete"
    /\ SocketTable' = [SocketTable EXCEPT ![h] =
         Restrict(@, DOMAIN @ \ {socket[h][i].Conn})]
    /\ socket' = [socket EXCEPT ![h][i].pc = "failed"]
    /\ UNCHANGED <<ListenersTable, listener, loop, cli, net, faults>>

VConnect(h) ==
    \E i \in VConnectsOf(h) :
        \/ SendSyn(h, i) \/ TakeSynAck(h, i) \/ SendAckOfSynAck(h, i)
        \/ Establish(h, i) \/ TakeCloseSocket(h, i) \/ DeleteConn(h, i)

------------------------------------------------------------------------------
(* An established connection, as far as its packets matter here *)

\* HandleConn takes what TcpHandler has for it.
HandleConn(h) ==
    /\ \E i \in DOMAIN socket[h] :
         socket[h][i].pc = "HandleConn" /\ HandedToSocket(h, i)
    /\ UNCHANGED <<ListenersTable, listener, SocketTable, socket, cli, net, faults>>

\* The first segment of HandleVWrite.  It carries the numbers of the ACK of
\* VConnect, and HandleRT repeats it until it is acknowledged.
SendFirstSegment(h) ==
    /\ \E i \in DOMAIN socket[h] :
         LET s == socket[h][i] IN
         /\ s.pc = "HandleConn"
         /\ net[s.Conn.Remote] = <<>>
         /\ SendPacket(h, s, "ACK", Next1(s.InitSeqNum), Next1(s.RemoteISN))
    /\ UNCHANGED <<ListenersTable, listener, SocketTable, socket, loop, cli, faults>>

------------------------------------------------------------------------------
(* The cl command, in the goroutine of the command line *)

CanStop(h) ==
    /\ cli[h] = Prompt
    /\ faults.stop < MaxStops
    /\ faults' = [faults EXCEPT !.stop = @ + 1]

\* VClose of a listener: no VAccept need be there to take the StopFlag.
StopListener(h) ==
    /\ CanStop(h)
    /\ \E port \in DOMAIN ListenersTable[h] :
         /\ cli' = [cli EXCEPT ![h] = [on |-> "StopFlag", id |-> ListenersTable[h][port]]]
         /\ ListenersTable' = [ListenersTable EXCEPT ![h] = Restrict(@, DOMAIN @ \ {port})]
    /\ UNCHANGED <<listener, SocketTable, socket, loop, net>>

\* VClose of a socket in SYN_SENT, whether VConnect or VAccept made it.  The
\* state read may be out of date when CloseSocket is sent.  In SYN_RECEIVED
\* VClose returns an error; from ESTABLISHED on see TcpConnection.
CloseSynSent(h) ==
    /\ CanStop(h)
    /\ \E conn \in DOMAIN SocketTable[h] :
         LET i == SocketTable[h][conn] IN
         /\ socket[h][i].ConnState = "SYN_SENT"
         /\ cli' = [cli EXCEPT ![h] = [on |-> "CloseSocket", id |-> i]]
    /\ UNCHANGED <<ListenersTable, listener, SocketTable, socket, loop, net>>

Lose(h) ==
    /\ faults.loss < MaxLoss
    /\ net[h] # <<>>
    /\ net' = [net EXCEPT ![h] = Tail(@)]
    /\ faults' = [faults EXCEPT !.loss = @ + 1]
    /\ UNCHANGED <<ListenersTable, listener, SocketTable, socket, loop, cli>>

------------------------------------------------------------------------------
Next ==
    \E h \in Hosts :
        \/ TcpHandler(h) \/ HandleConn(h) \/ VAccept(h) \/ VConnect(h)
        \/ VListen(h) \/ CallVConnect(h) \/ StopListener(h) \/ CloseSynSent(h)
        \/ SendFirstSegment(h) \/ Lose(h)

Spec == Init /\ [][Next]_vars

\* The Go scheduler runs every goroutine that can go on.  Users need not type
\* anything, and applications need not write.
Fairness ==
    \A h \in Hosts :
        WF_vars(TcpHandler(h)) /\ WF_vars(HandleConn(h))
        /\ WF_vars(VAccept(h)) /\ WF_vars(VConnect(h))

FairSpec == Spec /\ Fairness

------------------------------------------------------------------------------
(* What must hold *)

SocketRecords ==
    [by : {"VConnect", "VAccept"},
     pc : {"syn", "synAck", "ack", "establish", "delete", "failed", "VAccept", "HandleConn"},
     Conn : Conns, ConnState : {"SYN_SENT", "SYN_RECEIVED", "ESTABLISHED"},
     InitSeqNum : SeqNums, RemoteISN : 0 .. SeqSpace - 1]

\* Tables, goroutines, channels and packets have their types, and the tables
\* and the channels name sockets and listeners that exist.
TypeOK ==
    \A h \in Hosts :
        /\ DOMAIN ListenersTable[h] \subseteq Ports
        /\ \A port \in DOMAIN ListenersTable[h] :
             ListenersTable[h][port] \in DOMAIN listener[h]
        /\ DOMAIN SocketTable[h] \subseteq Conns
        /\ \A conn \in DOMAIN SocketTable[h] :
             /\ SocketTable[h][conn] \in DOMAIN socket[h]
             /\ socket[h][SocketTable[h][conn]].Conn = conn
        /\ \A i \in DOMAIN socket[h] : socket[h][i] \in SocketRecords
        /\ \A k \in DOMAIN listener[h] :
             listener[h][k].pc # "syn" => listener[h][k].id \in DOMAIN socket[h]
        /\ loop[h].to = "socket" => loop[h].id \in DOMAIN socket[h]
        /\ loop[h].to = "listener" => loop[h].id \in DOMAIN listener[h]
        /\ \A n \in DOMAIN net[h] : net[h][n] \in Packets

Established(h, i) == socket[h][i].ConnState = "ESTABLISHED"

\* Socket j of the remote host is the other end of socket i of h: made by the
\* other call, for the same connection, and each knows the initial sequence
\* number of the other.
OtherEnd(h, i, j) ==
    LET s == socket[h][i]
        t == socket[s.Conn.Remote][j]
    IN /\ t.by # s.by
       /\ t.Conn = Reversed(h, s.Conn)
       /\ t.RemoteISN = s.InitSeqNum
       /\ t.InitSeqNum = s.RemoteISN

\* Whoever is established has one other end, which has at least seen its
\* packet, whatever packets of earlier attempts on the same port are still
\* about and whatever was lost or given up in between.
EstablishedInPairs ==
    \A h \in Hosts : \A i \in DOMAIN socket[h] :
        Established(h, i) =>
            \E j \in DOMAIN socket[socket[h][i].Conn.Remote] :
                /\ OtherEnd(h, i, j)
                /\ socket[h][i].by = "VAccept" =>
                     socket[socket[h][i].Conn.Remote][j].pc \in {"establish", "HandleConn"}

ListenedOnOnce(h, port) ==
    \A k, l \in DOMAIN listener[h] :
        listener[h][k].PortNumber = port /\ listener[h][l].PortNumber = port => k = l

\* An established connection is found: TcpHandler looks its socket up under
\* its own key.  VAccept enters its sockets without looking, and VConnect
\* deletes by key a moment after it was told to.  Where a port is listened on
\* again, the VAccept of the listener before may still enter a socket of its own
\* (api.go:61) over the one established since.
EstablishedInTable ==
    \A h \in Hosts : \A i \in DOMAIN socket[h] :
        Established(h, i) /\ ListenedOnOnce(h, socket[h][i].Conn.LocalPort) =>
            /\ socket[h][i].Conn \in DOMAIN SocketTable[h]
            /\ SocketTable[h][socket[h][i].Conn] = i

\* The indices a socket may have: at most one socket for each VConnect, at either end, on two hosts.
SocketIDs == 1 .. FoldFunctionOnSet(+, 0, MaxConnects, Hosts)

Connecting(h, i) ==
    /\ i \in VConnectsOf(h)
    /\ socket[h][i].pc = "syn"
    /\ LET conn == socket[h][i].Conn
       IN conn.RemotePort \in DOMAIN ListenersTable[conn.Remote]

Connected(h, i) ==
    /\ i \in VConnectsOf(h)
    /\ Established(h, i)
    /\ LET r == socket[h][i].Conn.Remote
       IN \E j \in DOMAIN socket[r] : OtherEnd(h, i, j) /\ Established(r, j)

\* A VConnect to a port that is listened on ends with both sockets
\* established, without any retransmission: nothing may go missing, and no
\* goroutine may wait for one that waits for it.
HandshakeCompletes ==
    \A h \in Hosts : \A i \in SocketIDs : Connecting(h, i) ~> Connected(h, i)

\* The goroutine that reads a node's packets gets rid of each of them.
PacketLoopGetsOn == \A h \in Hosts : loop[h] # Idle ~> loop[h] = Idle

\* "VClose only initiates the close process - it MUST NOT block" (api.go:334):
\* a cl command on a socket returns.
VCloseReturns == \A h \in Hosts : cli[h].on = "CloseSocket" ~> cli[h] = Prompt
==============================================================================
