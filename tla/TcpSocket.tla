------------------------------ MODULE TcpSocket ------------------------------
(***************************************************************************)
(* The state of a TCP connection between two nodes that run pkg/tcp: the   *)
(* TCPSocket structure of each end (types.go), the goroutines that work on *)
(* it, the application threads that call the socket API, and the IP        *)
(* network between the two.  The actions are in TcpSend, TcpReceive and    *)
(* TcpConnection.                                                          *)
(*                                                                         *)
(* A record field carries the name of the structure field it stands for.   *)
(* A byte of the stream an application writes is its index 1, 2, 3, ... in *)
(* that stream, so that loss, duplication and reordering can be told apart.*)
(***************************************************************************)
EXTENDS Integers, Sequences, SequencesExt

CONSTANTS
    Client,          \* the end that called VConnect
    Server,          \* the end whose socket VAccept made
    InitSeqNum,      \* InitSeqNum of each end's socket (random in the code)
    MaxBufferSize,   \* 1<<16 - 1: ring buffer capacity and largest uint16
    MaxSegmentSize,  \* 1024: most bytes in one segment
    SeqSpace,        \* 2^32: the uint32 sequence numbers are 0..SeqSpace-1
    ToWrite,         \* bytes the application of each end passes to VWrite
    WriteSize,       \* bytes it passes in one call
    Reads,           \* the ends whose application calls VRead
    Closing,         \* the ends whose application may call VClose
    AtRest,          \* the ends whose goroutines wait before the first call
    MaxLoss,         \* bound: packets the network may lose
    MaxSendErr,      \* bound: SendIP calls of HandleVWrite that may fail
    MaxPremature,    \* bound: resends while packets are still on their way
    MaxReorder,      \* bound: packets one packet may overtake
    MaxNet,          \* bound: packets in flight to one end, more are lost
    MaxEarly         \* bound: early arrivals held, more are not modelled

Ends == {Client, Server}
Peer(e) == IF e = Client THEN Server ELSE Client

\* BytesInFlight, RemoteWindowSize and WindowSize are uint16.
Word == MaxBufferSize + 1

ASSUME EndsAssumption == Client # Server
ASSUME SizeAssumption ==
    /\ MaxBufferSize \in Nat \ {0}
    /\ MaxSegmentSize \in 1 .. MaxBufferSize
    /\ SeqSpace \in Nat \ {0, 1}
    /\ InitSeqNum \in [Ends -> 0 .. SeqSpace - 1]
ASSUME WorkloadAssumption ==
    /\ ToWrite \in [Ends -> Nat]
    /\ WriteSize \in Nat \ {0}
    /\ Reads \subseteq Ends /\ AtRest \subseteq Ends /\ Closing \subseteq Ends
ASSUME BoundAssumption ==
    /\ MaxLoss \in Nat /\ MaxSendErr \in Nat /\ MaxPremature \in Nat
    /\ MaxReorder \in Nat /\ MaxNet \in Nat /\ MaxEarly \in Nat

VARIABLES
    sock,         \* ConnState, IsClosed, and InTable: in tcp.SocketTable
    snd,          \* the sequence, window and probe fields of the sender
    WriteBuffer,  \* the ring buffer between VWrite and HandleVWrite
    rtq,          \* RTQueue, BytesInFlight and the retransmission timer
    rcv,          \* NextExpectedByte, ReadBuffer and EarlyArrivalQueue
    handler,      \* goroutine HandleConn, and the packet it works on
    vwrite,       \* goroutine HandleVWrite, its payload still to send, and
                  \* the probe or FIN packet it works on
    rt,           \* goroutine HandleRT
    writer,       \* application thread in VWrite; bytes it has handed over
    reader,       \* application thread in VRead; the bytes it has returned
    closer,       \* application thread in VClose
    net,          \* the packets on their way to each end
    faults        \* losses, SendIP errors and premature resends so far

vars == <<sock, snd, WriteBuffer, rtq, rcv, handler, vwrite, rt,
          writer, reader, closer, net, faults>>

------------------------------------------------------------------------------
(* Packets and sequence numbers *)

States == {"CLOSED", "ESTABLISHED", "FIN_WAIT_1", "FIN_WAIT_2",
           "CLOSE_WAIT", "CLOSING", "LAST_ACK", "TIME_WAIT"}

Byte == Nat
SeqNums == 0 .. SeqSpace - 1
Windows == 0 .. MaxBufferSize
Text == {s \in Seq(Byte) : Len(s) <= MaxSegmentSize}

Packet == [Flags : {"ACK", "FIN"}, SeqNum : SeqNums, AckNum : SeqNums,
           WindowSize : Windows, Data : Text]

\* What a goroutine's local packet variable holds while it has no packet.
NoPacket == [Flags |-> "ACK", SeqNum |-> 0, AckNum |-> 0,
             WindowSize |-> 0, Data |-> <<>>]

Smaller(x, y) == IF x <= y THEN x ELSE y

\* The first n elements of a sequence, and the rest.
First(s, n) == SubSeq(s, 1, n)
After(s, n) == SubSeq(s, n + 1, Len(s))

\* InitSeqNum + NumberBytesSent + 1: SeqNum of the next segment, and the
\* value NextSequenceNumber, which moves together with NumberBytesSent.
NextSequenceNumber(e) ==
    (InitSeqNum[e] + 1 + snd[e].NumberBytesSent) % SeqSpace

\* packet.Header.SeqNum - RemoteISN, the number relative to the peer's.
Relative(e, packet) ==
    (packet.SeqNum - InitSeqNum[Peer(e)]) % SeqSpace

\* Is the packet the next one expected; does it come before its turn?
InOrder(e, packet) == Relative(e, packet) = rcv[e].NextExpectedByte
Early(e, packet) == Relative(e, packet) > rcv[e].NextExpectedByte

\* The checks VRead and VWrite begin with: the socket is found and its state
\* is not above ESTABLISHED (CLOSED is below it).
Usable(e) == sock[e].InTable /\ sock[e].ConnState \in {"CLOSED", "ESTABLISHED"}

\* Mutant: the capacity of a buffer taken for 1<<16, one more than it is.
ReadBufferFreeOfWord(e) == Word - Len(rcv[e].ReadBuffer)
ReadBufferFree(e) == MaxBufferSize - Len(rcv[e].ReadBuffer)
WriteBufferFree(e) == MaxBufferSize - Len(WriteBuffer[e])

\* The packet end e sends now with these flags, acknowledging NextExpectedByte
\* + extra; every packet of the connection is built from the same fields.
Segment(e, flags, data, extra) ==
    [Flags |-> flags,
     SeqNum |-> NextSequenceNumber(e),
     AckNum |-> (rcv[e].NextExpectedByte + InitSeqNum[Peer(e)] + extra) % SeqSpace,
     WindowSize |-> ReadBufferFree(e),
     Data |-> data]

\* SendIP to the peer.  IP over UDP promises nothing: a packet that finds
\* MaxNet packets in flight is lost, as it is in a full socket buffer.
Sent(e, packet) ==
    IF Len(net[Peer(e)]) < MaxNet
    THEN [net EXCEPT ![Peer(e)] = Append(@, packet)]
    ELSE net

\* A retransmission or a probe that leaves while nothing is on its way and no
\* packet is being handled is always allowed; one that leaves earlier, because
\* its timer is shorter than the round trip, is counted against MaxPremature.
Quiet == \A e \in Ends : net[e] = <<>> /\ handler[e].pc \in {"idle", "done"}
MayResend == Quiet \/ faults.premature < MaxPremature
CountResend ==
    faults' = IF Quiet THEN faults ELSE [faults EXCEPT !.premature = @ + 1]

------------------------------------------------------------------------------
(* Locks and condition variables.  A mutex is held exactly in the listed    *)
(* control states, so that it needs no variable of its own.                 *)

WriteLockFree(e) == vwrite[e].pc \notin {"sleep", "size", "zwp"}
RTQueueLockFree(e) == handler[e].pc # "purge"
ReadLockFree(e) == reader[e].pc # "sleep"

\* Mutants: a broadcast is forgotten.
WokenVWriteNot(e) == vwrite
WokenReaderNot(e) == reader
WokenRTNot(e) == rt

\* Broadcast on WriteNotEmpty, WriteNotFull, ReadBufferNotEmpty and
\* RTQueueNotEmpty: it wakes a thread that waits and is lost on any other.
\* Each operator is the next value of the variable of the thread that may wait.
WokenVWrite(e) ==
    IF vwrite[e].pc = "waiting" THEN [vwrite EXCEPT ![e].pc = "lock"]
                                ELSE vwrite
WokenWriter(e) ==
    IF writer[e].pc = "waiting" THEN [writer EXCEPT ![e].pc = "lock"]
                                ELSE writer
WokenReader(e) ==
    IF reader[e].pc = "waiting" THEN [reader EXCEPT ![e].pc = "lock"]
                                ELSE reader
WokenRT(e) ==
    IF rt[e] = "waiting" THEN [rt EXCEPT ![e] = "top"] ELSE rt

------------------------------------------------------------------------------
(* The state just after the handshake: VConnect and VAccept have both set   *)
(* ESTABLISHED and started HandleConn.  At the ends of AtRest, HandleVWrite  *)
(* and HandleRT have since found their queues empty and wait.                *)

\* The two ends do not start alike: MakeTCPSocket sets
\* LastSegmentSequenceNumber to the RemoteISN it is given, which is 0 in
\* VConnect, and only VConnect sets LargestAck.
InitialSender(e) ==
    [NumberBytesSent |-> 0,
     LargestAck |-> IF e = Client THEN (InitSeqNum[e] + 1) % SeqSpace ELSE 0,
     RemoteWindowSize |-> MaxBufferSize,
     LastSegmentSequenceNumber |-> IF e = Client THEN 0 ELSE InitSeqNum[Client],
     LastSegmentAckNumber |-> 0,
     ZWPMode |-> FALSE,
     ZWPSeq |-> 0]

Init ==
    /\ sock = [e \in Ends |-> [ConnState |-> "ESTABLISHED",
                               IsClosed |-> FALSE, InTable |-> TRUE]]
    /\ snd = [e \in Ends |-> InitialSender(e)]
    /\ WriteBuffer = [e \in Ends |-> <<>>]
    /\ rtq = [e \in Ends |-> [RTQueue |-> <<>>, BytesInFlight |-> 0,
                              OngoingRTTimer |-> FALSE, RTTimer |-> TRUE]]
    /\ rcv = [e \in Ends |-> [NextExpectedByte |-> 1, ReadBuffer |-> <<>>,
                              EarlyArrivalQueue |-> <<>>]]
    /\ handler = [e \in Ends |-> [pc |-> "idle", packet |-> NoPacket]]
    /\ vwrite = [e \in Ends |-> [pc |-> IF e \in AtRest THEN "waiting" ELSE "lock",
                                 payload |-> <<>>,
                                 packet |-> NoPacket]]
    /\ rt = [e \in Ends |-> IF e \in AtRest THEN "waiting" ELSE "top"]
    /\ writer = [e \in Ends |-> [pc |-> "idle", written |-> 0]]
    /\ reader = [e \in Ends |-> [pc |-> "idle", delivered |-> <<>>]]
    /\ closer = [e \in Ends |-> "idle"]
    /\ net = [e \in Ends |-> <<>>]
    /\ faults = [loss |-> 0, sendErr |-> 0, premature |-> 0]

------------------------------------------------------------------------------
(* The type invariant: every field keeps the range of its Go type (the      *)
(* uint16 and uint32 fields are reduced modulo their width wherever the     *)
(* code adds to them), the ring buffers never exceed their capacity, and    *)
(* each goroutine is at one of its control points.                          *)

Buffer == {s \in Seq(Byte) : Len(s) <= MaxBufferSize}

SocketType == [ConnState : States, IsClosed : BOOLEAN, InTable : BOOLEAN]

SenderType ==
    [NumberBytesSent : SeqNums, LargestAck : SeqNums,
     RemoteWindowSize : Windows,
     LastSegmentSequenceNumber : SeqNums, LastSegmentAckNumber : SeqNums,
     ZWPMode : BOOLEAN, ZWPSeq : SeqNums]

RTQueueType ==
    [RTQueue : Seq(Packet), BytesInFlight : Windows,
     OngoingRTTimer : BOOLEAN, RTTimer : BOOLEAN]

ReceiverType ==
    [NextExpectedByte : SeqNums, ReadBuffer : Buffer,
     EarlyArrivalQueue : Seq(Packet)]

HandlerStates ==
    {"idle", "again", "purge", "window", "probe", "stop", "text", "early",
     "ack", "done"}

HandlerType == [pc : HandlerStates, packet : Packet]

VWriteStates ==
    {"lock", "sleep", "waiting", "size", "segment", "advance", "zwp", "zwpArm",
     "probing", "zwpExit", "fin", "finSeq", "finQueue", "done"}

VWriteType == [pc : VWriteStates, payload : Seq(Byte), packet : Packet]

RTStates == {"top", "waiting", "timer", "resend", "done"}

WriterType == [pc : {"idle", "lock", "waiting", "done"}, written : Nat]

ReaderType ==
    [pc : {"idle", "lock", "sleep", "waiting", "failed"}, delivered : Seq(Byte)]

CloserStates == {"idle", "finWait1", "wake", "wakeLast", "lastAck", "done"}

TypeOK ==
    /\ sock \in [Ends -> SocketType]
    /\ snd \in [Ends -> SenderType]
    /\ WriteBuffer \in [Ends -> Buffer]
    /\ rtq \in [Ends -> RTQueueType]
    /\ rcv \in [Ends -> ReceiverType]
    /\ handler \in [Ends -> HandlerType]
    /\ vwrite \in [Ends -> VWriteType]
    /\ rt \in [Ends -> RTStates]
    /\ writer \in [Ends -> WriterType]
    /\ reader \in [Ends -> ReaderType]
    /\ closer \in [Ends -> CloserStates]
    /\ net \in [Ends -> Seq(Packet)]
    /\ faults \in [loss : Nat, sendErr : Nat, premature : Nat]
==============================================================================
