---------------------------- MODULE TcpProperties ----------------------------
(***************************************************************************)
(* What must hold of a connection.  TcpConnection says what the code does; *)
(* nothing here changes it.                                                *)
(***************************************************************************)
EXTENDS TcpConnection

\* Bytes of e's stream that its peer has put, in order, into its ReadBuffer.
Received(e) == rcv[Peer(e)].NextExpectedByte - 1

FinSent(e) == vwrite[e].pc \in {"finSeq", "finQueue", "done"}

\* The states in which e knows of the peer's FIN.
PeerHasClosed(e) ==
    sock[e].ConnState \in {"CLOSE_WAIT", "LAST_ACK", "CLOSING", "TIME_WAIT", "CLOSED"}

Holds(data, b) == \E i \in DOMAIN data : data[i] = b
Queued(e, b) == \E i \in DOMAIN rtq[e].RTQueue : Holds(rtq[e].RTQueue[i].Data, b)

\* First sequence number after a queued segment; a FIN occupies one.
SegmentEnd(item) == item.SeqNum + (IF item.Flags = "FIN" THEN 1 ELSE Len(item.Data))

------------------------------------------------------------------------------
(* Sending and retransmission *)

\* The bytes of the segments of a queue.
BytesOf(queue) == FoldLeft(LAMBDA n, item : n + Len(item.Data), 0, queue)

\* The byte of a probe is counted from ArmZWP to LeaveZWP.
Probed(e) == IF vwrite[e].pc \in {"probing", "zwpExit"} THEN 1 ELSE 0

\* BytesInFlight, kept by HandleVWrite, its probes and HandleTCPPacket with
\* one += or -= each, is what RTQueue holds and the probe, modulo its width.
InFlightAccounting ==
    \A e \in Ends :
        rtq[e].BytesInFlight = (BytesOf(rtq[e].RTQueue) + Probed(e)) % Word

\* A byte that VWrite accepted and the peer has not received in order is
\* still at hand: in WriteBuffer, in the payload being cut into segments, in
\* RTQueue, or in the probe.  ("Any data not yet ACKed should still be
\* retransmitted as normal", api.go:333.)
NothingLost ==
    \A e \in Ends : \A b \in Received(e) + 1 .. writer[e].written :
        \/ Holds(WriteBuffer[e], b)
        \/ Holds(vwrite[e].payload, b)
        \/ Holds(vwrite[e].packet.Data, b)
        \/ Queued(e, b)

\* Outside the purge of an arriving ACK, everything in RTQueue is still
\* unacknowledged, and in sequence: what Acknowledged and the order in which
\* HandleVWrite queues and counts a segment must bring about together.
RTQueueUnacknowledged ==
    \A e \in Ends :
        LET queue == rtq[e].RTQueue IN
        handler[e].pc # "purge" =>
            \A i \in DOMAIN queue :
                /\ snd[e].LargestAck < SegmentEnd(queue[i])
                /\ i > 1 => SegmentEnd(queue[i - 1]) <= queue[i].SeqNum

\* No wakeup for data is lost on the four condition variables: HandleVWrite
\* and VRead never sleep on a buffer that holds bytes, VWrite never on one
\* with room, HandleRT never on a queue with data.  WriteSegment broadcasts
\* after it has given up ReadLock, and only if it wrote a whole segment.
HandleVWriteWoken(e) ==
    vwrite[e].pc \in {"sleep", "waiting"} => WriteBuffer[e] = <<>>
VWriteWoken(e) ==
    writer[e].pc = "waiting" => Len(WriteBuffer[e]) = MaxBufferSize
VReadWoken(e) ==
    reader[e].pc \in {"sleep", "waiting"} => rcv[e].ReadBuffer = <<>>
HandleRTWoken(e) ==
    rt[e] = "waiting" =>
        \A i \in DOMAIN rtq[e].RTQueue : rtq[e].RTQueue[i].Data = <<>>
NoLostWakeup ==
    \A e \in Ends :
        HandleVWriteWoken(e) /\ VWriteWoken(e) /\ VReadWoken(e) /\ HandleRTWoken(e)

------------------------------------------------------------------------------
(* Receiving *)

\* SND.UNA never passes what the peer has received: an acknowledgement, however
\* late, repeated or overtaken, is never taken for more than it says.
NoAckOfUnreceived ==
    \A e \in Ends :
        snd[e].LargestAck <= InitSeqNum[e] + rcv[Peer(e)].NextExpectedByte
                             + (IF FinSent(e) THEN 1 ELSE 0)

\* What VRead has returned and what ReadBuffer holds are, one after the other,
\* the bytes counted by NextExpectedByte: none twice, none out of order.
StreamIntegrity ==
    \A e \in Ends :
        reader[Peer(e)].delivered \o rcv[Peer(e)].ReadBuffer
            = [i \in 1 .. Received(e) |-> i]

\* The bytes of the Client's stream, as the applications see them.
Stream == INSTANCE ByteStream WITH
    Length <- ToWrite[Client],
    accepted <- writer[Client].written,
    delivered <- reader[Server].delivered

\* The connection implements the byte stream, and (under FairSpec) delivers it.
ImplementsByteStream == Stream!Safety
DeliversByteStream == Stream!Spec

------------------------------------------------------------------------------
(* Zero window probing *)

\* "wake up when there is space, break out of for loop" (socket.go:450):
\* HandleTCPPacket, which must take the next packet, is not held at ZWPStop
\* for ever.
HandlerGetsOn == \A e \in Ends : handler[e].pc = "stop" ~> handler[e].pc # "stop"

\* "If SND.UNA =< SEG.ACK =< SND.NXT, the send window should be updated"
\* (socket.go:124): once HandleTCPPacket is past that point, the window is not
\* older than the acknowledgement that moved SND.UNA.
WindowFollows ==
    \A e \in Ends :
        /\ handler[e].pc \notin {"purge", "window", "done"}
        /\ snd[e].LargestAck > InitSeqNum[e] + 1
        => snd[e].LastSegmentAckNumber >= snd[e].LargestAck

------------------------------------------------------------------------------
(* Closing *)

\* A FIN is taken only behind the last byte the peer has numbered: whoever
\* knows that the peer has closed has received all that was sent before it,
\* however the FIN and the data were reordered, repeated or lost.
FinAfterData ==
    \A e \in Ends :
        LET p == Peer(e) IN
        PeerHasClosed(e) =>
            /\ FinSent(p)
            /\ rcv[e].NextExpectedByte = snd[p].NumberBytesSent
                                         + (IF vwrite[p].pc = "finSeq" THEN 1 ELSE 0)

\* "the socket MUST NOT be deleted from the socket table until it has reached
\* the CLOSED state (ie, after the other side closes the connection...)"
\* (api.go:335).
DeletedAfterBothClosed ==
    \A e \in Ends :
        ~sock[e].InTable =>
            /\ closer[e] # "idle"
            /\ FinSent(e) /\ FinSent(Peer(e))
            /\ PeerHasClosed(e)

\* "Connection Teardown. Works as expected." (README.md:62): when nothing is
\* lost and both ends have called VClose, both sockets leave the table.
TeardownCompletes ==
    (\A e \in Ends : closer[e] = "done") ~> (\A e \in Ends : ~sock[e].InTable)
==============================================================================
