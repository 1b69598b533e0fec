----------------------------- MODULE TcpReceive ------------------------------
(***************************************************************************)
(* The receiving half of a socket: goroutine HandleConn with               *)
(* HandleTCPPacket and WriteSegment (socket.go), the early arrival queue   *)
(* (queue.go), and the API call VRead (api.go).                            *)
(*                                                                         *)
(* HandleTCPPacket holds SocketLock from end to end, but no other goroutine*)
(* ever takes that lock: HandleVWrite, HandleRT and the application work on*)
(* the same fields between any two of its steps.                           *)
(***************************************************************************)
EXTENDS TcpSocket

------------------------------------------------------------------------------
(* Taking a packet from the network *)

\* The packet at place i of the queue reaches its socket, overtaking the i - 1
\* before it.
Overtaken(e, i) == i \in 1 .. Len(net[e]) /\ i <= MaxReorder + 1

\* TcpHandler found the socket and the packet has passed PacketChannel, which
\* HandleConn reads only between two packets.  For an ACK: SND.UNA moves
\* when SND.UNA < SEG.ACK <= SND.NXT, and the timer is Reset if it is marked
\* as running.  RTTimer is a copy of the timer NewTimer made, and whether
\* Reset on a copy rearms it depends on what the copy held: it may or may not.
Acceptable(e, packet) ==
    /\ snd[e].LargestAck < packet.AckNum
    /\ packet.AckNum <= NextSequenceNumber(e)

ReceiveNewAck(e, i) ==
    /\ handler[e].pc = "idle"
    /\ sock[e].InTable
    /\ Overtaken(e, i)
    /\ RTQueueLockFree(e)
    /\ net[e][i].Flags = "ACK"
    /\ Acceptable(e, net[e][i])
    /\ net' = [net EXCEPT ![e] = RemoveAt(@, i)]
    /\ snd' = [snd EXCEPT ![e].LargestAck = net[e][i].AckNum]
    /\ \E live \in BOOLEAN :
         /\ live => rtq[e].OngoingRTTimer
         /\ rtq' = [rtq EXCEPT ![e].RTTimer = @ \/ live]
    /\ handler' = [handler EXCEPT ![e] = [pc |-> "purge", packet |-> net[e][i]]]
    /\ UNCHANGED <<sock, WriteBuffer, rcv, vwrite, rt, writer, reader, closer, faults>>

\* An ACK that does not move SND.UNA.  Above SND.NXT it is compared again
\* ("again"); NextSequenceNumber may have moved in between.
ReceiveOtherAck(e, i) ==
    /\ handler[e].pc = "idle"
    /\ sock[e].InTable
    /\ Overtaken(e, i)
    /\ net[e][i].Flags = "ACK"
    /\ ~Acceptable(e, net[e][i])
    /\ net' = [net EXCEPT ![e] = RemoveAt(@, i)]
    /\ handler' = [handler EXCEPT
         ![e] = [pc |-> IF net[e][i].AckNum > NextSequenceNumber(e)
                        THEN "again" ELSE "window",
                 packet |-> net[e][i]]]
    /\ UNCHANGED <<sock, snd, WriteBuffer, rtq, rcv, vwrite, rt, writer,
                   reader, closer, faults>>

\* The second comparison: the packet is dropped, its data with it.
CompareAckAgain(e) ==
    /\ handler[e].pc = "again"
    /\ handler' = [handler EXCEPT
         ![e] = IF @.packet.AckNum > NextSequenceNumber(e)
                THEN [pc |-> "idle", packet |-> NoPacket]
                ELSE [@ EXCEPT !.pc = "window"]]
    /\ UNCHANGED <<sock, snd, WriteBuffer, rtq, rcv, vwrite, rt, writer,
                   reader, closer, net, faults>>

------------------------------------------------------------------------------
(* The retransmission queue *)

\* Mutants: a segment counts as acknowledged a byte too early, too late.
AcknowledgedEarly(e, item) == item.SeqNum + Len(item.Data) <= snd[e].LargestAck + 1
AcknowledgedLate(e, item) == item.SeqNum + Len(item.Data) < snd[e].LargestAck

\* Priority + len(Data) <= LargestAck, in int: it does not wrap.  A FIN has no
\* data, so its own sequence number is enough.
Acknowledged(e, item) == item.SeqNum + Len(item.Data) <= snd[e].LargestAck

\* The queue q without its head.  Mutant: BytesInFlight is left as it is.
DequeuedUncounted(q) == [q EXCEPT !.RTQueue = Tail(@)]
Dequeued(q) ==
    [q EXCEPT !.RTQueue = Tail(@),
              !.BytesInFlight = (@ - Len(Head(q.RTQueue).Data)) % Word]

\* One segment leaves the queue; its FIN moves the state.
PurgeSegment(e) ==
    LET item == Head(rtq[e].RTQueue) IN
    /\ handler[e].pc = "purge"
    /\ rtq[e].RTQueue # <<>>
    /\ Acknowledged(e, item)
    /\ ~(item.Flags = "FIN" /\ sock[e].ConnState = "LAST_ACK")
    /\ rtq' = [rtq EXCEPT ![e] = Dequeued(@)]
    /\ sock' = IF item.Flags = "FIN" /\ sock[e].ConnState = "FIN_WAIT_1"
               THEN [sock EXCEPT ![e].ConnState = "FIN_WAIT_2"]
               ELSE sock
    /\ UNCHANGED <<snd, WriteBuffer, rcv, handler, vwrite, rt, writer, reader,
                   closer, net, faults>>

\* In LAST_ACK the acknowledged FIN closes the socket, deletes it from the
\* table and returns; HandleConn's loop ends.
PurgeLastFin(e) ==
    LET item == Head(rtq[e].RTQueue) IN
    /\ handler[e].pc = "purge"
    /\ rtq[e].RTQueue # <<>>
    /\ Acknowledged(e, item)
    /\ item.Flags = "FIN"
    /\ sock[e].ConnState = "LAST_ACK"
    /\ sock' = [sock EXCEPT ![e] = [ConnState |-> "CLOSED", IsClosed |-> TRUE,
                                    InTable |-> FALSE]]
    /\ handler' = [handler EXCEPT ![e] = [pc |-> "done", packet |-> NoPacket]]
    /\ UNCHANGED <<snd, WriteBuffer, rtq, rcv, vwrite, rt, writer, reader,
                   closer, net, faults>>

\* The rest is not acknowledged, or the queue is empty and the timer is Reset
\* to fire at once, with the same doubt.
FinishPurge(e) ==
    /\ handler[e].pc = "purge"
    /\ rtq[e].RTQueue # <<>> => ~Acknowledged(e, Head(rtq[e].RTQueue))
    /\ \E live \in BOOLEAN :
         /\ live => rtq[e].OngoingRTTimer /\ rtq[e].RTQueue = <<>>
         /\ rtq' = [rtq EXCEPT ![e].RTTimer = @ \/ live]
    /\ handler' = [handler EXCEPT ![e].pc = "window"]
    /\ UNCHANGED <<sock, snd, WriteBuffer, rcv, vwrite, rt, writer, reader,
                   closer, net, faults>>

------------------------------------------------------------------------------
(* The send window *)

\* Mutant: a packet without data never updates the window.
NewerSeqOnly(e, packet) ==
    snd[e].LastSegmentSequenceNumber < Relative(e, packet)

\* SND.WL1 < SEG.SEQ, or SND.WL1 = SEG.SEQ and SND.WL2 <= SEG.ACK.
Newer(e, packet) ==
    \/ snd[e].LastSegmentSequenceNumber < Relative(e, packet)
    \/ /\ snd[e].LastSegmentSequenceNumber = Relative(e, packet)
       /\ snd[e].LastSegmentAckNumber <= packet.AckNum

UpdateWindow(e) ==
    LET packet == handler[e].packet
        update == /\ snd[e].LargestAck <= packet.AckNum
                  /\ packet.AckNum <= NextSequenceNumber(e)
                  /\ Newer(e, packet)
    IN
    /\ handler[e].pc = "window"
    /\ snd' = IF update
              THEN [snd EXCEPT
                     ![e].RemoteWindowSize = packet.WindowSize,
                     ![e].LastSegmentSequenceNumber = Relative(e, packet),
                     ![e].LastSegmentAckNumber = packet.AckNum]
              ELSE snd
    /\ handler' = [handler EXCEPT ![e].pc = IF update THEN "probe" ELSE "text"]
    /\ UNCHANGED <<sock, WriteBuffer, rtq, rcv, vwrite, rt, writer, reader,
                   closer, net, faults>>

\* In ZWPMode: is there room again, and is the probe acknowledged?  Then the
\* send on ZWPStop, TcpSend's StopProbing, holds HandleTCPPacket at "stop".
\* BytesInFlight - 1 is a uint16 expression.
CheckProbe(e) ==
    LET stop == /\ (rtq[e].BytesInFlight - 1) % Word < snd[e].RemoteWindowSize
                /\ snd[e].ZWPSeq < snd[e].LargestAck
    IN
    /\ handler[e].pc = "probe"
    /\ handler' = [handler EXCEPT ![e].pc =
         IF snd[e].ZWPMode /\ stop THEN "stop" ELSE "text"]
    /\ UNCHANGED <<sock, snd, WriteBuffer, rtq, rcv, vwrite, rt, writer,
                   reader, closer, net, faults>>

------------------------------------------------------------------------------
(* The segment text *)

Idle == [pc |-> "idle", packet |-> NoPacket]

\* Mutant: the bytes written are not counted.
WriteSegmentUncounted(e, data) ==
    [rcv[e] EXCEPT
       !.ReadBuffer = @ \o First(data, Smaller(Len(data), ReadBufferFree(e)))]

\* WriteSegment, under ReadLock.  The ring buffer takes what fits; if that is
\* not all, it returns ErrTooManyDataToWrite or ErrIsFull with what it took
\* kept, and WriteSegment returns with NextExpectedByte unchanged.
WriteSegment(e, data) ==
    [rcv[e] EXCEPT
       !.ReadBuffer = @ \o First(data, Smaller(Len(data), ReadBufferFree(e))),
       !.NextExpectedByte = IF Len(data) <= ReadBufferFree(e)
                            THEN (@ + Len(data)) % SeqSpace ELSE @]

IgnoreEmptyText(e) ==
    /\ handler[e].pc = "text"
    /\ handler[e].packet.Data = <<>>
    /\ handler' = [handler EXCEPT ![e] = Idle]
    /\ UNCHANGED <<sock, snd, WriteBuffer, rtq, rcv, vwrite, rt, writer,
                   reader, closer, net, faults>>

\* The next expected segment, if it fits; otherwise it is only acknowledged.
ReceiveNextText(e) ==
    LET data == handler[e].packet.Data
        fits == Len(data) <= ReadBufferFree(e)
    IN
    /\ handler[e].pc = "text"
    /\ data # <<>>
    /\ InOrder(e, handler[e].packet)
    /\ ReadLockFree(e)
    /\ rcv' = IF fits THEN [rcv EXCEPT ![e] = WriteSegment(e, data)] ELSE rcv
    /\ reader' = IF fits THEN WokenReader(e) ELSE reader
    /\ handler' = [handler EXCEPT ![e].pc = IF fits THEN "early" ELSE "ack"]
    /\ UNCHANGED <<sock, snd, WriteBuffer, rtq, vwrite, rt, writer, closer,
                   net, faults>>

\* A later segment joins the early arrivals, an older one does not; either is
\* acknowledged.
ReceiveOtherText(e) ==
    LET packet == handler[e].packet IN
    /\ handler[e].pc = "text"
    /\ packet.Data # <<>>
    /\ ~InOrder(e, packet)
    /\ Early(e, packet) => Len(rcv[e].EarlyArrivalQueue) < MaxEarly
    /\ rcv' = IF Early(e, packet)
              THEN [rcv EXCEPT ![e].EarlyArrivalQueue = Append(@, packet)]
              ELSE rcv
    /\ handler' = [handler EXCEPT ![e].pc = "ack"]
    /\ UNCHANGED <<sock, snd, WriteBuffer, rtq, vwrite, rt, writer, reader,
                   closer, net, faults>>

\* What a FIN of the peer does to the state, and the broadcast that wakes a
\* VRead in ESTABLISHED.
StateAfterFin(e) ==
    CASE sock[e].ConnState = "ESTABLISHED" -> "CLOSE_WAIT"
      [] sock[e].ConnState = "FIN_WAIT_1" -> "CLOSING"
      [] sock[e].ConnState = "FIN_WAIT_2" -> "TIME_WAIT"
      [] OTHER -> sock[e].ConnState
ReaderAfterFin(e) ==
    IF sock[e].ConnState = "ESTABLISHED" THEN WokenReader(e) ELSE reader

\* Place i of the early arrivals holds the heap's minimum, one of them if
\* several are equal.
Earliest(e, i) ==
    LET queue == rcv[e].EarlyArrivalQueue IN
    /\ i \in DOMAIN queue
    /\ \A j \in DOMAIN queue : Relative(e, queue[i]) <= Relative(e, queue[j])

\* One pass of the loop over the early arrivals: the earliest one is next, its
\* data or its FIN is taken and it leaves the queue, even if WriteSegment
\* could not write all of it.
TakeEarlyArrival(e) ==
    \E i \in DOMAIN rcv[e].EarlyArrivalQueue :
        LET item == rcv[e].EarlyArrivalQueue[i]
            isFin == item.Flags = "FIN"
        IN
        /\ handler[e].pc = "early"
        /\ Earliest(e, i)
        /\ InOrder(e, item)
        /\ ReadLockFree(e) \/ isFin
        /\ sock' = IF isFin THEN [sock EXCEPT ![e].ConnState = StateAfterFin(e)]
                            ELSE sock
        /\ reader' = CASE isFin -> ReaderAfterFin(e)
                       [] ~isFin /\ Len(item.Data) <= ReadBufferFree(e) -> WokenReader(e)
                       [] OTHER -> reader
        /\ rcv' = [rcv EXCEPT
             ![e] = [(IF isFin THEN @ ELSE WriteSegment(e, item.Data))
                     EXCEPT !.EarlyArrivalQueue =
                         RemoveAt(rcv[e].EarlyArrivalQueue, i)]]
        /\ UNCHANGED <<snd, WriteBuffer, rtq, handler, vwrite, rt, writer,
                       closer, net, faults>>

LeaveEarlyArrivals(e) ==
    /\ handler[e].pc = "early"
    /\ \A i \in DOMAIN rcv[e].EarlyArrivalQueue :
         Earliest(e, i) => ~InOrder(e, rcv[e].EarlyArrivalQueue[i])
    /\ handler' = [handler EXCEPT ![e].pc = "ack"]
    /\ UNCHANGED <<sock, snd, WriteBuffer, rtq, rcv, vwrite, rt, writer,
                   reader, closer, net, faults>>

\* Mutant: the ACK of text counts one more, as the ACK of a FIN does.
SendAckOfNext(e) ==
    /\ handler[e].pc = "ack"
    /\ ReadLockFree(e)
    /\ net' = Sent(e, Segment(e, "ACK", <<>>, 1))
    /\ handler' = [handler EXCEPT ![e] = Idle]
    /\ UNCHANGED <<sock, snd, WriteBuffer, rtq, rcv, vwrite, rt, writer,
                   reader, closer, faults>>

\* The ACK, built and sent under ReadLock.  An error of SendIP is printed and
\* is the same as a lost packet.
SendAck(e) ==
    /\ handler[e].pc = "ack"
    /\ ReadLockFree(e)
    /\ net' = Sent(e, Segment(e, "ACK", <<>>, 0))
    /\ handler' = [handler EXCEPT ![e] = Idle]
    /\ UNCHANGED <<sock, snd, WriteBuffer, rtq, rcv, vwrite, rt, writer,
                   reader, closer, faults>>

------------------------------------------------------------------------------
(* A FIN *)

\* In order: acknowledged with NextExpectedByte + 1, which itself stays.
ReceiveNextFin(e, i) ==
    /\ handler[e].pc = "idle"
    /\ sock[e].InTable
    /\ Overtaken(e, i)
    /\ net[e][i].Flags = "FIN"
    /\ InOrder(e, net[e][i])
    /\ net' = [Sent(e, Segment(e, "ACK", <<>>, 1)) EXCEPT ![e] = RemoveAt(@, i)]
    /\ sock' = [sock EXCEPT ![e].ConnState = StateAfterFin(e)]
    /\ reader' = ReaderAfterFin(e)
    /\ UNCHANGED <<snd, WriteBuffer, rtq, rcv, handler, vwrite, rt, writer,
                   closer, faults>>

\* Too early it is queued, too late it is ignored, without an answer.
ReceiveOtherFin(e, i) ==
    /\ handler[e].pc = "idle"
    /\ sock[e].InTable
    /\ Overtaken(e, i)
    /\ net[e][i].Flags = "FIN"
    /\ ~InOrder(e, net[e][i])
    /\ Early(e, net[e][i]) => Len(rcv[e].EarlyArrivalQueue) < MaxEarly
    /\ net' = [net EXCEPT ![e] = RemoveAt(@, i)]
    /\ rcv' = IF Early(e, net[e][i])
              THEN [rcv EXCEPT ![e].EarlyArrivalQueue = Append(@, net[e][i])]
              ELSE rcv
    /\ UNCHANGED <<sock, snd, WriteBuffer, rtq, handler, vwrite, rt, writer,
                   reader, closer, faults>>

------------------------------------------------------------------------------
(* VRead *)

\* The checks at the head of VRead, made without a lock.
CallVRead(e) ==
    /\ reader[e].pc = "idle"
    /\ e \in Reads
    /\ reader' = [reader EXCEPT ![e].pc =
         IF Usable(e) THEN "lock" ELSE "failed"]
    /\ UNCHANGED <<sock, snd, WriteBuffer, rtq, rcv, handler, vwrite, rt,
                   writer, closer, net, faults>>

\* ReadLock taken, the buffer holds data: as much as the application's buffer
\* takes is returned, and the application calls again.
ReturnData(e) ==
    /\ reader[e].pc = "lock"
    /\ \E n \in 1 .. Len(rcv[e].ReadBuffer) :
         /\ reader' = [reader EXCEPT
              ![e] = [pc |-> "idle",
                      delivered |-> @.delivered \o First(rcv[e].ReadBuffer, n)]]
         /\ rcv' = [rcv EXCEPT ![e].ReadBuffer = After(@, n)]
    /\ UNCHANGED <<sock, snd, WriteBuffer, rtq, handler, vwrite, rt, writer,
                   closer, net, faults>>

\* ReadLock taken, the buffer is empty: an error unless ESTABLISHED.  "sleep"
\* still holds ReadLock: the state has been read, the Wait has not begun.
FindNothingToRead(e) ==
    /\ reader[e].pc = "lock"
    /\ rcv[e].ReadBuffer = <<>>
    /\ reader' = [reader EXCEPT ![e].pc =
         IF sock[e].ConnState = "ESTABLISHED" THEN "sleep" ELSE "failed"]
    /\ UNCHANGED <<sock, snd, WriteBuffer, rtq, rcv, handler, vwrite, rt,
                   writer, closer, net, faults>>

SleepVRead(e) ==
    /\ reader[e].pc = "sleep"
    /\ reader' = [reader EXCEPT ![e].pc = "waiting"]
    /\ UNCHANGED <<sock, snd, WriteBuffer, rtq, rcv, handler, vwrite, rt,
                   writer, closer, net, faults>>

------------------------------------------------------------------------------
HandleTCPPacket(e) ==
    \/ \E i \in 1 .. MaxReorder + 1 :
         \/ ReceiveNewAck(e, i) \/ ReceiveOtherAck(e, i)
         \/ ReceiveNextFin(e, i) \/ ReceiveOtherFin(e, i)
    \/ CompareAckAgain(e)
    \/ PurgeSegment(e) \/ PurgeLastFin(e) \/ FinishPurge(e)
    \/ UpdateWindow(e) \/ CheckProbe(e)
    \/ IgnoreEmptyText(e) \/ ReceiveNextText(e) \/ ReceiveOtherText(e)
    \/ TakeEarlyArrival(e) \/ LeaveEarlyArrivals(e) \/ SendAck(e)

VRead(e) ==
    \/ CallVRead(e) \/ ReturnData(e) \/ FindNothingToRead(e) \/ SleepVRead(e)
==============================================================================
