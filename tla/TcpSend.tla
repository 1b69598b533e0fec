------------------------------- MODULE TcpSend -------------------------------
(***************************************************************************)
(* The sending half of a socket: the API call VWrite (api.go), and the     *)
(* goroutines HandleVWrite, with zero window probing and SendFinPacket, and*)
(* HandleRT (socket.go).                                                   *)
(*                                                                         *)
(* One action is what a goroutine does between two points where another    *)
(* goroutine can see or change what it works on: taking or giving up a     *)
(* lock, sending a packet, waiting.  An action that reads a shared field   *)
(* outside any lock is a step of its own.                                  *)
(***************************************************************************)
EXTENDS TcpSocket

------------------------------------------------------------------------------
(* VWrite *)

\* How much of its stream the application has passed when the call under way
\* (or the next one, between calls) returns.
EndOfCall(e) ==
    Smaller(ToWrite[e], writer[e].written - (writer[e].written % WriteSize) + WriteSize)

\* The checks at the head of VWrite, made before WriteLock is taken.
CallVWrite(e) ==
    /\ writer[e].pc = "idle"
    /\ writer[e].written < ToWrite[e]
    /\ writer' = [writer EXCEPT ![e].pc = IF Usable(e) THEN "lock" ELSE "done"]
    /\ UNCHANGED <<sock, snd, WriteBuffer, rtq, rcv, handler, vwrite, rt,
                   reader, closer, net, faults>>

\* With WriteLock: one pass of the loop writes what fits and wakes
\* HandleVWrite; what is left fills the buffer and waits for WriteNotFull.
VWrite(e) ==
    LET left == EndOfCall(e) - writer[e].written
        size == Smaller(left, WriteBufferFree(e))
    IN
    /\ writer[e].pc = "lock"
    /\ WriteLockFree(e)
    /\ WriteBuffer' = [WriteBuffer EXCEPT ![e] =
         @ \o [i \in 1 .. size |-> writer[e].written + i]]
    /\ writer' = [writer EXCEPT
         ![e] = [pc |-> CASE size < left -> "waiting"
                          [] writer[e].written + size = ToWrite[e] -> "done"
                          [] OTHER -> "idle",
                 written |-> writer[e].written + size]]
    /\ vwrite' = IF size > 0 THEN WokenVWrite(e) ELSE vwrite
    /\ UNCHANGED <<sock, snd, rtq, rcv, handler, rt, reader, closer, net, faults>>

------------------------------------------------------------------------------
(* HandleVWrite: choosing what to send *)

\* WriteLock taken, the buffer is empty.  "sleep" still holds WriteLock: the
\* state has been read and the Wait has not begun.
FindNothingToWrite(e) ==
    /\ vwrite[e].pc = "lock"
    /\ WriteBuffer[e] = <<>>
    /\ vwrite' = [vwrite EXCEPT ![e].pc =
         IF sock[e].ConnState = "ESTABLISHED" THEN "sleep" ELSE "fin"]
    /\ UNCHANGED <<sock, snd, WriteBuffer, rtq, rcv, handler, rt, writer,
                   reader, closer, net, faults>>

\* WriteNotEmpty.Wait: registers the thread and releases WriteLock.
SleepHandleVWrite(e) ==
    /\ vwrite[e].pc = "sleep"
    /\ vwrite' = [vwrite EXCEPT ![e].pc = "waiting"]
    /\ UNCHANGED <<sock, snd, WriteBuffer, rtq, rcv, handler, rt, writer,
                   reader, closer, net, faults>>

\* WriteLock taken, the buffer holds data: amountCanSend, under RTQueueLock.
FindDataToWrite(e) ==
    /\ vwrite[e].pc = "lock"
    /\ WriteBuffer[e] # <<>>
    /\ RTQueueLockFree(e)
    /\ vwrite' = [vwrite EXCEPT ![e].pc =
         IF snd[e].RemoteWindowSize - rtq[e].BytesInFlight > 0
         THEN "size" ELSE "zwp"]
    /\ UNCHANGED <<sock, snd, WriteBuffer, rtq, rcv, handler, rt, writer,
                   reader, closer, net, faults>>

\* sizeToWrite reads RemoteWindowSize again, without a lock, and not the
\* amountCanSend just computed.  Zero is reported and tried again.
TakePayload(e) ==
    LET sizeToWrite == Smaller(snd[e].RemoteWindowSize, Len(WriteBuffer[e]))
    IN
    /\ vwrite[e].pc = "size"
    /\ vwrite' = [vwrite EXCEPT
         ![e].pc = IF sizeToWrite = 0 THEN "lock" ELSE "segment",
         ![e].payload = First(WriteBuffer[e], sizeToWrite)]
    /\ WriteBuffer' = [WriteBuffer EXCEPT ![e] = After(@, sizeToWrite)]
    /\ writer' = IF sizeToWrite = 0 THEN writer ELSE WokenWriter(e)
    /\ UNCHANGED <<sock, snd, rtq, rcv, handler, rt, reader, closer, net, faults>>

------------------------------------------------------------------------------
(* HandleVWrite: sending the payload in segments *)

SegmentSize(e) == Smaller(MaxSegmentSize, Len(vwrite[e].payload))

\* The retransmission queue q with a segment added: the timer is started if
\* none is marked as running.
Enqueued(q, segment) ==
    [RTQueue |-> Append(q.RTQueue, segment),
     BytesInFlight |-> (q.BytesInFlight + Len(segment.Data)) % Word,
     OngoingRTTimer |-> TRUE,
     RTTimer |-> ~q.OngoingRTTimer \/ q.RTTimer]

\* SendIP, then under RTQueueLock: the segment is queued, HandleRT is woken.
SendSegment(e) ==
    LET segment == Segment(e, "ACK", First(vwrite[e].payload, SegmentSize(e)), 0)
    IN
    /\ vwrite[e].pc = "segment"
    /\ RTQueueLockFree(e)
    /\ net' = Sent(e, segment)
    /\ rtq' = [rtq EXCEPT ![e] = Enqueued(@, segment)]
    /\ rt' = WokenRT(e)
    /\ vwrite' = [vwrite EXCEPT ![e].pc = "advance"]
    /\ UNCHANGED <<sock, snd, WriteBuffer, rcv, handler, writer, reader,
                   closer, faults>>

\* SendIP returned an error: the break leaves the loop, and the payload with
\* it; the bytes have left WriteBuffer.
FailSegment(e) ==
    /\ vwrite[e].pc = "segment"
    /\ faults.sendErr < MaxSendErr
    /\ faults' = [faults EXCEPT !.sendErr = @ + 1]
    /\ vwrite' = [vwrite EXCEPT ![e].pc = "lock", ![e].payload = <<>>]
    /\ UNCHANGED <<sock, snd, WriteBuffer, rtq, rcv, handler, rt, writer,
                   reader, closer, net>>

\* NumberBytesSent and NextSequenceNumber move only now, after the segment
\* is in the network.
AdvanceSequence(e) ==
    LET rest == After(vwrite[e].payload, SegmentSize(e)) IN
    /\ vwrite[e].pc = "advance"
    /\ snd' = [snd EXCEPT ![e].NumberBytesSent = (@ + SegmentSize(e)) % SeqSpace]
    /\ vwrite' = [vwrite EXCEPT
         ![e].pc = IF rest = <<>> THEN "lock" ELSE "segment",
         ![e].payload = rest]
    /\ UNCHANGED <<sock, WriteBuffer, rtq, rcv, handler, rt, writer, reader,
                   closer, net, faults>>

------------------------------------------------------------------------------
(* HandleVWrite: zero window probing *)

\* Mutant: the byte of the probe stays in WriteBuffer.
EnterZWPKeepingByte(e) ==
    /\ vwrite[e].pc = "zwp"
    /\ snd' = [snd EXCEPT ![e].ZWPMode = TRUE]
    /\ vwrite' = [vwrite EXCEPT ![e].pc = "zwpArm",
                                ![e].payload = First(WriteBuffer[e], 1)]
    /\ UNCHANGED <<sock, WriteBuffer, rtq, rcv, handler, rt, writer, reader,
                   closer, net, faults>>

\* ZWPMode is set and one byte taken, before ZWPSeq says which byte it is.
EnterZWP(e) ==
    /\ vwrite[e].pc = "zwp"
    /\ snd' = [snd EXCEPT ![e].ZWPMode = TRUE]
    /\ vwrite' = [vwrite EXCEPT ![e].pc = "zwpArm",
                                ![e].payload = First(WriteBuffer[e], 1)]
    /\ WriteBuffer' = [WriteBuffer EXCEPT ![e] = After(@, 1)]
    /\ writer' = WokenWriter(e)
    /\ UNCHANGED <<sock, rtq, rcv, handler, rt, reader, closer, net, faults>>

\* The probe is built, numbered, counted in flight and sent a first time.  It
\* does not enter RTQueue.
ArmZWP(e) ==
    LET probe == Segment(e, "ACK", vwrite[e].payload, 0) IN
    /\ vwrite[e].pc = "zwpArm"
    /\ RTQueueLockFree(e)
    /\ snd' = [snd EXCEPT ![e].NumberBytesSent = (@ + 1) % SeqSpace,
                          ![e].ZWPSeq = probe.SeqNum]
    /\ rtq' = [rtq EXCEPT ![e].BytesInFlight = (@ + 1) % Word]
    /\ net' = Sent(e, probe)
    /\ vwrite' = [vwrite EXCEPT ![e].pc = "probing", ![e].packet = probe,
                                ![e].payload = <<>>]
    /\ UNCHANGED <<sock, WriteBuffer, rcv, handler, rt, writer, reader,
                   closer, faults>>

\* The default branch of the select, taken while nobody sends on ZWPStop: the
\* same bytes are sent again.
SendProbe(e) ==
    /\ vwrite[e].pc = "probing"
    /\ handler[e].pc # "stop"
    /\ MayResend
    /\ CountResend
    /\ net' = Sent(e, vwrite[e].packet)
    /\ UNCHANGED <<sock, snd, WriteBuffer, rtq, rcv, handler, vwrite, rt,
                   writer, reader, closer>>

\* The rendezvous on ZWPStop: HandleTCPPacket's send and the select's receive.
StopProbing(e) ==
    /\ vwrite[e].pc = "probing"
    /\ handler[e].pc = "stop"
    /\ vwrite' = [vwrite EXCEPT ![e].pc = "zwpExit", ![e].packet = NoPacket]
    /\ handler' = [handler EXCEPT ![e].pc = "text"]
    /\ UNCHANGED <<sock, snd, WriteBuffer, rtq, rcv, rt, writer, reader,
                   closer, net, faults>>

\* Mutant: the byte of the probe stays in BytesInFlight.
LeaveZWPUncounted(e) ==
    /\ vwrite[e].pc = "zwpExit"
    /\ snd' = [snd EXCEPT ![e].ZWPMode = FALSE]
    /\ vwrite' = [vwrite EXCEPT ![e].pc = "lock"]
    /\ UNCHANGED <<sock, WriteBuffer, rtq, rcv, handler, rt, writer, reader,
                   closer, net, faults>>

LeaveZWP(e) ==
    /\ vwrite[e].pc = "zwpExit"
    /\ RTQueueLockFree(e)
    /\ snd' = [snd EXCEPT ![e].ZWPMode = FALSE]
    /\ rtq' = [rtq EXCEPT ![e].BytesInFlight = (@ - 1) % Word]
    /\ vwrite' = [vwrite EXCEPT ![e].pc = "lock"]
    /\ UNCHANGED <<sock, WriteBuffer, rcv, handler, rt, writer, reader,
                   closer, net, faults>>

------------------------------------------------------------------------------
(* SendFinPacket, and the end of HandleVWrite *)

SendFin(e) ==
    LET fin == Segment(e, "FIN", <<>>, 0) IN
    /\ vwrite[e].pc = "fin"
    /\ net' = Sent(e, fin)
    /\ vwrite' = [vwrite EXCEPT ![e].pc = "finSeq", ![e].packet = fin]
    /\ UNCHANGED <<sock, snd, WriteBuffer, rtq, rcv, handler, rt, writer,
                   reader, closer, faults>>

\* SendIP returned an error: it is printed and the goroutine ends.
FailFin(e) ==
    /\ vwrite[e].pc = "fin"
    /\ faults.sendErr < MaxSendErr
    /\ faults' = [faults EXCEPT !.sendErr = @ + 1]
    /\ vwrite' = [vwrite EXCEPT ![e].pc = "done"]
    /\ UNCHANGED <<sock, snd, WriteBuffer, rtq, rcv, handler, rt, writer,
                   reader, closer, net>>

\* Mutant: the FIN takes no sequence number.
CountFinNot(e) ==
    /\ vwrite[e].pc = "finSeq"
    /\ vwrite' = [vwrite EXCEPT ![e].pc = "finQueue"]
    /\ UNCHANGED <<sock, snd, WriteBuffer, rtq, rcv, handler, rt, writer,
                   reader, closer, net, faults>>

CountFin(e) ==
    /\ vwrite[e].pc = "finSeq"
    /\ snd' = [snd EXCEPT ![e].NumberBytesSent = (@ + 1) % SeqSpace]
    /\ vwrite' = [vwrite EXCEPT ![e].pc = "finQueue"]
    /\ UNCHANGED <<sock, WriteBuffer, rtq, rcv, handler, rt, writer, reader,
                   closer, net, faults>>

\* The FIN is queued; neither is the timer started nor HandleRT woken.
QueueFin(e) ==
    /\ vwrite[e].pc = "finQueue"
    /\ RTQueueLockFree(e)
    /\ rtq' = [rtq EXCEPT ![e].RTQueue = Append(@, vwrite[e].packet)]
    /\ vwrite' = [vwrite EXCEPT ![e].pc = "done", ![e].packet = NoPacket]
    /\ UNCHANGED <<sock, snd, WriteBuffer, rcv, handler, rt, writer, reader,
                   closer, net, faults>>

------------------------------------------------------------------------------
(* HandleRT *)

\* The head of the loop: the end of the goroutine, the Wait on an empty queue
\* (under RTQueueLock, so no broadcast comes between), or the timer.
CheckRTQueue(e) ==
    /\ rt[e] = "top"
    /\ sock[e].IsClosed \/ RTQueueLockFree(e)
    /\ rt' = [rt EXCEPT ![e] =
         CASE sock[e].IsClosed -> "done"
           [] ~sock[e].IsClosed /\ rtq[e].RTQueue = <<>> -> "waiting"
           [] OTHER -> "timer"]
    /\ rtq' = [rtq EXCEPT ![e].OngoingRTTimer = @ /\ rt'[e] # "waiting"]
    /\ UNCHANGED <<sock, snd, WriteBuffer, rcv, handler, vwrite, writer,
                   reader, closer, net, faults>>

\* <-RTTimer.C: RTTimer says that the timer now in the structure has not
\* delivered its tick.  How long it runs is left open: the RTO lies between
\* 10 microseconds and 1 millisecond, below and above a round trip.
ExpireRTTimer(e) ==
    /\ rt[e] = "timer"
    /\ rtq[e].RTTimer
    /\ MayResend
    /\ CountResend
    /\ rtq' = [rtq EXCEPT ![e].RTTimer = FALSE]
    /\ rt' = [rt EXCEPT ![e] = "resend"]
    /\ UNCHANGED <<sock, snd, WriteBuffer, rcv, handler, vwrite, writer,
                   reader, closer, net>>

\* The head of the queue is sent again with a new timer.  If the queue has
\* been emptied meanwhile, nothing is done: OngoingRTTimer keeps its value.
Retransmit(e) ==
    /\ rt[e] = "resend"
    /\ RTQueueLockFree(e)
    /\ IF rtq[e].RTQueue # <<>>
       THEN /\ net' = Sent(e, Head(rtq[e].RTQueue))
            /\ rtq' = [rtq EXCEPT ![e].RTTimer = TRUE,
                                  ![e].OngoingRTTimer = TRUE]
       ELSE UNCHANGED <<net, rtq>>
    /\ rt' = [rt EXCEPT ![e] = "top"]
    /\ UNCHANGED <<sock, snd, WriteBuffer, rcv, handler, vwrite, writer,
                   reader, closer, faults>>

------------------------------------------------------------------------------
HandleVWrite(e) ==
    \/ FindNothingToWrite(e) \/ SleepHandleVWrite(e)
    \/ FindDataToWrite(e) \/ TakePayload(e)
    \/ SendSegment(e) \/ FailSegment(e) \/ AdvanceSequence(e)
    \/ EnterZWP(e) \/ ArmZWP(e) \/ SendProbe(e) \/ StopProbing(e) \/ LeaveZWP(e)
    \/ SendFin(e) \/ FailFin(e) \/ CountFin(e) \/ QueueFin(e)

HandleRT(e) == CheckRTQueue(e) \/ ExpireRTTimer(e) \/ Retransmit(e)
==============================================================================
