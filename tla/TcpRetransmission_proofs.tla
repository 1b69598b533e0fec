----------------------- MODULE TcpRetransmission_proofs ----------------------
(***************************************************************************)
(* What a sender knows of its peer, and keeps until it knows: RTQueue is   *)
(* in sequence and unacknowledged, the send window follows the peer's      *)
(* acknowledgements, and no byte is lost between VWrite and the peer.      *)
(*                                                                         *)
(* The code compares absolute sequence numbers, so that all of this is     *)
(* about connections that end before the sequence space does.              *)
(***************************************************************************)
EXTENDS TcpStream_proofs, WellFoundedInduction

------------------------------------------------------------------------------
(* What waits for its acknowledgement *)

\* The connection ends before the sequence space does: no number wraps.  The
\* code compares sequence numbers as plain integers (socket.go:50, 66), so that
\* an order among them exists only then.
NumbersFit == \A e \in Ends : InitSeqNum[e] + ToWrite[e] + 2 < SeqSpace

\* The first sequence number that nothing in RTQueue has used; a FIN is counted
\* before it is queued.
Frontier(e) ==
    InitSeqNum[e] + 1 + snd[e].NumberBytesSent + Uncounted(e)
    - (IF vwrite[e].pc = "finQueue" THEN 1 ELSE 0)

\* RTQueue is in sequence and has not more than was sent.
QueueInSequence ==
    \A e \in Ends :
        LET queue == rtq[e].RTQueue IN
        /\ \A i, j \in DOMAIN queue : i < j => SegmentEnd(queue[i]) <= queue[j].SeqNum
        /\ \A i \in DOMAIN queue : SegmentEnd(queue[i]) <= Frontier(e)

\* A FIN is the last that is queued, and HandleVWrite works on one while it
\* sends it.
FinQueuedLast ==
    \A e \in Ends :
        LET queue == rtq[e].RTQueue IN
        /\ \A i \in DOMAIN queue :
             queue[i].Flags = "FIN" => vwrite[e].pc = "done" /\ i = Len(queue)
        /\ vwrite[e].pc \in {"finSeq", "finQueue"} =>
             vwrite[e].packet.Flags = "FIN" /\ vwrite[e].packet.SeqNum = Frontier(e)

\* No segment is empty.
PayloadLeft ==
    \A e \in Ends : vwrite[e].pc \in {"segment", "advance"} => vwrite[e].payload # <<>>

\* Nothing is acknowledged that was not numbered, and outside the purge no data
\* in RTQueue is.
DataUnacknowledged ==
    \A e \in Ends :
        LET queue == rtq[e].RTQueue IN
        /\ snd[e].LargestAck <= InitSeqNum[e] + 1 + snd[e].NumberBytesSent
        /\ handler[e].pc # "purge" =>
             \A i \in DOMAIN queue :
                queue[i].Flags # "FIN" => snd[e].LargestAck < SegmentEnd(queue[i])

QueueInv == QueueInSequence /\ FinQueuedLast /\ PayloadLeft /\ DataUnacknowledged

LEMMA FitIsShort == NumbersFit => ShortStreams
<1> SUFFICES ASSUME NumbersFit, NEW e \in Ends PROVE ToWrite[e] + 1 < SeqSpace
  BY DEF ShortStreams
<1>1. /\ InitSeqNum[e] \in Nat /\ ToWrite[e] \in Nat /\ SeqSpace \in Nat
      /\ InitSeqNum[e] + ToWrite[e] + 2 < SeqSpace
  BY SizeAssumption, WorkloadAssumption DEF NumbersFit
<1> QED BY <1>1

\* Then SND.NXT is a plain sum.
LEMMA NextNumberIs ==
    ASSUME NumbersFit, IInv, NumbersWritten, NEW e \in Ends
    PROVE  /\ InitSeqNum[e] \in Nat /\ snd[e].NumberBytesSent \in Nat
           /\ NextSequenceNumber(e) = InitSeqNum[e] + 1 + snd[e].NumberBytesSent
           /\ InitSeqNum[e] + 1 + snd[e].NumberBytesSent < SeqSpace
<1> DEFINE number == snd[e].NumberBytesSent
<1>1. /\ number \in Nat /\ Unsent(e) \in Nat /\ Buffered(e) \in Nat
      /\ writer[e].written \in Nat
  BY InHandType DEF IInv
<1>2. /\ InitSeqNum[e] \in Nat /\ ToWrite[e] \in Nat /\ SeqSpace \in Nat \ {0}
      /\ InitSeqNum[e] + ToWrite[e] + 2 < SeqSpace
      /\ writer[e].written <= ToWrite[e]
  BY SizeAssumption, WorkloadAssumption DEF NumbersFit, IInv, WrittenInRange
<1>3. number + Unsent(e) + Buffered(e) <= writer[e].written + 1
  BY <1>1 DEF NumbersWritten, InHand, Handed
<1>4. InitSeqNum[e] + 1 + number \in 0 .. SeqSpace - 1
  BY <1>1, <1>2, <1>3
<1>5. (InitSeqNum[e] + 1 + number) % SeqSpace = InitSeqNum[e] + 1 + number
  BY <1>2, <1>4, ModSame
<1> QED BY <1>1, <1>2, <1>4, <1>5 DEF NextSequenceNumber

\* RTQueue grows by a segment or by the FIN, and shrinks by its head.
LEMMA QueueStep ==
    ASSUME TypeOK, Next, NEW e \in Ends
    PROVE  LET queue == rtq[e].RTQueue IN
           \/ queue' = queue
           \/ /\ SendSegment(e)
              /\ queue' = Append(queue, Segment(e, "ACK", First(vwrite[e].payload, SegmentSize(e)), 0))
           \/ QueueFin(e) /\ queue' = Append(queue, vwrite[e].packet)
           \/ PurgeSegment(e) /\ queue' = Tail(queue)
<1> DEFINE queue == rtq[e].RTQueue
           goal == \/ queue' = queue
                   \/ /\ SendSegment(e)
                      /\ queue' = Append(queue, Segment(e, "ACK", First(vwrite[e].payload, SegmentSize(e)), 0))
                   \/ QueueFin(e) /\ queue' = Append(queue, vwrite[e].packet)
                   \/ PurgeSegment(e) /\ queue' = Tail(queue)
<1> SUFFICES goal
  OBVIOUS
<1>1. rtq \in [Ends -> RTQueueType]
  BY DEF TypeOK
<1>2. PICK a \in Ends :
        \/ HandleVWrite(a) \/ HandleRT(a) \/ HandleTCPPacket(a)
        \/ Application(a) \/ TimeWait(a) \/ Discard(a) \/ Lose(a)
  BY DEF Next
<1>3. CASE a # e
  BY <1>2, <1>3, OtherEndHolds
<1>4. CASE HandleVWrite(e)
  <2>1. CASE SendSegment(e)
    BY <1>1, <2>1 DEF SendSegment, Enqueued, RTQueueType
  <2>2. CASE QueueFin(e)
    BY <1>1, <2>2 DEF QueueFin, RTQueueType
  <2>3. CASE ArmZWP(e)
    BY <1>1, <2>3 DEF ArmZWP, RTQueueType
  <2>4. CASE LeaveZWP(e)
    BY <1>1, <2>4 DEF LeaveZWP, RTQueueType
  <2>5. CASE rtq' = rtq
    BY <2>5
  <2> HIDE DEF goal
  <2> QED
    BY <1>4, <2>1, <2>2, <2>3, <2>4, <2>5
    DEF HandleVWrite, FindNothingToWrite, SleepHandleVWrite, FindDataToWrite,
        TakePayload, FailSegment, AdvanceSequence, EnterZWP, SendProbe,
        StopProbing, SendFin, FailFin, CountFin
<1>5. CASE HandleRT(e)
  BY <1>1, <1>5 DEF HandleRT, CheckRTQueue, ExpireRTTimer, Retransmit, RTQueueType
<1>6. CASE HandleTCPPacket(e)
  <2>1. CASE \E i \in 1 .. MaxReorder + 1 : ReceiveNewAck(e, i)
    BY <1>1, <2>1 DEF ReceiveNewAck, RTQueueType
  <2>2. CASE PurgeSegment(e)
    BY <1>1, <2>2 DEF PurgeSegment, Dequeued, RTQueueType
  <2>3. CASE FinishPurge(e)
    BY <1>1, <2>3 DEF FinishPurge, RTQueueType
  <2>4. CASE rtq' = rtq
    BY <2>4
  <2> HIDE DEF goal
  <2> QED
    BY <1>6, <2>1, <2>2, <2>3, <2>4
    DEF HandleTCPPacket, ReceiveOtherAck, ReceiveNextFin, ReceiveOtherFin,
        CompareAckAgain, PurgeLastFin, UpdateWindow, CheckProbe, IgnoreEmptyText,
        ReceiveNextText, ReceiveOtherText, TakeEarlyArrival, LeaveEarlyArrivals,
        SendAck
<1>7. CASE Application(e) \/ TimeWait(e) \/ Discard(e) \/ Lose(e)
  BY <1>7, CallVWriteFrame, VReadFrame, VCloseFrame, NetworkFrame DEF Application
<1> QED BY <1>2, <1>3, <1>4, <1>5, <1>6, <1>7

\* Numbers are used up, by a segment when it is queued, by the FIN likewise.
LEMMA FrontierGrows ==
    ASSUME IInv, NumbersFit, NumbersWritten, Next, NEW e \in Ends
    PROVE  /\ Frontier(e) \in Int /\ Frontier(e)' \in Int /\ Frontier(e) <= Frontier(e)'
           /\ SendSegment(e) =>
                /\ Frontier(e) = NextSequenceNumber(e)
                /\ Frontier(e)' = Frontier(e) + SegmentSize(e)
           /\ QueueFin(e) => Frontier(e)' = Frontier(e) + 1
           /\ ArmZWP(e) => Frontier(e)' = Frontier(e) + 1
           /\ SendFin(e) => Frontier(e)' = NextSequenceNumber(e)
           /\ CountFin(e) => Frontier(e)' = Frontier(e)
           /\ snd[e].NumberBytesSent <= snd'[e].NumberBytesSent
<1> DEFINE number == snd[e].NumberBytesSent
           fin == IF vwrite[e].pc = "finQueue" THEN 1 ELSE 0
           goal == /\ Frontier(e) <= Frontier(e)'
                   /\ SendSegment(e) =>
                        /\ Frontier(e) = NextSequenceNumber(e)
                        /\ Frontier(e)' = Frontier(e) + SegmentSize(e)
                   /\ QueueFin(e) => Frontier(e)' = Frontier(e) + 1
                   /\ ArmZWP(e) => Frontier(e)' = Frontier(e) + 1
                   /\ SendFin(e) => Frontier(e)' = NextSequenceNumber(e)
                   /\ CountFin(e) => Frontier(e)' = Frontier(e)
                   /\ number <= number'
<1>0. ShortStreams
  BY FitIsShort
<1>1. /\ snd \in [Ends -> SenderType] /\ vwrite \in [Ends -> VWriteType]
      /\ number \in Nat /\ SegmentSize(e) \in Nat /\ Uncounted(e) \in Nat
      /\ InitSeqNum[e] \in Nat
      /\ NextSequenceNumber(e) = InitSeqNum[e] + 1 + number
  <2>1. number \in Nat /\ SegmentSize(e) \in Nat /\ Uncounted(e) \in Nat
    BY InHandType DEF IInv
  <2> QED BY <2>1, NextNumberIs DEF IInv, TypeOK
<1>2. number' \in Nat /\ Uncounted(e)' \in Nat
  <2>1. TypeOK'
    BY StepIInv DEF IInv
  <2>2. (number \in Nat)'
    BY <2>1, InHandType, PTL
  <2>3. (Uncounted(e) \in 0 .. Unsent(e))' /\ (Unsent(e) \in Nat)'
    BY <2>1, InHandType, PTL
  <2> QED BY <2>2, <2>3
<1>3. /\ Frontier(e) = InitSeqNum[e] + 1 + number + Uncounted(e) - fin
      /\ Frontier(e)' = InitSeqNum[e] + 1 + number' + Uncounted(e)' - fin'
      /\ fin \in {0, 1} /\ fin' \in {0, 1}
  BY DEF Frontier
<1>4. Frontier(e) \in Int /\ Frontier(e)' \in Int
  BY <1>1, <1>2, <1>3
<1> SUFFICES goal
  BY <1>4
<1>5. CASE SendSegment(e)
  <2>1. /\ vwrite[e].pc = "segment" /\ vwrite'[e].pc = "advance"
        /\ vwrite'[e].payload = vwrite[e].payload /\ snd' = snd
    BY <1>1, <1>5 DEF SendSegment, VWriteType
  <2>2. Uncounted(e) = 0 /\ Uncounted(e)' = SegmentSize(e) /\ fin = 0 /\ fin' = 0
    BY <2>1 DEF Uncounted, SegmentSize
  <2>3. ~ArmZWP(e) /\ ~QueueFin(e) /\ ~SendFin(e) /\ ~CountFin(e)
    BY <2>1 DEF ArmZWP, QueueFin, SendFin, CountFin
  <2> QED BY <1>1, <1>3, <2>1, <2>2, <2>3
<1>6. CASE ArmZWP(e)
  <2>1. vwrite[e].pc = "zwpArm" /\ vwrite'[e].pc = "probing"
    BY <1>1, <1>6 DEF ArmZWP, VWriteType
  <2>2. Uncounted(e) = 0 /\ Uncounted(e)' = 0 /\ fin = 0 /\ fin' = 0
    BY <2>1 DEF Uncounted
  <2>3. ~SendSegment(e) /\ ~QueueFin(e) /\ ~SendFin(e) /\ ~CountFin(e)
    BY <2>1 DEF SendSegment, QueueFin, SendFin, CountFin
  <2>4. number' = number + 1
    BY <1>0, <1>6, NumbersMove
  <2> QED BY <1>1, <1>3, <2>2, <2>3, <2>4
<1>7. CASE AdvanceSequence(e)
  <2>1. vwrite[e].pc = "advance" /\ vwrite'[e].pc \in {"lock", "segment"}
    BY <1>1, <1>7 DEF AdvanceSequence, VWriteType
  <2>2. Uncounted(e) = SegmentSize(e) /\ Uncounted(e)' = 0 /\ fin = 0 /\ fin' = 0
    BY <2>1 DEF Uncounted
  <2>3. ~SendSegment(e) /\ ~ArmZWP(e) /\ ~QueueFin(e) /\ ~SendFin(e) /\ ~CountFin(e)
    BY <2>1 DEF SendSegment, ArmZWP, QueueFin, SendFin, CountFin
  <2>4. number' = number + SegmentSize(e)
    BY <1>0, <1>7, NumbersMove
  <2> QED BY <1>1, <1>3, <2>2, <2>3, <2>4
<1>8. CASE SendFin(e)
  <2>1. vwrite[e].pc = "fin" /\ vwrite'[e].pc = "finSeq" /\ snd' = snd
    BY <1>1, <1>8 DEF SendFin, VWriteType
  <2>2. Uncounted(e) = 0 /\ Uncounted(e)' = 0 /\ fin = 0 /\ fin' = 0
    BY <2>1 DEF Uncounted
  <2>3. ~SendSegment(e) /\ ~ArmZWP(e) /\ ~QueueFin(e) /\ ~CountFin(e)
    BY <2>1 DEF SendSegment, ArmZWP, QueueFin, CountFin
  <2> QED BY <1>1, <1>3, <2>1, <2>2, <2>3
<1>9. CASE CountFin(e)
  <2>1. vwrite[e].pc = "finSeq" /\ vwrite'[e].pc = "finQueue"
    BY <1>1, <1>9 DEF CountFin, VWriteType
  <2>2. Uncounted(e) = 0 /\ Uncounted(e)' = 0 /\ fin = 0 /\ fin' = 1
    BY <2>1 DEF Uncounted
  <2>3. ~SendSegment(e) /\ ~ArmZWP(e) /\ ~QueueFin(e) /\ ~SendFin(e)
    BY <2>1 DEF SendSegment, ArmZWP, QueueFin, SendFin
  <2>4. number' = number + 1
    BY <1>0, <1>9, NumbersMove
  <2> QED BY <1>1, <1>3, <2>2, <2>3, <2>4
<1>10. CASE QueueFin(e)
  <2>1. vwrite[e].pc = "finQueue" /\ vwrite'[e].pc = "done" /\ snd' = snd
    BY <1>1, <1>10 DEF QueueFin, VWriteType
  <2>2. Uncounted(e) = 0 /\ Uncounted(e)' = 0 /\ fin = 1 /\ fin' = 0
    BY <2>1 DEF Uncounted
  <2>3. ~SendSegment(e) /\ ~ArmZWP(e) /\ ~CountFin(e) /\ ~SendFin(e)
    BY <2>1 DEF SendSegment, ArmZWP, CountFin, SendFin
  <2> QED BY <1>1, <1>3, <2>1, <2>2, <2>3
<1>11. CASE /\ number' = number
            /\ Uncounted(e)' = Uncounted(e) /\ fin' = fin
            /\ ~SendSegment(e) /\ ~ArmZWP(e) /\ ~CountFin(e) /\ ~SendFin(e) /\ ~QueueFin(e)
  BY <1>1, <1>3, <1>11
<1> HIDE DEF goal
<1>12. CASE FindNothingToWrite(e) \/ SleepHandleVWrite(e) \/ FindDataToWrite(e)
            \/ TakePayload(e) \/ FailSegment(e) \/ EnterZWP(e) \/ SendProbe(e)
            \/ StopProbing(e) \/ LeaveZWP(e) \/ FailFin(e)
  <2>1. /\ number' = number
        /\ vwrite[e].pc \notin {"finQueue", "advance"}
        /\ vwrite'[e].pc \notin {"finQueue", "advance"}
    BY <1>1, <1>12
    DEF FindNothingToWrite, SleepHandleVWrite, FindDataToWrite, TakePayload,
        FailSegment, EnterZWP, SendProbe, StopProbing, LeaveZWP, FailFin,
        VWriteType, SenderType
  <2>2. Uncounted(e)' = Uncounted(e) /\ fin' = fin
    BY <2>1 DEF Uncounted
  <2> QED BY <1>5, <1>6, <1>8, <1>9, <1>10, <1>11, <2>1, <2>2
<1>13. CASE /\ number' = number /\ vwrite'[e].payload = vwrite[e].payload
            /\ \/ vwrite'[e].pc = vwrite[e].pc
               \/ vwrite[e].pc = "waiting" /\ vwrite'[e].pc = "lock"
  <2>1. Uncounted(e)' = Uncounted(e) /\ fin' = fin
    BY <1>13 DEF Uncounted, SegmentSize
  <2> QED BY <1>5, <1>6, <1>8, <1>9, <1>10, <1>11, <1>13, <2>1
<1>14. CASE VWrite(e)
  BY <1>13, <1>14, VWriteHandsOver DEF IInv
<1> QED
  BY <1>5, <1>6, <1>7, <1>8, <1>9, <1>10, <1>12, <1>13, <1>14, SendingStep
  DEF IInv, HandleVWrite, SendingState

\* A payload is taken where there are bytes, and cut until there are none.
LEMMA PayloadLeftStep ==
    ASSUME IInv, PayloadLeft, Next
    PROVE  PayloadLeft'
<1> SUFFICES ASSUME NEW e \in Ends, vwrite'[e].pc \in {"segment", "advance"}
             PROVE  vwrite'[e].payload # <<>>
  BY DEF PayloadLeft
<1>1. /\ vwrite \in [Ends -> VWriteType] /\ WriteBuffer[e] \in Seq(Byte)
      /\ snd[e].RemoteWindowSize \in Nat
      /\ Len(WriteBuffer[e]) \in Nat
  BY PayloadSizes, SizeType DEF IInv, TypeOK, SenderType, Windows
<1>2. CASE TakePayload(e)
  <2> DEFINE size == Smaller(snd[e].RemoteWindowSize, Len(WriteBuffer[e]))
  <2>1. vwrite'[e].payload = First(WriteBuffer[e], size) /\ size # 0
    BY <1>1, <1>2 DEF TakePayload, VWriteType
  <2>2. size \in 0 .. Len(WriteBuffer[e])
    BY <1>1, SmallerRange
  <2>3. Len(First(WriteBuffer[e], size)) = size
    BY <1>1, <2>2, FirstType
  <2> HIDE DEF size
  <2>4. Len(<<>>) = 0
    OBVIOUS
  <2> QED BY <2>1, <2>3, <2>4
<1>3. CASE SendSegment(e)
  BY <1>1, <1>3 DEF SendSegment, VWriteType, PayloadLeft
<1>4. CASE AdvanceSequence(e)
  BY <1>1, <1>4 DEF AdvanceSequence, VWriteType
<1>5. CASE vwrite'[e].payload = vwrite[e].payload /\ vwrite[e].pc = vwrite'[e].pc
  BY <1>5 DEF PayloadLeft
<1>6. CASE VWrite(e)
  BY <1>5, <1>6, VWriteHandsOver DEF IInv
<1>7. CASE FindNothingToWrite(e) \/ SleepHandleVWrite(e) \/ FindDataToWrite(e)
           \/ FailSegment(e) \/ EnterZWP(e) \/ ArmZWP(e) \/ SendProbe(e)
           \/ StopProbing(e) \/ LeaveZWP(e) \/ SendFin(e) \/ FailFin(e)
           \/ CountFin(e) \/ QueueFin(e)
  BY <1>1, <1>7
  DEF FindNothingToWrite, SleepHandleVWrite, FindDataToWrite, FailSegment,
      EnterZWP, ArmZWP, SendProbe, StopProbing, LeaveZWP, SendFin, FailFin,
      CountFin, QueueFin, VWriteType
<1> QED
  BY <1>2, <1>3, <1>4, <1>5, <1>6, <1>7, SendingStep
  DEF IInv, HandleVWrite, SendingState

\* What is queued is a sequence of packets, each with its numbers.
LEMMA QueueIs ==
    ASSUME TypeOK, NEW e \in Ends
    PROVE  LET queue == rtq[e].RTQueue IN
           /\ queue \in Seq(Packet) /\ Len(queue) \in Nat /\ DOMAIN queue = 1 .. Len(queue)
           /\ snd[e].LargestAck \in Nat
           /\ \A i \in DOMAIN queue :
                /\ queue[i] \in Packet
                /\ queue[i].SeqNum \in Nat /\ Len(queue[i].Data) \in Nat
                /\ SegmentEnd(queue[i]) \in Nat /\ queue[i].SeqNum <= SegmentEnd(queue[i])
                /\ queue[i].Flags = "FIN" => SegmentEnd(queue[i]) = queue[i].SeqNum + 1
                /\ queue[i].Flags # "FIN" =>
                     SegmentEnd(queue[i]) = queue[i].SeqNum + Len(queue[i].Data)
<1> DEFINE queue == rtq[e].RTQueue
<1>1. queue \in Seq(Packet)
  BY DEF TypeOK, RTQueueType
<1>2. Len(queue) \in Nat /\ DOMAIN queue = 1 .. Len(queue)
  BY <1>1
<1>3. snd[e].LargestAck \in Nat
  BY SenderNumbers
<1>4. ASSUME NEW i \in DOMAIN queue
      PROVE  /\ queue[i] \in Packet
             /\ queue[i].SeqNum \in Nat /\ Len(queue[i].Data) \in Nat
             /\ SegmentEnd(queue[i]) \in Nat /\ queue[i].SeqNum <= SegmentEnd(queue[i])
             /\ queue[i].Flags = "FIN" => SegmentEnd(queue[i]) = queue[i].SeqNum + 1
             /\ queue[i].Flags # "FIN" =>
                  SegmentEnd(queue[i]) = queue[i].SeqNum + Len(queue[i].Data)
  <2>1. queue[i] \in Packet
    BY <1>1, <1>2
  <2> HIDE DEF queue
  <2>2. queue[i].SeqNum \in Nat /\ Len(queue[i].Data) \in Nat
    BY <2>1, SizeAssumption DEF Packet, SeqNums, Text
  <2>3. CASE queue[i].Flags = "FIN"
    BY <2>1, <2>2, <2>3 DEF SegmentEnd
  <2>4. CASE queue[i].Flags # "FIN"
    BY <2>1, <2>2, <2>4 DEF SegmentEnd
  <2> QED BY <2>1, <2>2, <2>3, <2>4
<1> QED BY <1>1, <1>2, <1>3, <1>4

\* Who appends knows what is there already.
LEMMA InAppended ==
    ASSUME NEW S, NEW s \in Seq(S), NEW x, NEW t, t = Append(s, x)
    PROVE  /\ Len(t) = Len(s) + 1 /\ DOMAIN t = 1 .. Len(s) + 1 /\ Len(s) \in Nat
           /\ DOMAIN s = 1 .. Len(s)
           /\ \A i \in DOMAIN s : t[i] = s[i]
           /\ t[Len(s) + 1] = x
OBVIOUS

LEMMA InTail ==
    ASSUME NEW S, NEW s \in Seq(S), s # <<>>, NEW t, t = Tail(s)
    PROVE  /\ Len(s) \in Nat \ {0} /\ Len(t) = Len(s) - 1 /\ DOMAIN t = 1 .. Len(s) - 1
           /\ DOMAIN s = 1 .. Len(s)
           /\ \A i \in DOMAIN t : i + 1 \in DOMAIN s /\ t[i] = s[i + 1]
           /\ Head(s) = s[1]
<1>1. Len(s) \in Nat \ {0} /\ DOMAIN s = 1 .. Len(s) /\ Head(s) = s[1]
  BY EmptySeq
<1>2. Len(t) = Len(s) - 1 /\ DOMAIN t = 1 .. Len(s) - 1
  BY <1>1
<1>3. \A i \in 1 .. Len(s) - 1 : t[i] = s[i + 1]
  BY <1>1
<1> QED BY <1>1, <1>2, <1>3

\* HandleVWrite does not come back from its end.
LEMMA DoneStays ==
    ASSUME IInv, Next, NEW e \in Ends, vwrite[e].pc = "done"
    PROVE  vwrite'[e].pc = "done"
<1>1. CASE HandleVWrite(e)
  BY <1>1
  DEF HandleVWrite, FindNothingToWrite, SleepHandleVWrite, FindDataToWrite,
      TakePayload, SendSegment, FailSegment, AdvanceSequence, EnterZWP, ArmZWP,
      SendProbe, StopProbing, LeaveZWP, SendFin, FailFin, CountFin, QueueFin
<1>2. CASE VWrite(e)
  BY <1>2, VWriteHandsOver DEF IInv
<1> QED BY <1>1, <1>2, SendingStep DEF IInv

\* A FIN comes behind the data, when HandleVWrite has nothing left to send.
LEMMA FinQueuedLastStep ==
    ASSUME IInv, NumbersFit, NumbersWritten, FinQueuedLast, Next
    PROVE  FinQueuedLast'
<1> SUFFICES ASSUME NEW e \in Ends
             PROVE  /\ \A i \in DOMAIN rtq'[e].RTQueue :
                         rtq'[e].RTQueue[i].Flags = "FIN" =>
                           vwrite'[e].pc = "done" /\ i = Len(rtq'[e].RTQueue)
                    /\ vwrite'[e].pc \in {"finSeq", "finQueue"} =>
                         /\ vwrite'[e].packet.Flags = "FIN"
                         /\ vwrite'[e].packet.SeqNum = Frontier(e)'
  BY DEF FinQueuedLast
<1> DEFINE queue == rtq[e].RTQueue
<1>1. /\ vwrite \in [Ends -> VWriteType] /\ queue \in Seq(Packet) /\ DOMAIN queue = 1 .. Len(queue)
      /\ snd \in [Ends -> SenderType]
  BY QueueIs DEF IInv, TypeOK
<1>2. \A i \in DOMAIN queue : queue[i].Flags = "FIN" => vwrite[e].pc = "done" /\ i = Len(queue)
  BY DEF FinQueuedLast
<1>3. vwrite[e].pc = "done" => vwrite'[e].pc = "done"
  BY DoneStays
<1>4. ASSUME NEW i \in DOMAIN queue', queue'[i].Flags = "FIN"
      PROVE  vwrite'[e].pc = "done" /\ i = Len(queue')
  <2>1. CASE queue' = queue
    BY <1>2, <1>3, <1>4, <2>1
  <2>2. CASE /\ SendSegment(e)
             /\ queue' = Append(queue, Segment(e, "ACK", First(vwrite[e].payload, SegmentSize(e)), 0))
    <3> DEFINE segment == Segment(e, "ACK", First(vwrite[e].payload, SegmentSize(e)), 0)
    <3>1. segment.Flags = "ACK" /\ vwrite[e].pc = "segment"
      BY <2>2 DEF Segment, SendSegment
    <3>2. /\ DOMAIN queue' = 1 .. Len(queue) + 1 /\ Len(queue) \in Nat
          /\ \A k \in DOMAIN queue : queue'[k] = queue[k]
          /\ queue'[Len(queue) + 1] = segment
      BY <1>1, <2>2, InAppended
    <3> HIDE DEF segment, queue
    <3> QED BY <1>1, <1>2, <1>4, <3>1, <3>2
  <2>3. CASE QueueFin(e) /\ queue' = Append(queue, vwrite[e].packet)
    <3>1. vwrite'[e].pc = "done" /\ vwrite[e].pc # "done"
      BY <1>1, <2>3 DEF QueueFin, VWriteType
    <3>2. /\ DOMAIN queue' = 1 .. Len(queue) + 1 /\ Len(queue) \in Nat
          /\ Len(queue') = Len(queue) + 1
          /\ \A k \in DOMAIN queue : queue'[k] = queue[k]
      BY <1>1, <2>3, InAppended
    <3> HIDE DEF queue
    <3> QED BY <1>1, <1>2, <1>4, <3>1, <3>2
  <2>4. CASE PurgeSegment(e) /\ queue' = Tail(queue)
    <3>1. queue # <<>>
      BY <2>4 DEF PurgeSegment
    <3>2. /\ DOMAIN queue' = 1 .. Len(queue) - 1 /\ Len(queue) \in Nat
          /\ Len(queue') = Len(queue) - 1
          /\ \A k \in DOMAIN queue' : k + 1 \in DOMAIN queue /\ queue'[k] = queue[k + 1]
      BY <1>1, <2>4, <3>1, InTail
    <3> HIDE DEF queue
    <3>3. i + 1 \in DOMAIN queue /\ queue[i + 1].Flags = "FIN"
      BY <1>4, <3>2
    <3>4. vwrite[e].pc = "done" /\ i + 1 = Len(queue)
      BY <1>2, <3>3
    <3> QED BY <1>3, <1>4, <3>2, <3>4
  <2> QED BY <2>1, <2>2, <2>3, <2>4, QueueStep DEF IInv
<1>5. ASSUME vwrite'[e].pc \in {"finSeq", "finQueue"}
      PROVE  vwrite'[e].packet.Flags = "FIN" /\ vwrite'[e].packet.SeqNum = Frontier(e)'
  <2>1. CASE SendFin(e)
    <3>1. vwrite'[e].packet = Segment(e, "FIN", <<>>, 0)
      BY <1>1, <2>1 DEF SendFin, VWriteType
    <3>2. vwrite'[e].packet.Flags = "FIN" /\ vwrite'[e].packet.SeqNum = NextSequenceNumber(e)
      BY <3>1 DEF Segment
    <3> QED BY <2>1, <3>2, FrontierGrows
  <2>2. CASE CountFin(e)
    <3>1. vwrite'[e].packet = vwrite[e].packet /\ vwrite[e].pc = "finSeq"
      BY <1>1, <2>2 DEF CountFin, VWriteType
    <3> QED BY <2>2, <3>1, FrontierGrows DEF FinQueuedLast
  <2>3. CASE /\ snd'[e].NumberBytesSent = snd[e].NumberBytesSent
             /\ vwrite'[e].packet = vwrite[e].packet
             /\ \/ vwrite'[e].pc = vwrite[e].pc
                \/ vwrite[e].pc = "waiting" /\ vwrite'[e].pc = "lock"
    <3>1. vwrite'[e].pc = vwrite[e].pc
      BY <1>5, <2>3
    <3>2. Uncounted(e) = 0 /\ Uncounted(e)' = 0
      BY <1>5, <3>1 DEF Uncounted
    <3>3. Frontier(e)' = Frontier(e)
      BY <2>3, <3>1, <3>2 DEF Frontier
    <3> QED BY <1>5, <2>3, <3>1, <3>3 DEF FinQueuedLast
  <2>4. CASE VWrite(e)
    BY <2>3, <2>4, VWriteHandsOver DEF IInv
  <2>5. CASE FindNothingToWrite(e) \/ SleepHandleVWrite(e) \/ FindDataToWrite(e)
             \/ TakePayload(e) \/ SendSegment(e) \/ FailSegment(e)
             \/ AdvanceSequence(e) \/ EnterZWP(e) \/ ArmZWP(e) \/ SendProbe(e)
             \/ StopProbing(e) \/ LeaveZWP(e) \/ FailFin(e) \/ QueueFin(e)
    <3>1. vwrite'[e].pc \notin {"finSeq", "finQueue"}
      BY <1>1, <2>5
      DEF FindNothingToWrite, SleepHandleVWrite, FindDataToWrite, TakePayload,
          SendSegment, FailSegment, AdvanceSequence, EnterZWP, ArmZWP, SendProbe,
          StopProbing, LeaveZWP, FailFin, QueueFin, VWriteType
    <3> QED BY <1>5, <3>1
  <2> QED
    BY <2>1, <2>2, <2>3, <2>4, <2>5, SendingStep DEF IInv, HandleVWrite, SendingState
<1> QED BY <1>4, <1>5

\* A segment or FIN that is queued begins where the queue ends.
LEMMA QueuedAtFrontier ==
    ASSUME IInv, NumbersFit, NumbersWritten, FinQueuedLast, PayloadLeft, Next,
           NEW e \in Ends, NEW item,
           \/ /\ SendSegment(e)
              /\ item = Segment(e, "ACK", First(vwrite[e].payload, SegmentSize(e)), 0)
           \/ QueueFin(e) /\ item = vwrite[e].packet
    PROVE  /\ item.SeqNum = Frontier(e)
           /\ SegmentEnd(item) = Frontier(e)'
           /\ SendSegment(e) => Frontier(e) < SegmentEnd(item)
           /\ QueueFin(e) => item.Flags = "FIN"
<1>1. /\ Frontier(e) \in Int /\ Frontier(e)' \in Int
      /\ SendSegment(e) =>
           /\ Frontier(e) = NextSequenceNumber(e)
           /\ Frontier(e)' = Frontier(e) + SegmentSize(e)
      /\ QueueFin(e) => Frontier(e)' = Frontier(e) + 1
  BY FrontierGrows
<1>2. CASE /\ SendSegment(e)
           /\ item = Segment(e, "ACK", First(vwrite[e].payload, SegmentSize(e)), 0)
  <2> DEFINE data == First(vwrite[e].payload, SegmentSize(e))
  <2>1. /\ vwrite[e].payload \in Seq(Byte) /\ Len(vwrite[e].payload) \in Nat
        /\ SegmentSize(e) \in 0 .. Len(vwrite[e].payload)
    BY PayloadSizes DEF IInv
  <2>2. Len(data) = SegmentSize(e)
    BY <2>1, FirstType
  <2>3. vwrite[e].payload # <<>> /\ vwrite[e].pc = "segment"
    BY <1>2 DEF SendSegment, PayloadLeft
  <2>4. SegmentSize(e) > 0
    <3>1. Len(vwrite[e].payload) # 0
      BY <2>1, <2>3, EmptySeq
    <3>2. SegmentSize(e) = MaxSegmentSize \/ SegmentSize(e) = Len(vwrite[e].payload)
      BY DEF SegmentSize, Smaller
    <3> QED BY <2>1, <3>1, <3>2, SizeType
  <2>5. item.SeqNum = NextSequenceNumber(e) /\ item.Flags = "ACK" /\ item.Data = data
    BY <1>2 DEF Segment
  <2>6. SegmentEnd(item) = NextSequenceNumber(e) + SegmentSize(e)
    BY <2>2, <2>5 DEF SegmentEnd
  <2>7. ~QueueFin(e)
    BY <2>3 DEF QueueFin
  <2> QED BY <1>1, <1>2, <2>1, <2>4, <2>5, <2>6, <2>7
<1>3. CASE QueueFin(e) /\ item = vwrite[e].packet
  <2>1. vwrite[e].pc = "finQueue"
    BY <1>3 DEF QueueFin
  <2>2. item.Flags = "FIN" /\ item.SeqNum = Frontier(e)
    BY <1>3, <2>1 DEF FinQueuedLast
  <2>3. SegmentEnd(item) = Frontier(e) + 1
    BY <2>2 DEF SegmentEnd
  <2>4. ~SendSegment(e)
    BY <2>1 DEF SendSegment
  <2> QED BY <1>1, <1>3, <2>2, <2>3, <2>4
<1> QED BY <1>2, <1>3

\* It is appended, and what is taken away is the head.
LEMMA QueueInSequenceStep ==
    ASSUME IInv, NumbersFit, NumbersWritten, QueueInSequence, FinQueuedLast,
           PayloadLeft, Next
    PROVE  QueueInSequence'
<1> SUFFICES ASSUME NEW e \in Ends
             PROVE  LET queue == rtq[e].RTQueue IN
                    /\ \A i, j \in DOMAIN queue' :
                         i < j => SegmentEnd(queue'[i]) <= queue'[j].SeqNum
                    /\ \A i \in DOMAIN queue' : SegmentEnd(queue'[i]) <= Frontier(e)'
  BY DEF QueueInSequence, SegmentEnd
<1> DEFINE queue == rtq[e].RTQueue
           sorted == /\ \A i, j \in DOMAIN queue' :
                          i < j => SegmentEnd(queue'[i]) <= queue'[j].SeqNum
                     /\ \A i \in DOMAIN queue' : SegmentEnd(queue'[i]) <= Frontier(e)'
<1> SUFFICES sorted
  OBVIOUS
<1>1. /\ queue \in Seq(Packet) /\ DOMAIN queue = 1 .. Len(queue) /\ Len(queue) \in Nat
      /\ \A i \in DOMAIN queue :
           /\ SegmentEnd(queue[i]) \in Nat /\ queue[i].SeqNum \in Nat
           /\ queue[i].SeqNum <= SegmentEnd(queue[i])
  BY QueueIs DEF IInv
<1>2. Frontier(e) \in Int /\ Frontier(e)' \in Int /\ Frontier(e) <= Frontier(e)'
  BY FrontierGrows
<1>3. /\ \A i, j \in DOMAIN queue : i < j => SegmentEnd(queue[i]) <= queue[j].SeqNum
      /\ \A i \in DOMAIN queue : SegmentEnd(queue[i]) <= Frontier(e)
  BY DEF QueueInSequence
<1>4. \A i \in DOMAIN queue : SegmentEnd(queue[i]) <= Frontier(e)'
  BY <1>1, <1>2, <1>3
<1>5. CASE queue' = queue
  BY <1>3, <1>4, <1>5
<1>6. ASSUME NEW item, queue' = Append(queue, item),
             item.SeqNum = Frontier(e), SegmentEnd(item) = Frontier(e)'
      PROVE  sorted
  <2>1. /\ DOMAIN queue' = 1 .. Len(queue) + 1
        /\ \A i \in DOMAIN queue : queue'[i] = queue[i]
        /\ queue'[Len(queue) + 1] = item
    BY <1>1, <1>6, InAppended
  <2> HIDE DEF queue
  <2>2. ASSUME NEW i \in DOMAIN queue', NEW j \in DOMAIN queue', i < j
        PROVE  SegmentEnd(queue'[i]) <= queue'[j].SeqNum
    <3>1. i \in DOMAIN queue /\ queue'[i] = queue[i]
      BY <1>1, <2>1, <2>2
    <3>2. CASE j \in DOMAIN queue
      BY <1>3, <2>1, <2>2, <3>1, <3>2
    <3>3. CASE j = Len(queue) + 1
      BY <1>3, <1>6, <2>1, <3>1, <3>3
    <3> QED BY <1>1, <2>1, <3>2, <3>3
  <2>3. ASSUME NEW i \in DOMAIN queue'
        PROVE  SegmentEnd(queue'[i]) <= Frontier(e)'
    <3>1. CASE i \in DOMAIN queue
      BY <1>4, <2>1, <3>1
    <3>2. CASE i = Len(queue) + 1
      BY <1>2, <1>6, <2>1, <3>2
    <3> QED BY <1>1, <2>1, <3>1, <3>2
  <2> QED BY <2>2, <2>3
<1>7. CASE PurgeSegment(e) /\ queue' = Tail(queue)
  <2>1. queue # <<>>
    BY <1>7 DEF PurgeSegment
  <2>2. /\ DOMAIN queue' = 1 .. Len(queue) - 1
        /\ \A i \in DOMAIN queue' : i + 1 \in DOMAIN queue /\ queue'[i] = queue[i + 1]
    BY <1>1, <1>7, <2>1, InTail
  <2> HIDE DEF queue
  <2>3. ASSUME NEW i \in DOMAIN queue', NEW j \in DOMAIN queue', i < j
        PROVE  SegmentEnd(queue'[i]) <= queue'[j].SeqNum
    <3>1. i + 1 \in DOMAIN queue /\ j + 1 \in DOMAIN queue /\ i + 1 < j + 1
      BY <1>1, <2>2, <2>3
    <3>2. SegmentEnd(queue[i + 1]) <= queue[j + 1].SeqNum
      BY <1>3, <3>1
    <3> QED BY <2>2, <3>2
  <2> QED BY <1>4, <2>2, <2>3
<1> HIDE DEF sorted
<1>8. CASE SendSegment(e)
           /\ queue' = Append(queue, Segment(e, "ACK", First(vwrite[e].payload, SegmentSize(e)), 0))
  BY <1>6, <1>8, QueuedAtFrontier
<1>9. CASE QueueFin(e) /\ queue' = Append(queue, vwrite[e].packet)
  BY <1>6, <1>9, QueuedAtFrontier
<1> QED BY <1>5, <1>7, <1>8, <1>9, QueueStep DEF IInv

\* SND.UNA moves when HandleTCPPacket takes a new acknowledgement and begins
\* the purge, and the purge ends in two ways.
LEMMA AckStep ==
    ASSUME TypeOK, Next, NEW e \in Ends
    PROVE  /\ \/ snd'[e].LargestAck = snd[e].LargestAck
              \/ /\ \E i \in 1 .. MaxReorder + 1 : ReceiveNewAck(e, i)
                 /\ snd[e].LargestAck < snd'[e].LargestAck
                 /\ snd'[e].LargestAck <= NextSequenceNumber(e)
                 /\ handler'[e].pc = "purge"
                 /\ handler'[e].packet.AckNum = snd'[e].LargestAck
           /\ handler[e].pc = "purge" =>
                handler'[e] = handler[e] \/ FinishPurge(e) \/ PurgeLastFin(e)
<1> DEFINE goal == /\ \/ snd'[e].LargestAck = snd[e].LargestAck
                      \/ /\ \E i \in 1 .. MaxReorder + 1 : ReceiveNewAck(e, i)
                         /\ snd[e].LargestAck < snd'[e].LargestAck
                         /\ snd'[e].LargestAck <= NextSequenceNumber(e)
                         /\ handler'[e].pc = "purge"
                         /\ handler'[e].packet.AckNum = snd'[e].LargestAck
                   /\ handler[e].pc = "purge" =>
                        handler'[e] = handler[e] \/ FinishPurge(e) \/ PurgeLastFin(e)
<1> SUFFICES goal
  OBVIOUS
<1>1. snd \in [Ends -> SenderType] /\ handler \in [Ends -> HandlerType]
  BY DEF TypeOK
<1>2. PICK a \in Ends :
        \/ HandleVWrite(a) \/ HandleRT(a) \/ HandleTCPPacket(a)
        \/ Application(a) \/ TimeWait(a) \/ Discard(a) \/ Lose(a)
  BY DEF Next
<1>3. CASE HandleVWrite(a)
  <2>1. snd'[e].LargestAck = snd[e].LargestAck
    BY <1>1, <1>3, SMTT(30)
    DEF HandleVWrite, FindNothingToWrite, SleepHandleVWrite, FindDataToWrite,
        TakePayload, SendSegment, FailSegment, AdvanceSequence, EnterZWP, ArmZWP,
        SendProbe, StopProbing, LeaveZWP, SendFin, FailFin, CountFin, QueueFin,
        SenderType
  <2>2. handler[e].pc = "purge" => handler'[e] = handler[e]
    BY <1>1, <1>3
    DEF HandleVWrite, FindNothingToWrite, SleepHandleVWrite, FindDataToWrite,
        TakePayload, SendSegment, FailSegment, AdvanceSequence, EnterZWP, ArmZWP,
        SendProbe, StopProbing, LeaveZWP, SendFin, FailFin, CountFin, QueueFin,
        HandlerType
  <2> QED BY <2>1, <2>2
<1>4. CASE HandleRT(a) \/ Application(a) \/ TimeWait(a) \/ Discard(a) \/ Lose(a)
  BY <1>4, HandleRTFrame, CallVWriteFrame, VReadFrame, VCloseFrame, NetworkFrame
  DEF Application
<1>5. CASE HandleTCPPacket(a) /\ a # e
  <2>1. handler'[e] = handler[e]
    BY <1>5, OtherEndHolds
  <2>2. snd'[e] = snd[e]
    BY <1>1, <1>5
    DEF HandleTCPPacket, ReceiveNewAck, ReceiveOtherAck, ReceiveNextFin,
        ReceiveOtherFin, CompareAckAgain, PurgeSegment, PurgeLastFin,
        FinishPurge, UpdateWindow, CheckProbe, IgnoreEmptyText, ReceiveNextText,
        ReceiveOtherText, TakeEarlyArrival, LeaveEarlyArrivals, SendAck
  <2> QED BY <2>1, <2>2
<1>6. CASE HandleTCPPacket(e)
  <2>1. ASSUME NEW i \in 1 .. MaxReorder + 1, ReceiveNewAck(e, i)
        PROVE  goal
    <3>1. /\ snd'[e].LargestAck = net[e][i].AckNum
          /\ handler'[e] = [pc |-> "purge", packet |-> net[e][i]]
          /\ snd[e].LargestAck < net[e][i].AckNum
          /\ net[e][i].AckNum <= NextSequenceNumber(e) /\ handler[e].pc = "idle"
      BY <1>1, <2>1 DEF ReceiveNewAck, Acceptable, SenderType
    <3> QED BY <2>1, <3>1
  <2>2. CASE UpdateWindow(e)
    BY <1>1, <2>2 DEF UpdateWindow, SenderType
  <2>3. CASE PurgeSegment(e)
    BY <2>3 DEF PurgeSegment
  <2>4. CASE FinishPurge(e) \/ PurgeLastFin(e)
    BY <2>4 DEF FinishPurge, PurgeLastFin
  <2>5. CASE snd' = snd /\ handler[e].pc # "purge"
    BY <2>5
  <2> HIDE DEF goal
  <2> QED
    BY <1>6, <2>1, <2>2, <2>3, <2>4, <2>5
    DEF HandleTCPPacket, ReceiveOtherAck, ReceiveNextFin, ReceiveOtherFin,
        CompareAckAgain, CheckProbe, IgnoreEmptyText, ReceiveNextText,
        ReceiveOtherText, TakeEarlyArrival, LeaveEarlyArrivals, SendAck
<1> QED BY <1>2, <1>3, <1>4, <1>5, <1>6

\* The purge stops at the first segment that is not acknowledged, and none
\* behind it is; a segment that is queued later begins at SND.NXT or above.
LEMMA DataUnacknowledgedStep ==
    ASSUME IInv, NumbersFit, NumbersWritten, QueueInv, Next
    PROVE  DataUnacknowledged'
<1> SUFFICES ASSUME NEW e \in Ends
             PROVE  LET queue == rtq[e].RTQueue IN
                    /\ snd'[e].LargestAck <= InitSeqNum[e] + 1 + snd'[e].NumberBytesSent
                    /\ handler'[e].pc # "purge" =>
                         \A i \in DOMAIN queue' :
                            queue'[i].Flags # "FIN" =>
                              snd'[e].LargestAck < SegmentEnd(queue'[i])
  BY DEF DataUnacknowledged, SegmentEnd
<1> DEFINE queue == rtq[e].RTQueue
           una == snd[e].LargestAck
           number == snd[e].NumberBytesSent
           clear(q, n) == \A i \in DOMAIN q : q[i].Flags # "FIN" => n < SegmentEnd(q[i])
<1>0. QueueInSequence /\ FinQueuedLast /\ PayloadLeft /\ DataUnacknowledged
  BY DEF QueueInv
<1>1. /\ queue \in Seq(Packet) /\ DOMAIN queue = 1 .. Len(queue) /\ Len(queue) \in Nat
      /\ una \in Nat
      /\ \A i \in DOMAIN queue :
           /\ queue[i].SeqNum \in Nat /\ Len(queue[i].Data) \in Nat
           /\ SegmentEnd(queue[i]) \in Nat /\ queue[i].SeqNum <= SegmentEnd(queue[i])
           /\ queue[i].Flags # "FIN" =>
                SegmentEnd(queue[i]) = queue[i].SeqNum + Len(queue[i].Data)
  BY QueueIs DEF IInv
<1>2. /\ number \in Nat /\ InitSeqNum[e] \in Nat
      /\ NextSequenceNumber(e) = InitSeqNum[e] + 1 + number
  BY NextNumberIs
<1>3. number' \in Nat /\ number <= number'
  <2>1. TypeOK'
    BY StepIInv DEF IInv
  <2>2. (number \in Nat)'
    BY <2>1, InHandType, PTL
  <2> QED BY <2>2, FrontierGrows
<1>4. una <= InitSeqNum[e] + 1 + number
  BY <1>0 DEF DataUnacknowledged
<1>5. una' \in Int
  <2>1. TypeOK'
    BY StepIInv DEF IInv
  <2>2. (una \in 0 .. SeqSpace - 1)'
    BY <2>1, SenderNumbers, PTL
  <2> QED BY <2>2, SizeAssumption
<1>6. una' <= InitSeqNum[e] + 1 + number'
  <2>1. CASE una' = una
    BY <1>1, <1>2, <1>3, <1>4, <2>1
  <2>2. CASE una' <= NextSequenceNumber(e)
    BY <1>2, <1>3, <1>5, <2>2
  <2> QED BY <2>1, <2>2, AckStep DEF IInv
<1>7. ASSUME handler'[e].pc # "purge"
      PROVE  clear(queue', una')
  <2>1. una' = una
    BY <1>7, AckStep DEF IInv
  <2>2. CASE handler[e].pc = "purge"
    <3>1. FinishPurge(e) \/ PurgeLastFin(e)
      BY <1>7, <2>2, AckStep DEF IInv
    <3>2. queue' = queue
      BY <3>1 DEF FinishPurge, PurgeLastFin, IInv, TypeOK, RTQueueType
    <3>3. CASE FinishPurge(e)
      <4> SUFFICES ASSUME NEW i \in DOMAIN queue, queue[i].Flags # "FIN"
                   PROVE  una < SegmentEnd(queue[i])
        BY <2>1, <3>2
      <4>1. queue # <<>> /\ 1 \in DOMAIN queue /\ Head(queue) = queue[1]
        BY <1>1, EmptySeq
      <4>2. ~Acknowledged(e, queue[1])
        BY <3>3, <4>1 DEF FinishPurge
      <4> HIDE DEF queue
      <4>3. una < queue[1].SeqNum + Len(queue[1].Data)
        BY <1>1, <4>1, <4>2 DEF Acknowledged
      <4>4. CASE i = 1
        BY <1>1, <4>3, <4>4
      <4>5. CASE i # 1
        <5>1. SegmentEnd(queue[1]) <= queue[i].SeqNum
          BY <1>0, <1>1, <4>1, <4>5, SMTT(30) DEF QueueInSequence, queue
        <5>2. queue[1].SeqNum + Len(queue[1].Data) <= SegmentEnd(queue[1])
          <6>1. CASE queue[1].Flags = "FIN"
            <7>1. 1 = Len(queue)
              BY <1>0, <4>1, <6>1 DEF FinQueuedLast, queue
            <7>2. DOMAIN queue = 1 .. 1
              BY <1>1, <7>1
            <7>3. i = 1
              BY <7>2
            <7> QED BY <4>5, <7>3
          <6>2. CASE queue[1].Flags # "FIN"
            <7>1. SegmentEnd(queue[1]) = queue[1].SeqNum + Len(queue[1].Data)
              BY <1>1, <4>1, <6>2
            <7>2. SegmentEnd(queue[1]) \in Nat
              BY <1>1, <4>1
            <7> QED BY <7>1, <7>2
          <6> QED BY <6>1, <6>2
        <5>3. /\ queue[1].SeqNum \in Nat /\ Len(queue[1].Data) \in Nat
              /\ SegmentEnd(queue[1]) \in Nat
              /\ queue[i].SeqNum \in Nat /\ SegmentEnd(queue[i]) \in Nat
              /\ queue[i].SeqNum <= SegmentEnd(queue[i])
          BY <1>1, <4>1
        <5> QED BY <1>1, <4>3, <5>1, <5>2, <5>3
      <4> QED BY <4>4, <4>5
    <3>4. CASE PurgeLastFin(e)
      <4>1. queue # <<>> /\ Head(queue).Flags = "FIN"
        BY <3>4 DEF PurgeLastFin
      <4>2. 1 \in DOMAIN queue /\ queue[1].Flags = "FIN"
        BY <1>1, <4>1, EmptySeq
      <4>3. 1 = Len(queue)
        BY <1>0, <4>2 DEF FinQueuedLast
      <4> HIDE DEF queue
      <4>4. \A i \in DOMAIN queue : i = 1
        <5>1. DOMAIN queue = 1 .. 1
          BY <1>1, <4>3
        <5> QED BY <5>1
      <4> QED BY <3>2, <4>2, <4>4
    <3> QED BY <3>1, <3>3, <3>4
  <2>3. CASE handler[e].pc # "purge"
    <3>1. clear(queue, una)
      BY <1>0, <2>3 DEF DataUnacknowledged
    <3>2. CASE queue' = queue
      BY <2>1, <3>1, <3>2
    <3>3. ASSUME NEW item, queue' = Append(queue, item),
                 item.Flags # "FIN" => una < SegmentEnd(item)
          PROVE  clear(queue', una)
      <4>1. /\ DOMAIN queue' = 1 .. Len(queue) + 1
            /\ \A i \in DOMAIN queue : queue'[i] = queue[i]
            /\ queue'[Len(queue) + 1] = item
        BY <1>1, <3>3, InAppended
      <4> HIDE DEF queue
      <4> SUFFICES ASSUME NEW i \in DOMAIN queue', queue'[i].Flags # "FIN"
                   PROVE  una < SegmentEnd(queue'[i])
        OBVIOUS
      <4>2. CASE i \in DOMAIN queue
        BY <3>1, <4>1, <4>2
      <4>3. CASE i = Len(queue) + 1
        BY <3>3, <4>1, <4>3
      <4> QED BY <1>1, <4>1, <4>2, <4>3
    <3>4. CASE SendSegment(e)
               /\ queue' = Append(queue, Segment(e, "ACK", First(vwrite[e].payload, SegmentSize(e)), 0))
      <4> DEFINE segment == Segment(e, "ACK", First(vwrite[e].payload, SegmentSize(e)), 0)
      <4>1. /\ Frontier(e) < SegmentEnd(segment) /\ SegmentEnd(segment) = Frontier(e)'
            /\ Frontier(e) = NextSequenceNumber(e) /\ Frontier(e)' \in Int
        BY <1>0, <3>4, QueuedAtFrontier, FrontierGrows
      <4>2. una < SegmentEnd(segment)
        BY <1>1, <1>2, <1>4, <4>1
      <4> QED BY <2>1, <3>3, <3>4, <4>2
    <3>5. CASE QueueFin(e) /\ queue' = Append(queue, vwrite[e].packet)
      <4>1. vwrite[e].packet.Flags = "FIN"
        BY <1>0, <3>5, QueuedAtFrontier
      <4> QED BY <2>1, <3>3, <3>5, <4>1
    <3>6. ~PurgeSegment(e)
      BY <2>3 DEF PurgeSegment
    <3> HIDE DEF clear
    <3> QED BY <3>2, <3>4, <3>5, <3>6, QueueStep DEF IInv
  <2> QED BY <2>2, <2>3
<1> QED BY <1>6, <1>7

LEMMA InitQueueInv == NumbersFit /\ Init => QueueInv
<1> SUFFICES ASSUME NumbersFit, Init PROVE QueueInv
  OBVIOUS
<1>1. ASSUME NEW e \in Ends
      PROVE  /\ rtq[e].RTQueue = <<>> /\ DOMAIN rtq[e].RTQueue = {}
             /\ vwrite[e].pc \in {"waiting", "lock"}
             /\ snd[e].LargestAck <= InitSeqNum[e] + 1 + snd[e].NumberBytesSent
  <2>1. rtq[e].RTQueue = <<>> /\ vwrite[e].pc \in {"waiting", "lock"}
    BY DEF Init
  <2>2. DOMAIN rtq[e].RTQueue = {}
    BY <2>1
  <2>3. /\ snd[e].LargestAck \in {(InitSeqNum[e] + 1) % SeqSpace, 0}
        /\ snd[e].NumberBytesSent = 0
    BY DEF Init, InitialSender
  <2>4. InitSeqNum[e] \in Nat /\ SeqSpace \in Nat \ {0}
    BY SizeAssumption
  <2>5. ((InitSeqNum[e] + 1) % SeqSpace) <= InitSeqNum[e] + 1
    BY <2>4, ModLess
  <2> QED BY <2>1, <2>2, <2>3, <2>4, <2>5
<1>2. QueueInSequence /\ FinQueuedLast /\ PayloadLeft /\ DataUnacknowledged
  BY <1>1 DEF QueueInSequence, FinQueuedLast, PayloadLeft, DataUnacknowledged
<1> QED BY <1>2 DEF QueueInv

LEMMA StepQueueInv ==
    NumbersFit /\ IInv /\ NumbersInv /\ QueueInv /\ [Next]_vars => QueueInv'
<1> SUFFICES ASSUME NumbersFit, IInv, NumbersInv, QueueInv, [Next]_vars PROVE QueueInv'
  OBVIOUS
<1>1. CASE Next
  BY <1>1, QueueInSequenceStep, FinQueuedLastStep, PayloadLeftStep, DataUnacknowledgedStep
  DEF QueueInv, NumbersInv
<1>2. CASE UNCHANGED vars
  <2>1. QueueInSequence' /\ FinQueuedLast'
    BY <1>2 DEF vars, QueueInv, QueueInSequence, FinQueuedLast, SegmentEnd, Frontier,
                Uncounted, SegmentSize
  <2>2. PayloadLeft' /\ DataUnacknowledged'
    BY <1>2 DEF vars, QueueInv, PayloadLeft, DataUnacknowledged, SegmentEnd
  <2> QED BY <2>1, <2>2 DEF QueueInv
<1> QED BY <1>1, <1>2

\* Whatever the network loses, delays or reorders and whoever closes: RTQueue
\* is in sequence, and outside the purge holds no data that is acknowledged.
THEOREM QueueAgrees ==
    ASSUME NumbersFit
    PROVE  Spec => []QueueInv
<1>1. ShortStreams
  BY FitIsShort
<1>2. Init => QueueInv
  BY InitQueueInv
<1>3. IInv /\ NumbersInv /\ QueueInv /\ [Next]_vars => QueueInv'
  BY StepQueueInv
<1> QED BY <1>1, <1>2, <1>3, InductiveInvariant, NumbersAgree, PTL DEF Spec

------------------------------------------------------------------------------
(* A connection that nobody closes *)

\* HandleVWrite queues the FIN after it was sent; if its acknowledgement comes
\* first, the FIN stays in RTQueue (socket.go:563).  What is said of the whole
\* queue and of the window below is about the time before a VClose.
NobodyCloses == Closing = {}

StaysOpen ==
    \A e \in Ends :
        /\ sock[e].ConnState = "ESTABLISHED"
        /\ closer[e] = "idle"
        /\ vwrite[e].pc \notin {"fin", "finSeq", "finQueue", "done"}

LEMMA StaysOpenStep ==
    ASSUME NobodyCloses, TypeOK, FinsAreSent, StaysOpen, Next
    PROVE  StaysOpen'
<1> SUFFICES ASSUME NEW e \in Ends
             PROVE  /\ sock'[e].ConnState = "ESTABLISHED"
                    /\ closer'[e] = "idle"
                    /\ vwrite'[e].pc \notin {"fin", "finSeq", "finQueue", "done"}
  BY DEF StaysOpen
<1>1. /\ sock \in [Ends -> SocketType] /\ closer \in [Ends -> CloserStates]
      /\ vwrite \in [Ends -> VWriteType]
  BY DEF TypeOK
<1>2. PICK a \in Ends :
        \/ HandleVWrite(a) \/ HandleRT(a) \/ HandleTCPPacket(a)
        \/ Application(a) \/ TimeWait(a) \/ Discard(a) \/ Lose(a)
  BY DEF Next
<1>3. /\ \A d \in Ends : sock[d].ConnState = "ESTABLISHED" /\ closer[d] = "idle"
      /\ \A d \in Ends : vwrite[d].pc \notin {"fin", "finSeq", "finQueue", "done"}
      /\ \A d \in Ends : ~FinSent(d)
  BY DEF StaysOpen, FinSent
<1>4. ~VClose(a)
  BY <1>3 DEF VClose, CallVClose, AssignFinWait1, WakeHandleVWrite, AssignLastAck,
              NobodyCloses
<1>5. ~TimeWait(a)
  BY <1>3 DEF TimeWait
<1>6. closer' = closer
  BY <1>2, <1>4, HandleVWriteFrame, HandleRTFrame, HandleTCPPacketFrame,
     CallVWriteFrame, VReadFrame, NetworkFrame
  DEF Application
<1>7. sock'[e].ConnState = sock[e].ConnState
  <2>1. CASE HandleTCPPacket(a)
    <3>1. Peer(a) \in Ends
      BY PeerType
    <3>2. \A i \in Nat : ~ReceiveNextFin(a, i)
      BY <1>3, <3>1, FinOfWhom DEF ReceiveNextFin
    <3>3. TakeEarlyArrival(a) => sock' = sock
      BY <1>3, <3>1, FinOfWhom DEF TakeEarlyArrival
    <3>4. ~PurgeLastFin(a) /\ (PurgeSegment(a) => sock' = sock)
      BY <1>3 DEF PurgeLastFin, PurgeSegment
    <3>5. \A i \in 1 .. MaxReorder + 1 : i \in Nat
      OBVIOUS
    <3>6. sock' = sock
      BY <2>1, <3>2, <3>3, <3>4, <3>5
      DEF HandleTCPPacket, ReceiveNewAck, ReceiveOtherAck, ReceiveOtherFin,
          CompareAckAgain, FinishPurge, UpdateWindow, CheckProbe, IgnoreEmptyText,
          ReceiveNextText, ReceiveOtherText, LeaveEarlyArrivals, SendAck
    <3> QED BY <3>6
  <2>2. CASE Discard(a) \/ Lose(a)
    BY <2>2 DEF Discard, Lose
  <2> QED
    BY <1>2, <1>4, <1>5, <2>1, <2>2, HandleVWriteFrame, HandleRTFrame,
       CallVWriteFrame, VReadFrame
    DEF Application
<1>8. vwrite'[e].pc \notin {"fin", "finSeq", "finQueue", "done"}
  <2>1. CASE HandleVWrite(e)
    BY <1>1, <1>3, <2>1
    DEF HandleVWrite, FindNothingToWrite, SleepHandleVWrite, FindDataToWrite,
        TakePayload, SendSegment, FailSegment, AdvanceSequence, EnterZWP, ArmZWP,
        SendProbe, StopProbing, LeaveZWP, SendFin, FailFin, CountFin, QueueFin,
        VWriteType
  <2>2. CASE VWrite(e)
    BY <1>1, <1>3, <2>2 DEF VWrite, WokenVWrite, VWriteType
  <2> QED BY <1>3, <2>1, <2>2, SendingStep
<1> QED BY <1>3, <1>6, <1>7, <1>8

\* Then nobody closes by himself, and no FIN is ever sent.
LEMMA OpenStays ==
    ASSUME NobodyCloses
    PROVE  Spec => []StaysOpen
<1>1. Init => StaysOpen
  BY DEF Init, StaysOpen
<1>2. IInv /\ ClosingInv /\ StaysOpen /\ [Next]_vars => StaysOpen'
  <2> SUFFICES ASSUME IInv, ClosingInv, StaysOpen, [Next]_vars PROVE StaysOpen'
    OBVIOUS
  <2>1. CASE Next
    BY <2>1, StaysOpenStep DEF IInv, ClosingInv
  <2>2. CASE UNCHANGED vars
    BY <2>2 DEF vars, StaysOpen
  <2> QED BY <2>1, <2>2
<1> QED BY <1>1, <1>2, InductiveInvariant, FinsAndStatesAgree, PTL DEF Spec

\* Until somebody closes, everything in RTQueue is unacknowledged outside the
\* purge of an arriving ACK, and in sequence (socket.go:60-83, 351-372).
THEOREM QueueIsUnacknowledged ==
    ASSUME NumbersFit, NobodyCloses
    PROVE  Spec => []RTQueueUnacknowledged
<1>1. IInv /\ QueueInv /\ StaysOpen => RTQueueUnacknowledged
  <2> SUFFICES ASSUME IInv, QueueInv, StaysOpen, NEW e \in Ends,
                      handler[e].pc # "purge", NEW i \in DOMAIN rtq[e].RTQueue
               PROVE  LET queue == rtq[e].RTQueue IN
                      /\ snd[e].LargestAck < SegmentEnd(queue[i])
                      /\ i > 1 => SegmentEnd(queue[i - 1]) <= queue[i].SeqNum
    BY DEF RTQueueUnacknowledged
  <2> DEFINE queue == rtq[e].RTQueue
  <2>1. DOMAIN queue = 1 .. Len(queue) /\ Len(queue) \in Nat
    BY QueueIs DEF IInv
  <2>2. queue[i].Flags # "FIN"
    BY DEF QueueInv, FinQueuedLast, StaysOpen
  <2>3. snd[e].LargestAck < SegmentEnd(queue[i])
    BY <2>2 DEF QueueInv, DataUnacknowledged
  <2>4. ASSUME i > 1
        PROVE  SegmentEnd(queue[i - 1]) <= queue[i].SeqNum
    <3>1. i - 1 \in DOMAIN queue /\ i - 1 < i
      BY <2>1, <2>4
    <3> QED BY <3>1 DEF QueueInv, QueueInSequence
  <2> QED BY <2>3, <2>4
<1>2. Spec => []StaysOpen
  BY OpenStays
<1> QED BY <1>1, <1>2, QueueAgrees, InductiveInvariant, PTL

------------------------------------------------------------------------------
(* The send window *)

\* The sequence numbers of an end's packets and the acknowledgements in them
\* grow together: of two packets, wherever they are, the one numbered later
\* acknowledges no less.
NumbersOnward ==
    \A e \in Ends :
        /\ \A x \in PacketsOf(e) :
             x = NoPacket \/ x.SeqNum \in InitSeqNum[e] + 1 .. NextSequenceNumber(e)
        /\ \A x, y \in PacketsOf(e) : x.SeqNum < y.SeqNum => x.AckNum <= y.AckNum

\* SND.WL1 and SND.WL2 of the active end come from one packet of its peer, or
\* are older than all of them.
WindowFrom ==
    LET first == InitSeqNum[Server] + snd[Client].LastSegmentSequenceNumber IN
    /\ snd[Client].LargestAck > InitSeqNum[Client]
    /\ first <= NextSequenceNumber(Server)
    /\ \A x \in PacketsOf(Server) :
         x.SeqNum < first => x.AckNum <= snd[Client].LastSegmentAckNumber

\* If the active end's window is older than SND.UNA, HandleTCPPacket has the
\* packet in hand that moved SND.UNA.
WindowKept ==
    /\ snd[Client].LargestAck > InitSeqNum[Client] + 1
    /\ snd[Client].LastSegmentAckNumber < snd[Client].LargestAck
    => /\ handler[Client].pc \in {"purge", "window", "done"}
       /\ handler[Client].pc \in {"purge", "window"} =>
            handler[Client].packet.AckNum = snd[Client].LargestAck

WindowInv == NumbersOnward /\ WindowFrom /\ WindowKept

\* A packet is made with the numbers its end has at that moment.
LEMMA NumbersMade ==
    ASSUME NumbersFit, IInv, ClosingInv, NumbersInv, StaysOpen, NEW e \in Ends,
           NEW packet, Makes(e, packet)
    PROVE  /\ packet.SeqNum = NextSequenceNumber(e)
           /\ packet.AckNum = InitSeqNum[Peer(e)] + rcv[e].NextExpectedByte
<1> DEFINE p == Peer(e)
           next == rcv[e].NextExpectedByte
<1>1. /\ p \in Ends /\ Peer(p) = e
      /\ next \in Nat /\ InitSeqNum[p] \in Nat /\ SeqSpace \in Nat \ {0}
  BY PeerOfPeer, SenderNumbers DEF IInv
<1>2. next + InitSeqNum[p] \in 0 .. SeqSpace - 1
  <2>1. next <= 1 + writer[p].written
    BY <1>1 DEF NumbersInv, DataNumbered, DataBefore
  <2>2. /\ writer[p].written \in Nat /\ writer[p].written <= ToWrite[p]
        /\ ToWrite[p] \in Nat /\ InitSeqNum[p] + ToWrite[p] + 2 < SeqSpace
    BY <1>1, WorkloadAssumption, InHandType DEF IInv, WrittenInRange, NumbersFit
  <2> QED BY <1>1, <2>1, <2>2
<1>3. (next + InitSeqNum[p] + 0) % SeqSpace = InitSeqNum[p] + next
  <2>1. next + InitSeqNum[p] + 0 = next + InitSeqNum[p] /\ next + InitSeqNum[p] = InitSeqNum[p] + next
    BY <1>1
  <2> QED BY <1>1, <1>2, <2>1, ModSame
<1>4. \A i \in Nat : ~ReceiveNextFin(e, i)
  <2>1. ~FinSent(p)
    BY <1>1 DEF StaysOpen, FinSent
  <2> QED BY <1>1, <2>1, FinOfWhom DEF ReceiveNextFin, IInv, ClosingInv
<1>5. PICK flags, data : packet = Segment(e, flags, data, 0)
  BY <1>4 DEF Makes
<1> QED BY <1>3, <1>5 DEF Segment

\* What an end's packets acknowledge, it has received.
LEMMA AcksBelow ==
    ASSUME IInv, NumbersInv, StaysOpen, NEW e \in Ends, NEW packet \in PacketsOf(e)
    PROVE  /\ packet.AckNum \in Nat /\ packet.SeqNum \in Nat
           /\ packet.AckNum <= InitSeqNum[Peer(e)] + rcv[e].NextExpectedByte
<1>1. Peer(e) \in Ends /\ Peer(Peer(e)) = e
  BY PeerOfPeer
<1>2. packet \in Packet
  BY PacketsAre DEF IInv
<1>3. packet.AckNum <= AckBound(Peer(e))
  BY <1>1 DEF NumbersInv, AcksReceived
<1>4. ~FinSent(Peer(e))
  BY <1>1 DEF StaysOpen, FinSent
<1>5. InitSeqNum[Peer(e)] \in Nat /\ rcv[e].NextExpectedByte \in Nat
  BY <1>1, SenderNumbers DEF IInv
<1>6. AckBound(Peer(e)) = InitSeqNum[Peer(e)] + rcv[e].NextExpectedByte
  BY <1>1, <1>4, <1>5 DEF AckBound
<1> QED BY <1>2, <1>3, <1>6, SizeAssumption DEF Packet, SeqNums

\* SND.NXT as a sum, with its hypotheses inside.
LEMMA NextNumberSum ==
    ASSUME NEW e \in Ends
    PROVE  NumbersFit /\ IInv /\ NumbersWritten =>
             /\ snd[e].NumberBytesSent \in Nat
             /\ NextSequenceNumber(e) = InitSeqNum[e] + 1 + snd[e].NumberBytesSent
BY NextNumberIs

\* SND.NXT only grows.
LEMMA NextNumberGrows ==
    ASSUME NumbersFit, IInv, NumbersInv, IInv', NumbersInv', Next, NEW e \in Ends
    PROVE  /\ NextSequenceNumber(e) \in Nat /\ NextSequenceNumber(e)' \in Nat
           /\ NextSequenceNumber(e) <= NextSequenceNumber(e)'
           /\ NextSequenceNumber(e) > InitSeqNum[e] /\ InitSeqNum[e] \in Nat
<1>1. /\ InitSeqNum[e] \in Nat /\ snd[e].NumberBytesSent \in Nat
      /\ NextSequenceNumber(e) = InitSeqNum[e] + 1 + snd[e].NumberBytesSent
  BY NextNumberIs DEF NumbersInv
<1>2. (NumbersFit /\ IInv /\ NumbersWritten)'
  BY DEF NumbersInv, NumbersFit
<1>3. (NumbersFit /\ IInv /\ NumbersWritten =>
        /\ snd[e].NumberBytesSent \in Nat
        /\ NextSequenceNumber(e) = InitSeqNum[e] + 1 + snd[e].NumberBytesSent)'
  BY NextNumberSum, PTL
<1>4. /\ snd'[e].NumberBytesSent \in Nat
      /\ NextSequenceNumber(e)' = InitSeqNum[e] + 1 + snd'[e].NumberBytesSent
  BY <1>2, <1>3
<1>5. snd[e].NumberBytesSent <= snd'[e].NumberBytesSent
  BY FrontierGrows DEF NumbersInv
<1> QED BY <1>1, <1>4, <1>5

LEMMA NumbersOnwardStep ==
    ASSUME NumbersFit, IInv, ClosingInv, NumbersInv, StaysOpen, NumbersOnward,
           IInv', NumbersInv', Next
    PROVE  NumbersOnward'
<1> SUFFICES ASSUME NEW e \in Ends
             PROVE  /\ \A x \in PacketsOf(e)' :
                         \/ x = NoPacket
                         \/ x.SeqNum \in InitSeqNum[e] + 1 .. NextSequenceNumber(e)'
                    /\ \A x, y \in PacketsOf(e)' : x.SeqNum < y.SeqNum => x.AckNum <= y.AckNum
  BY DEF NumbersOnward
<1> DEFINE now == NextSequenceNumber(e)
           acked == InitSeqNum[Peer(e)] + rcv[e].NextExpectedByte
<1>1. now \in Nat /\ now' \in Nat /\ now <= now' /\ now > InitSeqNum[e] /\ InitSeqNum[e] \in Nat
  BY NextNumberGrows
<1>2. ASSUME NEW x \in PacketsOf(e)
      PROVE  /\ x.SeqNum \in Nat /\ x.AckNum \in Nat
             /\ x.SeqNum <= now /\ x.AckNum <= acked
  <2>1. x = NoPacket \/ x.SeqNum \in InitSeqNum[e] + 1 .. now
    BY DEF NumbersOnward
  <2>2. NoPacket.SeqNum = 0
    BY DEF NoPacket
  <2>3. x.SeqNum \in Nat /\ x.AckNum \in Nat /\ x.AckNum <= acked
    BY AcksBelow
  <2> HIDE DEF now, acked
  <2> QED BY <1>1, <2>1, <2>2, <2>3
<1>3. ASSUME NEW x, Makes(e, x)
      PROVE  x.SeqNum = now /\ x.AckNum = acked
  BY <1>3, NumbersMade
<1>4. NoPacket.SeqNum = 0 /\ NoPacket.AckNum = 0
  BY DEF NoPacket
<1>5. acked \in Nat
  BY PeerType, SenderNumbers DEF IInv
<1>6. \A x \in PacketsOf(e)' : x \in PacketsOf(e) \/ x = NoPacket \/ Makes(e, x)
  BY PacketsStep DEF IInv
<1>7. ASSUME NEW x \in PacketsOf(e)'
      PROVE  x = NoPacket \/ x.SeqNum \in InitSeqNum[e] + 1 .. now'
  <2>1. CASE x \in PacketsOf(e)
    <3>1. x = NoPacket \/ x.SeqNum \in InitSeqNum[e] + 1 .. now
      BY <2>1 DEF NumbersOnward
    <3> HIDE DEF now
    <3> QED BY <1>1, <3>1
  <2>2. CASE Makes(e, x)
    <3>1. x.SeqNum = now
      BY <1>3, <2>2
    <3> HIDE DEF now
    <3> QED BY <1>1, <3>1
  <2> QED BY <1>6, <2>1, <2>2
<1>8. ASSUME NEW x \in PacketsOf(e)', NEW y \in PacketsOf(e)', x.SeqNum < y.SeqNum
      PROVE  x.AckNum <= y.AckNum
  <2>1. CASE x \in PacketsOf(e) /\ y \in PacketsOf(e)
    BY <1>8, <2>1 DEF NumbersOnward
  <2> HIDE DEF now, acked
  <2>2. CASE x = NoPacket
    <3>1. y.AckNum \in Nat
      BY <1>2, <1>3, <1>4, <1>5, <1>6
    <3> QED BY <1>4, <2>2, <3>1
  <2>3. CASE y = NoPacket
    <3>1. x.SeqNum \in Nat
      BY <1>1, <1>2, <1>3, <1>4, <1>6
    <3> QED BY <1>4, <1>8, <2>3, <3>1
  <2>4. CASE Makes(e, y)
    <3>1. x.AckNum <= acked
      BY <1>2, <1>3, <1>4, <1>5, <1>6
    <3> QED BY <1>3, <2>4, <3>1
  <2>5. CASE Makes(e, x) /\ y \in PacketsOf(e)
    <3>1. x.SeqNum = now /\ y.SeqNum <= now /\ y.SeqNum \in Nat
      BY <1>2, <1>3, <2>5
    <3> QED BY <1>1, <1>8, <3>1
  <2> QED BY <1>6, <2>1, <2>2, <2>3, <2>4, <2>5
<1> QED BY <1>7, <1>8

\* Only the update itself changes SND.WL1 and SND.WL2, and HandleTCPPacket
\* does not leave "window" without it.
LEMMA WindowStep ==
    ASSUME IInv, Next, NEW e \in Ends
    PROVE  \/ UpdateWindow(e)
           \/ /\ snd'[e].LastSegmentSequenceNumber = snd[e].LastSegmentSequenceNumber
              /\ snd'[e].LastSegmentAckNumber = snd[e].LastSegmentAckNumber
              /\ handler[e].pc \in {"window", "done"} => handler'[e] = handler[e]
<1> DEFINE same == /\ snd'[e].LastSegmentSequenceNumber = snd[e].LastSegmentSequenceNumber
                   /\ snd'[e].LastSegmentAckNumber = snd[e].LastSegmentAckNumber
           stays == handler[e].pc \in {"window", "done"} => handler'[e] = handler[e]
<1> SUFFICES UpdateWindow(e) \/ (same /\ stays)
  OBVIOUS
<1>1. snd \in [Ends -> SenderType] /\ handler \in [Ends -> HandlerType]
  BY DEF IInv, TypeOK
<1>2. PICK a \in Ends :
        \/ HandleVWrite(a) \/ HandleRT(a) \/ HandleTCPPacket(a)
        \/ Application(a) \/ TimeWait(a) \/ Discard(a) \/ Lose(a)
  BY DEF Next
<1>3. CASE HandleVWrite(a)
  <2>1. same
    BY <1>1, <1>3, SMTT(30)
    DEF HandleVWrite, FindNothingToWrite, SleepHandleVWrite, FindDataToWrite,
        TakePayload, SendSegment, FailSegment, AdvanceSequence, EnterZWP, ArmZWP,
        SendProbe, StopProbing, LeaveZWP, SendFin, FailFin, CountFin, QueueFin,
        SenderType
  <2>2. stays
    BY <1>1, <1>3
    DEF HandleVWrite, FindNothingToWrite, SleepHandleVWrite, FindDataToWrite,
        TakePayload, SendSegment, FailSegment, AdvanceSequence, EnterZWP, ArmZWP,
        SendProbe, StopProbing, LeaveZWP, SendFin, FailFin, CountFin, QueueFin,
        HandlerType
  <2> QED BY <2>1, <2>2
<1>4. CASE HandleRT(a) \/ Application(a) \/ TimeWait(a) \/ Discard(a) \/ Lose(a)
  BY <1>4, HandleRTFrame, CallVWriteFrame, VReadFrame, VCloseFrame, NetworkFrame
  DEF Application
<1>5. CASE HandleTCPPacket(a) /\ a # e
  <2>1. handler'[e] = handler[e]
    BY <1>5, OtherEndHolds DEF IInv
  <2>2. snd'[e] = snd[e]
    BY <1>1, <1>5
    DEF HandleTCPPacket, ReceiveNewAck, ReceiveOtherAck, ReceiveNextFin,
        ReceiveOtherFin, CompareAckAgain, PurgeSegment, PurgeLastFin,
        FinishPurge, UpdateWindow, CheckProbe, IgnoreEmptyText, ReceiveNextText,
        ReceiveOtherText, TakeEarlyArrival, LeaveEarlyArrivals, SendAck
  <2> QED BY <2>1, <2>2
<1>6. CASE HandleTCPPacket(e)
  <2>1. ASSUME NEW i \in 1 .. MaxReorder + 1, ReceiveNewAck(e, i)
        PROVE  same /\ stays
    BY <1>1, <2>1 DEF ReceiveNewAck, SenderType
  <2>2. CASE snd' = snd /\ (handler' = handler \/ handler[e].pc \notin {"window", "done"})
    BY <2>2
  <2> HIDE DEF same, stays
  <2> QED
    BY <1>6, <2>1, <2>2
    DEF HandleTCPPacket, ReceiveOtherAck, ReceiveNextFin, ReceiveOtherFin,
        CompareAckAgain, PurgeSegment, PurgeLastFin, FinishPurge, CheckProbe,
        IgnoreEmptyText, ReceiveNextText, ReceiveOtherText, TakeEarlyArrival,
        LeaveEarlyArrivals, SendAck
<1> QED BY <1>2, <1>3, <1>4, <1>5, <1>6

\* What UpdateWindow compares, at the active end.
LEMMA UpdateWindowIs ==
    ASSUME NumbersFit, IInv, NumbersInv, StaysOpen, WindowInv, UpdateWindow(Client)
    PROVE  LET packet == handler[Client].packet
               update == /\ snd[Client].LargestAck <= packet.AckNum
                         /\ packet.AckNum <= NextSequenceNumber(Client)
                         /\ Newer(Client, packet)
           IN  /\ packet \in PacketsOf(Server) /\ packet.AckNum \in Nat
               /\ snd[Client].LargestAck <= packet.AckNum =>
                    /\ packet # NoPacket
                    /\ packet.SeqNum <= NextSequenceNumber(Server)
                    /\ packet.SeqNum \in Nat
                    /\ packet.SeqNum = InitSeqNum[Server] + Relative(Client, packet)
               /\ update =>
                    /\ snd'[Client].LargestAck = snd[Client].LargestAck
                    /\ snd'[Client].LastSegmentSequenceNumber = Relative(Client, packet)
                    /\ snd'[Client].LastSegmentAckNumber = packet.AckNum
               /\ ~update => snd' = snd
               /\ handler'[Client].packet = packet
               /\ handler'[Client].pc \in {"probe", "text"}
<1> DEFINE packet == handler[Client].packet
           update == /\ snd[Client].LargestAck <= packet.AckNum
                     /\ packet.AckNum <= NextSequenceNumber(Client)
                     /\ Newer(Client, packet)
           nxt == NextSequenceNumber(Server)
           isn == InitSeqNum[Server]
<1>1. /\ Client \in Ends /\ Server \in Ends /\ Peer(Client) = Server /\ Peer(Server) = Client
  BY EndsAssumption DEF Ends, Peer
<1>2. packet \in PacketsOf(Server)
  BY <1>1 DEF PacketsOf, Incoming
<1>3. packet.SeqNum \in Nat /\ packet.AckNum \in Nat
  BY <1>1, <1>2, AcksBelow
<1>4. ASSUME snd[Client].LargestAck <= packet.AckNum
      PROVE  /\ packet # NoPacket /\ packet.SeqNum <= nxt
             /\ packet.SeqNum = isn + Relative(Client, packet)
  <2>1. /\ snd[Client].LargestAck \in Nat /\ InitSeqNum[Client] \in Nat
        /\ snd[Client].LargestAck > InitSeqNum[Client]
        /\ isn \in Nat /\ SeqSpace \in Nat \ {0}
    BY <1>1, SenderNumbers DEF IInv, WindowInv, WindowFrom
  <2>2. packet # NoPacket
    BY <1>3, <1>4, <2>1 DEF NoPacket
  <2>3. packet.SeqNum \in isn + 1 .. nxt
    BY <1>1, <1>2, <2>2 DEF WindowInv, NumbersOnward
  <2>4. nxt \in 0 .. SeqSpace - 1
    BY <1>1, NextNumberIs, SizeAssumption DEF NumbersInv
  <2>5. packet.SeqNum - isn \in 0 .. SeqSpace - 1
    <3> HIDE DEF nxt, isn, packet
    <3> QED BY <1>3, <2>1, <2>3, <2>4
  <2>6. Relative(Client, packet) = packet.SeqNum - isn
    BY <1>1, <2>1, <2>5, ModSame DEF Relative
  <2> HIDE DEF nxt, isn, packet
  <2> QED BY <1>3, <2>1, <2>2, <2>3, <2>4, <2>6
<1>5. snd \in [Ends -> SenderType] /\ handler \in [Ends -> HandlerType]
  BY DEF IInv, TypeOK
<1>6. CASE update
  BY <1>1, <1>2, <1>3, <1>4, <1>5, <1>6 DEF UpdateWindow, SenderType, HandlerType
<1>7. CASE ~update
  <2>1. snd' = snd /\ handler'[Client].packet = packet /\ handler'[Client].pc \in {"probe", "text"}
    BY <1>1, <1>5, <1>7 DEF UpdateWindow, HandlerType
  <2> QED BY <1>2, <1>3, <1>4, <1>7, <2>1
<1> QED BY <1>6, <1>7

LEMMA WindowFromStep ==
    ASSUME NumbersFit, IInv, ClosingInv, NumbersInv, QueueInv, StaysOpen, WindowInv,
           IInv', NumbersInv', NumbersOnward', Next
    PROVE  WindowFrom'
<1> DEFINE wl1 == snd[Client].LastSegmentSequenceNumber
           wl2 == snd[Client].LastSegmentAckNumber
           isn == InitSeqNum[Server]
           nxt == NextSequenceNumber(Server)
<1>1. Client \in Ends /\ Server \in Ends
  BY DEF Ends
<1>2. nxt \in Nat /\ nxt' \in Nat /\ nxt <= nxt' /\ isn \in Nat
  BY <1>1, NextNumberGrows
<1>3. /\ snd[Client].LargestAck > InitSeqNum[Client]
      /\ isn + wl1 <= nxt
      /\ \A x \in PacketsOf(Server) : x.SeqNum < isn + wl1 => x.AckNum <= wl2
  BY DEF WindowInv, WindowFrom
<1>4. wl1 \in Nat /\ wl2 \in Nat
  BY <1>1, SenderNumbers, SizeAssumption DEF IInv, SenderType, SeqNums
<1>5. snd'[Client].LargestAck > InitSeqNum[Client]
  <2>1. snd[Client].LargestAck \in Nat /\ InitSeqNum[Client] \in Nat
    BY <1>1, SenderNumbers DEF IInv
  <2>2. snd' \in [Ends -> SenderType]
    BY DEF IInv, TypeOK
  <2>3. snd'[Client].LargestAck \in Int
    BY <1>1, <2>2, SizeAssumption DEF SenderType, SeqNums
  <2> QED BY <1>1, <1>3, <2>1, <2>3, AckStep DEF IInv
<1>6. /\ isn + wl1' <= nxt'
      /\ \A x \in PacketsOf(Server)' : x.SeqNum < isn + wl1' => x.AckNum <= wl2'
  <2>1. CASE wl1' = wl1 /\ wl2' = wl2
    <3>1. ASSUME NEW x \in PacketsOf(Server)', x.SeqNum < isn + wl1
          PROVE  x.AckNum <= wl2
      <4>1. CASE x \in PacketsOf(Server)
        BY <1>3, <3>1, <4>1
      <4>2. CASE x = NoPacket
        BY <1>4, <4>2 DEF NoPacket
      <4>3. CASE Makes(Server, x)
        <5>1. x.SeqNum = nxt
          BY <1>1, <4>3, NumbersMade
        <5> HIDE DEF nxt, isn
        <5> QED BY <1>2, <1>3, <1>4, <3>1, <5>1
      <4> QED BY <1>1, <4>1, <4>2, <4>3, PacketsStep DEF IInv
    <3>2. isn + wl1 <= nxt'
      <4> HIDE DEF nxt, isn
      <4> QED BY <1>2, <1>3, <1>4
    <3> QED BY <2>1, <3>1, <3>2
  <2>2. CASE UpdateWindow(Client) /\ ~(wl1' = wl1 /\ wl2' = wl2)
    <3> DEFINE packet == handler[Client].packet
    <3>1. /\ packet.SeqNum <= nxt /\ packet.SeqNum \in Nat
          /\ packet.SeqNum = isn + wl1' /\ wl2' = packet.AckNum
          /\ handler'[Client].packet = packet
      BY <2>2, UpdateWindowIs
    <3>2. packet \in PacketsOf(Server)'
      <4>1. Peer(Server) = Client
        BY EndsAssumption DEF Peer
      <4> QED BY <3>1, <4>1 DEF PacketsOf, Incoming
    <3>3. \A x \in PacketsOf(Server)' : x.SeqNum < packet.SeqNum => x.AckNum <= packet.AckNum
      BY <1>1, <3>2 DEF NumbersOnward
    <3>4. isn + wl1' <= nxt'
      <4> HIDE DEF nxt, isn
      <4> QED BY <1>2, <3>1
    <3> HIDE DEF packet, nxt
    <3> QED BY <3>1, <3>3, <3>4
  <2> QED BY <1>1, <2>1, <2>2, WindowStep
<1> QED BY <1>5, <1>6 DEF WindowFrom

LEMMA WindowKeptStep ==
    ASSUME NumbersFit, IInv, ClosingInv, NumbersInv, QueueInv, StaysOpen, WindowInv,
           Next
    PROVE  WindowKept'
<1> DEFINE wl1 == snd[Client].LastSegmentSequenceNumber
           wl2 == snd[Client].LastSegmentAckNumber
           una == snd[Client].LargestAck
           packet == handler[Client].packet
<1>1. Client \in Ends /\ Server \in Ends
  BY DEF Ends
<1>2. wl1 \in Nat /\ wl2 \in Nat /\ una \in Nat
  BY <1>1, SenderNumbers, SizeAssumption DEF IInv, SenderType, SeqNums
<1> SUFFICES ASSUME una' > InitSeqNum[Client] + 1, wl2' < una'
             PROVE  /\ handler'[Client].pc \in {"purge", "window", "done"}
                    /\ handler'[Client].pc \in {"purge", "window"} =>
                         handler'[Client].packet.AckNum = una'
  BY DEF WindowKept
<1>3. CASE una' # una
  BY <1>1, <1>3, AckStep DEF IInv
<1>4. CASE una' = una /\ wl1' = wl1 /\ wl2' = wl2 /\ ~UpdateWindow(Client)
  <2>1. /\ handler[Client].pc \in {"purge", "window", "done"}
        /\ handler[Client].pc \in {"purge", "window"} => packet.AckNum = una
    BY <1>4 DEF WindowInv, WindowKept
  <2>2. CASE handler[Client].pc = "purge"
    <3>1. handler'[Client] = handler[Client] \/ FinishPurge(Client) \/ PurgeLastFin(Client)
      BY <1>1, <2>2, AckStep DEF IInv
    <3>2. handler \in [Ends -> HandlerType]
      BY DEF IInv, TypeOK
    <3>3. FinishPurge(Client) => handler'[Client].pc = "window" /\ handler'[Client].packet = packet
      BY <1>1, <3>2 DEF FinishPurge, HandlerType
    <3>4. PurgeLastFin(Client) => handler'[Client].pc = "done"
      BY <1>1, <3>2 DEF PurgeLastFin
    <3> QED BY <1>4, <2>1, <2>2, <3>1, <3>3, <3>4
  <2>3. CASE handler[Client].pc \in {"window", "done"}
    <3>1. handler'[Client] = handler[Client]
      BY <1>1, <1>4, <2>3, WindowStep
    <3> QED BY <1>4, <2>1, <3>1
  <2> QED BY <2>1, <2>2, <2>3
<1>5. CASE una' = una /\ UpdateWindow(Client)
  <2> DEFINE update == una <= packet.AckNum /\ packet.AckNum <= NextSequenceNumber(Client)
                       /\ Newer(Client, packet)
  <2>1. CASE update
    <3>1. wl2' = packet.AckNum /\ packet.AckNum \in Nat
      BY <1>5, <2>1, UpdateWindowIs
    <3> QED BY <1>2, <1>5, <2>1, <3>1
  <2>2. CASE ~update
    <3>1. wl2' = wl2 /\ wl2 < una
      <4>1. snd' = snd
        BY <1>5, <2>2, UpdateWindowIs
      <4> QED BY <1>5, <4>1
    <3>2. packet.AckNum = una
      <4>1. handler[Client].pc = "window"
        BY <1>5 DEF UpdateWindow
      <4> QED BY <1>5, <3>1, <4>1 DEF WindowInv, WindowKept
    <3>3. una <= NextSequenceNumber(Client)
      <4>1. una <= InitSeqNum[Client] + 1 + snd[Client].NumberBytesSent
        BY <1>1 DEF QueueInv, DataUnacknowledged
      <4> QED BY <1>1, <4>1, NextNumberIs DEF NumbersInv
    <3>4. ~Newer(Client, packet)
      BY <1>2, <2>2, <3>2, <3>3
    <3>5. /\ packet \in PacketsOf(Server) /\ packet.SeqNum \in Nat
          /\ packet.SeqNum = InitSeqNum[Server] + Relative(Client, packet)
      BY <1>2, <1>5, <3>2, UpdateWindowIs
    <3>6. InitSeqNum[Server] \in Nat /\ SeqSpace \in Nat \ {0}
      BY <1>1, SenderNumbers DEF IInv
    <3>7. Relative(Client, packet) \in Nat
      <4>1. Peer(Client) = Server
        BY DEF Peer
      <4> QED BY <3>5, <3>6, <4>1 DEF Relative
    <3>8. Relative(Client, packet) < wl1
      BY <1>2, <3>1, <3>2, <3>4, <3>7 DEF Newer
    <3>9. packet.SeqNum < InitSeqNum[Server] + wl1
      BY <1>2, <3>5, <3>6, <3>7, <3>8
    <3>10. packet.AckNum <= wl2
      BY <3>5, <3>9 DEF WindowInv, WindowFrom
    <3> QED BY <1>2, <3>1, <3>2, <3>10
  <2> QED BY <2>1, <2>2
<1> QED BY <1>1, <1>3, <1>4, <1>5, WindowStep

LEMMA InitWindowInv == NumbersFit /\ Init => WindowInv
<1> SUFFICES ASSUME NumbersFit, Init PROVE WindowInv
  OBVIOUS
<1>1. Client \in Ends /\ Server \in Ends
  BY DEF Ends
<1>2. ASSUME NEW e \in Ends, NEW x \in PacketsOf(e)
      PROVE  x = NoPacket
  BY <1>2, PeerOfPeer DEF Init, PacketsOf, Outgoing, Incoming, Range
<1>3. NoPacket.SeqNum = 0 /\ NoPacket.AckNum = 0
  BY DEF NoPacket
<1>4. /\ InitSeqNum[Client] \in Nat /\ InitSeqNum[Server] \in Nat
      /\ SeqSpace \in Nat \ {0} /\ ToWrite[Client] \in Nat /\ ToWrite[Server] \in Nat
      /\ InitSeqNum[Client] + ToWrite[Client] + 2 < SeqSpace
      /\ InitSeqNum[Server] + ToWrite[Server] + 2 < SeqSpace
  BY <1>1, SizeAssumption, WorkloadAssumption DEF NumbersFit
<1>5. (InitSeqNum[Client] + 1) % SeqSpace = InitSeqNum[Client] + 1
  <2>1. InitSeqNum[Client] + 1 \in 0 .. SeqSpace - 1
    BY <1>4
  <2> QED BY ONLY <1>4, <2>1, ModSame
<1>6. (InitSeqNum[Server] + 1 + 0) % SeqSpace = InitSeqNum[Server] + 1
  <2>1. InitSeqNum[Server] + 1 + 0 = InitSeqNum[Server] + 1
    BY <1>4
  <2>2. InitSeqNum[Server] + 1 \in 0 .. SeqSpace - 1
    BY <1>4
  <2>3. (InitSeqNum[Server] + 1) % SeqSpace = InitSeqNum[Server] + 1
    BY ONLY <1>4, <2>2, ModSame
  <2> QED BY <2>1, <2>3
<1>7. /\ snd[Client].LargestAck = InitSeqNum[Client] + 1
      /\ snd[Client].LastSegmentSequenceNumber = 0
      /\ snd[Server].NumberBytesSent = 0
  BY <1>1, <1>5 DEF Init, InitialSender
<1>8. NextSequenceNumber(Server) = InitSeqNum[Server] + 1
  BY <1>6, <1>7 DEF NextSequenceNumber
<1>9. NumbersOnward
  BY <1>2, <1>3 DEF NumbersOnward
<1>10. WindowFrom
  <2>1. snd[Client].LastSegmentAckNumber \in Nat
    BY <1>1, SizeAssumption, InitIInv, SenderNumbers DEF IInv, SenderType, SeqNums
  <2>2. \A x \in PacketsOf(Server) : x.AckNum <= snd[Client].LastSegmentAckNumber
    BY <1>1, <1>2, <1>3, <2>1
  <2> QED BY <1>4, <1>7, <1>8, <2>2 DEF WindowFrom
<1>11. WindowKept
  BY <1>4, <1>7 DEF WindowKept
<1> QED BY <1>9, <1>10, <1>11 DEF WindowInv

LEMMA StepWindowInv ==
    ASSUME NumbersFit, IInv, ClosingInv, NumbersInv, QueueInv, StaysOpen, WindowInv,
           IInv', NumbersInv', [Next]_vars
    PROVE  WindowInv'
<1>1. CASE Next
  <2>1. NumbersOnward'
    BY <1>1, NumbersOnwardStep DEF WindowInv
  <2>2. WindowFrom'
    BY <1>1, <2>1, WindowFromStep
  <2>3. WindowKept'
    BY <1>1, WindowKeptStep
  <2> QED BY <2>1, <2>2, <2>3 DEF WindowInv
<1>2. CASE UNCHANGED vars
  <2>1. NumbersOnward' /\ WindowFrom'
    BY <1>2 DEF vars, WindowInv, NumbersOnward, WindowFrom, PacketsOf, Incoming,
                Outgoing, Peer, NextSequenceNumber
  <2>2. WindowKept'
    BY <1>2 DEF vars, WindowInv, WindowKept
  <2> QED BY <2>1, <2>2 DEF WindowInv
<1> QED BY <1>1, <1>2

\* SND.WL1, SND.WL2 and SND.UNA of the active end go together
\* (socket.go:43-138), whatever is lost, delayed or reordered.
THEOREM WindowAgrees ==
    ASSUME NumbersFit, NobodyCloses
    PROVE  Spec => []WindowInv
<1>1. Init => WindowInv
  BY InitWindowInv
<1>2. /\ IInv /\ ClosingInv /\ NumbersInv /\ QueueInv /\ StaysOpen /\ WindowInv
      /\ IInv' /\ NumbersInv' /\ [Next]_vars
      => WindowInv'
  BY StepWindowInv
<1>3. Spec => []NumbersInv
  BY FitIsShort, NumbersAgree
<1>4. Spec => []QueueInv
  BY QueueAgrees
<1>5. Spec => []StaysOpen
  BY OpenStays
<1> QED
  BY <1>1, <1>2, <1>3, <1>4, <1>5, InductiveInvariant, FinsAndStatesAgree, PTL DEF Spec

\* An acknowledgement that moves SND.UNA has updated the send window once
\* HandleTCPPacket is past that point (socket.go:124), if the passive end
\* sends no data: its window is compared with what types.go:175 makes of it.
THEOREM WindowIsFollowed ==
    ASSUME NumbersFit, NobodyCloses, ToWrite[Server] = 0
    PROVE  Spec => []WindowFollows
<1>1. IInv /\ NumbersInv /\ StaysOpen /\ WindowInv => WindowFollows
  <2> SUFFICES ASSUME IInv, NumbersInv, StaysOpen, WindowInv, NEW e \in Ends,
                      handler[e].pc \notin {"purge", "window", "done"},
                      snd[e].LargestAck > InitSeqNum[e] + 1
               PROVE  snd[e].LastSegmentAckNumber >= snd[e].LargestAck
    BY DEF WindowFollows
  <2>1. /\ snd[e].LargestAck \in Nat /\ snd[e].LastSegmentAckNumber \in Nat
        /\ InitSeqNum[e] \in Nat
    BY SenderNumbers, SizeAssumption DEF IInv, SenderType, SeqNums
  <2>2. CASE e = Client
    BY <2>1, <2>2 DEF WindowInv, WindowKept
  <2>3. CASE e = Server
    <3>1. snd[e].LargestAck <= InitSeqNum[e] + rcv[Peer(e)].NextExpectedByte
      <4>1. ~FinSent(e)
        BY DEF StaysOpen, FinSent
      <4>2. rcv[Peer(e)].NextExpectedByte \in Nat
        BY PeerType, SenderNumbers DEF IInv
      <4> QED BY <2>1, <4>1, <4>2 DEF NumbersInv, AcksReceived, AckBound
    <3>2. rcv[Peer(e)].NextExpectedByte <= 1 + writer[e].written
      BY DEF NumbersInv, DataNumbered, DataBefore
    <3>3. writer[e].written = 0
      BY <2>3, InHandType DEF IInv, WrittenInRange
    <3>4. rcv[Peer(e)].NextExpectedByte \in Nat
      BY PeerType, SenderNumbers DEF IInv
    <3> QED BY <2>1, <3>1, <3>2, <3>3, <3>4
  <2> QED BY <2>2, <2>3 DEF Ends
<1>2. Spec => []NumbersInv
  BY FitIsShort, NumbersAgree
<1>3. Spec => []StaysOpen
  BY OpenStays
<1> QED BY <1>1, <1>2, <1>3, WindowAgrees, InductiveInvariant, PTL

------------------------------------------------------------------------------
(* No byte is lost *)

\* An acknowledgement, taken or still under way, that says more than the peer
\* has received in order is the answer to a FIN behind the last byte.
AckBeyond(e) ==
    LET all == InitSeqNum[e] + rcv[Peer(e)].NextExpectedByte IN
    \/ snd[e].LargestAck > all
    \/ \E packet \in PacketsOf(Peer(e)) : packet.AckNum > all

\* The FIN has the number behind all bytes that were taken from WriteBuffer.
FinBehind(e) == FinPosition(e) = 1 + writer[e].written - Buffered(e)

FinsBehind == \A e \in Ends : FinAbout(e) => FinBehind(e)

FinTaken(e) ==
    /\ FinSent(e)
    /\ rcv[Peer(e)].NextExpectedByte = FinPosition(e)
    /\ DataBefore(e, FinPosition(e))
    /\ FinBehind(e)

AcksOfFins == \A e \in Ends : AckBeyond(e) => FinTaken(e)

\* What is received in order does not become less.
LEMMA NextExpectedGrows ==
    ASSUME IInv, ShortStreams, DataNumbered, Next, NEW e \in Ends
    PROVE  /\ rcv[Peer(e)].NextExpectedByte \in Nat
           /\ rcv'[Peer(e)].NextExpectedByte \in Nat
           /\ rcv[Peer(e)].NextExpectedByte <= rcv'[Peer(e)].NextExpectedByte
<1> DEFINE next == rcv[Peer(e)].NextExpectedByte
<1>1. next \in Nat
  BY PeerType, SenderNumbers DEF IInv
<1>2. CASE next' = next
  BY <1>1, <1>2
<1>3. CASE next' # next
  <2>1. PICK packet \in PacketsOf(e) : next' = next + Len(packet.Data)
    BY <1>3, NextExpectedMoves
  <2>2. Len(packet.Data) \in Nat
    BY PacketsAre DEF IInv
  <2> QED BY <1>1, <2>1, <2>2
<1> QED BY <1>2, <1>3

\* A FIN that was sent stays there: HandleVWrite takes no more bytes.
LEMMA FinBehindStays ==
    ASSUME IInv, ShortStreams, NumbersWritten, Next, NEW e \in Ends,
           FinSent(e), FinBehind(e)
    PROVE  FinBehind(e)'
<1>1. FinPosition(e)' = FinPosition(e)
  BY FinSentStaysPut
<1>2. /\ writer[e].written \in Nat /\ Buffered(e) \in Nat
      /\ writer \in [Ends -> WriterType]
  BY InHandType DEF IInv, TypeOK
<1> DEFINE more == \E n \in Nat : /\ Buffered(e)' = Buffered(e) + n
                                   /\ writer'[e].written = writer[e].written + n
<1>3. VWrite(e) => more
  BY VWriteHandsOver DEF IInv, Buffered
<1>4. Buffered(e)' = Buffered(e) /\ writer'[e].written = writer[e].written => more
  BY <1>2
<1>5. ASSUME HandleVWrite(e) PROVE more
  <2>1. WriteBuffer' = WriteBuffer /\ writer' = writer
    BY <1>5
    DEF FinSent, HandleVWrite, FindNothingToWrite, SleepHandleVWrite, FindDataToWrite,
        TakePayload, SendSegment, FailSegment, AdvanceSequence, EnterZWP, ArmZWP,
        SendProbe, StopProbing, LeaveZWP, SendFin, FailFin, CountFin, QueueFin
  <2> QED BY <1>4, <2>1 DEF Buffered
<1>6. SendingState(e)' = SendingState(e) => more
  BY <1>4 DEF SendingState, Buffered
<1>7. more
  BY <1>3, <1>5, <1>6, SendingStep DEF IInv
<1>8. PICK n \in Nat : /\ Buffered(e)' = Buffered(e) + n
                        /\ writer'[e].written = writer[e].written + n
  BY <1>7
<1>9. FinPosition(e) = 1 + writer[e].written - Buffered(e)
  BY DEF FinBehind
<1>10. FinPosition(e)' = 1 + writer'[e].written - Buffered(e)'
  BY <1>1, <1>2, <1>8, <1>9
<1> QED BY <1>10 DEF FinBehind

LEMMA FinsBehindStep ==
    ASSUME IInv, ClosingInv, ShortStreams, NumbersWritten, SenderInStream,
           FinsBehind, Next
    PROVE  FinsBehind'
<1> SUFFICES ASSUME NEW e \in Ends, FinAbout(e)'
             PROVE  FinBehind(e)'
  BY DEF FinsBehind
<1>1. CASE FinAbout(e)
  BY <1>1, FinPositionStays, FinBehindStays DEF FinsBehind
<1>2. CASE SendFin(e)
  <2>1. /\ vwrite \in [Ends -> VWriteType] /\ snd[e].NumberBytesSent \in Nat
        /\ Buffered(e) \in Nat /\ writer[e].written \in Nat
    BY InHandType DEF IInv, TypeOK
  <2>2. /\ vwrite[e].pc = "fin" /\ vwrite'[e].pc = "finSeq"
        /\ snd' = snd /\ WriteBuffer' = WriteBuffer /\ writer' = writer
    BY <1>2, <2>1 DEF SendFin, VWriteType
  <2>3. vwrite[e].payload = <<>> /\ InHand(e) = writer[e].written
    BY <2>2 DEF SenderInStream
  <2>4. snd[e].NumberBytesSent + Buffered(e) = writer[e].written
    BY <2>1, <2>3 DEF InHand, Unsent
  <2>5. /\ FinPosition(e)' = snd[e].NumberBytesSent + 1
        /\ Buffered(e)' = Buffered(e)
    BY <2>2 DEF FinPosition, Buffered
  <2>6. snd[e].NumberBytesSent + 1 = 1 + writer[e].written - Buffered(e)
    <3> HIDE DEF Buffered
    <3> QED BY <2>1, <2>4
  <2> QED BY <2>2, <2>5, <2>6 DEF FinBehind
<1> QED BY <1>1, <1>2, FinAboutStep

\* A FIN that has been taken remains the last.
LEMMA FinTakenStays ==
    ASSUME IInv, ShortStreams, NumbersInv, Next, NEW e \in Ends, FinTaken(e)
    PROVE  FinTaken(e)'
<1> DEFINE place == FinPosition(e)
           next == rcv[Peer(e)].NextExpectedByte
<1>0. NumbersWritten /\ DataNumbered /\ FinSent(e) /\ next = place /\ DataBefore(e, place)
  BY DEF NumbersInv, FinTaken
<1>1. place' = place /\ \A packet : Makes(e, packet) => packet.Data = <<>>
  BY <1>0, FinSentStaysPut
<1>2. FinSent(e)'
  BY <1>0, FinSentStays DEF IInv
<1>3. next \in Nat /\ next' \in Nat /\ next <= next'
  BY <1>0, NextExpectedGrows
<1>4. place \in Nat
  BY <1>0, <1>3
<1>5. /\ \A packet \in PacketsOf(e)' : packet.Data # <<>> =>
           Position(e, packet) + Len(packet.Data) <= place
      /\ next' <= place
  <2> HIDE DEF place
  <2> QED BY <1>0, <1>1, <1>4, DataStaysBefore
<1>6. next' = place'
  <2> HIDE DEF place, next
  <2> QED BY <1>0, <1>1, <1>3, <1>4, <1>5
<1>7. DataBefore(e, place)'
  BY <1>1, <1>5 DEF DataBefore, Position, Peer
<1>8. FinBehind(e)'
  BY <1>0, FinBehindStays DEF FinTaken
<1> QED BY <1>2, <1>6, <1>7, <1>8 DEF FinTaken

\* Only the answer to a FIN acknowledges more than has been received in order.
LEMMA AckMadeOfFin ==
    ASSUME IInv, ClosingInv, ShortStreams, NumbersInv, FinsBehind, NEW e \in Ends,
           NEW packet, Makes(Peer(e), packet)
    PROVE  /\ packet.AckNum \in Nat
           /\ \/ packet.AckNum <= InitSeqNum[e] + rcv[Peer(e)].NextExpectedByte
              \/ FinTaken(e)
<1> DEFINE p == Peer(e)
           next == rcv[p].NextExpectedByte
<1>1. /\ p \in Ends /\ Peer(p) = e
      /\ next \in Nat /\ InitSeqNum[e] \in Nat /\ SeqSpace \in Nat \ {0}
  BY PeerOfPeer, SenderNumbers DEF IInv
<1>2. ASSUME NEW extra \in 0 .. 1
      PROVE  (next + InitSeqNum[e] + extra) % SeqSpace \in Nat
  <2>1. next + InitSeqNum[e] + extra \in Int
    BY <1>1
  <2>2. (next + InitSeqNum[e] + extra) % SeqSpace \in SeqNums
    BY <2>1, SeqNumRange
  <2> QED BY <2>2, SizeAssumption DEF SeqNums
<1>3. CASE \E i \in Nat : ReceiveNextFin(p, i) /\ packet = Segment(p, "ACK", <<>>, 1)
  <2>1. PICK i \in Nat : ReceiveNextFin(p, i)
    BY <1>3
  <2>2. net[p] \in Seq(Packet)
    BY <1>1 DEF IInv, TypeOK
  <2>3. /\ i \in 1 .. Len(net[p]) /\ net[p][i].Flags = "FIN" /\ InOrder(p, net[p][i])
    BY <2>1 DEF ReceiveNextFin, Overtaken
  <2>4. net[p][i] \in PacketsOf(e)
    BY <2>2, <2>3 DEF PacketsOf, Incoming, Range
  <2>5. Position(e, net[p][i]) = next
    BY <1>1, <2>3 DEF InOrder, Relative, Position
  <2>6. next = FinPosition(e) /\ FinAbout(e) /\ DataBefore(e, FinPosition(e))
    BY <2>3, <2>4, <2>5 DEF NumbersInv, FinsNumbered, DataNumbered, FinAbout
  <2>7. FinSent(e)
    BY <1>1, <2>1, FinOfWhom DEF ReceiveNextFin, IInv, ClosingInv
  <2>8. FinTaken(e)
    BY <2>6, <2>7 DEF FinTaken, FinsBehind
  <2>9. packet.AckNum = (next + InitSeqNum[e] + 1) % SeqSpace
    BY <1>1, <1>3 DEF Segment
  <2> QED BY <1>2, <2>8, <2>9
<1>4. CASE \E flags, data : packet = Segment(p, flags, data, 0)
  <2>1. packet.AckNum = (next + InitSeqNum[e] + 0) % SeqSpace
    BY <1>1, <1>4 DEF Segment
  <2>2. next + InitSeqNum[e] + 0 \in Nat /\ next + InitSeqNum[e] + 0 = InitSeqNum[e] + next
    BY <1>1
  <2>3. packet.AckNum <= InitSeqNum[e] + next
    BY <1>1, <2>1, <2>2, ModLess
  <2> QED BY <1>2, <2>1, <2>3
<1> QED BY <1>3, <1>4 DEF Makes

LEMMA AcksOfFinsStep ==
    ASSUME IInv, ClosingInv, ShortStreams, NumbersInv, FinsBehind, AcksOfFins, Next
    PROVE  AcksOfFins'
<1> SUFFICES ASSUME NEW e \in Ends, AckBeyond(e)'
             PROVE  FinTaken(e)'
  BY DEF AcksOfFins
<1> DEFINE p == Peer(e)
           next == rcv[p].NextExpectedByte
           isn == InitSeqNum[e]
<1>0. DataNumbered
  BY DEF NumbersInv
<1>1. p \in Ends /\ isn \in Nat
  BY PeerType, SenderNumbers DEF IInv
<1>2. next \in Nat /\ next' \in Nat /\ next <= next'
  BY <1>0, NextExpectedGrows
<1>3. ASSUME NEW packet \in PacketsOf(p)', packet.AckNum > isn + next'
      PROVE  FinTaken(e)
  <2>1. CASE packet \in PacketsOf(p)
    <3>1. packet.AckNum \in Nat
      <4>1. packet \in Packet
        BY <1>1, <2>1, PacketsAre DEF IInv
      <4> QED BY <4>1, SizeAssumption DEF Packet, SeqNums
    <3>2. packet.AckNum > isn + next
      <4> HIDE DEF isn, next
      <4> QED BY <1>1, <1>2, <1>3, <3>1
    <3> QED BY <2>1, <3>2 DEF AcksOfFins, AckBeyond
  <2>2. CASE packet = NoPacket
    BY <1>1, <1>2, <1>3, <2>2 DEF NoPacket
  <2>3. CASE Makes(p, packet)
    <3>1. packet.AckNum \in Nat /\ (packet.AckNum <= isn + next \/ FinTaken(e))
      BY <2>3, AckMadeOfFin
    <3> HIDE DEF isn, next
    <3> QED BY <1>1, <1>2, <1>3, <3>1
  <2> QED BY <1>1, <2>1, <2>2, <2>3, PacketsStep DEF IInv
<1>4. ASSUME snd'[e].LargestAck > isn + next'
      PROVE  FinTaken(e)
  <2>1. snd[e].LargestAck \in Nat
    BY SenderNumbers DEF IInv
  <2>2. CASE snd'[e].LargestAck = snd[e].LargestAck
    <3>1. snd[e].LargestAck > isn + next
      <4> HIDE DEF isn, next
      <4> QED BY <1>1, <1>2, <1>4, <2>1, <2>2
    <3> QED BY <3>1 DEF AcksOfFins, AckBeyond
  <2>3. CASE snd'[e].LargestAck # snd[e].LargestAck
    <3>1. PICK packet \in PacketsOf(p) : snd'[e].LargestAck = packet.AckNum
      BY <2>3, LargestAckMoves DEF IInv
    <3>2. packet.AckNum \in Nat
      <4>1. packet \in Packet
        BY <1>1, PacketsAre DEF IInv
      <4> QED BY <4>1, SizeAssumption DEF Packet, SeqNums
    <3>3. packet.AckNum > isn + next
      <4> HIDE DEF isn, next
      <4> QED BY <1>1, <1>2, <1>4, <3>1, <3>2
    <3> QED BY <3>3 DEF AcksOfFins, AckBeyond
  <2> QED BY <2>2, <2>3
<1>5. FinTaken(e)
  BY <1>3, <1>4 DEF AckBeyond, Peer
<1> QED BY <1>5, FinTakenStays

------------------------------------------------------------------------------

\* Probing takes its byte through the window that RTQueue is not told of
\* (socket.go:384); what follows is about the steps that do not begin it.
NeverProbes == \A e \in Ends : ~EnterZWP(e)

NoProbe == \A e \in Ends : vwrite[e].pc \notin {"zwpArm", "probing", "zwpExit"}

\* A byte of the stream that end e holds,
AtHand(e, b) ==
    Holds(WriteBuffer[e], b) \/ Holds(vwrite[e].payload, b) \/ Queued(e, b)

\* and one whose acknowledgement it has not seen.
Unacknowledged(e, b) == snd[e].LargestAck <= InitSeqNum[e] + b

\* Such bytes are held; the segment that was sent and is not counted yet is in
\* RTQueue as well.
Kept ==
    \A e \in Ends : \A b \in Nat :
        Unacknowledged(e, b) =>
            /\ b \in 1 .. writer[e].written => AtHand(e, b)
            /\ vwrite[e].pc = "advance" /\ Holds(First(vwrite[e].payload, SegmentSize(e)), b)
                 => Queued(e, b)

\* Byte 1 is the first that the peer expects.
Begun == \A e \in Ends : rcv[Peer(e)].NextExpectedByte >= 1

LossInv == FinsBehind /\ AcksOfFins /\ NoProbe /\ Kept /\ Begun

\* A byte of a sequence is in its first or in its second part.
LEMMA HoldsCut ==
    ASSUME NEW s \in Seq(Byte), NEW k \in 0 .. Len(s), NEW b, Holds(s, b)
    PROVE  Holds(First(s, k), b) \/ Holds(After(s, k), b)
<1>1. PICK i \in DOMAIN s : s[i] = b
  BY DEF Holds
<1>2. i \in 1 .. Len(s) /\ Len(s) \in Nat
  OBVIOUS
<1>3. CASE i <= k
  <2>1. /\ DOMAIN First(s, k) = 1 .. k
        /\ \A j \in 1 .. k : First(s, k)[j] = s[j]
    BY DEF First
  <2>2. i \in 1 .. k
    BY <1>2, <1>3
  <2> QED BY <1>1, <2>1, <2>2 DEF Holds
<1>4. CASE i > k
  <2>1. /\ DOMAIN After(s, k) = 1 .. Len(s) - k
        /\ \A j \in 1 .. Len(s) - k : After(s, k)[j] = s[k + j]
    BY DEF After
  <2>2. i - k \in 1 .. Len(s) - k /\ k + (i - k) = i
    BY <1>2, <1>4
  <2> QED BY <1>1, <2>1, <2>2 DEF Holds
<1> QED BY <1>2, <1>3, <1>4

\* It is in what it is joined to, and what joins it is there as well.
LEMMA HoldsConcat ==
    ASSUME NEW s \in Seq(Byte), NEW t \in Seq(Byte), NEW b, Holds(s, b) \/ Holds(t, b)
    PROVE  Holds(s \o t, b)
<1>1. /\ Len(s) \in Nat /\ Len(t) \in Nat
      /\ DOMAIN s = 1 .. Len(s) /\ DOMAIN t = 1 .. Len(t)
      /\ DOMAIN (s \o t) = 1 .. Len(s) + Len(t)
      /\ \A i \in 1 .. Len(s) + Len(t) :
           (s \o t)[i] = IF i <= Len(s) THEN s[i] ELSE t[i - Len(s)]
  BY ConcatProperties
<1>2. CASE Holds(s, b)
  <2>1. PICK i \in 1 .. Len(s) : s[i] = b
    BY <1>1, <1>2 DEF Holds
  <2>2. i \in 1 .. Len(s) + Len(t) /\ i <= Len(s)
    BY <1>1
  <2> QED BY <1>1, <2>1, <2>2 DEF Holds
<1>3. CASE Holds(t, b)
  <2>1. PICK i \in 1 .. Len(t) : t[i] = b
    BY <1>1, <1>3 DEF Holds
  <2> DEFINE j == Len(s) + i
  <2>2. j \in 1 .. Len(s) + Len(t) /\ ~(j <= Len(s)) /\ j - Len(s) = i
    BY <1>1
  <2> HIDE DEF j
  <2> QED BY <1>1, <2>1, <2>2 DEF Holds
<1> QED BY <1>2, <1>3

\* The place of data is its sequence number, as a plain difference.
LEMMA PositionIs ==
    ASSUME IInv, NumbersFit, DataNumbered, NEW e \in Ends,
           NEW packet \in PacketsOf(e), packet.Data # <<>>
    PROVE  Position(e, packet) = packet.SeqNum - InitSeqNum[e]
<1> DEFINE isn == InitSeqNum[e]
           n == packet.SeqNum
<1>1. /\ packet.Data \in Seq(Byte) /\ Len(packet.Data) \in Nat
      /\ n \in 0 .. SeqSpace - 1 /\ isn \in 0 .. SeqSpace - 1 /\ SeqSpace \in Nat \ {0}
      /\ Position(e, packet) \in 0 .. SeqSpace - 1
      /\ Position(e, packet) = (n - isn) % SeqSpace
  <2>1. packet \in Packet
    BY PacketsAre DEF IInv
  <2> QED BY <2>1, PacketsAre, SizeAssumption DEF IInv, Packet, SeqNums, Position
<1>2. /\ Position(e, packet) + Len(packet.Data) <= 1 + writer[e].written
      /\ writer[e].written \in Nat /\ writer[e].written <= ToWrite[e]
      /\ ToWrite[e] \in Nat /\ isn + ToWrite[e] + 2 < SeqSpace
  BY WorkloadAssumption, InHandType
  DEF DataNumbered, DataBefore, IInv, WrittenInRange, NumbersFit
<1> HIDE DEF n, isn
<1>3. CASE n >= isn
  <2>1. n - isn \in 0 .. SeqSpace - 1
    BY <1>1, <1>3
  <2>2. (n - isn) % SeqSpace = n - isn
    BY <1>1, <2>1, ModSame
  <2> QED BY <1>1, <2>2 DEF n, isn
<1>4. CASE n < isn
  <2> DEFINE far == n - isn + SeqSpace
  <2>1. far \in 0 .. SeqSpace - 1 /\ n - isn = far - SeqSpace
    BY <1>1, <1>4
  <2>2. (far - SeqSpace) % SeqSpace = far
    <3> HIDE DEF far
    <3> QED BY <1>1, <2>1, ModSame
  <2>3. Position(e, packet) = far
    BY <1>1, <2>1, <2>2
  <2> QED BY <1>1, <1>2, <1>4, <2>3, SMTT(30)
<1> QED BY <1>1, <1>3, <1>4

\* What leaves RTQueue is acknowledged.
LEMMA QueuedStays ==
    ASSUME IInv, NumbersFit, NumbersInv, PacketsInStream, Next, NEW e \in Ends,
           NEW b \in Nat, Queued(e, b), Unacknowledged(e, b)
    PROVE  Queued(e, b)'
<1> DEFINE queue == rtq[e].RTQueue
<1>1. queue \in Seq(Packet) /\ Len(queue) \in Nat /\ DOMAIN queue = 1 .. Len(queue)
  BY QueueIs DEF IInv
<1>2. PICK i \in DOMAIN queue : Holds(queue[i].Data, b)
  BY DEF Queued
<1> SUFFICES \E j \in DOMAIN queue' : queue'[j] = queue[i]
  BY <1>2 DEF Queued, Holds
<1>3. CASE queue' = queue
  BY <1>3
<1>4. ASSUME NEW item, queue' = Append(queue, item)
      PROVE  \E j \in DOMAIN queue' : queue'[j] = queue[i]
  <2>1. /\ DOMAIN queue' = 1 .. Len(queue) + 1
        /\ \A j \in DOMAIN queue : queue'[j] = queue[j]
    BY <1>1, <1>4, InAppended
  <2> HIDE DEF queue
  <2>2. i \in 1 .. Len(queue) + 1
    BY <1>1
  <2> QED BY <2>1, <2>2
<1>5. CASE PurgeSegment(e) /\ queue' = Tail(queue)
  <2>1. queue # <<>> /\ Acknowledged(e, Head(queue))
    BY <1>5 DEF PurgeSegment
  <2>2. /\ Len(queue) \in Nat \ {0} /\ DOMAIN queue' = 1 .. Len(queue) - 1
        /\ \A j \in DOMAIN queue' : queue'[j] = queue[j + 1]
        /\ Head(queue) = queue[1]
    BY <1>1, <1>5, <2>1, InTail
  <2>3. i # 1
    <3> SUFFICES ASSUME i = 1 PROVE FALSE
      OBVIOUS
    <3> DEFINE item == queue[1]
    <3>1. item \in PacketsOf(e)
      BY <1>1, <1>2 DEF PacketsOf, Outgoing, Range
    <3>2. PICK k \in DOMAIN item.Data : item.Data[k] = b
      BY <1>2 DEF Holds
    <3>3. /\ item.Data \in Seq(Byte) /\ Len(item.Data) \in Nat /\ item.SeqNum \in Nat
          /\ k \in 1 .. Len(item.Data) /\ item.Data # <<>>
      <4>1. item \in Packet /\ item.Data \in Seq(Byte)
        BY <3>1, PacketsAre DEF IInv
      <4>2. DOMAIN item.Data = 1 .. Len(item.Data)
        BY <4>1
      <4> QED BY <3>2, <4>1, <4>2, SizeAssumption DEF Packet, SeqNums
    <3>4. Position(e, item) = item.SeqNum - InitSeqNum[e]
      BY <3>1, <3>3, PositionIs DEF NumbersInv
    <3>5. item.Data[k] = Position(e, item) - 1 + k
      BY <3>1, <3>3 DEF PacketsInStream, InStream
    <3>6. /\ item.SeqNum + Len(item.Data) <= snd[e].LargestAck
          /\ snd[e].LargestAck <= InitSeqNum[e] + b
      BY <2>1, <2>2 DEF Acknowledged, Unacknowledged
    <3>7. snd[e].LargestAck \in Nat /\ InitSeqNum[e] \in Nat
      BY SenderNumbers DEF IInv
    <3> HIDE DEF item, queue
    <3> QED BY <3>2, <3>3, <3>4, <3>5, <3>6, <3>7
  <2> HIDE DEF queue
  <2>4. i - 1 \in 1 .. Len(queue) - 1 /\ (i - 1) + 1 = i
    BY <1>1, <2>3
  <2> QED BY <2>2, <2>4
<1> QED BY <1>3, <1>4, <1>5, QueueStep DEF IInv

\* What is unacknowledged after a step was so before it.
LEMMA UnaGrows ==
    ASSUME IInv, IInv', Next, NEW e \in Ends, NEW b \in Nat, Unacknowledged(e, b)'
    PROVE  Unacknowledged(e, b)
<1>1. snd[e].LargestAck \in Nat /\ InitSeqNum[e] \in Nat
  BY SenderNumbers DEF IInv
<1>2. snd'[e].LargestAck \in Int
  <2>1. snd' \in [Ends -> SenderType]
    BY DEF IInv, TypeOK
  <2> QED BY <2>1, SizeAssumption DEF SenderType, SeqNums
<1>3. snd'[e].LargestAck <= InitSeqNum[e] + b
  BY DEF Unacknowledged
<1>4. snd[e].LargestAck <= snd'[e].LargestAck
  BY <1>1, <1>2, AckStep DEF IInv
<1> QED BY <1>1, <1>2, <1>3, <1>4 DEF Unacknowledged

LEMMA NoProbeStep ==
    ASSUME IInv, NoProbe, Next, NeverProbes
    PROVE  NoProbe'
<1> SUFFICES ASSUME NEW e \in Ends
             PROVE  vwrite'[e].pc \notin {"zwpArm", "probing", "zwpExit"}
  BY DEF NoProbe
<1>1. vwrite \in [Ends -> VWriteType]
  BY DEF IInv, TypeOK
<1>2. vwrite[e].pc \notin {"zwpArm", "probing", "zwpExit"} /\ ~EnterZWP(e)
  BY DEF NoProbe, NeverProbes
<1>3. CASE HandleVWrite(e)
  BY <1>1, <1>2, <1>3
  DEF HandleVWrite, FindNothingToWrite, SleepHandleVWrite, FindDataToWrite,
      TakePayload, SendSegment, FailSegment, AdvanceSequence, ArmZWP, SendProbe,
      StopProbing, LeaveZWP, SendFin, FailFin, CountFin, QueueFin, VWriteType
<1>4. CASE VWrite(e)
  BY <1>2, <1>4, VWriteHandsOver DEF IInv
<1> QED BY <1>2, <1>3, <1>4, SendingStep DEF IInv

\* A byte goes from VWrite to WriteBuffer, to the payload, to RTQueue, and
\* leaves each of them only for the next.
LEMMA KeptStep ==
    ASSUME IInv, IInv', NumbersFit, NumbersInv, PacketsInStream, SenderInStream,
           NoProbe, Kept, Next, NeverFails, NeverProbes
    PROVE  Kept'
<1> SUFFICES ASSUME NEW e \in Ends, NEW b \in Nat, Unacknowledged(e, b)'
             PROVE  /\ b \in 1 .. writer'[e].written => AtHand(e, b)'
                    /\ vwrite'[e].pc = "advance"
                         /\ Holds(First(vwrite'[e].payload, SegmentSize(e)'), b)
                         => Queued(e, b)'
  BY DEF Kept
<1> DEFINE buffer == WriteBuffer[e]
           payload == vwrite[e].payload
           written == writer[e].written
           size == SegmentSize(e)
           advanced == vwrite[e].pc = "advance" /\ Holds(First(payload, size), b)
           goal == /\ b \in 1 .. written' => AtHand(e, b)'
                   /\ advanced' => Queued(e, b)'
<1> SUFFICES goal
  BY DEF SegmentSize
<1>1. /\ vwrite \in [Ends -> VWriteType] /\ WriteBuffer \in [Ends -> Buffer]
      /\ writer \in [Ends -> WriterType]
      /\ payload \in Seq(Byte) /\ buffer \in Seq(Byte)
      /\ size \in 0 .. Len(payload) /\ written \in Nat
      /\ Len(buffer) \in Nat
  BY PayloadSizes, InHandType DEF IInv, TypeOK
<1>2. Unacknowledged(e, b)
  BY UnaGrows
<1>3. (b \in 1 .. written => AtHand(e, b)) /\ (advanced => Queued(e, b))
  BY <1>2 DEF Kept
<1>4. Queued(e, b) => Queued(e, b)'
  BY <1>2, QueuedStays
<1>5. vwrite[e].pc \notin {"segment", "advance"} => payload = <<>>
  BY DEF SenderInStream, NoProbe
<1>at. /\ AtHand(e, b) <=> Holds(buffer, b) \/ Holds(payload, b) \/ Queued(e, b)
       /\ AtHand(e, b)' <=> Holds(buffer', b) \/ Holds(payload', b) \/ Queued(e, b)'
  BY DEF AtHand, Holds
<1> HIDE DEF goal
<1>6. ASSUME buffer' = buffer, payload' = payload, written' = written,
             vwrite'[e].pc = vwrite[e].pc \/ vwrite'[e].pc # "advance"
      PROVE  goal
  <2>1. advanced' => advanced
    BY <1>6 DEF SegmentSize
  <2> HIDE DEF buffer, payload, written, advanced
  <2> QED BY <1>3, <1>4, <1>at, <1>6, <2>1 DEF goal
<1>7. CASE VWrite(e)
  <2>1. PICK more \in Nat :
          /\ buffer' = buffer \o [i \in 1 .. more |-> written + i]
          /\ written' = written + more
          /\ payload' = payload
          /\ \/ vwrite'[e].pc = vwrite[e].pc
             \/ vwrite[e].pc = "waiting" /\ vwrite'[e].pc = "lock"
    BY <1>7, VWriteHandsOver DEF IInv
  <2> DEFINE new == [i \in 1 .. more |-> written + i]
  <2>2. new \in Seq(Byte)
    BY <1>1 DEF Byte
  <2>3. advanced' => advanced
    BY <2>1 DEF SegmentSize
  <2>4. ASSUME b \in 1 .. written'
        PROVE  AtHand(e, b)'
    <3>1. CASE b \in 1 .. written
      <4>1. Holds(buffer, b) => Holds(buffer', b)
        <5> HIDE DEF new, buffer
        <5> QED BY <1>1, <2>1, <2>2, HoldsConcat DEF new
      <4> HIDE DEF buffer, payload, written
      <4> QED BY <1>3, <1>4, <1>at, <2>1, <3>1, <4>1
    <3>2. CASE b \notin 1 .. written
      <4>1. b - written \in 1 .. more /\ written + (b - written) = b
        BY <1>1, <2>1, <2>4, <3>2
      <4>2. Holds(new, b)
        <5>1. DOMAIN new = 1 .. more /\ \A i \in 1 .. more : new[i] = written + i
          OBVIOUS
        <5> HIDE DEF new, written
        <5> QED BY <4>1, <5>1 DEF Holds
      <4>3. Holds(buffer', b)
        <5> HIDE DEF new, buffer
        <5> QED BY <1>1, <2>1, <2>2, <4>2, HoldsConcat DEF new
      <4> QED BY <1>at, <4>3
    <3> QED BY <3>1, <3>2
  <2> HIDE DEF advanced
  <2> QED BY <1>3, <1>4, <2>3, <2>4 DEF goal
<1>8. CASE HandleVWrite(e)
  <2>1. written' = written
    BY <1>1, <1>8, SMTT(30)
    DEF HandleVWrite, FindNothingToWrite, SleepHandleVWrite, FindDataToWrite,
        TakePayload, SendSegment, FailSegment, AdvanceSequence, EnterZWP, ArmZWP,
        SendProbe, StopProbing, LeaveZWP, SendFin, FailFin, CountFin, QueueFin,
        WokenWriter, WriterType
  <2>2. CASE TakePayload(e)
    <3> DEFINE take == Smaller(snd[e].RemoteWindowSize, Len(buffer))
    <3>1. /\ payload' = First(buffer, take) /\ buffer' = After(buffer, take)
          /\ vwrite'[e].pc # "advance" /\ vwrite[e].pc = "size"
      BY <1>1, <2>2 DEF TakePayload, VWriteType
    <3>2. take \in 0 .. Len(buffer)
      <4>1. snd[e].RemoteWindowSize \in Nat
        BY SenderNumbers, SizeAssumption DEF IInv, SenderType, Windows
      <4> QED BY <1>1, <4>1 DEF Smaller
    <3>3. ~Holds(payload, b)
      BY <1>5, <3>1 DEF Holds
    <3>4. Holds(buffer, b) => Holds(payload', b) \/ Holds(buffer', b)
      <4> HIDE DEF buffer, take, payload
      <4> QED BY <1>1, <3>1, <3>2, HoldsCut
    <3> HIDE DEF buffer, payload, written
    <3> QED BY <1>3, <1>4, <1>at, <2>1, <3>1, <3>3, <3>4 DEF goal
  <2>3. CASE SendSegment(e)
    <3>1. /\ vwrite[e].pc = "segment" /\ vwrite'[e].pc = "advance"
          /\ payload' = payload /\ buffer' = buffer /\ size' = size
      BY <1>1, <2>3 DEF SendSegment, VWriteType, SegmentSize
    <3>2. Holds(First(payload, size), b) => Queued(e, b)'
      <4> DEFINE segment == Segment(e, "ACK", First(payload, size), 0)
                 queue == rtq[e].RTQueue
      <4>1. queue' = Append(queue, segment) /\ segment.Data = First(payload, size)
        <5>1. rtq \in [Ends -> RTQueueType]
          BY DEF IInv, TypeOK
        <5> QED BY <2>3, <5>1 DEF SendSegment, Enqueued, RTQueueType, Segment
      <4>2. queue \in Seq(Packet)
        BY QueueIs DEF IInv
      <4>3. DOMAIN queue' = 1 .. Len(queue) + 1 /\ queue'[Len(queue) + 1] = segment
            /\ Len(queue) \in Nat
        <5> HIDE DEF queue, segment
        <5> QED BY <4>1, <4>2, InAppended
      <4>4. Len(queue) + 1 \in DOMAIN queue'
        <5> HIDE DEF queue
        <5> QED BY <4>3
      <4> HIDE DEF segment
      <4> QED BY <4>1, <4>3, <4>4 DEF Queued, Holds
    <3> HIDE DEF buffer, payload, written, size
    <3> QED BY <1>3, <1>4, <1>at, <2>1, <3>1, <3>2 DEF goal
  <2>4. CASE AdvanceSequence(e)
    <3>1. /\ vwrite[e].pc = "advance" /\ vwrite'[e].pc # "advance"
          /\ payload' = After(payload, size) /\ buffer' = buffer
      BY <1>1, <2>4 DEF AdvanceSequence, VWriteType
    <3>2. Holds(payload, b) => Holds(First(payload, size), b) \/ Holds(payload', b)
      <4> HIDE DEF payload, size
      <4> QED BY <1>1, <3>1, HoldsCut
    <3> HIDE DEF buffer, payload, written, size
    <3> QED BY <1>3, <1>4, <1>at, <2>1, <3>1, <3>2 DEF goal
  <2>5. CASE /\ buffer' = buffer /\ payload' = payload
             /\ vwrite'[e].pc # "advance"
    BY <1>6, <2>1, <2>5
  <2>6. ~FailSegment(e) /\ ~EnterZWP(e) /\ vwrite[e].pc \notin {"zwpArm", "probing", "zwpExit"}
    BY DEF NeverFails, NeverProbes, NoProbe
  <2>7. CASE FindNothingToWrite(e) \/ SleepHandleVWrite(e) \/ FindDataToWrite(e)
             \/ SendFin(e) \/ FailFin(e) \/ CountFin(e) \/ QueueFin(e)
    <3>1. /\ buffer' = buffer /\ payload' = payload /\ vwrite'[e].pc # "advance"
      BY <1>1, <2>7
      DEF FindNothingToWrite, SleepHandleVWrite, FindDataToWrite, SendFin, FailFin,
          CountFin, QueueFin, VWriteType
    <3> QED BY <2>5, <3>1
  <2> QED
    BY <1>8, <2>2, <2>3, <2>4, <2>6, <2>7
    DEF HandleVWrite, ArmZWP, SendProbe, StopProbing, LeaveZWP
<1>9. CASE /\ SendingState(e)' = SendingState(e)
           /\ \/ vwrite'[e].pc = vwrite[e].pc
              \/ vwrite[e].pc = "waiting" /\ vwrite'[e].pc = "lock"
  <2>1. /\ buffer' = buffer /\ payload' = payload /\ written' = written
        /\ vwrite'[e].pc = vwrite[e].pc \/ vwrite'[e].pc # "advance"
    BY <1>9 DEF SendingState
  <2> QED BY <1>6, <2>1
<1> QED BY <1>7, <1>8, <1>9, SendingStep DEF IInv

SendingInv == PacketsInStream /\ SenderInStream

LEMMA InitLossInv == NumbersFit /\ Init => LossInv
<1> SUFFICES ASSUME NumbersFit, Init PROVE LossInv
  OBVIOUS
<1>1. ASSUME NEW e \in Ends
      PROVE  ~AckBeyond(e)
  <2>1. /\ Peer(e) \in Ends /\ Peer(Peer(e)) = e
        /\ InitSeqNum[e] \in Nat /\ SeqSpace \in Nat \ {0}
    BY PeerOfPeer, SizeAssumption
  <2>2. rcv[Peer(e)].NextExpectedByte = 1
    BY <2>1 DEF Init
  <2>3. snd[e].LargestAck \in {(InitSeqNum[e] + 1) % SeqSpace, 0}
    BY DEF Init, InitialSender
  <2>4. snd[e].LargestAck \in Nat /\ snd[e].LargestAck <= InitSeqNum[e] + 1
    BY <2>1, <2>3, ModLess, SenderNumbers, InitIInv DEF IInv
  <2>5. ASSUME NEW packet \in PacketsOf(Peer(e))
        PROVE  packet.AckNum = 0
    <3>1. packet = NoPacket
      BY <2>1 DEF Init, PacketsOf, Outgoing, Incoming, Range
    <3> QED BY <3>1 DEF NoPacket
  <2> QED BY <2>1, <2>2, <2>4, <2>5 DEF AckBeyond
<1>2. NoProbe
  BY DEF Init, NoProbe
<1>3. Kept
  <2>1. \A e \in Ends : writer[e].written = 0 /\ vwrite[e].pc # "advance"
    BY DEF Init
  <2> QED BY <2>1 DEF Kept
<1>4. FinsBehind
  <2> SUFFICES ASSUME NEW e \in Ends, FinAbout(e) PROVE FALSE
    BY DEF FinsBehind
  <2>1. Peer(e) \in Ends /\ Peer(Peer(e)) = e
    BY PeerOfPeer
  <2>2. ASSUME NEW packet \in PacketsOf(e)
        PROVE  packet.Flags # "FIN"
    <3>1. packet = NoPacket
      BY <2>1 DEF Init, PacketsOf, Outgoing, Incoming, Range
    <3> QED BY <3>1 DEF NoPacket
  <2>3. ~PeerHasClosed(Peer(e))
    BY <2>1 DEF Init, PeerHasClosed
  <2> QED BY <2>2, <2>3 DEF FinAbout
<1>5. Begun
  <2>1. \A e \in Ends : rcv[Peer(e)].NextExpectedByte = 1
    BY PeerType DEF Init
  <2> QED BY <2>1 DEF Begun
<1> QED BY <1>1, <1>2, <1>3, <1>4, <1>5 DEF LossInv, AcksOfFins

LEMMA StepLossInv ==
    ASSUME NumbersFit, IInv, ClosingInv, NumbersInv, SendingInv, LossInv,
           IInv', [Next]_vars, [NeverFails /\ NeverProbes]_vars
    PROVE  SendingInv' /\ LossInv'
<1>0. ShortStreams
  BY FitIsShort
<1>1. CASE UNCHANGED vars
  <2>1. SendingInv'
    BY <1>1
    DEF vars, SendingInv, PacketsInStream, InStream, Position, PacketsOf, Outgoing,
        Incoming, Peer, SenderInStream, InHand, Unsent, Buffered
  <2>2. AcksOfFins'
    BY <1>1
    DEF vars, LossInv, AcksOfFins, AckBeyond, FinTaken, FinSent, FinPosition,
        DataBefore, Position, PacketsOf, Outgoing, Incoming, Peer, FinBehind, Buffered
  <2>3. NoProbe' /\ Kept' /\ Begun'
    BY <1>1
    DEF vars, LossInv, NoProbe, Kept, AtHand, Unacknowledged, Queued, Holds,
        SegmentSize, Begun, Peer
  <2>4. FinsBehind'
    BY <1>1
    DEF vars, LossInv, FinsBehind, FinAbout, FinBehind, FinPosition, PeerHasClosed,
        Buffered, PacketsOf, Outgoing, Incoming, Peer
  <2> QED BY <2>1, <2>2, <2>3, <2>4 DEF LossInv
<1>2. CASE Next /\ NeverFails /\ NeverProbes
  <2>1. SendingInv'
    BY <1>0, <1>2, SenderInStreamStep, PacketsInStreamStep DEF SendingInv, NumbersInv
  <2>2. AcksOfFins' /\ NoProbe' /\ Kept'
    BY <1>0, <1>2, AcksOfFinsStep, NoProbeStep, KeptStep DEF SendingInv, LossInv
  <2>3. FinsBehind'
    BY <1>0, <1>2, FinsBehindStep DEF SendingInv, LossInv, NumbersInv
  <2>4. Begun'
    <3> SUFFICES ASSUME NEW e \in Ends
                 PROVE  rcv'[Peer(e)].NextExpectedByte >= 1
      BY DEF Begun, Peer
    <3>1. rcv[Peer(e)].NextExpectedByte >= 1
      BY DEF LossInv, Begun
    <3> QED BY <1>0, <1>2, <3>1, NextExpectedGrows DEF NumbersInv
  <2> QED BY <2>1, <2>2, <2>3, <2>4 DEF LossInv
<1> QED BY <1>1, <1>2

\* What is not acknowledged is held; what is acknowledged was received, or is
\* behind a FIN, in WriteBuffer.
LEMMA KeptIsNotLost ==
    IInv /\ NumbersInv /\ SendingInv /\ LossInv => NothingLost
<1> SUFFICES ASSUME IInv, NumbersInv, SendingInv, LossInv, NEW e \in Ends,
                    NEW b \in Received(e) + 1 .. writer[e].written
             PROVE  AtHand(e, b)
  BY DEF NothingLost, AtHand
<1> DEFINE next == rcv[Peer(e)].NextExpectedByte
           isn == InitSeqNum[e]
           written == writer[e].written
<1>1. /\ next \in Nat /\ isn \in Nat /\ snd[e].LargestAck \in Nat
      /\ written \in Nat /\ next >= 1
  BY PeerType, SenderNumbers, InHandType DEF IInv, LossInv, Begun
<1>2. b \in Nat /\ b \in 1 .. written /\ next <= b
  BY <1>1 DEF Received
<1>3. CASE snd[e].LargestAck <= isn + next
  <2>1. Unacknowledged(e, b)
    BY <1>1, <1>2, <1>3 DEF Unacknowledged
  <2> QED BY <1>2, <2>1 DEF LossInv, Kept
<1>4. CASE snd[e].LargestAck > isn + next
  <2>1. FinTaken(e)
    BY <1>4 DEF LossInv, AcksOfFins, AckBeyond
  <2> DEFINE buffer == WriteBuffer[e]
  <2>2. /\ buffer \in Seq(Byte) /\ Len(buffer) \in Nat
        /\ next = 1 + written - Len(buffer)
    BY <2>1, InHandType DEF FinTaken, FinBehind, Buffered, IInv, TypeOK, Buffer
  <2>3. \A i \in 1 .. Len(buffer) : buffer[i] = written - Len(buffer) + i
    BY DEF SendingInv, SenderInStream, InStream, Buffered
  <2> DEFINE k == b - (written - Len(buffer))
  <2>4. k \in 1 .. Len(buffer) /\ written - Len(buffer) + k = b
    <3> HIDE DEF next, written, buffer
    <3> QED BY <1>1, <1>2, <2>2
  <2>5. buffer[k] = b /\ k \in DOMAIN buffer
    <3> HIDE DEF k, buffer, written
    <3> QED BY <2>2, <2>3, <2>4
  <2> QED BY <2>5 DEF AtHand, Holds
<1> HIDE DEF next, isn
<1> QED BY <1>1, <1>3, <1>4

\* Every byte that VWrite handed over is at hand until the peer has received it
\* in order, if numbers fit into a uint32 without wrapping, SendIP does not fail
\* and the peer's window never closes: each of the three loses bytes (HandleVWrite
\* drops its payload, socket.go:354; the probe's byte never gets into RTQueue;
\* Acknowledged compares absolute numbers, socket.go:50).
THEOREM NothingIsLost ==
    ASSUME NumbersFit
    PROVE  Spec /\ [][NeverFails /\ NeverProbes]_vars => []NothingLost
<1> DEFINE Inv == SendingInv /\ LossInv
<1>1. Init => Inv
  BY InitContentInv, InitLossInv DEF ContentInv, SendingInv
<1>2. IInv /\ IInv' /\ ClosingInv /\ NumbersInv /\ Inv /\ [Next]_vars
        /\ [NeverFails /\ NeverProbes]_vars => Inv'
  BY StepLossInv
<1>3. IInv /\ NumbersInv /\ Inv => NothingLost
  BY KeptIsNotLost
<1> HIDE DEF Inv
<1> QED
  BY <1>1, <1>2, <1>3, InductiveInvariant, FinsAndStatesAgree, NumbersAgree,
     FitIsShort, PTL DEF Spec

------------------------------------------------------------------------------
(* What BytesInFlight counts *)

\* Every set of numbers that has a member has a least one.
LEMMA LeastNumber ==
    ASSUME NEW S, S \subseteq Nat, S # {}
    PROVE  \E n \in S : \A m \in S : n <= m
<1> DEFINE R == {ss \in Nat \X Nat : ss[1] < ss[2]}
<1>1. IsWellFoundedOn(R, Nat)
  BY NatLessThanWellFounded, Zenon DEF OpToRel
<1>2. \A x, y \in Nat : <<x, y>> \in R <=> x < y
  OBVIOUS
<1> HIDE DEF R
<1>3. PICK n \in S : \A m \in S : ~(<<m, n>> \in R)
  BY <1>1, WFMin
<1>4. ASSUME NEW m \in S PROVE n <= m
  <2>1. m \in Nat /\ n \in Nat
    OBVIOUS
  <2>2. ~(m < n)
    BY <1>2, <1>3, <2>1
  <2> QED BY <2>1, <2>2
<1> QED BY <1>4

\* The function by which FoldLeft is defined, on the subsets of the domain.
IsFold(t, q, S) ==
    t = [s \in SUBSET S |-> IF s = {} THEN 0 ELSE t[s \ {Max(s)}] + Len(q[Max(s)].Data)]

\* The sum of the first i elements.
IsSum(p, q) ==
    /\ p[0] = 0
    /\ \A i \in 1 .. Len(q) : p[i] = p[i - 1] + Len(q[i].Data)

\* BytesOf is the value of that function for the whole domain.
LEMMA BytesIs ==
    ASSUME NEW q 
    PROVE  BytesOf(q) = (CHOOSE t : IsFold(t, q, DOMAIN q))[DOMAIN q]
BY DEF BytesOf, FoldLeft, MapThenFoldSet, IsFold

\* The element FoldLeft takes off a set of places.
LEMMA MaxIs ==
    ASSUME NEW n \in Nat, NEW s, s \subseteq 1 .. n, n \in s
    PROVE  Max(s) = n
<1>1. \A x \in s : x \in Int /\ x <= n
  OBVIOUS
<1>2. \A x \in s : (\A y \in s : x >= y) => x = n
  BY <1>1
<1> QED BY <1>1, <1>2 DEF Max

\* There is such a function, by induction on the length.
LEMMA FoldExists ==
    ASSUME NEW q, NEW n \in Nat
    PROVE  \E t : IsFold(t, q, 1 .. n)
<1> DEFINE Bad == {m \in Nat : ~\E t : IsFold(t, q, 1 .. m)}
<1>1. SUFFICES ASSUME Bad # {} PROVE FALSE
  OBVIOUS
<1>2. PICK m \in Bad : \A k \in Bad : m <= k
  BY <1>1, LeastNumber
<1>3. CASE m = 0
  <2>1. 1 .. 0 = {}
    OBVIOUS
  <2>2. IsFold([s \in SUBSET {} |-> 0], q, {})
    BY DEF IsFold
  <2> QED BY <1>3, <2>1, <2>2
<1>4. CASE m # 0
  <2>1. m - 1 \in Nat /\ ~(m <= m - 1)
    BY <1>4
  <2>2. PICK t : IsFold(t, q, 1 .. m - 1)
    BY <1>2, <2>1
  <2> DEFINE S == 1 .. m
             L == 1 .. m - 1
             u == [s \in SUBSET S |->
                     IF m \in s THEN t[s \ {m}] + Len(q[m].Data) ELSE t[s]]
  <2>3. /\ \A s \in SUBSET L : t[s] = IF s = {} THEN 0 ELSE t[s \ {Max(s)}] + Len(q[Max(s)].Data)
        /\ \A s \in SUBSET S : m \notin s => s \in SUBSET L
        /\ \A s \in SUBSET S : s \ {m} \in SUBSET L
    <3>1. \A i \in S : i # m => i \in L
      BY <2>1
    <3> HIDE DEF S, L
    <3> QED BY <2>2, <3>1, Zenon DEF IsFold, L
  <2>4. ASSUME NEW s \in SUBSET S
        PROVE  u[s] = IF s = {} THEN 0 ELSE u[s \ {Max(s)}] + Len(q[Max(s)].Data)
    <3>1. CASE m \in s
      <4>1. Max(s) = m
        BY <3>1, MaxIs
      <4>2. s \ {m} \in SUBSET S /\ m \notin s \ {m}
        OBVIOUS
      <4> HIDE DEF S
      <4> QED BY <3>1, <4>1, <4>2
    <3>2. CASE m \notin s
      <4>1. s \ {Max(s)} \in SUBSET S /\ m \notin s \ {Max(s)}
        BY <3>2
      <4>2. t[s] = IF s = {} THEN 0 ELSE t[s \ {Max(s)}] + Len(q[Max(s)].Data)
        BY <2>3, <3>2
      <4> HIDE DEF S
      <4> QED BY <3>2, <4>1, <4>2
    <3> QED BY <3>1, <3>2
  <2>5. IsFold(u, q, S)
    BY <2>4 DEF IsFold
  <2> QED BY <2>5
<1> QED BY <1>3, <1>4

\* The fold of a sequence is the last of its sums.
LEMMA BytesAreSum ==
    ASSUME NEW S, NEW q \in Seq(S), NEW p, IsSum(p, q)
    PROVE  BytesOf(q) = p[Len(q)]
<1> DEFINE t == CHOOSE s : IsFold(s, q, DOMAIN q)
           Bad == {k \in Nat : k <= Len(q) /\ t[1 .. k] # p[k]}
<1>1. Len(q) \in Nat /\ DOMAIN q = 1 .. Len(q)
  OBVIOUS
<1>2. IsFold(t, q, 1 .. Len(q))
  BY <1>1, FoldExists
<1>3. BytesOf(q) = t[1 .. Len(q)]
  BY <1>1, BytesIs
<1> HIDE DEF t
<1>4. \A s \in SUBSET (1 .. Len(q)) :
        t[s] = IF s = {} THEN 0 ELSE t[s \ {Max(s)}] + Len(q[Max(s)].Data)
  BY <1>2, Zenon DEF IsFold
<1>5. SUFFICES ASSUME Bad # {} PROVE FALSE
  BY <1>1, <1>3
<1>6. PICK k \in Bad : \A m \in Bad : k <= m
  BY <1>5, LeastNumber
<1>7. CASE k = 0
  <2>1. 1 .. 0 = {}
    OBVIOUS
  <2> QED BY <1>4, <1>6, <1>7, <2>1 DEF IsSum
<1>8. CASE k # 0
  <2>1. /\ k \in 1 .. Len(q) /\ k - 1 \in Nat /\ ~(k <= k - 1)
        /\ k - 1 <= Len(q)
    BY <1>1, <1>6, <1>8
  <2>2. t[1 .. k - 1] = p[k - 1]
    BY <1>6, <2>1
  <2>3. Max(1 .. k) = k
    <3>1. k \in Nat /\ 1 .. k \subseteq 1 .. k /\ k \in 1 .. k
      BY <2>1
    <3> QED BY <3>1, MaxIs
  <2>4. 1 .. k \in SUBSET (1 .. Len(q)) /\ (1 .. k) \ {k} = 1 .. k - 1 /\ 1 .. k # {}
    <3>1. /\ \A i \in 1 .. k : i \in 1 .. Len(q)
          /\ \A i : i \in 1 .. k /\ i # k <=> i \in 1 .. k - 1
          /\ k \in 1 .. k
      BY <1>1, <2>1
    <3> QED BY <3>1, Zenon
  <2>5. t[1 .. k] = t[1 .. k - 1] + Len(q[k].Data)
    BY <1>4, <2>3, <2>4
  <2> QED BY <1>6, <2>1, <2>2, <2>5 DEF IsSum
<1> QED BY <1>7, <1>8

\* There are such sums.
LEMMA SumExists ==
    ASSUME NEW S, NEW q \in Seq(S), \A x \in S : Len(x.Data) \in Nat
    PROVE  \E p \in [0 .. Len(q) -> Nat] : IsSum(p, q)
<1> DEFINE Bad == {m \in Nat : m <= Len(q) /\ ~\E p \in [0 .. m -> Nat] :
                       p[0] = 0 /\ \A i \in 1 .. m : p[i] = p[i - 1] + Len(q[i].Data)}
<1>1. Len(q) \in Nat /\ \A i \in 1 .. Len(q) : Len(q[i].Data) \in Nat
  OBVIOUS
<1>2. SUFFICES ASSUME Bad # {} PROVE FALSE
  BY <1>1 DEF IsSum
<1>3. PICK m \in Bad : \A k \in Bad : m <= k
  BY <1>2, LeastNumber
<1>4. CASE m = 0
  <2> DEFINE p == [i \in 0 .. 0 |-> 0]
  <2>1. p \in [0 .. 0 -> Nat] /\ p[0] = 0 /\ \A i \in 1 .. 0 : p[i] = p[i - 1] + Len(q[i].Data)
    OBVIOUS
  <2> QED BY <1>3, <1>4, <2>1
<1>5. CASE m # 0
  <2>1. m \in 1 .. Len(q) /\ m - 1 \in Nat /\ ~(m <= m - 1) /\ m - 1 <= Len(q)
    BY <1>1, <1>3, <1>5
  <2>2. PICK p \in [0 .. m - 1 -> Nat] :
          p[0] = 0 /\ \A i \in 1 .. m - 1 : p[i] = p[i - 1] + Len(q[i].Data)
    BY <1>3, <2>1
  <2> DEFINE u == [i \in 0 .. m |-> IF i = m THEN p[m - 1] + Len(q[m].Data) ELSE p[i]]
  <2>3. p[m - 1] \in Nat /\ Len(q[m].Data) \in Nat
    BY <1>1, <2>1
  <2>4. u \in [0 .. m -> Nat] /\ u[0] = 0
    BY <2>1, <2>2, <2>3
  <2>5. ASSUME NEW i \in 1 .. m PROVE u[i] = u[i - 1] + Len(q[i].Data)
    <3>1. CASE i = m
      BY <2>1, <3>1
    <3>2. CASE i # m
      BY <2>1, <2>2, <3>2
    <3> QED BY <3>1, <3>2
  <2> QED BY <1>3, <2>4, <2>5
<1> QED BY <1>4, <1>5

\* Hence what enters and what leaves RTQueue counts with its own bytes.
LEMMA BytesAppended ==
    ASSUME NEW S, NEW q \in Seq(S), \A x \in S : Len(x.Data) \in Nat, NEW x \in S
    PROVE  /\ BytesOf(q) \in Nat
           /\ BytesOf(Append(q, x)) = BytesOf(q) + Len(x.Data)
<1>1. PICK p \in [0 .. Len(q) -> Nat] : IsSum(p, q)
  BY SumExists
<1> DEFINE r == Append(q, x)
           u == [i \in 0 .. Len(q) + 1 |-> IF i = Len(q) + 1 THEN p[Len(q)] + Len(x.Data) ELSE p[i]]
<1>2. Len(q) \in Nat /\ r \in Seq(S) /\ Len(r) = Len(q) + 1 /\ r[Len(q) + 1] = x
      /\ \A i \in 1 .. Len(q) : r[i] = q[i]
  OBVIOUS
<1>3. IsSum(u, r)
  <2>1. u[0] = 0
    BY <1>1, <1>2 DEF IsSum
  <2>2. ASSUME NEW i \in 1 .. Len(q) + 1 PROVE u[i] = u[i - 1] + Len(r[i].Data)
    <3> HIDE DEF r
    <3>1. CASE i = Len(q) + 1
      BY <1>2, <3>1
    <3>2. CASE i # Len(q) + 1
      BY <1>1, <1>2, <3>2, SMTT(30) DEF IsSum
    <3> QED BY <3>1, <3>2
  <2> HIDE DEF u, r
  <2> QED BY <1>2, <2>1, <2>2 DEF IsSum
<1>4. BytesOf(q) = p[Len(q)] /\ p[Len(q)] \in Nat
  BY <1>1, <1>2, BytesAreSum
<1>5. BytesOf(r) = u[Len(q) + 1]
  BY <1>2, <1>3, BytesAreSum
<1> QED BY <1>2, <1>4, <1>5

LEMMA BytesOfTail ==
    ASSUME NEW S, NEW q \in Seq(S), \A x \in S : Len(x.Data) \in Nat, q # <<>>
    PROVE  /\ BytesOf(q) \in Nat
           /\ BytesOf(Tail(q)) = BytesOf(q) - Len(Head(q).Data)
<1>1. PICK p \in [0 .. Len(q) -> Nat] : IsSum(p, q)
  BY SumExists
<1> DEFINE r == Tail(q)
           first == Len(q[1].Data)
           u == [i \in 0 .. Len(q) - 1 |-> p[i + 1] - first]
<1>2. /\ Len(q) \in Nat /\ Len(q) >= 1 /\ r \in Seq(S) /\ Len(r) = Len(q) - 1 /\ Head(q) = q[1]
      /\ \A i \in 1 .. Len(q) - 1 : r[i] = q[i + 1]
      /\ \A i \in 1 .. Len(q) : Len(q[i].Data) \in Nat
  OBVIOUS
<1>3. IsSum(u, r)
  <2> HIDE DEF r
  <2>1. u[0] = 0
    BY <1>1, <1>2 DEF IsSum
  <2>2. ASSUME NEW i \in 1 .. Len(q) - 1 PROVE u[i] = u[i - 1] + Len(r[i].Data)
    <3>1. i + 1 \in 1 .. Len(q) /\ i \in 0 .. Len(q) /\ 1 \in 1 .. Len(q) /\ (i + 1) - 1 = i
      BY <1>2
    <3>2. p[i + 1] = p[i] + Len(q[i + 1].Data) /\ p[i] \in Nat
      BY <1>1, <3>1 DEF IsSum
    <3>3. r[i] = q[i + 1] /\ Len(q[i + 1].Data) \in Nat /\ first \in Nat
      BY <1>2, <3>1
    <3>4. u[i] = p[i + 1] - first /\ u[i - 1] = p[i] - first
      BY <3>1
    <3> HIDE DEF u, first
    <3> QED BY <3>2, <3>3, <3>4
  <2> HIDE DEF u
  <2> QED BY <1>2, <2>1, <2>2 DEF IsSum
<1>4. BytesOf(q) = p[Len(q)] /\ p[Len(q)] \in Nat
  BY <1>1, <1>2, BytesAreSum
<1>5. BytesOf(r) = u[Len(q) - 1]
  BY <1>2, <1>3, BytesAreSum
<1> QED BY <1>2, <1>4, <1>5

LEMMA BytesOfNothing == BytesOf(<<>>) = 0
<1>1. IsSum([i \in 0 .. 0 |-> 0], <<>>)
  BY DEF IsSum
<1> QED BY <1>1, BytesAreSum

\* A remainder may be taken before the sum or after it.
LEMMA ModOfSum ==
    ASSUME NEW m \in Nat \ {0}, NEW x \in Int, NEW y \in Int
    PROVE  ((x % m) + y) % m = (x + y) % m
<1> DEFINE r == x % m
           s == (r + y) % m
           t == (x + y) % m
           a == x \div m
           b == (r + y) \div m
           c == (x + y) \div m
<1>1. /\ r \in 0 .. m - 1 /\ s \in 0 .. m - 1 /\ t \in 0 .. m - 1
      /\ a \in Int /\ b \in Int /\ c \in Int
  OBVIOUS
<1>2. x = m * a + r
  OBVIOUS
<1>3. r + y = m * b + s
  BY <1>1
<1>4. x + y = m * c + t
  BY <1>1
<1> HIDE DEF r, s, t, a, b, c
<1>5. m * (c - a - b) = s - t
  <2>1. m * c - m * a - m * b = s - t
    BY <1>1, <1>2, <1>3, <1>4
  <2> QED BY <1>1, <2>1
<1>6. c - a - b = 0
  <2>1. CASE c - a - b >= 1
    <3>1. m * (c - a - b) >= m
      BY <1>1, <2>1
    <3> QED BY <1>1, <1>5, <3>1
  <2>2. CASE c - a - b <= -1
    <3>1. m * (c - a - b) <= -m
      BY <1>1, <2>2
    <3> QED BY <1>1, <1>5, <3>1
  <2> QED BY <1>1, <2>1, <2>2
<1>7. s = t
  BY <1>1, <1>5, <1>6
<1> QED BY <1>7 DEF s, t, r

\* BytesInFlight goes along with RTQueue and the probe, step by step.
LEMMA FlightStep ==
    ASSUME IInv, Next, NEW e \in Ends
    PROVE  LET queue == rtq[e].RTQueue
               bytes == rtq[e].BytesInFlight
           IN
           \/ queue' = queue /\ bytes' = bytes /\ Probed(e)' = Probed(e)
           \/ /\ \E item \in Packet :
                   /\ queue' = Append(queue, item)
                   /\ bytes' = (bytes + Len(item.Data)) % Word
              /\ Probed(e)' = Probed(e)
           \/ /\ queue # <<>> /\ queue' = Tail(queue)
              /\ bytes' = (bytes - Len(Head(queue).Data)) % Word
              /\ Probed(e)' = Probed(e)
           \/ queue' = queue /\ bytes' = (bytes + 1) % Word /\ Probed(e) = 0 /\ Probed(e)' = 1
           \/ queue' = queue /\ bytes' = (bytes - 1) % Word /\ Probed(e) = 1 /\ Probed(e)' = 0
<1> DEFINE queue == rtq[e].RTQueue
           bytes == rtq[e].BytesInFlight
           kept == queue' = queue /\ bytes' = bytes /\ Probed(e)' = Probed(e)
           goal == \/ kept
                   \/ /\ \E item \in Packet :
                           /\ queue' = Append(queue, item)
                           /\ bytes' = (bytes + Len(item.Data)) % Word
                      /\ Probed(e)' = Probed(e)
                   \/ /\ queue # <<>> /\ queue' = Tail(queue)
                      /\ bytes' = (bytes - Len(Head(queue).Data)) % Word
                      /\ Probed(e)' = Probed(e)
                   \/ /\ queue' = queue /\ bytes' = (bytes + 1) % Word
                      /\ Probed(e) = 0 /\ Probed(e)' = 1
                   \/ /\ queue' = queue /\ bytes' = (bytes - 1) % Word
                      /\ Probed(e) = 1 /\ Probed(e)' = 0
<1> SUFFICES goal
  OBVIOUS
<1>1. /\ rtq \in [Ends -> RTQueueType] /\ rtq[e] \in RTQueueType
      /\ vwrite \in [Ends -> VWriteType] /\ vwrite[e] \in VWriteType
      /\ TypeOK
  BY DEF IInv, TypeOK
<1>2. PICK a \in Ends :
        \/ HandleVWrite(a) \/ HandleRT(a) \/ HandleTCPPacket(a)
        \/ Application(a) \/ TimeWait(a) \/ Discard(a) \/ Lose(a)
  BY DEF Next
<1>3. CASE a # e
  <2>1. rtq'[e] = rtq[e] /\ vwrite'[e] = vwrite[e]
    BY <1>1, <1>2, <1>3, OtherEndHolds
  <2>2. kept
    BY <2>1 DEF Probed
  <2> QED BY <2>2
<1>4. CASE HandleVWrite(e)
  <2>1. CASE SendSegment(e)
    <3> DEFINE item == Segment(e, "ACK", First(vwrite[e].payload, SegmentSize(e)), 0)
    <3>0. First(vwrite[e].payload, SegmentSize(e)) \in Text
      <4>1. /\ vwrite[e].payload \in Seq(Byte) /\ Len(vwrite[e].payload) \in Nat
            /\ SegmentSize(e) \in 0 .. Len(vwrite[e].payload)
        BY <1>1, PayloadSizes
      <4>2. SegmentSize(e) \in 0 .. MaxSegmentSize
        BY <4>1, SizeType, SmallerRange DEF SegmentSize
      <4> QED BY <4>1, <4>2, FirstType, SizeType DEF Text
    <3>1. item \in Packet
      BY <1>1, <3>0, SegmentType
    <3>2. queue' = Append(queue, item) /\ bytes' = (bytes + Len(item.Data)) % Word
      BY <1>1, <2>1 DEF SendSegment, Enqueued, RTQueueType
    <3>3. Probed(e)' = Probed(e)
      BY <1>1, <2>1 DEF SendSegment, Probed, VWriteType
    <3> QED BY <3>1, <3>2, <3>3
  <2>2. CASE QueueFin(e)
    <3> DEFINE item == vwrite[e].packet
    <3>1. item \in Packet /\ item.Data = <<>> /\ Len(item.Data) = 0
      BY <1>1, <2>2 DEF QueueFin, IInv, HandleVWriteHolds, VWriteType
    <3>2. queue' = Append(queue, item) /\ bytes' = bytes
      BY <1>1, <2>2 DEF QueueFin, RTQueueType
    <3>3. bytes' = (bytes + Len(item.Data)) % Word
      <4>1. bytes \in 0 .. Word - 1 /\ Word \in Nat \ {0} /\ bytes + 0 = bytes
        BY <1>1, SizeType DEF RTQueueType, Windows, Word
      <4> QED BY <3>1, <3>2, <4>1, ModSame
    <3>4. Probed(e)' = Probed(e)
      BY <1>1, <2>2 DEF QueueFin, Probed, VWriteType
    <3> QED BY <3>1, <3>2, <3>3, <3>4
  <2>3. CASE ArmZWP(e)
    BY <1>1, <2>3 DEF ArmZWP, RTQueueType, Probed, VWriteType
  <2>4. CASE LeaveZWP(e)
    BY <1>1, <2>4 DEF LeaveZWP, RTQueueType, Probed, VWriteType
  <2>5. CASE rtq' = rtq /\ Probed(e)' = Probed(e)
    BY <2>5
  <2>6. ASSUME \/ FindNothingToWrite(e) \/ SleepHandleVWrite(e) \/ FindDataToWrite(e)
               \/ TakePayload(e) \/ FailSegment(e) \/ AdvanceSequence(e) \/ EnterZWP(e)
               \/ SendProbe(e) \/ StopProbing(e) \/ SendFin(e) \/ FailFin(e) \/ CountFin(e)
        PROVE  rtq' = rtq /\ Probed(e)' = Probed(e)
    BY <1>1, <2>6
    DEF FindNothingToWrite, SleepHandleVWrite, FindDataToWrite, TakePayload, FailSegment,
        AdvanceSequence, EnterZWP, SendProbe, StopProbing, SendFin, FailFin, CountFin,
        Probed, VWriteType
  <2> HIDE DEF goal
  <2> QED BY <1>4, <2>1, <2>2, <2>3, <2>4, <2>5, <2>6 DEF HandleVWrite
<1>5. CASE HandleRT(e)
  <2>1. bytes' = bytes /\ queue' = queue
    BY <1>1, <1>5 DEF HandleRT, CheckRTQueue, ExpireRTTimer, Retransmit, RTQueueType
  <2>2. kept
    BY <1>5, <2>1, HandleRTFrame DEF Probed
  <2> QED BY <2>2
<1>6. CASE HandleTCPPacket(e)
  <2>0. vwrite'[e].pc = vwrite[e].pc \/ (vwrite[e].pc = "probing" /\ vwrite'[e].pc = "zwpExit")
    BY <1>6, HandleTCPPacketFrame
  <2>1. Probed(e)' = Probed(e)
    BY <2>0 DEF Probed
  <2>2. CASE PurgeSegment(e)
    BY <1>1, <2>1, <2>2 DEF PurgeSegment, Dequeued, RTQueueType
  <2>3. CASE bytes' = bytes /\ queue' = queue
    BY <2>1, <2>3
  <2>4. ASSUME ~PurgeSegment(e)
        PROVE  bytes' = bytes /\ queue' = queue
    <3>1. CASE \E i \in 1 .. MaxReorder + 1 : ReceiveNewAck(e, i)
      BY <1>1, <3>1 DEF ReceiveNewAck, RTQueueType
    <3>2. CASE FinishPurge(e)
      BY <1>1, <3>2 DEF FinishPurge, RTQueueType
    <3>3. CASE rtq' = rtq
      BY <3>3
    <3> QED
      BY <1>6, <2>4, <3>1, <3>2, <3>3
      DEF HandleTCPPacket, ReceiveOtherAck, ReceiveNextFin, ReceiveOtherFin,
          CompareAckAgain, PurgeLastFin, UpdateWindow, CheckProbe, IgnoreEmptyText,
          ReceiveNextText, ReceiveOtherText, TakeEarlyArrival, LeaveEarlyArrivals,
          SendAck
  <2> HIDE DEF goal
  <2> QED BY <2>2, <2>3, <2>4
<1>7. CASE Application(e) \/ TimeWait(e) \/ Discard(e) \/ Lose(e)
  <2>1. rtq' = rtq
    BY <1>7, CallVWriteFrame, VReadFrame, VCloseFrame, NetworkFrame DEF Application
  <2>2. \/ vwrite'[e].pc = vwrite[e].pc
        \/ vwrite[e].pc = "waiting" /\ vwrite'[e].pc = "lock"
    <3>1. CASE CallVWrite(e) \/ VWrite(e)
      BY <1>1, <3>1 DEF CallVWrite, VWrite, WokenVWrite, VWriteType
    <3>2. CASE VClose(e)
      BY <1>1, <3>2
      DEF VClose, CallVClose, AssignFinWait1, WakeHandleVWrite, AssignLastAck,
          WokenVWrite, VWriteType
    <3> QED BY <1>7, <3>1, <3>2, VReadFrame, NetworkFrame DEF Application
  <2>3. kept
    BY <2>1, <2>2 DEF Probed
  <2> QED BY <2>3
<1> QED BY <1>2, <1>3, <1>4, <1>5, <1>6, <1>7

\* A sum and its remainder move by the same amount.
LEMMA CountMoves ==
    ASSUME NEW n \in Nat, NEW k \in Int, NEW b, b = n % Word
    PROVE  (b + k) % Word = (n + k) % Word
<1>1. Word \in Nat \ {0}
  BY SizeType DEF Word
<1>2. n \in Int
  OBVIOUS
<1>3. ((n % Word) + k) % Word = (n + k) % Word
  BY <1>1, <1>2, ModOfSum, Zenon
<1> QED BY <1>3, Zenon

LEMMA InFlightStep ==
    ASSUME IInv, InFlightAccounting, Next
    PROVE  InFlightAccounting'
<1> SUFFICES ASSUME NEW e \in Ends
             PROVE  rtq'[e].BytesInFlight = (BytesOf(rtq'[e].RTQueue) + Probed(e)') % Word
  BY DEF InFlightAccounting
<1> DEFINE queue == rtq[e].RTQueue
           bytes == rtq[e].BytesInFlight
           sum == BytesOf(queue)
<1>1. queue \in Seq(Packet) /\ \A item \in Packet : Len(item.Data) \in Nat
  BY DEF IInv, TypeOK, RTQueueType, Packet, Text
<1>2. sum \in Nat /\ \A item \in Packet : BytesOf(Append(queue, item)) = sum + Len(item.Data)
  <2>1. \A item \in Packet : sum \in Nat /\ BytesOf(Append(queue, item)) = sum + Len(item.Data)
    BY <1>1, BytesAppended
  <2>2. NoPacket \in Packet
    BY SizeAssumption DEF NoPacket, Packet, SeqNums, Windows, Text
  <2> QED BY <2>1, <2>2
<1>3. queue # <<>> => BytesOf(Tail(queue)) = sum - Len(Head(queue).Data)
                      /\ Len(Head(queue).Data) \in Nat
  BY <1>1, BytesOfTail
<1>4. bytes = (sum + Probed(e)) % Word /\ Probed(e) \in Nat /\ sum + Probed(e) \in Nat
  BY <1>2 DEF InFlightAccounting, Probed
<1> HIDE DEF sum
<1>5. CASE bytes' = bytes /\ queue' = queue /\ Probed(e)' = Probed(e)
  BY <1>4, <1>5 DEF sum
<1>6. ASSUME NEW item \in Packet, queue' = Append(queue, item),
             bytes' = (bytes + Len(item.Data)) % Word, Probed(e)' = Probed(e)
      PROVE  bytes' = (BytesOf(queue') + Probed(e)') % Word
  <2> DEFINE n == Len(item.Data)
             total == sum + Probed(e)
  <2>1. n \in Nat /\ n \in Int /\ total \in Nat /\ bytes = total % Word
    BY <1>1, <1>4
  <2>3. total + n = BytesOf(queue') + Probed(e)'
    BY <1>2, <1>4, <1>6, <2>1
  <2>4. bytes' = (bytes + n) % Word
    BY <1>6
  <2> HIDE DEF n, total, bytes
  <2>2. (bytes + n) % Word = (total + n) % Word
    BY <2>1, CountMoves
  <2> QED BY <2>2, <2>3, <2>4
<1>7. CASE /\ queue # <<>> /\ queue' = Tail(queue)
           /\ bytes' = (bytes - Len(Head(queue).Data)) % Word
           /\ Probed(e)' = Probed(e)
  <2> DEFINE n == Len(Head(queue).Data)
  <2>1. n \in Nat /\ BytesOf(queue') = sum - n
    BY <1>3, <1>7
  <2>2. bytes' = (bytes - n) % Word
    BY <1>7
  <2> HIDE DEF n
  <2>3. bytes - n = bytes + (-n) /\ -n \in Int
    <3>1. bytes \in Int
      BY DEF IInv, TypeOK, RTQueueType, Windows
    <3> QED BY <2>1, <3>1
  <2>4. bytes' = (sum + Probed(e) + (-n)) % Word
    BY <1>4, <2>2, <2>3, CountMoves
  <2>5. sum + Probed(e) + (-n) = BytesOf(queue') + Probed(e)'
    BY <1>2, <1>4, <1>7, <2>1
  <2> QED BY <2>4, <2>5
<1>8. CASE queue' = queue /\ bytes' = (bytes + 1) % Word /\ Probed(e) = 0 /\ Probed(e)' = 1
  <2>1. bytes' = (sum + Probed(e) + 1) % Word
    BY <1>4, <1>8, CountMoves
  <2>2. sum + Probed(e) + 1 = BytesOf(queue') + Probed(e)'
    BY <1>2, <1>8 DEF sum
  <2> QED BY <2>1, <2>2
<1>9. CASE queue' = queue /\ bytes' = (bytes - 1) % Word /\ Probed(e) = 1 /\ Probed(e)' = 0
  <2>1. bytes - 1 = bytes + (-1)
    BY DEF IInv, TypeOK, RTQueueType, Windows
  <2>2. bytes' = (sum + Probed(e) + (-1)) % Word
    BY <1>4, <1>9, <2>1, CountMoves
  <2>3. sum + Probed(e) + (-1) = BytesOf(queue') + Probed(e)'
    BY <1>2, <1>9 DEF sum
  <2> QED BY <2>2, <2>3
<1> HIDE DEF queue, bytes
<1>10. bytes' = (BytesOf(queue') + Probed(e)') % Word
  BY <1>4, <1>5, <1>6, <1>7, <1>8, <1>9, FlightStep DEF queue, bytes, sum
<1> QED BY <1>10 DEF queue, bytes

\* BytesInFlight is never off, whatever is lost, resent, probed or purged, and
\* wherever it wraps: each segment is counted once when it enters RTQueue and
\* once when it leaves it, although four places in the code keep the count
\* (socket.go:87, 387, 435 and 454), each on its own.
THEOREM InFlightIsCounted == Spec => []InFlightAccounting
<1>1. Init => InFlightAccounting
  <2> SUFFICES ASSUME Init, NEW e \in Ends
               PROVE  rtq[e].BytesInFlight = (BytesOf(rtq[e].RTQueue) + Probed(e)) % Word
    BY DEF InFlightAccounting
  <2>1. /\ rtq[e].BytesInFlight = 0 /\ rtq[e].RTQueue = <<>>
        /\ vwrite[e].pc \in {"waiting", "lock"}
    BY DEF Init
  <2>2. Probed(e) = 0
    BY <2>1 DEF Probed
  <2>3. Word \in Nat \ {0} /\ 0 \in 0 .. Word - 1
    BY SizeType DEF Word
  <2>4. 0 % Word = 0
    BY <2>3, ModSame
  <2> QED BY <2>1, <2>2, <2>4, BytesOfNothing
<1>2. IInv /\ InFlightAccounting /\ [Next]_vars => InFlightAccounting'
  <2> SUFFICES ASSUME IInv, InFlightAccounting, [Next]_vars PROVE InFlightAccounting'
    OBVIOUS
  <2>1. CASE Next
    BY <2>1, InFlightStep
  <2>2. CASE UNCHANGED vars
    BY <2>2 DEF vars, InFlightAccounting, Probed
  <2> QED BY <2>1, <2>2
<1> QED BY <1>1, <1>2, InductiveInvariant, PTL DEF Spec

------------------------------------------------------------------------------
(* Packets with a window *)

\* The packets of end e whose window its peer may still come to read: NoPacket,
\* which stands in a packet variable between two packets, is not one of them.
Leaving(e) ==
    Range(rtq[e].RTQueue) \union Range(net[Peer(e)])
        \union {packet \in {vwrite[e].packet} : vwrite[e].pc \in {"probing", "finSeq", "finQueue"}}
Arriving(e) ==
    Range(net[e]) \union {packet \in {handler[e].packet} : handler[e].pc \notin {"idle", "done"}}
Live(e) == Leaving(e) \union Arriving(Peer(e))

\* HandleVWrite makes segments, probes and the FIN, and hands them on,
LEMMA HandleVWriteSends ==
    ASSUME TypeOK, NEW e \in Ends, HandleVWrite(e), NEW packet \in Leaving(e)'
    PROVE  packet \in Leaving(e) \/ Makes(e, packet)
<1> DEFINE p == Peer(e)
           working == {"probing", "finSeq", "finQueue"}
           goal == packet \in Leaving(e) \/ Makes(e, packet)
<1>1. /\ vwrite \in [Ends -> VWriteType] /\ vwrite[e] \in VWriteType
      /\ rtq \in [Ends -> RTQueueType] /\ rtq[e].RTQueue \in Seq(Packet)
  BY DEF TypeOK, RTQueueType
<1>2. \/ vwrite'[e].pc \in working /\ packet = vwrite'[e].packet
      \/ packet \in Range(rtq'[e].RTQueue)
      \/ packet \in Range(net'[p])
  BY DEF Leaving, Peer
<1>same. ASSUME vwrite'[e].pc \in working =>
                  vwrite[e].pc \in working /\ vwrite'[e].packet = vwrite[e].packet,
                rtq'[e].RTQueue = rtq[e].RTQueue, net' = net
         PROVE  goal
  BY <1>2, <1>same DEF Leaving
<1>3. CASE SendSegment(e)
  <2> DEFINE segment == Segment(e, "ACK", First(vwrite[e].payload, SegmentSize(e)), 0)
  <2>1. /\ vwrite'[e].pc \notin working
        /\ rtq'[e].RTQueue = Append(rtq[e].RTQueue, segment)
        /\ net' = Sent(e, segment)
    BY <1>1, <1>3 DEF SendSegment, Enqueued, VWriteType
  <2>2. Makes(e, segment)
    BY <1>3 DEF Makes
  <2> HIDE DEF segment
  <2>3. Range(rtq'[e].RTQueue) = Range(rtq[e].RTQueue) \union {segment}
    BY <1>1, <2>1, RangeAppend
  <2>4. Range(net'[p]) \subseteq Range(net[p]) \union {segment}
    BY <2>1, RangeSent
  <2> QED BY <1>2, <2>1, <2>2, <2>3, <2>4 DEF Leaving
<1>4. CASE ArmZWP(e)
  <2> DEFINE probe == Segment(e, "ACK", vwrite[e].payload, 0)
  <2>1. /\ vwrite'[e].packet = probe
        /\ rtq'[e].RTQueue = rtq[e].RTQueue
        /\ net' = Sent(e, probe)
    BY <1>1, <1>4 DEF ArmZWP, VWriteType, RTQueueType
  <2>2. Makes(e, probe)
    BY <1>4 DEF Makes
  <2> HIDE DEF probe
  <2>3. Range(net'[p]) \subseteq Range(net[p]) \union {probe}
    BY <2>1, RangeSent
  <2> QED BY <1>2, <2>1, <2>2, <2>3 DEF Leaving
<1>5. CASE SendFin(e)
  <2> DEFINE fin == Segment(e, "FIN", <<>>, 0)
  <2>1. /\ vwrite'[e].packet = fin
        /\ rtq'[e].RTQueue = rtq[e].RTQueue
        /\ net' = Sent(e, fin)
    BY <1>1, <1>5 DEF SendFin, VWriteType
  <2>2. Makes(e, fin)
    BY <1>5 DEF Makes
  <2> HIDE DEF fin
  <2>3. Range(net'[p]) \subseteq Range(net[p]) \union {fin}
    BY <2>1, RangeSent
  <2> QED BY <1>2, <2>1, <2>2, <2>3 DEF Leaving
<1>6. CASE SendProbe(e)
  <2>1. /\ net' = Sent(e, vwrite[e].packet) /\ vwrite' = vwrite /\ rtq' = rtq
        /\ vwrite[e].pc = "probing"
    BY <1>6 DEF SendProbe
  <2>2. Range(net'[p]) \subseteq Range(net[p]) \union {vwrite[e].packet}
    BY <2>1, RangeSent
  <2> QED BY <1>2, <2>1, <2>2 DEF Leaving
<1>7. CASE QueueFin(e)
  <2>1. /\ vwrite'[e].pc = "done" /\ vwrite[e].pc = "finQueue"
        /\ rtq'[e].RTQueue = Append(rtq[e].RTQueue, vwrite[e].packet)
        /\ net' = net
    BY <1>1, <1>7 DEF QueueFin, VWriteType, RTQueueType
  <2>2. Range(rtq'[e].RTQueue) = Range(rtq[e].RTQueue) \union {vwrite[e].packet}
    BY <1>1, <2>1, RangeAppend
  <2> QED BY <1>2, <2>1, <2>2 DEF Leaving
<1>8. CASE FindNothingToWrite(e) \/ SleepHandleVWrite(e) \/ FindDataToWrite(e)
  BY <1>1, <1>8, <1>same
  DEF FindNothingToWrite, SleepHandleVWrite, FindDataToWrite, VWriteType
<1>9. CASE TakePayload(e) \/ FailSegment(e) \/ AdvanceSequence(e) \/ EnterZWP(e)
  BY <1>1, <1>9, <1>same DEF TakePayload, FailSegment, AdvanceSequence, EnterZWP, VWriteType
<1>10. CASE StopProbing(e) \/ LeaveZWP(e) \/ FailFin(e) \/ CountFin(e)
  BY <1>1, <1>10, <1>same
  DEF StopProbing, LeaveZWP, FailFin, CountFin, VWriteType, RTQueueType
<1> QED BY <1>3, <1>4, <1>5, <1>6, <1>7, <1>8, <1>9, <1>10 DEF HandleVWrite

\* HandleRT sends the head of RTQueue once more,
LEMMA HandleRTSends ==
    ASSUME TypeOK, NEW e \in Ends, HandleRT(e)
    PROVE  Leaving(e)' \subseteq Leaving(e)
<1>1. rtq \in [Ends -> RTQueueType] /\ rtq[e].RTQueue \in Seq(Packet)
  BY DEF TypeOK, RTQueueType
<1>2. vwrite' = vwrite /\ rtq'[e].RTQueue = rtq[e].RTQueue
  BY <1>1 DEF HandleRT, CheckRTQueue, ExpireRTTimer, Retransmit, RTQueueType
<1>3. CASE net' = net
  BY <1>2, <1>3 DEF Leaving, Peer
<1>4. CASE rtq[e].RTQueue # <<>> /\ net' = Sent(e, Head(rtq[e].RTQueue))
  <2>1. Head(rtq[e].RTQueue) \in Range(rtq[e].RTQueue)
    BY <1>1, <1>4, RangeTail
  <2>2. Range(net'[Peer(e)]) \subseteq Range(net[Peer(e)]) \union {Head(rtq[e].RTQueue)}
    BY <1>4, RangeSent
  <2> QED BY <1>2, <2>1, <2>2 DEF Leaving, Peer
<1> QED BY <1>3, <1>4 DEF HandleRT, CheckRTQueue, ExpireRTTimer, Retransmit

\* HandleTCPPacket takes segments off RTQueue and acknowledges,
LEMMA HandleTCPPacketSends ==
    ASSUME TypeOK, NEW e \in Ends, HandleTCPPacket(e), NEW packet \in Leaving(e)'
    PROVE  packet \in Leaving(e) \/ Makes(e, packet)
<1> DEFINE p == Peer(e)
           working == {"probing", "finSeq", "finQueue"}
<1>1. rtq \in [Ends -> RTQueueType] /\ rtq[e].RTQueue \in Seq(Packet)
  BY DEF TypeOK, RTQueueType
<1>2. /\ net \in [Ends -> Seq(Packet)]
      /\ p \in Ends /\ p # e
  BY PeerOfPeer DEF TypeOK
<1>3. vwrite' = vwrite
  BY HandleTCPPacketFrame
<1>4. \/ vwrite[e].pc \in working /\ packet = vwrite[e].packet
      \/ packet \in Range(rtq'[e].RTQueue)
      \/ packet \in Range(net'[p])
  BY <1>3 DEF Leaving, Peer
<1>same. ASSUME rtq'[e].RTQueue = rtq[e].RTQueue, net'[p] = net[p]
         PROVE  packet \in Leaving(e)
  BY <1>4, <1>same DEF Leaving
<1>5. CASE \E i \in 1 .. MaxReorder + 1 : ReceiveNewAck(e, i)
  BY <1>1, <1>2, <1>5, <1>same DEF ReceiveNewAck, RTQueueType
<1>6. CASE \E i \in 1 .. MaxReorder + 1 : ReceiveOtherAck(e, i) \/ ReceiveOtherFin(e, i)
  BY <1>2, <1>6, <1>same DEF ReceiveOtherAck, ReceiveOtherFin
<1>7. ASSUME NEW i \in 1 .. MaxReorder + 1, ReceiveNextFin(e, i)
      PROVE  packet \in Leaving(e) \/ Makes(e, packet)
  <2> DEFINE ack == Segment(e, "ACK", <<>>, 1)
  <2>1. i \in Nat
    BY BoundAssumption
  <2>2. Makes(e, ack)
    BY <1>7, <2>1 DEF Makes
  <2> HIDE DEF ack
  <2>3. rtq' = rtq /\ net'[p] = Sent(e, ack)[p]
    BY <1>2, <1>7 DEF ReceiveNextFin, Sent, ack
  <2>4. Range(net'[p]) \subseteq Range(net[p]) \union {ack}
    BY <2>3, RangeSent
  <2> QED BY <1>4, <2>2, <2>3, <2>4 DEF Leaving
<1>8. CASE PurgeSegment(e)
  <2>1. rtq[e].RTQueue # <<>> /\ rtq'[e].RTQueue = Tail(rtq[e].RTQueue) /\ net' = net
    BY <1>1, <1>8 DEF PurgeSegment, Dequeued, RTQueueType
  <2>2. Range(rtq'[e].RTQueue) \subseteq Range(rtq[e].RTQueue)
    BY <1>1, <2>1, RangeTail
  <2> QED BY <1>4, <2>1, <2>2 DEF Leaving
<1>9. CASE FinishPurge(e)
  BY <1>1, <1>9, <1>same DEF FinishPurge, RTQueueType
<1>10. CASE SendAck(e)
  <2> DEFINE ack == Segment(e, "ACK", <<>>, 0)
  <2>1. rtq' = rtq /\ net' = Sent(e, ack) /\ Makes(e, ack)
    BY <1>10 DEF SendAck, Makes
  <2> HIDE DEF ack
  <2>2. Range(net'[p]) \subseteq Range(net[p]) \union {ack}
    BY <2>1, RangeSent
  <2> QED BY <1>4, <2>1, <2>2 DEF Leaving
<1>11. CASE CompareAckAgain(e) \/ PurgeLastFin(e) \/ UpdateWindow(e) \/ CheckProbe(e)
            \/ IgnoreEmptyText(e) \/ ReceiveNextText(e) \/ ReceiveOtherText(e)
            \/ TakeEarlyArrival(e) \/ LeaveEarlyArrivals(e)
  <2>1. rtq' = rtq /\ net' = net
    BY <1>11 DEF CompareAckAgain, PurgeLastFin, UpdateWindow, CheckProbe,
       IgnoreEmptyText, ReceiveNextText, ReceiveOtherText, TakeEarlyArrival,
       LeaveEarlyArrivals
  <2> QED BY <1>same, <2>1
<1> QED
  BY <1>5, <1>6, <1>7, <1>8, <1>9, <1>10, <1>11, Zenon DEF HandleTCPPacket

\* and it takes up what has arrived, one packet after the other.
LEMMA HandleTCPPacketTakesUp ==
    ASSUME TypeOK, NEW e \in Ends, HandleTCPPacket(e)
    PROVE  Arriving(e)' \subseteq Arriving(e)
<1> SUFFICES ASSUME NEW packet \in Arriving(e)' PROVE packet \in Arriving(e)
  OBVIOUS
<1> DEFINE between == {"idle", "done"}
<1>1. /\ net \in [Ends -> Seq(Packet)] /\ net[e] \in Seq(Packet)
      /\ handler \in [Ends -> HandlerType]
  BY DEF TypeOK
<1>2. \/ handler'[e].pc \notin between /\ packet = handler'[e].packet
      \/ packet \in Range(net'[e])
  BY DEF Arriving
<1>same. ASSUME net'[e] = net[e],
                handler'[e].pc \notin between =>
                  handler[e].pc \notin between /\ handler'[e].packet = handler[e].packet
         PROVE  packet \in Arriving(e)
  BY <1>2, <1>same DEF Arriving
<1>arrived. ASSUME NEW i \in Nat, Overtaken(e, i)
            PROVE  /\ Range(RemoveAt(net[e], i)) \subseteq Range(net[e])
                   /\ net[e][i] \in Range(net[e])
  BY <1>1, <1>arrived, RangeRemoveAt DEF Overtaken
<1>3. ASSUME NEW i \in 1 .. MaxReorder + 1, ReceiveNewAck(e, i) \/ ReceiveOtherAck(e, i)
      PROVE  packet \in Arriving(e)
  <2>1. /\ i \in Nat /\ Overtaken(e, i) /\ net'[e] = RemoveAt(net[e], i)
        /\ handler'[e].packet = net[e][i]
    BY <1>1, <1>3, BoundAssumption DEF ReceiveNewAck, ReceiveOtherAck, HandlerType
  <2> QED BY <1>2, <2>1, <1>arrived DEF Arriving
<1>4. ASSUME NEW i \in 1 .. MaxReorder + 1, ReceiveNextFin(e, i)
      PROVE  packet \in Arriving(e)
  <2> DEFINE ack == Segment(e, "ACK", <<>>, 1)
  <2> HIDE DEF ack
  <2>1. /\ i \in Nat /\ Overtaken(e, i) /\ net' = [Sent(e, ack) EXCEPT ![e] = RemoveAt(@, i)]
        /\ handler' = handler
    BY <1>4, BoundAssumption DEF ReceiveNextFin, ack
  <2>2. Sent(e, ack)[e] = net[e] /\ e \in DOMAIN Sent(e, ack)
    BY <1>1, SentOther DEF Sent
  <2>3. net'[e] = RemoveAt(net[e], i)
    BY <2>1, <2>2
  <2> QED BY <1>2, <2>1, <2>3, <1>arrived DEF Arriving
<1>5. ASSUME NEW i \in 1 .. MaxReorder + 1, ReceiveOtherFin(e, i)
      PROVE  packet \in Arriving(e)
  <2>1. i \in Nat /\ Overtaken(e, i) /\ net'[e] = RemoveAt(net[e], i) /\ handler' = handler
    BY <1>1, <1>5, BoundAssumption DEF ReceiveOtherFin
  <2> QED BY <1>2, <2>1, <1>arrived DEF Arriving
<1>6. CASE SendAck(e)
  <2> DEFINE ack == Segment(e, "ACK", <<>>, 0)
  <2>1. handler'[e].pc \in between /\ net' = Sent(e, ack)
    BY <1>1, <1>6 DEF SendAck, Idle, HandlerType
  <2> HIDE DEF ack
  <2>2. net'[e] = net[e]
    BY <1>1, <2>1, SentOther
  <2> QED BY <1>same, <2>1, <2>2
<1>7. CASE ReceiveNextText(e) \/ ReceiveOtherText(e) \/ TakeEarlyArrival(e)
           \/ LeaveEarlyArrivals(e)
  BY <1>1, <1>7, <1>same
  DEF ReceiveNextText, ReceiveOtherText, TakeEarlyArrival, LeaveEarlyArrivals, HandlerType
<1>8. CASE CompareAckAgain(e) \/ PurgeLastFin(e) \/ FinishPurge(e) \/ UpdateWindow(e)
  BY <1>1, <1>8, <1>same
  DEF CompareAckAgain, PurgeLastFin, FinishPurge, UpdateWindow, HandlerType
<1>9. CASE PurgeSegment(e) \/ CheckProbe(e) \/ IgnoreEmptyText(e)
  BY <1>1, <1>9, <1>same
  DEF PurgeSegment, CheckProbe, IgnoreEmptyText, Idle, HandlerType
<1> QED
  BY <1>3, <1>4, <1>5, <1>6, <1>7, <1>8, <1>9 DEF HandleTCPPacket

\* The application leaves the packets alone, and the network only drops some.
LEMMA OthersSendNothing ==
    ASSUME TypeOK, NEW e \in Ends,
           Application(e) \/ TimeWait(e) \/ Discard(e) \/ Lose(e)
    PROVE  Leaving(e)' \subseteq Leaving(e) /\ Arriving(e)' \subseteq Arriving(e)
<1>1. /\ vwrite \in [Ends -> VWriteType]
      /\ net \in [Ends -> Seq(Packet)] /\ net[e] \in Seq(Packet)
  BY DEF TypeOK
<1>2. /\ rtq' = rtq /\ vwrite'[e].packet = vwrite[e].packet
      /\ vwrite'[e].pc # vwrite[e].pc => vwrite'[e].pc = "lock"
  <2>1. CASE CallVWrite(e) \/ VWrite(e)
    BY <1>1, <2>1, CallVWriteFrame DEF CallVWrite, VWrite, WokenVWrite, VWriteType
  <2>2. CASE VClose(e)
    BY <1>1, <2>2, VCloseFrame
    DEF VClose, CallVClose, AssignFinWait1, WakeHandleVWrite, AssignLastAck,
        WokenVWrite, VWriteType
  <2> QED BY <2>1, <2>2, VReadFrame, NetworkFrame DEF Application
<1>3. handler' = handler
  BY CallVWriteFrame, VReadFrame, VCloseFrame, NetworkFrame DEF Application
<1>4. Range(net'[e]) \subseteq Range(net[e]) /\ net'[Peer(e)] = net[Peer(e)]
  <2>1. CASE net' = net
    BY <2>1
  <2>2. CASE net[e] # <<>> /\ net' = [net EXCEPT ![e] = Tail(@)]
    BY <1>1, <2>2, RangeTail, PeerOfPeer
  <2> QED
    BY <2>1, <2>2, CallVWriteFrame, VReadFrame, VCloseFrame
    DEF Application, TimeWait, Discard, Lose
<1> QED BY <1>2, <1>3, <1>4 DEF Leaving, Arriving, Peer

\* The sender's goroutines take nothing up; they may let HandleTCPPacket go on.
LEMMA SenderTakesNothingUp ==
    ASSUME TypeOK, NEW e \in Ends, HandleVWrite(e) \/ HandleRT(e)
    PROVE  Arriving(e)' \subseteq Arriving(e)
<1>1. /\ handler \in [Ends -> HandlerType] /\ net \in [Ends -> Seq(Packet)]
      /\ Peer(e) # e
  BY PeerOfPeer DEF TypeOK
<1>2. \/ handler' = handler
      \/ handler[e].pc = "stop" /\ handler'[e].packet = handler[e].packet
  BY <1>1, HandleRTFrame
  DEF HandlerType,
      HandleVWrite, FindNothingToWrite, SleepHandleVWrite, FindDataToWrite,
      TakePayload, SendSegment, FailSegment, AdvanceSequence, EnterZWP, ArmZWP,
      SendProbe, StopProbing, LeaveZWP, SendFin, FailFin, CountFin, QueueFin
<1>3. net'[e] = net[e]
  BY <1>1, SentOther
  DEF HandleVWrite, FindNothingToWrite, SleepHandleVWrite, FindDataToWrite,
      TakePayload, SendSegment, FailSegment, AdvanceSequence, EnterZWP, ArmZWP,
      SendProbe, StopProbing, LeaveZWP, SendFin, FailFin, CountFin, QueueFin,
      HandleRT, CheckRTQueue, ExpireRTTimer, Retransmit
<1> QED BY <1>2, <1>3 DEF Arriving

\* A step hands packets with a window on, drops some, or makes one.
LEMMA LiveStep ==
    ASSUME TypeOK, Next, NEW e \in Ends, NEW packet \in Live(e)'
    PROVE  packet \in Live(e) \/ Makes(e, packet)
<1> DEFINE p == Peer(e)
           goal == packet \in Live(e) \/ Makes(e, packet)
<1>1. p \in Ends /\ p # e /\ Peer(p) = e /\ Ends = {e, p}
  BY PeerOfPeer
<1>2. packet \in Leaving(e)' \/ packet \in Arriving(p)'
  BY DEF Live, Peer
<1>3. PICK a \in Ends :
        \/ HandleVWrite(a) \/ HandleRT(a) \/ HandleTCPPacket(a)
        \/ Application(a) \/ TimeWait(a) \/ Discard(a) \/ Lose(a)
  BY DEF Next
<1>4. CASE a = e
  <2>1. packet \in Leaving(e)' => goal
    BY <1>3, <1>4, HandleVWriteSends, HandleRTSends, HandleTCPPacketSends, OthersSendNothing
    DEF Live
  <2>2. packet \in Arriving(p)' => packet \in Arriving(p) \/ packet \in Leaving(e)'
    <3>1. handler'[p] = handler[p]
      BY <1>1, <1>3, <1>4, OtherEndHolds
    <3> QED BY <1>1, <3>1 DEF Arriving, Leaving, Peer
  <2> QED BY <1>1, <1>2, <2>1, <2>2 DEF Live
<1>5. CASE a = p
  <2>1. packet \in Arriving(p)' => goal
    BY <1>1, <1>3, <1>5, HandleTCPPacketTakesUp, SenderTakesNothingUp, OthersSendNothing
    DEF Live
  <2>2. packet \in Leaving(e)' => packet \in Leaving(e) \/ packet \in Arriving(p)'
    <3>1. vwrite'[e] = vwrite[e] /\ rtq'[e] = rtq[e]
      BY <1>1, <1>3, <1>5, OtherEndHolds
    <3> QED BY <1>1, <3>1 DEF Arriving, Leaving, Peer
  <2> QED BY <1>1, <1>2, <2>1, <2>2 DEF Live
<1> QED BY <1>1, <1>3, <1>4, <1>5

------------------------------------------------------------------------------
(* When nobody probes *)

\* What ReadBuffer of end e always has room for, if all of the peer's stream
\* may lie in it.
Room(e) == MaxBufferSize - ToWrite[Peer(e)]

\* Streams fit twice into a buffer: once as what is unread, once as what is in
\* flight.
StreamsFit == \A e \in Ends : 2 * ToWrite[e] <= MaxBufferSize

\* RTQueue has no more bytes than HandleVWrite has sent.
QueueFits ==
    \A e \in Ends : BytesOf(rtq[e].RTQueue) <= snd[e].NumberBytesSent + Uncounted(e)

\* The window an end advertises, in packets however old, and the one its peer
\* believes in, leave room for that.
WindowsOpen ==
    \A e \in Ends :
        /\ \A packet \in Live(e) : packet.WindowSize >= Room(e)
        /\ snd[Peer(e)].RemoteWindowSize >= Room(e)

ProbeInv == QueueFits /\ WindowsOpen /\ \A e \in Ends : vwrite[e].pc # "zwp"

LEMMA QueueFitsStep ==
    ASSUME IInv, NumbersFit, NumbersWritten, QueueFits, Next
    PROVE  QueueFits'
<1> SUFFICES ASSUME NEW e \in Ends
             PROVE  BytesOf(rtq'[e].RTQueue) <= snd'[e].NumberBytesSent + Uncounted(e)'
  BY DEF QueueFits
<1> DEFINE queue == rtq[e].RTQueue
           sent == snd[e].NumberBytesSent + Uncounted(e)
<1>1. /\ queue \in Seq(Packet) /\ \A item \in Packet : Len(item.Data) \in Nat
      /\ vwrite \in [Ends -> VWriteType]
  BY DEF IInv, TypeOK, RTQueueType, Packet, Text
<1>2. /\ snd[e].NumberBytesSent \in Nat /\ Uncounted(e) \in Nat
      /\ snd'[e].NumberBytesSent \in Nat /\ Uncounted(e)' \in Nat
      /\ InitSeqNum[e] \in Nat
  <2>1. /\ snd[e].NumberBytesSent \in Nat /\ Uncounted(e) \in Nat
        /\ InitSeqNum[e] \in Nat
    BY InHandType, SenderNumbers, PayloadSizes DEF IInv
  <2>2. snd' \in [Ends -> SenderType] /\ vwrite' \in [Ends -> VWriteType]
    BY StepIInv DEF IInv, TypeOK
  <2>3. snd'[e].NumberBytesSent \in Nat /\ Len(vwrite'[e].payload) \in Nat
    BY <2>2, SizeAssumption DEF SenderType, SeqNums, VWriteType
  <2>4. Uncounted(e)' \in Nat
    BY <2>3, SizeType DEF Uncounted, SegmentSize, Smaller
  <2> QED BY <2>1, <2>3, <2>4
<1>3. sent <= sent'
  <2>1. CASE vwrite[e].pc = "finQueue"
    <3>1. Uncounted(e) = 0
      BY <2>1 DEF Uncounted
    <3> QED BY <1>2, <3>1, FrontierGrows
  <2>2. CASE vwrite[e].pc # "finQueue"
    BY <1>2, <2>2, FrontierGrows DEF Frontier
  <2> QED BY <2>1, <2>2
<1>4. NoPacket \in Packet
  BY SizeAssumption DEF NoPacket, Packet, SeqNums, Windows, Text
<1>5. \A item \in Packet :
        /\ BytesOf(queue) \in Nat
        /\ BytesOf(Append(queue, item)) = BytesOf(queue) + Len(item.Data)
  BY <1>1, BytesAppended
<1>6. BytesOf(queue) \in Nat /\ BytesOf(queue) <= sent
  BY <1>4, <1>5 DEF QueueFits
<1>7. CASE queue' = queue
  BY <1>2, <1>3, <1>6, <1>7
<1>8. CASE /\ SendSegment(e)
           /\ queue' = Append(queue, Segment(e, "ACK", First(vwrite[e].payload, SegmentSize(e)), 0))
  <2> DEFINE data == First(vwrite[e].payload, SegmentSize(e))
             segment == Segment(e, "ACK", data, 0)
  <2>1. Len(data) = SegmentSize(e) /\ data \in Text /\ SegmentSize(e) \in Nat
    <3>1. SegmentSize(e) \in 0 .. Len(vwrite[e].payload) /\ vwrite[e].payload \in Seq(Byte)
      BY PayloadSizes DEF IInv
    <3>2. data \in Seq(Byte) /\ Len(data) = SegmentSize(e)
      BY <3>1, FirstType
    <3>3. SegmentSize(e) \in 0 .. MaxSegmentSize
      <4>1. MaxSegmentSize \in Nat /\ Len(vwrite[e].payload) \in Nat
        BY <3>1, SizeType
      <4> QED BY <4>1, SmallerRange DEF SegmentSize
    <3> QED BY <3>2, <3>3 DEF Text
  <2>2. segment \in Packet /\ segment.Data = data
    <3>1. segment \in Packet
      BY <2>1, SegmentType DEF IInv
    <3> QED BY <3>1 DEF Segment
  <2>3. BytesOf(queue') = BytesOf(queue) + SegmentSize(e)
    BY <1>5, <1>8, <2>1, <2>2
  <2>4. sent' = sent + SegmentSize(e)
    <3>1. Frontier(e)' = Frontier(e) + SegmentSize(e)
      BY <1>8, FrontierGrows
    <3>2. vwrite[e].pc = "segment" /\ vwrite'[e].pc = "advance"
      BY <1>1, <1>8 DEF SendSegment, VWriteType
    <3>3. Frontier(e) = InitSeqNum[e] + 1 + sent /\ Frontier(e)' = InitSeqNum[e] + 1 + sent'
      BY <1>2, <3>2 DEF Frontier
    <3> HIDE DEF sent
    <3>4. sent \in Nat /\ sent' \in Nat
      BY <1>2 DEF sent
    <3> QED BY <1>2, <2>1, <3>1, <3>3, <3>4, SMTT(30)
  <2> HIDE DEF queue, sent
  <2> QED BY <1>2, <1>6, <2>1, <2>3, <2>4 DEF sent, queue
<1>9. CASE QueueFin(e) /\ queue' = Append(queue, vwrite[e].packet)
  <2>1. vwrite[e].packet \in Packet /\ vwrite[e].packet.Data = <<>>
    BY <1>1, <1>9 DEF QueueFin, IInv, HandleVWriteHolds, VWriteType
  <2>2. BytesOf(queue') = BytesOf(queue)
    BY <1>5, <1>6, <1>9, <2>1
  <2>3. sent \in Nat /\ sent' \in Nat
    BY <1>2
  <2> HIDE DEF queue, sent
  <2>4. BytesOf(queue') <= sent'
    BY <1>3, <1>6, <2>2, <2>3
  <2> QED BY <2>4 DEF queue, sent
<1>10. CASE PurgeSegment(e) /\ queue' = Tail(queue)
  <2>1. queue # <<>>
    BY <1>10 DEF PurgeSegment
  <2>2. BytesOf(Tail(queue)) = BytesOf(queue) - Len(Head(queue).Data)
        /\ Len(Head(queue).Data) \in Nat
    BY <1>1, <2>1, BytesOfTail
  <2>3. sent \in Nat /\ sent' \in Nat
    BY <1>2
  <2> HIDE DEF queue, sent
  <2>4. BytesOf(queue') <= sent'
    BY <1>3, <1>6, <1>10, <2>2, <2>3
  <2> QED BY <2>4 DEF queue, sent
<1> QED BY <1>7, <1>8, <1>9, <1>10, QueueStep DEF IInv

\* The only step that changes the window an end believes in is UpdateWindow,
\* which takes it from a packet it works on.
LEMMA RemoteWindowStep ==
    ASSUME IInv, Next, NEW e \in Ends
    PROVE  \/ snd'[e].RemoteWindowSize = snd[e].RemoteWindowSize
           \/ \E packet \in Live(Peer(e)) : snd'[e].RemoteWindowSize = packet.WindowSize
<1> DEFINE same == snd'[e].RemoteWindowSize = snd[e].RemoteWindowSize
<1>1. snd \in [Ends -> SenderType] /\ handler \in [Ends -> HandlerType]
  BY DEF IInv, TypeOK
<1>2. PICK a \in Ends :
        \/ HandleVWrite(a) \/ HandleRT(a) \/ HandleTCPPacket(a)
        \/ Application(a) \/ TimeWait(a) \/ Discard(a) \/ Lose(a)
  BY DEF Next
<1>3. CASE HandleVWrite(a)
  BY <1>1, <1>3, SMTT(30)
  DEF HandleVWrite, FindNothingToWrite, SleepHandleVWrite, FindDataToWrite,
      TakePayload, SendSegment, FailSegment, AdvanceSequence, EnterZWP, ArmZWP,
      SendProbe, StopProbing, LeaveZWP, SendFin, FailFin, CountFin, QueueFin,
      SenderType
<1>4. CASE HandleRT(a) \/ Application(a) \/ TimeWait(a) \/ Discard(a) \/ Lose(a)
  BY <1>4, HandleRTFrame, CallVWriteFrame, VReadFrame, VCloseFrame, NetworkFrame
  DEF Application
<1>5. CASE HandleTCPPacket(a)
  <2>1. ASSUME NEW i \in 1 .. MaxReorder + 1, ReceiveNewAck(a, i)
        PROVE  same
    BY <1>1, <2>1 DEF ReceiveNewAck, SenderType
  <2>2. CASE UpdateWindow(a)
    <3>1. CASE a # e
      BY <1>1, <2>2, <3>1 DEF UpdateWindow, SenderType
    <3>2. CASE a = e
      <4>1. handler[e].packet \in Live(Peer(e))
        BY <2>2, <3>2, PeerOfPeer DEF UpdateWindow, Live, Arriving
      <4>2. \/ same
            \/ snd'[e].RemoteWindowSize = handler[e].packet.WindowSize
        BY <1>1, <2>2, <3>2 DEF UpdateWindow, SenderType
      <4> QED BY <4>1, <4>2
    <3> QED BY <3>1, <3>2
  <2>3. CASE snd' = snd
    BY <2>3
  <2> HIDE DEF same
  <2> QED
    BY <1>5, <2>1, <2>2, <2>3
    DEF HandleTCPPacket, ReceiveOtherAck, ReceiveNextFin, ReceiveOtherFin,
        CompareAckAgain, PurgeSegment, PurgeLastFin, FinishPurge, CheckProbe,
        IgnoreEmptyText, ReceiveNextText, ReceiveOtherText, TakeEarlyArrival,
        LeaveEarlyArrivals, SendAck, same
<1> QED BY <1>2, <1>3, <1>4, <1>5

\* ReadBuffer holds no more than the peer has written.
LEMMA ReadBufferHasRoom ==
    ASSUME IInv, NumbersInv, ContentInv, NEW e \in Ends
    PROVE  ReadBufferFree(e) \in Nat /\ Room(e) \in Int /\ ReadBufferFree(e) >= Room(e)
<1> DEFINE p == Peer(e)
           next == rcv[e].NextExpectedByte
           buffer == rcv[e].ReadBuffer
<1>1. p \in Ends /\ Peer(p) = e
  BY PeerOfPeer
<1>2. /\ buffer \in Seq(Byte) /\ Len(buffer) \in Nat /\ Len(buffer) <= MaxBufferSize
      /\ reader[e].delivered \in Seq(Byte)
      /\ next \in Nat /\ MaxBufferSize \in Nat
  BY SenderNumbers, SizeAssumption, SMTT(30) DEF IInv, TypeOK, ReceiverType, ReaderType, Buffer
<1>3. /\ writer[p].written \in Nat /\ writer[p].written <= ToWrite[p]
      /\ ToWrite[p] \in Nat
  BY <1>1, WorkloadAssumption DEF IInv, TypeOK, WriterType, WrittenInRange
<1>4. next <= 1 + writer[p].written
  BY <1>1 DEF NumbersInv, DataNumbered, DataBefore
<1>5. Len(buffer) <= next - 1
  <2>1. Len(reader[e].delivered \o buffer) = next - 1
    BY DEF ContentInv, ReceivedInStream, Readable
  <2>2. Len(reader[e].delivered \o buffer) = Len(reader[e].delivered) + Len(buffer)
    BY <1>2, ConcatProperties
  <2>3. PICK got \in Nat : got = Len(reader[e].delivered)
    BY <1>2
  <2>4. got + Len(buffer) = next - 1
    BY <2>1, <2>2, <2>3
  <2> QED BY <1>2, <2>4
<1>6. PICK held \in Nat : held = Len(buffer)
  BY <1>2
<1>7. held <= ToWrite[p]
  <2> HIDE DEF next, p
  <2> QED BY <1>2, <1>3, <1>4, <1>5, <1>6
<1>8. ReadBufferFree(e) = MaxBufferSize - held /\ Room(e) = MaxBufferSize - ToWrite[p]
  BY <1>6 DEF ReadBufferFree, Room
<1> HIDE DEF p
<1> QED BY <1>2, <1>3, <1>6, <1>7, <1>8

LEMMA WindowsOpenStep ==
    ASSUME IInv, NumbersInv, ContentInv, WindowsOpen, Next
    PROVE  WindowsOpen'
<1>1. ASSUME NEW e \in Ends, NEW packet \in Live(e)'
      PROVE  packet.WindowSize >= Room(e)
  <2>1. ASSUME Makes(e, packet)
        PROVE  packet.WindowSize = ReadBufferFree(e)
    BY <2>1 DEF Makes, Segment
  <2> QED BY <1>1, <2>1, LiveStep, ReadBufferHasRoom DEF WindowsOpen, IInv
<1>2. ASSUME NEW e \in Ends
      PROVE  snd'[Peer(e)].RemoteWindowSize >= Room(e)
  BY <1>2, PeerOfPeer, RemoteWindowStep DEF WindowsOpen
<1> QED BY <1>1, <1>2 DEF WindowsOpen, Room, Peer

\* With bytes left in WriteBuffer, less than the stream is in flight, and the
\* peer has room for as much again.
LEMMA ZeroWindowNeverSeen ==
    ASSUME StreamsFit, NumbersFit, IInv, NumbersInv, InFlightAccounting, ProbeInv,
           NEW e \in Ends, FindDataToWrite(e)
    PROVE  vwrite'[e].pc = "size"
<1> DEFINE queue == rtq[e].RTQueue
           bytes == rtq[e].BytesInFlight
           sent == snd[e].NumberBytesSent
           window == snd[e].RemoteWindowSize
<1>1. vwrite[e].pc = "lock" /\ WriteBuffer[e] # <<>> /\ vwrite \in [Ends -> VWriteType]
  BY DEF FindDataToWrite, IInv, TypeOK
<1>2. bytes <= BytesOf(queue) /\ BytesOf(queue) <= sent
  <2>1. queue \in Seq(Packet) /\ \A item \in Packet : Len(item.Data) \in Nat
    BY DEF IInv, TypeOK, RTQueueType, Packet, Text
  <2>2. NoPacket \in Packet
    BY SizeAssumption DEF NoPacket, Packet, SeqNums, Windows, Text
  <2>3. BytesOf(queue) \in Nat
    BY <2>1, <2>2, BytesAppended
  <2>4. Probed(e) = 0 /\ Uncounted(e) = 0
    BY <1>1 DEF Probed, Uncounted
  <2>5. bytes = (BytesOf(queue) + 0) % Word
    BY <2>4 DEF InFlightAccounting
  <2>6. Word \in Nat \ {0} /\ sent \in Nat
    BY SizeType, InHandType DEF Word, IInv
  <2>7. bytes = BytesOf(queue) % Word
    <3> HIDE DEF queue, bytes
    <3> QED BY <2>3, <2>5
  <2>8. BytesOf(queue) <= sent + 0
    BY <2>4 DEF ProbeInv, QueueFits
  <2> HIDE DEF queue, bytes, sent
  <2>9. bytes <= BytesOf(queue)
    BY <2>3, <2>6, <2>7, ModLess
  <2> QED BY <2>3, <2>6, <2>8, <2>9
<1>3. sent + 1 <= ToWrite[e]
  <2>1. sent + Unsent(e) + Buffered(e) <= writer[e].written
    BY <1>1, FitIsShort, NumbersMove DEF NumbersInv
  <2>2. Buffered(e) >= 1
    BY <1>1, PayloadSizes, EmptySeq DEF Buffered, IInv
  <2>3. writer[e].written <= ToWrite[e] /\ ToWrite[e] \in Nat
    BY WorkloadAssumption DEF IInv, WrittenInRange
  <2> HIDE DEF sent
  <2> QED BY <2>1, <2>2, <2>3, InHandType DEF sent, IInv
<1>4. window >= MaxBufferSize - ToWrite[e]
  BY PeerOfPeer DEF ProbeInv, WindowsOpen, Room
<1>5. 2 * ToWrite[e] <= MaxBufferSize /\ ToWrite[e] \in Nat /\ MaxBufferSize \in Nat
  BY WorkloadAssumption, SizeAssumption DEF StreamsFit
<1>6. bytes \in Nat /\ window \in Nat /\ BytesOf(queue) \in Int /\ sent \in Nat
  <2>1. bytes \in Nat /\ window \in Nat /\ sent \in Nat
    BY SizeAssumption, SenderNumbers DEF IInv, TypeOK, RTQueueType, SenderType, Windows
  <2>2. queue \in Seq(Packet) /\ \A item \in Packet : Len(item.Data) \in Nat
    BY DEF IInv, TypeOK, RTQueueType, Packet, Text
  <2>3. NoPacket \in Packet
    BY SizeAssumption DEF NoPacket, Packet, SeqNums, Windows, Text
  <2> QED BY <2>1, <2>2, <2>3, BytesAppended
<1>7. window - bytes > 0
  <2> HIDE DEF window, bytes, queue, sent
  <2> QED BY <1>2, <1>3, <1>4, <1>5, <1>6
<1> QED BY <1>1, <1>7 DEF FindDataToWrite, VWriteType

LEMMA NoZwpStep ==
    ASSUME StreamsFit, NumbersFit, IInv, NumbersInv, InFlightAccounting, ProbeInv, Next
    PROVE  \A e \in Ends : vwrite'[e].pc # "zwp"
<1> SUFFICES ASSUME NEW e \in Ends PROVE vwrite'[e].pc # "zwp"
  OBVIOUS
<1>1. vwrite \in [Ends -> VWriteType] /\ vwrite[e].pc # "zwp"
  BY DEF IInv, TypeOK, ProbeInv
<1>2. CASE FindDataToWrite(e)
  BY <1>2, ZeroWindowNeverSeen
<1>3. CASE HandleVWrite(e) /\ ~FindDataToWrite(e)
  BY <1>1, <1>3
  DEF HandleVWrite, FindNothingToWrite, SleepHandleVWrite, TakePayload, SendSegment,
      FailSegment, AdvanceSequence, EnterZWP, ArmZWP, SendProbe, StopProbing, LeaveZWP,
      SendFin, FailFin, CountFin, QueueFin, VWriteType
<1>4. CASE VWrite(e)
  BY <1>1, <1>4, VWriteHandsOver DEF IInv
<1> QED BY <1>1, <1>2, <1>3, <1>4, SendingStep DEF IInv

LEMMA InitProbeInv == Init => ProbeInv
<1> SUFFICES ASSUME Init, NEW e \in Ends
             PROVE  /\ BytesOf(rtq[e].RTQueue) <= snd[e].NumberBytesSent + Uncounted(e)
                    /\ Live(e) = {}
                    /\ snd[Peer(e)].RemoteWindowSize >= Room(e)
                    /\ vwrite[e].pc # "zwp"
  BY DEF ProbeInv, QueueFits, WindowsOpen
<1>1. Peer(e) \in Ends /\ Peer(Peer(e)) = e
  BY PeerOfPeer
<1>2. /\ rtq[e].RTQueue = <<>> /\ vwrite[e].pc \in {"waiting", "lock"}
      /\ snd[e].NumberBytesSent = 0
      /\ snd[Peer(e)].RemoteWindowSize = MaxBufferSize
  BY <1>1 DEF Init, InitialSender
<1>3. Uncounted(e) = 0
  BY <1>2 DEF Uncounted
<1>4. Live(e) = {}
  BY <1>1, <1>2 DEF Init, Live, Leaving, Arriving, Range
<1>5. MaxBufferSize >= Room(e)
  BY <1>1, SizeAssumption, WorkloadAssumption DEF Room
<1> QED BY <1>2, <1>3, <1>4, <1>5, BytesOfNothing

\* Every byte that VWrite handed over is at hand until the peer has received it,
\* on constants alone: numbers do not wrap, SendIP does not fail and a stream
\* fits twice into a buffer.  Then no early arrival is cut, and no schedule,
\* reader or delay of ACKs ever lets HandleVWrite see a closed window
\* (socket.go:324) and probe.
THEOREM SmallStreamsLoseNothing ==
    ASSUME NumbersFit, MaxSendErr = 0, StreamsFit
    PROVE  Spec => []NothingLost
<1> DEFINE Inv == ContentInv /\ ProbeInv
<1>0. ShortStreams /\ \A e \in Ends : ToWrite[e] <= MaxBufferSize
  BY FitIsShort, WorkloadAssumption, SizeAssumption DEF StreamsFit
<1>1. Init => Inv
  BY InitContentInv, InitProbeInv
<1>2. IInv /\ NumbersInv /\ InFlightAccounting /\ Inv /\ [Next]_vars
        => Inv' /\ [NeverFails /\ NeverProbes]_vars
  <2> SUFFICES ASSUME IInv, NumbersInv, InFlightAccounting, ContentInv, ProbeInv, [Next]_vars
               PROVE  ContentInv' /\ ProbeInv' /\ [NeverFails /\ NeverProbes]_vars
    OBVIOUS
  <2>1. CASE Next
    <3>1. DropsNothing
      BY <1>0, <2>1, NothingIsDropped
    <3>2. ContentInv'
      BY <1>0, <3>1, StepContentInv
    <3>3. ProbeInv'
      BY <2>1, QueueFitsStep, WindowsOpenStep, NoZwpStep DEF ProbeInv, NumbersInv
    <3>4. NeverProbes
      BY DEF NeverProbes, ProbeInv, EnterZWP
    <3> QED BY <3>1, <3>2, <3>3, <3>4 DEF DropsNothing
  <2>2. CASE UNCHANGED vars
    <3>1. ContentInv'
      BY <1>0, <2>2, StepContentInv
    <3>2. ProbeInv'
      BY <2>2
      DEF vars, ProbeInv, QueueFits, Uncounted, SegmentSize, WindowsOpen, Live, Leaving,
          Arriving, Room, Peer
    <3> QED BY <2>2, <3>1, <3>2
  <2> QED BY <2>1, <2>2
<1>3. Spec => [][NeverFails /\ NeverProbes]_vars
  <2> HIDE DEF Inv
  <2> QED
    BY <1>0, <1>1, <1>2, InductiveInvariant, NumbersAgree, InFlightIsCounted, PTL DEF Spec
<1> QED BY <1>3, NothingIsLost, PTL
==============================================================================
