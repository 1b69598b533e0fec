------------------------ MODULE TcpConnection_proofs -------------------------
(***************************************************************************)
(* The type invariant of a connection, for every size of buffers, segments *)
(* and sequence space, every workload and every number of faults.  It is   *)
(* not inductive by itself: HandleVWrite gives its locks back between      *)
(* finding data and sending it, and VWrite computes how much is left to    *)
(* write, so that the two facts below have to be carried along.            *)
(*                                                                         *)
(* There is a lemma for each goroutine or thread, with a step for each of  *)
(* its actions, and a "frame" lemma naming the variables it leaves alone.  *)
(*                                                                         *)
(* Then: a socket is deleted only after both ends have closed.  That proof *)
(* follows the packets an end has made wherever they are: about to be      *)
(* sent, kept for retransmission, on their way, being handled, or waiting  *)
(* among the early arrivals.  A step hands them on, drops them, or makes   *)
(* one new packet, which PacketsStep shows once for all proofs.            *)
(***************************************************************************)
EXTENDS TcpProperties, SequenceTheorems, TLAPS

\* What HandleVWrite relies on between two of its steps: the buffer it found
\* filled is so while it holds WriteLock, the payload of a probe is one byte,
\* a FIN carries no data.
HandleVWriteHolds ==
    \A e \in Ends :
        /\ vwrite[e].pc \in {"size", "zwp"} => WriteBuffer[e] # <<>>
        /\ vwrite[e].pc = "zwpArm" => Len(vwrite[e].payload) = 1
        /\ vwrite[e].pc \in {"finSeq", "finQueue"} => vwrite[e].packet.Data = <<>>

\* VWrite hands over no more than it is given.
WrittenInRange == \A e \in Ends : writer[e].written <= ToWrite[e]

\* A remainder lies below its modulus.
LEMMA ModRange ==
    ASSUME NEW x \in Int, NEW m \in Nat \ {0}
    PROVE  x % m \in 0 .. m - 1
BY SMT

\* MaxBufferSize and MaxSegmentSize are positive.
LEMMA SizeType == MaxBufferSize \in Nat \ {0} /\ MaxSegmentSize \in Nat \ {0}
BY SizeAssumption

\* Taking bytes from the front of a buffer, as ringbuffer.Read does, yields
\* so many of its elements,
LEMMA FirstType ==
    ASSUME NEW S, NEW s \in Seq(S), NEW n \in 0 .. Len(s)
    PROVE  First(s, n) \in Seq(S) /\ Len(First(s, n)) = n
BY DEF First

\* and leaves the others.
LEMMA AfterType ==
    ASSUME NEW S, NEW s \in Seq(S), NEW n \in 0 .. Len(s)
    PROVE  After(s, n) \in Seq(S) /\ Len(After(s, n)) = Len(s) - n
BY DEF After

\* Popping a segment from a queue or heap leaves elements of it.
LEMMA RemoveAtType ==
    ASSUME NEW S, NEW s \in Seq(S), NEW i \in 1 .. Len(s)
    PROVE  RemoveAt(s, i) \in Seq(S)
BY DEF RemoveAt

\* The min(...) of HandleVWrite and VWrite is bounded by both arguments.
LEMMA SmallerRange ==
    ASSUME NEW x \in Nat, NEW y \in Nat
    PROVE  Smaller(x, y) \in 0 .. x /\ Smaller(x, y) \in 0 .. y
BY DEF Smaller

\* The other end is an end.
LEMMA PeerType ==
    ASSUME NEW e \in Ends
    PROVE  Peer(e) \in Ends
BY DEF Peer, Ends

\* uint32 arithmetic stays within the sequence space.
LEMMA SeqNumRange ==
    ASSUME NEW x \in Int
    PROVE  x % SeqSpace \in SeqNums
BY ModRange, SizeAssumption DEF SeqNums

\* uint16 arithmetic on windows and BytesInFlight stays within its width.
LEMMA WordRange ==
    ASSUME NEW x \in Int
    PROVE  x % Word \in Windows
<1>1. Word \in Nat \ {0} /\ Word - 1 = MaxBufferSize
  BY SizeAssumption DEF Word
<1> QED BY <1>1, ModRange DEF Windows

\* A segment made by HandleVWrite, SendFinPacket or HandleTCPPacket is a
\* well-formed packet: at most MaxSegmentSize bytes, window and numbers in range.
LEMMA SegmentType ==
    ASSUME TypeOK, NEW e \in Ends, NEW flags \in {"ACK", "FIN"},
           NEW data \in Text, NEW extra \in 0 .. 1
    PROVE  Segment(e, flags, data, extra) \in Packet
<1>1. NextSequenceNumber(e) \in SeqNums
  <2>1. snd[e].NumberBytesSent \in Nat /\ InitSeqNum[e] \in Nat
    BY SizeAssumption DEF TypeOK, SenderType, SeqNums
  <2> QED BY <2>1, SeqNumRange DEF NextSequenceNumber
<1>2. (rcv[e].NextExpectedByte + InitSeqNum[Peer(e)] + extra) % SeqSpace \in SeqNums
  <2>1. rcv[e].NextExpectedByte \in Nat
    BY SizeAssumption DEF TypeOK, ReceiverType, SeqNums
  <2>2. InitSeqNum[Peer(e)] \in Nat
    BY PeerType, SizeAssumption
  <2> QED BY <2>1, <2>2, SeqNumRange
<1>3. ReadBufferFree(e) \in Windows
  <2>1. rcv[e].ReadBuffer \in Buffer
    BY DEF TypeOK, ReceiverType
  <2> QED BY <2>1, SizeAssumption DEF ReadBufferFree, Windows, Buffer
<1> QED BY <1>1, <1>2, <1>3 DEF Segment, Packet

\* SendIP puts a packet on its way to the peer, as a well-formed queue,
LEMMA SentType ==
    ASSUME TypeOK, NEW e \in Ends, NEW packet \in Packet
    PROVE  Sent(e, packet) \in [Ends -> Seq(Packet)]
BY PeerType DEF Sent, TypeOK

\* and leaves what is on its way to the sender.
LEMMA SentOther ==
    ASSUME net \in [Ends -> Seq(Packet)], NEW e \in Ends, NEW packet
    PROVE  Sent(e, packet)[e] = net[e]
BY EndsAssumption DEF Sent, Peer, Ends

\* A Broadcast changes only where the woken goroutine stands.
LEMMA WokenType ==
    ASSUME TypeOK, NEW e \in Ends
    PROVE  /\ WokenVWrite(e) \in [Ends -> VWriteType]
           /\ WokenWriter(e) \in [Ends -> WriterType]
           /\ WokenReader(e) \in [Ends -> ReaderType]
           /\ WokenRT(e) \in [Ends -> RTStates]
<1>1. WokenVWrite(e) \in [Ends -> VWriteType]
  <2>1. vwrite \in [Ends -> VWriteType]
    BY DEF TypeOK
  <2> QED BY <2>1 DEF WokenVWrite, VWriteType, VWriteStates
<1>2. WokenWriter(e) \in [Ends -> WriterType]
  <2>1. writer \in [Ends -> WriterType]
    BY DEF TypeOK
  <2> QED BY <2>1 DEF WokenWriter, WriterType
<1>3. WokenReader(e) \in [Ends -> ReaderType]
  <2>1. reader \in [Ends -> ReaderType]
    BY DEF TypeOK
  <2> QED BY <2>1 DEF WokenReader, ReaderType
<1>4. WokenRT(e) \in [Ends -> RTStates]
  BY DEF WokenRT, RTStates, TypeOK
<1> QED BY <1>1, <1>2, <1>3, <1>4

\* Updates of the record of HandleVWrite keep its type.
LEMMA VWriteUpdate ==
    ASSUME NEW f \in [Ends -> VWriteType], NEW e \in Ends,
           NEW pc \in VWriteStates, NEW payload \in Seq(Byte), NEW packet \in Packet
    PROVE  /\ [f EXCEPT ![e].pc = pc, ![e].payload = payload] \in [Ends -> VWriteType]
           /\ [f EXCEPT ![e].pc = pc, ![e].packet = packet] \in [Ends -> VWriteType]
           /\ [f EXCEPT ![e].pc = pc, ![e].packet = packet, ![e].payload = payload]
                 \in [Ends -> VWriteType]
<1>1. [f EXCEPT ![e].pc = pc, ![e].payload = payload] \in [Ends -> VWriteType]
  BY DEF VWriteType
<1>2. [f EXCEPT ![e].pc = pc, ![e].packet = packet] \in [Ends -> VWriteType]
  BY DEF VWriteType
<1>3. [f EXCEPT ![e].pc = pc, ![e].packet = packet, ![e].payload = payload]
        \in [Ends -> VWriteType]
  BY DEF VWriteType
<1> QED BY <1>1, <1>2, <1>3

\* HandleVWrite, with its probes and its FIN, keeps every field in range.
LEMMA HandleVWriteType ==
    ASSUME TypeOK, HandleVWriteHolds, NEW e \in Ends, HandleVWrite(e)
    PROVE  TypeOK'
<1>snd. snd \in [Ends -> SenderType] /\ snd[e] \in SenderType
  BY DEF TypeOK
<1>buf. WriteBuffer[e] \in Seq(Byte) /\ Len(WriteBuffer[e]) <= MaxBufferSize
  BY DEF TypeOK, Buffer
<1>rtq. rtq \in [Ends -> RTQueueType] /\ rtq[e] \in RTQueueType
  BY DEF TypeOK
<1>hnd. handler \in [Ends -> HandlerType]
  BY DEF TypeOK
<1>vwr. vwrite \in [Ends -> VWriteType] /\ vwrite[e] \in VWriteType
  BY DEF TypeOK
<1>flt. faults \in [loss : Nat, sendErr : Nat, premature : Nat]
  BY DEF TypeOK
<1>size. /\ SegmentSize(e) \in 0 .. Len(vwrite[e].payload)
         /\ SegmentSize(e) \in 0 .. MaxSegmentSize
  <2>1. Len(vwrite[e].payload) \in Nat
    BY <1>vwr DEF VWriteType
  <2> QED BY <2>1, SizeType, SmallerRange DEF SegmentSize
<1>noText. <<>> \in Text
  BY SizeAssumption DEF Text
<1>noPacket. NoPacket \in Packet
  BY <1>noText, SizeAssumption DEF NoPacket, Packet, SeqNums, Windows
<1>1. CASE FindNothingToWrite(e)
  <2>1. vwrite' \in [Ends -> VWriteType]
    BY <1>1, <1>vwr DEF FindNothingToWrite, VWriteType, VWriteStates
  <2> QED BY <1>1, <2>1 DEF FindNothingToWrite, TypeOK
<1>2. CASE SleepHandleVWrite(e)
  <2>1. vwrite' \in [Ends -> VWriteType]
    BY <1>2, <1>vwr DEF SleepHandleVWrite, VWriteType, VWriteStates
  <2> QED BY <1>2, <2>1 DEF SleepHandleVWrite, TypeOK
<1>3. CASE FindDataToWrite(e)
  <2>1. vwrite' \in [Ends -> VWriteType]
    BY <1>3, <1>vwr DEF FindDataToWrite, VWriteType, VWriteStates
  <2> QED BY <1>3, <2>1 DEF FindDataToWrite, TypeOK
<1>4. CASE TakePayload(e)
  <2> DEFINE size == Smaller(snd[e].RemoteWindowSize, Len(WriteBuffer[e]))
  <2>1. size \in 0 .. Len(WriteBuffer[e])
    <3>1. snd[e].RemoteWindowSize \in Nat
      BY <1>snd, SizeAssumption DEF SenderType, Windows
    <3>2. Len(WriteBuffer[e]) \in Nat
      BY <1>buf
    <3> QED BY <3>1, <3>2, SmallerRange
  <2>2. First(WriteBuffer[e], size) \in Seq(Byte)
    BY <1>buf, <2>1, FirstType
  <2>3. After(WriteBuffer[e], size) \in Buffer
    BY <1>buf, <2>1, AfterType, SizeAssumption DEF Buffer
  <2>4. vwrite' \in [Ends -> VWriteType]
    <3>1. vwrite' = [vwrite EXCEPT
             ![e].pc = IF size = 0 THEN "lock" ELSE "segment",
             ![e].payload = First(WriteBuffer[e], size)]
      BY <1>4 DEF TakePayload
    <3>2. (IF size = 0 THEN "lock" ELSE "segment") \in VWriteStates
      BY DEF VWriteStates
    <3> QED BY <1>vwr, <1>noPacket, <2>2, <3>1, <3>2, VWriteUpdate
  <2>5. WriteBuffer' \in [Ends -> Buffer]
    BY <1>4, <2>3 DEF TakePayload, TypeOK
  <2>6. writer' \in [Ends -> WriterType]
    BY <1>4, WokenType DEF TakePayload, TypeOK
  <2> QED BY <1>4, <2>4, <2>5, <2>6 DEF TakePayload, TypeOK
<1>5. CASE SendSegment(e)
  <2> DEFINE data == First(vwrite[e].payload, SegmentSize(e))
             segment == Segment(e, "ACK", data, 0)
  <2>1. data \in Text
    <3>1. data \in Seq(Byte) /\ Len(data) = SegmentSize(e)
      BY <1>vwr, <1>size, FirstType DEF VWriteType
    <3> QED BY <1>size, <3>1, SizeType DEF Text
  <2>2. segment \in Packet
    BY <2>1, SegmentType
  <2>3. net' \in [Ends -> Seq(Packet)]
    BY <1>5, <2>2, SentType DEF SendSegment
  <2>4. Enqueued(rtq[e], segment) \in RTQueueType
    <3> HIDE DEF segment
    <3>1. rtq[e].BytesInFlight + Len(segment.Data) \in Int
      BY <1>rtq, <2>2, SizeAssumption DEF RTQueueType, Windows, Packet, Text
    <3>2. (rtq[e].BytesInFlight + Len(segment.Data)) % Word \in Windows
      BY <3>1, WordRange
    <3>3. Append(rtq[e].RTQueue, segment) \in Seq(Packet)
      BY <1>rtq, <2>2 DEF RTQueueType
    <3> QED BY <1>rtq, <3>2, <3>3 DEF Enqueued, RTQueueType
  <2>5. rtq' \in [Ends -> RTQueueType]
    BY <1>5, <1>rtq, <2>4 DEF SendSegment
  <2>6. vwrite' \in [Ends -> VWriteType]
    BY <1>5, <1>vwr DEF SendSegment, VWriteType, VWriteStates
  <2>7. rt' \in [Ends -> RTStates]
    BY <1>5, WokenType DEF SendSegment
  <2> QED BY <1>5, <2>3, <2>5, <2>6, <2>7 DEF SendSegment, TypeOK
<1>6. CASE FailSegment(e)
  <2>1. vwrite' \in [Ends -> VWriteType]
    <3>1. "lock" \in VWriteStates /\ <<>> \in Seq(Byte)
      BY DEF VWriteStates
    <3> QED BY <1>6, <1>vwr, <1>noPacket, <3>1, VWriteUpdate DEF FailSegment
  <2>2. faults' \in [loss : Nat, sendErr : Nat, premature : Nat]
    BY <1>6, <1>flt DEF FailSegment
  <2> QED BY <1>6, <2>1, <2>2 DEF FailSegment, TypeOK
<1>7. CASE AdvanceSequence(e)
  <2>1. After(vwrite[e].payload, SegmentSize(e)) \in Seq(Byte)
    BY <1>vwr, <1>size, AfterType DEF VWriteType
  <2>2. vwrite' \in [Ends -> VWriteType]
    <3> DEFINE rest == After(vwrite[e].payload, SegmentSize(e))
    <3>1. (IF rest = <<>> THEN "lock" ELSE "segment") \in VWriteStates
      BY DEF VWriteStates
    <3>2. vwrite' = [vwrite EXCEPT
             ![e].pc = IF rest = <<>> THEN "lock" ELSE "segment",
             ![e].payload = rest]
      BY <1>7 DEF AdvanceSequence
    <3> QED BY <1>vwr, <1>noPacket, <2>1, <3>1, <3>2, VWriteUpdate
  <2>3. (snd[e].NumberBytesSent + SegmentSize(e)) % SeqSpace \in SeqNums
    <3>1. snd[e].NumberBytesSent + SegmentSize(e) \in Int
      BY <1>snd, <1>size, <1>vwr, SizeAssumption DEF SenderType, SeqNums, VWriteType, VWriteStates
    <3> QED BY <3>1, SeqNumRange
  <2>4. snd' \in [Ends -> SenderType]
    BY <1>7, <1>snd, <2>3 DEF AdvanceSequence, SenderType
  <2> QED BY <1>7, <2>2, <2>4 DEF AdvanceSequence, TypeOK
<1>8. CASE EnterZWP(e)
  <2>1. First(WriteBuffer[e], 1) \in Seq(Byte) /\ After(WriteBuffer[e], 1) \in Buffer
    <3>1. 1 \in 0 .. Len(WriteBuffer[e])
      BY <1>8, <1>buf DEF EnterZWP, HandleVWriteHolds
    <3>2. First(WriteBuffer[e], 1) \in Seq(Byte)
      BY <1>buf, <3>1, FirstType
    <3>3. /\ After(WriteBuffer[e], 1) \in Seq(Byte)
          /\ Len(After(WriteBuffer[e], 1)) = Len(WriteBuffer[e]) - 1
      BY <1>buf, <3>1, AfterType
    <3> QED BY <1>buf, <3>2, <3>3, SizeType DEF Buffer
  <2>2. snd' \in [Ends -> SenderType]
    BY <1>8, <1>snd DEF EnterZWP, SenderType
  <2>3. vwrite' \in [Ends -> VWriteType]
    <3>1. "zwpArm" \in VWriteStates
      BY DEF VWriteStates
    <3> QED BY <1>8, <1>vwr, <1>noPacket, <2>1, <3>1, VWriteUpdate DEF EnterZWP
  <2>4. WriteBuffer' \in [Ends -> Buffer]
    BY <1>8, <2>1 DEF EnterZWP, TypeOK
  <2>5. writer' \in [Ends -> WriterType]
    BY <1>8, WokenType DEF EnterZWP
  <2> QED BY <1>8, <2>2, <2>3, <2>4, <2>5 DEF EnterZWP, TypeOK
<1>9. CASE ArmZWP(e)
  <2> DEFINE probe == Segment(e, "ACK", vwrite[e].payload, 0)
  <2>1. probe \in Packet
    <3>1. vwrite[e].payload \in Text
      BY <1>9, <1>vwr, SizeAssumption DEF ArmZWP, HandleVWriteHolds, VWriteType, Text
    <3> QED BY <3>1, SegmentType
  <2>2. probe.SeqNum \in SeqNums
    <3> HIDE DEF probe
    <3> QED BY <2>1 DEF Packet
  <2>3. (snd[e].NumberBytesSent + 1) % SeqSpace \in SeqNums
    <3>1. snd[e].NumberBytesSent + 1 \in Int
      BY <1>snd, SizeAssumption DEF SenderType, SeqNums
    <3> QED BY <3>1, SeqNumRange
  <2>4. snd' \in [Ends -> SenderType]
    BY <1>9, <1>snd, <2>2, <2>3 DEF ArmZWP, SenderType
  <2>5. (rtq[e].BytesInFlight + 1) % Word \in Windows
    <3>1. rtq[e].BytesInFlight + 1 \in Int
      BY <1>rtq, SizeAssumption DEF RTQueueType, Windows
    <3> QED BY <3>1, WordRange
  <2>6. rtq' \in [Ends -> RTQueueType]
    BY <1>9, <1>rtq, <2>5 DEF ArmZWP, RTQueueType
  <2>7. net' \in [Ends -> Seq(Packet)]
    BY <1>9, <2>1, SentType DEF ArmZWP
  <2>8. vwrite' \in [Ends -> VWriteType]
    <3>1. "probing" \in VWriteStates /\ <<>> \in Seq(Byte)
      BY DEF VWriteStates
    <3> QED BY <1>9, <1>vwr, <2>1, <3>1, VWriteUpdate DEF ArmZWP
  <2> QED BY <1>9, <2>4, <2>6, <2>7, <2>8 DEF ArmZWP, TypeOK
<1>10. CASE SendProbe(e)
  <2>1. net' \in [Ends -> Seq(Packet)]
    <3>1. vwrite[e].packet \in Packet
      BY <1>vwr DEF VWriteType
    <3> QED BY <1>10, <3>1, SentType DEF SendProbe
  <2>2. faults' \in [loss : Nat, sendErr : Nat, premature : Nat]
    BY <1>10, <1>flt DEF SendProbe, CountResend
  <2> QED BY <1>10, <2>1, <2>2 DEF SendProbe, TypeOK
<1>11. CASE StopProbing(e)
  <2>1. vwrite' \in [Ends -> VWriteType]
    <3>1. "zwpExit" \in VWriteStates /\ <<>> \in Seq(Byte)
      BY DEF VWriteStates
    <3> QED BY <1>11, <1>vwr, <1>noPacket, <3>1, VWriteUpdate DEF StopProbing
  <2>2. handler' \in [Ends -> HandlerType]
    BY <1>11, <1>hnd DEF StopProbing, HandlerType, HandlerStates
  <2> QED BY <1>11, <2>1, <2>2 DEF StopProbing, TypeOK
<1>12. CASE LeaveZWP(e)
  <2>1. (rtq[e].BytesInFlight - 1) % Word \in Windows
    <3>1. rtq[e].BytesInFlight - 1 \in Int
      BY <1>rtq, SizeAssumption DEF RTQueueType, Windows
    <3> QED BY <3>1, WordRange
  <2>2. rtq' \in [Ends -> RTQueueType]
    BY <1>12, <1>rtq, <2>1 DEF LeaveZWP, RTQueueType
  <2>3. snd' \in [Ends -> SenderType]
    BY <1>12, <1>snd DEF LeaveZWP, SenderType
  <2>4. vwrite' \in [Ends -> VWriteType]
    BY <1>12, <1>vwr DEF LeaveZWP, VWriteType, VWriteStates
  <2> QED BY <1>12, <2>2, <2>3, <2>4 DEF LeaveZWP, TypeOK
<1>13. CASE SendFin(e)
  <2> DEFINE fin == Segment(e, "FIN", <<>>, 0)
  <2>1. fin \in Packet
    BY <1>noText, SegmentType
  <2>2. net' \in [Ends -> Seq(Packet)]
    BY <1>13, <2>1, SentType DEF SendFin
  <2>3. vwrite' \in [Ends -> VWriteType]
    <3>1. "finSeq" \in VWriteStates /\ <<>> \in Seq(Byte)
      BY DEF VWriteStates
    <3> QED BY <1>13, <1>vwr, <2>1, <3>1, VWriteUpdate DEF SendFin
  <2> QED BY <1>13, <2>2, <2>3 DEF SendFin, TypeOK
<1>14. CASE FailFin(e)
  <2>1. vwrite' \in [Ends -> VWriteType]
    BY <1>14, <1>vwr DEF FailFin, VWriteType, VWriteStates
  <2>2. faults' \in [loss : Nat, sendErr : Nat, premature : Nat]
    BY <1>14, <1>flt DEF FailFin
  <2> QED BY <1>14, <2>1, <2>2 DEF FailFin, TypeOK
<1>15. CASE CountFin(e)
  <2>1. (snd[e].NumberBytesSent + 1) % SeqSpace \in SeqNums
    <3>1. snd[e].NumberBytesSent + 1 \in Int
      BY <1>snd, SizeAssumption DEF SenderType, SeqNums
    <3> QED BY <3>1, SeqNumRange
  <2>2. snd' \in [Ends -> SenderType]
    BY <1>15, <1>snd, <2>1 DEF CountFin, SenderType
  <2>3. vwrite' \in [Ends -> VWriteType]
    BY <1>15, <1>vwr DEF CountFin, VWriteType, VWriteStates
  <2> QED BY <1>15, <2>2, <2>3 DEF CountFin, TypeOK
<1>16. CASE QueueFin(e)
  <2>1. Append(rtq[e].RTQueue, vwrite[e].packet) \in Seq(Packet)
    BY <1>rtq, <1>vwr DEF RTQueueType, VWriteType, VWriteStates
  <2>2. rtq' \in [Ends -> RTQueueType]
    BY <1>16, <1>rtq, <2>1 DEF QueueFin, RTQueueType
  <2>3. vwrite' \in [Ends -> VWriteType]
    <3>1. "done" \in VWriteStates /\ <<>> \in Seq(Byte)
      BY DEF VWriteStates
    <3> QED BY <1>16, <1>vwr, <1>noPacket, <3>1, VWriteUpdate DEF QueueFin
  <2> QED BY <1>16, <2>2, <2>3 DEF QueueFin, TypeOK
<1> QED
  BY <1>1, <1>2, <1>3, <1>4, <1>5, <1>6, <1>7, <1>8, <1>9, <1>10, <1>11,
     <1>12, <1>13, <1>14, <1>15, <1>16 DEF HandleVWrite

\* Updates of the timer marks keep the type of the retransmission queue.
LEMMA RTQueueUpdate ==
    ASSUME NEW f \in [Ends -> RTQueueType], NEW e \in Ends, NEW b \in BOOLEAN
    PROVE  /\ [f EXCEPT ![e].OngoingRTTimer = b] \in [Ends -> RTQueueType]
           /\ [f EXCEPT ![e].RTTimer = b] \in [Ends -> RTQueueType]
           /\ [f EXCEPT ![e].RTTimer = b, ![e].OngoingRTTimer = b]
                \in [Ends -> RTQueueType]
<1>1. [f EXCEPT ![e].OngoingRTTimer = b] \in [Ends -> RTQueueType]
  BY DEF RTQueueType
<1>2. [f EXCEPT ![e].RTTimer = b] \in [Ends -> RTQueueType]
  BY DEF RTQueueType
<1>3. [f EXCEPT ![e].RTTimer = b, ![e].OngoingRTTimer = b] \in [Ends -> RTQueueType]
  BY DEF RTQueueType
<1> QED BY <1>1, <1>2, <1>3

\* HandleRT, which marks timers and sends segments again, keeps the types.
LEMMA HandleRTType ==
    ASSUME TypeOK, NEW e \in Ends, HandleRT(e)
    PROVE  TypeOK'
<1>rtq. rtq \in [Ends -> RTQueueType] /\ rtq[e] \in RTQueueType
  BY DEF TypeOK
<1>flt. faults \in [loss : Nat, sendErr : Nat, premature : Nat]
  BY DEF TypeOK
<1>1. CASE CheckRTQueue(e)
  <2>1. rt' \in [Ends -> RTStates]
    BY <1>1 DEF CheckRTQueue, TypeOK, RTStates
  <2>2. rtq' \in [Ends -> RTQueueType]
    <3> DEFINE ongoing == rtq[e].OngoingRTTimer /\ rt'[e] # "waiting"
    <3>1. ongoing \in BOOLEAN
      OBVIOUS
    <3>2. rtq' = [rtq EXCEPT ![e].OngoingRTTimer = ongoing]
      BY <1>1 DEF CheckRTQueue
    <3> HIDE DEF ongoing
    <3> QED BY <1>rtq, <3>1, <3>2, RTQueueUpdate
  <2> QED BY <1>1, <2>1, <2>2 DEF CheckRTQueue, TypeOK
<1>2. CASE ExpireRTTimer(e)
  <2>1. rt' \in [Ends -> RTStates]
    BY <1>2 DEF ExpireRTTimer, TypeOK, RTStates
  <2>2. rtq' \in [Ends -> RTQueueType]
    BY <1>2, <1>rtq DEF ExpireRTTimer, RTQueueType
  <2>3. faults' \in [loss : Nat, sendErr : Nat, premature : Nat]
    BY <1>2, <1>flt DEF ExpireRTTimer, CountResend
  <2> QED BY <1>2, <2>1, <2>2, <2>3 DEF ExpireRTTimer, TypeOK
<1>3. CASE Retransmit(e)
  <2>1. rt' \in [Ends -> RTStates]
    BY <1>3 DEF Retransmit, TypeOK, RTStates
  <2>2. rtq' \in [Ends -> RTQueueType]
    <3>1. CASE rtq[e].RTQueue # <<>>
      <4>1. rtq' = [rtq EXCEPT ![e].RTTimer = TRUE, ![e].OngoingRTTimer = TRUE]
        BY <1>3, <3>1 DEF Retransmit
      <4> QED BY <1>rtq, <4>1, RTQueueUpdate
    <3>2. CASE rtq[e].RTQueue = <<>>
      BY <1>3, <1>rtq, <3>2 DEF Retransmit
    <3> QED BY <3>1, <3>2
  <2>3. net' \in [Ends -> Seq(Packet)]
    <3>1. rtq[e].RTQueue # <<>> => Head(rtq[e].RTQueue) \in Packet
      BY <1>rtq DEF RTQueueType
    <3> QED BY <1>3, <3>1, SentType DEF Retransmit, TypeOK
  <2> QED BY <1>3, <2>1, <2>2, <2>3 DEF Retransmit, TypeOK
<1> QED BY <1>1, <1>2, <1>3 DEF HandleRT

\* The broadcast of an arriving FIN keeps the type of the reader.
LEMMA ReaderUpdate ==
    ASSUME NEW e \in Ends, TypeOK
    PROVE  ReaderAfterFin(e) \in [Ends -> ReaderType]
BY WokenType DEF ReaderAfterFin, TypeOK

\* The state an arriving FIN leads to is one of TCPState.
LEMMA FinStateType ==
    ASSUME NEW e \in Ends, TypeOK
    PROVE  StateAfterFin(e) \in States
BY DEF StateAfterFin, TypeOK, SocketType, States

\* WriteSegment never puts more into ReadBuffer than there is room for, and
\* advances NextExpectedByte only for a segment written whole.
LEMMA WriteSegmentType ==
    ASSUME NEW e \in Ends, TypeOK, NEW data \in Text
    PROVE  WriteSegment(e, data) \in ReceiverType
<1> DEFINE n == Smaller(Len(data), ReadBufferFree(e))
           buffer == rcv[e].ReadBuffer \o First(data, n)
           next == IF Len(data) <= ReadBufferFree(e)
                   THEN (rcv[e].NextExpectedByte + Len(data)) % SeqSpace
                   ELSE rcv[e].NextExpectedByte
<1>1. /\ rcv[e].ReadBuffer \in Seq(Byte)
      /\ Len(rcv[e].ReadBuffer) <= MaxBufferSize
      /\ rcv[e].NextExpectedByte \in SeqNums
      /\ rcv[e] \in ReceiverType
  BY DEF TypeOK, ReceiverType, Buffer
<1>2. data \in Seq(Byte) /\ Len(data) \in Nat
  BY DEF Text
<1>3. n \in 0 .. Len(data) /\ n \in 0 .. ReadBufferFree(e)
  <2>1. ReadBufferFree(e) \in Nat
    BY <1>1, SizeType DEF ReadBufferFree
  <2> QED BY <1>2, <2>1, SmallerRange
<1>4. buffer \in Buffer
  <2>1. First(data, n) \in Seq(Byte) /\ Len(First(data, n)) = n
    BY <1>2, <1>3, FirstType
  <2> HIDE DEF n
  <2>2. buffer \in Seq(Byte) /\ Len(buffer) = Len(rcv[e].ReadBuffer) + n
    BY <1>1, <1>3, <2>1
  <2>3. Len(buffer) <= MaxBufferSize
    BY <1>1, <1>3, <2>2, SizeType DEF ReadBufferFree
  <2> QED BY <2>2, <2>3 DEF Buffer
<1>5. next \in SeqNums
  <2>1. rcv[e].NextExpectedByte + Len(data) \in Int
    BY <1>1, <1>2, SizeAssumption DEF SeqNums
  <2> QED BY <1>1, <2>1, SeqNumRange
<1>6. WriteSegment(e, data) = [rcv[e] EXCEPT !.ReadBuffer = buffer,
                                            !.NextExpectedByte = next]
  BY DEF WriteSegment
<1> HIDE DEF buffer, next
<1> QED BY <1>1, <1>4, <1>5, <1>6 DEF ReceiverType

\* Updates of the record of HandleTCPPacket keep its type.
LEMMA HandlerUpdate ==
    ASSUME NEW f \in [Ends -> HandlerType], NEW e \in Ends,
           NEW pc \in HandlerStates, NEW packet \in Packet
    PROVE  /\ [f EXCEPT ![e].pc = pc] \in [Ends -> HandlerType]
           /\ [f EXCEPT ![e] = [pc |-> pc, packet |-> packet]] \in [Ends -> HandlerType]
<1>1. [f EXCEPT ![e].pc = pc] \in [Ends -> HandlerType]
  BY DEF HandlerType
<1>2. [f EXCEPT ![e] = [pc |-> pc, packet |-> packet]] \in [Ends -> HandlerType]
  BY DEF HandlerType
<1> QED BY <1>1, <1>2

\* HandleTCPPacket keeps the types in all its branches: the purge of RTQueue,
\* the window update, early arrivals, and FINs.
LEMMA HandleTCPPacketType ==
    ASSUME TypeOK, NEW e \in Ends, HandleTCPPacket(e)
    PROVE  TypeOK'
<1>sck. sock \in [Ends -> SocketType]
  BY DEF TypeOK
<1>snd. snd \in [Ends -> SenderType] /\ snd[e] \in SenderType
  BY DEF TypeOK
<1>rtq. rtq \in [Ends -> RTQueueType] /\ rtq[e] \in RTQueueType
  BY DEF TypeOK
<1>rcv. rcv \in [Ends -> ReceiverType] /\ rcv[e] \in ReceiverType
  BY DEF TypeOK
<1>hnd. /\ handler \in [Ends -> HandlerType]
        /\ handler[e].packet \in Packet
  BY DEF TypeOK, HandlerType
<1>net. net \in [Ends -> Seq(Packet)] /\ net[e] \in Seq(Packet)
  BY DEF TypeOK
<1>noText. <<>> \in Text
  BY SizeAssumption DEF Text
<1>noPacket. NoPacket \in Packet
  BY <1>noText, SizeAssumption DEF NoPacket, Packet, SeqNums, Windows
<1>pcs. /\ "idle" \in HandlerStates /\ "again" \in HandlerStates
        /\ "purge" \in HandlerStates /\ "window" \in HandlerStates
        /\ "probe" \in HandlerStates /\ "stop" \in HandlerStates
        /\ "text" \in HandlerStates /\ "early" \in HandlerStates
        /\ "ack" \in HandlerStates /\ "done" \in HandlerStates
  BY DEF HandlerStates
<1>ack. Segment(e, "ACK", <<>>, 0) \in Packet /\ Segment(e, "ACK", <<>>, 1) \in Packet
  BY <1>noText, SegmentType
<1>arrival. ASSUME NEW i, Overtaken(e, i)
            PROVE  /\ net[e][i] \in Packet
                   /\ RemoveAt(net[e], i) \in Seq(Packet)
  <2>1. i \in 1 .. Len(net[e])
    BY <1>arrival DEF Overtaken
  <2> QED BY <1>net, <2>1, RemoveAtType
<1>timer. ASSUME NEW live \in BOOLEAN
          PROVE  [rtq EXCEPT ![e].RTTimer = @ \/ live] \in [Ends -> RTQueueType]
  <2> DEFINE b == rtq[e].RTTimer \/ live
  <2>1. b \in BOOLEAN
    OBVIOUS
  <2> HIDE DEF b
  <2>2. [rtq EXCEPT ![e].RTTimer = b] \in [Ends -> RTQueueType]
    BY <1>rtq, <2>1, RTQueueUpdate
  <2> QED BY <2>2 DEF b
<1>1. ASSUME NEW i, ReceiveNewAck(e, i)
      PROVE  TypeOK'
  <2>1. net[e][i] \in Packet /\ RemoveAt(net[e], i) \in Seq(Packet)
    BY <1>1, <1>arrival DEF ReceiveNewAck
  <2>2. net[e][i].AckNum \in SeqNums
    BY <2>1 DEF Packet
  <2>3. net' \in [Ends -> Seq(Packet)]
    BY <1>1, <1>net, <2>1 DEF ReceiveNewAck
  <2>4. snd' \in [Ends -> SenderType]
    BY <1>1, <1>snd, <2>2 DEF ReceiveNewAck, SenderType
  <2>5. rtq' \in [Ends -> RTQueueType]
    BY <1>1, <1>timer DEF ReceiveNewAck
  <2>6. handler' \in [Ends -> HandlerType]
    BY <1>1, <1>hnd, <1>pcs, <2>1, HandlerUpdate DEF ReceiveNewAck
  <2> QED BY <1>1, <2>3, <2>4, <2>5, <2>6 DEF ReceiveNewAck, TypeOK
<1>2. ASSUME NEW i, ReceiveOtherAck(e, i)
      PROVE  TypeOK'
  <2>1. net[e][i] \in Packet /\ RemoveAt(net[e], i) \in Seq(Packet)
    BY <1>2, <1>arrival DEF ReceiveOtherAck
  <2>2. net' \in [Ends -> Seq(Packet)]
    BY <1>2, <1>net, <2>1 DEF ReceiveOtherAck
  <2>3. handler' \in [Ends -> HandlerType]
    BY <1>2, <1>hnd, <1>pcs, <2>1, HandlerUpdate DEF ReceiveOtherAck
  <2> QED BY <1>2, <2>2, <2>3 DEF ReceiveOtherAck, TypeOK
<1>3. ASSUME NEW i, ReceiveNextFin(e, i)
      PROVE  TypeOK'
  <2>1. net[e][i] \in Packet /\ RemoveAt(net[e], i) \in Seq(Packet)
    BY <1>3, <1>arrival DEF ReceiveNextFin
  <2> DEFINE sent == Sent(e, Segment(e, "ACK", <<>>, 1))
  <2>2. sent \in [Ends -> Seq(Packet)] /\ sent[e] = net[e]
    BY <1>ack, <1>net, SentType, SentOther
  <2>3. net' \in [Ends -> Seq(Packet)]
    <3>1. net' = [sent EXCEPT ![e] = RemoveAt(sent[e], i)]
      BY <1>3 DEF ReceiveNextFin
    <3> HIDE DEF sent
    <3> QED BY <2>1, <2>2, <3>1
  <2>4. sock' \in [Ends -> SocketType]
    BY <1>3, <1>sck, FinStateType DEF ReceiveNextFin, SocketType
  <2>5. reader' \in [Ends -> ReaderType]
    BY <1>3, ReaderUpdate DEF ReceiveNextFin
  <2> QED BY <1>3, <2>3, <2>4, <2>5 DEF ReceiveNextFin, TypeOK
<1>4. ASSUME NEW i, ReceiveOtherFin(e, i)
      PROVE  TypeOK'
  <2>1. net[e][i] \in Packet /\ RemoveAt(net[e], i) \in Seq(Packet)
    BY <1>4, <1>arrival DEF ReceiveOtherFin
  <2>2. net' \in [Ends -> Seq(Packet)]
    BY <1>4, <1>net, <2>1 DEF ReceiveOtherFin
  <2>3. Append(rcv[e].EarlyArrivalQueue, net[e][i]) \in Seq(Packet)
    BY <1>rcv, <2>1 DEF ReceiverType
  <2>4. rcv' \in [Ends -> ReceiverType]
    BY <1>4, <1>rcv, <2>3 DEF ReceiveOtherFin, ReceiverType
  <2> QED BY <1>4, <2>2, <2>4 DEF ReceiveOtherFin, TypeOK
<1>5. CASE CompareAckAgain(e)
  <2>1. handler' \in [Ends -> HandlerType]
    <3>1. CASE handler[e].packet.AckNum > NextSequenceNumber(e)
      <4>1. handler' = [handler EXCEPT ![e] = [pc |-> "idle", packet |-> NoPacket]]
        BY <1>5, <3>1 DEF CompareAckAgain
      <4> QED BY <1>hnd, <1>pcs, <1>noPacket, <4>1, HandlerUpdate
    <3>2. CASE ~(handler[e].packet.AckNum > NextSequenceNumber(e))
      <4>1. handler' = [handler EXCEPT ![e].pc = "window"]
        BY <1>5, <3>2 DEF CompareAckAgain
      <4> QED BY <1>hnd, <1>pcs, <1>noPacket, <4>1, HandlerUpdate
    <3> QED BY <3>1, <3>2
  <2> QED BY <1>5, <2>1 DEF CompareAckAgain, TypeOK
<1>6. CASE PurgeSegment(e)
  <2>1. /\ Head(rtq[e].RTQueue) \in Packet
        /\ Tail(rtq[e].RTQueue) \in Seq(Packet)
    BY <1>6, <1>rtq DEF PurgeSegment, RTQueueType
  <2>2. (rtq[e].BytesInFlight - Len(Head(rtq[e].RTQueue).Data)) % Word \in Windows
    <3>1. rtq[e].BytesInFlight - Len(Head(rtq[e].RTQueue).Data) \in Int
      BY <1>rtq, <2>1, SizeType DEF RTQueueType, Windows, Packet, Text
    <3> QED BY <3>1, WordRange
  <2>3. Dequeued(rtq[e]) \in RTQueueType
    BY <1>rtq, <2>1, <2>2 DEF Dequeued, RTQueueType
  <2>4. rtq' \in [Ends -> RTQueueType]
    BY <1>6, <1>rtq, <2>3 DEF PurgeSegment
  <2>5. sock' \in [Ends -> SocketType]
    BY <1>6, <1>sck DEF PurgeSegment, SocketType, States
  <2> QED BY <1>6, <2>4, <2>5 DEF PurgeSegment, TypeOK
<1>7. CASE PurgeLastFin(e)
  <2>1. sock' \in [Ends -> SocketType]
    BY <1>7, <1>sck DEF PurgeLastFin, SocketType, States
  <2>2. handler' \in [Ends -> HandlerType]
    BY <1>7, <1>hnd, <1>pcs, <1>noPacket, HandlerUpdate DEF PurgeLastFin
  <2> QED BY <1>7, <2>1, <2>2 DEF PurgeLastFin, TypeOK
<1>8. CASE FinishPurge(e)
  <2>1. rtq' \in [Ends -> RTQueueType]
    BY <1>8, <1>timer DEF FinishPurge
  <2>2. handler' \in [Ends -> HandlerType]
    BY <1>8, <1>hnd, <1>pcs, <1>noPacket, HandlerUpdate DEF FinishPurge
  <2> QED BY <1>8, <2>1, <2>2 DEF FinishPurge, TypeOK
<1>9. CASE UpdateWindow(e)
  <2>1. handler' \in [Ends -> HandlerType]
    BY <1>9, <1>hnd, <1>pcs, <1>noPacket, HandlerUpdate DEF UpdateWindow
  <2>2. Relative(e, handler[e].packet) \in SeqNums
    <3>1. handler[e].packet.SeqNum - InitSeqNum[Peer(e)] \in Int
      BY <1>hnd, PeerType, SizeAssumption DEF Packet, SeqNums
    <3> QED BY <3>1, SeqNumRange DEF Relative
  <2>3. /\ handler[e].packet.WindowSize \in Windows
        /\ handler[e].packet.AckNum \in SeqNums
    BY <1>hnd DEF Packet
  <2>4. snd' \in [Ends -> SenderType]
    BY <1>9, <1>snd, <2>2, <2>3 DEF UpdateWindow, SenderType
  <2> QED BY <1>9, <2>1, <2>4 DEF UpdateWindow, TypeOK
<1>10. CASE CheckProbe(e)
  <2>1. handler' \in [Ends -> HandlerType]
    BY <1>10, <1>hnd, <1>pcs, <1>noPacket, HandlerUpdate DEF CheckProbe
  <2> QED BY <1>10, <2>1 DEF CheckProbe, TypeOK
<1>11. CASE IgnoreEmptyText(e)
  <2>1. handler' \in [Ends -> HandlerType]
    BY <1>11, <1>hnd, <1>pcs, <1>noPacket, HandlerUpdate DEF IgnoreEmptyText, Idle
  <2> QED BY <1>11, <2>1 DEF IgnoreEmptyText, TypeOK
<1>12. CASE ReceiveNextText(e)
  <2>1. handler[e].packet.Data \in Text
    BY <1>hnd DEF Packet
  <2>2. rcv' \in [Ends -> ReceiverType]
    BY <1>12, <1>rcv, <2>1, WriteSegmentType DEF ReceiveNextText
  <2>3. reader' \in [Ends -> ReaderType]
    BY <1>12, WokenType DEF ReceiveNextText, TypeOK
  <2>4. handler' \in [Ends -> HandlerType]
    BY <1>12, <1>hnd, <1>pcs, <1>noPacket, HandlerUpdate DEF ReceiveNextText
  <2> QED BY <1>12, <2>2, <2>3, <2>4 DEF ReceiveNextText, TypeOK
<1>13. CASE ReceiveOtherText(e)
  <2>1. Append(rcv[e].EarlyArrivalQueue, handler[e].packet) \in Seq(Packet)
    BY <1>rcv, <1>hnd DEF ReceiverType
  <2>2. rcv' \in [Ends -> ReceiverType]
    BY <1>13, <1>rcv, <2>1 DEF ReceiveOtherText, ReceiverType
  <2>3. handler' \in [Ends -> HandlerType]
    BY <1>13, <1>hnd, <1>pcs, <1>noPacket, HandlerUpdate DEF ReceiveOtherText
  <2> QED BY <1>13, <2>2, <2>3 DEF ReceiveOtherText, TypeOK
<1>14. CASE TakeEarlyArrival(e)
  <2> DEFINE queue == rcv[e].EarlyArrivalQueue
             isFin(i) == queue[i].Flags = "FIN"
             taken(i) == IF isFin(i) THEN rcv[e] ELSE WriteSegment(e, queue[i].Data)
  <2>1. PICK i \in DOMAIN queue :
          /\ sock' = IF isFin(i) THEN [sock EXCEPT ![e].ConnState = StateAfterFin(e)]
                                 ELSE sock
          /\ reader' \in {ReaderAfterFin(e), WokenReader(e), reader}
          /\ rcv' = [rcv EXCEPT ![e] =
                      [taken(i) EXCEPT !.EarlyArrivalQueue = RemoveAt(queue, i)]]
    BY <1>14 DEF TakeEarlyArrival
  <2>2. i \in 1 .. Len(queue) /\ queue \in Seq(Packet)
    BY <1>rcv DEF ReceiverType
  <2>3. queue[i].Data \in Text
    <3>1. queue[i] \in Packet
      BY <2>2
    <3> QED BY <3>1 DEF Packet
  <2>4. RemoveAt(queue, i) \in Seq(Packet)
    BY <2>2, RemoveAtType
  <2>5. taken(i) \in ReceiverType
    BY <1>rcv, <2>3, WriteSegmentType
  <2>6. [taken(i) EXCEPT !.EarlyArrivalQueue = RemoveAt(queue, i)] \in ReceiverType
    <3> HIDE DEF taken, queue
    <3> QED BY <2>4, <2>5 DEF ReceiverType
  <2>7. rcv' \in [Ends -> ReceiverType]
    BY <1>rcv, <2>1, <2>6
  <2>8. sock' \in [Ends -> SocketType]
    BY <1>sck, <2>1, FinStateType DEF SocketType
  <2>9. reader' \in [Ends -> ReaderType]
    <3>1. /\ ReaderAfterFin(e) \in [Ends -> ReaderType]
          /\ WokenReader(e) \in [Ends -> ReaderType]
          /\ reader \in [Ends -> ReaderType]
      BY ReaderUpdate, WokenType DEF TypeOK
    <3> QED BY <2>1, <3>1
  <2> QED BY <1>14, <2>7, <2>8, <2>9 DEF TakeEarlyArrival, TypeOK
<1>15. CASE LeaveEarlyArrivals(e)
  <2>1. handler' \in [Ends -> HandlerType]
    BY <1>15, <1>hnd, <1>pcs, <1>noPacket, HandlerUpdate DEF LeaveEarlyArrivals
  <2> QED BY <1>15, <2>1 DEF LeaveEarlyArrivals, TypeOK
<1>16. CASE SendAck(e)
  <2>1. net' \in [Ends -> Seq(Packet)]
    BY <1>16, <1>ack, SentType DEF SendAck
  <2>2. handler' \in [Ends -> HandlerType]
    BY <1>16, <1>hnd, <1>pcs, <1>noPacket, HandlerUpdate DEF SendAck, Idle
  <2> QED BY <1>16, <2>1, <2>2 DEF SendAck, TypeOK
<1> QED
  BY <1>1, <1>2, <1>3, <1>4, <1>5, <1>6, <1>7, <1>8, <1>9, <1>10, <1>11,
     <1>12, <1>13, <1>14, <1>15, <1>16 DEF HandleTCPPacket

\* VWrite is never left with a negative number of bytes, and hands over all it
\* has or all there is room for.
LEMMA VWriteSize ==
    ASSUME TypeOK, WrittenInRange, NEW e \in Ends
    PROVE  LET left == EndOfCall(e) - writer[e].written
               size == Smaller(left, WriteBufferFree(e))
           IN  /\ EndOfCall(e) \in Nat /\ EndOfCall(e) <= ToWrite[e]
               /\ size \in 0 .. left /\ size \in 0 .. WriteBufferFree(e)
               /\ size = left \/ size = WriteBufferFree(e)
<1> DEFINE written == writer[e].written
           last == written - (written % WriteSize) + WriteSize
<1>1. written \in Nat /\ ToWrite[e] \in Nat /\ written <= ToWrite[e]
  BY WorkloadAssumption DEF TypeOK, WriterType, WrittenInRange
<1> HIDE DEF written
<1>2. WriteSize \in Nat \ {0} /\ written \in Int
  BY <1>1, WorkloadAssumption
<1>3. written % WriteSize \in 0 .. WriteSize - 1
  BY <1>2, ModRange
<1>4. last \in Nat /\ written < last
  <2>1. PICK r \in 0 .. WriteSize - 1 : r = written % WriteSize
    BY <1>3
  <2>2. last = written - r + WriteSize
    BY <2>1, Zenon
  <2> HIDE DEF last
  <2> QED BY <1>1, <1>2, <2>2
<1>5. EndOfCall(e) = Smaller(ToWrite[e], last)
  BY DEF EndOfCall, written
<1>6. EndOfCall(e) \in Nat /\ written <= EndOfCall(e) /\ EndOfCall(e) <= ToWrite[e]
  <2> HIDE DEF last
  <2> QED BY <1>1, <1>4, <1>5 DEF Smaller
<1>7. WriteBufferFree(e) \in Nat
  BY SizeType DEF TypeOK, Buffer, WriteBufferFree
<1>8. EndOfCall(e) - written \in Nat
  BY <1>1, <1>6
<1> QED BY <1>6, <1>7, <1>8, SmallerRange DEF Smaller, written

\* The API calls VWrite, VRead and VClose keep the types.
LEMMA ApplicationType ==
    ASSUME TypeOK, WrittenInRange, NEW e \in Ends, Application(e)
    PROVE  TypeOK'
<1>sck. sock \in [Ends -> SocketType]
  BY DEF TypeOK
<1>buf. WriteBuffer[e] \in Seq(Byte) /\ Len(WriteBuffer[e]) <= MaxBufferSize
  BY DEF TypeOK, Buffer
<1>rcv. /\ rcv \in [Ends -> ReceiverType]
        /\ rcv[e].ReadBuffer \in Seq(Byte)
        /\ Len(rcv[e].ReadBuffer) <= MaxBufferSize
  BY DEF TypeOK, ReceiverType, Buffer
<1>wrt. writer \in [Ends -> WriterType] /\ writer[e].written \in Nat
  BY DEF TypeOK, WriterType
<1>rdr. reader \in [Ends -> ReaderType] /\ reader[e].delivered \in Seq(Byte)
  BY DEF TypeOK, ReaderType
<1>1. CASE CallVWrite(e)
  <2>1. writer' \in [Ends -> WriterType]
    BY <1>1, <1>wrt DEF CallVWrite, WriterType
  <2> QED BY <1>1, <2>1 DEF CallVWrite, TypeOK
<1>2. CASE VWrite(e)
  <2> DEFINE left == EndOfCall(e) - writer[e].written
             size == Smaller(left, WriteBufferFree(e))
             data == [i \in 1 .. size |-> writer[e].written + i]
             pc == CASE size < left -> "waiting"
                     [] writer[e].written + size = ToWrite[e] -> "done"
                     [] OTHER -> "idle"
  <2>1. size \in 0 .. WriteBufferFree(e)
    BY VWriteSize
  <2>2. WriteBuffer' \in [Ends -> Buffer]
    <3> HIDE DEF size
    <3>1. data \in Seq(Byte) /\ Len(data) = size
      BY <1>buf, <1>wrt, <2>1, SizeType DEF WriteBufferFree, Byte
    <3>2. WriteBuffer' = [WriteBuffer EXCEPT ![e] = @ \o data]
      BY <1>2 DEF VWrite, size
    <3> HIDE DEF data
    <3>3. WriteBuffer[e] \o data \in Buffer
      BY <1>buf, <2>1, <3>1, SizeType DEF WriteBufferFree, Buffer
    <3> QED BY <3>2, <3>3 DEF TypeOK
  <2>3. writer' \in [Ends -> WriterType]
    <3>1. writer' = [writer EXCEPT ![e] = [pc |-> pc, written |-> writer[e].written + size]]
      BY <1>2 DEF VWrite
    <3>2. pc \in {"idle", "waiting", "done"}
      OBVIOUS
    <3>3. writer[e].written + size \in Nat
      BY <1>buf, <1>wrt, <2>1, SizeType DEF WriteBufferFree
    <3> HIDE DEF pc, size
    <3> QED BY <1>wrt, <3>1, <3>2, <3>3 DEF WriterType
  <2>4. vwrite' \in [Ends -> VWriteType]
    BY <1>2, WokenType DEF VWrite, TypeOK
  <2> QED BY <1>2, <2>2, <2>3, <2>4 DEF VWrite, TypeOK
<1>3. CASE CallVRead(e)
  <2>1. reader' \in [Ends -> ReaderType]
    BY <1>3, <1>rdr DEF CallVRead, ReaderType
  <2> QED BY <1>3, <2>1 DEF CallVRead, TypeOK
<1>4. CASE ReturnData(e)
  <2>1. PICK n \in 1 .. Len(rcv[e].ReadBuffer) :
          /\ reader' = [reader EXCEPT ![e] = [pc |-> "idle",
                 delivered |-> @.delivered \o First(rcv[e].ReadBuffer, n)]]
          /\ rcv' = [rcv EXCEPT ![e].ReadBuffer = After(@, n)]
    BY <1>4 DEF ReturnData
  <2>2. First(rcv[e].ReadBuffer, n) \in Seq(Byte)
    BY <1>rcv, FirstType
  <2>3. After(rcv[e].ReadBuffer, n) \in Buffer
    <3>1. n \in 0 .. Len(rcv[e].ReadBuffer)
      BY <1>rcv
    <3>2. /\ After(rcv[e].ReadBuffer, n) \in Seq(Byte)
          /\ Len(After(rcv[e].ReadBuffer, n)) = Len(rcv[e].ReadBuffer) - n
      BY <1>rcv, <3>1, AfterType
    <3> QED BY <1>rcv, <3>1, <3>2, SizeType DEF Buffer
  <2>4. rcv' \in [Ends -> ReceiverType]
    BY <1>rcv, <2>1, <2>3 DEF ReceiverType
  <2>5. reader[e].delivered \o First(rcv[e].ReadBuffer, n) \in Seq(Byte)
    BY <1>rdr, <2>2
  <2>6. reader' \in [Ends -> ReaderType]
    BY <1>rdr, <2>1, <2>5 DEF ReaderType
  <2> QED BY <1>4, <2>4, <2>6 DEF ReturnData, TypeOK
<1>5. CASE FindNothingToRead(e)
  <2>1. reader' \in [Ends -> ReaderType]
    BY <1>5, <1>rdr DEF FindNothingToRead, ReaderType
  <2> QED BY <1>5, <2>1 DEF FindNothingToRead, TypeOK
<1>6. CASE SleepVRead(e)
  <2>1. reader' \in [Ends -> ReaderType]
    BY <1>6, <1>rdr DEF SleepVRead, ReaderType
  <2> QED BY <1>6, <2>1 DEF SleepVRead, TypeOK
<1>7. CASE CallVClose(e)
  <2>1. closer' \in [Ends -> CloserStates]
    BY <1>7 DEF CallVClose, TypeOK, CloserStates
  <2> QED BY <1>7, <2>1 DEF CallVClose, TypeOK
<1>8. CASE AssignFinWait1(e)
  <2>1. closer' \in [Ends -> CloserStates]
    BY <1>8 DEF AssignFinWait1, TypeOK, CloserStates
  <2>2. sock' \in [Ends -> SocketType]
    BY <1>8, <1>sck DEF AssignFinWait1, SocketType, States
  <2> QED BY <1>8, <2>1, <2>2 DEF AssignFinWait1, TypeOK
<1>9. CASE WakeHandleVWrite(e)
  <2>1. closer' \in [Ends -> CloserStates]
    BY <1>9 DEF WakeHandleVWrite, TypeOK, CloserStates
  <2>2. vwrite' \in [Ends -> VWriteType]
    BY <1>9, WokenType DEF WakeHandleVWrite
  <2> QED BY <1>9, <2>1, <2>2 DEF WakeHandleVWrite, TypeOK
<1>10. CASE AssignLastAck(e)
  <2>1. closer' \in [Ends -> CloserStates]
    BY <1>10 DEF AssignLastAck, TypeOK, CloserStates
  <2>2. sock' \in [Ends -> SocketType]
    BY <1>10, <1>sck DEF AssignLastAck, SocketType, States
  <2> QED BY <1>10, <2>1, <2>2 DEF AssignLastAck, TypeOK
<1> QED
  BY <1>1, <1>2, <1>3, <1>4, <1>5, <1>6, <1>7, <1>8, <1>9, <1>10
  DEF Application, VRead, VClose

\* The end of TIME_WAIT, a discarded packet and a lost one keep the types.
LEMMA NetworkType ==
    ASSUME TypeOK, NEW e \in Ends, TimeWait(e) \/ Discard(e) \/ Lose(e)
    PROVE  TypeOK'
<1>net. net \in [Ends -> Seq(Packet)] /\ net[e] \in Seq(Packet)
  BY DEF TypeOK
<1>1. CASE TimeWait(e)
  <2>1. sock \in [Ends -> SocketType]
    BY DEF TypeOK
  <2>2. sock' \in [Ends -> SocketType]
    BY <1>1, <2>1 DEF TimeWait, SocketType
  <2> QED BY <1>1, <2>2 DEF TimeWait, TypeOK
<1>2. CASE Discard(e)
  <2>1. net' \in [Ends -> Seq(Packet)]
    BY <1>2, <1>net DEF Discard
  <2> QED BY <1>2, <2>1 DEF Discard, TypeOK
<1>3. CASE Lose(e)
  <2>1. net' \in [Ends -> Seq(Packet)]
    BY <1>3, <1>net DEF Lose
  <2>2. faults \in [loss : Nat, sendErr : Nat, premature : Nat]
    BY DEF TypeOK
  <2>3. faults' \in [loss : Nat, sendErr : Nat, premature : Nat]
    BY <1>3, <2>2 DEF Lose
  <2> QED BY <1>3, <2>1, <2>3 DEF Lose, TypeOK
<1> QED BY <1>1, <1>2, <1>3

------------------------------------------------------------------------------
(* Which variables a goroutine or a thread leaves alone *)

\* HandleVWrite leaves the receiving half, the socket's state and VClose alone.
LEMMA HandleVWriteFrame ==
    ASSUME NEW e \in Ends, HandleVWrite(e)
    PROVE  UNCHANGED <<sock, rcv, reader, closer>>
BY DEF HandleVWrite, FindNothingToWrite, SleepHandleVWrite, FindDataToWrite,
       TakePayload, SendSegment, FailSegment, AdvanceSequence, EnterZWP, ArmZWP,
       SendProbe, StopProbing, LeaveZWP, SendFin, FailFin, CountFin, QueueFin

\* HandleRT touches RTQueue, its own place and the network only.
LEMMA HandleRTFrame ==
    ASSUME NEW e \in Ends, HandleRT(e)
    PROVE  UNCHANGED <<sock, snd, WriteBuffer, rcv, handler, vwrite, writer,
                       reader, closer>>
BY DEF HandleRT, CheckRTQueue, ExpireRTTimer, Retransmit

\* HandleTCPPacket does not touch WriteBuffer, HandleVWrite, HandleRT or VWrite.
LEMMA HandleTCPPacketFrame ==
    ASSUME NEW e \in Ends, HandleTCPPacket(e)
    PROVE  UNCHANGED <<WriteBuffer, vwrite, rt, writer, closer>>
BY DEF HandleTCPPacket, ReceiveNewAck, ReceiveOtherAck, ReceiveNextFin,
       ReceiveOtherFin, CompareAckAgain, PurgeSegment, PurgeLastFin,
       FinishPurge, UpdateWindow, CheckProbe, IgnoreEmptyText, ReceiveNextText,
       ReceiveOtherText, TakeEarlyArrival, LeaveEarlyArrivals, SendAck

\* VWrite touches WriteBuffer, itself and, by a broadcast, HandleVWrite.
LEMMA CallVWriteFrame ==
    ASSUME NEW e \in Ends, CallVWrite(e) \/ VWrite(e)
    PROVE  UNCHANGED <<sock, snd, rtq, rcv, handler, rt, reader, closer, net, faults>>
BY DEF CallVWrite, VWrite

\* VRead touches the receiving half and itself.
LEMMA VReadFrame ==
    ASSUME NEW e \in Ends, VRead(e)
    PROVE  UNCHANGED <<sock, snd, WriteBuffer, rtq, handler, vwrite, rt, writer,
                       closer, net, faults>>
BY DEF VRead, CallVRead, ReturnData, FindNothingToRead, SleepVRead

\* VClose touches the state and, by a broadcast, HandleVWrite.
LEMMA VCloseFrame ==
    ASSUME NEW e \in Ends, VClose(e)
    PROVE  UNCHANGED <<snd, WriteBuffer, rtq, rcv, handler, rt, writer, reader,
                       net, faults>>
BY DEF VClose, CallVClose, AssignFinWait1, WakeHandleVWrite, AssignLastAck

\* TIME_WAIT and the network touch the tables and the packets.
LEMMA NetworkFrame ==
    ASSUME NEW e \in Ends, TimeWait(e) \/ Discard(e) \/ Lose(e)
    PROVE  UNCHANGED <<snd, WriteBuffer, rtq, rcv, handler, vwrite, rt, writer,
                       reader, closer>>
BY DEF TimeWait, Discard, Lose

------------------------------------------------------------------------------
(* HandleVWriteHolds and WrittenInRange are preserved *)

\* Nothing takes from WriteBuffer what HandleVWrite has found there, and only
\* HandleVWrite changes its own payload.
LEMMA HandleVWriteHoldsStep ==
    ASSUME TypeOK, HandleVWriteHolds, Next
    PROVE  HandleVWriteHolds'
<1>1. PICK e \in Ends :
        \/ HandleVWrite(e) \/ HandleRT(e) \/ HandleTCPPacket(e)
        \/ Application(e) \/ TimeWait(e) \/ Discard(e) \/ Lose(e)
  BY DEF Next
<1>2. CASE HandleVWrite(e)
  <2>1. CASE FindNothingToWrite(e)
    BY <2>1 DEF FindNothingToWrite, HandleVWriteHolds, TypeOK, VWriteType
  <2>2. CASE SleepHandleVWrite(e)
    BY <2>2 DEF SleepHandleVWrite, HandleVWriteHolds, TypeOK, VWriteType
  <2>3. CASE FindDataToWrite(e)
    BY <2>3 DEF FindDataToWrite, HandleVWriteHolds, TypeOK, VWriteType
  <2>4. CASE TakePayload(e)
    BY <2>4 DEF TakePayload, HandleVWriteHolds, TypeOK, VWriteType
  <2>5. CASE SendSegment(e)
    BY <2>5 DEF SendSegment, HandleVWriteHolds, TypeOK, VWriteType
  <2>6. CASE FailSegment(e)
    BY <2>6 DEF FailSegment, HandleVWriteHolds, TypeOK, VWriteType
  <2>7. CASE AdvanceSequence(e)
    BY <2>7 DEF AdvanceSequence, HandleVWriteHolds, TypeOK, VWriteType
  <2>8. CASE EnterZWP(e)
    <3>1. WriteBuffer[e] \in Seq(Byte) /\ 1 \in 0 .. Len(WriteBuffer[e])
      BY <2>8 DEF EnterZWP, HandleVWriteHolds, TypeOK, Buffer
    <3>2. Len(First(WriteBuffer[e], 1)) = 1
      BY <3>1, FirstType
    <3> QED BY <2>8, <3>2 DEF EnterZWP, HandleVWriteHolds, TypeOK, VWriteType
  <2>9. CASE ArmZWP(e)
    BY <2>9 DEF ArmZWP, HandleVWriteHolds, TypeOK, VWriteType
  <2>10. CASE SendProbe(e)
    BY <2>10 DEF SendProbe, HandleVWriteHolds, TypeOK, VWriteType
  <2>11. CASE StopProbing(e)
    BY <2>11 DEF StopProbing, HandleVWriteHolds, TypeOK, VWriteType
  <2>12. CASE LeaveZWP(e)
    BY <2>12 DEF LeaveZWP, HandleVWriteHolds, TypeOK, VWriteType
  <2>13. CASE SendFin(e)
    BY <2>13 DEF SendFin, HandleVWriteHolds, TypeOK, VWriteType, Segment
  <2>14. CASE FailFin(e)
    BY <2>14 DEF FailFin, HandleVWriteHolds, TypeOK, VWriteType
  <2>15. CASE CountFin(e)
    BY <2>15 DEF CountFin, HandleVWriteHolds, TypeOK, VWriteType
  <2>16. CASE QueueFin(e)
    BY <2>16 DEF QueueFin, HandleVWriteHolds, TypeOK, VWriteType
  <2> QED
    BY <1>2, <2>1, <2>2, <2>3, <2>4, <2>5, <2>6, <2>7, <2>8, <2>9, <2>10,
       <2>11, <2>12, <2>13, <2>14, <2>15, <2>16 DEF HandleVWrite
<1>3. CASE HandleRT(e)
  BY <1>3, HandleRTFrame DEF HandleVWriteHolds
<1>4. CASE HandleTCPPacket(e)
  BY <1>4, HandleTCPPacketFrame DEF HandleVWriteHolds
<1>5. CASE CallVWrite(e)
  BY <1>5 DEF CallVWrite, HandleVWriteHolds
<1>6. CASE VWrite(e)
  BY <1>6 DEF VWrite, WriteLockFree, WokenVWrite, HandleVWriteHolds, TypeOK, VWriteType
<1>7. CASE VRead(e)
  BY <1>7, VReadFrame DEF HandleVWriteHolds
<1>8. CASE VClose(e)
  <2>1. CASE WakeHandleVWrite(e)
    BY <2>1 DEF WakeHandleVWrite, WokenVWrite, HandleVWriteHolds, TypeOK, VWriteType
  <2>2. CASE CallVClose(e) \/ AssignFinWait1(e) \/ AssignLastAck(e)
    BY <2>2 DEF CallVClose, AssignFinWait1, AssignLastAck, HandleVWriteHolds
  <2> QED BY <1>8, <2>1, <2>2 DEF VClose
<1>9. CASE TimeWait(e) \/ Discard(e) \/ Lose(e)
  BY <1>9, NetworkFrame DEF HandleVWriteHolds
<1> QED
  BY <1>1, <1>2, <1>3, <1>4, <1>5, <1>6, <1>7, <1>8, <1>9 DEF Application

\* VWrite stops at the end of its data (api.go:308).
LEMMA WrittenInRangeStep ==
    ASSUME TypeOK, WrittenInRange, Next
    PROVE  WrittenInRange'
<1>1. PICK e \in Ends :
        \/ HandleVWrite(e) \/ HandleRT(e) \/ HandleTCPPacket(e)
        \/ Application(e) \/ TimeWait(e) \/ Discard(e) \/ Lose(e)
  BY DEF Next
<1>2. ASSUME writer' \in {writer, WokenWriter(e)}
      PROVE  WrittenInRange'
  <2>1. \A d \in Ends : writer'[d].written = writer[d].written
    <3>1. writer \in [Ends -> WriterType]
      BY DEF TypeOK
    <3>2. CASE writer' = WokenWriter(e)
      BY <3>1, <3>2 DEF WokenWriter, WriterType
    <3> QED BY <1>2, <3>2
  <2> QED BY <2>1 DEF WrittenInRange
<1>3. CASE HandleVWrite(e)
  <2>1. writer' \in {writer, WokenWriter(e)}
    BY <1>3
    DEF HandleVWrite, FindNothingToWrite, SleepHandleVWrite, FindDataToWrite,
        TakePayload, SendSegment, FailSegment, AdvanceSequence, EnterZWP, ArmZWP,
        SendProbe, StopProbing, LeaveZWP, SendFin, FailFin, CountFin, QueueFin
  <2> QED BY <1>2, <2>1
<1>4. CASE CallVWrite(e)
  BY <1>4 DEF CallVWrite, WrittenInRange, TypeOK, WriterType
<1>5. CASE VWrite(e)
  <2> DEFINE left == EndOfCall(e) - writer[e].written
             size == Smaller(left, WriteBufferFree(e))
  <2>1. writer[e].written + size <= ToWrite[e]
    <3>1. size \in 0 .. left /\ EndOfCall(e) \in Nat /\ EndOfCall(e) <= ToWrite[e]
      BY VWriteSize
    <3>2. writer[e].written \in Nat /\ ToWrite[e] \in Nat
      BY WorkloadAssumption DEF TypeOK, WriterType
    <3> HIDE DEF size
    <3> QED BY <3>1, <3>2
  <2>2. \A d \in Ends : writer'[d].written = IF d = e THEN writer[e].written + size
                                                   ELSE writer[d].written
    BY <1>5 DEF VWrite, TypeOK
  <2> HIDE DEF size
  <2> QED BY <2>1, <2>2 DEF WrittenInRange
<1>6. CASE HandleRT(e) \/ HandleTCPPacket(e) \/ VRead(e) \/ VClose(e)
           \/ TimeWait(e) \/ Discard(e) \/ Lose(e)
  BY <1>2, <1>6, HandleRTFrame, HandleTCPPacketFrame, VReadFrame, VCloseFrame,
     NetworkFrame
<1> QED BY <1>1, <1>3, <1>4, <1>5, <1>6 DEF Application

------------------------------------------------------------------------------
(* Type correctness *)

\* The inductive invariant.
IInv == TypeOK /\ HandleVWriteHolds /\ WrittenInRange

\* A socket just made by MakeTCPSocket satisfies the invariant.
LEMMA InitIInv == Init => IInv
<1> SUFFICES ASSUME Init PROVE IInv
  OBVIOUS
<1>1. HandleVWriteHolds /\ WrittenInRange
  BY WorkloadAssumption DEF Init, HandleVWriteHolds, WrittenInRange
<1>2. TypeOK
  <2>empty. <<>> \in Seq(Byte) /\ <<>> \in Seq(Packet) /\ <<>> \in Text /\ <<>> \in Buffer
    BY SizeType DEF Text, Buffer
  <2>noPacket. NoPacket \in Packet
    BY <2>empty, SizeAssumption DEF NoPacket, Packet, SeqNums, Windows
  <2>1. sock \in [Ends -> SocketType]
    BY DEF Init, SocketType, States
  <2>2. snd \in [Ends -> SenderType]
    <3>1. ASSUME NEW e \in Ends
          PROVE  (InitSeqNum[e] + 1) % SeqSpace \in SeqNums /\ InitSeqNum[e] \in SeqNums
      BY SizeAssumption, SeqNumRange DEF SeqNums
    <3>2. 0 \in SeqNums /\ MaxBufferSize \in Windows /\ Client \in Ends
      BY SizeAssumption DEF SeqNums, Windows, Ends
    <3>3. ASSUME NEW e \in Ends PROVE InitialSender(e) \in SenderType
      BY <3>1, <3>2 DEF InitialSender, SenderType
    <3> QED BY <3>3 DEF Init
  <2>3. WriteBuffer \in [Ends -> Buffer]
    BY <2>empty DEF Init
  <2>4. rtq \in [Ends -> RTQueueType]
    BY <2>empty, SizeType DEF Init, RTQueueType, Windows
  <2>5. rcv \in [Ends -> ReceiverType]
    BY <2>empty, SizeAssumption DEF Init, ReceiverType, SeqNums
  <2>6. handler \in [Ends -> HandlerType]
    BY <2>noPacket DEF Init, HandlerType, HandlerStates
  <2>7. vwrite \in [Ends -> VWriteType]
    BY <2>empty, <2>noPacket DEF Init, VWriteType, VWriteStates
  <2>8. rt \in [Ends -> RTStates] /\ closer \in [Ends -> CloserStates]
    BY DEF Init, RTStates, CloserStates
  <2>9. writer \in [Ends -> WriterType] /\ reader \in [Ends -> ReaderType]
    BY <2>empty DEF Init, WriterType, ReaderType
  <2>10. net \in [Ends -> Seq(Packet)]
    BY <2>empty DEF Init
  <2>11. faults \in [loss : Nat, sendErr : Nat, premature : Nat]
    BY DEF Init
  <2> QED
    BY <2>1, <2>2, <2>3, <2>4, <2>5, <2>6, <2>7, <2>8, <2>9, <2>10, <2>11 DEF TypeOK
<1> QED BY <1>1, <1>2 DEF IInv

\* Every step of every goroutine, thread and of the network preserves it.
LEMMA StepIInv == IInv /\ [Next]_vars => IInv'
<1> SUFFICES ASSUME IInv, [Next]_vars PROVE IInv'
  OBVIOUS
<1>0. TypeOK /\ HandleVWriteHolds /\ WrittenInRange
  BY DEF IInv
<1>1. CASE Next
  <2>1. TypeOK'
    BY <1>0, <1>1, HandleVWriteType, HandleRTType, HandleTCPPacketType,
       ApplicationType, NetworkType DEF Next
  <2> QED BY <1>0, <1>1, <2>1, HandleVWriteHoldsStep, WrittenInRangeStep DEF IInv
<1>2. CASE UNCHANGED vars
  BY <1>0, <1>2 DEF vars, IInv, TypeOK, HandleVWriteHolds, WrittenInRange
<1> QED BY <1>1, <1>2

\* The types, what HandleVWrite relies on between its steps, and the bound of
\* VWrite hold in every state a connection can reach, whatever the interleaving.
THEOREM InductiveInvariant == Spec => []IInv
BY InitIInv, StepIInv, PTL DEF Spec

\* Every field keeps the range of its Go type: ReadBuffer and WriteBuffer stay
\* within the capacity of their ring buffers, BytesInFlight and the windows are
\* uint16, sequence numbers uint32, and no packet holds more than MaxSegmentSize
\* bytes (types.go:76-131).
THEOREM TypeCorrect == Spec => []TypeOK
BY InductiveInvariant, PTL DEF IInv

------------------------------------------------------------------------------
(* Packets and FINs *)

\* The packets end e holds or has sent to its peer, those on their way to it or
\* taken in by it, and the packets of e that are still about.
Outgoing(e) ==
    {vwrite[e].packet} \union Range(rtq[e].RTQueue) \union Range(net[Peer(e)])
Incoming(e) ==
    {handler[e].packet} \union Range(net[e]) \union Range(rcv[e].EarlyArrivalQueue)
PacketsOf(e) == Outgoing(e) \union Incoming(Peer(e))

\* The packet that end e makes in this step.
Makes(e, packet) ==
    \/ /\ SendSegment(e)
       /\ packet = Segment(e, "ACK", First(vwrite[e].payload, SegmentSize(e)), 0)
    \/ ArmZWP(e) /\ packet = Segment(e, "ACK", vwrite[e].payload, 0)
    \/ SendFin(e) /\ packet = Segment(e, "FIN", <<>>, 0)
    \/ SendAck(e) /\ packet = Segment(e, "ACK", <<>>, 0)
    \/ (\E i \in Nat : ReceiveNextFin(e, i)) /\ packet = Segment(e, "ACK", <<>>, 1)

------------------------------------------------------------------------------
(* What must hold along the way *)

\* A FIN is about only if HandleVWrite has come to send it.
FinsAreSent ==
    \A e \in Ends : \A packet \in PacketsOf(e) : packet.Flags = "FIN" => FinSent(e)

\* What the state of a socket says about the FINs of both ends, and about the
\* place VClose has come to.
StateKnows ==
    \A e \in Ends :
        /\ PeerHasClosed(e) => FinSent(Peer(e))
        /\ sock[e].ConnState \in {"FIN_WAIT_2", "TIME_WAIT", "CLOSED"} => FinSent(e)
        /\ closer[e] \in {"idle", "finWait1"} =>
             sock[e].ConnState \in {"ESTABLISHED", "CLOSE_WAIT"}
        /\ closer[e] \in {"wakeLast", "lastAck"} => sock[e].ConnState = "CLOSE_WAIT"
        /\ ~sock[e].InTable => sock[e].ConnState \in {"TIME_WAIT", "CLOSED"}

ClosingInv == FinsAreSent /\ StateKnows

------------------------------------------------------------------------------
(* Packets move *)

\* Append adds one element to a queue,
LEMMA RangeAppend ==
    ASSUME NEW S, NEW s \in Seq(S), NEW x
    PROVE  Range(Append(s, x)) = Range(s) \union {x}
<1> DEFINE t == Append(s, x)
<1>1. /\ DOMAIN t = 1 .. Len(s) + 1 /\ DOMAIN s = 1 .. Len(s) /\ Len(s) \in Nat
      /\ \A i \in 1 .. Len(s) : t[i] = s[i]
      /\ t[Len(s) + 1] = x
  OBVIOUS
<1> HIDE DEF t
<1>2. Range(t) \subseteq Range(s) \union {x}
  BY <1>1 DEF Range
<1>3. Range(s) \subseteq Range(t) /\ x \in Range(t)
  BY <1>1 DEF Range
<1> QED BY <1>2, <1>3 DEF t

\* Tail adds none, and Head is one of them,
LEMMA RangeTail ==
    ASSUME NEW S, NEW s \in Seq(S), s # <<>>
    PROVE  Range(Tail(s)) \subseteq Range(s) /\ Head(s) \in Range(s)
<1> DEFINE t == Tail(s)
<1>1. /\ DOMAIN t = 1 .. Len(s) - 1 /\ DOMAIN s = 1 .. Len(s) /\ Len(s) \in Nat \ {0}
      /\ \A i \in 1 .. Len(s) - 1 : t[i] = s[i + 1]
      /\ Head(s) = s[1]
  BY EmptySeq
<1> HIDE DEF t
<1> QED BY <1>1 DEF Range, t

\* nor does taking one out of the middle.
LEMMA RangeRemoveAt ==
    ASSUME NEW S, NEW s \in Seq(S), NEW i \in 1 .. Len(s)
    PROVE  Range(RemoveAt(s, i)) \subseteq Range(s) /\ s[i] \in Range(s)
<1> DEFINE front == SubSeq(s, 1, i - 1)
           back == SubSeq(s, i + 1, Len(s))
<1>1. front \in Seq(S) /\ back \in Seq(S)
  OBVIOUS
<1>2. Range(front) \subseteq Range(s) /\ Range(back) \subseteq Range(s)
  BY DEF Range
<1>3. Range(front \o back) = Range(front) \union Range(back)
  BY <1>1, RangeConcatenation, ZenonT(40)
<1>4. s[i] \in Range(s)
  BY DEF Range
<1> QED BY <1>2, <1>3, <1>4 DEF RemoveAt

\* The peer of the peer.
LEMMA PeerOfPeer ==
    ASSUME NEW e \in Ends
    PROVE  Peer(e) \in Ends /\ Peer(e) # e /\ Peer(Peer(e)) = e /\ Ends = {e, Peer(e)}
BY EndsAssumption DEF Ends, Peer

\* SendIP puts at most that packet on the way to the peer.
LEMMA RangeSent ==
    ASSUME TypeOK, NEW e \in Ends, NEW packet
    PROVE  /\ Range(Sent(e, packet)[Peer(e)]) \subseteq Range(net[Peer(e)]) \union {packet}
           /\ Sent(e, packet)[e] = net[e]
<1>1. net \in [Ends -> Seq(Packet)] /\ net[Peer(e)] \in Seq(Packet)
  BY PeerOfPeer DEF TypeOK
<1>2. Range(Append(net[Peer(e)], packet)) = Range(net[Peer(e)]) \union {packet}
  BY <1>1, RangeAppend
<1>3. Sent(e, packet)[Peer(e)] \in {net[Peer(e)], Append(net[Peer(e)], packet)}
  BY <1>1, PeerOfPeer DEF Sent
<1> QED BY <1>1, <1>2, <1>3, SentOther

\* HandleVWrite makes segments, probes and the FIN, and hands them on,
LEMMA HandleVWriteMakes ==
    ASSUME TypeOK, NEW e \in Ends, HandleVWrite(e), NEW packet \in Outgoing(e)'
    PROVE  packet \in Outgoing(e) \/ packet = NoPacket \/ Makes(e, packet)
<1> DEFINE p == Peer(e)
           goal == packet \in Outgoing(e) \/ packet = NoPacket \/ Makes(e, packet)
<1>1. /\ vwrite \in [Ends -> VWriteType] /\ vwrite[e] \in VWriteType
      /\ rtq \in [Ends -> RTQueueType] /\ rtq[e].RTQueue \in Seq(Packet)
  BY DEF TypeOK, RTQueueType
<1>2. \/ packet = vwrite'[e].packet
      \/ packet \in Range(rtq'[e].RTQueue)
      \/ packet \in Range(net'[p])
  BY DEF Outgoing, Peer
<1>same. ASSUME vwrite'[e].packet \in {vwrite[e].packet, NoPacket},
                rtq'[e].RTQueue = rtq[e].RTQueue, net' = net
         PROVE  goal
  BY <1>2, <1>same DEF Outgoing
<1>3. CASE SendSegment(e)
  <2> DEFINE segment == Segment(e, "ACK", First(vwrite[e].payload, SegmentSize(e)), 0)
  <2>1. /\ vwrite'[e].packet = vwrite[e].packet
        /\ rtq'[e].RTQueue = Append(rtq[e].RTQueue, segment)
        /\ net' = Sent(e, segment)
    BY <1>1, <1>3 DEF SendSegment, Enqueued, VWriteType
  <2>2. Makes(e, segment)
    BY <1>3 DEF Makes
  <2> HIDE DEF segment
  <2>3. Range(rtq'[e].RTQueue) = Range(rtq[e].RTQueue) \union {segment}
    BY <1>1, <2>1, RangeAppend
  <2>4. Range(net'[p]) \subseteq Range(net[p]) \union {segment}
    BY <2>1, RangeSent
  <2> QED BY <1>2, <2>1, <2>2, <2>3, <2>4 DEF Outgoing
<1>4. CASE ArmZWP(e)
  <2> DEFINE probe == Segment(e, "ACK", vwrite[e].payload, 0)
  <2>1. /\ vwrite'[e].packet = probe
        /\ rtq'[e].RTQueue = rtq[e].RTQueue
        /\ net' = Sent(e, probe)
    BY <1>1, <1>4 DEF ArmZWP, VWriteType, RTQueueType
  <2>2. Makes(e, probe)
    BY <1>4 DEF Makes
  <2> HIDE DEF probe
  <2>3. Range(net'[p]) \subseteq Range(net[p]) \union {probe}
    BY <2>1, RangeSent
  <2> QED BY <1>2, <2>1, <2>2, <2>3 DEF Outgoing
<1>5. CASE SendFin(e)
  <2> DEFINE fin == Segment(e, "FIN", <<>>, 0)
  <2>1. /\ vwrite'[e].packet = fin
        /\ rtq'[e].RTQueue = rtq[e].RTQueue
        /\ net' = Sent(e, fin)
    BY <1>1, <1>5 DEF SendFin, VWriteType
  <2>2. Makes(e, fin)
    BY <1>5 DEF Makes
  <2> HIDE DEF fin
  <2>3. Range(net'[p]) \subseteq Range(net[p]) \union {fin}
    BY <2>1, RangeSent
  <2> QED BY <1>2, <2>1, <2>2, <2>3 DEF Outgoing
<1>6. CASE SendProbe(e)
  <2>1. net' = Sent(e, vwrite[e].packet) /\ vwrite' = vwrite /\ rtq' = rtq
    BY <1>6 DEF SendProbe
  <2>2. Range(net'[p]) \subseteq Range(net[p]) \union {vwrite[e].packet}
    BY <2>1, RangeSent
  <2> QED BY <1>2, <2>1, <2>2 DEF Outgoing
<1>7. CASE QueueFin(e)
  <2>1. /\ vwrite'[e].packet = NoPacket
        /\ rtq'[e].RTQueue = Append(rtq[e].RTQueue, vwrite[e].packet)
        /\ net' = net
    BY <1>1, <1>7 DEF QueueFin, VWriteType, RTQueueType
  <2>2. Range(rtq'[e].RTQueue) = Range(rtq[e].RTQueue) \union {vwrite[e].packet}
    BY <1>1, <2>1, RangeAppend
  <2> QED BY <1>2, <2>1, <2>2 DEF Outgoing
<1>8. CASE FindNothingToWrite(e) \/ SleepHandleVWrite(e) \/ FindDataToWrite(e)
  BY <1>1, <1>8, <1>same
  DEF FindNothingToWrite, SleepHandleVWrite, FindDataToWrite, VWriteType
<1>9. CASE TakePayload(e) \/ FailSegment(e) \/ AdvanceSequence(e) \/ EnterZWP(e)
  BY <1>1, <1>9, <1>same DEF TakePayload, FailSegment, AdvanceSequence, EnterZWP, VWriteType
<1>10. CASE StopProbing(e) \/ LeaveZWP(e) \/ FailFin(e) \/ CountFin(e)
  BY <1>1, <1>10, <1>same
  DEF StopProbing, LeaveZWP, FailFin, CountFin, VWriteType, RTQueueType
<1> QED BY <1>3, <1>4, <1>5, <1>6, <1>7, <1>8, <1>9, <1>10 DEF HandleVWrite

\* HandleRT sends the head of RTQueue once more,
LEMMA HandleRTMakes ==
    ASSUME TypeOK, NEW e \in Ends, HandleRT(e)
    PROVE  Outgoing(e)' \subseteq Outgoing(e)
<1>1. rtq \in [Ends -> RTQueueType] /\ rtq[e].RTQueue \in Seq(Packet)
  BY DEF TypeOK, RTQueueType
<1>2. vwrite' = vwrite /\ rtq'[e].RTQueue = rtq[e].RTQueue
  BY <1>1 DEF HandleRT, CheckRTQueue, ExpireRTTimer, Retransmit, RTQueueType
<1>3. CASE net' = net
  BY <1>2, <1>3 DEF Outgoing, Peer
<1>4. CASE rtq[e].RTQueue # <<>> /\ net' = Sent(e, Head(rtq[e].RTQueue))
  <2>1. Head(rtq[e].RTQueue) \in Range(rtq[e].RTQueue)
    BY <1>1, <1>4, RangeTail
  <2>2. Range(net'[Peer(e)]) \subseteq Range(net[Peer(e)]) \union {Head(rtq[e].RTQueue)}
    BY <1>4, RangeSent
  <2> QED BY <1>2, <2>1, <2>2 DEF Outgoing, Peer
<1> QED BY <1>3, <1>4 DEF HandleRT, CheckRTQueue, ExpireRTTimer, Retransmit

\* HandleTCPPacket takes segments off RTQueue and acknowledges,
LEMMA HandleTCPPacketMakes ==
    ASSUME TypeOK, NEW e \in Ends, HandleTCPPacket(e), NEW packet \in Outgoing(e)'
    PROVE  packet \in Outgoing(e) \/ Makes(e, packet)
<1> DEFINE p == Peer(e)
<1>1. rtq \in [Ends -> RTQueueType] /\ rtq[e].RTQueue \in Seq(Packet)
  BY DEF TypeOK, RTQueueType
<1>2. /\ net \in [Ends -> Seq(Packet)]
      /\ p \in Ends /\ p # e
  BY PeerOfPeer DEF TypeOK
<1>3. vwrite' = vwrite
  BY HandleTCPPacketFrame
<1>4. packet = vwrite[e].packet \/ packet \in Range(rtq'[e].RTQueue)
      \/ packet \in Range(net'[p])
  BY <1>3 DEF Outgoing, Peer
<1>same. ASSUME rtq'[e].RTQueue = rtq[e].RTQueue, net'[p] = net[p]
         PROVE  packet \in Outgoing(e)
  BY <1>4, <1>same DEF Outgoing
<1>5. CASE \E i \in 1 .. MaxReorder + 1 : ReceiveNewAck(e, i)
  BY <1>1, <1>2, <1>5, <1>same DEF ReceiveNewAck, RTQueueType
<1>6. CASE \E i \in 1 .. MaxReorder + 1 : ReceiveOtherAck(e, i) \/ ReceiveOtherFin(e, i)
  BY <1>2, <1>6, <1>same DEF ReceiveOtherAck, ReceiveOtherFin
<1>7. ASSUME NEW i \in 1 .. MaxReorder + 1, ReceiveNextFin(e, i)
      PROVE  packet \in Outgoing(e) \/ Makes(e, packet)
  <2> DEFINE ack == Segment(e, "ACK", <<>>, 1)
  <2>1. i \in Nat
    BY BoundAssumption
  <2>2. Makes(e, ack)
    BY <1>7, <2>1 DEF Makes
  <2> HIDE DEF ack
  <2>3. rtq' = rtq /\ net'[p] = Sent(e, ack)[p]
    BY <1>2, <1>7 DEF ReceiveNextFin, Sent, ack
  <2>4. Range(net'[p]) \subseteq Range(net[p]) \union {ack}
    BY <2>3, RangeSent
  <2> QED BY <1>4, <2>2, <2>3, <2>4 DEF Outgoing
<1>8. CASE PurgeSegment(e)
  <2>1. rtq[e].RTQueue # <<>> /\ rtq'[e].RTQueue = Tail(rtq[e].RTQueue) /\ net' = net
    BY <1>1, <1>8 DEF PurgeSegment, Dequeued, RTQueueType
  <2>2. Range(rtq'[e].RTQueue) \subseteq Range(rtq[e].RTQueue)
    BY <1>1, <2>1, RangeTail
  <2> QED BY <1>4, <2>1, <2>2 DEF Outgoing
<1>9. CASE FinishPurge(e)
  BY <1>1, <1>9, <1>same DEF FinishPurge, RTQueueType
<1>10. CASE SendAck(e)
  <2> DEFINE ack == Segment(e, "ACK", <<>>, 0)
  <2>1. rtq' = rtq /\ net' = Sent(e, ack) /\ Makes(e, ack)
    BY <1>10 DEF SendAck, Makes
  <2> HIDE DEF ack
  <2>2. Range(net'[p]) \subseteq Range(net[p]) \union {ack}
    BY <2>1, RangeSent
  <2> QED BY <1>4, <2>1, <2>2 DEF Outgoing
<1>11. CASE CompareAckAgain(e) \/ PurgeLastFin(e) \/ UpdateWindow(e) \/ CheckProbe(e)
            \/ IgnoreEmptyText(e) \/ ReceiveNextText(e) \/ ReceiveOtherText(e)
            \/ TakeEarlyArrival(e) \/ LeaveEarlyArrivals(e)
  <2>1. rtq' = rtq /\ net' = net
    BY <1>11 DEF CompareAckAgain, PurgeLastFin, UpdateWindow, CheckProbe,
       IgnoreEmptyText, ReceiveNextText, ReceiveOtherText, TakeEarlyArrival,
       LeaveEarlyArrivals
  <2> QED BY <1>same, <2>1
<1> QED
  BY <1>5, <1>6, <1>7, <1>8, <1>9, <1>10, <1>11 DEF HandleTCPPacket

\* and it takes in what has arrived.
LEMMA HandleTCPPacketTakes ==
    ASSUME TypeOK, NEW e \in Ends, HandleTCPPacket(e), NEW packet \in Incoming(e)'
    PROVE  packet \in Incoming(e) \/ packet = NoPacket
<1> DEFINE goal == packet \in Incoming(e) \/ packet = NoPacket
<1>1. /\ net \in [Ends -> Seq(Packet)] /\ net[e] \in Seq(Packet)
      /\ handler \in [Ends -> HandlerType]
      /\ rcv \in [Ends -> ReceiverType] /\ rcv[e].EarlyArrivalQueue \in Seq(Packet)
  BY DEF TypeOK, ReceiverType
<1>2. packet = handler'[e].packet \/ packet \in Range(net'[e])
      \/ packet \in Range(rcv'[e].EarlyArrivalQueue)
  BY DEF Incoming
<1>same. ASSUME handler'[e].packet \in {handler[e].packet, NoPacket}, net'[e] = net[e],
                rcv'[e].EarlyArrivalQueue = rcv[e].EarlyArrivalQueue
         PROVE  goal
  BY <1>2, <1>same DEF Incoming
<1>arrived. ASSUME NEW i \in Nat, Overtaken(e, i)
            PROVE  /\ Range(RemoveAt(net[e], i)) \subseteq Range(net[e])
                   /\ net[e][i] \in Range(net[e])
  BY <1>1, <1>arrived, RangeRemoveAt DEF Overtaken
<1>3. ASSUME NEW i \in 1 .. MaxReorder + 1, ReceiveNewAck(e, i) \/ ReceiveOtherAck(e, i)
      PROVE  goal
  <2>1. /\ i \in Nat /\ Overtaken(e, i) /\ net'[e] = RemoveAt(net[e], i)
        /\ rcv' = rcv /\ handler'[e].packet = net[e][i]
    BY <1>1, <1>3, BoundAssumption DEF ReceiveNewAck, ReceiveOtherAck, HandlerType
  <2> QED BY <1>2, <2>1, <1>arrived DEF Incoming
<1>4. ASSUME NEW i \in 1 .. MaxReorder + 1, ReceiveNextFin(e, i)
      PROVE  goal
  <2> DEFINE ack == Segment(e, "ACK", <<>>, 1)
  <2> HIDE DEF ack
  <2>1. /\ i \in Nat /\ Overtaken(e, i) /\ net' = [Sent(e, ack) EXCEPT ![e] = RemoveAt(@, i)]
        /\ rcv' = rcv /\ handler' = handler
    BY <1>4, BoundAssumption DEF ReceiveNextFin, ack
  <2>2. Sent(e, ack)[e] = net[e] /\ e \in DOMAIN Sent(e, ack)
    BY <1>1, SentOther DEF Sent
  <2>3. net'[e] = RemoveAt(net[e], i)
    BY <2>1, <2>2
  <2> QED BY <1>2, <2>1, <2>3, <1>arrived DEF Incoming
<1>5. ASSUME NEW i \in 1 .. MaxReorder + 1, ReceiveOtherFin(e, i)
      PROVE  goal
  <2>1. /\ i \in Nat /\ Overtaken(e, i) /\ net'[e] = RemoveAt(net[e], i)
        /\ handler' = handler
        /\ rcv'[e].EarlyArrivalQueue \in
             {rcv[e].EarlyArrivalQueue, Append(rcv[e].EarlyArrivalQueue, net[e][i])}
    BY <1>1, <1>5, BoundAssumption DEF ReceiveOtherFin, ReceiverType
  <2>2. Range(rcv'[e].EarlyArrivalQueue)
          \subseteq Range(rcv[e].EarlyArrivalQueue) \union {net[e][i]}
    BY <1>1, <2>1, RangeAppend
  <2> QED BY <1>2, <2>1, <2>2, <1>arrived DEF Incoming
<1>6. CASE ReceiveOtherText(e)
  <2>1. /\ net' = net /\ handler'[e].packet = handler[e].packet
        /\ rcv'[e].EarlyArrivalQueue \in
             {rcv[e].EarlyArrivalQueue, Append(rcv[e].EarlyArrivalQueue, handler[e].packet)}
    BY <1>1, <1>6 DEF ReceiveOtherText, ReceiverType, HandlerType
  <2>2. Range(rcv'[e].EarlyArrivalQueue)
          \subseteq Range(rcv[e].EarlyArrivalQueue) \union {handler[e].packet}
    BY <1>1, <2>1, RangeAppend
  <2> QED BY <1>2, <2>1, <2>2 DEF Incoming
<1>7. CASE TakeEarlyArrival(e)
  <2>1. PICK i \in DOMAIN rcv[e].EarlyArrivalQueue :
          /\ net' = net /\ handler' = handler
          /\ rcv'[e].EarlyArrivalQueue = RemoveAt(rcv[e].EarlyArrivalQueue, i)
    BY <1>1, <1>7 DEF TakeEarlyArrival, WriteSegment, ReceiverType
  <2>2. i \in 1 .. Len(rcv[e].EarlyArrivalQueue)
    BY <1>1
  <2>3. Range(rcv'[e].EarlyArrivalQueue) \subseteq Range(rcv[e].EarlyArrivalQueue)
    BY <1>1, <2>1, <2>2, RangeRemoveAt
  <2> QED BY <1>2, <2>1, <2>3 DEF Incoming
<1>8. CASE ReceiveNextText(e)
  <2>1. /\ net' = net /\ handler'[e].packet = handler[e].packet
        /\ rcv'[e].EarlyArrivalQueue = rcv[e].EarlyArrivalQueue
    BY <1>1, <1>8 DEF ReceiveNextText, WriteSegment, ReceiverType, HandlerType
  <2> QED BY <1>same, <2>1
<1>9. CASE SendAck(e)
  <2> DEFINE ack == Segment(e, "ACK", <<>>, 0)
  <2>1. rcv' = rcv /\ handler'[e].packet = NoPacket /\ net' = Sent(e, ack)
    BY <1>1, <1>9 DEF SendAck, Idle, HandlerType
  <2> HIDE DEF ack
  <2>2. net'[e] = net[e]
    BY <1>1, <2>1, SentOther
  <2> QED BY <1>same, <2>1, <2>2
<1>10. CASE CompareAckAgain(e) \/ PurgeLastFin(e) \/ FinishPurge(e) \/ UpdateWindow(e)
  BY <1>1, <1>10, <1>same
  DEF CompareAckAgain, PurgeLastFin, FinishPurge, UpdateWindow, HandlerType
<1>11. CASE PurgeSegment(e) \/ CheckProbe(e) \/ IgnoreEmptyText(e) \/ LeaveEarlyArrivals(e)
  BY <1>1, <1>11, <1>same
  DEF PurgeSegment, CheckProbe, IgnoreEmptyText, LeaveEarlyArrivals, Idle, HandlerType
<1> QED
  BY <1>3, <1>4, <1>5, <1>6, <1>7, <1>8, <1>9, <1>10, <1>11 DEF HandleTCPPacket

\* The step of one end leaves what the other holds alone.
LEMMA OtherEndHolds ==
    ASSUME TypeOK, NEW e \in Ends, NEW d \in Ends \ {e},
           \/ HandleVWrite(e) \/ HandleRT(e) \/ HandleTCPPacket(e)
           \/ Application(e) \/ TimeWait(e) \/ Discard(e) \/ Lose(e)
    PROVE  /\ vwrite'[d] = vwrite[d] /\ rtq'[d] = rtq[d]
           /\ handler'[d] = handler[d] /\ rcv'[d] = rcv[d]
<1>1. /\ vwrite \in [Ends -> VWriteType] /\ rtq \in [Ends -> RTQueueType]
      /\ handler \in [Ends -> HandlerType] /\ rcv \in [Ends -> ReceiverType]
  BY DEF TypeOK
<1>2. CASE HandleVWrite(e)
  <2>1. vwrite'[d] = vwrite[d]
    BY <1>1, <1>2
    DEF HandleVWrite, FindNothingToWrite, SleepHandleVWrite, FindDataToWrite,
        TakePayload, SendSegment, FailSegment, AdvanceSequence, EnterZWP, ArmZWP,
        SendProbe, StopProbing, LeaveZWP, SendFin, FailFin, CountFin, QueueFin
  <2>2. rtq'[d] = rtq[d] /\ handler'[d] = handler[d]
    BY <1>1, <1>2
    DEF HandleVWrite, FindNothingToWrite, SleepHandleVWrite, FindDataToWrite,
        TakePayload, SendSegment, FailSegment, AdvanceSequence, EnterZWP, ArmZWP,
        SendProbe, StopProbing, LeaveZWP, SendFin, FailFin, CountFin, QueueFin
  <2> QED BY <1>2, <2>1, <2>2, HandleVWriteFrame
<1>3. CASE HandleRT(e)
  <2>1. rtq'[d] = rtq[d]
    BY <1>1, <1>3 DEF HandleRT, CheckRTQueue, ExpireRTTimer, Retransmit
  <2> QED BY <1>3, <2>1, HandleRTFrame
<1>4. CASE HandleTCPPacket(e)
  <2>1. rtq'[d] = rtq[d] /\ handler'[d] = handler[d] /\ rcv'[d] = rcv[d]
    BY <1>1, <1>4
    DEF HandleTCPPacket, ReceiveNewAck, ReceiveOtherAck, ReceiveNextFin,
        ReceiveOtherFin, CompareAckAgain, PurgeSegment, PurgeLastFin,
        FinishPurge, UpdateWindow, CheckProbe, IgnoreEmptyText, ReceiveNextText,
        ReceiveOtherText, TakeEarlyArrival, LeaveEarlyArrivals, SendAck
  <2> QED BY <1>4, <2>1, HandleTCPPacketFrame
<1>5. CASE CallVWrite(e) \/ VWrite(e)
  <2>1. vwrite'[d] = vwrite[d]
    BY <1>1, <1>5 DEF CallVWrite, VWrite, WokenVWrite
  <2> QED BY <1>5, <2>1, CallVWriteFrame
<1>6. CASE VRead(e)
  <2>1. rcv'[d] = rcv[d]
    BY <1>1, <1>6 DEF VRead, CallVRead, ReturnData, FindNothingToRead, SleepVRead
  <2> QED BY <1>6, <2>1, VReadFrame
<1>7. CASE VClose(e)
  <2>1. vwrite'[d] = vwrite[d]
    BY <1>1, <1>7
    DEF VClose, CallVClose, AssignFinWait1, WakeHandleVWrite, AssignLastAck, WokenVWrite
  <2> QED BY <1>7, <2>1, VCloseFrame
<1>8. CASE TimeWait(e) \/ Discard(e) \/ Lose(e)
  BY <1>8, NetworkFrame
<1> QED BY <1>2, <1>3, <1>4, <1>5, <1>6, <1>7, <1>8 DEF Application

\* The application leaves the packets alone, and the network only drops some.
LEMMA OthersMakeNothing ==
    ASSUME TypeOK, NEW e \in Ends,
           Application(e) \/ TimeWait(e) \/ Discard(e) \/ Lose(e)
    PROVE  Outgoing(e)' \subseteq Outgoing(e) /\ Incoming(e)' \subseteq Incoming(e)
<1>1. /\ vwrite \in [Ends -> VWriteType] /\ rcv \in [Ends -> ReceiverType]
      /\ net \in [Ends -> Seq(Packet)] /\ net[e] \in Seq(Packet)
  BY DEF TypeOK
<1>2. vwrite'[e].packet = vwrite[e].packet /\ rtq' = rtq
  <2>1. CASE CallVWrite(e) \/ VWrite(e)
    BY <1>1, <2>1, CallVWriteFrame DEF CallVWrite, VWrite, WokenVWrite, VWriteType
  <2>2. CASE VClose(e)
    BY <1>1, <2>2, VCloseFrame
    DEF VClose, CallVClose, AssignFinWait1, WakeHandleVWrite, AssignLastAck,
        WokenVWrite, VWriteType
  <2> QED BY <2>1, <2>2, VReadFrame, NetworkFrame DEF Application
<1>3. handler' = handler /\ rcv'[e].EarlyArrivalQueue = rcv[e].EarlyArrivalQueue
  <2>1. CASE VRead(e)
    BY <1>1, <2>1, VReadFrame
    DEF VRead, CallVRead, ReturnData, FindNothingToRead, SleepVRead, ReceiverType
  <2> QED BY <2>1, CallVWriteFrame, VCloseFrame, NetworkFrame DEF Application
<1>4. Range(net'[e]) \subseteq Range(net[e]) /\ net'[Peer(e)] = net[Peer(e)]
  <2>1. CASE net' = net
    BY <2>1
  <2>2. CASE net[e] # <<>> /\ net' = [net EXCEPT ![e] = Tail(@)]
    BY <1>1, <2>2, RangeTail, PeerOfPeer
  <2> QED
    BY <2>1, <2>2, CallVWriteFrame, VReadFrame, VCloseFrame
    DEF Application, TimeWait, Discard, Lose
<1> QED BY <1>2, <1>3, <1>4 DEF Outgoing, Incoming, Peer

\* A step hands packets on, drops some, or makes one.
LEMMA PacketsStep ==
    ASSUME TypeOK, Next, NEW e \in Ends, NEW packet \in PacketsOf(e)'
    PROVE  packet \in PacketsOf(e) \/ packet = NoPacket \/ Makes(e, packet)
<1> DEFINE p == Peer(e)
           goal == packet \in PacketsOf(e) \/ packet = NoPacket \/ Makes(e, packet)
<1>1. p \in Ends /\ p # e /\ Peer(p) = e /\ Ends = {e, p}
  BY PeerOfPeer
<1>2. packet \in Outgoing(e)' \/ packet \in Incoming(p)'
  BY DEF PacketsOf, Peer
<1>3. PICK a \in Ends :
        \/ HandleVWrite(a) \/ HandleRT(a) \/ HandleTCPPacket(a)
        \/ Application(a) \/ TimeWait(a) \/ Discard(a) \/ Lose(a)
  BY DEF Next
<1>4. CASE a = e
  <2>1. packet \in Outgoing(e)' => goal
    BY <1>3, <1>4, HandleVWriteMakes, HandleRTMakes, HandleTCPPacketMakes, OthersMakeNothing
    DEF PacketsOf
  <2>2. packet \in Incoming(p)' => packet \in Incoming(p) \/ packet \in Outgoing(e)'
    <3>1. handler'[p] = handler[p] /\ rcv'[p] = rcv[p]
      BY <1>1, <1>3, <1>4, OtherEndHolds
    <3> QED BY <1>1, <3>1 DEF Incoming, Outgoing, Peer
  <2> QED BY <1>1, <1>2, <2>1, <2>2 DEF PacketsOf
<1>5. CASE a = p
  <2>1. packet \in Incoming(p)' => goal
    <3>1. CASE HandleTCPPacket(p)
      BY <1>1, <3>1, HandleTCPPacketTakes DEF PacketsOf
    <3>2. CASE Application(p) \/ TimeWait(p) \/ Discard(p) \/ Lose(p)
      BY <1>1, <3>2, OthersMakeNothing DEF PacketsOf
    <3>3. CASE HandleVWrite(p) \/ HandleRT(p)
      <4>1. rcv' = rcv /\ handler'[p].packet = handler[p].packet /\ net'[p] = net[p]
        <5>1. handler \in [Ends -> HandlerType] /\ net \in [Ends -> Seq(Packet)]
          BY DEF TypeOK
        <5>2. handler'[p].packet = handler[p].packet
          BY <1>1, <3>3, <5>1, HandleRTFrame
          DEF HandlerType,
              HandleVWrite, FindNothingToWrite, SleepHandleVWrite, FindDataToWrite,
              TakePayload, SendSegment, FailSegment, AdvanceSequence, EnterZWP, ArmZWP,
              SendProbe, StopProbing, LeaveZWP, SendFin, FailFin, CountFin, QueueFin
        <5>3. net'[p] = net[p]
          BY <1>1, <3>3, <5>1, SentOther
          DEF HandleVWrite, FindNothingToWrite, SleepHandleVWrite, FindDataToWrite,
              TakePayload, SendSegment, FailSegment, AdvanceSequence, EnterZWP, ArmZWP,
              SendProbe, StopProbing, LeaveZWP, SendFin, FailFin, CountFin, QueueFin,
              HandleRT, CheckRTQueue, ExpireRTTimer, Retransmit
        <5> QED BY <1>1, <3>3, <5>2, <5>3, HandleVWriteFrame, HandleRTFrame
      <4> QED BY <4>1 DEF Incoming, PacketsOf
    <3> QED BY <1>3, <1>5, <3>1, <3>2, <3>3
  <2>2. packet \in Outgoing(e)' => packet \in Outgoing(e) \/ packet \in Incoming(p)'
    <3>1. vwrite'[e] = vwrite[e] /\ rtq'[e] = rtq[e]
      BY <1>1, <1>3, <1>5, OtherEndHolds
    <3> QED BY <1>1, <3>1 DEF Incoming, Outgoing, Peer
  <2> QED BY <1>1, <1>2, <2>1, <2>2 DEF PacketsOf
<1> QED BY <1>1, <1>3, <1>4, <1>5

------------------------------------------------------------------------------
(* FINs *)

\* HandleVWrite ends after its FIN and is not woken again.
LEMMA FinSentStays ==
    ASSUME TypeOK, Next, NEW e \in Ends, FinSent(e)
    PROVE  FinSent(e)'
<1>1. vwrite \in [Ends -> VWriteType]
  BY DEF TypeOK
<1>2. PICK a \in Ends :
        \/ HandleVWrite(a) \/ HandleRT(a) \/ HandleTCPPacket(a)
        \/ Application(a) \/ TimeWait(a) \/ Discard(a) \/ Lose(a)
  BY DEF Next
<1>3. CASE a # e
  BY <1>2, <1>3, OtherEndHolds DEF FinSent
<1>4. CASE a = e /\ HandleVWrite(e)
  BY <1>1, <1>4
  DEF FinSent, VWriteType,
      HandleVWrite, FindNothingToWrite, SleepHandleVWrite, FindDataToWrite,
      TakePayload, SendSegment, FailSegment, AdvanceSequence, EnterZWP, ArmZWP,
      SendProbe, StopProbing, LeaveZWP, SendFin, FailFin, CountFin, QueueFin
<1>5. CASE a = e /\ ~HandleVWrite(e)
  <2>1. vwrite' \in {vwrite, WokenVWrite(e)}
    BY <1>2, <1>5, HandleRTFrame, HandleTCPPacketFrame, VReadFrame, NetworkFrame
    DEF Application, CallVWrite, VWrite, VClose, CallVClose, AssignFinWait1,
        WakeHandleVWrite, AssignLastAck
  <2> QED BY <1>1, <2>1 DEF FinSent, WokenVWrite
<1> QED BY <1>3, <1>4, <1>5

\* A FIN is made by SendFin and by nobody else.
LEMMA FinsAreSentStep ==
    ASSUME TypeOK, Next, FinsAreSent
    PROVE  FinsAreSent'
<1> SUFFICES ASSUME NEW e \in Ends, NEW packet \in PacketsOf(e)', packet.Flags = "FIN"
             PROVE  FinSent(e)'
  BY DEF FinsAreSent
<1>1. CASE packet \in PacketsOf(e)
  BY <1>1, FinSentStays DEF FinsAreSent
<1>2. CASE packet = NoPacket
  BY <1>2 DEF NoPacket
<1>3. CASE Makes(e, packet)
  <2>1. SendFin(e)
    BY <1>3 DEF Makes, Segment
  <2>2. vwrite'[e].pc = "finSeq"
    BY <2>1 DEF SendFin, TypeOK, VWriteType
  <2> QED BY <2>2 DEF FinSent
<1> QED BY <1>1, <1>2, <1>3, PacketsStep

------------------------------------------------------------------------------
(* The states of a socket *)

\* A FIN taken out of the early arrivals, or just arrived, is the peer's; one
\* taken off RTQueue is this end's own.
LEMMA FinOfWhom ==
    ASSUME TypeOK, FinsAreSent, NEW e \in Ends
    PROVE  /\ \A i \in Nat :
                Overtaken(e, i) /\ net[e][i].Flags = "FIN" => FinSent(Peer(e))
           /\ \A i \in DOMAIN rcv[e].EarlyArrivalQueue :
                rcv[e].EarlyArrivalQueue[i].Flags = "FIN" => FinSent(Peer(e))
           /\ rtq[e].RTQueue # <<>> /\ Head(rtq[e].RTQueue).Flags = "FIN" => FinSent(e)
<1>1. /\ net[e] \in Seq(Packet) /\ rtq[e].RTQueue \in Seq(Packet)
      /\ rcv[e].EarlyArrivalQueue \in Seq(Packet)
  BY DEF TypeOK, RTQueueType, ReceiverType
<1>2. Peer(e) \in Ends /\ Peer(Peer(e)) = e
  BY PeerOfPeer
<1>3. \A packet \in Incoming(e) : packet.Flags = "FIN" => FinSent(Peer(e))
  BY <1>2 DEF FinsAreSent, PacketsOf
<1>4. ASSUME NEW i \in Nat, Overtaken(e, i), net[e][i].Flags = "FIN"
      PROVE  FinSent(Peer(e))
  BY <1>1, <1>3, <1>4 DEF Overtaken, Incoming, Range
<1>5. ASSUME NEW i \in DOMAIN rcv[e].EarlyArrivalQueue,
             rcv[e].EarlyArrivalQueue[i].Flags = "FIN"
      PROVE  FinSent(Peer(e))
  BY <1>1, <1>3, <1>5 DEF Incoming, Range
<1>6. ASSUME rtq[e].RTQueue # <<>>, Head(rtq[e].RTQueue).Flags = "FIN"
      PROVE  FinSent(e)
  BY <1>1, <1>6, RangeTail DEF FinsAreSent, PacketsOf, Outgoing
<1> QED BY <1>4, <1>5, <1>6

\* StateKnows, for one end.
Knows(e) ==
    /\ PeerHasClosed(e) => FinSent(Peer(e))
    /\ sock[e].ConnState \in {"FIN_WAIT_2", "TIME_WAIT", "CLOSED"} => FinSent(e)
    /\ closer[e] \in {"idle", "finWait1"} =>
         sock[e].ConnState \in {"ESTABLISHED", "CLOSE_WAIT"}
    /\ closer[e] \in {"wakeLast", "lastAck"} => sock[e].ConnState = "CLOSE_WAIT"
    /\ ~sock[e].InTable => sock[e].ConnState \in {"TIME_WAIT", "CLOSED"}

\* Nothing that leaves the state and VClose alone makes it untrue.
LEMMA KnowsOn ==
    ASSUME TypeOK, Next, NEW e \in Ends, Knows(e),
           sock'[e] = sock[e], closer'[e] = closer[e]
    PROVE  Knows(e)'
<1>1. Peer(e) \in Ends /\ (FinSent(e) => FinSent(e)')
      /\ (FinSent(Peer(e)) => FinSent(Peer(e))')
  BY PeerOfPeer, FinSentStays
<1> QED BY <1>1 DEF Knows, PeerHasClosed, Peer

\* HandleTCPPacket changes the state at a FIN of the peer's or at the
\* acknowledgement of its own.
LEMMA HandleTCPPacketKnows ==
    ASSUME TypeOK, FinsAreSent, Next, NEW e \in Ends, Knows(e), HandleTCPPacket(e)
    PROVE  Knows(e)'
<1>1. /\ sock \in [Ends -> SocketType] /\ sock[e] \in SocketType
      /\ closer' = closer
  BY HandleTCPPacketFrame DEF TypeOK
<1>2. Peer(e) \in Ends /\ (FinSent(e) => FinSent(e)')
      /\ (FinSent(Peer(e)) => FinSent(Peer(e))')
  BY PeerOfPeer, FinSentStays
<1>fin. ASSUME FinSent(Peer(e)), sock' = [sock EXCEPT ![e].ConnState = StateAfterFin(e)]
        PROVE  Knows(e)'
  <2>1. sock'[e] = [sock[e] EXCEPT !.ConnState = StateAfterFin(e)]
    BY <1>1, <1>fin
  <2>2. sock'[e].ConnState = StateAfterFin(e) /\ sock'[e].InTable = sock[e].InTable
    BY <1>1, <2>1 DEF SocketType
  <2> QED
    BY <1>1, <1>2, <1>fin, <2>2 DEF Knows, PeerHasClosed, StateAfterFin, Peer
<1>same. ASSUME sock' = sock
         PROVE  Knows(e)'
  BY <1>1, <1>same, KnowsOn
<1>3. ASSUME NEW i \in 1 .. MaxReorder + 1, ReceiveNextFin(e, i)
      PROVE  Knows(e)'
  <2>1. i \in Nat /\ Overtaken(e, i) /\ net[e][i].Flags = "FIN"
        /\ sock' = [sock EXCEPT ![e].ConnState = StateAfterFin(e)]
    BY <1>3, BoundAssumption DEF ReceiveNextFin
  <2> QED BY <1>fin, <2>1, FinOfWhom
<1>4. CASE TakeEarlyArrival(e)
  <2>1. PICK i \in DOMAIN rcv[e].EarlyArrivalQueue :
          sock' = IF rcv[e].EarlyArrivalQueue[i].Flags = "FIN"
                  THEN [sock EXCEPT ![e].ConnState = StateAfterFin(e)] ELSE sock
    BY <1>4 DEF TakeEarlyArrival
  <2> QED BY <1>fin, <1>same, <2>1, FinOfWhom
<1>5. CASE PurgeSegment(e)
  <2>1. CASE Head(rtq[e].RTQueue).Flags = "FIN" /\ sock[e].ConnState = "FIN_WAIT_1"
    <3>1. /\ sock'[e].ConnState = "FIN_WAIT_2" /\ sock'[e].InTable = sock[e].InTable
          /\ FinSent(e)
      BY <1>1, <1>5, <2>1, FinOfWhom DEF PurgeSegment, SocketType
    <3> QED BY <1>1, <1>2, <2>1, <3>1 DEF Knows, PeerHasClosed
  <2>2. CASE ~(Head(rtq[e].RTQueue).Flags = "FIN" /\ sock[e].ConnState = "FIN_WAIT_1")
    BY <1>5, <1>same, <2>2 DEF PurgeSegment
  <2> QED BY <2>1, <2>2
<1>6. CASE PurgeLastFin(e)
  <2>1. /\ sock'[e].ConnState = "CLOSED" /\ sock[e].ConnState = "LAST_ACK"
        /\ FinSent(e)
    BY <1>1, <1>6, FinOfWhom DEF PurgeLastFin
  <2> QED BY <1>1, <1>2, <2>1 DEF Knows, PeerHasClosed, Peer
<1>7. CASE (\E i \in 1 .. MaxReorder + 1 :
              ReceiveNewAck(e, i) \/ ReceiveOtherAck(e, i) \/ ReceiveOtherFin(e, i))
           \/ CompareAckAgain(e) \/ FinishPurge(e) \/ UpdateWindow(e) \/ CheckProbe(e)
           \/ IgnoreEmptyText(e) \/ ReceiveNextText(e) \/ ReceiveOtherText(e)
           \/ LeaveEarlyArrivals(e) \/ SendAck(e)
  BY <1>7, <1>same
  DEF ReceiveNewAck, ReceiveOtherAck, ReceiveOtherFin, CompareAckAgain,
      FinishPurge, UpdateWindow, CheckProbe, IgnoreEmptyText, ReceiveNextText,
      ReceiveOtherText, LeaveEarlyArrivals, SendAck
<1> QED BY <1>3, <1>4, <1>5, <1>6, <1>7 DEF HandleTCPPacket

\* VClose assigns a state it may have read long ago.
LEMMA VCloseKnows ==
    ASSUME TypeOK, Next, NEW e \in Ends, Knows(e), VClose(e)
    PROVE  Knows(e)'
<1>1. /\ sock \in [Ends -> SocketType] /\ sock[e] \in SocketType
      /\ closer \in [Ends -> CloserStates]
  BY DEF TypeOK
<1>2. Peer(e) \in Ends /\ (FinSent(e) => FinSent(e)')
      /\ (FinSent(Peer(e)) => FinSent(Peer(e))')
  BY PeerOfPeer, FinSentStays
<1>3. CASE CallVClose(e)
  <2>1. /\ sock' = sock
        /\ closer'[e] \in {"finWait1", "wakeLast", "done"}
        /\ closer'[e] = "finWait1" => sock[e].ConnState = "ESTABLISHED"
        /\ closer'[e] = "wakeLast" => sock[e].ConnState = "CLOSE_WAIT"
    BY <1>1, <1>3 DEF CallVClose
  <2> QED BY <1>2, <2>1 DEF Knows, PeerHasClosed, Peer
<1>4. CASE AssignFinWait1(e)
  <2>1. /\ sock'[e].ConnState \in {"FIN_WAIT_1", sock[e].ConnState}
        /\ sock'[e].InTable = sock[e].InTable
        /\ closer[e] = "finWait1" /\ closer'[e] = "wake"
    BY <1>1, <1>4 DEF AssignFinWait1, SocketType
  <2> QED BY <1>2, <2>1 DEF Knows, PeerHasClosed, Peer
<1>5. CASE WakeHandleVWrite(e)
  <2>1. /\ sock' = sock
        /\ \/ closer'[e] = "done"
           \/ closer[e] = "wakeLast" /\ closer'[e] = "lastAck"
    BY <1>1, <1>5 DEF WakeHandleVWrite
  <2> QED BY <1>2, <2>1 DEF Knows, PeerHasClosed, Peer
<1>6. CASE AssignLastAck(e)
  <2>1. /\ sock'[e].ConnState = "LAST_ACK" /\ sock'[e].InTable = sock[e].InTable
        /\ closer[e] = "lastAck" /\ closer'[e] = "done"
    BY <1>1, <1>6 DEF AssignLastAck, SocketType
  <2> QED BY <1>2, <2>1 DEF Knows, PeerHasClosed, Peer
<1> QED BY <1>3, <1>4, <1>5, <1>6 DEF VClose

\* Only HandleTCPPacket, VClose and TimeWait move the state of their end.
LEMMA StateKnowsStep ==
    ASSUME TypeOK, Next, FinsAreSent, StateKnows
    PROVE  StateKnows'
<1> SUFFICES ASSUME NEW e \in Ends
             PROVE  Knows(e)'
  BY DEF StateKnows, Knows
<1>1. /\ sock \in [Ends -> SocketType] /\ closer \in [Ends -> CloserStates]
      /\ Knows(e)
  BY DEF TypeOK, StateKnows, Knows
<1>2. PICK a \in Ends :
        \/ HandleVWrite(a) \/ HandleRT(a) \/ HandleTCPPacket(a)
        \/ Application(a) \/ TimeWait(a) \/ Discard(a) \/ Lose(a)
  BY DEF Next
<1>3. CASE sock'[e] = sock[e] /\ closer'[e] = closer[e]
  BY <1>1, <1>3, KnowsOn
<1>4. CASE a = e /\ HandleTCPPacket(e)
  BY <1>1, <1>4, HandleTCPPacketKnows
<1>5. CASE a = e /\ VClose(e)
  BY <1>1, <1>5, VCloseKnows
<1>6. CASE a = e /\ TimeWait(e)
  <2>1. /\ sock'[e].ConnState = sock[e].ConnState /\ sock[e].ConnState = "TIME_WAIT"
        /\ closer' = closer
    BY <1>1, <1>6 DEF TimeWait, SocketType
  <2>2. Peer(e) \in Ends /\ (FinSent(e) => FinSent(e)')
        /\ (FinSent(Peer(e)) => FinSent(Peer(e))')
    BY PeerOfPeer, FinSentStays
  <2> QED BY <1>1, <2>1, <2>2 DEF Knows, PeerHasClosed, Peer
<1>7. CASE HandleVWrite(a) \/ HandleRT(a) \/ CallVWrite(a) \/ VWrite(a) \/ VRead(a)
           \/ Discard(a) \/ Lose(a)
  <2>1. UNCHANGED <<sock, closer>>
    BY <1>7, HandleVWriteFrame, HandleRTFrame, CallVWriteFrame, VReadFrame DEF Discard, Lose
  <2> QED BY <1>3, <2>1
<1>8. CASE a # e /\ (HandleTCPPacket(a) \/ VClose(a) \/ TimeWait(a))
  <2>1. sock'[e] = sock[e]
    BY <1>1, <1>8
    DEF HandleTCPPacket, ReceiveNewAck, ReceiveOtherAck, ReceiveNextFin,
        ReceiveOtherFin, CompareAckAgain, PurgeSegment, PurgeLastFin,
        FinishPurge, UpdateWindow, CheckProbe, IgnoreEmptyText, ReceiveNextText,
        ReceiveOtherText, TakeEarlyArrival, LeaveEarlyArrivals, SendAck,
        VClose, CallVClose, AssignFinWait1, WakeHandleVWrite, AssignLastAck, TimeWait
  <2>2. closer'[e] = closer[e]
    BY <1>1, <1>8, HandleTCPPacketFrame, NetworkFrame
    DEF VClose, CallVClose, AssignFinWait1, WakeHandleVWrite, AssignLastAck
  <2> QED BY <1>3, <2>1, <2>2
<1> QED BY <1>2, <1>3, <1>4, <1>5, <1>6, <1>7, <1>8 DEF Application

------------------------------------------------------------------------------
(* Deletion *)

\* Just after the handshake no FIN is about and nobody has closed.
LEMMA InitClosingInv == Init => ClosingInv
<1> SUFFICES ASSUME Init PROVE ClosingInv
  OBVIOUS
<1>1. FinsAreSent
  <2> SUFFICES ASSUME NEW e \in Ends, NEW packet \in PacketsOf(e)
               PROVE  packet.Flags # "FIN"
    BY DEF FinsAreSent
  <2>1. packet = NoPacket
    BY PeerOfPeer DEF Init, PacketsOf, Outgoing, Incoming, Range
  <2> QED BY <2>1 DEF NoPacket
<1>2. StateKnows
  BY DEF Init, StateKnows, PeerHasClosed
<1> QED BY <1>1, <1>2 DEF ClosingInv

\* Every step preserves it.
LEMMA StepClosingInv == IInv /\ ClosingInv /\ [Next]_vars => ClosingInv'
<1> SUFFICES ASSUME IInv, ClosingInv, [Next]_vars PROVE ClosingInv'
  OBVIOUS
<1>1. CASE Next
  BY <1>1, FinsAreSentStep, StateKnowsStep DEF IInv, ClosingInv
<1>2. CASE UNCHANGED vars
  BY <1>2
  DEF vars, ClosingInv, FinsAreSent, StateKnows, PeerHasClosed, FinSent,
      PacketsOf, Outgoing, Incoming, Peer
<1> QED BY <1>1, <1>2

\* FINs are about only if they were sent, and the states agree with them.
THEOREM FinsAndStatesAgree == Spec => []ClosingInv
BY InductiveInvariant, InitClosingInv, StepClosingInv, PTL DEF Spec

\* "the socket MUST NOT be deleted from the socket table until it has reached
\* the CLOSED state (ie, after the other side closes the connection...)"
\* (api.go:335): a socket leaves the table, by TimeWait or by the last
\* acknowledgement, only after VClose was called at its end and both ends
\* have sent their FINs.
THEOREM DeletedOnlyAfterBothClosed == Spec => []DeletedAfterBothClosed
<1>1. ClosingInv => DeletedAfterBothClosed
  BY DEF ClosingInv, StateKnows, DeletedAfterBothClosed, PeerHasClosed
<1> QED BY <1>1, FinsAndStatesAgree, PTL

==============================================================================
