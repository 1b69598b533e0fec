--------------------------- MODULE TcpStream_proofs ---------------------------
(***************************************************************************)
(* The numbers of a connection, and the stream they count: what an end has *)
(* numbered, what is in its packets wherever they are, and what its peer   *)
(* has received.  InitSeqNum is arbitrary, so that sequence numbers may    *)
(* pass the end of the sequence space, and the network may lose, delay and *)
(* reorder packets at will; only a stream must not use a number twice.     *)
(***************************************************************************)
EXTENDS TcpConnection_proofs

\* Every byte of a stream, and a FIN behind it, has a number of its own: less
\* than 4 GiB are written on one connection.
ShortStreams == \A e \in Ends : ToWrite[e] + 1 < SeqSpace

\* The place in the stream of end e of one of its packets: 1 is the first byte.
Position(e, packet) == (packet.SeqNum - InitSeqNum[e]) % SeqSpace

\* A segment enters the network before it is counted.
Uncounted(e) == IF vwrite[e].pc = "advance" THEN SegmentSize(e) ELSE 0

\* The place of a FIN that has been sent.
FinPosition(e) == snd[e].NumberBytesSent + (IF vwrite[e].pc = "finSeq" THEN 1 ELSE 0)

\* There is a FIN of e, or the peer has taken one.
FinAbout(e) ==
    \/ \E packet \in PacketsOf(e) : packet.Flags = "FIN"
    \/ PeerHasClosed(Peer(e))

\* No data of end e lies behind place n, neither in a packet nor received.
DataBefore(e, n) ==
    /\ \A packet \in PacketsOf(e) :
         packet.Data # <<>> => Position(e, packet) + Len(packet.Data) <= n
    /\ rcv[Peer(e)].NextExpectedByte <= n

\* What end e has numbered and has still in hand, and what that is at most.
Unsent(e) == Len(vwrite[e].payload)
Buffered(e) == Len(WriteBuffer[e])
InHand(e) == snd[e].NumberBytesSent + Unsent(e) + Buffered(e)
Handed(e) ==
    writer[e].written + (IF vwrite[e].pc \in {"finQueue", "done"} THEN 1 ELSE 0)

------------------------------------------------------------------------------
(* What must hold along the way *)

\* Bytes are numbered after they were written, and in their turn; the FIN
\* takes one more number.
NumbersWritten == \A e \in Ends : InHand(e) <= Handed(e)

\* Data in packets has been written, numbered, and lies before the FIN.
DataNumbered ==
    \A e \in Ends :
        /\ DataBefore(e, 1 + writer[e].written)
        /\ vwrite[e].pc \notin {"finQueue", "done"} =>
             DataBefore(e, 1 + snd[e].NumberBytesSent + Uncounted(e))
        /\ FinAbout(e) => DataBefore(e, FinPosition(e))

\* A FIN has the number behind all data, and is taken when that is its turn.
FinsNumbered ==
    \A e \in Ends :
        /\ \A packet \in PacketsOf(e) :
             packet.Flags = "FIN" => Position(e, packet) = FinPosition(e)
        /\ PeerHasClosed(Peer(e)) => rcv[Peer(e)].NextExpectedByte = FinPosition(e)

\* What the peer of e may acknowledge: what it has received, and e's FIN.
AckBound(e) ==
    InitSeqNum[e] + rcv[Peer(e)].NextExpectedByte + (IF FinSent(e) THEN 1 ELSE 0)

AcksReceived ==
    \A e \in Ends :
        /\ \A packet \in PacketsOf(Peer(e)) : packet.AckNum <= AckBound(e)
        /\ snd[e].LargestAck <= AckBound(e)

NumbersInv == NumbersWritten /\ DataNumbered /\ FinsNumbered /\ AcksReceived
------------------------------------------------------------------------------
(* Arithmetic on sequence numbers *)

\* Numbers below the modulus are their own remainders, and a number that
\* passed the end of the sequence space comes back by one subtraction.
LEMMA ModSame ==
    ASSUME NEW m \in Nat \ {0}, NEW x \in 0 .. m - 1
    PROVE  x % m = x /\ (x + m) % m = x /\ (x - m) % m = x
<1>1. x % m = x
  BY SMT
<1>2. (x + m) % m = x
  BY SMT
<1>3. (x - m) % m = x
  BY SMT
<1> QED BY <1>1, <1>2, <1>3

\* A remainder is never more than the number.
LEMMA ModLess ==
    ASSUME NEW m \in Nat \ {0}, NEW x \in Nat
    PROVE  (x % m) <= x
BY SMT

\* A number made from InitSeqNum and read relative to it is the number again.
LEMMA ModBack ==
    ASSUME NEW m \in Nat \ {0}, NEW isn \in 0 .. m - 1, NEW x \in 0 .. m - 1
    PROVE  (((isn + x) % m) - isn) % m = x
<1>1. CASE isn + x < m
  <2>1. (isn + x) % m = isn + x
    BY <1>1, ModSame
  <2>2. (isn + x) - isn = x /\ x % m = x
    BY ModSame
  <2> QED BY <2>1, <2>2
<1>2. CASE isn + x >= m
  <2>1. isn + x - m \in 0 .. m - 1 /\ (isn + x - m) + m = isn + x
    BY <1>2
  <2>2. (isn + x) % m = isn + x - m
    BY <2>1, ModSame
  <2>3. (isn + x - m) - isn = x - m /\ (x - m) % m = x
    BY ModSame
  <2> QED BY <2>2, <2>3
<1> QED BY <1>1, <1>2

\* What HandleVWrite has numbered is a number of the sequence space.
LEMMA SenderNumbers ==
    ASSUME TypeOK, NEW e \in Ends
    PROVE  /\ snd \in [Ends -> SenderType]
           /\ snd[e].NumberBytesSent \in 0 .. SeqSpace - 1
           /\ snd[e].LargestAck \in 0 .. SeqSpace - 1
           /\ rcv \in [Ends -> ReceiverType]
           /\ rcv[e].NextExpectedByte \in 0 .. SeqSpace - 1
           /\ SeqSpace \in Nat \ {0, 1}
           /\ InitSeqNum[e] \in 0 .. SeqSpace - 1
BY SizeAssumption DEF TypeOK, SenderType, ReceiverType, SeqNums

\* HandleVWrite's payload, and how much of it the next segment takes.
LEMMA PayloadSizes ==
    ASSUME TypeOK, NEW e \in Ends
    PROVE  /\ vwrite \in [Ends -> VWriteType]
           /\ vwrite[e].payload \in Seq(Byte) /\ Len(vwrite[e].payload) \in Nat
           /\ WriteBuffer \in [Ends -> Buffer]
           /\ WriteBuffer[e] \in Seq(Byte) /\ Len(WriteBuffer[e]) \in Nat
           /\ SegmentSize(e) \in 0 .. Len(vwrite[e].payload)
           /\ Uncounted(e) \in 0 .. Len(vwrite[e].payload)
<1>1. /\ vwrite \in [Ends -> VWriteType]
      /\ vwrite[e].payload \in Seq(Byte) /\ Len(vwrite[e].payload) \in Nat
  BY DEF TypeOK, VWriteType
<1>2. /\ WriteBuffer \in [Ends -> Buffer]
      /\ WriteBuffer[e] \in Seq(Byte) /\ Len(WriteBuffer[e]) \in Nat
  BY DEF TypeOK, Buffer
<1>3. SegmentSize(e) \in 0 .. Len(vwrite[e].payload)
  BY <1>1, SizeType, SmallerRange DEF SegmentSize
<1> QED BY <1>1, <1>2, <1>3 DEF Uncounted

\* The place of a packet made now.
LEMMA PositionOfSegment ==
    ASSUME TypeOK, NEW e \in Ends, NEW flags, NEW data, NEW extra,
           snd[e].NumberBytesSent + 1 < SeqSpace
    PROVE  Position(e, Segment(e, flags, data, extra)) = snd[e].NumberBytesSent + 1
<1>1. /\ snd[e].NumberBytesSent \in Nat /\ snd[e].NumberBytesSent + 1 \in 0 .. SeqSpace - 1
      /\ InitSeqNum[e] \in 0 .. SeqSpace - 1 /\ SeqSpace \in Nat \ {0}
  BY SenderNumbers
<1>2. (((InitSeqNum[e] + (snd[e].NumberBytesSent + 1)) % SeqSpace) - InitSeqNum[e]) % SeqSpace
        = snd[e].NumberBytesSent + 1
  BY <1>1, ModBack
<1>3. InitSeqNum[e] + (snd[e].NumberBytesSent + 1) = InitSeqNum[e] + 1 + snd[e].NumberBytesSent
  BY <1>1
<1> QED BY <1>2, <1>3 DEF Position, Segment, NextSequenceNumber

------------------------------------------------------------------------------
(* Who moves the numbers of an end *)

\* The bytes end e has in hand, and what VWrite has handed over to it.
SendingState(e) ==
    <<snd[e].NumberBytesSent, vwrite[e].payload, vwrite[e].packet,
      WriteBuffer[e], writer[e].written>>

\* Only HandleVWrite and VWrite change what an end has in hand; a broadcast
\* moves HandleVWrite from "waiting" to "lock".
LEMMA SendingStep ==
    ASSUME TypeOK, Next, NEW e \in Ends
    PROVE  \/ HandleVWrite(e)
           \/ VWrite(e)
           \/ /\ SendingState(e)' = SendingState(e)
              /\ \/ vwrite'[e].pc = vwrite[e].pc
                 \/ vwrite[e].pc = "waiting" /\ vwrite'[e].pc = "lock"
<1> DEFINE kept == /\ SendingState(e)' = SendingState(e)
                   /\ \/ vwrite'[e].pc = vwrite[e].pc
                      \/ vwrite[e].pc = "waiting" /\ vwrite'[e].pc = "lock"
<1>1. /\ snd \in [Ends -> SenderType] /\ vwrite \in [Ends -> VWriteType]
      /\ WriteBuffer \in [Ends -> Buffer] /\ writer \in [Ends -> WriterType]
  BY DEF TypeOK
<1>2. PICK a \in Ends :
        \/ HandleVWrite(a) \/ HandleRT(a) \/ HandleTCPPacket(a)
        \/ Application(a) \/ TimeWait(a) \/ Discard(a) \/ Lose(a)
  BY DEF Next
<1>all. ASSUME snd'[e].NumberBytesSent = snd[e].NumberBytesSent, vwrite'[e] = vwrite[e],
               WriteBuffer'[e] = WriteBuffer[e], writer'[e].written = writer[e].written
        PROVE  kept
  BY <1>all DEF SendingState
<1>3. CASE HandleVWrite(a) /\ a # e
  <2>1. snd'[e] = snd[e] /\ WriteBuffer'[e] = WriteBuffer[e] /\ writer'[e] = writer[e]
    BY <1>1, <1>3
    DEF HandleVWrite, FindNothingToWrite, SleepHandleVWrite, FindDataToWrite,
        TakePayload, SendSegment, FailSegment, AdvanceSequence, EnterZWP, ArmZWP,
        SendProbe, StopProbing, LeaveZWP, SendFin, FailFin, CountFin, QueueFin,
        WokenWriter
  <2>2. vwrite'[e] = vwrite[e]
    BY <1>3, OtherEndHolds
  <2> QED BY <1>all, <2>1, <2>2
<1>4. CASE HandleRT(a) \/ VRead(a) \/ TimeWait(a) \/ Discard(a) \/ Lose(a)
  BY <1>4, <1>all, HandleRTFrame, VReadFrame, NetworkFrame
<1>5. CASE HandleTCPPacket(a)
  <2>0. snd'[e].NumberBytesSent = snd[e].NumberBytesSent => kept
    BY <1>5, <1>all, HandleTCPPacketFrame
  <2>1. CASE \E i \in 1 .. MaxReorder + 1 : ReceiveNewAck(a, i)
    BY <1>1, <2>0, <2>1 DEF ReceiveNewAck, SenderType
  <2>2. CASE UpdateWindow(a)
    BY <1>1, <2>0, <2>2 DEF UpdateWindow, SenderType
  <2>3. CASE snd' = snd
    BY <2>0, <2>3
  <2> HIDE DEF kept
  <2> QED
    BY <1>5, <2>1, <2>2, <2>3
    DEF HandleTCPPacket, ReceiveOtherAck, ReceiveNextFin,
        ReceiveOtherFin, CompareAckAgain, PurgeSegment, PurgeLastFin,
        FinishPurge, CheckProbe, IgnoreEmptyText, ReceiveNextText,
        ReceiveOtherText, TakeEarlyArrival, LeaveEarlyArrivals, SendAck
<1>6. CASE CallVWrite(a)
  <2>1. writer'[e].written = writer[e].written
    BY <1>1, <1>6 DEF CallVWrite, WriterType
  <2> QED BY <1>6, <1>all, <2>1 DEF CallVWrite
<1>7. CASE VWrite(a) /\ a # e
  <2>1. vwrite'[e] = vwrite[e]
    BY <1>7, OtherEndHolds DEF Application
  <2>2. WriteBuffer'[e] = WriteBuffer[e] /\ writer'[e] = writer[e] /\ snd' = snd
    BY <1>1, <1>7 DEF VWrite
  <2> QED BY <1>all, <2>1, <2>2
<1>8. CASE VClose(a)
  <2>1. snd' = snd /\ WriteBuffer' = WriteBuffer /\ writer' = writer
    BY <1>8, VCloseFrame
  <2>2. CASE vwrite' = vwrite
    BY <1>all, <2>1, <2>2
  <2>3. CASE vwrite' = WokenVWrite(a)
    <3>1. /\ vwrite'[e].payload = vwrite[e].payload /\ vwrite'[e].packet = vwrite[e].packet
          /\ \/ vwrite'[e].pc = vwrite[e].pc
             \/ vwrite[e].pc = "waiting" /\ vwrite'[e].pc = "lock"
      BY <1>1, <2>3 DEF WokenVWrite, VWriteType
    <3> QED BY <2>1, <3>1 DEF SendingState
  <2> QED
    BY <1>8, <2>2, <2>3
    DEF VClose, CallVClose, AssignFinWait1, WakeHandleVWrite, AssignLastAck
<1> QED BY <1>2, <1>3, <1>4, <1>5, <1>6, <1>7, <1>8 DEF Application

\* What VWrite hands over, of its end.
LEMMA VWriteHandsOver ==
    ASSUME TypeOK, WrittenInRange, NEW e \in Ends, VWrite(e)
    PROVE  \E size \in Nat :
             /\ WriteBuffer'[e] = WriteBuffer[e] \o [i \in 1 .. size |-> writer[e].written + i]
             /\ Len(WriteBuffer'[e]) = Len(WriteBuffer[e]) + size
             /\ writer[e].written \in Nat
             /\ writer'[e].written = writer[e].written + size
             /\ snd' = snd
             /\ vwrite'[e].payload = vwrite[e].payload
             /\ vwrite'[e].packet = vwrite[e].packet
             /\ \/ vwrite'[e].pc = vwrite[e].pc
                \/ vwrite[e].pc = "waiting" /\ vwrite'[e].pc = "lock"
<1> DEFINE left == EndOfCall(e) - writer[e].written
           size == Smaller(left, WriteBufferFree(e))
           new == [i \in 1 .. size |-> writer[e].written + i]
<1>1. /\ writer \in [Ends -> WriterType] /\ writer[e].written \in Nat
      /\ WriteBuffer \in [Ends -> Buffer] /\ WriteBuffer[e] \in Seq(Byte)
      /\ vwrite \in [Ends -> VWriteType]
  BY DEF TypeOK, WriterType, Buffer
<1>2. size \in Nat
  BY VWriteSize
<1>3. /\ WriteBuffer' = [WriteBuffer EXCEPT ![e] = @ \o new]
      /\ writer'[e].written = writer[e].written + size
      /\ snd' = snd /\ vwrite' \in {vwrite, WokenVWrite(e)}
  BY <1>1 DEF VWrite
<1>4. /\ vwrite'[e].payload = vwrite[e].payload /\ vwrite'[e].packet = vwrite[e].packet
      /\ \/ vwrite'[e].pc = vwrite[e].pc
         \/ vwrite[e].pc = "waiting" /\ vwrite'[e].pc = "lock"
  BY <1>1, <1>3 DEF WokenVWrite, VWriteType
<1> HIDE DEF size
<1>5. new \in Seq(Byte) /\ Len(new) = size
  BY <1>1, <1>2 DEF Byte
<1>6. WriteBuffer'[e] = WriteBuffer[e] \o new
  BY <1>1, <1>3
<1>7. Len(WriteBuffer'[e]) = Len(WriteBuffer[e]) + size
  <2> HIDE DEF new
  <2>1. Len(WriteBuffer[e] \o new) = Len(WriteBuffer[e]) + Len(new)
    BY <1>1, <1>5, ConcatProperties
  <2> QED BY <1>5, <1>6, <2>1
<1> QED BY <1>1, <1>2, <1>3, <1>4, <1>6, <1>7

------------------------------------------------------------------------------
(* NumbersWritten *)

\* The numbers that InHand adds up.
LEMMA InHandType ==
    ASSUME TypeOK, NEW e \in Ends
    PROVE  /\ snd[e].NumberBytesSent \in Nat /\ Unsent(e) \in Nat /\ Buffered(e) \in Nat
           /\ SegmentSize(e) \in 0 .. Unsent(e) /\ Uncounted(e) \in 0 .. Unsent(e)
           /\ writer[e].written \in Nat /\ InHand(e) \in Nat /\ Handed(e) \in Nat
<1>1. /\ Unsent(e) \in Nat /\ Buffered(e) \in Nat
      /\ SegmentSize(e) \in 0 .. Unsent(e) /\ Uncounted(e) \in 0 .. Unsent(e)
  BY PayloadSizes DEF Unsent, Buffered
<1>2. snd[e].NumberBytesSent \in Nat
  BY SenderNumbers
<1>3. writer[e].written \in Nat
  BY DEF TypeOK, WriterType
<1> QED BY <1>1, <1>2, <1>3 DEF InHand, Handed

\* With a stream that is short enough no number passes the end of the
\* sequence space, and each step of HandleVWrite counts what it sends.
LEMMA NumbersMove ==
    ASSUME IInv, ShortStreams, NumbersWritten, NEW e \in Ends
    PROVE  /\ InHand(e) <= Handed(e)
           /\ vwrite[e].pc \notin {"finQueue", "done"} =>
                /\ snd[e].NumberBytesSent + 1 < SeqSpace
                /\ snd[e].NumberBytesSent + Unsent(e) + Buffered(e) <= writer[e].written
           /\ AdvanceSequence(e) =>
                snd'[e].NumberBytesSent = snd[e].NumberBytesSent + SegmentSize(e)
           /\ ArmZWP(e) => snd'[e].NumberBytesSent = snd[e].NumberBytesSent + 1
           /\ CountFin(e) => snd'[e].NumberBytesSent = snd[e].NumberBytesSent + 1
<1> DEFINE number == snd[e].NumberBytesSent
<1>1. /\ snd \in [Ends -> SenderType] /\ number \in Nat /\ SeqSpace \in Nat \ {0}
  BY SenderNumbers DEF IInv
<1>2. /\ number \in Nat /\ Unsent(e) \in Nat /\ Buffered(e) \in Nat
      /\ SegmentSize(e) \in 0 .. Unsent(e) /\ writer[e].written \in Nat
  BY InHandType DEF IInv
<1>3. /\ ToWrite[e] \in Nat /\ ToWrite[e] + 1 < SeqSpace
      /\ writer[e].written <= ToWrite[e]
  BY WorkloadAssumption DEF IInv, WrittenInRange, ShortStreams
<1>4. InHand(e) <= Handed(e)
  BY DEF NumbersWritten
<1>5. ASSUME vwrite[e].pc \notin {"finQueue", "done"}
      PROVE  number + Unsent(e) + Buffered(e) <= writer[e].written /\ number + 1 < SeqSpace
  <2>1. number + Unsent(e) + Buffered(e) <= writer[e].written
    BY <1>2, <1>4, <1>5 DEF InHand, Handed
  <2> QED BY <1>1, <1>2, <1>3, <2>1
<1>6. ASSUME AdvanceSequence(e)
      PROVE  snd'[e].NumberBytesSent = number + SegmentSize(e)
  <2>1. number + Unsent(e) + Buffered(e) <= writer[e].written
    BY <1>5, <1>6 DEF AdvanceSequence
  <2>2. number + SegmentSize(e) \in 0 .. SeqSpace - 1
    BY <1>1, <1>2, <1>3, <2>1
  <2>3. (number + SegmentSize(e)) % SeqSpace = number + SegmentSize(e)
    BY <1>1, <2>2, ModSame
  <2> QED BY <1>1, <1>6, <2>3 DEF AdvanceSequence, SenderType
<1>7. ASSUME vwrite[e].pc \notin {"finQueue", "done"}
      PROVE  (number + 1) % SeqSpace = number + 1
  <2>1. number + 1 \in 0 .. SeqSpace - 1
    BY <1>1, <1>2, <1>5, <1>7
  <2> QED BY <1>1, <2>1, ModSame
<1>8. ArmZWP(e) => snd'[e].NumberBytesSent = number + 1
  BY <1>1, <1>7 DEF ArmZWP, SenderType
<1>9. CountFin(e) => snd'[e].NumberBytesSent = number + 1
  BY <1>1, <1>7 DEF CountFin, SenderType
<1> QED BY <1>4, <1>5, <1>6, <1>8, <1>9

\* Bytes are numbered after they were written.
LEMMA NumbersWrittenStep ==
    ASSUME IInv, ShortStreams, NumbersWritten, Next
    PROVE  NumbersWritten'
<1> SUFFICES ASSUME NEW e \in Ends
             PROVE  InHand(e)' <= Handed(e)'
  BY DEF NumbersWritten
<1> DEFINE number == snd[e].NumberBytesSent
<1>1. /\ snd \in [Ends -> SenderType]
      /\ vwrite \in [Ends -> VWriteType]
      /\ vwrite[e].payload \in Seq(Byte)
      /\ WriteBuffer \in [Ends -> Buffer] /\ WriteBuffer[e] \in Seq(Byte)
      /\ writer \in [Ends -> WriterType]
  BY SenderNumbers, PayloadSizes DEF IInv, TypeOK
<1>2. /\ number \in Nat /\ Unsent(e) \in Nat /\ Buffered(e) \in Nat
      /\ SegmentSize(e) \in 0 .. Unsent(e) /\ writer[e].written \in Nat
      /\ InHand(e) = number + Unsent(e) + Buffered(e)
      /\ InHand(e)' = number' + Unsent(e)' + Buffered(e)'
  BY InHandType DEF IInv, InHand
<1>3. InHand(e) <= Handed(e) /\ InHand(e) \in Nat /\ Handed(e) \in Nat
  BY NumbersMove, InHandType DEF IInv
<1>same. ASSUME number' = number, Unsent(e)' = Unsent(e), Buffered(e)' = Buffered(e),
                writer'[e].written = writer[e].written,
                (vwrite[e].pc \in {"finQueue", "done"}) => (vwrite'[e].pc \in {"finQueue", "done"})
         PROVE  InHand(e)' <= Handed(e)'
  <2>1. Handed(e) <= Handed(e)' /\ Handed(e)' \in Nat
    BY <1>2, <1>same DEF Handed
  <2> QED BY <1>2, <1>3, <1>same, <2>1
<1>4. CASE VWrite(e)
  <2>1. PICK size \in Nat :
          /\ Len(WriteBuffer'[e]) = Len(WriteBuffer[e]) + size
          /\ writer'[e].written = writer[e].written + size
          /\ snd' = snd /\ vwrite'[e].payload = vwrite[e].payload
          /\ \/ vwrite'[e].pc = vwrite[e].pc
             \/ vwrite[e].pc = "waiting" /\ vwrite'[e].pc = "lock"
    BY <1>4, VWriteHandsOver DEF IInv
  <2>2. number' = number /\ Unsent(e)' = Unsent(e) /\ Buffered(e)' = Buffered(e) + size
    BY <2>1 DEF Unsent, Buffered
  <2>3. Handed(e)' = Handed(e) + size
    BY <1>2, <2>1 DEF Handed
  <2> QED BY <1>2, <1>3, <2>2, <2>3
<1>5. CASE HandleVWrite(e)
  <2>1. writer'[e].written = writer[e].written
    BY <1>1, <1>5
    DEF HandleVWrite, FindNothingToWrite, SleepHandleVWrite, FindDataToWrite,
        TakePayload, SendSegment, FailSegment, AdvanceSequence, EnterZWP, ArmZWP,
        SendProbe, StopProbing, LeaveZWP, SendFin, FailFin, CountFin, QueueFin,
        WokenWriter, WriterType
  <2>less. ASSUME InHand(e)' <= InHand(e),
                  vwrite[e].pc \notin {"finQueue", "done"},
                  vwrite'[e].pc \notin {"finQueue", "done"}
           PROVE  InHand(e)' <= Handed(e)'
    <3>1. Handed(e)' = Handed(e)
      BY <2>1, <2>less DEF Handed
    <3>2. InHand(e)' \in Nat
      <4>1. TypeOK'
        BY HandleVWriteType, <1>5 DEF IInv
      <4>2. (InHand(e) \in Nat)'
        BY <4>1, InHandType, PTL
      <4> QED BY <4>2
    <3> QED BY <1>3, <2>less, <3>1, <3>2
  <2>2. CASE TakePayload(e)
    <3> DEFINE size == Smaller(snd[e].RemoteWindowSize, Len(WriteBuffer[e]))
    <3>1. size \in 0 .. Len(WriteBuffer[e])
      <4>1. snd[e].RemoteWindowSize \in Nat
        BY <1>1, SizeAssumption DEF SenderType, Windows
      <4>2. Len(WriteBuffer[e]) \in Nat
        BY <1>1
      <4> QED BY <4>1, <4>2, SmallerRange
    <3>2. /\ vwrite'[e].payload = First(WriteBuffer[e], size)
          /\ WriteBuffer'[e] = After(WriteBuffer[e], size)
          /\ vwrite'[e].pc \notin {"finQueue", "done"}
          /\ vwrite[e].pc \notin {"finQueue", "done"} /\ snd' = snd
      BY <1>1, <2>2 DEF TakePayload, VWriteType
    <3> HIDE DEF size
    <3>3. /\ Len(First(WriteBuffer[e], size)) = size
          /\ Len(After(WriteBuffer[e], size)) = Len(WriteBuffer[e]) - size
      BY <1>1, <3>1, FirstType, AfterType
    <3>4. size \in Nat /\ Unsent(e)' = size /\ Buffered(e)' = Buffered(e) - size /\ number' = number
      BY <1>1, <3>1, <3>2, <3>3 DEF Unsent, Buffered
    <3>5. InHand(e)' <= InHand(e)
      BY <1>2, <3>4
    <3> QED BY <2>less, <3>2, <3>5
  <2>3. CASE AdvanceSequence(e)
    <3>1. /\ vwrite'[e].payload = After(vwrite[e].payload, SegmentSize(e))
          /\ WriteBuffer' = WriteBuffer
          /\ vwrite'[e].pc \notin {"finQueue", "done"}
          /\ vwrite[e].pc \notin {"finQueue", "done"}
      BY <1>1, <2>3 DEF AdvanceSequence, VWriteType
    <3>2. number' = number + SegmentSize(e)
      BY <2>3, NumbersMove
    <3>3. Len(After(vwrite[e].payload, SegmentSize(e))) = Len(vwrite[e].payload) - SegmentSize(e)
      BY <1>1, <1>2, AfterType DEF Unsent
    <3>4. Unsent(e)' = Unsent(e) - SegmentSize(e) /\ Buffered(e)' = Buffered(e)
      BY <3>1, <3>3 DEF Unsent, Buffered
    <3>5. InHand(e)' <= InHand(e)
      BY <1>2, <3>2, <3>4
    <3> QED BY <2>less, <3>1, <3>5
  <2>4. CASE EnterZWP(e)
    <3>1. /\ number' = number
          /\ vwrite'[e].payload = First(WriteBuffer[e], 1)
          /\ WriteBuffer'[e] = After(WriteBuffer[e], 1)
          /\ vwrite'[e].pc \notin {"finQueue", "done"}
          /\ vwrite[e].pc \notin {"finQueue", "done"}
          /\ WriteBuffer[e] # <<>>
      BY <1>1, <2>4 DEF EnterZWP, VWriteType, SenderType, IInv, HandleVWriteHolds
    <3>2. /\ Len(First(WriteBuffer[e], 1)) = 1
          /\ Len(After(WriteBuffer[e], 1)) = Len(WriteBuffer[e]) - 1
      <4>1. 1 \in 0 .. Len(WriteBuffer[e])
        BY <1>1, <3>1
      <4> QED BY <1>1, <4>1, FirstType, AfterType
    <3>3. Unsent(e)' = 1 /\ Buffered(e)' = Buffered(e) - 1
      BY <3>1, <3>2 DEF Unsent, Buffered
    <3>4. InHand(e)' <= InHand(e)
      BY <1>2, <3>1, <3>3
    <3> QED BY <2>less, <3>1, <3>4
  <2>5. CASE ArmZWP(e)
    <3>0. number' = number + 1
      BY <2>5, NumbersMove
    <3>1. /\ vwrite'[e].payload = <<>> /\ Len(vwrite[e].payload) = 1
          /\ WriteBuffer' = WriteBuffer
          /\ vwrite'[e].pc \notin {"finQueue", "done"}
          /\ vwrite[e].pc \notin {"finQueue", "done"}
      BY <1>1, <2>5 DEF ArmZWP, VWriteType, IInv, HandleVWriteHolds
    <3>2. Unsent(e)' = 0 /\ Unsent(e) = 1 /\ Buffered(e)' = Buffered(e)
      BY <3>1 DEF Unsent, Buffered
    <3>3. InHand(e)' <= InHand(e)
      BY <1>2, <3>0, <3>2
    <3> QED BY <2>less, <3>1, <3>3
  <2>6. CASE CountFin(e)
    <3>1. /\ number' = number + 1
          /\ vwrite'[e].payload = vwrite[e].payload
          /\ WriteBuffer' = WriteBuffer
          /\ vwrite'[e].pc = "finQueue"
          /\ vwrite[e].pc \notin {"finQueue", "done"}
      BY <1>1, <2>6, NumbersMove DEF CountFin, VWriteType
    <3>2. Unsent(e)' = Unsent(e) /\ Buffered(e)' = Buffered(e)
      BY <3>1 DEF Unsent, Buffered
    <3>3. Handed(e)' = Handed(e) + 1
      BY <1>2, <2>1, <3>1 DEF Handed
    <3> QED BY <1>2, <1>3, <3>1, <3>2, <3>3
  <2>7. CASE FailSegment(e)
    <3>1. /\ number' = number /\ vwrite'[e].payload = <<>> /\ WriteBuffer' = WriteBuffer
          /\ vwrite[e].pc \notin {"finQueue", "done"}
          /\ vwrite'[e].pc \notin {"finQueue", "done"}
      BY <1>1, <2>7 DEF FailSegment, VWriteType
    <3>2. Unsent(e)' = 0 /\ Buffered(e)' = Buffered(e)
      BY <3>1 DEF Unsent, Buffered
    <3>3. InHand(e)' <= InHand(e)
      BY <1>2, <3>1, <3>2
    <3> QED BY <2>less, <3>1, <3>3
  <2>8. CASE FindNothingToWrite(e) \/ SleepHandleVWrite(e) \/ FindDataToWrite(e)
             \/ SendSegment(e) \/ SendProbe(e) \/ StopProbing(e) \/ LeaveZWP(e)
             \/ SendFin(e) \/ FailFin(e) \/ QueueFin(e)
    <3>1. /\ number' = number
          /\ vwrite'[e].payload = vwrite[e].payload
          /\ WriteBuffer' = WriteBuffer
          /\ (vwrite[e].pc \in {"finQueue", "done"}) =>
               (vwrite'[e].pc \in {"finQueue", "done"})
      BY <1>1, <2>8
      DEF FindNothingToWrite, SleepHandleVWrite, FindDataToWrite,
          SendSegment, SendProbe, StopProbing, LeaveZWP, SendFin, FailFin, QueueFin,
          VWriteType, SenderType
    <3> QED BY <1>same, <2>1, <3>1 DEF Unsent, Buffered
  <2> QED
    BY <1>5, <2>2, <2>3, <2>4, <2>5, <2>6, <2>7, <2>8 DEF HandleVWrite
<1>6. CASE /\ SendingState(e)' = SendingState(e)
           /\ \/ vwrite'[e].pc = vwrite[e].pc
              \/ vwrite[e].pc = "waiting" /\ vwrite'[e].pc = "lock"
  BY <1>6, <1>same DEF SendingState, Unsent, Buffered
<1> QED BY <1>4, <1>5, <1>6, SendingStep DEF IInv

------------------------------------------------------------------------------
(* What a receiver takes *)

\* What end p has received, and what its application has got of it.
ReceivingState(p) ==
    <<rcv[p].NextExpectedByte, rcv[p].ReadBuffer, reader[p].delivered>>

\* WriteSegment(p, data), of a packet of end e that is next.
Takes(e, packet) ==
    LET p == Peer(e) IN
    /\ packet \in PacketsOf(e) /\ packet \in Packet
    /\ Position(e, packet) = rcv[p].NextExpectedByte
    /\ rcv'[p].NextExpectedByte = WriteSegment(p, packet.Data).NextExpectedByte
    /\ rcv'[p].ReadBuffer = WriteSegment(p, packet.Data).ReadBuffer
    /\ reader'[p].delivered = reader[p].delivered

\* A broadcast leaves what VRead has returned alone.
LEMMA WokenReaderDelivers ==
    ASSUME TypeOK, NEW p \in Ends, NEW q \in Ends,
           reader' \in {reader, WokenReader(p), ReaderAfterFin(p)}
    PROVE  reader'[q].delivered = reader[q].delivered
<1>1. reader \in [Ends -> ReaderType]
  BY DEF TypeOK
<1>2. CASE reader' = reader
  BY <1>2
<1>3. CASE reader' = [reader EXCEPT ![p].pc = "lock"]
  BY <1>1, <1>3 DEF ReaderType
<1> QED BY <1>2, <1>3 DEF WokenReader, ReaderAfterFin

\* HandleTCPPacket takes a packet that is next, or leaves the stream alone.
LEMMA HandleTCPPacketReceives ==
    ASSUME TypeOK, NEW e \in Ends, HandleTCPPacket(Peer(e))
    PROVE  \/ ReceivingState(Peer(e))' = ReceivingState(Peer(e))
           \/ \E packet \in PacketsOf(e) : Takes(e, packet)
<1> DEFINE p == Peer(e)
<1>1. p \in Ends /\ Peer(p) = e
  BY PeerOfPeer
<1>2. /\ rcv \in [Ends -> ReceiverType] /\ handler \in [Ends -> HandlerType]
      /\ handler[p].packet \in Packet /\ rcv[p].EarlyArrivalQueue \in Seq(Packet)
      /\ reader \in [Ends -> ReaderType]
  BY <1>1 DEF TypeOK, HandlerType, ReceiverType
<1>same. ASSUME rcv'[p].NextExpectedByte = rcv[p].NextExpectedByte,
                rcv'[p].ReadBuffer = rcv[p].ReadBuffer,
                reader' \in {reader, WokenReader(p), ReaderAfterFin(p)}
         PROVE  ReceivingState(p)' = ReceivingState(p)
  <2>1. reader'[p].delivered = reader[p].delivered
    BY <1>1, <1>same, WokenReaderDelivers
  <2> QED BY <1>same, <2>1 DEF ReceivingState, Peer
<1>3. CASE ReceiveNextText(p)
  <2> DEFINE packet == handler[p].packet
  <2>1. packet \in PacketsOf(e) /\ Position(e, packet) = rcv[p].NextExpectedByte
    BY <1>1, <1>3 DEF ReceiveNextText, PacketsOf, Incoming, InOrder, Relative, Position
  <2>2. CASE rcv' = rcv
    BY <1>1, <1>3, <1>same, <2>2 DEF ReceiveNextText
  <2>3. CASE rcv' = [rcv EXCEPT ![p] = WriteSegment(p, packet.Data)]
    <3>1. rcv'[p] = WriteSegment(p, packet.Data)
      BY <1>1, <1>2, <2>3
    <3>2. reader' \in {reader, WokenReader(p)}
      BY <1>1, <1>3 DEF ReceiveNextText
    <3>3. reader'[p].delivered = reader[p].delivered
      BY <1>1, <3>2, WokenReaderDelivers
    <3>4. Takes(e, packet)
      BY <1>2, <2>1, <3>1, <3>3 DEF Takes
    <3> QED BY <2>1, <3>4
  <2> QED BY <1>3, <2>2, <2>3 DEF ReceiveNextText
<1>4. CASE TakeEarlyArrival(p)
  <2> DEFINE queue == rcv[p].EarlyArrivalQueue
  <2>1. PICK i \in DOMAIN queue :
          /\ InOrder(p, queue[i])
          /\ reader' = CASE queue[i].Flags = "FIN" -> ReaderAfterFin(p)
                         [] ~(queue[i].Flags = "FIN")
                            /\ Len(queue[i].Data) <= ReadBufferFree(p) -> WokenReader(p)
                         [] OTHER -> reader
          /\ rcv' = [rcv EXCEPT
               ![p] = [(IF queue[i].Flags = "FIN" THEN @ ELSE WriteSegment(p, queue[i].Data))
                       EXCEPT !.EarlyArrivalQueue = RemoveAt(queue, i)]]
    BY <1>4 DEF TakeEarlyArrival
  <2> DEFINE packet == queue[i]
  <2>2. packet \in Range(queue) /\ packet \in Packet
    BY <1>2 DEF Range
  <2>3. packet \in PacketsOf(e) /\ Position(e, packet) = rcv[p].NextExpectedByte
    BY <1>1, <2>1, <2>2 DEF PacketsOf, Incoming, InOrder, Relative, Position
  <2> HIDE DEF packet
  <2>4. reader' \in {reader, WokenReader(p), ReaderAfterFin(p)}
    BY <2>1
  <2>5. CASE packet.Flags = "FIN"
    <3>1. /\ rcv'[p].NextExpectedByte = rcv[p].NextExpectedByte
          /\ rcv'[p].ReadBuffer = rcv[p].ReadBuffer
      BY <1>1, <1>2, <2>1, <2>5 DEF ReceiverType, packet
    <3> QED BY <1>same, <2>4, <3>1
  <2>6. CASE packet.Flags # "FIN"
    <3>1. rcv'[p] = [WriteSegment(p, packet.Data)
                       EXCEPT !.EarlyArrivalQueue = RemoveAt(queue, i)]
      BY <1>1, <1>2, <2>1, <2>6 DEF packet
    <3>2. /\ rcv'[p].NextExpectedByte = WriteSegment(p, packet.Data).NextExpectedByte
          /\ rcv'[p].ReadBuffer = WriteSegment(p, packet.Data).ReadBuffer
      <4>1. WriteSegment(p, packet.Data) \in ReceiverType
        <5>1. packet.Data \in Text
          BY <2>2 DEF Packet, packet
        <5> QED BY <1>1, <5>1, WriteSegmentType
      <4> QED BY <3>1, <4>1 DEF ReceiverType
    <3>3. reader'[p].delivered = reader[p].delivered
      BY <1>1, <2>4, WokenReaderDelivers
    <3>4. Takes(e, packet)
      BY <2>2, <2>3, <3>2, <3>3 DEF Takes, packet
    <3> QED BY <2>3, <3>4
  <2> QED BY <2>5, <2>6
<1>5. CASE ReceiveOtherText(p) \/ \E i \in 1 .. MaxReorder + 1 : ReceiveOtherFin(p, i)
  <2>1. /\ rcv'[p].NextExpectedByte = rcv[p].NextExpectedByte
        /\ rcv'[p].ReadBuffer = rcv[p].ReadBuffer
        /\ reader' = reader
    BY <1>1, <1>2, <1>5 DEF ReceiveOtherText, ReceiveOtherFin, ReceiverType
  <2> QED BY <1>same, <2>1
<1>6. CASE \/ \E i \in 1 .. MaxReorder + 1 :
                ReceiveNewAck(p, i) \/ ReceiveOtherAck(p, i) \/ ReceiveNextFin(p, i)
           \/ CompareAckAgain(p) \/ PurgeSegment(p) \/ PurgeLastFin(p) \/ FinishPurge(p)
           \/ UpdateWindow(p) \/ CheckProbe(p) \/ IgnoreEmptyText(p)
           \/ LeaveEarlyArrivals(p) \/ SendAck(p)
  <2>1. rcv' = rcv /\ reader' \in {reader, ReaderAfterFin(p)}
    BY <1>6
    DEF ReceiveNewAck, ReceiveOtherAck, ReceiveNextFin, CompareAckAgain,
        PurgeSegment, PurgeLastFin, FinishPurge, UpdateWindow, CheckProbe,
        IgnoreEmptyText, LeaveEarlyArrivals, SendAck
  <2> QED BY <1>same, <2>1
<1> QED BY <1>3, <1>4, <1>5, <1>6 DEF HandleTCPPacket

\* What an end receives changes by HandleTCPPacket and by VRead only.
LEMMA ReceivingStep ==
    ASSUME TypeOK, Next, NEW e \in Ends
    PROVE  \/ ReceivingState(Peer(e))' = ReceivingState(Peer(e))
           \/ \E packet \in PacketsOf(e) : Takes(e, packet)
           \/ ReturnData(Peer(e))
<1> DEFINE p == Peer(e)
           goal == \/ ReceivingState(p)' = ReceivingState(p)
                   \/ \E packet \in PacketsOf(e) : Takes(e, packet)
                   \/ ReturnData(p)
<1>1. p \in Ends
  BY PeerOfPeer
<1>2. reader \in [Ends -> ReaderType] /\ rcv \in [Ends -> ReceiverType]
  BY DEF TypeOK
<1>same. ASSUME rcv'[p] = rcv[p], reader'[p].delivered = reader[p].delivered
         PROVE  goal
  BY <1>same DEF ReceivingState, Peer
<1> SUFFICES goal
  OBVIOUS
<1> HIDE DEF goal
<1>3. PICK a \in Ends :
        \/ HandleVWrite(a) \/ HandleRT(a) \/ HandleTCPPacket(a)
        \/ Application(a) \/ TimeWait(a) \/ Discard(a) \/ Lose(a)
  BY DEF Next
<1>4. CASE HandleTCPPacket(a)
  <2>1. CASE a = p
    BY <1>4, <2>1, HandleTCPPacketReceives DEF goal
  <2>2. CASE a # p
    <3>1. rcv'[p] = rcv[p]
      BY <1>1, <1>4, <2>2, OtherEndHolds
    <3>2. reader'[p] = reader[p]
      BY <1>1, <1>2, <1>4, <2>2
      DEF HandleTCPPacket, ReceiveNewAck, ReceiveOtherAck, ReceiveNextFin,
          ReceiveOtherFin, CompareAckAgain, PurgeSegment, PurgeLastFin,
          FinishPurge, UpdateWindow, CheckProbe, IgnoreEmptyText, ReceiveNextText,
          ReceiveOtherText, TakeEarlyArrival, LeaveEarlyArrivals, SendAck,
          WokenReader, ReaderAfterFin
    <3> QED BY <1>same, <3>1, <3>2
  <2> QED BY <2>1, <2>2
<1>5. CASE VRead(a)
  <2>1. CASE ReturnData(a) /\ a = p
    BY <2>1 DEF goal
  <2>2. CASE ReturnData(a) /\ a # p
    <3>1. rcv'[p] = rcv[p] /\ reader'[p] = reader[p]
      BY <1>1, <1>2, <2>2 DEF ReturnData
    <3> QED BY <1>same, <3>1
  <2>3. CASE CallVRead(a) \/ FindNothingToRead(a) \/ SleepVRead(a)
    <3>1. rcv' = rcv
      BY <2>3 DEF CallVRead, FindNothingToRead, SleepVRead
    <3>2. reader'[p].delivered = reader[p].delivered
      <4>1. PICK pc : reader' = [reader EXCEPT ![a].pc = pc]
        BY <2>3 DEF CallVRead, FindNothingToRead, SleepVRead
      <4> QED BY <1>1, <1>2, <4>1 DEF ReaderType
    <3> QED BY <1>same, <3>1, <3>2
  <2> QED BY <1>5, <2>1, <2>2, <2>3 DEF VRead
<1>6. CASE HandleVWrite(a) \/ HandleRT(a) \/ CallVWrite(a) \/ VWrite(a) \/ VClose(a)
           \/ TimeWait(a) \/ Discard(a) \/ Lose(a)
  <2>1. rcv' = rcv /\ reader' = reader
    BY <1>6, HandleVWriteFrame, HandleRTFrame, CallVWriteFrame, VCloseFrame, NetworkFrame
  <2> QED BY <1>same, <2>1
<1> QED BY <1>3, <1>4, <1>5, <1>6 DEF Application

------------------------------------------------------------------------------
(* DataNumbered *)

\* Every packet about is one, and its place a number of the sequence space.
LEMMA PacketsAre ==
    ASSUME TypeOK, NEW e \in Ends, NEW packet \in PacketsOf(e)
    PROVE  /\ packet \in Packet
           /\ packet.Data \in Seq(Byte) /\ Len(packet.Data) \in Nat
           /\ Position(e, packet) \in 0 .. SeqSpace - 1
<1>1. packet \in Packet
  <2>1. /\ vwrite[e].packet \in Packet /\ rtq[e].RTQueue \in Seq(Packet)
        /\ net[Peer(e)] \in Seq(Packet) /\ handler[Peer(e)].packet \in Packet
        /\ rcv[Peer(e)].EarlyArrivalQueue \in Seq(Packet)
    BY PeerType DEF TypeOK, VWriteType, RTQueueType, HandlerType, ReceiverType
  <2> QED BY <2>1 DEF PacketsOf, Outgoing, Incoming, Range
<1>2. packet.Data \in Seq(Byte) /\ Len(packet.Data) \in Nat
  BY <1>1 DEF Packet, Text
<1>3. packet.SeqNum - InitSeqNum[e] \in Int
  BY <1>1, SizeAssumption DEF Packet, SeqNums
<1>4. Position(e, packet) \in SeqNums
  BY <1>3, SeqNumRange DEF Position
<1> QED BY <1>1, <1>2, <1>4 DEF SeqNums

\* The data of a packet made now begins behind all that was numbered.
LEMMA DataMade ==
    ASSUME IInv, ShortStreams, NumbersWritten, NEW e \in Ends,
           NEW packet, Makes(e, packet), packet.Data # <<>>
    PROVE  /\ Position(e, packet) = snd[e].NumberBytesSent + 1
           /\ \/ /\ SendSegment(e)
                 /\ packet.Data = First(vwrite[e].payload, SegmentSize(e))
                 /\ Len(packet.Data) = SegmentSize(e)
              \/ /\ ArmZWP(e)
                 /\ packet.Data = vwrite[e].payload /\ Len(packet.Data) = 1
<1>1. /\ vwrite[e].payload \in Seq(Byte)
      /\ SegmentSize(e) \in 0 .. Len(vwrite[e].payload)
  BY PayloadSizes DEF IInv
<1>2. Len(First(vwrite[e].payload, SegmentSize(e))) = SegmentSize(e)
  BY <1>1, FirstType
<1>3. CASE SendSegment(e) /\ packet = Segment(e, "ACK", First(vwrite[e].payload, SegmentSize(e)), 0)
  <2>1. snd[e].NumberBytesSent + 1 < SeqSpace
    BY <1>3, NumbersMove DEF SendSegment
  <2>2. Position(e, packet) = snd[e].NumberBytesSent + 1
    BY <1>3, <2>1, PositionOfSegment DEF IInv
  <2> QED BY <1>2, <1>3, <2>2 DEF Segment
<1>4. CASE ArmZWP(e) /\ packet = Segment(e, "ACK", vwrite[e].payload, 0)
  <2>1. snd[e].NumberBytesSent + 1 < SeqSpace
    BY <1>4, NumbersMove DEF ArmZWP
  <2>2. Position(e, packet) = snd[e].NumberBytesSent + 1
    BY <1>4, <2>1, PositionOfSegment DEF IInv
  <2> QED BY <1>4, <2>2 DEF Segment, ArmZWP, IInv, HandleVWriteHolds
<1>5. CASE \E flags, extra : packet = Segment(e, flags, <<>>, extra)
  BY <1>5 DEF Segment
<1> QED BY <1>3, <1>4, <1>5 DEF Makes

\* NextExpectedByte moves by the data of a packet that is next, and does not
\* pass the end of the sequence space.
LEMMA NextExpectedMoves ==
    ASSUME IInv, ShortStreams, DataNumbered, Next, NEW e \in Ends,
           rcv'[Peer(e)].NextExpectedByte # rcv[Peer(e)].NextExpectedByte
    PROVE  \E packet \in PacketsOf(e) :
             /\ Takes(e, packet) /\ packet.Data # <<>>
             /\ Position(e, packet) = rcv[Peer(e)].NextExpectedByte
             /\ Len(packet.Data) <= ReadBufferFree(Peer(e))
             /\ rcv'[Peer(e)].NextExpectedByte
                  = rcv[Peer(e)].NextExpectedByte + Len(packet.Data)
<1> DEFINE p == Peer(e)
           next == rcv[p].NextExpectedByte
<1>1. /\ p \in Ends /\ rcv \in [Ends -> ReceiverType] /\ rcv[p] \in ReceiverType
      /\ next \in 0 .. SeqSpace - 1 /\ SeqSpace \in Nat \ {0}
  BY PeerType, SenderNumbers DEF IInv
<1>2. ~ReturnData(p)
  BY <1>1 DEF ReturnData, ReceiverType
<1>3. PICK packet \in PacketsOf(e) : Takes(e, packet)
  BY <1>2, ReceivingStep DEF IInv, ReceivingState
<1>4. packet \in Packet /\ packet.Data \in Seq(Byte) /\ Len(packet.Data) \in Nat
  BY PacketsAre DEF IInv
<1>5. rcv'[p].NextExpectedByte = IF Len(packet.Data) <= ReadBufferFree(p)
                                 THEN (next + Len(packet.Data)) % SeqSpace ELSE next
  BY <1>1, <1>3 DEF Takes, WriteSegment, ReceiverType
<1>6. Len(packet.Data) <= ReadBufferFree(p) /\ Position(e, packet) = next
  BY <1>3, <1>5 DEF Takes
<1>7. packet.Data # <<>>
  <2> SUFFICES ASSUME packet.Data = <<>> PROVE FALSE
    OBVIOUS
  <2>1. next + Len(packet.Data) = next
    BY <1>1
  <2>2. next % SeqSpace = next
    BY <1>1, ModSame
  <2> QED BY <1>5, <1>6, <2>1, <2>2
<1>8. next + Len(packet.Data) <= 1 + writer[e].written
  BY <1>6, <1>7 DEF DataNumbered, DataBefore
<1>9. /\ writer[e].written \in Nat /\ ToWrite[e] \in Nat
      /\ writer[e].written <= ToWrite[e] /\ ToWrite[e] + 1 < SeqSpace
  BY WorkloadAssumption DEF IInv, TypeOK, WriterType, WrittenInRange, ShortStreams
<1>10. next + Len(packet.Data) \in 0 .. SeqSpace - 1
  BY <1>1, <1>4, <1>8, <1>9, SMTT(30)
<1>11. (next + Len(packet.Data)) % SeqSpace = next + Len(packet.Data)
  BY <1>1, <1>10, ModSame
<1> QED BY <1>3, <1>5, <1>6, <1>7, <1>11

\* No data lies behind a place if none did and none is made there.
LEMMA DataStaysBefore ==
    ASSUME IInv, ShortStreams, NumbersWritten, DataNumbered, Next, NEW e \in Ends
    PROVE  \A n \in Nat :
             /\ DataBefore(e, n)
             /\ \A packet : Makes(e, packet) /\ packet.Data # <<>> =>
                  Position(e, packet) + Len(packet.Data) <= n
             => /\ \A packet \in PacketsOf(e)' : packet.Data # <<>> =>
                     Position(e, packet) + Len(packet.Data) <= n
                /\ rcv'[Peer(e)].NextExpectedByte <= n
<1> TAKE n \in Nat
<1> HAVE /\ DataBefore(e, n)
         /\ \A packet : Makes(e, packet) /\ packet.Data # <<>> =>
              Position(e, packet) + Len(packet.Data) <= n
<1>1. ASSUME NEW packet \in PacketsOf(e)', packet.Data # <<>>
      PROVE  Position(e, packet) + Len(packet.Data) <= n
  <2>1. packet # NoPacket
    BY <1>1 DEF NoPacket
  <2>2. packet \in PacketsOf(e) \/ Makes(e, packet)
    BY <2>1, PacketsStep DEF IInv
  <2> QED BY <1>1, <2>2 DEF DataBefore
<1>2. rcv'[Peer(e)].NextExpectedByte <= n
  <2>1. CASE rcv'[Peer(e)].NextExpectedByte = rcv[Peer(e)].NextExpectedByte
    BY <2>1 DEF DataBefore
  <2>2. CASE rcv'[Peer(e)].NextExpectedByte # rcv[Peer(e)].NextExpectedByte
    BY <2>2, NextExpectedMoves DEF DataBefore
  <2> QED BY <2>1, <2>2
<1> QED BY <1>1, <1>2

\* An end learns that its peer has closed from a FIN that is next.
LEMMA LearnsOfFin ==
    ASSUME IInv, ClosingInv, Next, NEW e \in Ends,
           ~PeerHasClosed(Peer(e)), PeerHasClosed(Peer(e))'
    PROVE  /\ rcv'[Peer(e)].NextExpectedByte = rcv[Peer(e)].NextExpectedByte
           /\ \E packet \in PacketsOf(e) :
                packet.Flags = "FIN" /\ Position(e, packet) = rcv[Peer(e)].NextExpectedByte
<1> DEFINE p == Peer(e)
           closed == {"CLOSE_WAIT", "LAST_ACK", "CLOSING", "TIME_WAIT", "CLOSED"}
           goal == /\ rcv'[p].NextExpectedByte = rcv[p].NextExpectedByte
                   /\ \E packet \in PacketsOf(e) :
                        packet.Flags = "FIN" /\ Position(e, packet) = rcv[p].NextExpectedByte
<1> SUFFICES goal
  OBVIOUS
<1>1. /\ p \in Ends /\ Peer(p) = e
      /\ sock \in [Ends -> SocketType] /\ rcv \in [Ends -> ReceiverType]
      /\ net[p] \in Seq(Packet) /\ rcv[p].EarlyArrivalQueue \in Seq(Packet)
  BY PeerOfPeer DEF IInv, TypeOK, ReceiverType
<1>2. sock[p].ConnState \notin closed /\ sock'[p].ConnState \in closed
  BY DEF PeerHasClosed, Peer
<1> HIDE DEF goal
<1>3. PICK a \in Ends :
        \/ HandleVWrite(a) \/ HandleRT(a) \/ HandleTCPPacket(a)
        \/ Application(a) \/ TimeWait(a) \/ Discard(a) \/ Lose(a)
  BY DEF Next
<1>4. CASE HandleTCPPacket(a)
  <2>1. ASSUME NEW i \in 1 .. MaxReorder + 1, ReceiveNextFin(a, i)
        PROVE  goal
    <3>1. a = p
      BY <1>1, <1>2, <2>1 DEF ReceiveNextFin
    <3>2. i \in Nat
      BY BoundAssumption
    <3>3. /\ i \in 1 .. Len(net[p]) /\ net[p][i].Flags = "FIN" /\ InOrder(p, net[p][i])
          /\ rcv' = rcv
      BY <2>1, <3>1, <3>2 DEF ReceiveNextFin, Overtaken
    <3>4. net[p][i] \in PacketsOf(e)
      BY <1>1, <3>3 DEF PacketsOf, Incoming, Range
    <3>5. Position(e, net[p][i]) = rcv[p].NextExpectedByte
      BY <1>1, <3>3 DEF InOrder, Relative, Position
    <3> QED BY <3>3, <3>4, <3>5 DEF goal
  <2>2. CASE TakeEarlyArrival(a)
    <3>1. PICK i \in DOMAIN rcv[a].EarlyArrivalQueue :
            /\ InOrder(a, rcv[a].EarlyArrivalQueue[i])
            /\ sock' = IF rcv[a].EarlyArrivalQueue[i].Flags = "FIN"
                       THEN [sock EXCEPT ![a].ConnState = StateAfterFin(a)] ELSE sock
            /\ rcv' = [rcv EXCEPT
                 ![a] = [(IF rcv[a].EarlyArrivalQueue[i].Flags = "FIN" THEN @
                          ELSE WriteSegment(a, rcv[a].EarlyArrivalQueue[i].Data))
                         EXCEPT !.EarlyArrivalQueue = RemoveAt(rcv[a].EarlyArrivalQueue, i)]]
      BY <2>2 DEF TakeEarlyArrival
    <3> DEFINE packet == rcv[a].EarlyArrivalQueue[i]
    <3>2. packet.Flags = "FIN" /\ a = p
      BY <1>1, <1>2, <3>1
    <3>3. packet \in PacketsOf(e) /\ Position(e, packet) = rcv[p].NextExpectedByte
      BY <1>1, <3>1, <3>2 DEF PacketsOf, Incoming, Range, InOrder, Relative, Position
    <3>4. rcv'[p].NextExpectedByte = rcv[p].NextExpectedByte
      BY <1>1, <3>1, <3>2 DEF ReceiverType
    <3> QED BY <3>2, <3>3, <3>4 DEF goal
  <2>3. CASE PurgeSegment(a) \/ PurgeLastFin(a)
    BY <1>1, <1>2, <2>3 DEF PurgeSegment, PurgeLastFin, SocketType
  <2>4. CASE sock' = sock
    BY <1>2, <2>4
  <2> QED
    BY <1>4, <2>1, <2>2, <2>3, <2>4
    DEF HandleTCPPacket, ReceiveNewAck, ReceiveOtherAck, ReceiveOtherFin,
        CompareAckAgain, FinishPurge, UpdateWindow, CheckProbe, IgnoreEmptyText,
        ReceiveNextText, ReceiveOtherText, LeaveEarlyArrivals, SendAck
<1>5. CASE VClose(a)
  <2>1. closer[a] = "lastAck" => sock[a].ConnState = "CLOSE_WAIT"
    BY DEF ClosingInv, StateKnows
  <2>2. CASE AssignFinWait1(a)
    BY <1>1, <1>2, <2>2 DEF AssignFinWait1, SocketType
  <2>3. CASE AssignLastAck(a)
    BY <1>1, <1>2, <2>1, <2>3 DEF AssignLastAck, SocketType
  <2>4. CASE sock' = sock
    BY <1>2, <2>4
  <2> QED
    BY <1>5, <2>2, <2>3, <2>4 DEF VClose, CallVClose, WakeHandleVWrite
<1>6. CASE TimeWait(a)
  BY <1>1, <1>2, <1>6 DEF TimeWait, SocketType
<1>7. CASE HandleVWrite(a) \/ HandleRT(a) \/ CallVWrite(a) \/ VWrite(a) \/ VRead(a)
           \/ Discard(a) \/ Lose(a)
  <2>1. sock' = sock
    BY <1>7, HandleVWriteFrame, HandleRTFrame, CallVWriteFrame, VReadFrame
    DEF Discard, Lose
  <2> QED BY <1>2, <2>1
<1> QED BY <1>3, <1>4, <1>5, <1>6, <1>7 DEF Application

\* A FIN is about because one was, or because it is made now.
LEMMA FinAboutStep ==
    ASSUME IInv, ClosingInv, Next, NEW e \in Ends, FinAbout(e)'
    PROVE  FinAbout(e) \/ SendFin(e)
<1>1. CASE PeerHasClosed(Peer(e))'
  BY <1>1, LearnsOfFin DEF FinAbout
<1>2. ASSUME NEW packet \in PacketsOf(e)', packet.Flags = "FIN"
      PROVE  FinAbout(e) \/ SendFin(e)
  <2>1. packet # NoPacket
    BY <1>2 DEF NoPacket
  <2>2. packet \in PacketsOf(e) \/ Makes(e, packet)
    BY <2>1, PacketsStep DEF IInv
  <2>3. Makes(e, packet) => SendFin(e)
    BY <1>2 DEF Makes, Segment
  <2> QED BY <1>2, <2>2, <2>3 DEF FinAbout
<1> QED BY <1>1, <1>2 DEF FinAbout, Peer

\* Once HandleVWrite has sent its FIN it makes no data, and the place of the
\* FIN does not move.
LEMMA FinSentStaysPut ==
    ASSUME IInv, ShortStreams, NumbersWritten, Next, NEW e \in Ends, FinSent(e)
    PROVE  /\ FinPosition(e)' = FinPosition(e)
           /\ \A packet : Makes(e, packet) => packet.Data = <<>>
<1>1. FinSent(e)
  OBVIOUS
<1>2. \A packet : Makes(e, packet) => packet.Data = <<>>
  BY <1>1 DEF FinSent, Makes, SendSegment, ArmZWP, Segment
<1>3. vwrite \in [Ends -> VWriteType] /\ snd[e].NumberBytesSent \in Nat
  BY InHandType DEF IInv, TypeOK
<1>4. FinPosition(e)' = FinPosition(e)
  <2>1. CASE HandleVWrite(e)
    <3>1. CASE CountFin(e)
      <4>1. snd'[e].NumberBytesSent = snd[e].NumberBytesSent + 1
        BY <3>1, NumbersMove
      <4>2. vwrite[e].pc = "finSeq" /\ vwrite'[e].pc = "finQueue"
        BY <1>3, <3>1 DEF CountFin, VWriteType
      <4> QED BY <1>3, <4>1, <4>2 DEF FinPosition
    <3>2. CASE QueueFin(e)
      BY <1>3, <3>2 DEF QueueFin, FinPosition, VWriteType
    <3> QED
      BY <1>1, <2>1, <3>1, <3>2
      DEF FinSent, HandleVWrite, FindNothingToWrite, SleepHandleVWrite, FindDataToWrite,
          TakePayload, SendSegment, FailSegment, AdvanceSequence, EnterZWP, ArmZWP,
          SendProbe, StopProbing, LeaveZWP, SendFin, FailFin
  <2>2. CASE VWrite(e)
    <3>1. /\ snd' = snd
          /\ \/ vwrite'[e].pc = vwrite[e].pc
             \/ vwrite[e].pc = "waiting" /\ vwrite'[e].pc = "lock"
      BY <2>2, VWriteHandsOver DEF IInv
    <3> QED BY <1>3, <3>1 DEF FinPosition
  <2>3. CASE /\ SendingState(e)' = SendingState(e)
             /\ \/ vwrite'[e].pc = vwrite[e].pc
                \/ vwrite[e].pc = "waiting" /\ vwrite'[e].pc = "lock"
    BY <1>3, <2>3 DEF SendingState, FinPosition
  <2> QED BY <2>1, <2>2, <2>3, SendingStep DEF IInv
<1> QED BY <1>2, <1>4

\* A FIN that is about has been sent.
LEMMA FinPositionStays ==
    ASSUME IInv, ClosingInv, ShortStreams, NumbersWritten, Next, NEW e \in Ends,
           FinAbout(e)
    PROVE  /\ FinSent(e)
           /\ FinPosition(e)' = FinPosition(e)
           /\ \A packet : Makes(e, packet) => packet.Data = <<>>
<1>1. FinSent(e)
  BY PeerOfPeer DEF FinAbout, ClosingInv, FinsAreSent, StateKnows
<1> QED BY <1>1, FinSentStaysPut

\* What lies before a place lies before every later one.
LEMMA DataBeforeMore ==
    ASSUME TypeOK, NEW e \in Ends, NEW m \in Nat
    PROVE  \A n \in Nat : DataBefore(e, m) /\ m <= n => DataBefore(e, n)
<1> TAKE n \in Nat
<1> HAVE DataBefore(e, m) /\ m <= n
<1>1. ASSUME NEW packet \in PacketsOf(e), packet.Data # <<>>
      PROVE  Position(e, packet) + Len(packet.Data) <= n
  <2>1. Position(e, packet) \in Int /\ Len(packet.Data) \in Int
    BY PacketsAre, SizeAssumption
  <2>2. Position(e, packet) + Len(packet.Data) <= m
    BY <1>1 DEF DataBefore
  <2> QED BY <2>1, <2>2
<1>2. rcv[Peer(e)].NextExpectedByte <= n
  <2>1. rcv[Peer(e)].NextExpectedByte \in Nat
    BY PeerType, SenderNumbers
  <2> QED BY <2>1 DEF DataBefore
<1> QED BY <1>1, <1>2 DEF DataBefore

\* VWrite never takes a byte back.
LEMMA WrittenGrows ==
    ASSUME IInv, Next, NEW e \in Ends
    PROVE  /\ writer[e].written \in Nat /\ writer'[e].written \in Nat
           /\ writer[e].written <= writer'[e].written
<1>1. writer \in [Ends -> WriterType] /\ writer[e].written \in Nat
  BY DEF IInv, TypeOK, WriterType
<1>2. CASE HandleVWrite(e)
  <2>1. writer'[e].written = writer[e].written
    BY <1>1, <1>2
    DEF HandleVWrite, FindNothingToWrite, SleepHandleVWrite, FindDataToWrite,
        TakePayload, SendSegment, FailSegment, AdvanceSequence, EnterZWP, ArmZWP,
        SendProbe, StopProbing, LeaveZWP, SendFin, FailFin, CountFin, QueueFin,
        WokenWriter, WriterType
  <2> QED BY <1>1, <2>1
<1>3. CASE VWrite(e)
  <2>1. PICK size \in Nat : writer'[e].written = writer[e].written + size
    BY <1>3, VWriteHandsOver DEF IInv
  <2> QED BY <1>1, <2>1
<1>4. CASE SendingState(e)' = SendingState(e)
  BY <1>1, <1>4 DEF SendingState
<1> QED BY <1>2, <1>3, <1>4, SendingStep DEF IInv

\* What has been sent, counted or not yet, grows by what is sent.
LEMMA SentGrows ==
    ASSUME IInv, ShortStreams, NumbersWritten, Next, NEW e \in Ends,
           vwrite'[e].pc \notin {"finQueue", "done"}
    PROVE  LET sent == snd[e].NumberBytesSent + Uncounted(e) IN
           /\ vwrite[e].pc \notin {"finQueue", "done"}
           /\ sent \in Nat /\ sent' \in Nat /\ sent <= sent'
           /\ SendSegment(e) => sent' = snd[e].NumberBytesSent + SegmentSize(e)
           /\ ArmZWP(e) => sent' = snd[e].NumberBytesSent + 1
<1> DEFINE number == snd[e].NumberBytesSent
<1>1. /\ snd \in [Ends -> SenderType] /\ vwrite \in [Ends -> VWriteType]
      /\ number \in Nat /\ SegmentSize(e) \in Nat /\ Uncounted(e) \in Nat
  BY InHandType DEF IInv, TypeOK
<1>2. number' \in Nat /\ Uncounted(e)' \in Nat
  <2>1. TypeOK'
    BY StepIInv DEF IInv
  <2>2. (number \in Nat)'
    BY <2>1, InHandType, PTL
  <2>3. (Uncounted(e) \in 0 .. Unsent(e))' /\ (Unsent(e) \in Nat)'
    BY <2>1, InHandType, PTL
  <2> QED BY <2>2, <2>3
<1>same. ASSUME number' = number, Uncounted(e)' = Uncounted(e),
                vwrite[e].pc \notin {"finQueue", "done", "segment", "zwpArm"}
         PROVE  /\ vwrite[e].pc \notin {"finQueue", "done"}
                /\ number + Uncounted(e) <= (number + Uncounted(e))'
                /\ ~SendSegment(e) /\ ~ArmZWP(e)
  BY <1>1, <1>same DEF SendSegment, ArmZWP
<1>3. CASE SendSegment(e)
  <2>1. /\ vwrite[e].pc = "segment" /\ vwrite'[e].pc = "advance"
        /\ vwrite'[e].payload = vwrite[e].payload /\ snd' = snd
    BY <1>1, <1>3 DEF SendSegment, VWriteType
  <2>2. Uncounted(e) = 0 /\ Uncounted(e)' = SegmentSize(e)
    BY <2>1 DEF Uncounted, SegmentSize
  <2>3. ~ArmZWP(e)
    BY <2>1 DEF ArmZWP
  <2> QED BY <1>1, <2>1, <2>2, <2>3
<1>4. CASE ArmZWP(e)
  <2>1. vwrite[e].pc = "zwpArm" /\ vwrite'[e].pc = "probing"
    BY <1>1, <1>4 DEF ArmZWP, VWriteType
  <2>2. Uncounted(e) = 0 /\ Uncounted(e)' = 0
    BY <2>1 DEF Uncounted
  <2>3. number' = number + 1 /\ ~SendSegment(e)
    BY <1>4, <2>1, NumbersMove DEF SendSegment
  <2> QED BY <1>1, <2>1, <2>2, <2>3
<1>5. CASE AdvanceSequence(e)
  <2>1. vwrite[e].pc = "advance" /\ vwrite'[e].pc # "advance"
    BY <1>1, <1>5 DEF AdvanceSequence, VWriteType
  <2>2. Uncounted(e) = SegmentSize(e) /\ Uncounted(e)' = 0
    BY <2>1 DEF Uncounted
  <2>3. number' = number + SegmentSize(e) /\ ~SendSegment(e) /\ ~ArmZWP(e)
    BY <1>5, <2>1, NumbersMove DEF SendSegment, ArmZWP
  <2> QED BY <1>1, <2>1, <2>2, <2>3
<1>6. CASE FindNothingToWrite(e) \/ SleepHandleVWrite(e) \/ FindDataToWrite(e)
           \/ TakePayload(e) \/ EnterZWP(e) \/ SendProbe(e) \/ StopProbing(e)
           \/ LeaveZWP(e) \/ SendFin(e)
  <2>1. /\ number' = number
        /\ vwrite[e].pc \notin {"finQueue", "done", "segment", "zwpArm", "advance"}
        /\ vwrite'[e].pc # "advance"
    BY <1>1, <1>6
    DEF FindNothingToWrite, SleepHandleVWrite, FindDataToWrite, TakePayload,
        EnterZWP, SendProbe, StopProbing, LeaveZWP, SendFin, VWriteType, SenderType
  <2> QED BY <1>1, <1>same, <2>1 DEF Uncounted
<1>7. CASE FailSegment(e)
  <2>1. number' = number /\ vwrite[e].pc = "segment" /\ vwrite'[e].pc = "lock"
    BY <1>1, <1>7 DEF FailSegment, VWriteType
  <2>2. Uncounted(e) = 0 /\ Uncounted(e)' = 0 /\ ~ArmZWP(e)
    BY <2>1 DEF Uncounted, ArmZWP
  <2> QED BY <1>1, <1>3, <2>1, <2>2
<1>8. CASE FailFin(e) \/ CountFin(e) \/ QueueFin(e)
  BY <1>1, <1>8 DEF FailFin, CountFin, QueueFin, VWriteType
<1>9. CASE /\ number' = number /\ vwrite'[e].payload = vwrite[e].payload
           /\ \/ vwrite'[e].pc = vwrite[e].pc
              \/ vwrite[e].pc = "waiting" /\ vwrite'[e].pc = "lock"
  <2>1. Uncounted(e)' = Uncounted(e)
    BY <1>9 DEF Uncounted, SegmentSize
  <2>2. vwrite[e].pc \notin {"finQueue", "done"}
    BY <1>9
  <2> QED BY <1>1, <1>3, <1>4, <1>9, <2>1, <2>2
<1>10. CASE VWrite(e)
  BY <1>9, <1>10, VWriteHandsOver DEF IInv
<1> QED
  BY <1>3, <1>4, <1>5, <1>6, <1>7, <1>8, <1>9, <1>10, SendingStep
  DEF IInv, HandleVWrite, SendingState

\* Data is written and numbered before it is sent, and stays before the FIN.
LEMMA DataNumberedStep ==
    ASSUME IInv, ClosingInv, ShortStreams, NumbersWritten, DataNumbered, Next
    PROVE  DataNumbered'
<1> SUFFICES ASSUME NEW e \in Ends
             PROVE  /\ DataBefore(e, 1 + writer[e].written)'
                    /\ vwrite'[e].pc \notin {"finQueue", "done"} =>
                         DataBefore(e, 1 + snd[e].NumberBytesSent + Uncounted(e))'
                    /\ FinAbout(e)' => DataBefore(e, FinPosition(e))'
  BY DEF DataNumbered
<1> DEFINE number == snd[e].NumberBytesSent
           before(n) == /\ \A packet \in PacketsOf(e)' : packet.Data # <<>> =>
                             Position(e, packet) + Len(packet.Data) <= n
                        /\ rcv'[Peer(e)].NextExpectedByte <= n
           made(n) == \A packet : Makes(e, packet) /\ packet.Data # <<>> =>
                        Position(e, packet) + Len(packet.Data) <= n
<1>1. /\ number \in Nat /\ SegmentSize(e) \in Nat /\ Uncounted(e) \in Nat
      /\ Unsent(e) \in Nat /\ Buffered(e) \in Nat /\ SegmentSize(e) <= Unsent(e)
  BY InHandType DEF IInv
<1>2. \A n \in Nat : DataBefore(e, n) /\ made(n) => before(n)
  BY DataStaysBefore
<1>3. DataBefore(e, 1 + writer[e].written)'
  <2> DEFINE n == 1 + writer'[e].written
  <2>1. n \in Nat /\ 1 + writer[e].written \in Nat /\ 1 + writer[e].written <= n
    BY WrittenGrows
  <2>2. DataBefore(e, n)
    <3>1. DataBefore(e, 1 + writer[e].written)
      BY DEF DataNumbered
    <3> QED BY <2>1, <3>1, DataBeforeMore DEF IInv
  <2>3. made(n)
    <3> SUFFICES ASSUME NEW packet, Makes(e, packet), packet.Data # <<>>
                 PROVE  Position(e, packet) + Len(packet.Data) <= n
      OBVIOUS
    <3>1. /\ Position(e, packet) = number + 1
          /\ \/ SendSegment(e) /\ Len(packet.Data) = SegmentSize(e)
             \/ ArmZWP(e) /\ Len(packet.Data) = 1
      BY DataMade
    <3>2. number + Unsent(e) + Buffered(e) <= writer[e].written
      BY <3>1, NumbersMove DEF SendSegment, ArmZWP
    <3>3. ArmZWP(e) => Unsent(e) = 1
      BY DEF IInv, HandleVWriteHolds, ArmZWP, Unsent
    <3>4. PICK size \in 0 .. Unsent(e) : Len(packet.Data) = size
      <4>1. SegmentSize(e) \in 0 .. Unsent(e) /\ (ArmZWP(e) => 1 \in 0 .. Unsent(e))
        BY <1>1, <3>3
      <4> QED BY <3>1, <4>1
    <3> HIDE DEF n
    <3>5. number + 1 + size <= n
      <4>1. writer[e].written \in Nat
        BY WrittenGrows
      <4>2. number + Unsent(e) <= writer[e].written
        BY <1>1, <3>2, <4>1
      <4> DEFINE all == writer[e].written
                 unsent == Unsent(e)
      <4>3. number + 1 + size <= 1 + writer[e].written
        <5>1. /\ number \in Nat /\ unsent \in Nat /\ all \in Nat
              /\ size \in 0 .. unsent /\ number + unsent <= all
          BY <1>1, <3>4, <4>1, <4>2
        <5> HIDE DEF number, unsent, all
        <5>2. number + 1 + size <= 1 + all
          BY ONLY <5>1
        <5> QED BY <5>2 DEF all
      <4>4. number + 1 + size \in Nat
        BY <1>1, <3>4
      <4> DEFINE made1 == number + 1 + size
                 written1 == 1 + writer[e].written
      <4>5. made1 \in Nat /\ written1 \in Nat /\ made1 <= written1 /\ written1 <= n /\ n \in Nat
        BY <2>1, <4>3, <4>4
      <4> HIDE DEF made1, written1
      <4>6. made1 <= n
        BY <4>5
      <4> QED BY <4>6 DEF made1
    <3>6. Position(e, packet) + Len(packet.Data) = number + 1 + size
      BY <3>1, <3>4
    <3> QED BY <3>5, <3>6
  <2> HIDE DEF n
  <2>4. before(n)
    BY <1>2, <2>1, <2>2, <2>3
  <2> QED BY <2>4 DEF DataBefore, Position, Peer, n
<1>4. ASSUME vwrite'[e].pc \notin {"finQueue", "done"}
      PROVE  DataBefore(e, 1 + number + Uncounted(e))'
  <2> DEFINE n == (1 + number + Uncounted(e))'
  <2>1. /\ vwrite[e].pc \notin {"finQueue", "done"}
        /\ number' + Uncounted(e)' \in Nat
        /\ number + Uncounted(e) <= number' + Uncounted(e)'
        /\ SendSegment(e) => number' + Uncounted(e)' = number + SegmentSize(e)
        /\ ArmZWP(e) => number' + Uncounted(e)' = number + 1
    BY <1>4, SentGrows
  <2>0. n = 1 + (number' + Uncounted(e)')
    <3>1. number' \in Nat /\ Uncounted(e)' \in Nat
      <4>1. TypeOK'
        BY StepIInv DEF IInv
      <4>2. (number \in Nat)'
        BY <4>1, InHandType, PTL
      <4>3. (Uncounted(e) \in 0 .. Unsent(e))' /\ (Unsent(e) \in Nat)'
        BY <4>1, InHandType, PTL
      <4> QED BY <4>2, <4>3
    <3> QED BY <3>1
  <2> HIDE DEF n
  <2>2. DataBefore(e, n)
    <3>1. DataBefore(e, 1 + number + Uncounted(e))
      BY <2>1 DEF DataNumbered
    <3>2. 1 + number + Uncounted(e) \in Nat /\ n \in Nat /\ 1 + number + Uncounted(e) <= n
      BY <1>1, <2>0, <2>1
    <3> QED BY <3>1, <3>2, DataBeforeMore DEF IInv
  <2>3. made(n)
    <3> SUFFICES ASSUME NEW packet, Makes(e, packet), packet.Data # <<>>
                 PROVE  Position(e, packet) + Len(packet.Data) <= n
      OBVIOUS
    <3>1. /\ Position(e, packet) = number + 1
          /\ \/ SendSegment(e) /\ Len(packet.Data) = SegmentSize(e)
             \/ ArmZWP(e) /\ Len(packet.Data) = 1
      BY DataMade
    <3>2. PICK size \in {SegmentSize(e), 1} :
            Len(packet.Data) = size /\ number' + Uncounted(e)' = number + size
      BY <2>1, <3>1
    <3>3. n = 1 + (number + size)
      BY <2>0, <3>2
    <3>4. Position(e, packet) + Len(packet.Data) = number + 1 + size
      BY <3>1, <3>2
    <3> QED BY <1>1, <3>3, <3>4
  <2>4. before(n)
    <3>1. n \in Nat
      BY <2>0, <2>1
    <3> QED BY <1>2, <2>2, <2>3, <3>1
  <2> QED BY <2>4 DEF DataBefore, Position, Peer, n
<1>5. ASSUME FinAbout(e)'
      PROVE  DataBefore(e, FinPosition(e))'
  <2> DEFINE n == FinPosition(e)'
  <2>1. n \in Nat /\ DataBefore(e, n) /\ made(n)
    <3>1. CASE FinAbout(e)
      <4>1. n = FinPosition(e) /\ made(n)
        BY <3>1, FinPositionStays
      <4>2. FinPosition(e) \in Nat
        BY <1>1 DEF FinPosition
      <4>3. DataBefore(e, FinPosition(e))
        BY <3>1 DEF DataNumbered
      <4> HIDE DEF n
      <4> QED BY <4>1, <4>2, <4>3
    <3>2. CASE SendFin(e)
      <4>1. vwrite[e].pc = "fin" /\ vwrite'[e].pc = "finSeq" /\ snd' = snd
        BY <3>2 DEF SendFin, IInv, TypeOK, VWriteType
      <4>2. n = number + 1 /\ n \in Nat
        BY <1>1, <4>1 DEF FinPosition
      <4>3. DataBefore(e, 1 + number + Uncounted(e)) /\ 1 + number + Uncounted(e) = n
        BY <1>1, <4>1, <4>2 DEF DataNumbered, Uncounted
      <4>4. made(n)
        BY <4>1, DataMade DEF SendSegment, ArmZWP
      <4> HIDE DEF n
      <4> QED BY <4>2, <4>3, <4>4
    <3> QED BY <1>5, <3>1, <3>2, FinAboutStep
  <2> HIDE DEF n
  <2>2. before(n)
    BY <1>2, <2>1
  <2> QED BY <2>2 DEF DataBefore, Position, Peer, n
<1> QED BY <1>3, <1>4, <1>5

------------------------------------------------------------------------------
(* FinsNumbered *)

\* The FIN is numbered behind the data and taken in its turn.
LEMMA FinsNumberedStep ==
    ASSUME IInv, ClosingInv, ShortStreams, NumbersInv, Next
    PROVE  FinsNumbered'
<1> SUFFICES ASSUME NEW e \in Ends
             PROVE  /\ \A packet \in PacketsOf(e)' : packet.Flags = "FIN" =>
                         Position(e, packet) = FinPosition(e)'
                    /\ PeerHasClosed(Peer(e))' =>
                         rcv'[Peer(e)].NextExpectedByte = FinPosition(e)'
  BY DEF FinsNumbered, Position, Peer
<1>0. NumbersWritten /\ DataNumbered /\ FinsNumbered
  BY DEF NumbersInv
<1>1. ASSUME NEW packet \in PacketsOf(e)', packet.Flags = "FIN"
      PROVE  Position(e, packet) = FinPosition(e)'
  <2>1. packet # NoPacket
    BY <1>1 DEF NoPacket
  <2>2. CASE packet \in PacketsOf(e)
    <3>1. FinAbout(e)
      BY <1>1, <2>2 DEF FinAbout
    <3> QED BY <1>0, <1>1, <2>2, <3>1, FinPositionStays DEF FinsNumbered
  <2>3. CASE Makes(e, packet)
    <3>1. SendFin(e) /\ packet = Segment(e, "FIN", <<>>, 0)
      BY <1>1, <2>3 DEF Makes, Segment
    <3>2. vwrite[e].pc = "fin" /\ vwrite'[e].pc = "finSeq" /\ snd' = snd
      BY <3>1 DEF SendFin, IInv, TypeOK, VWriteType
    <3>3. snd[e].NumberBytesSent + 1 < SeqSpace
      BY <1>0, <3>2, NumbersMove
    <3>4. Position(e, packet) = snd[e].NumberBytesSent + 1
      BY <3>1, <3>3, PositionOfSegment DEF IInv
    <3> QED BY <3>2, <3>4 DEF FinPosition
  <2> QED BY <2>1, <2>2, <2>3, PacketsStep DEF IInv
<1>2. ASSUME PeerHasClosed(Peer(e))'
      PROVE  rcv'[Peer(e)].NextExpectedByte = FinPosition(e)'
  <2>1. CASE PeerHasClosed(Peer(e))
    <3>1. FinAbout(e)
      BY <2>1 DEF FinAbout
    <3>2. /\ FinPosition(e)' = FinPosition(e)
          /\ rcv[Peer(e)].NextExpectedByte = FinPosition(e)
          /\ DataBefore(e, FinPosition(e))
      BY <1>0, <2>1, <3>1, FinPositionStays DEF FinsNumbered, DataNumbered
    <3>3. rcv'[Peer(e)].NextExpectedByte = rcv[Peer(e)].NextExpectedByte
      <4> SUFFICES ASSUME rcv'[Peer(e)].NextExpectedByte # rcv[Peer(e)].NextExpectedByte
                   PROVE  FALSE
        OBVIOUS
      <4>1. PICK packet \in PacketsOf(e) :
              /\ packet.Data # <<>>
              /\ Position(e, packet) = rcv[Peer(e)].NextExpectedByte
        BY <1>0, NextExpectedMoves
      <4>2. Position(e, packet) + Len(packet.Data) <= Position(e, packet)
        BY <3>2, <4>1 DEF DataBefore
      <4>3. Position(e, packet) \in Int /\ Len(packet.Data) \in Nat /\ packet.Data \in Seq(Byte)
        BY PacketsAre, SizeAssumption DEF IInv
      <4>4. Len(packet.Data) # 0
        BY <4>1, <4>3
      <4> QED BY <4>2, <4>3, <4>4
    <3> QED BY <3>2, <3>3
  <2>2. CASE ~PeerHasClosed(Peer(e))
    <3>1. /\ rcv'[Peer(e)].NextExpectedByte = rcv[Peer(e)].NextExpectedByte
          /\ \E packet \in PacketsOf(e) :
               packet.Flags = "FIN" /\ Position(e, packet) = rcv[Peer(e)].NextExpectedByte
      BY <1>2, <2>2, LearnsOfFin
    <3>2. FinAbout(e) /\ rcv[Peer(e)].NextExpectedByte = FinPosition(e)
      BY <1>0, <3>1 DEF FinAbout, FinsNumbered
    <3> QED BY <1>0, <3>1, <3>2, FinPositionStays
  <2> QED BY <2>1, <2>2
<1> QED BY <1>1, <1>2

------------------------------------------------------------------------------
(* AcksReceived *)

\* What an end may acknowledge does not shrink.
LEMMA AckBoundGrows ==
    ASSUME IInv, ShortStreams, DataNumbered, Next, NEW e \in Ends
    PROVE  AckBound(e) \in Nat /\ AckBound(e)' \in Nat /\ AckBound(e) <= AckBound(e)'
<1> DEFINE next == rcv[Peer(e)].NextExpectedByte
<1>1. next \in Nat /\ InitSeqNum[e] \in Nat
  BY PeerType, SenderNumbers DEF IInv
<1>2. next' \in Nat /\ next <= next'
  <2>1. CASE next' = next
    BY <1>1, <2>1
  <2>2. CASE next' # next
    <3>1. PICK packet \in PacketsOf(e) : next' = next + Len(packet.Data)
      BY <2>2, NextExpectedMoves DEF Peer
    <3>2. Len(packet.Data) \in Nat
      BY PacketsAre DEF IInv
    <3> QED BY <1>1, <3>1, <3>2
  <2> QED BY <2>1, <2>2
<1>3. FinSent(e) => FinSent(e)'
  BY FinSentStays DEF IInv
<1> HIDE DEF next
<1>4. /\ AckBound(e) = InitSeqNum[e] + next + (IF FinSent(e) THEN 1 ELSE 0)
      /\ AckBound(e)' = InitSeqNum[e] + next' + (IF FinSent(e)' THEN 1 ELSE 0)
  BY DEF AckBound, next, Peer
<1> HIDE DEF FinSent
<1> QED BY <1>1, <1>2, <1>3, <1>4

\* The acknowledgement in a packet made now is what has been received, and a
\* FIN, if it is the answer to one.
LEMMA AckMade ==
    ASSUME IInv, ClosingInv, NEW e \in Ends, NEW packet, Makes(Peer(e), packet)
    PROVE  packet.AckNum <= AckBound(e)
<1> DEFINE p == Peer(e)
           next == rcv[p].NextExpectedByte
           ack(extra) == (next + InitSeqNum[e] + extra) % SeqSpace
<1>1. /\ p \in Ends /\ Peer(p) = e
      /\ next \in Nat /\ InitSeqNum[e] \in Nat /\ SeqSpace \in Nat \ {0}
  BY PeerOfPeer, SenderNumbers DEF IInv
<1>2. \/ packet.AckNum = ack(0)
      \/ packet.AckNum = ack(1) /\ FinSent(e)
  <2>1. CASE \E i \in Nat : ReceiveNextFin(p, i) /\ packet = Segment(p, "ACK", <<>>, 1)
    <3>1. FinSent(e)
      BY <1>1, <2>1, FinOfWhom DEF ReceiveNextFin, IInv, ClosingInv
    <3> QED BY <1>1, <2>1, <3>1 DEF Segment
  <2>2. CASE \E flags, data : packet = Segment(p, flags, data, 0)
    BY <1>1, <2>2 DEF Segment
  <2> QED BY <2>1, <2>2 DEF Makes
<1>3. AckBound(e) = InitSeqNum[e] + next + (IF FinSent(e) THEN 1 ELSE 0)
  BY DEF AckBound
<1> HIDE DEF next, FinSent
<1>4. \A extra \in 0 .. 1 :
        ack(extra) \in Nat /\ ack(extra) <= next + InitSeqNum[e] + extra
  <2> TAKE extra \in 0 .. 1
  <2>1. next + InitSeqNum[e] + extra \in Nat
    BY <1>1
  <2>2. ack(extra) \in SeqNums
    BY <2>1, SeqNumRange
  <2>3. ack(extra) <= next + InitSeqNum[e] + extra
    BY <1>1, <2>1, ModLess
  <2> QED BY <2>2, <2>3, SizeAssumption DEF SeqNums
<1> HIDE DEF ack
<1> QED BY <1>1, <1>2, <1>3, <1>4

\* SND.UNA moves to the acknowledgement in a packet of the peer's.
LEMMA LargestAckMoves ==
    ASSUME TypeOK, Next, NEW e \in Ends, snd'[e].LargestAck # snd[e].LargestAck
    PROVE  \E packet \in PacketsOf(Peer(e)) : snd'[e].LargestAck = packet.AckNum
<1> DEFINE goal == \E packet \in PacketsOf(Peer(e)) : snd'[e].LargestAck = packet.AckNum
<1> SUFFICES goal
  OBVIOUS
<1>1. /\ snd \in [Ends -> SenderType] /\ Peer(e) \in Ends /\ Peer(Peer(e)) = e
      /\ net[e] \in Seq(Packet)
  BY PeerOfPeer DEF TypeOK
<1> HIDE DEF goal
<1>2. PICK a \in Ends :
        \/ HandleVWrite(a) \/ HandleRT(a) \/ HandleTCPPacket(a)
        \/ Application(a) \/ TimeWait(a) \/ Discard(a) \/ Lose(a)
  BY DEF Next
<1>3. CASE HandleVWrite(a)
  <2>1. snd'[e].LargestAck = snd[e].LargestAck
    BY <1>1, <1>3, SMTT(30)
    DEF HandleVWrite, FindNothingToWrite, SleepHandleVWrite, FindDataToWrite,
        TakePayload, SendSegment, FailSegment, AdvanceSequence, EnterZWP, ArmZWP,
        SendProbe, StopProbing, LeaveZWP, SendFin, FailFin, CountFin, QueueFin,
        SenderType
  <2> QED BY <2>1
<1>4. CASE HandleTCPPacket(a)
  <2>1. ASSUME NEW i \in 1 .. MaxReorder + 1, ReceiveNewAck(a, i)
        PROVE  goal
    <3>1. snd' = [snd EXCEPT ![a].LargestAck = net[a][i].AckNum] /\ i \in 1 .. Len(net[a])
      BY <2>1 DEF ReceiveNewAck, Overtaken
    <3>2. a = e /\ snd'[e].LargestAck = net[e][i].AckNum
      BY <1>1, <3>1 DEF SenderType
    <3>3. net[e][i] \in PacketsOf(Peer(e))
      BY <1>1, <3>1, <3>2 DEF PacketsOf, Incoming, Range
    <3> QED BY <3>2, <3>3 DEF goal
  <2>2. CASE UpdateWindow(a)
    BY <1>1, <2>2 DEF UpdateWindow, SenderType
  <2>3. CASE snd' = snd
    BY <2>3
  <2> QED
    BY <1>4, <2>1, <2>2, <2>3
    DEF HandleTCPPacket, ReceiveOtherAck, ReceiveNextFin,
        ReceiveOtherFin, CompareAckAgain, PurgeSegment, PurgeLastFin,
        FinishPurge, CheckProbe, IgnoreEmptyText, ReceiveNextText,
        ReceiveOtherText, TakeEarlyArrival, LeaveEarlyArrivals, SendAck
<1>5. CASE HandleRT(a) \/ CallVWrite(a) \/ VWrite(a) \/ VRead(a) \/ VClose(a)
           \/ TimeWait(a) \/ Discard(a) \/ Lose(a)
  <2>1. snd' = snd
    BY <1>5, HandleRTFrame, VReadFrame, VCloseFrame, NetworkFrame DEF CallVWrite, VWrite
  <2> QED BY <2>1
<1> QED BY <1>2, <1>3, <1>4, <1>5 DEF Application

\* No acknowledgement says more than its sender had received.
LEMMA AcksReceivedStep ==
    ASSUME IInv, ClosingInv, ShortStreams, DataNumbered, AcksReceived, Next
    PROVE  AcksReceived'
<1> SUFFICES ASSUME NEW e \in Ends
             PROVE  /\ \A packet \in PacketsOf(Peer(e))' : packet.AckNum <= AckBound(e)'
                    /\ snd'[e].LargestAck <= AckBound(e)'
  BY DEF AcksReceived, Peer
<1>1. AckBound(e) \in Nat /\ AckBound(e)' \in Nat /\ AckBound(e) <= AckBound(e)'
  BY AckBoundGrows
<1>2. \A packet \in PacketsOf(Peer(e)) : packet.AckNum \in Nat /\ packet.AckNum <= AckBound(e)'
  <2> TAKE packet \in PacketsOf(Peer(e))
  <2>1. packet \in Packet
    BY PeerType, PacketsAre DEF IInv
  <2>2. packet.AckNum \in Nat /\ packet.AckNum <= AckBound(e)
    BY <2>1, SizeAssumption DEF Packet, SeqNums, AcksReceived
  <2> QED BY <1>1, <2>2
<1>3. ASSUME NEW packet \in PacketsOf(Peer(e))'
      PROVE  packet.AckNum <= AckBound(e)'
  <2>1. CASE packet \in PacketsOf(Peer(e))
    BY <1>2, <2>1
  <2>2. CASE packet = NoPacket
    BY <1>1, <2>2 DEF NoPacket
  <2>3. CASE Makes(Peer(e), packet)
    <3>1. packet.AckNum <= AckBound(e)
      BY <2>3, AckMade
    <3>2. packet.AckNum \in Int
      <4>1. PICK extra \in 0 .. 1 : packet.AckNum =
              (rcv[Peer(e)].NextExpectedByte + InitSeqNum[Peer(Peer(e))] + extra) % SeqSpace
        BY <2>3 DEF Makes, Segment
      <4>2. /\ rcv[Peer(e)].NextExpectedByte \in Nat /\ InitSeqNum[Peer(Peer(e))] \in Nat
            /\ SeqSpace \in Nat \ {0}
        BY PeerOfPeer, SenderNumbers DEF IInv
      <4>3. rcv[Peer(e)].NextExpectedByte + InitSeqNum[Peer(Peer(e))] + extra \in Int
        BY <4>2
      <4>4. packet.AckNum \in SeqNums
        BY <4>1, <4>3, SeqNumRange
      <4> QED BY <4>4, SizeAssumption DEF SeqNums
    <3> QED BY <1>1, <3>1, <3>2
  <2> QED BY <2>1, <2>2, <2>3, PeerType, PacketsStep DEF IInv
<1>4. snd'[e].LargestAck <= AckBound(e)'
  <2>1. CASE snd'[e].LargestAck = snd[e].LargestAck
    <3>1. snd[e].LargestAck <= AckBound(e) /\ snd[e].LargestAck \in Nat
      BY SenderNumbers DEF AcksReceived, IInv
    <3> QED BY <1>1, <2>1, <3>1
  <2>2. CASE snd'[e].LargestAck # snd[e].LargestAck
    BY <1>2, <2>2, LargestAckMoves DEF IInv
  <2> QED BY <2>1, <2>2
<1> QED BY <1>3, <1>4

------------------------------------------------------------------------------
(* The theorems *)

LEMMA InitNumbersInv == ShortStreams /\ Init => NumbersInv
<1> SUFFICES ASSUME ShortStreams, Init PROVE NumbersInv
  OBVIOUS
<1>1. TypeOK
  BY InitIInv DEF IInv
<1>2. ASSUME NEW e \in Ends
      PROVE  /\ snd[e].NumberBytesSent = 0 /\ writer[e].written = 0
             /\ vwrite[e].payload = <<>> /\ WriteBuffer[e] = <<>>
             /\ vwrite[e].pc \in {"waiting", "lock"}
             /\ rcv[Peer(e)].NextExpectedByte = 1
             /\ ~PeerHasClosed(Peer(e))
  BY <1>2, PeerType DEF Init, InitialSender, PeerHasClosed
<1>3. ASSUME NEW e \in Ends, NEW packet \in PacketsOf(e)
      PROVE  packet = NoPacket
  BY <1>3, PeerOfPeer DEF Init, PacketsOf, Outgoing, Incoming, Range
<1>4. NumbersWritten
  BY <1>2 DEF NumbersWritten, InHand, Handed, Unsent, Buffered
<1>5. \A e \in Ends : ~FinAbout(e)
  BY <1>2, <1>3 DEF FinAbout, NoPacket
<1>6. \A e \in Ends : DataBefore(e, 1)
  BY <1>2, <1>3 DEF DataBefore, NoPacket
<1>7. DataNumbered
  <2> SUFFICES ASSUME NEW e \in Ends
               PROVE  /\ DataBefore(e, 1 + writer[e].written)
                      /\ DataBefore(e, 1 + snd[e].NumberBytesSent + Uncounted(e))
    BY <1>5 DEF DataNumbered
  <2>1. 1 + writer[e].written = 1 /\ 1 + snd[e].NumberBytesSent + Uncounted(e) = 1
    BY <1>2 DEF Uncounted
  <2> QED BY <1>6, <2>1
<1>8. FinsNumbered
  BY <1>2, <1>3 DEF FinsNumbered, NoPacket
<1>9. AcksReceived
  <2> SUFFICES ASSUME NEW e \in Ends
               PROVE  /\ \A packet \in PacketsOf(Peer(e)) : packet.AckNum <= AckBound(e)
                      /\ snd[e].LargestAck <= AckBound(e)
    BY DEF AcksReceived
  <2>1. InitSeqNum[e] \in Nat /\ SeqSpace \in Nat \ {0}
    BY SizeAssumption
  <2>2. AckBound(e) = InitSeqNum[e] + 1
    BY <1>2, <2>1 DEF AckBound, FinSent
  <2>3. \A packet \in PacketsOf(Peer(e)) : packet.AckNum = 0
    BY <1>3, PeerType DEF NoPacket
  <2>4. snd[e].LargestAck \in {(InitSeqNum[e] + 1) % SeqSpace, 0}
    BY DEF Init, InitialSender
  <2>5. ((InitSeqNum[e] + 1) % SeqSpace) <= InitSeqNum[e] + 1
    BY <2>1, ModLess
  <2> QED BY <2>1, <2>2, <2>3, <2>4, <2>5
<1> QED BY <1>4, <1>7, <1>8, <1>9 DEF NumbersInv

LEMMA StepNumbersInv ==
    ShortStreams /\ IInv /\ ClosingInv /\ NumbersInv /\ [Next]_vars => NumbersInv'
<1> SUFFICES ASSUME ShortStreams, IInv, ClosingInv, NumbersInv, [Next]_vars
             PROVE  NumbersInv'
  OBVIOUS
<1>1. CASE Next
  BY <1>1, NumbersWrittenStep, DataNumberedStep, FinsNumberedStep, AcksReceivedStep
  DEF NumbersInv
<1>2. CASE UNCHANGED vars
  <2>1. NumbersWritten'
    BY <1>2 DEF vars, NumbersInv, NumbersWritten, InHand, Handed, Unsent, Buffered
  <2>2. DataNumbered'
    BY <1>2
    DEF vars, NumbersInv, DataNumbered, DataBefore, FinAbout, FinPosition, Uncounted,
        SegmentSize, Position, PacketsOf, Outgoing, Incoming, PeerHasClosed, Peer
  <2>3. FinsNumbered'
    BY <1>2
    DEF vars, NumbersInv, FinsNumbered, FinPosition, Position, PacketsOf,
        Outgoing, Incoming, PeerHasClosed, Peer
  <2>4. AcksReceived'
    BY <1>2
    DEF vars, NumbersInv, AcksReceived, AckBound, FinSent, PacketsOf, Outgoing,
        Incoming, Peer
  <2> QED BY <2>1, <2>2, <2>3, <2>4 DEF NumbersInv
<1> QED BY <1>1, <1>2

\* Wherever the packets of a connection are, and however late, often or out of
\* turn they arrive: data is numbered once, the FIN behind it, and nothing is
\* acknowledged that was not received.
THEOREM NumbersAgree ==
    ASSUME ShortStreams
    PROVE  Spec => []NumbersInv
<1>1. Init => NumbersInv
  BY InitNumbersInv
<1>2. IInv /\ ClosingInv /\ NumbersInv /\ [Next]_vars => NumbersInv'
  BY StepNumbersInv
<1> QED BY <1>1, <1>2, InductiveInvariant, FinsAndStatesAgree, PTL DEF Spec

\* An end that knows of its peer's FIN has received all that was sent before
\* it (HandleTCPPacket takes a FIN only when it is next, socket.go:190).
THEOREM FinsComeLast ==
    ASSUME ShortStreams
    PROVE  Spec => []FinAfterData
<1>1. ClosingInv /\ NumbersInv => FinAfterData
  <2> SUFFICES ASSUME ClosingInv, NumbersInv, NEW e \in Ends, PeerHasClosed(e)
               PROVE  /\ FinSent(Peer(e))
                      /\ rcv[e].NextExpectedByte
                           = snd[Peer(e)].NumberBytesSent
                             + (IF vwrite[Peer(e)].pc = "finSeq" THEN 1 ELSE 0)
    BY DEF FinAfterData
  <2>1. Peer(e) \in Ends /\ Peer(Peer(e)) = e
    BY PeerOfPeer
  <2>2. FinSent(Peer(e))
    BY DEF ClosingInv, StateKnows
  <2>3. rcv[e].NextExpectedByte = FinPosition(Peer(e))
    BY <2>1 DEF NumbersInv, FinsNumbered
  <2> QED BY <2>2, <2>3 DEF FinPosition
<1> QED BY <1>1, NumbersAgree, FinsAndStatesAgree, PTL

\* SND.UNA never passes what the peer has received and the FIN it has been
\* sent, however late or often an acknowledgement arrives (socket.go:106-121).
THEOREM AcksAreOfReceived ==
    ASSUME ShortStreams
    PROVE  Spec => []NoAckOfUnreceived
<1>1. NumbersInv => NoAckOfUnreceived
  BY DEF NumbersInv, AcksReceived, AckBound, NoAckOfUnreceived
<1> QED BY <1>1, NumbersAgree, PTL

------------------------------------------------------------------------------
(* What the numbers count *)

\* Two steps of the code take bytes out of the stream or put some in twice:
\* HandleVWrite drops its payload when SendIP fails, and WriteSegment keeps
\* what fitted of an early arrival that did not fit.  What follows is about the
\* steps that do neither: whatever the receiver adds to ReadBuffer is counted.
NeverFails == \A e \in Ends : ~FailSegment(e)
WritesWhole ==
    \A e \in Ends :
        rcv'[e].NextExpectedByte = rcv[e].NextExpectedByte =>
            Len(rcv'[e].ReadBuffer) <= Len(rcv[e].ReadBuffer)
DropsNothing == NeverFails /\ WritesWhole

\* The bytes of the stream behind the n-th.
InStream(s, n) == \A i \in 1 .. Len(s) : s[i] = n + i

\* A packet carries the bytes its sequence number says.
PacketsInStream ==
    \A e \in Ends : \A packet \in PacketsOf(e) :
        InStream(packet.Data, Position(e, packet) - 1)

\* HandleVWrite's payload and WriteBuffer are the bytes not numbered yet; there
\* is a payload only while it is being sent.
SenderInStream ==
    \A e \in Ends :
        /\ InStream(WriteBuffer[e], writer[e].written - Buffered(e))
        /\ InStream(vwrite[e].payload, snd[e].NumberBytesSent)
        /\ vwrite[e].pc \notin {"segment", "advance", "zwpArm"} => vwrite[e].payload = <<>>
        /\ vwrite[e].pc \notin {"finQueue", "done"} => InHand(e) = writer[e].written

\* What VRead has returned, and will return.
Readable(e) == reader[e].delivered \o rcv[e].ReadBuffer

\* That is the beginning of the stream, as far as NextExpectedByte says.
ReceivedInStream ==
    \A e \in Ends :
        /\ InStream(Readable(e), 0)
        /\ Len(Readable(e)) = rcv[e].NextExpectedByte - 1

ContentInv == PacketsInStream /\ SenderInStream /\ ReceivedInStream

\* A part of the stream, cut in two,
LEMMA InStreamCut ==
    ASSUME NEW s \in Seq(Byte), NEW n \in Int, InStream(s, n), NEW k \in 0 .. Len(s)
    PROVE  InStream(First(s, k), n) /\ InStream(After(s, k), n + k)
<1>1. InStream(First(s, k), n)
  <2>1. Len(First(s, k)) = k /\ \A i \in 1 .. k : First(s, k)[i] = s[i]
    BY DEF First
  <2>2. \A i \in 1 .. k : i \in 1 .. Len(s)
    OBVIOUS
  <2>3. \A i \in 1 .. k : First(s, k)[i] = n + i
    BY <2>1, <2>2 DEF InStream
  <2> QED BY <2>1, <2>3 DEF InStream
<1>2. InStream(After(s, k), n + k)
  <2>1. Len(After(s, k)) = Len(s) - k /\ \A i \in 1 .. Len(s) - k : After(s, k)[i] = s[k + i]
    BY DEF After
  <2>2. \A i \in 1 .. Len(s) - k : k + i \in 1 .. Len(s) /\ n + (k + i) = n + k + i
    OBVIOUS
  <2> QED BY <2>1, <2>2 DEF InStream
<1> QED BY <1>1, <1>2

\* and two that follow each other put together.
LEMMA InStreamConcat ==
    ASSUME NEW s \in Seq(Byte), NEW t \in Seq(Byte), NEW n \in Int, NEW m \in Int,
           InStream(s, n), InStream(t, m), m = n + Len(s)
    PROVE  InStream(s \o t, n)
<1> DEFINE ls == Len(s)
           lt == Len(t)
<1>1. ls \in Nat /\ lt \in Nat
  OBVIOUS
<1>2. /\ Len(s \o t) = ls + lt
      /\ \A i \in 1 .. ls + lt : (s \o t)[i] = IF i <= ls THEN s[i] ELSE t[i - ls]
  BY ConcatProperties
<1>3. (\A i \in 1 .. ls : s[i] = n + i) /\ (\A i \in 1 .. lt : t[i] = m + i)
  BY DEF InStream
<1>m. m = n + ls
  OBVIOUS
<1> HIDE DEF ls, lt
<1>4. ASSUME NEW i \in 1 .. ls + lt
      PROVE  (s \o t)[i] = n + i
  <2>1. CASE i <= ls
    BY <1>1, <1>2, <1>3, <2>1
  <2>2. CASE ~(i <= ls)
    <3>1. i - ls \in 1 .. lt /\ m + (i - ls) = n + i
      BY <1>1, <1>m, <2>2
    <3> QED BY <1>2, <1>3, <2>2, <3>1
  <2> QED BY <2>1, <2>2
<1> QED BY <1>2, <1>4 DEF InStream

\* The beginning of the stream is its bytes in order.
LEMMA InStreamIs ==
    ASSUME NEW s \in Seq(Byte), InStream(s, 0)
    PROVE  s = [i \in 1 .. Len(s) |-> i]
<1>1. \A i \in 1 .. Len(s) : s[i] = i
  BY DEF InStream
<1>2. s = [i \in 1 .. Len(s) |-> s[i]]
  OBVIOUS
<1> QED BY <1>1, <1>2

\* Nothing is anywhere in it.
LEMMA InStreamEmpty == \A n : InStream(<<>>, n)
BY DEF InStream

\* HandleVWrite and VWrite keep the bytes in their turn.
LEMMA SenderInStreamStep ==
    ASSUME IInv, ShortStreams, NumbersWritten, SenderInStream, Next, NeverFails
    PROVE  SenderInStream'
<1> SUFFICES ASSUME NEW e \in Ends
             PROVE  /\ InStream(WriteBuffer'[e], writer'[e].written - Buffered(e)')
                    /\ InStream(vwrite'[e].payload, snd'[e].NumberBytesSent)
                    /\ vwrite'[e].pc \notin {"segment", "advance", "zwpArm"} =>
                         vwrite'[e].payload = <<>>
                    /\ vwrite'[e].pc \notin {"finQueue", "done"} =>
                         InHand(e)' = writer'[e].written
  BY DEF SenderInStream, InStream
<1> DEFINE number == snd[e].NumberBytesSent
           written == writer[e].written
           payload == vwrite[e].payload
           goal == /\ InStream(WriteBuffer'[e], written' - Buffered(e)')
                   /\ InStream(payload', number')
                   /\ vwrite'[e].pc \notin {"segment", "advance", "zwpArm"} => payload' = <<>>
                   /\ vwrite'[e].pc \notin {"finQueue", "done"} => InHand(e)' = written'
<1> SUFFICES goal
  OBVIOUS
<1>1. /\ snd \in [Ends -> SenderType] /\ vwrite \in [Ends -> VWriteType]
      /\ payload \in Seq(Byte)
      /\ WriteBuffer \in [Ends -> Buffer] /\ WriteBuffer[e] \in Seq(Byte)
      /\ writer \in [Ends -> WriterType]
  BY SenderNumbers, PayloadSizes DEF IInv, TypeOK
<1>2. /\ number \in Nat /\ Unsent(e) \in Nat /\ Buffered(e) \in Nat
      /\ SegmentSize(e) \in 0 .. Unsent(e) /\ written \in Nat
      /\ InHand(e) = number + Unsent(e) + Buffered(e)
      /\ InHand(e)' = number' + Unsent(e)' + Buffered(e)'
  BY InHandType DEF IInv, InHand
<1>3. /\ InStream(WriteBuffer[e], written - Buffered(e))
      /\ InStream(payload, number)
      /\ vwrite[e].pc \notin {"segment", "advance", "zwpArm"} => payload = <<>>
      /\ vwrite[e].pc \notin {"finQueue", "done"} => InHand(e) = written
  BY DEF SenderInStream
<1>empty. payload = <<>> => Unsent(e) = 0
  BY DEF Unsent
<1> HIDE DEF goal
<1>same. ASSUME number' = number, payload' = payload, WriteBuffer'[e] = WriteBuffer[e],
                written' = written,
                vwrite'[e].pc \in {"segment", "advance", "zwpArm"}
                  \/ vwrite[e].pc \notin {"segment", "advance", "zwpArm"},
                vwrite'[e].pc \in {"finQueue", "done"}
                  \/ vwrite[e].pc \notin {"finQueue", "done"}
         PROVE  goal
  <2>1. Buffered(e)' = Buffered(e) /\ Unsent(e)' = Unsent(e)
    BY <1>same DEF Buffered, Unsent
  <2> HIDE DEF number, written, payload
  <2> QED BY <1>2, <1>3, <1>same, <2>1 DEF goal
<1>4. CASE VWrite(e)
  <2>1. PICK size \in Nat :
          /\ WriteBuffer'[e] = WriteBuffer[e] \o [i \in 1 .. size |-> written + i]
          /\ Len(WriteBuffer'[e]) = Len(WriteBuffer[e]) + size
          /\ written' = written + size
          /\ snd' = snd /\ payload' = payload
          /\ \/ vwrite'[e].pc = vwrite[e].pc
             \/ vwrite[e].pc = "waiting" /\ vwrite'[e].pc = "lock"
    BY <1>4, VWriteHandsOver DEF IInv
  <2> DEFINE new == [i \in 1 .. size |-> written + i]
  <2>2. number' = number /\ Unsent(e)' = Unsent(e) /\ Buffered(e)' = Buffered(e) + size
    BY <2>1 DEF Unsent, Buffered
  <2>3. new \in Seq(Byte) /\ InStream(new, written)
    BY <1>2 DEF Byte, InStream
  <2>4. /\ written - Buffered(e) \in Int /\ written \in Int
        /\ written = (written - Buffered(e)) + Len(WriteBuffer[e])
    BY <1>2 DEF Buffered
  <2> HIDE DEF new
  <2>5. InStream(WriteBuffer[e] \o new, written - Buffered(e))
    BY <1>1, <1>3, <2>3, <2>4, InStreamConcat
  <2>6. written' - Buffered(e)' = written - Buffered(e)
    BY <1>2, <2>1, <2>2
  <2>7. InStream(WriteBuffer'[e], written' - Buffered(e)')
    BY <2>1, <2>5, <2>6 DEF new
  <2>8. InStream(payload', number')
    BY <1>3, <2>1, <2>2
  <2>9. vwrite'[e].pc \notin {"finQueue", "done"} => InHand(e)' = written'
    <3> HIDE DEF number, written, payload
    <3> QED BY <1>2, <1>3, <2>1, <2>2
  <2>10. vwrite'[e].pc \notin {"segment", "advance", "zwpArm"} => payload' = <<>>
    BY <1>3, <2>1
  <2> QED BY <2>7, <2>8, <2>9, <2>10 DEF goal
<1>5. CASE HandleVWrite(e)
  <2>1. written' = written
    BY <1>1, <1>5
    DEF HandleVWrite, FindNothingToWrite, SleepHandleVWrite, FindDataToWrite,
        TakePayload, SendSegment, FailSegment, AdvanceSequence, EnterZWP, ArmZWP,
        SendProbe, StopProbing, LeaveZWP, SendFin, FailFin, CountFin, QueueFin,
        WokenWriter, WriterType
  <2>taken. ASSUME NEW size \in 0 .. Len(WriteBuffer[e]),
                   payload' = First(WriteBuffer[e], size),
                   WriteBuffer'[e] = After(WriteBuffer[e], size),
                   number' = number,
                   vwrite[e].pc \in {"size", "zwp"},
                   vwrite'[e].pc \in {"segment", "zwpArm"} \/ size = 0
            PROVE  goal
    <3>1. payload = <<>> /\ number + Buffered(e) = written
      BY <1>2, <1>3, <1>empty, <2>taken
    <3>2. written - Buffered(e) = number /\ number \in Int
      BY <1>2, <3>1
    <3>3. InStream(WriteBuffer[e], number)
      BY <1>3, <3>2
    <3>4. /\ InStream(First(WriteBuffer[e], size), number)
          /\ InStream(After(WriteBuffer[e], size), number + size)
      BY <1>1, <3>2, <3>3, InStreamCut
    <3>5. /\ Len(First(WriteBuffer[e], size)) = size
          /\ Len(After(WriteBuffer[e], size)) = Len(WriteBuffer[e]) - size
      BY <1>1, FirstType, AfterType
    <3>6. size \in Nat /\ Unsent(e)' = size /\ Buffered(e)' = Buffered(e) - size
      BY <1>1, <2>taken, <3>5 DEF Unsent, Buffered
    <3>7. written' - Buffered(e)' = number + size /\ InHand(e)' = written'
      <4> HIDE DEF number, written, payload
      <4> QED BY <1>2, <2>1, <2>taken, <3>1, <3>6
    <3>8. size = 0 => payload' = <<>>
      <4>1. First(WriteBuffer[e], size) \in Seq(Byte)
        BY <1>1, FirstType
      <4> QED BY <2>taken, <3>5, <4>1
    <3> HIDE DEF number, written, payload
    <3> QED BY <2>taken, <3>4, <3>7, <3>8 DEF goal
  <2>2. CASE TakePayload(e)
    <3> DEFINE size == Smaller(snd[e].RemoteWindowSize, Len(WriteBuffer[e]))
    <3>1. size \in 0 .. Len(WriteBuffer[e])
      <4>1. snd[e].RemoteWindowSize \in Nat
        BY <1>1, SizeAssumption DEF SenderType, Windows
      <4>2. Len(WriteBuffer[e]) \in Nat
        BY <1>1
      <4> QED BY <4>1, <4>2, SmallerRange
    <3>2. /\ payload' = First(WriteBuffer[e], size)
          /\ WriteBuffer'[e] = After(WriteBuffer[e], size)
          /\ number' = number /\ vwrite[e].pc \in {"size", "zwp"}
          /\ vwrite'[e].pc \in {"segment", "zwpArm"} \/ size = 0
      BY <1>1, <2>2 DEF TakePayload, VWriteType
    <3> HIDE DEF size
    <3> QED BY <2>taken, <3>1, <3>2
  <2>3. CASE EnterZWP(e)
    <3>1. /\ number' = number
          /\ payload' = First(WriteBuffer[e], 1)
          /\ WriteBuffer'[e] = After(WriteBuffer[e], 1)
          /\ vwrite[e].pc \in {"size", "zwp"} /\ vwrite'[e].pc = "zwpArm"
          /\ WriteBuffer[e] # <<>>
      BY <1>1, <2>3 DEF EnterZWP, VWriteType, SenderType, IInv, HandleVWriteHolds
    <3>2. 1 \in 0 .. Len(WriteBuffer[e])
      BY <1>1, <3>1
    <3> QED BY <2>taken, <3>1, <3>2
  <2>4. CASE AdvanceSequence(e)
    <3> DEFINE size == SegmentSize(e)
    <3>1. /\ payload' = After(payload, size) /\ WriteBuffer' = WriteBuffer
          /\ vwrite[e].pc = "advance"
          /\ vwrite'[e].pc = IF After(payload, size) = <<>> THEN "lock" ELSE "segment"
      BY <1>1, <2>4 DEF AdvanceSequence, VWriteType
    <3>2. number' = number + size
      BY <2>4, NumbersMove
    <3>3. size \in 0 .. Len(payload) /\ size \in Nat
      BY <1>2 DEF Unsent
    <3> HIDE DEF size
    <3>4. InStream(After(payload, size), number + size)
      BY <1>1, <1>2, <1>3, <3>3, InStreamCut
    <3>5. Len(After(payload, size)) = Len(payload) - size
      BY <1>1, <3>3, AfterType
    <3>6. Unsent(e)' = Unsent(e) - size /\ Buffered(e)' = Buffered(e)
      BY <3>1, <3>5 DEF Unsent, Buffered
    <3>7. InHand(e)' = written'
      <4> HIDE DEF number, written, payload
      <4> QED BY <1>2, <1>3, <2>1, <3>1, <3>2, <3>3, <3>6
    <3>8. InStream(WriteBuffer'[e], written' - Buffered(e)')
      BY <1>3, <2>1, <3>1, <3>6
    <3> HIDE DEF number, written, payload
    <3> QED BY <3>1, <3>2, <3>4, <3>7, <3>8 DEF goal
  <2>5. CASE ArmZWP(e)
    <3>0. number' = number + 1
      BY <2>5, NumbersMove
    <3>1. /\ payload' = <<>> /\ Len(payload) = 1 /\ WriteBuffer' = WriteBuffer
          /\ vwrite[e].pc = "zwpArm" /\ vwrite'[e].pc = "probing"
      BY <1>1, <2>5 DEF ArmZWP, VWriteType, IInv, HandleVWriteHolds
    <3>2. Unsent(e)' = 0 /\ Unsent(e) = 1 /\ Buffered(e)' = Buffered(e)
      BY <3>1 DEF Unsent, Buffered
    <3>3. InHand(e)' = written'
      <4> HIDE DEF number, written, payload
      <4> QED BY <1>2, <1>3, <2>1, <3>0, <3>1, <3>2
    <3>4. InStream(WriteBuffer'[e], written' - Buffered(e)')
      BY <1>3, <2>1, <3>1, <3>2
    <3>5. InStream(payload', number')
      BY <3>1, InStreamEmpty
    <3> HIDE DEF number, written, payload
    <3> QED BY <3>1, <3>3, <3>4, <3>5 DEF goal
  <2>6. CASE CountFin(e)
    <3>1. /\ payload' = payload /\ WriteBuffer' = WriteBuffer
          /\ vwrite[e].pc = "finSeq" /\ vwrite'[e].pc = "finQueue"
      BY <1>1, <2>6 DEF CountFin, VWriteType
    <3>2. Buffered(e)' = Buffered(e) /\ payload' = <<>>
      BY <1>3, <3>1 DEF Buffered
    <3>3. InStream(WriteBuffer'[e], written' - Buffered(e)')
      BY <1>3, <2>1, <3>1, <3>2
    <3>4. InStream(payload', number')
      BY <3>2, InStreamEmpty
    <3> HIDE DEF number, written, payload
    <3> QED BY <3>1, <3>2, <3>3, <3>4 DEF goal
  <2>7. CASE FindNothingToWrite(e) \/ SleepHandleVWrite(e) \/ FindDataToWrite(e)
             \/ SendSegment(e) \/ SendProbe(e) \/ StopProbing(e) \/ LeaveZWP(e)
             \/ SendFin(e) \/ FailFin(e) \/ QueueFin(e)
    <3>1. /\ number' = number /\ payload' = payload
          /\ WriteBuffer' = WriteBuffer
          /\ \/ vwrite'[e].pc \in {"segment", "advance", "zwpArm"}
             \/ vwrite[e].pc \notin {"segment", "advance", "zwpArm"}
          /\ \/ vwrite'[e].pc \in {"finQueue", "done"}
             \/ vwrite[e].pc \notin {"finQueue", "done"}
      BY <1>1, <2>7
      DEF FindNothingToWrite, SleepHandleVWrite, FindDataToWrite,
          SendSegment, SendProbe, StopProbing, LeaveZWP, SendFin, FailFin, QueueFin,
          VWriteType, SenderType
    <3> QED BY <1>same, <2>1, <3>1
  <2> QED
    BY <1>5, <2>2, <2>3, <2>4, <2>5, <2>6, <2>7 DEF HandleVWrite, NeverFails
<1>6. CASE /\ SendingState(e)' = SendingState(e)
           /\ \/ vwrite'[e].pc = vwrite[e].pc
              \/ vwrite[e].pc = "waiting" /\ vwrite'[e].pc = "lock"
  BY <1>6, <1>same DEF SendingState
<1> QED BY <1>4, <1>5, <1>6, SendingStep DEF IInv

\* What is sent carries the bytes its number says.
LEMMA PacketsInStreamStep ==
    ASSUME IInv, ShortStreams, NumbersWritten, SenderInStream, PacketsInStream, Next
    PROVE  PacketsInStream'
<1> SUFFICES ASSUME NEW e \in Ends, NEW packet \in PacketsOf(e)'
             PROVE  InStream(packet.Data, Position(e, packet) - 1)
  BY DEF PacketsInStream, InStream, Position
<1>1. CASE packet \in PacketsOf(e)
  BY <1>1 DEF PacketsInStream
<1>2. CASE packet.Data = <<>>
  BY <1>2, InStreamEmpty
<1>3. CASE Makes(e, packet) /\ packet.Data # <<>>
  <2>1. /\ Position(e, packet) = snd[e].NumberBytesSent + 1
        /\ \/ packet.Data = First(vwrite[e].payload, SegmentSize(e))
           \/ packet.Data = vwrite[e].payload
    BY <1>3, DataMade
  <2>2. Position(e, packet) - 1 = snd[e].NumberBytesSent /\ snd[e].NumberBytesSent \in Int
    BY <2>1, InHandType DEF IInv
  <2>3. InStream(vwrite[e].payload, snd[e].NumberBytesSent)
    BY DEF SenderInStream
  <2>4. InStream(First(vwrite[e].payload, SegmentSize(e)), snd[e].NumberBytesSent)
    BY <2>2, <2>3, PayloadSizes, InStreamCut DEF IInv
  <2> QED BY <2>1, <2>2, <2>3, <2>4
<1> QED BY <1>1, <1>2, <1>3, PacketsStep DEF IInv, NoPacket

\* VRead moves bytes from ReadBuffer to the application.
LEMMA ReturnDataKeeps ==
    ASSUME TypeOK, NEW e \in Ends, ReturnData(e)
    PROVE  /\ Readable(e)' = Readable(e)
           /\ rcv'[e].NextExpectedByte = rcv[e].NextExpectedByte
           /\ \E data \in Seq(Byte) : reader'[e].delivered = reader[e].delivered \o data
           /\ reader'[e].delivered \in Seq(Byte) /\ rcv'[e].ReadBuffer \in Seq(Byte)
<1> DEFINE buffer == rcv[e].ReadBuffer
           got == reader[e].delivered
<1>1. /\ rcv \in [Ends -> ReceiverType] /\ reader \in [Ends -> ReaderType]
      /\ buffer \in Seq(Byte) /\ got \in Seq(Byte)
  BY DEF TypeOK, ReceiverType, ReaderType, Buffer
<1>2. PICK n \in 1 .. Len(buffer) :
        /\ reader' = [reader EXCEPT
             ![e] = [pc |-> "idle", delivered |-> @.delivered \o First(buffer, n)]]
        /\ rcv' = [rcv EXCEPT ![e].ReadBuffer = After(@, n)]
  BY DEF ReturnData
<1>3. /\ got' = got \o First(buffer, n) /\ buffer' = After(buffer, n)
      /\ rcv'[e].NextExpectedByte = rcv[e].NextExpectedByte
  BY <1>1, <1>2 DEF ReceiverType
<1>4. n \in Nat /\ n \in 0 .. Len(buffer)
  BY <1>1
<1>5. First(buffer, n) \in Seq(Byte) /\ After(buffer, n) \in Seq(Byte)
  BY <1>1, <1>4, FirstType, AfterType
<1>6. First(buffer, n) \o After(buffer, n) = buffer
  <2>1. 1 \in 1 .. Len(buffer) + 1 /\ n \in 1 - 1 .. Len(buffer) /\ Len(buffer) \in n .. Len(buffer)
    BY <1>1, <1>4
  <2> HIDE DEF buffer
  <2>2. SubSeq(buffer, 1, n) \o SubSeq(buffer, n + 1, Len(buffer)) = SubSeq(buffer, 1, Len(buffer))
    BY <1>1, <2>1, ConcatAdjacentSubSeq
  <2> QED BY <1>1, <2>2, SubSeqFull DEF First, After
<1> HIDE DEF buffer, got
<1>7. (got \o First(buffer, n)) \o After(buffer, n) = got \o buffer
  <2> DEFINE front == First(buffer, n)
             back == After(buffer, n)
  <2>0. got \in Seq(Byte) /\ front \in Seq(Byte) /\ back \in Seq(Byte)
    BY <1>1, <1>5
  <2>1. front \o back = buffer
    BY <1>6
  <2> HIDE DEF front, back
  <2>2. (got \o front) \o back = got \o (front \o back)
    BY <2>0, ConcatAssociative, SMTT(30)
  <2> QED BY <2>1, <2>2 DEF front, back
<1>8. got' \in Seq(Byte) /\ buffer' \in Seq(Byte)
  BY <1>1, <1>3, <1>5, ConcatProperties
<1>9. \E data \in Seq(Byte) : got' = got \o data
  BY <1>3, <1>5
<1> QED BY <1>3, <1>7, <1>8, <1>9 DEF Readable, buffer, got

\* HandleTCPPacket adds what is next, VRead takes from the front.
LEMMA ReceivedInStreamStep ==
    ASSUME IInv, ShortStreams, DataNumbered, PacketsInStream, ReceivedInStream,
           Next, WritesWhole
    PROVE  ReceivedInStream'
<1> SUFFICES ASSUME NEW r \in Ends
             PROVE  /\ InStream(Readable(r)', 0)
                    /\ Len(Readable(r)') = rcv'[r].NextExpectedByte - 1
  BY DEF ReceivedInStream, InStream
<1> DEFINE e == Peer(r)
           next == rcv[r].NextExpectedByte
           buffer == rcv[r].ReadBuffer
           got == reader[r].delivered
           goal == /\ InStream(Readable(r)', 0)
                   /\ Len(Readable(r)') = next' - 1
<1> SUFFICES goal
  OBVIOUS
<1>1. /\ e \in Ends /\ Peer(e) = r
      /\ rcv \in [Ends -> ReceiverType] /\ reader \in [Ends -> ReaderType]
      /\ buffer \in Seq(Byte) /\ got \in Seq(Byte) /\ next \in Nat
      /\ Readable(r) \in Seq(Byte) /\ Len(Readable(r)) = next - 1
      /\ InStream(Readable(r), 0)
  <2>1. /\ buffer \in Seq(Byte) /\ got \in Seq(Byte) /\ next \in Nat
    BY SenderNumbers, SMTT(30) DEF IInv, TypeOK, ReceiverType, ReaderType, Buffer
  <2>2. Readable(r) \in Seq(Byte)
    BY <2>1, ConcatProperties DEF Readable
  <2> QED BY <2>1, <2>2, PeerOfPeer DEF IInv, TypeOK, ReceivedInStream
<1> HIDE DEF goal
<1>same. ASSUME Readable(r)' = Readable(r), next' = next
         PROVE  goal
  BY <1>1, <1>same DEF goal
<1>2. CASE ReceivingState(r)' = ReceivingState(r)
  BY <1>2, <1>same DEF ReceivingState, Readable
<1>3. CASE ReturnData(r)
  BY <1>3, <1>same, ReturnDataKeeps DEF IInv
<1>4. CASE next' = next /\ \E packet \in PacketsOf(e) : Takes(e, packet)
  <2>1. PICK packet \in PacketsOf(e) : Takes(e, packet)
    BY <1>4
  <2> DEFINE data == packet.Data
             k == Smaller(Len(data), ReadBufferFree(r))
  <2>2. /\ rcv'[r].ReadBuffer = WriteSegment(r, data).ReadBuffer /\ got' = got
    BY <1>1, <2>1 DEF Takes
  <2>3. buffer' = buffer \o First(data, k)
    BY <1>1, <2>2 DEF WriteSegment, ReceiverType
  <2>4. data \in Seq(Byte) /\ Len(data) \in Nat
    BY <1>1, <2>1, PacketsAre DEF IInv
  <2>5. ReadBufferFree(r) \in Nat
    BY SizeAssumption DEF ReadBufferFree, IInv, TypeOK, ReceiverType, Buffer
  <2>6. k \in 0 .. Len(data)
    BY <2>4, <2>5, SmallerRange
  <2> HIDE DEF k
  <2>7. First(data, k) \in Seq(Byte)
    BY <2>4, <2>6, FirstType
  <2> DEFINE new == First(data, k)
  <2> HIDE DEF new
  <2>8. new = <<>>
    <3>1. Len(buffer') <= Len(buffer)
      BY <1>4 DEF WritesWhole
    <3>2. Len(buffer \o new) = Len(buffer) + Len(new)
      BY <1>1, <2>7, ConcatProperties DEF new
    <3>3. PICK a \in Nat, b \in Nat : a = Len(buffer) /\ b = Len(new)
      BY <1>1, <2>7 DEF new
    <3>4. a + b <= a
      BY <2>3, <3>1, <3>2, <3>3 DEF new
    <3>5. b = 0
      BY <3>4
    <3> QED BY <2>7, <3>3, <3>5, EmptySeq DEF new
  <2>9. buffer' = buffer
    <3> HIDE DEF buffer
    <3> QED BY <1>1, <2>3, <2>8, ConcatEmptySeq DEF new
  <2> QED BY <1>4, <1>same, <2>2, <2>9 DEF Readable
<1>5. CASE next' # next
  <2>1. PICK packet \in PacketsOf(e) :
          /\ Takes(e, packet) /\ Position(e, packet) = next
          /\ Len(packet.Data) <= ReadBufferFree(r)
          /\ next' = next + Len(packet.Data)
    BY <1>1, <1>5, NextExpectedMoves
  <2> DEFINE data == packet.Data
  <2>2. data \in Seq(Byte) /\ Len(data) \in Nat
    BY <1>1, <2>1, PacketsAre DEF IInv
  <2>3. /\ rcv'[r].ReadBuffer = WriteSegment(r, data).ReadBuffer /\ got' = got
    BY <1>1, <2>1 DEF Takes
  <2>4. buffer' = buffer \o First(data, Smaller(Len(data), ReadBufferFree(r)))
    BY <1>1, <2>3 DEF WriteSegment, ReceiverType
  <2>5. Smaller(Len(data), ReadBufferFree(r)) = Len(data)
    BY <2>1 DEF Smaller
  <2>6. First(data, Len(data)) = data
    BY <2>2, SubSeqFull DEF First
  <2>7. buffer' = buffer \o data
    BY <2>4, <2>5, <2>6
  <2>8. InStream(data, next - 1)
    BY <1>1, <2>1 DEF PacketsInStream
  <2> HIDE DEF data
  <2>9. Readable(r)' = Readable(r) \o data
    <3>1. Readable(r)' = got' \o buffer' /\ Readable(r) = got \o buffer
      BY DEF Readable
    <3>2. got \in Seq(Byte) /\ buffer \in Seq(Byte)
      BY <1>1
    <3> HIDE DEF got, buffer
    <3>3. (got \o buffer) \o data = got \o (buffer \o data)
      BY <2>2, <3>2, ConcatAssociative
    <3> QED BY <2>3, <2>7, <3>1, <3>3
  <2>10. InStream(Readable(r) \o data, 0)
    <3>1. next - 1 \in Int /\ 0 \in Int /\ next - 1 = 0 + Len(Readable(r))
      BY <1>1
    <3> QED BY <1>1, <2>2, <2>8, <3>1, InStreamConcat
  <2>11. Len(Readable(r) \o data) = next' - 1
    <3>1. Len(Readable(r) \o data) = Len(Readable(r)) + Len(data)
      BY <1>1, <2>2, ConcatProperties
    <3>2. PICK size \in Nat : size = Len(data)
      BY <2>2
    <3>3. next' = next + size
      BY <2>1, <3>2 DEF data
    <3> QED BY <1>1, <3>1, <3>2, <3>3
  <2> QED BY <2>9, <2>10, <2>11 DEF goal
<1>6. \/ ReceivingState(r)' = ReceivingState(r)
      \/ \E packet \in PacketsOf(e) : Takes(e, packet)
      \/ ReturnData(r)
  BY <1>1, ReceivingStep DEF IInv
<1> QED BY <1>2, <1>3, <1>4, <1>5, <1>6

LEMMA InitContentInv == Init => ContentInv
<1> SUFFICES ASSUME Init PROVE ContentInv
  OBVIOUS
<1>1. ASSUME NEW e \in Ends
      PROVE  /\ snd[e].NumberBytesSent = 0 /\ writer[e].written = 0
             /\ vwrite[e].payload = <<>> /\ WriteBuffer[e] = <<>>
             /\ rcv[e].NextExpectedByte = 1 /\ rcv[e].ReadBuffer = <<>>
             /\ reader[e].delivered = <<>>
  BY <1>1 DEF Init, InitialSender
<1>2. PacketsInStream
  <2> SUFFICES ASSUME NEW e \in Ends, NEW packet \in PacketsOf(e)
               PROVE  packet.Data = <<>>
    BY InStreamEmpty DEF PacketsInStream
  <2>1. packet = NoPacket
    BY PeerOfPeer DEF Init, PacketsOf, Outgoing, Incoming, Range
  <2> QED BY <2>1 DEF NoPacket
<1>3. SenderInStream
  BY <1>1, InStreamEmpty DEF SenderInStream, InHand, Unsent, Buffered
<1>4. ReceivedInStream
  <2> SUFFICES ASSUME NEW e \in Ends
               PROVE  InStream(Readable(e), 0) /\ Len(Readable(e)) = rcv[e].NextExpectedByte - 1
    BY DEF ReceivedInStream
  <2>1. Readable(e) = <<>>
    BY <1>1, ConcatEmptySeq DEF Readable
  <2> QED BY <1>1, <2>1, InStreamEmpty
<1> QED BY <1>2, <1>3, <1>4 DEF ContentInv

LEMMA StepContentInv ==
    /\ ShortStreams /\ IInv /\ NumbersInv /\ ContentInv
    /\ [Next]_vars /\ [DropsNothing]_vars
    => ContentInv'
<1> SUFFICES ASSUME ShortStreams, IInv, NumbersInv, ContentInv,
                    [Next]_vars, [DropsNothing]_vars
             PROVE  ContentInv'
  OBVIOUS
<1>1. CASE UNCHANGED vars
  <2>1. PacketsInStream'
    BY <1>1
    DEF vars, ContentInv, PacketsInStream, InStream, Position, PacketsOf, Outgoing,
        Incoming, Peer
  <2>2. SenderInStream'
    BY <1>1
    DEF vars, ContentInv, SenderInStream, InStream, InHand, Unsent, Buffered
  <2>3. ReceivedInStream'
    BY <1>1 DEF vars, ContentInv, ReceivedInStream, InStream, Readable
  <2> QED BY <2>1, <2>2, <2>3 DEF ContentInv
<1>2. CASE Next /\ DropsNothing
  BY <1>2, SenderInStreamStep, PacketsInStreamStep, ReceivedInStreamStep
  DEF ContentInv, NumbersInv, DropsNothing
<1> QED BY <1>1, <1>2

\* While neither of the two steps is taken that drop bytes, all bytes are where
\* their numbers say.
THEOREM ContentFollowsNumbers ==
    ASSUME ShortStreams
    PROVE  Spec /\ [][DropsNothing]_vars => []ContentInv
<1>1. Init => ContentInv
  BY InitContentInv
<1>2. IInv /\ NumbersInv /\ ContentInv /\ [Next]_vars /\ [DropsNothing]_vars => ContentInv'
  BY StepContentInv
<1> QED BY <1>1, <1>2, InductiveInvariant, NumbersAgree, PTL DEF Spec

\* What VRead has returned and ReadBuffer holds is the stream that was written,
\* up to NextExpectedByte, each byte once and in its place: for every loss,
\* delay, reordering and retransmission of segments and acknowledgements.
THEOREM StreamIsIntact ==
    ASSUME ShortStreams
    PROVE  Spec /\ [][DropsNothing]_vars => []StreamIntegrity
<1>1. IInv /\ ContentInv => StreamIntegrity
  <2> SUFFICES ASSUME IInv, ContentInv, NEW e \in Ends
               PROVE  reader[Peer(e)].delivered \o rcv[Peer(e)].ReadBuffer
                        = [i \in 1 .. Received(e) |-> i]
    BY DEF StreamIntegrity
  <2>1. Peer(e) \in Ends
    BY PeerType
  <2>2. Readable(Peer(e)) \in Seq(Byte)
    <3>1. reader[Peer(e)].delivered \in Seq(Byte) /\ rcv[Peer(e)].ReadBuffer \in Seq(Byte)
      BY <2>1 DEF IInv, TypeOK, ReaderType, ReceiverType, Buffer
    <3> QED BY <3>1, ConcatProperties DEF Readable
  <2>3. InStream(Readable(Peer(e)), 0) /\ Len(Readable(Peer(e))) = Received(e)
    BY <2>1 DEF ContentInv, ReceivedInStream, Received
  <2>4. Readable(Peer(e)) = [i \in 1 .. Received(e) |-> i]
    BY <2>2, <2>3, InStreamIs
  <2> QED BY <2>4 DEF Readable
<1> QED BY <1>1, InductiveInvariant, ContentFollowsNumbers, PTL

------------------------------------------------------------------------------
(* The refinement of ByteStream *)

\* The application's bytes of the Client are those of ByteStream: VWrite takes
\* some more over, VRead returns some more of those taken over, and no other
\* step is seen.
LEMMA StreamStep ==
    ASSUME IInv, ShortStreams, NumbersInv, NumbersInv', ContentInv, ContentInv',
           TypeOK', WrittenInRange', Next
    PROVE  [Stream!Next]_(Stream!bytes)
<1> DEFINE got == reader[Server].delivered
           written == writer[Client].written
<1>1. /\ Client \in Ends /\ Server \in Ends /\ Peer(Client) = Server
      /\ Peer(Server) = Client
      /\ reader \in [Ends -> ReaderType] /\ writer \in [Ends -> WriterType]
      /\ got \in Seq(Byte) /\ rcv[Server].ReadBuffer \in Seq(Byte)
  BY EndsAssumption DEF Ends, Peer, IInv, TypeOK, ReaderType, ReceiverType, Buffer
<1> SUFFICES \/ written' = written /\ got' = got
             \/ (\E n \in written + 1 .. ToWrite[Client] : written' = n) /\ got' = got
             \/ (\E n \in Len(got) + 1 .. written : got' = [i \in 1 .. n |-> i])
                /\ written' = written
  BY DEF Stream!Next, Stream!Accept, Stream!Deliver, Stream!bytes
<1>2. CASE got' = got
  <2>1. written \in Nat /\ written' \in Nat /\ written <= written'
    BY <1>1, WrittenGrows
  <2>2. written' <= ToWrite[Client] /\ ToWrite[Client] \in Nat
    BY <1>1, WorkloadAssumption DEF WrittenInRange
  <2> HIDE DEF written
  <2>3. written' = written \/ written' \in written + 1 .. ToWrite[Client]
    BY <2>1, <2>2
  <2> QED BY <1>2, <2>3
<1>3. CASE got' # got
  <2>1. ReturnData(Server)
    <3>1. \/ ReceivingState(Server)' = ReceivingState(Server)
          \/ \E packet \in PacketsOf(Client) : Takes(Client, packet)
          \/ ReturnData(Server)
      BY <1>1, ReceivingStep DEF IInv
    <3> QED BY <1>1, <1>3, <3>1 DEF ReceivingState, Takes
  <2>2. written' = written
    BY <2>1 DEF ReturnData
  <2>3. PICK data \in Seq(Byte) : got' = got \o data
    BY <1>1, <2>1, ReturnDataKeeps DEF IInv
  <2>4. /\ got' \in Seq(Byte) /\ rcv'[Server].ReadBuffer \in Seq(Byte)
        /\ rcv'[Server].NextExpectedByte = rcv[Server].NextExpectedByte
        /\ Readable(Server)' = Readable(Server)
    BY <1>1, <2>1, ReturnDataKeeps DEF IInv
  <2> DEFINE buffer == rcv[Server].ReadBuffer
  <2>5. Readable(Server)' = got' \o buffer' /\ Readable(Server) \in Seq(Byte)
    BY <1>1, ConcatProperties DEF Readable
  <2>6. /\ InStream(Readable(Server), 0)
        /\ Len(Readable(Server)) = rcv[Server].NextExpectedByte - 1
        /\ rcv[Server].NextExpectedByte <= 1 + written
    BY <1>1 DEF ContentInv, ReceivedInStream, NumbersInv, DataNumbered, DataBefore
  <2>7. rcv[Server].NextExpectedByte \in Nat /\ written \in Nat
    BY <1>1, SenderNumbers, WrittenGrows DEF IInv
  <2>8. Len(Readable(Server)) <= written /\ Len(Readable(Server)) \in Nat
    BY <2>5, <2>6, <2>7
  <2>9. got \in Seq(Byte) /\ got' \in Seq(Byte) /\ buffer' \in Seq(Byte)
    BY <1>1, <2>4
  <2> HIDE DEF got, buffer, written
  <2>10. PICK old \in Nat, more \in Nat, rest \in Nat :
           old = Len(got) /\ more = Len(data) /\ rest = Len(buffer')
    BY <2>9
  <2>11. more # 0
    <3> SUFFICES ASSUME more = 0 PROVE FALSE
      OBVIOUS
    <3>1. data = <<>>
      BY <2>10, EmptySeq
    <3>2. got' = got
      BY <2>3, <2>9, <3>1, ConcatEmptySeq
    <3> QED BY <1>3, <3>2
  <2>12. Len(got') = old + more
    <3>1. Len(got \o data) = Len(got) + Len(data)
      BY <2>9, ConcatProperties
    <3> QED BY <2>3, <2>10, <3>1
  <2>13. Len(Readable(Server)) = (old + more) + rest
    <3>1. Len(got' \o buffer') = Len(got') + Len(buffer')
      BY <2>9, ConcatProperties
    <3> QED BY <2>4, <2>5, <2>10, <2>12, <3>1
  <2>14. Len(got') \in Len(got) + 1 .. written
    BY <2>7, <2>8, <2>10, <2>11, <2>12, <2>13
  <2>15. InStream(got', 0)
    <3>1. \A i \in 1 .. Len(got') : i \in 1 .. Len(Readable(Server))
      BY <2>10, <2>12, <2>13
    <3>2. \A i \in 1 .. Len(got') : i \in 1 .. Len(got') + Len(buffer')
      BY <2>10, <2>12
    <3>3. \A i \in 1 .. Len(got') : (got' \o buffer')[i] = got'[i]
      BY <2>9, <3>2, ConcatProperties
    <3>4. \A i \in 1 .. Len(got') : got'[i] = Readable(Server)[i]
      BY <2>4, <2>5, <3>3
    <3> QED BY <2>6, <3>1, <3>4 DEF InStream
  <2>16. got' = [i \in 1 .. Len(got') |-> i]
    BY <2>9, <2>15, InStreamIs
  <2> QED BY <2>2, <2>14, <2>16
<1> QED BY <1>2, <1>3

\* The connection implements the byte stream, as long as nothing is dropped.
THEOREM StreamIsImplemented ==
    ASSUME ShortStreams
    PROVE  Spec /\ [][DropsNothing]_vars => ImplementsByteStream
<1>1. Init => Stream!Init
  BY EndsAssumption DEF Init, Stream!Init, Ends
<1>2. /\ IInv /\ IInv' /\ NumbersInv /\ NumbersInv' /\ ContentInv /\ ContentInv'
      /\ [Next]_vars
      => [Stream!Next]_(Stream!bytes)
  <2> SUFFICES ASSUME IInv, IInv', NumbersInv, NumbersInv', ContentInv, ContentInv',
                      [Next]_vars
               PROVE  [Stream!Next]_(Stream!bytes)
    OBVIOUS
  <2>1. CASE Next
    BY <2>1, StreamStep DEF IInv
  <2>2. CASE UNCHANGED vars
    BY <2>2 DEF vars, Stream!bytes
  <2> QED BY <2>1, <2>2
<1> QED
  BY <1>1, <1>2, InductiveInvariant, NumbersAgree, ContentFollowsNumbers, PTL
  DEF Spec, ImplementsByteStream, Stream!Safety

------------------------------------------------------------------------------
(* When nothing is dropped *)

\* A connection whose SendIP never fails and whose stream is not longer than
\* ReadBuffer: every early arrival fits.
LEMMA NothingIsDropped ==
    ASSUME ShortStreams, MaxSendErr = 0, \A e \in Ends : ToWrite[e] <= MaxBufferSize,
           IInv, NumbersInv, ContentInv, Next
    PROVE  DropsNothing
<1>0. faults.sendErr \in Nat /\ DataNumbered
  BY DEF IInv, TypeOK, NumbersInv
<1>1. ASSUME NEW e \in Ends
      PROVE  ~FailSegment(e)
  BY <1>0 DEF FailSegment
<1>2. ASSUME NEW r \in Ends, rcv'[r].NextExpectedByte = rcv[r].NextExpectedByte
      PROVE  Len(rcv'[r].ReadBuffer) <= Len(rcv[r].ReadBuffer)
  <2> DEFINE e == Peer(r)
             next == rcv[r].NextExpectedByte
             buffer == rcv[r].ReadBuffer
  <2>1. /\ e \in Ends /\ Peer(e) = r
        /\ rcv \in [Ends -> ReceiverType]
        /\ buffer \in Seq(Byte) /\ Len(buffer) \in Nat
        /\ reader[r].delivered \in Seq(Byte)
        /\ next \in Nat /\ SeqSpace \in Nat \ {0} /\ MaxBufferSize \in Nat
        /\ writer[e].written \in Nat /\ ToWrite[e] \in Nat
        /\ writer[e].written <= ToWrite[e]
        /\ ToWrite[e] <= MaxBufferSize /\ ToWrite[e] + 1 < SeqSpace
    <3>1. e \in Ends /\ Peer(e) = r
      BY PeerOfPeer
    <3>2. /\ rcv \in [Ends -> ReceiverType]
          /\ buffer \in Seq(Byte) /\ Len(buffer) \in Nat
          /\ reader[r].delivered \in Seq(Byte)
      BY DEF IInv, TypeOK, ReceiverType, ReaderType, Buffer
    <3>3. next \in Nat /\ SeqSpace \in Nat \ {0} /\ MaxBufferSize \in Nat
      BY SenderNumbers, SizeAssumption DEF IInv
    <3>4. writer[e].written \in Nat /\ writer[e].written <= ToWrite[e]
      BY <3>1 DEF IInv, TypeOK, WriterType, WrittenInRange
    <3>5. ToWrite[e] \in Nat /\ ToWrite[e] <= MaxBufferSize /\ ToWrite[e] + 1 < SeqSpace
      BY <3>1, WorkloadAssumption DEF ShortStreams
    <3> QED BY <3>1, <3>2, <3>3, <3>4, <3>5
  <2>2. CASE ReceivingState(r)' = ReceivingState(r)
    BY <2>1, <2>2 DEF ReceivingState
  <2>3. CASE ReturnData(r)
    <3>1. PICK n \in 1 .. Len(buffer) : rcv' = [rcv EXCEPT ![r].ReadBuffer = After(@, n)]
      BY <2>3 DEF ReturnData
    <3>2. buffer' = After(buffer, n)
      BY <2>1, <3>1 DEF ReceiverType
    <3>3. n \in Nat /\ n \in 0 .. Len(buffer)
      BY <2>1
    <3>4. Len(After(buffer, n)) = Len(buffer) - n
      BY <2>1, <3>3, AfterType
    <3> QED BY <2>1, <3>2, <3>3, <3>4
  <2>4. ASSUME NEW packet \in PacketsOf(e), Takes(e, packet)
        PROVE  buffer' = buffer
    <3> DEFINE data == packet.Data
    <3>1. data \in Seq(Byte) /\ Len(data) \in Nat /\ Position(e, packet) = next
      BY <2>1, <2>4, PacketsAre DEF IInv, Takes
    <3>2. rcv'[r].ReadBuffer = WriteSegment(r, data).ReadBuffer
          /\ rcv'[r].NextExpectedByte = WriteSegment(r, data).NextExpectedByte
      BY <2>1, <2>4 DEF Takes
    <3>3. buffer' = buffer \o First(data, Smaller(Len(data), ReadBufferFree(r)))
      BY <2>1, <3>2 DEF WriteSegment, ReceiverType
    <3>4. next' = IF Len(data) <= ReadBufferFree(r) THEN (next + Len(data)) % SeqSpace ELSE next
      BY <2>1, <3>2 DEF WriteSegment, ReceiverType
    <3>5. ReadBufferFree(r) \in Nat
      BY SizeAssumption DEF ReadBufferFree, IInv, TypeOK, ReceiverType, Buffer
    <3>6. CASE data = <<>>
      <4>1. Smaller(Len(data), ReadBufferFree(r)) = 0
        BY <3>5, <3>6 DEF Smaller
      <4>2. First(data, 0) = <<>>
        BY <3>1, <3>6, FirstType, EmptySeq DEF First
      <4> HIDE DEF buffer
      <4> QED BY <2>1, <3>3, <4>1, <4>2, ConcatEmptySeq
    <3>7. CASE data # <<>>
      <4>1. next + Len(data) <= 1 + writer[e].written
        BY <1>0, <2>1, <3>1, <3>7 DEF DataNumbered, DataBefore
      <4>2. Len(buffer) <= next - 1
        <5>1. Len(reader[r].delivered \o buffer) = next - 1
          BY DEF ContentInv, ReceivedInStream, Readable
        <5>2. Len(reader[r].delivered \o buffer) = Len(reader[r].delivered) + Len(buffer)
          BY <2>1, ConcatProperties
        <5>3. PICK got \in Nat : got = Len(reader[r].delivered)
          BY <2>1
        <5>4. got + Len(buffer) = next - 1
          BY <5>1, <5>2, <5>3
        <5> QED BY <2>1, <5>4
      <4>3. PICK size \in Nat : size = Len(data)
        BY <3>1
      <4>4. PICK held \in Nat : held = Len(buffer)
        BY <2>1
      <4>5. next + size <= 1 + writer[e].written /\ held <= next - 1
        BY <4>1, <4>2, <4>3, <4>4
      <4>6. size <= MaxBufferSize - held /\ next + size \in 0 .. SeqSpace - 1
        <5> HIDE DEF next, buffer, e
        <5> QED BY <2>1, <4>5
      <4>7. Len(data) <= ReadBufferFree(r)
        BY <4>3, <4>4, <4>6 DEF ReadBufferFree
      <4>8. next' = next + size
        BY <2>1, <3>4, <4>3, <4>6, <4>7, ModSame
      <4>9. size = 0
        BY <1>2, <2>1, <4>8
      <4> QED BY <3>1, <3>7, <4>3, <4>9, EmptySeq
    <3> QED BY <3>6, <3>7
  <2> QED BY <2>1, <2>2, <2>3, <2>4, ReceivingStep DEF IInv
<1> QED BY <1>1, <1>2 DEF DropsNothing, NeverFails, WritesWhole

\* Then the stream is intact and implemented whatever the network does.
THEOREM SmallStreamsAreIntact ==
    ASSUME ShortStreams, MaxSendErr = 0, \A e \in Ends : ToWrite[e] <= MaxBufferSize
    PROVE  Spec => []StreamIntegrity /\ ImplementsByteStream
<1>1. Init => ContentInv
  BY InitContentInv
<1>2. IInv /\ NumbersInv /\ ContentInv /\ [Next]_vars => ContentInv' /\ [DropsNothing]_vars
  <2> SUFFICES ASSUME IInv, NumbersInv, ContentInv, [Next]_vars
               PROVE  ContentInv' /\ [DropsNothing]_vars
    OBVIOUS
  <2>1. [DropsNothing]_vars
    BY NothingIsDropped
  <2> QED BY <2>1, StepContentInv
<1>3. Spec => [][DropsNothing]_vars
  BY <1>1, <1>2, InductiveInvariant, NumbersAgree, PTL DEF Spec
<1> QED BY <1>3, StreamIsIntact, StreamIsImplemented, PTL

==============================================================================
