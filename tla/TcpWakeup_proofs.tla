---------------------------- MODULE TcpWakeup_proofs ---------------------------
(***************************************************************************)
(* No wakeup for data is lost on the four condition variables of a socket, *)
(* WriteNotEmpty, WriteNotFull, ReadBufferNotEmpty and RTQueueNotEmpty,    *)
(* whatever the sizes of buffers, segments and sequence space, whatever    *)
(* the applications write, and whatever the network does: the proof uses   *)
(* none of the bounds.                                                     *)
(*                                                                         *)
(* Each condition variable has a lemma of its own, with a step for every   *)
(* goroutine or thread that touches the queue, the lock or the waiter.     *)
(***************************************************************************)
EXTENDS TcpConnection_proofs

\* A step of Next is a step of one thread at one end.
LEMMA NextCases ==
    ASSUME Next
    PROVE  \E e \in Ends :
              \/ HandleVWrite(e) \/ HandleRT(e) \/ HandleTCPPacket(e)
              \/ CallVWrite(e) \/ VWrite(e) \/ VRead(e) \/ VClose(e)
              \/ TimeWait(e) \/ Discard(e) \/ Lose(e)
BY DEF Next, Application

------------------------------------------------------------------------------
(* WriteNotEmpty: HandleVWrite sleeps on an empty WriteBuffer *)

\* VWrite, the only one to fill WriteBuffer, wakes HandleVWrite if it has
\* added anything, and cannot come between HandleVWrite's look at the buffer
\* and its Wait, since both happen under WriteLock.
LEMMA VWriteWakesHandleVWrite ==
    ASSUME IInv, NEW e \in Ends, VWrite(e), NEW d \in Ends, HandleVWriteWoken(d)
    PROVE  HandleVWriteWoken(d)'
<1> DEFINE left == EndOfCall(e) - writer[e].written
           size == Smaller(left, WriteBufferFree(e))
           data == [i \in 1 .. size |-> writer[e].written + i]
<1>1. /\ vwrite \in [Ends -> VWriteType]
      /\ WriteBuffer \in [Ends -> Buffer] /\ WriteBuffer[e] \in Seq(Byte)
  BY DEF IInv, TypeOK, Buffer
<1>2. size \in Nat
  <2>1. size \in 0 .. WriteBufferFree(e) /\ WriteBufferFree(e) \in Nat
    BY VWriteSize, SizeType DEF IInv, TypeOK, Buffer, WriteBufferFree
  <2> QED BY <2>1
<1>3. /\ vwrite[e].pc \notin {"sleep", "size", "zwp"}
      /\ WriteBuffer' = [WriteBuffer EXCEPT ![e] = @ \o data]
      /\ vwrite' = IF size > 0 THEN WokenVWrite(e) ELSE vwrite
  BY DEF VWrite, WriteLockFree
<1>4. CASE d # e
  BY <1>1, <1>3, <1>4 DEF HandleVWriteWoken, WokenVWrite, VWriteType
<1>5. CASE d = e /\ size > 0
  <2>1. vwrite'[e].pc \notin {"sleep", "waiting"}
    BY <1>1, <1>3, <1>5 DEF WokenVWrite, VWriteType
  <2> QED BY <1>5, <2>1 DEF HandleVWriteWoken
<1>6. CASE d = e /\ size = 0
  <2>1. data = <<>>
    BY <1>6
  <2> HIDE DEF data, size
  <2>2. WriteBuffer'[e] = WriteBuffer[e] /\ vwrite' = vwrite
    BY <1>1, <1>3, <1>6, <2>1
  <2> QED BY <1>6, <2>2 DEF HandleVWriteWoken
<1> HIDE DEF size
<1> QED BY <1>2, <1>4, <1>5, <1>6

\* HandleVWrite itself goes to sleep only on a buffer it finds empty.
LEMMA HandleVWriteWokenStep ==
    ASSUME IInv, Next, \A d \in Ends : HandleVWriteWoken(d)
    PROVE  \A d \in Ends : HandleVWriteWoken(d)'
<1>0. TypeOK /\ vwrite \in [Ends -> VWriteType] /\ WriteBuffer \in [Ends -> Buffer]
  BY DEF IInv, TypeOK
<1> TAKE d \in Ends
<1>1. PICK e \in Ends :
        \/ HandleVWrite(e) \/ HandleRT(e) \/ HandleTCPPacket(e)
        \/ CallVWrite(e) \/ VWrite(e) \/ VRead(e) \/ VClose(e)
        \/ TimeWait(e) \/ Discard(e) \/ Lose(e)
  BY NextCases
<1>2. CASE HandleVWrite(e)
  <2>1. CASE FindNothingToWrite(e)
    BY <1>0, <2>1 DEF FindNothingToWrite, HandleVWriteWoken, VWriteType
  <2>2. CASE SleepHandleVWrite(e)
    BY <1>0, <2>2 DEF SleepHandleVWrite, HandleVWriteWoken, VWriteType
  <2>3. CASE TakePayload(e)
    BY <1>0, <2>3 DEF TakePayload, HandleVWriteWoken, VWriteType
  <2>4. CASE EnterZWP(e)
    BY <1>0, <2>4 DEF EnterZWP, HandleVWriteWoken, VWriteType
  <2>5. CASE FindDataToWrite(e)
    BY <1>0, <2>5 DEF FindDataToWrite, HandleVWriteWoken, VWriteType
  <2>6. CASE SendSegment(e)
    BY <1>0, <2>6 DEF SendSegment, HandleVWriteWoken, VWriteType
  <2>7. CASE FailSegment(e)
    BY <1>0, <2>7 DEF FailSegment, HandleVWriteWoken, VWriteType
  <2>8. CASE AdvanceSequence(e)
    BY <1>0, <2>8 DEF AdvanceSequence, HandleVWriteWoken, VWriteType
  <2>9. CASE ArmZWP(e)
    BY <1>0, <2>9 DEF ArmZWP, HandleVWriteWoken, VWriteType
  <2>10. CASE SendProbe(e)
    BY <1>0, <2>10 DEF SendProbe, HandleVWriteWoken
  <2>11. CASE StopProbing(e)
    BY <1>0, <2>11 DEF StopProbing, HandleVWriteWoken, VWriteType
  <2>12. CASE LeaveZWP(e)
    BY <1>0, <2>12 DEF LeaveZWP, HandleVWriteWoken, VWriteType
  <2>13. CASE SendFin(e)
    BY <1>0, <2>13 DEF SendFin, HandleVWriteWoken, VWriteType
  <2>14. CASE FailFin(e)
    BY <1>0, <2>14 DEF FailFin, HandleVWriteWoken, VWriteType
  <2>15. CASE CountFin(e)
    BY <1>0, <2>15 DEF CountFin, HandleVWriteWoken, VWriteType
  <2>16. CASE QueueFin(e)
    BY <1>0, <2>16 DEF QueueFin, HandleVWriteWoken, VWriteType
  <2> QED
    BY <1>2, <2>1, <2>2, <2>3, <2>4, <2>5, <2>6, <2>7, <2>8, <2>9, <2>10,
       <2>11, <2>12, <2>13, <2>14, <2>15, <2>16 DEF HandleVWrite
<1>3. CASE VWrite(e)
  BY <1>3, VWriteWakesHandleVWrite
<1>4. CASE VClose(e)
  <2>1. CASE WakeHandleVWrite(e)
    BY <1>0, <2>1 DEF WakeHandleVWrite, WokenVWrite, HandleVWriteWoken, VWriteType
  <2>2. CASE CallVClose(e) \/ AssignFinWait1(e) \/ AssignLastAck(e)
    BY <2>2 DEF CallVClose, AssignFinWait1, AssignLastAck, HandleVWriteWoken
  <2> QED BY <1>4, <2>1, <2>2 DEF VClose
<1>5. CASE CallVWrite(e)
  BY <1>5 DEF CallVWrite, HandleVWriteWoken
<1>6. CASE HandleRT(e) \/ HandleTCPPacket(e) \/ VRead(e)
           \/ TimeWait(e) \/ Discard(e) \/ Lose(e)
  BY <1>6, HandleRTFrame, HandleTCPPacketFrame, VReadFrame, NetworkFrame
  DEF HandleVWriteWoken
<1> QED BY <1>1, <1>2, <1>3, <1>4, <1>5, <1>6

------------------------------------------------------------------------------
(* WriteNotFull: VWrite waits on a full WriteBuffer *)

\* What HandleVWrite does to a writer and its buffer: nothing, or it has taken
\* bytes and broadcasts.  A payload of no bytes leaves the buffer as it was.
LEMMA HandleVWriteWakesVWrite ==
    ASSUME IInv, NEW e \in Ends, HandleVWrite(e)
    PROVE  \/ writer' = WokenWriter(e) /\ \A d \in Ends \ {e} : WriteBuffer'[d] = WriteBuffer[d]
           \/ writer' = writer /\ WriteBuffer' = WriteBuffer
<1>1. WriteBuffer \in [Ends -> Buffer] /\ WriteBuffer[e] \in Seq(Byte)
  BY DEF IInv, TypeOK, Buffer
<1>2. CASE TakePayload(e)
  <2> DEFINE size == Smaller(snd[e].RemoteWindowSize, Len(WriteBuffer[e]))
  <2>1. CASE size = 0
    <3>1. After(WriteBuffer[e], 0) = WriteBuffer[e]
      BY <1>1 DEF After
    <3>2. WriteBuffer' = [WriteBuffer EXCEPT ![e] = After(@, size)] /\ writer' = writer
      BY <1>2, <2>1 DEF TakePayload
    <3> HIDE DEF size
    <3> QED BY <1>1, <2>1, <3>1, <3>2
  <2>2. CASE size # 0
    <3>1. writer' = WokenWriter(e)
      BY <1>2, <2>2 DEF TakePayload
    <3>2. \A d \in Ends \ {e} : WriteBuffer'[d] = WriteBuffer[d]
      BY <1>1, <1>2 DEF TakePayload
    <3> QED BY <3>1, <3>2
  <2> QED BY <2>1, <2>2
<1>3. CASE EnterZWP(e)
  BY <1>1, <1>3 DEF EnterZWP
<1>4. CASE ~TakePayload(e) /\ ~EnterZWP(e)
  BY <1>4
  DEF HandleVWrite, FindNothingToWrite, SleepHandleVWrite, FindDataToWrite,
      SendSegment, FailSegment, AdvanceSequence, ArmZWP, SendProbe, StopProbing,
      LeaveZWP, SendFin, FailFin, CountFin, QueueFin
<1> QED BY <1>2, <1>3, <1>4

\* VWrite waits only when what it wrote has filled the buffer.
LEMMA VWriteWokenStep ==
    ASSUME IInv, Next, \A d \in Ends : VWriteWoken(d)
    PROVE  \A d \in Ends : VWriteWoken(d)'
<1>0. /\ TypeOK /\ WrittenInRange
      /\ writer \in [Ends -> WriterType] /\ WriteBuffer \in [Ends -> Buffer]
  BY DEF IInv, TypeOK
<1> TAKE d \in Ends
<1>1. PICK e \in Ends :
        \/ HandleVWrite(e) \/ HandleRT(e) \/ HandleTCPPacket(e)
        \/ CallVWrite(e) \/ VWrite(e) \/ VRead(e) \/ VClose(e)
        \/ TimeWait(e) \/ Discard(e) \/ Lose(e)
  BY NextCases
<1>2. CASE HandleVWrite(e)
  <2>1. CASE writer' = writer /\ WriteBuffer' = WriteBuffer
    BY <2>1 DEF VWriteWoken
  <2>2. CASE /\ writer' = WokenWriter(e)
             /\ \A c \in Ends \ {e} : WriteBuffer'[c] = WriteBuffer[c]
    <3>1. CASE d = e
      BY <1>0, <2>2, <3>1 DEF VWriteWoken, WokenWriter, WriterType
    <3>2. CASE d # e
      BY <1>0, <2>2, <3>2 DEF VWriteWoken, WokenWriter, WriterType
    <3> QED BY <3>1, <3>2
  <2> QED BY <1>2, <2>1, <2>2, HandleVWriteWakesVWrite
<1>3. CASE VWrite(e)
  <2> DEFINE left == EndOfCall(e) - writer[e].written
             size == Smaller(left, WriteBufferFree(e))
             data == [i \in 1 .. size |-> writer[e].written + i]
             pc == CASE size < left -> "waiting"
                     [] writer[e].written + size = ToWrite[e] -> "done"
                     [] OTHER -> "idle"
  <2>1. /\ WriteBuffer' = [WriteBuffer EXCEPT ![e] = @ \o data]
        /\ writer' = [writer EXCEPT ![e] = [pc |-> pc, written |-> writer[e].written + size]]
    BY <1>3 DEF VWrite
  <2>2. CASE d # e
    <3> HIDE DEF data, pc, size
    <3> QED BY <1>0, <2>1, <2>2 DEF VWriteWoken
  <2>3. CASE d = e
    <3> SUFFICES ASSUME writer'[e].pc = "waiting"
                 PROVE  Len(WriteBuffer'[e]) = MaxBufferSize
      BY <2>3 DEF VWriteWoken
    <3>1. pc = "waiting"
      <4> HIDE DEF pc
      <4> QED BY <1>0, <2>1
    <3>2. size < left
      BY <3>1
    <3>3. size = WriteBufferFree(e) /\ WriteBufferFree(e) \in Nat
      <4>1. size = left \/ size = WriteBufferFree(e)
        BY <1>0, VWriteSize
      <4>2. left \in Int
        BY <1>0, VWriteSize DEF WriterType
      <4>3. WriteBufferFree(e) \in Nat
        BY <1>0, SizeType DEF Buffer, WriteBufferFree
      <4> HIDE DEF size, left
      <4> QED BY <3>2, <4>1, <4>2, <4>3
    <3>4. data \in Seq(Byte) /\ Len(data) = WriteBufferFree(e)
      <4>1. writer[e].written \in Nat
        BY <1>0 DEF WriterType
      <4> HIDE DEF size
      <4> QED BY <3>3, <4>1 DEF Byte
    <3>5. WriteBuffer[e] \in Seq(Byte) /\ Len(WriteBuffer[e]) \in Nat
      BY <1>0 DEF Buffer
    <3> HIDE DEF data
    <3>6. Len(WriteBuffer[e] \o data) = Len(WriteBuffer[e]) + WriteBufferFree(e)
      BY <3>4, <3>5
    <3>7. Len(WriteBuffer'[e]) = Len(WriteBuffer[e]) + WriteBufferFree(e)
      BY <1>0, <2>1, <3>6
    <3> QED BY <3>5, <3>7, SizeType DEF WriteBufferFree
  <2> QED BY <2>2, <2>3
<1>4. CASE CallVWrite(e)
  BY <1>0, <1>4 DEF CallVWrite, VWriteWoken, WriterType
<1>5. CASE HandleRT(e) \/ HandleTCPPacket(e) \/ VRead(e) \/ VClose(e)
           \/ TimeWait(e) \/ Discard(e) \/ Lose(e)
  BY <1>5, HandleRTFrame, HandleTCPPacketFrame, VReadFrame, VCloseFrame,
     NetworkFrame
  DEF VWriteWoken
<1> QED BY <1>1, <1>2, <1>3, <1>4, <1>5

------------------------------------------------------------------------------
(* ReadBufferNotEmpty: VRead sleeps on an empty ReadBuffer *)

\* A reader that waits is woken, and a reader that does not wait is left.
LEMMA WokenReaderAwake ==
    ASSUME IInv, NEW e \in Ends
    PROVE  /\ WokenReader(e)[e].pc # "waiting"
           /\ WokenReader(e)[e].pc = "sleep" => reader[e].pc = "sleep"
           /\ \A d \in Ends \ {e} : WokenReader(e)[d] = reader[d]
<1>1. reader \in [Ends -> ReaderType]
  BY DEF IInv, TypeOK
<1> QED BY <1>1 DEF WokenReader, ReaderType

\* A segment that WriteSegment cannot write whole is not broadcast.  That is
\* no loss: a reader waits on an empty ReadBuffer, and every segment fits that.
LEMMA EverySegmentFitsEmptyBuffer ==
    ASSUME IInv, NEW e \in Ends, NEW packet \in Packet,
           rcv[e].ReadBuffer = <<>>
    PROVE  Len(packet.Data) <= ReadBufferFree(e)
<1>1. Len(packet.Data) \in Nat /\ Len(packet.Data) <= MaxSegmentSize
  BY DEF Packet, Text
<1>2. ReadBufferFree(e) = MaxBufferSize
  BY SizeType DEF ReadBufferFree
<1> QED BY <1>1, <1>2, SizeAssumption

\* Among the steps of HandleTCPPacket, two write to ReadBuffer.
LEMMA HandleTCPPacketWakesVRead ==
    ASSUME IInv, NEW e \in Ends, HandleTCPPacket(e), \A d \in Ends : VReadWoken(d),
           NEW d \in Ends
    PROVE  VReadWoken(d)'
<1>0. /\ reader \in [Ends -> ReaderType]
      /\ rcv \in [Ends -> ReceiverType] /\ rcv[e].EarlyArrivalQueue \in Seq(Packet)
      /\ handler[e].packet \in Packet
  BY DEF IInv, TypeOK, ReceiverType, HandlerType
<1>1. CASE ReceiveNextText(e)
  <2>1. reader[e].pc # "sleep" /\ \A c \in Ends \ {e} : rcv'[c] = rcv[c]
    BY <1>0, <1>1 DEF ReceiveNextText, ReadLockFree
  <2>2. \/ reader' = reader /\ rcv' = rcv
        \/ reader' = WokenReader(e)
    BY <1>1 DEF ReceiveNextText
  <2> QED BY <2>1, <2>2, WokenReaderAwake DEF VReadWoken
<1>2. CASE TakeEarlyArrival(e)
  <2>1. PICK i \in DOMAIN rcv[e].EarlyArrivalQueue :
          LET item == rcv[e].EarlyArrivalQueue[i]
              isFin == item.Flags = "FIN"
          IN
          /\ ReadLockFree(e) \/ isFin
          /\ reader' = CASE isFin -> ReaderAfterFin(e)
                         [] ~isFin /\ Len(item.Data) <= ReadBufferFree(e) -> WokenReader(e)
                         [] OTHER -> reader
          /\ rcv' = [rcv EXCEPT
               ![e] = [(IF isFin THEN @ ELSE WriteSegment(e, item.Data))
                       EXCEPT !.EarlyArrivalQueue =
                           RemoveAt(rcv[e].EarlyArrivalQueue, i)]]
    BY <1>2 DEF TakeEarlyArrival
  <2> DEFINE item == rcv[e].EarlyArrivalQueue[i]
  <2>2. item \in Packet
    BY <1>0
  <2>3. \A c \in Ends \ {e} : rcv'[c] = rcv[c]
    BY <1>0, <2>1
  <2>4. CASE item.Flags = "FIN"
    <3>1. rcv'[e].ReadBuffer = rcv[e].ReadBuffer
      BY <1>0, <2>1, <2>4 DEF ReceiverType
    <3>2. reader' = reader \/ reader' = WokenReader(e)
      BY <2>1, <2>4 DEF ReaderAfterFin
    <3> QED BY <2>3, <3>1, <3>2, WokenReaderAwake DEF VReadWoken
  <2>5. CASE item.Flags # "FIN" /\ Len(item.Data) <= ReadBufferFree(e)
    <3>1. reader' = WokenReader(e) /\ reader[e].pc # "sleep"
      BY <2>1, <2>5 DEF ReadLockFree
    <3> QED BY <2>3, <3>1, WokenReaderAwake DEF VReadWoken
  <2>6. CASE item.Flags # "FIN" /\ ~(Len(item.Data) <= ReadBufferFree(e))
    <3>1. reader' = reader /\ reader[e].pc # "sleep"
      BY <2>1, <2>6 DEF ReadLockFree
    <3>2. reader[e].pc # "waiting"
      BY <2>2, <2>6, EverySegmentFitsEmptyBuffer DEF VReadWoken
    <3> QED BY <2>3, <3>1, <3>2 DEF VReadWoken
  <2> QED BY <2>4, <2>5, <2>6
<1>3. CASE ReceiveOtherText(e)
  <2>1. \A c \in Ends : rcv'[c].ReadBuffer = rcv[c].ReadBuffer
    BY <1>0, <1>3 DEF ReceiveOtherText, ReceiverType
  <2> QED BY <1>3, <2>1 DEF ReceiveOtherText, VReadWoken
<1>4. CASE \E i \in 1 .. MaxReorder + 1 : ReceiveNextFin(e, i) \/ ReceiveOtherFin(e, i)
  <2>1. \A c \in Ends : rcv'[c].ReadBuffer = rcv[c].ReadBuffer
    <3>1. \/ rcv' = rcv
          \/ \E q : rcv' = [rcv EXCEPT ![e].EarlyArrivalQueue = q]
      BY <1>4 DEF ReceiveNextFin, ReceiveOtherFin
    <3> QED BY <1>0, <3>1 DEF ReceiverType
  <2>2. reader' = reader \/ reader' = WokenReader(e)
    BY <1>4 DEF ReceiveNextFin, ReceiveOtherFin, ReaderAfterFin
  <2> QED BY <2>1, <2>2, WokenReaderAwake DEF VReadWoken
<1>5. CASE \/ \E i \in 1 .. MaxReorder + 1 : ReceiveNewAck(e, i) \/ ReceiveOtherAck(e, i)
           \/ CompareAckAgain(e) \/ PurgeSegment(e) \/ PurgeLastFin(e)
           \/ FinishPurge(e) \/ UpdateWindow(e) \/ CheckProbe(e)
           \/ IgnoreEmptyText(e) \/ LeaveEarlyArrivals(e) \/ SendAck(e)
  <2>1. reader' = reader /\ rcv' = rcv
    BY <1>5
    DEF ReceiveNewAck, ReceiveOtherAck, CompareAckAgain, PurgeSegment,
        PurgeLastFin, FinishPurge, UpdateWindow, CheckProbe, IgnoreEmptyText,
        LeaveEarlyArrivals, SendAck
  <2> QED BY <2>1 DEF VReadWoken
<1> QED BY <1>1, <1>2, <1>3, <1>4, <1>5 DEF HandleTCPPacket

\* VRead itself goes to sleep only on a buffer it finds empty.
LEMMA VReadWokenStep ==
    ASSUME IInv, Next, \A d \in Ends : VReadWoken(d)
    PROVE  \A d \in Ends : VReadWoken(d)'
<1>0. reader \in [Ends -> ReaderType] /\ rcv \in [Ends -> ReceiverType]
  BY DEF IInv, TypeOK
<1> TAKE d \in Ends
<1>1. PICK e \in Ends :
        \/ HandleVWrite(e) \/ HandleRT(e) \/ HandleTCPPacket(e)
        \/ CallVWrite(e) \/ VWrite(e) \/ VRead(e) \/ VClose(e)
        \/ TimeWait(e) \/ Discard(e) \/ Lose(e)
  BY NextCases
<1>2. CASE VRead(e)
  <2>1. CASE CallVRead(e)
    BY <1>0, <2>1 DEF CallVRead, VReadWoken, ReaderType
  <2>2. CASE ReturnData(e)
    BY <1>0, <2>2 DEF ReturnData, VReadWoken, ReaderType
  <2>3. CASE FindNothingToRead(e)
    BY <1>0, <2>3 DEF FindNothingToRead, VReadWoken, ReaderType
  <2>4. CASE SleepVRead(e)
    BY <1>0, <2>4 DEF SleepVRead, VReadWoken, ReaderType
  <2> QED BY <1>2, <2>1, <2>2, <2>3, <2>4 DEF VRead
<1>3. CASE HandleTCPPacket(e)
  BY <1>3, HandleTCPPacketWakesVRead
<1>4. CASE HandleVWrite(e) \/ HandleRT(e) \/ CallVWrite(e) \/ VWrite(e)
           \/ VClose(e) \/ TimeWait(e) \/ Discard(e) \/ Lose(e)
  BY <1>4, HandleVWriteFrame, HandleRTFrame, CallVWriteFrame, VCloseFrame,
     NetworkFrame
  DEF VReadWoken
<1> QED BY <1>1, <1>2, <1>3, <1>4

------------------------------------------------------------------------------
(* RTQueueNotEmpty: HandleRT sleeps on a queue without data *)

\* HandleVWrite queues data and wakes HandleRT, or queues a FIN, or leaves the
\* queue as it is.
LEMMA HandleVWriteWakesRT ==
    ASSUME IInv, NEW e \in Ends, HandleVWrite(e), \A d \in Ends : HandleRTWoken(d),
           NEW d \in Ends
    PROVE  HandleRTWoken(d)'
<1>0. /\ rtq \in [Ends -> RTQueueType] /\ rtq[e].RTQueue \in Seq(Packet)
      /\ rt \in [Ends -> RTStates]
      /\ vwrite[e].packet \in Packet
  BY DEF IInv, TypeOK, RTQueueType, VWriteType
<1>1. CASE SendSegment(e)
  <2>1. rt'[e] # "waiting" /\ \A c \in Ends \ {e} : rt'[c] = rt[c] /\ rtq'[c] = rtq[c]
    BY <1>0, <1>1 DEF SendSegment, WokenRT
  <2> QED BY <2>1 DEF HandleRTWoken
<1>2. CASE QueueFin(e)
  <2>1. vwrite[e].packet.Data = <<>>
    BY <1>2 DEF QueueFin, IInv, HandleVWriteHolds
  <2>2. rt' = rt /\ \A c \in Ends \ {e} : rtq'[c] = rtq[c]
    BY <1>0, <1>2 DEF QueueFin
  <2>3. rtq'[e].RTQueue = Append(rtq[e].RTQueue, vwrite[e].packet)
    BY <1>0, <1>2 DEF QueueFin, RTQueueType
  <2>4. ASSUME NEW i \in DOMAIN rtq'[e].RTQueue,
               \A j \in DOMAIN rtq[e].RTQueue : rtq[e].RTQueue[j].Data = <<>>
        PROVE  rtq'[e].RTQueue[i].Data = <<>>
    <3>1. \/ i \in DOMAIN rtq[e].RTQueue /\ rtq'[e].RTQueue[i] = rtq[e].RTQueue[i]
          \/ rtq'[e].RTQueue[i] = vwrite[e].packet
      BY <1>0, <2>3
    <3> QED BY <2>1, <2>4, <3>1
  <2>5. CASE d = e
    BY <2>2, <2>4, <2>5 DEF HandleRTWoken
  <2>6. CASE d # e
    BY <2>2, <2>6 DEF HandleRTWoken
  <2> QED BY <2>5, <2>6
<1>3. CASE ArmZWP(e) \/ LeaveZWP(e)
  <2>1. PICK n : rtq' = [rtq EXCEPT ![e].BytesInFlight = n]
    BY <1>3 DEF ArmZWP, LeaveZWP
  <2>2. \A c \in Ends : rtq'[c].RTQueue = rtq[c].RTQueue
    BY <1>0, <2>1 DEF RTQueueType
  <2>3. rt' = rt
    BY <1>3 DEF ArmZWP, LeaveZWP
  <2> QED BY <2>2, <2>3 DEF HandleRTWoken
<1>4. CASE ~(SendSegment(e) \/ QueueFin(e) \/ ArmZWP(e) \/ LeaveZWP(e))
  <2>1. rt' = rt /\ rtq' = rtq
    BY <1>4
    DEF HandleVWrite, FindNothingToWrite, SleepHandleVWrite, FindDataToWrite,
        TakePayload, FailSegment, AdvanceSequence, EnterZWP, SendProbe,
        StopProbing, SendFin, FailFin, CountFin
  <2> QED BY <2>1 DEF HandleRTWoken
<1> QED BY <1>1, <1>2, <1>3, <1>4

\* HandleTCPPacket only takes segments out of the queue.
LEMMA HandleTCPPacketKeepsRT ==
    ASSUME IInv, NEW e \in Ends, HandleTCPPacket(e), \A d \in Ends : HandleRTWoken(d),
           NEW d \in Ends
    PROVE  HandleRTWoken(d)'
<1>0. rtq \in [Ends -> RTQueueType] /\ rtq[e].RTQueue \in Seq(Packet)
  BY DEF IInv, TypeOK, RTQueueType
<1>1. rt' = rt
  BY HandleTCPPacketFrame
<1>2. CASE PurgeSegment(e)
  <2>1. \A c \in Ends \ {e} : rtq'[c] = rtq[c]
    BY <1>0, <1>2 DEF PurgeSegment
  <2>2. rtq'[e].RTQueue = Tail(rtq[e].RTQueue) /\ rtq[e].RTQueue # <<>>
    BY <1>0, <1>2 DEF PurgeSegment, Dequeued, RTQueueType
  <2>3. \A i \in DOMAIN rtq'[e].RTQueue :
          /\ i + 1 \in DOMAIN rtq[e].RTQueue
          /\ rtq'[e].RTQueue[i] = rtq[e].RTQueue[i + 1]
    BY <1>0, <2>2
  <2>4. CASE d = e
    BY <1>1, <2>3, <2>4 DEF HandleRTWoken
  <2>5. CASE d # e
    BY <1>1, <2>1, <2>5 DEF HandleRTWoken
  <2> QED BY <2>4, <2>5
<1>3. CASE FinishPurge(e) \/ \E i \in 1 .. MaxReorder + 1 : ReceiveNewAck(e, i)
  <2>1. PICK b \in BOOLEAN : rtq' = [rtq EXCEPT ![e].RTTimer = b]
    <3>1. PICK live \in BOOLEAN : rtq' = [rtq EXCEPT ![e].RTTimer = @ \/ live]
      BY <1>3 DEF FinishPurge, ReceiveNewAck
    <3> QED BY <3>1
  <2>2. \A c \in Ends : rtq'[c].RTQueue = rtq[c].RTQueue
    BY <1>0, <2>1 DEF RTQueueType
  <2> QED BY <1>1, <2>2 DEF HandleRTWoken
<1>4. CASE \/ \E i \in 1 .. MaxReorder + 1 :
                \/ ReceiveOtherAck(e, i) \/ ReceiveNextFin(e, i) \/ ReceiveOtherFin(e, i)
           \/ CompareAckAgain(e) \/ PurgeLastFin(e) \/ UpdateWindow(e)
           \/ CheckProbe(e) \/ IgnoreEmptyText(e) \/ ReceiveNextText(e)
           \/ ReceiveOtherText(e) \/ TakeEarlyArrival(e)
           \/ LeaveEarlyArrivals(e) \/ SendAck(e)
  <2>1. rtq' = rtq
    BY <1>4
    DEF ReceiveOtherAck, ReceiveNextFin, ReceiveOtherFin, CompareAckAgain,
        PurgeLastFin, UpdateWindow, CheckProbe, IgnoreEmptyText,
        ReceiveNextText, ReceiveOtherText, TakeEarlyArrival,
        LeaveEarlyArrivals, SendAck
  <2> QED BY <1>1, <2>1 DEF HandleRTWoken
<1> QED BY <1>2, <1>3, <1>4 DEF HandleTCPPacket

\* HandleRT itself goes to sleep only on an empty queue.
LEMMA HandleRTWokenStep ==
    ASSUME IInv, Next, \A d \in Ends : HandleRTWoken(d)
    PROVE  \A d \in Ends : HandleRTWoken(d)'
<1>0. /\ rtq \in [Ends -> RTQueueType] /\ rt \in [Ends -> RTStates]
  BY DEF IInv, TypeOK
<1> TAKE d \in Ends
<1>1. PICK e \in Ends :
        \/ HandleVWrite(e) \/ HandleRT(e) \/ HandleTCPPacket(e)
        \/ CallVWrite(e) \/ VWrite(e) \/ VRead(e) \/ VClose(e)
        \/ TimeWait(e) \/ Discard(e) \/ Lose(e)
  BY NextCases
<1>2. CASE HandleRT(e)
  <2>1. \A c \in Ends : rtq'[c].RTQueue = rtq[c].RTQueue
    <3>1. CASE CheckRTQueue(e)
      BY <1>0, <3>1 DEF CheckRTQueue, RTQueueType
    <3>2. CASE ExpireRTTimer(e)
      BY <1>0, <3>2 DEF ExpireRTTimer, RTQueueType
    <3>3. CASE Retransmit(e)
      <4>1. CASE rtq' = rtq
        BY <4>1
      <4>2. CASE rtq' = [rtq EXCEPT ![e].RTTimer = TRUE, ![e].OngoingRTTimer = TRUE]
        BY <1>0, <4>2 DEF RTQueueType
      <4> QED BY <3>3, <4>1, <4>2 DEF Retransmit
    <3> QED BY <1>2, <3>1, <3>2, <3>3 DEF HandleRT
  <2>2. \A c \in Ends : rt'[c] = "waiting" => rt[c] = "waiting" \/ rtq[c].RTQueue = <<>>
    BY <1>0, <1>2 DEF HandleRT, CheckRTQueue, ExpireRTTimer, Retransmit
  <2> QED BY <2>1, <2>2 DEF HandleRTWoken
<1>3. CASE HandleVWrite(e)
  BY <1>3, HandleVWriteWakesRT
<1>4. CASE HandleTCPPacket(e)
  BY <1>4, HandleTCPPacketKeepsRT
<1>5. CASE CallVWrite(e) \/ VWrite(e) \/ VRead(e) \/ VClose(e)
           \/ TimeWait(e) \/ Discard(e) \/ Lose(e)
  BY <1>5, CallVWriteFrame, VReadFrame, VCloseFrame, NetworkFrame
  DEF HandleRTWoken
<1> QED BY <1>1, <1>2, <1>3, <1>4, <1>5

------------------------------------------------------------------------------
\* Initially nobody sleeps but on empty queues.
LEMMA InitNoLostWakeup == Init => NoLostWakeup
BY DEF Init, NoLostWakeup, HandleVWriteWoken, VWriteWoken, VReadWoken, HandleRTWoken

\* No thread of either end loses a wakeup by any step of any thread.
LEMMA StepNoLostWakeup == IInv /\ NoLostWakeup /\ [Next]_vars => NoLostWakeup'
<1> SUFFICES ASSUME IInv, NoLostWakeup, [Next]_vars PROVE NoLostWakeup'
  OBVIOUS
<1>1. CASE Next
  BY <1>1, HandleVWriteWokenStep, VWriteWokenStep, VReadWokenStep, HandleRTWokenStep
  DEF NoLostWakeup
<1>2. CASE UNCHANGED vars
  BY <1>2
  DEF vars, NoLostWakeup, HandleVWriteWoken, VWriteWoken, VReadWoken, HandleRTWoken
<1> QED BY <1>1, <1>2

\* HandleVWrite and VRead never sleep on a buffer that holds bytes, VWrite
\* never on one with room, HandleRT never on a queue with data: the broadcasts
\* of VWrite, HandleVWrite and WriteSegment, some of them made after the lock
\* has been given up, come in time (socket.go:35, socket.go:340, socket.go:391, api.go:323).
THEOREM WakeupsNotLost == Spec => []NoLostWakeup
BY InductiveInvariant, InitNoLostWakeup, StepNoLostWakeup, PTL DEF Spec
==============================================================================
