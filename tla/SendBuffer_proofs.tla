--------------------------- MODULE SendBuffer_proofs ---------------------------
(***************************************************************************)
(* Any number of threads in VWrite on one socket, whatever each writes and *)
(* however small WriteBuffer is: no thread is left asleep, and every byte  *)
(* that VWrite counts is in the stream once, in the order of its writer.   *)
(***************************************************************************)
EXTENDS SendBuffer, SequenceTheorems, TLAPS

USE SendBufferAssumption

------------------------------------------------------------------------------
(* What a step does to the buffer *)

\* The bytes VWrite adds are bytes of its writer, and fit.
LEMMA ChunkType ==
    ASSUME TypeOK, NEW w \in Writers, NEW size \in Nat
    PROVE  /\ Chunk(w, size) \in Seq(Bytes)
           /\ Len(Chunk(w, size)) = size
           /\ \A i \in 1 .. size : Chunk(w, size)[i] = [by |-> w, n |-> written[w] + i]
<1>1. written[w] \in Nat
  BY DEF TypeOK
<1>2. \A i \in 1 .. size : [by |-> w, n |-> written[w] + i] \in Bytes
  BY <1>1 DEF Bytes
<1> QED
  BY <1>1, <1>2 DEF Chunk

\* numBytesWritten grows by what fits, and not beyond the data.
LEMMA SizeWritten ==
    ASSUME TypeOK, NEW w \in Writers
    PROVE  LET left == ToWrite[w] - written[w]
               size == Smaller(left, Free)
           IN  /\ left \in Nat /\ size \in Nat /\ Free \in Nat
               /\ size <= left /\ size <= Free
               /\ size < left => size = Free
               /\ ~IsFull => Free # 0
<1>1. Len(WriteBuffer) \in Nat /\ Len(WriteBuffer) <= MaxBufferSize
  BY DEF TypeOK
<1>2. ToWrite[w] \in Nat /\ written[w] \in Nat /\ written[w] <= ToWrite[w]
  BY DEF TypeOK
<1> QED
  BY <1>1, <1>2 DEF Smaller, Free, IsFull

\* What TakeBytes removes and what it leaves are the buffer.
LEMMA TakenAndRest ==
    ASSUME TypeOK, NEW size \in 1 .. Len(WriteBuffer)
    PROVE  /\ SubSeq(WriteBuffer, 1, size) \in Seq(Bytes)
           /\ Rest(size) \in Seq(Bytes)
           /\ Len(Rest(size)) = Len(WriteBuffer) - size
           /\ SubSeq(WriteBuffer, 1, size) \o Rest(size) = WriteBuffer
<1>1. WriteBuffer \in Seq(Bytes) /\ Len(WriteBuffer) \in Nat
  BY DEF TypeOK
<1>2. \A i \in 1 .. Len(WriteBuffer) : WriteBuffer[i] \in Bytes
  BY <1>1, ElementOfSeq
<1>3. SubSeq(WriteBuffer, 1, size) \in Seq(Bytes)
  <2>1. \A i \in 1 .. size : WriteBuffer[i] \in Bytes
    BY <1>1, <1>2
  <2> QED
    BY <1>1, <2>1, SubSeqProperties
<1>4. Rest(size) \in Seq(Bytes) /\ Len(Rest(size)) = Len(WriteBuffer) - size
  <2>1. \A i \in size + 1 .. Len(WriteBuffer) : WriteBuffer[i] \in Bytes
    BY <1>1, <1>2
  <2>2. /\ SubSeq(WriteBuffer, size + 1, Len(WriteBuffer)) \in Seq(Bytes)
        /\ Len(SubSeq(WriteBuffer, size + 1, Len(WriteBuffer)))
             = IF size + 1 <= Len(WriteBuffer) THEN Len(WriteBuffer) - (size + 1) + 1 ELSE 0
    BY <1>1, <2>1, SubSeqProperties
  <2> QED
    BY <1>1, <2>2 DEF Rest
<1>5. SubSeq(WriteBuffer, 1, size) \o Rest(size) = SubSeq(WriteBuffer, 1, Len(WriteBuffer))
  BY <1>1, ConcatAdjacentSubSeq DEF Rest
<1>6. SubSeq(WriteBuffer, 1, Len(WriteBuffer)) = WriteBuffer
  BY <1>1, SubSeqFull
<1> QED
  BY <1>3, <1>4, <1>5, <1>6

------------------------------------------------------------------------------
(* Types *)

LEMMA InitTypeOK ==
    ASSUME Init
    PROVE  TypeOK
<1>1. WriteBuffer \in Seq(Bytes) /\ Len(WriteBuffer) = 0 /\ taken \in Seq(Bytes)
  BY EmptySeq DEF Init
<1>2. /\ written \in [Writers -> Nat]
      /\ \A w \in Writers : written[w] <= ToWrite[w]
  BY DEF Init
<1>3. pc \in [Writers -> {"idle", "lock", "waiting", "woken", "done", "failed"}]
  BY DEF Init
<1>4. sender \in {"lock", "waiting", "ZWPLoop", "ended"} /\ closing \in BOOLEAN
  BY DEF Init
<1> QED
  BY <1>1, <1>2, <1>3, <1>4 DEF TypeOK

LEMMA VWriteTypeOK ==
    ASSUME TypeOK, NEW w \in Writers, VWrite(w)
    PROVE  TypeOK'
<1>1. CASE WaitNotFull(w)
  BY <1>1 DEF WaitNotFull, TypeOK
<1>2. CASE FailIsFull(w)
  BY <1>2 DEF FailIsFull, TypeOK
<1>3. CASE WriteWhatFits(w)
  <2> DEFINE left == ToWrite[w] - written[w]
             size == Smaller(left, Free)
  <2>1. size \in Nat /\ size <= left /\ size <= Free /\ left \in Nat
    BY SizeWritten
  <2>2. WriteBuffer' = WriteBuffer \o Chunk(w, size)
    BY <1>3 DEF WriteWhatFits
  <2>3. WriteBuffer \in Seq(Bytes) /\ Len(WriteBuffer) \in Nat
    BY DEF TypeOK
  <2>4. Chunk(w, size) \in Seq(Bytes) /\ Len(Chunk(w, size)) = size
    BY <2>1, ChunkType
  <2> HIDE DEF size
  <2>5. WriteBuffer' \in Seq(Bytes) /\ Len(WriteBuffer') = Len(WriteBuffer) + size
    BY <2>2, <2>3, <2>4, ConcatProperties
  <2>6. Len(WriteBuffer') <= MaxBufferSize
    BY <2>1, <2>3, <2>5 DEF Free
  <2>7. /\ written' \in [Writers -> Nat]
        /\ \A v \in Writers : written'[v] <= ToWrite[v]
    <3>1. written' = [written EXCEPT ![w] = @ + size]
      BY <1>3 DEF WriteWhatFits, size
    <3>2. /\ written \in [Writers -> Nat]
          /\ \A v \in Writers : written[v] <= ToWrite[v]
      BY DEF TypeOK
    <3> QED
      BY <2>1, <3>1, <3>2
  <2>8. pc' \in [Writers -> {"idle", "lock", "waiting", "woken", "done", "failed"}]
    BY <1>3 DEF WriteWhatFits, TypeOK
  <2>9. taken' \in Seq(Bytes) /\ sender' \in {"lock", "waiting", "ZWPLoop", "ended"} /\ closing' \in BOOLEAN
    BY <1>3 DEF WriteWhatFits, TypeOK
  <2> QED
    BY <2>5, <2>6, <2>7, <2>8, <2>9 DEF TypeOK
<1> QED
  BY <1>1, <1>2, <1>3 DEF VWrite

\* Whether for a payload or for a probe, HandleVWrite takes bytes that are there
\* and does not go to sleep.
LEMMA BytesTaken ==
    ASSUME TypeOK, TakePayload \/ TakeProbe
    PROVE  /\ \E size \in 1 .. Len(WriteBuffer) : TakeBytes(size)
           /\ sender' \in {"lock", "ZWPLoop"}
<1>1. CASE TakePayload
  BY <1>1 DEF TakePayload
<1>2. CASE TakeProbe
  <2>1. WriteBuffer \in Seq(Bytes) /\ WriteBuffer # <<>>
    BY <1>2 DEF TakeProbe, TypeOK
  <2>2. Len(WriteBuffer) \in Nat /\ Len(WriteBuffer) # 0
    BY <2>1, EmptySeq
  <2>3. 1 \in 1 .. Len(WriteBuffer)
    BY <2>2
  <2> QED
    BY <1>2, <2>3 DEF TakeProbe
<1> QED
  BY <1>1, <1>2

LEMMA TakeBytesTypeOK ==
    ASSUME TypeOK, NEW size \in 1 .. Len(WriteBuffer), TakeBytes(size),
           sender' \in {"lock", "ZWPLoop"}
    PROVE  TypeOK'
<1>1. /\ taken' = taken \o SubSeq(WriteBuffer, 1, size)
      /\ WriteBuffer' = Rest(size)
  BY DEF TakeBytes
<1>2. taken \in Seq(Bytes) /\ Len(WriteBuffer) \in Nat /\ Len(WriteBuffer) <= MaxBufferSize
  BY DEF TypeOK
<1>3. taken' \in Seq(Bytes)
  BY <1>1, <1>2, TakenAndRest, ConcatProperties
<1>4. WriteBuffer' \in Seq(Bytes) /\ Len(WriteBuffer') <= MaxBufferSize
  BY <1>1, <1>2, TakenAndRest
<1>5. pc' \in [Writers -> {"idle", "lock", "waiting", "woken", "done", "failed"}]
  BY DEF TakeBytes, Woken, TypeOK
<1> QED
  BY <1>3, <1>4, <1>5 DEF TakeBytes, TypeOK

LEMMA NextTypeOK ==
    ASSUME TypeOK, [Next]_vars
    PROVE  TypeOK'
<1>1. CASE TakePayload \/ TakeProbe
  BY <1>1, BytesTaken, TakeBytesTypeOK
<1>2. CASE WaitNotEmpty
  BY <1>2 DEF WaitNotEmpty, TypeOK
<1>3. CASE SendFin
  BY <1>3 DEF SendFin, TypeOK
<1>4. CASE VClose
  BY <1>4 DEF VClose, TypeOK
<1>5. ASSUME NEW w \in Writers, CallVWrite(w) PROVE TypeOK'
  BY <1>5 DEF CallVWrite, TypeOK
<1>6. ASSUME NEW w \in Writers, VWrite(w) PROVE TypeOK'
  BY <1>6, VWriteTypeOK
<1>7. CASE UNCHANGED vars
  BY <1>7 DEF vars, TypeOK
<1>8. CASE LeaveZWPLoop
  BY <1>8 DEF LeaveZWPLoop, TypeOK
<1> QED
  BY <1>1, <1>2, <1>3, <1>4, <1>5, <1>6, <1>7, <1>8 DEF Next, HandleVWrite

\* WriteBuffer keeps its capacity and no call writes more than its data
\* (api.go:309-326), however many threads take turns.
THEOREM TypeCorrect == Spec => []TypeOK
BY InitTypeOK, NextTypeOK, PTL DEF Spec

------------------------------------------------------------------------------
(* Sleepers *)

LEMMA NextWritersWoken ==
    ASSUME TypeOK, WritersWoken, [Next]_vars
    PROVE  WritersWoken'
<1>0. /\ \A w \in Writers : pc[w] = "waiting" => IsFull
      /\ sender = "waiting" => WriteBuffer = <<>>
      /\ pc \in [Writers -> {"idle", "lock", "waiting", "woken", "done", "failed"}]
  BY DEF WritersWoken, TypeOK
\* The broadcast on WriteNotFull reaches all.
<1>1. CASE TakePayload \/ TakeProbe
  <2>1. \A w \in Writers : pc'[w] # "waiting"
    BY <1>1, BytesTaken DEF TakeBytes, Woken
  <2>2. sender' # "waiting"
    BY <1>1, BytesTaken
  <2> QED
    BY <2>1, <2>2 DEF WritersWoken
<1>2. CASE WaitNotEmpty
  BY <1>0, <1>2 DEF WaitNotEmpty, WritersWoken, IsFull
<1>3. CASE SendFin
  BY <1>0, <1>3 DEF SendFin, WritersWoken, IsFull
<1>4. CASE VClose
  BY <1>0, <1>4 DEF VClose, WritersWoken, IsFull
<1>5. ASSUME NEW w \in Writers, CallVWrite(w) PROVE WritersWoken'
  BY <1>0, <1>5 DEF CallVWrite, WritersWoken, IsFull
<1>6. ASSUME NEW w \in Writers, VWrite(w) PROVE WritersWoken'
  <2>1. CASE WaitNotFull(w)
    BY <1>0, <2>1 DEF WaitNotFull, WritersWoken, IsFull
  <2>2. CASE FailIsFull(w)
    BY <1>0, <2>2 DEF FailIsFull, WritersWoken, IsFull
  \* Who writes finds room, so that nobody sleeps; what is left of its own data
  \* has filled the buffer.
  <2>3. CASE WriteWhatFits(w)
    <3> DEFINE left == ToWrite[w] - written[w]
               size == Smaller(left, Free)
    <3>1. size \in Nat /\ Free \in Nat /\ (size < left => size = Free)
      BY SizeWritten
    <3>2. sender' # "waiting"
      BY <2>3 DEF WriteWhatFits
    <3>3. \A v \in Writers \ {w} : pc'[v] # "waiting"
      BY <1>0, <2>3 DEF WriteWhatFits
    <3>4. pc'[w] = "waiting" => size < left
      BY <1>0, <2>3 DEF WriteWhatFits
    <3>5. Len(WriteBuffer') = Len(WriteBuffer) + size
      <4>1. WriteBuffer' = WriteBuffer \o Chunk(w, size)
        BY <2>3 DEF WriteWhatFits
      <4>2. WriteBuffer \in Seq(Bytes)
        BY DEF TypeOK
      <4>3. Chunk(w, size) \in Seq(Bytes) /\ Len(Chunk(w, size)) = size
        BY <3>1, ChunkType
      <4> HIDE DEF size
      <4> QED
        BY <4>1, <4>2, <4>3, ConcatProperties
    <3>6. Len(WriteBuffer) \in Nat
      BY DEF TypeOK
    <3> HIDE DEF size, left
    <3>7. pc'[w] = "waiting" => Len(WriteBuffer') = MaxBufferSize
      BY <3>1, <3>4, <3>5, <3>6 DEF Free
    <3> QED
      BY <3>2, <3>3, <3>7 DEF WritersWoken, IsFull
  <2> QED
    BY <1>6, <2>1, <2>2, <2>3 DEF VWrite
<1>7. CASE UNCHANGED vars
  BY <1>0, <1>7 DEF vars, WritersWoken, IsFull
<1>8. CASE LeaveZWPLoop
  BY <1>0, <1>8 DEF LeaveZWPLoop, WritersWoken, IsFull
<1> QED
  BY <1>1, <1>2, <1>3, <1>4, <1>5, <1>6, <1>7, <1>8 DEF Next, HandleVWrite

\* However many threads wait for room, none sleeps while there is some, and
\* HandleVWrite does not sleep on data (api.go:312, socket.go:315, 340).
THEOREM NobodySleepsInVain == Spec => []WritersWoken
<1>1. Init => WritersWoken
  BY DEF Init, WritersWoken
<1> QED
  BY <1>1, TypeCorrect, NextWritersWoken, PTL DEF Spec

------------------------------------------------------------------------------
(* Who is overtaken *)

\* The last byte of the buffer after a write of something.
LEMMA LastByte ==
    ASSUME TypeOK, NEW w \in Writers, NEW size \in Nat \ {0},
           WriteBuffer' = WriteBuffer \o Chunk(w, size)
    PROVE  WriteBuffer'[Len(WriteBuffer')].by = w
<1>1. WriteBuffer \in Seq(Bytes) /\ Len(WriteBuffer) \in Nat
  BY DEF TypeOK
<1>2. Chunk(w, size) \in Seq(Bytes) /\ Len(Chunk(w, size)) = size
  BY ChunkType
<1>3. Chunk(w, size)[size].by = w
  <2>1. size \in Nat /\ size \in 1 .. size
    OBVIOUS
  <2>2. \A i \in 1 .. size : Chunk(w, size)[i].by = w
    BY DEF Chunk
  <2> QED
    BY <2>1, <2>2
<1>4. Len(WriteBuffer') = Len(WriteBuffer) + size
  BY <1>1, <1>2, ConcatProperties
<1>5. WriteBuffer'[Len(WriteBuffer) + size] = Chunk(w, size)[size]
  <2>1. \A i \in 1 .. Len(WriteBuffer) + Len(Chunk(w, size)) :
          (WriteBuffer \o Chunk(w, size))[i] =
             IF i <= Len(WriteBuffer) THEN WriteBuffer[i] ELSE Chunk(w, size)[i - Len(WriteBuffer)]
    BY <1>1, <1>2, ConcatProperties
  <2>2. /\ Len(WriteBuffer) + size \in 1 .. Len(WriteBuffer) + Len(Chunk(w, size))
        /\ ~(Len(WriteBuffer) + size <= Len(WriteBuffer))
        /\ Len(WriteBuffer) + size - Len(WriteBuffer) = size
    BY <1>1, <1>2
  <2> QED
    BY <2>1, <2>2
<1> QED
  BY <1>3, <1>4, <1>5

LEMMA NextOvertakenOnly ==
    ASSUME TypeOK, OvertakenOnly, [Next]_vars
    PROVE  OvertakenOnly'
<1>0. /\ \A w \in Writers : pc[w] = "woken" /\ IsFull => WriteBuffer[Len(WriteBuffer)].by # w
      /\ pc \in [Writers -> {"idle", "lock", "waiting", "woken", "done", "failed"}]
  BY DEF OvertakenOnly, TypeOK
\* The buffer has room after a read.
<1>1. CASE TakePayload \/ TakeProbe
  <2>1. PICK size \in 1 .. Len(WriteBuffer) : WriteBuffer' = Rest(size)
    BY <1>1, BytesTaken DEF TakeBytes
  <2>2. Len(WriteBuffer) \in Nat /\ Len(WriteBuffer) <= MaxBufferSize
    BY DEF TypeOK
  <2>3. Len(WriteBuffer') = Len(WriteBuffer) - size
    BY <2>1, TakenAndRest
  <2>4. Len(WriteBuffer') # MaxBufferSize
    BY <2>2, <2>3
  <2> QED
    BY <2>4 DEF OvertakenOnly, IsFull
<1>2. CASE WaitNotEmpty
  BY <1>0, <1>2 DEF WaitNotEmpty, OvertakenOnly, IsFull
<1>3. CASE SendFin
  BY <1>0, <1>3 DEF SendFin, OvertakenOnly, IsFull
<1>4. CASE VClose
  BY <1>0, <1>4 DEF VClose, OvertakenOnly, IsFull
<1>5. ASSUME NEW w \in Writers, CallVWrite(w) PROVE OvertakenOnly'
  BY <1>0, <1>5 DEF CallVWrite, OvertakenOnly, IsFull
<1>6. ASSUME NEW w \in Writers, VWrite(w) PROVE OvertakenOnly'
  <2>1. CASE WaitNotFull(w)
    BY <1>0, <2>1 DEF WaitNotFull, OvertakenOnly, IsFull
  <2>2. CASE FailIsFull(w)
    BY <1>0, <2>2 DEF FailIsFull, OvertakenOnly, IsFull
  \* The last byte is of the thread that wrote, and that thread has left or
  \* waits again.
  <2>3. CASE WriteWhatFits(w)
    <3> DEFINE left == ToWrite[w] - written[w]
               size == Smaller(left, Free)
    <3>1. size \in Nat /\ Free \in Nat
      BY SizeWritten
    <3>2. WriteBuffer' = WriteBuffer \o Chunk(w, size) /\ ~IsFull
      BY <2>3 DEF WriteWhatFits
    <3>3. /\ pc'[w] # "woken"
          /\ \A v \in Writers \ {w} : pc'[v] = pc[v]
      BY <1>0, <2>3 DEF WriteWhatFits
    <3> HIDE DEF size, left
    <3>4. CASE size = 0
      <4>1. Chunk(w, size) = <<>>
        <5>1. Chunk(w, size) \in Seq(Bytes) /\ Len(Chunk(w, size)) = 0
          BY <3>1, <3>4, ChunkType
        <5> QED
          BY <5>1, EmptySeq
      <4>2. WriteBuffer' = WriteBuffer
        <5>1. WriteBuffer \in Seq(Bytes)
          BY DEF TypeOK
        <5> QED
          BY <3>2, <4>1, <5>1, ConcatEmptySeq
      <4> QED
        BY <3>2, <4>2 DEF OvertakenOnly, IsFull
    <3>5. CASE size # 0
      <4>1. WriteBuffer'[Len(WriteBuffer')].by = w
        BY <3>1, <3>2, <3>5, LastByte
      <4> QED
        BY <3>3, <4>1 DEF OvertakenOnly
    <3> QED
      BY <3>4, <3>5
  <2> QED
    BY <1>6, <2>1, <2>2, <2>3 DEF VWrite
<1>7. CASE UNCHANGED vars
  BY <1>0, <1>7 DEF vars, OvertakenOnly, IsFull
<1>8. CASE LeaveZWPLoop
  BY <1>0, <1>8 DEF LeaveZWPLoop, OvertakenOnly, IsFull
<1> QED
  BY <1>1, <1>2, <1>3, <1>4, <1>5, <1>6, <1>7, <1>8 DEF Next, HandleVWrite

\* Among any number of threads, one that gets ErrIsFull was overtaken by
\* another: the last byte in the full buffer is not its own (api.go:316-320).
THEOREM OnlyTheOvertakenFail == Spec => []OvertakenOnly
<1>1. Init => OvertakenOnly
  BY DEF Init, OvertakenOnly
<1> QED
  BY <1>1, TypeCorrect, NextOvertakenOnly, PTL DEF Spec

------------------------------------------------------------------------------
(* Each byte once, in the order of its writer *)

LEMMA StreamType ==
    ASSUME TypeOK
    PROVE  /\ Stream \in Seq(Bytes) /\ Len(Stream) \in Nat
           /\ DOMAIN Stream = 1 .. Len(Stream)
           /\ \A i \in DOMAIN Stream : Stream[i].by \in Writers /\ Stream[i].n \in Nat
<1>1. taken \in Seq(Bytes) /\ WriteBuffer \in Seq(Bytes)
  BY DEF TypeOK
<1>2. Stream \in Seq(Bytes)
  BY <1>1, ConcatProperties DEF Stream
<1>3. Len(Stream) \in Nat /\ DOMAIN Stream = 1 .. Len(Stream)
  BY <1>2
<1>4. \A i \in 1 .. Len(Stream) : Stream[i] \in Bytes
  BY <1>2, ElementOfSeq
<1>5. \A b \in Bytes : b.by \in Writers /\ b.n \in Nat
  BY DEF Bytes
<1> QED
  BY <1>2, <1>3, <1>4, <1>5

\* The stream with a chunk of w behind it.
LEMMA StreamGrows ==
    ASSUME TypeOK, NEW w \in Writers, NEW size \in Nat,
           Stream' = Stream \o Chunk(w, size)
    PROVE  /\ DOMAIN Stream' = 1 .. Len(Stream) + size
           /\ \A i \in DOMAIN Stream : Stream'[i] = Stream[i]
           /\ \A i \in 1 .. size :
                Stream'[Len(Stream) + i] = [by |-> w, n |-> written[w] + i]
<1>1. Stream \in Seq(Bytes) /\ Len(Stream) \in Nat /\ DOMAIN Stream = 1 .. Len(Stream)
  BY StreamType
<1>2. /\ Chunk(w, size) \in Seq(Bytes) /\ Len(Chunk(w, size)) = size
      /\ \A i \in 1 .. size : Chunk(w, size)[i] = [by |-> w, n |-> written[w] + i]
  BY ChunkType
<1>3. /\ Stream' \in Seq(Bytes) /\ Len(Stream') = Len(Stream) + size
      /\ \A i \in 1 .. Len(Stream) + size :
           Stream'[i] = IF i <= Len(Stream) THEN Stream[i] ELSE Chunk(w, size)[i - Len(Stream)]
  <2> DEFINE c == Chunk(w, size)
  <2>1. c \in Seq(Bytes) /\ Len(c) = size /\ Stream' = Stream \o c
    BY <1>2
  <2> HIDE DEF c
  <2>2. /\ Stream \o c \in Seq(Bytes) /\ Len(Stream \o c) = Len(Stream) + Len(c)
        /\ \A i \in 1 .. Len(Stream) + Len(c) :
             (Stream \o c)[i] = IF i <= Len(Stream) THEN Stream[i] ELSE c[i - Len(Stream)]
    BY <1>1, <2>1, ConcatProperties
  <2> QED
    BY <2>1, <2>2 DEF c
<1>4. DOMAIN Stream' = 1 .. Len(Stream) + size
  BY <1>3
<1>5. \A i \in DOMAIN Stream : Stream'[i] = Stream[i]
  BY <1>1, <1>3
<1>6. ASSUME NEW i \in 1 .. size
      PROVE  Stream'[Len(Stream) + i] = [by |-> w, n |-> written[w] + i]
  <2>1. /\ Len(Stream) + i \in 1 .. Len(Stream) + size
        /\ ~(Len(Stream) + i <= Len(Stream))
        /\ (Len(Stream) + i) - Len(Stream) = i
    BY <1>1
  <2> QED
    BY <1>2, <1>3, <2>1
<1> QED
  BY <1>4, <1>5, <1>6

LEMMA ChunkInOrder ==
    ASSUME TypeOK, EachInOrder, NEW w \in Writers, NEW size \in Nat,
           Stream' = Stream \o Chunk(w, size),
           written' = [written EXCEPT ![w] = @ + size]
    PROVE  EachInOrder'
<1>1. /\ Len(Stream) \in Nat /\ DOMAIN Stream = 1 .. Len(Stream)
      /\ \A i \in DOMAIN Stream : Stream[i].by \in Writers /\ Stream[i].n \in Nat
  BY StreamType
<1>2. /\ DOMAIN Stream' = 1 .. Len(Stream) + size
      /\ \A i \in DOMAIN Stream : Stream'[i] = Stream[i]
      /\ \A i \in 1 .. size :
           Stream'[Len(Stream) + i] = [by |-> w, n |-> written[w] + i]
  BY StreamGrows
<1>3. /\ \A i \in DOMAIN Stream : Stream[i].n \in 1 .. written[Stream[i].by]
      /\ \A i, j \in DOMAIN Stream :
           i < j /\ Stream[i].by = Stream[j].by => Stream[i].n < Stream[j].n
      /\ \A v \in Writers : \A n \in 1 .. written[v] :
           \E i \in DOMAIN Stream : Stream[i] = [by |-> v, n |-> n]
  BY DEF EachInOrder
<1>4. /\ \A v \in Writers : written[v] \in Nat
      /\ \A v \in Writers : written'[v] = IF v = w THEN written[w] + size ELSE written[v]
  BY DEF TypeOK
<1> HIDE DEF Stream
\* A place of the new stream is one of the old, or of the chunk.
<1>5. \A i \in DOMAIN Stream' :
        \/ i \in DOMAIN Stream /\ Stream'[i] = Stream[i]
        \/ /\ i \notin DOMAIN Stream /\ i - Len(Stream) \in 1 .. size
           /\ Stream'[i].by = w /\ Stream'[i].n = written[w] + (i - Len(Stream))
  <2> TAKE i \in DOMAIN Stream'
  <2>1. CASE i \in DOMAIN Stream
    BY <1>2, <2>1
  <2>2. CASE i \notin DOMAIN Stream
    <3>1. i - Len(Stream) \in 1 .. size /\ Len(Stream) + (i - Len(Stream)) = i
      BY <1>1, <1>2, <2>2
    <3>2. Stream'[i] = [by |-> w, n |-> written[w] + (i - Len(Stream))]
      BY <1>2, <3>1
    <3> QED
      BY <2>2, <3>1, <3>2
  <2> QED
    BY <2>1, <2>2
<1>6. ASSUME NEW i \in DOMAIN Stream'
      PROVE  Stream'[i].n \in 1 .. written'[Stream'[i].by]
  <2>1. CASE i \in DOMAIN Stream /\ Stream'[i] = Stream[i]
    BY <1>1, <1>3, <1>4, <2>1
  <2>2. CASE /\ i \notin DOMAIN Stream /\ i - Len(Stream) \in 1 .. size
             /\ Stream'[i].by = w /\ Stream'[i].n = written[w] + (i - Len(Stream))
    BY <1>1, <1>4, <2>2
  <2> QED
    BY <1>5, <2>1, <2>2
<1>7. ASSUME NEW i \in DOMAIN Stream', NEW j \in DOMAIN Stream',
             i < j, Stream'[i].by = Stream'[j].by
      PROVE  Stream'[i].n < Stream'[j].n
  <2>1. CASE j \in DOMAIN Stream
    <3>1. i \in DOMAIN Stream
      BY <1>1, <1>2, <1>7, <2>1
    <3> QED
      BY <1>2, <1>3, <1>7, <2>1, <3>1
  <2>2. CASE j \notin DOMAIN Stream
    <3>1. /\ j - Len(Stream) \in 1 .. size
          /\ Stream'[j].by = w /\ Stream'[j].n = written[w] + (j - Len(Stream))
      BY <1>5, <2>2
    <3>2. CASE i \in DOMAIN Stream /\ Stream'[i] = Stream[i]
      BY <1>1, <1>3, <1>4, <1>7, <3>1, <3>2, SMTT(30)
    <3>3. CASE /\ i - Len(Stream) \in 1 .. size
               /\ Stream'[i].n = written[w] + (i - Len(Stream))
      BY <1>1, <1>2, <1>4, <1>7, <3>1, <3>3
    <3> QED
      BY <1>5, <3>2, <3>3
  <2> QED
    BY <2>1, <2>2
<1>8. ASSUME NEW v \in Writers, NEW n \in 1 .. written'[v]
      PROVE  \E i \in DOMAIN Stream' : Stream'[i] = [by |-> v, n |-> n]
  <2>1. CASE n <= written[v]
    <3>1. n \in 1 .. written[v]
      BY <1>4, <2>1
    <3>2. PICK i \in DOMAIN Stream : Stream[i] = [by |-> v, n |-> n]
      BY <1>3, <3>1
    <3>3. i \in DOMAIN Stream'
      BY <1>1, <1>2
    <3> QED
      BY <1>2, <3>2, <3>3
  <2>2. CASE ~(n <= written[v])
    <3>1. v = w /\ n - written[w] \in 1 .. size
      BY <1>4, <2>2
    <3>2. /\ Len(Stream) + (n - written[w]) \in DOMAIN Stream'
          /\ written[w] + (n - written[w]) = n
      BY <1>1, <1>2, <1>4, <3>1
    <3> QED
      BY <1>2, <3>1, <3>2
  <2> QED
    BY <2>1, <2>2
<1> QED
  BY <1>6, <1>7, <1>8 DEF EachInOrder

LEMMA NextEachInOrder ==
    ASSUME TypeOK, EachInOrder, [Next]_vars
    PROVE  EachInOrder'
<1>0. taken \in Seq(Bytes) /\ WriteBuffer \in Seq(Bytes)
  BY DEF TypeOK
\* Where nothing is written, the stream is as it was.
<1> DEFINE Same == Stream' = Stream /\ written' = written
<1>s. ASSUME Same PROVE EachInOrder'
  BY <1>s DEF EachInOrder
<1>1. CASE TakePayload \/ TakeProbe
  <2>1. PICK size \in 1 .. Len(WriteBuffer) :
          /\ taken' = taken \o SubSeq(WriteBuffer, 1, size)
          /\ WriteBuffer' = Rest(size)
          /\ written' = written
    BY <1>1, BytesTaken DEF TakeBytes
  <2>2. /\ SubSeq(WriteBuffer, 1, size) \in Seq(Bytes) /\ Rest(size) \in Seq(Bytes)
        /\ SubSeq(WriteBuffer, 1, size) \o Rest(size) = WriteBuffer
    BY TakenAndRest
  <2>3. Stream' = taken \o (SubSeq(WriteBuffer, 1, size) \o Rest(size))
    <3> DEFINE first == SubSeq(WriteBuffer, 1, size)
               rest == Rest(size)
    <3>1. Stream' = (taken \o first) \o rest
      BY <2>1 DEF Stream
    <3>2. taken \in Seq(Bytes) /\ first \in Seq(Bytes) /\ rest \in Seq(Bytes)
      BY <1>0, <2>2
    <3> HIDE DEF first, rest
    <3>3. (taken \o first) \o rest = taken \o (first \o rest)
      BY ONLY <3>2, ConcatAssociative
    <3> QED BY <3>1, <3>3 DEF first, rest
  <2>4. Stream' = Stream
    BY <2>2, <2>3 DEF Stream
  <2> QED
    BY <1>s, <2>1, <2>4
<1>2. CASE WaitNotEmpty
  BY <1>2, <1>s DEF WaitNotEmpty, Stream
<1>3. CASE SendFin
  BY <1>3, <1>s DEF SendFin, Stream
<1>4. CASE VClose
  BY <1>4, <1>s DEF VClose, Stream
<1>5. ASSUME NEW w \in Writers, CallVWrite(w) PROVE EachInOrder'
  BY <1>5, <1>s DEF CallVWrite, Stream
<1>6. ASSUME NEW w \in Writers, VWrite(w) PROVE EachInOrder'
  <2>1. CASE WaitNotFull(w)
    BY <2>1, <1>s DEF WaitNotFull, Stream
  <2>2. CASE FailIsFull(w)
    BY <2>2, <1>s DEF FailIsFull, Stream
  <2>3. CASE WriteWhatFits(w)
    <3> DEFINE size == Smaller(ToWrite[w] - written[w], Free)
    <3>1. size \in Nat
      BY SizeWritten
    <3>2. /\ WriteBuffer' = WriteBuffer \o Chunk(w, size) /\ taken' = taken
          /\ written' = [written EXCEPT ![w] = @ + size]
      BY <2>3 DEF WriteWhatFits
    <3> HIDE DEF size
    <3>3. Chunk(w, size) \in Seq(Bytes)
      BY <3>1, ChunkType
    <3>4. (taken \o WriteBuffer) \o Chunk(w, size) = taken \o (WriteBuffer \o Chunk(w, size))
      BY <1>0, <3>3, ConcatAssociative
    <3>5. Stream' = Stream \o Chunk(w, size)
      BY <3>2, <3>4 DEF Stream
    <3> QED
      BY <3>1, <3>2, <3>5, ChunkInOrder
  <2> QED
    BY <1>6, <2>1, <2>2, <2>3 DEF VWrite
<1>7. CASE UNCHANGED vars
  BY <1>7, <1>s DEF vars, Stream
<1>8. CASE LeaveZWPLoop
  BY <1>8, <1>s DEF LeaveZWPLoop, Stream
<1> QED
  BY <1>1, <1>2, <1>3, <1>4, <1>5, <1>6, <1>7, <1>8 DEF Next, HandleVWrite

\* The threads share WriteBuffer and take turns in the middle of their data,
\* and still what each has written is in the stream, once and in its order
\* (api.go:311-326).
THEOREM EachWriterInOrder == Spec => []EachInOrder
<1>1. ASSUME Init PROVE EachInOrder
  <2>1. Stream = <<>> /\ \A w \in Writers : written[w] = 0
    BY <1>1, EmptySeq, ConcatEmptySeq DEF Init, Stream
  <2>2. DOMAIN Stream = {} /\ \A w \in Writers : 1 .. written[w] = {}
    BY <2>1
  <2> QED
    BY <2>2 DEF EachInOrder
<1> QED
  BY <1>1, TypeCorrect, NextEachInOrder, PTL DEF Spec
==============================================================================
