------------------------------ MODULE SendBuffer ------------------------------
(***************************************************************************)
(* Several threads in VWrite on one socket, as sf's thread and the s       *)
(* command of the command line (api.go, cli.go), against the goroutine     *)
(* HandleVWrite (socket.go) that empties WriteBuffer, and a VClose at any  *)
(* moment.  TcpSend has one writer and all else that HandleVWrite does;    *)
(* here only what happens under WriteLock matters, and that HandleVWrite   *)
(* does not come back to it while the window of the peer is closed.        *)
(*                                                                         *)
(* WriteLock is given up only in Wait and on return: an action is what a   *)
(* thread does from taking the lock to giving it up.                       *)
(***************************************************************************)
EXTENDS Integers, Sequences

CONSTANTS
    Writers,       \* threads, each with one call of VWrite
    ToWrite,       \* ToWrite[w]: len(data) of w's call
    MaxBufferSize  \* capacity of WriteBuffer

ASSUME SendBufferAssumption ==
    /\ MaxBufferSize \in Nat \ {0}
    /\ ToWrite \in [Writers -> Nat \ {0}]

VARIABLES
    WriteBuffer,  \* the bytes between VWrite and HandleVWrite
    taken,        \* the bytes HandleVWrite has read from it
    pc,           \* [writer]
    written,      \* [writer]: numBytesWritten
    sender,       \* where HandleVWrite stands
    closing       \* ConnState is past ESTABLISHED

vars == <<WriteBuffer, taken, pc, written, sender, closing>>

Bytes == [by : Writers, n : Nat]

\* All that has entered WriteBuffer, in order.
Stream == taken \o WriteBuffer

\* Mutant: one byte too many.
FreeAndOne == MaxBufferSize - Len(WriteBuffer) + 1

IsFull == Len(WriteBuffer) = MaxBufferSize
Free == MaxBufferSize - Len(WriteBuffer)
Smaller(x, y) == IF x <= y THEN x ELSE y

Init ==
    /\ WriteBuffer = <<>>
    /\ taken = <<>>
    /\ pc = [w \in Writers |-> "idle"]
    /\ written = [w \in Writers |-> 0]
    /\ sender = "lock"
    /\ closing = FALSE

------------------------------------------------------------------------------
(* VWrite *)

CallVWrite(w) ==
    /\ pc[w] = "idle"
    /\ pc' = [pc EXCEPT ![w] = IF closing THEN "failed" ELSE "lock"]
    /\ UNCHANGED <<WriteBuffer, taken, written, sender, closing>>

\* Mutant: each pass of the loop writes data from its beginning.
ChunkFromStart(w, size) == [i \in 1 .. size |-> [by |-> w, n |-> i]]

\* data[numBytesWritten:], as far as it fits.
Chunk(w, size) == [i \in 1 .. size |-> [by |-> w, n |-> written[w] + i]]

\* WriteBuffer.Write and the broadcast on WriteNotEmpty; what is left has
\* filled the buffer, and the next pass of the loop waits.
WriteWhatFits(w) ==
    LET left == ToWrite[w] - written[w]
        size == Smaller(left, Free)
    IN
    /\ ~IsFull
    /\ WriteBuffer' = WriteBuffer \o Chunk(w, size)
    /\ written' = [written EXCEPT ![w] = @ + size]
    /\ pc' = [pc EXCEPT ![w] = IF size < left THEN "waiting" ELSE "done"]
    /\ sender' = IF sender = "waiting" THEN "lock" ELSE sender
    /\ UNCHANGED <<taken, closing>>

\* WriteNotFull.Wait
WaitNotFull(w) ==
    /\ pc[w] = "lock"
    /\ IsFull
    /\ pc' = [pc EXCEPT ![w] = "waiting"]
    /\ UNCHANGED <<WriteBuffer, taken, written, sender, closing>>

\* A thread that was woken does not test IsFull again: ErrIsFull ends VWrite.
FailIsFull(w) ==
    /\ pc[w] = "woken"
    /\ IsFull
    /\ pc' = [pc EXCEPT ![w] = "failed"]
    /\ UNCHANGED <<WriteBuffer, taken, written, sender, closing>>

VWrite(w) ==
    \/ WaitNotFull(w) \/ FailIsFull(w)
    \/ pc[w] \in {"lock", "woken"} /\ WriteWhatFits(w)

------------------------------------------------------------------------------
(* HandleVWrite *)

\* Mutants: Signal instead of Broadcast, or neither; the bytes taken are not
\* removed.
WokenBySignal ==
    IF \E w \in Writers : pc[w] = "waiting"
    THEN [pc EXCEPT ![CHOOSE w \in Writers : pc[w] = "waiting"] = "woken"]
    ELSE pc
WokenNot == pc
RestWhole(size) == WriteBuffer

\* WriteNotFull.Broadcast
Woken == [w \in Writers |-> IF pc[w] = "waiting" THEN "woken" ELSE pc[w]]

Rest(size) == SubSeq(WriteBuffer, size + 1, Len(WriteBuffer))

TakeBytes(size) ==
    /\ taken' = taken \o SubSeq(WriteBuffer, 1, size)
    /\ WriteBuffer' = Rest(size)
    /\ pc' = Woken
    /\ UNCHANGED <<written, closing>>

\* As much as the window of the peer allows, which may be anything.
TakePayload ==
    /\ sender = "lock"
    /\ \E size \in 1 .. Len(WriteBuffer) : TakeBytes(size)
    /\ UNCHANGED sender

\* The window is closed: the byte of the probe, which ZWPLoop sends until it is
\* told to stop.
TakeProbe ==
    /\ sender = "lock"
    /\ WriteBuffer # <<>>
    /\ TakeBytes(1)
    /\ sender' = "ZWPLoop"

\* case <-ZWPStop: the peer has read, and its ACK was handled.
LeaveZWPLoop ==
    /\ sender = "ZWPLoop"
    /\ sender' = "lock"
    /\ UNCHANGED <<WriteBuffer, taken, pc, written, closing>>

\* WriteNotEmpty.Wait
WaitNotEmpty ==
    /\ sender = "lock"
    /\ WriteBuffer = <<>>
    /\ ~closing
    /\ sender' = "waiting"
    /\ UNCHANGED <<WriteBuffer, taken, pc, written, closing>>

\* Mutant: whatever the buffer holds.
SendFinAtOnce ==
    /\ sender = "lock"
    /\ closing
    /\ sender' = "ended"
    /\ UNCHANGED <<WriteBuffer, taken, pc, written, closing>>

\* SendFinPacket, as soon as the buffer is empty, whoever is still in VWrite.
SendFin ==
    /\ sender = "lock"
    /\ WriteBuffer = <<>>
    /\ closing
    /\ sender' = "ended"
    /\ UNCHANGED <<WriteBuffer, taken, pc, written, closing>>

HandleVWrite == TakePayload \/ TakeProbe \/ WaitNotEmpty \/ SendFin

\* VClose assigns ConnState and broadcasts without WriteLock, so that the
\* wakeup may come before the Wait (module TcpSend has the steps); the FIN of
\* the peer assigns it and does not broadcast.
VClose ==
    /\ ~closing
    /\ closing' = TRUE
    /\ sender' \in {sender, IF sender = "waiting" THEN "lock" ELSE sender}
    /\ UNCHANGED <<WriteBuffer, taken, pc, written>>

------------------------------------------------------------------------------
Next ==
    \/ HandleVWrite \/ LeaveZWPLoop \/ VClose
    \/ \E w \in Writers : CallVWrite(w) \/ VWrite(w)

Spec == Init /\ [][Next]_vars

\* WriteLock is handed to every thread that waits for it.  Nothing says that
\* HandleVWrite leaves ZWPLoop: that is up to the peer.
Fairness == WF_vars(HandleVWrite) /\ \A w \in Writers : WF_vars(VWrite(w))

FairSpec == Spec /\ Fairness

------------------------------------------------------------------------------
(* What must hold *)

\* The buffer keeps its capacity, every thread is at one of its control
\* points, and no call hands over more than its data.
TypeOK ==
    /\ WriteBuffer \in Seq(Bytes) /\ Len(WriteBuffer) <= MaxBufferSize
    /\ taken \in Seq(Bytes)
    /\ pc \in [Writers -> {"idle", "lock", "waiting", "woken", "done", "failed"}]
    /\ written \in [Writers -> Nat]
    /\ \A w \in Writers : written[w] <= ToWrite[w]
    /\ sender \in {"lock", "waiting", "ZWPLoop", "ended"}
    /\ closing \in BOOLEAN

\* No thread sleeps on a buffer with room, however many do, and HandleVWrite
\* never on one with data (api.go:312, 323, socket.go:315, 340).
WritersWoken ==
    /\ \A w \in Writers : pc[w] = "waiting" => IsFull
    /\ sender = "waiting" => WriteBuffer = <<>>

\* What VWrite counts as written is in the stream once, and the bytes of a
\* writer come in their order, whatever the others put between them.
EachInOrder ==
    /\ \A i \in DOMAIN Stream : Stream[i].n \in 1 .. written[Stream[i].by]
    /\ \A i, j \in DOMAIN Stream :
         i < j /\ Stream[i].by = Stream[j].by => Stream[i].n < Stream[j].n
    /\ \A w \in Writers : \A n \in 1 .. written[w] :
         \E i \in DOMAIN Stream : Stream[i] = [by |-> w, n |-> n]

\* VWrite fails with ErrIsFull (api.go:316-320) only because another thread has
\* filled the buffer after the broadcast: one writer alone never sees it.
OvertakenOnly ==
    \A w \in Writers :
        pc[w] = "woken" /\ IsFull => WriteBuffer[Len(WriteBuffer)].by # w

\* The peer opens its window each time it is closed, and the ZWPStop that
\* follows (socket.go:148) reaches HandleVWrite: the application there reads,
\* and ACKs get through.
PeerOpensWindow == []<>(sender # "ZWPLoop")

\* "Queue this until all preceding SENDs have been segmentized, then form a
\* FIN" (api.go:360): what VWrite accepted before VClose is taken from the
\* buffer, however many threads write meanwhile, if the peer opens its window.
PrecedingSendsTaken ==
    PeerOpensWindow =>
        \A w \in Writers : \A n \in 1 .. ToWrite[w] :
            ~closing /\ written[w] >= n
                ~> \E i \in DOMAIN taken : taken[i] = [by |-> w, n |-> n]

\* While nobody closes and the peer opens its window, a call of VWrite returns,
\* with all of its data written or with ErrIsFull (api.go:309-327).
VWriteReturns ==
    PeerOpensWindow =>
        \A w \in Writers : pc[w] = "lock" ~> pc[w] \in {"done", "failed"} \/ closing
==============================================================================
