---------------------------- MODULE TcpConnection ----------------------------
(***************************************************************************)
(* A connection: the sending and the receiving half of the sockets of both *)
(* ends, the closing of a connection (VClose in api.go, TimeWait in        *)
(* socket.go) and the network between them.                                *)
(***************************************************************************)
EXTENDS TcpSend, TcpReceive

------------------------------------------------------------------------------
(* VClose *)

\* The cl command, at any moment, and with it the moments at which sf and rf
\* close.  The switch on ConnState: ESTABLISHED and CLOSE_WAIT go on, to the
\* assignment and to the broadcast; the other states return an error.
CallVClose(e) ==
    /\ closer[e] = "idle"
    /\ e \in Closing
    /\ closer' = [closer EXCEPT ![e] =
         CASE ~sock[e].InTable -> "done"
           [] sock[e].InTable /\ sock[e].ConnState = "ESTABLISHED" -> "finWait1"
           [] sock[e].InTable /\ sock[e].ConnState = "CLOSE_WAIT" -> "wakeLast"
           [] OTHER -> "done"]
    /\ UNCHANGED <<sock, snd, WriteBuffer, rtq, rcv, handler, vwrite, rt,
                   writer, reader, net, faults>>

\* case ESTABLISHED: the state read may no longer hold.  If a FIN has made it
\* CLOSE_WAIT since, either assignment may have been the last one, for
\* HandleTCPPacket reads and assigns ConnState just as separately.
AssignFinWait1(e) ==
    /\ closer[e] = "finWait1"
    /\ \E state \in {"FIN_WAIT_1", sock[e].ConnState} :
         /\ state \in {"FIN_WAIT_1", "CLOSE_WAIT"}
         /\ sock' = [sock EXCEPT ![e].ConnState = state]
    /\ closer' = [closer EXCEPT ![e] = "wake"]
    /\ UNCHANGED <<snd, WriteBuffer, rtq, rcv, handler, vwrite, rt, writer,
                   reader, net, faults>>

\* WriteNotEmpty.Broadcast, without WriteLock.  In case CLOSE_WAIT the
\* assignment is still to come.
WakeHandleVWrite(e) ==
    /\ closer[e] \in {"wake", "wakeLast"}
    /\ vwrite' = WokenVWrite(e)
    /\ closer' = [closer EXCEPT ![e] = IF @ = "wake" THEN "done" ELSE "lastAck"]
    /\ UNCHANGED <<sock, snd, WriteBuffer, rtq, rcv, handler, rt, writer,
                   reader, net, faults>>

AssignLastAck(e) ==
    /\ closer[e] = "lastAck"
    /\ sock' = [sock EXCEPT ![e].ConnState = "LAST_ACK"]
    /\ closer' = [closer EXCEPT ![e] = "done"]
    /\ UNCHANGED <<snd, WriteBuffer, rtq, rcv, handler, vwrite, rt, writer,
                   reader, net, faults>>

VClose(e) ==
    \/ CallVClose(e) \/ AssignFinWait1(e) \/ WakeHandleVWrite(e)
    \/ AssignLastAck(e)

\* Mutant: FIN_WAIT_2 is taken for the end as well.
TimeWaitInFinWait2(e) ==
    /\ sock[e].ConnState \in {"FIN_WAIT_2", "TIME_WAIT"}
    /\ sock[e].InTable
    /\ sock' = [sock EXCEPT ![e].InTable = FALSE]
    /\ UNCHANGED <<snd, WriteBuffer, rtq, rcv, handler, vwrite, rt, writer,
                   reader, closer, net, faults>>

\* Goroutine TimeWait: MSL after TIME_WAIT was entered the socket leaves the
\* table.  Neither ConnState nor IsClosed changes.
TimeWait(e) ==
    /\ sock[e].ConnState = "TIME_WAIT"
    /\ sock[e].InTable
    /\ sock' = [sock EXCEPT ![e].InTable = FALSE]
    /\ UNCHANGED <<snd, WriteBuffer, rtq, rcv, handler, vwrite, rt, writer,
                   reader, closer, net, faults>>

------------------------------------------------------------------------------
(* The network *)

\* TcpHandler finds no socket for the packet, and a listener's VAccept refuses
\* what is no SYN.
Discard(e) ==
    /\ ~sock[e].InTable
    /\ net[e] # <<>>
    /\ net' = [net EXCEPT ![e] = Tail(@)]
    /\ UNCHANGED <<sock, snd, WriteBuffer, rtq, rcv, handler, vwrite, rt,
                   writer, reader, closer, faults>>

Lose(e) ==
    /\ faults.loss < MaxLoss
    /\ net[e] # <<>>
    /\ net' = [net EXCEPT ![e] = Tail(@)]
    /\ faults' = [faults EXCEPT !.loss = @ + 1]
    /\ UNCHANGED <<sock, snd, WriteBuffer, rtq, rcv, handler, vwrite, rt,
                   writer, reader, closer>>

------------------------------------------------------------------------------
Application(e) == CallVWrite(e) \/ VWrite(e) \/ VRead(e) \/ VClose(e)

Next ==
    \E e \in Ends :
        \/ HandleVWrite(e) \/ HandleRT(e) \/ HandleTCPPacket(e)
        \/ Application(e) \/ TimeWait(e)
        \/ Discard(e) \/ Lose(e)

Spec == Init /\ [][Next]_vars

\* The Go scheduler runs every goroutine that can go on, a mutex wakes its
\* waiters in turn, time.Sleep ends and a timer that was started expires.  An
\* application that begins a call goes through with it, but need never call
\* VClose.  A packet that is not lost arrives.
Fairness ==
    \A e \in Ends :
        /\ WF_vars(HandleVWrite(e))
        /\ WF_vars(HandleRT(e))
        /\ WF_vars(HandleTCPPacket(e))
        /\ WF_vars(CallVWrite(e) \/ VWrite(e))
        /\ WF_vars(VRead(e))
        /\ WF_vars(AssignFinWait1(e) \/ WakeHandleVWrite(e) \/ AssignLastAck(e))
        /\ WF_vars(TimeWait(e))
        /\ WF_vars(Discard(e))

FairSpec == Spec /\ Fairness
==============================================================================
