-------------------------------- MODULE MCTcp --------------------------------
(* The constants TLC checks TcpProperties with.  Client and Server are model *)
(* values; the runs differ in the workload and the faults their cfg selects. *)
EXTENDS TcpProperties

\* InitSeqNum is random in the code.  The Client's is larger than the stream,
\* as a random uint32 nearly always is; one run takes numbers so near the end
\* of the sequence space that the connection passes it.
MCInitSeqNum == (Client :> 20) @@ (Server :> 10)
LastSeqNums == (Client :> 62) @@ (Server :> 63)
MCSeqSpace == 64

ClientWrites1 == (Client :> 1) @@ (Server :> 0)
ClientWrites2 == (Client :> 2) @@ (Server :> 0)
ClientWrites4 == (Client :> 4) @@ (Server :> 0)
ServerWrites2 == (Client :> 0) @@ (Server :> 2)

ServerOnly == {Server}
ClientOnly == {Client}
Both == Ends
Nobody == {}
==============================================================================
