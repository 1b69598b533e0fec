# A TLA+ development of the TCP/IP stack

The repository is a user-space TCP/IP stack in Go: `vhost` and `vrouter`
processes stand for the hosts and routers of a virtual network, every interface
is a UDP socket, routers exchange routes with RIP, hosts offer a socket API over
TCP. This directory holds TLA+ modules translated from that code, TLC runs that
check them on small instances, and proofs that TLAPS checks for every instance.

Paths below are relative to the repository: `socket.go`, `api.go`, `tcp.go`,
`types.go`, `queue.go`, `utils.go` are in `pkg/tcp/`, `rip.go` in `pkg/rip/`,
`network.go` in `pkg/network/`, `link.go` in `pkg/link/`, `protocol.go` in
`pkg/protocol/`, `lnxconfig.go` in `pkg/lnxconfig/`, `cli.go` in `pkg/cli/`.

1. Inventory: the system's parts
2. Modules, and how they correspond to the code
3. Runs: what is checked, with which bounds
4. Fairness
5. Proofs
6. Disagreements with the source
7. What is not modelled
8. Plan

## 1. Inventory

### Goroutines and what they share

| goroutine | code | works on |
|---|---|---|
| one reader per interface | `link.go` `ReceivePacket` | UDP socket, `PacketChannel` (capacity 1) |
| the packet loop, one per node | `cmd/*/main.go`, `network.go` `HandlePacket` | forwarding table; calls `TcpHandler` or `RIPHandler` |
| the command line, one per node | `cli.go` | everything; starts threads for `c`, `a`, `sf`, `rf` |
| `PeriodicUpdate`, `PeriodicExpiry`, one each per router | `rip.go` | forwarding table |
| `VAccept` loop per listener, `VConnect` per connect | `api.go` | `SocketTable`, `ListenersTable`, one socket |
| `HandleConn` per connection | `socket.go` | takes segments from the socket's `PacketChannel`, runs `HandleTCPPacket` |
| `HandleVWrite` per connection | `socket.go` | cuts `WriteBuffer` into segments, probes, sends the FIN |
| `HandleRT` per connection | `socket.go` | resends the head of `RTQueue` when `RTTimer` expires |
| `TimeWait` per closing connection | `socket.go` | removes the socket from `SocketTable` |
| application threads in `VRead`, `VWrite`, `VClose` (of `sf`, `rf`, and of the command line for `s`, `r`, `cl`) | `api.go` | `ReadBuffer`, `WriteBuffer`, `ConnState` |

Four condition variables (`WriteNotEmpty`, `WriteNotFull`, `ReadBufferNotEmpty`,
`RTQueueNotEmpty`), three mutexes per socket (`WriteLock`, `ReadLock`,
`RTQueueLock`; `SocketLock` is taken by one goroutine only), and the unbuffered
channels `PacketChannel`, `ZWPStop`, `CloseSocket`, `StopFlag` tie them together.
Many fields (`ConnState`, `ZWPMode`, `RemoteWindowSize`, `NextSequenceNumber`)
are read and written without any lock.

### Components

| component | state | operations | what is hard | correct when |
|---|---|---|---|---|
| TCP sending | `WriteBuffer`, `NumberBytesSent`, `RemoteWindowSize`, `ZWPMode`, `ZWPSeq` | `VWrite`, `HandleVWrite`, `SendFinPacket` | stale reads between locks; the probe outside `RTQueue`; failing `SendIP` | no byte lost, the byte count of `RTQueue` right, no wakeup lost |
| retransmission | `RTQueue`, `BytesInFlight`, `OngoingRTTimer`, `RTTimer` | `HandleRT`, purge in `HandleTCPPacket` | ACK racing the timer; ACK racing the enqueue | queue in sequence and unacknowledged |
| TCP receiving | `NextExpectedByte`, `ReadBuffer`, `EarlyArrivalQueue` | `HandleTCPPacket`, `WriteSegment`, `VRead` | reordering, duplicates, a full buffer | the stream, once and in order |
| teardown | `ConnState`, `IsClosed`, `SocketTable` | `VClose`, FIN cases, `TimeWait` | both ends closing at any moment, `ConnState` without lock | FIN only behind the data, entry kept until both have closed |
| establishment | `SocketTable`, `ListenersTable`, `UsedPorts` | `VListen`, `VAccept`, `VConnect`, `VClose`, `TcpHandler` | one packet loop over unbuffered channels; stale packets of earlier attempts | ends established in pairs, with each other's numbers, and found in the table |
| RIP | `FwdTable`, `RIPNeighbors` | `RIPHandler`, `SendRIPResponseSafe`, `PeriodicUpdate`, `PeriodicExpiry`, `InitialRIP` | loss, late responses, links that fail and return | tables settle on the shortest routes; no two-router loop in a line |
| network layer | `FwdTable`, `Handlers`, interface state | `HandlePacket`, `SendPacketToDestIP`, `UpdateInterfaceState` | match in map order; two lookups with the lock given back between them; tables that change under a packet; TTL | a packet goes where the configuration says, does not come back, and is not dropped where the tables have settled |
| link layer | interfaces, neighbours, UDP sockets | `ReceivePacket`, `UpdateInterfaceState` | copies of the interface state | - (I/O) |
| protocol stack | the two layers, handlers | `Initialize`, `SendIP`, `RegisterRecvHandler` | handlers used before they are ready | - |
| command line | - | `c a s r cl sf rf ls li ln lr up down send` | `sf`/`rf` after a failed connect | commands return |
| configuration | `IPConfig` | `ParseConfig`, `Initialize`, `ParseLnxConfigToIpInterfaces` | lines in any order and with mistakes; static routes | the node does what the file says |
| printer, main programs, utilities | - | - | order of the start | - |

How they interact: `HandlePacket` calls `TcpHandler` or `RIPHandler` in the
packet loop; `TcpHandler` hands the packet to `VAccept`, `VConnect` or
`HandleConn` and waits until it is taken, so that one socket nobody receives for
stops the node. TCP and RIP send through `SendPacketToDestIP`, which looks the
route up in the table RIP maintains. RIP and TCP never run in the same process:
routers register RIP, hosts register TCP.

`PROJECT.json` lists every component, with what is left out of it, and every
hazard with the line where it bites and the properties that would catch it.

## 2. Modules

    ByteStream                        what a connection promises, one direction
    TcpSocket                         state, packets, locks, Init, types
      TcpSend      TcpReceive         VWrite, HandleVWrite, HandleRT / HandleTCPPacket, VRead
        TcpConnection                 VClose, TimeWait, the network; Next, fairness
          TcpProperties               what must hold; refinement of ByteStream
            MCTcp                     constants for TLC
            TcpConnection_proofs      type invariant; FINs and deletion
              TcpWakeup_proofs        no lost wakeup
              TcpStream_proofs        numbers, the stream, the step of the refinement
                TcpRetransmission_proofs  RTQueue and its bytes, the send window,
                                          no byte lost
    SendBuffer     MCSendBuffer       several threads in VWrite on one socket
      SendBuffer_proofs               its safety, for any number of threads
    TcpHandshake   MCHandshake        tables, VListen, VAccept, VConnect, cl
      TcpHandshake_proofs             types, the table, ends that agree
    Forwarding                        the lookups in a forwarding table
    Rip            MCRip              forwarding tables of a network of routers
      IpForward    MCIpForward        a packet on its way while they change
        Rip_proofs                    both: routes in every network, routes and
                                      packets where it is a tree
    LnxConfig      MCLnxConfig        from a configuration file to a node, and what
                                      RIP adds to its table
      LnxConfig_proofs                RIP over own links, forwarding as the file
                                      says, for every file

**Granularity.** An action is what a goroutine does between two points where
another one can see or change what it works on: taking or giving up a lock,
sending a packet, waiting, or reading a shared field outside any lock. Control
points are the `pc` fields of `handler`, `vwrite`, `writer`, `reader`, the
values of `rt` and `closer`. A mutex is held exactly in certain control states
(`WriteLockFree`, `ReadLockFree`, `RTQueueLockFree`). An unbuffered channel is a
joint step of its two ends (`StopProbing`, `HandedToSocket`, `TakeStopFlag`).

Some actions are one step where another goroutine could come between, because what
it would find leads to nothing new:

- `SendSegment`: `SendIP` (`socket.go:363`) and the enqueue under `RTQueueLock`. An
  acknowledgement of the segment before it is queued is found too high all the same,
  for `LargestAck` is compared with `NextSequenceNumber` (`socket.go:50`), which
  `AdvanceSequence` moves later, in an action of its own.
- `LeaveZWP`: `ZWPMode = false` and `BytesInFlight--` (`socket.go:452-454`), and
  `CheckProbe`: the looks at the two (`socket.go:143-145`). If `HandleTCPPacket` finds
  `ZWPMode` still set, it sends on `ZWPStop` to nobody, as it does with `CheckProbe`
  right before `LeaveZWP` (section 6), or, with nothing else in flight, not, as right
  after it. Only where the window is exactly what is in flight beside the probe does
  the code have an order more. The purge commutes with either.
- `WriteSegment`: the write under `ReadLock`, `NextExpectedByte +=` and the broadcast
  behind the unlock (`socket.go:24-35`). A reader that runs in between finds the data;
  if it reads all and waits, the broadcast wakes it for nothing and it tests again; if
  it slept already, it sleeps until the broadcast, which nothing keeps from coming. A
  segment of the other direction that is sent in between carries the new window with
  the old acknowledgement number: that combination the model does not have.
- `ReceiveNextFin`: the ACK (`socket.go:263`) and the new state (269). A `VClose`
  in between leaves the state that it leaves right before the action. Its FIN, which the
  code could then send behind that ACK, overtakes it or is overtaken in the network.
- `Discard`: `TcpHandler` looks a packet up and hands it over at once. A packet for an
  accepted socket that has left the table goes to the listener in the code
  (`tcp.go:42-49`); its `VAccept` returns an error for anything but a SYN, and the loop
  around it goes on, so that it is gone either way. `TcpHandshake` has the listener.
- `UpdateInterfaceState` (of `LnxConfig`): the two copies (`cli.go:191-192`). Only the
  command line reads the second, and it is the one that writes it.
- `RIPHandler` (of `LnxConfig`): lookup and update of one entry. Only `PeriodicExpiry`
  comes between, and an expired entry that is written again is one that was learnt
  anew. `Rip` has the two steps apart.

**TcpSocket** holds the state of both ends of one connection after the
handshake. Record fields keep the names of the Go structure. A byte of a stream
is its index in that stream, so that loss, repetition and misplacement differ.
Sequence numbers are modulo `SeqSpace` (2^32 in the code), `BytesInFlight` and
windows modulo `Word` (2^16). `net[e]` holds the packets on their way to `e`;
they may be lost (`MaxLoss`) and overtake each other (`MaxReorder`). The two ends
do not start alike, as in the code: only `VConnect` sets `LargestAck`, and
`MakeTCPSocket` puts a different number into `LastSegmentSequenceNumber`
(`InitialSender`).

**TcpSend**: `CallVWrite`, `VWrite` (the loop of `api.go` 303-327);
`FindNothingToWrite` to `AdvanceSequence` (one pass of `HandleVWrite`, with
`FailSegment` for a `SendIP` that fails); `EnterZWP` to `LeaveZWP` (zero window
probing); `SendFin`, `CountFin`, `QueueFin` (`SendFinPacket`: sent, counted and
queued in three steps); `CheckRTQueue`, `ExpireRTTimer`, `Retransmit`
(`HandleRT`).

**TcpReceive**: `ReceiveNewAck` and `ReceiveOtherAck` begin `HandleTCPPacket`,
then `PurgeSegment`, `PurgeLastFin`, `FinishPurge` (the retransmission queue),
`UpdateWindow`, `CheckProbe`, the segment text (`ReceiveNextText`,
`ReceiveOtherText`, `TakeEarlyArrival`, `LeaveEarlyArrivals`, `SendAck`), and the
two cases of a FIN. Whether `Reset` on the copied `time.Timer` rearms it depends
on what the copy held: a nondeterministic choice.

**TcpConnection** adds `VClose` (read, assignment and broadcast are separate:
no lock is held), `TimeWait`, `Discard` of packets for a socket that has left
the table, and `Lose`.

**SendBuffer** looks at one `WriteBuffer` with any number of threads in `VWrite`
(an `sf` and an `s` on the same socket), `HandleVWrite`, and a `VClose` at any
moment. The lock is given up only in `Wait` and on return, so that an action is
one stay in the critical section; what `HandleVWrite` sends, and when the window
allows it, is `TcpSend`'s matter: `TakePayload` takes any number of bytes. What does
matter is that `HandleVWrite` may be away for long: `TakeProbe` takes the one byte of a
probe and enters `ZWPLoop` (`socket.go:446-467`), and `LeaveZWPLoop` is what
`ZWPStop` does, whenever the peer makes it come, or never. A byte is its writer and
its place in the writer's data. A thread that was woken does
not test `IsFull` again (`FailIsFull`).

**TcpHandshake** models each host's two tables, every listener and socket made,
the packet loop with the packet it is trying to hand over, and the command line.
Sockets that failed stay in the table, as in the code. `SendFirstSegment` stands
for the first segments of an established connection, which a waiting `VAccept`
takes for the ACK. Once `VClose` has deleted a listener, its port may be listened on
again (`VListen`, at most `MaxListens` times), while the loop around the `VAccept` of
the listener before (`cli.go:235-239`) is still there and takes what the packet loop
holds for it. A user dials any port in `Dialled`, whether or not somebody listens.
Ephemeral ports are chosen among `EphemeralPorts`;
`UsedPorts` is never written by the code, so that nothing excludes a port in use.
The ports a host itself listens on are left out (section 6).

**Rip** models routers over prefixes that are disjoint. `RespondAtOnce` sends a
response as soon as it is made; `MakeResponse` and `SendResponse` keep the two
apart, as the code's unlock between them allows, and count as a fault, because
between the two there is normally no time for anything. `UpdateEntry` handles one
entry: lookup and update are separate in the code, hence `ok` may be the answer
of a moment before. Time passes in seconds, and only when all packets have been
handled (`Quiet`): neighbours are a UDP datagram apart.

**Forwarding** has the lookups of `network.go` as operators. The code takes the
first match of a `range` over a map, in random order: a lookup is the set of
what it may return. It is instantiated by the next two modules with their own
addresses and prefixes.

**IpForward** extends `Rip` with one data packet: `SendPacket`
(`SendPacketToDestIP`, for `send` or any other caller), `Arrive`
(`HandlePacket` up to its lookups) and `PassOn` (the second lookup, after the
lock was given back). `Table` gives the table of a router of `Rip` the form of
`network.go`. The packet is followed from the routers in `Senders`.

**LnxConfig** reads a file line by line (`ParseConfig`), makes the interfaces and the
table of it (`Initialize`), and takes `down` and `up`. On a router, `RIPHandler` adds
to the table what is `Heard` from other routers, or gives a learnt route another next
hop, and `PeriodicExpiry` takes routes away; the costs that decide are `Rip`'s matter,
so that any entry may come or go at any time. `learnt` is that part of the table,
`Table` the whole; `GetEntryByPrefix` finds an entry of either kind. Until the first
entry comes the node is a host as well. An address is a sequence of `Width` bits;
prefixes are masked and compared as the code does. `ReadLine` has every directive and
every way to fail. The specification of the forwarding (`Configured`) is stated from
the lines of the file, with the longest match, and not from the table, for the
addresses RIP has no say in (`NotUpToRIP`): those that no learnt route holds, or an
interface that is up, or that are the node's own.

## 3. Runs

Twelve runs. Deadlock is checked except where a connection, a handshake, a
`VWrite` or a node may come to rest; the cfg says so.

| run | question | properties |
|---|---|---|
| `transfer` | Data one way with room in the buffers; one loss, one early timeout, packets overtake each other. | `TypeOK` `InFlightAccounting` `NothingLost` `RTQueueUnacknowledged` `NoAckOfUnreceived` `StreamIntegrity` `NoLostWakeup` |
| `zero_window` | One-byte buffers: every byte closes the window and probing starts and stops. | `InFlightAccounting` `NoAckOfUnreceived` `WindowFollows` `NoLostWakeup` `ImplementsByteStream` |
| `one_segment_live` | Does a segment past the end of the sequence space arrive, under fairness, after two losses and an early timeout? | `DeliversByteStream` |
| `close_both` | Both applications close at any moment, one around a `VWrite`; a packet is lost, a `SendIP` fails. | `FinAfterData` `DeletedAfterBothClosed` `InFlightAccounting` |
| `several_writers` | Three threads in `VWrite` on one socket, a `VClose` and a closed window at any moment. | `TypeOK` `WritersWoken` `EachInOrder` `OvertakenOnly` `PrecedingSendsTaken` `VWriteReturns` |
| `handshake` | Two connects of one client, `cl` on listener and sockets, the port listened on again, a loss, a failing `SendIP`. | `TypeOK` `EstablishedInPairs` `EstablishedInTable` |
| `handshake_live` | Two hosts connect to each other at once, nothing is lost. | `HandshakeCompletes` `PacketLoopGetsOn` |
| `rip_triangle` | Three routers in a ring with an alternative route, started in any order; one fault, one `up`. | `TypeOK` `Converges` |
| `rip_line` | Three routers in a line with two faults, and a packet on its way to the far end. | `NoTwoRouterLoop` `NeverComesBack` `PassedOnWhenSettled` |
| `configuration` | Every file of up to five of eleven lines, interfaces going down and up, routes learnt by RIP and expiring. | `TypeOK` `ForwardsAsConfigured` `RIPStaysOnLink` |
| `second_zwp_stop` | violated, section 6 | `HandlerGetsOn` |
| `teardown` | violated, section 6 | `TeardownCompletes` |

What the passing runs show, and why their bounds are enough to mean something:

- **transfer**. Two bytes in segments of one, buffers of four: two segments, two
  acknowledgements and a retransmission are under way together, so that each can
  overtake or duplicate another; `MaxNet` 2 lets a packet be lost at a full queue
  besides the one of `MaxLoss`. The byte count of `RTQueue`, its order, SND.UNA
  and the stream stay right in every interleaving of the five goroutines and
  the two applications. The buffers have room for all that is written, so that
  neither probing nor a partial `WriteSegment` occurs: probing is `zero_window`.
  This matters for `NothingLost` and `StreamIntegrity`, which do fail with probing
  and with partial writes (section 6).
- **zero_window**. With one byte of buffer every byte fills the receiver. The
  ACK racing `EnterZWP`, the joint step on `ZWPStop` and a second ACK behind it
  all occur. What the reader gets is a prefix of the stream
  (`ImplementsByteStream` is safety only: that probing may get stuck is
  `second_zwp_stop`). Only the active end writes: on the passive end
  `WindowFollows` fails (section 6).
- **one_segment_live**. The client's initial sequence number is two below the end
  of the space, the server's one: its byte and its ACK wrap. One segment keeps
  clear of the timer race described in section 6, which needs a second one. It
  shows that retransmission, wakeups and acknowledgement interlock; that the
  wrapped acknowledgement is not accepted (section 6) does not keep the byte from
  its reader.
- **close_both**. Every order of two `VClose` calls, a `VWrite`, the data, the
  FINs and their ACKs, with one end's goroutines still starting. FIN_WAIT_1,
  FIN_WAIT_2, CLOSE_WAIT, CLOSING, LAST_ACK, TIME_WAIT and CLOSED are all
  reached.
- **several_writers**. The buffer holds two bytes and the threads write four,
  three and two, so that each may wait, be woken with the others, find the buffer
  full again and fail. The code's one command line allows an `sf` thread and one `s`
  at a time on a socket; three threads that overlap include what they do.
  `PrecedingSendsTaken` is the code's "queue this until all preceding SENDs have
  been segmentized" (`api.go:360`) for what `VWrite` has accepted before `VClose`.
  Both liveness properties have the premise `PeerOpensWindow`, which section 4
  explains; without it both fail, TLC shows, with `HandleVWrite` in `ZWPLoop` for ever.
- **handshake**. Two connects on one or two ephemeral ports make stale SYN-ACKs
  and ACKs of an earlier attempt meet the sockets of a later one. Two initial
  sequence numbers, 3 and 7, are enough to be equal, to differ, and, modulo 8,
  to wrap. The server listens on `Http` up to twice, so that two `VAccept` loops and
  packets for either of them are there at once; nobody listens on `Ssh`. `cl` comes
  twice: on the listener, on a socket, or on both. The two ephemeral ports are
  symmetric: nothing tells them apart.
- **handshake_live**. One connect of each host towards the other: the packet
  loop of each has to serve a `VAccept` and a `VConnect`.
- **rip_triangle**. The network `a` of router A, followed by all three. B and C
  are alike and `a` has no other end, so that the interfaces in `LinksOfB` stand
  for all. A response that is better, one that is worse from the next hop, a
  refresh and an expiry all occur; the route of B leads over C when the link to A
  is down. `INFINITY` is 16 as in the code. `UpdateInterval` and
  `EntryExpiredTime` are 2 and 4 seconds instead of 5 and 12: the entry still
  outlives one lost update and not two.
- **rip_line**. Here a route once lost can only come back from the router it was
  given to: the case split horizon is for. The packet starts at C, the far end
  from the network `a`, and may stay at any router while the tables change.
  `MaxHops` is 2, the length of the line: with one less the packet could not get
  through, so that an early TTL shows. A route that expires, a link that goes
  down between the two lookups and a stale response all occur before, during and
  after its way.
- **configuration**. Three-bit addresses, two interfaces on /2 networks and a
  third whose network holds both and whose UDP address is taken, a neighbor on the
  right and on the wrong interface, a static default route and a /2 route,
  RIP directives and a malformed line. Five lines make a node with two interfaces,
  a neighbor on each and a route, in every order. `ForwardsAsConfigured` compares
  the table's answer for each of the eight addresses with the file's. By RIP the node
  hears, from either neighbor, of a network of its own, of one next to it, and of a
  route for all addresses, which is learnt only while no entry of the file holds it;
  each may be learnt, given another next hop, and expire at any time.

Every property of a passing run is paired with a mutant: a changed definition,
kept beside the original, for which the run fails. The mutants are mistakes one
could make in that code: a segment counted as acknowledged a byte early, a
forgotten broadcast, `BytesInFlight` not reduced, an ACK that counts one more, a
FIN that takes no sequence number, `TIME_WAIT` entered early, any SYN-ACK
accepted, RIP without split horizon or without expiry, `Signal` for `Broadcast`,
`down` that leaves the copy of the state in the forwarding table alone.

## 4. Fairness

`FairSpec` of each module asks for no more than the code's scheduling gives.

- TCP: weak fairness of each goroutine and of each application thread that has
  begun a call. The Go scheduler runs what can run, `sync.Mutex` hands itself to
  waiters (starvation mode), timers fire, `time.Sleep` ends. An application need
  not call `VClose`. Losses are bounded by `MaxLoss`, never fair.
- A retransmission or probe waits until the network is quiet, or is one of
  `MaxPremature` early ones; without that bound a timer could flood the network
  for ever, which the 10 microseconds to 1 millisecond of the code does not rule out
  but no property needs.
- Handshake: weak fairness of the packet loop, `HandleConn`, `VAccept` and
  `VConnect`. Users need not type anything.
- `SendBuffer`: weak fairness of `HandleVWrite` wherever it works on the buffer, and of
  each thread inside `VWrite`; none of `LeaveZWPLoop`. `HandleVWrite` stays in `ZWPLoop`
  until `ZWPStop` comes, which takes a peer that reads and an acknowledgement, and
  the code has no bound on it. What the properties need of the peer is their premise
  `PeerOpensWindow`, `[]<>(sender # "ZWPLoop")`: each closed window is opened, and
  `HandleVWrite` hears of it. An application that does not read breaks it, and so does
  the deadlock of `second_zwp_stop`. Nobody need call
  `VWrite` or `VClose`. A thread that waits for `WriteLock` gets it, for
  `sync.Mutex` hands itself to waiters.
- RIP: weak fairness of "some goroutine goes on, or a second passes". Within a
  second each goroutine has finite work, so that this is the weaker form of
  fairness per goroutine.

## 5. Proofs

`tlapm` checks these for all values of the constants that satisfy the named
assumptions of the modules (`EndsAssumption`, `SizeAssumption`, `WorkloadAssumption`
of `TcpSocket`; `SendBufferAssumption`; `HandshakeAssumption`; `RipAssumption`;
`ForwardAssumption`; `LnxConfigAssumption`, which lets `Lines` be any set of lines
with well-formed addresses, and `Heard` any set of advertised prefixes) and, where
there is one, the condition in the last column. Apart from the conditions no proof
uses a bound on faults, on the network or on the number of packets.

Every safety invariant and action property of the passing runs is a theorem; what
the runs keep to themselves is at the end of this section.

| theorem | says | if |
|---|---|---|
| *TcpConnection_proofs* | | |
| `InductiveInvariant`, `TypeCorrect` | `[]IInv`, `[]TypeOK`: every field keeps the range of its Go type, the ring buffers their capacity, every packet at most `MaxSegmentSize` bytes | |
| `FinsAndStatesAgree` | `[]ClosingInv`: a FIN is about only if its end came to send it; `ConnState` knows who has | |
| `DeletedOnlyAfterBothClosed` | `[]DeletedAfterBothClosed` | |
| *TcpWakeup_proofs* | | |
| `WakeupsNotLost` | `[]NoLostWakeup`: nobody sleeps on a buffer or queue that has work for it | |
| *TcpStream_proofs* | | |
| `NumbersAgree` | `[]NumbersInv`: where data and FINs lie in the stream, in whatever queue, and what is acknowledged | `ShortStreams` |
| `FinsComeLast` | `[]FinAfterData` | `ShortStreams` |
| `AcksAreOfReceived` | `[]NoAckOfUnreceived` | `ShortStreams` |
| `StreamIsIntact` | `[]StreamIntegrity` | `ShortStreams`, steps satisfy `DropsNothing` |
| `StreamIsImplemented` | `ImplementsByteStream`: the initial state and each step map to `ByteStream` | the same |
| `SmallStreamsAreIntact` | the two of them, from the constants | `ShortStreams`, `MaxSendErr = 0`, `ToWrite[e] <= MaxBufferSize` |
| *TcpRetransmission_proofs* | | |
| `QueueAgrees` | `[]QueueInv`: `RTQueue` in sequence, a FIN last, no acknowledged data outside the purge | `NumbersFit` |
| `QueueIsUnacknowledged` | `[]RTQueueUnacknowledged` | `NumbersFit`, `NobodyCloses` |
| `WindowAgrees` | `[]WindowInv`: SND.WL1, SND.WL2, SND.UNA of the active end | the same |
| `WindowIsFollowed` | `[]WindowFollows` | the same, `ToWrite[Server] = 0` |
| `NothingIsLost` | `[]NothingLost` | `NumbersFit`, steps satisfy `NeverFails` and `NeverProbes` |
| `SmallStreamsLoseNothing` | the same, from the constants | `NumbersFit`, `MaxSendErr = 0`, `StreamsFit` |
| `InFlightIsCounted` | `[]InFlightAccounting`: `BytesInFlight` is what `RTQueue` and a probe hold, in the arithmetic of its word | |
| *SendBuffer_proofs* | | |
| `TypeCorrect` | `[]TypeOK`: the buffer keeps its capacity, no call writes more than its data | |
| `NobodySleepsInVain` | `[]WritersWoken`: with any number of threads in `VWrite` | |
| `OnlyTheOvertakenFail` | `[]OvertakenOnly`: ErrIsFull comes only after another thread has filled the buffer | |
| `EachWriterInOrder` | `[]EachInOrder`: what each thread has written is in the stream once and in its order | |
| *TcpHandshake_proofs* | | |
| `HandshakeIsTyped` | `[]TypeOK`: tables, channels and `VAccept` name sockets and listeners that exist | |
| `SocketsOnlyMoveOn` | `[][SocketsMoveOn]_vars`: no socket goes, or changes its connection or what it agreed on | |
| `EstablishedAreFound` | `[]EstablishedInTable`: an established socket is in the table, unless its port is one that was listened on more than once | `DistinctPorts` |
| `EndsAgree` | `[]EstablishedInPairs` | `DistinctPorts` |
| *Rip_proofs* | | |
| `RoutesAreTyped` | `[]TypeOK`: a learnt route costs less than `INFINITY` and leads to another router of an own network | |
| `OwnNetworksStayLocal` | `[]LocalRoutesStay`: exactly the own networks have a local route | |
| `RoutesAreNoShorter` | `[]CostsCover(Distance)`: no route is cheaper than the distance | `HopsToGo(Distance)` |
| `NoRouteToNowhere` | nobody has a route to a network without a way to it | |
| `NeighborsDoNotLoop` | `[]NoTwoRouterLoop` | `TreeLike(Hop, Depth)` |
| `PacketsDoNotComeBack` | `ForwardSpec => []NeverComesBack` | `TreeLike(Hop, Depth)` |
| `SettledTablesPassOn` | `ForwardSpec => PassedOnWhenSettled` | the same, `HopsSuffice(Depth)` |
| `ForwardingImplementsRip` | `ForwardSpec => Spec`: the packet leaves RIP as it is | |
| *LnxConfig_proofs* | | |
| `RIPOverOwnLinks` | `[]RIPStaysOnLink`: for every file and whatever RIP has learnt, a RIP packet for a neighbor on an own network leaves over a link the file gives that neighbor, unless a learnt prefix holds a whole own network | |
| `NodeIsTyped` | `[]TypeOK` | |
| `ForwardsAsTheFileSays` | `[]ForwardsAsConfigured`: each address RIP has no say in goes where the longest matching line says, whatever RIP has learnt | |

**The conditions.** Each one rules out something the code does get wrong, or
cannot rule out itself; without it TLC or a reading of the source finds the
property broken (section 6 has the executions).

- `ShortStreams`: `ToWrite[e] + 1 < SeqSpace`. No number is used twice, that is,
  less than 4 GiB are written on a connection. `InitSeqNum` is arbitrary, so that
  numbers may wrap.
- `NumbersFit`: `InitSeqNum[e] + ToWrite[e] + 2 < SeqSpace`. No number wraps.
  `socket.go:50` and `socket.go:66` compare sequence numbers as plain integers, and
  there is no order among them when the connection passes the end of the space.
- `DropsNothing` is `NeverFails` (no `FailSegment`: `HandleVWrite` returns to its
  loop with the payload when `SendIP` fails, and the bytes are in no buffer any
  more) and `WritesWhole` (the receiver adds to `ReadBuffer` only what it counts,
  which an early arrival that fits in part breaks, `socket.go:199`). They are
  conditions on steps: the theorem is about every behaviour in which these steps
  do not occur. `SmallStreamsAreIntact` shows constants for which none can.
- `NeverProbes`: no `EnterZWP`. A probe's byte never gets into `RTQueue`, and an
  acknowledgement compared with the old `ZWPSeq` ends probing while the byte is
  still to be sent (`socket.go:405`).
- `StreamsFit`: `2 * ToWrite[e] <= MaxBufferSize`. A buffer has room for the stream
  twice, once unread and once in flight, so that no window closes and nobody probes.
  The constants of `transfer` satisfy all three conditions of the theorem.
- `NobodyCloses`: `Closing = {}`. A FIN whose ACK comes before it is queued stays in
  `RTQueue` for good (`socket.go:563`).
- `ToWrite[Server] = 0`: the passive end compares its window's numbers with what
  `types.go:175` made of them.
- `DistinctPorts`: no ephemeral port is one that a host listens on (`utils.go:11`).
- Two properties carry their conditions themselves, in the run as in the theorem.
  `EstablishedInTable` is about ports that were not listened on again
  (`ListenedOnOnce`; `api.go:61`), and `RIPStaysOnLink` about routers without
  static routes, neighbors on an own network, and learnt prefixes that hold none
  (`rip.go:218`).
- `HopsToGo(Distance)`: `Distance` is 0 on the prefix and at most one more than a
  neighbour's. In every network the number of hops is such a function, with any one
  number for the routers that have no way to the prefix.
- `TreeLike(Hop, Depth)`: towards each prefix a router has at most one neighbour,
  `Hop`, that is not itself reached through it, and that one is nearer. In a ring the
  property fails (section 6). `HopsSuffice(Depth)`: `MaxHops` is enough for that depth.
  `MCIpForward` assumes both of the line of `rip_line`, where TLC evaluates them.

**TcpConnection_proofs.** `TypeOK` is not inductive. `TakePayload` and `EnterZWP` read
from a buffer that `FindDataToWrite` found filled a step earlier, and give their
result the type `Text` or a single byte only if it still is. What keeps it filled is
that `HandleVWrite` holds `WriteLock` between the two. `HandleVWriteHolds` says so,
along with the length of a probe's payload and the emptiness of a FIN.
`WrittenInRange` bounds `written`, without which the number of bytes `VWrite` adds
could be negative. `IInv` is the conjunction of the three.

The proof has one lemma per goroutine with a step for each of its actions, and
"frame" lemmas naming the variables each leaves alone, so that the two extra
invariants look only at the actions that touch them. `StepIInv` puts them
together.

`DeletedAfterBothClosed` speaks of control states at both ends, and what ties
them together are packets. `PacketsOf(e)` is every packet of end `e` that is still
about: about to be sent, in `RTQueue`, in `net`, at the handler, among the early
arrivals of the peer. `PacketsStep` shows once, for all the proofs that follow, that
a step only hands packets on, drops them or makes one new one (`Makes`).
`ClosingInv` says that every FIN among them was sent, and what each `ConnState`,
each place of `VClose` and an entry that is gone say about who has sent one.

**TcpWakeup_proofs.** `NoLostWakeup` is inductive relative to `IInv`. For each of the
four condition variables there is a lemma for whoever fills the queue (it broadcasts)
and one for the sleeper (it decides and sleeps while it holds the lock the other
needs). The delicate one is `VRead`: `WriteSegment` broadcasts only if the whole
segment fitted (after it has given up `ReadLock`, which is one action here, section
2). `EverySegmentFitsEmptyBuffer` is the fact that saves it: a reader sleeps on an
empty buffer only, a segment has at most `MaxSegmentSize` bytes, and `MaxSegmentSize
<= MaxBufferSize`.

**TcpStream_proofs.** A packet's `Position` is its number relative to
`InitSeqNum`, modulo the sequence space. `NumbersInv` has four parts that need each
other: what an end has numbered and holds is not more than `VWrite` was given
(`NumbersWritten`, so that nothing wraps onto itself); data, wherever it is, lies
below what was numbered, and below the FIN if there is one (`DataNumbered`); the FIN
has the number behind it, and was taken exactly there (`FinsNumbered`); an
acknowledgement, under way or believed, is of what was received, or of the FIN
(`AcksReceived`). `FinAfterData` and `NoAckOfUnreceived` follow.

`ContentInv` adds content: a packet carries the bytes its number says
(`PacketsInStream`), so do the payload and `WriteBuffer` (`SenderInStream`), and
`ReadBuffer` behind what `VRead` returned is the beginning of the stream as far as
`NextExpectedByte` says (`ReceivedInStream`). With it `StreamStep` maps each step to
a step of `ByteStream` or a stutter: a pass of `VWrite` to Write, the return of
`VRead` to Read, all else to nothing.

**TcpRetransmission_proofs.** `QueueInv`: the segments of `RTQueue` follow each other
below `Frontier`, the first number nothing queued has used; it differs from what is
counted while a segment is sent and not counted (`"advance"`), and while a FIN is
counted and not queued. Its last part ties the queue to `LargestAck`, which may be
ahead of it only during the purge.

`WindowInv` is needed because `HandleTCPPacket` takes a window only from a packet that
is not older than the last one, by number and then by acknowledgement. Of two packets
of one end, wherever they are, the one numbered later acknowledges no less
(`NumbersOnward`); hence a packet that moves SND.UNA passes the test (`WindowFrom`,
`WindowKept`).

`LossInv`: what is not acknowledged is in `WriteBuffer`, the payload or `RTQueue`
(`Kept`); the segment being sent is in the queue before it leaves the payload. What is
acknowledged must have been received, but the ACK of a FIN says one more than
`NextExpectedByte`: then the FIN was taken behind the last byte that left
`WriteBuffer` (`FinTaken`), and what was written later is in `WriteBuffer` still.
`AcksOfFins` carries that through delayed and repeated acknowledgements.

`InFlightIsCounted` speaks of a fold over `RTQueue`. The fold is shown to be a sum of
prefixes (`SumExists`, `BytesAreSum`), from which follows what appending and removing
do to it; the induction this takes goes over the least index that would be wrong
(`LeastNumber`), for the library's induction theorems cannot be instantiated.

For `SmallStreamsLoseNothing` nobody may ever see a zero window. `Live(e)` are the
packets of an end whose window its peer may still come to read, however long they
have been about. By `WindowsOpen` each of them, and the window the peer believes in,
leaves room for `Room(e)`; a packet is made when the buffer holds at most what the
peer has written. By `QueueFits` the bytes in flight are no more than were sent. With
`StreamsFit` the difference that `HandleVWrite` computes from the two
(`socket.go:324`) is positive, so that it never goes to `zwp`
(`ZeroWindowNeverSeen`).

**SendBuffer_proofs.** Each invariant is inductive relative to the types.
`SizeWritten` has the arithmetic of a pass of `VWrite`: it writes something, and
what it cannot write has filled the buffer. Hence who waits again waits on a full
buffer, and its byte is the last in it (`LastByte`), while everyone else who is
woken was overtaken. For the order, `TakenAndRest` says that taking bytes leaves
the stream as it is, and `ChunkInOrder` that a chunk behind it keeps each
writer's order and its count.

**TcpHandshake_proofs.** `EndsInv` strengthens the types by who refers to what, by the
ports of each kind of socket, and by `OwnSockets`: each `VAccept`, of however many that
listen or have listened on a port, has a socket of its own. `TableInv` says where a
socket that is still being established is in the table (`ConnectingInTable`,
`AcceptingInTable`), and, of a port that was listened on once, that no established one
is about to be replaced: by the socket that `VAccept` is about to enter, or will make
of the SYN in the packet loop's hand (`AcceptedInTable`). With a second listener nothing
keeps the first one's `VAccept` from that (section 6), and a `VListen` ends the premise
for its port. `PairsInv` says what a
packet proves, wherever it is: a SYN-ACK that its socket exists, was made by `VAccept`
and has these numbers, an ACK that a `VConnect` has got past the SYN-ACK
(`PacketsGenuine`); a packet of an earlier attempt proves the same, since sockets only
move on. What each kind of action does to tables, references and ports is
shown once (`Keeps`), and the invariants are built on that.

**Rip_proofs.** `RipInv` has the types of packets on their way and of the work a
goroutine has before it: what `RIPHandler` looked up and writes later, and what a
sender goes through. `OwnNetworksFound` is what keeps the local routes: a response may
name an own network, and it is left alone only because the entry was found.

What further claims need is that the tables, the packets under way, the responses in
the making and `RIPHandler`'s work agree on what may be said. `AllIn(Good, Said)` has
that for any set `Good` of routes and `Said` of entries, and `RipKeeps` shows it
inductive if `Closed(Good, Said)`: what is said makes good routes, good routes are
advertised as what may be said. For the distances, `Said` are the entries that are no
cheaper than the sender's distance (`DistanceIsClosed`). For trees, `Said` are those
that cost `INFINITY` if they go to the neighbour the sender's own routes lead over
(`TreeIsClosed`): that is poisoned reverse, and it holds of a response that was made
before the table changed as well.

So in a tree each route leads to `Hop`, and two neighbours do not lead to each other.
A data packet (`Approaches`) is, at each router, nearer to its destination than at any
it has visited, even if the next hop is from a lookup of long ago. `Spare` adds that
its TTL is its depth at least, and `RunInv` that every next hop is a router that runs:
once the tables are the shortest routes, the route exists, its interface is up, and the
next hop found earlier is the same, so that no lookup drops the packet.

**LnxConfig_proofs.** `RIPStaysOnLink` is not inductive: it speaks of the
addresses RIP sends to now. `ConfigInv` adds that every neighbor in `IPConfig`
comes from a neighbor line and that static routes come from route lines,
`TableInv` that what the file gives the table, without static routes, is local entries,
whose neighbors are those of the file. `ForwardOverLocal` is the fact about the
lookups: from such a table a packet goes to its address, over an interface that
has it, or nowhere. For what RIP adds, `LearntInv` has the reason why it stays out of
the way: a route is learnt only for an address that no entry of the file holds. Its
prefix is masked and may hold more than that address, but it and a network of the
node are nested or disjoint: hence it holds no neighbor on that network unless it holds
the network (`LearntBesideNetworks`). An address that no learnt route holds is looked
up as without RIP (`LearntMakesNoDifference`).

For `ForwardsAsTheFileSays`, `FileInv` says that `IPConfig` is what the lines of the file
say, and `NodeInv` that the interfaces and the table are those of the lines, with the
states of interfaces of one name moving together. The property is about files that are
`Unambiguous`: interfaces on disjoint networks and at most one static route, not inside
one of them. The table has each line of such a file, at most one interface matches an
address (`OneInterface`), a route only if it is shorter, and what the lookups in random
order find is what the longest matching line says (`LookUpInterfaces`, `LookUpRoutes`,
`BestLine`). `HandledAsWithoutRIP` takes that from the table of the file to the one RIP
has added to. `NodeInvariant` is `FileInv`, `NodeInv` and `LearntInv`.

**Model-checked only.**

- All liveness (`DeliversByteStream`, `HandshakeCompletes`, `PacketLoopGetsOn`,
  `Converges`, `PrecedingSendsTaken`, `VWriteReturns`): the prover has no rule for
  fairness or ENABLED.

No module declares a RECURSIVE operator.

## 6. Disagreements with the source

Two have a run, whose counterexample TLC finds:

- **second_zwp_stop** (`socket.go:148`). `ZWPMode` is cleared only after
  `ZWPStop` was received, so that a second ACK sends on it again, to nobody.
- **teardown** (`socket.go:279`). Both ends call `VClose`, nothing is lost, and
  still sockets stay in the table for ever; "Connection Teardown. Works as
  expected." (`README.md:62`). When the FINs cross, both ends enter CLOSING, and no
  code leaves it. Other ways to the same end are listed below.

Three more are found by TLC with these constants (the others as in the named
cfg):

- `socket.go:199`: an early arrival that does not fit is written in part, dropped
  from the heap, and written again from its start when it is retransmitted: "This
  should not be happening!!!" (`socket.go:31`). `StreamIntegrity` with
  `transfer.cfg`, `ToWrite <- ClientWrites4`, `MaxBufferSize = 3`,
  `MaxSegmentSize = 2`, `MaxNet = 3`, `MaxReorder = 2`, `MaxLoss = 0`,
  `MaxPremature = 0`.
- `types.go:175`: the passive end compares an absolute SND.WL1 with relative
  sequence numbers and does not update its send window. `WindowFollows` with
  `transfer.cfg`, `MaxBufferSize = 2`, `ToWrite <- ServerWrites2`,
  `Reads <- ClientOnly` and no faults.
- `api.go:354`: `VClose` of a socket in SYN_SENT waits for a receiver of
  `CloseSocket`; "it MUST NOT block" (`api.go:334`). `VCloseReturns` with
  `handshake_live.cfg`, `Listening <- ServerListens`, `MaxConnects <- TwoConnects`,
  `MaxStops = 1`.

The following were met while modelling, as executions of these modules or, where
it says so, while reading the source.

Sending:

- `socket.go:326`: the payload is min(`RemoteWindowSize`, data), where the
  comment says "(advertised window from receiver - bytes in flight)"
  (`socket.go:318`): more is sent than the window allows. `RemoteWindowSize` is
  also read again without a lock, and may have become 0 since: "sizeToWrite is 0.
  Shouldn't happen" (`socket.go:332`) is reached.
- `socket.go:405`: `ZWPMode` is set before `ZWPSeq` names the new probe. An ACK
  in between compares `LargestAck` with an old `ZWPSeq` and ends probing; the byte
  of the new probe is then nowhere.
- `socket.go:371`: `OngoingRTTimer` stays true from the tick that finds `RTQueue`
  empty until `HandleRT` is back at its loop. A segment queued in between starts
  no timer and is never resent. Together with the overshot window this stops a
  connection on which nothing was lost: the segment finds `ReadBuffer` full.

- `socket.go:446`: `HandleVWrite` waits in `ZWPLoop` without a bound. While the peer does
  not read, no `VWrite` that waits for room returns, and after `VClose` neither the rest
  of `WriteBuffer` nor the FIN is sent. RFC 9293 has it so, but nothing here gives up
  either: no user timeout ends it. `SendBuffer` without `PeerOpensWindow` has it.

Closing:

- `socket.go:66`: a queued FIN has no data and counts as acknowledged by the ACK
  of the data before it.
- `socket.go:563`: the FIN is queued without waking `HandleRT` and without a
  timer; a lost FIN is not resent, and the line "NEVER SHOULD HAPPEN"
  (`socket.go:489`) is reached. It is queued after it was sent and counted: if its
  ACK comes first, it stays in `RTQueue` for good and FIN_WAIT_1 or LAST_ACK is
  never left.
- `socket.go:304`: `HandleVWrite` sends a FIN in CLOSE_WAIT, before the
  application has called `VClose`.
- `socket.go:303`: a `VWrite` that waits for room when `VClose` comes is overtaken
  by the FIN; the rest of its data is never sent.
- `api.go:370` and `socket.go:273`: `ConnState` is assigned and the condition
  broadcast without the lock the sleeper tested it under. `HandleVWrite` may miss
  the request to close, `VRead` the end of the stream.
- `api.go:272`: `VRead` refuses as soon as the peer has closed, whatever
  `ReadBuffer` holds; `rf` then loses the end of the file.
- `socket.go:279`: CLOSING is never left: after a simultaneous close both sockets
  stay in the table.

- `socket.go:50`: sequence numbers are compared as absolute numbers, and an
  acknowledgement beyond the end of the sequence space is found too low and
  dropped; the segment is retransmitted for ever, though it has arrived.

Establishing:

- `tcp.go:49`: while `VAccept` waits for an ACK, a SYN of another connect stops
  the packet loop in front of it, so that the ACK never comes.
- `api.go:112`, `api.go:201`: a handshake that fails leaves its socket in
  `SocketTable`; the next packet for it stops the packet loop. If the SYN, the
  SYN-ACK or the ACK is lost nothing sends it again.
- `api.go:61`: `VAccept` enters its socket without looking whether the connection is
  there. A client connects, gives up and connects again from the same port. The
  packet loop has looked its first SYN up for the listener and waits; `cl` of the
  listener stops the `VAccept` it has, but the loop around it (`cli.go:235-239`) calls
  the next one, which takes the SYN and is about to enter a socket of it. The port is
  listened on again, and that listener's `VAccept` establishes the connection of the
  second SYN. Then the first one enters its socket over the established one, which no
  packet reaches any more. `EstablishedInTable` without `ListenedOnOnce`, with
  `handshake.cfg`.
- `utils.go:15`: `getUnusedPort` may return a port this host listens on; the
  answer of the peer can then be taken for a connection of the listener's.
  With `Http` among the `EphemeralPorts` of `handshake_live.cfg`, `PacketLoopGetsOn`
  fails, and with `MaxStops = 1` `EstablishedInTable` and `EstablishedInPairs` do. The
  comment at `utils.go:11` knows of it.

RIP:

- In a ring two routers can route through each other for some seconds: when both
  links of A go down in the same second, B and C, which have learnt each other's
  direct route, each fall back on the other from responses that crossed. The
  loop ends by age or at `INFINITY`. Split horizon does not promise more, and
  `NoTwoRouterLoop` is claimed of trees only.

Forwarding and configuration:

- `network.go:78`: the static routes of a node share the address of the loop
  variable (`go.mod`: Go 1.21), so that all lead to the next hop of the iteration
  that came last. `StaticEntry` has it; `ForwardsAsConfigured` is stated for at most
  one static route.
- `network.go:127`: with an interface down, a default route takes the packets for
  its prefix. `ForwardsAsConfigured` allows that.
- `network.go:159`: `GetEntryByPrefix` finds a static default route for every
  prefix, so that RIP beside one learns no route. `RIPHandler` of `LnxConfig` has it.
- `rip.go:218`, `network.go:303`: RIP's own packets are looked up in the table RIP
  has made. If a neighbor line names an interface that is not on the neighbor's
  network, and a router advertises that network, the RIP packet for the neighbor goes
  to the router that advertised it, over another link; if the interface of a neighbor
  is down and a default route was learnt, it goes over that. `RIPStaysOnLink`
  without the premise that no learnt prefix holds an own network, or without the one
  that the neighbor is on an own network, with `configuration.cfg`.
- `network.go:217`: a packet that came in over an interface that is down is
  forwarded all the same; only the interface of its destination is looked at.
  `Arrive` has it.
- `lnxconfig.go:127`: `rip originate` with nothing behind it panics with an index
  out of range instead of an error; the program ends either way. Found by reading.
- `network.go:347`: on a host with a connection to itself `HandleConn` puts its
  ACKs into `PacketChannel`, of capacity one, while the packet loop, which empties
  it, waits for `HandleConn` to take the next segment. Found by reading.
- `cli.go:295`, `cli.go:336`: `sf` goes on with a nil connection when `VConnect`
  fails and panics; `rf` does when `VAccept` returns on `StopFlag`. Found by reading.

## 7. Not modelled

- Several readers on one socket (`rf` and an `r` on its socket). One reader per end
  is modelled.
- SRTT and RTO: they set only how long a timer runs, which is left open.
- What `sf` and `rf` do between their calls of the socket API, and their panics on
  a nil connection, after which there is no state.
- The abort of the Go runtime on an unlocked map access (`tcp.go:39`, `api.go:267`),
  and the time before `tcp.Init` and `InitialRIP`: both end the process.
- `PacketChannel` as the way of packets of a host to itself, checksums, the
  dispatch by protocol number. Static routes in the network of routers of `Rip`:
  `LnxConfig` has them beside learnt ones in one node.
- Conversions to and from bytes, the grammar of a line of a configuration, the
  printer, the utilities: pure functions or I/O without state of the protocols.
- Duplication by the network itself. A UDP datagram between processes of one
  machine is not duplicated; repeated segments come from retransmission.

## 8. Plan

In this order; what is done is in sections 2 to 5.

1. Theorems: `NothingLost` for connections that probe, outside the execution of
   `socket.go:405` in section 6; convergence of `Rip` as far as it is safety, that is, that no
   table gets worse once the costs are the distances and no interface changes.
2. A host with a connection to itself: `PacketChannel` as the network between two
   sockets of one packet loop.
3. The return of `VClose` of a listener with `rf` as its caller, and the packet loop
   with failed handshakes.
4. Runs for the disagreements of section 6 that have none.
