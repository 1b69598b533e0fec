------------------------------ MODULE Rip_proofs ------------------------------
(***************************************************************************)
(* What the routing tables can hold, for any number of routers, any way    *)
(* their networks are joined, any number of faults and any timing:         *)
(*   - a route learnt from a response costs less than INFINITY and goes to *)
(*     another router on a network of one's own, and no response ever      *)
(*     replaces the route to a network of one's own (RipInv);              *)
(*   - no cost is below the distance there is (CostsCover), so that no     *)
(*     route leads to what nothing joins;                                  *)
(*   - among routers joined like a tree (TreeLike) each route leads one    *)
(*     step nearer: neighbours do not route through each other, and a data *)
(*     packet does not come back, while the tables change as well, and is  *)
(*     not dropped where they hold the shortest routes.                    *)
(* Where the graph has a cycle the last claim is not made.                 *)
(***************************************************************************)
EXTENDS IpForward, TLAPS

\* The addresses a packet to address a can come from: the other routers' on the
\* same network.
OtherEnds(a) == {n \in Addresses : Router(n) # Router(a) /\ Prefix(n) = Prefix(a)}

RIPRoutes(r) ==
    [RouteType : {"rip"}, Cost : 1 .. INFINITY - 1, NextHop : NextHops(r),
     age : 0 .. EntryExpiredTime + 1]
Routes(r) == {NoRoute, LocalRoute} \union RIPRoutes(r)

Costs == UNION {[known -> 0 .. INFINITY] : known \in SUBSET Destinations}
Packets ==
    [Command : {"request"}, Src : Addresses]
        \union [Command : {"response"}, Src : Addresses, Entries : Costs]
PacketsTo(a) == {message \in Packets : message.Src \in OtherEnds(a)}

Responding(r) ==
    {h \in [Src : NextHops(r), Entries : Costs, todo : SUBSET Destinations,
            found : SUBSET Destinations, updated : BOOLEAN] :
        \A d \in h.todo : d \in DOMAIN h.Entries /\ WorthLooking(h.Entries[d])}

Sending(r) ==
    {s \in [left : Seq(NextHops(r)), packet : {Nothing} \union Packets] :
        s.packet # Nothing => s.left # <<>> /\ s.packet \in PacketsTo(Head(s.left))}

------------------------------------------------------------------------------
(* What must hold along the way *)

Clocks ==
    /\ started \subseteq Routers /\ checkDue \subseteq started
    /\ DOMAIN up = Routers /\ \A r \in Routers : up[r] \subseteq Attached[r]
    /\ DOMAIN untilUpdate = Routers
    /\ \A r \in Routers :
         untilUpdate[r] \in IF r \in started THEN 1 .. UpdateInterval ELSE {0}

Tables ==
    /\ DOMAIN FwdTable = Routers
    /\ \A r \in Routers : FwdTable[r] \in [Destinations -> Routes(r)]

PacketsTyped ==
    /\ DOMAIN net = Addresses
    /\ \A a \in Addresses : net[a] \in Seq(PacketsTo(a))

HandlersTyped ==
    /\ DOMAIN handler = Routers
    /\ \A r \in Routers : handler[r] \in {Idle} \union Responding(r)

SendersTyped ==
    /\ DOMAIN sender = Routers
    /\ \A r \in Routers : sender[r] \in [Goroutines -> Sending(r)]

\* A router has the local route for its own networks, and for no others.
\* RIPHandler updates a route of which it did not find an entry; an own
\* network's entry it always found.
LocalRoutesStay ==
    \A r \in Routers, d \in Destinations : FwdTable[r][d] = LocalRoute <=> d \in Attached[r]
OwnNetworksFound ==
    \A r \in Routers : handler[r] # Idle =>
        handler[r].todo \intersect Attached[r] \subseteq handler[r].found

\* RIPHandler goes through a response before it answers anything.
HandlerSendsLast ==
    \A r \in Routers : handler[r] # Idle => sender[r]["RIPHandler"] = Resting

RipInv ==
    /\ Clocks
    /\ Tables
    /\ PacketsTyped
    /\ HandlersTyped
    /\ SendersTyped
    /\ LocalRoutesStay
    /\ OwnNetworksFound
    /\ HandlerSendsLast

------------------------------------------------------------------------------
(* Addresses, packets and queues *)

LEMMA AddressesTyped ==
    ASSUME NEW a \in Addresses
    PROVE  /\ Router(a) \in Routers /\ Prefix(a) \in Attached[Router(a)]
           /\ OtherEnds(a) \subseteq NextHops(Router(a))
BY RipAssumption DEF Addresses, Router, Prefix, OtherEnds, NextHops

\* The two ends of a network.
LEMMA SourcesAreOtherEnds ==
    ASSUME NEW r \in Routers, NEW n \in NextHops(r)
    PROVE  n \in Addresses /\ SourceOf(r, n) \in Addresses /\ SourceOf(r, n) \in OtherEnds(n)
BY RipAssumption DEF Addresses, Router, Prefix, OtherEnds, NextHops, SourceOf

LEMMA NeighborsAreNextHops ==
    ASSUME NEW r \in Routers
    PROVE  RIPNeighbors[r] \in Seq(NextHops(r))
<1>1. /\ RIPNeighbors[r] \in Seq(Addresses)
      /\ \A i \in DOMAIN RIPNeighbors[r] : RIPNeighbors[r][i] \in Addresses
  BY RipAssumption
<1>2. \A i \in DOMAIN RIPNeighbors[r] : RIPNeighbors[r][i] \in NextHops(r)
  BY <1>1, RipAssumption DEF NextHops
<1> DEFINE q == RIPNeighbors[r]
<1>3. q \in Seq(Addresses) /\ \A i \in DOMAIN q : q[i] \in NextHops(r)
  BY <1>1, <1>2
<1> HIDE DEF q
<1>4. q \in Seq(NextHops(r))
  <2>1. q = [i \in 1 .. Len(q) |-> q[i]] /\ Len(q) \in Nat /\ DOMAIN q = 1 .. Len(q)
    BY <1>3
  <2> QED BY <2>1, <1>3
<1> QED BY <1>4 DEF q

\* Nothing but the elements of a queue is taken out of it.
LEMMA QueueTail ==
    ASSUME NEW S, NEW q \in Seq(S), q # <<>>
    PROVE  Tail(q) \in Seq(S) /\ Head(q) \in S
OBVIOUS

LEMMA QueueAppend ==
    ASSUME NEW S, NEW q \in Seq(S), NEW x \in S
    PROVE  Append(q, x) \in Seq(S)
OBVIOUS

\* Every cost that goes into a response is one it can carry.
LEMMA AdvertisedCosts ==
    ASSUME NEW r \in Routers, NEW route \in Routes(r), route # NoRoute,
           NEW d, NEW n
    PROVE  AdvertisedCost(route, d, n) \in 0 .. INFINITY
<1>1. INFINITY \in Nat
  BY RipAssumption
<1>2. CASE route = LocalRoute
  <2>1. route.Cost = 0
    BY <1>2 DEF LocalRoute
  <2> QED BY <1>1, <2>1 DEF AdvertisedCost
<1>3. CASE route \in RIPRoutes(r)
  <2>1. route.Cost \in 1 .. INFINITY - 1
    BY <1>3 DEF RIPRoutes
  <2> QED BY <1>1, <2>1 DEF AdvertisedCost
<1> QED BY <1>2, <1>3 DEF Routes

LEMMA ResponseTyped ==
    ASSUME Tables, NEW r \in Routers, NEW n \in NextHops(r)
    PROVE  Response(r, n) \in PacketsTo(n)
<1> DEFINE known == {d \in Destinations : FwdTable[r][d] # NoRoute}
           entries == [d \in known |-> AdvertisedCost(FwdTable[r][d], d, n)]
<1>1. \A d \in known : AdvertisedCost(FwdTable[r][d], d, n) \in 0 .. INFINITY
  BY AdvertisedCosts DEF Tables
<1>2. entries \in [known -> 0 .. INFINITY] /\ known \in SUBSET Destinations
  BY <1>1
<1>3. entries \in Costs
  BY <1>2 DEF Costs
<1>4. Response(r, n) = [Command |-> "response", Src |-> SourceOf(r, n), Entries |-> entries]
  BY DEF Response
<1> HIDE DEF entries
<1>5. Response(r, n) \in Packets /\ Response(r, n).Src = SourceOf(r, n)
  BY <1>3, <1>4, SourcesAreOtherEnds DEF Packets
<1> QED BY <1>5, SourcesAreOtherEnds DEF PacketsTo

------------------------------------------------------------------------------
(* The operations *)

LEMMA RipInit ==
    Init => RipInv
<1> SUFFICES ASSUME Init PROVE RipInv
  OBVIOUS
<1> USE DEF Init
<1>1. Clocks
  BY RipAssumption DEF Clocks
<1>2. Tables
  BY DEF Tables, Routes
<1>3. PacketsTyped
  BY DEF PacketsTyped
<1>4. HandlersTyped
  BY DEF HandlersTyped
<1>5. SendersTyped
  <2>1. \A r \in Routers : Resting \in Sending(r)
    BY DEF Resting, Sending
  <2> QED BY <2>1 DEF SendersTyped
<1>6. LocalRoutesStay
  BY DEF LocalRoutesStay, LocalRoute, NoRoute
<1>7. OwnNetworksFound /\ HandlerSendsLast
  BY DEF OwnNetworksFound, HandlerSendsLast
<1> QED BY <1>1, <1>2, <1>3, <1>4, <1>5, <1>6, <1>7 DEF RipInv

\* A goroutine with no packet in hand is given neighbours to send to,
LEMMA SenderSet ==
    ASSUME SendersTyped, NEW r \in Routers, NEW g \in Goroutines, NEW q \in Seq(NextHops(r)),
           sender[r][g].packet = Nothing,
           sender' = [sender EXCEPT ![r][g].left = q]
    PROVE  SendersTyped'
<1>1. sender[r] \in [Goroutines -> Sending(r)] /\ sender[r][g] \in Sending(r)
  BY DEF SendersTyped
<1> DEFINE s == [sender[r][g] EXCEPT !.left = q]
<1>2. s \in Sending(r)
  BY <1>1 DEF Sending
<1>3. sender' = [sender EXCEPT ![r] = [sender[r] EXCEPT ![g] = s]]
  OBVIOUS
<1> HIDE DEF s
<1>4. [sender[r] EXCEPT ![g] = s] \in [Goroutines -> Sending(r)]
  BY <1>1, <1>2
<1> QED BY <1>3, <1>4 DEF SendersTyped

\* and HandlePacket or the network takes a packet from a queue.
LEMMA PacketTaken ==
    ASSUME PacketsTyped, NEW a \in Addresses, net[a] # <<>>,
           net' = [net EXCEPT ![a] = Tail(@)]
    PROVE  PacketsTyped' /\ Head(net[a]) \in PacketsTo(a)
<1>1. net[a] \in Seq(PacketsTo(a))
  BY DEF PacketsTyped
<1>2. Tail(net[a]) \in Seq(PacketsTo(a)) /\ Head(net[a]) \in PacketsTo(a)
  BY <1>1, QueueTail
<1> QED BY <1>2 DEF PacketsTyped

\* SendPacketToDestIP puts a packet for that address into its queue.
LEMMA PacketSent ==
    ASSUME PacketsTyped, NEW r \in Routers, NEW n \in Addresses, NEW message \in PacketsTo(n),
           net' = Sent(r, n, message)
    PROVE  PacketsTyped'
<1>1. net[n] \in Seq(PacketsTo(n))
  BY DEF PacketsTyped
<1>2. Append(net[n], message) \in Seq(PacketsTo(n))
  BY <1>1, QueueAppend
<1> QED BY <1>2 DEF PacketsTyped, Sent

LEMMA InitialRIPStep ==
    ASSUME RipInv, NEW r \in Routers, InitialRIP(r)
    PROVE  RipInv'
<1> USE DEF InitialRIP
<1>1. Clocks'
  BY RipAssumption DEF RipInv, Clocks
<1>2. Tables'
  BY DEF RipInv, Tables
<1>3. PacketsTyped'
  <2> SUFFICES ASSUME NEW a \in Addresses PROVE net'[a] \in Seq(PacketsTo(a))
    BY DEF PacketsTyped
  <2>1. net[a] \in Seq(PacketsTo(a))
    BY DEF RipInv, PacketsTyped
  <2>2. CASE \E i \in DOMAIN RIPNeighbors[r] : RIPNeighbors[r][i] = a
    <3> DEFINE message == [Command |-> "request", Src |-> SourceOf(r, a)]
    <3>1. a \in NextHops(r)
      BY <2>2, RipAssumption DEF NextHops
    <3>2. message \in PacketsTo(a)
      BY <3>1, SourcesAreOtherEnds DEF PacketsTo, Packets
    <3>3. net'[a] = Append(net[a], message) \/ net'[a] = net[a]
      OBVIOUS
    <3> HIDE DEF message
    <3> QED BY <2>1, <3>2, <3>3, QueueAppend
  <2>3. CASE ~\E i \in DOMAIN RIPNeighbors[r] : RIPNeighbors[r][i] = a
    BY <2>1, <2>3
  <2> QED BY <2>2, <2>3
<1>4. HandlersTyped'
  BY DEF RipInv, HandlersTyped
<1>5. SendersTyped'
  <2>1. sender[r]["PeriodicUpdate"].packet = Nothing
    BY DEF Quiet, Goroutines, Resting
  <2> QED BY <2>1, SenderSet, NeighborsAreNextHops DEF RipInv, Goroutines
<1>6. LocalRoutesStay'
  BY DEF RipInv, LocalRoutesStay
<1>7. OwnNetworksFound' /\ HandlerSendsLast'
  BY DEF OwnNetworksFound, HandlerSendsLast, Quiet
<1> QED BY <1>1, <1>2, <1>3, <1>4, <1>5, <1>6, <1>7 DEF RipInv

\* What a response in the making is about does not depend on the sender's queue.
LEMMA SendingStep ==
    ASSUME RipInv, NEW r \in Routers, SendRIPResponseSafe(r)
    PROVE  RipInv'
<1>1. PICK g \in Goroutines : RespondAtOnce(r, g) \/ MakeResponse(r, g) \/ SendResponse(r, g)
  BY DEF SendRIPResponseSafe
<1>2. UNCHANGED <<started, FwdTable, up, handler, untilUpdate, checkDue>>
  BY <1>1 DEF RespondAtOnce, MakeResponse, SendResponse
<1>3. Clocks' /\ Tables' /\ HandlersTyped' /\ LocalRoutesStay' /\ OwnNetworksFound'
  BY <1>2 DEF RipInv, Clocks, Tables, HandlersTyped, LocalRoutesStay, OwnNetworksFound
<1>4. /\ sender[r] \in [Goroutines -> Sending(r)] /\ sender[r][g] \in Sending(r)
      /\ DOMAIN sender = Routers
  BY DEF RipInv, SendersTyped
<1>5. sender[r][g] # Resting
  BY <1>1 DEF RespondAtOnce, MakeResponse, SendResponse, Resting
<1>6. \A n \in Routers : \A h \in Goroutines : <<n, h>> # <<r, g>> => sender'[n][h] = sender[n][h]
  BY <1>1, <1>4 DEF RespondAtOnce, MakeResponse, SendResponse, RipInv, SendersTyped
<1>7. HandlerSendsLast'
  BY <1>2, <1>5, <1>6 DEF RipInv, HandlerSendsLast, Goroutines
<1> DEFINE left == sender[r][g].left
           n == Head(left)
<1>8. left # <<>> /\ left \in Seq(NextHops(r))
  BY <1>1, <1>4 DEF RespondAtOnce, MakeResponse, SendResponse, Sending
<1>9. n \in NextHops(r) /\ n \in Addresses /\ Tail(left) \in Seq(NextHops(r))
  BY <1>8, QueueTail DEF NextHops
<1>10. Response(r, n) \in PacketsTo(n)
  BY <1>9, ResponseTyped DEF RipInv
<1>11. CASE RespondAtOnce(r, g)
  <2>1. PacketsTyped'
    BY <1>9, <1>10, <1>11, PacketSent DEF RespondAtOnce, RipInv
  <2>2. SendersTyped'
    BY <1>9, <1>11, SenderSet DEF RespondAtOnce, RipInv
  <2> QED BY <1>3, <1>7, <2>1, <2>2 DEF RipInv
<1>12. CASE MakeResponse(r, g)
  <2>1. PacketsTyped'
    BY <1>12 DEF MakeResponse, RipInv, PacketsTyped
  <2> DEFINE s == [sender[r][g] EXCEPT !.packet = Response(r, n)]
  <2>2. s \in Sending(r)
    BY <1>4, <1>8, <1>10 DEF Sending, PacketsTo
  <2>3. sender' = [sender EXCEPT ![r] = [sender[r] EXCEPT ![g] = s]]
    BY <1>12 DEF MakeResponse
  <2> HIDE DEF s
  <2>4. [sender[r] EXCEPT ![g] = s] \in [Goroutines -> Sending(r)]
    BY <1>4, <2>2
  <2>5. SendersTyped'
    BY <2>3, <2>4 DEF RipInv, SendersTyped
  <2> QED BY <1>3, <1>7, <2>1, <2>5 DEF RipInv
<1>13. CASE SendResponse(r, g)
  <2>1. sender[r][g].packet \in PacketsTo(n)
    BY <1>4, <1>13 DEF SendResponse, Sending
  <2>2. PacketsTyped'
    BY <1>9, <1>13, <2>1, PacketSent DEF SendResponse, RipInv
  <2> DEFINE s == [left |-> Tail(left), packet |-> Nothing]
  <2>3. s \in Sending(r)
    BY <1>9 DEF Sending
  <2>4. sender' = [sender EXCEPT ![r] = [sender[r] EXCEPT ![g] = s]]
    BY <1>13 DEF SendResponse
  <2> HIDE DEF s
  <2>5. [sender[r] EXCEPT ![g] = s] \in [Goroutines -> Sending(r)]
    BY <1>4, <2>3
  <2>6. SendersTyped'
    BY <2>4, <2>5 DEF RipInv, SendersTyped
  <2> QED BY <1>3, <1>7, <2>2, <2>6 DEF RipInv
<1> QED BY <1>1, <1>11, <1>12, <1>13

LEMMA TakePacketStep ==
    ASSUME RipInv, NEW r \in Routers, TakePacket(r)
    PROVE  RipInv'
<1>1. PICK a \in Addresses :
        /\ Router(a) = r
        /\ net[a] # <<>>
        /\ net' = [net EXCEPT ![a] = Tail(@)]
        /\ LET message == Head(net[a])
               isUp == Prefix(a) \in up[r]
               entries == IF message.Command = "response" THEN message.Entries ELSE <<>>
               todo == {d \in DOMAIN entries : WorthLooking(entries[d])}
           IN /\ sender' = IF isUp /\ message.Command = "request"
                           THEN [sender EXCEPT ![r]["RIPHandler"].left = <<message.Src>>]
                           ELSE sender
              /\ handler' = IF isUp /\ todo # {}
                            THEN [handler EXCEPT ![r] =
                              [Src |-> message.Src, Entries |-> entries, todo |-> todo,
                               found |-> {d \in todo : FwdTable[r][d] # NoRoute},
                               updated |-> FALSE]]
                            ELSE handler
  BY DEF TakePacket
<1> DEFINE message == Head(net[a])
           entries == IF message.Command = "response" THEN message.Entries ELSE <<>>
           todo == {d \in DOMAIN entries : WorthLooking(entries[d])}
           response == [Src |-> message.Src, Entries |-> entries, todo |-> todo,
                        found |-> {d \in todo : FwdTable[r][d] # NoRoute},
                        updated |-> FALSE]
<1>2. /\ UNCHANGED <<started, FwdTable, up, untilUpdate, checkDue>>
      /\ handler[r] = Idle /\ sender[r]["RIPHandler"] = Resting
  BY DEF TakePacket
<1>3. Clocks' /\ Tables' /\ LocalRoutesStay'
  BY <1>2 DEF RipInv, Clocks, Tables, LocalRoutesStay
<1>4. PacketsTyped' /\ message \in PacketsTo(a)
  BY <1>1, PacketTaken DEF RipInv
<1>5. message \in Packets /\ message.Src \in NextHops(r)
  BY <1>1, <1>4, AddressesTyped DEF PacketsTo
<1> HIDE DEF message
<1>6. todo # {} => message.Command = "response" /\ entries \in Costs
  BY <1>5 DEF Packets
<1>7. todo # {} => todo \in SUBSET Destinations
  BY <1>6 DEF Costs
<1>8. todo # {} => response \in Responding(r)
  BY <1>5, <1>6, <1>7 DEF Responding
<1>9. /\ handler' = [handler EXCEPT ![r] = response] /\ todo # {} /\ sender' = sender
      \/ handler' = handler
  BY <1>1, <1>6 DEF message
<1>10. HandlersTyped'
  <2> HIDE DEF response, todo
  <2> QED BY <1>8, <1>9 DEF RipInv, HandlersTyped
<1>11. SendersTyped'
  <2>1. CASE sender' = sender
    BY <2>1 DEF RipInv, SendersTyped
  <2>2. CASE sender' = [sender EXCEPT ![r]["RIPHandler"].left = <<message.Src>>]
    <3>1. <<message.Src>> \in Seq(NextHops(r))
      BY <1>5
    <3>2. sender[r]["RIPHandler"].packet = Nothing
      BY <1>2 DEF Resting
    <3> QED BY <2>2, <3>1, <3>2, SenderSet DEF RipInv, Goroutines
  <2> QED BY <1>1, <2>1, <2>2 DEF message
<1>12. OwnNetworksFound'
  <2>1. CASE handler' = handler
    BY <1>2, <2>1 DEF RipInv, OwnNetworksFound
  <2>2. CASE handler' = [handler EXCEPT ![r] = response] /\ todo # {}
    <3>1. \A d \in todo : d \in Attached[r] => FwdTable[r][d] # NoRoute
      BY <1>7 DEF RipInv, LocalRoutesStay, LocalRoute, NoRoute
    <3>2. response.todo \intersect Attached[r] \subseteq response.found
      BY <3>1
    <3> HIDE DEF response, todo
    <3> QED BY <2>2, <3>2 DEF RipInv, OwnNetworksFound, HandlersTyped
  <2> QED BY <1>9, <2>1, <2>2
<1>13. HandlerSendsLast'
  <2>1. CASE handler' = handler
    <3>1. \A n \in Routers : n # r => sender'[n] = sender[n]
      BY <1>1 DEF RipInv, SendersTyped
    <3> QED BY <1>2, <2>1, <3>1 DEF RipInv, HandlerSendsLast
  <2>2. CASE handler' = [handler EXCEPT ![r] = response] /\ sender' = sender
    <3> HIDE DEF response
    <3> QED BY <1>2, <2>2 DEF RipInv, HandlerSendsLast, HandlersTyped
  <2> QED BY <1>9, <2>1, <2>2
<1> QED BY <1>3, <1>4, <1>10, <1>11, <1>12, <1>13 DEF RipInv

\* What UpdateEntry does with entry d, which it has found or not.
Updates(r, d, ok) ==
    LET srcIP == handler[r].Src
        cost == handler[r].Entries[d] + 1
        current == FwdTable[r][d]
        isRIP == ok /\ current.RouteType = "rip"
        changed == \/ ~ok
                   \/ isRIP /\ Better(cost, current)
                   \/ isRIP /\ WorseFromNextHop(cost, srcIP, current)
        refreshed == isRIP /\ SameFromNextHop(cost, srcIP, current)
        updated == handler[r].updated \/ changed
        last == handler[r].todo = {d}
    IN /\ FwdTable' = IF changed \/ refreshed
                      THEN [FwdTable EXCEPT ![r][d] = RIPRoute(cost, srcIP)]
                      ELSE FwdTable
       /\ handler' = [handler EXCEPT ![r] =
            IF last THEN Idle ELSE [handler[r] EXCEPT !.todo = @ \ {d}, !.updated = updated]]
       /\ sender' = IF last /\ updated
                    THEN [sender EXCEPT ![r]["RIPHandler"].left = RIPNeighbors[r]]
                    ELSE sender

\* An entry whose cost one hop further is below INFINITY makes a route whose
\* cost is; the route to an own network was found, and is no RIP route.
LEMMA UpdateEntryStep ==
    ASSUME RipInv, NEW r \in Routers, UpdateEntry(r)
    PROVE  RipInv'
<1> DEFINE h == handler[r]
<1>1. PICK d \in h.todo : \E ok \in {FwdTable[r][d] # NoRoute, d \in h.found} : Updates(r, d, ok)
  BY DEF UpdateEntry, Updates
<1>ok. PICK ok \in {FwdTable[r][d] # NoRoute, d \in h.found} : Updates(r, d, ok)
  BY <1>1
<1>2. UNCHANGED <<started, up, untilUpdate, checkDue, net>> /\ h # Idle
  BY DEF UpdateEntry
<1>3. Clocks' /\ PacketsTyped'
  BY <1>2 DEF RipInv, Clocks, PacketsTyped
<1>4. h \in Responding(r) /\ DOMAIN handler = Routers
  BY <1>2 DEF RipInv, HandlersTyped
<1>5. /\ h.Src \in NextHops(r) /\ d \in Destinations /\ d \in DOMAIN h.Entries
      /\ WorthLooking(h.Entries[d]) /\ h.Entries \in Costs
      /\ h.todo \in SUBSET Destinations /\ h.found \in SUBSET Destinations
      /\ h.updated \in BOOLEAN
  BY <1>1, <1>4 DEF Responding
<1>6. h.Entries[d] \in 0 .. INFINITY
  BY <1>5 DEF Costs
<1> DEFINE route == RIPRoute(h.Entries[d] + 1, h.Src)
<1>7. route \in RIPRoutes(r)
  <2>1. h.Entries[d] + 1 \in 1 .. INFINITY - 1 /\ 0 \in 0 .. EntryExpiredTime + 1
    BY <1>5, <1>6, RipAssumption DEF WorthLooking
  <2> QED BY <1>5, <2>1 DEF RIPRoutes, RIPRoute
<1>8. FwdTable' = FwdTable \/ FwdTable' = [FwdTable EXCEPT ![r][d] = route]
  BY <1>ok DEF Updates
<1>9. FwdTable' # FwdTable => d \notin Attached[r]
  <2> SUFFICES ASSUME d \in Attached[r] PROVE FwdTable' = FwdTable
    OBVIOUS
  <2>1. FwdTable[r][d] = LocalRoute
    BY <1>5 DEF RipInv, LocalRoutesStay
  <2>2. d \in h.found
    BY <1>1, <1>2 DEF RipInv, OwnNetworksFound
  <2>3. FwdTable[r][d].RouteType # "rip" /\ FwdTable[r][d] # NoRoute
    BY <2>1 DEF LocalRoute, NoRoute
  <2> QED BY <1>ok, <2>2, <2>3 DEF Updates
<1>10. Tables' /\ LocalRoutesStay'
  <2>1. CASE FwdTable' = FwdTable
    BY <2>1 DEF RipInv, Tables, LocalRoutesStay
  <2>2. CASE FwdTable' = [FwdTable EXCEPT ![r][d] = route] /\ d \notin Attached[r]
    <3>1. route \in Routes(r) /\ route # LocalRoute
      BY <1>7 DEF Routes, RIPRoutes, LocalRoute
    <3> HIDE DEF route
    <3>2. [FwdTable[r] EXCEPT ![d] = route] \in [Destinations -> Routes(r)]
      BY <3>1 DEF RipInv, Tables
    <3>3. FwdTable' = [FwdTable EXCEPT ![r] = [FwdTable[r] EXCEPT ![d] = route]]
      BY <2>2
    <3>4. Tables'
      BY <3>2, <3>3 DEF RipInv, Tables
    <3>5. \A n \in Routers, e \in Destinations :
            FwdTable'[n][e] = IF n = r /\ e = d THEN route ELSE FwdTable[n][e]
      BY <3>3 DEF RipInv, Tables
    <3> QED BY <2>2, <3>1, <3>4, <3>5 DEF RipInv, LocalRoutesStay
  <2> QED BY <1>8, <1>9, <2>1, <2>2
<1>11. \/ handler' = [handler EXCEPT ![r] = Idle]
       \/ /\ \E updated \in BOOLEAN :
               handler' = [handler EXCEPT ![r] = [h EXCEPT !.todo = @ \ {d}, !.updated = updated]]
          /\ sender' = sender
  <2>1. CASE h.todo = {d}
    BY <1>ok, <2>1 DEF Updates
  <2>2. CASE h.todo # {d}
    <3>1. sender' = sender
      BY <1>ok, <2>2 DEF Updates
    <3>2. \/ handler' = [handler EXCEPT ![r] = [h EXCEPT !.todo = @ \ {d}, !.updated = TRUE]]
          \/ handler' = [handler EXCEPT ![r] = [h EXCEPT !.todo = @ \ {d}, !.updated = FALSE]]
      BY <1>ok, <2>2, <1>5 DEF Updates
    <3> QED BY <3>1, <3>2
  <2> QED BY <2>1, <2>2
<1>12. HandlersTyped' /\ OwnNetworksFound'
  <2>1. CASE handler' = [handler EXCEPT ![r] = Idle]
    BY <2>1 DEF RipInv, HandlersTyped, OwnNetworksFound
  <2>2. ASSUME NEW updated \in BOOLEAN,
               handler' = [handler EXCEPT ![r] = [h EXCEPT !.todo = @ \ {d}, !.updated = updated]]
        PROVE  HandlersTyped' /\ OwnNetworksFound'
    <3> DEFINE rest == [h EXCEPT !.todo = @ \ {d}, !.updated = updated]
    <3>1. rest \in Responding(r)
      BY <1>4 DEF Responding
    <3>2. rest.todo \intersect Attached[r] \subseteq rest.found
      BY <1>2, <1>4 DEF Responding, RipInv, OwnNetworksFound
    <3>3. handler' = [handler EXCEPT ![r] = rest]
      BY <2>2
    <3> HIDE DEF rest
    <3> QED BY <3>1, <3>2, <3>3 DEF RipInv, HandlersTyped, OwnNetworksFound
  <2> QED BY <1>11, <2>1, <2>2
<1>13. sender[r]["RIPHandler"] = Resting
  BY <1>2 DEF RipInv, HandlerSendsLast
<1>14. sender' = sender \/ sender' = [sender EXCEPT ![r]["RIPHandler"].left = RIPNeighbors[r]]
  BY <1>ok DEF Updates
<1>15. SendersTyped'
  <2>1. CASE sender' = sender
    BY <2>1 DEF RipInv, SendersTyped
  <2>2. CASE sender' = [sender EXCEPT ![r]["RIPHandler"].left = RIPNeighbors[r]]
    <3>1. sender[r]["RIPHandler"].packet = Nothing
      BY <1>13 DEF Resting
    <3> QED BY <2>2, <3>1, SenderSet, NeighborsAreNextHops DEF RipInv, Goroutines
  <2> QED BY <1>14, <2>1, <2>2
<1>16. HandlerSendsLast'
  <2>1. \A n \in Routers : n # r => sender'[n] = sender[n] /\ handler'[n] = handler[n]
    BY <1>11, <1>14 DEF RipInv, SendersTyped, HandlersTyped
  <2>2. handler'[r] = Idle \/ sender'[r]["RIPHandler"] = Resting
    BY <1>4, <1>11, <1>13
  <2> QED BY <2>1, <2>2 DEF RipInv, HandlerSendsLast
<1> QED BY <1>3, <1>10, <1>12, <1>15, <1>16 DEF RipInv

LEMMA PeriodicExpiryStep ==
    ASSUME RipInv, NEW r \in Routers, PeriodicExpiry(r)
    PROVE  RipInv'
<1> USE DEF PeriodicExpiry
<1>1. Clocks' /\ PacketsTyped' /\ HandlersTyped' /\ SendersTyped'
  BY DEF RipInv, Clocks, PacketsTyped, HandlersTyped, SendersTyped
<1>2. \A n \in Routers, d \in Destinations :
        FwdTable'[n][d] = IF n = r /\ Expired(FwdTable[r][d]) THEN NoRoute ELSE FwdTable[n][d]
  BY DEF RipInv, Tables
<1>3. [d \in Destinations |-> IF Expired(FwdTable[r][d]) THEN NoRoute ELSE FwdTable[r][d]]
        \in [Destinations -> Routes(r)]
  BY DEF RipInv, Tables, Routes
<1>4. Tables'
  BY <1>3 DEF RipInv, Tables
<1>5. LocalRoutesStay'
  BY <1>2 DEF RipInv, LocalRoutesStay, Expired, LocalRoute, NoRoute
<1>6. OwnNetworksFound' /\ HandlerSendsLast'
  BY DEF RipInv, OwnNetworksFound, HandlerSendsLast
<1> QED BY <1>1, <1>4, <1>5, <1>6 DEF RipInv

LEMMA OlderRoutes ==
    ASSUME NEW r \in Routers, NEW route \in Routes(r)
    PROVE  Older(route) \in Routes(r) /\ (Older(route) = LocalRoute <=> route = LocalRoute)
<1>1. CASE route \in {NoRoute, LocalRoute}
  BY <1>1 DEF Older, NoRoute, LocalRoute, Routes
<1>2. CASE route \in RIPRoutes(r)
  <2>1. Older(route) \in RIPRoutes(r)
    BY <1>2, RipAssumption DEF Older, RIPRoutes
  <2> QED BY <1>2, <2>1 DEF Routes, RIPRoutes, LocalRoute
<1> QED BY <1>1, <1>2 DEF Routes

LEMMA TickStep ==
    ASSUME RipInv, Tick
    PROVE  RipInv'
<1> USE DEF Tick
<1>1. Clocks'
  <2>1. started' \subseteq Routers /\ checkDue' \subseteq started'
    BY DEF RipInv, Clocks
  <2>2. DOMAIN up' = Routers /\ (\A r \in Routers : up'[r] \subseteq Attached[r])
          /\ DOMAIN untilUpdate' = Routers
    BY DEF RipInv, Clocks
  <2>3. ASSUME NEW r \in Routers
        PROVE  untilUpdate'[r] \in IF r \in started' THEN 1 .. UpdateInterval ELSE {0}
    <3>1. untilUpdate[r] \in IF r \in started THEN 1 .. UpdateInterval ELSE {0}
      BY DEF RipInv, Clocks
    <3>2. untilUpdate'[r] = IF r \notin started THEN 0
                           ELSE IF untilUpdate[r] = 1 THEN UpdateInterval
                           ELSE untilUpdate[r] - 1
      OBVIOUS
    <3> QED BY <3>1, <3>2, RipAssumption
  <2> QED BY <2>1, <2>2, <2>3 DEF Clocks
<1>2. \A r \in Routers, d \in Destinations : FwdTable'[r][d] = Older(FwdTable[r][d])
  BY DEF RipInv, Tables
<1>3. \A r \in Routers : \A d \in Destinations :
        Older(FwdTable[r][d]) \in Routes(r)
          /\ (Older(FwdTable[r][d]) = LocalRoute <=> FwdTable[r][d] = LocalRoute)
  BY OlderRoutes DEF RipInv, Tables
<1>4. Tables'
  BY <1>3 DEF Tables
<1>5. LocalRoutesStay'
  BY <1>2, <1>3 DEF RipInv, LocalRoutesStay
<1>6. PacketsTyped' /\ HandlersTyped'
  BY DEF RipInv, PacketsTyped, HandlersTyped
<1>7. SendersTyped'
  <2> SUFFICES ASSUME NEW r \in Routers PROVE sender'[r] \in [Goroutines -> Sending(r)]
    BY DEF SendersTyped
  <2>1. sender[r] \in [Goroutines -> Sending(r)]
    BY DEF RipInv, SendersTyped
  <2>2. CASE sender'[r] = sender[r]
    BY <2>1, <2>2
  <2>3. CASE sender'[r] = [sender[r] EXCEPT !["PeriodicUpdate"].left = RIPNeighbors[r]]
    <3> DEFINE s == [sender[r]["PeriodicUpdate"] EXCEPT !.left = RIPNeighbors[r]]
    <3>1. sender[r]["PeriodicUpdate"] = Resting
      BY DEF Quiet, Goroutines
    <3>2. s \in Sending(r)
      BY <3>1, NeighborsAreNextHops DEF Resting, Sending
    <3>3. sender'[r] = [sender[r] EXCEPT !["PeriodicUpdate"] = s]
      BY <2>3
    <3> HIDE DEF s
    <3> QED BY <2>1, <3>2, <3>3
  <2> QED BY <2>2, <2>3
<1>8. OwnNetworksFound' /\ HandlerSendsLast'
  BY DEF OwnNetworksFound, HandlerSendsLast, Quiet
<1> QED BY <1>1, <1>4, <1>5, <1>6, <1>7, <1>8 DEF RipInv

\* The commands and the network touch nothing else.
LEMMA CommandStep ==
    ASSUME RipInv, NEW r \in Routers, Down(r) \/ Up(r)
    PROVE  RipInv'
<1>1. UNCHANGED <<started, FwdTable, handler, sender, untilUpdate, checkDue, net>>
  BY DEF Down, Up
<1>2. \E q \in Attached[r] : up' = [up EXCEPT ![r] = @ \ {q}] \/ up' = [up EXCEPT ![r] = @ \union {q}]
  BY DEF Down, Up, RipInv, Clocks
<1>3. Clocks'
  BY <1>1, <1>2 DEF RipInv, Clocks
<1> QED BY <1>1, <1>3
        DEF RipInv, Tables, PacketsTyped, HandlersTyped, SendersTyped, LocalRoutesStay,
            OwnNetworksFound, HandlerSendsLast

LEMMA LoseStep ==
    ASSUME RipInv, NEW a \in Addresses, Lose(a)
    PROVE  RipInv'
<1>1. UNCHANGED <<started, FwdTable, up, handler, sender, untilUpdate, checkDue>>
  BY DEF Lose
<1>2. PacketsTyped'
  BY PacketTaken DEF RipInv, Lose
<1> QED BY <1>1, <1>2
        DEF RipInv, Clocks, Tables, HandlersTyped, SendersTyped, LocalRoutesStay,
            OwnNetworksFound, HandlerSendsLast

LEMMA RipStep ==
    ASSUME RipInv, [Next]_vars
    PROVE  RipInv'
<1>1. CASE Next
  <2>1. ASSUME NEW r \in Routers, InitialRIP(r) \/ Run(r) \/ Down(r) \/ Up(r)
        PROVE  RipInv'
    <3>1. CASE RIPHandler(r)
      BY <3>1, TakePacketStep, UpdateEntryStep DEF RIPHandler
    <3> QED BY <2>1, <3>1, InitialRIPStep, SendingStep, PeriodicExpiryStep, CommandStep DEF Run
  <2> QED BY <1>1, <2>1, LoseStep, TickStep DEF Next
<1>2. CASE UNCHANGED vars
  BY <1>2 DEF vars, RipInv, Clocks, Tables, PacketsTyped, HandlersTyped, SendersTyped,
              LocalRoutesStay, OwnNetworksFound, HandlerSendsLast
<1> QED BY <1>1, <1>2

------------------------------------------------------------------------------
(* The theorems *)

\* Whatever routers start, send, lose and switch off, and in whatever order
\* RIPHandler and the two periodic goroutines of each come to the table, the
\* tables, the packets and the goroutines are typed.
THEOREM RipIsTyped == Spec => []RipInv
<1>1. Init => RipInv
  BY RipInit
<1>2. RipInv /\ [Next]_vars => RipInv'
  BY RipStep
<1> QED BY <1>1, <1>2, PTL DEF Spec

LEMMA RipInvGivesTypeOK ==
    ASSUME RipInv
    PROVE  TypeOK
<1>1. started \subseteq Routers /\ checkDue \subseteq started
  BY DEF RipInv, Clocks
<1>2. ASSUME NEW r \in Routers
      PROVE  up[r] \subseteq Attached[r] /\ untilUpdate[r] \in 0 .. UpdateInterval
  <2>1. /\ up[r] \subseteq Attached[r]
        /\ untilUpdate[r] \in IF r \in started THEN 1 .. UpdateInterval ELSE {0}
    BY DEF RipInv, Clocks
  <2> QED BY <2>1, RipAssumption
<1>3. ASSUME NEW r \in Routers, NEW d \in Destinations, FwdTable[r][d].RouteType = "rip"
      PROVE  LET route == FwdTable[r][d] IN
             /\ route.Cost \in 1 .. INFINITY - 1
             /\ route.age \in 0 .. EntryExpiredTime + 1
             /\ route.NextHop \in Addresses
             /\ Router(route.NextHop) # r /\ Prefix(route.NextHop) \in Attached[r]
  <2>1. FwdTable[r][d] \in Routes(r)
    BY DEF RipInv, Tables
  <2>2. FwdTable[r][d] \in RIPRoutes(r)
    BY <1>3, <2>1 DEF Routes, NoRoute, LocalRoute
  <2> QED BY <2>2 DEF RIPRoutes, NextHops
<1>4. ASSUME NEW r \in Routers, NEW d \in handler[r].todo
      PROVE  handler[r].Entries[d] \in 0 .. INFINITY - 2
  <2>1. handler[r] \in Responding(r)
    BY DEF RipInv, HandlersTyped, Idle
  <2>2. /\ handler[r].Entries \in Costs /\ d \in DOMAIN handler[r].Entries
        /\ WorthLooking(handler[r].Entries[d])
    BY <2>1 DEF Responding
  <2>3. handler[r].Entries[d] \in 0 .. INFINITY
    BY <2>2 DEF Costs
  <2> QED BY <2>2, <2>3, RipAssumption DEF WorthLooking
<1>5. ASSUME NEW a \in Addresses, NEW i \in DOMAIN net[a], net[a][i].Command = "response"
      PROVE  \A d \in DOMAIN net[a][i].Entries : net[a][i].Entries[d] \in 0 .. INFINITY
  <2>1. net[a][i] \in PacketsTo(a)
    BY DEF RipInv, PacketsTyped
  <2>2. net[a][i].Entries \in Costs
    BY <1>5, <2>1 DEF PacketsTo, Packets
  <2> QED BY <2>2 DEF Costs
<1> QED BY <1>1, <1>2, <1>3, <1>4, <1>5 DEF TypeOK

\* A route RIPHandler has learnt costs less than INFINITY, so that the test of
\* its cost in PeriodicExpiry never decides; and its next hop is another
\* router on a network of one's own, to which the packet can be handed.
THEOREM RoutesAreTyped == Spec => []TypeOK
<1>1. RipInv => TypeOK
  BY RipInvGivesTypeOK
<1> QED BY <1>1, RipIsTyped, PTL

\* No response and no expiry takes the local route of an own network away, and
\* no other prefix ever has one: RIPHandler, which looks an entry up first and
\* writes it later, has found it whenever it is local.
THEOREM OwnNetworksStayLocal == Spec => []LocalRoutesStay
<1>1. RipInv => LocalRoutesStay
  BY DEF RipInv
<1> QED BY <1>1, RipIsTyped, PTL

------------------------------------------------------------------------------
(* What the neighbours' responses can make of a table *)

\* Good holds the <<router, prefix, next hop, cost>> that a route may be, Said
\* the <<sender, receiver, prefix, cost>> that an entry of a response may be.
Keeps(message, a, Said) ==
    message.Command = "response" =>
        \A d \in DOMAIN message.Entries : <<message.Src, a, d, message.Entries[d]>> \in Said

RoutesIn(Good) ==
    \A r \in Routers, d \in Destinations :
        FwdTable[r][d].RouteType = "rip" =>
            <<r, d, FwdTable[r][d].NextHop, FwdTable[r][d].Cost>> \in Good

NetIn(Said) == \A a \in Addresses : \A i \in DOMAIN net[a] : Keeps(net[a][i], a, Said)
SendersIn(Said) ==
    \A r \in Routers, g \in Goroutines :
        sender[r][g].packet # Nothing => Keeps(sender[r][g].packet, Head(sender[r][g].left), Said)
HandlersIn(Said) ==
    \A r \in Routers : handler[r] # Idle =>
        \A d \in handler[r].todo :
            <<handler[r].Src, SourceOf(r, handler[r].Src), d, handler[r].Entries[d]>> \in Said

AllIn(Good, Said) == RoutesIn(Good) /\ NetIn(Said) /\ SendersIn(Said) /\ HandlersIn(Said)

\* An entry that is said makes a good route, and a good route or one's own
\* network is advertised as an entry that may be said.
Closed(Good, Said) ==
    \A r \in Routers, d \in Destinations : \A n \in NextHops(r) :
        IF d \in Attached[r]
        THEN <<SourceOf(r, n), n, d, AdvertisedCost(LocalRoute, d, n)>> \in Said
        ELSE /\ \A cost \in 0 .. INFINITY :
                  <<n, SourceOf(r, n), d, cost>> \in Said /\ WorthLooking(cost)
                     => <<r, d, n, cost + 1>> \in Good
             /\ \A route \in RIPRoutes(r) :
                  <<r, d, route.NextHop, route.Cost>> \in Good
                     => <<SourceOf(r, n), n, d, AdvertisedCost(route, d, n)>> \in Said

LEMMA ResponseKeeps ==
    ASSUME NEW Good, NEW Said, Closed(Good, Said), RipInv, RoutesIn(Good),
           NEW r \in Routers, NEW n \in NextHops(r)
    PROVE  Keeps(Response(r, n), n, Said)
<1> DEFINE known == {d \in Destinations : FwdTable[r][d] # NoRoute}
           entries == [d \in known |-> AdvertisedCost(FwdTable[r][d], d, n)]
<1>1. Response(r, n) = [Command |-> "response", Src |-> SourceOf(r, n), Entries |-> entries]
  BY DEF Response
<1>2. ASSUME NEW d \in known
      PROVE  <<SourceOf(r, n), n, d, AdvertisedCost(FwdTable[r][d], d, n)>> \in Said
  <2>1. d \in Destinations /\ FwdTable[r][d] \in Routes(r) /\ FwdTable[r][d] # NoRoute
    BY DEF RipInv, Tables
  <2>2. CASE FwdTable[r][d] = LocalRoute
    <3>1. d \in Attached[r]
      BY <2>1, <2>2 DEF RipInv, LocalRoutesStay
    <3> QED BY <2>1, <2>2, <3>1 DEF Closed
  <2>3. CASE FwdTable[r][d] # LocalRoute
    <3>1. d \notin Attached[r] /\ FwdTable[r][d] \in RIPRoutes(r)
      BY <2>1, <2>3 DEF RipInv, LocalRoutesStay, Routes
    <3>2. FwdTable[r][d].RouteType = "rip"
      BY <3>1 DEF RIPRoutes
    <3>3. <<r, d, FwdTable[r][d].NextHop, FwdTable[r][d].Cost>> \in Good
      BY <2>1, <3>2 DEF RoutesIn
    <3> QED BY <2>1, <3>1, <3>3 DEF Closed
  <2> QED BY <2>2, <2>3
<1>3. \A d \in DOMAIN entries : <<SourceOf(r, n), n, d, entries[d]>> \in Said
  BY <1>2
<1> HIDE DEF entries
<1> QED BY <1>1, <1>3 DEF Keeps

\* What is put into a queue or taken out of it leaves the other packets.
LEMMA NetAppended ==
    ASSUME NEW Said, PacketsTyped, NetIn(Said), NEW r \in Routers, NEW n \in Addresses,
           NEW message \in PacketsTo(n), Keeps(message, n, Said), net' = Sent(r, n, message)
    PROVE  NetIn(Said)'
<1> SUFFICES ASSUME NEW a \in Addresses, NEW i \in DOMAIN net'[a]
             PROVE  Keeps(net'[a][i], a, Said)
  BY DEF NetIn
<1>1. net[a] \in Seq(PacketsTo(a)) /\ DOMAIN net = Addresses
  BY DEF PacketsTyped
<1>2. net'[a] = net[a] \/ (a = n /\ net'[a] = Append(net[a], message))
  BY <1>1 DEF Sent
<1>3. CASE net'[a] = net[a]
  BY <1>3 DEF NetIn
<1>4. CASE a = n /\ net'[a] = Append(net[a], message)
  <2>1. i \in 1 .. Len(net[a]) + 1 /\ Len(net[a]) \in Nat /\ DOMAIN net[a] = 1 .. Len(net[a])
    BY <1>1, <1>4
  <2>2. CASE i = Len(net[a]) + 1
    BY <1>1, <1>4, <2>1, <2>2
  <2>3. CASE i # Len(net[a]) + 1
    <3>1. i \in DOMAIN net[a] /\ net'[a][i] = net[a][i]
      BY <1>1, <1>4, <2>1, <2>3
    <3> QED BY <3>1 DEF NetIn
  <2> QED BY <2>2, <2>3
<1> QED BY <1>2, <1>3, <1>4

LEMMA NetTaken ==
    ASSUME NEW Said, PacketsTyped, NetIn(Said), NEW a \in Addresses, net[a] # <<>>,
           net' = [net EXCEPT ![a] = Tail(@)]
    PROVE  NetIn(Said)' /\ Keeps(Head(net[a]), a, Said)
<1>1. net[a] \in Seq(PacketsTo(a)) /\ DOMAIN net = Addresses
  BY DEF PacketsTyped
<1>2. 1 \in DOMAIN net[a] /\ Head(net[a]) = net[a][1]
  BY <1>1
<1>3. \A i \in DOMAIN Tail(net[a]) : i + 1 \in DOMAIN net[a] /\ Tail(net[a])[i] = net[a][i + 1]
  BY <1>1
<1>4. ASSUME NEW n \in Addresses, NEW i \in DOMAIN net'[n]
      PROVE  Keeps(net'[n][i], n, Said)
  <2>1. CASE n = a
    <3>1. net'[n] = Tail(net[a])
      BY <1>1, <2>1
    <3>2. i + 1 \in DOMAIN net[a] /\ net'[n][i] = net[a][i + 1]
      BY <1>3, <3>1
    <3> QED BY <2>1, <3>2 DEF NetIn
  <2>2. CASE n # a
    <3>1. net'[n] = net[n]
      BY <1>1, <2>2
    <3> QED BY <3>1 DEF NetIn
  <2> QED BY <2>1, <2>2
<1> QED BY <1>2, <1>4 DEF NetIn

LEMMA NetAsked ==
    ASSUME NEW Said, RipInv, NetIn(Said), NEW r \in Routers, InitialRIP(r)
    PROVE  NetIn(Said)'
<1> SUFFICES ASSUME NEW a \in Addresses, NEW i \in DOMAIN net'[a]
             PROVE  Keeps(net'[a][i], a, Said)
  BY DEF NetIn
<1> DEFINE message == [Command |-> "request", Src |-> SourceOf(r, a)]
<1>1. net[a] = <<>>
  BY DEF InitialRIP, Quiet
<1>2. net'[a] = net[a] \/ net'[a] = Append(net[a], message)
  BY DEF InitialRIP
<1>3. message.Command # "response"
  OBVIOUS
<1> HIDE DEF message
<1>4. net'[a] = <<message>> /\ i = 1
  BY <1>1, <1>2
<1> QED BY <1>3, <1>4 DEF Keeps

LEMMA SendingKeeps ==
    ASSUME NEW Good, NEW Said, Closed(Good, Said), RipInv, AllIn(Good, Said),
           NEW r \in Routers, SendRIPResponseSafe(r)
    PROVE  AllIn(Good, Said)'
<1>1. PICK g \in Goroutines : RespondAtOnce(r, g) \/ MakeResponse(r, g) \/ SendResponse(r, g)
  BY DEF SendRIPResponseSafe
<1>2. FwdTable' = FwdTable /\ handler' = handler
  BY <1>1 DEF RespondAtOnce, MakeResponse, SendResponse
<1>3. RoutesIn(Good)' /\ HandlersIn(Said)'
  BY <1>2 DEF AllIn, RoutesIn, HandlersIn
<1>4. /\ sender[r] \in [Goroutines -> Sending(r)] /\ sender[r][g] \in Sending(r)
      /\ DOMAIN sender = Routers /\ \A m \in Routers : DOMAIN sender[m] = Goroutines
  BY DEF RipInv, SendersTyped
<1> DEFINE left == sender[r][g].left
           n == Head(left)
<1>5. left # <<>> /\ left \in Seq(NextHops(r))
  BY <1>1, <1>4 DEF RespondAtOnce, MakeResponse, SendResponse, Sending
<1>6. n \in NextHops(r) /\ n \in Addresses
  BY <1>5, QueueTail DEF NextHops
<1>7. Response(r, n) \in PacketsTo(n) /\ Keeps(Response(r, n), n, Said)
  BY <1>6, ResponseTyped, ResponseKeeps DEF RipInv, AllIn
<1>8. NetIn(Said)'
  <2>1. CASE RespondAtOnce(r, g)
    BY <1>6, <1>7, <2>1, NetAppended DEF RespondAtOnce, RipInv, AllIn
  <2>2. CASE MakeResponse(r, g)
    BY <2>2 DEF MakeResponse, AllIn, NetIn
  <2>3. CASE SendResponse(r, g)
    <3>1. sender[r][g].packet \in PacketsTo(n)
      BY <1>4, <2>3 DEF SendResponse, Sending
    <3>2. Keeps(sender[r][g].packet, n, Said)
      BY <2>3 DEF SendResponse, AllIn, SendersIn
    <3> QED BY <1>6, <2>3, <3>1, <3>2, NetAppended DEF SendResponse, RipInv, AllIn
  <2> QED BY <1>1, <2>1, <2>2, <2>3
<1>9. SendersIn(Said)'
  <2> SUFFICES ASSUME NEW m \in Routers, NEW h \in Goroutines, sender'[m][h].packet # Nothing
               PROVE  Keeps(sender'[m][h].packet, Head(sender'[m][h].left), Said)
    BY DEF SendersIn
  <2>1. CASE m = r /\ h = g
    <3>1. CASE RespondAtOnce(r, g)
      BY <1>4, <2>1, <3>1 DEF RespondAtOnce
    <3>2. CASE MakeResponse(r, g)
      <4>1. sender'[m][h].packet = Response(r, n) /\ sender'[m][h].left = left
        BY <1>4, <2>1, <3>2 DEF MakeResponse, Sending
      <4> QED BY <1>7, <4>1
    <3>3. CASE SendResponse(r, g)
      BY <1>4, <2>1, <3>3 DEF SendResponse
    <3> QED BY <1>1, <3>1, <3>2, <3>3
  <2>2. CASE ~(m = r /\ h = g)
    <3>1. sender'[m][h] = sender[m][h]
      BY <1>1, <1>4, <2>2 DEF RespondAtOnce, MakeResponse, SendResponse
    <3> QED BY <3>1 DEF AllIn, SendersIn
  <2> QED BY <2>1, <2>2
<1> QED BY <1>3, <1>8, <1>9 DEF AllIn

\* A goroutine that is given neighbours to send to has no response in hand yet.
LEMMA SendersSet ==
    ASSUME NEW Said, SendersTyped, SendersIn(Said), NEW r \in Routers, NEW g \in Goroutines,
           NEW q, sender[r][g].packet = Nothing,
           sender' = [sender EXCEPT ![r][g].left = q]
    PROVE  SendersIn(Said)'
<1> SUFFICES ASSUME NEW m \in Routers, NEW h \in Goroutines, sender'[m][h].packet # Nothing
             PROVE  Keeps(sender'[m][h].packet, Head(sender'[m][h].left), Said)
  BY DEF SendersIn
<1>1. /\ DOMAIN sender = Routers /\ sender[r] \in [Goroutines -> Sending(r)]
      /\ sender[r][g] \in Sending(r) /\ \A n \in Routers : DOMAIN sender[n] = Goroutines
  BY DEF SendersTyped
<1>2. CASE m = r /\ h = g
  <2>1. sender'[m][h].packet = sender[r][g].packet
    BY <1>1, <1>2 DEF Sending
  <2> QED BY <2>1
<1>3. CASE ~(m = r /\ h = g)
  <2>1. sender'[m][h] = sender[m][h]
    BY <1>1, <1>3
  <2> QED BY <2>1 DEF SendersIn
<1> QED BY <1>2, <1>3

LEMMA TakePacketKeeps ==
    ASSUME NEW Good, NEW Said, RipInv, AllIn(Good, Said), NEW r \in Routers, TakePacket(r)
    PROVE  AllIn(Good, Said)'
<1>1. PICK a \in Addresses :
        /\ Router(a) = r
        /\ net[a] # <<>>
        /\ net' = [net EXCEPT ![a] = Tail(@)]
        /\ LET message == Head(net[a])
               isUp == Prefix(a) \in up[r]
               entries == IF message.Command = "response" THEN message.Entries ELSE <<>>
               todo == {d \in DOMAIN entries : WorthLooking(entries[d])}
           IN /\ sender' = IF isUp /\ message.Command = "request"
                           THEN [sender EXCEPT ![r]["RIPHandler"].left = <<message.Src>>]
                           ELSE sender
              /\ handler' = IF isUp /\ todo # {}
                            THEN [handler EXCEPT ![r] =
                              [Src |-> message.Src, Entries |-> entries, todo |-> todo,
                               found |-> {d \in todo : FwdTable[r][d] # NoRoute},
                               updated |-> FALSE]]
                            ELSE handler
  BY DEF TakePacket
<1> DEFINE message == Head(net[a])
           entries == IF message.Command = "response" THEN message.Entries ELSE <<>>
           todo == {d \in DOMAIN entries : WorthLooking(entries[d])}
           response == [Src |-> message.Src, Entries |-> entries, todo |-> todo,
                        found |-> {d \in todo : FwdTable[r][d] # NoRoute},
                        updated |-> FALSE]
<1>2. FwdTable' = FwdTable /\ sender[r]["RIPHandler"] = Resting
  BY DEF TakePacket
<1>3. RoutesIn(Good)'
  BY <1>2 DEF AllIn, RoutesIn
<1>4. NetIn(Said)' /\ Keeps(message, a, Said)
  BY <1>1, NetTaken DEF RipInv, AllIn
<1>5. message \in PacketsTo(a)
  BY <1>1, PacketTaken DEF RipInv
<1>6. a = SourceOf(r, message.Src)
  <2>1. message.Src \in OtherEnds(a)
    BY <1>5 DEF PacketsTo
  <2> QED BY <1>1, <2>1 DEF OtherEnds, SourceOf, Addresses, Router, Prefix
<1>7. SendersIn(Said)'
  <2>1. CASE sender' = sender
    BY <2>1 DEF AllIn, SendersIn
  <2>2. CASE sender' = [sender EXCEPT ![r]["RIPHandler"].left = <<message.Src>>]
    <3>1. sender[r]["RIPHandler"].packet = Nothing
      BY <1>2 DEF Resting
    <3> HIDE DEF message
    <3> QED BY <2>2, <3>1, SendersSet DEF RipInv, Goroutines, AllIn
  <2> QED BY <1>1, <2>1, <2>2
<1>8. HandlersIn(Said)'
  <2>1. CASE handler' = handler
    BY <2>1 DEF AllIn, HandlersIn
  <2>2. CASE handler' = [handler EXCEPT ![r] = response] /\ todo # {}
    <3>1. message.Command = "response"
      BY <2>2
    <3> HIDE DEF message
    <3>2. \A d \in todo : <<message.Src, a, d, entries[d]>> \in Said
      BY <1>4, <3>1 DEF Keeps
    <3>3. /\ response.Src = message.Src /\ response.todo = todo
          /\ response.Entries = entries
      OBVIOUS
    <3> HIDE DEF response, todo, entries
    <3>4. \A d \in response.todo :
            <<response.Src, SourceOf(r, response.Src), d, response.Entries[d]>> \in Said
      BY <1>6, <3>2, <3>3
    <3> QED BY <2>2, <3>4 DEF RipInv, HandlersTyped, AllIn, HandlersIn
  <2> QED BY <1>1, <2>1, <2>2
<1> QED BY <1>3, <1>4, <1>7, <1>8 DEF AllIn

LEMMA UpdateEntryKeeps ==
    ASSUME NEW Good, NEW Said, Closed(Good, Said), RipInv, AllIn(Good, Said),
           NEW r \in Routers, UpdateEntry(r)
    PROVE  AllIn(Good, Said)'
<1> DEFINE h == handler[r]
<1>1. PICK d \in h.todo : \E ok \in {FwdTable[r][d] # NoRoute, d \in h.found} : Updates(r, d, ok)
  BY DEF UpdateEntry, Updates
<1>ok. PICK ok \in {FwdTable[r][d] # NoRoute, d \in h.found} : Updates(r, d, ok)
  BY <1>1
<1>2. net' = net /\ h # Idle
  BY DEF UpdateEntry
<1>3. NetIn(Said)'
  BY <1>2 DEF AllIn, NetIn
<1>4. h \in Responding(r) /\ DOMAIN handler = Routers
  BY <1>2 DEF RipInv, HandlersTyped
<1>5. /\ h.Src \in NextHops(r) /\ d \in Destinations /\ d \in DOMAIN h.Entries
      /\ WorthLooking(h.Entries[d]) /\ h.Entries \in Costs
  BY <1>1, <1>4 DEF Responding
<1>6. h.Entries[d] \in 0 .. INFINITY
  BY <1>5 DEF Costs
<1>7. <<h.Src, SourceOf(r, h.Src), d, h.Entries[d]>> \in Said
  BY <1>1, <1>2 DEF AllIn, HandlersIn
<1> DEFINE route == RIPRoute(h.Entries[d] + 1, h.Src)
<1>8. FwdTable' = FwdTable
      \/ (FwdTable' = [FwdTable EXCEPT ![r][d] = route] /\ d \notin Attached[r])
  <2>1. FwdTable' = FwdTable \/ FwdTable' = [FwdTable EXCEPT ![r][d] = route]
    BY <1>ok DEF Updates
  <2>2. ASSUME d \in Attached[r] PROVE FwdTable' = FwdTable
    <3>1. FwdTable[r][d] = LocalRoute
      BY <1>5, <2>2 DEF RipInv, LocalRoutesStay
    <3>2. d \in h.found
      BY <1>1, <1>2, <2>2 DEF RipInv, OwnNetworksFound
    <3>3. FwdTable[r][d].RouteType # "rip" /\ FwdTable[r][d] # NoRoute
      BY <3>1 DEF LocalRoute, NoRoute
    <3> QED BY <1>ok, <3>2, <3>3 DEF Updates
  <2> QED BY <2>1, <2>2
<1>9. RoutesIn(Good)'
  <2>1. CASE FwdTable' = FwdTable
    BY <2>1 DEF AllIn, RoutesIn
  <2>2. CASE FwdTable' = [FwdTable EXCEPT ![r][d] = route] /\ d \notin Attached[r]
    <3>1. <<r, d, h.Src, h.Entries[d] + 1>> \in Good
      BY <1>5, <1>6, <1>7, <2>2 DEF Closed
    <3>2. route.NextHop = h.Src /\ route.Cost = h.Entries[d] + 1
      BY DEF RIPRoute
    <3> HIDE DEF route
    <3>3. \A n \in Routers, e \in Destinations :
            FwdTable'[n][e] = IF n = r /\ e = d THEN route ELSE FwdTable[n][e]
      BY <2>2 DEF RipInv, Tables
    <3> QED BY <3>1, <3>2, <3>3 DEF AllIn, RoutesIn
  <2> QED BY <1>8, <2>1, <2>2
<1>10. handler' = [handler EXCEPT ![r] = Idle]
       \/ \E updated : handler' = [handler EXCEPT ![r] = [h EXCEPT !.todo = @ \ {d}, !.updated = updated]]
  <2>1. CASE h.todo = {d}
    BY <1>ok, <2>1 DEF Updates
  <2>2. CASE h.todo # {d}
    BY <1>ok, <2>2 DEF Updates
  <2> QED BY <2>1, <2>2
<1>11. HandlersIn(Said)'
  <2>1. CASE handler' = [handler EXCEPT ![r] = Idle]
    BY <1>4, <2>1 DEF AllIn, HandlersIn
  <2>2. ASSUME NEW updated,
               handler' = [handler EXCEPT ![r] = [h EXCEPT !.todo = @ \ {d}, !.updated = updated]]
        PROVE  HandlersIn(Said)'
    <3> DEFINE rest == [h EXCEPT !.todo = @ \ {d}, !.updated = updated]
    <3>1. rest.Src = h.Src /\ rest.Entries = h.Entries /\ rest.todo \subseteq h.todo
      BY <1>4 DEF Responding
    <3>2. handler' = [handler EXCEPT ![r] = rest]
      BY <2>2
    <3> HIDE DEF rest
    <3> QED BY <1>2, <1>4, <3>1, <3>2 DEF AllIn, HandlersIn
  <2> QED BY <1>10, <2>1, <2>2
<1>12. SendersIn(Said)'
  <2>1. CASE sender' = sender
    BY <2>1 DEF AllIn, SendersIn
  <2>2. CASE sender' = [sender EXCEPT ![r]["RIPHandler"].left = RIPNeighbors[r]]
    <3>1. sender[r]["RIPHandler"].packet = Nothing
      BY <1>2 DEF RipInv, HandlerSendsLast, Resting
    <3> QED BY <2>2, <3>1, SendersSet DEF RipInv, Goroutines, AllIn
  <2> QED BY <1>ok, <2>1, <2>2 DEF Updates
<1> QED BY <1>3, <1>9, <1>11, <1>12 DEF AllIn

LEMMA InitialRIPKeeps ==
    ASSUME NEW Good, NEW Said, RipInv, AllIn(Good, Said), NEW r \in Routers, InitialRIP(r)
    PROVE  AllIn(Good, Said)'
<1>1. RoutesIn(Good)' /\ HandlersIn(Said)'
  BY DEF InitialRIP, AllIn, RoutesIn, HandlersIn
<1>2. NetIn(Said)'
  BY NetAsked DEF AllIn
<1>3. sender[r]["PeriodicUpdate"].packet = Nothing
  BY DEF InitialRIP, Quiet, Goroutines, Resting
<1>4. SendersIn(Said)'
  BY <1>3, SendersSet DEF InitialRIP, RipInv, AllIn, Goroutines
<1> QED BY <1>1, <1>2, <1>4 DEF AllIn

\* Time makes routes older or ends them, and changes no other part of them.
LEMMA TimeKeeps ==
    ASSUME NEW Good, NEW Said, RipInv, AllIn(Good, Said),
           Tick \/ \E r \in Routers : PeriodicExpiry(r)
    PROVE  AllIn(Good, Said)'
<1>1. NetIn(Said)' /\ HandlersIn(Said)'
  BY DEF Tick, PeriodicExpiry, AllIn, NetIn, HandlersIn
<1>2. CASE Tick
  <2>1. SendersIn(Said)'
    <3> SUFFICES ASSUME NEW r \in Routers, NEW g \in Goroutines PROVE sender'[r][g].packet = Nothing
      BY DEF SendersIn
    <3>1. /\ sender[r] \in [Goroutines -> Sending(r)] /\ sender[r][g] \in Sending(r)
          /\ sender[r][g].packet = Nothing
      BY <1>2 DEF Tick, Quiet, Resting, RipInv, SendersTyped
    <3>2. sender'[r] = sender[r]
          \/ sender'[r] = [sender[r] EXCEPT !["PeriodicUpdate"].left = RIPNeighbors[r]]
      BY <1>2 DEF Tick
    <3> QED BY <3>1, <3>2 DEF Sending
  <2>2. RoutesIn(Good)'
    <3> SUFFICES ASSUME NEW r \in Routers, NEW d \in Destinations, FwdTable'[r][d].RouteType = "rip"
                 PROVE  <<r, d, FwdTable'[r][d].NextHop, FwdTable'[r][d].Cost>> \in Good
      BY DEF RoutesIn
    <3> DEFINE route == FwdTable[r][d]
    <3>1. FwdTable'[r][d] = Older(route) /\ route \in Routes(r)
      BY <1>2 DEF Tick, RipInv, Tables
    <3>2. CASE route \in RIPRoutes(r)
      <4>1. Older(route).NextHop = route.NextHop /\ Older(route).Cost = route.Cost
              /\ route.RouteType = "rip"
        BY <3>2 DEF Older, RIPRoutes
      <4> QED BY <3>1, <4>1 DEF AllIn, RoutesIn
    <3>3. CASE route \in {NoRoute, LocalRoute}
      <4>1. Older(route) = route /\ route.RouteType # "rip"
        BY <3>3 DEF Older, NoRoute, LocalRoute
      <4> QED BY <3>1, <4>1
    <3> QED BY <3>1, <3>2, <3>3 DEF Routes
  <2> QED BY <1>1, <2>1, <2>2 DEF AllIn
<1>3. ASSUME NEW r \in Routers, PeriodicExpiry(r) PROVE AllIn(Good, Said)'
  <2>1. SendersIn(Said)'
    BY <1>3 DEF PeriodicExpiry, AllIn, SendersIn
  <2>2. \A n \in Routers, d \in Destinations :
          FwdTable'[n][d] = IF n = r /\ Expired(FwdTable[r][d]) THEN NoRoute ELSE FwdTable[n][d]
    BY <1>3 DEF PeriodicExpiry, RipInv, Tables
  <2>3. NoRoute.RouteType # "rip"
    BY DEF NoRoute
  <2>4. RoutesIn(Good)'
    BY <2>2, <2>3 DEF AllIn, RoutesIn
  <2> QED BY <1>1, <2>1, <2>4 DEF AllIn
<1> QED BY <1>2, <1>3

LEMMA RipKeeps ==
    ASSUME NEW Good, NEW Said, Closed(Good, Said), RipInv, AllIn(Good, Said), [Next]_vars
    PROVE  AllIn(Good, Said)'
<1>1. CASE Next
  <2>1. ASSUME NEW r \in Routers, InitialRIP(r) \/ Run(r) PROVE AllIn(Good, Said)'
    <3>1. CASE RIPHandler(r)
      BY <3>1, TakePacketKeeps, UpdateEntryKeeps DEF RIPHandler
    <3>2. CASE SendRIPResponseSafe(r)
      BY <3>2, SendingKeeps
    <3>3. CASE PeriodicExpiry(r)
      BY <3>3, TimeKeeps
    <3>4. CASE InitialRIP(r)
      BY <3>4, InitialRIPKeeps
    <3> QED BY <2>1, <3>1, <3>2, <3>3, <3>4 DEF Run
  <2>2. ASSUME NEW r \in Routers, Down(r) \/ Up(r) PROVE AllIn(Good, Said)'
    BY <2>2 DEF Down, Up, AllIn, RoutesIn, NetIn, SendersIn, HandlersIn
  <2>3. ASSUME NEW a \in Addresses, Lose(a) PROVE AllIn(Good, Said)'
    <3>1. NetIn(Said)'
      BY <2>3, NetTaken DEF Lose, RipInv, AllIn
    <3> QED BY <2>3, <3>1 DEF Lose, AllIn, RoutesIn, SendersIn, HandlersIn
  <2>4. CASE Tick
    BY <2>4, TimeKeeps
  <2> QED BY <1>1, <2>1, <2>2, <2>3, <2>4 DEF Next
<1>2. CASE UNCHANGED vars
  BY <1>2 DEF vars, AllIn, RoutesIn, NetIn, SendersIn, HandlersIn
<1> QED BY <1>1, <1>2

LEMMA InitKeeps ==
    ASSUME NEW Good, NEW Said, Init
    PROVE  AllIn(Good, Said)
<1>1. \A r \in Routers, d \in Destinations : FwdTable[r][d].RouteType # "rip"
  BY DEF Init, LocalRoute, NoRoute
<1>2. \A a \in Addresses : net[a] = <<>>
  BY DEF Init
<1>3. \A r \in Routers, g \in Goroutines : sender[r][g].packet = Nothing
  BY DEF Init, Resting
<1>4. \A r \in Routers : handler[r] = Idle
  BY DEF Init
<1> QED BY <1>1, <1>2, <1>3, <1>4 DEF AllIn, RoutesIn, NetIn, SendersIn, HandlersIn

------------------------------------------------------------------------------
(* How far a route leads *)

\* Distance[d][r] is at most the number of hops from router r to prefix d: 0 on
\* the prefix itself, and at most one more than a neighbour's.
HopsToGo(Distance) ==
    /\ Distance \in [Destinations -> [Routers -> Nat]]
    /\ \A d \in Destinations, r \in Routers :
         IF d \in Attached[r] THEN Distance[d][r] = 0
         ELSE \A n \in NextHops(r) : Distance[d][r] <= Distance[d][Router(n)] + 1

CostsCover(Distance) ==
    \A r \in Routers, d \in Destinations :
        FwdTable[r][d].RouteType = "rip" => FwdTable[r][d].Cost >= Distance[d][r]

CostsNoLess(Distance) ==
    {x \in Routers \X Destinations \X Addresses \X Nat : x[4] >= Distance[x[2]][x[1]]}
SaidNoLess(Distance) ==
    {x \in Addresses \X Addresses \X Destinations \X Nat :
        x[4] >= INFINITY \/ x[4] >= Distance[x[3]][Router(x[1])]}

LEMMA DistanceIsClosed ==
    ASSUME NEW Distance, HopsToGo(Distance)
    PROVE  Closed(CostsNoLess(Distance), SaidNoLess(Distance))
<1> DEFINE Good == CostsNoLess(Distance)
           Said == SaidNoLess(Distance)
<1> USE DEF CostsNoLess, SaidNoLess
<1> SUFFICES ASSUME NEW r \in Routers, NEW d \in Destinations, NEW n \in NextHops(r)
             PROVE  IF d \in Attached[r]
                    THEN <<SourceOf(r, n), n, d, AdvertisedCost(LocalRoute, d, n)>> \in Said
                    ELSE /\ \A cost \in 0 .. INFINITY :
                              <<n, SourceOf(r, n), d, cost>> \in Said /\ WorthLooking(cost)
                                 => <<r, d, n, cost + 1>> \in Good
                         /\ \A route \in RIPRoutes(r) :
                              <<r, d, route.NextHop, route.Cost>> \in Good
                                 => <<SourceOf(r, n), n, d, AdvertisedCost(route, d, n)>> \in Said
  BY DEF Closed
<1>1. /\ n \in Addresses /\ SourceOf(r, n) \in Addresses
      /\ Router(SourceOf(r, n)) = r /\ Router(n) \in Routers
  BY SourcesAreOtherEnds, AddressesTyped DEF SourceOf, Router
<1>2. /\ INFINITY \in Nat \ {0} /\ Distance[d][r] \in Nat /\ Distance[d][Router(n)] \in Nat
      /\ IF d \in Attached[r] THEN Distance[d][r] = 0
         ELSE Distance[d][r] <= Distance[d][Router(n)] + 1
  BY <1>1, RipAssumption DEF HopsToGo
<1>3. CASE d \in Attached[r]
  <2>1. AdvertisedCost(LocalRoute, d, n) \in Nat /\ Distance[d][r] = 0
    BY <1>2, <1>3 DEF AdvertisedCost, LocalRoute
  <2> QED BY <1>1, <1>2, <1>3, <2>1
<1>4. CASE d \notin Attached[r]
  <2>1. ASSUME NEW cost \in 0 .. INFINITY, <<n, SourceOf(r, n), d, cost>> \in Said, WorthLooking(cost)
        PROVE  <<r, d, n, cost + 1>> \in Good
    <3>1. cost + 1 < INFINITY
      BY <2>1 DEF WorthLooking
    <3>2. cost >= INFINITY \/ cost >= Distance[d][Router(n)]
      BY <2>1
    <3>3. cost + 1 \in Nat /\ cost + 1 >= Distance[d][r]
      BY <1>2, <1>4, <3>1, <3>2
    <3> QED BY <1>1, <3>3
  <2>2. ASSUME NEW route \in RIPRoutes(r), <<r, d, route.NextHop, route.Cost>> \in Good
        PROVE  <<SourceOf(r, n), n, d, AdvertisedCost(route, d, n)>> \in Said
    <3>1. route.Cost \in Nat /\ route.Cost >= Distance[d][r]
      BY <2>2 DEF RIPRoutes
    <3>2. AdvertisedCost(route, d, n) \in {INFINITY, route.Cost}
      BY DEF AdvertisedCost
    <3> QED BY <1>1, <1>2, <3>1, <3>2
  <2> QED BY <1>4, <2>1, <2>2
<1> QED BY <1>3, <1>4

DistanceInv(Distance) == RipInv /\ AllIn(CostsNoLess(Distance), SaidNoLess(Distance))

LEMMA DistanceInvHolds ==
    ASSUME NEW Distance, HopsToGo(Distance)
    PROVE  /\ Init => DistanceInv(Distance)
           /\ DistanceInv(Distance) /\ [Next]_vars => DistanceInv(Distance)'
           /\ DistanceInv(Distance) => CostsCover(Distance)
<1>1. Init => DistanceInv(Distance)
  BY RipInit, InitKeeps DEF DistanceInv
<1>2. Closed(CostsNoLess(Distance), SaidNoLess(Distance))
  BY DistanceIsClosed
<1>3. DistanceInv(Distance) /\ [Next]_vars => DistanceInv(Distance)'
  BY <1>2, RipStep, RipKeeps DEF DistanceInv
<1>4. DistanceInv(Distance) => CostsCover(Distance)
  BY DEF DistanceInv, AllIn, RoutesIn, CostsNoLess, CostsCover
<1> QED BY <1>1, <1>3, <1>4

\* No router ever holds a route that promises to be shorter than the way there
\* is, with every interface up: while RIP counts up, loses packets or acts on
\* old ones, a cost can be too high, never too low (rip.go:133-240).
THEOREM RoutesAreNoShorter ==
    ASSUME NEW Distance, HopsToGo(Distance)
    PROVE  Spec => []CostsCover(Distance)
<1>1. Init => DistanceInv(Distance)
  BY DistanceInvHolds
<1>2. DistanceInv(Distance) /\ [Next]_vars => DistanceInv(Distance)'
  BY DistanceInvHolds
<1>3. DistanceInv(Distance) => CostsCover(Distance)
  BY DistanceInvHolds
<1> QED BY <1>1, <1>2, <1>3, PTL DEF Spec

\* Hence no router ever holds a route to a prefix that no chain of networks
\* joins it to, whatever the responses of before have said.
THEOREM NoRouteToNowhere ==
    ASSUME NEW d \in Destinations, NEW cutOff \in SUBSET Routers,
           \A r \in cutOff : d \notin Attached[r] /\ \A n \in NextHops(r) : Router(n) \in cutOff
    PROVE  Spec => [](\A r \in cutOff : FwdTable[r][d] = NoRoute)
<1> DEFINE Distance == [e \in Destinations |-> [r \in Routers |->
                          IF e = d /\ r \in cutOff THEN INFINITY ELSE 0]]
<1>1. HopsToGo(Distance)
  <2>1. INFINITY \in Nat \ {0}
    BY RipAssumption
  <2>2. Distance \in [Destinations -> [Routers -> Nat]]
    BY <2>1
  <2>3. ASSUME NEW e \in Destinations, NEW r \in Routers
        PROVE  IF e \in Attached[r] THEN Distance[e][r] = 0
               ELSE \A n \in NextHops(r) : Distance[e][r] <= Distance[e][Router(n)] + 1
    <3>1. \A n \in NextHops(r) : Router(n) \in Routers
      BY AddressesTyped DEF NextHops
    <3> QED BY <2>1, <3>1
  <2> HIDE DEF Distance
  <2> QED BY <2>2, <2>3 DEF HopsToGo
<1>2. \A r \in cutOff : Distance[d][r] = INFINITY
  OBVIOUS
<1> HIDE DEF Distance
<1>3. RipInv /\ CostsCover(Distance) => \A r \in cutOff : FwdTable[r][d] = NoRoute
  <2> SUFFICES ASSUME RipInv, CostsCover(Distance), NEW r \in cutOff PROVE FwdTable[r][d] = NoRoute
    OBVIOUS
  <2>1. FwdTable[r][d] \in Routes(r) /\ FwdTable[r][d] # LocalRoute
    BY DEF RipInv, Tables, LocalRoutesStay
  <2>2. CASE FwdTable[r][d] \in RIPRoutes(r)
    <3>1. FwdTable[r][d].RouteType = "rip" /\ FwdTable[r][d].Cost \in 1 .. INFINITY - 1
      BY <2>2 DEF RIPRoutes
    <3>2. FwdTable[r][d].Cost >= INFINITY
      BY <1>2, <3>1 DEF CostsCover
    <3> QED BY <3>1, <3>2, RipAssumption
  <2> QED BY <2>1, <2>2 DEF Routes
<1>4. Init => DistanceInv(Distance)
  BY <1>1, DistanceInvHolds
<1>5. DistanceInv(Distance) /\ [Next]_vars => DistanceInv(Distance)'
  BY <1>1, DistanceInvHolds
<1>6. DistanceInv(Distance) => RipInv /\ CostsCover(Distance)
  BY <1>1, DistanceInvHolds DEF DistanceInv
<1> QED BY <1>3, <1>4, <1>5, <1>6, PTL DEF Spec

------------------------------------------------------------------------------
(* Routers joined like a tree *)

RoutesUpward(Hop) ==
    \A r \in Routers, d \in Destinations :
        FwdTable[r][d].RouteType = "rip" => FwdTable[r][d].NextHop = Hop[d][r]

\* Nobody offers a finite cost to the neighbour it has its own routes from: the
\* poisoned reverse of rip.go:133 is all a router ever says in that direction.
UpwardRoutes(Hop) ==
    {x \in Routers \X Destinations \X Addresses \X Nat : x[3] = Hop[x[2]][x[1]]}
PoisonedUpward(Hop) ==
    {x \in Addresses \X Addresses \X Destinations \X Nat :
        x[3] \notin Attached[Router(x[1])] /\ Hop[x[3]][Router(x[1])] = x[2] => x[4] = INFINITY}

LEMMA TreeIsClosed ==
    ASSUME NEW Hop, NEW Depth, TreeLike(Hop, Depth)
    PROVE  Closed(UpwardRoutes(Hop), PoisonedUpward(Hop))
<1> DEFINE Good == UpwardRoutes(Hop)
           Said == PoisonedUpward(Hop)
<1> SUFFICES ASSUME NEW r \in Routers, NEW d \in Destinations, NEW n \in NextHops(r)
             PROVE  IF d \in Attached[r]
                    THEN <<SourceOf(r, n), n, d, AdvertisedCost(LocalRoute, d, n)>> \in Said
                    ELSE /\ \A cost \in 0 .. INFINITY :
                              <<n, SourceOf(r, n), d, cost>> \in Said /\ WorthLooking(cost)
                                 => <<r, d, n, cost + 1>> \in Good
                         /\ \A route \in RIPRoutes(r) :
                              <<r, d, route.NextHop, route.Cost>> \in Good
                                 => <<SourceOf(r, n), n, d, AdvertisedCost(route, d, n)>> \in Said
  BY DEF Closed
<1>1. /\ n \in Addresses /\ SourceOf(r, n) \in Addresses
      /\ Router(SourceOf(r, n)) = r /\ Router(n) \in Routers /\ INFINITY \in Nat \ {0}
  BY SourcesAreOtherEnds, AddressesTyped, RipAssumption DEF SourceOf, Router
<1>2. CASE d \in Attached[r]
  <2>1. AdvertisedCost(LocalRoute, d, n) \in Nat
    BY <1>1 DEF AdvertisedCost, LocalRoute
  <2> QED BY <1>1, <1>2, <2>1 DEF PoisonedUpward
<1>3. CASE d \notin Attached[r]
  <2>1. ASSUME NEW cost \in 0 .. INFINITY, <<n, SourceOf(r, n), d, cost>> \in Said, WorthLooking(cost)
        PROVE  <<r, d, n, cost + 1>> \in Good
    <3>1. cost # INFINITY /\ cost + 1 \in Nat
      BY <1>1, <2>1 DEF WorthLooking
    <3>2. ~(d \notin Attached[Router(n)] /\ Hop[d][Router(n)] = SourceOf(r, n))
      BY <2>1, <3>1 DEF PoisonedUpward
    <3>3. n = Hop[d][r]
      BY <1>3, <3>2 DEF TreeLike
    <3> QED BY <1>1, <3>1, <3>3 DEF UpwardRoutes
  <2>2. ASSUME NEW route \in RIPRoutes(r), <<r, d, route.NextHop, route.Cost>> \in Good
        PROVE  <<SourceOf(r, n), n, d, AdvertisedCost(route, d, n)>> \in Said
    <3>1. route.NextHop = Hop[d][r] /\ route.Cost \in Nat /\ route.RouteType = "rip"
      BY <2>2 DEF UpwardRoutes, RIPRoutes
    <3>2. AdvertisedCost(route, d, n) \in Nat
          /\ (Hop[d][r] = n => AdvertisedCost(route, d, n) = INFINITY)
      BY <1>1, <3>1 DEF AdvertisedCost
    <3> QED BY <1>1, <3>2 DEF PoisonedUpward
  <2> QED BY <1>3, <2>1, <2>2
<1> QED BY <1>2, <1>3

\* Every RIP route leads to the neighbour on the way to its prefix.
TreeInv(Hop) == RipInv /\ AllIn(UpwardRoutes(Hop), PoisonedUpward(Hop))

LEMMA TreeInvGivesUpward ==
    ASSUME NEW Hop, TreeInv(Hop)
    PROVE  RoutesUpward(Hop)
BY DEF TreeInv, AllIn, RoutesIn, UpwardRoutes, RoutesUpward

\* The next hop of a route is one of the router's, and nearer.
LEMMA NextHopIsNearer ==
    ASSUME NEW Hop, NEW Depth, TreeLike(Hop, Depth), TreeInv(Hop),
           NEW r \in Routers, NEW d \in Destinations, FwdTable[r][d].RouteType = "rip"
    PROVE  /\ d \notin Attached[r] /\ FwdTable[r][d].NextHop = Hop[d][r]
           /\ Hop[d][r] \in NextHops(r) /\ Depth[d][Router(Hop[d][r])] < Depth[d][r]
<1>1. FwdTable[r][d] \in Routes(r)
  BY DEF TreeInv, RipInv, Tables
<1>2. FwdTable[r][d] \in RIPRoutes(r) /\ FwdTable[r][d] # LocalRoute
  BY <1>1 DEF Routes, NoRoute, LocalRoute
<1>3. d \notin Attached[r]
  BY <1>2 DEF TreeInv, RipInv, LocalRoutesStay
<1>4. FwdTable[r][d].NextHop = Hop[d][r] /\ FwdTable[r][d].NextHop \in NextHops(r)
  BY <1>2, TreeInvGivesUpward DEF RoutesUpward, RIPRoutes
<1> QED BY <1>3, <1>4 DEF TreeLike

LEMMA TreeInvHolds ==
    ASSUME NEW Hop, NEW Depth, TreeLike(Hop, Depth)
    PROVE  /\ Init => TreeInv(Hop)
           /\ TreeInv(Hop) /\ [Next]_vars => TreeInv(Hop)'
<1>1. Init => TreeInv(Hop)
  BY RipInit, InitKeeps DEF TreeInv
<1>2. Closed(UpwardRoutes(Hop), PoisonedUpward(Hop))
  BY TreeIsClosed
<1>3. TreeInv(Hop) /\ [Next]_vars => TreeInv(Hop)'
  BY <1>2, RipStep, RipKeeps DEF TreeInv
<1> QED BY <1>1, <1>3

\* Split horizon (rip.go:133) keeps two neighbours from routing through each
\* other at any time, not only once the tables have settled, if the routers are
\* joined like a tree: a response on its way, or made from a table that has
\* changed since, never brings a router's own route back to it.
THEOREM NeighborsDoNotLoop ==
    ASSUME NEW Hop, NEW Depth, Depth \in [Destinations -> [Routers -> Nat]],
           TreeLike(Hop, Depth)
    PROVE  Spec => []NoTwoRouterLoop
<1>1. TreeInv(Hop) => NoTwoRouterLoop
  <2> SUFFICES ASSUME TreeInv(Hop), NEW r \in Routers, NEW n \in Routers, NEW d \in Destinations,
                      FwdTable[r][d].RouteType = "rip", Router(FwdTable[r][d].NextHop) = n,
                      FwdTable[n][d].RouteType = "rip", Router(FwdTable[n][d].NextHop) = r
               PROVE  FALSE
    BY DEF NoTwoRouterLoop
  <2>1. Depth[d][n] < Depth[d][r] /\ Depth[d][r] < Depth[d][n]
    BY NextHopIsNearer
  <2> QED BY <2>1
<1>2. Init => TreeInv(Hop)
  BY TreeInvHolds
<1>3. TreeInv(Hop) /\ [Next]_vars => TreeInv(Hop)'
  BY TreeInvHolds
<1> QED BY <1>1, <1>2, <1>3, PTL DEF Spec

------------------------------------------------------------------------------
(* A data packet among routers joined like a tree *)

\* RIP goes its own way whatever packets are forwarded.
LEMMA ForwardingLeavesRip ==
    [ForwardNext]_forwardVars => [Next]_vars
BY DEF ForwardNext, forwardVars, Arrive, PassOn, SendPacket

\* SendPacketToDestIP sends to the address it has been given, or not at all.
LEMMA SentToAddress ==
    ASSUME NEW table, NEW address, NEW result \in F!SendTo(table, address)
    PROVE  result = F!Drop \/ result.to = address
BY DEF F!SendTo, F!Send, F!Drop

\* The address getNextHopbyDestIP has found is that of a RIP route, unless it
\* found none.
LEMMA NextHopOfRoute ==
    ASSUME NEW r \in Routers, NEW address \in Addresses,
           NEW nextIP \in F!getNextHopbyDestIP(Table(r), address), nextIP # NoAddress
    PROVE  /\ Prefix(address) \in Destinations
           /\ FwdTable[r][Prefix(address)].RouteType = "rip"
           /\ nextIP = FwdTable[r][Prefix(address)].NextHop
<1>1. PICK entry \in Table(r) :
        PrefixContains(entry.AssignedPrefix, address) /\ nextIP = entry.NextHop
  BY DEF F!getNextHopbyDestIP
<1>2. CASE entry \in {[AssignedIP |-> <<r, q>>, AssignedPrefix |-> q, RouteType |-> "local",
                       Interface |-> Interface(r, q), NextHop |-> NoAddress] : q \in Attached[r]}
  BY <1>1, <1>2
<1>3. CASE entry \in {[AssignedIP |-> NoAddress, AssignedPrefix |-> d, RouteType |-> "rip",
                       NextHop |-> FwdTable[r][d].NextHop] :
                         d \in {q \in Destinations : FwdTable[r][q].RouteType = "rip"}}
  <2>1. PICK d \in Destinations :
          /\ FwdTable[r][d].RouteType = "rip"
          /\ entry = [AssignedIP |-> NoAddress, AssignedPrefix |-> d, RouteType |-> "rip",
                      NextHop |-> FwdTable[r][d].NextHop]
    BY <1>3
  <2>2. entry.AssignedPrefix = d /\ entry.NextHop = FwdTable[r][d].NextHop
    BY <2>1
  <2>3. Prefix(address) = d
    BY <1>1, <2>2 DEF PrefixContains
  <2> QED BY <1>1, <2>1, <2>2, <2>3
<1> QED BY <1>1, <1>2, <1>3 DEF Table

\* A router that is not one of the packet's own passes it on.
LEMMA OwnPacketsStay ==
    ASSUME RipInv, NEW address \in Addresses
    PROVE  F!checkIfLocalIP(Table(Router(address)), address) # {}
<1> DEFINE r == Router(address)
           q == Prefix(address)
           entry == [AssignedIP |-> <<r, q>>, AssignedPrefix |-> q, RouteType |-> "local",
                     Interface |-> Interface(r, q), NextHop |-> NoAddress]
<1>1. r \in Routers /\ q \in Attached[r] /\ address = <<r, q>>
  BY AddressesTyped DEF Addresses, Router, Prefix
<1>2. entry \in Table(r)
  BY <1>1 DEF Table
<1>3. entry.RouteType = "local" /\ entry.AssignedIP = address
  BY <1>1
<1> HIDE DEF entry
<1> QED BY <1>2, <1>3 DEF F!checkIfLocalIP, F!Local

Carried ==
    [stage : {"sent", "found"}, at : Routers, Dst : Addresses, TTL : Int,
     nextIP : Addresses \union {NoAddress}, visited : SUBSET Routers]

\* A packet has left every router it has visited for one that is nearer to its
\* destination, until it is sent to the destination itself.
Approaches(p, Depth) ==
    LET d == Prefix(p.Dst) IN
    /\ d \in Destinations
    /\ Router(p.Dst) \notin p.visited
    /\ p.stage = "sent" => \/ p.at = Router(p.Dst)
                           \/ \A r \in p.visited : Depth[d][p.at] < Depth[d][r]
    /\ p.stage = "found" => /\ p.nextIP \in Addresses
                            /\ \A r \in p.visited : Depth[d][Router(p.nextIP)] < Depth[d][r]

PacketInv(Depth) == packet = NoPacket \/ (packet \in Carried /\ Approaches(packet, Depth))

\* What a lookup makes of packet p, which is at router r for the first time.
LEMMA LookUpApproaches ==
    ASSUME NEW Hop, NEW Depth, Depth \in [Destinations -> [Routers -> Nat]],
           TreeLike(Hop, Depth), TreeInv(Hop),
           NEW r \in Routers, NEW p, LookUp(r, p),
           p \in [stage : {"new", "sent"}, at : Routers, Dst : Addresses, TTL : Int,
                  nextIP : Addresses \union {NoAddress}, visited : SUBSET Routers],
           p.at = r, r \in p.visited, Router(p.Dst) \notin p.visited,
           Prefix(p.Dst) \in Destinations,
           \A v \in p.visited : Depth[Prefix(p.Dst)][r] <= Depth[Prefix(p.Dst)][v]
    PROVE  PacketInv(Depth)'
<1> DEFINE d == Prefix(p.Dst)
<1>1. CASE F!getInterfaceByPrefix(Table(r), p.Dst) # {}
  <2>1. PICK result \in F!SendTo(Table(r), p.Dst) : packet' = After(result, p)
    BY <1>1 DEF LookUp
  <2>2. packet' = NoPacket \/ packet' = [p EXCEPT !.stage = "sent", !.at = Router(p.Dst)]
    BY <2>1, SentToAddress DEF After
  <2>3. Router(p.Dst) \in Routers
    BY AddressesTyped
  <2> QED BY <2>2, <2>3 DEF PacketInv, Carried, Approaches
<1>2. CASE F!getInterfaceByPrefix(Table(r), p.Dst) = {}
  <2>1. PICK nextIP \in F!getNextHopbyDestIP(Table(r), p.Dst) :
          packet' = IF nextIP = NoAddress THEN NoPacket
                    ELSE [p EXCEPT !.stage = "found", !.nextIP = nextIP]
    BY <1>2 DEF LookUp
  <2>2. CASE nextIP = NoAddress
    BY <2>1, <2>2 DEF PacketInv
  <2>3. CASE nextIP # NoAddress
    <3>1. FwdTable[r][d].RouteType = "rip" /\ nextIP = FwdTable[r][d].NextHop
      BY <2>3, NextHopOfRoute
    <3>2. nextIP \in NextHops(r) /\ Depth[d][Router(nextIP)] < Depth[d][r]
      BY <3>1, NextHopIsNearer
    <3>3. nextIP \in Addresses /\ Router(nextIP) \in Routers
      BY <3>2, AddressesTyped DEF NextHops
    <3>4. packet' = [p EXCEPT !.stage = "found", !.nextIP = nextIP]
      BY <2>1, <2>3
    <3>5. packet' \in Carried
      BY <3>3, <3>4 DEF Carried
    <3>6. /\ packet'.stage = "found" /\ packet'.nextIP = nextIP /\ packet'.Dst = p.Dst
          /\ packet'.visited = p.visited
      BY <3>4
    <3>7. \A v \in p.visited : Depth[d][Router(nextIP)] < Depth[d][v]
      <4>1. \A v \in Routers : Depth[d][v] \in Nat
        OBVIOUS
      <4> QED BY <3>2, <3>3, <4>1
    <3> QED BY <3>3, <3>5, <3>6, <3>7 DEF PacketInv, Approaches
  <2> QED BY <2>2, <2>3
<1> QED BY <1>1, <1>2

LEMMA ForwardStep ==
    ASSUME NEW Hop, NEW Depth, Depth \in [Destinations -> [Routers -> Nat]],
           TreeLike(Hop, Depth), TreeInv(Hop), PacketInv(Depth), [ForwardNext]_forwardVars
    PROVE  PacketInv(Depth)'
<1>1. CASE packet' = packet
  BY <1>1 DEF PacketInv
<1>2. ASSUME NEW r \in Routers, NEW a \in Addresses, Prefix(a) \in Destinations, SendPacket(r, a)
      PROVE  PacketInv(Depth)'
  <2> DEFINE p == [stage |-> "new", at |-> r, Dst |-> a, TTL |-> MaxHops,
                   nextIP |-> NoAddress, visited |-> {r}]
  <2>1. LookUp(r, p) /\ Router(a) # r
    BY <1>2 DEF SendPacket
  <2>2. p \in [stage : {"new", "sent"}, at : Routers, Dst : Addresses, TTL : Int,
               nextIP : Addresses \union {NoAddress}, visited : SUBSET Routers]
    BY ForwardAssumption
  <2>3. Depth[Prefix(a)][r] \in Nat
    BY <1>2
  <2>4. /\ p.at = r /\ p.visited = {r} /\ p.Dst = a
    OBVIOUS
  <2> HIDE DEF p
  <2> QED BY <1>2, <2>1, <2>2, <2>3, <2>4, LookUpApproaches
<1>3. ASSUME NEW r \in Routers, Arrive(r)
      PROVE  PacketInv(Depth)'
  <2>1. packet.stage = "sent" /\ packet.at = r
    BY <1>3 DEF Arrive
  <2>2. packet \in Carried /\ Approaches(packet, Depth)
    BY <2>1 DEF PacketInv, NoPacket
  <2>3. CASE F!checkIfLocalIP(Table(r), packet.Dst) # {}
    BY <1>3, <2>3 DEF Arrive, PacketInv
  <2>4. CASE F!checkIfLocalIP(Table(r), packet.Dst) = {}
    <3> DEFINE p == [packet EXCEPT !.TTL = @ - 1, !.visited = @ \union {r}]
               d == Prefix(packet.Dst)
    <3>1. LookUp(r, p)
      BY <1>3, <2>4 DEF Arrive
    <3>2. /\ p \in [stage : {"new", "sent"}, at : Routers, Dst : Addresses, TTL : Int,
                    nextIP : Addresses \union {NoAddress}, visited : SUBSET Routers]
          /\ p.at = r /\ p.visited = packet.visited \union {r} /\ p.Dst = packet.Dst
      <4>1. /\ packet.TTL - 1 \in Int /\ packet.visited \union {r} \in SUBSET Routers
            /\ packet \in [stage : {"new", "sent"}, at : Routers, Dst : Addresses, TTL : Int,
                           nextIP : Addresses \union {NoAddress}, visited : SUBSET Routers]
        BY <2>1, <2>2 DEF Carried
      <4> QED BY <2>1, <4>1
    <3>3. packet.Dst \in Addresses /\ Router(packet.Dst) # r
      BY <2>2, <2>4, OwnPacketsStay DEF Carried, TreeInv
    <3>4. /\ d \in Destinations /\ Router(packet.Dst) \notin packet.visited
          /\ \A v \in packet.visited : Depth[d][r] < Depth[d][v]
      BY <2>1, <2>2, <3>3 DEF Approaches
    <3>5. \A v \in packet.visited \union {r} : v \in Routers /\ Depth[d][v] \in Nat
      BY <2>2, <3>4 DEF Carried
    <3>6. \A v \in packet.visited \union {r} : Depth[d][r] <= Depth[d][v]
      BY <3>4, <3>5
    <3> HIDE DEF p, d
    <3>7. \A v \in p.visited : Depth[Prefix(p.Dst)][r] <= Depth[Prefix(p.Dst)][v]
      BY <3>2, <3>6 DEF d
    <3>8. Router(p.Dst) \notin p.visited /\ Prefix(p.Dst) \in Destinations /\ r \in p.visited
      BY <3>2, <3>3, <3>4 DEF d
    <3> QED BY <3>1, <3>2, <3>7, <3>8, LookUpApproaches
  <2> QED BY <2>3, <2>4
<1>4. ASSUME NEW r \in Routers, PassOn(r)
      PROVE  PacketInv(Depth)'
  <2>1. packet.stage = "found"
    BY <1>4 DEF PassOn
  <2>2. packet \in Carried /\ Approaches(packet, Depth)
    BY <2>1 DEF PacketInv, NoPacket
  <2>3. packet.nextIP \in Addresses /\ Router(packet.nextIP) \in Routers
    BY <2>1, <2>2, AddressesTyped DEF Approaches
  <2>4. packet' = NoPacket
        \/ packet' = [packet EXCEPT !.stage = "sent", !.at = Router(packet.nextIP)]
    BY <1>4, SentToAddress DEF PassOn, After
  <2> QED BY <2>1, <2>2, <2>3, <2>4 DEF PacketInv, Carried, Approaches
<1> QED BY <1>1, <1>2, <1>3, <1>4 DEF ForwardNext, forwardVars

\* A data packet never comes back to a router it has left, however the tables
\* change on its way and however long it takes, if the routers are joined like a
\* tree: what ends a loop in network.go:262, the TTL, is not needed there.
THEOREM PacketsDoNotComeBack ==
    ASSUME NEW Hop, NEW Depth, Depth \in [Destinations -> [Routers -> Nat]],
           TreeLike(Hop, Depth)
    PROVE  ForwardSpec => []NeverComesBack
<1> DEFINE Inv == TreeInv(Hop) /\ PacketInv(Depth)
<1>1. ForwardInit => Inv
  BY TreeInvHolds DEF ForwardInit, PacketInv
<1>2. Inv /\ [ForwardNext]_forwardVars => Inv'
  BY TreeInvHolds, ForwardingLeavesRip, ForwardStep
<1>3. Inv => NeverComesBack
  <2> SUFFICES ASSUME PacketInv(Depth), packet.stage = "sent"
               PROVE  packet.at \notin packet.visited
    BY DEF NeverComesBack
  <2>1. packet \in Carried /\ Approaches(packet, Depth)
    BY DEF PacketInv, NoPacket
  <2>2. \A r \in Routers : Depth[Prefix(packet.Dst)][r] \in Nat
    BY <2>1 DEF Approaches
  <2> QED BY <2>1, <2>2 DEF Approaches, Carried
<1> HIDE DEF Inv
<1> QED BY <1>1, <1>2, <1>3, PTL DEF ForwardSpec

\* The tables of routers that forward packets are those of routers that do not.
THEOREM ForwardingImplementsRip == ForwardSpec => Spec
BY ForwardingLeavesRip, PTL DEF ForwardSpec, ForwardInit, Spec

------------------------------------------------------------------------------
(* A data packet gets on *)

\* Only routers that run send, so that every route leads to one that does.
PacketsFrom(a) == {message \in PacketsTo(a) : Router(message.Src) \in started}

SourcesRun ==
    /\ \A a \in Addresses : net[a] \in Seq(PacketsFrom(a))
    /\ \A r \in Routers, g \in Goroutines :
         /\ sender[r][g].left # <<>> => r \in started
         /\ sender[r][g].packet # Nothing => Router(sender[r][g].packet.Src) \in started
    /\ \A r \in Routers : handler[r] # Idle => r \in started /\ Router(handler[r].Src) \in started
NextHopsRun ==
    \A r \in Routers, d \in Destinations :
        FwdTable[r][d].RouteType = "rip" => Router(FwdTable[r][d].NextHop) \in started

RunInv == SourcesRun /\ NextHopsRun

LEMMA RunInit ==
    Init => RunInv
<1> SUFFICES ASSUME Init PROVE RunInv
  OBVIOUS
<1>1. \A a \in Addresses : net[a] \in Seq(PacketsFrom(a))
  BY DEF Init
<1>2. SourcesRun
  BY <1>1 DEF Init, Resting, SourcesRun
<1>3. NextHopsRun
  BY DEF Init, LocalRoute, NoRoute, NextHopsRun
<1> QED BY <1>2, <1>3 DEF RunInv

\* A sender that is given neighbours by a router that runs,
LEMMA SenderRuns ==
    ASSUME SendersTyped, SourcesRun, NEW r \in Routers, NEW g \in Goroutines, NEW q,
           r \in started', started \subseteq started',
           sender[r][g].packet = Nothing,
           sender' = [sender EXCEPT ![r][g].left = q]
    PROVE  \A m \in Routers, h \in Goroutines :
             /\ sender'[m][h].left # <<>> => m \in started'
             /\ sender'[m][h].packet # Nothing => Router(sender'[m][h].packet.Src) \in started'
<1> SUFFICES ASSUME NEW m \in Routers, NEW h \in Goroutines
             PROVE  /\ sender'[m][h].left # <<>> => m \in started'
                    /\ sender'[m][h].packet # Nothing
                         => Router(sender'[m][h].packet.Src) \in started'
  OBVIOUS
<1>1. /\ DOMAIN sender = Routers /\ sender[r] \in [Goroutines -> Sending(r)]
      /\ sender[r][g] \in Sending(r) /\ \A n \in Routers : DOMAIN sender[n] = Goroutines
  BY DEF SendersTyped
<1>2. CASE m = r /\ h = g
  <2>1. sender'[m][h].packet = sender[r][g].packet
    BY <1>1, <1>2 DEF Sending
  <2> QED BY <1>2, <2>1
<1>3. CASE ~(m = r /\ h = g)
  <2>1. sender'[m][h] = sender[m][h]
    BY <1>1, <1>3
  <2> QED BY <2>1 DEF SourcesRun
<1> QED BY <1>2, <1>3

\* and a packet put into a queue by one.
LEMMA SentFromRunning ==
    ASSUME PacketsTyped, SourcesRun, UNCHANGED started, NEW r \in Routers, NEW n \in Addresses,
           NEW message \in PacketsFrom(n), net' = Sent(r, n, message)
    PROVE  \A a \in Addresses : net'[a] \in Seq(PacketsFrom(a)')
<1> SUFFICES ASSUME NEW a \in Addresses PROVE net'[a] \in Seq(PacketsFrom(a)')
  OBVIOUS
<1>1. PacketsFrom(a)' = PacketsFrom(a)
  BY DEF PacketsFrom
<1>2. net[a] \in Seq(PacketsFrom(a)) /\ DOMAIN net = Addresses
  BY DEF SourcesRun, PacketsTyped
<1>3. net'[a] = net[a] \/ (a = n /\ net'[a] = Append(net[a], message))
  BY <1>2 DEF Sent
<1>4. a = n => Append(net[a], message) \in Seq(PacketsFrom(a))
  BY <1>2, QueueAppend
<1> QED BY <1>1, <1>2, <1>3, <1>4

LEMMA InitialRIPRuns ==
    ASSUME RipInv, RunInv, NEW r \in Routers, InitialRIP(r)
    PROVE  RunInv'
<1> USE DEF InitialRIP
<1>1. started' = started \union {r} /\ started \subseteq started' /\ r \in started'
  OBVIOUS
<1>2. ASSUME NEW a \in Addresses PROVE net'[a] \in Seq(PacketsFrom(a)')
  <2> DEFINE message == [Command |-> "request", Src |-> SourceOf(r, a)]
  <2>1. net[a] = <<>>
    BY DEF Quiet
  <2>2. net'[a] = IF Reachable(r, a) /\ \E i \in DOMAIN RIPNeighbors[r] : RIPNeighbors[r][i] = a
                  THEN Append(net[a], message) ELSE net[a]
    OBVIOUS
  <2>3. CASE \E i \in DOMAIN RIPNeighbors[r] : RIPNeighbors[r][i] = a
    <3>1. a \in NextHops(r)
      BY <2>3, RipAssumption DEF NextHops
    <3>2. message \in PacketsTo(a) /\ Router(message.Src) = r
      BY <3>1, SourcesAreOtherEnds DEF PacketsTo, Packets, SourceOf, Router
    <3>3. message \in PacketsFrom(a)'
      BY <1>1, <3>2 DEF PacketsFrom
    <3> HIDE DEF message
    <3>4. net'[a] = <<>> \/ net'[a] = <<message>>
      BY <2>1, <2>2
    <3> DEFINE allowed == PacketsFrom(a)'
    <3>5. message \in allowed
      BY <3>3
    <3> HIDE DEF allowed
    <3>6. <<>> \in Seq(allowed) /\ <<message>> \in Seq(allowed)
      BY <3>5
    <3> QED BY <3>4, <3>6 DEF allowed
  <2>4. CASE ~\E i \in DOMAIN RIPNeighbors[r] : RIPNeighbors[r][i] = a
    <3> DEFINE allowed == PacketsFrom(a)'
    <3> HIDE DEF allowed
    <3>1. <<>> \in Seq(allowed)
      OBVIOUS
    <3> QED BY <2>1, <2>2, <2>4, <3>1 DEF allowed
  <2> QED BY <2>3, <2>4
<1>3. sender[r]["PeriodicUpdate"].packet = Nothing
  BY DEF Quiet, Goroutines, Resting
<1>4. \A m \in Routers, h \in Goroutines :
        /\ sender'[m][h].left # <<>> => m \in started'
        /\ sender'[m][h].packet # Nothing => Router(sender'[m][h].packet.Src) \in started'
  BY <1>1, <1>3, SenderRuns DEF RipInv, RunInv, Goroutines
<1>5. \A m \in Routers : handler'[m] # Idle => m \in started' /\ Router(handler'[m].Src) \in started'
  BY <1>1 DEF RunInv, SourcesRun
<1>6. NextHopsRun'
  BY <1>1 DEF RunInv, NextHopsRun
<1> QED BY <1>2, <1>4, <1>5, <1>6 DEF RunInv, SourcesRun

LEMMA SendingRuns ==
    ASSUME RipInv, RunInv, NEW r \in Routers, SendRIPResponseSafe(r)
    PROVE  RunInv'
<1>1. PICK g \in Goroutines : RespondAtOnce(r, g) \/ MakeResponse(r, g) \/ SendResponse(r, g)
  BY DEF SendRIPResponseSafe
<1>2. UNCHANGED <<started, FwdTable, handler>>
  BY <1>1 DEF RespondAtOnce, MakeResponse, SendResponse
<1>3. /\ sender[r] \in [Goroutines -> Sending(r)] /\ sender[r][g] \in Sending(r)
      /\ DOMAIN sender = Routers /\ \A m \in Routers : DOMAIN sender[m] = Goroutines
  BY DEF RipInv, SendersTyped
<1> DEFINE left == sender[r][g].left
           n == Head(left)
<1>4. left # <<>> /\ left \in Seq(NextHops(r))
  BY <1>1, <1>3 DEF RespondAtOnce, MakeResponse, SendResponse, Sending
<1>5. n \in NextHops(r) /\ n \in Addresses /\ r \in started
  BY <1>4, QueueTail DEF NextHops, RunInv, SourcesRun
<1>6. Response(r, n) \in PacketsTo(n) /\ Router(Response(r, n).Src) = r
  BY <1>5, ResponseTyped DEF RipInv, Response, SourceOf, Router
<1>7. Response(r, n) \in PacketsFrom(n)
  BY <1>5, <1>6 DEF PacketsFrom
<1>8. \A a \in Addresses : net'[a] \in Seq(PacketsFrom(a)')
  <2>1. CASE RespondAtOnce(r, g)
    BY <1>2, <1>5, <1>7, <2>1, SentFromRunning DEF RespondAtOnce, RipInv, RunInv
  <2>2. CASE MakeResponse(r, g)
    <3>1. net' = net /\ \A a \in Addresses : PacketsFrom(a)' = PacketsFrom(a)
      BY <1>2, <2>2 DEF MakeResponse, PacketsFrom
    <3> QED BY <3>1 DEF RunInv, SourcesRun
  <2>3. CASE SendResponse(r, g)
    <3>1. sender[r][g].packet \in PacketsTo(n)
      BY <1>3, <2>3 DEF SendResponse, Sending
    <3>2. sender[r][g].packet \in PacketsFrom(n)
      BY <2>3, <3>1 DEF SendResponse, RunInv, SourcesRun, PacketsFrom
    <3> QED BY <1>2, <1>5, <2>3, <3>2, SentFromRunning DEF SendResponse, RipInv, RunInv
  <2> QED BY <1>1, <2>1, <2>2, <2>3
<1>9. ASSUME NEW m \in Routers, NEW h \in Goroutines
      PROVE  /\ sender'[m][h].left # <<>> => m \in started'
             /\ sender'[m][h].packet # Nothing
                  => Router(sender'[m][h].packet.Src) \in started'
  <2>1. CASE m = r /\ h = g
    <3>1. CASE RespondAtOnce(r, g)
      BY <1>2, <1>3, <1>5, <2>1, <3>1 DEF RespondAtOnce
    <3>2. CASE MakeResponse(r, g)
      <4>1. sender'[m][h].packet = Response(r, n)
        BY <1>3, <2>1, <3>2 DEF MakeResponse, Sending
      <4> QED BY <1>2, <1>5, <1>6, <2>1, <4>1
    <3>3. CASE SendResponse(r, g)
      BY <1>2, <1>3, <1>5, <2>1, <3>3 DEF SendResponse
    <3> QED BY <1>1, <3>1, <3>2, <3>3
  <2>2. CASE ~(m = r /\ h = g)
    <3>1. sender'[m][h] = sender[m][h]
      BY <1>1, <1>3, <2>2 DEF RespondAtOnce, MakeResponse, SendResponse
    <3> QED BY <1>2, <3>1 DEF RunInv, SourcesRun
  <2> QED BY <2>1, <2>2
<1>10. /\ \A m \in Routers :
            handler'[m] # Idle => m \in started' /\ Router(handler'[m].Src) \in started'
       /\ NextHopsRun'
  BY <1>2 DEF RunInv, SourcesRun, NextHopsRun
<1> QED BY <1>8, <1>9, <1>10 DEF RunInv, SourcesRun

\* What is taken out of a queue is from a router that runs, and so is the rest.
LEMMA TakenFromRunning ==
    ASSUME PacketsTyped, SourcesRun, UNCHANGED started, NEW n \in Addresses, net[n] # <<>>,
           net' = [net EXCEPT ![n] = Tail(@)]
    PROVE  /\ \A a \in Addresses : net'[a] \in Seq(PacketsFrom(a)')
           /\ Router(Head(net[n]).Src) \in started
<1>1. \A a \in Addresses : PacketsFrom(a)' = PacketsFrom(a) /\ net[a] \in Seq(PacketsFrom(a))
  BY DEF PacketsFrom, SourcesRun
<1>2. DOMAIN net = Addresses
  BY DEF PacketsTyped
<1>3. Tail(net[n]) \in Seq(PacketsFrom(n)) /\ Head(net[n]) \in PacketsFrom(n)
  BY <1>1, QueueTail
<1> QED BY <1>1, <1>2, <1>3 DEF PacketsFrom

LEMMA TakePacketRuns ==
    ASSUME RipInv, RunInv, NEW r \in Routers, TakePacket(r)
    PROVE  RunInv'
<1>0. PICK a \in Addresses :
        /\ Router(a) = r
        /\ net[a] # <<>>
        /\ net' = [net EXCEPT ![a] = Tail(@)]
        /\ LET message == Head(net[a])
               isUp == Prefix(a) \in up[r]
               entries == IF message.Command = "response" THEN message.Entries ELSE <<>>
               todo == {d \in DOMAIN entries : WorthLooking(entries[d])}
           IN /\ sender' = IF isUp /\ message.Command = "request"
                           THEN [sender EXCEPT ![r]["RIPHandler"].left = <<message.Src>>]
                           ELSE sender
              /\ handler' = IF isUp /\ todo # {}
                            THEN [handler EXCEPT ![r] =
                              [Src |-> message.Src, Entries |-> entries, todo |-> todo,
                               found |-> {d \in todo : FwdTable[r][d] # NoRoute},
                               updated |-> FALSE]]
                            ELSE handler
  BY DEF TakePacket
<1>1. /\ \/ sender' = sender
         \/ sender' = [sender EXCEPT ![r]["RIPHandler"].left = <<Head(net[a]).Src>>]
      /\ \/ handler' = handler
         \/ \E entries, todo, found :
              handler' = [handler EXCEPT ![r] =
                [Src |-> Head(net[a]).Src, Entries |-> entries, todo |-> todo,
                 found |-> found, updated |-> FALSE]]
  BY <1>0, Zenon
<1>2. UNCHANGED <<started, FwdTable>> /\ r \in started /\ sender[r]["RIPHandler"] = Resting
  BY DEF TakePacket
<1>3. /\ \A n \in Addresses : net'[n] \in Seq(PacketsFrom(n)')
      /\ Router(Head(net[a]).Src) \in started
  BY <1>0, <1>2, TakenFromRunning DEF RipInv, RunInv
<1>4. \A m \in Routers, h \in Goroutines :
        /\ sender'[m][h].left # <<>> => m \in started'
        /\ sender'[m][h].packet # Nothing => Router(sender'[m][h].packet.Src) \in started'
  <2>1. CASE sender' = sender
    BY <1>2, <2>1 DEF RunInv, SourcesRun
  <2>2. CASE sender' = [sender EXCEPT ![r]["RIPHandler"].left = <<Head(net[a]).Src>>]
    <3>1. sender[r]["RIPHandler"].packet = Nothing
      BY <1>2 DEF Resting
    <3> DEFINE q == <<Head(net[a]).Src>>
    <3>2. sender' = [sender EXCEPT ![r]["RIPHandler"].left = q]
      BY <2>2
    <3> HIDE DEF q
    <3> QED BY <1>2, <3>1, <3>2, SenderRuns DEF RipInv, RunInv, Goroutines
  <2> QED BY <1>1, <2>1, <2>2
<1>5. \A m \in Routers : handler'[m] # Idle => m \in started' /\ Router(handler'[m].Src) \in started'
  <2>1. CASE handler' = handler
    BY <1>2, <2>1 DEF RunInv, SourcesRun
  <2>2. ASSUME NEW entries, NEW todo, NEW found,
               handler' = [handler EXCEPT ![r] =
                 [Src |-> Head(net[a]).Src, Entries |-> entries, todo |-> todo,
                  found |-> found, updated |-> FALSE]]
        PROVE  \A m \in Routers :
                 handler'[m] # Idle => m \in started' /\ Router(handler'[m].Src) \in started'
    <3> DEFINE response == [Src |-> Head(net[a]).Src, Entries |-> entries, todo |-> todo,
                            found |-> found, updated |-> FALSE]
    <3>1. response.Src = Head(net[a]).Src /\ handler' = [handler EXCEPT ![r] = response]
      BY <2>2
    <3> HIDE DEF response
    <3>2. DOMAIN handler = Routers
      BY DEF RipInv, HandlersTyped
    <3> QED BY <1>2, <1>3, <3>1, <3>2 DEF RunInv, SourcesRun
  <2> QED BY <1>1, <2>1, <2>2
<1>6. NextHopsRun'
  BY <1>2 DEF RunInv, NextHopsRun
<1> QED BY <1>3, <1>4, <1>5, <1>6 DEF RunInv, SourcesRun

LEMMA UpdateEntryRuns ==
    ASSUME RipInv, RunInv, NEW r \in Routers, UpdateEntry(r)
    PROVE  RunInv'
<1> DEFINE h == handler[r]
<1>1. PICK d \in h.todo : \E ok \in {FwdTable[r][d] # NoRoute, d \in h.found} : Updates(r, d, ok)
  BY DEF UpdateEntry, Updates
<1>ok. PICK ok \in {FwdTable[r][d] # NoRoute, d \in h.found} : Updates(r, d, ok)
  BY <1>1
<1>2. UNCHANGED <<started, net>> /\ h # Idle
  BY DEF UpdateEntry
<1>3. h \in Responding(r) /\ DOMAIN handler = Routers /\ Router(h.Src) \in started
  BY <1>2 DEF RipInv, HandlersTyped, RunInv, SourcesRun
<1>4. d \in Destinations
  BY <1>1, <1>3 DEF Responding
<1>5. \A a \in Addresses : net'[a] \in Seq(PacketsFrom(a)')
  <2>1. \A a \in Addresses : PacketsFrom(a)' = PacketsFrom(a)
    BY <1>2 DEF PacketsFrom
  <2> QED BY <1>2, <2>1 DEF RunInv, SourcesRun
<1>6. NextHopsRun'
  <2> DEFINE route == RIPRoute(h.Entries[d] + 1, h.Src)
  <2>1. FwdTable' = FwdTable \/ FwdTable' = [FwdTable EXCEPT ![r][d] = route]
    BY <1>ok DEF Updates
  <2>2. route.NextHop = h.Src
    BY DEF RIPRoute
  <2> HIDE DEF route
  <2>3. \A m \in Routers, e \in Destinations :
          FwdTable'[m][e] = FwdTable[m][e] \/ FwdTable'[m][e] = route
    BY <2>1 DEF RipInv, Tables
  <2> QED BY <1>2, <1>3, <2>2, <2>3 DEF RunInv, NextHopsRun
<1>7. \A m \in Routers : handler'[m] # Idle => handler[m] # Idle /\ handler'[m].Src = handler[m].Src
  <2>1. CASE h.todo = {d}
    <3>1. handler' = [handler EXCEPT ![r] = Idle]
      BY <1>ok, <2>1 DEF Updates
    <3> QED BY <1>3, <3>1
  <2>2. ASSUME NEW updated,
               handler' = [handler EXCEPT ![r] = [h EXCEPT !.todo = @ \ {d}, !.updated = updated]]
        PROVE  \A m \in Routers : handler'[m] # Idle
                 => handler[m] # Idle /\ handler'[m].Src = handler[m].Src
    <3> DEFINE rest == [h EXCEPT !.todo = @ \ {d}, !.updated = updated]
    <3>1. rest.Src = h.Src
      BY <1>3 DEF Responding
    <3>2. handler' = [handler EXCEPT ![r] = rest]
      BY <2>2
    <3> HIDE DEF rest
    <3> QED BY <1>2, <1>3, <3>1, <3>2
  <2>3. CASE h.todo # {d}
    <3>1. \E updated :
            handler' = [handler EXCEPT ![r] = [h EXCEPT !.todo = @ \ {d}, !.updated = updated]]
      BY <1>ok, <2>3 DEF Updates
    <3> QED BY <2>2, <3>1
  <2> QED BY <2>1, <2>3
<1>8. \A m \in Routers : handler'[m] # Idle => m \in started' /\ Router(handler'[m].Src) \in started'
  BY <1>2, <1>7 DEF RunInv, SourcesRun
<1>9. \A m \in Routers, g \in Goroutines :
        /\ sender'[m][g].left # <<>> => m \in started'
        /\ sender'[m][g].packet # Nothing => Router(sender'[m][g].packet.Src) \in started'
  <2>1. CASE sender' = sender
    BY <1>2, <2>1 DEF RunInv, SourcesRun
  <2>2. CASE sender' = [sender EXCEPT ![r]["RIPHandler"].left = RIPNeighbors[r]]
    <3>1. sender[r]["RIPHandler"].packet = Nothing
      BY <1>2 DEF RipInv, HandlerSendsLast, Resting
    <3>2. r \in started
      BY <1>2 DEF RunInv, SourcesRun
    <3> QED BY <1>2, <2>2, <3>1, <3>2, SenderRuns DEF RipInv, RunInv, Goroutines
  <2> QED BY <1>ok, <2>1, <2>2 DEF Updates
<1> QED BY <1>5, <1>6, <1>8, <1>9 DEF RunInv, SourcesRun

LEMMA TickRuns ==
    ASSUME RipInv, RunInv, Tick
    PROVE  RunInv'
<1>1. UNCHANGED <<started, handler, net>>
  BY DEF Tick
<1>2. \A a \in Addresses : net'[a] \in Seq(PacketsFrom(a)')
  <2>1. \A a \in Addresses : PacketsFrom(a)' = PacketsFrom(a)
    BY <1>1 DEF PacketsFrom
  <2> QED BY <1>1, <2>1 DEF RunInv, SourcesRun
<1>3. ASSUME NEW r \in Routers, NEW g \in Goroutines
      PROVE  /\ sender'[r][g].left # <<>> => r \in started'
             /\ sender'[r][g].packet = Nothing
  <2>1. /\ sender[r] \in [Goroutines -> Sending(r)] /\ sender[r][g] \in Sending(r)
        /\ sender[r][g] = Resting
    BY DEF Tick, Quiet, RipInv, SendersTyped
  <2>2. CASE r \in started
    <3>1. sender'[r] = sender[r]
          \/ sender'[r] = [sender[r] EXCEPT !["PeriodicUpdate"].left = RIPNeighbors[r]]
      BY DEF Tick
    <3>2. sender'[r][g] = sender[r][g]
          \/ sender'[r][g] = [sender[r][g] EXCEPT !.left = RIPNeighbors[r]]
      <4> DEFINE s == sender[r]
      <4>1. DOMAIN s = Goroutines
        BY <2>1
      <4>2. sender'[r] = s \/ sender'[r] = [s EXCEPT !["PeriodicUpdate"].left = RIPNeighbors[r]]
        BY <3>1
      <4> HIDE DEF s
      <4>3. sender'[r][g] = s[g] \/ sender'[r][g] = [s[g] EXCEPT !.left = RIPNeighbors[r]]
        BY <4>1, <4>2
      <4> QED BY <4>3 DEF s
    <3>3. sender'[r][g].packet = sender[r][g].packet
      BY <2>1, <3>2 DEF Sending
    <3> QED BY <1>1, <2>1, <2>2, <3>3 DEF Resting
  <2>3. CASE r \notin started
    <3>1. sender'[r] = sender[r]
      BY <2>3 DEF Tick
    <3> QED BY <2>1, <3>1 DEF Resting
  <2> QED BY <2>2, <2>3
<1>4. NextHopsRun'
  <2> SUFFICES ASSUME NEW r \in Routers, NEW d \in Destinations, FwdTable'[r][d].RouteType = "rip"
               PROVE  Router(FwdTable'[r][d].NextHop) \in started'
    BY DEF NextHopsRun
  <2>1. FwdTable'[r][d] = Older(FwdTable[r][d]) /\ FwdTable[r][d] \in Routes(r)
    BY DEF Tick, RipInv, Tables
  <2>2. FwdTable[r][d] \in RIPRoutes(r)
    BY <2>1 DEF Routes, Older, NoRoute, LocalRoute
  <2>3. FwdTable'[r][d].NextHop = FwdTable[r][d].NextHop /\ FwdTable[r][d].RouteType = "rip"
    BY <2>1, <2>2 DEF Older, RIPRoutes
  <2> QED BY <1>1, <2>3 DEF RunInv, NextHopsRun
<1>5. \A r \in Routers : handler'[r] # Idle => r \in started' /\ Router(handler'[r].Src) \in started'
  BY <1>1 DEF RunInv, SourcesRun
<1> QED BY <1>2, <1>3, <1>4, <1>5 DEF RunInv, SourcesRun

LEMMA RunStep ==
    ASSUME RipInv, RunInv, [Next]_vars
    PROVE  RunInv'
<1>1. ASSUME NEW r \in Routers, InitialRIP(r) \/ RIPHandler(r) \/ SendRIPResponseSafe(r)
      PROVE  RunInv'
  BY <1>1, InitialRIPRuns, TakePacketRuns, UpdateEntryRuns, SendingRuns DEF RIPHandler
\* The rest adds nothing to send and no route.
<1>2. ASSUME UNCHANGED <<started, handler, sender>>,
             \A a \in Addresses : net'[a] \in Seq(PacketsFrom(a)'),
             NextHopsRun'
      PROVE  RunInv'
  BY <1>2 DEF RunInv, SourcesRun
<1>3. ASSUME UNCHANGED <<started, net>> PROVE \A a \in Addresses : net'[a] \in Seq(PacketsFrom(a)')
  <2>1. \A a \in Addresses : PacketsFrom(a)' = PacketsFrom(a)
    BY <1>3 DEF PacketsFrom
  <2> QED BY <1>3, <2>1 DEF RunInv, SourcesRun
<1>4. ASSUME UNCHANGED <<started, FwdTable>> PROVE NextHopsRun'
  BY <1>4 DEF RunInv, NextHopsRun
<1>5. ASSUME NEW r \in Routers, PeriodicExpiry(r) PROVE RunInv'
  <2>1. \A n \in Routers, d \in Destinations :
          FwdTable'[n][d] = IF n = r /\ Expired(FwdTable[r][d]) THEN NoRoute ELSE FwdTable[n][d]
    BY <1>5 DEF PeriodicExpiry, RipInv, Tables
  <2>2. NextHopsRun'
    BY <1>5, <2>1 DEF PeriodicExpiry, RunInv, NextHopsRun, NoRoute
  <2> QED BY <1>2, <1>3, <1>5, <2>2 DEF PeriodicExpiry
<1>6. ASSUME NEW r \in Routers, Down(r) \/ Up(r) PROVE RunInv'
  BY <1>2, <1>3, <1>4, <1>6 DEF Down, Up
<1>7. ASSUME NEW a \in Addresses, Lose(a) PROVE RunInv'
  <2>1. \A n \in Addresses : net'[n] \in Seq(PacketsFrom(n)')
    BY <1>7, TakenFromRunning DEF Lose, RipInv, RunInv
  <2> QED BY <1>2, <1>4, <1>7, <2>1 DEF Lose
<1>8. CASE UNCHANGED vars
  BY <1>2, <1>3, <1>4, <1>8 DEF vars
<1> QED BY <1>1, <1>5, <1>6, <1>7, <1>8, TickRuns DEF Next, Run

\* What the lookups find: the interface of an address on a network of one's own,
\* if it is up, and no other; a route to any other network, if there is one.
LEMMA InterfaceFound ==
    ASSUME NEW r \in Routers, NEW address \in Addresses,
           Prefix(address) \in Attached[r], Prefix(address) \in up[r], Router(address) # r
    PROVE  /\ F!getInterfaceByPrefix(Table(r), address) # {}
           /\ \A result \in F!SendTo(Table(r), address) : result # F!Drop /\ result.to = address
<1> DEFINE q == Prefix(address)
           Entry(n) == [AssignedIP |-> <<r, n>>, AssignedPrefix |-> n, RouteType |-> "local",
                        Interface |-> Interface(r, n), NextHop |-> NoAddress]
<1>1. Interface(r, q).State = "up" /\ address \in Interface(r, q).Neighbors
  BY DEF Interface
<1>2. address # NoAddress
  BY DEF Addresses, NoAddress
<1>3. Interface(r, q) \in F!getInterfaceByPrefix(Table(r), address)
  <2>1. Entry(q) \in Table(r)
    BY DEF Table
  <2>2. /\ Entry(q).RouteType = "local" /\ Entry(q).Interface = Interface(r, q)
        /\ Entry(q).AssignedPrefix = q
    OBVIOUS
  <2> HIDE DEF Entry
  <2> QED BY <1>1, <1>2, <2>1, <2>2
          DEF F!getInterfaceByPrefix, F!Local, PrefixContains
<1>4. ASSUME NEW i \in F!getInterfaceByPrefix(Table(r), address) PROVE address \in i.Neighbors
  <2>1. PICK entry \in Table(r) :
          /\ entry.RouteType = "local" /\ i = entry.Interface
          /\ PrefixContains(entry.AssignedPrefix, address)
    BY DEF F!getInterfaceByPrefix, F!Local
  <2>2. CASE entry \in {Entry(n) : n \in Attached[r]}
    <3>1. PICK n \in Attached[r] : entry = Entry(n)
      BY <2>2
    <3>2. entry.Interface = Interface(r, n) /\ entry.AssignedPrefix = n
      BY <3>1
    <3>3. n = q
      BY <2>1, <3>2 DEF PrefixContains
    <3> QED BY <1>1, <2>1, <3>2, <3>3
  <2>3. CASE entry.RouteType = "rip"
    BY <2>1, <2>3
  <2> QED BY <2>2, <2>3 DEF Table
<1>5. ASSUME NEW i \in F!getInterfaceByPrefix(Table(r), address)
      PROVE  F!Send(i, address) # F!Drop /\ F!Send(i, address).to = address
  BY DEF F!Send, F!Drop
<1>6. ASSUME NEW result \in F!SendTo(Table(r), address)
      PROVE  \E i \in F!getInterfaceByPrefix(Table(r), address) : result = F!Send(i, address)
  BY <1>2, <1>3, <1>4 DEF F!SendTo
<1> QED BY <1>3, <1>5, <1>6

LEMMA NoInterfaceElsewhere ==
    ASSUME NEW r \in Routers, NEW address \in Addresses, Prefix(address) \notin Attached[r]
    PROVE  F!getInterfaceByPrefix(Table(r), address) = {}
<1> SUFFICES ASSUME NEW entry \in Table(r), entry.RouteType = "local",
                    PrefixContains(entry.AssignedPrefix, address)
             PROVE  FALSE
  BY DEF F!getInterfaceByPrefix, F!Local
<1>1. entry.RouteType = "rip" \/ entry.AssignedPrefix \in Attached[r]
  BY DEF Table
<1> QED BY <1>1 DEF PrefixContains

LEMMA RouteFound ==
    ASSUME NEW r \in Routers, NEW address \in Addresses,
           Prefix(address) \in Destinations, Prefix(address) \notin Attached[r],
           FwdTable[r][Prefix(address)].RouteType = "rip",
           FwdTable[r][Prefix(address)].NextHop \in Addresses
    PROVE  \A nextIP \in F!getNextHopbyDestIP(Table(r), address) : nextIP # NoAddress
<1> DEFINE d == Prefix(address)
           Entry(n) == [AssignedIP |-> NoAddress, AssignedPrefix |-> n, RouteType |-> "rip",
                        NextHop |-> FwdTable[r][n].NextHop]
<1>1. address # NoAddress /\ FwdTable[r][d].NextHop # NoAddress
  BY DEF Addresses, NoAddress
<1>2. Entry(d) \in Table(r) /\ PrefixContains(Entry(d).AssignedPrefix, address)
  BY <1>1 DEF Table, PrefixContains
<1>3. ASSUME NEW entry \in Table(r), PrefixContains(entry.AssignedPrefix, address)
      PROVE  entry.NextHop # NoAddress
  <2>1. entry.AssignedPrefix = d
    BY <1>3 DEF PrefixContains
  <2>2. CASE entry.AssignedPrefix \in Attached[r]
    BY <2>1, <2>2
  <2>3. CASE entry \in {Entry(n) : n \in {m \in Destinations : FwdTable[r][m].RouteType = "rip"}}
    <3>1. PICK n \in Destinations : entry = Entry(n)
      BY <2>3
    <3>2. entry.AssignedPrefix = n /\ entry.NextHop = FwdTable[r][n].NextHop
      BY <3>1
    <3> QED BY <1>1, <2>1, <3>2
  <2> QED BY <2>2, <2>3 DEF Table
<1> HIDE DEF Entry
<1> QED BY <1>2, <1>3 DEF F!getNextHopbyDestIP

\* A packet has as many hops left as it needs, and has found the way it takes.
Spare(p, Hop, Depth) ==
    LET d == Prefix(p.Dst) IN
    /\ p.stage = "sent" => p.at = Router(p.Dst) \/ Depth[d][p.at] + 1 <= p.TTL
    /\ p.stage = "found" =>
         /\ d \notin Attached[p.at] /\ p.nextIP \in NextHops(p.at) /\ p.nextIP = Hop[d][p.at]
         /\ Depth[d][p.at] <= p.TTL

SpareInv(Hop, Depth) == packet = NoPacket \/ Spare(packet, Hop, Depth)

LEMMA LookUpSpares ==
    ASSUME NEW Hop, NEW Depth, TreeLike(Hop, Depth), TreeInv(Hop),
           NEW r \in Routers, NEW p, LookUp(r, p),
           p \in [stage : {"new", "sent"}, at : Routers, Dst : Addresses, TTL : Int,
                  nextIP : Addresses \union {NoAddress}, visited : SUBSET Routers],
           p.at = r, Depth[Prefix(p.Dst)][r] <= p.TTL
    PROVE  SpareInv(Hop, Depth)'
<1> DEFINE d == Prefix(p.Dst)
<1>1. CASE F!getInterfaceByPrefix(Table(r), p.Dst) # {}
  <2>1. packet' = NoPacket \/ packet' = [p EXCEPT !.stage = "sent", !.at = Router(p.Dst)]
    BY <1>1, SentToAddress DEF LookUp, After
  <2> QED BY <2>1 DEF SpareInv, Spare
<1>2. CASE F!getInterfaceByPrefix(Table(r), p.Dst) = {}
  <2>1. PICK nextIP \in F!getNextHopbyDestIP(Table(r), p.Dst) :
          packet' = IF nextIP = NoAddress THEN NoPacket
                    ELSE [p EXCEPT !.stage = "found", !.nextIP = nextIP]
    BY <1>2 DEF LookUp
  <2>2. CASE nextIP = NoAddress
    BY <2>1, <2>2 DEF SpareInv
  <2>3. CASE nextIP # NoAddress
    <3>1. /\ d \in Destinations /\ FwdTable[r][d].RouteType = "rip"
          /\ nextIP = FwdTable[r][d].NextHop
      BY <2>3, NextHopOfRoute
    <3>2. d \notin Attached[r] /\ nextIP \in NextHops(r) /\ nextIP = Hop[d][r]
      BY <3>1, NextHopIsNearer
    <3>3. /\ packet'.stage = "found" /\ packet'.nextIP = nextIP /\ packet'.Dst = p.Dst
          /\ packet'.at = r /\ packet'.TTL = p.TTL
      BY <2>1, <2>3
    <3> QED BY <3>2, <3>3 DEF SpareInv, Spare
  <2> QED BY <2>2, <2>3
<1> QED BY <1>1, <1>2

LEMMA SpareStep ==
    ASSUME NEW Hop, NEW Depth, Depth \in [Destinations -> [Routers -> Nat]],
           TreeLike(Hop, Depth), HopsSuffice(Depth), TreeInv(Hop), PacketInv(Depth),
           SpareInv(Hop, Depth), [ForwardNext]_forwardVars
    PROVE  SpareInv(Hop, Depth)'
<1>1. CASE packet' = packet
  BY <1>1 DEF SpareInv
<1>2. ASSUME NEW r \in Routers, NEW a \in Addresses, Prefix(a) \in Destinations, SendPacket(r, a)
      PROVE  SpareInv(Hop, Depth)'
  <2> DEFINE p == [stage |-> "new", at |-> r, Dst |-> a, TTL |-> MaxHops,
                   nextIP |-> NoAddress, visited |-> {r}]
  <2>1. LookUp(r, p) /\ r \in Senders
    BY <1>2 DEF SendPacket
  <2>2. p \in [stage : {"new", "sent"}, at : Routers, Dst : Addresses, TTL : Int,
               nextIP : Addresses \union {NoAddress}, visited : SUBSET Routers]
    BY ForwardAssumption
  <2>3. Depth[Prefix(a)][r] <= MaxHops
    BY <1>2, <2>1 DEF HopsSuffice
  <2>4. p.at = r /\ p.Dst = a /\ p.TTL = MaxHops
    OBVIOUS
  <2> HIDE DEF p
  <2> QED BY <2>1, <2>2, <2>3, <2>4, LookUpSpares
<1>3. ASSUME NEW r \in Routers, Arrive(r)
      PROVE  SpareInv(Hop, Depth)'
  <2>1. packet.stage = "sent" /\ packet.at = r
    BY <1>3 DEF Arrive
  <2>2. packet \in Carried /\ Approaches(packet, Depth) /\ Spare(packet, Hop, Depth)
    BY <2>1 DEF PacketInv, SpareInv, NoPacket
  <2>3. CASE F!checkIfLocalIP(Table(r), packet.Dst) # {}
    BY <1>3, <2>3 DEF Arrive, SpareInv
  <2>4. CASE F!checkIfLocalIP(Table(r), packet.Dst) = {}
    <3> DEFINE p == [packet EXCEPT !.TTL = @ - 1, !.visited = @ \union {r}]
               d == Prefix(packet.Dst)
    <3>1. LookUp(r, p)
      BY <1>3, <2>4 DEF Arrive
    <3>2. /\ p \in [stage : {"new", "sent"}, at : Routers, Dst : Addresses, TTL : Int,
                    nextIP : Addresses \union {NoAddress}, visited : SUBSET Routers]
          /\ p.at = r /\ p.TTL = packet.TTL - 1 /\ p.Dst = packet.Dst
      <4>1. /\ packet.TTL - 1 \in Int /\ packet.visited \union {r} \in SUBSET Routers
            /\ packet \in [stage : {"new", "sent"}, at : Routers, Dst : Addresses, TTL : Int,
                           nextIP : Addresses \union {NoAddress}, visited : SUBSET Routers]
        BY <2>1, <2>2 DEF Carried
      <4> QED BY <2>1, <4>1
    <3>3. packet.Dst \in Addresses /\ Router(packet.Dst) # r
      BY <2>2, <2>4, OwnPacketsStay DEF Carried, TreeInv
    <3>4. Depth[d][r] + 1 <= packet.TTL
      BY <2>1, <2>2, <3>3 DEF Spare
    <3>5. d \in Destinations /\ Depth[d][r] \in Nat /\ packet.TTL \in Int
      BY <2>2 DEF Approaches, Carried
    <3>6. Depth[d][r] <= packet.TTL - 1
      BY <3>4, <3>5
    <3> HIDE DEF p
    <3> QED BY <3>1, <3>2, <3>6, LookUpSpares
  <2> QED BY <2>3, <2>4
<1>4. ASSUME NEW r \in Routers, PassOn(r)
      PROVE  SpareInv(Hop, Depth)'
  <2>1. packet.stage = "found" /\ packet.at = r
    BY <1>4 DEF PassOn
  <2>2. packet \in Carried /\ Approaches(packet, Depth) /\ Spare(packet, Hop, Depth)
    BY <2>1 DEF PacketInv, SpareInv, NoPacket
  <2> DEFINE d == Prefix(packet.Dst)
             n == Router(packet.nextIP)
  <2>3. packet' = NoPacket \/ packet' = [packet EXCEPT !.stage = "sent", !.at = n]
    BY <1>4, SentToAddress DEF PassOn, After
  <2>4. /\ d \in Destinations /\ d \notin Attached[r] /\ packet.nextIP \in NextHops(r)
        /\ packet.nextIP = Hop[d][r] /\ Depth[d][r] <= packet.TTL /\ packet.TTL \in Int
    BY <2>1, <2>2 DEF Approaches, Spare, Carried
  <2>5. Depth[d][n] < Depth[d][r] /\ n \in Routers
    BY <2>4, AddressesTyped DEF TreeLike, NextHops
  <2>6. Depth[d][n] \in Nat /\ Depth[d][r] \in Nat
    BY <2>4, <2>5
  <2>7. Depth[d][n] + 1 <= packet.TTL
    BY <2>4, <2>5, <2>6
  <2> QED BY <2>2, <2>3, <2>7 DEF SpareInv, Spare, Carried
<1> QED BY <1>1, <1>2, <1>3, <1>4 DEF ForwardNext, forwardVars

\* Where the table has a shortest route for a packet that can get to its
\* destination, that is a RIP route over an interface that is up.
LEMMA SettledRoute ==
    ASSUME NEW Hop, NEW Depth, TreeLike(Hop, Depth), TreeInv(Hop), RunInv,
           NEW r \in Routers, NEW d \in Destinations, d \notin Attached[r],
           ShortestRoutes(d), r \in Within(d)[Cardinality(Routers)]
    PROVE  /\ FwdTable[r][d].RouteType = "rip" /\ FwdTable[r][d].NextHop = Hop[d][r]
           /\ Hop[d][r] \in NextHops(r) /\ Prefix(Hop[d][r]) \in up[r]
           /\ Router(Hop[d][r]) \in started
<1>1. FwdTable[r][d] # LocalRoute
  BY DEF TreeInv, RipInv, LocalRoutesStay
<1>2. FwdTable[r][d].RouteType = "rip" /\ Prefix(FwdTable[r][d].NextHop) \in up[r]
  BY <1>1 DEF ShortestRoutes
<1>3. FwdTable[r][d].NextHop = Hop[d][r] /\ Hop[d][r] \in NextHops(r)
  BY <1>2, NextHopIsNearer
<1> QED BY <1>2, <1>3 DEF RunInv, NextHopsRun

\* A lookup at such a router drops nothing that has hops left,
LEMMA LookUpPasses ==
    ASSUME NEW Hop, NEW Depth, TreeLike(Hop, Depth), TreeInv(Hop), RunInv,
           NEW r \in Routers, NEW p, LookUp(r, p),
           p \in [stage : {"new", "sent"}, at : Routers, Dst : Addresses, TTL : Int,
                  nextIP : Addresses \union {NoAddress}, visited : SUBSET Routers],
           Prefix(p.Dst) \in Destinations, Router(p.Dst) # r, Router(p.Dst) \in started,
           Prefix(p.Dst) \in Attached[r] => p.TTL > 0,
           ShortestRoutes(Prefix(p.Dst)), r \in Within(Prefix(p.Dst))[Cardinality(Routers)],
           Prefix(p.Dst) \notin Attached[r] \ up[r]
    PROVE  packet' # NoPacket
<1> DEFINE d == Prefix(p.Dst)
<1>1. CASE d \in Attached[r]
  <2>1. /\ F!getInterfaceByPrefix(Table(r), p.Dst) # {}
        /\ \A result \in F!SendTo(Table(r), p.Dst) : result # F!Drop /\ result.to = p.Dst
    BY <1>1, InterfaceFound
  <2>2. PICK result \in F!SendTo(Table(r), p.Dst) : packet' = After(result, p)
    BY <2>1 DEF LookUp
  <2>hops. result # F!Drop /\ result.to = p.Dst /\ ~HopsSpent(p)
    BY <1>1, <2>1 DEF HopsSpent
  <2>3. packet' = [p EXCEPT !.stage = "sent", !.at = Router(p.Dst)]
    BY <2>2, <2>hops DEF After
  <2>4. packet'.stage = "sent"
    BY <2>3
  <2> QED BY <2>4 DEF NoPacket
<1>2. CASE d \notin Attached[r]
  <2>1. F!getInterfaceByPrefix(Table(r), p.Dst) = {}
    BY <1>2, NoInterfaceElsewhere
  <2>2. FwdTable[r][d].RouteType = "rip" /\ FwdTable[r][d].NextHop \in Addresses
    BY <1>2, SettledRoute DEF NextHops
  <2>3. \A nextIP \in F!getNextHopbyDestIP(Table(r), p.Dst) : nextIP # NoAddress
    BY <1>2, <2>2, RouteFound
  <2>4. PICK nextIP \in F!getNextHopbyDestIP(Table(r), p.Dst) :
          packet' = [p EXCEPT !.stage = "found", !.nextIP = nextIP]
    BY <2>1, <2>3 DEF LookUp
  <2>5. packet'.stage = "found"
    BY <2>4
  <2> QED BY <2>5 DEF NoPacket
<1> QED BY <1>1, <1>2

LEMMA SettledStepPasses ==
    ASSUME NEW Hop, NEW Depth, Depth \in [Destinations -> [Routers -> Nat]],
           TreeLike(Hop, Depth), HopsSuffice(Depth), TreeInv(Hop), RunInv, PacketInv(Depth),
           SpareInv(Hop, Depth), [ForwardNext]_forwardVars,
           NEW r \in Routers, Dropped(r)
    PROVE  LET d == Prefix(packet.Dst) IN
           \/ ~ShortestRoutes(d) \/ r \notin Within(d)[Cardinality(Routers)]
           \/ Router(packet.Dst) \notin started
           \/ d \in Attached[r] \ up[r]
<1> DEFINE d == Prefix(packet.Dst)
<1> SUFFICES ASSUME ShortestRoutes(d), r \in Within(d)[Cardinality(Routers)],
                    Router(packet.Dst) \in started, d \notin Attached[r] \ up[r]
             PROVE  FALSE
  OBVIOUS
<1>1. /\ packet.at = r /\ Router(packet.Dst) # r /\ packet.stage \in {"sent", "found"}
      /\ packet' = NoPacket /\ packet # NoPacket
  BY DEF Dropped, NoPacket
<1>2. packet \in Carried /\ Approaches(packet, Depth) /\ Spare(packet, Hop, Depth)
  BY <1>1 DEF PacketInv, SpareInv
<1>3. /\ d \in Destinations /\ packet.Dst \in Addresses /\ packet.TTL \in Int
      /\ Depth[d][r] \in Nat
  BY <1>2 DEF Approaches, Carried
<1>4. Arrive(r) \/ PassOn(r)
  BY <1>1 DEF ForwardNext, forwardVars, SendPacket, Arrive, PassOn
<1>5. CASE Arrive(r)
  <2> DEFINE p == [packet EXCEPT !.TTL = @ - 1, !.visited = @ \union {r}]
  <2>1. packet.stage = "sent"
    BY <1>5 DEF Arrive
  <2>2. F!checkIfLocalIP(Table(r), packet.Dst) = {}
    <3> SUFFICES ASSUME NEW entry \in Table(r), entry.RouteType = "local",
                        entry.AssignedIP = packet.Dst
                 PROVE  FALSE
      BY DEF F!checkIfLocalIP, F!Local
    <3>1. \E q \in Attached[r] : entry.AssignedIP = <<r, q>>
      BY DEF Table
    <3> QED BY <1>1, <3>1 DEF Router
  <2>3. LookUp(r, p)
    BY <1>5, <2>2 DEF Arrive
  <2>4. /\ p \in [stage : {"new", "sent"}, at : Routers, Dst : Addresses, TTL : Int,
                  nextIP : Addresses \union {NoAddress}, visited : SUBSET Routers]
        /\ p.TTL = packet.TTL - 1 /\ p.Dst = packet.Dst
    <3>1. /\ packet.TTL - 1 \in Int /\ packet.visited \union {r} \in SUBSET Routers
          /\ packet \in [stage : {"new", "sent"}, at : Routers, Dst : Addresses, TTL : Int,
                         nextIP : Addresses \union {NoAddress}, visited : SUBSET Routers]
      BY <1>2, <2>1 DEF Carried
    <3> QED BY <3>1
  <2>5. d \in Attached[r] => p.TTL > 0
    <3> SUFFICES ASSUME d \in Attached[r] PROVE packet.TTL - 1 > 0
      BY <2>4
    <3>1. packet.Dst \in NextHops(r)
      BY <1>1, <1>3 DEF NextHops
    <3>2. Depth[d][r] >= 1
      BY <1>3, <3>1 DEF HopsSuffice
    <3>3. Depth[d][r] + 1 <= packet.TTL
      BY <1>1, <1>2, <2>1 DEF Spare
    <3> QED BY <1>3, <3>2, <3>3
  <2> HIDE DEF p
  <2> QED BY <1>1, <1>3, <2>3, <2>4, <2>5, LookUpPasses
\* The interface of the next hop that was found is up, and the TTL is its depth
\* at least.
<1>6. CASE PassOn(r)
  <2>1. packet.stage = "found"
    BY <1>6 DEF PassOn
  <2>2. /\ d \notin Attached[r] /\ packet.nextIP = Hop[d][r]
        /\ packet.nextIP \in NextHops(r) /\ Depth[d][r] <= packet.TTL
    BY <1>1, <1>2, <2>1 DEF Spare
  <2>3. Prefix(packet.nextIP) \in up[r] /\ Router(packet.nextIP) \in started
    BY <1>3, <2>2, SettledRoute
  <2>4. /\ packet.nextIP \in Addresses /\ Router(packet.nextIP) # r
        /\ Router(packet.nextIP) \in Routers /\ Prefix(packet.nextIP) \in Attached[r]
    BY <2>2, AddressesTyped DEF NextHops
  <2>5. \A result \in F!SendTo(Table(r), packet.nextIP) :
          result # F!Drop /\ result.to = packet.nextIP
    BY <2>3, <2>4, InterfaceFound
  <2>6. Depth[d][Router(packet.nextIP)] < Depth[d][r]
    BY <1>3, <2>2 DEF TreeLike
  <2>7. Depth[d][Router(packet.nextIP)] \in Nat
    BY <1>3, <2>4
  <2>8. ~HopsSpent(packet)
    BY <1>3, <2>2, <2>6, <2>7 DEF HopsSpent
  <2>9. packet' = [packet EXCEPT !.stage = "sent", !.at = Router(packet.nextIP)]
    BY <1>6, <2>3, <2>5, <2>8 DEF PassOn, After
  <2>10. packet'.stage = "sent"
    BY <1>2, <2>9 DEF Carried
  <2> QED BY <1>1, <2>10 DEF NoPacket
<1> QED BY <1>4, <1>5, <1>6

\* Tables that hold the shortest routes are good for forwarding, among routers
\* joined like a tree and with a TTL that is enough for it: a packet is dropped
\* neither for want of a route, nor because its next hop was looked up in a table
\* that has changed since (network.go:229-246), nor by its TTL (network.go:262).
THEOREM SettledTablesPassOn ==
    ASSUME NEW Hop, NEW Depth, Depth \in [Destinations -> [Routers -> Nat]],
           TreeLike(Hop, Depth), HopsSuffice(Depth)
    PROVE  ForwardSpec => PassedOnWhenSettled
<1> DEFINE Inv == TreeInv(Hop) /\ RunInv /\ PacketInv(Depth) /\ SpareInv(Hop, Depth)
           Passes == \A r \in Routers :
             Dropped(r) =>
               LET d == Prefix(packet.Dst) IN
               \/ ~ShortestRoutes(d) \/ r \notin Within(d)[Cardinality(Routers)]
               \/ Router(packet.Dst) \notin started
               \/ d \in Attached[r] \ up[r]
<1>1. ForwardInit => Inv
  BY TreeInvHolds, RunInit DEF ForwardInit, PacketInv, SpareInv
<1>2. Inv /\ [ForwardNext]_forwardVars => Inv'
  <2> SUFFICES ASSUME Inv, [ForwardNext]_forwardVars PROVE Inv'
    OBVIOUS
  <2>1. [Next]_vars
    BY ForwardingLeavesRip
  <2>2. TreeInv(Hop)'
    BY <2>1, TreeInvHolds
  <2>3. RunInv'
    BY <2>1, RunStep DEF TreeInv
  <2>4. PacketInv(Depth)' /\ SpareInv(Hop, Depth)'
    BY ForwardStep, SpareStep
  <2> QED BY <2>2, <2>3, <2>4
<1>3. Inv /\ [ForwardNext]_forwardVars => Passes
  BY SettledStepPasses
<1>4. Inv /\ [ForwardNext]_forwardVars => [Passes]_forwardVars
  BY <1>3
<1> HIDE DEF Inv
<1>5. ForwardSpec => [][Passes]_forwardVars
  <2> HIDE DEF Passes
  <2> QED BY <1>1, <1>2, <1>4, PTL DEF ForwardSpec
<1> QED BY <1>5 DEF PassedOnWhenSettled

==============================================================================
