--------------------------------- MODULE Rip ---------------------------------
(***************************************************************************)
(* Routers that exchange their forwarding tables (rip.go over network.go): *)
(* RIPHandler in the goroutine that reads a router's packets, the          *)
(* goroutines PeriodicUpdate and PeriodicExpiry, InitialRIP, and the up    *)
(* and down commands.                                                      *)
(*                                                                         *)
(* Time passes in seconds, the interval of PeriodicExpiry, and only when   *)
(* every packet of the second before has been handled: between neighbours  *)
(* they take a fraction of a millisecond.                                  *)
(***************************************************************************)
EXTENDS Integers, Sequences, FiniteSets

CONSTANTS
    Routers,
    Prefixes,         \* disjoint: one longest match each
    Attached,         \* Attached[r]: the prefixes of r's interfaces
    Destinations,     \* bound: the prefixes whose routes are followed
    RIPNeighbors,     \* RIPNeighbors[r]: the addresses of the configuration
    INFINITY,
    UpdateInterval,   \* seconds
    EntryExpiredTime, \* seconds
    Downable,         \* bound: addresses whose interface may go down
    MaxFaults,        \* bound: packets lost, responses sent later than they
                      \* are made, and down commands, together
    MaxUp             \* bound: up commands

\* An address is a router and a prefix; there is one for each interface.
Router(address) == address[1]
Prefix(address) == address[2]
Addresses == {a \in Routers \X Prefixes : Prefix(a) \in Attached[Router(a)]}

ASSUME RipAssumption ==
    /\ Attached \in [Routers -> SUBSET Prefixes]
    /\ Destinations \subseteq Prefixes
    /\ \A r \in Routers :
         /\ RIPNeighbors[r] \in Seq(Addresses)
         /\ \A i \in DOMAIN RIPNeighbors[r] :
              Router(RIPNeighbors[r][i]) # r /\ Prefix(RIPNeighbors[r][i]) \in Attached[r]
    /\ INFINITY \in Nat \ {0}
    /\ UpdateInterval \in Nat \ {0}
    /\ EntryExpiredTime \in Nat
    /\ Downable \subseteq Addresses
    /\ MaxFaults \in Nat /\ MaxUp \in Nat

VARIABLES
    started,     \* routers that run
    FwdTable,    \* [router][prefix]: the route, with its age in seconds
    up,          \* [router]: the prefixes whose interface is up
    handler,     \* [router]: how far RIPHandler is with a response
    sender,      \* [router][goroutine]: its loop of SendRIPResponseSafe
    untilUpdate, \* [router]: seconds to the next tick of PeriodicUpdate
    checkDue,    \* routers whose PeriodicExpiry has its tick still to serve
    net,         \* [address]: packets on their way to that interface
    faults, ups

vars == <<started, FwdTable, up, handler, sender, untilUpdate, checkDue, net, faults, ups>>

NoRoute == [RouteType |-> "none"]
LocalRoute == [RouteType |-> "local", Cost |-> 0]
RIPRoute(cost, nextHop) ==
    [RouteType |-> "rip", Cost |-> cost, NextHop |-> nextHop, age |-> 0]

Goroutines == {"RIPHandler", "PeriodicUpdate"}
Nothing == [Command |-> "none"]
Resting == [left |-> <<>>, packet |-> Nothing]
Idle == [todo |-> {}]

------------------------------------------------------------------------------
Init ==
    /\ started = {}
    /\ FwdTable = [r \in Routers |-> [d \in Destinations |->
                     IF d \in Attached[r] THEN LocalRoute ELSE NoRoute]]
    /\ up = Attached
    /\ handler = [r \in Routers |-> Idle]
    /\ sender = [r \in Routers |-> [g \in Goroutines |-> Resting]]
    /\ untilUpdate = [r \in Routers |-> 0]
    /\ checkDue = {}
    /\ net = [a \in Addresses |-> <<>>]
    /\ faults = 0
    /\ ups = 0

\* SendPacketToDestIP to a neighbour: an error if the interface is down.  A
\* router that does not run yet gets nothing.
Reachable(r, address) == Prefix(address) \in up[r] /\ Router(address) \in started

SourceOf(r, address) == <<r, Prefix(address)>>

Quiet ==
    /\ checkDue = {}
    /\ \A r \in Routers : handler[r] = Idle /\ \A g \in Goroutines : sender[r][g] = Resting
    /\ \A a \in Addresses : net[a] = <<>>

\* InitialRIP asks every neighbour, then the two periodic goroutines start.
InitialRIP(r) ==
    /\ r \notin started
    /\ Quiet
    /\ started' = started \union {r}
    /\ net' = [a \in Addresses |->
         IF Reachable(r, a) /\ \E i \in DOMAIN RIPNeighbors[r] : RIPNeighbors[r][i] = a
         THEN Append(net[a], [Command |-> "request", Src |-> SourceOf(r, a)])
         ELSE net[a]]
    /\ sender' = [sender EXCEPT ![r]["PeriodicUpdate"].left = RIPNeighbors[r]]
    /\ untilUpdate' = [untilUpdate EXCEPT ![r] = UpdateInterval]
    /\ UNCHANGED <<FwdTable, up, handler, checkDue, faults, ups>>

------------------------------------------------------------------------------
(* SendRIPResponseSafe *)

\* Split horizon with poisoned reverse: what is routed over the neighbour, or
\* is the neighbour's own prefix, costs INFINITY.
\* Mutant: without it.
AdvertisedCostPlain(route, d, srcIP) == route.Cost

AdvertisedCost(route, d, srcIP) ==
    IF \/ route.RouteType = "rip" /\ route.NextHop = srcIP
       \/ route.RouteType # "rip" /\ d = Prefix(srcIP)
    THEN INFINITY
    ELSE route.Cost

Response(r, srcIP) ==
    LET known == {d \in Destinations : FwdTable[r][d] # NoRoute}
    IN [Command |-> "response", Src |-> SourceOf(r, srcIP),
        Entries |-> [d \in known |-> AdvertisedCost(FwdTable[r][d], d, srcIP)]]

Sent(r, srcIP, packet) ==
    IF Reachable(r, srcIP) THEN [net EXCEPT ![srcIP] = Append(@, packet)] ELSE net

\* The entries are collected under NetworkLayerLock and sent without it,
\* usually before anything else happens,
RespondAtOnce(r, g) ==
    /\ sender[r][g].left # <<>>
    /\ sender[r][g].packet = Nothing
    /\ LET srcIP == Head(sender[r][g].left)
       IN net' = Sent(r, srcIP, Response(r, srcIP))
    /\ sender' = [sender EXCEPT ![r][g].left = Tail(@)]
    /\ UNCHANGED <<started, FwdTable, up, handler, untilUpdate, checkDue, faults, ups>>

\* or else after the table has changed.
MakeResponse(r, g) ==
    /\ faults < MaxFaults
    /\ sender[r][g].left # <<>>
    /\ sender[r][g].packet = Nothing
    /\ sender' = [sender EXCEPT ![r][g].packet = Response(r, Head(sender[r][g].left))]
    /\ faults' = faults + 1
    /\ UNCHANGED <<started, FwdTable, up, handler, untilUpdate, checkDue, net, ups>>

SendResponse(r, g) ==
    /\ sender[r][g].packet # Nothing
    /\ net' = Sent(r, Head(sender[r][g].left), sender[r][g].packet)
    /\ sender' = [sender EXCEPT ![r][g] = [left |-> Tail(@.left), packet |-> Nothing]]
    /\ UNCHANGED <<started, FwdTable, up, handler, untilUpdate, checkDue, faults, ups>>

SendRIPResponseSafe(r) ==
    \E g \in Goroutines : RespondAtOnce(r, g) \/ MakeResponse(r, g) \/ SendResponse(r, g)

------------------------------------------------------------------------------
(* RIPHandler *)

\* An entry is looked at only if the cost one hop further is below INFINITY.
\* Mutant: every entry is looked at.
WorthLookingAlways(cost) == TRUE

WorthLooking(cost) == cost + 1 < INFINITY

Better(cost, route) == cost < route.Cost

WorseFromNextHop(cost, nextHop, route) ==
    cost > route.Cost /\ nextHop = route.NextHop
SameFromNextHop(cost, nextHop, route) ==
    cost = route.Cost /\ nextHop = route.NextHop

\* HandlePacket drops what arrives on an interface that is down.  A request is
\* answered; the entries of a response are gone through one by one.
TakePacket(r) ==
    /\ r \in started
    /\ handler[r] = Idle
    /\ sender[r]["RIPHandler"] = Resting
    /\ \E a \in Addresses :
         /\ Router(a) = r
         /\ net[a] # <<>>
         /\ net' = [net EXCEPT ![a] = Tail(@)]
         /\ LET packet == Head(net[a])
                isUp == Prefix(a) \in up[r]
                entries == IF packet.Command = "response" THEN packet.Entries ELSE <<>>
                todo == {d \in DOMAIN entries : WorthLooking(entries[d])}
            IN /\ sender' = IF isUp /\ packet.Command = "request"
                            THEN [sender EXCEPT ![r]["RIPHandler"].left = <<packet.Src>>]
                            ELSE sender
               /\ handler' = IF isUp /\ todo # {}
                             THEN [handler EXCEPT ![r] =
                               [Src |-> packet.Src, Entries |-> entries, todo |-> todo,
                                found |-> {d \in todo : FwdTable[r][d] # NoRoute},
                                updated |-> FALSE]]
                             ELSE handler
    /\ UNCHANGED <<started, FwdTable, up, untilUpdate, checkDue, faults, ups>>

\* One entry of a response: GetEntryByPrefix, which gives the lock back, then
\* the update under the lock.  A route that was found and has expired since is
\* no RIP route, and nothing happens.  After the last entry a triggered update
\* goes to all neighbours, if any route changed.
UpdateEntry(r) ==
    /\ handler[r] # Idle
    /\ \E d \in handler[r].todo :
       \E ok \in {FwdTable[r][d] # NoRoute, d \in handler[r].found} :
         LET srcIP == handler[r].Src
             cost == handler[r].Entries[d] + 1
             current == FwdTable[r][d]
             isRIP == ok /\ current.RouteType = "rip"
             changed == \/ ~ok
                        \/ isRIP /\ Better(cost, current)
                        \/ isRIP /\ WorseFromNextHop(cost, srcIP, current)
             refreshed == isRIP /\ SameFromNextHop(cost, srcIP, current)
             updated == handler[r].updated \/ changed
             last == handler[r].todo = {d}
         IN /\ FwdTable' = IF changed \/ refreshed
                           THEN [FwdTable EXCEPT ![r][d] = RIPRoute(cost, srcIP)]
                           ELSE FwdTable
            /\ handler' = [handler EXCEPT ![r] =
                 IF last THEN Idle
                            ELSE [handler[r] EXCEPT !.todo = @ \ {d}, !.updated = updated]]
            /\ sender' = IF last /\ updated
                         THEN [sender EXCEPT ![r]["RIPHandler"].left = RIPNeighbors[r]]
                         ELSE sender
    /\ UNCHANGED <<started, up, untilUpdate, checkDue, net, faults, ups>>

RIPHandler(r) == TakePacket(r) \/ UpdateEntry(r)

------------------------------------------------------------------------------
(* Time *)

\* Mutant: only a cost of INFINITY ends a route.
ExpiredNever(route) == route.RouteType = "rip" /\ route.Cost >= INFINITY

Expired(route) ==
    /\ route.RouteType = "rip"
    /\ route.age > EntryExpiredTime \/ route.Cost >= INFINITY

PeriodicExpiry(r) ==
    /\ r \in checkDue
    /\ checkDue' = checkDue \ {r}
    /\ FwdTable' = [FwdTable EXCEPT ![r] = [d \in Destinations |->
                      IF Expired(@[d]) THEN NoRoute ELSE @[d]]]
    /\ UNCHANGED <<started, up, handler, sender, untilUpdate, net, faults, ups>>

Older(route) ==
    IF route.RouteType = "rip" /\ route.age <= EntryExpiredTime
    THEN [route EXCEPT !.age = @ + 1]
    ELSE route

\* A second passes: PeriodicExpiry has its tick, every UpdateInterval seconds
\* PeriodicUpdate too.
Tick ==
    /\ Quiet
    /\ FwdTable' = [r \in Routers |-> [d \in Destinations |-> Older(FwdTable[r][d])]]
    /\ checkDue' = started
    /\ untilUpdate' = [r \in Routers |->
         CASE r \notin started -> 0
           [] r \in started /\ untilUpdate[r] = 1 -> UpdateInterval
           [] OTHER -> untilUpdate[r] - 1]
    /\ sender' = [r \in Routers |->
         IF r \in started /\ untilUpdate[r] = 1
         THEN [sender[r] EXCEPT !["PeriodicUpdate"].left = RIPNeighbors[r]]
         ELSE sender[r]]
    /\ UNCHANGED <<started, up, handler, net, faults, ups>>

------------------------------------------------------------------------------
(* UpdateInterfaceState, for the down and up commands, and the network *)

Down(r) ==
    /\ r \in started
    /\ faults < MaxFaults
    /\ \E q \in up[r] : <<r, q>> \in Downable /\ up' = [up EXCEPT ![r] = @ \ {q}]
    /\ faults' = faults + 1
    /\ UNCHANGED <<started, FwdTable, handler, sender, untilUpdate, checkDue, net, ups>>

Up(r) ==
    /\ r \in started
    /\ ups < MaxUp
    /\ \E q \in Attached[r] \ up[r] : up' = [up EXCEPT ![r] = @ \union {q}]
    /\ ups' = ups + 1
    /\ UNCHANGED <<started, FwdTable, handler, sender, untilUpdate, checkDue, net, faults>>

Lose(a) ==
    /\ faults < MaxFaults
    /\ net[a] # <<>>
    /\ net' = [net EXCEPT ![a] = Tail(@)]
    /\ faults' = faults + 1
    /\ UNCHANGED <<started, FwdTable, up, handler, sender, untilUpdate, checkDue, ups>>

------------------------------------------------------------------------------
Run(r) == RIPHandler(r) \/ SendRIPResponseSafe(r) \/ PeriodicExpiry(r)

Next ==
    \/ \E r \in Routers : InitialRIP(r) \/ Run(r) \/ Down(r) \/ Up(r)
    \/ \E a \in Addresses : Lose(a)
    \/ Tick

Spec == Init /\ [][Next]_vars

\* Goroutines that can go on do, and time passes.  Nobody need start a router
\* or type down or up.  Within one second every goroutine has only so much to
\* do, so that it is enough that some goroutine goes on.
Fairness == WF_vars((\E r \in Routers : Run(r)) \/ Tick)

FairSpec == Spec /\ Fairness

------------------------------------------------------------------------------
(* What must hold *)

\* A router that has a route knows a cost below INFINITY for it and a
\* neighbour to send to; packets carry the costs AdvertisedCost can give.
TypeOK ==
    /\ started \subseteq Routers /\ checkDue \subseteq started
    /\ \A r \in Routers :
         /\ up[r] \subseteq Attached[r]
         /\ untilUpdate[r] \in 0 .. UpdateInterval
         /\ \A d \in Destinations :
              LET route == FwdTable[r][d] IN
              route.RouteType = "rip" =>
                /\ route.Cost \in 1 .. INFINITY - 1
                /\ route.age \in 0 .. EntryExpiredTime + 1
                /\ route.NextHop \in Addresses
                /\ Router(route.NextHop) # r /\ Prefix(route.NextHop) \in Attached[r]
         /\ \A d \in handler[r].todo : handler[r].Entries[d] \in 0 .. INFINITY - 2
    /\ \A a \in Addresses : \A i \in DOMAIN net[a] :
         net[a][i].Command = "response" =>
            \A d \in DOMAIN net[a][i].Entries : net[a][i].Entries[d] \in 0 .. INFINITY

Linked(r, n) ==
    \E q \in up[r] \intersect up[n] : r \in started /\ n \in started /\ r # n

\* Within(d)[k]: the routers at most k hops from one with an interface on d,
\* over interfaces that are up.  A down interface keeps its local route.
Within(d) ==
    LET W[k \in 0 .. Cardinality(Routers)] ==
          IF k = 0 THEN {r \in Routers : d \in Attached[r]}
          ELSE W[k - 1] \union {r \in Routers : \E n \in W[k - 1] : Linked(r, n)}
    IN W

\* The route every router should have: none if d cannot be reached, and
\* otherwise one whose cost is the distance, over a neighbour one hop nearer.
ShortestRoutes(d) ==
    LET W == Within(d) IN
    \A r \in Routers :
        LET route == FwdTable[r][d] IN
        \/ route = NoRoute /\ r \notin W[Cardinality(Routers)]
        \/ route = LocalRoute
        \/ /\ route.RouteType = "rip"
           /\ route.Cost <= Cardinality(Routers)
           /\ r \in W[route.Cost] \ W[route.Cost - 1]
           /\ Router(route.NextHop) \in W[route.Cost - 1]
           /\ Prefix(route.NextHop) \in up[r] \intersect up[Router(route.NextHop)]

\* Once interfaces stop going up and down and packets stop being lost, the
\* tables come to hold the shortest routes, and stay so.
Converges == <>[](\A d \in Destinations : ShortestRoutes(d))

\* Split horizon: no two routers send packets for a destination to each other.
NoTwoRouterLoop ==
    \A r, n \in Routers, d \in Destinations :
        ~ /\ FwdTable[r][d].RouteType = "rip" /\ Router(FwdTable[r][d].NextHop) = n
          /\ FwdTable[n][d].RouteType = "rip" /\ Router(FwdTable[n][d].NextHop) = r

------------------------------------------------------------------------------
(* Routers joined like a tree, where split horizon is enough *)

\* The addresses router r can send to: the other routers' on its networks.
NextHops(r) == {n \in Addresses : Router(n) # r /\ Prefix(n) \in Attached[r]}

\* For each destination every router that is not on it has at most one neighbour
\* on the way there, Hop[d][r], which is nearer by Depth; to every other
\* neighbour the router is itself that one.
TreeLike(Hop, Depth) ==
    \A d \in Destinations, r \in Routers : d \notin Attached[r] =>
        \A n \in NextHops(r) :
            IF n = Hop[d][r] THEN Depth[d][Router(n)] < Depth[d][r]
            ELSE d \notin Attached[Router(n)] /\ Hop[d][Router(n)] = SourceOf(r, n)
==============================================================================
