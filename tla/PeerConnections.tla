--------------------------- MODULE PeerConnections ---------------------------
(***************************************************************************)
(* Connections of a Samizdat inbound and who is told of them:              *)
(* handleConnection (protocol/samizdat/inbound.go), the listener registry  *)
(* (tracker/peerconn) and the client counter of a node (node/node.go).     *)
(* Sessions replace one another's listener while connections are open.     *)
(***************************************************************************)
EXTENDS Integers, FiniteSets

CONSTANTS
    Conns,
    Ips,
    IpOf,          \* the client each connection comes from
    Listeners,     \* client counters, one per session
    NoListener

ASSUME PeerAssumption == IsFiniteSet(Conns) /\ IpOf \in [Conns -> Ips] /\ NoListener \notin Listeners

VARIABLES
    registered,    \* peerconn.listener
    counts,        \* clientCounter.open of each session, 0 for an absent entry
    stage,         \* where handleConnection is for each connection
    notify,        \* the listener it acquired
    routed,        \* the router has called back: no goroutine copies any more
    expired        \* the shutdown wait ran out

peerVars == <<registered, counts, stage, notify, routed, expired>>

PeerInit ==
    /\ registered = NoListener
    /\ counts = [l \in Listeners |-> [ip \in Ips |-> 0]]
    /\ stage = [c \in Conns |-> "new"]
    /\ notify = [c \in Conns |-> NoListener]
    /\ routed = {} /\ expired = {}

SetListener(l) ==
    /\ registered' = l
    /\ UNCHANGED <<counts, stage, notify, routed, expired>>

\* clientCounter.listen: entries that are not positive are deleted.
Listen(l, c, delta) ==
    IF l = NoListener THEN UNCHANGED counts
    ELSE counts' = [counts EXCEPT ![l][IpOf[c]] = IF @ + delta > 0 THEN @ + delta ELSE 0]

Acquire(c) ==
    /\ stage[c] = "new"
    /\ stage' = [stage EXCEPT ![c] = "acquired"]
    /\ notify' = [notify EXCEPT ![c] = registered]
    /\ UNCHANGED <<registered, counts, routed, expired>>

Accept(c) ==
    /\ stage[c] = "acquired"
    /\ stage' = [stage EXCEPT ![c] = "routing"]
    /\ Listen(notify[c], c, 1)
    /\ UNCHANGED <<registered, notify, routed, expired>>

\* RouteConnectionEx's callback; whether the router refused the destination is left out.
RoutingEnds(c) ==
    /\ stage[c] \notin {"new", "acquired"} /\ c \notin routed
    /\ routed' = routed \cup {c}
    /\ UNCHANGED <<registered, counts, stage, notify, expired>>

\* ctx is done: the connection is closed and the copies get shutdownTimeout to end.
ClientGone(c) ==
    /\ stage[c] = "routing"
    /\ stage' = [stage EXCEPT ![c] = "closing"]
    /\ UNCHANGED <<registered, counts, notify, routed, expired>>

ShutdownTimesOut(c) ==
    /\ stage[c] = "closing"
    /\ stage' = [stage EXCEPT ![c] = "returning"]
    /\ expired' = expired \cup {c}
    /\ UNCHANGED <<registered, counts, notify, routed>>

WaitEnds(c) ==
    /\ stage[c] \in {"routing", "closing"} /\ c \in routed
    /\ stage' = [stage EXCEPT ![c] = "returning"]
    /\ UNCHANGED <<registered, counts, notify, routed, expired>>

CloseEvent_ReadsRegistry(c) ==
    /\ stage[c] = "returning"
    /\ stage' = [stage EXCEPT ![c] = "ended"]
    /\ Listen(registered, c, -1)
    /\ UNCHANGED <<registered, notify, routed, expired>>

\* The deferred close event.
CloseEvent(c) ==
    /\ stage[c] = "returning"
    /\ stage' = [stage EXCEPT ![c] = "ended"]
    /\ Listen(notify[c], c, -1)
    /\ UNCHANGED <<registered, notify, routed, expired>>

PeerNext ==
    \/ \E l \in Listeners \cup {NoListener} : SetListener(l)
    \/ \E c \in Conns :
          \/ Acquire(c) \/ Accept(c) \/ ClientGone(c) \/ ShutdownTimesOut(c) \/ WaitEnds(c)
          \/ CloseEvent(c) \/ RoutingEnds(c)

PeerSpec == PeerInit /\ [][PeerNext]_peerVars

Open(l, ip) == {c \in Conns : notify[c] = l /\ IpOf[c] = ip /\ stage[c] \in {"routing", "closing",
                                                                             "returning"}}

\* A node's client count is exact: each session's counter holds, for every client, the connections
\* accepted while it was registered that have not closed, although other sessions replace it
\* meanwhile ("so the pair cannot be split across two listeners", Notify).
ClientCountIsExact ==
    \A l \in Listeners, ip \in Ips : counts[l][ip] = Cardinality(Open(l, ip))

\* handleConnection returns only once no goroutine copies, unless the shutdown wait ran out: the
\* HTTP/2 handler below it must not return under a writer ("We MUST NOT return while goroutines
\* are still writing").
HandlerOutlivesCopies ==
    \A c \in Conns : stage[c] \in {"returning", "ended"} => c \in routed \/ c \in expired

\* Each connection is counted and seen out: its opening and closing events reach one listener, and
\* its handler stays until its copies are done.
ConnectionsAreSeenOut == ClientCountIsExact /\ HandlerOutlivesCopies
=============================================================================
