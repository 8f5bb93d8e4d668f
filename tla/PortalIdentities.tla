-------------------------- MODULE PortalIdentities --------------------------
(***************************************************************************)
(* The reverse portal's listener and its samizdat identities               *)
(* (protocol/samizdatreverse/portal.go: Configure, Rebind, Close, expire,  *)
(* stopLocked; demux.go: route, admit, release, retire, close).            *)
(*                                                                         *)
(* The operations hold p.mu, so one runs at a time.  The connections do    *)
(* not take it: a route call reads the routes once and may admit its       *)
(* connection to an identity that has been retired since.  A stop closes   *)
(* the listener and the connections whose route call is still running and  *)
(* then waits for those calls, so it is two steps: StopRouting and Finish. *)
(* Which session holds the slot of a pairing is in PortalSessions.         *)
(***************************************************************************)
EXTENDS Integers, FiniteSets, Sequences

CONSTANTS
    Keys,          \* identities a configuration can name: a key with its certificate
    Ports,
    Conns,         \* connections
    None,
    MaxIdentities, \* bound on samizdat servers ever started
    MaxOperations  \* bound on operations and failures of the listener

AnyPort == 0

Config == [key : Keys, previous : Keys \cup {None}, port : Ports \cup {AnyPort}]
Configs == {c \in Config : c.previous # c.key}

ASSUME IdentitiesAssumption ==
    /\ Ports \subseteq Nat \ {0} /\ Ports # {}
    /\ IsFiniteSet(Conns)
    /\ None \notin Keys /\ None \notin Nat /\ None \notin Configs
    /\ MaxIdentities \in Nat /\ MaxOperations \in Nat

VARIABLES
    wanted,     \* p.cfg: a configuration, None without pairings
    port,       \* p.port: 0 before the portal has served
    curId,      \* p.cur: an identity or None
    previous,   \* p.prev
    previousUp, \* prevUntil has not passed
    expiring,   \* identities whose prevTimer has fired and waits for p.mu
    retired,    \* p.retired
    ids,        \* the identities started so far, in order
    listener,   \* "down", "serving", or "failed" once the accept loop has exited
    conns,      \* connection -> where it stands
    pending,    \* what the operation that is stopping the portal goes on to
    shut,       \* p.closed
    operations  \* bound: operations and listener failures so far

identityVars == <<wanted, port, curId, previous, previousUp, expiring, retired, ids, listener, conns,
                  pending, shut, operations>>

\* "hello" is reading its ClientHello, "picked" has picked an identity from the routes it read,
\* "masked" is masqueraded, "admitted" is counted and about to be delivered, "handshake" and
\* "session" are in the hands of the identity's server, "cut" is a handshake that timed out.
Tracked == {"hello", "picked", "masked", "admitted"}
Counted == {"admitted", "handshake", "session", "cut"}

NoConn == [phase |-> "none", id |-> None]
Gone == [phase |-> "gone", id |-> None]

CountedFor(i) == {c \in Conns : conns[c].id = i /\ conns[c].phase \in Counted}

IdentitiesInit ==
    /\ wanted = None /\ port = 0
    /\ curId = None /\ previous = None /\ previousUp = FALSE
    /\ expiring = {} /\ retired = {}
    /\ ids = <<>>
    /\ listener = "down"
    /\ conns = [c \in Conns |-> NoConn]
    /\ pending = None
    /\ shut = FALSE
    /\ operations = 0

(***************************************************************************)
(* Connections: route, and the identity's server.                          *)
(***************************************************************************)
ConnGoes(c, phase, i) == conns' = [conns EXCEPT ![c] = [phase |-> phase, id |-> i]]

ControlUnchanged == UNCHANGED <<wanted, port, curId, previous, previousUp, expiring, retired,
                                listener, pending, shut, operations>>

Accept(c) ==
    /\ listener = "serving" /\ pending = None /\ conns[c].phase = "none"
    /\ ConnGoes(c, "hello", None)
    /\ ControlUnchanged /\ UNCHANGED ids

\* pick over the routes of the moment; a stop clears them only when no route call is left.
Pick(key) ==
    IF ids[curId].key = key THEN curId
    ELSE IF previous # None /\ previousUp /\ ids[previous].key = key THEN previous
    ELSE None

ReadHello(c, key) ==
    /\ conns[c].phase = "hello"
    /\ IF Pick(key) = None THEN ConnGoes(c, "masked", None) ELSE ConnGoes(c, "picked", Pick(key))
    /\ ControlUnchanged /\ UNCHANGED ids

\* The ClientHello did not come or a stop closed the connection; the masquerade ended.
RouteEnds(c) ==
    /\ conns[c].phase \in {"hello", "masked"}
    /\ conns' = [conns EXCEPT ![c] = Gone]
    /\ ControlUnchanged /\ UNCHANGED ids

Admit(c) ==
    LET i == conns[c].id
    IN /\ conns[c].phase = "picked"
       /\ IF ids[i].retired
          THEN conns' = [conns EXCEPT ![c] = Gone] /\ UNCHANGED ids
          ELSE /\ ConnGoes(c, "admitted", i)
               /\ ids' = [ids EXCEPT ![i].live = @ + 1]
       /\ ControlUnchanged

\* release: the last connection of a retired identity sets off its close.
Released(i) ==
    [ids EXCEPT ![i].live = @ - 1,
                ![i].closing = @ \/ (ids[i].retired /\ ids[i].live = 1)]

Deliver(c) ==
    LET i == conns[c].id
    IN /\ conns[c].phase = "admitted"
       /\ IF ids[i].closed
          THEN conns' = [conns EXCEPT ![c] = Gone] /\ ids' = Released(i)
          ELSE ConnGoes(c, "handshake", i) /\ UNCHANGED ids
       /\ ControlUnchanged

\* startSession wins against the handshake timeout, or loses.
StartSession(c) ==
    /\ conns[c].phase = "handshake"
    /\ ConnGoes(c, "session", conns[c].id)
    /\ ControlUnchanged /\ UNCHANGED ids

HandshakeTimesOut(c) ==
    /\ conns[c].phase = "handshake"
    /\ ConnGoes(c, "cut", conns[c].id)
    /\ ControlUnchanged /\ UNCHANGED ids

\* admittedConn.Close, by the server when it is done with the connection.
ConnCloses(c) ==
    /\ conns[c].phase \in {"handshake", "session", "cut"}
    /\ conns' = [conns EXCEPT ![c] = Gone]
    /\ ids' = Released(conns[c].id)
    /\ ControlUnchanged

\* identity.close: the server ends the connections it still has and waits for them.
ClosedIds(which) == [i \in DOMAIN ids |->
                     IF i \in which
                     THEN [ids[i] EXCEPT !.closed = TRUE, !.closing = FALSE,
                                         !.live = @ - Cardinality({c \in CountedFor(i) :
                                                                      conns[c].phase # "admitted"})]
                     ELSE ids[i]]

Ended(which) == [c \in Conns |->
                    IF conns[c].id \in which /\ conns[c].phase \in {"handshake", "session", "cut"}
                    THEN Gone ELSE conns[c]]

IdentityCloses(i) ==
    /\ i \in DOMAIN ids /\ ids[i].closing
    /\ ids' = ClosedIds({i})
    /\ conns' = Ended({i})
    /\ ControlUnchanged

(***************************************************************************)
(* Configure, Rebind, expire and Close.                                    *)
(***************************************************************************)
Identity(key) == [key |-> key, live |-> 0, retired |-> FALSE, closing |-> FALSE, closed |-> FALSE]

\* newIdentity for each key, in order.
Started(known, keys) == known \o [n \in 1..Len(keys) |-> Identity(keys[n])]

OpBegins ==
    /\ pending = None /\ operations < MaxOperations
    /\ operations' = operations + 1

\* retire closes an idle identity on the spot.
Retire_Busy(known, which) ==
    [i \in DOMAIN known |->
        IF i \in which THEN [known[i] EXCEPT !.retired = TRUE, !.closed = TRUE] ELSE known[i]]

Retire(known, which) ==
    [i \in DOMAIN known |->
        IF i \in which THEN [known[i] EXCEPT !.retired = TRUE, !.closed = @ \/ known[i].live = 0]
                       ELSE known[i]]

\* p.retired once which are retired: closed ones are forgotten.
StillOpen(known, which) == {i \in retired \cup which : ~known[i].closed}

\* stopLocked up to the wait for the route calls: the listener and the tracked connections are
\* closed.  One that is picked or admitted still goes on to its identity, where it fails.
StopRouting(next) ==
    /\ listener' = "down"
    /\ conns' = [c \in Conns |-> IF conns[c].phase \in {"hello", "masked"} THEN Gone ELSE conns[c]]
    /\ pending' = next
    /\ UNCHANGED <<curId, previous, previousUp, expiring, retired, ids>>

\* What follows a stop: nothing ("down"), forgetting the configuration too ("clear"), serving on a
\* port bound before it ("serve"), or binding first ("rebuild").
After(then, cfg, at) == [then |-> then, cfg |-> cfg, at |-> at]

Running == curId # None /\ listener = "serving"

\* Cur and prev of cfg started anew, on top of known.
Serves(cfg, at, known) ==
    LET n == Len(known)
    IN /\ wanted' = cfg /\ port' = at /\ listener' = "serving"
       /\ ids' = Started(known, IF cfg.previous = None THEN <<cfg.key>> ELSE <<cfg.key, cfg.previous>>)
       /\ curId' = n + 1
       /\ previous' = IF cfg.previous = None THEN None ELSE n + 2
       /\ previousUp' = (cfg.previous # None)

CanBind(cfg, at) == at = cfg.port \/ (cfg.port = AnyPort /\ (port # 0 => at = port))

\* The held identity of this key.
HeldFor(key) == {i \in {curId, previous} \ {None} : ids[i].key = key}

\* What is to be started for this key.
Fresh(key) == IF key = None \/ HeldFor(key) # {} THEN <<>> ELSE <<key>>

\* reidentifyLocked: identities the configuration still names are kept, the others retired.
Reidentify(cfg) ==
    LET known == Started(ids, Fresh(cfg.key) \o Fresh(cfg.previous))
        named(key) == CHOOSE i \in HeldFor(key) \cup (DOMAIN known \ DOMAIN ids) : known[i].key = key
        cur == named(cfg.key)
        prev == IF cfg.previous = None THEN None ELSE named(cfg.previous)
        left == {curId, previous} \ {None, cur, prev}
    IN /\ ids' = Retire(known, left)
       /\ curId' = cur /\ previous' = prev /\ previousUp' = (prev # None)
       /\ retired' = StillOpen(ids', left)
       /\ wanted' = cfg
       /\ UNCHANGED <<port, listener, conns, pending>>

\* configureLocked with pairings.  A running portal on another port is stopped only once the new
\* port is bound; one whose listener failed is stopped first.
ConfigureLocked(cfg) ==
    \/ /\ Running /\ CanBind(cfg, port)
       /\ Reidentify(cfg)
       /\ UNCHANGED expiring
    \/ \E at \in Ports :
          /\ Running /\ ~CanBind(cfg, port) /\ CanBind(cfg, at)
          /\ StopRouting(After("serve", cfg, at))
          /\ UNCHANGED <<wanted, port>>
    \/ /\ Running /\ ~CanBind(cfg, port)
       /\ UNCHANGED <<wanted, port, curId, previous, previousUp, expiring, retired, ids, listener,
                      conns, pending>>
    \/ /\ curId # None /\ ~Running
       /\ StopRouting(After("rebuild", cfg, 0))
       /\ UNCHANGED <<wanted, port>>
    \/ \E at \in Ports :
          /\ curId = None /\ CanBind(cfg, at)
          /\ Serves(cfg, at, ids)
          /\ UNCHANGED <<expiring, retired, conns, pending>>
    \/ /\ curId = None
       /\ wanted' = cfg
       /\ UNCHANGED <<port, curId, previous, previousUp, expiring, retired, ids, listener, conns,
                      pending>>

Configure(cfg) ==
    /\ ~shut
    /\ Len(ids) + 2 <= MaxIdentities
    /\ OpBegins
    /\ ConfigureLocked(cfg)
    /\ UNCHANGED shut

\* No pairings at all, and Close.
Stops ==
    IF curId = None
    THEN /\ wanted' = None /\ port' = 0
         /\ UNCHANGED <<curId, previous, previousUp, expiring, retired, ids, listener, conns,
                        pending>>
    ELSE StopRouting(After("clear", None, 0)) /\ UNCHANGED <<wanted, port>>

ConfigureNothing == ~shut /\ OpBegins /\ Stops /\ UNCHANGED shut

Close == ~shut /\ OpBegins /\ Stops /\ shut' = TRUE

\* Rebind, also after InterfaceUpdated: the bind succeeds and only accepting moves, or it fails and
\* the portal goes down; a portal that is down is built again.
Rebind ==
    /\ ~shut /\ wanted # None /\ OpBegins
    /\ \/ /\ Running
          /\ UNCHANGED <<wanted, port, curId, previous, previousUp, expiring, retired, ids,
                         listener, conns, pending>>
       \/ Running /\ StopRouting(After("down", None, 0)) /\ UNCHANGED <<wanted, port>>
       \/ /\ ~Running /\ Len(ids) + 2 <= MaxIdentities
          /\ ConfigureLocked(wanted)
    /\ UNCHANGED shut

\* The rest of stopLocked once no route call is left, and of the operation that stopped.
Finish ==
    LET known == ClosedIds({curId, previous} \cup retired)
        down == /\ curId' = None /\ previous' = None /\ previousUp' = FALSE
                /\ ids' = known /\ UNCHANGED listener
    IN /\ pending # None
       /\ \A c \in Conns : conns[c].phase \notin Tracked
       /\ conns' = Ended({curId, previous} \cup retired)
       /\ retired' = {} /\ pending' = None
       /\ \/ pending.then = "down" /\ down /\ UNCHANGED <<wanted, port>>
          \/ pending.then = "clear" /\ down /\ wanted' = None /\ port' = 0
          \/ pending.then = "serve" /\ Serves(pending.cfg, pending.at, known)
          \/ \E at \in Ports :
                /\ pending.then = "rebuild" /\ CanBind(pending.cfg, at)
                /\ Serves(pending.cfg, at, known)
          \/ pending.then = "rebuild" /\ down /\ wanted' = pending.cfg /\ UNCHANGED port
       /\ UNCHANGED <<expiring, shut, operations>>

\* prevUntil passes and prevTimer fires.
PreviousPasses ==
    /\ previous # None /\ previousUp
    /\ previousUp' = FALSE
    /\ expiring' = expiring \cup {previous}
    /\ UNCHANGED <<wanted, port, curId, previous, retired, ids, listener, conns, pending, shut,
                   operations>>

\* A Configure may have kept i as the previous identity for longer.
Expires(i) == ~shut /\ previous = i /\ ~previousUp

\* expire, once it has p.mu.
Expire(i) ==
    /\ i \in expiring /\ pending = None
    /\ expiring' = expiring \ {i}
    /\ IF Expires(i)
       THEN /\ previous' = None
            /\ ids' = Retire(ids, {i})
            /\ retired' = StillOpen(ids', {i})
       ELSE UNCHANGED <<previous, ids, retired>>
    /\ UNCHANGED <<wanted, port, curId, previousUp, listener, conns, pending, shut, operations>>

\* The accept loop exits by itself.
ListenerFails ==
    /\ Running /\ OpBegins
    /\ listener' = "failed"
    /\ UNCHANGED <<wanted, port, curId, previous, previousUp, expiring, retired, ids, conns,
                   pending, shut>>

ConnStep(c) ==
    \/ Accept(c)
    \/ \E key \in Keys \cup {None} : ReadHello(c, key)
    \/ RouteEnds(c)
    \/ Admit(c)
    \/ Deliver(c)
    \/ StartSession(c)
    \/ HandshakeTimesOut(c)
    \/ ConnCloses(c)

IdentitiesNext ==
    \/ \E c \in Conns : ConnStep(c)
    \/ \E i \in 1..MaxIdentities : IdentityCloses(i)
    \/ \E cfg \in Configs : Configure(cfg)
    \/ ConfigureNothing
    \/ Close
    \/ Rebind
    \/ Finish
    \/ PreviousPasses
    \/ \E i \in expiring : Expire(i)
    \/ ListenerFails

\* Route calls and the waits of a stop end; nothing is assumed of peers or of the operations.
IdentitiesFairness ==
    /\ \A c \in Conns : WF_identityVars(Admit(c) \/ Deliver(c))
    /\ WF_identityVars(Finish)

IdentitiesSpec == IdentitiesInit /\ [][IdentitiesNext]_identityVars

(***************************************************************************)
(* Properties.                                                             *)
(***************************************************************************)
\* An identity counts exactly the connections it has admitted and that are not closed, and one
\* that is closed or about to be closed by itself has none: neither rotating the key nor the
\* expiry of the previous one ever cuts off a session or a handshake about to become one
\* (demux.go, lines 45-49).
RetirementCutsNothing ==
    \A i \in DOMAIN ids :
        /\ ids[i].live = Cardinality(CountedFor(i))
        /\ ids[i].closed \/ ids[i].closing => ids[i].live = 0

\* Between operations every open identity is the current one, the previous one, a retired one the
\* portal still knows (so that a stop closes it), or about to close; a retired one without
\* connections is closed or about to be; and a portal that is down has nothing open at all.
NoIdentityLeaks ==
    pending = None =>
        \A i \in DOMAIN ids :
            ~ids[i].closed =>
                /\ curId # None
                /\ i \in {curId, previous} \cup retired
                /\ ids[i].retired <=> i \in retired
                /\ ids[i].retired /\ ids[i].live = 0 => ids[i].closing

\* What the portal serves is what it wants: after any failed bind, failed listener, rotation or
\* expiry, a portal that is up serves the wanted key on the wanted port, and the previous key
\* only if the configuration names it.
ServesWhatIsWanted ==
    pending = None /\ curId # None =>
        /\ wanted # None
        /\ ids[curId].key = wanted.key
        /\ wanted.port \in {AnyPort, port}
        /\ previous # None => ids[previous].key = wanted.previous

\* A connection is admitted only under an identity the portal serves at that moment, although it
\* picked the identity from routes read earlier.
AdmitsOnlyServed ==
    [][\A c \in Conns :
          conns[c].phase = "picked" /\ conns'[c].phase = "admitted" =>
              conns[c].id \in {curId, previous}]_identityVars

\* The previous identity is given up only when its time has passed or a configuration or a stop
\* says so: a timer that fired for an earlier end does not retire it.
PreviousIsKept ==
    [][previous # None /\ previous' = None /\ previousUp =>
          wanted' # wanted \/ pending # None]_identityVars

\* An operation that stops the portal comes to its end: the wait for the route calls, which p.mu
\* is held for, is over although connections picked an identity or are being handed over.
StopsEnd == pending # None ~> pending = None

\* Rotation, reconfiguration and stopping serve what is wanted, cut nothing off, leave nothing
\* open and come to an end.
RotationIsSound ==
    /\ [](RetirementCutsNothing /\ NoIdentityLeaks /\ ServesWhatIsWanted)
    /\ AdmitsOnlyServed /\ PreviousIsKept
    /\ StopsEnd
=============================================================================
