---------------------------- MODULE TwiddleTunnel ----------------------------
(***************************************************************************)
(* The Twiddle outbound (protocol/twiddle/outbound.go): dials are streams  *)
(* of one multiplexed session, which is built when there is none and is    *)
(* paid for with a ticket that may be shown once.                          *)
(*                                                                         *)
(* ensureSession, retireSession and Close run under sessMu, the network    *)
(* calls of ensureSession included, so each is one action; opening a       *)
(* stream and writing its destination run outside.  A session that has     *)
(* been told GO_AWAY takes no new streams and keeps those it has.          *)
(***************************************************************************)
EXTENDS Naturals, Sequences, FiniteSets, Functions

CONSTANTS
    TunnelDials, \* calls of dialTunnel
    MaxTickets,  \* bound on tickets, and so on sessions
    NoSession

ASSUME TunnelAssumption == MaxTickets \in Nat /\ NoSession \notin Nat

VARIABLES
    muxes,     \* the sessions there have been: "live", "away" or "closed"
    sess,      \* o.sess
    draining,  \* o.draining
    watched,   \* sessions whose CloseChan a goroutine waits for
    shut,      \* o.closed
    creds,     \* o.creds
    shown,     \* the tickets that went out, in order
    tickets,   \* how many tickets there have been
    tunnel     \* per call, where it is, on which session, its attempt and Open's error

tunnelVars == <<muxes, sess, draining, watched, shut, creds, shown, tickets, tunnel>>

CallAt(pc, s, attempt, err) == [pc |-> pc, on |-> s, attempt |-> attempt, err |-> err]

TunnelInit ==
    /\ muxes = <<>> /\ sess = NoSession /\ draining = {} /\ watched = {} /\ shut = FALSE
    /\ creds = <<1>> /\ shown = <<>> /\ tickets = 1
    /\ tunnel = [d \in TunnelDials |-> CallAt("idle", NoSession, 0, "none")]

Becomes(d, call) == tunnel' = [tunnel EXCEPT ![d] = call]
Gone(d) == Becomes(d, CallAt("failed", NoSession, 0, "none"))

TunnelDialStarts(d) ==
    /\ tunnel[d].pc = "idle"
    /\ Becomes(d, CallAt("ensure", NoSession, 0, "none"))
    /\ UNCHANGED <<muxes, sess, draining, watched, shut, creds, shown, tickets>>

\* takeCredential takes the ticket added last off the pool.
TopTicket(pool) == pool[Len(pool)]
PoppedPool(pool) == SubSeq(pool, 1, Len(pool) - 1)

\* The tunnel is built: a connection, the opening that shows the ticket and may bring another one,
\* the session.
Builds(d) ==
    /\ creds # <<>>
    /\ \/ /\ Gone(d)  \* no connection: putCredential gives the ticket back
          /\ UNCHANGED <<muxes, sess, creds, shown, tickets>>
       \/ /\ Gone(d)  \* tw.Client failed
          /\ shown' = Append(shown, TopTicket(creds)) /\ creds' = PoppedPool(creds)
          /\ UNCHANGED <<muxes, sess, tickets>>
       \/ /\ shown' = Append(shown, TopTicket(creds))
          /\ \/ creds' = PoppedPool(creds) /\ tickets' = tickets
             \/ /\ tickets < MaxTickets
                /\ tickets' = tickets + 1 /\ creds' = Append(PoppedPool(creds), tickets')
          /\ muxes' = Append(muxes, "live") /\ sess' = Len(muxes')
          /\ Becomes(d, [tunnel[d] EXCEPT !.pc = "open", !.on = Len(muxes')])

HasTunnel == sess # NoSession /\ muxes[sess] # "closed"

EnsureSession(d) ==
    /\ tunnel[d].pc = "ensure"
    /\ \/ /\ shut \/ (~HasTunnel /\ creds = <<>>)
          /\ Gone(d)
          /\ UNCHANGED <<muxes, sess, creds, shown, tickets>>
       \/ /\ ~shut /\ HasTunnel
          /\ Becomes(d, [tunnel[d] EXCEPT !.pc = "open", !.on = sess])
          /\ UNCHANGED <<muxes, sess, creds, shown, tickets>>
       \/ ~shut /\ ~HasTunnel /\ Builds(d)
    /\ UNCHANGED <<draining, watched, shut>>

\* sess.Open: refused after GO_AWAY, fails on a session that is closed.
OpenStream(d) ==
    /\ tunnel[d].pc = "open"
    /\ LET state == muxes[tunnel[d].on]
       IN Becomes(d, IF state = "live" THEN [tunnel[d] EXCEPT !.pc = "write"]
                     ELSE [tunnel[d] EXCEPT !.pc = "retire", !.err = state])
    /\ UNCHANGED <<muxes, sess, draining, watched, shut, creds, shown, tickets>>

\* The states of the sessions once those in S are closed.
ClosedIn(S) == [s \in DOMAIN muxes |-> IF s \in S THEN "closed" ELSE muxes[s]]

\* retireSession's last part: close the session, or leave it to drain under a goroutine's watch.
PutAway_Forgets(s, err) ==
    /\ muxes' = IF err = "closed" THEN ClosedIn({s}) ELSE muxes
    /\ UNCHANGED <<draining, watched>>
PutAway(s, err) ==
    IF err = "closed" THEN muxes' = ClosedIn({s}) /\ UNCHANGED <<draining, watched>>
    ELSE draining' = draining \cup {s} /\ watched' = watched \cup {s} /\ UNCHANGED muxes

\* The rest of an attempt whose Open failed: its session is no longer the cached one, unless
\* another call has seen to that, and the call tries once more, if its context lasts.
RetireSession(d) ==
    /\ tunnel[d].pc = "retire"
    /\ IF sess = tunnel[d].on
       THEN sess' = NoSession /\ PutAway(tunnel[d].on, tunnel[d].err)
       ELSE UNCHANGED <<muxes, sess, draining, watched>>
    /\ \/ Gone(d)
       \/ tunnel[d].attempt = 0 /\ Becomes(d, CallAt("ensure", NoSession, 1, "none"))
    /\ UNCHANGED <<shut, creds, shown, tickets>>

\* writeDestination: a stream that cannot send it is closed; the caller may close its own later.
WriteDestination(d) ==
    /\ tunnel[d].pc = "write"
    /\ \/ Gone(d)
       \/ muxes[tunnel[d].on] # "closed" /\ Becomes(d, [tunnel[d] EXCEPT !.pc = "carries"])
    /\ UNCHANGED <<muxes, sess, draining, watched, shut, creds, shown, tickets>>

StreamCloses(d) ==
    /\ tunnel[d].pc = "carries"
    /\ Gone(d)
    /\ UNCHANGED <<muxes, sess, draining, watched, shut, creds, shown, tickets>>

\* The egress says GO_AWAY, ends the session, or the connection under it fails.
SessionFades(s) ==
    /\ \/ muxes[s] = "live" /\ muxes' = [muxes EXCEPT ![s] = "away"]
       \/ muxes[s] # "closed" /\ muxes' = ClosedIn({s})
    /\ UNCHANGED <<sess, draining, watched, shut, creds, shown, tickets, tunnel>>

\* The goroutine of a session that was left to drain.
DrainEnds(s) ==
    /\ s \in watched /\ muxes[s] = "closed"
    /\ draining' = draining \ {s} /\ watched' = watched \ {s}
    /\ UNCHANGED <<muxes, sess, shut, creds, shown, tickets, tunnel>>

CloseTunnel ==
    /\ ~shut
    /\ shut' = TRUE
    /\ muxes' = ClosedIn({sess} \cup draining)
    /\ sess' = NoSession /\ draining' = {}
    /\ UNCHANGED <<watched, creds, shown, tickets, tunnel>>

TunnelNext ==
    \/ \E d \in TunnelDials :
          \/ TunnelDialStarts(d) \/ EnsureSession(d) \/ OpenStream(d) \/ RetireSession(d)
          \/ WriteDestination(d) \/ StreamCloses(d)
    \/ \E s \in DOMAIN muxes : SessionFades(s) \/ DrainEnds(s)
    \/ CloseTunnel

TunnelSpec == TunnelInit /\ [][TunnelNext]_tunnelVars

-----------------------------------------------------------------------------
\* No tunnel is out of reach: a session that is open is the cached one or one left to drain, so
\* that Close ends every one; and a dial that was on its way when Close came builds none ("an
\* outbound that quietly resurrects itself, holding a connection nothing will ever close").
TunnelsAreOwned ==
    \A s \in DOMAIN muxes : muxes[s] # "closed" => ~shut /\ s \in {sess} \cup draining

\* A ticket goes out on one connection only, and what went out is not in the pool ("rather than
\* emitting the same PSK identity on two connections").
TicketsAreUsedOnce ==
    /\ IsInjective(shown)
    /\ Range(shown) \cap Range(creds) = {}

\* The outbound never cuts streams that work: until it is closed, a session ends only by itself,
\* although late dials find it refusing new streams ("so closing here would drop unrelated
\* connections because an unrelated dial arrived late").
StreamsAreSpared ==
    [][\A s \in DOMAIN muxes :
          muxes[s] # "closed" /\ muxes'[s] = "closed" => shut' \/ SessionFades(s)]_tunnelVars

\* One tunnel serves all dials: it is neither lost, nor cut, nor opened with a used ticket.
TunnelIsSound ==
    /\ [](TunnelsAreOwned /\ TicketsAreUsedOnce)
    /\ StreamsAreSpared
=============================================================================
