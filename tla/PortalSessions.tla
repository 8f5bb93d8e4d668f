--------------------------- MODULE PortalSessions ---------------------------
(***************************************************************************)
(* The session slots of the reverse portal                                 *)
(* (protocol/samizdatreverse/portal.go: handleSession, publish,            *)
(* setPairings, closeSessions).                                            *)
(*                                                                         *)
(* A helper dials the portal over IPv6 and IPv4 at once and reconnects     *)
(* when a session ends, so several handlers compete for the one slot of    *)
(* their pairing.  publish decides under sessMu, but a newcomer has to     *)
(* answer a ping outside it before it may take a slot that is not empty,   *)
(* and the occupant it displaces is closed after sessMu is released.       *)
(* Meanwhile the pairings may change.                                      *)
(***************************************************************************)
EXTENDS Integers, FiniteSets

CONSTANTS
    Handlers,    \* calls of handleSession, one per authenticated connection
    Speakers,    \* those whose connection the helper serves HTTP/2 on: not the loser of its race
    ShortIDs,
    ReverseTags, \* tags of the reverse outbounds
    Vacant,      \* no tag, no session
    MaxPairings  \* bound on changes of the pairings

ASSUME SessionsAssumption ==
    /\ Speakers \subseteq Handlers
    /\ Vacant \notin Handlers \cup ReverseTags
    /\ MaxPairings \in Nat

VARIABLES
    pairings,  \* short ID -> tag
    published, \* tag -> the handler whose session is published
    handler,   \* handler -> where it stands
    sessSeq,
    stale,     \* sessions setPairings took out, which closeSessions has yet to close
    changed    \* bound: changes of the pairings so far

portalVars == <<pairings, published, handler, sessSeq, stale, changed>>

\* phase: "publish" is about to take sessMu in publish, "ping" waits for its ping, "displace" has
\* the slot and is closing the session it took it from, "held" waits for the end of its session.
\* open: the HTTP/2 client has not closed the connection.
HandlerState ==
    [phase : {"none", "publish", "ping", "displace", "held", "done"},
     shortID : ShortIDs \cup {Vacant}, tag : ReverseTags \cup {Vacant}, seq : Nat,
     confirmed : BOOLEAN, open : BOOLEAN, displaced : Handlers \cup {Vacant}]

PortalTypeOK ==
    /\ pairings \in [ShortIDs -> ReverseTags \cup {Vacant}]
    /\ published \in [ReverseTags -> Handlers \cup {Vacant}]
    /\ handler \in [Handlers -> HandlerState]
    /\ sessSeq \in Nat
    /\ stale \subseteq Handlers
    /\ changed \in Nat

PortalInit ==
    /\ pairings \in [ShortIDs -> ReverseTags]
    /\ published = [t \in ReverseTags |-> Vacant]
    /\ handler = [h \in Handlers |->
                     [phase |-> "none", shortID |-> Vacant, tag |-> Vacant, seq |-> 0,
                      confirmed |-> FALSE, open |-> FALSE, displaced |-> Vacant]]
    /\ sessSeq = 0
    /\ stale = {}
    /\ changed = 0

(***************************************************************************)
(* handleSession and publish.                                              *)
(***************************************************************************)
\* handleSession up to publish: nobody looks at seq before.
HandleSession(h, id) ==
    /\ handler[h].phase = "none"
    /\ pairings[id] # Vacant
    /\ sessSeq' = sessSeq + 1
    /\ handler' = [handler EXCEPT ![h] =
                      [@ EXCEPT !.phase = "publish", !.shortID = id, !.tag = pairings[id],
                                !.seq = sessSeq + 1, !.open = TRUE]]
    /\ UNCHANGED <<pairings, published, stale, changed>>

Outranks_Unconfirmed(h, cur) == handler[h].seq > handler[cur].seq

\* h may take the slot from cur.
Outranks(h, cur) ==
    handler[h].confirmed /\ (~handler[cur].confirmed \/ handler[cur].seq < handler[h].seq)

Outranked(h, cur) ==
    handler[h].confirmed \/ (handler[cur].confirmed /\ handler[cur].seq > handler[h].seq)

\* publish returned false: handleSession returns and closes the client.
Dropped(h) == handler' = [handler EXCEPT ![h].phase = "done", ![h].open = FALSE]

StillPaired(h) == pairings[handler[h].shortID] = handler[h].tag

\* One turn of publish's loop, up to the unlock.
Publish(h) ==
    LET tag == handler[h].tag
        cur == published[tag]
    IN /\ handler[h].phase = "publish"
       /\ \/ ~StillPaired(h) /\ Dropped(h) /\ UNCHANGED published
          \/ /\ StillPaired(h) /\ (cur # Vacant => Outranks(h, cur))
             /\ published' = [published EXCEPT ![tag] = h]
             /\ handler' = [handler EXCEPT ![h].phase = IF cur = Vacant THEN "held" ELSE "displace",
                                           ![h].displaced = cur]
          \/ /\ StillPaired(h) /\ cur # Vacant /\ ~Outranks(h, cur) /\ Outranked(h, cur)
             /\ Dropped(h) /\ UNCHANGED published
          \/ /\ StillPaired(h) /\ cur # Vacant /\ ~Outranks(h, cur) /\ ~Outranked(h, cur)
             /\ handler' = [handler EXCEPT ![h].phase = "ping"]
             /\ UNCHANGED published
       /\ UNCHANGED <<pairings, sessSeq, stale, changed>>

\* cur.cc.Close() after the unlock.
Displace(h) ==
    /\ handler[h].phase = "displace"
    /\ handler' = [handler EXCEPT ![handler[h].displaced].open = FALSE,
                                  ![h].phase = "held", ![h].displaced = Vacant]
    /\ UNCHANGED <<pairings, published, sessSeq, stale, changed>>

PingAnswered(h) ==
    /\ handler[h].phase = "ping" /\ handler[h].open /\ h \in Speakers
    /\ handler' = [handler EXCEPT ![h].phase = "publish", ![h].confirmed = TRUE]
    /\ UNCHANGED <<pairings, published, sessSeq, stale, changed>>

\* The connection or ctx ended, or confirmTimeout passed.
PingFails(h) ==
    /\ handler[h].phase = "ping"
    /\ Dropped(h)
    /\ UNCHANGED <<pairings, published, sessSeq, stale, changed>>

\* The connection ends by itself, or its identity's server is closed.
ConnEnds(h) ==
    /\ handler[h].phase # "none" /\ handler[h].open
    /\ handler' = [handler EXCEPT ![h].open = FALSE]
    /\ UNCHANGED <<pairings, published, sessSeq, stale, changed>>

\* The slot is given up only by its holder.
Vacated(h) ==
    IF published[handler[h].tag] = h THEN [published EXCEPT ![handler[h].tag] = Vacant]
                                    ELSE published

\* The end of handleSession.
SessionEnds(h) ==
    /\ handler[h].phase = "held" /\ ~handler[h].open
    /\ published' = Vacated(h)
    /\ handler' = [handler EXCEPT ![h].phase = "done"]
    /\ UNCHANGED <<pairings, sessSeq, stale, changed>>

(***************************************************************************)
(* Configure, Rebind and Close change the pairings.                        *)
(***************************************************************************)
Unpaired(new, t) == published[t] # Vacant /\ new[handler[published[t]].shortID] # t

\* setPairings; what it takes out is closed once p.mu is released.
SetPairings(new) ==
    /\ changed < MaxPairings
    /\ pairings' = new
    /\ published' = [t \in ReverseTags |-> IF Unpaired(new, t) THEN Vacant ELSE published[t]]
    /\ stale' = stale \cup {published[t] : t \in {u \in ReverseTags : Unpaired(new, u)}}
    /\ changed' = changed + 1
    /\ UNCHANGED <<handler, sessSeq>>

CloseSession(h) ==
    /\ h \in stale
    /\ stale' = stale \ {h}
    /\ handler' = [handler EXCEPT ![h].open = FALSE]
    /\ UNCHANGED <<pairings, published, sessSeq, changed>>

PortalNext ==
    \/ \E h \in Handlers, id \in ShortIDs : HandleSession(h, id)
    \/ \E h \in Handlers : Publish(h)
    \/ \E h \in Handlers : Displace(h)
    \/ \E h \in Handlers : PingAnswered(h)
    \/ \E h \in Handlers : PingFails(h)
    \/ \E h \in Handlers : ConnEnds(h)
    \/ \E h \in Handlers : SessionEnds(h)
    \/ \E new \in [ShortIDs -> ReverseTags \cup {Vacant}] : SetPairings(new)
    \/ \E h \in Handlers : CloseSession(h)

PortalSpec == PortalInit /\ [][PortalNext]_portalVars

(***************************************************************************)
(* Properties.                                                             *)
(***************************************************************************)
\* A published session belongs to the tag its short ID is paired with now, although pairings
\* change while its ping is out (publish looks again each time it holds sessMu).
PublishedIsPaired ==
    \A t \in ReverseTags :
        published[t] # Vacant => pairings[handler[published[t]].shortID] = t

\* A published session has a handler that will take it out again, and a session no longer
\* published is closed or someone has set out to close it: no session is served that the portal
\* has forgotten, and none is handed out whose handler is gone.
NoSessionIsForgotten ==
    /\ \A t \in ReverseTags :
          published[t] # Vacant => handler[published[t]].phase \in {"displace", "held"}
    /\ \A h \in Handlers :
          handler[h].phase \in {"displace", "held"} /\ handler[h].open =>
              \/ published[handler[h].tag] = h
              \/ h \in stale
              \/ \E g \in Handlers : handler[g].phase = "displace" /\ handler[g].displaced = h

\* A session the helper serves loses its slot to another session only if the helper serves that
\* one too, and once it has answered a ping only to a newer one: the loser of an IPv6 and IPv4
\* race and a confirmation that finishes late never take a working session down (comment of
\* publish, lines 635-646).
WorkingSessionIsKept ==
    [][\A t \in ReverseTags :
          LET old == published[t]
              new == published'[t]
          IN old \in Speakers /\ new \notin {old, Vacant} =>
                /\ new \in Speakers
                /\ handler[old].confirmed => handler[new].seq > handler[old].seq]_portalVars

\* The sessions the portal hands out are the right ones: paired, looked after and never worse than
\* what they replaced.
SessionsAreSound ==
    /\ [](PublishedIsPaired /\ NoSessionIsForgotten)
    /\ WorkingSessionIsKept
=============================================================================
