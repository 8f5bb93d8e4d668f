---------------------------- MODULE TunnelProofs ----------------------------
(***************************************************************************)
(* Proofs about the tunnels: the session slots of the Samizdat portal, the *)
(* Unbounded outbound, the Twiddle outbound, and the Samizdat bridge with  *)
(* its dial loop, its streams and the reverse dials through it.            *)
(***************************************************************************)
EXTENDS PortalSessions, UnboundedDials, TwiddleTunnel, BridgeLoop, BridgeStream, ReverseConnect,
        FiniteSetTheorems, TLAPS

(***************************************************************************)
(* The session slots of the reverse portal, for any number of handlers,    *)
(* short IDs, tags and changes of the pairings.                            *)
(***************************************************************************)
\* A handler that has begun has a short ID and a tag, only a speaker is ever confirmed, and one
\* that is closing another's session knows which.
WellFormed(h) ==
    /\ handler[h].phase # "none" => handler[h].shortID \in ShortIDs /\ handler[h].tag \in ReverseTags
    /\ handler[h].confirmed => h \in Speakers
    /\ handler[h].phase = "displace" => handler[h].displaced \in Handlers

\* Slots and handlers agree: a slot holds a session of its own tag.
SessionsInv ==
    /\ PortalTypeOK
    /\ \A h \in Handlers : WellFormed(h)
    /\ \A t \in ReverseTags : published[t] # Vacant => handler[published[t]].tag = t
    /\ PublishedIsPaired
    /\ NoSessionIsForgotten

\* The portal begins without sessions.
LEMMA SessionsInit == PortalInit => SessionsInv
  BY SessionsAssumption
  DEF PortalInit, SessionsInv, PortalTypeOK, HandlerState, WellFormed, PublishedIsPaired,
      NoSessionIsForgotten

\* What a step does to handler h, in the terms of the invariant; the others stay.
OnlyChanges(h) ==
    /\ handler' \in [Handlers -> HandlerState]
    /\ \A g \in Handlers : g # h => handler'[g] = handler[g]

Stays(h) ==
    /\ handler'[h].shortID = handler[h].shortID /\ handler'[h].tag = handler[h].tag
    /\ handler'[h].seq = handler[h].seq

\* What the type of the handlers says of the fields of one.
LEMMA HandlerFields ==
  ASSUME NEW h \in Handlers, handler \in [Handlers -> HandlerState]
  PROVE  /\ handler[h].phase \in {"none", "publish", "ping", "displace", "held", "done"}
         /\ handler[h].shortID \in ShortIDs \cup {Vacant}
         /\ handler[h].tag \in ReverseTags \cup {Vacant}
         /\ handler[h].seq \in Nat /\ handler[h].confirmed \in BOOLEAN /\ handler[h].open \in BOOLEAN
         /\ handler[h].displaced \in Handlers \cup {Vacant}
  BY Zenon DEF HandlerState

\* A newcomer competes.
LEMMA HandleSessionStep ==
  ASSUME SessionsInv, NEW h \in Handlers, NEW id \in ShortIDs, HandleSession(h, id)
  PROVE  SessionsInv'
<1>1. OnlyChanges(h) /\ sessSeq' \in Nat
  <2> DEFINE r == [handler[h] EXCEPT !.phase = "publish", !.shortID = id, !.tag = pairings[id],
                                     !.seq = sessSeq + 1, !.open = TRUE]
  <2>1. handler' = [handler EXCEPT ![h] = r] /\ sessSeq' = sessSeq + 1
    BY Zenon DEF HandleSession
  <2>2. handler[h] \in HandlerState /\ sessSeq + 1 \in Nat /\ pairings[id] \in ReverseTags \cup {Vacant}
    BY DEF SessionsInv, PortalTypeOK
  <2>3. r \in HandlerState
    BY <2>2, Zenon DEF HandlerState
  <2> QED
    BY <2>1, <2>2, <2>3, Zenon DEF OnlyChanges, SessionsInv, PortalTypeOK
<1>2. /\ handler'[h].phase = "publish" /\ handler'[h].shortID = id /\ handler'[h].tag = pairings[id]
      /\ handler'[h].confirmed = handler[h].confirmed
      /\ pairings[id] \in ReverseTags /\ handler[h].phase = "none"
  BY DEF HandleSession, SessionsInv, PortalTypeOK, HandlerState
<1>3. UNCHANGED <<pairings, published, stale, changed>>
  BY Zenon DEF HandleSession
<1> QED
  BY <1>1, <1>2, <1>3, SessionsAssumption
  DEF SessionsInv, PortalTypeOK, OnlyChanges, WellFormed, PublishedIsPaired, NoSessionIsForgotten

\* A handler that ends keeps everything but its phase and its open session.
LEMMA DroppedFields ==
  ASSUME SessionsInv, NEW h \in Handlers, Dropped(h)
  PROVE  /\ OnlyChanges(h) /\ Stays(h) /\ handler'[h].confirmed = handler[h].confirmed
         /\ handler'[h].phase = "done" /\ handler'[h].open = FALSE
         /\ handler'[h].displaced = handler[h].displaced
<1> DEFINE r == [handler[h] EXCEPT !.phase = "done", !.open = FALSE]
<1>1. handler \in [Handlers -> HandlerState] /\ handler[h] \in HandlerState
  BY Zenon DEF SessionsInv, PortalTypeOK
<1>2. handler' = [handler EXCEPT ![h] = r]
  BY <1>1, Zenon DEF Dropped, HandlerState
<1>3. r \in HandlerState
  BY <1>1, Zenon DEF HandlerState
<1>4. /\ r.shortID = handler[h].shortID /\ r.tag = handler[h].tag /\ r.seq = handler[h].seq
      /\ r.confirmed = handler[h].confirmed /\ r.phase = "done" /\ r.open = FALSE
      /\ r.displaced = handler[h].displaced
  BY <1>1, Zenon DEF HandlerState
<1> HIDE DEF r
<1> QED
  BY <1>1, <1>2, <1>3, <1>4, Zenon DEF OnlyChanges, Stays

\* A step that leaves slots and pairings alone and takes no handler out of its slot: whoever is
\* open keeps its reason to be.
LEMMA QuietStep ==
  ASSUME SessionsInv, NEW h \in Handlers, OnlyChanges(h), Stays(h), WellFormed(h)',
         UNCHANGED <<pairings, published, sessSeq, changed>>, stale' \subseteq Handlers,
         handler[h].phase \in {"displace", "held"} => handler'[h].phase = handler[h].phase,
         handler'[h].phase \in {"displace", "held"} => handler[h].phase = handler'[h].phase,
         handler'[h].displaced = handler[h].displaced,
         handler'[h].open => handler[h].open /\ stale' = stale,
         ~handler'[h].open => stale \ {h} \subseteq stale'
  PROVE  SessionsInv'
<1>1. \A g \in Handlers : WellFormed(g)'
  BY Zenon DEF SessionsInv, OnlyChanges, WellFormed
<1>2. \A t \in ReverseTags : published'[t] # Vacant => handler'[published'[t]].tag = t
  BY DEF SessionsInv, PortalTypeOK, OnlyChanges, Stays
<1>3. PublishedIsPaired'
  BY DEF SessionsInv, PortalTypeOK, OnlyChanges, Stays, PublishedIsPaired
<1>4. NoSessionIsForgotten'
  <2>1. ASSUME NEW t \in ReverseTags, published'[t] # Vacant
        PROVE  handler'[published'[t]].phase \in {"displace", "held"}
    BY <2>1 DEF SessionsInv, PortalTypeOK, OnlyChanges, NoSessionIsForgotten
  <2>2. ASSUME NEW x \in Handlers, handler'[x].phase \in {"displace", "held"}, handler'[x].open
        PROVE  \/ published'[handler'[x].tag] = x
               \/ x \in stale'
               \/ \E g \in Handlers : handler'[g].phase = "displace" /\ handler'[g].displaced = x
    <3>1. /\ handler[x].phase \in {"displace", "held"} /\ handler[x].open
          /\ handler'[x].tag = handler[x].tag
      BY <2>2, Zenon DEF OnlyChanges, Stays
    <3>2. x \in stale => x \in stale'
      BY <2>2, Zenon
    <3>3. \A g \in Handlers : handler[g].phase = "displace" =>
             handler'[g].phase = "displace" /\ handler'[g].displaced = handler[g].displaced
      BY Zenon DEF OnlyChanges
    <3> QED
      BY <3>1, <3>2, <3>3 DEF SessionsInv, NoSessionIsForgotten
  <2> QED
    BY <2>1, <2>2, Zenon DEF NoSessionIsForgotten
<1> QED
  BY <1>1, <1>2, <1>3, <1>4, Zenon DEF SessionsInv, PortalTypeOK, OnlyChanges

\* A competitor that gives up leaves no trace: it has no slot.
LEMMA DroppedStep ==
  ASSUME SessionsInv, NEW h \in Handlers, Dropped(h), handler[h].phase \in {"publish", "ping"},
         UNCHANGED <<pairings, published, sessSeq, stale, changed>>
  PROVE  SessionsInv'
<1>1. WellFormed(h)' /\ handler'[h].open = FALSE
  BY DroppedFields, Zenon DEF SessionsInv, WellFormed, Stays
<1> QED
  BY <1>1, DroppedFields, QuietStep, Zenon DEF SessionsInv, PortalTypeOK

\* A slot changes hands: the newcomer sets out to close the one it displaces.
LEMMA TakeStep ==
  ASSUME SessionsInv, NEW h \in Handlers, handler[h].phase = "publish", StillPaired(h),
         published' = [published EXCEPT ![handler[h].tag] = h],
         handler' = [handler EXCEPT ![h].phase = IF published[handler[h].tag] = Vacant THEN "held"
                                                 ELSE "displace",
                                    ![h].displaced = published[handler[h].tag]],
         UNCHANGED <<pairings, sessSeq, stale, changed>>
  PROVE  SessionsInv'
<1> DEFINE tag == handler[h].tag
           cur == published[tag]
<1>1. tag \in ReverseTags /\ handler[h].shortID \in ShortIDs /\ cur \in Handlers \cup {Vacant}
  BY Zenon DEF SessionsInv, PortalTypeOK, WellFormed
<1>2. handler \in [Handlers -> HandlerState]
  BY Zenon DEF SessionsInv, PortalTypeOK
<1>3. /\ OnlyChanges(h) /\ Stays(h)
      /\ handler'[h].confirmed = handler[h].confirmed /\ handler'[h].open = handler[h].open
      /\ handler'[h].phase = IF cur = Vacant THEN "held" ELSE "displace"
      /\ handler'[h].displaced = cur
  BY <1>1, <1>2, ZenonT(60) DEF OnlyChanges, Stays, HandlerState
<1>4. published' \in [ReverseTags -> Handlers \cup {Vacant}]
  BY <1>1, Zenon DEF SessionsInv, PortalTypeOK
<1>5. PublishedIsPaired'
  BY <1>1, <1>3, <1>4, SessionsAssumption
  DEF SessionsInv, PortalTypeOK, OnlyChanges, Stays, PublishedIsPaired, StillPaired
<1>6. NoSessionIsForgotten'
  <2>1. ASSUME NEW t \in ReverseTags, published'[t] # Vacant
        PROVE  handler'[published'[t]].phase \in {"displace", "held"}
    BY <1>1, <1>3, <1>4, <2>1 DEF SessionsInv, PortalTypeOK, OnlyChanges, NoSessionIsForgotten
  <2>2. ASSUME NEW x \in Handlers, handler'[x].phase \in {"displace", "held"}, handler'[x].open
        PROVE  \/ published'[handler'[x].tag] = x
               \/ x \in stale'
               \/ \E g \in Handlers : handler'[g].phase = "displace" /\ handler'[g].displaced = x
    <3>1. CASE x = h
      BY <1>1, <1>3, <3>1, Zenon DEF SessionsInv, PortalTypeOK, Stays
    <3>2. CASE x = cur
      BY <1>1, <1>3, <3>2, SessionsAssumption, Zenon
    <3>3. CASE x # h /\ x # cur
      <4>1. handler'[x] = handler[x] /\ handler[x].tag \in ReverseTags
        BY <2>2, <3>3, <1>3, Zenon DEF OnlyChanges, SessionsInv, WellFormed
      <4>2. CASE published[handler[x].tag] = x
        BY <4>1, <4>2, <3>3, <1>1, Zenon DEF SessionsInv, PortalTypeOK
      <4>3. CASE x \in stale
        BY <4>3, Zenon
      <4>4. CASE \E g \in Handlers : handler[g].phase = "displace" /\ handler[g].displaced = x
        BY <4>4, <1>3, Zenon DEF OnlyChanges
      <4> QED
        BY <4>1, <4>2, <4>3, <4>4, <2>2, Zenon DEF SessionsInv, NoSessionIsForgotten
    <3> QED
      BY <3>1, <3>2, <3>3, Zenon
  <2> QED
    BY <2>1, <2>2, Zenon DEF NoSessionIsForgotten
<1>7. \A g \in Handlers : WellFormed(g)'
  BY <1>1, <1>3, SMTT(30) DEF SessionsInv, OnlyChanges, Stays, WellFormed
<1>8. \A t \in ReverseTags : published'[t] # Vacant => handler'[published'[t]].tag = t
  BY <1>1, <1>3, <1>4 DEF SessionsInv, PortalTypeOK, OnlyChanges, Stays
<1> QED
  BY <1>3, <1>4, <1>5, <1>6, <1>7, <1>8, Zenon DEF SessionsInv, PortalTypeOK, OnlyChanges

\* publish keeps the agreement.
LEMMA PublishStep == ASSUME SessionsInv, NEW h \in Handlers, Publish(h) PROVE SessionsInv'
<1>1. CASE Dropped(h) /\ UNCHANGED published
  BY <1>1, DroppedStep, Zenon DEF Publish
<1>2. CASE /\ StillPaired(h) /\ published' = [published EXCEPT ![handler[h].tag] = h]
           /\ handler' = [handler EXCEPT ![h].phase = IF published[handler[h].tag] = Vacant THEN "held"
                                                      ELSE "displace",
                                         ![h].displaced = published[handler[h].tag]]
  BY <1>2, TakeStep, ZenonT(60) DEF Publish
<1>3. CASE handler' = [handler EXCEPT ![h].phase = "ping"] /\ UNCHANGED published
  <2>1. handler \in [Handlers -> HandlerState] /\ handler[h].phase = "publish"
    BY Zenon DEF SessionsInv, PortalTypeOK, Publish
  <2>2. /\ OnlyChanges(h) /\ Stays(h) /\ handler'[h].phase = "ping"
        /\ handler'[h].confirmed = handler[h].confirmed /\ handler'[h].open = handler[h].open
        /\ handler'[h].displaced = handler[h].displaced
    BY <1>3, <2>1, Zenon DEF OnlyChanges, Stays, HandlerState
  <2>3. WellFormed(h)'
    BY <2>1, <2>2, Zenon DEF SessionsInv, WellFormed, Stays
  <2> QED
    BY <1>3, <2>1, <2>2, <2>3, QuietStep, Zenon DEF SessionsInv, PortalTypeOK, Publish
<1> QED
  BY <1>1, <1>2, <1>3, Zenon DEF Publish

\* The displaced session is closed, and its displacer has done its duty.
LEMMA DisplaceStep == ASSUME SessionsInv, NEW h \in Handlers, Displace(h) PROVE SessionsInv'
<1> DEFINE d == handler[h].displaced
<1>1. handler \in [Handlers -> HandlerState] /\ handler[h].phase = "displace" /\ d \in Handlers
  BY Zenon DEF SessionsInv, PortalTypeOK, WellFormed, Displace
<1>2. handler' \in [Handlers -> HandlerState]
  BY <1>1, SessionsAssumption DEF Displace, HandlerState
<1>3. \A g \in Handlers :
         /\ handler'[g].shortID = handler[g].shortID /\ handler'[g].tag = handler[g].tag
         /\ handler'[g].confirmed = handler[g].confirmed
         /\ g # h => handler'[g].phase = handler[g].phase /\ handler'[g].displaced = handler[g].displaced
         /\ g # d => handler'[g].open = handler[g].open
  <2> TAKE g \in Handlers
  <2>1. handler[g] \in HandlerState
    BY <1>1, Zenon
  <2>2. CASE g = h
    <3>1. handler'[g] = [handler[g] EXCEPT !.open = handler'[g].open, !.phase = "held", !.displaced = Vacant]
      BY <1>1, <2>1, <2>2, Zenon DEF Displace, HandlerState
    <3>2. g # d => handler'[g].open = handler[g].open
      BY <1>1, <2>1, <2>2, Zenon DEF Displace, HandlerState
    <3> QED
      BY <2>1, <2>2, <3>1, <3>2, Zenon DEF HandlerState
  <2>3. CASE g # h /\ g = d
    <3>1. handler'[g] = [handler[g] EXCEPT !.open = FALSE]
      BY <1>1, <2>3, Zenon DEF Displace
    <3> QED
      BY <2>1, <2>3, <3>1, Zenon DEF HandlerState
  <2>4. CASE g # h /\ g # d
    BY <1>1, <2>4, ZenonT(40) DEF Displace
  <2> QED
    BY <2>2, <2>3, <2>4, Zenon
<1>4. handler'[h].phase = "held" /\ handler'[d].open = FALSE
  BY <1>1 DEF Displace, HandlerState
<1>5. UNCHANGED <<pairings, published, sessSeq, stale, changed>>
  BY Zenon DEF Displace
<1>6. \A g \in Handlers : WellFormed(g)'
  BY <1>1, <1>3, <1>4, Zenon DEF SessionsInv, WellFormed
<1>7. \A t \in ReverseTags : published'[t] # Vacant => handler'[published'[t]].tag = t
  BY <1>3, <1>5 DEF SessionsInv, PortalTypeOK
<1>8. PublishedIsPaired'
  BY <1>3, <1>5, Zenon DEF SessionsInv, PortalTypeOK, PublishedIsPaired
<1>9. NoSessionIsForgotten'
  <2>1. ASSUME NEW t \in ReverseTags, published'[t] # Vacant
        PROVE  handler'[published'[t]].phase \in {"displace", "held"}
    BY <2>1, <1>3, <1>4, <1>5 DEF SessionsInv, PortalTypeOK, NoSessionIsForgotten
  <2>2. ASSUME NEW x \in Handlers, handler'[x].phase \in {"displace", "held"}, handler'[x].open
        PROVE  \/ published'[handler'[x].tag] = x
               \/ x \in stale'
               \/ \E g \in Handlers : handler'[g].phase = "displace" /\ handler'[g].displaced = x
    <3>1. x # d
      BY <2>2, <1>4, Zenon
    <3>2. handler[x].phase \in {"displace", "held"} /\ handler[x].open
      BY <2>2, <3>1, <1>1, <1>3, Zenon
    <3>3. CASE \E g \in Handlers : handler[g].phase = "displace" /\ handler[g].displaced = x
      BY <3>3, <3>1, <1>3, Zenon
    <3> QED
      BY <3>2, <3>3, <1>3, <1>5 DEF SessionsInv, NoSessionIsForgotten
  <2> QED
    BY <2>1, <2>2, Zenon DEF NoSessionIsForgotten
<1> QED
  BY <1>2, <1>5, <1>6, <1>7, <1>8, <1>9, Zenon DEF SessionsInv, PortalTypeOK

\* A ping that comes back confirms a session the helper serves.
LEMMA PingStep == ASSUME SessionsInv, NEW h \in Handlers, PingAnswered(h) PROVE SessionsInv'
<1>1. handler \in [Handlers -> HandlerState] /\ handler[h].phase = "ping" /\ h \in Speakers
  BY Zenon DEF SessionsInv, PortalTypeOK, PingAnswered
<1>2. /\ OnlyChanges(h) /\ Stays(h) /\ handler'[h].phase = "publish"
      /\ handler'[h].open = handler[h].open /\ handler'[h].displaced = handler[h].displaced
  <2> DEFINE r == [handler[h] EXCEPT !.phase = "publish", !.confirmed = TRUE]
  <2>1. handler' = [handler EXCEPT ![h] = r] /\ handler[h] \in HandlerState
    BY <1>1, Zenon DEF PingAnswered, HandlerState
  <2>2. /\ r \in HandlerState /\ r.shortID = handler[h].shortID /\ r.tag = handler[h].tag
        /\ r.seq = handler[h].seq /\ r.open = handler[h].open /\ r.displaced = handler[h].displaced
        /\ r.phase = "publish"
    BY <2>1, Zenon DEF HandlerState
  <2> HIDE DEF r
  <2> QED
    BY <1>1, <2>1, <2>2, Zenon DEF OnlyChanges, Stays
<1>3. WellFormed(h)'
  BY <1>1, <1>2, Zenon DEF SessionsInv, WellFormed, Stays
<1> QED
  BY <1>1, <1>2, <1>3, QuietStep, Zenon DEF SessionsInv, PortalTypeOK, PingAnswered

\* A connection that ends, by itself or because its session was taken out.
LEMMA EndStep ==
  ASSUME SessionsInv, NEW h \in Handlers, handler' = [handler EXCEPT ![h].open = FALSE],
         UNCHANGED <<pairings, published, sessSeq, changed>>,
         stale' \subseteq stale, stale \ {h} \subseteq stale'
  PROVE  SessionsInv'
<1>1. handler \in [Handlers -> HandlerState]
  BY Zenon DEF SessionsInv, PortalTypeOK
<1>2. /\ OnlyChanges(h) /\ Stays(h) /\ handler'[h].phase = handler[h].phase
      /\ handler'[h].open = FALSE /\ handler'[h].displaced = handler[h].displaced
      /\ handler'[h].confirmed = handler[h].confirmed
  BY <1>1, ZenonT(60) DEF OnlyChanges, Stays, HandlerState
<1>3. WellFormed(h)'
  BY <1>2, Zenon DEF SessionsInv, WellFormed, Stays
<1> QED
  BY <1>2, <1>3, QuietStep, Zenon DEF SessionsInv, PortalTypeOK

\* The end of handleSession frees the slot the handler still has.
LEMMA SessionEndsStep == ASSUME SessionsInv, NEW h \in Handlers, SessionEnds(h) PROVE SessionsInv'
<1>1. /\ handler \in [Handlers -> HandlerState] /\ handler[h].phase = "held" /\ ~handler[h].open
      /\ handler[h].tag \in ReverseTags
  BY Zenon DEF SessionsInv, PortalTypeOK, WellFormed, SessionEnds
<1>2. /\ OnlyChanges(h) /\ Stays(h) /\ handler'[h].phase = "done"
      /\ handler'[h].confirmed = handler[h].confirmed
  BY <1>1 DEF SessionEnds, OnlyChanges, Stays, HandlerState
<1>3. /\ published' \in [ReverseTags -> Handlers \cup {Vacant}]
      /\ \A t \in ReverseTags : published'[t] # Vacant => published'[t] = published[t]
      /\ \A t \in ReverseTags : published[t] # h => published'[t] = published[t]
      /\ published'[handler[h].tag] # h
  BY <1>1, SessionsAssumption, Zenon DEF SessionEnds, Vacated, SessionsInv, PortalTypeOK
<1>4. \A t \in ReverseTags : published'[t] # h
  BY <1>1, <1>3, SessionsAssumption DEF SessionsInv, PortalTypeOK
<1>5. UNCHANGED <<pairings, sessSeq, stale, changed>>
  BY Zenon DEF SessionEnds
<1>6. \A g \in Handlers : WellFormed(g)'
  BY <1>1, <1>2, Zenon DEF SessionsInv, OnlyChanges, Stays, WellFormed
<1>7. \A t \in ReverseTags : published'[t] # Vacant => handler'[published'[t]].tag = t
  BY <1>2, <1>3, <1>4 DEF SessionsInv, PortalTypeOK, OnlyChanges
<1>8. PublishedIsPaired'
  BY <1>2, <1>3, <1>4, <1>5 DEF SessionsInv, PortalTypeOK, OnlyChanges, PublishedIsPaired
<1>9. NoSessionIsForgotten'
  <2>1. ASSUME NEW t \in ReverseTags, published'[t] # Vacant
        PROVE  handler'[published'[t]].phase \in {"displace", "held"}
    BY <2>1, <1>2, <1>3, <1>4, SMTT(30) DEF SessionsInv, PortalTypeOK, OnlyChanges, NoSessionIsForgotten
  <2>2. ASSUME NEW x \in Handlers, handler'[x].phase \in {"displace", "held"}, handler'[x].open
        PROVE  \/ published'[handler'[x].tag] = x
               \/ x \in stale'
               \/ \E g \in Handlers : handler'[g].phase = "displace" /\ handler'[g].displaced = x
    <3>1. x # h /\ handler'[x] = handler[x] /\ handler[x].tag \in ReverseTags
      BY <2>2, <1>2, Zenon DEF OnlyChanges, SessionsInv, WellFormed
    <3>2. CASE \E g \in Handlers : handler[g].phase = "displace" /\ handler[g].displaced = x
      BY <3>2, <1>1, <1>2, Zenon DEF OnlyChanges
    <3> QED
      BY <2>2, <3>1, <3>2, <1>3, <1>5 DEF SessionsInv, NoSessionIsForgotten
  <2> QED
    BY <2>1, <2>2 DEF NoSessionIsForgotten
<1> QED
  BY <1>2, <1>3, <1>5, <1>6, <1>7, <1>8, <1>9, Zenon DEF SessionsInv, PortalTypeOK, OnlyChanges

\* A change of the pairings takes out the sessions it unpairs, and notes them for closing.
LEMMA SetPairingsStep ==
  ASSUME SessionsInv, NEW new \in [ShortIDs -> ReverseTags \cup {Vacant}], SetPairings(new)
  PROVE  SessionsInv'
<1>1. /\ pairings' = new /\ UNCHANGED <<handler, sessSeq>> /\ changed' \in Nat
      /\ published' = [t \in ReverseTags |-> IF Unpaired(new, t) THEN Vacant ELSE published[t]]
      /\ stale' = stale \cup {published[t] : t \in {u \in ReverseTags : Unpaired(new, u)}}
  BY DEF SetPairings, SessionsInv, PortalTypeOK
<1>2. /\ published' \in [ReverseTags -> Handlers \cup {Vacant}]
      /\ \A t \in ReverseTags : published'[t] # Vacant =>
            published'[t] = published[t] /\ new[handler[published[t]].shortID] = t
      /\ \A t \in ReverseTags : published[t] # Vacant =>
            published'[t] = published[t] \/ published[t] \in stale'
  BY <1>1, Zenon DEF Unpaired, SessionsInv, PortalTypeOK
<1>3. stale \subseteq stale' /\ stale' \subseteq Handlers
  BY <1>1, Zenon DEF Unpaired, SessionsInv, PortalTypeOK
<1>4. \A g \in Handlers : WellFormed(g)'
  BY <1>1, Zenon DEF SessionsInv, WellFormed
<1>5. PublishedIsPaired'
  BY <1>1, <1>2, Zenon DEF PublishedIsPaired
<1>6. NoSessionIsForgotten'
  <2>1. ASSUME NEW x \in Handlers, handler[x].phase \in {"displace", "held"}, handler[x].open
        PROVE  \/ published'[handler[x].tag] = x
               \/ x \in stale'
               \/ \E g \in Handlers : handler[g].phase = "displace" /\ handler[g].displaced = x
    <3>1. handler[x].tag \in ReverseTags /\ x # Vacant
      BY <2>1, SessionsAssumption, Zenon DEF SessionsInv, WellFormed
    <3> QED
      BY <2>1, <3>1, <1>2, <1>3 DEF SessionsInv, NoSessionIsForgotten
  <2>2. \A t \in ReverseTags :
           published'[t] # Vacant => handler[published'[t]].phase \in {"displace", "held"}
    BY <1>2, Zenon DEF SessionsInv, NoSessionIsForgotten
  <2> QED
    BY <1>1, <2>1, <2>2 DEF NoSessionIsForgotten
<1>7. \A t \in ReverseTags : published'[t] # Vacant => handler'[published'[t]].tag = t
  BY <1>1, <1>2, Zenon DEF SessionsInv
<1> QED
  BY <1>1, <1>2, <1>3, <1>4, <1>5, <1>6, <1>7, Zenon DEF SessionsInv, PortalTypeOK

\* Every step of handlers, connections and configuration keeps slots and handlers in agreement.
LEMMA SessionsStep == SessionsInv /\ [PortalNext]_portalVars => SessionsInv'
<1> SUFFICES ASSUME SessionsInv, [PortalNext]_portalVars PROVE SessionsInv'
  BY Zenon
<1>1. ASSUME NEW h \in Handlers, PingFails(h) PROVE SessionsInv'
  BY <1>1, DroppedStep, Zenon DEF PingFails
<1>2. ASSUME NEW h \in Handlers, ConnEnds(h) PROVE SessionsInv'
  BY <1>2, EndStep, Zenon DEF ConnEnds
<1>3. ASSUME NEW h \in Handlers, CloseSession(h) PROVE SessionsInv'
  BY <1>3, EndStep, Zenon DEF CloseSession
<1>4. CASE UNCHANGED portalVars
  BY <1>4 DEF portalVars, SessionsInv, PortalTypeOK, WellFormed, PublishedIsPaired,
              NoSessionIsForgotten
<1> QED
  BY <1>1, <1>2, <1>3, <1>4, HandleSessionStep, PublishStep, DisplaceStep, PingStep, SessionEndsStep,
     SetPairingsStep, Zenon DEF PortalNext

\* For any number of competing handlers and changes of the pairings: what is published is paired and
\* has a handler, every other session is closed or about to be, and a session the helper serves
\* gives way only to a better one.
THEOREM SessionsAlwaysSound == PortalSpec => SessionsAreSound
<1>1. SessionsInv => PublishedIsPaired /\ NoSessionIsForgotten
  BY Zenon DEF SessionsInv
<1>2. ASSUME SessionsInv, PortalNext, NEW t \in ReverseTags,
             published[t] \in Speakers, published'[t] \notin {published[t], Vacant}
      PROVE  /\ published'[t] \in Speakers
             /\ handler[published[t]].confirmed
                   => handler[published'[t]].seq > handler[published[t]].seq
  <2>1. PICK h \in Handlers : Publish(h) /\ published' # published
    <3>1. ASSUME NEW h \in Handlers, SessionEnds(h) PROVE FALSE
      BY <1>2, <3>1, Zenon DEF SessionEnds, Vacated, SessionsInv, PortalTypeOK
    <3>2. ASSUME NEW new, SetPairings(new) PROVE FALSE
      BY <1>2, <3>2, Zenon DEF SetPairings
    <3> QED
      BY <1>2, <3>1, <3>2, Zenon
      DEF PortalNext, HandleSession, Displace, PingAnswered, PingFails, ConnEnds, CloseSession
  <2>2. /\ published' = [published EXCEPT ![handler[h].tag] = h]
        /\ published[handler[h].tag] # Vacant => Outranks(h, published[handler[h].tag])
    BY <2>1, Zenon DEF Publish
  <2>3. t = handler[h].tag /\ published'[t] = h
    BY <1>2, <2>2, Zenon DEF SessionsInv, PortalTypeOK
  <2>4. published[t] # Vacant
    BY <1>2, SessionsAssumption, Zenon
  <2> QED
    BY <2>2, <2>3, <2>4, <1>2, HandlerFields, SessionsAssumption, Zenon
    DEF Outranks, SessionsInv, PortalTypeOK, WellFormed
<1>3. SessionsInv /\ [PortalNext]_portalVars
        => [\A t \in ReverseTags :
               LET old == published[t]
                   new == published'[t]
               IN old \in Speakers /\ new \notin {old, Vacant} =>
                     /\ new \in Speakers
                     /\ handler[old].confirmed => handler[new].seq > handler[old].seq]_portalVars
  BY <1>2, Zenon
<1> QED
  BY <1>1, <1>3, SessionsInit, SessionsStep, PTL DEF PortalSpec, SessionsAreSound, WorkingSessionIsKept

(***************************************************************************)
(* The Unbounded outbound: the ring of dial times, the engine and its      *)
(* watchdog.                                                               *)
(***************************************************************************)
\* The remainder of what is at most once around the ring.
LEMMA WrapsOnce ==
  ASSUME NEW x \in Nat, x < Window + Window
  PROVE  x % Window = IF x < Window THEN x ELSE x - Window
BY DialsAssumption

Slot(w, i) == IF w + i - 1 < Window THEN w + i - 1 ELSE w + i - 1 - Window

RingIsRecent(r, w, full, s) ==
    /\ ~full => Len(s) = w /\ \A i \in 1..Len(s) : s[i] = r[i - 1]
    /\ full => Len(s) = Window /\ \A i \in 1..Window : s[i] = r[Slot(w, i)]

DialsInv ==
    /\ engine = "running" <=> phase \in {"starting", "started"}
    /\ phase = "started" => quic = "open"
    /\ ring \in [0..(Window - 1) -> Speeds] /\ writeIdx \in 0..(Window - 1) /\ filled \in BOOLEAN
    /\ recent \in Seq(Speeds)
    /\ RingIsRecent(ring, writeIdx, filled, recent)

\* The tail of a sequence is the sequence, moved by one.
LEMMA TailMoves ==
  ASSUME NEW S, NEW u \in Seq(S), NEW n \in Nat, Len(u) = n + 1
  PROVE  Tail(u) \in Seq(S) /\ Len(Tail(u)) = n /\ \A i \in 1..n : Tail(u)[i] = u[i + 1]
OBVIOUS

\* Recording a dial in the ring adds it to the window of recent dials, before and after the ring
\* is full.
LEMMA RecordKeepsRing ==
  ASSUME NEW r \in [0..(Window - 1) -> Speeds], NEW w \in 0..(Window - 1), NEW full \in BOOLEAN,
         NEW s \in Seq(Speeds), NEW speed \in Speeds, RingIsRecent(r, w, full, s)
  PROVE  LET next == (w + 1) % Window
         IN /\ next \in 0..(Window - 1)
            /\ LastWindow(Append(s, speed)) \in Seq(Speeds)
            /\ RingIsRecent([r EXCEPT ![w] = speed], next, full \/ next = 0,
                            LastWindow(Append(s, speed)))
<1> USE DialsAssumption
<1>1. PICK next : next = IF w + 1 < Window THEN w + 1 ELSE 0
  BY Zenon
<1>2. (w + 1) % Window = next /\ next \in 0..(Window - 1)
  <2>1. w + 1 \in Nat /\ w + 1 < Window + Window /\ w + 1 <= Window
    OBVIOUS
  <2>2. (w + 1) % Window = IF w + 1 < Window THEN w + 1 ELSE w + 1 - Window
    <3>1. PICK x \in Nat : x = w + 1
      BY <2>1, Zenon
    <3>2. x % Window = IF x < Window THEN x ELSE x - Window
      BY <2>1, <3>1, WrapsOnce, Zenon
    <3> QED BY <3>1, <3>2
  <2> QED BY <1>1, <2>1, <2>2
<1> DEFINE q == [r EXCEPT ![w] = speed]
           t == Append(s, speed)
<1>3. /\ t \in Seq(Speeds) /\ Len(t) = Len(s) + 1 /\ t[Len(s) + 1] = speed
      /\ \A i \in 1..Len(s) : t[i] = s[i]
  OBVIOUS
<1>4. q[w] = speed /\ \A j \in 0..(Window - 1) : j # w => q[j] = r[j]
  BY Zenon
<1> HIDE DEF q, t
<1>5. CASE ~full
  <2>1. Len(s) = w /\ (\A i \in 1..Len(s) : s[i] = r[i - 1]) /\ LastWindow(t) = t
    BY <1>3, <1>5 DEF RingIsRecent, LastWindow
  <2>2. \A i \in 1..(w + 1) : t[i] = q[i - 1]
    BY <1>3, <1>4, <2>1
  <2>3. CASE w + 1 < Window
    BY <1>1, <1>2, <1>3, <1>5, <2>1, <2>2, <2>3, SMTT(30) DEF RingIsRecent, q, t
  <2>4. CASE ~(w + 1 < Window)
    BY <1>1, <1>2, <1>3, <2>1, <2>2, <2>4 DEF RingIsRecent, Slot, q, t
  <2> QED BY <2>3, <2>4, Zenon
<1>6. CASE full
  <2>1. Len(s) = Window /\ (\A i \in 1..Window : s[i] = r[Slot(w, i)]) /\ LastWindow(t) = Tail(t)
    BY <1>3, <1>6 DEF RingIsRecent, LastWindow
  <2>2. Tail(t) \in Seq(Speeds) /\ Len(Tail(t)) = Window /\ \A i \in 1..Window : Tail(t)[i] = t[i + 1]
    BY <1>3, <2>1, TailMoves, ZenonT(40)
  <2>3. ASSUME NEW i \in 1..Window PROVE Tail(t)[i] = q[Slot(next, i)]
    <3>1. CASE i = Window
      <4>1. Tail(t)[i] = t[Len(s) + 1]
        BY <2>1, <2>2, <3>1, Zenon
      <4>2. Slot(next, i) = w
        BY <1>1, <3>1 DEF Slot
      <4> QED
        BY <1>3, <1>4, <4>1, <4>2, Zenon
    <3>2. CASE i < Window
      <4>1. Tail(t)[i] = r[Slot(w, i + 1)]
        <5>1. i + 1 \in 1..Window /\ i + 1 \in 1..Len(s)
          BY <2>1, <3>2
        <5>2. Tail(t)[i] = t[i + 1]
          BY <2>2, Zenon
        <5>3. t[i + 1] = s[i + 1]
          BY <1>3, <5>1, Zenon
        <5> QED BY <2>1, <5>1, <5>2, <5>3, Zenon
      <4>2. Slot(w, i + 1) = Slot(next, i) /\ Slot(w, i + 1) # w /\ Slot(w, i + 1) \in 0..(Window - 1)
        BY <1>1, <3>2 DEF Slot
      <4> QED BY <1>4, <4>1, <4>2, Zenon
    <3>3. i = Window \/ i < Window
      OBVIOUS
    <3> QED BY <3>1, <3>2, <3>3, Zenon
  <2> QED BY <1>2, <1>6, <2>1, <2>2, <2>3, Zenon DEF RingIsRecent, q, t
<1> QED BY <1>5, <1>6, Zenon

\* What unhealthyLocked reads from the ring is what the window of recent dials says, also across
\* the seam.
LEMMA RingTellsRecent ==
  ASSUME NEW r \in [0..(Window - 1) -> Speeds], NEW w \in 0..(Window - 1), NEW full \in BOOLEAN,
         NEW s \in Seq(Speeds), RingIsRecent(r, w, full, s)
  PROVE  /\ full <=> Len(s) = Window
         /\ full => /\ (\A i \in DOMAIN r : r[i] # "fast") <=> "fast" \notin {s[i] : i \in DOMAIN s}
                    /\ RecentLocked(r, w, ConsecutiveSlowMin) = SlowTail(s)
<1> USE DialsAssumption
<1>1. full <=> Len(s) = Window
  BY DEF RingIsRecent
<1>2. ASSUME full
      PROVE  /\ (\A i \in DOMAIN r : r[i] # "fast") <=> "fast" \notin {s[i] : i \in DOMAIN s}
             /\ RecentLocked(r, w, ConsecutiveSlowMin) = SlowTail(s)
  <2>1. Len(s) = Window /\ DOMAIN s = 1..Window /\ \A i \in 1..Window : s[i] = r[Slot(w, i)]
    BY <1>2 DEF RingIsRecent
  <2>2. \A i \in 1..Window : Slot(w, i) \in 0..(Window - 1)
    BY DEF Slot
  <2>3. \A j \in 0..(Window - 1) : \E i \in 1..Window : j = Slot(w, i)
    <3> SUFFICES ASSUME NEW j \in 0..(Window - 1) PROVE \E i \in 1..Window : j = Slot(w, i)
      BY Zenon
    <3>1. CASE j >= w
      <4>1. j - w + 1 \in 1..Window /\ j = Slot(w, j - w + 1)
        BY <3>1 DEF Slot
      <4> QED BY <4>1, Zenon
    <3>2. CASE j < w
      <4>1. j - w + 1 + Window \in 1..Window /\ j = Slot(w, j - w + 1 + Window)
        BY <3>2 DEF Slot
      <4> QED BY <4>1, Zenon
    <3> QED BY <3>1, <3>2
  <2>4. DOMAIN r = 0..(Window - 1)
    BY Zenon
  <2>5. (\A i \in DOMAIN r : r[i] # "fast") <=> "fast" \notin {s[i] : i \in DOMAIN s}
    <3>1. ASSUME \A i \in DOMAIN r : r[i] # "fast" PROVE "fast" \notin {s[i] : i \in DOMAIN s}
      BY <2>1, <2>2, <2>4, <3>1
    <3>2. ASSUME "fast" \notin {s[i] : i \in DOMAIN s}, NEW j \in DOMAIN r PROVE r[j] # "fast"
      <4>1. PICK i \in 1..Window : j = Slot(w, i)
        BY <2>3, <2>4, Zenon
      <4>2. s[i] = r[j]
        BY <2>1, <4>1, Zenon
      <4> QED BY <2>1, <3>2, <4>2, Zenon
    <3> QED BY <3>1, <3>2, Zenon
  <2>6. ASSUME NEW i \in 0..(ConsecutiveSlowMin - 1)
        PROVE  r[(w - 1 - i + Window) % Window] = s[Window - i]
    <3>1. Window - i \in 1..Window /\ w - 1 - i + Window \in Nat /\ w - 1 - i + Window < Window + Window
      OBVIOUS
    <3>2. (w - 1 - i + Window) % Window =
            IF w - 1 - i + Window < Window THEN w - 1 - i + Window ELSE w - 1 - i + Window - Window
      <4>1. PICK x \in Nat : x = w - 1 - i + Window
        BY <3>1, Zenon
      <4>2. x % Window = IF x < Window THEN x ELSE x - Window
        BY <3>1, <4>1, WrapsOnce, Zenon
      <4> QED BY <4>1, <4>2
    <3>3. (w - 1 - i + Window) % Window = Slot(w, Window - i)
      BY <3>1, <3>2 DEF Slot
    <3> QED BY <2>1, <3>1, <3>3, Zenon
  <2>7. ASSUME NEW k \in (Window - ConsecutiveSlowMin + 1)..Window
        PROVE  Window - k \in 0..(ConsecutiveSlowMin - 1) /\ k = Window - (Window - k)
    OBVIOUS
  <2>8. ASSUME NEW i \in 0..(ConsecutiveSlowMin - 1)
        PROVE  Window - i \in (Window - ConsecutiveSlowMin + 1)..Window
    OBVIOUS
  <2>9. RecentLocked(r, w, ConsecutiveSlowMin) = {s[Window - i] : i \in 0..(ConsecutiveSlowMin - 1)}
    BY <2>6, Zenon DEF RecentLocked
  <2>10. {s[Window - i] : i \in 0..(ConsecutiveSlowMin - 1)}
           = {s[k] : k \in (Window - ConsecutiveSlowMin + 1)..Window}
    BY <2>7, <2>8, Zenon
  <2> QED BY <2>1, <2>5, <2>9, <2>10, Zenon DEF SlowTail
<1> QED BY <1>1, <1>2, Zenon

\* The invariant holds before Start.
LEMMA DialsInit_Inv == DialsInit => DialsInv
<1> SUFFICES ASSUME DialsInit PROVE DialsInv
  BY Zenon
<1>1. recent \in Seq(Speeds) /\ Len(recent) = 0
  BY DEF DialsInit
<1>2. RingIsRecent(ring, writeIdx, filled, recent)
  BY <1>1 DEF DialsInit, RingIsRecent
<1>3. ring \in [0..(Window - 1) -> Speeds] /\ writeIdx \in 0..(Window - 1) /\ filled \in BOOLEAN
  BY DialsAssumption DEF DialsInit, Speeds
<1> QED BY <1>1, <1>2, <1>3, Zenon DEF DialsInit, DialsInv

\* Every step keeps the invariant.
LEMMA DialsStep == DialsInv /\ [DialsNext]_dialsVars => DialsInv'
<1> SUFFICES ASSUME DialsInv, [DialsNext]_dialsVars PROVE DialsInv'
  BY Zenon
<1>1. CASE UNCHANGED watchVars
  <2>1. /\ engine' = "running" <=> phase' \in {"starting", "started"}
        /\ phase' = "started" => quic' = "open"
    BY <1>1, Zenon DEF DialsInv, DialsNext, EngineStarts, QUICStarts, CloseStopsEngine, CloseClosesQUIC,
       HelperChanges, DialStarts, DialFails, DialSucceeds, dialsVars, buildVars
  <2> QED BY <1>1, <2>1, Zenon DEF DialsInv, watchVars
<1>2. ASSUME NEW speed \in Speeds, DialSucceeds(speed) PROVE DialsInv'
  <2>1. UNCHANGED <<engine, quic, phase>>
    BY <1>2, Zenon DEF DialSucceeds, buildVars
  <2>2. /\ ring' = [ring EXCEPT ![writeIdx] = speed] /\ writeIdx' = (writeIdx + 1) % Window
        /\ filled' = (filled \/ (writeIdx + 1) % Window = 0)
        /\ recent' = LastWindow(Append(recent, speed))
    BY <1>2, Zenon DEF DialSucceeds
  <2>3. /\ writeIdx' \in 0..(Window - 1) /\ recent' \in Seq(Speeds)
        /\ RingIsRecent(ring', writeIdx', filled', recent')
    BY <2>2, RecordKeepsRing, Zenon DEF DialsInv
  <2> QED BY <2>1, <2>2, <2>3, Zenon DEF DialsInv
<1> QED
  BY <1>1, <1>2, Zenon DEF DialsNext, EngineStarts, QUICStarts, CloseStopsEngine, CloseClosesQUIC,
     HelperChanges, DialStarts, DialFails, dialsVars

TripsRightly ==
    recent' # recent \/ ring' # ring =>
        (event' = "tripped" <=> /\ ~tripped /\ tripsTotal < MaxTrips
                                /\ Len(recent') = Window
                                /\ "fast" \notin {recent'[i] : i \in DOMAIN recent'}
                                /\ SlowTail(recent') = {"slow"})

\* A step trips the watchdog exactly when the recent dials say so.
LEMMA RecordTripsRightly ==
  ASSUME DialsInv, DialsInv', [DialsNext]_dialsVars
  PROVE  TripsRightly
<1>1. CASE UNCHANGED watchVars
  BY <1>1, Zenon DEF watchVars, TripsRightly
<1>2. ASSUME NEW speed \in Speeds, DialSucceeds(speed) PROVE TripsRightly
  <2>1. event' = "tripped" <=> ~tripped /\ Unhealthy(ring', writeIdx', filled')
    BY <1>2, Zenon DEF DialSucceeds
  <2>2. /\ filled' <=> Len(recent') = Window
        /\ filled' => /\ (\A i \in DOMAIN ring' : ring'[i] # "fast") <=>
                             "fast" \notin {recent'[i] : i \in DOMAIN recent'}
                      /\ RecentLocked(ring', writeIdx', ConsecutiveSlowMin) = SlowTail(recent')
    BY RingTellsRecent, Zenon DEF DialsInv
  <2> QED BY <2>1, <2>2, Zenon DEF Unhealthy, TripsRightly
<1> QED
  BY <1>1, <1>2, Zenon DEF DialsNext, EngineStarts, QUICStarts, CloseStopsEngine, CloseClosesQUIC,
     HelperChanges, DialStarts, DialFails, dialsVars

\* OutboundIsSound for every window, threshold and number of dials: the engine never runs without
\* what drains it, and the watchdog trips when the newest dials say so and only then.
THEOREM OutboundAlwaysSound == DialsSpec => OutboundIsSound
<1>1. DialsInv => EngineIsDrained
  BY Zenon DEF DialsInv, EngineIsDrained
<1>2. DialsInv /\ DialsInv' /\ [DialsNext]_dialsVars => [TripsRightly]_dialsVars
  BY RecordTripsRightly, Zenon
<1>3. [][TripsRightly]_dialsVars => TripsWhenUnhealthy
  BY PTL DEF TripsRightly, TripsWhenUnhealthy
<1> QED
  BY <1>1, <1>2, <1>3, DialsInit_Inv, DialsStep, PTL DEF DialsSpec, OutboundIsSound

(***************************************************************************)
(* The shared tunnel of the Twiddle outbound, for any number of dials,     *)
(* sessions and tickets.                                                   *)
(***************************************************************************)
\* The pool holds the one ticket that has not gone out, or none.
PoolInv ==
    /\ tickets \in Nat /\ shown \in Seq(Nat) /\ creds \in Seq(Nat)
    /\ Len(creds) <= 1
    /\ \A i \in DOMAIN shown : shown[i] <= tickets
    /\ Len(creds) = 1 => creds[1] <= tickets /\ \A i \in DOMAIN shown : shown[i] # creds[1]
    /\ \A i, j \in DOMAIN shown : shown[i] = shown[j] => i = j

Where == {"idle", "ensure", "open", "retire", "write", "carries", "failed"}
Calls == [pc : Where, on : Nat \cup {NoSession}, attempt : Nat, err : {"none", "away", "closed"}]

\* A call that opens or has opened a stream knows its session, and one that found it closed does
\* not find it open again.
OnASession(d) ==
    /\ tunnel[d].pc \in {"open", "retire"} => tunnel[d].on \in DOMAIN muxes
    /\ tunnel[d].pc = "retire" /\ tunnel[d].err = "closed" => muxes[tunnel[d].on] = "closed"

TunnelInv ==
    /\ muxes \in Seq({"live", "away", "closed"})
    /\ sess \in DOMAIN muxes \cup {NoSession}
    /\ draining \subseteq DOMAIN muxes
    /\ shut \in BOOLEAN
    /\ tunnel \in [TunnelDials -> Calls]
    /\ \A d \in TunnelDials : OnASession(d)
    /\ TunnelsAreOwned

\* The outbound begins with the configured ticket and without a session.
LEMMA TunnelInitSound == TunnelInit => TunnelInv /\ PoolInv
<1> SUFFICES ASSUME TunnelInit PROVE TunnelInv /\ PoolInv
  BY Zenon
<1>1. PoolInv
  BY DEF TunnelInit, PoolInv
<1>2. /\ muxes \in Seq({"live", "away", "closed"}) /\ DOMAIN muxes = {}
      /\ sess = NoSession /\ draining = {} /\ shut = FALSE
  BY DEF TunnelInit
<1>3. CallAt("idle", NoSession, 0, "none") \in Calls
  BY Zenon DEF CallAt, Calls, Where
<1>4. tunnel \in [TunnelDials -> Calls] /\ \A d \in TunnelDials : tunnel[d].pc = "idle"
  BY <1>3, Zenon DEF TunnelInit, CallAt
<1> QED
  BY <1>1, <1>2, <1>4, Zenon DEF TunnelInv, OnASession, TunnelsAreOwned

\* What is last in a pool of at most one ticket.
LEMMA OneTicket ==
  ASSUME NEW pool \in Seq(Nat), pool # <<>>, Len(pool) <= 1
  PROVE  Len(pool) = 1 /\ TopTicket(pool) = pool[1] /\ pool[1] \in Nat /\ PoppedPool(pool) = <<>>
<1>0. Len(pool) \in Nat \ {0}
  OBVIOUS
<1>1. Len(pool) = 1 /\ 1 \in 1..Len(pool)
  BY <1>0
<1>2. pool[1] \in Nat
  BY <1>1
<1>3. SubSeq(pool, 1, 0) = <<>>
  <2>1. SubSeq(pool, 1, 0) \in Seq(Nat) /\ Len(SubSeq(pool, 1, 0)) = 0
    OBVIOUS
  <2> QED
    BY <2>1
<1> QED
  BY <1>1, <1>2, <1>3 DEF TopTicket, PoppedPool

\* A pool of one ticket.
LEMMA SingleTicket ==
  ASSUME NEW n \in Nat
  PROVE  <<n>> \in Seq(Nat) /\ Len(<<n>>) = 1 /\ <<n>>[1] = n
  OBVIOUS

\* The pool changes only when a tunnel is built: its ticket goes out, and a fresh one may come.
LEMMA PoolStep == PoolInv /\ [TunnelNext]_tunnelVars => PoolInv'
<1> SUFFICES ASSUME PoolInv, [TunnelNext]_tunnelVars PROVE PoolInv'
  BY Zenon
<1>1. ASSUME creds # <<>>, shown' = Append(shown, TopTicket(creds)),
             \/ creds' = PoppedPool(creds) /\ tickets' = tickets
             \/ tickets' = tickets + 1 /\ creds' = Append(PoppedPool(creds), tickets')
      PROVE  PoolInv'
  <2>1. Len(creds) = 1 /\ TopTicket(creds) = creds[1] /\ creds[1] \in Nat /\ PoppedPool(creds) = <<>>
    BY <1>1, OneTicket, Zenon DEF PoolInv
  <2>2. /\ Len(shown') = Len(shown) + 1 /\ shown' \in Seq(Nat)
        /\ shown'[Len(shown) + 1] = creds[1]
        /\ \A i \in DOMAIN shown : shown'[i] = shown[i]
        /\ DOMAIN shown' = DOMAIN shown \cup {Len(shown) + 1}
    BY <1>1, <2>1, SMTT(30) DEF PoolInv
  <2>3. /\ tickets' \in Nat /\ tickets <= tickets' /\ creds' \in Seq(Nat) /\ Len(creds') <= 1
        /\ Len(creds') = 1 => creds'[1] = tickets + 1 /\ tickets' = tickets + 1
    <3>1. CASE creds' = PoppedPool(creds) /\ tickets' = tickets
      BY <2>1, <3>1 DEF PoolInv
    <3>2. CASE tickets' = tickets + 1 /\ creds' = Append(PoppedPool(creds), tickets')
      <4>1. creds' = Append(<<>>, tickets + 1)
        BY <2>1, <3>2, Zenon
      <4>2. Append(<<>>, tickets + 1) = <<tickets + 1>> /\ tickets + 1 \in Nat
        BY DEF PoolInv
      <4>3. creds' = <<tickets + 1>> /\ <<tickets + 1>> \in Seq(Nat)
        BY <4>1, <4>2, SingleTicket, Zenon
      <4>4. Len(creds') = 1 /\ creds'[1] = tickets + 1
        BY <4>3, Zenon
      <4>5. Len(creds') <= 1 /\ creds' \in Seq(Nat)
        BY <4>3, <4>4
      <4>6. tickets' \in Nat /\ tickets <= tickets'
        BY <3>2 DEF PoolInv
      <4> QED
        BY <3>2, <4>4, <4>5, <4>6, Zenon
    <3> QED
      BY <1>1, <3>1, <3>2, Zenon
  <2>4. \A i \in DOMAIN shown' : shown'[i] \in Nat /\ shown'[i] <= tickets
    BY <2>1, <2>2 DEF PoolInv
  <2>5. \A i, j \in DOMAIN shown' : shown'[i] = shown'[j] => i = j
    BY <2>1, <2>2, SMTT(30) DEF PoolInv
  <2>6. \A i \in DOMAIN shown' : shown'[i] <= tickets'
    <3>1. \A n \in Nat : n <= tickets => n <= tickets'
      BY <2>3 DEF PoolInv
    <3> QED
      BY <2>4, <3>1, Zenon
  <2>7. ASSUME Len(creds') = 1
        PROVE  creds'[1] <= tickets' /\ \A i \in DOMAIN shown' : shown'[i] # creds'[1]
    <3>1. creds'[1] = tickets + 1 /\ tickets' = tickets + 1
      BY <2>3, <2>7, Zenon
    <3>2. tickets + 1 <= tickets + 1 /\ \A n \in Nat : n <= tickets => n # tickets + 1
      BY DEF PoolInv
    <3> QED
      BY <2>4, <3>1, <3>2, Zenon
  <2> QED
    BY <2>2, <2>3, <2>5, <2>6, <2>7, Zenon DEF PoolInv
<1>2. CASE UNCHANGED <<creds, shown, tickets>>
  BY <1>2, Zenon DEF PoolInv
<1>3. ASSUME NEW d \in TunnelDials, EnsureSession(d) PROVE PoolInv'
  BY <1>1, <1>2, <1>3, Zenon DEF EnsureSession, Builds
<1> QED
  BY <1>2, <1>3, Zenon
  DEF TunnelNext, tunnelVars, TunnelDialStarts, OpenStream, RetireSession, WriteDestination,
      StreamCloses, SessionFades, DrainEnds, CloseTunnel

\* A call moves to a place its session allows, while no session comes back from "closed": the
\* others are where they may be.
LEMMA CallMoves ==
  ASSUME TunnelInv, NEW d \in TunnelDials, NEW c \in Calls, Becomes(d, c),
         DOMAIN muxes \subseteq DOMAIN muxes',
         \A s \in DOMAIN muxes : muxes[s] = "closed" => muxes'[s] = "closed",
         c.pc \in {"open", "retire"} => c.on \in DOMAIN muxes',
         c.pc = "retire" /\ c.err = "closed" => muxes'[c.on] = "closed"
  PROVE  tunnel' \in [TunnelDials -> Calls] /\ \A e \in TunnelDials : OnASession(e)'
<1>1. tunnel' \in [TunnelDials -> Calls] /\ tunnel'[d] = c
  BY Zenon DEF TunnelInv, Becomes
<1>2. \A e \in TunnelDials : e # d => tunnel'[e] = tunnel[e]
  BY Zenon DEF TunnelInv, Becomes
<1>3. ASSUME NEW e \in TunnelDials PROVE OnASession(e)'
  <2>1. CASE e = d
    BY <1>1, <2>1, Zenon DEF OnASession
  <2>2. CASE e # d
    BY <1>2, <2>2, Zenon DEF TunnelInv, OnASession
  <2> QED
    BY <2>1, <2>2, Zenon
<1> QED
  BY <1>1, <1>3, Zenon

\* Sessions that are closed stay what they are, in place, and the others are left alone.
LEMMA ClosedSessions ==
  ASSUME TunnelInv, NEW S
  PROVE  /\ ClosedIn(S) \in Seq({"live", "away", "closed"}) /\ DOMAIN ClosedIn(S) = DOMAIN muxes
         /\ \A s \in DOMAIN muxes : ClosedIn(S)[s] = IF s \in S THEN "closed" ELSE muxes[s]
<1>1. DOMAIN muxes = 1..Len(muxes) /\ Len(muxes) \in Nat
  BY DEF TunnelInv
<1>2. \A s \in DOMAIN muxes : muxes[s] \in {"live", "away", "closed"}
  BY DEF TunnelInv
<1> QED
  BY <1>1, <1>2 DEF ClosedIn

\* The call record a dial ends or starts over with.
LEMMA FreshCall ==
  ASSUME NEW place \in Where, NEW n \in Nat
  PROVE  CallAt(place, NoSession, n, "none") \in Calls /\ CallAt(place, NoSession, n, "none").pc = place
  BY Zenon DEF CallAt, Calls

\* The calls after their sessions changed: no session comes back from "closed".
LEMMA CallsStay ==
  ASSUME TunnelInv, UNCHANGED tunnel, DOMAIN muxes \subseteq DOMAIN muxes',
         \A s \in DOMAIN muxes : muxes[s] = "closed" => muxes'[s] = "closed"
  PROVE  \A d \in TunnelDials : OnASession(d)'
  BY Zenon DEF TunnelInv, OnASession

\* The call records a dial goes through: the same with another place,
LEMMA CallAtPlace ==
  ASSUME TunnelInv, NEW d \in TunnelDials, NEW place \in Where
  PROVE  [tunnel[d] EXCEPT !.pc = place] \in Calls /\ [tunnel[d] EXCEPT !.pc = place].pc = place
  BY Zenon DEF TunnelInv, Calls

\* and session,
LEMMA CallOnSession ==
  ASSUME TunnelInv, NEW d \in TunnelDials, NEW s \in Nat
  PROVE  /\ [tunnel[d] EXCEPT !.pc = "open", !.on = s] \in Calls
         /\ [tunnel[d] EXCEPT !.pc = "open", !.on = s].pc = "open"
         /\ [tunnel[d] EXCEPT !.pc = "open", !.on = s].on = s
  BY Zenon DEF TunnelInv, Calls, Where

\* or error.
LEMMA CallWithError ==
  ASSUME TunnelInv, NEW d \in TunnelDials, NEW err \in {"away", "closed"}
  PROVE  /\ [tunnel[d] EXCEPT !.pc = "retire", !.err = err] \in Calls
         /\ [tunnel[d] EXCEPT !.pc = "retire", !.err = err].pc = "retire"
         /\ [tunnel[d] EXCEPT !.pc = "retire", !.err = err].on = tunnel[d].on
         /\ [tunnel[d] EXCEPT !.pc = "retire", !.err = err].err = err
  BY ZenonT(60) DEF TunnelInv, Calls, Where

\* Every step keeps each open session within the outbound's reach.
LEMMA TunnelStep == TunnelInv /\ [TunnelNext]_tunnelVars => TunnelInv'
<1> SUFFICES ASSUME TunnelInv, [TunnelNext]_tunnelVars PROVE TunnelInv'
  OBVIOUS
<1> DEFINE Quiet == UNCHANGED <<muxes, sess, draining, shut>>
<1>1. ASSUME NEW d \in TunnelDials, NEW c \in Calls, Becomes(d, c), Quiet,
             c.pc \in {"open", "retire"} => c.on \in DOMAIN muxes,
             c.pc = "retire" /\ c.err = "closed" => muxes[c.on] = "closed"
      PROVE  TunnelInv'
  <2>1. tunnel' \in [TunnelDials -> Calls] /\ \A e \in TunnelDials : OnASession(e)'
    BY <1>1, CallMoves, Zenon
  <2> QED
    BY <1>1, <2>1, Zenon DEF TunnelInv, TunnelsAreOwned
<1>2. ASSUME NEW d \in TunnelDials, Gone(d), Quiet PROVE TunnelInv'
  <2> DEFINE c == CallAt("failed", NoSession, 0, "none")
  <2>1. c \in Calls /\ c.pc = "failed"
    BY FreshCall, Zenon DEF Where
  <2>2. Becomes(d, c)
    BY <1>2, Zenon DEF Gone
  <2> HIDE DEF c
  <2> QED
    BY <1>1, <1>2, <2>1, <2>2, Zenon
<1>3. ASSUME NEW d \in TunnelDials, TunnelDialStarts(d) PROVE TunnelInv'
  <2> DEFINE c == CallAt("ensure", NoSession, 0, "none")
  <2>1. c \in Calls /\ c.pc = "ensure"
    BY FreshCall, Zenon DEF Where
  <2>2. Becomes(d, c) /\ Quiet
    BY <1>3, Zenon DEF TunnelDialStarts
  <2> HIDE DEF c
  <2> QED
    BY <1>1, <2>1, <2>2, Zenon
<1>4. ASSUME NEW d \in TunnelDials, OpenStream(d) PROVE TunnelInv'
  <2> DEFINE w == [tunnel[d] EXCEPT !.pc = "write"]
             r == [tunnel[d] EXCEPT !.pc = "retire", !.err = muxes[tunnel[d].on]]
  <2>1. tunnel[d].on \in DOMAIN muxes /\ Quiet
    BY <1>4, Zenon DEF OpenStream, TunnelInv, OnASession
  <2>2. CASE muxes[tunnel[d].on] = "live"
    <3>1. w \in Calls /\ w.pc = "write"
      BY CallAtPlace, ZenonT(60) DEF Where
    <3>2. Becomes(d, w)
      BY <1>4, <2>2, Zenon DEF OpenStream
    <3> HIDE DEF w
    <3> QED
      BY <1>1, <2>1, <3>1, <3>2, Zenon
  <2>3. CASE muxes[tunnel[d].on] # "live"
    <3>1. muxes[tunnel[d].on] \in {"away", "closed"}
      BY <2>1, <2>3 DEF TunnelInv
    <3>2. r \in Calls /\ r.pc = "retire" /\ r.on = tunnel[d].on /\ r.err = muxes[tunnel[d].on]
      BY <3>1, CallWithError, Zenon
    <3>3. Becomes(d, r)
      BY <1>4, <2>3, Zenon DEF OpenStream
    <3> HIDE DEF r
    <3> QED
      BY <1>1, <2>1, <3>2, <3>3, Zenon
  <2> QED
    BY <2>2, <2>3, Zenon
<1>5. ASSUME NEW d \in TunnelDials, EnsureSession(d) PROVE TunnelInv'
  <2>1. CASE ~shut /\ HasTunnel /\ UNCHANGED <<muxes, sess>>
               /\ Becomes(d, [tunnel[d] EXCEPT !.pc = "open", !.on = sess])
    <3> DEFINE c == [tunnel[d] EXCEPT !.pc = "open", !.on = sess]
    <3>1. sess \in DOMAIN muxes /\ sess \in Nat
      BY <2>1 DEF HasTunnel, TunnelInv
    <3>2. c \in Calls /\ c.pc = "open" /\ c.on = sess
      BY <3>1, CallOnSession, ZenonT(60)
    <3>3. Becomes(d, c) /\ Quiet
      BY <1>5, <2>1, Zenon DEF EnsureSession
    <3> HIDE DEF c
    <3> QED
      BY <1>1, <3>1, <3>2, <3>3, Zenon
  <2>2. CASE ~shut /\ ~HasTunnel /\ muxes' = Append(muxes, "live") /\ sess' = Len(muxes')
               /\ Becomes(d, [tunnel[d] EXCEPT !.pc = "open", !.on = Len(muxes')])
    <3> DEFINE n == Len(muxes')
               c == [tunnel[d] EXCEPT !.pc = "open", !.on = n]
    <3>1. /\ muxes' \in Seq({"live", "away", "closed"}) /\ n \in Nat
          /\ DOMAIN muxes' = DOMAIN muxes \cup {n} /\ n = Len(muxes) + 1
          /\ \A s \in DOMAIN muxes : muxes'[s] = muxes[s]
      BY <2>2 DEF TunnelInv
    <3>2. c \in Calls /\ c.pc = "open" /\ c.on = n
      BY <3>1, CallOnSession, ZenonT(60)
    <3>3. Becomes(d, c) /\ sess' = n
      BY <2>2, Zenon
    <3> HIDE DEF c, n
    <3>4. tunnel' \in [TunnelDials -> Calls] /\ \A e \in TunnelDials : OnASession(e)'
      BY <3>1, <3>2, <3>3, CallMoves, Zenon
    <3>5. draining' = draining /\ shut' = shut /\ ~shut
      BY <1>5, <2>2, Zenon DEF EnsureSession
    <3>6. ASSUME NEW s \in DOMAIN muxes', muxes'[s] # "closed" PROVE s \in {sess'} \cup draining'
      <4>1. CASE s \in DOMAIN muxes
        <5>1. muxes[s] # "closed" /\ s \in {sess} \cup draining
          BY <3>1, <3>6, <4>1, Zenon DEF TunnelInv, TunnelsAreOwned
        <5>2. s # sess \/ s = NoSession
          BY <2>2, <5>1, Zenon DEF HasTunnel
        <5>3. s # NoSession
          BY <3>1, <4>1, TunnelAssumption DEF TunnelInv
        <5> QED
          BY <3>5, <5>1, <5>2, <5>3, Zenon
      <4>2. CASE s = n
        BY <3>3, <4>2, Zenon
      <4> QED
        BY <3>1, <4>1, <4>2, Zenon
    <3>7. TunnelsAreOwned'
      BY <3>5, <3>6, Zenon DEF TunnelsAreOwned
    <3> QED
      BY <3>1, <3>3, <3>4, <3>5, <3>7, Zenon DEF TunnelInv
  <2>3. CASE Gone(d) /\ UNCHANGED <<muxes, sess>>
    BY <1>2, <1>5, <2>3, Zenon DEF EnsureSession
  <2> QED
    BY <1>5, <2>1, <2>2, <2>3, Zenon DEF EnsureSession, Builds
<1>6. ASSUME NEW d \in TunnelDials, RetireSession(d) PROVE TunnelInv'
  <2> DEFINE c == CallAt("failed", NoSession, 0, "none")
             a == CallAt("ensure", NoSession, 1, "none")
             o == tunnel[d].on
  <2>1. c \in Calls /\ c.pc = "failed" /\ a \in Calls /\ a.pc = "ensure"
    BY FreshCall, Zenon DEF Where
  <2>2. Becomes(d, c) \/ Becomes(d, a)
    BY <1>6, Zenon DEF RetireSession, Gone
  <2> HIDE DEF c, a
  <2>3. ASSUME muxes' = muxes \/ muxes' = ClosedIn({o})
        PROVE  /\ muxes' \in Seq({"live", "away", "closed"}) /\ DOMAIN muxes' = DOMAIN muxes
               /\ \A s \in DOMAIN muxes : muxes'[s] = muxes[s] \/ (s = o /\ muxes'[s] = "closed")
               /\ tunnel' \in [TunnelDials -> Calls] /\ \A e \in TunnelDials : OnASession(e)'
    <3>1. /\ muxes' \in Seq({"live", "away", "closed"}) /\ DOMAIN muxes' = DOMAIN muxes
          /\ \A s \in DOMAIN muxes : muxes'[s] = muxes[s] \/ (s = o /\ muxes'[s] = "closed")
      <4>1. CASE muxes' = muxes
        BY <4>1, Zenon DEF TunnelInv
      <4>2. CASE muxes' = ClosedIn({o})
        BY <4>2, ClosedSessions
      <4> QED
        BY <2>3, <4>1, <4>2, Zenon
    <3>2. tunnel' \in [TunnelDials -> Calls] /\ \A e \in TunnelDials : OnASession(e)'
      BY <2>1, <2>2, <3>1, CallMoves, Zenon
    <3> QED
      BY <3>1, <3>2, Zenon
  <2>4. o \in DOMAIN muxes /\ shut' = shut
    BY <1>6, Zenon DEF RetireSession, TunnelInv, OnASession
  <2>5. CASE UNCHANGED <<muxes, sess, draining>>
    BY <2>3, <2>4, <2>5, Zenon DEF TunnelInv, TunnelsAreOwned
  <2>6. CASE sess = o /\ sess' = NoSession /\ muxes' = ClosedIn({o}) /\ draining' = draining
    <3>1. muxes'[o] = "closed"
      BY <2>4, <2>6, ClosedSessions, Zenon
    <3>2. TunnelsAreOwned'
      BY <2>3, <2>4, <2>6, <3>1, ZenonT(60) DEF TunnelInv, TunnelsAreOwned
    <3> QED
      BY <2>3, <2>4, <2>6, <3>2, ZenonT(60) DEF TunnelInv
  <2>7. CASE sess = o /\ sess' = NoSession /\ muxes' = muxes /\ draining' = draining \cup {o}
    <3>1. TunnelsAreOwned'
      BY <2>4, <2>7, Zenon DEF TunnelInv, TunnelsAreOwned
    <3> QED
      BY <2>3, <2>4, <2>7, <3>1, Zenon DEF TunnelInv
  <2> QED
    BY <1>6, <2>5, <2>6, <2>7, Zenon DEF RetireSession, PutAway
<1>7. ASSUME NEW d \in TunnelDials, WriteDestination(d) PROVE TunnelInv'
  <2> DEFINE c == [tunnel[d] EXCEPT !.pc = "carries"]
  <2>1. c \in Calls /\ c.pc = "carries"
    BY CallAtPlace, Zenon DEF Where
  <2>2. Quiet /\ (Gone(d) \/ Becomes(d, c))
    BY <1>7, Zenon DEF WriteDestination
  <2> HIDE DEF c
  <2> QED
    BY <1>1, <1>2, <2>1, <2>2, Zenon
<1>8. ASSUME NEW d \in TunnelDials, StreamCloses(d) PROVE TunnelInv'
  BY <1>2, <1>8, Zenon DEF StreamCloses
<1>9. ASSUME NEW s \in DOMAIN muxes, SessionFades(s) PROVE TunnelInv'
  <2>1. CASE muxes[s] = "live" /\ muxes' = [muxes EXCEPT ![s] = "away"]
    <3>1. /\ muxes' \in Seq({"live", "away", "closed"}) /\ DOMAIN muxes' = DOMAIN muxes
          /\ \A t \in DOMAIN muxes : muxes'[t] = IF t = s THEN "away" ELSE muxes[t]
      BY <2>1 DEF TunnelInv
    <3>2. UNCHANGED <<sess, draining, shut, tunnel>>
      BY <1>9, Zenon DEF SessionFades
    <3>3. \A d \in TunnelDials : OnASession(d)'
      BY <2>1, <3>1, <3>2, CallsStay, Zenon
    <3>4. TunnelsAreOwned'
      BY <2>1, <3>1, <3>2, Zenon DEF TunnelInv, TunnelsAreOwned
    <3> QED
      BY <3>1, <3>2, <3>3, <3>4, Zenon DEF TunnelInv
  <2>2. CASE muxes' = ClosedIn({s})
    <3>1. /\ muxes' \in Seq({"live", "away", "closed"}) /\ DOMAIN muxes' = DOMAIN muxes
          /\ \A t \in DOMAIN muxes : muxes'[t] = IF t = s THEN "closed" ELSE muxes[t]
      BY <2>2, ClosedSessions, Zenon
    <3>2. UNCHANGED <<sess, draining, shut, tunnel>>
      BY <1>9 DEF SessionFades
    <3>3. \A d \in TunnelDials : OnASession(d)'
      BY <3>1, <3>2, CallsStay, Zenon
    <3>4. TunnelsAreOwned'
      BY <3>1, <3>2, Zenon DEF TunnelInv, TunnelsAreOwned
    <3> QED
      BY <3>1, <3>2, <3>3, <3>4, Zenon DEF TunnelInv
  <2> QED
    BY <1>9, <2>1, <2>2, Zenon DEF SessionFades
<1>10. ASSUME NEW s \in DOMAIN muxes, DrainEnds(s) PROVE TunnelInv'
  BY <1>10, Zenon DEF DrainEnds, TunnelInv, TunnelsAreOwned, OnASession
<1>11. ASSUME CloseTunnel PROVE TunnelInv'
  <2>1. /\ muxes' \in Seq({"live", "away", "closed"}) /\ DOMAIN muxes' = DOMAIN muxes
        /\ \A t \in DOMAIN muxes : muxes'[t] = "closed"
    BY <1>11, ClosedSessions DEF CloseTunnel, TunnelInv, TunnelsAreOwned
  <2>2. \A d \in TunnelDials : OnASession(d)'
    BY <1>11, <2>1, CallsStay, ZenonT(60) DEF CloseTunnel
  <2> QED
    BY <1>11, <2>1, <2>2, Zenon DEF CloseTunnel, TunnelInv, TunnelsAreOwned
<1>12. CASE UNCHANGED tunnelVars
  BY <1>12, Zenon DEF tunnelVars, TunnelInv, TunnelsAreOwned, OnASession
<1> QED
  BY <1>3, <1>4, <1>5, <1>6, <1>7, <1>8, <1>9, <1>10, <1>11, <1>12, Zenon DEF TunnelNext

\* A session ends by itself or with the outbound: retireSession closes only what is closed.
LEMMA SparingStep ==
  TunnelInv /\ [TunnelNext]_tunnelVars
    => \A s \in DOMAIN muxes :
          muxes[s] # "closed" /\ muxes'[s] = "closed" => shut' \/ SessionFades(s)
<1> SUFFICES ASSUME TunnelInv, [TunnelNext]_tunnelVars, NEW s \in DOMAIN muxes,
                    muxes[s] # "closed", muxes'[s] = "closed"
             PROVE  shut' \/ SessionFades(s)
  BY Zenon
<1>1. CASE muxes' = muxes
  BY <1>1, Zenon
<1>2. ASSUME NEW d \in TunnelDials, EnsureSession(d) PROVE FALSE
  <2>1. CASE muxes' = Append(muxes, "live")
    <3>1. muxes'[s] = muxes[s]
      BY <2>1 DEF TunnelInv
    <3> QED
      BY <3>1, Zenon
  <2> QED
    BY <1>2, <2>1, Zenon DEF EnsureSession, Builds
<1>3. ASSUME NEW d \in TunnelDials, RetireSession(d) PROVE FALSE
  <2>1. CASE muxes' = ClosedIn({tunnel[d].on}) /\ tunnel[d].err = "closed"
    <3>1. muxes[tunnel[d].on] = "closed"
      BY <1>3, <2>1, Zenon DEF RetireSession, TunnelInv, OnASession
    <3>2. muxes'[s] = IF s = tunnel[d].on THEN "closed" ELSE muxes[s]
      BY <2>1, ClosedSessions
    <3> QED
      BY <3>1, <3>2, Zenon
  <2> QED
    BY <1>3, <2>1, Zenon DEF RetireSession, PutAway
<1>4. ASSUME NEW r \in DOMAIN muxes, SessionFades(r) PROVE SessionFades(s)
  <2>1. CASE muxes' = [muxes EXCEPT ![r] = "away"]
    <3>1. muxes'[s] \in {"away", muxes[s]}
      BY <2>1, Zenon DEF TunnelInv
    <3> QED
      BY <3>1, Zenon
  <2>2. CASE muxes' = ClosedIn({r})
    <3>1. s = r
      BY <2>2, ClosedSessions, Zenon
    <3> QED
      BY <1>4, <3>1, Zenon
  <2> QED
    BY <1>4, <2>1, <2>2, Zenon DEF SessionFades
<1>5. ASSUME CloseTunnel PROVE shut'
  BY <1>5, Zenon DEF CloseTunnel
<1> QED
  BY <1>1, <1>2, <1>3, <1>4, <1>5, ZenonT(60)
  DEF TunnelNext, tunnelVars, TunnelDialStarts, OpenStream, WriteDestination, StreamCloses, DrainEnds

\* What the pool's invariant says of tickets.
LEMMA PoolIsHonest == PoolInv => TicketsAreUsedOnce
<1> SUFFICES ASSUME PoolInv PROVE TicketsAreUsedOnce
  BY Zenon
<1>1. IsInjective(shown)
  BY Zenon DEF PoolInv, IsInjective
<1>2. ASSUME NEW x \in Range(shown), x \in Range(creds) PROVE FALSE
  <2>1. PICK i \in DOMAIN shown : x = shown[i]
    BY Zenon DEF Range
  <2>2. PICK j \in DOMAIN creds : x = creds[j]
    BY <1>2, Zenon DEF Range
  <2>3. j \in 1..Len(creds) /\ Len(creds) \in Nat /\ Len(creds) <= 1
    BY <2>2 DEF PoolInv
  <2>4. \A n \in Nat : n <= 1 => \A k \in 1..n : k = 1 /\ n = 1
    OBVIOUS
  <2>5. j = 1 /\ Len(creds) = 1
    BY <2>3, <2>4, Zenon
  <2> QED
    BY <2>1, <2>2, <2>5, Zenon DEF PoolInv
<1> QED
  BY <1>1, <1>2, Zenon DEF TicketsAreUsedOnce

\* TunnelIsSound for every number of dials and tickets: no session of the Twiddle outbound is out
\* of reach of Close, no ticket goes out twice, and no session that works is cut by a late dial.
THEOREM TunnelAlwaysSound == TunnelSpec => TunnelIsSound
<1>1. TunnelInit => TunnelInv /\ PoolInv
  BY TunnelInitSound, Zenon
<1>2. TunnelInv /\ PoolInv /\ [TunnelNext]_tunnelVars => (TunnelInv /\ PoolInv)'
  BY TunnelStep, PoolStep, Zenon
<1>3. TunnelInv /\ PoolInv => TunnelsAreOwned /\ TicketsAreUsedOnce
  BY PoolIsHonest, Zenon DEF TunnelInv
<1>4. TunnelInv /\ [TunnelNext]_tunnelVars
        => [\A s \in DOMAIN muxes : muxes[s] # "closed" /\ muxes'[s] = "closed"
                                      => shut' \/ SessionFades(s)]_tunnelVars
  BY SparingStep, Zenon
<1> QED
  BY <1>1, <1>2, <1>3, <1>4, PTL DEF TunnelSpec, TunnelIsSound, StreamsAreSpared

(***************************************************************************)
(* The bridge's dial loop, for any number of attempts and addresses.       *)
(***************************************************************************)
DialStages == {"none", "dialing", "connected", "failed", "served", "closed", "lost"}
Owing == Sent \cup {"dialing"}

\* The dials of attempt a whose results have not been received.
PendingDials(a) == {d \in Dials : d[1] = a /\ dials[d] \in Owing}

\* Who receives them.
Receivers(a) == drain[a] + IF a = attempt /\ loop = "dialing" THEN awaited ELSE 0

LoopTypeOK ==
    /\ loop \in {"off", "dialing", "serving", "sleeping", "ended"}
    /\ attempt \in 0..MaxAttempts /\ started \in 0..Addrs /\ awaited \in Nat
    /\ dials \in [Dials -> DialStages]
    /\ drain \in [1..MaxAttempts -> Nat]

\* Attempts to come have left nothing; the one in progress has tried its first addresses, and what
\* it has received so far were failures.
AttemptsAreOrdered ==
    /\ \A d \in Dials : d[1] > attempt => dials[d] = "none"
    /\ \A a \in 1..MaxAttempts : a > attempt => drain[a] = 0
    /\ loop = "off" => attempt = 0
    /\ loop \in {"dialing", "serving", "sleeping"} => attempt \in 1..MaxAttempts
    /\ loop = "dialing" =>
          /\ drain[attempt] = 0 /\ started \in 1..Addrs
          /\ \A n \in 1..Addrs :
                IF n > started THEN dials[<<attempt, n>>] = "none"
                ELSE dials[<<attempt, n>>] \in Owing \cup {"lost"}

ServedDials == {d \in Dials : dials[d] = "served"}
OneIsServed == IF loop = "serving" THEN \E d \in Dials : ServedDials = {d} ELSE ServedDials = {}

AllAreCounted == \A a \in 1..MaxAttempts : Cardinality(PendingDials(a)) = Receivers(a)

LoopInv == LoopTypeOK /\ AttemptsAreOrdered /\ OneIsServed /\ AllAreCounted

\* There are finitely many dials.
LEMMA DialsAreFinite == \A a : IsFiniteSet(PendingDials(a))
<1>1. IsFiniteSet(1..MaxAttempts) /\ IsFiniteSet(1..Addrs)
  BY LoopAssumption, FS_Interval
<1>2. IsFiniteSet(Dials)
  BY <1>1, FS_Product, Zenon DEF Dials
<1>3. QED
  BY <1>2, FS_Subset, Zenon DEF PendingDials

\* The invariant holds before the loop starts.
LEMMA LoopInitially == LoopInit => LoopInv
<1> SUFFICES ASSUME LoopInit PROVE LoopInv
  BY Zenon
<1> USE LoopAssumption DEF LoopInit
<1>1. LoopTypeOK /\ AttemptsAreOrdered /\ OneIsServed
  BY DEF LoopTypeOK, AttemptsAreOrdered, OneIsServed, ServedDials, DialStages
<1>2. \A a \in 1..MaxAttempts : PendingDials(a) = {} /\ Receivers(a) = 0
  BY DEF PendingDials, Receivers, Owing, Sent
<1>3. AllAreCounted
  BY <1>2, FS_EmptySet, Zenon DEF AllAreCounted
<1>4. QED
  BY <1>1, <1>3, Zenon DEF LoopInv

\* A new attempt begins.
LEMMA AttemptsKeeps ==
    ASSUME LoopInv, Attempts, loop \in {"off", "sleeping"}, attempt < MaxAttempts, drain' = drain
    PROVE  LoopInv'
<1> USE LoopAssumption
<1>1. PICK b : b = attempt + 1
  BY Zenon
<1>2. PICK x : x = <<b, 1>>
  BY Zenon
<1>3. /\ LoopTypeOK /\ loop' = "dialing" /\ attempt' = b /\ dials' = [dials EXCEPT ![x] = "dialing"]
      /\ started' = 1 /\ awaited' = 1
  BY <1>1, <1>2, Zenon DEF Attempts, LoopInv
<1>4. b \in 1..MaxAttempts /\ b > attempt /\ x \in Dials /\ x[1] = b /\ 1 \in 1..Addrs
  BY <1>1, <1>2, <1>3 DEF LoopTypeOK, Dials
<1>5. dials[x] = "none" /\ drain[b] = 0
  BY <1>3, <1>4, Zenon DEF LoopInv, AttemptsAreOrdered
<1>6. /\ dials' \in [Dials -> DialStages] /\ dials'[x] = "dialing"
      /\ \A d \in Dials : d # x => dials'[d] = dials[d]
  BY <1>3, <1>4, Zenon DEF LoopTypeOK, DialStages
<1>7. LoopTypeOK'
  BY <1>3, <1>4, <1>6 DEF LoopTypeOK
<1>8. AttemptsAreOrdered'
  <2>1. \A d \in Dials : d[1] > b => dials'[d] = "none"
    <3>1. \A d \in Dials : d[1] \in 1..MaxAttempts
      BY Zenon DEF Dials
    <3>2. QED
      BY <1>1, <1>3, <1>4, <1>6, <3>1 DEF LoopInv, AttemptsAreOrdered, LoopTypeOK
  <2>2. \A a \in 1..MaxAttempts : a > b => drain'[a] = 0
    BY <1>1, <1>3 DEF LoopInv, AttemptsAreOrdered, LoopTypeOK
  <2>3. ASSUME NEW n \in 1..Addrs
        PROVE  IF n > 1 THEN dials'[<<b, n>>] = "none" ELSE dials'[<<b, n>>] \in Owing \cup {"lost"}
    <3>1. <<b, n>> \in Dials /\ <<b, n>>[1] > attempt
      BY <1>4, Zenon DEF Dials
    <3>2. n = 1 => <<b, n>> = x
      BY <1>2, Zenon
    <3>3. n # 1 => <<b, n>> # x
      BY <1>2, Zenon
    <3>4. QED
      BY <1>6, <3>1, <3>2, <3>3 DEF LoopInv, AttemptsAreOrdered, Owing
  <2>4. QED
    BY <1>3, <1>4, <1>5, <2>1, <2>2, <2>3, Zenon DEF AttemptsAreOrdered
<1>9. OneIsServed'
  <2>1. ServedDials' = ServedDials
    BY <1>5, <1>6, Zenon DEF ServedDials
  <2>2. QED
    BY <1>3, <2>1, Zenon DEF LoopInv, OneIsServed
<1>10. AllAreCounted'
  <2>1. SUFFICES ASSUME NEW a \in 1..MaxAttempts PROVE Cardinality(PendingDials(a)') = Receivers(a)'
    BY Zenon DEF AllAreCounted
  <2>2. Cardinality(PendingDials(a)) = drain[a]
    <3>1. drain[a] \in Nat
      BY <1>3, Zenon DEF LoopTypeOK
    <3>2. QED
      BY <3>1 DEF LoopInv, AllAreCounted, Receivers
  <2>3. CASE a = b
    <3>1. PendingDials(a)' = PendingDials(a) \cup {x} /\ x \notin PendingDials(a)
      BY <1>4, <1>5, <1>6, <2>3 DEF PendingDials, Owing, Sent
    <3>2. IsFiniteSet(PendingDials(a))
      BY DialsAreFinite, Zenon
    <3>3. Cardinality(PendingDials(a) \cup {x}) = Cardinality(PendingDials(a)) + 1
      BY <3>1, <3>2, FS_AddElement, Zenon
    <3>4. QED
      BY <1>3, <1>5, <2>2, <2>3, <3>1, <3>3, ZenonT(40) DEF Receivers
  <2>4. CASE a # b
    <3>1. PendingDials(a)' = PendingDials(a)
      BY <1>4, <1>6, <2>4, Zenon DEF PendingDials
    <3>2. drain[a] \in Nat
      BY <1>3 DEF LoopTypeOK
    <3>3. QED
      BY <1>3, <2>2, <2>4, <3>1, <3>2 DEF Receivers
  <2>5. QED
    BY <2>3, <2>4, Zenon
<1>11. QED
  BY <1>7, <1>8, <1>9, <1>10, Zenon DEF LoopInv

\* What moving one dial does to what is pending.
LEMMA OneDialMoves ==
    ASSUME LoopInv, NEW x \in Dials, NEW v \in DialStages, dials' = [dials EXCEPT ![x] = v]
    PROVE  /\ dials' \in [Dials -> DialStages] /\ dials'[x] = v
           /\ \A d \in Dials : d # x => dials'[d] = dials[d]
           /\ \A a \in 1..MaxAttempts :
                 Cardinality(PendingDials(a)') =
                     Cardinality(PendingDials(a))
                       + (IF a = x[1] /\ dials[x] \notin Owing /\ v \in Owing THEN 1 ELSE 0)
                       - (IF a = x[1] /\ dials[x] \in Owing /\ v \notin Owing THEN 1 ELSE 0)
<1>1. /\ dials' \in [Dials -> DialStages] /\ dials'[x] = v
      /\ \A d \in Dials : d # x => dials'[d] = dials[d]
  BY Zenon DEF LoopInv, LoopTypeOK
<1>2. SUFFICES ASSUME NEW a \in 1..MaxAttempts
               PROVE  Cardinality(PendingDials(a)') =
                         Cardinality(PendingDials(a))
                           + (IF a = x[1] /\ dials[x] \notin Owing /\ v \in Owing THEN 1 ELSE 0)
                           - (IF a = x[1] /\ dials[x] \in Owing /\ v \notin Owing THEN 1 ELSE 0)
  BY <1>1, Zenon
<1>3. IsFiniteSet(PendingDials(a)) /\ Cardinality(PendingDials(a)) \in Nat
  BY DialsAreFinite, FS_CardinalityType, Zenon
<1>4. CASE a = x[1] /\ dials[x] \notin Owing /\ v \in Owing
  <2>1. PendingDials(a)' = PendingDials(a) \cup {x} /\ x \notin PendingDials(a)
    BY <1>1, <1>4, Zenon DEF PendingDials
  <2>2. Cardinality(PendingDials(a) \cup {x}) = Cardinality(PendingDials(a)) + 1
    BY <1>3, <2>1, FS_AddElement, Zenon
  <2>3. QED
    BY <1>3, <1>4, <2>1, <2>2
<1>5. CASE a = x[1] /\ dials[x] \in Owing /\ v \notin Owing
  <2>1. PendingDials(a)' = PendingDials(a) \ {x} /\ x \in PendingDials(a)
    BY <1>1, <1>5, Zenon DEF PendingDials
  <2>2. Cardinality(PendingDials(a) \ {x}) = Cardinality(PendingDials(a)) - 1
    BY <1>3, <2>1, FS_RemoveElement, Zenon
  <2>3. QED
    BY <1>3, <1>5, <2>1, <2>2
<1>6. CASE a # x[1] \/ (dials[x] \in Owing <=> v \in Owing)
  <2>1. PendingDials(a)' = PendingDials(a)
    BY <1>1, <1>6, Zenon DEF PendingDials
  <2>2. QED
    BY <1>3, <1>6, <2>1
<1>7. QED
  BY <1>4, <1>5, <1>6, Zenon

\* A dial sends its result.
LEMMA DialEndsKeeps ==
    ASSUME LoopInv, NEW x \in Dials, NEW v \in Sent, DialEnds(x, v)
    PROVE  LoopInv'
<1> USE LoopAssumption
<1>1. /\ LoopTypeOK /\ dials[x] = "dialing" /\ dials' = [dials EXCEPT ![x] = v]
      /\ UNCHANGED <<loop, attempt, started, awaited, drain>>
  BY Zenon DEF DialEnds, LoopInv
<1>2. v \in DialStages /\ v \in Owing /\ dials[x] \in Owing
  BY <1>1, Zenon DEF DialStages, Sent, Owing
<1>3. /\ dials' \in [Dials -> DialStages] /\ dials'[x] = v
      /\ \A d \in Dials : d # x => dials'[d] = dials[d]
  BY <1>1, <1>2, OneDialMoves, Zenon
<1>4. \A a \in 1..MaxAttempts : PendingDials(a)' = PendingDials(a) /\ Receivers(a)' = Receivers(a)
  BY <1>1, <1>2, <1>3, Zenon DEF PendingDials, Receivers
<1>5. ServedDials' = ServedDials
  BY <1>1, <1>2, <1>3, Zenon DEF ServedDials, Sent
<1>6. AttemptsAreOrdered'
  <2>1. \A d \in Dials : d[1] > attempt => dials'[d] = "none"
    BY <1>1, <1>3, Zenon DEF LoopInv, AttemptsAreOrdered
  <2>2. ASSUME loop = "dialing", NEW n \in 1..Addrs
        PROVE  IF n > started THEN dials'[<<attempt, n>>] = "none"
               ELSE dials'[<<attempt, n>>] \in Owing \cup {"lost"}
    <3>1. <<attempt, n>> \in Dials
      BY <2>2, Zenon DEF LoopInv, AttemptsAreOrdered, Dials
    <3>2. QED
      BY <1>1, <1>2, <1>3, <2>2, <3>1, Zenon DEF LoopInv, AttemptsAreOrdered
  <2>3. QED
    BY <1>1, <2>1, <2>2, Zenon DEF LoopInv, AttemptsAreOrdered
<1>7. QED
  BY <1>1, <1>3, <1>4, <1>5, <1>6, Zenon DEF LoopInv, LoopTypeOK, OneIsServed, AllAreCounted

\* The next address is tried while the last dial goes on.
LEMMA DelayKeeps ==
    ASSUME LoopInv, DelayPasses
    PROVE  LoopInv'
<1> USE LoopAssumption
<1>1. PICK m : m = started + 1
  BY Zenon
<1>2. PICK x : x = <<attempt, m>>
  BY Zenon
<1>3. /\ LoopTypeOK /\ loop = "dialing" /\ started < Addrs /\ started' = m /\ awaited' = awaited + 1
      /\ dials' = [dials EXCEPT ![x] = "dialing"]
      /\ UNCHANGED <<loop, attempt, drain>>
  BY <1>1, <1>2, Zenon DEF DelayPasses, LoopInv
<1>4. /\ attempt \in 1..MaxAttempts /\ m \in 1..Addrs /\ m > started /\ x \in Dials
      /\ x[1] = attempt /\ drain[attempt] = 0
  BY <1>1, <1>2, <1>3 DEF LoopInv, LoopTypeOK, AttemptsAreOrdered, Dials
<1>5. dials[x] = "none"
  BY <1>2, <1>3, <1>4, Zenon DEF LoopInv, AttemptsAreOrdered
<1>6. "dialing" \in DialStages /\ "dialing" \in Owing /\ "none" \notin Owing
  BY Zenon DEF DialStages, Owing, Sent
<1>7. /\ dials' \in [Dials -> DialStages] /\ dials'[x] = "dialing"
      /\ \A d \in Dials : d # x => dials'[d] = dials[d]
      /\ \A a \in 1..MaxAttempts :
            Cardinality(PendingDials(a)') = Cardinality(PendingDials(a))
              + (IF a = x[1] /\ dials[x] \notin Owing /\ "dialing" \in Owing THEN 1 ELSE 0)
              - (IF a = x[1] /\ dials[x] \in Owing /\ "dialing" \notin Owing THEN 1 ELSE 0)
  BY <1>3, <1>4, <1>6, OneDialMoves, ZenonT(40)
<1>8. LoopTypeOK'
  BY <1>3, <1>4, <1>7 DEF LoopTypeOK
<1>9. AttemptsAreOrdered'
  <2>1. \A d \in Dials : d[1] > attempt => dials'[d] = "none"
    BY <1>3, <1>4, <1>7, SMTT(30) DEF LoopInv, AttemptsAreOrdered
  <2>2. ASSUME NEW n \in 1..Addrs
        PROVE  IF n > m THEN dials'[<<attempt, n>>] = "none"
               ELSE dials'[<<attempt, n>>] \in Owing \cup {"lost"}
    <3>1. <<attempt, n>> \in Dials /\ (n # m => <<attempt, n>> # x) /\ (n = m => <<attempt, n>> = x)
      BY <1>2, <1>4, Zenon DEF Dials
    <3>2. n # m => (n > m <=> n > started)
      BY <1>1, <1>3 DEF LoopTypeOK
    <3>3. QED
      BY <1>3, <1>6, <1>7, <3>1, <3>2, SMTT(30) DEF LoopInv, AttemptsAreOrdered
  <2>3. QED
    BY <1>3, <1>4, <2>1, <2>2, ZenonT(40) DEF LoopInv, AttemptsAreOrdered
<1>10. OneIsServed'
  <2>1. ServedDials' = ServedDials
    BY <1>5, <1>7, Zenon DEF ServedDials
  <2>2. QED
    BY <1>3, <2>1, Zenon DEF LoopInv, OneIsServed
<1>11. AllAreCounted'
  <2>1. SUFFICES ASSUME NEW a \in 1..MaxAttempts PROVE Cardinality(PendingDials(a)') = Receivers(a)'
    BY Zenon DEF AllAreCounted
  <2>2. Cardinality(PendingDials(a)) = Receivers(a) /\ drain[a] \in Nat /\ awaited \in Nat
    BY <1>3, ZenonT(40) DEF LoopInv, AllAreCounted, LoopTypeOK
  <2>3. Cardinality(PendingDials(a)') = Cardinality(PendingDials(a)) + (IF a = attempt THEN 1 ELSE 0)
    BY <1>4, <1>5, <1>6, <1>7, <2>2, SMTT(30) DEF Receivers
  <2>4. QED
    BY <1>3, <2>2, <2>3 DEF Receivers
<1>12. QED
  BY <1>8, <1>9, <1>10, <1>11, Zenon DEF LoopInv

\* A connection wins the race.
LEMMA WinsKeeps ==
    ASSUME LoopInv, NEW x \in Dials, Wins(x)
    PROVE  LoopInv'
<1> USE LoopAssumption
<1>1. /\ LoopTypeOK /\ loop = "dialing" /\ x[1] = attempt /\ dials[x] = "connected"
      /\ loop' = "serving" /\ dials' = [dials EXCEPT ![x] = "served"]
      /\ awaited' = awaited - 1 /\ drain' = [drain EXCEPT ![attempt] = awaited - 1]
      /\ UNCHANGED <<attempt, started>>
  BY Zenon DEF Wins, Ours, Abandon, LoopInv
<1>2. attempt \in 1..MaxAttempts /\ drain[attempt] = 0
  BY <1>1, Zenon DEF LoopInv, AttemptsAreOrdered
<1>3. "served" \in DialStages /\ "served" \notin Owing /\ "connected" \in Owing
  BY Zenon DEF DialStages, Owing, Sent
<1>4. /\ dials' \in [Dials -> DialStages] /\ dials'[x] = "served"
      /\ \A d \in Dials : d # x => dials'[d] = dials[d]
      /\ \A a \in 1..MaxAttempts :
            Cardinality(PendingDials(a)') = Cardinality(PendingDials(a))
              + (IF a = x[1] /\ dials[x] \notin Owing /\ "served" \in Owing THEN 1 ELSE 0)
              - (IF a = x[1] /\ dials[x] \in Owing /\ "served" \notin Owing THEN 1 ELSE 0)
  BY <1>1, <1>3, OneDialMoves, Zenon
<1>5. \A a \in 1..MaxAttempts : Cardinality(PendingDials(a)) = Receivers(a) /\ drain[a] \in Nat
  BY <1>1, Zenon DEF LoopInv, AllAreCounted, LoopTypeOK
<1>6. Cardinality(PendingDials(attempt)) = awaited /\ awaited - 1 \in Nat
  <2>1. Cardinality(PendingDials(attempt)) = awaited /\ awaited \in Nat
    BY <1>1, <1>2, <1>5 DEF Receivers, LoopTypeOK
  <2>2. x \in PendingDials(attempt) /\ IsFiniteSet(PendingDials(attempt))
    BY <1>1, <1>3, DialsAreFinite, Zenon DEF PendingDials
  <2>3. awaited # 0
    BY <2>1, <2>2, FS_EmptySet, Zenon
  <2>4. QED
    BY <2>1, <2>3, SMTT(30)
<1>7. LoopTypeOK'
  BY <1>1, <1>4, <1>6, ZenonT(40) DEF LoopTypeOK
<1>8. AttemptsAreOrdered'
  BY <1>1, <1>2, <1>4 DEF LoopInv, AttemptsAreOrdered, LoopTypeOK
<1>9. OneIsServed'
  <2>1. ServedDials = {}
    BY <1>1, Zenon DEF LoopInv, OneIsServed
  <2>2. ServedDials' = {x}
    BY <1>4, <2>1, Zenon DEF ServedDials
  <2>3. QED
    BY <1>1, <2>2, Zenon DEF OneIsServed
<1>10. AllAreCounted'
  <2>1. SUFFICES ASSUME NEW a \in 1..MaxAttempts PROVE Cardinality(PendingDials(a)') = Receivers(a)'
    BY Zenon DEF AllAreCounted
  <2>2. Receivers(a)' = IF a = attempt THEN awaited - 1 ELSE drain[a]
    BY <1>1, <1>2, <1>5, <1>6, SMTT(30) DEF Receivers, LoopTypeOK
  <2>3. Cardinality(PendingDials(a)) = IF a = attempt THEN awaited ELSE drain[a]
    BY <1>1, <1>5, <1>6 DEF Receivers
  <2>4. Cardinality(PendingDials(a)) \in Nat
    BY DialsAreFinite, FS_CardinalityType, Zenon
  <2>5. Cardinality(PendingDials(a)') = Cardinality(PendingDials(a)) - (IF a = attempt THEN 1 ELSE 0)
    BY <1>1, <1>3, <1>4, <2>4
  <2>6. QED
    BY <1>5, <1>6, <2>2, <2>3, <2>5
<1>11. QED
  BY <1>7, <1>8, <1>9, <1>10, Zenon DEF LoopInv

\* A dial fails and the next address is tried at once.
LEMMA NextAddressKeeps ==
    ASSUME LoopInv, NEW x \in Dials, AttemptFails(x), AfterFailure
    PROVE  LoopInv' /\ loop' = loop
<1> USE LoopAssumption
<1>1. PICK m : m = started + 1
  BY Zenon
<1>2. PICK y : y = <<attempt, m>>
  BY Zenon
<1>3. /\ LoopTypeOK /\ loop = "dialing" /\ started < Addrs /\ x[1] = attempt /\ dials[x] = "failed"
      /\ dials' = [dials EXCEPT ![x] = "lost", ![y] = "dialing"] /\ started' = m
      /\ UNCHANGED <<loop, awaited, attempt, drain>>
  BY <1>1, <1>2, ZenonT(40) DEF AttemptFails, AfterFailure, Ours, LoopInv
<1>4. /\ attempt \in 1..MaxAttempts /\ m \in 1..Addrs /\ m > started /\ y \in Dials /\ y[1] = attempt
  BY <1>1, <1>2, <1>3 DEF LoopInv, LoopTypeOK, AttemptsAreOrdered, Dials
<1>5. dials[y] = "none" /\ x # y
  BY <1>2, <1>3, <1>4, Zenon DEF LoopInv, AttemptsAreOrdered
<1>6. /\ dials' \in [Dials -> DialStages] /\ dials'[x] = "lost" /\ dials'[y] = "dialing"
      /\ \A d \in Dials : d # x /\ d # y => dials'[d] = dials[d]
  BY <1>3, <1>4, <1>5, ZenonT(40) DEF LoopTypeOK, DialStages
<1>7. LoopTypeOK'
  BY <1>3, <1>4, <1>6 DEF LoopTypeOK
<1>8. AttemptsAreOrdered'
  <2>1. \A d \in Dials : d[1] > attempt => dials'[d] = "none"
    BY <1>3, <1>4, <1>6, Zenon DEF LoopInv, AttemptsAreOrdered
  <2>2. ASSUME NEW n \in 1..Addrs
        PROVE  IF n > m THEN dials'[<<attempt, n>>] = "none"
               ELSE dials'[<<attempt, n>>] \in Owing \cup {"lost"}
    <3>1. PICK z : z = <<attempt, n>>
      BY Zenon
    <3>2. z \in Dials /\ (n = m <=> z = y)
      BY <1>2, <1>4, <3>1, Zenon DEF Dials
    <3>3. n # m => (n > m <=> n > started)
      BY <1>1, <1>3 DEF LoopTypeOK
    <3>4. IF n > started THEN dials[z] = "none" ELSE dials[z] \in Owing \cup {"lost"}
      BY <1>3, <3>1, Zenon DEF LoopInv, AttemptsAreOrdered
    <3>5. CASE z = y
      BY <1>4, <1>6, <3>1, <3>2, <3>5, SMTT(30) DEF Owing
    <3>6. CASE z = x
      BY <1>3, <1>5, <1>6, <3>1, <3>2, <3>3, <3>4, <3>6, ZenonT(40)
    <3>7. CASE z # x /\ z # y
      BY <1>6, <3>1, <3>2, <3>3, <3>4, <3>7, Zenon
    <3>8. QED
      BY <3>5, <3>6, <3>7, Zenon
  <2>3. QED
    BY <1>3, <1>4, <2>1, <2>2, Zenon DEF LoopInv, AttemptsAreOrdered
<1>9. OneIsServed'
  <2>1. ServedDials' = ServedDials
    BY <1>3, <1>5, <1>6, Zenon DEF ServedDials
  <2>2. QED
    BY <1>3, <2>1, Zenon DEF LoopInv, OneIsServed
<1>10. AllAreCounted'
  <2>1. SUFFICES ASSUME NEW a \in 1..MaxAttempts PROVE Cardinality(PendingDials(a)') = Receivers(a)'
    BY Zenon DEF AllAreCounted
  <2>2. Cardinality(PendingDials(a)) = Receivers(a) /\ Receivers(a)' = Receivers(a)
    BY <1>3, Zenon DEF LoopInv, AllAreCounted, Receivers
  <2>3. CASE a = attempt
    <3>1. PICK s : s = PendingDials(a)
      BY Zenon
    <3>2. IsFiniteSet(s) /\ Cardinality(s) \in Nat /\ x \in s /\ y \notin s
      BY <1>3, <1>5, <2>3, <3>1, DialsAreFinite, FS_CardinalityType, Zenon DEF PendingDials, Owing, Sent
    <3>3. PendingDials(a)' = (s \ {x}) \cup {y}
      BY <1>4, <1>6, <2>3, <3>1, Zenon DEF PendingDials, Owing, Sent
    <3>4. IsFiniteSet(s \ {x}) /\ Cardinality(s \ {x}) = Cardinality(s) - 1
      BY <3>2, FS_RemoveElement, Zenon
    <3>5. PICK t : t = s \ {x}
      BY Zenon
    <3>6. Cardinality(t \cup {y}) = Cardinality(t) + 1
      BY <3>2, <3>4, <3>5, FS_AddElement, Zenon
    <3>7. QED
      BY <2>2, <3>1, <3>2, <3>3, <3>4, <3>5, <3>6, SMTT(30)
  <2>4. CASE a # attempt
    <3>1. PendingDials(a)' = PendingDials(a)
      BY <1>3, <1>4, <1>6, <2>4, Zenon DEF PendingDials
    <3>2. QED
      BY <2>2, <3>1, Zenon
  <2>5. QED
    BY <2>3, <2>4, Zenon
<1>11. QED
  BY <1>3, <1>7, <1>8, <1>9, <1>10, Zenon DEF LoopInv

\* A dial fails and there is no other address; the last one to fail ends the attempt.
LEMMA LastAddressKeeps ==
    ASSUME LoopInv, NEW x \in Dials, AttemptFails(x), ~AfterFailure
    PROVE  /\ LoopInv'
           /\ loop' # "dialing" => \A n \in 1..Addrs : dials'[<<attempt, n>>] = "lost"
<1> USE LoopAssumption
<1>1. /\ LoopTypeOK /\ loop = "dialing" /\ x[1] = attempt /\ dials[x] = "failed"
      /\ dials' = [dials EXCEPT ![x] = "lost"] /\ awaited' = awaited - 1
      /\ awaited = 1 => loop' \in {"ended", "sleeping"}
      /\ awaited # 1 => loop' = loop
      /\ UNCHANGED <<attempt, started, drain>>
  BY Zenon DEF AttemptFails, Ours, LoopInv
<1>2. attempt \in 1..MaxAttempts /\ drain[attempt] = 0 /\ started = Addrs
  BY <1>1 DEF LoopInv, AttemptsAreOrdered, AfterFailure
<1>3. "lost" \in DialStages /\ "lost" \notin Owing /\ "failed" \in Owing
  BY Zenon DEF DialStages, Owing, Sent
<1>4. /\ dials' \in [Dials -> DialStages] /\ dials'[x] = "lost"
      /\ \A d \in Dials : d # x => dials'[d] = dials[d]
      /\ \A a \in 1..MaxAttempts :
            Cardinality(PendingDials(a)') = Cardinality(PendingDials(a))
              + (IF a = x[1] /\ dials[x] \notin Owing /\ "lost" \in Owing THEN 1 ELSE 0)
              - (IF a = x[1] /\ dials[x] \in Owing /\ "lost" \notin Owing THEN 1 ELSE 0)
  BY <1>1, <1>3, OneDialMoves, Zenon
<1>5. \A a \in 1..MaxAttempts : Cardinality(PendingDials(a)) = Receivers(a) /\ drain[a] \in Nat
  BY <1>1, Zenon DEF LoopInv, AllAreCounted, LoopTypeOK
<1>6. Cardinality(PendingDials(attempt)) = awaited /\ awaited - 1 \in Nat
  <2>1. Cardinality(PendingDials(attempt)) = awaited /\ awaited \in Nat
    BY <1>1, <1>2, <1>5 DEF Receivers, LoopTypeOK
  <2>2. x \in PendingDials(attempt) /\ IsFiniteSet(PendingDials(attempt))
    BY <1>1, <1>3, DialsAreFinite, Zenon DEF PendingDials
  <2>3. awaited # 0
    BY <2>1, <2>2, FS_EmptySet, Zenon
  <2>4. QED
    BY <2>1, <2>3
<1>7. LoopTypeOK'
  BY <1>1, <1>4, <1>6, Zenon DEF LoopTypeOK
<1>8. \A n \in 1..Addrs : dials'[<<attempt, n>>] \in Owing \cup {"lost"}
  <2>1. SUFFICES ASSUME NEW n \in 1..Addrs PROVE dials'[<<attempt, n>>] \in Owing \cup {"lost"}
    BY Zenon
  <2>2. <<attempt, n>> \in Dials /\ ~(n > started)
    BY <1>2, SMTT(30) DEF Dials
  <2>3. QED
    BY <1>1, <1>4, <2>2, Zenon DEF LoopInv, AttemptsAreOrdered
<1>9. AttemptsAreOrdered'
  BY <1>1, <1>2, <1>4, <1>8 DEF LoopInv, AttemptsAreOrdered, LoopTypeOK
<1>10. OneIsServed'
  <2>1. ServedDials' = ServedDials
    BY <1>1, <1>4, Zenon DEF ServedDials
  <2>2. QED
    BY <1>1, <2>1, Zenon DEF LoopInv, OneIsServed
<1>11. \A a \in 1..MaxAttempts :
          Cardinality(PendingDials(a)') = IF a = attempt THEN awaited - 1 ELSE drain[a]
  <2>1. SUFFICES ASSUME NEW a \in 1..MaxAttempts
                 PROVE  Cardinality(PendingDials(a)') = IF a = attempt THEN awaited - 1 ELSE drain[a]
    BY Zenon
  <2>2. Cardinality(PendingDials(a)) = IF a = attempt THEN awaited ELSE drain[a]
    BY <1>1, <1>5, <1>6 DEF Receivers
  <2>3. Cardinality(PendingDials(a)) \in Nat
    BY DialsAreFinite, FS_CardinalityType, Zenon
  <2>4. Cardinality(PendingDials(a)') = Cardinality(PendingDials(a)) - (IF a = attempt THEN 1 ELSE 0)
    BY <1>1, <1>3, <1>4, <2>3
  <2>5. QED
    BY <1>5, <1>6, <2>2, <2>4
<1>12. AllAreCounted'
  <2>1. SUFFICES ASSUME NEW a \in 1..MaxAttempts PROVE Cardinality(PendingDials(a)') = Receivers(a)'
    BY Zenon DEF AllAreCounted
  <2>2. Receivers(a)' = IF a = attempt THEN awaited - 1 ELSE drain[a]
    BY <1>1, <1>2, <1>5, <1>6 DEF Receivers
  <2>3. QED
    BY <1>11, <2>2, Zenon
<1>13. ASSUME loop' # "dialing", NEW n \in 1..Addrs PROVE dials'[<<attempt, n>>] = "lost"
  <2>1. PICK z : z = <<attempt, n>>
    BY Zenon
  <2>2. z \in Dials /\ z[1] = attempt
    BY <1>2, <2>1, Zenon DEF Dials
  <2>3. Cardinality(PendingDials(attempt)') = 0
    BY <1>1, <1>2, <1>11, <1>13, SMTT(30)
  <2>4. PendingDials(attempt)' = {d \in Dials : d[1] = attempt /\ dials'[d] \in Owing}
    BY <1>1, Zenon DEF PendingDials
  <2>5. IsFiniteSet({d \in Dials : d[1] = attempt /\ dials'[d] \in Owing})
    <3>1. IsFiniteSet(1..MaxAttempts) /\ IsFiniteSet(1..Addrs)
      BY FS_Interval
    <3>2. IsFiniteSet(Dials)
      BY <3>1, FS_Product, Zenon DEF Dials
    <3>3. QED
      BY <3>2, FS_Subset, Zenon
  <2>6. {d \in Dials : d[1] = attempt /\ dials'[d] \in Owing} = {}
    BY <2>3, <2>4, <2>5, FS_EmptySet, ZenonT(40)
  <2>7. QED
    BY <1>8, <2>1, <2>2, <2>6, Zenon
<1>14. QED
  BY <1>7, <1>9, <1>10, <1>12, <1>13, Zenon DEF LoopInv

\* The drain goroutine receives a late result.
LEMMA DrainsKeeps ==
    ASSUME LoopInv, NEW x \in Dials, Drains(x)
    PROVE  LoopInv'
<1> USE LoopAssumption
<1>1. PICK v : v = IF dials[x] = "connected" THEN "closed" ELSE "lost"
  BY Zenon
<1>2. PICK b : b = x[1]
  BY Zenon
<1>3. /\ LoopTypeOK /\ drain[b] > 0 /\ dials[x] \in Sent
      /\ dials' = [dials EXCEPT ![x] = v] /\ drain' = [drain EXCEPT ![b] = @ - 1]
      /\ UNCHANGED <<loop, attempt, started, awaited>>
  BY <1>1, <1>2, Zenon DEF Drains, LoopInv, LoopTypeOK
<1>4. /\ v \in DialStages /\ v \notin Owing /\ v # "served" /\ dials[x] \in Owing
      /\ b \in 1..MaxAttempts
  BY <1>1, <1>2, <1>3, Zenon DEF DialStages, Owing, Sent, Dials
<1>5. /\ dials' \in [Dials -> DialStages] /\ dials'[x] = v
      /\ \A d \in Dials : d # x => dials'[d] = dials[d]
      /\ \A a \in 1..MaxAttempts :
            Cardinality(PendingDials(a)') = Cardinality(PendingDials(a))
              + (IF a = x[1] /\ dials[x] \notin Owing /\ v \in Owing THEN 1 ELSE 0)
              - (IF a = x[1] /\ dials[x] \in Owing /\ v \notin Owing THEN 1 ELSE 0)
  BY <1>3, <1>4, OneDialMoves, ZenonT(40)
<1>6. /\ drain' \in [1..MaxAttempts -> Nat]
      /\ \A a \in 1..MaxAttempts : drain'[a] = IF a = b THEN drain[a] - 1 ELSE drain[a]
  BY <1>3, <1>4, SMTT(30) DEF LoopTypeOK
<1>7. b <= attempt /\ ~(b = attempt /\ loop = "dialing")
  BY <1>3, <1>4 DEF LoopInv, AttemptsAreOrdered, LoopTypeOK
<1>8. LoopTypeOK'
  BY <1>3, <1>5, <1>6, ZenonT(40) DEF LoopTypeOK
<1>9. AttemptsAreOrdered'
  <2>1. \A d \in Dials : d[1] > attempt => dials'[d] = "none"
    BY <1>2, <1>3, <1>4, <1>5, <1>7, SMTT(30) DEF LoopInv, AttemptsAreOrdered, LoopTypeOK
  <2>2. \A a \in 1..MaxAttempts : a > attempt => drain'[a] = 0
    BY <1>3, <1>4, <1>6, <1>7 DEF LoopInv, AttemptsAreOrdered, LoopTypeOK
  <2>3. ASSUME loop = "dialing"
        PROVE  /\ drain'[attempt] = 0
               /\ \A n \in 1..Addrs : dials'[<<attempt, n>>] = dials[<<attempt, n>>]
    <3>1. attempt \in 1..MaxAttempts /\ drain[attempt] = 0 /\ attempt # b
      BY <1>7, <2>3, Zenon DEF LoopInv, AttemptsAreOrdered
    <3>2. \A n \in 1..Addrs : <<attempt, n>> \in Dials /\ <<attempt, n>> # x
      BY <1>2, <3>1 DEF Dials
    <3>3. QED
      BY <1>5, <1>6, <3>1, <3>2, Zenon
  <2>4. QED
    BY <1>3, <2>1, <2>2, <2>3, SMTT(30) DEF LoopInv, AttemptsAreOrdered
<1>10. OneIsServed'
  <2>1. ServedDials' = ServedDials
    BY <1>3, <1>4, <1>5, ZenonT(40) DEF ServedDials, Sent
  <2>2. QED
    BY <1>3, <2>1, Zenon DEF LoopInv, OneIsServed
<1>11. AllAreCounted'
  <2>1. SUFFICES ASSUME NEW a \in 1..MaxAttempts PROVE Cardinality(PendingDials(a)') = Receivers(a)'
    BY DEF AllAreCounted
  <2>2. Cardinality(PendingDials(a)) = Receivers(a) /\ drain[a] \in Nat /\ awaited \in Nat
    BY <1>3, Zenon DEF LoopInv, AllAreCounted, LoopTypeOK
  <2>3. Cardinality(PendingDials(a)) \in Nat
    BY <2>2, SMTT(30) DEF Receivers
  <2>4. Cardinality(PendingDials(a)') = Cardinality(PendingDials(a)) - (IF a = b THEN 1 ELSE 0)
    BY <1>2, <1>4, <1>5, <2>3
  <2>5. QED
    BY <1>3, <1>6, <1>7, <2>2, <2>4, SMTT(30) DEF Receivers
<1>12. QED
  BY <1>8, <1>9, <1>10, <1>11, SMTT(30) DEF LoopInv

\* Steps that leave the dials alone: the bridge is closed, or dialing is cancelled.
LEMMA CancelKeeps ==
    ASSUME LoopInv, DialCancelled \/ CloseBridge \/ (BackoffEnds /\ cancelled) \/ UNCHANGED loopVars
    PROVE  LoopInv'
<1> USE LoopAssumption
<1>1. LoopTypeOK /\ dials' = dials /\ attempt' = attempt /\ started' = started /\ awaited' = awaited
  BY Zenon DEF DialCancelled, CloseBridge, BackoffEnds, loopVars, LoopInv
<1>2. \A a \in 1..MaxAttempts : PendingDials(a)' = PendingDials(a)
  BY <1>1, Zenon DEF PendingDials
<1>3. ServedDials' = ServedDials
  BY <1>1, Zenon DEF ServedDials
<1>4. CASE DialCancelled
  <2>1. /\ loop = "dialing" /\ loop' = "ended" /\ drain' = [drain EXCEPT ![attempt] = awaited]
        /\ attempt \in 1..MaxAttempts /\ drain[attempt] = 0
    BY <1>4, ZenonT(40) DEF DialCancelled, Abandon, LoopInv, AttemptsAreOrdered
  <2>2. LoopTypeOK' /\ AttemptsAreOrdered' /\ OneIsServed'
    BY <1>1, <1>3, <2>1, SMTT(30) DEF LoopInv, LoopTypeOK, AttemptsAreOrdered, OneIsServed
  <2>3. \A a \in 1..MaxAttempts : Receivers(a)' = Receivers(a)
    BY <1>1, <2>1, SMTT(30) DEF Receivers, LoopTypeOK
  <2>4. QED
    BY <1>2, <2>2, <2>3, Zenon DEF LoopInv, AllAreCounted
<1>5. CASE CloseBridge \/ (BackoffEnds /\ cancelled) \/ UNCHANGED loopVars
  <2>1. /\ drain' = drain
        /\ \/ loop' = loop
           \/ loop' = "ended" /\ loop \in {"off", "sleeping"}
    BY <1>5, Zenon DEF CloseBridge, BackoffEnds, loopVars
  <2>2. LoopTypeOK' /\ AttemptsAreOrdered' /\ OneIsServed'
    BY <1>1, <1>3, <2>1, Zenon DEF LoopInv, LoopTypeOK, AttemptsAreOrdered, OneIsServed
  <2>3. \A a \in 1..MaxAttempts : Receivers(a)' = Receivers(a)
    BY <1>1, <2>1, Zenon DEF Receivers
  <2>4. QED
    BY <1>2, <2>2, <2>3 DEF LoopInv, AllAreCounted
<1>6. QED
  BY <1>4, <1>5, Zenon

\* A session ends.
LEMMA SessionEndKeeps ==
    ASSUME LoopInv, NEW long \in BOOLEAN, RunSessionEnds(long)
    PROVE  LoopInv'
<1> USE LoopAssumption
<1>1. /\ LoopTypeOK /\ loop = "serving" /\ loop' \in {"ended", "sleeping"}
      /\ dials' = [d \in Dials |-> IF dials[d] = "served" THEN "closed" ELSE dials[d]]
      /\ UNCHANGED <<attempt, started, awaited, drain>>
  BY Zenon DEF RunSessionEnds, LoopInv
<1>2. dials' \in [Dials -> DialStages]
  BY <1>1, Zenon DEF LoopTypeOK, DialStages
<1>3. \A a \in 1..MaxAttempts : PendingDials(a)' = PendingDials(a) /\ Receivers(a)' = Receivers(a)
  <2>1. \A d \in Dials : dials'[d] \in Owing <=> dials[d] \in Owing
    BY <1>1, Zenon DEF Owing, Sent
  <2>2. \A a \in 1..MaxAttempts : PendingDials(a)' = PendingDials(a)
    BY <2>1, Zenon DEF PendingDials
  <2>3. QED
    BY <1>1, <2>2, Zenon DEF Receivers
<1>4. ServedDials' = {}
  BY <1>1, Zenon DEF ServedDials
<1>5. LoopTypeOK' /\ AttemptsAreOrdered' /\ OneIsServed'
  BY <1>1, <1>2, <1>4, Zenon DEF LoopInv, LoopTypeOK, AttemptsAreOrdered, OneIsServed
<1>6. QED
  BY <1>3, <1>5, Zenon DEF LoopInv, AllAreCounted

\* An attempt that ends for lack of a connection has lost every address.
TriesEveryAddress ==
    loop = "dialing" /\ loop' = "sleeping" => \A n \in 1..Addrs : dials'[<<attempt, n>>] = "lost"

\* Every step keeps the invariant, and gives an attempt up only when every address has been tried.
LEMMA LoopStepKeeps == LoopInv /\ [LoopNext]_loopVars => LoopInv' /\ [TriesEveryAddress]_loopVars
<1> SUFFICES ASSUME LoopInv, [LoopNext]_loopVars PROVE LoopInv' /\ [TriesEveryAddress]_loopVars
  BY Zenon
<1> USE LoopAssumption
<1>1. CASE UNCHANGED loopVars
  BY <1>1, CancelKeeps, Zenon
<1>2. CASE Start
  <2>1. loop = "off" /\ attempt = 0 /\ Attempts /\ drain' = drain /\ attempt < MaxAttempts
    BY <1>2 DEF Start, LoopInv, AttemptsAreOrdered
  <2>2. QED
    BY <2>1, AttemptsKeeps, Zenon DEF TriesEveryAddress
<1>3. CASE DelayPasses
  BY <1>3, DelayKeeps, Zenon DEF DelayPasses, TriesEveryAddress
<1>4. CASE DialCancelled \/ CloseBridge
  <2>1. LoopInv'
    BY <1>4, CancelKeeps, Zenon
  <2>2. TriesEveryAddress
    BY <1>4, Zenon DEF DialCancelled, CloseBridge, TriesEveryAddress
  <2>3. QED
    BY <2>1, <2>2, Zenon
<1>5. CASE BackoffEnds
  <2>1. CASE cancelled
    BY <1>5, <2>1, CancelKeeps, Zenon DEF BackoffEnds, TriesEveryAddress
  <2>2. CASE ~cancelled
    <3>1. loop = "sleeping" /\ attempt < MaxAttempts /\ Attempts /\ drain' = drain
      BY <1>5, <2>2, Zenon DEF BackoffEnds
    <3>2. QED
      BY <3>1, AttemptsKeeps, Zenon DEF TriesEveryAddress
  <2>3. QED
    BY <2>1, <2>2, Zenon
<1>6. ASSUME NEW d \in Dials, NEW result \in Sent, DialEnds(d, result)
      PROVE  LoopInv' /\ TriesEveryAddress
  BY <1>6, DialEndsKeeps, Zenon DEF DialEnds, TriesEveryAddress
<1>7. ASSUME NEW d \in Dials, Wins(d) PROVE LoopInv' /\ TriesEveryAddress
  BY <1>7, WinsKeeps, Zenon DEF Wins, TriesEveryAddress
<1>8. ASSUME NEW d \in Dials, AttemptFails(d) PROVE LoopInv' /\ TriesEveryAddress
  <2>1. CASE AfterFailure
    BY <1>8, <2>1, NextAddressKeeps, Zenon DEF TriesEveryAddress
  <2>2. CASE ~AfterFailure
    BY <1>8, <2>2, LastAddressKeeps, Zenon DEF TriesEveryAddress
  <2>3. QED
    BY <2>1, <2>2, Zenon
<1>9. ASSUME NEW d \in Dials, Drains(d) PROVE LoopInv' /\ TriesEveryAddress
  BY <1>9, DrainsKeeps, Zenon DEF Drains, TriesEveryAddress
<1>10. ASSUME NEW long \in BOOLEAN, RunSessionEnds(long) PROVE LoopInv' /\ TriesEveryAddress
  BY <1>10, SessionEndKeeps, Zenon DEF RunSessionEnds, TriesEveryAddress
<1>11. QED
  BY <1>1, <1>2, <1>3, <1>4, <1>5, <1>6, <1>7, <1>8, <1>9, <1>10, ZenonT(40) DEF LoopNext

\* The safety of BridgeIsSound, for any number of addresses and attempts.
THEOREM BridgeAlwaysSafe == LoopSpec => [](OneSession /\ EveryDialIsCounted) /\ EveryAddressIsTried
<1>1. LoopInv => OneSession /\ EveryDialIsCounted
  <2>1. SUFFICES ASSUME LoopInv PROVE OneSession /\ EveryDialIsCounted
    BY Zenon
  <2>2. OneSession
    BY <2>1, FS_Singleton, FS_EmptySet, Zenon DEF LoopInv, OneIsServed, OneSession, ServedDials
  <2>3. EveryDialIsCounted
    BY <2>1, Zenon DEF LoopInv, AllAreCounted, EveryDialIsCounted, PendingDials, Receivers, Owing
  <2>4. QED
    BY <2>2, <2>3, Zenon
<1>2. LoopSpec => []LoopInv /\ [][TriesEveryAddress]_loopVars
  BY LoopInitially, LoopStepKeeps, PTL DEF LoopSpec
<1>3. [][TriesEveryAddress]_loopVars => EveryAddressIsTried
  BY PTL DEF TriesEveryAddress, EveryAddressIsTried
<1>4. QED
  BY <1>1, <1>2, <1>3, PTL

(***************************************************************************)
(* The handler of a bridged stream, its two copies and the context may run *)
(* in any order: the response writer is not touched after the handler, and *)
(* a relay in which nothing failed is not reset.                           *)
(***************************************************************************)
Trouble == troubled \/ ctxDone

\* Once either end is closed, something failed or down has finished, so that no Write is in
\* progress; an abort that is under way found one, hence something failed.
StreamInv ==
    /\ StreamTypeOK
    /\ ended <=> handling = "returned"
    /\ handling # "routing" => streamClosed
    /\ up \in {"closing", "aborting"} => streamClosed
    /\ streamClosed \/ destClosed => Trouble \/ down = "ended"
    /\ up = "aborting" => Trouble
    /\ handling \in {"aborting", "shutAborting"} => Trouble
    /\ NoWriteAtReturn
    /\ CleanEndIsNotReset

\* A stream begins in order (newBridgeStream).
LEMMA StreamInitInOrder == StreamInit => StreamInv
  BY Zenon DEF StreamInit, StreamInv, StreamTypeOK, NoWriteAtReturn, CleanEndIsNotReset, Trouble

\* The steps of down: a Write is refused once the stream is closed, and closes only with a reason.
LEMMA DownInOrder ==
  ASSUME StreamInv,
         \/ DownReads \/ WriteGoesOut \/ DestinationEnds \/ DestinationFails
         \/ WriteBegins \/ WriteChecks \/ WriteFails \/ DownCloses
  PROVE  StreamInv'
<1> USE DEF StreamInv, StreamTypeOK, NoWriteAtReturn, CleanEndIsNotReset, Trouble, DownUnchanged
<1>1. CASE DownReads
  BY <1>1, Zenon DEF DownReads
<1>2. CASE WriteGoesOut
  BY <1>2, Zenon DEF WriteGoesOut
<1>3. CASE DestinationEnds
  BY <1>3, Zenon DEF DestinationEnds, CloseWrite
<1>4. CASE DestinationFails
  BY <1>4, Zenon DEF DestinationFails
<1>5. CASE WriteBegins
  BY <1>5 DEF WriteBegins
<1>6. CASE WriteChecks
  BY <1>6, Zenon DEF WriteChecks
<1>7. CASE WriteFails
  BY <1>7, Zenon DEF WriteFails
<1>8. CASE DownCloses
  BY <1>8, ZenonT(40) DEF DownCloses
<1> HIDE DEF StreamInv, StreamTypeOK, NoWriteAtReturn, CleanEndIsNotReset, Trouble, DownUnchanged
<1> QED
  BY <1>1, <1>2, <1>3, <1>4, <1>5, <1>6, <1>7, <1>8, Zenon

\* The steps of up: it aborts a Write only when it finds one although the stream is closed.
LEMMA UpInOrder ==
  ASSUME StreamInv,
         \/ UpReads \/ DestinationTakes \/ InviterEnds \/ UpFails(TRUE) \/ UpFails(FALSE)
         \/ UpCloses \/ UpAborts
  PROVE  StreamInv'
<1> USE DEF StreamInv, StreamTypeOK, NoWriteAtReturn, CleanEndIsNotReset, Trouble, UpUnchanged
<1>1. CASE UpReads
  BY <1>1, Zenon DEF UpReads
<1>2. CASE DestinationTakes
  BY <1>2, SMTT(30) DEF DestinationTakes
<1>3. CASE InviterEnds
  BY <1>3 DEF InviterEnds
<1>4. ASSUME NEW byItself \in BOOLEAN, UpFails(byItself) PROVE StreamInv'
  <2>1. troubled' \in BOOLEAN /\ (troubled => troubled')
    BY <1>4, Zenon DEF UpFails
  <2>2. up = "sending" /\ ~destClosed => troubled'
    BY <1>4, Zenon DEF UpFails
  <2>3. Trouble' \/ down' = "ended"
    BY <1>4, <2>1, <2>2, ZenonT(40) DEF UpFails
  <2> QED
    BY <1>4, <2>1, <2>3, Zenon DEF UpFails
<1>5. CASE UpCloses
  BY <1>5 DEF UpCloses, TestWriting, Writing
<1>6. CASE UpAborts
  BY <1>6, Zenon DEF UpAborts, AbortWrite
<1> HIDE DEF StreamInv, StreamTypeOK, NoWriteAtReturn, CleanEndIsNotReset, Trouble, UpUnchanged
<1> QED
  BY <1>1, <1>2, <1>3, <1>4, <1>5, <1>6, Zenon

\* The steps of the handler: it returns only when no Write holds c.mu.
LEMMA HandlerInOrder == StreamInv /\ HandlerStep => StreamInv'
<1> SUFFICES ASSUME StreamInv, HandlerStep PROVE StreamInv'
  BY Zenon
<1> USE DEF StreamInv, StreamTypeOK, NoWriteAtReturn, CleanEndIsNotReset, Trouble, HandlerUnchanged
<1>1. CASE CopiesEnd
  BY <1>1, Zenon DEF CopiesEnd, RouteDone
<1>2. CASE HandlerCloses
  BY <1>2, Zenon DEF HandlerCloses
<1>3. CASE HandlerTests
  BY <1>3 DEF HandlerTests, TestWriting, Writing
<1>4. CASE HandlerAborts
  BY <1>4, Zenon DEF HandlerAborts, AbortWrite
<1>5. CASE ShutdownTimesOut
  BY <1>5, Zenon DEF ShutdownTimesOut
<1>6. CASE ShutdownTests
  BY <1>6 DEF ShutdownTests, TestWriting, Writing
<1>7. CASE ShutdownAborts
  BY <1>7, Zenon DEF ShutdownAborts, AbortWrite
<1>8. CASE ShutdownLocks
  BY <1>8, Zenon DEF ShutdownLocks, Writing
<1> HIDE DEF StreamInv, StreamTypeOK, NoWriteAtReturn, CleanEndIsNotReset, Trouble, HandlerUnchanged
<1> QED
  BY <1>1, <1>2, <1>3, <1>4, <1>5, <1>6, <1>7, <1>8, ZenonT(40) DEF HandlerStep

\* Every step keeps the stream in order.
LEMMA StreamStepInOrder == StreamInv /\ [StreamNext]_streamVars => StreamInv'
<1> SUFFICES ASSUME StreamInv, [StreamNext]_streamVars PROVE StreamInv'
  BY Zenon
<1>1. CASE ContextEnds
  BY <1>1, SMTT(30) DEF ContextEnds, StreamInv, StreamTypeOK, NoWriteAtReturn, CleanEndIsNotReset, Trouble
<1>2. CASE UNCHANGED streamVars
  BY <1>2 DEF streamVars, StreamInv, StreamTypeOK, NoWriteAtReturn, CleanEndIsNotReset, Trouble
<1> QED
  BY <1>1, <1>2, DownInOrder, UpInOrder, HandlerInOrder, ZenonT(40) DEF StreamNext, UpStep

\* In whichever order the handler, the copies and the context run, nothing reaches the response
\* writer once the handler has returned, and only a relay in which something failed is reset.
THEOREM WriterAlwaysSafe == StreamSpec => WriterIsSafe
<1>1. StreamInv => NoWriteAtReturn /\ CleanEndIsNotReset
  BY Zenon DEF StreamInv
<1>2. StreamInv /\ [StreamNext]_streamVars
        => [handling = "returned" => down' # "inW" /\ reset' = reset]_streamVars
  <2> SUFFICES ASSUME StreamInv, StreamNext, handling = "returned"
               PROVE  down' # "inW" /\ reset' = reset
    BY Zenon
  <2>1. reset' = reset
    BY Zenon DEF StreamInv, StreamTypeOK, StreamNext, ContextEnds, DownReads, WriteGoesOut,
           DestinationEnds, DestinationFails, WriteBegins, WriteChecks, WriteFails, DownCloses,
           UpReads, DestinationTakes, InviterEnds, UpFails, UpStep, UpCloses, UpAborts, HandlerStep,
           CopiesEnd, HandlerCloses, HandlerTests, HandlerAborts, ShutdownTimesOut, ShutdownTests,
           ShutdownAborts, ShutdownLocks, AbortWrite, DownUnchanged, UpUnchanged, HandlerUnchanged
  <2>2. down' # "inW"
    BY Zenon DEF StreamInv, NoWriteAtReturn, StreamNext, ContextEnds, DownReads, WriteGoesOut,
           DestinationEnds, DestinationFails, WriteBegins, WriteChecks, WriteFails, DownCloses,
           UpReads, DestinationTakes, InviterEnds, UpFails, UpStep, UpCloses, UpAborts, HandlerStep,
           CopiesEnd, HandlerCloses, HandlerTests, HandlerAborts, ShutdownTimesOut, ShutdownTests,
           ShutdownAborts, ShutdownLocks, UpUnchanged, HandlerUnchanged
  <2> QED
    BY <2>1, <2>2, Zenon
<1> QED
  BY <1>1, <1>2, StreamInitInOrder, StreamStepInOrder, PTL DEF StreamSpec, WriterIsSafe,
     WriterIsLeftAlone

(***************************************************************************)
(* CONNECT: what ends a stream.                                            *)
(***************************************************************************)
\* A canceler that has not been stopped, or that ran, is known to a dial that is not done; a dial
\* that gave its conn away stopped both, so that only Close can have ended the stream.
ConnectInv ==
    /\ dial \in {"trip", "stopping", "conn", "failed"}
    /\ canceler \in [Cancelers -> {"armed", "fired", "ran", "stopped"}]
    /\ streamDead \in BOOLEAN
    /\ response \in {"none", "ok", "refused", "error"}
    /\ open \subseteq {"body", "pipe"}
    /\ dial \in {"trip", "stopping"} /\ streamDead => \E x \in Cancelers : canceler[x] = "ran"
    /\ dial = "conn" => Detached(canceler)
    /\ ConnDiesByItsClose

\* Whatever the caller, the timer, the portal and the relay do and in whichever order, a conn that
\* connect returned is cancelled by nothing but its Close, and a failed dial leaves nothing open.
THEOREM ConnAlwaysDiesByItsClose == ConnectSpec => []ConnDiesByItsClose
<1> USE DEF ConnectInv, Detached, Cancelers, ConnDiesByItsClose
<1>1. ConnectInit => ConnectInv
  BY Zenon DEF ConnectInit
<1>2. ConnectInv /\ [ConnectNext]_connectVars => ConnectInv'
  <2> SUFFICES ASSUME ConnectInv, [ConnectNext]_connectVars PROVE ConnectInv'
    BY Zenon
  <2>1. ASSUME NEW x \in Cancelers, Fires(x) PROVE ConnectInv'
    BY <2>1, Zenon DEF Fires
  <2>2. ASSUME NEW x \in Cancelers, Runs(x) PROVE ConnectInv'
    BY <2>2, Zenon DEF Runs
  <2>3. ASSUME NEW r \in {"ok", "refused", "error"}, RoundTrip(r) PROVE ConnectInv'
    BY <2>3, Zenon DEF RoundTrip
  <2>4. CASE ConnectReturns
    BY <2>4, Zenon DEF ConnectReturns
  <2>5. CASE CloseWriteConn
    BY <2>5, Zenon DEF CloseWriteConn
  <2>6. CASE CloseConn
    BY <2>6, Zenon DEF CloseConn
  <2>7. CASE UNCHANGED connectVars
    BY <2>7, Zenon DEF connectVars
  <2> HIDE DEF ConnectInv, Detached, Cancelers, ConnDiesByItsClose
  <2> QED
    BY <2>1, <2>2, <2>3, <2>4, <2>5, <2>6, <2>7, ZenonT(40) DEF ConnectNext
<1>3. ConnectInv => ConnDiesByItsClose
  BY Zenon
<1> QED
  BY <1>1, <1>2, <1>3, PTL DEF ConnectSpec
=============================================================================
