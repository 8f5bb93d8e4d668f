---------------------------- MODULE PortalProofs ----------------------------
(***************************************************************************)
(* Proofs about the identities of the Samizdat portal: rotation, expiry,   *)
(* reconfiguration and stopping while connections are handed over.         *)
(***************************************************************************)
EXTENDS PortalIdentities, FiniteSetTheorems, TLAPS

(***************************************************************************)
(* The identities of the portal, for any keys, ports and connections.      *)
(***************************************************************************)
IdentityState == [key : Keys, live : Nat, retired : BOOLEAN, closing : BOOLEAN, closed : BOOLEAN]
ConnState ==
    [phase : {"none", "gone", "hello", "picked", "masked", "admitted", "handshake", "session", "cut"},
     id : Nat \cup {None}]

Identified == {"picked"} \cup Counted

PortalTyped ==
    /\ ids \in Seq(IdentityState)
    /\ conns \in [Conns -> ConnState]
    /\ \A c \in Conns : conns[c].phase \in Identified => conns[c].id \in DOMAIN ids
    /\ curId \in DOMAIN ids \cup {None} /\ previous \in DOMAIN ids \cup {None}
    /\ retired \subseteq DOMAIN ids /\ None \notin expiring
    /\ wanted \in Configs \cup {None}

\* What NoIdentityLeaks says between operations holds during a stop too, which leaves all the
\* identities as they are until it closes them.
OpenIsKnown ==
    \A i \in DOMAIN ids :
        ~ids[i].closed =>
            /\ curId # None
            /\ i \in {curId, previous} \cup retired
            /\ ids[i].retired <=> i \in retired
            /\ ids[i].retired /\ ids[i].live = 0 => ids[i].closing

\* The identities that are served are up; one closes by itself only when it is retired; and one
\* that a connection has picked is closed only if it is retired.
ServedIsUp ==
    /\ \A i \in DOMAIN ids : i \in {curId, previous} => ~ids[i].retired /\ ~ids[i].closed
    /\ \A i \in DOMAIN ids : ids[i].closing => ids[i].retired
    /\ \A c \in Conns : conns[c].phase = "picked" /\ ids[conns[c].id].closed
                            => ids[conns[c].id].retired

WantedIsServed ==
    /\ \A c \in Conns : conns[c].phase = "hello" => curId # None
    /\ IF curId = None THEN previous = None
       ELSE /\ wanted # None
            /\ ids[curId].key = wanted.key
            /\ wanted.port \in {AnyPort, port}
            /\ previous # None => ids[previous].key = wanted.previous

\* A portal that accepts is up, and a stop knows what follows it.
StopIsSound ==
    /\ listener = "serving" => curId # None
    /\ pending # None =>
        /\ curId # None /\ listener = "down"
        /\ pending.then \in {"serve", "rebuild"} => pending.cfg \in Configs
        /\ pending.then = "serve" => pending.cfg.port \in {AnyPort, pending.at}

PortalSound ==
    PortalTyped /\ RetirementCutsNothing /\ OpenIsKnown /\ ServedIsUp /\ WantedIsServed

IdentitiesInv == PortalSound /\ StopIsSound

\* The portal begins without identities.
LEMMA IdentitiesInitially == IdentitiesInit => IdentitiesInv
<1> SUFFICES ASSUME IdentitiesInit PROVE IdentitiesInv
  OBVIOUS
<1> USE DEF IdentitiesInit
<1>1. PortalTyped
  BY DEF PortalTyped, ConnState, NoConn, Identified, Counted
<1>2. DOMAIN ids = {}
  OBVIOUS
<1>3. QED
  BY <1>1, <1>2 DEF IdentitiesInv, PortalSound, RetirementCutsNothing, OpenIsKnown, ServedIsUp,
     WantedIsServed, StopIsSound, NoConn

(***************************************************************************)
(* The operators of the model.                                             *)
(***************************************************************************)
\* A sequence of which an element is replaced, and one computed from another.
LEMMA SequenceChanges ==
  ASSUME NEW S, NEW s \in Seq(S)
  PROVE  /\ Len(s) \in Nat /\ DOMAIN s = 1..Len(s)
         /\ \A i \in DOMAIN s, x \in S :
               LET t == [s EXCEPT ![i] = x] IN t \in Seq(S) /\ DOMAIN t = DOMAIN s
         /\ \A t : DOMAIN t = DOMAIN s /\ t = [i \in DOMAIN s |-> t[i]]
                     /\ (\A i \in DOMAIN s : t[i] \in S) => t \in Seq(S)
  OBVIOUS

\* How many connections an identity has admitted.
LEMMA CountsAreFinite ==
  ASSUME NEW i
  PROVE  IsFiniteSet(CountedFor(i)) /\ Cardinality(CountedFor(i)) \in Nat
<1>1. CountedFor(i) \subseteq Conns
  BY DEF CountedFor
<1>2. QED
  BY <1>1, FS_Subset, FS_CardinalityType, IdentitiesAssumption

\* An identity nobody counts on has no connections.
LEMMA NoneAreCounted ==
  ASSUME NEW i
  PROVE  Cardinality(CountedFor(i)) = 0 <=> CountedFor(i) = {}
  BY CountsAreFinite, FS_EmptySet

(***************************************************************************)
(* Connections.                                                            *)
(***************************************************************************)
\* A step that changes no identity keeps the portal sound if every identity counts the connections
\* it did, and nobody picks one that is not served.
LEMMA ConnsGoOn ==
  ASSUME PortalSound, UNCHANGED <<ids, wanted, port, curId, previous, retired, expiring>>,
         conns' \in [Conns -> ConnState],
         \A c \in Conns :
            /\ conns'[c].phase \in Counted <=> conns[c].phase \in Counted
            /\ conns[c].phase \in Counted => conns'[c].id = conns[c].id
            /\ conns'[c].phase = "picked" =>
                  \/ conns'[c] = conns[c]
                  \/ conns'[c].id \in DOMAIN ids \cap {curId, previous}
            /\ conns'[c].phase = "hello" => conns'[c] = conns[c] \/ curId # None
  PROVE  PortalSound'
<1>1. PortalTyped'
  BY DEF PortalSound, PortalTyped, Identified
<1>2. \A i : CountedFor(i)' = CountedFor(i)
  BY DEF CountedFor
<1>3. RetirementCutsNothing'
  BY <1>2, Zenon DEF PortalSound, RetirementCutsNothing
<1>4. ServedIsUp'
  BY DEF PortalSound, ServedIsUp
<1>5. WantedIsServed'
  BY Zenon DEF PortalSound, WantedIsServed
<1>6. QED
  BY <1>1, <1>3, <1>4, <1>5, Zenon DEF PortalSound, OpenIsKnown

\* One connection moves on.
LEMMA ConnGoesOn ==
  ASSUME PortalSound, UNCHANGED <<ids, wanted, port, curId, previous, retired, expiring>>,
         NEW c \in Conns, NEW x \in ConnState, conns' = [conns EXCEPT ![c] = x],
         x.phase \in Counted <=> conns[c].phase \in Counted,
         conns[c].phase \in Counted => x.id = conns[c].id,
         x.phase = "picked" => x.id \in DOMAIN ids \cap {curId, previous},
         x.phase = "hello" => curId # None
  PROVE  PortalSound'
<1>1. conns \in [Conns -> ConnState]
  BY Zenon DEF PortalSound, PortalTyped
<1>2. conns' \in [Conns -> ConnState]
  BY <1>1, Zenon
<1>3. \A d \in Conns : conns'[d] = IF d = c THEN x ELSE conns[d]
  BY <1>1, Zenon
<1>4. QED
  BY <1>2, <1>3, ConnsGoOn

\* What Pick returns is served.
LEMMA PickIsServed ==
  ASSUME PortalSound, NEW key, Pick(key) # None
  PROVE  curId # None => Pick(key) \in DOMAIN ids \cap {curId, previous}
  BY DEF Pick, PortalSound, PortalTyped

\* A connection that comes, is routed or masqueraded, goes, or gets on with its session.
LEMMA RoutingKeeps ==
  ASSUME IdentitiesInv, NEW c \in Conns,
         \/ Accept(c) \/ RouteEnds(c) \/ StartSession(c) \/ HandshakeTimesOut(c)
         \/ \E key \in Keys \cup {None} : ReadHello(c, key)
  PROVE  PortalSound'
<1> USE DEF ConnState, Counted
<1>1. conns \in [Conns -> ConnState]
  BY Zenon DEF IdentitiesInv, PortalSound, PortalTyped
<1>2. PortalSound /\ StopIsSound /\ IdentitiesAssumption
  BY IdentitiesAssumption, Zenon DEF IdentitiesInv
<1>3. CASE Accept(c)
  BY <1>1, <1>2, <1>3, ConnGoesOn, Zenon DEF Accept, ConnGoes, ControlUnchanged, StopIsSound
<1>4. CASE RouteEnds(c)
  BY <1>1, <1>2, <1>4, ConnGoesOn, Zenon DEF RouteEnds, Gone, ControlUnchanged
<1>5. CASE StartSession(c)
  BY <1>1, <1>2, <1>5, ConnGoesOn, Zenon DEF StartSession, ConnGoes, ControlUnchanged
<1>6. CASE HandshakeTimesOut(c)
  BY <1>1, <1>2, <1>6, ConnGoesOn, Zenon DEF HandshakeTimesOut, ConnGoes, ControlUnchanged
<1>7. CASE \E key \in Keys \cup {None} : ReadHello(c, key)
  <2> PICK key \in Keys \cup {None} : ReadHello(c, key)
    BY <1>7
  <2>1. curId # None
    BY <1>2 DEF ReadHello, PortalSound, WantedIsServed
  <2>2. CASE Pick(key) = None
    BY <1>1, <1>2, <2>2, ConnGoesOn DEF ReadHello, ConnGoes, ControlUnchanged
  <2>3. CASE Pick(key) # None
    <3>1. Pick(key) \in DOMAIN ids \cap {curId, previous}
      BY <1>2, <2>1, <2>3, PickIsServed
    <3>2. Pick(key) \in Nat
      BY <1>2, <3>1 DEF PortalSound, PortalTyped
    <3>3. QED
      BY <1>1, <1>2, <2>3, <3>1, <3>2, ConnGoesOn DEF ReadHello, ConnGoes, ControlUnchanged
  <2>4. QED
    BY <2>2, <2>3
<1>8. QED
  BY <1>3, <1>4, <1>5, <1>6, <1>7

\* A step of a connection touches neither the listener nor a stop.
LEMMA ControlKeeps == StopIsSound /\ ControlUnchanged => StopIsSound'
  BY DEF ControlUnchanged, StopIsSound

\* One identity changes.
LEMMA IdentityChanges ==
  ASSUME PortalTyped, NEW i \in DOMAIN ids, NEW x \in IdentityState, ids' = [ids EXCEPT ![i] = x]
  PROVE  /\ ids' \in Seq(IdentityState) /\ DOMAIN ids' = DOMAIN ids
         /\ \A j \in DOMAIN ids : ids'[j] = IF j = i THEN x ELSE ids[j]
<1>1. ids \in Seq(IdentityState)
  BY Zenon DEF PortalTyped
<1>2. ids' \in Seq(IdentityState) /\ DOMAIN ids' = DOMAIN ids
  BY <1>1, SequenceChanges, Zenon
<1>3. QED
  BY <1>1, <1>2

\* A connection that one identity has counted, or counts from now on.
LEMMA OneCounts ==
  ASSUME NEW c \in Conns, NEW i, NEW x, conns \in [Conns -> ConnState], x \in ConnState,
         conns' = [conns EXCEPT ![c] = x]
  PROVE  /\ conns[c].phase \notin Counted /\ x.phase \in Counted /\ x.id = i =>
               /\ Cardinality(CountedFor(i))' = Cardinality(CountedFor(i)) + 1
               /\ \A j : j # i => CountedFor(j)' = CountedFor(j)
         /\ conns[c].phase \in Counted /\ conns[c].id = i /\ x.phase \notin Counted =>
               /\ Cardinality(CountedFor(i))' = Cardinality(CountedFor(i)) - 1
               /\ Cardinality(CountedFor(i)) > 0
               /\ \A j : j # i => CountedFor(j)' = CountedFor(j)
<1>1. \A d \in Conns : conns'[d] = IF d = c THEN x ELSE conns[d]
  BY Zenon
<1>2. ASSUME conns[c].phase \notin Counted, x.phase \in Counted, x.id = i
      PROVE  /\ Cardinality(CountedFor(i))' = Cardinality(CountedFor(i)) + 1
             /\ \A j : j # i => CountedFor(j)' = CountedFor(j)
  <2>1. c \notin CountedFor(i) /\ CountedFor(i)' = CountedFor(i) \cup {c}
    BY <1>1, <1>2 DEF CountedFor
  <2>2. \A j : j # i => CountedFor(j)' = CountedFor(j)
    BY <1>1, <1>2 DEF CountedFor
  <2>3. QED
    BY <2>1, <2>2, CountsAreFinite, FS_AddElement, SMTT(30)
<1>3. ASSUME conns[c].phase \in Counted, conns[c].id = i, x.phase \notin Counted
      PROVE  /\ Cardinality(CountedFor(i))' = Cardinality(CountedFor(i)) - 1
             /\ Cardinality(CountedFor(i)) > 0
             /\ \A j : j # i => CountedFor(j)' = CountedFor(j)
  <2>1. c \in CountedFor(i) /\ CountedFor(i)' = CountedFor(i) \ {c}
    BY <1>1, <1>3 DEF CountedFor
  <2>2. \A j : j # i => CountedFor(j)' = CountedFor(j)
    BY <1>1, <1>3 DEF CountedFor
  <2>3. Cardinality(CountedFor(i)) \in Nat /\ Cardinality(CountedFor(i)) # 0
    BY <2>1, CountsAreFinite, NoneAreCounted
  <2>4. Cardinality(CountedFor(i) \ {c}) = Cardinality(CountedFor(i)) - 1
    BY <2>1, CountsAreFinite, FS_RemoveElement, Zenon
  <2>5. QED
    BY <2>1, <2>2, <2>3, <2>4
<1>4. QED
  BY <1>2, <1>3

\* admit: only an identity that is served takes a connection.
LEMMA AdmitKeeps ==
  ASSUME IdentitiesInv, NEW c \in Conns, Admit(c)
  PROVE  /\ PortalSound'
         /\ conns'[c].phase = "admitted" => conns[c].id \in {curId, previous}
<1>1. PortalTyped /\ RetirementCutsNothing /\ OpenIsKnown /\ ServedIsUp /\ WantedIsServed
  BY Zenon DEF IdentitiesInv, PortalSound
<1> PICK i \in DOMAIN ids : i = conns[c].id
  BY <1>1 DEF Admit, PortalTyped, Identified
<1>2. conns \in [Conns -> ConnState] /\ conns[c].phase = "picked"
  BY <1>1 DEF Admit, PortalTyped
<1>3. UNCHANGED <<wanted, port, curId, previous, retired, expiring>>
  BY DEF Admit, ControlUnchanged
<1>4. CASE ids[i].retired
  <2>1. conns' = [conns EXCEPT ![c] = Gone] /\ ids' = ids
    BY <1>4 DEF Admit
  <2>2. Gone \in ConnState /\ Gone.phase = "gone"
    BY DEF Gone, ConnState
  <2>3. PortalSound'
    BY <1>2, <1>3, <2>1, <2>2, ConnGoesOn, Zenon DEF IdentitiesInv, Counted
  <2>4. QED
    BY <1>2, <2>1, <2>2, <2>3
<1>5. CASE ~ids[i].retired
  <2> DEFINE x == [ids[i] EXCEPT !.live = ids[i].live + 1]
             y == [phase |-> "admitted", id |-> i]
  <2>1. ids[i] \in IdentityState /\ i \in Nat
    BY <1>1, <1>2 DEF PortalTyped
  <2>2. /\ x \in IdentityState /\ x.live = ids[i].live + 1 /\ x.key = ids[i].key
        /\ x.retired = ids[i].retired /\ x.closing = ids[i].closing /\ x.closed = ids[i].closed
    BY <2>1 DEF IdentityState
  <2>3. ids' = [ids EXCEPT ![i] = x] /\ conns' = [conns EXCEPT ![c] = y]
    BY <1>5 DEF Admit, ConnGoes
  <2>4. y \in ConnState /\ y.phase \in Counted /\ y.phase = "admitted" /\ y.id = i
    BY <2>1 DEF ConnState, Counted
  <2> HIDE DEF x, y
  <2>5. /\ ids' \in Seq(IdentityState) /\ DOMAIN ids' = DOMAIN ids
        /\ \A j \in DOMAIN ids : ids'[j] = IF j = i THEN x ELSE ids[j]
    BY <1>1, <1>2, <2>2, <2>3, IdentityChanges, Zenon
  <2>6. conns' \in [Conns -> ConnState] /\ \A d \in Conns : conns'[d] = IF d = c THEN y ELSE conns[d]
    BY <1>2, <2>3, <2>4, Zenon
  <2>7. /\ Cardinality(CountedFor(i))' = Cardinality(CountedFor(i)) + 1
        /\ \A j : j # i => CountedFor(j)' = CountedFor(j)
    <3>1. conns[c].phase \notin Counted
      BY <1>2 DEF Counted
    <3>2. QED
      BY <1>2, <2>3, <2>4, <3>1, OneCounts, Zenon
  <2>8. ~ids[i].closed /\ ~ids[i].closing
    BY <1>1, <1>2, <1>5 DEF ServedIsUp
  <2>9. i \in {curId, previous}
    BY <1>1, <1>2, <1>5, <2>8 DEF OpenIsKnown
  <2>10. PortalTyped'
    BY <1>1, <1>2, <1>3, <2>5, <2>6, <2>4 DEF PortalTyped
  <2>11. RetirementCutsNothing'
    <3> SUFFICES ASSUME NEW j \in DOMAIN ids'
                 PROVE  /\ ids'[j].live = Cardinality(CountedFor(j))'
                        /\ ids'[j].closed \/ ids'[j].closing => ids'[j].live = 0
      BY Zenon DEF RetirementCutsNothing
    <3>1. j \in DOMAIN ids /\ ids[j].live = Cardinality(CountedFor(j))
      BY <1>1, <2>5, Zenon DEF RetirementCutsNothing
    <3>2. CASE j = i
      BY <2>2, <2>5, <2>7, <2>8, <3>1, <3>2
    <3>3. CASE j # i
      BY <1>1, <2>5, <2>7, <3>1, <3>3 DEF RetirementCutsNothing
    <3>4. QED
      BY <3>2, <3>3
  <2>12. OpenIsKnown'
    BY <1>1, <1>3, <1>5, <2>2, <2>5, <2>8 DEF OpenIsKnown
  <2>13. ServedIsUp'
    BY <1>1, <1>2, <1>3, <2>2, <2>4, <2>5, <2>6, SMTT(30) DEF ServedIsUp, PortalTyped, Identified
  <2>14. WantedIsServed'
    BY <1>1, <1>3, <2>2, <2>4, <2>5, <2>6 DEF WantedIsServed, PortalTyped
  <2>15. QED
    BY <2>9, <2>10, <2>11, <2>12, <2>13, <2>14 DEF PortalSound
<1>6. QED
  BY <1>4, <1>5

\* release: a connection that was counted goes, and the last one of a retired identity sets off
\* its close.
LEMMA ReleaseKeeps ==
  ASSUME IdentitiesInv, NEW c \in Conns, conns[c].phase \in Counted,
         conns' = [conns EXCEPT ![c] = Gone], ids' = Released(conns[c].id),
         UNCHANGED <<wanted, port, curId, previous, retired, expiring>>
  PROVE  PortalSound'
<1>1. PortalTyped /\ RetirementCutsNothing /\ OpenIsKnown /\ ServedIsUp /\ WantedIsServed
  BY Zenon DEF IdentitiesInv, PortalSound
<1> PICK i \in DOMAIN ids : i = conns[c].id
  BY <1>1 DEF PortalTyped, Identified
<1>2. conns \in [Conns -> ConnState] /\ ids[i] \in IdentityState
  BY <1>1 DEF PortalTyped
<1>3. Gone \in ConnState /\ Gone.phase = "gone" /\ Gone.phase \notin Counted
  BY DEF Gone, ConnState, Counted
<1>4. /\ Cardinality(CountedFor(i))' = Cardinality(CountedFor(i)) - 1
      /\ Cardinality(CountedFor(i)) > 0
      /\ \A j : j # i => CountedFor(j)' = CountedFor(j)
  BY <1>2, <1>3, OneCounts, Zenon
<1>5. ids[i].live = Cardinality(CountedFor(i)) /\ ~ids[i].closed /\ ~ids[i].closing
  BY <1>1, <1>4 DEF RetirementCutsNothing
<1> DEFINE x == [ids[i] EXCEPT !.live = ids[i].live - 1,
                               !.closing = ids[i].closing \/ (ids[i].retired /\ ids[i].live = 1)]
<1>6. /\ x \in IdentityState /\ x.live = ids[i].live - 1 /\ x.key = ids[i].key
      /\ x.retired = ids[i].retired /\ x.closed = ids[i].closed
      /\ x.closing <=> ids[i].retired /\ ids[i].live = 1
  <2>1. ids[i].live - 1 \in Nat
    BY <1>2, <1>4, <1>5 DEF IdentityState
  <2>2. QED
    BY <1>2, <1>5, <2>1, Zenon DEF IdentityState
<1>7. ids' = [ids EXCEPT ![i] = x]
  BY Zenon DEF Released
<1> HIDE DEF x
<1>8. /\ ids' \in Seq(IdentityState) /\ DOMAIN ids' = DOMAIN ids
      /\ \A j \in DOMAIN ids : ids'[j] = IF j = i THEN x ELSE ids[j]
  BY <1>1, <1>6, <1>7, IdentityChanges, Zenon
<1>9. conns' \in [Conns -> ConnState] /\ \A d \in Conns : conns'[d] = IF d = c THEN Gone ELSE conns[d]
  BY <1>2, <1>3, Zenon
<1>10. PortalTyped'
  BY <1>1, <1>3, <1>8, <1>9 DEF PortalTyped, Identified
<1>11. RetirementCutsNothing'
  <2> SUFFICES ASSUME NEW j \in DOMAIN ids'
               PROVE  /\ ids'[j].live = Cardinality(CountedFor(j))'
                      /\ ids'[j].closed \/ ids'[j].closing => ids'[j].live = 0
    BY Zenon DEF RetirementCutsNothing
  <2>1. j \in DOMAIN ids /\ ids[j].live = Cardinality(CountedFor(j))
    BY <1>1, <1>8, Zenon DEF RetirementCutsNothing
  <2>2. CASE j = i
    BY <1>4, <1>5, <1>6, <1>8, <2>1, <2>2
  <2>3. CASE j # i
    BY <1>1, <1>4, <1>8, <2>1, <2>3, SMTT(30) DEF RetirementCutsNothing
  <2>4. QED
    BY <2>2, <2>3
<1>12. OpenIsKnown'
  BY <1>1, <1>4, <1>5, <1>6, <1>8, CountsAreFinite, SMTT(30) DEF OpenIsKnown
<1>13. ServedIsUp'
  BY <1>1, <1>2, <1>3, <1>6, <1>8, <1>9 DEF ServedIsUp, PortalTyped, Identified
<1>14. WantedIsServed'
  BY <1>1, <1>3, <1>6, <1>8, <1>9 DEF WantedIsServed, PortalTyped
<1>15. QED
  BY <1>10, <1>11, <1>12, <1>13, <1>14, Zenon DEF PortalSound

\* Handing a connection over, and the end of one.
LEMMA DeliverKeeps ==
  ASSUME IdentitiesInv, NEW c \in Conns, Deliver(c) \/ ConnCloses(c)
  PROVE  PortalSound'
<1>1. UNCHANGED <<wanted, port, curId, previous, retired, expiring>>
  BY DEF Deliver, ConnCloses, ControlUnchanged
<1>2. CASE conns' = [conns EXCEPT ![c] = Gone] /\ ids' = Released(conns[c].id)
  BY <1>1, <1>2, ReleaseKeeps, Zenon DEF Deliver, ConnCloses, Counted
<1>3. CASE Deliver(c) /\ ConnGoes(c, "handshake", conns[c].id) /\ ids' = ids
  <2> DEFINE x == [phase |-> "handshake", id |-> conns[c].id]
  <2>1. conns \in [Conns -> ConnState] /\ PortalSound
    BY Zenon DEF IdentitiesInv, PortalSound, PortalTyped
  <2>2. x \in ConnState /\ x.phase = "handshake" /\ x.id = conns[c].id
    BY <2>1 DEF ConnState
  <2>3. conns' = [conns EXCEPT ![c] = x] /\ conns[c].phase = "admitted"
    BY <1>3, Zenon DEF ConnGoes, Deliver
  <2> HIDE DEF x
  <2>4. QED
    BY <1>1, <1>3, <2>1, <2>2, <2>3, ConnGoesOn, Zenon DEF Counted
<1>4. QED
  BY <1>2, <1>3 DEF Deliver, ConnCloses

\* What close makes of an identity that counts nobody.
LEMMA IdentityEnds ==
  ASSUME NEW r \in IdentityState, NEW x, x = [r EXCEPT !.closed = TRUE, !.closing = FALSE, !.live = 0]
  PROVE  /\ x \in IdentityState /\ x.live = 0 /\ x.key = r.key
         /\ x.retired = r.retired /\ x.closed /\ ~x.closing
  BY ZenonT(40) DEF IdentityState

\* close of an identity that has no connections left: nothing is cut off.
LEMMA IdentityClosesKeeps ==
  ASSUME IdentitiesInv, NEW i, IdentityCloses(i)
  PROVE  PortalSound'
<1>1. PortalTyped /\ RetirementCutsNothing /\ OpenIsKnown /\ ServedIsUp /\ WantedIsServed
  BY Zenon DEF IdentitiesInv, PortalSound
<1>2. /\ i \in DOMAIN ids /\ ids[i].closing /\ conns \in [Conns -> ConnState]
      /\ UNCHANGED <<wanted, port, curId, previous, retired, expiring>>
  BY <1>1 DEF IdentityCloses, PortalTyped, ControlUnchanged
<1>3. ids[i].live = 0 /\ ids[i].retired /\ CountedFor(i) = {}
  BY <1>1, <1>2, NoneAreCounted DEF RetirementCutsNothing, ServedIsUp
<1>4. conns' = conns
  <2>1. \A c \in Conns : conns[c].phase \in {"handshake", "session", "cut"} => conns[c].id # i
    BY <1>3 DEF CountedFor, Counted
  <2>2. \A c \in Conns : Ended({i})[c] = conns[c]
    BY <2>1, Zenon DEF Ended
  <2>3. Ended({i}) = conns
    BY <1>2, <2>2, Zenon DEF Ended
  <2>4. QED
    BY <2>3, Zenon DEF IdentityCloses
<1> DEFINE x == [ids[i] EXCEPT !.closed = TRUE, !.closing = FALSE, !.live = 0]
<1>5. /\ x \in IdentityState /\ x.live = 0 /\ x.key = ids[i].key
      /\ x.retired = ids[i].retired /\ x.closed /\ ~x.closing
  <2>1. ids[i] \in IdentityState
    BY <1>1, <1>2 DEF PortalTyped
  <2>2. QED
    BY <2>1, IdentityEnds, Zenon
<1>6. ids' = [ids EXCEPT ![i] = x]
  <2>1. Cardinality({c \in CountedFor(i) : conns[c].phase # "admitted"}) = 0
    BY <1>3, FS_EmptySet
  <2>2. ClosedIds({i}) = [j \in DOMAIN ids |-> IF j = i THEN x ELSE ids[j]]
    <3>1. \A j \in {i} : ids[j].live - Cardinality({c \in CountedFor(j) :
                                                       conns[c].phase # "admitted"}) = 0
      BY <1>3, <2>1
    <3>2. QED
      BY <3>1, Zenon DEF ClosedIds
  <2>3. [ids EXCEPT ![i] = x] = [j \in DOMAIN ids |-> IF j = i THEN x ELSE ids[j]]
    BY <1>1 DEF PortalTyped
  <2>4. QED
    BY <2>2, <2>3, Zenon DEF IdentityCloses
<1> HIDE DEF x
<1>7. /\ ids' \in Seq(IdentityState) /\ DOMAIN ids' = DOMAIN ids
      /\ \A j \in DOMAIN ids : ids'[j] = IF j = i THEN x ELSE ids[j]
  BY <1>1, <1>2, <1>5, <1>6, IdentityChanges, Zenon
<1>8. \A j : CountedFor(j)' = CountedFor(j)
  BY <1>4, Zenon DEF CountedFor
<1>9. PortalTyped'
  BY <1>1, <1>2, <1>4, <1>7, Zenon DEF PortalTyped
<1>10. RetirementCutsNothing'
  BY <1>1, <1>3, <1>5, <1>7, <1>8 DEF RetirementCutsNothing
<1>11. OpenIsKnown' /\ ServedIsUp'
  BY <1>1, <1>2, <1>3, <1>4, <1>5, <1>7, Zenon DEF OpenIsKnown, ServedIsUp, PortalTyped, Identified
<1>12. WantedIsServed'
  BY <1>1, <1>2, <1>4, <1>5, <1>7 DEF WantedIsServed, PortalTyped
<1>13. QED
  BY <1>9, <1>10, <1>11, <1>12, Zenon DEF PortalSound

(***************************************************************************)
(* Configure, Rebind, expire and Close.                                    *)
(***************************************************************************)
\* What newIdentity makes.
LEMMA IdentityBegins ==
  ASSUME NEW key
  PROVE  /\ Identity(key).key = key /\ Identity(key).live = 0
         /\ ~Identity(key).retired /\ ~Identity(key).closed /\ ~Identity(key).closing
  BY DEF Identity

\* What newIdentity appends.
LEMMA IdentitiesStart ==
  ASSUME NEW known \in Seq(IdentityState), NEW keys \in Seq(Keys)
  PROVE  /\ Started(known, keys) \in Seq(IdentityState)
         /\ Len(Started(known, keys)) = Len(known) + Len(keys)
         /\ DOMAIN Started(known, keys) = 1..(Len(known) + Len(keys))
         /\ DOMAIN known = 1..Len(known)
         /\ \A i \in DOMAIN known : Started(known, keys)[i] = known[i]
         /\ \A n \in 1..Len(keys) : Started(known, keys)[Len(known) + n] = Identity(keys[n])
<1> DEFINE new == [n \in 1..Len(keys) |-> Identity(keys[n])]
<1>1. \A n \in 1..Len(keys) : Identity(keys[n]) \in IdentityState
  BY DEF Identity, IdentityState
<1>2. new \in Seq(IdentityState) /\ Len(new) = Len(keys)
  BY <1>1
<1>3. \A n \in 1..Len(keys) : new[n] = Identity(keys[n])
  OBVIOUS
<1> HIDE DEF new
<1>4. QED
  BY <1>2, <1>3 DEF Started, new

\* What retire leaves of the identities.
LEMMA IdentitiesRetire ==
  ASSUME NEW known \in Seq(IdentityState), NEW which
  PROVE  /\ Retire(known, which) \in Seq(IdentityState)
         /\ DOMAIN Retire(known, which) = DOMAIN known
         /\ \A i \in DOMAIN known :
               LET x == Retire(known, which)[i]
               IN IF i \in which
                  THEN /\ x.key = known[i].key /\ x.live = known[i].live /\ x.closing = known[i].closing
                       /\ x.retired /\ (x.closed <=> known[i].closed \/ known[i].live = 0)
                  ELSE x = known[i]
<1> DEFINE new == Retire(known, which)
<1>1. DOMAIN new = DOMAIN known /\ new = [i \in DOMAIN known |-> new[i]]
  BY Zenon DEF Retire
<1>2. ASSUME NEW i \in DOMAIN known
      PROVE  /\ new[i] \in IdentityState
             /\ IF i \in which
                THEN /\ new[i].key = known[i].key /\ new[i].live = known[i].live
                     /\ new[i].closing = known[i].closing
                     /\ new[i].retired /\ (new[i].closed <=> known[i].closed \/ known[i].live = 0)
                ELSE new[i] = known[i]
  <2>1. known[i] \in IdentityState
    OBVIOUS
  <2>2. new[i] = IF i \in which
                 THEN [known[i] EXCEPT !.retired = TRUE,
                                       !.closed = known[i].closed \/ known[i].live = 0]
                 ELSE known[i]
    BY Zenon DEF Retire
  <2> HIDE DEF new
  <2>3. QED
    BY <2>1, <2>2, Zenon DEF IdentityState
<1> HIDE DEF new
<1>3. new \in Seq(IdentityState)
  BY <1>1, <1>2, SequenceChanges, Zenon
<1>4. QED
  BY <1>1, <1>2, <1>3 DEF new

\* The keys an identity has to be started for, each once.
LEMMA FreshKeys ==
  ASSUME NEW cfg \in Configs
  PROVE  LET new == Fresh(cfg.key) \o Fresh(cfg.previous)
         IN /\ new \in Seq(Keys)
            /\ \A n \in 1..Len(new) :
                  new[n] \in {cfg.key, cfg.previous} /\ new[n] # None /\ HeldFor(new[n]) = {}
            /\ \A n, m \in 1..Len(new) : new[n] = new[m] => n = m
            /\ \A key \in {cfg.key, cfg.previous} :
                  key # None /\ HeldFor(key) = {} => \E n \in 1..Len(new) : new[n] = key
<1> DEFINE k == cfg.key
           p == cfg.previous
           new == Fresh(k) \o Fresh(p)
<1>1. k \in Keys /\ p \in Keys \cup {None} /\ p # k /\ k # None
  BY IdentitiesAssumption DEF Configs, Config
<1> HIDE DEF k, p
<1>2. CASE HeldFor(k) # {} /\ (p = None \/ HeldFor(p) # {})
  <2>1. new = <<>>
    BY <1>2 DEF Fresh
  <2>2. QED
    BY <1>1, <1>2, <2>1 DEF k, p
<1>3. CASE HeldFor(k) = {} /\ (p = None \/ HeldFor(p) # {})
  <2>1. Fresh(k) = <<k>> /\ Fresh(p) = <<>>
    BY <1>1, <1>3, Zenon DEF Fresh
  <2>2. new \in Seq(Keys) /\ Len(new) = 1 /\ new[1] = k
    BY <1>1, <2>1
  <2> HIDE DEF new
  <2>3. QED
    BY <1>1, <1>3, <2>2 DEF k, p, new
<1>4. CASE HeldFor(k) # {} /\ p # None /\ HeldFor(p) = {}
  <2>1. new = <<p>>
    BY <1>1, <1>4 DEF Fresh
  <2>2. QED
    BY <1>1, <1>4, <2>1 DEF k, p
<1>5. CASE HeldFor(k) = {} /\ p # None /\ HeldFor(p) = {}
  <2>1. Fresh(k) = <<k>> /\ Fresh(p) = <<p>>
    BY <1>1, <1>5, Zenon DEF Fresh
  <2>2. new \in Seq(Keys) /\ Len(new) = 2 /\ new[1] = k /\ new[2] = p
    BY <1>1, <1>5, <2>1
  <2> HIDE DEF new
  <2>3. QED
    BY <1>1, <1>5, <2>2 DEF k, p, new
<1>6. QED
  BY <1>2, <1>3, <1>4, <1>5, Zenon

\* reidentifyLocked: what the configuration names is up, kept or started anew, and of the others
\* those with connections are remembered.
LEMMA ReidentifyKeeps ==
  ASSUME IdentitiesInv, NEW cfg \in Configs, curId # None, CanBind(cfg, port), Reidentify(cfg),
         expiring' = expiring
  PROVE  /\ PortalSound' /\ curId' # None
         /\ previous # None /\ previous' = None => wanted' # wanted
<1> DEFINE new == Fresh(cfg.key) \o Fresh(cfg.previous)
           known == Started(ids, new)
           added == DOMAIN known \ DOMAIN ids
           named(key) == CHOOSE i \in HeldFor(key) \cup added : known[i].key = key
           cur == named(cfg.key)
           prev == IF cfg.previous = None THEN None ELSE named(cfg.previous)
           left == {curId, previous} \ {None, cur, prev}
<1>1. PortalTyped /\ RetirementCutsNothing /\ OpenIsKnown /\ ServedIsUp /\ WantedIsServed
  BY Zenon DEF IdentitiesInv, PortalSound
<1>2. /\ ids' = Retire(known, left)
      /\ curId' = cur /\ previous' = prev /\ wanted' = cfg
      /\ retired' = {i \in retired \cup left : ~ids'[i].closed}
      /\ UNCHANGED <<port, listener, conns, pending>>
  BY Zenon DEF Reidentify, StillOpen
<1>3. /\ new \in Seq(Keys)
      /\ \A n \in 1..Len(new) :
            new[n] \in {cfg.key, cfg.previous} /\ new[n] # None /\ HeldFor(new[n]) = {}
      /\ \A n, m \in 1..Len(new) : new[n] = new[m] => n = m
      /\ \A key \in {cfg.key, cfg.previous} :
            key # None /\ HeldFor(key) = {} => \E n \in 1..Len(new) : new[n] = key
  BY FreshKeys, Zenon
<1>4. ids \in Seq(IdentityState) /\ Len(ids) \in Nat /\ Len(new) \in Nat
  BY <1>1, <1>3 DEF PortalTyped
<1> HIDE DEF new
<1>5. /\ known \in Seq(IdentityState)
      /\ DOMAIN known = 1..(Len(ids) + Len(new)) /\ DOMAIN ids = 1..Len(ids)
      /\ \A i \in DOMAIN ids : known[i] = ids[i]
      /\ \A n \in 1..Len(new) : known[Len(ids) + n] = Identity(new[n])
  BY <1>3, <1>4, IdentitiesStart, Zenon
<1> HIDE DEF known
<1>6. \A i \in added :
        /\ \E n \in 1..Len(new) : i = Len(ids) + n /\ known[i].key = new[n]
        /\ ~known[i].retired /\ ~known[i].closed /\ ~known[i].closing /\ known[i].live = 0
  <2> SUFFICES ASSUME NEW i \in added
               PROVE  /\ \E n \in 1..Len(new) : i = Len(ids) + n /\ known[i].key = new[n]
                      /\ ~known[i].retired /\ ~known[i].closed /\ ~known[i].closing
                      /\ known[i].live = 0
    OBVIOUS
  <2>1. PICK n \in 1..Len(new) : i = Len(ids) + n
    <3>1. i - Len(ids) \in 1..Len(new) /\ i = Len(ids) + (i - Len(ids))
      BY <1>4, <1>5
    <3>2. QED
      BY <3>1
  <2>2. known[i] = Identity(new[n])
    BY <1>5, <2>1, Zenon
  <2>3. QED
    BY <2>1, <2>2, IdentityBegins, ZenonT(40)
<1>7. /\ \A n \in 1..Len(new) : Len(ids) + n \in added
      /\ DOMAIN known = DOMAIN ids \cup added /\ DOMAIN known \subseteq Nat /\ None \notin DOMAIN known
  BY <1>4, <1>5, IdentitiesAssumption
<1> HIDE DEF added
<1>8. \A i \in added :
        /\ ~known[i].retired /\ ~known[i].closed /\ ~known[i].closing /\ known[i].live = 0
        /\ known[i].key \in {cfg.key, cfg.previous} /\ known[i].key # None
        /\ HeldFor(known[i].key) = {}
  BY <1>3, <1>6, ZenonT(40)
<1>9. \A i, j \in added : known[i].key = known[j].key => i = j
  BY <1>3, <1>6, SMTT(30)
<1>10. \A key : HeldFor(key) \subseteq DOMAIN ids \cap {curId, previous}
                 /\ \A i \in HeldFor(key) : ids[i].key = key
  BY <1>1 DEF HeldFor, PortalTyped
<1>11. ASSUME NEW key \in {cfg.key, cfg.previous}, key # None
       PROVE  /\ named(key) \in HeldFor(key) \cup added /\ known[named(key)].key = key
              /\ \A i \in added : known[i].key = key => i = named(key)
  <2>1. \E i \in HeldFor(key) \cup added : known[i].key = key
    <3>1. CASE HeldFor(key) # {}
      BY <1>5, <1>10, <3>1
    <3>2. CASE HeldFor(key) = {}
      <4>1. PICK n \in 1..Len(new) : new[n] = key
        BY <1>3, <1>11, <3>2
      <4>2. Len(ids) + n \in added /\ known[Len(ids) + n].key = key
        BY <1>5, <1>7, <4>1, IdentityBegins, Zenon
      <4>3. QED
        BY <4>2
    <3>3. QED
      BY <3>1, <3>2
  <2>2. named(key) \in HeldFor(key) \cup added /\ known[named(key)].key = key
    BY <2>1, Zenon
  <2> HIDE DEF named
  <2>3. QED
    BY <1>8, <1>9, <2>2
<1>12. cfg.key # None /\ cfg.key # cfg.previous
  BY IdentitiesAssumption DEF Configs, Config
<1> HIDE DEF named
<1>13. /\ cur \in DOMAIN known /\ known[cur].key = cfg.key /\ cur \in {curId, previous} \cup added
       /\ prev # None <=> cfg.previous # None
       /\ prev # None => prev \in DOMAIN known /\ known[prev].key = cfg.previous
                           /\ prev \in {curId, previous} \cup added
       /\ added \subseteq {cur, prev}
  <2>1. /\ cur \in HeldFor(cfg.key) \cup added /\ known[cur].key = cfg.key
        /\ \A i \in added : known[i].key = cfg.key => i = cur
    BY <1>11, <1>12
  <2>2. cfg.previous # None =>
          /\ prev \in HeldFor(cfg.previous) \cup added /\ known[prev].key = cfg.previous
          /\ \A i \in added : known[i].key = cfg.previous => i = prev
    BY <1>11
  <2>3. cfg.previous = None => prev = None
    OBVIOUS
  <2> HIDE DEF cur, prev
  <2>4. QED
    BY <1>7, <1>8, <1>10, <2>1, <2>2, <2>3, SMTT(30)
<1> HIDE DEF cur, prev
<1>14. /\ left \subseteq DOMAIN ids \cap {curId, previous} /\ cur \notin left /\ prev \notin left
       /\ \A i \in DOMAIN ids \cap {curId, previous} : i \in left \cup {cur, prev}
  BY <1>1, <1>7 DEF PortalTyped
<1> HIDE DEF left
<1>15. /\ ids' \in Seq(IdentityState) /\ DOMAIN ids' = DOMAIN known
       /\ \A i \in DOMAIN known :
             IF i \in left
             THEN /\ ids'[i].key = known[i].key /\ ids'[i].live = known[i].live
                  /\ ids'[i].closing = known[i].closing
                  /\ ids'[i].retired /\ (ids'[i].closed <=> known[i].closed \/ known[i].live = 0)
             ELSE ids'[i] = known[i]
  BY <1>2, <1>5, IdentitiesRetire
<1>16. \A i \in DOMAIN ids \cap {curId, previous} :
          ~ids[i].retired /\ ~ids[i].closed /\ ~ids[i].closing /\ i \notin retired
  BY <1>1 DEF ServedIsUp, OpenIsKnown
<1>17. \A i : CountedFor(i)' = CountedFor(i)
  BY <1>2, Zenon DEF CountedFor
<1>18. retired \subseteq DOMAIN ids /\ conns \in [Conns -> ConnState]
       /\ \A c \in Conns : conns[c].phase \in Identified => conns[c].id \in DOMAIN ids
  BY <1>1, Zenon DEF PortalTyped
<1>19. PortalTyped'
  <2>1. retired' \subseteq DOMAIN ids'
    BY <1>2, <1>7, <1>14, <1>15, <1>18
  <2>2. \A c \in Conns : conns'[c].phase \in Identified => conns'[c].id \in DOMAIN ids'
    BY <1>2, <1>7, <1>15, <1>18
  <2>3. None \notin expiring'
    BY <1>1, Zenon DEF PortalTyped
  <2>4. curId' \in DOMAIN ids' \cup {None} /\ previous' \in DOMAIN ids' \cup {None}
    BY <1>2, <1>13, <1>15, SMTT(30)
  <2>5. QED
    BY <1>2, <1>15, <1>18, <2>1, <2>2, <2>3, <2>4, ZenonT(40) DEF PortalTyped
<1>20. RetirementCutsNothing'
  <2> SUFFICES ASSUME NEW i \in DOMAIN known
               PROVE  /\ ids'[i].live = Cardinality(CountedFor(i))
                      /\ ids'[i].closed \/ ids'[i].closing => ids'[i].live = 0
    BY <1>15, <1>17, Zenon DEF RetirementCutsNothing
  <2>1. CASE i \in DOMAIN ids
    BY <1>1, <1>5, <1>14, <1>15, <1>16, <2>1, SMTT(30) DEF RetirementCutsNothing
  <2>2. CASE i \in added
    <3>1. CountedFor(i) = {}
      BY <1>18, <2>2 DEF CountedFor, Identified, added
    <3>2. Cardinality(CountedFor(i)) = 0
      BY <3>1, NoneAreCounted
    <3>3. i \notin left
      BY <1>14, <2>2 DEF added
    <3>4. QED
      BY <1>8, <1>15, <2>2, <3>2, <3>3, SMTT(30)
  <2>3. QED
    BY <1>7, <2>1, <2>2
<1>21. OpenIsKnown'
  <2> SUFFICES ASSUME NEW i \in DOMAIN known, ~ids'[i].closed
               PROVE  /\ curId' # None
                      /\ i \in {curId', previous'} \cup retired'
                      /\ ids'[i].retired <=> i \in retired'
                      /\ ids'[i].retired /\ ids'[i].live = 0 => ids'[i].closing
    BY <1>15, Zenon DEF OpenIsKnown
  <2>1. curId' # None
    BY <1>2, <1>7, <1>13, SMTT(30)
  <2>2. CASE i \in left
    BY <1>2, <1>15, <2>1, <2>2
  <2>3. CASE i \notin left /\ i \in added
    <3>1. i \notin retired /\ ~ids'[i].retired /\ i \in {cur, prev}
      BY <1>8, <1>13, <1>15, <1>18, <2>3, SMTT(30) DEF added
    <3>2. QED
      BY <1>2, <2>1, <2>3, <3>1, SMTT(30)
  <2>4. CASE i \notin left /\ i \in DOMAIN ids
    <3>1. ids'[i] = ids[i]
      BY <1>5, <1>15, <2>4
    <3>2. /\ i \in {curId, previous} \cup retired
          /\ ids[i].retired <=> i \in retired
          /\ ids[i].retired /\ ids[i].live = 0 => ids[i].closing
      BY <1>1, <2>4, <3>1 DEF OpenIsKnown
    <3>3. i \in retired' <=> i \in retired
      BY <1>2, <2>4
    <3>4. i \in {curId, previous} => i \in {cur, prev}
      BY <1>14, <2>4
    <3>5. QED
      BY <1>2, <2>1, <3>1, <3>2, <3>3, <3>4, SMTT(30)
  <2>5. QED
    BY <1>7, <2>2, <2>3, <2>4
<1>22. ServedIsUp'
  <2>1. \A i \in DOMAIN ids' : i \in {curId', previous'} => ~ids'[i].retired /\ ~ids'[i].closed
    <3> SUFFICES ASSUME NEW i \in DOMAIN known, i \in {cur, prev}
                 PROVE  ~ids'[i].retired /\ ~ids'[i].closed
      BY <1>2, <1>15, Zenon
    <3>1. ids'[i] = known[i]
      BY <1>14, <1>15
    <3>2. CASE i \in added
      BY <1>8, <3>1, <3>2, Zenon
    <3>3. CASE i \notin added
      <4>1. i \in DOMAIN ids /\ i \in {curId, previous}
        BY <1>7, <1>13, <3>3
      <4>2. QED
        BY <1>5, <1>16, <3>1, <4>1, SMTT(30)
    <3>4. QED
      BY <3>2, <3>3
  <2>2. \A i \in DOMAIN ids' : ids'[i].closing => ids'[i].retired
    <3> SUFFICES ASSUME NEW i \in DOMAIN known, ids'[i].closing PROVE ids'[i].retired
      BY <1>15, Zenon
    <3>1. CASE i \in left
      BY <1>15, <3>1
    <3>2. CASE i \notin left
      <4>1. ids'[i] = known[i]
        BY <1>15, <3>2
      <4>2. i \in DOMAIN ids /\ known[i] = ids[i]
        BY <1>5, <1>7, <1>8, <4>1, ZenonT(40)
      <4>3. QED
        BY <1>1, <4>1, <4>2 DEF ServedIsUp
    <3>3. QED
      BY <3>1, <3>2
  <2>3. \A c \in Conns : conns'[c].phase = "picked" /\ ids'[conns'[c].id].closed
                             => ids'[conns'[c].id].retired
    BY <1>1, <1>2, <1>5, <1>7, <1>15, <1>18, SMTT(30) DEF ServedIsUp, Identified
  <2>4. QED
    BY <2>1, <2>2, <2>3, Zenon DEF ServedIsUp
<1>23. ids'[cur].key = cfg.key /\ (prev # None => ids'[prev].key = cfg.previous) /\ cur # None
  BY <1>7, <1>13, <1>14, <1>15, SMTT(30)
<1>24. WantedIsServed'
  <2>1. wanted' # None
    BY <1>2, IdentitiesAssumption
  <2>2. QED
    BY <1>2, <1>23, <2>1 DEF WantedIsServed, CanBind
<1>25. ASSUME previous # None, prev = None PROVE cfg # wanted
  <2>1. cfg.previous = None
    BY <1>13, <1>25
  <2>2. previous \in DOMAIN ids /\ ids[previous].key = wanted.previous
    BY <1>1, <1>25 DEF WantedIsServed, PortalTyped
  <2>3. ids[previous] \in IdentityState
    BY <1>4, <2>2
  <2>4. ids[previous].key # None
    BY <2>3, IdentitiesAssumption DEF IdentityState
  <2>5. QED
    BY <2>1, <2>2, <2>4
<1>26. QED
  BY <1>2, <1>19, <1>20, <1>21, <1>22, <1>23, <1>24, <1>25 DEF PortalSound

\* A portal that has nothing open serves what it is told to.
LEMMA ServesKeeps ==
  ASSUME NEW known \in Seq(IdentityState), NEW cfg \in Configs, NEW at, Serves(cfg, at, known),
         cfg.port \in {AnyPort, at},
         \A i \in DOMAIN known :
            known[i].closed /\ known[i].live = 0 /\ (known[i].closing => known[i].retired),
         conns' \in [Conns -> ConnState],
         \A c \in Conns :
            /\ conns'[c].phase \notin Counted
            /\ conns'[c].phase = "picked" => /\ conns'[c].id \in DOMAIN known
                                              /\ known[conns'[c].id].retired,
         retired' \subseteq DOMAIN known, None \notin expiring'
  PROVE  PortalSound' /\ curId' # None
<1> DEFINE n == Len(known)
           keys == IF cfg.previous = None THEN <<cfg.key>> ELSE <<cfg.key, cfg.previous>>
<1>1. /\ wanted' = cfg /\ port' = at /\ ids' = Started(known, keys) /\ curId' = n + 1
      /\ previous' = IF cfg.previous = None THEN None ELSE n + 2
  BY Zenon DEF Serves
<1>2. /\ cfg.key \in Keys /\ cfg.previous \in Keys \cup {None} /\ cfg.previous # cfg.key
      /\ n \in Nat
  BY DEF Configs, Config
<1>3. /\ keys \in Seq(Keys) /\ Len(keys) = IF cfg.previous = None THEN 1 ELSE 2
      /\ keys[1] = cfg.key
      /\ cfg.previous # None => keys[2] = cfg.previous
  BY <1>2, SMTT(30)
<1> HIDE DEF keys
<1>4. /\ ids' \in Seq(IdentityState) /\ DOMAIN ids' = 1..(n + Len(keys)) /\ DOMAIN known = 1..n
      /\ \A i \in DOMAIN known : ids'[i] = known[i]
      /\ \A m \in 1..Len(keys) : ids'[n + m] = Identity(keys[m])
  BY <1>1, <1>3, IdentitiesStart, ZenonT(40)
<1> HIDE DEF n
<1>5. /\ ids'[n + 1] = Identity(cfg.key)
      /\ cfg.previous # None => ids'[n + 2] = Identity(cfg.previous)
  BY <1>3, <1>4
<1>6. /\ curId' \in DOMAIN ids' /\ curId' \notin DOMAIN known /\ curId' # None
      /\ cfg.previous # None => previous' \in DOMAIN ids' /\ previous' \notin DOMAIN known
      /\ \A i \in DOMAIN ids' : i \in DOMAIN known \/ i = curId' \/ (i = previous' /\ i # None)
      /\ previous' # None <=> cfg.previous # None
  <2>1. CASE cfg.previous = None
    BY <1>1, <1>2, <1>3, <1>4, <2>1, IdentitiesAssumption
  <2>2. CASE cfg.previous # None
    <3>1. curId' = n + 1 /\ previous' = n + 2 /\ DOMAIN ids' = 1..(n + 2)
      BY <1>1, <1>3, <1>4, <2>2
    <3>2. n + 1 # None /\ n + 2 # None
      BY <1>2, IdentitiesAssumption, SMTT(30)
    <3>3. QED
      BY <1>2, <1>4, <2>2, <3>1, <3>2, SMTT(30)
  <2>3. QED
    BY <2>1, <2>2
<1>7. /\ ids'[curId'].key = cfg.key /\ ids'[curId'].live = 0
      /\ ~ids'[curId'].retired /\ ~ids'[curId'].closed /\ ~ids'[curId'].closing
      /\ previous' # None =>
            /\ ids'[previous'].key = cfg.previous /\ ids'[previous'].live = 0
            /\ ~ids'[previous'].retired /\ ~ids'[previous'].closed /\ ~ids'[previous'].closing
  <2>1. ids'[curId'] = Identity(cfg.key)
    BY <1>1, <1>5, Zenon
  <2>2. previous' # None => ids'[previous'] = Identity(cfg.previous)
    BY <1>1, <1>5, ZenonT(40)
  <2>3. QED
    BY <2>1, <2>2, IdentityBegins
<1>8. DOMAIN known \subseteq DOMAIN ids'
  BY <1>2, <1>3, <1>4
<1>9. PortalTyped'
  <2>1. \A c \in Conns : conns'[c].phase \in Identified => conns'[c].id \in DOMAIN ids'
    BY <1>8 DEF Identified
  <2>2. retired' \subseteq DOMAIN ids'
    BY <1>8, Zenon
  <2>3. curId' \in DOMAIN ids' \cup {None} /\ previous' \in DOMAIN ids' \cup {None}
    BY <1>6, Zenon
  <2>4. QED
    BY <1>1, <1>4, <2>1, <2>2, <2>3, ZenonT(40) DEF PortalTyped
<1>10. \A i : CountedFor(i)' = {}
  BY SMTT(30) DEF CountedFor
<1>11. \A i \in DOMAIN ids' : ids'[i].live = 0
  BY <1>4, <1>6, <1>7
<1>12. RetirementCutsNothing'
  <2>1. \A i : Cardinality(CountedFor(i))' = 0
    BY <1>10, FS_EmptySet, Zenon
  <2>2. QED
    BY <1>11, <2>1, Zenon DEF RetirementCutsNothing
<1>13. OpenIsKnown' /\ ServedIsUp'
  <2>1. \A i \in DOMAIN ids' : ~ids'[i].closed =>
           i \in {curId', previous'} /\ ~ids'[i].retired /\ i \notin retired'
    BY <1>4, <1>6, <1>7, SMTT(30)
  <2>2. \A i \in DOMAIN ids' : ids'[i].closing => ids'[i].retired
    BY <1>4, <1>6, <1>7, SMTT(30)
  <2>3. \A i \in DOMAIN ids' : i \in {curId', previous'} => ~ids'[i].retired /\ ~ids'[i].closed
    BY <1>6, <1>7, <1>4, IdentitiesAssumption
  <2>4. \A c \in Conns : conns'[c].phase = "picked" => ids'[conns'[c].id].retired
    BY <1>4, ZenonT(40)
  <2>5. QED
    BY <1>6, <2>1, <2>2, <2>3, <2>4, SMTT(30) DEF OpenIsKnown, ServedIsUp
<1>14. WantedIsServed'
  BY <1>1, <1>6, <1>7, IdentitiesAssumption DEF WantedIsServed
<1>15. QED
  BY <1>6, <1>9, <1>12, <1>13, <1>14, Zenon DEF PortalSound

\* A stop that finds no route call closes every identity and ends every connection.
LEMMA StopClosesAll ==
  ASSUME IdentitiesInv, \A c \in Conns : conns[c].phase \notin Tracked
  PROVE  LET which == {curId, previous} \cup retired
             known == ClosedIds(which)
         IN /\ known \in Seq(IdentityState) /\ DOMAIN known = DOMAIN ids
            /\ \A i \in DOMAIN known :
                  known[i].closed /\ known[i].live = 0 /\ (known[i].closing => known[i].retired)
            /\ Ended(which) \in [Conns -> ConnState]
            /\ \A c \in Conns : Ended(which)[c].phase \notin Identified \cup {"hello"}
<1> DEFINE which == {curId, previous} \cup retired
           known == ClosedIds(which)
           ended == Ended(which)
<1>1. PortalTyped /\ RetirementCutsNothing /\ OpenIsKnown /\ ServedIsUp
  BY Zenon DEF IdentitiesInv, PortalSound
<1>2. ids \in Seq(IdentityState) /\ conns \in [Conns -> ConnState]
  BY <1>1, Zenon DEF PortalTyped
<1>3. \A i \in DOMAIN ids : i \notin which => ids[i].closed
  BY <1>1, Zenon DEF OpenIsKnown
<1>4. ASSUME NEW c \in Conns PROVE ended[c] \in ConnState /\ ended[c].phase \notin Identified \cup {"hello"}
  <2>1. ended[c] = IF conns[c].id \in which /\ conns[c].phase \in {"handshake", "session", "cut"}
                   THEN Gone ELSE conns[c]
    BY Zenon DEF Ended
  <2>2. Gone \in ConnState /\ Gone.phase \notin Identified \cup {"hello"}
    BY DEF Gone, ConnState, Identified, Counted
  <2>3. conns[c] \in ConnState /\ conns[c].phase \notin {"hello", "picked", "admitted"}
    BY <1>2 DEF Tracked
  <2>4. ASSUME conns[c].phase \in {"handshake", "session", "cut"} PROVE conns[c].id \in which
    <3>1. conns[c].id \in DOMAIN ids
      BY <1>1, <2>4 DEF PortalTyped, Identified, Counted
    <3>2. c \in CountedFor(conns[c].id)
      BY <2>4 DEF CountedFor, Counted
    <3>3. ids[conns[c].id].live # 0
      BY <1>1, <3>1, <3>2, NoneAreCounted DEF RetirementCutsNothing
    <3>4. ~ids[conns[c].id].closed
      BY <1>1, <3>1, <3>3 DEF RetirementCutsNothing
    <3>5. QED
      BY <1>3, <3>1, <3>4
  <2> HIDE DEF ended, which
  <2>5. QED
    BY <2>1, <2>2, <2>3, <2>4 DEF Identified, Counted
<1>5. ended \in [Conns -> ConnState]
  <2>1. ended = [c \in Conns |-> ended[c]]
    BY Zenon DEF Ended
  <2> HIDE DEF ended
  <2>2. QED
    BY <1>4, <2>1, Zenon
<1>6. ASSUME NEW i \in DOMAIN ids
      PROVE  /\ known[i] \in IdentityState
             /\ known[i].closed /\ known[i].live = 0 /\ (known[i].closing => known[i].retired)
  <2>1. ids[i] \in IdentityState /\ ids[i].live = Cardinality(CountedFor(i))
    BY <1>1, <1>2 DEF RetirementCutsNothing
  <2>2. {c \in CountedFor(i) : conns[c].phase # "admitted"} = CountedFor(i)
    BY DEF CountedFor, Tracked
  <2>3. known[i] = IF i \in which
                   THEN [ids[i] EXCEPT !.closed = TRUE, !.closing = FALSE,
                                       !.live = ids[i].live - Cardinality(CountedFor(i))]
                   ELSE ids[i]
    BY <2>2, Zenon DEF ClosedIds
  <2>4. ids[i].live - Cardinality(CountedFor(i)) = 0
    BY <2>1 DEF IdentityState
  <2>5. i \notin which => ids[i].closed /\ ids[i].live = 0
    BY <1>1, <1>3 DEF RetirementCutsNothing
  <2>6. ids[i].closing => ids[i].retired
    BY <1>1 DEF ServedIsUp
  <2> HIDE DEF known, which
  <2>7. CASE i \in which
    <3>1. known[i] = [ids[i] EXCEPT !.closed = TRUE, !.closing = FALSE, !.live = 0]
      BY <2>3, <2>4, <2>7, Zenon
    <3>2. QED
      BY <2>1, <3>1, IdentityEnds, Zenon
  <2>8. CASE i \notin which
    BY <2>1, <2>3, <2>5, <2>6, <2>8
  <2>9. QED
    BY <2>7, <2>8
<1>7. DOMAIN known = DOMAIN ids /\ known = [i \in DOMAIN ids |-> known[i]]
  BY Zenon DEF ClosedIds
<1>8. known \in Seq(IdentityState)
  <2> HIDE DEF known
  <2>1. QED
    BY <1>2, <1>6, <1>7, SequenceChanges, Zenon
<1> HIDE DEF known, ended, which
<1>9. QED
  BY <1>4, <1>5, <1>6, <1>7, <1>8, Zenon DEF known, ended, which

\* stopLocked until it waits: what is being routed goes, and all else stays.
LEMMA StopRoutingKeeps ==
  ASSUME IdentitiesInv, NEW next, StopRouting(next), UNCHANGED <<wanted, port>>
  PROVE  PortalSound'
<1>1. PortalSound /\ conns \in [Conns -> ConnState]
  BY Zenon DEF IdentitiesInv, PortalSound, PortalTyped
<1>2. \A c \in Conns : conns'[c] = IF conns[c].phase \in {"hello", "masked"} THEN Gone ELSE conns[c]
  BY Zenon DEF StopRouting
<1>3. Gone \in ConnState /\ Gone.phase = "gone"
  BY DEF Gone, ConnState
<1>4. conns' \in [Conns -> ConnState]
  <2>1. conns' = [c \in Conns |-> conns'[c]]
    BY Zenon DEF StopRouting
  <2>2. QED
    BY <1>1, <1>2, <1>3, <2>1, Zenon
<1>5. UNCHANGED <<ids, wanted, port, curId, previous, retired, expiring>>
  BY DEF StopRouting
<1>6. QED
  BY <1>1, <1>2, <1>3, <1>4, <1>5, ConnsGoOn DEF Counted

\* configureLocked.
LEMMA ConfigureKeeps ==
  ASSUME IdentitiesInv, pending = None, NEW cfg \in Configs, ConfigureLocked(cfg)
  PROVE  /\ IdentitiesInv'
         /\ previous # None /\ previous' = None => wanted' # wanted
<1>1. PortalTyped /\ RetirementCutsNothing /\ OpenIsKnown /\ ServedIsUp /\ WantedIsServed /\ StopIsSound
  BY Zenon DEF IdentitiesInv, PortalSound
<1>2. CASE Running /\ CanBind(cfg, port) /\ Reidentify(cfg) /\ expiring' = expiring
  <2>1. curId # None
    BY <1>2 DEF Running
  <2>2. /\ PortalSound' /\ curId' # None
        /\ previous # None /\ previous' = None => wanted' # wanted
    BY <1>2, <2>1, ReidentifyKeeps
  <2>3. pending' = pending
    BY <1>2, Zenon DEF Reidentify
  <2>4. QED
    BY <2>2, <2>3 DEF IdentitiesInv, StopIsSound
<1>3. ASSUME NEW at \in Ports, Running, ~CanBind(cfg, port), CanBind(cfg, at),
             StopRouting(After("serve", cfg, at)), UNCHANGED <<wanted, port>>
      PROVE  IdentitiesInv' /\ previous' = previous
  <2>1. PortalSound'
    BY <1>3, StopRoutingKeeps
  <2>2. /\ curId # None /\ curId' = curId /\ previous' = previous /\ listener' = "down"
        /\ pending' = After("serve", cfg, at)
    BY <1>3 DEF Running, StopRouting
  <2>3. cfg.port \in {AnyPort, at}
    BY <1>3 DEF CanBind
  <2>4. StopIsSound'
    BY <2>2, <2>3, SMTT(30) DEF StopIsSound, After
  <2>5. QED
    BY <2>1, <2>2, <2>4 DEF IdentitiesInv
<1>4. CASE UNCHANGED <<wanted, port, curId, previous, previousUp, expiring, retired, ids, listener,
                       conns, pending>>
  <2>1. PortalSound'
    BY <1>1, <1>4, ConnsGoOn DEF PortalSound, PortalTyped
  <2>2. QED
    BY <1>1, <1>4, <2>1, SMTT(30) DEF IdentitiesInv, StopIsSound
<1>5. CASE curId # None /\ ~Running /\ StopRouting(After("rebuild", cfg, 0)) /\ UNCHANGED <<wanted, port>>
  <2>1. PortalSound'
    BY <1>5, StopRoutingKeeps, SMTT(30)
  <2>2. /\ curId' = curId /\ previous' = previous /\ listener' = "down"
        /\ pending' = After("rebuild", cfg, 0)
    BY <1>5 DEF StopRouting
  <2>3. StopIsSound'
    BY <1>5, <2>2, SMTT(30) DEF StopIsSound, After
  <2>4. QED
    BY <2>1, <2>2, <2>3 DEF IdentitiesInv
<1>6. ASSUME NEW at \in Ports, curId = None, CanBind(cfg, at), Serves(cfg, at, ids),
             UNCHANGED <<expiring, retired, conns, pending>>
      PROVE  IdentitiesInv' /\ previous = None
  <2>1. /\ ids \in Seq(IdentityState) /\ conns' \in [Conns -> ConnState]
        /\ retired' \subseteq DOMAIN ids /\ None \notin expiring'
        /\ \A c \in Conns : conns[c].phase \in Identified => conns[c].id \in DOMAIN ids
    BY <1>1, <1>6, ZenonT(40) DEF PortalTyped
  <2>2. \A i \in DOMAIN ids :
          ids[i].closed /\ ids[i].live = 0 /\ (ids[i].closing => ids[i].retired)
    BY <1>1, <1>6, SMTT(30) DEF OpenIsKnown, RetirementCutsNothing, ServedIsUp
  <2>3. \A c \in Conns :
          /\ conns'[c].phase \notin Counted
          /\ conns'[c].phase = "picked" => conns'[c].id \in DOMAIN ids /\ ids[conns'[c].id].retired
    <3> SUFFICES ASSUME NEW c \in Conns
                 PROVE  /\ conns[c].phase \notin Counted
                        /\ conns[c].phase = "picked" =>
                              conns[c].id \in DOMAIN ids /\ ids[conns[c].id].retired
      BY <1>6, Zenon
    <3>1. ASSUME conns[c].phase \in Counted PROVE FALSE
      <4>1. conns[c].id \in DOMAIN ids /\ c \in CountedFor(conns[c].id)
        BY <2>1, <3>1 DEF Identified, CountedFor
      <4>2. Cardinality(CountedFor(conns[c].id)) = 0
        BY <1>1, <2>2, <4>1 DEF RetirementCutsNothing
      <4>3. QED
        BY <4>1, <4>2, NoneAreCounted
    <3>2. QED
      BY <1>1, <2>1, <2>2, <3>1 DEF ServedIsUp, Identified
  <2>4. cfg.port \in {AnyPort, at}
    BY <1>6, SMTT(30) DEF CanBind
  <2>5. PortalSound' /\ curId' # None
    BY <1>6, <2>1, <2>2, <2>3, <2>4, ServesKeeps
  <2>6. QED
    BY <1>1, <1>6, <2>5 DEF IdentitiesInv, StopIsSound, WantedIsServed
<1>7. CASE /\ curId = None /\ wanted' = cfg
           /\ UNCHANGED <<port, curId, previous, previousUp, expiring, retired, ids, listener, conns,
                          pending>>
  <2>1. PortalTyped' /\ WantedIsServed' /\ previous = None
    BY <1>1, <1>7 DEF PortalTyped, WantedIsServed
  <2>2. \A i : CountedFor(i)' = CountedFor(i)
    BY <1>7, ZenonT(40) DEF CountedFor
  <2>3. RetirementCutsNothing' /\ OpenIsKnown' /\ ServedIsUp' /\ StopIsSound'
    BY <1>1, <1>7, <2>2 DEF RetirementCutsNothing, OpenIsKnown, ServedIsUp, StopIsSound
  <2>4. QED
    BY <2>1, <2>3, SMTT(30) DEF IdentitiesInv, PortalSound
<1>8. QED
  BY <1>2, <1>3, <1>4, <1>5, <1>6, <1>7, Zenon DEF ConfigureLocked

\* A configuration without pairings, and Close.
LEMMA StopsKeeps ==
  ASSUME IdentitiesInv, Stops
  PROVE  IdentitiesInv' /\ previous' = previous
<1>1. PortalTyped /\ RetirementCutsNothing /\ OpenIsKnown /\ ServedIsUp /\ WantedIsServed /\ StopIsSound
  BY Zenon DEF IdentitiesInv, PortalSound
<1>2. CASE curId = None
  <2>1. /\ wanted' = None
        /\ UNCHANGED <<curId, previous, previousUp, expiring, retired, ids, listener, conns, pending>>
    BY <1>2, Zenon DEF Stops
  <2>2. PortalTyped' /\ WantedIsServed'
    BY <1>1, <1>2, <2>1 DEF PortalTyped, WantedIsServed
  <2>3. \A i : CountedFor(i)' = CountedFor(i)
    BY <2>1, ZenonT(40) DEF CountedFor
  <2>4. RetirementCutsNothing' /\ OpenIsKnown' /\ ServedIsUp' /\ StopIsSound'
    BY <1>1, <2>1, <2>3 DEF RetirementCutsNothing, OpenIsKnown, ServedIsUp, StopIsSound
  <2>5. QED
    BY <2>1, <2>2, <2>4 DEF IdentitiesInv, PortalSound
<1>3. CASE curId # None
  <2>1. StopRouting(After("clear", None, 0)) /\ UNCHANGED <<wanted, port>>
    BY <1>3, Zenon DEF Stops
  <2>2. PortalSound'
    BY <2>1, StopRoutingKeeps
  <2>3. /\ curId' = curId /\ previous' = previous /\ listener' = "down"
        /\ pending' = After("clear", None, 0)
    BY <2>1 DEF StopRouting
  <2>4. StopIsSound'
    BY <1>3, <2>3 DEF StopIsSound, After
  <2>5. QED
    BY <2>2, <2>3, <2>4 DEF IdentitiesInv
<1>4. QED
  BY <1>2, <1>3

\* Rebind.
LEMMA RebindKeeps ==
  ASSUME IdentitiesInv, Rebind
  PROVE  /\ IdentitiesInv'
         /\ previous # None /\ previous' = None => wanted' # wanted
<1>1. PortalSound /\ PortalTyped /\ StopIsSound /\ pending = None /\ wanted \in Configs
  BY Zenon DEF IdentitiesInv, PortalSound, PortalTyped, Rebind, OpBegins
<1>2. CASE UNCHANGED <<wanted, port, curId, previous, previousUp, expiring, retired, ids, listener,
                       conns, pending>>
  <2>1. PortalSound'
    BY <1>1, <1>2, ConnsGoOn DEF PortalTyped
  <2>2. QED
    BY <1>1, <1>2, <2>1 DEF IdentitiesInv, StopIsSound
<1>3. CASE Running /\ StopRouting(After("down", None, 0)) /\ UNCHANGED <<wanted, port>>
  <2>1. PortalSound'
    BY <1>3, StopRoutingKeeps
  <2>2. /\ curId # None /\ curId' = curId /\ previous' = previous /\ listener' = "down"
        /\ pending' = After("down", None, 0)
    BY <1>3 DEF StopRouting, Running
  <2>3. StopIsSound'
    BY <2>2 DEF StopIsSound, After
  <2>4. QED
    BY <2>1, <2>2, <2>3 DEF IdentitiesInv
<1>4. CASE ConfigureLocked(wanted)
  BY <1>1, <1>4, ConfigureKeeps
<1>5. QED
  BY <1>2, <1>3, <1>4, Zenon DEF Rebind

\* The rest of a stop, and of the operation it belongs to.
LEMMA FinishKeeps ==
  ASSUME IdentitiesInv, Finish
  PROVE  IdentitiesInv'
<1> DEFINE which == {curId, previous} \cup retired
           known == ClosedIds(which)
<1>1. PortalTyped /\ StopIsSound /\ pending # None
  BY Zenon DEF IdentitiesInv, PortalSound, Finish
<1>2. /\ known \in Seq(IdentityState) /\ DOMAIN known = DOMAIN ids
      /\ \A i \in DOMAIN known :
            known[i].closed /\ known[i].live = 0 /\ (known[i].closing => known[i].retired)
      /\ conns' \in [Conns -> ConnState]
      /\ \A c \in Conns : conns'[c].phase \notin Identified \cup {"hello"}
  <2>1. \A c \in Conns : conns[c].phase \notin Tracked
    BY Zenon DEF Finish
  <2>2. conns' = Ended(which)
    BY Zenon DEF Finish
  <2>3. QED
    BY <2>1, <2>2, StopClosesAll, Zenon
<1>3. /\ retired' = {} /\ pending' = None /\ expiring' = expiring /\ None \notin expiring
      /\ wanted \in Configs \cup {None}
  BY <1>1, Zenon DEF Finish, PortalTyped
<1>4. \A c \in Conns : conns'[c].phase \notin Counted /\ conns'[c].phase \notin {"picked", "hello"}
  BY <1>2 DEF Identified
<1>5. ASSUME NEW at, Serves(pending.cfg, at, known), pending.cfg \in Configs,
             pending.cfg.port \in {AnyPort, at}
      PROVE  IdentitiesInv'
  <2> HIDE DEF known
  <2>1. PortalSound' /\ curId' # None
    BY <1>2, <1>3, <1>4, <1>5, ServesKeeps
  <2>2. QED
    BY <1>3, <2>1, SMTT(30) DEF IdentitiesInv, StopIsSound
<1>6. ASSUME curId' = None, previous' = None, ids' = known, listener' = listener,
             wanted' \in Configs \cup {None}
      PROVE  IdentitiesInv'
  <2> HIDE DEF known
  <2>1. listener = "down"
    BY <1>1, SMTT(30) DEF StopIsSound
  <2>2. PortalTyped'
    BY <1>2, <1>3, <1>6 DEF PortalTyped
  <2>3. \A i : Cardinality(CountedFor(i))' = 0
    <3>1. \A i : CountedFor(i)' = {}
      BY <1>4 DEF CountedFor
    <3>2. QED
      BY <3>1, FS_EmptySet
  <2>4. RetirementCutsNothing'
    BY <1>2, <1>6, <2>3, Zenon DEF RetirementCutsNothing
  <2>5. OpenIsKnown'
    BY <1>2, <1>6, Zenon DEF OpenIsKnown
  <2>6. ServedIsUp'
    <3>1. None \notin DOMAIN ids'
      BY <1>2, <1>6, IdentitiesAssumption
    <3>2. QED
      BY <1>2, <1>4, <1>6, <3>1, SMTT(30) DEF ServedIsUp
  <2>7. WantedIsServed' /\ StopIsSound'
    BY <1>3, <1>4, <1>6, <2>1 DEF WantedIsServed, StopIsSound
  <2>8. QED
    BY <2>2, <2>4, <2>5, <2>6, <2>7 DEF IdentitiesInv, PortalSound
<1>7. CASE pending.then \in {"down", "clear"}
  <2>1. /\ curId' = None /\ previous' = None /\ ids' = known /\ listener' = listener
        /\ wanted' = wanted \/ wanted' = None
    BY <1>7, SMTT(30) DEF Finish
  <2>2. QED
    BY <1>3, <1>6, <2>1, SMTT(30)
<1>8. CASE pending.then = "serve"
  <2>1. Serves(pending.cfg, pending.at, known)
    BY <1>8, SMTT(30) DEF Finish
  <2>2. QED
    BY <1>1, <1>5, <1>8, <2>1, SMTT(30) DEF StopIsSound
<1>9. CASE pending.then = "rebuild"
  <2>1. pending.cfg \in Configs
    BY <1>1, <1>9 DEF StopIsSound
  <2>2. \/ \E at \in Ports : CanBind(pending.cfg, at) /\ Serves(pending.cfg, at, known)
        \/ /\ curId' = None /\ previous' = None /\ ids' = known /\ listener' = listener
           /\ wanted' = pending.cfg
    BY <1>9 DEF Finish
  <2>3. QED
    BY <1>5, <1>6, <2>1, <2>2 DEF CanBind
<1>10. QED
  BY <1>7, <1>8, <1>9 DEF Finish

\* expire: only the previous identity whose time has passed is retired.
LEMMA ExpireKeeps ==
  ASSUME IdentitiesInv, NEW i, Expire(i)
  PROVE  /\ IdentitiesInv'
         /\ previous # None /\ previous' = None => ~previousUp
<1>1. PortalTyped /\ RetirementCutsNothing /\ OpenIsKnown /\ ServedIsUp /\ WantedIsServed /\ StopIsSound
  BY Zenon DEF IdentitiesInv, PortalSound
<1>2. /\ UNCHANGED <<wanted, port, curId, listener, conns, pending>>
      /\ i \in expiring /\ expiring' = expiring \ {i}
  BY Zenon DEF Expire
<1>3. \A j : CountedFor(j)' = CountedFor(j)
  BY <1>2, Zenon DEF CountedFor
<1>4. StopIsSound'
  BY <1>1, <1>2, Zenon DEF StopIsSound
<1>5. CASE ~Expires(i)
  <2>1. UNCHANGED <<previous, ids, retired>>
    BY <1>5, ZenonT(40) DEF Expire
  <2>2. PortalTyped' /\ OpenIsKnown' /\ ServedIsUp' /\ WantedIsServed'
    BY <1>1, <1>2, <2>1, Zenon DEF PortalTyped, OpenIsKnown, ServedIsUp, WantedIsServed
  <2>3. RetirementCutsNothing'
    BY <1>1, <1>3, <2>1, Zenon DEF RetirementCutsNothing
  <2>4. QED
    BY <1>4, <2>1, <2>2, <2>3 DEF IdentitiesInv, PortalSound
<1>6. CASE Expires(i)
  <2>1. /\ previous = i /\ ~previousUp /\ previous' = None /\ ids' = Retire(ids, {i})
        /\ retired' = {j \in retired \cup {i} : ~ids'[j].closed}
    BY <1>6, Zenon DEF Expire, Expires, StillOpen
  <2>2. i # None /\ i \in DOMAIN ids /\ curId # None
    BY <1>1, <1>2, <2>1 DEF PortalTyped, WantedIsServed
  <2>3. i # curId
    <3>1. wanted \in Configs /\ ids[curId].key = wanted.key /\ ids[i].key = wanted.previous
      BY <1>1, <2>1, <2>2 DEF WantedIsServed, PortalTyped
    <3>2. QED
      BY <3>1, SMTT(30) DEF Configs
  <2>4. /\ ids \in Seq(IdentityState) /\ retired \subseteq DOMAIN ids
        /\ \A c \in Conns : conns[c].phase \in Identified => conns[c].id \in DOMAIN ids
    BY <1>1, ZenonT(40) DEF PortalTyped
  <2>5. /\ ids' \in Seq(IdentityState) /\ DOMAIN ids' = DOMAIN ids
        /\ \A j \in DOMAIN ids : j # i => ids'[j] = ids[j]
        /\ ids'[i].key = ids[i].key /\ ids'[i].live = ids[i].live
        /\ ids'[i].closing = ids[i].closing /\ ids'[i].retired
        /\ ids'[i].closed <=> ids[i].closed \/ ids[i].live = 0
    BY <2>1, <2>2, <2>4, IdentitiesRetire, SMTT(30)
  <2>6. ~ids[i].closed /\ ~ids[i].retired /\ ~ids[i].closing /\ i \notin retired
    BY <1>1, <2>1, <2>2, SMTT(30) DEF ServedIsUp, OpenIsKnown
  <2>7. PortalTyped'
    <3>1. retired' \subseteq DOMAIN ids'
      BY <2>1, <2>2, <2>4, <2>5, SMTT(30)
    <3>2. QED
      BY <1>1, <1>2, <2>1, <2>5, <3>1, ZenonT(40) DEF PortalTyped
  <2>8. RetirementCutsNothing'
    BY <1>1, <1>3, <2>2, <2>5, <2>6 DEF RetirementCutsNothing
  <2>9. OpenIsKnown'
    BY <1>1, <1>2, <2>1, <2>2, <2>5, <2>6, ZenonT(40) DEF OpenIsKnown
  <2>10. ServedIsUp'
    <3>1. \A j \in DOMAIN ids : j # None
      BY <2>4, IdentitiesAssumption
    <3>2. QED
      BY <1>1, <1>2, <2>1, <2>2, <2>3, <2>4, <2>5, <2>6, <3>1, ZenonT(40) DEF ServedIsUp, Identified
  <2>11. WantedIsServed'
    BY <1>1, <1>2, <2>1, <2>2, <2>3, <2>5, Zenon DEF WantedIsServed, PortalTyped
  <2>12. QED
    BY <1>4, <2>1, <2>7, <2>8, <2>9, <2>10, <2>11 DEF IdentitiesInv, PortalSound
<1>7. QED
  BY <1>5, <1>6

\* The previous identity's time passes, or the listener fails.
LEMMA EventsKeep ==
  ASSUME IdentitiesInv, PreviousPasses \/ ListenerFails
  PROVE  IdentitiesInv' /\ previous' = previous
<1>1. PortalTyped /\ RetirementCutsNothing /\ OpenIsKnown /\ ServedIsUp /\ WantedIsServed /\ StopIsSound
  BY Zenon DEF IdentitiesInv, PortalSound
<1>2. UNCHANGED <<wanted, port, curId, previous, retired, ids, conns, pending>>
  BY DEF PreviousPasses, ListenerFails
<1>3. /\ None \notin expiring'
      /\ listener' = listener \/ (listener' = "failed" /\ pending = None)
  BY <1>1, SMTT(30) DEF PreviousPasses, ListenerFails, OpBegins, PortalTyped
<1>4. PortalTyped' /\ OpenIsKnown' /\ ServedIsUp' /\ WantedIsServed' /\ StopIsSound'
  BY <1>1, <1>2, <1>3 DEF PortalTyped, OpenIsKnown, ServedIsUp, WantedIsServed, StopIsSound
<1>5. \A i : CountedFor(i)' = CountedFor(i)
  BY <1>2, Zenon DEF CountedFor
<1>6. RetirementCutsNothing'
  BY <1>1, <1>2, <1>5, Zenon DEF RetirementCutsNothing
<1>7. QED
  BY <1>2, <1>4, <1>6 DEF IdentitiesInv, PortalSound

(***************************************************************************)
(* All the steps.                                                          *)
(***************************************************************************)
\* A step of a connection, or of an identity that closes by itself.
LEMMA ConnStepKeeps ==
  ASSUME IdentitiesInv,
         (\E c \in Conns : ConnStep(c)) \/ (\E i \in 1..MaxIdentities : IdentityCloses(i))
  PROVE  IdentitiesInv' /\ previous' = previous
<1>1. CASE \E i \in 1..MaxIdentities : IdentityCloses(i)
  <2>1. PortalSound'
    BY <1>1, IdentityClosesKeeps, Zenon
  <2>2. ControlUnchanged
    BY <1>1, Zenon DEF IdentityCloses
  <2>3. QED
    BY <2>1, <2>2, ControlKeeps DEF IdentitiesInv, ControlUnchanged
<1>2. ASSUME NEW c \in Conns, ConnStep(c) PROVE PortalSound' /\ ControlUnchanged
  <2>1. PortalSound'
    BY <1>2, RoutingKeeps, AdmitKeeps, DeliverKeeps, Zenon DEF ConnStep
  <2>2. ControlUnchanged
    BY <1>2, Zenon DEF ConnStep, Accept, ReadHello, RouteEnds, Admit, Deliver, StartSession,
       HandshakeTimesOut, ConnCloses
  <2>3. QED
    BY <2>1, <2>2
<1>3. CASE \E c \in Conns : ConnStep(c)
  <2>1. PortalSound' /\ ControlUnchanged
    BY <1>2, <1>3, Zenon
  <2>2. QED
    BY <2>1, ControlKeeps DEF IdentitiesInv, ControlUnchanged
<1>4. QED
  BY <1>1, <1>3

\* Every step keeps the portal sound, and gives the previous identity up only when it may.
LEMMA IdentitiesStep ==
  ASSUME IdentitiesInv, [IdentitiesNext]_identityVars
  PROVE  /\ IdentitiesInv'
         /\ previous # None /\ previous' = None /\ previousUp => wanted' # wanted \/ pending # None
<1>1. CASE UNCHANGED identityVars
  <2>1. UNCHANGED <<wanted, port, curId, previous, retired, ids, conns, expiring, pending, listener>>
    BY <1>1 DEF identityVars
  <2>2. PortalSound' /\ StopIsSound'
    <3>1. PortalSound /\ StopIsSound /\ conns \in [Conns -> ConnState]
      BY Zenon DEF IdentitiesInv, PortalSound, PortalTyped
    <3>2. PortalSound'
      BY <2>1, <3>1, ConnsGoOn
    <3>3. QED
      BY <2>1, <3>1, <3>2 DEF StopIsSound
  <2>3. QED
    BY <2>1, <2>2 DEF IdentitiesInv
<1>2. CASE (\E c \in Conns : ConnStep(c)) \/ (\E i \in 1..MaxIdentities : IdentityCloses(i))
  BY <1>2, ConnStepKeeps
<1>3. CASE \E cfg \in Configs : Configure(cfg)
  <2> PICK cfg \in Configs : Configure(cfg)
    BY <1>3
  <2>1. pending = None /\ ConfigureLocked(cfg)
    BY Zenon DEF Configure, OpBegins
  <2>2. QED
    BY <2>1, ConfigureKeeps
<1>4. CASE ConfigureNothing \/ Close
  <2>1. Stops
    BY <1>4, Zenon DEF ConfigureNothing, Close
  <2>2. QED
    BY <2>1, StopsKeeps
<1>5. CASE Rebind
  BY <1>5, RebindKeeps
<1>6. CASE Finish
  <2>1. pending # None
    BY <1>6, Zenon DEF Finish
  <2>2. QED
    BY <1>6, <2>1, FinishKeeps
<1>7. CASE PreviousPasses \/ ListenerFails
  BY <1>7, EventsKeep
<1>8. CASE \E i \in expiring : Expire(i)
  BY <1>8, ExpireKeeps
<1>9. QED
  BY <1>1, <1>2, <1>3, <1>4, <1>5, <1>6, <1>7, <1>8, Zenon DEF IdentitiesNext

\* Only Admit admits a connection.
LEMMA AdmitAdmits ==
  ASSUME IdentitiesInv, [IdentitiesNext]_identityVars, NEW c \in Conns,
         conns[c].phase = "picked", conns'[c].phase = "admitted"
  PROVE  Admit(c)
<1>1. conns \in [Conns -> ConnState]
  BY Zenon DEF IdentitiesInv, PortalSound, PortalTyped
<1>2. ASSUME conns'[c] = conns[c] \/ conns'[c] = Gone PROVE FALSE
  BY <1>2 DEF Gone
<1>3. ASSUME NEW d \in Conns, NEW x, conns' = [conns EXCEPT ![d] = x] PROVE c = d
  BY <1>1, <1>2, <1>3, SMTT(30)
<1>4. ASSUME NEW d \in Conns, ConnStep(d) PROVE Admit(c)
  <2>1. \E x : conns' = [conns EXCEPT ![d] = x]
    BY <1>4, Zenon DEF ConnStep, Accept, ReadHello, RouteEnds, Admit, Deliver, StartSession,
       HandshakeTimesOut, ConnCloses, ConnGoes
  <2>2. c = d
    BY <1>3, <2>1
  <2>3. QED
    BY <1>4, <2>2 DEF ConnStep, Accept, ReadHello, RouteEnds, Deliver, StartSession,
       HandshakeTimesOut, ConnCloses
<1>5. ASSUME NEW which, conns' = Ended(which) PROVE FALSE
  BY <1>2, <1>5 DEF Ended
<1>6. ASSUME NEW next, StopRouting(next) PROVE FALSE
  BY <1>2, <1>6 DEF StopRouting
<1>7. ASSUME conns' = conns PROVE FALSE
  BY <1>2, <1>7
<1>8. ASSUME NEW cfg, ConfigureLocked(cfg) PROVE FALSE
  BY <1>6, <1>7, <1>8, Zenon DEF ConfigureLocked, Reidentify
<1>9. ~ Rebind /\ ~ ConfigureNothing /\ ~ Close /\ ~ \E cfg \in Configs : Configure(cfg)
  BY <1>6, <1>7, <1>8, Zenon DEF Rebind, ConfigureNothing, Close, Stops, Configure
<1>10. ~ Finish /\ ~ \E i \in 1..MaxIdentities : IdentityCloses(i)
  BY <1>5, Zenon DEF Finish, IdentityCloses
<1>11. /\ ~ PreviousPasses /\ ~ ListenerFails /\ ~ (\E i \in expiring : Expire(i))
       /\ ~ UNCHANGED identityVars
  BY <1>7, Zenon DEF PreviousPasses, ListenerFails, Expire, identityVars
<1>12. QED
  BY <1>4, <1>9, <1>10, <1>11, Zenon DEF IdentitiesNext

\* What RotationIsSound says except that stops end, for any keys, ports, connections and number of
\* operations: a retired identity is closed only when no connection counts on it, nothing stays
\* open that the portal does not know, a portal that is up serves the configuration that is
\* wanted, a connection is admitted only under an identity that is served at that moment, and the
\* previous identity is kept until its time has passed or a configuration or a stop ends it.
THEOREM RotationAlwaysSafe ==
  IdentitiesSpec =>
      /\ [](RetirementCutsNothing /\ NoIdentityLeaks /\ ServesWhatIsWanted)
      /\ AdmitsOnlyServed /\ PreviousIsKept
<1>1. IdentitiesInv => RetirementCutsNothing /\ NoIdentityLeaks /\ ServesWhatIsWanted
  BY Zenon DEF IdentitiesInv, PortalSound, OpenIsKnown, WantedIsServed, NoIdentityLeaks,
     ServesWhatIsWanted
<1>2. IdentitiesInv /\ [IdentitiesNext]_identityVars => IdentitiesInv'
  BY IdentitiesStep
<1>3. IdentitiesInv /\ [IdentitiesNext]_identityVars =>
        [\A c \in Conns :
            conns[c].phase = "picked" /\ conns'[c].phase = "admitted" =>
                conns[c].id \in {curId, previous}]_identityVars
  BY AdmitAdmits, AdmitKeeps, Zenon
<1>4. IdentitiesInv /\ [IdentitiesNext]_identityVars =>
        [previous # None /\ previous' = None /\ previousUp =>
            wanted' # wanted \/ pending # None]_identityVars
  BY IdentitiesStep, Zenon
<1>5. QED
  BY <1>1, <1>2, <1>3, <1>4, IdentitiesInitially, PTL
     DEF IdentitiesSpec, AdmitsOnlyServed, PreviousIsKept
=============================================================================
