-------------------------- MODULE PortForwardProofs --------------------------
(***************************************************************************)
(* The port forwarder, for any number of protocols, ports, mappings and    *)
(* calls in flight.                                                        *)
(***************************************************************************)
EXTENDS PortForward, FiniteSetTheorems, TLAPS

\* A tracked mapping was made, for its protocol.
TrackedAreMade ==
    \A p \in ProtocolSet : mappings[p] # None =>
        mappings[p] \in DOMAIN made /\ made[mappings[p]][1] = p

\* An add that nobody has dealt with knows its mapping.
Undecided(i) == ops[i].stage \in {"adding", "answered"}
AddsAreKnown ==
    \A i \in DOMAIN ops : Undecided(i) =>
        ops[i].mapping \in DOMAIN made /\ made[ops[i].mapping] = ops[i].key

\* While MapPort waits, its call is the only one on the port, and nothing of the protocol is
\* tracked.
MapWaitsAlone ==
    holder = "map" =>
        /\ mapOp \in DOMAIN ops /\ Undecided(mapOp)
        /\ HoldersOf(ops[mapOp].key) = {mapOp}
        /\ mappings[ops[mapOp].key[1]] = None

\* UnmapPort visits what is tracked.
UnmapVisitsTracked == holder = "unmap" => \A p \in unmapping : mappings[p] # None

\* A renewal's mappings were made; while its call is there, it is the one the renewal made.
RenewalsAreKnown ==
    \A l \in DOMAIN loops :
        /\ loops[l].todo \subseteq DOMAIN made
        /\ loops[l].stage = "renewing" =>
              /\ loops[l].now \in DOMAIN made /\ loops[l].op \in Ops
              /\ loops[l].op \in DOMAIN ops => ops[loops[l].op].key = made[loops[l].now]

\* Someone answers for every port of the gateway: it is tracked, given up on, about to be deleted,
\* or the outcome of its call is still to be looked at.
AnswersFor(i, k) ==
    /\ ops[i].key = k
    /\ \/ ops[i].stage = "cleaning"
       \/ ops[i].stage = "answered" /\ MayHaveLanded(ops[i].result)
PortsAreAnsweredFor ==
    \A k \in gateway : k \in TrackedKeys \/ k \in stray \/ \E i \in DOMAIN ops : AnswersFor(i, k)

ForwardInv ==
    /\ ForwardTypeOK
    /\ TrackedAreMade /\ AddsAreKnown /\ MapWaitsAlone /\ UnmapVisitsTracked /\ RenewalsAreKnown
    /\ PortsAreAnsweredFor /\ CleanupSparesTracked /\ InflightIsExact

(***************************************************************************)
(* The operators of the model.                                             *)
(***************************************************************************)
\* A partial function with one argument less.
LEMMA DroppedProperties ==
  ASSUME NEW f, NEW x
  PROVE  /\ DOMAIN Dropped(f, x) = DOMAIN f \ {x}
         /\ \A y \in DOMAIN f : y # x => Dropped(f, x)[y] = f[y]
  BY Zenon DEF Dropped

\* A key's protocol is a protocol.
LEMMA KeyHasProtocol == \A k \in Keys : k[1] \in ProtocolSet
  BY Zenon DEF Keys

\* untrackedLocked says whether a mapping's port is one that is tracked.
LEMMA UntrackedMeans ==
  ASSUME ForwardTypeOK, TrackedAreMade, NEW m \in DOMAIN made
  PROVE  Untracked(m) <=> made[m] \notin TrackedKeys
<1> DEFINE p == made[m][1]
<1>1. made[m] \in Keys /\ p \in ProtocolSet /\ m # None
  BY KeyHasProtocol, ForwardAssumption, Zenon DEF ForwardTypeOK
<1>2. ASSUME made[m] \in TrackedKeys PROVE mappings[p] # None /\ made[mappings[p]] = made[m]
  <2>1. PICK q \in ProtocolSet : mappings[q] # None /\ made[m] = made[mappings[q]]
    BY <1>2, Zenon DEF TrackedKeys
  <2>2. p = q
    BY <2>1, Zenon DEF TrackedAreMade
  <2> QED
    BY <2>1, <2>2, Zenon
<1>3. ASSUME mappings[p] # None, made[mappings[p]] = made[m] PROVE made[m] \in TrackedKeys
  BY <1>1, <1>3, Zenon DEF TrackedKeys
<1> QED
  BY <1>1, <1>2, <1>3, Zenon DEF Untracked

\* The goroutines that hold a port are finitely many.
LEMMA HoldersAreFinite ==
  ASSUME ForwardTypeOK, NEW k
  PROVE  IsFiniteSet(HoldersOf(k)) /\ Cardinality(HoldersOf(k)) \in Nat
<1>1. HoldersOf(k) \subseteq Ops
  BY Zenon DEF HoldersOf, ForwardTypeOK
<1> QED
  BY <1>1, FS_Subset, FS_CardinalityType, ForwardAssumption, Zenon

(***************************************************************************)
(* Initial states.                                                         *)
(***************************************************************************)
\* A new Forwarder tracks nothing, and nothing is in flight.
LEMMA ForwardInitSound == ForwardInit => ForwardInv
<1> SUFFICES ASSUME ForwardInit PROVE ForwardInv
  BY Zenon
<1>1. client \in {"upnp", "pmp"}
  BY Zenon DEF ForwardInit, ClientOf
<1>2. ForwardTypeOK
  BY <1>1, Zenon DEF ForwardInit, ForwardTypeOK
<1>3. \A k : HoldersOf(k) = {}
  BY Zenon DEF ForwardInit, HoldersOf
<1>4. InflightIsExact
  BY <1>3, FS_EmptySet, Zenon DEF ForwardInit, InflightIsExact
<1>5. TrackedAreMade /\ UnmapVisitsTracked /\ MapWaitsAlone
  BY ForwardAssumption, Zenon DEF ForwardInit, TrackedAreMade, UnmapVisitsTracked, MapWaitsAlone
<1>6. AddsAreKnown /\ RenewalsAreKnown /\ PortsAreAnsweredFor /\ CleanupSparesTracked
  BY Zenon DEF ForwardInit, AddsAreKnown, RenewalsAreKnown, PortsAreAnsweredFor, CleanupSparesTracked
<1> QED
  BY <1>2, <1>4, <1>5, <1>6, Zenon DEF ForwardInv

(***************************************************************************)
(* What a step does to the calls in flight and to their count.             *)
(***************************************************************************)
\* A goroutine starts.
LEMMA OpStarts ==
  ASSUME ForwardTypeOK, NEW i \in Ops, i \notin DOMAIN ops, NEW o \in Op, ops' = With(ops, i, o)
  PROVE  /\ DOMAIN ops' = DOMAIN ops \cup {i} /\ ops'[i] = o
         /\ \A j \in DOMAIN ops : j # i /\ ops'[j] = ops[j]
         /\ DOMAIN ops' \subseteq Ops /\ \A j \in DOMAIN ops' : ops'[j] \in Op
         /\ \A k : i \notin HoldersOf(k)
         /\ \A k : HoldersOf(k)' = IF o.key = k /\ o.stage # "deleting" THEN HoldersOf(k) \cup {i}
                                   ELSE HoldersOf(k)
<1>1. DOMAIN ops' = DOMAIN ops \cup {i} /\ ops'[i] = o
  BY Zenon DEF With
<1>2. \A j \in DOMAIN ops : j # i /\ ops'[j] = ops[j]
  BY Zenon DEF With
<1>3. DOMAIN ops' \subseteq Ops /\ \A j \in DOMAIN ops' : ops'[j] \in Op
  BY <1>1, <1>2, Zenon DEF ForwardTypeOK
<1>4. \A k : i \notin HoldersOf(k)
  BY Zenon DEF HoldersOf
<1>5. ASSUME NEW k
      PROVE  HoldersOf(k)' = IF o.key = k /\ o.stage # "deleting" THEN HoldersOf(k) \cup {i}
                             ELSE HoldersOf(k)
  BY <1>1, <1>2, Zenon DEF HoldersOf
<1> QED
  BY <1>1, <1>2, <1>3, <1>4, <1>5, Zenon

\* A goroutine ends.
LEMMA OpEnds ==
  ASSUME ForwardTypeOK, NEW i \in DOMAIN ops, ops' = Dropped(ops, i)
  PROVE  /\ DOMAIN ops' = DOMAIN ops \ {i}
         /\ \A j \in DOMAIN ops' : ops'[j] = ops[j]
         /\ DOMAIN ops' \subseteq Ops /\ \A j \in DOMAIN ops' : ops'[j] \in Op
         /\ \A k : HoldersOf(k)' = HoldersOf(k) \ {i}
         /\ ops[i].stage # "deleting" => i \in HoldersOf(ops[i].key)
         /\ \A k : i \in HoldersOf(k) => k = ops[i].key /\ ops[i].stage # "deleting"
<1>1. DOMAIN ops' = DOMAIN ops \ {i} /\ \A j \in DOMAIN ops' : ops'[j] = ops[j]
  BY DroppedProperties, ZenonT(60)
<1>2. DOMAIN ops' \subseteq Ops /\ \A j \in DOMAIN ops' : ops'[j] \in Op
  BY <1>1, Zenon DEF ForwardTypeOK
<1>3. \A k : HoldersOf(k)' = HoldersOf(k) \ {i}
  BY <1>1, Zenon DEF HoldersOf
<1> QED
  BY <1>1, <1>2, <1>3, Zenon DEF HoldersOf

\* A goroutine moves on with its port.
LEMMA OpMoves ==
  ASSUME ForwardTypeOK, NEW i \in DOMAIN ops, NEW o \in Op, ops' = [ops EXCEPT ![i] = o],
         o.key = ops[i].key, o.stage # "deleting", ops[i].stage # "deleting"
  PROVE  /\ DOMAIN ops' = DOMAIN ops /\ ops'[i] = o
         /\ \A j \in DOMAIN ops : j # i => ops'[j] = ops[j]
         /\ DOMAIN ops' \subseteq Ops /\ \A j \in DOMAIN ops' : ops'[j] \in Op
         /\ \A k : HoldersOf(k)' = HoldersOf(k)
<1>1. DOMAIN ops' = DOMAIN ops /\ ops'[i] = o
  BY Zenon
<1>2. \A j \in DOMAIN ops : j # i => ops'[j] = ops[j]
  BY Zenon
<1>3. DOMAIN ops' \subseteq Ops /\ \A j \in DOMAIN ops' : ops'[j] \in Op
  BY <1>1, <1>2, Zenon DEF ForwardTypeOK
<1>4. ASSUME NEW k PROVE HoldersOf(k)' = HoldersOf(k)
  BY <1>1, <1>2 DEF HoldersOf
<1> QED
  BY <1>1, <1>2, <1>3, <1>4, Zenon

\* holdLocked counts a call that starts,
LEMMA HoldCounts ==
  ASSUME ForwardTypeOK, InflightIsExact, NEW k \in Keys, NEW i, inflight' = Held(k),
         i \notin HoldersOf(k), HoldersOf(k)' = HoldersOf(k) \cup {i},
         \A h \in Keys : h # k => HoldersOf(h)' = HoldersOf(h)
  PROVE  inflight' \in [Keys -> Nat] /\ InflightIsExact'
<1>1. inflight'[k] = inflight[k] + 1 /\ \A h \in Keys : h # k => inflight'[h] = inflight[h]
  BY Zenon DEF Held, ForwardTypeOK
<1>2. Cardinality(HoldersOf(k)') = Cardinality(HoldersOf(k)) + 1
  BY HoldersAreFinite, FS_AddElement, ZenonT(60)
<1>3. inflight' \in [Keys -> Nat]
  BY DEF Held, ForwardTypeOK
<1>4. ASSUME NEW h \in Keys PROVE inflight'[h] = Cardinality(HoldersOf(h)')
  BY <1>1, <1>2, Zenon DEF InflightIsExact
<1> QED
  BY <1>3, <1>4, Zenon DEF InflightIsExact

\* and releaseLocked one that ends.
LEMMA ReleaseCounts ==
  ASSUME ForwardTypeOK, InflightIsExact, NEW k \in Keys, NEW i, inflight' = Released(k),
         i \in HoldersOf(k), HoldersOf(k)' = HoldersOf(k) \ {i},
         \A h \in Keys : h # k => HoldersOf(h)' = HoldersOf(h)
  PROVE  inflight' \in [Keys -> Nat] /\ InflightIsExact'
<1>1. Cardinality(HoldersOf(k)') = Cardinality(HoldersOf(k)) - 1
  BY HoldersAreFinite, FS_RemoveElement, Zenon
<1>2. Cardinality(HoldersOf(k)) # 0 /\ Cardinality(HoldersOf(k)) \in Nat
  BY HoldersAreFinite, FS_EmptySet, Zenon
<1>3. inflight[k] = Cardinality(HoldersOf(k)) /\ inflight[k] > 0
  BY <1>2 DEF InflightIsExact
<1>4. inflight'[k] = inflight[k] - 1 /\ \A h \in Keys : h # k => inflight'[h] = inflight[h]
  BY <1>2, <1>3, Zenon DEF Released, ForwardTypeOK
<1>5. inflight' \in [Keys -> Nat]
  BY DEF Released, ForwardTypeOK
<1>6. ASSUME NEW h \in Keys PROVE inflight'[h] = Cardinality(HoldersOf(h)')
  BY <1>1, <1>3, <1>4, Zenon DEF InflightIsExact
<1> QED
  BY <1>5, <1>6, Zenon DEF InflightIsExact

\* What AddPortMapping may report: a port that ends up mapped is reported as such or as unknown.
LEMMA OutcomesMean ==
  ASSUME NEW o \in Outcomes
  PROVE  /\ o[1] \in {"ok", "refused", "unknown"} /\ o[2] \in {"map", "keep", "drop", "stray"}
         /\ o[2] = "map" => MayHaveLanded(o[1])
<1>1. CASE o \in UpnpOutcomes
  BY <1>1 DEF UpnpOutcomes, MayHaveLanded
<1>2. CASE o \in PmpOutcomes
  BY <1>2 DEF PmpOutcomes, PmpAnswers, MayHaveLanded
<1> QED
  BY <1>1, <1>2, Zenon DEF Outcomes

\* Renewals know their calls as long as made grows, and no call takes another's name.
LEMMA RenewalsStay ==
  ASSUME RenewalsAreKnown, UNCHANGED loops, DOMAIN made \subseteq DOMAIN made',
         \A m \in DOMAIN made : made'[m] = made[m],
         \A l \in DOMAIN loops : loops[l].op \in DOMAIN ops' =>
             loops[l].op \in DOMAIN ops /\ ops'[loops[l].op].key = ops[loops[l].op].key
  PROVE  RenewalsAreKnown'
  BY Zenon DEF RenewalsAreKnown

\* The steps of one goroutine that keeps its port, while nothing is mapped, unmapped or counted.
LEMMA MovesKeep ==
  ASSUME ForwardInv, NEW i \in DOMAIN ops, NEW o \in Op, ops' = [ops EXCEPT ![i] = o],
         o.key = ops[i].key, ops[i].stage # "deleting",
         o.stage \in {"answered", "cleaning", "cleaned"},
         o.stage = "answered" => Undecided(i) /\ o.mapping = ops[i].mapping,
         \/ UNCHANGED <<holder, mapOp>> /\ (Undecided(i) /\ holder = "map" => o.stage = "answered")
         \/ holder' = None /\ mapOp' = None,
         o.stage = "cleaning" => o.key \notin TrackedKeys,
         UNCHANGED <<client, mappings, made, inflight, teardowns, cancel, unmapping, stopped>>,
         DOMAIN loops' \subseteq Loops, \A l \in DOMAIN loops' : loops'[l] \in Loop,
         RenewalsAreKnown',
         gateway' \subseteq Keys, stray' \subseteq Keys,
         PortsAreAnsweredFor'
  PROVE  ForwardInv'
<1>1. /\ DOMAIN ops' = DOMAIN ops /\ ops'[i] = o
      /\ \A j \in DOMAIN ops : j # i => ops'[j] = ops[j]
      /\ DOMAIN ops' \subseteq Ops /\ \A j \in DOMAIN ops' : ops'[j] \in Op
      /\ \A k : HoldersOf(k)' = HoldersOf(k)
  BY OpMoves, Zenon DEF ForwardInv
<1>2. ForwardTypeOK'
  BY <1>1, Zenon DEF ForwardInv, ForwardTypeOK
<1>3. TrackedAreMade' /\ UnmapVisitsTracked'
  BY ForwardAssumption, Zenon DEF ForwardInv, TrackedAreMade, UnmapVisitsTracked
<1>4. AddsAreKnown'
  BY <1>1 DEF ForwardInv, AddsAreKnown, Undecided
<1>5. MapWaitsAlone'
  <2>1. CASE UNCHANGED <<holder, mapOp>> /\ (Undecided(i) /\ holder = "map" => o.stage = "answered")
    BY <1>1, <2>1, Zenon DEF ForwardInv, MapWaitsAlone, Undecided
  <2>2. CASE holder' = None
    BY <2>2, ForwardAssumption, Zenon DEF MapWaitsAlone
  <2> QED
    BY <2>1, <2>2, Zenon
<1>6. TrackedKeys' = TrackedKeys
  BY Zenon DEF TrackedKeys
<1>7. CleanupSparesTracked'
  BY <1>1, <1>6, Zenon DEF ForwardInv, CleanupSparesTracked
<1>8. InflightIsExact'
  BY <1>1, Zenon DEF ForwardInv, InflightIsExact
<1> QED
  BY <1>2, <1>3, <1>4, <1>5, <1>7, <1>8, Zenon DEF ForwardInv

\* The end of a goroutine and the release of its port, while nothing is mapped or unmapped.
LEMMA EndsKeep ==
  ASSUME ForwardInv, NEW i \in DOMAIN ops, ops' = Dropped(ops, i),
         IF ops[i].stage = "deleting" THEN inflight' = inflight ELSE inflight' = Released(ops[i].key),
         \/ UNCHANGED <<holder, mapOp>> /\ (holder = "map" => i # mapOp)
         \/ holder' = None /\ mapOp' = None,
         UNCHANGED <<client, mappings, made, teardowns, cancel, unmapping, stopped>>,
         DOMAIN loops' \subseteq Loops, \A l \in DOMAIN loops' : loops'[l] \in Loop,
         RenewalsAreKnown',
         gateway' \subseteq Keys, stray' \subseteq Keys,
         PortsAreAnsweredFor'
  PROVE  ForwardInv'
<1> DEFINE k == ops[i].key
<1>1. /\ DOMAIN ops' = DOMAIN ops \ {i}
      /\ \A j \in DOMAIN ops' : ops'[j] = ops[j]
      /\ DOMAIN ops' \subseteq Ops /\ \A j \in DOMAIN ops' : ops'[j] \in Op
      /\ \A h : HoldersOf(h)' = HoldersOf(h) \ {i}
      /\ ops[i].stage # "deleting" => i \in HoldersOf(k)
      /\ \A h : i \in HoldersOf(h) => h = k /\ ops[i].stage # "deleting"
  BY OpEnds, Zenon DEF ForwardInv
<1>2. k \in Keys
  BY Zenon DEF ForwardInv, ForwardTypeOK, Op
<1>3. inflight' \in [Keys -> Nat] /\ InflightIsExact'
  <2>1. CASE ops[i].stage = "deleting"
    <3>1. \A h \in Keys : HoldersOf(h)' = HoldersOf(h)
      BY <1>1, <2>1, Zenon
    <3>2. inflight' = inflight
      BY <2>1, Zenon
    <3> QED
      BY <3>1, <3>2, Zenon DEF ForwardInv, ForwardTypeOK, InflightIsExact
  <2>2. CASE ops[i].stage # "deleting"
    <3>1. \A h \in Keys : h # k => HoldersOf(h)' = HoldersOf(h)
      BY <1>1, Zenon
    <3> QED
      BY <1>1, <1>2, <2>2, <3>1, ReleaseCounts, Zenon DEF ForwardInv
  <2> QED
    BY <2>1, <2>2, Zenon
<1>4. ForwardTypeOK'
  BY <1>1, <1>3, Zenon DEF ForwardInv, ForwardTypeOK
<1>5. TrackedAreMade' /\ UnmapVisitsTracked'
  BY ForwardAssumption, Zenon DEF ForwardInv, TrackedAreMade, UnmapVisitsTracked
<1>6. AddsAreKnown'
  BY <1>1 DEF ForwardInv, AddsAreKnown, Undecided
<1>7. MapWaitsAlone'
  <2>1. CASE UNCHANGED <<holder, mapOp>> /\ (holder = "map" => i # mapOp)
    <3>1. holder = "map" => mapOp \in DOMAIN ops' /\ ops'[mapOp] = ops[mapOp]
      BY <1>1, <2>1, Zenon DEF ForwardInv, MapWaitsAlone
    <3> QED
      BY <1>1, <2>1, <3>1, Zenon DEF ForwardInv, MapWaitsAlone, HoldersOf, Undecided
  <2>2. CASE holder' = None
    BY <2>2, ForwardAssumption, Zenon DEF MapWaitsAlone
  <2> QED
    BY <2>1, <2>2, Zenon
<1>8. TrackedKeys' = TrackedKeys
  BY Zenon DEF TrackedKeys
<1>9. CleanupSparesTracked'
  BY <1>1, <1>8, Zenon DEF ForwardInv, CleanupSparesTracked
<1> QED
  BY <1>3, <1>4, <1>5, <1>6, <1>7, <1>9, Zenon DEF ForwardInv

\* A step that touches no call and maps no port.
LEMMA QuietKeeps ==
  ASSUME ForwardInv, UNCHANGED <<client, mappings, made, inflight, ops, stray>>,
         gateway' \subseteq gateway,
         teardowns' \in Nat, cancel' \in Loops \cup {None}, stopped' \subseteq Loops,
         holder' \in {None, "map", "unmap"}, mapOp' \in Ops \cup {None},
         unmapping' \subseteq ProtocolSet, MapWaitsAlone', UnmapVisitsTracked',
         DOMAIN loops' \subseteq Loops, \A l \in DOMAIN loops' : loops'[l] \in Loop,
         RenewalsAreKnown'
  PROVE  ForwardInv'
<1>1. ForwardTypeOK'
  BY Zenon DEF ForwardInv, ForwardTypeOK
<1>2. TrackedAreMade' /\ AddsAreKnown'
  BY Zenon DEF ForwardInv, TrackedAreMade, AddsAreKnown, Undecided
<1>3. PortsAreAnsweredFor' /\ CleanupSparesTracked'
  BY DEF ForwardInv, PortsAreAnsweredFor, CleanupSparesTracked, TrackedKeys, AnswersFor
<1>4. InflightIsExact'
  BY Zenon DEF ForwardInv, InflightIsExact, HoldersOf
<1> QED
  BY <1>1, <1>2, <1>3, <1>4, Zenon DEF ForwardInv

\* A renewal loop ends,
LEMMA LoopEnds ==
  ASSUME ForwardInv, NEW l \in DOMAIN loops, loops' = Dropped(loops, l), UNCHANGED made,
         \A j \in DOMAIN ops' : j \in DOMAIN ops /\ ops'[j].key = ops[j].key
  PROVE  /\ DOMAIN loops' \subseteq Loops /\ (\A n \in DOMAIN loops' : loops'[n] \in Loop)
         /\ RenewalsAreKnown'
<1>1. DOMAIN loops' = DOMAIN loops \ {l} /\ \A n \in DOMAIN loops' : loops'[n] = loops[n]
  BY Zenon DEF Dropped
<1> QED
  BY <1>1 DEF ForwardInv, ForwardTypeOK, RenewalsAreKnown

\* or moves on, without a call.
LEMMA LoopMoves ==
  ASSUME ForwardInv, NEW l \in DOMAIN loops, NEW r \in Loop, loops' = [loops EXCEPT ![l] = r],
         UNCHANGED made, r.stage # "renewing", r.todo \subseteq DOMAIN made,
         \A j \in DOMAIN ops' : j \in DOMAIN ops /\ ops'[j].key = ops[j].key
  PROVE  /\ DOMAIN loops' \subseteq Loops /\ (\A n \in DOMAIN loops' : loops'[n] \in Loop)
         /\ RenewalsAreKnown'
<1>1. DOMAIN loops' = DOMAIN loops /\ loops'[l] = r
      /\ \A n \in DOMAIN loops : n # l => loops'[n] = loops[n]
  BY Zenon
<1>2. DOMAIN loops' \subseteq Loops /\ (\A n \in DOMAIN loops' : loops'[n] \in Loop)
  BY <1>1, Zenon DEF ForwardInv, ForwardTypeOK
<1>3. RenewalsAreKnown'
  BY <1>1 DEF ForwardInv, RenewalsAreKnown
<1> QED
  BY <1>2, <1>3, Zenon

(***************************************************************************)
(* The actions, one by one.                                                *)
(***************************************************************************)
\* The gateway answers an add.
LEMMA GatewayAnswersAddKeeps ==
  ASSUME ForwardInv, NEW i \in Ops, NEW outcome \in Outcomes, GatewayAnswersAdd(i, outcome)
  PROVE  ForwardInv'
<1> DEFINE o == [ops[i] EXCEPT !.stage = "answered", !.result = outcome[1]]
           k == ops[i].key
<1>1. i \in DOMAIN ops /\ ops[i] \in Op /\ ops[i].stage = "adding" /\ k \in Keys
  BY Zenon DEF GatewayAnswersAdd, ForwardInv, ForwardTypeOK, Op
<1>2. /\ o \in Op /\ o.key = k /\ o.mapping = ops[i].mapping /\ o.stage = "answered"
      /\ o.result = outcome[1]
  BY <1>1, OutcomesMean, Zenon DEF Op
<1>3. ops' = [ops EXCEPT ![i] = o]
  BY Zenon DEF GatewayAnswersAdd
<1> HIDE DEF o
<1>4. /\ DOMAIN ops' = DOMAIN ops /\ ops'[i] = o
      /\ \A j \in DOMAIN ops : j # i => ops'[j] = ops[j]
  BY <1>1, <1>3, Zenon
<1>5. /\ gateway' \subseteq gateway \cup {k} /\ stray \subseteq stray' /\ stray' \subseteq stray \cup {k}
      /\ k \in gateway' => k \in gateway \/ k \in stray' \/ outcome[2] = "map"
  BY OutcomesMean, Zenon DEF GatewayAnswersAdd
<1>6. TrackedKeys' = TrackedKeys
  BY Zenon DEF TrackedKeys, GatewayAnswersAdd
<1>7. ASSUME NEW h \in gateway', h \notin TrackedKeys', h \notin stray'
      PROVE  \E j \in DOMAIN ops' : AnswersFor(j, h)'
  <2>1. CASE h \in gateway
    <3>1. PICK j \in DOMAIN ops : AnswersFor(j, h)
      BY <1>5, <1>6, <1>7, <2>1, Zenon DEF ForwardInv, PortsAreAnsweredFor
    <3>2. j # i
      BY <1>1, <3>1, Zenon DEF AnswersFor
    <3> QED
      BY <1>4, <3>1, <3>2, Zenon DEF AnswersFor
  <2>2. CASE h = k /\ outcome[2] = "map"
    BY <1>1, <1>2, <1>4, <2>2, OutcomesMean, Zenon DEF AnswersFor
  <2> QED
    BY <1>5, <1>7, <2>1, <2>2, Zenon
<1>8. PortsAreAnsweredFor'
  BY <1>7, Zenon DEF PortsAreAnsweredFor
<1>9. gateway' \subseteq Keys /\ stray' \subseteq Keys
  BY <1>1, <1>5, Zenon DEF ForwardInv, ForwardTypeOK
<1>10. UNCHANGED <<client, mappings, made, inflight, teardowns, cancel, holder, mapOp, unmapping,
                   loops, stopped>>
  BY Zenon DEF GatewayAnswersAdd
<1>11. /\ DOMAIN loops' \subseteq Loops /\ (\A l \in DOMAIN loops' : loops'[l] \in Loop)
       /\ RenewalsAreKnown'
  BY <1>2, <1>4, <1>10, RenewalsStay, Zenon DEF ForwardInv, ForwardTypeOK
<1> QED
  BY <1>1, <1>2, <1>3, <1>8, <1>9, <1>10, <1>11, MovesKeep, Zenon DEF Undecided

\* The gateway answers a cleanup.
LEMMA GatewayAnswersCleanupKeeps ==
  ASSUME ForwardInv, NEW i \in Ops, GatewayAnswersCleanup(i)
  PROVE  ForwardInv'
<1> DEFINE o == [ops[i] EXCEPT !.stage = "cleaned"]
           k == ops[i].key
<1>1. i \in DOMAIN ops /\ ops[i] \in Op /\ ops[i].stage = "cleaning" /\ k \in Keys
  BY Zenon DEF GatewayAnswersCleanup, ForwardInv, ForwardTypeOK, Op
<1>2. o \in Op /\ o.key = k /\ o.mapping = ops[i].mapping /\ o.stage = "cleaned"
  BY <1>1, Zenon DEF Op
<1>3. ops' = [ops EXCEPT ![i] = o]
  BY Zenon DEF GatewayAnswersCleanup
<1> HIDE DEF o
<1>4. /\ DOMAIN ops' = DOMAIN ops /\ ops'[i] = o
      /\ \A j \in DOMAIN ops : j # i => ops'[j] = ops[j]
  BY <1>1, <1>3, Zenon
<1>5. /\ gateway' \subseteq gateway /\ \A h \in stray : h = k \/ h \in stray'
      /\ stray' \subseteq stray \cup {k} /\ (k \in gateway' => k \in stray')
  BY Zenon DEF GatewayAnswersCleanup
<1>6. TrackedKeys' = TrackedKeys
  BY Zenon DEF TrackedKeys, GatewayAnswersCleanup
<1>7. ASSUME NEW h \in gateway', h \notin TrackedKeys', h \notin stray'
      PROVE  \E j \in DOMAIN ops' : AnswersFor(j, h)'
  <2>1. h # k /\ h \in gateway /\ h \notin TrackedKeys /\ h \notin stray
    BY <1>5, <1>6, <1>7, Zenon
  <2>2. PICK j \in DOMAIN ops : AnswersFor(j, h)
    BY <2>1, Zenon DEF ForwardInv, PortsAreAnsweredFor
  <2>3. j # i
    BY <2>1, <2>2, Zenon DEF AnswersFor
  <2> QED
    BY <1>4, <2>2, <2>3, Zenon DEF AnswersFor
<1>8. PortsAreAnsweredFor'
  BY <1>7, Zenon DEF PortsAreAnsweredFor
<1>9. gateway' \subseteq Keys /\ stray' \subseteq Keys
  BY <1>1, <1>5, Zenon DEF ForwardInv, ForwardTypeOK
<1>10. UNCHANGED <<client, mappings, made, inflight, teardowns, cancel, holder, mapOp, unmapping,
                   loops, stopped>>
  BY Zenon DEF GatewayAnswersCleanup
<1>11. /\ DOMAIN loops' \subseteq Loops /\ (\A l \in DOMAIN loops' : loops'[l] \in Loop)
       /\ RenewalsAreKnown'
  BY <1>2, <1>4, <1>10, RenewalsStay, Zenon DEF ForwardInv, ForwardTypeOK
<1> QED
  BY <1>1, <1>2, <1>3, <1>8, <1>9, <1>10, <1>11, MovesKeep, Zenon DEF Undecided

\* The goroutine of an add that nobody waits for any more looks at its outcome.
LEMMA AddResolvesKeeps ==
  ASSUME ForwardInv, NEW i \in Ops, AddResolves(i)
  PROVE  ForwardInv'
<1> DEFINE gone == MayHaveLanded(ops[i].result) /\ Untracked(ops[i].mapping)
           o == [ops[i] EXCEPT !.handled = TRUE, !.stage = IF gone THEN "cleaning" ELSE "cleaned"]
           k == ops[i].key
<1>1. /\ i \in DOMAIN ops /\ ops[i] \in Op /\ ops[i].stage = "answered" /\ k \in Keys
      /\ holder = None /\ holder # "map"
  BY ForwardAssumption, Zenon DEF AddResolves, ForwardInv, ForwardTypeOK, Op
<1>2. /\ o \in Op /\ o.key = k /\ o.mapping = ops[i].mapping
      /\ o.stage = IF gone THEN "cleaning" ELSE "cleaned"
  BY <1>1, Zenon DEF Op
<1>3. ops' = [ops EXCEPT ![i] = o]
  BY Zenon DEF AddResolves
<1>4. ops[i].mapping \in DOMAIN made /\ made[ops[i].mapping] = k
  BY <1>1, Zenon DEF ForwardInv, AddsAreKnown, Undecided
<1>5. Untracked(ops[i].mapping) <=> k \notin TrackedKeys
  BY <1>4, UntrackedMeans, Zenon DEF ForwardInv
<1> HIDE DEF o
<1>6. /\ DOMAIN ops' = DOMAIN ops /\ ops'[i] = o
      /\ \A j \in DOMAIN ops : j # i => ops'[j] = ops[j]
  BY <1>1, <1>3, Zenon
<1>7. UNCHANGED <<client, mappings, made, inflight, teardowns, cancel, holder, mapOp, unmapping,
                  loops, stopped, gateway, stray>>
  BY Zenon DEF AddResolves
<1>8. TrackedKeys' = TrackedKeys
  BY <1>7, Zenon DEF TrackedKeys
<1>9. ASSUME NEW h \in gateway', h \notin TrackedKeys', h \notin stray'
      PROVE  \E j \in DOMAIN ops' : AnswersFor(j, h)'
  <2>1. PICK j \in DOMAIN ops : AnswersFor(j, h)
    BY <1>7, <1>8, <1>9, Zenon DEF ForwardInv, PortsAreAnsweredFor
  <2>2. CASE j # i
    BY <1>6, <2>1, <2>2, Zenon DEF AnswersFor
  <2>3. CASE j = i
    <3>1. h = k /\ MayHaveLanded(ops[i].result)
      BY <1>1, <2>1, <2>3, Zenon DEF AnswersFor
    <3>2. o.stage = "cleaning"
      BY <1>2, <1>5, <1>8, <1>9, <3>1, Zenon
    <3> QED
      BY <1>1, <1>2, <1>6, <3>1, <3>2, Zenon DEF AnswersFor
  <2> QED
    BY <2>2, <2>3, Zenon
<1>10. PortsAreAnsweredFor'
  BY <1>9 DEF PortsAreAnsweredFor
<1>11. o.stage = "cleaning" => o.key \notin TrackedKeys
  BY <1>2, <1>5, Zenon
<1>12. o.stage \in {"cleaning", "cleaned"}
  BY <1>2, Zenon
<1>13. gateway' \subseteq Keys /\ stray' \subseteq Keys
  BY <1>7, Zenon DEF ForwardInv, ForwardTypeOK
<1>14. /\ DOMAIN loops' \subseteq Loops /\ (\A l \in DOMAIN loops' : loops'[l] \in Loop)
       /\ RenewalsAreKnown'
  BY <1>2, <1>6, <1>7, RenewalsStay, Zenon DEF ForwardInv, ForwardTypeOK
<1> QED
  BY <1>1, <1>2, <1>3, <1>7, <1>10, <1>11, <1>12, <1>13, <1>14, MovesKeep, Zenon

\* A delete that UnmapPort gave up on comes through, or fails.
LEMMA AbandonedDeleteEndsKeeps ==
  ASSUME ForwardInv, NEW i \in Ops, AbandonedDeleteEnds(i)
  PROVE  ForwardInv'
<1>1. i \in DOMAIN ops /\ ops[i].stage = "deleting" /\ ops' = Dropped(ops, i)
  BY Zenon DEF AbandonedDeleteEnds
<1>2. /\ UNCHANGED <<client, mappings, made, inflight, teardowns, cancel, holder, mapOp, unmapping,
                      loops, stopped, stray>>
      /\ gateway' \subseteq gateway
  BY Zenon DEF AbandonedDeleteEnds
<1>3. DOMAIN ops' = DOMAIN ops \ {i} /\ \A j \in DOMAIN ops' : ops'[j] = ops[j]
  BY <1>1, OpEnds, Zenon DEF ForwardInv
<1>4. holder = "map" => i # mapOp
  BY <1>1, Zenon DEF ForwardInv, MapWaitsAlone, Undecided
<1>5. TrackedKeys' = TrackedKeys
  BY <1>2, Zenon DEF TrackedKeys
<1>6. \A j \in DOMAIN ops, h \in gateway : AnswersFor(j, h) => j \in DOMAIN ops' /\ AnswersFor(j, h)'
  BY <1>1, <1>3, Zenon DEF AnswersFor
<1>7. PortsAreAnsweredFor'
  BY <1>2, <1>5, <1>6, Zenon DEF ForwardInv, PortsAreAnsweredFor
<1>8. /\ DOMAIN loops' \subseteq Loops /\ (\A l \in DOMAIN loops' : loops'[l] \in Loop)
      /\ RenewalsAreKnown'
  BY <1>2, <1>3, RenewalsStay, Zenon DEF ForwardInv, ForwardTypeOK
<1>9. gateway' \subseteq Keys /\ stray' \subseteq Keys
  BY <1>2, Zenon DEF ForwardInv, ForwardTypeOK
<1> QED
  BY <1>1, <1>2, <1>4, <1>7, <1>8, <1>9, EndsKeep, Zenon

\* A goroutine that has dealt with its call releases the port.
LEMMA CleanupEndsKeeps ==
  ASSUME ForwardInv, NEW i \in Ops, CleanupEnds(i)
  PROVE  ForwardInv'
<1>1. /\ i \in DOMAIN ops /\ ops[i].stage = "cleaned" /\ ops' = Dropped(ops, i)
      /\ inflight' = Released(ops[i].key) /\ holder # "map"
  BY ForwardAssumption, Zenon DEF CleanupEnds
<1>2. UNCHANGED <<client, mappings, made, teardowns, cancel, holder, mapOp, unmapping, loops,
                  stopped, gateway, stray>>
  BY Zenon DEF CleanupEnds
<1>3. DOMAIN ops' = DOMAIN ops \ {i} /\ \A j \in DOMAIN ops' : ops'[j] = ops[j]
  BY <1>1, OpEnds, Zenon DEF ForwardInv
<1>4. TrackedKeys' = TrackedKeys
  BY <1>2, Zenon DEF TrackedKeys
<1>5. \A j \in DOMAIN ops, h \in gateway : AnswersFor(j, h) => j \in DOMAIN ops' /\ AnswersFor(j, h)'
  BY <1>1, <1>3, Zenon DEF AnswersFor
<1>6. PortsAreAnsweredFor'
  BY <1>2, <1>4, <1>5, Zenon DEF ForwardInv, PortsAreAnsweredFor
<1>7. /\ DOMAIN loops' \subseteq Loops /\ (\A l \in DOMAIN loops' : loops'[l] \in Loop)
      /\ RenewalsAreKnown'
  BY <1>2, <1>3, RenewalsStay, Zenon DEF ForwardInv, ForwardTypeOK
<1>8. gateway' \subseteq Keys /\ stray' \subseteq Keys
  BY <1>2, Zenon DEF ForwardInv, ForwardTypeOK
<1> QED
  BY <1>1, <1>2, <1>6, <1>7, <1>8, EndsKeep, Zenon

\* MapPort gives up.
LEMMA MapGivesUpKeeps ==
  ASSUME ForwardInv, MapGivesUp
  PROVE  ForwardInv'
<1>1. MapWaitsAlone' /\ UnmapVisitsTracked'
  BY ForwardAssumption, Zenon DEF MapGivesUp, MapWaitsAlone, UnmapVisitsTracked
<1>2. RenewalsAreKnown'
  BY RenewalsStay, Zenon DEF ForwardInv, MapGivesUp
<1> QED
  BY <1>1, <1>2, QuietKeeps, Zenon DEF ForwardInv, ForwardTypeOK, MapGivesUp

\* UnmapPort begins,
LEMMA UnmapPortKeeps ==
  ASSUME ForwardInv, UnmapPort
  PROVE  ForwardInv'
<1>1. MapWaitsAlone' /\ UnmapVisitsTracked'
  BY Zenon DEF UnmapPort, Active, MapWaitsAlone, UnmapVisitsTracked
<1>2. RenewalsAreKnown'
  BY RenewalsStay, Zenon DEF ForwardInv, UnmapPort
<1>3. unmapping' \subseteq ProtocolSet /\ stopped' \subseteq Loops
  BY Zenon DEF ForwardInv, ForwardTypeOK, UnmapPort, Active
<1> QED
  BY <1>1, <1>2, <1>3, QuietKeeps DEF ForwardInv, ForwardTypeOK, UnmapPort

\* and returns.
LEMMA UnmapReturnsKeeps ==
  ASSUME ForwardInv, UnmapReturns
  PROVE  ForwardInv'
<1>1. MapWaitsAlone' /\ UnmapVisitsTracked'
  BY ForwardAssumption, Zenon DEF UnmapReturns, MapWaitsAlone, UnmapVisitsTracked
<1>2. RenewalsAreKnown'
  BY RenewalsStay, Zenon DEF ForwardInv, UnmapReturns
<1> QED
  BY <1>1, <1>2, QuietKeeps, Zenon DEF ForwardInv, ForwardTypeOK, UnmapReturns

\* A renewal loop starts.
LEMMA StartRenewalKeeps ==
  ASSUME ForwardInv, StartRenewal
  PROVE  ForwardInv'
<1> DEFINE l == CHOOSE n \in Loops : n \notin DOMAIN loops \cup stopped
           r == [stage |-> "waiting", todo |-> {}, now |-> None, op |-> None, teardowns |-> 0]
<1>1. l \in Loops /\ l \notin DOMAIN loops /\ cancel' = l /\ loops' = With(loops, l, r)
  BY Zenon DEF StartRenewal
<1>2. r \in Loop /\ r.stage = "waiting" /\ r.todo = {}
  BY Zenon DEF Loop
<1> HIDE DEF l, r
<1>3. /\ DOMAIN loops' = DOMAIN loops \cup {l} /\ loops'[l] = r
      /\ \A n \in DOMAIN loops : loops'[n] = loops[n]
  BY <1>1, Zenon DEF With
<1>4. DOMAIN loops' \subseteq Loops /\ (\A n \in DOMAIN loops' : loops'[n] \in Loop)
  BY <1>1, <1>2, <1>3, Zenon DEF ForwardInv, ForwardTypeOK
<1>5. UNCHANGED <<client, mappings, made, inflight, teardowns, holder, mapOp, unmapping, ops,
                  stopped, gateway, stray>>
  BY Zenon DEF StartRenewal
<1>6. RenewalsAreKnown'
  BY <1>2, <1>3, <1>5, Zenon DEF ForwardInv, RenewalsAreKnown
<1>7. MapWaitsAlone' /\ UnmapVisitsTracked'
  BY <1>5, Zenon DEF ForwardInv, MapWaitsAlone, UnmapVisitsTracked, HoldersOf, Undecided
<1> QED
  BY <1>1, <1>4, <1>5, <1>6, <1>7, QuietKeeps, ZenonT(60) DEF ForwardInv, ForwardTypeOK

\* A loop's context ends.
LEMMA SessionEndsKeeps ==
  ASSUME ForwardInv, NEW l \in Loops, SessionEnds(l)
  PROVE  ForwardInv'
<1>1. MapWaitsAlone' /\ UnmapVisitsTracked'
  BY Zenon DEF SessionEnds, ForwardInv, MapWaitsAlone, UnmapVisitsTracked, HoldersOf, Undecided
<1>2. RenewalsAreKnown'
  BY RenewalsStay, Zenon DEF ForwardInv, SessionEnds
<1> QED
  BY <1>1, <1>2, QuietKeeps, Zenon DEF ForwardInv, ForwardTypeOK, SessionEnds

\* A loop takes its snapshot, or ends.
LEMMA RenewalDueKeeps ==
  ASSUME ForwardInv, NEW l \in Loops, RenewalDue(l)
  PROVE  ForwardInv'
<1> DEFINE r == [loops[l] EXCEPT !.stage = "next", !.teardowns = teardowns,
                                 !.todo = {mappings[p] : p \in Active}]
<1>1. /\ l \in DOMAIN loops /\ loops[l] \in Loop
      /\ loops' = Dropped(loops, l) \/ loops' = [loops EXCEPT ![l] = r]
  BY Zenon DEF RenewalDue, ForwardInv, ForwardTypeOK
<1>2. {mappings[p] : p \in Active} \subseteq DOMAIN made /\ DOMAIN made \subseteq Mappings
  BY ZenonT(60) DEF ForwardInv, ForwardTypeOK, TrackedAreMade, Active
<1>3. r \in Loop /\ r.stage = "next" /\ r.todo \subseteq DOMAIN made
  BY <1>1, <1>2, Zenon DEF Loop, ForwardInv, ForwardTypeOK
<1> HIDE DEF r
<1>4. UNCHANGED <<client, mappings, made, inflight, teardowns, cancel, holder, mapOp, unmapping,
                  ops, stopped, gateway, stray>>
  BY Zenon DEF RenewalDue
<1>5. /\ DOMAIN loops' \subseteq Loops /\ (\A n \in DOMAIN loops' : loops'[n] \in Loop)
      /\ RenewalsAreKnown'
  BY <1>1, <1>3, <1>4, LoopEnds, LoopMoves, Zenon
<1>6. MapWaitsAlone' /\ UnmapVisitsTracked'
  BY <1>4, ZenonT(60) DEF ForwardInv, MapWaitsAlone, UnmapVisitsTracked, HoldersOf, Undecided
<1> QED
  BY <1>4, <1>5, <1>6, QuietKeeps, Zenon DEF ForwardInv, ForwardTypeOK

\* A loop looks at its context.
LEMMA LoopChecksContextKeeps ==
  ASSUME ForwardInv, NEW l \in Loops, LoopChecksContext(l)
  PROVE  ForwardInv'
<1> DEFINE r == [loops[l] EXCEPT !.stage = IF loops[l].todo = {} THEN "waiting" ELSE "locking"]
<1>1. /\ l \in DOMAIN loops /\ loops[l] \in Loop
      /\ loops' = Dropped(loops, l) \/ loops' = [loops EXCEPT ![l] = r]
  BY Zenon DEF LoopChecksContext, ForwardInv, ForwardTypeOK
<1>2. r \in Loop /\ r.stage # "renewing" /\ r.todo = loops[l].todo
  BY <1>1, Zenon DEF Loop
<1>3. r.todo \subseteq DOMAIN made
  BY <1>1, <1>2, Zenon DEF ForwardInv, RenewalsAreKnown
<1> HIDE DEF r
<1>4. UNCHANGED <<client, mappings, made, inflight, teardowns, cancel, holder, mapOp, unmapping,
                  ops, stopped, gateway, stray>>
  BY Zenon DEF LoopChecksContext
<1>5. /\ DOMAIN loops' \subseteq Loops /\ (\A n \in DOMAIN loops' : loops'[n] \in Loop)
      /\ RenewalsAreKnown'
  BY <1>1, <1>2, <1>3, <1>4, LoopEnds, LoopMoves, Zenon
<1>6. MapWaitsAlone' /\ UnmapVisitsTracked'
  BY <1>4, SMTT(30) DEF ForwardInv, MapWaitsAlone, UnmapVisitsTracked, HoldersOf, Undecided
<1> QED
  BY <1>4, <1>5, <1>6, QuietKeeps DEF ForwardInv, ForwardTypeOK

\* renew has its answer.
LEMMA RenewReturnsKeeps ==
  ASSUME ForwardInv, NEW l \in Loops, NEW claims \in BOOLEAN, RenewReturns(l, claims)
  PROVE  ForwardInv'
<1> DEFINE r == [loops[l] EXCEPT !.stage = "next", !.op = None, !.now = None]
           i == loops[l].op
           k == made[loops[l].now]
<1>1. /\ l \in DOMAIN loops /\ loops[l] \in Loop /\ loops[l].stage = "renewing"
      /\ loops' = Dropped(loops, l) \/ loops' = [loops EXCEPT ![l] = r]
  BY Zenon DEF RenewReturns, ForwardInv, ForwardTypeOK
<1>2. r \in Loop /\ r.stage # "renewing" /\ r.todo = loops[l].todo
  BY <1>1, Zenon DEF Loop
<1>3. r.todo \subseteq DOMAIN made
  BY <1>1, <1>2, Zenon DEF ForwardInv, RenewalsAreKnown
<1> HIDE DEF r
<1>4. /\ UNCHANGED <<client, mappings, made, teardowns, cancel, holder, mapOp, unmapping, stopped,
                      gateway, stray>>
      /\ holder # "map"
  BY ForwardAssumption, Zenon DEF RenewReturns
<1>5. ASSUME \A j \in DOMAIN ops' : j \in DOMAIN ops /\ ops'[j].key = ops[j].key
      PROVE  /\ DOMAIN loops' \subseteq Loops /\ (\A n \in DOMAIN loops' : loops'[n] \in Loop)
             /\ RenewalsAreKnown'
  BY <1>1, <1>2, <1>3, <1>4, <1>5, LoopEnds, LoopMoves, Zenon
<1>6. TrackedKeys' = TrackedKeys
  BY <1>4, Zenon DEF TrackedKeys
<1>7. gateway' \subseteq Keys /\ stray' \subseteq Keys
  BY <1>4, Zenon DEF ForwardInv, ForwardTypeOK
<1>8. CASE ~claims
  <2>1. UNCHANGED <<ops, inflight>>
    BY <1>8, Zenon DEF RenewReturns
  <2>2. MapWaitsAlone' /\ UnmapVisitsTracked'
    BY <1>4, <2>1, Zenon DEF ForwardInv, MapWaitsAlone, UnmapVisitsTracked, HoldersOf, Undecided
  <2> QED
    BY <1>4, <1>5, <2>1, <2>2, QuietKeeps, Zenon DEF ForwardInv, ForwardTypeOK
<1>9. CASE claims
  <2>1. /\ i \in DOMAIN ops /\ ops[i].stage = "answered"
        /\ IF MayHaveLanded(ops[i].result) /\ Untracked(loops[l].now)
           THEN ops' = [ops EXCEPT ![i] = CleanupOp(k)] /\ UNCHANGED inflight
           ELSE ops' = Dropped(ops, i) /\ inflight' = Released(k)
    BY <1>9, Zenon DEF RenewReturns
  <2>2. loops[l].now \in DOMAIN made /\ ops[i].key = k /\ k \in Keys
    BY <1>1, <2>1, Zenon DEF ForwardInv, ForwardTypeOK, RenewalsAreKnown
  <2>3. Untracked(loops[l].now) <=> k \notin TrackedKeys
    BY <2>2, UntrackedMeans, Zenon DEF ForwardInv
  <2>4. CASE MayHaveLanded(ops[i].result) /\ Untracked(loops[l].now)
    <3> DEFINE o == CleanupOp(k)
    <3>1. o \in Op /\ o.key = k /\ o.stage = "cleaning"
      BY <2>2, Zenon DEF CleanupOp, Op
    <3>2. ops' = [ops EXCEPT ![i] = o] /\ UNCHANGED inflight
      BY <2>1, <2>4, Zenon
    <3> HIDE DEF o
    <3>3. /\ DOMAIN ops' = DOMAIN ops /\ ops'[i] = o
          /\ \A j \in DOMAIN ops : j # i => ops'[j] = ops[j]
      BY <2>1, <3>2, Zenon
    <3>4. \A j \in DOMAIN ops' : j \in DOMAIN ops /\ ops'[j].key = ops[j].key
      BY <2>2, <3>1, <3>3, Zenon
    <3>5. \A j \in DOMAIN ops, h \in gateway : AnswersFor(j, h) => AnswersFor(j, h)'
      BY <2>2, <3>1, <3>3, Zenon DEF AnswersFor
    <3>6. PortsAreAnsweredFor'
      BY <1>4, <1>6, <3>3, <3>5, Zenon DEF ForwardInv, PortsAreAnsweredFor
    <3> QED
      BY <1>4, <1>5, <1>7, <2>1, <2>2, <2>3, <2>4, <3>1, <3>2, <3>4, <3>6, MovesKeep, Zenon
  <2>5. CASE ~(MayHaveLanded(ops[i].result) /\ Untracked(loops[l].now))
    <3>1. ops' = Dropped(ops, i) /\ inflight' = Released(ops[i].key)
      BY <2>1, <2>2, <2>5, ZenonT(60)
    <3>2. DOMAIN ops' = DOMAIN ops \ {i} /\ \A j \in DOMAIN ops' : ops'[j] = ops[j]
      BY <2>1, <3>1, OpEnds, Zenon DEF ForwardInv
    <3>3. \A j \in DOMAIN ops, h \in gateway :
             AnswersFor(j, h) => h \in TrackedKeys \/ (j \in DOMAIN ops' /\ AnswersFor(j, h)')
      BY <2>1, <2>2, <2>3, <2>5, <3>2, SMTT(30) DEF AnswersFor
    <3>4. PortsAreAnsweredFor'
      BY <1>4, <1>6, <3>3, Zenon DEF ForwardInv, PortsAreAnsweredFor
    <3> QED
      BY <1>4, <1>5, <1>7, <2>1, <3>1, <3>2, <3>4, EndsKeep, ZenonT(60)
  <2> QED
    BY <2>4, <2>5, Zenon
<1> QED
  BY <1>8, <1>9, Zenon

\* MapPort starts its call.
LEMMA MapPortKeeps ==
  ASSUME ForwardInv, NEW p \in ProtocolSet, NEW port \in Ports, MapPort(p, port)
  PROVE  ForwardInv'
<1> DEFINE k == <<p, port>>
           i == NewOp
           m == CHOOSE n \in Mappings : n \notin DOMAIN made
           o == AddOp(k, m)
<1>1. i \in Ops /\ i \notin DOMAIN ops /\ \A l \in DOMAIN loops : loops[l].op # i
  BY Zenon DEF MapPort, NewOp, Spare
<1>2. m \in Mappings /\ m \notin DOMAIN made
  BY Zenon DEF MapPort
<1>3. k \in Keys /\ k[1] = p
  BY Zenon DEF Keys
<1>4. /\ made' = With(made, m, k) /\ ops' = With(ops, i, o) /\ mapOp' = i
      /\ inflight' = Held(k) /\ holder' = "map" /\ inflight[k] = 0 /\ mappings[p] = None
      /\ UNCHANGED <<client, mappings, teardowns, cancel, unmapping, loops, stopped, gateway, stray>>
  BY Zenon DEF MapPort
<1>5. o \in Op /\ o.key = k /\ o.mapping = m /\ o.stage = "adding"
  BY <1>2, <1>3, Zenon DEF AddOp, Op
<1> HIDE DEF i, m, o, k
<1>6. /\ DOMAIN ops' = DOMAIN ops \cup {i} /\ ops'[i] = o
      /\ \A j \in DOMAIN ops : j # i /\ ops'[j] = ops[j]
      /\ DOMAIN ops' \subseteq Ops /\ \A j \in DOMAIN ops' : ops'[j] \in Op
      /\ \A h : i \notin HoldersOf(h)
      /\ \A h : HoldersOf(h)' = IF o.key = h /\ o.stage # "deleting" THEN HoldersOf(h) \cup {i}
                               ELSE HoldersOf(h)
  BY <1>1, <1>4, <1>5, OpStarts, Zenon DEF ForwardInv
<1>7. /\ DOMAIN made' = DOMAIN made \cup {m} /\ made'[m] = k
      /\ \A n \in DOMAIN made : made'[n] = made[n]
  BY <1>2, <1>4, ZenonT(60) DEF With
<1>8. HoldersOf(k) = {}
  BY <1>3, <1>4, HoldersAreFinite, FS_EmptySet, Zenon DEF ForwardInv, InflightIsExact
<1>9. inflight' \in [Keys -> Nat] /\ InflightIsExact'
  <2>1. HoldersOf(k)' = HoldersOf(k) \cup {i} /\ \A h \in Keys : h # k => HoldersOf(h)' = HoldersOf(h)
    BY <1>5, <1>6, Zenon
  <2> QED
    BY <1>3, <1>4, <1>6, <2>1, HoldCounts, Zenon DEF ForwardInv
<1>10. ForwardTypeOK'
  BY <1>1, <1>2, <1>3, <1>4, <1>6, <1>7, <1>9, ZenonT(60) DEF ForwardInv, ForwardTypeOK
<1>11. TrackedAreMade' /\ UnmapVisitsTracked'
  BY <1>4, <1>7, ZenonT(60) DEF ForwardInv, TrackedAreMade, UnmapVisitsTracked
<1>12. AddsAreKnown'
  BY <1>5, <1>6, <1>7, SMTT(30) DEF ForwardInv, AddsAreKnown, Undecided
<1>13. MapWaitsAlone'
  BY <1>3, <1>4, <1>5, <1>6, <1>8 DEF MapWaitsAlone, HoldersOf, Undecided
<1>14. RenewalsAreKnown'
  BY <1>1, <1>4, <1>6, <1>7, RenewalsStay, ZenonT(60) DEF ForwardInv
<1>15. TrackedKeys' = TrackedKeys
  <2>1. \A q \in ProtocolSet : mappings[q] # None => made'[mappings[q]] = made[mappings[q]]
    BY <1>7, Zenon DEF ForwardInv, TrackedAreMade
  <2> QED
    BY <1>4, <2>1, Zenon DEF TrackedKeys
<1>16. PortsAreAnsweredFor' /\ CleanupSparesTracked'
  BY <1>4, <1>5, <1>6, <1>15 DEF ForwardInv, PortsAreAnsweredFor, CleanupSparesTracked, AnswersFor
<1> QED
  BY <1>9, <1>10, <1>11, <1>12, <1>13, <1>14, <1>16, Zenon DEF ForwardInv

\* renew's call: a key already tracked gets another call that holds it.
LEMMA RenewalCallKeeps ==
  ASSUME ForwardInv, NEW l \in DOMAIN loops, NEW m \in DOMAIN made, NEW k \in Keys, k = made[m],
         NEW i \in Ops, i \notin DOMAIN ops, \A n \in DOMAIN loops : loops[n].op # i,
         NEW o \in Op, o.key = k, o.mapping = m, o.stage = "adding",
         NEW r \in Loop, r.stage = "renewing", r.op = i, r.now = m, r.todo \subseteq DOMAIN made,
         ops' = With(ops, i, o), inflight' = Held(k), loops' = [loops EXCEPT ![l] = r],
         holder # "map",
         UNCHANGED <<client, mappings, made, teardowns, cancel, holder, mapOp, unmapping, stopped,
                     gateway, stray>>
  PROVE  ForwardInv'
<1>1. /\ DOMAIN ops' = DOMAIN ops \cup {i} /\ ops'[i] = o
      /\ \A j \in DOMAIN ops : j # i /\ ops'[j] = ops[j]
      /\ DOMAIN ops' \subseteq Ops /\ \A j \in DOMAIN ops' : ops'[j] \in Op
      /\ \A h : i \notin HoldersOf(h)
      /\ \A h : HoldersOf(h)' = IF o.key = h /\ o.stage # "deleting" THEN HoldersOf(h) \cup {i}
                               ELSE HoldersOf(h)
  BY OpStarts, Zenon DEF ForwardInv
<1>2. /\ DOMAIN loops' = DOMAIN loops /\ loops'[l] = r
      /\ \A n \in DOMAIN loops : n # l => loops'[n] = loops[n]
  BY Zenon
<1>3. inflight' \in [Keys -> Nat] /\ InflightIsExact'
  <2>1. /\ HoldersOf(k)' = HoldersOf(k) \cup {i}
        /\ \A h \in Keys : h # k => HoldersOf(h)' = HoldersOf(h)
    BY <1>1, Zenon
  <2> QED
    BY <1>1, <2>1, HoldCounts, ZenonT(60) DEF ForwardInv
<1>4. DOMAIN loops' \subseteq Loops /\ \A n \in DOMAIN loops' : loops'[n] \in Loop
  BY <1>2, ZenonT(60) DEF ForwardInv, ForwardTypeOK
<1>5. ForwardTypeOK'
  BY <1>1, <1>3, <1>4, ZenonT(60) DEF ForwardInv, ForwardTypeOK
<1>6. TrackedAreMade' /\ UnmapVisitsTracked' /\ MapWaitsAlone'
  BY ZenonT(60) DEF ForwardInv, TrackedAreMade, UnmapVisitsTracked, MapWaitsAlone
<1>7. AddsAreKnown'
  BY <1>1, SMTT(30) DEF ForwardInv, AddsAreKnown, Undecided
<1>8. RenewalsAreKnown'
  <2>1. r.now \in DOMAIN made /\ r.op \in Ops /\ ops'[r.op].key = made[r.now]
    BY <1>1, Zenon
  <2>2. \A n \in DOMAIN loops : loops[n].op \in DOMAIN ops' =>
           loops[n].op \in DOMAIN ops /\ ops'[loops[n].op] = ops[loops[n].op]
    BY <1>1, Zenon
  <2> QED
    BY <1>2, <2>1, <2>2 DEF ForwardInv, RenewalsAreKnown
<1>9. TrackedKeys' = TrackedKeys
  BY Zenon DEF TrackedKeys
<1>10. PortsAreAnsweredFor' /\ CleanupSparesTracked'
  BY <1>1, <1>9, SMTT(30) DEF ForwardInv, PortsAreAnsweredFor, CleanupSparesTracked, AnswersFor
<1>11. ForwardTypeOK' /\ InflightIsExact' /\ TrackedAreMade' /\ UnmapVisitsTracked' /\ MapWaitsAlone'
  BY <1>3, <1>5, <1>6, Zenon
<1> QED
  BY <1>7, <1>8, <1>10, <1>11, Zenon DEF ForwardInv

\* renew starts its call, or finds the mapping gone.
LEMMA RenewAddsKeeps ==
  ASSUME ForwardInv, NEW l \in Loops, RenewAdds(l)
  PROVE  ForwardInv'
<1>1. PICK m \in loops[l].todo :
         \/ /\ loops' = Dropped(loops, l)
            /\ UNCHANGED <<ops, inflight>>
         \/ /\ mappings[made[m][1]] = m /\ Spare # {}
            /\ ops' = With(ops, NewOp, AddOp(made[m], m))
            /\ inflight' = Held(made[m])
            /\ loops' = [loops EXCEPT ![l].stage = "renewing", ![l].op = NewOp,
                                      ![l].now = m, ![l].todo = @ \ {m}]
  BY Zenon DEF RenewAdds
<1>2. /\ UNCHANGED <<client, mappings, made, teardowns, cancel, holder, mapOp, unmapping, stopped,
                      gateway, stray>>
      /\ holder # "map" /\ l \in DOMAIN loops /\ loops[l] \in Loop
  BY ForwardAssumption, Zenon DEF RenewAdds, ForwardInv, ForwardTypeOK
<1>3. CASE loops' = Dropped(loops, l) /\ UNCHANGED <<ops, inflight>>
  <2>1. MapWaitsAlone' /\ UnmapVisitsTracked'
    BY <1>2, <1>3, ZenonT(60) DEF ForwardInv, MapWaitsAlone, UnmapVisitsTracked
  <2>2. /\ DOMAIN loops' \subseteq Loops /\ (\A n \in DOMAIN loops' : loops'[n] \in Loop)
        /\ RenewalsAreKnown'
    BY <1>2, <1>3, LoopEnds, ZenonT(60)
  <2> QED
    BY <1>2, <1>3, <2>1, <2>2, QuietKeeps, ZenonT(60) DEF ForwardInv, ForwardTypeOK
<1>4. CASE /\ Spare # {}
           /\ ops' = With(ops, NewOp, AddOp(made[m], m))
           /\ inflight' = Held(made[m])
           /\ loops' = [loops EXCEPT ![l].stage = "renewing", ![l].op = NewOp,
                                     ![l].now = m, ![l].todo = @ \ {m}]
  <2>0. PICK k : k = made[m]
    BY Zenon
  <2> DEFINE i == NewOp
             o == AddOp(k, m)
             r == [loops[l] EXCEPT !.stage = "renewing", !.op = i, !.now = m, !.todo = @ \ {m}]
  <2>1. i \in Ops /\ i \notin DOMAIN ops /\ \A n \in DOMAIN loops : loops[n].op # i
    BY <1>4, ZenonT(60) DEF NewOp, Spare
  <2>2. m \in DOMAIN made /\ m \in Mappings /\ k \in Keys /\ loops[l].todo \subseteq DOMAIN made
    BY <1>2, <2>0, Zenon DEF ForwardInv, ForwardTypeOK, RenewalsAreKnown
  <2>3. o \in Op /\ o.key = k /\ o.mapping = m /\ o.stage = "adding"
    BY <2>2, Zenon DEF AddOp, Op
  <2>4. /\ r \in Loop /\ r.stage = "renewing" /\ r.op = i /\ r.now = m
        /\ r.todo = loops[l].todo \ {m}
    BY <1>2, <2>1, <2>2, Zenon DEF Loop
  <2>5. ops' = With(ops, i, o) /\ inflight' = Held(k) /\ loops' = [loops EXCEPT ![l] = r]
    BY <1>4, <2>0, Zenon
  <2> HIDE DEF i, o, r
  <2>6. l \in DOMAIN loops /\ holder # "map" /\ r.todo \subseteq DOMAIN made
    BY <1>2, <2>2, <2>4, Zenon
  <2> QED
    BY <1>2, <2>0, <2>1, <2>2, <2>3, <2>4, <2>5, <2>6, RenewalCallKeeps, Zenon
<1> QED
  BY <1>1, <1>3, <1>4, Zenon

\* MapPort tracks the mapping it made, and its hold on the key ends.
LEMMA TrackingKeeps ==
  ASSUME ForwardInv, NEW k \in Keys, NEW m \in DOMAIN made, made[m] = k, mapOp \in DOMAIN ops,
         ops[mapOp].key = k, HoldersOf(k) = {mapOp}, k[1] \in ProtocolSet,
         ops' = Dropped(ops, mapOp), inflight' = Released(k),
         mappings' = [mappings EXCEPT ![k[1]] = m], stray' = stray \ {k},
         mappings[k[1]] = None, holder' = None, mapOp' = None,
         UNCHANGED <<client, made, teardowns, cancel, unmapping, loops, stopped, gateway>>
  PROVE  ForwardInv'
<1>1. /\ DOMAIN ops' = DOMAIN ops \ {mapOp}
      /\ \A j \in DOMAIN ops' : ops'[j] = ops[j]
      /\ DOMAIN ops' \subseteq Ops /\ \A j \in DOMAIN ops' : ops'[j] \in Op
      /\ \A h : HoldersOf(h)' = HoldersOf(h) \ {mapOp}
      /\ \A h : mapOp \in HoldersOf(h) => h = k
  BY OpEnds, Zenon DEF ForwardInv
<1>2. m \in Mappings /\ m # None
  BY ForwardAssumption, Zenon DEF ForwardInv, ForwardTypeOK
<1>3. /\ mappings'[k[1]] = m
      /\ \A q \in ProtocolSet : q # k[1] => mappings'[q] = mappings[q]
  BY Zenon DEF ForwardInv, ForwardTypeOK
<1>4. inflight' \in [Keys -> Nat] /\ InflightIsExact'
  <2>1. mapOp \in HoldersOf(k) /\ \A h \in Keys : h # k => HoldersOf(h)' = HoldersOf(h)
    BY <1>1, SMTT(30)
  <2> QED
    BY <1>1, <2>1, ReleaseCounts, Zenon DEF ForwardInv
<1>5. mappings' \in [ProtocolSet -> Mappings \cup {None}]
  BY <1>2, Zenon DEF ForwardInv, ForwardTypeOK
<1>6. ForwardTypeOK'
  BY <1>1, <1>4, <1>5, ForwardAssumption, Zenon DEF ForwardInv, ForwardTypeOK
<1>7. TrackedAreMade'
  BY <1>2, <1>3 DEF ForwardInv, TrackedAreMade
<1>8. MapWaitsAlone' /\ UnmapVisitsTracked'
  BY ForwardAssumption, Zenon DEF MapWaitsAlone, UnmapVisitsTracked
<1>9. AddsAreKnown'
  BY <1>1, SMTT(30) DEF ForwardInv, AddsAreKnown, Undecided
<1>10. RenewalsAreKnown'
  BY <1>1, RenewalsStay, ZenonT(60) DEF ForwardInv
<1>11. TrackedKeys' = TrackedKeys \cup {k}
  BY <1>2, <1>3, SMTT(30) DEF TrackedKeys
<1>12. PortsAreAnsweredFor'
  <2>1. \A j \in DOMAIN ops, h \in gateway :
           AnswersFor(j, h) => h = k \/ (j \in DOMAIN ops' /\ AnswersFor(j, h)')
    BY <1>1, ZenonT(60) DEF AnswersFor
  <2> QED
    BY <1>11, <2>1, Zenon DEF ForwardInv, PortsAreAnsweredFor
<1>13. CleanupSparesTracked'
  <2>1. \A j \in DOMAIN ops' : ops[j].stage # "deleting" => ops[j].key # k
    BY <1>1, Zenon DEF HoldersOf
  <2> QED
    BY <1>1, <1>11, <2>1, Zenon DEF ForwardInv, CleanupSparesTracked
<1>14. ForwardTypeOK' /\ InflightIsExact' /\ TrackedAreMade' /\ UnmapVisitsTracked' /\ MapWaitsAlone'
  BY <1>4, <1>6, <1>7, <1>8, Zenon
<1> QED
  BY <1>9, <1>10, <1>12, <1>13, <1>14, Zenon DEF ForwardInv

\* MapPort has its answer.
LEMMA MapReturnsKeeps ==
  ASSUME ForwardInv, NEW gaveUp \in BOOLEAN, MapReturns(gaveUp)
  PROVE  ForwardInv'
<1> DEFINE m == ops[mapOp].mapping
           k == ops[mapOp].key
           result == ops[mapOp].result
           remove == MayHaveLanded(result) /\ (gaveUp \/ result = "unknown")
           tracks == result = "ok" /\ ~gaveUp
<1>1. /\ mapOp \in DOMAIN ops /\ ops[mapOp] \in Op /\ ops[mapOp].stage = "answered"
      /\ HoldersOf(k) = {mapOp} /\ mappings[k[1]] = None
      /\ m \in DOMAIN made /\ made[m] = k /\ k \in Keys /\ k[1] \in ProtocolSet
  BY KeyHasProtocol, Zenon DEF MapReturns, ForwardInv, ForwardTypeOK, MapWaitsAlone, AddsAreKnown,
                        Undecided, Op
<1>2. /\ UNCHANGED <<client, made, teardowns, cancel, unmapping, loops, stopped, gateway>>
      /\ holder' = None /\ mapOp' = None
  BY ZenonT(60) DEF MapReturns
<1>3. k \notin TrackedKeys
  BY <1>1, Zenon DEF ForwardInv, TrackedKeys, TrackedAreMade
<1>4. DOMAIN loops' \subseteq Loops /\ \A n \in DOMAIN loops' : loops'[n] \in Loop
  BY <1>2, Zenon DEF ForwardInv, ForwardTypeOK
<1>5. CASE remove
  <2> DEFINE o == CleanupOp(k)
  <2>1. o \in Op /\ o.key = k /\ o.stage = "cleaning"
    BY <1>1, Zenon DEF CleanupOp, Op
  <2>2. ops' = [ops EXCEPT ![mapOp] = o] /\ UNCHANGED <<inflight, mappings, stray>>
    BY <1>5, ZenonT(60) DEF MapReturns
  <2> HIDE DEF o
  <2>3. /\ DOMAIN ops' = DOMAIN ops /\ ops'[mapOp] = o
        /\ \A j \in DOMAIN ops : j # mapOp => ops'[j] = ops[j]
    BY <1>1, <2>2, Zenon
  <2>4. RenewalsAreKnown'
    BY <1>2, <2>1, <2>3, RenewalsStay, ZenonT(60) DEF ForwardInv
  <2>5. \A j \in DOMAIN ops, h \in gateway : AnswersFor(j, h) => AnswersFor(j, h)'
    BY <2>1, <2>3, Zenon DEF AnswersFor
  <2>6. TrackedKeys' = TrackedKeys
    BY <1>2, <2>2, Zenon DEF TrackedKeys
  <2>7. PortsAreAnsweredFor'
    BY <1>2, <2>2, <2>3, <2>5, <2>6, Zenon DEF ForwardInv, PortsAreAnsweredFor
  <2>8. gateway' \subseteq Keys /\ stray' \subseteq Keys
    BY <1>2, <2>2, Zenon DEF ForwardInv, ForwardTypeOK
  <2> QED
    BY <1>1, <1>2, <1>3, <1>4, <2>1, <2>2, <2>4, <2>7, <2>8, MovesKeep, ZenonT(60)
<1>6. CASE ~remove /\ ~tracks
  <2>1. ops' = Dropped(ops, mapOp) /\ inflight' = Released(k) /\ UNCHANGED <<mappings, stray>>
    BY <1>6, Zenon DEF MapReturns
  <2>2. DOMAIN ops' = DOMAIN ops \ {mapOp} /\ \A j \in DOMAIN ops' : ops'[j] = ops[j]
    BY <1>1, <2>1, OpEnds, Zenon DEF ForwardInv
  <2>3. RenewalsAreKnown'
    BY <1>2, <2>2, RenewalsStay, Zenon DEF ForwardInv
  <2>4. ~MayHaveLanded(result)
    BY <1>6, Zenon DEF MayHaveLanded
  <2>5. \A j \in DOMAIN ops, h \in gateway : AnswersFor(j, h) => j \in DOMAIN ops' /\ AnswersFor(j, h)'
    BY <1>1, <2>2, <2>4, Zenon DEF AnswersFor
  <2>6. TrackedKeys' = TrackedKeys
    BY <1>2, <2>1, Zenon DEF TrackedKeys
  <2>7. PortsAreAnsweredFor'
    BY <1>2, <2>1, <2>5, <2>6, Zenon DEF ForwardInv, PortsAreAnsweredFor
  <2>8. gateway' \subseteq Keys /\ stray' \subseteq Keys
    BY <1>2, <2>1, Zenon DEF ForwardInv, ForwardTypeOK
  <2> QED
    BY <1>1, <1>2, <1>4, <2>1, <2>3, <2>7, <2>8, EndsKeep, Zenon
<1>7. CASE tracks
  <2>1. /\ ops' = Dropped(ops, mapOp) /\ inflight' = Released(k)
        /\ mappings' = [mappings EXCEPT ![k[1]] = m] /\ stray' = stray \ {k}
    BY <1>7, Zenon DEF MapReturns
  <2> QED
    BY <1>1, <1>2, <2>1, TrackingKeeps, Zenon
<1> QED
  BY <1>5, <1>6, <1>7, Zenon

\* UnmapPort deletes one mapping.
LEMMA UnmapDeletesKeeps ==
  ASSUME ForwardInv, UnmapDeletes
  PROVE  ForwardInv'
<1>1. PICK p \in unmapping : UnmapOne(p, made[mappings[p]]) /\ unmapping' = unmapping \ {p}
  BY Zenon DEF UnmapDeletes
<1>2. /\ UNCHANGED <<client, made, inflight, teardowns, cancel, holder, mapOp, loops, stopped>>
      /\ holder # "map" /\ holder = "unmap"
  BY Zenon DEF UnmapDeletes
<1>3. PICK k : k = made[mappings[p]]
  BY Zenon
<1>4. /\ p \in ProtocolSet /\ mappings[p] # None /\ mappings[p] \in DOMAIN made
      /\ k \in Keys /\ k[1] = p /\ unmapping' \subseteq ProtocolSet
  BY <1>1, <1>2, <1>3, Zenon DEF ForwardInv, ForwardTypeOK, UnmapVisitsTracked, TrackedAreMade
<1>5. MapWaitsAlone'
  BY <1>2, Zenon DEF MapWaitsAlone
<1>6. CASE /\ mappings' = [mappings EXCEPT ![p] = None]
           /\ gateway' = gateway \ {k} /\ stray' = stray \ {k} /\ UNCHANGED ops
  <2>1. mappings'[p] = None /\ \A q \in ProtocolSet : q # p => mappings'[q] = mappings[q]
    BY <1>4, <1>6, Zenon DEF ForwardInv, ForwardTypeOK
  <2>2. mappings' \in [ProtocolSet -> Mappings \cup {None}]
    BY <1>4, <1>6, Zenon DEF ForwardInv, ForwardTypeOK
  <2>3. ForwardTypeOK'
    BY <1>2, <1>4, <1>6, <2>2, Zenon DEF ForwardInv, ForwardTypeOK
  <2>4. TrackedAreMade' /\ UnmapVisitsTracked'
    BY <1>1, <1>2, <2>1, ZenonT(60) DEF ForwardInv, ForwardTypeOK, TrackedAreMade, UnmapVisitsTracked
  <2>5. AddsAreKnown'
    BY <1>2, <1>6, Zenon DEF ForwardInv, AddsAreKnown, Undecided
  <2>6. RenewalsAreKnown'
    BY <1>2, <1>6, RenewalsStay, Zenon DEF ForwardInv
  <2>7. TrackedKeys' \subseteq TrackedKeys /\ TrackedKeys \subseteq TrackedKeys' \cup {k}
    BY <1>2, <1>3, <1>4, <2>1 DEF TrackedKeys
  <2>8. \A j \in DOMAIN ops, h \in gateway : AnswersFor(j, h) => AnswersFor(j, h)'
    BY <1>6, Zenon DEF AnswersFor
  <2>9. PortsAreAnsweredFor'
    BY <1>6, <2>7, <2>8, Zenon DEF ForwardInv, PortsAreAnsweredFor
  <2>10. CleanupSparesTracked'
    BY <1>6, <2>7, Zenon DEF ForwardInv, CleanupSparesTracked
  <2>11. InflightIsExact'
    BY <1>2, <1>6, Zenon DEF ForwardInv, InflightIsExact, HoldersOf
  <2> QED
    BY <1>5, <2>3, <2>4, <2>5, <2>6, <2>9, <2>10, <2>11, Zenon DEF ForwardInv
<1>7. CASE gateway' \in {gateway, gateway \ {k}} /\ UNCHANGED <<mappings, ops, stray>>
  <2>1. UnmapVisitsTracked'
    BY <1>1, <1>2, <1>7, Zenon DEF ForwardInv, UnmapVisitsTracked
  <2>2. RenewalsAreKnown'
    BY <1>2, <1>7, RenewalsStay, Zenon DEF ForwardInv
  <2> QED
    BY <1>2, <1>4, <1>5, <1>7, <2>1, <2>2, QuietKeeps, ZenonT(60) DEF ForwardInv, ForwardTypeOK
<1>8. CASE /\ Spare # {} /\ ops' = With(ops, NewOp, [CleanupOp(k) EXCEPT !.stage = "deleting"])
           /\ UNCHANGED <<mappings, gateway, stray>>
  <2> DEFINE i == NewOp
             o == [CleanupOp(k) EXCEPT !.stage = "deleting"]
  <2>1. i \in Ops /\ i \notin DOMAIN ops /\ \A l \in DOMAIN loops : loops[l].op # i
    BY <1>8, Zenon DEF NewOp, Spare
  <2>2. o \in Op /\ o.stage = "deleting" /\ ops' = With(ops, i, o)
    BY <1>4, <1>8, Zenon DEF CleanupOp, Op
  <2> HIDE DEF i, o
  <2>3. /\ DOMAIN ops' = DOMAIN ops \cup {i} /\ ops'[i] = o
        /\ \A j \in DOMAIN ops : j # i /\ ops'[j] = ops[j]
        /\ DOMAIN ops' \subseteq Ops /\ \A j \in DOMAIN ops' : ops'[j] \in Op
        /\ \A h : HoldersOf(h)' = IF o.key = h /\ o.stage # "deleting" THEN HoldersOf(h) \cup {i}
                                 ELSE HoldersOf(h)
    BY <2>1, <2>2, OpStarts DEF ForwardInv
  <2>4. ForwardTypeOK'
    BY <1>2, <1>4, <1>8, <2>3, Zenon DEF ForwardInv, ForwardTypeOK
  <2>5. TrackedAreMade' /\ UnmapVisitsTracked'
    BY <1>1, <1>2, <1>8, Zenon DEF ForwardInv, TrackedAreMade, UnmapVisitsTracked
  <2>6. AddsAreKnown'
    BY <1>2, <2>2, <2>3, ZenonT(60) DEF ForwardInv, AddsAreKnown, Undecided
  <2>7. RenewalsAreKnown'
    BY <1>2, <2>1, <2>3, RenewalsStay, Zenon DEF ForwardInv
  <2>8. TrackedKeys' = TrackedKeys
    BY <1>2, <1>8, Zenon DEF TrackedKeys
  <2>9. PortsAreAnsweredFor' /\ CleanupSparesTracked'
    <3>1. \A j \in DOMAIN ops, h \in gateway : AnswersFor(j, h) => AnswersFor(j, h)'
      BY <2>3, Zenon DEF AnswersFor
    <3>2. PortsAreAnsweredFor'
      BY <1>8, <2>3, <2>8, <3>1, Zenon DEF ForwardInv, PortsAreAnsweredFor
    <3>3. CleanupSparesTracked'
      BY <2>2, <2>3, <2>8, Zenon DEF ForwardInv, CleanupSparesTracked
    <3> QED
      BY <3>2, <3>3, Zenon
  <2>10. \A h \in Keys : HoldersOf(h)' = HoldersOf(h)
    BY <2>2, <2>3, Zenon
  <2>11. InflightIsExact'
    BY <1>2, <2>10, Zenon DEF ForwardInv, InflightIsExact
  <2> QED
    BY <1>5, <2>4, <2>5, <2>6, <2>7, <2>9, <2>11, Zenon DEF ForwardInv
<1> QED
  BY <1>1, <1>3, <1>6, <1>7, <1>8, Zenon DEF UnmapOne

(***************************************************************************)
(* The theorems.                                                           *)
(***************************************************************************)
\* Every step keeps the invariant.
LEMMA ForwardStep == ForwardInv /\ [ForwardNext]_forwardVars => ForwardInv'
<1> SUFFICES ASSUME ForwardInv, [ForwardNext]_forwardVars PROVE ForwardInv'
  BY Zenon
<1>1. CASE Caller
  BY <1>1, MapPortKeeps, MapGivesUpKeeps, MapReturnsKeeps, UnmapPortKeeps, UnmapDeletesKeeps,
     UnmapReturnsKeeps, StartRenewalKeeps, Zenon DEF Caller
<1>2. CASE Renewer
  BY <1>2, SessionEndsKeeps, RenewalDueKeeps, LoopChecksContextKeeps, RenewAddsKeeps,
     RenewReturnsKeeps, Zenon DEF Renewer
<1>3. CASE GatewayAnswers
  BY <1>3, GatewayAnswersAddKeeps, GatewayAnswersCleanupKeeps, AbandonedDeleteEndsKeeps, Zenon
     DEF GatewayAnswers
<1>4. CASE \E i \in Ops : AddResolves(i) \/ CleanupEnds(i)
  BY <1>4, AddResolvesKeeps, CleanupEndsKeeps, Zenon
<1>5. CASE UNCHANGED forwardVars
  <2>1. MapWaitsAlone' /\ UnmapVisitsTracked'
    BY <1>5, ZenonT(60) DEF forwardVars, ForwardInv, MapWaitsAlone, UnmapVisitsTracked, HoldersOf, Undecided
  <2>2. RenewalsAreKnown'
    BY <1>5, RenewalsStay, Zenon DEF forwardVars, ForwardInv
  <2> QED
    BY <1>5, <2>1, <2>2, QuietKeeps, ZenonT(60) DEF forwardVars, ForwardInv, ForwardTypeOK
<1> QED
  BY <1>1, <1>2, <1>3, <1>4, <1>5, Zenon DEF ForwardNext

\* Whoever answers for a port is counted by inflight, so nothing is left behind.
LEMMA AnswersAreCounted == ForwardInv => PortsAreAccounted
<1> SUFFICES ASSUME ForwardInv PROVE NothingLeftBehind
  BY Zenon DEF ForwardInv, PortsAreAccounted
<1> SUFFICES ASSUME NEW k \in gateway, NEW i \in DOMAIN ops, AnswersFor(i, k)
             PROVE  inflight[k] > 0
  BY Zenon DEF ForwardInv, PortsAreAnsweredFor, NothingLeftBehind
<1>1. i \in HoldersOf(k) /\ k \in Keys
  BY Zenon DEF AnswersFor, HoldersOf, ForwardInv, ForwardTypeOK
<1>2. Cardinality(HoldersOf(k)) # 0 /\ Cardinality(HoldersOf(k)) \in Nat
  BY <1>1, HoldersAreFinite, FS_EmptySet, Zenon DEF ForwardInv
<1> QED
  BY <1>1, <1>2 DEF ForwardInv, InflightIsExact

\* For any number of protocols, ports, mappings and calls in flight: a port the gateway maps to
\* this host is tracked, under a call that is still to be dealt with, or one whose deletion was
\* tried and failed; no cleanup runs against a tracked port; and inflight counts exactly.
THEOREM PortsAlwaysAccounted == ForwardSpec => []PortsAreAccounted
<1>1. ForwardSpec => []ForwardInv
  BY ForwardInitSound, ForwardStep, PTL DEF ForwardSpec
<1> QED
  BY <1>1, AnswersAreCounted, PTL

\* "so a few tries fit before it runs out": a lease of two seconds or more, renewed at half of it
\* or earlier, leaves time for a second try, one of eight seconds or more for four.
THEOREM RetriesFitTheLease ==
  ASSUME NEW requested \in Nat, NEW lease \in Nat, lease >= 2000
  PROVE  LET period == RenewPeriod(lease, BaseRenewInterval(requested))
         IN /\ period > 0 /\ RenewRetryDelay(lease) > 0
            /\ period + RenewRetryDelay(lease) <= lease
            /\ lease >= 8000 => period + 4 * RenewRetryDelay(lease) <= lease
  BY DEF RenewPeriod, BaseRenewInterval, RenewRetryDelay, Lesser, Greater
=============================================================================
