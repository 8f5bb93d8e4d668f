------------------------ MODULE ProbeSchedulerProofs ------------------------
(***************************************************************************)
(* Proofs about ProbeScheduler, for any finite sets of tags and outbound   *)
(* objects, any concurrency limit and any bounds.                          *)
(*                                                                         *)
(* Every operation ends in a dispatch, so the heart is one lemma on        *)
(* DispatchProbes; the proof for an operation shows that it hands the      *)
(* dispatch a well-formed, correctly accounted state.                      *)
(***************************************************************************)
EXTENDS ProbeScheduler, FiniteSetTheorems, TLAPS

TypedMembers(ms, states) ==
    /\ DOMAIN ms \subseteq Tags
    /\ \A t \in DOMAIN ms : ms[t] \in Objects /\ TagOf[ms[t]] = t
    /\ DOMAIN states = DOMAIN ms
    /\ \A t \in DOMAIN ms : states[t] \in MemberProbeState

TypedAttempts(inFlight) ==
    /\ DOMAIN inFlight \subseteq Objects
    /\ \A o \in DOMAIN inFlight : inFlight[o] \in ProbeAttempt

Holding(inFlight) == {o \in DOMAIN inFlight : inFlight[o].holdsSlot}

Accounted(inFlight, used) == used = Cardinality(Holding(inFlight)) /\ used <= Limit

\* Subsets of the tags and of the objects are finite.
LEMMA FiniteTags ==
    ASSUME NEW S, S \subseteq Tags
    PROVE IsFiniteSet(S) /\ Cardinality(S) \in Nat
BY ConstantsAssumption, FS_Subset, FS_CardinalityType, Zenon

\* So are sets of objects.
LEMMA FiniteObjects ==
    ASSUME NEW S, S \subseteq Objects
    PROVE IsFiniteSet(S) /\ Cardinality(S) \in Nat
BY ConstantsAssumption, FS_Subset, FS_CardinalityType, Zenon

\* Disjoint sets of objects count separately.
LEMMA DisjointUnion ==
    ASSUME NEW S, NEW T, S \subseteq Objects, T \subseteq Objects, S \cap T = {}
    PROVE Cardinality(S \cup T) = Cardinality(S) + Cardinality(T)
<1>1. IsFiniteSet(S) /\ IsFiniteSet(T) /\ Cardinality(S) \in Nat /\ Cardinality(T) \in Nat
  BY FiniteObjects, Zenon
<1>2. Cardinality(S \cup T) = Cardinality(S) + Cardinality(T) - Cardinality(S \cap T)
  BY <1>1, FS_Union, Zenon
<1>3. Cardinality(S \cap T) = 0
  BY FS_EmptySet, Zenon
<1> QED
  BY <1>1, <1>2, <1>3

\* Members have different objects, so as many objects as tags join the attempts.
LEMMA AsManyObjects ==
    ASSUME NEW ms, NEW S, S \subseteq DOMAIN ms, DOMAIN ms \subseteq Tags,
           \A t \in DOMAIN ms : ms[t] \in Objects /\ TagOf[ms[t]] = t
    PROVE Cardinality({ms[t] : t \in S}) = Cardinality(S)
<1> DEFINE T == {ms[t] : t \in S}
           f == [t \in S |-> ms[t]]
<1>1. IsFiniteSet(S)
  BY FiniteTags, Zenon
<1>2. f \in Surjection(S, T)
  BY Zenon DEF Surjection
<1>3. f \in Injection(S, T)
  BY Zenon DEF Injection, IsInjective
<1> HIDE DEF f, T
<1>4. Cardinality(T) = Cardinality(S)
  BY <1>1, <1>2, <1>3, FS_Surjection, Zenon
<1> QED
  BY <1>4, Zenon DEF T

\* What a dispatch starts with, in the state the operation leaves.
DispatchReady(states, inFlight, used, sequence) ==
    /\ TypedMembers(members', states)
    /\ TypedAttempts(inFlight)
    /\ used \in Int /\ sequence \in Nat
    /\ networkGeneration' \in Nat /\ urls' \in [Tags -> Urls]

\* Starting probes for idle members, some of them with slots, keeps the attempts well formed and
\* adds exactly the slotted objects to those that hold a slot.
LEMMA StartKeeps ==
    ASSUME NEW states, NEW inFlight, NEW used, NEW sequence, NEW started0, NEW slotted,
           DispatchReady(states, inFlight, used, sequence),
           started0 \subseteq DOMAIN states, slotted \subseteq started0,
           \A t \in started0 : members'[t] \notin DOMAIN inFlight,
           StartProbes(states, inFlight, used, sequence, started0, slotted)
    PROVE /\ TypedAttempts(inFlightProbes')
          /\ probeSlotsUsed' \in Int /\ probeSequence' \in Nat
          /\ Holding(inFlightProbes') = Holding(inFlight) \cup {members'[t] : t \in slotted}
<1> USE DEF DispatchReady, TypedMembers, TypedAttempts
<1> DEFINE order(t) == Cardinality({u \in started0 : Position(u) <= Position(t)})
           attempts == [o \in {members'[t] : t \in started0} |->
                           NewAttempt(TagOf[o], states[TagOf[o]], sequence + order(TagOf[o]),
                                      TagOf[o] \in slotted)]
<1>1. /\ inFlightProbes' = Merged(inFlight, attempts)
      /\ probeSlotsUsed' = used + Cardinality(slotted)
      /\ probeSequence' = sequence + Cardinality(started0)
  BY Zenon DEF StartProbes
<1>2. Cardinality(slotted) \in Nat /\ Cardinality(started0) \in Nat
  BY FiniteTags, Zenon
<1>3. \A t : order(t) \in Nat
  BY FiniteTags, Zenon
<1> HIDE DEF order
<1>4. DOMAIN attempts \subseteq Objects
  BY Zenon
<1>5. ASSUME NEW o \in DOMAIN attempts
      PROVE /\ attempts[o] \in ProbeAttempt
            /\ attempts[o].holdsSlot <=> o \in {members'[t] : t \in slotted}
  <2>1. PICK t \in started0 : o = members'[t]
    BY <1>5, Zenon
  <2>2. TagOf[o] = t
    BY <2>1, Zenon
  <2>3. attempts[o] = NewAttempt(t, states[t], sequence + order(t), t \in slotted)
    BY <2>1, <2>2, Zenon
  <2>4. states[t] \in MemberProbeState /\ t \in Tags
    BY <2>1, Zenon
  <2>5. attempts[o] \in ProbeAttempt
    BY <1>3, <2>3, <2>4 DEF NewAttempt, ProbeAttempt, MemberProbeState
  <2>6. attempts[o].holdsSlot <=> t \in slotted
    BY <2>3, Zenon DEF NewAttempt
  <2>7. t \in slotted <=> o \in {members'[u] : u \in slotted}
    BY <2>1, <2>2, Zenon
  <2> QED
    BY <2>5, <2>6, <2>7, Zenon
<1>6. DOMAIN attempts \cap DOMAIN inFlight = {} /\ {members'[t] : t \in slotted} \subseteq DOMAIN attempts
  OBVIOUS
<1> HIDE DEF attempts
<1>7. TypedAttempts(inFlightProbes')
  BY <1>1, <1>4, <1>5, Zenon DEF Merged
<1>8. Holding(inFlightProbes') = Holding(inFlight) \cup {members'[t] : t \in slotted}
  BY <1>1, <1>5, <1>6, Zenon DEF Merged, Holding
<1> QED
  BY <1>1, <1>2, <1>7, <1>8

\* dispatchProbesLocked keeps the types, and keeps the slots accounted for: it starts at most as
\* many slotted attempts as there are slots left.
LEMMA DispatchKeeps ==
    ASSUME NEW states, NEW inFlight, NEW used, NEW sequence,
           DispatchReady(states, inFlight, used, sequence),
           DispatchProbes(states, inFlight, used, sequence)
    PROVE /\ TypedMembers(members', probeMembers')
          /\ TypedAttempts(inFlightProbes')
          /\ probeSlotsUsed' \in Int /\ probeSequence' \in Nat
          /\ Accounted(inFlight, used) => Accounted(inFlightProbes', probeSlotsUsed')
<1>1. CASE closed' \/ pausedBy' # {}
  BY <1>1, Zenon DEF DispatchProbes, DispatchReady
<1>2. CASE ~(closed' \/ pausedBy' # {})
  <2> DEFINE settled == {t \in DOMAIN states :
                            t \in Excluded \/ (states[t].need = IfStale
                                               /\ HasFreshOutcome(t, states[t]))}
             startable == {t \in DOMAIN states \ settled :
                              states[t].need # NotNeeded /\ members'[t] \notin DOMAIN inFlight}
             unslotted == {t \in startable : t \in LastResort \/ states[t].confirmationPending}
             waiting == startable \ unslotted
             free == IF used < Limit THEN Limit - used ELSE 0
  <2>1. probeMembers' = [t \in DOMAIN states |->
                            IF t \in settled THEN [states[t] EXCEPT !.need = NotNeeded]
                                             ELSE states[t]]
    BY <1>2, Zenon DEF DispatchProbes
  <2>2. PICK slotted \in SUBSET waiting :
              /\ Cardinality(slotted) = Least(Cardinality(waiting), free)
              /\ StartProbes(states, inFlight, used, sequence, unslotted \cup slotted, slotted)
    BY <1>2, Zenon DEF DispatchProbes
  <2>3. TypedMembers(members', probeMembers')
    BY <2>1 DEF TypedMembers, DispatchReady, MemberProbeState, NotNeeded
  <2>4. /\ unslotted \cup slotted \subseteq DOMAIN states
        /\ \A t \in unslotted \cup slotted : members'[t] \notin DOMAIN inFlight
        /\ waiting \subseteq DOMAIN states
    BY <2>2, Zenon
  <2> HIDE DEF settled, startable, unslotted, waiting, free
  <2>5. /\ TypedAttempts(inFlightProbes')
        /\ probeSlotsUsed' \in Int /\ probeSequence' \in Nat
        /\ Holding(inFlightProbes') = Holding(inFlight) \cup {members'[t] : t \in slotted}
    BY <2>2, <2>4, StartKeeps, Zenon
  <2>6. ASSUME Accounted(inFlight, used) PROVE Accounted(inFlightProbes', probeSlotsUsed')
    <3> DEFINE added == {members'[t] : t \in slotted}
    <3>1. Cardinality(slotted) \in Nat /\ Cardinality(waiting) \in Nat
      BY <2>2, <2>4, FiniteTags, Zenon DEF DispatchReady, TypedMembers
    <3>2. Cardinality(added) = Cardinality(slotted)
      BY <2>2, <2>4, AsManyObjects DEF DispatchReady, TypedMembers
    <3>3. Holding(inFlight) \subseteq Objects /\ added \subseteq Objects
      BY <2>2, <2>4, Zenon DEF DispatchReady, TypedAttempts, TypedMembers, Holding
    <3>4. Holding(inFlight) \cap added = {}
      BY <2>2, <2>4, Zenon DEF Holding
    <3> HIDE DEF added
    <3>5. Cardinality(Holding(inFlight) \cup added)
             = Cardinality(Holding(inFlight)) + Cardinality(added)
      BY <3>3, <3>4, DisjointUnion, Zenon
    <3>6. probeSlotsUsed' = used + Cardinality(slotted)
      BY <2>2, Zenon DEF StartProbes
    <3>7. used + Cardinality(slotted) <= Limit
      BY <2>2, <2>6, <3>1, ConstantsAssumption DEF Accounted, Least, free, DispatchReady
    <3>8. Holding(inFlightProbes') = Holding(inFlight) \cup added
      BY <2>5, Zenon DEF added
    <3> QED
      BY <2>6, <3>2, <3>5, <3>6, <3>7, <3>8, Zenon DEF Accounted
  <2> QED
    BY <2>3, <2>5, <2>6, Zenon
<1> QED
  BY <1>1, <1>2, Zenon

(***************************************************************************)
(* The invariant, and what an operation has to hand to its dispatch.       *)
(***************************************************************************)
Inv == TypeOK /\ SlotsAccounted

RestTyped ==
    /\ tags \in Seq(Tags)
    /\ nextMembershipID \in Nat
    /\ networkGeneration \in Nat
    /\ urls \in [Tags -> Urls]
    /\ pausedBy \subseteq PauseSources
    /\ pauseEvent \in {"none", "pause", "wake"}
    /\ pauseEpoch \in Nat
    /\ closed \in BOOLEAN /\ started \in BOOLEAN /\ probing \in BOOLEAN

\* The parts of the invariant.
LEMMA InvParts ==
    Inv <=> /\ RestTyped
            /\ TypedMembers(members, probeMembers)
            /\ TypedAttempts(inFlightProbes)
            /\ probeSlotsUsed \in Int /\ probeSequence \in Nat
            /\ Accounted(inFlightProbes, probeSlotsUsed)
BY Zenon DEF Inv, TypeOK, SlotsAccounted, HoldingSlots, RestTyped, TypedMembers, TypedAttempts,
       Accounted, Holding

\* The same after a step, in the direction the steps need.
LEMMA InvPartsPrimed ==
    ASSUME RestTyped', TypedMembers(members', probeMembers'), TypedAttempts(inFlightProbes'),
           probeSlotsUsed' \in Int, probeSequence' \in Nat,
           Accounted(inFlightProbes', probeSlotsUsed')
    PROVE Inv'
BY Zenon DEF Inv, TypeOK, SlotsAccounted, HoldingSlots, RestTyped, TypedMembers, TypedAttempts,
       Accounted, Holding

(***************************************************************************)
(* Needs, live attempts and pauses.  Again the heart is a lemma on the     *)
(* dispatch: what an operation hands over is made good by it.              *)
(***************************************************************************)
\* A pending confirmation forces its member's probe, and an excluded member is never probed.
NeedsForced(states) ==
    \A t \in DOMAIN states :
        /\ states[t].confirmationPending => states[t].need = Forced
        /\ t \in Excluded => states[t].need = NotNeeded

Sequenced(states, sequence) == \A t \in DOMAIN states : states[t].outcome.sequence <= sequence

\* The attempts that are not finalized belong to present memberships and the present network.
Belonging(ms, states, inFlight, generation) ==
    \A o \in DOMAIN inFlight :
        LET a == inFlight[o]
        IN ~a.finalized => /\ a.tag \in DOMAIN ms /\ ms[a.tag] = o
                           /\ states[a.tag].membershipID = a.membershipID
                           /\ a.tag \in LastResort \/ a.generation = generation

AllFinalized(inFlight) == \A o \in DOMAIN inFlight : inFlight[o].finalized

\* Every need has its object busy or waits for a slot.
Served(ms, states, inFlight, used) ==
    \A t \in DOMAIN ms :
        states[t].need # NotNeeded =>
            \/ ms[t] \in DOMAIN inFlight
            \/ t \notin LastResort /\ ~states[t].confirmationPending /\ used >= Limit

\* Once the callback of a pause has run, and as long as anything pauses, no attempt is live.
PauseHeeded(paused, event, done, inFlight) ==
    /\ event = "pause" => paused # {}
    /\ ~done /\ event # "pause" /\ paused # {} => AllFinalized(inFlight)

Kept ==
    /\ NeedsForced(probeMembers)
    /\ Sequenced(probeMembers, probeSequence)
    /\ Belonging(members, probeMembers, inFlightProbes, networkGeneration)
    /\ PauseHeeded(pausedBy, pauseEvent, closed, inFlightProbes)
    /\ ~closed /\ pausedBy = {} /\ pauseEvent = "none"
          => Served(members, probeMembers, inFlightProbes, probeSlotsUsed)

\* What an operation hands to its dispatch: a good state, in which no need of a member that stays
\* is lower than before unless a new outcome was recorded.
Raised(states) ==
    \A t \in DOMAIN members \cap DOMAIN members' :
        states[t].membershipID = probeMembers[t].membershipID =>
            \/ states[t].outcome.sequence > probeMembers[t].outcome.sequence
            \/ /\ states[t].outcome = probeMembers[t].outcome
               /\ states[t].need >= probeMembers[t].need

Handed(states, inFlight, sequence) ==
    /\ NeedsForced(states)
    /\ Sequenced(states, sequence)
    /\ Belonging(members', states, inFlight, networkGeneration')
    /\ PauseHeeded(pausedBy', pauseEvent', closed', inFlight)
    /\ Raised(states)

\* What NeedsAreAnswered says of a step.
NeedsAnswered ==
    \A t \in Tags :
        SameMembership(t) /\ probeMembers'[t].need < probeMembers[t].need =>
            \/ probeMembers'[t].outcome.sequence > probeMembers[t].outcome.sequence
            \/ probeMembers[t].need = IfStale /\ HasFreshOutcome(t, probeMembers'[t])

\* The attempts a dispatch starts are live, for the present membership of an idle object; the
\* others stay what they were, and the last sequence number does not decrease.
LEMMA StartBelongs ==
    ASSUME NEW states, NEW inFlight, NEW used, NEW sequence, NEW started0, NEW slotted,
           DispatchReady(states, inFlight, used, sequence),
           started0 \subseteq DOMAIN states,
           Belonging(members', states, inFlight, networkGeneration'),
           StartProbes(states, inFlight, used, sequence, started0, slotted)
    PROVE /\ DOMAIN inFlightProbes' = DOMAIN inFlight \cup {members'[t] : t \in started0}
          /\ Belonging(members', states, inFlightProbes', networkGeneration')
          /\ probeSequence' >= sequence
<1> USE DEF DispatchReady, TypedMembers
<1> DEFINE order(t) == Cardinality({u \in started0 : Position(u) <= Position(t)})
           attempts == [o \in {members'[t] : t \in started0} |->
                           NewAttempt(TagOf[o], states[TagOf[o]], sequence + order(TagOf[o]),
                                      TagOf[o] \in slotted)]
<1>1. /\ inFlightProbes' = Merged(inFlight, attempts)
      /\ probeSequence' = sequence + Cardinality(started0)
  BY Zenon DEF StartProbes
<1>2. Cardinality(started0) \in Nat
  BY FiniteTags, Zenon
<1>3. ASSUME NEW o \in DOMAIN attempts
      PROVE /\ attempts[o].tag \in DOMAIN members' /\ members'[attempts[o].tag] = o
            /\ states[attempts[o].tag].membershipID = attempts[o].membershipID
            /\ attempts[o].generation = networkGeneration'
  <2>1. PICK t \in started0 : o = members'[t]
    BY <1>3, Zenon
  <2>2. TagOf[o] = t
    BY <2>1, Zenon
  <2> HIDE DEF order
  <2>3. attempts[o] = NewAttempt(t, states[t], sequence + order(t), t \in slotted)
    BY <2>1, <2>2, Zenon
  <2> QED
    BY <2>1, <2>3, Zenon DEF NewAttempt
<1>4. DOMAIN attempts = {members'[t] : t \in started0}
  BY Zenon
<1> HIDE DEF attempts
<1>5. Belonging(members', states, inFlightProbes', networkGeneration')
  BY <1>1, <1>3, Zenon DEF Merged, Belonging
<1> QED
  BY <1>1, <1>2, <1>4, <1>5 DEF Merged

\* A member that is left waiting for a slot finds none: the dispatch hands out as many slots as
\* it has, and one more waiting member means it had fewer than it needed.
LEMMA SlotsRunOut ==
    ASSUME NEW waiting, waiting \subseteq Tags, NEW slotted \in SUBSET waiting,
           NEW used \in Int, NEW t \in waiting \ slotted,
           Cardinality(slotted) = Least(Cardinality(waiting),
                                        IF used < Limit THEN Limit - used ELSE 0)
    PROVE used + Cardinality(slotted) >= Limit
<1>1. IsFiniteSet(waiting) /\ Cardinality(waiting) \in Nat /\ Cardinality(slotted) \in Nat
  BY FiniteTags, Zenon
<1>2. Cardinality(slotted) < Cardinality(waiting)
  <2>1. slotted # waiting
    BY Zenon
  <2> QED
    BY <1>1, <2>1, FS_Subset
<1> QED
  BY <1>1, <1>2, ConstantsAssumption DEF Least

\* dispatchProbesLocked makes what it is handed good: afterwards every need is served.
LEMMA DispatchServes ==
    ASSUME Inv, NEW states, NEW inFlight, NEW used, NEW sequence,
           DispatchReady(states, inFlight, used, sequence),
           Handed(states, inFlight, sequence),
           DispatchProbes(states, inFlight, used, sequence)
    PROVE Kept' /\ NeedsAnswered
<1> USE DEF Handed
<1>1. /\ DOMAIN states = DOMAIN members' /\ DOMAIN members' \subseteq Tags
      /\ \A t \in DOMAIN states : states[t] \in MemberProbeState
      /\ sequence \in Nat /\ used \in Int
  BY Zenon DEF DispatchReady, TypedMembers
<1>2. /\ DOMAIN probeMembers' = DOMAIN states
      /\ \A t \in DOMAIN states :
            /\ probeMembers'[t].membershipID = states[t].membershipID
            /\ probeMembers'[t].outcome = states[t].outcome
            /\ probeMembers'[t].confirmationPending = states[t].confirmationPending
            /\ \/ probeMembers'[t].need = states[t].need
               \/ /\ states[t].need = IfStale /\ HasFreshOutcome(t, states[t])
                  /\ probeMembers'[t].need = NotNeeded
      /\ Belonging(members', states, inFlightProbes', networkGeneration')
      /\ probeSequence' \in Nat /\ probeSequence' >= sequence
      /\ closed' \/ pausedBy' # {} => inFlightProbes' = inFlight
      /\ ~(closed' \/ pausedBy' # {})
            => Served(members', probeMembers', inFlightProbes', probeSlotsUsed')
  <2>0. probeSequence' \in Nat
    BY DispatchKeeps, Zenon
  <2>1. CASE closed' \/ pausedBy' # {}
    BY <1>1, <2>0, <2>1, SMTT(30) DEF DispatchProbes
  <2>2. CASE ~(closed' \/ pausedBy' # {})
    <3> DEFINE settled == {t \in DOMAIN states :
                              t \in Excluded \/ (states[t].need = IfStale
                                                 /\ HasFreshOutcome(t, states[t]))}
               startable == {t \in DOMAIN states \ settled :
                                states[t].need # NotNeeded /\ members'[t] \notin DOMAIN inFlight}
               unslotted == {t \in startable : t \in LastResort \/ states[t].confirmationPending}
               waiting == startable \ unslotted
               free == IF used < Limit THEN Limit - used ELSE 0
    <3>1. probeMembers' = [t \in DOMAIN states |->
                              IF t \in settled THEN [states[t] EXCEPT !.need = NotNeeded]
                                               ELSE states[t]]
      BY <2>2, Zenon DEF DispatchProbes
    <3>2. PICK slotted \in SUBSET waiting :
                /\ Cardinality(slotted) = Least(Cardinality(waiting), free)
                /\ StartProbes(states, inFlight, used, sequence, unslotted \cup slotted, slotted)
      BY <2>2, ZenonT(60) DEF DispatchProbes
    <3>3. \A t \in settled : \/ states[t].need = NotNeeded
                             \/ states[t].need = IfStale /\ HasFreshOutcome(t, states[t])
      BY Zenon DEF NeedsForced
    <3>4. \A t \in DOMAIN states :
             /\ probeMembers'[t].membershipID = states[t].membershipID
             /\ probeMembers'[t].outcome = states[t].outcome
             /\ probeMembers'[t].confirmationPending = states[t].confirmationPending
             /\ t \in settled => probeMembers'[t].need = NotNeeded
             /\ t \notin settled => probeMembers'[t].need = states[t].need
      BY <1>1, <3>1 DEF MemberProbeState
    <3>5. waiting \subseteq Tags /\ unslotted \cup slotted \subseteq DOMAIN states
      BY <1>1, <3>2, Zenon
    <3>6. \A t \in DOMAIN states \ settled :
             states[t].need # NotNeeded =>
                \/ members'[t] \in DOMAIN inFlight
                \/ t \in unslotted \cup slotted
                \/ t \in waiting \ slotted /\ t \notin LastResort /\ ~states[t].confirmationPending
      BY Zenon
    <3>7. DOMAIN probeMembers' = DOMAIN states
      BY <3>1, Zenon
    <3> HIDE DEF settled, startable, unslotted, waiting
    <3>8. /\ DOMAIN inFlightProbes' = DOMAIN inFlight
                                         \cup {members'[t] : t \in unslotted \cup slotted}
          /\ Belonging(members', states, inFlightProbes', networkGeneration')
          /\ probeSequence' >= sequence
      BY <3>2, <3>5, StartBelongs, ZenonT(60)
    <3>9. \A t \in waiting \ slotted : used + Cardinality(slotted) >= Limit
      BY <1>1, <3>2, <3>5, SlotsRunOut, Zenon
    <3>10. probeSlotsUsed' = used + Cardinality(slotted)
      BY <3>2, ZenonT(60) DEF StartProbes
    <3>11. Served(members', probeMembers', inFlightProbes', probeSlotsUsed')
      <4> SUFFICES ASSUME NEW t \in DOMAIN members', probeMembers'[t].need # NotNeeded,
                          members'[t] \notin DOMAIN inFlightProbes'
                   PROVE /\ t \notin LastResort /\ ~probeMembers'[t].confirmationPending
                         /\ probeSlotsUsed' >= Limit
        BY Zenon DEF Served
      <4>1. t \in DOMAIN states \ settled /\ states[t].need # NotNeeded
        BY <1>1, <3>4, Zenon
      <4>2. members'[t] \notin DOMAIN inFlight /\ t \notin unslotted \cup slotted
        BY <3>8, Zenon
      <4> QED
        BY <3>4, <3>6, <3>9, <3>10, <4>1, <4>2, Zenon
    <3> QED
      BY <2>0, <2>2, <3>3, <3>4, <3>7, <3>8, <3>11, Zenon
  <2> QED
    BY <2>1, <2>2, Zenon
<1>3. NeedsForced(probeMembers')
  BY <1>1, <1>2, SMTT(30) DEF NeedsForced, Forced, IfStale, NotNeeded
<1>4. Sequenced(probeMembers', probeSequence')
  <2> SUFFICES ASSUME NEW t \in DOMAIN states
               PROVE probeMembers'[t].outcome.sequence <= probeSequence'
    BY <1>2, Zenon DEF Sequenced
  <2>1. states[t].outcome.sequence \in Nat /\ states[t].outcome.sequence <= sequence
    BY <1>1, Zenon DEF Sequenced, MemberProbeState, Outcome
  <2> QED
    BY <1>1, <1>2, <2>1, SMTT(30)
<1>5. Belonging(members', probeMembers', inFlightProbes', networkGeneration')
  BY <1>1, <1>2, ZenonT(60) DEF Belonging
<1>6. PauseHeeded(pausedBy', pauseEvent', closed', inFlightProbes')
  BY <1>2, Zenon DEF PauseHeeded
<1>7. Kept'
  BY <1>2, <1>3, <1>4, <1>5, <1>6, ZenonT(60)
     DEF Kept, NeedsForced, Sequenced, Belonging, PauseHeeded, AllFinalized, Served
<1>8. NeedsAnswered
  <2> SUFFICES ASSUME NEW t \in Tags, SameMembership(t),
                      probeMembers'[t].need < probeMembers[t].need,
                      ~(probeMembers'[t].outcome.sequence > probeMembers[t].outcome.sequence)
               PROVE probeMembers[t].need = IfStale /\ HasFreshOutcome(t, probeMembers'[t])
    BY Zenon DEF NeedsAnswered
  <2>1. t \in DOMAIN members /\ t \in DOMAIN members' /\ t \in DOMAIN states
    BY <1>1, Zenon DEF SameMembership
  <2>2. /\ states[t].outcome = probeMembers[t].outcome
        /\ states[t].need >= probeMembers[t].need
    BY <1>2, <2>1, ZenonT(60) DEF SameMembership, Raised
  <2>3. states[t].need \in {0, 1, 2} /\ probeMembers[t].need \in {0, 1, 2}
    BY <1>1, <2>1, InvParts, ZenonT(60) DEF TypedMembers, MemberProbeState, IfStale, NotNeeded, Forced
  <2>4. /\ states[t].need = IfStale /\ HasFreshOutcome(t, states[t])
        /\ probeMembers'[t].need = NotNeeded
    BY <1>2, <2>1, <2>2, <2>3, SMTT(30)
  <2>5. probeMembers[t].need = IfStale
    BY <2>2, <2>3, <2>4, SMTT(30) DEF IfStale, NotNeeded
  <2> QED
    BY <1>2, <2>1, <2>4, <2>5, ZenonT(60) DEF HasFreshOutcome
<1> QED
  BY <1>7, <1>8, Zenon

\* What every step does: it keeps the invariant, and with it the promises about needs.
Keeps == Inv' /\ (Kept => Kept' /\ NeedsAnswered)

\* An operation that ends in a dispatch keeps the invariants if it hands over a good state.
LEMMA DispatchConcludes ==
    ASSUME Inv, NEW states, NEW inFlight, NEW used, NEW sequence,
           RestTyped', TypedMembers(members', states), TypedAttempts(inFlight),
           used \in Int, sequence \in Nat, Accounted(inFlight, used),
           Kept => Handed(states, inFlight, sequence),
           DispatchProbes(states, inFlight, used, sequence)
    PROVE Keeps
<1>1. DispatchReady(states, inFlight, used, sequence)
  BY Zenon DEF DispatchReady, RestTyped
<1>2. Inv'
  BY <1>1, DispatchKeeps, InvPartsPrimed, Zenon
<1>3. Kept => Kept' /\ NeedsAnswered
  BY <1>1, DispatchServes, Zenon
<1> QED
  BY <1>2, <1>3, Zenon DEF Keeps

\* Raising needs keeps the members' states well formed.
LEMMA RequestedTyped ==
    ASSUME NEW ms, NEW states, NEW who, NEW need \in {NotNeeded, IfStale, Forced},
           TypedMembers(ms, states)
    PROVE TypedMembers(ms, Requested(states, who, need))
BY DEF TypedMembers, Requested, MemberProbeState

\* Raising needs changes nothing else.
LEMMA RequestedRaises ==
    ASSUME NEW states, NEW who, NEW need \in {IfStale, Forced},
           \A t \in DOMAIN states : states[t] \in MemberProbeState, NeedsForced(states)
    PROVE /\ NeedsForced(Requested(states, who, need))
          /\ \A t \in DOMAIN states :
                /\ Requested(states, who, need)[t].outcome = states[t].outcome
                /\ Requested(states, who, need)[t].membershipID = states[t].membershipID
                /\ Requested(states, who, need)[t].need >= states[t].need
<1> DEFINE r == Requested(states, who, need)
<1> SUFFICES ASSUME NEW t \in DOMAIN states
             PROVE /\ r[t].confirmationPending => r[t].need = Forced
                   /\ t \in Excluded => r[t].need = NotNeeded
                   /\ r[t].outcome = states[t].outcome
                   /\ r[t].membershipID = states[t].membershipID
                   /\ r[t].need >= states[t].need
  BY Zenon DEF NeedsForced, Requested
<1>1. states[t] \in MemberProbeState
  BY Zenon
<1>2. r[t] = IF t \in who \ Excluded /\ states[t].need < need
             THEN [states[t] EXCEPT !.need = need] ELSE states[t]
  BY Zenon DEF Requested
<1> HIDE DEF r
<1> QED
  BY <1>1, <1>2 DEF NeedsForced, MemberProbeState, NotNeeded, IfStale, Forced

\* A request by an operation that leaves members, network, pauses and attempts alone.
LEMMA RequestedHanded ==
    ASSUME Inv, Kept, NEW states, NEW who, NEW need \in {IfStale, Forced},
           TypedMembers(members', states), Handed(states, inFlightProbes, probeSequence)
    PROVE Handed(Requested(states, who, need), inFlightProbes, probeSequence)
<1> DEFINE r == Requested(states, who, need)
<1>1. /\ NeedsForced(r)
      /\ \A t \in DOMAIN states :
            /\ r[t].outcome = states[t].outcome
            /\ r[t].membershipID = states[t].membershipID
            /\ r[t].need >= states[t].need
  <2>1. NeedsForced(states)
    BY Zenon DEF Handed
  <2>2. \A t \in DOMAIN states : states[t] \in MemberProbeState
    BY Zenon DEF TypedMembers
  <2> QED
    BY <2>1, <2>2, RequestedRaises
<1>2. DOMAIN r = DOMAIN states /\ DOMAIN states = DOMAIN members'
  BY Zenon DEF Requested, TypedMembers
<1>3. TypedMembers(members', r)
  BY RequestedTyped, Zenon
<1>4. \A t \in DOMAIN states : r[t].need \in 0..2 /\ states[t].need \in 0..2
  BY <1>2, <1>3 DEF TypedMembers, MemberProbeState, NotNeeded, IfStale, Forced
<1>5. \A t \in DOMAIN members : probeMembers[t].need \in 0..2
  BY InvParts DEF TypedMembers, MemberProbeState, NotNeeded, IfStale, Forced
<1> HIDE DEF r
<1>6. Sequenced(r, probeSequence)
  BY <1>1, <1>2, Zenon DEF Handed, Sequenced
<1>7. Belonging(members', r, inFlightProbes, networkGeneration')
  BY <1>1, <1>2, SMTT(30) DEF Handed, Belonging
<1>8. Raised(r)
  BY <1>1, <1>2, <1>4, <1>5 DEF Handed, Raised
<1> QED
  BY <1>1, <1>6, <1>7, <1>8, Zenon DEF Handed, r

\* The present states, handed over by an operation that changes none of this.
LEMMA PresentHanded ==
    ASSUME Inv, Kept, members' = members, networkGeneration' = networkGeneration,
           PauseHeeded(pausedBy', pauseEvent', closed', inFlightProbes)
    PROVE Handed(probeMembers, inFlightProbes, probeSequence)
<1>1. Raised(probeMembers)
  BY InvParts DEF Raised, TypedMembers, MemberProbeState, NotNeeded, IfStale, Forced
<1> QED
  BY <1>1, Zenon DEF Handed, Kept

\* Cancelling makes no attempt live.
LEMMA CancelledBelongs ==
    ASSUME NEW ms, NEW states, NEW generation, NEW who, TypedAttempts(inFlightProbes),
           Belonging(ms, states, inFlightProbes, generation)
    PROVE /\ Belonging(ms, states, Cancelled(who), generation)
          /\ AllFinalized(inFlightProbes) => AllFinalized(Cancelled(who))
<1>1. \A o \in DOMAIN inFlightProbes :
          /\ o \in who => Cancelled(who)[o].finalized
          /\ o \notin who => Cancelled(who)[o] = inFlightProbes[o]
  BY Zenon DEF Cancelled, TypedAttempts, ProbeAttempt
<1>2. DOMAIN Cancelled(who) = DOMAIN inFlightProbes
  BY Zenon DEF Cancelled
<1> QED
  BY <1>1, <1>2 DEF Belonging, AllFinalized

\* Cancelling keeps the attempts well formed and frees no slot.
LEMMA CancelledKeeps ==
    ASSUME NEW who, TypedAttempts(inFlightProbes)
    PROVE /\ TypedAttempts(Cancelled(who))
          /\ Holding(Cancelled(who)) = Holding(inFlightProbes)
BY ZenonT(60) DEF TypedAttempts, Cancelled, Holding, ProbeAttempt

\* New members get well-formed states.
LEMMA JoiningTyped ==
    ASSUME NEW who, who \subseteq Tags, NEW object \in [who -> Objects],
           \A t \in who : TagOf[object[t]] = t,
           nextMembershipID \in Nat, TypedMembers(members, probeMembers)
    PROVE TypedMembers(Merged(object, members), Joining(who))
<1> DEFINE rank(t) == Cardinality({u \in who : Position(u) <= Position(t)})
           states == [t \in who |->
                        [membershipID |-> nextMembershipID + rank(t), need |-> NotNeeded,
                         confirmationPending |-> FALSE, confirmSequence |-> 0,
                         outcome |-> NoOutcome]]
<1>1. \A t : rank(t) \in Nat
  BY FiniteTags, Zenon
<1>2. NoOutcome \in Outcome
  BY ConstantsAssumption DEF NoOutcome, Outcome, Fresh
<1> HIDE DEF rank
<1>3. \A t \in who : states[t] \in MemberProbeState
  BY <1>1, <1>2 DEF MemberProbeState, NotNeeded
<1>4. DOMAIN states = who
  BY Zenon
<1>5. Joining(who) = Merged(states, probeMembers)
  BY Zenon DEF Joining, rank
<1> HIDE DEF states
<1> QED
  BY <1>3, <1>4, <1>5 DEF TypedMembers, Merged

\* New members need nothing yet, and those that were there keep what they have.
LEMMA JoiningHanded ==
    ASSUME Inv, Kept, NEW who, who \subseteq Tags, who \cap DOMAIN members = {},
           NEW object \in [who -> Objects], members' = Merged(object, members),
           networkGeneration' = networkGeneration,
           pausedBy' = pausedBy, pauseEvent' = pauseEvent, closed' = closed
    PROVE /\ Handed(Joining(who), inFlightProbes, probeSequence)
          /\ \A t \in who : Joining(who)[t].need = NotNeeded
<1> DEFINE j == Joining(who)
<1>1. /\ DOMAIN j = who \cup DOMAIN probeMembers
      /\ \A t \in who : /\ j[t].need = NotNeeded /\ j[t].confirmationPending = FALSE
                         /\ j[t].outcome.sequence = 0
      /\ \A t \in DOMAIN probeMembers \ who : j[t] = probeMembers[t]
  BY Zenon DEF Joining, Merged, NoOutcome
<1>2. /\ DOMAIN members = DOMAIN probeMembers /\ probeSequence \in Nat
      /\ \A t \in DOMAIN members : probeMembers[t].need \in 0..2
  BY InvParts, SMTT(30) DEF TypedMembers, MemberProbeState, NotNeeded, IfStale, Forced
<1> HIDE DEF j
<1>3. NeedsForced(j)
  BY <1>1, Zenon DEF NeedsForced, Kept
<1>4. Sequenced(j, probeSequence)
  BY <1>1, <1>2 DEF Sequenced, Kept
<1>5. \A t \in DOMAIN members : t \in DOMAIN members' /\ members'[t] = members[t]
  BY Zenon DEF Merged
<1>6. Belonging(members', j, inFlightProbes, networkGeneration')
  BY <1>1, <1>2, <1>5, ZenonT(60) DEF Belonging, Kept
<1>7. Raised(j)
  BY <1>1, <1>2 DEF Raised
<1>8. PauseHeeded(pausedBy', pauseEvent', closed', inFlightProbes)
  BY Zenon DEF Kept
<1> QED
  BY <1>1, <1>3, <1>4, <1>6, <1>7, <1>8, ZenonT(60) DEF Handed, j

(***************************************************************************)
(* The end of an attempt.                                                  *)
(***************************************************************************)
\* A recorded outcome is well formed.
LEMMA AcceptedTyped ==
    ASSUME Inv, NEW o \in DOMAIN inFlightProbes, NEW success \in BOOLEAN, Records(o)
    PROVE TypedMembers(members, Accepted(inFlightProbes[o], success))
<1> DEFINE a == inFlightProbes[o]
           state == probeMembers[a.tag]
<1>1. a \in ProbeAttempt /\ a.tag \in DOMAIN members
  BY InvParts, Zenon DEF Records, ValidProbe, TypedAttempts
<1>2. state \in MemberProbeState /\ probeSequence \in Nat
  BY <1>1, InvParts, Zenon DEF TypedMembers
<1>3. [sequence |-> probeSequence + 1, success |-> success, age |-> Fresh,
       generation |-> a.generation, url |-> a.url] \in Outcome
  BY <1>1, <1>2 DEF Outcome, ProbeAttempt, Fresh
<1>4. (state.confirmationPending /\ ~Confirms(a, state)) \in BOOLEAN
  BY Zenon DEF Confirms
<1>5. [membershipID |-> state.membershipID,
       need |-> IF Answers(a, state) THEN NotNeeded ELSE state.need,
       confirmationPending |-> state.confirmationPending /\ ~Confirms(a, state),
       confirmSequence |-> state.confirmSequence,
       outcome |-> [sequence |-> probeSequence + 1, success |-> success, age |-> Fresh,
                    generation |-> a.generation, url |-> a.url]] \in MemberProbeState
  BY <1>2, <1>3, <1>4, Zenon DEF MemberProbeState, NotNeeded
<1>6. TypedMembers(members, probeMembers)
  BY InvParts, Zenon
<1> QED
  BY <1>1, <1>5, <1>6, Zenon DEF TypedMembers, Accepted

\* A recorded outcome is the latest, and leaves a need only to a confirmation it is too old for.
LEMMA AcceptedAnswers ==
    ASSUME Inv, Kept, NEW o \in DOMAIN inFlightProbes, NEW success \in BOOLEAN, Records(o),
           members' = members
    PROVE LET states == Accepted(inFlightProbes[o], success)
          IN /\ NeedsForced(states)
             /\ Sequenced(states, probeSequence + 1)
             /\ Raised(states)
             /\ \A t \in DOMAIN members : states[t].membershipID = probeMembers[t].membershipID
<1> DEFINE a == inFlightProbes[o]
           states == Accepted(a, success)
           state == probeMembers[a.tag]
<1>1. a.tag \in DOMAIN members /\ DOMAIN members = DOMAIN probeMembers /\ probeSequence \in Nat
  BY InvParts, Zenon DEF Records, ValidProbe, TypedMembers
<1>2. \A t \in DOMAIN members :
          probeMembers[t].need \in 0..2 /\ probeMembers[t].outcome.sequence \in Nat
          /\ probeMembers[t].outcome.sequence <= probeSequence
  BY <1>1, InvParts, SMTT(30) DEF Kept, Sequenced, TypedMembers, MemberProbeState, Outcome, NotNeeded,
                        IfStale, Forced
<1>3. /\ DOMAIN states = DOMAIN members
      /\ \A t \in DOMAIN members \ {a.tag} : states[t] = probeMembers[t]
      /\ states[a.tag].membershipID = state.membershipID
      /\ states[a.tag].need = IF Answers(a, state) THEN NotNeeded ELSE state.need
      /\ states[a.tag].confirmationPending = (state.confirmationPending /\ ~Confirms(a, state))
      /\ states[a.tag].outcome.sequence = probeSequence + 1
  BY <1>1, Zenon DEF Accepted
<1> HIDE DEF states
<1>4. NeedsForced(states)
  BY <1>1, <1>3, ZenonT(60) DEF NeedsForced, Kept, Answers
<1>5. Sequenced(states, probeSequence + 1)
  BY <1>1, <1>2, <1>3, SMTT(30) DEF Sequenced
<1>6. Raised(states)
  BY <1>1, <1>2, <1>3 DEF Raised
<1> QED
  BY <1>3, <1>4, <1>5, <1>6, Zenon DEF states

\* An attempt that gives its slot back, by leaving or by its watchdog, is the only one whose
\* accounting changes.
LEMMA FinishKeeps ==
    ASSUME Inv, NEW o \in DOMAIN inFlightProbes, NEW success \in BOOLEAN, NEW inFlight,
           TypedAttempts(inFlight), Holding(inFlight) = Holding(inFlightProbes) \ {o},
           DOMAIN inFlight \subseteq DOMAIN inFlightProbes,
           \A p \in DOMAIN inFlight : IF p = o THEN inFlight[p].finalized
                                               ELSE inFlight[p] = inFlightProbes[p],
           FinishProbe(o, success, inFlight)
    PROVE Keeps
<1> DEFINE a == inFlightProbes[o]
           used == IF a.holdsSlot THEN probeSlotsUsed - 1 ELSE probeSlotsUsed
           sequence == IF Records(o) THEN probeSequence + 1 ELSE probeSequence
           states == IF Records(o) THEN Accepted(a, success) ELSE probeMembers
<1>1. RestTyped' /\ members' = members
  BY InvParts, Zenon DEF FinishProbe, RestTyped, networkVars, pauseVars, lifeVars
<1>2. TypedMembers(members', states)
  BY <1>1, InvParts, AcceptedTyped, Zenon
<1>3. used \in Int /\ sequence \in Nat
  BY InvParts
<1>4. Accounted(inFlight, used)
  <2>1. Holding(inFlightProbes) \subseteq Objects
    BY InvParts, Zenon DEF TypedAttempts, Holding
  <2>2. IsFiniteSet(Holding(inFlightProbes))
    BY <2>1, FiniteObjects, Zenon
  <2>3. Cardinality(Holding(inFlight)) = IF o \in Holding(inFlightProbes)
                                         THEN Cardinality(Holding(inFlightProbes)) - 1
                                         ELSE Cardinality(Holding(inFlightProbes))
    BY <2>2, FS_RemoveElement, ZenonT(60)
  <2>4. o \in Holding(inFlightProbes) <=> a.holdsSlot
    BY Zenon DEF Holding
  <2> QED
    BY <2>3, <2>4, InvParts, ConstantsAssumption, SMTT(30) DEF Accounted
<1>5. DispatchProbes(states, inFlight, used, sequence)
  BY Zenon DEF FinishProbe
<1>6. ASSUME Kept PROVE Handed(states, inFlight, sequence)
  <2>1. /\ networkGeneration' = networkGeneration
        /\ pausedBy' = pausedBy /\ pauseEvent' = pauseEvent /\ closed' = closed
    BY Zenon DEF FinishProbe, networkVars, pauseVars, lifeVars
  <2>2. /\ Belonging(members, probeMembers, inFlight, networkGeneration)
        /\ PauseHeeded(pausedBy, pauseEvent, closed, inFlight)
    BY <1>6, SMTT(30) DEF Kept, Belonging, PauseHeeded, AllFinalized
  <2>3. CASE Records(o)
    <3>1. states = Accepted(a, success) /\ sequence = probeSequence + 1
      BY <2>3, Zenon
    <3> HIDE DEF states, sequence
    <3>2. NeedsForced(states) /\ Sequenced(states, sequence) /\ Raised(states)
          /\ \A t \in DOMAIN members : states[t].membershipID = probeMembers[t].membershipID
      BY <1>1, <1>6, <2>3, <3>1, AcceptedAnswers, Zenon
    <3>3. Belonging(members', states, inFlight, networkGeneration')
      BY <1>1, <2>1, <2>2, <3>2 DEF Belonging
    <3> QED
      BY <2>1, <2>2, <3>2, <3>3, Zenon DEF Handed
  <2>4. CASE ~Records(o)
    <3>1. states = probeMembers /\ sequence = probeSequence
      BY <2>4, Zenon
    <3> HIDE DEF states, sequence
    <3>2. Raised(probeMembers)
      BY InvParts DEF Raised, TypedMembers, MemberProbeState, NotNeeded, IfStale, Forced
    <3> QED
      BY <1>1, <1>6, <2>1, <2>2, <3>1, <3>2, Zenon DEF Handed, Kept
  <2> QED
    BY <2>3, <2>4, Zenon
<1> HIDE DEF used, sequence, states
<1> QED
  BY <1>1, <1>2, <1>3, <1>4, <1>5, <1>6, DispatchConcludes, Zenon

\* The watchdog.
LEMMA TimeoutKeeps ==
    ASSUME Inv, NEW o \in Objects, TimeoutProbe(o)
    PROVE Keeps
<1> DEFINE inFlight == [inFlightProbes EXCEPT ![o] = Overdue(@)]
<1>1. o \in DOMAIN inFlightProbes /\ FinishProbe(o, FALSE, inFlight)
  BY Zenon DEF TimeoutProbe
<1>2. TypedAttempts(inFlightProbes)
  BY InvParts, Zenon
<1>3. TypedAttempts(inFlight)
  BY <1>1, <1>2, ZenonT(60) DEF TypedAttempts, Overdue, ProbeAttempt
<1>4. Holding(inFlight) = Holding(inFlightProbes) \ {o}
  BY <1>1, <1>2, Zenon DEF Holding, TypedAttempts, Overdue, ProbeAttempt
<1>5. /\ DOMAIN inFlight \subseteq DOMAIN inFlightProbes
      /\ \A p \in DOMAIN inFlight : IF p = o THEN inFlight[p].finalized
                                            ELSE inFlight[p] = inFlightProbes[p]
  BY <1>1, <1>2, Zenon DEF TypedAttempts, Overdue, ProbeAttempt
<1> HIDE DEF inFlight
<1> QED
  BY <1>1, <1>3, <1>4, <1>5, FinishKeeps, Zenon

\* The operation returns.
LEMMA CompleteKeeps ==
    ASSUME Inv, NEW o \in Objects, NEW success \in BOOLEAN, CompleteProbe(o, success)
    PROVE Keeps
<1> DEFINE inFlight == Without(inFlightProbes, o)
<1>1. o \in DOMAIN inFlightProbes /\ FinishProbe(o, success, inFlight)
  BY Zenon DEF CompleteProbe
<1>2. TypedAttempts(inFlight)
  BY InvParts, Zenon DEF TypedAttempts, Without
<1>3. Holding(inFlight) = Holding(inFlightProbes) \ {o}
  BY Zenon DEF Holding, Without
<1>4. /\ DOMAIN inFlight \subseteq DOMAIN inFlightProbes
      /\ \A p \in DOMAIN inFlight : p # o /\ inFlight[p] = inFlightProbes[p]
  BY Zenon DEF Without
<1> HIDE DEF inFlight
<1> QED
  BY <1>1, <1>2, <1>3, <1>4, FinishKeeps, Zenon

(***************************************************************************)
(* Lifecycle and membership.                                               *)
(***************************************************************************)
\* The group is created without members or attempts.
LEMMA InitInv == Init => Inv /\ Kept
<1> SUFFICES ASSUME Init PROVE Inv /\ Kept
  BY Zenon
<1>1. RestTyped
  <2>1. urls \in [Tags -> Urls]
    BY ConstantsAssumption, Zenon DEF Init
  <2>2. closed \in BOOLEAN /\ started \in BOOLEAN /\ probing \in BOOLEAN
    BY Zenon DEF Init
  <2> QED
    BY <2>1, <2>2, ConstantsAssumption, Zenon DEF Init, RestTyped
<1>2. TypedMembers(members, probeMembers) /\ TypedAttempts(inFlightProbes)
  BY Zenon DEF Init, TypedMembers, TypedAttempts
<1>3. Holding(inFlightProbes) = {}
  BY Zenon DEF Init, Holding
<1>4. Accounted(inFlightProbes, probeSlotsUsed)
  <2>1. probeSlotsUsed = 0
    BY Zenon DEF Init
  <2>2. 0 <= Limit
    BY ConstantsAssumption
  <2> QED
    BY <1>3, <2>1, <2>2, FS_EmptySet, Zenon DEF Accounted
<1>5. Kept
  BY Zenon DEF Init, Kept, NeedsForced, Sequenced, Belonging, PauseHeeded, Served
<1> QED
  BY <1>1, <1>2, <1>4, <1>5, InvParts DEF Init

\* Start leaves the attempts and slots alone.
LEMMA StartKeepsInv == ASSUME Inv, Start PROVE Keeps
<1>1. PICK object \in ObjectsFor(Listed) : members' = object
  BY Zenon DEF Start
<1>2. Listed \subseteq Tags
  BY InvParts DEF Listed, RestTyped
<1>3. object \in [Listed -> Objects] /\ \A t \in Listed : TagOf[object[t]] = t
  BY <1>1, Zenon DEF ObjectsFor
<1>4. TypedMembers(Merged(object, members), Joining(Listed))
  BY <1>2, <1>3, InvParts, JoiningTyped, Zenon DEF RestTyped
<1>5. Merged(object, members) = object
  BY <1>3, Zenon DEF Start, Merged
<1>6. TypedMembers(members', probeMembers')
  BY <1>1, <1>4, <1>5, Zenon DEF Start
<1>7. nextMembershipID' \in Nat
  BY <1>2, FiniteTags, Zenon DEF Start
<1>8. RestTyped'
  BY <1>7, InvParts, Zenon DEF Start, RestTyped, networkVars, pauseVars, lifeVars
<1>9. Inv'
  BY <1>6, <1>8, InvParts, InvPartsPrimed, Zenon DEF Start
<1>10. NeedsAnswered
  BY Zenon DEF Start, NeedsAnswered, SameMembership
<1>11. ASSUME Kept PROVE Kept'
  <2>1. /\ networkGeneration' = networkGeneration
        /\ pausedBy' = pausedBy /\ pauseEvent' = pauseEvent /\ closed' = closed
        /\ DOMAIN members = {} /\ members' = Merged(object, members)
    BY <1>1, <1>5, Zenon DEF Start, networkVars, pauseVars, lifeVars
  <2>2. /\ Handed(Joining(Listed), inFlightProbes, probeSequence)
        /\ \A t \in Listed : Joining(Listed)[t].need = NotNeeded
    BY <1>2, <1>3, <1>11, <2>1, JoiningHanded, Zenon
  <2>3. Served(members', probeMembers', inFlightProbes', probeSlotsUsed')
    BY <1>1, <1>3, <2>2, Zenon DEF Served, Start
  <2> QED
    BY <2>2, <2>3, Zenon DEF Handed, Start, Kept, NeedsForced, Sequenced, Belonging, PauseHeeded,
                      AllFinalized, Served
<1> QED
  BY <1>9, <1>10, <1>11, Zenon DEF Keeps

\* An operation that only raises needs.
LEMMA NeedsKeep ==
    ASSUME Inv, RestTyped', NEW states, TypedMembers(members', states),
           Kept => Handed(states, inFlightProbes, probeSequence), DispatchNeeds(states)
    PROVE Keeps
BY InvParts, DispatchConcludes, Zenon DEF DispatchNeeds

\* Add joins one member and dispatches.
LEMMA AddKeeps == ASSUME Inv, NEW t \in Tags, NEW o \in Objects, Add(t, o) PROVE Keeps
<1> DEFINE object == [u \in {t} |-> o]
<1>1. object \in [{t} -> Objects] /\ \A u \in {t} : TagOf[object[u]] = u
  BY ZenonT(60) DEF Add
<1>2. members' = Merged(object, members)
  BY Zenon DEF Add
<1> HIDE DEF object
<1>3. TypedMembers(members', Joining({t}))
  BY <1>1, <1>2, InvParts, JoiningTyped, Zenon DEF RestTyped
<1>4. TypedMembers(members', Requested(Joining({t}), {t}, IfStale))
  BY <1>3, RequestedTyped, Zenon
<1>5. RestTyped'
  BY InvParts, SMTT(30) DEF Add, RestTyped, networkVars, pauseVars, lifeVars
<1>6. DispatchNeeds(Requested(Joining({t}), {t}, IfStale))
  BY Zenon DEF Add
<1>7. ASSUME Kept
      PROVE Handed(Requested(Joining({t}), {t}, IfStale), inFlightProbes, probeSequence)
  <2>1. /\ networkGeneration' = networkGeneration
        /\ pausedBy' = pausedBy /\ pauseEvent' = pauseEvent /\ closed' = closed
        /\ {t} \cap DOMAIN members = {}
    BY Zenon DEF Add, networkVars, pauseVars, lifeVars
  <2>2. Handed(Joining({t}), inFlightProbes, probeSequence)
    BY <1>1, <1>2, <1>7, <2>1, JoiningHanded, Zenon
  <2> QED
    BY <1>3, <1>7, <2>2, RequestedHanded, Zenon
<1> QED
  BY <1>4, <1>5, <1>6, <1>7, NeedsKeep, Zenon

\* URLTest may adopt several members and forces all of them.
LEMMA URLTestKeeps == ASSUME Inv, URLTest PROVE Keeps
<1>0. PICK who \in SUBSET (Listed \ DOMAIN members) :
           \E object \in ObjectsFor(who) :
              /\ nextMembershipID' = nextMembershipID + Cardinality(who)
              /\ members' = Merged(object, members)
              /\ UNCHANGED <<tags, networkVars, pauseVars, lifeVars>>
              /\ DispatchNeeds(Requested(Joining(who), Tags, Forced))
  BY ZenonT(60) DEF URLTest
<1>1. PICK object \in ObjectsFor(who) :
           /\ nextMembershipID' = nextMembershipID + Cardinality(who)
           /\ members' = Merged(object, members)
           /\ UNCHANGED <<tags, networkVars, pauseVars, lifeVars>>
           /\ DispatchNeeds(Requested(Joining(who), Tags, Forced))
  BY <1>0, ZenonT(60)
<1>2. who \subseteq Tags
  BY InvParts, SMTT(30) DEF Listed, RestTyped
<1>3. object \in [who -> Objects] /\ \A t \in who : TagOf[object[t]] = t
  BY <1>1, Zenon DEF ObjectsFor
<1>4. TypedMembers(members', Joining(who))
  BY <1>1, <1>2, <1>3, InvParts, JoiningTyped, Zenon DEF RestTyped
<1>5. TypedMembers(members', Requested(Joining(who), Tags, Forced))
  BY <1>4, RequestedTyped, Zenon
<1>6. nextMembershipID' \in Nat
  <2>1. nextMembershipID \in Nat
    BY InvParts, Zenon DEF RestTyped
  <2>2. Cardinality(who) \in Nat
    BY <1>2, FiniteTags, Zenon
  <2> QED
    BY <1>1, <2>1, <2>2, SMTT(30)
<1>7. RestTyped'
  BY <1>1, <1>6, InvParts, Zenon DEF RestTyped, networkVars, pauseVars, lifeVars
<1>8. ASSUME Kept
      PROVE Handed(Requested(Joining(who), Tags, Forced), inFlightProbes, probeSequence)
  <2>1. /\ networkGeneration' = networkGeneration
        /\ pausedBy' = pausedBy /\ pauseEvent' = pauseEvent /\ closed' = closed
        /\ who \cap DOMAIN members = {}
    BY <1>1, Zenon DEF networkVars, pauseVars, lifeVars
  <2>2. Handed(Joining(who), inFlightProbes, probeSequence)
    BY <1>1, <1>2, <1>3, <1>8, <2>1, JoiningHanded, Zenon
  <2> QED
    BY <1>4, <1>8, <2>2, RequestedHanded, Zenon
<1> QED
  BY <1>1, <1>5, <1>7, <1>8, NeedsKeep, Zenon

\* Taking a tag off the list.
LEMMA DelistedTyped == ASSUME NEW t, tags \in Seq(Tags) PROVE Delisted(t) \in Seq(Tags)
<1>1. CASE t \notin Listed
  BY <1>1, Zenon DEF Delisted
<1>2. CASE t \in Listed
  <2> DEFINE i == CHOOSE i \in DOMAIN tags : tags[i] = t
             s == [j \in 1 .. Len(tags) - 1 |-> IF j < i THEN tags[j] ELSE tags[j + 1]]
  <2>1. Len(tags) - 1 \in Nat
    BY <1>2 DEF Listed
  <2>2. Delisted(t) = s
    BY <1>2, Zenon DEF Delisted
  <2>3. i \in Nat
    BY <1>2 DEF Listed
  <2> HIDE DEF i
  <2>4. \A j \in 1 .. Len(tags) - 1 : s[j] \in Tags
    BY <2>1, <2>3
  <2> QED
    BY <2>1, <2>2, <2>4
<1> QED
  BY <1>1, <1>2, Zenon

\* Remove drops the probe state with the member and frees no slot: the cancelled operation keeps
\* its own until it returns or its watchdog fires.
LEMMA RemoveKeeps == ASSUME Inv, NEW t \in Tags, Remove(t) PROVE Keeps
<1>1. RestTyped'
  <2>1. tags' \in Seq(Tags)
    BY InvParts, DelistedTyped, Zenon DEF Remove, RestTyped
  <2>2. urls' \in [Tags -> Urls]
    BY InvParts, ConstantsAssumption, Zenon DEF Remove, RestTyped
  <2> QED
    BY <2>1, <2>2, InvParts, Zenon DEF Remove, RestTyped, pauseVars, lifeVars
<1>2. TypedMembers(members', DroppedState(t))
  BY InvParts, Zenon DEF Remove, TypedMembers, DroppedState, Without
<1>3. /\ TypedAttempts(Cancelled({members[t]}))
      /\ Accounted(Cancelled({members[t]}), probeSlotsUsed)
  BY InvParts, CancelledKeeps, Zenon DEF Accounted
<1>4. DispatchProbes(DroppedState(t), Cancelled({members[t]}), probeSlotsUsed, probeSequence)
  BY Zenon DEF Remove
<1>5. ASSUME Kept
      PROVE Handed(DroppedState(t), Cancelled({members[t]}), probeSequence)
  <2> DEFINE states == DroppedState(t)
             inFlight == Cancelled({members[t]})
  <2>1. /\ networkGeneration' = networkGeneration
        /\ pausedBy' = pausedBy /\ pauseEvent' = pauseEvent /\ closed' = closed
    BY Zenon DEF Remove, pauseVars, lifeVars
  <2>2. /\ DOMAIN states = DOMAIN members' /\ DOMAIN members' = DOMAIN members \ {t}
        /\ DOMAIN members = DOMAIN probeMembers
        /\ \A u \in DOMAIN members \ {t} :
              states[u] = probeMembers[u] /\ members'[u] = members[u]
    BY InvParts, Zenon DEF Remove, DroppedState, Without, TypedMembers
  <2>3. /\ Belonging(members, probeMembers, inFlight, networkGeneration)
        /\ AllFinalized(inFlightProbes) => AllFinalized(inFlight)
    BY <1>5, InvParts, CancelledBelongs, Zenon DEF Kept
  <2>4. \A o \in DOMAIN inFlight : ~inFlight[o].finalized => inFlight[o].tag # t
    <3>1. \A o \in DOMAIN inFlight : o = members[t] => inFlight[o].finalized
      BY InvParts, Zenon DEF Cancelled, TypedAttempts, ProbeAttempt
    <3> QED
      BY <2>3, <3>1 DEF Belonging
  <2>5. \A u \in DOMAIN members : probeMembers[u].need \in 0..2
    BY InvParts, SMTT(30) DEF TypedMembers, MemberProbeState, NotNeeded, IfStale, Forced
  <2> HIDE DEF states, inFlight
  <2>6. NeedsForced(states) /\ Sequenced(states, probeSequence)
    BY <1>5, <2>2, Zenon DEF NeedsForced, Sequenced, Kept
  <2>7. Belonging(members', states, inFlight, networkGeneration')
    BY <2>1, <2>2, <2>3, <2>4, Zenon DEF Belonging
  <2>8. PauseHeeded(pausedBy', pauseEvent', closed', inFlight)
    BY <1>5, <2>1, <2>3, Zenon DEF PauseHeeded, Kept
  <2>9. Raised(states)
    BY <2>2, <2>5 DEF Raised
  <2> QED
    BY <2>6, <2>7, <2>8, <2>9, Zenon DEF Handed, states, inFlight
<1> QED
  BY <1>1, <1>2, <1>3, <1>4, <1>5, InvParts, DispatchConcludes, Zenon

(***************************************************************************)
(* Requests, pauses, network changes and time.                             *)
(***************************************************************************)
\* The operations that raise needs of the present members and change nothing else of theirs.
LEMMA RequestsKeep ==
    ASSUME Inv, PostStart \/ CheckOutbounds \/ ForceProbes \/ KeepAlive
    PROVE Keeps
<1>1. /\ RestTyped' /\ members' = members
      /\ networkGeneration' = networkGeneration
      /\ pausedBy' = pausedBy /\ pauseEvent' = pauseEvent /\ closed' = closed
  BY InvParts, Zenon DEF PostStart, CheckOutbounds, ForceProbes, KeepAlive, RestTyped, networkVars,
                  pauseVars, lifeVars
<1>2. PICK need \in {IfStale, Forced} : DispatchNeeds(Requested(probeMembers, Tags, need))
  BY Zenon DEF PostStart, CheckOutbounds, ForceProbes, KeepAlive
<1>3. TypedMembers(members', probeMembers)
  BY <1>1, InvParts, Zenon
<1>4. TypedMembers(members', Requested(probeMembers, Tags, need))
  BY <1>3, RequestedTyped, Zenon
<1>5. ASSUME Kept
      PROVE Handed(Requested(probeMembers, Tags, need), inFlightProbes, probeSequence)
  BY <1>1, <1>3, <1>5, PresentHanded, RequestedHanded, Zenon DEF Kept
<1> QED
  BY <1>1, <1>2, <1>4, <1>5, NeedsKeep, Zenon

\* SetURLOverrides changes a URL and forces its member.
LEMMA OverridesKeep ==
    ASSUME Inv, NEW t \in Tags, NEW u \in Urls, SetURLOverrides(t, u)
    PROVE Keeps
<1>1. /\ RestTyped' /\ members' = members
      /\ networkGeneration' = networkGeneration
      /\ pausedBy' = pausedBy /\ pauseEvent' = pauseEvent /\ closed' = closed
  BY InvParts, Zenon DEF SetURLOverrides, RestTyped, pauseVars, lifeVars
<1>2. TypedMembers(members', probeMembers)
  BY <1>1, InvParts, Zenon
<1>3. TypedMembers(members', Requested(probeMembers, {t}, Forced))
  BY <1>2, RequestedTyped, Zenon
<1>4. ASSUME Kept
      PROVE Handed(Requested(probeMembers, {t}, Forced), inFlightProbes, probeSequence)
  BY <1>1, <1>2, <1>4, PresentHanded, RequestedHanded, Zenon DEF Kept
<1> QED
  BY <1>1, <1>3, <1>4, NeedsKeep, Zenon DEF SetURLOverrides

\* requestFailureConfirmation raises one need and may take a sequence number.
LEMMA ConfirmationKeeps ==
    ASSUME Inv, NEW t \in Tags, RequestFailureConfirmation(t)
    PROVE Keeps
<1> DEFINE repeated == probeMembers[t].confirmationPending
           sequence == IF repeated THEN probeSequence ELSE probeSequence + 1
           asked == [probeMembers[t] EXCEPT
                        !.need = Forced, !.confirmationPending = TRUE,
                        !.confirmSequence = IF repeated THEN @ ELSE sequence]
           states == [probeMembers EXCEPT ![t] = asked]
<1>1. RestTyped' /\ members' = members /\ t \in DOMAIN members
  BY InvParts, Zenon DEF RequestFailureConfirmation, RestTyped, networkVars, pauseVars, lifeVars
<1>2. sequence \in Nat
  BY InvParts
<1>3. DispatchProbes(states, inFlightProbes, probeSlotsUsed, sequence)
  BY Zenon DEF RequestFailureConfirmation
<1>4. asked \in MemberProbeState
  <2>1. probeMembers[t] \in MemberProbeState
    BY <1>1, InvParts, Zenon DEF TypedMembers
  <2> HIDE DEF sequence, repeated
  <2> QED
    BY <1>2, <2>1, Zenon DEF MemberProbeState
<1>5. /\ asked.need = Forced /\ asked.outcome = probeMembers[t].outcome
      /\ asked.membershipID = probeMembers[t].membershipID
  BY <1>1, InvParts, SMTT(30) DEF TypedMembers, MemberProbeState
<1> HIDE DEF asked, sequence
<1>6. TypedMembers(members', states)
  BY <1>1, <1>4, InvParts, Zenon DEF TypedMembers
<1>7. ASSUME Kept PROVE Handed(states, inFlightProbes, sequence)
  <2>1. /\ networkGeneration' = networkGeneration /\ t \notin Excluded
        /\ pausedBy' = pausedBy /\ pauseEvent' = pauseEvent /\ closed' = closed
    BY Zenon DEF RequestFailureConfirmation, networkVars, pauseVars, lifeVars
  <2>2. /\ DOMAIN members = DOMAIN probeMembers /\ probeSequence \in Nat
        /\ \A u \in DOMAIN members :
              probeMembers[u].need \in 0..2 /\ probeMembers[u].outcome.sequence \in Nat
    BY InvParts, SMTT(30) DEF TypedMembers, MemberProbeState, Outcome, NotNeeded, IfStale, Forced
  <2>3. /\ DOMAIN states = DOMAIN members
        /\ \A u \in DOMAIN members \ {t} : states[u] = probeMembers[u]
        /\ states[t] = asked
    BY <1>1, <2>2, Zenon
  <2>4. sequence >= probeSequence
    BY <2>2 DEF sequence
  <2> HIDE DEF states
  <2>5. NeedsForced(states)
    BY <1>5, <1>7, <2>1, <2>2, <2>3, ZenonT(60) DEF NeedsForced, Kept
  <2>6. Sequenced(states, sequence)
    BY <1>2, <1>5, <1>7, <2>2, <2>3, <2>4 DEF Sequenced, Kept
  <2>7. Belonging(members', states, inFlightProbes, networkGeneration')
    BY <1>1, <1>5, <1>7, <2>1, <2>2, <2>3, Zenon DEF Belonging, Kept
  <2>8. Raised(states)
    BY <1>1, <1>5, <2>2, <2>3 DEF Raised, Forced
  <2> QED
    BY <1>7, <2>1, <2>5, <2>6, <2>7, <2>8, Zenon DEF Handed, Kept
<1> HIDE DEF states
<1> QED
  BY <1>1, <1>2, <1>3, <1>6, <1>7, InvParts, DispatchConcludes, Zenon

\* advanceNetworkLocked cancels, forgets confirmations and forces.
LEMMA NetworkKeeps ==
    ASSUME Inv, NEW awaited \in SUBSET Tags, InterfaceUpdated(awaited)
    PROVE Keeps
<1> DEFINE calm == [t \in DOMAIN probeMembers |->
                       [probeMembers[t] EXCEPT !.confirmationPending = FALSE]]
           forced == (IF probing THEN Tags ELSE awaited) \ LastResort
<1>1. RestTyped' /\ members' = members
  BY InvParts DEF InterfaceUpdated, RestTyped, pauseVars, lifeVars
<1>2. TypedMembers(members', calm)
  BY <1>1, InvParts, ZenonT(60) DEF TypedMembers, MemberProbeState
<1>3. TypedMembers(members', Requested(calm, forced, Forced))
  BY <1>2, RequestedTyped, Zenon
<1>4. /\ TypedAttempts(Cancelled(OrdinaryAttempts))
      /\ Accounted(Cancelled(OrdinaryAttempts), probeSlotsUsed)
  BY InvParts, CancelledKeeps, Zenon DEF Accounted
<1>5. DispatchProbes(Requested(calm, forced, Forced), Cancelled(OrdinaryAttempts),
                     probeSlotsUsed, probeSequence)
  BY Zenon DEF InterfaceUpdated
<1>6. ASSUME Kept
      PROVE Handed(Requested(calm, forced, Forced), Cancelled(OrdinaryAttempts), probeSequence)
  <2> DEFINE states == Requested(calm, forced, Forced)
             inFlight == Cancelled(OrdinaryAttempts)
  <2>1. pausedBy' = pausedBy /\ pauseEvent' = pauseEvent /\ closed' = closed
    BY Zenon DEF InterfaceUpdated, pauseVars, lifeVars
  <2>2. /\ DOMAIN members = DOMAIN probeMembers
        /\ \A t \in DOMAIN members : probeMembers[t].need \in 0..2
    BY InvParts DEF TypedMembers, MemberProbeState, NotNeeded, IfStale, Forced
  <2>3. /\ DOMAIN calm = DOMAIN members
        /\ \A t \in DOMAIN members :
              /\ calm[t].outcome = probeMembers[t].outcome /\ calm[t].need = probeMembers[t].need
              /\ calm[t].membershipID = probeMembers[t].membershipID
              /\ ~calm[t].confirmationPending
    BY InvParts DEF TypedMembers, MemberProbeState
  <2> HIDE DEF calm, forced
  <2>4. NeedsForced(calm)
    BY <1>6, <2>2, <2>3, ZenonT(60) DEF NeedsForced, Kept
  <2>5. /\ NeedsForced(states)
        /\ \A t \in DOMAIN calm :
              /\ states[t].outcome = calm[t].outcome
              /\ states[t].membershipID = calm[t].membershipID
              /\ states[t].need >= calm[t].need
    <3>1. \A t \in DOMAIN calm : calm[t] \in MemberProbeState
      BY <1>2, Zenon DEF TypedMembers
    <3> QED
      BY <2>4, <3>1, RequestedRaises, Zenon
  <2>6. DOMAIN states = DOMAIN members
    BY <2>3, Zenon DEF Requested
  <2>7. /\ Belonging(members, probeMembers, inFlight, networkGeneration)
        /\ AllFinalized(inFlightProbes) => AllFinalized(inFlight)
    BY <1>6, InvParts, CancelledBelongs, Zenon DEF Kept
  <2>8. \A o \in DOMAIN inFlight : ~inFlight[o].finalized => inFlight[o].tag \in LastResort
    BY InvParts, Zenon DEF Cancelled, OrdinaryAttempts, TypedAttempts, ProbeAttempt
  <2> HIDE DEF states, inFlight
  <2>9. Sequenced(states, probeSequence)
    BY <1>6, <2>2, <2>3, <2>5, <2>6, ZenonT(60) DEF Sequenced, Kept
  <2>10. Belonging(members', states, inFlight, networkGeneration')
    BY <1>1, <2>3, <2>5, <2>7, <2>8 DEF Belonging
  <2>11. PauseHeeded(pausedBy', pauseEvent', closed', inFlight)
    BY <1>6, <2>1, <2>7, Zenon DEF PauseHeeded, Kept
  <2>12. Raised(states)
    BY <1>1, <2>3, <2>5, Zenon DEF Raised
  <2> QED
    BY <2>5, <2>9, <2>10, <2>11, <2>12, Zenon DEF Handed, states, inFlight
<1> HIDE DEF calm, forced
<1> QED
  BY <1>1, <1>3, <1>4, <1>5, <1>6, InvParts, DispatchConcludes, Zenon

\* A wake only dispatches.
LEMMA WakeKeeps == ASSUME Inv, OnWake PROVE Keeps
<1>1. /\ RestTyped' /\ members' = members
      /\ networkGeneration' = networkGeneration /\ closed' = closed
      /\ pauseEvent = "wake" /\ pauseEvent' = "none" /\ pausedBy' = pausedBy
  BY InvParts, Zenon DEF OnWake, RestTyped, networkVars, lifeVars
<1>2. ASSUME Kept PROVE Handed(probeMembers, inFlightProbes, probeSequence)
  <2>1. PauseHeeded(pausedBy', pauseEvent', closed', inFlightProbes)
    BY <1>1, <1>2, Zenon DEF PauseHeeded, Kept
  <2> QED
    BY <1>1, <1>2, <2>1, PresentHanded, Zenon
<1>3. TypedMembers(members', probeMembers)
  BY <1>1, InvParts, Zenon
<1> QED
  BY <1>1, <1>2, <1>3, NeedsKeep, Zenon DEF OnWake

\* Steps that dispatch nothing: they cancel, or leave the attempts alone.
LEMMA QuietKeeps ==
    ASSUME Inv,
           \/ Close \/ OnPause \/ StopProbing
           \/ \E source \in PauseSources : PauseManagerPauses(source) \/ PauseManagerWakes(source)
           \/ UNCHANGED vars
    PROVE Keeps
<1>1. RestTyped'
  <2>1. CASE Close
    BY <2>1, InvParts, Zenon DEF Close, RestTyped, networkVars, pauseVars
  <2>2. CASE OnPause
    BY <2>2, InvParts DEF OnPause, RestTyped, networkVars, lifeVars
  <2>3. CASE StopProbing
    BY <2>3, InvParts, Zenon DEF StopProbing, RestTyped, schedulerVars, networkVars, pauseVars
  <2>4. ASSUME NEW source \in PauseSources,
               PauseManagerPauses(source) \/ PauseManagerWakes(source)
        PROVE RestTyped'
    BY <2>4, InvParts, Zenon DEF PauseManagerPauses, PauseManagerWakes, RestTyped, schedulerVars,
                          networkVars, lifeVars
  <2>5. CASE UNCHANGED vars
    BY <2>5, InvParts, Zenon DEF RestTyped, vars, schedulerVars, networkVars, pauseVars, lifeVars
  <2> QED
    BY <2>1, <2>2, <2>3, <2>4, <2>5, Zenon
<1>2. /\ members' = members /\ probeMembers' = probeMembers
      /\ probeSlotsUsed' = probeSlotsUsed /\ probeSequence' = probeSequence
      /\ inFlightProbes' \in {inFlightProbes, Cancelled(Objects)}
  BY Zenon DEF Close, OnPause, StopProbing, PauseManagerPauses, PauseManagerWakes,
         vars, schedulerVars
<1>3. TypedAttempts(inFlightProbes') /\ Accounted(inFlightProbes', probeSlotsUsed')
  BY <1>2, InvParts, CancelledKeeps, Zenon DEF Accounted
<1>4. Inv'
  BY <1>1, <1>2, <1>3, InvParts, InvPartsPrimed, Zenon
<1>5. NeedsAnswered
  <2>1. \A t \in DOMAIN members : probeMembers[t].need \in 0..2
    BY InvParts DEF TypedMembers, MemberProbeState, NotNeeded, IfStale, Forced
  <2> QED
    BY <1>2, <2>1, SMTT(30) DEF NeedsAnswered, SameMembership
<1>6. ASSUME Kept PROVE Kept'
  <2>1. networkGeneration' = networkGeneration
    BY Zenon DEF Close, OnPause, StopProbing, PauseManagerPauses, PauseManagerWakes, vars, networkVars
  <2>2. /\ Belonging(members, probeMembers, inFlightProbes', networkGeneration)
        /\ AllFinalized(inFlightProbes) => AllFinalized(inFlightProbes')
    BY <1>2, <1>6, InvParts, CancelledBelongs, Zenon DEF Kept
  <2>3. AllFinalized(Cancelled(Objects))
    BY InvParts, Zenon DEF AllFinalized, Cancelled, TypedAttempts, ProbeAttempt
  <2>4. PauseHeeded(pausedBy', pauseEvent', closed', inFlightProbes')
    <3>1. CASE Close
      BY <1>6, <3>1, Zenon DEF Close, PauseHeeded, Kept, pauseVars
    <3>2. CASE OnPause
      BY <1>6, <2>3, <3>2, Zenon DEF OnPause, PauseHeeded, Kept, lifeVars
    <3>3. CASE StopProbing \/ UNCHANGED vars
      BY <1>6, <3>3, Zenon DEF StopProbing, PauseHeeded, Kept, pauseVars, schedulerVars, vars, lifeVars
    <3>4. ASSUME NEW source \in PauseSources, PauseManagerPauses(source)
          PROVE PauseHeeded(pausedBy', pauseEvent', closed', inFlightProbes')
      BY <3>4, Zenon DEF PauseManagerPauses, PauseHeeded
    <3>5. ASSUME NEW source \in PauseSources, PauseManagerWakes(source)
          PROVE PauseHeeded(pausedBy', pauseEvent', closed', inFlightProbes')
      BY <1>6, <3>5, Zenon DEF PauseManagerWakes, PauseHeeded, Kept, schedulerVars, lifeVars
    <3> QED
      BY <3>1, <3>2, <3>3, <3>4, <3>5, Zenon
  <2>5. ~closed' /\ pausedBy' = {} /\ pauseEvent' = "none" =>
            /\ ~closed /\ pausedBy = {} /\ pauseEvent = "none"
            /\ inFlightProbes' = inFlightProbes
    BY <1>6, Zenon DEF Close, OnPause, StopProbing, PauseManagerPauses, PauseManagerWakes, vars,
                schedulerVars, pauseVars, lifeVars, PauseHeeded, Kept
  <2>6. ~closed' /\ pausedBy' = {} /\ pauseEvent' = "none"
           => Served(members, probeMembers, inFlightProbes', probeSlotsUsed)
    BY <1>6, <2>5, Zenon DEF Kept
  <2> QED
    BY <1>2, <1>6, <2>1, <2>2, <2>4, <2>6, ZenonT(60) DEF Kept, NeedsForced, Sequenced, Belonging,
       PauseHeeded, AllFinalized, Served
<1> QED
  BY <1>4, <1>5, <1>6, Zenon DEF Keeps

\* Time only ages an outcome.
LEMMA AgeKeeps == ASSUME Inv, NEW t \in Tags, OutcomeAges(t) PROVE Keeps
<1> DEFINE outcome == [probeMembers[t].outcome EXCEPT !.age = @ + 1]
<1>1. RestTyped' /\ members' = members /\ t \in DOMAIN members
  BY InvParts, Zenon DEF OutcomeAges, RestTyped, networkVars, pauseVars, lifeVars
<1>2. probeMembers[t] \in MemberProbeState
  BY <1>1, InvParts DEF TypedMembers
<1>3. probeMembers[t].outcome.age + 1 \in 0..2
  BY <1>2, ConstantsAssumption, SMTT(30) DEF OutcomeAges, MemberProbeState, Outcome
<1>4. [probeMembers[t] EXCEPT !.outcome.age = @ + 1] \in MemberProbeState
  BY <1>2, <1>3, Zenon DEF MemberProbeState, Outcome
<1>5. TypedMembers(members', probeMembers')
  BY <1>1, <1>4, InvParts, Zenon DEF OutcomeAges, TypedMembers
<1>6. Inv'
  BY <1>1, <1>5, InvParts, InvPartsPrimed, Zenon DEF OutcomeAges
<1>7. /\ DOMAIN probeMembers' = DOMAIN members /\ DOMAIN probeMembers = DOMAIN members
      /\ \A u \in DOMAIN members :
            /\ probeMembers'[u].need = probeMembers[u].need
            /\ probeMembers'[u].membershipID = probeMembers[u].membershipID
            /\ probeMembers'[u].confirmationPending = probeMembers[u].confirmationPending
            /\ probeMembers'[u].outcome.sequence = probeMembers[u].outcome.sequence
  <2>1. DOMAIN probeMembers = DOMAIN members /\ \A u \in DOMAIN members : probeMembers[u] \in MemberProbeState
    BY InvParts, Zenon DEF TypedMembers
  <2>2. probeMembers' = [probeMembers EXCEPT ![t].outcome.age = @ + 1]
    BY Zenon DEF OutcomeAges
  <2> QED
    BY <1>1, <2>1, <2>2, Zenon DEF MemberProbeState, Outcome
<1>8. NeedsAnswered
  <2>1. \A u \in DOMAIN members : probeMembers[u].need \in 0..2
    BY InvParts DEF TypedMembers, MemberProbeState, NotNeeded, IfStale, Forced
  <2> QED
    BY <1>1, <1>7, <2>1, SMTT(30) DEF NeedsAnswered, SameMembership
<1>9. ASSUME Kept PROVE Kept'
  BY <1>1, <1>7, <1>9 DEF OutcomeAges, Kept, NeedsForced, Sequenced, Belonging, PauseHeeded,
     AllFinalized, Served, networkVars, pauseVars, lifeVars
<1> QED
  BY <1>6, <1>8, <1>9, Zenon DEF Keeps

\* Every step keeps the invariants: one lemma per action, or per group of actions of one shape.
LEMMA EveryStepKeeps == Inv /\ [Next]_vars => Keeps
<1> SUFFICES ASSUME Inv, [Next]_vars PROVE Keeps
  BY Zenon
<1>1. CASE ProbeStep
  BY <1>1, TimeoutKeeps, CompleteKeeps, Zenon DEF ProbeStep
<1>2. CASE Operation
  BY <1>2, StartKeepsInv, RequestsKeep, QuietKeeps, AddKeeps, RemoveKeeps, OverridesKeep,
     URLTestKeeps, ConfirmationKeeps, SMTT(30) DEF Operation
<1>3. CASE Surroundings
  BY <1>3, QuietKeeps, WakeKeeps, NetworkKeeps, AgeKeeps, Zenon DEF Surroundings
<1> QED
  BY <1>1, <1>2, <1>3, QuietKeeps, Zenon DEF Next

\* The invariant by itself.
LEMMA StepKeepsInv == Inv /\ [Next]_vars => Inv'
BY EveryStepKeeps, Zenon DEF Keeps

\* Both invariants hold in every reachable state.
LEMMA AlwaysKept == Spec => [](Inv /\ Kept)
<1>1. Inv /\ Kept /\ [Next]_vars => Inv' /\ Kept'
  BY EveryStepKeeps, Zenon DEF Keeps
<1> QED
  BY <1>1, InitInv, PTL DEF Spec

\* The types of the scheduler's state are kept by every operation.
THEOREM TypeCorrect == Spec => []TypeOK
<1>1. Inv => TypeOK
  BY Zenon DEF Inv
<1> QED
  BY <1>1, AlwaysKept, PTL

\* For any number of members and any limit, probeSlotsUsed is the number of operations that hold
\* a slot and never exceeds the limit, through every order of dispatch, cancellation, watchdog,
\* late return, removal, re-addition, pause and network change.
THEOREM SlotsAlwaysAccounted == Spec => []SlotsAccounted
<1>1. Inv => SlotsAccounted
  BY Zenon DEF Inv
<1> QED
  BY <1>1, AlwaysKept, PTL

\* No need is forgotten: while the group is open and awake, a member that needs a probe has its
\* object busy or waits for a slot that is taken, and a pending confirmation keeps its probe
\* forced, for any number of members and whatever is cancelled, removed or paused meanwhile.
THEOREM NeedsAlwaysKept == Spec => []NeedsAreKept
<1>1. Inv /\ Kept => NeedsAreKept
  BY InvParts, ZenonT(60) DEF Kept, Served, NeedsForced, NeedsAreKept, NoForgottenNeed,
                  ConfirmationStaysNeeded, TypedMembers
<1> QED
  BY <1>1, AlwaysKept, PTL

\* An attempt that may still record belongs to the present membership, the present network and an
\* unpaused group: removal, re-addition, network change and pause each cancel first.
THEOREM LiveAttemptsAlwaysCurrent == Spec => []LiveAttemptIsCurrent
<1>1. Inv /\ Kept => LiveAttemptIsCurrent
  BY Zenon DEF Kept, Belonging, PauseHeeded, AllFinalized, LiveAttemptIsCurrent
<1> QED
  BY <1>1, AlwaysKept, PTL

\* A need is lowered only by an outcome recorded in that step or, if the need accepts one, by a
\* fresh outcome of the current URL and network.
THEOREM NeedsAlwaysAnswered == Spec => NeedsAreAnswered
<1>1. Inv /\ Kept /\ [Next]_vars => [NeedsAnswered]_vars
  BY EveryStepKeeps, Zenon DEF Keeps
<1>2. [][NeedsAnswered]_vars => NeedsAreAnswered
  BY PTL DEF NeedsAnswered, NeedsAreAnswered
<1> QED
  BY <1>1, <1>2, AlwaysKept, PTL DEF Spec
=============================================================================
