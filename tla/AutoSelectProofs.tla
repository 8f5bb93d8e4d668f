-------------------------- MODULE AutoSelectProofs --------------------------
(***************************************************************************)
(* Proofs about the two modules that build on ProbeScheduler:              *)
(* FailureSwitch, selection under confirmed failures, and ProbeWaiters,    *)
(* the callers that wait for probes.  In both the scheduler underneath is  *)
(* still the scheduler, so what ProbeSchedulerProofs shows holds there.    *)
(***************************************************************************)
EXTENDS FailureSwitch, ProbeWaiters, ProbeSchedulerProofs

\* A step of selection is a step of the scheduler, or leaves it alone.
LEMMA SwitchStepIsCoreStep == [SwitchNext]_switchVars => [Next]_vars
<1> SUFFICES ASSUME SwitchNext \/ UNCHANGED switchVars PROVE Next \/ UNCHANGED vars
  BY Zenon
<1> USE DEF Next, ProbeStep, Operation
<1>1. ASSUME NEW o \in Objects, SwitchTimeout(o) PROVE Next
  BY <1>1, Zenon DEF SwitchTimeout
<1>2. ASSUME NEW o \in Objects, NEW success \in BOOLEAN, SwitchComplete(o, success) PROVE Next
  BY <1>2, Zenon DEF SwitchComplete
<1>3. ASSUME NEW t \in Tags, SelectTCP(t) PROVE Next \/ UNCHANGED vars
  BY <1>3, Zenon DEF SelectTCP
<1>4. ASSUME NEW t \in Tags, NEW alternate, ReportFailure(t, alternate) PROVE Next
  BY <1>4, Zenon DEF ReportFailure
<1>5. ASSUME NEW t \in Tags, SwitchRemove(t) PROVE Next
  BY <1>5, Zenon DEF SwitchRemove
<1>6. CASE SwitchCooldownEnds
  BY <1>6, Zenon DEF SwitchCooldownEnds
<1>7. CASE Unselective
  BY <1>7, Zenon DEF Unselective
<1>8. CASE UNCHANGED switchVars
  BY <1>8, Zenon DEF switchVars
<1> QED
  BY <1>1, <1>2, <1>3, <1>4, <1>5, <1>6, <1>7, <1>8, Zenon DEF SwitchNext

\* Selection runs on the unchanged scheduler: dials, failure reports and confirmed-failure
\* switches make no step that the scheduler could not make by itself.
THEOREM SwitchImplementsScheduler == SwitchSpec => Spec
<1>1. SwitchInit => Init
  BY Zenon DEF SwitchInit
<1> QED
  BY <1>1, SwitchStepIsCoreStep, PTL DEF SwitchSpec, Spec

\* Where a step may leave TCP selection: where it was, on a member, or nowhere.
LEMMA StickyMoves ==
    ASSUME SwitchNext \/ UNCHANGED switchVars, ~\E t \in Tags : SwitchRemove(t)
    PROVE stickyTCP' = stickyTCP \/ stickyTCP' \in DOMAIN members
<1>1. ASSUME NEW o, NEW success, Consequences(o, success)
      PROVE stickyTCP' = stickyTCP \/ stickyTCP' \in DOMAIN members
  BY <1>1, Zenon DEF Consequences, SwitchAfterConfirmedFailure, EligibleReplacement, selectVars
<1>2. ASSUME NEW o \in Objects, SwitchTimeout(o)
      PROVE stickyTCP' = stickyTCP \/ stickyTCP' \in DOMAIN members
  BY <1>1, <1>2, Zenon DEF SwitchTimeout
<1>3. ASSUME NEW o \in Objects, NEW success \in BOOLEAN, SwitchComplete(o, success)
      PROVE stickyTCP' = stickyTCP \/ stickyTCP' \in DOMAIN members
  BY <1>1, <1>3, Zenon DEF SwitchComplete
<1>4. ASSUME NEW t \in Tags, SelectTCP(t)
      PROVE stickyTCP' = stickyTCP \/ stickyTCP' \in DOMAIN members
  BY <1>4, Zenon DEF SelectTCP
<1>5. ASSUME NEW t \in Tags, NEW alternate, ReportFailure(t, alternate)
      PROVE stickyTCP' = stickyTCP
  BY <1>5, Zenon DEF ReportFailure
<1>6. CASE SwitchCooldownEnds \/ (Unselective /\ UNCHANGED selectVars) \/ UNCHANGED switchVars
  BY <1>6, Zenon DEF SwitchCooldownEnds, selectVars, switchVars
<1> QED
  BY <1>2, <1>3, <1>4, <1>5, <1>6, Zenon DEF SwitchNext

\* The core steps inside the selection steps other than SwitchRemove remove nobody.
LEMMA OnlySwitchRemoveRemoves ==
    ASSUME SwitchNext \/ UNCHANGED switchVars, ~\E t \in Tags : SwitchRemove(t)
    PROVE DOMAIN members \subseteq DOMAIN members'
<1>1. ASSUME NEW o \in Objects, NEW success \in BOOLEAN, TimeoutProbe(o) \/ CompleteProbe(o, success)
      PROVE members' = members
  BY <1>1, Zenon DEF TimeoutProbe, CompleteProbe, FinishProbe
<1>2. ASSUME NEW t \in Tags, SelectTCP(t) PROVE members' = members
  BY <1>2, Zenon DEF SelectTCP, KeepAlive, vars, schedulerVars
<1>3. ASSUME NEW t \in Tags, NEW alternate, ReportFailure(t, alternate) PROVE members' = members
  BY <1>3, Zenon DEF ReportFailure, RequestFailureConfirmation
<1>4. CASE SwitchCooldownEnds \/ UNCHANGED switchVars
  BY <1>4, Zenon DEF SwitchCooldownEnds, switchVars, vars, schedulerVars
<1>5. CASE Unselective
  <2>1. CASE \E t \in Tags, o \in Objects : Add(t, o)
    BY <2>1, Zenon DEF Add, Merged
  <2>2. CASE URLTest
    BY <2>2, Zenon DEF URLTest, Merged
  <2>3. CASE Start
    BY <2>3, Zenon DEF Start
  <2>4. CASE PostStart \/ Close \/ CheckOutbounds \/ ForceProbes \/ KeepAlive
    BY <2>4, Zenon DEF PostStart, Close, CheckOutbounds, ForceProbes, KeepAlive
  <2>5. CASE \E t \in Tags, u \in Urls : SetURLOverrides(t, u)
    BY <2>5, Zenon DEF SetURLOverrides
  <2>6. CASE Surroundings
    BY <2>6, Zenon DEF Surroundings, StopProbing, PauseManagerPauses, PauseManagerWakes, OnPause, OnWake,
                InterfaceUpdated, OutcomeAges, schedulerVars
  <2> QED
    BY <1>5, <2>1, <2>2, <2>3, <2>4, <2>5, <2>6, Zenon DEF Unselective
<1> QED
  BY <1>1, <1>2, <1>3, <1>4, <1>5, Zenon DEF SwitchNext, SwitchTimeout, SwitchComplete

\* A removal drops the selection it concerns (clearStickyTagLocked).
LEMMA RemoveClearsSticky ==
    ASSUME StickyIsMember, NEW t \in Tags, SwitchRemove(t)
    PROVE StickyIsMember'
BY Zenon DEF SwitchRemove, Remove, ClearedSticky, Without, StickyIsMember

\* TCP selection names a member or nothing, for any number of members and any order of dials,
\* removals, re-additions and confirmed-failure switches.
THEOREM SelectionNamesMembers == SwitchSpec => []StickyIsMember
<1>1. SwitchInit => StickyIsMember
  BY Zenon DEF SwitchInit, StickyIsMember
<1>2. StickyIsMember /\ [SwitchNext]_switchVars => StickyIsMember'
  <2> SUFFICES ASSUME StickyIsMember, SwitchNext \/ UNCHANGED switchVars
               PROVE StickyIsMember'
    BY Zenon
  <2>1. CASE \E t \in Tags : SwitchRemove(t)
    BY <2>1, RemoveClearsSticky, Zenon
  <2>2. CASE ~\E t \in Tags : SwitchRemove(t)
    BY <2>2, StickyMoves, OnlySwitchRemoveRemoves, Zenon DEF StickyIsMember
  <2> QED
    BY <2>1, <2>2, Zenon
<1> QED
  BY <1>1, <1>2, PTL DEF SwitchSpec

(***************************************************************************)
(* What a dispatch leaves alone.                                           *)
(***************************************************************************)
\* A dispatch records nothing, and an operation it starts is not stuck.
LEMMA DispatchRecordsNothing ==
    ASSUME NEW states, NEW inFlight, NEW used, NEW sequence,
           DispatchProbes(states, inFlight, used, sequence),
           \A t \in DOMAIN states : states[t] \in MemberProbeState
    PROVE /\ DOMAIN probeMembers' = DOMAIN states
          /\ \A t \in DOMAIN states :
                /\ probeMembers'[t].membershipID = states[t].membershipID
                /\ probeMembers'[t].outcome = states[t].outcome
          /\ \A o \in DOMAIN inFlightProbes' :
                inFlightProbes'[o].stuck => o \in DOMAIN inFlight /\ inFlight[o].stuck
<1>1. CASE closed' \/ pausedBy' # {}
  BY <1>1, Zenon DEF DispatchProbes
<1>2. CASE ~(closed' \/ pausedBy' # {})
  <2>1. PICK settled :
            probeMembers' = [t \in DOMAIN states |->
                                IF t \in settled THEN [states[t] EXCEPT !.need = NotNeeded]
                                                 ELSE states[t]]
    BY <1>2, Zenon DEF DispatchProbes
  <2>2. PICK started0, slotted :
            StartProbes(states, inFlight, used, sequence, started0, slotted)
    BY <1>2, Zenon DEF DispatchProbes
  <2>3. \A t \in DOMAIN states :
            /\ probeMembers'[t].membershipID = states[t].membershipID
            /\ probeMembers'[t].outcome = states[t].outcome
    BY <2>1, Zenon DEF MemberProbeState
  <2>4. \A o \in DOMAIN inFlightProbes' :
            inFlightProbes'[o].stuck => o \in DOMAIN inFlight /\ inFlight[o].stuck
    <3> DEFINE order(t) == Cardinality({u \in started0 : Position(u) <= Position(t)})
               attempts == [o \in {members'[t] : t \in started0} |->
                               NewAttempt(TagOf[o], states[TagOf[o]], sequence + order(TagOf[o]),
                                          TagOf[o] \in slotted)]
    <3>1. inFlightProbes' = Merged(inFlight, attempts)
      BY <2>2, Zenon DEF StartProbes
    <3>2. \A o \in DOMAIN attempts : attempts[o].stuck = FALSE
      BY Zenon DEF NewAttempt
    <3> HIDE DEF attempts
    <3> QED
      BY <3>1, <3>2, Zenon DEF Merged
  <2> QED
    BY <2>1, <2>3, <2>4, Zenon
<1> QED
  BY <1>1, <1>2, Zenon

\* The outcome an attempt records is what its member's state shows when the step is over.
LEMMA FinishRecords ==
    ASSUME Inv, NEW o \in DOMAIN inFlightProbes, NEW success \in BOOLEAN, NEW inFlight,
           FinishProbe(o, success, inFlight), Records(o)
    PROVE probeMembers'[inFlightProbes[o].tag].outcome.success = success
<1> DEFINE a == inFlightProbes[o]
           states == Accepted(a, success)
<1>1. PICK used, sequence : DispatchProbes(states, inFlight, used, sequence)
  BY Zenon DEF FinishProbe
<1>2. TypedMembers(members, states) /\ a.tag \in DOMAIN members
  BY AcceptedTyped, Zenon DEF Records, ValidProbe
<1>3. a.tag \in DOMAIN probeMembers /\ states[a.tag].outcome.success = success
  BY <1>2, InvParts, Zenon DEF Accepted, TypedMembers
<1> HIDE DEF states
<1>4. \A t \in DOMAIN states : states[t] \in MemberProbeState
  BY <1>2, Zenon DEF TypedMembers
<1>5. \A t \in DOMAIN states : probeMembers'[t].outcome = states[t].outcome
  BY <1>1, <1>4, DispatchRecordsNothing, Zenon
<1>6. a.tag \in DOMAIN states
  BY <1>2, Zenon DEF TypedMembers
<1> QED
  BY <1>3, <1>5, <1>6, Zenon

(***************************************************************************)
(* Confirmed failures.                                                     *)
(***************************************************************************)
\* What SwitchIsJustified says of a step.
Justified ==
    \A failed \in gated' \ gated :
        /\ stickyTCP = failed
        /\ \E o \in DOMAIN inFlightProbes :
              /\ inFlightProbes[o].tag = failed
              /\ inFlightProbes[o].sequence > probeMembers[failed].confirmSequence
        /\ ~probeMembers'[failed].outcome.success
        /\ stickyTCP' \in DOMAIN members \ gated'
        /\ ~Stuck(members[stickyTCP'])
        /\ LatestProbePassed(stickyTCP')

\* An attempt that ends gates its member only as a confirmed failure.
LEMMA ConsequencesJustified ==
    ASSUME Inv, NEW o \in DOMAIN inFlightProbes, NEW success \in BOOLEAN, NEW inFlight,
           FinishProbe(o, success, inFlight), Consequences(o, success)
    PROVE Justified
<1> DEFINE a == inFlightProbes[o]
<1>1. CASE gated' \subseteq gated
  BY <1>1, Zenon DEF Justified
<1>2. CASE ~(gated' \subseteq gated)
  <2>1. /\ Records(o) /\ Confirms(a, probeMembers[a.tag]) /\ ~success
        /\ SwitchAfterConfirmedFailure(a.tag)
    BY <1>2, Zenon DEF Consequences, selectVars
  <2>2. PICK chosen \in Tags \ {a.tag} :
            /\ stickyTCP = a.tag
            /\ EligibleReplacement(chosen)
            /\ stickyTCP' = chosen
            /\ gated' = gated \cup {a.tag}
    BY <1>2, <2>1, Zenon DEF SwitchAfterConfirmedFailure
  <2>3. ~probeMembers'[a.tag].outcome.success
    BY <2>1, FinishRecords, Zenon
  <2>4. a.sequence > probeMembers[a.tag].confirmSequence
    BY <2>1, Zenon DEF Confirms
  <2>5. /\ stickyTCP' \in DOMAIN members \ gated'
        /\ ~Stuck(members[stickyTCP'])
        /\ LatestProbePassed(stickyTCP')
    <3>1. chosen \in DOMAIN members \ gated' /\ ~Stuck(members[chosen]) /\ LatestProbePassed(chosen)
      BY <2>2, Zenon DEF EligibleReplacement
    <3> QED
      BY <2>2, <3>1, Zenon DEF LatestProbePassed
  <2> QED
    BY <2>2, <2>3, <2>4, <2>5, Zenon DEF Justified
<1> QED
  BY <1>1, <1>2, Zenon

\* Every step of selection justifies the gates it sets.
LEMMA SwitchStepJustified == Inv /\ [SwitchNext]_switchVars => Justified
<1> SUFFICES ASSUME Inv, SwitchNext \/ UNCHANGED switchVars PROVE Justified
  BY Zenon
<1>1. ASSUME NEW o \in Objects, SwitchTimeout(o) PROVE Justified
  BY <1>1, ConsequencesJustified, Zenon DEF SwitchTimeout, TimeoutProbe
<1>2. ASSUME NEW o \in Objects, NEW success \in BOOLEAN, SwitchComplete(o, success)
      PROVE Justified
  BY <1>2, ConsequencesJustified, Zenon DEF SwitchComplete, CompleteProbe
<1>3. CASE gated' \subseteq gated
  BY <1>3, Zenon DEF Justified
<1>4. (\E o \in Objects : SwitchTimeout(o))
        \/ (\E o \in Objects, success \in BOOLEAN : SwitchComplete(o, success))
        \/ gated' \subseteq gated
  BY Zenon DEF SwitchNext, SelectTCP, ReportFailure, SwitchRemove, SwitchCooldownEnds, selectVars,
         switchVars
<1> QED
  BY <1>1, <1>2, <1>3, <1>4, Zenon

\* TCP traffic leaves a member after a confirmed failure only if it was selected and a probe
\* dispatched after the report failed, and it goes to a member that is not stuck or gated and
\* whose latest probe passed: for any members, attempts and order of reports and probes.
THEOREM SwitchesAlwaysJustified == SwitchSpec => SwitchIsJustified
<1>1. SwitchInit => Init
  BY DEF SwitchInit
<1>2. Inv /\ [SwitchNext]_switchVars => Inv'
  BY SwitchStepIsCoreStep, StepKeepsInv, Zenon
<1>3. Inv /\ [SwitchNext]_switchVars => [Justified]_switchVars
  BY SwitchStepJustified, Zenon
<1>4. [][Justified]_switchVars => SwitchIsJustified
  BY PTL DEF Justified, SwitchIsJustified
<1> QED
  BY <1>1, <1>2, <1>3, <1>4, InitInv, PTL DEF SwitchSpec

(***************************************************************************)
(* The waiting callers.                                                    *)
(***************************************************************************)
Snapshots == UNION {[who -> [membershipID : Nat, fresh : Nat]] : who \in SUBSET Tags}

WaiterRecord ==
    [phase : {"none", "test", "parked", "over"}, sequence : Nat, generation : Nat,
     pauseEpoch : Nat, members : Snapshots, evaluated : BOOLEAN, counted : BOOLEAN,
     budget : {"unset", "running", "past"}]

WaitersTyped ==
    /\ waiters \in [Callers -> WaiterRecord]
    /\ coolingDown \in BOOLEAN
    /\ emittedBy \in {"none", "ladder", "cycle"}

\* A step of the callers is a step of the scheduler, or leaves it alone.
LEMMA WaitersStepIsCoreStep == Inv /\ [WaitersNext]_allVars => [Next]_vars
<1> SUFFICES ASSUME Inv, WaitersNext \/ UNCHANGED allVars PROVE Next \/ UNCHANGED vars
  BY Zenon
<1> USE DEF Next, ProbeStep, Operation
<1>1. ASSUME NEW o \in Objects, WaitersTimeout(o) PROVE Next
  BY <1>1, Zenon DEF WaitersTimeout
<1>2. ASSUME NEW o \in Objects, NEW success \in BOOLEAN, WaitersComplete(o, success) PROVE Next
  BY <1>2, Zenon DEF WaitersComplete
<1>3. CASE BeginLadder \/ BeginCycle \/ BeginURLTest
  BY <1>3, Zenon DEF BeginLadder, BeginCycle, BeginURLTest
<1>4. CASE CallerStep \/ (\E w \in Callers : ContextDone(w)) \/ CooldownEnds \/ UNCHANGED allVars
  BY <1>4, Zenon DEF CallerStep, TestDone, EndLadder, EndCycle, EndURLTest, BudgetPasses, LadderTimer,
              ContextDone, CooldownEnds, allVars
<1>5. CASE WaitersInterfaceUpdated
  <2>1. PICK awaited : awaited \subseteq DOMAIN members /\ InterfaceUpdated(awaited)
    BY <1>5, Zenon DEF WaitersInterfaceUpdated, StillMember
  <2>2. awaited \in SUBSET Tags
    BY <2>1, InvParts, Zenon DEF TypedMembers
  <2> QED
    BY <2>1, <2>2, Zenon DEF Surroundings
<1>6. CASE WaitersOnPause
  BY <1>6, Zenon DEF WaitersOnPause, Surroundings
<1>7. ASSUME NEW t \in Tags, WaitersRemove(t) PROVE Next
  BY <1>7, Zenon DEF WaitersRemove
<1>8. CASE LoudOperation
  BY <1>8, Zenon DEF LoudOperation
<1>9. CASE QuietOperation
  BY <1>9, Zenon DEF QuietOperation, Surroundings
<1>10. CASE Unseen
  BY <1>10, Zenon DEF Unseen, Surroundings
<1> QED
  BY <1>1, <1>2, <1>3, <1>4, <1>5, <1>6, <1>7, <1>8, <1>9, <1>10, ZenonT(60) DEF WaitersNext

\* The scheduler under its callers keeps its invariants.
LEMMA WaitersKeepScheduler == WaitersSpec => [](Inv /\ Kept)
<1>1. WaitersInit => Init
  BY Zenon DEF WaitersInit
<1>2. Inv /\ Kept /\ [WaitersNext]_allVars => Inv' /\ Kept'
  BY WaitersStepIsCoreStep, EveryStepKeeps, Zenon DEF Keeps
<1> QED
  BY <1>1, <1>2, InitInv, PTL DEF WaitersSpec

\* Callers run on the unchanged scheduler: ladders, cycles and URLTests make no step that the
\* scheduler could not make by itself.
THEOREM WaitersImplementScheduler == WaitersSpec => Spec
<1>1. WaitersInit => Init
  BY DEF WaitersInit
<1> QED
  BY <1>1, WaitersKeepScheduler, WaitersStepIsCoreStep, PTL DEF WaitersSpec, Spec

\* Nobody is asleep.
Awake(ws) == \A w \in Callers : ws[w].phase # "parked"

\* notifyProbesLocked and the ladder's budget keep the waiters well formed; the first leaves nobody
\* asleep and the second wakes or parks nobody.
LEMMA NotifiedTyped ==
    ASSUME NEW ws \in [Callers -> WaiterRecord]
    PROVE Notified(ws) \in [Callers -> WaiterRecord] /\ Awake(Notified(ws))
BY DEF Notified, WaiterRecord, Awake

\* Starting the budget changes nothing but the ladder's budget, which is not past.
LEMMA BudgetedTyped ==
    ASSUME NEW ws \in [Callers -> WaiterRecord], NEW used
    PROVE /\ Budgeted(ws, used) \in [Callers -> WaiterRecord]
          /\ \A w \in Callers :
                /\ Budgeted(ws, used)[w].phase = ws[w].phase
                /\ Budgeted(ws, used)[w].members = ws[w].members
                /\ Budgeted(ws, used)[w].sequence = ws[w].sequence
                /\ Budgeted(ws, used)[w].generation = ws[w].generation
                /\ Budgeted(ws, used)[w].pauseEpoch = ws[w].pauseEpoch
                /\ Budgeted(ws, used)[w].budget = "past" <=> ws[w].budget = "past"
<1>1. "ladder" \in Callers
  BY Zenon DEF Callers
<1>2. ws["ladder"] \in WaiterRecord
  BY <1>1, Zenon
<1>3. CASE Budgeted(ws, used) = ws
  BY <1>3, Zenon
<1>4. CASE /\ Budgeted(ws, used) = [ws EXCEPT !["ladder"].budget = "running"]
           /\ ws["ladder"].budget = "unset"
  <2> DEFINE r == [ws["ladder"] EXCEPT !.budget = "running"]
  <2>1. r \in WaiterRecord
    BY <1>2, Zenon DEF WaiterRecord
  <2>2. /\ r.phase = ws["ladder"].phase /\ r.members = ws["ladder"].members
        /\ r.sequence = ws["ladder"].sequence /\ r.generation = ws["ladder"].generation
        /\ r.pauseEpoch = ws["ladder"].pauseEpoch /\ r.budget = "running"
    BY <1>2, Zenon DEF WaiterRecord
  <2>3. Budgeted(ws, used) = [ws EXCEPT !["ladder"] = r]
    BY <1>4, Zenon
  <2> HIDE DEF r
  <2> QED
    BY <1>1, <1>4, <2>1, <2>2, <2>3, Zenon
<1> QED
  BY <1>3, <1>4, Zenon DEF Budgeted

\* So does what a dispatch does to the waiters.
LEMMA DispatchedTyped ==
    ASSUME NEW ws \in [Callers -> WaiterRecord]
    PROVE /\ Dispatched(ws) \in [Callers -> WaiterRecord]
          /\ \A w \in Callers :
                /\ Dispatched(ws)[w].phase = ws[w].phase
                /\ Dispatched(ws)[w].members = ws[w].members
                /\ Dispatched(ws)[w].sequence = ws[w].sequence
                /\ Dispatched(ws)[w].generation = ws[w].generation
                /\ Dispatched(ws)[w].pauseEpoch = ws[w].pauseEpoch
                /\ Dispatched(ws)[w].budget = "past" <=> ws[w].budget = "past"
BY BudgetedTyped DEF Dispatched

\* The step leaves alone everything a waiter's condition looks at.
Undisturbed ==
    /\ closed' = closed /\ networkGeneration' = networkGeneration /\ urls' = urls
    /\ pauseEpoch' = pauseEpoch
    /\ \A t \in DOMAIN members :
          /\ t \in DOMAIN members' /\ members'[t] = members[t]
          /\ probeMembers'[t].membershipID = probeMembers[t].membershipID
          /\ probeMembers'[t].outcome.sequence = probeMembers[t].outcome.sequence
          /\ probeMembers'[t].outcome.url = probeMembers[t].outcome.url
          /\ probeMembers'[t].outcome.generation = probeMembers[t].outcome.generation
    /\ \A o \in DOMAIN inFlightProbes' :
          inFlightProbes'[o].stuck => o \in DOMAIN inFlightProbes /\ inFlightProbes[o].stuck

\* Whoever sleeps after the step slept before it, waiting for the same.
SleepersStay ==
    \A w \in Callers :
        waiters'[w].phase = "parked" =>
            /\ waiters[w].phase = "parked"
            /\ waiters'[w].members = waiters[w].members
            /\ waiters'[w].sequence = waiters[w].sequence
            /\ waiters'[w].generation = waiters[w].generation
            /\ waiters'[w].pauseEpoch = waiters[w].pauseEpoch
            /\ waiters[w].budget = "past" => waiters'[w].budget = "past"

\* Nobody misses a wake-up in a step that disturbs nothing.
LEMMA UndisturbedSleep ==
    ASSUME NoMissedWakeup, Undisturbed, SleepersStay
    PROVE NoMissedWakeup'
<1> SUFFICES ASSUME NEW w \in Callers, waiters'[w].phase = "parked", WaiterDone(w)',
                    waiters'[w].budget # "past", ~closed'
             PROVE FALSE
  BY Zenon DEF NoMissedWakeup
<1>1. /\ waiters[w].phase = "parked" /\ waiters'[w].members = waiters[w].members
      /\ waiters'[w].sequence = waiters[w].sequence
      /\ waiters'[w].generation = waiters[w].generation
      /\ waiters'[w].pauseEpoch = waiters[w].pauseEpoch
      /\ waiters[w].budget # "past" /\ ~closed
  BY Zenon DEF SleepersStay, Undisturbed
<1>2. ~WaiterDone(w)
  BY <1>1, Zenon DEF NoMissedWakeup
<1>3. ~(w # "urltest" /\ ScopeChanged(w)')
  BY <1>1, <1>2, Zenon DEF WaiterDone, ScopeChanged, Undisturbed
<1>4. PICK t \in DOMAIN waiters[w].members :
          /\ StillMember(t, waiters[w].members[t].membershipID) /\ ~Stuck(members[t])
          /\ ~Satisfied(w, t)
  BY <1>2, Zenon DEF WaiterDone, WaiterFinished
<1>5. t \in DOMAIN members
  BY <1>4, Zenon DEF StillMember
<1>6. StillMember(t, waiters[w].members[t].membershipID)'
  BY <1>1, <1>4, <1>5, Zenon DEF StillMember, Undisturbed
<1>7. ~Stuck(members[t])'
  BY <1>4, <1>5, Zenon DEF Stuck, Undisturbed
<1>8. ~Satisfied(w, t)'
  BY <1>1, <1>4, <1>5, Zenon DEF Satisfied, Current, Undisturbed
<1>9. ~WaiterFinished(w)'
  BY <1>1, <1>4, <1>6, <1>7, <1>8, Zenon DEF WaiterFinished
<1> QED
  BY <1>3, <1>9, Zenon DEF WaiterDone

\* Nor in a step that leaves nobody asleep.
LEMMA AwakeSleep == ASSUME Awake(waiters') PROVE NoMissedWakeup'
BY Zenon DEF Awake, NoMissedWakeup

\* An operation that changes at most needs, confirmations and memberships, and dispatches.
LEMMA NeedsUndisturbed ==
    ASSUME Inv, NEW states, NEW used, NEW sequence,
           closed' = closed, networkGeneration' = networkGeneration, urls' = urls,
           pauseEpoch' = pauseEpoch,
           TypedMembers(members', states),
           \A t \in DOMAIN members :
              /\ t \in DOMAIN members' /\ members'[t] = members[t]
              /\ states[t].membershipID = probeMembers[t].membershipID
              /\ states[t].outcome = probeMembers[t].outcome,
           DispatchProbes(states, inFlightProbes, used, sequence)
    PROVE Undisturbed
<1>1. DOMAIN states = DOMAIN members' /\ \A t \in DOMAIN states : states[t] \in MemberProbeState
  BY Zenon DEF TypedMembers
<1>2. /\ \A t \in DOMAIN states :
            /\ probeMembers'[t].membershipID = states[t].membershipID
            /\ probeMembers'[t].outcome = states[t].outcome
      /\ \A o \in DOMAIN inFlightProbes' :
            inFlightProbes'[o].stuck => o \in DOMAIN inFlightProbes /\ inFlightProbes[o].stuck
  BY <1>1, DispatchRecordsNothing, ZenonT(60)
<1> QED
  BY <1>1, <1>2, Zenon DEF Undisturbed

\* Raising needs of present members.
LEMMA RequestUndisturbed ==
    ASSUME Inv, NEW who, NEW need \in {NotNeeded, IfStale, Forced},
           closed' = closed, networkGeneration' = networkGeneration, urls' = urls,
           pauseEpoch' = pauseEpoch, members' = members,
           DispatchNeeds(Requested(probeMembers, who, need))
    PROVE Undisturbed
<1> DEFINE r == Requested(probeMembers, who, need)
<1>1. TypedMembers(members, probeMembers)
  BY InvParts, Zenon
<1>2. TypedMembers(members', r)
  BY <1>1, RequestedTyped, Zenon
<1>3. \A t \in DOMAIN members : /\ r[t].membershipID = probeMembers[t].membershipID
                                /\ r[t].outcome = probeMembers[t].outcome
  BY <1>1 DEF Requested, TypedMembers, MemberProbeState
<1> HIDE DEF r
<1> QED
  BY <1>2, <1>3, NeedsUndisturbed, Zenon DEF DispatchNeeds, r

\* The operations that wake nobody disturb nobody.
LEMMA QuietUndisturbed ==
    ASSUME Inv, QuietOperation \/ Unseen \/ ForceProbes \/ UNCHANGED vars
    PROVE Undisturbed
<1>1. CASE Start
  BY <1>1, Zenon DEF Start, Undisturbed, networkVars, pauseVars, lifeVars
<1>2. CASE PostStart \/ CheckOutbounds \/ ForceProbes \/ KeepAlive
  <2>1. /\ closed' = closed /\ networkGeneration' = networkGeneration /\ urls' = urls
        /\ pauseEpoch' = pauseEpoch /\ members' = members
    BY <1>2, Zenon DEF PostStart, CheckOutbounds, ForceProbes, KeepAlive, networkVars, pauseVars, lifeVars
  <2>2. PICK need \in {NotNeeded, IfStale, Forced} :
            DispatchNeeds(Requested(probeMembers, Tags, need))
    BY <1>2, Zenon DEF PostStart, CheckOutbounds, ForceProbes, KeepAlive
  <2> QED
    BY <2>1, <2>2, RequestUndisturbed, Zenon
<1>3. ASSUME NEW t \in Tags, RequestFailureConfirmation(t) PROVE Undisturbed
  <2>1. /\ closed' = closed /\ networkGeneration' = networkGeneration /\ urls' = urls
        /\ pauseEpoch' = pauseEpoch /\ members' = members
    BY <1>3, Zenon DEF RequestFailureConfirmation, networkVars, pauseVars, lifeVars
  <2> DEFINE repeated == probeMembers[t].confirmationPending
             sequence == IF repeated THEN probeSequence ELSE probeSequence + 1
             asked == [probeMembers[t] EXCEPT
                          !.need = Forced, !.confirmationPending = TRUE,
                          !.confirmSequence = IF repeated THEN @ ELSE sequence]
             states == [probeMembers EXCEPT ![t] = asked]
  <2>2. DispatchProbes(states, inFlightProbes, probeSlotsUsed, sequence) /\ sequence \in Nat
    BY <1>3, InvParts DEF RequestFailureConfirmation
  <2>3. TypedMembers(members, probeMembers) /\ t \in DOMAIN members
    BY <1>3, InvParts, Zenon DEF RequestFailureConfirmation
  <2>4. /\ asked \in MemberProbeState
        /\ asked.membershipID = probeMembers[t].membershipID
        /\ asked.outcome = probeMembers[t].outcome
    <3> HIDE DEF sequence, repeated
    <3> QED
      BY <2>2, <2>3, Zenon DEF TypedMembers, MemberProbeState
  <2> HIDE DEF asked
  <2>5. /\ TypedMembers(members', states)
        /\ \A u \in DOMAIN members : /\ states[u].membershipID = probeMembers[u].membershipID
                                     /\ states[u].outcome = probeMembers[u].outcome
    BY <2>1, <2>3, <2>4, Zenon DEF TypedMembers
  <2> HIDE DEF states, sequence
  <2> QED
    BY <2>1, <2>2, <2>5, NeedsUndisturbed, Zenon
<1>4. CASE OnWake
  <2>1. /\ closed' = closed /\ networkGeneration' = networkGeneration /\ urls' = urls
        /\ pauseEpoch' = pauseEpoch /\ members' = members
        /\ DispatchNeeds(probeMembers)
    BY <1>4, Zenon DEF OnWake, networkVars, lifeVars
  <2>2. TypedMembers(members', probeMembers)
    BY <2>1, InvParts, Zenon
  <2> QED
    BY <2>1, <2>2, NeedsUndisturbed, Zenon DEF DispatchNeeds
<1>5. CASE StopProbing \/ UNCHANGED vars
  BY <1>5, Zenon DEF StopProbing, Undisturbed, vars, schedulerVars, networkVars, pauseVars, lifeVars
<1>6. ASSUME NEW source \in PauseSources,
             PauseManagerPauses(source) \/ PauseManagerWakes(source)
      PROVE Undisturbed
  BY <1>6, Zenon DEF PauseManagerPauses, PauseManagerWakes, Undisturbed, schedulerVars, networkVars,
              lifeVars
<1>7. ASSUME NEW t \in Tags, OutcomeAges(t) PROVE Undisturbed
  <2>1. TypedMembers(members, probeMembers)
    BY InvParts, Zenon
  <2>2. \A u \in DOMAIN members :
            /\ probeMembers'[u].membershipID = probeMembers[u].membershipID
            /\ probeMembers'[u].outcome.sequence = probeMembers[u].outcome.sequence
            /\ probeMembers'[u].outcome.url = probeMembers[u].outcome.url
            /\ probeMembers'[u].outcome.generation = probeMembers[u].outcome.generation
    BY <1>7, <2>1, SMTT(30) DEF OutcomeAges, TypedMembers, MemberProbeState, Outcome
  <2> QED
    BY <1>7, <2>2, Zenon DEF OutcomeAges, Undisturbed, networkVars, pauseVars, lifeVars
<1> QED
  BY <1>1, <1>2, <1>3, <1>4, <1>5, <1>6, <1>7, Zenon DEF QuietOperation, Unseen

\* URLTest adopts members beside the present ones.
LEMMA URLTestUndisturbed == ASSUME Inv, URLTest PROVE Undisturbed
<1>0. PICK who \in SUBSET (Listed \ DOMAIN members) :
           \E object \in ObjectsFor(who) :
              /\ members' = Merged(object, members)
              /\ UNCHANGED <<tags, networkVars, pauseVars, lifeVars>>
              /\ DispatchNeeds(Requested(Joining(who), Tags, Forced))
  BY Zenon DEF URLTest
<1>1. PICK object \in ObjectsFor(who) :
           /\ members' = Merged(object, members)
           /\ UNCHANGED <<tags, networkVars, pauseVars, lifeVars>>
           /\ DispatchNeeds(Requested(Joining(who), Tags, Forced))
  BY <1>0, Zenon
<1>2. who \subseteq Tags
  BY InvParts DEF Listed, RestTyped
<1>3. object \in [who -> Objects] /\ \A t \in who : TagOf[object[t]] = t
  BY <1>1, Zenon DEF ObjectsFor
<1>4. TypedMembers(members', Joining(who))
  BY <1>1, <1>2, <1>3, InvParts, JoiningTyped, Zenon DEF RestTyped
<1>5. TypedMembers(members', Requested(Joining(who), Tags, Forced))
  BY <1>4, RequestedTyped, Zenon
<1>6. \A t \in DOMAIN members : /\ t \in DOMAIN members' /\ members'[t] = members[t]
                                /\ Joining(who)[t] = probeMembers[t]
  BY <1>1, <1>3, InvParts, Zenon DEF Merged, Joining, TypedMembers
<1>7. \A t \in DOMAIN members' :
          /\ Requested(Joining(who), Tags, Forced)[t].membershipID = Joining(who)[t].membershipID
          /\ Requested(Joining(who), Tags, Forced)[t].outcome = Joining(who)[t].outcome
  BY <1>4, SMTT(30) DEF Requested, TypedMembers, MemberProbeState
<1>8. /\ closed' = closed /\ networkGeneration' = networkGeneration /\ urls' = urls
      /\ pauseEpoch' = pauseEpoch
  BY <1>1, ZenonT(60) DEF networkVars, pauseVars, lifeVars
<1>9. \A t \in DOMAIN members :
          /\ t \in DOMAIN members' /\ members'[t] = members[t]
          /\ Requested(Joining(who), Tags, Forced)[t].membershipID = probeMembers[t].membershipID
          /\ Requested(Joining(who), Tags, Forced)[t].outcome = probeMembers[t].outcome
  BY <1>6, <1>7, Zenon
<1>10. PICK states : states = Requested(Joining(who), Tags, Forced)
  BY Zenon
<1>11. TypedMembers(members', states) /\ DispatchNeeds(states)
  BY <1>1, <1>5, <1>10, ZenonT(60)
<1>12. \A t \in DOMAIN members :
          /\ t \in DOMAIN members' /\ members'[t] = members[t]
          /\ states[t].membershipID = probeMembers[t].membershipID
          /\ states[t].outcome = probeMembers[t].outcome
  BY <1>9, <1>10, Zenon
<1> QED
  BY <1>8, <1>11, <1>12, NeedsUndisturbed, ZenonT(60) DEF DispatchNeeds

\* A caller asleep is not done unless its deadline passed or the group closed, together with the
\* types of the waiters.
WaitersInv == WaitersTyped /\ NoMissedWakeup

\* A step in which the waiters are only told that a dispatch ran.
LEMMA QuietlyKeeps ==
    ASSUME Inv, WaitersInv, Undisturbed, Quietly
    PROVE WaitersInv'
<1>1. /\ waiters' = Dispatched(waiters) /\ emittedBy' = "none" /\ coolingDown' = coolingDown
      /\ waiters \in [Callers -> WaiterRecord] /\ coolingDown \in BOOLEAN /\ NoMissedWakeup
  BY Zenon DEF Quietly, WaitersInv, WaitersTyped
<1>2. waiters' \in [Callers -> WaiterRecord] /\ SleepersStay
  BY <1>1, DispatchedTyped DEF SleepersStay
<1>3. NoMissedWakeup'
  BY <1>1, <1>2, UndisturbedSleep, Zenon
<1> QED
  BY <1>1, <1>2, <1>3, Zenon DEF WaitersInv, WaitersTyped

\* A step that notifies before its dispatch, whatever else it did.
LEMMA LoudlyKeeps ==
    ASSUME WaitersInv, waiters' = Dispatched(Notified(waiters)), emittedBy' = "none",
           coolingDown' \in {coolingDown, FALSE}
    PROVE WaitersInv'
<1>1. waiters \in [Callers -> WaiterRecord] /\ coolingDown' \in BOOLEAN
  BY Zenon DEF WaitersInv, WaitersTyped
<1>2. Notified(waiters) \in [Callers -> WaiterRecord] /\ Awake(Notified(waiters))
  BY <1>1, NotifiedTyped, Zenon
<1>3. waiters' \in [Callers -> WaiterRecord] /\ Awake(waiters')
  BY <1>2, DispatchedTyped DEF Awake
<1> QED
  BY <1>1, <1>3, AwakeSleep, Zenon DEF WaitersInv, WaitersTyped

\* An evaluation emits for the caller it is about, if at all.
LEMMA EvaluateEmits ==
    ASSUME NEW w \in {"ladder", "cycle"}, Evaluate(w)
    PROVE emittedBy' \in {"none", "ladder", "cycle"}
BY Zenon DEF Evaluate

\* An evaluated waiter is well formed.
LEMMA EvaluatedTyped ==
    ASSUME WaitersTyped, NEW w \in Callers
    PROVE Evaluated(w) \in WaiterRecord /\ Evaluated(w).phase = waiters[w].phase
<1>1. waiters[w] \in WaiterRecord
  BY Zenon DEF WaitersTyped
<1>2. (IF waiters[w].evaluated THEN waiters[w].counted ELSE Counts(w)) \in BOOLEAN
  BY <1>1, ZenonT(60) DEF WaiterRecord, Counts
<1>3. Evaluated(w) = [waiters[w] EXCEPT !.evaluated = TRUE,
                         !.counted = IF waiters[w].evaluated THEN waiters[w].counted ELSE Counts(w)]
  BY <1>1, Zenon DEF Evaluated, WaiterRecord
<1> QED
  BY <1>1, <1>2, <1>3, Zenon DEF WaiterRecord

\* The end of a probe notifies everybody.
LEMMA ProbeEndsKeeps ==
    ASSUME WaitersInv, NEW o, NEW expire \in BOOLEAN, ProbeEnds(o, expire)
    PROVE WaitersInv'
<1>1. waiters \in [Callers -> WaiterRecord] /\ coolingDown' \in BOOLEAN /\ "ladder" \in Callers
  BY Zenon DEF WaitersInv, WaitersTyped, ProbeEnds, Callers
<1> DEFINE evaluated == IF expire THEN [waiters EXCEPT !["ladder"] = Evaluated("ladder")]
                                  ELSE waiters
<1>2. evaluated \in [Callers -> WaiterRecord]
  BY <1>1, EvaluatedTyped, Zenon DEF WaitersInv
<1> HIDE DEF evaluated
<1>3. Notified(evaluated) \in [Callers -> WaiterRecord] /\ Awake(Notified(evaluated))
  BY <1>2, NotifiedTyped, Zenon
<1>4. PICK used : waiters' = Budgeted(Notified(evaluated), used)
  BY Zenon DEF ProbeEnds, evaluated
<1>5. waiters' \in [Callers -> WaiterRecord] /\ Awake(waiters')
  BY <1>3, <1>4, BudgetedTyped DEF Awake
<1>6. emittedBy' \in {"none", "ladder", "cycle"}
  BY EvaluateEmits, Zenon DEF ProbeEnds
<1> QED
  BY <1>1, <1>5, <1>6, AwakeSleep, Zenon DEF WaitersInv, WaitersTyped

\* A new waiter is well formed and about to test.
LEMMA NewWaiterTyped ==
    ASSUME Inv, Inv', NEW filtered \in BOOLEAN, filtered => members' = members
    PROVE NewWaiter(filtered) \in WaiterRecord /\ NewWaiter(filtered).phase = "test"
<1> DEFINE who == DOMAIN members' \cap Ordinary
           fresh(t) == IF filtered /\ HasFreshOutcome(t, probeMembers[t])
                       THEN probeMembers[t].outcome.sequence ELSE 0
           snapshot == [t \in who |->
                           [membershipID |-> probeMembers'[t].membershipID, fresh |-> fresh(t)]]
<1>1. who \in SUBSET Tags
  BY Zenon DEF Ordinary
<1>2. \A t \in who : probeMembers'[t].membershipID \in Nat
  <2>1. TypedMembers(members', probeMembers')
    BY Zenon DEF Inv, TypeOK, TypedMembers
  <2> QED
    BY <2>1, Zenon DEF TypedMembers, MemberProbeState
<1>3. probeSequence \in Nat /\ networkGeneration \in Nat /\ pauseEpoch \in Nat
  BY InvParts, Zenon DEF RestTyped
<1>4. \A t \in who : fresh(t) \in Nat
  BY InvParts, Zenon DEF TypedMembers, MemberProbeState, Outcome
<1> HIDE DEF who, fresh
<1>5. snapshot \in [who -> [membershipID : Nat, fresh : Nat]]
  BY <1>2, <1>4, Zenon
<1>6. snapshot \in Snapshots
  BY <1>1, <1>5, Zenon DEF Snapshots
<1>7. NewWaiter(filtered) =
         [phase |-> "test", sequence |-> probeSequence, generation |-> networkGeneration,
          pauseEpoch |-> pauseEpoch, members |-> snapshot,
          evaluated |-> FALSE, counted |-> FALSE, budget |-> "unset"]
  BY Zenon DEF NewWaiter, who, fresh
<1> HIDE DEF snapshot
<1> QED
  BY <1>3, <1>6, <1>7 DEF WaiterRecord

\* A caller that begins to wait disturbs no other.
LEMMA BeginKeeps ==
    ASSUME Inv, Inv', WaitersInv, NEW w \in Callers, NEW filtered \in BOOLEAN,
           filtered => members' = members, Undisturbed, Begin(w, filtered)
    PROVE WaitersInv'
<1> DEFINE new == NewWaiter(filtered)
           ws == [waiters EXCEPT ![w] = new]
<1>1. new \in WaiterRecord /\ new.phase = "test"
  BY NewWaiterTyped, Zenon
<1>2. /\ waiters' = Dispatched(ws) /\ emittedBy' = "none" /\ coolingDown' \in BOOLEAN
      /\ waiters \in [Callers -> WaiterRecord]
  BY Zenon DEF Begin, WaitersInv, WaitersTyped
<1> HIDE DEF new
<1>3. /\ ws \in [Callers -> WaiterRecord] /\ ws[w].phase = "test"
      /\ \A v \in Callers \ {w} : ws[v] = waiters[v]
  BY <1>1, <1>2, Zenon
<1> HIDE DEF ws
<1>4. waiters' \in [Callers -> WaiterRecord] /\ SleepersStay
  BY <1>2, <1>3, DispatchedTyped DEF SleepersStay
<1>5. NoMissedWakeup'
  BY <1>4, UndisturbedSleep, Zenon DEF WaitersInv
<1> QED
  BY <1>2, <1>4, <1>5, Zenon DEF WaitersInv, WaitersTyped

\* Nobody waits, and nothing was seen of anybody.
LEMMA NoWaiterTyped == NoWaiter \in WaiterRecord /\ NoWaiter.phase = "none"
<1>1. NoMembers \in [{} -> [membershipID : Nat, fresh : Nat]]
  BY Zenon DEF NoMembers
<1>2. NoMembers \in Snapshots
  BY <1>1, Zenon DEF Snapshots
<1> QED
  BY <1>2, Zenon DEF NoWaiter, WaiterRecord

\* The turns of a caller by itself: one parks only if its test under s.access said not done.
LEMMA CallersKeep ==
    ASSUME Inv, WaitersInv, CallerStep \/ (\E w \in Callers : ContextDone(w))
    PROVE WaitersInv'
<1>1. waiters \in [Callers -> WaiterRecord] /\ coolingDown \in BOOLEAN /\ NoMissedWakeup
  BY Zenon DEF WaitersInv, WaitersTyped
<1>2. Undisturbed
  BY QuietUndisturbed, Zenon DEF CallerStep, TestDone, EndLadder, EndCycle, EndURLTest, BudgetPasses,
     LadderTimer, ContextDone
<1>3. \A w \in Callers : waiters[w] \in WaiterRecord
  BY <1>1, Zenon
<1>4. "ladder" \in Callers /\ "cycle" \in Callers /\ "urltest" \in Callers
  BY Zenon DEF Callers
<1>5. ASSUME NEW w \in Callers, TestDone(w) PROVE WaitersInv'
  <2> DEFINE next == [waiters[w] EXCEPT !.phase = IF WaiterDone(w) THEN "over" ELSE "parked"]
  <2>1. waiters' = [waiters EXCEPT ![w] = next]
    BY <1>5, Zenon DEF TestDone
  <2>2. /\ next \in WaiterRecord /\ next.phase \in {"over", "parked"}
        /\ next.phase = "parked" <=> ~WaiterDone(w)
        /\ next.members = waiters[w].members /\ next.sequence = waiters[w].sequence
        /\ next.generation = waiters[w].generation /\ next.pauseEpoch = waiters[w].pauseEpoch
        /\ next.budget = waiters[w].budget
    BY <1>3 DEF WaiterRecord
  <2> HIDE DEF next
  <2>3. waiters' \in [Callers -> WaiterRecord]
    BY <1>1, <2>1, <2>2, Zenon
  <2>4. UNCHANGED vars
    BY <1>5, Zenon DEF TestDone
  <2>5. \A v \in Callers : WaiterDone(v)' <=> WaiterDone(v)
    <3> TAKE v \in Callers
    <3>1. /\ waiters'[v].members = waiters[v].members /\ waiters'[v].sequence = waiters[v].sequence
          /\ waiters'[v].generation = waiters[v].generation
          /\ waiters'[v].pauseEpoch = waiters[v].pauseEpoch
          /\ waiters'[v].budget = waiters[v].budget
      BY <1>1, <2>1, <2>2, Zenon
    <3> QED
      BY <2>4, <3>1, ZenonT(60) DEF WaiterDone, WaiterFinished, Satisfied, StillMember, Stuck, Current,
         ScopeChanged, vars, schedulerVars, networkVars, pauseVars, lifeVars
  <2>6. ASSUME NEW v \in Callers, waiters'[v].phase = "parked", WaiterDone(v)'
        PROVE waiters'[v].budget = "past" \/ closed'
    <3>1. WaiterDone(v)
      BY <2>5, <2>6, Zenon
    <3>2. v # w
      BY <1>1, <2>1, <2>2, <2>6, <3>1, Zenon
    <3>3. waiters'[v] = waiters[v]
      BY <1>1, <2>1, <3>2, Zenon
    <3> QED
      BY <1>1, <2>4, <2>6, <3>1, <3>3, Zenon DEF NoMissedWakeup, vars, lifeVars
  <2> QED
    BY <1>1, <1>5, <2>3, <2>6, Zenon DEF WaitersInv, WaitersTyped, NoMissedWakeup, TestDone
<1>6. ASSUME NEW w \in Callers, ContextDone(w) PROVE WaitersInv'
  <2> DEFINE next == [waiters[w] EXCEPT !.phase = "over"]
  <2>1. waiters' = [waiters EXCEPT ![w] = next]
    BY <1>6, Zenon DEF ContextDone
  <2>2. next \in WaiterRecord /\ next.phase = "over"
    BY <1>3 DEF WaiterRecord
  <2> HIDE DEF next
  <2>3. waiters' \in [Callers -> WaiterRecord] /\ SleepersStay
    BY <1>1, <2>1, <2>2, Zenon DEF SleepersStay
  <2> QED
    BY <1>1, <1>2, <1>6, <2>3, UndisturbedSleep, Zenon DEF WaitersInv, WaitersTyped, ContextDone
<1>7. CASE EndLadder \/ EndCycle \/ EndURLTest
  <2>1. PICK w \in Callers : waiters' = [waiters EXCEPT ![w] = NoWaiter]
    BY <1>4, <1>7, Zenon DEF EndLadder, EndCycle, EndURLTest
  <2>2. waiters' \in [Callers -> WaiterRecord] /\ SleepersStay
    BY <1>1, <2>1, NoWaiterTyped, Zenon DEF SleepersStay
  <2>3. coolingDown' \in BOOLEAN
    BY <1>1, <1>7, Zenon DEF EndLadder, EndCycle, EndURLTest
  <2>4. emittedBy' \in {"none", "ladder", "cycle"}
    BY <1>7, EvaluateEmits, Zenon DEF EndLadder, EndCycle, EndURLTest
  <2> QED
    BY <1>1, <1>2, <2>2, <2>3, <2>4, UndisturbedSleep, Zenon DEF WaitersInv, WaitersTyped
<1>8. CASE BudgetPasses
  <2> DEFINE next == [waiters["ladder"] EXCEPT !.budget = "past"]
  <2>1. waiters' = [waiters EXCEPT !["ladder"] = next]
    BY <1>8, Zenon DEF BudgetPasses
  <2>2. /\ next \in WaiterRecord /\ next.phase = waiters["ladder"].phase /\ next.budget = "past"
        /\ next.members = waiters["ladder"].members /\ next.sequence = waiters["ladder"].sequence
        /\ next.generation = waiters["ladder"].generation
        /\ next.pauseEpoch = waiters["ladder"].pauseEpoch
    BY <1>3, <1>4 DEF WaiterRecord
  <2> HIDE DEF next
  <2>3. waiters' \in [Callers -> WaiterRecord] /\ SleepersStay
    BY <1>1, <1>4, <2>1, <2>2, Zenon DEF SleepersStay
  <2> QED
    BY <1>1, <1>2, <1>8, <2>3, UndisturbedSleep, Zenon DEF WaitersInv, WaitersTyped, BudgetPasses
<1>9. CASE LadderTimer
  <2> DEFINE ws == [waiters EXCEPT !["ladder"] = Evaluated("ladder")]
  <2>1. ws \in [Callers -> WaiterRecord]
    BY <1>1, <1>4, EvaluatedTyped, Zenon DEF WaitersInv
  <2>2. waiters' = Notified(ws)
    BY <1>9, Zenon DEF LadderTimer
  <2> HIDE DEF ws
  <2>3. waiters' \in [Callers -> WaiterRecord] /\ Awake(waiters')
    BY <2>1, <2>2, NotifiedTyped, Zenon
  <2>4. emittedBy' \in {"none", "ladder", "cycle"} /\ coolingDown' = coolingDown
    BY <1>9, EvaluateEmits, Zenon DEF LadderTimer
  <2> QED
    BY <1>1, <2>3, <2>4, AwakeSleep, Zenon DEF WaitersInv, WaitersTyped
<1> QED
  BY <1>5, <1>6, <1>7, <1>8, <1>9, Zenon DEF CallerStep

\* Every step keeps the waiters' invariant.
LEMMA WaitersStepKeeps == Inv /\ Inv' /\ WaitersInv /\ [WaitersNext]_allVars => WaitersInv'
<1> SUFFICES ASSUME Inv, Inv', WaitersInv, WaitersNext \/ UNCHANGED allVars PROVE WaitersInv'
  BY Zenon
<1>1. ASSUME NEW o \in Objects, WaitersTimeout(o) PROVE WaitersInv'
  <2>1. ExpiresLadder \in BOOLEAN
    BY Zenon DEF ExpiresLadder
  <2> QED
    BY <1>1, <2>1, ProbeEndsKeeps, Zenon DEF WaitersTimeout
<1>2. ASSUME NEW o \in Objects, NEW success \in BOOLEAN, WaitersComplete(o, success)
      PROVE WaitersInv'
  <2>1. ExpiresLadder \in BOOLEAN
    BY Zenon DEF ExpiresLadder
  <2> QED
    BY <1>2, <2>1, ProbeEndsKeeps, Zenon DEF WaitersComplete
<1>3. CASE BeginLadder
  <2>1. Undisturbed
    BY <1>3, QuietUndisturbed, Zenon DEF BeginLadder
  <2> QED
    BY <1>3, <2>1, BeginKeeps, Zenon DEF BeginLadder, Callers
<1>4. CASE BeginCycle
  <2>1. Undisturbed /\ members' = members
    BY <1>4, QuietUndisturbed, Zenon DEF BeginCycle, QuietOperation, CheckOutbounds
  <2> QED
    BY <1>4, <2>1, BeginKeeps, ZenonT(60) DEF BeginCycle, Callers
<1>5. CASE BeginURLTest
  <2>1. Undisturbed
    BY <1>5, URLTestUndisturbed, Zenon DEF BeginURLTest
  <2> QED
    BY <1>5, <2>1, BeginKeeps, Zenon DEF BeginURLTest, Callers
<1>6. CASE CallerStep \/ (\E w \in Callers : ContextDone(w))
  BY <1>6, CallersKeep, Zenon
<1>7. CASE WaitersInterfaceUpdated
  BY <1>7, LoudlyKeeps, ZenonT(60) DEF WaitersInterfaceUpdated
<1>8. CASE WaitersOnPause
  <2>1. /\ waiters \in [Callers -> WaiterRecord] /\ coolingDown' \in BOOLEAN
        /\ emittedBy' = "none" /\ closed' = closed
    BY <1>8, Zenon DEF WaitersInv, WaitersTyped, WaitersOnPause, OnPause, lifeVars
  <2>2. CASE closed
    BY <1>8, <2>1, <2>2, Zenon DEF WaitersInv, WaitersTyped, WaitersOnPause, NoMissedWakeup
  <2>3. CASE ~closed
    <3>1. waiters' = Notified(waiters)
      BY <1>8, <2>3, Zenon DEF WaitersOnPause
    <3>2. waiters' \in [Callers -> WaiterRecord] /\ Awake(waiters')
      BY <2>1, <3>1, NotifiedTyped, Zenon
    <3> QED
      BY <2>1, <3>2, AwakeSleep, Zenon DEF WaitersInv, WaitersTyped
  <2> QED
    BY <2>2, <2>3, Zenon
<1>9. CASE CooldownEnds \/ UNCHANGED allVars \/ (Unseen /\ emittedBy' = "none"
                                                /\ UNCHANGED <<waiters, coolingDown>>)
  <2>1. Undisturbed
    BY <1>9, QuietUndisturbed, Zenon DEF CooldownEnds, allVars
  <2>2. waiters' = waiters /\ coolingDown' \in {coolingDown, FALSE} /\ emittedBy' \in {emittedBy, "none"}
    BY <1>9, ZenonT(60) DEF CooldownEnds, allVars, waiterVars
  <2>3. SleepersStay
    BY <2>2, Zenon DEF SleepersStay
  <2> QED
    BY <2>1, <2>2, <2>3, UndisturbedSleep, Zenon DEF WaitersInv, WaitersTyped
<1>10. ASSUME NEW t \in Tags, WaitersRemove(t) PROVE WaitersInv'
  BY <1>10, LoudlyKeeps, Zenon DEF WaitersRemove, Loudly
<1>11. CASE LoudOperation /\ Loudly
  BY <1>11, LoudlyKeeps, Zenon DEF Loudly
<1>12. CASE QuietOperation /\ Quietly
  BY <1>12, QuietUndisturbed, QuietlyKeeps, Zenon
<1> QED
  BY <1>1, <1>2, <1>3, <1>4, <1>5, <1>6, <1>7, <1>8, <1>9, <1>10, <1>11, <1>12, Zenon DEF WaitersNext

\* Nobody waits at first.
LEMMA WaitersInitInv == WaitersInit => WaitersInv
<1> SUFFICES ASSUME WaitersInit PROVE WaitersInv
  BY Zenon
<1>1. waiters \in [Callers -> WaiterRecord] /\ Awake(waiters)
  BY NoWaiterTyped, Zenon DEF WaitersInit, Awake
<1>2. NoMissedWakeup
  BY <1>1, Zenon DEF Awake, NoMissedWakeup
<1> QED
  BY <1>1, <1>2, Zenon DEF WaitersInit, WaitersInv, WaitersTyped

\* The waiters' invariant always holds.
LEMMA WaitersAlwaysInv == WaitersSpec => []WaitersInv
BY WaitersInitInv, WaitersStepKeeps, WaitersKeepScheduler, PTL DEF WaitersSpec

\* No lost wake-up, for any number of members, URLs, networks and pauses: a caller asleep on
\* probeChanged is not done, unless its deadline passed and its timer is about to fire, or the
\* group closed and its context wakes it.
THEOREM WakeupsNeverMissed == WaitersSpec => []NoMissedWakeup
<1>1. WaitersInv => NoMissedWakeup
  BY Zenon DEF WaitersInv
<1> QED
  BY <1>1, WaitersAlwaysInv, PTL

\* What ExhaustionOverlooksNoSuccess says of a step.
OverlooksNoSuccess ==
    emittedBy' # "none" =>
        \A t \in DOMAIN members \cap Ordinary :
            LET outcome == probeMembers[t].outcome
            IN \/ Stuck(members[t])
               \/ ~outcome.success
               \/ ~Current(t, outcome)
               \/ outcome.sequence <= waiters[emittedBy'].sequence

\* An evaluation that emits looked at every ordinary member of the moment.
LEMMA EvaluationLooks ==
    ASSUME Inv, WaitersTyped, NEW w \in {"ladder", "cycle"}, Evaluate(w)
    PROVE OverlooksNoSuccess
<1> SUFFICES ASSUME emittedBy' # "none", NEW t \in DOMAIN members \cap Ordinary,
                    ~Stuck(members[t]), probeMembers[t].outcome.success,
                    Current(t, probeMembers[t].outcome)
             PROVE probeMembers[t].outcome.sequence <= waiters[emittedBy'].sequence
  BY Zenon DEF OverlooksNoSuccess
<1>1. PICK demoted \in SUBSET LastResort : emittedBy' = w /\ ~Reachable(w, demoted)
  BY Zenon DEF Evaluate
<1>2. t \in DOMAIN members \ LastResort
  BY Zenon DEF Ordinary
<1>3. ~SucceededSince(w, t)
  BY <1>1, <1>2, ZenonT(60) DEF Reachable
<1>4. ~(probeMembers[t].outcome.sequence > waiters[w].sequence)
  BY <1>3, Zenon DEF SucceededSince
<1>5. probeMembers[t].outcome.sequence \in Nat /\ waiters[w].sequence \in Nat
  BY InvParts, Zenon DEF TypedMembers, MemberProbeState, Outcome, WaitersTyped, WaiterRecord, Callers
<1> QED
  BY <1>1, <1>4, <1>5, SMTT(30)

\* Exhaustion is emitted by evaluations only.
LEMMA EveryStepLooks ==
    Inv /\ WaitersTyped /\ [WaitersNext]_allVars => [OverlooksNoSuccess]_allVars
<1> SUFFICES ASSUME Inv, WaitersTyped, WaitersNext PROVE OverlooksNoSuccess
  BY Zenon
<1>1. emittedBy' = "none" \/ Evaluate("ladder") \/ Evaluate("cycle")
  BY Zenon DEF WaitersNext, WaitersTimeout, WaitersComplete, ProbeEnds, BeginLadder, BeginCycle,
         BeginURLTest, Begin, CallerStep, TestDone, EndLadder, EndCycle, EndURLTest, BudgetPasses,
         LadderTimer, ContextDone, WaitersInterfaceUpdated, WaitersOnPause, CooldownEnds,
         WaitersRemove, Loudly, Quietly
<1>2. CASE emittedBy' = "none"
  BY <1>2, Zenon DEF OverlooksNoSuccess
<1> QED
  BY <1>1, <1>2, EvaluationLooks, Zenon

\* An exhaustion signal overlooks no success sequenced after its waiter began, whichever members
\* joined, left or were re-added while it waited.
THEOREM ExhaustionNeverOverlooks == WaitersSpec => ExhaustionOverlooksNoSuccess
<1>1. WaitersInv => WaitersTyped
  BY Zenon DEF WaitersInv
<1>2. [][OverlooksNoSuccess]_allVars => ExhaustionOverlooksNoSuccess
  BY PTL DEF OverlooksNoSuccess, ExhaustionOverlooksNoSuccess
<1> QED
  BY <1>1, <1>2, EveryStepLooks, WaitersAlwaysInv, WaitersKeepScheduler, PTL DEF WaitersSpec
=============================================================================
