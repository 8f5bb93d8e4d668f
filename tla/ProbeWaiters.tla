---------------------------- MODULE ProbeWaiters ----------------------------
(***************************************************************************)
(* The callers that wait for the scheduler's probes                        *)
(* (mutableautoselect_scheduler.go: runLadder, runProbeCycle, URLTest,     *)
(* waitForProbes, evaluateProbesLocked and the ladder's budget).           *)
(*                                                                         *)
(* A caller registers a waiter, asks for probes and then alternates        *)
(* between testing under s.access whether it is done and sleeping on the   *)
(* probeChanged channel it read in the same critical section.  An          *)
(* operation that may have changed the answer has to close that channel.   *)
(* When the wait is over the caller takes s.access again and evaluates:    *)
(* if nothing was reachable the group emits an exhaustion signal.          *)
(*                                                                         *)
(* Each action is an action of ProbeScheduler together with what the same  *)
(* critical section does to the waiters.  One URLTest is in progress at a  *)
(* time; runLadder and runProbeCycle enforce that for themselves.          *)
(***************************************************************************)
EXTENDS ProbeScheduler

Callers == {"ladder", "cycle", "urltest"}

CONSTANT MaxWaiting \* bound on the callers that wait at once

ASSUME WaitingAssumption == MaxWaiting \in 1..3

VARIABLES
    waiters,     \* caller -> its probeWaiter
    coolingDown, \* the latest ladder that counted was less than ladderCooldown ago
    emittedBy    \* history: the caller whose evaluation emitted exhaustion in this step

waiterVars == <<waiters, coolingDown, emittedBy>>
allVars == <<vars, waiterVars>>

NoMembers == [t \in {} |-> 0]

\* phase: "test" is about to take s.access and test, "parked" sleeps on probeChanged, "over" has
\* returned from waitForProbes and not yet taken s.access again.
Waiter(w) ==
    /\ w.phase \in {"none", "test", "parked", "over"}
    /\ w.sequence \in Nat /\ w.generation \in Nat /\ w.pauseEpoch \in Nat
    /\ DOMAIN w.members \subseteq Tags
    /\ \A t \in DOMAIN w.members : w.members[t] \in [membershipID : Nat, fresh : Nat]
    /\ w.evaluated \in BOOLEAN /\ w.counted \in BOOLEAN
    /\ w.budget \in {"unset", "running", "past"}

NoWaiter == [phase |-> "none", sequence |-> 0, generation |-> 0, pauseEpoch |-> 0,
             members |-> NoMembers, evaluated |-> FALSE, counted |-> FALSE, budget |-> "unset"]

WaitersTypeOK ==
    /\ TypeOK
    /\ DOMAIN waiters = Callers /\ \A w \in Callers : Waiter(waiters[w])
    /\ coolingDown \in BOOLEAN
    /\ emittedBy \in {"none", "ladder", "cycle"}

WaitersInit ==
    /\ Init
    /\ waiters = [w \in Callers |-> NoWaiter]
    /\ coolingDown = FALSE
    /\ emittedBy = "none"

Active(w) == waiters[w].phase # "none"
Ordinary == Tags \ (LastResort \cup Excluded)

(***************************************************************************)
(* When a waiter is done.                                                  *)
(***************************************************************************)
Current(t, outcome) ==
    /\ outcome.sequence > 0
    /\ outcome.url = urls[t]
    /\ t \in LastResort \/ outcome.generation = networkGeneration

StillMember(t, membershipID) ==
    t \in DOMAIN members /\ probeMembers[t].membershipID = membershipID

\* waiterOutcomeLocked: an outcome sequenced after the waiter, or the fresh one it accepted.
Satisfied(w, t) ==
    LET outcome == probeMembers[t].outcome
    IN /\ Current(t, outcome)
       /\ \/ outcome.sequence = waiters[w].members[t].fresh
          \/ outcome.sequence > waiters[w].sequence

\* waiterFinishedLocked: members that left or whose operation is stuck do not hold it up.
WaiterFinished(w) ==
    \A t \in DOMAIN waiters[w].members :
        StillMember(t, waiters[w].members[t].membershipID) /\ ~Stuck(members[t])
            => Satisfied(w, t)

ScopeChanged(w) ==
    waiters[w].generation # networkGeneration \/ waiters[w].pauseEpoch # pauseEpoch

\* waiterDoneLocked
WaiterDone(w) ==
    \/ closed
    \/ w # "urltest" /\ ScopeChanged(w)
    \/ waiters[w].budget = "past"
    \/ WaiterFinished(w)

(***************************************************************************)
(* Evaluation.                                                             *)
(***************************************************************************)
Counts(w) == ~closed /\ pausedBy = {} /\ ~ScopeChanged(w)

SucceededSince_OnlySnapshot(w, t) ==
    LET outcome == probeMembers[t].outcome
        known == waiters[w].members
    IN /\ outcome.success /\ Current(t, outcome)
       /\ t \in DOMAIN known /\ known[t].membershipID = probeMembers[t].membershipID
       /\ outcome.sequence = known[t].fresh \/ outcome.sequence > waiters[w].sequence

\* Any current member counts, also one that joined after the waiter began (line 499).
SucceededSince(w, t) ==
    LET outcome == probeMembers[t].outcome
        known == waiters[w].members
    IN /\ outcome.success /\ Current(t, outcome)
       /\ \/ outcome.sequence > waiters[w].sequence
          \/ /\ t \in DOMAIN known /\ known[t].membershipID = probeMembers[t].membershipID
             /\ outcome.sequence = known[t].fresh

\* A last resort counts while its success is recent and it is neither stuck nor among demoted,
\* the ones whose user failures demote them hard.
Reachable(w, demoted) ==
    \/ \E t \in DOMAIN members \ LastResort :
          ~Stuck(members[t]) /\ SucceededSince(w, t)
    \/ \E t \in (DOMAIN members \cap LastResort) \ demoted :
          /\ ~Stuck(members[t])
          /\ probeMembers[t].outcome.success /\ probeMembers[t].outcome.age < 2
          /\ Current(t, probeMembers[t].outcome)

\* evaluateProbesLocked, once per waiter: whether it emits is all the outside sees.
Evaluate(w) ==
    \E demoted \in SUBSET LastResort :
        emittedBy' = IF ~waiters[w].evaluated /\ Counts(w) /\ ~Reachable(w, demoted)
                     THEN w ELSE "none"

Evaluated(w) == [waiters[w] EXCEPT !.evaluated = TRUE,
                                   !.counted = IF waiters[w].evaluated THEN @ ELSE Counts(w)]

(***************************************************************************)
(* notifyProbesLocked and the ladder's budget, which runs from the first   *)
(* moment a slot is free (startLadderBudgetLocked).                        *)
(***************************************************************************)
Notified_None(ws) == ws

Notified(ws) ==
    [w \in Callers |-> IF ws[w].phase = "parked" THEN [ws[w] EXCEPT !.phase = "test"] ELSE ws[w]]

Budgeted(ws, used) ==
    IF ws["ladder"].phase # "none" /\ ws["ladder"].budget = "unset" /\ used < Limit
    THEN [ws EXCEPT !["ladder"].budget = "running"] ELSE ws

\* What a dispatch does to the waiters.
Dispatched(ws) == IF closed' \/ pausedBy' # {} THEN ws ELSE Budgeted(ws, probeSlotsUsed)

Quietly == waiters' = Dispatched(waiters) /\ emittedBy' = "none" /\ UNCHANGED coolingDown
Loudly == waiters' = Dispatched(Notified(waiters)) /\ emittedBy' = "none" /\ UNCHANGED coolingDown

(***************************************************************************)
(* The end of a probe.  A ladder past its deadline is evaluated first      *)
(* (expireLadderLocked), so a late success cannot count.                   *)
(***************************************************************************)
ExpiresLadder == Active("ladder") /\ waiters["ladder"].budget = "past"

ProbeEnds(o, expire) ==
    LET used == IF inFlightProbes[o].holdsSlot THEN probeSlotsUsed - 1 ELSE probeSlotsUsed
        evaluated == IF expire THEN [waiters EXCEPT !["ladder"] = Evaluated("ladder")]
                               ELSE waiters
    IN /\ waiters' = Budgeted(Notified(evaluated), used)
       /\ IF expire THEN Evaluate("ladder") ELSE emittedBy' = "none"
       /\ UNCHANGED coolingDown

WaitersTimeout(o) == TimeoutProbe(o) /\ ProbeEnds(o, ExpiresLadder)

\* A cancelled attempt that returns before its deadline does not look at the ladder.
WaitersComplete(o, success) ==
    /\ CompleteProbe(o, success)
    /\ \/ ProbeEnds(o, ExpiresLadder)
       \/ inFlightProbes[o].finalized /\ ProbeEnds(o, FALSE)

(***************************************************************************)
(* The callers.                                                            *)
(***************************************************************************)
\* newProbeWaiterLocked, over the members the operation leaves.
NewWaiter(filtered) ==
    [phase |-> "test", sequence |-> probeSequence, generation |-> networkGeneration,
     pauseEpoch |-> pauseEpoch,
     members |-> [t \in DOMAIN members' \cap Ordinary |->
                     [membershipID |-> probeMembers'[t].membershipID,
                      fresh |-> IF filtered /\ HasFreshOutcome(t, probeMembers[t])
                                THEN probeMembers[t].outcome.sequence ELSE 0]],
     evaluated |-> FALSE, counted |-> FALSE, budget |-> "unset"]

MayBegin(w) == ~Active(w) /\ Cardinality({v \in Callers : Active(v)}) < MaxWaiting

Begin(w, filtered) ==
    /\ waiters' = Dispatched([waiters EXCEPT ![w] = NewWaiter(filtered)])
    /\ emittedBy' = "none"
    /\ UNCHANGED coolingDown

\* runLadder up to the wait.
BeginLadder == MayBegin("ladder") /\ ~coolingDown /\ ForceProbes /\ Begin("ladder", FALSE)

\* runProbeCycle up to the wait; the periodic timer calls it while probing is on.
BeginCycle ==
    /\ MayBegin("cycle") /\ probing /\ ~closed /\ pausedBy = {}
    /\ CheckOutbounds
    /\ Begin("cycle", TRUE)

BeginURLTest == MayBegin("urltest") /\ URLTest /\ Begin("urltest", FALSE)

\* One turn of waitForProbes.
TestDone(w) ==
    /\ waiters[w].phase = "test"
    /\ waiters' = [waiters EXCEPT ![w].phase = IF WaiterDone(w) THEN "over" ELSE "parked"]
    /\ emittedBy' = "none"
    /\ UNCHANGED <<vars, coolingDown>>

\* s.ctx is done, or for URLTest its caller's context.
ContextDone(w) ==
    /\ waiters[w].phase = "parked"
    /\ closed \/ w = "urltest"
    /\ waiters' = [waiters EXCEPT ![w].phase = "over"]
    /\ emittedBy' = "none"
    /\ UNCHANGED <<vars, coolingDown>>

\* runLadder after the wait: only a ladder that counted starts a cooldown.
EndLadder ==
    /\ waiters["ladder"].phase = "over"
    /\ Evaluate("ladder")
    /\ waiters' = [waiters EXCEPT !["ladder"] = NoWaiter]
    /\ coolingDown' = (coolingDown \/ (Evaluated("ladder").counted /\ ~ScopeChanged("ladder")))
    /\ UNCHANGED vars

EndCycle ==
    /\ waiters["cycle"].phase = "over"
    /\ Evaluate("cycle")
    /\ waiters' = [waiters EXCEPT !["cycle"] = NoWaiter]
    /\ UNCHANGED <<vars, coolingDown>>

EndURLTest ==
    /\ waiters["urltest"].phase = "over"
    /\ waiters' = [waiters EXCEPT !["urltest"] = NoWaiter]
    /\ emittedBy' = "none"
    /\ UNCHANGED <<vars, coolingDown>>

\* The ladder's deadline passes, and then its timer fires unless Close or the ladder stopped it.
BudgetPasses ==
    /\ waiters["ladder"].budget = "running" /\ ~closed
    /\ waiters' = [waiters EXCEPT !["ladder"].budget = "past"]
    /\ emittedBy' = "none"
    /\ UNCHANGED <<vars, coolingDown>>

LadderTimer ==
    /\ waiters["ladder"].budget = "past" /\ waiters["ladder"].phase = "parked" /\ ~closed
    /\ Evaluate("ladder")
    /\ waiters' = Notified([waiters EXCEPT !["ladder"] = Evaluated("ladder")])
    /\ UNCHANGED <<vars, coolingDown>>

(***************************************************************************)
(* The other operations.                                                   *)
(***************************************************************************)
\* The members a URLTest waits for are probed again on a new network; the ladder cooldown is
\* lifted unless the network changed a short while ago.
WaitersInterfaceUpdated ==
    /\ InterfaceUpdated({t \in DOMAIN waiters["urltest"].members :
                            StillMember(t, waiters["urltest"].members[t].membershipID)})
    /\ waiters' = Dispatched(Notified(waiters))
    /\ emittedBy' = "none"
    /\ coolingDown' \in {coolingDown, FALSE}

\* cancelProbesLocked notifies; a closed group ignores the event.
WaitersOnPause ==
    /\ OnPause
    /\ waiters' = IF closed THEN waiters ELSE Notified(waiters)
    /\ emittedBy' = "none"
    /\ UNCHANGED coolingDown

CooldownEnds ==
    /\ coolingDown
    /\ coolingDown' = FALSE
    /\ emittedBy' = "none"
    /\ UNCHANGED <<vars, waiters>>

WaitersRemove_Silent(t) == Remove(t) /\ Quietly

WaitersRemove(t) == Remove(t) /\ Loudly

\* Operations that notify, and operations that do not.
LoudOperation ==
    \/ Close
    \/ \E t \in Tags, o \in Objects : Add(t, o)
    \/ \E t \in Tags, u \in Urls : SetURLOverrides(t, u)

QuietOperation ==
    \/ Start
    \/ PostStart
    \/ CheckOutbounds
    \/ KeepAlive
    \/ \E t \in Tags : RequestFailureConfirmation(t)
    \/ OnWake

Unseen ==
    \/ StopProbing
    \/ \E source \in PauseSources : PauseManagerPauses(source) \/ PauseManagerWakes(source)
    \/ \E t \in Tags : OutcomeAges(t)

CallerStep ==
    \/ \E w \in Callers : TestDone(w)
    \/ EndLadder
    \/ EndCycle
    \/ EndURLTest
    \/ BudgetPasses
    \/ LadderTimer

WaitersNext ==
    \/ \E o \in Objects : WaitersTimeout(o)
    \/ \E o \in Objects, success \in BOOLEAN : WaitersComplete(o, success)
    \/ BeginLadder
    \/ BeginCycle
    \/ BeginURLTest
    \/ CallerStep
    \/ \E w \in Callers : ContextDone(w)
    \/ WaitersInterfaceUpdated
    \/ WaitersOnPause
    \/ CooldownEnds
    \/ \E t \in Tags : WaitersRemove(t)
    \/ LoudOperation /\ Loudly
    \/ QuietOperation /\ Quietly
    \/ Unseen /\ emittedBy' = "none" /\ UNCHANGED <<waiters, coolingDown>>

WaitersSpec == WaitersInit /\ [][WaitersNext]_allVars

(***************************************************************************)
(* Probes end, callers run, timers fire.  Nothing obliges URLTest's        *)
(* context to end, the pause to end or any operation to be called.         *)
(***************************************************************************)
WaitersFairness ==
    /\ \A o \in Objects : WF_allVars(WaitersTimeout(o))
    /\ \A o \in Objects : WF_allVars(\E success \in BOOLEAN : WaitersComplete(o, success))
    /\ \A w \in Callers : WF_allVars(TestDone(w))
    /\ \A w \in {"ladder", "cycle"} : WF_allVars(ContextDone(w))
    /\ WF_allVars(EndLadder)
    /\ WF_allVars(EndCycle)
    /\ WF_allVars(EndURLTest)
    /\ WF_allVars(BudgetPasses)
    /\ WF_allVars(LadderTimer)
    /\ WF_allVars(WaitersOnPause)
    /\ WF_allVars(OnWake /\ Quietly)


(***************************************************************************)
(* Properties.                                                             *)
(***************************************************************************)
\* No lost wake-up: a caller asleep on probeChanged is not done, unless all that changed is that
\* the ladder's deadline passed and its timer is about to fire.
NoMissedWakeup ==
    \A w \in Callers :
        waiters[w].phase = "parked" /\ WaiterDone(w)
            => waiters[w].budget = "past" \/ closed

\* An exhaustion signal overlooks no success: at the evaluation that emits it, no ordinary member
\* of the moment, whether it was there from the start, joined or was re-added since, is unstuck
\* with a success of its current URL and network sequenced after the waiter began.
ExhaustionOverlooksNoSuccess ==
    [][emittedBy' # "none" =>
          \A t \in DOMAIN members \cap Ordinary :
              LET outcome == probeMembers[t].outcome
              IN \/ Stuck(members[t])
                 \/ ~outcome.success
                 \/ ~Current(t, outcome)
                 \/ outcome.sequence <= waiters[emittedBy'].sequence]_allVars

\* ExhaustionSignal "emits when every candidate fails a ladder or background probe cycle"
\* (mutableautoselect.go, lines 519-520): every ordinary member of a cycle that ended by itself
\* failed its latest probe.  It does not hold: the cycle releases s.access between the test that
\* ends its wait and the evaluation, and a SetURLOverrides in between makes a success stale.
ExhaustionMeansFailure ==
    [][emittedBy' = "cycle" =>
          \A t \in DOMAIN members \cap Ordinary :
              \/ Stuck(members[t])
              \/ ~probeMembers[t].outcome.success]_allVars

\* Ladders and cycles end, whatever probes, pauses, network and membership changes do meanwhile:
\* slots held by cancelled operations cannot keep a ladder from ever starting its budget.
LaddersAndCyclesEnd == \A w \in {"ladder", "cycle"} : Active(w) ~> ~Active(w)

\* A URLTest returns by itself unless the group is paused: a network change or a removal that
\* cancels the probes it waits for has them dispatched again.
URLTestReturns == Active("urltest") ~> (~Active("urltest") \/ pausedBy # {})

\* Whoever waits for probes gets away: ladders, cycles and calls of URLTest all end.
CallersReturn == []WaitersTypeOK /\ LaddersAndCyclesEnd /\ URLTestReturns
=============================================================================
