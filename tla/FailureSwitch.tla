---------------------------- MODULE FailureSwitch ----------------------------
(***************************************************************************)
(* TCP selection under confirmed failures                                  *)
(* (protocol/group/mutableautoselect.go: selectOutbound,                   *)
(* trySwitchAfterConfirmedFailureLocked and the two ways to a              *)
(* replacement; the recovery gate of mutableautoselect_history.go).        *)
(*                                                                         *)
(* A dial that fails on the selected member asks the scheduler for a       *)
(* confirmation probe.  If an attempt sequenced after that request fails,  *)
(* traffic moves to a replacement and the member left behind is gated.     *)
(* Each action is an action of ProbeScheduler together with what the same  *)
(* critical section does to selection.                                     *)
(***************************************************************************)
EXTENDS ProbeScheduler

CONSTANTS
    NoTag,     \* the empty tag
    Persisted  \* tags whose stored history ends in a passing probe

ASSUME SelectionAssumption == NoTag \notin Tags /\ Persisted \subseteq Tags

VARIABLES
    stickyTCP,   \* s.stickyTag.tcp
    replacement, \* tag -> the alternate its pending confirmation names
    gated,       \* tags whose history has a recovery gate
    hydrated,    \* tags whose history, as restored, ends in a passing probe
    lastSwitch   \* selectedTag of a confirmed-failure switch within its cooldown

selectVars == <<stickyTCP, replacement, gated, hydrated, lastSwitch>>
switchVars == <<vars, selectVars>>

SwitchInit ==
    /\ Init
    /\ stickyTCP = NoTag
    /\ replacement = [t \in Tags |-> NoTag]
    /\ gated = {}
    /\ hydrated = Persisted
    /\ lastSwitch = NoTag

(***************************************************************************)
(* What a recorded outcome does to selection.                              *)
(***************************************************************************)
\* The scalars of localHistory after the member's probes: its latest one passed.
LatestProbePassed(t) ==
    IF probeMembers[t].outcome.sequence > 0
    THEN probeMembers[t].outcome.success ELSE t \in hydrated

EligibleReplacement_Gated(t) ==
    t \in DOMAIN members /\ ~Stuck(members[t]) /\ LatestProbePassed(t)

\* eligibleReplacementLocked
EligibleReplacement(t) ==
    /\ t \in DOMAIN members
    /\ ~Stuck(members[t])
    /\ LatestProbePassed(t)
    /\ t \notin gated

\* trySwitchAfterConfirmedFailureLocked.  The alternate the confirmation names is taken if it is
\* eligible; otherwise findProbedReplacementLocked takes the best ranked eligible member of the
\* healthiest tier: some eligible member, or none.
SwitchAfterConfirmedFailure(failed) ==
    LET named == replacement[failed]
        mayMove == stickyTCP = failed /\ lastSwitch \in {NoTag, failed}
    IN \/ /\ ~mayMove \/ ~EligibleReplacement(named)
          /\ replacement' = [replacement EXCEPT ![failed] = NoTag]
          /\ UNCHANGED <<stickyTCP, gated, hydrated, lastSwitch>>
       \/ \E chosen \in Tags \ {failed} :
             /\ mayMove
             /\ EligibleReplacement(chosen)
             /\ EligibleReplacement(named) => chosen = named
             /\ stickyTCP' = chosen
             /\ replacement' = [replacement EXCEPT ![failed] = NoTag]
             /\ gated' = gated \cup {failed}
             /\ lastSwitch' = chosen
             /\ UNCHANGED hydrated

\* acceptProbeLocked: a passing probe lifts a recovery gate that is old enough
\* (recordProbeSuccess); a confirmation spends the named alternate.
Consequences(o, success) ==
    LET a == inFlightProbes[o]
        confirms == Records(o) /\ Confirms(a, probeMembers[a.tag])
    IN \/ confirms /\ ~success /\ SwitchAfterConfirmedFailure(a.tag)
       \/ /\ Records(o) /\ success
          /\ gated' \in {gated, gated \ {a.tag}}
          /\ replacement' = IF confirms THEN [replacement EXCEPT ![a.tag] = NoTag]
                                        ELSE replacement
          /\ UNCHANGED <<stickyTCP, hydrated, lastSwitch>>
       \/ (~Records(o) \/ (~success /\ ~confirms)) /\ UNCHANGED selectVars

SwitchTimeout(o) == TimeoutProbe(o) /\ Consequences(o, FALSE)
SwitchComplete(o, success) == CompleteProbe(o, success) /\ Consequences(o, success)

(***************************************************************************)
(* Dials, membership and time.                                             *)
(***************************************************************************)
\* selectOutbound("tcp", ""): the winner of the ranking is some member of the pool.
SelectTCP(t) ==
    /\ t \in DOMAIN members \ Excluded
    /\ stickyTCP' = t
    /\ KeepAlive \/ ((~started \/ closed \/ probing) /\ UNCHANGED vars)
    /\ UNCHANGED <<replacement, gated, hydrated, lastSwitch>>

\* A failure of a conn through t reported by DialContext (naming the alternate that answered) or
\* by the data plane (naming none).
ReportFailure(t, alternate) ==
    /\ stickyTCP = t
    /\ RequestFailureConfirmation(t)
    /\ replacement' = [replacement EXCEPT ![t] =
                          IF probeMembers[t].confirmationPending /\ alternate = NoTag
                          THEN @ ELSE alternate]
    /\ UNCHANGED <<stickyTCP, gated, hydrated, lastSwitch>>

ClearedSticky_Kept(t) == stickyTCP

\* clearStickyTagLocked
ClearedSticky(t) == IF stickyTCP = t THEN NoTag ELSE stickyTCP

SwitchRemove(t) ==
    /\ Remove(t)
    /\ stickyTCP' = ClearedSticky(t)
    /\ replacement' = [replacement EXCEPT ![t] = NoTag]
    /\ gated' = gated \ {t}
    /\ hydrated' = hydrated \ {t}
    /\ UNCHANGED lastSwitch

\* confirmedFailureSwitchCooldown passes.
SwitchCooldownEnds ==
    /\ lastSwitch # NoTag /\ ~closed
    /\ lastSwitch' = NoTag
    /\ UNCHANGED <<vars, stickyTCP, replacement, gated, hydrated>>

\* The operations that leave selection alone.
Unselective ==
    \/ Start
    \/ PostStart
    \/ Close
    \/ \E t \in Tags, o \in Objects : Add(t, o)
    \/ \E t \in Tags, u \in Urls : SetURLOverrides(t, u)
    \/ CheckOutbounds
    \/ ForceProbes
    \/ URLTest
    \/ KeepAlive
    \/ Surroundings

SwitchNext ==
    \/ \E o \in Objects : SwitchTimeout(o)
    \/ \E o \in Objects, success \in BOOLEAN : SwitchComplete(o, success)
    \/ \E t \in Tags : SelectTCP(t)
    \/ \E t \in Tags, alternate \in Tags \cup {NoTag} : alternate # t /\ ReportFailure(t, alternate)
    \/ \E t \in Tags : SwitchRemove(t)
    \/ SwitchCooldownEnds
    \/ Unselective /\ UNCHANGED selectVars

SwitchSpec == SwitchInit /\ [][SwitchNext]_switchVars

(***************************************************************************)
(* Properties.                                                             *)
(***************************************************************************)
\* TCP selection names a member or nothing, however removals interleave with dials and with
\* confirmed-failure switches.
StickyIsMember == stickyTCP \in DOMAIN members \cup {NoTag}

\* TCP traffic leaves a member after a confirmed failure only if that member was selected and a
\* probe dispatched after the failure was reported failed, and it goes to another member that is
\* not stuck or gated and whose latest probe passed.
SwitchIsJustified ==
    [][\A failed \in gated' \ gated :
          /\ stickyTCP = failed
          /\ \E o \in DOMAIN inFlightProbes :
                /\ inFlightProbes[o].tag = failed
                /\ inFlightProbes[o].sequence > probeMembers[failed].confirmSequence
          /\ ~probeMembers'[failed].outcome.success
          /\ stickyTCP' \in DOMAIN members \ gated'
          /\ ~Stuck(members[stickyTCP'])
          /\ LatestProbePassed(stickyTCP')]_switchVars
=============================================================================
