--------------------------- MODULE ProbeScheduler ---------------------------
(***************************************************************************)
(* The probe scheduler of MutableAutoSelect                                *)
(* (protocol/group/mutableautoselect_scheduler.go and the operations of    *)
(* mutableautoselect.go that drive it).                                    *)
(*                                                                         *)
(* Every operation runs under s.access, so an operation is one action.     *)
(* What interleaves is the probes' goroutines and watchdogs with dials,    *)
(* membership and URL changes, pause and wake, network changes and Close.  *)
(* Each operation that can make a probe startable ends in                  *)
(* dispatchProbesLocked, which is the last conjunct of its action.         *)
(*                                                                         *)
(* Time enters as the age of an outcome (fresh, recent, old) and as the    *)
(* watchdog firing.  Which member is selected, and what a confirmed        *)
(* failure does to that, is in FailureSwitch, which extends this module.   *)
(***************************************************************************)
EXTENDS Integers, FiniteSets, Sequences

CONSTANTS
    Tags,          \* member tags
    Objects,       \* outbound objects; a re-created outbound is another object
    TagOf,         \* object -> the tag it is registered under
    LastResort,    \* tags whose protocol is a last resort
    Excluded,      \* tags whose protocol is kept out of the pool
    Urls,          \* probe URLs
    DefaultUrl,
    InitialTags,   \* the configured tags, in order
    Limit,         \* cfg.probeConcurrency
    MaxSequence,   \* bound on probeSequence for operations from outside
    MaxMembership, \* bound on memberships ever created
    MaxGeneration, \* bound on network changes
    MaxPauseEpoch, \* bound on pauses
    PauseSources,  \* what can pause: the device, the network
    MaxAge         \* bound on an outcome's age: 0 fresh, 1 recent, 2 old

ASSUME ConstantsAssumption ==
    /\ IsFiniteSet(Tags) /\ IsFiniteSet(Objects)
    /\ TagOf \in [Objects -> Tags]
    /\ LastResort \subseteq Tags /\ Excluded \subseteq Tags
    /\ DefaultUrl \in Urls
    /\ InitialTags \in Seq(Tags)
    /\ \A i, j \in DOMAIN InitialTags : InitialTags[i] = InitialTags[j] => i = j
    /\ Limit \in Nat \ {0}
    /\ MaxSequence \in Nat /\ MaxMembership \in Nat /\ MaxGeneration \in Nat
    /\ MaxPauseEpoch \in Nat /\ MaxAge \in 0..2

\* probeNeed
NotNeeded == 0
IfStale == 1
Forced == 2

Fresh == 0

VARIABLES
    tags,             \* s.tags: registration order
    members,          \* s.members: tag -> object, a partial function
    probeMembers,     \* s.probeMembers: tag -> probe state, same domain as members
    nextMembershipID,
    inFlightProbes,   \* object -> attempt, a partial function
    probeSlotsUsed,
    probeSequence,
    networkGeneration,
    urls,             \* effective probe URL of each tag (probeURLForLocked)
    pausedBy,         \* pause manager: what pauses it, a subset of PauseSources
    pauseEvent,       \* pause manager: the callback it is about to deliver
    pauseEpoch,
    closed,           \* s.ctx is done
    started,
    probing           \* background probing is on

schedulerVars == <<tags, members, probeMembers, nextMembershipID, inFlightProbes,
                   probeSlotsUsed, probeSequence>>
networkVars == <<networkGeneration, urls>>
pauseVars == <<pausedBy, pauseEvent, pauseEpoch>>
lifeVars == <<closed, started, probing>>
vars == <<schedulerVars, networkVars, pauseVars, lifeVars>>

Outcome == [sequence : Nat, success : BOOLEAN, age : 0..2, generation : Nat, url : Urls]
NoOutcome == [sequence |-> 0, success |-> FALSE, age |-> Fresh, generation |-> 0,
              url |-> DefaultUrl]

MemberProbeState ==
    [membershipID : Nat, need : {NotNeeded, IfStale, Forced}, confirmationPending : BOOLEAN,
     confirmSequence : Nat, outcome : Outcome]

ProbeAttempt ==
    [sequence : Nat, tag : Tags, membershipID : Nat, generation : Nat, url : Urls,
     finalized : BOOLEAN, stuck : BOOLEAN, holdsSlot : BOOLEAN]

Without(map, x) == [y \in DOMAIN map \ {x} |-> map[y]]
Merged(f, g) == [x \in DOMAIN f \cup DOMAIN g |-> IF x \in DOMAIN f THEN f[x] ELSE g[x]]

TypeOK ==
    /\ tags \in Seq(Tags)
    /\ DOMAIN members \subseteq Tags
    /\ \A t \in DOMAIN members : members[t] \in Objects /\ TagOf[members[t]] = t
    /\ DOMAIN probeMembers = DOMAIN members
    /\ \A t \in DOMAIN members : probeMembers[t] \in MemberProbeState
    /\ nextMembershipID \in Nat
    /\ DOMAIN inFlightProbes \subseteq Objects
    /\ \A o \in DOMAIN inFlightProbes : inFlightProbes[o] \in ProbeAttempt
    /\ probeSlotsUsed \in Int
    /\ probeSequence \in Nat
    /\ networkGeneration \in Nat
    /\ urls \in [Tags -> Urls]
    /\ pausedBy \subseteq PauseSources
    /\ pauseEvent \in {"none", "pause", "wake"}
    /\ pauseEpoch \in Nat
    /\ closed \in BOOLEAN /\ started \in BOOLEAN /\ probing \in BOOLEAN

Init ==
    /\ tags = InitialTags
    /\ members = [t \in {} |-> 0]
    /\ probeMembers = [t \in {} |-> 0]
    /\ nextMembershipID = 0
    /\ inFlightProbes = [o \in {} |-> 0]
    /\ probeSlotsUsed = 0
    /\ probeSequence = 0
    /\ networkGeneration = 0
    /\ urls = [t \in Tags |-> DefaultUrl]
    /\ pausedBy = {}
    /\ pauseEvent = "none"
    /\ pauseEpoch = 0
    /\ closed = FALSE /\ started = FALSE /\ probing = FALSE

(***************************************************************************)
(* Requests and dispatch.                                                  *)
(***************************************************************************)
Requested_Lowers(states, who, need) ==
    [t \in DOMAIN states |->
        IF t \in who \ Excluded THEN [states[t] EXCEPT !.need = need] ELSE states[t]]

\* requestProbesLocked: a request never lowers a need.
Requested(states, who, need) ==
    [t \in DOMAIN states |->
        IF t \in who \ Excluded /\ states[t].need < need
        THEN [states[t] EXCEPT !.need = need] ELSE states[t]]

\* scopeCurrentLocked, in the state the operation leaves.
ScopeCurrent(t, url, generation) ==
    url = urls'[t] /\ (t \in LastResort \/ generation = networkGeneration')

OutcomeCurrent(t, outcome) ==
    outcome.sequence > 0 /\ ScopeCurrent(t, outcome.url, outcome.generation)

HasFreshOutcome(t, state) == state.outcome.age = Fresh /\ OutcomeCurrent(t, state.outcome)

\* Where the dispatch loop meets a tag.
Position(t) == CHOOSE i \in DOMAIN tags' : tags'[i] = t

\* A set of tags is served before the rest of the waiting ones.
Precedes(served, waiting) ==
    \A t \in served, u \in waiting \ served : Position(t) < Position(u)

Least(m, n) == IF m < n THEN m ELSE n

\* startProbeLocked: the n-th attempt started takes the n-th next sequence number.
NewAttempt(t, state, sequence, holdsSlot) ==
    [sequence |-> sequence, tag |-> t, membershipID |-> state.membershipID,
     generation |-> networkGeneration', url |-> urls'[t],
     finalized |-> FALSE, stuck |-> FALSE, holdsSlot |-> holdsSlot]

StartProbes(states, inFlight, used, sequence, started0, slotted) ==
    LET order(t) == Cardinality({u \in started0 : Position(u) <= Position(t)})
        attempts == [o \in {members'[t] : t \in started0} |->
                        NewAttempt(TagOf[o], states[TagOf[o]], sequence + order(TagOf[o]),
                                   TagOf[o] \in slotted)]
    IN /\ inFlightProbes' = Merged(inFlight, attempts)
       /\ probeSlotsUsed' = used + Cardinality(slotted)
       /\ probeSequence' = sequence + Cardinality(started0)

\* dispatchProbesLocked.  Every needed member whose object is idle starts: the last resorts and
\* pending confirmations unconditionally, the others while slots are left, in the order of tags.
DispatchProbes(states, inFlight, used, sequence) ==
    IF closed' \/ pausedBy' # {}
    THEN /\ probeMembers' = states
         /\ inFlightProbes' = inFlight
         /\ probeSlotsUsed' = used
         /\ probeSequence' = sequence
    ELSE LET settled == {t \in DOMAIN states :
                            t \in Excluded \/ (states[t].need = IfStale
                                               /\ HasFreshOutcome(t, states[t]))}
             startable == {t \in DOMAIN states \ settled :
                              states[t].need # NotNeeded /\ members'[t] \notin DOMAIN inFlight}
             unslotted == {t \in startable : t \in LastResort \/ states[t].confirmationPending}
             waiting == startable \ unslotted
         IN /\ probeMembers' = [t \in DOMAIN states |->
                                   IF t \in settled THEN [states[t] EXCEPT !.need = NotNeeded]
                                                    ELSE states[t]]
            /\ \E slotted \in SUBSET waiting :
                  /\ Precedes(slotted, waiting)
                  /\ Cardinality(slotted) = Least(Cardinality(waiting),
                                                  IF used < Limit THEN Limit - used ELSE 0)
                  /\ StartProbes(states, inFlight, used, sequence, unslotted \cup slotted, slotted)

\* The dispatch of an operation that changed nothing but needs.
DispatchNeeds(states) == DispatchProbes(states, inFlightProbes, probeSlotsUsed, probeSequence)

(***************************************************************************)
(* The end of an attempt.                                                  *)
(***************************************************************************)
\* validProbeLocked
ValidProbe(o) ==
    LET a == inFlightProbes[o]
    IN /\ ~closed /\ pausedBy = {}
       /\ a.tag \in DOMAIN members
       /\ members[a.tag] = o
       /\ probeMembers[a.tag].membershipID = a.membershipID
       /\ a.url = urls[a.tag]
       /\ a.tag \in LastResort \/ a.generation = networkGeneration

Records(o) == ~inFlightProbes[o].finalized /\ ValidProbe(o)

\* acceptProbeLocked: a pending confirmation is decided only by an attempt sequenced after it.
Confirms(a, state) == state.confirmationPending /\ a.sequence > state.confirmSequence

Answers_Always(a, state) == TRUE

\* A recorded outcome clears the need unless it is too old for a pending confirmation.
Answers(a, state) == ~state.confirmationPending \/ Confirms(a, state)

Accepted(a, success) ==
    LET state == probeMembers[a.tag]
    IN [probeMembers EXCEPT ![a.tag] =
          [membershipID |-> state.membershipID,
           need |-> IF Answers(a, state) THEN NotNeeded ELSE state.need,
           confirmationPending |-> state.confirmationPending /\ ~Confirms(a, state),
           confirmSequence |-> state.confirmSequence,
           outcome |-> [sequence |-> probeSequence + 1, success |-> success, age |-> Fresh,
                        generation |-> a.generation, url |-> a.url]]]

Stuck(o) == o \in DOMAIN inFlightProbes /\ inFlightProbes[o].stuck

\* finishProbeLocked followed by the dispatch, the attempt left as inFlight says.
FinishProbe(o, success, inFlight) ==
    LET a == inFlightProbes[o]
    IN /\ UNCHANGED <<tags, members, nextMembershipID, networkVars, pauseVars, lifeVars>>
       /\ DispatchProbes(IF Records(o) THEN Accepted(a, success) ELSE probeMembers,
                         inFlight,
                         IF a.holdsSlot THEN probeSlotsUsed - 1 ELSE probeSlotsUsed,
                         IF Records(o) THEN probeSequence + 1 ELSE probeSequence)

Overdue_KeepsSlot(a) == [a EXCEPT !.finalized = TRUE, !.stuck = TRUE]

Overdue(a) == [a EXCEPT !.finalized = TRUE, !.stuck = TRUE, !.holdsSlot = FALSE]

\* The watchdog: the operation has not returned by probeBound.
TimeoutProbe(o) ==
    /\ o \in DOMAIN inFlightProbes
    /\ ~inFlightProbes[o].stuck
    /\ FinishProbe(o, FALSE, [inFlightProbes EXCEPT ![o] = Overdue(@)])

\* completeProbe: the operation returned.  One that returns past its deadline before the
\* watchdog ran is recorded as a failure, whatever it returned.
CompleteProbe(o, success) ==
    /\ o \in DOMAIN inFlightProbes
    /\ FinishProbe(o, success, Without(inFlightProbes, o))

(***************************************************************************)
(* Lifecycle and membership.                                               *)
(***************************************************************************)
\* addMemberLocked for several tags at once.
Joining(who) ==
    LET rank(t) == Cardinality({u \in who : Position(u) <= Position(t)})
        states == [t \in who |->
                     [membershipID |-> nextMembershipID + rank(t), need |-> NotNeeded,
                      confirmationPending |-> FALSE, confirmSequence |-> 0,
                      outcome |-> NoOutcome]]
    IN Merged(states, probeMembers)

Listed == {tags[i] : i \in DOMAIN tags}
ObjectsFor(who) == {f \in [who -> Objects] : \A t \in who : TagOf[f[t]] = t}

\* start: all configured tags or none.
Start ==
    /\ ~started /\ DOMAIN members = {} /\ ~closed /\ nextMembershipID = 0
    /\ Listed # {}
    /\ UNCHANGED <<tags, inFlightProbes, probeSlotsUsed, probeSequence, networkVars, pauseVars,
                   lifeVars>>
    /\ \E object \in ObjectsFor(Listed) : members' = object
    /\ probeMembers' = Joining(Listed)
    /\ nextMembershipID' = Cardinality(Listed)

PostStart ==
    /\ ~started /\ ~closed
    /\ started' = TRUE
    /\ UNCHANGED <<tags, members, nextMembershipID, networkVars, pauseVars, closed,
                   probing>>
    /\ DispatchNeeds(Requested(probeMembers, Tags, IfStale))

\* cancelProbesLocked
Cancelled(who) == [o \in DOMAIN inFlightProbes |->
                      IF o \in who THEN [inFlightProbes[o] EXCEPT !.finalized = TRUE]
                                   ELSE inFlightProbes[o]]

\* Close cancels the context before it takes s.access; from then on no attempt is valid, so
\* that cancelling them follows in the same action.
Close ==
    /\ ~closed
    /\ closed' = TRUE
    /\ inFlightProbes' = Cancelled(Objects)
    /\ UNCHANGED <<tags, members, probeMembers, nextMembershipID, probeSlotsUsed, probeSequence,
                   networkVars, pauseVars, started, probing>>

Add(t, o) ==
    /\ ~closed /\ t \notin DOMAIN members /\ TagOf[o] = t
    /\ nextMembershipID < MaxMembership /\ probeSequence < MaxSequence
    /\ tags' = IF t \in Listed THEN tags ELSE Append(tags, t)
    /\ members' = Merged([u \in {t} |-> o], members)
    /\ nextMembershipID' = nextMembershipID + 1
    /\ UNCHANGED <<networkVars, pauseVars, lifeVars>>
    /\ \E joined \in {Joining({t})} : DispatchNeeds(Requested(joined, {t}, IfStale))

DroppedState(t) == Without(probeMembers, t)

\* s.tags without t; no tag is listed twice.
Delisted(t) ==
    IF t \notin Listed THEN tags
    ELSE LET i == CHOOSE i \in DOMAIN tags : tags[i] = t
         IN [j \in 1 .. Len(tags) - 1 |-> IF j < i THEN tags[j] ELSE tags[j + 1]]

Remove(t) ==
    /\ ~closed /\ t \in DOMAIN members
    /\ tags' = Delisted(t)
    /\ members' = Without(members, t)
    /\ urls' = [urls EXCEPT ![t] = DefaultUrl]
    /\ UNCHANGED <<nextMembershipID, networkGeneration, pauseVars, lifeVars>>
    /\ DispatchProbes(DroppedState(t), Cancelled({members[t]}), probeSlotsUsed, probeSequence)

\* One changed override at a time; a call that changes none only dispatches.
SetURLOverrides(t, u) ==
    /\ u # urls[t] /\ probeSequence < MaxSequence
    /\ urls' = [urls EXCEPT ![t] = u]
    /\ UNCHANGED <<tags, members, nextMembershipID, networkGeneration, pauseVars, lifeVars>>
    /\ DispatchNeeds(Requested(probeMembers, {t}, Forced))

(***************************************************************************)
(* Requests for probes.                                                    *)
(***************************************************************************)
\* CheckOutbounds; also what runProbeCycle requests.
CheckOutbounds ==
    /\ probeSequence < MaxSequence
    /\ UNCHANGED <<tags, members, nextMembershipID, networkVars, pauseVars, lifeVars>>
    /\ DispatchNeeds(Requested(probeMembers, Tags, IfStale))

\* What runLadder requests.
ForceProbes ==
    /\ ~closed /\ pausedBy = {} /\ probeSequence < MaxSequence
    /\ UNCHANGED <<tags, members, nextMembershipID, networkVars, pauseVars, lifeVars>>
    /\ DispatchNeeds(Requested(probeMembers, Tags, Forced))

\* URLTest first adopts listed tags that are not members yet and are now registered.
URLTest ==
    /\ probeSequence < MaxSequence
    /\ \E who \in SUBSET (Listed \ DOMAIN members) :
          \E object \in ObjectsFor(who) :
             /\ nextMembershipID' = nextMembershipID + Cardinality(who)
             /\ nextMembershipID' <= MaxMembership
             /\ members' = Merged(object, members)
             /\ UNCHANGED <<tags, networkVars, pauseVars, lifeVars>>
             /\ \E joined \in {Joining(who)} : DispatchNeeds(Requested(joined, Tags, Forced))

\* keepAliveLocked, which every primary dial and listen calls.
KeepAlive ==
    /\ started /\ ~closed /\ ~probing
    /\ probeSequence < MaxSequence
    /\ probing' = TRUE
    /\ UNCHANGED <<tags, members, nextMembershipID, networkVars, pauseVars, closed, started>>
    /\ DispatchNeeds(Requested(probeMembers, Tags, IfStale))

\* The idle timer.
StopProbing ==
    /\ probing /\ ~closed
    /\ probing' = FALSE
    /\ UNCHANGED <<schedulerVars, networkVars, pauseVars, closed, started>>

\* requestFailureConfirmation: a repeated request keeps the pending boundary.
RequestFailureConfirmation(t) ==
    /\ ~closed /\ pausedBy = {}
    /\ t \in DOMAIN members \ Excluded
    /\ probeSequence < MaxSequence
    /\ UNCHANGED <<tags, members, nextMembershipID, networkVars, pauseVars, lifeVars>>
    /\ LET repeated == probeMembers[t].confirmationPending
           sequence == IF repeated THEN probeSequence ELSE probeSequence + 1
           asked == [probeMembers[t] EXCEPT
                        !.need = Forced, !.confirmationPending = TRUE,
                        !.confirmSequence = IF repeated THEN @ ELSE sequence]
       IN DispatchProbes([probeMembers EXCEPT ![t] = asked], inFlightProbes, probeSlotsUsed,
                         sequence)

(***************************************************************************)
(* Pause, network changes and time.                                        *)
(***************************************************************************)
\* The pause manager changes its state and then, still holding its lock, calls onProbePause.
PauseManagerPauses(source) ==
    /\ pauseEvent = "none" /\ source \notin pausedBy /\ pauseEpoch < MaxPauseEpoch /\ ~closed
    /\ pausedBy' = pausedBy \cup {source}
    /\ pauseEvent' = "pause"
    /\ UNCHANGED <<schedulerVars, networkVars, pauseEpoch, lifeVars>>

PauseManagerWakes(source) ==
    /\ pauseEvent = "none" /\ source \in pausedBy
    /\ pausedBy' = pausedBy \ {source}
    /\ pauseEvent' = "wake"
    /\ UNCHANGED <<schedulerVars, networkVars, pauseEpoch, lifeVars>>

\* onProbePause
OnPause ==
    /\ pauseEvent = "pause"
    /\ pauseEvent' = "none"
    /\ UNCHANGED <<tags, members, probeMembers, nextMembershipID, probeSlotsUsed, probeSequence,
                   networkVars, pausedBy, lifeVars>>
    /\ IF closed
       THEN UNCHANGED <<pauseEpoch, inFlightProbes>>
       ELSE /\ pauseEpoch' = pauseEpoch + 1
            /\ inFlightProbes' = Cancelled(Objects)

OnWake ==
    /\ pauseEvent = "wake"
    /\ pauseEvent' = "none"
    /\ UNCHANGED <<tags, members, nextMembershipID, networkVars, pausedBy, pauseEpoch, lifeVars>>
    /\ DispatchNeeds(probeMembers)

OrdinaryAttempts_None == {}

OrdinaryAttempts == {o \in DOMAIN inFlightProbes : inFlightProbes[o].tag \notin LastResort}

\* InterfaceUpdated: advanceNetworkLocked cancels the ordinary attempts, forgets pending
\* confirmations and forces the ordinary members while probing, and those a URLTest waits for.
InterfaceUpdated(awaited) ==
    /\ ~closed /\ networkGeneration < MaxGeneration
    /\ networkGeneration' = networkGeneration + 1
    /\ UNCHANGED <<tags, members, nextMembershipID, urls, pauseVars, lifeVars>>
    /\ LET calm == [t \in DOMAIN probeMembers |->
                       [probeMembers[t] EXCEPT !.confirmationPending = FALSE]]
           forced == (IF probing THEN Tags ELSE awaited) \ LastResort
       IN DispatchProbes(Requested(calm, forced, Forced),
                         Cancelled(OrdinaryAttempts), probeSlotsUsed, probeSequence)

OutcomeAges(t) ==
    /\ ~closed /\ t \in DOMAIN members
    /\ probeMembers[t].outcome.sequence > 0 /\ probeMembers[t].outcome.age < MaxAge
    /\ probeMembers' = [probeMembers EXCEPT ![t].outcome.age = @ + 1]
    /\ UNCHANGED <<tags, members, nextMembershipID, inFlightProbes, probeSlotsUsed, probeSequence,
                   networkVars, pauseVars, lifeVars>>

ProbeStep ==
    \/ \E o \in Objects : TimeoutProbe(o)
    \/ \E o \in Objects, success \in BOOLEAN : CompleteProbe(o, success)

Operation ==
    \/ Start
    \/ PostStart
    \/ Close
    \/ \E t \in Tags, o \in Objects : Add(t, o)
    \/ \E t \in Tags : Remove(t)
    \/ \E t \in Tags, u \in Urls : SetURLOverrides(t, u)
    \/ CheckOutbounds
    \/ ForceProbes
    \/ URLTest
    \/ KeepAlive
    \/ \E t \in Tags : RequestFailureConfirmation(t)

Surroundings ==
    \/ StopProbing
    \/ \E source \in PauseSources : PauseManagerPauses(source) \/ PauseManagerWakes(source)
    \/ OnPause
    \/ OnWake
    \/ \E awaited \in SUBSET Tags : InterfaceUpdated(awaited)
    \/ \E t \in Tags : OutcomeAges(t)

Next == ProbeStep \/ Operation \/ Surroundings

Spec == Init /\ [][Next]_vars

(***************************************************************************)
(* Properties.                                                             *)
(***************************************************************************)
HoldingSlots == {o \in DOMAIN inFlightProbes : inFlightProbes[o].holdsSlot}

\* probeSlotsUsed counts exactly the operations that still hold a slot and never exceeds the
\* limit, through cancellation, watchdog and late return in any order: no slot leaks and none
\* is freed twice (scheduler comment, lines 16-20; releaseProbeSlotLocked).
SlotsAccounted == probeSlotsUsed = Cardinality(HoldingSlots) /\ probeSlotsUsed <= Limit

\* No request is forgotten: while the group is open and awake, a member that needs a probe has
\* its object busy or waits for a slot that is really taken.  Every operation that frees an
\* object or a slot, or raises a need, has to dispatch for this to hold.
NoForgottenNeed ==
    ~closed /\ pausedBy = {} /\ pauseEvent = "none" =>
        \A t \in DOMAIN members :
            probeMembers[t].need # NotNeeded =>
                \/ members[t] \in DOMAIN inFlightProbes
                \/ /\ t \notin LastResort /\ ~probeMembers[t].confirmationPending
                   /\ probeSlotsUsed >= Limit

\* An attempt that may still record belongs to the present: its tag is a member through the very
\* object and membership it was started for, on the current network unless it is a last resort,
\* and nothing is paused.  Removal, re-addition, network change and pause each cancel first.
LiveAttemptIsCurrent ==
    \A o \in DOMAIN inFlightProbes :
        LET a == inFlightProbes[o]
        IN ~a.finalized =>
              /\ a.tag \in DOMAIN members /\ members[a.tag] = o
              /\ probeMembers[a.tag].membershipID = a.membershipID
              /\ a.tag \in LastResort \/ a.generation = networkGeneration
              /\ ~closed /\ pauseEvent = "none" => pausedBy = {}

\* A pending confirmation keeps its member's probe forced, so an older attempt that finishes in
\* between cannot leave it waiting for an attempt nobody starts (acceptProbeLocked).
ConfirmationStaysNeeded ==
    \A t \in DOMAIN members :
        probeMembers[t].confirmationPending => probeMembers[t].need = Forced

SameMembership(t) ==
    /\ t \in DOMAIN members /\ t \in DOMAIN members'
    /\ probeMembers'[t].membershipID = probeMembers[t].membershipID

\* A need is lowered only by an answer: an outcome recorded in that step or, for a need that
\* accepts one, a fresh outcome.  Cancellation keeps the need (scheduler comment, line 27).
NeedsAreAnswered ==
    [][\A t \in Tags :
          SameMembership(t) /\ probeMembers'[t].need < probeMembers[t].need =>
              \/ probeMembers'[t].outcome.sequence > probeMembers[t].outcome.sequence
              \/ probeMembers[t].need = IfStale /\ HasFreshOutcome(t, probeMembers'[t])]_vars

\* A requested confirmation is decided, unless the group closes, pauses or changes network or
\* the member leaves: requests that keep arriving do not push the decision away.
ConfirmationIsDecided ==
    \A t \in Tags :
        (t \in DOMAIN members /\ probeMembers[t].confirmationPending)
            ~> (closed \/ pausedBy # {} \/ t \notin DOMAIN members
                \/ ~probeMembers[t].confirmationPending)

\* Nothing that was asked for is given up: every need is served as soon as it can be, and the need
\* of a confirmation lasts until an attempt that may decide it has ended.
NeedsAreKept == NoForgottenNeed /\ ConfirmationStaysNeeded
=============================================================================
