------------------------------- MODULE Ranking -------------------------------
(***************************************************************************)
(* How a MutableAutoSelect ranks and picks its members                     *)
(* (protocol/group/mutableautoselect.go: rankLocked, splitHealthyForLocked,*)
(* applyStickiness, selectOutbound, hydrateHistoryLocked;                  *)
(* mutableautoselect_history.go; adapter/autoselect_history.go).           *)
(*                                                                         *)
(* FailureSwitch lets a dial pick some member of the pool and has the      *)
(* scheduler behind a probe's outcome; here outcomes come in any order and *)
(* the pick is what the code computes.  Every mutation of a history is     *)
(* stored at once, and a group that starts over the same storage takes     *)
(* its members' histories from there.  Times are kept as ages.             *)
(***************************************************************************)
EXTENDS Integers, FiniteSets, Sequences

LOCAL INSTANCE TLC
LOCAL INSTANCE FiniteSetsExt
LOCAL INSTANCE SequencesExt

CONSTANTS
    Networks,
    Carries,          \* member -> networks it supports; types kept out of the pool are left out
    LastResorts,      \* members used only when no other is left
    Delays,           \* probe delays
    Stored,           \* member -> snapshots the host may have restored for it
    FailLimit,        \* consecutiveFailLimit
    SoftLimit,        \* softFailLimit
    FailureWindow,    \* userFailureWindow
    Dedupe,           \* userFailureDedupeWindow
    GateMin,          \* recoveryGateMinDuration
    MaxPersistedAge,
    Tolerance,        \* switchTolerance
    TolerancePercent, \* switchTolerancePercent
    MaxEvents         \* bound on outcomes, failures, changes and ticks

Members == DOMAIN Carries
AltFactor == 3 \* switchPenaltyAltFactor
NoMember == 0
NoGate == -1

ASSUME RankingAssumption ==
    /\ \A t \in Members : t \in Nat \ {0} /\ Carries[t] \subseteq Networks
    /\ LastResorts \subseteq Members
    /\ Delays \subseteq Nat \ {0}
    /\ {FailLimit, SoftLimit, Dedupe, GateMin, Tolerance} \subseteq Nat \ {0}
    /\ Dedupe <= FailureWindow /\ FailureWindow \in Nat
    /\ MaxPersistedAge \in Nat /\ TolerancePercent \in Nat /\ MaxEvents \in Nat

VARIABLES
    tags,      \* s.tags: the members in the order they registered
    histories, \* member -> its localHistory; known: there is one
    store,     \* member -> its snapshot in the storage; known: there is one
    stuck,     \* members whose probe the watchdog has given up while it still runs
    stickyTag, \* network -> its selection
    events     \* bound

rankVars == <<tags, histories, store, stuck, stickyTag, events>>

\* fails: the ages of the user failures inside the window.
NoHistory == [known |-> FALSE, delay |-> 0, consec |-> 0, fails |-> {}, gate |-> NoGate]
NoSnapshot == [known |-> FALSE, delay |-> 0, consec |-> 0, fails |-> {}, age |-> 0]

(***************************************************************************)
(* The storage.                                                            *)
(***************************************************************************)
\* toTagHistory: what is stored of a history; the gate is not.
ToTagHistory(h) ==
    [known |-> TRUE, delay |-> h.delay, consec |-> h.consec, fails |-> h.fails, age |-> 0]

Hydrated_ForgetsStreak(s) ==
    IF s.known /\ s.age <= MaxPersistedAge
    THEN [known |-> TRUE, delay |-> s.delay, consec |-> 0, fails |-> s.fails, gate |-> NoGate]
    ELSE NoHistory

\* hydrateHistoryLocked: a snapshot that is too old is dropped.
Hydrated(s) ==
    IF s.known /\ s.age <= MaxPersistedAge
    THEN [known |-> TRUE, delay |-> s.delay, consec |-> s.consec, fails |-> s.fails, gate |-> NoGate]
    ELSE NoHistory

Kept(s) == IF s.age <= MaxPersistedAge THEN s ELSE NoSnapshot

RankInit ==
    /\ tags \in {SetToSortSeq(Members, <), <<>>}
    /\ \E s \in [Members -> UNION {Stored[t] : t \in Members}] :
          /\ \A t \in Members : s[t] \in Stored[t]
          /\ histories = [t \in Members |-> IF tags = <<>> THEN NoHistory ELSE Hydrated(s[t])]
          /\ store = [t \in Members |-> IF tags = <<>> THEN s[t] ELSE Kept(s[t])]
    /\ stuck = {}
    /\ stickyTag = [n \in Networks |-> NoMember]
    /\ events = 0

(***************************************************************************)
(* Ranking.                                                                *)
(***************************************************************************)
IsMember(t) == t \in ToSet(tags)

\* What is known of a member: its history, or else a snapshot that is not too old.
Pre(t) ==
    LET h == IF histories[t].known THEN histories[t] ELSE Hydrated(store[t])
    IN [tag |-> t, delay |-> h.delay, consec |-> h.consec, userFails |-> Cardinality(h.fails),
        lastResort |-> t \in LastResorts, gated |-> h.gate # NoGate]

Pres == [i \in DOMAIN tags |-> Pre(tags[i])]

\* One turn of the loop that finds min1 and min2.
TwoBest(best, p) ==
    IF p.delay = 0 \/ p.lastResort THEN best
    ELSE IF best[1] = 0 \/ p.delay < best[1] THEN <<p.delay, best[1]>>
    ELSE IF best[2] = 0 \/ p.delay < best[2] THEN <<best[1], p.delay>>
    ELSE best

\* What demoted is told of the alternatives: nothing if p is unmeasured or a last resort.
BestAlt(p, best) ==
    IF p.delay = 0 \/ p.lastResort THEN 0
    ELSE IF p.delay = best[1] THEN best[2] ELSE best[1]

\* demoted: a member much faster than the best alternative needs twice the evidence.
HardLimit(p, alt) == IF alt > p.delay * AltFactor THEN 2 * FailLimit ELSE FailLimit
Demoted(p, alt) == p.consec >= HardLimit(p, alt) \/ p.userFails >= HardLimit(p, alt)

Clean == 0
Soft == 1
LastResort == 2
Hard == 3

Level(p, alt) ==
    IF Demoted(p, alt) \/ p.tag \in stuck THEN Hard
    ELSE IF p.lastResort THEN LastResort
    ELSE IF p.userFails >= SoftLimit THEN Soft
    ELSE Clean

Position(t) == CHOOSE i \in DOMAIN tags : tags[i] = t

\* The order of rankLocked: stable, so the last resort is the order of registration.
Before(a, b) ==
    IF a.demote # b.demote THEN a.demote < b.demote
    ELSE IF a.lastResort # b.lastResort THEN b.lastResort
    ELSE IF (a.delay = 0) # (b.delay = 0) THEN b.delay = 0
    ELSE IF a.delay # b.delay THEN a.delay < b.delay
    ELSE Position(a.tag) < Position(b.tag)

RankLocked ==
    LET best == FoldLeft(TwoBest, <<0, 0>>, Pres)
        ranked(p) == [tag |-> p.tag, delay |-> p.delay, demote |-> Level(p, BestAlt(p, best)),
                      userFails |-> p.userFails, lastResort |-> p.lastResort, gated |-> p.gated]
    IN SortSeq([i \in DOMAIN tags |-> ranked(Pre(tags[i]))], Before)

SupportedIn(seq, network) == SelectSeq(seq, LAMBDA c : network \in Carries[c.tag])

\* Gated members are left out unless nobody else is usable and one of them is.
SkipsGated(out) ==
    LET usable(gated) == \E i \in DOMAIN out : out[i].gated = gated /\ out[i].demote < Hard
    IN usable(FALSE) \/ ((\E i \in DOMAIN out : ~out[i].gated) /\ ~usable(TRUE))

\* forNetwork of splitHealthyForLocked.
ForNetwork(ranked, network) ==
    LET out == SupportedIn(ranked, network)
    IN IF SkipsGated(out) THEN SelectSeq(out, LAMBDA c : ~c.gated) ELSE out

\* pool: the slice of the sorted candidates that is the cleanest tier.
PoolOf(out) ==
    LET count(level) == Cardinality({i \in DOMAIN out : out[i].demote = level})
        clean == count(Clean)
        soft == count(Soft)
        last == count(LastResort)
    IN IF clean > 0 THEN SubSeq(out, 1, clean)
       ELSE IF soft > 0 THEN SubSeq(out, clean + 1, clean + soft)
       ELSE IF last > 0 THEN SubSeq(out, clean + soft + 1, clean + soft + last)
       ELSE out

BeatsOnDelay(candidate, sticky) ==
    /\ candidate < sticky
    /\ sticky - candidate >= Tolerance
    /\ (sticky - candidate) * 100 >= sticky * TolerancePercent

\* applyStickiness: what makes selection leave the candidate c for best.
Releases(c, best) ==
    \/ (c.delay = 0) # (best.delay = 0)
    \/ c.demote = Hard /\ best.demote < Hard
    \/ c.lastResort /\ ~best.lastResort /\ best.demote <= c.demote
    \/ c.demote > best.demote /\ c.userFails > SoftLimit
    \/ BeatsOnDelay(best.delay, c.delay)

ApplyStickiness(sticky, best, out) ==
    LET held == {i \in DOMAIN out : out[i].tag = sticky}
    IN IF held = {} THEN best
       ELSE LET c == out[CHOOSE i \in held : TRUE] IN IF Releases(c, best) THEN best ELSE c

\* selectOutbound without a tag to exclude: the candidates it would return, one or none.
Winner(ranked, network) ==
    LET out == ForNetwork(ranked, network)
    IN IF out = <<>> THEN {}
       ELSE {ApplyStickiness(stickyTag[network], PoolOf(out)[1], out)}

\* A regular member that is not hard-demoted, the excluded one too, spares the last resort.
SparesLastResort(ranked, network, exclude) ==
    \E i \in DOMAIN ranked : ranked[i].demote < LastResort /\ network \in Carries[ranked[i].tag]

\* selectOutbound with a tag to exclude: the alternate of a failed dial, one or none.
Alternate(ranked, network, exclude) ==
    LET left == SelectSeq(ranked, LAMBDA c :
                    c.tag # exclude /\ ~(c.lastResort /\ SparesLastResort(ranked, network, exclude)))
        out == ForNetwork(left, network)
    IN IF out = <<>> THEN {} ELSE {PoolOf(out)[1]}

(***************************************************************************)
(* Actions.                                                                *)
(***************************************************************************)
Event == events < MaxEvents /\ events' = events + 1

\* mutateHistoryLocked: the history, and its snapshot with it.
Mutates(t, h) ==
    /\ histories' = [histories EXCEPT ![t] = h]
    /\ store' = [store EXCEPT ![t] = ToTagHistory(h)]

\* recordProbeSuccess: a gate that is old enough is lifted.
ProbeSucceeds(t, d) ==
    LET h == histories[t]
    IN /\ IsMember(t) /\ Event
       /\ Mutates(t, [h EXCEPT !.known = TRUE, !.delay = d, !.consec = 0,
                               !.gate = IF @ >= GateMin THEN NoGate ELSE @])
       /\ UNCHANGED <<tags, stuck, stickyTag>>

\* recordProbeFailure, counted up to the highest limit.
Failed(h) == [h EXCEPT !.known = TRUE, !.consec = Min({@ + 1, 2 * FailLimit})]

ProbeFails(t) ==
    /\ IsMember(t) /\ Event
    /\ Mutates(t, Failed(histories[t]))
    /\ UNCHANGED <<tags, stuck, stickyTag>>

\* eligibleReplacementLocked
Eligible(t) ==
    /\ IsMember(t) /\ t \notin stuck
    /\ histories[t].known /\ histories[t].delay > 0
    /\ histories[t].consec = 0 /\ histories[t].gate = NoGate

\* findProbedReplacementLocked, among the members other than failed.
Replacement(failed) ==
    LET out == ForNetwork(SelectSeq(RankLocked, LAMBDA c : c.tag # failed), "tcp")
        good == SelectSeq(IF out = <<>> THEN out ELSE PoolOf(out), LAMBDA c : Eligible(c.tag))
    IN IF good = <<>> THEN {} ELSE {good[1].tag}

\* A failing confirmation of the selected member: recorded, and unless a recent switch defers it
\* selection moves to the alternate the report named, if eligible, or to the best replacement.
ConfirmationFails(t, named) ==
    LET h == Failed(histories[t])
    IN /\ IsMember(t) /\ stickyTag["tcp"] = t /\ Event
       /\ \E r \in IF named # NoMember /\ Eligible(named) THEN {named} ELSE Replacement(t) :
             /\ stickyTag' = [stickyTag EXCEPT !["tcp"] = r]
             /\ histories' = [histories EXCEPT ![t] = [h EXCEPT !.gate = 0]]
             /\ store' = [store EXCEPT ![t] = ToTagHistory(h)]
       /\ UNCHANGED <<tags, stuck>>

\* addUserFailure: a burst counts once.
IsNew(h) == \A age \in h.fails : age >= Dedupe

\* recordUserFailure: a dial that failed, or a data-plane failure.
UserFails(t) ==
    LET h == histories[t]
    IN /\ IsMember(t) /\ IsNew(h) /\ Event
       /\ Mutates(t, [h EXCEPT !.known = TRUE, !.fails = @ \cup {0}])
       /\ UNCHANGED <<tags, stuck, stickyTag>>

Dial(network) ==
    /\ Event
    /\ \E c \in Winner(RankLocked, network) : stickyTag' = [stickyTag EXCEPT ![network] = c.tag]
    /\ UNCHANGED <<tags, histories, store, stuck>>

\* The watchdog gives up a probe of t, or the probe returns at last.
ProbeSticks(t) ==
    /\ IsMember(t) /\ Event
    /\ stuck' = IF t \in stuck THEN stuck \ {t} ELSE stuck \cup {t}
    /\ UNCHANGED <<tags, histories, store, stickyTag>>

RankRemove(t) ==
    /\ IsMember(t) /\ Event
    /\ tags' = SelectSeq(tags, LAMBDA u : u # t)
    /\ histories' = [histories EXCEPT ![t] = NoHistory]
    /\ store' = [store EXCEPT ![t] = NoSnapshot]
    /\ stuck' = stuck \ {t}
    /\ stickyTag' = [n \in Networks |-> IF stickyTag[n] = t THEN NoMember ELSE stickyTag[n]]

RankAdd(t) ==
    /\ ~IsMember(t) /\ Event
    /\ tags' = Append(tags, t)
    /\ histories' = [histories EXCEPT ![t] = Hydrated(store[t])]
    /\ store' = [store EXCEPT ![t] = Kept(@)]
    /\ UNCHANGED <<stuck, stickyTag>>

\* The group is closed and another one starts with the same members and storage.
Restart ==
    /\ Event
    /\ histories' = [t \in Members |-> IF IsMember(t) THEN Hydrated(store[t]) ELSE NoHistory]
    /\ store' = [t \in Members |-> IF IsMember(t) THEN Kept(store[t]) ELSE store[t]]
    /\ stuck' = {}
    /\ stickyTag' = [n \in Networks |-> NoMember]
    /\ UNCHANGED tags

\* pruneUserFailures, ageWithin: a failure as old as the window no longer counts.
Older(ages) == {a + 1 : a \in ages} \cap 0..(FailureWindow - 1)

HistoriesAge ==
    /\ Event
    /\ histories' = [t \in Members |-> [histories[t] EXCEPT !.fails = Older(@),
                        !.gate = IF @ = NoGate THEN @ ELSE Min({@ + 1, GateMin})]]
    /\ store' = [t \in Members |-> [store[t] EXCEPT !.fails = Older(@),
                        !.age = IF store[t].known THEN Min({@ + 1, MaxPersistedAge + 1}) ELSE @]]
    /\ UNCHANGED <<tags, stuck, stickyTag>>

RankNext ==
    \/ \E t \in Members :
          \/ \E d \in Delays : ProbeSucceeds(t, d)
          \/ ProbeFails(t) \/ UserFails(t) \/ ProbeSticks(t) \/ RankRemove(t) \/ RankAdd(t)
          \/ \E named \in Members \cup {NoMember} : ConfirmationFails(t, named)
    \/ \E n \in Networks : Dial(n)
    \/ Restart \/ HistoriesAge

RankSpec == RankInit /\ [][RankNext]_rankVars

(***************************************************************************)
(* Properties.                                                             *)
(***************************************************************************)
Candidates(ranked, network) == ToSet(SupportedIn(ranked, network))

\* Whatever member selection sticks to and whoever is gated, a dial goes to a hard-demoted member
\* only if every member that carries the network is hard-demoted (selectOutbound).
NoFailingWinner ==
    LET ranked == RankLocked IN
    \A n \in Networks : \A w \in Winner(ranked, n) :
        w.demote = Hard => \A c \in Candidates(ranked, n) : c.demote = Hard

\* A member that a confirmed failure has gated is dialed only if nobody ungated is usable, and
\* then only if it is usable itself or there is no other kind (splitHealthyForLocked).
GateHolds ==
    LET ranked == RankLocked IN
    \A n \in Networks : \A w \in Winner(ranked, n) :
        w.gated => \A c \in Candidates(ranked, n) : ~c.gated => c.demote = Hard /\ w.demote < Hard

\* The last resort is dialed only when every ungated regular member is hard-demoted, and as the
\* alternate of a failed dial only when every regular one is, the failed one included.
LastResortIsLast ==
    LET ranked == RankLocked IN
    \A n \in Networks :
        /\ \A w \in Winner(ranked, n) : w.lastResort =>
              \A c \in Candidates(ranked, n) : ~c.lastResort /\ ~c.gated => c.demote = Hard
        /\ \A x \in ToSet(tags) : \A a \in Alternate(ranked, n, x) : a.lastResort =>
              \A c \in Candidates(ranked, n) : ~c.lastResort => c.demote = Hard

\* Selection leaves a member that is as good in kind (same tier, both measured, neither gated) only
\* for one that is faster by the tolerance and by its share of the delay: members with similar
\* delays do not take turns (applyStickiness).
SwitchIsEarned ==
    LET ranked == RankLocked IN
    \A n \in Networks : \A w \in Winner(ranked, n) : \A c \in Candidates(ranked, n) :
        /\ c.tag = stickyTag[n] /\ w.tag # c.tag
        /\ c.demote = w.demote /\ c.gated = w.gated /\ c.lastResort = w.lastResort
        /\ (c.delay = 0) = (w.delay = 0)
        => c.delay - w.delay >= Tolerance /\ (c.delay - w.delay) * 100 >= c.delay * TolerancePercent

\* Whether failures demote a member hard depends on the best of the others, whatever the order they
\* registered in: if the fastest other measured regular member is more than three times slower it
\* takes twice as many (rankLocked's two minima).
BoostSeesBestOther ==
    LET ranked == RankLocked
        pres == {Pre(t) : t \in ToSet(tags)}
    IN \A p \in pres :
        LET others == {q.delay : q \in {r \in pres \ {p} : r.delay > 0 /\ ~r.lastResort}}
            boosted == /\ p.delay > 0 /\ ~p.lastResort /\ others # {}
                       /\ Min(others) > p.delay * AltFactor
            limit == IF boosted THEN 2 * FailLimit ELSE FailLimit
            rank == CHOOSE c \in ToSet(ranked) : c.tag = p.tag
        IN rank.demote = Hard <=> \/ p.tag \in stuck
                                  \/ p.consec >= limit \/ p.userFails >= limit

\* A burst of failing connections counts once: recorded failures are at least the dedupe window
\* apart, across kinds of failure and restarts.
BurstsCountOnce ==
    \A t \in Members : \A a, b \in histories[t].fails :
        a # b => a - b >= Dedupe \/ b - a >= Dedupe

\* A group that starts over the storage ranks every member as the one before it did, unless its
\* snapshot has grown too old; only recovery gates and stuck probes are forgotten.
RestartKeepsRanking ==
    [][Restart => \A t \in ToSet(tags) :
          store[t].age <= MaxPersistedAge => Pre(t)' = [Pre(t) EXCEPT !.gated = FALSE]]_rankVars

\* Traffic goes where the evidence says, and the evidence is counted once and outlives the process.
RankingIsSound ==
    /\ [](/\ NoFailingWinner /\ GateHolds /\ LastResortIsLast
          /\ SwitchIsEarned /\ BoostSeesBestOther /\ BurstsCountOnce)
    /\ RestartKeepsRanking
=============================================================================
