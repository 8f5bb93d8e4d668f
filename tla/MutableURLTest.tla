--------------------------- MODULE MutableURLTest ---------------------------
(***************************************************************************)
(* The URL-test group (protocol/group/mutableurltest.go): members tested   *)
(* together or, after a replacement, on their own, the history the tests   *)
(* leave, the selection made from it and the dials that use it.            *)
(*                                                                         *)
(* Steps are the critical sections of "selection".  Members are plain      *)
(* outbounds and the history is this group's own: a nested group, whose    *)
(* history is kept under another tag, is not modelled.  Delays are at      *)
(* least a millisecond.                                                    *)
(***************************************************************************)
EXTENDS Integers, FiniteSets

CONSTANTS
    Tags,
    Objects,       \* outbounds; a tag that is created again gets another one
    TagOf,
    Networks,
    Supports,      \* the networks each outbound supports
    Urls,
    DefaultUrl,
    Delays,
    Tolerance,
    Dials,         \* identities of concurrent dials
    MaxAttempts,   \* maxOutboundAttempts
    MaxOverrides,  \* bound on changes of URL overrides
    None

ASSUME URLTestAssumption ==
    /\ TagOf \in [Objects -> Tags] /\ Supports \in [Objects -> SUBSET Networks]
    /\ DefaultUrl \in Urls /\ Delays \subseteq Nat \ {0} /\ Tolerance \in Nat
    /\ None \notin Tags \cup Objects \cup Urls

VARIABLES
    manager,       \* external: the outbound registered under each tag
    created,       \* external: the outbounds there have been
    members,       \* g.outbounds and g.tags, a partial function
    overrides,     \* g.urlOverrides
    history,       \* of each tag; with the outbound and the URL that were tested
    awaiting,      \* g.awaitingProbe
    selected,      \* selectedOutboundTCP and selectedOutboundUDP
    checking,      \* g.checking
    todo,          \* tags the running test has not come to
    probes,        \* tests of one outbound in flight
    reselects,     \* replacements whose probe has landed and that have yet to update the selection
    dials,         \* dials in flight, a partial function
    started, closed,
    alive,         \* g.isAlive: a checkLoop runs
    pause,         \* g.pauseC holds a token or is closed
    changes        \* changes of URL overrides so far

urlVars == <<manager, created, members, overrides, history, awaiting, selected, checking, todo,
             probes, reselects, dials, started, closed, alive, pause, changes>>

Entry == [delay : Delays, object : Objects, url : Urls]
Probe == [tag : Tags, member : Objects, object : Objects, url : Urls,
          kind : {"test", "replacement"}]
Dial == [network : Networks, object : Objects, tried : SUBSET Tags,
         stage : {"dialing", "failed", "reselected"}]

URLTestTypeOK ==
    /\ manager \in [Tags -> Objects] /\ created \subseteq Objects
    /\ DOMAIN members \subseteq Tags /\ \A t \in DOMAIN members : members[t] \in Objects
    /\ overrides \in [Tags -> Urls \cup {None}]
    /\ \A t \in Tags : history[t] = None \/ history[t] \in Entry
    /\ awaiting \in [Tags -> Objects \cup {None}]
    /\ selected \in [Networks -> Objects \cup {None}]
    /\ todo \subseteq Tags /\ probes \subseteq Probe /\ reselects \subseteq Objects
    /\ \A d \in DOMAIN dials : dials[d] \in Dial
    /\ changes \in 0..MaxOverrides
    /\ {checking, started, closed, alive, pause} \subseteq BOOLEAN

UrlFor(t) == IF overrides[t] = None THEN DefaultUrl ELSE overrides[t]

\* newURLTestGroup and Start: every configured tag is resolved, and one is selected although there
\* is no history yet.  PostStart may have come already.
URLTestInit ==
    /\ \E initial \in SUBSET Tags :
          /\ initial # {}
          /\ \E objects \in [Tags -> Objects] :
                /\ \A t \in Tags : TagOf[objects[t]] = t
                /\ members = [t \in initial |-> objects[t]]
                /\ manager = objects
                /\ created = {objects[t] : t \in Tags}
    /\ overrides = [t \in Tags |-> None]
    /\ history = [t \in Tags |-> None]
    /\ awaiting = [t \in Tags |-> None]
    /\ \E choice \in [Networks -> Objects \cup {None}] :
          /\ \A n \in Networks :
                LET able == {o \in {members[t] : t \in DOMAIN members} : n \in Supports[o]}
                IN choice[n] \in IF able = {} THEN {None} ELSE able
          /\ selected = choice
    /\ checking = FALSE /\ todo = {} /\ probes = {} /\ reselects = {}
    /\ dials = [d \in {} |-> None]
    /\ started \in BOOLEAN /\ closed = FALSE /\ alive = FALSE /\ pause = FALSE
    /\ changes = 0

(***************************************************************************)
(* Selection.  The members are visited in no particular order, so what     *)
(* pickBestOutbound returns is one of a set.                               *)
(***************************************************************************)
Able(mem, n, excluded) ==
    {mem[t] : t \in {u \in DOMAIN mem \ excluded : n \in Supports[mem[u]]}}

Improves(hist, best, o) ==
    best = None \/ hist[TagOf[best]].delay > hist[TagOf[o]].delay + Tolerance

RECURSIVE Scan(_, _, _)
Scan(hist, best, left) ==
    IF left = {} THEN {best}
    ELSE UNION {Scan(hist, IF Improves(hist, best, o) THEN o ELSE best, left \ {o}) : o \in left}

PickBestOutbound(mem, hist, await, n, current, excluded) ==
    LET able == Able(mem, n, excluded)
        tested == {o \in able : hist[TagOf[o]] # None}
        others == able \ {current}
        keeps == current # None /\ TagOf[current] \notin excluded /\ n \in Supports[current]
        start == IF keeps /\ hist[TagOf[current]] # None THEN current ELSE None
        scanned == Scan(hist, start, tested)
    IN IF keeps /\ hist[TagOf[current]] = None /\ await[TagOf[current]] = current THEN {current}
       ELSE IF scanned # {None} THEN scanned
       ELSE IF others = {} THEN {None} ELSE others

\* updateSelectedLocked
Reselected(mem, hist, await) ==
    {sel \in [Networks -> Objects \cup {None}] :
        \A n \in Networks :
            sel[n] \in IF DOMAIN mem = {} THEN {None}
                       ELSE PickBestOutbound(mem, hist, await, n, selected[n], {})}

(***************************************************************************)
(* The outbound manager (external) and the operations on the group.        *)
(***************************************************************************)
\* The removal queue unregisters only what no group holds, and what comes back is created again.
ManagerCreates(o) ==
    /\ o \notin created
    /\ manager' = [manager EXCEPT ![TagOf[o]] = o]
    /\ created' = created \cup {o}
    /\ UNCHANGED <<members, overrides, history, awaiting, selected, checking, todo, probes,
                   reselects, dials, started, closed, alive, pause, changes>>

PostStart ==
    /\ ~started
    /\ started' = TRUE
    /\ UNCHANGED <<manager, created, members, overrides, history, awaiting, selected, checking, todo,
                   probes, reselects, dials, closed, alive, pause, changes>>

CloseGroup ==
    /\ ~closed
    /\ closed' = TRUE /\ pause' = TRUE
    /\ UNCHANGED <<manager, created, members, overrides, history, awaiting, selected, checking, todo,
                   probes, reselects, dials, started, alive, changes>>

AddMember(t) ==
    /\ ~closed /\ t \notin DOMAIN members
    /\ members' = [u \in DOMAIN members \cup {t} |-> IF u = t THEN manager[t] ELSE members[u]]
    /\ UNCHANGED <<manager, created, overrides, history, awaiting, selected, checking, todo, probes,
                   reselects, dials, started, closed, alive, pause, changes>>

RemoveMember(t) ==
    /\ ~closed /\ t \in DOMAIN members
    /\ members' = [u \in DOMAIN members \ {t} |-> members[u]]
    /\ overrides' = [overrides EXCEPT ![t] = None]
    /\ history' = [history EXCEPT ![t] = None]
    /\ awaiting' = [awaiting EXCEPT ![t] = None]
    /\ pause' = (pause \/ (alive /\ DOMAIN members' = {}))
    /\ selected' \in Reselected(members', history', awaiting')
    /\ UNCHANGED <<manager, created, checking, todo, probes, reselects, dials, started, closed,
                   alive, changes>>

\* replaceSelected, for a network whose selection was the replaced member.
ReplacedSelection(mem, hist, await, n, new) ==
    IF n \in Supports[new] THEN {new} ELSE PickBestOutbound(mem, hist, await, n, None, {})

ReplacementProbe(t, o) ==
    [tag |-> t, member |-> o, object |-> o, url |-> UrlFor(t), kind |-> "replacement"]

ReplaceMember(t) ==
    LET old == members[t]
        new == manager[t]
    IN /\ ~closed /\ t \in DOMAIN members /\ new # old
       /\ members' = [members EXCEPT ![t] = new]
       /\ history' = [history EXCEPT ![t] = None]
       /\ awaiting' = [awaiting EXCEPT ![t] = IF started THEN new ELSE None]
       /\ probes' = IF started THEN probes \cup {ReplacementProbe(t, new)} ELSE probes
       /\ selected' \in {sel \in [Networks -> Objects \cup {None}] :
             \A n \in Networks :
                 sel[n] \in IF selected[n] = old
                            THEN ReplacedSelection(members', history', awaiting', n, new)
                            ELSE {selected[n]}}
       /\ UNCHANGED <<manager, created, overrides, checking, todo, reselects, dials, started, closed,
                      alive, pause, changes>>

\* Also for a tag that is not a member.
SetURLOverride(t, u) ==
    /\ overrides[t] # u /\ changes < MaxOverrides
    /\ overrides' = [overrides EXCEPT ![t] = u]
    /\ history' = [history EXCEPT ![t] = None]
    /\ changes' = changes + 1
    /\ UNCHANGED <<manager, created, members, awaiting, selected, checking, todo, probes, reselects,
                   dials, started, closed, alive, pause>>

(***************************************************************************)
(* urlTest: started by checkLoop, a recovery, PostStart, a network change  *)
(* or a caller, so at any time.  It goes through the members with other    *)
(* operations in between.                                                  *)
(***************************************************************************)
UrlTestStarts ==
    /\ ~checking /\ DOMAIN members # {}
    /\ checking' = TRUE
    /\ todo' = DOMAIN members
    /\ UNCHANGED <<manager, created, members, overrides, history, awaiting, selected, probes,
                   reselects, dials, started, closed, alive, pause, changes>>

\* A member tested within the interval is skipped unless the test is forced.
UrlTestSkips(t) ==
    /\ t \in todo
    /\ t \notin DOMAIN members \/ history[t] # None
    /\ todo' = todo \ {t}
    /\ UNCHANGED <<manager, created, members, overrides, history, awaiting, selected, checking,
                   probes, reselects, dials, started, closed, alive, pause, changes>>

\* The outbound tested is the manager's, the result is the member's.
UrlTestVisits(t) ==
    /\ t \in todo \cap DOMAIN members
    /\ todo' = todo \ {t}
    /\ probes' = probes \cup {[tag |-> t, member |-> members[t], object |-> manager[t],
                               url |-> UrlFor(t), kind |-> "test"]}
    /\ UNCHANGED <<manager, created, members, overrides, history, awaiting, selected, checking,
                   reselects, dials, started, closed, alive, pause, changes>>

\* A delay, or none for an error; a closed group's context fails every test.
Results == IF closed THEN {None} ELSE Delays \cup {None}

Recorded(pr, delay) ==
    [history EXCEPT ![pr.tag] = IF delay = None THEN None
                                ELSE [delay |-> delay, object |-> pr.object, url |-> pr.url]]

StillMember(pr) == pr.tag \in DOMAIN members /\ members[pr.tag] = pr.member

TestReturns_AnyMember(pr, delay) ==
    /\ pr \in probes /\ pr.kind = "test" /\ delay \in Results
    /\ probes' = probes \ {pr}
    /\ history' = IF pr.tag \in DOMAIN members /\ UrlFor(pr.tag) = pr.url THEN Recorded(pr, delay)
                  ELSE history
    /\ UNCHANGED <<manager, created, members, overrides, awaiting, selected, checking, todo,
                   reselects, dials, started, closed, alive, pause, changes>>

TestReturns(pr, delay) ==
    /\ pr \in probes /\ pr.kind = "test" /\ delay \in Results
    /\ probes' = probes \ {pr}
    /\ history' = IF StillMember(pr) /\ UrlFor(pr.tag) = pr.url THEN Recorded(pr, delay) ELSE history
    /\ UNCHANGED <<manager, created, members, overrides, awaiting, selected, checking, todo,
                   reselects, dials, started, closed, alive, pause, changes>>

UrlTestEnds ==
    /\ checking /\ todo = {} /\ ~\E pr \in probes : pr.kind = "test"
    /\ checking' = FALSE
    /\ selected' \in Reselected(members, history, awaiting)
    /\ UNCHANGED <<manager, created, members, overrides, history, awaiting, todo, probes, reselects,
                   dials, started, closed, alive, pause, changes>>

(***************************************************************************)
(* probeReplacement                                                        *)
(***************************************************************************)
ReplacementProbed_NoReprobe(pr, delay) ==
    LET current == StillMember(pr)
        lands == current /\ UrlFor(pr.tag) = pr.url
    IN /\ pr \in probes /\ pr.kind = "replacement" /\ delay \in Results
       /\ probes' = probes \ {pr}
       /\ history' = IF lands THEN Recorded(pr, delay) ELSE history
       /\ awaiting' = IF lands /\ awaiting[pr.tag] = pr.member
                      THEN [awaiting EXCEPT ![pr.tag] = None] ELSE awaiting
       /\ reselects' = IF lands THEN reselects \cup {pr.member} ELSE reselects
       /\ UNCHANGED <<manager, created, members, overrides, selected, checking, todo, dials, started,
                      closed, alive, pause, changes>>

ReplacementProbed(pr, delay) ==
    LET current == StillMember(pr)
        lands == current /\ UrlFor(pr.tag) = pr.url
    IN /\ pr \in probes /\ pr.kind = "replacement" /\ delay \in Results
       /\ probes' = (probes \ {pr}) \cup
                    (IF current /\ ~lands THEN {ReplacementProbe(pr.tag, pr.member)} ELSE {})
       /\ history' = IF lands THEN Recorded(pr, delay) ELSE history
       /\ awaiting' = IF lands /\ awaiting[pr.tag] = pr.member
                      THEN [awaiting EXCEPT ![pr.tag] = None] ELSE awaiting
       /\ reselects' = IF lands THEN reselects \cup {pr.member} ELSE reselects
       /\ UNCHANGED <<manager, created, members, overrides, selected, checking, todo, dials, started,
                      closed, alive, pause, changes>>

ReplacementReselects(o) ==
    /\ o \in reselects
    /\ reselects' = reselects \ {o}
    /\ selected' \in Reselected(members, history, awaiting)
    /\ UNCHANGED <<manager, created, members, overrides, history, awaiting, checking, todo, probes,
                   dials, started, closed, alive, pause, changes>>

(***************************************************************************)
(* Dials: tryEachOutbound.                                                 *)
(***************************************************************************)
\* selectOutbound reads the selection without a lock; one already tried is passed over.
SelectOutbound(n, tried) ==
    IF selected[n] # None /\ TagOf[selected[n]] \notin tried THEN {selected[n]}
    ELSE PickBestOutbound(members, history, awaiting, n, None, tried)

\* keepAlive starts a loop, with a new pauseC, in a started group that has members and none running.
KeepAlive ==
    LET wakes == started /\ DOMAIN members # {} /\ ~alive
    IN alive' = (alive \/ wakes) /\ pause' = (pause /\ ~wakes)

DialStarts(d, n) ==
    /\ d \notin DOMAIN dials
    /\ KeepAlive
    /\ \E o \in SelectOutbound(n, {}) :
          dials' = IF o = None THEN dials
                   ELSE [x \in DOMAIN dials \cup {d} |->
                            IF x = d THEN [network |-> n, object |-> o, tried |-> {},
                                           stage |-> "dialing"]
                            ELSE dials[x]]
    /\ UNCHANGED <<manager, created, members, overrides, history, awaiting, selected, checking, todo,
                   probes, reselects, started, closed, changes>>

Ended(d) == [x \in DOMAIN dials \ {d} |-> dials[x]]

DialSucceeds(d) ==
    /\ d \in DOMAIN dials /\ dials[d].stage = "dialing"
    /\ dials' = Ended(d)
    /\ UNCHANGED <<manager, created, members, overrides, history, awaiting, selected, checking, todo,
                   probes, reselects, started, closed, alive, pause, changes>>

\* The first half of markFailedAndReselect, without selection: the tag's history goes whatever
\* outbound it describes now.
DialFails(d) ==
    LET o == dials[d].object
        t == TagOf[o]
    IN /\ d \in DOMAIN dials /\ dials[d].stage = "dialing"
       /\ awaiting' = IF awaiting[t] = o THEN [awaiting EXCEPT ![t] = None] ELSE awaiting
       /\ history' = [history EXCEPT ![t] = None]
       /\ dials' = [dials EXCEPT ![d].stage = "failed"]
       /\ UNCHANGED <<manager, created, members, overrides, selected, checking, todo, probes,
                      reselects, started, closed, alive, pause, changes>>

FailedReselects(d) ==
    /\ d \in DOMAIN dials /\ dials[d].stage = "failed"
    /\ selected' \in Reselected(members, history, awaiting)
    /\ dials' = [dials EXCEPT ![d].stage = "reselected",
                              ![d].tried = @ \cup {TagOf[dials[d].object]}]
    /\ UNCHANGED <<manager, created, members, overrides, history, awaiting, checking, todo, probes,
                   reselects, started, closed, alive, pause, changes>>

\* The next attempt, or the end: attempts used up, context done or nothing left to try.
DialRetries(d) ==
    /\ d \in DOMAIN dials /\ dials[d].stage = "reselected"
    /\ \/ dials' = Ended(d)
       \/ /\ Cardinality(dials[d].tried) < MaxAttempts
          /\ \E o \in SelectOutbound(dials[d].network, dials[d].tried) \ {None} :
                dials' = [dials EXCEPT ![d].object = o, ![d].stage = "dialing"]
    /\ UNCHANGED <<manager, created, members, overrides, history, awaiting, selected, checking, todo,
                   probes, reselects, started, closed, alive, pause, changes>>

\* onInterfaceUpdated; the forced test it starts is UrlTestStarts.
URLTestInterfaceUpdated ==
    /\ started /\ ~closed /\ DOMAIN members # {}
    /\ KeepAlive
    /\ UNCHANGED <<manager, created, members, overrides, history, awaiting, selected, checking, todo,
                   probes, reselects, dials, started, closed, changes>>

\* checkLoop returns on a token, when idle or when the group closes.
LoopEnds(idle) ==
    /\ alive /\ (pause \/ closed \/ idle)
    /\ alive' = FALSE /\ pause' = FALSE
    /\ UNCHANGED <<manager, created, members, overrides, history, awaiting, selected, checking, todo,
                   probes, reselects, dials, started, closed, changes>>

URLTestNext ==
    \/ \E o \in Objects : ManagerCreates(o) \/ ReplacementReselects(o)
    \/ \E t \in Tags : AddMember(t) \/ RemoveMember(t) \/ ReplaceMember(t)
    \/ \E t \in Tags : UrlTestSkips(t) \/ UrlTestVisits(t)
    \/ \E t \in Tags, u \in Urls : SetURLOverride(t, u)
    \/ PostStart \/ CloseGroup \/ UrlTestStarts \/ UrlTestEnds \/ URLTestInterfaceUpdated
    \/ \E pr \in probes, delay \in Delays \cup {None} :
          TestReturns(pr, delay) \/ ReplacementProbed(pr, delay)
    \/ \E d \in Dials, n \in Networks : DialStarts(d, n)
    \/ \E d \in Dials : DialSucceeds(d) \/ DialFails(d) \/ FailedReselects(d) \/ DialRetries(d)
    \/ \E idle \in BOOLEAN : LoopEnds(idle)

(***************************************************************************)
(* Properties                                                              *)
(***************************************************************************)

\* A tag has a history only while it is a member, the history is that of the URL the member is
\* tested with now, and it was measured on the member itself unless the tag has been created again
\* and Replace has yet to come: no late result survives a removal, replacement or override
\* (urlTest, probeReplacement, Replace, SetURLOverrides).
HistoryDescribesMember ==
    \A t \in Tags : history[t] # None =>
        /\ t \in DOMAIN members
        /\ history[t].url = UrlFor(t)
        /\ history[t].object = members[t] \/ manager[t] # members[t]

\* What is selected for a network is a member, the current outbound of its tag, and supports the
\* network (updateSelectedLocked, replaceSelected).
SelectionIsCurrent ==
    \A n \in Networks : selected[n] # None =>
        /\ TagOf[selected[n]] \in DOMAIN members /\ members[TagOf[selected[n]]] = selected[n]
        /\ n \in Supports[selected[n]]

\* Whatever order the members are visited in, the pick is within the tolerance of every tested
\* member (pickBestOutbound).
PickIsWithinTolerance ==
    \A n \in Networks : \A o \in PickBestOutbound(members, history, awaiting, n, None, {}) :
        o # None /\ history[TagOf[o]] # None =>
            \A other \in Able(members, n, {}) :
                history[TagOf[other]] # None =>
                    history[TagOf[o]].delay <= history[TagOf[other]].delay + Tolerance

\* A replacement that is selected stays selected while its first probe is outstanding and no
\* regular test has judged it (Replace: "the selection moves to the new outbound and stays there
\* until that probe's result is evaluated").
ReplacementKeepsSelection ==
    [][\A n \in Networks :
          LET o == selected[n]
          IN o # None /\ awaiting[TagOf[o]] = o /\ awaiting'[TagOf[o]] = o
             /\ history[TagOf[o]] = None
             => selected'[n] = o]_urlVars

\* A replacement does not await its first probe for ever, although overrides make it start over
\* (probeReplacement): an outbound joins once, so the replacements come to an end, and then none
\* is awaited.
ReplacementIsProbed ==
    (\E t \in Tags : awaiting[t] # None) ~> (\A t \in Tags : awaiting[t] = None)

\* The check loop of an emptied group ends unless a member comes back (Remove, checkLoop).
EmptyGroupRests == (alive /\ DOMAIN members = {}) ~> (~alive \/ DOMAIN members # {})

\* What the group believes is about its present members, whatever was under way when they changed:
\* their histories, what is selected and why.
GroupIsCurrent ==
    /\ [](URLTestTypeOK /\ HistoryDescribesMember /\ SelectionIsCurrent /\ PickIsWithinTolerance)
    /\ ReplacementKeepsSelection

\* What the group starts comes to an end: the first probes of replacements and, once it is empty,
\* its loop.
GroupSettles == ReplacementIsProbed /\ EmptyGroupRests
=============================================================================
