---------------------------- MODULE GroupProofs -----------------------------
(***************************************************************************)
(* Proofs about the groups beside the scheduler of MutableAutoSelect: its  *)
(* data-plane watchdog, the selector group, and the removal queue of their *)
(* manager.                                                                *)
(***************************************************************************)
EXTENDS DataPlaneWatchdog, MutableSelector, RemovalQueue, TLAPS

(***************************************************************************)
(* The data-plane watchdog: one connection, one charge, for connections    *)
(* with any number of reads and writes and any threshold of proof.         *)
(***************************************************************************)

Goroutines == IO \cup {"first", "stall"}

\* The failure a goroutine has to report.
KindOf == [g \in Goroutines |-> IF g = "first" THEN "noResponse"
                               ELSE IF g = "stall" THEN "stall" ELSE "reset"]

WatchTypeOK ==
    /\ stalled \in BOOLEAN /\ fired \in BOOLEAN /\ responded \in BOOLEAN
    /\ pc \in [Goroutines -> {"idle", "track", "judge", "reset", "publish", "rearm", "prove",
                              "decide", "look", "charge"}]
    /\ firstTimer \in {"unset", "armed", "stopped", "running"}
    /\ closing \in {"no", "stopping", "closed"}

\* stalled is taken once; whoever took it with a failure has it still to report, alone, or has
\* reported it.
TakenOnce ==
    /\ stalled <=> decidedBy # "nobody"
    /\ ~stalled => charged = {}
    /\ fired <=> charged # {}
    /\ charged # {} => charged = {decidedBy}
    /\ \A g \in Goroutines : At(g, "charge") =>
          /\ decidedBy = KindOf[g] /\ charged = {}
          /\ \A h \in Goroutines : At(h, "charge") => h = g
    /\ \A g \in Goroutines : At(g, "charge") => stalled

\* Close takes stalled before it stops the first-response timer, which starts only while it is
\* free; and fireNoResponse decides with ioMu held since it saw no response.
Orderly ==
    /\ closing # "no" => stalled
    /\ CloseLeavesNoTimer
    /\ At("first", "decide") => ~responded

WatchInv == WatchTypeOK /\ TakenOnce /\ Orderly

\* The watchdog starts in order (newDataPlaneWatchdog).
LEMMA InitInOrder == WatchInit => WatchInv
  BY Zenon DEF WatchInit, WatchInv, WatchTypeOK, TakenOnce, Orderly, CloseLeavesNoTimer, Goroutines, IO,
         At, KindOf

\* A report of a failure: whoever holds the decision is the only one to report.
LEMMA ChargeInOrder ==
  ASSUME NEW g \in Goroutines, WatchInv, Charge(g, KindOf[g])
  PROVE  WatchInv'
  BY Zenon DEF WatchInv, WatchTypeOK, TakenOnce, Orderly, CloseLeavesNoTimer, Goroutines, IO, At, Goes,
         Charge

\* A decision: taken by one that finds stalled free, and by nobody else.
LEMMA DecisionInOrder ==
  ASSUME NEW g \in Goroutines, WatchInv, Decides(KindOf[g]),
         KindOf[g] # "nobody",
         Goes(g, IF stalled THEN "idle" ELSE "charge"), ~At(g, "charge"),
         UNCHANGED <<fired, responded, charged, firstTimer, closing>>
  PROVE  WatchInv'
  BY DEF WatchInv, WatchTypeOK, TakenOnce, Orderly, CloseLeavesNoTimer, Goroutines, IO, At, Goes,
         Decides

\* A step that decides and reports nothing moves one goroutine to where it reports nothing.
LEMMA OtherInOrder ==
  ASSUME NEW g \in Goroutines, WatchInv,
         NEW place \in {"idle", "track", "judge", "reset", "publish", "rearm", "prove", "decide",
                        "look"},
         Goes(g, place), ~At(g, "charge"),
         UNCHANGED <<stalled, fired, charged, decidedBy, closing>>,
         responded' \in BOOLEAN, firstTimer' \in {"unset", "armed", "stopped", "running"},
         Orderly'
  PROVE  WatchInv'
  BY DEF WatchInv, WatchTypeOK, TakenOnce, Goroutines, IO, At, Goes

\* The goroutines of a connection and the kind of failure each of them reports.
LEMMA FailureKinds ==
  /\ \A g \in IO : g \in Goroutines /\ KindOf[g] = "reset"
  /\ "first" \in Goroutines /\ KindOf["first"] = "noResponse"
  /\ "stall" \in Goroutines /\ KindOf["stall"] = "stall"
  BY Zenon DEF KindOf, Goroutines, IO

\* Every step of the goroutines, timers and Close keeps the watchdog in order.
LEMMA StepInOrder == WatchInv /\ [WatchNext]_watchVars => WatchInv'
<1> SUFFICES ASSUME WatchInv, [WatchNext]_watchVars PROVE WatchInv'
  BY Zenon
<1> USE FailureKinds
<1>1. ASSUME NEW g \in IO, NEW r \in IOResults, IOReturns(g, r) PROVE WatchInv'
  <2> DEFINE place == IF stalled THEN "idle" ELSE "track"
  <2>1. Orderly'
    BY <1>1, Zenon DEF IOReturns, Orderly, WatchInv, WatchTypeOK, CloseLeavesNoTimer, At, Goes, Goroutines, IO
  <2>2. Goes(g, place) /\ ~At(g, "charge")
    BY <1>1, Zenon DEF IOReturns, At
  <2> QED
    BY <1>1, <2>1, <2>2, OtherInOrder, Zenon DEF IOReturns, WatchInv, WatchTypeOK
<1>2. ASSUME NEW g \in IO, Tracks(g) PROVE WatchInv'
  <2>1. PICK place \in {"judge", "publish", "idle"} : Goes(g, place)
    BY <1>2, Zenon DEF Tracks
  <2>2. /\ responded' \in BOOLEAN /\ firstTimer' \in {"unset", "armed", "stopped", "running"}
        /\ firstTimer' = "armed" => firstTimer = "armed" \/ ~stalled
    BY <1>2, Zenon DEF Tracks, MarkResponded, StartFirstResponseTimer, WatchInv, WatchTypeOK
  <2>3. Orderly'
    BY <1>2, <2>1, <2>2, Zenon
    DEF Tracks, LockFree, Orderly, WatchInv, WatchTypeOK, CloseLeavesNoTimer, At, Goes, Goroutines, IO
  <2> QED
    BY <1>2, <2>1, <2>2, <2>3, OtherInOrder, Zenon DEF Tracks, At
<1>3. ASSUME NEW g \in IO, FireResetFailure(g) PROVE WatchInv'
  BY <1>3, DecisionInOrder, Zenon DEF FireResetFailure, At
<1>4. ASSUME NEW g \in IO, Publishes(g) PROVE WatchInv'
  <2>1. Orderly'
    BY <1>4, Zenon DEF Publishes, Orderly, WatchInv, WatchTypeOK, CloseLeavesNoTimer, At, Goes, Goroutines, IO
  <2> QED
    BY <1>4, <2>1, OtherInOrder, Zenon DEF Publishes, At, WatchInv, WatchTypeOK
<1>5. ASSUME NEW g \in IO, Rearms(g) PROVE WatchInv'
  <2>1. PICK place \in {"prove", "idle"} : Goes(g, place)
    BY <1>5, Zenon DEF Rearms
  <2>2. Orderly'
    BY <1>5, <2>1, Zenon
    DEF Rearms, Orderly, WatchInv, WatchTypeOK, CloseLeavesNoTimer, At, Goes, Goroutines, IO
  <2> QED
    BY <1>5, <2>1, <2>2, OtherInOrder, Zenon DEF Rearms, At, WatchInv, WatchTypeOK
<1>6. ASSUME NEW g \in IO, NEW quiet \in BOOLEAN, Judges(g, quiet) PROVE WatchInv'
  <2>1. PICK place \in {"reset", "idle"} : Goes(g, place)
    BY <1>6, Zenon DEF Judges
  <2>2. Orderly'
    BY <1>6, <2>1, Zenon
    DEF Judges, Orderly, WatchInv, WatchTypeOK, CloseLeavesNoTimer, At, Goes, Goroutines, IO
  <2> QED
    BY <1>6, <2>1, <2>2, OtherInOrder, Zenon DEF Judges, At, WatchInv, WatchTypeOK
<1>7. ASSUME NEW g \in IO, Charge(g, "reset") PROVE WatchInv'
  BY <1>7, ChargeInOrder, Zenon
<1>8. CASE Charge("first", "noResponse") \/ Charge("stall", "stall")
  BY <1>8, ChargeInOrder, Zenon
<1>9. CASE Proves
  <2>1. Orderly'
    BY <1>9, Zenon DEF Proves, Orderly, WatchInv, WatchTypeOK, CloseLeavesNoTimer, At, Goes, Goroutines, IO
  <2> QED
    BY <1>9, <2>1, OtherInOrder, Zenon DEF Proves, At, WatchInv, WatchTypeOK, IO
<1>10. CASE FirstTimerExpires
  BY <1>10, Zenon
  DEF FirstTimerExpires, WatchInv, WatchTypeOK, TakenOnce, Orderly, CloseLeavesNoTimer, At
<1>11. CASE LooksForResponse
  <2>1. PICK place \in {"decide", "idle"} : Goes("first", place) /\ (place = "decide" => ~responded)
    BY <1>11, Zenon DEF LooksForResponse
  <2>2. Orderly'
    BY <1>11, <2>1, Zenon
    DEF LooksForResponse, Orderly, WatchInv, WatchTypeOK, CloseLeavesNoTimer, At, Goes, Goroutines
  <2> QED
    BY <1>11, <2>1, <2>2, OtherInOrder, Zenon DEF LooksForResponse, At, WatchInv, WatchTypeOK
<1>12. CASE FireNoResponse
  BY <1>12, DecisionInOrder, Zenon DEF FireNoResponse, At
<1>13. CASE IdleTimerExpires
  <2>1. PICK place \in {"look", "idle"} : Goes("stall", place)
    BY <1>13, Zenon DEF IdleTimerExpires
  <2>2. Orderly'
    BY <1>13, <2>1, Zenon
    DEF IdleTimerExpires, Orderly, WatchInv, WatchTypeOK, CloseLeavesNoTimer, At, Goes, Goroutines
  <2> QED
    BY <1>13, <2>1, <2>2, OtherInOrder, Zenon DEF IdleTimerExpires, At, WatchInv, WatchTypeOK
<1>14. CASE LooksAtLastIO
  <2>1. PICK place \in {"decide", "idle"} : Goes("stall", place)
    BY <1>14, Zenon DEF LooksAtLastIO
  <2>2. Orderly'
    BY <1>14, <2>1, Zenon
    DEF LooksAtLastIO, Orderly, WatchInv, WatchTypeOK, CloseLeavesNoTimer, At, Goes, Goroutines
  <2> QED
    BY <1>14, <2>1, <2>2, OtherInOrder, Zenon DEF LooksAtLastIO, At, WatchInv, WatchTypeOK
<1>15. CASE FireStall
  BY <1>15, DecisionInOrder, Zenon DEF FireStall, At
<1>16. CASE CloseStarts
  BY <1>16, Zenon
  DEF CloseStarts, Decides, WatchInv, WatchTypeOK, TakenOnce, Orderly, CloseLeavesNoTimer, At
<1>17. CASE CloseEnds
  BY <1>17, Zenon
  DEF CloseEnds, WatchInv, WatchTypeOK, TakenOnce, Orderly, CloseLeavesNoTimer, At
<1>18. CASE UNCHANGED watchVars
  BY <1>18, Zenon
  DEF watchVars, WatchInv, WatchTypeOK, TakenOnce, Orderly, CloseLeavesNoTimer, At
<1> QED
  BY <1>1, <1>2, <1>3, <1>4, <1>5, <1>6, <1>7, <1>8, <1>9, <1>10, <1>11, <1>12, <1>13, <1>14, <1>15,
     <1>16, <1>17, <1>18, Zenon DEF WatchNext

\* Whatever the reads, writes, timers and Close of a connection do and in whichever order: it is
\* charged at most once, for what was decided first and never after Close, a reply seen in time is
\* not charged as silence, and Close leaves no timer armed.
THEOREM ChargesAlwaysFair == WatchSpec => ChargesAreFair
<1>1. WatchInv => ChargeIsTheFirstDecision /\ CloseLeavesNoTimer
  BY Zenon DEF WatchInv, TakenOnce, Orderly, ChargeIsTheFirstDecision
<1>2. WatchInv /\ [WatchNext]_watchVars
        => [decidedBy = "nobody" /\ decidedBy' = "noResponse" => ~responded]_watchVars
  <2> SUFFICES ASSUME WatchInv, WatchNext, decidedBy = "nobody", decidedBy' = "noResponse"
               PROVE  ~responded
    BY Zenon
  <2>1. At("first", "decide")
    BY Zenon DEF WatchNext, IOReturns, Tracks, FireResetFailure, Publishes, Rearms, Judges, Charge, Proves,
           FirstTimerExpires, LooksForResponse, FireNoResponse, IdleTimerExpires, LooksAtLastIO,
           FireStall, CloseStarts, CloseEnds, Decides
  <2> QED
    BY <2>1, Zenon DEF WatchInv, Orderly
<1> QED
  BY <1>1, <1>2, InitInOrder, StepInOrder, PTL DEF WatchSpec, ChargesAreFair, RepliesAreNotIgnored

(***************************************************************************)
(* The selector group.                                                     *)
(***************************************************************************)
SelTypeOK ==
    /\ selManager \in [SelTags -> SelObjects]
    /\ \A t \in SelTags : SelTagOf[selManager[t]] = t
    /\ DOMAIN group \subseteq SelTags
    /\ \A t \in DOMAIN group : group[t] \in SelObjects /\ SelTagOf[group[t]] = t
    /\ \A d \in DOMAIN dialing : dialing[d] \in SelObjects
    /\ conns \subseteq [via : SelObjects, late : BOOLEAN]

\* A dial that no switch overtook goes through the tag that is selected.
DialsFollowSelection ==
    chosen # Nothing =>
        \A d \in DOMAIN dialing \ overtaken : SelTagOf[dialing[d]] = SelTagOf[chosen]

SelInv ==
    /\ SelTypeOK /\ ChosenIsCurrent /\ DialsFollowSelection
    /\ ConnectionsFollowSelection

\* A selection that moves interrupts every connection and marks every dial in flight; one that
\* stays changes nothing.
LEMMA SelectsKeeps ==
    ASSUME SelInv, NEW o \in SelObjects, Selects(o), dialing' = dialing, SelTypeOK',
           o \in GroupObjects'
    PROVE SelInv'
<1>1. chosen' = o /\ ChosenIsCurrent'
  BY Zenon DEF Selects, ChosenIsCurrent
<1>2. CASE chosen = o
  BY <1>1, <1>2, Zenon DEF Selects, SelInv, DialsFollowSelection, ConnectionsFollowSelection
<1>3. CASE chosen # o
  BY <1>1, <1>3, Zenon DEF Selects, SelInv, DialsFollowSelection, ConnectionsFollowSelection
<1> QED
  BY <1>2, <1>3, Zenon

\* A start selects one of its members, and begins without dials and connections.
LEMMA RestartKeeps == ASSUME SelInv, NEW ts \in SUBSET SelTags, Restart(ts) PROVE SelInv'
<1>1. /\ group' = [t \in ts |-> selManager[t]] /\ selManager' = selManager
      /\ dialing' = [d \in {} |-> Nothing] /\ conns' = {} /\ overtaken' = {}
      /\ chosen' \in IF ts = {} THEN {Nothing}
                     ELSE IF cached \in ts THEN {selManager[cached]}
                     ELSE {selManager[t] : t \in ts}
  BY Zenon DEF Restart, Started
<1>2. SelTypeOK'
  BY <1>1, Zenon DEF SelInv, SelTypeOK
<1>3. ChosenIsCurrent'
  BY <1>1, Zenon DEF ChosenIsCurrent, GroupObjects
<1> QED
  BY <1>1, <1>2, <1>3, Zenon DEF SelInv, DialsFollowSelection, ConnectionsFollowSelection

\* An outbound the manager creates is not in the group until Replace.
LEMMA CreatesKeeps ==
    ASSUME SelInv, NEW o \in SelObjects, SelManagerCreates(o) PROVE SelInv'
<1>1. SelTypeOK'
  BY SelectorAssumption, Zenon DEF SelManagerCreates, SelInv, SelTypeOK
<1> QED
  BY <1>1, Zenon DEF SelManagerCreates, SelInv, ChosenIsCurrent, GroupObjects, DialsFollowSelection,
              ConnectionsFollowSelection

\* An explicit selection.
LEMMA SelectTagKeeps == ASSUME SelInv, NEW t \in SelTags, SelectTag(t) PROVE SelInv'
<1>1. group[t] \in SelObjects /\ Selects(group[t]) /\ dialing' = dialing /\ group[t] \in GroupObjects'
  BY Zenon DEF SelectTag, SelInv, SelTypeOK, GroupObjects
<1>2. conns' \subseteq conns
  BY <1>1, Zenon DEF Selects
<1>3. SelTypeOK'
  BY <1>2, Zenon DEF SelectTag, SelInv, SelTypeOK
<1> QED
  BY <1>1, <1>3, SelectsKeeps, Zenon

\* Add and Replace, which keep the selected tag.
LEMMA SelAddKeeps == ASSUME SelInv, NEW t \in SelTags, SelAdd(t) PROVE SelInv'
<1>1. SelTypeOK'
  BY DEF SelAdd, SelInv, SelTypeOK
<1>2. ChosenIsCurrent'
  BY Zenon DEF SelAdd, SelInv, ChosenIsCurrent, GroupObjects
<1> QED
  BY <1>1, <1>2, Zenon DEF SelAdd, SelInv, DialsFollowSelection, ConnectionsFollowSelection

\* Replace moves the selection within its tag.
LEMMA SelReplaceKeeps == ASSUME SelInv, NEW t \in SelTags, SelReplace(t) PROVE SelInv'
<1>1. SelTypeOK'
  BY Zenon DEF SelReplace, SelInv, SelTypeOK
<1>2. ChosenIsCurrent' /\ (chosen' # Nothing => chosen # Nothing /\ SelTagOf[chosen'] = SelTagOf[chosen])
  <2>1. CASE chosen = group[t]
    BY <2>1, SelectorAssumption, Zenon DEF SelReplace, SelInv, SelTypeOK, ChosenIsCurrent, GroupObjects
  <2>2. CASE chosen # group[t]
    <3>1. chosen' = chosen
      BY <2>2, Zenon DEF SelReplace
    <3>2. ASSUME chosen # Nothing PROVE chosen \in GroupObjects'
      <4>1. PICK u \in DOMAIN group : chosen = group[u]
        BY <3>2, Zenon DEF SelInv, ChosenIsCurrent, GroupObjects
      <4>2. u # t
        BY <2>2, <4>1, Zenon
      <4> QED
        BY <4>1, <4>2, Zenon DEF SelReplace, GroupObjects
    <3> QED
      BY <3>1, <3>2, Zenon DEF ChosenIsCurrent
  <2> QED
    BY <2>1, <2>2, Zenon
<1> QED
  BY <1>1, <1>2, Zenon DEF SelReplace, SelInv, DialsFollowSelection, ConnectionsFollowSelection

\* A removal that takes the selection away selects another member, if there is one.
LEMMA SelRemoveKeeps == ASSUME SelInv, NEW t \in SelTags, SelRemove(t) PROVE SelInv'
<1>1. /\ group' = [u \in DOMAIN group \ {t} |-> group[u]] /\ dialing' = dialing
      /\ selManager' = selManager
  BY Zenon DEF SelRemove
<1>2. conns' \subseteq conns
  BY Zenon DEF SelRemove, Selects
<1>3. SelTypeOK'
  BY <1>1, <1>2, Zenon DEF SelInv, SelTypeOK
<1>4. CASE chosen # Nothing /\ SelTagOf[chosen] # t /\ UNCHANGED <<chosen, cached, conns, overtaken>>
  <2>1. PICK u \in DOMAIN group : chosen = group[u]
    BY <1>4, Zenon DEF SelInv, ChosenIsCurrent, GroupObjects
  <2>2. u # t
    BY <1>4, <2>1, Zenon DEF SelInv, SelTypeOK
  <2>3. ChosenIsCurrent'
    BY <1>1, <1>4, <2>1, <2>2, Zenon DEF ChosenIsCurrent, GroupObjects
  <2> QED
    BY <1>1, <1>3, <1>4, <2>3, Zenon DEF SelInv, DialsFollowSelection, ConnectionsFollowSelection
<1>5. CASE chosen' = Nothing
  BY <1>3, <1>5, Zenon DEF SelInv, ChosenIsCurrent, DialsFollowSelection, ConnectionsFollowSelection
<1>6. ASSUME NEW u \in DOMAIN group', Selects(group[u]) PROVE SelInv'
  <2>1. group[u] \in SelObjects /\ group[u] \in GroupObjects'
    BY <1>1, Zenon DEF SelInv, SelTypeOK, GroupObjects
  <2> QED
    BY <1>1, <1>3, <1>6, <2>1, SelectsKeeps, Zenon
<1> QED
  BY <1>4, <1>5, <1>6, Zenon DEF SelRemove

\* Dials read the selection and join the interrupt group later.
LEMMA SelDialsKeep ==
    ASSUME SelInv, NEW d \in SelDials, SelDial(d) \/ (\E connected \in BOOLEAN : SelDialed(d, connected))
    PROVE SelInv'
<1>1. CASE SelDial(d)
  <2>1. chosen \in SelObjects
    BY <1>1, Zenon DEF SelDial, SelInv, SelTypeOK, ChosenIsCurrent, GroupObjects
  <2>2. SelTypeOK'
    BY <1>1, <2>1, Zenon DEF SelDial, SelInv, SelTypeOK
  <2>3. DialsFollowSelection'
    BY <1>1, Zenon DEF SelDial, SelInv, DialsFollowSelection
  <2> QED
    BY <1>1, <2>2, <2>3, Zenon DEF SelDial, SelInv, ChosenIsCurrent, GroupObjects, ConnectionsFollowSelection
<1>2. ASSUME NEW connected \in BOOLEAN, SelDialed(d, connected) PROVE SelInv'
  <2> DEFINE new == [via |-> dialing[d], late |-> d \in overtaken]
  <2>1. new \in [via : SelObjects, late : BOOLEAN]
    BY <1>2 DEF SelDialed, SelInv, SelTypeOK
  <2>2. conns' = IF connected THEN conns \cup {new} ELSE conns
    BY <1>2, Zenon DEF SelDialed
  <2>3. new.via = dialing[d] /\ (new.late <=> d \in overtaken)
    BY Zenon
  <2> HIDE DEF new
  <2>4. SelTypeOK'
    BY <1>2, <2>1, <2>2, Zenon DEF SelDialed, SelInv, SelTypeOK
  <2>5. DialsFollowSelection'
    BY <1>2, Zenon DEF SelDialed, SelInv, DialsFollowSelection
  <2>6. ConnectionsFollowSelection'
    BY <1>2, <2>2, <2>3 DEF SelDialed, SelInv, DialsFollowSelection, ConnectionsFollowSelection
  <2> QED
    BY <1>2, <2>4, <2>5, <2>6, Zenon DEF SelDialed, SelInv, ChosenIsCurrent, GroupObjects
<1> QED
  BY <1>1, <1>2, Zenon

\* For any tags, outbounds and dials: what is selected is the current outbound of a member, and
\* every connection goes through the selected tag unless its dial was in flight when the
\* selection moved, after any removal, replacement, re-creation and restart.
THEOREM SelectorAlwaysCurrent == SelSpec => []SelectorIsCurrent
<1>1. SelInit => SelInv
  BY Zenon DEF SelInit, SelInv, SelTypeOK, ChosenIsCurrent, GroupObjects, DialsFollowSelection,
         ConnectionsFollowSelection
<1>2. SelInv /\ [SelNext]_selVars => SelInv'
  <2>1. ASSUME SelInv, SelNext PROVE SelInv'
    BY <2>1, RestartKeeps, CreatesKeeps, SelectTagKeeps, SelAddKeeps, SelReplaceKeeps, SelRemoveKeeps,
       SelDialsKeep, Zenon DEF SelNext
  <2>2. ASSUME SelInv, UNCHANGED selVars PROVE SelInv'
    BY <2>2 DEF selVars, SelInv, SelTypeOK, ChosenIsCurrent, GroupObjects, DialsFollowSelection,
                ConnectionsFollowSelection
  <2> QED
    BY <2>1, <2>2, Zenon
<1>3. SelInv => SelectorIsCurrent
  BY Zenon DEF SelInv, SelectorIsCurrent
<1> QED
  BY <1>1, <1>2, <1>3, PTL DEF SelSpec

(***************************************************************************)
(* The removal queue, for any sets of tags, groups and kinds and without   *)
(* the bounds of the model-checked instances.                              *)
(***************************************************************************)
\* The initial states are well typed.
LEMMA TypeInit == Init => TypeOK
<1> SUFFICES ASSUME Init PROVE TypeOK
  BY Zenon
<1>1. DOMAIN EmptyMap = {}
  BY Zenon DEF EmptyMap
<1>2. closed \in BOOLEAN /\ done \in BOOLEAN
  BY Zenon DEF Init
<1>3. asked \in [Tags -> {"nothing", "keep", "remove"}]
  BY Zenon DEF Init
<1> QED
  BY <1>1, <1>2, <1>3, Zenon DEF Init, TypeOK, LoopPlaces

\* Every operation of the manager keeps the types.
LEMMA TypeOperation == TypeOK /\ Operation => TypeOK'
<1> SUFFICES ASSUME TypeOK, Operation PROVE TypeOK'
  BY Zenon
<1> USE ConstantsAssumption DEF TypeOK, UnchangedQueue, ManagerFree, Without, With
<1>1. ASSUME NEW g \in Groups, NEW t \in Tags, NEW k \in KindsOf[t], CreateForGroup(g, t, k)
      PROVE TypeOK'
  <2>1. k \in Kinds
    BY Zenon
  <2>2. groupTags' \in [Groups -> SUBSET Tags]
    BY <1>1, Zenon DEF CreateForGroup, JoinAfterCreate
  <2>3. asked' \in [Tags -> {"nothing", "keep", "remove"}]
    BY <1>1, Zenon DEF CreateForGroup, JoinAfterCreate
  <2>4. DOMAIN pending' \subseteq Tags /\ \A u \in DOMAIN pending' : pending'[u] \in Item
    BY <1>1, Zenon DEF CreateForGroup, JoinAfterCreate
  <2>5. registered' \in [Tags -> SUBSET Kinds]
    BY <1>1, <2>1, Zenon DEF CreateForGroup
  <2>6. holding' \in Owed \cup {NoEnqueue}
    BY <1>1, <2>1, Zenon DEF CreateForGroup, Owed
  <2> QED
    BY <1>1, <2>2, <2>3, <2>4, <2>5, <2>6, Zenon DEF CreateForGroup
<1>2. ASSUME NEW g \in Groups, NEW t \in Tags, AddToGroup(g, t)
      PROVE TypeOK'
  BY <1>2, Zenon DEF AddToGroup
<1>3. ASSUME NEW g \in Groups, NEW t \in Tags, ReplaceInGroup(g, t)
      PROVE TypeOK'
  BY <1>3, Zenon DEF ReplaceInGroup
<1>4. ASSUME NEW g \in Groups, NEW t \in Tags, RemoveFromGroup(g, t)
      PROVE TypeOK'
  <2>1. groupTags' \in [Groups -> SUBSET Tags]
    BY <1>4, Zenon DEF RemoveFromGroup
  <2>2. holding' \in Owed \cup {NoEnqueue}
    BY <1>4 DEF RemoveFromGroup, Owed, Kinds
  <2>3. asked' \in [Tags -> {"nothing", "keep", "remove"}]
    BY <1>4, Zenon DEF RemoveFromGroup
  <2> QED
    BY <1>4, <2>1, <2>2, <2>3, Zenon DEF RemoveFromGroup
<1>5. CASE Enqueue
  <2>1. holding' = NoEnqueue
    BY <1>5, Zenon DEF Enqueue
  <2>2. spawned' \in Nat /\ enqueues' \in Nat
    BY <1>5 DEF Enqueue
  <2>3. DOMAIN pending' \subseteq Tags /\ \A u \in DOMAIN pending' : pending'[u] \in Item
    <3>1. holding \in Owed
      BY <1>5, Zenon DEF Enqueue
    <3> QED
      BY <1>5, <3>1 DEF Enqueue, Owed, Item
  <2> QED
    BY <1>5, <2>1, <2>2, <2>3, Zenon DEF Enqueue
<1>6. CASE Close
  BY <1>6, Zenon DEF Close
<1>7. CASE CloseQueue
  BY <1>7, Zenon DEF CloseQueue
<1> HIDE DEF TypeOK, UnchangedQueue, ManagerFree, Without, With
<1> QED
  BY <1>1, <1>2, <1>3, <1>4, <1>5, <1>6, <1>7, Zenon DEF Operation

\* Every step of checkLoop keeps the types.
LEMMA TypeLoopStep == TypeOK /\ LoopStep => TypeOK'
<1> SUFFICES ASSUME TypeOK, LoopStep PROVE TypeOK'
  OBVIOUS
<1> USE DEF TypeOK, managerVars, LoopPlaces, EmptyMap
<1>1. CASE StartLoop
  BY <1>1 DEF StartLoop
<1>2. CASE TakeSnapshot
  BY <1>2, Zenon DEF TakeSnapshot
<1>3. CASE Judge
  BY <1>3 DEF Judge
<1>4. CASE RemoveJudged
  BY <1>4, Zenon DEF RemoveJudged
<1>5. CASE TestEmpty
  BY <1>5, Zenon DEF TestEmpty
<1>6. CASE Tick
  BY <1>6, Zenon DEF Tick
<1>7. CASE StopOnDone
  BY <1>7, Zenon DEF StopOnDone
<1>8. CASE ExitLoop
  BY <1>8, Zenon DEF ExitLoop
<1> HIDE DEF TypeOK, managerVars, LoopPlaces, EmptyMap
<1> QED
  BY <1>1, <1>2, <1>3, <1>4, <1>5, <1>6, <1>7, <1>8, Zenon DEF LoopStep

\* Connections, time and group shutdown keep the types.
LEMMA TypeSurroundings == TypeOK /\ Surroundings => TypeOK'
<1> SUFFICES ASSUME TypeOK, Surroundings PROVE TypeOK'
  OBVIOUS
<1> USE DEF TypeOK, managerVars, UnchangedQueue
<1>1. ASSUME NEW t \in Tags, OpenConn(t) PROVE TypeOK'
  BY <1>1, Zenon DEF OpenConn
<1>2. ASSUME NEW t \in Tags, CloseConn(t) PROVE TypeOK'
  BY <1>2, Zenon DEF CloseConn
<1>3. ASSUME NEW t \in Tags, PassForceAfter(t) PROVE TypeOK'
  BY <1>3, ZenonT(60) DEF PassForceAfter, Item
<1>4. ASSUME NEW g \in Groups, CloseGroup(g) PROVE TypeOK'
  BY <1>4, Zenon DEF CloseGroup
<1> HIDE DEF TypeOK, managerVars, UnchangedQueue
<1> QED
  BY <1>1, <1>2, <1>3, <1>4, Zenon DEF Surroundings

\* A stuttering step changes no type.
LEMMA TypeStutter == TypeOK /\ UNCHANGED vars => TypeOK'
BY Zenon DEF TypeOK, vars

\* The state of the manager and of its queue keeps its types, whatever the manager's callers, the
\* queue's goroutines and Close do in between.
THEOREM TypeCorrect == Spec => []TypeOK
<1>1. TypeOK /\ [Next]_vars => TypeOK'
  BY TypeOperation, TypeLoopStep, TypeSurroundings, TypeStutter, Zenon DEF Next
<1> QED
  BY TypeInit, <1>1, PTL DEF Spec
(***************************************************************************)
(* The queue removes only what it was asked to remove.  The property is    *)
(* not inductive: it needs that whatever is queued, or about to be, was    *)
(* asked for.                                                              *)
(***************************************************************************)
QueuedWasAsked ==
    /\ \A t \in DOMAIN pending : asked[t] = "remove"
    /\ holding # NoEnqueue => asked[holding.tag] = "remove"

\* An item enters the queue only after RemoveFromGroup or a failed Add asked for it, and an
\* operation that takes that back cancels the item in the same critical section.
LEMMA QueuedStep == TypeOK /\ QueuedWasAsked /\ [Next]_vars => QueuedWasAsked'
<1> SUFFICES ASSUME TypeOK, QueuedWasAsked, [Next]_vars PROVE QueuedWasAsked'
  BY Zenon
<1> USE DEF QueuedWasAsked
<1>1. ASSUME NEW g \in Groups, NEW t \in Tags, NEW k \in KindsOf[t], CreateForGroup(g, t, k)
      PROVE QueuedWasAsked'
  <2>1. asked \in [Tags -> {"nothing", "keep", "remove"}] /\ DOMAIN pending \subseteq Tags
    BY Zenon DEF TypeOK
  <2>2. \A u \in DOMAIN pending' : asked'[u] = "remove"
    BY <1>1, <2>1, Zenon DEF CreateForGroup, JoinAfterCreate, Without
  <2>3. holding' # NoEnqueue => asked'[holding'.tag] = "remove"
    BY <1>1, <2>1, Zenon DEF CreateForGroup, JoinAfterCreate
  <2> QED
    BY <2>2, <2>3, Zenon
<1>2. ASSUME NEW g \in Groups, NEW t \in Tags, AddToGroup(g, t)
      PROVE QueuedWasAsked'
  BY <1>2, Zenon DEF AddToGroup, ManagerFree, Without, TypeOK
<1>3. ASSUME NEW g \in Groups, NEW t \in Tags, ReplaceInGroup(g, t)
      PROVE QueuedWasAsked'
  BY <1>3, Zenon DEF ReplaceInGroup, ManagerFree, Without, TypeOK
<1>4. ASSUME NEW g \in Groups, NEW t \in Tags, RemoveFromGroup(g, t)
      PROVE QueuedWasAsked'
  <2>1. asked \in [Tags -> {"nothing", "keep", "remove"}] /\ DOMAIN pending \subseteq Tags
    BY Zenon DEF TypeOK
  <2> QED
    BY <1>4, <2>1 DEF RemoveFromGroup, ManagerFree
<1>5. CASE Enqueue
  BY <1>5, Zenon DEF Enqueue, With
<1>6. CASE RemoveJudged
  BY <1>6, Zenon DEF RemoveJudged
<1>7. CASE UNCHANGED <<pending, holding, asked>>
  BY <1>7, Zenon
<1>8. CASE Close \/ CloseQueue \/ Surroundings \/ UNCHANGED vars
  BY <1>7, <1>8, Zenon DEF Close, CloseQueue, Surroundings, OpenConn, CloseConn, PassForceAfter,
                    CloseGroup, managerVars, vars
<1>9. CASE LoopStep /\ ~RemoveJudged
  BY <1>7, <1>9, Zenon DEF LoopStep, StartLoop, TakeSnapshot, Judge, TestEmpty, Tick, StopOnDone,
                    ExitLoop, managerVars
<1> HIDE DEF QueuedWasAsked
<1> QED
  BY <1>1, <1>2, <1>3, <1>4, <1>5, <1>6, <1>8, <1>9, Zenon DEF Next, Operation

\* Nothing is queued at first.
LEMMA QueuedInit == Init => QueuedWasAsked
BY Zenon DEF Init, QueuedWasAsked, EmptyMap

\* A step that takes a kind away from a tag removes what is queued.
LEMMA OnlyQueuedIsRemoved ==
    ASSUME TypeOK, [Next]_vars, NEW t \in Tags,
           registered'[t] # registered[t], registered'[t] \subseteq registered[t]
    PROVE t \in DOMAIN pending
<1>1. registered \in [Tags -> SUBSET Kinds]
  BY Zenon DEF TypeOK
<1>2. ASSUME NEW g \in Groups, NEW u \in Tags, NEW k \in KindsOf[u], CreateForGroup(g, u, k)
      PROVE FALSE
  BY <1>1, <1>2, Zenon DEF CreateForGroup
<1>3. CASE RemoveJudged
  BY <1>1, <1>3, Zenon DEF RemoveJudged
<1>4. CASE LoopStep /\ ~RemoveJudged
  BY <1>4, Zenon DEF LoopStep, StartLoop, TakeSnapshot, Judge, TestEmpty, Tick, StopOnDone, ExitLoop,
              managerVars
<1>5. CASE Enqueue \/ Close \/ CloseQueue \/ Surroundings \/ UNCHANGED vars
  BY <1>5, Zenon DEF Enqueue, Close, CloseQueue, Surroundings, OpenConn, CloseConn, PassForceAfter,
              CloseGroup, managerVars, vars
<1>6. ASSUME NEW g \in Groups, NEW u \in Tags,
             AddToGroup(g, u) \/ ReplaceInGroup(g, u) \/ RemoveFromGroup(g, u)
      PROVE FALSE
  BY <1>6, Zenon DEF AddToGroup, ReplaceInGroup, RemoveFromGroup
<1> QED
  BY <1>2, <1>3, <1>4, <1>5, <1>6, Zenon DEF Next, Operation

\* However the goroutine's critical sections fall between the manager's operations, it never
\* unregisters a tag that an Add, a Replace or a re-creation has taken back (cancelIf).
THEOREM RemovesOnlyAsked == Spec => OnlyRemovesAsked
<1>1. TypeOK /\ QueuedWasAsked /\ [Next]_vars =>
          [\A t \in Tags : registered'[t] # registered[t] /\ registered'[t] \subseteq registered[t]
                               => asked[t] = "remove"]_vars
  BY OnlyQueuedIsRemoved, Zenon DEF QueuedWasAsked
<1>2. Spec => []QueuedWasAsked
  BY TypeCorrect, QueuedInit, QueuedStep, PTL DEF Spec
<1> QED
  BY <1>1, <1>2, TypeCorrect, PTL DEF Spec, OnlyRemovesAsked
(***************************************************************************)
(* Nothing asked to go is forgotten, provided a tag is always created as   *)
(* the same kind.  Without that the queued item may name the other kind    *)
(* and the property fails (MCRemovalQueueKind.cfg).                        *)
(***************************************************************************)
OneKind == \A t \in Tags : \E k \in Kinds : KindsOf[t] = {k}

\* What is registered, queued or about to be queued under a tag is of the tag's kind.
KindsAgree ==
    /\ \A t \in Tags : registered[t] \subseteq KindsOf[t]
    /\ \A t \in DOMAIN pending : pending[t].kind \in KindsOf[t]
    /\ holding # NoEnqueue => holding.kind \in KindsOf[holding.tag]

\* RemoveFromGroup queues the kind it finds registered, a failed Add the kind it created.
LEMMA KindsStep == TypeOK /\ KindsAgree /\ [Next]_vars => KindsAgree'
<1> SUFFICES ASSUME TypeOK, KindsAgree, [Next]_vars PROVE KindsAgree'
  OBVIOUS
<1> USE DEF KindsAgree
<1>0. registered \in [Tags -> SUBSET Kinds] /\ DOMAIN pending \subseteq Tags
  BY Zenon DEF TypeOK
<1>1. ASSUME NEW g \in Groups, NEW t \in Tags, NEW k \in KindsOf[t], CreateForGroup(g, t, k)
      PROVE KindsAgree'
  BY <1>0, <1>1, Zenon DEF CreateForGroup, JoinAfterCreate, Without
<1>2. ASSUME NEW g \in Groups, NEW t \in Tags, AddToGroup(g, t)
      PROVE KindsAgree'
  BY <1>2, Zenon DEF AddToGroup, Without
<1>3. ASSUME NEW g \in Groups, NEW t \in Tags, ReplaceInGroup(g, t)
      PROVE KindsAgree'
  BY <1>3, Zenon DEF ReplaceInGroup, Without
<1>4. ASSUME NEW g \in Groups, NEW t \in Tags, RemoveFromGroup(g, t)
      PROVE KindsAgree'
  BY <1>0, <1>4 DEF RemoveFromGroup, Kinds
<1>5. CASE Enqueue
  BY <1>5 DEF Enqueue, With
<1>6. CASE RemoveJudged
  BY <1>0, <1>6, Zenon DEF RemoveJudged
<1>7. CASE Close \/ CloseQueue \/ Surroundings \/ UNCHANGED vars
  BY <1>7, Zenon DEF Close, CloseQueue, Surroundings, OpenConn, CloseConn, PassForceAfter, CloseGroup,
              managerVars, vars
<1>8. CASE LoopStep /\ ~RemoveJudged
  BY <1>8, Zenon DEF LoopStep, StartLoop, TakeSnapshot, Judge, TestEmpty, Tick, StopOnDone, ExitLoop,
              managerVars
<1> HIDE DEF KindsAgree
<1> QED
  BY <1>1, <1>2, <1>3, <1>4, <1>5, <1>6, <1>7, <1>8 DEF Next, Operation

\* At first every tag is registered as its one kind.
LEMMA KindsInit == Init => KindsAgree
BY DEF Init, KindsAgree, EmptyMap

\* No removal has been asked for at first.
LEMMA CleanedUpInit == Init => CleanedUp
BY Zenon DEF Init, CleanedUp

\* A step leaves no tag asked to go without a queued item, a holder or an operation at work on it.
LEMMA CleanedUpStep ==
    ASSUME OneKind, TypeOK, KindsAgree, CleanedUp, [Next]_vars
    PROVE CleanedUp'
<1>0. /\ registered \in [Tags -> SUBSET Kinds] /\ DOMAIN pending \subseteq Tags
      /\ asked \in [Tags -> {"nothing", "keep", "remove"}]
      /\ groupTags \in [Groups -> SUBSET Tags]
  BY Zenon DEF TypeOK
<1>1. ASSUME NEW g \in Groups, NEW t \in Tags, NEW k \in KindsOf[t], CreateForGroup(g, t, k)
      PROVE CleanedUp'
  <2>1. SUFFICES ASSUME NEW u \in Tags, asked'[u] = "remove", ~done', u \notin DOMAIN pending',
                        registered'[u] # {}, ~(holding' # NoEnqueue /\ holding'.tag = u)
                 PROVE \E h \in Groups : u \in groupTags'[h]
    BY Zenon DEF CleanedUp
  <2>2. CASE u = t
    <3>1. k # ""
      BY ConstantsAssumption, Zenon DEF Kinds
    <3>2. g \notin groupClosed
      BY <1>1, <2>1, <2>2, <3>1, Zenon DEF CreateForGroup, NoEnqueue
    <3> QED
      BY <1>0, <1>1, <2>1, <2>2, <3>2, Zenon DEF CreateForGroup, JoinAfterCreate
  <2>3. CASE u # t
    <3>1. asked[u] = "remove" /\ ~done /\ registered[u] # {} /\ u \notin DOMAIN pending
      BY <1>0, <1>1, <2>1, <2>3, Zenon DEF CreateForGroup, JoinAfterCreate, Without
    <3>2. holding = NoEnqueue
      BY <1>1, Zenon DEF CreateForGroup, ManagerFree
    <3>3. PICK h \in Groups : u \in groupTags[h]
      BY <3>1, <3>2, Zenon DEF CleanedUp
    <3> QED
      BY <1>0, <1>1, <3>3, Zenon DEF CreateForGroup, JoinAfterCreate
  <2> QED
    BY <2>2, <2>3, Zenon
<1>2. ASSUME NEW g \in Groups, NEW t \in Tags, AddToGroup(g, t)
      PROVE CleanedUp'
  BY <1>0, <1>2, Zenon DEF AddToGroup, ManagerFree, Without, CleanedUp
<1>3. ASSUME NEW g \in Groups, NEW t \in Tags, ReplaceInGroup(g, t)
      PROVE CleanedUp'
  BY <1>0, <1>3, Zenon DEF ReplaceInGroup, ManagerFree, Without, CleanedUp
<1>4. ASSUME NEW g \in Groups, NEW t \in Tags, RemoveFromGroup(g, t)
      PROVE CleanedUp'
  <2>1. SUFFICES ASSUME NEW u \in Tags, asked'[u] = "remove", ~done', u \notin DOMAIN pending',
                        registered'[u] # {}, ~(holding' # NoEnqueue /\ holding'.tag = u)
                 PROVE \E h \in Groups : u \in groupTags'[h]
    BY Zenon DEF CleanedUp
  <2>2. u # t
    <3> SUFFICES ASSUME u = t PROVE FALSE
      BY Zenon
    <3>1. holding' = [tag |-> t, kind |-> IF "endpoint" \in registered[t]
                                          THEN "endpoint" ELSE "outbound"]
      BY <1>4, <2>1, Zenon DEF RemoveFromGroup
    <3> QED
      BY <2>1, <3>1, Zenon DEF NoEnqueue
  <2>3. asked[u] = "remove" /\ ~done /\ registered[u] # {} /\ u \notin DOMAIN pending
    BY <1>0, <1>4, <2>1, <2>2, Zenon DEF RemoveFromGroup
  <2>4. PICK h \in Groups : u \in groupTags[h]
    BY <1>4, <2>3, Zenon DEF CleanedUp, RemoveFromGroup, ManagerFree
  <2> QED
    BY <1>0, <1>4, <2>2, <2>4, Zenon DEF RemoveFromGroup
<1>5. CASE Enqueue
  BY <1>5 DEF Enqueue, With, CleanedUp
<1>6. CASE RemoveJudged
  <2>1. SUFFICES ASSUME NEW t \in Tags, t \in DOMAIN pending, t \in toRemove
                 PROVE registered'[t] = {}
    BY <1>0, <1>6, Zenon DEF CleanedUp, RemoveJudged
  <2>2. registered'[t] = registered[t] \ {pending[t].kind}
    BY <1>0, <1>6, <2>1, Zenon DEF RemoveJudged
  <2> QED
    BY <2>1, <2>2, Zenon DEF OneKind, KindsAgree
<1>7. CASE Close \/ CloseQueue \/ Surroundings \/ UNCHANGED vars
  BY <1>7 DEF Close, CloseQueue, Surroundings, OpenConn, CloseConn, PassForceAfter, CloseGroup,
              managerVars, vars, CleanedUp
<1>8. CASE LoopStep /\ ~RemoveJudged
  BY <1>8 DEF LoopStep, StartLoop, TakeSnapshot, Judge, TestEmpty, Tick, StopOnDone, ExitLoop,
              managerVars, CleanedUp
<1> QED
  BY <1>1, <1>2, <1>3, <1>4, <1>5, <1>6, <1>7, <1>8, Zenon DEF Next, Operation

\* If a tag is always created as the same kind, an outbound or endpoint whose removal was asked
\* for is queued, held by a group, being worked on or gone, until the queue is closed: no path
\* through createForGroup, RemoveFromGroup, cancelIf and checkPending loses it.
THEOREM NothingForgotten == OneKind => (Spec => []CleanedUp)
<1> SUFFICES ASSUME OneKind PROVE Spec => []CleanedUp
  BY Zenon
<1>1. Spec => []KindsAgree
  BY TypeCorrect, KindsInit, KindsStep, PTL DEF Spec
<1>2. TypeOK /\ KindsAgree /\ CleanedUp /\ [Next]_vars => CleanedUp'
  BY CleanedUpStep, Zenon
<1> QED
  BY <1>1, <1>2, TypeCorrect, CleanedUpInit, PTL DEF Spec

\* If every tag keeps its kind, the queue removes all that is to be removed and nothing else.
THEOREM KeepsItsWord == OneKind => (Spec => QueueKeepsItsWord)
BY NothingForgotten, RemovesOnlyAsked, PTL DEF QueueKeepsItsWord
=============================================================================
