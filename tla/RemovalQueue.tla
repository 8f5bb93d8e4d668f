---------------------------- MODULE RemovalQueue ----------------------------
(***************************************************************************)
(* MutableGroupManager and its removalQueue (adapter/groups/manager.go).   *)
(*                                                                         *)
(* The manager's operations run one at a time under m.mu.  An outbound or  *)
(* endpoint taken out of a group stays registered until the queue's        *)
(* background goroutine, checkLoop, finds it without open connections or   *)
(* pending for longer than forceAfter.  The goroutine shares only rq.mu    *)
(* and the atomic rq.running with the manager, so it is modelled one       *)
(* critical section at a time, and so are the operations that take rq.mu   *)
(* more than once.                                                         *)
(***************************************************************************)
EXTENDS Naturals, FiniteSets

CONSTANTS
    Tags,        \* tags of outbounds and endpoints (never of groups)
    Groups,      \* the groups the manager was built with
    Replacers,   \* the groups that implement adapter.MemberReplacer
    KindsOf,     \* tag -> the kinds it may be created as, a subset of Kinds
    MaxEnqueues, \* bound: items ever queued
    MaxSpawned   \* bound: checkLoop goroutines spawned and not yet running

Kinds == {"outbound", "endpoint"}

ASSUME ConstantsAssumption ==
    /\ Replacers \subseteq Groups
    /\ KindsOf \in [Tags -> SUBSET Kinds]
    /\ MaxEnqueues \in Nat
    /\ MaxSpawned \in Nat

VARIABLES
    groupTags,   \* group -> the tags it holds
    groupClosed, \* groups torn down: their Add and Remove return ErrGroupClosed
    registered,  \* tag -> kinds registered under it (outbound/endpoint managers)
    openConns,   \* tags with an open connection in the ConnectionManager
    closed,      \* m.closed
    done,        \* rq.done is closed
    holding,     \* enqueue an operation still owes while it holds m.mu
    pending,     \* rq.pending, a partial function from tags to items
    enqueues,    \* items queued so far; stands for addedAt
    expired,     \* stamps of the items older than forceAfter
    spawned,     \* checkLoop goroutines that have not reached their CAS
    loop,        \* where the checkLoop that won the CAS is; "idle": none
    snapshot,    \* checkPending's copy of pending
    toRemove,    \* the tags checkPending decided to remove
    asked        \* history: tag -> what the latest settled operation asked for

vars == <<groupTags, groupClosed, registered, openConns, closed, done, holding,
          pending, enqueues, expired, spawned, loop, snapshot, toRemove, asked>>

managerVars == <<groupTags, groupClosed, registered, closed, holding, asked>>

NoEnqueue == [tag |-> "", kind |-> ""]
EmptyMap == [t \in {} |-> 0]
Without(map, t) == [u \in DOMAIN map \ {t} |-> map[u]]
With(map, t, x) == [u \in DOMAIN map \cup {t} |-> IF u = t THEN x ELSE map[u]]

Item == [kind : Kinds, stamp : Nat]
Owed == [tag : Tags, kind : Kinds]
LoopPlaces == {"idle", "snapshot", "judge", "remove", "test", "wait", "exit"}

TypeOK ==
    /\ groupTags \in [Groups -> SUBSET Tags]
    /\ groupClosed \subseteq Groups
    /\ registered \in [Tags -> SUBSET Kinds]
    /\ openConns \subseteq Tags
    /\ closed \in BOOLEAN
    /\ done \in BOOLEAN
    /\ holding \in Owed \cup {NoEnqueue}
    /\ DOMAIN pending \subseteq Tags
    /\ \A t \in DOMAIN pending : pending[t] \in Item
    /\ enqueues \in Nat
    /\ expired \subseteq Nat
    /\ spawned \in Nat
    /\ loop \in LoopPlaces
    /\ DOMAIN snapshot \subseteq Tags
    /\ \A t \in DOMAIN snapshot : snapshot[t] \in Item
    /\ toRemove \subseteq Tags
    /\ asked \in [Tags -> {"nothing", "keep", "remove"}]

Init ==
    /\ groupTags \in [Groups -> SUBSET Tags]
    /\ groupClosed = {}
    /\ registered \in [Tags -> SUBSET Kinds]
    /\ \A t \in Tags : \E k \in KindsOf[t] : registered[t] = {k}
    /\ openConns = {}
    /\ closed = FALSE
    /\ done = FALSE
    /\ holding = NoEnqueue
    /\ pending = EmptyMap
    /\ enqueues = 0
    /\ expired = {}
    /\ spawned = 0
    /\ loop = "idle"
    /\ snapshot = EmptyMap
    /\ toRemove = {}
    /\ asked = [t \in Tags |-> "nothing"]

(***************************************************************************)
(* The manager's operations.  A guard on ManagerFree is m.mu; an operation *)
(* that still has to enqueue leaves the item in holding, so no other       *)
(* operation starts while the queue's goroutine may run.                   *)
(***************************************************************************)
ManagerFree == holding = NoEnqueue /\ ~closed

UnchangedQueue == UNCHANGED <<enqueues, expired, spawned, loop, snapshot, toRemove>>

\* createForGroup after a successful Create, inside cancelIf: Add takes the tag, or the group
\* holds it already and Replace (if it has one) swaps the new outbound in; a closed group
\* refuses both.
JoinAfterCreate(g, t) ==
    LET accepted == g \notin groupClosed
        existed  == accepted /\ t \in groupTags[g]
        joined   == accepted /\ (existed => g \in Replacers)
    IN /\ groupTags' = IF joined THEN [groupTags EXCEPT ![g] = @ \cup {t}] ELSE groupTags
       /\ pending' = IF joined THEN Without(pending, t) ELSE pending
       /\ asked' = CASE joined -> [asked EXCEPT ![t] = "keep"]
                     [] existed -> asked
                     [] OTHER -> [asked EXCEPT ![t] = "remove"]

CreateForGroup(g, t, k) ==
    /\ ManagerFree
    /\ registered' = [registered EXCEPT ![t] = @ \cup {k}]
    /\ JoinAfterCreate(g, t)
    /\ holding' = IF g \in groupClosed THEN [tag |-> t, kind |-> k] ELSE NoEnqueue
    /\ UNCHANGED <<groupClosed, openConns, closed, done>>
    /\ UnchangedQueue

AddToGroup_KeepsQueuedRemoval(g, t) ==
    /\ ManagerFree
    /\ g \notin groupClosed /\ t \notin groupTags[g] /\ registered[t] # {}
    /\ groupTags' = [groupTags EXCEPT ![g] = @ \cup {t}]
    /\ asked' = [asked EXCEPT ![t] = "keep"]
    /\ UNCHANGED <<groupClosed, registered, openConns, closed, done, holding, pending>>
    /\ UnchangedQueue

\* AddToGroup: addTag inside cancelIf; n = 0 or an error cancels nothing.  Add looks the tag up
\* in the outbound manager and fails when it is not registered.
AddToGroup(g, t) ==
    /\ ManagerFree
    /\ g \notin groupClosed /\ t \notin groupTags[g] /\ registered[t] # {}
    /\ groupTags' = [groupTags EXCEPT ![g] = @ \cup {t}]
    /\ pending' = Without(pending, t)
    /\ asked' = [asked EXCEPT ![t] = "keep"]
    /\ UNCHANGED <<groupClosed, registered, openConns, closed, done, holding>>
    /\ UnchangedQueue

\* ReplaceInGroup: the member must be held and its tag registered.
ReplaceInGroup(g, t) ==
    /\ ManagerFree
    /\ g \in Replacers \ groupClosed /\ t \in groupTags[g] /\ registered[t] # {}
    /\ pending' = Without(pending, t)
    /\ asked' = [asked EXCEPT ![t] = "keep"]
    /\ UNCHANGED <<groupTags, groupClosed, registered, openConns, closed, done, holding>>
    /\ UnchangedQueue

\* RemoveFromGroup up to its enqueue: a closed group and a tag it does not hold are not errors.
RemoveFromGroup(g, t) ==
    /\ ManagerFree
    /\ groupTags' = IF g \in groupClosed THEN groupTags
                    ELSE [groupTags EXCEPT ![g] = @ \ {t}]
    /\ IF registered[t] = {}
       THEN UNCHANGED <<holding, asked>>
       ELSE /\ holding' = [tag  |-> t,
                           kind |-> IF "endpoint" \in registered[t]
                                    THEN "endpoint" ELSE "outbound"]
            /\ asked' = [asked EXCEPT ![t] = "remove"]
    /\ UNCHANGED <<groupClosed, registered, openConns, closed, done, pending>>
    /\ UnchangedQueue

\* enqueue: an item already pending keeps its age, and a goroutine is spawned unless one says it
\* is running.  It returns at once when it finds done closed; closed after that test it is missed.
Enqueue ==
    /\ holding # NoEnqueue
    /\ holding' = NoEnqueue
    /\ \/ /\ done \/ holding.tag \in DOMAIN pending
          /\ UNCHANGED <<pending, enqueues, spawned>>
       \/ /\ holding.tag \notin DOMAIN pending /\ enqueues < MaxEnqueues
          /\ pending' = With(pending, holding.tag,
                             [kind |-> holding.kind, stamp |-> enqueues + 1])
          /\ enqueues' = enqueues + 1
          /\ IF loop = "idle"
             THEN spawned < MaxSpawned /\ spawned' = spawned + 1
             ELSE spawned' = spawned
    /\ UNCHANGED <<groupTags, groupClosed, registered, openConns, closed, done, expired,
                   loop, snapshot, toRemove, asked>>

\* Close does not take m.mu: closed and done are set between any two steps.
Close ==
    /\ ~closed
    /\ closed' = TRUE
    /\ UNCHANGED <<groupTags, groupClosed, registered, openConns, done, holding, pending, asked>>
    /\ UnchangedQueue

CloseQueue ==
    /\ closed /\ ~done
    /\ done' = TRUE
    /\ UNCHANGED <<groupTags, groupClosed, registered, openConns, closed, holding, pending, asked>>
    /\ UnchangedQueue

(***************************************************************************)
(* checkLoop.  loop # "idle" is rq.running.                                *)
(***************************************************************************)
\* The compare-and-swap on running: a second goroutine returns at once.
StartLoop ==
    /\ spawned > 0
    /\ spawned' = spawned - 1
    /\ loop' = IF loop = "idle" THEN "snapshot" ELSE loop
    /\ UNCHANGED <<managerVars, openConns, done, pending, enqueues, expired, snapshot, toRemove>>

\* checkPending under the read lock.
TakeSnapshot ==
    /\ loop = "snapshot"
    /\ snapshot' = pending
    /\ loop' = "judge"
    /\ UNCHANGED <<managerVars, openConns, done, pending, enqueues, expired, spawned, toRemove>>

Removable(t) == t \notin openConns \/ snapshot[t].stamp \in expired

\* checkPending without a lock: the connections are read and the ages compared.
Judge ==
    /\ loop = "judge"
    /\ toRemove' = {t \in DOMAIN snapshot : Removable(t)}
    /\ IF toRemove' = {} THEN loop' = "test" /\ snapshot' = EmptyMap
                         ELSE loop' = "remove" /\ snapshot' = snapshot
    /\ UNCHANGED <<managerVars, openConns, done, pending, enqueues, expired, spawned>>

\* checkPending under the write lock: every tag still pending is removed from the manager its
\* item names (a failed or needless Remove is only logged) and forgotten.
RemoveJudged ==
    /\ loop = "remove"
    /\ registered' = [t \in Tags |-> IF t \in toRemove \cap DOMAIN pending
                                     THEN registered[t] \ {pending[t].kind}
                                     ELSE registered[t]]
    /\ pending' = [t \in DOMAIN pending \ toRemove |-> pending[t]]
    /\ loop' = "test"
    /\ toRemove' = {}
    /\ snapshot' = EmptyMap
    /\ UNCHANGED <<groupTags, groupClosed, openConns, closed, done, holding, enqueues, expired,
                   spawned, asked>>

TestEmpty_ExitsEarly ==
    /\ loop = "test"
    /\ loop' = IF \E t \in DOMAIN pending : t \in openConns THEN "exit" ELSE "wait"
    /\ UNCHANGED <<managerVars, openConns, done, pending, enqueues, expired, spawned, snapshot,
                   toRemove>>

\* Lines 433-438: empty means return, but running is still true until the deferred store.
TestEmpty ==
    /\ loop = "test"
    /\ loop' = IF DOMAIN pending = {} THEN "exit" ELSE "wait"
    /\ UNCHANGED <<managerVars, openConns, done, pending, enqueues, expired, spawned, snapshot,
                   toRemove>>

Tick ==
    /\ loop = "wait"
    /\ loop' = "snapshot"
    /\ UNCHANGED <<managerVars, openConns, done, pending, enqueues, expired, spawned, snapshot,
                   toRemove>>

StopOnDone ==
    /\ loop = "wait" /\ done
    /\ loop' = "exit"
    /\ UNCHANGED <<managerVars, openConns, done, pending, enqueues, expired, spawned, snapshot,
                   toRemove>>

\* The deferred running.Store(false).
ExitLoop ==
    /\ loop = "exit"
    /\ loop' = "idle"
    /\ UNCHANGED <<managerVars, openConns, done, pending, enqueues, expired, spawned, snapshot,
                   toRemove>>

(***************************************************************************)
(* The surroundings: connections, time and group shutdown.                 *)
(***************************************************************************)
OpenConn(t) ==
    /\ registered[t] # {} /\ t \notin openConns
    /\ openConns' = openConns \cup {t}
    /\ UNCHANGED <<managerVars, done, pending>>
    /\ UnchangedQueue

CloseConn(t) ==
    /\ t \in openConns
    /\ openConns' = openConns \ {t}
    /\ UNCHANGED <<managerVars, done, pending>>
    /\ UnchangedQueue

\* Items pass forceAfter in the order they were queued.
PassForceAfter(t) ==
    /\ t \in DOMAIN pending
    /\ pending[t].stamp \notin expired
    /\ \A u \in DOMAIN pending : pending[u].stamp < pending[t].stamp => pending[u].stamp \in expired
    /\ expired' = expired \cup {pending[t].stamp}
    /\ UNCHANGED <<managerVars, openConns, done, pending, enqueues, spawned, loop, snapshot,
                   toRemove>>

CloseGroup(g) ==
    /\ g \notin groupClosed
    /\ groupClosed' = groupClosed \cup {g}
    /\ UNCHANGED <<groupTags, registered, openConns, closed, done, holding, pending, asked>>
    /\ UnchangedQueue

Operation ==
    \/ \E g \in Groups, t \in Tags :
          \/ \E k \in KindsOf[t] : CreateForGroup(g, t, k)
          \/ AddToGroup(g, t)
          \/ ReplaceInGroup(g, t)
          \/ RemoveFromGroup(g, t)
    \/ Enqueue
    \/ Close
    \/ CloseQueue

LoopStep ==
    \/ StartLoop
    \/ TakeSnapshot
    \/ Judge
    \/ RemoveJudged
    \/ TestEmpty
    \/ Tick
    \/ StopOnDone
    \/ ExitLoop

Surroundings ==
    \/ \E t \in Tags : OpenConn(t) \/ CloseConn(t) \/ PassForceAfter(t)
    \/ \E g \in Groups : CloseGroup(g)

Next == Operation \/ LoopStep \/ Surroundings

(***************************************************************************)
(* The goroutine and the operation that holds m.mu keep running, and time  *)
(* passes.  Nothing obliges a connection to close or an operation to be    *)
(* called.                                                                 *)
(***************************************************************************)
Fairness ==
    /\ WF_vars(LoopStep)
    /\ WF_vars(Enqueue)
    /\ WF_vars(CloseQueue)
    /\ \A t \in Tags : WF_vars(PassForceAfter(t))

Spec == Init /\ [][Next]_vars
FairSpec == Spec /\ Fairness

(***************************************************************************)
(* Properties.                                                             *)
(***************************************************************************)
\* The queue unregisters a tag only while the latest settled operation on it asked for its
\* removal: an Add, Replace or re-creation that succeeded in the meantime has cancelled the
\* queued removal, whatever the goroutine had already decided (cancelIf, lines 413-421).
OnlyRemovesAsked ==
    [][\A t \in Tags : registered'[t] # registered[t] /\ registered'[t] \subseteq registered[t]
                        => asked[t] = "remove"]_vars

\* A tag whose removal was asked for, that no group holds and no operation is working on, is
\* either queued or no longer registered: no path through the queue drops the item and keeps
\* the outbound (lines 163-168 and 478-506).
CleanedUp ==
    \A t \in Tags :
        \/ asked[t] # "remove" \/ done
        \/ holding # NoEnqueue /\ holding.tag = t
        \/ \E g \in Groups : t \in groupTags[g]
        \/ t \in DOMAIN pending
        \/ registered[t] = {}

\* While the goroutine is at work an item does not stay pending: it is removed, at the latest
\* after forceAfter, or cancelled, unless the queue is closed.
WorkedQueueDrains ==
    \A t \in Tags : (t \in DOMAIN pending /\ loop \in {"snapshot", "wait"})
                        ~> (t \notin DOMAIN pending \/ done)

\* Every queued item is eventually removed or cancelled, unless the queue is closed: an outbound
\* that joined no group must not stay registered until shutdown (lines 165-166).
QueueDrains ==
    \A t \in Tags : t \in DOMAIN pending ~> (t \notin DOMAIN pending \/ done)

\* The queue keeps its word: it removes all that is to be removed, and nothing else.
QueueKeepsItsWord == []CleanedUp /\ OnlyRemovesAsked
=============================================================================
