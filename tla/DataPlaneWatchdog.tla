------------------------- MODULE DataPlaneWatchdog -------------------------
(***************************************************************************)
(* The watchdog of one connection of an auto-select group                  *)
(* (protocol/group/mutableautoselect_dataplane.go).  A reader and a writer *)
(* report what their calls returned, two timers fire and Close runs, each  *)
(* at its own pace: a step is one atomic operation or one section under    *)
(* ioMu.  At most one failure may come of it, charged to the outbound.     *)
(***************************************************************************)
EXTENDS Naturals, FiniteSets

CONSTANTS
    ProvedReadBytes    \* the reads that prove a connection, each of one unit

VARIABLES
    stalled, fired, responded, proven,   \* the atomics of the watchdog
    readBytes,
    lastIO,            \* "none", "read" or "write"
    firstTimer,        \* firstResponseTimer: "unset", "armed", "stopped" or "running"
    idleTimer,         \* timer: "armed", "stopped" or "running"
    pc,                \* where each of the two I/O goroutines and the two timer callbacks stands
    result,            \* what the I/O call of each goroutine returned
    closing,           \* "no", "stopping" or "closed": closeWatchdog
    charged,           \* failures handed to onFailure
    decidedBy          \* who set stalled: nobody, Close or a kind of failure

watchVars == <<stalled, fired, responded, proven, readBytes, lastIO, firstTimer, idleTimer, pc,
               result, closing, charged, decidedBy>>

IO == {"reader", "writer"}

\* Bytes, a clean end or cancellation, a timeout, a failure of the transport.
IOResults == {"data", "end", "timeout", "reset"}

WatchInit ==
    /\ stalled = FALSE /\ fired = FALSE /\ responded = FALSE /\ proven = FALSE
    /\ readBytes = 0 /\ lastIO = "none"
    /\ firstTimer = "unset" /\ idleTimer = "armed"
    /\ pc = [g \in IO \cup {"first", "stall"} |-> "idle"]
    /\ result = [g \in IO |-> "data"]
    /\ closing = "no" /\ charged = {} /\ decidedBy = "nobody"

At(g, place) == pc[g] = place
Goes(g, place) == pc' = [pc EXCEPT ![g] = place]

\* ioMu: only fireNoResponse holds it over more than one step.
LockFree == ~At("first", "decide")

\* stalled.CompareAndSwap(false, true) by a failure of kind k.
Decides(k) ==
    /\ stalled' = TRUE
    /\ decidedBy' = IF stalled THEN decidedBy ELSE k

\* fired.CompareAndSwap(false, true) and onFailure.
Charge(g, k) ==
    /\ At(g, "charge")
    /\ Goes(g, "idle")
    /\ fired' = TRUE
    /\ charged' = IF fired THEN charged ELSE charged \cup {k}
    /\ UNCHANGED <<stalled, responded, proven, readBytes, lastIO, firstTimer, idleTimer, result,
                   closing, decidedBy>>

(***************************************************************************)
(* noteIO                                                                  *)
(***************************************************************************)
\* A Read or Write returns; the calls end with the connection, those under way may still report.
IOReturns(g, r) ==
    /\ At(g, "idle") /\ closing # "closed"
    /\ result' = [result EXCEPT ![g] = r]
    /\ Goes(g, IF stalled THEN "idle" ELSE "track")
    /\ UNCHANGED <<stalled, fired, responded, proven, readBytes, lastIO, firstTimer, idleTimer,
                   closing, charged, decidedBy>>

MarkResponded_OnlyStops ==
    /\ firstTimer' = IF firstTimer = "armed" THEN "stopped" ELSE firstTimer
    /\ UNCHANGED responded

MarkResponded ==
    /\ responded' = TRUE
    /\ firstTimer' = IF firstTimer = "armed" THEN "stopped" ELSE firstTimer

StartFirstResponseTimer ==
    /\ firstTimer' = IF firstTimer = "unset" /\ ~responded /\ ~stalled THEN "armed" ELSE firstTimer
    /\ UNCHANGED responded

Tracks(g) ==
    /\ At(g, "track") /\ LockFree
    /\ IF ~responded /\ g = "reader" /\ result[g] # "timeout" THEN MarkResponded
       ELSE IF ~responded /\ g = "writer" /\ result[g] = "data" THEN StartFirstResponseTimer
       ELSE UNCHANGED <<responded, firstTimer>>
    /\ Goes(g, CASE result[g] = "reset" -> "judge"
                 [] result[g] = "data" -> "publish"
                 [] OTHER -> "idle")
    /\ UNCHANGED <<stalled, fired, proven, readBytes, lastIO, idleTimer, result, closing, charged,
                   decidedBy>>

\* A read that fails after a quiet time that followed a read is excused (endsQuietRead).
Judges(g, quiet) ==
    /\ At(g, "judge") /\ LockFree
    /\ Goes(g, IF g = "reader" /\ lastIO = "read" /\ quiet THEN "idle" ELSE "reset")
    /\ UNCHANGED <<stalled, fired, responded, proven, readBytes, lastIO, firstTimer, idleTimer,
                   result, closing, charged, decidedBy>>

FireResetFailure_AfterClose(g) ==
    /\ At(g, "reset")
    /\ Decides("reset")
    /\ Goes(g, "charge")
    /\ UNCHANGED <<fired, responded, proven, readBytes, lastIO, firstTimer, idleTimer, result,
                   closing, charged>>

FireResetFailure(g) ==
    /\ At(g, "reset")
    /\ Decides("reset")
    /\ Goes(g, IF stalled THEN "idle" ELSE "charge")
    /\ UNCHANGED <<fired, responded, proven, readBytes, lastIO, firstTimer, idleTimer, result,
                   closing, charged>>

Publishes(g) ==
    /\ At(g, "publish") /\ LockFree
    /\ lastIO' = IF g = "reader" THEN "read" ELSE "write"
    /\ Goes(g, "rearm")
    /\ UNCHANGED <<stalled, fired, responded, proven, readBytes, firstTimer, idleTimer, result,
                   closing, charged, decidedBy>>

\* Reset arms the timer again, also when its callback is running or Close has stopped it.
Rearms(g) ==
    /\ At(g, "rearm")
    /\ idleTimer' = "armed"
    /\ Goes(g, IF g = "reader" /\ ~proven THEN "prove" ELSE "idle")
    /\ UNCHANGED <<stalled, fired, responded, proven, readBytes, lastIO, firstTimer, result, closing,
                   charged, decidedBy>>

Proves ==
    /\ At("reader", "prove")
    /\ readBytes' = readBytes + 1
    /\ proven' = (readBytes' >= ProvedReadBytes)
    /\ Goes("reader", "idle")
    /\ UNCHANGED <<stalled, fired, responded, lastIO, firstTimer, idleTimer, result, closing,
                   charged, decidedBy>>

(***************************************************************************)
(* The timer callbacks and Close                                           *)
(***************************************************************************)
\* fireNoResponse reads responded and takes stalled with ioMu held in between.
FireNoResponse ==
    /\ At("first", "decide")
    /\ Decides("noResponse")
    /\ Goes("first", IF stalled THEN "idle" ELSE "charge")
    /\ UNCHANGED <<fired, responded, proven, readBytes, lastIO, firstTimer, idleTimer, result,
                   closing, charged>>

\* A callback that has begun is not held up by Stop.
LooksForResponse ==
    /\ firstTimer = "running" /\ At("first", "idle")
    /\ firstTimer' = "stopped"
    /\ Goes("first", IF responded THEN "idle" ELSE "decide")
    /\ UNCHANGED <<stalled, fired, responded, proven, readBytes, lastIO, idleTimer, result, closing,
                   charged, decidedBy>>

FirstTimerExpires ==
    /\ firstTimer = "armed"
    /\ firstTimer' = "running"
    /\ UNCHANGED <<stalled, fired, responded, proven, readBytes, lastIO, idleTimer, pc, result,
                   closing, charged, decidedBy>>

\* fireStall reads proven, then the last I/O, then takes stalled.
IdleTimerExpires ==
    /\ idleTimer = "armed" /\ At("stall", "idle")
    /\ idleTimer' = "running"
    /\ Goes("stall", IF proven THEN "look" ELSE "idle")
    /\ UNCHANGED <<stalled, fired, responded, proven, readBytes, lastIO, firstTimer, result, closing,
                   charged, decidedBy>>

LooksAtLastIO ==
    /\ At("stall", "look") /\ LockFree
    /\ Goes("stall", IF lastIO = "write" THEN "decide" ELSE "idle")
    /\ UNCHANGED <<stalled, fired, responded, proven, readBytes, lastIO, firstTimer, idleTimer,
                   result, closing, charged, decidedBy>>

FireStall ==
    /\ At("stall", "decide")
    /\ Decides("stall")
    /\ Goes("stall", IF stalled THEN "idle" ELSE "charge")
    /\ UNCHANGED <<fired, responded, proven, readBytes, lastIO, firstTimer, idleTimer, result,
                   closing, charged>>

CloseStarts ==
    /\ closing = "no"
    /\ Decides("close")
    /\ idleTimer' = "stopped"
    /\ closing' = "stopping"
    /\ UNCHANGED <<fired, responded, proven, readBytes, lastIO, firstTimer, pc, result, charged>>

\* stopFirstResponseTimer; the connection is closed below.
CloseEnds ==
    /\ closing = "stopping" /\ LockFree
    /\ firstTimer' = IF firstTimer = "armed" THEN "stopped" ELSE firstTimer
    /\ closing' = "closed"
    /\ UNCHANGED <<stalled, fired, responded, proven, readBytes, lastIO, idleTimer, pc, result,
                   charged, decidedBy>>

WatchNext ==
    \/ \E g \in IO, r \in IOResults : IOReturns(g, r)
    \/ \E g \in IO : Tracks(g) \/ FireResetFailure(g) \/ Publishes(g) \/ Rearms(g)
    \/ \E g \in IO, quiet \in BOOLEAN : Judges(g, quiet)
    \/ \E g \in IO : Charge(g, "reset")
    \/ Charge("first", "noResponse") \/ Charge("stall", "stall")
    \/ Proves \/ FirstTimerExpires \/ LooksForResponse \/ FireNoResponse
    \/ IdleTimerExpires \/ LooksAtLastIO \/ FireStall
    \/ CloseStarts \/ CloseEnds

WatchSpec == WatchInit /\ [][WatchNext]_watchVars

(***************************************************************************)
(* Properties                                                              *)
(***************************************************************************)

\* One connection charges its outbound at most once, with the failure that was decided first, and
\* nothing that Close came before is ever charged (closeWatchdog: "late I/O can't deliver a phantom
\* onFailure after Close").
ChargeIsTheFirstDecision == charged # {} => charged = {decidedBy}

\* A reply recorded before the first-response timeout decides is never charged as no response
\* (markResponded and fireNoResponse decide under ioMu).
RepliesAreNotIgnored ==
    [][decidedBy = "nobody" /\ decidedBy' = "noResponse" => ~responded]_watchVars

\* Once Close has returned no first-response timer is left armed, although a Write may have been
\* about to start it (startFirstResponseTimer, closeWatchdog).
CloseLeavesNoTimer == closing = "closed" => firstTimer # "armed"

\* A first write that nothing answers is charged, if nothing else ends the watch (the first-response
\* timer is armed once and fires).
SilenceIsCharged ==
    firstTimer = "armed" ~> (responded \/ stalled)

\* A connection is charged for what happened to it, in the order it happened, and for nothing that
\* happens after Close.
ChargesAreFair ==
    /\ [](ChargeIsTheFirstDecision /\ CloseLeavesNoTimer)
    /\ RepliesAreNotIgnored
=============================================================================
