---------------------------- MODULE BridgeStream ----------------------------
(***************************************************************************)
(* One CONNECT stream at the bridge (protocol/samizdatreverse/bridge.go:   *)
(* ServeHTTP, handleConnection, bridgeStream).                             *)
(*                                                                         *)
(* Three goroutines share the stream: the HTTP/2 handler, and the two      *)
(* copies of the router, up (reads the stream) and down (writes to it).    *)
(* A write holds c.mu and may be blocked for ever by flow control when     *)
(* the inviter stops reading; the handler needs c.mu before it may return, *)
(* and w must not be touched after that.                                   *)
(***************************************************************************)
EXTENDS Naturals

VARIABLES
    handling,     \* where the handler goroutine is
    up, down,     \* where the router's copies are
    streamClosed, \* c.closed, set together with the close of the request body
    ended,        \* c.ended
    ctxDone,      \* the stream or the session has ended under the handler
    reset,        \* the write deadline was set: the stream is reset
    destClosed,   \* the router has closed the destination
    troubled      \* a copy failed by itself

streamVars == <<handling, up, down, streamClosed, ended, ctxDone, reset, destClosed, troubled>>

\* c.mu is held, and c.writing set, exactly in a Write.
Writing == down \in {"locked", "inW"}

RouteDone == up = "ended" /\ down = "ended"

StreamTypeOK ==
    /\ handling \in {"routing", "closing", "aborting", "waiting", "shutdown", "shutAborting",
                    "locking", "returned"}
    /\ up \in {"reading", "sending", "closing", "aborting", "ended"}
    /\ down \in {"reading", "holding", "locked", "inW", "closing", "aborting", "ended"}
    /\ streamClosed \in BOOLEAN /\ ended \in BOOLEAN /\ ctxDone \in BOOLEAN /\ reset \in BOOLEAN
    /\ destClosed \in BOOLEAN /\ troubled \in BOOLEAN

StreamInit ==
    /\ handling = "routing" /\ up = "reading" /\ down = "reading"
    /\ streamClosed = FALSE /\ ended = FALSE /\ ctxDone = FALSE /\ reset = FALSE
    /\ destClosed = FALSE /\ troubled = FALSE

\* The inviter cancels the stream, or the session goes.
ContextEnds ==
    /\ ~ctxDone /\ handling # "returned"
    /\ ctxDone' = TRUE
    /\ UNCHANGED <<handling, up, down, streamClosed, ended, reset, destClosed, troubled>>

(***************************************************************************)
(* The stream's own operations.                                            *)
(***************************************************************************)
\* abortWrite, under lifeMu.
AbortWrite_Anyway == reset' = TRUE

AbortWrite == reset' = (reset \/ ~ended)

\* What Close and shutdown do once closed is set: abort only a Write in progress.
TestWriting(abort, done) == IF Writing THEN abort ELSE done

(***************************************************************************)
(* down: reads the destination, writes to the stream.                      *)
(***************************************************************************)
DownUnchanged == UNCHANGED <<handling, up, ended, ctxDone, reset, troubled>>

DownReads ==
    /\ down = "reading" /\ ~destClosed
    /\ down' = "holding"
    /\ DownUnchanged /\ UNCHANGED <<streamClosed, destClosed>>

\* Write takes c.mu, which shutdown holds only within a step, and sets writing.
WriteBegins ==
    /\ down = "holding"
    /\ down' = "locked"
    /\ DownUnchanged /\ UNCHANGED <<streamClosed, destClosed>>

WriteChecks_Never ==
    /\ down = "locked"
    /\ down' = "inW"
    /\ DownUnchanged /\ UNCHANGED <<streamClosed, destClosed>>

\* Then it tests closed; a refused write makes the router close both ends.
WriteChecks ==
    /\ down = "locked"
    /\ down' = IF streamClosed THEN "closing" ELSE "inW"
    /\ destClosed' = (destClosed \/ streamClosed)
    /\ DownUnchanged /\ UNCHANGED streamClosed

\* The inviter reads.
WriteGoesOut ==
    /\ down = "inW" /\ ~reset /\ ~ctxDone
    /\ down' = "reading"
    /\ DownUnchanged /\ UNCHANGED <<streamClosed, destClosed>>

\* A reset stream or a dead session fails the write.
WriteFails ==
    /\ down = "inW" /\ (reset \/ ctxDone)
    /\ down' = "closing" /\ destClosed' = TRUE
    /\ DownUnchanged /\ UNCHANGED streamClosed

CloseWrite == streamClosed' = TRUE

\* The destination has sent everything: the router calls CloseWrite on the stream.
DestinationEnds ==
    /\ down = "reading" /\ ~destClosed
    /\ down' = "ended"
    /\ CloseWrite
    /\ DownUnchanged /\ UNCHANGED destClosed

\* The destination fails, or the router has closed it.
DestinationFails ==
    /\ down = "reading"
    /\ down' = "closing" /\ destClosed' = TRUE
    /\ troubled' = (troubled \/ ~destClosed)
    /\ UNCHANGED <<handling, up, streamClosed, ended, ctxDone, reset>>

\* Close: reads are closed, then writing is tested, then the write is aborted.
DownCloses ==
    /\ down = "closing"
    /\ streamClosed' = TRUE
    /\ down' = "ended" \* its own Write is over: nothing to abort
    /\ DownUnchanged /\ UNCHANGED destClosed

(***************************************************************************)
(* up: reads the stream, writes to the destination.                        *)
(***************************************************************************)
UpUnchanged == UNCHANGED <<handling, down, ended, ctxDone>>

\* What was read goes to the destination, which may not take it.
UpReads ==
    /\ up = "reading" /\ ~streamClosed /\ ~ctxDone
    /\ up' = "sending"
    /\ UpUnchanged /\ UNCHANGED <<streamClosed, reset, destClosed, troubled>>

DestinationTakes ==
    /\ up = "sending" /\ ~destClosed
    /\ up' = "reading"
    /\ UpUnchanged /\ UNCHANGED <<streamClosed, reset, destClosed, troubled>>

\* The inviter is done: the destination's write side is closed, the stream left alone.
InviterEnds ==
    /\ up = "reading"
    /\ up' = "ended"
    /\ UpUnchanged /\ UNCHANGED <<streamClosed, reset, destClosed, troubled>>

\* The read fails because the stream is closed or gone, or the destination refuses a write: the
\* router closes both ends, the stream first.
UpFails(byItself) ==
    /\ \/ up = "reading" /\ (streamClosed \/ ctxDone)
       \/ up = "sending" /\ (destClosed \/ byItself)
    /\ up' = "closing" /\ streamClosed' = TRUE
    /\ troubled' = (troubled \/ (up = "sending" /\ ~destClosed))
    /\ UpUnchanged /\ UNCHANGED <<reset, destClosed>>

UpCloses ==
    /\ up = "closing"
    /\ up' = TestWriting("aborting", "ended")
    /\ destClosed' = (destClosed \/ up' = "ended")
    /\ UpUnchanged /\ UNCHANGED <<streamClosed, reset, troubled>>

UpAborts ==
    /\ up = "aborting"
    /\ up' = "ended"
    /\ AbortWrite /\ destClosed' = TRUE
    /\ UpUnchanged /\ UNCHANGED <<streamClosed, troubled>>

(***************************************************************************)
(* The handler.                                                            *)
(***************************************************************************)
HandlerUnchanged == UNCHANGED <<up, down, ctxDone, destClosed, troubled>>

\* handleConnection: both copies are done, and shutdown begins.
CopiesEnd ==
    /\ handling \in {"routing", "waiting"} /\ RouteDone
    /\ handling' = "shutdown" /\ streamClosed' = TRUE
    /\ HandlerUnchanged /\ UNCHANGED <<ended, reset>>

\* The context ended: conn.Close, step by step.
HandlerCloses ==
    /\ handling = "routing" /\ ctxDone
    /\ handling' = "closing" /\ streamClosed' = TRUE
    /\ HandlerUnchanged /\ UNCHANGED <<ended, reset>>

HandlerTests ==
    /\ handling = "closing"
    /\ handling' = TestWriting("aborting", "waiting")
    /\ HandlerUnchanged /\ UNCHANGED <<streamClosed, ended, reset>>

HandlerAborts ==
    /\ handling = "aborting"
    /\ handling' = "waiting"
    /\ AbortWrite
    /\ HandlerUnchanged /\ UNCHANGED <<streamClosed, ended>>

\* shutdownTimeout: the copies are not waited for any longer.
ShutdownTimesOut ==
    /\ handling = "waiting" /\ ~RouteDone
    /\ handling' = "shutdown" /\ streamClosed' = TRUE
    /\ HandlerUnchanged /\ UNCHANGED <<ended, reset>>

ShutdownTests ==
    /\ handling = "shutdown"
    /\ handling' = TestWriting("shutAborting", "locking")
    /\ HandlerUnchanged /\ UNCHANGED <<streamClosed, ended, reset>>

ShutdownAborts ==
    /\ handling = "shutAborting"
    /\ handling' = "locking"
    /\ AbortWrite
    /\ HandlerUnchanged /\ UNCHANGED <<streamClosed, ended>>

\* shutdown takes c.mu, which waits a Write out, and retires w; ServeHTTP returns.
ShutdownLocks ==
    /\ handling = "locking" /\ ~Writing
    /\ handling' = "returned" /\ ended' = TRUE
    /\ HandlerUnchanged /\ UNCHANGED <<streamClosed, reset>>

HandlerStep ==
    \/ CopiesEnd \/ HandlerCloses \/ HandlerTests \/ HandlerAborts
    \/ ShutdownTimesOut \/ ShutdownTests \/ ShutdownAborts \/ ShutdownLocks

\* What a copy does by itself, and what it can only wait for.
UpStep == UpFails(FALSE) \/ UpCloses \/ UpAborts
DownStep ==
    \/ WriteBegins \/ WriteChecks \/ WriteFails \/ DownCloses
    \/ destClosed /\ DestinationFails

StreamNext ==
    \/ ContextEnds
    \/ DownReads \/ WriteGoesOut \/ DestinationEnds \/ DestinationFails
    \/ WriteBegins \/ WriteChecks \/ WriteFails \/ DownCloses
    \/ UpReads \/ DestinationTakes \/ InviterEnds \/ UpFails(TRUE)
    \/ UpStep
    \/ HandlerStep

\* The goroutines run; neither the inviter nor the destination is assumed to do anything.
StreamFairness ==
    /\ WF_streamVars(HandlerStep)
    /\ WF_streamVars(UpStep)
    /\ WF_streamVars(DownStep)

StreamSpec == StreamInit /\ [][StreamNext]_streamVars

(***************************************************************************)
(* Properties.                                                             *)
(***************************************************************************)
\* "No write may reach w once this handler returns": neither a Write nor the write deadline of an
\* abort touches w afterwards, although copies that outlived shutdownTimeout go on (bridge.go,
\* lines 322 and 432-436).
WriterIsLeftAlone ==
    [][handling = "returned" => down' # "inW" /\ reset' = reset]_streamVars

\* And no Write is in w when it returns.
NoWriteAtReturn == handling = "returned" => down # "inW"

\* A relay in which nothing failed ends the stream normally, never with a reset, in whichever
\* order its copies, their closes and the handler run (Close, "a relay that finished cleanly
\* still ends with END_STREAM").
CleanEndIsNotReset == reset => troubled \/ ctxDone

\* When the stream or the session has ended the handler returns, although the inviter may never
\* read what a write is blocked on and the copies may never finish; and once the stream is closed
\* from either side, too, unless, while its context lasts, a destination that is done sending does
\* not take what the inviter has sent.
HandlerReturns ==
    ctxDone \/ streamClosed ~>
        handling = "returned" \/ (~ctxDone /\ up = "sending" /\ ~destClosed)

\* The response writer is used only while the handler runs, and a relay without trouble ends
\* without a reset.
WriterIsSafe ==
    /\ [](NoWriteAtReturn /\ CleanEndIsNotReset)
    /\ WriterIsLeftAlone
=============================================================================
