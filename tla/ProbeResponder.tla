--------------------------- MODULE ProbeResponder ---------------------------
(***************************************************************************)
(* The proxy's answer to one bandit probe                                  *)
(* (src/protocol/banditprobe/responder.go): a body is written on a         *)
(* goroutine of its own while the responder polls the kernel's view of the *)
(* client-facing socket, and a verdict on the route is reported.           *)
(*                                                                         *)
(* The connection is a TCP socket of its own, a stream of a multiplexed    *)
(* session whose socket it shares (smux writes a frame before Write        *)
(* returns, h2mux may hold its tail back), or opaque (QUIC).  Nothing is   *)
(* assumed of its wrapper: it may ignore write deadlines, and its Write    *)
(* may not even return on Close, so neither appears in the model; only the *)
(* deadline of a raw socket does what it says.                             *)
(***************************************************************************)
EXTENDS Integers

CONSTANTS
    Size,           \* units of the response
    Buffer,         \* units the socket takes ahead of the client's acknowledgements
    MaxOthers,      \* bound: units other streams of the session send
    StallTimeout,   \* stall_timeout
    MaxWait,        \* max_wait
    ReportStalled   \* report_stalled

ASSUME ResponderAssumption ==
    /\ {Size, Buffer, StallTimeout, MaxWait} \subseteq Nat \ {0}
    /\ MaxOthers \in Nat /\ ReportStalled \in BOOLEAN

VARIABLES
    flow,      \* the kind of connection
    sock,      \* the kernel's socket: units queued, acknowledged, and where the response is
    write,     \* the write goroutine, its result in the channel "written"
    signals,   \* the raw socket's deadline is brought forward, the proxy shuts down
    elapsed,   \* time since the probe began
    probe      \* the responder goroutine

responderVars == <<flow, sock, write, signals, elapsed, probe>>

FlowKinds == {"own", "smux", "h2", "opaque"}
Shared == flow \in {"smux", "h2"}

Returned == write.at \in {"ok", "failed", "panicked"}

\* The responder before its loop, and after it: the locals of the loop are gone.
ResponderAt(at) ==
    [pc |-> at, why |-> "none", outq |-> 0, acked |-> 0, unacked |-> 0, base |-> 0, mark |-> 0,
     lastAcked |-> 0, lastProgress |-> 0, writeDone |-> FALSE,
     else |-> "none", verdict |-> "none", reported |-> "none"]

\* What the connection does after the verdict concerns nobody.
Observed == probe.verdict = "none"

ResponderInit ==
    /\ flow \in FlowKinds
    /\ sock = [sent |-> 0, acked |-> 0, others |-> 0, inside |-> 0, ends |-> 0]
    /\ write = [at |-> "none", left |-> Size, held |-> 0, late |-> FALSE]
    /\ signals = [raw |-> FALSE, shutdown |-> FALSE]
    /\ elapsed = 0
    /\ probe = ResponderAt("starts")

-----------------------------------------------------------------------------
\* The write goroutine and the network.

Queued(s) == [s EXCEPT !.sent = @ + 1, !.inside = @ + 1, !.ends = s.sent + 1]

HasRoom == sock.sent - sock.acked < Buffer

\* writeAsync: one chunk goes into the socket, or into h2mux's own writer, or out of sight.
WriteChunk ==
    /\ Observed /\ write.at = "running" /\ write.left > 0
    /\ write' = [write EXCEPT !.left = @ - 1, !.held = IF flow = "h2" THEN @ + 1 ELSE @]
    /\ IF flow \in {"own", "smux"} THEN HasRoom /\ sock' = Queued(sock) ELSE UNCHANGED sock
    /\ UNCHANGED <<flow, signals, elapsed, probe>>

H2Flushes ==
    /\ Observed /\ write.held > 0 /\ HasRoom
    /\ write' = [write EXCEPT !.held = @ - 1]
    /\ sock' = Queued(sock)
    /\ UNCHANGED <<flow, signals, elapsed, probe>>

\* The write delivers its result: all chunks accepted, an error, or a recovered panic.
WriteReturns(result) ==
    /\ Observed /\ write.at = "running"
    /\ result = "ok" => write.left = 0
    /\ write' = [write EXCEPT !.at = result, !.late = elapsed >= MaxWait]
    /\ UNCHANGED <<flow, sock, signals, elapsed, probe>>

\* What is certain to make a blocked Write fail: the deadline of the raw socket under it.
WriteUnblocked == flow = "own" /\ (signals.raw \/ elapsed >= MaxWait)

ClientAcks ==
    /\ Observed /\ sock.acked < sock.sent
    /\ sock' = [sock EXCEPT !.acked = @ + 1]
    /\ UNCHANGED <<flow, write, signals, elapsed, probe>>

OtherStreamSends ==
    /\ Observed /\ Shared /\ sock.others < MaxOthers
    /\ sock' = [sock EXCEPT !.sent = @ + 1, !.others = @ + 1]
    /\ UNCHANGED <<flow, write, signals, elapsed, probe>>

ProbeTime ==
    /\ Observed /\ probe.pc # "starts" /\ elapsed < MaxWait
    /\ elapsed' = elapsed + 1
    /\ UNCHANGED <<flow, sock, write, signals, probe>>

\* The proxy shuts down: the context ends and the inbound's connections are closed.
ShutDown ==
    /\ probe.pc # "done" /\ ~signals.shutdown
    /\ signals' = [signals EXCEPT !.shutdown = TRUE]
    /\ UNCHANGED <<flow, sock, write, elapsed, probe>>

-----------------------------------------------------------------------------
\* The responder.

Decided(v) == [ResponderAt("served") EXCEPT !.verdict = v]
ReadsState(p, why) == [p EXCEPT !.pc = "readsOutq", !.why = why]
BodyStarts == write' = [write EXCEPT !.at = "running"]

\* respond up to its first read of the socket; the baseline of a shared one is read before writing.
RespondStarts ==
    /\ probe.pc = "starts"
    /\ \/ /\ flow = "opaque"
          /\ BodyStarts /\ probe' = ResponderAt("awaits")
       \/ /\ flow = "own"
          /\ BodyStarts /\ probe' = ReadsState(probe, "first")
       \/ /\ Shared
          /\ probe' = ReadsState(probe, "baseline") /\ UNCHANGED write
    /\ UNCHANGED <<flow, sock, signals, elapsed>>

\* abortWrite when the write is out: deadlines become now, then its result is awaited.
AbortsWrite(p, else) ==
    IF p.writeDone
    THEN probe' = Decided(else) /\ UNCHANGED signals
    ELSE /\ probe' = [ResponderAt("aborting") EXCEPT !.else = else]
         /\ signals' = [signals EXCEPT !.raw = @ \/ ~Shared]

\* readSendState reads the unacknowledged count first.
ReadOutq ==
    /\ probe.pc = "readsOutq"
    /\ probe' = [probe EXCEPT !.pc = "readsInfo", !.outq = sock.sent - sock.acked]
    /\ UNCHANGED <<flow, sock, write, signals, elapsed>>

Seen(p, at) == [p EXCEPT !.pc = at, !.why = "none", !.outq = 0, !.acked = sock.acked, !.unacked = p.outq]

\* What each read of the acknowledged count is for.
AfterRead(p) ==
    CASE p.why = "baseline" -> ReadsState([p EXCEPT !.base = sock.acked, !.outq = 0], "first")
      [] p.why = "first" -> [Seen(p, "polls") EXCEPT !.lastAcked = sock.acked, !.lastProgress = elapsed]
      [] p.why = "written" -> [Seen(p, "judges") EXCEPT !.mark = sock.acked + p.outq]
      [] p.why = "tick" -> Seen(p, "polls")

ReadAcked ==
    /\ probe.pc = "readsInfo"
    /\ probe' = AfterRead(probe)
    /\ IF probe.why = "baseline" THEN BodyStarts ELSE UNCHANGED write
    /\ UNCHANGED <<flow, sock, signals, elapsed>>

ReadFails ==
    /\ probe.pc \in {"readsOutq", "readsInfo"}
    /\ IF probe.why \in {"baseline", "first"}
       THEN /\ probe' = ResponderAt("awaits")
            /\ IF probe.why = "baseline" THEN BodyStarts ELSE UNCHANGED write
            /\ UNCHANGED signals
       ELSE AbortsWrite(probe, "stalled") /\ UNCHANGED write
    /\ UNCHANGED <<flow, sock, elapsed>>

\* The top of the poll loop: the result of the write, if it is there.
Polls ==
    /\ probe.pc = "polls"
    /\ probe' = IF probe.writeDone \/ ~Returned THEN [probe EXCEPT !.pc = "judges"]
                ELSE CASE write.at = "panicked" -> Decided("aborted")
                       [] write.at = "failed" -> Decided("stalled")
                       [] write.at = "ok" -> ReadsState([probe EXCEPT !.writeDone = TRUE], "written")
    /\ UNCHANGED <<flow, sock, write, signals, elapsed>>

DeliveredOn_AnyDrain(p) ==
    IF Shared THEN p.acked - p.base >= Size ELSE p.unacked = 0

\* deliveredOn
DeliveredOn(p) ==
    IF Shared THEN p.acked - p.base >= Size /\ (p.acked >= p.mark \/ p.unacked = 0)
    ELSE p.unacked = 0

\* The rest of the loop body: delivered, stalled, or another tick.
PollJudges ==
    /\ probe.pc = "judges"
    /\ IF probe.writeDone /\ DeliveredOn(probe)
       THEN probe' = Decided("delivered") /\ UNCHANGED signals
       ELSE LET moved == probe.acked # probe.lastAcked \/ probe.unacked = 0
                p == IF moved THEN [probe EXCEPT !.lastAcked = probe.acked, !.lastProgress = elapsed]
                     ELSE probe
            IN IF elapsed - p.lastProgress >= StallTimeout \/ elapsed >= MaxWait
               THEN AbortsWrite(p, "stalled")
               ELSE probe' = [p EXCEPT !.pc = "sleeps"] /\ UNCHANGED signals
    /\ UNCHANGED <<flow, sock, write, elapsed>>

PollTick ==
    /\ probe.pc = "sleeps"
    /\ probe' = ReadsState(probe, "tick")
    /\ UNCHANGED <<flow, sock, write, signals, elapsed>>

PollSeesShutdown ==
    /\ probe.pc = "sleeps" /\ signals.shutdown
    /\ AbortsWrite(probe, "aborted")
    /\ UNCHANGED <<flow, sock, write, elapsed>>

\* The write that is being aborted returns.
AbortedWriteReturns ==
    /\ probe.pc \in {"aborting", "closing"} /\ Returned
    /\ probe' = Decided(IF write.at = "panicked" THEN "aborted" ELSE probe.else)
    /\ UNCHANGED <<flow, sock, write, signals, elapsed>>

AbortStreamWrite_Patient ==
    /\ Shared /\ ~Returned
    /\ probe.pc = "aborting"
    /\ probe' = [probe EXCEPT !.pc = "closing"]
    /\ UNCHANGED <<flow, sock, write, signals, elapsed>>

\* abortStreamWrite: past the first grace the stream is closed, past the second its write abandoned.
AbortStreamWrite ==
    /\ Shared /\ ~Returned
    /\ \/ /\ probe.pc = "aborting"
          /\ probe' = [probe EXCEPT !.pc = "closing"]
       \/ /\ probe.pc = "closing"
          /\ probe' = Decided(probe.else)
    /\ UNCHANGED <<flow, sock, write, signals, elapsed>>

\* verdictFor goes by when the write returned, not by when that is seen.
VerdictFor ==
    CASE write.at = "panicked" -> "aborted"
      [] write.at = "failed" \/ (write.at = "ok" /\ write.late) -> "stalled"
      [] OTHER -> "unknown"

\* abort of awaitWrite: deadlines become now, that of the raw socket only if it is the probe's own.
AwaitDeadline(s) == [s EXCEPT !.raw = @ \/ flow = "own"]

\* awaitWrite: the result, the shutdown, or max_wait, whichever the select takes.
AwaitWrite ==
    /\ probe.pc = "awaits"
    /\ \/ /\ Returned
          /\ probe' = Decided(VerdictFor) /\ UNCHANGED signals
       \/ /\ signals.shutdown
          /\ probe' = [probe EXCEPT !.pc = "graceful", !.else = "aborted"]
          /\ signals' = AwaitDeadline(signals)
       \/ /\ elapsed >= MaxWait
          /\ probe' = [probe EXCEPT !.pc = "graceful", !.else = "stalled"]
          /\ signals' = AwaitDeadline(signals)
    /\ UNCHANGED <<flow, sock, write, elapsed>>

\* What the grace after abort brings; nobody looks at the write when the probe ends aborted.
AwaitEnds ==
    /\ probe.pc = "graceful"
    /\ probe' = Decided(IF Returned /\ probe.else = "stalled" THEN VerdictFor ELSE probe.else)
    /\ UNCHANGED <<flow, sock, write, signals, elapsed>>

\* Verdicts that serve reports: not those of a proxy that shuts down.
Blamed(v) == ~signals.shutdown /\ v # "aborted" /\ (v = "stalled" => ReportStalled)

\* The rest of serve: close, and send the callback.
Serve ==
    /\ probe.pc = "served"
    /\ probe' = [ResponderAt("done") EXCEPT
                  !.verdict = probe.verdict,
                  !.reported = IF Blamed(probe.verdict) THEN probe.verdict ELSE "none"]
    /\ UNCHANGED <<flow, sock, write, signals, elapsed>>

ResponderSteps ==
    \/ ReadOutq \/ ReadAcked \/ Polls \/ PollJudges \/ PollTick
    \/ AbortedWriteReturns \/ AbortStreamWrite \/ AwaitWrite \/ AwaitEnds \/ Serve

ResponderNext ==
    \/ RespondStarts \/ ResponderSteps
    \/ ReadFails \/ PollSeesShutdown
    \/ WriteChunk \/ H2Flushes \/ (\E r \in {"ok", "failed", "panicked"} : WriteReturns(r))
    \/ ClientAcks \/ OtherStreamSends \/ ProbeTime \/ ShutDown

ResponderSpec == ResponderInit /\ [][ResponderNext]_responderVars

\* The goroutine is scheduled, its timers fire and the raw socket obeys its deadline; the network,
\* the client and the wrapper's Write promise nothing.
ResponderFairness ==
    /\ WF_responderVars(ResponderSteps)
    /\ WF_responderVars(ProbeTime)
    /\ WF_responderVars(WriteUnblocked /\ WriteReturns("failed"))

-----------------------------------------------------------------------------
\* A probe reported as delivered was delivered: the whole response is in the socket and the client
\* has acknowledged it, although the counts are two reads and other streams use the socket.  The
\* exception is a stream of h2mux among others: their bytes can stand in for a tail it still holds.
DeliveredIsAcknowledged ==
    probe.verdict = "delivered" =>
        \/ sock.inside = Size /\ sock.acked >= sock.ends
        \/ flow = "h2" /\ sock.others > 0

\* A response counted as a success without sight of the socket was written by max_wait.
UnknownIsInTime ==
    probe.verdict = "unknown" => write.at = "ok" /\ ~write.late

\* No probe of a multiplexed stream moves the deadline of the session's socket, which would cut
\* every other stream, whichever way the probe ends.
SessionIsSpared == Shared => ~signals.raw

\* A verdict that blames the route is reached neither by a write that panicked nor because the
\* proxy's own shutdown closed the connection.
RouteIsNotBlamed ==
    [][/\ probe.verdict = "none" /\ probe'.verdict \in {"stalled", "unknown", "delivered"} =>
              write.at # "panicked"
       /\ probe'.reported # probe.reported => ~signals.shutdown]_responderVars

\* Every probe ends, although its wrapper may ignore deadlines and its Write may never return.
ProbeEnds == probe.pc # "starts" ~> probe.pc = "done"

\* Every verdict is earned, and reaching it harms no other stream.
VerdictsAreEarned ==
    /\ [](DeliveredIsAcknowledged /\ UnknownIsInTime /\ SessionIsSpared)
    /\ RouteIsNotBlamed
=============================================================================
