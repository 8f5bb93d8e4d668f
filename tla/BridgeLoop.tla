----------------------------- MODULE BridgeLoop -----------------------------
(***************************************************************************)
(* The bridge's dial loop (protocol/samizdatreverse/bridge.go: Start, run, *)
(* runSession, Close) with the dials it makes (eyeballs.go:                *)
(* dialHappyEyeballs).                                                     *)
(*                                                                         *)
(* A dial runs in a goroutine of its own and sends its result on a         *)
(* buffered channel.  When the race is decided, or the bridge is closed,   *)
(* the dials still pending are drained by another goroutine; they may      *)
(* ignore their cancelled context and connect much later.                  *)
(***************************************************************************)
EXTENDS Naturals, FiniteSets

CONSTANTS
    Addrs,       \* number of the portal's addresses, in the order they are tried
    MaxAttempts, \* bound on attempts
    BackoffMin, BackoffMax

ASSUME LoopAssumption ==
    /\ Addrs \in Nat \ {0} /\ MaxAttempts \in Nat \ {0}
    /\ BackoffMin \in Nat \ {0} /\ BackoffMax \in Nat /\ BackoffMin <= BackoffMax

VARIABLES
    loop,     \* "off", "dialing", "serving", "sleeping", "ended"
    attempt,  \* attempts begun
    started,  \* next: how many addresses of this attempt have been tried
    awaited,  \* pending: results this attempt has not received
    dials,    \* <<attempt, address>> -> where the dial and its connection are
    drain,    \* attempt -> results its drain goroutine still receives
    backoff,
    cancelled \* b.ctx

loopVars == <<loop, attempt, started, awaited, dials, drain, backoff, cancelled>>

Dials == (1..MaxAttempts) \X (1..Addrs)

\* "dialing"; "connected" or "failed" with the result in the channel; then "served" (the session),
\* "closed" or "lost" (the received error).
Ours(d) == d[1] = attempt
Sent == {"connected", "failed"}

LoopInit ==
    /\ loop = "off" /\ attempt = 0 /\ started = 0 /\ awaited = 0
    /\ dials = [d \in Dials |-> "none"]
    /\ drain = [a \in 1..MaxAttempts |-> 0]
    /\ backoff = BackoffMin
    /\ cancelled = FALSE

\* A new attempt: the first address is dialed.
Attempts ==
    /\ loop' = "dialing"
    /\ attempt' = attempt + 1
    /\ dials' = [dials EXCEPT ![<<attempt + 1, 1>>] = "dialing"]
    /\ started' = 1 /\ awaited' = 1

Start ==
    /\ loop = "off" /\ ~cancelled
    /\ Attempts
    /\ UNCHANGED <<drain, backoff, cancelled>>

\* A dial comes to its end, cancelled or not, and sends its result.
DialEnds(d, result) ==
    /\ dials[d] = "dialing"
    /\ dials' = [dials EXCEPT ![d] = result]
    /\ UNCHANGED <<loop, attempt, started, awaited, drain, backoff, cancelled>>

\* eyeballsDelay passes.
DelayPasses ==
    /\ loop = "dialing" /\ started < Addrs
    /\ started' = started + 1 /\ awaited' = awaited + 1
    /\ dials' = [dials EXCEPT ![<<attempt, started + 1>>] = "dialing"]
    /\ UNCHANGED <<loop, attempt, drain, backoff, cancelled>>

\* abandon: a goroutine receives, and closes, what the pending dials return.
Abandon(n) == [drain EXCEPT ![attempt] = n]

\* A connection wins: it is served, the others are abandoned.
Wins(d) ==
    /\ loop = "dialing" /\ Ours(d) /\ dials[d] = "connected"
    /\ loop' = "serving"
    /\ dials' = [dials EXCEPT ![d] = "served"]
    /\ awaited' = awaited - 1
    /\ drain' = Abandon(awaited - 1)
    /\ UNCHANGED <<attempt, started, backoff, cancelled>>

\* A failed dial is followed at once by the next address.
AfterFailure == started < Addrs

Doubled(b) == IF 2 * b < BackoffMax THEN 2 * b ELSE BackoffMax

AttemptFails(d) ==
    /\ loop = "dialing" /\ Ours(d) /\ dials[d] = "failed"
    /\ IF AfterFailure
       THEN /\ dials' = [dials EXCEPT ![d] = "lost", ![<<attempt, started + 1>>] = "dialing"]
            /\ started' = started + 1
            /\ UNCHANGED <<loop, awaited, backoff>>
       ELSE /\ dials' = [dials EXCEPT ![d] = "lost"]
            /\ awaited' = awaited - 1
            /\ IF awaited = 1
               THEN /\ loop' = IF cancelled THEN "ended" ELSE "sleeping"
                    /\ backoff' = IF cancelled THEN backoff ELSE Doubled(backoff)
               ELSE UNCHANGED <<loop, backoff>>
            /\ UNCHANGED started
    /\ UNCHANGED <<attempt, drain, cancelled>>

\* b.ctx ends while dialing.
DialCancelled ==
    /\ loop = "dialing" /\ cancelled
    /\ loop' = "ended"
    /\ drain' = Abandon(awaited)
    /\ UNCHANGED <<attempt, started, awaited, dials, backoff, cancelled>>

RunSessionEnds_Open(long) ==
    /\ loop = "serving"
    /\ loop' = IF cancelled THEN "ended" ELSE "sleeping"
    /\ backoff' = IF cancelled THEN backoff
                  ELSE Doubled(IF long THEN BackoffMin ELSE backoff)
    /\ UNCHANGED <<attempt, started, awaited, dials, drain, cancelled>>

\* ServeConn returns: the portal or b.ctx closed the connection, and it is closed here; after a
\* long session the backoff starts over.
RunSessionEnds(long) ==
    /\ loop = "serving"
    /\ dials' = [d \in Dials |-> IF dials[d] = "served" THEN "closed" ELSE dials[d]]
    /\ loop' = IF cancelled THEN "ended" ELSE "sleeping"
    /\ backoff' = IF cancelled THEN backoff
                  ELSE Doubled(IF long THEN BackoffMin ELSE backoff)
    /\ UNCHANGED <<attempt, started, awaited, drain, cancelled>>

\* The sleep ends, with the next attempt or with b.ctx.
BackoffEnds ==
    /\ loop = "sleeping"
    /\ \/ ~cancelled /\ attempt < MaxAttempts /\ Attempts
       \/ cancelled /\ loop' = "ended" /\ UNCHANGED <<attempt, dials, started, awaited>>
    /\ UNCHANGED <<drain, backoff, cancelled>>

\* The drain goroutine of attempt a receives a result.
Drains(d) ==
    /\ drain[d[1]] > 0 /\ dials[d] \in Sent
    /\ dials' = [dials EXCEPT ![d] = IF @ = "connected" THEN "closed" ELSE "lost"]
    /\ drain' = [drain EXCEPT ![d[1]] = @ - 1]
    /\ UNCHANGED <<loop, attempt, started, awaited, backoff, cancelled>>

\* Close cancels b.ctx and then waits for the loop.
CloseBridge ==
    /\ ~cancelled
    /\ cancelled' = TRUE
    /\ loop' = IF loop = "off" THEN "ended" ELSE loop
    /\ UNCHANGED <<attempt, started, awaited, dials, drain, backoff>>

LoopNext ==
    \/ Start \/ DelayPasses \/ DialCancelled \/ BackoffEnds \/ CloseBridge
    \/ \E d \in Dials :
          \/ \E result \in Sent : DialEnds(d, result)
          \/ Wins(d) \/ AttemptFails(d) \/ Drains(d)
    \/ \E long \in BOOLEAN : RunSessionEnds(long)

\* What the loop does once the bridge is closed.
LoopStep ==
    \/ DialCancelled
    \/ cancelled /\ (BackoffEnds \/ \E long \in BOOLEAN : RunSessionEnds(long))

\* The drain goroutines run; that a cancelled session or dial ends is the library's promise, that
\* an abandoned dial ends is the network's timeout.
LoopFairness ==
    /\ WF_loopVars(LoopStep)
    /\ WF_loopVars(\E d \in Dials : Drains(d))
    /\ WF_loopVars(\E d \in Dials, result \in Sent : DialEnds(d, result))

LoopSpec == LoopInit /\ [][LoopNext]_loopVars

(***************************************************************************)
(* Properties.                                                             *)
(***************************************************************************)
\* One connection at a time carries a session, and none does once the loop has moved on: runSession
\* closes what it served, whichever address won.
OneSession ==
    Cardinality({d \in Dials : dials[d] = "served"}) = IF loop = "serving" THEN 1 ELSE 0

\* Every dial whose result has not been received, the late ones of earlier attempts too, is counted
\* exactly once, by the race or by a drain goroutine.
EveryDialIsCounted ==
    \A a \in 1..MaxAttempts :
        Cardinality({d \in Dials : d[1] = a /\ dials[d] \in Sent \cup {"dialing"}}) =
            drain[a] + IF a = attempt /\ loop = "dialing" THEN awaited ELSE 0

\* An attempt is given up for lack of a connection only when every address has been tried.
EveryAddressIsTried ==
    [][loop = "dialing" /\ loop' = "sleeping" =>
          \A n \in 1..Addrs : dials'[<<attempt, n>>] = "lost"]_loopVars

\* A connection that lost the race or came after the bridge was closed does not stay open: again
\* and again, whatever is connected belongs to the race that is on.
LosersAreClosed ==
    []<>(\A d \in Dials : dials[d] = "connected" => d[1] = attempt /\ loop = "dialing")

\* Close returns: the loop ends.
BridgeCloses == cancelled ~> loop = "ended"

\* The bridge tries every address, keeps one session, and leaves neither a dial, nor a connection,
\* nor itself behind.
BridgeIsSound ==
    /\ [](OneSession /\ EveryDialIsCounted)
    /\ EveryAddressIsTried
    /\ LosersAreClosed /\ BridgeCloses
=============================================================================
