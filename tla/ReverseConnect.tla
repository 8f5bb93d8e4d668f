--------------------------- MODULE ReverseConnect ---------------------------
(***************************************************************************)
(* Opening a CONNECT stream on a reverse session                           *)
(* (protocol/samizdatreverse/outbound.go: connect, streamConn).            *)
(*                                                                         *)
(* The stream's context is cancelled by the caller's context or by the     *)
(* header timer, but only until the response arrives.  Both cancelers run  *)
(* in goroutines of their own: one that has fired may run long after       *)
(* connect has found it so.                                                *)
(***************************************************************************)
EXTENDS Naturals

VARIABLES
    dial,       \* "trip", "stopping", or what connect returned: "conn", "failed"
    canceler,   \* "caller", "timer" -> "armed", "fired", "ran", "stopped"
    streamDead, \* streamCtx
    response,   \* "none", "ok", "refused" (another status), "error"
    open        \* the ends that are open: "body" of the response, "pipe" of the request

connectVars == <<dial, canceler, streamDead, response, open>>

Cancelers == {"caller", "timer"}

ConnectInit ==
    /\ dial = "trip"
    /\ canceler = [x \in Cancelers |-> "armed"]
    /\ streamDead = FALSE
    /\ response = "none"
    /\ open = {"pipe"}

\* The caller's context ends, or connectTimeout passes.
Fires(x) ==
    /\ canceler[x] = "armed"
    /\ canceler' = [canceler EXCEPT ![x] = "fired"]
    /\ UNCHANGED <<dial, streamDead, response, open>>

\* Its goroutine calls cancelStream.
Runs(x) ==
    /\ canceler[x] = "fired"
    /\ canceler' = [canceler EXCEPT ![x] = "ran"]
    /\ streamDead' = TRUE
    /\ UNCHANGED <<dial, response, open>>

\* RoundTrip returns, and stopCaller is called.
RoundTrip(r) ==
    /\ dial = "trip"
    /\ dial' = "stopping" /\ response' = r
    /\ open' = IF r = "error" THEN open ELSE open \cup {"body"}
    /\ canceler' = [canceler EXCEPT !["caller"] = IF @ = "armed" THEN "stopped" ELSE @]
    /\ UNCHANGED streamDead

Detached_IgnoresTimer(c) == c["caller"] = "stopped"

\* Neither canceler fired before it was stopped.
Detached(c) == \A x \in Cancelers : c[x] = "stopped"

\* headerTimer.Stop, and what connect returns: not a conn that is dying or about to.
ConnectReturns ==
    LET c == [canceler EXCEPT !["timer"] = IF @ = "armed" THEN "stopped" ELSE @]
    IN /\ dial = "stopping"
       /\ canceler' = c
       /\ IF response = "ok" /\ Detached(c)
          THEN dial' = "conn" /\ UNCHANGED <<streamDead, open>>
          ELSE dial' = "failed" /\ streamDead' = TRUE /\ open' = {}
       /\ UNCHANGED response

\* The relay half-closes or closes the conn.
CloseWriteConn ==
    /\ dial = "conn" /\ "pipe" \in open
    /\ open' = open \ {"pipe"}
    /\ UNCHANGED <<dial, canceler, streamDead, response>>

CloseConn ==
    /\ dial = "conn" /\ ~streamDead
    /\ open' = {} /\ streamDead' = TRUE
    /\ UNCHANGED <<dial, canceler, response>>

ConnectNext ==
    \/ \E x \in Cancelers : Fires(x) \/ Runs(x)
    \/ \E r \in {"ok", "refused", "error"} : RoundTrip(r)
    \/ ConnectReturns \/ CloseWriteConn \/ CloseConn

ConnectSpec == ConnectInit /\ [][ConnectNext]_connectVars

\* A conn that is handed back dies only by its own Close: no canceler that fired earlier, and no
\* caller that ends its context once the dial is done, cancels the stream under the relay; and a
\* dial that failed leaves neither the stream nor its pipe or body behind (outbound.go, lines
\* 138-140 and 158-159).
ConnDiesByItsClose ==
    /\ dial = "conn" /\ streamDead => open = {}
    /\ dial = "conn" => \A x \in Cancelers : canceler[x] # "fired"
    /\ dial = "failed" => streamDead /\ open = {}
=============================================================================
