-------------------------- MODULE ClientInfoStream --------------------------
(***************************************************************************)
(* The client-info frame at the head of a proxied stream: sent by the      *)
(* client (tracker/clientcontext/outbound.go, exchange.go), read and       *)
(* stripped by the server (manager.go: readConn, pendingHead).             *)
(*                                                                         *)
(* The stream is a sequence of tokens.  "c" is what both markers begin     *)
(* with, "2" makes it a client-info marker, "_" the legacy one; "j", "k"   *)
(* are the two halves of the encoded client info, all else is the          *)
(* caller's data.  Bytes arrive in any chunks and with any delay.          *)
(***************************************************************************)
EXTENDS Integers, Sequences, SequencesExt

VARIABLES
    mode,      \* how the client sends: see Modes
    dial,      \* DialContext of a "sync" client: "exchange", "stopping", "conn" or "failed"
    ctx,       \* its context: "live", "ended" (AfterFunc started), "closed" (and has closed conn)
    frame,     \* what is left of the frame to send
    sent,      \* frameConn.sent
    writer,    \* "kick" (the router's nil write) and "relay" -> where their Write is
    data,      \* what is left of the caller's data
    wire,      \* sent and not read
    connEnded, \* the client's end is closed
    server,    \* what the server is at: see Reading
    head,      \* read and not classified, or not decoded
    out,       \* forwarded to the destination
    info,      \* "none", "attributed", "late" (decoded too late to attribute)
    acked      \* ackResponse was written

clientVars == <<mode, dial, ctx, frame, sent, writer, data>>
serverVars == <<server, head, out, info, acked>>
infoVars == <<clientVars, wire, connEnded, serverVars>>

\* "sync" writes the frame before the dial returns, "early" with the first write, "legacy" waits
\* for the ack, "plain" and "like" send none; what "like" sends begins like a marker.
Modes == {"sync", "early", "legacy", "plain", "like"}

Frame(m) ==
    CASE m \in {"sync", "early"} -> <<"c", "2", "j", "k">>
      [] m = "legacy" -> <<"c", "_", "j", "k">>
      [] OTHER -> <<>>

Data(m) == IF m = "like" THEN <<"c", "x">> ELSE <<"x", "y">>

Writers == {"kick", "relay"}

InfoInit ==
    /\ mode \in Modes
    /\ dial = IF mode = "sync" THEN "exchange" ELSE "conn"
    /\ ctx = "live"
    /\ frame = Frame(mode)
    /\ sent = (mode # "early")
    /\ writer = [w \in Writers |-> "idle"]
    /\ data = Data(mode)
    /\ wire = <<>> /\ connEnded = FALSE
    /\ server = "first" /\ head = <<>> /\ out = <<>> /\ info = "none" /\ acked = FALSE

(***************************************************************************)
(* The client.                                                             *)
(***************************************************************************)
Sends(tokens) == wire' = wire \o tokens

\* exchangeStream of a "sync" client and the frame of a legacy one: n tokens go out.
ExchangeWrites(n) ==
    /\ mode = "legacy" \/ (dial = "exchange" /\ ctx # "closed")
    /\ mode \in {"sync", "legacy"} /\ n \in 1..Len(frame) /\ ~connEnded
    /\ Sends(SubSeq(frame, 1, n))
    /\ frame' = SubSeq(frame, n + 1, Len(frame))
    /\ UNCHANGED <<mode, dial, ctx, sent, writer, data, connEnded, serverVars>>

\* The dial's context ends or exchangeTimeout passes; its goroutine then closes the conn.
DialContextEnds ==
    /\ dial = "exchange" /\ ctx = "live"
    /\ ctx' = "ended"
    /\ UNCHANGED <<mode, dial, frame, sent, writer, data, wire, connEnded, serverVars>>

ContextCloses ==
    /\ ctx = "ended"
    /\ ctx' = "closed" /\ connEnded' = TRUE
    /\ UNCHANGED <<mode, dial, frame, sent, writer, data, wire, serverVars>>

\* exchange returned nil, and stop() found AfterFunc not started.
Succeeds == frame = <<>> /\ ctx = "live"

\* runExchange: a started AfterFunc is waited for; a failed write closes the conn.
ExchangeReturns ==
    /\ dial = "exchange"
    /\ \/ Succeeds /\ dial' = "conn" /\ UNCHANGED connEnded
       \/ ctx = "closed" /\ dial' = "failed" /\ UNCHANGED connEnded
       \/ ctx = "live" /\ frame # <<>> /\ dial' = "failed" /\ connEnded' = TRUE
    /\ UNCHANGED <<mode, ctx, frame, sent, writer, data, wire, serverVars>>

\* frameConn.Write, slow path: one writer at a time, under writeMu.
Locked == \E w \in Writers : writer[w] \in {"locked", "written", "failed"}

WriteLocks(w) ==
    /\ mode = "early" /\ ~sent /\ ~Locked /\ writer[w] = "idle" /\ ~connEnded
    /\ writer' = [writer EXCEPT ![w] = "locked"]
    /\ UNCHANGED <<mode, dial, ctx, frame, sent, data, wire, connEnded, serverVars>>

Payload(w) == IF w = "kick" THEN <<>> ELSE SubSeq(data, 1, 1)

\* The inner write puts n tokens of frame and payload out; less than all of them is an error.
WriteOut(w, n) ==
    LET all == frame \o Payload(w)
    IN /\ writer[w] = "locked" /\ ~sent /\ n \in 0..Len(all) /\ ~connEnded
       /\ Sends(SubSeq(all, 1, n))
       /\ frame' = SubSeq(frame, n + 1, Len(frame))
       /\ data' = IF n > Len(frame) THEN Tail(data) ELSE data
       /\ writer' = [writer EXCEPT ![w] = IF n = Len(all) THEN "written" ELSE "failed"]
       /\ UNCHANGED <<mode, dial, ctx, sent, connEnded, serverVars>>

\* And sent is set only once the frame is out.  A router that lost its kick goes on relaying.
WriteUnlocks(w) ==
    /\ writer[w] \in {"written", "failed"}
    /\ sent' = (sent \/ frame = <<>>)
    /\ writer' = [writer EXCEPT ![w] = IF w = "relay" /\ @ = "failed" THEN "broken"
                                       ELSE IF w = "kick" THEN "over" ELSE "idle"]
    /\ UNCHANGED <<mode, dial, ctx, frame, data, wire, connEnded, serverVars>>

RelayMayPass_Locked == sent \/ \E w \in Writers : writer[w] = "locked"

\* The fast path.
RelayMayPass == sent

RelayWrites ==
    /\ dial = "conn" /\ RelayMayPass /\ writer["relay"] = "idle" /\ data # <<>> /\ ~connEnded
    /\ mode = "legacy" => acked
    /\ Sends(SubSeq(data, 1, 1))
    /\ data' = Tail(data)
    /\ UNCHANGED <<mode, dial, ctx, frame, sent, writer, connEnded, serverVars>>

\* The client closes, or its connection breaks.
ClientEnds ==
    /\ ~connEnded /\ dial # "exchange"
    /\ connEnded' = TRUE
    /\ UNCHANGED <<clientVars, wire, serverVars>>

(***************************************************************************)
(* The server.                                                             *)
(***************************************************************************)
\* "first" and "second" are the windows of readInfo, "pending" is a pendingHead; "decode" and
\* "lateDecode" decode a frame; then the rest of the "stream" is copied, or reads "fail".
Reading == {"first", "second", "pending"}

\* The bytes read are a proper prefix of a marker.
Undecided(h) == h \in {<<>>, <<"c">>}

HasMarker(h) == Len(h) >= 2 /\ h[1] = "c" /\ h[2] \in {"2", "_"}

\* consumeHead: ordinary traffic is restored, a marker stripped.
Consumes(h) ==
    IF HasMarker(h)
    THEN /\ server' = IF server = "pending" THEN "lateDecode" ELSE "decode"
         /\ head' = h
         /\ UNCHANGED out
    ELSE /\ server' = "stream" /\ head' = <<>> /\ out' = out \o h

Receives(n) == n \in 1..Len(wire) /\ wire' = SubSeq(wire, n + 1, Len(wire))

\* readHead reads what there is, and again while it cannot tell.
HeadReads(n) ==
    LET h == head \o SubSeq(wire, 1, n)
    IN /\ server \in Reading /\ Receives(n)
       /\ IF Undecided(h) THEN head' = h /\ UNCHANGED <<server, out>> ELSE Consumes(h)
       /\ UNCHANGED <<clientVars, connEnded, info, acked>>

\* A partial marker gets a second window; else classification is left to the first Read.
HeadTimesOut ==
    /\ server \in {"first", "second"}
    /\ server' = IF server = "first" /\ head # <<>> THEN "second" ELSE "pending"
    /\ UNCHANGED <<clientVars, wire, connEnded, head, out, info, acked>>

\* The stream ends before it is classified.
HeadEnds ==
    /\ server \in Reading /\ connEnded /\ wire = <<>>
    /\ IF head = <<>> THEN server' = "fail" /\ UNCHANGED <<head, out>> ELSE Consumes(head)
    /\ UNCHANGED <<clientVars, wire, connEnded, info, acked>>

\* What follows the marker and the client info.
Rest(h) == SubSeq(h, 5, Len(h))

Acks(h) == h[2] = "_"

\* The decoder has the whole client info; a legacy sender is answered.
Decoded ==
    /\ server \in {"decode", "lateDecode"} /\ Len(head) >= 4
    /\ info' = IF server = "decode" THEN "attributed" ELSE "late"
    /\ acked' = Acks(head)
    /\ server' = "stream" /\ head' = <<>>
    /\ out' = out \o Rest(head)
    /\ UNCHANGED <<clientVars, wire, connEnded>>

DecodeReads(n) ==
    /\ server \in {"decode", "lateDecode"} /\ Len(head) < 4 /\ Receives(n)
    /\ head' = head \o SubSeq(wire, 1, n)
    /\ UNCHANGED <<clientVars, connEnded, server, out, info, acked>>

\* Its window passes, the stream ends, or the ack cannot be written: reads fail from now on.
DecodeFails ==
    /\ server \in {"decode", "lateDecode"}
    /\ server' = "fail"
    /\ UNCHANGED <<clientVars, wire, connEnded, head, out, info, acked>>

StreamReads(n) ==
    /\ server = "stream" /\ Receives(n)
    /\ out' = out \o SubSeq(wire, 1, n)
    /\ UNCHANGED <<clientVars, connEnded, server, head, info, acked>>

ServerStep ==
    \/ Decoded \/ HeadEnds
    \/ \E n \in 1..Len(wire) : HeadReads(n) \/ DecodeReads(n) \/ StreamReads(n)

InfoNext ==
    \/ \E n \in 1..Len(frame) : ExchangeWrites(n)
    \/ DialContextEnds \/ ContextCloses \/ ExchangeReturns
    \/ \E w \in Writers :
          \/ WriteLocks(w) \/ WriteUnlocks(w)
          \/ \E n \in 0..Len(frame) + 1 : WriteOut(w, n)
    \/ RelayWrites \/ ClientEnds
    \/ HeadTimesOut \/ DecodeFails
    \/ ServerStep

\* The server reads what has arrived.
InfoFairness == WF_infoVars(ServerStep)

InfoSpec == InfoInit /\ [][InfoNext]_infoVars

(***************************************************************************)
(* Properties.                                                             *)
(***************************************************************************)
\* The destination receives the caller's data, all of it in order and nothing else: no part of the
\* client info, although the frame may be written in parts by two writers, arrive in parts and
\* after both windows, and data may look like a marker.  (A stream that ends within the marker
\* hands over the half marker.)
DestinationSeesTheData ==
    \/ IsPrefix(out, Data(mode))
    \/ out = <<"c">> /\ connEnded /\ wire = <<>>

\* A dial that succeeds has sent the whole frame and returns a conn its context has not closed and
\* will not; one that fails leaves the conn closed.
DialIsWhole ==
    /\ mode = "sync" /\ dial = "conn" => ctx = "live" /\ frame = <<>>
    /\ dial = "failed" => connEnded

\* A legacy client that has sent its frame is answered, or its connection fails, however late the
\* frame comes: it waits for the answer before it sends anything.
LegacyIsAnswered == mode = "legacy" /\ frame = <<>> ~> acked \/ server = "fail"

\* The client info goes in front of a stream without a trace: the data is intact, a dial succeeds
\* whole or not at all, and clients of the old protocol get their answer.
InfoIsInvisible ==
    /\ [](DestinationSeesTheData /\ DialIsWhole)
    /\ LegacyIsAnswered
=============================================================================
