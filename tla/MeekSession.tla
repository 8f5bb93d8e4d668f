---------------------------- MODULE MeekSession ----------------------------
(***************************************************************************)
(* One meek connection (protocol/meek/client.go, server.go): a client that *)
(* polls over HTTP with a sequence number and retries a poll that failed,  *)
(* a path that loses and delays requests and responses, and a server that  *)
(* keeps a session with an upstream connection, answers a repeated number  *)
(* with the response it kept, and drops the session on every error.        *)
(*                                                                         *)
(* Bytes are numbers, 1 for the first that is written.  The n-th upstream  *)
(* connection the server has dialled for the session ID is n.              *)
(***************************************************************************)
EXTENDS Integers, Sequences, FiniteSets

CONSTANTS
    MaxBytes,            \* bound on the bytes written, both directions together
    MaxBodyBytes,        \* of a request and of a response
    MaxWriteBufBytes,
    PumpCap,             \* what readPump buffers
    MaxPollRetries,
    MaxPolls,            \* bound on polls
    MaxConns,            \* bound on upstream connections
    LateRequests         \* a request may be served after a later poll has been answered

ASSUME MeekAssumption ==
    /\ {MaxBytes, MaxPollRetries} \subseteq Nat
    /\ {MaxBodyBytes, MaxWriteBufBytes, PumpCap, MaxPolls, MaxConns} \subseteq Nat \ {0}
    /\ LateRequests \in BOOLEAN

VARIABLES
    mode,          \* of the client: "open", "eof", "failed" or "closed"
    written,       \* bytes the application has written
    taken,         \* of these, taken from writeBuf for a poll
    nextSeq,       \* c.seq
    poll,          \* the poll in progress: its number, attempt and body, or NoPoll
    readBuf,       \* what the client has put in its read buffer, ever
    requests,      \* on their way to the server, or lost
    responses,     \* the response to the present attempt, if it is on its way, or lost
    handlers,      \* requests the server is working on
    current,       \* the upstream connection of the session in s.sessions, 0 if there is none
    sessions       \* every session there has been: the session of each upstream connection

meekVars == <<mode, written, taken, nextSeq, poll, readBuf, requests, responses, handlers, current,
              sessions>>

NoPoll == [seq |-> -1, attempt |-> 0, body |-> <<>>]

NewSession == [lastSeq |-> -1, lastResp |-> <<>>, pending |-> <<>>, produced |-> 0, done |-> "no",
               refuses |-> FALSE, closed |-> FALSE, received |-> <<>>]

Bytes(from, to) == [i \in 1..(to - from + 1) |-> from + i - 1]
AtMost(a, b) == IF a < b THEN a ELSE b

BytesLeft ==
    LET produced[n \in 0..Len(sessions)] == IF n = 0 THEN 0 ELSE produced[n - 1] + sessions[n].produced
    IN written + produced[Len(sessions)] < MaxBytes

MeekInit ==
    /\ mode = "open" /\ written = 0 /\ taken = 0 /\ nextSeq = 0 /\ poll = NoPoll /\ readBuf = <<>>
    /\ requests = {} /\ responses = {} /\ handlers = {}
    /\ current = 0 /\ sessions = <<>>

(***************************************************************************)
(* The client                                                              *)
(***************************************************************************)
\* Write appends while there is room in the backlog.
ClientWrites ==
    /\ mode = "open" /\ BytesLeft /\ written - taken < MaxWriteBufBytes
    /\ written' = written + 1
    /\ UNCHANGED <<mode, taken, nextSeq, poll, readBuf, requests, responses, handlers, current,
                   sessions>>

\* The first attempt of a poll takes a chunk, perhaps an empty one (takeWriteChunkLocked).
PollStarts ==
    LET upTo == AtMost(written, taken + MaxBodyBytes)
    IN /\ mode = "open" /\ poll = NoPoll /\ nextSeq < MaxPolls
       /\ poll' = [seq |-> nextSeq, attempt |-> 0, body |-> Bytes(taken + 1, upTo)]
       /\ taken' = upTo
       /\ requests' = requests \cup {poll'}
       /\ UNCHANGED <<mode, written, nextSeq, readBuf, responses, handlers, current, sessions>>

\* A retry has the same number and the same bytes.
Retried == [poll EXCEPT !.attempt = @ + 1]

\* What nobody will look at again: an answer to an attempt that was given up and, unless requests may
\* be late, a request of an earlier poll.
Forgotten(rs) == {r \in rs : LateRequests \/ r.seq = nextSeq'}

\* The attempt timed out or its connection broke: the request may still arrive, and the server may
\* have served it.
PollFails ==
    /\ mode = "open" /\ poll # NoPoll
    /\ IF poll.attempt >= MaxPollRetries
       THEN /\ mode' = "failed"
            /\ UNCHANGED <<poll, requests>>
       ELSE /\ poll' = Retried
            /\ requests' = requests \cup {poll'}
            /\ UNCHANGED mode
    /\ responses' = {}
    /\ UNCHANGED <<written, taken, nextSeq, readBuf, handlers, current, sessions>>

\* The response of the attempt that is being waited for.  Any status but 200 ends the connection, 410
\* with an end of stream.
ResponseArrives(r) ==
    /\ r \in responses /\ mode = "open"
    /\ responses' = {}
    /\ mode' = CASE r.status = 200 -> "open" [] r.status = 410 -> "eof" [] OTHER -> "failed"
    /\ IF r.status = 200
       THEN readBuf' = readBuf \o r.data /\ poll' = NoPoll /\ nextSeq' = nextSeq + 1
       ELSE UNCHANGED <<readBuf, poll, nextSeq>>
    /\ requests' = Forgotten(requests)
    /\ handlers' = {h \in handlers : h.stage # "waiting"} \cup Forgotten(handlers)
    /\ UNCHANGED <<written, taken, current, sessions>>

\* Close drops what has not been sent.
ClientCloses ==
    /\ mode = "open"
    /\ mode' = "closed"
    /\ UNCHANGED <<written, taken, nextSeq, poll, readBuf, requests, responses, handlers, current,
                   sessions>>

(***************************************************************************)
(* The server.  A handler passes through getOrCreateSession, waits for     *)
(* reqMu, writes upstream and takes what is pending, or replays, and drops *)
(* the session if anything failed.                                         *)
(***************************************************************************)
Handler(r, n) == [seq |-> r.seq, attempt |-> r.attempt, body |-> r.body, conn |-> n, stage |-> "waiting"]

\* The session of the ID, or a new one with an upstream connection of its own.
RequestArrives(r) ==
    /\ r \in requests
    /\ requests' = requests \ {r}
    /\ IF current # 0
       THEN /\ handlers' = handlers \cup {Handler(r, current)}
            /\ UNCHANGED <<current, sessions>>
       ELSE /\ Len(sessions) < MaxConns
            /\ sessions' = Append(sessions, NewSession)
            /\ current' = Len(sessions')
            /\ handlers' = handlers \cup {Handler(r, current')}
    /\ UNCHANGED <<mode, written, taken, nextSeq, poll, readBuf, responses>>

\* The upstream cannot be dialled.
RequestRefused(r) ==
    /\ r \in requests /\ current = 0
    /\ requests' = requests \ {r}
    /\ responses' = IF mode = "open" /\ r = poll THEN {[status |-> 502, data |-> <<>>]} ELSE responses
    /\ UNCHANGED <<mode, written, taken, nextSeq, poll, readBuf, handlers, current, sessions>>

Moves(h, stage) == handlers' = (handlers \ {h}) \cup {[h EXCEPT !.stage = stage]}

Answers(h, status, data) ==
    /\ responses' = IF mode = "open" /\ h.seq = poll.seq /\ h.attempt = poll.attempt
                    THEN {[status |-> status, data |-> data]} ELSE responses
    /\ handlers' = handlers \ {h}

ReqMuFree(n) == ~\E h \in handlers : h.conn = n /\ h.stage = "taking"

Replays_Never(h) == FALSE

Replays(h) == sessions[h.conn].lastSeq = h.seq

\* writeUpstream: an upstream that has ended may still take bytes, which go nowhere, until it refuses
\* them once.
Writes(h) ==
    LET s == sessions[h.conn]
    IN \/ /\ h.body = <<>>
          /\ Moves(h, "taking")
          /\ UNCHANGED sessions
       \/ /\ h.body # <<>> /\ ~s.closed /\ ~s.refuses /\ s.done # "broken"
          /\ sessions' = [sessions EXCEPT ![h.conn].received =
                             IF s.done = "no" THEN @ \o h.body ELSE @]
          /\ Moves(h, "taking")
       \/ /\ h.body # <<>> /\ (s.closed \/ s.done # "no")
          /\ sessions' = [sessions EXCEPT ![h.conn].refuses = TRUE]
          /\ Moves(h, "failing")

RequestServed(h) ==
    /\ h \in handlers /\ h.stage = "waiting" /\ ReqMuFree(h.conn)
    /\ IF Replays(h) THEN Answers(h, 200, sessions[h.conn].lastResp) /\ UNCHANGED sessions
       ELSE Writes(h) /\ UNCHANGED responses
    /\ UNCHANGED <<mode, written, taken, nextSeq, poll, readBuf, requests, current>>

\* takeDownstream gives what is pending, up to the size of a response; after waiting, perhaps nothing.
TakeDownstream(s) == SubSeq(s.pending, 1, AtMost(Len(s.pending), MaxBodyBytes))

UpstreamFinished(s) == s.done # "no" /\ s.pending = <<>>

\* The response is kept for a retry of the same number.
Served(s, seq, data) ==
    [s EXCEPT !.pending = SubSeq(@, Len(data) + 1, Len(@)), !.lastSeq = seq, !.lastResp = data]

DownstreamTaken(h) ==
    LET s == sessions[h.conn]
        data == TakeDownstream(s)
    IN /\ h \in handlers /\ h.stage = "taking"
       /\ IF UpstreamFinished(s)
          THEN /\ Moves(h, IF s.done = "broken" THEN "failing" ELSE "ending")
               /\ UNCHANGED <<sessions, responses>>
          ELSE /\ sessions' = [sessions EXCEPT ![h.conn] = Served(s, h.seq, data)]
               /\ Answers(h, 200, data)
       /\ UNCHANGED <<mode, written, taken, nextSeq, poll, readBuf, requests, current>>

\* session.close: a pump waiting for room gives up its bytes.
Closed == IF current = 0 THEN sessions ELSE [sessions EXCEPT ![current].closed = TRUE]

\* dropSession drops whatever session the ID has now.
SessionDropped(h) ==
    /\ h \in handlers /\ h.stage \in {"ending", "failing"}
    /\ sessions' = Closed
    /\ current' = 0
    /\ Answers(h, IF h.stage = "ending" THEN 410 ELSE 502, <<>>)
    /\ UNCHANGED <<mode, written, taken, nextSeq, poll, readBuf, requests>>

\* reapOnce: a client that still polls, or retries for as long as it may, is never idle that long.
Reaped ==
    /\ mode # "open" /\ current # 0
    /\ sessions' = Closed
    /\ current' = 0
    /\ UNCHANGED <<mode, written, taken, nextSeq, poll, readBuf, requests, responses, handlers>>

\* readPump takes a byte from upstream when there is room, or when nothing is buffered.
Pumped(n) ==
    LET s == sessions[n]
    IN /\ s.done = "no" /\ ~s.closed /\ BytesLeft
       /\ s.pending = <<>> \/ Len(s.pending) < PumpCap
       /\ sessions' = [sessions EXCEPT ![n].produced = @ + 1,
                                       ![n].pending = Append(@, <<n, s.produced + 1>>)]
       /\ UNCHANGED <<mode, written, taken, nextSeq, poll, readBuf, requests, responses, handlers,
                      current>>

\* The upstream finishes or breaks, and reads no more.
UpstreamEnds(n, how) ==
    /\ sessions[n].done = "no" /\ ~sessions[n].closed
    /\ sessions' = [sessions EXCEPT ![n].done = how]
    /\ UNCHANGED <<mode, written, taken, nextSeq, poll, readBuf, requests, responses, handlers,
                   current>>

\* The pump of a session that was closed: its read fails, or it holds bytes, gives them up and leaves
\* no error behind.
PumpStops(n, how) ==
    /\ sessions[n].done = "no" /\ sessions[n].closed
    /\ sessions' = [sessions EXCEPT ![n].done = how]
    /\ UNCHANGED <<mode, written, taken, nextSeq, poll, readBuf, requests, responses, handlers,
                   current>>

ServerSteps ==
    \E h \in handlers : RequestServed(h) \/ DownstreamTaken(h) \/ SessionDropped(h)

MeekNext ==
    \/ ClientWrites \/ PollStarts \/ PollFails \/ ClientCloses \/ Reaped
    \/ \E r \in responses : ResponseArrives(r)
    \/ \E r \in requests : RequestArrives(r) \/ RequestRefused(r)
    \/ \E h \in handlers : RequestServed(h) \/ DownstreamTaken(h) \/ SessionDropped(h)
    \/ \E n \in 1..Len(sessions) : Pumped(n)
    \/ \E n \in 1..Len(sessions), how \in {"eof", "broken"} : UpstreamEnds(n, how)
    \/ \E n \in 1..Len(sessions), how \in {"cut", "broken"} : PumpStops(n, how)

(***************************************************************************)
(* Properties                                                              *)
(***************************************************************************)
Received(n) == IF n <= Len(sessions) THEN sessions[n].received ELSE <<>>
From(n) == SelectSeq(readBuf, LAMBDA b : b[1] = n)
Produced(n) == IF n <= Len(sessions) THEN [i \in 1..sessions[n].produced |-> <<n, i>>] ELSE <<>>

\* The upstream direction of the first session: what the application writes against what the
\* upstream connection receives.
Upstream == INSTANCE ByteStream WITH sent <- Bytes(1, written), arrived <- Received(1)

\* The downstream direction: what the upstream sends against what Read can return.
Downstream == INSTANCE ByteStream WITH sent <- Produced(1), arrived <- From(1)

\* However polls are lost, delayed and retried, the bytes the upstream of the first session receives
\* are those written, in order, none twice and none left out (roundtripWithRetry: "no dup upstream,
\* no dropped downstream").
UpstreamIsAStream == Upstream!StreamSpec

\* The same for what comes back: a response that was lost is replayed whole and one that was read is
\* not read again (serveRequest).
DownstreamIsAStream == Downstream!StreamSpec

\* When a client whose session was never replaced sees the end of the stream, the upstream did end
\* cleanly, and the client has all it sent: an upstream that broke never looks like one that
\* finished (errUpstreamBroken), and pending drains first (upstreamFinished).
EndIsWhole ==
    mode = "eof" /\ Len(sessions) = 1 => sessions[1].done = "eof" /\ From(1) = Produced(1)

\* The client is never told of a clean end that no upstream had ("a truncated tunnel would reach the
\* caller as a clean finish", ServeHTTP).  Fails: dropSession closes whatever session the ID has, also
\* a newer one, whose pump may leave no error behind.
EndIsHonest == mode = "eof" => \E n \in 1..Len(sessions) : sessions[n].done = "eof"

\* A client that is gone leaves no upstream connection open: every session it had is dropped or
\* reaped (dropSession, reapOnce).
SessionsAreReleased == mode # "open" ~> \A n \in 1..Len(sessions) : sessions[n].closed

\* No byte is sent twice on an upstream connection ("a lost request or lost response can't dup or drop
\* bytes", client.go).  Fails when requests may be late: serveRequest recognises a repeated number only
\* until the next one.
NothingTwice ==
    \A n \in 1..Len(sessions) :
        LET got == sessions[n].received IN \A i, j \in 1..Len(got) : got[i] = got[j] => i = j

\* The tunnel carries both byte streams as they are, ends when they end, and does not stay behind
\* when the client is gone.
TunnelIsFaithful ==
    /\ UpstreamIsAStream /\ DownstreamIsAStream
    /\ []EndIsWhole
    /\ SessionsAreReleased
=============================================================================
