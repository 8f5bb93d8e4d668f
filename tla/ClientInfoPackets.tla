-------------------------- MODULE ClientInfoPackets --------------------------
(***************************************************************************)
(* The client-info frame of a packet flow (tracker/clientcontext:          *)
(* exchangePacket of exchange.go, readPacketConn of manager.go).           *)
(*                                                                         *)
(* The frame is one datagram, sent before the caller's.  Datagrams are     *)
(* lost, duplicated and reordered: what was sent stays "in the air", and   *)
(* one that is lost is one that never arrives.                             *)
(***************************************************************************)
EXTENDS Integers, Sequences, FiniteSets

CONSTANTS
    Packets,   \* the caller's datagrams, which do not look like a frame
    MaxArrived \* bound on arrivals

Frames == {"frame", "legacy"}

ASSUME PacketsAssumption == MaxArrived \in Nat /\ Packets \cap Frames = {}

VARIABLES
    air,      \* datagrams sent
    arrived,  \* number of arrivals so far
    reader,   \* "info" (the first packet is awaited), "open", "failed"
    cached,   \* the first packet, to be replayed: a sequence of none or one
    passed,   \* what the destination got, in order
    firstWas, \* history: the first packet that arrived
    known     \* the client info was read

packetVars == <<air, arrived, reader, cached, passed, firstWas, known>>

PacketsInit ==
    /\ air = {} /\ arrived = 0 /\ reader = "info" /\ cached = <<>> /\ passed = <<>>
    /\ firstWas = "none" /\ known = FALSE

\* exchangePacket, then the caller; a client may also send no frame.
Send(p) ==
    /\ p \notin air
    /\ p \in Frames => air = {}
    /\ air' = air \cup {p}
    /\ UNCHANGED <<arrived, reader, cached, passed, firstWas, known>>

Arrives(p) == p \in air /\ arrived < MaxArrived /\ arrived' = arrived + 1

\* readInfo: the first packet is a frame that decodes, one that does not, or traffic to replay.
ReadInfo(p) ==
    /\ reader = "info" /\ Arrives(p)
    /\ firstWas' = p
    /\ reader' = "open"
    /\ IF p \in Frames
       THEN known' \in BOOLEAN /\ UNCHANGED cached
       ELSE cached' = <<p>> /\ UNCHANGED known
    /\ UNCHANGED <<air, passed>>

\* The first read fails: so do all later ones.
ReadInfoFails ==
    /\ reader = "info"
    /\ reader' = "failed"
    /\ UNCHANGED <<air, arrived, cached, passed, firstWas, known>>

Replay ==
    /\ reader = "open" /\ cached # <<>>
    /\ passed' = passed \o cached /\ cached' = <<>>
    /\ UNCHANGED <<air, arrived, reader, firstWas, known>>

Forwards_All(p) == <<p>>

\* ReadPacket drops a frame wherever it comes.
Forwards(p) == IF p \in Frames THEN <<>> ELSE <<p>>

\* The cached packet comes before what arrives later.
ReplayFirst == cached = <<>>

ReadPacket(p) ==
    /\ reader = "open" /\ ReplayFirst /\ Arrives(p)
    /\ passed' = passed \o Forwards(p)
    /\ UNCHANGED <<air, reader, cached, firstWas, known>>

PacketsNext ==
    \/ \E p \in Packets \cup Frames : Send(p) \/ ReadInfo(p) \/ ReadPacket(p)
    \/ ReadInfoFails \/ Replay

PacketsSpec == PacketsInit /\ [][PacketsNext]_packetVars

\* No client info reaches the destination, although its datagram may be late or doubled; and the
\* packet that was read to look for it is not lost: it is the first the destination gets.
PacketsPassClean ==
    /\ \A i \in 1..Len(passed) : passed[i] \in Packets
    /\ passed # <<>> /\ firstWas \in Packets => passed[1] = firstWas
=============================================================================
