---------------------------- MODULE DatacapUsage ----------------------------
(***************************************************************************)
(* How a device's usage is counted and reported (tracker/datacap:          *)
(* reporter.go, and the counting of conn.go and packet_conn.go).           *)
(*                                                                         *)
(* One device and one traffic category: devices share nothing but the      *)
(* order of a flush, categories only the report.  A device's entry is      *)
(* dropped when two flushes in a row find it without connections, and a    *)
(* later connection makes a new one, so entries are numbered.  Counting    *)
(* uses atomics and runs in the middle of a flush too: a flush takes the   *)
(* bytes in one step and the connections in another.                       *)
(***************************************************************************)
EXTENDS Integers, FiniteSets, FiniteSetsExt

CONSTANTS
    Conns,
    MaxEntries, \* bound on entries
    MaxOwed     \* bound on bytes the sidecar has not confirmed

ASSUME UsageAssumption == IsFiniteSet(Conns) /\ MaxEntries \in Nat /\ MaxOwed \in Nat

VARIABLES
    usage,    \* entry -> deviceUsage: open connections, idle, bytes, bidirectional connections
    listed,   \* the entry in r.devices, 0 if none
    conns,    \* connection -> its entry, flags and I/O in progress
    flush,    \* "none", "taking" (r.mu is held), "posting"
    taken,    \* the usageDelta of the flush, and the entry it is of
    reporter, \* "running", "stopping" (r.stop is closed), "final" (the last flush), "done"
    owed,     \* history: bytes and connections counted and not confirmed by the sidecar
    late,     \* history: entries something was counted on after they were dropped
    failed    \* history: the last flush's report failed

usageVars == <<usage, listed, conns, flush, taken, reporter, owed, late, failed>>

Directions == {"read", "write"}
Entries == 1..MaxEntries
NoUsage == [open |-> 0, idle |-> FALSE, bytes |-> 0, both |-> 0]
NoConn == [entry |-> 0, seen |-> {}, counted |-> FALSE, open |-> FALSE, busy |-> {}, counting |-> {}]
Nothing == [entry |-> 0, bytes |-> 0, both |-> 0]

UsageTypeOK ==
    /\ usage \in [Entries -> [open : Nat, idle : BOOLEAN, bytes : Nat, both : Nat]]
    /\ listed \in 0..MaxEntries
    /\ conns \in [Conns -> [entry : 0..MaxEntries, seen : SUBSET Directions, counted : BOOLEAN,
                            open : BOOLEAN, busy : SUBSET Directions, counting : SUBSET Directions]]
    /\ flush \in {"none", "taking", "posting"}
    /\ taken \in [entry : 0..MaxEntries, bytes : Nat, both : Nat]
    /\ reporter \in {"running", "stopping", "final", "done"}
    /\ owed \in [bytes : Nat, both : Nat]
    /\ late \subseteq Entries /\ failed \in BOOLEAN

UsageInit ==
    /\ usage = [e \in Entries |-> NoUsage]
    /\ listed = 0
    /\ conns = [c \in Conns |-> NoConn]
    /\ flush = "none" /\ taken = Nothing
    /\ reporter = "running"
    /\ owed = [bytes |-> 0, both |-> 0]
    /\ late = {} /\ failed = FALSE

\* Entries are numbered as they are made.
Fresh == {1 + Max({conns[c].entry : c \in Conns})} \cap Entries

(***************************************************************************)
(* Connections.                                                            *)
(***************************************************************************)
\* NewConn: acquire finds the device's entry or makes one, under r.mu.
Acquire(c) ==
    /\ conns[c] = NoConn /\ flush # "taking" /\ reporter = "running"
    /\ \E e \in IF listed # 0 THEN {listed} ELSE Fresh :
          /\ listed' = e
          /\ usage' = [usage EXCEPT ![e].open = @ + 1]
          /\ conns' = [conns EXCEPT ![c] = [NoConn EXCEPT !.entry = e, !.open = TRUE]]
    /\ UNCHANGED <<flush, taken, reporter, owed, late, failed>>

\* The entries of late counts: e is dropped and not about to come back.
LateOn(e) == IF e = listed THEN late ELSE late \cup {e}

\* countIfBidirectional: this read or write makes the connection bidirectional.
BecomesBidirectional(c, dir) == conns[c].seen \cup {dir} = Directions /\ ~conns[c].counted

\* A read or write has moved bytes: the flag is set and the connection counted first.
IOBegins(c, dir) ==
    LET e == conns[c].entry
        n == IF BecomesBidirectional(c, dir) THEN 1 ELSE 0
    IN /\ conns[c].open /\ dir \notin conns[c].busy
       /\ owed.bytes + Cardinality({x \in Conns \X Directions : x[2] \in conns[x[1]].busy}) < MaxOwed
       /\ conns' = [conns EXCEPT ![c].seen = @ \cup {dir}, ![c].counted = @ \/ n = 1,
                                 ![c].busy = @ \cup {dir},
                                 ![c].counting = IF n = 1 THEN @ \cup {dir} ELSE @]
       /\ usage' = [usage EXCEPT ![e].both = @ + n]
       /\ owed' = [owed EXCEPT !.both = @ + n]
       /\ UNCHANGED <<listed, flush, taken, reporter, late, failed>>

\* A PacketConn counts bytes only; so does a connection without a category.
PacketIO(c) ==
    LET e == conns[c].entry
    IN /\ conns[c].open /\ owed.bytes < MaxOwed
       /\ usage' = [usage EXCEPT ![e].bytes = @ + 1]
       /\ owed' = [owed EXCEPT !.bytes = @ + 1]
       /\ UNCHANGED <<listed, conns, flush, taken, reporter, late, failed>>

\* Then its bytes, perhaps after Close.
IOEnds(c, dir) ==
    LET e == conns[c].entry
    IN /\ dir \in conns[c].busy
       /\ conns' = [conns EXCEPT ![c].busy = @ \ {dir}, ![c].counting = @ \ {dir}]
       /\ usage' = [usage EXCEPT ![e].bytes = @ + 1]
       /\ owed' = [owed EXCEPT !.bytes = @ + 1]
       /\ late' = LateOn(e)
       /\ UNCHANGED <<listed, flush, taken, reporter, failed>>

\* Close, once: the entry is released.
CloseCounted(c) ==
    /\ conns[c].open
    /\ conns' = [conns EXCEPT ![c].open = FALSE]
    /\ usage' = [usage EXCEPT ![conns[c].entry].open = @ - 1]
    /\ UNCHANGED <<listed, flush, taken, reporter, owed, late, failed>>

(***************************************************************************)
(* A flush.                                                                *)
(***************************************************************************)
\* The second flush in a row without connections drops the entry.
Dropped(e) == usage[e].open = 0 /\ usage[e].idle

\* flush under r.mu, up to the swap of the byte counter.
FlushBegins ==
    /\ flush = "none" /\ listed # 0
    /\ reporter \in {"running", "stopping"}
    /\ \E last \in BOOLEAN :
          /\ last => reporter = "stopping"
          /\ reporter' = IF last THEN "final" ELSE reporter
    /\ flush' = "taking"
    /\ usage' = [usage EXCEPT ![listed].idle = (usage[listed].open = 0), ![listed].bytes = 0]
    /\ listed' = IF Dropped(listed) THEN 0 ELSE listed
    /\ taken' = [entry |-> listed, bytes |-> usage[listed].bytes, both |-> 0]
    /\ failed' = FALSE
    /\ UNCHANGED <<conns, owed, late>>

\* The loop ends with the last flush.
AfterFlush == IF reporter = "final" THEN "done" ELSE reporter

\* No more connections than bytes go out with a report; the others wait for the next.
Taken(both, bytes) == IF both > bytes THEN bytes ELSE both

FlushTakes ==
    LET e == taken.entry
        n == Taken(usage[e].both, taken.bytes)
    IN /\ flush = "taking"
       /\ usage' = [usage EXCEPT ![e].both = @ - n]
       /\ IF taken.bytes > 0
          THEN flush' = "posting" /\ taken' = [taken EXCEPT !.both = n] /\ UNCHANGED reporter
          ELSE flush' = "none" /\ taken' = Nothing /\ reporter' = AfterFlush
       /\ UNCHANGED <<listed, conns, owed, late, failed>>

\* The sidecar answers.
Reported ==
    /\ flush = "posting"
    /\ owed' = [bytes |-> owed.bytes - taken.bytes, both |-> owed.both - taken.both]
    /\ flush' = "none" /\ taken' = Nothing /\ reporter' = AfterFlush
    /\ UNCHANGED <<usage, listed, conns, late, failed>>

\* restore: the entry of the moment, or the dropped one, listed again.
Relisted(e) == IF listed # 0 THEN listed ELSE e

Restored_Overwrites(e) == [usage EXCEPT ![e].bytes = taken.bytes, ![e].both = taken.both]

Restored(e) == [usage EXCEPT ![e].bytes = @ + taken.bytes, ![e].both = @ + taken.both]

\* An error, a timeout, or Close cuts the flush short; the sidecar may have heard the report.
ReportFails ==
    LET e == taken.entry
    IN /\ flush = "posting"
       /\ usage' = Restored(IF listed # 0 THEN listed ELSE e)
       /\ listed' = Relisted(e)
       /\ flush' = "none" /\ taken' = Nothing /\ reporter' = AfterFlush
       /\ failed' = TRUE
       /\ UNCHANGED <<conns, owed, late>>

\* DatacapTracker.Close, "after the box has closed its connections".
CloseReporter ==
    /\ reporter = "running" /\ \A c \in Conns : ~conns[c].open /\ conns[c].busy = {}
    /\ reporter' = "stopping"
    /\ UNCHANGED <<usage, listed, conns, flush, taken, owed, late, failed>>

\* The last flush finds no device.
FinalFlushEmpty ==
    /\ reporter = "stopping" /\ flush = "none" /\ listed = 0
    /\ reporter' = "done" /\ failed' = FALSE
    /\ UNCHANGED <<usage, listed, conns, flush, taken, owed, late>>

UsageNext ==
    \/ \E c \in Conns :
          \/ Acquire(c) \/ CloseCounted(c) \/ PacketIO(c)
          \/ \E dir \in Directions : IOBegins(c, dir) \/ IOEnds(c, dir)
    \/ FlushBegins \/ FlushTakes \/ Reported \/ ReportFails
    \/ CloseReporter \/ FinalFlushEmpty

UsageSpec == UsageInit /\ [][UsageNext]_usageVars

(***************************************************************************)
(* Properties.                                                             *)
(***************************************************************************)
\* What the entries hold together, unit by unit: the sum of count[e].
Units(count) == UNION {{e} \X (1..count[e]) : e \in Entries}
Held(count) == Cardinality(Units(count))

Bytes == [e \in Entries |-> usage[e].bytes]
Both == [e \in Entries |-> usage[e].both]

\* Neither a byte nor a bidirectional connection is lost or counted twice on the way to the
\* sidecar, however counting, taking, restoring, dropping and re-acquiring interleave: what has
\* been counted and not confirmed is in the entries or in the report.
UsageIsConserved ==
    /\ owed.bytes = Held(Bytes) + taken.bytes
    /\ owed.both = Held(Both) + taken.both

\* "counting first means the bytes that made it bidirectional always carry it" (conn.go, lines
\* 91-93): outside a flush an entry never holds more connections than bytes, apart from reads and
\* writes whose bytes are about to come, so no connection waits for a report that never carries it.
ConnectionsAreCarried ==
    flush = "none" =>
        \A e \in Entries :
            usage[e].both <=
                usage[e].bytes + Cardinality({x \in Conns \X Directions :
                    conns[x[1]].entry = e /\ x[2] \in conns[x[1]].counting})

\* A report never has more connections than bytes, which the sidecar would refuse for ever.
ReportIsAcceptable == flush = "posting" => taken.both <= taken.bytes

\* Dropping a device strands nothing: an entry that no flush will look at again holds nothing,
\* unless a read or write was in progress at the drop, after Close and two flushes.
NothingIsStranded ==
    flush = "none" =>
        \A e \in Entries \ (late \cup {listed}) :
            \/ usage[e].bytes = 0 /\ usage[e].both = 0
            \/ \E c \in Conns : conns[c].entry = e /\ conns[c].busy # {}

\* When Close returns, everything counted has been reported, unless the last flush failed; a flush
\* that Close cut short has put its usage back before the last one takes it.
CloseReportsEverything ==
    reporter = "done" /\ ~failed /\ late = {} => owed.bytes = 0 /\ owed.both = 0

\* All that is counted is reported, in reports the sidecar accepts.
UsageIsAccounted ==
    /\ UsageTypeOK /\ UsageIsConserved /\ ConnectionsAreCarried /\ ReportIsAcceptable
    /\ NothingIsStranded /\ CloseReportsEverything
=============================================================================
