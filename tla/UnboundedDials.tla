--------------------------- MODULE UnboundedDials ---------------------------
(***************************************************************************)
(* The Unbounded outbound (protocol/unbounded/outbound.go, watchdog.go):   *)
(* building the engine and the QUIC layer over it, dialling through them,  *)
(* and the watchdog that judges the pairing from the time of the dials     *)
(* that succeed.                                                           *)
(*                                                                         *)
(* A dial that succeeds was "fast", "medium" or "slow".                    *)
(***************************************************************************)
EXTENDS Integers, Sequences, FiniteSets

CONSTANTS
    Window,              \* w.window
    ConsecutiveSlowMin,
    MaxTrips,            \* w.maxTripsPerLifetime
    MaxDialing,          \* bound on dials at a time
    RoomsOnly            \* whether this outbound dials through helpers only

\* init clamps the configuration to this.
ASSUME DialsAssumption ==
    /\ Window \in Nat \ {0} /\ ConsecutiveSlowMin \in 1..Window
    /\ MaxTrips \in Nat /\ MaxDialing \in Nat /\ RoomsOnly \in BOOLEAN

VARIABLES
    engine,        \* broflake: "none", "running" or "stopped"
    quic,          \* the QUIC layer: "none", "open" or "closed"
    phase,         \* of Start and Close: "new", "starting", "started", "failed", "closing", "closed"
    helper,        \* a slot is connected
    dialing,       \* dials in progress
    ring, writeIdx, filled, tripped, tripsTotal,
    recent,        \* the last Window samples, oldest first
    event          \* what record reported last

buildVars == <<engine, quic, phase>>
watchVars == <<ring, writeIdx, filled, tripped, tripsTotal, recent, event>>
dialsVars == <<buildVars, helper, dialing, watchVars>>

Speeds == {"fast", "medium", "slow"}

DialsInit ==
    /\ engine = "none" /\ quic = "none" /\ phase = "new" /\ helper = FALSE /\ dialing = 0
    /\ ring = [i \in 0..(Window - 1) |-> "fast"]
    /\ writeIdx = 0 /\ filled = FALSE /\ tripped = FALSE /\ tripsTotal = 0
    /\ recent = <<>> /\ event = "none"

(***************************************************************************)
(* Start and Close                                                         *)
(***************************************************************************)
EngineStarts(ok) ==
    /\ phase = "new"
    /\ phase' = IF ok THEN "starting" ELSE "failed"
    /\ engine' = IF ok THEN "running" ELSE engine
    /\ UNCHANGED <<quic, helper, dialing, watchVars>>

\* If there is no QUIC layer the engine is stopped again.
QUICStarts(ok) ==
    /\ phase = "starting"
    /\ phase' = IF ok THEN "started" ELSE "failed"
    /\ quic' = IF ok THEN "open" ELSE quic
    /\ engine' = IF ok THEN engine ELSE "stopped"
    /\ UNCHANGED <<helper, dialing, watchVars>>

\* The engine stops before the layer its workers drain into is closed.
CloseStopsEngine ==
    /\ phase \in {"started", "failed", "new"}
    /\ phase' = "closing"
    /\ engine' = IF phase = "started" THEN "stopped" ELSE engine
    /\ UNCHANGED <<quic, helper, dialing, watchVars>>

CloseClosesQUIC ==
    /\ phase = "closing"
    /\ phase' = "closed"
    /\ quic' = IF quic = "open" THEN "closed" ELSE quic
    /\ UNCHANGED <<engine, helper, dialing, watchVars>>

(***************************************************************************)
(* Dials                                                                   *)
(***************************************************************************)
HelperChanges ==
    /\ engine = "running"
    /\ helper' = ~helper
    /\ UNCHANGED <<buildVars, dialing, watchVars>>

\* checkHelperConnected fails a dial at once that only a helper could carry.
DialStarts ==
    /\ phase \in {"started", "closing", "closed"} /\ quic # "none"
    /\ RoomsOnly => helper
    /\ dialing < MaxDialing
    /\ dialing' = dialing + 1
    /\ UNCHANGED <<buildVars, helper, watchVars>>

DialFails ==
    /\ dialing > 0
    /\ dialing' = dialing - 1
    /\ UNCHANGED <<buildVars, helper, watchVars>>

(***************************************************************************)
(* The watchdog                                                            *)
(***************************************************************************)
RecentLocked_OffByOne(r, next, n) ==
    {r[(next - i + Window) % Window] : i \in 0..(n - 1)}

\* The n samples before the slot that is written next.
RecentLocked(r, next, n) ==
    {r[(next - 1 - i + Window) % Window] : i \in 0..(n - 1)}

Unhealthy(r, next, full) ==
    /\ full /\ tripsTotal < MaxTrips
    /\ \A i \in DOMAIN r : r[i] # "fast"
    /\ RecentLocked(r, next, ConsecutiveSlowMin) = {"slow"}

LastWindow(s) == IF Len(s) > Window THEN Tail(s) ELSE s

\* record
DialSucceeds(speed) ==
    LET next == (writeIdx + 1) % Window
        r == [ring EXCEPT ![writeIdx] = speed]
        full == filled \/ next = 0
        trips == ~tripped /\ Unhealthy(r, next, full)
        rearms == tripped /\ speed = "fast"
    IN /\ dialing > 0 /\ quic = "open"
       /\ dialing' = dialing - 1
       /\ ring' = r /\ writeIdx' = next /\ filled' = full
       /\ tripped' = IF trips THEN TRUE ELSE tripped /\ ~rearms
       /\ tripsTotal' = tripsTotal + (IF trips THEN 1 ELSE 0)
       /\ event' = IF trips THEN "tripped" ELSE IF rearms THEN "rearmed" ELSE "none"
       /\ recent' = LastWindow(Append(recent, speed))
       /\ UNCHANGED <<buildVars, helper>>

DialsNext ==
    \/ \E ok \in BOOLEAN : EngineStarts(ok) \/ QUICStarts(ok)
    \/ CloseStopsEngine \/ CloseClosesQUIC \/ HelperChanges \/ DialStarts \/ DialFails
    \/ \E speed \in Speeds : DialSucceeds(speed)

DialsSpec == DialsInit /\ [][DialsNext]_dialsVars

(***************************************************************************)
(* Properties                                                              *)
(***************************************************************************)
\* The engine never runs without the layer that drains it, except while Start is building that layer:
\* neither a Start that fails half-way nor the order of Close strands its workers.
EngineIsDrained == engine = "running" => quic = "open" \/ phase = "starting"

SlowTail(s) == {s[i] : i \in (Len(s) - ConsecutiveSlowMin + 1)..Len(s)}

\* The watchdog trips exactly when the last Window dials held no fast one and the last
\* ConsecutiveSlowMin were slow, and it had not tripped since the last fast dial: the ring remembers
\* the dials that matter, also when it wraps.
TripsWhenUnhealthy ==
    [][recent' # recent \/ ring' # ring =>
          (event' = "tripped" <=> /\ ~tripped /\ tripsTotal < MaxTrips
                                  /\ Len(recent') = Window
                                  /\ "fast" \notin {recent'[i] : i \in DOMAIN recent'}
                                  /\ SlowTail(recent') = {"slow"})]_dialsVars

\* The outbound is torn down and judged as it should be, through failing starts and any sequence of
\* dials.
OutboundIsSound == []EngineIsDrained /\ TripsWhenUnhealthy
=============================================================================
