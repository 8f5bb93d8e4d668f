------------------------------ MODULE Throttler ------------------------------
(***************************************************************************)
(* A device's bandwidth throttler, shared by all its connections           *)
(* (tracker/datacap/throttler.go and the waits of conn.go and              *)
(* packet_conn.go).                                                        *)
(*                                                                         *)
(* One of the two buckets; the other runs the same code.  A caller short   *)
(* of tokens takes them anyway and sleeps the bucket's debt off without    *)
(* the lock.  Time is counted in ticks in which Rate bytes are refilled.   *)
(***************************************************************************)
EXTENDS Integers, FiniteSets, FiniteSetsExt

CONSTANTS
    Callers, \* reads and writes of the device's connections
    Rate,    \* bytes per tick; the capacity is one tick's worth
    Sizes,   \* bytes of a read or write
    MaxTime, \* bound on ticks
    MaxDebt  \* bound on the bucket's debt

ASSUME ThrottlerAssumption ==
    Rate \in Nat \ {0} /\ Sizes \subseteq Nat \ {0} /\ MaxTime \in Nat /\ MaxDebt \in Nat

VARIABLES
    now,
    enabled,
    tokens, \* negative: the bucket is in debt
    lastRefill,
    caller, \* caller -> "idle", or how long it sleeps and whether its released is closed
    period  \* history: since when it is enabled, and the bytes let through since

throttlerVars == <<now, enabled, tokens, lastRefill, caller, period>>

Idle == [sleeps |-> FALSE, until |-> 0, released |-> FALSE, size |-> 0]
Sleeping == {w \in Callers : caller[w].sleeps}

ThrottlerInit ==
    /\ now = 0 /\ enabled = FALSE /\ tokens = 0 /\ lastRefill = 0
    /\ caller = [w \in Callers |-> Idle]
    /\ period = [since |-> 0, through |-> 0]

UpdateRates_Refills ==
    /\ enabled' = TRUE
    /\ tokens' = Rate /\ lastRefill' = now
    /\ period' = IF enabled THEN period ELSE [since |-> now, through |-> 0]
    /\ UNCHANGED <<now, caller>>

\* A status says throttle: a fresh bucket if it was disabled, else the tokens stay.
UpdateRates ==
    /\ enabled' = TRUE
    /\ IF enabled
       THEN tokens' = Min({tokens, Rate}) /\ UNCHANGED <<lastRefill, period>>
       ELSE tokens' = Rate /\ lastRefill' = now /\ period' = [since |-> now, through |-> 0]
    /\ UNCHANGED <<now, caller>>

\* A status says full speed: whoever sleeps is released.
Disable ==
    /\ enabled' = FALSE
    /\ caller' = [w \in Callers |-> [caller[w] EXCEPT !.released = caller[w].sleeps]]
    /\ UNCHANGED <<now, tokens, lastRefill, period>>

\* updateThrottleState: a sidecar status throttles the device or gives it full speed back.
UpdateThrottleState(throttle) ==
    \/ throttle /\ UpdateRates
    \/ ~throttle /\ enabled /\ Disable

Refilled == Min({Rate, tokens + (now - lastRefill) * Rate})

\* The time in which a debt is refilled, rounded up to ticks.
Repaid(debt) == (debt + Rate - 1) \div Rate

\* wait: goes through, or sleeps until the whole debt is repaid.
Wait(w, n) ==
    LET left == Refilled - n
    IN /\ enabled /\ ~caller[w].sleeps /\ left >= -MaxDebt
       /\ tokens' = left /\ lastRefill' = now
       /\ IF left >= 0
          THEN period' = [period EXCEPT !.through = @ + n] /\ UNCHANGED caller
          ELSE /\ caller' = [caller EXCEPT ![w] =
                    [sleeps |-> TRUE, until |-> now + Repaid(-left), released |-> FALSE, size |-> n]]
               /\ UNCHANGED period
       /\ UNCHANGED <<now, enabled>>

\* The timer fires.
Woken(w) ==
    /\ caller[w].sleeps /\ now >= caller[w].until
    /\ caller' = [caller EXCEPT ![w] = Idle]
    /\ period' = IF caller[w].released THEN period
                 ELSE [period EXCEPT !.through = @ + caller[w].size]
    /\ UNCHANGED <<now, enabled, tokens, lastRefill>>

\* Disable has closed its channel, or the connection is closed.
Interrupted(w) ==
    /\ caller[w].sleeps
    /\ caller' = [caller EXCEPT ![w] = Idle]
    /\ UNCHANGED <<now, enabled, tokens, lastRefill, period>>

TimePasses ==
    /\ now < MaxTime
    /\ now' = now + 1
    /\ UNCHANGED <<enabled, tokens, lastRefill, caller, period>>

ThrottlerNext ==
    \/ (\E throttle \in BOOLEAN : UpdateThrottleState(throttle)) \/ TimePasses
    \/ \E w \in Callers :
          \/ \E n \in Sizes : Wait(w, n)
          \/ Woken(w) \/ Interrupted(w)

ThrottlerSpec == ThrottlerInit /\ [][ThrottlerNext]_throttlerVars

\* While it throttles, all connections of a device together get no more than the burst of one tick
\* and the rate, although every report refreshes the rates and any number of callers sleep at once.
RateHolds ==
    enabled => period.through <= Rate * (1 + now - period.since)

\* A device back at full speed has no connection left sleeping off an old debt.
NobodySleepsUnthrottled == ~enabled => \A w \in Sleeping : caller[w].released

\* Callers queue behind the debt: one that begins to sleep wakes no earlier than those that already
\* do, and a refresh of the rates does not change that.
LaterCallersQueue ==
    [][\A w, x \in Callers :
          w \in Sleeping /\ ~caller[w].released /\ x \notin Sleeping /\ caller'[x].sleeps =>
              caller[w].until <= caller'[x].until \/ caller[w].until <= now]_throttlerVars

\* A throttled device gets its rate in turn, and an unthrottled one is not held up.
ThrottleIsFair ==
    /\ [](RateHolds /\ NobodySleepsUnthrottled)
    /\ LaterCallersQueue
=============================================================================
